---------------------------- MODULE ConfigProofs ----------------------------
(***************************************************************************)
(* What a client that starts makes of its configuration file, and that the *)
(* file keeps what was saved, for any files, edits and command lines, and  *)
(* whatever the strings in them are.                                       *)
(***************************************************************************)
EXTENDS Config, WellFoundedInduction, TLAPS

-----------------------------------------------------------------------------
(* The invariant.                                                           *)

\* What the object keeps of a line: a variable's name has no blanks, and a comment is none.
Element ==
  ({"nv"} \X (String \ ({""} \cup DOMAIN Padded))) \cup ({"comment", "empty"} \X (String \ Variables))

\* Each variable has its place in the file.
Data(nv, ffd) ==
  /\ ffd \in Seq(Element)
  /\ nv \in [DOMAIN nv -> String]
  /\ \A n \in DOMAIN nv : \E i \in DOMAIN ffd : ffd[i] = <<"nv", n>>

\* p is what is read of a file with the variables names of nv.
ReadsAs(p, nv, names) ==
  /\ p.ok /\ DOMAIN p.nv = names
  /\ \A n \in names : p.nv[n] = trim(nv[n])

\* The variables with a place before the element at.
Before(nv, ffd, at) == {n \in DOMAIN nv : \E k \in 1 .. (at - 1) : ffd[k] = <<"nv", n>>}

\* As long as no line is lost, the file holds what has been written so far.
Writing ==
  gui.st = "writing" =>
    /\ ~saved.done /\ gui.at \in Nat \ {0}
    /\ gui.then = "saved" => ValidateConfigData(gui.nv) = {}
    /\ ~saved.lost => ReadsAs(ReadConfigurationData(file), gui.nv, Before(gui.nv, gui.ffd, gui.at))

\* And after the last one, all that was saved.
Saved ==
  saved.done /\ ~saved.lost =>
    /\ saved.nv \in [DOMAIN saved.nv -> String] /\ ValidateConfigData(saved.nv) = {}
    /\ ReadsAs(ReadConfigurationData(file), saved.nv, DOMAIN saved.nv)

FileInv ==
  /\ file \in Seq(Line)
  /\ DOMAIN gui = {"st", "nv", "ffd", "valid", "at", "then"} /\ Data(gui.nv, gui.ffd)
  /\ DOMAIN saved = {"done", "nv", "lost"}
  /\ Writing /\ Saved

\* What an Android client starts with.
AndroidStarted ==
  client.st = "started" /\ client.build = "android" =>
    LET r == Overridden(tspReadConfigFile_Android(client.got), client.cmd)
    IN client.status = r.status /\ client.conf = r.conf

ClientInv ==
  /\ DOMAIN client = {"st", "build", "cmd", "got", "status", "conf"} /\ client.got \in Seq(Line)
  /\ AcceptedConsistent /\ AndroidStarted

IInv == FileInv /\ ClientInv

-----------------------------------------------------------------------------
(* Reading a file line by line: what FoldLeft() computes.                   *)

\* A set of natural numbers has a least element.
LEMMA LeastNumber ==
  ASSUME NEW T, T \subseteq Nat, T # {}
  PROVE  \E x \in T : \A y \in T : x <= y
<1> DEFINE R == OpToRel(<, Nat)
<1>1. IsWellFoundedOn(R, Nat)
  BY NatLessThanWellFounded, Zenon
<1>2. \E x \in T : \A y \in T : ~ (<<y, x>> \in R)
  <2> HIDE DEF R
  <2> QED BY <1>1, WFMin, Zenon
<1>3. \A x, y \in Nat : ~(<<y, x>> \in R) => x <= y
  BY DEF OpToRel
<1> QED BY <1>2, <1>3

LEMMA MaxIs == ASSUME NEW m \in Nat, NEW S \in SUBSET (1 .. m), m \in S PROVE Max(S) = m
<1>1. m \in S /\ \A y \in S : m >= y
  OBVIOUS
<1>2. \A x \in S : (\A y \in S : x >= y) => x = m
  BY <1>1
<1> QED BY <1>1, <1>2 DEF Max

\* The readers of the two builds, on one line and on a file.
Reader(build, r, l) == IF build = "android" THEN AndroidLine(r, l) ELSE ReadLine(r, l)
Start(build) == IF build = "android" THEN [status |-> "SUCCESS", conf |-> AndroidDefaults]
                ELSE [ok |-> TRUE, nv |-> Empty, ffd |-> <<>>]
ReadBy(build, s) == IF build = "android" THEN tspReadConfigFile_Android(s) ELSE ReadConfigurationData(s)

\* f is what is read of each set of lines among the first m.
Reads(f, build, s, m) ==
  \A S \in SUBSET (1 .. m) :
    f[S] = IF S = {} THEN Start(build) ELSE Reader(build, f[S \ {Max(S)}], s[Max(S)])

LEMMA ReadsExists == ASSUME NEW build, NEW s PROVE \A m \in Nat : \E f : Reads(f, build, s, m)
<1> DEFINE T == {m \in Nat : ~\E f : Reads(f, build, s, m)}
           b == Start(build)
<1> SUFFICES ASSUME T # {} PROVE FALSE
  OBVIOUS
<1>1. PICK m \in T : \A y \in T : m <= y
  <2> HIDE DEF T
  <2>1. T \subseteq Nat
    BY DEF T
  <2> QED BY <2>1, LeastNumber
<1>2. m \in Nat /\ ~\E f : Reads(f, build, s, m)
  OBVIOUS
<1>3. PICK g : m # 0 => Reads(g, build, s, m - 1)
  <2>1. m # 0 => m - 1 \in Nat /\ m - 1 \notin T
    BY <1>1, <1>2
  <2> QED BY <2>1
<1> HIDE DEF b
<1> DEFINE h == [S \in SUBSET (1 .. m) |->
                   IF S = {} THEN b ELSE IF m \in S /\ S \ {m} = {} THEN Reader(build, b, s[m])
                   ELSE IF m \in S THEN Reader(build, g[S \ {m}], s[m]) ELSE g[S]]
<1>4. ASSUME NEW S \in SUBSET (1 .. m)
      PROVE  h[S] = IF S = {} THEN b ELSE Reader(build, h[S \ {Max(S)}], s[Max(S)])
  <2>1. CASE S = {}
    BY <2>1
  <2>2. CASE m \in S
    <3>1. Max(S) = m
      BY <1>2, <2>2, MaxIs
    <3>2. S \ {m} \in SUBSET (1 .. m) /\ m \notin S \ {m}
      OBVIOUS
    <3>3. h[S \ {m}] = IF S \ {m} = {} THEN b ELSE g[S \ {m}]
      BY <3>2
    <3>4. h[S] = IF S \ {m} = {} THEN Reader(build, b, s[m]) ELSE Reader(build, g[S \ {m}], s[m])
      BY <2>2
    <3> QED BY <2>2, <3>1, <3>3, <3>4
  <2>3. CASE S # {} /\ m \notin S
    <3>1. m # 0 /\ S \in SUBSET (1 .. (m - 1))
      <4>1. \A x \in S : x \in 1 .. m /\ x # m
        BY <2>3
      <4>2. \A x \in S : x \in 1 .. (m - 1)
        BY <1>2, <4>1
      <4>3. 1 .. 0 = {}
        OBVIOUS
      <4> QED BY <2>3, <4>2, <4>3
    <3>2. g[S] = Reader(build, g[S \ {Max(S)}], s[Max(S)])
      BY <1>3, <2>3, <3>1 DEF Reads
    <3>3. h[S] = g[S]
      BY <2>3
    <3>4. S \ {Max(S)} \in SUBSET (1 .. m) /\ S \ {Max(S)} \in SUBSET (1 .. (m - 1)) /\ m \notin S \ {Max(S)}
      BY <2>3, <3>1
    <3>5. h[S \ {Max(S)}] = g[S \ {Max(S)}]
      <4>1. CASE S \ {Max(S)} = {}
        <5>1. {} \in SUBSET (1 .. (m - 1))
          OBVIOUS
        <5>2. g[{}] = b
          BY <1>3, <3>1, <5>1 DEF Reads, b
        <5> QED BY <3>4, <4>1, <5>2
      <4> QED BY <3>4, <4>1
    <3> QED BY <2>3, <3>2, <3>3, <3>5
  <2> QED BY <2>1, <2>2, <2>3
<1>5. Reads(h, build, s, m)
  <2> HIDE DEF h
  <2> QED BY <1>4 DEF Reads, b
<1> QED BY <1>2, <1>5

\* FoldLeft() gives a function of the sets of lines, of which the last one is read last.
LEMMA FoldReads ==
  ASSUME NEW build, NEW s \in Seq(Line)
  PROVE  \E f : Reads(f, build, s, Len(s)) /\ f[DOMAIN s] = ReadBy(build, s)
<1> DEFINE n == Len(s)
           b == Start(build)
           Body(f) == [S \in SUBSET DOMAIN s |->
                         IF S = {} THEN b ELSE Reader(build, f[S \ {Max(S)}], s[Max(S)])]
           Desktop(f) == [S \in SUBSET DOMAIN s |->
                         IF S = {} THEN [ok |-> TRUE, nv |-> Empty, ffd |-> <<>>]
                         ELSE ReadLine(f[S \ {Max(S)}], s[Max(S)])]
           Android(f) == [S \in SUBSET DOMAIN s |->
                         IF S = {} THEN [status |-> "SUCCESS", conf |-> AndroidDefaults]
                         ELSE AndroidLine(f[S \ {Max(S)}], s[Max(S)])]
           desktop == CHOOSE f : f = Desktop(f)
           android == CHOOSE f : f = Android(f)
           iter == IF build = "android" THEN android ELSE desktop
<1>0. n \in Nat /\ DOMAIN s = 1 .. n
  OBVIOUS
<1>1. ReadBy(build, s) = iter[DOMAIN s]
  BY DEF ReadBy, ReadConfigurationData, tspReadConfigFile_Android, FoldLeft, MapThenFoldSet
<1>2. PICK g : Reads(g, build, s, n)
  <2> HIDE DEF n
  <2> QED BY <1>0, ReadsExists
<1>3. \E f : f = Body(f)
  <2> HIDE DEF b
  <2> DEFINE F == [S \in SUBSET (1 .. n) |-> g[S]]
  <2>1. ASSUME NEW S \in SUBSET (1 .. n)
        PROVE  F[S] = IF S = {} THEN b ELSE Reader(build, F[S \ {Max(S)}], s[Max(S)])
    BY <1>2 DEF Reads, b
  <2> HIDE DEF F
  <2>2. F = Body(F)
    BY <1>0, <2>1 DEF F
  <2> QED BY <2>2
<1>4. build = "android" => \A f : Body(f) = Android(f)
  BY DEF Reader, Start
<1>5. build # "android" => \A f : Body(f) = Desktop(f)
  BY DEF Reader, Start
<1>6. iter = Body(iter)
  <2>1. CASE build = "android"
    <3>1. \E f : f = Android(f)
      <4> HIDE DEF Body, Android
      <4> QED BY <1>3, <1>4, <2>1
    <3>2. android = Android(android)
      BY <3>1
    <3> HIDE DEF android, Android, Body
    <3> QED BY <1>4, <2>1, <3>2
  <2>2. CASE build # "android"
    <3>1. \E f : f = Desktop(f)
      <4> HIDE DEF Body, Desktop
      <4> QED BY <1>3, <1>5, <2>2
    <3>2. desktop = Desktop(desktop)
      BY <3>1
    <3> HIDE DEF desktop, Desktop, Body
    <3> QED BY <1>5, <2>2, <3>2
  <2> QED BY <2>1, <2>2
<1> HIDE DEF iter
<1>7. Reads(iter, build, s, n)
  BY <1>0, <1>6 DEF Reads
<1> QED BY <1>1, <1>7

\* What has been read before the first line and after each.
IsTrace(h, build, s) ==
  /\ h[0] = Start(build)
  /\ \A i \in 1 .. Len(s) : h[i] = Reader(build, h[i - 1], s[i])

\* Reading a file goes through its lines one by one.
LEMMA ReadTrace ==
  ASSUME NEW build, NEW s \in Seq(Line)
  PROVE  \E h : IsTrace(h, build, s) /\ h[Len(s)] = ReadBy(build, s)
<1>1. PICK f : Reads(f, build, s, Len(s)) /\ f[DOMAIN s] = ReadBy(build, s)
  BY FoldReads
<1> DEFINE n == Len(s)
           h == [i \in 0 .. n |-> f[1 .. i]]
<1>2. n \in Nat /\ DOMAIN s = 1 .. n
  OBVIOUS
<1> HIDE DEF n
<1>3. h[0] = Start(build)
  <2>1. 1 .. 0 = {}
    OBVIOUS
  <2>2. {} \in SUBSET (1 .. n)
    OBVIOUS
  <2>3. f[{}] = Start(build)
    BY <1>1, <2>2 DEF Reads, n
  <2>4. h[0] = f[1 .. 0]
    BY <1>2
  <2> QED BY <2>1, <2>3, <2>4
<1>4. ASSUME NEW i \in 1 .. n PROVE h[i] = Reader(build, h[i - 1], s[i])
  <2>1. i \in Nat /\ 1 .. i \in SUBSET (1 .. n) /\ i \in 1 .. i
    BY <1>2
  <2>2. Max(1 .. i) = i
    BY <2>1, MaxIs
  <2>3. (1 .. i) \ {i} = 1 .. (i - 1)
    BY <2>1
  <2>4. f[1 .. i] = Reader(build, f[1 .. (i - 1)], s[i])
    BY <1>1, <2>1, <2>2, <2>3 DEF Reads, n
  <2>5. h[i] = f[1 .. i] /\ h[i - 1] = f[1 .. (i - 1)]
    BY <1>2
  <2> QED BY <2>4, <2>5
<1>5. h[n] = f[DOMAIN s]
  BY <1>2
<1> HIDE DEF h
<1> QED BY <1>1, <1>3, <1>4, <1>5 DEF IsTrace, n

\* A line at the end of a file is read after what is before it.
LEMMA ReadAppended ==
  ASSUME NEW s \in Seq(Line), NEW l \in Line
  PROVE  ReadConfigurationData(s \o <<l>>) = ReadLine(ReadConfigurationData(s), l)
<1> DEFINE t == s \o <<l>>
           n == Len(s)
<1>1. t \in Seq(Line) /\ Len(t) = n + 1 /\ t[n + 1] = l /\ \A i \in 1 .. n : t[i] = s[i]
  OBVIOUS
<1>2. n \in Nat
  OBVIOUS
<1> HIDE DEF t, n
<1>3. PICK h : IsTrace(h, "desktop", s) /\ h[n] = ReadBy("desktop", s)
  BY ReadTrace DEF n
<1>4. PICK g : IsTrace(g, "desktop", t) /\ g[n + 1] = ReadBy("desktop", t)
  BY <1>1, ReadTrace
<1> DEFINE T == {i \in 0 .. n : g[i] # h[i]}
<1>5. T = {}
  <2> SUFFICES ASSUME T # {} PROVE FALSE
    OBVIOUS
  <2>1. PICK i \in T : \A j \in T : i <= j
    <3>1. T \subseteq Nat
      BY <1>2
    <3> HIDE DEF T
    <3> QED BY <3>1, LeastNumber
  <2>2. i \in 0 .. n /\ g[i] # h[i]
    OBVIOUS
  <2>3. i # 0
    BY <1>3, <1>4, <2>2 DEF IsTrace
  <2>4. i - 1 \in 0 .. n /\ i \in 1 .. n /\ ~(i <= i - 1)
    BY <1>2, <2>2, <2>3
  <2>5. g[i - 1] = h[i - 1]
    BY <2>1, <2>4
  <2>6. g[i] = Reader("desktop", g[i - 1], t[i]) /\ h[i] = Reader("desktop", h[i - 1], s[i])
    BY <1>1, <1>2, <1>3, <1>4, <2>4 DEF IsTrace, n
  <2> QED BY <1>1, <2>2, <2>4, <2>5, <2>6
<1>6. g[n] = h[n]
  BY <1>2, <1>5
<1>7. g[n + 1] = Reader("desktop", g[n], l)
  <2>1. n + 1 \in 1 .. Len(t) /\ (n + 1) - 1 = n
    BY <1>1, <1>2
  <2>2. g[n + 1] = Reader("desktop", g[(n + 1) - 1], t[n + 1])
    BY <1>4, <2>1 DEF IsTrace
  <2> QED BY <1>1, <2>1, <2>2
<1> QED BY <1>3, <1>4, <1>6, <1>7 DEF Reader, ReadBy, t

LEMMA ReadNothing == ReadConfigurationData(<<>>) = [ok |-> TRUE, nv |-> Empty, ffd |-> <<>>]
<1>1. PICK h : IsTrace(h, "desktop", <<>>) /\ h[Len(<<>>)] = ReadBy("desktop", <<>>)
  <2>1. <<>> \in Seq(Line)
    OBVIOUS
  <2> QED BY <2>1, ReadTrace
<1> QED BY <1>1 DEF IsTrace, ReadBy, Start

\* What a file gives is data of an object.
Parsed(p) ==
  p = [ok |-> p.ok, nv |-> p.nv, ffd |-> p.ffd] /\ p.ok \in BOOLEAN /\ Data(p.nv, p.ffd)

LEMMA TrimIs ==
  /\ \A s \in String : trim(s) \in String \ DOMAIN Padded /\ trim(trim(s)) = trim(s)
  /\ \A w \in Words : trim(w) = w
  BY PaddedAssumption DEF trim, String

LEMMA EmptyIs == "" \in Words /\ "" \in String \ Variables
  BY DEF String, Variables, Default, Words, YesNo

LEMMA AddedIsParsed ==
  ASSUME NEW p, Parsed(p), NEW name \in String, NEW value \in String
  PROVE  Parsed(AddNameValue(p, name, value)) /\ AddNameValue(p, name, value).ok = p.ok
<1> DEFINE q == AddNameValue(p, name, value)
           x == trim(name)
           v == trim(value)
<1>1. x \in String \ DOMAIN Padded /\ v \in String
  BY TrimIs
<1>2. CASE x = ""
  BY <1>2 DEF AddNameValue
<1>3. CASE x # ""
  <2> HIDE DEF x, v
  <2>1. /\ p.nv \in [DOMAIN p.nv -> String] /\ p.ffd \in Seq(Element)
        /\ \A n \in DOMAIN p.nv : \E i \in DOMAIN p.ffd : p.ffd[i] = <<"nv", n>>
    BY DEF Parsed, Data
  <2>2. q = [p EXCEPT !.ffd = Append(@, <<"nv", x>>), !.nv = Put(@, x, v)]
    BY <1>3 DEF AddNameValue, x, v
  <2>3. q = [ok |-> p.ok, nv |-> Put(p.nv, x, v), ffd |-> Append(p.ffd, <<"nv", x>>)]
    BY <2>2 DEF Parsed
  <2> HIDE DEF q
  <2>4. q.nv = Put(p.nv, x, v) /\ q.ffd = Append(p.ffd, <<"nv", x>>) /\ q.ok = p.ok
    BY <2>3
  <2>5. <<"nv", x>> \in Element
    BY <1>1, <1>3 DEF Element
  <2>6. q.ffd \in Seq(Element) /\ Len(q.ffd) = Len(p.ffd) + 1 /\ q.ffd[Len(p.ffd) + 1] = <<"nv", x>>
        /\ DOMAIN p.ffd \subseteq DOMAIN q.ffd /\ Len(p.ffd) + 1 \in DOMAIN q.ffd
        /\ \A i \in DOMAIN p.ffd : q.ffd[i] = p.ffd[i]
    BY <2>1, <2>4, <2>5
  <2>9. q.nv = [n \in DOMAIN p.nv \cup {x} |-> IF n = x THEN v ELSE p.nv[n]]
    BY <2>4 DEF Put
  <2>7. DOMAIN q.nv = DOMAIN p.nv \cup {x} /\ q.nv \in [DOMAIN q.nv -> String]
    BY <1>1, <2>1, <2>9
  <2>8. \A n \in DOMAIN q.nv : \E i \in DOMAIN q.ffd : q.ffd[i] = <<"nv", n>>
    BY <2>1, <2>6, <2>7
  <2> QED BY <2>1, <2>3, <2>4, <2>6, <2>7, <2>8 DEF Parsed, Data, q
<1> QED BY <1>2, <1>3

LEMMA ReadIsParsed ==
  ASSUME NEW p, Parsed(p), NEW l \in Line
  PROVE  Parsed(ReadLine(p, l))
<1>1. l.name \in String /\ l.value \in String /\ l.kind \in {"nv", "name", "comment", "empty", "equals"}
  BY DEF Line
<1>2. CASE ~p.ok
  <2>1. ReadLine(p, l) = p
    BY <1>2 DEF ReadLine
  <2> QED BY <2>1
<1>3. CASE p.ok /\ l.kind = "equals"
  <2>1. ReadLine(p, l) = [p EXCEPT !.ok = FALSE]
    BY <1>3 DEF ReadLine
  <2>2. ReadLine(p, l) = [ok |-> FALSE, nv |-> p.nv, ffd |-> p.ffd]
    BY <2>1 DEF Parsed
  <2> QED BY <2>2 DEF Parsed
<1>4. CASE p.ok /\ l.kind \in {"empty", "comment"}
  <2> DEFINE e == IF l.kind = "empty" THEN <<"empty", "">> ELSE <<"comment", l.name>>
  <2>1. ReadLine(p, l) = [p EXCEPT !.ffd = Append(@, e)]
    BY <1>4 DEF ReadLine, AddComment, AddEmptyLine
  <2>2. e \in Element
    <3>1. "" \in String \ Variables
      BY EmptyIs
    <3>2. l.kind = "comment" => l.name \in String \ Variables
      BY DEF Line
    <3> QED BY <1>4, <3>1, <3>2 DEF Element
  <2> HIDE DEF e
  <2>3. ReadLine(p, l) = [ok |-> p.ok, nv |-> p.nv, ffd |-> Append(p.ffd, e)]
    BY <2>1 DEF Parsed
  <2>4. Append(p.ffd, e) \in Seq(Element) /\ DOMAIN p.ffd \subseteq DOMAIN Append(p.ffd, e)
        /\ \A i \in DOMAIN p.ffd : Append(p.ffd, e)[i] = p.ffd[i]
    BY <2>2 DEF Parsed, Data
  <2>5. ReadLine(p, l).nv = p.nv /\ ReadLine(p, l).ffd = Append(p.ffd, e) /\ ReadLine(p, l).ok = p.ok
    BY <2>3
  <2>6. Data(p.nv, Append(p.ffd, e))
    BY <2>4 DEF Parsed, Data
  <2> QED BY <2>3, <2>5, <2>6 DEF Parsed
<1>5. CASE p.ok /\ l.kind = "name"
  <2>1. ReadLine(p, l) = AddNameValue(p, l.name, "")
    BY <1>5 DEF ReadLine
  <2> QED BY <1>1, <2>1, AddedIsParsed, EmptyIs
<1>6. CASE p.ok /\ l.kind = "nv"
  <2>1. ReadLine(p, l) = AddNameValue(p, l.name, l.value)
    BY <1>6 DEF ReadLine
  <2> QED BY <1>1, <2>1, AddedIsParsed
<1> QED BY <1>1, <1>2, <1>3, <1>4, <1>5, <1>6

LEMMA FileIsParsed == ASSUME NEW s \in Seq(Line) PROVE Parsed(ReadConfigurationData(s))
<1>1. PICK h : IsTrace(h, "desktop", s) /\ h[Len(s)] = ReadBy("desktop", s)
  BY ReadTrace
<1> DEFINE n == Len(s)
           T == {i \in 0 .. n : ~Parsed(h[i])}
<1>2. n \in Nat /\ \A i \in 1 .. n : s[i] \in Line
  OBVIOUS
<1> HIDE DEF n
<1>3. T = {}
  <2> SUFFICES ASSUME T # {} PROVE FALSE
    OBVIOUS
  <2>1. PICK i \in T : \A j \in T : i <= j
    <3>1. T \subseteq Nat
      BY <1>2
    <3> HIDE DEF T
    <3> QED BY <3>1, LeastNumber
  <2>2. i \in 0 .. n /\ ~Parsed(h[i])
    OBVIOUS
  <2>3. Parsed(h[0])
    <3>1. h[0] = [ok |-> TRUE, nv |-> <<>>, ffd |-> <<>>]
      BY <1>1 DEF IsTrace, Start, Empty
    <3> QED BY <3>1 DEF Parsed, Data
  <2>4. i - 1 \in 0 .. n /\ i \in 1 .. n /\ ~(i <= i - 1)
    BY <1>2, <2>2, <2>3
  <2>5. Parsed(h[i - 1])
    BY <2>1, <2>4
  <2>6. h[i] = ReadLine(h[i - 1], s[i])
    BY <1>1, <2>4 DEF IsTrace, Reader, n
  <2> QED BY <1>2, <2>2, <2>4, <2>5, <2>6, ReadIsParsed
<1> QED BY <1>1, <1>2, <1>3 DEF ReadBy, n

-----------------------------------------------------------------------------
(* The two readers.                                                         *)

LEMMA AndroidReadsAre ==
  AndroidReads \subseteq Texts /\ "tunnel_mode" \in Texts /\ "tunnel_mode" \notin AndroidReads
  BY DEF AndroidReads, Texts, Variables, Default, Booleans, Integers_, LogLevels

\* What the Android reader has is a configuration all along.
AndroidRead(r) ==
  /\ DOMAIN r = {"status", "conf"}
  /\ DOMAIN r.conf = {"text", "number", "bool"}
  /\ DOMAIN r.conf.text = Texts

LEMMA AndroidStarts == AndroidRead(Start("android"))
<1> DEFINE set == [auth_method |-> "anonymous", server |-> "anonymous.freenet6.net", template |-> "android",
                   gogoc_dir |-> "dataDir", log_filename |-> "dataDir log",
                   broker_list |-> "broker_list_file", last_server |-> "last_server_file",
                   if_tunnel_v6v4 |-> "sit1", if_tunnel_v6udpv4 |-> "tun", if_tunnel_v4v6 |-> "sit0"]
           f == Filled(Empty)
<1>1. DOMAIN f = {"text", "number", "bool"} /\ DOMAIN f.text = Texts
  BY DEF Filled
<1>2. DOMAIN AndroidDefaults = DOMAIN f /\ AndroidDefaults.text = Over(set, f.text)
  <2> HIDE DEF f
  <2> QED BY <1>1 DEF AndroidDefaults, f
<1>3. DOMAIN set \subseteq Texts
  BY DEF Texts, Variables, Default, Booleans, Integers_, LogLevels
<1>4. DOMAIN Over(set, f.text) = Texts
  <2> HIDE DEF set, f
  <2> QED BY <1>1, <1>3 DEF Over
<1> HIDE DEF set, f
<1> QED BY <1>1, <1>2, <1>4 DEF AndroidRead, Start

\* One line: its value if it is about a variable that is read, and otherwise nothing new.
LEMMA AndroidLineIs ==
  ASSUME NEW r, AndroidRead(r), NEW l \in Line
  PROVE  /\ AndroidRead(AndroidLine(r, l))
         /\ AndroidLine(r, l).status = "SUCCESS" =>
              /\ r.status = "SUCCESS"
              /\ l.kind = "name" => l.name \notin AndroidReads
              /\ \A n \in AndroidReads :
                   AndroidLine(r, l).conf.text[n] =
                     IF l.kind \in {"nv", "equals"} /\ l.name = n THEN l.value ELSE r.conf.text[n]
<1> DEFINE s == AndroidLine(r, l)
<1>0. l.kind \in {"nv", "name", "comment", "empty", "equals"}
  BY DEF Line
<1>1. CASE r.status # "SUCCESS" \/ l.kind \in {"comment", "empty"}
  <2>1. s = r
    BY <1>1 DEF AndroidLine
  <2> QED BY <1>1, <2>1
<1>2. CASE r.status = "SUCCESS" /\ l.kind = "name"
  <2>1. CASE l.name \in AndroidReads \cup {"tunnel_mode"}
    <3>1. s = [r EXCEPT !.status = "crash"]
      BY <1>2, <2>1 DEF AndroidLine
    <3> HIDE DEF s
    <3>2. DOMAIN s = DOMAIN r /\ s.status = "crash" /\ s.conf = r.conf
      BY <3>1 DEF AndroidRead
    <3> QED BY <3>2 DEF AndroidRead, s
  <2>2. CASE l.name \notin AndroidReads \cup {"tunnel_mode"}
    <3>1. s = r
      BY <1>2, <2>2 DEF AndroidLine
    <3> QED BY <1>2, <2>2, <3>1
  <2> QED BY <2>1, <2>2
<1>3. CASE r.status = "SUCCESS" /\ l.kind \in {"nv", "equals"}
  <2> DEFINE mode == l.name = "tunnel_mode" /\ l.value \in {"v6anyv4", "v6v4", "v6udpv4", "v4v6"}
  <2>1. CASE l.name \in AndroidReads \/ mode
    <3>1. s = [r EXCEPT !.conf.text[l.name] = l.value]
      BY <1>3, <2>1 DEF AndroidLine
    <3> HIDE DEF s
    <3>2. DOMAIN s = DOMAIN r /\ s.status = r.status /\ s.conf = [r.conf EXCEPT !.text[l.name] = l.value]
      BY <3>1 DEF AndroidRead
    <3>3. DOMAIN s.conf = DOMAIN r.conf /\ s.conf.text = [r.conf.text EXCEPT ![l.name] = l.value]
      BY <3>2 DEF AndroidRead
    <3>4. /\ DOMAIN s.conf.text = Texts
          /\ \A n \in Texts : s.conf.text[n] = IF n = l.name THEN l.value ELSE r.conf.text[n]
      BY <3>3 DEF AndroidRead
    <3>5. AndroidRead(s)
      BY <3>2, <3>3, <3>4 DEF AndroidRead
    <3>6. \A n \in AndroidReads : s.conf.text[n] = IF n = l.name THEN l.value ELSE r.conf.text[n]
      BY <3>4, AndroidReadsAre
    <3> QED BY <1>3, <3>5, <3>6 DEF s
  <2>2. CASE l.name \notin AndroidReads /\ ~mode
    <3>1. s = r
      BY <1>3, <2>2 DEF AndroidLine
    <3> QED BY <1>3, <2>2, <3>1
  <2> QED BY <2>1, <2>2
<1> QED BY <1>0, <1>1, <1>2, <1>3

\* As far as both have read a file without blanks, each value that the desktop build
\* has for a variable, the Android build has as well.
Agree(p, r) ==
  p.ok /\ r.status = "SUCCESS" =>
    \A n \in AndroidReads : n \in DOMAIN p.nv /\ p.nv[n] # "" => r.conf.text[n] = p.nv[n]

LEMMA LinesAgree ==
  ASSUME NEW p, Parsed(p), NEW r, AndroidRead(r), Agree(p, r), NEW l \in Line,
         l.kind = "nv" => trim(l.name) = l.name /\ trim(l.value) = l.value
  PROVE  Agree(ReadLine(p, l), AndroidLine(r, l))
<1> DEFINE q == ReadLine(p, l)
           s == AndroidLine(r, l)
<1> SUFFICES ASSUME q.ok, s.status = "SUCCESS",
                    NEW n \in AndroidReads, n \in DOMAIN q.nv, q.nv[n] # ""
             PROVE  s.conf.text[n] = q.nv[n]
  BY DEF Agree
<1>0. l.kind \in {"nv", "name", "comment", "empty", "equals"}
  BY DEF Line
<1>1. p.ok
  BY DEF ReadLine
<1>2. r.status = "SUCCESS" /\ (n \in DOMAIN p.nv /\ p.nv[n] # "" => r.conf.text[n] = p.nv[n])
  BY <1>1, AndroidLineIs DEF Agree
<1>3. /\ l.kind = "name" => l.name \notin AndroidReads
      /\ s.conf.text[n] = IF l.kind \in {"nv", "equals"} /\ l.name = n THEN l.value ELSE r.conf.text[n]
  BY AndroidLineIs
<1>4. l.kind # "equals"
  <2>1. ASSUME l.kind = "equals" PROVE FALSE
    <3>1. q = [p EXCEPT !.ok = FALSE]
      BY <1>1, <2>1 DEF ReadLine
    <3>2. q = [ok |-> FALSE, nv |-> p.nv, ffd |-> p.ffd]
      BY <3>1 DEF Parsed
    <3> HIDE DEF q
    <3> QED BY <3>2
  <2> QED BY <2>1
<1>5. CASE l.kind \in {"empty", "comment"}
  <2>1. q = AddEmptyLine(p) \/ q = AddComment(p, l)
    BY <1>1, <1>5 DEF ReadLine
  <2> HIDE DEF q
  <2>2. q.nv = p.nv
    BY <2>1 DEF AddEmptyLine, AddComment, Parsed
  <2> QED BY <1>2, <1>3, <1>5, <2>2 DEF q
<1>6. ASSUME NEW value, q = AddNameValue(p, l.name, value) PROVE
        q.nv = p.nv \/ q.nv = Put(p.nv, trim(l.name), trim(value))
  <2> HIDE DEF q
  <2>1. CASE trim(l.name) = ""
    BY <1>6, <2>1 DEF AddNameValue
  <2>2. CASE trim(l.name) # ""
    <3>1. q = [p EXCEPT !.ffd = Append(@, <<"nv", trim(l.name)>>), !.nv = Put(@, trim(l.name), trim(value))]
      BY <1>6, <2>2 DEF AddNameValue
    <3> QED BY <3>1 DEF Parsed
  <2> QED BY <2>1, <2>2
<1>7. CASE l.kind = "name"
  <2>1. q = AddNameValue(p, l.name, "")
    BY <1>1, <1>7 DEF ReadLine
  <2>2. trim("") = ""
    BY TrimIs, EmptyIs
  <2>3. q.nv = p.nv \/ q.nv = Put(p.nv, trim(l.name), "")
    BY <1>6, <2>1, <2>2
  <2> HIDE DEF q
  <2>4. n \in DOMAIN p.nv /\ q.nv[n] = p.nv[n]
    BY <2>3 DEF Put, q
  <2> QED BY <1>2, <1>3, <1>7, <2>4 DEF q
<1>8. CASE l.kind = "nv"
  <2>1. q = AddNameValue(p, l.name, l.value)
    BY <1>1, <1>8 DEF ReadLine
  <2>2. (q.nv = p.nv /\ trim(l.name) = "") \/ q.nv = Put(p.nv, l.name, l.value)
    <3>1. CASE trim(l.name) = ""
      BY <2>1, <3>1 DEF AddNameValue
    <3>2. CASE trim(l.name) # ""
      <4>1. q = [p EXCEPT !.ffd = Append(@, <<"nv", trim(l.name)>>), !.nv = Put(@, trim(l.name), trim(l.value))]
        BY <2>1, <3>2 DEF AddNameValue
      <4> HIDE DEF q
      <4>2. q.nv = Put(p.nv, trim(l.name), trim(l.value))
        BY <4>1 DEF Parsed
      <4> QED BY <1>8, <4>2
    <3> QED BY <3>1, <3>2
  <2> HIDE DEF q
  <2>3. CASE q.nv = p.nv /\ trim(l.name) = ""
    <3>1. n # l.name
      BY <1>8, <2>3, AndroidReadsAre, EmptyIs DEF Texts
    <3> QED BY <1>2, <1>3, <2>3, <3>1 DEF q
  <2>4. CASE q.nv = Put(p.nv, l.name, l.value)
    BY <1>2, <1>3, <1>8, <2>4 DEF Put, q
  <2> QED BY <2>2, <2>3, <2>4
<1> QED BY <1>0, <1>4, <1>5, <1>7, <1>8

LEMMA ReadersAgree ==
  ASSUME NEW s \in Seq(Line), Plain(s)
  PROVE  Agree(ReadConfigurationData(s), tspReadConfigFile_Android(s))
         /\ AndroidRead(tspReadConfigFile_Android(s))
<1>1. PICK h : IsTrace(h, "desktop", s) /\ h[Len(s)] = ReadBy("desktop", s)
  BY ReadTrace
<1>2. PICK a : IsTrace(a, "android", s) /\ a[Len(s)] = ReadBy("android", s)
  BY ReadTrace
<1> DEFINE n == Len(s)
           Good(i) == Parsed(h[i]) /\ AndroidRead(a[i]) /\ Agree(h[i], a[i])
           T == {i \in 0 .. n : ~Good(i)}
<1>3. n \in Nat /\ \A i \in 1 .. n : s[i] \in Line /\ i \in DOMAIN s
  OBVIOUS
<1> HIDE DEF n
<1>4. T = {}
  <2> SUFFICES ASSUME T # {} PROVE FALSE
    OBVIOUS
  <2>1. PICK i \in T : \A j \in T : i <= j
    <3>1. T \subseteq Nat
      BY <1>3
    <3> HIDE DEF T
    <3> QED BY <3>1, LeastNumber
  <2>2. i \in 0 .. n /\ ~Good(i)
    OBVIOUS
  <2>3. Good(0)
    <3>1. h[0] = [ok |-> TRUE, nv |-> <<>>, ffd |-> <<>>]
      BY <1>1 DEF IsTrace, Start, Empty
    <3>2. Parsed(h[0])
      BY <3>1 DEF Parsed, Data
    <3>3. a[0] = Start("android")
      BY <1>2 DEF IsTrace
    <3>4. Agree(h[0], a[0])
      <4>1. DOMAIN h[0].nv = {}
        BY <3>1
      <4> QED BY <4>1 DEF Agree
    <3> QED BY <3>2, <3>3, <3>4, AndroidStarts
  <2>4. i - 1 \in 0 .. n /\ i \in 1 .. n /\ ~(i <= i - 1)
    BY <1>3, <2>2, <2>3
  <2>5. Good(i - 1)
    BY <2>1, <2>4
  <2>6. h[i] = ReadLine(h[i - 1], s[i])
    BY <1>1, <2>4 DEF IsTrace, Reader, n
  <2>7. a[i] = AndroidLine(a[i - 1], s[i])
    BY <1>2, <2>4 DEF IsTrace, Reader, n
  <2>8. s[i].kind = "nv" => trim(s[i].name) = s[i].name /\ trim(s[i].value) = s[i].value
    BY <1>3, <2>4 DEF Plain
  <2>9. s[i] \in Line
    BY <1>3, <2>4
  <2>10. Parsed(h[i])
    BY <2>5, <2>6, <2>9, ReadIsParsed
  <2>11. AndroidRead(a[i])
    BY <2>5, <2>7, <2>9, AndroidLineIs
  <2>12. Agree(h[i], a[i])
    BY <2>5, <2>6, <2>7, <2>8, <2>9, LinesAgree
  <2> QED BY <2>2, <2>10, <2>11, <2>12
<1>5. Good(n)
  BY <1>3, <1>4
<1> HIDE DEF T
<1> QED BY <1>1, <1>2, <1>5 DEF ReadBy, n

-----------------------------------------------------------------------------
(* The validation.                                                          *)

LEMMA Least ==
  ASSUME NEW F \in SUBSET (1 .. 7), F # {}
  PROVE  \E j \in F : \A k \in F : j <= k
<1>1. CASE 1 \in F
  BY <1>1
<1>2. CASE 1 \notin F /\ 2 \in F
  BY <1>2
<1>3. CASE 1 \notin F /\ 2 \notin F /\ 3 \in F
  BY <1>3
<1>4. CASE 1 \notin F /\ 2 \notin F /\ 3 \notin F /\ 4 \in F
  BY <1>4
<1>5. CASE 1 \notin F /\ 2 \notin F /\ 3 \notin F /\ 4 \notin F
  <2>1. F \subseteq 5 .. 7
    BY <1>5
  <2>2. CASE 5 \in F
    BY <2>1, <2>2
  <2>3. CASE 5 \notin F /\ 6 \in F
    BY <2>1, <2>3
  <2>4. CASE 5 \notin F /\ 6 \notin F
    <3>1. \A k \in F : k = 7
      BY <2>1, <2>4
    <3>2. 7 \in F
      BY <3>1
    <3> QED BY <3>1, <3>2
  <2> QED BY <2>2, <2>3, <2>4
<1> QED BY <1>1, <1>2, <1>3, <1>4, <1>5

\* Only the first error is reported, so no report means no error.
LEMMA NoneFails ==
  ASSUME NEW checks, DOMAIN checks = 1 .. 7, First(checks) = {}
  PROVE  \A i \in 1 .. 7 : ~checks[i].fails
<1> DEFINE failed == {i \in DOMAIN checks : checks[i].fails}
<1>1. {j \in failed : \A k \in failed : j <= k} = {}
  BY DEF First
<1>2. failed \in SUBSET (1 .. 7)
  OBVIOUS
<1>3. failed = {}
  <2> HIDE DEF failed
  <2> QED BY <1>1, <1>2, Least
<1> QED BY <1>3

\* The values that variables have, or have by default.
Values(nv) == [n \in Variables |-> Get(nv, n)]

LEMMA VariablesAre ==
  {"server", "auth_method", "passwd", "proxy_client", "tunnel_mode", "keepalive", "keepalive_interval",
   "host_type", "if_prefix", "retry_delay", "retry_delay_max", "client_v4",
   "if_tunnel_v6v4", "if_tunnel_v6udpv4", "if_tunnel_v4v6"} \subseteq Variables
  BY DEF Variables, Default

LEMMA Numbers == \A s : strtol(s) \in Int
  BY NumeralAssumption DEF strtol

Delay(d) == d \in Nat /\ d <= 3600

\* An int holds every delay that is accepted.
LEMMA DelayFits ==
  ASSUME NEW d, Delay(d)
  PROVE  ToInt(d) = d
<1> DEFINE half == UINT32 \div 2
<1>1. half \in Nat /\ UINT32 \in Nat /\ UINT32 - half > 3600
  BY WidthAssumption
<1> HIDE DEF half
<1>5. d \in Nat /\ d <= 3600
  BY DEF Delay
<1>2. d + half \in Nat /\ d + half < UINT32
  BY <1>1, <1>5
<1>3. \A x, u \in Nat : x < u => x % u = x
  OBVIOUS
<1>4. (d + half) % UINT32 = d + half
  BY <1>1, <1>2, <1>3
<1> QED BY <1>1, <1>4, <1>5 DEF ToInt, half

\* Delays and the interval, with their defaults, once each has been accepted.
LEMMA NumbersAccepted ==
  ASSUME NEW nv, IndividualErrors(nv) = {}
  PROVE  /\ Delay(strtol(Get(nv, "retry_delay")))
         /\ Delay(strtol(Get(nv, "retry_delay_max")))
         /\ strtol(Get(nv, "keepalive_interval")) \in Nat
<1>1. \A n \in Variables \ {"auto_retry_connect"} : Accepts(n, GetVariableValue(nv, n))
  BY DEF IndividualErrors
<1>2. /\ Accepts("retry_delay", GetVariableValue(nv, "retry_delay"))
      /\ Accepts("retry_delay_max", GetVariableValue(nv, "retry_delay_max"))
      /\ Accepts("keepalive_interval", GetVariableValue(nv, "keepalive_interval"))
  BY <1>1, VariablesAre
<1>3. \A v : /\ Accepts("retry_delay", v) => Validate_RetryDelay(v)
             /\ Accepts("retry_delay_max", v) => Validate_RetryDelayMax(v)
             /\ Accepts("keepalive_interval", v) => Validate_KeepAliveInterval(v)
  BY DEF Accepts
<1>4. "30" \notin DOMAIN Padded /\ "300" \notin DOMAIN Padded
  BY DefaultAssumption, PaddedAssumption
<1>5. strtol("30") = 30 /\ strtol("300") = 300
  BY <1>4, DefaultAssumption DEF strtol, trim
<1>6. /\ Default["retry_delay"] = "30" /\ Default["retry_delay_max"] = "300"
      /\ Default["keepalive_interval"] = "30"
  BY DEF Default
<1>7. \A v \in DOMAIN Numeral : strtol(v) = Numeral[v]
  BY PaddedAssumption DEF strtol, trim
<1>8. \A x : x \in RetryDelays => Delay(x)
  BY DEF Delay, RetryDelays
<1>13. \A v : Validate_RetryDelay(v) => v = "" \/ strtol(v) \in RetryDelays
  BY Zenon DEF Validate_RetryDelay
<1>14. \A v : Validate_RetryDelayMax(v) => v = "" \/ strtol(v) \in RetryDelays
  BY Zenon DEF Validate_RetryDelayMax
<1>15. \A v : Validate_KeepAliveInterval(v) => v = "" \/ (v \in DOMAIN Numeral /\ Numeral[v] >= 0)
  BY Zenon DEF Validate_KeepAliveInterval, AllDigits
<1>9. Delay(30) /\ Delay(300) /\ 30 \in Nat
  BY DEF Delay
<1>10. Delay(strtol(Get(nv, "retry_delay")))
  <2> DEFINE v == GetVariableValue(nv, "retry_delay")
  <2>1. v = "" \/ Delay(strtol(v))
    BY <1>2, <1>3, <1>8, <1>13, Zenon
  <2>2. Get(nv, "retry_delay") = IF v = "" THEN "30" ELSE v
    BY <1>6 DEF Get
  <2> HIDE DEF v
  <2>3. CASE v = ""
    <3>1. Get(nv, "retry_delay") = "30"
      BY <2>2, <2>3
    <3> QED BY <1>5, <1>9, <3>1
  <2>4. CASE v # ""
    <3>1. Get(nv, "retry_delay") = v
      BY <2>2, <2>4
    <3> QED BY <2>1, <2>4, <3>1
  <2> QED BY <2>3, <2>4
<1>11. Delay(strtol(Get(nv, "retry_delay_max")))
  <2> DEFINE v == GetVariableValue(nv, "retry_delay_max")
  <2>1. v = "" \/ Delay(strtol(v))
    BY <1>2, <1>3, <1>8, <1>14, Zenon
  <2>2. Get(nv, "retry_delay_max") = IF v = "" THEN "300" ELSE v
    BY <1>6 DEF Get
  <2> HIDE DEF v
  <2>3. CASE v = ""
    <3>1. Get(nv, "retry_delay_max") = "300"
      BY <2>2, <2>3
    <3> QED BY <1>5, <1>9, <3>1
  <2>4. CASE v # ""
    <3>1. Get(nv, "retry_delay_max") = v
      BY <2>2, <2>4
    <3> QED BY <2>1, <2>4, <3>1
  <2> QED BY <2>3, <2>4
<1>12. strtol(Get(nv, "keepalive_interval")) \in Nat
  <2> DEFINE v == GetVariableValue(nv, "keepalive_interval")
  <2>1. v = "" \/ (v \in DOMAIN Numeral /\ Numeral[v] >= 0)
    <3>1. Validate_KeepAliveInterval(v)
      BY <1>2, <1>3, Zenon
    <3> HIDE DEF v
    <3> QED BY <3>1, <1>15, Zenon
  <2>2. Get(nv, "keepalive_interval") = IF v = "" THEN "30" ELSE v
    BY <1>6 DEF Get
  <2> HIDE DEF v
  <2>3. CASE v = ""
    <3>1. Get(nv, "keepalive_interval") = "30"
      BY <2>2, <2>3
    <3> QED BY <1>5, <1>9, <3>1
  <2>4. CASE v # ""
    <3>1. Get(nv, "keepalive_interval") = v
      BY <2>2, <2>4
    <3>2. Numeral[v] \in Int /\ Numeral[v] >= 0 /\ strtol(v) = Numeral[v]
      BY <2>1, <2>4, <1>7, NumeralAssumption
    <3> QED BY <3>1, <3>2
  <2> QED BY <2>3, <2>4
<1> QED BY <1>10, <1>11, <1>12

\* What ValidateConfigData() requires of data that it passes.
LEMMA Passed ==
  ASSUME NEW nv, ValidateConfigData(nv) = {}
  PROVE  /\ Get(nv, "auth_method") # "anonymous" => Get(nv, "passwd") # ""
         /\ Get(nv, "proxy_client") = "yes" => Get(nv, "tunnel_mode") # "v6udpv4" /\ Get(nv, "keepalive") # "yes"
         /\ Get(nv, "keepalive") = "yes" => strtol(Get(nv, "keepalive_interval")) > 0
         /\ \A n \in InterfacesFor(Get(nv, "tunnel_mode")) : Get(nv, n) # ""
         /\ Get(nv, "host_type") = "router" => Get(nv, "if_prefix") # ""
         /\ strtol(Get(nv, "retry_delay")) <= strtol(Get(nv, "retry_delay_max"))
         /\ Get(nv, "proxy_client") \in {"yes", "no"} /\ Get(nv, "keepalive") \in {"yes", "no"}
<1> DEFINE c == Values(nv)
<1>1. IndividualErrors(nv) = {} /\ First(Related(c)) = {}
  BY DEF ValidateConfigData, RelatedErrors, Values
<1>2. \A n \in Variables : c[n] = Get(nv, n)
  BY DEF Values
<1>3. /\ c.auth_method = Get(nv, "auth_method") /\ c.passwd = Get(nv, "passwd")
      /\ c.proxy_client = Get(nv, "proxy_client") /\ c.tunnel_mode = Get(nv, "tunnel_mode")
      /\ c.keepalive = Get(nv, "keepalive") /\ c.keepalive_interval = Get(nv, "keepalive_interval")
      /\ c.host_type = Get(nv, "host_type") /\ c.if_prefix = Get(nv, "if_prefix")
      /\ c.retry_delay = Get(nv, "retry_delay") /\ c.retry_delay_max = Get(nv, "retry_delay_max")
  BY <1>2, VariablesAre
<1>4. InterfacesFor(c.tunnel_mode) \subseteq Variables
  BY VariablesAre DEF InterfacesFor
<1> HIDE DEF c
<1>5. DOMAIN Related(c) = 1 .. 7
  BY DEF Related
<1>6. \A i \in 1 .. 7 : ~Related(c)[i].fails
  BY <1>1, <1>5, NoneFails
<1>7. c.auth_method # "anonymous" => c.passwd # ""
  <2>1. ~Related(c)[1].fails
    BY <1>6
  <2> QED BY <2>1 DEF Related
<1>8. c.proxy_client = "yes" => c.tunnel_mode # "v6udpv4"
  <2>1. ~Related(c)[2].fails
    BY <1>6
  <2> QED BY <2>1 DEF Related
<1>9. c.proxy_client = "yes" => c.keepalive # "yes"
  <2>1. ~Related(c)[3].fails
    BY <1>6
  <2> QED BY <2>1 DEF Related
<1>10. c.keepalive = "yes" => strtol(c.keepalive_interval) > 0
  <2>1. ~Related(c)[4].fails
    BY <1>6
  <2>2. c.keepalive = "yes" => strtol(c.keepalive_interval) # 0
    BY <2>1 DEF Related
  <2>3. strtol(c.keepalive_interval) \in Nat
    BY <1>1, <1>3, NumbersAccepted
  <2> QED BY <2>2, <2>3
<1>11. \A n \in InterfacesFor(c.tunnel_mode) : c[n] # ""
  <2>1. ~Related(c)[5].fails
    BY <1>6
  <2> QED BY <2>1 DEF Related
<1>12. c.host_type = "router" => c.if_prefix # ""
  <2>1. ~Related(c)[6].fails
    BY <1>6
  <2> QED BY <2>1 DEF Related
<1>13. ~(strtol(c.retry_delay) > strtol(c.retry_delay_max))
  <2>1. ~Related(c)[7].fails
    BY <1>6
  <2> QED BY <2>1 DEF Related
<1>14. Get(nv, "proxy_client") \in {"yes", "no"} /\ Get(nv, "keepalive") \in {"yes", "no"}
  <2>1. \A n \in Variables \ {"auto_retry_connect"} : Accepts(n, GetVariableValue(nv, n))
    BY <1>1 DEF IndividualErrors
  <2>2. Accepts("proxy_client", GetVariableValue(nv, "proxy_client"))
    BY <2>1, VariablesAre
  <2>3. Accepts("keepalive", GetVariableValue(nv, "keepalive"))
    BY <2>1, VariablesAre
  <2>4. \A v : Accepts("proxy_client", v) => v \in YesNo
    BY DEF Accepts, Validate_ProxyClient
  <2>5. \A v : Accepts("keepalive", v) => v \in YesNo
    BY DEF Accepts, Validate_KeepAlive
  <2>6. Default["proxy_client"] = "no" /\ Default["keepalive"] = "yes"
    BY DEF Default
  <2> QED BY <2>2, <2>3, <2>4, <2>5, <2>6 DEF Get, YesNo
<1>15. \A n \in InterfacesFor(Get(nv, "tunnel_mode")) : Get(nv, n) # ""
  BY <1>2, <1>3, <1>4, <1>11
<1>16. strtol(Get(nv, "retry_delay")) <= strtol(Get(nv, "retry_delay_max"))
  BY <1>3, <1>13, Numbers
<1> QED BY <1>3, <1>7, <1>8, <1>9, <1>10, <1>12, <1>14, <1>15, <1>16

-----------------------------------------------------------------------------
(* tConf.                                                                   *)

LEMMA FilledIs ==
  ASSUME NEW nv
  PROVE  /\ \A n \in {"server", "auth_method", "passwd", "host_type", "if_prefix", "client_v4",
                       "if_tunnel_v6v4", "if_tunnel_v6udpv4", "if_tunnel_v4v6"} :
              Filled(nv).text[n] = Get(nv, n)
         /\ DOMAIN Filled(nv).text = Texts
         /\ Filled(nv).text["tunnel_mode"] = TunnelMode(Get(nv, "tunnel_mode"))
         /\ \A n \in {"keepalive_interval", "retry_delay", "retry_delay_max"} :
              Filled(nv).number[n] = ToInt(strtol(Get(nv, n)))
         /\ \A n \in {"proxy_client", "keepalive"} :
              Filled(nv).bool[n] <=> Get(nv, n) \in {"yes", "YES"}
<1> DEFINE text == [n \in Texts |-> IF n = "tunnel_mode" THEN TunnelMode(Get(nv, n)) ELSE Get(nv, n)]
           number == [n \in Integers_ |-> Cast(n, strtol(Get(nv, n)))]
           bool == [n \in Booleans |-> Get(nv, n) \in {"yes", "YES"}]
<1>1. Filled(nv) = [text |-> text, number |-> number, bool |-> bool]
  BY DEF Filled
<1>2. {"server", "auth_method", "passwd", "host_type", "if_prefix", "client_v4", "tunnel_mode",
       "if_tunnel_v6v4", "if_tunnel_v6udpv4", "if_tunnel_v4v6"} \subseteq Texts
  BY VariablesAre DEF Texts, Booleans, Integers_, LogLevels
<1>3. \A n \in {"keepalive_interval", "retry_delay", "retry_delay_max"} :
        number[n] = ToInt(strtol(Get(nv, n)))
  BY DEF Integers_, Cast, LogLevels
<1>4. \A n \in {"proxy_client", "keepalive"} : bool[n] <=> Get(nv, n) \in {"yes", "YES"}
  BY DEF Booleans
<1>5. Filled(nv).text = text /\ Filled(nv).number = number /\ Filled(nv).bool = bool
  <2> HIDE DEF text, number, bool
  <2> QED BY <1>1
<1> QED BY <1>2, <1>3, <1>4, <1>5

\* Data that pass give a configuration that holds together, and the options keep it so.
LEMMA FilledConsistent ==
  ASSUME NEW nv, ValidateConfigData(nv) = {}, Get(nv, "server") # "", NEW cmd
  PROVE  Consistent(Overridden([status |-> "SUCCESS", conf |-> Filled(nv)], cmd).conf,
                    Unnamed(cmd), Wide(nv))
<1> DEFINE r == [status |-> "SUCCESS", conf |-> Filled(nv)]
           given == {n \in {"client_v4", "if_tunnel_v6v4", "if_tunnel_v6udpv4"} : cmd[n] # NULL}
           conf == Overridden(r, cmd).conf
           old == Filled(nv)
           text == [n \in Texts |-> IF n \in given THEN cmd[n] ELSE old.text[n]]
<1>1. conf = [old EXCEPT !.text = text]
  BY FilledIs DEF Overridden
<1>2. conf.text = text /\ conf.number = old.number /\ conf.bool = old.bool
  <2>1. DOMAIN old = {"text", "number", "bool"}
    BY DEF Filled
  <2> HIDE DEF text, conf, old
  <2> QED BY <1>1, <2>1
<1>3. /\ \A n \in {"server", "auth_method", "passwd", "host_type", "if_prefix", "tunnel_mode"} :
           conf.text[n] = old.text[n]
      /\ \A n \in {"if_tunnel_v6v4", "if_tunnel_v6udpv4"} :
           conf.text[n] # "" \/ n \in Unnamed(cmd) \/ conf.text[n] = old.text[n]
      /\ conf.text["if_tunnel_v4v6"] = old.text["if_tunnel_v4v6"]
  <2>1. {"server", "auth_method", "passwd", "host_type", "if_prefix", "tunnel_mode", "if_tunnel_v6v4",
         "if_tunnel_v6udpv4", "if_tunnel_v4v6"} \subseteq Texts
    BY VariablesAre DEF Texts, Booleans, Integers_, LogLevels
  <2> HIDE DEF conf, old
  <2> QED BY <1>2, <2>1 DEF Unnamed
<1> HIDE DEF conf, old, r, given, text
<1>4. conf.text["server"] # ""
  BY <1>3, FilledIs DEF old
<1>5. conf.text["auth_method"] # "anonymous" => conf.text["passwd"] # ""
  BY ZenonT(60), <1>3, FilledIs, Passed DEF old
<1>6. conf.bool["proxy_client"] => conf.text["tunnel_mode"] # "v6udpv4" /\ ~conf.bool["keepalive"]
  BY <1>2, <1>3, FilledIs, Passed DEF old, TunnelMode
<1>7. conf.bool["keepalive"] =>
        conf.number["keepalive_interval"] > 0 \/ "keepalive_interval" \in Wide(nv)
  <2> DEFINE long == strtol(Get(nv, "keepalive_interval"))
  <2>1. conf.number["keepalive_interval"] = ToInt(long)
    BY <1>2, FilledIs DEF old
  <2>2. conf.bool["keepalive"] => long > 0
    BY <1>2, FilledIs, Passed DEF old
  <2>3. ToInt(long) # long => "keepalive_interval" \in Wide(nv)
    BY DEF Wide, Cast, Integers_, LogLevels
  <2> QED BY <2>1, <2>2, <2>3
<1>8. conf.text["tunnel_mode"] # "0" =>
        \A n \in InterfacesFor(conf.text["tunnel_mode"]) \ Unnamed(cmd) : conf.text[n] # ""
  <2> DEFINE mode == Get(nv, "tunnel_mode")
  <2>1. conf.text["tunnel_mode"] = TunnelMode(mode)
    BY <1>3, FilledIs DEF old
  <2>2. \A n \in InterfacesFor(mode) : Get(nv, n) # ""
    BY Passed
  <2>3. InterfacesFor(mode) \subseteq {"if_tunnel_v6v4", "if_tunnel_v6udpv4", "if_tunnel_v4v6"}
    BY DEF InterfacesFor
  <2>4. \A n \in InterfacesFor(mode) : old.text[n] = Get(nv, n)
    BY <2>3, FilledIs DEF old
  <2> HIDE DEF mode
  <2>5. \A n \in {"if_tunnel_v6v4", "if_tunnel_v6udpv4", "if_tunnel_v4v6"} :
          conf.text[n] # "" \/ n \in Unnamed(cmd) \/ conf.text[n] = old.text[n]
    BY <1>3
  <2>6. \A n \in InterfacesFor(mode) \ Unnamed(cmd) : conf.text[n] # ""
    <3> SUFFICES ASSUME NEW n \in InterfacesFor(mode) \ Unnamed(cmd) PROVE conf.text[n] # ""
      OBVIOUS
    <3>1. old.text[n] = Get(nv, n) /\ Get(nv, n) # ""
      BY <2>2, <2>4
    <3>2. conf.text[n] # "" \/ conf.text[n] = old.text[n]
      BY <2>3, <2>5
    <3> QED BY <3>1, <3>2
  <2> QED BY <2>1, <2>6 DEF TunnelMode
<1>9. conf.text["host_type"] = "router" => conf.text["if_prefix"] # ""
  BY ZenonT(60), <1>3, FilledIs, Passed DEF old
<1>10. conf.number["retry_delay"] <= conf.number["retry_delay_max"]
  <2>1. /\ conf.number["retry_delay"] = ToInt(strtol(Get(nv, "retry_delay")))
        /\ conf.number["retry_delay_max"] = ToInt(strtol(Get(nv, "retry_delay_max")))
    BY <1>2, FilledIs DEF old
  <2>2. Delay(strtol(Get(nv, "retry_delay"))) /\ Delay(strtol(Get(nv, "retry_delay_max")))
    <3>1. IndividualErrors(nv) = {}
      BY DEF ValidateConfigData
    <3> QED BY <3>1, NumbersAccepted
  <2>3. strtol(Get(nv, "retry_delay")) <= strtol(Get(nv, "retry_delay_max"))
    BY Passed
  <2>4. /\ ToInt(strtol(Get(nv, "retry_delay"))) = strtol(Get(nv, "retry_delay"))
        /\ ToInt(strtol(Get(nv, "retry_delay_max"))) = strtol(Get(nv, "retry_delay_max"))
    BY <2>2, DelayFits, Zenon
  <2> QED BY <2>1, <2>3, <2>4
<1>11. Consistent(conf, Unnamed(cmd), Wide(nv))
  BY <1>4, <1>5, <1>6, <1>7, <1>8, <1>9, <1>10 DEF Consistent
<1> QED BY <1>11 DEF conf, r

-----------------------------------------------------------------------------
(* Values without the blanks around them.                                   *)

LEMMA WordsAre ==
  /\ YesNo \subseteq Words /\ HostTypes \subseteq Words /\ AuthMethods \subseteq Words
  /\ TunnelModes \subseteq Words /\ Templates \subseteq Words /\ RotationSizes \subseteq Words
  /\ Facilities \subseteq Words /\ {"", "auto"} \subseteq Words
  /\ \A n \in Variables : n \in Words /\ Default[n] \in Words
  /\ Words \subseteq String
  BY DEF Words, YesNo, String

LEMMA ShorterIs ==
  ASSUME NEW s \in DOMAIN Padded, NEW max \in Nat, Longer(trim(s), max)
  PROVE  Longer(s, max)
  BY NumeralAssumption, PaddedAssumption DEF Longer, trim

LEMMA NoNewCharacters ==
  ASSUME NEW s \in DOMAIN Padded, NEW c \in CharacterSets, trim(s) \in Outside[c]
  PROVE  s \in Outside[c]
  BY PaddedAssumption DEF trim

\* A value that is accepted is accepted as well without its blanks.
LEMMA TrimmedAccepted ==
  ASSUME NEW n \in Variables, NEW v \in String, Accepts(n, v)
  PROVE  Accepts(n, trim(v))
<1>1. CASE v \notin DOMAIN Padded
  BY <1>1 DEF trim
<1>2. CASE v \in DOMAIN Padded
  <2> DEFINE w == trim(v)
  <2>1. v \notin Words \cup DOMAIN Numeral \cup Addresses \cup Directories
    BY <1>2, PaddedAssumption
  <2>2. ~AllDigits(v) /\ ~DirExists(v) /\ v # "" /\ v \notin Addresses
    BY <2>1, WordsAre DEF AllDigits, DirExists
  <2>3. strtol(w) = strtol(v)
    BY TrimIs DEF strtol
  <2>4. \A c \in CharacterSets : v \notin Outside[c] => w \notin Outside[c]
    BY <1>2, NoNewCharacters
  <2>5. \A max \in Nat : ~Longer(v, max) => ~Longer(w, max)
    BY <1>2, ShorterIs
  <2> HIDE DEF w
  <2>6. /\ ~Validate_HostType(v) /\ ~Validate_AuthMethod(v) /\ ~Validate_AutoRetryConnect(v)
        /\ ~Validate_KeepAlive(v) /\ ~Validate_TunnelMode(v) /\ ~Validate_Template(v)
    BY <2>1, WordsAre
       DEF Validate_HostType, Validate_AuthMethod, Validate_AutoRetryConnect, Validate_KeepAlive,
           Validate_TunnelMode, Validate_Template
  <2>14. /\ ~Validate_PrefixLen(v) /\ ~Validate_gogocDir(v) /\ ~Validate_RetryDelay(v)
         /\ ~Validate_RetryDelayMax(v) /\ ~Validate_KeepAliveInterval(v)
    <3>1. v \notin DOMAIN Numeral /\ v \notin Directories /\ v # ""
      BY <2>1, <2>2
    <3>2. ~Validate_PrefixLen(v)
      BY <3>1 DEF Validate_PrefixLen, AllDigits
    <3>3. ~Validate_RetryDelay(v)
      BY <3>1 DEF Validate_RetryDelay, strtol, AllDigits
    <3>4. ~Validate_RetryDelayMax(v)
      BY <3>1 DEF Validate_RetryDelayMax, strtol, AllDigits
    <3>5. ~Validate_gogocDir(v) /\ ~Validate_KeepAliveInterval(v)
      BY <3>1 DEF Validate_gogocDir, DirExists, Validate_KeepAliveInterval, AllDigits
    <3> QED BY <3>2, <3>3, <3>4, <3>5
  <2>13. ~Validate_ClientV4(v) /\ ~Validate_DSLite(v) /\ ~Validate_ClientV6(v)
    <3>1. v # "" /\ v # "auto"
      BY <2>1, WordsAre
    <3> QED BY <2>2, <3>1 DEF Validate_ClientV4, Validate_DSLite, Validate_ClientV6
  <2>7. /\ ~Validate_ProxyClient(v) /\ ~Validate_AlwaysUseLastSrv(v) /\ ~Validate_LogRotation(v)
        /\ ~Validate_LogRotationSz(v) /\ ~Validate_LogRotationDel(v) /\ ~Validate_SysLogFacility(v)
        /\ ~Validate_haccessProxyEnabled(v) /\ ~Validate_haccessWebEnabled(v)
        /\ ~Validate_haccessDocumentRoot(v)
    BY <2>1, <2>2, WordsAre
       DEF Validate_ProxyClient, Validate_AlwaysUseLastSrv, Validate_LogRotation, Validate_LogRotationSz,
           Validate_LogRotationDel, Validate_SysLogFacility, Validate_haccessProxyEnabled,
           Validate_haccessWebEnabled, Validate_haccessDocumentRoot
  <2>8. n \in {"userid", "passwd", "server", "if_prefix", "dns_server", "if_tunnel_v6v4",
               "if_tunnel_v6udpv4", "if_tunnel_v4v6", "broker_list", "last_server",
               "log_console", "log_stderr", "log_syslog", "log_file", "log_filename"}
    BY <2>6, <2>7, <2>13, <2>14 DEF Accepts, Variables, Default
  <2>9. /\ Validate_UserID(v) => Validate_UserID(w)
        /\ Validate_Passwd(v) => Validate_Passwd(w)
        /\ Validate_Server(v) => Validate_Server(w)
        /\ Validate_IfPrefix(v) => Validate_IfPrefix(w)
        /\ Validate_DnsServer(v) => Validate_DnsServer(w)
    BY <2>4, <2>5 DEF Validate_UserID, Validate_Passwd, Validate_Server, Validate_IfPrefix,
                      Validate_DnsServer, CharacterSets
  <2>10. /\ Validate_IfTunV6V4(v) => Validate_IfTunV6V4(w)
         /\ Validate_IfTunV6UDPV4(v) => Validate_IfTunV6UDPV4(w)
         /\ Validate_IfTunV4V6(v) => Validate_IfTunV4V6(w)
         /\ Validate_BrokerLstFile(v) => Validate_BrokerLstFile(w)
         /\ Validate_LastServFile(v) => Validate_LastServFile(w)
         /\ Validate_LogFileName(v) => Validate_LogFileName(w)
    BY <2>4, <2>5 DEF Validate_IfTunV6V4, Validate_IfTunV6UDPV4, Validate_IfTunV4V6,
                      Validate_BrokerLstFile, Validate_LastServFile, Validate_LogFileName, CharacterSets
  <2>11. Validate_LogLevel(v) => Validate_LogLevel(w)
    BY <2>2, <2>3 DEF Validate_LogLevel
  <2>12. Accepts(n, w)
    <3>1. CASE n \in {"userid", "passwd", "server", "if_prefix", "dns_server"}
      BY <2>9, <3>1 DEF Accepts
    <3>2. CASE n \in {"if_tunnel_v6v4", "if_tunnel_v6udpv4", "if_tunnel_v4v6", "broker_list",
                      "last_server", "log_filename"}
      BY <2>10, <3>2 DEF Accepts
    <3>3. CASE n \in {"log_console", "log_stderr", "log_syslog", "log_file"}
      BY <2>11, <3>3 DEF Accepts
    <3> QED BY <2>8, <3>1, <3>2, <3>3
  <2> QED BY <2>12 DEF w
<1> QED BY <1>1, <1>2

LEMMA NoError ==
  ASSUME NEW checks, \A i \in DOMAIN checks : ~checks[i].fails
  PROVE  First(checks) = {}
  BY DEF First

\* q is nv as it is read when it has been written, and has a value where nv has one.
LEMMA TrimmedGet ==
  ASSUME NEW nv, nv \in [DOMAIN nv -> String], NEW q, DOMAIN q = DOMAIN nv,
         \A n \in DOMAIN nv : q[n] = trim(nv[n]) /\ (q[n] = "" => nv[n] = ""), NEW n \in Variables
  PROVE  /\ GetVariableValue(q, n) = trim(GetVariableValue(nv, n))
         /\ Get(q, n) = trim(Get(nv, n))
         /\ Get(q, n) = "" => Get(nv, n) = ""
         /\ GetVariableValue(nv, n) \in String
<1>1. trim("") = "" /\ trim(Default[n]) = Default[n] /\ "" \in String
  BY TrimIs, EmptyIs, WordsAre
<1>2. /\ GetVariableValue(q, n) = trim(GetVariableValue(nv, n))
      /\ GetVariableValue(q, n) = "" => GetVariableValue(nv, n) = ""
  BY <1>1 DEF GetVariableValue
<1>3. GetVariableValue(nv, n) \in String
  BY <1>1 DEF GetVariableValue
<1>4. Get(q, n) = trim(Get(nv, n)) /\ (Get(q, n) = "" => Get(nv, n) = "")
  BY <1>1, <1>2 DEF Get
<1> QED BY <1>2, <1>3, <1>4

\* What the checks that relate variables see of values.
Alike(c, d) ==
  /\ \A n \in Variables : (c[n] = "" <=> d[n] = "") /\ strtol(d[n]) = strtol(c[n])
  /\ \A n \in {"auth_method", "proxy_client", "keepalive", "tunnel_mode", "host_type"} : d[n] = c[n]

LEMMA SameErrors ==
  ASSUME NEW nv, NEW q, Alike(Values(nv), Values(q)), RelatedErrors(nv) = {}
  PROVE  RelatedErrors(q) = {}
<1> DEFINE c == Values(nv)
           d == Values(q)
<1>0. Alike(c, d) /\ First(Related(c)) = {}
  BY DEF RelatedErrors, Values
<1> HIDE DEF c, d
<1>1. InterfacesFor(c.tunnel_mode) \subseteq Variables /\ d.tunnel_mode = c.tunnel_mode
  BY <1>0, VariablesAre DEF InterfacesFor, Alike
<1>2. DOMAIN Related(c) = 1 .. 7 /\ DOMAIN Related(d) = 1 .. 7
  <2>1. DOMAIN Related(c) = 1 .. 7
    BY DEF Related
  <2>2. DOMAIN Related(d) = 1 .. 7
    BY DEF Related
  <2> QED BY <2>1, <2>2
<1>3. \A i \in 1 .. 7 : ~Related(c)[i].fails
  BY <1>0, <1>2, NoneFails
<1>4. ~Related(d)[1].fails
  <2>1. ~Related(c)[1].fails
    BY <1>3
  <2> QED BY <1>0, <2>1, VariablesAre DEF Related, Alike
<1>5. ~Related(d)[2].fails
  <2>1. ~Related(c)[2].fails
    BY <1>3
  <2> QED BY <1>0, <2>1 DEF Related, Alike
<1>6. ~Related(d)[3].fails
  <2>1. ~Related(c)[3].fails
    BY <1>3
  <2> QED BY <1>0, <2>1 DEF Related, Alike
<1>7. ~Related(d)[4].fails
  <2>1. ~Related(c)[4].fails
    BY <1>3
  <2> QED BY <1>0, <2>1, VariablesAre DEF Related, Alike
<1>8. ~Related(d)[5].fails
  <2>1. ~Related(c)[5].fails
    BY <1>3
  <2> QED BY <1>0, <2>1, <1>1 DEF Related, Alike
<1>9. ~Related(d)[6].fails
  <2>1. ~Related(c)[6].fails
    BY <1>3
  <2> QED BY <1>0, <2>1, VariablesAre DEF Related, Alike
<1>10. ~Related(d)[7].fails
  <2>1. ~Related(c)[7].fails
    BY <1>3
  <2> QED BY <1>0, <2>1, VariablesAre DEF Related, Alike
<1>11. \A i \in 1 .. 7 : ~Related(d)[i].fails
  <2>1. \A i \in 1 .. 7 : i = 1 \/ i = 2 \/ i = 3 \/ i = 4 \/ i = 5 \/ i = 6 \/ i = 7
    OBVIOUS
  <2> QED BY <1>4, <1>5, <1>6, <1>7, <1>8, <1>9, <1>10, <2>1
<1> QED BY <1>2, <1>11, NoError DEF d, RelatedErrors, Values

\* The data that pass are read as data that pass.
LEMMA TrimmedPass ==
  ASSUME NEW nv, nv \in [DOMAIN nv -> String], ValidateConfigData(nv) = {},
         NEW q, DOMAIN q = DOMAIN nv,
         \A n \in DOMAIN nv : q[n] = trim(nv[n]) /\ (q[n] = "" => nv[n] = "")
  PROVE  ValidateConfigData(q) = {}
<1> DEFINE c == Values(nv)
           d == Values(q)
<1>1. IndividualErrors(nv) = {} /\ RelatedErrors(nv) = {}
  BY DEF ValidateConfigData
<1>2. \A n \in Variables \ {"auto_retry_connect"} : Accepts(n, GetVariableValue(nv, n))
  BY <1>1 DEF IndividualErrors
<1>3. \A n \in Variables \ {"auto_retry_connect"} : Accepts(n, GetVariableValue(q, n))
  <2> SUFFICES ASSUME NEW n \in Variables \ {"auto_retry_connect"}
               PROVE  Accepts(n, GetVariableValue(q, n))
    OBVIOUS
  <2>1. GetVariableValue(q, n) = trim(GetVariableValue(nv, n)) /\ GetVariableValue(nv, n) \in String
    BY TrimmedGet
  <2> QED BY <1>2, <2>1, TrimmedAccepted
<1>4. IndividualErrors(q) = {}
  BY <1>3 DEF IndividualErrors
<1>5. \A n \in Variables : d[n] = trim(c[n]) /\ (c[n] = "" <=> d[n] = "")
  <2>1. trim("") = ""
    BY TrimIs, EmptyIs
  <2> SUFFICES ASSUME NEW n \in Variables PROVE d[n] = trim(c[n]) /\ (c[n] = "" <=> d[n] = "")
    OBVIOUS
  <2>2. c[n] = Get(nv, n) /\ d[n] = Get(q, n)
    BY DEF Values
  <2>3. Get(q, n) = trim(Get(nv, n)) /\ (Get(q, n) = "" => Get(nv, n) = "")
    BY TrimmedGet
  <2> QED BY <2>1, <2>2, <2>3
<1>6. \A n \in {"auth_method", "proxy_client", "keepalive", "tunnel_mode", "host_type"} : d[n] = c[n]
  <2> SUFFICES ASSUME NEW n \in {"auth_method", "proxy_client", "keepalive", "tunnel_mode", "host_type"}
               PROVE  trim(c[n]) = c[n] /\ n \in Variables
    BY <1>5
  <2>1. n \in Variables \ {"auto_retry_connect"}
    BY VariablesAre
  <2>2. \A v : Accepts(n, v) => v \in AuthMethods \cup YesNo \cup TunnelModes \cup HostTypes
    BY DEF Accepts, Validate_AuthMethod, Validate_ProxyClient, Validate_KeepAlive, Validate_TunnelMode,
           Validate_HostType
  <2>3. GetVariableValue(nv, n) \in Words
    BY <1>2, <2>1, <2>2, WordsAre
  <2>4. Get(nv, n) \in Words
    BY <2>1, <2>3, WordsAre DEF Get
  <2>5. c[n] = Get(nv, n)
    BY <2>1 DEF Values
  <2> QED BY <2>1, <2>4, <2>5, TrimIs
<1>7. \A n \in Variables : strtol(d[n]) = strtol(c[n])
  <2>1. \A n \in Variables : c[n] \in String
    BY TrimmedGet, WordsAre DEF Values, Get
  <2> QED BY <1>5, <2>1, TrimIs DEF strtol
<1> HIDE DEF c, d
<1>8. RelatedErrors(q) = {}
  <2>1. Alike(c, d)
    BY <1>5, <1>6, <1>7 DEF Alike
  <2> QED BY <1>1, <2>1, SameErrors DEF c, d
<1> QED BY <1>4, <1>8 DEF ValidateConfigData

-----------------------------------------------------------------------------
(* Writing a file.                                                          *)

\* No line for a variable without a value; otherwise one that reads as it was.
LEMMA WrittenIs ==
  ASSUME NEW e \in Element, NEW nv, nv \in [DOMAIN nv -> String]
  PROVE  \/ e[1] = "nv" /\ e[2] \notin DOMAIN nv /\ Written(e, nv) = <<>>
         \/ /\ e[1] = "nv" /\ e[2] \in DOMAIN nv
            /\ [kind |-> "nv", name |-> e[2], value |-> nv[e[2]]] \in Line
            /\ Written(e, nv) = <<[kind |-> "nv", name |-> e[2], value |-> nv[e[2]]]>>
         \/ /\ e[1] \in {"comment", "empty"}
            /\ [kind |-> e[1], name |-> e[2], value |-> ""] \in Line
            /\ Written(e, nv) = <<[kind |-> e[1], name |-> e[2], value |-> ""]>>
<1>1. e[1] \in {"nv", "comment", "empty"} /\ e[2] \in String /\ (e[1] # "nv" => e[2] \notin Variables)
  BY DEF Element
<1>2. CASE e[1] = "nv" /\ e[2] \notin DOMAIN nv
  BY <1>2 DEF Written
<1>3. CASE e[1] = "nv" /\ e[2] \in DOMAIN nv
  <2>1. nv[e[2]] \in String
    BY <1>3
  <2>2. [kind |-> "nv", name |-> e[2], value |-> nv[e[2]]] \in Line
    BY <1>1, <2>1 DEF Line
  <2> QED BY <1>3, <2>2 DEF Written
<1>4. CASE e[1] \in {"comment", "empty"}
  <2>1. [kind |-> e[1], name |-> e[2], value |-> ""] \in Line
    BY <1>1, <1>4, EmptyIs DEF Line
  <2> QED BY <1>4, <2>1 DEF Written
<1> QED BY <1>1, <1>2, <1>3, <1>4

\* Another element is written: what is read then has one variable more, if it is one.
LEMMA WriteOne ==
  ASSUME NEW s \in Seq(Line), NEW nv, NEW ffd, Data(nv, ffd), NEW at \in Nat \ {0}, at <= Len(ffd)
  PROVE  /\ s \o Written(ffd[at], nv) \in Seq(Line)
         /\ ReadsAs(ReadConfigurationData(s), nv, Before(nv, ffd, at)) =>
              ReadsAs(ReadConfigurationData(s \o Written(ffd[at], nv)), nv, Before(nv, ffd, at + 1))
<1> DEFINE e == ffd[at]
           p == ReadConfigurationData(s)
           names == Before(nv, ffd, at)
           more == Before(nv, ffd, at + 1)
           t == s \o Written(e, nv)
<1>1. e \in Element /\ nv \in [DOMAIN nv -> String]
  BY DEF Data
<1>2. \A n : n \in more <=> n \in names \/ (n \in DOMAIN nv /\ e = <<"nv", n>>)
  <2>1. \A k : k \in 1 .. ((at + 1) - 1) <=> k \in 1 .. (at - 1) \/ k = at
    OBVIOUS
  <2> QED BY <2>1 DEF Before
<1>3. Parsed(p)
  BY FileIsParsed
<1>4. /\ e[1] = "nv" => e = <<"nv", e[2]>> /\ e[2] # "" /\ e[2] \in String \ DOMAIN Padded
      /\ \A n : e = <<"nv", n>> => e[1] = "nv" /\ e[2] = n
  <2>1. \A n : e = <<"nv", n>> => e[1] = "nv" /\ e[2] = n
    <3> HIDE DEF e
    <3> QED OBVIOUS
  <2>2. \/ e \in {"nv"} \X (String \ ({""} \cup DOMAIN Padded))
        \/ e \in {"comment", "empty"} \X (String \ Variables)
    BY <1>1 DEF Element
  <2>3. ASSUME e[1] = "nv" PROVE e = <<"nv", e[2]>> /\ e[2] # "" /\ e[2] \in String \ DOMAIN Padded
    <3> DEFINE S == String \ ({""} \cup DOMAIN Padded)
    <3>1. e \in {"nv"} \X S
      BY <2>2, <2>3
    <3> HIDE DEF e, S
    <3>2. e = <<e[1], e[2]>> /\ e[2] \in S
      BY <3>1
    <3> QED BY <2>3, <3>2 DEF S
  <2> QED BY <2>1, <2>3
<1> HIDE DEF e, p, names, more
<1>5. CASE e[1] = "nv" /\ e[2] \notin DOMAIN nv /\ Written(e, nv) = <<>>
  <2>1. t = s
    BY <1>5
  <2>2. more = names
    <3>1. \A n : n \in more <=> n \in names
      BY <1>2, <1>4, <1>5
    <3> QED BY <3>1 DEF more, names, Before
  <2> QED BY <2>1, <2>2 DEF e, p, names, more
<1>6. CASE /\ e[1] = "nv" /\ e[2] \in DOMAIN nv
           /\ [kind |-> "nv", name |-> e[2], value |-> nv[e[2]]] \in Line
           /\ Written(e, nv) = <<[kind |-> "nv", name |-> e[2], value |-> nv[e[2]]]>>
  <2> DEFINE l == [kind |-> "nv", name |-> e[2], value |-> nv[e[2]]]
             n == e[2]
  <2>1. t \in Seq(Line) /\ ReadConfigurationData(t) = ReadLine(p, l)
    <3> HIDE DEF l
    <3>1. l \in Line /\ Written(e, nv) = <<l>>
      BY <1>6 DEF l
    <3> QED BY <3>1, ReadAppended DEF p
  <2>2. trim(n) = n /\ n # ""
    BY <1>4, <1>6 DEF trim
  <2>3. ASSUME ReadsAs(p, nv, names) PROVE ReadsAs(ReadLine(p, l), nv, more)
    <3>1. p.ok /\ DOMAIN p.nv = names /\ \A x \in names : p.nv[x] = trim(nv[x])
      BY <2>3 DEF ReadsAs
    <3>2. ReadLine(p, l) = AddNameValue(p, n, nv[n])
      BY <3>1 DEF ReadLine
    <3>3. ReadLine(p, l) = [p EXCEPT !.ffd = Append(@, <<"nv", n>>), !.nv = Put(@, n, trim(nv[n]))]
      BY <2>2, <3>2 DEF AddNameValue
    <3> DEFINE q == ReadLine(p, l)
               value == trim(nv[n])
    <3>4. q.ok = p.ok /\ q.nv = Put(p.nv, n, value)
      <4> HIDE DEF q, value, n
      <4> QED BY <1>3, <3>3 DEF Parsed, q, value
    <3> HIDE DEF q, value, n
    <3>5. \A x : x \in more <=> x \in names \/ x = n
      BY <1>2, <1>4, <1>6 DEF n
    <3>6. DOMAIN q.nv = more /\ \A x \in more : q.nv[x] = IF x = n THEN value ELSE p.nv[x]
      BY <3>1, <3>4, <3>5 DEF Put
    <3>7. \A x \in more : q.nv[x] = trim(nv[x])
      BY <3>1, <3>5, <3>6 DEF value
    <3> QED BY <3>1, <3>4, <3>6, <3>7 DEF ReadsAs, q
  <2> QED BY <2>1, <2>3 DEF e, p, names, more
<1>7. CASE /\ e[1] \in {"comment", "empty"}
           /\ [kind |-> e[1], name |-> e[2], value |-> ""] \in Line
           /\ Written(e, nv) = <<[kind |-> e[1], name |-> e[2], value |-> ""]>>
  <2> DEFINE l == [kind |-> e[1], name |-> e[2], value |-> ""]
  <2>1. t \in Seq(Line) /\ ReadConfigurationData(t) = ReadLine(p, l)
    <3> HIDE DEF l
    <3>1. l \in Line /\ Written(e, nv) = <<l>>
      BY <1>7 DEF l
    <3> QED BY <3>1, ReadAppended DEF p
  <2>2. more = names
    <3>1. \A n : n \in more <=> n \in names
      BY <1>2, <1>4, <1>7
    <3> QED BY <3>1 DEF more, names, Before
  <2>3. ASSUME p.ok PROVE ReadLine(p, l).ok = p.ok /\ ReadLine(p, l).nv = p.nv
    <3>1. ReadLine(p, l) = AddEmptyLine(p) \/ ReadLine(p, l) = AddComment(p, l)
      BY <1>7, <2>3 DEF ReadLine
    <3> HIDE DEF l
    <3> QED BY <1>3, <3>1 DEF AddEmptyLine, AddComment, Parsed
  <2>4. ReadsAs(p, nv, names) => ReadsAs(ReadLine(p, l), nv, names)
    <3> HIDE DEF l
    <3> QED BY <2>3 DEF ReadsAs
  <2> HIDE DEF l
  <2> QED BY <2>1, <2>2, <2>4 DEF e, p, names, more
<1> QED BY <1>1, <1>5, <1>6, <1>7, WrittenIs

\* A file that has been truncated reads as nothing.
LEMMA NothingWritten ==
  ASSUME NEW nv, NEW ffd
  PROVE  <<>> \in Seq(Line) /\ ReadsAs(ReadConfigurationData(<<>>), nv, Before(nv, ffd, 1))
<1> DEFINE p == ReadConfigurationData(<<>>)
<1>1. p.ok /\ p.nv = <<>>
  BY ReadNothing DEF Empty
<1>2. Before(nv, ffd, 1) = {}
  BY DEF Before
<1>3. DOMAIN p.nv = {}
  BY <1>1
<1> HIDE DEF p
<1>4. ReadsAs(p, nv, Before(nv, ffd, 1))
  BY <1>1, <1>2, <1>3 DEF ReadsAs
<1> QED BY <1>4 DEF p

\* Behind the last element all variables have been written.
LEMMA AllWritten ==
  ASSUME NEW nv, NEW ffd, Data(nv, ffd), NEW at \in Nat, at > Len(ffd)
  PROVE  Before(nv, ffd, at) = DOMAIN nv
<1>1. \A i \in DOMAIN ffd : i \in 1 .. (at - 1)
  BY DEF Data
<1> QED BY <1>1 DEF Before, Data

-----------------------------------------------------------------------------
(* The client.                                                              *)

LEMMA NoClientIs ==
  /\ DOMAIN NoClient = {"st", "build", "cmd", "got", "status", "conf"}
  /\ NoClient.st = "none" /\ NoClient.got = <<>>
  BY DEF NoClient

\* A client that is not yet started, or no longer.
LEMMA NotStarted ==
  ASSUME DOMAIN client' = {"st", "build", "cmd", "got", "status", "conf"}, client'.got \in Seq(Line),
         client'.st # "started"
  PROVE  ClientInv'
  BY DEF ClientInv, AcceptedConsistent, AndroidStarted

LEMMA InitializeKeeps == ASSUME ClientInv, tspInitialize PROVE ClientInv'
<1> DEFINE file_ == tspReadConfigFile(client.got)
           read == IF client.build = "android" THEN tspReadConfigFile_Android(client.got) ELSE file_
           r == Overridden(read, client.cmd)
<1>1. /\ client.st = "reading"
      /\ client' = [client EXCEPT !.st = "started", !.status = r.status, !.conf = r.conf]
  BY DEF tspInitialize
<1> HIDE DEF r
<1>2. /\ DOMAIN client' = DOMAIN client /\ client'.st = "started" /\ client'.cmd = client.cmd
      /\ client'.build = client.build /\ client'.status = r.status /\ client'.conf = r.conf
      /\ client'.got = client.got
  BY <1>1 DEF ClientInv
<1>3. ASSUME client.build = "desktop", r.status = "SUCCESS" 
      PROVE  Consistent(r.conf, Unnamed(client.cmd), Wide(ReadConfigurationData(client.got).nv))
  <2>1. r = Overridden(file_, client.cmd)
    BY <1>3 DEF r
  <2>2. file_.status = "SUCCESS"
    BY <1>3, <2>1 DEF Overridden
  <2> DEFINE nv == ReadConfigurationData(client.got).nv
  <2>3. /\ file_ = [status |-> "SUCCESS", conf |-> Filled(nv)]
        /\ ValidateConfigData(nv) = {} /\ Get(nv, "server") # ""
    BY <2>2 DEF tspReadConfigFile
  <2>4. Consistent(r.conf, Unnamed(client.cmd), Wide(nv))
    <3> HIDE DEF nv, file_
    <3> QED BY <2>1, <2>3, FilledConsistent
  <2> QED BY <2>4
<1>4. AndroidStarted'
  <2>1. client.build = "android" => r = Overridden(tspReadConfigFile_Android(client.got), client.cmd)
    BY DEF r
  <2> QED BY <1>2, <2>1 DEF AndroidStarted
<1> QED BY <1>1, <1>2, <1>3, <1>4 DEF ClientInv, AcceptedConsistent

LEMMA ReadNextKeeps == ASSUME IInv, ReadNextLine PROVE ClientInv'
<1>1. /\ client.st = "reading" /\ Len(client.got) < Len(file)
      /\ client' = [client EXCEPT !.got = Append(@, file[Len(@) + 1])]
  BY DEF ReadNextLine
<1>2. client.got \in Seq(Line) /\ file \in Seq(Line)
  BY DEF IInv, FileInv, ClientInv
<1> DEFINE got == client.got
<1>3. Append(got, file[Len(got) + 1]) \in Seq(Line)
  <2> HIDE DEF got
  <2>1. Len(got) + 1 \in 1 .. Len(file)
    BY <1>1, <1>2 DEF got
  <2>2. file[Len(got) + 1] \in Line
    BY <1>2, <2>1
  <2> QED BY <1>2, <2>2 DEF got
<1>4. /\ DOMAIN client' = DOMAIN client /\ client'.st = "reading"
      /\ client'.got = Append(got, file[Len(got) + 1])
  BY <1>1 DEF IInv, ClientInv
<1> QED BY <1>3, <1>4, NotStarted DEF IInv, ClientInv

LEMMA ClientKeeps ==
  ASSUME IInv,
         \/ \E build \in Builds, argv \in CommandLines : StartClient(build, argv)
         \/ ReadNextLine \/ tspInitialize \/ ClientEnds
  PROVE  IInv'
<1>1. UNCHANGED <<file, gui, saved>>
  BY DEF StartClient, ReadNextLine, tspInitialize, ClientEnds
<1>2. FileInv'
  BY <1>1 DEF IInv, FileInv, Writing, Saved
<1>3. ASSUME NEW build \in Builds, NEW argv \in CommandLines, StartClient(build, argv) PROVE ClientInv'
  <2>1. client' = [NoClient EXCEPT !.st = "reading", !.build = build, !.cmd = ParseArguments(argv)]
    BY <1>3 DEF StartClient
  <2>2. DOMAIN client' = DOMAIN NoClient /\ client'.st = "reading" /\ client'.got = <<>>
    BY <2>1, NoClientIs
  <2> QED BY <2>2, NoClientIs, NotStarted
<1>4. CASE ClientEnds
  <2>1. client' = NoClient
    BY <1>4 DEF ClientEnds
  <2>2. client'.got = <<>> /\ client'.st = "none"
        /\ DOMAIN client' = {"st", "build", "cmd", "got", "status", "conf"}
    BY <2>1, NoClientIs
  <2>3. client'.got \in Seq(Line)
    BY <2>2
  <2>4. client'.st # "started"
    BY <2>2
  <2> QED BY <1>2, <2>2, <2>3, <2>4, NotStarted DEF IInv
<1> QED BY <1>2, <1>3, <1>4, ReadNextKeeps, InitializeKeeps DEF IInv

-----------------------------------------------------------------------------
(* The front end and others that write the file.                            *)

LEMMA Idle ==
  ASSUME FileInv, UNCHANGED <<file, saved>>, gui'.st # "writing",
         DOMAIN gui' = {"st", "nv", "ffd", "valid", "at", "then"}, Data(gui'.nv, gui'.ffd)
  PROVE  FileInv'
  BY DEF FileInv, Writing, Saved

LEMMA LoadedIs ==
  ASSUME FileInv
  PROVE  /\ DOMAIN Loaded(gui) = DOMAIN gui /\ Loaded(gui).st = gui.st
         /\ Data(Loaded(gui).nv, Loaded(gui).ffd)
<1> DEFINE p == ReadConfigurationData(file)
<1>1. Data(p.nv, p.ffd)
  BY FileIsParsed DEF FileInv, Parsed
<1>2. Loaded(gui) = [gui EXCEPT !.nv = p.nv, !.ffd = p.ffd]
  BY DEF Loaded
<1> HIDE DEF p
<1>3. Loaded(gui).nv = p.nv /\ Loaded(gui).ffd = p.ffd /\ DOMAIN Loaded(gui) = DOMAIN gui
      /\ Loaded(gui).st = gui.st
  BY <1>2 DEF FileInv
<1> QED BY <1>1, <1>3

LEMMA LoadKeeps == ASSUME FileInv, Load PROVE FileInv'
<1> DEFINE p == ReadConfigurationData(file)
           v == p.ok /\ ValidateConfigData(p.nv) = {}
           o == Loaded(gui)
<1>1. gui' = [o EXCEPT !.st = "ready", !.valid = v] /\ UNCHANGED <<file, saved>>
  BY DEF Load
<1> HIDE DEF o, v
<1>2. DOMAIN o = {"st", "nv", "ffd", "valid", "at", "then"} /\ Data(o.nv, o.ffd)
  BY LoadedIs DEF o, FileInv
<1>3. gui'.st = "ready" /\ DOMAIN gui' = DOMAIN o /\ gui'.nv = o.nv /\ gui'.ffd = o.ffd
  BY <1>1, <1>2
<1> QED BY <1>1, <1>2, <1>3, Idle

LEMMA CancelKeeps == ASSUME FileInv, CancelChanges PROVE FileInv'
<1>1. gui.st = "ready" /\ gui' = Loaded(gui) /\ UNCHANGED <<file, saved>>
  BY DEF CancelChanges
<1>2. gui'.st = "ready" /\ DOMAIN gui' = DOMAIN gui /\ Data(gui'.nv, gui'.ffd)
  BY <1>1, LoadedIs
<1> QED BY <1>1, <1>2, Idle DEF FileInv

\* A variable that is set has a place from then on.
LEMMA SetKeeps == ASSUME FileInv, NEW c \in Changes, Set(c[1], c[2]) PROVE FileInv'
<1> DEFINE n == c[1]
           v == c[2]
           more == \E i \in DOMAIN gui.ffd : gui.ffd[i][2] = n
           nv == Put(gui.nv, n, v)
           ffd == IF more THEN gui.ffd ELSE Append(gui.ffd, <<"nv", n>>)
<1>1. gui.st = "ready" /\ gui' = SetVariableValue(gui, n, v) /\ UNCHANGED <<file, saved>>
  BY DEF Set
<1>2. gui' = [gui EXCEPT !.nv = nv, !.ffd = ffd]
  BY <1>1 DEF SetVariableValue
<1>3. n \in Variables /\ v \in String
  BY ConfigAssumption
<1>4. n \in String \ ({""} \cup DOMAIN Padded)
  <2>1. n \in Words /\ n \in String
    BY <1>3, WordsAre
  <2> QED BY <1>3, <2>1, PaddedAssumption, EmptyIs
<1>5. /\ gui.ffd \in Seq(Element) /\ gui.nv \in [DOMAIN gui.nv -> String]
      /\ \A x \in DOMAIN gui.nv : \E i \in DOMAIN gui.ffd : gui.ffd[i] = <<"nv", x>>
      /\ DOMAIN gui = {"st", "nv", "ffd", "valid", "at", "then"}
  BY DEF FileInv, Data
<1> HIDE DEF n, v, nv
<1>6. DOMAIN nv = DOMAIN gui.nv \cup {n} /\ nv \in [DOMAIN nv -> String]
  BY <1>3, <1>5 DEF nv, Put
<1>7. CASE more
  <2>1. PICK i \in DOMAIN gui.ffd : gui.ffd[i][2] = n
    BY <1>7
  <2>2. gui.ffd[i] \in Element
    BY <1>5
  <2>3. gui.ffd[i] = <<"nv", n>>
    <3> DEFINE e == gui.ffd[i]
               S == String \ ({""} \cup DOMAIN Padded)
               C == String \ Variables
    <3>1. e \in ({"nv"} \X S) \cup ({"comment", "empty"} \X C)
      BY <2>2 DEF Element
    <3>2. e[2] = n /\ n \notin C
      BY <1>3, <2>1
    <3> HIDE DEF e, S, C
    <3>3. e \in {"nv"} \X S
      BY <3>1, <3>2
    <3>4. e = <<"nv", e[2]>>
      BY <3>3
    <3> QED BY <3>2, <3>4 DEF e
  <2>4. ffd = gui.ffd
    BY <1>7
  <2> HIDE DEF ffd, more
  <2>5. Data(nv, ffd)
    BY <1>5, <1>6, <2>1, <2>3, <2>4 DEF Data
  <2>6. gui'.st = gui.st /\ DOMAIN gui' = DOMAIN gui /\ gui'.nv = nv /\ gui'.ffd = ffd
    BY <1>2, <1>5
  <2> QED BY <1>1, <1>5, <2>5, <2>6, Idle
<1>8. CASE ~more
  <2>1. ffd = Append(gui.ffd, <<"nv", n>>)
    BY <1>8
  <2> HIDE DEF ffd, more
  <2>2. <<"nv", n>> \in Element
    BY <1>4 DEF Element
  <2>3. /\ ffd \in Seq(Element) /\ Len(gui.ffd) + 1 \in DOMAIN ffd /\ ffd[Len(gui.ffd) + 1] = <<"nv", n>>
        /\ DOMAIN gui.ffd \subseteq DOMAIN ffd /\ \A i \in DOMAIN gui.ffd : ffd[i] = gui.ffd[i]
    BY <1>5, <2>1, <2>2
  <2>4. \A x \in DOMAIN nv : \E i \in DOMAIN ffd : ffd[i] = <<"nv", x>>
    <3>1. \E i \in DOMAIN ffd : ffd[i] = <<"nv", n>>
      BY <2>3
    <3>2. \A x \in DOMAIN gui.nv : \E i \in DOMAIN ffd : ffd[i] = <<"nv", x>>
      BY <1>5, <2>3
    <3> QED BY <1>6, <3>1, <3>2
  <2>5. Data(nv, ffd)
    BY <1>6, <2>3, <2>4 DEF Data
  <2>6. gui'.st = gui.st /\ DOMAIN gui' = DOMAIN gui /\ gui'.nv = nv /\ gui'.ffd = ffd
    BY <1>2, <1>5
  <2> QED BY <1>1, <1>5, <2>5, <2>6, Idle
<1> QED BY <1>7, <1>8

LEMMA OpenKeeps ==
  ASSUME NEW o, DOMAIN o = {"st", "nv", "ffd", "valid", "at", "then"}, Data(o.nv, o.ffd),
         NEW then, OpenForWriting(o, then), then = "saved" => ValidateConfigData(o.nv) = {}
  PROVE  FileInv'
<1>1. gui' = [o EXCEPT !.st = "writing", !.at = 1, !.then = then] /\ file' = <<>> /\ saved' = NotSaved
  BY DEF OpenForWriting
<1>2. /\ DOMAIN gui' = {"st", "nv", "ffd", "valid", "at", "then"} /\ gui'.st = "writing" /\ gui'.at = 1
      /\ gui'.then = then /\ gui'.nv = o.nv /\ gui'.ffd = o.ffd
  BY <1>1
<1>3. DOMAIN saved' = {"done", "nv", "lost"} /\ saved'.done = FALSE
  BY <1>1 DEF NotSaved
<1>4. file' \in Seq(Line) /\ ReadsAs(ReadConfigurationData(file'), gui'.nv, Before(gui'.nv, gui'.ffd, 1))
  BY <1>1, NothingWritten
<1>5. Writing'
  BY <1>2, <1>3, <1>4 DEF Writing
<1>6. Saved'
  BY <1>3 DEF Saved
<1> QED BY <1>2, <1>3, <1>4, <1>5, <1>6 DEF FileInv

LEMMA SaveKeeps == ASSUME FileInv, NEW opens \in BOOLEAN, Save(opens) PROVE FileInv'
<1>1. CASE OpenForWriting(gui, "saved") /\ ValidateConfigData(gui.nv) = {}
  BY <1>1, OpenKeeps DEF FileInv
<1>2. CASE gui.st = "ready" /\ gui' = [gui EXCEPT !.valid = TRUE] /\ UNCHANGED <<file, saved>>
  <2>1. gui'.st = "ready" /\ DOMAIN gui' = DOMAIN gui /\ gui'.nv = gui.nv /\ gui'.ffd = gui.ffd
    BY <1>2 DEF FileInv
  <2> QED BY <1>2, <2>1, Idle DEF FileInv
<1> QED BY <1>1, <1>2 DEF Save

LEMMA DefaultsKeep == ASSUME FileInv, NEW lines \in DefaultFiles, LoadDefaults(lines) PROVE FileInv'
<1> DEFINE p == ReadConfigurationData(lines)
           o == [gui EXCEPT !.nv = p.nv, !.ffd = p.ffd]
<1>1. lines \in Seq(Line)
  BY ConfigAssumption
<1>2. Data(p.nv, p.ffd)
  BY <1>1, FileIsParsed DEF Parsed
<1>3. /\ gui.st = "ready"
      /\ OpenForWriting(o, "defaults") \/ (gui' = o /\ UNCHANGED <<file, saved>>)
  BY DEF LoadDefaults
<1> HIDE DEF p
<1>4. o.nv = p.nv /\ o.ffd = p.ffd /\ DOMAIN o = DOMAIN gui /\ o.st = gui.st
  BY DEF FileInv
<1> HIDE DEF o
<1>5. CASE OpenForWriting(o, "defaults")
  BY <1>2, <1>4, <1>5, OpenKeeps DEF FileInv
<1>6. CASE gui' = o /\ UNCHANGED <<file, saved>>
  BY <1>2, <1>3, <1>4, <1>6, Idle DEF FileInv
<1> QED BY <1>3, <1>5, <1>6

LEMMA WriteKeeps == ASSUME FileInv, NEW written \in BOOLEAN, WriteLine(written) PROVE FileInv'
<1> DEFINE at == gui.at
           line == Written(gui.ffd[at], gui.nv)
<1>1. /\ gui.st = "writing" /\ at <= Len(gui.ffd) /\ (saved.lost => ~written)
      /\ gui' = [gui EXCEPT !.at = @ + 1]
      /\ \/ written /\ file' = file \o line /\ UNCHANGED saved
         \/ ~written /\ saved' = [saved EXCEPT !.lost = TRUE] /\ UNCHANGED file
  BY DEF WriteLine
<1>2. /\ ~saved.done /\ at \in Nat \ {0} /\ (gui.then = "saved" => ValidateConfigData(gui.nv) = {})
      /\ ~saved.lost => ReadsAs(ReadConfigurationData(file), gui.nv, Before(gui.nv, gui.ffd, at))
  BY <1>1 DEF FileInv, Writing
<1>3. /\ gui'.st = gui.st /\ gui'.at = at + 1 /\ gui'.then = gui.then /\ gui'.nv = gui.nv
      /\ gui'.ffd = gui.ffd /\ DOMAIN gui' = DOMAIN gui
  BY <1>1 DEF FileInv
<1>4. Data(gui.nv, gui.ffd) /\ file \in Seq(Line)
  BY DEF FileInv
<1>5. /\ file \o line \in Seq(Line)
      /\ ReadsAs(ReadConfigurationData(file), gui.nv, Before(gui.nv, gui.ffd, at)) =>
           ReadsAs(ReadConfigurationData(file \o line), gui.nv, Before(gui.nv, gui.ffd, at + 1))
  BY <1>1, <1>2, <1>4, WriteOne
<1> HIDE DEF at, line
<1>6. CASE written /\ file' = file \o line /\ UNCHANGED saved
  <2>1. Writing'
    BY <1>1, <1>2, <1>3, <1>5, <1>6 DEF Writing
  <2>2. Saved'
    BY <1>2, <1>6 DEF Saved
  <2> QED BY <1>3, <1>4, <1>5, <1>6, <2>1, <2>2 DEF FileInv
<1>7. CASE saved' = [saved EXCEPT !.lost = TRUE] /\ UNCHANGED file
  <2>1. saved'.lost = TRUE /\ saved'.done = saved.done /\ DOMAIN saved' = DOMAIN saved
    BY <1>7 DEF FileInv
  <2>2. Writing'
    BY <1>2, <1>3, <2>1 DEF Writing
  <2>3. Saved'
    BY <2>1 DEF Saved
  <2> QED BY <1>3, <1>4, <1>7, <2>1, <2>2, <2>3 DEF FileInv
<1> QED BY <1>1, <1>6, <1>7

LEMMA EndKeeps == ASSUME FileInv, WriteEnds PROVE FileInv'
<1> DEFINE v == gui.then = "saved" \/ ValidateConfigData(gui.nv) = {}
<1>1. /\ gui.st = "writing" /\ gui.at > Len(gui.ffd) /\ UNCHANGED file
      /\ gui' = [gui EXCEPT !.st = "ready", !.at = 0, !.then = NULL, !.valid = v]
      /\ saved' = IF gui.then = "saved" THEN [saved EXCEPT !.done = TRUE, !.nv = gui.nv] ELSE saved
  BY DEF WriteEnds
<1> HIDE DEF v
<1>2. gui'.st = "ready" /\ DOMAIN gui' = DOMAIN gui /\ gui'.nv = gui.nv /\ gui'.ffd = gui.ffd
  BY <1>1 DEF FileInv
<1>3. CASE gui.then # "saved"
  <2>1. UNCHANGED <<file, saved>>
    BY <1>1, <1>3
  <2> QED BY <1>2, <2>1, Idle DEF FileInv
<1>4. CASE gui.then = "saved"
  <2>1. saved'.done = TRUE /\ saved'.nv = gui.nv /\ saved'.lost = saved.lost /\ DOMAIN saved' = DOMAIN saved
    BY <1>1, <1>4 DEF FileInv
  <2>2. /\ gui.at \in Nat /\ ValidateConfigData(gui.nv) = {}
        /\ ~saved.lost => ReadsAs(ReadConfigurationData(file), gui.nv, Before(gui.nv, gui.ffd, gui.at))
    BY <1>1, <1>4 DEF FileInv, Writing
  <2>3. Before(gui.nv, gui.ffd, gui.at) = DOMAIN gui.nv
    BY <1>1, <2>2, AllWritten DEF FileInv
  <2>4. gui.nv \in [DOMAIN gui.nv -> String]
    BY DEF FileInv, Data
  <2>5. Saved'
    BY <1>1, <2>1, <2>2, <2>3, <2>4 DEF Saved
  <2>6. Writing'
    BY <1>2 DEF Writing
  <2> QED BY <1>1, <1>2, <2>1, <2>5, <2>6 DEF FileInv
<1> QED BY <1>3, <1>4

LEMMA NoObjectIs ==
  /\ DOMAIN NoObject = {"st", "nv", "ffd", "valid", "at", "then"} /\ NoObject.st = "none"
  /\ Data(NoObject.nv, NoObject.ffd)
<1>1. Data(<<>>, <<>>)
  BY DEF Data
<1> QED BY <1>1 DEF NoObject, Empty

LEMMA EditKeeps == ASSUME FileInv, NEW lines \in Edits, Edit(lines) PROVE FileInv'
<1>1. gui.st # "writing" /\ file' = lines /\ saved' = NotSaved /\ UNCHANGED gui
  BY DEF Edit
<1>2. lines \in Seq(Line)
  BY ConfigAssumption
<1>3. DOMAIN saved' = {"done", "nv", "lost"} /\ saved'.done = FALSE
  BY <1>1 DEF NotSaved
<1> QED BY <1>1, <1>2, <1>3 DEF FileInv, Writing, Saved

LEMMA FileKeeps ==
  ASSUME FileInv,
         \/ Load \/ CancelChanges \/ WriteEnds \/ Quit
         \/ (\E lines \in DefaultFiles : LoadDefaults(lines)) \/ (\E c \in Changes : Set(c[1], c[2]))
         \/ (\E opens \in BOOLEAN : Save(opens)) \/ (\E written \in BOOLEAN : WriteLine(written))
         \/ (\E lines \in Edits : Edit(lines)) \/ UNCHANGED vars
  PROVE  FileInv'
<1>1. CASE UNCHANGED vars
  BY <1>1 DEF vars, FileInv, Writing, Saved
<1>2. CASE Quit
  BY <1>2, NoObjectIs, Idle DEF Quit
<1> QED BY <1>1, <1>2, LoadKeeps, CancelKeeps, EndKeeps, DefaultsKeep, SetKeeps, SaveKeeps, WriteKeeps, EditKeeps

LEMMA Initially == Init => IInv
<1> SUFFICES ASSUME Init PROVE IInv
  OBVIOUS
<1>1. file \in Seq(Line) /\ gui = NoObject /\ client = NoClient /\ saved = NotSaved
  BY ConfigAssumption DEF Init
<1>2. FileInv
  <2>1. DOMAIN saved = {"done", "nv", "lost"} /\ saved.done = FALSE
    BY <1>1 DEF NotSaved
  <2> QED BY <1>1, <2>1, NoObjectIs DEF FileInv, Writing, Saved
<1>3. ClientInv
  BY <1>1, NoClientIs DEF ClientInv, AcceptedConsistent, AndroidStarted
<1> QED BY <1>2, <1>3 DEF IInv

LEMMA Inductive == ASSUME IInv, [Next]_vars PROVE IInv'
<1>1. CASE \/ Load \/ CancelChanges \/ WriteEnds \/ Quit
           \/ (\E lines \in DefaultFiles : LoadDefaults(lines)) \/ (\E c \in Changes : Set(c[1], c[2]))
           \/ (\E opens \in BOOLEAN : Save(opens)) \/ (\E written \in BOOLEAN : WriteLine(written))
           \/ (\E lines \in Edits : Edit(lines)) \/ UNCHANGED vars
  <2>1. UNCHANGED client
    BY <1>1 DEF Load, CancelChanges, WriteEnds, Quit, LoadDefaults, Set, Save, WriteLine, Edit, vars
  <2>2. ClientInv'
    BY <2>1 DEF IInv, ClientInv, AcceptedConsistent, AndroidStarted
  <2> QED BY <1>1, <2>2, FileKeeps DEF IInv
<1>2. CASE \/ \E build \in Builds, argv \in CommandLines : StartClient(build, argv)
           \/ ReadNextLine \/ tspInitialize \/ ClientEnds
  BY <1>2, ClientKeeps
<1> QED BY <1>1, <1>2 DEF Next

LEMMA Invariance == Spec => []IInv
<1>1. Init => IInv
  BY Initially
<1>2. IInv /\ [Next]_vars => IInv'
  BY Inductive
<1> QED BY <1>1, <1>2, PTL DEF Spec

-----------------------------------------------------------------------------
(* The theorems.                                                            *)

\* A client that starts has a configuration that holds together, with the defaults of
\* what the file leaves out and the options of the command line, but for an interface
\* that one of them names by the empty string; also when it read the file while the
\* front end was writing it (gogocconfig.cc, gogoc_c_wrapper.cc, config.c, cli.c).
THEOREM AcceptedConsistentCorrect == Spec => []AcceptedConsistent
<1>1. IInv => AcceptedConsistent
  BY DEF IInv, ClientInv
<1> QED BY <1>1, Invariance, PTL

LEMMA SavedIsRead == ASSUME FileInv PROVE SavedReadBack
<1> DEFINE p == ReadConfigurationData(file)
           nv == saved.nv
<1> SUFFICES ASSUME saved.done, ~saved.lost,
                    \A n \in DOMAIN nv : trim(nv[n]) = "" => nv[n] = ""
             PROVE  ReadsBack
  BY DEF SavedReadBack
<1>1. /\ nv \in [DOMAIN nv -> String] /\ ValidateConfigData(nv) = {}
      /\ p.ok /\ DOMAIN p.nv = DOMAIN nv /\ \A n \in DOMAIN nv : p.nv[n] = trim(nv[n])
  BY DEF FileInv, Saved, ReadsAs
<1> HIDE DEF p, nv
<1>2. \A n \in DOMAIN nv : p.nv[n] = trim(nv[n]) /\ (p.nv[n] = "" => nv[n] = "")
  BY <1>1
<1>3. ValidateConfigData(p.nv) = {}
  BY <1>1, <1>2, TrimmedPass
<1>4. \A n \in Variables : Get(p.nv, n) = trim(Get(nv, n))
  BY <1>1, <1>2, TrimmedGet
<1> QED BY <1>1, <1>3, <1>4 DEF ReadsBack, p, nv

\* What Save() has returned true for is in the file until somebody else writes it: a
\* client that reads it accepts it and has the same values, whatever was loaded, set,
\* cancelled or restored before, in files of any length and with strings of any kind
\* (gogocconfig.cc, namevalueconfig.cc, namevalueparser.cc).
THEOREM SavedReadBackCorrect == Spec => []SavedReadBack
<1>1. IInv => SavedReadBack
  BY SavedIsRead DEF IInv
<1> QED BY <1>1, Invariance, PTL

LEMMA BothRead == ASSUME ClientInv PROVE BuildsAgree
<1> DEFINE p == ReadConfigurationData(client.got)
           a == tspReadConfigFile_Android(client.got)
           cmd == client.cmd
           r == Overridden(a, cmd)
           given == {x \in {"client_v4", "if_tunnel_v6v4", "if_tunnel_v6udpv4"} : cmd[x] # NULL}
<1> SUFFICES ASSUME client.st = "started", client.build = "android", client.status = "SUCCESS",
                    Plain(client.got), p.ok,
                    NEW n \in AndroidReads, GetVariableValue(p.nv, n) # ""
             PROVE  client.conf.text[n] = p.nv[n] \/ (n \in DOMAIN NoCmdLine /\ cmd[n] # NULL)
  BY DEF BuildsAgree
<1>1. client.status = r.status /\ client.conf = r.conf
  BY DEF ClientInv, AndroidStarted
<1>2. Agree(p, a) /\ AndroidRead(a)
  BY ReadersAgree DEF ClientInv
<1>3. n \in DOMAIN p.nv /\ p.nv[n] # ""
  BY DEF GetVariableValue
<1>4. a.status = "SUCCESS"
  BY <1>1 DEF Overridden
<1>5. r = [a EXCEPT !.conf.text = [x \in DOMAIN @ |-> IF x \in given THEN cmd[x] ELSE @[x]]]
  BY <1>4 DEF Overridden
<1> HIDE DEF p, a, r, given, cmd
<1>6. r.conf.text = [x \in Texts |-> IF x \in given THEN cmd[x] ELSE a.conf.text[x]]
  BY <1>2, <1>5 DEF AndroidRead
<1>7. n \in Texts
  BY AndroidReadsAre
<1>8. n \in given => n \in DOMAIN NoCmdLine /\ cmd[n] # NULL
  BY DEF given, NoCmdLine
<1>9. a.conf.text[n] = p.nv[n]
  BY <1>2, <1>3, <1>4 DEF Agree, p
<1>10. r.conf.text[n] = IF n \in given THEN cmd[n] ELSE p.nv[n]
  BY <1>6, <1>7, <1>9
<1> QED BY <1>1, <1>8, <1>10 DEF p, cmd

\* A file without blanks that the desktop build accepts means the same to the Android
\* build, which parses it on its own: each variable that both read and that has a value
\* has it there, unless an option replaces it (config.c, gogoc_c_wrapper.cc).
THEOREM BuildsAgreeCorrect == Spec => []BuildsAgree
<1>1. IInv => BuildsAgree
  BY BothRead DEF IInv
<1> QED BY <1>1, Invariance, PTL
=============================================================================
