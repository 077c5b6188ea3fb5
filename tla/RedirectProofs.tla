--------------------------- MODULE RedirectProofs ---------------------------
(***************************************************************************)
(* The threads that time the brokers of a redirection, the memory they use *)
(* and the order of the list, for any redirections, lengths of the list,   *)
(* timings and numbers of redirections.                                    *)
(***************************************************************************)
EXTENDS Redirect, SequenceTheorems, WellFoundedInduction, TLAPS

-----------------------------------------------------------------------------
(* The inductive invariant.                                                 *)

TypeOK ==
  /\ pc \in {"idle", "allocate", "create", "join", "sort"}
  /\ round \in Nat /\ next \in Nat \ {0}
  /\ argsFreed \subseteq 1 .. round
  /\ DOMAIN ghost = {"outcome", "uncreated", "wild"}
  /\ ghost.uncreated \in BOOLEAN /\ ghost.wild \in BOOLEAN
  /\ DOMAIN ghost.outcome = 1 .. MAX_REDIRECT_BROKERS_IN_LIST

\* While a list is handled, its elements are those made for this redirection.
Fields == {"id", "address", "address_type", "distance"}
Elements(l) == Len(l) \in Nat /\ DOMAIN l = 1 .. Len(l)

ListOK ==
  pc # "idle" =>
    /\ Elements(list)
    /\ \A i \in 1 .. Len(list) : list[i].id = <<round, i>> /\ DOMAIN list[i] = Fields
    /\ Len(list) <= MAX_REDIRECT_BROKERS_IN_LIST
    /\ round # 0 /\ (pc # "sort" => round \notin argsFreed)
    /\ pc = "allocate" => next = 1
    /\ pc = "create" => next - 1 <= Len(list)

\* The elements with a thread that runs or is not joined yet.
Timed ==
  CASE pc = "create" -> 1 .. next - 1
    [] pc = "join"   -> next .. Len(list)
    [] OTHER         -> {}

\* As long as every thread could be created, the threads are those of the elements
\* already reached and not yet joined: none is left when the handling ends.
ThreadsOK ==
  ~ghost.uncreated =>
    /\ ~ghost.wild
    /\ DOMAIN threads = {<<round, i>> : i \in Timed}

\* The distance of a broker that answered, of one that did not, and of one of the
\* wrong address family.
Adjusted(distance, outcome) ==
  /\ distance \in Nat /\ outcome \in {"answered", "failed", "wrong"}
  /\ outcome = "answered" => distance < 2 * ECHO_REQUEST_TIMEOUT
  /\ outcome = "failed" => distance \in 2 * ECHO_REQUEST_TIMEOUT .. 3 * ECHO_REQUEST_TIMEOUT - 1
  /\ outcome = "wrong" => distance >= 3 * ECHO_REQUEST_TIMEOUT

\* What a thread has found so far.
Running == {"start", "resolve", "send", "wait"}
Found(t) ==
  /\ DOMAIN t = {"st", "type", "retries", "distance", "outcome"}
  /\ t.st \in Running \cup {"write", "exited"}
  /\ t.st \in Running => \/ t.outcome = "answered" /\ t.distance = 0
                         \/ t.outcome = "wrong" /\ t.distance = WRONG_FAMILY_ADJUST
  /\ t.st \notin Running => Adjusted(t.distance, t.outcome)

\* Threads of this redirection and those left over from earlier ones: after a list that
\* was sorted there are none of this one.
EchoesOK ==
  /\ \A id \in DOMAIN threads :
       id \in (1 .. round) \X (1 .. MAX_REDIRECT_BROKERS_IN_LIST) /\ Found(threads[id])
  /\ pc # "idle" \/ status = "OK" =>
       \A i \in 1 .. MAX_REDIRECT_BROKERS_IN_LIST : <<round, i>> \in DOMAIN threads => i \in Timed
  /\ pc \in {"create", "join"} => \A i \in Timed : <<round, i>> \in DOMAIN threads

\* The distances that are final: those of the brokers whose threads have ended.
Known(i) ==
  \/ pc = "sort" \/ (pc = "join" /\ i < next)
  \/ <<round, i>> \in DOMAIN threads /\ threads[<<round, i>>].st = "exited"

KnownOK ==
  pc # "idle" =>
    \A i \in 1 .. Len(list) : Known(i) => Adjusted(list[i].distance, ghost.outcome[i])

\* A list in the order of its distances, each as its broker's outcome has it.
Timely(b) ==
  /\ b.id[1] = round /\ b.id[2] \in 1 .. MAX_REDIRECT_BROKERS_IN_LIST
  /\ Adjusted(b.distance, ghost.outcome[b.id[2]])

IsList(l) == l \in Seq({l[i] : i \in DOMAIN l})
InOrder(l) == \A i, j \in 1 .. Len(l) : i < j => l[i].distance <= l[j].distance

SortedOK ==
  /\ pc = "idle" => Elements(list)
  /\ pc = "sort" =>
       IsList(sorted) /\ InOrder(sorted) /\ \A i \in 1 .. Len(sorted) : Timely(sorted[i])
  /\ pc = "idle" /\ status = "OK" /\ Len(list) > 1 =>
       IsList(list) /\ InOrder(list) /\ \A i \in 1 .. Len(list) : Timely(list[i])

\* What protects the memory that the threads use, and what orders the list.
MemoryOK == TypeOK /\ ListOK /\ ThreadsOK
OrderOK  == EchoesOK /\ KnownOK /\ SortedOK

IInv == MemoryOK /\ OrderOK

-----------------------------------------------------------------------------
(* The list.                                                                *)

LEMMA ElementsOf ==
  ASSUME NEW n \in Nat, NEW f, DOMAIN f = 1 .. n, f = [i \in 1 .. n |-> f[i]]
  PROVE  Elements(f) /\ Len(f) = n
<1>1. f \in Seq({f[i] : i \in 1 .. n})
  OBVIOUS
<1> QED BY <1>1 DEF Elements

\* A list that is made numbers its elements, and never has more than a redirection may.
LEMMA Created ==
  ASSUME NEW t
  PROVE  LET l == tspCreateBrokerList(t).list IN
         /\ Elements(l)
         /\ \A i \in 1 .. Len(l) : l[i].id = <<round + 1, i>> /\ DOMAIN l[i] = Fields
         /\ tspCreateBrokerList(t).ok => Len(l) <= MAX_REDIRECT_BROKERS_IN_LIST
<1> DEFINE b == Redirections(t)
           ok == /\ Len(b) \in 0 .. MAX_REDIRECT_BROKERS_IN_LIST
                 /\ \A i \in 1 .. Len(b) : CanAdd(b[i][1])
           n == IF ok THEN Len(b) ELSE 0
           l == [i \in 1 .. n |-> tspAddBrokerToList(i, b[i][1], b[i][2])]
<1>1. tspCreateBrokerList(t) = [ok |-> ok, list |-> l]
  BY DEF tspCreateBrokerList
<1>2. n \in Nat /\ (ok => n <= MAX_REDIRECT_BROKERS_IN_LIST)
  OBVIOUS
<1>3. \A i \in 1 .. n : l[i].id = <<round + 1, i>> /\ DOMAIN l[i] = Fields
  BY DEF tspAddBrokerToList, Fields
<1>4. DOMAIN l = 1 .. n /\ l = [i \in 1 .. n |-> l[i]]
  OBVIOUS
<1> HIDE DEF n, l, ok
<1>5. Elements(l) /\ Len(l) = n
  BY <1>2, <1>4, ElementsOf
<1> QED BY <1>1, <1>2, <1>3, <1>5

\* A list in which one thread has written its distance.
Written(l, id, distance) ==
  [i \in DOMAIN l |-> IF l[i].id = id THEN [l[i] EXCEPT !.distance = distance] ELSE l[i]]

LEMMA WrittenIs ==
  ASSUME NEW l, Elements(l), NEW id, NEW d
  PROVE  /\ Elements(Written(l, id, d)) /\ Len(Written(l, id, d)) = Len(l)
         /\ \A i \in 1 .. Len(l) :
              /\ Written(l, id, d)[i].id = l[i].id \/ "id" \notin DOMAIN l[i]
              /\ DOMAIN Written(l, id, d)[i] = DOMAIN l[i]
<1>1. Len(l) \in Nat /\ DOMAIN l = 1 .. Len(l)
  BY DEF Elements
<1>2. /\ DOMAIN Written(l, id, d) = 1 .. Len(l)
      /\ Written(l, id, d) = [i \in 1 .. Len(l) |-> Written(l, id, d)[i]]
  BY <1>1 DEF Written
<1>3. Elements(Written(l, id, d)) /\ Len(Written(l, id, d)) = Len(l)
  BY <1>1, <1>2, ElementsOf
<1> QED BY <1>1, <1>3 DEF Written

\* A set of natural numbers has a least element.
LEMMA Smallest ==
  ASSUME NEW T, T \subseteq Nat, T # {}
  PROVE  \E x \in T : \A y \in T : x <= y
<1> DEFINE R == OpToRel(<, Nat)
<1>1. IsWellFoundedOn(R, Nat)
  BY NatLessThanWellFounded, Zenon
<1>2. \E x \in T : \A y \in T : ~ (<<y, x>> \in R)
  <2> HIDE DEF R
  <2> QED BY <1>1, WFMin, Zenon
<1>3. \A x, y \in Nat : ~(<<y, x>> \in R) => x <= y
  BY DEF OpToRel
<1> QED BY <1>2, <1>3

LEMMA Inserted ==
  ASSUME NEW S, NEW s \in Seq(S), NEW b \in S, \A e \in S : e.distance \in Nat, InOrder(s)
  PROVE  /\ tspInsertInBrokerList(s, b) \in Seq(S)
         /\ InOrder(tspInsertInBrokerList(s, b))
<1> DEFINE nearer == {i \in DOMAIN s : b.distance > s[i].distance}
           IsPos(p) == 1 .. p \subseteq nearer /\ p + 1 \notin nearer
           pos == CHOOSE p \in 0 .. Len(s) : IsPos(p)
           before == SubSeq(s, 1, pos)
           after == SubSeq(s, pos + 1, Len(s))
           r == before \o <<b>> \o after
<1>1. tspInsertInBrokerList(s, b) = r
  BY DEF tspInsertInBrokerList
<1>2. Len(s) \in Nat /\ DOMAIN s = 1 .. Len(s) /\ \A i \in 1 .. Len(s) : s[i] \in S
  OBVIOUS
<1>3. \E p \in 0 .. Len(s) : IsPos(p)
  <2> DEFINE T == {p \in Nat : p + 1 \notin nearer}
  <2>1. Len(s) \in T
    BY <1>2
  <2>2. PICK p \in T : \A q \in T : p <= q
    <3> HIDE DEF T
    <3>1. T \subseteq Nat
      BY DEF T
    <3> QED BY <2>1, <3>1, Smallest
  <2>3. ASSUME NEW i \in 1 .. p PROVE i \in nearer
    <3>1. i - 1 \notin T
      BY <2>2
    <3> QED BY <3>1
  <2>4. p \in 0 .. Len(s) /\ p + 1 \notin nearer
    BY <1>2, <2>1, <2>2
  <2> QED BY <2>3, <2>4
<1>4. pos \in 0 .. Len(s) /\ IsPos(pos)
  <2> HIDE DEF IsPos
  <2> QED BY <1>3
<1> HIDE DEF pos
<1>5. /\ before \in Seq(S) /\ Len(before) = pos
      /\ \A i \in 1 .. pos : before[i] = s[i]
  BY <1>2, <1>4
<1>6. /\ after \in Seq(S) /\ Len(after) = Len(s) - pos
      /\ \A i \in 1 .. Len(s) - pos : after[i] = s[pos + i]
  <2>1. pos + 1 \in 1 .. Len(s) + 1 /\ Len(s) \in (pos + 1) - 1 .. Len(s)
    BY <1>2, <1>4
  <2>2. after \in Seq(S) /\ Len(after) = Len(s) - (pos + 1) + 1
    BY <1>2, <2>1, SubSeqProperties
  <2>3. \A i \in 1 .. Len(s) - (pos + 1) + 1 : after[i] = s[(pos + 1) + i - 1]
    BY <1>2, <2>1, SubSeqProperties
  <2>4. Len(s) - (pos + 1) + 1 = Len(s) - pos /\ pos \in Nat
    BY <1>2, <1>4
  <2>5. \A i \in 1 .. Len(s) - pos : after[i] = s[(pos + 1) + i - 1] /\ (pos + 1) + i - 1 = pos + i
    BY <2>3, <2>4
  <2> QED BY <2>2, <2>4, <2>5
<1> HIDE DEF before, after
<1>7. /\ r \in Seq(S) /\ Len(r) = Len(s) + 1
      /\ \A i \in 1 .. pos : r[i] = s[i]
      /\ r[pos + 1] = b
      /\ \A i \in pos + 2 .. Len(s) + 1 : r[i] = s[i - 1]
  <2>1. before \o <<b>> \in Seq(S) /\ Len(before \o <<b>>) = pos + 1
    BY <1>4, <1>5
  <2>2. /\ \A i \in 1 .. pos : (before \o <<b>>)[i] = s[i]
        /\ (before \o <<b>>)[pos + 1] = b
    BY <1>4, <1>5
  <2>3. r \in Seq(S) /\ Len(r) = Len(s) + 1
    BY <1>2, <1>4, <1>6, <2>1
  <2>4. \A i \in 1 .. pos + 1 : r[i] = (before \o <<b>>)[i]
    BY <1>4, <1>6, <2>1
  <2>5. \A i \in pos + 2 .. Len(s) + 1 : r[i] = after[i - (pos + 1)]
    BY <1>2, <1>4, <1>6, <2>1
  <2>6. ASSUME NEW i \in pos + 2 .. Len(s) + 1 PROVE r[i] = s[i - 1]
    <3>1. i - (pos + 1) \in 1 .. Len(s) - pos /\ pos + (i - (pos + 1)) = i - 1
      BY <1>2, <1>4
    <3>2. after[i - (pos + 1)] = s[i - 1]
      BY <1>6, <3>1
    <3> QED BY <2>5, <3>2
  <2>7. \A i \in 1 .. pos : r[i] = s[i]
    BY <1>4, <2>2, <2>4
  <2>8. r[pos + 1] = b
    BY <1>4, <2>2, <2>4
  <2> QED BY <2>3, <2>6, <2>7, <2>8
<1> HIDE DEF r
<1>8. InOrder(r)
  <2> SUFFICES ASSUME NEW i \in 1 .. Len(r), NEW j \in 1 .. Len(r), i < j
               PROVE  r[i].distance <= r[j].distance
    BY DEF InOrder
  <2>1. \A k \in 1 .. pos : s[k].distance < b.distance
    BY <1>2, <1>4
  <2>2. \A k \in pos + 1 .. Len(s) : b.distance <= s[k].distance
    <3>1. pos + 1 \in 1 .. Len(s) => b.distance <= s[pos + 1].distance
      BY <1>2, <1>4
    <3>2. \A k \in pos + 1 .. Len(s) : k # pos + 1 => s[pos + 1].distance <= s[k].distance
      BY <1>2, <1>4 DEF InOrder
    <3> QED BY <1>2, <1>4, <3>1, <3>2
  <2>3. CASE j <= pos
    BY <1>2, <1>4, <1>7, <2>3 DEF InOrder
  <2>4. CASE j = pos + 1
    BY <1>2, <1>4, <1>7, <2>1, <2>4
  <2>5. CASE j > pos + 1 /\ i <= pos
    <3>1. j - 1 \in pos + 1 .. Len(s) /\ j \in pos + 2 .. Len(s) + 1 /\ i \in 1 .. pos
      BY <1>4, <1>7, <2>5
    <3>2. r[i] = s[i] /\ r[j] = s[j - 1]
      BY <1>7, <3>1
    <3>3. s[i].distance < b.distance /\ b.distance <= s[j - 1].distance
      BY <2>1, <2>2, <3>1
    <3>4. s[i].distance \in Int /\ b.distance \in Int /\ s[j - 1].distance \in Int
      BY <1>2, <1>4, <3>1
    <3> QED BY <3>2, <3>3, <3>4
  <2>6. CASE j > pos + 1 /\ i = pos + 1
    <3>1. j - 1 \in pos + 1 .. Len(s) /\ j \in pos + 2 .. Len(s) + 1
      BY <1>4, <1>7, <2>6
    <3>2. r[i] = b /\ r[j] = s[j - 1]
      BY <1>7, <2>6, <3>1
    <3> QED BY <2>2, <3>1, <3>2
  <2>7. CASE j > pos + 1 /\ i > pos + 1
    <3>1. i \in pos + 2 .. Len(s) + 1 /\ j \in pos + 2 .. Len(s) + 1
      BY <1>4, <1>7, <2>7
    <3>2. r[i] = s[i - 1] /\ r[j] = s[j - 1]
      BY <1>7, <3>1
    <3>3. i - 1 \in 1 .. Len(s) /\ j - 1 \in 1 .. Len(s) /\ i - 1 < j - 1
      BY <1>4, <3>1
    <3> QED BY <3>2, <3>3, <1>2 DEF InOrder
  <2> QED BY <1>4, <2>3, <2>4, <2>5, <2>6, <2>7
<1> QED BY <1>1, <1>7, <1>8
-----------------------------------------------------------------------------
(* Memory.                                                                  *)

\* What tspHandleRedirect() makes of a document that was parsed.
Handled(parsed) ==
  LET created == tspCreateBrokerList(parsed.t) IN
  /\ pc = "idle" /\ next' = 1 /\ ghost' = [ghost EXCEPT !.outcome = NoOutcome]
  /\ UNCHANGED <<sorted, threads, argsFreed>>
  /\ IF parsed.rc # 0
     THEN Return("CANT_EXTRACT_PAYLOAD") /\ UNCHANGED <<list, round>>
     ELSE /\ list' = created.list
          /\ round' = round + 1
          /\ IF ~created.ok THEN Return("CANT_CREATE_LIST")
             ELSE CASE created.list = <<>>   -> Return("EMPTY_BROKER_LIST")
                    [] Len(created.list) = 1 -> Return("OK")
                    [] OTHER                 -> pc' = "allocate" /\ UNCHANGED status

LEMMA HandledIs ==
  ASSUME NEW payload, tspHandleRedirect(payload)
  PROVE  \E parsed : Handled(parsed)
  BY DEF tspHandleRedirect, Handled

LEMMA HandleKeeps == ASSUME NEW payload, MemoryOK, tspHandleRedirect(payload) PROVE MemoryOK'
<1>0. PICK parsed : Handled(parsed)
  BY HandledIs
<1> DEFINE created == tspCreateBrokerList(parsed.t)
<1>1. /\ pc = "idle" /\ next' = 1 /\ UNCHANGED <<threads, argsFreed>>
      /\ ghost' = [ghost EXCEPT !.outcome = NoOutcome]
      /\ \/ pc' = "idle" /\ round' \in {round, round + 1}
         \/ pc' = "allocate" /\ round' = round + 1 /\ list' = created.list
  BY <1>0 DEF Handled, Return
<1>2. TypeOK'
  BY <1>1 DEF MemoryOK, TypeOK, NoOutcome
<1>3. ListOK'
  <2> HIDE DEF created
  <2>1. CASE pc' = "idle"
    BY <2>1 DEF ListOK
  <2>2. CASE pc' = "allocate"
    <3>1. round' = round + 1 /\ list' = created.list
      BY <1>1, <2>2
    <3>2. round' # 0 /\ round' \notin argsFreed'
      BY <1>1, <3>1 DEF MemoryOK, TypeOK
    <3>3. /\ Elements(list')
          /\ \A i \in 1 .. Len(list') : list'[i].id = <<round', i>> /\ DOMAIN list'[i] = Fields
      BY <3>1, Created DEF created
    <3>4. Len(list') <= MAX_REDIRECT_BROKERS_IN_LIST
      BY <1>1, <2>2, <3>1, <1>0, Created DEF created, Handled, Return
    <3> QED BY <1>1, <2>2, <3>2, <3>3, <3>4 DEF ListOK, Elements
  <2> QED BY <1>1, <2>1, <2>2
<1>4. ThreadsOK'
  <2>1. Timed = {} /\ Timed' = {} /\ pc' # "create"
    BY <1>1 DEF Timed
  <2> QED BY <1>1, <2>1 DEF MemoryOK, TypeOK, ThreadsOK
<1> QED BY <1>2, <1>3, <1>4 DEF MemoryOK

LEMMA AllocateKeeps == ASSUME NEW ok, MemoryOK, AllocateArrays(ok) PROVE MemoryOK'
<1>1. /\ pc = "allocate" /\ pc' \in {"idle", "create"}
      /\ UNCHANGED <<list, next, threads, argsFreed, round, ghost>>
  BY DEF AllocateArrays, Return
<1>2. TypeOK'
  BY <1>1 DEF MemoryOK, TypeOK
<1>3. ListOK'
  BY <1>1 DEF MemoryOK, ListOK, Elements
<1>4. ThreadsOK'
  <2>1. SUFFICES ASSUME ~ghost.uncreated PROVE ThreadsOK'
    BY <1>1 DEF ThreadsOK
  <2>2. next = 1 /\ Len(list) \in Nat
    BY <1>1, <2>1 DEF MemoryOK, ListOK, Elements, ThreadsOK
  <2>3. Timed = {} /\ Timed' = {}
    BY <1>1, <2>2 DEF Timed
  <2> QED BY <1>1, <2>1, <2>2, <2>3 DEF MemoryOK, ThreadsOK
<1> QED BY <1>2, <1>3, <1>4 DEF MemoryOK

LEMMA CreateKeeps == ASSUME NEW ok \in BOOLEAN, MemoryOK, CreateThread(ok) PROVE MemoryOK'
<1>1. pc = "create" /\ next \in 1 .. Len(list) /\ UNCHANGED <<list, round>>
  BY DEF CreateThread, MemoryOK, TypeOK, ListOK, Elements
<1>2. CASE ok
  <2>1. /\ pc' = "create" /\ next' = next + 1 /\ UNCHANGED <<argsFreed, ghost>>
        /\ DOMAIN threads' = DOMAIN threads \cup {list[next].id}
    BY <1>1, <1>2 DEF CreateThread
  <2>2. TypeOK'
    BY <1>1, <2>1 DEF MemoryOK, TypeOK
  <2>3. ListOK'
    BY <1>1, <2>1 DEF MemoryOK, ListOK, Elements
  <2>4. ThreadsOK'
    <3>1. list[next].id = <<round, next>>
      BY <1>1 DEF MemoryOK, ListOK
    <3>2. Timed' = Timed \cup {next}
      BY <1>1, <2>1 DEF Timed, MemoryOK, TypeOK
    <3>3. next' - 1 <= Len(list')
      BY <1>1, <2>1
    <3> QED BY <1>1, <2>1, <3>1, <3>2, <3>3 DEF MemoryOK, ThreadsOK
  <2> QED BY <2>2, <2>3, <2>4 DEF MemoryOK
<1>3. CASE ~ok
  <2>1. /\ pc' = "idle" /\ argsFreed' = argsFreed \cup {round} /\ UNCHANGED next
        /\ ghost' = [ghost EXCEPT !.uncreated = TRUE]
    BY <1>1, <1>3 DEF CreateThread, Return
  <2>2. round \in 1 .. round
    BY <1>1 DEF MemoryOK, TypeOK, ListOK
  <2>3. TypeOK'
    BY <1>1, <2>1, <2>2 DEF MemoryOK, TypeOK
  <2>4. ListOK'
    BY <2>1 DEF ListOK
  <2>5. ThreadsOK'
    BY <2>1 DEF MemoryOK, TypeOK, ThreadsOK
  <2> QED BY <2>3, <2>4, <2>5 DEF MemoryOK
<1> QED BY <1>2, <1>3

LEMMA AllCreatedKeeps == MemoryOK /\ AllCreated => MemoryOK'
<1> SUFFICES ASSUME MemoryOK, AllCreated PROVE MemoryOK'
  OBVIOUS
<1>1. /\ pc = "create" /\ next > Len(list) /\ pc' = "join" /\ next' = 1
      /\ UNCHANGED <<list, threads, argsFreed, round, ghost>>
  BY DEF AllCreated
<1>2. TypeOK'
  BY <1>1 DEF MemoryOK, TypeOK
<1>3. ListOK'
  BY <1>1 DEF MemoryOK, ListOK, Elements
<1>4. ThreadsOK'
  <2>1. SUFFICES ASSUME ~ghost.uncreated PROVE Timed' = Timed
    BY <1>1 DEF MemoryOK, ThreadsOK
  <2>2. next - 1 <= Len(list) /\ next \in Nat /\ Len(list) \in Nat
    BY <1>1, <2>1 DEF MemoryOK, TypeOK, ListOK, Elements, ThreadsOK
  <2> QED BY <1>1, <2>2 DEF Timed
<1> QED BY <1>2, <1>3, <1>4 DEF MemoryOK

LEMMA JoinKeeps == MemoryOK /\ JoinThread => MemoryOK'
<1> SUFFICES ASSUME MemoryOK, JoinThread PROVE MemoryOK'
  OBVIOUS
<1>1. /\ pc = "join" /\ next <= Len(list) /\ next' = next + 1
      /\ DOMAIN threads' = DOMAIN threads \ {list[next].id}
      /\ UNCHANGED <<pc, list, argsFreed, round, ghost>>
  BY DEF JoinThread
<1>2. TypeOK'
  BY <1>1 DEF MemoryOK, TypeOK
<1>3. ListOK'
  BY <1>1 DEF MemoryOK, ListOK, Elements
<1>4. ThreadsOK'
  <2>1. next \in 1 .. Len(list) /\ Len(list) \in Nat
    BY <1>1 DEF MemoryOK, TypeOK, ListOK, Elements
  <2>2. list[next].id = <<round, next>>
    BY <1>1, <2>1 DEF MemoryOK, ListOK
  <2>3. Timed' = Timed \ {next}
    BY <1>1, <2>1 DEF Timed
  <2> QED BY <1>1, <2>2, <2>3 DEF MemoryOK, ThreadsOK
<1> QED BY <1>2, <1>3, <1>4 DEF MemoryOK

LEMMA AllJoinedKeeps == MemoryOK /\ AllJoined => MemoryOK'
<1> SUFFICES ASSUME MemoryOK, AllJoined PROVE MemoryOK'
  OBVIOUS
<1>1. /\ pc = "join" /\ next > Len(list) /\ pc' = "sort" /\ next' = 1
      /\ argsFreed' = argsFreed \cup {round} /\ UNCHANGED <<list, threads, round, ghost>>
  BY DEF AllJoined
<1>2. TypeOK'
  <2>1. round \in Nat \ {0}
    BY <1>1 DEF MemoryOK, TypeOK, ListOK
  <2> QED BY <1>1, <2>1 DEF MemoryOK, TypeOK
<1>3. ListOK'
  BY <1>1 DEF MemoryOK, ListOK, Elements
<1>4. ThreadsOK'
  <2>1. Timed = {} /\ Timed' = {}
    BY <1>1 DEF Timed, MemoryOK, TypeOK, ListOK, Elements
  <2> QED BY <1>1, <2>1 DEF MemoryOK, ThreadsOK
<1> QED BY <1>2, <1>3, <1>4 DEF MemoryOK

LEMMA SortKeeps == ASSUME NEW ok, MemoryOK, SortBroker(ok) \/ AllSorted PROVE MemoryOK'
<1>1. /\ pc = "sort" /\ pc' \in {"idle", "sort"} /\ (pc' = "sort" => UNCHANGED list)
      /\ next' \in {next, next + 1} /\ UNCHANGED <<threads, argsFreed, round, ghost>>
  BY DEF SortBroker, AllSorted, Return
<1>2. TypeOK'
  BY <1>1 DEF MemoryOK, TypeOK
<1>3. ListOK'
  BY <1>1 DEF MemoryOK, ListOK, Elements
<1>4. ThreadsOK'
  BY <1>1 DEF MemoryOK, ThreadsOK, Timed
<1> QED BY <1>2, <1>3, <1>4 DEF MemoryOK

LEMMA FreeKeeps == MemoryOK /\ tspFreeBrokerList => MemoryOK'
<1> SUFFICES ASSUME MemoryOK, tspFreeBrokerList PROVE MemoryOK'
  OBVIOUS
<1>1. pc = "idle" /\ UNCHANGED <<pc, next, threads, argsFreed, round, ghost>>
  BY DEF tspFreeBrokerList
<1> QED BY <1>1 DEF MemoryOK, TypeOK, ListOK, ThreadsOK, Timed

\* A thread runs only while its element is there and the arguments are kept.
LEMMA Protected ==
  ASSUME MemoryOK, NEW id \in DOMAIN threads, ~ghost.uncreated
  PROVE  Allocated(id) /\ id[1] \notin argsFreed
<1>1. PICK i \in Timed : id = <<round, i>>
  BY DEF MemoryOK, ThreadsOK
<1>2. pc \notin {"idle", "sort"} /\ i \in 1 .. Len(list) /\ i \in DOMAIN list
  BY <1>1 DEF Timed, MemoryOK, TypeOK, ListOK, Elements, ThreadsOK
<1> QED BY <1>1, <1>2 DEF Allocated, MemoryOK, ListOK, Elements

LEMMA TimeKeeps == ASSUME NEW id, MemoryOK, TimeBroker(id) PROVE MemoryOK'
<1>1. /\ id \in DOMAIN threads /\ DOMAIN threads' = DOMAIN threads
      /\ ghost' = [ghost EXCEPT !.wild = @ \/ ~Allocated(id)
                                           \/ (threads[id].st = "start" /\ id[1] \in argsFreed)]
      /\ UNCHANGED <<pc, list, next, argsFreed, round>>
  BY DEF TimeBroker
<1>2. DOMAIN ghost' = DOMAIN ghost /\ ghost'.uncreated = ghost.uncreated
  BY <1>1 DEF MemoryOK, TypeOK
<1>3. ghost'.wild = (ghost.wild \/ ~Allocated(id) \/ (threads[id].st = "start" /\ id[1] \in argsFreed))
  BY <1>1 DEF MemoryOK, TypeOK
<1>4. ghost'.wild \in BOOLEAN
  BY <1>3
<1>5. TypeOK'
  BY <1>1, <1>2, <1>4 DEF MemoryOK, TypeOK
<1>6. ListOK'
  BY <1>1 DEF MemoryOK, ListOK, Elements
<1>7. ThreadsOK'
  <2>1. SUFFICES ASSUME ~ghost.uncreated PROVE ThreadsOK'
    BY <1>2 DEF ThreadsOK
  <2>2. ~ghost'.wild
    BY <1>1, <1>3, <2>1, Protected DEF MemoryOK, ThreadsOK
  <2> QED BY <1>1, <2>1, <2>2 DEF MemoryOK, ThreadsOK, Timed
<1> QED BY <1>5, <1>6, <1>7 DEF MemoryOK

LEMMA SetKeeps == ASSUME NEW id, MemoryOK, SetDistance(id) PROVE MemoryOK'
<1>1. /\ id \in DOMAIN threads /\ DOMAIN threads' = DOMAIN threads
      /\ ghost' = [ghost EXCEPT !.wild = @ \/ ~Allocated(id),
                                !.outcome[id[2]] = IF Allocated(id) THEN threads[id].outcome ELSE @]
      /\ UNCHANGED <<pc, next, argsFreed, round>>
  BY DEF SetDistance
<1>2. DOMAIN ghost' = DOMAIN ghost /\ ghost'.uncreated = ghost.uncreated
  BY <1>1 DEF MemoryOK, TypeOK
<1>3. ghost'.wild = (ghost.wild \/ ~Allocated(id))
  BY <1>1 DEF MemoryOK, TypeOK
<1>4. ghost'.wild \in BOOLEAN
  BY <1>3
<1>5. TypeOK'
  BY <1>1, <1>2, <1>4 DEF MemoryOK, TypeOK
<1>6. pc # "idle" => /\ Elements(list') /\ Len(list') = Len(list)
                     /\ \A i \in 1 .. Len(list) : list'[i].id = list[i].id /\ DOMAIN list'[i] = DOMAIN list[i]
  <2>1. SUFFICES ASSUME pc # "idle"
                 PROVE  /\ Elements(list') /\ Len(list') = Len(list)
                        /\ \A i \in 1 .. Len(list) : list'[i].id = list[i].id /\ DOMAIN list'[i] = DOMAIN list[i]
    OBVIOUS
  <2>2. list' = Written(list, id, threads[id].distance)
    BY DEF SetDistance, Written
  <2>3. Elements(list) /\ \A i \in 1 .. Len(list) : "id" \in DOMAIN list[i]
    BY <2>1 DEF MemoryOK, ListOK, Fields
  <2> QED BY <2>2, <2>3, WrittenIs
<1>7. ListOK'
  BY <1>1, <1>6 DEF MemoryOK, ListOK, Elements
<1>8. ThreadsOK'
  <2>1. SUFFICES ASSUME ~ghost.uncreated PROVE ThreadsOK'
    BY <1>2 DEF ThreadsOK
  <2>2. ~ghost'.wild
    BY <1>1, <1>3, <2>1, Protected DEF MemoryOK, ThreadsOK
  <2>3. Timed' = Timed
    BY <1>1, <1>6 DEF Timed
  <2> QED BY <1>1, <2>1, <2>2, <2>3 DEF MemoryOK, ThreadsOK
<1> QED BY <1>5, <1>7, <1>8 DEF MemoryOK

-----------------------------------------------------------------------------
(* The specification.                                                       *)

LEMMA Initially == Init => IInv
<1> SUFFICES ASSUME Init PROVE IInv
  OBVIOUS
<1>1. MemoryOK
  BY EchoAssumption DEF Init, MemoryOK, TypeOK, ListOK, ThreadsOK, Timed, NoOutcome
<1>2. OrderOK
  BY DEF Init, OrderOK, EchoesOK, KnownOK, SortedOK, Elements
<1> QED BY <1>1, <1>2 DEF IInv

LEMMA Memory == MemoryOK /\ [Next]_vars => MemoryOK'
<1> SUFFICES ASSUME MemoryOK, [Next]_vars PROVE MemoryOK'
  OBVIOUS
<1>1. ASSUME NEW n \in 1 .. MaxRedirects, NEW payload \in Payloads[n], tspHandleRedirect(payload)
      PROVE  MemoryOK'
  BY <1>1, HandleKeeps
<1>2. ASSUME NEW id \in Ids, TimeBroker(id) \/ SetDistance(id) PROVE MemoryOK'
  BY <1>2, TimeKeeps, SetKeeps
<1>3. ASSUME NEW ok \in BOOLEAN, AllocateArrays(ok) \/ CreateThread(ok) \/ SortBroker(ok)
      PROVE  MemoryOK'
  BY <1>3, AllocateKeeps, CreateKeeps, SortKeeps
<1>4. CASE AllCreated \/ JoinThread \/ AllJoined \/ tspFreeBrokerList
  BY <1>4, AllCreatedKeeps, JoinKeeps, AllJoinedKeeps, FreeKeeps
<1>5. CASE AllSorted
  BY <1>5, SortKeeps
<1>6. CASE Finished \/ UNCHANGED vars
  <2>1. UNCHANGED <<pc, list, next, threads, argsFreed, round, ghost>>
    BY <1>6 DEF Finished, vars
  <2> QED BY <2>1 DEF MemoryOK, TypeOK, ListOK, Elements, ThreadsOK, Timed
<1> QED BY <1>1, <1>2, <1>3, <1>4, <1>5, <1>6 DEF Next, Main

-----------------------------------------------------------------------------
(* Order.                                                                   *)

\* The elements reached are in the list, with the identities of this redirection.
LEMMA TimedAre ==
  ASSUME MemoryOK
  PROVE  /\ round \in Nat /\ next \in Nat \ {0}
         /\ pc # "idle" =>
              /\ Len(list) \in Nat /\ DOMAIN list = 1 .. Len(list)
              /\ Timed \subseteq 1 .. Len(list)
              /\ 1 .. Len(list) \subseteq 1 .. MAX_REDIRECT_BROKERS_IN_LIST
              /\ \A i \in 1 .. Len(list) : list[i].id = <<round, i>> /\ DOMAIN list[i] = Fields
              /\ Elements(list)
         /\ pc \in {"idle", "allocate", "sort"} => Timed = {}
<1>1. pc # "idle" => Timed \subseteq 1 .. Len(list)
  BY DEF MemoryOK, TypeOK, ListOK, Elements, Timed
<1> QED BY <1>1, EchoAssumption DEF MemoryOK, TypeOK, ListOK, Elements, Timed

LEMMA HandleOrders == ASSUME NEW payload, IInv, tspHandleRedirect(payload) PROVE OrderOK'
<1>0. PICK parsed : Handled(parsed)
  BY HandledIs
<1> DEFINE created == tspCreateBrokerList(parsed.t)
<1>1. /\ pc = "idle" /\ UNCHANGED threads
      /\ \/ pc' = "idle" /\ round' \in {round, round + 1} /\ status' # "OK"
         \/ /\ pc' = "idle" /\ round' = round + 1
            /\ status' = "OK" /\ Len(list') = 1
         \/ pc' = "allocate" /\ round' = round + 1
  BY <1>0 DEF Handled, Return
<1>2. round \in Nat
  BY TimedAre DEF IInv
<1>3. \A id \in DOMAIN threads : id \in (1 .. round) \X (1 .. MAX_REDIRECT_BROKERS_IN_LIST)
  BY DEF IInv, OrderOK, EchoesOK
<1>4. \A i : <<round + 1, i>> \notin DOMAIN threads
  BY <1>2, <1>3
<1>5. EchoesOK'
  <2>1. \A id \in DOMAIN threads' :
          id \in (1 .. round') \X (1 .. MAX_REDIRECT_BROKERS_IN_LIST) /\ Found(threads'[id])
    BY <1>1, <1>2, <1>3 DEF IInv, OrderOK, EchoesOK
  <2>2. pc' # "idle" \/ status' = "OK" => \A i : <<round', i>> \notin DOMAIN threads'
    BY <1>1, <1>4
  <2> QED BY <1>1, <2>1, <2>2 DEF EchoesOK, Found
<1>6. KnownOK'
  BY <1>1, <1>4 DEF KnownOK, Known
<1>7. SortedOK'
  <2>1. pc' # "sort" /\ ~(pc' = "idle" /\ status' = "OK" /\ Len(list') > 1)
    BY <1>1
  <2>2. Elements(list')
    <3>1. list' = list \/ list' = created.list
      BY <1>0 DEF Handled, created
    <3>2. Elements(list)
      BY <1>1 DEF IInv, OrderOK, SortedOK
    <3> QED BY <3>1, <3>2, Created
  <2> QED BY <2>1, <2>2 DEF SortedOK, Elements
<1> QED BY <1>5, <1>6, <1>7 DEF OrderOK

LEMMA AllocateOrders == ASSUME NEW ok, IInv, AllocateArrays(ok) PROVE OrderOK'
<1>1. /\ pc = "allocate" /\ UNCHANGED <<list, next, threads, round, ghost>>
      /\ pc' = "create" \/ (pc' = "idle" /\ status' # "OK")
  BY DEF AllocateArrays, Return
<1>2. next = 1 /\ Timed = {}
  BY <1>1, TimedAre DEF IInv, MemoryOK, ListOK
<1>3. Timed' = {}
  BY <1>1, <1>2 DEF Timed
<1>4. EchoesOK'
  BY <1>1, <1>2, <1>3 DEF IInv, OrderOK, EchoesOK
<1>5. KnownOK'
  BY <1>1 DEF IInv, OrderOK, KnownOK, Known
<1>6. SortedOK'
  BY <1>1, TimedAre DEF IInv, SortedOK, Elements
<1> QED BY <1>4, <1>5, <1>6 DEF OrderOK

LEMMA CreateOrders == ASSUME NEW ok \in BOOLEAN, IInv, CreateThread(ok) PROVE OrderOK'
<1>1. pc = "create" /\ next <= Len(list) /\ UNCHANGED <<list, round>>
  BY DEF CreateThread
<1>2. next \in 1 .. Len(list) /\ next \in 1 .. MAX_REDIRECT_BROKERS_IN_LIST /\ round \in Nat
  BY <1>1, TimedAre DEF IInv
<1>3. CASE ~ok
  <2>1. pc' = "idle" /\ status' # "OK" /\ UNCHANGED threads
    BY <1>1, <1>3 DEF CreateThread, Return
  <2>2. Elements(list')
    BY <1>1, TimedAre DEF IInv, Elements
  <2> QED BY <1>1, <2>1, <2>2 DEF IInv, OrderOK, EchoesOK, KnownOK, SortedOK
<1>4. CASE ok
  <2> DEFINE new == NewThread(list[next])
  <2>1. list[next].id = <<round, next>>
    BY <1>1, <1>2, TimedAre DEF IInv
  <2>2. /\ threads' = [id \in DOMAIN threads \cup {<<round, next>>} |->
                        IF id = <<round, next>> THEN new ELSE threads[id]]
        /\ pc' = "create" /\ next' = next + 1 /\ UNCHANGED <<status, ghost>>
    BY <1>1, <1>4, <2>1 DEF CreateThread
  <2>3. Found(new) /\ new.st = "start"
    BY DEF NewThread, Found, Running
  <2> HIDE DEF new
  <2>4. Timed' = Timed \cup {next}
    BY <1>1, <1>2, <2>2 DEF Timed
  <2>5. <<round, next>> \in (1 .. round) \X (1 .. MAX_REDIRECT_BROKERS_IN_LIST)
    BY <1>1, <1>2 DEF IInv, MemoryOK, ListOK
  <2>6. EchoesOK'
    <3>1. \A id \in DOMAIN threads' :
            id \in (1 .. round) \X (1 .. MAX_REDIRECT_BROKERS_IN_LIST) /\ Found(threads'[id])
      BY <2>2, <2>3, <2>5 DEF IInv, OrderOK, EchoesOK
    <3>2. \A i \in 1 .. MAX_REDIRECT_BROKERS_IN_LIST : <<round, i>> \in DOMAIN threads' => i \in Timed'
      BY <1>1, <2>2, <2>4 DEF IInv, OrderOK, EchoesOK
    <3>3. \A i \in Timed' : <<round, i>> \in DOMAIN threads'
      BY <1>1, <2>2, <2>4 DEF IInv, OrderOK, EchoesOK
    <3> QED BY <1>1, <3>1, <3>2, <3>3 DEF EchoesOK, Found
  <2>7. KnownOK'
    <3>1. SUFFICES ASSUME NEW i \in 1 .. Len(list), Known(i)'
                   PROVE  Adjusted(list[i].distance, ghost.outcome[i])
      BY <1>1, <2>2 DEF KnownOK, Adjusted
    <3>2. <<round, i>> \in DOMAIN threads' /\ threads'[<<round, i>>].st = "exited"
      BY <1>1, <2>2, <3>1 DEF Known
    <3>3. <<round, i>> \in DOMAIN threads /\ threads[<<round, i>>].st = "exited"
      BY <2>2, <2>3, <3>2
    <3> QED BY <1>1, <3>3 DEF IInv, OrderOK, KnownOK, Known
  <2>8. SortedOK'
    BY <2>2 DEF SortedOK
  <2> QED BY <2>6, <2>7, <2>8 DEF OrderOK
<1> QED BY <1>3, <1>4

LEMMA AllCreatedOrders == IInv /\ AllCreated => OrderOK'
<1> SUFFICES ASSUME IInv, AllCreated PROVE OrderOK'
  OBVIOUS
<1>1. /\ pc = "create" /\ next > Len(list) /\ pc' = "join" /\ next' = 1
      /\ UNCHANGED <<list, threads, status, round, ghost>>
  BY DEF AllCreated
<1>2. next \in Nat /\ Len(list) \in Nat /\ next - 1 <= Len(list)
  BY <1>1, TimedAre DEF IInv, MemoryOK, ListOK
<1>3. Timed' = Timed
  BY <1>1, <1>2 DEF Timed
<1>4. EchoesOK'
  BY <1>1, <1>3 DEF IInv, OrderOK, EchoesOK
<1>5. KnownOK'
  BY <1>1 DEF IInv, OrderOK, KnownOK, Known
<1>6. SortedOK'
  BY <1>1 DEF SortedOK
<1> QED BY <1>4, <1>5, <1>6 DEF OrderOK

LEMMA JoinOrders == IInv /\ JoinThread => OrderOK'
<1> SUFFICES ASSUME IInv, JoinThread PROVE OrderOK'
  OBVIOUS
<1>1. /\ pc = "join" /\ next <= Len(list) /\ pc' = "join" /\ next' = next + 1
      /\ UNCHANGED <<list, status, round, ghost>>
  BY DEF JoinThread
<1>2. next \in 1 .. Len(list) /\ next \in Timed /\ list[next].id = <<round, next>>
  BY <1>1, TimedAre DEF IInv, Timed
<1>3. /\ threads[<<round, next>>].st = "exited" /\ <<round, next>> \in DOMAIN threads
      /\ threads' = [id \in DOMAIN threads \ {<<round, next>>} |-> threads[id]]
  BY <1>1, <1>2 DEF JoinThread, IInv, OrderOK, EchoesOK
<1>4. Timed' = Timed \ {next}
  BY <1>1, <1>2, TimedAre DEF IInv, Timed
<1>5. EchoesOK'
  <2>1. \A id \in DOMAIN threads' : id \in DOMAIN threads /\ threads'[id] = threads[id]
    BY <1>3
  <2>2. \A i : <<round, i>> \in DOMAIN threads' <=> <<round, i>> \in DOMAIN threads /\ i # next
    BY <1>3
  <2> QED BY <1>1, <1>4, <2>1, <2>2 DEF IInv, OrderOK, EchoesOK, Found
<1>6. KnownOK'
  <2>1. SUFFICES ASSUME NEW i \in 1 .. Len(list), Known(i)' PROVE Known(i)
    BY <1>1 DEF IInv, OrderOK, KnownOK, Adjusted
  <2>2. CASE i < next'
    BY <1>1, <1>2, <1>3, <2>2 DEF Known
  <2>3. CASE <<round, i>> \in DOMAIN threads' /\ threads'[<<round, i>>].st = "exited"
    BY <1>3, <2>3 DEF Known
  <2> QED BY <1>1, <2>1, <2>2, <2>3 DEF Known
<1>7. SortedOK'
  BY <1>1 DEF SortedOK
<1> QED BY <1>5, <1>6, <1>7 DEF OrderOK

LEMMA AllJoinedOrders == IInv /\ AllJoined => OrderOK'
<1> SUFFICES ASSUME IInv, AllJoined PROVE OrderOK'
  OBVIOUS
<1>1. /\ pc = "join" /\ next > Len(list) /\ pc' = "sort" /\ sorted' = <<>>
      /\ UNCHANGED <<list, threads, status, round, ghost>>
  BY DEF AllJoined
<1>2. next \in Nat /\ Len(list) \in Nat
  BY <1>1, TimedAre DEF IInv
<1>3. Timed = {} /\ Timed' = {}
  BY <1>1, <1>2 DEF Timed
<1>4. EchoesOK'
  BY <1>1, <1>3 DEF IInv, OrderOK, EchoesOK
<1>5. KnownOK'
  <2>1. \A i \in 1 .. Len(list) : Known(i)
    BY <1>1, <1>2 DEF Known
  <2>2. \A i \in 1 .. Len(list) : Adjusted(list[i].distance, ghost.outcome[i])
    BY <1>1, <2>1 DEF IInv, OrderOK, KnownOK
  <2> QED BY <1>1, <2>2 DEF KnownOK, Adjusted
<1>6. SortedOK'
  BY <1>1 DEF SortedOK, IsList, InOrder
<1> QED BY <1>4, <1>5, <1>6 DEF OrderOK

LEMMA SortOrders == ASSUME NEW ok \in BOOLEAN, IInv, SortBroker(ok) PROVE OrderOK'
<1>1. pc = "sort" /\ next <= Len(list) /\ UNCHANGED <<list, threads, round, ghost>>
  BY DEF SortBroker
<1>2. CASE ~ok
  <2>1. pc' = "idle" /\ status' # "OK"
    BY <1>2 DEF SortBroker, Return
  <2>2. Elements(list')
    BY <1>1, TimedAre DEF IInv, Elements
  <2> QED BY <1>1, <2>1, <2>2 DEF IInv, OrderOK, EchoesOK, KnownOK, SortedOK
<1>3. CASE ok
  <2> DEFINE b == list[next]
             S == {sorted[i] : i \in DOMAIN sorted} \cup {b}
  <2>1. /\ sorted' = tspInsertInBrokerList(sorted, b)
        /\ pc' = "sort" /\ UNCHANGED status
    BY <1>3 DEF SortBroker
  <2>2. next \in 1 .. Len(list) /\ next \in 1 .. MAX_REDIRECT_BROKERS_IN_LIST /\ b.id = <<round, next>>
    BY <1>1, TimedAre DEF IInv
  <2>3. Timely(b)
    <3>1. Adjusted(b.distance, ghost.outcome[next])
      BY <1>1, <2>2 DEF IInv, OrderOK, KnownOK, Known
    <3> QED BY <2>2, <3>1 DEF Timely
  <2>4. sorted \in Seq(S) /\ InOrder(sorted)
    BY <1>1 DEF IInv, OrderOK, SortedOK, IsList
  <2>5. \A e \in S : Timely(e)
    <3>1. DOMAIN sorted = 1 .. Len(sorted)
      BY <2>4
    <3> QED BY <1>1, <2>3, <3>1 DEF IInv, OrderOK, SortedOK
  <2>6. sorted' \in Seq(S) /\ InOrder(sorted')
    <3>1. \A e \in S : e.distance \in Nat
      BY <2>5 DEF Timely, Adjusted
    <3>2. b \in S
      OBVIOUS
    <3> HIDE DEF S, b
    <3> QED BY <2>1, <2>4, <3>1, <3>2, Inserted DEF InOrder
  <2> HIDE DEF S, b
  <2>7. SortedOK'
    <3>1. \A i \in 1 .. Len(sorted') : Timely(sorted'[i])
      BY <2>5, <2>6
    <3>2. sorted' \in Seq({sorted'[i] : i \in DOMAIN sorted'})
      BY <2>6
    <3>3. \A i \in 1 .. Len(sorted') : Timely(sorted[i])'
      BY <1>1, <3>1 DEF Timely, Adjusted
    <3> QED BY <2>1, <2>6, <3>2, <3>3 DEF SortedOK, IsList, InOrder
  <2>8. Timed = {} /\ Timed' = {}
    BY <1>1, <2>1 DEF Timed
  <2>9. EchoesOK'
    BY <1>1, <2>1, <2>8 DEF IInv, OrderOK, EchoesOK
  <2>10. KnownOK'
    BY <1>1, <2>1 DEF IInv, OrderOK, KnownOK, Known
  <2> QED BY <2>7, <2>9, <2>10 DEF OrderOK
<1> QED BY <1>2, <1>3

LEMMA AllSortedOrders == IInv /\ AllSorted => OrderOK'
<1> SUFFICES ASSUME IInv, AllSorted PROVE OrderOK'
  OBVIOUS
<1>1. /\ pc = "sort" /\ pc' = "idle" /\ list' = sorted /\ UNCHANGED <<threads, round, ghost>>
  BY DEF AllSorted, Return
<1>2. Timed = {} /\ Timed' = {}
  BY <1>1 DEF Timed
<1>3. EchoesOK'
  BY <1>1, <1>2 DEF IInv, OrderOK, EchoesOK
<1>4. KnownOK'
  BY <1>1 DEF KnownOK
<1>5. SortedOK'
  <2>1. Elements(list')
    BY <1>1 DEF IInv, OrderOK, SortedOK, IsList, Elements
  <2> QED BY <1>1, <2>1 DEF IInv, OrderOK, SortedOK, IsList, InOrder, Timely, Adjusted
<1> QED BY <1>3, <1>4, <1>5 DEF OrderOK

LEMMA FreeOrders == IInv /\ tspFreeBrokerList => OrderOK'
<1> SUFFICES ASSUME IInv, tspFreeBrokerList PROVE OrderOK'
  OBVIOUS
<1>1. /\ pc = "idle" /\ list' = <<>> /\ UNCHANGED <<pc, next, threads, status, round, ghost>>
  BY DEF tspFreeBrokerList
<1>2. Timed = {} /\ Timed' = {}
  BY <1>1 DEF Timed
<1>3. EchoesOK'
  BY <1>1, <1>2 DEF IInv, OrderOK, EchoesOK
<1>4. KnownOK' /\ SortedOK'
  BY <1>1 DEF KnownOK, SortedOK, Elements
<1> QED BY <1>3, <1>4 DEF OrderOK

\* Whatever a step of a thread makes of it, its distance is the one of its outcome.
LEMMA Steps ==
  ASSUME NEW th, Found(th), th.st \in Running, NEW t \in EchoStep(th)
  PROVE  Found(t) /\ t.st # "exited"
<1> USE EchoAssumption DEF ERROR_ADJUST, TIMEOUT_ADJUST, WRONG_FAMILY_ADJUST
<1>1. ASSUME NEW w, Found(w), w.st \in Running, NEW adjust \in {ERROR_ADJUST, TIMEOUT_ADJUST}
      PROVE  Found(Fail(w, adjust)) /\ Fail(w, adjust).st = "write"
  BY <1>1 DEF Found, Running, Fail, Adjusted
<1>2. CASE th.st = "start"
  BY <1>2 DEF EchoStep, Found, Running
<1>3. CASE th.st = "resolve"
  <2>1. PICK resolved \in Resolutions(th.type), connected \in BOOLEAN : t = Resolve(th, resolved, connected)
    BY <1>3 DEF EchoStep
  <2> DEFINE w == IF getSocketAddress(th.type, resolved) = "WRONG_FAMILY"
                  THEN [th EXCEPT !.distance = WRONG_FAMILY_ADJUST, !.outcome = "wrong"] ELSE th
  <2>2. t = Fail(w, ERROR_ADJUST) \/ t = [w EXCEPT !.st = "send"]
    BY <2>1 DEF Resolve
  <2>3. Found(w) /\ w.st = "resolve"
    BY <1>3 DEF Found, Running
  <2> HIDE DEF w
  <2>4. CASE t = Fail(w, ERROR_ADJUST)
    BY <1>1, <2>3, <2>4 DEF Running
  <2>5. CASE t = [w EXCEPT !.st = "send"]
    BY <2>3, <2>5 DEF Found, Running
  <2> QED BY <2>2, <2>4, <2>5
<1>4. CASE th.st = "send"
  <2>1. t \in {Fail(th, TIMEOUT_ADJUST), Fail(th, ERROR_ADJUST), [th EXCEPT !.st = "wait"]}
    BY <1>4 DEF EchoStep, Send
  <2>2. Found([th EXCEPT !.st = "wait"]) /\ [th EXCEPT !.st = "wait"].st = "wait"
    BY <1>4 DEF Found, Running
  <2> QED BY <1>1, <2>1, <2>2
<1>5. CASE th.st = "wait"
  <2>1. t \in {Fail(th, ERROR_ADJUST), TimedOut(th)} \/ \E rtt \in Rtts : t = Answered(th, rtt)
    BY <1>5 DEF EchoStep, Received
  <2>2. Found(TimedOut(th)) /\ TimedOut(th).st = "send"
    BY <1>5 DEF Found, Running, TimedOut
  <2>3. ASSUME NEW rtt \in Rtts PROVE Found(Answered(th, rtt)) /\ Answered(th, rtt).st = "write"
    BY <1>5 DEF Found, Running, Answered, Adjusted
  <2> QED BY <1>1, <2>1, <2>2, <2>3
<1> QED BY <1>2, <1>3, <1>4, <1>5 DEF Running

LEMMA TimeOrders == ASSUME NEW id, IInv, TimeBroker(id) PROVE OrderOK'
<1>1. PICK t \in EchoStep(threads[id]) :
        /\ id \in DOMAIN threads /\ threads[id].st \in Running
        /\ threads' = [threads EXCEPT ![id] = t]
        /\ UNCHANGED <<pc, list, next, sorted, status, round>>
  BY DEF TimeBroker, Running
<1>2. ghost'.outcome = ghost.outcome
  BY DEF TimeBroker, IInv, MemoryOK, TypeOK
<1>3. Found(t) /\ t.st # "exited"
  BY <1>1, Steps DEF IInv, OrderOK, EchoesOK
<1>4. /\ DOMAIN threads' = DOMAIN threads
      /\ \A d \in DOMAIN threads : Found(threads'[d]) /\ (threads'[d].st = "exited" <=> threads[d].st = "exited")
  <2>1. \A d \in DOMAIN threads : threads'[d] = IF d = id THEN t ELSE threads[d]
    BY <1>1
  <2>2. threads[id].st # "exited"
    BY <1>1 DEF Running
  <2> QED BY <1>1, <1>3, <2>1, <2>2 DEF IInv, OrderOK, EchoesOK
<1>5. EchoesOK'
  BY <1>1, <1>4 DEF IInv, OrderOK, EchoesOK, Found, Timed
<1>6. KnownOK'
  <2>1. \A i : Known(i)' <=> Known(i)
    BY <1>1, <1>4 DEF Known
  <2> QED BY <1>1, <1>2, <2>1 DEF IInv, OrderOK, KnownOK
<1>7. SortedOK'
  BY <1>1, <1>2 DEF IInv, OrderOK, SortedOK, Timely, Elements
<1> QED BY <1>5, <1>6, <1>7 DEF OrderOK

LEMMA SetOrders == ASSUME NEW id, IInv, SetDistance(id) PROVE OrderOK'
<1>1. /\ id \in DOMAIN threads /\ threads[id].st = "write"
      /\ threads' = [threads EXCEPT ![id].st = "exited"]
      /\ list' = [i \in DOMAIN list |->
                   IF list[i].id = id THEN [list[i] EXCEPT !.distance = threads[id].distance] ELSE list[i]]
      /\ UNCHANGED <<pc, next, sorted, status, round>>
  BY DEF SetDistance
<1>2. /\ id \in (1 .. round) \X (1 .. MAX_REDIRECT_BROKERS_IN_LIST) /\ Found(threads[id])
      /\ id = <<id[1], id[2]>>
  BY <1>1 DEF IInv, OrderOK, EchoesOK
<1>3. /\ DOMAIN threads' = DOMAIN threads /\ threads'[id].st = "exited" /\ Found(threads'[id])
      /\ \A d \in DOMAIN threads : d # id => threads'[d] = threads[d]
  BY <1>1, <1>2 DEF Found, Running
<1>4. \A k \in 1 .. MAX_REDIRECT_BROKERS_IN_LIST :
        ghost'.outcome[k] = IF k = id[2] /\ Allocated(id) THEN threads[id].outcome ELSE ghost.outcome[k]
  BY DEF SetDistance, IInv, MemoryOK, TypeOK
<1>5. ASSUME pc # "idle" \/ status = "OK", id[1] = round
      PROVE  id[2] \in Timed /\ pc \in {"create", "join"} /\ id[2] \in 1 .. Len(list)
  <2>1. id[2] \in Timed
    BY <1>1, <1>2, <1>5 DEF IInv, OrderOK, EchoesOK
  <2> QED BY <2>1, TimedAre DEF IInv, MemoryOK, TypeOK
<1>6. EchoesOK'
  <2>1. Timed' = Timed
    <3>1. CASE pc = "join"
      <4>1. Len(list') = Len(list)
        BY <1>1, <3>1, TimedAre, WrittenIs DEF IInv, Written
      <4> QED BY <1>1, <4>1 DEF Timed
    <3>2. CASE pc # "join"
      BY <1>1, <3>2 DEF Timed
    <3> QED BY <3>1, <3>2
  <2>2. \A d \in DOMAIN threads' : Found(threads'[d])
    BY <1>3 DEF IInv, OrderOK, EchoesOK
  <2> QED BY <1>1, <1>3, <2>1, <2>2 DEF IInv, OrderOK, EchoesOK, Found
<1>7. KnownOK'
  <2>1. SUFFICES ASSUME pc # "idle" PROVE KnownOK'
    BY <1>1 DEF KnownOK
  <2>2. /\ Len(list) \in Nat /\ DOMAIN list = 1 .. Len(list)
        /\ 1 .. Len(list) \subseteq 1 .. MAX_REDIRECT_BROKERS_IN_LIST
        /\ \A i \in 1 .. Len(list) : list[i].id = <<round, i>> /\ DOMAIN list[i] = Fields
        /\ Elements(list)
    BY <2>1, TimedAre DEF IInv
  <2>3. Len(list') = Len(list)
    BY <1>1, <2>2, WrittenIs DEF Written
  <2>4. SUFFICES ASSUME NEW i \in 1 .. Len(list), Known(i)'
                 PROVE  Adjusted(list'[i].distance, ghost'.outcome[i])
    BY <2>3 DEF KnownOK, Adjusted
  <2>5. CASE id = <<round, i>>
    <3>1. id[2] = i /\ Allocated(id) /\ i \in DOMAIN list /\ list[i].id = id
      BY <2>2, <2>5 DEF Allocated
    <3>2. ghost'.outcome[i] = threads[id].outcome
      BY <1>4, <2>2, <3>1
    <3>3. list'[i].distance = threads[id].distance
      BY <1>1, <2>2, <3>1 DEF Fields
    <3> QED BY <1>1, <1>2, <3>2, <3>3 DEF Found, Running
  <2>6. CASE id # <<round, i>>
    <3>1. list'[i] = list[i]
      BY <1>1, <2>2, <2>6
    <3>2. ~(i = id[2] /\ Allocated(id))
      BY <1>2, <2>2, <2>6 DEF Allocated
    <3>3. ghost'.outcome[i] = ghost.outcome[i]
      BY <1>4, <2>2, <3>2
    <3>4. Known(i)
      BY <1>1, <1>3, <2>4, <2>6 DEF Known
    <3> QED BY <2>1, <3>1, <3>3, <3>4 DEF IInv, OrderOK, KnownOK
  <2> QED BY <2>5, <2>6
<1>8. SortedOK'
  <2>1. ~Allocated(id) => \A b : Timely(b) => Timely(b)'
    BY <1>1, <1>4 DEF Timely
  <2>2. Elements(list) /\ Elements(list') /\ Len(list') = Len(list)
    <3>1. Elements(list)
      BY DEF IInv, MemoryOK, ListOK, OrderOK, SortedOK
    <3>2. list' = Written(list, id, threads[id].distance)
      BY <1>1 DEF Written
    <3> QED BY <3>1, <3>2, WrittenIs
  <2>3. CASE pc = "idle" /\ status = "OK" /\ Len(list) > 1
    <3>1. id[1] # round
      BY <1>5, <2>3
    <3>2. \A i \in DOMAIN list : Timely(list[i])
      BY <2>2, <2>3 DEF IInv, OrderOK, SortedOK, Elements
    <3>3. ~Allocated(id)
      BY <3>1, <3>2 DEF Allocated, Timely
    <3>4. IsList(list)
      BY <2>3 DEF IInv, OrderOK, SortedOK
    <3>5. list' = list
      <4>1. list = [i \in DOMAIN list |-> list[i]]
        BY <3>4 DEF IsList
      <4>2. list' = [i \in DOMAIN list |-> list[i]]
        BY <1>1, <3>3 DEF Allocated
      <4> QED BY <4>1, <4>2
    <3> QED BY <1>1, <2>1, <2>2, <2>3, <3>3, <3>5 DEF IInv, OrderOK, SortedOK
  <2>4. CASE pc = "sort"
    <3>1. id[1] # round
      BY <1>5, <2>4
    <3>2. ~Allocated(id)
      BY <2>4, <3>1, TimedAre DEF Allocated, IInv
    <3> QED BY <1>1, <2>1, <2>4, <3>2 DEF IInv, OrderOK, SortedOK
  <2>5. CASE pc # "sort" /\ ~(pc = "idle" /\ status = "OK" /\ Len(list) > 1)
    BY <1>1, <2>2, <2>5 DEF SortedOK
  <2> QED BY <2>3, <2>4, <2>5
<1> QED BY <1>6, <1>7, <1>8 DEF OrderOK

-----------------------------------------------------------------------------
(* The specification.                                                       *)

LEMMA Order == IInv /\ [Next]_vars => OrderOK'
<1> SUFFICES ASSUME IInv, [Next]_vars PROVE OrderOK'
  OBVIOUS
<1>1. ASSUME NEW n \in 1 .. MaxRedirects, NEW payload \in Payloads[n], tspHandleRedirect(payload)
      PROVE  OrderOK'
  BY <1>1, HandleOrders
<1>2. ASSUME NEW id \in Ids, TimeBroker(id) \/ SetDistance(id) PROVE OrderOK'
  BY <1>2, TimeOrders, SetOrders
<1>3. ASSUME NEW ok \in BOOLEAN, AllocateArrays(ok) \/ CreateThread(ok) \/ SortBroker(ok)
      PROVE  OrderOK'
  BY <1>3, AllocateOrders, CreateOrders, SortOrders
<1>4. CASE AllCreated \/ JoinThread \/ AllJoined \/ AllSorted \/ tspFreeBrokerList
  BY <1>4, AllCreatedOrders, JoinOrders, AllJoinedOrders, AllSortedOrders, FreeOrders
<1>5. CASE Finished \/ UNCHANGED vars
  <2>1. UNCHANGED vars
    BY <1>5 DEF Finished
  <2>2. EchoesOK'
    BY <2>1 DEF vars, IInv, OrderOK, EchoesOK, Timed, Found
  <2>3. KnownOK'
    BY <2>1 DEF vars, IInv, OrderOK, KnownOK, Known
  <2>4. SortedOK'
    BY <2>1 DEF vars, IInv, OrderOK, SortedOK, IsList, InOrder, Timely, Elements
  <2> QED BY <2>2, <2>3, <2>4 DEF OrderOK
<1> QED BY <1>1, <1>2, <1>3, <1>4, <1>5 DEF Next, Main

\* The invariant holds throughout: the threads that run are those of the elements that
\* tspGetBrokerDistances() has reached and not joined yet (net_echo_request.c:165-229).
THEOREM Invariance == Spec => []IInv
<1>1. IInv /\ [Next]_vars => IInv'
  BY Memory, Order DEF IInv
<1> QED BY <1>1, Initially, PTL DEF Spec

\* A thread uses memory that was freed only in a process in which a thread could not
\* be created (net_echo_request.c:110-138, 165-190).
THEOREM FreedOnlyUncreatedCorrect == Spec => []FreedOnlyUncreated
<1>1. IInv => FreedOnlyUncreated
  BY DEF IInv, MemoryOK, TypeOK, ThreadsOK, FreedOnlyUncreated
<1> QED BY <1>1, Invariance, PTL

\* As long as every thread could be created, none is left over when tspHandleRedirect()
\* has returned (tsp_redirect.c:347-400).
NoneLeftOver == pc = "idle" /\ ~ghost.uncreated => DOMAIN threads = {}

THEOREM NoneLeftOverCorrect == Spec => []NoneLeftOver
<1>1. IInv => NoneLeftOver
  BY DEF IInv, MemoryOK, ThreadsOK, Timed, NoneLeftOver
<1> QED BY <1>1, Invariance, PTL

\* A list that tspHandleRedirect() returned as sorted is in the order of the distances,
\* and this order is: the brokers that answered, those that did not, those of the wrong
\* address family (tsp_redirect.c:246-328, net_echo_request.c:495-579).
THEOREM SortedByEchoCorrect == Spec => []SortedByEcho
<1>1. IInv => SortedByEcho
  <2> SUFFICES ASSUME IInv, pc = "idle", status = "OK", Len(list) > 1,
                      NEW i \in DOMAIN list, NEW j \in DOMAIN list, i < j
               PROVE  list[i].distance <= list[j].distance /\ Rank(list[i]) <= Rank(list[j])
    BY DEF SortedByEcho
  <2>1. Elements(list) /\ InOrder(list) /\ \A k \in 1 .. Len(list) : Timely(list[k])
    BY DEF IInv, OrderOK, SortedOK
  <2>2. list[i].distance <= list[j].distance /\ Timely(list[i]) /\ Timely(list[j])
    BY <2>1 DEF Elements, InOrder
  <2>3. Rank(list[i]) <= Rank(list[j])
    <3> DEFINE a == ghost.outcome[list[i].id[2]]
               b == ghost.outcome[list[j].id[2]]
               Place == [answered |-> 0, failed |-> 1, wrong |-> 2]
    <3>1. Adjusted(list[i].distance, a) /\ Adjusted(list[j].distance, b)
      BY <2>2 DEF Timely
    <3>2. Place["answered"] = 0 /\ Place["failed"] = 1 /\ Place["wrong"] = 2
      OBVIOUS
    <3>3. Rank(list[i]) = Place[a] /\ Rank(list[j]) = Place[b]
      BY DEF Rank
    <3> HIDE DEF Place, a, b
    <3> QED BY <2>2, <3>1, <3>2, <3>3, EchoAssumption DEF Adjusted
  <2> QED BY <2>2, <2>3
<1> QED BY <1>1, Invariance, PTL
=============================================================================
