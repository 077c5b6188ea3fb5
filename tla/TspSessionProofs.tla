-------------------------- MODULE TspSessionProofs --------------------------
(***************************************************************************)
(* Safety of the TSP sessions of a process, for any configurations,        *)
(* servers, keys, offers and answers of brokers, and for any number of     *)
(* sessions, killed processes and failing system calls.                    *)
(***************************************************************************)
EXTENDS TspSession, WellFoundedInduction, TLAPS

-----------------------------------------------------------------------------
(* The parser: what it puts into a tunnel comes from the nodes of the       *)
(* document, or from what earlier documents have left in its tables.        *)

\* A set of natural numbers has a least element.
LEMMA LeastNumber ==
  ASSUME NEW T, T \subseteq Nat, T # {}
  PROVE  \E x \in T : \A y \in T : x <= y
<1> DEFINE R == OpToRel(<, Nat)
<1>1. IsWellFoundedOn(R, Nat)
  BY NatLessThanWellFounded, Zenon
<1>2. \E x \in T : \A y \in T : ~ (<<y, x>> \in R)
  <2> HIDE DEF R
  <2> QED BY <1>1, WFMin, Zenon
<1>3. \A x, y \in Nat : ~(<<y, x>> \in R) => x <= y
  BY DEF OpToRel
<1> QED BY <1>2, <1>3

LEMMA MaxIs == ASSUME NEW m \in Nat, NEW S \in SUBSET (1 .. m), m \in S PROVE Max(S) = m
<1>1. m \in S /\ \A y \in S : m >= y
  OBVIOUS
<1>2. \A x \in S : (\A y \in S : x >= y) => x = m
  BY <1>1
<1> QED BY <1>1, <1>2 DEF Max

\* What the parser begins with.
Start(a) == {[rc |-> 0, t |-> ClearTunnel, attributes |-> a, dead |-> FALSE]}

\* f is what it makes of each set of nodes among the first m.
Parses(f, a, doc, m) ==
  \A S \in SUBSET (1 .. m) :
    f[S] = IF S = {} THEN Start(a) ELSE XMLParseNext(f[S \ {Max(S)}], doc[Max(S)])

LEMMA ParsesExists == ASSUME NEW a, NEW doc PROVE \A m \in Nat : \E f : Parses(f, a, doc, m)
<1> DEFINE T == {m \in Nat : ~\E f : Parses(f, a, doc, m)}
           b == Start(a)
<1> SUFFICES ASSUME T # {} PROVE FALSE
  OBVIOUS
<1>1. PICK m \in T : \A y \in T : m <= y
  <2> HIDE DEF T
  <2>1. T \subseteq Nat
    BY DEF T
  <2> QED BY <2>1, LeastNumber
<1>2. m \in Nat /\ ~\E f : Parses(f, a, doc, m)
  OBVIOUS
<1>3. PICK g : m # 0 => Parses(g, a, doc, m - 1)
  <2>1. m # 0 => m - 1 \in Nat /\ m - 1 \notin T
    BY <1>1, <1>2
  <2> QED BY <2>1
<1> HIDE DEF b
<1> DEFINE h == [S \in SUBSET (1 .. m) |->
                   IF S = {} THEN b ELSE IF m \in S /\ S \ {m} = {} THEN XMLParseNext(b, doc[m])
                   ELSE IF m \in S THEN XMLParseNext(g[S \ {m}], doc[m]) ELSE g[S]]
<1>4. ASSUME NEW S \in SUBSET (1 .. m)
      PROVE  h[S] = IF S = {} THEN b ELSE XMLParseNext(h[S \ {Max(S)}], doc[Max(S)])
  <2>1. CASE S = {}
    BY <2>1
  <2>2. CASE m \in S
    <3>1. Max(S) = m
      BY <1>2, <2>2, MaxIs
    <3>2. S \ {m} \in SUBSET (1 .. m) /\ m \notin S \ {m}
      OBVIOUS
    <3>3. h[S \ {m}] = IF S \ {m} = {} THEN b ELSE g[S \ {m}]
      BY <3>2
    <3>4. h[S] = IF S \ {m} = {} THEN XMLParseNext(b, doc[m]) ELSE XMLParseNext(g[S \ {m}], doc[m])
      BY <2>2
    <3> QED BY <2>2, <3>1, <3>3, <3>4
  <2>3. CASE S # {} /\ m \notin S
    <3>1. m # 0 /\ S \in SUBSET (1 .. (m - 1))
      <4>1. \A x \in S : x \in 1 .. m /\ x # m
        BY <2>3
      <4>2. \A x \in S : x \in 1 .. (m - 1)
        BY <1>2, <4>1
      <4>3. 1 .. 0 = {}
        OBVIOUS
      <4> QED BY <2>3, <4>2, <4>3
    <3>2. g[S] = XMLParseNext(g[S \ {Max(S)}], doc[Max(S)])
      BY <1>3, <2>3, <3>1 DEF Parses
    <3>3. h[S] = g[S]
      BY <2>3
    <3>4. S \ {Max(S)} \in SUBSET (1 .. m) /\ S \ {Max(S)} \in SUBSET (1 .. (m - 1)) /\ m \notin S \ {Max(S)}
      BY <2>3, <3>1
    <3>5. h[S \ {Max(S)}] = g[S \ {Max(S)}]
      <4>1. CASE S \ {Max(S)} = {}
        <5>1. {} \in SUBSET (1 .. (m - 1))
          OBVIOUS
        <5>2. g[{}] = b
          BY <1>3, <3>1, <5>1 DEF Parses, b
        <5> QED BY <3>4, <4>1, <5>2
      <4> QED BY <3>4, <4>1
    <3> QED BY <2>3, <3>2, <3>3, <3>5
  <2> QED BY <2>1, <2>2, <2>3
<1>5. Parses(h, a, doc, m)
  <2> HIDE DEF h
  <2> QED BY <1>4 DEF Parses, b
<1> QED BY <1>2, <1>5

\* FoldLeft() gives a function of the sets of nodes, of which the last one is read last.
LEMMA FoldParses ==
  ASSUME NEW a, NEW doc, doc \in Seq(ToSet(doc))
  PROVE  \E f : Parses(f, a, doc, Len(doc)) /\ f[DOMAIN doc] = XMLParse(doc, a)
<1> DEFINE n == Len(doc)
           b == Start(a)
           Body(f) == [S \in SUBSET DOMAIN doc |->
                         IF S = {} THEN b ELSE XMLParseNext(f[S \ {Max(S)}], doc[Max(S)])]
           iter == CHOOSE f : f = Body(f)
<1>0. n \in Nat /\ DOMAIN doc = 1 .. n
  OBVIOUS
<1>1. XMLParse(doc, a) = iter[DOMAIN doc]
  BY DEF XMLParse, FoldLeft, MapThenFoldSet, Start
<1>2. PICK g : Parses(g, a, doc, n)
  <2> HIDE DEF n
  <2> QED BY <1>0, ParsesExists
<1>3. \E f : f = Body(f)
  <2> HIDE DEF b
  <2> DEFINE F == [S \in SUBSET (1 .. n) |-> g[S]]
  <2>1. ASSUME NEW S \in SUBSET (1 .. n)
        PROVE  F[S] = IF S = {} THEN b ELSE XMLParseNext(F[S \ {Max(S)}], doc[Max(S)])
    BY <1>2 DEF Parses, b
  <2> HIDE DEF F
  <2>2. F = Body(F)
    BY <1>0, <2>1 DEF F
  <2> QED BY <2>2
<1>4. iter = Body(iter)
  <2> HIDE DEF Body
  <2> QED BY <1>3
<1> HIDE DEF iter
<1>5. Parses(iter, a, doc, n)
  BY <1>0, <1>4 DEF Parses
<1> QED BY <1>1, <1>5

\* What has been made of the document before the first node and after each.
IsTrace(h, a, doc) ==
  /\ h[0] = Start(a)
  /\ \A i \in 1 .. Len(doc) : h[i] = XMLParseNext(h[i - 1], doc[i])

LEMMA ParseTrace ==
  ASSUME NEW a, NEW doc, doc \in Seq(ToSet(doc))
  PROVE  \E h : IsTrace(h, a, doc) /\ h[Len(doc)] = XMLParse(doc, a)
<1>1. PICK f : Parses(f, a, doc, Len(doc)) /\ f[DOMAIN doc] = XMLParse(doc, a)
  BY FoldParses
<1> DEFINE n == Len(doc)
           h == [i \in 0 .. n |-> f[1 .. i]]
<1>2. n \in Nat /\ DOMAIN doc = 1 .. n
  OBVIOUS
<1> HIDE DEF n
<1>3. h[0] = Start(a)
  <2>1. 1 .. 0 = {}
    OBVIOUS
  <2>2. {} \in SUBSET (1 .. n)
    OBVIOUS
  <2>3. f[{}] = Start(a)
    BY <1>1, <2>2 DEF Parses, n
  <2>4. h[0] = f[1 .. 0]
    BY <1>2
  <2> QED BY <2>1, <2>3, <2>4
<1>4. ASSUME NEW i \in 1 .. n PROVE h[i] = XMLParseNext(h[i - 1], doc[i])
  <2>1. i \in Nat /\ 1 .. i \in SUBSET (1 .. n) /\ i \in 1 .. i
    BY <1>2
  <2>2. Max(1 .. i) = i
    BY <2>1, MaxIs
  <2>3. (1 .. i) \ {i} = 1 .. (i - 1)
    BY <2>1
  <2>4. f[1 .. i] = XMLParseNext(f[1 .. (i - 1)], doc[i])
    BY <1>1, <2>1, <2>2, <2>3 DEF Parses, n
  <2>5. h[i] = f[1 .. i] /\ h[i - 1] = f[1 .. (i - 1)]
    BY <1>2
  <2> QED BY <2>4, <2>5
<1>5. h[n] = f[DOMAIN doc]
  BY <1>2
<1> HIDE DEF h
<1> QED BY <1>1, <1>3, <1>4, <1>5 DEF IsTrace, n

\* The places of the addresses that the properties are about.
ClientAt == <<"tunnel", "client", "address">>
ServerAt == <<"tunnel", "server", "address">>
RouterAt == <<"tunnel", "server", "router", "dns_server", "address">>

\* What the document says there.
Given(doc, path, kind) == {n.content : n \in {m \in ToSet(doc) : m.path = path /\ m.attr = kind}}
Types(doc)             == {n.attr : n \in {m \in ToSet(doc) : m.path = <<"tunnel">>}}
Contents(doc)          == {n.content : n \in ToSet(doc)}

\* Some tables being left by the documents before it, the document reads as tunnel t.
Parsed(doc, t) == \E a : \E r \in tspExtractPayload(doc, a) : t = r.t

\* The places of addresses that the tables know.
Addressed ==
  {<<"tunnel", "client", "keepalive", "address">>, <<"tunnel", "client", "router", "dns_server", "address">>,
   <<"tunnel", "client", "dns_server", "address">>, <<"tunnel", "broker", "address">>,
   ClientAt, ServerAt, RouterAt}

LEMMA PlacesIs ==
  ASSUME NEW path \in Tables
  PROVE  /\ Last(path) = "tunnel" => path = <<"tunnel">>
         /\ Last(path) = "address" => path \in Addressed
  BY DEF Tables, Last, Addressed, ClientAt, ServerAt, RouterAt

\* The type of the tunnel comes from its node, an address of a kind from a node at its place.
LEMMA ProcedureIs ==
  ASSUME NEW t, NEW n, NEW v, DOMAIN t = DOMAIN ClearTunnel, Last(n.path) = "address" => n.path \in Addressed
  PROVE  LET u == Procedure(t, n, v) IN
         /\ DOMAIN u = DOMAIN ClearTunnel
         /\ u.type = t.type \/ (Last(n.path) = "tunnel" /\ u.type = v)
         /\ \/ u.client_address_ipv6 = t.client_address_ipv6
            \/ n.path = ClientAt /\ v = "ipv6" /\ u.client_address_ipv6 = n.content
         /\ \/ u.server_address_ipv4 = t.server_address_ipv4
            \/ n.path \in {ServerAt, RouterAt} /\ v = "ipv4" /\ u.server_address_ipv4 = n.content
<1> DEFINE F == DOMAIN ClearTunnel
           u == Procedure(t, n, v)
           Same(x) == /\ DOMAIN x = F /\ x.type = t.type
                      /\ x.client_address_ipv6 = t.client_address_ipv6
                      /\ x.server_address_ipv4 = t.server_address_ipv4
<1>0. {"type", "client_address_ipv6", "server_address_ipv4"} \subseteq F
  BY DEF ClearTunnel
<1>d. DOMAIN t = F
  OBVIOUS
<1> HIDE DEF F
<1>1. ASSUME NEW x, DOMAIN x = F, NEW f \in F, NEW str
      PROVE  /\ DOMAIN Assign(x, f, str) = F
             /\ \A g \in F : g # f => Assign(x, f, str)[g] = x[g]
             /\ Assign(x, f, str)[f] = x[f] \/ Assign(x, f, str)[f] = str
  BY <1>1 DEF Assign
<1>2. ASSUME NEW f \in F, NEW str, f \notin {"type", "client_address_ipv6", "server_address_ipv4"}
      PROVE  Same(AssignToList(t, f, str)) /\ Same(Assign(t, f, str))
  BY <1>0, <1>d, <1>2 DEF AssignToList, Assign
<1>3. Same(t)
  BY <1>d
<1>4. CASE Last(n.path) = "tunnel"
  <2>1. u = Assign(t, "type", v)
    BY <1>4 DEF Procedure
  <2> QED BY <1>0, <1>d, <1>1, <1>4, <2>1 DEF F
<1>5. CASE Last(n.path) = "prefix"
  <2>1. u = Assign(Assign(t, "prefix_length", v), "prefix", n.content)
    BY <1>5 DEF Procedure
  <2>2. {"prefix_length", "prefix"} \subseteq F
    BY DEF F, ClearTunnel
  <2>3. Same(Assign(t, "prefix_length", v))
    BY <1>2, <2>2
  <2>4. Same(u)
    BY <1>0, <1>1, <2>1, <2>2, <2>3
  <2> QED BY <2>4 DEF F
<1>6. CASE Last(n.path) \in {"router", "keepalive"}
  <2>1. u \in {Assign(t, "router_protocol", v), Assign(t, "keepalive_interval", v)}
    BY <1>6 DEF Procedure
  <2>2. {"router_protocol", "keepalive_interval"} \subseteq F
    BY DEF F, ClearTunnel
  <2>3. Same(u)
    BY <1>0, <1>2, <2>1, <2>2
  <2> QED BY <2>3 DEF F
<1>7. CASE Last(n.path) = "address"
  <2>1. u = PROC_address(t, n.path, v, n.content)
    BY <1>7 DEF Procedure
  <2>2. CASE n.path = ClientAt
    <3>1. u = ClientAddress(t, v, n.content)
      BY <2>1, <2>2 DEF PROC_address, ClientAt
    <3>2. {"client_address_ipv4", "client_dns_name"} \subseteq F
      BY DEF F, ClearTunnel
    <3> QED BY <1>0, <1>1, <1>2, <1>3, <2>2, <3>1, <3>2 DEF ClientAddress
  <2>3. CASE n.path \in {ServerAt, RouterAt}
    <3>1. u = ServerAddress(t, v, n.content)
      BY <2>1, <2>3 DEF PROC_address, ServerAt, RouterAt
    <3>2. "server_address_ipv6" \in F
      BY DEF F, ClearTunnel
    <3> QED BY <1>0, <1>1, <1>2, <1>3, <2>3, <3>1, <3>2 DEF ServerAddress
  <2>4. CASE n.path \notin {ClientAt, ServerAt, RouterAt}
    <3>1. u \in {KeepaliveAddress(t, v, n.content), RouterAddress(t, v, n.content),
                 DnsServerAddress(t, v, n.content), BrokerAddress(t, v, n.content)}
      BY <1>7, <2>1, <2>4 DEF PROC_address, Addressed, ClientAt, ServerAt, RouterAt
    <3>2. {"keepalive_address", "dns_server_address_ipv4", "dns_server_address_ipv6",
           "client_dns_server_address_ipv6", "broker_redirect_ipv4", "broker_redirect_ipv6",
           "broker_redirect_dn"} \subseteq F
      BY DEF F, ClearTunnel
    <3>3. Same(KeepaliveAddress(t, v, n.content))
      BY <1>2, <1>3, <3>2 DEF KeepaliveAddress
    <3>4. Same(RouterAddress(t, v, n.content))
      BY <1>2, <1>3, <3>2 DEF RouterAddress
    <3>5. Same(DnsServerAddress(t, v, n.content))
      BY <1>2, <1>3, <3>2 DEF DnsServerAddress
    <3>6. Same(BrokerAddress(t, v, n.content))
      BY <1>2, <1>3, <3>2 DEF BrokerAddress
    <3>7. Same(u)
      BY <3>1, <3>3, <3>4, <3>5, <3>6
    <3> QED BY <3>7 DEF F
  <2> QED BY <2>2, <2>3, <2>4
<1>8. CASE Last(n.path) \notin {"tunnel", "address", "prefix", "router", "keepalive"}
  <2>1. u = t
    BY <1>8 DEF Procedure
  <2> QED BY <1>3, <2>1
<1> QED BY <1>4, <1>5, <1>6, <1>7, <1>8 DEF F

\* The parser's record, and what it may hold of the tunnel.
Reading(doc, r) ==
  /\ DOMAIN r = {"rc", "t", "attributes", "dead"} /\ DOMAIN r.t = DOMAIN ClearTunnel
  /\ r.t.client_address_ipv6 \in {NULL} \cup Contents(doc)
  /\ r.t.server_address_ipv4 \in {NULL} \cup Contents(doc)
  /\ WellFormed(doc) =>
       /\ r.t.type \in {NULL} \cup Types(doc)
       /\ r.t.client_address_ipv6 \in {NULL} \cup Given(doc, ClientAt, "ipv6")
       /\ r.t.server_address_ipv4 \in {NULL} \cup Given(doc, ServerAt, "ipv4")

LEMMA NodeReads ==
  ASSUME NEW doc, NEW n \in ToSet(doc), NEW r, Reading(doc, r), NEW q \in XMLParseNode(r, n)
  PROVE  Reading(doc, q)
<1>1. CASE q = r
  BY <1>1
<1>2. CASE q = Stopped(r, n)
  <2>1. q.t = r.t /\ DOMAIN q = DOMAIN r
    BY <1>2 DEF Stopped, Reading
  <2> QED BY <2>1 DEF Reading
<1>3. ASSUME findNode(n.path), NEW v,
             v \in IF Entry(n.path) \in Entries THEN Stored(r.attributes, n)[Entry(n.path)] ELSE {NULL},
             q = [rc |-> 0, t |-> Procedure(r.t, n, v), attributes |-> Stored(r.attributes, n), dead |-> IsFatal(n, v)]
      PROVE  Reading(doc, q)
  <2> DEFINE u == Procedure(r.t, n, v)
  <2>1. q.t = u /\ DOMAIN q = {"rc", "t", "attributes", "dead"}
    BY <1>3
  <2>2. /\ DOMAIN u = DOMAIN ClearTunnel
        /\ u.type = r.t.type \/ (Last(n.path) = "tunnel" /\ u.type = v)
        /\ \/ u.client_address_ipv6 = r.t.client_address_ipv6
           \/ n.path = ClientAt /\ v = "ipv6" /\ u.client_address_ipv6 = n.content
        /\ \/ u.server_address_ipv4 = r.t.server_address_ipv4
           \/ n.path \in {ServerAt, RouterAt} /\ v = "ipv4" /\ u.server_address_ipv4 = n.content
    BY <1>3, PlacesIs, ProcedureIs DEF Reading, findNode
  <2> HIDE DEF u
  <2>3. n.content \in Contents(doc)
    BY DEF Contents
  <2>4. ASSUME WellFormed(doc)
        PROVE  /\ Last(n.path) \in {"tunnel", "address"} => v = n.attr
               /\ n.path # RouterAt
    <3>1. Last(n.path) \in {"tunnel", "address"} => n.attr # NULL
      BY <2>4 DEF WellFormed
    <3>2. Last(n.path) \in {"tunnel", "address"} => Entry(n.path) \in Entries
      BY <1>3 DEF findNode, Entries
    <3>3. Entry(n.path) \in Entries /\ n.attr # NULL => Stored(r.attributes, n)[Entry(n.path)] = {n.attr}
      BY DEF Stored
    <3>4. n.path # RouterAt
      BY <2>4 DEF WellFormed, RouterAt
    <3> QED BY <1>3, <3>1, <3>2, <3>3, <3>4
  <2>5. /\ Last(n.path) = "tunnel" => n.attr \in Types(doc)
        /\ n.path = ClientAt \/ n.path = ServerAt => Last(n.path) = "address" /\ n.content \in Given(doc, n.path, n.attr)
    <3>1. Last(n.path) = "tunnel" => n.path = <<"tunnel">>
      BY <1>3, PlacesIs DEF findNode
    <3>2. Last(ClientAt) = "address" /\ Last(ServerAt) = "address"
      BY DEF Last, ClientAt, ServerAt
    <3> QED BY <3>1, <3>2 DEF Types, Given
  <2>6. /\ u.client_address_ipv6 \in {NULL} \cup Contents(doc)
        /\ u.server_address_ipv4 \in {NULL} \cup Contents(doc)
    BY <2>2, <2>3 DEF Reading
  <2>7. ASSUME WellFormed(doc)
        PROVE  /\ u.type \in {NULL} \cup Types(doc)
               /\ u.client_address_ipv6 \in {NULL} \cup Given(doc, ClientAt, "ipv6")
               /\ u.server_address_ipv4 \in {NULL} \cup Given(doc, ServerAt, "ipv4")
    BY <2>2, <2>4, <2>5, <2>7 DEF Reading
  <2> QED BY <2>1, <2>2, <2>6, <2>7 DEF Reading
<1> QED BY <1>1, <1>2, <1>3 DEF XMLParseNode

LEMMA ParsedReads ==
  ASSUME NEW doc, doc \in Seq(ToSet(doc)), NEW a, NEW q \in XMLParse(doc, a)
  PROVE  Reading(doc, q)
<1> DEFINE n == Len(doc)
<1>0. n \in Nat /\ \A i \in 1 .. n : doc[i] \in ToSet(doc)
  BY DEF ToSet
<1>1. PICK h : IsTrace(h, a, doc) /\ h[n] = XMLParse(doc, a)
  BY ParseTrace
<1> HIDE DEF n
<1> DEFINE T == {i \in 0 .. n : ~\A r \in h[i] : Reading(doc, r)}
<1>2. ASSUME T # {} PROVE FALSE
  <2>1. PICK i \in T : \A j \in T : i <= j
    <3>1. T \subseteq Nat
      BY <1>0
    <3> HIDE DEF T
    <3> QED BY <1>2, <3>1, LeastNumber
  <2>2. i \in 0 .. n
    OBVIOUS
  <2>3. PICK q1 \in h[i] : ~Reading(doc, q1)
    OBVIOUS
  <2>4. CASE i = 0
    <3>1. q1 = [rc |-> 0, t |-> ClearTunnel, attributes |-> a, dead |-> FALSE]
      BY <1>1, <2>3, <2>4 DEF IsTrace, Start
    <3>2. /\ q1.t = ClearTunnel /\ DOMAIN q1 = {"rc", "t", "attributes", "dead"}
          /\ ClearTunnel.type = NULL /\ ClearTunnel.client_address_ipv6 = NULL /\ ClearTunnel.server_address_ipv4 = NULL
      BY <3>1 DEF ClearTunnel
    <3> QED BY <2>3, <3>2 DEF Reading
  <2>5. CASE i # 0
    <3>1. i \in 1 .. n /\ i - 1 \in 0 .. n /\ ~(i <= i - 1)
      BY <1>0, <2>2, <2>5
    <3>2. \A r \in h[i - 1] : Reading(doc, r)
      BY <2>1, <3>1
    <3>3. q1 \in XMLParseNext(h[i - 1], doc[i])
      BY <1>1, <2>3, <3>1 DEF IsTrace, n
    <3>4. PICK r \in h[i - 1] : q1 \in XMLParseNode(r, doc[i])
      BY <3>3 DEF XMLParseNext
    <3> QED BY <1>0, <2>3, <3>1, <3>2, <3>4, NodeReads
  <2> QED BY <2>4, <2>5
<1>3. n \in 0 .. n /\ n \notin T
  BY <1>0, <1>2
<1> QED BY <1>1, <1>3

\* The addresses of a tunnel come from its document.
LEMMA ParsedFrom ==
  ASSUME NEW doc \in Answers, NEW t, Parsed(doc, t)
  PROVE  t.client_address_ipv6 \in {NULL} \cup Contents(doc) /\ t.server_address_ipv4 \in {NULL} \cup Contents(doc)
<1>1. PICK a : \E r \in tspExtractPayload(doc, a) : t = r.t
  BY DEF Parsed
<1>2. PICK q \in XMLParse(doc, a) : t = [q EXCEPT !.rc = IF doc = <<>> THEN 1 ELSE @, !.attributes = AllFreed(@)].t
  BY <1>1 DEF tspExtractPayload
<1>3. Reading(doc, q)
  BY ParsedReads, SessionAssumption
<1>4. t = q.t
  BY <1>2, <1>3 DEF Reading
<1> QED BY <1>3, <1>4 DEF Reading

\* What is read of a well-formed document is what it grants.
LEMMA ParsedAsGranted ==
  ASSUME NEW doc \in Answers, WellFormed(doc), NEW t, Parsed(doc, t)
  PROVE  /\ t.type # NULL => Types(doc) = {t.type}
         /\ t.client_address_ipv6 # NULL => Given(doc, ClientAt, "ipv6") = {t.client_address_ipv6}
         /\ t.server_address_ipv4 # NULL => Given(doc, ServerAt, "ipv4") = {t.server_address_ipv4}
<1>1. PICK a : \E r \in tspExtractPayload(doc, a) : t = r.t
  BY DEF Parsed
<1>2. PICK q \in XMLParse(doc, a) : t = [q EXCEPT !.rc = IF doc = <<>> THEN 1 ELSE @, !.attributes = AllFreed(@)].t
  BY <1>1 DEF tspExtractPayload
<1>3. Reading(doc, q)
  BY ParsedReads, SessionAssumption
<1>4. t = q.t
  BY <1>2, <1>3 DEF Reading
<1>5. /\ t.type # NULL => t.type \in Types(doc)
      /\ t.client_address_ipv6 # NULL => t.client_address_ipv6 \in Given(doc, ClientAt, "ipv6")
      /\ t.server_address_ipv4 # NULL => t.server_address_ipv4 \in Given(doc, ServerAt, "ipv4")
  BY <1>3, <1>4 DEF Reading
<1>6. \A x, y \in Types(doc) : x = y
  BY DEF WellFormed, Types
<1>7. ASSUME NEW path \in {ClientAt, ServerAt}, NEW kind
      PROVE  \A x, y \in Given(doc, path, kind) : x = y
  <2>1. Last(path) = "address" /\ Len(path) = 3
    BY DEF Last, ClientAt, ServerAt
  <2> QED BY <2>1 DEF WellFormed, Given
<1> QED BY <1>5, <1>6, <1>7

-----------------------------------------------------------------------------
(* The inductive invariant.                                                 *)

\* The places of tspSetupTunnel(): with the session's socket open, before anything is
\* negotiated; while the tunnel is set up, runs and is torn down.
Asking  == {"capabilities", "authenticate", "PASSDSS-3DES-1", "DIGEST-MD5", "PLAIN", "ANONYMOUS",
            "digest_response", "digest_result", "passdss_hello", "passdss_key", "passdss_result",
            "source", "negotiate", "acknowledge"}
Working == {"fork", "wait", "detach", "loop", "teardown"}
Places  == Asking \cup Working \cup {"idle", "connect", "start", "clear", "dead"}

\* What an interface may have been given by this process or one before it.
Addresses == {NULL} \cup UNION {{n.content : n \in ToSet(doc)} : doc \in Answers}

Devices == [exists : BOOLEAN, addrs : SUBSET Addresses, remote : Addresses, mine : BOOLEAN]
Nets    == [dev : [Interfaces -> Devices], routes : SUBSET Interfaces]

\* The steps of the set-up, the last one first.
StepsLeft == <<"addroute", "delroute", "ifup", "ifdown", "add_tunnel", "del_tunnel">>
StepNames == {"addroute", "delroute", "ifup", "ifdown", "add_tunnel", "del_tunnel"}
Exits     == {"none", "SUCCESS", "ERR_INTERFACE_SETUP_FAILED", "ERR_BAD_TUNNEL_PARAM"}

TypeOK ==
  /\ pc \in Places
  /\ fds \in [Descriptors -> {"free", "session", "tun"}]
  /\ net \in Nets
  /\ child \in [todo : Seq(StepNames), exit : Exits]
  /\ DOMAIN ghost = {"granted", "requested", "stored", "negotiated", "faulty", "undetached"}
  /\ ghost.negotiated \in BOOLEAN /\ ghost.faulty \in BOOLEAN /\ ghost.undetached \in BOOLEAN

\* The statuses of a session that went beyond the negotiation, and the others.
Negotiated == {"SUCCESS", "ERR_KEEPALIVE_TIMEOUT", "ERR_KEEPALIVE_ERROR", "ERR_TUNNEL_IO",
               "ERR_INTERFACE_SETUP_FAILED", "ERR_BAD_TUNNEL_PARAM"}

Outcome ==
  /\ pc \in Asking \cup {"connect", "start"} => ~ghost.negotiated
  /\ pc \in Working \cup {"clear"} => ghost.negotiated
  /\ pc \in {"teardown", "clear"} => status \in Negotiated
  /\ pc = "wait" => child.exit # "none"
  /\ pc = "idle" => status = "none" \/ (ghost.negotiated <=> status \in Negotiated)

\* The descriptors that may be open, by the place.
FreeBut(D) == \A d \in Descriptors \ D : fds[d] = "free"

DescriptorsOK ==
  /\ pc \in Asking \cup {"idle", "connect", "start"} => tunfd = -1
  /\ pc = "dead" => FreeBut({})
  /\ ~ghost.undetached =>
       /\ pc \in {"idle", "connect"} => FreeBut({})
       /\ pc \in Asking \cup {"start", "clear"} => FreeBut({socket})
       /\ pc \in Working => FreeBut({socket, tunfd})

\* A route leads through an interface that is there; an interface that this process
\* has made is there while a tunnel is set up, runs or is torn down, and the tear-down
\* can tell by the descriptor or by the type of the tunnel.
DevicesOK ==
  /\ \A if \in net.routes : net.dev[if].exists
  /\ ~ghost.undetached /\ pc # "dead" =>
       /\ net.dev["tun"].mine => pc \in Working /\ tunfd # -1
       /\ net.dev["sit"].mine => pc \in Working /\ tunnel.type = "v6v4"

\* The tunnel is what the parser made of the answer of this session.
AsAnswered == ghost.granted \in Answers /\ Parsed(ghost.granted, tunnel)

\* The child works while the session waits for it, or after the process was killed;
\* what it has left to do is the end of the list of steps.
ChildOK ==
  /\ pc \in Working \cup {"acknowledge", "start"} => AsAnswered
  /\ child.todo # <<>> =>
       /\ pc \in {"wait", "dead"} /\ AsAnswered
       /\ tunnel.type \in {"v6v4", "v6udpv4"}
       /\ Len(child.todo) <= IF tunnel.type = "v6v4" THEN 6 ELSE 4
       /\ \A i \in 1..Len(child.todo) : child.todo[i] = StepsLeft[Len(child.todo) - i + 1]

\* The kernel's part of tunnel t when its set-up has left steps to go.
Progress(n, t, left) ==
  LET if == InterfaceOf(t) IN
  /\ left = 5 => ~n.dev[if].exists
  /\ left <= 4 => /\ n.dev[if].exists
                  /\ if = "sit" => n.dev[if].remote = t.server_address_ipv4
  /\ left \in 2..5 => if \notin n.routes
  /\ left = 3 => n.dev[if].addrs = {}
  /\ left <= 2 => n.dev[if].addrs = {t.client_address_ipv6}
  /\ left = 1 => n.routes = {}
  /\ left = 0 => n.routes = {if}

SetUpOK ==
  /\ pc = "fork" /\ tunnel.type = "v6udpv4" => net.dev["tun"].exists /\ "tun" \notin net.routes
  /\ (pc = "wait" /\ child.exit = "SUCCESS") \/ pc \in {"detach", "loop"} =>
       /\ validate_tunnel_info(tunnel) /\ tunnel.type \in {"v6v4", "v6udpv4"}
       /\ ~ghost.faulty =>
            Progress(net, tunnel, IF pc = "wait" THEN Len(child.todo) ELSE 0)

IInv == TypeOK /\ Outcome /\ DescriptorsOK /\ DevicesOK /\ ChildOK /\ SetUpOK

-----------------------------------------------------------------------------
(* The kernel's part.                                                       *)

LEMMA NoDeviceIs ==
  /\ NoDevice \in Devices /\ ~NoDevice.exists /\ ~NoDevice.mine /\ NoDevice.addrs = {}
  BY DEF NoDevice, Devices, Addresses

LEMMA Deleted ==
  ASSUME NEW n \in Nets, NEW if \in Interfaces
  PROVE  /\ DeleteDevice(n, if) \in Nets
         /\ DeleteDevice(n, if).dev[if] = NoDevice
         /\ DeleteDevice(n, if).routes = n.routes \ {if}
         /\ \A g \in Interfaces : g # if => DeleteDevice(n, if).dev[g] = n.dev[g]
  BY NoDeviceIs DEF DeleteDevice, Nets

LEMMA Added ==
  ASSUME NEW n \in Nets, NEW if \in Interfaces, NEW r \in Addresses
  PROVE  /\ add_tunnel(n, if, r) \in Nets
         /\ add_tunnel(n, if, r).dev[if].exists
         /\ ~n.dev[if].exists => add_tunnel(n, if, r).dev[if] = [exists |-> TRUE, addrs |-> {}, remote |-> r, mine |-> TRUE]
         /\ add_tunnel(n, if, r).routes = n.routes
         /\ \A g \in Interfaces : g # if => add_tunnel(n, if, r).dev[g] = n.dev[g]
  BY DEF add_tunnel, Nets, Devices

LEMMA AddedElsewhere ==
  ASSUME NEW n \in Nets, NEW if \in Interfaces, NEW r \in Addresses, NEW g \in Interfaces, g # if
  PROVE  add_tunnel(n, if, r).dev[g] = n.dev[g]
  BY DEF add_tunnel, Nets, Devices

LEMMA IfDown ==
  ASSUME NEW n \in Nets, NEW if \in Interfaces
  PROVE  /\ ifdown(n, if) \in Nets
         /\ ifdown(n, if).dev[if] = [n.dev[if] EXCEPT !.addrs = {}]
         /\ ifdown(n, if).routes = n.routes
         /\ \A g \in Interfaces : g # if => ifdown(n, if).dev[g] = n.dev[g]
  BY DEF ifdown, Nets, Devices

LEMMA IfUp ==
  ASSUME NEW n \in Nets, NEW if \in Interfaces, NEW a \in Addresses
  PROVE  /\ ifup(n, if, a) \in Nets
         /\ ifup(n, if, a).dev[if].exists = n.dev[if].exists
         /\ ifup(n, if, a).dev[if].remote = n.dev[if].remote
         /\ n.dev[if].exists => ifup(n, if, a).dev[if].addrs = n.dev[if].addrs \cup {a}
         /\ ifup(n, if, a).dev[if].mine = n.dev[if].mine
         /\ ifup(n, if, a).routes = n.routes
         /\ \A g \in Interfaces : g # if => ifup(n, if, a).dev[g] = n.dev[g]
  BY DEF ifup, Nets, Devices

LEMMA RouteDeleted ==
  ASSUME NEW n \in Nets
  PROVE  /\ delroute(n) \in Nets
         /\ delroute(n).dev = n.dev
         /\ delroute(n).routes \subseteq n.routes
         /\ \A if \in Interfaces : if \notin n.routes => delroute(n).routes = {}
<1> DEFINE c == CHOOSE if \in n.routes : TRUE
<1>1. CASE n.routes = {}
  BY <1>1 DEF delroute, Nets
<1>2. CASE n.routes # {}
  <2>1. c \in n.routes
    BY <1>2
  <2>2. delroute(n) = [n EXCEPT !.routes = @ \ {c}]
    BY <1>2 DEF delroute
  <2> QED BY <2>1, <2>2 DEF Nets, Interfaces
<1> QED BY <1>1, <1>2

LEMMA RouteAdded ==
  ASSUME NEW n \in Nets, NEW if \in Interfaces
  PROVE  /\ addroute(n, if) \in Nets
         /\ addroute(n, if).dev = n.dev
         /\ addroute(n, if).routes \subseteq n.routes \cup {if}
         /\ n.dev[if].exists => addroute(n, if).routes = n.routes \cup {if}
         /\ ~n.dev[if].exists => addroute(n, if).routes = n.routes
  BY DEF addroute, Nets

LEMMA TunnelDeleted ==
  ASSUME NEW n \in Nets, NEW if \in Interfaces
  PROVE  /\ del_tunnel(n, if) \in Nets
         /\ if = "sit" => del_tunnel(n, if) = DeleteDevice(n, "sit")
         /\ if # "sit" => del_tunnel(n, if) = n
  BY Deleted DEF del_tunnel

LEMMA Interface == \A t : InterfaceOf(t) \in Interfaces /\ (InterfaceOf(t) = "sit" <=> t.type = "v6v4")
  BY DEF InterfaceOf, Interfaces

\* Every route leads through an interface that is there.
Sound(n) == \A if \in n.routes : n.dev[if].exists

\* The tear-down keeps the routes sound and removes the sit device of a v6v4 tunnel.
LEMMA TornDown ==
  ASSUME NEW n \in Nets, Sound(n), NEW t
  PROVE  /\ tspTearDownTunnel(n, t) \in Nets /\ Sound(tspTearDownTunnel(n, t))
         /\ \A if \in Interfaces :
               tspTearDownTunnel(n, t).dev[if].mine => n.dev[if].mine /\ ~(if = "sit" /\ t.type = "v6v4")
<1> DEFINE m == delroute(n)
<1>1. m \in Nets /\ Sound(m) /\ m.dev = n.dev
  BY RouteDeleted DEF Sound
<1> HIDE DEF m
<1>2. CASE t.type = "v6v4"
  <2>1. tspTearDownTunnel(n, t) = DeleteDevice(m, "sit")
    BY <1>2, <1>1, Interface DEF tspTearDownTunnel, m, del_tunnel
  <2> QED BY <2>1, <1>1, <1>2, Deleted, NoDeviceIs DEF Sound, Interfaces, Nets
<1>3. CASE t.type # "v6v4"
  <2>1. tspTearDownTunnel(n, t) = m
    BY <1>3, <1>1, Interface DEF tspTearDownTunnel, m, del_tunnel
  <2> QED BY <2>1, <1>1, <1>3
<1> QED BY <1>2, <1>3

\* A process that dies takes its TUN device with it and leaves no interface of its own.
LEMMA AfterDeath ==
  ASSUME NEW n \in Nets, Sound(n)
  PROVE  /\ KernelAfterDeath(n) \in Nets /\ Sound(KernelAfterDeath(n))
         /\ \A if \in Interfaces : ~KernelAfterDeath(n).dev[if].mine
<1> DEFINE m == DeleteDevice(n, "tun")
<1>1. m \in Nets /\ Sound(m) /\ ~m.dev["tun"].mine
  BY Deleted, NoDeviceIs DEF Sound, Interfaces, Nets
<1>2. KernelAfterDeath(n) = [m EXCEPT !.dev["sit"].mine = FALSE]
  BY DEF KernelAfterDeath
<1> HIDE DEF m
<1> DEFINE k == KernelAfterDeath(n)
<1>3. /\ k \in Nets /\ k.routes = m.routes
      /\ k.dev["tun"] = m.dev["tun"] /\ k.dev["sit"] = [m.dev["sit"] EXCEPT !.mine = FALSE]
  <2> DEFINE sit == [m.dev["sit"] EXCEPT !.mine = FALSE]
  <2>1. sit \in Devices
    <3>1. m.dev["sit"] \in Devices
      BY <1>1 DEF Nets, Interfaces
    <3> HIDE DEF m
    <3> QED BY <3>1 DEF Devices
  <2>2. k = [m EXCEPT !.dev = [m.dev EXCEPT !["sit"] = sit]]
    BY <1>2
  <2> HIDE DEF sit, k
  <2>3. k.routes = m.routes /\ k.dev = [m.dev EXCEPT !["sit"] = sit] /\ k \in Nets
    BY <1>1, <2>1, <2>2 DEF Nets, Interfaces
  <2>4. k.dev["tun"] = m.dev["tun"] /\ k.dev["sit"] = sit
    BY <1>1, <2>3 DEF Nets, Interfaces
  <2> QED BY <2>3, <2>4 DEF sit
<1> HIDE DEF k
<1>4. k.dev["sit"].exists = m.dev["sit"].exists /\ ~k.dev["sit"].mine
  BY <1>1, <1>3 DEF Nets, Devices, Interfaces
<1>5. Sound(k)
  BY <1>1, <1>3, <1>4 DEF Sound, Nets, Interfaces
<1>6. \A if \in Interfaces : ~k.dev[if].mine
  BY <1>1, <1>3, <1>4 DEF Interfaces
<1> QED BY <1>3, <1>5, <1>6 DEF k

\* open() finds a descriptor when one is free.
LEMMA LowestIs ==
  ASSUME NEW f, NEW d \in Descriptors, f[d] = "free"
  PROVE  Lowest(f) \in Descriptors
<1>1. \E k \in Descriptors : f[k] = "free" /\ \A e \in Descriptors : f[e] = "free" => k <= e
  <2>1. CASE f[3] = "free"
    BY <2>1 DEF Descriptors
  <2>2. CASE f[3] # "free" /\ f[4] = "free"
    BY <2>2 DEF Descriptors
  <2>3. CASE f[3] # "free" /\ f[4] # "free" /\ f[5] = "free"
    BY <2>3 DEF Descriptors
  <2>4. CASE f[3] # "free" /\ f[4] # "free" /\ f[5] # "free"
    BY <2>4 DEF Descriptors
  <2> QED BY <2>1, <2>2, <2>3, <2>4
<1> QED BY <1>1 DEF Lowest

-----------------------------------------------------------------------------
(* The capabilities, the authentication and the negotiation, up to the      *)
(* set-up: they only move on, give up or end the process.                   *)

\* What the invariant reads of the bookkeeping does not change.
SameGhost ==
  /\ DOMAIN ghost' = DOMAIN ghost
  /\ ghost'.granted = ghost.granted /\ ghost'.negotiated = ghost.negotiated
  /\ ghost'.faulty = ghost.faulty /\ ghost'.undetached = ghost.undetached

Asks ==
  /\ pc \in Asking
  /\ \/ \E next \in Asking \ {"acknowledge"} : GoOn(next)
     \/ pc = "acknowledge" /\ GoOn("start")
     \/ \E st : st \notin Negotiated /\ Abandon(st)
     \/ Redirected
     \/ DieNow
  /\ UNCHANGED <<tunnel, socket, tunfd, child, net>>
  /\ SameGhost

LEMMA SameGhostIf == UNCHANGED ghost => SameGhost
  BY DEF SameGhost

LEMMA RedirectedIs == Redirected => DieNow \/ \E st : st \notin Negotiated /\ Return(st)
<1> SUFFICES ASSUME Redirected, ~DieNow PROVE \E st : st \notin Negotiated /\ Return(st)
  OBVIOUS
<1>1. Return("ERR_BROKER_REDIRECTION") \/ Return("EVNT_BROKER_REDIRECTION")
  BY DEF Redirected
<1> QED BY <1>1 DEF Negotiated

LEMMA AsksKeeps == IInv /\ Asks => IInv'
<1> SUFFICES ASSUME IInv, Asks PROVE IInv'
  OBVIOUS
<1>0. \/ \E next \in Asking \ {"acknowledge"} : Proceed(next)
      \/ pc = "acknowledge" /\ Proceed("start")
      \/ \E st : st \notin Negotiated /\ Return(st)
      \/ DieNow
  BY RedirectedIs DEF Asks, GoOn, Abandon
<1> DEFINE Rest == pc \in Asking /\ UNCHANGED <<tunnel, socket, tunfd, child, net>> /\ SameGhost
<1>r. Rest
  BY DEF Asks
<1>1. pc' \in Asking \cup {"start", "idle", "dead"}
  BY <1>0 DEF Proceed, Return, DieNow
<1>2. TypeOK'
  BY <1>0, <1>1, <1>r DEF IInv, TypeOK, SameGhost, Proceed, Return, DieNow, tspClose, Places, Asking
<1>3. Outcome'
  BY <1>0, <1>r DEF IInv, Outcome, SameGhost, Proceed, Return, DieNow, Asking, Working
<1>4. DescriptorsOK'
  BY <1>0, <1>r DEF IInv, TypeOK, DescriptorsOK, FreeBut, SameGhost, Proceed, Return, DieNow, tspClose, Asking, Working
<1>5. DevicesOK'
  BY <1>0, <1>r DEF IInv, DevicesOK, SameGhost, Asking, Working
<1>6. ChildOK'
  BY <1>0, <1>r DEF IInv, ChildOK, AsAnswered, SameGhost, Proceed, Return, DieNow, Asking, Working
<1>7. SetUpOK'
  BY <1>1 DEF SetUpOK, Asking
<1> QED BY <1>2, <1>3, <1>4, <1>5, <1>6, <1>7 DEF IInv

LEMMA CapabilitiesAsks == IInv /\ GetCapabilities => Asks
<1> SUFFICES ASSUME GetCapabilities PROVE Asks
  OBVIOUS
<1>1. UNCHANGED <<tunnel, socket, tunfd, child, net, ghost>>
  BY DEF GetCapabilities, Session
<1>2. (\E st : st \notin Negotiated /\ Abandon(st)) \/ GoOn("authenticate") \/ Redirected
  <2>1. \A code : CapabilityStatus(code) \notin Negotiated
    BY DEF CapabilityStatus, Negotiated
  <2> QED BY <2>1 DEF GetCapabilities, CapabilitiesError, Negotiated
<1> QED BY <1>1, <1>2, SameGhostIf DEF Asks, GetCapabilities, Asking

LEMMA AuthenticateAsks == Authenticate => Asks
<1> SUFFICES ASSUME Authenticate PROVE Asks
  OBVIOUS
<1>1. UNCHANGED <<tunnel, socket, tunfd, child, net, ghost>>
  BY DEF Authenticate, Session
<1>2. \/ \E next \in Asking \ {"acknowledge"} : GoOn(next)
      \/ pc = "acknowledge" /\ GoOn("start")
      \/ \E st : st \notin Negotiated /\ Abandon(st)
      \/ Redirected
      \/ DieNow
  BY DEF Authenticate, Asking, Negotiated, Chosen
<1> QED BY <1>1, <1>2, SameGhostIf DEF Asks, Asking, Authenticate

LEMMA AuthANONYMOUSAsks == AuthANONYMOUS => Asks
<1> SUFFICES ASSUME AuthANONYMOUS PROVE Asks
  OBVIOUS
<1>1. UNCHANGED <<tunnel, socket, tunfd, child, net, ghost>>
  BY DEF AuthANONYMOUS, Session
<1>2. \/ \E next \in Asking \ {"acknowledge"} : GoOn(next)
      \/ pc = "acknowledge" /\ GoOn("start")
      \/ \E st : st \notin Negotiated /\ Abandon(st)
      \/ Redirected
      \/ DieNow
  BY DEF AuthANONYMOUS, Asking, Negotiated, OnCode
<1> QED BY <1>1, <1>2, SameGhostIf DEF Asks, Asking, AuthANONYMOUS

LEMMA AuthPLAINAsks == AuthPLAIN => Asks
<1> SUFFICES ASSUME AuthPLAIN PROVE Asks
  OBVIOUS
<1>1. UNCHANGED <<tunnel, socket, tunfd, child, net, ghost>>
  BY DEF AuthPLAIN, Session
<1>2. \/ \E next \in Asking \ {"acknowledge"} : GoOn(next)
      \/ pc = "acknowledge" /\ GoOn("start")
      \/ \E st : st \notin Negotiated /\ Abandon(st)
      \/ Redirected
      \/ DieNow
  BY DEF AuthPLAIN, Asking, Negotiated, OnCode
<1> QED BY <1>1, <1>2, SameGhostIf DEF Asks, Asking, AuthPLAIN

LEMMA AuthDIGEST_ChallengeAsks == AuthDIGEST_Challenge => Asks
<1> SUFFICES ASSUME AuthDIGEST_Challenge PROVE Asks
  OBVIOUS
<1>1. UNCHANGED <<tunnel, socket, tunfd, child, net, ghost>>
  BY DEF AuthDIGEST_Challenge, Session
<1>2. \/ \E next \in Asking \ {"acknowledge"} : GoOn(next)
      \/ pc = "acknowledge" /\ GoOn("start")
      \/ \E st : st \notin Negotiated /\ Abandon(st)
      \/ Redirected
      \/ DieNow
  BY DEF AuthDIGEST_Challenge, Asking, Negotiated, NoMemory
<1> QED BY <1>1, <1>2, SameGhostIf DEF Asks, Asking, AuthDIGEST_Challenge

LEMMA AuthDIGEST_ResponseAsks == AuthDIGEST_Response => Asks
<1> SUFFICES ASSUME AuthDIGEST_Response PROVE Asks
  OBVIOUS
<1>1. UNCHANGED <<tunnel, socket, tunfd, child, net, ghost>>
  BY DEF AuthDIGEST_Response, Session
<1>2. \/ \E next \in Asking \ {"acknowledge"} : GoOn(next)
      \/ pc = "acknowledge" /\ GoOn("start")
      \/ \E st : st \notin Negotiated /\ Abandon(st)
      \/ Redirected
      \/ DieNow
  BY DEF AuthDIGEST_Response, Asking, Negotiated
<1> QED BY <1>1, <1>2, SameGhostIf DEF Asks, Asking, AuthDIGEST_Response

LEMMA AuthDIGEST_ResultAsks == AuthDIGEST_Result => Asks
<1> SUFFICES ASSUME AuthDIGEST_Result PROVE Asks
  OBVIOUS
<1>1. UNCHANGED <<tunnel, socket, tunfd, child, net, ghost>>
  BY DEF AuthDIGEST_Result, Session
<1>2. \/ \E next \in Asking \ {"acknowledge"} : GoOn(next)
      \/ pc = "acknowledge" /\ GoOn("start")
      \/ \E st : st \notin Negotiated /\ Abandon(st)
      \/ Redirected
      \/ DieNow
  BY DEF AuthDIGEST_Result, Asking, Negotiated, OnCode
<1> QED BY <1>1, <1>2, SameGhostIf DEF Asks, Asking, AuthDIGEST_Result

LEMMA AuthPASSDSS_BeginAsks == AuthPASSDSS_Begin => Asks
<1> SUFFICES ASSUME AuthPASSDSS_Begin PROVE Asks
  OBVIOUS
<1>1. UNCHANGED <<tunnel, socket, tunfd, child, net, ghost>>
  BY DEF AuthPASSDSS_Begin, Session
<1>2. \/ \E next \in Asking \ {"acknowledge"} : GoOn(next)
      \/ pc = "acknowledge" /\ GoOn("start")
      \/ \E st : st \notin Negotiated /\ Abandon(st)
      \/ Redirected
      \/ DieNow
  BY DEF AuthPASSDSS_Begin, Asking, Negotiated, NoMemory
<1> QED BY <1>1, <1>2, SameGhostIf DEF Asks, Asking, AuthPASSDSS_Begin

LEMMA AuthPASSDSS_HelloAsks == AuthPASSDSS_Hello => Asks
<1> SUFFICES ASSUME AuthPASSDSS_Hello PROVE Asks
  OBVIOUS
<1>1. UNCHANGED <<tunnel, socket, tunfd, child, net, ghost>>
  BY DEF AuthPASSDSS_Hello, Session
<1>2. \/ \E next \in Asking \ {"acknowledge"} : GoOn(next)
      \/ pc = "acknowledge" /\ GoOn("start")
      \/ \E st : st \notin Negotiated /\ Abandon(st)
      \/ Redirected
      \/ DieNow
  BY DEF AuthPASSDSS_Hello, Asking, Negotiated, NoMemory, OnCode
<1> QED BY <1>1, <1>2, SameGhostIf DEF Asks, Asking, AuthPASSDSS_Hello

LEMMA AuthPASSDSS_ResultAsks == AuthPASSDSS_Result => Asks
<1> SUFFICES ASSUME AuthPASSDSS_Result PROVE Asks
  OBVIOUS
<1>1. UNCHANGED <<tunnel, socket, tunfd, child, net, ghost>>
  BY DEF AuthPASSDSS_Result, Session
<1>2. \/ \E next \in Asking \ {"acknowledge"} : GoOn(next)
      \/ pc = "acknowledge" /\ GoOn("start")
      \/ \E st : st \notin Negotiated /\ Abandon(st)
      \/ Redirected
      \/ DieNow
  BY DEF AuthPASSDSS_Result, Asking, Negotiated, OnCode
<1> QED BY <1>1, <1>2, SameGhostIf DEF Asks, Asking, AuthPASSDSS_Result

LEMMA AcknowledgeAsks == Acknowledge => Asks
<1> SUFFICES ASSUME Acknowledge PROVE Asks
  OBVIOUS
<1>1. UNCHANGED <<tunnel, socket, tunfd, child, net, ghost>>
  BY DEF Acknowledge, Session
<1>2. \/ \E next \in Asking \ {"acknowledge"} : GoOn(next)
      \/ pc = "acknowledge" /\ GoOn("start")
      \/ \E st : st \notin Negotiated /\ Abandon(st)
      \/ Redirected
      \/ DieNow
  BY DEF Acknowledge, Asking, Negotiated
<1> QED BY <1>1, <1>2, SameGhostIf DEF Asks, Asking, Acknowledge

LEMMA VerifyAsks == ASSUME NEW consent, NEW writable, TypeOK, AuthPASSDSS_Verify(consent, writable) PROVE Asks
<1>1. UNCHANGED <<tunnel, socket, tunfd, child, net>>
  BY DEF AuthPASSDSS_Verify, Session
<1>2. SameGhost
  BY DEF AuthPASSDSS_Verify, SameGhost, TypeOK
<1>3. GoOn("passdss_result") \/ Abandon("ERR_AUTHENTICATION_FAILURE")
  BY DEF AuthPASSDSS_Verify
<1> QED BY <1>1, <1>2, <1>3 DEF Asks, Asking, AuthPASSDSS_Verify, Negotiated

LEMMA UpdateSourceAddrAsks == ASSUME NEW ok, UpdateSourceAddr(ok) PROVE Asks
<1>1. UNCHANGED <<tunnel, socket, tunfd, child, net, ghost>>
  BY DEF UpdateSourceAddr, Session
<1>2. GoOn("negotiate") \/ Abandon("ERR_INVAL_CLIENT_ADDR")
  BY DEF UpdateSourceAddr
<1> QED BY <1>1, <1>2, SameGhostIf DEF Asks, Asking, UpdateSourceAddr, Negotiated

\* The broker answers with a document.
Answered ==
  /\ pc = "negotiate"
  /\ ghost'.granted \in Answers /\ Parsed(ghost'.granted, tunnel')
  /\ DOMAIN ghost' = DOMAIN ghost
  /\ ghost'.negotiated = ghost.negotiated /\ ghost'.faulty = ghost.faulty
  /\ ghost'.undetached = ghost.undetached
  /\ \E next \in {"start", "acknowledge"} : Proceed(next)
  /\ UNCHANGED <<socket, tunfd, child, net>>

LEMMA NegotiationAsks == TypeOK /\ TunnelNegotiation => Asks \/ Answered
<1> SUFFICES ASSUME TypeOK, TunnelNegotiation PROVE Asks \/ Answered
  OBVIOUS
<1>1. pc = "negotiate" /\ UNCHANGED <<socket, tunfd, child, net>>
  BY DEF TunnelNegotiation
<1>2. CASE /\ UNCHANGED <<tunnel, ghost>>
           /\ NoMemory \/ Abandon("ERR_SOCKET_IO") \/ Redirected \/ Abandon("ERR_TSP_GENERIC_ERROR") \/ DieNow
  BY <1>1, <1>2, SameGhostIf DEF Asks, Asking, NoMemory, Negotiated
<1>3. CASE \E doc \in Answers :
             /\ Parsed(doc, tunnel')
             /\ ghost' = [ghost EXCEPT !.granted = doc, !.requested = tspBuildCreateRequest(conf)]
             /\ Proceed(IF version = "1.0.1" THEN "start" ELSE "acknowledge")
  BY <1>1, <1>3 DEF Answered, TypeOK
<1>4. \A doc : (\E parsed \in tspExtractPayload(doc, attributes) : tunnel' = parsed.t) => Parsed(doc, tunnel')
  BY DEF Parsed
<1> QED BY <1>2, <1>3, <1>4 DEF TunnelNegotiation

LEMMA AnsweredKeeps == IInv /\ Answered => IInv'
<1> SUFFICES ASSUME IInv, Answered PROVE IInv'
  OBVIOUS
<1>1. pc' \in {"start", "acknowledge"} /\ UNCHANGED <<status, fds, net, child, socket, tunfd>>
  BY DEF Answered, Proceed
<1>2. TypeOK'
  BY <1>1 DEF IInv, TypeOK, Answered, Places, Asking
<1>3. Outcome'
  BY <1>1 DEF IInv, Outcome, Answered, Asking, Working
<1>4. DescriptorsOK'
  BY <1>1 DEF IInv, DescriptorsOK, FreeBut, Answered, Asking, Working
<1>5. DevicesOK'
  BY <1>1 DEF IInv, DevicesOK, Answered, Working
<1>6. ChildOK'
  BY <1>1 DEF IInv, ChildOK, AsAnswered, Answered
<1>7. SetUpOK'
  BY <1>1 DEF SetUpOK
<1> QED BY <1>2, <1>3, <1>4, <1>5, <1>6, <1>7 DEF IInv

-----------------------------------------------------------------------------
(* The beginning and the end of a session.                                  *)

LEMMA StartSessionKeeps ==
  ASSUME NEW s, NEW t, NEW v, IInv, StartSession(s, t, v)
  PROVE  IInv'
<1>1. /\ pc = "idle" /\ pc' = "connect"
      /\ DOMAIN ghost' = DOMAIN ghost
      /\ ghost'.negotiated = FALSE /\ ghost'.faulty = FALSE /\ ghost'.undetached = ghost.undetached
      /\ UNCHANGED <<tunnel, tunfd, fds, child, net>>
  BY DEF StartSession, IInv, TypeOK
<1>2. TypeOK'
  BY <1>1 DEF IInv, TypeOK, Places
<1>3. Outcome'
  BY <1>1 DEF Outcome, Working
<1>4. DescriptorsOK'
  BY <1>1 DEF IInv, DescriptorsOK, FreeBut, Asking, Working
<1>5. DevicesOK'
  BY <1>1 DEF IInv, DevicesOK, Working
<1>6. ChildOK'
  BY <1>1 DEF IInv, ChildOK, Working
<1>7. SetUpOK'
  BY <1>1 DEF SetUpOK
<1> QED BY <1>2, <1>3, <1>4, <1>5, <1>6, <1>7 DEF IInv

LEMMA ConnectKeeps ==
  ASSUME NEW known, NEW connects, IInv, Connect(known, connects)
  PROVE  IInv'
<1>1. pc = "connect" /\ UNCHANGED <<tunnel, tunfd, child, net, ghost>>
  BY DEF Connect
<1>2. CASE /\ pc' = "idle" /\ UNCHANGED <<socket, fds>>
           /\ status' \in {"ERR_INVAL_GOGOC_ADDRESS", "ERR_FAIL_RESOLV_ADDR", "ERR_FAIL_SOCKET_CONNECT"}
  <2>1. TypeOK'
    BY <1>1, <1>2 DEF IInv, TypeOK, Places
  <2>2. Outcome'
    BY <1>1, <1>2 DEF IInv, Outcome, Asking, Working, Negotiated
  <2>3. DescriptorsOK'
    BY <1>1, <1>2 DEF IInv, DescriptorsOK, FreeBut, Asking, Working
  <2>4. DevicesOK'
    BY <1>1, <1>2 DEF IInv, DevicesOK, Working
  <2>5. ChildOK'
    BY <1>1, <1>2 DEF IInv, ChildOK, Working
  <2>6. SetUpOK'
    BY <1>2 DEF SetUpOK
  <2> QED BY <2>1, <2>2, <2>3, <2>4, <2>5, <2>6 DEF IInv
<1>3. CASE /\ pc' = "capabilities" /\ socket' = Lowest(fds) /\ UNCHANGED status
           /\ fds' = [fds EXCEPT ![Lowest(fds)] = "session"]
  <2>1. TypeOK'
    BY <1>1, <1>3 DEF IInv, TypeOK, Places, Asking
  <2>2. Outcome'
    BY <1>1, <1>3 DEF IInv, Outcome, Asking, Working
  <2>3. DescriptorsOK'
    BY <1>1, <1>3 DEF IInv, TypeOK, DescriptorsOK, FreeBut, Asking, Working
  <2>4. DevicesOK'
    BY <1>1, <1>3 DEF IInv, DevicesOK, Working
  <2>5. ChildOK'
    BY <1>1, <1>3 DEF IInv, ChildOK, Working
  <2>6. SetUpOK'
    BY <1>3 DEF SetUpOK
  <2> QED BY <2>1, <2>2, <2>3, <2>4, <2>5, <2>6 DEF IInv
<1>4. netopen(known, connects) # 0 => tspConnect(netopen(known, connects)) \in {"ERR_FAIL_RESOLV_ADDR", "ERR_FAIL_SOCKET_CONNECT"}
  BY DEF netopen, NetTCPConnect, NetRUDPConnect, tspConnect
<1> QED BY <1>2, <1>3, <1>4 DEF Connect

LEMMA ClearKeeps == IInv /\ ClearAndReturn => IInv'
<1> SUFFICES ASSUME IInv, ClearAndReturn PROVE IInv'
  OBVIOUS
<1>1. /\ pc = "clear" /\ pc' = "idle" /\ status' = status /\ tunfd' = -1
      /\ fds' = [fds EXCEPT ![socket] = "free"]
      /\ UNCHANGED <<socket, child, net, ghost>>
  BY DEF ClearAndReturn, Abandon, Return, tspClose
<1>2. TypeOK'
  BY <1>1 DEF IInv, TypeOK, Places
<1>3. Outcome'
  BY <1>1 DEF IInv, Outcome, Asking, Working
<1>4. DescriptorsOK'
  BY <1>1 DEF IInv, TypeOK, DescriptorsOK, FreeBut, Asking, Working
<1>5. DevicesOK'
  BY <1>1 DEF IInv, DevicesOK, Working
<1>6. ChildOK'
  BY <1>1 DEF IInv, ChildOK, Working
<1>7. SetUpOK'
  BY <1>1 DEF SetUpOK
<1> QED BY <1>2, <1>3, <1>4, <1>5, <1>6, <1>7 DEF IInv

\* The process ends, whatever it was at; it is then the kernel's turn.
Dies ==
  /\ pc \notin {"idle", "dead"} /\ DieNow
  /\ DOMAIN ghost' = DOMAIN ghost /\ ghost'.negotiated \in BOOLEAN
  /\ ghost'.granted = ghost.granted /\ ghost'.faulty = ghost.faulty
  /\ ghost'.undetached = ghost.undetached
  /\ UNCHANGED <<tunnel, child, net>>

LEMMA DiesKeeps == IInv /\ Dies => IInv'
<1> SUFFICES ASSUME IInv, Dies PROVE IInv'
  OBVIOUS
<1>1. pc' = "dead" /\ fds' = [d \in Descriptors |-> "free"]
  BY DEF Dies, DieNow
<1>2. TypeOK'
  BY <1>1 DEF IInv, TypeOK, Dies, Places
<1>3. Outcome'
  BY <1>1 DEF Outcome, Asking, Working
<1>4. DescriptorsOK'
  BY <1>1 DEF DescriptorsOK, FreeBut, Asking, Working
<1>5. DevicesOK'
  BY <1>1 DEF IInv, DevicesOK, Dies
<1>6. ChildOK'
  BY <1>1 DEF IInv, ChildOK, AsAnswered, Dies, Working
<1>7. SetUpOK'
  BY <1>1 DEF SetUpOK
<1> QED BY <1>2, <1>3, <1>4, <1>5, <1>6, <1>7 DEF IInv

LEMMA RestartKeeps == IInv /\ Restart => IInv'
<1> SUFFICES ASSUME IInv, Restart PROVE IInv'
  OBVIOUS
<1>1. /\ pc = "dead" /\ pc' = "idle" /\ status' = "none" /\ tunfd' = -1 /\ child' = NoChild
      /\ net' = KernelAfterDeath(net) /\ fds' = fds
      /\ DOMAIN ghost' = DOMAIN ghost /\ ghost'.undetached = FALSE /\ ghost'.negotiated = FALSE
      /\ ghost'.faulty = ghost.faulty
  BY DEF Restart, IInv, TypeOK
<1>2. /\ net' \in Nets /\ \A if \in net'.routes : net'.dev[if].exists
      /\ \A if \in Interfaces : ~net'.dev[if].mine
  BY <1>1, AfterDeath DEF Sound, IInv, TypeOK, DevicesOK
<1>3. TypeOK'
  <2>1. NoChild \in [todo : Seq(StepNames), exit : Exits]
    BY DEF NoChild, Exits
  <2> QED BY <1>1, <1>2, <2>1 DEF IInv, TypeOK, Places
<1>4. Outcome'
  BY <1>1 DEF Outcome, Asking, Working
<1>5. DescriptorsOK'
  BY <1>1 DEF IInv, DescriptorsOK, FreeBut, Asking, Working
<1>6. DevicesOK'
  BY <1>2 DEF DevicesOK, Interfaces
<1>7. ChildOK'
  BY <1>1 DEF ChildOK, Working, NoChild
<1>8. SetUpOK'
  BY <1>1 DEF SetUpOK
<1> QED BY <1>3, <1>4, <1>5, <1>6, <1>7, <1>8 DEF IInv

-----------------------------------------------------------------------------
(* The interface: set-up, tunnel and tear-down.                             *)

LEMMA StartLocalKeeps ==
  ASSUME NEW root \in BOOLEAN, NEW ipv6 \in BOOLEAN, NEW tun \in BOOLEAN, IInv, StartLocal(root, ipv6, tun)
  PROVE  IInv'
<1>1. /\ pc = "start" /\ UNCHANGED <<socket, child, tunnel>>
      /\ DOMAIN ghost' = DOMAIN ghost /\ ghost'.negotiated = TRUE
      /\ ghost'.granted = ghost.granted /\ ghost'.faulty = ghost.faulty
      /\ ghost'.undetached = ghost.undetached
  BY DEF StartLocal, Local, IInv, TypeOK
<1>2. CASE NotStarted
  <2>1. pc' = "clear" /\ status' = "ERR_INTERFACE_SETUP_FAILED" /\ UNCHANGED <<fds, tunfd, net>>
    BY <1>2 DEF NotStarted
  <2>2. TypeOK'
    BY <1>1, <2>1 DEF IInv, TypeOK, Places
  <2>3. Outcome'
    BY <1>1, <2>1 DEF Outcome, Asking, Negotiated
  <2>4. DescriptorsOK'
    BY <1>1, <2>1 DEF IInv, DescriptorsOK, FreeBut, Asking, Working
  <2>5. DevicesOK'
    BY <1>1, <2>1 DEF IInv, DevicesOK, Working
  <2>6. ChildOK'
    BY <1>1, <2>1 DEF IInv, ChildOK, Working
  <2>7. SetUpOK'
    BY <2>1 DEF SetUpOK
  <2> QED BY <2>2, <2>3, <2>4, <2>5, <2>6, <2>7 DEF IInv
<1>3. CASE DieNow /\ UNCHANGED net
  <2>1. Dies
    BY <1>1, <1>3 DEF Dies
  <2> QED BY <2>1, DiesKeeps
<1>4. CASE /\ tunnel.type = "v6udpv4" /\ ~net.dev["tun"].exists
           /\ tunfd' = Lowest(fds) /\ fds' = [fds EXCEPT ![Lowest(fds)] = "tun"]
           /\ net' = [net EXCEPT !.dev["tun"] = [NoDevice EXCEPT !.exists = TRUE, !.mine = TRUE]]
           /\ pc' = "fork" /\ UNCHANGED status
  <2>1. /\ net' \in Nets /\ net'.routes = net.routes /\ net'.dev["tun"].exists
        /\ net'.dev["sit"] = net.dev["sit"]
    BY <1>4, NoDeviceIs DEF IInv, TypeOK, Nets, Devices, Interfaces, NoDevice
  <2>2. TypeOK'
    BY <1>1, <1>4, <2>1 DEF IInv, TypeOK, Places, Working
  <2>3. Outcome'
    BY <1>1, <1>4 DEF Outcome, Asking, Working
  <2>4. DescriptorsOK'
    BY <1>1, <1>4 DEF IInv, TypeOK, DescriptorsOK, FreeBut, Asking, Working
  <2>5. "tun" \notin net.routes
    BY <1>4 DEF IInv, DevicesOK
  <2>6. DevicesOK'
    <3>1. \A if \in net'.routes : net'.dev[if].exists
      BY <2>1, <2>5 DEF IInv, TypeOK, DevicesOK, Nets, Interfaces
    <3>2. ~ghost.undetached => Lowest(fds) # -1
      <4>1. ~ghost.undetached => \E d \in Descriptors : fds[d] = "free"
        BY <1>1 DEF IInv, DescriptorsOK, FreeBut, Descriptors
      <4> QED BY <4>1, LowestIs DEF Descriptors
    <3>3. ~ghost.undetached => ~net.dev["sit"].mine
      BY <1>1 DEF IInv, DevicesOK, Working
    <3> QED BY <1>1, <1>4, <2>1, <3>1, <3>2, <3>3 DEF DevicesOK, Working
  <2>7. ChildOK'
    BY <1>1, <1>4 DEF IInv, ChildOK, AsAnswered, Working
  <2>8. SetUpOK'
    BY <1>4, <2>1, <2>5 DEF SetUpOK
  <2> QED BY <2>2, <2>3, <2>4, <2>6, <2>7, <2>8 DEF IInv
<1>5. CASE tunnel.type # "v6udpv4" /\ GoOn("fork") /\ UNCHANGED <<tunfd, net>>
  <2>1. pc' = "fork" /\ UNCHANGED <<status, fds, tunfd, net>>
    BY <1>5 DEF GoOn, Proceed
  <2>2. TypeOK'
    BY <1>1, <2>1 DEF IInv, TypeOK, Places, Working
  <2>3. Outcome'
    BY <1>1, <2>1 DEF Outcome, Asking, Working
  <2>4. DescriptorsOK'
    BY <1>1, <2>1 DEF IInv, TypeOK, DescriptorsOK, FreeBut, Asking, Working
  <2>5. DevicesOK'
    BY <1>1, <2>1 DEF IInv, DevicesOK, Working
  <2>6. ChildOK'
    BY <1>1, <2>1 DEF IInv, ChildOK, AsAnswered, Working
  <2>7. SetUpOK'
    BY <1>1, <1>5, <2>1 DEF SetUpOK
  <2> QED BY <2>2, <2>3, <2>4, <2>5, <2>6, <2>7 DEF IInv
<1> QED BY <1>2, <1>3, <1>4, <1>5 DEF StartLocal

\* The child that is forked has the whole list of steps before it, or has failed.
LEMMA Steps ==
  ASSUME NEW t, t.type \in {"v6v4", "v6udpv4"}
  PROVE  /\ SetupSteps(t) \in Seq(StepNames)
         /\ Len(SetupSteps(t)) = IF t.type = "v6v4" THEN 6 ELSE 4
         /\ \A i \in 1..Len(SetupSteps(t)) : SetupSteps(t)[i] = StepsLeft[Len(SetupSteps(t)) - i + 1]
<1> DEFINE common == <<"ifdown", "ifup", "delroute", "addroute">>
           sit    == <<"del_tunnel", "add_tunnel">>
<1>1. CASE t.type = "v6v4"
  <2>1. SetupSteps(t) = sit \o common
    BY <1>1 DEF SetupSteps
  <2>2. sit \in Seq(StepNames) /\ common \in Seq(StepNames) /\ Len(sit) = 2 /\ Len(common) = 4
    <3>1. sit \in Seq(StepNames)
      BY DEF StepNames
    <3>2. common \in Seq(StepNames)
      BY DEF StepNames
    <3>3. Len(sit) = 2
      OBVIOUS
    <3>4. Len(common) = 4
      OBVIOUS
    <3> QED BY <3>1, <3>2, <3>3, <3>4
  <2>3. SetupSteps(t) \in Seq(StepNames) /\ Len(SetupSteps(t)) = 6
    BY <2>1, <2>2
  <2>4. \A i \in 1..6 : (sit \o common)[i] = IF i <= 2 THEN sit[i] ELSE common[i - 2]
    BY <2>2
  <2>5. \A i \in 1..6 : SetupSteps(t)[i] = StepsLeft[6 - i + 1]
    BY <2>1, <2>4 DEF StepsLeft
  <2> QED BY <1>1, <2>3, <2>5
<1>2. CASE t.type = "v6udpv4"
  <2>1. SetupSteps(t) = <<>> \o common
    BY <1>2 DEF SetupSteps
  <2>2. common \in Seq(StepNames) /\ Len(common) = 4 /\ <<>> \o common = common
    <3>1. common \in Seq(StepNames)
      BY DEF StepNames
    <3>2. Len(common) = 4
      OBVIOUS
    <3>3. \A c \in Seq(StepNames) : <<>> \o c = c
      OBVIOUS
    <3> HIDE DEF common
    <3> QED BY <3>1, <3>2, <3>3
  <2>3. \A i \in 1..4 : common[i] = StepsLeft[4 - i + 1]
    BY DEF StepsLeft
  <2> QED BY <1>2, <2>1, <2>2, <2>3
<1> QED BY <1>1, <1>2

LEMMA ForkKeeps == ASSUME NEW ok \in BOOLEAN, IInv, Fork(ok) PROVE IInv'
<1>1. pc = "fork" /\ UNCHANGED <<socket, tunfd, net, ghost, tunnel, fds>>
  BY DEF Fork, Local, GoOn, Proceed
<1>2. CASE pc' = "wait" /\ UNCHANGED status /\ child' = tspSetupInterface(tunnel)
  <2>1. /\ child'.exit \in Exits \ {"none"} /\ child'.todo \in Seq(StepNames)
        /\ child' \in [todo : Seq(StepNames), exit : Exits]
    <3>1. <<>> \in Seq(StepNames)
      OBVIOUS
    <3>2. CASE \E e \in {"ERR_BAD_TUNNEL_PARAM", "ERR_INTERFACE_SETUP_FAILED"} : child' = [todo |-> <<>>, exit |-> e]
      BY <3>1, <3>2 DEF Exits
    <3>3. CASE tunnel.type \in {"v6v4", "v6udpv4"} /\ child' = [todo |-> SetupSteps(tunnel), exit |-> "SUCCESS"]
      BY <3>3, Steps DEF Exits
    <3> QED BY <1>2, <3>2, <3>3 DEF tspSetupInterface
  <2>2. child'.todo # <<>> \/ child'.exit = "SUCCESS" =>
          /\ validate_tunnel_info(tunnel) /\ tunnel.type \in {"v6v4", "v6udpv4"}
          /\ child'.todo = SetupSteps(tunnel)
    BY <1>2 DEF tspSetupInterface
  <2>3. TypeOK'
    BY <1>1, <1>2, <2>1 DEF IInv, TypeOK, Places, Working
  <2>4. Outcome'
    BY <1>1, <1>2, <2>1 DEF IInv, Outcome, Asking, Working
  <2>5. DescriptorsOK'
    BY <1>1, <1>2 DEF IInv, DescriptorsOK, FreeBut, Asking, Working
  <2>6. DevicesOK'
    BY <1>1, <1>2 DEF IInv, DevicesOK, Working
  <2>7. ChildOK'
    <3>1. AsAnswered'
      BY <1>1 DEF IInv, ChildOK, AsAnswered, Working
    <3>2. CASE child'.todo # <<>>
      <4> DEFINE q == SetupSteps(tunnel)
      <4>1. tunnel.type \in {"v6v4", "v6udpv4"} /\ child'.todo = q
        BY <2>2, <3>2
      <4>2. /\ Len(q) = IF tunnel.type = "v6v4" THEN 6 ELSE 4
            /\ \A i \in 1..Len(q) : q[i] = StepsLeft[Len(q) - i + 1]
        BY <4>1, Steps
      <4> HIDE DEF q
      <4> QED BY <1>1, <1>2, <3>1, <4>1, <4>2 DEF ChildOK
    <3> QED BY <3>1, <3>2 DEF ChildOK
  <2>8. SetUpOK'
    <3>1. CASE child'.exit = "SUCCESS"
      <4>1. CASE tunnel.type = "v6v4"
        <5>1. Len(child'.todo) = 6
          BY <2>2, <3>1, <4>1, Steps
        <5> QED BY <1>1, <1>2, <2>2, <3>1, <5>1 DEF SetUpOK, Progress
      <4>2. CASE tunnel.type = "v6udpv4"
        <5>1. net.dev["tun"].exists /\ "tun" \notin net.routes
          BY <1>1, <4>2 DEF IInv, SetUpOK
        <5>2. InterfaceOf(tunnel) = "tun" /\ Len(child'.todo) = 4
          BY <2>2, <3>1, <4>2, Steps DEF InterfaceOf
        <5> QED BY <1>1, <1>2, <2>2, <3>1, <5>1, <5>2 DEF SetUpOK, Progress
      <4> QED BY <2>2, <3>1, <4>1, <4>2
    <3> QED BY <1>2, <3>1 DEF SetUpOK
  <2> QED BY <2>3, <2>4, <2>5, <2>6, <2>7, <2>8 DEF IInv
<1>3. CASE pc' = "teardown" /\ status' = "ERR_INTERFACE_SETUP_FAILED" /\ UNCHANGED child
  <2>1. TypeOK'
    BY <1>1, <1>3 DEF IInv, TypeOK, Places, Working
  <2>2. Outcome'
    BY <1>1, <1>3 DEF IInv, Outcome, Asking, Working, Negotiated
  <2>3. DescriptorsOK'
    BY <1>1, <1>3 DEF IInv, DescriptorsOK, FreeBut, Asking, Working
  <2>4. DevicesOK'
    BY <1>1, <1>3 DEF IInv, DevicesOK, Working
  <2>5. ChildOK'
    BY <1>1, <1>3 DEF IInv, ChildOK, AsAnswered, Working
  <2>6. SetUpOK'
    BY <1>3 DEF SetUpOK
  <2> QED BY <2>1, <2>2, <2>3, <2>4, <2>5, <2>6 DEF IInv
<1> QED BY <1>2, <1>3 DEF Fork, GoOn, Proceed

\* What a step of the child may do to the interfaces and routes, whichever step it is.
LEMMA StepSound ==
  ASSUME NEW n \in Nets, Sound(n), NEW step \in StepNames, NEW t,
         t.client_address_ipv6 \in Addresses, t.server_address_ipv4 \in Addresses,
         step = "add_tunnel" => t.type = "v6v4"
  PROVE  /\ SetupStep(n, step, t) \in Nets /\ Sound(SetupStep(n, step, t))
         /\ \A if \in Interfaces :
              SetupStep(n, step, t).dev[if].mine => n.dev[if].mine \/ (if = "sit" /\ t.type = "v6v4")
<1> DEFINE i == InterfaceOf(t)
           m == SetupStep(n, step, t)
<1>1. i \in Interfaces /\ (i = "sit" <=> t.type = "v6v4")
  BY Interface
<1> HIDE DEF i
<1>2. CASE step = "del_tunnel"
  <2>1. m = del_tunnel(n, i)
    BY <1>2 DEF SetupStep, i
  <2> HIDE DEF m
  <2>2. CASE i = "sit"
    BY <1>1, <2>1, <2>2, TunnelDeleted, Deleted, NoDeviceIs DEF Sound, Nets, Interfaces, m
  <2>3. CASE i # "sit"
    BY <1>1, <2>1, <2>3, TunnelDeleted DEF m
  <2> QED BY <2>2, <2>3
<1>3. CASE step = "add_tunnel"
  <2> DEFINE r == t.server_address_ipv4
             a == add_tunnel(n, i, r)
  <2>1. m = a /\ r \in Addresses
    BY <1>3 DEF SetupStep, i
  <2> HIDE DEF m, r
  <2>2. a \in Nets /\ a.routes = n.routes /\ a.dev[i].exists /\ \A g \in Interfaces : g # i => a.dev[g] = n.dev[g]
    <3>1. a \in Nets /\ a.routes = n.routes
      BY <1>1, <2>1, Added
    <3>2. a.dev[i].exists
      BY <1>1, <2>1, Added
    <3>3. ASSUME NEW g \in Interfaces, g # i PROVE a.dev[g] = n.dev[g]
      BY <1>1, <2>1, <3>3, AddedElsewhere
    <3> QED BY <3>1, <3>2, <3>3
  <2> HIDE DEF a
  <2>3. m \in Nets /\ m.routes = n.routes /\ m.dev[i].exists /\ \A g \in Interfaces : g # i => m.dev[g] = n.dev[g]
    BY <2>1, <2>2
  <2>4. Sound(m)
    BY <2>3 DEF Sound, Nets
  <2> QED BY <1>1, <1>3, <2>3, <2>4 DEF m
<1>4. CASE step = "ifdown"
  <2>1. m = ifdown(n, i)
    BY <1>4 DEF SetupStep, i
  <2> HIDE DEF m
  <2>2. /\ m \in Nets /\ m.routes = n.routes /\ m.dev[i] = [n.dev[i] EXCEPT !.addrs = {}]
        /\ \A g \in Interfaces : g # i => m.dev[g] = n.dev[g]
    BY <1>1, <2>1, IfDown
  <2>3. m.dev[i].exists = n.dev[i].exists /\ m.dev[i].mine = n.dev[i].mine
    BY <1>1, <2>2 DEF Nets, Devices
  <2>4. Sound(m)
    BY <2>2, <2>3 DEF Sound, Nets
  <2> QED BY <2>2, <2>3, <2>4 DEF m
<1>5. CASE step = "ifup"
  <2>1. m = ifup(n, i, t.client_address_ipv6)
    BY <1>5 DEF SetupStep, i
  <2> HIDE DEF m
  <2>2. /\ m \in Nets /\ m.routes = n.routes
        /\ m.dev[i].exists = n.dev[i].exists /\ m.dev[i].mine = n.dev[i].mine
        /\ \A g \in Interfaces : g # i => m.dev[g] = n.dev[g]
    BY <1>1, <2>1, IfUp
  <2>3. Sound(m)
    BY <2>2 DEF Sound, Nets
  <2> QED BY <2>2, <2>3 DEF m
<1>6. CASE step = "delroute"
  <2>1. m = delroute(n)
    BY <1>6 DEF SetupStep, i
  <2> QED BY <2>1, RouteDeleted DEF Sound
<1>7. CASE step = "addroute"
  <2>1. m = addroute(n, i)
    BY <1>7 DEF SetupStep, i
  <2> HIDE DEF m
  <2>2. m \in Nets /\ m.dev = n.dev
    BY <1>1, <2>1, RouteAdded
  <2>3. Sound(m)
    BY <1>1, <2>1, <2>2, RouteAdded DEF Sound
  <2> QED BY <2>2, <2>3 DEF m
<1> QED BY <1>2, <1>3, <1>4, <1>5, <1>6, <1>7 DEF StepNames

\* A step of the child that does not fail brings the set-up one step on.
LEMMA StepProgress ==
  ASSUME NEW n \in Nets, NEW t, NEW L \in 1..6,
         t.client_address_ipv6 \in Addresses, t.server_address_ipv4 \in Addresses,
         t.type = "v6v4" \/ L <= 4,
         Progress(n, t, L)
  PROVE  Progress(SetupStep(n, StepsLeft[L], t), t, L - 1)
<1> DEFINE i == InterfaceOf(t)
           m == SetupStep(n, StepsLeft[L], t)
<1>1. i \in Interfaces /\ (i = "sit" <=> t.type = "v6v4")
  BY Interface
<1> SUFFICES Progress(m, t, L - 1)
  OBVIOUS
<1> HIDE DEF i, m
<1>2. CASE L = 6
  <2>1. m = DeleteDevice(n, "sit")
    BY <1>1, <1>2, TunnelDeleted DEF SetupStep, StepsLeft, i, m
  <2>2. ~m.dev["sit"].exists /\ "sit" \notin m.routes
    BY <2>1, Deleted, NoDeviceIs DEF Interfaces
  <2> QED BY <1>1, <1>2, <2>2 DEF Progress, i
<1>3. CASE L = 5
  <2>1. m = add_tunnel(n, i, t.server_address_ipv4)
    BY <1>3 DEF SetupStep, StepsLeft, i, m
  <2>2. ~n.dev[i].exists /\ i \notin n.routes
    BY <1>3 DEF Progress, i
  <2>3. m.dev[i].exists /\ m.dev[i].remote = t.server_address_ipv4 /\ i \notin m.routes
    <3> DEFINE r == t.server_address_ipv4
    <3>1. /\ m.dev[i] = [exists |-> TRUE, addrs |-> {}, remote |-> r, mine |-> TRUE]
          /\ m.routes = n.routes
      BY <1>1, <2>1, <2>2, Added
    <3> HIDE DEF r
    <3>2. m.dev[i].exists /\ m.dev[i].remote = r
      BY <3>1
    <3> QED BY <2>2, <3>1, <3>2 DEF r
  <2> QED BY <1>1, <1>3, <2>3 DEF Progress, i
<1>4. CASE L = 4
  <2>1. m = ifdown(n, i)
    BY <1>4 DEF SetupStep, StepsLeft, i, m
  <2>2. /\ n.dev[i].exists /\ i \notin n.routes
        /\ i = "sit" => n.dev[i].remote = t.server_address_ipv4
    BY <1>4 DEF Progress, i
  <2>3. m.dev[i] = [n.dev[i] EXCEPT !.addrs = {}] /\ m.routes = n.routes
    BY <1>1, <2>1, IfDown
  <2>4. m.dev[i].addrs = {} /\ m.dev[i].exists = n.dev[i].exists /\ m.dev[i].remote = n.dev[i].remote
    BY <1>1, <2>3 DEF Nets, Devices
  <2>5. i = "sit" => m.dev[i].remote = t.server_address_ipv4
    BY <2>2, <2>4
  <2>6. m.dev[i].exists /\ i \notin m.routes /\ m.dev[i].addrs = {}
    BY <2>2, <2>3, <2>4
  <2> QED BY <1>1, <1>4, <2>5, <2>6 DEF Progress, i
<1>5. CASE L = 3
  <2>1. m = ifup(n, i, t.client_address_ipv6)
    BY <1>5 DEF SetupStep, StepsLeft, i, m
  <2>2. /\ n.dev[i].exists /\ i \notin n.routes /\ n.dev[i].addrs = {}
        /\ i = "sit" => n.dev[i].remote = t.server_address_ipv4
    BY <1>5 DEF Progress, i
  <2>3. /\ m.dev[i].exists /\ m.dev[i].remote = n.dev[i].remote
        /\ m.dev[i].addrs = {t.client_address_ipv6} /\ m.routes = n.routes
    BY <1>1, <2>1, <2>2, IfUp
  <2> QED BY <1>1, <1>5, <2>2, <2>3 DEF Progress, i
<1>6. CASE L = 2
  <2>1. m = delroute(n)
    BY <1>6 DEF SetupStep, StepsLeft, i, m
  <2>2. /\ n.dev[i].exists /\ i \notin n.routes /\ n.dev[i].addrs = {t.client_address_ipv6}
        /\ i = "sit" => n.dev[i].remote = t.server_address_ipv4
    BY <1>6 DEF Progress, i
  <2>3. m.dev = n.dev /\ m.routes = {}
    BY <1>1, <2>1, <2>2, RouteDeleted
  <2> QED BY <1>1, <1>6, <2>2, <2>3 DEF Progress, i
<1>7. CASE L = 1
  <2>1. m = addroute(n, i)
    BY <1>7 DEF SetupStep, StepsLeft, i, m
  <2>2. /\ n.dev[i].exists /\ n.routes = {} /\ n.dev[i].addrs = {t.client_address_ipv6}
        /\ i = "sit" => n.dev[i].remote = t.server_address_ipv4
    BY <1>7 DEF Progress, i
  <2>3. m.dev = n.dev /\ m.routes = {i}
    BY <1>1, <2>1, <2>2, RouteAdded
  <2> QED BY <1>1, <1>7, <2>2, <2>3 DEF Progress, i
<1> QED BY <1>2, <1>3, <1>4, <1>5, <1>6, <1>7

LEMMA ChildStepKeeps == ASSUME NEW fails \in BOOLEAN, IInv, ChildStep(fails) PROVE IInv'
<1> DEFINE L    == Len(child.todo)
           step == Head(child.todo)
<1>1. /\ child.todo # <<>> /\ child.todo \in Seq(StepNames)
      /\ child' = [child EXCEPT !.todo = Tail(@)]
      /\ UNCHANGED <<pc, status, tunnel, socket, tunfd, fds>>
      /\ net' = IF fails THEN net ELSE SetupStep(net, step, tunnel)
  BY DEF ChildStep, IInv, TypeOK
<1>2. /\ DOMAIN ghost' = DOMAIN ghost
      /\ ghost'.negotiated = ghost.negotiated /\ ghost'.undetached = ghost.undetached
      /\ ghost'.granted = ghost.granted
      /\ ghost'.faulty \in BOOLEAN /\ (ghost.faulty \/ fails => ghost'.faulty)
  BY DEF ChildStep, IInv, TypeOK
<1>3. /\ pc \in {"wait", "dead"} /\ AsAnswered /\ tunnel.type \in {"v6v4", "v6udpv4"}
      /\ L <= IF tunnel.type = "v6v4" THEN 6 ELSE 4
      /\ \A i \in 1..L : child.todo[i] = StepsLeft[L - i + 1]
  BY <1>1 DEF IInv, ChildOK
<1>4. /\ L \in 1..6 /\ step = StepsLeft[L] /\ step \in StepNames
      /\ step = "add_tunnel" => tunnel.type = "v6v4"
  <2>1. L \in Nat \ {0} /\ step = child.todo[1] /\ step \in StepNames
    BY <1>1
  <2> HIDE DEF L, step
  <2>2. L \in 1..6
    BY <1>3, <2>1
  <2>3. step = StepsLeft[L]
    <3>1. L - 1 + 1 = L /\ 1 \in 1..L
      BY <2>2
    <3>2. child.todo[1] = StepsLeft[L - 1 + 1]
      BY <1>3, <3>1
    <3> QED BY <2>1, <3>1, <3>2
  <2>4. step = "add_tunnel" => L = 5
    BY <2>2, <2>3 DEF StepsLeft
  <2> QED BY <1>3, <2>1, <2>2, <2>3, <2>4
<1>5. /\ child'.todo \in Seq(StepNames) /\ Len(child'.todo) = L - 1 /\ child'.exit = child.exit
      /\ \A i \in 1..L - 1 : child'.todo[i] = child.todo[i + 1]
      /\ child' \in [todo : Seq(StepNames), exit : Exits]
  <2>1. \A q \in Seq(StepNames) : q # <<>> => /\ Tail(q) \in Seq(StepNames) /\ Len(Tail(q)) = Len(q) - 1
                                              /\ \A i \in 1..Len(q) - 1 : Tail(q)[i] = q[i + 1]
    OBVIOUS
  <2>2. child'.todo = Tail(child.todo) /\ child'.exit = child.exit /\ child.exit \in Exits
    BY <1>1 DEF IInv, TypeOK
  <2>3. child' = [todo |-> Tail(child.todo), exit |-> child.exit]
    BY <1>1 DEF IInv, TypeOK
  <2> QED BY <1>1, <2>1, <2>2, <2>3
<1> HIDE DEF L, step
<1>6. tunnel.client_address_ipv6 \in Addresses /\ tunnel.server_address_ipv4 \in Addresses
  BY <1>3, ParsedFrom DEF AsAnswered, Addresses, Contents
<1>7. /\ net' \in Nets /\ Sound(net')
      /\ \A if \in Interfaces :
           net'.dev[if].mine => net.dev[if].mine \/ (if = "sit" /\ tunnel.type = "v6v4")
  <2>1. net \in Nets /\ Sound(net)
    BY DEF IInv, TypeOK, DevicesOK, Sound
  <2> QED BY <1>1, <1>4, <1>6, <2>1, StepSound
<1>8. TypeOK'
  BY <1>1, <1>2, <1>5, <1>7 DEF IInv, TypeOK
<1>9. Outcome'
  BY <1>1, <1>2, <1>5 DEF IInv, Outcome
<1>10. DescriptorsOK'
  BY <1>1, <1>2 DEF IInv, DescriptorsOK, FreeBut
<1>11. DevicesOK'
  BY <1>1, <1>2, <1>3, <1>7 DEF IInv, DevicesOK, Sound, Interfaces, Working
<1>12. ChildOK'
  <2>1. AsAnswered'
    BY <1>1, <1>2, <1>3 DEF AsAnswered
  <2>2. \A i \in 1..L - 1 : child'.todo[i] = StepsLeft[L - 1 - i + 1]
    BY <1>3, <1>4, <1>5
  <2> QED BY <1>1, <1>3, <1>4, <1>5, <2>1, <2>2 DEF ChildOK
<1>13. SetUpOK'
  <2>1. SUFFICES ASSUME pc = "wait", child.exit = "SUCCESS"
                 PROVE  SetUpOK'
    BY <1>1, <1>3, <1>5 DEF SetUpOK
  <2>2. /\ validate_tunnel_info(tunnel) /\ tunnel.type \in {"v6v4", "v6udpv4"}
        /\ ~ghost.faulty => Progress(net, tunnel, L)
    BY <2>1 DEF IInv, SetUpOK, L
  <2>3. ASSUME ~ghost'.faulty PROVE Progress(net', tunnel, L - 1)
    <3>1. ~ghost.faulty /\ ~fails
      BY <1>2, <2>3
    <3>2. net \in Nets /\ net' = SetupStep(net, StepsLeft[L], tunnel)
      BY <1>1, <1>4, <3>1 DEF IInv, TypeOK
    <3> QED BY <1>3, <1>4, <1>6, <2>2, <3>1, <3>2, StepProgress
  <2>4. pc' = "wait" /\ tunnel' = tunnel /\ Len(child'.todo) = L - 1
    BY <1>1, <1>5, <2>1
  <2> QED BY <2>2, <2>3, <2>4 DEF SetUpOK
<1> QED BY <1>8, <1>9, <1>10, <1>11, <1>12, <1>13 DEF IInv

LEMMA ChildKilledKeeps == IInv /\ ChildKilled => IInv'
<1> SUFFICES ASSUME IInv, ChildKilled PROVE IInv'
  OBVIOUS
<1>1. /\ child.todo # <<>> /\ child'.todo = <<>> /\ child'.exit = "ERR_INTERFACE_SETUP_FAILED"
      /\ child' \in [todo : Seq(StepNames), exit : Exits]
      /\ UNCHANGED <<pc, status, tunnel, socket, tunfd, fds, net, ghost>>
  <2>1. <<>> \in Seq(StepNames)
    OBVIOUS
  <2> QED BY <2>1 DEF ChildKilled, Exits
<1>2. pc \in {"wait", "dead"}
  BY <1>1 DEF IInv, ChildOK
<1>3. TypeOK'
  BY <1>1 DEF IInv, TypeOK
<1>4. Outcome'
  BY <1>1 DEF IInv, Outcome
<1>5. DescriptorsOK'
  BY <1>1 DEF IInv, DescriptorsOK, FreeBut
<1>6. DevicesOK'
  BY <1>1 DEF IInv, DevicesOK
<1>7. ChildOK'
  BY <1>1 DEF IInv, ChildOK, AsAnswered
<1>8. SetUpOK'
  BY <1>1, <1>2 DEF SetUpOK
<1> QED BY <1>3, <1>4, <1>5, <1>6, <1>7, <1>8 DEF IInv

LEMMA WaitKeeps == IInv /\ Wait => IInv'
<1> SUFFICES ASSUME IInv, Wait PROVE IInv'
  OBVIOUS
<1>1. /\ pc = "wait" /\ child.todo = <<>> /\ child' = NoChild
      /\ UNCHANGED <<tunnel, socket, tunfd, fds, net, ghost>>
      /\ \/ child.exit = "SUCCESS" /\ pc' = "detach" /\ status' = status
         \/ child.exit # "SUCCESS" /\ pc' = "teardown" /\ status' = child.exit
  BY DEF Wait, Local, GoOn, Proceed
<1>2. child'.todo = <<>> /\ child' \in [todo : Seq(StepNames), exit : Exits]
  <2>1. <<>> \in Seq(StepNames)
    OBVIOUS
  <2> QED BY <1>1, <2>1 DEF NoChild, Exits
<1>3. child.exit \in Exits \ {"none"}
  BY <1>1 DEF IInv, TypeOK, Outcome
<1>4. TypeOK'
  BY <1>1, <1>2 DEF IInv, TypeOK, Places, Working
<1>5. Outcome'
  BY <1>1, <1>3 DEF IInv, Outcome, Asking, Working, Negotiated, Exits
<1>6. DescriptorsOK'
  BY <1>1 DEF IInv, DescriptorsOK, FreeBut, Asking, Working
<1>7. DevicesOK'
  BY <1>1 DEF IInv, DevicesOK, Working
<1>8. ChildOK'
  BY <1>1, <1>2 DEF IInv, ChildOK, AsAnswered, Working
<1>9. SetUpOK'
  <2>1. Len(child.todo) = 0
    BY <1>1
  <2> QED BY <1>1, <2>1 DEF IInv, SetUpOK
<1> QED BY <1>4, <1>5, <1>6, <1>7, <1>8, <1>9 DEF IInv

LEMMA DetachKeeps == ASSUME NEW ok \in BOOLEAN, IInv, Detach(ok) PROVE IInv'
<1>1. pc = "detach" /\ UNCHANGED <<tunnel, socket, tunfd, child, net, fds>>
  BY DEF Detach, Local, GoOn, Proceed
<1>2. CASE pc' = "loop" /\ UNCHANGED <<status, ghost>>
  <2>1. TypeOK'
    BY <1>1, <1>2 DEF IInv, TypeOK, Places, Working
  <2>2. Outcome'
    BY <1>1, <1>2 DEF IInv, Outcome, Asking, Working
  <2>3. DescriptorsOK'
    BY <1>1, <1>2 DEF IInv, DescriptorsOK, FreeBut, Asking, Working
  <2>4. DevicesOK'
    BY <1>1, <1>2 DEF IInv, DevicesOK, Working
  <2>5. ChildOK'
    BY <1>1, <1>2 DEF IInv, ChildOK, AsAnswered, Working
  <2>6. SetUpOK'
    BY <1>1, <1>2 DEF IInv, SetUpOK
  <2> QED BY <2>1, <2>2, <2>3, <2>4, <2>5, <2>6 DEF IInv
<1>3. CASE /\ pc' = "clear" /\ status' = "ERR_INTERFACE_SETUP_FAILED"
           /\ ghost' = [ghost EXCEPT !.undetached = TRUE]
  <2>1. /\ DOMAIN ghost' = DOMAIN ghost /\ ghost'.undetached = TRUE
        /\ ghost'.negotiated = ghost.negotiated /\ ghost'.faulty = ghost.faulty
    BY <1>3 DEF IInv, TypeOK
  <2>2. TypeOK'
    BY <1>1, <1>3, <2>1 DEF IInv, TypeOK, Places
  <2>3. Outcome'
    BY <1>1, <1>3, <2>1 DEF IInv, Outcome, Asking, Working, Negotiated
  <2>4. DescriptorsOK'
    BY <1>3, <2>1 DEF DescriptorsOK, Asking
  <2>5. DevicesOK'
    BY <1>1, <2>1 DEF IInv, DevicesOK
  <2>6. ChildOK'
    BY <1>1, <1>3 DEF IInv, ChildOK, Working
  <2>7. SetUpOK'
    BY <1>3 DEF SetUpOK
  <2> QED BY <2>2, <2>3, <2>4, <2>5, <2>6, <2>7 DEF IInv
<1> QED BY <1>2, <1>3 DEF Detach, GoOn, Proceed

LEMMA TunnelEndsKeeps == ASSUME NEW st \in LoopStatuses, IInv, TunnelEnds(st) PROVE IInv'
<1>1. /\ pc = "loop" /\ pc' = "teardown" /\ status' = st
      /\ fds' \in {fds, [fds EXCEPT ![socket] = "free"]}
      /\ UNCHANGED <<tunnel, socket, tunfd, child, net, ghost>>
  BY DEF TunnelEnds, Local, tspClose
<1>2. TypeOK'
  BY <1>1 DEF IInv, TypeOK, Places, Working
<1>3. Outcome'
  BY <1>1 DEF IInv, Outcome, Asking, Working, Negotiated, LoopStatuses
<1>4. DescriptorsOK'
  BY <1>1 DEF IInv, TypeOK, DescriptorsOK, FreeBut, Asking, Working
<1>5. DevicesOK'
  BY <1>1 DEF IInv, DevicesOK, Working
<1>6. ChildOK'
  BY <1>1 DEF IInv, ChildOK, AsAnswered, Working
<1>7. SetUpOK'
  BY <1>1 DEF SetUpOK
<1> QED BY <1>2, <1>3, <1>4, <1>5, <1>6, <1>7 DEF IInv

\* The tear-down leaves only the session's socket: the device goes with its descriptor
\* or, by the type of the tunnel, with del_tunnel().
LEMMA TearDownKeeps == IInv /\ TearDown => IInv'
<1> SUFFICES ASSUME IInv, TearDown PROVE IInv'
  OBVIOUS
<1> DEFINE n == IF tunfd = -1 THEN net ELSE DeleteDevice(net, "tun")
<1>1. /\ pc = "teardown" /\ pc' = "clear" /\ tunfd' = -1
      /\ fds' = IF tunfd = -1 THEN fds ELSE [fds EXCEPT ![tunfd] = "free"]
      /\ net' = tspTearDownTunnel(n, tunnel)
      /\ UNCHANGED <<status, tunnel, socket, child, ghost>>
  BY DEF TearDown, Local, tspClose
<1>2. /\ n \in Nets /\ Sound(n)
      /\ \A if \in Interfaces : n.dev[if].mine => net.dev[if].mine /\ ~(if = "tun" /\ tunfd # -1)
  <2>1. net \in Nets /\ Sound(net)
    BY DEF IInv, TypeOK, DevicesOK, Sound
  <2>2. CASE tunfd = -1
    BY <2>1, <2>2
  <2>3. CASE tunfd # -1
    <3>1. n = DeleteDevice(net, "tun")
      BY <2>3
    <3> HIDE DEF n
    <3> QED BY <2>1, <2>3, <3>1, Deleted, NoDeviceIs DEF Sound, Nets, Interfaces
  <2> QED BY <2>2, <2>3
<1> HIDE DEF n
<1>3. /\ net' \in Nets /\ Sound(net')
      /\ \A if \in Interfaces :
           net'.dev[if].mine => n.dev[if].mine /\ ~(if = "sit" /\ tunnel.type = "v6v4")
  BY <1>1, <1>2, TornDown
<1>4. TypeOK'
  BY <1>1, <1>3 DEF IInv, TypeOK, Places
<1>5. Outcome'
  BY <1>1 DEF IInv, Outcome, Asking, Working
<1>6. DescriptorsOK'
  BY <1>1 DEF IInv, TypeOK, DescriptorsOK, FreeBut, Asking, Working, Descriptors
<1>7. DevicesOK'
  BY <1>1, <1>2, <1>3 DEF IInv, DevicesOK, Sound, Interfaces, Working
<1>8. ChildOK'
  BY <1>1 DEF IInv, ChildOK, Working
<1>9. SetUpOK'
  BY <1>1 DEF SetUpOK
<1> QED BY <1>4, <1>5, <1>6, <1>7, <1>8, <1>9 DEF IInv

-----------------------------------------------------------------------------
(* The specification.                                                       *)

\* A step that changes nothing of what the invariant reads.
LEMMA UnreadKeeps == IInv /\ UNCHANGED <<pc, status, tunnel, socket, tunfd, fds, child, net, ghost>> => IInv'
  BY DEF IInv, TypeOK, Outcome, DescriptorsOK, FreeBut, DevicesOK, ChildOK, AsAnswered, SetUpOK

LEMMA Initially == Init => IInv
<1> SUFFICES ASSUME Init PROVE IInv
  OBVIOUS
<1>1. child.todo = <<>> /\ child \in [todo : Seq(StepNames), exit : Exits]
  <2>1. <<>> \in Seq(StepNames)
    OBVIOUS
  <2> QED BY <2>1 DEF Init, NoChild, Exits
<1>2. /\ net \in Nets /\ net.routes = {}
      /\ \A if \in Interfaces : ~net.dev[if].mine
  BY NoDeviceIs DEF Init, Nets, Interfaces
<1>3. /\ DOMAIN ghost = {"granted", "requested", "stored", "negotiated", "faulty", "undetached"}
      /\ ghost.negotiated = FALSE /\ ghost.faulty = FALSE /\ ghost.undetached = FALSE
  BY DEF Init
<1>4. TypeOK
  BY <1>1, <1>2, <1>3 DEF Init, TypeOK, Places
<1>5. Outcome
  BY <1>3 DEF Init, Outcome, Asking, Working
<1>6. DescriptorsOK
  BY DEF Init, DescriptorsOK, FreeBut, Asking, Working
<1>7. DevicesOK
  BY <1>2 DEF DevicesOK, Interfaces
<1>8. ChildOK
  BY <1>1 DEF Init, ChildOK, Working
<1>9. SetUpOK
  BY DEF Init, SetUpOK
<1> QED BY <1>4, <1>5, <1>6, <1>7, <1>8, <1>9 DEF IInv

LEMMA Inductive == IInv /\ [Next]_vars => IInv'
<1> SUFFICES ASSUME IInv, [Next]_vars PROVE IInv'
  OBVIOUS
<1>1. ASSUME NEW s \in Servers, NEW t \in {"TCP", "RUDP"}, NEW v \in {"1.0.1", "2.0.0"}, StartSession(s, t, v)
      PROVE  IInv'
  BY <1>1, StartSessionKeeps
<1>2. ASSUME NEW known \in {{}, {"ipv4"}}, NEW connects \in BOOLEAN, Connect(known, connects)
      PROVE  IInv'
  BY <1>2, ConnectKeeps
<1>3. CASE GetCapabilities \/ Authenticate \/ AuthANONYMOUS \/ AuthPLAIN
  BY <1>3, AsksKeeps, CapabilitiesAsks, AuthenticateAsks, AuthANONYMOUSAsks, AuthPLAINAsks
<1>4. CASE AuthDIGEST_Challenge \/ AuthDIGEST_Response \/ AuthDIGEST_Result
  BY <1>4, AsksKeeps, AuthDIGEST_ChallengeAsks, AuthDIGEST_ResponseAsks, AuthDIGEST_ResultAsks
<1>5. CASE AuthPASSDSS_Begin \/ AuthPASSDSS_Hello \/ AuthPASSDSS_Result
  BY <1>5, AsksKeeps, AuthPASSDSS_BeginAsks, AuthPASSDSS_HelloAsks, AuthPASSDSS_ResultAsks
<1>6. ASSUME NEW consent \in BOOLEAN, NEW writable \in BOOLEAN, AuthPASSDSS_Verify(consent, writable)
      PROVE  IInv'
  <2>1. Asks
    BY <1>6, VerifyAsks DEF IInv
  <2> QED BY <2>1, AsksKeeps
<1>7. ASSUME NEW ok \in BOOLEAN, UpdateSourceAddr(ok) PROVE IInv'
  <2>1. Asks
    BY <1>7, UpdateSourceAddrAsks
  <2> QED BY <2>1, AsksKeeps
<1>8. ASSUME NEW ok \in BOOLEAN, Fork(ok) \/ Detach(ok) \/ ChildStep(ok) PROVE IInv'
  BY <1>8, ForkKeeps, DetachKeeps, ChildStepKeeps
<1>9. CASE TunnelNegotiation
  BY <1>9, NegotiationAsks, AsksKeeps, AnsweredKeeps DEF IInv
<1>10. CASE Acknowledge
  BY <1>10, AcknowledgeAsks, AsksKeeps
<1>11. ASSUME NEW root \in BOOLEAN, NEW ipv6 \in BOOLEAN, NEW tun \in BOOLEAN, StartLocal(root, ipv6, tun)
       PROVE  IInv'
  BY <1>11, StartLocalKeeps
<1>12. CASE ChildKilled \/ Wait \/ TearDown \/ ClearAndReturn
  BY <1>12, ChildKilledKeeps, WaitKeeps, TearDownKeeps, ClearKeeps
<1>13. CASE TearDownDies \/ Kill
  <2>1. Dies
    BY <1>13 DEF TearDownDies, Kill, Dies, Local, IInv, TypeOK
  <2> QED BY <2>1, DiesKeeps
<1>14. ASSUME NEW st \in LoopStatuses, TunnelEnds(st) PROVE IInv'
  BY <1>14, TunnelEndsKeeps
<1>15. CASE Restart
  BY <1>15, RestartKeeps
<1>16. CASE Renumber \/ Finished \/ UNCHANGED vars
  BY <1>16, UnreadKeeps DEF Renumber, Finished, vars
<1> QED BY <1>1, <1>2, <1>3, <1>4, <1>5, <1>6, <1>7, <1>8, <1>9, <1>10, <1>11, <1>12,
           <1>13, <1>14, <1>15, <1>16 DEF Next

\* The invariant holds throughout: what tspSetupTunnel() may have open, made and
\* reported at each of its places.
THEOREM Invariance == Spec => []IInv
  BY Initially, Inductive, PTL DEF Spec

\* The status that tspSetupTunnel() returns tells whether the session got as far as
\* the set-up of its tunnel (tsp_client.c:408-632), on every one of its ways out.
THEOREM OutcomeAsAssumedCorrect == Spec => []OutcomeAsAssumed
<1>1. IInv => OutcomeAsAssumed
  BY DEF IInv, Outcome, OutcomeAsAssumed, Negotiated
<1> QED BY <1>1, Invariance, PTL

\* When tspSetupTunnel() has returned, every descriptor is closed and no interface of
\* the process is left, whichever way it went, unless daemon() failed.
THEOREM NothingLeftCorrect == Spec => []NothingLeft
<1>1. IInv => NothingLeft
  BY DEF IInv, DescriptorsOK, FreeBut, DevicesOK, NothingLeft, Interfaces, Working
<1> QED BY <1>1, Invariance, PTL

\* While a tunnel runs whose set-up had no failing system call, its interface has the
\* address that the parser read from the answer of this session and no other, it ends
\* at the broker's address, and the only default route leads through it.
TunnelAsParsed ==
  pc = "loop" /\ ~ghost.faulty =>
    /\ AsAnswered
    /\ net.dev[InterfaceOf(tunnel)].addrs = {tunnel.client_address_ipv6}
    /\ InterfaceOf(tunnel) = "sit" => net.dev["sit"].remote = tunnel.server_address_ipv4
    /\ net.routes = {InterfaceOf(tunnel)}

LEMMA AsParsed == IInv => TunnelAsParsed
<1> SUFFICES ASSUME IInv, pc = "loop", ~ghost.faulty PROVE TunnelAsParsed
  BY DEF TunnelAsParsed
<1>1. AsAnswered
  BY DEF IInv, ChildOK, Working
<1>2. Progress(net, tunnel, 0)
  BY DEF IInv, SetUpOK
<1> QED BY <1>1, <1>2 DEF Progress, TunnelAsParsed

THEOREM TunnelAsParsedCorrect == Spec => []TunnelAsParsed
  BY AsParsed, Invariance, PTL

\* While a tunnel runs, it is what the document of this session grants: also when a
\* process killed earlier left its interface, address and route behind
\* (tsp_setup.c:131-246), and whatever the documents that were parsed before have left
\* in the parser's tables (xmlparse.c:203-226).
THEOREM TunnelAsGrantedCorrect == Spec => []TunnelAsGranted
<1>1. IInv => TunnelAsGranted
  <2> SUFFICES ASSUME IInv, pc = "loop", ~ghost.faulty, WellFormed(ghost.granted) PROVE TunnelAsGranted
    BY DEF TunnelAsGranted
  <2>1. /\ ghost.granted \in Answers /\ Parsed(ghost.granted, tunnel)
        /\ validate_tunnel_info(tunnel) /\ tunnel.type \in {"v6v4", "v6udpv4"}
    BY AsParsed DEF TunnelAsParsed, AsAnswered, IInv, SetUpOK
  <2>2. /\ tunnel.type # NULL /\ tunnel.client_address_ipv6 # NULL
        /\ tunnel.server_address_ipv4 # NULL
    BY <2>1 DEF NULL, validate_tunnel_info, IsAll
  <2>3. /\ GrantedType = {tunnel.type}
        /\ GrantedAddress("client", "ipv6") = {tunnel.client_address_ipv6}
        /\ GrantedAddress("server", "ipv4") = {tunnel.server_address_ipv4}
    BY <2>1, <2>2, ParsedAsGranted DEF GrantedType, GrantedAddress, Given, Types, ClientAt, ServerAt
  <2> QED BY <2>3, AsParsed DEF TunnelAsParsed, TunnelAsGranted
<1> QED BY <1>1, Invariance, PTL
-----------------------------------------------------------------------------
(* A key through the buffer, the numbers and base64, and back.              *)

Octets == 0 .. 255

\* What a counted string is in the buffer.
Counted(d) == PUT_32BIT(Len(d)) \o d

Buffers == [buf : Seq(Int), alloc : Nat, offset : Nat, end : Nat]

\* The data of buffer b begins with s.
Holds(b, s) ==
  /\ b \in Buffers
  /\ b.offset + Len(s) <= b.end /\ b.end <= Len(b.buf)
  /\ \A i \in 1 .. Len(s) : b.buf[b.offset + i] = s[i]

\* Buffer b was filled with s, and nothing was read.
Filled(b, s) == Holds(b, s) /\ b.offset = 0 /\ b.end = Len(s) /\ b.alloc = Len(b.buf)

LEMMA OctetsAreIntegers == \A s \in Seq(Octets) : s \in Seq(Int)
<1>1. Octets \subseteq Int
  BY DEF Octets
<1> SUFFICES ASSUME NEW s \in Seq(Octets) PROVE s \in Seq(Int)
  OBVIOUS
<1>2. Len(s) \in Nat /\ s \in [1 .. Len(s) -> Octets]
  OBVIOUS
<1>3. s \in [1 .. Len(s) -> Int]
  BY <1>1, <1>2
<1> QED BY <1>2, <1>3

\* The recursive functions that write a number as octets and read it: each of them
\* exists, since there is no least argument for which it does not, and the reader has
\* only one value.
Writes(f, v) == f = [n \in 0 .. v |-> IF n = 0 THEN <<>> ELSE Append(f[n \div 256], n % 256)]
Values(f, s, m) == f = [i \in 0 .. m |-> IF i = 0 THEN 0 ELSE f[i - 1] * 256 + s[i]]

LEMMA Remainders ==
  ASSUME NEW n \in Nat, n # 0
  PROVE  /\ n \div 256 \in Nat /\ n \div 256 < n /\ n % 256 \in Octets
         /\ (n \div 256) * 256 + (n % 256) = n
  BY SMT DEF Octets

LEMMA WritesExists == \A v \in Nat : \E f : Writes(f, v)
<1> DEFINE T == {v \in Nat : ~\E f : Writes(f, v)}
<1> SUFFICES ASSUME T # {} PROVE FALSE
  OBVIOUS
<1>1. PICK m \in T : \A y \in T : m <= y
  BY LeastNumber
<1>2. m \in Nat /\ ~\E f : Writes(f, m)
  OBVIOUS
<1>3. CASE m = 0
  <2> DEFINE f == [n \in 0 .. 0 |-> <<>>]
  <2>1. Writes(f, m)
    BY <1>3 DEF Writes
  <2> QED BY <1>2, <2>1
<1>4. CASE m # 0
  <2>1. m - 1 \in Nat /\ ~(m <= m - 1)
    BY <1>2, <1>4
  <2>2. m - 1 \notin T
    BY <1>1, <2>1
  <2>3. PICK f : Writes(f, m - 1)
    BY <2>1, <2>2
  <2> HIDE DEF T
  <2> DEFINE g == [n \in 0 .. m |-> IF n = m THEN Append(f[m \div 256], m % 256) ELSE f[n]]
  <2>4. ASSUME NEW n \in 0 .. m
        PROVE  g[n] = IF n = 0 THEN <<>> ELSE Append(g[n \div 256], n % 256)
    <3>1. CASE n = 0
      <4>1. g[n] = f[0]
        BY <1>2, <1>4, <3>1
      <4>2. f[0] = <<>>
        BY <1>2, <1>4, <2>3 DEF Writes
      <4> QED BY <3>1, <4>1, <4>2
    <3>2. CASE n # 0
      <4>1. n \in Nat /\ n \div 256 \in Nat /\ n \div 256 < n /\ n <= m
        BY <1>2, <3>2, Remainders
      <4> DEFINE q == n \div 256
      <4>2. q \in 0 .. m /\ q # m /\ q \in 0 .. m - 1
        BY <1>2, <4>1
      <4>3. g[q] = f[q]
        BY <4>2
      <4>4. g[n] = Append(f[q], n % 256)
        <5>1. CASE n = m
          BY <5>1
        <5>2. CASE n # m
          <6>1. n \in 0 .. m - 1
            BY <1>2, <4>1, <5>2
          <6>2. f[n] = Append(f[q], n % 256)
            BY <2>3, <3>2, <6>1 DEF Writes
          <6> QED BY <5>2, <6>2
        <5> QED BY <5>1, <5>2
      <4> QED BY <3>2, <4>3, <4>4
    <3> QED BY <3>1, <3>2
  <2>5. Writes(g, m)
    <3>1. g = [n \in 0 .. m |-> g[n]]
      OBVIOUS
    <3> QED BY <2>4, <3>1 DEF Writes
  <2> QED BY <1>2, <2>5
<1> QED BY <1>3, <1>4

LEMMA OctetsWritten ==
  ASSUME NEW v \in Nat
  PROVE  \E f : /\ f[0] = <<>> /\ BN_bn2bin(v) = f[v]
                /\ \A n \in 1 .. v : f[n] = Append(f[n \div 256], n % 256)
<1> DEFINE f == CHOOSE octets : octets = [n \in 0 .. v |-> IF n = 0 THEN <<>>
                                           ELSE Append(octets[n \div 256], n % 256)]
<1>1. Writes(f, v)
  <2>1. \E g : g = [n \in 0 .. v |-> IF n = 0 THEN <<>> ELSE Append(g[n \div 256], n % 256)]
    BY WritesExists DEF Writes
  <2> QED BY <2>1 DEF Writes
<1>2. BN_bn2bin(v) = f[v]
  BY DEF BN_bn2bin
<1> HIDE DEF f
<1>3. \A n \in 0 .. v : f[n] = IF n = 0 THEN <<>> ELSE Append(f[n \div 256], n % 256)
  BY <1>1 DEF Writes
<1>4. 0 \in 0 .. v /\ \A n \in 1 .. v : n \in 0 .. v /\ n # 0
  OBVIOUS
<1>5. f[0] = <<>> /\ \A n \in 1 .. v : f[n] = Append(f[n \div 256], n % 256)
  BY Zenon, <1>3, <1>4
<1> QED BY <1>2, <1>5

LEMMA ValuesExists ==
  ASSUME NEW s
  PROVE  \A m \in Nat : \E f : Values(f, s, m)
<1> DEFINE T == {m \in Nat : ~\E f : Values(f, s, m)}
<1> SUFFICES ASSUME T # {} PROVE FALSE
  OBVIOUS
<1>1. PICK m \in T : \A y \in T : m <= y
  BY LeastNumber
<1>2. m \in Nat /\ ~\E f : Values(f, s, m)
  OBVIOUS
<1>3. CASE m = 0
  <2> DEFINE f == [i \in 0 .. 0 |-> 0]
  <2>1. Values(f, s, m)
    BY <1>3 DEF Values
  <2> QED BY <1>2, <2>1
<1>4. CASE m # 0
  <2>1. m - 1 \in Nat /\ ~(m <= m - 1)
    BY <1>2, <1>4
  <2>2. m - 1 \notin T
    BY <1>1, <2>1
  <2>3. PICK f : Values(f, s, m - 1)
    BY <2>1, <2>2
  <2> HIDE DEF T
  <2> DEFINE g == [i \in 0 .. m |-> IF i = m THEN f[m - 1] * 256 + s[m] ELSE f[i]]
  <2>4. ASSUME NEW i \in 0 .. m
        PROVE  g[i] = IF i = 0 THEN 0 ELSE g[i - 1] * 256 + s[i]
    <3>1. CASE i = 0
      <4>1. g[i] = f[0]
        BY <1>2, <1>4, <3>1
      <4>2. f[0] = 0
        BY <1>2, <1>4, <2>3 DEF Values
      <4> QED BY <3>1, <4>1, <4>2
    <3>2. CASE i # 0
      <4>1. i - 1 \in 0 .. m /\ i - 1 # m /\ i - 1 \in 0 .. m - 1
        BY <1>2, <3>2
      <4>2. g[i - 1] = f[i - 1]
        BY <4>1
      <4>3. g[i] = f[i - 1] * 256 + s[i]
        <5>1. CASE i = m
          BY <5>1
        <5>2. CASE i # m
          <6>1. i \in 0 .. m - 1
            BY <1>2, <5>2
          <6>2. f[i] = f[i - 1] * 256 + s[i]
            BY <2>3, <3>2, <6>1 DEF Values
          <6> QED BY <5>2, <6>2
        <5> QED BY <5>1, <5>2
      <4> QED BY <3>2, <4>2, <4>3
    <3> QED BY <3>1, <3>2
  <2>5. Values(g, s, m)
    <3>1. g = [i \in 0 .. m |-> g[i]]
      OBVIOUS
    <3> QED BY <2>4, <3>1 DEF Values
  <2> QED BY <1>2, <2>5
<1> QED BY <1>3, <1>4

LEMMA ValueIs ==
  ASSUME NEW s \in Seq(Int)
  PROVE  \E f : /\ f[0] = 0 /\ BN_bin2bn(s) = f[Len(s)]
                /\ \A i \in 1 .. Len(s) : f[i] = f[i - 1] * 256 + s[i]
<1> DEFINE f == CHOOSE value : value = [i \in 0 .. Len(s) |-> IF i = 0 THEN 0 ELSE value[i - 1] * 256 + s[i]]
<1>0. Len(s) \in Nat
  OBVIOUS
<1>1. Values(f, s, Len(s))
  <2>1. \E g : g = [i \in 0 .. Len(s) |-> IF i = 0 THEN 0 ELSE g[i - 1] * 256 + s[i]]
    BY <1>0, ValuesExists DEF Values
  <2> QED BY <2>1 DEF Values
<1>2. BN_bin2bn(s) = f[Len(s)]
  BY DEF BN_bin2bn
<1> HIDE DEF f
<1>3. \A i \in 0 .. Len(s) : f[i] = IF i = 0 THEN 0 ELSE f[i - 1] * 256 + s[i]
  BY <1>1 DEF Values
<1>4. f[0] = 0 /\ \A i \in 1 .. Len(s) : f[i] = f[i - 1] * 256 + s[i]
  BY <1>0, <1>3
<1> QED BY <1>2, <1>4

AddsUp(f, s, m) == f[0] = 0 /\ \A i \in 1 .. m : f[i] = f[i - 1] * 256 + s[i]

LEMMA OneValue ==
  ASSUME NEW f, NEW g, NEW s, NEW m \in Nat, AddsUp(f, s, m), AddsUp(g, s, m)
  PROVE  f[m] = g[m]
<1>0. /\ f[0] = g[0]
      /\ \A i \in 1 .. m : f[i] = f[i - 1] * 256 + s[i]
      /\ \A i \in 1 .. m : g[i] = g[i - 1] * 256 + s[i]
  BY DEF AddsUp
<1> DEFINE T == {i \in Nat : i <= m /\ f[i] # g[i]}
<1> SUFFICES ASSUME T # {} PROVE FALSE
  OBVIOUS
<1>1. PICK i \in T : \A y \in T : i <= y
  BY LeastNumber
<1>2. i \in Nat /\ i <= m /\ f[i] # g[i] /\ i # 0
  BY <1>0
<1>3. i - 1 \in Nat /\ i - 1 <= m /\ ~(i <= i - 1) /\ i \in 1 .. m
  BY <1>2
<1>4. i - 1 \notin T
  BY <1>1, <1>3
<1>5. f[i - 1] = g[i - 1]
  BY <1>3, <1>4
<1> QED BY <1>0, <1>2, <1>3, <1>5

LEMMA ValueAppended ==
  ASSUME NEW s \in Seq(Int), NEW d \in Int
  PROVE  BN_bin2bn(Append(s, d)) = BN_bin2bn(s) * 256 + d
<1> DEFINE t == Append(s, d)
           n == Len(s)
<1>1. t \in Seq(Int) /\ n \in Nat /\ Len(t) = n + 1 /\ t[n + 1] = d /\ \A i \in 1 .. n : t[i] = s[i]
  OBVIOUS
<1> HIDE DEF t
<1>2. PICK f : /\ f[0] = 0 /\ BN_bin2bn(s) = f[n]
               /\ \A i \in 1 .. n : f[i] = f[i - 1] * 256 + s[i]
  BY ValueIs
<1>3. PICK g : /\ g[0] = 0 /\ BN_bin2bn(t) = g[n + 1]
               /\ \A i \in 1 .. n + 1 : g[i] = g[i - 1] * 256 + t[i]
  BY <1>1, ValueIs
<1> HIDE DEF n
<1>4. \A i \in 1 .. n : g[i] = g[i - 1] * 256 + s[i]
  BY <1>1, <1>3
<1>5. f[n] = g[n]
  <2>1. AddsUp(f, s, n)
    BY <1>2 DEF AddsUp
  <2>2. AddsUp(g, s, n)
    BY <1>3, <1>4 DEF AddsUp
  <2> QED BY <1>1, <2>1, <2>2, OneValue
<1>6. g[n + 1] = g[n] * 256 + d
  <2>1. n + 1 \in 1 .. n + 1 /\ (n + 1) - 1 = n
    BY <1>1
  <2> QED BY <1>1, <1>3, <2>1
<1> QED BY <1>2, <1>3, <1>5, <1>6 DEF t

\* A number is read back from its octets.
LEMMA NumberIs ==
  ASSUME NEW v \in Nat
  PROVE  BN_bn2bin(v) \in Seq(Octets) /\ BN_bin2bn(BN_bn2bin(v)) = v
<1>1. PICK f : /\ f[0] = <<>> /\ BN_bn2bin(v) = f[v]
               /\ \A n \in 1 .. v : f[n] = Append(f[n \div 256], n % 256)
  BY ZenonT(40), OctetsWritten
<1> DEFINE T == {n \in Nat : n <= v /\ ~(f[n] \in Seq(Octets) /\ BN_bin2bn(f[n]) = n)}
<1>2. ASSUME T # {} PROVE FALSE
  <2>1. PICK m \in T : \A y \in T : m <= y
    BY <1>2, LeastNumber
  <2>2. m \in Nat /\ m <= v /\ ~(f[m] \in Seq(Octets) /\ BN_bin2bn(f[m]) = m)
    OBVIOUS
  <2>3. CASE m = 0
    <3>1. <<>> \in Seq(Octets) /\ <<>> \in Seq(Int) /\ Len(<<>>) = 0
      OBVIOUS
    <3>2. BN_bin2bn(<<>>) = 0
      <4>1. PICK h : h[0] = 0 /\ BN_bin2bn(<<>>) = h[Len(<<>>)]
        BY <3>1, ValueIs
      <4> QED BY <3>1, <4>1
    <3> QED BY <1>1, <2>2, <2>3, <3>1, <3>2
  <2>4. CASE m # 0
    <3> DEFINE q == m \div 256
               d == m % 256
    <3>1. q \in Nat /\ q < m /\ d \in Octets /\ q * 256 + d = m
      BY <2>2, <2>4, Remainders
    <3> HIDE DEF q, d
    <3>2. q \notin T /\ q <= v
      BY <2>1, <2>2, <3>1
    <3>3. f[q] \in Seq(Octets) /\ BN_bin2bn(f[q]) = q
      BY <3>1, <3>2
    <3>4. m \in 1 .. v
      BY <2>2, <2>4
    <3>5. f[m] = Append(f[q], d)
      BY <1>1, <3>4 DEF q, d
    <3>6. f[q] \in Seq(Int) /\ d \in Int
      <4>1. d \in Int
        BY <3>1 DEF Octets
      <4> QED BY <3>3, <4>1, OctetsAreIntegers
    <3>7. f[m] \in Seq(Octets)
      BY <3>1, <3>3, <3>5
    <3>8. BN_bin2bn(f[m]) = m
      BY ZenonT(40), <3>1, <3>3, <3>5, <3>6, ValueAppended
    <3> QED BY <2>2, <3>7, <3>8
  <2> QED BY <2>3, <2>4
<1>3. v \notin T
  BY <1>2
<1> QED BY <1>1, <1>3

LEMMA LengthIs ==
  ASSUME NEW n \in Nat, n <= 255
  PROVE  PUT_32BIT(n) = <<0, 0, 0, n>> /\ GET_32BIT(<<0, 0, 0, n>>) = n
  BY SMT DEF PUT_32BIT, GET_32BIT, Garbage

LEMMA Length == \A s \in Seq(Int) : Len(s) \in Nat
  OBVIOUS

LEMMA Slice ==
  ASSUME NEW s \in Seq(Int), NEW m \in Nat, NEW n \in Nat, m + n <= Len(s)
  PROVE  /\ SubSeq(s, m + 1, m + n) \in Seq(Int) /\ Len(SubSeq(s, m + 1, m + n)) = n
         /\ \A i \in 1 .. n : SubSeq(s, m + 1, m + n)[i] = s[m + i]
  OBVIOUS

LEMMA Same ==
  ASSUME NEW s \in Seq(Int), NEW t \in Seq(Int), Len(s) = Len(t), \A i \in 1 .. Len(s) : s[i] = t[i]
  PROVE  s = t
  OBVIOUS

LEMMA Joined ==
  ASSUME NEW s \in Seq(Int), NEW t \in Seq(Int)
  PROVE  /\ s \o t \in Seq(Int) /\ Len(s \o t) = Len(s) + Len(t)
         /\ \A i \in 1 .. Len(s) : (s \o t)[i] = s[i]
         /\ \A i \in 1 .. Len(t) : (s \o t)[Len(s) + i] = t[i]
  OBVIOUS

LEMMA Appended ==
  ASSUME NEW b, NEW s \in Seq(Int), NEW d \in Seq(Int), Filled(b, s),
         b.alloc + Len(d) + BUFFER_GROWTH <= MAX_ALLOC
  PROVE  /\ Filled(buffer_append(b, d), s \o d)
         /\ buffer_append(b, d).alloc <= b.alloc + Len(d) + BUFFER_GROWTH
<1> DEFINE r == MakeRoom(b, Len(d))
<1>1. b \in Buffers /\ b.offset = 0 /\ b.end = Len(s) /\ b.alloc = Len(b.buf) /\ b.end <= b.alloc
  BY DEF Filled, Holds
<1>2. (IF b.offset = b.end THEN buffer_clear(b) ELSE b) = b
  BY <1>1 DEF buffer_clear, Buffers
<1>3. ~(b.offset > b.alloc \div 2)
  BY <1>1 DEF Buffers
<1>4. r = IF Fits(b, Len(d)) THEN b ELSE Grow(b, Len(d))
  BY <1>2, <1>3 DEF MakeRoom
<1>5. /\ r \in Buffers /\ r.offset = 0 /\ r.end = Len(s) /\ r.alloc = Len(r.buf) /\ r # Exited
      /\ r.end + Len(d) <= r.alloc /\ r.alloc <= b.alloc + Len(d) + BUFFER_GROWTH
      /\ \A i \in 1 .. Len(s) : r.buf[i] = s[i]
  <2>1. CASE Fits(b, Len(d))
    <3>1. b # Exited
      BY <1>1 DEF Exited, Buffers
    <3>2. \A i \in 1 .. Len(s) : b.buf[i] = s[i]
      BY <1>1 DEF Filled, Holds
    <3> QED BY <1>1, <1>4, <2>1, <3>1, <3>2, BufferAssumption DEF Fits, Buffers
  <2>2. CASE ~Fits(b, Len(d))
    <3> DEFINE newlen == b.alloc + Len(d) + BUFFER_GROWTH
               more == [i \in 1 .. newlen - b.alloc |-> Garbage]
    <3>1. newlen \in Nat /\ newlen > b.alloc /\ more \in Seq(Int) /\ Len(more) = newlen - b.alloc
      BY <1>1, BufferAssumption DEF Buffers, Garbage
    <3>2. r = [b EXCEPT !.alloc = newlen, !.buf = b.buf \o more]
      BY <1>4, <2>2, <3>1, BufferAssumption DEF Grow
    <3> HIDE DEF more
    <3>3. /\ b.buf \o more \in Seq(Int) /\ Len(b.buf \o more) = newlen
          /\ \A i \in 1 .. Len(b.buf) : (b.buf \o more)[i] = b.buf[i]
        <4>1. b.buf \in Seq(Int) /\ Len(b.buf) = b.alloc /\ b.alloc \in Nat
        BY <1>1 DEF Buffers
      <4>2. \A i \in 1 .. Len(b.buf) : (b.buf \o more)[i] = b.buf[i]
        BY <3>1, <4>1, Joined
      <4>3. b.buf \o more \in Seq(Int) /\ Len(b.buf \o more) = Len(b.buf) + Len(more)
        BY <3>1, <4>1, Joined
      <4> QED BY <3>1, <4>1, <4>2, <4>3
    <3>4. \A i \in 1 .. Len(s) : b.buf[i] = s[i] /\ i \in 1 .. Len(b.buf)
      BY <1>1 DEF Filled, Holds
    <3>5. r \in Buffers /\ r.buf = b.buf \o more /\ r.alloc = newlen /\ r.offset = 0 /\ r.end = Len(s)
      BY <1>1, <3>1, <3>2, <3>3 DEF Buffers
    <3>6. r # Exited
      BY <3>1, <3>5 DEF Exited, Buffers
    <3> QED BY <1>1, <3>1, <3>3, <3>4, <3>5, <3>6, BufferAssumption DEF Buffers
  <2> QED BY <2>1, <2>2
<1> DEFINE new == SubSeq(r.buf, 1, r.end) \o d \o SubSeq(r.buf, r.end + Len(d) + 1, r.alloc)
<1>6. buffer_append(b, d) = [r EXCEPT !.buf = new, !.end = r.end + Len(d)]
  BY <1>5 DEF buffer_append
<1> HIDE DEF r
<1>7. /\ new \in Seq(Int) /\ Len(new) = r.alloc
      /\ \A i \in 1 .. Len(s) : new[i] = s[i]
      /\ \A i \in 1 .. Len(d) : new[Len(s) + i] = d[i]
  <2> DEFINE front == SubSeq(r.buf, 1, r.end)
             back == SubSeq(r.buf, r.end + Len(d) + 1, r.alloc)
  <2>1. front \in Seq(Int) /\ Len(front) = Len(s) /\ \A i \in 1 .. Len(s) : front[i] = s[i]
    BY <1>5 DEF Buffers
  <2>2. back \in Seq(Int) /\ Len(back) = r.alloc - (Len(s) + Len(d))
    BY <1>5 DEF Buffers
  <2> HIDE DEF front, back
  <2>3. new = front \o d \o back
    BY DEF front, back
  <2> HIDE DEF new
  <2>4. Len(front \o d) = Len(s) + Len(d) /\ front \o d \in Seq(Int)
    BY <2>1, Joined
  <2>5. \A i \in 1 .. Len(s) : (front \o d)[i] = s[i]
    BY <2>1, Joined
  <2>6. \A i \in 1 .. Len(d) : (front \o d)[Len(s) + i] = d[i]
    BY <2>1, Joined
  <2>7. new \in Seq(Int) /\ Len(new) = Len(front \o d) + Len(back)
        /\ \A i \in 1 .. Len(front \o d) : new[i] = (front \o d)[i]
    BY <2>2, <2>3, <2>4, Joined
  <2>8. Len(new) = r.alloc
    BY <1>5, <2>2, <2>4, <2>7 DEF Buffers
  <2>9. \A i \in 1 .. Len(s) : i \in 1 .. Len(front \o d)
    BY <2>4
  <2>10. \A i \in 1 .. Len(d) : Len(s) + i \in 1 .. Len(front \o d)
    BY <2>4
  <2> QED BY <2>5, <2>6, <2>7, <2>8, <2>9, <2>10
<1> HIDE DEF new
<1>8. Len(s \o d) = Len(s) + Len(d) /\ \A i \in 1 .. Len(s \o d) : new[i] = (s \o d)[i]
  <2>1. Len(s \o d) = Len(s) + Len(d)
    BY Joined
  <2>2. \A i \in 1 .. Len(s \o d) : i \in 1 .. Len(s) \/ (i - Len(s) \in 1 .. Len(d) /\ i = Len(s) + (i - Len(s)))
    BY <2>1
  <2> QED BY <1>7, <2>1, <2>2, Joined
<1> DEFINE e == buffer_append(b, d)
<1>9. /\ e.buf = new /\ e.offset = 0 /\ e.end = Len(s) + Len(d) /\ e.alloc = r.alloc
      /\ e \in Buffers
  <2>1. r.end + Len(d) \in Nat /\ r.end + Len(d) = Len(s) + Len(d)
    BY <1>5
  <2>2. new \in Seq(Int) /\ r \in [buf : Seq(Int), alloc : Nat, offset : Nat, end : Nat] /\ r.offset = 0
    BY <1>5, <1>7 DEF Buffers
  <2>3. e = [r EXCEPT !.buf = new, !.end = r.end + Len(d)]
    BY <1>6
  <2> QED BY <2>1, <2>2, <2>3 DEF Buffers
<1> HIDE DEF e
<1>10. Filled(e, s \o d)
  BY SMTT(30), <1>5, <1>7, <1>8, <1>9 DEF Filled, Holds, Buffers
<1> QED BY <1>5, <1>9, <1>10 DEF e

LEMMA JoinedOctets ==
  ASSUME NEW s \in Seq(Octets), NEW t \in Seq(Octets)
  PROVE  s \o t \in Seq(Octets) /\ Len(s \o t) = Len(s) + Len(t)
  OBVIOUS

LEMMA Associative ==
  ASSUME NEW s \in Seq(Int), NEW t \in Seq(Int), NEW u \in Seq(Int)
  PROVE  (s \o t) \o u = s \o (t \o u)
  OBVIOUS

LEMMA CountedIs ==
  ASSUME NEW d \in Seq(Int), Len(d) <= 255
  PROVE  /\ PUT_32BIT(Len(d)) = <<0, 0, 0, Len(d)>> /\ PUT_32BIT(Len(d)) \in Seq(Int)
         /\ Counted(d) \in Seq(Int) /\ Len(Counted(d)) = 4 + Len(d)
<1>1. PUT_32BIT(Len(d)) = <<0, 0, 0, Len(d)>>
  BY Length, LengthIs
<1>2. <<0, 0, 0, Len(d)>> \in Seq(Int) /\ Len(<<0, 0, 0, Len(d)>>) = 4
  OBVIOUS
<1> QED BY <1>1, <1>2, Joined DEF Counted

LEMMA StringPut ==
  ASSUME NEW b, NEW s \in Seq(Int), NEW d \in Seq(Int), Filled(b, s), Len(d) <= 255,
         b.alloc + 4 + Len(d) + 2 * BUFFER_GROWTH <= MAX_ALLOC
  PROVE  /\ Filled(buffer_put_string(b, d), s \o Counted(d))
         /\ buffer_put_string(b, d).alloc <= b.alloc + 4 + Len(d) + 2 * BUFFER_GROWTH
<1> DEFINE n == PUT_32BIT(Len(d))
           c == buffer_append(b, n)
<1>1. n \in Seq(Int) /\ Len(n) = 4 /\ Counted(d) = n \o d
  <2>1. n = <<0, 0, 0, Len(d)>> /\ n \in Seq(Int)
    BY CountedIs
  <2> QED BY <2>1 DEF Counted
<1>2. buffer_put_string(b, d) = buffer_append(c, d)
  BY DEF buffer_put_string, buffer_put_int
<1>3. b.alloc \in Nat /\ BUFFER_GROWTH \in Nat /\ MAX_ALLOC \in Nat /\ Len(d) \in Nat
  BY Length, BufferAssumption DEF Filled, Holds, Buffers
<1> HIDE DEF n
<1>4. b.alloc + Len(n) + BUFFER_GROWTH <= MAX_ALLOC
  BY <1>1, <1>3
<1>5. Filled(c, s \o n) /\ c.alloc <= b.alloc + Len(n) + BUFFER_GROWTH
  BY <1>1, <1>4, Appended
<1> HIDE DEF c
<1>6. c.alloc \in Nat
  BY <1>5 DEF Filled, Holds, Buffers
<1>7. s \o n \in Seq(Int)
  BY <1>1, Joined
<1>8. c.alloc + Len(d) + BUFFER_GROWTH <= MAX_ALLOC
  <2>1. c.alloc <= b.alloc + 4 + BUFFER_GROWTH
    BY <1>1, <1>5
  <2> QED BY SMTT(30), <1>3, <1>6, <2>1
<1>9. Filled(buffer_append(c, d), (s \o n) \o d)
      /\ buffer_append(c, d).alloc <= c.alloc + Len(d) + BUFFER_GROWTH
  BY <1>5, <1>7, <1>8, Appended
<1>10. (s \o n) \o d = s \o Counted(d)
  <2>1. (s \o n) \o d = s \o (n \o d)
    BY <1>1, Associative
  <2> QED BY <1>1, <2>1
<1>11. buffer_append(c, d).alloc \in Nat
  BY <1>9 DEF Filled, Holds, Buffers
<1>12. buffer_append(c, d).alloc <= b.alloc + 4 + Len(d) + 2 * BUFFER_GROWTH
  <2>1. c.alloc <= b.alloc + 4 + BUFFER_GROWTH
    BY <1>1, <1>5
  <2>2. buffer_append(c, d).alloc <= c.alloc + Len(d) + BUFFER_GROWTH
    BY <1>9
  <2> HIDE DEF c
  <2> DEFINE x == buffer_append(c, d).alloc
             y == c.alloc
             z == b.alloc
             l == Len(d)
  <2>3. x \in Nat /\ y \in Nat /\ z \in Nat /\ l \in Nat /\ y <= z + 4 + BUFFER_GROWTH /\ x <= y + l + BUFFER_GROWTH
    BY <1>3, <1>6, <1>11, <2>1, <2>2
  <2> HIDE DEF x, y, z, l
  <2>4. x <= z + 4 + l + 2 * BUFFER_GROWTH
    BY <1>3, <2>3
  <2> QED BY <2>4 DEF x, z, l
<1> QED BY <1>2, <1>9, <1>10, <1>12

LEMMA BytesRead ==
  ASSUME NEW b, NEW d \in Seq(Int), NEW s \in Seq(Int), Holds(b, d \o s)
  PROVE  /\ buffer_get(b, Len(d)).value = d /\ Holds(buffer_get(b, Len(d)).buf, s)
         /\ Len(d) <= buffer_len(b) /\ buffer_len(b) \in Nat
         /\ SubSeq(buffer_ptr(b), 1, Len(d)) = d
         /\ buffer_get(b, Len(d)).buf = buffer_consume(b, Len(d))
<1> DEFINE m == b.offset
           n == Len(d)
           u == SubSeq(b.buf, m + 1, m + n)
           c == [b EXCEPT !.offset = m + n]
           p == buffer_ptr(b)
<1>1. /\ b \in Buffers /\ m \in Nat /\ b.end \in Nat /\ b.buf \in Seq(Int) /\ n \in Nat /\ Len(s) \in Nat
      /\ Len(b.buf) \in Nat
  BY Length DEF Holds, Buffers
<1>2. /\ Len(d \o s) = n + Len(s)
      /\ \A i \in 1 .. n : i \in 1 .. Len(d \o s) /\ (d \o s)[i] = d[i]
      /\ \A i \in 1 .. Len(s) : n + i \in 1 .. Len(d \o s) /\ (d \o s)[n + i] = s[i]
  <2>1. Len(d \o s) = n + Len(s)
    BY Joined
  <2> QED BY <1>1, <2>1, Joined
<1>3. /\ m + n + Len(s) <= b.end /\ b.end <= Len(b.buf)
      /\ \A i \in 1 .. n : b.buf[m + i] = d[i]
      /\ \A i \in 1 .. Len(s) : b.buf[m + (n + i)] = s[i]
  <2>1. m + (n + Len(s)) <= b.end /\ b.end <= Len(b.buf)
    BY <1>2 DEF Holds
  <2>2. \A i \in 1 .. Len(d \o s) : b.buf[m + i] = (d \o s)[i]
    BY DEF Holds
  <2>3. \A i \in 1 .. Len(s) : b.buf[m + (n + i)] = s[i]
    BY <1>2, <2>2
  <2>4. \A i \in 1 .. n : b.buf[m + i] = d[i]
    BY <1>2, <2>2
  <2>5. m + n + Len(s) <= b.end
    BY <1>1, <2>1
  <2> QED BY <2>1, <2>3, <2>4, <2>5
<1>4. n <= buffer_len(b) /\ buffer_len(b) \in Nat /\ ~(n > buffer_len(b))
  BY <1>1, <1>3 DEF buffer_len
<1>5. /\ buffer_get(b, n).value = u
      /\ buffer_get(b, n).buf = buffer_consume(b, n) /\ buffer_consume(b, n) = c
  BY <1>4 DEF buffer_get, buffer_consume
<1>6. m + n <= Len(b.buf)
  BY <1>1, <1>3
<1>7. u = d
  <2>1. u \in Seq(Int) /\ Len(u) = n /\ \A i \in 1 .. n : u[i] = b.buf[m + i]
    BY <1>1, <1>6, Slice
  <2> HIDE DEF u
  <2> QED BY <1>3, <2>1, Same
<1>8. Holds(c, s)
  <2> HIDE DEF n
  <2>1. m + n \in Nat
    BY <1>1
  <2> HIDE DEF m
  <2>2. c \in Buffers /\ c.offset = m + n /\ c.buf = b.buf /\ c.end = b.end
    BY <1>1, <2>1 DEF Buffers
  <2> HIDE DEF c, m
  <2>3. \A i \in 1 .. Len(s) : b.buf[(m + n) + i] = s[i]
    BY SMTT(30), <1>1, <1>3
  <2> QED BY <1>3, <2>2, <2>3 DEF Holds
<1>9. SubSeq(p, 1, n) = d
  <2> DEFINE size == b.end - m
  <2>1. size \in Nat /\ m + size = b.end /\ n <= size /\ m + size <= Len(b.buf)
    BY <1>1, <1>3
  <2>2. p = SubSeq(b.buf, m + 1, m + size)
    BY <2>1 DEF buffer_ptr
  <2> HIDE DEF size, p, m, n
  <2>3. p \in Seq(Int) /\ Len(p) = size /\ \A i \in 1 .. size : p[i] = b.buf[m + i]
    BY <1>1, <2>1, <2>2, Slice
  <2>4. SubSeq(p, 0 + 1, 0 + n) \in Seq(Int) /\ Len(SubSeq(p, 0 + 1, 0 + n)) = n
        /\ \A i \in 1 .. n : SubSeq(p, 0 + 1, 0 + n)[i] = p[0 + i]
    <3>1. 0 + n <= Len(p) /\ 0 \in Nat
      BY <1>1, <2>1, <2>3
    <3> QED BY <1>1, <2>3, <3>1, Slice
  <2>5. \A i \in 1 .. n : i \in 1 .. size /\ 0 + i = i
    BY <1>1, <2>1
  <2>6. 0 + 1 = 1 /\ 0 + n = n
    BY <1>1
  <2>7. \A i \in 1 .. n : SubSeq(p, 1, n)[i] = d[i]
    BY ZenonT(40), <1>3, <2>3, <2>4, <2>5, <2>6
  <2>8. Len(d) = n
    BY DEF n
  <2> QED BY <2>4, <2>6, <2>7, <2>8, Same
<1> QED BY <1>4, <1>5, <1>7, <1>8, <1>9

LEMMA IntRead ==
  ASSUME NEW b, NEW n \in Nat, n <= 255, NEW s \in Seq(Int), Holds(b, PUT_32BIT(n) \o s)
  PROVE  buffer_get_int(b).value = n /\ Holds(buffer_get_int(b).buf, s)
<1> DEFINE d == <<0, 0, 0, n>>
           r == buffer_get(b, 4)
<1>1. PUT_32BIT(n) = d /\ GET_32BIT(d) = n
  BY LengthIs
<1>2. d \in Seq(Int) /\ Len(d) = 4
  OBVIOUS
<1> HIDE DEF d
<1>3. buffer_get(b, Len(d)).value = d /\ Holds(buffer_get(b, Len(d)).buf, s)
  BY <1>1, <1>2, BytesRead
<1>4. buffer_get_int(b) = [r EXCEPT !.value = GET_32BIT(r.value)]
  BY DEF buffer_get_int
<1>5. r = [value |-> r.value, buf |-> r.buf]
  BY DEF buffer_get
<1>6. r.value = d /\ Holds(r.buf, s)
  BY <1>2, <1>3
<1> HIDE DEF r
<1> QED BY <1>1, <1>4, <1>5, <1>6

LEMMA CountedRead ==
  ASSUME NEW b, NEW d \in Seq(Int), NEW s \in Seq(Int), Holds(b, Counted(d) \o s), Len(d) <= 255
  PROVE  buffer_get_int(b).value = Len(d) /\ Holds(buffer_get_int(b).buf, d \o s)
<1>1. PUT_32BIT(Len(d)) \in Seq(Int) /\ d \o s \in Seq(Int) /\ Len(d) \in Nat
  BY CountedIs, Joined, Length
<1>2. Counted(d) \o s = PUT_32BIT(Len(d)) \o (d \o s)
  BY <1>1, Associative DEF Counted
<1> QED BY <1>1, <1>2, IntRead

LEMMA StringRead ==
  ASSUME NEW b, NEW d \in Seq(Int), NEW s \in Seq(Int), Holds(b, Counted(d) \o s), Len(d) <= 255,
         Len(d) <= MAX_ALLOC
  PROVE  buffer_get_string(b).value = d /\ Holds(buffer_get_string(b).buf, s)
<1> DEFINE len == buffer_get_int(b)
<1>1. len.value = Len(d) /\ Holds(len.buf, d \o s) /\ Len(d) \in Nat
  BY CountedRead, Length
<1>2. ~(len.value = Garbage \/ len.value > MAX_ALLOC)
  BY <1>1, BufferAssumption DEF Garbage
<1>3. buffer_get_string(b) = buffer_get(len.buf, Len(d))
  BY <1>1, <1>2 DEF buffer_get_string
<1> HIDE DEF len
<1> QED BY <1>1, <1>3, BytesRead

LEMMA NumberRead ==
  ASSUME NEW b, NEW v \in BigNumbers, NEW s \in Seq(Int), Holds(b, Counted(BN_bn2bin(v)) \o s)
  PROVE  buffer_get_bignum(b).value = v /\ Holds(buffer_get_bignum(b).buf, s)
<1> DEFINE d == BN_bn2bin(v)
           bytes == buffer_get_int(b)
<1>1. d \in Seq(Int) /\ Len(d) <= 255 /\ BN_bin2bn(d) = v
  <2>1. v \in Nat /\ Len(d) <= 128
    BY DEF BigNumbers
  <2>2. d \in Seq(Octets) /\ BN_bin2bn(d) = v
    BY <2>1, NumberIs
  <2> HIDE DEF d
  <2>3. d \in Seq(Int) /\ Len(d) \in Nat
    BY <2>2, OctetsAreIntegers, Length
  <2> QED BY <2>1, <2>2, <2>3
<1>2. Holds(b, Counted(d) \o s)
  OBVIOUS
<1> HIDE DEF d
<1>3. bytes.value = Len(d) /\ Holds(bytes.buf, d \o s) /\ Len(d) \in Nat
  BY <1>1, <1>2, CountedRead, Length
<1>4. /\ buffer_get(bytes.buf, Len(d)).buf = buffer_consume(bytes.buf, Len(d))
      /\ Holds(buffer_get(bytes.buf, Len(d)).buf, s)
      /\ Len(d) <= buffer_len(bytes.buf) /\ buffer_len(bytes.buf) \in Nat
      /\ SubSeq(buffer_ptr(bytes.buf), 1, Len(d)) = d
  BY <1>1, <1>3, BytesRead
<1>5. ~(bytes.value = Garbage \/ buffer_len(bytes.buf) < bytes.value)
  <2>1. Len(d) # Garbage /\ ~(buffer_len(bytes.buf) < Len(d))
    BY <1>3, <1>4 DEF Garbage
  <2> QED BY <1>3, <2>1
<1>6. buffer_get_bignum(b) = [value |-> BN_bin2bn(SubSeq(buffer_ptr(bytes.buf), 1, bytes.value)),
                               buf   |-> buffer_consume(bytes.buf, bytes.value)]
  BY <1>5 DEF buffer_get_bignum
<1> HIDE DEF bytes
<1>7. buffer_get_bignum(b) = [value |-> v, buf |-> buffer_consume(bytes.buf, Len(d))]
  BY <1>1, <1>3, <1>4, <1>6
<1> QED BY <1>4, <1>7

-----------------------------------------------------------------------------
\* The octets and digits of base64encode.
Octet(s, i) == IF i <= Len(s) THEN s[i] ELSE 0
Digit(s, n, i) ==
  CASE n = 1 -> Octet(s, i) \div 4
    [] n = 2 -> (Octet(s, i) % 4) * 16 + Octet(s, i + 1) \div 16
    [] n = 3 -> IF i + 1 > Len(s) THEN Pad ELSE (Octet(s, i + 1) % 16) * 4 + Octet(s, i + 2) \div 64
    [] OTHER -> IF i + 2 > Len(s) THEN Pad ELSE Octet(s, i + 2) % 64

LEMMA OctetIs ==
  ASSUME NEW s \in Seq(Octets), NEW i \in Nat, 1 <= i
  PROVE  Octet(s, i) \in Int /\ 0 <= Octet(s, i) /\ Octet(s, i) <= 255
<1>1. \A o \in Octets : o \in Int /\ 0 <= o /\ o <= 255
  BY DEF Octets
<1>2. i <= Len(s) => s[i] \in Octets
  OBVIOUS
<1> QED BY <1>1, <1>2 DEF Octet

\* The four digits of three octets.
LEMMA DigitsAre ==
  ASSUME NEW s \in Seq(Octets), NEW i \in Nat, 1 <= i
  PROVE  /\ Digit(s, 1, i) = Octet(s, i) \div 4
         /\ Digit(s, 2, i) = (Octet(s, i) % 4) * 16 + (Octet(s, i + 1) \div 16)
         /\ i + 1 <= Len(s) => Digit(s, 3, i) = (Octet(s, i + 1) % 16) * 4 + (Octet(s, i + 2) \div 64)
         /\ i + 2 <= Len(s) => Digit(s, 4, i) = Octet(s, i + 2) % 64
         /\ ~(i + 1 <= Len(s)) => Digit(s, 3, i) = Pad
         /\ ~(i + 2 <= Len(s)) => Digit(s, 4, i) = Pad
         /\ \A n \in {1, 2, 3, 4} : Digit(s, n, i) \in Int
<1>1. Len(s) \in Nat
  OBVIOUS
<1>2. /\ Octet(s, i) \in Int /\ Octet(s, i + 1) \in Int /\ Octet(s, i + 2) \in Int
  BY OctetIs
<1>3. Pad \in Int
  BY DEF Pad
<1>4. Digit(s, 1, i) = Octet(s, i) \div 4
  BY DEF Digit
<1>5. Digit(s, 2, i) = (Octet(s, i) % 4) * 16 + (Octet(s, i + 1) \div 16)
  BY DEF Digit
<1>6. Digit(s, 3, i) = IF i + 1 > Len(s) THEN Pad ELSE (Octet(s, i + 1) % 16) * 4 + (Octet(s, i + 2) \div 64)
  BY DEF Digit
<1>7. Digit(s, 4, i) = IF i + 2 > Len(s) THEN Pad ELSE Octet(s, i + 2) % 64
  BY DEF Digit
<1>8. Digit(s, 1, i) \in Int /\ Digit(s, 2, i) \in Int
  BY <1>2, <1>4, <1>5
<1>9. Digit(s, 3, i) \in Int /\ Digit(s, 4, i) \in Int
  BY SMTT(30), <1>2, <1>3, <1>6, <1>7
<1> QED BY <1>1, <1>4, <1>5, <1>6, <1>7, <1>8, <1>9

\* Digits are less than 64, and three octets are computed from their digits.
LEMMA Groups ==
  ASSUME NEW a \in Int, NEW b \in Int, NEW c \in Int,
         0 <= a, a <= 255, 0 <= b, b <= 255, 0 <= c, c <= 255
  PROVE  LET w == a \div 4
             x == (a % 4) * 16 + (b \div 16)
             y == (b % 16) * 4 + (c \div 64)
             z == c % 64
         IN /\ w \in Int /\ x \in Int /\ y \in Int /\ z \in Int
            /\ 0 <= w /\ w <= 63 /\ 0 <= x /\ x <= 63 /\ 0 <= y /\ y <= 63 /\ 0 <= z /\ z <= 63
            /\ w * 4 + (x \div 16) = a
            /\ (x % 16) * 16 + (y \div 4) = b
            /\ (y % 4) * 64 + z = c
  BY SMT

LEMMA Encoded ==
  ASSUME NEW s \in Seq(Octets)
  PROVE  /\ base64encode(s) \in Seq(Int) /\ Len(base64encode(s)) = 4 * ((Len(s) + 2) \div 3)
         /\ \A j \in Nat : 3 * j + 1 <= Len(s) =>
              \A n \in {1, 2, 3, 4} : base64encode(s)[4 * j + n] = Digit(s, n, 3 * j + 1)
<1> DEFINE g == (Len(s) + 2) \div 3
           e == base64encode(s)
<1>1. Len(s) \in Nat
  OBVIOUS
<1>2. g \in Nat
  BY <1>1
<1>3. e = [k \in 1 .. 4 * g |-> Digit(s, 1 + ((k - 1) % 4), 1 + 3 * ((k - 1) \div 4))]
  BY DEF base64encode, Digit, Octet
<1> HIDE DEF e
<1>4. ASSUME NEW k \in 1 .. 4 * g
      PROVE  Digit(s, 1 + ((k - 1) % 4), 1 + 3 * ((k - 1) \div 4)) \in Int
  <2>1. k \in Int /\ 1 <= k
    BY <1>2
  <2>2. 1 + ((k - 1) % 4) \in {1, 2, 3, 4}
    BY <2>1
  <2>3. 1 + 3 * ((k - 1) \div 4) \in Nat /\ 1 <= 1 + 3 * ((k - 1) \div 4)
    BY <2>1
  <2> QED BY <2>2, <2>3, DigitsAre
<1>5. e \in Seq(Int) /\ Len(e) = 4 * g
  BY <1>2, <1>3, <1>4
<1>6. ASSUME NEW j \in Nat, 3 * j + 1 <= Len(s), NEW n \in {1, 2, 3, 4}
      PROVE  e[4 * j + n] = Digit(s, n, 3 * j + 1)
  <2> DEFINE k == 4 * j + n
  <2>1. n \in Int /\ 1 <= n /\ n <= 4
    OBVIOUS
  <2>2. 1 <= k /\ k <= 4 * g /\ k \in Int
    <3>1. j + 1 <= g
      BY <1>1, <1>6
    <3> QED BY <1>2, <2>1, <3>1
  <2>3. 1 + ((k - 1) % 4) = n
    BY <2>1
  <2>4. (k - 1) \div 4 = j
    BY <2>1
  <2>5. k \in 1 .. 4 * g
    BY <1>2, <2>2
  <2> HIDE DEF k
  <2>6. e[k] = Digit(s, n, 1 + 3 * j)
    BY <1>3, <2>3, <2>4, <2>5
  <2>7. 1 + 3 * j = 3 * j + 1
    OBVIOUS
  <2> QED BY <2>6, <2>7 DEF k
<1> QED BY <1>5, <1>6 DEF e

\* How many digits encode n octets, the padding left out.
DigitCount(n) == 4 * (n \div 3) + (IF n % 3 = 0 THEN 0 ELSE (n % 3) + 1)

\* What is in the line: digits as far as they go, then something that is none.
LEMMA LineIs ==
  ASSUME NEW s \in Seq(Octets), NEW host
  PROVE  LET text == freadline([host |-> host, text |-> base64encode(s)])
             m == DigitCount(Len(s))
         IN /\ text \in Seq(Int) /\ m \in Nat /\ m + 1 \in 1 .. Len(text) /\ Len(text) = Len(base64encode(s)) + 2
            /\ \A j \in Nat : 3 * j + 1 <= Len(s) =>
                 /\ text[4 * j + 1] = Digit(s, 1, 3 * j + 1) /\ 4 * j + 2 <= m
                 /\ text[4 * j + 2] = Digit(s, 2, 3 * j + 1)
                 /\ 3 * j + 2 <= Len(s) => text[4 * j + 3] = Digit(s, 3, 3 * j + 1) /\ 4 * j + 3 <= m
                 /\ 3 * j + 3 <= Len(s) => text[4 * j + 4] = Digit(s, 4, 3 * j + 1) /\ 4 * j + 4 <= m
            /\ \A i \in 1 .. m : text[i] \in Int /\ 0 <= text[i] /\ text[i] <= 63
            /\ text[m + 1] > 63
<1> DEFINE e == base64encode(s)
           n == Len(s)
           q == n \div 3
           r == n % 3
           g == (n + 2) \div 3
           m == DigitCount(n)
           text == freadline([host |-> host, text |-> e])
<1>1. n \in Nat
  OBVIOUS
<1>2. e \in Seq(Int) /\ Len(e) = 4 * g
  BY Encoded
<1>3. \A j \in Nat : 3 * j + 1 <= n => \A c \in {1, 2, 3, 4} : e[4 * j + c] = Digit(s, c, 3 * j + 1)
  BY Encoded
<1>4. text = e \o <<NewLine, NewLine>>
  BY DEF freadline
<1>5. <<NewLine, NewLine>> \in Seq(Int) /\ Len(<<NewLine, NewLine>>) = 2 /\ <<NewLine, NewLine>>[1] = 65
  BY DEF NewLine
<1> HIDE DEF e, n, text
<1>6. q \in Nat /\ r \in {0, 1, 2} /\ n = 3 * q + r /\ g \in Nat
  BY <1>1
<1>7. /\ r = 0 => m = 4 * q /\ g = q
      /\ r = 1 => m = 4 * q + 2 /\ g = q + 1
      /\ r = 2 => m = 4 * q + 3 /\ g = q + 1
  <2>1. r = 0 => m = 4 * q
    BY <1>6 DEF DigitCount
  <2>2. r = 1 => m = 4 * q + 2
    BY DEF DigitCount
  <2>3. r = 2 => m = 4 * q + 3
    BY DEF DigitCount
  <2>4. (r = 0 => g = q) /\ (r = 1 => g = q + 1) /\ (r = 2 => g = q + 1)
    BY <1>1
  <2> QED BY <2>1, <2>2, <2>3, <2>4
<1> HIDE DEF q, r, g, m
<1>8. m \in Nat /\ m <= 4 * g
  BY <1>6, <1>7
<1>9. /\ text \in Seq(Int) /\ Len(text) = 4 * g + 2 /\ text[4 * g + 1] = 65
      /\ \A i \in 1 .. 4 * g : text[i] = e[i]
  <2>1. 1 \in 1 .. 2
    OBVIOUS
  <2> QED BY <1>2, <1>4, <1>5, <2>1, Joined
<1>10. m + 1 \in 1 .. Len(text)
  BY <1>6, <1>8, <1>9
<1>11. ASSUME NEW j \in Nat, 3 * j + 1 <= n
       PROVE  /\ 4 * j + 4 <= 4 * g
              /\ 4 * j + 2 <= m
              /\ 3 * j + 2 <= n => 4 * j + 3 <= m
              /\ 3 * j + 3 <= n => 4 * j + 4 <= m
  <2>1. CASE r = 0
    BY <1>6, <1>7, <1>11, <2>1
  <2>2. CASE r = 1
    BY <1>6, <1>7, <1>11, <2>2
  <2>3. CASE r = 2
    BY <1>6, <1>7, <1>11, <2>3
  <2> QED BY <1>6, <2>1, <2>2, <2>3
<1>12. ASSUME NEW j \in Nat, 3 * j + 1 <= n, NEW c \in {1, 2, 3, 4}
       PROVE  text[4 * j + c] = Digit(s, c, 3 * j + 1)
  <2>1. c \in Nat /\ 1 <= c /\ c <= 4
    OBVIOUS
  <2>2. 4 * j + c \in 1 .. 4 * g
    BY <1>6, <1>11, <1>12, <2>1
  <2> QED BY <1>3, <1>9, <1>12, <2>2
<1>13. ASSUME NEW i \in 1 .. m
       PROVE  text[i] \in Int /\ 0 <= text[i] /\ text[i] <= 63
  <2> DEFINE j == (i - 1) \div 4
             c == 1 + ((i - 1) % 4)
  <2>1. i \in Int /\ 1 <= i /\ i <= m
    BY <1>8
  <2>2. j \in Nat /\ c \in {1, 2, 3, 4} /\ i = 4 * j + c
    BY <2>1
  <2> HIDE DEF j, c
  <2>3. /\ 3 * j + 1 <= n
        /\ c = 3 => 3 * j + 2 <= n
        /\ c = 4 => 3 * j + 3 <= n
    <3>1. c \in Int /\ 1 <= c /\ c <= 4
      BY <2>2
    <3>2. CASE r = 0
      BY <1>6, <1>7, <2>1, <2>2, <3>1, <3>2
    <3>3. CASE r = 1
      BY <1>6, <1>7, <2>1, <2>2, <3>1, <3>3
    <3>4. CASE r = 2
      BY <1>6, <1>7, <2>1, <2>2, <3>1, <3>4
    <3> QED BY <1>6, <3>2, <3>3, <3>4
  <2> DEFINE a == Octet(s, 3 * j + 1)
             b == Octet(s, 3 * j + 2)
             d == Octet(s, 3 * j + 3)
             at == 3 * j + 1
  <2>4. at \in Nat /\ 1 <= at /\ at + 1 = 3 * j + 2 /\ at + 2 = 3 * j + 3 /\ at + 1 \in Nat /\ at + 2 \in Nat
        /\ 1 <= at + 1 /\ 1 <= at + 2
    BY <2>2
  <2>5. /\ a \in Int /\ 0 <= a /\ a <= 255 /\ b \in Int /\ 0 <= b /\ b <= 255
        /\ d \in Int /\ 0 <= d /\ d <= 255
    BY <2>4, OctetIs
  <2>6. /\ Digit(s, 1, at) = a \div 4
        /\ Digit(s, 2, at) = (a % 4) * 16 + (b \div 16)
        /\ 3 * j + 2 <= n => Digit(s, 3, at) = (b % 16) * 4 + (d \div 64)
        /\ 3 * j + 3 <= n => Digit(s, 4, at) = d % 64
    BY ZenonT(40), <2>4, DigitsAre DEF n
  <2>7. text[i] = Digit(s, c, at)
    BY <1>12, <2>2, <2>3
  <2> HIDE DEF a, b, d, at
  <2>8. /\ a \div 4 \in Int /\ 0 <= a \div 4 /\ a \div 4 <= 63
        /\ (a % 4) * 16 + (b \div 16) \in Int /\ 0 <= (a % 4) * 16 + (b \div 16)
        /\ (a % 4) * 16 + (b \div 16) <= 63
        /\ (b % 16) * 4 + (d \div 64) \in Int /\ 0 <= (b % 16) * 4 + (d \div 64)
        /\ (b % 16) * 4 + (d \div 64) <= 63
        /\ d % 64 \in Int /\ 0 <= d % 64 /\ d % 64 <= 63
    BY <2>5, Groups
  <2>9. CASE c = 1
    BY <2>6, <2>7, <2>8, <2>9
  <2>10. CASE c = 2
    BY <2>6, <2>7, <2>8, <2>10
  <2>11. CASE c = 3
    BY <2>3, <2>6, <2>7, <2>8, <2>11
  <2>12. CASE c = 4
    BY <2>3, <2>6, <2>7, <2>8, <2>12
  <2> QED BY <2>2, <2>9, <2>10, <2>11, <2>12
<1>14. text[m + 1] > 63
  <2>1. CASE r = 0
    BY <1>6, <1>7, <1>9, <2>1
  <2>2. CASE r # 0
    <3> DEFINE at == 3 * q + 1
    <3>1. at \in Nat /\ 1 <= at /\ at <= n /\ (r = 1 => ~(at + 1 <= n)) /\ (r = 2 => ~(at + 2 <= n))
      BY <1>6, <2>2
    <3>2. (r = 1 => Digit(s, 3, at) = Pad) /\ (r = 2 => Digit(s, 4, at) = Pad)
      BY <3>1, DigitsAre DEF n
    <3>3. text[4 * q + 3] = Digit(s, 3, at) /\ text[4 * q + 4] = Digit(s, 4, at)
      BY <1>6, <1>12, <3>1
    <3>4. (r = 1 => m + 1 = 4 * q + 3) /\ (r = 2 => m + 1 = 4 * q + 4)
      BY <1>6, <1>7
    <3>5. text[m + 1] = Pad
      BY <1>6, <2>2, <3>2, <3>3, <3>4
    <3> QED BY <3>5 DEF Pad
  <2> QED BY <2>1, <2>2
<1>15. Len(text) = Len(e) + 2
  BY <1>2, <1>9
<1> QED BY <1>8, <1>9, <1>10, <1>11, <1>12, <1>13, <1>14, <1>15 DEF e, n, m, text

LEMMA CountIs ==
  ASSUME NEW n \in Nat
  PROVE  (3 * DigitCount(n)) \div 4 = n
<1> DEFINE q == n \div 3
           r == n % 3
           m == DigitCount(n)
<1>1. q \in Nat /\ r \in {0, 1, 2} /\ n = 3 * q + r
  OBVIOUS
<1>2. r = 0 => m = 4 * q
  BY <1>1 DEF DigitCount
<1>3. r = 1 => m = 4 * q + 2
  BY DEF DigitCount
<1>4. r = 2 => m = 4 * q + 3
  BY DEF DigitCount
<1> HIDE DEF q, r, m
<1>5. (3 * m) \div 4 = n
  <2>1. CASE r = 0
    BY <1>1, <1>2, <2>1
  <2>2. CASE r = 1
    BY <1>1, <1>3, <2>2
  <2>3. CASE r = 2
    BY <1>1, <1>4, <2>3
  <2> QED BY <1>1, <2>1, <2>2, <2>3
<1> QED BY <1>5 DEF m

\* What was encoded is decoded again, up to the last octet.
LEMMA Decoded ==
  ASSUME NEW s \in Seq(Octets), NEW host
  PROVE  base64decode(freadline([host |-> host, text |-> base64encode(s)])) = s
<1> DEFINE n == Len(s)
           m == DigitCount(n)
           text == freadline([host |-> host, text |-> base64encode(s)])
           first == CHOOSE i \in DOMAIN text : text[i] > 63 /\ \A j \in 1 .. i - 1 : text[j] <= 63
           nprbytes == IF \E i \in DOMAIN text : text[i] > 63 THEN first - 1 ELSE Len(text)
           pr2six(i) == IF i <= nprbytes THEN text[i] ELSE 0
           octet(k) == CASE k % 3 = 1 -> pr2six((4 * k) \div 3) * 4 + pr2six((4 * k) \div 3 + 1) \div 16
                         [] k % 3 = 2 -> (pr2six((4 * k) \div 3) % 16) * 16 + pr2six((4 * k) \div 3 + 1) \div 4
                         [] OTHER     -> (pr2six((4 * k) \div 3 - 1) % 4) * 64 + pr2six((4 * k) \div 3)
<1>1. /\ text \in Seq(Int) /\ m \in Nat /\ m + 1 \in 1 .. Len(text)
      /\ \A j \in Nat : 3 * j + 1 <= n =>
           /\ text[4 * j + 1] = Digit(s, 1, 3 * j + 1) /\ 4 * j + 2 <= m
           /\ text[4 * j + 2] = Digit(s, 2, 3 * j + 1)
           /\ 3 * j + 2 <= n => text[4 * j + 3] = Digit(s, 3, 3 * j + 1) /\ 4 * j + 3 <= m
           /\ 3 * j + 3 <= n => text[4 * j + 4] = Digit(s, 4, 3 * j + 1) /\ 4 * j + 4 <= m
      /\ \A i \in 1 .. m : text[i] \in Int /\ 0 <= text[i] /\ text[i] <= 63
      /\ text[m + 1] > 63
  BY LineIs
<1>2. base64decode(text) = [k \in 1 .. (3 * nprbytes) \div 4 |-> octet(k)]
  BY DEF base64decode
<1>3. n \in Nat /\ s \in [1 .. n -> Octets]
  OBVIOUS
<1> HIDE DEF text, n, m
<1>4. DOMAIN text = 1 .. Len(text) /\ Len(text) \in Nat
  BY <1>1
<1>5. first = m + 1
  <2>1. m + 1 \in DOMAIN text /\ text[m + 1] > 63 /\ \A j \in 1 .. (m + 1) - 1 : text[j] <= 63
    BY <1>1, <1>4
  <2>2. first \in DOMAIN text /\ text[first] > 63 /\ \A j \in 1 .. first - 1 : text[j] <= 63
    BY <2>1
  <2> HIDE DEF first
  <2>3. first \in Int /\ 1 <= first
    BY <1>4, <2>2
  <2>4. ~(first <= m)
    <3>1. \A i \in 1 .. m : text[i] \in Int /\ ~(text[i] > 63)
      BY <1>1
    <3> QED BY <1>1, <2>2, <2>3, <3>1
  <2>5. ~(m + 1 < first)
    <3>1. SUFFICES ASSUME m + 1 < first PROVE FALSE
      OBVIOUS
    <3>2. m + 1 \in 1 .. first - 1
      BY <1>1, <2>3, <3>1
    <3>3. text[m + 1] <= 63 /\ text[m + 1] \in Int
      BY <1>1, <2>2, <3>2
    <3> QED BY <1>1, <3>3
  <2> QED BY <1>1, <2>3, <2>4, <2>5
<1> HIDE DEF first
<1>6. nprbytes = m
  <2>1. \E i \in DOMAIN text : text[i] > 63
    BY <1>1, <1>4
  <2> QED BY <1>1, <1>5, <2>1
<1> HIDE DEF nprbytes
<1>7. \A i \in Int : i <= m => pr2six(i) = text[i]
  BY <1>6
<1> HIDE DEF pr2six
<1>8. ASSUME NEW k \in 1 .. n
      PROVE  octet(k) = s[k]
  <2> DEFINE j == (k - 1) \div 3
             at == 3 * j + 1
             a == Octet(s, at)
             b == Octet(s, at + 1)
             c == Octet(s, at + 2)
             w == a \div 4
             x == (a % 4) * 16 + (b \div 16)
             y == (b % 16) * 4 + (c \div 64)
             z == c % 64
  <2>1. j \in Nat /\ at \in Nat /\ 1 <= at /\ at <= n /\ k \in {at, at + 1, at + 2} /\ k <= n /\ k \in Int
    BY <1>3
  <2> HIDE DEF j
  <2>2. /\ a \in Int /\ 0 <= a /\ a <= 255 /\ b \in Int /\ 0 <= b /\ b <= 255
        /\ c \in Int /\ 0 <= c /\ c <= 255
    BY <2>1, OctetIs
  <2>3. /\ k = at => s[k] = a
        /\ k = at + 1 => s[k] = b
        /\ k = at + 2 => s[k] = c
    BY <2>1 DEF Octet, n
  <2>4. /\ Digit(s, 1, at) = w /\ Digit(s, 2, at) = x
        /\ at + 1 <= n => Digit(s, 3, at) = y
        /\ at + 2 <= n => Digit(s, 4, at) = z
    BY <2>1, DigitsAre DEF n
  <2> HIDE DEF a, b, c
  <2>5. /\ w \in Int /\ x \in Int /\ y \in Int /\ z \in Int
        /\ w * 4 + (x \div 16) = a
        /\ (x % 16) * 16 + (y \div 4) = b
        /\ (y % 4) * 64 + z = c
    BY <2>2, Groups
  <2> HIDE DEF w, x, y, z
  <2>6. /\ pr2six(4 * j + 1) = w /\ pr2six(4 * j + 2) = x
        /\ at + 1 <= n => pr2six(4 * j + 3) = y
        /\ at + 2 <= n => pr2six(4 * j + 4) = z
    <3>1. 3 * j + 1 <= n /\ at = 3 * j + 1 /\ at + 1 = 3 * j + 2 /\ at + 2 = 3 * j + 3
      BY <2>1
    <3> HIDE DEF at
    <3>2. /\ text[4 * j + 1] = w /\ text[4 * j + 2] = x /\ 4 * j + 2 <= m
          /\ at + 1 <= n => text[4 * j + 3] = y /\ 4 * j + 3 <= m
          /\ at + 2 <= n => text[4 * j + 4] = z /\ 4 * j + 4 <= m
      BY <1>1, <2>1, <2>4, <3>1
    <3>3. /\ 4 * j + 1 \in Int /\ 4 * j + 2 \in Int /\ 4 * j + 3 \in Int /\ 4 * j + 4 \in Int
          /\ 4 * j + 1 <= m
      BY <1>1, <2>1, <3>2
    <3> QED BY <1>7, <3>2, <3>3
  <2>7. CASE k = at
    <3>1. k % 3 = 1 /\ (4 * k) \div 3 = 4 * j + 1 /\ (4 * k) \div 3 + 1 = 4 * j + 2
      BY <2>1, <2>7
    <3>2. octet(k) = w * 4 + (x \div 16)
      BY <2>6, <3>1
    <3> QED BY <2>3, <2>5, <2>7, <3>2
  <2>8. CASE k = at + 1
    <3>1. k % 3 = 2 /\ (4 * k) \div 3 = 4 * j + 2 /\ (4 * k) \div 3 + 1 = 4 * j + 3 /\ at + 1 <= n
      BY <2>1, <2>8
    <3>2. octet(k) = (x % 16) * 16 + (y \div 4)
      BY <2>6, <3>1
    <3> QED BY <2>3, <2>5, <2>8, <3>2
  <2>9. CASE k = at + 2
    <3>1. k = 3 * j + 3
      BY <2>1, <2>9
    <3>2. k % 3 = 0 /\ (4 * k) \div 3 = 4 * j + 4
      BY <2>1, <3>1
    <3>3. (4 * k) \div 3 - 1 = 4 * j + 3 /\ at + 2 <= n /\ at + 1 <= n
      BY <1>3, <2>1, <2>9, <3>2
    <3>4. octet(k) = (y % 4) * 64 + z
      BY <2>6, <3>2, <3>3
    <3> QED BY <2>3, <2>5, <2>9, <3>4
  <2> QED BY <2>1, <2>7, <2>8, <2>9
<1> HIDE DEF octet
<1>9. (3 * nprbytes) \div 4 = n
  BY <1>3, <1>6, CountIs DEF m
<1>10. base64decode(text) = s
  BY <1>2, <1>3, <1>8, <1>9
<1> QED BY <1>10 DEF text

-----------------------------------------------------------------------------
\* The octets of a key, as they are encoded.
Number(v) == Counted(BN_bn2bin(v))
KeyOctets(k) ==
  Counted(SshDss) \o (Number(k.p) \o (Number(k.q) \o (Number(k.g) \o Number(k.pub_key))))

LEMMA CountedOctets ==
  ASSUME NEW d \in Seq(Octets), Len(d) <= 255
  PROVE  Counted(d) \in Seq(Octets)
<1>1. d \in Seq(Int) /\ Len(d) \in Nat
  BY OctetsAreIntegers, Length
<1>2. PUT_32BIT(Len(d)) = <<0, 0, 0, Len(d)>>
  BY <1>1, CountedIs
<1>3. 0 \in Octets /\ \A n \in Nat : n <= 255 => n \in Octets
  BY DEF Octets
<1>4. <<0, 0, 0, Len(d)>> \in Seq(Octets)
  BY <1>1, <1>3
<1> QED BY <1>2, <1>4 DEF Counted

LEMMA NumberIsCounted ==
  ASSUME NEW v \in BigNumbers
  PROVE  /\ BN_bn2bin(v) \in Seq(Int) /\ Len(BN_bn2bin(v)) \in Nat /\ Len(BN_bn2bin(v)) <= 128
         /\ Number(v) \in Seq(Octets) /\ Number(v) \in Seq(Int)
         /\ Len(Number(v)) \in Nat /\ Len(Number(v)) <= 132
<1> DEFINE d == BN_bn2bin(v)
<1>1. v \in Nat /\ Len(d) <= 128
  BY DEF BigNumbers
<1>2. d \in Seq(Octets)
  BY <1>1, NumberIs
<1> HIDE DEF d
<1>3. d \in Seq(Int) /\ Len(d) \in Nat
  BY <1>2, OctetsAreIntegers, Length
<1>4. Len(d) <= 255
  BY <1>1, <1>3
<1>5. Counted(d) \in Seq(Octets) /\ Counted(d) \in Seq(Int) /\ Len(Counted(d)) = 4 + Len(d)
  BY <1>2, <1>3, <1>4, CountedIs, CountedOctets
<1>6. Len(Counted(d)) \in Nat /\ Len(Counted(d)) <= 132
  BY <1>1, <1>3, <1>5
<1> QED BY <1>1, <1>3, <1>5, <1>6 DEF Number, d

LEMMA NumberPut ==
  ASSUME NEW b, NEW s \in Seq(Int), NEW v \in BigNumbers, Filled(b, s), NEW limit \in Nat,
         b.alloc <= limit, limit + 132 + 2 * BUFFER_GROWTH <= MAX_ALLOC
  PROVE  /\ Filled(buffer_put_bignum(b, v), s \o Number(v)) /\ s \o Number(v) \in Seq(Int)
         /\ buffer_put_bignum(b, v).alloc <= limit + 132 + 2 * BUFFER_GROWTH
<1> DEFINE d == BN_bn2bin(v)
           c == buffer_put_bignum(b, v)
<1>1. d \in Seq(Int) /\ Len(d) \in Nat /\ Len(d) <= 128 /\ Number(v) \in Seq(Int) /\ Number(v) = Counted(d)
  BY NumberIsCounted DEF Number
<1>2. c = buffer_put_string(b, d)
  BY DEF buffer_put_bignum
<1> HIDE DEF d, c
<1>3. b.alloc \in Nat /\ BUFFER_GROWTH \in Nat /\ MAX_ALLOC \in Nat
  BY BufferAssumption DEF Filled, Holds, Buffers
<1>4. Len(d) <= 255 /\ b.alloc + 4 + Len(d) + 2 * BUFFER_GROWTH <= MAX_ALLOC
  BY <1>1, <1>3
<1>5. Filled(c, s \o Counted(d)) /\ c.alloc <= b.alloc + 4 + Len(d) + 2 * BUFFER_GROWTH
  BY <1>1, <1>2, <1>4, StringPut
<1>6. c.alloc \in Nat
  BY <1>5 DEF Filled, Holds, Buffers
<1>7. c.alloc <= limit + 132 + 2 * BUFFER_GROWTH
  BY <1>1, <1>3, <1>5, <1>6
<1> QED BY <1>1, <1>5, <1>7, Joined DEF c

LEMMA BufferStarts == Filled(buffer_init, <<>>) /\ buffer_init.alloc = BUFFER_LEN
<1> DEFINE buf == [i \in 1 .. BUFFER_LEN |-> Garbage]
<1>1. buf \in Seq(Int) /\ Len(buf) = BUFFER_LEN /\ BUFFER_LEN \in Nat
  BY BufferAssumption DEF Garbage
<1> HIDE DEF buf
<1>2. buffer_init = [buf |-> buf, alloc |-> BUFFER_LEN, offset |-> 0, end |-> 0]
  BY DEF buffer_init, buf
<1> QED BY <1>1, <1>2 DEF Filled, Holds, Buffers

LEMMA SshDssIs ==
  /\ SshDss \in Seq(Octets) /\ SshDss \in Seq(Int) /\ Len(SshDss) = 7
  /\ Counted(SshDss) \in Seq(Octets) /\ Counted(SshDss) \in Seq(Int) /\ Len(Counted(SshDss)) = 11
<1>1. SshDss \in Seq(Octets) /\ Len(SshDss) = 7
  BY DEF SshDss, Octets
<1>2. SshDss \in Seq(Int) /\ Len(SshDss) <= 255
  BY <1>1, OctetsAreIntegers
<1>3. Counted(SshDss) \in Seq(Octets)
  BY <1>1, <1>2, CountedOctets
<1>4. Len(Counted(SshDss)) = 4 + Len(SshDss) /\ Counted(SshDss) \in Seq(Int)
  BY <1>2, CountedIs
<1> QED BY <1>1, <1>2, <1>3, <1>4

LEMMA KeyWritten ==
  ASSUME NEW k \in DsaKeys, NEW host
  PROVE  /\ KeyLine(k, host) = [host |-> host, text |-> base64encode(KeyOctets(k))]
         /\ KeyOctets(k) \in Seq(Octets) /\ Len(KeyOctets(k)) <= 539
<1> DEFINE S == Counted(SshDss)
           P == Number(k.p)
           Q == Number(k.q)
           G == Number(k.g)
           Y == Number(k.pub_key)
           s == buffer_put_cstring(buffer_init, SshDss)
           p == buffer_put_bignum(s, k.p)
           q == buffer_put_bignum(p, k.q)
           g == buffer_put_bignum(q, k.g)
           y == buffer_put_bignum(g, k.pub_key)
<1>1. k.p \in BigNumbers /\ k.q \in BigNumbers /\ k.g \in BigNumbers /\ k.pub_key \in BigNumbers
  BY DEF DsaKeys
<1>2. /\ P \in Seq(Octets) /\ Q \in Seq(Octets) /\ G \in Seq(Octets) /\ Y \in Seq(Octets)
      /\ P \in Seq(Int) /\ Q \in Seq(Int) /\ G \in Seq(Int) /\ Y \in Seq(Int)
      /\ Len(P) \in Nat /\ Len(Q) \in Nat /\ Len(G) \in Nat /\ Len(Y) \in Nat
      /\ Len(P) <= 132 /\ Len(Q) <= 132 /\ Len(G) <= 132 /\ Len(Y) <= 132
  BY SMTT(30), <1>1, NumberIsCounted
<1>3. S \in Seq(Octets) /\ S \in Seq(Int) /\ Len(S) = 11
  BY SshDssIs
<1>4. BUFFER_LEN \in Nat /\ BUFFER_GROWTH \in Nat /\ MAX_ALLOC \in Nat
      /\ BUFFER_LEN + 10 * BUFFER_GROWTH + 750 <= MAX_ALLOC
  BY BufferAssumption, KeyFileAssumption
<1> DEFINE l1 == BUFFER_LEN + 11 + 2 * BUFFER_GROWTH
           l2 == BUFFER_LEN + 143 + 4 * BUFFER_GROWTH
           l3 == BUFFER_LEN + 275 + 6 * BUFFER_GROWTH
           l4 == BUFFER_LEN + 407 + 8 * BUFFER_GROWTH
<1>5. Filled(s, S) /\ s.alloc <= l1
  <2>1. buffer_init.alloc + 4 + Len(SshDss) + 2 * BUFFER_GROWTH <= MAX_ALLOC /\ Len(SshDss) <= 255
    BY <1>4, BufferStarts, SshDssIs
  <2>2. <<>> \in Seq(Int) /\ <<>> \o S = S
    BY <1>3
  <2>3. /\ Filled(s, <<>> \o Counted(SshDss))
        /\ s.alloc <= buffer_init.alloc + 4 + Len(SshDss) + 2 * BUFFER_GROWTH
    BY <2>1, <2>2, BufferStarts, SshDssIs, StringPut DEF buffer_put_cstring
  <2>4. buffer_init.alloc + 4 + Len(SshDss) + 2 * BUFFER_GROWTH = l1
    BY <1>4, BufferStarts, SshDssIs
  <2> QED BY <2>2, <2>3, <2>4
<1>6. /\ l1 \in Nat /\ l2 \in Nat /\ l3 \in Nat /\ l4 \in Nat
      /\ l2 = l1 + 132 + 2 * BUFFER_GROWTH /\ l2 <= MAX_ALLOC
      /\ l3 = l2 + 132 + 2 * BUFFER_GROWTH /\ l3 <= MAX_ALLOC
      /\ l4 = l3 + 132 + 2 * BUFFER_GROWTH /\ l4 <= MAX_ALLOC
      /\ l4 + 132 + 2 * BUFFER_GROWTH <= MAX_ALLOC
  BY <1>4
<1> HIDE DEF l1, l2, l3, l4, S, P, Q, G, Y, s
<1> DEFINE sp == S \o P
           spq == sp \o Q
           spqg == spq \o G
<1>7. Filled(p, sp) /\ p.alloc <= l2 /\ sp \in Seq(Int)
  BY SMTT(30), <1>1, <1>3, <1>5, <1>6, NumberPut DEF P
<1> HIDE DEF p, sp
<1>8. Filled(q, spq) /\ q.alloc <= l3 /\ spq \in Seq(Int)
  BY SMTT(30), <1>1, <1>6, <1>7, NumberPut DEF Q
<1> HIDE DEF q, spq
<1>9. Filled(g, spqg) /\ g.alloc <= l4 /\ spqg \in Seq(Int)
  BY <1>1, <1>6, <1>8, NumberPut DEF G
<1> HIDE DEF g, spqg
<1>10. Filled(y, spqg \o Y)
  BY <1>1, <1>6, <1>9, NumberPut DEF Y
<1>11. spqg \o Y = KeyOctets(k)
  <2>1. spqg \o Y = spq \o (G \o Y)
    BY ZenonT(40), <1>2, <1>8, Associative DEF spqg
  <2>2. G \o Y \in Seq(Int)
    BY <1>2, Joined
  <2>3. spq \o (G \o Y) = sp \o (Q \o (G \o Y))
    <3>1. (sp \o Q) \o (G \o Y) = sp \o (Q \o (G \o Y))
      BY ZenonT(40), <1>2, <1>7, <2>2, Associative
    <3> QED BY Zenon, <3>1 DEF spq
  <2>4. Q \o (G \o Y) \in Seq(Int)
    BY <1>2, <2>2, Joined
  <2>5. sp \o (Q \o (G \o Y)) = S \o (P \o (Q \o (G \o Y)))
    BY ZenonT(40), <1>2, <1>3, <2>4, Associative DEF sp
  <2> QED BY <2>1, <2>3, <2>5 DEF KeyOctets, S, P, Q, G, Y
<1>12. KeyOctets(k) \in Seq(Octets) /\ Len(KeyOctets(k)) <= 539
  <2> DEFINE u == G \o Y
             v == Q \o u
             w == P \o v
  <2>1. u \in Seq(Octets) /\ Len(u) = Len(G) + Len(Y)
    BY <1>2, JoinedOctets
  <2> HIDE DEF u
  <2>2. v \in Seq(Octets) /\ Len(v) = Len(Q) + Len(u)
    BY <1>2, <2>1, JoinedOctets
  <2> HIDE DEF v
  <2>3. w \in Seq(Octets) /\ Len(w) = Len(P) + Len(v)
    BY <1>2, <2>2, JoinedOctets
  <2> HIDE DEF w
  <2>4. S \o w \in Seq(Octets) /\ Len(S \o w) = Len(S) + Len(w)
    BY <1>3, <2>3, JoinedOctets
  <2>5. KeyOctets(k) = S \o w
    BY DEF KeyOctets, S, P, Q, G, Y, u, v, w
  <2>6. Len(KeyOctets(k)) = 11 + (Len(P) + (Len(Q) + (Len(G) + Len(Y))))
    BY <1>3, <2>1, <2>2, <2>3, <2>4, <2>5
  <2> QED BY <1>2, <2>4, <2>5, <2>6
<1> HIDE DEF y
<1>13. buffer_ptr(y) = KeyOctets(k)
  <2> DEFINE K == KeyOctets(k)
  <2>1. Filled(y, K) /\ K \in Seq(Int) /\ Len(K) \in Nat
    BY <1>10, <1>11, <1>12, OctetsAreIntegers, Length
  <2> HIDE DEF K
  <2>2. /\ y.buf \in Seq(Int) /\ y.offset = 0 /\ y.end = Len(K) /\ 0 + Len(K) <= Len(y.buf)
        /\ \A i \in 1 .. Len(K) : y.buf[0 + i] = K[i]
    BY <2>1 DEF Filled, Holds, Buffers
  <2>3. buffer_ptr(y) = SubSeq(y.buf, 0 + 1, 0 + Len(K))
    BY <2>1, <2>2 DEF buffer_ptr
  <2>4. /\ buffer_ptr(y) \in Seq(Int) /\ Len(buffer_ptr(y)) = Len(K)
        /\ \A i \in 1 .. Len(K) : buffer_ptr(y)[i] = y.buf[0 + i]
    BY <2>1, <2>2, <2>3, Slice
  <2>5. buffer_ptr(y) = K
    BY <2>1, <2>2, <2>4, Same
  <2> QED BY <2>5 DEF K
<1>14. KeyLine(k, host) = [host |-> host, text |-> base64encode(buffer_ptr(y))]
  BY DEF KeyLine, y, g, q, p, s
<1> QED BY <1>12, <1>13, <1>14

\* A key that was written is read back as it was.
LEMMA KeyRead ==
  ASSUME NEW k \in DsaKeys, NEW host
  PROVE  StoredKey(KeyLine(k, host)) = k
<1> DEFINE K == KeyOctets(k)
           text == freadline(KeyLine(k, host))
           S == Counted(SshDss)
           P == Number(k.p)
           Q == Number(k.q)
           G == Number(k.g)
           Y == Number(k.pub_key)
<1>1. KeyLine(k, host) = [host |-> host, text |-> base64encode(K)] /\ K \in Seq(Octets) /\ Len(K) <= 539
  BY KeyWritten
<1>2. K \in Seq(Int) /\ Len(K) \in Nat
  BY <1>1, OctetsAreIntegers, Length
<1>3. base64decode(text) = K
  BY <1>1, Decoded
<1>4. text \in Seq(Int) /\ Len(text) = 4 * ((Len(K) + 2) \div 3) + 2
  BY <1>1, LineIs, Encoded
<1> HIDE DEF K, text
<1> DEFINE rest == [i \in 1 .. Len(text) - Len(K) |-> Garbage]
<1>5. Str(text) = K \o rest
  BY <1>3 DEF Str
<1>6. Len(text) - Len(K) \in Nat /\ Len(text) <= 722
  BY <1>1, <1>2, <1>4
<1>7. rest \in Seq(Int) /\ Len(rest) = Len(text) - Len(K)
  BY <1>6 DEF Garbage
<1> HIDE DEF rest
<1>8. Str(text) \in Seq(Int) /\ Len(Str(text)) = Len(text)
  <2>1. Len(K \o rest) = Len(K) + Len(rest) /\ K \o rest \in Seq(Int)
    BY <1>2, <1>7, Joined
  <2> QED BY <1>2, <1>4, <1>5, <1>6, <1>7, <2>1
<1> DEFINE b == buffer_append(buffer_init, Str(text))
<1>9. Holds(b, K \o rest)
  <2>1. buffer_init.alloc + Len(Str(text)) + BUFFER_GROWTH <= MAX_ALLOC
    <3>1. Len(text) \in Nat /\ Len(Str(text)) <= 722
      BY <1>4, <1>6, <1>8, Length
    <3> QED BY <1>8, <3>1, BufferStarts, BufferAssumption, KeyFileAssumption
  <2>2. <<>> \in Seq(Int) /\ <<>> \o Str(text) = Str(text)
    BY <1>8
  <2>3. Filled(b, <<>> \o Str(text))
    BY <1>8, <2>1, <2>2, BufferStarts, Appended
  <2> QED BY <1>5, <2>2, <2>3 DEF Filled
<1> HIDE DEF b
<1>10. k.p \in BigNumbers /\ k.q \in BigNumbers /\ k.g \in BigNumbers /\ k.pub_key \in BigNumbers
       /\ k = [p |-> k.p, q |-> k.q, g |-> k.g, pub_key |-> k.pub_key]
  BY DEF DsaKeys
<1>11. /\ P \in Seq(Int) /\ Q \in Seq(Int) /\ G \in Seq(Int) /\ Y \in Seq(Int) /\ S \in Seq(Int)
  BY <1>10, NumberIsCounted, SshDssIs
<1>12. K = S \o (P \o (Q \o (G \o Y)))
  BY DEF K, KeyOctets
<1> DEFINE t4 == Y \o rest
           t3 == G \o t4
           t2 == Q \o t3
           t1 == P \o t2
<1> HIDE DEF S, P, Q, G, Y
<1>13. t4 \in Seq(Int) /\ t3 \in Seq(Int) /\ t2 \in Seq(Int) /\ t1 \in Seq(Int)
  <2>1. t4 \in Seq(Int)
    BY <1>7, <1>11, Joined
  <2> HIDE DEF t4
  <2>2. t3 \in Seq(Int)
    BY <1>11, <2>1, Joined
  <2> HIDE DEF t3
  <2>3. t2 \in Seq(Int)
    BY <1>11, <2>2, Joined
  <2> HIDE DEF t2
  <2>4. t1 \in Seq(Int)
    BY <1>11, <2>3, Joined
  <2> QED BY <2>1, <2>2, <2>3, <2>4
<1>14. K \o rest = S \o t1
  <2> DEFINE u == G \o Y
             v == Q \o u
             w == P \o v
  <2>1. u \in Seq(Int)
    BY <1>11, Joined
  <2>2. u \o rest = t3
    <3> HIDE DEF t2, t1
    <3> QED BY ZenonT(40), <1>7, <1>11, Associative
  <2> HIDE DEF u, t3, t4
  <2>3. v \in Seq(Int)
    BY <1>11, <2>1, Joined
  <2>4. v \o rest = Q \o (u \o rest)
    <3>1. Q \in Seq(Int) /\ u \in Seq(Int) /\ rest \in Seq(Int)
      BY <1>7, <1>11, <2>1
    <3>2. (Q \o u) \o rest = Q \o (u \o rest)
      BY Zenon, <3>1, Associative
    <3> QED BY Zenon, <3>2 DEF v
  <2>5. v \o rest = t2
    BY <2>2, <2>4
  <2> HIDE DEF v, t2
  <2>6. w \in Seq(Int)
    BY <1>11, <2>3, Joined
  <2>7. w \o rest = P \o (v \o rest)
    <3>1. P \in Seq(Int) /\ v \in Seq(Int) /\ rest \in Seq(Int)
      BY <1>7, <1>11, <2>3
    <3>2. (P \o v) \o rest = P \o (v \o rest)
      BY Zenon, <3>1, Associative
    <3> QED BY Zenon, <3>2 DEF w
  <2>8. w \o rest = t1
    BY <2>5, <2>7
  <2> HIDE DEF w, t1
  <2>9. (S \o w) \o rest = S \o (w \o rest)
    BY ZenonT(40), <1>7, <1>11, <2>6, Associative
  <2>10. K = S \o w
    BY <1>12 DEF u, v, w
  <2> QED BY <2>8, <2>9, <2>10
<1> DEFINE s == buffer_get_string(b)
           p == buffer_get_bignum(s.buf)
           q == buffer_get_bignum(p.buf)
           g == buffer_get_bignum(q.buf)
           y == buffer_get_bignum(g.buf)
<1>15. Holds(s.buf, t1)
  <2> HIDE DEF t1
  <2>1. Len(SshDss) <= 255 /\ Len(SshDss) <= MAX_ALLOC
    BY SshDssIs, BufferAssumption, KeyFileAssumption
  <2>2. Holds(b, Counted(SshDss) \o t1)
    BY <1>9, <1>14 DEF S
  <2> QED BY <1>13, <2>1, <2>2, SshDssIs, StringRead
<1> HIDE DEF s, t4
<1>16. p.value = k.p /\ Holds(p.buf, t2)
  BY <1>10, <1>13, <1>15, NumberRead DEF P, Number
<1> HIDE DEF p
<1>17. q.value = k.q /\ Holds(q.buf, t3)
  BY <1>10, <1>13, <1>16, NumberRead DEF Q, Number
<1> HIDE DEF q
<1>18. g.value = k.g /\ Holds(g.buf, t4)
  BY <1>10, <1>13, <1>17, NumberRead DEF G, Number
<1> HIDE DEF g
<1>19. y.value = k.pub_key
  BY <1>7, <1>10, <1>18, NumberRead DEF Y, Number, t4
<1>20. StoredKey(KeyLine(k, host)) = [p |-> p.value, q |-> q.value, g |-> g.value, pub_key |-> y.value]
  BY DEF StoredKey, s, p, q, g, b, text
<1> QED BY <1>10, <1>16, <1>17, <1>18, <1>19, <1>20

-----------------------------------------------------------------------------
(* The keys of the brokers, over the sessions of all processes.             *)

Lines(s) == {i \in DOMAIN keyfile : keyfile[i].host = s}

\* The file has one line of each server whose key was stored, the one that
\* add_dsakey_to_keyfile() wrote for it, and none of another; a session has a server,
\* and a key when it looks one up.
KeyInv ==
  /\ "server" \in DOMAIN conf
  /\ pc \notin {"idle", "dead"} => conf.server \in Servers
  /\ pc = "passdss_key" => offered.key \in Keys
  /\ ghost.stored \in [Servers -> Keys \cup {NoKey}]
  /\ keyfile \in Seq({KeyLine(k, s) : k \in Keys, s \in Servers})
  /\ \A s \in Servers :
       IF ghost.stored[s] = NoKey THEN Lines(s) = {}
       ELSE \E i \in DOMAIN keyfile : Lines(s) = {i} /\ keyfile[i] = KeyLine(ghost.stored[s], s)

LEMMA NoKeyIsNone == NoKey \notin Keys
<1>1. NoKey.p = -1 /\ -1 \notin Nat
  BY DEF NoKey
<1>2. \A k \in DsaKeys : k.p \in Nat
  BY DEF DsaKeys, BigNumbers
<1> QED BY <1>1, <1>2, SessionAssumption

\* What is found in the file.
LEMMA KeyFound ==
  ASSUME KeyInv, NEW k \in Keys, NEW s \in Servers
  PROVE  is_dsakey_in_keyfile(k, s, keyfile) =
           (IF ghost.stored[s] = NoKey THEN 1 ELSE IF ghost.stored[s] = k THEN 2 ELSE 3)
<1> DEFINE last == CHOOSE i \in Lines(s) : \A j \in Lines(s) : j <= i
<1>1. is_dsakey_in_keyfile(k, s, keyfile) =
        IF Lines(s) = {} THEN 1 ELSE IF StoredKey(keyfile[last]) = k THEN 2 ELSE 3
  BY DEF is_dsakey_in_keyfile, Lines
<1>2. CASE ghost.stored[s] = NoKey
  BY <1>1, <1>2 DEF KeyInv
<1>3. CASE ghost.stored[s] # NoKey
  <2>1. PICK i \in DOMAIN keyfile : Lines(s) = {i} /\ keyfile[i] = KeyLine(ghost.stored[s], s)
    BY <1>3 DEF KeyInv
  <2>2. ghost.stored[s] \in DsaKeys
    BY <1>3, SessionAssumption DEF KeyInv
  <2>3. i \in Nat
    BY DEF KeyInv
  <2>4. last = i
    BY <2>1, <2>3
  <2>5. StoredKey(keyfile[last]) = ghost.stored[s]
    BY <2>1, <2>2, <2>4, KeyRead
  <2> QED BY <1>1, <1>3, <2>1, <2>5
<1> QED BY <1>2, <1>3

\* A step that leaves the file as it is.
SameKeys ==
  /\ keyfile' = keyfile /\ ghost'.stored = ghost.stored
  /\ "server" \in DOMAIN conf'
  /\ pc' \notin {"idle", "dead"} =>
       conf'.server \in Servers \/ (pc \notin {"idle", "dead"} /\ conf'.server = conf.server)
  /\ pc' = "passdss_key" => offered'.key \in Keys

LEMMA SameKeysKeeps == KeyInv /\ SameKeys => KeyInv'
<1> SUFFICES ASSUME KeyInv, SameKeys PROVE KeyInv'
  OBVIOUS
<1>1. \A s : Lines(s)' = Lines(s)
  BY DEF Lines, SameKeys
<1> QED BY <1>1 DEF KeyInv, SameKeys

LEMMA VerifyKeepsKeys ==
  ASSUME NEW consent, NEW writable, TypeOK, KeyInv, AuthPASSDSS_Verify(consent, writable)
  PROVE  KeyInv'
<1> DEFINE key == offered.key
           host == conf.server
           r == add_dsakey_to_keyfile(key, host, keyfile, consent, writable)
           line == KeyLine(key, host)
<1>1. /\ key \in Keys /\ host \in Servers /\ conf' = conf /\ pc' # "passdss_key"
      /\ keyfile' = r.file
      /\ ghost' = IF r.file # keyfile THEN [ghost EXCEPT !.stored[host] = key] ELSE ghost
  BY DEF AuthPASSDSS_Verify, KeyInv, GoOn, Abandon, Proceed, Return
<1>2. pc' \notin {"idle", "dead"} => pc \notin {"idle", "dead"}
  BY DEF AuthPASSDSS_Verify
<1>3. CASE r.file = keyfile
  <2>1. SameKeys
    BY <1>1, <1>2, <1>3 DEF SameKeys, KeyInv
  <2> QED BY <2>1, SameKeysKeeps
<1>4. CASE r.file # keyfile
  <2>1. is_dsakey_in_keyfile(key, host, keyfile) = 1 /\ keyfile' = Append(keyfile, line)
    BY <1>1, <1>4 DEF add_dsakey_to_keyfile
  <2>2. ghost.stored[host] = NoKey
    BY <1>1, <2>1, KeyFound
  <2>3. ghost'.stored = [ghost.stored EXCEPT ![host] = key]
    BY <1>1, <1>4 DEF TypeOK
  <2>4. ghost'.stored \in [Servers -> Keys \cup {NoKey}]
    BY <1>1, <2>3 DEF KeyInv
  <2>5. line.host = host
    BY DEF KeyLine
  <2> DEFINE all == {KeyLine(k, s) : k \in Keys, s \in Servers}
             n == Len(keyfile)
  <2>6. line \in all /\ keyfile \in Seq(all)
    BY <1>1 DEF KeyInv
  <2> HIDE DEF line, all
  <2>7. /\ keyfile' \in Seq(all) /\ n \in Nat /\ DOMAIN keyfile = 1 .. n /\ DOMAIN keyfile' = 1 .. n + 1
        /\ keyfile'[n + 1] = line /\ \A i \in 1 .. n : keyfile'[i] = keyfile[i]
    BY <2>1, <2>6
  <2> HIDE DEF n
  <2>8. ASSUME NEW s \in Servers
        PROVE  IF ghost'.stored[s] = NoKey THEN Lines(s)' = {}
               ELSE \E i \in DOMAIN keyfile' : Lines(s)' = {i} /\ keyfile'[i] = KeyLine(ghost'.stored[s], s)
    <3>1. CASE s = host
      <4>1. Lines(s) = {} /\ ghost'.stored[s] = key
        BY <1>1, <2>2, <2>3, <3>1 DEF KeyInv
      <4>2. \A i \in 1 .. n : keyfile[i].host # s
        BY <2>7, <4>1 DEF Lines
      <4>3. Lines(s)' = {n + 1}
        BY <2>5, <2>7, <3>1, <4>2 DEF Lines
      <4> QED BY <1>1, <2>7, <3>1, <4>1, <4>3, NoKeyIsNone DEF line
    <3>2. CASE s # host
      <4>1. ghost'.stored[s] = ghost.stored[s]
        BY <2>3, <3>2 DEF KeyInv
      <4>2. Lines(s)' = Lines(s)
        BY <2>5, <2>7, <3>2 DEF Lines
      <4>3. CASE ghost.stored[s] = NoKey
        BY <4>1, <4>2, <4>3 DEF KeyInv
      <4>4. CASE ghost.stored[s] # NoKey
        <5>1. PICK i \in DOMAIN keyfile : Lines(s) = {i} /\ keyfile[i] = KeyLine(ghost.stored[s], s)
          BY <4>4 DEF KeyInv
        <5>2. i \in DOMAIN keyfile' /\ keyfile'[i] = keyfile[i]
          BY <2>7, <5>1
        <5> QED BY <4>1, <4>2, <4>4, <5>1, <5>2
      <4> QED BY <4>3, <4>4
    <3> QED BY <3>1, <3>2
  <2> QED BY <1>1, <1>2, <2>4, <2>7, <2>8 DEF KeyInv, all
<1> QED BY <1>3, <1>4

LEMMA KeysInitially == Init => KeyInv
<1> SUFFICES ASSUME Init PROVE KeyInv
  OBVIOUS
<1>1. keyfile = <<>> /\ pc = "idle" /\ conf \in Configs /\ ghost.stored = [s \in Servers |-> NoKey]
  BY DEF Init
<1>2. \A s \in Servers : Lines(s) = {}
  BY <1>1 DEF Lines
<1> QED BY <1>1, <1>2, SessionAssumption DEF KeyInv

LEMMA KeysInductive == IInv /\ KeyInv /\ [Next]_vars => KeyInv'
<1> SUFFICES ASSUME TypeOK, KeyInv, [Next]_vars PROVE KeyInv'
  BY DEF IInv
<1>0. "server" \in DOMAIN conf /\ (pc = "passdss_key" => offered.key \in Keys)
  BY DEF KeyInv
<1> USE <1>0 DEF SameKeys, GoOn, Abandon, Proceed, Return, DieNow
<1>1. ASSUME NEW s \in Servers, NEW t, NEW v, StartSession(s, t, v) PROVE SameKeys
  <2>1. /\ pc' = "connect" /\ keyfile' = keyfile
        /\ conf' = [conf EXCEPT !.server = s, !.transport = t]
        /\ ghost'.stored = ghost.stored
    BY <1>1 DEF StartSession, TypeOK
  <2>2. "server" \in DOMAIN conf' /\ conf'.server = s
    BY <2>1
  <2> QED BY <2>1, <2>2
<1>2. ASSUME NEW known, NEW connects, Connect(known, connects) PROVE SameKeys
  BY <1>2 DEF Connect
<1>3. ASSUME UNCHANGED <<conf, keyfile, ghost>> /\ pc \notin {"idle", "dead"} /\ pc' # "passdss_key"
      PROVE  SameKeys
  BY <1>3
<1>4. ASSUME GetCapabilities \/ Authenticate \/ Acknowledge
      PROVE  SameKeys
  <2>1. UNCHANGED <<conf, keyfile, ghost>> /\ pc \notin {"idle", "dead"}
    BY <1>4 DEF GetCapabilities, Authenticate, Acknowledge
  <2>2. pc' # "passdss_key"
    BY <1>4 DEF GetCapabilities, Authenticate, Acknowledge, Redirected, CapabilitiesError, Chosen
  <2> QED BY <1>3, <2>1, <2>2
<1>5. ASSUME AuthANONYMOUS \/ AuthPLAIN \/ AuthDIGEST_Challenge \/ AuthDIGEST_Response
           \/ AuthDIGEST_Result \/ AuthPASSDSS_Begin \/ AuthPASSDSS_Result
      PROVE  SameKeys
  <2>1. UNCHANGED <<conf, keyfile, ghost>> /\ pc \notin {"idle", "dead"}
    BY <1>5 DEF AuthANONYMOUS, AuthPLAIN, AuthDIGEST_Challenge, AuthDIGEST_Response,
                AuthDIGEST_Result, AuthPASSDSS_Begin, AuthPASSDSS_Result
  <2>2. pc' # "passdss_key"
    BY <1>5 DEF AuthANONYMOUS, AuthPLAIN, AuthDIGEST_Challenge, AuthDIGEST_Response,
                AuthDIGEST_Result, AuthPASSDSS_Begin, AuthPASSDSS_Result, OnCode, NoMemory, Redirected
  <2> QED BY <1>3, <2>1, <2>2
<1>6. ASSUME AuthPASSDSS_Hello
      PROVE  SameKeys
  <2>1. UNCHANGED <<conf, keyfile, ghost>> /\ pc \notin {"idle", "dead"}
    BY <1>6 DEF AuthPASSDSS_Hello
  <2>2. pc' = "passdss_key" => offered'.key \in Keys
    BY <1>6 DEF AuthPASSDSS_Hello, NoMemory
  <2> QED BY <2>1, <2>2
<1>7. ASSUME NEW ok, UpdateSourceAddr(ok) PROVE SameKeys
  <2>1. UNCHANGED <<keyfile, ghost>> /\ pc \notin {"idle", "dead"} /\ pc' # "passdss_key"
    BY <1>7 DEF UpdateSourceAddr
  <2>2. conf' = conf \/ conf' = [conf EXCEPT !.client_v4 = tspGetLocalAddress(ok)]
    BY <1>7 DEF UpdateSourceAddr
  <2>3. "server" \in DOMAIN conf' /\ conf'.server = conf.server
    BY <2>2
  <2> QED BY <2>1, <2>3
<1>8. ASSUME TunnelNegotiation
      PROVE  SameKeys
  <2>1. keyfile' = keyfile /\ pc \notin {"idle", "dead"} /\ conf' = AfterCreateRequest(conf)
    BY <1>8 DEF TunnelNegotiation
  <2>2. ghost'.stored = ghost.stored
    BY <1>8 DEF TunnelNegotiation, TypeOK
  <2>3. pc' # "passdss_key"
    BY <1>8 DEF TunnelNegotiation, NoMemory, Redirected
  <2>4. "server" \in DOMAIN conf' /\ conf'.server = conf.server
    BY <2>1 DEF AfterCreateRequest
  <2> QED BY <2>1, <2>2, <2>3, <2>4
<1>9. ASSUME NEW root, NEW ipv6, NEW tun, StartLocal(root, ipv6, tun) PROVE SameKeys
  <2>1. UNCHANGED <<conf, keyfile>> /\ ghost'.stored = ghost.stored /\ pc \notin {"idle", "dead"}
    BY <1>9 DEF StartLocal, Local, TypeOK
  <2>2. pc' # "passdss_key"
    BY <1>9 DEF StartLocal, NotStarted
  <2> QED BY <2>1, <2>2
<1>10. ASSUME NEW ok, Fork(ok) \/ Detach(ok) PROVE SameKeys
  <2>1. UNCHANGED <<conf, keyfile>> /\ ghost'.stored = ghost.stored /\ pc \notin {"idle", "dead"}
    BY <1>10 DEF Fork, Detach, Local, TypeOK
  <2>2. pc' # "passdss_key"
    BY <1>10 DEF Fork, Detach
  <2> QED BY <2>1, <2>2
<1>11. ASSUME NEW fails, ChildStep(fails) PROVE SameKeys
  <2>1. UNCHANGED <<pc, conf, offered, keyfile>> /\ ghost'.stored = ghost.stored
    BY <1>11 DEF ChildStep, TypeOK
  <2> QED BY <2>1
<1>12. ASSUME Wait \/ TearDown \/ TearDownDies \/ ClearAndReturn \/ \E st \in LoopStatuses : TunnelEnds(st)
      PROVE  SameKeys
  <2>1. UNCHANGED <<conf, keyfile, ghost>> /\ pc \notin {"idle", "dead"} /\ pc' # "passdss_key"
    BY <1>12 DEF Wait, TearDown, TearDownDies, ClearAndReturn, TunnelEnds, Local
  <2> QED BY <1>3, <2>1
<1>13. ASSUME Kill
      PROVE  SameKeys
  BY <1>13 DEF Kill
<1>14. ASSUME Restart
      PROVE  SameKeys
  <2>1. conf' \in Configs /\ pc' = "idle" /\ keyfile' = keyfile /\ ghost'.stored = ghost.stored
    BY <1>14 DEF Restart, TypeOK
  <2> QED BY <2>1, SessionAssumption
<1>15. ASSUME ChildKilled \/ Renumber \/ Finished \/ UNCHANGED vars
      PROVE  SameKeys
  <2>1. UNCHANGED <<pc, conf, offered, keyfile>> /\ ghost'.stored = ghost.stored
    BY <1>15 DEF ChildKilled, Renumber, Finished, vars
  <2> QED BY <2>1
<1>16. ASSUME NEW consent, NEW writable, AuthPASSDSS_Verify(consent, writable) PROVE KeyInv'
  BY <1>16, VerifyKeepsKeys
<1> HIDE DEF SameKeys, GoOn, Abandon, Proceed, Return, DieNow
<1>17. SameKeys \/ KeyInv'
  BY <1>1, <1>2, <1>4, <1>5, <1>6, <1>7, <1>8, <1>9, <1>10, <1>11, <1>12, <1>13, <1>14, <1>15, <1>16
     DEF Next
<1> QED BY <1>17, SameKeysKeeps

\* A key that was once stored, by this process or by one killed since, is found when
\* a session looks it up, and no other key is taken for it (tsp_auth_passdss.c:81-306),
\* for any keys of numbers of up to 1024 bits and any sizes of the buffers that
\* KeyFileAssumption allows.
THEOREM KeyRememberedCorrect == Spec => []KeyRemembered
<1>1. KeyInv => KeyRemembered
  BY KeyFound DEF KeyRemembered
<1>2. IInv /\ KeyInv /\ [Next]_vars => (IInv /\ KeyInv)'
  BY Inductive, KeysInductive
<1>3. Init => IInv /\ KeyInv
  BY Initially, KeysInitially
<1> QED BY <1>1, <1>2, <1>3, PTL DEF Spec
=============================================================================
