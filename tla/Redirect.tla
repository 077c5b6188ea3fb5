------------------------------ MODULE Redirect ------------------------------
(***************************************************************************)
(* Broker redirection: tspHandleRedirect() makes a list of the brokers     *)
(* that a redirection names (tsp_redirect.c), has one thread per broker    *)
(* time an echo request over RUDP (net_echo_request.c) and sorts the list  *)
(* by the distances found.  The file that the list is then saved to, and   *)
(* the main loop that tries the brokers of the list, are in TspMain.       *)
(***************************************************************************)
EXTENDS TspXml, Naturals, FiniteSets

CONSTANTS
  Payloads,              \* Payloads[n]: documents that the n-th redirection can be
  LongAddresses,         \* contents too long for an element of the list
  MAX_REDIRECT_BROKERS_IN_LIST,
  ECHO_REQUEST_ATTEMPTS,
  ECHO_REQUEST_TIMEOUT,  \* how long one attempt waits
  Rtts,                  \* times from the last request to the answer
  needV6,                \* tunnel_mode is V4V6
  MaxRedirects           \* redirections handled in one process

\* select() takes an answer within the timeout, but for the delays of scheduling.
ASSUME EchoAssumption ==
  /\ ECHO_REQUEST_TIMEOUT \in Nat \ {0} /\ MAX_REDIRECT_BROKERS_IN_LIST \in Nat
  /\ \A rtt \in Rtts : rtt \in Nat /\ rtt < 2 * ECHO_REQUEST_TIMEOUT

VARIABLES
  pc,        \* where the main thread is in tspHandleRedirect
  list,      \* *broker_list: elements [id, address, address_type, distance]
  next,      \* the element reached: t in tspGetBrokerDistances, current_broker
             \* in tspSortBrokerList
  sorted,    \* sorted_list of tspSortBrokerList
  threads,   \* threads not yet joined, by the element they work for
  argsFreed, \* redirections whose thread_arguments were freed
  status,    \* what tspHandleRedirect returned
  round,     \* redirections so far
  attributes, \* of the XML parser: what the documents so far have left in its tables
  ghost      \* [outcome: of each element's echo, uncreated: a thread was not
             \* created, wild: freed memory was used] (not in the code)

vars == <<pc, list, next, sorted, threads, argsFreed, status, round, attributes, ghost>>

Ids == (1 .. MaxRedirects) \X (1 .. MAX_REDIRECT_BROKERS_IN_LIST)

NoOutcome == [n \in 1 .. MAX_REDIRECT_BROKERS_IN_LIST |-> "answered"]

ERROR_ADJUST        == 2 * ECHO_REQUEST_TIMEOUT
TIMEOUT_ADJUST      == 2 * ECHO_REQUEST_TIMEOUT
WRONG_FAMILY_ADJUST == 3 * ECHO_REQUEST_TIMEOUT

-----------------------------------------------------------------------------
(* tsp_redirect.c: lists                                                   *)

\* An address that would be cut off cannot be added (one that cannot be allocated
\* is the same to the caller).
CanAdd(address) == address \notin LongAddresses

\* The element that is added as the i-th, at the end.
tspAddBrokerToList(i, address, type) ==
  [id |-> <<round + 1, i>>, address |-> address, address_type |-> type, distance |-> 0]

\* IPv4 addresses, then IPv6 addresses, then names.
Redirections(t) ==
  [i \in DOMAIN t.broker_redirect_ipv4 |-> <<t.broker_redirect_ipv4[i], "IPV4">>]
    \o [i \in DOMAIN t.broker_redirect_ipv6 |-> <<t.broker_redirect_ipv6[i], "IPV6">>]
    \o [i \in DOMAIN t.broker_redirect_dn |-> <<t.broker_redirect_dn[i], "FQDN">>]

\* One that cannot be added, or is one too many, empties the list.
tspCreateBrokerList(t) ==
  LET brokers == Redirections(t)
      ok == /\ Len(brokers) \in 0 .. MAX_REDIRECT_BROKERS_IN_LIST
            /\ \A i \in 1 .. Len(brokers) : CanAdd(brokers[i][1])
  IN [ok |-> ok,
      list |-> [i \in 1 .. IF ok THEN Len(brokers) ELSE 0 |->
                 tspAddBrokerToList(i, brokers[i][1], brokers[i][2])]]

tspInsertAtHead(s, b) == <<b>> \o s

\* Before the first element that is not nearer: of equals the last comes first.
tspInsertInBrokerList(s, b) ==
  LET nearer == {i \in DOMAIN s : b.distance > s[i].distance}
      pos == CHOOSE p \in 0 .. Len(s) : 1 .. p \subseteq nearer /\ p + 1 \notin nearer
  IN SubSeq(s, 1, pos) \o <<b>> \o SubSeq(s, pos + 1, Len(s))

-----------------------------------------------------------------------------
(* net_echo_request.c: one thread                                          *)

\* Resolved, to an address of the family that the tunnel mode wants or not.
getSocketAddress(type, resolved) ==
  LET wanted == IF needV6 THEN "ipv6" ELSE "ipv4"
      fits == CASE type = "IPV4" -> ~needV6
                [] type = "IPV6" -> needV6
                [] OTHER         -> wanted \in resolved
  IN IF resolved = {} THEN "PROBLEM_RESOLVING" ELSE IF fits THEN "OK" ELSE "WRONG_FAMILY"

\* What a name or a numeric address resolves to.
Resolutions(type) ==
  CASE type = "IPV4" -> {{}, {"ipv4"}}
    [] type = "IPV6" -> {{}, {"ipv6"}}
    [] OTHER         -> SUBSET {"ipv4", "ipv6"}

Fail(t, adjust) == [t EXCEPT !.st = "write", !.distance = @ + adjust,
                             !.outcome = IF @ = "wrong" THEN @ ELSE "failed"]

\* getaddrinfo(), the socket (usable or not) and the timing engine.
Resolve(t, resolved, connected) ==
  LET r == getSocketAddress(t.type, resolved)
      w == IF r = "WRONG_FAMILY"
           THEN [t EXCEPT !.distance = WRONG_FAMILY_ADJUST, !.outcome = "wrong"] ELSE t
  IN IF r = "PROBLEM_RESOLVING" \/ ~connected THEN Fail(w, ERROR_ADJUST)
     ELSE [w EXCEPT !.st = "send"]

Send(t, sent) ==
  IF t.retries = ECHO_REQUEST_ATTEMPTS THEN Fail(t, TIMEOUT_ADJUST)
  ELSE IF sent THEN [t EXCEPT !.st = "wait"] ELSE Fail(t, ERROR_ADJUST)

TimedOutUncounted(t) == [t EXCEPT !.st = "send"]
TimedOut(t) == [t EXCEPT !.st = "send", !.retries = @ + 1]

\* The answer to any of the attempts: all have the same sequence number.  One
\* that is not "200" is an error, but counts with its time.
Answered(t, rtt) == [t EXCEPT !.st = "write", !.distance = @ + rtt]

\* Received: a datagram with another sequence number changes nothing.
Received(t) == {Fail(t, ERROR_ADJUST), TimedOut(t)} \cup {Answered(t, rtt) : rtt \in Rtts}

\* What one step may make of a thread.
EchoStep(t) ==
  CASE t.st = "start"   -> {[t EXCEPT !.st = "resolve"]}
    [] t.st = "resolve" -> {Resolve(t, r, c) : r \in Resolutions(t.type), c \in BOOLEAN}
    [] t.st = "send"    -> {Send(t, sent) : sent \in BOOLEAN}
    [] OTHER            -> Received(t)

NewThread(b) == [st |-> "start", type |-> b.address_type, retries |-> 0, distance |-> 0,
                 outcome |-> "answered"]

Allocated(id) == \E i \in DOMAIN list : list[i].id = id

\* The arguments are read first; they may be gone by then.
TimeBroker(id) ==
  /\ id \in DOMAIN threads /\ threads[id].st \in {"start", "resolve", "send", "wait"}
  /\ \E t \in EchoStep(threads[id]) : threads' = [threads EXCEPT ![id] = t]
  /\ ghost' = [ghost EXCEPT !.wild = @ \/ ~Allocated(id)
                                     \/ (threads[id].st = "start" /\ id[1] \in argsFreed)]
  /\ UNCHANGED <<pc, list, next, sorted, argsFreed, status, round, attributes>>

\* broker->distance = distance, and the end of the thread.
SetDistance(id) ==
  /\ id \in DOMAIN threads /\ threads[id].st = "write"
  /\ threads' = [threads EXCEPT ![id].st = "exited"]
  /\ list' = [i \in DOMAIN list |->
               IF list[i].id = id THEN [list[i] EXCEPT !.distance = threads[id].distance] ELSE list[i]]
  /\ ghost' = [ghost EXCEPT !.wild = @ \/ ~Allocated(id),
                            !.outcome[id[2]] = IF Allocated(id) THEN threads[id].outcome ELSE @]
  /\ UNCHANGED <<pc, next, sorted, argsFreed, status, round, attributes>>

-----------------------------------------------------------------------------
(* The main thread                                                         *)

Return(st) == pc' = "idle" /\ status' = st

\* tspHandleRedirect up to the sorting: only a list of several is sorted.  (A
\* document at which the process dies ends it all: TspSession.)
tspHandleRedirect(payload) ==
  /\ pc = "idle"
  /\ \E parsed \in tspExtractPayload(payload, attributes) :
       LET created == tspCreateBrokerList(parsed.t) IN
       /\ ~parsed.dead
       /\ attributes' = parsed.attributes
       /\ IF parsed.rc # 0
          THEN Return("CANT_EXTRACT_PAYLOAD") /\ UNCHANGED <<list, round>>
          ELSE /\ list' = created.list
               /\ round' = round + 1
               /\ IF ~created.ok THEN Return("CANT_CREATE_LIST")
                  ELSE CASE created.list = <<>>   -> Return("EMPTY_BROKER_LIST")
                         [] Len(created.list) = 1 -> Return("OK")
                         [] OTHER                 -> pc' = "allocate" /\ UNCHANGED status
  /\ next' = 1
  /\ ghost' = [ghost EXCEPT !.outcome = NoOutcome]
  /\ UNCHANGED <<sorted, threads, argsFreed>>

\* The arrays of tspGetBrokerDistances.
AllocateArrays(ok) ==
  /\ pc = "allocate"
  /\ IF ok THEN pc' = "create" /\ UNCHANGED status ELSE Return("CANT_SORT_LIST")
  /\ UNCHANGED <<list, next, sorted, threads, argsFreed, round, attributes, ghost>>

\* A thread that cannot be created ends it all; the earlier ones run on.
CreateThread(ok) ==
  /\ pc = "create" /\ next <= Len(list)
  /\ IF ok
     THEN /\ threads' = [id \in DOMAIN threads \cup {list[next].id} |->
                      IF id = list[next].id THEN NewThread(list[next]) ELSE threads[id]]
          /\ next' = next + 1
          /\ UNCHANGED <<pc, status, argsFreed, ghost>>
     ELSE /\ Return("CANT_SORT_LIST")
          /\ argsFreed' = argsFreed \cup {round}
          /\ ghost' = [ghost EXCEPT !.uncreated = TRUE]
          /\ UNCHANGED <<next, threads>>
  /\ UNCHANGED <<list, sorted, round, attributes>>

AllCreated ==
  /\ pc = "create" /\ next > Len(list)
  /\ pc' = "join" /\ next' = 1
  /\ UNCHANGED <<list, sorted, threads, argsFreed, status, round, attributes, ghost>>

JoinThreadAtOnce ==
  /\ pc = "join" /\ next <= Len(list)
  /\ next' = next + 1
  /\ UNCHANGED <<pc, list, sorted, threads, argsFreed, status, round, attributes, ghost>>

\* The status of the thread is logged only.
JoinThread ==
  /\ pc = "join" /\ next <= Len(list)
  /\ threads[list[next].id].st = "exited"
  /\ threads' = [id \in DOMAIN threads \ {list[next].id} |-> threads[id]]
  /\ next' = next + 1
  /\ UNCHANGED <<pc, list, sorted, argsFreed, status, round, attributes, ghost>>

AllJoined ==
  /\ pc = "join" /\ next > Len(list)
  /\ pc' = "sort" /\ next' = 1 /\ sorted' = <<>>
  /\ argsFreed' = argsFreed \cup {round}
  /\ UNCHANGED <<list, threads, status, round, attributes, ghost>>

\* A copy of the broker reached; without the memory for it the list stays as it
\* was received.
SortBroker(ok) ==
  /\ pc = "sort" /\ next <= Len(list)
  /\ IF ok
     THEN /\ sorted' = tspInsertInBrokerList(sorted, list[next])
          /\ next' = next + 1
          /\ UNCHANGED <<pc, status>>
     ELSE Return("CANT_SORT_LIST") /\ sorted' = <<>> /\ UNCHANGED next
  /\ UNCHANGED <<list, threads, argsFreed, round, attributes, ghost>>

\* The copies take the place of the list.
AllSorted ==
  /\ pc = "sort" /\ next > Len(list)
  /\ list' = sorted /\ sorted' = <<>> /\ Return("OK")
  /\ UNCHANGED <<next, threads, argsFreed, round, attributes, ghost>>

\* The main loop has done with the list.
tspFreeBrokerList ==
  /\ pc = "idle" /\ list # <<>>
  /\ list' = <<>>
  /\ UNCHANGED <<pc, next, sorted, threads, argsFreed, status, round, attributes, ghost>>

Finished == pc = "idle" /\ round = MaxRedirects /\ UNCHANGED vars

Init ==
  /\ pc = "idle" /\ list = <<>> /\ next = 1 /\ sorted = <<>> /\ threads = <<>> /\ argsFreed = {}
  /\ status = "none" /\ round = 0 /\ attributes = Unset
  /\ ghost = [outcome |-> NoOutcome,
              uncreated |-> FALSE, wild |-> FALSE]

Main ==
  \/ \E ok \in BOOLEAN : AllocateArrays(ok) \/ CreateThread(ok) \/ SortBroker(ok)
  \/ AllCreated \/ JoinThread \/ AllJoined \/ AllSorted

Next ==
  \/ \E n \in 1 .. MaxRedirects : \E payload \in Payloads[n] : round + 1 = n /\ tspHandleRedirect(payload)
  \/ \E id \in Ids : TimeBroker(id) \/ SetDistance(id)
  \/ Main \/ tspFreeBrokerList \/ Finished

\* The threads are scheduled, and select() returns at its timeout.
Spec ==
  /\ Init /\ [][Next]_vars
  /\ WF_vars(Main)
  /\ \A id \in Ids : WF_vars(TimeBroker(id) \/ SetDistance(id))

-----------------------------------------------------------------------------
(* Properties                                                              *)

\* An answer came; none from a usable broker; the family is the wrong one.
Rank(b) == [answered |-> 0, failed |-> 1, wrong |-> 2][ghost.outcome[b.id[2]]]

\* A list that tspHandleRedirect() returned and that had to be sorted is in the
\* order of the distances that all its threads found, whatever order they ran
\* in: the brokers that answered, then those that did not, then those of the
\* wrong address family (the comments at net_echo_request.c:509 and 514).
SortedByEcho ==
  pc = "idle" /\ status = "OK" /\ Len(list) > 1 /\ ~ghost.wild =>
    \A i, j \in DOMAIN list : i < j =>
      /\ list[i].distance <= list[j].distance
      /\ Rank(list[i]) <= Rank(list[j])

\* A thread uses memory that was freed only in a process in which a thread
\* could not be created: joining the threads protects the list and arguments.
FreedOnlyUncreated == ghost.wild => ghost.uncreated

\* The handling of a redirection ends, whatever the brokers answer.
HandlingEnds == pc # "idle" ~> pc = "idle"
=============================================================================
