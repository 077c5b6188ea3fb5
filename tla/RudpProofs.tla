----------------------------- MODULE RudpProofs -----------------------------
(***************************************************************************)
(* Proofs about the reliable UDP transport, for any number of servers and  *)
(* exchanges and any limits of the retransmission engine.                  *)
(***************************************************************************)
EXTENDS Rudp, TLAPS

\* A timeout that is adjusted is within its limits.
LEMMA AdjustedRto ==
  ASSUME NEW t \in Nat
  PROVE  internal_get_adjusted_rto(t) \in RTTENGINE_TMIN..RTTENGINE_TMAX
BY TimeoutAssumption DEF internal_get_adjusted_rto

-----------------------------------------------------------------------------
(* The engine is fresh whenever a connection starts, and a peer is needed for *)
(* anything but the smallest timeout.                                         *)
EngineInv ==
  /\ pc \in {"connected", "sendloop", "selectloop"} => initiated
  /\ initiated /\ ~has_peer => rto = RTTENGINE_TMIN /\ ~apply_backoff
  /\ pc = "closed" /\ initiated => ~has_peer /\ retries = 0

(* Sequence numbers follow the exchanges, so that a reply names its exchange. *)
SequenceInv ==
  /\ pc = "closed" /\ initiated => sequence = FirstSequence
  /\ pc \in {"connected", "sendloop", "selectloop"} => sequence = FirstSequence + exchange
  /\ pc \in {"sendloop", "selectloop"} =>
       exchange >= 1 /\ omh_sequence = FirstSequence + exchange - 1
  /\ pc # "closed" => \A r \in replies : r.sequence = FirstSequence + r.exchange - 1
  /\ pc = "connected" => answer = exchange

(* The count of retries is the count of transmissions.                        *)
RetryInv ==
  /\ pc = "connected" => retries = 0
  /\ pc = "sendloop" =>
       sends = retries /\ (~has_peer => retries <= RTTENGINE_MAXRTT)
  /\ pc = "selectloop" =>
       /\ sends = retries + 1
       /\ retries < RTTENGINE_MAXRT
       /\ ~has_peer => retries < RTTENGINE_MAXRTT

IInv == TypeOK /\ EngineInv /\ SequenceInv /\ RetryInv /\ RetransmitInTime

-----------------------------------------------------------------------------
(* TypeOK, split by what the provers need for its parts.                      *)
FlagType ==
  /\ initiated \in BOOLEAN
  /\ has_peer \in BOOLEAN
  /\ apply_backoff \in BOOLEAN

NameType ==
  /\ pc \in {"closed", "connected", "sendloop", "selectloop", "failed"}
  /\ host \in Hosts \cup {NULL}
  /\ peer \in Hosts \cup {NULL}
  /\ result \in {"none", "success", "ERR_SOCKET_IO", "ERR_FAIL_SOCKET_CONNECT",
                 "ERR_FAIL_RESOLV_ADDR"}
  /\ sai \in Hosts \cup {NULL}

NumberType ==
  /\ sequence \in Nat
  /\ retries \in 0..RTTENGINE_MAXRT
  /\ rto \in Nat
  /\ initiated => rto \in RTTENGINE_TMIN..RTTENGINE_TMAX
  /\ omh_sequence \in Nat
  /\ tv_sel \in Int
  /\ elapsed \in Nat
  /\ since_send \in Nat
  /\ exchange \in 0..MaxExchanges
  /\ answer \in 0..MaxExchanges
  /\ sends \in Nat

ReplyType == replies \subseteq [sequence : Nat, exchange : 1..MaxExchanges]

\* The four parts make up the type invariant of the transport.
LEMMA TypeParts == TypeOK <=> FlagType /\ NameType /\ NumberType /\ ReplyType
BY DEF TypeOK, FlagType, NameType, NumberType, ReplyType

\* The engine starts uninitialised, with no connection.
LEMMA InitInv == Init => IInv
<1> SUFFICES ASSUME Init PROVE IInv
  OBVIOUS
<1>1. FlagType
  BY Zenon DEF Init, FlagType
<1>2. NameType
  BY DEF Init, NameType
<1>3. NumberType /\ ReplyType
  BY RetryAssumption DEF Init, NumberType, ReplyType
<1>4. EngineInv /\ SequenceInv /\ RetryInv
  BY DEF Init, EngineInv, SequenceInv, RetryInv
<1>5. RetransmitInTime
  BY DEF Init, RetransmitInTime
<1> QED BY <1>1, <1>2, <1>3, <1>4, <1>5, TypeParts DEF IInv

\* Each step of the transport keeps the flags of the engine Boolean.
LEMMA FlagStep == IInv /\ [Next]_vars => FlagType'
<1> SUFFICES ASSUME IInv, [Next]_vars PROVE FlagType'
  OBVIOUS
<1>0. FlagType
  BY TypeParts DEF IInv
<1> USE <1>0 DEF FlagType
<1>1. ASSUME NEW h \in Hosts, NetRUDPConnect(h) \/ ResolveFails(h) \/ ConnectFails(h)
      PROVE  FlagType'
  BY <1>1, Zenon DEF NetRUDPConnect, ResolveFails, ConnectFails, NetRUDPInit
<1>2. CASE StampRequest \/ SelectTimeout \/ AcceptReply
  BY <1>2, Zenon DEF StampRequest, SelectTimeout, AcceptReply
<1>3. CASE GiveUp \/ SendFails \/ SelectOrRecvFails \/ NetRUDPClose
  BY <1>3, Zenon DEF GiveUp, SendFails, SelectOrRecvFails, ExchangeFails, NetRUDPClose,
                     rttengine_deinit, ApplyBackoff
<1>4. CASE Send
  BY <1>4, Zenon DEF Send, ApplyBackoff
<1>5. CASE IgnoreReply \/ Tick \/ UNCHANGED vars
  BY <1>5, Zenon DEF IgnoreReply, Tick, vars, engine
<1> QED BY <1>1, <1>2, <1>3, <1>4, <1>5 DEF Next, Exchange

\* Each step of the transport keeps the types of names and results.
LEMMA NameStep == IInv /\ [Next]_vars => NameType'
<1> SUFFICES ASSUME IInv, [Next]_vars PROVE NameType'
  OBVIOUS
<1>0. NameType
  BY TypeParts DEF IInv
<1> USE <1>0 DEF NameType
<1>1. ASSUME NEW h \in Hosts, NetRUDPConnect(h) \/ ResolveFails(h) \/ ConnectFails(h)
      PROVE  NameType'
  BY <1>1 DEF NetRUDPConnect, ResolveFails, ConnectFails, internal_get_sai
<1>2. CASE StampRequest \/ SelectTimeout \/ AcceptReply \/ Send
  BY <1>2 DEF StampRequest, SelectTimeout, AcceptReply, Send
<1>3. CASE GiveUp \/ SendFails \/ SelectOrRecvFails \/ NetRUDPClose
  BY <1>3 DEF GiveUp, SendFails, SelectOrRecvFails, ExchangeFails, NetRUDPClose,
              rttengine_deinit
<1>4. CASE IgnoreReply \/ Tick \/ UNCHANGED vars
  BY <1>4 DEF IgnoreReply, Tick, vars, engine
<1> QED BY <1>1, <1>2, <1>3, <1>4 DEF Next, Exchange

\* Each step of the transport keeps its numbers, and the timeout, in range.
LEMMA NumberStep == IInv /\ [Next]_vars => NumberType'
<1> SUFFICES ASSUME IInv, [Next]_vars PROVE NumberType'
  OBVIOUS
<1>0. NumberType /\ ReplyType /\ EngineInv /\ RetryInv
  BY TypeParts DEF IInv
<1> USE <1>0, TimeoutAssumption, RetryAssumption DEF NumberType
<1>1. ASSUME NEW h \in Hosts, NetRUDPConnect(h) \/ ResolveFails(h) \/ ConnectFails(h)
      PROVE  NumberType'
  <2>1. NetRUDPInit
    BY <1>1, Zenon DEF NetRUDPConnect, ResolveFails, ConnectFails
  <2>2. /\ sequence' \in Nat
        /\ retries' \in 0..RTTENGINE_MAXRT
        /\ rto' \in Nat
        /\ rto' \in RTTENGINE_TMIN..RTTENGINE_TMAX
    <3>1. CASE initiated
      BY <2>1, <3>1 DEF NetRUDPInit
    <3>2. CASE ~initiated
      <4>1. sequence' = FirstSequence /\ retries' = 0 /\ rto' = RTTENGINE_TMIN
        BY <2>1, <3>2, Zenon DEF NetRUDPInit
      <4> QED BY <4>1 DEF FirstSequence
    <3> QED BY <3>1, <3>2
  <2>3. /\ UNCHANGED waiting
        /\ exchange' \in {0, exchange} /\ answer' \in {0, answer} /\ sends' \in {0, sends}
    BY <1>1, Zenon DEF NetRUDPConnect, ResolveFails, ConnectFails, history
  <2> QED BY <2>2, <2>3 DEF waiting
<1>2. CASE StampRequest
  BY <1>2 DEF StampRequest
<1>3. CASE GiveUp \/ SendFails \/ SelectOrRecvFails \/ NetRUDPClose
  <2>1. /\ ~initiated'
        /\ UNCHANGED <<sequence, retries, rto, waiting, history>>
    BY <1>3, Zenon DEF GiveUp, SendFails, SelectOrRecvFails, ExchangeFails, NetRUDPClose,
                rttengine_deinit
  <2> QED BY <2>1 DEF waiting, history
<1>4. CASE Send
  <2>1. /\ UNCHANGED <<initiated, sequence, retries, rto, omh_sequence, exchange, answer>>
        /\ tv_sel' = rto /\ elapsed' = 0 /\ since_send' = 0 /\ sends' = sends + 1
    BY <1>4 DEF Send
  <2> QED BY <2>1
<1>5. CASE SelectTimeout
  <2>1. /\ UNCHANGED <<initiated, sequence, waiting, history>>
        /\ pc = "selectloop" /\ retries' = retries + 1
        /\ rto' \in {rto, internal_get_adjusted_rto(2 * rto)}
    BY <1>5 DEF SelectTimeout
  <2>2. internal_get_adjusted_rto(2 * rto) \in RTTENGINE_TMIN..RTTENGINE_TMAX
    BY AdjustedRto
  <2>3. retries < RTTENGINE_MAXRT
    BY <2>1 DEF RetryInv
  <2> QED BY <2>1, <2>2, <2>3 DEF waiting, history
<1>6. CASE AcceptReply
  <2>1. PICK r \in replies : answer' = r.exchange
    BY <1>6 DEF AcceptReply
  <2>2. answer' \in 1..MaxExchanges
    BY <2>1 DEF ReplyType
  <2>3. /\ UNCHANGED <<initiated, sequence, waiting, exchange, sends>>
        /\ rto' \in RTTENGINE_TMIN..RTTENGINE_TMAX /\ retries' = 0
    BY <1>6, AdjustedRto DEF AcceptReply
  <2> QED BY <2>2, <2>3 DEF waiting
<1>7. CASE IgnoreReply \/ Tick \/ UNCHANGED vars
  BY <1>7 DEF IgnoreReply, Tick, vars, engine, waiting, history
<1> QED BY <1>1, <1>2, <1>3, <1>4, <1>5, <1>6, <1>7 DEF Next, Exchange

\* Each step of the transport keeps the replies to requests of this connection.
LEMMA ReplyStep == IInv /\ [Next]_vars => ReplyType'
<1> SUFFICES ASSUME IInv, [Next]_vars PROVE ReplyType'
  OBVIOUS
<1>0. NumberType /\ ReplyType /\ SequenceInv
  BY TypeParts DEF IInv
<1> USE <1>0 DEF ReplyType
<1>1. CASE Send
  <2>1. /\ pc = "sendloop"
        /\ replies' = replies \cup {[sequence |-> omh_sequence, exchange |-> exchange]}
    BY <1>1, Zenon DEF Send
  <2>2. omh_sequence \in Nat /\ exchange \in 1..MaxExchanges
    BY <2>1, RetryAssumption DEF NumberType, SequenceInv
  <2> QED BY <2>1, <2>2
<1>2. CASE \E h \in Hosts : NetRUDPConnect(h)
  <2>1. replies' = {}
    BY <1>2, Zenon DEF NetRUDPConnect
  <2> QED BY <2>1
<1>3. CASE UNCHANGED replies
  BY <1>3
<1>4. Send \/ (\E h \in Hosts : NetRUDPConnect(h)) \/ UNCHANGED replies
  BY Zenon DEF Next, Exchange, ResolveFails, ConnectFails, StampRequest, GiveUp, SendFails,
     SelectTimeout, SelectOrRecvFails, ExchangeFails, AcceptReply, IgnoreReply, Tick,
     NetRUDPClose, vars
<1> QED BY <1>1, <1>2, <1>3, <1>4

-----------------------------------------------------------------------------
(* The strengthening.                                                         *)

\* Each step of the transport keeps the engine initialised while it is
\* connected, and its timeout at the smallest value until the peer has answered.
LEMMA EngineStep == IInv /\ [Next]_vars => EngineInv'
<1> SUFFICES ASSUME IInv, [Next]_vars PROVE EngineInv'
  OBVIOUS
<1>0. FlagType /\ NumberType /\ EngineInv /\ RetryInv
  BY TypeParts DEF IInv
<1> USE <1>0
<1>1. ASSUME NEW h \in Hosts, NetRUDPConnect(h) \/ ResolveFails(h) \/ ConnectFails(h)
      PROVE  EngineInv'
  <2>1. pc = "closed" /\ NetRUDPInit /\ initiated'
    BY <1>1, Zenon DEF NetRUDPConnect, ResolveFails, ConnectFails
  <2>2. CASE initiated
    BY <2>1, <2>2, Zenon DEF NetRUDPInit, EngineInv
  <2>3. CASE ~initiated
    BY <2>1, <2>3, Zenon DEF NetRUDPInit, EngineInv
  <2> QED BY <2>2, <2>3
<1>2. CASE StampRequest
  BY <1>2, Zenon DEF StampRequest, EngineInv
<1>3. CASE GiveUp \/ SendFails \/ SelectOrRecvFails \/ NetRUDPClose
  <2>1. ~initiated' /\ pc' \in {"failed", "closed"}
    BY <1>3, Zenon DEF GiveUp, SendFails, SelectOrRecvFails, ExchangeFails, NetRUDPClose,
                rttengine_deinit
  <2> QED BY <2>1 DEF EngineInv
<1>4. CASE Send
  <2>1. /\ pc = "sendloop" /\ pc' = "selectloop"
        /\ UNCHANGED <<initiated, has_peer, rto, retries>>
        /\ ApplyBackoff
    BY <1>4, Zenon DEF Send
  <2>2. initiated /\ ~has_peer => ~apply_backoff'
    BY <2>1, Zenon DEF EngineInv, ApplyBackoff
  <2> QED BY <2>1, <2>2 DEF EngineInv
<1>5. CASE SelectTimeout
  BY <1>5, Zenon DEF SelectTimeout, EngineInv
<1>6. CASE AcceptReply
  <2>1. pc = "selectloop" /\ pc' = "connected" /\ initiated' = initiated /\ has_peer'
    BY <1>6, Zenon DEF AcceptReply
  <2> QED BY <2>1 DEF EngineInv
<1>7. CASE IgnoreReply \/ Tick \/ UNCHANGED vars
  BY <1>7 DEF IgnoreReply, Tick, vars, engine, EngineInv
<1> QED BY <1>1, <1>2, <1>3, <1>4, <1>5, <1>6, <1>7 DEF Next, Exchange

\* Each step of the transport keeps sequence numbers and exchanges in step, and
\* so returns the reply of the right exchange.
LEMMA SequenceStep == IInv /\ [Next]_vars => SequenceInv'
<1> SUFFICES ASSUME IInv, [Next]_vars PROVE SequenceInv'
  OBVIOUS
<1>0. NumberType /\ ReplyType /\ SequenceInv
  BY TypeParts DEF IInv
<1> USE <1>0
<1>1. ASSUME NEW h \in Hosts, NetRUDPConnect(h) \/ ResolveFails(h) \/ ConnectFails(h)
      PROVE  SequenceInv'
  <2>1. pc = "closed" /\ NetRUDPInit
    BY <1>1, Zenon DEF NetRUDPConnect, ResolveFails, ConnectFails
  <2>2. sequence' = FirstSequence
    BY <2>1, Zenon DEF NetRUDPInit, SequenceInv
  <2>3. \/ pc' = "connected" /\ exchange' = 0 /\ answer' = 0 /\ replies' = {}
        \/ pc' = "closed"
    BY <1>1, Zenon DEF NetRUDPConnect, ResolveFails, ConnectFails
  <2> QED BY <2>2, <2>3 DEF SequenceInv, FirstSequence
<1>2. CASE StampRequest
  <2>1. /\ pc = "connected" /\ pc' = "sendloop" /\ UNCHANGED replies
        /\ omh_sequence' = sequence /\ sequence' = sequence + 1 /\ exchange' = exchange + 1
    BY <1>2, Zenon DEF StampRequest
  <2> QED BY <2>1 DEF SequenceInv, NumberType, FirstSequence
<1>3. CASE GiveUp \/ SendFails \/ SelectOrRecvFails \/ NetRUDPClose
  <2>1. /\ ~initiated' /\ pc # "closed" /\ pc' \in {"failed", "closed"}
        /\ UNCHANGED replies
    BY <1>3 DEF GiveUp, SendFails, SelectOrRecvFails, ExchangeFails, NetRUDPClose,
                rttengine_deinit
  <2> QED BY <2>1 DEF SequenceInv
<1>4. CASE Send
  <2>1. /\ pc = "sendloop" /\ pc' = "selectloop"
        /\ UNCHANGED <<sequence, omh_sequence, exchange>>
        /\ replies' = replies \cup {[sequence |-> omh_sequence, exchange |-> exchange]}
    BY <1>4, Zenon DEF Send
  <2>2. \A r \in replies' : r.sequence = FirstSequence + r.exchange - 1
    BY <2>1 DEF SequenceInv
  <2> QED BY <2>1, <2>2 DEF SequenceInv
<1>5. CASE SelectTimeout \/ IgnoreReply \/ Tick \/ UNCHANGED vars
  <2>1. /\ UNCHANGED <<initiated, sequence, omh_sequence, exchange, answer, replies>>
        /\ \/ pc = "selectloop" /\ pc' \in {"sendloop", "selectloop"}
           \/ UNCHANGED pc
    BY <1>5 DEF SelectTimeout, IgnoreReply, Tick, vars, engine, waiting, history
  <2> QED BY <2>1 DEF SequenceInv
<1>6. CASE AcceptReply
  <2>1. /\ pc = "selectloop" /\ pc' = "connected"
        /\ UNCHANGED <<sequence, exchange, replies>>
    BY <1>6, Zenon DEF AcceptReply
  <2>2. PICK r \in replies : r.sequence = omh_sequence /\ answer' = r.exchange
    BY <1>6, Zenon DEF AcceptReply
  <2>3. r.sequence = FirstSequence + r.exchange - 1 /\ omh_sequence = FirstSequence + exchange - 1
    BY <2>1 DEF SequenceInv
  <2>4. r.exchange \in Nat /\ exchange \in Nat
    BY DEF ReplyType, NumberType
  <2>5. answer' = exchange
    <3>1. FirstSequence + r.exchange - 1 = FirstSequence + exchange - 1
      BY <2>2, <2>3
    <3>2. \A a, b \in Nat : FirstSequence + a - 1 = FirstSequence + b - 1 => a = b
      BY DEF FirstSequence
    <3>3. r.exchange = exchange
      BY <2>4, <3>1, <3>2, Zenon
    <3> QED BY <2>2, <3>3
  <2> QED BY <2>1, <2>5 DEF SequenceInv
<1> QED BY <1>1, <1>2, <1>3, <1>4, <1>5, <1>6 DEF Next, Exchange

\* Each step of the transport keeps the retries the engine counts equal to the
\* transmissions of the request.
LEMMA RetryStep == IInv /\ [Next]_vars => RetryInv'
<1> SUFFICES ASSUME IInv, [Next]_vars PROVE RetryInv'
  OBVIOUS
<1>0. NumberType /\ RetryInv /\ EngineInv
  BY TypeParts DEF IInv
<1> USE <1>0, RetryAssumption
<1>1. ASSUME NEW h \in Hosts, NetRUDPConnect(h) \/ ResolveFails(h) \/ ConnectFails(h)
      PROVE  RetryInv'
  <2>1. pc = "closed" /\ NetRUDPInit /\ pc' \in {"closed", "connected"}
    BY <1>1 DEF NetRUDPConnect, ResolveFails, ConnectFails
  <2>2. retries' = 0
    BY <2>1, Zenon DEF NetRUDPInit, EngineInv
  <2> QED BY <2>1, <2>2 DEF RetryInv
<1>2. CASE StampRequest
  <2>1. /\ pc = "connected" /\ pc' = "sendloop" /\ sends' = 0
        /\ UNCHANGED <<retries, has_peer>>
    BY <1>2, Zenon DEF StampRequest
  <2> QED BY <2>1 DEF RetryInv
<1>3. CASE GiveUp \/ SendFails \/ SelectOrRecvFails \/ NetRUDPClose
  <2>1. pc' \in {"failed", "closed"}
    BY <1>3 DEF GiveUp, SendFails, SelectOrRecvFails, ExchangeFails, NetRUDPClose
  <2> QED BY <2>1 DEF RetryInv
<1>4. CASE Send
  <2>1. /\ pc = "sendloop" /\ pc' = "selectloop" /\ sends' = sends + 1
        /\ UNCHANGED <<retries, has_peer>>
        /\ ~TooManySends
    BY <1>4, Zenon DEF Send
  <2> QED BY <2>1 DEF RetryInv, TooManySends, NumberType
<1>5. CASE SelectTimeout
  <2>1. /\ pc = "selectloop" /\ pc' = "sendloop" /\ retries' = retries + 1
        /\ UNCHANGED <<has_peer, sends>>
    BY <1>5 DEF SelectTimeout, history
  <2> QED BY <2>1 DEF RetryInv, NumberType
<1>6. CASE AcceptReply
  <2>1. pc' = "connected" /\ retries' = 0
    BY <1>6, Zenon DEF AcceptReply
  <2> QED BY <2>1 DEF RetryInv
<1>7. CASE IgnoreReply \/ Tick \/ UNCHANGED vars
  <2>1. UNCHANGED <<pc, sends, retries, has_peer>>
    BY <1>7 DEF IgnoreReply, Tick, vars, engine, history
  <2> QED BY <2>1 DEF RetryInv
<1> QED BY <1>1, <1>2, <1>3, <1>4, <1>5, <1>6, <1>7 DEF Next, Exchange

\* Each step of the transport keeps the time that select() may still wait within
\* what is left of the timeout: Send starts it, and a reply that is ignored
\* takes the elapsed time off once more.
LEMMA TimeStep == IInv /\ [Next]_vars => RetransmitInTime'
<1> SUFFICES ASSUME IInv, [Next]_vars PROVE RetransmitInTime'
  OBVIOUS
<1>0. NumberType /\ RetransmitInTime
  BY TypeParts DEF IInv
<1> USE <1>0
<1>1. CASE Send
  <2>1. UNCHANGED rto /\ tv_sel' = rto /\ since_send' = 0
    BY <1>1 DEF Send
  <2> QED BY <2>1 DEF RetransmitInTime, NumberType
<1>2. CASE IgnoreReply
  <2>1. pc = "selectloop" /\ tv_sel' = tv_sel - elapsed /\ UNCHANGED <<since_send, rto>>
    BY <1>2 DEF IgnoreReply, engine
  <2> QED BY <2>1 DEF RetransmitInTime, NumberType
<1>3. CASE Tick
  <2>1. /\ pc = "selectloop" /\ UNCHANGED rto
        /\ tv_sel' = tv_sel - 1 /\ since_send' = since_send + 1
    BY <1>3 DEF Tick, engine
  <2> QED BY <2>1 DEF RetransmitInTime, NumberType
<1>4. CASE UNCHANGED vars
  BY <1>4 DEF RetransmitInTime, vars, engine, waiting
<1>5. ASSUME NEW h \in Hosts, NetRUDPConnect(h) \/ ResolveFails(h) \/ ConnectFails(h)
      PROVE  RetransmitInTime'
  <2>1. pc' \in {"closed", "connected"}
    BY <1>5 DEF NetRUDPConnect, ResolveFails, ConnectFails
  <2> QED BY <2>1 DEF RetransmitInTime
<1>6. CASE \/ StampRequest \/ SelectTimeout \/ AcceptReply
           \/ GiveUp \/ SendFails \/ SelectOrRecvFails \/ NetRUDPClose
  <2>1. pc' \in {"sendloop", "connected", "failed", "closed"}
    BY <1>6 DEF StampRequest, SelectTimeout, AcceptReply, GiveUp, SendFails,
                SelectOrRecvFails, ExchangeFails, NetRUDPClose
  <2> QED BY <2>1 DEF RetransmitInTime
<1> QED BY <1>1, <1>2, <1>3, <1>4, <1>5, <1>6 DEF Next, Exchange

-----------------------------------------------------------------------------
(* The theorems.                                                              *)

\* The strengthening is an invariant of the transport.
THEOREM Inductive == Spec => []IInv
<1>1. IInv /\ [Next]_vars => IInv'
  <2> SUFFICES ASSUME IInv, [Next]_vars PROVE IInv'
    OBVIOUS
  <2>1. FlagType' /\ NameType' /\ NumberType' /\ ReplyType'
    BY FlagStep, NameStep, NumberStep, ReplyStep
  <2>2. TypeOK'
    BY <2>1 DEF TypeOK, FlagType, NameType, NumberType, ReplyType
  <2> QED BY <2>2, EngineStep, SequenceStep, RetryStep, TimeStep DEF IInv
<1> QED BY InitInv, <1>1, PTL DEF Spec

\* The variables of net_rudp.c keep their types, and the retransmission timeout
\* its limits, for any limits and servers.
THEOREM TypeCorrect == Spec => []TypeOK
<1>1. IInv => TypeOK
  BY DEF IInv
<1> QED BY Inductive, <1>1, PTL

\* internal_send_recv() returns the reply to its own request, after any number
\* of exchanges, retransmissions and stale replies.
THEOREM RightAnswers == Spec => []RightAnswer
<1>1. IInv => RightAnswer
  BY DEF IInv, SequenceInv, RightAnswer
<1> QED BY Inductive, <1>1, PTL

\* internal_send_recv() sends a request at most RTTENGINE_MAXRT times, and at
\* most RTTENGINE_MAXRTT times to a server that has not answered.
THEOREM SendsAreBounded == Spec => []SendsBounded
<1>1. IInv => SendsBounded
  <2> SUFFICES ASSUME IInv PROVE SendsBounded
    OBVIOUS
  <2>1. NumberType /\ RetryInv
    BY TypeParts DEF IInv
  <2> QED BY <2>1, RetryAssumption DEF NumberType, RetryInv, SendsBounded
<1> QED BY Inductive, <1>1, PTL

\* The timeout of a server that has not answered is not backed off.
THEOREM Backoff == Spec => []BackoffNeedsPeer
<1>1. IInv => BackoffNeedsPeer
  BY DEF IInv, EngineInv, BackoffNeedsPeer
<1> QED BY Inductive, <1>1, PTL

\* A request is sent again, or given up, no later than its timeout after it was
\* sent, whatever replies internal_send_recv() ignores meanwhile.
THEOREM RetransmitsInTime == Spec => []RetransmitInTime
<1>1. IInv => RetransmitInTime
  BY DEF IInv
<1> QED BY Inductive, <1>1, PTL

=============================================================================
