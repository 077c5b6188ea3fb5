-------------------------------- MODULE Rudp --------------------------------
(***************************************************************************)
(* Reliable UDP, the transport of the TSP session for V6UDPV4 tunnels:     *)
(* gogoc-tsp/src/net/net_rudp.c, as tspSetupTunnel() uses it through       *)
(* tspConnect(), tspSendRecv() and tspClose() (src/tsp/tsp_net.c).         *)
(*                                                                         *)
(* One engine, the global rttengine_stats, serves one connection after the *)
(* other: its retransmission timeout, its counters and the address of the  *)
(* server are kept between calls.  A request is sent again until its reply *)
(* comes; replies are matched by sequence number, and may be lost, late,   *)
(* duplicated or left over from an earlier exchange.                       *)
(*                                                                         *)
(* Time is counted in seconds.  The smoothed round-trip times are left     *)
(* out: rttengine_update() may compute any timeout of the set RTOs.        *)
(***************************************************************************)
EXTENDS Integers

CONSTANTS
  Hosts,              \* servers, by name; each has one address
  RTTENGINE_TMIN,     \* smallest and largest retransmission timeout
  RTTENGINE_TMAX,
  RTTENGINE_MAXRTT,   \* transmissions to a server that never answered
  RTTENGINE_MAXRT,    \* transmissions to one that did
  RTOs,               \* srtt + 4 * rttvar, for the round trips explored
  MaxExchanges        \* bound: exchanges of a connection

VARIABLES
  pc,
  host,               \* the host the caller asked to connect to
  peer,               \* the host the socket is connected to
  result,             \* of the last call
  \* rttengine_stats
  initiated, sai, sequence, retries, has_peer, apply_backoff, rto,
  \* The exchange in progress.
  omh_sequence,       \* sequence number of the request
  tv_sel,             \* what select() is given, less what the kernel counted
  elapsed,            \* seconds since tv_beg
  \* The network.
  replies,            \* replies that may still come, each any number of times
  \* History.
  exchange,           \* number of the exchange, in this connection
  answer,             \* the exchange that the last reply accepted belongs to
  sends,              \* transmissions of the request
  since_send          \* seconds since the last one

engine   == <<initiated, sai, sequence, retries, has_peer, apply_backoff, rto>>
waiting  == <<omh_sequence, tv_sel, elapsed, since_send>>
history  == <<exchange, answer, sends>>
vars     == <<pc, host, peer, result, engine, waiting, replies, history>>

-----------------------------------------------------------------------------
NULL == "NULL"

\* rttengine_init(): the first sequence number, whose low byte is 0xf0.
FirstSequence == 240

ASSUME HostsAssumption == NULL \notin Hosts

ASSUME TimeoutAssumption ==
  /\ RTTENGINE_TMIN \in Nat \ {0}
  /\ RTTENGINE_TMAX \in Nat
  /\ RTTENGINE_TMIN <= RTTENGINE_TMAX
  /\ RTOs \subseteq Nat

ASSUME RetryAssumption ==
  /\ RTTENGINE_MAXRTT \in Nat \ {0}
  /\ RTTENGINE_MAXRT \in Nat
  /\ RTTENGINE_MAXRTT < RTTENGINE_MAXRT
  /\ MaxExchanges \in Nat

\* Mutant: no upper limit.
AdjustedBelowOnly(t) == IF t < RTTENGINE_TMIN THEN RTTENGINE_TMIN ELSE t

internal_get_adjusted_rto(t) ==
  IF t < RTTENGINE_TMIN THEN RTTENGINE_TMIN
  ELSE IF t > RTTENGINE_TMAX THEN RTTENGINE_TMAX
  ELSE t

\* memset() clears rttengine_stats.
Init ==
  /\ pc = "closed"
  /\ host = NULL
  /\ peer = NULL
  /\ result = "none"
  /\ initiated = FALSE
  /\ sai = NULL
  /\ sequence = 0
  /\ retries = 0
  /\ has_peer = FALSE
  /\ apply_backoff = FALSE
  /\ rto = 0
  /\ omh_sequence = 0
  /\ tv_sel = 0
  /\ elapsed = 0
  /\ replies = {}
  /\ exchange = 0
  /\ answer = 0
  /\ sends = 0
  /\ since_send = 0

\* Mutant: the timeout of the previous connection is kept.
InitKeepsTimeout ==
  IF initiated
  THEN UNCHANGED <<sequence, retries, has_peer, apply_backoff, rto>>
  ELSE /\ sequence' = FirstSequence
       /\ retries' = 0
       /\ has_peer' = FALSE
       /\ apply_backoff' = FALSE
       /\ rto' = IF rto = 0 THEN RTTENGINE_TMIN ELSE rto

\* NetRUDPInit(), if the engine is not initialised.
NetRUDPInit ==
  IF initiated
  THEN UNCHANGED <<sequence, retries, has_peer, apply_backoff, rto>>
  ELSE /\ sequence' = FirstSequence
       /\ retries' = 0
       /\ has_peer' = FALSE
       /\ apply_backoff' = FALSE
       /\ rto' = RTTENGINE_TMIN

\* rttengine_deinit(): drops the cached address.
rttengine_deinit ==
  /\ initiated' = FALSE
  /\ sai' = NULL
  /\ UNCHANGED <<sequence, retries, has_peer, rto>>

\* internal_get_sai(): the address that is cached, or that of the host.
internal_get_sai(h) == IF sai # NULL THEN sai ELSE h

\* NetRUDPConnect().  A new socket receives none of the old one's replies.
NetRUDPConnect(h) ==
  /\ pc = "closed"
  /\ NetRUDPInit
  /\ initiated' = TRUE
  /\ sai' = internal_get_sai(h)
  /\ host' = h
  /\ peer' = sai'
  /\ replies' = {}
  /\ exchange' = 0
  /\ answer' = 0
  /\ sends' = 0
  /\ result' = "success"
  /\ pc' = "connected"
  /\ UNCHANGED waiting

\* The host cannot be resolved; nothing was cached.
ResolveFails(h) ==
  /\ pc = "closed"
  /\ sai = NULL
  /\ NetRUDPInit
  /\ initiated' = TRUE
  /\ result' = "ERR_FAIL_RESOLV_ADDR"
  /\ UNCHANGED <<pc, host, peer, sai, waiting, replies, history>>

\* socket() or connect() fails: the address stays in the engine.
ConnectFails(h) ==
  /\ pc = "closed"
  /\ NetRUDPInit
  /\ initiated' = TRUE
  /\ sai' = internal_get_sai(h)
  /\ result' = "ERR_FAIL_SOCKET_CONNECT"
  /\ UNCHANGED <<pc, host, peer, waiting, replies, history>>

-----------------------------------------------------------------------------
(* internal_send_recv().                                                    *)

\* Mutant: all requests have the same number.
StampRequestAlways ==
  /\ pc = "connected"
  /\ initiated
  /\ exchange < MaxExchanges
  /\ omh_sequence' = sequence
  /\ sequence' = sequence
  /\ exchange' = exchange + 1
  /\ sends' = 0
  /\ pc' = "sendloop"
  /\ UNCHANGED <<host, peer, result, initiated, sai, retries, has_peer,
                 apply_backoff, rto, tv_sel, elapsed, since_send, replies, answer>>

\* The request gets the next sequence number.
StampRequest ==
  /\ pc = "connected"
  /\ initiated
  /\ exchange < MaxExchanges
  /\ omh_sequence' = sequence
  /\ sequence' = sequence + 1
  /\ exchange' = exchange + 1
  /\ sends' = 0
  /\ pc' = "sendloop"
  /\ UNCHANGED <<host, peer, result, initiated, sai, retries, has_peer,
                 apply_backoff, rto, tv_sel, elapsed, since_send, replies, answer>>

\* An exchange fails: the engine is reset, and the caller closes.
ExchangeFails ==
  /\ rttengine_deinit
  /\ result' = "ERR_SOCKET_IO"
  /\ pc' = "failed"
  /\ UNCHANGED <<host, peer, waiting, replies, history>>

\* "if we do have a peer, then now is a good time to apply exponential backoff"
ApplyBackoff ==
  apply_backoff' = (apply_backoff \/ (retries = RTTENGINE_MAXRTT /\ has_peer))

\* Mutant: the limit for a server that never answered is forgotten.
TooManySendsOneLimit == retries = RTTENGINE_MAXRT

TooManySends ==
  \/ retries = RTTENGINE_MAXRTT /\ ~has_peer
  \/ retries = RTTENGINE_MAXRT

GiveUp ==
  /\ pc = "sendloop"
  /\ TooManySends
  /\ ApplyBackoff
  /\ ExchangeFails

SendFails ==
  /\ pc = "sendloop"
  /\ ~TooManySends
  /\ ApplyBackoff
  /\ ExchangeFails

\* The request is sent; its reply may come, now or later, or be lost.
Send ==
  /\ pc = "sendloop"
  /\ ~TooManySends
  /\ ApplyBackoff
  /\ sends' = sends + 1
  /\ tv_sel' = rto
  /\ elapsed' = 0
  /\ since_send' = 0
  /\ replies' = replies \cup {[sequence |-> omh_sequence, exchange |-> exchange]}
  /\ pc' = "selectloop"
  /\ UNCHANGED <<host, peer, result, initiated, sai, sequence, retries, has_peer,
                 rto, omh_sequence, exchange, answer>>

\* Mutant: the retransmission is not counted.
SelectTimeoutUncounted ==
  /\ pc = "selectloop"
  /\ tv_sel = 0
  /\ rto' = IF apply_backoff THEN internal_get_adjusted_rto(2 * rto) ELSE rto
  /\ sends' = 0
  /\ pc' = "sendloop"
  /\ UNCHANGED <<host, peer, result, initiated, sai, sequence, retries, has_peer,
                 apply_backoff, waiting, replies, exchange, answer>>

\* select() times out: send again, after a longer time if the server is known.
SelectTimeout ==
  /\ pc = "selectloop"
  /\ tv_sel = 0
  /\ rto' = IF apply_backoff THEN internal_get_adjusted_rto(2 * rto) ELSE rto
  /\ retries' = retries + 1
  /\ pc' = "sendloop"
  /\ UNCHANGED <<host, peer, result, initiated, sai, sequence, has_peer,
                 apply_backoff, waiting, replies, history>>

\* select() fails on a negative time or a signal, recv() on an ICMP error.
SelectOrRecvFails ==
  /\ pc = "selectloop"
  /\ ExchangeFails
  /\ UNCHANGED apply_backoff

\* The reply to the request: rttengine_update(), has_peer and retries.
AcceptReply ==
  /\ pc = "selectloop"
  /\ tv_sel >= 0
  /\ \E r \in replies :
       /\ r.sequence = omh_sequence
       /\ answer' = r.exchange
  /\ \E t \in RTOs : rto' = internal_get_adjusted_rto(t)
  /\ has_peer' = TRUE
  /\ retries' = 0
  /\ result' = "success"
  /\ pc' = "connected"
  /\ UNCHANGED <<host, peer, initiated, sai, sequence, apply_backoff, waiting,
                 replies, exchange, sends>>

\* Mutant: waits for the whole timeout again.
IgnoreReplyRestarts ==
  /\ pc = "selectloop"
  /\ tv_sel >= 0
  /\ \E r \in replies : r.sequence # omh_sequence
  /\ tv_sel' = rto
  /\ elapsed' = 0
  /\ UNCHANGED <<pc, host, peer, result, engine, omh_sequence, since_send, replies,
                 history>>

\* Another reply: wait for what the code takes for the remaining time.  The
\* kernel has already taken the time elapsed off tv_sel.
IgnoreReply ==
  /\ pc = "selectloop"
  /\ tv_sel >= 0
  /\ \E r \in replies : r.sequence # omh_sequence
  /\ tv_sel' = tv_sel - elapsed
  /\ elapsed' = 0
  /\ UNCHANGED <<pc, host, peer, result, engine, omh_sequence, since_send, replies,
                 history>>

\* A second passes in select().
Tick ==
  /\ pc = "selectloop"
  /\ tv_sel > 0
  /\ tv_sel' = tv_sel - 1
  /\ elapsed' = elapsed + 1
  /\ since_send' = since_send + 1
  /\ UNCHANGED <<pc, host, peer, result, engine, omh_sequence, replies, history>>

\* NetRUDPClose(), at the end of a session and after every failed exchange.
NetRUDPClose ==
  /\ pc \in {"connected", "failed"}
  /\ rttengine_deinit
  /\ pc' = "closed"
  /\ UNCHANGED <<host, peer, result, apply_backoff, waiting, replies, history>>

Exchange == \/ GiveUp \/ SendFails \/ Send \/ SelectTimeout \/ SelectOrRecvFails
            \/ AcceptReply \/ IgnoreReply

Next ==
  \/ \E h \in Hosts : NetRUDPConnect(h) \/ ResolveFails(h) \/ ConnectFails(h)
  \/ StampRequest
  \/ Exchange
  \/ Tick
  \/ NetRUDPClose

\* The client goes on with an exchange it has started, and time passes.
Spec == Init /\ [][Next]_vars /\ WF_vars(Exchange) /\ WF_vars(Tick)

-----------------------------------------------------------------------------
(* Properties.                                                              *)

\* Types; the timeout stays within its limits once the engine is initialised.
TypeOK ==
  /\ pc \in {"closed", "connected", "sendloop", "selectloop", "failed"}
  /\ host \in Hosts \cup {NULL}
  /\ peer \in Hosts \cup {NULL}
  /\ result \in {"none", "success", "ERR_SOCKET_IO", "ERR_FAIL_SOCKET_CONNECT",
                 "ERR_FAIL_RESOLV_ADDR"}
  /\ initiated \in BOOLEAN
  /\ sai \in Hosts \cup {NULL}
  /\ sequence \in Nat
  /\ retries \in 0..RTTENGINE_MAXRT
  /\ has_peer \in BOOLEAN
  /\ apply_backoff \in BOOLEAN
  /\ rto \in Nat
  /\ initiated => rto \in RTTENGINE_TMIN..RTTENGINE_TMAX
  /\ omh_sequence \in Nat
  /\ tv_sel \in Int
  /\ elapsed \in Nat
  /\ since_send \in Nat
  /\ replies \subseteq [sequence : Nat, exchange : 1..MaxExchanges]
  /\ exchange \in 0..MaxExchanges
  /\ answer \in 0..MaxExchanges
  /\ sends \in Nat

\* The reply an exchange returns is the one to its own request, whatever earlier
\* and duplicated replies the socket delivers.
RightAnswer == pc = "connected" => answer = exchange

\* A request is sent at most RTTENGINE_MAXRT times, and at most
\* RTTENGINE_MAXRTT times to a server that has not answered yet, although the
\* count is kept in the engine from one exchange to the next.
SendsBounded ==
  pc \in {"sendloop", "selectloop"} =>
    sends <= IF has_peer THEN RTTENGINE_MAXRT ELSE RTTENGINE_MAXRTT

\* The timeout only leaves its initial value for a server that has answered: a
\* server that is down is given up after RTTENGINE_MAXRTT times RTTENGINE_TMIN.
BackoffNeedsPeer == initiated /\ ~has_peer => rto = RTTENGINE_TMIN

\* A request that got no reply is sent again (or given up) no later than the
\* timeout after it was sent, however many replies that are not its own wake
\* select() up meanwhile.
RetransmitInTime == pc = "selectloop" => tv_sel + since_send <= rto

\* An exchange ends, with a reply or an error.
ExchangeEnds == pc \in {"sendloop", "selectloop"} ~> pc \in {"connected", "failed"}

=============================================================================
