------------------------------ MODULE KeepAlive ------------------------------
(***************************************************************************)
(* The tunnel loop and its keepalive thread, on Linux and Android:         *)
(*   TunMainLoop() (platform/linux/tsp_tun.c), for V6UDPV4 tunnels,        *)
(*   tspPerformTunnelLoop() (src/tsp/tsp_tun_mgt.c), for V6V4 tunnels,     *)
(*   the keepalive engine (src/net/net_ka.c), and                          *)
(*   the ICMP echo engine in keepalive mode (src/net/icmp_echo_engine.c).  *)
(*                                                                         *)
(* The two threads share the engine: eng_ongoing, ka_status, the socket    *)
(* and the memory itself, without any lock.  Time is counted in ticks; a   *)
(* time of the code is the number of ticks left before it.  Echo requests  *)
(* and replies may be lost, delayed, duplicated and reordered.             *)
(***************************************************************************)
EXTENDS Integers, Sequences

CONSTANTS
  Loops,                  \* the loop functions explored, a subset of LoopNames
  Keepalives,             \* whether the tunnel has a keepalive interval
  Lifetimes,              \* whether the tunnel has a lease
  Intervals,              \* send_interval, in ticks
  KA_ECHO_REPLY_TIMEOUT,  \* echo_timeout, in ticks
  KA_NUM_CONSEC_TIMEOUT,  \* echo_timeout_threshold
  Faults                  \* whether system calls may fail

VARIABLES
  \* The thread of the loop.
  pc, loop, keepalive, lifetime,
  ongoing,                \* local: cleared once a stop has been seen
  status,                 \* local: the status to return
  indSigHUP,              \* set by the signal handler
  \* The engines.
  engine,                 \* the memory of KA_ENGINE_PARMS and its echo engine
  ka_status,
  eng_ongoing,
  icmp_sfd,               \* the raw socket
  send_interval,
  count_consec_late,
  event_list,             \* requests waiting for a reply, soonest first
  \* The keepalive thread.
  thread,
  sleep_time,             \* left of the sleep before the first request
  tv_reference,           \* ticks before the next request
  tv_delay,               \* ticks before select() times out
  due,                    \* time_left_ms > read_delay, when select() was called
  retval,                 \* what IEE_process() returns
  \* The network and the peer.
  peer_up,                \* whether the other end of the tunnel answers
  replies,                \* replies on their way, or waiting in the socket
  \* History.
  unanswered              \* requests expired since the last reply in time

main    == <<pc, loop, keepalive, lifetime, ongoing, status>>
shared  == <<engine, ka_status, eng_ongoing, icmp_sfd, send_interval>>
echoes  == <<count_consec_late, event_list>>
timing  == <<sleep_time, tv_reference, tv_delay, due>>
peer    == <<peer_up, replies>>
history == <<unanswered>>
vars    == <<main, indSigHUP, shared, echoes, thread, timing, retval, peer, history>>

-----------------------------------------------------------------------------
LoopNames == {"TunMainLoop", "tspPerformTunnelLoop"}

ASSUME LoopAssumption ==
  /\ Loops \subseteq LoopNames
  /\ Keepalives \subseteq BOOLEAN
  /\ Lifetimes \subseteq BOOLEAN
  /\ Faults \in BOOLEAN

\* keepalive_interval is in seconds, and 0 disables the keepalive.
ASSUME TimeAssumption ==
  /\ Intervals \subseteq Nat \ {0}
  /\ KA_ECHO_REPLY_TIMEOUT \in Nat \ {0}
  /\ KA_NUM_CONSEC_TIMEOUT \in Nat \ {0}

MainPlaces   == {"KA_init", "KA_start", "started", "check", "IEE_stop",
                 "closesocket", "join", "query", "decide", "select", "done",
                 "returned"}
ThreadPlaces == {"none", "sleep", "loop", "send", "sent", "read", "select",
                 "handled", "leave", "exited", "undefined"}
KaStatuses   == {"INVALID", "ONGOING", "FIN_SUCCESS", "FIN_TIMEOUT", "FIN_ERROR"}
IeeResults   == {"SUCCESS", "STARVATION", "TIMEOUT", "ERROR"}
LoopStatuses == {"SUCCESS", "ERR_KEEPALIVE_ERROR", "ERR_KEEPALIVE_TIMEOUT",
                 "ERR_TUNNEL_IO", "ERR_TUN_LEASE_EXPIRED"}

\* Sequence numbers are counted back from count_send: 0 is the last request
\* sent.  Requests are a tick apart at least.
SeqNumbers == 0..KA_ECHO_REPLY_TIMEOUT
Older(e)   == [e EXCEPT !.echo_seq = @ + 1]

\* An ECHO_EVENT: 'left' is tv_timeout.
Events == [echo_seq : SeqNumbers, left : 0..KA_ECHO_REPLY_TIMEOUT]

\* A reply carries the time of the request.
Replies == [echo_seq : SeqNumbers, age : 0..KA_ECHO_REPLY_TIMEOUT]

\* The thread is inside IEE_process().
Processing == thread \notin {"none", "leave", "exited", "undefined"}

Init ==
  /\ pc = "KA_init"
  /\ loop \in Loops
  /\ keepalive \in Keepalives
  /\ lifetime \in Lifetimes
  /\ lifetime => loop = "tspPerformTunnelLoop"
  /\ ongoing = TRUE
  /\ status = "SUCCESS"
  /\ indSigHUP = FALSE
  /\ engine = "NULL"
  /\ ka_status = "INVALID"
  /\ eng_ongoing = FALSE
  /\ icmp_sfd = "closed"
  /\ send_interval \in Intervals
  /\ count_consec_late = 0
  /\ event_list = <<>>
  /\ thread = "none"
  /\ sleep_time = 0
  /\ tv_reference = 0
  /\ tv_delay = 0
  /\ due = FALSE
  /\ retval = "SUCCESS"
  /\ peer_up = TRUE
  /\ replies = {}
  /\ unanswered = 0

-----------------------------------------------------------------------------
(* Starting (tsp_tun.c:94-117, tsp_tun_mgt.c:76-99).                         *)

\* No keepalive interval: straight to the loop.
NoKeepalive ==
  /\ pc = "KA_init"
  /\ ~keepalive
  /\ pc' = "check"
  /\ UNCHANGED <<loop, keepalive, lifetime, ongoing, status, indSigHUP, shared,
                 echoes, thread, timing, retval, peer, history>>

KA_init ==
  /\ pc = "KA_init"
  /\ keepalive
  /\ engine' = "ALLOCATED"
  /\ ka_status' = "INVALID"
  /\ eng_ongoing' = TRUE
  /\ icmp_sfd' = "open"
  /\ pc' = "KA_start"
  /\ UNCHANGED <<loop, keepalive, lifetime, ongoing, status, indSigHUP,
                 send_interval, echoes, thread, timing, retval, peer, history>>

\* An allocation, an address or the raw socket fails; what KA_init() had
\* allocated is freed again.
KA_init_fails ==
  /\ Faults
  /\ pc = "KA_init"
  /\ keepalive
  /\ status' = "ERR_KEEPALIVE_ERROR"
  /\ pc' = "returned"
  /\ UNCHANGED <<loop, keepalive, lifetime, ongoing, indSigHUP, shared, echoes,
                 thread, timing, retval, peer, history>>

\* pal_thread_create(): the thread runs from now on.
KA_start ==
  /\ pc = "KA_start"
  /\ thread' = "sleep"
  /\ sleep_time' = send_interval
  /\ pc' = "started"
  /\ UNCHANGED <<loop, keepalive, lifetime, ongoing, status, indSigHUP, shared,
                 echoes, tv_reference, tv_delay, due, retval, peer, history>>

KA_start_fails ==
  /\ Faults
  /\ pc = "KA_start"
  /\ status' = "ERR_KEEPALIVE_ERROR"
  /\ pc' = "done"
  /\ UNCHANGED <<loop, keepalive, lifetime, ongoing, indSigHUP, shared, echoes,
                 thread, timing, retval, peer, history>>

\* KA_start() changes the status of the engine after the thread was started.
KA_started ==
  /\ pc = "started"
  /\ ka_status' = "ONGOING"
  /\ pc' = "check"
  /\ UNCHANGED <<loop, keepalive, lifetime, ongoing, status, indSigHUP, engine,
                 eng_ongoing, icmp_sfd, send_interval, echoes, thread, timing,
                 retval, peer, history>>

-----------------------------------------------------------------------------
(* One pass of the loop (tsp_tun.c:120-214, tsp_tun_mgt.c:104-147).          *)

\* tspCheckForStopOrWait().
CheckForStop ==
  /\ pc = "check"
  /\ ongoing' = ~indSigHUP
  /\ pc' = CASE ~keepalive            -> "decide"
             [] keepalive /\ ~ongoing' -> "IEE_stop"
             [] OTHER                  -> "query"
  /\ UNCHANGED <<loop, keepalive, lifetime, status, indSigHUP, shared, echoes,
                 thread, timing, retval, peer, history>>

\* KA_stop(), first half of IEE_stop(): tell the engine.
IEE_stop ==
  /\ pc = "IEE_stop"
  /\ eng_ongoing' = FALSE
  /\ pc' = "closesocket"
  /\ UNCHANGED <<loop, keepalive, lifetime, ongoing, status, indSigHUP, engine,
                 ka_status, icmp_sfd, send_interval, echoes, thread, timing,
                 retval, peer, unanswered>>

\* Second half: close the socket, a second time if KA_stop() is called again.
IEE_close ==
  /\ pc = "closesocket"
  /\ icmp_sfd' = "closed"
  /\ pc' = "join"
  /\ UNCHANGED <<loop, keepalive, lifetime, ongoing, status, indSigHUP, engine,
                 ka_status, eng_ongoing, send_interval, echoes, thread, timing,
                 retval, peer, history>>

\* Mutant: KA_stop() returns without waiting for the thread.
KA_stop_no_join ==
  /\ pc = "join"
  /\ pc' = IF status = "SUCCESS" THEN "query" ELSE "decide"
  /\ UNCHANGED <<loop, keepalive, lifetime, ongoing, status, indSigHUP, shared,
                 echoes, thread, timing, retval, peer, history>>

\* pal_thread_join(), which fails if the thread was joined before; the result of
\* KA_stop() is not looked at.  Its callers are told apart by their status.
KA_stop_join ==
  /\ pc = "join"
  /\ thread = "exited"
  /\ pc' = IF status = "SUCCESS" THEN "query" ELSE "decide"
  /\ UNCHANGED <<loop, keepalive, lifetime, ongoing, status, indSigHUP, shared,
                 echoes, thread, timing, retval, peer, history>>

\* KA_qry_status() and the switch on it.
KA_qry_status ==
  /\ pc = "query"
  /\ status' = CASE ka_status \in {"ONGOING", "FIN_SUCCESS"} -> "SUCCESS"
                 [] ka_status = "FIN_TIMEOUT"                -> "ERR_KEEPALIVE_TIMEOUT"
                 [] OTHER                                    -> "ERR_KEEPALIVE_ERROR"
  /\ pc' = IF status' = "SUCCESS" THEN "decide" ELSE "IEE_stop"
  /\ UNCHANGED <<loop, keepalive, lifetime, ongoing, indSigHUP, shared, echoes,
                 thread, timing, retval, peer, history>>

\* tspLeaseCheckExp() says that the lease is over, whatever the keepalive said.
LeaseExpires ==
  /\ pc = "decide"
  /\ loop = "tspPerformTunnelLoop"
  /\ lifetime
  /\ status' = "ERR_TUN_LEASE_EXPIRED"
  /\ pc' = "done"
  /\ UNCHANGED <<loop, keepalive, lifetime, ongoing, indSigHUP, shared, echoes,
                 thread, timing, retval, peer, history>>

\* Mutant: a stop seen by the loop does not end it.
DecideOnStatus ==
  /\ pc = "decide"
  /\ pc' = IF status # "SUCCESS" THEN "done"
            ELSE IF loop = "TunMainLoop" THEN "select" ELSE "check"
  /\ UNCHANGED <<loop, keepalive, lifetime, ongoing, status, indSigHUP, shared,
                 echoes, thread, timing, retval, peer, history>>

\* "Check if we're normal"; the condition of the 'while'.
Decide ==
  /\ pc = "decide"
  /\ pc' = IF status # "SUCCESS" \/ ~ongoing THEN "done"
            ELSE IF loop = "TunMainLoop" THEN "select" ELSE "check"
  /\ UNCHANGED <<loop, keepalive, lifetime, ongoing, status, indSigHUP, shared,
                 echoes, thread, timing, retval, peer, history>>

\* select() on the TUN device and the socket returns: after 500 ms (one week
\* without keepalive), on a signal, or with data that is passed on.
Forward ==
  /\ pc = "select"
  /\ pc' = "check"
  /\ UNCHANGED <<loop, keepalive, lifetime, ongoing, status, indSigHUP, shared,
                 echoes, thread, timing, retval, peer, history>>

\* The data cannot be read, sent or written.
TunnelIOError ==
  /\ Faults
  /\ pc = "select"
  /\ status' = "ERR_TUNNEL_IO"
  /\ pc' = "done"
  /\ UNCHANGED <<loop, keepalive, lifetime, ongoing, indSigHUP, shared, echoes,
                 thread, timing, retval, peer, history>>

\* KA_destroy(): closes the socket again and frees both engines.
KA_destroy ==
  /\ pc = "done"
  /\ IF keepalive
     THEN engine' = "FREED" /\ icmp_sfd' = "closed" /\ event_list' = <<>>
     ELSE UNCHANGED <<engine, icmp_sfd, event_list>>
  /\ pc' = "returned"
  /\ UNCHANGED <<loop, keepalive, lifetime, ongoing, status, indSigHUP, ka_status,
                 eng_ongoing, send_interval, count_consec_late, thread, timing,
                 retval, peer, history>>

-----------------------------------------------------------------------------
(* The keepalive thread: IEE_process() and what it calls.                    *)

\* Every step of the thread reads the engine.
Running(place) == thread = place /\ engine = "ALLOCATED"

\* KA_start() returns before the first interval, of seconds, is over.
KAStartPrompt == pc = "started" => sleep_time > 1

\* The sleep before the first request, in chunks of at most one second.
SleepChunk ==
  /\ Running("sleep")
  /\ eng_ongoing
  /\ sleep_time > 0
  /\ KAStartPrompt
  /\ sleep_time' = sleep_time - 1
  /\ UNCHANGED <<main, indSigHUP, shared, echoes, thread, tv_reference, tv_delay,
                 due, retval, peer, history>>

SleepEnds ==
  /\ Running("sleep")
  /\ ~eng_ongoing \/ sleep_time = 0
  /\ thread' = "loop"
  /\ UNCHANGED <<main, indSigHUP, shared, echoes, timing, retval, peer, history>>

\* The condition of the main loop; echo_num is 0.
ProcessLoop ==
  /\ Running("loop")
  /\ thread' = IF eng_ongoing THEN "send" ELSE "leave"
  /\ UNCHANGED <<main, indSigHUP, shared, echoes, timing, retval, peer, history>>

\* _insert_echo_event(): at the end, since its timeout is the latest.
_insert_echo_event ==
  event_list' = Append([i \in DOMAIN event_list |-> Older(event_list[i])],
                       [echo_seq |-> 0, left |-> KA_ECHO_REPLY_TIMEOUT])

\* _do_send(): the request is recorded, then sent; the peer may answer.
_do_send ==
  /\ Running("send")
  /\ icmp_sfd = "open"
  /\ _insert_echo_event
  /\ replies' = {Older(r) : r \in replies}
                  \cup (IF peer_up THEN {[echo_seq |-> 0, age |-> 0]} ELSE {})
  /\ thread' = "sent"
  /\ UNCHANGED <<main, indSigHUP, shared, count_consec_late, timing, retval,
                 peer_up, history>>

\* sendto() fails, at least because the socket has been closed.
_do_send_error ==
  /\ Running("send")
  /\ Faults \/ icmp_sfd = "closed"
  /\ _insert_echo_event
  /\ retval' = "ERROR"
  /\ thread' = "leave"
  /\ UNCHANGED <<main, indSigHUP, shared, count_consec_late, timing, peer, history>>

\* The event cannot be allocated.
_do_send_starved ==
  /\ Faults
  /\ Running("send")
  /\ retval' = "STARVATION"
  /\ thread' = "leave"
  /\ UNCHANGED <<main, indSigHUP, shared, count_consec_late, event_list, timing,
                 peer, history>>

\* Mutant: the interval is not added to the time reference.
NextSendForgotten ==
  /\ Running("sent")
  /\ IF eng_ongoing THEN tv_reference' = 0 /\ thread' = "read"
                    ELSE UNCHANGED tv_reference /\ thread' = "leave"
  /\ UNCHANGED <<main, indSigHUP, shared, echoes, sleep_time, tv_delay, due,
                 retval, peer, history>>

\* Stop, or compute the time of the next request.
_compute_next_send ==
  /\ Running("sent")
  /\ IF eng_ongoing THEN tv_reference' = send_interval /\ thread' = "read"
                    ELSE UNCHANGED tv_reference /\ thread' = "leave"
  /\ UNCHANGED <<main, indSigHUP, shared, echoes, sleep_time, tv_delay, due,
                 retval, peer, history>>

\* Wait for a packet, the timeout of the first event or the next request.
EnterSelect ==
  LET read_delay == IF event_list = <<>> THEN send_interval
                                         ELSE Head(event_list).left
  IN  /\ due' = (tv_reference > read_delay)
      /\ tv_delay' = IF due' THEN read_delay ELSE tv_reference
      /\ thread' = "select"
      /\ UNCHANGED <<sleep_time, tv_reference>>

\* _do_read_wrap(): "it's already time to send a new ECHO REQUEST", or read.
BeginRead ==
  /\ Running("read")
  /\ \/ /\ tv_reference = 0
        /\ thread' = "loop"
        /\ UNCHANGED timing
     \/ tv_reference > 0 /\ EnterSelect
  /\ UNCHANGED <<main, indSigHUP, shared, echoes, retval, peer, history>>

\* "Loop until we have to stop reading packets"; IEE_process() goes on after
\* IEE_SUCCESS.
ReadAgain ==
  /\ Running("handled")
  /\ \/ tv_reference > 0 /\ eng_ongoing /\ EnterSelect
     \/ /\ tv_reference = 0 \/ ~eng_ongoing
        /\ thread' = IF retval = "SUCCESS" THEN "loop" ELSE "leave"
        /\ UNCHANGED timing
  /\ UNCHANGED <<main, indSigHUP, shared, echoes, retval, peer, history>>

\* Mutant: one late reply too many.
TooManyLateOffByOne(late) == late > KA_NUM_CONSEC_TIMEOUT

\* "the maximal number of consecutive timeouts"
TooManyLate(late) == late >= KA_NUM_CONSEC_TIMEOUT

\* The end of the switch of _do_read_wrap(), with the count of late replies and
\* the return value that its case leaves.
Handled(late, result) ==
  /\ Running("select")
  /\ count_consec_late' = late
  /\ retval' = IF TooManyLate(late) THEN "TIMEOUT" ELSE result
  /\ eng_ongoing' = (eng_ongoing /\ retval' = "SUCCESS")
  /\ thread' = "handled"
  /\ UNCHANGED <<main, engine, ka_status, icmp_sfd, send_interval, timing, peer_up>>

\* _remove_free_echo_event(): the first event with that sequence number, if any.
_remove_free_echo_event(seq) ==
  LET found == {i \in DOMAIN event_list : event_list[i].echo_seq = seq}
      first == CHOOSE i \in found : \A j \in found : i <= j
  IN  IF found = {} THEN event_list
      ELSE [i \in 1..(Len(event_list) - 1) |->
              event_list[IF i < first THEN i ELSE i + 1]]

\* Mutant: an expired request is dropped and not counted.
EchoTimeoutUncounted ==
  /\ IF due /\ event_list # <<>>
     THEN /\ event_list' = _remove_free_echo_event(Head(event_list).echo_seq)
          /\ Handled(count_consec_late, retval)
     ELSE /\ Handled(count_consec_late, retval)
          /\ UNCHANGED event_list
  /\ UNCHANGED <<unanswered, replies>>

\* READ_SELECT_TIMEOUT: the first event has expired, unless select() only waited
\* for the next request.  The history counts it if it really has.
EchoTimeout ==
  /\ IF due /\ event_list # <<>>
     THEN /\ event_list' = _remove_free_echo_event(Head(event_list).echo_seq)
          /\ Handled(count_consec_late + 1, retval)
          /\ unanswered' = IF Head(event_list).left = 0 THEN unanswered + 1
                                                        ELSE unanswered
     ELSE /\ Handled(count_consec_late, retval)
          /\ UNCHANGED <<event_list, unanswered>>
  /\ UNCHANGED replies

SelectTimeout ==
  /\ thread = "select"
  /\ tv_delay = 0
  /\ EchoTimeout
  /\ UNCHANGED indSigHUP

\* Mutant: a reply in time does not reset the count.
CountAfterReplyKept == count_consec_late

CountAfterReply == 0

\* ANAL_PACKET_PINGIN_ONTIME: from the socket, which may hold a duplicate.
ReplyInTime ==
  /\ icmp_sfd = "open"
  /\ \E r \in replies :
       /\ r.age <= KA_ECHO_REPLY_TIMEOUT
       /\ event_list' = _remove_free_echo_event(r.echo_seq)
       /\ replies' \in {replies, replies \ {r}}
  /\ Handled(CountAfterReply, retval)
  /\ unanswered' = 0
  /\ UNCHANGED indSigHUP

\* ANAL_PACKET_PINGIN_LATE, _BAD or _IGNORED: a late reply, other ICMP traffic,
\* other programs' replies.
OtherPacket ==
  /\ icmp_sfd = "open"
  /\ Handled(count_consec_late, retval)
  /\ UNCHANGED <<indSigHUP, event_list, unanswered, replies>>

\* READ_SOCKET_CLOSED, or an error if the engine has not been told to stop.
SocketClosed ==
  /\ icmp_sfd = "closed"
  /\ Handled(count_consec_late, IF eng_ongoing THEN "ERROR" ELSE retval)
  /\ UNCHANGED <<indSigHUP, event_list, unanswered, replies>>

\* select() or recv() fails, or an echo reply has an unexpected ICMP code.
ReadError ==
  /\ Faults
  /\ Handled(count_consec_late, "ERROR")
  /\ UNCHANGED <<indSigHUP, event_list, unanswered, replies>>

\* _ka_start_thread(): publish the result and exit.
ThreadExit ==
  /\ Running("leave")
  /\ ka_status' = CASE retval = "SUCCESS" -> "FIN_SUCCESS"
                    [] retval = "TIMEOUT" -> "FIN_TIMEOUT"
                    [] OTHER              -> "FIN_ERROR"
  /\ thread' = "exited"
  /\ UNCHANGED <<main, indSigHUP, engine, eng_ongoing, icmp_sfd, send_interval,
                 echoes, timing, retval, peer, history>>

\* The engine has been freed under the thread: what it does is undefined.
UseAfterFree ==
  /\ engine = "FREED"
  /\ thread \notin {"none", "exited", "undefined"}
  /\ thread' = "undefined"
  /\ UNCHANGED <<main, indSigHUP, shared, echoes, timing, retval, peer, history>>

-----------------------------------------------------------------------------
(* Time, the network and the signal.                                        *)

\* An expired request is noticed, or the engine stops, within one tick.
Punctual == \A i \in DOMAIN event_list : event_list[i].left > 0

\* Time passes while the thread processes echoes.  A reply that never comes out
\* of 'replies' was lost, or comes too late and is one of the OtherPackets.
Tick ==
  /\ Processing
  /\ thread # "sleep"
  /\ Punctual
  /\ tv_reference' = IF tv_reference > 0 THEN tv_reference - 1 ELSE 0
  /\ tv_delay' = IF tv_delay > 0 THEN tv_delay - 1 ELSE 0
  /\ event_list' = [i \in DOMAIN event_list |-> [event_list[i] EXCEPT !.left = @ - 1]]
  /\ replies' = {[r EXCEPT !.age = @ + 1] :
                   r \in {q \in replies : q.age < KA_ECHO_REPLY_TIMEOUT}}
  /\ UNCHANGED <<main, indSigHUP, shared, count_consec_late, thread, sleep_time,
                 due, retval, peer_up, history>>

\* The other end stops answering, for good.
PeerDown ==
  /\ peer_up
  /\ peer_up' = FALSE
  /\ UNCHANGED <<main, indSigHUP, shared, echoes, thread, timing, retval, replies,
                 history>>

\* SIGHUP, handled by the thread of the loop.
Signal ==
  /\ ~indSigHUP
  /\ indSigHUP' = TRUE
  /\ UNCHANGED <<main, shared, echoes, thread, timing, retval, peer, history>>

\* SIGHUP, handled by the keepalive thread, whose select() is interrupted: EINTR
\* is taken for a timeout.
SignalInSelect ==
  /\ ~indSigHUP
  /\ thread = "select"
  /\ indSigHUP' = TRUE
  /\ EchoTimeout

\* The loop has returned.
Returned ==
  /\ pc = "returned"
  /\ UNCHANGED vars

-----------------------------------------------------------------------------
MainThread ==
  \/ NoKeepalive \/ KA_init \/ KA_init_fails \/ KA_start \/ KA_start_fails
  \/ KA_started \/ CheckForStop \/ IEE_stop \/ IEE_close \/ KA_stop_join
  \/ KA_qry_status \/ LeaseExpires \/ Decide \/ Forward \/ TunnelIOError
  \/ KA_destroy

KAThread ==
  \/ SleepChunk \/ SleepEnds \/ ProcessLoop \/ _do_send \/ _do_send_error
  \/ _do_send_starved \/ _compute_next_send \/ BeginRead \/ ReadAgain
  \/ SelectTimeout \/ ReplyInTime \/ OtherPacket \/ SocketClosed
  \/ ReadError \/ ThreadExit \/ UseAfterFree

Environment == Tick \/ PeerDown \/ Signal \/ SignalInSelect

Next == MainThread \/ KAThread \/ Environment \/ Returned

\* Both threads are scheduled and time passes.  Packets do not occupy every
\* call of select() for ever: one that can time out infinitely often does.
Fairness ==
  /\ WF_vars(MainThread)
  /\ WF_vars(KAThread)
  /\ WF_vars(Tick)
  /\ SF_vars(SelectTimeout)

Spec == Init /\ [][Next]_vars /\ Fairness

-----------------------------------------------------------------------------
(* Properties.                                                              *)

\* Types; the list of events never holds more requests than can be waiting for a
\* reply, and the count of late replies stops at the threshold.
TypeOK ==
  /\ pc \in MainPlaces
  /\ loop \in LoopNames
  /\ keepalive \in BOOLEAN
  /\ lifetime \in BOOLEAN
  /\ ongoing \in BOOLEAN
  /\ status \in LoopStatuses
  /\ indSigHUP \in BOOLEAN
  /\ engine \in {"NULL", "ALLOCATED", "FREED"}
  /\ ka_status \in KaStatuses
  /\ eng_ongoing \in BOOLEAN
  /\ icmp_sfd \in {"open", "closed"}
  /\ send_interval \in Intervals
  /\ count_consec_late \in 0..KA_NUM_CONSEC_TIMEOUT
  /\ event_list \in Seq(Events)
  /\ thread \in ThreadPlaces
  /\ sleep_time \in 0..send_interval
  /\ tv_reference \in 0..send_interval
  /\ tv_delay \in 0..send_interval
  /\ due \in BOOLEAN
  /\ retval \in IeeResults
  /\ peer_up \in BOOLEAN
  /\ replies \subseteq Replies
  /\ unanswered \in 0..KA_NUM_CONSEC_TIMEOUT

\* The engine is freed under a running keepalive thread on two paths only: an
\* I/O error of the tunnel and the end of a lease, which leave the loop without
\* KA_stop().
FreedAfterThread ==
  engine = "FREED" /\ thread \notin {"none", "exited"}
    => status \in {"ERR_TUNNEL_IO", "ERR_TUN_LEASE_EXPIRED"}

\* A keepalive timeout means that KA_NUM_CONSEC_TIMEOUT requests have expired
\* without any reply in time between them; a signal may falsify the count.
TimeoutJustified ==
  ka_status = "FIN_TIMEOUT" /\ ~indSigHUP => unanswered >= KA_NUM_CONSEC_TIMEOUT

\* A request is due after all those of the list when it is sent, so that the
\* branch of _insert_echo_event() that inserts before an element, and makes a
\* cycle of the two, is never taken.
InsertedLast ==
  thread = "send" =>
    \A i \in DOMAIN event_list : event_list[i].left < KA_ECHO_REPLY_TIMEOUT

\* A stop request ends the loop, whatever the keepalive thread is doing.
StopEnds == indSigHUP ~> pc = "returned"

\* A peer that no longer answers ends the loop.
SilenceDetected == keepalive /\ ~peer_up ~> pc = "returned"

=============================================================================
