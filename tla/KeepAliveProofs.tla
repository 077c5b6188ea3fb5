-------------------------- MODULE KeepAliveProofs --------------------------
(***************************************************************************)
(* Safety of the tunnel loop and its keepalive thread for every value of   *)
(* the constants: any request interval, any reply timeout, any threshold.  *)
(***************************************************************************)
EXTENDS KeepAlive, TLAPS

-----------------------------------------------------------------------------
(* The inductive invariant.                                                 *)

\* When there may be a thread, and which exits of the loop have joined it.
Control ==
  /\ pc = "KA_start" => keepalive
  /\ pc \in {"KA_init", "KA_start"} => thread = "none"
  /\ ~keepalive => thread = "none"
  /\ engine = "FREED" => pc = "returned"
  /\ pc = "query" /\ ~ongoing => thread = "exited"
  /\ pc = "decide" /\ keepalive /\ (status # "SUCCESS" \/ ~ongoing)
       => thread = "exited"
  /\ pc \in {"done", "returned"} /\ thread \notin {"none", "exited"}
       => status \in {"ERR_TUNNEL_IO", "ERR_TUN_LEASE_EXPIRED"}

\* The places of the thread where its result is still open.
Undecided == {"none", "sleep", "loop", "send", "sent", "read", "select"}

\* The count of late replies below the threshold, and what follows once it is
\* reached: the engine is told to stop with IEE_TIMEOUT before it can go on.
Counting ==
  /\ thread \in Undecided => retval = "SUCCESS" /\ count_consec_late < KA_NUM_CONSEC_TIMEOUT
  /\ thread = "handled" =>
       \/ retval = "SUCCESS" /\ count_consec_late < KA_NUM_CONSEC_TIMEOUT
       \/ retval # "SUCCESS" /\ ~eng_ongoing
  /\ retval = "TIMEOUT" => count_consec_late = KA_NUM_CONSEC_TIMEOUT
  /\ ka_status = "FIN_TIMEOUT" => retval = "TIMEOUT"
  /\ unanswered <= count_consec_late
  /\ ~indSigHUP => unanswered = count_consec_late
  /\ thread = "select" /\ due /\ engine = "ALLOCATED" =>
       event_list # <<>> /\ tv_delay = Head(event_list).left

\* The ticks that have passed, at least, since the last request was sent.
Elapsed ==
  IF thread \in {"read", "select", "handled"} THEN send_interval - tv_reference
  ELSE IF thread = "send" \/ (thread = "loop" /\ eng_ongoing) THEN 1 ELSE 0

\* Requests are apart by the ticks between them: the age of a request is at least
\* its sequence number counted back.
Spaced ==
  /\ thread \in {"none", "sleep"} => event_list = <<>> /\ replies = {}
  /\ \A i \in DOMAIN event_list :
       event_list[i].echo_seq + event_list[i].left + Elapsed <= KA_ECHO_REPLY_TIMEOUT
  /\ \A r \in replies : r.echo_seq + Elapsed <= r.age

IInv == TypeOK /\ Control /\ Counting /\ Spaced

-----------------------------------------------------------------------------
(* Control.                                                                 *)

\* Nothing runs before KA_start().
LEMMA ControlInit == Init => Control
BY DEF Init, Control

\* No step of the loop frees the engine under the thread but the two exits that
\* skip KA_stop().
LEMMA ControlMain == TypeOK /\ Control /\ MainThread => Control'
<1> SUFFICES ASSUME TypeOK, Control, MainThread PROVE Control'
  OBVIOUS
<1> USE DEF Control, main, shared, peer, echoes, timing, history
<1>1. CASE NoKeepalive
  BY <1>1 DEF NoKeepalive, TypeOK
<1>2. CASE KA_init
  BY <1>2 DEF KA_init, TypeOK
<1>3. CASE KA_init_fails
  BY <1>3 DEF KA_init_fails, TypeOK
<1>4. CASE KA_start
  BY <1>4 DEF KA_start, TypeOK
<1>5. CASE KA_start_fails
  BY <1>5 DEF KA_start_fails, TypeOK
<1>6. CASE KA_started
  BY <1>6 DEF KA_started, TypeOK
<1>7. CASE CheckForStop
  BY <1>7 DEF CheckForStop, TypeOK
<1>8. CASE IEE_stop
  BY <1>8 DEF IEE_stop, TypeOK
<1>9. CASE IEE_close
  BY <1>9 DEF IEE_close, TypeOK
<1>10. CASE KA_stop_join
  BY <1>10 DEF KA_stop_join, TypeOK
<1>11. CASE KA_qry_status
  BY <1>11 DEF KA_qry_status, TypeOK
<1>12. CASE LeaseExpires
  BY <1>12 DEF LeaseExpires, TypeOK
<1>13. CASE Decide
  BY <1>13 DEF Decide, TypeOK
<1>14. CASE Forward
  BY <1>14 DEF Forward, TypeOK
<1>15. CASE TunnelIOError
  BY <1>15 DEF TunnelIOError, TypeOK
<1>16. CASE KA_destroy
  BY <1>16 DEF KA_destroy, TypeOK
<1> QED BY <1>1, <1>2, <1>3, <1>4, <1>5, <1>6, <1>7, <1>8, <1>9, <1>10, <1>11, <1>12, <1>13, <1>14, <1>15, <1>16 DEF MainThread

\* The steps of the thread keep it alive or end it; the others do not touch it.
LEMMA ControlOthers ==
  TypeOK /\ Control /\ (KAThread \/ Environment \/ UNCHANGED vars) => Control'
<1> SUFFICES ASSUME TypeOK, Control, KAThread \/ Environment \/ UNCHANGED vars PROVE Control'
  OBVIOUS
<1> USE DEF Control, main, shared, peer, echoes, timing, history
<1>1. CASE KAThread
  <2>1. UNCHANGED <<main, engine>>
    BY <1>1 DEF KAThread, SleepChunk, SleepEnds, ProcessLoop, _do_send, _do_send_error, _do_send_starved, _compute_next_send, BeginRead, ReadAgain, SelectTimeout, EchoTimeout, ReplyInTime, OtherPacket, SocketClosed, ReadError, Handled, ThreadExit, UseAfterFree
  <2>2. thread \notin {"none", "exited"}
    BY <1>1 DEF KAThread, SleepChunk, SleepEnds, ProcessLoop, _do_send, _do_send_error, _do_send_starved, _compute_next_send, BeginRead, ReadAgain, SelectTimeout, EchoTimeout, ReplyInTime, OtherPacket, SocketClosed, ReadError, Handled, ThreadExit, UseAfterFree, Running
  <2> QED BY <2>1, <2>2
<1>2. CASE Environment
  <2>1. UNCHANGED <<main, engine>>
    BY <1>2 DEF Environment, Tick, PeerDown, Signal, SignalInSelect, EchoTimeout, Handled
  <2>2. thread' = thread \/ thread = "select"
    BY <1>2 DEF Environment, Tick, PeerDown, Signal, SignalInSelect, EchoTimeout, Handled, Running
  <2> QED BY <2>1, <2>2
<1>3. CASE UNCHANGED vars
  BY <1>3 DEF vars
<1> QED BY <1>1, <1>2, <1>3

-----------------------------------------------------------------------------
(* The list of events.                                                      *)

\* _remove_free_echo_event() leaves events that were there.
LEMMA RemovedEvents ==
  ASSUME event_list \in Seq(Events), NEW seq
  PROVE  /\ _remove_free_echo_event(seq) \in Seq(Events)
         /\ \A i \in DOMAIN _remove_free_echo_event(seq) :
              \E j \in DOMAIN event_list : _remove_free_echo_event(seq)[i] = event_list[j]
<1> DEFINE found == {i \in DOMAIN event_list : event_list[i].echo_seq = seq}
           first == CHOOSE i \in found : \A j \in found : i <= j
           At(i) == IF i < first THEN i ELSE i + 1
           rest  == [i \in 1..(Len(event_list) - 1) |-> event_list[At(i)]]
<1>1. \A i \in 1..(Len(event_list) - 1) : At(i) \in DOMAIN event_list
  <2> HIDE DEF first
  <2> QED OBVIOUS
<1>2. CASE found = {}
  BY <1>2 DEF _remove_free_echo_event
<1>3. CASE found # {}
  <2>1. _remove_free_echo_event(seq) = rest
    BY <1>3 DEF _remove_free_echo_event
  <2>2. Len(event_list) - 1 \in Nat
    BY <1>3
  <2>3. rest \in Seq(Events)
    <3> HIDE DEF At
    <3> QED BY <1>1, <2>2
  <2>4. DOMAIN rest = 1..(Len(event_list) - 1)
    OBVIOUS
  <2> HIDE DEF At
  <2> QED BY <1>1, <2>1, <2>3, <2>4
<1> QED BY <1>2, <1>3

\* A step of the sequence numbers.
LEMMA OlderEvents ==
  ASSUME event_list \in Seq(Events),
         \A i \in DOMAIN event_list : event_list[i].echo_seq < KA_ECHO_REPLY_TIMEOUT,
         _insert_echo_event
  PROVE  /\ event_list' \in Seq(Events)
         /\ Len(event_list') = Len(event_list) + 1
         /\ \A i \in DOMAIN event_list :
              /\ event_list'[i].echo_seq = event_list[i].echo_seq + 1
              /\ event_list'[i].left = event_list[i].left
         /\ event_list'[Len(event_list) + 1].echo_seq = 0
         /\ event_list'[Len(event_list) + 1].left = KA_ECHO_REPLY_TIMEOUT
<1> DEFINE older == [i \in DOMAIN event_list |-> Older(event_list[i])]
           new   == [echo_seq |-> 0, left |-> KA_ECHO_REPLY_TIMEOUT]
<1>1. ASSUME NEW e \in Events, e.echo_seq < KA_ECHO_REPLY_TIMEOUT
      PROVE  Older(e) \in Events /\ Older(e).echo_seq = e.echo_seq + 1 /\ Older(e).left = e.left
  BY <1>1, TimeAssumption DEF Older, Events, SeqNumbers
<1>2. \A i \in DOMAIN event_list :
        /\ Older(event_list[i]) \in Events
        /\ Older(event_list[i]).echo_seq = event_list[i].echo_seq + 1
        /\ Older(event_list[i]).left = event_list[i].left
  BY <1>1
<1>3. older \in Seq(Events) /\ Len(older) = Len(event_list)
  BY <1>2
<1>4. new \in Events
  BY TimeAssumption DEF Events, SeqNumbers
<1>5. \A i \in DOMAIN event_list : older[i] = Older(event_list[i])
  OBVIOUS
<1>6. event_list' = Append(older, new)
  BY DEF _insert_echo_event
<1> HIDE DEF older
<1>7. event_list' \in Seq(Events) /\ Len(event_list') = Len(event_list) + 1
  BY <1>3, <1>4, <1>6
<1>8. event_list'[Len(event_list) + 1] = new
  BY <1>3, <1>4, <1>6
<1>9. \A i \in DOMAIN event_list : event_list'[i] = Older(event_list[i])
  BY <1>3, <1>5, <1>6
<1> QED BY <1>2, <1>7, <1>8, <1>9

-----------------------------------------------------------------------------
(* The steps.                                                               *)

\* The first event of a list.
LEMMA FirstEvent ==
  ASSUME event_list \in Seq(Events), event_list # <<>>
  PROVE  /\ 1 \in DOMAIN event_list
         /\ Head(event_list) = event_list[1]
         /\ Head(event_list) \in Events
         /\ Head(event_list).left \in 0..KA_ECHO_REPLY_TIMEOUT
<1>1. 1 \in DOMAIN event_list /\ Head(event_list) = event_list[1] /\ event_list[1] \in Events
  OBVIOUS
<1> QED BY <1>1 DEF Events

\* The delay of select() is the time to the next request, or that to the timeout
\* of the first event.
LEMMA SelectDelay ==
  ASSUME TypeOK, EnterSelect
  PROVE  /\ due' \in BOOLEAN
         /\ tv_delay' \in 0..send_interval
         /\ due' => event_list # <<>> /\ tv_delay' = Head(event_list).left
         /\ ~due' => tv_delay' = tv_reference
         /\ thread' = "select"
         /\ UNCHANGED <<sleep_time, tv_reference>>
<1> DEFINE read_delay == IF event_list = <<>> THEN send_interval ELSE Head(event_list).left
<1>1. due' = (tv_reference > read_delay)
  BY Zenon DEF EnterSelect
<1>2. tv_delay' = IF due' THEN read_delay ELSE tv_reference
  BY DEF EnterSelect
<1>3. send_interval \in Nat /\ tv_reference \in 0..send_interval
  BY TimeAssumption DEF TypeOK
<1>4. event_list # <<>> => read_delay \in 0..KA_ECHO_REPLY_TIMEOUT
  BY FirstEvent DEF TypeOK
<1>5. (tv_reference > read_delay) => event_list # <<>>
  BY <1>3
<1> HIDE DEF read_delay
<1>6. due' \in BOOLEAN /\ (due' <=> tv_reference > read_delay)
  <2>1. (tv_reference > read_delay) \in BOOLEAN
    BY SMT
  <2> QED BY <1>1, <2>1, Zenon
<1>7. (tv_reference > read_delay) => read_delay \in 0..send_interval
  BY <1>3, <1>4, <1>5, TimeAssumption
<1>8. tv_delay' \in 0..send_interval
  BY <1>2, <1>3, <1>6, <1>7
<1> USE DEF read_delay
<1> QED BY <1>2, <1>5, <1>6, <1>8 DEF EnterSelect

\* What every case of the switch of _do_read_wrap() leaves: the engine goes on
\* below the threshold, or is stopped with an error.
LEMMA HandledCase ==
  ASSUME TypeOK, Counting, NEW late \in 0..KA_NUM_CONSEC_TIMEOUT,
         NEW result \in {"SUCCESS", "ERROR"}, Handled(late, result)
  PROVE  /\ thread = "select" /\ thread' = "handled"
         /\ engine = "ALLOCATED"
         /\ count_consec_late' = late
         /\ retval' \in IeeResults
         /\ eng_ongoing' \in BOOLEAN
         /\ \/ retval' = "SUCCESS" /\ late < KA_NUM_CONSEC_TIMEOUT
            \/ retval' # "SUCCESS" /\ ~eng_ongoing'
         /\ retval' = "TIMEOUT" => late = KA_NUM_CONSEC_TIMEOUT
         /\ eng_ongoing' => eng_ongoing
         /\ UNCHANGED <<main, engine, ka_status, icmp_sfd, send_interval, timing, peer_up>>
<1>1. retval' = IF TooManyLate(late) THEN "TIMEOUT" ELSE result
  BY DEF Handled
<1>2. eng_ongoing' \in BOOLEAN /\ eng_ongoing' = (eng_ongoing /\ retval' = "SUCCESS")
  BY Zenon DEF Handled
<1>3. retval' \in IeeResults
  BY <1>1 DEF IeeResults
<1>4. retval' = "TIMEOUT" <=> TooManyLate(late)
  BY <1>1
<1>5. TooManyLate(late) <=> late = KA_NUM_CONSEC_TIMEOUT
  BY TimeAssumption DEF TooManyLate
<1>6. late # KA_NUM_CONSEC_TIMEOUT => late < KA_NUM_CONSEC_TIMEOUT
  BY TimeAssumption
<1>7. (eng_ongoing' => eng_ongoing) /\ (eng_ongoing' => retval' = "SUCCESS")
  BY <1>2, Zenon
<1> QED BY <1>2, <1>3, <1>4, <1>5, <1>6, <1>7 DEF Handled, Running

\* READ_SELECT_TIMEOUT: a request that has expired is counted, in the history too.
LEMMA EchoTimeoutCase ==
  ASSUME IInv, EchoTimeout
  PROVE  /\ \E late \in 0..KA_NUM_CONSEC_TIMEOUT : Handled(late, "SUCCESS")
         /\ event_list' \in Seq(Events)
         /\ \A i \in DOMAIN event_list' :
              \E j \in DOMAIN event_list : event_list'[i] = event_list[j]
         /\ unanswered' \in 0..KA_NUM_CONSEC_TIMEOUT
         /\ unanswered' <= count_consec_late'
         /\ tv_delay = 0 /\ unanswered = count_consec_late
              => unanswered' = count_consec_late'
         /\ UNCHANGED replies
<1>1. thread = "select" /\ retval = "SUCCESS" /\ count_consec_late \in 0..KA_NUM_CONSEC_TIMEOUT
      /\ count_consec_late < KA_NUM_CONSEC_TIMEOUT /\ engine = "ALLOCATED"
  BY DEF EchoTimeout, Handled, Running, IInv, TypeOK, Counting, Undecided
<1>2. unanswered \in 0..KA_NUM_CONSEC_TIMEOUT /\ unanswered <= count_consec_late
  BY DEF IInv, TypeOK, Counting
<1>3. event_list \in Seq(Events)
  BY DEF IInv, TypeOK
<1>4. CASE due /\ event_list # <<>>
  <2>1. /\ event_list' = _remove_free_echo_event(Head(event_list).echo_seq)
        /\ Handled(count_consec_late + 1, "SUCCESS")
        /\ unanswered' = IF Head(event_list).left = 0 THEN unanswered + 1 ELSE unanswered
        /\ UNCHANGED replies
    BY <1>1, <1>4 DEF EchoTimeout
  <2>2. count_consec_late' = count_consec_late + 1
    BY <2>1 DEF Handled
  <2>3. tv_delay = 0 => Head(event_list).left = 0
    BY <1>1, <1>4 DEF IInv, Counting
  <2>4. count_consec_late + 1 \in 0..KA_NUM_CONSEC_TIMEOUT
    BY <1>1, TimeAssumption
  <2>5. /\ event_list' \in Seq(Events)
        /\ \A i \in DOMAIN event_list' :
             \E j \in DOMAIN event_list : event_list'[i] = event_list[j]
    BY <1>3, <2>1, RemovedEvents
  <2>6. /\ unanswered' \in 0..KA_NUM_CONSEC_TIMEOUT
        /\ unanswered' <= count_consec_late'
        /\ tv_delay = 0 /\ unanswered = count_consec_late => unanswered' = count_consec_late'
    BY <1>1, <1>2, <2>1, <2>2, <2>3, <2>4, TimeAssumption
  <2> QED BY <2>1, <2>4, <2>5, <2>6
<1>5. CASE ~(due /\ event_list # <<>>)
  <2>1. Handled(count_consec_late, "SUCCESS") /\ UNCHANGED <<event_list, unanswered, replies>>
    BY <1>1, <1>5 DEF EchoTimeout
  <2>2. count_consec_late' = count_consec_late
    BY <2>1 DEF Handled
  <2> QED BY <1>1, <1>2, <1>3, <2>1, <2>2
<1> QED BY <1>4, <1>5

\* The locals and the engine start with values of their types.
LEMMA TypeInit == Init => TypeOK
<1> SUFFICES ASSUME Init PROVE TypeOK
  OBVIOUS
<1>1. event_list \in Seq(Events) /\ replies \subseteq Replies
  BY DEF Init
<1>2. send_interval \in Nat
  BY TimeAssumption DEF Init
<1>3. /\ eng_ongoing \in BOOLEAN
      /\ due \in BOOLEAN
      /\ indSigHUP \in BOOLEAN
  BY Zenon DEF Init
<1> QED
  BY <1>1, <1>2, <1>3, LoopAssumption, TimeAssumption
     DEF Init, TypeOK, MainPlaces, ThreadPlaces, KaStatuses, IeeResults,
         LoopStatuses

\* Before a request is sent the events and the replies are a tick older at least
\* than their sequence number says.
LEMMA RequestsBeforeSend ==
  ASSUME IInv, thread = "send"
  PROVE  \A i \in DOMAIN event_list :
           /\ event_list[i].echo_seq < KA_ECHO_REPLY_TIMEOUT
           /\ event_list[i].left < KA_ECHO_REPLY_TIMEOUT
<1>1. Elapsed = 1
  BY DEF Elapsed
<1>2. \A i \in DOMAIN event_list :
        event_list[i].echo_seq + event_list[i].left + 1 <= KA_ECHO_REPLY_TIMEOUT
  BY <1>1 DEF IInv, Spaced
<1>3. \A i \in DOMAIN event_list : event_list[i] \in Events
  BY DEF IInv, TypeOK
<1> QED BY <1>2, <1>3, TimeAssumption DEF Events, SeqNumbers

\* After it they are as old at least as their sequence number says.
LEMMA RepliesAfterSend ==
  ASSUME IInv, thread = "send",
         replies' = {Older(r) : r \in replies}
                      \cup (IF peer_up THEN {[echo_seq |-> 0, age |-> 0]} ELSE {})
  PROVE  /\ replies' \subseteq Replies
         /\ \A r \in replies' : r.echo_seq <= r.age
<1>1. \A r \in replies : r \in Replies /\ r.echo_seq + 1 <= r.age
  BY DEF IInv, TypeOK, Spaced, Elapsed
<1>2. ASSUME NEW r \in Replies, r.echo_seq + 1 <= r.age
      PROVE  Older(r) \in Replies /\ Older(r).echo_seq <= Older(r).age
  BY <1>2, TimeAssumption DEF Older, Replies, SeqNumbers
<1>3. [echo_seq |-> 0, age |-> 0] \in Replies
  BY TimeAssumption DEF Replies, SeqNumbers
<1>4. \A r \in replies' : (\E q \in replies : r = Older(q)) \/ r = [echo_seq |-> 0, age |-> 0]
  OBVIOUS
<1> QED BY <1>1, <1>2, <1>3, <1>4

\* A tick brings the requests closer to their timeouts, and keeps the replies that
\* are still in time.
LEMMA TickEchoes ==
  ASSUME IInv, Tick
  PROVE  /\ event_list' \in Seq(Events)
         /\ DOMAIN event_list' = DOMAIN event_list
         /\ \A i \in DOMAIN event_list :
              /\ event_list'[i].echo_seq = event_list[i].echo_seq
              /\ event_list'[i].left = event_list[i].left - 1
         /\ replies' \subseteq Replies
         /\ \A r \in replies' : \E q \in replies :
              r.echo_seq = q.echo_seq /\ r.age = q.age + 1
<1>1. \A i \in DOMAIN event_list : event_list[i] \in Events /\ event_list[i].left > 0
  BY DEF IInv, TypeOK, Tick, Punctual
<1>2. ASSUME NEW e \in Events, e.left > 0
      PROVE  /\ [e EXCEPT !.left = @ - 1] \in Events
             /\ [e EXCEPT !.left = @ - 1].echo_seq = e.echo_seq
             /\ [e EXCEPT !.left = @ - 1].left = e.left - 1
  BY <1>2, TimeAssumption DEF Events, SeqNumbers
<1> DEFINE Closer(e) == [e EXCEPT !.left = @ - 1]
<1>3. event_list' = [i \in DOMAIN event_list |-> Closer(event_list[i])]
  BY DEF Tick
<1>4. \A i \in DOMAIN event_list :
        /\ Closer(event_list[i]) \in Events
        /\ Closer(event_list[i]).echo_seq = event_list[i].echo_seq
        /\ Closer(event_list[i]).left = event_list[i].left - 1
  BY <1>1, <1>2
<1>5. event_list \in Seq(Events)
  BY DEF IInv, TypeOK
<1>6. ASSUME NEW r \in Replies, r.age < KA_ECHO_REPLY_TIMEOUT
      PROVE  /\ [r EXCEPT !.age = @ + 1] \in Replies
             /\ [r EXCEPT !.age = @ + 1].echo_seq = r.echo_seq
             /\ [r EXCEPT !.age = @ + 1].age = r.age + 1
  BY <1>6, TimeAssumption DEF Replies, SeqNumbers
<1>7. \A r \in replies' : \E q \in replies :
        q.age < KA_ECHO_REPLY_TIMEOUT /\ r = [q EXCEPT !.age = @ + 1]
  BY Zenon DEF Tick
<1>8. replies \subseteq Replies
  BY DEF IInv, TypeOK
<1> HIDE DEF Closer
<1>9. /\ event_list' \in Seq(Events)
      /\ DOMAIN event_list' = DOMAIN event_list
      /\ \A i \in DOMAIN event_list : event_list'[i] = Closer(event_list[i])
  BY <1>3, <1>4, <1>5
<1>10. ASSUME NEW r \in replies'
       PROVE  /\ r \in Replies
              /\ \E q \in replies : r.echo_seq = q.echo_seq /\ r.age = q.age + 1
  <2>1. PICK q \in replies :
          q.age < KA_ECHO_REPLY_TIMEOUT /\ r = [q EXCEPT !.age = @ + 1]
    BY <1>7, <1>10
  <2> QED BY <1>6, <1>8, <2>1, Zenon
<1> QED BY <1>4, <1>9, <1>10

\* The loop assigns values of their types.
LEMMA TypeOKMain == IInv /\ MainThread => TypeOK'
<1> SUFFICES ASSUME IInv, MainThread PROVE TypeOK'
  OBVIOUS
<1> USE TimeAssumption DEF IInv, TypeOK, main, shared, peer, echoes, timing, history
<1>1. CASE NoKeepalive
  BY <1>1 DEF NoKeepalive, MainPlaces, ThreadPlaces, KaStatuses, IeeResults, LoopStatuses
<1>2. CASE KA_init
  BY <1>2 DEF KA_init, MainPlaces, ThreadPlaces, KaStatuses, IeeResults, LoopStatuses
<1>3. CASE KA_init_fails
  BY <1>3 DEF KA_init_fails, MainPlaces, ThreadPlaces, KaStatuses, IeeResults, LoopStatuses
<1>4. CASE KA_start
  BY <1>4 DEF KA_start, MainPlaces, ThreadPlaces, KaStatuses, IeeResults, LoopStatuses
<1>5. CASE KA_start_fails
  BY <1>5 DEF KA_start_fails, MainPlaces, ThreadPlaces, KaStatuses, IeeResults, LoopStatuses
<1>6. CASE KA_started
  BY <1>6 DEF KA_started, MainPlaces, ThreadPlaces, KaStatuses, IeeResults, LoopStatuses
<1>7. CASE CheckForStop
  BY <1>7 DEF CheckForStop, MainPlaces, ThreadPlaces, KaStatuses, IeeResults, LoopStatuses
<1>8. CASE IEE_stop
  <2>1. eng_ongoing' \in BOOLEAN
    BY <1>8, Zenon DEF IEE_stop
  <2> QED BY <1>8, <2>1 DEF IEE_stop, MainPlaces
<1>9. CASE IEE_close
  BY <1>9 DEF IEE_close, MainPlaces, ThreadPlaces, KaStatuses, IeeResults, LoopStatuses
<1>10. CASE KA_stop_join
  BY <1>10 DEF KA_stop_join, MainPlaces, ThreadPlaces, KaStatuses, IeeResults, LoopStatuses
<1>11. CASE KA_qry_status
  BY <1>11 DEF KA_qry_status, MainPlaces, ThreadPlaces, KaStatuses, IeeResults, LoopStatuses
<1>12. CASE LeaseExpires
  BY <1>12 DEF LeaseExpires, MainPlaces, ThreadPlaces, KaStatuses, IeeResults, LoopStatuses
<1>13. CASE Decide
  BY <1>13 DEF Decide, MainPlaces, ThreadPlaces, KaStatuses, IeeResults, LoopStatuses
<1>14. CASE Forward
  BY <1>14 DEF Forward, MainPlaces, ThreadPlaces, KaStatuses, IeeResults, LoopStatuses
<1>15. CASE TunnelIOError
  BY <1>15 DEF TunnelIOError, MainPlaces, ThreadPlaces, KaStatuses, IeeResults, LoopStatuses
<1>16. CASE KA_destroy
  <2>1. event_list' \in Seq(Events)
    <3>1. <<>> \in Seq(Events)
      OBVIOUS
    <3> QED BY <1>16, <3>1, Zenon DEF KA_destroy
  <2>2. engine' \in {"NULL", "ALLOCATED", "FREED"} /\ icmp_sfd' \in {"open", "closed"}
    BY <1>16 DEF KA_destroy
  <2> QED BY <1>16, <2>1, <2>2 DEF KA_destroy, MainPlaces
<1> QED BY <1>1, <1>2, <1>3, <1>4, <1>5, <1>6, <1>7, <1>8, <1>9, <1>10, <1>11, <1>12, <1>13, <1>14, <1>15, <1>16 DEF MainThread

\* So does the thread; the list stays within its ranges because a tick at least
\* separates two requests.
LEMMA TypeOKThread == IInv /\ KAThread => TypeOK'
<1> SUFFICES ASSUME IInv, KAThread PROVE TypeOK'
  OBVIOUS
<1> USE TimeAssumption DEF IInv, TypeOK, main, shared, peer, echoes, timing, history
<1>1. CASE SleepChunk
  BY <1>1 DEF SleepChunk, Running, MainPlaces, ThreadPlaces, KaStatuses, IeeResults, LoopStatuses
<1>2. CASE SleepEnds
  BY <1>2 DEF SleepEnds, Running, MainPlaces, ThreadPlaces, KaStatuses, IeeResults, LoopStatuses
<1>3. CASE ProcessLoop
  BY <1>3 DEF ProcessLoop, Running, MainPlaces, ThreadPlaces, KaStatuses, IeeResults, LoopStatuses
<1>4. CASE _do_send
  <2>1. \A i \in DOMAIN event_list : event_list[i].echo_seq < KA_ECHO_REPLY_TIMEOUT
    BY <1>4, RequestsBeforeSend DEF _do_send, Running
  <2>2. event_list' \in Seq(Events)
    BY <1>4, <2>1, OlderEvents DEF _do_send
  <2>3. replies' \subseteq Replies
    BY <1>4, RepliesAfterSend DEF _do_send, Running
  <2> QED BY <1>4, <2>2, <2>3 DEF _do_send, Running, ThreadPlaces
<1>5. CASE _do_send_error
  <2>1. \A i \in DOMAIN event_list : event_list[i].echo_seq < KA_ECHO_REPLY_TIMEOUT
    BY <1>5, RequestsBeforeSend DEF _do_send_error, Running
  <2>2. event_list' \in Seq(Events)
    BY <1>5, <2>1, OlderEvents DEF _do_send_error
  <2> QED BY <1>5, <2>2 DEF _do_send_error, Running, ThreadPlaces, IeeResults
<1>6. CASE _do_send_starved
  BY <1>6 DEF _do_send_starved, Running, MainPlaces, ThreadPlaces, KaStatuses, IeeResults, LoopStatuses
<1>7. CASE _compute_next_send
  BY <1>7 DEF _compute_next_send, Running, MainPlaces, ThreadPlaces, KaStatuses, IeeResults, LoopStatuses
<1>8. CASE BeginRead
  <2>1. CASE EnterSelect
    BY <1>8, <2>1, SelectDelay DEF BeginRead, Running, ThreadPlaces
  <2>2. CASE UNCHANGED timing
    BY <1>8, <2>2 DEF BeginRead, EnterSelect, Running, ThreadPlaces
  <2> QED BY <1>8, <2>1, <2>2 DEF BeginRead
<1>9. CASE ReadAgain
  <2>1. CASE EnterSelect
    BY <1>9, <2>1, SelectDelay DEF ReadAgain, Running, ThreadPlaces
  <2>2. CASE UNCHANGED timing
    BY <1>9, <2>2 DEF ReadAgain, EnterSelect, Running, ThreadPlaces
  <2> QED BY <1>9, <2>1, <2>2 DEF ReadAgain
<1>10. CASE SelectTimeout
  <2>1. EchoTimeout /\ UNCHANGED indSigHUP
    BY <1>10 DEF SelectTimeout
  <2>2. PICK late \in 0..KA_NUM_CONSEC_TIMEOUT : Handled(late, "SUCCESS")
    BY <2>1, EchoTimeoutCase
  <2> QED BY <2>1, <2>2, HandledCase, EchoTimeoutCase DEF ThreadPlaces
<1>11. CASE ReplyInTime
  BY <1>11, RemovedEvents DEF ReplyInTime, Handled, CountAfterReply, TooManyLate, Running, MainPlaces, ThreadPlaces, KaStatuses, IeeResults, LoopStatuses
<1>12. CASE OtherPacket
  BY <1>12 DEF OtherPacket, Handled, TooManyLate, Running, MainPlaces, ThreadPlaces, KaStatuses, IeeResults, LoopStatuses
<1>13. CASE SocketClosed
  BY <1>13 DEF SocketClosed, Handled, TooManyLate, Running, MainPlaces, ThreadPlaces, KaStatuses, IeeResults, LoopStatuses
<1>14. CASE ReadError
  BY <1>14 DEF ReadError, Handled, TooManyLate, Running, MainPlaces, ThreadPlaces, KaStatuses, IeeResults, LoopStatuses
<1>15. CASE ThreadExit
  BY <1>15 DEF ThreadExit, Running, MainPlaces, ThreadPlaces, KaStatuses, IeeResults, LoopStatuses
<1>16. CASE UseAfterFree
  BY <1>16 DEF UseAfterFree, Running, MainPlaces, ThreadPlaces, KaStatuses, IeeResults, LoopStatuses
<1> QED BY <1>1, <1>2, <1>3, <1>4, <1>5, <1>6, <1>7, <1>8, <1>9, <1>10, <1>11, <1>12, <1>13, <1>14, <1>15, <1>16 DEF KAThread

\* So do time, the network and the signal.
LEMMA TypeOKEnvironment == IInv /\ Environment => TypeOK'
<1> SUFFICES ASSUME IInv, Environment PROVE TypeOK'
  OBVIOUS
<1> USE TimeAssumption DEF IInv, TypeOK, main, shared, peer, echoes, timing, history
<1>1. CASE Tick
  <2>1. event_list' \in Seq(Events) /\ replies' \subseteq Replies
    BY <1>1, TickEchoes
  <2>2. tv_reference' \in 0..send_interval /\ tv_delay' \in 0..send_interval
    BY <1>1 DEF Tick
  <2> QED BY <1>1, <2>1, <2>2 DEF Tick
<1>2. CASE PeerDown
  <2>1. peer_up' \in BOOLEAN
    BY <1>2, Zenon DEF PeerDown
  <2> QED BY <1>2, <2>1 DEF PeerDown
<1>3. CASE Signal
  BY <1>3 DEF Signal, MainPlaces, ThreadPlaces, KaStatuses, IeeResults, LoopStatuses
<1>4. CASE SignalInSelect
  <2>1. EchoTimeout
    BY <1>4 DEF SignalInSelect
  <2>2. PICK late \in 0..KA_NUM_CONSEC_TIMEOUT : Handled(late, "SUCCESS")
    BY <2>1, EchoTimeoutCase
  <2>3. indSigHUP' \in BOOLEAN
    BY <1>4, Zenon DEF SignalInSelect
  <2> QED BY <2>1, <2>2, <2>3, HandledCase, EchoTimeoutCase DEF ThreadPlaces
<1> QED BY <1>1, <1>2, <1>3, <1>4 DEF Environment

-----------------------------------------------------------------------------
(* Counting.                                                                *)

\* Nothing is counted at first.
LEMMA CountingInit == Init => Counting
BY TimeAssumption DEF Init, Counting, Undecided

\* The loop starts the thread with nothing counted, and stops or frees the engine.
LEMMA CountingMain == IInv /\ MainThread => Counting'
<1> SUFFICES ASSUME IInv, MainThread PROVE Counting'
  OBVIOUS
<1> USE DEF IInv, Counting, Undecided, main, shared, peer, echoes, timing, history
<1>1. CASE NoKeepalive
  BY <1>1 DEF NoKeepalive
<1>2. CASE KA_init
  BY <1>2 DEF KA_init, Control
<1>3. CASE KA_init_fails
  BY <1>3 DEF KA_init_fails
<1>4. CASE KA_start
  BY <1>4 DEF KA_start, Control
<1>5. CASE KA_start_fails
  BY <1>5 DEF KA_start_fails
<1>6. CASE KA_started
  BY <1>6 DEF KA_started
<1>7. CASE CheckForStop
  BY <1>7 DEF CheckForStop
<1>8. CASE IEE_stop
  BY <1>8 DEF IEE_stop
<1>9. CASE IEE_close
  BY <1>9 DEF IEE_close
<1>10. CASE KA_stop_join
  BY <1>10 DEF KA_stop_join
<1>11. CASE KA_qry_status
  BY <1>11 DEF KA_qry_status
<1>12. CASE LeaseExpires
  BY <1>12 DEF LeaseExpires
<1>13. CASE Decide
  BY <1>13 DEF Decide
<1>14. CASE Forward
  BY <1>14 DEF Forward
<1>15. CASE TunnelIOError
  BY <1>15 DEF TunnelIOError
<1>16. CASE KA_destroy
  BY <1>16 DEF KA_destroy
<1> QED BY <1>1, <1>2, <1>3, <1>4, <1>5, <1>6, <1>7, <1>8, <1>9, <1>10, <1>11, <1>12, <1>13, <1>14, <1>15, <1>16 DEF MainThread

\* The thread counts in _do_read_wrap() only, and publishes what it has counted.
LEMMA CountingThread == IInv /\ KAThread => Counting'
<1> SUFFICES ASSUME IInv, KAThread PROVE Counting'
  OBVIOUS
<1>c. count_consec_late \in 0..KA_NUM_CONSEC_TIMEOUT /\ TypeOK /\ Counting
  BY DEF IInv, TypeOK
<1> USE DEF Counting, Undecided, main, shared, peer, echoes, timing, history
<1>1. CASE SleepChunk
  BY <1>1, <1>c DEF SleepChunk, Running
<1>2. CASE SleepEnds
  BY <1>2, <1>c DEF SleepEnds, Running
<1>3. CASE ProcessLoop
  BY <1>3, <1>c DEF ProcessLoop, Running
<1>4. CASE _do_send
  BY <1>4, <1>c DEF _do_send, Running
<1>5. CASE _do_send_error
  BY <1>5, <1>c DEF _do_send_error, Running
<1>6. CASE _do_send_starved
  BY <1>6, <1>c DEF _do_send_starved, Running
<1>7. CASE _compute_next_send
  BY <1>7, <1>c DEF _compute_next_send, Running
<1>8. CASE BeginRead
  <2>1. CASE EnterSelect
    BY <1>8, <1>c, <2>1, SelectDelay DEF BeginRead, Running
  <2>2. CASE thread' = "loop"
    BY <1>8, <1>c, <2>2 DEF BeginRead, Running
  <2> QED BY <1>8, <2>1, <2>2 DEF BeginRead
<1>9. CASE ReadAgain
  <2>1. CASE eng_ongoing /\ EnterSelect
    BY <1>9, <1>c, <2>1, SelectDelay DEF ReadAgain, Running
  <2>2. CASE thread' = IF retval = "SUCCESS" THEN "loop" ELSE "leave"
    BY <1>9, <1>c, <2>2 DEF ReadAgain, Running
  <2> QED BY <1>9, <2>1, <2>2 DEF ReadAgain
<1>10. CASE SelectTimeout
  <2>1. EchoTimeout /\ tv_delay = 0 /\ UNCHANGED indSigHUP
    BY <1>10 DEF SelectTimeout
  <2>2. PICK late \in 0..KA_NUM_CONSEC_TIMEOUT : Handled(late, "SUCCESS")
    BY <2>1, EchoTimeoutCase
  <2> QED BY <1>c, <2>1, <2>2, HandledCase, EchoTimeoutCase
<1>11. CASE ReplyInTime
  <2>1. Handled(0, "SUCCESS") /\ unanswered' = 0
    BY <1>11, <1>c DEF ReplyInTime, Handled, CountAfterReply, Running
  <2>2. 0 \in 0..KA_NUM_CONSEC_TIMEOUT
    BY TimeAssumption
  <2> QED BY <1>c, <2>1, <2>2, HandledCase
<1>12. CASE OtherPacket
  <2>1. PICK result \in {"SUCCESS", "ERROR"} : Handled(count_consec_late, result)
    BY <1>12, <1>c DEF OtherPacket, Handled, Running
  <2> QED BY <1>12, <1>c, <2>1, HandledCase DEF OtherPacket
<1>13. CASE SocketClosed
  <2>1. PICK result \in {"SUCCESS", "ERROR"} : Handled(count_consec_late, result)
    BY <1>13, <1>c DEF SocketClosed, Handled, Running
  <2> QED BY <1>13, <1>c, <2>1, HandledCase DEF SocketClosed
<1>14. CASE ReadError
  <2>1. PICK result \in {"SUCCESS", "ERROR"} : Handled(count_consec_late, result)
    BY <1>14, <1>c DEF ReadError, Handled, Running
  <2> QED BY <1>14, <1>c, <2>1, HandledCase DEF ReadError
<1>15. CASE ThreadExit
  BY <1>15, <1>c DEF ThreadExit, Running
<1>16. CASE UseAfterFree
  BY <1>16, <1>c DEF UseAfterFree, Running
<1> QED BY <1>1, <1>2, <1>3, <1>4, <1>5, <1>6, <1>7, <1>8, <1>9, <1>10, <1>11, <1>12, <1>13, <1>14, <1>15, <1>16 DEF KAThread

\* A tick brings select() and the first event of the list as much closer; a signal
\* in select() counts a request that has not expired, and says so.
LEMMA CountingEnvironment == IInv /\ Environment => Counting'
<1> SUFFICES ASSUME IInv, Environment PROVE Counting'
  OBVIOUS
<1>c. count_consec_late \in 0..KA_NUM_CONSEC_TIMEOUT /\ TypeOK /\ Counting
  BY DEF IInv, TypeOK
<1> USE DEF Counting, Undecided, main, shared, peer, echoes, timing, history
<1>1. CASE Tick
  <2>1. UNCHANGED <<thread, retval, count_consec_late, eng_ongoing, ka_status, unanswered,
                    indSigHUP, due, engine>>
    BY <1>1 DEF Tick
  <2>2. ASSUME thread = "select", due, engine = "ALLOCATED"
        PROVE  event_list' # <<>> /\ tv_delay' = Head(event_list').left
    <3>1. event_list # <<>> /\ tv_delay = Head(event_list).left
      BY <1>c, <2>2
    <3>2. 1 \in DOMAIN event_list /\ Head(event_list) = event_list[1]
      BY <1>c, <3>1, FirstEvent DEF TypeOK
    <3>3. /\ event_list' \in Seq(Events)
          /\ 1 \in DOMAIN event_list'
          /\ event_list'[1].left = event_list[1].left - 1
      BY <1>1, <3>2, TickEchoes
    <3>4. tv_delay > 0
      BY <1>1, <3>1, <3>2 DEF Tick, Punctual
    <3>5. tv_delay' = tv_delay - 1
      BY <1>1, <3>4 DEF Tick
    <3>6. event_list' # <<>> /\ Head(event_list') = event_list'[1]
      BY <3>3
    <3> QED BY <3>1, <3>2, <3>3, <3>5, <3>6
  <2> QED BY <1>c, <2>1, <2>2
<1>2. CASE PeerDown
  BY <1>2, <1>c DEF PeerDown
<1>3. CASE Signal
  BY <1>3, <1>c DEF Signal
<1>4. CASE SignalInSelect
  <2>1. EchoTimeout /\ indSigHUP'
    BY <1>4 DEF SignalInSelect
  <2>2. PICK late \in 0..KA_NUM_CONSEC_TIMEOUT : Handled(late, "SUCCESS")
    BY <2>1, EchoTimeoutCase
  <2> QED BY <1>c, <2>1, <2>2, HandledCase, EchoTimeoutCase
<1> QED BY <1>1, <1>2, <1>3, <1>4 DEF Environment

-----------------------------------------------------------------------------
(* Spacing.                                                                 *)

\* No request has been sent at first.
LEMMA SpacedInit == Init => Spaced
<1> SUFFICES ASSUME Init PROVE Spaced
  OBVIOUS
<1>1. event_list = <<>> /\ replies = {}
  BY DEF Init
<1>2. DOMAIN event_list = {}
  BY <1>1
<1> QED BY <1>1, <1>2 DEF Spaced

\* The ticks that have passed are a number, and so are the fields of the events
\* and of the replies.
Numbers ==
  /\ Elapsed \in Nat
  /\ \A i \in DOMAIN event_list :
       event_list[i].echo_seq \in Nat /\ event_list[i].left \in Nat
  /\ \A r \in replies : r.echo_seq \in Nat /\ r.age \in Nat

\* They are, whenever the state has its types.
LEMMA SpacedTypes == TypeOK => Numbers
<1> SUFFICES ASSUME TypeOK PROVE Numbers
  OBVIOUS
<1>1. send_interval \in Nat /\ tv_reference \in 0..send_interval
  BY TimeAssumption DEF TypeOK
<1>2. Elapsed \in Nat
  <2>1. send_interval - tv_reference \in Nat
    BY <1>1
  <2> QED BY <2>1 DEF Elapsed
<1>3. \A i \in DOMAIN event_list : event_list[i] \in Events
  BY DEF TypeOK
<1>4. \A r \in replies : r \in Replies
  BY DEF TypeOK
<1> QED BY <1>2, <1>3, <1>4, TimeAssumption DEF Numbers, Events, Replies, SeqNumbers

\* Events and replies that stay as they are, or go, remain spaced when no more
\* ticks are claimed to have passed.
LEMMA SpacedKept ==
  ASSUME TypeOK, Spaced, TypeOK',
         Elapsed' <= Elapsed,
         thread' \in {"none", "sleep"} => thread \in {"none", "sleep"} /\ UNCHANGED event_list,
         \A i \in DOMAIN event_list' : \E j \in DOMAIN event_list : event_list'[i] = event_list[j],
         replies' \subseteq replies
  PROVE  Spaced'
<1>1. Numbers /\ Numbers'
  BY SpacedTypes, PTL
<1>2. thread' \in {"none", "sleep"} => event_list' = <<>> /\ replies' = {}
  BY DEF Spaced
<1>3. ASSUME NEW i \in DOMAIN event_list'
      PROVE  event_list'[i].echo_seq + event_list'[i].left + Elapsed' <= KA_ECHO_REPLY_TIMEOUT
  <2>1. PICK j \in DOMAIN event_list : event_list'[i] = event_list[j]
    OBVIOUS
  <2>2. event_list[j].echo_seq + event_list[j].left + Elapsed <= KA_ECHO_REPLY_TIMEOUT
    BY DEF Spaced
  <2>3. event_list[j].echo_seq \in Nat /\ event_list[j].left \in Nat
    BY <1>1 DEF Numbers
  <2> QED BY <1>1, <2>1, <2>2, <2>3, TimeAssumption DEF Numbers
<1>4. ASSUME NEW r \in replies'
      PROVE  r.echo_seq + Elapsed' <= r.age
  <2>1. r.echo_seq + Elapsed <= r.age /\ r.echo_seq \in Nat /\ r.age \in Nat
    BY <1>1 DEF Numbers, Spaced
  <2> QED BY <1>1, <2>1 DEF Numbers
<1> QED BY <1>2, <1>3, <1>4 DEF Spaced

\* The loop stops the engine or frees the list.
LEMMA SpacedMain == IInv /\ MainThread /\ TypeOK' => Spaced'
<1> SUFFICES ASSUME IInv, MainThread, TypeOK' PROVE Spaced'
  OBVIOUS
<1>1. CASE KA_start
  BY <1>1 DEF KA_start, IInv, Control, Spaced, Elapsed, echoes, peer
<1>2. CASE KA_destroy
  <2>1. CASE keepalive
    <3>1. event_list' = <<>> /\ UNCHANGED <<thread, replies, send_interval, tv_reference, eng_ongoing>>
      BY <1>2, <2>1 DEF KA_destroy, peer, timing
    <3>2. DOMAIN event_list' = {}
      BY <3>1
    <3> QED BY <3>1, <3>2 DEF IInv, Spaced, Elapsed
  <2>2. CASE ~keepalive
    BY <1>2, <2>2 DEF KA_destroy, IInv, Spaced, Elapsed, peer, timing
  <2> QED BY <2>1, <2>2
<1>3. ASSUME UNCHANGED <<thread, send_interval, tv_reference, event_list, replies>>,
             eng_ongoing' => eng_ongoing \/ thread = "none"
      PROVE  Spaced'
  <2>1. CASE thread = "none"
    BY <1>3, <2>1 DEF IInv, Spaced, Elapsed
  <2>2. CASE thread # "none" /\ eng_ongoing' = eng_ongoing
    BY <1>3, <2>2 DEF IInv, Spaced, Elapsed
  <2>3. CASE thread # "none" /\ eng_ongoing /\ ~eng_ongoing'
    <3>1. Elapsed' = Elapsed \/ (Elapsed = 1 /\ Elapsed' = 0)
      <4>1. CASE thread = "loop"
        BY <1>3, <2>3, <4>1 DEF Elapsed
      <4>2. CASE thread # "loop"
        BY <1>3, <2>3, <4>2 DEF Elapsed
      <4> QED BY <4>1, <4>2
    <3>2. Elapsed' <= Elapsed
      BY <3>1, SpacedTypes DEF IInv, Numbers
    <3> QED BY <1>3, <3>2, SpacedKept DEF IInv
  <2> QED BY <1>3, <2>1, <2>2, <2>3 DEF IInv, TypeOK
<1>4. ASSUME ~KA_start, ~KA_destroy
      PROVE  UNCHANGED <<thread, send_interval, tv_reference, event_list, replies>>
  BY <1>4 DEF MainThread, NoKeepalive, KA_init, KA_init_fails, KA_start_fails, KA_started,
         CheckForStop, IEE_stop, IEE_close, KA_stop_join, KA_qry_status,
         LeaseExpires, Decide, Forward, TunnelIOError,
         main, shared, echoes, timing, peer, history
<1>5. ASSUME ~KA_start, ~KA_destroy
      PROVE  eng_ongoing' => eng_ongoing \/ thread = "none"
  BY <1>5 DEF IInv, Control, MainThread, NoKeepalive, KA_init, KA_init_fails, KA_start_fails, KA_started,
         CheckForStop, IEE_stop, IEE_close, KA_stop_join, KA_qry_status,
         LeaseExpires, Decide, Forward, TunnelIOError,
         main, shared, echoes, timing, peer, history
<1> QED BY <1>1, <1>2, <1>3, <1>4, <1>5

\* An event that is taken from the list leaves the others spaced.
LEMMA SpacedEchoTimeout ==
  ASSUME IInv, EchoTimeout, TypeOK'
  PROVE  Spaced'
<1>1. /\ thread = "select" /\ thread' = "handled" /\ UNCHANGED <<send_interval, tv_reference, replies>>
  BY DEF EchoTimeout, Handled, Running, timing
<1>2. TypeOK /\ Spaced
  BY DEF IInv
<1>3. Elapsed' = Elapsed /\ Elapsed <= Elapsed
  BY <1>1, <1>2, SpacedTypes DEF Elapsed, Numbers
<1>4. \A i \in DOMAIN event_list' : \E j \in DOMAIN event_list : event_list'[i] = event_list[j]
  BY EchoTimeoutCase
<1> QED BY <1>1, <1>2, <1>3, <1>4, SpacedKept

\* The thread sends when an interval of a tick at least is over.
LEMMA SpacedThread == IInv /\ KAThread /\ TypeOK' => Spaced'
<1> SUFFICES ASSUME IInv, KAThread, TypeOK' PROVE Spaced'
  OBVIOUS
<1>t. TypeOK /\ Counting /\ Spaced /\ send_interval \in Nat \ {0} /\ tv_reference \in 0..send_interval
  BY TimeAssumption DEF IInv, TypeOK
<1> USE DEF main, shared, peer, echoes, timing, history
<1>1. CASE SleepChunk
  BY <1>1, <1>t DEF SleepChunk, Spaced, Elapsed
<1>2. CASE SleepEnds
  <2>1. UNCHANGED <<event_list, replies>> /\ thread' \notin {"none", "sleep"}
    BY <1>2 DEF SleepEnds, Running
  <2>2. event_list = <<>> /\ replies = {}
    BY <1>2, <1>t DEF SleepEnds, Running, Spaced
  <2>3. DOMAIN event_list' = {}
    BY <2>1, <2>2
  <2> QED BY <2>1, <2>2, <2>3 DEF Spaced
<1>3. CASE ProcessLoop
  <2>1. UNCHANGED <<event_list, replies>> /\ thread' \notin {"none", "sleep"}
    BY <1>3 DEF ProcessLoop, Running
  <2>2. Elapsed' <= Elapsed
    BY <1>3, <1>t DEF ProcessLoop, Running, Elapsed
  <2> QED BY <1>t, <2>1, <2>2, SpacedKept
<1>4. CASE _do_send
  <2>1. thread = "send" /\ thread' = "sent" /\ Elapsed = 1 /\ Elapsed' = 0
    BY <1>4 DEF _do_send, Running, Elapsed
  <2>2. /\ Len(event_list') = Len(event_list) + 1
        /\ event_list' \in Seq(Events)
        /\ \A i \in DOMAIN event_list :
             /\ event_list'[i].echo_seq = event_list[i].echo_seq + 1
             /\ event_list'[i].left = event_list[i].left
        /\ event_list'[Len(event_list) + 1].echo_seq = 0
        /\ event_list'[Len(event_list) + 1].left = KA_ECHO_REPLY_TIMEOUT
    BY <1>4, <1>t, <2>1, RequestsBeforeSend, OlderEvents DEF _do_send, TypeOK
  <2>3. \A r \in replies' : r.echo_seq <= r.age
    BY <1>4, <2>1, RepliesAfterSend DEF _do_send
  <2>4. Numbers'
    BY SpacedTypes, PTL
  <2>5. ASSUME NEW i \in DOMAIN event_list'
        PROVE  event_list'[i].echo_seq + event_list'[i].left <= KA_ECHO_REPLY_TIMEOUT
    <3>1. i \in DOMAIN event_list \/ i = Len(event_list) + 1
      BY <1>t, <2>2 DEF TypeOK
    <3>2. CASE i \in DOMAIN event_list
      BY <1>t, <2>1, <2>2, <3>2, SpacedTypes DEF Spaced, Numbers
    <3>3. CASE i = Len(event_list) + 1
      BY <2>2, <3>3, TimeAssumption
    <3> QED BY <3>1, <3>2, <3>3
  <2> QED BY <2>1, <2>3, <2>4, <2>5 DEF Spaced, Numbers
<1>5. CASE _do_send_error
  <2>1. thread = "send" /\ thread' = "leave" /\ Elapsed = 1 /\ Elapsed' = 0
    BY <1>5 DEF _do_send_error, Running, Elapsed
  <2>2. /\ Len(event_list') = Len(event_list) + 1
        /\ event_list' \in Seq(Events)
        /\ \A i \in DOMAIN event_list :
             /\ event_list'[i].echo_seq = event_list[i].echo_seq + 1
             /\ event_list'[i].left = event_list[i].left
        /\ event_list'[Len(event_list) + 1].echo_seq = 0
        /\ event_list'[Len(event_list) + 1].left = KA_ECHO_REPLY_TIMEOUT
    BY <1>5, <1>t, <2>1, RequestsBeforeSend, OlderEvents DEF _do_send_error, TypeOK
  <2>3. \A r \in replies' : r.echo_seq <= r.age
    BY <1>5, <1>t, <2>1, SpacedTypes DEF _do_send_error, Spaced, Numbers
  <2>4. Numbers'
    BY SpacedTypes, PTL
  <2>5. ASSUME NEW i \in DOMAIN event_list'
        PROVE  event_list'[i].echo_seq + event_list'[i].left <= KA_ECHO_REPLY_TIMEOUT
    <3>1. i \in DOMAIN event_list \/ i = Len(event_list) + 1
      BY <1>t, <2>2 DEF TypeOK
    <3>2. CASE i \in DOMAIN event_list
      BY <1>t, <2>1, <2>2, <3>2, SpacedTypes DEF Spaced, Numbers
    <3>3. CASE i = Len(event_list) + 1
      BY <2>2, <3>3, TimeAssumption
    <3> QED BY <3>1, <3>2, <3>3
  <2> QED BY <2>1, <2>3, <2>4, <2>5 DEF Spaced, Numbers
<1>6. CASE _do_send_starved
  <2>1. UNCHANGED <<event_list, replies>> /\ thread' \notin {"none", "sleep"}
    BY <1>6 DEF _do_send_starved, Running
  <2>2. Elapsed' <= Elapsed
    BY <1>6, <1>t DEF _do_send_starved, Running, Elapsed
  <2> QED BY <1>t, <2>1, <2>2, SpacedKept
<1>7. CASE _compute_next_send
  <2>1. UNCHANGED <<event_list, replies>> /\ thread' \notin {"none", "sleep"}
    BY <1>7 DEF _compute_next_send, Running
  <2>2. Elapsed' <= Elapsed
    BY <1>7, <1>t DEF _compute_next_send, Running, Elapsed
  <2> QED BY <1>t, <2>1, <2>2, SpacedKept
<1>8. CASE BeginRead
  <2>1. UNCHANGED <<event_list, replies>> /\ thread' \notin {"none", "sleep"}
    BY <1>8 DEF BeginRead, EnterSelect, Running
  <2>2. Elapsed' <= Elapsed
    BY <1>8, <1>t DEF BeginRead, EnterSelect, Running, Elapsed
  <2> QED BY <1>t, <2>1, <2>2, SpacedKept
<1>9. CASE ReadAgain
  <2>1. UNCHANGED <<event_list, replies>> /\ thread' \notin {"none", "sleep"}
    BY <1>9 DEF ReadAgain, EnterSelect, Running
  <2>2. Elapsed' <= Elapsed
    BY <1>9, <1>t DEF ReadAgain, EnterSelect, Running, Elapsed
  <2> QED BY <1>t, <2>1, <2>2, SpacedKept
<1>10. CASE SelectTimeout
  <2>1. EchoTimeout
    BY <1>10 DEF SelectTimeout
  <2> QED BY <2>1, SpacedEchoTimeout
<1>11. CASE ReplyInTime
  <2>1. /\ thread = "select" /\ thread' = "handled" /\ UNCHANGED <<send_interval, tv_reference>>
        /\ replies' \subseteq replies
        /\ \E r \in replies : event_list' = _remove_free_echo_event(r.echo_seq)
    BY <1>11 DEF ReplyInTime, Handled, Running
  <2>2. Elapsed' = Elapsed /\ Elapsed <= Elapsed
    BY <1>t, <2>1, SpacedTypes DEF Elapsed, Numbers
  <2>3. \A i \in DOMAIN event_list' : \E j \in DOMAIN event_list : event_list'[i] = event_list[j]
    BY <1>t, <2>1, RemovedEvents DEF TypeOK
  <2> QED BY <1>t, <2>1, <2>2, <2>3, SpacedKept
<1>12. CASE OtherPacket
  <2>1. UNCHANGED <<event_list, replies>> /\ thread' \notin {"none", "sleep"}
    BY <1>12 DEF OtherPacket, Handled, Running
  <2>2. Elapsed' <= Elapsed
    BY <1>12, <1>t DEF OtherPacket, Handled, Running, Elapsed
  <2> QED BY <1>t, <2>1, <2>2, SpacedKept
<1>13. CASE SocketClosed
  <2>1. UNCHANGED <<event_list, replies>> /\ thread' \notin {"none", "sleep"}
    BY <1>13 DEF SocketClosed, Handled, Running
  <2>2. Elapsed' <= Elapsed
    BY <1>13, <1>t DEF SocketClosed, Handled, Running, Elapsed
  <2> QED BY <1>t, <2>1, <2>2, SpacedKept
<1>14. CASE ReadError
  <2>1. UNCHANGED <<event_list, replies>> /\ thread' \notin {"none", "sleep"}
    BY <1>14 DEF ReadError, Handled, Running
  <2>2. Elapsed' <= Elapsed
    BY <1>14, <1>t DEF ReadError, Handled, Running, Elapsed
  <2> QED BY <1>t, <2>1, <2>2, SpacedKept
<1>15. CASE ThreadExit
  <2>1. UNCHANGED <<event_list, replies>> /\ thread' \notin {"none", "sleep"}
    BY <1>15 DEF ThreadExit, Running
  <2>2. Elapsed' <= Elapsed
    BY <1>15, <1>t DEF ThreadExit, Running, Elapsed
  <2> QED BY <1>t, <2>1, <2>2, SpacedKept
<1>16. CASE UseAfterFree
  <2>1. UNCHANGED <<event_list, replies>> /\ thread' \notin {"none", "sleep"}
    BY <1>16 DEF UseAfterFree, Running
  <2>2. Elapsed' <= Elapsed
    BY <1>16, <1>t DEF UseAfterFree, Running, Elapsed
  <2> QED BY <1>t, <2>1, <2>2, SpacedKept
<1> QED BY <1>1, <1>2, <1>3, <1>4, <1>5, <1>6, <1>7, <1>8, <1>9, <1>10, <1>11, <1>12, <1>13, <1>14, <1>15, <1>16 DEF KAThread

\* Requests and replies get older together with the wait for the next request.
LEMMA SpacedEnvironment == IInv /\ Environment /\ TypeOK' => Spaced'
<1> SUFFICES ASSUME IInv, Environment, TypeOK' PROVE Spaced'
  OBVIOUS
<1>t. TypeOK /\ Counting /\ Spaced /\ send_interval \in Nat \ {0} /\ tv_reference \in 0..send_interval
  BY TimeAssumption DEF IInv, TypeOK
<1> USE DEF main, shared, peer, echoes, timing, history
<1>1. CASE Tick
  <2>1. /\ thread' = thread /\ thread \notin {"none", "sleep"}
        /\ UNCHANGED <<send_interval, eng_ongoing>>
        /\ tv_reference' = IF tv_reference > 0 THEN tv_reference - 1 ELSE 0
    BY <1>1 DEF Tick, Processing
  <2>2. Numbers /\ Numbers'
    BY <1>t, SpacedTypes, PTL
  <2>3. Elapsed' <= Elapsed + 1
    BY <1>t, <2>1 DEF Elapsed
  <2>4. /\ DOMAIN event_list' = DOMAIN event_list
        /\ \A i \in DOMAIN event_list :
             /\ event_list'[i].echo_seq = event_list[i].echo_seq
             /\ event_list'[i].left = event_list[i].left - 1
        /\ \A r \in replies' : \E q \in replies :
             r.echo_seq = q.echo_seq /\ r.age = q.age + 1
    BY <1>1, TickEchoes
  <2>5. ASSUME NEW i \in DOMAIN event_list'
        PROVE  event_list'[i].echo_seq + event_list'[i].left + Elapsed' <= KA_ECHO_REPLY_TIMEOUT
    <3>1. event_list[i].echo_seq + event_list[i].left + Elapsed <= KA_ECHO_REPLY_TIMEOUT
      BY <1>t, <2>4 DEF Spaced
    <3>2. event_list[i].echo_seq \in Nat /\ event_list[i].left \in Nat
      BY <2>2, <2>4 DEF Numbers
    <3> QED BY <2>2, <2>3, <2>4, <3>1, <3>2, TimeAssumption DEF Numbers
  <2>6. ASSUME NEW r \in replies'
        PROVE  r.echo_seq + Elapsed' <= r.age
    <3>1. PICK q \in replies : r.echo_seq = q.echo_seq /\ r.age = q.age + 1
      BY <2>4
    <3>2. q.echo_seq + Elapsed <= q.age /\ q.echo_seq \in Nat /\ q.age \in Nat
      BY <1>t, <2>2 DEF Spaced, Numbers
    <3> QED BY <2>2, <2>3, <3>1, <3>2 DEF Numbers
  <2> QED BY <2>1, <2>5, <2>6 DEF Spaced
<1>2. CASE PeerDown
  BY <1>2, <1>t DEF PeerDown, Spaced, Elapsed
<1>3. CASE Signal
  BY <1>3, <1>t DEF Signal, Spaced, Elapsed
<1>4. CASE SignalInSelect
  <2>1. EchoTimeout
    BY <1>4 DEF SignalInSelect
  <2> QED BY <2>1, SpacedEchoTimeout
<1> QED BY <1>1, <1>2, <1>3, <1>4 DEF Environment

-----------------------------------------------------------------------------
(* Theorems.                                                                *)

\* The invariant, from the initial states on.
THEOREM Invariance == Spec => []IInv
<1>1. Init => IInv
  <2> SUFFICES ASSUME Init PROVE IInv
    OBVIOUS
  <2> QED BY TypeInit, ControlInit, CountingInit, SpacedInit DEF IInv
<1>2. IInv /\ [Next]_vars => IInv'
  <2> SUFFICES ASSUME IInv, [Next]_vars PROVE IInv'
    OBVIOUS
  <2>1. CASE MainThread
    BY <2>1, TypeOKMain, ControlMain, CountingMain, SpacedMain DEF IInv
  <2>2. CASE KAThread
    BY <2>2, TypeOKThread, ControlOthers, CountingThread, SpacedThread DEF IInv
  <2>3. CASE Environment
    BY <2>3, TypeOKEnvironment, ControlOthers, CountingEnvironment, SpacedEnvironment DEF IInv
  <2>4. CASE UNCHANGED vars
    BY <2>4 DEF IInv, TypeOK, Control, Counting, Undecided, Spaced, Elapsed, vars, main, shared,
                echoes, timing, peer, history
  <2> QED BY <2>1, <2>2, <2>3, <2>4 DEF Next, Returned
<1> QED BY <1>1, <1>2, PTL DEF Spec

\* The types of the two threads: the sequence numbers and the timeouts of the
\* list stay in their ranges, and the count of late replies at the threshold.
THEOREM TypeCorrect == Spec => []TypeOK
<1>1. IInv => TypeOK
  BY DEF IInv
<1> QED BY <1>1, Invariance, PTL

\* The engine is freed under a running thread after an I/O error of the tunnel or
\* at the end of a lease only: every other exit has joined the thread.
THEOREM FreedAfterThreadCorrect == Spec => []FreedAfterThread
<1>1. IInv => FreedAfterThread
  BY DEF IInv, Control, FreedAfterThread
<1> QED BY <1>1, Invariance, PTL

\* A keepalive timeout without a signal is KA_NUM_CONSEC_TIMEOUT expired requests
\* with no reply in time between them.
THEOREM TimeoutJustifiedCorrect == Spec => []TimeoutJustified
<1>1. IInv => TimeoutJustified
  BY TimeAssumption DEF IInv, Counting, TimeoutJustified
<1> QED BY <1>1, Invariance, PTL

\* A request is always inserted at the end of the list.
THEOREM InsertedLastCorrect == Spec => []InsertedLast
<1>1. IInv => InsertedLast
  BY RequestsBeforeSend DEF InsertedLast
<1> QED BY <1>1, Invariance, PTL
=============================================================================
