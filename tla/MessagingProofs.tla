-------------------------- MODULE MessagingProofs --------------------------
(***************************************************************************)
(* Safety of the messaging library for any number of posts and faults, any *)
(* lengths of messages and any pipe that holds the longest of them; and,   *)
(* from "The contents of messages" on, that the translators read what the  *)
(* senders wrote, for any strings and lists.                               *)
(***************************************************************************)
EXTENDS Messaging, MsgCodec, WellFoundedInduction, TLAPS

-----------------------------------------------------------------------------
(* The inductive invariant.                                                 *)

Messages == [num : Nat, len : Lengths]
MsgTypes == {"nonfragdata", "fragdatafirst", "fragdata", "fragdatalast"}
Packets  == [num : Nat, seq : Nat, fragseq : Nat, msgtype : MsgTypes]

ManagerPlaces  == {"none", "loop", "stopSender", "stopReceiver", "uninitialize",
                   "connect", "accept", "started"}
SenderPlaces   == {"none", "wait", "check", "lock", "write", "pop", "exited", "undefined"}
ReceiverPlaces == {"none", "check", "lock", "read", "process", "answer", "exited",
                   "desynchronized"}

\* The types of what the proof looks at.
TypeOK ==
  /\ manager \in [Ends -> ManagerPlaces]
  /\ sender \in [Ends -> SenderPlaces]
  /\ receiver \in [Ends -> ReceiverPlaces]
  /\ m_SendQueue \in [Ends -> Seq(Messages)]
  /\ m_pSemIPCMutex \in [Ends -> {"free", "sender", "receiver", "abandoned"}]
  /\ nWritten \in [Ends -> Nat]
  /\ nSeqNum \in [Ends -> Nat]
  /\ pushed \in [Ends -> Nat]
  /\ got \in [Ends -> Seq(Packets)]
  /\ pipe \in [Ends -> Seq(Packets)]
  /\ instance \in {"none", "listening", "taken"}
  /\ handle \in {"none", "live", "dead"}

\* The manager sets up a connection with both threads gone; the mutex is held by the
\* thread that writes or reads; a message is in the queue while it is being sent;
\* gogoc's receiver is in PostMessage while it answers.
ThreadsOK ==
  /\ answering # "no" <=> receiver["gogoc"] = "answer"
  /\ \A e \in Ends :
       /\ manager[e] \in {"none", "stopReceiver", "uninitialize", "connect", "accept"}
            => sender[e] = "none"
       /\ manager[e] \in {"none", "uninitialize", "connect", "accept"}
            => receiver[e] = "none"
       /\ sender[e] = "write" <=> m_pSemIPCMutex[e] = "sender"
       /\ receiver[e] = "read" <=> m_pSemIPCMutex[e] = "receiver"
       /\ sender[e] \in {"check", "lock", "write", "pop"} => m_SendQueue[e] # <<>>
       /\ sender[e] = "write" => nWritten[e] < Head(m_SendQueue[e]).len

\* A sender that has found nothing to read, up to the end of its message.
Committed(e) == sender[e] \in {"lock", "write"} /\ m_pSemIPCMutex[e] # "abandoned"

\* The pipe to the peer holds nothing but what it has written of this message.
OnlyItsOwn(e) ==
  Len(pipe[Peer(e)]) <= IF sender[e] = "write" THEN nWritten[e] ELSE 0

\* Of two committed senders, one has the pipe to itself: the pipe was empty when the
\* second of them looked into it.
OneAlone ==
  Committed("gogoc") /\ Committed("gui") => OnlyItsOwn("gogoc") \/ OnlyItsOwn("gui")

\* Packet q is read in sequence after packet p.
Follows(p, q) ==
  ~EndsMessage(p) => q.seq = p.seq /\ q.fragseq = p.fragseq + 1

\* The packets of a pipe, with the message that the receiver is reading before them.
InOrder(e) ==
  /\ \A i \in 1..(Len(pipe[e]) - 1) : Follows(pipe[e][i], pipe[e][i + 1])
  /\ receiver[e] = "read" /\ got[e] # <<>> =>
       /\ ~EndsMessage(got[e][Len(got[e])])
       /\ pipe[e] # <<>> => Follows(got[e][Len(got[e])], pipe[e][1])

\* Packet p was the last that the sender of end f wrote of a message it is writing.
WrittenLast(f, p) ==
  ~EndsMessage(p) /\ p.seq = nSeqNum[f] /\ p.fragseq + 1 = nWritten[f]

\* The end of the stream towards e, the peer of f, while the two are linked: the
\* packet before the next one that f writes, if f is in a message, and the end of a
\* message otherwise.
Within(f)  == sender[f] = "write" /\ nWritten[f] > 0
Between(f) == \/ sender[f] \in {"wait", "check", "lock", "pop"}
              \/ sender[f] = "write" /\ nWritten[f] = 0

TailOK(e, f) ==
  Linked =>
    /\ Within(f) =>
         /\ pipe[e] # <<>> => WrittenLast(f, pipe[e][Len(pipe[e])])
         /\ pipe[e] = <<>> /\ receiver[e] = "read" /\ got[e] # <<>> =>
              WrittenLast(f, got[e][Len(got[e])])
    /\ Between(f) =>
         /\ pipe[e] # <<>> => EndsMessage(pipe[e][Len(pipe[e])])
         /\ pipe[e] = <<>> /\ receiver[e] = "read" => got[e] = <<>>

\* A connection begins with empty pipes and with both of the server's threads gone,
\* and the server writes nothing before it has accepted.
FreshOK ==
  /\ instance # "taken" => pipe["gogoc"] = <<>> /\ pipe["gui"] = <<>>
  /\ instance = "listening" => receiver["gogoc"] = "none" /\ sender["gogoc"] = "none"
  /\ manager["gogoc"] \in {"connect", "accept"} =>
       /\ pipe["gui"] = <<>>
       /\ Linked /\ receiver["gui"] = "read" => got["gui"] = <<>>

\* No receiver ever sees a packet out of sequence.
AllInOrder == \A e \in Ends : InOrder(e) /\ receiver[e] # "desynchronized"
TailsOK == \A e, f \in Ends : e # f => TailOK(e, f)

Framing == AllInOrder /\ TailsOK /\ FreshOK

IInv == TypeOK /\ ThreadsOK /\ OneAlone /\ Framing

-----------------------------------------------------------------------------
(* Operators.                                                               *)

\* Each end has the other for its peer.
LEMMA Peers ==
  /\ Peer("gogoc") = "gui" /\ Peer("gui") = "gogoc"
  /\ \A e \in Ends : Peer(e) \in Ends /\ Peer(e) # e /\ Peer(Peer(e)) = e
<1>1. \A e, f \in Ends : e # f => Peer(e) = f
  BY DEF Peer, Ends
<1> QED BY <1>1 DEF Ends

\* What a queue holds: its head is a message of a length the pipe can hold.
LEMMA HeadOfQueue ==
  ASSUME TypeOK, NEW e \in Ends, m_SendQueue[e] # <<>>
  PROVE  /\ Head(m_SendQueue[e]) \in Messages
         /\ Head(m_SendQueue[e]).num \in Nat
         /\ Head(m_SendQueue[e]).len \in Nat \ {0}
         /\ Head(m_SendQueue[e]).len <= PipeSize
<1>1. Head(m_SendQueue[e]) \in Messages
  BY DEF TypeOK
<1> QED BY <1>1, MessagingAssumption DEF Messages

\* A packet carries its place in the message; the last one says so.
LEMMA PacketMade ==
  ASSUME TypeOK, NEW e \in Ends, m_SendQueue[e] # <<>>,
         NEW n \in Nat, n < Head(m_SendQueue[e]).len
  PROVE  /\ MakePacket(e, n) \in Packets
         /\ MakePacket(e, n).num = Head(m_SendQueue[e]).num
         /\ MakePacket(e, n).seq = nSeqNum[e]
         /\ MakePacket(e, n).fragseq = n
         /\ EndsMessage(MakePacket(e, n)) <=> n + 1 = Head(m_SendQueue[e]).len
<1> DEFINE m == Head(m_SendQueue[e])
           type == CASE m.len = 1 -> "nonfragdata" [] m.len # 1 /\ n = 0 -> "fragdatafirst"
                     [] m.len # 1 /\ n \in 1 .. m.len - 2 -> "fragdata"
                     [] OTHER -> "fragdatalast"
<1>1. m.num \in Nat /\ m.len \in Nat \ {0} /\ n < m.len
  BY HeadOfQueue
<1>2. MakePacket(e, n) = [num |-> m.num, seq |-> nSeqNum[e], fragseq |-> n, msgtype |-> type]
  BY DEF MakePacket
<1> HIDE DEF m
<1>3. /\ m.len = 1 => type = "nonfragdata"
      /\ m.len # 1 /\ n = 0 => type = "fragdatafirst"
      /\ m.len # 1 /\ n \in 1..m.len - 2 => type = "fragdata"
      /\ m.len # 1 /\ n # 0 /\ n \notin 1..m.len - 2 => type = "fragdatalast"
  BY <1>1
<1> HIDE DEF type
<1>4. type \in MsgTypes
  BY <1>3 DEF MsgTypes
<1>5. type \in {"nonfragdata", "fragdatalast"} <=> n + 1 = m.len
  BY <1>1, <1>3
<1>6. nSeqNum[e] \in Nat
  BY DEF TypeOK
<1> QED BY <1>1, <1>2, <1>4, <1>5, <1>6 DEF Packets, EndsMessage, m

\* A message that is pushed is the last of its queue.
LEMMA Pushed ==
  ASSUME TypeOK, NEW e \in Ends, NEW n \in Nat, NEW len \in Lengths,
         m_SendQueue' = [m_SendQueue EXCEPT ![e] = Append(@, [num |-> n, len |-> len])]
  PROVE  /\ m_SendQueue' \in [Ends -> Seq(Messages)]
         /\ m_SendQueue'[e] # <<>>
         /\ \A f \in Ends : m_SendQueue[f] # <<>> =>
              m_SendQueue'[f] # <<>> /\ Head(m_SendQueue'[f]) = Head(m_SendQueue[f])
<1> DEFINE m == [num |-> n, len |-> len]
<1>1. m \in Messages
  BY DEF Messages
<1> HIDE DEF m
<1>2. m_SendQueue \in [Ends -> Seq(Messages)]
  BY DEF TypeOK
<1>3. /\ m_SendQueue'[e] = Append(m_SendQueue[e], m)
      /\ \A f \in Ends : f # e => m_SendQueue'[f] = m_SendQueue[f]
      /\ DOMAIN m_SendQueue' = Ends /\ m_SendQueue' = [f \in Ends |-> m_SendQueue'[f]]
  BY <1>2 DEF m
<1>4. Append(m_SendQueue[e], m) \in Seq(Messages) /\ Append(m_SendQueue[e], m) # <<>>
  BY <1>1, <1>2
<1>5. m_SendQueue[e] # <<>> => Head(Append(m_SendQueue[e], m)) = Head(m_SendQueue[e])
  BY <1>1, <1>2
<1>6. \A f \in Ends : m_SendQueue'[f] \in Seq(Messages)
  BY <1>2, <1>3, <1>4
<1> QED BY <1>3, <1>4, <1>5, <1>6

\* Closing the server's end loses both directions; closing the client's, only what
\* the client has not read.
LEMMA Closed ==
  ASSUME TypeOK, NEW e \in Ends, UnInitialize(e)
  PROVE  /\ pipe' \in [Ends -> Seq(Packets)]
         /\ instance' \in {"none", "listening", "taken"}
         /\ handle' \in {"none", "live", "dead"}
         /\ ~Linked'
         /\ pipe'["gui"] = <<>>
         /\ pipe'["gogoc"] = pipe["gogoc"] \/ pipe'["gogoc"] = <<>>
         /\ e = "gogoc" => instance' = "none" /\ pipe'["gogoc"] = <<>>
         /\ e = "gui" => instance' = instance
<1>1. CASE e = "gogoc"
  <2>1. /\ instance' = "none" /\ handle' = (IF handle = "live" THEN "dead" ELSE handle)
        /\ pipe' = [x \in Ends |-> <<>>]
    BY <1>1 DEF UnInitialize, CloseServer
  <2>2. pipe' \in [Ends -> Seq(Packets)]
    BY <2>1
  <2> QED BY <1>1, <2>1, <2>2 DEF TypeOK, Linked, Ends
<1>2. CASE e = "gui"
  <2>1. /\ handle' = "none" /\ instance' = instance
        /\ pipe' = [pipe EXCEPT !["gui"] = <<>>]
    BY <1>2 DEF UnInitialize, CloseClient
  <2>2. pipe \in [Ends -> Seq(Packets)]
    BY DEF TypeOK
  <2>3. pipe' \in [Ends -> Seq(Packets)] /\ pipe'["gui"] = <<>> /\ pipe'["gogoc"] = pipe["gogoc"]
    BY <2>1, <2>2 DEF Ends
  <2> QED BY <1>2, <2>1, <2>3 DEF TypeOK, Linked
<1> QED BY <1>1, <1>2 DEF Ends

\* A packet that is read leaves the rest of its pipe.
LEMMA Read ==
  ASSUME TypeOK, NEW e \in Ends, pipe[e] # <<>>, pipe' = [pipe EXCEPT ![e] = Tail(@)]
  PROVE  /\ pipe' \in [Ends -> Seq(Packets)]
         /\ Head(pipe[e]) = pipe[e][1] /\ Head(pipe[e]) \in Packets
         /\ Len(pipe[e]) \in Nat /\ Len(pipe[e]) > 0
         /\ Len(pipe'[e]) = Len(pipe[e]) - 1
         /\ \A i \in 1..(Len(pipe[e]) - 1) : pipe'[e][i] = pipe[e][i + 1]
         /\ \A f \in Ends : f # e => pipe'[f] = pipe[f]
<1>1. pipe \in [Ends -> Seq(Packets)]
  BY DEF TypeOK
<1>2. /\ pipe'[e] = Tail(pipe[e])
      /\ \A f \in Ends : f # e => pipe'[f] = pipe[f]
      /\ DOMAIN pipe' = Ends /\ pipe' = [f \in Ends |-> pipe'[f]]
  BY <1>1
<1>3. /\ Tail(pipe[e]) \in Seq(Packets)
      /\ Len(Tail(pipe[e])) = Len(pipe[e]) - 1
      /\ \A i \in 1..(Len(pipe[e]) - 1) : Tail(pipe[e])[i] = pipe[e][i + 1]
      /\ Head(pipe[e]) = pipe[e][1] /\ Head(pipe[e]) \in Packets
      /\ Len(pipe[e]) \in Nat /\ Len(pipe[e]) > 0
  BY <1>1
<1>4. \A f \in Ends : pipe'[f] \in Seq(Packets)
  BY <1>1, <1>2, <1>3
<1> QED BY <1>2, <1>3, <1>4

\* A packet that is written is the last of the pipe to the peer.
LEMMA Written ==
  ASSUME TypeOK, NEW e \in Ends, NEW p \in Packets,
         pipe' = [pipe EXCEPT ![Peer(e)] = Append(@, p)]
  PROVE  /\ pipe' \in [Ends -> Seq(Packets)]
         /\ Len(pipe[Peer(e)]) \in Nat
         /\ Len(pipe'[Peer(e)]) = Len(pipe[Peer(e)]) + 1
         /\ \A i \in 1..Len(pipe[Peer(e)]) : pipe'[Peer(e)][i] = pipe[Peer(e)][i]
         /\ pipe'[Peer(e)][Len(pipe[Peer(e)]) + 1] = p
         /\ pipe'[e] = pipe[e]
<1>1. pipe \in [Ends -> Seq(Packets)]
  BY DEF TypeOK
<1>2. Peer(e) \in Ends /\ Peer(e) # e
  BY Peers
<1> DEFINE f == Peer(e)
<1> HIDE DEF f
<1>3. f \in Ends /\ f # e /\ pipe' = [pipe EXCEPT ![f] = Append(@, p)]
  BY <1>2 DEF f
<1>4. /\ pipe'[f] = Append(pipe[f], p)
      /\ \A g \in Ends : g # f => pipe'[g] = pipe[g]
      /\ DOMAIN pipe' = Ends /\ pipe' = [g \in Ends |-> pipe'[g]]
  BY <1>1, <1>3
<1>5. /\ Append(pipe[f], p) \in Seq(Packets)
      /\ Len(pipe[f]) \in Nat
      /\ Len(Append(pipe[f], p)) = Len(pipe[f]) + 1
      /\ \A i \in 1..Len(pipe[f]) : Append(pipe[f], p)[i] = pipe[f][i]
      /\ Append(pipe[f], p)[Len(pipe[f]) + 1] = p
  BY <1>1, <1>3
<1>6. \A g \in Ends : pipe'[g] \in Seq(Packets)
  BY <1>1, <1>4, <1>5
<1> QED BY <1>3, <1>4, <1>5, <1>6 DEF f

-----------------------------------------------------------------------------
(* Every step keeps the parts of the invariant, one lemma for each part.    *)

\* The types, by the action.
LEMMA TypeOKStep == IInv /\ Next => TypeOK'
<1> SUFFICES ASSUME IInv, Next PROVE TypeOK'
  OBVIOUS
<1>e. "gogoc" \in Ends /\ "gui" \in Ends
  BY DEF Ends
<1> USE DEF IInv, TypeOK
<1>1. ASSUME NEW e \in Ends, SenderStops(e) PROVE TypeOK'
  BY <1>1, <1>e DEF SenderStops, SenderPlaces, ReceiverPlaces, ManagerPlaces, SenderAt,
     connVars, postVars, queueVars, pipeVars
<1>2. ASSUME NEW e \in Ends, SenderTakes(e) PROVE TypeOK'
  BY <1>2, <1>e DEF SenderTakes, SenderPlaces, ReceiverPlaces, ManagerPlaces, SenderAt,
     connVars, postVars, pipeVars
<1>3. ASSUME NEW e \in Ends, SenderChecks(e) PROVE TypeOK'
  BY <1>3, <1>e DEF SenderChecks, SenderPlaces, ReceiverPlaces, ManagerPlaces, SenderAt,
     SenderFails, SetState, Release, postVars, pipeVars
<1>4. ASSUME NEW e \in Ends, SenderLocks(e) PROVE TypeOK'
  <2>1. UNCHANGED <<manager, receiver, m_SendQueue, nSeqNum, pushed, got, pipe, instance, handle>>
    BY <1>4 DEF SenderLocks, SenderAt, SenderFails, SetState, Lock, postVars, queueVars,
       pipeVars
  <2>2. sender' \in [Ends -> SenderPlaces]
    BY <1>4 DEF SenderLocks, SenderPlaces, SenderAt, SenderFails, SetState, Lock, postVars,
       queueVars, pipeVars
  <2>3. m_pSemIPCMutex' \in [Ends -> {"free", "sender", "receiver", "abandoned"}]
    BY <1>4 DEF SenderLocks, SenderAt, SenderFails, SetState, Lock, postVars, queueVars,
       pipeVars
  <2>4. nWritten' = nWritten \/ nWritten' = [nWritten EXCEPT ![e] = 0]
    BY <1>4 DEF SenderLocks, SenderAt, SenderFails, SetState, Lock, postVars, queueVars,
       pipeVars
  <2>5. nWritten' \in [Ends -> Nat]
    <3>1. nWritten \in [Ends -> Nat]
      BY Zenon
    <3>2. [nWritten EXCEPT ![e] = 0] \in [Ends -> Nat]
      BY <3>1
    <3> QED BY <2>4, <3>1, <3>2
  <2> QED BY <2>1, <2>2, <2>3, <2>5
<1>5. ASSUME NEW e \in Ends, SenderWrites(e) PROVE TypeOK'
  <2>1. m_SendQueue[e] # <<>> /\ nWritten[e] \in Nat /\ nWritten[e] < Head(m_SendQueue[e]).len
    BY <1>5 DEF SenderWrites, ThreadsOK, Unlock, connVars, postVars, queueVars, pipeVars
  <2>2. MakePacket(e, nWritten[e]) \in Packets
    BY <2>1, PacketMade
  <2>3. pipe' \in [Ends -> Seq(Packets)]
    BY <1>5, <2>2, Written DEF SenderWrites, Unlock, connVars, postVars, queueVars, pipeVars
  <2>4. (nSeqNum[e] + 1) % SeqNums \in Nat
    BY MessagingAssumption
  <2>5. UNCHANGED <<manager, receiver, m_SendQueue, pushed, got, instance, handle>>
    BY <1>5 DEF SenderWrites, Unlock, connVars, postVars, queueVars, pipeVars
  <2>6. nWritten' = [nWritten EXCEPT ![e] = @ + 1]
    BY <1>5 DEF SenderWrites, Unlock, connVars, postVars, queueVars, pipeVars
  <2>7. nWritten' \in [Ends -> Nat]
    BY <2>1, <2>6
  <2>8. \/ UNCHANGED <<sender, nSeqNum, m_pSemIPCMutex>>
        \/ /\ sender' = [sender EXCEPT ![e] = "pop"]
           /\ nSeqNum' = [nSeqNum EXCEPT ![e] = (@ + 1) % SeqNums]
           /\ m_pSemIPCMutex' = [m_pSemIPCMutex EXCEPT ![e] = "free"]
    BY <1>5 DEF SenderWrites, Unlock, connVars, postVars, queueVars, pipeVars
  <2>9. nSeqNum' \in [Ends -> Nat]
    BY ZenonT(60), <2>4, <2>8
  <2>10. /\ sender' \in [Ends -> SenderPlaces]
         /\ m_pSemIPCMutex' \in [Ends -> {"free", "sender", "receiver", "abandoned"}]
    BY <2>8 DEF SenderPlaces
  <2> QED BY <2>3, <2>5, <2>7, <2>9, <2>10
<1>6. ASSUME NEW e \in Ends, SenderWriteFails(e) PROVE TypeOK'
  BY <1>6, <1>e DEF SenderWriteFails, SenderPlaces, ReceiverPlaces, ManagerPlaces, SenderAt,
     SenderFails, SetState, Unlock, postVars, queueVars, pipeVars
<1>7. ASSUME NEW e \in Ends, SenderPops(e) PROVE TypeOK'
  <2>1. m_SendQueue[e] # <<>>
    BY <1>7 DEF SenderPops, ThreadsOK, SenderAt, connVars, postVars, pipeVars
  <2>2. Tail(m_SendQueue[e]) \in Seq(Messages)
    BY <2>1
  <2>3. m_SendQueue' \in [Ends -> Seq(Messages)]
    BY <1>7, <2>2 DEF SenderPops, SenderAt, connVars, postVars, pipeVars
  <2> QED BY <1>7, <2>3 DEF SenderPops, SenderPlaces, SenderAt, connVars, postVars, pipeVars
<1>8. ASSUME NEW e \in Ends, ReceiverStops(e) PROVE TypeOK'
  BY <1>8, <1>e DEF ReceiverStops, SenderPlaces, ReceiverPlaces, ManagerPlaces, ReceiverAt,
     connVars, postVars, queueVars, pipeVars
<1>9. ASSUME NEW e \in Ends, ReceiverChecks(e) PROVE TypeOK'
  BY <1>9, <1>e DEF ReceiverChecks, SenderPlaces, ReceiverPlaces, ManagerPlaces, ReceiverAt,
     ReceiverFails, SetState, postVars, queueVars, pipeVars
<1>10. ASSUME NEW e \in Ends, ReceiverLocks(e) PROVE TypeOK'
  <2>1. UNCHANGED <<manager, sender, m_SendQueue, nWritten, nSeqNum, pushed, pipe, instance, handle>>
    BY <1>10 DEF ReceiverLocks, ReceiverAt, ReceiverFails, SetState, Lock, postVars, queueVars,
       pipeVars
  <2>2. /\ receiver' \in [Ends -> ReceiverPlaces]
        /\ m_pSemIPCMutex' \in [Ends -> {"free", "sender", "receiver", "abandoned"}]
    BY <1>10 DEF ReceiverLocks, ReceiverPlaces, ManagerPlaces, ReceiverAt, ReceiverFails,
       SetState, Lock, postVars, queueVars, pipeVars
  <2>3. got' = got \/ got' = [got EXCEPT ![e] = <<>>]
    BY <1>10 DEF ReceiverLocks, ReceiverAt, ReceiverFails, SetState, Lock, postVars, queueVars,
       pipeVars
  <2>4. <<>> \in Seq(Packets)
    OBVIOUS
  <2>5. got' \in [Ends -> Seq(Packets)]
    BY <2>3, <2>4
  <2> QED BY <2>1, <2>2, <2>5
<1>11. ASSUME NEW e \in Ends, ReceiverReads(e) PROVE TypeOK'
  <2>1. pipe[e] # <<>> /\ pipe' = [pipe EXCEPT ![e] = Tail(@)]
    BY <1>11 DEF ReceiverReads, CanRead, ReceiverAt, SetState, Unlock, postVars, queueVars,
       pipeVars
  <2>2. pipe' \in [Ends -> Seq(Packets)] /\ Head(pipe[e]) \in Packets
    BY <2>1, Read
  <2>3. UNCHANGED <<manager, sender, m_SendQueue, nWritten, nSeqNum, pushed, instance, handle>>
    BY <1>11 DEF ReceiverReads, ReceiverAt, SetState, Unlock, postVars, queueVars, pipeVars
  <2>4. /\ receiver' \in [Ends -> ReceiverPlaces]
        /\ m_pSemIPCMutex' \in [Ends -> {"free", "sender", "receiver", "abandoned"}]
    BY <1>11 DEF ReceiverReads, ReceiverPlaces, ReceiverAt, SetState, Unlock, postVars,
       queueVars, pipeVars
  <2>5. got' = got \/ got' = [got EXCEPT ![e] = Append(@, Head(pipe[e]))]
    BY <1>11 DEF ReceiverReads, ReceiverAt, SetState, Unlock, postVars, queueVars, pipeVars
  <2>6. Append(got[e], Head(pipe[e])) \in Seq(Packets)
    BY <2>2
  <2>7. got' \in [Ends -> Seq(Packets)]
    BY <2>5, <2>6
  <2> QED BY <2>2, <2>3, <2>4, <2>7
<1>12. ASSUME NEW e \in Ends, ReceiverReadFails(e) PROVE TypeOK'
  BY <1>12, <1>e DEF ReceiverReadFails, SenderPlaces, ReceiverPlaces, ManagerPlaces,
     ReceiverAt, ReceiverFails, SetState, Unlock, postVars, queueVars, pipeVars
<1>13. ASSUME NEW e \in Ends, ReceiverProcesses(e) PROVE TypeOK'
  <2>1. UNCHANGED <<manager, sender, m_SendQueue, m_pSemIPCMutex, nWritten, nSeqNum, pushed, pipe, instance, handle>>
    BY <1>13 DEF ReceiverProcesses, ReceiverAt, connVars, queueVars, pipeVars
  <2>2. receiver' \in [Ends -> ReceiverPlaces]
    BY <1>13 DEF ReceiverProcesses, ReceiverPlaces, ManagerPlaces, ReceiverAt, connVars,
       queueVars, pipeVars
  <2>3. got' = got \/ got' = [got EXCEPT ![e] = <<>>]
    BY <1>13 DEF ReceiverProcesses, ReceiverAt, connVars, queueVars, pipeVars
  <2>4. <<>> \in Seq(Packets)
    OBVIOUS
  <2>5. got' \in [Ends -> Seq(Packets)]
    BY <2>3, <2>4
  <2> QED BY <2>1, <2>2, <2>5
<1>14. ASSUME NEW e \in Ends, ManagerLoops(e) PROVE TypeOK'
  BY <1>14, <1>e DEF ManagerLoops, SenderPlaces, ReceiverPlaces, ManagerPlaces, ManagerAt,
     postVars, queueVars, pipeVars
<1>15. ASSUME NEW e \in Ends, StopSender(e) PROVE TypeOK'
  BY <1>15, <1>e DEF StopSender, SenderPlaces, ReceiverPlaces, ManagerPlaces, ManagerAt,
     Abandon, postVars, queueVars, pipeVars
<1>16. ASSUME NEW e \in Ends, StopReceiver(e) PROVE TypeOK'
  <2>1. UNCHANGED <<sender, m_SendQueue, nWritten, nSeqNum, pushed, pipe, instance, handle>>
    BY <1>16 DEF StopReceiver, ManagerAt, Abandon, postVars, queueVars, pipeVars
  <2>2. /\ receiver' \in [Ends -> ReceiverPlaces] /\ manager' \in [Ends -> ManagerPlaces]
        /\ m_pSemIPCMutex' \in [Ends -> {"free", "sender", "receiver", "abandoned"}]
    BY <1>16 DEF StopReceiver, ReceiverPlaces, ManagerPlaces, ManagerAt, Abandon, postVars,
       queueVars, pipeVars
  <2>3. got' = got \/ got' = [got EXCEPT ![e] = <<>>]
    BY <1>16 DEF StopReceiver, ManagerAt, Abandon, postVars, queueVars, pipeVars
  <2>4. <<>> \in Seq(Packets)
    OBVIOUS
  <2>5. got' \in [Ends -> Seq(Packets)]
    BY <2>3, <2>4
  <2> QED BY <2>1, <2>2, <2>5
<1>17. ASSUME NEW e \in Ends, ManagerCleansUp(e) PROVE TypeOK'
  <2>1. /\ pipe' \in [Ends -> Seq(Packets)]
        /\ instance' \in {"none", "listening", "taken"}
        /\ handle' \in {"none", "live", "dead"}
    BY <1>17, Closed DEF ManagerCleansUp, ManagerAt, SetState, Reset, UnInitialize,
       CloseServer, CloseClient, postVars
  <2>2. m_SendQueue' \in [Ends -> Seq(Messages)]
    <3>1. <<>> \in Seq(Messages)
      OBVIOUS
    <3> QED BY <1>17, <3>1 DEF ManagerCleansUp, ManagerAt, SetState, Reset, UnInitialize,
               CloseServer, CloseClient, postVars
  <2>3. UNCHANGED <<sender, receiver, nWritten, got, pushed, nSeqNum>>
    BY <1>17 DEF ManagerCleansUp, ManagerAt, SetState, Reset, UnInitialize, CloseServer,
       CloseClient, postVars
  <2>4. /\ manager' \in [Ends -> ManagerPlaces]
        /\ m_pSemIPCMutex' \in [Ends -> {"free", "sender", "receiver", "abandoned"}]
    BY ZenonT(60), <1>17 DEF ManagerCleansUp, ManagerPlaces, ManagerAt, SetState, Reset, UnInitialize,
       CloseServer, CloseClient, postVars
  <2> QED BY <2>1, <2>2, <2>3, <2>4
<1>18. ASSUME NEW e \in Ends, ManagerConnected(e) PROVE TypeOK'
  BY <1>18, <1>e DEF ManagerConnected, SenderPlaces, ReceiverPlaces, ManagerPlaces, ManagerAt,
     SetState, threadVars, postVars, queueVars, pipeVars
<1>19. ASSUME NEW e \in Ends, ConnectFails(e) PROVE TypeOK'
  BY <1>19, <1>e DEF ConnectFails, SenderPlaces, ReceiverPlaces, ManagerPlaces, ManagerAt,
     SetState, InitializeFails, postVars, queueVars, pipeVars
<1>20. ASSUME NEW e \in Ends, UserPushes(e) PROVE TypeOK'
  <2>1. m_SendQueue' \in [Ends -> Seq(Messages)]
    <3>1. pushed[e] + 1 \in Nat
      BY SMTT(30), <1>e
    <3> QED BY <1>20, <1>e, <3>1, Pushed DEF UserPushes, Push, connVars, threadVars, postVars,
               pipeVars
  <2>2. /\ pushed' = [pushed EXCEPT ![e] = @ + 1]
        /\ UNCHANGED <<manager, sender, receiver, m_pSemIPCMutex, nWritten, nSeqNum, got, pipe,
                       instance, handle>>
    BY <1>20 DEF UserPushes, Push, connVars, threadVars, postVars, pipeVars
  <2>3. pushed' \in [Ends -> Nat]
    BY <2>2
  <2> QED BY <2>1, <2>2, <2>3
<1>21. ASSUME NEW e \in Ends, UserReleases(e) PROVE TypeOK'
  BY <1>21, <1>e DEF UserReleases, SenderPlaces, ReceiverPlaces, ManagerPlaces, Release,
     connVars, threadVars, postVars, pipeVars
<1>22. ASSUME NEW e \in Ends, UserPosts(e) PROVE TypeOK'
  BY <1>22, <1>e DEF UserPosts, SenderPlaces, ReceiverPlaces, ManagerPlaces, connVars,
     threadVars, postVars, queueVars, pipeVars
<1>23. ASSUME NEW e \in Ends, Create(e) PROVE TypeOK'
  BY <1>23, <1>e DEF Create, SenderPlaces, ReceiverPlaces, ManagerPlaces, threadVars, postVars,
     queueVars, pipeVars
<1>24. ASSUME NEW e \in Ends, Destroy(e) PROVE TypeOK'
  BY <1>24, <1>e DEF Destroy, SenderPlaces, ReceiverPlaces, ManagerPlaces, postVars, queueVars,
     pipeVars
<1>25. ASSUME NEW e \in Ends, Die(e) PROVE TypeOK'
  <2>1. /\ pipe' \in [Ends -> Seq(Packets)]
        /\ instance' \in {"none", "listening", "taken"}
        /\ handle' \in {"none", "live", "dead"}
    BY <1>25, Closed DEF Die, SetState, Reset, UnInitialize, CloseServer, CloseClient
  <2>2. m_SendQueue' \in [Ends -> Seq(Messages)] /\ got' \in [Ends -> Seq(Packets)]
    <3>1. <<>> \in Seq(Messages) /\ <<>> \in Seq(Packets)
      OBVIOUS
    <3> QED BY <1>25, <3>1 DEF Die, SetState, Reset, UnInitialize, CloseServer, CloseClient
  <2>3. /\ manager' \in [Ends -> ManagerPlaces] /\ sender' \in [Ends -> SenderPlaces]
        /\ receiver' \in [Ends -> ReceiverPlaces]
        /\ m_pSemIPCMutex' \in [Ends -> {"free", "sender", "receiver", "abandoned"}]
        /\ nWritten' \in [Ends -> Nat] /\ nSeqNum' \in [Ends -> Nat] /\ pushed' = pushed
    BY <1>25 DEF Die, ManagerPlaces, SenderPlaces, ReceiverPlaces, SetState, Reset,
       UnInitialize, CloseServer, CloseClient
  <2> QED BY <2>1, <2>2, <2>3
<1>26. ASSUME AnswerPushes PROVE TypeOK'
  <2>1. m_SendQueue' \in [Ends -> Seq(Messages)]
    <3>1. pushed["gogoc"] + 1 \in Nat
      BY <1>e
    <3> QED BY <1>26, <1>e, <3>1, Pushed DEF AnswerPushes, Push, connVars, threadVars,
               postVars, pipeVars
  <2>2. /\ pushed' = [pushed EXCEPT !["gogoc"] = @ + 1]
        /\ UNCHANGED <<manager, sender, receiver, m_pSemIPCMutex, nWritten, nSeqNum, got, pipe,
                       instance, handle>>
    BY <1>26 DEF AnswerPushes, Push, connVars, threadVars, postVars, pipeVars
  <2>3. pushed' \in [Ends -> Nat]
    <3>1. pushed["gogoc"] + 1 \in Nat
      BY <1>e
    <3> QED BY <2>2, <3>1
  <2> QED BY <2>1, <2>2, <2>3
<1>27. ASSUME AnswerReleases PROVE TypeOK'
  BY <1>27, <1>e DEF AnswerReleases, SenderPlaces, ReceiverPlaces, ManagerPlaces, Release,
     connVars, pipeVars
<1>28. ASSUME ServerCreates PROVE TypeOK'
  BY <1>28, <1>e DEF ServerCreates, SenderPlaces, ReceiverPlaces, ManagerPlaces, ManagerAt,
     threadVars, postVars, queueVars, pipeVars
<1>29. ASSUME ServerAccepts PROVE TypeOK'
  BY <1>29, <1>e DEF ServerAccepts, SenderPlaces, ReceiverPlaces, ManagerPlaces, ManagerAt,
     SetState, InitializeSucceeds, InitializeFails, postVars, queueVars, pipeVars
<1>30. ASSUME ClientConnects PROVE TypeOK'
  BY <1>30, <1>e DEF ClientConnects, SenderPlaces, ReceiverPlaces, ManagerPlaces, ManagerAt,
     InitializeSucceeds, postVars, queueVars, pipeVars
<1>31. ASSUME RacingPush PROVE TypeOK'
  <2>1. m_SendQueue' \in [Ends -> Seq(Messages)]
    <3>1. pushed["gogoc"] + 2 \in Nat
      BY <1>e
    <3> QED BY <1>31, <1>e, <3>1, Pushed DEF RacingPush, connVars, threadVars, postVars,
               pipeVars
  <2>2. /\ pushed' = [pushed EXCEPT !["gogoc"] = @ + 2]
        /\ UNCHANGED <<manager, sender, receiver, m_pSemIPCMutex, nWritten, nSeqNum, got, pipe,
                       instance, handle>>
    BY <1>31 DEF RacingPush, connVars, threadVars, postVars, pipeVars
  <2>3. pushed' \in [Ends -> Nat]
    <3>1. pushed["gogoc"] + 2 \in Nat
      BY <1>e
    <3> QED BY <2>2, <3>1
  <2> QED BY <2>1, <2>2, <2>3
<1> HIDE DEF IInv, TypeOK
<1> QED BY <1>e, <1>1, <1>2, <1>3, <1>4, <1>5, <1>6, <1>7, <1>8, <1>9, <1>10, <1>11, <1>12,
           <1>13, <1>14, <1>15, <1>16, <1>17, <1>18, <1>19, <1>20, <1>21, <1>22, <1>23, <1>24,
           <1>25, <1>26, <1>27, <1>28, <1>29, <1>30, <1>31 DEF Next, SenderStep, ReceiverStep,
           ManagerStep, UserStep

\* What the places of the threads say of the mutex, the queue and the manager.
LEMMA ThreadsOKStep == IInv /\ Next => ThreadsOK'
<1> SUFFICES ASSUME IInv, Next PROVE ThreadsOK'
  OBVIOUS
<1>e. "gogoc" \in Ends /\ "gui" \in Ends
  BY DEF Ends
<1> USE DEF IInv, ThreadsOK
<1>1. ASSUME NEW e \in Ends, SenderStops(e) PROVE ThreadsOK'
  BY <1>1, <1>e DEF SenderStops, TypeOK, SenderAt, connVars, postVars, queueVars, pipeVars
<1>2. ASSUME NEW e \in Ends, SenderTakes(e) PROVE ThreadsOK'
  BY <1>2, <1>e DEF SenderTakes, TypeOK, SenderAt, connVars, postVars, pipeVars
<1>3. ASSUME NEW e \in Ends, SenderChecks(e) PROVE ThreadsOK'
  BY ZenonT(60), <1>3, <1>e DEF SenderChecks, TypeOK, SenderAt, SenderFails, SetState, Release, postVars,
     pipeVars
<1>4. ASSUME NEW e \in Ends, SenderLocks(e) PROVE ThreadsOK'
  <2>1. CASE Lock(e, "sender")
    <3>1. m_SendQueue[e] # <<>>
      BY <1>4 DEF SenderLocks, SenderAt, SenderFails, SetState, Lock, postVars, queueVars,
         pipeVars
    <3>2. Head(m_SendQueue[e]).len > 0
      BY <3>1, HeadOfQueue
    <3> QED BY <1>4, <2>1, <3>1, <3>2 DEF SenderLocks, TypeOK, SenderAt, SenderFails, SetState,
               Lock, postVars, queueVars, pipeVars
  <2>2. CASE SenderFails(e, "lock") /\ UNCHANGED <<nWritten, m_pSemIPCMutex>>
    BY <1>4, <2>2 DEF SenderLocks, TypeOK, SenderAt, SenderFails, SetState, Lock, postVars,
       queueVars, pipeVars
  <2> QED BY <1>4, <2>1, <2>2 DEF SenderLocks, SenderAt, SenderFails, SetState, Lock, postVars,
             queueVars, pipeVars
<1>5. ASSUME NEW e \in Ends, SenderWrites(e) PROVE ThreadsOK'
  <2>1. m_SendQueue[e] # <<>> /\ nWritten[e] \in Nat /\ nWritten[e] < Head(m_SendQueue[e]).len
        /\ Head(m_SendQueue[e]).len \in Nat
    BY <1>5, HeadOfQueue DEF SenderWrites, TypeOK, Unlock, connVars, postVars, queueVars,
       pipeVars
  <2>2. CASE nWritten[e] + 1 = Head(m_SendQueue[e]).len
    BY SMTT(30), <1>5, <2>1, <2>2 DEF SenderWrites, TypeOK, Unlock, connVars, postVars, queueVars,
       pipeVars
  <2>3. CASE nWritten[e] + 1 # Head(m_SendQueue[e]).len
    <3>1. nWritten[e] + 1 < Head(m_SendQueue[e]).len
      BY <2>1, <2>3
    <3> QED BY <1>5, <2>3, <3>1 DEF SenderWrites, TypeOK, Unlock, connVars, postVars,
               queueVars, pipeVars
  <2> QED BY <2>2, <2>3
<1>6. ASSUME NEW e \in Ends, SenderWriteFails(e) PROVE ThreadsOK'
  BY <1>6, <1>e DEF SenderWriteFails, TypeOK, SenderAt, SenderFails, SetState, Unlock,
     postVars, queueVars, pipeVars
<1>7. ASSUME NEW e \in Ends, SenderPops(e) PROVE ThreadsOK'
  BY <1>7, <1>e DEF SenderPops, TypeOK, SenderAt, connVars, postVars, pipeVars
<1>8. ASSUME NEW e \in Ends, ReceiverStops(e) PROVE ThreadsOK'
  BY <1>8, <1>e DEF ReceiverStops, TypeOK, ReceiverAt, connVars, postVars, queueVars, pipeVars
<1>9. ASSUME NEW e \in Ends, ReceiverChecks(e) PROVE ThreadsOK'
  BY ZenonT(60), <1>9, <1>e DEF ReceiverChecks, TypeOK, ReceiverAt, ReceiverFails, SetState, postVars,
     queueVars, pipeVars
<1>10. ASSUME NEW e \in Ends, ReceiverLocks(e) PROVE ThreadsOK'
  BY ZenonT(60), <1>10, <1>e DEF ReceiverLocks, TypeOK, ReceiverAt, ReceiverFails, SetState, Lock,
     postVars, queueVars, pipeVars
<1>11. ASSUME NEW e \in Ends, ReceiverReads(e) PROVE ThreadsOK'
  <2>1. /\ receiver[e] = "read" /\ m_pSemIPCMutex[e] = "receiver"
        /\ UNCHANGED <<manager, sender, m_SendQueue, nWritten, answering>>
    BY <1>11 DEF ReceiverReads, ReceiverAt, SetState, Unlock, postVars, queueVars, pipeVars
  <2>2. \/ UNCHANGED <<receiver, m_pSemIPCMutex>>
        \/ /\ \/ receiver' = [receiver EXCEPT ![e] = "process"]
              \/ receiver' = [receiver EXCEPT ![e] = "desynchronized"]
           /\ m_pSemIPCMutex' = [m_pSemIPCMutex EXCEPT ![e] = "free"]
    BY <1>11 DEF ReceiverReads, ReceiverAt, SetState, Unlock, postVars, queueVars, pipeVars
  <2>3. CASE UNCHANGED <<receiver, m_pSemIPCMutex>>
    BY <2>1, <2>3
  <2>4. ASSUME NEW place \in {"process", "desynchronized"},
               receiver' = [receiver EXCEPT ![e] = place],
               m_pSemIPCMutex' = [m_pSemIPCMutex EXCEPT ![e] = "free"]
        PROVE  ThreadsOK'
    <3>1. /\ receiver'[e] = place /\ m_pSemIPCMutex'[e] = "free"
          /\ \A f \in Ends : f # e =>
               receiver'[f] = receiver[f] /\ m_pSemIPCMutex'[f] = m_pSemIPCMutex[f]
      BY <2>4 DEF TypeOK
    <3>2. receiver'["gogoc"] = "answer" <=> receiver["gogoc"] = "answer"
      BY <1>e, <2>1, <2>4, <3>1
    <3> QED BY <2>1, <3>1, <3>2
  <2> QED BY <2>2, <2>3, <2>4
<1>12. ASSUME NEW e \in Ends, ReceiverReadFails(e) PROVE ThreadsOK'
  BY <1>12, <1>e DEF ReceiverReadFails, TypeOK, ReceiverAt, ReceiverFails, SetState, Unlock,
     postVars, queueVars, pipeVars
<1>13. ASSUME NEW e \in Ends, ReceiverProcesses(e) PROVE ThreadsOK'
  BY ZenonT(60), <1>13, <1>e DEF ReceiverProcesses, TypeOK, ReceiverAt, connVars, queueVars, pipeVars
<1>14. ASSUME NEW e \in Ends, ManagerLoops(e) PROVE ThreadsOK'
  BY <1>14, <1>e DEF ManagerLoops, TypeOK, ManagerAt, postVars, queueVars, pipeVars
<1>15. ASSUME NEW e \in Ends, StopSender(e) PROVE ThreadsOK'
  BY ZenonT(60), <1>15, <1>e DEF StopSender, TypeOK, ManagerAt, Abandon, postVars, queueVars, pipeVars
<1>16. ASSUME NEW e \in Ends, StopReceiver(e) PROVE ThreadsOK'
  <2>1. /\ manager[e] = "stopReceiver" /\ manager' = [manager EXCEPT ![e] = "uninitialize"]
        /\ receiver' = [receiver EXCEPT ![e] = "none"] /\ sender[e] = "none"
        /\ UNCHANGED <<sender, m_SendQueue, nWritten, answering>>
    BY <1>16 DEF StopReceiver, ManagerAt, Abandon, postVars, queueVars, pipeVars
  <2>2. \/ m_pSemIPCMutex' = m_pSemIPCMutex /\ receiver[e] \notin {"read", "answer"}
        \/ /\ receiver[e] # "answer"
           /\ m_pSemIPCMutex' = [m_pSemIPCMutex EXCEPT ![e] =
                                    IF @ = "receiver" THEN "abandoned" ELSE @]
    BY <1>16 DEF StopReceiver, ReceiverOverdue, ReceiverStuck, ManagerAt, Abandon, postVars,
       queueVars, pipeVars
  <2> QED BY ZenonT(60), <1>e, <2>1, <2>2 DEF TypeOK
<1>17. ASSUME NEW e \in Ends, ManagerCleansUp(e) PROVE ThreadsOK'
  <2>1. /\ manager[e] = "uninitialize" /\ sender[e] = "none" /\ receiver[e] = "none"
        /\ UNCHANGED <<sender, receiver, nWritten, answering>>
    BY <1>17 DEF ManagerCleansUp, ManagerAt, SetState, Reset, UnInitialize, CloseServer,
       CloseClient, postVars
  <2>2. /\ \A f \in Ends : f # e => /\ manager'[f] = manager[f]
                                  /\ m_pSemIPCMutex'[f] = m_pSemIPCMutex[f]
                                  /\ m_SendQueue'[f] = m_SendQueue[f]
        /\ m_pSemIPCMutex'[e] \notin {"sender", "receiver"}
    BY <1>17, <2>1 DEF ManagerCleansUp, TypeOK, ManagerAt, SetState, Reset, UnInitialize,
       CloseServer, CloseClient, postVars
  <2> QED BY <2>1, <2>2
<1>18. ASSUME NEW e \in Ends, ManagerConnected(e) PROVE ThreadsOK'
  BY <1>18, <1>e DEF ManagerConnected, TypeOK, ManagerAt, SetState, threadVars, postVars,
     queueVars, pipeVars
<1>19. ASSUME NEW e \in Ends, ConnectFails(e) PROVE ThreadsOK'
  BY <1>19, <1>e DEF ConnectFails, TypeOK, ManagerAt, SetState, InitializeFails, postVars,
     queueVars, pipeVars
<1>20. ASSUME NEW e \in Ends, UserPushes(e) PROVE ThreadsOK'
  <2>1. \A f \in Ends : m_SendQueue[f] # <<>> =>
          m_SendQueue'[f] # <<>> /\ Head(m_SendQueue'[f]) = Head(m_SendQueue[f])
    <3>1. pushed[e] + 1 \in Nat
      BY SMTT(30), <1>e DEF TypeOK
    <3> QED BY <1>20, <1>e, <3>1, Pushed DEF UserPushes, Push, connVars, threadVars, postVars,
               pipeVars
  <2> QED BY <1>20, <1>e, <2>1 DEF UserPushes, TypeOK, Push, connVars, threadVars, postVars,
             pipeVars
<1>21. ASSUME NEW e \in Ends, UserReleases(e) PROVE ThreadsOK'
  BY <1>21, <1>e DEF UserReleases, TypeOK, Release, connVars, threadVars, postVars, pipeVars
<1>22. ASSUME NEW e \in Ends, UserPosts(e) PROVE ThreadsOK'
  BY <1>22, <1>e DEF UserPosts, TypeOK, connVars, threadVars, postVars, queueVars, pipeVars
<1>23. ASSUME NEW e \in Ends, Create(e) PROVE ThreadsOK'
  BY <1>23, <1>e DEF Create, TypeOK, threadVars, postVars, queueVars, pipeVars
<1>24. ASSUME NEW e \in Ends, Destroy(e) PROVE ThreadsOK'
  BY <1>24, <1>e DEF Destroy, TypeOK, postVars, queueVars, pipeVars
<1>25. ASSUME NEW e \in Ends, Die(e) PROVE ThreadsOK'
  BY <1>25, <1>e DEF Die, TypeOK, SetState, Reset, UnInitialize, CloseServer, CloseClient
<1>26. ASSUME AnswerPushes PROVE ThreadsOK'
  <2>1. \A f \in Ends : m_SendQueue[f] # <<>> =>
          m_SendQueue'[f] # <<>> /\ Head(m_SendQueue'[f]) = Head(m_SendQueue[f])
    <3>1. pushed["gogoc"] + 1 \in Nat
      BY <1>e DEF TypeOK
    <3> QED BY <1>26, <1>e, <3>1, Pushed DEF AnswerPushes, Push, connVars, threadVars,
               postVars, pipeVars
  <2> QED BY <1>26, <1>e, <2>1 DEF AnswerPushes, TypeOK, Push, connVars, threadVars, postVars,
             pipeVars
<1>27. ASSUME AnswerReleases PROVE ThreadsOK'
  BY <1>27, <1>e DEF AnswerReleases, TypeOK, Release, connVars, pipeVars
<1>28. ASSUME ServerCreates PROVE ThreadsOK'
  BY <1>28, <1>e DEF ServerCreates, TypeOK, ManagerAt, threadVars, postVars, queueVars,
     pipeVars
<1>29. ASSUME ServerAccepts PROVE ThreadsOK'
  BY SMTT(30), <1>29, <1>e DEF ServerAccepts, TypeOK, ManagerAt, SetState, InitializeSucceeds,
     InitializeFails, postVars, queueVars, pipeVars
<1>30. ASSUME ClientConnects PROVE ThreadsOK'
  BY <1>30, <1>e DEF ClientConnects, TypeOK, ManagerAt, InitializeSucceeds, postVars,
     queueVars, pipeVars
<1>31. ASSUME RacingPush PROVE ThreadsOK'
  <2>1. \A f \in Ends : m_SendQueue[f] # <<>> =>
          m_SendQueue'[f] # <<>> /\ Head(m_SendQueue'[f]) = Head(m_SendQueue[f])
    <3>1. pushed["gogoc"] + 2 \in Nat
      BY <1>e DEF TypeOK
    <3> QED BY <1>31, <1>e, <3>1, Pushed DEF RacingPush, connVars, threadVars, postVars,
               pipeVars
  <2> QED BY <1>31, <1>e, <2>1 DEF RacingPush, TypeOK, connVars, threadVars, postVars, pipeVars
<1> HIDE DEF IInv, ThreadsOK
<1> QED BY <1>e, <1>1, <1>2, <1>3, <1>4, <1>5, <1>6, <1>7, <1>8, <1>9, <1>10, <1>11, <1>12,
           <1>13, <1>14, <1>15, <1>16, <1>17, <1>18, <1>19, <1>20, <1>21, <1>22, <1>23, <1>24,
           <1>25, <1>26, <1>27, <1>28, <1>29, <1>30, <1>31 DEF Next, SenderStep, ReceiverStep,
           ManagerStep, UserStep

\* A sender commits itself when its own pipe is empty, and then has the other one's
\* stream to read; what is in its pipe from then on the other one has written since.
LEMMA OneAloneStep == IInv /\ Next => OneAlone'
<1> SUFFICES ASSUME IInv, Next PROVE OneAlone'
  OBVIOUS
<1>e. "gogoc" \in Ends /\ "gui" \in Ends /\ Peer("gogoc") = "gui" /\ Peer("gui") = "gogoc"
  BY Peers DEF Ends
<1>t. /\ sender \in [Ends -> SenderPlaces] /\ nWritten \in [Ends -> Nat]
      /\ m_pSemIPCMutex \in [Ends -> {"free", "sender", "receiver", "abandoned"}]
      /\ pipe \in [Ends -> Seq(Packets)]
      /\ \A e \in Ends : Len(pipe[e]) \in Nat /\ nWritten[e] \in Nat
      /\ \A e \in Ends : sender[e] = "write" <=> m_pSemIPCMutex[e] = "sender"
  BY DEF IInv, TypeOK, ThreadsOK
<1>1. CASE UNCHANGED <<sender, m_pSemIPCMutex, pipe, nWritten>>
  BY <1>1 DEF IInv, OneAlone, Committed, OnlyItsOwn
<1>2. ASSUME NEW e \in Ends, SenderStops(e) PROVE OneAlone'
  BY <1>e, <1>t, <1>2 DEF SenderStops, IInv, OneAlone, Committed, OnlyItsOwn, Ends, SenderAt,
     connVars, postVars, queueVars, pipeVars
<1>3. ASSUME NEW e \in Ends, SenderTakes(e) PROVE OneAlone'
  BY <1>e, <1>t, <1>3 DEF SenderTakes, IInv, OneAlone, Committed, OnlyItsOwn, Ends, SenderAt,
     connVars, postVars, pipeVars
<1>4. ASSUME NEW e \in Ends, SenderChecks(e) PROVE OneAlone'
  <2>1. UNCHANGED <<m_pSemIPCMutex, pipe, nWritten>>
    BY <1>4 DEF SenderChecks, SenderAt, SenderFails, SetState, Release, postVars, pipeVars
  <2>2. sender[e] = "check" /\ \E p \in {"exited", "wait", "lock"} : sender' = [sender EXCEPT ![e] = p]
    BY <1>4 DEF SenderChecks, SenderAt, SenderFails, SetState, Release, postVars, pipeVars
  <2>3. \/ sender' = [sender EXCEPT ![e] = "lock"] /\ (m_pSemIPCMutex[e] = "abandoned" \/ pipe[e] = <<>>)
        \/ \E p \in {"exited", "wait"} : sender' = [sender EXCEPT ![e] = p]
    BY <1>4, <1>t DEF SenderChecks, WaitAndLockFails, SenderStuck, ReceiverStuck, CanRead,
       SenderAt, SenderFails, SetState, Release, postVars, pipeVars
  <2>4. CASE pipe[e] = <<>>
    <3>1. Len(pipe'[e]) = 0 /\ \A f \in Ends : nWritten'[f] \in Nat
      BY <1>t, <2>1, <2>4
    <3> QED BY <1>e, <3>1 DEF OneAlone, OnlyItsOwn, Ends
  <2>5. CASE ~Committed(e)'
    BY <1>e, <2>5 DEF OneAlone, Ends
  <2> QED BY <1>t, <2>1, <2>3, <2>4, <2>5 DEF Committed
<1>5. ASSUME NEW e \in Ends, SenderLocks(e) PROVE OneAlone'
  BY <1>e, <1>t, <1>5 DEF SenderLocks, IInv, OneAlone, Committed, OnlyItsOwn, Ends, SenderAt,
     SenderFails, SetState, Lock, postVars, queueVars, pipeVars
<1>6. ASSUME NEW e \in Ends, SenderWrites(e) PROVE OneAlone'
  BY <1>e, <1>t, <1>6 DEF SenderWrites, IInv, OneAlone, Committed, OnlyItsOwn, Ends, Unlock,
     connVars, postVars, queueVars, pipeVars
<1>7. ASSUME NEW e \in Ends, SenderWriteFails(e) PROVE OneAlone'
  BY <1>e, <1>t, <1>7 DEF SenderWriteFails, IInv, OneAlone, Committed, OnlyItsOwn, Ends,
     SenderAt, SenderFails, SetState, Unlock, postVars, queueVars, pipeVars
<1>8. ASSUME NEW e \in Ends, SenderPops(e) PROVE OneAlone'
  BY <1>e, <1>t, <1>8 DEF SenderPops, IInv, OneAlone, Committed, OnlyItsOwn, Ends, SenderAt,
     connVars, postVars, pipeVars
<1>9. ASSUME NEW e \in Ends, ReceiverStops(e) PROVE OneAlone'
  BY <1>1, <1>9 DEF ReceiverStops, ReceiverAt, connVars, postVars, queueVars, pipeVars
<1>10. ASSUME NEW e \in Ends, ReceiverChecks(e) PROVE OneAlone'
  BY <1>1, <1>10 DEF ReceiverChecks, ReceiverAt, ReceiverFails, SetState, postVars, queueVars,
     pipeVars
<1>11. ASSUME NEW e \in Ends, ReceiverLocks(e) PROVE OneAlone'
  BY <1>e, <1>t, <1>11 DEF ReceiverLocks, IInv, OneAlone, Committed, OnlyItsOwn, Ends,
     ReceiverAt, ReceiverFails, SetState, Lock, postVars, queueVars, pipeVars
<1>12. ASSUME NEW e \in Ends, ReceiverReads(e) PROVE OneAlone'
  <2>1. /\ UNCHANGED <<sender, nWritten>> /\ receiver[e] = "read"
        /\ pipe[e] # <<>> /\ pipe' = [pipe EXCEPT ![e] = Tail(@)]
        /\ \/ UNCHANGED m_pSemIPCMutex
           \/ m_pSemIPCMutex' = [m_pSemIPCMutex EXCEPT ![e] = "free"]
    BY <1>12 DEF ReceiverReads, CanRead, ReceiverAt, SetState, Unlock, postVars, queueVars,
       pipeVars
  <2>2. \A f \in Ends : Len(pipe'[f]) \in Nat /\ Len(pipe'[f]) <= Len(pipe[f])
    BY <1>t, <2>1, Read DEF IInv
  <2>3. m_pSemIPCMutex[e] # "abandoned"
    BY <2>1 DEF IInv, ThreadsOK
  <2>4. \A f \in Ends : Committed(f)' => Committed(f)
    BY <1>t, <2>1, <2>3 DEF Committed
  <2> QED BY <1>e, <1>t, <2>1, <2>2, <2>4 DEF IInv, OneAlone, OnlyItsOwn
<1>13. ASSUME NEW e \in Ends, ReceiverReadFails(e) PROVE OneAlone'
  <2>1. /\ UNCHANGED <<sender, nWritten, pipe>> /\ m_pSemIPCMutex[e] = "receiver"
        /\ m_pSemIPCMutex' = [m_pSemIPCMutex EXCEPT ![e] = "free"]
    BY <1>13 DEF ReceiverReadFails, IInv, ThreadsOK, ReceiverAt, ReceiverFails, SetState,
       Unlock, postVars, queueVars, pipeVars
  <2> QED BY <1>e, <1>t, <2>1 DEF IInv, OneAlone, Committed, OnlyItsOwn
<1>14. ASSUME NEW e \in Ends, ReceiverProcesses(e) PROVE OneAlone'
  BY <1>1, <1>14 DEF ReceiverProcesses, ReceiverAt, connVars, queueVars, pipeVars
<1>15. ASSUME NEW e \in Ends, ManagerLoops(e) PROVE OneAlone'
  BY <1>1, <1>15 DEF ManagerLoops, ManagerAt, postVars, queueVars, pipeVars
<1>16. ASSUME NEW e \in Ends, StopSender(e) PROVE OneAlone'
  BY <1>e, <1>t, <1>16 DEF StopSender, IInv, OneAlone, Committed, OnlyItsOwn, Ends, ManagerAt,
     Abandon, postVars, queueVars, pipeVars
<1>17. ASSUME NEW e \in Ends, StopReceiver(e) PROVE OneAlone'
  BY <1>e, <1>t, <1>17 DEF StopReceiver, IInv, OneAlone, Committed, OnlyItsOwn, Ends,
     ManagerAt, Abandon, postVars, queueVars, pipeVars
<1>18. ASSUME NEW e \in Ends, ManagerCleansUp(e) PROVE OneAlone'
  <2>1. ~Committed(e)'
    BY <1>18 DEF ManagerCleansUp, IInv, ThreadsOK, Committed, ManagerAt, SetState, Reset,
       postVars
  <2> QED BY <1>e, <2>1 DEF OneAlone, Ends
<1>19. ASSUME NEW e \in Ends, ManagerConnected(e) PROVE OneAlone'
  BY <1>1, <1>19 DEF ManagerConnected, ManagerAt, SetState, threadVars, postVars, queueVars,
     pipeVars
<1>20. ASSUME NEW e \in Ends, ConnectFails(e) PROVE OneAlone'
  BY <1>1, <1>20 DEF ConnectFails, ManagerAt, SetState, InitializeFails, postVars, queueVars,
     pipeVars
<1>21. ASSUME NEW e \in Ends, UserPushes(e) PROVE OneAlone'
  BY <1>1, <1>21 DEF UserPushes, Push, connVars, threadVars, postVars, pipeVars
<1>22. ASSUME NEW e \in Ends, UserReleases(e) PROVE OneAlone'
  BY <1>1, <1>22 DEF UserReleases, Release, connVars, threadVars, postVars, pipeVars
<1>23. ASSUME NEW e \in Ends, UserPosts(e) PROVE OneAlone'
  BY <1>1, <1>23 DEF UserPosts, connVars, threadVars, postVars, queueVars, pipeVars
<1>24. ASSUME NEW e \in Ends, Create(e) PROVE OneAlone'
  BY <1>1, <1>24 DEF Create, threadVars, postVars, queueVars, pipeVars
<1>25. ASSUME NEW e \in Ends, Destroy(e) PROVE OneAlone'
  BY <1>1, <1>25 DEF Destroy, postVars, queueVars, pipeVars
<1>26. ASSUME NEW e \in Ends, Die(e) PROVE OneAlone'
  BY <1>e, <1>t, <1>26 DEF Die, IInv, OneAlone, Committed, OnlyItsOwn, Ends, SetState, Reset
<1>27. ASSUME AnswerPushes PROVE OneAlone'
  BY <1>1, <1>27 DEF AnswerPushes, Push, connVars, threadVars, postVars, pipeVars
<1>28. ASSUME AnswerReleases PROVE OneAlone'
  BY <1>1, <1>28 DEF AnswerReleases, Release, connVars, pipeVars
<1>29. ASSUME ServerCreates PROVE OneAlone'
  BY <1>1, <1>29 DEF ServerCreates, ManagerAt, threadVars, postVars, queueVars, pipeVars
<1>30. ASSUME ServerAccepts PROVE OneAlone'
  BY <1>e, <1>t, <1>30 DEF ServerAccepts, IInv, OneAlone, Committed, OnlyItsOwn, Ends,
     ManagerAt, SetState, InitializeSucceeds, InitializeFails, postVars, queueVars, pipeVars
<1>31. ASSUME ClientConnects PROVE OneAlone'
  BY <1>e, <1>t, <1>31 DEF ClientConnects, IInv, OneAlone, Committed, OnlyItsOwn, Ends,
     ManagerAt, InitializeSucceeds, postVars, queueVars, pipeVars
<1>32. ASSUME RacingPush PROVE OneAlone'
  BY <1>1, <1>32 DEF RacingPush, connVars, threadVars, postVars, pipeVars
<1> QED BY <1>e, <1>2, <1>3, <1>4, <1>5, <1>6, <1>7, <1>8, <1>9, <1>10, <1>11, <1>12, <1>13,
           <1>14, <1>15, <1>16, <1>17, <1>18, <1>19, <1>20, <1>21, <1>22, <1>23, <1>24, <1>25,
           <1>26, <1>27, <1>28, <1>29, <1>30, <1>31, <1>32 DEF Next, SenderStep, ReceiverStep,
           ManagerStep, UserStep

-----------------------------------------------------------------------------
\* A packet is written after what the pipe holds; after the last of its message the
\* sender goes on to pop.
LEMMA PacketWritten ==
  ASSUME IInv, NEW e \in Ends, NEW f \in Ends, f = Peer(e), SenderWrites(e)
  PROVE  /\ sender[e] = "write" /\ Linked
         /\ Len(pipe[f]) \in Nat /\ Len(pipe'[f]) = Len(pipe[f]) + 1 /\ pipe'[f] # <<>>
         /\ \A i \in 1..Len(pipe[f]) : pipe'[f][i] = pipe[f][i]
         /\ pipe'[f][Len(pipe'[f])].seq = nSeqNum[e]
         /\ pipe'[f][Len(pipe'[f])].fragseq = nWritten[e]
         /\ pipe'[f][Len(pipe'[f])].num = Head(m_SendQueue[e]).num
         /\ pipe'[e] = pipe[e]
         /\ \A g \in Ends : g # e =>
              sender'[g] = sender[g] /\ nWritten'[g] = nWritten[g] /\ nSeqNum'[g] = nSeqNum[g]
         /\ nWritten[e] \in Nat /\ nWritten'[e] = nWritten[e] + 1
         /\ IF EndsMessage(pipe'[f][Len(pipe'[f])])
            THEN sender'[e] = "pop" ELSE sender'[e] = "write" /\ nSeqNum'[e] = nSeqNum[e]
         /\ UNCHANGED <<receiver, got, instance, handle, manager>>
<1> DEFINE p == MakePacket(e, nWritten[e])
<1>1. m_SendQueue[e] # <<>> /\ nWritten[e] \in Nat /\ nWritten[e] < Head(m_SendQueue[e]).len
  BY DEF IInv, TypeOK, ThreadsOK, SenderWrites
<1>2. /\ p \in Packets /\ p.seq = nSeqNum[e] /\ p.fragseq = nWritten[e]
      /\ p.num = Head(m_SendQueue[e]).num
      /\ EndsMessage(p) <=> nWritten[e] + 1 = Head(m_SendQueue[e]).len
  BY <1>1, PacketMade DEF IInv
<1>3. /\ sender[e] = "write" /\ Linked
      /\ pipe' = [pipe EXCEPT ![Peer(e)] = Append(@, p)]
      /\ nWritten' = [nWritten EXCEPT ![e] = @ + 1]
      /\ IF nWritten[e] + 1 = Head(m_SendQueue[e]).len
         THEN /\ sender' = [sender EXCEPT ![e] = "pop"]
              /\ nSeqNum' = [nSeqNum EXCEPT ![e] = (@ + 1) % SeqNums]
         ELSE UNCHANGED <<sender, nSeqNum>>
      /\ UNCHANGED <<receiver, got, instance, handle, manager>>
  BY DEF SenderWrites, threadVars, connVars
<1> HIDE DEF p
<1>4. /\ Len(pipe[f]) \in Nat /\ Len(pipe'[f]) = Len(pipe[f]) + 1
      /\ \A i \in 1..Len(pipe[f]) : pipe'[f][i] = pipe[f][i]
      /\ pipe'[f][Len(pipe[f]) + 1] = p /\ pipe'[e] = pipe[e]
      /\ pipe' \in [Ends -> Seq(Packets)]
  BY <1>2, <1>3, Written DEF IInv
<1>5. pipe'[f] # <<>>
  BY <1>4
<1>6. sender \in [Ends -> SenderPlaces] /\ nWritten \in [Ends -> Nat] /\ nSeqNum \in [Ends -> Nat]
  BY DEF IInv, TypeOK
<1>7. /\ \A g \in Ends : g # e =>
           sender'[g] = sender[g] /\ nWritten'[g] = nWritten[g] /\ nSeqNum'[g] = nSeqNum[g]
      /\ nWritten'[e] = nWritten[e] + 1
      /\ IF EndsMessage(p)
         THEN sender'[e] = "pop" ELSE sender'[e] = "write" /\ nSeqNum'[e] = nSeqNum[e]
  BY <1>2, <1>3, <1>6
<1> QED BY <1>1, <1>2, <1>3, <1>4, <1>5, <1>7

\* The packet that is read is in sequence; after the last of its message the receiver
\* goes on to process.
LEMMA PacketRead ==
  ASSUME IInv, NEW e \in Ends, ReceiverReads(e)
  PROVE  /\ receiver[e] = "read" /\ pipe[e] # <<>>
         /\ Len(pipe[e]) \in Nat /\ Len(pipe[e]) > 0 /\ Len(pipe'[e]) = Len(pipe[e]) - 1
         /\ pipe'[e] = <<>> <=> Len(pipe[e]) = 1
         /\ \A i \in 1..(Len(pipe[e]) - 1) : pipe'[e][i] = pipe[e][i + 1]
         /\ got'[e] # <<>> /\ got'[e][Len(got'[e])] = pipe[e][1]
         /\ \A g \in Ends : g # e =>
              pipe'[g] = pipe[g] /\ got'[g] = got[g] /\ receiver'[g] = receiver[g]
         /\ receiver'[e] = IF EndsMessage(pipe[e][1]) THEN "process" ELSE "read"
         /\ UNCHANGED <<sender, nWritten, nSeqNum, instance, handle, manager>>
<1>1. /\ receiver[e] = "read" /\ pipe[e] # <<>> /\ pipe' = [pipe EXCEPT ![e] = Tail(@)]
      /\ UNCHANGED <<sender, nWritten, nSeqNum, instance, handle, manager>>
  BY DEF ReceiverReads, CanRead
<1>2. /\ Len(pipe[e]) \in Nat /\ Len(pipe[e]) > 0 /\ Len(pipe'[e]) = Len(pipe[e]) - 1
      /\ \A i \in 1..(Len(pipe[e]) - 1) : pipe'[e][i] = pipe[e][i + 1]
      /\ \A g \in Ends : g # e => pipe'[g] = pipe[g]
      /\ Head(pipe[e]) = pipe[e][1] /\ Head(pipe[e]) \in Packets
      /\ pipe' \in [Ends -> Seq(Packets)]
  BY <1>1, Read DEF IInv
<1>3. pipe'[e] = <<>> <=> Len(pipe[e]) = 1
  <2>1. pipe'[e] \in Seq(Packets)
    BY <1>2
  <2>2. \A q \in Seq(Packets) : q = <<>> <=> Len(q) = 0
    OBVIOUS
  <2>3. pipe'[e] = <<>> <=> Len(pipe'[e]) = 0
    BY <2>1, <2>2
  <2> QED BY <1>2, <2>3
<1>4. InSequence(e, Head(pipe[e]))
  BY <1>1, <1>2 DEF InSequence, IInv, Framing, AllInOrder, InOrder, Follows, Last
<1>5. /\ got' = [got EXCEPT ![e] = Append(@, Head(pipe[e]))]
      /\ IF EndsMessage(Head(pipe[e])) THEN receiver' = [receiver EXCEPT ![e] = "process"]
         ELSE UNCHANGED receiver
  BY <1>4 DEF ReceiverReads, ReceiverAt
<1>6. receiver \in [Ends -> ReceiverPlaces] /\ got \in [Ends -> Seq(Packets)]
  BY DEF IInv, TypeOK
<1>7. /\ Append(got[e], Head(pipe[e])) # <<>>
      /\ Append(got[e], Head(pipe[e]))[Len(Append(got[e], Head(pipe[e])))] = Head(pipe[e])
  <2>1. \A q \in Seq(Packets), p \in Packets :
          Append(q, p) # <<>> /\ Append(q, p)[Len(Append(q, p))] = p
    OBVIOUS
  <2> QED BY <1>2, <1>6, <2>1
<1>8. got'[e] = Append(got[e], Head(pipe[e])) /\ \A g \in Ends : g # e => got'[g] = got[g]
  BY <1>5, <1>6
<1>9. /\ receiver'[e] = IF EndsMessage(Head(pipe[e])) THEN "process" ELSE "read"
      /\ \A g \in Ends : g # e => receiver'[g] = receiver[g]
  BY <1>1, <1>5, <1>6
<1> QED BY <1>1, <1>2, <1>3, <1>7, <1>8, <1>9

\* Packets are written in sequence and read in sequence.
LEMMA InOrderStep == IInv /\ Next => AllInOrder'
<1> SUFFICES ASSUME IInv, Next PROVE AllInOrder'
  OBVIOUS
<1>e. "gogoc" \in Ends /\ "gui" \in Ends /\ Peer("gogoc") = "gui" /\ Peer("gui") = "gogoc"
  BY Peers DEF Ends
<1>t. /\ sender \in [Ends -> SenderPlaces] /\ receiver \in [Ends -> ReceiverPlaces]
      /\ nWritten \in [Ends -> Nat] /\ nSeqNum \in [Ends -> Nat] /\ manager \in [Ends -> ManagerPlaces]
      /\ pipe \in [Ends -> Seq(Packets)] /\ got \in [Ends -> Seq(Packets)]
  BY DEF IInv, TypeOK
<1>1. CASE UNCHANGED <<pipe, receiver, got>>
  BY <1>1 DEF IInv, Framing, AllInOrder, InOrder
<1>2. ASSUME NEW e \in Ends, SenderStops(e) PROVE AllInOrder'
  BY <1>1, <1>2 DEF SenderStops, SenderAt, connVars, postVars, queueVars, pipeVars
<1>3. ASSUME NEW e \in Ends, SenderTakes(e) PROVE AllInOrder'
  BY <1>1, <1>3 DEF SenderTakes, SenderAt, connVars, postVars, pipeVars
<1>4. ASSUME NEW e \in Ends, SenderChecks(e) PROVE AllInOrder'
  BY <1>1, <1>4 DEF SenderChecks, SenderAt, SenderFails, SetState, Release, postVars, pipeVars
<1>5. ASSUME NEW e \in Ends, SenderLocks(e) PROVE AllInOrder'
  BY <1>1, <1>5 DEF SenderLocks, SenderAt, SenderFails, SetState, Lock, postVars, queueVars,
     pipeVars
<1>6. ASSUME NEW e \in Ends, SenderWrites(e) PROVE AllInOrder'
  <2>1. PICK f \in Ends : f = Peer(e) /\ f # e
    BY Peers
  <2>2. InOrder(e)'
    BY <1>6, <2>1, PacketWritten DEF IInv, Framing, AllInOrder, InOrder
  <2>3. TailOK(f, e)
    BY <2>1 DEF IInv, Framing, TailsOK
  <2>4. pipe[f] # <<>> => Follows(pipe[f][Len(pipe[f])], pipe'[f][Len(pipe'[f])])
    BY <1>6, <2>1, <2>3, PacketWritten DEF TailOK, Within, Between, WrittenLast, Follows
  <2>5. pipe[f] = <<>> /\ receiver[f] = "read" /\ got[f] # <<>> =>
          Follows(got[f][Len(got[f])], pipe'[f][Len(pipe'[f])])
    BY <1>6, <2>1, <2>3, PacketWritten DEF TailOK, Within, Between, WrittenLast, Follows
  <2>6. pipe[f] = <<>> <=> Len(pipe[f]) = 0
    BY <1>t
  <2>7. InOrder(f)
    BY DEF IInv, Framing, AllInOrder
  <2>8. InOrder(f)'
    <3>1. \A i \in 1..(Len(pipe'[f]) - 1) : Follows(pipe'[f][i], pipe'[f][i + 1])
      <4>1. /\ Len(pipe[f]) \in Nat /\ Len(pipe'[f]) = Len(pipe[f]) + 1
            /\ \A i \in 1..Len(pipe[f]) : pipe'[f][i] = pipe[f][i]
        BY <1>6, <2>1, PacketWritten
      <4>2. \A i \in 1..(Len(pipe[f]) - 1) : Follows(pipe[f][i], pipe[f][i + 1])
        BY <2>7 DEF InOrder
      <4> QED BY <2>4, <2>6, <4>1, <4>2
    <3>2. /\ UNCHANGED <<receiver, got>> /\ pipe'[f] # <<>>
          /\ Len(pipe[f]) \in Nat /\ Len(pipe'[f]) = Len(pipe[f]) + 1
          /\ \A i \in 1..Len(pipe[f]) : pipe'[f][i] = pipe[f][i]
      BY <1>6, <2>1, PacketWritten
    <3>3. receiver[f] = "read" /\ got[f] # <<>> =>
            /\ ~EndsMessage(got[f][Len(got[f])])
            /\ Follows(got[f][Len(got[f])], pipe'[f][1])
      BY <2>5, <2>6, <2>7, <3>2 DEF InOrder
    <3> QED BY <3>1, <3>2, <3>3 DEF InOrder
  <2>9. \A g \in Ends : g = e \/ g = f
    BY <2>1 DEF Ends
  <2>10. \A g \in Ends : receiver'[g] # "desynchronized"
    BY <1>6, <2>1, PacketWritten DEF IInv, Framing, AllInOrder
  <2> QED BY <2>2, <2>8, <2>9, <2>10 DEF AllInOrder
<1>7. ASSUME NEW e \in Ends, SenderWriteFails(e) PROVE AllInOrder'
  BY <1>1, <1>7 DEF SenderWriteFails, SenderAt, SenderFails, SetState, Unlock, postVars,
     queueVars, pipeVars
<1>8. ASSUME NEW e \in Ends, SenderPops(e) PROVE AllInOrder'
  BY <1>1, <1>8 DEF SenderPops, SenderAt, connVars, postVars, pipeVars
<1>9. ASSUME NEW e \in Ends, ReceiverStops(e) PROVE AllInOrder'
  BY <1>e, <1>t, <1>9 DEF ReceiverStops, IInv, ThreadsOK, Framing, AllInOrder, InOrder,
     ReceiverAt, connVars, postVars, queueVars, pipeVars
<1>10. ASSUME NEW e \in Ends, ReceiverChecks(e) PROVE AllInOrder'
  BY <1>e, <1>t, <1>10 DEF ReceiverChecks, IInv, ThreadsOK, Framing, AllInOrder, InOrder,
     ReceiverAt, ReceiverFails, SetState, postVars, queueVars, pipeVars
<1>11. ASSUME NEW e \in Ends, ReceiverLocks(e) PROVE AllInOrder'
  BY ZenonT(60), <1>e, <1>t, <1>11 DEF ReceiverLocks, IInv, ThreadsOK, Framing, AllInOrder, InOrder,
     ReceiverAt, ReceiverFails, SetState, Lock, postVars, queueVars, pipeVars
<1>12. ASSUME NEW e \in Ends, ReceiverReads(e) PROVE AllInOrder'
  <2>1. InOrder(e) /\ \A g \in Ends : receiver[g] # "desynchronized"
    BY DEF IInv, Framing, AllInOrder
  <2>2. \A i \in 1..(Len(pipe'[e]) - 1) : Follows(pipe'[e][i], pipe'[e][i + 1])
    <3> SUFFICES ASSUME NEW i \in 1..(Len(pipe'[e]) - 1)
                 PROVE  Follows(pipe'[e][i], pipe'[e][i + 1])
      OBVIOUS
    <3>1. Len(pipe[e]) \in Nat /\ Len(pipe'[e]) = Len(pipe[e]) - 1
      BY <1>12, PacketRead
    <3>2. i \in 1..(Len(pipe[e]) - 1) /\ i + 1 \in 1..(Len(pipe[e]) - 1)
      BY <3>1
    <3>3. pipe'[e][i] = pipe[e][i + 1] /\ pipe'[e][i + 1] = pipe[e][(i + 1) + 1]
      BY <1>12, <3>2, PacketRead
    <3> QED BY <2>1, <3>2, <3>3 DEF InOrder
  <2>3. receiver'[e] = "read" /\ got'[e] # <<>> =>
          /\ ~EndsMessage(got'[e][Len(got'[e])])
          /\ pipe'[e] # <<>> => Follows(got'[e][Len(got'[e])], pipe'[e][1])
    BY <1>12, <2>1, PacketRead DEF InOrder
  <2>4. InOrder(e)'
    BY <2>2, <2>3 DEF InOrder
  <2>5. \A g \in Ends : g # e => InOrder(g)'
    BY <1>12, PacketRead DEF IInv, Framing, AllInOrder, InOrder
  <2>6. \A g \in Ends : receiver'[g] # "desynchronized"
    BY <1>12, <2>1, PacketRead
  <2> QED BY <2>4, <2>5, <2>6 DEF AllInOrder
<1>13. ASSUME NEW e \in Ends, ReceiverReadFails(e) PROVE AllInOrder'
  BY <1>e, <1>t, <1>13 DEF ReceiverReadFails, IInv, ThreadsOK, Framing, AllInOrder, InOrder,
     ReceiverAt, ReceiverFails, SetState, Unlock, postVars, queueVars, pipeVars
<1>14. ASSUME NEW e \in Ends, ReceiverProcesses(e) PROVE AllInOrder'
  BY <1>e, <1>t, <1>14 DEF ReceiverProcesses, IInv, ThreadsOK, Framing, AllInOrder, InOrder,
     ReceiverAt, connVars, queueVars, pipeVars
<1>15. ASSUME NEW e \in Ends, ManagerLoops(e) PROVE AllInOrder'
  BY <1>1, <1>15 DEF ManagerLoops, ManagerAt, postVars, queueVars, pipeVars
<1>16. ASSUME NEW e \in Ends, StopSender(e) PROVE AllInOrder'
  BY <1>1, <1>16 DEF StopSender, ManagerAt, Abandon, postVars, queueVars, pipeVars
<1>17. ASSUME NEW e \in Ends, StopReceiver(e) PROVE AllInOrder'
  BY <1>e, <1>t, <1>17 DEF StopReceiver, IInv, ThreadsOK, Framing, AllInOrder, InOrder,
     ManagerAt, Abandon, postVars, queueVars, pipeVars
<1>18. ASSUME NEW e \in Ends, ManagerCleansUp(e) PROVE AllInOrder'
  <2>1. \A g \in Ends : pipe'[g] = pipe[g] \/ pipe'[g] = <<>>
    BY <1>18, Closed DEF ManagerCleansUp, IInv, Ends, ManagerAt, SetState, Reset, postVars
  <2>2. UNCHANGED <<receiver, got>>
    BY <1>18 DEF ManagerCleansUp, ManagerAt, SetState, Reset, postVars
  <2> QED BY <2>1, <2>2 DEF IInv, Framing, AllInOrder, InOrder
<1>19. ASSUME NEW e \in Ends, ManagerConnected(e) PROVE AllInOrder'
  BY <1>1, <1>19 DEF ManagerConnected, ManagerAt, SetState, threadVars, postVars, queueVars,
     pipeVars
<1>20. ASSUME NEW e \in Ends, ConnectFails(e) PROVE AllInOrder'
  BY <1>1, <1>20 DEF ConnectFails, ManagerAt, SetState, InitializeFails, postVars, queueVars,
     pipeVars
<1>21. ASSUME NEW e \in Ends, UserPushes(e) PROVE AllInOrder'
  BY <1>1, <1>21 DEF UserPushes, Push, connVars, threadVars, postVars, pipeVars
<1>22. ASSUME NEW e \in Ends, UserReleases(e) PROVE AllInOrder'
  BY <1>1, <1>22 DEF UserReleases, Release, connVars, threadVars, postVars, pipeVars
<1>23. ASSUME NEW e \in Ends, UserPosts(e) PROVE AllInOrder'
  BY <1>1, <1>23 DEF UserPosts, connVars, threadVars, postVars, queueVars, pipeVars
<1>24. ASSUME NEW e \in Ends, Create(e) PROVE AllInOrder'
  BY <1>1, <1>24 DEF Create, threadVars, postVars, queueVars, pipeVars
<1>25. ASSUME NEW e \in Ends, Destroy(e) PROVE AllInOrder'
  BY <1>1, <1>25 DEF Destroy, postVars, queueVars, pipeVars
<1>26. ASSUME NEW e \in Ends, Die(e) PROVE AllInOrder'
  <2>1. \A g \in Ends : pipe'[g] = pipe[g] \/ pipe'[g] = <<>>
    BY <1>26, Closed DEF Die, IInv, Ends, SetState, Reset
  <2>2. /\ receiver'[e] = "none"
        /\ \A g \in Ends : g # e => receiver'[g] = receiver[g] /\ got'[g] = got[g]
    BY <1>26, <1>t DEF Die, SetState, Reset
  <2> QED BY <2>1, <2>2 DEF IInv, Framing, AllInOrder, InOrder
<1>27. ASSUME AnswerPushes PROVE AllInOrder'
  BY <1>1, <1>27 DEF AnswerPushes, Push, connVars, threadVars, postVars, pipeVars
<1>28. ASSUME AnswerReleases PROVE AllInOrder'
  BY <1>e, <1>t, <1>28 DEF AnswerReleases, IInv, ThreadsOK, Framing, AllInOrder, InOrder,
     Release, connVars, pipeVars
<1>29. ASSUME ServerCreates PROVE AllInOrder'
  BY <1>1, <1>29 DEF ServerCreates, ManagerAt, threadVars, postVars, queueVars, pipeVars
<1>30. ASSUME ServerAccepts PROVE AllInOrder'
  BY <1>e, <1>t, <1>30 DEF ServerAccepts, IInv, ThreadsOK, Framing, AllInOrder, InOrder,
     ManagerAt, SetState, InitializeSucceeds, InitializeFails, postVars, queueVars, pipeVars
<1>31. ASSUME ClientConnects PROVE AllInOrder'
  BY <1>e, <1>t, <1>31 DEF ClientConnects, IInv, ThreadsOK, Framing, AllInOrder, InOrder,
     ManagerAt, InitializeSucceeds, postVars, queueVars, pipeVars
<1>32. ASSUME RacingPush PROVE AllInOrder'
  BY <1>1, <1>32 DEF RacingPush, connVars, threadVars, postVars, pipeVars
<1> QED BY <1>e, <1>2, <1>3, <1>4, <1>5, <1>6, <1>7, <1>8, <1>9, <1>10, <1>11, <1>12, <1>13,
           <1>14, <1>15, <1>16, <1>17, <1>18, <1>19, <1>20, <1>21, <1>22, <1>23, <1>24, <1>25,
           <1>26, <1>27, <1>28, <1>29, <1>30, <1>31, <1>32 DEF Next, SenderStep, ReceiverStep,
           ManagerStep, UserStep


-----------------------------------------------------------------------------
\* A step that leaves the end of a stream as it is: nothing is written or read, and the
\* receiver begins with a message of which it has nothing.
LEMMA TailKept ==
  ASSUME NEW e \in Ends, NEW f \in Ends, TailOK(e, f),
         Linked' => Linked, pipe'[e] = pipe[e],
         receiver'[e] = "read" => got'[e] = <<>> \/ (receiver[e] = "read" /\ got'[e] = got[e]),
         Within(f)' => Within(f) /\ nWritten'[f] = nWritten[f] /\ nSeqNum'[f] = nSeqNum[f],
         Between(f)' => Between(f)
  PROVE  TailOK(e, f)'
<1> SUFFICES ASSUME Linked' PROVE TailOK(e, f)'
  BY DEF TailOK
<1> DEFINE W(p, seq, n) == ~EndsMessage(p) /\ p.seq = seq /\ p.fragseq + 1 = n
<1>1. /\ Within(f) =>
           /\ pipe[e] # <<>> => W(pipe[e][Len(pipe[e])], nSeqNum[f], nWritten[f])
           /\ pipe[e] = <<>> /\ receiver[e] = "read" /\ got[e] # <<>> =>
                W(got[e][Len(got[e])], nSeqNum[f], nWritten[f])
      /\ Between(f) =>
           /\ pipe[e] # <<>> => EndsMessage(pipe[e][Len(pipe[e])])
           /\ pipe[e] = <<>> /\ receiver[e] = "read" => got[e] = <<>>
  BY DEF TailOK, WrittenLast
<1>2. /\ Within(f)' =>
           /\ pipe'[e] # <<>> => W(pipe'[e][Len(pipe'[e])], nSeqNum'[f], nWritten'[f])
           /\ pipe'[e] = <<>> /\ receiver'[e] = "read" /\ got'[e] # <<>> =>
                W(got'[e][Len(got'[e])], nSeqNum'[f], nWritten'[f])
      /\ Between(f)' =>
           /\ pipe'[e] # <<>> => EndsMessage(pipe'[e][Len(pipe'[e])])
           /\ pipe'[e] = <<>> /\ receiver'[e] = "read" => got'[e] = <<>>
  <2> HIDE DEF W
  <2> QED BY <1>1
<1> QED BY <1>2 DEF TailOK, WrittenLast

\* The next packet that is written follows the last of its stream.
LEMMA TailsOKStep == IInv /\ Next => TailsOK'
<1> SUFFICES ASSUME IInv, Next PROVE TailsOK'
  OBVIOUS
<1>e. "gogoc" \in Ends /\ "gui" \in Ends /\ Peer("gogoc") = "gui" /\ Peer("gui") = "gogoc"
  BY Peers DEF Ends
<1>t. /\ sender \in [Ends -> SenderPlaces] /\ receiver \in [Ends -> ReceiverPlaces]
      /\ nWritten \in [Ends -> Nat] /\ nSeqNum \in [Ends -> Nat] /\ manager \in [Ends -> ManagerPlaces]
      /\ pipe \in [Ends -> Seq(Packets)] /\ got \in [Ends -> Seq(Packets)]
  BY DEF IInv, TypeOK
<1>1. CASE UNCHANGED <<pipe, receiver, got, sender, nWritten, nSeqNum, instance, handle>>
  BY <1>1, TailKept DEF IInv, Framing, TailsOK, Within, Between, Linked
<1>2. ASSUME NEW e \in Ends, SenderStops(e) PROVE TailsOK'
  BY <1>e, <1>t, <1>2, TailKept DEF SenderStops, IInv, ThreadsOK, Framing, TailsOK, Within,
     Between, Linked, SenderAt, connVars, postVars, queueVars, pipeVars
<1>3. ASSUME NEW e \in Ends, SenderTakes(e) PROVE TailsOK'
  BY <1>e, <1>t, <1>3, TailKept DEF SenderTakes, IInv, ThreadsOK, Framing, TailsOK, Within,
     Between, Linked, SenderAt, connVars, postVars, pipeVars
<1>4. ASSUME NEW e \in Ends, SenderChecks(e) PROVE TailsOK'
  BY ZenonT(60), <1>e, <1>t, <1>4, TailKept DEF SenderChecks, IInv, ThreadsOK, Framing, TailsOK, Within,
     Between, Linked, SenderAt, SenderFails, SetState, Release, postVars, pipeVars
<1>5. ASSUME NEW e \in Ends, SenderLocks(e) PROVE TailsOK'
  <2>1. /\ \A f \in Ends : Between(f)' => Between(f)
        /\ \A f \in Ends : Within(f)' => /\ Within(f) /\ nWritten'[f] = nWritten[f]
                                      /\ nSeqNum'[f] = nSeqNum[f]
    <3>1. /\ sender[e] = "lock" /\ nSeqNum' = nSeqNum
          /\ \/ sender' = [sender EXCEPT ![e] = "write"] /\ nWritten' = [nWritten EXCEPT ![e] = 0]
             \/ sender' = [sender EXCEPT ![e] = "exited"] /\ nWritten' = nWritten
      BY <1>5 DEF SenderLocks, SenderAt, SenderFails, SetState, Lock, postVars, queueVars,
         pipeVars
    <3> QED BY <1>t, <3>1 DEF Within, Between
  <2>2. UNCHANGED <<pipe, receiver, got, instance, handle>>
    BY <1>5 DEF SenderLocks, SenderAt, SenderFails, SetState, Lock, postVars, queueVars,
       pipeVars
  <2> QED BY <2>1, <2>2, TailKept DEF IInv, Framing, TailsOK, Linked
<1>6. ASSUME NEW e \in Ends, SenderWrites(e) PROVE TailsOK'
  <2>1. PICK f \in Ends : f = Peer(e) /\ f # e
    BY Peers
  <2>2. TailOK(e, f)'
    BY <1>6, <2>1, TailKept, PacketWritten DEF IInv, Framing, TailsOK, Within, Between, Linked
  <2>3. pipe'[f] # <<>>
    BY <1>6, <2>1, PacketWritten
  <2>4. Within(e)' => WrittenLast(e, pipe[f][Len(pipe[f])])'
    BY <1>6, <2>1, PacketWritten DEF Within, WrittenLast
  <2>5. Between(e)' => EndsMessage(pipe'[f][Len(pipe'[f])])
    BY <1>6, <2>1, PacketWritten DEF Between
  <2>6. TailOK(f, e)'
    BY <2>3, <2>4, <2>5 DEF TailOK
  <2>7. \A g \in Ends : g = e \/ g = f
    BY <2>1 DEF Ends
  <2> QED BY <2>2, <2>6, <2>7 DEF TailsOK
<1>7. ASSUME NEW e \in Ends, SenderWriteFails(e) PROVE TailsOK'
  BY <1>e, <1>t, <1>7, TailKept DEF SenderWriteFails, IInv, ThreadsOK, Framing, TailsOK,
     Within, Between, Linked, SenderAt, SenderFails, SetState, Unlock, postVars, queueVars,
     pipeVars
<1>8. ASSUME NEW e \in Ends, SenderPops(e) PROVE TailsOK'
  BY <1>e, <1>t, <1>8, TailKept DEF SenderPops, IInv, ThreadsOK, Framing, TailsOK, Within,
     Between, Linked, SenderAt, connVars, postVars, pipeVars
<1>9. ASSUME NEW e \in Ends, ReceiverStops(e) PROVE TailsOK'
  BY <1>e, <1>t, <1>9, TailKept DEF ReceiverStops, IInv, ThreadsOK, Framing, TailsOK, Within,
     Between, Linked, ReceiverAt, connVars, postVars, queueVars, pipeVars
<1>10. ASSUME NEW e \in Ends, ReceiverChecks(e) PROVE TailsOK'
  BY SMTT(30), <1>e, <1>t, <1>10, TailKept DEF ReceiverChecks, IInv, ThreadsOK, Framing, TailsOK, Within,
     Between, Linked, ReceiverAt, ReceiverFails, SetState, postVars, queueVars, pipeVars
<1>11. ASSUME NEW e \in Ends, ReceiverLocks(e) PROVE TailsOK'
  <2>1. UNCHANGED <<pipe, sender, nWritten, nSeqNum, instance, handle>>
    BY <1>11 DEF ReceiverLocks, ReceiverAt, ReceiverFails, SetState, Lock, postVars, queueVars,
       pipeVars
  <2>2. \A f \in Ends : receiver'[f] = "read" =>
          got'[f] = <<>> \/ (receiver[f] = "read" /\ got'[f] = got[f])
    <3>1. \/ receiver' = [receiver EXCEPT ![e] = "read"] /\ got' = [got EXCEPT ![e] = <<>>]
          \/ receiver' = [receiver EXCEPT ![e] = "exited"] /\ got' = got
      BY <1>11 DEF ReceiverLocks, ReceiverAt, ReceiverFails, SetState, Lock, postVars,
         queueVars, pipeVars
    <3> QED BY <1>t, <3>1
  <2> QED BY <2>1, <2>2, TailKept DEF IInv, Framing, TailsOK, Within, Between, Linked
<1>12. ASSUME NEW e \in Ends, ReceiverReads(e) PROVE TailsOK'
  <2>1. PICK f \in Ends : f = Peer(e) /\ f # e
    BY Peers
  <2>2. TailOK(f, e)'
    BY <1>12, <2>1, TailKept, PacketRead DEF IInv, Framing, TailsOK, Within, Between, Linked
  <2>3. TailOK(e, f)
    BY <2>1 DEF IInv, Framing, TailsOK
  <2>4. pipe'[e] # <<>> => pipe'[e][Len(pipe'[e])] = pipe[e][Len(pipe[e])]
    BY <1>12, PacketRead
  <2>5. pipe'[e] = <<>> /\ receiver'[e] = "read" =>
          got'[e][Len(got'[e])] = pipe[e][Len(pipe[e])] /\ ~EndsMessage(pipe[e][Len(pipe[e])])
    BY <1>12, PacketRead
  <2>6. pipe[e] # <<>> /\ UNCHANGED <<sender, nWritten, nSeqNum, instance, handle>>
    BY <1>12, PacketRead
  <2>7. Within(f)' /\ Linked' => WrittenLast(f, pipe[e][Len(pipe[e])])
    BY <2>3, <2>6 DEF TailOK, Within, Linked
  <2>8. Between(f)' /\ Linked' => EndsMessage(pipe[e][Len(pipe[e])])
    BY <2>3, <2>6 DEF TailOK, Between, Linked
  <2>9. TailOK(e, f)'
    BY <2>4, <2>5, <2>6, <2>7, <2>8 DEF TailOK, WrittenLast
  <2>10. \A g \in Ends : g = e \/ g = f
    BY <2>1 DEF Ends
  <2> QED BY <2>2, <2>9, <2>10 DEF TailsOK
<1>13. ASSUME NEW e \in Ends, ReceiverReadFails(e) PROVE TailsOK'
  BY <1>e, <1>t, <1>13, TailKept DEF ReceiverReadFails, IInv, ThreadsOK, Framing, TailsOK,
     Within, Between, Linked, ReceiverAt, ReceiverFails, SetState, Unlock, postVars, queueVars,
     pipeVars
<1>14. ASSUME NEW e \in Ends, ReceiverProcesses(e) PROVE TailsOK'
  BY SMTT(30), <1>e, <1>t, <1>14, TailKept DEF ReceiverProcesses, IInv, ThreadsOK, Framing, TailsOK,
     Within, Between, Linked, ReceiverAt, connVars, queueVars, pipeVars
<1>15. ASSUME NEW e \in Ends, ManagerLoops(e) PROVE TailsOK'
  BY <1>1, <1>15 DEF ManagerLoops, ManagerAt, postVars, queueVars, pipeVars
<1>16. ASSUME NEW e \in Ends, StopSender(e) PROVE TailsOK'
  BY <1>e, <1>t, <1>16, TailKept DEF StopSender, IInv, ThreadsOK, Framing, TailsOK, Within,
     Between, Linked, ManagerAt, Abandon, postVars, queueVars, pipeVars
<1>17. ASSUME NEW e \in Ends, StopReceiver(e) PROVE TailsOK'
  BY <1>e, <1>t, <1>17, TailKept DEF StopReceiver, IInv, ThreadsOK, Framing, TailsOK, Within,
     Between, Linked, ManagerAt, Abandon, postVars, queueVars, pipeVars
<1>18. ASSUME NEW e \in Ends, ManagerCleansUp(e) PROVE TailsOK'
  <2>1. ~Linked'
    BY <1>18, Closed DEF ManagerCleansUp, IInv, ManagerAt, SetState, Reset, postVars
  <2> QED BY <2>1 DEF TailsOK, TailOK
<1>19. ASSUME NEW e \in Ends, ManagerConnected(e) PROVE TailsOK'
  BY <1>1, <1>19 DEF ManagerConnected, ManagerAt, SetState, threadVars, postVars, queueVars,
     pipeVars
<1>20. ASSUME NEW e \in Ends, ConnectFails(e) PROVE TailsOK'
  BY <1>1, <1>20 DEF ConnectFails, ManagerAt, SetState, InitializeFails, postVars, queueVars,
     pipeVars
<1>21. ASSUME NEW e \in Ends, UserPushes(e) PROVE TailsOK'
  BY <1>1, <1>21 DEF UserPushes, Push, connVars, threadVars, postVars, pipeVars
<1>22. ASSUME NEW e \in Ends, UserReleases(e) PROVE TailsOK'
  BY <1>1, <1>22 DEF UserReleases, Release, connVars, threadVars, postVars, pipeVars
<1>23. ASSUME NEW e \in Ends, UserPosts(e) PROVE TailsOK'
  BY <1>1, <1>23 DEF UserPosts, connVars, threadVars, postVars, queueVars, pipeVars
<1>24. ASSUME NEW e \in Ends, Create(e) PROVE TailsOK'
  BY <1>1, <1>24 DEF Create, threadVars, postVars, queueVars, pipeVars
<1>25. ASSUME NEW e \in Ends, Destroy(e) PROVE TailsOK'
  BY <1>1, <1>25 DEF Destroy, postVars, queueVars, pipeVars
<1>26. ASSUME NEW e \in Ends, Die(e) PROVE TailsOK'
  <2>1. ~Linked'
    BY <1>26, Closed DEF Die, IInv, SetState, Reset
  <2> QED BY <2>1 DEF TailsOK, TailOK
<1>27. ASSUME AnswerPushes PROVE TailsOK'
  BY <1>1, <1>27 DEF AnswerPushes, Push, connVars, threadVars, postVars, pipeVars
<1>28. ASSUME AnswerReleases PROVE TailsOK'
  BY <1>e, <1>t, <1>28, TailKept DEF AnswerReleases, IInv, ThreadsOK, Framing, TailsOK, Within,
     Between, Linked, Release, connVars, pipeVars
<1>29. ASSUME ServerCreates PROVE TailsOK'
  BY <1>e, <1>t, <1>29, TailKept DEF ServerCreates, IInv, ThreadsOK, Framing, TailsOK, Within,
     Between, Linked, ManagerAt, threadVars, postVars, queueVars, pipeVars
<1>30. ASSUME ServerAccepts PROVE TailsOK'
  <2>1. CASE handle # "live"
    BY <1>30, <2>1, <1>t, TailKept DEF ServerAccepts, IInv, Framing, TailsOK, Within, Between,
       Linked, ManagerAt, SetState, InitializeSucceeds, InitializeFails, postVars, queueVars,
       pipeVars
  <2>2. CASE handle = "live"
    <3>1. /\ manager["gogoc"] = "accept" /\ Linked
          /\ sender' = [sender EXCEPT !["gogoc"] = "wait"]
          /\ receiver' = [receiver EXCEPT !["gogoc"] = "check"]
          /\ UNCHANGED <<pipe, got, nWritten, nSeqNum, instance, handle>>
      BY <1>30, <2>2 DEF ServerAccepts, Linked, ManagerAt, SetState, InitializeSucceeds,
         InitializeFails, postVars, queueVars, pipeVars
    <3>2. TailOK("gogoc", "gui")'
      BY <1>e, <1>t, <3>1, TailKept DEF IInv, Framing, TailsOK, Within, Between, Linked
    <3>3. /\ pipe'["gui"] = <<>>
          /\ receiver'["gui"] = "read" => got'["gui"] = <<>>
          /\ sender'["gogoc"] = "wait"
      BY <1>e, <1>t, <3>1 DEF IInv, Framing, FreshOK
    <3>4. TailOK("gui", "gogoc")'
      BY <3>3 DEF TailOK, Within, Between
    <3> QED BY <3>2, <3>4 DEF TailsOK, Ends
  <2> QED BY <2>1, <2>2
<1>31. ASSUME ClientConnects PROVE TailsOK'
  <2>1. /\ sender' = [sender EXCEPT !["gui"] = "wait"]
        /\ receiver' = [receiver EXCEPT !["gui"] = "check"]
        /\ pipe'["gogoc"] = <<>> /\ pipe'["gui"] = <<>>
        /\ receiver["gogoc"] = "none" /\ sender["gogoc"] = "none"
    BY <1>31 DEF ClientConnects, IInv, Framing, FreshOK, ManagerAt, InitializeSucceeds,
       postVars, queueVars, pipeVars
  <2>2. sender'["gui"] = "wait" /\ sender'["gogoc"] = "none" /\ receiver'["gogoc"] = "none"
        /\ receiver'["gui"] = "check"
    BY <1>e, <1>t, <2>1
  <2> QED BY <2>1, <2>2 DEF TailsOK, TailOK, Within, Between, Ends
<1>32. ASSUME RacingPush PROVE TailsOK'
  BY <1>1, <1>32 DEF RacingPush, connVars, threadVars, postVars, pipeVars
<1> QED BY <1>e, <1>2, <1>3, <1>4, <1>5, <1>6, <1>7, <1>8, <1>9, <1>10, <1>11, <1>12, <1>13,
           <1>14, <1>15, <1>16, <1>17, <1>18, <1>19, <1>20, <1>21, <1>22, <1>23, <1>24, <1>25,
           <1>26, <1>27, <1>28, <1>29, <1>30, <1>31, <1>32 DEF Next, SenderStep, ReceiverStep,
           ManagerStep, UserStep


\* Nothing is left of an old connection when a new one begins.
LEMMA FreshOKStep == IInv /\ Next => FreshOK'
<1> SUFFICES ASSUME IInv, Next PROVE FreshOK'
  OBVIOUS
<1>e. "gogoc" \in Ends /\ "gui" \in Ends /\ Peer("gogoc") = "gui" /\ Peer("gui") = "gogoc"
  BY Peers DEF Ends
<1>t. /\ sender \in [Ends -> SenderPlaces] /\ receiver \in [Ends -> ReceiverPlaces]
      /\ nWritten \in [Ends -> Nat] /\ nSeqNum \in [Ends -> Nat] /\ manager \in [Ends -> ManagerPlaces]
      /\ pipe \in [Ends -> Seq(Packets)] /\ got \in [Ends -> Seq(Packets)]
  BY DEF IInv, TypeOK
<1>1. CASE UNCHANGED <<pipe, receiver, got, sender, manager, instance, handle>>
  BY <1>1 DEF IInv, Framing, FreshOK, Linked
<1>2. ASSUME NEW e \in Ends, SenderStops(e) PROVE FreshOK'
  BY <1>e, <1>t, <1>2 DEF SenderStops, IInv, ThreadsOK, Framing, FreshOK, Linked, SenderAt,
     connVars, postVars, queueVars, pipeVars
<1>3. ASSUME NEW e \in Ends, SenderTakes(e) PROVE FreshOK'
  BY <1>e, <1>t, <1>3 DEF SenderTakes, IInv, ThreadsOK, Framing, FreshOK, Linked, SenderAt,
     connVars, postVars, pipeVars
<1>4. ASSUME NEW e \in Ends, SenderChecks(e) PROVE FreshOK'
  BY <1>e, <1>t, <1>4 DEF SenderChecks, IInv, ThreadsOK, Framing, FreshOK, Linked, SenderAt,
     SenderFails, SetState, Release, postVars, pipeVars
<1>5. ASSUME NEW e \in Ends, SenderLocks(e) PROVE FreshOK'
  BY <1>e, <1>t, <1>5 DEF SenderLocks, IInv, ThreadsOK, Framing, FreshOK, Linked, SenderAt,
     SenderFails, SetState, Lock, postVars, queueVars, pipeVars
<1>6. ASSUME NEW e \in Ends, SenderWrites(e) PROVE FreshOK'
  <2>1. e = "gogoc" => manager["gogoc"] \notin {"connect", "accept"}
    BY <1>6 DEF SenderWrites, IInv, ThreadsOK, Unlock, connVars, postVars, queueVars, pipeVars
  <2>2. instance = "taken"
    BY <1>6 DEF SenderWrites, Linked, Unlock, connVars, postVars, queueVars, pipeVars
  <2>3. e = "gui" => pipe'["gui"] = pipe["gui"]
    BY <1>6, <1>e, PacketWritten
  <2>4. UNCHANGED <<receiver, got, instance, handle, manager>>
    BY <1>6 DEF SenderWrites, Unlock, connVars, postVars, queueVars, pipeVars
  <2>5. e = "gogoc" \/ e = "gui"
    BY DEF Ends
  <2> QED BY <2>1, <2>2, <2>3, <2>4, <2>5 DEF IInv, Framing, FreshOK, Linked
<1>7. ASSUME NEW e \in Ends, SenderWriteFails(e) PROVE FreshOK'
  BY <1>e, <1>t, <1>7 DEF SenderWriteFails, IInv, ThreadsOK, Framing, FreshOK, Linked,
     SenderAt, SenderFails, SetState, Unlock, postVars, queueVars, pipeVars
<1>8. ASSUME NEW e \in Ends, SenderPops(e) PROVE FreshOK'
  BY <1>e, <1>t, <1>8 DEF SenderPops, IInv, ThreadsOK, Framing, FreshOK, Linked, SenderAt,
     connVars, postVars, pipeVars
<1>9. ASSUME NEW e \in Ends, ReceiverStops(e) PROVE FreshOK'
  BY <1>e, <1>t, <1>9 DEF ReceiverStops, IInv, ThreadsOK, Framing, FreshOK, Linked, ReceiverAt,
     connVars, postVars, queueVars, pipeVars
<1>10. ASSUME NEW e \in Ends, ReceiverChecks(e) PROVE FreshOK'
  BY <1>e, <1>t, <1>10 DEF ReceiverChecks, IInv, ThreadsOK, Framing, FreshOK, Linked,
     ReceiverAt, ReceiverFails, SetState, postVars, queueVars, pipeVars
<1>11. ASSUME NEW e \in Ends, ReceiverLocks(e) PROVE FreshOK'
  BY <1>e, <1>t, <1>11 DEF ReceiverLocks, IInv, ThreadsOK, Framing, FreshOK, Linked,
     ReceiverAt, ReceiverFails, SetState, Lock, postVars, queueVars, pipeVars
<1>12. ASSUME NEW e \in Ends, ReceiverReads(e) PROVE FreshOK'
  <2>1. pipe[e] # <<>> /\ UNCHANGED <<sender, instance, handle, manager>>
    BY <1>12, PacketRead
  <2>2. \A g \in Ends : g # e => pipe'[g] = pipe[g] /\ got'[g] = got[g] /\ receiver'[g] = receiver[g]
    BY <1>12, PacketRead
  <2>3. e = "gogoc" \/ e = "gui"
    BY DEF Ends
  <2>4. instance = "taken" /\ (e = "gui" => manager["gogoc"] \notin {"connect", "accept"})
    BY <2>1, <2>3, <1>t DEF IInv, Framing, FreshOK, TypeOK
  <2> QED BY <1>e, <2>1, <2>2, <2>3, <2>4 DEF IInv, Framing, FreshOK, Linked
<1>13. ASSUME NEW e \in Ends, ReceiverReadFails(e) PROVE FreshOK'
  BY <1>e, <1>t, <1>13 DEF ReceiverReadFails, IInv, ThreadsOK, Framing, FreshOK, Linked,
     ReceiverAt, ReceiverFails, SetState, Unlock, postVars, queueVars, pipeVars
<1>14. ASSUME NEW e \in Ends, ReceiverProcesses(e) PROVE FreshOK'
  BY <1>e, <1>t, <1>14 DEF ReceiverProcesses, IInv, ThreadsOK, Framing, FreshOK, Linked,
     ReceiverAt, connVars, queueVars, pipeVars
<1>15. ASSUME NEW e \in Ends, ManagerLoops(e) PROVE FreshOK'
  BY <1>e, <1>t, <1>15 DEF ManagerLoops, IInv, ThreadsOK, Framing, FreshOK, Linked, ManagerAt,
     postVars, queueVars, pipeVars
<1>16. ASSUME NEW e \in Ends, StopSender(e) PROVE FreshOK'
  BY <1>e, <1>t, <1>16 DEF StopSender, IInv, ThreadsOK, Framing, FreshOK, Linked, ManagerAt,
     Abandon, postVars, queueVars, pipeVars
<1>17. ASSUME NEW e \in Ends, StopReceiver(e) PROVE FreshOK'
  BY <1>e, <1>t, <1>17 DEF StopReceiver, IInv, ThreadsOK, Framing, FreshOK, Linked, ManagerAt,
     Abandon, postVars, queueVars, pipeVars
<1>18. ASSUME NEW e \in Ends, ManagerCleansUp(e) PROVE FreshOK'
  <2>1. /\ ~Linked' /\ pipe'["gui"] = <<>>
        /\ pipe'["gogoc"] = pipe["gogoc"] \/ pipe'["gogoc"] = <<>>
        /\ e = "gogoc" => instance' = "none" /\ pipe'["gogoc"] = <<>>
        /\ e = "gui" => instance' = instance
    BY <1>18, Closed DEF ManagerCleansUp, IInv, ManagerAt, SetState, Reset, postVars
  <2>2. \A g \in Ends : g # e => sender'[g] = sender[g] /\ receiver'[g] = receiver[g]
    BY <1>18, <1>t DEF ManagerCleansUp, ManagerAt, SetState, Reset, postVars
  <2>3. e = "gogoc" \/ e = "gui"
    BY DEF Ends
  <2> QED BY <1>e, <2>1, <2>2, <2>3 DEF IInv, Framing, FreshOK
<1>19. ASSUME NEW e \in Ends, ManagerConnected(e) PROVE FreshOK'
  BY <1>e, <1>t, <1>19 DEF ManagerConnected, IInv, ThreadsOK, Framing, FreshOK, Linked,
     ManagerAt, SetState, threadVars, postVars, queueVars, pipeVars
<1>20. ASSUME NEW e \in Ends, ConnectFails(e) PROVE FreshOK'
  BY <1>e, <1>t, <1>20 DEF ConnectFails, IInv, ThreadsOK, Framing, FreshOK, Linked, ManagerAt,
     SetState, InitializeFails, postVars, queueVars, pipeVars
<1>21. ASSUME NEW e \in Ends, UserPushes(e) PROVE FreshOK'
  BY <1>1, <1>21 DEF UserPushes, Push, connVars, threadVars, postVars, pipeVars
<1>22. ASSUME NEW e \in Ends, UserReleases(e) PROVE FreshOK'
  BY <1>1, <1>22 DEF UserReleases, Release, connVars, threadVars, postVars, pipeVars
<1>23. ASSUME NEW e \in Ends, UserPosts(e) PROVE FreshOK'
  BY <1>1, <1>23 DEF UserPosts, connVars, threadVars, postVars, queueVars, pipeVars
<1>24. ASSUME NEW e \in Ends, Create(e) PROVE FreshOK'
  BY <1>e, <1>t, <1>24 DEF Create, IInv, ThreadsOK, Framing, FreshOK, Linked, threadVars,
     postVars, queueVars, pipeVars
<1>25. ASSUME NEW e \in Ends, Destroy(e) PROVE FreshOK'
  BY <1>e, <1>t, <1>25 DEF Destroy, IInv, ThreadsOK, Framing, FreshOK, Linked, postVars,
     queueVars, pipeVars
<1>26. ASSUME NEW e \in Ends, Die(e) PROVE FreshOK'
  <2>1. /\ ~Linked' /\ pipe'["gui"] = <<>>
        /\ pipe'["gogoc"] = pipe["gogoc"] \/ pipe'["gogoc"] = <<>>
        /\ e = "gogoc" => instance' = "none" /\ pipe'["gogoc"] = <<>>
        /\ e = "gui" => instance' = instance
    BY <1>26, Closed DEF Die, IInv, SetState, Reset
  <2>2. \A g \in Ends : g # e => sender'[g] = sender[g] /\ receiver'[g] = receiver[g]
    BY <1>26, <1>t DEF Die, SetState, Reset
  <2>3. e = "gogoc" \/ e = "gui"
    BY DEF Ends
  <2> QED BY <1>e, <2>1, <2>2, <2>3 DEF IInv, Framing, FreshOK
<1>27. ASSUME AnswerPushes PROVE FreshOK'
  BY <1>1, <1>27 DEF AnswerPushes, Push, connVars, threadVars, postVars, pipeVars
<1>28. ASSUME AnswerReleases PROVE FreshOK'
  BY <1>e, <1>t, <1>28 DEF AnswerReleases, IInv, ThreadsOK, Framing, FreshOK, Linked, Release,
     connVars, pipeVars
<1>29. ASSUME ServerCreates PROVE FreshOK'
  BY <1>e, <1>t, <1>29 DEF ServerCreates, IInv, ThreadsOK, Framing, FreshOK, Linked, ManagerAt,
     threadVars, postVars, queueVars, pipeVars
<1>30. ASSUME ServerAccepts PROVE FreshOK'
  BY <1>e, <1>t, <1>30 DEF ServerAccepts, IInv, ThreadsOK, Framing, FreshOK, Linked, ManagerAt,
     SetState, InitializeSucceeds, InitializeFails, postVars, queueVars, pipeVars
<1>31. ASSUME ClientConnects PROVE FreshOK'
  BY <1>e, <1>t, <1>31 DEF ClientConnects, IInv, ThreadsOK, Framing, FreshOK, Linked,
     ManagerAt, InitializeSucceeds, postVars, queueVars, pipeVars
<1>32. ASSUME RacingPush PROVE FreshOK'
  BY <1>1, <1>32 DEF RacingPush, connVars, threadVars, postVars, pipeVars
<1> QED BY <1>e, <1>2, <1>3, <1>4, <1>5, <1>6, <1>7, <1>8, <1>9, <1>10, <1>11, <1>12, <1>13,
           <1>14, <1>15, <1>16, <1>17, <1>18, <1>19, <1>20, <1>21, <1>22, <1>23, <1>24, <1>25,
           <1>26, <1>27, <1>28, <1>29, <1>30, <1>31, <1>32 DEF Next, SenderStep, ReceiverStep,
           ManagerStep, UserStep

-----------------------------------------------------------------------------
(* The invariant, and what it implies.                                      *)

\* Nothing runs and nothing is under way.
LEMMA InvInit == Init => IInv
<1> SUFFICES ASSUME Init PROVE IInv
  OBVIOUS
<1>1. TypeOK
  <2>1. <<>> \in Seq(Messages) /\ <<>> \in Seq(Packets)
    OBVIOUS
  <2> QED BY <2>1 DEF Init, TypeOK, ManagerPlaces, SenderPlaces, ReceiverPlaces
<1>2. ThreadsOK
  BY DEF Init, ThreadsOK, Ends
<1>3. OneAlone
  BY DEF Init, OneAlone, Committed, Ends
<1>4. Framing
  BY DEF Init, Framing, AllInOrder, InOrder, TailsOK, TailOK, Linked, FreshOK, Ends
<1> QED BY <1>1, <1>2, <1>3, <1>4 DEF IInv

\* Every step of the two ends keeps the invariant.
LEMMA InvStep == IInv /\ [Next]_vars => IInv'
<1>1. IInv /\ Next => IInv'
  BY TypeOKStep, ThreadsOKStep, OneAloneStep, InOrderStep, TailsOKStep, FreshOKStep DEF IInv,
     Framing
<1>2. IInv /\ UNCHANGED vars => IInv'
  <2> SUFFICES ASSUME IInv, UNCHANGED vars PROVE IInv'
    OBVIOUS
  <2> USE DEF vars, connVars, threadVars, postVars, queueVars, pipeVars
  <2>1. UNCHANGED <<manager, sender, receiver, m_SendQueue, m_pSemIPCMutex, nWritten, nSeqNum>>
    OBVIOUS
  <2>2. UNCHANGED <<pushed, got, pipe, instance, handle, answering>>
    OBVIOUS
  <2>3. TypeOK'
    BY <2>1, <2>2 DEF IInv, TypeOK
  <2>4. ThreadsOK' /\ OneAlone'
    BY <2>1, <2>2 DEF IInv, ThreadsOK, OneAlone, Committed, OnlyItsOwn
  <2>5. Framing'
    <3>1. AllInOrder'
      BY <2>1, <2>2 DEF IInv, Framing, AllInOrder, InOrder
    <3>2. TailsOK'
      <4>1. ASSUME NEW e \in Ends, NEW f \in Ends, e # f PROVE TailOK(e, f)'
        BY <2>1, <2>2, <4>1 DEF IInv, Framing, TailsOK, TailOK, Within, Between, WrittenLast, Linked
      <4> QED BY <4>1 DEF TailsOK
    <3>3. FreshOK'
      BY <2>1, <2>2 DEF IInv, Framing, FreshOK, Linked
    <3> QED BY <3>1, <3>2, <3>3 DEF Framing
  <2> QED BY <2>3, <2>4, <2>5 DEF IInv
<1> QED BY <1>1, <1>2

\* The invariant holds in every state of the two ends.
THEOREM Invariance == Spec => []IInv
<1> QED BY InvInit, InvStep, PTL DEF Spec

\* The two ends never wait for each other for ever, each with a full pipe before it and
\* the mutex its own receiver needs in its hands, because SenderThread::Work has asked
\* CanRead: of two senders that are writing, one has the pipe to itself, and its whole
\* message fits.
THEOREM NoMutualBlockCorrect == Spec => []NoMutualBlock
<1>1. IInv => NoMutualBlock
  <2> SUFFICES ASSUME IInv, SenderStuck("gogoc"), SenderStuck("gui") PROVE FALSE
    BY DEF NoMutualBlock
  <2>1. "gogoc" \in Ends /\ "gui" \in Ends
    BY DEF Ends
  <2>2. ASSUME NEW e \in Ends, SenderStuck(e) PROVE Committed(e) /\ ~OnlyItsOwn(e)
    <3>1. sender[e] = "write" /\ m_pSemIPCMutex[e] = "sender"
      BY <2>2 DEF SenderStuck, IInv, ThreadsOK
    <3>2. nWritten[e] < Head(m_SendQueue[e]).len /\ Head(m_SendQueue[e]).len <= PipeSize
      BY <3>1, HeadOfQueue DEF IInv, ThreadsOK
    <3>3. Len(pipe[Peer(e)]) \in Nat /\ nWritten[e] \in Nat /\ Head(m_SendQueue[e]).len \in Nat
      BY <3>1, HeadOfQueue, Peers DEF IInv, TypeOK, ThreadsOK
    <3>4. Len(pipe[Peer(e)]) >= PipeSize
      BY <2>2 DEF SenderStuck, Full
    <3> QED BY <3>1, <3>2, <3>3, <3>4, MessagingAssumption DEF Committed, OnlyItsOwn
  <2> QED BY <2>1, <2>2 DEF IInv, OneAlone
<1> QED BY <1>1, Invariance, PTL

\* The fragments of two messages are never mixed, whatever interrupts a sender or a
\* receiver and however often the connection breaks: Servent::_ReadData never meets a
\* packet out of sequence.
THEOREM NeverDesynchronizedCorrect == Spec => []NeverDesynchronized
<1>1. IInv => NeverDesynchronized
  BY DEF IInv, Framing, AllInOrder, NeverDesynchronized
<1> QED BY <1>1, Invariance, PTL

-----------------------------------------------------------------------------
(* The library implements MsgChannel.                                       *)

\* The numbers of the messages on their way to an end rise from the one it processes to
\* the last that was pushed; the one it processes is there.
Rising(e) ==
  LET f == Peer(e) IN
  /\ receiver[e] = "process" => got[e] # <<>>
  /\ processed[e] \in Nat /\ processed[e] <= pushed[f]
  /\ \A m \in Underway(e) : m \in Nat /\ processed[e] < m /\ m <= pushed[f]
  /\ \A m \in BeingProcessed(e) : \A n \in InPipe(e) \cup Unsent(f) : m < n
  /\ \A m \in InPipe(e) : \A n \in Unsent(f) : m < n
  /\ \A i, j \in 1..Len(pipe[e]) :
       i < j /\ EndsMessage(pipe[e][i]) /\ EndsMessage(pipe[e][j]) => pipe[e][i].num < pipe[e][j].num
  /\ \A i, j \in 1..Len(m_SendQueue[f]) :
       i < j => m_SendQueue[f][i].num < m_SendQueue[f][j].num
  /\ \A i \in 1..Len(m_SendQueue[f]) :
       m_SendQueue[f][i].num \in Nat /\ m_SendQueue[f][i].num <= pushed[f]

Numbered == processed \in [Ends -> Nat] /\ \A e \in Ends : Rising(e)

\* The abstract step: MsgChannel's next-state relation, or nothing.
Simulates == [Channel!ChannelNext]_(Channel!channelVars)

\* A step that moves no message loses some or none.
LEMMA Loses ==
  ASSUME Numbered, UNCHANGED <<pushed, processed>>,
         \A e \in Ends : receiver'[e] = "process" => receiver[e] = "process" /\ got'[e] = got[e],
         \A e \in Ends : pipe'[e] = pipe[e] \/ pipe'[e] = <<>>,
         \A e \in Ends : \/ m_SendQueue'[e] = <<>>
                         \/ /\ m_SendQueue'[e] = m_SendQueue[e]
                            /\ sender[e] = "pop" => sender'[e] = "pop"
  PROVE  Numbered' /\ Simulates
<1>1. \A e \in Ends : BeingProcessed(e)' \subseteq BeingProcessed(e)
  BY DEF BeingProcessed
<1>2. \A e \in Ends : InPipe(e)' \subseteq InPipe(e)
  BY DEF InPipe
<1>3. \A e \in Ends : Unsent(e)' \subseteq Unsent(e)
  BY DEF Unsent
<1>4. \A e \in Ends : Underway(e)' \subseteq Underway(e)
  BY <1>1, <1>2, <1>3, Peers DEF Underway
<1>5. \A e \in Ends : Rising(e)'
  <2> TAKE e \in Ends
  <2>1. Rising(e) /\ Peer(e) \in Ends
    BY Peers DEF Numbered
  <2>2. /\ receiver'[e] = "process" => got'[e] # <<>>
        /\ processed'[e] \in Nat /\ processed'[e] <= pushed'[Peer(e)]
        /\ \A m \in Underway(e)' : m \in Nat /\ processed'[e] < m /\ m <= pushed'[Peer(e)]
        /\ \A m \in BeingProcessed(e)' : \A n \in InPipe(e)' \cup Unsent(Peer(e))' : m < n
        /\ \A m \in InPipe(e)' : \A n \in Unsent(Peer(e))' : m < n
    BY <1>1, <1>2, <1>3, <1>4, <2>1 DEF Rising
  <2>3. \A i, j \in 1..Len(pipe'[e]) :
          i < j /\ EndsMessage(pipe'[e][i]) /\ EndsMessage(pipe'[e][j])
            => pipe'[e][i].num < pipe'[e][j].num
    BY <2>1 DEF Rising
  <2>4. \A i, j \in 1..Len(m_SendQueue'[Peer(e)]) :
          i < j => m_SendQueue'[Peer(e)][i].num < m_SendQueue'[Peer(e)][j].num
    BY <2>1 DEF Rising
  <2>5. \A i \in 1..Len(m_SendQueue'[Peer(e)]) :
          /\ m_SendQueue'[Peer(e)][i].num \in Nat
          /\ m_SendQueue'[Peer(e)][i].num <= pushed'[Peer(e)]
    BY <2>1 DEF Rising
  <2> QED BY <2>2, <2>3, <2>4, <2>5 DEF Rising
<1>6. Numbered'
  BY <1>5 DEF Numbered
<1>7. Channel!Lose
  <2>1. \A e \in Ends : Underway(e)' \subseteq Nat
    BY <1>6 DEF Numbered, Rising
  <2>2. [e \in Ends |-> Underway(e)]' \in [Ends -> SUBSET Nat]
    BY <2>1
  <2> QED BY <1>4, <2>2 DEF Channel!Lose
<1> QED BY <1>6, <1>7 DEF Simulates, Channel!ChannelNext

\* A message that is pushed is accepted for the peer.
LEMMA Accepts ==
  ASSUME IInv, Numbered, NEW e \in Ends, NEW n \in Nat, n > pushed[e], NEW len \in Lengths,
         m_SendQueue' = [m_SendQueue EXCEPT ![e] = Append(@, [num |-> n, len |-> len])],
         pushed' = [pushed EXCEPT ![e] = n],
         UNCHANGED <<sender, receiver, got, pipe, processed>>
  PROVE  Numbered' /\ Simulates
<1> DEFINE x == [num |-> n, len |-> len]
           q == m_SendQueue[e]
<1>1. PICK g \in Ends : g = Peer(e) /\ g # e /\ Peer(g) = e
  BY Peers
<1>2. /\ q \in Seq(Messages) /\ x \in Messages /\ x.num = n
      /\ m_SendQueue' = [m_SendQueue EXCEPT ![e] = Append(q, x)]
      /\ sender[e] = "pop" => q # <<>>
      /\ pushed \in [Ends -> Nat] /\ m_SendQueue \in [Ends -> Seq(Messages)]
  BY DEF IInv, TypeOK, ThreadsOK, Messages
<1> HIDE DEF x, q
<1>3. /\ m_SendQueue'[e] = Append(q, x) /\ m_SendQueue[e] = q
      /\ \A h \in Ends : h # e => m_SendQueue'[h] = m_SendQueue[h] /\ pushed'[h] = pushed[h]
      /\ pushed'[e] = n
  BY <1>2 DEF q
<1>4. /\ Len(q) \in Nat /\ Len(Append(q, x)) = Len(q) + 1
      /\ \A i \in 1..Len(q) : Append(q, x)[i] = q[i]
      /\ Append(q, x)[Len(q) + 1] = x
      /\ q # <<>> => Len(q) > 0
  BY <1>2
<1>5. Unsent(e)' = Unsent(e) \cup {n}
  <2>1. Unsent(e) = {q[i].num : i \in {j \in 1..Len(q) : sender[e] = "pop" => j > 1}}
    BY <1>3 DEF Unsent
  <2>2. Unsent(e)' =
          {Append(q, x)[i].num : i \in {j \in 1..(Len(q) + 1) : sender[e] = "pop" => j > 1}}
    BY <1>3, <1>4 DEF Unsent
  <2>3. Len(q) + 1 \in {j \in 1..(Len(q) + 1) : sender[e] = "pop" => j > 1}
    BY <1>2, <1>4
  <2>4. n \in Unsent(e)'
    BY <1>2, <1>4, <2>2, <2>3
  <2>5. Unsent(e) \subseteq Unsent(e)'
    BY <1>4, <2>1, <2>2
  <2>6. Unsent(e)' \subseteq Unsent(e) \cup {n}
    <3> SUFFICES ASSUME NEW i \in 1..(Len(q) + 1), sender[e] = "pop" => i > 1
                 PROVE  Append(q, x)[i].num \in Unsent(e) \cup {n}
      BY <2>2
    <3>1. CASE i \in 1..Len(q)
      BY <1>4, <2>1, <3>1
    <3>2. CASE i = Len(q) + 1
      BY <1>2, <1>4, <3>2
    <3> QED BY <1>4, <3>1, <3>2
  <2> QED BY <2>4, <2>5, <2>6
<1>6. /\ \A h \in Ends : h # e => Unsent(h)' = Unsent(h)
      /\ \A h \in Ends : InPipe(h)' = InPipe(h) /\ BeingProcessed(h)' = BeingProcessed(h)
  BY <1>3 DEF Unsent, InPipe, BeingProcessed
<1>7. /\ Underway(g)' = Underway(g) \cup {n}
      /\ \A h \in Ends : h # g => Underway(h)' = Underway(h)
  BY <1>1, <1>5, <1>6, Peers DEF Underway
<1>8. Rising(g)'
  <2>1. Rising(g)
    BY DEF Numbered
  <2>2. \A m \in Underway(g) : m \in Nat /\ m < n
    BY <1>1, <1>2, <2>1 DEF Rising
  <2>3. /\ receiver'[g] = "process" => got'[g] # <<>>
        /\ processed'[g] \in Nat /\ processed'[g] < n /\ n <= pushed'[e]
    BY <1>1, <1>2, <1>3, <2>1 DEF Rising
  <2>4. \A m \in Underway(g)' : m \in Nat /\ processed'[g] < m /\ m <= pushed'[e]
    BY <1>1, <1>2, <1>3, <1>7, <2>1, <2>2, <2>3 DEF Rising
  <2>5. /\ \A m \in BeingProcessed(g)' : \A k \in InPipe(g)' \cup Unsent(e)' : m < k
        /\ \A m \in InPipe(g)' : \A k \in Unsent(e)' : m < k
    BY <1>1, <1>5, <1>6, <2>1, <2>2 DEF Rising, Underway
  <2>6. \A i, j \in 1..Len(pipe'[g]) :
          i < j /\ EndsMessage(pipe'[g][i]) /\ EndsMessage(pipe'[g][j])
            => pipe'[g][i].num < pipe'[g][j].num
    BY <2>1 DEF Rising
  <2>7. \A i, j \in 1..(Len(q) + 1) : i < j => Append(q, x)[i].num < Append(q, x)[j].num
    <3> SUFFICES ASSUME NEW i \in 1..(Len(q) + 1), NEW j \in 1..(Len(q) + 1), i < j
                 PROVE  Append(q, x)[i].num < Append(q, x)[j].num
      OBVIOUS
    <3>1. i \in 1..Len(q) /\ Append(q, x)[i] = q[i]
      BY <1>4
    <3>2. CASE j \in 1..Len(q)
      BY <1>1, <1>3, <1>4, <2>1, <3>1, <3>2 DEF Rising
    <3>3. CASE j = Len(q) + 1
      <4>1. q[i].num <= pushed[e] /\ q[i].num \in Nat
        BY <1>1, <1>3, <2>1, <3>1 DEF Rising
      <4> QED BY <1>2, <1>4, <3>1, <3>3, <4>1
    <3> QED BY <1>4, <3>2, <3>3
  <2>8. \A i \in 1..(Len(q) + 1) : Append(q, x)[i].num \in Nat /\ Append(q, x)[i].num <= n
    <3> SUFFICES ASSUME NEW i \in 1..(Len(q) + 1)
                 PROVE  Append(q, x)[i].num \in Nat /\ Append(q, x)[i].num <= n
      OBVIOUS
    <3>1. CASE i \in 1..Len(q)
      BY <1>1, <1>2, <1>3, <1>4, <2>1, <3>1 DEF Rising
    <3>2. CASE i = Len(q) + 1
      BY <1>2, <1>4, <3>2
    <3> QED BY <1>4, <3>1, <3>2
  <2> QED BY <1>1, <1>3, <1>4, <2>3, <2>4, <2>5, <2>6, <2>7, <2>8 DEF Rising
<1>9. \A h \in Ends : h # g => Rising(h)'
  <2> SUFFICES ASSUME NEW h \in Ends, h # g PROVE Rising(h)'
    OBVIOUS
  <2>1. Rising(h) /\ Peer(h) \in Ends /\ Peer(h) # e
    BY <1>1, Peers DEF Numbered
  <2>2. /\ Underway(h)' = Underway(h) /\ Unsent(Peer(h))' = Unsent(Peer(h))
        /\ InPipe(h)' = InPipe(h) /\ BeingProcessed(h)' = BeingProcessed(h)
        /\ m_SendQueue'[Peer(h)] = m_SendQueue[Peer(h)] /\ pushed'[Peer(h)] = pushed[Peer(h)]
    BY <1>3, <1>6, <1>7, <2>1
  <2> QED BY <2>1, <2>2 DEF Rising
<1>10. Numbered'
  BY <1>8, <1>9 DEF Numbered
<1>11. Channel!Accept(g)
  <2>1. [h \in Ends |-> pushed[Peer(h)]]'[g] = n
    BY <1>1, <1>3
  <2>2. \A h \in Ends : h # g => pushed'[Peer(h)] = pushed[Peer(h)]
    BY <1>1, <1>3, Peers
  <2>3. [h \in Ends |-> pushed[Peer(h)]]' =
          [[h \in Ends |-> pushed[Peer(h)]] EXCEPT ![g] = n]
    BY <2>1, <2>2
  <2>4. [h \in Ends |-> Underway(h)]' = [[h \in Ends |-> Underway(h)] EXCEPT ![g] = @ \cup {n}]
    BY <1>7
  <2> QED BY <1>1, <2>1, <2>3, <2>4 DEF Channel!Accept
<1> QED BY <1>1, <1>10, <1>11 DEF Simulates, Channel!ChannelNext

\* A step that moves a message from one place to the next leaves it under way.
LEMMA Moves ==
  ASSUME Numbered, UNCHANGED <<pushed, processed>>, \A e \in Ends : Rising(e)',
         \A e \in Ends : Underway(e)' = Underway(e)
  PROVE  Numbered' /\ Simulates
<1>1. Numbered'
  BY DEF Numbered
<1>2. [e \in Ends |-> Underway(e)]' = [e \in Ends |-> Underway(e)]
  OBVIOUS
<1>3. [e \in Ends |-> pushed[Peer(e)]]' = [e \in Ends |-> pushed[Peer(e)]]
  OBVIOUS
<1>4. UNCHANGED Channel!channelVars
  BY <1>2, <1>3 DEF Channel!channelVars
<1> QED BY <1>1, <1>4 DEF Simulates

\* The last packet of a message takes it from the queue into the pipe.
LEMMA WriteMoves ==
  ASSUME IInv, Numbered, NEW e \in Ends, SenderWrites(e)
  PROVE  Numbered' /\ Simulates
<1>1. PICK g \in Ends : g = Peer(e) /\ g # e /\ Peer(g) = e
  BY Peers
<1> DEFINE q == m_SendQueue[e]
           L == Len(pipe[g])
           p == pipe'[g][Len(pipe'[g])]
<1>2. /\ q # <<>> /\ q \in Seq(Messages) /\ Len(q) \in Nat /\ Len(q) > 0 /\ Head(q) = q[1]
      /\ sender[e] = "write" /\ UNCHANGED <<m_SendQueue, pushed, processed, receiver, got>>
  <2>1. /\ sender[e] = "write" /\ UNCHANGED <<m_SendQueue, pushed, processed, receiver, got>>
    BY DEF SenderWrites, queueVars, postVars
  <2>2. q \in Seq(Messages) /\ q # <<>>
    BY <2>1 DEF IInv, TypeOK, ThreadsOK
  <2>3. Len(q) \in Nat /\ Len(q) > 0 /\ Head(q) = q[1]
    <3> HIDE DEF q
    <3> QED BY <2>2
  <2> QED BY <2>1, <2>2, <2>3
<1>3. /\ L \in Nat /\ Len(pipe'[g]) = L + 1 /\ p = pipe'[g][L + 1]
      /\ \A i \in 1..L : pipe'[g][i] = pipe[g][i]
      /\ p.num = q[1].num /\ pipe'[e] = pipe[e]
      /\ IF EndsMessage(p) THEN sender'[e] = "pop" ELSE sender'[e] = "write"
      /\ \A h \in Ends : h # e => sender'[h] = sender[h]
  BY <1>1, <1>2, PacketWritten
<1> HIDE DEF q, L, p
<1>4. /\ Rising(g) /\ Rising(e) /\ m_SendQueue[e] = q /\ L = Len(pipe[g])
      /\ \A h \in Ends : h = e \/ h = g
  BY <1>1 DEF Numbered, q, L, Ends
<1>5. InPipe(g)' = InPipe(g) \cup (IF EndsMessage(p) THEN {p.num} ELSE {})
  <2>1. InPipe(g) = {pipe[g][i].num : i \in {j \in 1..L : EndsMessage(pipe[g][j])}}
    BY <1>4 DEF InPipe
  <2>2. InPipe(g)' = {pipe'[g][i].num : i \in {j \in 1..(L + 1) : EndsMessage(pipe'[g][j])}}
    BY <1>3 DEF InPipe
  <2>3. InPipe(g) \subseteq InPipe(g)'
    BY <1>3, <2>1, <2>2
  <2>4. EndsMessage(p) => p.num \in InPipe(g)'
    BY <1>3, <2>2
  <2>5. ASSUME NEW i \in 1..(L + 1), EndsMessage(pipe'[g][i])
        PROVE  pipe'[g][i].num \in InPipe(g) \cup (IF EndsMessage(p) THEN {p.num} ELSE {})
    <3>1. CASE i \in 1..L
      BY <1>3, <2>1, <2>5, <3>1
    <3>2. CASE i = L + 1
      BY <1>3, <2>5, <3>2
    <3> QED BY <1>3, <3>1, <3>2
  <2> QED BY <2>2, <2>3, <2>4, <2>5
<1>6. /\ Unsent(e) = {q[i].num : i \in 1..Len(q)}
      /\ EndsMessage(p) => Unsent(e)' = {q[i].num : i \in {j \in 1..Len(q) : j > 1}}
      /\ ~EndsMessage(p) => Unsent(e)' = Unsent(e)
  BY <1>2, <1>3, <1>4 DEF Unsent
<1>7. /\ q[1].num \in Unsent(e)
      /\ \A m \in Unsent(e) : m # q[1].num => m \in Unsent(e)' /\ q[1].num < m
      /\ Unsent(e)' \subseteq Unsent(e)
      /\ EndsMessage(p) => \A m \in Unsent(e)' : q[1].num < m
  <2>1. \A i, j \in 1..Len(q) : i < j => q[i].num < q[j].num
    BY <1>1, <1>4 DEF Rising
  <2>2. 1 \in 1..Len(q) /\ \A i \in 1..Len(q) : i # 1 => 1 < i
    BY <1>2
  <2>3. q[1].num \in Unsent(e)
    BY <1>6, <2>2
  <2>4. \A i \in 1..Len(q) : i # 1 => q[1].num < q[i].num
    BY <2>1, <2>2
  <2>5. ASSUME NEW m \in Unsent(e), m # q[1].num PROVE m \in Unsent(e)' /\ q[1].num < m
    <3>1. PICK i \in 1..Len(q) : m = q[i].num
      BY <1>6
    <3>2. i # 1
      BY <2>5, <3>1
    <3> QED BY <1>6, <2>2, <2>4, <2>5, <3>1, <3>2
  <2>6. EndsMessage(p) => \A m \in Unsent(e)' : q[1].num < m
    BY <1>6, <2>2, <2>4
  <2>7. Unsent(e)' \subseteq Unsent(e)
    BY <1>6
  <2> QED BY <2>3, <2>5, <2>6, <2>7
<1>8. /\ InPipe(e)' = InPipe(e) /\ Unsent(g)' = Unsent(g)
      /\ BeingProcessed(e)' = BeingProcessed(e) /\ BeingProcessed(g)' = BeingProcessed(g)
  BY <1>1, <1>2, <1>3 DEF InPipe, Unsent, BeingProcessed
<1>9. Underway(g)' = Underway(g) /\ Underway(e)' = Underway(e)
  BY <1>1, <1>3, <1>5, <1>6, <1>7, <1>8 DEF Underway
<1>10. Rising(g)'
  <2>1. /\ receiver'[g] = "process" => got'[g] # <<>>
        /\ processed'[g] \in Nat /\ processed'[g] <= pushed'[e]
        /\ \A m \in Underway(g)' : m \in Nat /\ processed'[g] < m /\ m <= pushed'[e]
        /\ \A i, j \in 1..Len(m_SendQueue'[e]) :
             i < j => m_SendQueue'[e][i].num < m_SendQueue'[e][j].num
        /\ \A i \in 1..Len(m_SendQueue'[e]) :
             m_SendQueue'[e][i].num \in Nat /\ m_SendQueue'[e][i].num <= pushed'[e]
    BY <1>1, <1>2, <1>4, <1>9 DEF Rising
  <2>2. \A m \in BeingProcessed(g)' : \A n \in InPipe(g)' \cup Unsent(e)' : m < n
    BY <1>1, <1>3, <1>4, <1>5, <1>7, <1>8 DEF Rising
  <2>3. \A m \in InPipe(g)' : \A n \in Unsent(e)' : m < n
    BY <1>1, <1>3, <1>4, <1>5, <1>7 DEF Rising
  <2>4. \A i, j \in 1..(L + 1) :
          i < j /\ EndsMessage(pipe'[g][i]) /\ EndsMessage(pipe'[g][j])
            => pipe'[g][i].num < pipe'[g][j].num
    <3> SUFFICES ASSUME NEW i \in 1..(L + 1), NEW j \in 1..(L + 1), i < j,
                        EndsMessage(pipe'[g][i]), EndsMessage(pipe'[g][j])
                 PROVE  pipe'[g][i].num < pipe'[g][j].num
      OBVIOUS
    <3>1. i \in 1..L /\ pipe'[g][i] = pipe[g][i]
      BY <1>3
    <3>2. CASE j \in 1..L
      BY <1>3, <1>4, <3>1, <3>2 DEF Rising
    <3>3. CASE j = L + 1
      <4>1. pipe[g][i].num \in InPipe(g)
        BY <1>4, <3>1 DEF InPipe
      <4> QED BY <1>1, <1>3, <1>4, <1>7, <3>1, <3>3, <4>1 DEF Rising
    <3> QED BY <1>3, <3>2, <3>3
  <2> QED BY <1>1, <1>3, <2>1, <2>2, <2>3, <2>4 DEF Rising
<1>11. Rising(e)'
  BY <1>1, <1>2, <1>3, <1>4, <1>8, <1>9, Peers DEF Rising
<1> QED BY <1>2, <1>4, <1>9, <1>10, <1>11, Moves

\* What is popped has been written.
LEMMA PopMoves ==
  ASSUME IInv, Numbered, NEW e \in Ends, SenderPops(e)
  PROVE  Numbered' /\ Simulates
<1>1. PICK g \in Ends : g = Peer(e) /\ g # e /\ Peer(g) = e
  BY Peers
<1> DEFINE q == m_SendQueue[e]
<1>2. /\ q # <<>> /\ q \in Seq(Messages) /\ m_SendQueue' = [m_SendQueue EXCEPT ![e] = Tail(q)]
      /\ sender[e] = "pop" /\ sender' = [sender EXCEPT ![e] = "wait"]
      /\ UNCHANGED <<pushed, processed, receiver, got, pipe>>
      /\ m_SendQueue \in [Ends -> Seq(Messages)] /\ sender \in [Ends -> SenderPlaces]
  BY DEF SenderPops, SenderAt, IInv, TypeOK, ThreadsOK, threadVars, pipeVars, postVars
<1> HIDE DEF q
<1>3. /\ Len(q) \in Nat /\ Len(q) > 0 /\ Len(Tail(q)) = Len(q) - 1
      /\ \A i \in 1..(Len(q) - 1) : Tail(q)[i] = q[i + 1]
      /\ m_SendQueue'[e] = Tail(q) /\ m_SendQueue[e] = q /\ sender'[e] = "wait"
      /\ \A h \in Ends : h # e => sender'[h] = sender[h] /\ m_SendQueue'[h] = m_SendQueue[h]
  BY <1>2 DEF q
<1>4. /\ Rising(g) /\ Rising(e) /\ \A h \in Ends : h = e \/ h = g
  BY <1>1 DEF Numbered, Ends
<1>5. Unsent(e)' = Unsent(e)
  <2>1. Unsent(e) = {q[i].num : i \in {j \in 1..Len(q) : j > 1}}
    BY <1>2, <1>3 DEF Unsent
  <2>2. Unsent(e)' = {Tail(q)[i].num : i \in 1..(Len(q) - 1)}
    BY <1>3 DEF Unsent
  <2>3. \A i \in 1..(Len(q) - 1) : i + 1 \in {j \in 1..Len(q) : j > 1} /\ Tail(q)[i] = q[i + 1]
    BY <1>3
  <2>4. \A i \in {j \in 1..Len(q) : j > 1} : i - 1 \in 1..(Len(q) - 1) /\ Tail(q)[i - 1] = q[i]
    BY <1>3
  <2> QED BY <2>1, <2>2, <2>3, <2>4
<1>6. /\ Unsent(g)' = Unsent(g)
      /\ \A h \in Ends : InPipe(h)' = InPipe(h) /\ BeingProcessed(h)' = BeingProcessed(h)
  BY <1>1, <1>2, <1>3 DEF InPipe, Unsent, BeingProcessed
<1>7. Underway(g)' = Underway(g) /\ Underway(e)' = Underway(e)
  BY <1>1, <1>5, <1>6 DEF Underway
<1>8. Rising(g)'
  <2>1. \A i, j \in 1..(Len(q) - 1) : i < j => Tail(q)[i].num < Tail(q)[j].num
    BY <1>1, <1>3, <1>4 DEF Rising
  <2>2. \A i \in 1..(Len(q) - 1) : Tail(q)[i].num \in Nat /\ Tail(q)[i].num <= pushed[e]
    BY <1>1, <1>3, <1>4 DEF Rising
  <2> QED BY <1>1, <1>2, <1>3, <1>4, <1>5, <1>6, <1>7, <2>1, <2>2 DEF Rising
<1>9. Rising(e)'
  BY <1>1, <1>2, <1>3, <1>4, <1>6, <1>7 DEF Rising
<1> QED BY <1>2, <1>4, <1>7, <1>8, <1>9, Moves

\* The last packet of a message takes it from the pipe to the one that processes it.
LEMMA ReadMoves ==
  ASSUME IInv, Numbered, NEW e \in Ends, ReceiverReads(e)
  PROVE  Numbered' /\ Simulates
<1>1. PICK f \in Ends : f = Peer(e) /\ f # e /\ Peer(f) = e
  BY Peers
<1> DEFINE L == Len(pipe[e])
           p == pipe[e][1]
<1>2. UNCHANGED <<m_SendQueue, pushed, processed, sender>>
  BY DEF ReceiverReads, queueVars, postVars
<1>3. /\ receiver[e] = "read" /\ L \in Nat /\ L > 0 /\ Len(pipe'[e]) = L - 1
      /\ \A i \in 1..(L - 1) : pipe'[e][i] = pipe[e][i + 1]
      /\ got'[e] # <<>> /\ Last(got'[e]) = p
      /\ \A g \in Ends : g # e => pipe'[g] = pipe[g] /\ got'[g] = got[g] /\ receiver'[g] = receiver[g]
      /\ receiver'[e] = IF EndsMessage(p) THEN "process" ELSE "read"
  BY PacketRead DEF Last
<1> HIDE DEF L, p
<1>4. /\ Rising(f) /\ Rising(e) /\ L = Len(pipe[e]) /\ p = pipe[e][1]
      /\ \A h \in Ends : h = e \/ h = f
  BY <1>1 DEF Numbered, L, p, Ends
<1>5. /\ InPipe(e)' \subseteq InPipe(e)
      /\ EndsMessage(p) => p.num \in InPipe(e)
      /\ \A m \in InPipe(e) : m \in InPipe(e)' \/ (EndsMessage(p) /\ m = p.num)
  <2>1. InPipe(e) = {pipe[e][i].num : i \in {j \in 1..L : EndsMessage(pipe[e][j])}}
    BY <1>4 DEF InPipe
  <2>2. InPipe(e)' = {pipe'[e][i].num : i \in {j \in 1..(L - 1) : EndsMessage(pipe'[e][j])}}
    BY <1>3 DEF InPipe
  <2>3. ASSUME NEW i \in 1..(L - 1), EndsMessage(pipe'[e][i]) PROVE pipe'[e][i].num \in InPipe(e)
    <3>1. i + 1 \in {j \in 1..L : EndsMessage(pipe[e][j])} /\ pipe'[e][i] = pipe[e][i + 1]
      BY <1>3, <2>3
    <3> QED BY <2>1, <3>1
  <2>4. ASSUME NEW i \in 1..L, EndsMessage(pipe[e][i]), i # 1 PROVE pipe[e][i].num \in InPipe(e)'
    <3>1. i - 1 \in {j \in 1..(L - 1) : EndsMessage(pipe'[e][j])} /\ pipe'[e][i - 1] = pipe[e][i]
      BY <1>3, <2>4
    <3> QED BY <2>2, <3>1
  <2>5. 1 \in 1..L
    BY <1>3
  <2> QED BY <1>4, <2>1, <2>2, <2>3, <2>4, <2>5
<1>6. EndsMessage(p) => \A m \in InPipe(e)' : p.num < m
  <2> SUFFICES ASSUME EndsMessage(p), NEW i \in 1..(L - 1), EndsMessage(pipe'[e][i])
               PROVE  p.num < pipe'[e][i].num
    BY <1>3 DEF InPipe
  <2>1. 1 \in 1..L /\ i + 1 \in 1..L /\ 1 < i + 1 /\ pipe'[e][i] = pipe[e][i + 1]
    BY <1>3
  <2> QED BY <1>4, <2>1 DEF Rising
<1>7. /\ BeingProcessed(e) = {}
      /\ BeingProcessed(e)' = IF EndsMessage(p) THEN {p.num} ELSE {}
  BY <1>3 DEF BeingProcessed
<1>8. /\ InPipe(f)' = InPipe(f) /\ BeingProcessed(f)' = BeingProcessed(f)
      /\ \A h \in Ends : Unsent(h)' = Unsent(h)
  <2>1. pipe'[f] = pipe[f] /\ got'[f] = got[f] /\ receiver'[f] = receiver[f]
    BY <1>1, <1>3
  <2>2. InPipe(f)' = InPipe(f)
    BY <2>1 DEF InPipe
  <2>3. BeingProcessed(f)' = BeingProcessed(f)
    BY <2>1 DEF BeingProcessed
  <2>4. \A h \in Ends : Unsent(h)' = Unsent(h)
    BY <1>2 DEF Unsent
  <2> QED BY <2>2, <2>3, <2>4
<1>9. Underway(e)' = Underway(e) /\ Underway(f)' = Underway(f)
  BY <1>1, <1>5, <1>7, <1>8 DEF Underway
<1>10. Rising(e)'
  <2>1. /\ receiver'[e] = "process" => got'[e] # <<>>
        /\ processed'[e] \in Nat /\ processed'[e] <= pushed'[f]
        /\ \A m \in Underway(e)' : m \in Nat /\ processed'[e] < m /\ m <= pushed'[f]
        /\ \A i, j \in 1..Len(m_SendQueue'[f]) :
             i < j => m_SendQueue'[f][i].num < m_SendQueue'[f][j].num
        /\ \A i \in 1..Len(m_SendQueue'[f]) :
             m_SendQueue'[f][i].num \in Nat /\ m_SendQueue'[f][i].num <= pushed'[f]
    BY <1>1, <1>2, <1>3, <1>4, <1>9 DEF Rising
  <2>2. /\ \A m \in BeingProcessed(e)' : \A n \in InPipe(e)' \cup Unsent(f)' : m < n
        /\ \A m \in InPipe(e)' : \A n \in Unsent(f)' : m < n
    BY <1>1, <1>4, <1>5, <1>6, <1>7, <1>8 DEF Rising
  <2>3. \A i, j \in 1..(L - 1) :
          i < j /\ EndsMessage(pipe'[e][i]) /\ EndsMessage(pipe'[e][j])
            => pipe'[e][i].num < pipe'[e][j].num
    <3> SUFFICES ASSUME NEW i \in 1..(L - 1), NEW j \in 1..(L - 1), i < j,
                        EndsMessage(pipe'[e][i]), EndsMessage(pipe'[e][j])
                 PROVE  pipe'[e][i].num < pipe'[e][j].num
      OBVIOUS
    <3>1. i + 1 \in 1..L /\ j + 1 \in 1..L /\ i + 1 < j + 1
      BY <1>3
    <3> QED BY <1>3, <1>4, <3>1 DEF Rising
  <2> QED BY <1>1, <1>3, <2>1, <2>2, <2>3 DEF Rising
<1>11. Rising(f)'
  <2>1. pipe'[f] = pipe[f] /\ got'[f] = got[f] /\ receiver'[f] = receiver[f]
    BY <1>1, <1>3
  <2> QED BY <1>1, <1>2, <1>4, <1>8, <1>9, <2>1 DEF Rising
<1> QED BY <1>2, <1>4, <1>9, <1>10, <1>11, Moves

\* What is processed is the first of what is under way.
LEMMA Processes ==
  ASSUME IInv, Numbered, NEW e \in Ends, ReceiverProcesses(e)
  PROVE  Numbered' /\ Simulates
<1>1. PICK f \in Ends : f = Peer(e) /\ f # e /\ Peer(f) = e
  BY Peers
<1> DEFINE m == Last(got[e]).num
<1>2. /\ receiver[e] = "process" /\ UNCHANGED <<m_SendQueue, pushed, sender, pipe>>
      /\ processed' = [processed EXCEPT ![e] = m] /\ got' = [got EXCEPT ![e] = <<>>]
      /\ \E to \in {"answer", "check"} : receiver' = [receiver EXCEPT ![e] = to]
      /\ receiver \in [Ends -> ReceiverPlaces] /\ got \in [Ends -> Seq(Packets)]
      /\ processed \in [Ends -> Nat]
  BY DEF ReceiverProcesses, ReceiverAt, queueVars, pipeVars, IInv, TypeOK, Numbered
<1> HIDE DEF m
<1>3. /\ Rising(f) /\ Rising(e) /\ \A h \in Ends : h = e \/ h = f
  BY <1>1 DEF Numbered, Ends
<1>4. BeingProcessed(e) = {m} /\ BeingProcessed(e)' = {}
  BY <1>2 DEF BeingProcessed, m
<1>5. /\ receiver'[f] = receiver[f] /\ got'[f] = got[f] /\ processed'[f] = processed[f]
      /\ receiver'[e] # "process" /\ processed'[e] = m
  BY <1>1, <1>2
<1>6. /\ BeingProcessed(f)' = BeingProcessed(f)
      /\ \A h \in Ends : Unsent(h)' = Unsent(h) /\ InPipe(h)' = InPipe(h)
  BY ZenonT(60), <1>2, <1>5 DEF InPipe, Unsent, BeingProcessed
<1>7. /\ Underway(e) = {m} \cup InPipe(e) \cup Unsent(f) /\ Underway(e)' = InPipe(e) \cup Unsent(f)
      /\ Underway(f)' = Underway(f)
  BY <1>1, <1>4, <1>6 DEF Underway
<1>8. /\ m \in Nat /\ processed[e] < m /\ m <= pushed[f]
      /\ \A n \in InPipe(e) \cup Unsent(f) : m < n
      /\ \A n \in Underway(e) : n \in Nat /\ n <= pushed[f]
  BY <1>1, <1>3, <1>4, <1>7 DEF Rising
<1>9. Rising(e)'
  <2>1. \A n \in Underway(e)' : n \in Nat /\ m < n /\ n <= pushed[f]
    BY <1>7, <1>8
  <2> QED BY <1>1, <1>2, <1>3, <1>4, <1>5, <1>6, <1>8, <2>1 DEF Rising
<1>10. Rising(f)'
  BY <1>1, <1>2, <1>3, <1>5, <1>6, <1>7 DEF Rising
<1>11. Numbered'
  <2>1. processed' \in [Ends -> Nat]
    BY <1>2, <1>8
  <2> QED BY <1>3, <1>9, <1>10, <2>1 DEF Numbered
<1>12. Channel!Process(e)
  <2>1. m \in Underway(e) /\ \A n \in Underway(e) : m <= n
    BY <1>7, <1>8
  <2>2. Underway(e)' = Underway(e) \ {m}
    BY <1>7, <1>8
  <2>3. [h \in Ends |-> Underway(h)]' = [[h \in Ends |-> Underway(h)] EXCEPT ![e] = @ \ {m}]
    BY <1>3, <1>7, <2>2
  <2>4. [h \in Ends |-> pushed[Peer(h)]]' = [h \in Ends |-> pushed[Peer(h)]]
    BY <1>2
  <2> QED BY <1>2, <2>1, <2>3, <2>4 DEF Channel!Process
<1> QED BY <1>11, <1>12 DEF Simulates, Channel!ChannelNext

\* Every step keeps the numbers in order and is a step of MsgChannel.
LEMMA SimulationStep == IInv /\ Numbered /\ Next => Numbered' /\ Simulates
<1> SUFFICES ASSUME IInv, Numbered, Next PROVE Numbered' /\ Simulates
  OBVIOUS
<1>e. "gogoc" \in Ends /\ "gui" \in Ends
  BY DEF Ends
<1>t. /\ sender \in [Ends -> SenderPlaces] /\ receiver \in [Ends -> ReceiverPlaces]
      /\ m_SendQueue \in [Ends -> Seq(Messages)] /\ pushed \in [Ends -> Nat]
      /\ got \in [Ends -> Seq(Packets)]
  BY DEF IInv, TypeOK
<1>1. ASSUME NEW e \in Ends, SenderStops(e) PROVE Numbered' /\ Simulates
  BY <1>e, <1>t, <1>1, Loses DEF SenderStops, SenderAt, connVars, postVars, queueVars, pipeVars
<1>2. ASSUME NEW e \in Ends, SenderTakes(e) PROVE Numbered' /\ Simulates
  BY <1>e, <1>t, <1>2, Loses DEF SenderTakes, SenderAt, connVars, postVars, pipeVars
<1>3. ASSUME NEW e \in Ends, SenderChecks(e) PROVE Numbered' /\ Simulates
  BY <1>e, <1>t, <1>3, Loses DEF SenderChecks, SenderAt, SenderFails, SetState, Release,
     postVars, pipeVars
<1>4. ASSUME NEW e \in Ends, SenderLocks(e) PROVE Numbered' /\ Simulates
  BY <1>e, <1>t, <1>4, Loses DEF SenderLocks, SenderAt, SenderFails, SetState, Lock, postVars,
     queueVars, pipeVars
<1>5. ASSUME NEW e \in Ends, SenderWrites(e) PROVE Numbered' /\ Simulates
  BY <1>5, WriteMoves
<1>6. ASSUME NEW e \in Ends, SenderWriteFails(e) PROVE Numbered' /\ Simulates
  BY <1>e, <1>t, <1>6, Loses DEF SenderWriteFails, SenderAt, SenderFails, SetState, Unlock,
     postVars, queueVars, pipeVars
<1>7. ASSUME NEW e \in Ends, SenderPops(e) PROVE Numbered' /\ Simulates
  BY <1>7, PopMoves
<1>8. ASSUME NEW e \in Ends, ReceiverStops(e) PROVE Numbered' /\ Simulates
  BY <1>e, <1>t, <1>8, Loses DEF ReceiverStops, ReceiverAt, connVars, postVars, queueVars,
     pipeVars
<1>9. ASSUME NEW e \in Ends, ReceiverChecks(e) PROVE Numbered' /\ Simulates
  BY <1>e, <1>t, <1>9, Loses DEF ReceiverChecks, ReceiverAt, ReceiverFails, SetState, postVars,
     queueVars, pipeVars
<1>10. ASSUME NEW e \in Ends, ReceiverLocks(e) PROVE Numbered' /\ Simulates
  BY <1>e, <1>t, <1>10, Loses DEF ReceiverLocks, ReceiverAt, ReceiverFails, SetState, Lock,
     postVars, queueVars, pipeVars
<1>11. ASSUME NEW e \in Ends, ReceiverReads(e) PROVE Numbered' /\ Simulates
  BY <1>11, ReadMoves
<1>12. ASSUME NEW e \in Ends, ReceiverReadFails(e) PROVE Numbered' /\ Simulates
  BY <1>e, <1>t, <1>12, Loses DEF ReceiverReadFails, ReceiverAt, ReceiverFails, SetState,
     Unlock, postVars, queueVars, pipeVars
<1>13. ASSUME NEW e \in Ends, ReceiverProcesses(e) PROVE Numbered' /\ Simulates
  BY <1>13, Processes
<1>14. ASSUME NEW e \in Ends, ManagerLoops(e) PROVE Numbered' /\ Simulates
  BY <1>e, <1>t, <1>14, Loses DEF ManagerLoops, ManagerAt, postVars, queueVars, pipeVars
<1>15. ASSUME NEW e \in Ends, StopSender(e) PROVE Numbered' /\ Simulates
  <2>1. /\ UNCHANGED <<pushed, processed, receiver, got, pipe, m_SendQueue>>
        /\ sender' = [sender EXCEPT ![e] = "none"]
        /\ sender[e] \in {"none", "exited"} \/ SenderOverdue(e)
    BY <1>15 DEF StopSender, ManagerAt, Abandon, postVars, queueVars, pipeVars
  <2>2. sender[e] # "pop"
    BY <2>1 DEF SenderOverdue, SenderStuck, IInv, ThreadsOK
  <2> QED BY <1>t, <2>1, <2>2, Loses
<1>16. ASSUME NEW e \in Ends, StopReceiver(e) PROVE Numbered' /\ Simulates
  BY <1>e, <1>t, <1>16, Loses DEF StopReceiver, ManagerAt, Abandon, postVars, queueVars,
     pipeVars
<1>17. ASSUME NEW e \in Ends, ManagerCleansUp(e) PROVE Numbered' /\ Simulates
  <2>1. \A g \in Ends : pipe'[g] = pipe[g] \/ pipe'[g] = <<>>
    BY <1>17, Closed DEF ManagerCleansUp, IInv, Ends, ManagerAt, SetState, Reset, postVars
  <2>2. UNCHANGED <<pushed, processed>>
    BY <1>17 DEF ManagerCleansUp, ManagerAt, SetState, Reset, postVars
  <2>3. \A g \in Ends : receiver'[g] = "process" => receiver[g] = "process" /\ got'[g] = got[g]
    BY <1>17, <1>t DEF ManagerCleansUp, ManagerAt, SetState, Reset, postVars
  <2>4. \A g \in Ends : \/ m_SendQueue'[g] = <<>>
                        \/ m_SendQueue'[g] = m_SendQueue[g] /\ sender'[g] = sender[g]
    BY <1>17, <1>t DEF ManagerCleansUp, ManagerAt, SetState, Reset, postVars
  <2> QED BY <2>1, <2>2, <2>3, <2>4, Loses
<1>18. ASSUME NEW e \in Ends, ManagerConnected(e) PROVE Numbered' /\ Simulates
  BY <1>e, <1>t, <1>18, Loses DEF ManagerConnected, ManagerAt, SetState, threadVars, postVars,
     queueVars, pipeVars
<1>19. ASSUME NEW e \in Ends, ConnectFails(e) PROVE Numbered' /\ Simulates
  BY <1>e, <1>t, <1>19, Loses DEF ConnectFails, ManagerAt, SetState, InitializeFails, postVars,
     queueVars, pipeVars
<1>20. ASSUME NEW e \in Ends, UserPushes(e) PROVE Numbered' /\ Simulates
  <2>1. pushed[e] + 1 \in Nat /\ pushed[e] + 1 > pushed[e]
    BY <1>e, <1>t
  <2>2. PICK len \in Lengths :
          m_SendQueue' = [m_SendQueue EXCEPT ![e] = Append(@, [num |-> pushed[e] + 1, len |-> len])]
    BY <1>20 DEF UserPushes, Push, connVars, threadVars, postVars, pipeVars
  <2>3. pushed' = [pushed EXCEPT ![e] = pushed[e] + 1]
    BY <1>20 DEF UserPushes, Push, connVars, threadVars, postVars, pipeVars
  <2>4. UNCHANGED <<sender, receiver, got, pipe, processed>>
    BY <1>20 DEF UserPushes, Push, connVars, threadVars, postVars, pipeVars
  <2> QED BY <1>e, <2>1, <2>2, <2>3, <2>4, Accepts
<1>21. ASSUME NEW e \in Ends, UserReleases(e) PROVE Numbered' /\ Simulates
  BY <1>e, <1>t, <1>21, Loses DEF UserReleases, Release, connVars, threadVars, postVars,
     pipeVars
<1>22. ASSUME NEW e \in Ends, UserPosts(e) PROVE Numbered' /\ Simulates
  BY <1>e, <1>t, <1>22, Loses DEF UserPosts, connVars, threadVars, postVars, queueVars,
     pipeVars
<1>23. ASSUME NEW e \in Ends, Create(e) PROVE Numbered' /\ Simulates
  BY <1>e, <1>t, <1>23, Loses DEF Create, threadVars, postVars, queueVars, pipeVars
<1>24. ASSUME NEW e \in Ends, Destroy(e) PROVE Numbered' /\ Simulates
  BY <1>e, <1>t, <1>24, Loses DEF Destroy, postVars, queueVars, pipeVars
<1>25. ASSUME NEW e \in Ends, Die(e) PROVE Numbered' /\ Simulates
  <2>1. \A g \in Ends : pipe'[g] = pipe[g] \/ pipe'[g] = <<>>
    BY <1>25, Closed DEF Die, IInv, Ends, SetState, Reset
  <2>2. UNCHANGED <<pushed, processed>>
    BY <1>25 DEF Die, SetState, Reset
  <2>3. \A g \in Ends : receiver'[g] = "process" => receiver[g] = "process" /\ got'[g] = got[g]
    BY <1>25, <1>t DEF Die, SetState, Reset
  <2>4. \A g \in Ends : \/ m_SendQueue'[g] = <<>>
                        \/ m_SendQueue'[g] = m_SendQueue[g] /\ sender'[g] = sender[g]
    BY <1>25, <1>t DEF Die, SetState, Reset
  <2> QED BY <2>1, <2>2, <2>3, <2>4, Loses
<1>26. ASSUME AnswerPushes PROVE Numbered' /\ Simulates
  <2>1. pushed["gogoc"] + 1 \in Nat /\ pushed["gogoc"] + 1 > pushed["gogoc"]
    BY <1>e, <1>t
  <2>2. PICK len \in Lengths :
          m_SendQueue' = [m_SendQueue EXCEPT !["gogoc"] = Append(@, [num |-> pushed["gogoc"] + 1, len |-> len])]
    BY <1>26 DEF AnswerPushes, Push, connVars, threadVars, postVars, pipeVars
  <2>3. pushed' = [pushed EXCEPT !["gogoc"] = pushed["gogoc"] + 1]
    BY <1>26 DEF AnswerPushes, Push, connVars, threadVars, postVars, pipeVars
  <2>4. UNCHANGED <<sender, receiver, got, pipe, processed>>
    BY <1>26 DEF AnswerPushes, Push, connVars, threadVars, postVars, pipeVars
  <2> QED BY <1>e, <2>1, <2>2, <2>3, <2>4, Accepts
<1>27. ASSUME AnswerReleases PROVE Numbered' /\ Simulates
  BY <1>e, <1>t, <1>27, Loses DEF AnswerReleases, Release, connVars, pipeVars
<1>28. ASSUME ServerCreates PROVE Numbered' /\ Simulates
  BY <1>e, <1>t, <1>28, Loses DEF ServerCreates, ManagerAt, threadVars, postVars, queueVars,
     pipeVars
<1>29. ASSUME ServerAccepts PROVE Numbered' /\ Simulates
  <2>1. /\ UNCHANGED <<pushed, processed, got, pipe, m_SendQueue>> /\ manager["gogoc"] = "accept"
        /\ \/ UNCHANGED <<sender, receiver>>
           \/ /\ sender' = [sender EXCEPT !["gogoc"] = "wait"]
              /\ receiver' = [receiver EXCEPT !["gogoc"] = "check"]
    BY <1>29 DEF ServerAccepts, ManagerAt, SetState, InitializeSucceeds, InitializeFails,
       postVars, queueVars, pipeVars
  <2>2. sender["gogoc"] = "none"
    BY <1>e, <2>1 DEF IInv, ThreadsOK
  <2>3. /\ \A e \in Ends : receiver'[e] = "process" => receiver[e] = "process"
        /\ \A e \in Ends : sender[e] = "pop" => sender'[e] = "pop"
    BY <1>t, <2>1, <2>2
  <2> QED BY <2>1, <2>3, Loses
<1>30. ASSUME ClientConnects PROVE Numbered' /\ Simulates
  <2>1. /\ UNCHANGED <<pushed, processed, got, pipe, m_SendQueue>> /\ manager["gui"] = "connect"
        /\ \/ UNCHANGED <<sender, receiver>>
           \/ /\ sender' = [sender EXCEPT !["gui"] = "wait"]
              /\ receiver' = [receiver EXCEPT !["gui"] = "check"]
    BY <1>30 DEF ClientConnects, ManagerAt, InitializeSucceeds, postVars, queueVars, pipeVars
  <2>2. sender["gui"] = "none"
    BY <1>e, <2>1 DEF IInv, ThreadsOK
  <2>3. /\ \A e \in Ends : receiver'[e] = "process" => receiver[e] = "process"
        /\ \A e \in Ends : sender[e] = "pop" => sender'[e] = "pop"
    BY <1>t, <2>1, <2>2
  <2> QED BY <2>1, <2>3, Loses
<1>31. ASSUME RacingPush PROVE Numbered' /\ Simulates
  <2>1. pushed["gogoc"] + 2 \in Nat /\ pushed["gogoc"] + 2 > pushed["gogoc"]
    BY <1>e, <1>t
  <2>2. PICK len \in Lengths :
          m_SendQueue' = [m_SendQueue EXCEPT !["gogoc"] = Append(@, [num |-> pushed["gogoc"] + 2, len |-> len])]
    BY <1>31 DEF RacingPush, connVars, threadVars, postVars, pipeVars
  <2>3. pushed' = [pushed EXCEPT !["gogoc"] = pushed["gogoc"] + 2]
    BY <1>31 DEF RacingPush, connVars, threadVars, postVars, pipeVars
  <2>4. UNCHANGED <<sender, receiver, got, pipe, processed>>
    BY <1>31 DEF RacingPush, connVars, threadVars, postVars, pipeVars
  <2> QED BY <1>e, <2>1, <2>2, <2>3, <2>4, Accepts
<1> QED BY <1>e, <1>1, <1>2, <1>3, <1>4, <1>5, <1>6, <1>7, <1>8, <1>9, <1>10, <1>11, <1>12,
           <1>13, <1>14, <1>15, <1>16, <1>17, <1>18, <1>19, <1>20, <1>21, <1>22, <1>23, <1>24,
           <1>25, <1>26, <1>27, <1>28, <1>29, <1>30, <1>31 DEF Next, SenderStep, ReceiverStep,
           ManagerStep, UserStep

\* Nothing is under way at first.
LEMMA InitNumbered == Init => Numbered /\ Channel!ChannelInit
<1> SUFFICES ASSUME Init PROVE Numbered /\ Channel!ChannelInit
  OBVIOUS
<1>1. \A e \in Ends : /\ pipe[e] = <<>> /\ m_SendQueue[e] = <<>> /\ processed[e] = 0
                      /\ receiver[e] = "none" /\ pushed[e] = 0 /\ Peer(e) \in Ends
  BY Peers DEF Init
<1>2. \A e \in Ends : BeingProcessed(e) = {} /\ InPipe(e) = {} /\ Unsent(e) = {}
  BY <1>1 DEF BeingProcessed, InPipe, Unsent
<1>3. \A e \in Ends : Underway(e) = {}
  BY <1>1, <1>2 DEF Underway
<1>4. \A e \in Ends : Rising(e)
  BY <1>1, <1>2, <1>3 DEF Rising
<1>5. processed = [e \in Ends |-> 0]
  BY DEF Init
<1>6. Channel!ChannelInit
  BY <1>1, <1>3, <1>5 DEF Channel!ChannelInit
<1> QED BY <1>4, <1>5, <1>6 DEF Numbered

\* Every step, and what changes nothing.
LEMMA NumberedStep == IInv /\ Numbered /\ [Next]_vars => Numbered' /\ Simulates
<1>1. ASSUME Numbered, UNCHANGED vars PROVE Numbered' /\ Simulates
  <2>1. UNCHANGED <<receiver, got, pipe, sender, m_SendQueue, pushed, processed>>
    BY <1>1 DEF vars, threadVars, postVars, queueVars, pipeVars
  <2> QED BY <1>1, <2>1, Loses
<1> QED BY <1>1, SimulationStep

\* Messages are on their way in the order of their numbers.
LEMMA NumberedInvariant == Spec => []Numbered
<1>1. IInv /\ Numbered /\ [Next]_vars => Numbered'
  BY NumberedStep
<1> QED BY <1>1, InitNumbered, Invariance, PTL DEF Spec

\* The messaging library implements MsgChannel: whatever is fragmented, interrupted,
\* terminated or restarted, a message is processed at most once, whole, and in the order in
\* which the messages were pushed.  The initial state is MsgChannel's, and every step is a
\* step of MsgChannel or changes nothing there.
THEOREM ChannelKeptCorrect == Spec => ChannelKept
<1>1. Spec => []Numbered
  BY NumberedInvariant
<1>2. Spec => [][Channel!ChannelNext]_(Channel!channelVars)
  <2>1. IInv /\ Numbered /\ [Next]_vars => [Channel!ChannelNext]_(Channel!channelVars)
    BY NumberedStep DEF Simulates
  <2> QED BY <2>1, <1>1, Invariance, PTL DEF Spec
<1> QED BY InitNumbered, <1>2, PTL DEF Spec, ChannelKept, Channel!ChannelSpec

\* At most once and in order: each message that an end processes was pushed after every
\* one that it processed before.
ProcessedInOrder == \A e \in Ends : ReceiverProcesses(e) => processed'[e] > processed[e]

\* The same of the code's own step, MessageProcessor::ProcessMessage, for ever.
THEOREM ProcessedRises == Spec => [][ProcessedInOrder]_vars
<1>1. IInv /\ Numbered /\ [Next]_vars => [ProcessedInOrder]_vars
  <2> SUFFICES ASSUME Numbered, NEW e \in Ends, ReceiverProcesses(e)
               PROVE  processed'[e] > processed[e]
    BY DEF ProcessedInOrder
  <2>1. /\ receiver[e] = "process" /\ processed' = [processed EXCEPT ![e] = Last(got[e]).num]
        /\ processed \in [Ends -> Nat]
    BY DEF ReceiverProcesses, ReceiverAt, Numbered
  <2>2. processed'[e] \in Underway(e)
    BY <2>1 DEF Underway, BeingProcessed
  <2> QED BY <2>2 DEF Numbered, Rising
<1> QED BY <1>1, NumberedInvariant, Invariance, PTL DEF Spec

-----------------------------------------------------------------------------
(* The contents of messages (MsgCodec): what a translator reads in the bytes that the *)
(* sender of the same structure wrote.                                      *)

Bytes   == 0 .. 255
Letters == 1 .. 255
Texts   == Seq(Letters) \cup {NULL}

\* s is found in the data behind the first off bytes.
At(data, off, s) ==
  /\ off \in Nat /\ off + Len(s) <= Len(data)
  /\ \A k \in 1 .. Len(s) : data[off + k] = s[k]

LEMMA LeastNumber ==
  ASSUME NEW T, T \subseteq Nat, T # {}
  PROVE  \E x \in T : \A y \in T : x <= y
<1> DEFINE R == OpToRel(<, Nat)
<1>1. IsWellFoundedOn(R, Nat)
  BY NatLessThanWellFounded, Zenon
<1>2. \E x \in T : \A y \in T : ~ (<<y, x>> \in R)
  <2> HIDE DEF R
  <2> QED BY <1>1, WFMin, Zenon
<1>3. \A x, y \in Nat : ~(<<y, x>> \in R) => x <= y
  BY DEF OpToRel
<1> QED BY <1>2, <1>3

\* A part of a part is a part.
LEMMA AtWithin ==
  ASSUME NEW S, NEW data \in Seq(S), NEW s \in Seq(S), NEW t \in Seq(S), NEW a, NEW b,
         At(data, a, s), At(s, b, t)
  PROVE  At(data, a + b, t)
<1>1. /\ a \in Nat /\ b \in Nat /\ Len(s) \in Nat /\ Len(t) \in Nat /\ Len(data) \in Nat
      /\ a + Len(s) <= Len(data) /\ b + Len(t) <= Len(s)
  BY DEF At
<1>2. ASSUME NEW k \in 1 .. Len(t) PROVE data[a + b + k] = t[k]
  <2>1. b + k \in 1 .. Len(s) /\ a + (b + k) = a + b + k
    BY <1>1
  <2>2. data[a + (b + k)] = s[b + k]
    BY <2>1 DEF At
  <2>3. s[b + k] = t[k]
    BY DEF At
  <2> QED BY <2>1, <2>2, <2>3
<1> QED BY <1>1, <1>2 DEF At

LEMMA AtJoined ==
  ASSUME NEW S, NEW s \in Seq(S), NEW t \in Seq(S)
  PROVE  s \o t \in Seq(S) /\ At(s \o t, 0, s) /\ At(s \o t, Len(s), t)
<1>1. /\ s \o t \in Seq(S) /\ Len(s) \in Nat /\ Len(t) \in Nat /\ Len(s \o t) = Len(s) + Len(t)
      /\ \A k \in 1 .. Len(s) : (s \o t)[k] = s[k]
      /\ \A k \in 1 .. Len(t) : (s \o t)[Len(s) + k] = t[k]
  OBVIOUS
<1> QED BY <1>1 DEF At

\* The recursive function of FlattenSeq(), up to the m-th sequence.
Flattens(f, s, m) == f = [i \in 1 .. m |-> IF i = 1 THEN s[i] ELSE f[i - 1] \o s[i]]

LEMMA FlattensExists ==
  ASSUME NEW s
  PROVE  \A m \in Nat : \E f : Flattens(f, s, m)
<1> DEFINE T == {m \in Nat : ~\E f : Flattens(f, s, m)}
<1> SUFFICES ASSUME T # {} PROVE FALSE
  OBVIOUS
<1>1. PICK m \in T : \A y \in T : m <= y
  BY LeastNumber
<1>2. m \in Nat /\ ~\E f : Flattens(f, s, m)
  OBVIOUS
<1>3. CASE m = 0
  <2> DEFINE f == [i \in 1 .. 0 |-> <<>>]
  <2>1. Flattens(f, s, m)
    BY <1>3 DEF Flattens
  <2> QED BY <1>2, <2>1
<1>4. CASE m # 0
  <2>1. m - 1 \in Nat /\ ~(m <= m - 1)
    BY <1>2, <1>4
  <2>2. m - 1 \notin T
    BY <1>1, <2>1
  <2>3. PICK f : Flattens(f, s, m - 1)
    BY <2>1, <2>2
  <2> HIDE DEF T
  <2> DEFINE g == [i \in 1 .. m |-> IF i = m THEN IF m = 1 THEN s[m] ELSE f[m - 1] \o s[m] ELSE f[i]]
  <2>4. ASSUME NEW i \in 1 .. m
        PROVE  g[i] = IF i = 1 THEN s[i] ELSE g[i - 1] \o s[i]
    <3>1. CASE i = m
      <4>1. m # 1 => g[m - 1] = f[m - 1]
        BY <1>2, <1>4
      <4> QED BY <3>1, <4>1
    <3>2. CASE i # m
      <4>1. i \in 1 .. m - 1
        BY <1>2, <3>2
      <4>2. f[i] = IF i = 1 THEN s[i] ELSE f[i - 1] \o s[i]
        BY <2>3, <4>1 DEF Flattens
      <4>3. i # 1 => i - 1 \in 1 .. m /\ i - 1 # m
        BY <1>2, <4>1
      <4>4. i # 1 => g[i - 1] = f[i - 1]
        BY <4>3
      <4>5. g[i] = f[i]
        BY <3>2
      <4> HIDE DEF g
      <4> QED BY <4>2, <4>4, <4>5
    <3> QED BY <3>1, <3>2
  <2>5. Flattens(g, s, m)
    <3>1. g = [i \in 1 .. m |-> g[i]]
      OBVIOUS
    <3> QED BY <2>4, <3>1 DEF Flattens
  <2> QED BY <1>2, <2>5
<1> QED BY <1>3, <1>4

LEMMA FlattenTrace ==
  ASSUME NEW s, Len(s) \in Nat \ {0}
  PROVE  \E f : /\ f[1] = s[1] /\ FlattenSeq(s) = f[Len(s)]
                /\ \A i \in 2 .. Len(s) : f[i] = f[i - 1] \o s[i]
<1> DEFINE f == CHOOSE flatten : flatten = [i \in 1 .. Len(s) |-> IF i = 1 THEN s[i] ELSE flatten[i - 1] \o s[i]]
<1>1. Flattens(f, s, Len(s))
  <2>1. \E g : g = [i \in 1 .. Len(s) |-> IF i = 1 THEN s[i] ELSE g[i - 1] \o s[i]]
    BY FlattensExists DEF Flattens
  <2> QED BY <2>1 DEF Flattens
<1>2. FlattenSeq(s) = f[Len(s)]
  BY DEF FlattenSeq
<1> HIDE DEF f
<1>3. \A i \in 1 .. Len(s) : f[i] = IF i = 1 THEN s[i] ELSE f[i - 1] \o s[i]
  BY <1>1 DEF Flattens
<1>4. 1 \in 1 .. Len(s) /\ \A i \in 2 .. Len(s) : i \in 1 .. Len(s) /\ i # 1
  OBVIOUS
<1>5. f[1] = s[1]
  BY <1>3, <1>4
<1>6. \A i \in 2 .. Len(s) : f[i] = f[i - 1] \o s[i]
  BY <1>3, <1>4, Zenon
<1> QED BY <1>2, <1>5, <1>6

\* The first m sequences of s follow each other in the data, which they fill.
Parts(ends, s, m, data) ==
  /\ ends \in [0 .. m -> Nat] /\ ends[0] = 0 /\ ends[m] = Len(data)
  /\ \A i \in 1 .. m : ends[i] = ends[i - 1] + Len(s[i]) /\ At(data, ends[i - 1], s[i])

LEMMA PartAppended ==
  ASSUME NEW S, NEW s, NEW m \in Nat \ {0}, s[m] \in Seq(S), NEW data \in Seq(S),
         \A i \in 1 .. m : s[i] \in Seq(S),
         NEW ends, Parts(ends, s, m - 1, data)
  PROVE  \E e : Parts(e, s, m, data \o s[m])
<1> DEFINE e == [i \in 0 .. m |-> IF i = m THEN Len(data) + Len(s[m]) ELSE ends[i]]
           all == data \o s[m]
<1>1. /\ all \in Seq(S) /\ At(all, 0, data) /\ At(all, Len(data), s[m])
      /\ Len(data) \in Nat /\ Len(s[m]) \in Nat /\ Len(all) = Len(data) + Len(s[m])
  BY AtJoined
<1> HIDE DEF all
<1>2. /\ ends \in [0 .. (m - 1) -> Nat] /\ ends[0] = 0 /\ ends[m - 1] = Len(data)
      /\ \A i \in 1 .. (m - 1) : ends[i] = ends[i - 1] + Len(s[i]) /\ At(data, ends[i - 1], s[i])
  BY DEF Parts
<1>3. /\ \A i \in 0 .. m : i # m => i \in 0 .. (m - 1) /\ e[i] = ends[i]
      /\ m \in 0 .. m /\ 0 \in 0 .. m /\ m # 0 /\ e[m] = Len(data) + Len(s[m])
  OBVIOUS
<1>4. e \in [0 .. m -> Nat] /\ e[0] = 0 /\ e[m] = Len(all)
  BY <1>1, <1>2, <1>3
<1>5. ASSUME NEW i \in 1 .. m
      PROVE  e[i] = e[i - 1] + Len(s[i]) /\ At(all, e[i - 1], s[i])
  <2>1. i - 1 \in 0 .. m /\ i - 1 # m /\ e[i - 1] = ends[i - 1]
    BY <1>3
  <2>2. CASE i = m
    BY <1>1, <1>2, <1>3, <2>1, <2>2
  <2>3. CASE i # m
    <3>1. i \in 1 .. (m - 1) /\ i \in 0 .. m
      BY <2>3
    <3>2. e[i] = ends[i]
      BY <1>3, <2>3, <3>1
    <3>3. At(data, ends[i - 1], s[i]) /\ ends[i] = ends[i - 1] + Len(s[i]) /\ s[i] \in Seq(S)
      BY <1>2, <3>1
    <3>4. At(all, 0 + ends[i - 1], s[i])
      BY <1>1, <3>3, AtWithin
    <3>5. 0 + ends[i - 1] = ends[i - 1]
      BY <3>3 DEF At
    <3> QED BY <2>1, <3>2, <3>3, <3>4, <3>5
  <2> QED BY <2>2, <2>3
<1> HIDE DEF e
<1>6. Parts(e, s, m, all)
  BY <1>4, <1>5 DEF Parts
<1> QED BY <1>6 DEF all

\* The bytes of a flattened sequence are those of its parts, one after the other.
LEMMA Flattened ==
  ASSUME NEW S, NEW s \in Seq(Seq(S))
  PROVE  FlattenSeq(s) \in Seq(S) /\ \E ends : Parts(ends, s, Len(s), FlattenSeq(s))
<1>0. Len(s) \in Nat /\ \A i \in 1 .. Len(s) : s[i] \in Seq(S)
  OBVIOUS
<1>1. CASE Len(s) = 0
  <2>1. FlattenSeq(s) = s /\ s = <<>>
    BY <1>1 DEF FlattenSeq
  <2> DEFINE ends == [i \in 0 .. 0 |-> 0]
  <2>2. Parts(ends, s, 0, <<>>)
    BY DEF Parts
  <2> QED BY <1>1, <2>1, <2>2
<1>2. CASE Len(s) # 0
  <2>1. PICK f : /\ f[1] = s[1] /\ FlattenSeq(s) = f[Len(s)]
                 /\ \A i \in 2 .. Len(s) : f[i] = f[i - 1] \o s[i]
    BY <1>0, <1>2, FlattenTrace
  <2> DEFINE Split(m) == f[m] \in Seq(S) /\ \E ends : Parts(ends, s, m, f[m])
             T == {m \in Nat : m \in 1 .. Len(s) /\ ~Split(m)}
  <2>2. SUFFICES ASSUME T # {} PROVE FALSE
    <3>1. Len(s) \in Nat /\ Len(s) \in 1 .. Len(s)
      BY <1>0, <1>2
    <3>2. T = {} => Split(Len(s))
      BY <3>1
    <3> QED BY <2>1, <3>2
  <2>3. PICK m \in T : \A y \in T : m <= y
    <3>1. T \subseteq Nat
      OBVIOUS
    <3> HIDE DEF T
    <3> QED BY <2>2, <3>1, LeastNumber
  <2>4. m \in Nat /\ m \in 1 .. Len(s) /\ ~Split(m) /\ s[m] \in Seq(S)
    BY <1>0
  <2>5. CASE m = 1
    <3> DEFINE none == [i \in 0 .. 0 |-> 0]
    <3>1. Parts(none, s, m - 1, <<>>)
      BY <2>5 DEF Parts
    <3>2. \E e : Parts(e, s, m, <<>> \o s[m])
      <4>1. <<>> \in Seq(S) /\ m \in Nat \ {0} /\ \A i \in 1 .. m : s[i] \in Seq(S)
        BY <1>0, <2>4
      <4> HIDE DEF none
      <4> QED BY <2>4, <3>1, <4>1, PartAppended
    <3>3. <<>> \o s[m] = s[m] /\ f[m] = s[m]
      BY <2>1, <2>4, <2>5
    <3> QED BY <2>4, <3>2, <3>3
  <2>6. CASE m # 1
    <3>1. m \in 2 .. Len(s) /\ m - 1 \in Nat /\ m - 1 \in 1 .. Len(s) /\ ~(m <= m - 1) /\ m \in Nat \ {0}
      BY <1>0, <2>4, <2>6
    <3>2. Split(m - 1)
      BY <2>3, <3>1
    <3>3. PICK ends : Parts(ends, s, m - 1, f[m - 1])
      BY <3>2
    <3>4. f[m - 1] \in Seq(S) /\ f[m] = f[m - 1] \o s[m]
      BY <2>1, <3>1, <3>2
    <3>5. \A i \in 1 .. m : s[i] \in Seq(S)
      BY <1>0, <2>4
    <3>6. \E e : Parts(e, s, m, f[m - 1] \o s[m])
      <4> HIDE DEF Split
      <4> QED BY <2>4, <3>1, <3>3, <3>4, <3>5, PartAppended
    <3>7. f[m] \in Seq(S)
      BY <2>4, <3>4
    <3> QED BY <2>4, <3>4, <3>6, <3>7
  <2> QED BY <2>5, <2>6
<1> QED BY <1>1, <1>2

-----------------------------------------------------------------------------
(* A field is read as it was written.                                       *)

Names ==
  TunnelStrings \cup {"eTunnelType", "tunnelUpTime", "eStatus", "nStatus", "szAddress", "nDistance",
    "haccess_proxy_status", "haccess_web_status", "haccess_devmapmod_status", "device_name", "mapping_status",
    "haccess_doc_root", "haccess_proxy_enabled", "haccess_web_enabled", "haccess_devmap_changed"}
Fields == [name : Names, type : {"string", "int", "short"}]

Typed(field, struct) ==
  IF field.type = "string" THEN struct[field.name] \in Texts ELSE struct[field.name] \in Bytes

\* What is read of it.
Value(field, struct) ==
  IF field.type = "string" THEN Received(struct[field.name]) ELSE struct[field.name]

LEMMA TextBytes == \A s \in Seq(Letters) : s \in Seq(Bytes)
<1>1. Letters \subseteq Bytes
  BY DEF Letters, Bytes
<1> SUFFICES ASSUME NEW s \in Seq(Letters) PROVE s \in Seq(Bytes)
  OBVIOUS
<1>2. Len(s) \in Nat /\ s \in [1 .. Len(s) -> Letters]
  OBVIOUS
<1>3. s \in [1 .. Len(s) -> Bytes]
  BY <1>1, <1>2
<1> QED BY <1>2, <1>3

LEMMA StringWritten ==
  ASSUME NEW s \in Texts
  PROVE  /\ Received(s) \in Seq(Letters) /\ PutString(s) = Append(Received(s), 0)
         /\ PutString(s) \in Seq(Bytes) /\ Len(PutString(s)) = Len(Received(s)) + 1
<1>1. Received(s) \in Seq(Letters)
  BY DEF Texts, Received
<1>2. PutString(s) = Append(Received(s), 0)
  <2>1. <<0>> = Append(<<>>, 0)
    OBVIOUS
  <2> QED BY <2>1 DEF PutString, Received
<1>3. Received(s) \in Seq(Bytes) /\ 0 \in Bytes
  BY <1>1, TextBytes DEF Bytes
<1> HIDE DEF Received, PutString
<1> QED BY <1>1, <1>2, <1>3

LEMMA StringRead ==
  ASSUME NEW data \in Seq(Bytes), NEW off, NEW s \in Texts, At(data, off, PutString(s))
  PROVE  StrLen(data, off) = Len(Received(s)) /\ GetString(data, off) = Received(s)
<1> DEFINE r == Received(s)
           n == Len(r)
<1>1. r \in Seq(Letters) /\ PutString(s) = Append(r, 0) /\ Len(PutString(s)) = n + 1 /\ n \in Nat
  BY StringWritten
<1> HIDE DEF r
<1>2. /\ off \in Nat /\ Len(data) \in Nat /\ off + n + 1 <= Len(data)
      /\ \A k \in 1 .. n : data[off + k] = r[k] /\ r[k] \in Letters
      /\ data[off + n + 1] = 0
  <2>1. off \in Nat /\ off + (n + 1) <= Len(data)
    BY <1>1 DEF At
  <2>2. \A k \in 1 .. n + 1 : data[off + k] = Append(r, 0)[k]
    BY <1>1 DEF At
  <2>3. \A k \in 1 .. n : k \in 1 .. n + 1 /\ Append(r, 0)[k] = r[k] /\ r[k] \in Letters
    <3>1. r \in Seq(Bytes) /\ 0 \in Bytes
      BY <1>1, TextBytes DEF Bytes
    <3>2. \A k \in 1 .. n : k \in 1 .. n + 1 /\ Append(r, 0)[k] = r[k]
      BY <3>1
    <3>3. \A k \in 1 .. n : r[k] \in Letters
      BY <1>1
    <3> QED BY <3>2, <3>3
  <2>4. n + 1 \in 1 .. n + 1 /\ Append(r, 0)[n + 1] = 0 /\ off + (n + 1) = off + n + 1
    BY <1>1, <2>1
  <2> HIDE DEF n
  <2> QED BY <1>1, <2>1, <2>2, <2>3, <2>4
<1> HIDE DEF n
<1>3. \A k \in 1 .. n : ByteAt(data, off + k) \notin {0, Garbage}
  <2> SUFFICES ASSUME NEW k \in 1 .. n PROVE ByteAt(data, off + k) \notin {0, Garbage}
    OBVIOUS
  <2>1. data[off + k] \in Letters
    BY <1>2
  <2>2. off + k \in 1 .. Len(data)
    BY <1>1, <1>2
  <2>3. ByteAt(data, off + k) = data[off + k]
    BY <2>2 DEF ByteAt
  <2>4. \A x \in Letters : x \notin {0, Garbage}
    BY DEF Letters, Garbage
  <2> QED BY <2>1, <2>3, <2>4
<1>4. ByteAt(data, off + n + 1) = 0
  <2>1. off + n + 1 \in DOMAIN data
    BY <1>1, <1>2
  <2> QED BY <1>2, <2>1 DEF ByteAt
<1>5. \A m \in 0 .. Len(data) :
        /\ ByteAt(data, off + m + 1) \in {0, Garbage}
        /\ \A k \in 1 .. m : ByteAt(data, off + k) \notin {0, Garbage}
        => m = n
  <2> SUFFICES ASSUME NEW m \in 0 .. Len(data), ByteAt(data, off + m + 1) \in {0, Garbage},
                      \A k \in 1 .. m : ByteAt(data, off + k) \notin {0, Garbage}
               PROVE  m = n
    OBVIOUS
  <2>1. CASE m < n
    <3>1. m + 1 \in 1 .. n /\ off + (m + 1) = off + m + 1
      BY <1>1, <1>2, <2>1
    <3> QED BY <1>3, <3>1
  <2>2. CASE n < m
    <3>1. n + 1 \in 1 .. m /\ off + (n + 1) = off + n + 1
      BY <1>1, <1>2, <2>2
    <3> QED BY <1>4, <3>1
  <2> QED BY <1>1, <1>2, <2>1, <2>2
<1>6. n \in 0 .. Len(data)
  BY <1>1, <1>2
<1>7. StrLen(data, off) = n
  BY <1>3, <1>4, <1>5, <1>6 DEF StrLen
<1>8. SubSeq(data, off + 1, off + n) = r
  <2>1. /\ off + n <= Len(data) /\ off \in Nat /\ n \in Nat
        /\ off + n - (off + 1) + 1 = n
    BY <1>1, <1>2
  <2> DEFINE t == SubSeq(data, off + 1, off + n)
  <2>2. t \in Seq(Bytes) /\ Len(t) = n /\ \A k \in 1 .. n : t[k] = data[off + k]
    BY <1>1, <1>2, <2>1
  <2> HIDE DEF t
  <2>3. t = r
    <3>1. t \in [1 .. n -> Bytes] /\ r \in [1 .. n -> Letters]
      <4>1. t \in [1 .. Len(t) -> Bytes]
        BY <2>2
      <4>2. r \in [1 .. Len(r) -> Letters]
        BY <1>1
      <4> QED BY <2>2, <4>1, <4>2 DEF n
    <3>2. t = [k \in 1 .. n |-> t[k]] /\ r = [k \in 1 .. n |-> r[k]]
      BY <3>1, Zenon
    <3>3. \A k \in 1 .. n : t[k] = r[k]
      BY <1>2, <2>2
    <3> QED BY <3>2, <3>3
  <2> QED BY <2>3 DEF t
<1> QED BY <1>7, <1>8 DEF GetString, r, n

LEMMA NumberWritten ==
  ASSUME NEW v \in Bytes, NEW type \in {"int", "short"}
  PROVE  /\ PutNumber(v, type) \in Seq(Bytes) /\ Len(PutNumber(v, type)) = Size[type]
         /\ PutNumber(v, type)[1] = v /\ Size[type] \in Nat \ {0}
<1>1. Size[type] \in Nat \ {0}
  BY DEF Size
<1>2. 0 \in Bytes
  BY DEF Bytes
<1> HIDE DEF Size
<1> QED BY <1>1, <1>2 DEF PutNumber

LEMMA NumberRead ==
  ASSUME NEW data \in Seq(Bytes), NEW off, NEW v \in Bytes, NEW type \in {"int", "short"},
         At(data, off, PutNumber(v, type))
  PROVE  GetNumber(data, off) = v
<1>1. Len(PutNumber(v, type)) \in Nat \ {0} /\ PutNumber(v, type)[1] = v
  BY NumberWritten
<1> HIDE DEF PutNumber
<1>2. /\ off \in Nat /\ Len(data) \in Nat /\ off + 1 <= Len(data) /\ data[off + 1] = v
  BY <1>1 DEF At
<1>3. off + 1 \in DOMAIN data
  BY <1>2
<1> QED BY <1>2, <1>3 DEF GetNumber, ByteAt

LEMMA FieldWritten ==
  ASSUME NEW field \in Fields, NEW struct, Typed(field, struct)
  PROVE  /\ Put(field, struct) \in Seq(Bytes)
         /\ Len(Put(field, struct)) = (IF field.type = "string" THEN Len(Value(field, struct)) + 1
                                       ELSE Size[field.type])
<1>1. CASE field.type = "string"
  BY <1>1, StringWritten DEF Put, Value, Typed
<1>2. CASE field.type # "string"
  <2>1. field.type \in {"int", "short"}
    BY <1>2 DEF Fields
  <2> QED BY <1>2, <2>1, NumberWritten DEF Put, Typed
<1> QED BY <1>1, <1>2

LEMMA FieldRead ==
  ASSUME NEW data \in Seq(Bytes), NEW field \in Fields, NEW struct, Typed(field, struct),
         NEW c, At(data, c.cursor, Put(field, struct))
  PROVE  Get(data, c, field) = [cursor |-> c.cursor + Len(Put(field, struct)),
                                read |-> [c.read EXCEPT ![field.name] = Value(field, struct)]]
<1>0. c.cursor \in Nat
  BY DEF At
<1>1. CASE field.type = "string"
  <2>1. Put(field, struct) = PutString(struct[field.name]) /\ struct[field.name] \in Texts
    BY <1>1 DEF Put, Typed
  <2>2. /\ StrLen(data, c.cursor) = Len(Value(field, struct))
        /\ GetString(data, c.cursor) = Value(field, struct)
    BY <1>1, <2>1, StringRead DEF Value
  <2>3. /\ Len(Put(field, struct)) = StrLen(data, c.cursor) + 1 /\ StrLen(data, c.cursor) \in Nat
    <3>1. Value(field, struct) \in Seq(Letters)
      BY <1>1, <2>1, StringWritten DEF Value
    <3> QED BY <1>1, <2>2, <3>1, FieldWritten
  <2>4. c.cursor + StrLen(data, c.cursor) + 1 = c.cursor + Len(Put(field, struct))
    BY <1>0, <2>3
  <2> QED BY <1>1, <2>2, <2>4 DEF Get
<1>2. CASE field.type # "string"
  <2>1. field.type \in {"int", "short"} /\ struct[field.name] \in Bytes
    BY <1>2 DEF Fields, Typed
  <2>2. Put(field, struct) = PutNumber(struct[field.name], field.type)
    BY <1>2 DEF Put
  <2>3. GetNumber(data, c.cursor) = Value(field, struct)
    BY <1>2, <2>1, <2>2, NumberRead DEF Value
  <2> QED BY <1>2, <2>3, FieldWritten DEF Get
<1> QED BY <1>1, <1>2

-----------------------------------------------------------------------------
(* Decode() after Encode().                                                 *)

\* The recursive function of Decode(), up to the m-th field.
Blank(names) == [cursor |-> 0, read |-> [n \in names |-> Garbage]]
Decodes(f, layout, names, data, m) ==
  f = [i \in 0 .. m |-> IF i = 0 THEN Blank(names) ELSE Get(data, f[i - 1], layout[i])]

LEMMA DecodesExists ==
  ASSUME NEW layout, NEW names, NEW data
  PROVE  \A m \in Nat : \E f : Decodes(f, layout, names, data, m)
<1> DEFINE T == {m \in Nat : ~\E f : Decodes(f, layout, names, data, m)}
<1> SUFFICES ASSUME T # {} PROVE FALSE
  OBVIOUS
<1>1. PICK m \in T : \A y \in T : m <= y
  BY LeastNumber
<1>2. m \in Nat /\ ~\E f : Decodes(f, layout, names, data, m)
  OBVIOUS
<1>3. CASE m = 0
  <2> DEFINE f == [i \in 0 .. 0 |-> Blank(names)]
  <2>1. Decodes(f, layout, names, data, m)
    BY <1>3 DEF Decodes
  <2> QED BY <1>2, <2>1
<1>4. CASE m # 0
  <2>1. m - 1 \in Nat /\ ~(m <= m - 1)
    BY <1>2, <1>4
  <2>2. m - 1 \notin T
    BY <1>1, <2>1
  <2>3. PICK f : Decodes(f, layout, names, data, m - 1)
    BY <2>1, <2>2
  <2> HIDE DEF T
  <2> DEFINE g == [i \in 0 .. m |-> IF i = m THEN Get(data, f[m - 1], layout[m]) ELSE f[i]]
  <2>4. ASSUME NEW i \in 0 .. m
        PROVE  g[i] = IF i = 0 THEN Blank(names) ELSE Get(data, g[i - 1], layout[i])
    <3>1. CASE i = m
      <4>1. g[m - 1] = f[m - 1]
        BY <1>2, <1>4
      <4>2. g[i] = Get(data, f[m - 1], layout[m])
        BY <3>1
      <4> HIDE DEF g
      <4> QED BY <1>4, <3>1, <4>1, <4>2
    <3>2. CASE i # m
      <4>1. i \in 0 .. m - 1
        BY <1>2, <3>2
      <4>2. f[i] = IF i = 0 THEN Blank(names) ELSE Get(data, f[i - 1], layout[i])
        BY <2>3, <4>1 DEF Decodes
      <4>3. i # 0 => i - 1 \in 0 .. m /\ i - 1 # m
        BY <1>2, <4>1
      <4>4. i # 0 => g[i - 1] = f[i - 1]
        BY <4>3
      <4>5. g[i] = f[i]
        BY <3>2
      <4> HIDE DEF g
      <4> QED BY <4>2, <4>4, <4>5
    <3> QED BY <3>1, <3>2
  <2>5. Decodes(g, layout, names, data, m)
    <3>1. g = [i \in 0 .. m |-> g[i]]
      OBVIOUS
    <3> QED BY <2>4, <3>1 DEF Decodes
  <2> QED BY <1>2, <2>5
<1> QED BY <1>3, <1>4

LEMMA DecodeTrace ==
  ASSUME NEW layout, NEW names, NEW data, Len(layout) \in Nat
  PROVE  \E f : /\ f[0] = Blank(names) /\ Decode(layout, names, data) = f[Len(layout)]
                /\ \A i \in 1 .. Len(layout) : f[i] = Get(data, f[i - 1], layout[i])
<1> DEFINE f == CHOOSE c : c = [i \in 0 .. Len(layout) |->
                  IF i = 0 THEN [cursor |-> 0, read |-> [n \in names |-> Garbage]]
                  ELSE Get(data, c[i - 1], layout[i])]
<1>1. Decodes(f, layout, names, data, Len(layout))
  <2>1. \E g : g = [i \in 0 .. Len(layout) |->
                      IF i = 0 THEN [cursor |-> 0, read |-> [n \in names |-> Garbage]]
                      ELSE Get(data, g[i - 1], layout[i])]
    <3>1. \E g : Decodes(g, layout, names, data, Len(layout))
      BY DecodesExists
    <3> QED BY <3>1, Zenon DEF Decodes, Blank
  <2> QED BY <2>1 DEF Decodes, Blank
<1>2. Decode(layout, names, data) = f[Len(layout)]
  BY DEF Decode
<1> HIDE DEF f
<1>3. \A i \in 0 .. Len(layout) :
        f[i] = IF i = 0 THEN Blank(names) ELSE Get(data, f[i - 1], layout[i])
  BY <1>1 DEF Decodes
<1>4. 0 \in 0 .. Len(layout) /\ \A i \in 1 .. Len(layout) : i \in 0 .. Len(layout) /\ i # 0
  OBVIOUS
<1>5. f[0] = Blank(names)
  BY <1>3, <1>4
<1>6. \A i \in 1 .. Len(layout) : f[i] = Get(data, f[i - 1], layout[i])
  BY <1>3, <1>4, Zenon
<1> QED BY <1>2, <1>5, <1>6

\* read has the first m fields of struct, and nothing else.
HasRead(read, layout, m, struct, names) ==
  /\ read = [n \in names |-> read[n]]
  /\ \A i \in 1 .. m : read[layout[i].name] = Value(layout[i], struct)
  /\ \A n \in names : (\A i \in 1 .. m : layout[i].name # n) => read[n] = Garbage

\* What a layout demands: names of its own for the fields, and values of their types.
Fits(layout, names, struct) ==
  /\ layout \in Seq(Fields)
  /\ \A i \in DOMAIN layout : Typed(layout[i], struct) /\ layout[i].name \in names
  /\ \A i, j \in DOMAIN layout : layout[i].name = layout[j].name => i = j

LEMMA Encoded ==
  ASSUME NEW layout, NEW names, NEW struct, Fits(layout, names, struct)
  PROVE  /\ Encode(layout, struct) \in Seq(Bytes)
         /\ \E ends : Parts(ends, [i \in DOMAIN layout |-> Put(layout[i], struct)], Len(layout),
                            Encode(layout, struct))
<1> DEFINE s == [i \in DOMAIN layout |-> Put(layout[i], struct)]
<1>1. Len(layout) \in Nat /\ DOMAIN layout = 1 .. Len(layout) /\ \A i \in DOMAIN layout : layout[i] \in Fields
  BY DEF Fits
<1>2. \A i \in 1 .. Len(layout) : Put(layout[i], struct) \in Seq(Bytes)
  BY <1>1, FieldWritten DEF Fits
<1>3. s \in [1 .. Len(layout) -> Seq(Bytes)]
  BY <1>1, <1>2
<1>4. s \in Seq(Seq(Bytes)) /\ Len(s) = Len(layout)
  <2> HIDE DEF s
  <2> QED BY <1>1, <1>3
<1>5. Encode(layout, struct) = FlattenSeq(s)
  BY DEF Encode
<1> HIDE DEF s
<1>6. FlattenSeq(s) \in Seq(Bytes) /\ \E ends : Parts(ends, s, Len(s), FlattenSeq(s))
  BY <1>4, Flattened
<1> QED BY <1>4, <1>5, <1>6 DEF s

LEMMA OneMoreRead ==
  ASSUME NEW layout, NEW names, NEW struct, Fits(layout, names, struct),
         NEW m \in DOMAIN layout, NEW read, HasRead(read, layout, m - 1, struct, names)
  PROVE  HasRead([read EXCEPT ![layout[m].name] = Value(layout[m], struct)], layout, m, struct, names)
<1> DEFINE new == [read EXCEPT ![layout[m].name] = Value(layout[m], struct)]
<1>1. layout[m].name \in names /\ m \in Nat \ {0} /\ DOMAIN layout = 1 .. Len(layout) /\ Len(layout) \in Nat
  BY DEF Fits
<1>2. read = [n \in names |-> read[n]]
  BY DEF HasRead
<1>3. /\ new = [n \in names |-> new[n]] /\ new[layout[m].name] = Value(layout[m], struct)
      /\ \A n \in names : n # layout[m].name => new[n] = read[n]
  BY <1>1, <1>2
<1> HIDE DEF new
<1>4. \A i \in 1 .. m : new[layout[i].name] = Value(layout[i], struct)
  <2> SUFFICES ASSUME NEW i \in 1 .. m PROVE new[layout[i].name] = Value(layout[i], struct)
    OBVIOUS
  <2>1. CASE i = m
    BY <1>3, <2>1
  <2>2. CASE i # m
    <3>1. i \in 1 .. (m - 1) /\ i \in DOMAIN layout
      BY <1>1, <2>2
    <3>2. layout[i].name # layout[m].name /\ layout[i].name \in names
      BY <2>2, <3>1 DEF Fits
    <3>3. read[layout[i].name] = Value(layout[i], struct)
      BY <3>1 DEF HasRead
    <3> QED BY <1>3, <3>2, <3>3
  <2> QED BY <2>1, <2>2
<1>5. ASSUME NEW n \in names, \A i \in 1 .. m : layout[i].name # n PROVE new[n] = Garbage
  <2>1. m \in 1 .. m /\ \A i \in 1 .. (m - 1) : i \in 1 .. m
    BY <1>1
  <2>2. n # layout[m].name /\ \A i \in 1 .. (m - 1) : layout[i].name # n
    BY <1>5, <2>1
  <2> QED BY <1>3, <2>2 DEF HasRead
<1>6. HasRead(new, layout, m, struct, names)
  BY <1>3, <1>4, <1>5 DEF HasRead
<1> QED BY <1>6 DEF new

\* What was encoded is decoded, and the cursor is behind it.
LEMMA Decoded ==
  ASSUME NEW layout, NEW names, NEW struct, Fits(layout, names, struct),
         NEW data \in Seq(Bytes), At(data, 0, Encode(layout, struct))
  PROVE  \E read : /\ Decode(layout, names, data) = [cursor |-> Len(Encode(layout, struct)), read |-> read]
                   /\ HasRead(read, layout, Len(layout), struct, names)
<1> DEFINE s == [i \in DOMAIN layout |-> Put(layout[i], struct)]
           code == Encode(layout, struct)
           n == Len(layout)
<1>1. n \in Nat /\ DOMAIN layout = 1 .. n /\ \A i \in DOMAIN layout : layout[i] \in Fields
  BY DEF Fits
<1>2. code \in Seq(Bytes)
  BY Encoded
<1>3. PICK ends : Parts(ends, s, n, code)
  BY Encoded
<1>4. PICK f : /\ f[0] = Blank(names) /\ Decode(layout, names, data) = f[n]
               /\ \A i \in 1 .. n : f[i] = Get(data, f[i - 1], layout[i])
  BY <1>1, DecodeTrace
<1>5. \A i \in 1 .. n : s[i] = Put(layout[i], struct) /\ Put(layout[i], struct) \in Seq(Bytes)
  BY <1>1, FieldWritten DEF Fits
<1> HIDE DEF s, code, n
<1> DEFINE Right(m) == /\ f[m] = [cursor |-> ends[m], read |-> f[m].read]
                       /\ HasRead(f[m].read, layout, m, struct, names)
           T == {m \in Nat : m <= n /\ ~Right(m)}
<1>6. T = {}
  <2> SUFFICES ASSUME T # {} PROVE FALSE
    OBVIOUS
  <2>1. PICK m \in T : \A y \in T : m <= y
    <3>1. T \subseteq Nat
      OBVIOUS
    <3> HIDE DEF T
    <3> QED BY <3>1, LeastNumber
  <2>2. m \in Nat /\ m <= n /\ ~Right(m)
    OBVIOUS
  <2>3. CASE m = 0
    <3>1. ends[0] = 0
      BY <1>3 DEF Parts
    <3>2. f[0] = [cursor |-> 0, read |-> f[0].read] /\ f[0].read = [x \in names |-> Garbage]
      BY <1>4 DEF Blank
    <3>3. HasRead(f[0].read, layout, 0, struct, names)
      BY <3>2 DEF HasRead
    <3> QED BY <2>2, <2>3, <3>1, <3>2, <3>3
  <2>4. CASE m # 0
    <3>1. m - 1 \in Nat /\ m - 1 <= n /\ ~(m <= m - 1) /\ m \in 1 .. n
      BY <1>1, <2>2, <2>4
    <3>2. Right(m - 1)
      BY <2>1, <3>1
    <3>3. /\ ends[m] = ends[m - 1] + Len(Put(layout[m], struct)) /\ At(code, ends[m - 1], Put(layout[m], struct))
      BY <1>3, <1>5, <3>1 DEF Parts
    <3>4. At(data, ends[m - 1], Put(layout[m], struct))
      <4>1. At(data, 0 + ends[m - 1], Put(layout[m], struct))
        BY <1>2, <1>5, <3>1, <3>3, AtWithin DEF code
      <4>2. 0 + ends[m - 1] = ends[m - 1]
        BY <3>3 DEF At
      <4> QED BY <4>1, <4>2
    <3>5. m \in DOMAIN layout /\ layout[m] \in Fields /\ Typed(layout[m], struct)
      BY <1>1, <3>1 DEF Fits, n
    <3>6. f[m - 1].cursor = ends[m - 1]
      BY <3>2
    <3>7. Get(data, f[m - 1], layout[m]) =
            [cursor |-> ends[m - 1] + Len(Put(layout[m], struct)),
             read |-> [f[m - 1].read EXCEPT ![layout[m].name] = Value(layout[m], struct)]]
      BY <3>4, <3>5, <3>6, FieldRead
    <3>8. f[m] = [cursor |-> ends[m],
                  read |-> [f[m - 1].read EXCEPT ![layout[m].name] = Value(layout[m], struct)]]
      BY <1>4, <3>1, <3>3, <3>7
    <3>9. HasRead(f[m].read, layout, m, struct, names)
      BY <3>2, <3>5, <3>8, OneMoreRead
    <3> QED BY <2>2, <3>8, <3>9
  <2> QED BY <2>3, <2>4
<1>7. Right(n)
  BY <1>1, <1>6
<1>8. ends[n] = Len(code)
  BY <1>3 DEF Parts
<1> QED BY <1>4, <1>7, <1>8 DEF code, n

-----------------------------------------------------------------------------
(* The lists of brokers and of devices.                                     *)

LEMMA StrLenIs ==
  ASSUME NEW data \in Seq(Bytes), NEW off \in Nat
  PROVE  StrLen(data, off) \in Nat
<1> DEFINE T == {n \in Nat : n <= Len(data) /\ ByteAt(data, off + n + 1) \in {0, Garbage}}
<1>1. Len(data) \in T
  <2>1. Len(data) \in Nat /\ off + Len(data) + 1 \notin DOMAIN data
    OBVIOUS
  <2> QED BY <2>1 DEF ByteAt
<1>2. PICK n \in T : \A y \in T : n <= y
  <2>1. T \subseteq Nat /\ T # {}
    BY <1>1
  <2> HIDE DEF T
  <2> QED BY <2>1, LeastNumber
<1>3. n \in 0 .. Len(data) /\ ByteAt(data, off + n + 1) \in {0, Garbage}
  OBVIOUS
<1>4. \A k \in 1 .. n : ByteAt(data, off + k) \notin {0, Garbage}
  <2> SUFFICES ASSUME NEW k \in 1 .. n, ByteAt(data, off + k) \in {0, Garbage} PROVE FALSE
    OBVIOUS
  <2>1. k - 1 \in Nat /\ k - 1 <= Len(data) /\ off + (k - 1) + 1 = off + k /\ ~(n <= k - 1)
    BY <1>3
  <2>2. k - 1 \in T
    BY <2>1
  <2> QED BY <1>2, <2>1, <2>2
<1> HIDE DEF T
<1>5. \E m \in 0 .. Len(data) :
        /\ ByteAt(data, off + m + 1) \in {0, Garbage}
        /\ \A k \in 1 .. m : ByteAt(data, off + k) \notin {0, Garbage}
  BY <1>3, <1>4
<1>6. StrLen(data, off) \in 0 .. Len(data)
  BY <1>5 DEF StrLen
<1> QED BY <1>6

\* The recursive function of both readers: an element at an offset, then those from
\* the offset that follows.
ListOf(f, len, element, next) ==
  f = [off \in Nat |-> IF off >= len THEN [cursor |-> off, read |-> <<>>]
                       ELSE InFrontOf(element[off], f[next[off]])]

\* f is right from the last m bytes on.
ListFrom(f, m, len, element, next) ==
  /\ f = [off \in Nat |-> f[off]]
  /\ \A off \in Nat : off + m >= len =>
       f[off] = IF off >= len THEN [cursor |-> off, read |-> <<>>]
                ELSE InFrontOf(element[off], f[next[off]])

LEMMA ListExists ==
  ASSUME NEW len \in Nat, NEW element, NEW next \in [Nat -> Nat], \A off \in Nat : next[off] > off
  PROVE  \E f : ListOf(f, len, element, next)
<1> DEFINE T == {m \in Nat : ~\E f : ListFrom(f, m, len, element, next)}
<1>1. T = {}
  <2> SUFFICES ASSUME T # {} PROVE FALSE
    OBVIOUS
  <2>1. PICK m \in T : \A y \in T : m <= y
    BY LeastNumber
  <2>2. m \in Nat /\ ~\E f : ListFrom(f, m, len, element, next)
    OBVIOUS
  <2>3. CASE m = 0
    <3> DEFINE f == [off \in Nat |-> [cursor |-> off, read |-> <<>>]]
    <3>1. \A off \in Nat : off + m >= len => off >= len /\ f[off] = [cursor |-> off, read |-> <<>>]
      BY <2>3
    <3>2. f = [off \in Nat |-> f[off]]
      OBVIOUS
    <3> HIDE DEF f
    <3>3. ListFrom(f, m, len, element, next)
      BY <3>1, <3>2 DEF ListFrom
    <3> QED BY <2>2, <3>3
  <2>4. CASE m # 0
    <3>1. m - 1 \in Nat /\ ~(m <= m - 1)
      BY <2>2, <2>4
    <3>2. m - 1 \notin T
      BY <2>1, <3>1
    <3>3. PICK f : ListFrom(f, m - 1, len, element, next)
      BY <3>1, <3>2
    <3> HIDE DEF T
    <3> DEFINE g == [off \in Nat |-> IF off + m = len THEN InFrontOf(element[off], f[next[off]]) ELSE f[off]]
    <3>4. g = [off \in Nat |-> g[off]]
      OBVIOUS
    <3>5. /\ \A off \in Nat : off + m = len => g[off] = InFrontOf(element[off], f[next[off]])
          /\ \A off \in Nat : off + m # len => g[off] = f[off]
      OBVIOUS
    <3> HIDE DEF g
    <3>6. ASSUME NEW off \in Nat, off + m >= len
          PROVE  g[off] = IF off >= len THEN [cursor |-> off, read |-> <<>>]
                          ELSE InFrontOf(element[off], g[next[off]])
      <4>1. next[off] \in Nat /\ next[off] > off
        OBVIOUS
      <4>2. next[off] + m # len
        BY <2>2, <3>6, <4>1
      <4>3. g[next[off]] = f[next[off]]
        BY <3>5, <4>1, <4>2
      <4>4. CASE off + m = len
        <5>1. ~(off >= len)
          BY <2>2, <2>4, <4>4
        <5>2. g[off] = InFrontOf(element[off], f[next[off]])
          BY <3>5, <4>4
        <5> QED BY <4>3, <5>1, <5>2
      <4>5. CASE off + m # len
        <5>1. off + (m - 1) >= len
          BY <2>2, <3>6, <4>5
        <5>2. g[off] = f[off]
          BY <3>5, <4>5
        <5>3. f[off] = IF off >= len THEN [cursor |-> off, read |-> <<>>]
                       ELSE InFrontOf(element[off], f[next[off]])
          BY <3>3, <5>1 DEF ListFrom
        <5> QED BY <4>3, <5>2, <5>3
      <4> QED BY <4>4, <4>5
    <3>7. ListFrom(g, m, len, element, next)
      BY <3>4, <3>6 DEF ListFrom
    <3> QED BY <2>2, <3>7
  <2> QED BY <2>3, <2>4
<1>2. PICK f : ListFrom(f, len, len, element, next)
  BY <1>1
<1>3. \A off \in Nat : off + len >= len
  OBVIOUS
<1>4. \A off \in Nat : f[off] = IF off >= len THEN [cursor |-> off, read |-> <<>>]
                                ELSE InFrontOf(element[off], f[next[off]])
  BY <1>2, <1>3 DEF ListFrom
<1>5. f = [off \in Nat |-> f[off]]
  BY <1>2 DEF ListFrom
<1>6. ListOf(f, len, element, next)
  BY <1>4, <1>5 DEF ListOf
<1> QED BY <1>6

LEMMA LengthIs ==
  ASSUME NEW S, NEW t \in Seq(S)
  PROVE  Len(t) \in Nat
OBVIOUS

LEMMA SequenceIs ==
  ASSUME NEW S, NEW m \in Nat, NEW t \in [1 .. m -> S]
  PROVE  t \in Seq(S) /\ Len(t) = m
OBVIOUS

\* c holds n elements, found at ends[0] to ends[n - 1], and is at the end of the data.
ReadList(c, len, n, element, ends) ==
  /\ c.cursor = len /\ DOMAIN c.read = 1 .. n /\ c.read = [k \in 1 .. n |-> c.read[k]]
  /\ \A k \in 1 .. n : c.read[k] = element[ends[k - 1]]

\* A list whose elements begin where the last ones end.
LEMMA ListRead ==
  ASSUME NEW len \in Nat, NEW n \in Nat, NEW element, NEW next \in [Nat -> Nat],
         NEW ends \in [0 .. n -> Nat], ends[n] = len,
         \A k \in 1 .. n : ends[k - 1] < len /\ next[ends[k - 1]] = ends[k],
         NEW f, ListOf(f, len, element, next)
  PROVE  ReadList(f[ends[0]], len, n, element, ends)
<1>1. \A off \in Nat : f[off] = IF off >= len THEN [cursor |-> off, read |-> <<>>]
                                ELSE InFrontOf(element[off], f[next[off]])
  BY DEF ListOf
<1> DEFINE rest(m) == [k \in 1 .. m |-> element[ends[n - m + k - 1]]]
           Right(m) == f[ends[n - m]] = [cursor |-> len, read |-> rest(m)]
           T == {m \in Nat : m <= n /\ ~Right(m)}
<1>2. T = {}
  <2> SUFFICES ASSUME T # {} PROVE FALSE
    OBVIOUS
  <2>1. PICK m \in T : \A y \in T : m <= y
    <3>1. T \subseteq Nat
      OBVIOUS
    <3> HIDE DEF T
    <3> QED BY <3>1, LeastNumber
  <2>2. m \in Nat /\ m <= n /\ ~Right(m)
    <3> HIDE DEF Right
    <3> QED OBVIOUS
  <2> HIDE DEF Right
  <2>3. CASE m = 0
    <3>1. n - m = n
      BY <2>3
    <3>2. f[len] = [cursor |-> len, read |-> <<>>]
      <4>1. len >= len
        OBVIOUS
      <4> QED BY <1>1, <4>1
    <3>3. rest(m) = <<>>
      BY <2>3
    <3> HIDE DEF rest
    <3>4. f[ends[n - m]] = [cursor |-> len, read |-> rest(m)]
      BY <3>1, <3>2, <3>3
    <3> QED BY <2>2, <3>4 DEF Right
  <2>4. CASE m # 0
    <3>1. m - 1 \in Nat /\ m - 1 <= n /\ ~(m <= m - 1)
      BY <2>2, <2>4
    <3>2. Right(m - 1)
      BY <2>1, <3>1
    <3> HIDE DEF T
    <3>3. n - m + 1 \in 1 .. n /\ n - m \in 0 .. n /\ n - (m - 1) = n - m + 1 /\ (n - m + 1) - 1 = n - m
      BY <2>2, <2>4
    <3>4. ends[n - m] \in Nat /\ ends[n - m] < len /\ next[ends[n - m]] = ends[n - (m - 1)]
      BY <3>3
    <3>5. f[ends[n - m]] = InFrontOf(element[ends[n - m]], f[ends[n - (m - 1)]])
      <4>1. ~(ends[n - m] >= len)
        BY <2>2, <3>4
      <4> QED BY <1>1, <3>4, <4>1
    <3> DEFINE S == {element[off] : off \in Nat}
               s == rest(m - 1)
               e == element[ends[n - m]]
    <3>6. s \in Seq(S) /\ Len(s) = m - 1 /\ e \in S
      <4>1. \A k \in 1 .. m - 1 : n - (m - 1) + k - 1 \in 0 .. n
        BY <2>2, <3>1
      <4>2. s \in [1 .. m - 1 -> S] /\ e \in S
        BY <3>4, <4>1
      <4> HIDE DEF s, S
      <4> QED BY <3>1, <4>2, SequenceIs
    <3>7. \A k \in 1 .. m - 1 : s[k] = element[ends[n - (m - 1) + k - 1]]
      OBVIOUS
    <3>8. f[ends[n - m]] = InFrontOf(e, [cursor |-> len, read |-> s])
      <4>1. f[ends[n - (m - 1)]] = [cursor |-> len, read |-> s]
        BY <3>2 DEF Right
      <4> HIDE DEF s
      <4> QED BY <3>5, <4>1
    <3> HIDE DEF S, s, e
    <3> DEFINE u == <<e>> \o s
               was == [cursor |-> len, read |-> s]
    <3>9. /\ InFrontOf(e, was) = [cursor |-> len, read |-> u]
          /\ u \in Seq(S) /\ Len(u) = Len(s) + 1 /\ u[1] = e
          /\ \A k \in 1 .. Len(s) : u[k + 1] = s[k]
      <4>1. u \in Seq(S) /\ Len(u) = Len(s) + 1
        <5>1. <<e>> \in Seq(S) /\ Len(<<e>>) = 1
          BY <3>6
        <5>2. s \in Seq(S)
          BY <3>6
        <5> QED BY <5>1, <5>2
      <4>2. u[1] = e /\ \A k \in 1 .. Len(s) : u[k + 1] = s[k]
        BY <3>6
      <4>3. InFrontOf(e, was) = [was EXCEPT !.read = u]
        <5>1. was.read = s
          OBVIOUS
        <5>2. InFrontOf(e, was) = [was EXCEPT !.read = <<e>> \o was.read]
          BY DEF InFrontOf
        <5> QED BY <5>1, <5>2
      <4>4. [was EXCEPT !.read = u] = [cursor |-> len, read |-> u]
        <5> HIDE DEF u
        <5> QED OBVIOUS
      <4> HIDE DEF u, was
      <4> QED BY <4>1, <4>2, <4>3, <4>4
    <3> HIDE DEF u
    <3>10. Len(u) = m /\ m \in Nat
      BY <2>2, <3>6, <3>9
    <3>11. \A k \in 1 .. m : u[k] = element[ends[n - m + k - 1]]
      <4> SUFFICES ASSUME NEW k \in 1 .. m PROVE u[k] = element[ends[n - m + k - 1]]
        OBVIOUS
      <4>1. CASE k = 1
        <5>1. n - m + k - 1 = n - m
          BY <3>10, <4>1
        <5> QED BY <3>9, <4>1, <5>1 DEF e
      <4>2. CASE k # 1
        <5>1. /\ k - 1 \in 1 .. m - 1 /\ (k - 1) + 1 = k
              /\ n - (m - 1) + (k - 1) - 1 = n - m + k - 1
          BY <3>10, <4>2
        <5>2. s[k - 1] = element[ends[n - (m - 1) + (k - 1) - 1]]
          BY <3>7, <5>1
        <5>3. u[(k - 1) + 1] = s[k - 1]
          BY <3>6, <3>9, <5>1
        <5> QED BY <5>1, <5>2, <5>3
      <4> QED BY <4>1, <4>2
    <3>12. u = rest(m)
      <4>1. u = [k \in 1 .. m |-> u[k]]
        BY <3>9, <3>10
      <4> QED BY <3>11, <4>1
    <3> QED BY <2>2, <3>8, <3>9, <3>12 DEF Right
  <2> QED BY <2>3, <2>4
<1>3. Right(n)
  <2>1. n \in Nat /\ n <= n
    OBVIOUS
  <2> HIDE DEF Right
  <2> QED BY <1>2, <2>1
<1>4. n - n = 0 /\ \A k \in 1 .. n : n - n + k - 1 = k - 1
  OBVIOUS
<1>5. rest(n) = [k \in 1 .. n |-> element[ends[k - 1]]]
  BY <1>4
<1> HIDE DEF rest
<1>6. f[ends[0]].cursor = len /\ f[ends[0]].read = rest(n)
  BY <1>3, <1>4 DEF Right
<1> QED BY <1>5, <1>6 DEF ReadList

\* An element of a list is a string and a number.
Element(a, b) == <<StrField(a), IntField(b)>>

LEMMA ElementWritten ==
  ASSUME NEW a \in Names, NEW b \in Names, NEW struct, struct[a] \in Texts, struct[b] \in Bytes
  PROVE  /\ Encode(Element(a, b), struct) = PutString(struct[a]) \o PutNumber(struct[b], "int")
         /\ Encode(Element(a, b), struct) \in Seq(Bytes)
         /\ Len(Encode(Element(a, b), struct)) = Len(Received(struct[a])) + 5
         /\ Len(Received(struct[a])) \in Nat
<1> DEFINE s == [i \in DOMAIN Element(a, b) |-> Put(Element(a, b)[i], struct)]
<1>1. DOMAIN Element(a, b) = 1 .. 2 /\ Element(a, b)[1] = StrField(a) /\ Element(a, b)[2] = IntField(b)
  BY DEF Element
<1>2. s = [i \in 1 .. 2 |-> s[i]] /\ s[1] = Put(StrField(a), struct) /\ s[2] = Put(IntField(b), struct)
  <2>1. s = [i \in 1 .. 2 |-> Put(Element(a, b)[i], struct)]
    BY <1>1
  <2> HIDE DEF s
  <2>2. s[1] = Put(Element(a, b)[1], struct) /\ s[2] = Put(Element(a, b)[2], struct)
    BY <2>1
  <2>3. s = [i \in 1 .. 2 |-> s[i]]
    BY <2>1
  <2> QED BY <1>1, <2>2, <2>3
<1>3. Put(StrField(a), struct) = PutString(struct[a]) /\ Put(IntField(b), struct) = PutNumber(struct[b], "int")
  BY DEF Put, StrField, IntField
<1> HIDE DEF s
<1>4. Len(s) = 2
  BY <1>2
<1>5. FlattenSeq(s) = s[1] \o s[2]
  <2>1. PICK f : f[1] = s[1] /\ FlattenSeq(s) = f[Len(s)] /\ \A i \in 2 .. Len(s) : f[i] = f[i - 1] \o s[i]
    <3>1. Len(s) \in Nat \ {0}
      BY <1>4
    <3> QED BY <3>1, FlattenTrace
  <2>2. 2 \in 2 .. 2 /\ 2 - 1 = 1
    OBVIOUS
  <2> QED BY <1>4, <2>1, <2>2
<1>6. Encode(Element(a, b), struct) = PutString(struct[a]) \o PutNumber(struct[b], "int")
  BY <1>2, <1>3, <1>5 DEF Encode, s
<1> DEFINE r == Received(struct[a])
           t == PutString(struct[a])
           v == PutNumber(struct[b], "int")
<1>7. t \in Seq(Bytes) /\ Len(t) = Len(r) + 1 /\ r \in Seq(Letters)
  BY StringWritten
<1>8. v \in Seq(Bytes) /\ Len(v) = 4
  BY NumberWritten DEF Size
<1>9. Encode(Element(a, b), struct) = t \o v
  BY <1>6
<1> HIDE DEF r, t, v
<1>10. Len(r) \in Nat
  BY <1>7
<1>11. t \o v \in Seq(Bytes) /\ Len(t \o v) = Len(r) + 5
  <2>1. t \o v \in Seq(Bytes) /\ Len(t \o v) = Len(t) + Len(v)
    <3>1. t \in Seq(Bytes) /\ v \in Seq(Bytes)
      BY <1>7, <1>8
    <3> QED BY <3>1
  <2>2. Len(t) + Len(v) = Len(r) + 5
    BY <1>7, <1>8, <1>10
  <2> QED BY <2>1, <2>2
<1> QED BY <1>9, <1>10, <1>11 DEF r, t, v

LEMMA ElementRead ==
  ASSUME NEW a \in Names, NEW b \in Names, NEW struct, struct[a] \in Texts, struct[b] \in Bytes,
         NEW data \in Seq(Bytes), NEW off, At(data, off, Encode(Element(a, b), struct))
  PROVE  /\ GetString(data, off) = Received(struct[a])
         /\ GetNumber(data, off + (StrLen(data, off) + 1)) = struct[b]
         /\ off + (StrLen(data, off) + 1) + 4 = off + Len(Encode(Element(a, b), struct))
         /\ off < Len(data)
<1> DEFINE code == Encode(Element(a, b), struct)
           s == PutString(struct[a])
           v == PutNumber(struct[b], "int")
<1>1. code = s \o v /\ code \in Seq(Bytes) /\ Len(code) = Len(Received(struct[a])) + 5
  BY ElementWritten
<1>2. s \in Seq(Bytes) /\ Len(s) = Len(Received(struct[a])) + 1
  BY StringWritten
<1>3. v \in Seq(Bytes)
  BY NumberWritten
<1>4. Len(Received(struct[a])) \in Nat
  BY ElementWritten
<1>5. At(data, off, code)
  OBVIOUS
<1> HIDE DEF s, v, code
<1>6. At(data, off + 0, s) /\ At(data, off + Len(s), v)
  BY <1>1, <1>2, <1>3, <1>5, AtJoined, AtWithin
<1>7. off \in Nat /\ off + Len(code) <= Len(data) /\ off + 0 = off /\ Len(data) \in Nat
  BY <1>5 DEF At
<1>8. StrLen(data, off) = Len(Received(struct[a])) /\ GetString(data, off) = Received(struct[a])
  BY <1>6, <1>7, StringRead DEF s
<1>9. GetNumber(data, off + Len(s)) = struct[b]
  BY <1>6, NumberRead DEF v
<1>10. off + (StrLen(data, off) + 1) + 4 = off + Len(code) /\ off < Len(data)
  <2> DEFINE r == Len(Received(struct[a]))
  <2>1. r \in Nat /\ StrLen(data, off) = r /\ Len(code) = r + 5
    BY <1>1, <1>4, <1>8
  <2> HIDE DEF r
  <2> QED BY <1>7, <2>1
<1> QED BY <1>2, <1>8, <1>9, <1>10 DEF code

IsList(a, b, l) ==
  /\ Len(l) \in Nat /\ DOMAIN l = 1 .. Len(l)
  /\ \A k \in DOMAIN l : l[k][a] \in Texts /\ l[k][b] \in Bytes

Codes(a, b, l) == [k \in DOMAIN l |-> Encode(Element(a, b), l[k])]

\* The elements of a list follow each other in what they are flattened to.
LEMMA ElementsWritten ==
  ASSUME NEW a \in Names, NEW b \in Names, NEW l, IsList(a, b, l)
  PROVE  /\ FlattenSeq(Codes(a, b, l)) \in Seq(Bytes)
         /\ \E ends : Parts(ends, Codes(a, b, l), Len(l), FlattenSeq(Codes(a, b, l)))
<1> DEFINE s == Codes(a, b, l)
<1>1. \A k \in DOMAIN l : Encode(Element(a, b), l[k]) \in Seq(Bytes)
  BY ElementWritten DEF IsList
<1>2. s \in [1 .. Len(l) -> Seq(Bytes)] /\ Len(l) \in Nat
  BY <1>1 DEF IsList, Codes
<1> HIDE DEF s
<1>3. s \in Seq(Seq(Bytes)) /\ Len(s) = Len(l)
  BY <1>2, SequenceIs
<1>4. FlattenSeq(s) \in Seq(Bytes) /\ \E ends : Parts(ends, s, Len(l), FlattenSeq(s))
  BY <1>3, Flattened
<1> QED BY <1>4 DEF s

\* What BuildBrokerList() and BuildMappingStatuses() look at.
Following(data) == [off \in Nat |-> off + (StrLen(data, off) + 1) + 4]

LEMMA FollowingIs ==
  ASSUME NEW data \in Seq(Bytes)
  PROVE  Following(data) \in [Nat -> Nat] /\ \A off \in Nat : Following(data)[off] > off
<1>1. \A off \in Nat : off + (StrLen(data, off) + 1) + 4 \in Nat /\ off + (StrLen(data, off) + 1) + 4 > off
  <2> SUFFICES ASSUME NEW off \in Nat
               PROVE  off + (StrLen(data, off) + 1) + 4 \in Nat /\ off + (StrLen(data, off) + 1) + 4 > off
    OBVIOUS
  <2>1. StrLen(data, off) \in Nat
    BY StrLenIs
  <2> QED BY <2>1
<1> QED BY <1>1 DEF Following

\* What c read are the elements of l, the k-th at ends[k - 1] in the data; it is at their end.
ElementsFound(c, start, ends, a, b, l, data, element) ==
  /\ ends[0] = start /\ ReadList(c, Len(data), Len(l), element, ends)
  /\ \A k \in 1 .. Len(l) :
       /\ ends[k - 1] \in Nat
       /\ GetString(data, ends[k - 1]) = Received(l[k][a])
       /\ GetNumber(data, ends[k - 1] + (StrLen(data, ends[k - 1]) + 1)) = l[k][b]

\* A reader meets the elements of l at their places, one after the other, and stops
\* at the end of the data.
LEMMA ElementsRead ==
  ASSUME NEW a \in Names, NEW b \in Names, NEW l, IsList(a, b, l),
         NEW data \in Seq(Bytes), NEW start, At(data, start, FlattenSeq(Codes(a, b, l))),
         Len(data) = start + Len(FlattenSeq(Codes(a, b, l))),
         NEW element, NEW f, ListOf(f, Len(data), element, Following(data))
  PROVE  \E ends : ElementsFound(f[start], start, ends, a, b, l, data, element)
<1> DEFINE s == Codes(a, b, l)
           code == FlattenSeq(s)
           n == Len(l)
<1>1. code \in Seq(Bytes) /\ \E e : Parts(e, s, n, code)
  BY ElementsWritten
<1>2. At(data, start, code)
  OBVIOUS
<1>2a. Len(data) = start + Len(code)
  OBVIOUS
<1>3. \A k \in 1 .. n : /\ s[k] = Encode(Element(a, b), l[k]) /\ Encode(Element(a, b), l[k]) \in Seq(Bytes)
                        /\ l[k][a] \in Texts /\ l[k][b] \in Bytes
  BY ElementWritten DEF IsList, Codes
<1> HIDE DEF s, code
<1>4. PICK e : Parts(e, s, n, code)
  BY <1>1
<1> DEFINE ends == [k \in 0 .. n |-> start + e[k]]
<1>5. start \in Nat /\ Len(data) \in Nat /\ n \in Nat /\ e \in [0 .. n -> Nat] /\ e[0] = 0 /\ e[n] = Len(code)
  <2>1. start \in Nat
    BY <1>2 DEF At
  <2>2. n \in Nat
    BY DEF IsList
  <2>3. e \in [0 .. n -> Nat] /\ e[0] = 0 /\ e[n] = Len(code)
    BY <1>4 DEF Parts
  <2>4. Len(data) \in Nat
    BY LengthIs, Zenon
  <2> QED BY <2>1, <2>2, <2>3, <2>4
<1> HIDE DEF n
<1>6. ends \in [0 .. n -> Nat] /\ ends[0] = start /\ ends[n] = Len(data)
  <2>1. \A k \in 0 .. n : start + e[k] \in Nat
    <3> SUFFICES ASSUME NEW k \in 0 .. n PROVE start + e[k] \in Nat
      OBVIOUS
    <3>1. e[k] \in Nat
      BY <1>5
    <3> QED BY <1>5, <3>1
  <2>2. ends \in [0 .. n -> Nat]
    BY <2>1
  <2>3. 0 \in 0 .. n /\ n \in 0 .. n
    BY <1>5
  <2>4. ends[0] = start + e[0] /\ ends[n] = start + e[n]
    BY <2>3
  <2> HIDE DEF ends
  <2>5. ends[n] = Len(data)
    BY <1>2a, <1>5, <2>4, Zenon
  <2>6. ends[0] = start
    BY <1>5, <2>4
  <2> QED BY <2>2, <2>5, <2>6
<1>7. \A k \in 1 .. n : ends[k - 1] = start + e[k - 1] /\ ends[k] = start + e[k] /\ e[k - 1] \in Nat /\ e[k] \in Nat
  <2> SUFFICES ASSUME NEW k \in 1 .. n
               PROVE  ends[k - 1] = start + e[k - 1] /\ ends[k] = start + e[k] /\ e[k - 1] \in Nat /\ e[k] \in Nat
    OBVIOUS
  <2>1. k \in 0 .. n /\ k - 1 \in 0 .. n
    BY <1>5
  <2> QED BY <1>5, <2>1
<1> HIDE DEF ends
<1>8. ASSUME NEW k \in 1 .. n
      PROVE  /\ ends[k - 1] \in Nat /\ ends[k - 1] < Len(data) /\ Following(data)[ends[k - 1]] = ends[k]
             /\ GetString(data, ends[k - 1]) = Received(l[k][a])
             /\ GetNumber(data, ends[k - 1] + (StrLen(data, ends[k - 1]) + 1)) = l[k][b]
  <2> DEFINE one == Encode(Element(a, b), l[k])
             off == ends[k - 1]
  <2>1. one \in Seq(Bytes) /\ s[k] = one /\ l[k][a] \in Texts /\ l[k][b] \in Bytes
    BY <1>3
  <2>2. e[k] = e[k - 1] + Len(one) /\ At(code, e[k - 1], one)
    BY <1>4, <2>1 DEF Parts
  <2>3. At(data, off, one) /\ off \in Nat
    <3>1. At(data, start + e[k - 1], one)
      <4> HIDE DEF one
      <4>1. one \in Seq(Bytes) /\ code \in Seq(Bytes) /\ At(code, e[k - 1], one)
        BY <1>1, <2>1, <2>2
      <4> HIDE DEF At
      <4> QED BY <1>2, <4>1, AtWithin
    <3>2. off = start + e[k - 1] /\ off \in Nat
      <4>1. off = start + e[k - 1] /\ e[k - 1] \in Nat
        BY <1>7
      <4> HIDE DEF off
      <4> QED BY <1>5, <4>1
    <3> HIDE DEF one, off
    <3> QED BY <3>1, <3>2
  <2>4. /\ GetString(data, off) = Received(l[k][a])
        /\ GetNumber(data, off + (StrLen(data, off) + 1)) = l[k][b]
        /\ off + (StrLen(data, off) + 1) + 4 = off + Len(one)
        /\ off < Len(data)
    BY <2>1, <2>3, ElementRead
  <2>5. Len(one) \in Nat
    <3> HIDE DEF one
    <3> QED BY <2>1
  <2> HIDE DEF one
  <2>6. off + Len(one) = ends[k]
    <3>1. off = start + e[k - 1] /\ ends[k] = start + e[k] /\ e[k - 1] \in Nat
      BY <1>7
    <3> HIDE DEF off
    <3> QED BY <1>5, <2>2, <2>5, <3>1
  <2>7. Following(data)[off] = ends[k]
    BY <2>3, <2>4, <2>6 DEF Following
  <2> QED BY <2>3, <2>4, <2>7
<1>9. ReadList(f[ends[0]], Len(data), n, element, ends)
  <2>1. Following(data) \in [Nat -> Nat]
    BY FollowingIs
  <2>2. \A k \in 1 .. n : ends[k - 1] < Len(data) /\ Following(data)[ends[k - 1]] = ends[k]
    BY <1>8, Zenon
  <2>3. Len(data) \in Nat /\ n \in Nat /\ ListOf(f, Len(data), element, Following(data))
    BY <1>5
  <2> QED BY <1>6, <2>1, <2>2, <2>3, ListRead, Zenon
<1>10. \A k \in 1 .. n : /\ ends[k - 1] \in Nat
                         /\ GetString(data, ends[k - 1]) = Received(l[k][a])
                         /\ GetNumber(data, ends[k - 1] + (StrLen(data, ends[k - 1]) + 1)) = l[k][b]
  BY <1>8, Zenon
<1> QED BY <1>6, <1>9, <1>10, Zenon DEF n, ElementsFound


\* The elements BuildBrokerList() and BuildMappingStatuses() make of the bytes at an offset.
BrokerAt(data) ==
  [off \in Nat |-> [szAddress |-> GetString(data, off),
                    nDistance |-> GetNumber(data, off + (off + (StrLen(data, off) + 1)))]]
MappingAt(data) ==
  [off \in Nat |-> [device_name |-> GetString(data, off),
                    mapping_status |-> GetNumber(data, off + (StrLen(data, off) + 1))]]

LEMMA BuildBrokerListIs ==
  ASSUME NEW data \in Seq(Bytes)
  PROVE  \E f : ListOf(f, Len(data), BrokerAt(data), Following(data)) /\ BuildBrokerList(data) = f[0]
<1> DEFINE step(c, off) ==
             IF off >= Len(data) THEN [cursor |-> off, read |-> <<>>]
             ELSE InFrontOf([szAddress |-> GetString(data, off),
                             nDistance |-> GetNumber(data, off + (off + (StrLen(data, off) + 1)))],
                            c[off + (StrLen(data, off) + 1) + Size["int"]])
           f == CHOOSE c : c = [off \in Nat |-> step(c, off)]
<1>1. BuildBrokerList(data) = f[0]
  BY DEF BuildBrokerList
<1>2. \A c : ListOf(c, Len(data), BrokerAt(data), Following(data)) <=> c = [off \in Nat |-> step(c, off)]
  <2> SUFFICES ASSUME NEW c
               PROVE  ListOf(c, Len(data), BrokerAt(data), Following(data)) <=> c = [off \in Nat |-> step(c, off)]
    OBVIOUS
  <2>1. \A off \in Nat : step(c, off) = IF off >= Len(data) THEN [cursor |-> off, read |-> <<>>]
                                        ELSE InFrontOf(BrokerAt(data)[off], c[Following(data)[off]])
    <3> SUFFICES ASSUME NEW off \in Nat
                 PROVE  step(c, off) = IF off >= Len(data) THEN [cursor |-> off, read |-> <<>>]
                                       ELSE InFrontOf(BrokerAt(data)[off], c[Following(data)[off]])
      OBVIOUS
    <3>1. Following(data)[off] = off + (StrLen(data, off) + 1) + Size["int"]
      BY DEF Following, Size
    <3>2. BrokerAt(data)[off] = [szAddress |-> GetString(data, off),
                                 nDistance |-> GetNumber(data, off + (off + (StrLen(data, off) + 1)))]
      BY DEF BrokerAt
    <3> QED BY <3>1, <3>2, Zenon
  <2> HIDE DEF step
  <2> QED BY <2>1 DEF ListOf
<1>3. \E c : c = [off \in Nat |-> step(c, off)]
  <2> HIDE DEF step
  <2>1. \E c : ListOf(c, Len(data), BrokerAt(data), Following(data))
    <3>1. Len(data) \in Nat
      BY LengthIs
    <3> QED BY <3>1, FollowingIs, ListExists
  <2> QED BY <1>2, <2>1
<1> HIDE DEF step
<1>4. ListOf(f, Len(data), BrokerAt(data), Following(data))
  <2>1. f = [off \in Nat |-> step(f, off)]
    BY <1>3, Zenon
  <2> QED BY <1>2, <2>1, Zenon
<1> HIDE DEF f
<1> QED BY <1>1, <1>4

LEMMA BuildMappingStatusesIs ==
  ASSUME NEW data \in Seq(Bytes), NEW start \in Nat
  PROVE  \E f : ListOf(f, Len(data), MappingAt(data), Following(data)) /\ BuildMappingStatuses(data, start) = f[start]
<1> DEFINE step(c, off) ==
             IF off >= Len(data) THEN [cursor |-> off, read |-> <<>>]
             ELSE InFrontOf([device_name |-> GetString(data, off),
                             mapping_status |-> GetNumber(data, off + (StrLen(data, off) + 1))],
                            c[off + (StrLen(data, off) + 1) + Size["int"]])
           f == CHOOSE c : c = [off \in Nat |-> step(c, off)]
<1>1. BuildMappingStatuses(data, start) = f[start]
  BY DEF BuildMappingStatuses
<1>2. \A c : ListOf(c, Len(data), MappingAt(data), Following(data)) <=> c = [off \in Nat |-> step(c, off)]
  <2> SUFFICES ASSUME NEW c
               PROVE  ListOf(c, Len(data), MappingAt(data), Following(data)) <=> c = [off \in Nat |-> step(c, off)]
    OBVIOUS
  <2>1. \A off \in Nat : step(c, off) = IF off >= Len(data) THEN [cursor |-> off, read |-> <<>>]
                                        ELSE InFrontOf(MappingAt(data)[off], c[Following(data)[off]])
    <3> SUFFICES ASSUME NEW off \in Nat
                 PROVE  step(c, off) = IF off >= Len(data) THEN [cursor |-> off, read |-> <<>>]
                                       ELSE InFrontOf(MappingAt(data)[off], c[Following(data)[off]])
      OBVIOUS
    <3>1. Following(data)[off] = off + (StrLen(data, off) + 1) + Size["int"]
      BY DEF Following, Size
    <3>2. MappingAt(data)[off] = [device_name |-> GetString(data, off),
                                  mapping_status |-> GetNumber(data, off + (StrLen(data, off) + 1))]
      BY DEF MappingAt
    <3> QED BY <3>1, <3>2, Zenon
  <2> HIDE DEF step
  <2> QED BY <2>1 DEF ListOf
<1>3. \E c : c = [off \in Nat |-> step(c, off)]
  <2> HIDE DEF step
  <2>1. \E c : ListOf(c, Len(data), MappingAt(data), Following(data))
    <3>1. Len(data) \in Nat
      BY LengthIs
    <3> QED BY <3>1, FollowingIs, ListExists
  <2> QED BY <1>2, <2>1
<1> HIDE DEF step
<1>4. ListOf(f, Len(data), MappingAt(data), Following(data))
  <2>1. f = [off \in Nat |-> step(f, off)]
    BY <1>3, Zenon
  <2> QED BY <1>2, <2>1, Zenon
<1> HIDE DEF f
<1> QED BY <1>1, <1>4

LEMMA WholeAt ==
  ASSUME NEW data \in Seq(Bytes)
  PROVE  At(data, 0, data)
<1>1. Len(data) \in Nat
  BY LengthIs, Zenon
<1>2. \A k \in 1 .. Len(data) : 0 + k = k
  BY <1>1
<1>3. 0 + Len(data) <= Len(data)
  BY <1>1
<1> QED BY <1>2, <1>3 DEF At

LEMMA ListLength ==
  ASSUME NEW n \in Nat, NEW s, s = [k \in 1 .. n |-> s[k]]
  PROVE  Len(s) = n
OBVIOUS

\* The GUI has the addresses of the list that was sent, and the first distance.
LEMMA BrokersRead ==
  ASSUME NEW l, IsList("szAddress", "nDistance", l), Len(l) # 0
  PROVE  LET given == TranslateBrokerList(Send_BrokerList(l).data)
         IN  /\ Len(given) = Len(l)
             /\ \A k \in DOMAIN l : given[k].szAddress = Received(l[k].szAddress)
             /\ given[1].nDistance = l[1].nDistance
<1> DEFINE codes == Codes("szAddress", "nDistance", l)
           data == FlattenSeq(codes)
           n == Len(l)
<1>1. Send_BrokerList(l).data = data
  BY DEF Send_BrokerList, Codes, Element, SentBroker
<1>2. data \in Seq(Bytes)
  <2>1. "szAddress" \in Names /\ "nDistance" \in Names
    BY DEF Names
  <2> QED BY <2>1, ElementsWritten, Zenon
<1>3. n \in Nat /\ DOMAIN l = 1 .. n /\ 1 \in 1 .. n
  BY DEF IsList
<1>4. PICK f : ListOf(f, Len(data), BrokerAt(data), Following(data)) /\ BuildBrokerList(data) = f[0]
  BY <1>2, BuildBrokerListIs
<1>5. PICK ends : ElementsFound(f[0], 0, ends, "szAddress", "nDistance", l, data, BrokerAt(data))
  <2>1. At(data, 0, data)
    BY <1>2, WholeAt
  <2>2. Len(data) = 0 + Len(data)
    BY <1>2, LengthIs
  <2>3. "szAddress" \in Names /\ "nDistance" \in Names
    BY DEF Names
  <2>4. ListOf(f, Len(data), BrokerAt(data), Following(data))
    BY <1>4
  <2> QED BY <1>2, <2>1, <2>2, <2>3, <2>4, ElementsRead, Zenon
<1> DEFINE given == f[0].read
<1>5a. /\ f[0].cursor = Len(data) /\ given = [k \in 1 .. n |-> given[k]] /\ ends[0] = 0
       /\ \A k \in 1 .. n : /\ ends[k - 1] \in Nat /\ given[k] = BrokerAt(data)[ends[k - 1]]
                            /\ GetString(data, ends[k - 1]) = Received(l[k].szAddress)
                            /\ GetNumber(data, ends[k - 1] + (StrLen(data, ends[k - 1]) + 1)) = l[k].nDistance
  BY <1>5 DEF ElementsFound, ReadList
<1>6. TranslateBrokerList(data) = given
  BY <1>4, <1>5a DEF TranslateBrokerList, Whole
<1> HIDE DEF data, n, given
<1>7. \A k \in 1 .. n : given[k].szAddress = Received(l[k].szAddress)
  <2> SUFFICES ASSUME NEW k \in 1 .. n PROVE given[k].szAddress = Received(l[k].szAddress)
    OBVIOUS
  <2>1. ends[k - 1] \in Nat /\ given[k] = BrokerAt(data)[ends[k - 1]]
        /\ GetString(data, ends[k - 1]) = Received(l[k].szAddress)
    BY <1>5a
  <2>2. BrokerAt(data)[ends[k - 1]].szAddress = GetString(data, ends[k - 1])
    BY <2>1 DEF BrokerAt
  <2> QED BY <2>1, <2>2
<1>8. given[1].nDistance = l[1].nDistance
  <2>1. 1 - 1 = 0
    OBVIOUS
  <2>2. /\ given[1] = BrokerAt(data)[0] /\ GetNumber(data, 0 + (StrLen(data, 0) + 1)) = l[1].nDistance
    BY <1>3, <1>5a, <2>1
  <2>3. BrokerAt(data)[0].nDistance = GetNumber(data, 0 + (0 + (StrLen(data, 0) + 1)))
    BY DEF BrokerAt
  <2>4. 0 + (0 + (StrLen(data, 0) + 1)) = 0 + (StrLen(data, 0) + 1)
    <3>1. StrLen(data, 0) \in Nat
      BY <1>2, StrLenIs
    <3> QED BY <3>1
  <2> QED BY <2>2, <2>3, <2>4
<1>9. Len(given) = n
  BY <1>3, <1>5a, ListLength
<1> QED BY <1>1, <1>3, <1>6, <1>7, <1>8, <1>9 DEF n

LEMMA FeaturesFit ==
  ASSUME NEW i, i.haccess_proxy_status \in Bytes, i.haccess_web_status \in Bytes, i.haccess_devmapmod_status \in Bytes
  PROVE  Fits(SentFeatures, {f.name : f \in ToSet(SentFeatures)}, i)
<1>1. /\ DOMAIN SentFeatures = 1 .. 3 /\ SentFeatures[1] = IntField("haccess_proxy_status")
      /\ SentFeatures[2] = IntField("haccess_web_status") /\ SentFeatures[3] = IntField("haccess_devmapmod_status")
  BY DEF SentFeatures
<1>2. SentFeatures \in Seq(Fields)
  <2>1. /\ IntField("haccess_proxy_status") \in Fields /\ IntField("haccess_web_status") \in Fields
        /\ IntField("haccess_devmapmod_status") \in Fields
    BY DEF IntField, Fields, Names
  <2> QED BY <2>1 DEF SentFeatures
<1>3. \A k \in DOMAIN SentFeatures : SentFeatures[k].name \in {f.name : f \in ToSet(SentFeatures)}
  BY DEF ToSet
<1>4. \A k \in DOMAIN SentFeatures : Typed(SentFeatures[k], i)
  BY <1>1 DEF Typed, IntField
<1>5. \A k, m \in DOMAIN SentFeatures : SentFeatures[k].name = SentFeatures[m].name => k = m
  BY <1>1 DEF IntField
<1> QED BY <1>2, <1>3, <1>4, <1>5 DEF Fits

\* What the GUI has of the statuses that were sent.
HACCESSRead(given, i) ==
  given = [haccess_proxy_status |-> i.haccess_proxy_status, haccess_web_status |-> i.haccess_web_status,
         haccess_devmapmod_status |-> i.haccess_devmapmod_status,
         haccess_devmap_statuses |->
           [k \in DOMAIN i.haccess_devmap_statuses |->
              [device_name |-> Received(i.haccess_devmap_statuses[k].device_name),
               mapping_status |-> i.haccess_devmap_statuses[k].mapping_status]]]

LEMMA StatusesRead ==
  ASSUME NEW i, i.haccess_proxy_status \in Bytes, i.haccess_web_status \in Bytes, i.haccess_devmapmod_status \in Bytes,
         IsList("device_name", "mapping_status", i.haccess_devmap_statuses)
  PROVE  HACCESSRead(TranslateHACCESSStatusInfo(Send_HACCESSStatusInfo(i).data), i)
<1> DEFINE l == i.haccess_devmap_statuses
           names == {f.name : f \in ToSet(SentFeatures)}
           head == Encode(SentFeatures, i)
           codes == Codes("device_name", "mapping_status", l)
           tail == FlattenSeq(codes)
           data == head \o tail
           n == Len(l)
<1>1. Send_HACCESSStatusInfo(i).data = data
  BY DEF Send_HACCESSStatusInfo, Codes, Element, SentMapping
<1>2. head \in Seq(Bytes) /\ Fits(SentFeatures, names, i)
  <2>1. Fits(SentFeatures, names, i)
    BY FeaturesFit
  <2> HIDE DEF names
  <2> QED BY <2>1, Encoded
<1>3. tail \in Seq(Bytes)
  <2>1. "device_name" \in Names /\ "mapping_status" \in Names
    BY DEF Names
  <2> QED BY <2>1, ElementsWritten, Zenon
<1>4. n \in Nat /\ DOMAIN l = 1 .. n
  BY DEF IsList
<1> HIDE DEF names, head
<1>5. data \in Seq(Bytes) /\ At(data, 0, head) /\ At(data, Len(head), tail) /\ Len(data) = Len(head) + Len(tail)
  <2> HIDE DEF tail
  <2>1. Len(head \o tail) = Len(head) + Len(tail)
    BY <1>2, <1>3
  <2> QED BY <1>2, <1>3, <2>1, AtJoined
<1>6. PICK read : /\ Decode(SentFeatures, names, data) = [cursor |-> Len(head), read |-> read]
                  /\ HasRead(read, SentFeatures, Len(SentFeatures), i, names)
  <2> HIDE DEF data
  <2> QED BY <1>2, <1>5, Decoded DEF head
<1>7. /\ read.haccess_proxy_status = i.haccess_proxy_status /\ read.haccess_web_status = i.haccess_web_status
      /\ read.haccess_devmapmod_status = i.haccess_devmapmod_status
  <2>1. /\ Len(SentFeatures) = 3 /\ SentFeatures[1] = IntField("haccess_proxy_status")
        /\ SentFeatures[2] = IntField("haccess_web_status") /\ SentFeatures[3] = IntField("haccess_devmapmod_status")
    BY DEF SentFeatures
  <2>2. \A k \in 1 .. 3 : read[SentFeatures[k].name] = Value(SentFeatures[k], i)
    BY <1>6, <2>1 DEF HasRead
  <2> QED BY <2>1, <2>2 DEF IntField, Value
<1>8. Len(head) \in Nat
  BY <1>2
<1>9. PICK f : ListOf(f, Len(data), MappingAt(data), Following(data)) /\ BuildMappingStatuses(data, Len(head)) = f[Len(head)]
  <2> HIDE DEF data
  <2> QED BY <1>5, <1>8, BuildMappingStatusesIs
<1>10. PICK ends : ElementsFound(f[Len(head)], Len(head), ends, "device_name", "mapping_status", l, data, MappingAt(data))
  <2>1. "device_name" \in Names /\ "mapping_status" \in Names
    BY DEF Names
  <2>2. ListOf(f, Len(data), MappingAt(data), Following(data))
    BY <1>9
  <2> QED BY <1>5, <2>1, <2>2, ElementsRead, Zenon
<1> DEFINE given == f[Len(head)].read
<1>11. /\ f[Len(head)].cursor = Len(data) /\ given = [k \in 1 .. n |-> given[k]]
       /\ \A k \in 1 .. n : /\ ends[k - 1] \in Nat /\ given[k] = MappingAt(data)[ends[k - 1]]
                            /\ GetString(data, ends[k - 1]) = Received(l[k].device_name)
                            /\ GetNumber(data, ends[k - 1] + (StrLen(data, ends[k - 1]) + 1)) = l[k].mapping_status
  <2> HIDE DEF data
  <2> QED BY <1>10 DEF ElementsFound, ReadList
<1>12. TranslateHACCESSStatusInfo(data) =
         [haccess_proxy_status |-> i.haccess_proxy_status, haccess_web_status |-> i.haccess_web_status,
          haccess_devmapmod_status |-> i.haccess_devmapmod_status, haccess_devmap_statuses |-> given]
  <2> HIDE DEF data
  <2> QED BY <1>6, <1>7, <1>9, <1>11 DEF TranslateHACCESSStatusInfo, Whole, names
<1> HIDE DEF data, n, given
<1>13. \A k \in 1 .. n : given[k] = [device_name |-> Received(l[k].device_name), mapping_status |-> l[k].mapping_status]
  <2> SUFFICES ASSUME NEW k \in 1 .. n
               PROVE  given[k] = [device_name |-> Received(l[k].device_name), mapping_status |-> l[k].mapping_status]
    OBVIOUS
  <2> DEFINE off == ends[k - 1]
  <2>1. /\ off \in Nat /\ given[k] = MappingAt(data)[off] /\ GetString(data, off) = Received(l[k].device_name)
        /\ GetNumber(data, off + (StrLen(data, off) + 1)) = l[k].mapping_status
    BY <1>11
  <2> HIDE DEF off
  <2>2. MappingAt(data)[off] = [device_name |-> GetString(data, off),
                                mapping_status |-> GetNumber(data, off + (StrLen(data, off) + 1))]
    BY <2>1 DEF MappingAt
  <2> QED BY <2>1, <2>2
<1>14. given = [k \in DOMAIN l |-> [device_name |-> Received(l[k].device_name), mapping_status |-> l[k].mapping_status]]
  <2> HIDE DEF l
  <2> QED BY <1>4, <1>11, <1>13
<1>15. HACCESSRead(TranslateHACCESSStatusInfo(data), i)
  BY <1>12, <1>14 DEF HACCESSRead, l
<1> QED BY <1>1, <1>15

LEMMA WholeDecoded ==
  ASSUME NEW layout, NEW names, NEW struct, Fits(layout, names, struct)
  PROVE  HasRead(Whole(Decode(layout, names, Encode(layout, struct)), Encode(layout, struct)),
                 layout, Len(layout), struct, names)
<1> DEFINE data == Encode(layout, struct)
<1>1. data \in Seq(Bytes)
  BY Encoded
<1>2. At(data, 0, data)
  BY <1>1, WholeAt
<1>3. PICK read : /\ Decode(layout, names, data) = [cursor |-> Len(data), read |-> read]
                  /\ HasRead(read, layout, Len(layout), struct, names)
  BY <1>1, <1>2, Decoded
<1> HIDE DEF data
<1>4. Whole(Decode(layout, names, data), data) = read
  BY <1>3 DEF Whole
<1> QED BY <1>3, <1>4 DEF data

LEMMA StatusRead ==
  ASSUME NEW i \in [eStatus : Bytes, nStatus : Bytes]
  PROVE  TranslateStatusInfo(Send_StatusInfo(i).data) = i
<1> DEFINE names == {"eStatus", "nStatus"}
<1>1. /\ Len(SentStatusInfo) = 2 /\ DOMAIN SentStatusInfo = 1 .. 2
      /\ SentStatusInfo[1] = IntField("eStatus") /\ SentStatusInfo[2] = IntField("nStatus")
  BY DEF SentStatusInfo
<1>2. Fits(SentStatusInfo, names, i)
  <2>1. SentStatusInfo \in Seq(Fields)
    <3>1. IntField("eStatus") \in Fields /\ IntField("nStatus") \in Fields
      BY DEF IntField, Fields, Names
    <3> QED BY <3>1 DEF SentStatusInfo
  <2>2. \A k \in DOMAIN SentStatusInfo : Typed(SentStatusInfo[k], i) /\ SentStatusInfo[k].name \in names
    BY <1>1 DEF Typed, IntField
  <2>3. \A k, m \in DOMAIN SentStatusInfo : SentStatusInfo[k].name = SentStatusInfo[m].name => k = m
    BY <1>1 DEF IntField
  <2> QED BY <2>1, <2>2, <2>3 DEF Fits
<1> DEFINE given == TranslateStatusInfo(Send_StatusInfo(i).data)
<1>3. HasRead(given, SentStatusInfo, Len(SentStatusInfo), i, names)
  <2>1. given = Whole(Decode(SentStatusInfo, names, Encode(SentStatusInfo, i)), Encode(SentStatusInfo, i))
    BY DEF TranslateStatusInfo, Send_StatusInfo, SentStatusInfo
  <2> HIDE DEF given, names
  <2> QED BY <1>2, <2>1, WholeDecoded
<1> HIDE DEF given
<1>4. \A k \in 1 .. 2 : given[SentStatusInfo[k].name] = Value(SentStatusInfo[k], i)
  BY <1>1, <1>3 DEF HasRead
<1>5. given["eStatus"] = i["eStatus"] /\ given["nStatus"] = i["nStatus"] /\ given = [n \in names |-> given[n]]
  BY <1>1, <1>3, <1>4 DEF HasRead, IntField, Value
<1>6. i = [n \in names |-> i[n]]
  OBVIOUS
<1>7. given = i
  BY <1>5, <1>6
<1> QED BY <1>7 DEF given

TunnelNames == TunnelStrings \cup {"eTunnelType", "tunnelUpTime"}

TunnelRead(given, i) ==
  given = [n \in DOMAIN i |-> IF n = "szIPV6AddrDns" THEN Garbage
                            ELSE IF n \in TunnelStrings THEN Received(i[n]) ELSE i[n]]

LEMMA TunnelFits ==
  ASSUME NEW i, \A n \in TunnelStrings : i[n] \in Texts, i["eTunnelType"] \in Bytes, i["tunnelUpTime"] \in Bytes
  PROVE  Fits(SentTunnelInfo, TunnelNames, i)
<1>1. DOMAIN SentTunnelInfo = 1 .. 9
  BY DEF SentTunnelInfo
<1>2. /\ SentTunnelInfo[1] = StrField("szBrokerName") /\ SentTunnelInfo[2] = IntField("eTunnelType")
      /\ SentTunnelInfo[3] = StrField("szIPV4AddrLocalEndpoint") /\ SentTunnelInfo[4] = StrField("szIPV6AddrLocalEndpoint")
      /\ SentTunnelInfo[5] = StrField("szIPV4AddrRemoteEndpoint") /\ SentTunnelInfo[6] = StrField("szIPV6AddrRemoteEndpoint")
      /\ SentTunnelInfo[7] = StrField("szDelegatedPrefix") /\ SentTunnelInfo[8] = StrField("szUserDomain")
      /\ SentTunnelInfo[9] = IntField("tunnelUpTime")
  BY DEF SentTunnelInfo
<1>3. SentTunnelInfo \in Seq(Fields)
  <2>1. \A n \in TunnelNames : n \in Names /\ StrField(n) \in Fields /\ IntField(n) \in Fields
    BY DEF TunnelNames, Names, Fields, StrField, IntField
  <2>2. \A k \in 1 .. 9 : SentTunnelInfo[k] \in Fields
    BY <1>2, <2>1 DEF TunnelNames, TunnelStrings
  <2>3. SentTunnelInfo = [k \in 1 .. 9 |-> SentTunnelInfo[k]]
    BY DEF SentTunnelInfo
  <2>4. SentTunnelInfo \in [1 .. 9 -> Fields]
    BY <2>2, <2>3
  <2> QED BY <2>4, SequenceIs
<1>4. \A k \in DOMAIN SentTunnelInfo : Typed(SentTunnelInfo[k], i) /\ SentTunnelInfo[k].name \in TunnelNames
  <2>1. \A n \in TunnelNames : Typed(StrField(n), i) <=> i[n] \in Texts
    BY DEF Typed, StrField
  <2>2. \A n \in TunnelNames : Typed(IntField(n), i) <=> i[n] \in Bytes
    BY DEF Typed, IntField
  <2>3. \A n \in TunnelNames : StrField(n).name = n /\ IntField(n).name = n
    BY DEF StrField, IntField
  <2>4. \A k \in 1 .. 9 : \E n \in TunnelNames :
          \/ SentTunnelInfo[k] = StrField(n) /\ n \in TunnelStrings
          \/ SentTunnelInfo[k] = IntField(n) /\ n \in {"eTunnelType", "tunnelUpTime"}
    BY <1>2 DEF TunnelNames, TunnelStrings
  <2> QED BY <1>1, <2>1, <2>2, <2>3, <2>4
<1>5. \A k, m \in DOMAIN SentTunnelInfo : SentTunnelInfo[k].name = SentTunnelInfo[m].name => k = m
  BY <1>1, <1>2 DEF StrField, IntField
<1> QED BY <1>3, <1>4, <1>5 DEF Fits

LEMMA TunnelInfoRead ==
  ASSUME NEW i, DOMAIN i = TunnelNames,
         \A n \in TunnelStrings : i[n] \in Texts, i["eTunnelType"] \in Bytes, i["tunnelUpTime"] \in Bytes
  PROVE  TunnelRead(TranslateTunnelInfo(Send_TunnelInfo(i).data), i)
<1> DEFINE given == TranslateTunnelInfo(Send_TunnelInfo(i).data)
<1>1. HasRead(given, SentTunnelInfo, Len(SentTunnelInfo), i, TunnelNames)
  <2>1. Send_TunnelInfo(i).data = Encode(SentTunnelInfo, i) /\ ReceivedTunnelInfo = SentTunnelInfo
    BY DEF Send_TunnelInfo, ReceivedTunnelInfo, SentTunnelInfo
  <2>2. given = Whole(Decode(SentTunnelInfo, TunnelNames, Encode(SentTunnelInfo, i)), Encode(SentTunnelInfo, i))
    BY <2>1 DEF TranslateTunnelInfo, TunnelNames
  <2> HIDE DEF given
  <2> QED BY <2>2, TunnelFits, WholeDecoded
<1> HIDE DEF given
<1>2. Len(SentTunnelInfo) = 9
  BY DEF SentTunnelInfo
<1>3. /\ SentTunnelInfo[1] = StrField("szBrokerName") /\ SentTunnelInfo[2] = IntField("eTunnelType")
      /\ SentTunnelInfo[3] = StrField("szIPV4AddrLocalEndpoint") /\ SentTunnelInfo[4] = StrField("szIPV6AddrLocalEndpoint")
      /\ SentTunnelInfo[5] = StrField("szIPV4AddrRemoteEndpoint") /\ SentTunnelInfo[6] = StrField("szIPV6AddrRemoteEndpoint")
      /\ SentTunnelInfo[7] = StrField("szDelegatedPrefix") /\ SentTunnelInfo[8] = StrField("szUserDomain")
      /\ SentTunnelInfo[9] = IntField("tunnelUpTime")
  BY DEF SentTunnelInfo
<1>4. \A k \in 1 .. 9 : given[SentTunnelInfo[k].name] = Value(SentTunnelInfo[k], i)
  BY <1>1, <1>2 DEF HasRead
<1>5. given = [n \in TunnelNames |-> given[n]]
  BY <1>1 DEF HasRead
<1>6. \A n \in TunnelStrings \ {"szIPV6AddrDns"} : given[n] = Received(i[n])
  <2>1. \A n \in TunnelStrings \ {"szIPV6AddrDns"} : \E k \in 1 .. 9 : SentTunnelInfo[k] = StrField(n)
    BY <1>3 DEF TunnelStrings
  <2>2. \A n : StrField(n).name = n /\ Value(StrField(n), i) = Received(i[n])
    BY DEF StrField, Value
  <2> QED BY <1>4, <2>1, <2>2
<1>7. given["eTunnelType"] = i["eTunnelType"] /\ given["tunnelUpTime"] = i["tunnelUpTime"]
  <2>1. \A n : IntField(n).name = n /\ Value(IntField(n), i) = i[n]
    BY DEF IntField, Value
  <2> QED BY <1>3, <1>4, <2>1
<1>8. given["szIPV6AddrDns"] = Garbage
  <2>1. \A k \in 1 .. 9 : SentTunnelInfo[k].name # "szIPV6AddrDns"
    BY <1>3 DEF StrField, IntField
  <2>2. "szIPV6AddrDns" \in TunnelNames
    BY DEF TunnelNames, TunnelStrings
  <2> QED BY <1>1, <1>2, <2>1, <2>2 DEF HasRead
<1>9. \A n \in TunnelNames : given[n] = IF n = "szIPV6AddrDns" THEN Garbage
                                      ELSE IF n \in TunnelStrings THEN Received(i[n]) ELSE i[n]
  BY <1>6, <1>7, <1>8 DEF TunnelNames
<1>10. TunnelRead(given, i)
  BY <1>5, <1>9 DEF TunnelRead
<1> QED BY <1>10 DEF given

ConfigRead(given, i) ==
  given = [haccess_doc_root |-> Received(i.haccess_doc_root), haccess_proxy_enabled |-> i.haccess_proxy_enabled,
         haccess_web_enabled |-> i.haccess_web_enabled, haccess_devmap_changed |-> i.haccess_devmap_changed]

LEMMA ConfigInfoRead ==
  ASSUME NEW i, i.haccess_doc_root \in Texts, i.haccess_proxy_enabled \in Bytes, i.haccess_web_enabled \in Bytes,
         i.haccess_devmap_changed \in Bytes
  PROVE  ConfigRead(TranslateHACCESSConfigInfo(Send_HACCESSConfigInfo(i).data), i)
<1> DEFINE names == {f.name : f \in ToSet(SentConfigInfo)}
           given == TranslateHACCESSConfigInfo(Send_HACCESSConfigInfo(i).data)
<1>1. /\ DOMAIN SentConfigInfo = 1 .. 4 /\ Len(SentConfigInfo) = 4
      /\ SentConfigInfo[1] = StrField("haccess_doc_root") /\ SentConfigInfo[2] = ShortField("haccess_proxy_enabled")
      /\ SentConfigInfo[3] = ShortField("haccess_web_enabled") /\ SentConfigInfo[4] = ShortField("haccess_devmap_changed")
  BY DEF SentConfigInfo
<1>2. names = {"haccess_doc_root", "haccess_proxy_enabled", "haccess_web_enabled", "haccess_devmap_changed"}
  <2>1. ToSet(SentConfigInfo) = {SentConfigInfo[k] : k \in 1 .. 4}
    BY <1>1 DEF ToSet
  <2>2. ToSet(SentConfigInfo) = {StrField("haccess_doc_root"), ShortField("haccess_proxy_enabled"),
                                 ShortField("haccess_web_enabled"), ShortField("haccess_devmap_changed")}
    <3>1. \A k : k \in 1 .. 4 <=> k \in {1, 2, 3, 4}
      OBVIOUS
    <3> QED BY <1>1, <2>1, <3>1
  <2>3. /\ StrField("haccess_doc_root").name = "haccess_doc_root"
        /\ ShortField("haccess_proxy_enabled").name = "haccess_proxy_enabled"
        /\ ShortField("haccess_web_enabled").name = "haccess_web_enabled"
        /\ ShortField("haccess_devmap_changed").name = "haccess_devmap_changed"
    BY DEF StrField, ShortField
  <2> QED BY <2>2, <2>3
<1>3. Fits(SentConfigInfo, names, i)
  <2>1. SentConfigInfo \in Seq(Fields)
    <3>1. /\ StrField("haccess_doc_root") \in Fields /\ ShortField("haccess_proxy_enabled") \in Fields
          /\ ShortField("haccess_web_enabled") \in Fields /\ ShortField("haccess_devmap_changed") \in Fields
      BY DEF StrField, ShortField, Fields, Names
    <3> QED BY <3>1 DEF SentConfigInfo
  <2>2. \A k \in DOMAIN SentConfigInfo : Typed(SentConfigInfo[k], i)
    BY <1>1 DEF Typed, StrField, ShortField
  <2>3. \A k \in DOMAIN SentConfigInfo : SentConfigInfo[k].name \in names
    BY DEF ToSet
  <2>4. \A k, m \in DOMAIN SentConfigInfo : SentConfigInfo[k].name = SentConfigInfo[m].name => k = m
    BY <1>1 DEF StrField, ShortField
  <2> QED BY <2>1, <2>2, <2>3, <2>4 DEF Fits
<1>4. HasRead(given, SentConfigInfo, Len(SentConfigInfo), i, names)
  <2>1. given = Whole(Decode(SentConfigInfo, names, Encode(SentConfigInfo, i)), Encode(SentConfigInfo, i))
    BY DEF TranslateHACCESSConfigInfo, Send_HACCESSConfigInfo
  <2> HIDE DEF given, names
  <2> QED BY <1>3, <2>1, WholeDecoded
<1> HIDE DEF given, names
<1>5. \A k \in 1 .. 4 : given[SentConfigInfo[k].name] = Value(SentConfigInfo[k], i)
  BY <1>1, <1>4 DEF HasRead
<1>6. /\ given["haccess_doc_root"] = Received(i.haccess_doc_root)
      /\ given["haccess_proxy_enabled"] = i.haccess_proxy_enabled
      /\ given["haccess_web_enabled"] = i.haccess_web_enabled
      /\ given["haccess_devmap_changed"] = i.haccess_devmap_changed
  BY <1>1, <1>5 DEF StrField, ShortField, Value
<1>7. given = [n \in names |-> given[n]]
  BY <1>4 DEF HasRead
<1>8. ConfigRead(given, i)
  BY <1>2, <1>6, <1>7 DEF ConfigRead
<1> QED BY <1>8 DEF given

-----------------------------------------------------------------------------
(* InfoKept.                                                                *)

StatusInfos == [eStatus : Bytes, nStatus : Bytes]
BrokerLists == Seq([szAddress : Texts, nDistance : Bytes])
HACCESSInfos ==
  [haccess_proxy_status : Bytes, haccess_web_status : Bytes, haccess_devmapmod_status : Bytes,
   haccess_devmap_statuses : Seq([device_name : Texts, mapping_status : Bytes])]
ConfigInfos ==
  [haccess_doc_root : Texts, haccess_proxy_enabled : Bytes, haccess_web_enabled : Bytes,
   haccess_devmap_changed : Bytes]
IsTunnel(i) ==
  /\ DOMAIN i = TunnelNames /\ \A n \in TunnelStrings : i[n] \in Texts
  /\ i["eTunnelType"] \in Bytes /\ i["tunnelUpTime"] \in Bytes

\* What gogoCLIENT has to tell can be put in a message.
TypedInfo(i) ==
  /\ i.status \in StatusInfos /\ IsTunnel(i.tunnel)
  /\ i.brokers = NULL \/ i.brokers \in BrokerLists
  /\ i.haccess = NULL \/ i.haccess \in HACCESSInfos

\* A message is a request, or what its sender made of a structure of its type.
MadeFrom(m, i) ==
  \/ m.id \in RequestIds
  \/ m.id = "STATUSINFO" /\ i \in StatusInfos /\ m = Send_StatusInfo(i)
  \/ m.id = "TUNNELINFO" /\ IsTunnel(i) /\ m = Send_TunnelInfo(i)
  \/ m.id = "BROKERLIST" /\ i \in BrokerLists /\ Len(i) # 0 /\ m = Send_BrokerList(i)
  \/ m.id = "HACCESSSTATUSINFO" /\ i \in HACCESSInfos /\ m = Send_HACCESSStatusInfo(i)
  \/ m.id = "HACCESSCONFIGINFO" /\ i \in ConfigInfos /\ m = Send_HACCESSConfigInfo(i)

\* InfoKept, handler by handler.
Kept(h) ==
  \/ h.by = "none"
  \/ h.by = "STATUSINFO" /\ h.struct = h.of
  \/ h.by = "TUNNELINFO" /\ TunnelRead(h.struct, h.of)
  \/ /\ h.by = "BROKERLIST"
     /\ Len(h.struct) = Len(h.of) /\ \A k \in DOMAIN h.of : h.struct[k].szAddress = Received(h.of[k].szAddress)
     /\ h.struct[1].nDistance = h.of[1].nDistance
  \/ h.by = "HACCESSSTATUSINFO" /\ HACCESSRead(h.struct, h.of) /\ h.of \in HACCESSInfos
  \/ h.by = "NotifyhaccessConfigInfo" /\ ConfigRead(h.struct, h.of) /\ h.of \in ConfigInfos

CodecInv == TypedInfo(info) /\ (message # NULL => MadeFrom(message, meant)) /\ Kept(handled)

LEMMA ElementIn ==
  ASSUME NEW S, NEW l \in Seq(S)
  PROVE  \A k \in DOMAIN l : l[k] \in S
OBVIOUS

LEMMA KeptIsInfoKept == Kept(handled) => InfoKept
<1> SUFFICES ASSUME Kept(handled) PROVE InfoKept
  OBVIOUS
<1> DEFINE given == handled.struct
           was == handled.of
<1>1. CASE handled.by = "none"
  BY <1>1 DEF InfoKept
<1>2. CASE handled.by = "STATUSINFO" /\ given = was
  BY <1>2 DEF InfoKept
<1>3. CASE handled.by = "TUNNELINFO" /\ TunnelRead(given, was)
  BY <1>3 DEF InfoKept, TunnelRead
<1>4. CASE /\ handled.by = "BROKERLIST"
           /\ Len(given) = Len(was) /\ \A k \in DOMAIN was : given[k].szAddress = Received(was[k].szAddress)
           /\ given[1].nDistance = was[1].nDistance
  BY <1>4 DEF InfoKept
<1>5. CASE handled.by = "HACCESSSTATUSINFO" /\ HACCESSRead(given, was) /\ was \in HACCESSInfos
  <2> DEFINE l == was.haccess_devmap_statuses
             new == ReceivedMappings(l)
  <2>1. l \in Seq([device_name : Texts, mapping_status : Bytes])
    BY <1>5 DEF HACCESSInfos
  <2>2. new = [k \in DOMAIN l |-> [device_name |-> Received(l[k].device_name), mapping_status |-> l[k].mapping_status]]
    <3> HIDE DEF l
    <3>1. \A k \in DOMAIN l : l[k] \in [device_name : Texts, mapping_status : Bytes]
      BY <2>1, ElementIn
    <3>2. \A k \in DOMAIN l : [l[k] EXCEPT !.device_name = Received(l[k].device_name)]
                              = [device_name |-> Received(l[k].device_name), mapping_status |-> l[k].mapping_status]
      BY <3>1
    <3> QED BY <3>2 DEF ReceivedMappings
  <2>3. given = [was EXCEPT !.haccess_devmap_statuses = new]
    <3>1. given = [haccess_proxy_status |-> was.haccess_proxy_status, haccess_web_status |-> was.haccess_web_status,
                 haccess_devmapmod_status |-> was.haccess_devmapmod_status, haccess_devmap_statuses |-> new]
      BY <1>5, <2>2 DEF HACCESSRead
    <3> HIDE DEF new, given, was
    <3>2. was \in HACCESSInfos
      BY <1>5 DEF was
    <3> QED BY <3>1, <3>2 DEF HACCESSInfos
  <2>4. handled.by = "HACCESSSTATUSINFO"
    BY <1>5
  <2> QED BY <2>3, <2>4, Zenon DEF InfoKept
<1>6. CASE handled.by = "NotifyhaccessConfigInfo" /\ ConfigRead(given, was) /\ was \in ConfigInfos
  <2>1. given = [was EXCEPT !.haccess_doc_root = Received(was.haccess_doc_root)]
    <3> HIDE DEF given, was
    <3> QED BY <1>6 DEF ConfigRead, ConfigInfos
  <2> QED BY <1>6, <2>1 DEF InfoKept
<1> QED BY <1>1, <1>2, <1>3, <1>4, <1>5, <1>6 DEF Kept

LEMMA StringsAreTexts == Strings \subseteq Texts /\ Numbers \subseteq Bytes
BY MsgCodecAssumption DEF Texts, Letters, Bytes

LEMMA ListsAreSeqs ==
  ASSUME NEW S, NEW l \in Lists(S)
  PROVE  l \in Seq(S)
<1>1. PICK n \in 0 .. MaxList : l \in [1 .. n -> S]
  BY DEF Lists
<1>2. n \in Nat
  OBVIOUS
<1> QED BY <1>1, <1>2, SequenceIs

LEMMA BrokersAreList ==
  ASSUME NEW l \in Seq([szAddress : Texts, nDistance : Bytes])
  PROVE  IsList("szAddress", "nDistance", l)
<1>1. Len(l) \in Nat /\ DOMAIN l = 1 .. Len(l)
  OBVIOUS
<1>2. \A k \in DOMAIN l : l[k] \in [szAddress : Texts, nDistance : Bytes]
  BY ElementIn
<1>3. \A k \in DOMAIN l : l[k].szAddress \in Texts /\ l[k].nDistance \in Bytes
  BY <1>2
<1> QED BY <1>1, <1>3 DEF IsList

LEMMA MappingsAreList ==
  ASSUME NEW l \in Seq([device_name : Texts, mapping_status : Bytes])
  PROVE  IsList("device_name", "mapping_status", l)
<1>1. Len(l) \in Nat /\ DOMAIN l = 1 .. Len(l)
  OBVIOUS
<1>2. \A k \in DOMAIN l : l[k] \in [device_name : Texts, mapping_status : Bytes]
  BY ElementIn
<1>3. \A k \in DOMAIN l : l[k].device_name \in Texts /\ l[k].mapping_status \in Bytes
  BY <1>2
<1> QED BY <1>1, <1>3 DEF IsList

LEMMA SeqOfMore ==
  ASSUME NEW S, NEW T, S \subseteq T, NEW l \in Seq(S)
  PROVE  l \in Seq(T)
OBVIOUS

LEMMA StructuresTyped ==
  /\ gogocStatusInfo \subseteq StatusInfos /\ HACCESSConfigInfo \subseteq ConfigInfos
  /\ \A i \in gogocTunnelInfo : IsTunnel(i)
  /\ gogocBrokerList \subseteq BrokerLists /\ HACCESSStatusInfo \subseteq HACCESSInfos
<1>1. gogocStatusInfo \subseteq StatusInfos
  BY StringsAreTexts DEF gogocStatusInfo, StatusInfos
<1>2. HACCESSConfigInfo \subseteq ConfigInfos
  BY StringsAreTexts DEF HACCESSConfigInfo, ConfigInfos
<1>3. ASSUME NEW i \in gogocTunnelInfo PROVE IsTunnel(i)
  <2>1. PICK one \in TunnelStrings, s \in Strings, v \in Numbers :
          i = [n \in TunnelNames |-> IF n = one THEN s ELSE IF n \in TunnelStrings THEN NULL ELSE v]
    BY DEF gogocTunnelInfo, TunnelNames
  <2>2. s \in Texts /\ v \in Bytes /\ NULL \in Texts
    BY StringsAreTexts DEF Texts
  <2>3. /\ \A n \in TunnelStrings : n \in TunnelNames
        /\ "eTunnelType" \in TunnelNames /\ "tunnelUpTime" \in TunnelNames
        /\ "eTunnelType" \notin TunnelStrings /\ "tunnelUpTime" \notin TunnelStrings
    BY DEF TunnelNames, TunnelStrings
  <2>4. \A n \in TunnelStrings : i[n] \in Texts
    BY <2>1, <2>2, <2>3
  <2>5. i["eTunnelType"] = v /\ i["tunnelUpTime"] = v
    BY <2>1, <2>3
  <2>6. DOMAIN i = TunnelNames
    BY <2>1
  <2> QED BY <2>2, <2>4, <2>5, <2>6 DEF IsTunnel
<1>4. ASSUME NEW l \in gogocBrokerList PROVE l \in BrokerLists
  <2>1. [szAddress : Strings, nDistance : Numbers] \subseteq [szAddress : Texts, nDistance : Bytes]
    BY StringsAreTexts
  <2>2. l \in Seq([szAddress : Strings, nDistance : Numbers])
    BY ListsAreSeqs DEF gogocBrokerList
  <2> QED BY <2>1, <2>2, SeqOfMore DEF BrokerLists
<1>5. ASSUME NEW i \in HACCESSStatusInfo PROVE i \in HACCESSInfos
  <2>1. [device_name : Strings, mapping_status : Numbers] \subseteq [device_name : Texts, mapping_status : Bytes]
    BY StringsAreTexts
  <2>2. \A l \in MAPPING_STATUS : l \in Seq([device_name : Texts, mapping_status : Bytes])
    <3> SUFFICES ASSUME NEW l \in MAPPING_STATUS
                 PROVE  l \in Seq([device_name : Texts, mapping_status : Bytes])
      OBVIOUS
    <3>1. l \in Seq([device_name : Strings, mapping_status : Numbers])
      BY ListsAreSeqs DEF MAPPING_STATUS
    <3> QED BY <2>1, <3>1, SeqOfMore
  <2> QED BY <2>2, StringsAreTexts DEF HACCESSStatusInfo, HACCESSInfos
<1> QED BY <1>1, <1>2, <1>3, <1>4, <1>5

LEMMA NothingTyped ==
  /\ TypedInfo(Nothing)
  /\ \A s \in StatusInfos : TypedInfo([Nothing EXCEPT !.status = s])
  /\ \A t : IsTunnel(t) => TypedInfo([Nothing EXCEPT !.tunnel = t])
  /\ \A l : l = NULL \/ l \in BrokerLists => TypedInfo([Nothing EXCEPT !.brokers = l])
  /\ \A h : h = NULL \/ h \in HACCESSInfos => TypedInfo([Nothing EXCEPT !.haccess = h])
<1>1. Quiet \in StatusInfos
  BY DEF Quiet, StatusInfos, Bytes
<1>2. IsTunnel(NoTunnel)
  <2>1. DOMAIN NoTunnel = TunnelNames
    BY DEF NoTunnel, TunnelNames
  <2>2. /\ \A n \in TunnelStrings : n \in TunnelNames
        /\ "eTunnelType" \in TunnelNames /\ "tunnelUpTime" \in TunnelNames
        /\ "eTunnelType" \notin TunnelStrings /\ "tunnelUpTime" \notin TunnelStrings
    BY DEF TunnelNames, TunnelStrings
  <2>3. NoTunnel = [n \in TunnelNames |-> IF n \in TunnelStrings THEN NULL ELSE 0]
    BY DEF NoTunnel, TunnelNames
  <2>4. \A n \in TunnelStrings : NoTunnel[n] = NULL
    BY <2>2, <2>3
  <2>5. NoTunnel["eTunnelType"] = 0 /\ NoTunnel["tunnelUpTime"] = 0
    BY <2>2, <2>3
  <2> QED BY <2>1, <2>4, <2>5 DEF IsTunnel, Texts, Bytes
<1>3. <<>> \in BrokerLists
  BY DEF BrokerLists
<1> HIDE DEF IsTunnel
<1> QED BY <1>1, <1>2, <1>3 DEF Nothing, TypedInfo

LEMMA CodecInitial == CodecInit => CodecInv
<1> SUFFICES ASSUME CodecInit PROVE CodecInv
  OBVIOUS
<1>1. TypedInfo(info)
  BY NothingTyped DEF CodecInit
<1>2. Kept(handled)
  BY DEF CodecInit, NotHandled, Kept
<1> QED BY <1>1, <1>2 DEF CodecInit, CodecInv

\* What the senders make.
LEMMA Made ==
  /\ \A id \in RequestIds : \A i : MadeFrom(Send_Request(id), i)
  /\ \A i \in StatusInfos : MadeFrom(Send_StatusInfo(i), i)
  /\ \A i : IsTunnel(i) => MadeFrom(Send_TunnelInfo(i), i)
  /\ \A i \in BrokerLists : i # <<>> => MadeFrom(Send_BrokerList(i), i)
  /\ \A i \in HACCESSInfos : MadeFrom(Send_HACCESSStatusInfo(i), i)
  /\ \A i \in ConfigInfos : MadeFrom(Send_HACCESSConfigInfo(i), i)
<1>1. \A id \in RequestIds : Send_Request(id).id = id
  BY DEF Send_Request
<1>2. \A i : /\ Send_StatusInfo(i).id = "STATUSINFO" /\ Send_TunnelInfo(i).id = "TUNNELINFO"
             /\ Send_BrokerList(i).id = "BROKERLIST" /\ Send_HACCESSStatusInfo(i).id = "HACCESSSTATUSINFO"
             /\ Send_HACCESSConfigInfo(i).id = "HACCESSCONFIGINFO"
  BY DEF Send_StatusInfo, Send_TunnelInfo, Send_BrokerList, Send_HACCESSStatusInfo, Send_HACCESSConfigInfo
<1>3. \A i \in BrokerLists : i # <<>> => Len(i) # 0
  BY DEF BrokerLists
<1> QED BY <1>1, <1>2, <1>3, Zenon DEF MadeFrom

LEMMA Posted ==
  ASSUME CodecInv, NEW m, NEW struct, MadeFrom(m, struct), Post(m, struct), UNCHANGED info
  PROVE  CodecInv'
<1>1. TypedInfo(info')
  BY DEF CodecInv
<1>2. message' # NULL => MadeFrom(message', meant')
  <2>1. (message' = NULL \/ message' = m) /\ meant' = struct
    BY DEF Post
  <2> QED BY <2>1
<1>3. Kept(handled')
  BY DEF Post, NotHandled, Kept
<1> QED BY <1>1, <1>2, <1>3 DEF CodecInv

LEMMA Answered ==
  ASSUME CodecInv, NEW m, NEW struct, MadeFrom(m, struct), Answer(m, struct), UNCHANGED <<info, handled>>
  PROVE  CodecInv'
<1>1. TypedInfo(info') /\ Kept(handled')
  BY DEF CodecInv
<1>2. message' # NULL => MadeFrom(message', meant')
  <2>1. (message' = NULL \/ message' = m) /\ meant' = struct
    BY DEF Answer
  <2> QED BY <2>1
<1> QED BY <1>1, <1>2 DEF CodecInv

LEMMA NotAnswered ==
  ASSUME CodecInv, message' = NULL, Kept(handled'), UNCHANGED info
  PROVE  CodecInv'
<1>1. TypedInfo(info')
  BY DEF CodecInv
<1> QED BY <1>1 DEF CodecInv

LEMMA GogocProcessesKeeps ==
  ASSUME CodecInv, GogocProcesses
  PROVE  CodecInv'
<1>1. UNCHANGED info /\ message # NULL
  BY DEF GogocProcesses
<1>2. info.status \in StatusInfos /\ IsTunnel(info.tunnel)
  BY DEF CodecInv, TypedInfo
<1>3. Kept(handled) /\ MadeFrom(message, meant)
  BY <1>1 DEF CodecInv
<1>4. CASE message.id = "REQUEST_STATUSINFO" /\ Answer(Send_StatusInfo(info.status), info.status) /\ UNCHANGED handled
  BY <1>1, <1>2, <1>4, Made, Answered
<1>5. CASE message.id = "REQUEST_TUNNELINFO" /\ Answer(Send_TunnelInfo(info.tunnel), info.tunnel) /\ UNCHANGED handled
  BY <1>1, <1>2, <1>5, Made, Answered
<1>6. CASE /\ message.id = "REQUEST_BROKERLIST" /\ UNCHANGED handled
           /\ \/ info.brokers = NULL /\ NoAnswer
              \/ info.brokers # NULL /\ info.brokers = <<>> /\ aborted' = TRUE /\ message' = NULL /\ meant' = NULL
              \/ info.brokers \notin {NULL, <<>>} /\ Answer(Send_BrokerList(info.brokers), info.brokers)
  <2>1. CASE message' = NULL
    BY <1>1, <1>3, <1>6, <2>1, NotAnswered
  <2>2. CASE info.brokers \notin {NULL, <<>>} /\ Answer(Send_BrokerList(info.brokers), info.brokers)
    <3>1. MadeFrom(Send_BrokerList(info.brokers), info.brokers)
      BY <2>2, Made DEF CodecInv, TypedInfo
    <3> QED BY <1>1, <1>6, <2>2, <3>1, Answered
  <2> QED BY <1>6, <2>1, <2>2 DEF NoAnswer
<1>7. CASE /\ message.id = "REQUEST_HACCESSSTATUSINFO" /\ UNCHANGED handled
           /\ IF info.haccess = NULL THEN NoAnswer ELSE Answer(Send_HACCESSStatusInfo(info.haccess), info.haccess)
  <2>1. CASE message' = NULL
    BY <1>1, <1>3, <1>7, <2>1, NotAnswered
  <2>2. CASE info.haccess # NULL /\ Answer(Send_HACCESSStatusInfo(info.haccess), info.haccess)
    <3>1. MadeFrom(Send_HACCESSStatusInfo(info.haccess), info.haccess)
      BY <2>2, Made DEF CodecInv, TypedInfo
    <3> QED BY <1>1, <1>7, <2>2, <3>1, Answered
  <2> QED BY <1>7, <2>1, <2>2 DEF NoAnswer
<1>8. CASE /\ message.id = "HACCESSCONFIGINFO" /\ NoAnswer
           /\ handled' = [by |-> "NotifyhaccessConfigInfo", struct |-> TranslateHACCESSConfigInfo(message.data), of |-> meant]
  <2>1. meant \in ConfigInfos /\ message = Send_HACCESSConfigInfo(meant)
    BY <1>3, <1>8 DEF MadeFrom, RequestIds
  <2>2. ConfigRead(TranslateHACCESSConfigInfo(message.data), meant)
    <3>1. /\ meant.haccess_doc_root \in Texts /\ meant.haccess_proxy_enabled \in Bytes
          /\ meant.haccess_web_enabled \in Bytes /\ meant.haccess_devmap_changed \in Bytes
      BY <2>1 DEF ConfigInfos
    <3> QED BY <2>1, <3>1, ConfigInfoRead
  <2>3. Kept(handled')
    BY <1>8, <2>1, <2>2 DEF Kept
  <2> QED BY <1>1, <1>8, <2>3, NotAnswered DEF NoAnswer
<1> QED BY <1>4, <1>5, <1>6, <1>7, <1>8 DEF GogocProcesses

LEMMA GUIProcessesKeeps ==
  ASSUME CodecInv, GUIProcesses
  PROVE  CodecInv'
<1>1. UNCHANGED info /\ message # NULL /\ message' = NULL /\ message.id \notin RequestIds \cup {"HACCESSCONFIGINFO"}
  BY DEF GUIProcesses
<1>2. Kept(handled) /\ MadeFrom(message, meant)
  BY <1>1 DEF CodecInv
<1>3. CASE ~processing
  <2>1. handled' = handled
    BY <1>3 DEF GUIProcesses
  <2>2. Kept(handled')
    BY <1>2, <2>1
  <2> QED BY <1>1, <2>2, NotAnswered
<1>4. CASE processing
  <2> DEFINE struct == CASE message.id = "STATUSINFO" -> TranslateStatusInfo(message.data)
                         [] message.id = "TUNNELINFO" -> TranslateTunnelInfo(message.data)
                         [] message.id = "BROKERLIST" -> TranslateBrokerList(message.data)
                         [] message.id = "HACCESSSTATUSINFO" -> TranslateHACCESSStatusInfo(message.data)
  <2>1. handled' = [by |-> message.id, of |-> meant, struct |-> struct]
    BY <1>4 DEF GUIProcesses, Recv_Info
  <2>2. ASSUME message.id = "STATUSINFO" PROVE Kept(handled')
    <3>1. meant \in StatusInfos /\ message = Send_StatusInfo(meant)
      BY <1>2, <2>2 DEF MadeFrom, RequestIds
    <3>2. struct = TranslateStatusInfo(message.data)
      BY <2>2
    <3> HIDE DEF struct
    <3>3. struct = meant
      BY <3>1, <3>2, StatusRead DEF StatusInfos
    <3> QED BY <2>1, <2>2, <3>3 DEF Kept
  <2>3. ASSUME message.id = "TUNNELINFO" PROVE Kept(handled')
    <3>1. IsTunnel(meant) /\ message = Send_TunnelInfo(meant)
      BY <1>2, <2>3 DEF MadeFrom, RequestIds
    <3>2. struct = TranslateTunnelInfo(message.data)
      BY <2>3
    <3> HIDE DEF struct
    <3>3. TunnelRead(struct, meant)
      BY <3>1, <3>2, TunnelInfoRead DEF IsTunnel
    <3> QED BY <2>1, <2>3, <3>3 DEF Kept
  <2>4. ASSUME message.id = "BROKERLIST" PROVE Kept(handled')
    <3>1. meant \in BrokerLists /\ Len(meant) # 0 /\ message = Send_BrokerList(meant)
      BY <1>2, <2>4 DEF MadeFrom, RequestIds
    <3>2. struct = TranslateBrokerList(message.data)
      BY <2>4
    <3> HIDE DEF struct
    <3>3. IsList("szAddress", "nDistance", meant)
      BY <3>1, BrokersAreList DEF BrokerLists
    <3>4. /\ Len(struct) = Len(meant) /\ \A k \in DOMAIN meant : struct[k].szAddress = Received(meant[k].szAddress)
          /\ struct[1].nDistance = meant[1].nDistance
      BY <3>1, <3>2, <3>3, BrokersRead
    <3>5. handled'.by = "BROKERLIST" /\ handled'.struct = struct /\ handled'.of = meant
      BY <2>1, <2>4
    <3> QED BY <3>4, <3>5 DEF Kept
  <2>5. ASSUME message.id = "HACCESSSTATUSINFO" PROVE Kept(handled')
    <3>1. meant \in HACCESSInfos /\ message = Send_HACCESSStatusInfo(meant)
      BY <1>2, <2>5 DEF MadeFrom, RequestIds
    <3>2. struct = TranslateHACCESSStatusInfo(message.data)
      BY <2>5
    <3> HIDE DEF struct
    <3>3. /\ meant.haccess_proxy_status \in Bytes /\ meant.haccess_web_status \in Bytes
          /\ meant.haccess_devmapmod_status \in Bytes
          /\ meant.haccess_devmap_statuses \in Seq([device_name : Texts, mapping_status : Bytes])
      BY <3>1 DEF HACCESSInfos
    <3>4. HACCESSRead(struct, meant)
      BY <3>1, <3>2, <3>3, MappingsAreList, StatusesRead
    <3> QED BY <2>1, <2>5, <3>1, <3>4 DEF Kept
  <2> HIDE DEF struct
  <2>6. message.id \in {"STATUSINFO", "TUNNELINFO", "BROKERLIST", "HACCESSSTATUSINFO"}
    BY <1>1, <1>2 DEF MadeFrom
  <2>7. Kept(handled')
    BY <2>2, <2>3, <2>4, <2>5, <2>6
  <2> QED BY <1>1, <2>7, NotAnswered
<1> QED BY <1>3, <1>4

LEMMA MainKeeps ==
  ASSUME CodecInv, MainChanges \/ MainForgets
  PROVE  CodecInv'
<1>1. message = NULL /\ UNCHANGED message /\ handled' = NotHandled
  BY DEF MainChanges, MainForgets
<1>2. TypedInfo(info')
  <2>1. CASE MainForgets
    BY <2>1, NothingTyped DEF MainForgets
  <2>2. CASE MainChanges
    <3>1. CASE \E s \in gogocStatusInfo : info' = [Nothing EXCEPT !.status = s]
      BY <3>1, NothingTyped, StructuresTyped
    <3>2. CASE \E t \in gogocTunnelInfo : info' = [Nothing EXCEPT !.tunnel = t]
      BY <3>2, NothingTyped, StructuresTyped
    <3>3. CASE \E l \in gogocBrokerList \cup {NULL} : info' = [Nothing EXCEPT !.brokers = l]
      BY <3>3, NothingTyped, StructuresTyped
    <3>4. CASE \E h \in HACCESSStatusInfo \cup {NULL} : info' = [Nothing EXCEPT !.haccess = h]
      BY <3>4, NothingTyped, StructuresTyped
    <3> QED BY <2>2, <3>1, <3>2, <3>3, <3>4 DEF MainChanges
  <2> QED BY <2>1, <2>2
<1>3. Kept(handled')
  BY <1>1 DEF NotHandled, Kept
<1> QED BY <1>1, <1>2, <1>3 DEF CodecInv

LEMMA CodecInductive == CodecInv /\ [CodecNext]_codecVars => CodecInv'
<1> SUFFICES ASSUME CodecInv, [CodecNext]_codecVars PROVE CodecInv'
  OBVIOUS
<1>0. /\ info.status \in StatusInfos /\ IsTunnel(info.tunnel)
      /\ info.brokers = NULL \/ info.brokers \in BrokerLists
      /\ info.haccess = NULL \/ info.haccess \in HACCESSInfos
  BY DEF CodecInv, TypedInfo
<1>1. ASSUME NEW id \in RequestIds, GUIRequests(id) PROVE CodecInv'
  BY <1>1, Made, Posted DEF GUIRequests
<1>2. ASSUME NEW i \in HACCESSConfigInfo, GUISendsConfig(i) PROVE CodecInv'
  <2>1. MadeFrom(Send_HACCESSConfigInfo(i), i)
    BY Made, StructuresTyped
  <2> QED BY <1>2, <2>1, Posted DEF GUISendsConfig
<1>3. CASE send_status_info
  BY <1>0, <1>3, Made, Posted DEF send_status_info, Notify
<1>4. CASE send_tunnel_info
  BY <1>0, <1>4, Made, Posted DEF send_tunnel_info, Notify
<1>5. CASE send_broker_list
  <2>1. CASE info.brokers = <<>>
    <3>1. UNCHANGED <<info, message, meant, handled>>
      BY <1>5, <2>1 DEF send_broker_list
    <3> QED BY <3>1 DEF CodecInv
  <2>2. CASE info.brokers # <<>>
    <3>1. MadeFrom(Send_BrokerList(info.brokers), info.brokers)
      BY <1>0, <1>5, <2>2, Made DEF send_broker_list
    <3> QED BY <1>5, <2>2, <3>1, Posted DEF send_broker_list, Notify
  <2> QED BY <2>1, <2>2
<1>6. CASE send_haccess_status_info
  <2>1. MadeFrom(Send_HACCESSStatusInfo(info.haccess), info.haccess)
    BY <1>0, <1>6, Made DEF send_haccess_status_info
  <2> QED BY <1>6, <2>1, Posted DEF send_haccess_status_info, Notify
<1>7. CASE GogocProcesses
  BY <1>7, GogocProcessesKeeps
<1>8. CASE GUIProcesses
  BY <1>8, GUIProcessesKeeps
<1>9. CASE GUISwitches
  BY <1>9 DEF GUISwitches, CodecInv
<1>10. CASE MainChanges \/ MainForgets
  BY <1>10, MainKeeps
<1>11. CASE UNCHANGED codecVars
  BY <1>11 DEF codecVars, CodecInv
<1> QED BY <1>1, <1>2, <1>3, <1>4, <1>5, <1>6, <1>7, <1>8, <1>9, <1>10, <1>11 DEF CodecNext

\* InfoKept: every structure a sender lays out in a message, whatever its strings, its
\* numbers and the lengths of its lists, is what the translator on the other side reads,
\* and no translator's assertion on the length fails.
THEOREM InfoKeptCorrect == CodecSpec => []InfoKept
<1>1. CodecInv => InfoKept
  BY KeptIsInfoKept DEF CodecInv
<1> QED BY <1>1, CodecInitial, CodecInductive, PTL DEF CodecSpec
=============================================================================
