------------------------------ MODULE Messaging ------------------------------
(***************************************************************************)
(* The messaging library of gogoCLIENT (gogoc-messaging), on the platform  *)
(* where it is finished, Windows.  Two processes, "gogoc" (the client, the *)
(* pipe's server) and "gui" (the pipe's client), hold the same objects: a  *)
(* CommunicationsManager, whose thread sets up the pipe again and again, a *)
(* SenderThread that empties the send queue into the pipe, a               *)
(* ReceiverThread that reassembles messages and processes them, and a      *)
(* user thread that posts.  The two threads of an end share the Servent    *)
(* and its mutex, which outlive a connection.                              *)
(*                                                                         *)
(* A message is the number under which it was pushed and its length in     *)
(* packets; a packet carries the fields the Servent looks at.              *)
(***************************************************************************)
EXTENDS Naturals, Sequences, FiniteSets, SequencesExt

CONSTANTS
  Requests,      \* messages that the GUI's user thread posts
  Notices,       \* messages that gogoCLIENT's main thread posts
  Lengths,       \* lengths of messages, in packets
  PipeSize,      \* packets that one direction of the pipe holds
  SeqNums,       \* sequence numbers of messages are counted modulo this
  MAX_QUEUE_ITEMS, INITERRORS_THRESHOLD,
  Faults         \* how often a process may end, in good order or not, or
                 \* creating or opening the pipe may fail

ASSUME MessagingAssumption ==
  /\ Requests \in Nat /\ Notices \in Nat /\ Faults \in Nat
  /\ Lengths \subseteq Nat \ {0} /\ Lengths # {}
  /\ MAX_QUEUE_ITEMS \in Nat \ {0} /\ INITERRORS_THRESHOLD \in Nat
  \* PIPE_BUFSIZ: the pipe holds the longest message.
  /\ PipeSize \in Nat /\ \A l \in Lengths : l <= PipeSize
  /\ SeqNums \in Nat \ {0}

Ends == {"gogoc", "gui"}
Peer(e) == CHOOSE f \in Ends : f # e

VARIABLES
  m_eManagerStatus, \* per end; the send queue is enabled when "connected"
  manager,       \* per end: place of CommunicationsManager::Work, "none" without object
  nErrorCount,   \* per end: failed initialisations in a row
  quit,          \* per end: threads whose quit event is set
  sender,        \* per end: place of SenderThread::Work
  receiver,      \* per end: place of ReceiverThread::Work
  user,          \* per end: place of the user thread in PostMessage
  answering,     \* place of gogoc's receiver in PostMessage, when it answers
  m_SendQueue,   \* per end
  m_pSemaphore,  \* per end: count of the semaphore on the queue
  m_pSemIPCMutex,\* per end: who holds the Servent's mutex
  nWritten,      \* per end: packets written of the message at the head
  got,           \* per end: packets read of the message under way
  nSeqNum,       \* per end: static sequence number of _WriteData
  instance,      \* the server's pipe instance
  handle,        \* the client's handle
  pipe,          \* per end: packets on their way to it
  pushed,        \* per end: messages pushed for the peer so far
  processed,     \* per end: number of the last message of the peer it processed
  budget         \* posts and faults left

connVars  == <<m_eManagerStatus, manager, nErrorCount>>
threadVars == <<quit, sender, receiver, nWritten, got>>
postVars  == <<user, answering, pushed>>
queueVars == <<m_SendQueue, m_pSemaphore>>
pipeVars  == <<instance, handle, pipe>>
vars == <<connVars, threadVars, postVars, queueVars, pipeVars, m_pSemIPCMutex, nSeqNum,
          processed, budget>>

-----------------------------------------------------------------------------
(* The named pipe: one instance, message mode.                             *)

\* What a peek, read or write meets: an end without its peer is broken, but
\* what the other end wrote before it closed can still be read.
Linked == instance = "taken" /\ handle = "live"

CanReadFails(e) == ~Linked /\ pipe[e] = <<>>
CanRead(e) == pipe[e] # <<>>

\* PACKET: the fields set by MakePacket and verified by ExtractPacketData.
MakePacket(e, n) ==
  LET m == Head(m_SendQueue[e]) IN
  [num |-> m.num, seq |-> nSeqNum[e], fragseq |-> n,
   msgtype |-> CASE m.len = 1 -> "nonfragdata" [] m.len # 1 /\ n = 0 -> "fragdatafirst"
                 [] m.len # 1 /\ n \in 1 .. m.len - 2 -> "fragdata"
                 [] OTHER -> "fragdatalast"]

EndsMessage(pkt) == pkt.msgtype \in {"nonfragdata", "fragdatalast"}

\* DisconnectNamedPipe and CloseHandle of the server: what is not read is lost.
CloseServerUnread ==
  /\ instance' = "none"
  /\ handle' = IF handle = "live" THEN "dead" ELSE handle
  /\ UNCHANGED pipe
CloseServer ==
  /\ instance' = "none"
  /\ handle' = IF handle = "live" THEN "dead" ELSE handle
  /\ pipe' = [x \in Ends |-> <<>>]

\* CloseHandle of the client: the server may still read what was written.
CloseClient ==
  /\ handle' = "none"
  /\ pipe' = [pipe EXCEPT !["gui"] = <<>>]
  /\ UNCHANGED instance

UnInitialize(e) == IF e = "gogoc" THEN CloseServer ELSE CloseClient

-----------------------------------------------------------------------------
(* CommunicationsManager::SetState, as the two worker threads call it; the *)
(* assignments to the status and to m_eSenderState are one.                *)

SetState(e, s) == m_eManagerStatus' = [m_eManagerStatus EXCEPT ![e] = s]

-----------------------------------------------------------------------------
(* MessageSender::PostMessage: the test, the push and the release are      *)
(* three steps; the caller t is a user thread or gogoc's receiver.         *)

SenderEnabled(e) == m_eManagerStatus[e] = "connected"

PostTest(e) == SenderEnabled(e) /\ Len(m_SendQueue[e]) < MAX_QUEUE_ITEMS

Push(e, len) ==
  /\ m_SendQueue' = [m_SendQueue EXCEPT ![e] = Append(@, [num |-> pushed[e] + 1, len |-> len])]
  /\ pushed' = [pushed EXCEPT ![e] = @ + 1]

\* ReleaseSemaphore does nothing at the maximum count.
Release(e) == m_pSemaphore' = [m_pSemaphore EXCEPT ![e] = IF @ < MAX_QUEUE_ITEMS THEN @ + 1 ELSE @]

\* Send_StatusInfoRequest() and the like in the GUI, send_status_info() and
\* the like in gogoCLIENT: the message is made and PostMessage tests.
UserPosts(e) ==
  /\ manager[e] # "none" /\ "manager" \notin quit[e]
  /\ user[e] = "idle" /\ budget.posts[e] > 0
  /\ budget' = [budget EXCEPT !.posts[e] = @ - 1]
  /\ user' = [user EXCEPT ![e] = IF PostTest(e) THEN "push" ELSE "idle"]
  /\ UNCHANGED <<connVars, threadVars, answering, pushed, queueVars, pipeVars, m_pSemIPCMutex, nSeqNum, processed>>

UserPushes(e) ==
  /\ user[e] = "push"
  /\ \E len \in Lengths : Push(e, len)
  /\ user' = [user EXCEPT ![e] = "release"]
  /\ UNCHANGED <<connVars, threadVars, answering, m_pSemaphore, pipeVars, m_pSemIPCMutex, nSeqNum, processed, budget>>

UserReleases(e) ==
  /\ user[e] = "release"
  /\ Release(e)
  /\ user' = [user EXCEPT ![e] = "idle"]
  /\ UNCHANGED <<connVars, threadVars, answering, pushed, m_SendQueue, pipeVars, m_pSemIPCMutex, nSeqNum, processed, budget>>

\* Recv_StatusInfoRequest() and the like: gogoc's receiver posts the answer.
AnswerPushes ==
  /\ answering = "push"
  /\ \E len \in Lengths : Push("gogoc", len)
  /\ answering' = "release"
  /\ UNCHANGED <<connVars, threadVars, user, m_pSemaphore, pipeVars, m_pSemIPCMutex, nSeqNum, processed, budget>>

AnswerReleases ==
  /\ answering = "release"
  /\ Release("gogoc")
  /\ answering' = "no"
  /\ receiver' = [receiver EXCEPT !["gogoc"] = "check"]
  /\ UNCHANGED <<connVars, quit, sender, nWritten, got, user, pushed, m_SendQueue, pipeVars, m_pSemIPCMutex, nSeqNum, processed, budget>>

\* Both threads push into the std::queue at the same time, which nothing
\* protects: one of the two messages may be lost.
RacingPush ==
  /\ user["gogoc"] = "push" /\ answering = "push"
  /\ \E len \in Lengths :
       m_SendQueue' = [m_SendQueue EXCEPT !["gogoc"] = Append(@, [num |-> pushed["gogoc"] + 2, len |-> len])]
  /\ pushed' = [pushed EXCEPT !["gogoc"] = @ + 2]
  /\ user' = [user EXCEPT !["gogoc"] = "release"]
  /\ answering' = "release"
  /\ UNCHANGED <<connVars, threadVars, m_pSemaphore, pipeVars, m_pSemIPCMutex, nSeqNum, processed, budget>>

-----------------------------------------------------------------------------
(* The Servent's mutex.  A thread waits for it up to MUTEX_TIMEOUT, fifteen *)
(* seconds: that passes only when the holder is gone or waits for the peer. *)

FullAtOne(e) == Len(pipe[Peer(e)]) >= 1
Full(e) == Len(pipe[Peer(e)]) >= PipeSize

SenderStuck(e) == m_pSemIPCMutex[e] = "sender" /\ Linked /\ Full(e)
ReceiverStuck(e) == m_pSemIPCMutex[e] = "receiver" /\ Linked /\ pipe[e] = <<>>

WaitAndLockFails(e) == m_pSemIPCMutex[e] = "abandoned" \/ SenderStuck(e) \/ ReceiverStuck(e)

Lock(e, t) ==
  /\ m_pSemIPCMutex[e] = "free"
  /\ m_pSemIPCMutex' = [m_pSemIPCMutex EXCEPT ![e] = t]
Unlock(e) == m_pSemIPCMutex' = [m_pSemIPCMutex EXCEPT ![e] = "free"]

-----------------------------------------------------------------------------
(* SenderThread::Work.                                                     *)

SenderAt(e, from, to) ==
  /\ sender[e] = from
  /\ sender' = [sender EXCEPT ![e] = to]

\* An error: the manager is told and the thread ends.
SenderFails(e, from) == SenderAt(e, from, "exited") /\ SetState(e, "disconnected")

SenderStops(e) ==
  /\ "sender" \in quit[e]
  /\ SenderAt(e, "wait", "exited")
  /\ UNCHANGED <<connVars, quit, receiver, nWritten, got, postVars, queueVars, pipeVars, m_pSemIPCMutex, nSeqNum, processed, budget>>

\* The semaphore is taken; then a message must be there (assert).
SenderTakes(e) ==
  /\ "sender" \notin quit[e]
  /\ m_pSemaphore[e] > 0
  /\ m_pSemaphore' = [m_pSemaphore EXCEPT ![e] = @ - 1]
  /\ SenderAt(e, "wait", IF m_SendQueue[e] = <<>> THEN "undefined" ELSE "check")
  /\ UNCHANGED <<connVars, quit, receiver, nWritten, got, postVars, m_SendQueue, pipeVars, m_pSemIPCMutex, nSeqNum, processed, budget>>

\* Servent::CanRead, called so that nothing is written while something waits
\* to be read.  When the mutex cannot be had it reports "nothing to read".
SenderChecks(e) ==
  /\ \/ /\ m_pSemIPCMutex[e] = "free"
        /\ \/ CanReadFails(e) /\ SenderFails(e, "check") /\ UNCHANGED m_pSemaphore
           \/ CanRead(e) /\ SenderAt(e, "check", "wait") /\ Release(e) /\ UNCHANGED m_eManagerStatus
           \/ ~CanRead(e) /\ ~CanReadFails(e) /\ SenderAt(e, "check", "lock")
              /\ UNCHANGED <<m_pSemaphore, m_eManagerStatus>>
     \/ /\ WaitAndLockFails(e) /\ SenderAt(e, "check", "lock")
        /\ UNCHANGED <<m_pSemaphore, m_eManagerStatus>>
  /\ UNCHANGED <<manager, nErrorCount, quit, receiver, nWritten, got, postVars, m_SendQueue, pipeVars, m_pSemIPCMutex, nSeqNum, processed, budget>>

\* Servent::WriteData takes the mutex for the whole message.
SenderLocks(e) ==
  /\ \/ /\ Lock(e, "sender") /\ SenderAt(e, "lock", "write")
        /\ nWritten' = [nWritten EXCEPT ![e] = 0]
        /\ UNCHANGED m_eManagerStatus
     \/ /\ WaitAndLockFails(e) /\ SenderFails(e, "lock")
        /\ UNCHANGED <<nWritten, m_pSemIPCMutex>>
  /\ UNCHANGED <<manager, nErrorCount, quit, receiver, got, postVars, queueVars, pipeVars, nSeqNum, processed, budget>>

\* Servent::_WriteData, one packet; WriteFile waits while the pipe is full.
SenderWrites(e) ==
  /\ sender[e] = "write" /\ Linked /\ ~Full(e)
  /\ pipe' = [pipe EXCEPT ![Peer(e)] = Append(@, MakePacket(e, nWritten[e]))]
  /\ nWritten' = [nWritten EXCEPT ![e] = @ + 1]
  /\ IF nWritten[e] + 1 = Head(m_SendQueue[e]).len
     THEN /\ sender' = [sender EXCEPT ![e] = "pop"]
          /\ nSeqNum' = [nSeqNum EXCEPT ![e] = (@ + 1) % SeqNums]
          /\ Unlock(e)
     ELSE UNCHANGED <<sender, nSeqNum, m_pSemIPCMutex>>
  /\ UNCHANGED <<connVars, quit, receiver, got, postVars, queueVars, instance, handle, processed, budget>>

\* CanWrite or WriteFile fails: the sequence number is not advanced.
SenderWriteFails(e) ==
  /\ ~Linked /\ SenderFails(e, "write") /\ Unlock(e)
  /\ UNCHANGED <<manager, nErrorCount, quit, receiver, nWritten, got, postVars, queueVars, pipeVars, nSeqNum, processed, budget>>

SenderKeeps(e) ==
  /\ SenderAt(e, "pop", "wait")
  /\ Release(e)
  /\ UNCHANGED <<connVars, quit, receiver, nWritten, got, postVars, m_SendQueue, pipeVars, m_pSemIPCMutex, nSeqNum, processed, budget>>
SenderPops(e) ==
  /\ SenderAt(e, "pop", "wait")
  /\ m_SendQueue' = [m_SendQueue EXCEPT ![e] = Tail(@)]
  /\ UNCHANGED <<connVars, quit, receiver, nWritten, got, postVars, m_pSemaphore, pipeVars, m_pSemIPCMutex, nSeqNum, processed, budget>>

-----------------------------------------------------------------------------
(* ReceiverThread::Work.                                                   *)

ReceiverAt(e, from, to) ==
  /\ receiver[e] = from
  /\ receiver' = [receiver EXCEPT ![e] = to]

ReceiverFails(e, from) == ReceiverAt(e, from, "exited") /\ SetState(e, "disconnected")

ReceiverStops(e) ==
  /\ "receiver" \in quit[e]
  /\ ReceiverAt(e, "check", "exited")
  /\ UNCHANGED <<connVars, quit, sender, nWritten, got, postVars, queueVars, pipeVars, m_pSemIPCMutex, nSeqNum, processed, budget>>

\* Servent::CanRead; without the mutex, or without data, it tries again later.
ReceiverChecks(e) ==
  /\ "receiver" \notin quit[e]
  /\ m_pSemIPCMutex[e] = "free"
  /\ \/ CanReadFails(e) /\ ReceiverFails(e, "check")
     \/ CanRead(e) /\ ReceiverAt(e, "check", "lock") /\ UNCHANGED m_eManagerStatus
  /\ UNCHANGED <<manager, nErrorCount, quit, sender, nWritten, got, postVars, queueVars, pipeVars, m_pSemIPCMutex, nSeqNum, processed, budget>>

\* Servent::ReadData takes the mutex for the whole message.
ReceiverLocks(e) ==
  /\ \/ /\ Lock(e, "receiver") /\ ReceiverAt(e, "lock", "read")
        /\ got' = [got EXCEPT ![e] = <<>>]
        /\ UNCHANGED m_eManagerStatus
     \/ /\ WaitAndLockFails(e) /\ ReceiverFails(e, "lock")
        /\ UNCHANGED <<got, m_pSemIPCMutex>>
  /\ UNCHANGED <<manager, nErrorCount, quit, sender, nWritten, postVars, queueVars, pipeVars, nSeqNum, processed, budget>>

\* The packet continues the message under way: same sequence number, next fragment.
InSequence(e, pkt) ==
  got[e] # <<>> => /\ pkt.seq = Last(got[e]).seq
                   /\ pkt.fragseq = Last(got[e]).fragseq + 1

\* Servent::_ReadData, one packet.
ReceiverReads(e) ==
  /\ receiver[e] = "read" /\ CanRead(e)
  /\ LET pkt == Head(pipe[e]) IN
     IF ~InSequence(e, pkt)
     THEN /\ ReceiverAt(e, "read", "desynchronized") /\ SetState(e, "disconnected")
          /\ Unlock(e) /\ UNCHANGED got
     ELSE /\ got' = [got EXCEPT ![e] = Append(@, pkt)]
          /\ IF EndsMessage(pkt)
             THEN ReceiverAt(e, "read", "process") /\ Unlock(e)
             ELSE UNCHANGED <<receiver, m_pSemIPCMutex>>
          /\ UNCHANGED m_eManagerStatus
  /\ pipe' = [pipe EXCEPT ![e] = Tail(@)]
  /\ UNCHANGED <<manager, nErrorCount, quit, sender, nWritten, postVars, queueVars, instance, handle, nSeqNum, processed, budget>>

ReceiverReadFails(e) ==
  /\ CanReadFails(e) /\ ReceiverFails(e, "read") /\ Unlock(e)
  /\ UNCHANGED <<manager, nErrorCount, quit, sender, nWritten, got, postVars, queueVars, pipeVars, nSeqNum, processed, budget>>

\* MessageProcessor::ProcessMessage.  The GUI calls its handlers; gogoCLIENT
\* answers a request, which begins with the test of PostMessage, unless there is
\* nothing to answer (the information is not to be had, or a configuration came).
ReceiverProcesses(e) ==
  /\ receiver[e] = "process"
  /\ processed' = [processed EXCEPT ![e] = Last(got[e]).num]
  /\ got' = [got EXCEPT ![e] = <<>>]
  /\ \/ e = "gogoc" /\ PostTest(e) /\ ReceiverAt(e, "process", "answer") /\ answering' = "push"
     \/ ReceiverAt(e, "process", "check") /\ UNCHANGED answering
  /\ UNCHANGED <<connVars, quit, sender, nWritten, user, pushed, queueVars, pipeVars, m_pSemIPCMutex, nSeqNum, budget>>

-----------------------------------------------------------------------------
(* CommunicationsManager::Work, ThreadWrapper::Stop, the constructor and   *)
(* the destructor.                                                         *)

ManagerAt(e, from, to) ==
  /\ manager[e] = from
  /\ manager' = [manager EXCEPT ![e] = to]

\* The loop of Work(): a new connection is needed, or the object is deleted.
ManagerLoops(e) ==
  /\ m_eManagerStatus[e] = "disconnected" \/ "manager" \in quit[e]
  /\ ManagerAt(e, "loop", "stopSender")
  /\ quit' = [quit EXCEPT ![e] = @ \cup {"sender"}]
  /\ UNCHANGED <<m_eManagerStatus, nErrorCount, sender, receiver, nWritten, got, postVars, queueVars, pipeVars, m_pSemIPCMutex, nSeqNum, processed, budget>>

\* ThreadWrapper::Stop: a thread that does not end within 200 ms is terminated,
\* whatever it holds.
SenderOverdue(e) ==
  SenderStuck(e) \/ (sender[e] \in {"check", "lock"} /\ WaitAndLockFails(e))

ReceiverOverdue(e) ==
  \/ ReceiverStuck(e) \/ receiver[e] = "process"
  \/ receiver[e] \in {"check", "lock"} /\ WaitAndLockFails(e)

Abandon(e, t) ==
  m_pSemIPCMutex' = [m_pSemIPCMutex EXCEPT ![e] = IF @ = t THEN "abandoned" ELSE @]

StopSender(e) ==
  /\ ManagerAt(e, "stopSender", "stopReceiver")
  /\ \/ sender[e] \in {"none", "exited"} /\ UNCHANGED m_pSemIPCMutex
     \/ SenderOverdue(e) /\ Abandon(e, "sender")
  /\ sender' = [sender EXCEPT ![e] = "none"]
  /\ nWritten' = [nWritten EXCEPT ![e] = 0]
  /\ quit' = [quit EXCEPT ![e] = (@ \ {"sender"}) \cup {"receiver"}]
  /\ UNCHANGED <<m_eManagerStatus, nErrorCount, receiver, got, postVars, queueVars, pipeVars, nSeqNum, processed, budget>>

StopReceiver(e) ==
  /\ ManagerAt(e, "stopReceiver", "uninitialize")
  /\ \/ receiver[e] \in {"none", "exited", "desynchronized"} /\ UNCHANGED m_pSemIPCMutex
     \/ ReceiverOverdue(e) /\ Abandon(e, "receiver")
  /\ receiver' = [receiver EXCEPT ![e] = "none"]
  /\ got' = [got EXCEPT ![e] = <<>>]
  /\ quit' = [quit EXCEPT ![e] = @ \ {"receiver"}]
  /\ UNCHANGED <<m_eManagerStatus, nErrorCount, sender, nWritten, postVars, queueVars, pipeVars, nSeqNum, processed, budget>>

\* MessageSender::Reset: the queue is emptied and the semaphore a new one.
Reset(e) ==
  /\ m_SendQueue' = [m_SendQueue EXCEPT ![e] = <<>>]
  /\ m_pSemaphore' = [m_pSemaphore EXCEPT ![e] = 0]

\* The rest of _CleanupInstance; then a new connection is pending, or the
\* destructor is through and the mutex deleted with the Servent.
ManagerCleansUp(e) ==
  /\ manager[e] = "uninitialize"
  /\ UnInitialize(e)
  /\ Reset(e)
  /\ IF "manager" \in quit[e]
     THEN /\ ManagerAt(e, "uninitialize", "none")
          /\ SetState(e, "disconnected")
          /\ quit' = [quit EXCEPT ![e] = {}]
          /\ m_pSemIPCMutex' = [m_pSemIPCMutex EXCEPT ![e] = "free"]
     ELSE /\ ManagerAt(e, "uninitialize", "connect")
          /\ SetState(e, "pendingconnection")
          /\ UNCHANGED <<quit, m_pSemIPCMutex>>
  /\ UNCHANGED <<nErrorCount, sender, receiver, nWritten, got, postVars, nSeqNum, processed, budget>>

\* Initialize() starts both threads and returns to Work().
InitializeSucceeds(e, from) ==
  /\ ManagerAt(e, from, "started")
  /\ sender' = [sender EXCEPT ![e] = "wait"]
  /\ receiver' = [receiver EXCEPT ![e] = "check"]
  /\ UNCHANGED <<m_eManagerStatus, nErrorCount>>

InitializeFails(e, from) ==
  /\ ManagerAt(e, from, "loop")
  /\ IF nErrorCount[e] + 1 > INITERRORS_THRESHOLD
     THEN SetState(e, "fatalerror") ELSE SetState(e, "disconnected")
  /\ nErrorCount' = [nErrorCount EXCEPT ![e] = IF @ > INITERRORS_THRESHOLD THEN @ ELSE @ + 1]
  /\ UNCHANGED <<sender, receiver>>

\* PipeServer: CreateConnectionPoint, then AcceptConnection waits for a client;
\* one that has come and gone makes it fail.
ServerCreates ==
  /\ ManagerAt("gogoc", "connect", "accept")
  /\ instance = "none"
  /\ instance' = "listening"
  /\ UNCHANGED <<m_eManagerStatus, nErrorCount, threadVars, postVars, queueVars, handle, pipe, m_pSemIPCMutex, nSeqNum, processed, budget>>

ServerAccepts ==
  /\ instance = "taken"
  /\ IF handle = "live" THEN InitializeSucceeds("gogoc", "accept") ELSE InitializeFails("gogoc", "accept")
  /\ UNCHANGED <<quit, nWritten, got, postVars, queueVars, pipeVars, m_pSemIPCMutex, nSeqNum, processed, budget>>

\* PipeClient::Connect waits for an instance that is not taken.
ClientConnects ==
  /\ instance = "listening" /\ handle = "none"
  /\ instance' = "taken" /\ handle' = "live"
  /\ InitializeSucceeds("gui", "connect")
  /\ UNCHANGED <<quit, nWritten, got, postVars, queueVars, pipe, m_pSemIPCMutex, nSeqNum, processed, budget>>

\* CreateNamedPipe, CreateFile or SetNamedPipeHandleState fails.
ConnectFails(e) ==
  /\ budget.faults > 0
  /\ e = "gui" => instance = "listening"
  /\ InitializeFails(e, "connect")
  /\ budget' = [budget EXCEPT !.faults = @ - 1]
  /\ UNCHANGED <<quit, nWritten, got, postVars, queueVars, pipeVars, m_pSemIPCMutex, nSeqNum, processed>>

\* Back in Work(): whatever the threads have reported meanwhile is overwritten.
ManagerConnected(e) ==
  /\ ManagerAt(e, "started", "loop")
  /\ SetState(e, "connected")
  /\ nErrorCount' = [nErrorCount EXCEPT ![e] = 0]
  /\ UNCHANGED <<threadVars, postVars, queueVars, pipeVars, m_pSemIPCMutex, nSeqNum, processed, budget>>

\* initialize_messaging(), or the GUI creates its messenger.
Create(e) ==
  /\ manager[e] = "none"
  /\ manager' = [manager EXCEPT ![e] = "loop"]
  /\ m_eManagerStatus' = [m_eManagerStatus EXCEPT ![e] = "disconnected"]
  /\ nErrorCount' = [nErrorCount EXCEPT ![e] = 0]
  /\ UNCHANGED <<threadVars, postVars, queueVars, pipeVars, m_pSemIPCMutex, nSeqNum, processed, budget>>

\* uninitialize_messaging(): the destructor stops the manager's thread, which
\* ends in its loop or, waiting for the peer, is terminated; then it cleans up.
Destroy(e) ==
  /\ manager[e] \in {"loop", "connect", "accept"} /\ user[e] = "idle"
  /\ budget.faults > 0
  /\ budget' = [budget EXCEPT !.faults = @ - 1]
  /\ quit' = [quit EXCEPT ![e] = @ \cup {"manager", "sender"}]
  /\ manager' = [manager EXCEPT ![e] = "stopSender"]
  /\ UNCHANGED <<m_eManagerStatus, nErrorCount, sender, receiver, nWritten, got, postVars, queueVars, pipeVars, m_pSemIPCMutex, nSeqNum, processed>>

\* The process is killed; the system closes its end of the pipe.
Die(e) ==
  /\ manager[e] # "none" /\ budget.faults > 0
  /\ budget' = [budget EXCEPT !.faults = @ - 1]
  /\ UnInitialize(e) /\ Reset(e)
  /\ manager' = [manager EXCEPT ![e] = "none"]
  /\ SetState(e, "disconnected")
  /\ nErrorCount' = [nErrorCount EXCEPT ![e] = 0]
  /\ quit' = [quit EXCEPT ![e] = {}]
  /\ sender' = [sender EXCEPT ![e] = "none"]
  /\ receiver' = [receiver EXCEPT ![e] = "none"]
  /\ nWritten' = [nWritten EXCEPT ![e] = 0]
  /\ got' = [got EXCEPT ![e] = <<>>]
  /\ user' = [user EXCEPT ![e] = "idle"]
  /\ answering' = IF e = "gogoc" THEN "no" ELSE answering
  /\ m_pSemIPCMutex' = [m_pSemIPCMutex EXCEPT ![e] = "free"]
  /\ nSeqNum' = [nSeqNum EXCEPT ![e] = 0]
  /\ UNCHANGED <<pushed, processed>>

-----------------------------------------------------------------------------
Init ==
  /\ m_eManagerStatus = [e \in Ends |-> "disconnected"]
  /\ manager = [e \in Ends |-> "loop"]
  /\ nErrorCount = [e \in Ends |-> 0]
  /\ quit = [e \in Ends |-> {}]
  /\ sender = [e \in Ends |-> "none"]
  /\ receiver = [e \in Ends |-> "none"]
  /\ user = [e \in Ends |-> "idle"] /\ answering = "no"
  /\ m_SendQueue = [e \in Ends |-> <<>>]
  /\ m_pSemaphore = [e \in Ends |-> 0]
  /\ m_pSemIPCMutex = [e \in Ends |-> "free"]
  /\ nWritten = [e \in Ends |-> 0]
  /\ got = [e \in Ends |-> <<>>]
  /\ nSeqNum = [e \in Ends |-> 0]
  /\ instance = "none" /\ handle = "none"
  /\ pipe = [e \in Ends |-> <<>>]
  /\ pushed = [e \in Ends |-> 0]
  /\ processed = [e \in Ends |-> 0]
  /\ budget = [posts |-> [e \in Ends |-> IF e = "gui" THEN Requests ELSE Notices],
               faults |-> Faults]

SenderStep(e) ==
  \/ SenderStops(e) \/ SenderTakes(e) \/ SenderChecks(e) \/ SenderLocks(e)
  \/ SenderWrites(e) \/ SenderWriteFails(e) \/ SenderPops(e)

ReceiverStep(e) ==
  \/ ReceiverStops(e) \/ ReceiverChecks(e) \/ ReceiverLocks(e) \/ ReceiverReads(e)
  \/ ReceiverReadFails(e) \/ ReceiverProcesses(e)
  \/ e = "gogoc" /\ (AnswerPushes \/ AnswerReleases)

ManagerStep(e) ==
  \/ ManagerLoops(e) \/ StopSender(e) \/ StopReceiver(e) \/ ManagerCleansUp(e)
  \/ ManagerConnected(e) \/ ConnectFails(e)
  \/ e = "gogoc" /\ (ServerCreates \/ ServerAccepts)
  \/ e = "gui" /\ ClientConnects

UserStep(e) == UserPushes(e) \/ UserReleases(e)

Next ==
  \/ \E e \in Ends :
       \/ SenderStep(e) \/ ReceiverStep(e) \/ ManagerStep(e) \/ UserStep(e)
       \/ UserPosts(e) \/ Create(e) \/ Destroy(e) \/ Die(e)
  \/ RacingPush

\* Every thread runs; users, faults and the ends of processes are not forced.
Fairness ==
  \A e \in Ends : /\ WF_vars(SenderStep(e)) /\ WF_vars(ReceiverStep(e))
                  /\ WF_vars(ManagerStep(e)) /\ WF_vars(UserStep(e)) /\ WF_vars(Create(e))

Spec == Init /\ [][Next]_vars /\ Fairness

-----------------------------------------------------------------------------
(* Properties.                                                             *)

\* The two ends never wait for each other for ever: not both senders stand
\* before a full pipe, each holding the mutex that its own receiver needs.
\* SenderThread::Work tests CanRead for this purpose before it writes.
NoMutualBlock == ~(SenderStuck("gogoc") /\ SenderStuck("gui"))

\* The fragments of two messages are never mixed, whatever interrupts a sender
\* or a receiver: _ReadData's "this should NOT happen in this logic".
NeverDesynchronized == \A e \in Ends : receiver[e] # "desynchronized"

\* What is on its way to an end: a message read but not processed, those in the
\* pipe, those in the peer's queue that are not completely written.
BeingProcessed(e) == IF receiver[e] = "process" THEN {Last(got[e]).num} ELSE {}
InPipe(e) == {pipe[e][i].num : i \in {j \in 1..Len(pipe[e]) : EndsMessage(pipe[e][j])}}
Unsent(e) ==
  {m_SendQueue[e][i].num : i \in {j \in 1..Len(m_SendQueue[e]) : sender[e] = "pop" => j > 1}}

Underway(e) == BeingProcessed(e) \cup InPipe(e) \cup Unsent(Peer(e))

Channel == INSTANCE MsgChannel WITH
  chan <- [e \in Ends |-> Underway(e)], accepted <- [e \in Ends |-> pushed[Peer(e)]]

\* The library keeps the promise of MsgChannel: each message at most once, in
\* order and whole, through fragmentation, broken connections and restarts.
ChannelKept == Channel!ChannelSpec

\* A message in the queue is written or given up, whatever happens to the
\* connection, unless some end is left for dead: its mutex abandoned by a
\* terminated thread, its sender past the assertion of communicationsmgr.cc:411,
\* its manager in the fatal state, or its disconnection overwritten in Work();
\* or the message has lost its count of the semaphore, which two posters that
\* passed the test of PostMessage together bring to its maximum.
LeftForDead(f) ==
  \/ m_pSemIPCMutex[f] = "abandoned" \/ sender[f] = "undefined"
  \/ m_eManagerStatus[f] = "fatalerror"
  \/ m_eManagerStatus[f] = "connected" /\ "exited" \in {sender[f], receiver[f]}

Uncounted(e) == sender[e] = "wait" /\ m_pSemaphore[e] = 0 /\ m_SendQueue[e] # <<>>

QueueMoves ==
  \A e \in Ends :
    m_SendQueue[e] # <<>> ~> (m_SendQueue[e] = <<>> \/ Uncounted(e) \/ \E f \in Ends : LeftForDead(f))
=============================================================================
