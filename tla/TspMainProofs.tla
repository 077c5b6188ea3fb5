--------------------------- MODULE TspMainProofs ---------------------------
(***************************************************************************)
(* Safety of the connection loop for every value of the constants: any     *)
(* number of brokers, any lists and files, any delays the configuration    *)
(* accepts.                                                                *)
(***************************************************************************)
EXTENDS TspMain, WellFoundedInduction, TLAPS

-----------------------------------------------------------------------------
(* Operators.                                                               *)

\* Capped() returns a delay between 0 and retry_delay_max.
LEMMA CappedBounded ==
  ASSUME NEW d \in Nat
  PROVE  Capped(d) \in Nat /\ Capped(d) <= retry_delay_max
BY DelayAssumption DEF Capped

\* So does DoubledDelay(), whatever it is given (the 16 bits may wrap first).
LEMMA DoubledDelayBounded ==
  ASSUME NEW d \in Int
  PROVE  DoubledDelay(d) \in Nat /\ DoubledDelay(d) <= retry_delay_max
<1>1. (2 * d) % UINT16 \in Nat
  BY DEF UINT16
<1> QED BY <1>1, CappedBounded DEF DoubledDelay

\* An increment of a uint8_t stays in its range.
LEMMA Uint8Increment ==
  ASSUME NEW n \in Nat
  PROVE  (n + 1) % UINT8 \in 0..(UINT8 - 1)
BY WidthAssumption DEF CONSEC_RETRY_TO_DOUBLE_WAIT

\* The file yields a list the client accepts.
LEMMA FileListAccepted ==
  ASSUME broker_list_file \in FileLists
  PROVE  tspReadBrokerListFromFile \in Lists
BY ListAssumption DEF tspReadBrokerListFromFile, Lists, FileLists

\* The cycle wraps or grows within its range, and designates a transport.
LEMMA CycleInRange ==
  ASSUME cycle \in 0..CycleCap, NEW mode \in TunnelModes
  PROVE  /\ NextCycle \in 0..CycleCap
         /\ CycleOf(mode) \in 0..CycleCap
BY DEF NextCycle, CycleOf, CycleCap, TunnelModes

\* A fallback that is allowed leads to a version the client implements.
LEMMA OldestForKnown ==
  ASSUME NEW mode
  PROVE  OldestFor(mode) \in Int /\ OldestFor(mode) <= CLIENT_VERSION_INDEX_OLDEST
BY VersionAssumption
   DEF OldestFor, CLIENT_VERSION_INDEX_V6UDPV4_START, CLIENT_VERSION_INDEX_2_0_0,
       CLIENT_VERSION_INDEX_CURRENT, CLIENT_VERSION_INDEX_1_0_1

\* A broker of a list, formatted, is an address or NULL.
LEMMA FormattedAddress ==
  ASSUME NEW broker \in Brokers, NEW typed, NEW ok,
         FormatBrokerListAddr(broker, typed, ok)
  PROVE  server' \in Servers \cup {NoServer, NotBracketed}
BY DEF FormatBrokerListAddr, pal_strdup, Servers

\* tspSetupTunnel() returns a status the switch knows.
LEMMA OutcomesAreStatuses == SetupOutcomes \subseteq Statuses
BY ConfAssumption DEF SetupOutcomes, Statuses, Fatal

-----------------------------------------------------------------------------
(* Types.                                                                   *)

\* tspMain()'s locals start with values of their types.
LEMMA TypeInit == Init => TypeOK
<1> SUFFICES ASSUME Init PROVE TypeOK
  OBVIOUS
<1>1. ControlType
  <2>1. status \in Statuses /\ failed \in 0..FailedCap
    BY ConfAssumption DEF Init, Statuses, TunnelDown
  <2> QED BY <2>1, Zenon DEF Init, ControlType
<1>2. TargetType
  <2>1. /\ broker_list \in Lists
        /\ broker_list_file \in FileLists
        /\ last_server_file \in Servers \cup {NoServer}
    BY ConfAssumption, ListAssumption DEF Init, Lists
  <2> QED BY <2>1, Zenon DEF Init, TargetType, Servers
<1>3. ChoiceType
  <2>1. cycle \in 0..CycleCap /\ version_index \in 0..CLIENT_VERSION_INDEX_OLDEST
    BY VersionAssumption
       DEF Init, CycleCap, CLIENT_VERSION_INDEX_CURRENT, CLIENT_VERSION_INDEX_1_0_1
  <2> QED BY <2>1, Zenon
             DEF Init, ChoiceType, Transports, CLIENT_VERSION_INDEX_CURRENT
<1>4. DelayType
  BY WidthAssumption DEF Init, DelayType, CONSEC_RETRY_TO_DOUBLE_WAIT
<1> QED BY <1>1, <1>2, <1>3, <1>4 DEF TypeOK

\* Each action keeps the types of the variables it assigns.
LEMMA ControlStep == TypeOK /\ [Next]_vars => ControlType'
<1> SUFFICES ASSUME TypeOK, [Next]_vars PROVE ControlType'
  OBVIOUS
<1> USE DEF TypeOK, ControlType
<1>1. CASE StartFails
  BY <1>1 DEF StartFails
<1>2. CASE SetupTunnel
  <2>1. status' \in Statuses
    BY <1>2, OutcomesAreStatuses DEF SetupTunnel
  <2>2. failed' \in 0..FailedCap
    BY <1>2, ConfAssumption DEF SetupTunnel, CountFailed
  <2> QED BY <1>2, <2>1, <2>2 DEF SetupTunnel
<1>3. CASE StartFails \/ ChooseFirstServer \/ EnterLoop \/ LeaveLoop \/ StopInLoop
           \/ VersionsExhausted \/ SelectTransport
  BY <1>3 DEF StartFails, ChooseFirstServer, EnterLoop, LeaveLoop, StopInLoop,
              VersionsExhausted, SelectTransport
<1>4. CASE OnFinished \/ OnKeepaliveTimeout \/ OnTunnelError \/ OnLeaseExpired
           \/ OnInvalidVersion \/ OnSocketIO \/ OnServerTooBusy
  BY <1>4 DEF OnFinished, OnKeepaliveTimeout, OnTunnelError, OnLeaseExpired,
              OnInvalidVersion, OnSocketIO, OnServerTooBusy, Again, BreakOut, GiveUp
<1>5. CASE OnRedirection \/ OnRedirectionError
  BY <1>5 DEF OnRedirection, OnRedirectionError, Again, GiveUp, Statuses
<1>6. CASE BootAbort \/ QuickCycle \/ LastServerFailed
  BY <1>6 DEF BootAbort, QuickCycle, LastServerFailed, Again, BreakOut, GiveUp
<1>7. CASE OriginalFailedTryFile \/ BrokerFailed
  BY <1>7 DEF OriginalFailedTryFile, BrokerFailed, ServerFailed, TryBroker, Again,
              Statuses
<1>8. CASE OriginalFailedNoList \/ LastBrokerFailed \/ StrayBrokerFailed
  BY <1>8 DEF OriginalFailedNoList, LastBrokerFailed, StrayBrokerFailed,
              ServerFailed, BreakOut
<1>9. CASE Wait \/ RetryNow \/ Sleep \/ EndWait \/ EndLoopWait \/ End
  BY <1>9 DEF Wait, RetryNow, Sleep, EndWait, EndLoopWait, End
<1>10. CASE Signal \/ Returned \/ UNCHANGED vars
  BY <1>10 DEF Signal, Returned, vars
<1> QED BY <1>1, <1>2, <1>3, <1>4, <1>5, <1>6, <1>7, <1>8, <1>9, <1>10
           DEF Next, Program, Switch

\* The choice of transport and version keeps its types: a fallback is only taken
\* while an older version exists.
LEMMA ChoiceStep == TypeOK /\ [Next]_vars => ChoiceType'
<1> SUFFICES ASSUME TypeOK, [Next]_vars PROVE ChoiceType'
  OBVIOUS
<1> USE DEF TypeOK, ChoiceType, CLIENT_VERSION_INDEX_CURRENT
<1>a. conf.tunnel_mode \in TunnelModes
  BY ConfAssumption DEF ControlType, ConfType
<1>b. NextCycle \in 0..CycleCap /\ CycleOf(conf.tunnel_mode) \in 0..CycleCap
  BY <1>a, CycleInRange
<1>c. /\ CLIENT_VERSION_INDEX_OLDEST \in Nat
      /\ \A c \in 0..CycleCap : TransportOf(conf.tunnel_mode, c) \in Transports
  BY VersionAssumption DEF TransportOf, Transports, CLIENT_VERSION_INDEX_1_0_1
<1>1. CASE SelectTransport
  <2> DEFINE mode == conf.tunnel_mode
  <2>1. cycle' \in 0..CycleCap /\ transport' \in Transports
    BY <1>1, <1>b, <1>c DEF SelectTransport
  <2>2. version_index' \in 0..CLIENT_VERSION_INDEX_OLDEST
    <3>1. OldestFor(mode) \in Int /\ OldestFor(mode) <= CLIENT_VERSION_INDEX_OLDEST
      BY OldestForKnown
    <3>2. CASE mode = "V4V6"
      BY <1>1, <3>2 DEF SelectTransport
    <3>3. CASE mode # "V4V6" /\ tsp_version_fallback
      BY <1>1, <1>c, <3>1, <3>3 DEF SelectTransport
    <3>4. CASE mode # "V4V6" /\ ~tsp_version_fallback
      BY <1>1, <1>c, <3>4 DEF SelectTransport
    <3> QED BY <3>2, <3>3, <3>4
  <2>3. quick_cycle' \in BOOLEAN /\ tsp_version_fallback' \in BOOLEAN
    BY <1>1, Zenon DEF SelectTransport
  <2> QED BY <2>1, <2>2, <2>3
<1>2. CASE StartFails \/ ChooseFirstServer \/ LeaveLoop \/ StopInLoop \/ SetupTunnel
  BY <1>2 DEF StartFails, ChooseFirstServer, LeaveLoop, StopInLoop, SetupTunnel, choice
<1>3. CASE EnterLoop
  <2>1. cycle' \in 0..CycleCap /\ version_index' \in 0..CLIENT_VERSION_INDEX_OLDEST
    BY <1>3, <1>c DEF EnterLoop, CycleCap
  <2> QED BY <1>3, <2>1, Zenon DEF EnterLoop
<1>4. CASE VersionsExhausted
  BY <1>4, <1>b DEF VersionsExhausted
<1>5. CASE OnFinished \/ OnKeepaliveTimeout \/ OnTunnelError \/ OnLeaseExpired
           \/ OnSocketIO \/ OnServerTooBusy \/ OnRedirectionError \/ BootAbort
  BY <1>5 DEF OnFinished, OnKeepaliveTimeout, OnTunnelError, OnLeaseExpired,
              OnSocketIO, OnServerTooBusy, OnRedirectionError, BootAbort, choice
<1>6. CASE OnInvalidVersion \/ OnRedirection
  <2>1. cycle' \in 0..CycleCap
    BY <1>6 DEF OnInvalidVersion, OnRedirection, CycleCap
  <2> QED BY <1>6, <2>1, Zenon DEF OnInvalidVersion, OnRedirection
<1>7. CASE QuickCycle \/ LastServerFailed \/ OriginalFailedNoList
  BY <1>7, <1>b DEF QuickCycle, LastServerFailed, OriginalFailedNoList, ServerFailed
<1>8. CASE OriginalFailedTryFile \/ BrokerFailed
  <2>1. cycle' \in {0, cycle}
    BY <1>8, Zenon DEF OriginalFailedTryFile, BrokerFailed, TryBroker
  <2>2. cycle' \in 0..CycleCap
    BY <2>1 DEF CycleCap
  <2> QED BY <1>8, <2>2 DEF OriginalFailedTryFile, BrokerFailed, ServerFailed
<1>9. CASE LastBrokerFailed \/ StrayBrokerFailed
  BY <1>9 DEF LastBrokerFailed, StrayBrokerFailed, ServerFailed, CycleCap
<1>10. CASE Wait \/ RetryNow \/ Sleep \/ EndWait \/ EndLoopWait \/ End
  BY <1>10 DEF Wait, RetryNow, Sleep, EndWait, EndLoopWait, End, choice
<1>11. CASE Signal \/ Returned \/ UNCHANGED vars
  BY <1>11 DEF Signal, Returned, vars, choice
<1> QED BY <1>1, <1>2, <1>3, <1>4, <1>5, <1>6, <1>7, <1>8, <1>9, <1>10, <1>11
           DEF Next, Program, Switch

\* The delays: assigned before they are read, and never above retry_delay_max.
DelayInv ==
  /\ consec_retry > 0 => effective_retry_delay # UNINIT
  /\ effective_retry_delay <= retry_delay_max
  /\ loop_delay <= retry_delay_max
  /\ sleepTime <= retry_delay_max

\* Before the first attempt no delay has been set.
LEMMA DelayInit == Init => DelayInv
BY DelayAssumption DEF Init, DelayInv, UNINIT

\* Each action keeps the delays in their widths and below retry_delay_max, and
\* assigns effective_retry_delay before consec_retry lets it be read.
LEMMA DelayStep == TypeOK /\ DelayInv /\ [Next]_vars => DelayType' /\ DelayInv'
<1> SUFFICES ASSUME TypeOK, DelayInv, [Next]_vars PROVE DelayType' /\ DelayInv'
  OBVIOUS
<1> USE DEF TypeOK, DelayType, DelayInv
<1>a. /\ retry_delay \in Nat /\ retry_delay_max \in Nat
      /\ retry_delay <= retry_delay_max
      /\ UINT8 \in Nat /\ UINT8 > 1
  BY DelayAssumption, WidthAssumption DEF CONSEC_RETRY_TO_DOUBLE_WAIT
<1>1. CASE StartFails \/ StopInLoop \/ VersionsExhausted \/ SelectTransport \/ SetupTunnel
  BY <1>1 DEF StartFails, StopInLoop, VersionsExhausted, SelectTransport, SetupTunnel,
              delays
<1>2. CASE ChooseFirstServer \/ EnterLoop \/ LeaveLoop
  BY <1>2, <1>a DEF ChooseFirstServer, EnterLoop, LeaveLoop, UNINIT
<1>3. CASE OnFinished \/ OnLeaseExpired \/ OnInvalidVersion \/ OnRedirection
           \/ OnRedirectionError \/ BootAbort \/ QuickCycle \/ LastServerFailed
  BY <1>3 DEF OnFinished, OnLeaseExpired, OnInvalidVersion, OnRedirection,
              OnRedirectionError, BootAbort, QuickCycle, LastServerFailed, delays
<1>4. CASE OnKeepaliveTimeout \/ OnTunnelError \/ OnSocketIO
  BY <1>4, <1>a DEF OnKeepaliveTimeout, OnTunnelError, OnSocketIO
<1>5. CASE OnServerTooBusy \/ ServerFailed
  <2>1. ForceWait /\ UNCHANGED <<loop_delay, sleepTime>>
    BY <1>5 DEF OnServerTooBusy, ServerFailed
  <2> QED BY <2>1, <1>a DEF ForceWait, UNINIT
<1>6. CASE Wait
  <2>1. effective_retry_delay \in Nat /\ effective_retry_delay <= retry_delay_max
    BY <1>6 DEF Wait, UNINIT
  <2>2. consec_retry' \in 0..(UINT8 - 1)
    BY <1>6, Uint8Increment DEF Wait
  <2>3. effective_retry_delay' \in Nat /\ effective_retry_delay' <= retry_delay_max
    BY <1>6, <2>1, DoubledDelayBounded DEF Wait
  <2> QED BY <1>6, <2>2, <2>3 DEF Wait, UNINIT
<1>7. CASE RetryNow \/ Sleep \/ EndWait \/ End
  BY <1>7, <1>a DEF RetryNow, Sleep, EndWait, End, Asleep, delays, UNINIT
<1>8. CASE EndLoopWait
  BY <1>8, <1>a, CappedBounded DEF EndLoopWait
<1>9. CASE Signal \/ Returned \/ UNCHANGED vars
  BY <1>9 DEF Signal, Returned, vars, delays
<1>10. OriginalFailedTryFile \/ OriginalFailedNoList \/ LastBrokerFailed
       \/ BrokerFailed \/ StrayBrokerFailed => ServerFailed
  BY DEF OriginalFailedTryFile, OriginalFailedNoList, LastBrokerFailed, BrokerFailed,
         StrayBrokerFailed
<1> QED BY <1>1, <1>2, <1>3, <1>4, <1>5, <1>6, <1>7, <1>8, <1>9, <1>10
           DEF Next, Program, Switch

\* An address copied from a list, or the original one, is an address or NULL.
LEMMA TryBrokerType ==
  ASSUME NEW list \in Lists, NEW typed \in BOOLEAN, NEW i \in 1..Len(list),
         TryBroker(list, typed, i)
  PROVE  /\ server' \in Servers \cup {NoServer, NotBracketed}
         /\ broker_list' \in Lists
         /\ address_type' \in BOOLEAN
         /\ current_broker_in_list' \in {FREED} \cup 1..MAX_REDIRECT_BROKERS_IN_LIST
<1>1. list[i] \in Brokers /\ i \in 1..MAX_REDIRECT_BROKERS_IN_LIST
  BY ListAssumption DEF Lists
<1>2. PICK ok \in BOOLEAN : FormatBrokerListAddr(list[i], typed, ok)
  BY DEF TryBroker
<1>3. server' \in Servers \cup {NoServer, NotBracketed}
  BY <1>1, <1>2, FormattedAddress
<1>4. <<>> \in Lists
  BY ListAssumption DEF Lists
<1>5. \/ broker_list' = list /\ current_broker_in_list' = i
      \/ broker_list' = <<>> /\ current_broker_in_list' = FREED
  BY DEF TryBroker
<1>6. address_type' \in BOOLEAN
  BY Zenon DEF TryBroker
<1> QED BY <1>1, <1>3, <1>4, <1>5, <1>6

\* Freeing a list leaves the pointer into it NULL or dangling.
LEMMA FreedPointer ==
  tspFreeBrokerList(current_broker_in_list) \in {FREED, NULL}
BY DEF tspFreeBrokerList

\* The list, the position in it, the flags and the server agree.
PointerInv ==
  /\ pc = "switch" /\ status = "EVNT_BROKER_REDIRECTION" => broker_list # <<>>
  /\ BrokerPointerSafe
  /\ trying_original_server => server \in {Original, NoServer}
  /\ GoingThroughList =>
       server \in {NoServer,
                  Designates(broker_list[current_broker_in_list], address_type)}

\* Each action keeps the types of the server, the list and the pointer into it;
\* stepping to the next broker needs that the pointer was valid.
LEMMA TargetStep == TypeOK /\ PointerInv /\ [Next]_vars => TargetType'
<1> SUFFICES ASSUME TypeOK, PointerInv, [Next]_vars PROVE TargetType'
  OBVIOUS
<1> USE DEF TypeOK, TargetType
<1>a. <<>> \in Lists
  BY ListAssumption DEF Lists
<1>b. Redirections \subseteq Lists /\ Lists \subseteq FileLists
  BY ConfAssumption DEF Lists, FileLists
<1>1. CASE StartFails \/ LeaveLoop \/ StopInLoop \/ VersionsExhausted \/ SelectTransport
  BY <1>1 DEF StartFails, LeaveLoop, StopInLoop, VersionsExhausted, SelectTransport,
              target, files
<1>2. CASE ChooseFirstServer
  <2>1. server' \in Servers
    BY <1>2 DEF ChooseFirstServer, tspReadLastServerFromFile, Servers
  <2>2. trying_original_server' \in BOOLEAN
    BY <1>2, Zenon DEF ChooseFirstServer
  <2> QED BY <1>2, <2>1, <2>2 DEF ChooseFirstServer, files
<1>3. CASE EnterLoop
  BY <1>3, Zenon DEF EnterLoop, files
<1>4. CASE SetupTunnel
  <2>1. CASE RedirectHandled
    <3>1. broker_list' \in Lists /\ broker_list_file' \in FileLists
      <4>1. NoFile \in FileLists
        BY DEF NoFile, FileLists
      <4>2. broker_list_file' \in {broker_list', broker_list_file, NoFile}
        BY <2>1 DEF RedirectHandled
      <4> QED BY <2>1, <1>b, <4>1, <4>2 DEF RedirectHandled
    <3>2. address_type' \in BOOLEAN /\ last_server_file' = last_server_file
      BY <2>1, Zenon DEF RedirectHandled
    <3>3. current_broker_in_list' \in {FREED, NULL}
      BY <2>1, FreedPointer DEF RedirectHandled
    <3> QED BY <1>4, <3>1, <3>2, <3>3 DEF SetupTunnel
  <2>2. CASE RedirectMishandled
    <3>1. broker_list' \in Lists
      BY <2>2, <1>a, <1>b DEF RedirectMishandled
    <3>2. address_type' \in BOOLEAN
      BY <2>2, Zenon DEF RedirectMishandled
    <3>3. current_broker_in_list' \in {FREED, NULL, current_broker_in_list}
      BY <2>2, FreedPointer DEF RedirectMishandled
    <3> QED BY <1>4, <2>2, <3>1, <3>2, <3>3 DEF SetupTunnel, RedirectMishandled, files
  <2>3. CASE TunnelNegotiated /\ server \in Servers
    BY <1>4, <2>3 DEF SetupTunnel, TunnelNegotiated
  <2>4. CASE UNCHANGED <<broker_list, address_type, current_broker_in_list, files>>
    BY <1>4, <2>4 DEF SetupTunnel, files
  <2>5. status' \in TunnelDown \cup InterfaceError => server \in Servers
    BY <1>4 DEF SetupTunnel, SetupOutcomes, TunnelDown, InterfaceError
  <2>6. \/ RedirectHandled
        \/ RedirectMishandled
        \/ TunnelNegotiated /\ status' \in TunnelDown \cup InterfaceError
        \/ UNCHANGED <<broker_list, address_type, current_broker_in_list, files>>
    BY <1>4 DEF SetupTunnel
  <2> QED BY <2>1, <2>2, <2>3, <2>4, <2>5, <2>6
<1>5. CASE OnFinished \/ OnKeepaliveTimeout \/ OnTunnelError \/ OnLeaseExpired
           \/ OnInvalidVersion \/ OnSocketIO \/ OnServerTooBusy
  BY <1>5 DEF OnFinished, OnKeepaliveTimeout, OnTunnelError, OnLeaseExpired,
              OnInvalidVersion, OnSocketIO, OnServerTooBusy, target, files
<1>6. CASE BootAbort \/ QuickCycle \/ LastServerFailed
  BY <1>6 DEF BootAbort, QuickCycle, LastServerFailed, target, files
<1>7. CASE OnRedirection
  <2>1. broker_list[1] \in Brokers
    BY <1>7 DEF OnRedirection, PointerInv, Lists
  <2>2. server' \in Servers \cup {NoServer, NotBracketed}
    BY <1>7, <2>1, FormattedAddress DEF OnRedirection
  <2>3. trying_broker_list' \in BOOLEAN /\ trying_original_server' \in BOOLEAN
    BY <1>7, Zenon DEF OnRedirection
  <2>4. current_broker_in_list' \in 1..MAX_REDIRECT_BROKERS_IN_LIST
    BY <1>7, ListAssumption DEF OnRedirection
  <2> QED BY <1>7, <2>2, <2>3, <2>4 DEF OnRedirection, files
<1>8. CASE OnRedirectionError \/ End
  BY <1>8, <1>a, FreedPointer DEF OnRedirectionError, End, files
<1>9. CASE OriginalFailedTryFile
  <2>1. tspReadBrokerListFromFile \in Lists /\ 1 \in 1..Len(tspReadBrokerListFromFile)
    BY <1>9, FileListAccepted DEF OriginalFailedTryFile, Lists
  <2>2. TryBroker(tspReadBrokerListFromFile, FALSE, 1)
    BY <1>9 DEF OriginalFailedTryFile
  <2>3. trying_broker_list' \in BOOLEAN /\ trying_original_server' \in BOOLEAN
    BY <1>9, Zenon DEF OriginalFailedTryFile
  <2>4. UNCHANGED files
    BY <1>9 DEF OriginalFailedTryFile, ServerFailed
  <2> QED BY <2>1, <2>2, <2>3, <2>4, TryBrokerType DEF files
<1>10. CASE OriginalFailedNoList
  BY <1>10, <1>a, FreedPointer DEF OriginalFailedNoList, ServerFailed, files
<1>11. CASE LastBrokerFailed
  <2>1. trying_original_server' \in BOOLEAN
    BY <1>11, Zenon DEF LastBrokerFailed
  <2>2. server' \in Servers \cup {NoServer}
    BY <1>11 DEF LastBrokerFailed, pal_strdup, Servers
  <2> QED BY <1>11, <2>1, <2>2 DEF LastBrokerFailed, ServerFailed, files
<1>12. CASE BrokerFailed
  <2>1. current_broker_in_list + 1 \in 1..Len(broker_list)
    BY <1>12 DEF BrokerFailed, Lists
  <2>2. TryBroker(broker_list, address_type, current_broker_in_list + 1)
    BY <1>12 DEF BrokerFailed
  <2> QED BY <1>12, <2>1, <2>2, TryBrokerType DEF BrokerFailed, ServerFailed, files
<1>13. CASE StrayBrokerFailed
  BY <1>13 DEF StrayBrokerFailed, ServerFailed, target, files
<1>14. CASE Wait \/ RetryNow \/ Sleep \/ EndWait \/ EndLoopWait
  BY <1>14 DEF Wait, RetryNow, Sleep, EndWait, EndLoopWait, target, files
<1>15. CASE Signal \/ Returned \/ UNCHANGED vars
  BY <1>15 DEF Signal, Returned, vars, target, files
<1> QED BY <1>1, <1>2, <1>3, <1>4, <1>5, <1>6, <1>7, <1>8, <1>9, <1>10, <1>11, <1>12,
           <1>13, <1>14, <1>15
           DEF Next, Program, Switch

-----------------------------------------------------------------------------
(* The pointer into the list and the server.                                *)

\* At the start the loop is not going through a list.
LEMMA PointerInit == Init => PointerInv
BY DEF Init, PointerInv, BrokerPointerSafe, GoingThroughList

\* A copied address designates the broker it was copied from.
LEMMA CopyDesignates ==
  ASSUME NEW broker, NEW typed, FormatBrokerListAddr(broker, typed, TRUE)
  PROVE  server' \in {NoServer, Designates(broker, typed)}
BY DEF FormatBrokerListAddr, pal_strdup, Designates

\* After TryBroker() the loop is at a broker of its list, or leaves.
LEMMA TryBrokerDesignates ==
  ASSUME NEW list \in Lists, NEW typed, NEW i \in 1..Len(list),
         TryBroker(list, typed, i)
  PROVE  \/ pc' = "endtspc"
         \/ /\ pc' = "while"
            /\ current_broker_in_list' \in 1..Len(broker_list')
            /\ server' \in {NoServer,
                 Designates(broker_list'[current_broker_in_list'], address_type')}
<1>1. PICK ok \in BOOLEAN :
        /\ FormatBrokerListAddr(list[i], typed, ok)
        /\ IF ok THEN /\ broker_list' = list
                      /\ current_broker_in_list' = i
                      /\ pc' = "while"
                 ELSE pc' = "endtspc"
  BY DEF TryBroker, Again
<1>2. CASE ok
  BY <1>1, <1>2, CopyDesignates DEF TryBroker
<1>3. CASE ~ok
  BY <1>1, <1>3
<1> QED BY <1>2, <1>3

\* Each action keeps the pointer valid whenever the flags say that the loop goes
\* through a list, and keeps the server the one they designate.
LEMMA PointerStep == TypeOK /\ PointerInv /\ [Next]_vars => PointerInv'
<1> SUFFICES ASSUME TypeOK, PointerInv, [Next]_vars PROVE PointerInv'
  OBVIOUS
<1> USE DEF PointerInv, BrokerPointerSafe, GoingThroughList, Redirected
<1>1. CASE StartFails \/ LeaveLoop \/ StopInLoop \/ VersionsExhausted \/ SelectTransport
  BY <1>1 DEF StartFails, LeaveLoop, StopInLoop, VersionsExhausted, SelectTransport,
              target
<1>2. CASE ChooseFirstServer
  BY <1>2 DEF ChooseFirstServer
<1>3. CASE EnterLoop
  BY <1>3 DEF EnterLoop
<1>4. CASE SetupTunnel
  <2>1. CASE RedirectHandled /\ status' = "EVNT_BROKER_REDIRECTION"
    <3>1. broker_list' # <<>>
      BY <2>1, ConfAssumption DEF RedirectHandled
    <3> QED BY <1>4, <2>1, <3>1 DEF SetupTunnel
  <2>2. CASE status' = "ERR_BROKER_REDIRECTION"
    BY <1>4, <2>2 DEF SetupTunnel
  <2>3. CASE UNCHANGED <<broker_list, address_type, current_broker_in_list>>
             /\ status' # "EVNT_BROKER_REDIRECTION"
    BY <1>4, <2>3 DEF SetupTunnel
  <2> QED BY <1>4, <2>1, <2>2, <2>3
             DEF SetupTunnel, TunnelNegotiated, TunnelDown, InterfaceError
<1>5. CASE OnFinished \/ OnKeepaliveTimeout \/ OnTunnelError \/ OnLeaseExpired
           \/ OnInvalidVersion \/ OnSocketIO \/ OnServerTooBusy
  BY <1>5 DEF OnFinished, OnKeepaliveTimeout, OnTunnelError, OnLeaseExpired,
              OnInvalidVersion, OnSocketIO, OnServerTooBusy, Again, BreakOut, GiveUp,
              Fatal, target
<1>6. CASE BootAbort \/ QuickCycle \/ LastServerFailed
  BY <1>6 DEF BootAbort, QuickCycle, LastServerFailed, ConnectFailed, Again, BreakOut,
              GiveUp, target
<1>7. CASE OnRedirection
  <2>1. PICK ok \in BOOLEAN :
          /\ FormatBrokerListAddr(broker_list[1], address_type, ok)
          /\ connected' = (connected /\ ok)
    BY <1>7 DEF OnRedirection
  <2>2. 1 \in 1..Len(broker_list)
    BY <1>7 DEF OnRedirection, TypeOK, TargetType, Lists
  <2>3. ok => server' \in {NoServer, Designates(broker_list[1], address_type)}
    BY <2>1, CopyDesignates
  <2>4. connected' => ok
    BY <2>1
  <2> QED BY <1>7, <2>2, <2>3, <2>4 DEF OnRedirection, Again
<1>8. CASE OnRedirectionError \/ End
  BY <1>8 DEF OnRedirectionError, End, Again, GiveUp
<1>9. CASE OriginalFailedTryFile
  <2>1. tspReadBrokerListFromFile \in Lists /\ 1 \in 1..Len(tspReadBrokerListFromFile)
    BY <1>9, FileListAccepted DEF OriginalFailedTryFile, Lists, TypeOK, TargetType
  <2>2. TryBroker(tspReadBrokerListFromFile, FALSE, 1) /\ ~trying_original_server'
    BY <1>9 DEF OriginalFailedTryFile
  <2> QED BY <2>1, <2>2, TryBrokerDesignates
<1>10. CASE OriginalFailedNoList
  BY <1>10 DEF OriginalFailedNoList, BreakOut
<1>11. CASE LastBrokerFailed
  BY <1>11 DEF LastBrokerFailed, pal_strdup, BreakOut
<1>12. CASE BrokerFailed
  <2>1. current_broker_in_list + 1 \in 1..Len(broker_list) /\ broker_list \in Lists
    BY <1>12 DEF BrokerFailed, Lists, TypeOK, TargetType
  <2>2. /\ TryBroker(broker_list, address_type, current_broker_in_list + 1)
        /\ ~trying_original_server'
    BY <1>12 DEF BrokerFailed, ServerFailed
  <2> QED BY <2>1, <2>2, TryBrokerDesignates
<1>13. CASE StrayBrokerFailed
  BY <1>13 DEF StrayBrokerFailed, ServerFailed, BreakOut, target
<1>14. CASE Wait \/ RetryNow \/ Sleep \/ EndWait \/ EndLoopWait
  BY <1>14 DEF Wait, RetryNow, Sleep, EndWait, EndLoopWait, target
<1>15. CASE Signal \/ Returned \/ UNCHANGED vars
  BY <1>15 DEF Signal, Returned, vars, target
<1> QED BY <1>1, <1>2, <1>3, <1>4, <1>5, <1>6, <1>7, <1>8, <1>9, <1>10, <1>11, <1>12,
           <1>13, <1>14, <1>15
           DEF Next, Program, Switch

-----------------------------------------------------------------------------
(* Versions and transports.                                                 *)

\* A pending fallback exists only between the switch and the next choice of a
\* transport, and one that leaves the first version with UDP goes with cycle 1.
VersionInv ==
  /\ conf.tunnel_mode = "V4V6" => version_index = CLIENT_VERSION_INDEX_CURRENT
  /\ tsp_version_fallback /\ conf.tunnel_mode # "V4V6"
       => pc \in {"while", "loop_wait", "do", "endtspc", "done"}
  /\ (/\ pc = "while"
      /\ connected
      /\ tsp_version_fallback
      /\ conf.tunnel_mode # "V4V6"
      /\ version_index = CLIENT_VERSION_INDEX_V6UDPV4_START) => cycle = 1
  /\ OldVersionOverTcp

\* The first version is the current one, which exists over every transport.
LEMMA VersionInit == Init => VersionInv
BY DEF Init, VersionInv, OldVersionOverTcp

\* Each action keeps versions without UDP off the UDP transport.
LEMMA VersionStep == TypeOK /\ VersionInv /\ [Next]_vars => VersionInv'
<1> SUFFICES ASSUME TypeOK, VersionInv, [Next]_vars PROVE VersionInv'
  OBVIOUS
<1> USE DEF VersionInv, OldVersionOverTcp, CLIENT_VERSION_INDEX_V6UDPV4_START,
            CLIENT_VERSION_INDEX_2_0_0, CLIENT_VERSION_INDEX_CURRENT
<1>a. version_index \in Int
  BY VersionAssumption DEF TypeOK, ChoiceType
<1>1. CASE SelectTransport
  <2> DEFINE mode == conf.tunnel_mode
  <2>1. CASE mode = "V4V6"
    BY <1>1, <2>1 DEF SelectTransport
  <2>2. CASE mode # "V4V6" /\ ~tsp_version_fallback
    <3>1. /\ version_index' = CLIENT_VERSION_INDEX_CURRENT
          /\ ~tsp_version_fallback'
          /\ pc' = "setup"
          /\ conf' = conf
      BY <1>1, <2>2, Zenon DEF SelectTransport
    <3> QED BY <3>1, <2>2
  <2>3. CASE mode # "V4V6" /\ tsp_version_fallback
    <3>1. /\ version_index' = version_index + 1
          /\ version_index < OldestFor(mode)
          /\ transport' = TransportOf(mode, CycleOf(mode))
          /\ connected
          /\ pc = "while"
      BY <1>1, <2>3 DEF SelectTransport
    <3>2. version_index = CLIENT_VERSION_INDEX_V6UDPV4_START => mode # "V6UDPV4"
      BY <3>1 DEF OldestFor
    <3>3. version_index <= CLIENT_VERSION_INDEX_V6UDPV4_START
      BY <1>a, <3>1, VersionAssumption, OldestForKnown DEF CLIENT_VERSION_INDEX_1_0_1
    <3>4. mode \in TunnelModes
      BY ConfAssumption DEF TypeOK, ControlType, ConfType
    <3>5. version_index = CLIENT_VERSION_INDEX_V6UDPV4_START => transport' = "TCP"
      BY <2>3, <3>1, <3>2, <3>4 DEF TransportOf, CycleOf, TunnelModes
    <3>6. version_index' > CLIENT_VERSION_INDEX_V6UDPV4_START => transport' = "TCP"
      BY <1>a, <3>1, <3>3, <3>5
    <3>7. pc' = "setup" /\ ~tsp_version_fallback' /\ conf' = conf
      BY <1>1, <2>3 DEF SelectTransport
    <3> QED BY <2>3, <3>6, <3>7
  <2> QED BY <2>1, <2>2, <2>3
<1>2. CASE StartFails \/ ChooseFirstServer \/ LeaveLoop \/ StopInLoop \/ SetupTunnel
  BY <1>2 DEF StartFails, ChooseFirstServer, LeaveLoop, StopInLoop, SetupTunnel, choice
<1>3. CASE EnterLoop \/ VersionsExhausted
  BY <1>3 DEF EnterLoop, VersionsExhausted
<1>4. CASE OnFinished \/ OnKeepaliveTimeout \/ OnTunnelError \/ OnLeaseExpired
           \/ OnSocketIO \/ OnServerTooBusy \/ OnRedirectionError \/ BootAbort
  BY <1>4 DEF OnFinished, OnKeepaliveTimeout, OnTunnelError, OnLeaseExpired,
              OnSocketIO, OnServerTooBusy, OnRedirectionError, BootAbort,
              ConnectFailed, Again, BreakOut, GiveUp, choice
<1>5. CASE OnInvalidVersion
  BY <1>5 DEF OnInvalidVersion, Again
<1>6. CASE OnRedirection \/ QuickCycle \/ LastServerFailed
  BY <1>6 DEF OnRedirection, QuickCycle, LastServerFailed, ConnectFailed, Again,
              BreakOut
<1>7. CASE ServerFailed /\ pc' \in {"while", "backoff", "endtspc"}
  BY <1>7 DEF ServerFailed, ConnectFailed
<1>8. OriginalFailedTryFile \/ OriginalFailedNoList \/ LastBrokerFailed
      \/ BrokerFailed \/ StrayBrokerFailed
        => ServerFailed /\ pc' \in {"while", "backoff", "endtspc"}
  BY DEF OriginalFailedTryFile, OriginalFailedNoList, LastBrokerFailed, BrokerFailed,
         StrayBrokerFailed, TryBroker, Again, BreakOut
<1>9. CASE Wait \/ RetryNow \/ Sleep \/ EndWait \/ EndLoopWait \/ End
  BY <1>9 DEF Wait, RetryNow, Sleep, EndWait, EndLoopWait, End, choice
<1>10. CASE Signal \/ Returned \/ UNCHANGED vars
  BY <1>10 DEF Signal, Returned, vars, choice
<1> QED BY <1>1, <1>2, <1>3, <1>4, <1>5, <1>6, <1>7, <1>8, <1>9, <1>10
           DEF Next, Program, Switch

-----------------------------------------------------------------------------
(* Theorems.                                                                *)

\* The inductive invariant.
IInv == TypeOK /\ DelayInv /\ PointerInv /\ VersionInv

\* Every step of tspMain() and of its signal handler preserves the inductive
\* invariant.
THEOREM Inductive == Spec => []IInv
<1>1. Init => IInv
  BY TypeInit, DelayInit, PointerInit, VersionInit DEF IInv
<1>2. IInv /\ [Next]_vars => IInv'
  <2> SUFFICES ASSUME IInv, [Next]_vars PROVE IInv'
    OBVIOUS
  <2>1. TypeOK'
    BY ControlStep, TargetStep, ChoiceStep, DelayStep DEF IInv, TypeOK
  <2> QED BY <2>1, DelayStep, PointerStep, VersionStep DEF IInv
<1> QED BY <1>1, <1>2, PTL DEF Spec

\* Every variable of tspMain() keeps its type: counters in their width, the
\* position inside a list of at most MAX_REDIRECT_BROKERS_IN_LIST, versions
\* among those implemented.
THEOREM TypeCorrect == Spec => []TypeOK
BY Inductive, PTL DEF IInv

\* No element of a freed or missing list is read while the loop goes through a
\* list of brokers (tsp_client.c:1494-1543).
THEOREM PointerSafety == Spec => []BrokerPointerSafe
BY Inductive, PTL DEF IInv, PointerInv

\* The server tried is the one the flags and the position designate.
THEOREM Designation == Spec => []ServerDesignated
<1>1. IInv => ServerDesignated
  BY DEF IInv, PointerInv, ServerDesignated
<1> QED BY <1>1, Inductive, PTL

\* effective_retry_delay is assigned before it is read.
THEOREM DelaysInitialised == Spec => []DelayInitialised
<1>1. IInv => DelayInitialised
  BY DEF IInv, DelayInv, DelayInitialised
<1> QED BY <1>1, Inductive, PTL

\* No wait exceeds retry_delay_max.
THEOREM WaitsBounded == Spec => []WaitBounded
<1>1. IInv => WaitBounded
  BY DEF IInv, DelayInv, WaitBounded
<1> QED BY <1>1, Inductive, PTL

\* Versions without UDP are only tried over TCP.
THEOREM OldVersions == Spec => []OldVersionOverTcp
<1>1. IInv => OldVersionOverTcp
  BY DEF IInv, VersionInv
<1> QED BY <1>1, Inductive, PTL

-----------------------------------------------------------------------------
(* The schedule of the delays. Backoff is a recursive function; that one    *)
(* exists is shown by its initial segments, with the least-number principle *)
(* in place of an induction.                                                *)

\* A set of natural numbers has a least element.
LEMMA LeastNumber ==
  ASSUME NEW T, T \subseteq Nat, T # {}
  PROVE  \E x \in T : \A y \in T : x <= y
<1> DEFINE R == OpToRel(<, Nat)
<1>1. IsWellFoundedOn(R, Nat)
  BY NatLessThanWellFounded, Zenon
<1>2. \E x \in T : \A y \in T : ~ (<<y, x>> \in R)
  <2> HIDE DEF R
  <2> QED BY <1>1, WFMin, Zenon
<1>3. \A x, y \in Nat : ~(<<y, x>> \in R) => x <= y
  BY DEF OpToRel
<1> QED BY <1>2, <1>3

\* The n-th delay, after d.
NextBackoff(d, n) ==
  IF n <= 1 THEN retry_delay
  ELSE IF n % CONSEC_RETRY_TO_DOUBLE_WAIT = 1
       THEN IF 2 * d > retry_delay_max THEN retry_delay_max ELSE 2 * d
       ELSE d

\* g is the schedule up to its n-th delay.
Segment(g, n) == \A i \in 0..n : g[i] = NextBackoff(g[i - 1], i)

\* There is a segment of every length.
LEMMA SegmentExists == \A n \in Nat : \E g : Segment(g, n)
<1> DEFINE T == {n \in Nat : ~\E g : Segment(g, n)}
<1> SUFFICES ASSUME T # {} PROVE FALSE
  OBVIOUS
<1>1. PICK m \in T : \A y \in T : m <= y
  <2> HIDE DEF T
  <2>1. T \subseteq Nat
    BY DEF T
  <2> QED BY <2>1, LeastNumber
<1>2. m \in Nat /\ ~\E g : Segment(g, m)
  OBVIOUS
<1>3. PICK g : m # 0 => Segment(g, m - 1)
  <2>1. m # 0 => m - 1 \in Nat /\ m - 1 \notin T
    BY <1>1, <1>2
  <2> QED BY <2>1
<1> DEFINE h == [i \in 0..m |-> IF i < m THEN g[i] ELSE NextBackoff(g[m - 1], m)]
<1>4. ASSUME NEW i \in 0..m PROVE h[i] = NextBackoff(h[i - 1], i)
  <2>1. CASE i <= 1
    <3>1. NextBackoff(h[i - 1], i) = retry_delay /\ NextBackoff(g[i - 1], i) = retry_delay
      BY <2>1 DEF NextBackoff
    <3>2. CASE i < m
      <4>1. i \in 0..(m - 1) /\ m # 0
        BY <1>2, <3>2
      <4>2. h[i] = g[i]
        BY <3>2
      <4> QED BY <1>3, <3>1, <4>1, <4>2 DEF Segment
    <3>3. CASE i = m
      BY <3>1, <3>3
    <3> QED BY <1>2, <3>2, <3>3
  <2>2. CASE i > 1
    <3>1. i - 1 \in 0..m /\ i - 1 < m /\ m # 0
      BY <1>2, <2>2
    <3>2. h[i - 1] = g[i - 1]
      BY <3>1
    <3>3. CASE i < m
      <4>1. i \in 0..(m - 1)
        BY <1>2, <3>3
      <4>2. h[i] = g[i]
        BY <3>3
      <4> QED BY <1>3, <3>1, <3>2, <4>1, <4>2 DEF Segment
    <3>4. CASE i = m
      BY <3>2, <3>4
    <3> QED BY <1>2, <3>3, <3>4
  <2> QED BY <1>2, <2>1, <2>2
<1>5. Segment(h, m)
  <2> HIDE DEF h
  <2> QED BY <1>4 DEF Segment
<1> QED BY <1>2, <1>5

\* Segments agree where both are defined.
LEMMA SegmentsAgree ==
  ASSUME NEW g, NEW h, NEW n \in Nat, NEW m \in Nat, Segment(g, n), Segment(h, m),
         NEW k \in 0..n, k <= m
  PROVE  g[k] = h[k]
<1> DEFINE T == {i \in 0..n : i <= m /\ g[i] # h[i]}
<1> SUFFICES ASSUME T # {} PROVE FALSE
  OBVIOUS
<1>1. PICK j \in T : \A y \in T : j <= y
  <2> HIDE DEF T
  <2>1. T \subseteq Nat
    BY DEF T
  <2> QED BY <2>1, LeastNumber
<1>2. g[j] = NextBackoff(g[j - 1], j) /\ h[j] = NextBackoff(h[j - 1], j)
  BY DEF Segment
<1>3. j <= 1 => g[j] = h[j]
  BY <1>2 DEF NextBackoff
<1>4. j > 1 => g[j - 1] = h[j - 1]
  BY <1>1
<1> QED BY <1>2, <1>3, <1>4

\* What its definition says of Backoff.
LEMMA BackoffIs ==
  ASSUME NEW n \in Nat
  PROVE  Backoff[n] = NextBackoff(Backoff[n - 1], n)
<1> DEFINE G(k) == CHOOSE g : Segment(g, k)
           B == [k \in Nat |-> G(k)[k]]
<1>1. \A k \in Nat : Segment(G(k), k)
  BY SegmentExists
<1> HIDE DEF G
<1>2. ASSUME NEW k \in Nat PROVE B[k] = NextBackoff(B[k - 1], k)
  <2>1. B[k] = NextBackoff(G(k)[k - 1], k)
    BY <1>1 DEF Segment
  <2>2. CASE k <= 1
    BY <2>1, <2>2 DEF NextBackoff
  <2>3. CASE k > 1
    <3>1. k - 1 \in Nat /\ k - 1 \in 0..k
      BY <2>3
    <3>2. G(k)[k - 1] = G(k - 1)[k - 1]
      BY <1>1, <3>1, SegmentsAgree
    <3>3. B[k - 1] = G(k - 1)[k - 1]
      BY <3>1
    <3> QED BY <2>1, <3>2, <3>3
  <2> QED BY <2>2, <2>3
<1>3. B = [k \in Nat |-> NextBackoff(B[k - 1], k)]
  BY <1>2
<1>4. Backoff = CHOOSE f : f = [k \in Nat |-> NextBackoff(f[k - 1], k)]
  BY DEF Backoff, NextBackoff
<1>5. Backoff = [k \in Nat |-> NextBackoff(Backoff[k - 1], k)]
  <2> HIDE DEF B
  <2> QED BY <1>3, <1>4
<1> QED BY <1>5

\* The sixteen bits do not wrap: a delay is at most retry_delay_max, and that 3600.
LEMMA DoubledDelayIs ==
  ASSUME NEW d \in 0..retry_delay_max
  PROVE  DoubledDelay(d) = IF 2 * d > retry_delay_max THEN retry_delay_max ELSE 2 * d
<1>1. d \in Nat /\ d <= 3600
  BY DelayAssumption
<1>2. (2 * d) % 65536 = 2 * d
  BY <1>1
<1> QED BY <1>2 DEF DoubledDelay, Capped, UINT16

\* Each action keeps the delay that the number of failures calls for.
LEMMA ScheduleStep == TypeOK /\ DelayInv /\ BackoffSchedule /\ [Next]_vars => BackoffSchedule'
<1> SUFFICES ASSUME TypeOK, DelayInv, BackoffSchedule, [Next]_vars PROVE BackoffSchedule'
  OBVIOUS
<1>a. Backoff[1] = retry_delay
  BY BackoffIs DEF NextBackoff
<1>1. CASE StartFails \/ StopInLoop \/ VersionsExhausted \/ SelectTransport \/ SetupTunnel
           \/ OnFinished \/ OnLeaseExpired \/ OnInvalidVersion \/ OnRedirection
           \/ OnRedirectionError \/ BootAbort \/ QuickCycle \/ LastServerFailed
  BY <1>1 DEF StartFails, StopInLoop, VersionsExhausted, SelectTransport, SetupTunnel,
              OnFinished, OnLeaseExpired, OnInvalidVersion, OnRedirection,
              OnRedirectionError, BootAbort, QuickCycle, LastServerFailed, delays, BackoffSchedule
<1>2. CASE ChooseFirstServer \/ EnterLoop \/ LeaveLoop
  BY <1>2 DEF ChooseFirstServer, EnterLoop, LeaveLoop, BackoffSchedule
<1>3. CASE OnKeepaliveTimeout \/ OnTunnelError \/ OnSocketIO
  BY <1>3 DEF OnKeepaliveTimeout, OnTunnelError, OnSocketIO, BackoffSchedule
<1>4. CASE OnServerTooBusy \/ ServerFailed
  <2>1. ForceWait
    BY <1>4 DEF OnServerTooBusy, ServerFailed
  <2> QED BY <2>1, <1>a DEF ForceWait, BackoffSchedule
<1>5. CASE Wait
  <2> DEFINE n == consec_retry
             d == effective_retry_delay
  <2>1. n \in 1..(UINT8 - 1) /\ UINT8 \in Nat /\ d \in 0..retry_delay_max /\ d = Backoff[n]
    BY <1>5, WidthAssumption
       DEF Wait, TypeOK, DelayType, DelayInv, UNINIT, BackoffSchedule
  <2>2. consec_retry' > 0 => consec_retry' = n + 1
    BY <1>5, <2>1 DEF Wait
  <2>3. Backoff[n + 1] = NextBackoff(d, n + 1)
    BY <2>1, BackoffIs
  <2>4. DoubledDelay(d) = IF 2 * d > retry_delay_max THEN retry_delay_max ELSE 2 * d
    BY <2>1, DoubledDelayIs
  <2>5. n % 3 = 0 <=> (n + 1) % 3 = 1
    BY <2>1
  <2>6. effective_retry_delay' = Backoff[n + 1]
    BY <1>5, <2>1, <2>3, <2>4, <2>5 DEF Wait, NextBackoff, CONSEC_RETRY_TO_DOUBLE_WAIT
  <2> QED BY <2>2, <2>6 DEF BackoffSchedule
<1>6. CASE RetryNow
  BY <1>6, <1>a DEF RetryNow, BackoffSchedule
<1>7. CASE Sleep \/ EndWait \/ EndLoopWait \/ End
  BY <1>7 DEF Sleep, EndWait, EndLoopWait, End, delays, BackoffSchedule
<1>8. CASE Signal \/ Returned \/ UNCHANGED vars
  BY <1>8 DEF Signal, Returned, vars, delays, BackoffSchedule
<1>9. OriginalFailedTryFile \/ OriginalFailedNoList \/ LastBrokerFailed
       \/ BrokerFailed \/ StrayBrokerFailed => ServerFailed
  BY DEF OriginalFailedTryFile, OriginalFailedNoList, LastBrokerFailed, BrokerFailed,
         StrayBrokerFailed
<1> QED BY <1>1, <1>2, <1>3, <1>4, <1>5, <1>6, <1>7, <1>8, <1>9 DEF Next, Program, Switch

\* The delay kept in place is the one that the number of failures calls for, with the
\* counter in its eight bits and the delay in its sixteen (tsp_client.c:1712-1731).
THEOREM BackoffOnSchedule == Spec => []BackoffSchedule
<1>1. Init => BackoffSchedule
  BY DEF Init, BackoffSchedule
<1>2. IInv /\ BackoffSchedule /\ [Next]_vars => BackoffSchedule'
  BY ScheduleStep DEF IInv
<1> QED BY <1>1, <1>2, Inductive, PTL DEF Spec

=============================================================================
