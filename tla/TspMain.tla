------------------------------- MODULE TspMain -------------------------------
(***************************************************************************)
(* The connection loop of the gogoCLIENT: tspMain() of                     *)
(* gogoc-tsp/src/tsp/tsp_client.c, as built for Linux and Android (no      *)
(* V4V6_SUPPORT, DSLITE_SUPPORT or HACCESS).                               *)
(*                                                                         *)
(* The loop picks a transport and a TSP version, calls tspSetupTunnel() on *)
(* the current server and reacts to the status it returns: it changes      *)
(* transport, version or server, waits, or gives up and starts over after  *)
(* loop_delay.  The SIGHUP handler runs at any time.                       *)
(*                                                                         *)
(* tspSetupTunnel() appears as the action SetupTunnel: any outcome of the  *)
(* set Outcomes, with what it does to the broker list and to the two files *)
(* (broker_list, last_server).  gStatusInfo, what the GUI is told, is left *)
(* out: send_status_info() is empty on these platforms                     *)
(* (platform/linux/tsp_local.c:49).                                        *)
(***************************************************************************)
EXTENDS Integers, Sequences, FiniteSets

CONSTANTS
  Original,         \* the 'server' of the configuration
  Brokers,          \* hosts a redirection or the two files can name
  IPv6Brokers,      \* those named by an IPv6 address
  MAX_REDIRECT_BROKERS_IN_LIST,
  retry_delay,      \* configuration, seconds
  retry_delay_max,  \* configuration, seconds
  CLIENT_VERSION_INDEX_OLDEST,  \* a platform may override it
  UINT8,            \* 2^8: values of the type of consec_retry
  Confs,            \* the configurations explored
  Redirections,     \* the lists of brokers a server can redirect to
  BrokerFiles,      \* what the broker_list file can hold at the start
  LastServerFiles,  \* the same for the last_server file
  Outcomes,         \* what tspSetupTunnel() can return
  ResourceFaults,   \* whether allocations and file accesses may fail
  FailedCap         \* bound of the history variable 'failed'

VARIABLES
  pc,                     \* where the main thread is
  conf,                   \* the configuration read by tspInitialize()
  indSigHUP,              \* set by the signal handler, never cleared
  status,                 \* status number of the last step
  server,                 \* c.server: the host it designates
  transport,              \* c.transport
  broker_list,            \* the linked list, as a sequence; <<>> is NULL
  address_type,           \* whether its elements know their address type
  current_broker_in_list, \* position in broker_list, NULL or FREED
  trying_broker_list,
  trying_original_server,
  read_last_server,
  connected,
  cycle,
  quick_cycle,
  version_index,
  tsp_version_fallback,
  consec_retry,           \* uint8_t
  effective_retry_delay,  \* uint16_t, not initialised by its declaration
  loop_delay,
  sleepTime,              \* seconds left of the current wait
  broker_list_file,       \* contents of the file, or NoFile
  last_server_file,       \* contents of the file, or NoServer
  failed                  \* history: attempts failed in a row, up to FailedCap

files  == <<broker_list_file, last_server_file>>
target == <<server, broker_list, address_type, current_broker_in_list,
            trying_broker_list, trying_original_server>>
choice == <<transport, cycle, quick_cycle, version_index, tsp_version_fallback>>
delays == <<consec_retry, effective_retry_delay, loop_delay, sleepTime>>
vars   == <<pc, conf, indSigHUP, status, target, choice, delays, files,
            connected, read_last_server, failed>>

-----------------------------------------------------------------------------
(* Values.                                                                  *)

NULL   == 0       \* current_broker_in_list is NULL
FREED  == -1      \* it points into a list that has been freed
UNINIT == -1      \* effective_retry_delay before its first assignment
NoFile == <<>>    \* the broker_list file is missing or holds no address

UINT16 == 65536

\* tsp_client.h:22-34, in the order of the enumeration.
CLIENT_VERSION_INDEX_CURRENT       == 0
CLIENT_VERSION_INDEX_2_0_0         == 2
CLIENT_VERSION_INDEX_1_0_1         == 3
CLIENT_VERSION_INDEX_V6UDPV4_START == CLIENT_VERSION_INDEX_2_0_0

CONSEC_RETRY_TO_DOUBLE_WAIT == 3

TunnelModes == {"V6UDPV4", "V6ANYV4", "V6V4", "V4V6"}
Transports  == {"RUDP", "TCP"}

\* Statuses after which the switch only clears 'connected'.
Fatal == {"ERR_AUTHENTICATION_FAILURE", "ERR_NO_COMMON_AUTHENTICATION",
          "ERR_INTERFACE_SETUP_FAILED", "ERR_TSP_GENERIC_ERROR",
          "ERR_MEMORY_STARVATION", "ERR_TUNMODE_NOT_AVAILABLE",
          "ERR_BAD_TUNNEL_PARAM", "ERR_INVAL_GOGOC_ADDRESS",
          "ERR_FAIL_RESOLV_ADDR", "ERR_INVAL_CLIENT_ADDR",
          "ERR_INVAL_CFG_FILE"}

\* Those of tspStartLocal() and tspSetupInterface(), after the negotiation.
InterfaceError == {"ERR_INTERFACE_SETUP_FAILED", "ERR_BAD_TUNNEL_PARAM",
                   "ERR_INVAL_CFG_FILE"}

\* Statuses of an attempt that reached no broker.
NotReached == {"ERR_INVAL_GOGOC_ADDRESS", "ERR_FAIL_RESOLV_ADDR",
               "ERR_FAIL_SOCKET_CONNECT"}

\* Statuses of a tunnel that was up and went down.
TunnelDown == {"SUCCESS", "ERR_KEEPALIVE_TIMEOUT", "ERR_KEEPALIVE_ERROR",
               "ERR_TUNNEL_IO", "ERR_TUN_LEASE_EXPIRED"}

Statuses == Fatal \cup TunnelDown \cup
            {"ERR_INVAL_TSP_VERSION", "ERR_SOCKET_IO", "ERR_TSP_SERVER_TOO_BUSY",
             "ERR_FAIL_SOCKET_CONNECT", "EVNT_BROKER_REDIRECTION",
             "ERR_BROKER_REDIRECTION"}

StartStatuses == {"ERR_INVAL_CFG_FILE", "ERR_MEMORY_STARVATION",
                  "ERR_FAIL_LOG_INIT"}

Servers == {Original} \cup Brokers

\* No address: c.server is NULL once FormatBrokerListAddr() has failed to
\* allocate it; the last_server file is missing or empty.
NoServer == "NULL"

\* An IPv6 address without its brackets: parse_addr_port() cuts it at the first
\* colon and takes the next group for the port.
NotBracketed == "NotBracketed"

Lists == {l \in Seq(Brokers) : Len(l) <= MAX_REDIRECT_BROKERS_IN_LIST}

\* The broker_list file can hold more addresses than the client accepts.
FileLists == Seq(Brokers)

ConfType == [tunnel_mode : TunnelModes, auto_retry_connect : BOOLEAN,
             boot_mode : BOOLEAN, always_use_same_server : BOOLEAN]

ASSUME ServersAssumption ==
  /\ Original \notin Brokers
  /\ IPv6Brokers \subseteq Brokers
  /\ {NoServer, NotBracketed} \cap Servers = {}

ASSUME ListAssumption == MAX_REDIRECT_BROKERS_IN_LIST \in Nat \ {0}

\* gogocconfig.cc:599-615 refuses retry_delay > retry_delay_max; both are at
\* most 3600 (gogoc.conf.in:134-135).
ASSUME DelayAssumption ==
  /\ retry_delay \in 0..3600
  /\ retry_delay_max \in 0..3600
  /\ retry_delay <= retry_delay_max

ASSUME WidthAssumption == UINT8 \in Nat /\ UINT8 > CONSEC_RETRY_TO_DOUBLE_WAIT

ASSUME VersionAssumption ==
  CLIENT_VERSION_INDEX_OLDEST
    \in CLIENT_VERSION_INDEX_CURRENT..CLIENT_VERSION_INDEX_1_0_1

ASSUME ConfAssumption ==
  /\ Confs \subseteq ConfType
  /\ Outcomes \subseteq Statuses
  /\ Redirections \subseteq Lists \ {<<>>}
  /\ BrokerFiles \subseteq FileLists
  /\ LastServerFiles \subseteq Servers \cup {NoServer}
  /\ ResourceFaults \in BOOLEAN
  /\ FailedCap \in Nat

-----------------------------------------------------------------------------
(* Helpers.                                                                 *)

\* tspFreeBrokerList(): whoever pointed into the list now dangles.
tspFreeBrokerList(current) == IF current = NULL THEN NULL ELSE FREED

\* Mutant: the cap is forgotten.
CappedNever(d) == d

Capped(d) == IF d > retry_delay_max THEN retry_delay_max ELSE d

\* Mutant: doubles the configured delay, not the effective one.
DoubledDelayOnce(d) == Capped((2 * retry_delay) % UINT16)

\* effective_retry_delay *= 2, in 16 bits, then the cap.
DoubledDelay(d) == Capped((2 * d) % UINT16)

\* A copy of a string, or NULL.
pal_strdup(s) == IF ResourceFaults THEN {s, NoServer} ELSE {s}

\* Mutant: one version too many.
OldestForOffByOne(mode) == CLIENT_VERSION_INDEX_OLDEST + 1

\* The oldest version a transport of this tunnel mode may fall back to.
OldestFor(mode) ==
  IF mode = "V6UDPV4" /\ CLIENT_VERSION_INDEX_V6UDPV4_START < CLIENT_VERSION_INDEX_OLDEST
  THEN CLIENT_VERSION_INDEX_V6UDPV4_START
  ELSE CLIENT_VERSION_INDEX_OLDEST

\* 'cycle' after "Catch an overflow of the variable".
CycleOf(mode) ==
  CASE mode = "V6UDPV4"            -> 0
    [] mode \in {"V6ANYV4", "V6V4"} -> IF cycle \in {0, 1} THEN cycle ELSE 0
    [] OTHER                        -> cycle

TransportOf(mode, c) ==
  CASE mode = "V6UDPV4"            -> "RUDP"
    [] mode \in {"V6ANYV4", "V6V4"} -> IF c = 0 THEN "RUDP" ELSE "TCP"
    [] OTHER                        -> transport

\* cycle++.  Every value above 1 is treated alike, so it stops at CycleCap.
CycleCap == 2
NextCycle == IF cycle < CycleCap THEN cycle + 1 ELSE cycle

\* The count of failed attempts in a row, for the properties about delays.
CountFailed(st) ==
  IF st = "ERR_FAIL_SOCKET_CONNECT"
  THEN IF failed < FailedCap THEN failed + 1 ELSE failed
  ELSE 0

-----------------------------------------------------------------------------
(* Before the loop (tsp_client.c:921-1017).                                 *)

Init ==
  /\ pc = "start"
  /\ conf \in Confs
  /\ indSigHUP = FALSE
  /\ status = "SUCCESS"
  /\ server = Original
  /\ transport = "RUDP"          \* memset(&c, 0): NET_TOOLS_T_RUDP is 0
  /\ broker_list = <<>>
  /\ address_type = FALSE
  /\ current_broker_in_list = NULL
  /\ trying_broker_list = FALSE
  /\ trying_original_server = FALSE
  /\ read_last_server = FALSE
  /\ connected = TRUE
  /\ cycle = 0
  /\ quick_cycle = FALSE
  /\ version_index = CLIENT_VERSION_INDEX_CURRENT
  /\ tsp_version_fallback = FALSE
  /\ consec_retry = 0
  /\ effective_retry_delay = UNINIT
  /\ loop_delay = 0
  /\ sleepTime = 0
  /\ broker_list_file \in BrokerFiles
  /\ last_server_file \in LastServerFiles
  /\ failed = 0

\* tspInitialize() or InitLogSystem() fails: goto endtspc.
StartFails ==
  /\ pc = "start"
  /\ status' \in StartStatuses
  /\ pc' = "endtspc"
  /\ UNCHANGED <<conf, indSigHUP, target, choice, delays, files, connected,
                 read_last_server, failed>>

\* tspReadLastServerFromFile(): the first line, if the file can be opened.
tspReadLastServerFromFile ==
  IF conf.always_use_same_server THEN last_server_file ELSE NoServer

\* The first server: the last one used, or the configured one.  The 'default'
\* case of the switch needs a NULL file name and cannot happen here.
ChooseFirstServer ==
  /\ pc = "start"
  /\ read_last_server' = (tspReadLastServerFromFile # NoServer)
  /\ server' = IF read_last_server' THEN tspReadLastServerFromFile ELSE Original
  /\ trying_original_server' = ~read_last_server'
  /\ loop_delay' = retry_delay
  /\ pc' = "do"
  /\ UNCHANGED <<conf, indSigHUP, status, broker_list, address_type,
                 current_broker_in_list, trying_broker_list, choice, consec_retry,
                 effective_retry_delay, sleepTime, files, connected, failed>>

-----------------------------------------------------------------------------
(* One pass of the outer loop, and the choice of transport and version     *)
(* (tsp_client.c:1019-1224).                                               *)

\* Mutant: trying_broker_list declared before the outer loop, like the list.
EnterLoopKeepsFlag ==
  /\ pc = "do"
  /\ version_index' = CLIENT_VERSION_INDEX_CURRENT
  /\ connected' = TRUE
  /\ cycle' = 0
  /\ tsp_version_fallback' = FALSE
  /\ quick_cycle' = FALSE
  /\ current_broker_in_list' = NULL
  /\ consec_retry' = 0
  /\ effective_retry_delay' = UNINIT
  /\ pc' = "while"
  /\ UNCHANGED <<conf, indSigHUP, status, server, transport, broker_list,
                 address_type, trying_broker_list, trying_original_server,
                 loop_delay, sleepTime, files, read_last_server, failed>>

\* The locals of the do-while body are declared afresh; the broker list, the
\* server and trying_original_server are not.
EnterLoop ==
  /\ pc = "do"
  /\ version_index' = CLIENT_VERSION_INDEX_CURRENT
  /\ connected' = TRUE
  /\ cycle' = 0
  /\ tsp_version_fallback' = FALSE
  /\ quick_cycle' = FALSE
  /\ current_broker_in_list' = NULL
  /\ trying_broker_list' = FALSE
  /\ consec_retry' = 0
  /\ effective_retry_delay' = UNINIT
  /\ pc' = "while"
  /\ UNCHANGED <<conf, indSigHUP, status, server, transport, broker_list,
                 address_type, trying_original_server, loop_delay, sleepTime, files,
                 read_last_server, failed>>

\* while( connected ): the loop gives up, and sleeps before it starts over.
LeaveLoop ==
  /\ pc = "while"
  /\ ~connected
  /\ sleepTime' = loop_delay
  /\ pc' = "loop_wait"
  /\ UNCHANGED <<conf, indSigHUP, status, target, choice, consec_retry,
                 effective_retry_delay, loop_delay, files, connected,
                 read_last_server, failed>>

\* Mutant: leaves the inner loop only.
StopInLoopContinues ==
  /\ pc = "while"
  /\ connected
  /\ indSigHUP
  /\ connected' = FALSE
  /\ UNCHANGED <<pc, conf, indSigHUP, status, target, choice, delays, files,
                 read_last_server, failed>>

\* tspCheckForStopOrWait(0) != 0: goto endtspc.
StopInLoop ==
  /\ pc = "while"
  /\ connected
  /\ indSigHUP
  /\ pc' = "endtspc"
  /\ UNCHANGED <<conf, indSigHUP, status, target, choice, delays, files,
                 connected, read_last_server, failed>>

\* Mutant: starts again from the current version.
VersionsWrapAround ==
  /\ pc = "while"
  /\ connected
  /\ ~indSigHUP
  /\ conf.tunnel_mode # "V4V6"
  /\ tsp_version_fallback
  /\ version_index >= OldestFor(conf.tunnel_mode)
  /\ cycle' = CycleOf(conf.tunnel_mode)
  /\ version_index' = CLIENT_VERSION_INDEX_CURRENT
  /\ UNCHANGED <<pc, conf, indSigHUP, status, target, transport, quick_cycle,
                 tsp_version_fallback, delays, files, connected,
                 read_last_server, failed>>

\* Every version of this mode has been refused: connected = 0; continue.
VersionsExhausted ==
  /\ pc = "while"
  /\ connected
  /\ ~indSigHUP
  /\ conf.tunnel_mode # "V4V6"
  /\ tsp_version_fallback
  /\ version_index >= OldestFor(conf.tunnel_mode)
  /\ cycle' = CycleOf(conf.tunnel_mode)
  /\ connected' = FALSE
  /\ UNCHANGED <<pc, conf, indSigHUP, status, target, transport, quick_cycle,
                 version_index, tsp_version_fallback, delays, files,
                 read_last_server, failed>>

\* In V4V6 mode, without V4V6_SUPPORT, the switch changes nothing.
SelectTransport ==
  /\ pc = "while"
  /\ connected
  /\ ~indSigHUP
  /\ LET mode == conf.tunnel_mode
         c    == CycleOf(mode)
     IN  /\ \/ mode = "V4V6"
            \/ ~tsp_version_fallback
            \/ version_index < OldestFor(mode)
         /\ cycle' = c
         /\ transport' = TransportOf(mode, c)
         /\ version_index' = IF mode = "V4V6" THEN version_index
                             ELSE IF tsp_version_fallback THEN version_index + 1
                             ELSE CLIENT_VERSION_INDEX_CURRENT
         /\ tsp_version_fallback' = (mode = "V4V6" /\ tsp_version_fallback)
         /\ quick_cycle' = (mode \in {"V6ANYV4", "V6V4"} /\ transport' = "RUDP")
  /\ pc' = "setup"
  /\ UNCHANGED <<conf, indSigHUP, status, target, delays, files, connected,
                 read_last_server, failed>>

-----------------------------------------------------------------------------
(* tspSetupTunnel() (tsp_client.c:408-632), as the loop sees it.            *)

\* What tspHandleRedirect() leaves behind when it succeeds: a list of 1 to
\* MAX_REDIRECT_BROKERS_IN_LIST brokers in any order (sorted by distance), in
\* place of the old one, and saved to the file if it has two or more.  A failed
\* save is ignored: the file is as before, or truncated.
RedirectHandled ==
  /\ broker_list' \in Redirections
  /\ address_type' = TRUE
  /\ current_broker_in_list' = tspFreeBrokerList(current_broker_in_list)
  /\ IF Len(broker_list') > 1
     THEN broker_list_file' \in {broker_list'} \cup
            (IF ResourceFaults THEN {broker_list_file, NoFile} ELSE {})
     ELSE UNCHANGED broker_list_file
  /\ UNCHANGED last_server_file

\* tspHandleRedirect() fails: before it touches the old list (the payload
\* cannot be parsed), or after replacing it by nothing or by an unsorted list.
RedirectMishandled ==
  /\ \/ UNCHANGED <<broker_list, address_type, current_broker_in_list>>
     \/ /\ broker_list' \in {<<>>} \cup {l \in Redirections : Len(l) > 1}
        /\ address_type' = TRUE
        /\ current_broker_in_list' = tspFreeBrokerList(current_broker_in_list)
  /\ UNCHANGED files

\* The tunnel was negotiated: tspWriteLastServerToFile(), whose failure is
\* ignored.
TunnelNegotiated ==
  /\ last_server_file' \in {server} \cup
       (IF ResourceFaults THEN {last_server_file, NoServer} ELSE {})
  /\ UNCHANGED <<broker_list, address_type, current_broker_in_list,
                 broker_list_file>>

\* A server that is NULL prints as "(null)" and does not resolve; an IPv6
\* address without brackets gives a wrong port or a wrong host.
SetupOutcomes ==
  CASE server = NoServer     -> {"ERR_FAIL_RESOLV_ADDR"}
    [] server = NotBracketed -> {"ERR_INVAL_GOGOC_ADDRESS",
                                 "ERR_FAIL_RESOLV_ADDR",
                                 "ERR_FAIL_SOCKET_CONNECT"}
    [] OTHER                 -> Outcomes

SetupTunnel ==
  /\ pc = "setup"
  /\ status' \in SetupOutcomes
  /\ CASE status' = "EVNT_BROKER_REDIRECTION"         -> RedirectHandled
       [] status' = "ERR_BROKER_REDIRECTION"          -> RedirectMishandled
       [] status' \in TunnelDown \cup InterfaceError -> TunnelNegotiated
       [] OTHER -> UNCHANGED <<broker_list, address_type,
                               current_broker_in_list, files>>
  /\ failed' = CountFailed(status')
  /\ pc' = "switch"
  /\ UNCHANGED <<conf, indSigHUP, server, trying_broker_list,
                 trying_original_server, choice, delays, connected,
                 read_last_server>>

-----------------------------------------------------------------------------
(* switch( status_number(status) ) (tsp_client.c:1232-1709).  A case ends  *)
(* with 'continue' (Again), 'break' (Backoff next) or 'goto endtspc'.      *)

Again    == pc' = "while"
BreakOut == pc' = "backoff"

\* connected = 0; continue.
GiveUp == connected' = FALSE /\ Again

\* SUCCESS (the tunnel ended on request) and every fatal status.
OnFinished ==
  /\ pc = "switch"
  /\ status \in Fatal \cup {"SUCCESS"}
  /\ GiveUp
  /\ UNCHANGED <<conf, indSigHUP, status, target, choice, delays, files,
                 read_last_server, failed>>

OnKeepaliveTimeout ==
  /\ pc = "switch"
  /\ status = "ERR_KEEPALIVE_TIMEOUT"
  /\ consec_retry' = 0
  /\ IF conf.auto_retry_connect THEN BreakOut /\ UNCHANGED connected ELSE GiveUp
  /\ UNCHANGED <<conf, indSigHUP, status, target, choice, effective_retry_delay,
                 loop_delay, sleepTime, files, read_last_server, failed>>

\* ERR_TUNNEL_IO and ERR_KEEPALIVE_ERROR.
OnTunnelError ==
  /\ pc = "switch"
  /\ status \in {"ERR_TUNNEL_IO", "ERR_KEEPALIVE_ERROR"}
  /\ consec_retry' = 0
  /\ BreakOut
  /\ UNCHANGED <<conf, indSigHUP, status, target, choice, effective_retry_delay,
                 loop_delay, sleepTime, files, connected, read_last_server, failed>>

OnLeaseExpired ==
  /\ pc = "switch"
  /\ status = "ERR_TUN_LEASE_EXPIRED"
  /\ Again
  /\ UNCHANGED <<conf, indSigHUP, status, target, choice, delays, files,
                 connected, read_last_server, failed>>

\* Mutant: stays on the transport that has no older version.
OnInvalidVersionSameCycle ==
  /\ pc = "switch"
  /\ status = "ERR_INVAL_TSP_VERSION"
  /\ tsp_version_fallback' = TRUE
  /\ Again
  /\ UNCHANGED <<conf, indSigHUP, status, target, transport, cycle, quick_cycle,
                 version_index, delays, files, connected, read_last_server, failed>>

\* The short pause before the next version takes no part in the model.
OnInvalidVersion ==
  /\ pc = "switch"
  /\ status = "ERR_INVAL_TSP_VERSION"
  /\ tsp_version_fallback' = TRUE
  /\ cycle' = IF version_index = CLIENT_VERSION_INDEX_2_0_0 THEN 1 ELSE cycle
  /\ Again
  /\ UNCHANGED <<conf, indSigHUP, status, target, transport, quick_cycle,
                 version_index, delays, files, connected, read_last_server, failed>>

OnSocketIO ==
  /\ pc = "switch"
  /\ status = "ERR_SOCKET_IO"
  /\ consec_retry' = 0
  /\ IF quick_cycle THEN Again ELSE BreakOut
  /\ UNCHANGED <<conf, indSigHUP, status, target, choice, effective_retry_delay,
                 loop_delay, sleepTime, files, connected, read_last_server, failed>>

\* Mutant: counts the attempt without setting the delay.
ForceWaitNoDelay == consec_retry' = 1 /\ UNCHANGED effective_retry_delay

\* "Force a wait."
ForceWait == effective_retry_delay' = retry_delay /\ consec_retry' = 1

OnServerTooBusy ==
  /\ pc = "switch"
  /\ status = "ERR_TSP_SERVER_TOO_BUSY"
  /\ ForceWait
  /\ BreakOut
  /\ UNCHANGED <<conf, indSigHUP, status, target, choice, loop_delay, sleepTime,
                 files, connected, read_last_server, failed>>

\* FormatBrokerListAddr(): the old c.server is freed, then replaced by a copy,
\* between brackets if the element is known to be an IPv6 address.  It fails
\* only if the bracketed copy cannot be allocated; a NULL from pal_strdup() is
\* not noticed.
FormatBrokerListAddr(broker, typed, ok) ==
  IF broker \in IPv6Brokers /\ typed
  THEN /\ ok \/ ResourceFaults
       /\ server' = IF ok THEN broker ELSE NoServer
  ELSE /\ ok
       /\ server' \in pal_strdup(IF broker \in IPv6Brokers THEN NotBracketed
                                                          ELSE broker)

\* EVNT_BROKER_REDIRECTION.  The list is never NULL: tspHandleRedirect()
\* reports an empty one as an error.
OnRedirection ==
  /\ pc = "switch"
  /\ status = "EVNT_BROKER_REDIRECTION"
  /\ trying_broker_list' = TRUE
  /\ trying_original_server' = FALSE
  /\ current_broker_in_list' = 1
  /\ cycle' = 0
  /\ \E ok \in BOOLEAN :
       /\ FormatBrokerListAddr(broker_list[1], address_type, ok)
       /\ status' = IF ok THEN status ELSE "ERR_BROKER_REDIRECTION"
       /\ connected' = (connected /\ ok)
  /\ Again
  /\ UNCHANGED <<conf, indSigHUP, transport, quick_cycle, version_index,
                 tsp_version_fallback, broker_list, address_type, delays, files,
                 read_last_server, failed>>

OnRedirectionError ==
  /\ pc = "switch"
  /\ status = "ERR_BROKER_REDIRECTION"
  /\ broker_list' = <<>>
  /\ current_broker_in_list' = tspFreeBrokerList(current_broker_in_list)
  /\ GiveUp
  /\ UNCHANGED <<conf, indSigHUP, status, server, address_type,
                 trying_broker_list, trying_original_server, choice, delays,
                 files, read_last_server, failed>>

-----------------------------------------------------------------------------
(* case ERR_FAIL_SOCKET_CONNECT (tsp_client.c:1373-1545): another transport, *)
(* another broker of the list, or the original server again.               *)

ConnectFailed == pc = "switch" /\ status = "ERR_FAIL_SOCKET_CONNECT"

\* "Don't retry to avoid blocking the boot".
BootAbort ==
  /\ ConnectFailed
  /\ conf.boot_mode
  /\ GiveUp
  /\ UNCHANGED <<conf, indSigHUP, status, target, choice, delays, files,
                 read_last_server, failed>>

\* There is another transport to try, now.
QuickCycle ==
  /\ ConnectFailed
  /\ ~conf.boot_mode
  /\ quick_cycle
  /\ cycle' = NextCycle
  /\ Again
  /\ UNCHANGED <<conf, indSigHUP, status, target, transport, quick_cycle,
                 version_index, tsp_version_fallback, delays, files, connected,
                 read_last_server, failed>>

\* The last server is the only one this client uses.
LastServerFailed ==
  /\ ConnectFailed
  /\ ~conf.boot_mode
  /\ ~quick_cycle
  /\ read_last_server
  /\ cycle' = NextCycle
  /\ BreakOut
  /\ UNCHANGED <<conf, indSigHUP, status, target, transport, quick_cycle,
                 version_index, tsp_version_fallback, delays, files, connected,
                 read_last_server, failed>>

\* All transports of a server that may be replaced have failed.
ServerFailed ==
  /\ ConnectFailed
  /\ ~conf.boot_mode
  /\ ~quick_cycle
  /\ ~read_last_server
  /\ ForceWait
  /\ UNCHANGED <<conf, indSigHUP, transport, quick_cycle, version_index,
                 tsp_version_fallback, loop_delay, sleepTime, files,
                 read_last_server, failed>>

\* FormatBrokerListAddr() succeeds: try this broker now.  It fails: goto
\* endtspc without a list.
TryBroker(list, typed, i) ==
  /\ address_type' = typed
  /\ \E ok \in BOOLEAN :
       /\ FormatBrokerListAddr(list[i], typed, ok)
       /\ IF ok
          THEN /\ broker_list' = list
               /\ current_broker_in_list' = i
               /\ cycle' = 0
               /\ Again
               /\ UNCHANGED <<status, connected>>
          ELSE /\ broker_list' = <<>>
               /\ current_broker_in_list' = FREED
               /\ status' = "ERR_BROKER_REDIRECTION"
               /\ connected' = FALSE
               /\ pc' = "endtspc"
               /\ UNCHANGED cycle

\* tspReadBrokerListFromFile(): the list of the file, without the types of its
\* addresses; none if the file cannot be opened or holds too many.
tspReadBrokerListFromFile ==
  IF Len(broker_list_file) <= MAX_REDIRECT_BROKERS_IN_LIST
  THEN broker_list_file ELSE <<>>

\* The original server failed and the file holds a list: go through it.
OriginalFailedTryFile ==
  /\ ServerFailed
  /\ trying_original_server
  /\ tspReadBrokerListFromFile # <<>>
  /\ trying_broker_list' = TRUE
  /\ trying_original_server' = FALSE
  /\ TryBroker(tspReadBrokerListFromFile, FALSE, 1)

\* The original server failed and there is no list: the file is missing, empty
\* or unreadable, or holds too many brokers.
OriginalFailedNoList ==
  /\ ServerFailed
  /\ trying_original_server
  /\ tspReadBrokerListFromFile = <<>> \/ ResourceFaults
  /\ broker_list' = <<>>
  /\ current_broker_in_list' = tspFreeBrokerList(current_broker_in_list)
  /\ cycle' = NextCycle
  /\ BreakOut
  /\ UNCHANGED <<status, server, address_type, trying_broker_list,
                 trying_original_server, connected>>

\* Mutant: the flag is set, the server is not changed back.
LastBrokerFailedKeepsServer ==
  /\ ServerFailed
  /\ ~trying_original_server
  /\ trying_broker_list
  /\ current_broker_in_list = Len(broker_list)
  /\ cycle' = 0
  /\ trying_original_server' = TRUE
  /\ BreakOut
  /\ UNCHANGED <<status, server, broker_list, address_type,
                 current_broker_in_list, trying_broker_list, connected>>

\* Mutant: the server is changed back, the flag is not set.
LastBrokerFailedKeepsFlag ==
  /\ ServerFailed
  /\ ~trying_original_server
  /\ trying_broker_list
  /\ current_broker_in_list = Len(broker_list)
  /\ server' \in pal_strdup(Original)
  /\ cycle' = 0
  /\ BreakOut
  /\ UNCHANGED <<status, broker_list, address_type, current_broker_in_list,
                 trying_broker_list, trying_original_server, connected>>

\* The last broker of the list failed: back to the original server, after the
\* retry delay.
LastBrokerFailed ==
  /\ ServerFailed
  /\ ~trying_original_server
  /\ trying_broker_list
  /\ current_broker_in_list = Len(broker_list)
  /\ server' \in pal_strdup(Original)
  /\ cycle' = 0
  /\ trying_original_server' = TRUE
  /\ BreakOut
  /\ UNCHANGED <<status, broker_list, address_type, current_broker_in_list,
                 trying_broker_list, connected>>

\* A broker that is not the last one failed: the next one, now.
BrokerFailed ==
  /\ ServerFailed
  /\ ~trying_original_server
  /\ trying_broker_list
  /\ current_broker_in_list \in 1..(Len(broker_list) - 1)
  /\ TryBroker(broker_list, address_type, current_broker_in_list + 1)
  /\ UNCHANGED <<trying_broker_list, trying_original_server>>

\* Neither flag is set, after a pass of the outer loop that was left while a
\* broker of the list was being tried.
StrayBrokerFailed ==
  /\ ServerFailed
  /\ ~trying_original_server
  /\ ~trying_broker_list
  /\ BreakOut
  /\ UNCHANGED <<status, target, cycle, connected>>

-----------------------------------------------------------------------------
(* The waits (tsp_client.c:1712-1757) and the end.                          *)

\* sleepTime-- > 0  &&  tspCheckForStopOrWait(1000) == 0.  The signal ends it
\* at the next second.
Asleep == sleepTime > 0 /\ ~indSigHUP

\* consec_retry is at most 255: the wait is doubled at every third value.
Wait ==
  /\ pc = "backoff"
  /\ consec_retry > 0
  /\ effective_retry_delay' =
       IF consec_retry % CONSEC_RETRY_TO_DOUBLE_WAIT = 0
       THEN DoubledDelay(effective_retry_delay)
       ELSE effective_retry_delay
  /\ consec_retry' = (consec_retry + 1) % UINT8
  /\ sleepTime' = effective_retry_delay'
  /\ pc' = "wait"
  /\ UNCHANGED <<conf, indSigHUP, status, target, choice, loop_delay, files,
                 connected, read_last_server, failed>>

\* "Do not wait if it is the first reconnection attempt."
RetryNow ==
  /\ pc = "backoff"
  /\ consec_retry = 0
  /\ consec_retry' = 1
  /\ effective_retry_delay' = retry_delay
  /\ pc' = "while"
  /\ UNCHANGED <<conf, indSigHUP, status, target, choice, loop_delay, sleepTime,
                 files, connected, read_last_server, failed>>

Sleep ==
  /\ pc \in {"wait", "loop_wait"}
  /\ Asleep
  /\ sleepTime' = sleepTime - 1
  /\ UNCHANGED <<pc, conf, indSigHUP, status, target, choice, consec_retry,
                 effective_retry_delay, loop_delay, files, connected,
                 read_last_server, failed>>

EndWait ==
  /\ pc = "wait"
  /\ ~Asleep
  /\ pc' = "while"
  /\ sleepTime' = 0
  /\ UNCHANGED <<conf, indSigHUP, status, target, choice, consec_retry,
                 effective_retry_delay, loop_delay, files, connected,
                 read_last_server, failed>>

\* loop_delay is doubled for the next time; in boot mode there is none.
EndLoopWait ==
  /\ pc = "loop_wait"
  /\ ~Asleep
  /\ loop_delay' = Capped(2 * loop_delay)
  /\ sleepTime' = 0
  /\ pc' = IF conf.boot_mode THEN "endtspc" ELSE "do"
  /\ UNCHANGED <<conf, indSigHUP, status, target, choice, consec_retry,
                 effective_retry_delay, files, connected, read_last_server,
                 failed>>

\* endtspc: the list is freed and tspMain() returns.
End ==
  /\ pc = "endtspc"
  /\ broker_list' = <<>>
  /\ current_broker_in_list' = tspFreeBrokerList(current_broker_in_list)
  /\ pc' = "done"
  /\ UNCHANGED <<conf, indSigHUP, status, server, address_type,
                 trying_broker_list, trying_original_server, choice, delays,
                 files, connected, read_last_server, failed>>

\* The SIGHUP handler.
Signal ==
  /\ pc # "done"
  /\ ~indSigHUP
  /\ indSigHUP' = TRUE
  /\ UNCHANGED <<pc, conf, status, target, choice, delays, files, connected,
                 read_last_server, failed>>

Switch ==
  \/ OnFinished \/ OnKeepaliveTimeout \/ OnTunnelError \/ OnLeaseExpired
  \/ OnInvalidVersion \/ OnSocketIO \/ OnServerTooBusy
  \/ OnRedirection \/ OnRedirectionError
  \/ BootAbort \/ QuickCycle \/ LastServerFailed
  \/ OriginalFailedTryFile \/ OriginalFailedNoList
  \/ LastBrokerFailed \/ BrokerFailed \/ StrayBrokerFailed

\* The steps of the main thread.
Program ==
  \/ StartFails \/ ChooseFirstServer
  \/ EnterLoop \/ LeaveLoop \/ StopInLoop \/ VersionsExhausted
  \/ SelectTransport \/ SetupTunnel \/ Switch
  \/ Wait \/ RetryNow \/ Sleep \/ EndWait \/ EndLoopWait \/ End

\* tspMain() has returned.
Returned == pc = "done" /\ UNCHANGED vars

Next == Program \/ Signal \/ Returned

\* A broker has been reached over TCP and may keep silent: recv() is called
\* without a timeout (net_tcp.c:129), and SIGHUP, installed with signal()
\* (unix-main.c:65), restarts it instead of ending it.
AwaitsBroker ==
  /\ pc = "setup"
  /\ transport = "TCP"
  /\ ~(SetupOutcomes \subseteq NotReached)

\* The main thread runs as long as it can.  Every call it makes returns (over
\* RUDP each read has a timeout; an established tunnel returns when it ends),
\* save the wait for a broker over TCP, of which nothing is assumed.
Spec == Init /\ [][Next]_vars /\ WF_vars(Program /\ ~AwaitsBroker)

-----------------------------------------------------------------------------
(* Safety.                                                                  *)

ControlType ==
  /\ pc \in {"start", "do", "while", "setup", "switch", "backoff", "wait",
             "loop_wait", "endtspc", "done"}
  /\ conf \in Confs
  /\ indSigHUP \in BOOLEAN
  /\ status \in Statuses \cup StartStatuses
  /\ connected \in BOOLEAN
  /\ read_last_server \in BOOLEAN
  /\ failed \in 0..FailedCap

TargetType ==
  /\ server \in Servers \cup {NoServer, NotBracketed}
  /\ broker_list \in Lists
  /\ address_type \in BOOLEAN
  /\ current_broker_in_list \in {FREED, NULL} \cup 1..MAX_REDIRECT_BROKERS_IN_LIST
  /\ trying_broker_list \in BOOLEAN
  /\ trying_original_server \in BOOLEAN
  /\ broker_list_file \in FileLists
  /\ last_server_file \in Servers \cup {NoServer}

ChoiceType ==
  /\ transport \in Transports
  /\ cycle \in 0..CycleCap
  /\ quick_cycle \in BOOLEAN
  /\ version_index \in CLIENT_VERSION_INDEX_CURRENT..CLIENT_VERSION_INDEX_OLDEST
  /\ tsp_version_fallback \in BOOLEAN

DelayType ==
  /\ consec_retry \in 0..(UINT8 - 1)
  /\ effective_retry_delay \in {UNINIT} \cup Nat
  /\ loop_delay \in Nat
  /\ sleepTime \in Nat

\* Every variable has its type; in particular the position in the list, the
\* version and the counters stay in their ranges.
TypeOK == ControlType /\ TargetType /\ ChoiceType /\ DelayType

\* The status the switch is about to handle, or has just handled, reports a
\* redirection: the list may have been replaced under the loop's pointer.
Redirected ==
  pc = "switch" /\ status \in {"EVNT_BROKER_REDIRECTION", "ERR_BROKER_REDIRECTION"}

\* The loop goes through a list of brokers.
GoingThroughList ==
  /\ pc \in {"while", "setup", "switch", "backoff", "wait"}
  /\ connected
  /\ ~Redirected
  /\ trying_broker_list
  /\ ~trying_original_server

\* While the loop goes through a list, current_broker_in_list points into it:
\* the case for unsafe pointers (tsp_client.c:1499-1511), which would
\* dereference the NULL it has just found, is never needed, and no element of a
\* list freed by tspFreeBrokerList() is read.
BrokerPointerSafe ==
  GoingThroughList => current_broker_in_list \in 1..Len(broker_list)

\* What c.server designates once copied from an element of a list.
Designates(broker, typed) ==
  IF broker \in IPv6Brokers /\ ~typed THEN NotBracketed ELSE broker

\* c.server, the two flags and the position in the list are assigned in
\* different places but agree at every attempt: the client connects to the
\* original server when it says so and to the current broker otherwise, or to
\* nothing when the copy of the name could not be allocated.
ServerDesignated ==
  pc = "setup" =>
    /\ trying_original_server => server \in {Original, NoServer}
    /\ GoingThroughList =>
         server \in {NoServer,
                    Designates(broker_list[current_broker_in_list], address_type)}

\* effective_retry_delay, declared without a value in the body of the outer
\* loop, is assigned before the wait that reads it, on every path of the switch.
DelayInitialised ==
  pc = "backoff" /\ consec_retry > 0 => effective_retry_delay # UNINIT

\* A wait, between two attempts or before starting over, never exceeds
\* retry_delay_max, however often the delays have been doubled.
WaitBounded == sleepTime <= retry_delay_max

\* What the comment at 1715-1718 makes of the n-th attempt after a failure that
\* did not force a wait.
Backoff[n \in Nat] ==
  IF n <= 1 THEN retry_delay
  ELSE IF n % CONSEC_RETRY_TO_DOUBLE_WAIT = 1
       THEN IF 2 * Backoff[n - 1] > retry_delay_max THEN retry_delay_max
                                                    ELSE 2 * Backoff[n - 1]
       ELSE Backoff[n - 1]

\* The delay, updated in place at every third failure and never recomputed, is
\* the one that the number of failures calls for: retry_delay doubled once for
\* every three of them and cut at retry_delay_max.
BackoffSchedule ==
  consec_retry > 0 => effective_retry_delay = Backoff[consec_retry]

\* A TSP version older than the first one with UDP is only tried over TCP: the
\* fallback changes the cycle in the switch (tsp_client.c:1315-1318), the version
\* and the transport at the top of the loop (1056-1145).
OldVersionOverTcp ==
  pc = "setup" /\ version_index > CLIENT_VERSION_INDEX_V6UDPV4_START
    => transport = "TCP"

-----------------------------------------------------------------------------
(* Liveness.                                                                *)

\* A request to stop (SIGHUP) ends the client, wherever the main thread is: in
\* either wait, between the loops, in a session.  One session alone can outlast
\* it, the one in which a broker reached over TCP keeps silent for ever
\* (net_tcp.c:127-130).
StopEnds ==
  indSigHUP ~> \/ pc = "done"
               \/ []AwaitsBroker

\* The fallback from version to version ends: with an accepted version, with
\* another error, or by giving up (or with a broker that keeps silent over TCP);
\* the client does not go round the versions.
VersionFallbackEnds ==
  conf.tunnel_mode # "V4V6"
    => \/ []<>(status # "ERR_INVAL_TSP_VERSION" \/ pc \in {"loop_wait", "done"})
       \/ <>[]AwaitsBroker

\* Server s is one that this client is to try, over transport t, again and
\* again as long as no server can be reached.
InRotation(s, t) ==
  /\ pc = "while"
  /\ ~conf.boot_mode
  /\ \/ read_last_server /\ s = server
     \/ ~read_last_server /\ s = Original
     \/ /\ ~read_last_server
        /\ \E i \in 1..Len(tspReadBrokerListFromFile) :
             s = tspReadBrokerListFromFile[i]
  /\ t = "RUDP" \/ conf.tunnel_mode \in {"V6ANYV4", "V6V4"}

\* The client tries an IPv6 broker of the broker_list file by an address that has
\* lost its brackets (tsp_redirect.c:556), which names another host or none.
TriesNotBracketed == pc = "setup" /\ server = NotBracketed

\* When no server can be reached, the original server, every broker of the
\* broker_list file and every transport of the mode are tried again and again
\* (or only the last server, if the client is to keep to it).  An IPv6 broker of
\* the file is the exception: it is not tried but mistaken, and since the wrong
\* address can be a fatal error, after which the outer loop starts with the
\* server it has and neither flag, the client may keep to it from then on.
EveryServerTried ==
  \A s \in Servers, t \in Transports :
    InRotation(s, t) ~> \/ indSigHUP
                        \/ TriesNotBracketed
                        \/ pc = "setup" /\ server = s /\ transport = t

-----------------------------------------------------------------------------
(* A statement of the documentation and of the comments.                    *)

\* "The delay to wait SHALL be doubled at every 3 consecutive failed
\* connection attempts" (tsp_client.c:1717-1718; gogoc.conf.in:127-130).
DelayDoubled ==
  pc = "wait" /\ failed > 2 * CONSEC_RETRY_TO_DOUBLE_WAIT
    => effective_retry_delay > retry_delay

=============================================================================
