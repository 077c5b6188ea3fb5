----------------------------- MODULE TspSession -----------------------------
(***************************************************************************)
(* One TSP session after the other in one gogoc process, as                *)
(* tspSetupTunnel() runs them (tsp_client.c:408-632): connect, ask for the *)
(* capabilities (tsp_cap.c), authenticate (tsp_auth.c,                     *)
(* tsp_auth_passdss.c), negotiate the tunnel (tsp_client.c:309-402), set   *)
(* up the interface in a child process (tsp_setup.c, linux/tsp_local.c,    *)
(* the Android build), run the tunnel and tear it down.  The process may   *)
(* be killed at any moment and a new one started; the kernel keeps what    *)
(* does not belong to a descriptor of the process.                         *)
(*                                                                         *)
(* The main loop around a session is TspMain, the exchange of packets over *)
(* RUDP is Rudp, the tunnel loop KeepAlive.                                *)
(***************************************************************************)
EXTENDS KeyFile, TspXml, FiniteSets

CONSTANTS
  Configs,      \* configurations a process may start with
  Servers,      \* [host, port]: the addresses the main loop may try; port -1: none given
  Keys,         \* DSA keys that brokers present
  Offers,       \* sets of <<token, value>>: capabilities that brokers announce
  Answers,      \* documents that brokers answer a tunnel request with
  Redirections, \* documents of redirections
  Locals,       \* IPv4 addresses of the client
  MaxSessions,  \* sessions, over all processes
  MaxKills,     \* processes killed
  MaxFailures   \* system calls of an interface set-up or tear-down that fail,
                \* and changes of the host's address

VARIABLES
  pc, conf, version, status, cap, offered, tunnel,
  socket,       \* descriptor of the session
  tunfd,        \* descriptor of the TUN device, or -1
  fds,          \* the process's descriptors: what each is open for
  attributes,   \* of the XML parser: what the documents so far have left in its tables
  daemon,       \* getppid() == 1
  child,        \* steps the set-up process has before it, and its exit code
  keyfile,      \* gogockeys.pub
  net,          \* kernel: interfaces and the default routes of metric 1
  gTunnelInfo,  \* what the messaging subsystem may show of the tunnel
  local,        \* the host's IPv4 address at present
  count,        \* [sessions, kills, failures] so far
  ghost         \* what the properties compare with (not in the code)

vars == <<pc, conf, version, status, cap, offered, tunnel, socket, tunfd, fds, attributes,
          daemon, child, keyfile, net, gTunnelInfo, local, count, ghost>>

NoKey     == [p |-> -1, q |-> -1, g |-> -1, pub_key |-> -1]
NoOffer   == [key |-> NoKey, signed |-> FALSE]
NoAnswer  == <<>>
NoInfo    == [type |-> NULL, client |-> NULL, server |-> NULL, domain |-> NULL, prefix |-> NULL]
NoChild   == [todo |-> <<>>, exit |-> "none"]

ASSUME SessionAssumption ==
  /\ \A c \in Configs : "server" \in DOMAIN c
  /\ Keys \subseteq DsaKeys
  /\ \A doc \in Answers : doc \in Seq(ToSet(doc))

Descriptors == 3 .. 6
Interfaces  == {"tun", "sit"}   \* if_tunnel_v6udpv4, if_tunnel_v6v4

\* The interface that is not there.
NoDevice == [exists |-> FALSE, addrs |-> {}, remote |-> NULL, mine |-> FALSE]

\* The lowest free descriptor, as open() and socket() take it.
Lowest(f) == CHOOSE d \in Descriptors :
               f[d] = "free" /\ \A e \in Descriptors : f[e] = "free" => d <= e

-----------------------------------------------------------------------------
(* Transports.  A request is answered ("reply"), or the peer has closed    *)
(* the connection ("closed", 0 bytes: TCP only), or it fails ("error").    *)
(* The transports over IPv6 need V4V6_SUPPORT.                             *)

IsTCP == conf.transport = "TCP"

NetTCPReadWrite  == {"reply", "closed", "error"}
NetRUDPReadWrite == {"reply", "error"}   \* Rudp

netsendrecv == IF IsTCP THEN NetTCPReadWrite ELSE NetRUDPReadWrite

\* A write that fails makes netprintf return 0 over TCP, which the callers
\* take for an answer.
NetTCPPrintf == {"reply", "closed", "error"}
netprintf == IF IsTCP THEN NetTCPPrintf ELSE NetRUDPReadWrite

\* Whether the name has an IPv4 address.
NetText2Addr(known) == "ipv4" \in known

\* 0, -1: not resolved, -2: no socket or no connection.
NetTCPConnect(known, connects) ==
  IF ~NetText2Addr(known) THEN -1 ELSE IF ~connects THEN -2 ELSE 0
NetRUDPConnect(known, connects) ==
  IF ~NetText2Addr(known) THEN -1 ELSE IF ~connects THEN -2 ELSE 0

netopen(known, connects) ==
  IF IsTCP THEN NetTCPConnect(known, connects) ELSE NetRUDPConnect(known, connects)

\* The port is 3653 unless given, and refused outside 1..65535.
parse_addr_port(s) == s.port = -1 \/ (s.port > 0 /\ s.port < 65536)

tspConnect(ret) == CASE ret = -1 -> "ERR_FAIL_RESOLV_ADDR"
                     [] ret = -2 -> "ERR_FAIL_SOCKET_CONNECT"
                     [] OTHER    -> "SUCCESS"

tspClose(f, s) == [f EXCEPT ![s] = "free"]

-----------------------------------------------------------------------------
Running == UNCHANGED <<count, local, gTunnelInfo>>
Session == UNCHANGED <<version, tunnel, socket, tunfd, daemon, child, net>> /\ Running

\* tspSetupTunnel() closes the socket and returns.
Return(st) ==
  /\ status' = st
  /\ fds' = tspClose(fds, socket)
  /\ pc' = "idle"

Abandon(st) == Return(st) /\ UNCHANGED attributes

\* The process ends: exit(), a null pointer, a signal.  What the kernel then
\* takes away is KernelAfterDeath, applied when the next process starts.
DieNow ==
  /\ pc' = "dead"
  /\ fds' = [d \in Descriptors |-> "free"]
  /\ UNCHANGED <<status, attributes>>

Proceed(next) == pc' = next /\ UNCHANGED <<status, fds>>
GoOn(next)    == Proceed(next) /\ UNCHANGED attributes

\* The main loop has chosen a server, a transport and a protocol version.  The
\* locals cap and socket are not read before they are set.  The oldest version
\* only goes over TCP (OldVersionOverTcp of TspMain).
StartSession(server, transport, v) ==
  /\ pc = "idle" /\ count.sessions < MaxSessions
  /\ v = "1.0.1" => transport = "TCP"
  /\ conf' = [conf EXCEPT !.server = server, !.transport = transport]
  /\ version' = v
  /\ count' = [count EXCEPT !.sessions = @ + 1]
  /\ ghost' = [ghost EXCEPT !.granted = NoAnswer, !.requested = tspBuildCreateRequest(conf'),
                             !.negotiated = FALSE, !.faulty = FALSE]
  /\ status' = "SUCCESS" /\ cap' = {} /\ socket' = 3 /\ offered' = NoOffer
  /\ pc' = "connect"
  /\ UNCHANGED <<tunnel, tunfd, fds, attributes, daemon, child, keyfile, net, gTunnelInfo, local>>

Connect(known, connects) ==
  /\ pc = "connect"
  /\ LET ret == netopen(known, connects) IN
     IF ~parse_addr_port(conf.server)
     THEN pc' = "idle" /\ status' = "ERR_INVAL_GOGOC_ADDRESS" /\ UNCHANGED <<socket, fds>>
     ELSE IF ret # 0
     THEN pc' = "idle" /\ status' = tspConnect(ret) /\ UNCHANGED <<socket, fds>>
     ELSE /\ socket' = Lowest(fds)
          /\ fds' = [fds EXCEPT ![Lowest(fds)] = "session"]
          /\ pc' = "capabilities" /\ UNCHANGED status
  /\ UNCHANGED <<conf, version, cap, offered, tunnel, tunfd, attributes, daemon, child, keyfile, net, ghost>>
  /\ Running

-----------------------------------------------------------------------------
(* tsp_cap.c                                                               *)

\* A pair that is not known adds nothing.
tspSetCapability(tv) ==
  IF tv \in {<<"TUNNEL", "V6V4">>, <<"TUNNEL", "V6UDPV4">>,
             <<"AUTH", "PASSDSS-3DES-1">>, <<"AUTH", "DIGEST-MD5">>,
             <<"AUTH", "ANONYMOUS">>, <<"AUTH", "PLAIN">>}
  THEN {tv[2]} ELSE {}

tspExtractCapability(offer) == UNION {tspSetCapability(tv) : tv \in offer}

TunnelBits == CASE conf.tunnel_mode = "V6ANYV4" -> {"V6V4", "V6UDPV4"}
                [] OTHER                        -> {conf.tunnel_mode}

\* tspHandleRedirect(): a document that cannot be read, or brokers that cannot be
\* put in order, are an error; one without a line before it, or with an address
\* whose type was never given, is the end of the process.
Redirected ==
  \/ DieNow
  \/ \E doc \in Redirections : \E r \in tspExtractPayload(doc, attributes) :
       IF r.dead THEN DieNow
       ELSE /\ attributes' = r.attributes
            /\ Return("ERR_BROKER_REDIRECTION") \/ (r.rc = 0 /\ Return("EVNT_BROKER_REDIRECTION"))

\* No answer: over UDP nothing listens there.
CapabilitiesError ==
  Abandon(IF IsTCP THEN "ERR_SOCKET_IO" ELSE "ERR_FAIL_SOCKET_CONNECT")

CapabilityStatus(code) ==
  CASE code = "busy"    -> "ERR_TSP_SERVER_TOO_BUSY"
    [] code = "version" -> "ERR_INVAL_TSP_VERSION"
    [] OTHER            -> "ERR_TSP_GENERIC_ERROR"

GetCapabilities ==
  /\ pc = "capabilities"
  /\ \E r \in netsendrecv :
       \/ r = "error"  /\ CapabilitiesError /\ UNCHANGED cap
       \/ r = "closed" /\ Abandon(CapabilityStatus("none")) /\ UNCHANGED cap
       \/ r = "reply"  /\ Redirected /\ UNCHANGED cap
       \/ r = "reply"  /\ UNCHANGED cap
                       /\ \E code \in {"busy", "version", "other"} : Abandon(CapabilityStatus(code))
       \/ r = "reply"  /\ \E offer \in Offers :
            /\ cap' = tspExtractCapability(offer)
            /\ IF TunnelBits \cap cap' = {} THEN Abandon("ERR_TUNMODE_NOT_AVAILABLE")
               ELSE GoOn("authenticate")
  /\ UNCHANGED <<conf, offered, keyfile, ghost>>
  /\ Session

-----------------------------------------------------------------------------
(* tsp_auth.c                                                              *)

AUTH_ANY == {"PASSDSS-3DES-1", "DIGEST-MD5", "PLAIN", "ANONYMOUS"}
Mechanism == IF conf.auth_method = "any" THEN AUTH_ANY
             ELSE tspSetCapability(<<"AUTH", conf.auth_method>>)

\* The strongest that both sides have; anonymous only on demand.
Chosen ==
  LET common == Mechanism \cap cap IN
  IF conf.auth_method = "ANONYMOUS" THEN IF "ANONYMOUS" \in common THEN "ANONYMOUS" ELSE "none"
  ELSE IF "PASSDSS-3DES-1" \in common THEN "PASSDSS-3DES-1"
  ELSE IF "DIGEST-MD5" \in common THEN "DIGEST-MD5"
  ELSE IF "PLAIN" \in common THEN "PLAIN" ELSE "none"

Authenticate ==
  /\ pc = "authenticate"
  /\ IF Chosen = "none" THEN Abandon("ERR_NO_COMMON_AUTHENTICATION") ELSE GoOn(Chosen)
  /\ UNCHANGED <<conf, cap, offered, keyfile, ghost>>
  /\ Session

Codes == {"success", "auth_failed", "redirect", "other"}

\* What is done with the status code of an authentication.
OnCode(code, failure, next) ==
  CASE code = "redirect"    -> Redirected
    [] code = "success"     -> GoOn(next)
    [] code = "auth_failed" -> Abandon(failure)
    [] OTHER                -> Abandon("ERR_TSP_GENERIC_ERROR")

\* The buffer is not initialised: a connection that was closed leaves any code.
AuthANONYMOUS ==
  /\ pc = "ANONYMOUS"
  /\ \E r \in netsendrecv :
       \/ r = "error" /\ Abandon("ERR_SOCKET_IO")
       \/ r # "error" /\ \E code \in Codes : OnCode(code, "ERR_TSP_GENERIC_ERROR", "source")
  /\ UNCHANGED <<conf, cap, offered, keyfile, ghost>>
  /\ Session

AuthPLAIN ==
  /\ pc = "PLAIN"
  /\ \E r \in netsendrecv :
       \/ r = "error" /\ Abandon("ERR_SOCKET_IO")
       \/ r # "error" /\ \E code \in Codes : OnCode(code, "ERR_AUTHENTICATION_FAILURE", "source")
  /\ UNCHANGED <<conf, cap, offered, keyfile, ghost>>
  /\ Session

\* The directives of a challenge; unknown ones are dropped.
ExtractChallenge(directives) ==
  directives \cap {"realm", "nonce", "qop", "algorithm", "charset", "rspauth"}

\* The response is built from these; one that is missing is a null pointer.
ResponseNeeds == {"realm", "nonce", "qop", "charset"}

NoMemory == Abandon("ERR_MEMORY_STARVATION")

\* Any answer that is not a status known here is decoded as a challenge.
AuthDIGEST_Challenge ==
  /\ pc = "DIGEST-MD5"
  /\ \E r \in netsendrecv :
       \/ r = "error"  /\ Abandon("ERR_SOCKET_IO")
       \/ r = "closed" /\ DieNow
       \/ r = "reply"  /\ Redirected
       \/ r = "reply"  /\ Abandon("ERR_AUTHENTICATION_FAILURE")
       \/ r = "reply"  /\ \E directives \in {{}, {"realm", "nonce"}, ResponseNeeds \cup {"algorithm", "cipher"}} :
            IF ResponseNeeds \subseteq ExtractChallenge(directives)
            THEN GoOn("digest_response") \/ NoMemory ELSE DieNow
  /\ UNCHANGED <<conf, cap, offered, keyfile, ghost>>
  /\ Session

\* The broker proves that it knows the password too.
AuthDIGEST_Response ==
  /\ pc = "digest_response"
  /\ \E r \in netprintf :
       \/ r = "error"  /\ Abandon("ERR_SOCKET_IO")
       \/ r = "closed" /\ DieNow
       \/ r = "reply"  /\ Redirected
       \/ r = "reply"  /\ Abandon("ERR_AUTHENTICATION_FAILURE")
       \/ r = "reply"  /\ \E directives \in {{}, {"rspauth"}}, right \in BOOLEAN :
            IF "rspauth" \notin ExtractChallenge(directives) THEN DieNow
            ELSE IF right THEN GoOn("digest_result") ELSE Abandon("ERR_AUTHENTICATION_FAILURE")
  /\ UNCHANGED <<conf, cap, offered, keyfile, ghost>>
  /\ Session

\* Buffer still holds the client's own response, which is no status.
AuthDIGEST_Result ==
  /\ pc = "digest_result"
  /\ \E r \in netsendrecv :
       \/ r = "error"  /\ Abandon("ERR_SOCKET_IO")
       \/ r = "closed" /\ OnCode("other", "ERR_AUTHENTICATION_FAILURE", "source")
       \/ r = "reply"  /\ \E code \in Codes : OnCode(code, "ERR_AUTHENTICATION_FAILURE", "source")
  /\ UNCHANGED <<conf, cap, offered, keyfile, ghost>>
  /\ Session

-----------------------------------------------------------------------------
(* tsp_auth_passdss.c                                                      *)

\* The numbers, buffers and filters are allocated and the client's
\* Diffie-Hellman key made; then the mechanism is announced.
AuthPASSDSS_Begin ==
  /\ pc = "PASSDSS-3DES-1"
  /\ \/ NoMemory
     \/ Abandon("ERR_AUTHENTICATION_FAILURE")
     \/ Abandon("ERR_SOCKET_IO")
     \/ GoOn("passdss_hello")
  /\ UNCHANGED <<conf, cap, offered, keyfile, ghost>>
  /\ Session

\* The first answer is not looked at for a status.  One that is no PASSDSS
\* message has too short a length, or is read past its end.
AuthPASSDSS_Hello ==
  /\ pc = "passdss_hello"
  /\ \E r \in netsendrecv :
       \/ r = "error" /\ Abandon("ERR_SOCKET_IO") /\ UNCHANGED offered
       \/ r = "reply" /\ NoMemory /\ UNCHANGED offered
       \/ r # "error" /\ (Abandon("ERR_AUTHENTICATION_FAILURE") \/ DieNow) /\ UNCHANGED offered
       \/ r = "reply" /\ \E key \in Keys, signed \in BOOLEAN :
            offered' = [key |-> key, signed |-> signed] /\ GoOn("passdss_key")
  /\ UNCHANGED <<conf, cap, keyfile, ghost>>
  /\ Session

\* The key is looked up, and an unknown one stored, before the signature made
\* with it is verified.
AuthPASSDSS_Verify(consent, writable) ==
  /\ pc = "passdss_key"
  /\ conf.no_questions => consent
  /\ LET r == add_dsakey_to_keyfile(offered.key, conf.server, keyfile, consent, writable) IN
     /\ keyfile' = r.file
     /\ ghost' = IF r.file # keyfile THEN [ghost EXCEPT !.stored[conf.server] = offered.key] ELSE ghost
     /\ IF r.ret /\ offered.signed THEN GoOn("passdss_result")
        ELSE Abandon("ERR_AUTHENTICATION_FAILURE")
  /\ offered' = NoOffer
  /\ UNCHANGED <<conf, cap>>
  /\ Session

AuthPASSDSS_Result ==
  /\ pc = "passdss_result"
  /\ \E r \in netsendrecv :
       \/ r = "error"  /\ Abandon("ERR_SOCKET_IO")
       \/ r = "closed" /\ OnCode("other", "ERR_AUTHENTICATION_FAILURE", "source")
       \/ r = "reply"  /\ \E code \in Codes : OnCode(code, "ERR_AUTHENTICATION_FAILURE", "source")
  /\ UNCHANGED <<conf, cap, offered, keyfile, ghost>>
  /\ Session

-----------------------------------------------------------------------------
(* Negotiation                                                             *)

\* getsockname() of the session's socket.
tspGetLocalAddress(ok) == IF ok THEN local ELSE NULL

\* "auto" is replaced in the configuration itself.
UpdateSourceAddr(ok) ==
  /\ pc = "source"
  /\ CASE conf.client_v4 # "auto" -> GoOn("negotiate") /\ UNCHANGED conf
       [] conf.client_v4 = "auto" /\ tspGetLocalAddress(ok) # NULL ->
            GoOn("negotiate") /\ conf' = [conf EXCEPT !.client_v4 = tspGetLocalAddress(ok)]
       [] OTHER -> Abandon("ERR_INVAL_CLIENT_ADDR") /\ UNCHANGED conf
  /\ UNCHANGED <<cap, offered, keyfile, ghost>>
  /\ Session

\* tspSendRecv: an answer that is not "Content-length: n" and n bytes is an
\* error, and so is a closed connection.
tspSendRecv == {IF r = "closed" THEN "error" ELSE r : r \in netsendrecv}

TunnelNegotiation ==
  /\ pc = "negotiate"
  /\ conf' = AfterCreateRequest(conf)
  /\ \E r \in tspSendRecv :
       \/ r = "error" /\ (NoMemory \/ Abandon("ERR_SOCKET_IO")) /\ UNCHANGED <<tunnel, ghost>>
       \/ r = "reply" /\ (Redirected \/ Abandon("ERR_TSP_GENERIC_ERROR")) /\ UNCHANGED <<tunnel, ghost>>
       \/ r = "reply" /\ DieNow /\ UNCHANGED <<tunnel, ghost>>   \* no line end after the status
       \/ r = "reply" /\ \E doc \in Answers :
          \E parsed \in tspExtractPayload(doc, attributes) :
            IF parsed.dead THEN DieNow /\ UNCHANGED <<tunnel, ghost>>
            ELSE /\ tunnel' = parsed.t /\ attributes' = parsed.attributes
                 /\ ghost' = [ghost EXCEPT !.granted = doc, !.requested = tspBuildCreateRequest(conf)]
                 /\ Proceed(IF version = "1.0.1" THEN "start" ELSE "acknowledge")
  /\ UNCHANGED <<version, cap, offered, socket, tunfd, daemon, child, keyfile, net>>
  /\ Running

\* The bytes written (any number), or -1.
tspSend == {0, -1}

Acknowledge ==
  /\ pc = "acknowledge"
  /\ \E sent \in tspSend : IF sent # -1 THEN GoOn("start") ELSE Abandon("ERR_SOCKET_IO")
  /\ UNCHANGED <<conf, cap, offered, keyfile, ghost>>
  /\ Session

-----------------------------------------------------------------------------
(* The kernel's part: external, as tsp_setup.c uses it.                    *)

DeleteDevice(n, if) ==
  [n EXCEPT !.dev[if] = NoDevice, !.routes = @ \ {if}]

\* SIOCDELTUNNEL knows sit devices only.
del_tunnel(n, if) == IF if = "sit" THEN DeleteDevice(n, if) ELSE n

add_tunnel(n, if, remote) ==
  IF n.dev[if].exists THEN n
  ELSE [n EXCEPT !.dev[if] = [exists |-> TRUE, addrs |-> {}, remote |-> remote, mine |-> TRUE]]

\* Every IPv6 address of the interface is deleted; it is not taken down.
ifdown(n, if) == [n EXCEPT !.dev[if].addrs = {}]

ifup(n, if, addr) ==
  IF n.dev[if].exists THEN [n EXCEPT !.dev[if].addrs = @ \cup {addr}] ELSE n

delrouteForgotten(n) == n

\* SIOCDELRT without an interface removes one route of metric 1.
delroute(n) ==
  IF n.routes = {} THEN n ELSE [n EXCEPT !.routes = @ \ {CHOOSE if \in @ : TRUE}]

addroute(n, if) == IF n.dev[if].exists THEN [n EXCEPT !.routes = @ \cup {if}] ELSE n

InterfaceOf(t) == IF t.type = "v6v4" THEN "sit" ELSE "tun"

-----------------------------------------------------------------------------
(* tspStartLocal                                                           *)

Local == UNCHANGED <<conf, version, cap, offered, tunnel, attributes, keyfile>>

NotStartedGeneric == pc' = "clear" /\ status' = "ERR_TSP_GENERIC_ERROR" /\ UNCHANGED <<fds, tunfd, net>>

\* Early returns, before anything was set up.
NotStarted == pc' = "clear" /\ status' = "ERR_INTERFACE_SETUP_FAILED" /\ UNCHANGED <<fds, tunfd, net>>

\* TunInit: the device exists as long as its descriptor is open; a second
\* descriptor for it is refused.
StartLocal(root, ipv6, tun) ==
  /\ pc = "start"
  /\ ghost' = [ghost EXCEPT !.negotiated = TRUE]
  /\ CASE ~root \/ ~ipv6 -> NotStarted
       [] root /\ ipv6 /\ tunnel.type = NULL -> DieNow /\ UNCHANGED <<tunfd, net>>
       [] root /\ ipv6 /\ tunnel.type = "v4v6" -> NotStarted
       [] root /\ ipv6 /\ tunnel.type = "v6udpv4" ->
            IF ~tun \/ net.dev["tun"].exists THEN NotStarted
            ELSE /\ tunfd' = Lowest(fds)
                 /\ fds' = [fds EXCEPT ![Lowest(fds)] = "tun"]
                 /\ net' = [net EXCEPT !.dev["tun"] = [NoDevice EXCEPT !.exists = TRUE, !.mine = TRUE]]
                 /\ pc' = "fork" /\ UNCHANGED status
       [] OTHER -> GoOn("fork") /\ UNCHANGED <<tunfd, net>>
  /\ UNCHANGED <<socket, daemon, child>>
  /\ Local /\ Running

\* A string of the characters an address may have.
IsAll(str) == str \notin {NULL, "bad"}

validate_tunnel_info(t) ==
  /\ IsAll(t.client_address_ipv4) /\ IsAll(t.client_address_ipv6)
  /\ t.client_dns_server_address_ipv6 # NULL => IsAll(t.client_dns_server_address_ipv6)
  /\ IsAll(t.server_address_ipv4) /\ IsAll(t.server_address_ipv6)
  /\ t.prefix # NULL => IsAll(t.prefix) /\ IsAll(t.prefix_length)

SetupSteps(t) ==
  (IF t.type = "v6v4" THEN <<"del_tunnel", "add_tunnel">> ELSE <<>>)
    \o <<"ifdown", "ifup", "delroute", "addroute">>

\* The child: tspSetupInterface(), then exit() with its status.
tspSetupInterface(t) ==
  IF ~validate_tunnel_info(t) THEN [todo |-> <<>>, exit |-> "ERR_BAD_TUNNEL_PARAM"]
  ELSE IF t.type \in {"v6v4", "v6udpv4"} THEN [todo |-> SetupSteps(t), exit |-> "SUCCESS"]
  ELSE [todo |-> <<>>, exit |-> "ERR_INTERFACE_SETUP_FAILED"]

Fork(ok) ==
  /\ pc = "fork"
  /\ IF ok THEN child' = tspSetupInterface(tunnel) /\ GoOn("wait")
     ELSE pc' = "teardown" /\ status' = "ERR_INTERFACE_SETUP_FAILED" /\ UNCHANGED <<fds, child>>
  /\ UNCHANGED <<socket, tunfd, daemon, net, ghost>>
  /\ Local /\ Running

SetupStep(n, step, t) ==
  LET if == InterfaceOf(t) IN
  CASE step = "del_tunnel" -> del_tunnel(n, if)
    [] step = "add_tunnel" -> add_tunnel(n, if, t.server_address_ipv4)
    [] step = "ifdown"     -> ifdown(n, if)
    [] step = "ifup"       -> ifup(n, if, t.client_address_ipv6)
    [] step = "delroute"   -> delroute(n)
    [] OTHER               -> addroute(n, if)

\* The result of no step is looked at: one that fails changes nothing and the
\* set-up goes on.
ChildStep(fails) ==
  /\ child.todo # <<>>
  /\ fails => count.failures < MaxFailures
  /\ net' = IF fails THEN net ELSE SetupStep(net, Head(child.todo), tunnel)
  /\ child' = [child EXCEPT !.todo = Tail(@)]
  /\ count' = [count EXCEPT !.failures = IF fails THEN @ + 1 ELSE @]
  /\ ghost' = [ghost EXCEPT !.faulty = @ \/ fails]
  /\ UNCHANGED <<pc, conf, version, status, cap, offered, tunnel, socket, tunfd,
                 fds, attributes, daemon, keyfile, gTunnelInfo, local>>

\* The child is killed: !WIFEXITED(s).
ChildKilled ==
  /\ child.todo # <<>>
  /\ child' = [todo |-> <<>>, exit |-> "ERR_INTERFACE_SETUP_FAILED"]
  /\ UNCHANGED <<pc, conf, version, status, cap, offered, tunnel, socket, tunfd,
                 fds, attributes, daemon, keyfile, net, gTunnelInfo, local, count, ghost>>

Wait ==
  /\ pc = "wait" /\ child.todo = <<>>
  /\ child' = NoChild
  /\ IF child.exit = "SUCCESS" THEN GoOn("detach")
     ELSE pc' = "teardown" /\ status' = child.exit /\ UNCHANGED fds
  /\ UNCHANGED <<socket, tunfd, daemon, net, ghost>>
  /\ Local /\ Running

\* daemon(1,0) that fails returns at once: the descriptor of the device stays
\* open and nothing is torn down.
Detach(ok) ==
  /\ pc = "detach"
  /\ CASE conf.nodaemon \/ daemon -> GoOn("loop") /\ UNCHANGED <<daemon, ghost>>
       [] ~(conf.nodaemon \/ daemon) /\ ok ->
            daemon' = TRUE /\ GoOn("loop") /\ UNCHANGED ghost
       [] OTHER -> /\ pc' = "clear" /\ status' = "ERR_INTERFACE_SETUP_FAILED"
                   /\ ghost' = [ghost EXCEPT !.undetached = TRUE]
                   /\ UNCHANGED <<fds, daemon>>
  /\ UNCHANGED <<socket, tunfd, child, net>>
  /\ Local /\ Running

\* TunMainLoop() or tspPerformTunnelLoop() returns; the former's socket is
\* closed at once.
TunnelEnds(st) ==
  /\ pc = "loop"
  /\ status' = st
  /\ fds' = IF tunnel.type = "v6udpv4" THEN tspClose(fds, socket) ELSE fds
  /\ pc' = "teardown"
  /\ UNCHANGED <<socket, tunfd, daemon, child, net, ghost>>
  /\ Local /\ Running

\* delroute() and, by type, del_tunnel().
tspTearDownTunnelUdpOnly(n, t) ==
  LET m == delroute(n) IN IF t.type = "v6udpv4" THEN del_tunnel(m, InterfaceOf(t)) ELSE m
tspTearDownTunnel(n, t) ==
  LET m == delroute(n) IN IF t.type \in {"v6v4", "v6udpv4"} THEN del_tunnel(m, InterfaceOf(t)) ELSE m

\* What the scripts and the messaging subsystem are told.  The set-up tells it
\* in the child, where it is lost; the tear-down in the process itself.
set_tsp_env_variables(t) ==
  [type   |-> IF t.type \in {"v6v4", "v6udpv4"} THEN t.type ELSE gTunnelInfo.type,
   client |-> t.client_address_ipv6, server |-> t.server_address_ipv6,
   domain |-> Assign(gTunnelInfo, "domain", t.client_dns_name).domain,
   prefix |-> t.prefix]

\* setenv() and atoi() of a null pointer.
NullExported(t) ==
  \/ NULL \in {t.client_address_ipv4, t.client_address_ipv6, t.client_dns_server_address_ipv6,
               t.server_address_ipv4, t.server_address_ipv6}
  \/ t.prefix # NULL /\ t.prefix_length = NULL

\* The TUN device goes with its descriptor, before the tear-down; a tunnel
\* that lacks an address may end the process here.
TearDownDies ==
  /\ pc = "teardown" /\ NullExported(tunnel)
  /\ DieNow
  /\ UNCHANGED <<socket, tunfd, daemon, child, net, ghost>>
  /\ Local /\ Running

TearDown ==
  /\ pc = "teardown"
  /\ gTunnelInfo' = set_tsp_env_variables(tunnel)
  /\ fds' = IF tunfd = -1 THEN fds ELSE tspClose(fds, tunfd)
  /\ net' = tspTearDownTunnel(IF tunfd = -1 THEN net ELSE DeleteDevice(net, "tun"), tunnel)
  /\ tunfd' = -1
  /\ pc' = "clear"
  /\ UNCHANGED <<status, socket, daemon, child, local, count, ghost>>
  /\ Local

\* The tunnel information is cleared and the socket closed, for the second
\* time if the tunnel was V6UDPV4.
ClearAndReturn ==
  /\ pc = "clear"
  /\ tunnel' = ClearTunnel
  /\ gTunnelInfo' = NoInfo
  /\ tunfd' = -1
  /\ Abandon(status)
  /\ UNCHANGED <<conf, version, cap, offered, socket, daemon, child, keyfile, net, local, count, ghost>>

-----------------------------------------------------------------------------
(* The environment                                                         *)

\* The process is gone, with its descriptors and the TUN device; a sit device,
\* its address and route, and a child at work remain.
KernelAfterDeath(n) ==
  LET m == DeleteDevice(n, "tun")
  IN [m EXCEPT !.dev["sit"].mine = FALSE]

Kill ==
  /\ pc \notin {"idle", "dead"} /\ count.kills < MaxKills
  /\ count' = [count EXCEPT !.kills = @ + 1]
  /\ DieNow
  /\ UNCHANGED <<conf, version, cap, offered, tunnel, socket, tunfd, daemon, child,
                 keyfile, net, gTunnelInfo, local, ghost>>

\* A new process; a child of the old one has ended by then.
Restart ==
  /\ pc = "dead" /\ child.todo = <<>> /\ count.sessions < MaxSessions
  /\ conf' \in Configs
  /\ daemon' = FALSE /\ tunfd' = -1 /\ child' = NoChild /\ tunnel' = ClearTunnel /\ attributes' = Unset
  /\ net' = KernelAfterDeath(net)
  /\ ghost' = [ghost EXCEPT !.undetached = FALSE, !.negotiated = FALSE]
  /\ status' = "none" /\ pc' = "idle"
  /\ gTunnelInfo' = NoInfo
  /\ UNCHANGED <<version, cap, offered, socket, fds, keyfile, local, count>>

\* The host gets another address between two sessions.
Renumber ==
  /\ pc = "idle" /\ count.sessions \in 1 .. MaxSessions - 1 /\ count.failures < MaxFailures
  /\ local' \in Locals \ {local}
  /\ count' = [count EXCEPT !.failures = @ + 1]
  /\ UNCHANGED <<pc, conf, version, status, cap, offered, tunnel, socket, tunfd,
                 fds, attributes, daemon, child, keyfile, net, gTunnelInfo, ghost>>

\* The last session is over.
Finished ==
  /\ pc \in {"idle", "dead"} /\ child.todo = <<>> /\ count.sessions = MaxSessions
  /\ UNCHANGED vars

Init ==
  /\ pc = "idle" /\ conf \in Configs /\ version = "2.0.0" /\ status = "none"
  /\ cap = {} /\ offered = NoOffer /\ tunnel = ClearTunnel
  /\ socket = 3 /\ tunfd = -1 /\ fds = [d \in Descriptors |-> "free"] /\ attributes = Unset
  /\ daemon = FALSE /\ child = NoChild /\ keyfile = <<>>
  /\ net = [dev |-> [if \in Interfaces |-> NoDevice], routes |-> {}]
  /\ gTunnelInfo = NoInfo /\ local = CHOOSE l \in Locals : TRUE
  /\ count = [sessions |-> 0, kills |-> 0, failures |-> 0]
  /\ ghost = [granted |-> NoAnswer, requested |-> tspBuildCreateRequest(conf), stored |-> [s \in Servers |-> NoKey],
              negotiated |-> FALSE, faulty |-> FALSE, undetached |-> FALSE]

\* What TunMainLoop() and tspPerformTunnelLoop() return; the latter is given no
\* lifetime of the tunnel, which alone would make it end with the lease.
LoopStatuses == {"SUCCESS", "ERR_KEEPALIVE_TIMEOUT", "ERR_KEEPALIVE_ERROR", "ERR_TUNNEL_IO"}

Next ==
  \/ \E s \in Servers, t \in {"TCP", "RUDP"}, v \in {"1.0.1", "2.0.0"} : StartSession(s, t, v)
  \/ \E known \in {{}, {"ipv4"}}, connects \in BOOLEAN : Connect(known, connects)
  \/ GetCapabilities \/ Authenticate \/ AuthANONYMOUS \/ AuthPLAIN
  \/ AuthDIGEST_Challenge \/ AuthDIGEST_Response \/ AuthDIGEST_Result
  \/ AuthPASSDSS_Begin \/ AuthPASSDSS_Hello \/ AuthPASSDSS_Result
  \/ \E consent, writable \in BOOLEAN : AuthPASSDSS_Verify(consent, writable)
  \/ \E ok \in BOOLEAN : UpdateSourceAddr(ok) \/ Fork(ok) \/ Detach(ok) \/ ChildStep(ok)
  \/ TunnelNegotiation \/ Acknowledge
  \/ \E root, ipv6, tun \in BOOLEAN : StartLocal(root, ipv6, tun)
  \/ ChildKilled \/ Wait \/ TearDown \/ TearDownDies \/ ClearAndReturn
  \/ \E st \in LoopStatuses : TunnelEnds(st)
  \/ Kill \/ Restart \/ Renumber \/ Finished

Spec == Init /\ [][Next]_vars

-----------------------------------------------------------------------------
(* Properties                                                              *)

\* What the document that the broker sent in this session grants.
GrantedAddress(end, kind) ==
  {n.content : n \in {m \in ToSet(ghost.granted) : m.path = <<"tunnel", end, "address">> /\ m.attr = kind}}
GrantedType == {n.attr : n \in {m \in ToSet(ghost.granted) : m.path = <<"tunnel">>}}

\* A document in which the tunnel and each address has its type, no type is given to
\* two addresses of an end, and the server has no name servers.
WellFormed(doc) ==
  /\ \A n \in ToSet(doc) :
       /\ Last(n.path) \in {"tunnel", "address"} => n.attr # NULL
       /\ n.path # <<"tunnel", "server", "router", "dns_server", "address">>
  /\ \A n, m \in ToSet(doc) :
       n.path = m.path /\ n.attr = m.attr /\ Last(n.path) = "address" /\ Len(n.path) = 3 => n.content = m.content
  /\ \A n, m \in ToSet(doc) : n.path = <<"tunnel">> /\ m.path = <<"tunnel">> => n.attr = m.attr

\* While a tunnel runs, it is of the type granted in this session, its interface has the
\* address granted and no other, it ends at the broker's address, and the only default
\* route leads through it: also when a process killed earlier left its interface,
\* address and route behind, and whatever documents were parsed before.  (What a document
\* that is not well formed leads to depends on those; tsp_setup.c ignores failing system
\* calls: a session with either is excepted.)
TunnelAsGranted ==
  pc = "loop" /\ ~ghost.faulty /\ WellFormed(ghost.granted) =>
    LET if == InterfaceOf(tunnel) IN
    /\ {tunnel.type} = GrantedType
    /\ net.dev[if].addrs = GrantedAddress("client", "ipv6")
    /\ if = "sit" => {net.dev[if].remote} = GrantedAddress("server", "ipv4")
    /\ net.routes = {if}

\* When tspSetupTunnel() has returned, no descriptor of the session and no
\* interface of this process is left, whichever way it went; a failure of
\* daemon() is the one exception (linux/tsp_local.c:269-274).
NothingLeft ==
  pc = "idle" /\ ~ghost.undetached =>
    /\ \A d \in Descriptors : fds[d] = "free"
    /\ \A if \in Interfaces : ~net.dev[if].mine /\ (if \in net.routes => net.dev[if].exists)

\* When a session looks a broker's key up, and after it did, a key that was once
\* stored, by this process or by one killed since, through the buffer, big
\* number and base64 conversions, is found and no other key is taken for it.
KeyRemembered ==
  pc \in {"passdss_key", "passdss_result"} =>
    \A s \in Servers : \A k \in Keys :
      is_dsakey_in_keyfile(k, s, keyfile) =
        (IF ghost.stored[s] = NoKey THEN 1 ELSE IF ghost.stored[s] = k THEN 2 ELSE 3)

\* The status of a session tells the main loop whether the server was written
\* to the last-server file: TspMain relies on exactly these statuses.
OutcomeAsAssumed ==
  pc = "idle" /\ status # "none" =>
    (ghost.negotiated <=>
       status \in {"SUCCESS", "ERR_KEEPALIVE_TIMEOUT", "ERR_KEEPALIVE_ERROR", "ERR_TUNNEL_IO",
                   "ERR_INTERFACE_SETUP_FAILED", "ERR_BAD_TUNNEL_PARAM"})

\* "If it was set to 'auto', the source address of the socket is used."
\* (tsp_client.c:537): with client_v4=auto the address in the request is the
\* one the session's socket has.
SourceOfSocket == pc \in {"acknowledge", "start"} => ghost.requested.client = local
=============================================================================
