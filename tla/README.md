# gogodroid: a verification project

gogodroid is an Android front end (Java, `src/src/com/googlecode/gogodroid`) for
gogoCLIENT (`gogoc`, C and C++, `src/jni/gogoc-1_2-RELEASE`), which builds an
IPv6-in-IPv4 tunnel to a broker with the Tunnel Setup Protocol (TSP). This
directory models the parts of both that keep state over time, checks them with TLC
and proves most of their safety properties with TLAPS.

Below, `G` is `src/jni/gogoc-1_2-RELEASE/gogoc-tsp`. The code modelled is the one that
is built for Linux and Android: no `V4V6_SUPPORT`, `DSLITE_SUPPORT` or `HACCESS`. Two parts
are wider: the messaging library is modelled as on Windows, the only platform where its
transport is finished, and the configuration has both readers, the one of the Android
build and the one of the desktop builds.

## 1. Inventory

| Component | State | Operations | Hard behaviour | What makes it correct |
|---|---|---|---|---|
| Connection loop, `tspMain()` (`G/src/tsp/tsp_client.c:921-1788`) | server, broker list and pointer into it, two flags that say which is tried, transport cycle, TSP version, retry counters and delays, two files | start-up, choice of server, transport and version, one reaction for each status of a session, waits, stop signal | long sequences of failures, redirections and restarts; counters of 8 and 16 bits; allocation failures; a signal at any point | pointer valid when used; server tried is the one the flags designate; waits set and bounded; no server left out; a stop ends the client |
| TSP session, `tspSetupTunnel()` and `tsp_cap.c`, `tsp_auth*.c`, `tsp_setup.c`, `xml_*.c` | descriptors, capabilities, authentication dialogue, tunnel parameters, key file, configuration it overwrites | connect, version, capabilities, authenticate, request, acknowledge, start, tear down | one step of several fails; who closes what; a kill at any step; a broker that answers anything | the tunnel is the one granted; each status reported for what happened; everything released |
| Interface set-up (`linux/tsp_setup.c`, `linux/tsp_local.c`) | interfaces, addresses and routes in the kernel, child process | configure in a child, wait, tear down | failing system calls; what a killed process left | one address, one default route |
| Broker redirection (`tsp_redirect.c`, `net_echo_request.c`) | list of brokers with round-trip times, a thread for each, files `broker_list` and `last_server` | create, time, sort, format, save, load | threads answer in any order, cannot be created, outlive the list | sorted by distance; no use of freed memory; ends |
| Reliable UDP (`G/src/net/net_rudp.c`) | global `rttengine_stats`: sequence number, retransmission timeout, retries, cached address | connect, send and wait for the reply with retransmission, close | loss, duplicates, stale replies; state left over from a connection that failed | reply belongs to the request; bounded retries and waits; engine of the right server |
| Tunnel loop and keepalive (`G/platform/linux/tsp_tun.c`, `tsp_tun_mgt.c`, `net_ka.c`, `icmp_echo_engine.c`) | engine shared by two threads without a lock, list of echo requests, raw socket | forward packets, send and await echoes, stop, free | thread interleavings, lost and late replies, signals, freeing under a thread | silence detected, no false timeout, stop ends, no use after free |
| Messaging (`gogoc-messaging/`) | in each of two processes: queue and semaphore, servent with a mutex, sender, receiver and manager threads | post, send in fragments, receive, process, disconnect, reconnect | four threads in each process, a pipe of limited size, processes that end | at most once, in order, whole; no mutual blocking; the queue moves |
| Message contents (`clientmsgsender.cc`, `servermsgsender.cc`, the translators) | bytes of a message | pack, unpack, hand over | absent strings, lists | the receiver gets what was sent |
| Configuration (`config.c`, `gogoc-config/`) | name/value pairs, the file, the saved copy | load, set, save, cancel, restore, read by a client, command line | a file read while it is written; editing by hand; two readers | what is accepted is consistent; what is saved is read back; the readers agree |
| Logging (`log.c`, `deque.c`) | buffer, files, sizes | log, rotate, flush | full buffer, rotation | nothing lost below the limits |
| Android application (`GogoService`, `GogoCtl`, `GogoDroid`, receiver) | `userStopped`, `lastStatus`, monitor thread; gogoc processes | start, stop, status, network change, monitor | binder thread against main thread, root shell that is not waited for, service killed and restarted | few clients, reconnection |

How they interact: the receiver starts the service on a network change; the activity
calls it through binder; the service runs `gogoc` through `su` and only sees it again in
`ps`. `unix-main.c` reads the configuration and calls `tspMain()`, which calls
`tspSetupTunnel()` for each attempt; this one talks through the transport chosen (RUDP
first, then TCP), sets up the interface and runs the tunnel loop until the tunnel ends.
The status it returns drives the loop. A redirection in the middle of a session makes
`tspHandleRedirect()` time and sort the brokers and replaces the list under the loop's
pointer. SIGHUP sets a flag that both loops poll. Where there is a GUI, status, tunnel and
broker information go to it, and its requests come back, through the messaging library.

The hazards, with their lines and the properties that guard them, are listed in
`PROJECT.json`.

## 2. Modules

| Module | Models | Uses |
|---|---|---|
| `TspMain` | `tspMain()`, with `FormatBrokerListAddr()`, reading and writing of the two files, `tspCheckForStopOrWait()` and the signal handler | |
| `TspSession` | `tspSetupTunnel()`: connection, capabilities, the four authentications, negotiation, child process, tunnel, tear-down | `KeyFile`, `TspXml` |
| `KeyFile` | `gogockeys.pub`: lines, keys, base64 | `Buffer` |
| `Buffer` | the growing fifo buffer and its typed access, byte by byte | |
| `TspXml` | the tunnel request, the parser driven by node tables, the filling of a `tTunnel` | |
| `Redirect` | `tspHandleRedirect()`, one thread per broker, sort, free | `TspXml` |
| `KeepAlive` | `TunMainLoop()`, `tspPerformTunnelLoop()`, `net_ka.c`, and `icmp_echo_engine.c` in keepalive mode | |
| `Rudp` | `net_rudp.c` under `tspConnect()`, `tspSendRecv()` and `tspClose()` | |
| `Messaging` | both ends of the messaging library over a named pipe | refines `MsgChannel` |
| `MsgChannel` | abstract: what the library promises | |
| `MsgCodec` | the bytes of every message and both translators | |
| `ConfigValidation` | one routine per variable, and the checks that relate variables | |
| `Config` | the object of the front end, the file, the clients that read it | `ConfigValidation` |
| `GogoApp` | `GogoService`, `GogoCtl`, the calls of `GogoDroid`, `ConnectivityStateReceiver` | |
| `TspMainProofs`, `TspSessionProofs`, `RedirectProofs`, `KeepAliveProofs`, `RudpProofs`, `MessagingProofs`, `ConfigProofs`, `GogoAppProofs` | the theorems about the module each is named after; `MessagingProofs` also holds that about `MsgCodec` | that module, the proof library |
| `MC...` | instances for TLC | |

`TspMain`. Variables have the names of the C variables; `pc` is the place in the two nested
loops. The list is a sequence and the pointer into it a position, 0 for NULL and -1 once
the list is freed. `SetupTunnel` stands for `tspSetupTunnel()`: any status of `Outcomes`,
together with its effect on the list and the files. One action for each case of the
switch, and for each branch of `ERR_FAIL_SOCKET_CONNECT`. Failing allocations are the two
values of `pal_strdup`. The GUI status, empty on these platforms, is left out.

`KeepAlive`. Two threads, each with a place (`pc`, `thread`). Every access of one thread
to a variable that the other writes is a step of its own. Times are ticks before an
event, sequence numbers are counted back from the last one sent, so the state is finite
although the loop goes on for ever. A reply in `replies` may be read once, many times or
never. Freeing the engine under its thread leads to the place `undefined`. A signal may
interrupt either thread; in the keepalive thread `EINTR` is taken for a timeout, as in the
code. Packet formats and checksums are not modelled: a packet is a reply in time or another
packet.

`Rudp`. The engine is global, so it survives a connection: `initiated`, `sai` and the rest
keep what the last connection left. The network keeps every reply, which may come any number
of times. The new timeout after a round trip (srtt + 4 rttvar) is any member of `RTOs`, then
clipped by `internal_get_adjusted_rto`. `tv_sel` is what Linux leaves in the argument
of `select()`.

`GogoApp`. Two callers run the same operations: `ui`, the binder thread, and `main`. A start
or a stop is: check, give the command to `su`, sleep, and (for a start) replace the
monitor thread and start it; the steps of the two callers, of the monitors and of the root
shell interleave. A stop kills the highest process identifier, the last line of `ps`. When
the service ends, its threads and fields are lost and gogoc runs on. Notifications and
display are left out.

`TspSession`. One action for each step of `tspSetupTunnel()` between two calls that can fail, block
or be interrupted by a kill; `status` is what it returns. The oldest protocol version goes over TCP
only, as `OldVersionOverTcp` of `TspMain` has it. The broker answers any document of
`Answers`, redirects with any of `Redirections`, and sends any capabilities of `Offers` and any key of `Keys`, malformed ones included. `fds` says
of each descriptor whether it is open, so that one closed twice or never shows; `net` is the
kernel: interfaces, addresses and routes, which survive the process, unlike descriptors and the
interfaces bound to them. Hashes, ciphers and signatures are symbolic; the key that is
stored and compared is not: it goes through `Buffer`, the big-number format and base64 byte by
byte. `ghost` records what was granted, stored and negotiated, for the properties only.

`Redirect`. The list has one element for each broker, with an identity so that freed memory can be told
from the list of a later redirection. The main thread creates the timing threads one by one and
joins them; a thread sends, waits, tries again and writes the distance of its element. When one cannot be
created the others are left running and the list is freed, as in the code. `tspSortBrokerList` is a step of the
main thread for each insertion, because threads left by an earlier redirection may still run beside it.

`Messaging` and `MsgChannel`. Each end has four threads with a place each. A message is its number and its length
in packets; queue, semaphore, mutex and pipe are those of the code, with the pipe's capacity in
packets. An end may disconnect, be killed and start again, and creating or opening the pipe may
fail. In `MsgChannel` the channel of a direction is the set of the numbers of the messages accepted and not
yet processed: `Process` takes the lowest, `Lose` any of them. The refinement maps it to the
message read but not processed, the messages whose last packet is in the pipe and those of the peer's
queue not completely written: each step of the library is a step of `MsgChannel` or a stutter.

`MsgCodec`. A structure is laid out in bytes as the `Send_` methods do, field after field, and read back
by the translators. The messages travel one at a time; how they travel is in `Messaging`.

`Config` and `ConfigValidation`. The front end loads, sets, saves, cancels and restores; saving writes the file
line by line, so that a client may read it half written and a kill leaves it so. The desktop
client validates; the Android client has a reader of its own, without validation. Values are strings and
constants tell what the routines look at in them (numerals, lengths, sets of characters,
numeric addresses, directories).

## 3. Runs

| Run | Instance | Result |
|---|---|---|
| `connection_loop` | two brokers (one IPv6), lists of up to two, files missing, full and too long, five configurations, every class of status, failing allocations, `retry_delay` 1 and maximum 2 | 1,343,279 states; six invariants and two liveness properties |
| `server_rotation` | three brokers, one of them IPv6, no server can be reached, `consec_retry` of 8 bits so that it wraps | 87,696 states; delay schedule, every server and transport tried except as below |
| `delay_never_doubles` | as above, one transport | violation: the delay is never doubled |
| `keepalive` | both loops, with and without keepalive and lease, intervals below and above the echo timeout, threshold 3, faults | 234,397 states |
| `rudp` | two servers, three exchanges in a connection, timeouts below, inside and above the limits | 85,756 states |
| `android_service` | two monitor threads, three process identifiers, one broadcast waiting, one death of the service, a device with tun and IPv6 or without | 625,225 states |
| `messaging` | two requests and one notice of two packets, pipes of two packets, queues of one, one fault | 250,316 states; includes the refinement of `MsgChannel` |
| `message_codec` | strings absent, empty and of two lengths, lists of up to two, messages of 26 bytes | 151,914 states |
| `session` | two sessions, one kill, one failing call or change of address, two configurations, three servers, two keys, three sets of capabilities, six answers (one malformed, one in which the tunnel and an address lack their type and the server has a router), one redirection, two readings of a freed string | 727,520 states |
| `source_address` | two sessions, two addresses of the host, `client_v4=auto` | violation: the second session asks for the first one's address |
| `redirect` | lists of up to three brokers, one attempt, round trips of 1 and 3, timeout 3, two redirections, the second with an untyped address | 339,397 states |
| `config` | two files, one broken edit, default file good or broken, two changes, both builds; an int has 20 bits instead of 32 (`UINT32`), for TLC's own integers | 933,050 states |

Bounds. Two brokers are enough for a first, a middle and a last element (the original
server, then the list). `retry_delay_max` of 2 or 4 reaches the cap by doubling. In
`connection_loop` the counter wraps at 4 (constant `UINT8`) to keep the run short; the
schedule is checked at its true width in the other run. Three late replies are the
threshold of the code (`KA_NUM_CONSEC_TIMEOUT`); the intervals are chosen so that one or
several requests wait at once. Three exchanges allow a reply to be stale by one and by
two; connections to two servers may follow each other for ever. Two monitor threads are
a current and a replaced one; three process identifiers allow for one client more than
the bound that is checked. In `messaging` a message of two packets can be cut in the middle, fills the
pipe alone, and a queue of one is full after one post; the one fault may strike either end at any step.
Two sessions are a residue and the session that meets it; two
keys and three servers tell a known, an unknown and a changed key apart. Three brokers leave room
for an answer in time, a late one and none in the same list; the second redirection meets threads that the
first left and an attribute left by the first; one attempt is a request, its timeout and the giving up, and each further attempt would repeat
the same step with the same sequence number. Two changes of the configuration allow one by the front end and one from outside.

What the passing runs show: see the comment above each property. Some deserve a word.
`FreedAfterThread` names the two paths that do free the engine under the keepalive thread
(an I/O error of the tunnel, the end of the lease) and shows that there are no others.
`ClientsBounded` is the strongest that holds: two gogoc, not one, because the two
callers check and start without a lock, and only while the service has not been killed
and `su` obeys within the two seconds of the sleep. `SilenceDetected` holds although
signals and stale replies disturb the counts. `NothingLeft` and `TunnelAsGranted` hold through kills because the set-up
replaces what it finds; their exceptions (a failing `daemon()`, failing system calls that
`tsp_setup.c` ignores) are written in them. `QueueMoves` names every way in which an end can be left for
dead: the mutex of a terminated thread, the assertion of `communicationsmgr.cc:411`, the fatal state of
the manager, a disconnection overwritten in `Work()`, a lost count of the semaphore. `FreedOnlyUncreated` shows that
a failing creation of a thread is the only way to a use of freed memory in a redirection. `OutcomeAsAssumed` is what the
connection loop assumes of a session. `RetransmitInTime` shows that the double subtraction in
`net_rudp.c:253` only ever shortens a wait.

`CHECK_DEADLOCK FALSE` stands in `messaging` only: its processes may end, and the bounds on posts and faults
may be used up.

Some properties hold with an exception, which is written in the property and is a state that the code
does reach. The exceptions are not caught by the runs; the entries of `hazards` say so too:

* `StopEnds`: a broker that keeps silent over TCP. `recv()` has no timeout (`net_tcp.c:129`) and the handler
  of SIGHUP is installed with `signal()`, which restarts it: the stop is not seen until the broker answers (`AwaitsBroker`).
* `EveryServerTried`: a client that tries an IPv6 broker of its `broker_list` file, whose address lost its
  brackets (`TriesNotBracketed`); that broker is never tried, and the wrong address may keep the client from the others.
* `Reconnects`: a device without `/dev/tun` or IPv6, where `startGogoc` ends with a dialog (`GogoCtl.java:68-77`)
  while the service takes gogoc for started.
* `TunnelAsGranted`: a document that is not `WellFormed`. The parser keeps the values of attributes in static tables that
  are never reset (`xmlparse.c:203-226`, `xml_tun.c:49-103`): an address without a type takes that of the address before it,
  of this document or of an earlier one, whose text has been freed, and the first one of all is compared through a null pointer. The tunnel
  then depends on what was parsed before. The name servers of a router of the server are taken for addresses
  of the server (`xml_tun.c:310`).
* `AcceptedConsistent`: a number beyond an int. `keepalive_interval` is validated as a long without a
  maximum (`gogocvalidation.cc:430`), so 4294967296 is accepted and becomes 0 (`gogoc_c_wrapper.cc:366`).
* `TimeoutJustified`: after a signal, whose `EINTR` is taken for a timeout. `QueueMoves`: see above. `InfoKept`: distances
  after the first, and the name server's address. `ServerDesignated`: passes in which neither flag is set.

### Assumptions about the environment

An orphaned child of a killed session has ended before the next process starts; the kernel keeps one
default route for each interface, replaced by metric; joining a thread does not fail; Linux `select()` leaves the
remaining time in its argument; no line of `gogoc.conf` is as long as the parser's buffer. A caller of `GogoCtl` has
no other command outstanding with `su`. A document is any finite sequence of nodes; nothing else is assumed of one. An answer of a broker is
seen before twice the timeout has passed (`EchoAssumption`): `select()` gives up at the timeout, and no scheduling delay doubles
it. What `atoi` makes of a string is some integer (`NumeralAssumption`).

### Divergences

What the two violations show is described under `findings` in `PROJECT.json`, with the comment or
document that the code does not keep. Found while modelling, and translated as the code does it:

* Connection loop: an IPv6 broker read back from its file loses its brackets (`tsp_redirect.c:556`, against the
  comment at `tsp_client.c:861`). After a restart of the outer loop with a broker in use the original server
  is never tried again (`:1027`, against `:1516`). With `auto_retry_connect=no` the client still
  connects again after a keepalive timeout, because only the inner loop is left (`:1254-1259`, `:1757`),
  where `gogoc.conf.5:153` says that it does not.
* Keepalive: a stop between the check and `sendto()` is returned as `ERR_KEEPALIVE_ERROR` (`icmp_echo_engine.c:572`,
  against `tsp_tun_mgt.c:41`). The packet's 16-bit identifier is compared with a wider one (`:1038`). `KA_stop()`
  can be called twice (`tsp_tun.c:147`).
* RUDP: after a failed connection the cached address is that of the previous server (`net_rudp.c:73`, against
  `:455-458`); elapsed time is subtracted twice (`:253`, against `:247`).
* Session: a failing `daemon()` leaves the interface (`linux/tsp_local.c:269-274`). An echo reply other than 200
  keeps its round-trip time (`net_echo_request.c:377`).
* Configuration: `Save()` returns true after a write that failed (`namevalueparser.cc:286`, against `:208`). `tunnel_mode=dslite`
  passes validation and meets `assert(false)` (`gogocconfig.cc:571`). A prefix length is checked in 16 bits, so 65600
  passes as the short 64 and is used as the int that it is. `auto_retry_connect` is not validated when loaded. A line without `=` is accepted, where the comment
  announces an exception; a line of 2048 characters makes the reader loop (`namevalueparser.cc:148`). The Android reader discards
  the result of `realloc()` and copies a null value for a name without `=` (`config.c:117`). The option `-r` is
  stored and never used; `-i ""` and `-u ""` replace a validated name of an interface by an empty one (`cli.c:82-87`).
* Messages: distances after the first are misread in a list of brokers (`clientmsgtranslator.cc:279-294`). `ManagerConnected` can overwrite
  a disconnection, and the semaphore can drift from the queue (`communicationsmgr.cc:252`, `:411`).
* Android: `userStopped=userStopped` (`GogoService.java:117`) lets the network restart what the user stopped; the
  activity overwrites the monitor's `lastStatus` (`:82`); `getPid()` keeps the last line (`GogoCtl.java:239`).

### Fairness

* `TspMain`: weak fairness of the main thread, except while it waits for a broker over TCP (`AwaitsBroker`): there
  nothing makes the call return. Every other call does: connecting has the kernel's timeout, RUDP its own, and an
  established tunnel returns when it ends.
* `KeepAlive`: weak fairness of both threads and of time. Strong fairness of
  `SelectTimeout`: other ICMP traffic may delay a timeout, not for ever. `select()` in
  the forwarding loop may return at any time, so the wait of a week without keepalive
  counts as ending. `KAStartPrompt` says that `KA_start()` returns before the first interval,
  of a second at least; `Punctual` that an expired request is noticed within a tick. Both
  are about scheduling delays of the order of a second. Without the first, the write of
  `ka_status` at `net_ka.c:174` can hide the end of the thread.
* `Rudp`: weak fairness of the exchange and of time. Stale replies do not occupy
  `select()` for ever, since each one shortens what is left.
* `GogoApp`: weak fairness of each thread and of the root shell; none of the user, the
  network or Android's killing.
* `Messaging`: weak fairness of each end's sender, receiver, manager and user steps and of the creation of
  its pipe; none of the faults. Threads that block for ever are disabled, not unfair.
* `Redirect`: weak fairness of the main thread and of each timing thread, whose waits have a
  timeout.
* `TspSession`, `MsgCodec` and `Config` are checked for safety only: their liveness is that of the loops around them.

## 4. Proofs

Every theorem holds for all values of the constants that satisfy the named assumptions of its module. An
invariant is proved by an inductive one, `IInv`, which TLC checked on the instance of the run before it
was proved; none of the properties is inductive by itself. Each proof has one case for each action or group of
actions, and each part of `IInv` lemmas of its own.

`TspMainProofs` proves, for any brokers, lists, files, configurations, delays and outcomes that
satisfy the assumptions of the module (delays at most 3600 and ordered, as
`gogocconfig.cc:599-615` and `gogoc.conf.in:134` have it), that the connection loop keeps its
types, its pointer into the list valid, the server in agreement with the flags, its
delays initialised and bounded, and old versions on TCP. `IInv` adds: a redirection to be handled has a list; the
agreement of server and flags at every place of the loop, not only at the attempt; `consec_retry > 0` only with a delay
set; all three delays at most the maximum; during a version fallback, the cycle that
yields TCP. `BackoffSchedule` is proved upon it: one doubling does not wrap in sixteen bits because delays are at most 3600,
and a counter that wraps is 0, where the schedule starts anew. Its reference `Backoff` is a recursive
function, and that the function exists needs an induction: `LeastNumber` stands in for it, a non-empty set of
naturals has a least element, which the library's theorem on well-founded orders gives without an operator parameter.

`RudpProofs` proves `RightAnswer`, `SendsBounded`, `BackoffNeedsPeer`, `RetransmitInTime` and the types for any servers, limits
and number of exchanges. `IInv` adds: `EngineInv`, an engine without a peer is
as new, also when a failed connection left it behind; `SequenceInv`, sequence numbers
are the number of the exchange, so a reply names its exchange; `RetryInv`, the retries
kept in the engine are the transmissions of this exchange. `RetransmitInTime` is a part of `IInv` itself: what is left of a
wait and what has passed never exceed the timeout, although the timeout changes between transmissions.

`KeepAliveProofs` proves `FreedAfterThread`, `TimeoutJustified`, `InsertedLast` and the types for any
intervals, timeout and threshold. Its `IInv` has three parts besides the types. `Control` says which exits of the loop have
joined the thread. `Counting` ties the engine's count of late replies to the requests that really expired: equal without a
signal, at least as many with one, and at the threshold the engine stops before it can count further. `Spaced` is about time:
the age of a request is at least the ticks between it and the last one, because requests are an interval apart;
it is why a request is always due after all those of the list when it is sent.

`GogoAppProofs` proves `ClientsBounded` for any number of monitors, identifiers and broadcasts. The invariant counts
the running clients together with the commands to start one that the root shell has not obeyed yet: each has a caller
of its own, since a client is started only where none was seen and a caller waits for its own command.

`MessagingProofs` proves `NoMutualBlock`, `NeverDesynchronized` and the refinement of `MsgChannel` for any lengths of
messages, any pipe that holds the longest, any number of posts, disconnections and kills. `OneAlone`: of two senders that have
found nothing to read, one has its pipe to itself, because the pipe of the other was empty when it looked into it; so
both pipes cannot be full. `Framing` describes the stream of packets across the boundary of the two processes: the
packets of a pipe follow each other (`AllInOrder`), the last of them is the one that the sender wrote
last (`TailsOK`), and a connection begins with empty pipes and nothing half read (`FreshOK`), which is what a
disconnection in the middle of a message puts at risk. For the refinement the messages that an end has been
given and not processed are numbered and rise along receiver, pipe and queue; each action is then shown to be an `Accept`,
`Process`, `Lose` or stutter (`Simulates`). `ProcessedRises` says the same as an action property: no step processes a message
that is not newer than those processed before.

`InfoKept`, also in `MessagingProofs`, is proved for strings of any characters and lengths and lists of any length (numbers are below 256,
as in the model). `CodecInv` says that what is under way was made by the sender of its type, and `Kept` goes through the handlers. What remains is one
fact for each message: its translator, applied to the bytes of its sender, returns the structure. `Flattened` cuts the bytes
into the parts they were put together from; `FieldRead` reads one field at its place; `Decoded` walks through a layout, whose
names are distinct; `ElementsRead` walks through a list from its end, as the recursion of the code does. The three recursive functions are
shown to exist with the least number again (`FlattensExists`, `DecodesExists`, `ListExists`). That `BuildBrokerList` reads only the
first distance at its place shows in the proof: `nCursor` counts from the beginning of the data and is added to the pointer to the
element, which meets the distance for the element at offset 0 only (`BrokerAt`).

`TspSessionProofs` proves, for any configurations, servers, keys, offers and answers of brokers and any number of sessions,
kills and failing calls, `OutcomeAsAssumed`, `NothingLeft` and `TunnelAsGranted`. `DescriptorsOK` and `DevicesOK` say which
descriptors and interfaces a process may hold at each place, so that each way out releases what it should;
`ChildOK` and `SetUpOK` say of the child process how much of the set-up is done (`Progress`): the kernel may have kept anything from an earlier
process, and each of the six steps establishes its part. This gives `TunnelAsParsed`: a running tunnel has exactly the address, remote end and route of the parameters that the
parser read. `TunnelAsGranted` speaks of the document, and what the parser makes of it depends on its tables. The proof
follows it through the nodes (`ParseTrace`, with the least number again) for any contents of the tables: an address of a tunnel always comes
from the document (`ParsedFrom`), and in a well-formed one a node that is read for its type has stored its own before
(`NodeReads`), so that the tunnel is what the document grants (`ParsedAsGranted`). Of the answers it is assumed only that
they are sequences.

`KeyRemembered` is proved for keys of any size the growing buffer of the code can meet: the invariant `KeyInv` says of every moment
of a session what the key file holds: exactly one line for each server whose key was stored, the line that was written, and none
for another server, whatever kills and failing steps there were before. That the line compares equal in a later session
is a chain of round trips, each proved by itself: a number through `BN_bn2bin` and back, fields through
`buffer_append` and `buffer_get`, triples of octets through base64. The recursive functions in it are shown to exist by the
least-number principle. It uses `KeyFileAssumption`, that a key fits the buffer before the limit where
`buffer_append_space` gives up (4096 + 10 * 32768 + 750 octets against 0xa00000 in the code), for numbers of up to 1024 bits, the size
`BigNumbers` allows.

`RedirectProofs` proves `FreedOnlyUncreated` for lists of any length and any number of redirections: as long as every thread could be
created, the threads that run are exactly those of the elements reached and not yet joined, so none is left when the list is freed
(`NoneLeftOver`). It proves `SortedByEcho` too. `EchoesOK` and `KnownOK` give each element the distance of its outcome, where the
three outcomes lie in disjoint ranges: answered below twice the timeout, failed up to three times, wrong family above. `SortedOK`
says that the elements already inserted are in order, each with the distance of its outcome; lemma `Inserted` is about
one insertion, where the least-element principle (`Smallest`) again finds the position.

`ConfigProofs` proves `AcceptedConsistent` for any files, edits and command lines, whatever the strings in them are. Validation reports
the first error only: a chain of tests that reports none has none that fails, so each requirement holds of the data, then of
the structure filled from them: the conversions to int and short give back the number validated where it is in the range, which the
validation makes sure of for all but `keepalive_interval` (`NumbersAccepted`). The options of the command line keep it, except for an interface that
the command line names by the empty string (see Divergences).

It also proves what saving and reading do with each other, for files of any content. `SavedReadBack`: while the file is that of a
`Save()` that returned true and lost no line, reading gives back the values saved. `BuildsAgree`: where the desktop reader accepts
a file, the Android reader gives each variable that both read the same value. A reader is a fold over the lines; the proofs
follow the values it passes through from line to line (`ReadTrace`), again with the least number at which something
goes wrong in place of an induction. The invariant adds `FileInv`: every variable of the object has its place in the
file's data (`Data`), so that a save does not leave it out, and a file half written reads as the variables whose place has been passed
(`Writing`). `ClientInv` says that a started client has what its reader makes of the lines it got.

Only model-checked:

* Liveness (`StopEnds`, `VersionFallbackEnds`, `EveryServerTried`, `SilenceDetected`, `ExchangeEnds`,
  `ReplacedMonitorEnds`, `Reconnects`, `QueueMoves`, `HandlingEnds`), which is out of the prover's reach.
* The two expected violations, which are about the code of this instance.

## 5. Not modelled, and plan

Left for the proofs: that the steps of the session implement the action `SetupTunnel`
of `TspMain`, of which `OutcomeAsAssumed` is the part about statuses.

Not modelled:

* Logging (`log.c`, `deque.c`): no other part depends on it.
* `cnfchk.c`: `tspFixConfig()` has no caller.
* HACCESS device mapping: no makefile of the repository turns it on.
* Other platforms: variants of the Linux files that are not built here; `net_udp.c`, which the client does not use; `net_tcp6.c` and `net_rudp6.c`, which need `V4V6_SUPPORT`.
* Cryptography (libtomcrypt, MD5, ciphers): symbolic or left out.
* The packet formats, checksums and address-conflict mode of the echo engine.
* Display, notifications, preferences, module loading and DNS setting of the Android application.
* The template scripts, DNS helpers and string helpers.
