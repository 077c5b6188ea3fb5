------------------------------- MODULE GogoApp -------------------------------
(***************************************************************************)
(* The Android application (src/src/com/googlecode/gogodroid): how the     *)
(* service starts, monitors and kills gogoc.                               *)
(*                                                                         *)
(* GogoService is a process of its own.  The activity calls it through     *)
(* binder, on a thread of the service ("ui" below); broadcasts about the   *)
(* network reach onStartCommand() on its main thread ("main").  Both run   *)
(* stateful operations at the same time without a lock, and a monitor      *)
(* thread is started for each start of gogoc.  Commands are given to a     *)
(* root shell, which the service never waits for: it sleeps two seconds.   *)
(* Android may kill the service at any time; gogoc runs on.                *)
(*                                                                         *)
(* The display and the notifications are output, and left out.             *)
(***************************************************************************)
EXTENDS Integers, FiniteSets, FiniteSetsExt

CONSTANTS
  AutoConnects,   \* values of the preference auto_connect that are explored
  Prompts,        \* whether the root shell obeys within the two seconds
  Supporteds,     \* whether /dev/tun and /proc/net/if_inet6 are there at first
  MonitorIds,     \* bound: monitor threads at one time
  MaxPid,         \* bound: process identifiers in use at one time
  MaxPending,     \* bound: broadcasts waiting
  MaxDeaths       \* bound: times that Android kills the service, 1 or more

VARIABLES
  net, pending,               \* the network, and broadcasts not yet handled
  autoConnect, prompt,
  supported,                  \* /dev/tun and /proc/net/if_inet6 exist
  pc, info,                   \* of the two callers; what main read of the network
  started,                    \* Android starts the service again if it ends
  userStopped, lastStatus,
  monitorConnection,          \* the thread that is to go on
  monitors,                   \* the place of each monitor thread
  oldStatus,                  \* its local variable
  su, victim,                 \* the command of each caller for su; whom to kill
  clients,                    \* the gogoc processes
  deaths                      \* history: ends of the service

network  == <<net, pending, autoConnect, prompt, supported>>
service  == <<userStopped, lastStatus, monitorConnection>>
threads  == <<monitors, oldStatus>>
shell    == <<su, victim>>
history  == <<deaths>>
vars     == <<network, pc, info, started, service, threads, shell,
              clients, history>>

-----------------------------------------------------------------------------
Callers    == {"ui", "main"}
NetStates  == {"connected", "changing", "none"}
Statuses   == {"not_available", "running"}
Pids       == 1..MaxPid
NoThread   == 0

ASSUME AppAssumption ==
  /\ AutoConnects \subseteq BOOLEAN
  /\ Prompts \subseteq BOOLEAN
  /\ Supporteds \subseteq BOOLEAN
  /\ MonitorIds \subseteq Nat \ {NoThread}
  /\ MaxPid \in Nat \ {0}
  /\ MaxPending \in Nat \ {0}
  /\ MaxDeaths \in Nat \ {0}

Init ==
  /\ net \in NetStates
  /\ pending = 0
  /\ autoConnect \in AutoConnects
  /\ prompt \in Prompts
  /\ supported \in Supporteds
  /\ pc = [c \in Callers |-> "idle"]
  /\ info = "none"
  /\ started = FALSE
  /\ userStopped = TRUE
  /\ lastStatus = ""
  /\ monitorConnection = NoThread
  /\ monitors = [m \in MonitorIds |-> "none"]
  /\ oldStatus = [m \in MonitorIds |-> ""]
  /\ su = [c \in Callers |-> "none"]
  /\ victim = [c \in Callers |-> 0]
  /\ clients = {}
  /\ deaths = 0

\* GogoCtl.statusGogoc(): a line of ps names the executable.
statusGogoc == clients # {}

\* GogoCtl.statusConnection(); "running" stands for "connecting", "established" with
\* an address of /proc/net/if_inet6, and "error".
statusConnection == IF statusGogoc THEN "running" ELSE "not_available"

Goto(c, place) == pc' = [pc EXCEPT ![c] = place]

-----------------------------------------------------------------------------
(* GogoCtl, for either caller c.  A thread gives the command to su; it is   *)
(* assumed that a caller has no other command outstanding.                  *)

\* startGogoc() of GogoService and GogoCtl, up to the sleep.
startGogoc(c) ==
  /\ supported
  /\ su[c] = "none"
  /\ su' = [su EXCEPT ![c] = "start"]
  /\ pc' = [pc EXCEPT ![c] = "starting"]
  /\ UNCHANGED userStopped

\* startGogoc() on a device without tun or IPv6: GogoCtl shows a dialog and returns,
\* without a command for su and without the sleep; GogoService goes on all the same.
startUnsupported(c) ==
  /\ ~supported
  /\ pc' = [pc EXCEPT ![c] = "starting"]
  /\ UNCHANGED <<su, userStopped>>

\* stopGogoc(), up to the sleep: "userStopped = userStopped", and a thread that is
\* to kill gogoc.
stopGogoc(c, place) ==
  /\ su[c] = "none"
  /\ su' = [su EXCEPT ![c] = "getPid"]
  /\ pc' = [pc EXCEPT ![c] = place]
  /\ userStopped' = userStopped

-----------------------------------------------------------------------------
(* The activity (GogoDroid.java).                                           *)

\* startStopGogoc(): the button or the menu.
startStopGogoc ==
  /\ pc["ui"] = "idle"
  /\ IF statusGogoc THEN stopGogoc("ui", "stopping")
     ELSE startGogoc("ui") \/ startUnsupported("ui")
  /\ UNCHANGED <<network, info, started, lastStatus, monitorConnection, threads,
                 victim, clients, deaths>>

\* The menu's "Quit".
Quit ==
  /\ pc["ui"] = "idle"
  /\ statusGogoc
  /\ stopGogoc("ui", "quitting")
  /\ UNCHANGED <<network, info, started, lastStatus, monitorConnection, threads,
                 victim, clients, deaths>>

\* refreshUI(), after startStopGogoc() and on a monitor's broadcast: asks for the
\* status of the connection, which the service keeps.
refreshUI(place) ==
  /\ pc["ui"] = place
  /\ lastStatus' = statusConnection
  /\ Goto("ui", "idle")
  /\ UNCHANGED <<network, info, started, userStopped, monitorConnection, threads,
                 shell, clients, history>>

-----------------------------------------------------------------------------
(* GogoService.                                                             *)

\* onStartCommand(): one for each broadcast.  Reads the state of the network.
onStartCommand ==
  /\ pc["main"] = "idle"
  /\ pending > 0
  /\ pending' = pending - 1
  /\ info' = net
  /\ started' = TRUE
  /\ Goto("main", "stateChanged")
  /\ UNCHANGED <<net, autoConnect, prompt, supported, service, threads, shell,
                 clients, history>>

\* Whether stateChanged() starts gogoc, with mutants: the service starts it whether
\* it runs or not; the preference alone does not start it.
MustStartUnchecked == info = "connected" /\ (autoConnect \/ ~userStopped)
MustStartBoth == info = "connected" /\ ~statusGogoc /\ autoConnect /\ ~userStopped
MustStart == info = "connected" /\ ~statusGogoc /\ (autoConnect \/ ~userStopped)

\* Whether it stops gogoc: not in a failover or while the network is connecting.
MustStop == info = "none" /\ statusGogoc

\* stateChanged(), once it has read the state of the network.
stateChanged ==
  /\ pc["main"] = "stateChanged"
  /\ \/ MustStart /\ (startGogoc("main") \/ startUnsupported("main"))
     \/ MustStop /\ stopGogoc("main", "stopping")
     \/ /\ ~MustStart /\ ~MustStop
        /\ Goto("main", "idle")
        /\ UNCHANGED <<su, userStopped>>
  /\ info' = "none"
  /\ UNCHANGED <<network, started, lastStatus, monitorConnection, threads, victim,
                 clients, history>>

\* The caller has finished; the activity refreshes its display, unless it quits.
Return(c) == Goto(c, IF c = "ui" /\ pc[c] # "quitting" THEN "refresh" ELSE "idle")

\* The sleep of two seconds is over.
Slept(c) == prompt => su[c] = "none"

\* The service's startGogoc(): a new monitor thread replaces the last one.
newMonitor(c) ==
  /\ pc[c] = "starting"
  /\ Slept(c)
  /\ userStopped' = FALSE
  /\ \E m \in MonitorIds \ {monitorConnection} :
       /\ monitors[m] \in {"none", "new"}
       /\ monitorConnection' = m
       /\ monitors' = [monitors EXCEPT ![m] = "new"]
  /\ Goto(c, "startMonitor")
  /\ UNCHANGED <<network, info, started, lastStatus, oldStatus, shell, clients,
                 history>>

\* monitorConnection.start(), of the thread the field holds by now.
startMonitor(c) ==
  /\ pc[c] = "startMonitor"
  /\ monitors[monitorConnection] = "new"
  /\ monitors' = [monitors EXCEPT ![monitorConnection] = "loop"]
  /\ Return(c)
  /\ UNCHANGED <<network, info, started, service, oldStatus, shell, clients,
                 history>>

\* The sleep after it is over, and the notification is cancelled.
Stopped(c) ==
  /\ pc[c] \in {"stopping", "quitting"}
  /\ Slept(c)
  /\ Return(c)
  /\ UNCHANGED <<network, info, started, service, threads, shell, clients, history>>

\* The service's process ends: Android starts it again if it is sticky.  A thread
\* that has not run su yet is lost.
ServiceEnds ==
  /\ pc' = [c \in Callers |-> "idle"]
  /\ userStopped' = TRUE
  /\ lastStatus' = ""
  /\ monitorConnection' = NoThread
  /\ monitors' = [m \in MonitorIds |-> "none"]
  /\ oldStatus' = [m \in MonitorIds |-> ""]
  /\ pending' = IF started /\ pending < MaxPending THEN pending + 1 ELSE pending
  /\ \E lost \in SUBSET Callers :
       /\ su' = [c \in Callers |-> IF su[c] = "getPid" \/ c \in lost THEN "none" ELSE su[c]]
       /\ victim' = [c \in Callers |-> IF c \in lost THEN 0 ELSE victim[c]]
  /\ info' = "none"
  /\ deaths' = IF deaths < MaxDeaths THEN deaths + 1 ELSE deaths
  /\ UNCHANGED <<net, autoConnect, prompt, supported, started, clients>>

\* The thread was started by the other caller already: IllegalThreadStateException
\* goes to the activity, or ends the service.
startMonitorTwice(c) ==
  /\ pc[c] = "startMonitor"
  /\ monitors[monitorConnection] # "new"
  /\ \/ /\ c = "ui"
        /\ Goto(c, "idle")
        /\ UNCHANGED <<network, info, started, service, threads, shell,
                       clients, history>>
     \/ /\ c = "main"
        /\ ServiceEnds

\* Android refuses a dialog that belongs to no activity: the exception leaves
\* stateChanged() and ends the service.  (On the binder thread nothing has changed.)
dialogRefused ==
  /\ pc["main"] = "stateChanged"
  /\ MustStart
  /\ ~supported
  /\ ServiceEnds

-----------------------------------------------------------------------------
(* A monitor thread m.                                                      *)

\* Mutant: a monitor that was replaced goes on.
whileForever(m) == "sleep"

\* "while (monitorConnection == Thread.currentThread())"
whileCurrent(m) == IF monitorConnection = m THEN "sleep" ELSE "none"

monitorStarts(m) ==
  /\ monitors[m] = "loop"
  /\ monitors' = [monitors EXCEPT ![m] = whileCurrent(m)]
  /\ UNCHANGED <<network, pc, info, started, service, oldStatus, shell, clients,
                 history>>

\* The sleep is over: keeps the last status, and asks for the new one.
monitorPoll(m) ==
  /\ monitors[m] = "sleep"
  /\ oldStatus' = [oldStatus EXCEPT ![m] = lastStatus]
  /\ lastStatus' = statusConnection
  /\ monitors' = [monitors EXCEPT ![m] = "compare"]
  /\ UNCHANGED <<network, pc, info, started, userStopped, monitorConnection, 
                 shell, clients, history>>

\* Compares with the field, which the activity's thread may have changed since; goes
\* round the loop unless gogoc has stopped.
monitorCompare(m) ==
  /\ monitors[m] = "compare"
  /\ monitors' = [monitors EXCEPT ![m] =
       IF oldStatus[m] = lastStatus /\ lastStatus = "not_available" THEN "none"
       ELSE whileCurrent(m)]
  /\ oldStatus' = [oldStatus EXCEPT ![m] = ""]
  /\ UNCHANGED <<network, pc, info, started, service, shell, clients, history>>

-----------------------------------------------------------------------------
(* The root shell and gogoc.                                                *)

\* GogoCtl.getPid(): the last line of ps, so the highest process identifier.
getPid(c) ==
  /\ su[c] = "getPid"
  /\ IF statusGogoc
     THEN /\ su' = [su EXCEPT ![c] = "kill"]
          /\ victim' = [victim EXCEPT ![c] = Max(clients)]
     ELSE /\ su' = [su EXCEPT ![c] = "none"]
          /\ UNCHANGED victim
  /\ UNCHANGED <<network, pc, info, started, service, threads, clients,
                 history>>

\* "kill -9".
runKill(c) ==
  /\ su[c] = "kill"
  /\ su' = [su EXCEPT ![c] = "none"]
  /\ victim' = [victim EXCEPT ![c] = 0]
  /\ clients' = clients \ {victim[c]}
  /\ UNCHANGED <<network, pc, info, started, service, threads, history>>

\* gogoc is executed, with a new process identifier.
runStart(c) ==
  LET pid == Max({0} \cup clients \cup {victim[d] : d \in Callers}) + 1
  IN  /\ su[c] = "start"
      /\ pid <= MaxPid
      /\ su' = [su EXCEPT ![c] = "none"]
      /\ clients' = clients \cup {pid}
      /\ UNCHANGED <<network, pc, info, started, service, threads, victim,
                     history>>

\* A gogoc process exits by itself.
clientExits(p) ==
  /\ clients' = clients \ {p}
  /\ UNCHANGED <<network, pc, info, started, service, threads, shell, history>>

-----------------------------------------------------------------------------
(* Android.                                                                 *)

\* The network changes: ConnectivityStateReceiver asks for the service.
onReceive ==
  /\ pending < MaxPending
  /\ net' \in NetStates \ {net}
  /\ pending' = pending + 1
  /\ UNCHANGED <<autoConnect, prompt, supported, pc, info, started, service, threads, 
                 shell, clients, history>>

\* loadModules(), when the service is created, gives su "modprobe": the modules are
\* loaded at some time, or never.  None is unloaded.
loadModules ==
  /\ ~supported
  /\ supported' = TRUE
  /\ UNCHANGED <<net, pending, autoConnect, prompt, pc, info, started, service,
                 threads, shell, clients, history>>

ServiceKilled ==
  /\ deaths < MaxDeaths
  /\ ServiceEnds

-----------------------------------------------------------------------------
Serve(c) ==
  newMonitor(c) \/ startMonitor(c) \/ startMonitorTwice(c) \/ Stopped(c)

UiThread   == Serve("ui") \/ refreshUI("refresh")
MainThread == Serve("main") \/ onStartCommand \/ stateChanged \/ dialogRefused
Monitor(m) == monitorStarts(m) \/ monitorPoll(m) \/ monitorCompare(m)
Shell(c)   == getPid(c) \/ runKill(c) \/ runStart(c)

Next ==
  \/ startStopGogoc \/ Quit \/ refreshUI("idle")
  \/ UiThread \/ MainThread
  \/ \E m \in MonitorIds : Monitor(m)
  \/ \E c \in Callers : Shell(c)
  \/ \E p \in clients : clientExits(p)
  \/ onReceive \/ loadModules \/ ServiceKilled

\* Threads are scheduled, and the root shell runs what it is given.
Fairness ==
  /\ WF_vars(UiThread)
  /\ WF_vars(MainThread)
  /\ \A m \in MonitorIds : WF_vars(Monitor(m))
  /\ \A c \in Callers : WF_vars(Shell(c))

Spec == Init /\ [][Next]_vars /\ Fairness

-----------------------------------------------------------------------------
(* Properties.                                                              *)

\* If the root shell is prompt and the service was never ended, one gogoc runs for
\* each of the two callers at most: the status is checked before every start, but
\* the callers may both do so before either starts.
ClientsBounded ==
  prompt /\ deaths = 0 => Cardinality(clients) <= Cardinality(Callers)

\* A monitor thread that was replaced ends.
ReplacedMonitorEnds ==
  \A m \in MonitorIds :
    monitors[m] \in {"loop", "sleep", "compare"} /\ monitorConnection # m
      ~> monitors[m] \notin {"loop", "sleep", "compare"} \/ monitorConnection = m

\* With auto_connect, a broadcast that the network is available starts gogoc, although
\* the service may be killed and the user may be using the button.  It takes a device
\* with tun and IPv6: without, a start ends with a dialog (GogoCtl.java:68-77), and the
\* modules, if they are loaded later, do not bring it back by themselves.
Reconnects ==
  autoConnect /\ supported /\ net = "connected" /\ pending > 0
    ~> clients # {} \/ net # "connected"

=============================================================================
