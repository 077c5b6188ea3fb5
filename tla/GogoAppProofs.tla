--------------------------- MODULE GogoAppProofs ---------------------------
(***************************************************************************)
(* The number of gogoc processes that the Android application can start,   *)
(* for any number of monitor threads, process identifiers and broadcasts.  *)
(***************************************************************************)
EXTENDS GogoApp, FiniteSetTheorems, TLAPS

-----------------------------------------------------------------------------
(* The inductive invariant.                                                 *)

\* The callers whose command, given to su, will start a gogoc.
Starting == {c \in Callers : su[c] = "start"}

\* What the shell is given, and the processes it has started.
ShellTypeOK ==
  /\ su \in [Callers -> {"none", "start", "getPid", "kill"}]
  /\ IsFiniteSet(clients)

\* Every gogoc that runs and every one that is about to has a caller of its own: one
\* is started where none was seen, and a caller waits for its own command.
OneEach == Cardinality(clients) + Cardinality(Starting) <= Cardinality(Callers)

IInv == ShellTypeOK /\ OneEach

-----------------------------------------------------------------------------
(* The callers.                                                             *)

\* There are finitely many, so a set of them is no larger than all of them.
LEMMA CallersFinite ==
  ASSUME NEW C \in SUBSET Callers
  PROVE  /\ IsFiniteSet(C) /\ IsFiniteSet(Callers)
         /\ Cardinality(C) \in Nat /\ Cardinality(Callers) \in Nat
         /\ Cardinality(C) <= Cardinality(Callers)
<1>1. IsFiniteSet(Callers)
  <2>1. IsFiniteSet({"ui"})
    BY FS_Singleton
  <2>2. Callers = {"ui"} \cup {"main"}
    BY DEF Callers
  <2> QED BY <2>1, <2>2, FS_AddElement
<1> QED BY <1>1, FS_Subset, FS_CardinalityType

\* A gogoc is about to be started where none runs.
LEMMA StartWhereNone ==
  ASSUME IInv, NEW c \in Callers, startGogoc(c), ~statusGogoc, UNCHANGED clients
  PROVE  IInv'
<1>1. su' \in [Callers -> {"none", "start", "getPid", "kill"}]
  BY DEF IInv, ShellTypeOK, startGogoc
<1>2. clients' = {} /\ Cardinality(clients') = 0
  BY FS_EmptySet DEF statusGogoc
<1>3. Starting' \in SUBSET Callers
  BY DEF Starting
<1>4. Cardinality(Starting') \in Nat /\ Cardinality(Starting') <= Cardinality(Callers)
  BY <1>3, CallersFinite
<1> QED BY <1>1, <1>2, <1>4 DEF IInv, ShellTypeOK, OneEach

\* Commands that are done or lost, and processes that end, free their callers.
LEMMA Fewer ==
  ASSUME IInv, clients' \subseteq clients,
         su' \in [Callers -> {"none", "start", "getPid", "kill"}],
         \A c \in Callers : su'[c] = "start" => su[c] = "start"
  PROVE  IInv'
<1>1. Starting' \subseteq Starting /\ Starting \in SUBSET Callers
  BY DEF Starting
<1>2. IsFiniteSet(Starting) /\ Cardinality(Starting) \in Nat /\ Cardinality(Callers) \in Nat
  BY <1>1, CallersFinite
<1>3. Cardinality(Starting') \in Nat /\ Cardinality(Starting') <= Cardinality(Starting)
  BY <1>1, <1>2, FS_Subset, FS_CardinalityType
<1>4. IsFiniteSet(clients)
  BY DEF IInv, ShellTypeOK
<1>5. /\ IsFiniteSet(clients')
      /\ Cardinality(clients') \in Nat /\ Cardinality(clients) \in Nat
      /\ Cardinality(clients') <= Cardinality(clients)
  BY <1>4, FS_Subset, FS_CardinalityType
<1> QED BY <1>2, <1>3, <1>5 DEF IInv, ShellTypeOK, OneEach

\* The shell executes gogoc: the caller's command becomes a process.
LEMMA Started ==
  ASSUME IInv, NEW c \in Callers, runStart(c)
  PROVE  IInv'
<1>1. PICK pid : clients' = clients \cup {pid}
  BY DEF runStart
<1>2. su[c] = "start" /\ su' = [su EXCEPT ![c] = "none"]
  BY DEF runStart
<1>3. su' \in [Callers -> {"none", "start", "getPid", "kill"}]
  BY <1>2 DEF IInv, ShellTypeOK
<1>4. Starting' = Starting \ {c} /\ c \in Starting /\ Starting \in SUBSET Callers
  BY <1>2 DEF IInv, ShellTypeOK, Starting
<1>5. /\ IsFiniteSet(Starting) /\ Cardinality(Starting) \in Nat
      /\ Cardinality(Callers) \in Nat
  BY <1>4, CallersFinite
<1>6. Cardinality(Starting') = Cardinality(Starting) - 1
  BY <1>4, <1>5, FS_RemoveElement
<1>7. IsFiniteSet(clients)
  BY DEF IInv, ShellTypeOK
<1>8. /\ IsFiniteSet(clients') /\ Cardinality(clients) \in Nat /\ Cardinality(clients') \in Nat
      /\ Cardinality(clients') <= Cardinality(clients) + 1
  <2>1. Cardinality(clients) \in Nat
    BY <1>7, FS_CardinalityType
  <2>2. /\ IsFiniteSet(clients \cup {pid})
        /\ Cardinality(clients \cup {pid}) =
             IF pid \in clients THEN Cardinality(clients) ELSE Cardinality(clients) + 1
    BY <1>7, FS_AddElement
  <2> QED BY <1>1, <2>1, <2>2
<1> QED BY <1>3, <1>5, <1>6, <1>8 DEF IInv, ShellTypeOK, OneEach

-----------------------------------------------------------------------------
(* Theorems.                                                                *)

\* The invariant, from the initial states on.
THEOREM Invariance == Spec => []IInv
<1>1. Init => IInv
  <2> SUFFICES ASSUME Init PROVE IInv
    OBVIOUS
  <2>1. su \in [Callers -> {"none", "start", "getPid", "kill"}] /\ clients = {}
    BY DEF Init
  <2>2. Starting = {}
    BY DEF Init, Starting
  <2>3. Cardinality(Callers) \in Nat
    BY CallersFinite
  <2>4. IsFiniteSet({}) /\ Cardinality({}) = 0
    BY FS_EmptySet
  <2> QED BY <2>1, <2>2, <2>3, <2>4 DEF IInv, ShellTypeOK, OneEach
<1>2. IInv /\ [Next]_vars => IInv'
  <2> SUFFICES ASSUME IInv, [Next]_vars PROVE IInv'
    OBVIOUS
  <2> USE DEF network, service, threads, shell, history
  <2>t. su \in [Callers -> {"none", "start", "getPid", "kill"}]
    BY DEF IInv, ShellTypeOK
  <2>u. "ui" \in Callers /\ "main" \in Callers
    BY DEF Callers
  <2>f. ASSUME clients' \subseteq clients, su' = su PROVE IInv'
    BY <2>t, <2>f, Fewer
  <2>g. ASSUME NEW c \in Callers, NEW place, stopGogoc(c, place), UNCHANGED clients PROVE IInv'
    BY <2>t, <2>g, Fewer DEF stopGogoc
  <2>1. CASE startStopGogoc
    BY <2>1, <2>f, <2>g, <2>u, StartWhereNone DEF startStopGogoc, startUnsupported
  <2>2. CASE Quit
    BY <2>2, <2>g, <2>u DEF Quit
  <2>3. CASE refreshUI("idle") \/ refreshUI("refresh")
    BY <2>3, <2>f DEF refreshUI
  <2>4. ASSUME NEW c \in Callers, newMonitor(c) PROVE IInv'
    BY <2>4, <2>f DEF newMonitor
  <2>5. ASSUME NEW c \in Callers, startMonitor(c) PROVE IInv'
    BY <2>5, <2>f DEF startMonitor
  <2>6. ASSUME ServiceEnds PROVE IInv'
    <3>1. PICK lost \in SUBSET Callers :
            su' = [c \in Callers |-> IF su[c] = "getPid" \/ c \in lost THEN "none" ELSE su[c]]
      BY <2>6 DEF ServiceEnds
    <3>2. /\ su' \in [Callers -> {"none", "start", "getPid", "kill"}]
          /\ \A c \in Callers : su'[c] = "start" => su[c] = "start"
      BY <2>t, <3>1
    <3> QED BY <2>6, <3>2, Fewer DEF ServiceEnds
  <2>7. ASSUME NEW c \in Callers, startMonitorTwice(c) PROVE IInv'
    BY <2>6, <2>7, <2>f DEF startMonitorTwice
  <2>8. ASSUME NEW c \in Callers, Stopped(c) PROVE IInv'
    BY <2>8, <2>f DEF Stopped
  <2>9. CASE onStartCommand
    BY <2>9, <2>f DEF onStartCommand
  <2>10. CASE stateChanged
    BY <2>10, <2>f, <2>g, <2>u, StartWhereNone DEF stateChanged, startUnsupported, MustStart
  <2>11. ASSUME NEW m \in MonitorIds, Monitor(m) PROVE IInv'
    BY <2>11, <2>f DEF Monitor, monitorStarts, monitorPoll, monitorCompare
  <2>12. ASSUME NEW c \in Callers, getPid(c) PROVE IInv'
    BY <2>t, <2>12, Fewer DEF getPid
  <2>13. ASSUME NEW c \in Callers, runKill(c) PROVE IInv'
    BY <2>t, <2>13, Fewer DEF runKill
  <2>14. ASSUME NEW c \in Callers, runStart(c) PROVE IInv'
    BY <2>14, Started
  <2>15. ASSUME NEW p \in clients, clientExits(p) PROVE IInv'
    BY <2>15, <2>f DEF clientExits
  <2>16. CASE onReceive
    BY <2>16, <2>f DEF onReceive
  <2>17. CASE ServiceKilled
    BY <2>6, <2>17 DEF ServiceKilled
  <2>18. CASE dialogRefused
    BY <2>6, <2>18 DEF dialogRefused
  <2>19. CASE loadModules
    BY <2>19, <2>f DEF loadModules
  <2>20. CASE UNCHANGED vars
    BY <2>20, <2>f DEF vars
  <2> QED
    BY <2>1, <2>2, <2>3, <2>4, <2>5, <2>7, <2>8, <2>9, <2>10, <2>11, <2>12, <2>13,
       <2>14, <2>15, <2>16, <2>17, <2>18, <2>19, <2>20, <2>u
       DEF Next, UiThread, MainThread, Serve, Shell
<1> QED BY <1>1, <1>2, PTL DEF Spec

\* One gogoc runs for each caller at most, whatever the threads of the service, its
\* ends and the shell do.
THEOREM ClientsBoundedCorrect == Spec => []ClientsBounded
<1>1. IInv => ClientsBounded
  <2> SUFFICES ASSUME IInv PROVE Cardinality(clients) <= Cardinality(Callers)
    BY DEF ClientsBounded
  <2>1. Starting \in SUBSET Callers
    BY DEF Starting
  <2>2. Cardinality(Starting) \in Nat /\ Cardinality(Callers) \in Nat
    BY <2>1, CallersFinite
  <2>3. Cardinality(clients) \in Nat
    BY FS_CardinalityType DEF IInv, ShellTypeOK
  <2> QED BY <2>2, <2>3 DEF IInv, OneEach
<1> QED BY <1>1, Invariance, PTL
=============================================================================
