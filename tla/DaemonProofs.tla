---------------------------- MODULE DaemonProofs ----------------------------
(***************************************************************************)
(* Proofs about the daemon as a program on disk and as processes: Renew and, *)
(* as the instance Process, DaemonProcess, where an update ends.            *)
(*                                                                         *)
(* Renew, for every fleet, every set of builds and any number of faults: a  *)
(* daemon's executable is always a whole build for its platform (ExeWhole),  *)
(* and one is always left to go back to (Recoverable). The invariant follows *)
(* the hash: what a peer tells as its hash is a whole build for the asking   *)
(* node's platform (TargetWhole), and only what equals that hash gets past   *)
(* the verification (StagedVerified). On Windows the file moved away stays   *)
(* until the restart is over (OldKept).                                     *)
(*                                                                         *)
(* DaemonProcess, for any number of processes and invocations: a TUI finds a *)
(* daemon (TuiConnected), because a start that fails has lost the port to    *)
(* one that serves (Undisturbed).                                           *)
(***************************************************************************)
EXTENDS Renew, DaemonProcess, TLAPS

(* f is a whole build for the platform of n. *)
WholeFor(n, f) == \E b \in Build : f = Whole(b) /\ Target[b] = Platform[n]

Steps == {"idle", "ask", "load", "verify", "apply", "moved", "restart"}

Shape ==
    /\ running \in [Node -> Build \cup {None}]
    /\ pc \in [Node -> Steps]
    /\ todo \in [Node -> SUBSET Node]
    /\ DOMAIN exe = Node /\ DOMAIN old = Node
    /\ DOMAIN target = Node /\ DOMAIN staged = Node

(* A daemon that runs is of its platform; one that is down is at no step. *)
RunsOwn(n) ==
    /\ running[n] # None => Target[running[n]] = Platform[n]
    /\ running[n] = None => pc[n] = "idle"

FileWhole(n) ==
    \/ WholeFor(n, exe[n])
    \/ exe[n] = None /\ WholeFor(n, old[n])

TargetWhole(n) ==
    pc[n] \in {"load", "verify", "apply", "moved", "restart"} => WholeFor(n, target[n])

StagedVerified(n) == pc[n] \in {"apply", "moved", "restart"} => staged[n] = target[n]

OldKept(n) ==
    pc[n] = "moved" \/ (pc[n] = "restart" /\ Platform[n] \in Windows) => WholeFor(n, old[n])

InPlace(n) == pc[n] = "restart" => WholeFor(n, exe[n])

NodeInv(n) ==
    /\ RunsOwn(n) /\ FileWhole(n) /\ TargetWhole(n) /\ StagedVerified(n)
    /\ OldKept(n) /\ InPlace(n)

Inv == Shape /\ \A n \in Node : NodeInv(n)

-----------------------------------------------------------------------------
(* A file is the whole of one build only: its chunks carry the build's name. *)
LEMMA WholeInjective ==
    ASSUME NEW b \in Build, NEW c \in Build, Whole(b) = Whole(c)
    PROVE  b = c
<1>1. 1 \in 1..Size[b] /\ 1 \in 1..Size[c]
  BY RenewAssumption
<1>2. Whole(b)[1] = <<b, 1>> /\ Whole(c)[1] = <<c, 1>>
  BY <1>1 DEF Whole
<1> QED
  BY <1>2

(* A whole build for n's platform starts as a daemon of that platform. *)
LEMMA StartedOwn ==
    ASSUME NEW n \in Node, NEW f, WholeFor(n, f)
    PROVE  Started(f) \in Build /\ Target[Started(f)] = Platform[n]
<1>1. PICK b \in Build : f = Whole(b) /\ Target[b] = Platform[n]
  BY DEF WholeFor
<1>2. \E c \in Build : f = Whole(c)
  BY <1>1
<1>3. Started(f) = CHOOSE c \in Build : f = Whole(c)
  BY <1>2 DEF Started
<1>4. Started(f) \in Build /\ f = Whole(Started(f))
  BY <1>2, <1>3
<1>5. Started(f) = b
  BY <1>1, <1>4, WholeInjective
<1> QED
  BY <1>1, <1>5

LEMMA InitInv == Init => Inv
<1> SUFFICES ASSUME Init PROVE Inv
  OBVIOUS
<1>1. running \in [Node -> Build] /\ \A n \in Node : Target[running[n]] = Platform[n]
  BY DEF Init
<1>2. Shape
  BY <1>1 DEF Init, Shape, Steps
<1>3. ASSUME NEW n \in Node PROVE NodeInv(n)
  <2>1. WholeFor(n, exe[n])
    BY <1>1 DEF Init, WholeFor
  <2>2. pc[n] = "idle" /\ running[n] # None
    BY <1>1, RenewAssumption DEF Init
  <2> QED
    BY <1>1, <2>1, <2>2 DEF NodeInv, RunsOwn, FileWhole, TargetWhole, StagedVerified, OldKept, InPlace
<1> QED
  BY <1>2, <1>3 DEF Inv

-----------------------------------------------------------------------------
(* What a step of n does to the others: nothing. *)
Same(m) ==
    /\ fleet' = fleet
    /\ exe'[m] = exe[m] /\ old'[m] = old[m] /\ running'[m] = running[m] /\ pc'[m] = pc[m]
    /\ target'[m] = target[m] /\ staged'[m] = staged[m]

LEMMA OthersSame ==
    ASSUME Shape, NEW n \in Node, Step(n) \/ Crash(n) \/ Start(n)
    PROVE  Shape' /\ \A m \in Node \ {n} : Same(m)
<1> USE DEF Shape, Same, Files, Load, Goto, Leave, Steps
<1>1. CASE Step(n)
  <2>0. fleet' = fleet
    BY <1>1 DEF Step
  <2>1. CASE Check(n)
    BY <2>0, <2>1 DEF Check
  <2>2. CASE Ask(n)
    BY <2>0, <2>2 DEF Ask
  <2>3. CASE AskFails(n)
    BY <2>0, <2>3 DEF AskFails, AfterSilence
  <2>4. CASE AllAsked(n)
    BY <2>0, <2>4 DEF AllAsked
  <2>5. CASE LoadChunk(n)
    BY <2>0, <2>5 DEF LoadChunk
  <2>6. CASE LoadFails(n)
    BY <2>0, <2>6 DEF LoadFails
  <2>7. CASE Verify(n)
    BY <2>0, <2>7 DEF Verify
  <2>8. CASE Replace(n)
    BY <2>0, <2>8 DEF Replace
  <2>9. CASE MoveAway(n)
    BY <2>0, <2>9 DEF MoveAway
  <2>10. CASE MoveIn(n)
    BY <2>0, <2>10 DEF MoveIn
  <2>11. CASE ApplyFails(n)
    BY <2>0, <2>11 DEF ApplyFails
  <2>12. CASE Restart(n)
    <3>1. Started(exe[n]) \in Build \cup {None}
      BY DEF Started
    <3> QED
      BY <2>0, <2>12, <3>1 DEF Restart
  <2>13. CASE RestartFails(n)
    BY <2>0, <2>13 DEF RestartFails
  <2> QED
    BY <1>1, <2>1, <2>2, <2>3, <2>4, <2>5, <2>6, <2>7, <2>8, <2>9, <2>10, <2>11, <2>12, <2>13
       DEF Step
<1>2. CASE Crash(n)
  BY <1>2 DEF Crash
<1>3. CASE Start(n)
  <2>1. Started(exe[n]) \in Build \cup {None}
    BY DEF Started
  <2> QED
    BY <1>3, <2>1 DEF Start
<1> QED
  BY <1>1, <1>2, <1>3

LEMMA SameInv ==
    ASSUME NEW m \in Node, NodeInv(m), Same(m)
    PROVE  NodeInv(m)'
  BY DEF NodeInv, Same, RunsOwn, FileWhole, TargetWhole, StagedVerified, OldKept, InPlace, WholeFor,
         Platform

-----------------------------------------------------------------------------
(* Leaving a check takes nothing that the invariant asks for. *)
LEMMA LeaveInv ==
    ASSUME Shape, NEW n \in Node, RunsOwn(n)', FileWhole(n)', Leave(n)
    PROVE  NodeInv(n)'
<1>1. pc'[n] = "idle"
  BY DEF Leave, Goto, Shape
<1> QED
  BY <1>1 DEF NodeInv, TargetWhole, StagedVerified, OldKept, InPlace

(* n's own step. *)
LEMMA OwnStep ==
    ASSUME Inv, NEW n \in Node, Step(n)
    PROVE  NodeInv(n)'
<1>0. fleet' = fleet /\ Shape /\ NodeInv(n) /\ Platform' = Platform
  BY DEF Step, Inv, Platform
<1>a. \A f : WholeFor(n, f)' <=> WholeFor(n, f)
  BY <1>0 DEF WholeFor
<1>b. UNCHANGED <<Files, running>> => RunsOwn(n)' \/ pc'[n] # pc[n]
  BY <1>0 DEF NodeInv, RunsOwn, Files
<1>c. UNCHANGED Files => FileWhole(n)'
  BY <1>0, <1>a DEF NodeInv, FileWhole, Files
<1>d. running'[n] = running[n] /\ Leave(n) => RunsOwn(n)'
  BY <1>0 DEF NodeInv, RunsOwn, Leave, Goto, Shape
<1>e. running'[n] = running[n] /\ UNCHANGED Files /\ Leave(n) => NodeInv(n)'
  BY <1>0, <1>c, <1>d, LeaveInv
<1>1. CASE Check(n)
  <2>1. running[n] # None /\ pc'[n] = "ask" /\ UNCHANGED <<Files, running>>
    BY <1>0, <1>1 DEF Check, Goto, Shape
  <2> QED
    BY <1>0, <1>c, <2>1 DEF NodeInv, RunsOwn, TargetWhole, StagedVerified, OldKept, InPlace
<1>2. CASE Ask(n)
  <2>1. PICK p \in todo[n] :
          /\ running[p] # None /\ exe[p] # None
          /\ IF IsCompatible(Current(p), Local(n)) /\ IsNewer(Current(p), Local(n))
             THEN /\ target' = [target EXCEPT ![n] = exe[p]]
                  /\ Goto(n, "load")
             ELSE UNCHANGED <<pc, Load>>
    BY <1>2 DEF Ask
  <2>2. p \in Node /\ NodeInv(p)
    BY <1>0 DEF Shape, Inv
  <2>3. UNCHANGED <<Files, running>> /\ pc[n] = "ask" /\ running[n] # None
    BY <1>0, <1>2 DEF Ask, NodeInv, RunsOwn
  <2>4. CASE UNCHANGED <<pc, Load>>
    BY <1>0, <1>c, <2>3, <2>4 DEF NodeInv, RunsOwn, TargetWhole, StagedVerified, OldKept, InPlace
  <2>5. CASE /\ IsCompatible(Current(p), Local(n))
             /\ target' = [target EXCEPT ![n] = exe[p]]
             /\ Goto(n, "load")
    <3>1. WholeFor(p, exe[p])
      BY <2>1, <2>2 DEF NodeInv, FileWhole
    <3>2. Platform[p] = Platform[n]
      BY <1>0, <2>1, <2>2, <2>3, <2>5 DEF IsCompatible, Current, Local, NodeInv, RunsOwn
    <3>3. WholeFor(n, exe[p])
      BY <3>1, <3>2 DEF WholeFor
    <3>4. pc'[n] = "load" /\ target'[n] = exe[p]
      BY <1>0, <2>5 DEF Goto, Shape
    <3>5. TargetWhole(n)'
      BY <1>a, <3>3, <3>4 DEF TargetWhole
    <3> QED
      BY <1>0, <1>c, <2>3, <3>4, <3>5 DEF NodeInv, RunsOwn, StagedVerified, OldKept, InPlace
  <2> QED
    BY <2>1, <2>4, <2>5
<1>3. CASE AskFails(n)
  BY <1>0, <1>a, <1>3 DEF AskFails, Files, Load, NodeInv, RunsOwn, FileWhole, TargetWhole,
                          StagedVerified, OldKept, InPlace
<1>4. CASE AllAsked(n)
  BY <1>4, <1>e DEF AllAsked
<1>5. CASE LoadChunk(n)
  <2>1. pc[n] = "load" /\ pc'[n] \in {"load", "verify"} /\ UNCHANGED <<Files, running, target>>
    BY <1>0, <1>5 DEF LoadChunk, Goto, Shape
  <2> QED
    BY <1>0, <1>a, <1>c, <2>1 DEF NodeInv, RunsOwn, TargetWhole, StagedVerified, OldKept, InPlace
<1>6. CASE LoadFails(n)
  BY <1>6, <1>e DEF LoadFails
<1>7. CASE Verify(n)
  <2>1. CASE Verified(n) /\ Goto(n, "apply") /\ UNCHANGED <<todo, Load>>
    <3>1. /\ pc[n] = "verify" /\ pc'[n] = "apply" /\ UNCHANGED <<Files, running, target, staged>>
          /\ staged[n] = target[n]
      BY <1>0, <1>7, <2>1 DEF Verify, Verified, Goto, Shape, Load
    <3> QED
      BY <1>0, <1>a, <1>c, <3>1 DEF NodeInv, RunsOwn, TargetWhole, StagedVerified, OldKept, InPlace
  <2> QED
    BY <1>7, <1>e, <2>1 DEF Verify
<1>8. CASE Replace(n)
  <2>1. /\ pc[n] = "apply" /\ pc'[n] = "restart" /\ Platform[n] \notin Windows
        /\ exe'[n] = staged[n] /\ UNCHANGED <<old, running, target, staged>>
    BY <1>0, <1>8 DEF Replace, Goto, Shape, Load
  <2>2. WholeFor(n, staged[n])
    BY <1>0, <2>1 DEF NodeInv, TargetWhole, StagedVerified
  <2> QED
    BY <1>0, <1>a, <2>1, <2>2 DEF NodeInv, RunsOwn, FileWhole, TargetWhole, StagedVerified, OldKept, InPlace
<1>9. CASE MoveAway(n)
  <2>1. /\ pc[n] = "apply" /\ pc'[n] = "moved" /\ exe[n] # None
        /\ exe'[n] = None /\ old'[n] = exe[n] /\ UNCHANGED <<running, target, staged>>
    BY <1>0, <1>9 DEF MoveAway, Goto, Shape, Load
  <2>2. WholeFor(n, exe[n])
    BY <1>0, <2>1 DEF NodeInv, FileWhole
  <2> QED
    BY <1>0, <1>a, <2>1, <2>2 DEF NodeInv, RunsOwn, FileWhole, TargetWhole, StagedVerified, OldKept, InPlace
<1>10. CASE MoveIn(n)
  <2>1. /\ pc[n] = "moved" /\ pc'[n] = "restart"
        /\ exe'[n] = staged[n] /\ UNCHANGED <<old, running, target, staged>>
    BY <1>0, <1>10 DEF MoveIn, Goto, Shape, Load
  <2>2. WholeFor(n, staged[n])
    BY <1>0, <2>1 DEF NodeInv, TargetWhole, StagedVerified
  <2> QED
    BY <1>0, <1>a, <2>1, <2>2 DEF NodeInv, RunsOwn, FileWhole, TargetWhole, StagedVerified, OldKept, InPlace
<1>11. CASE ApplyFails(n)
  BY <1>11, <1>e DEF ApplyFails
<1>12. CASE Restart(n)
  <2>1. pc[n] = "restart" /\ running'[n] = Started(exe[n]) /\ Leave(n) /\ UNCHANGED Files
    BY <1>0, <1>12 DEF Restart, Shape
  <2>2. pc'[n] = "idle"
    BY <1>0, <2>1 DEF Leave, Goto, Shape
  <2>3. WholeFor(n, exe[n]) => RunsOwn(n)'
    BY <1>0, <2>1, <2>2, StartedOwn DEF RunsOwn
  <2>4. WholeFor(n, exe[n])
    BY <1>0, <2>1 DEF NodeInv, InPlace
  <2> QED
    BY <1>0, <1>c, <2>1, <2>3, <2>4, LeaveInv
<1>13. CASE RestartFails(n)
  <2>1. pc[n] = "restart" /\ running' = running /\ Leave(n)
    BY <1>13 DEF RestartFails
  <2>2. FileWhole(n)'
    <3>1. CASE Platform[n] \in Windows
      <4>1. exe'[n] = old[n] /\ WholeFor(n, old[n])
        BY <1>0, <1>13, <2>1, <3>1 DEF RestartFails, Shape, NodeInv, OldKept
      <4> QED
        BY <1>a, <4>1 DEF FileWhole
    <3>2. CASE Platform[n] \notin Windows
      BY <1>13, <1>c, <3>2 DEF RestartFails
    <3> QED
      BY <3>1, <3>2
  <2> QED
    BY <1>0, <1>d, <2>1, <2>2, LeaveInv
<1> QED
  BY <1>1, <1>2, <1>3, <1>4, <1>5, <1>6, <1>7, <1>8, <1>9, <1>10, <1>11, <1>12, <1>13 DEF Step

(* n is stopped, or started by its user. *)
LEMMA UserStep ==
    ASSUME Inv, NEW n \in Node, Crash(n) \/ Start(n)
    PROVE  NodeInv(n)'
<1>0. fleet' = fleet /\ UNCHANGED Files /\ Shape /\ NodeInv(n)
  BY DEF Crash, Start, Inv
<1>1. FileWhole(n)'
  BY <1>0 DEF NodeInv, FileWhole, WholeFor, Platform, Files
<1>2. CASE Crash(n)
  <2>1. running'[n] = None /\ pc'[n] = "idle" /\ Leave(n)
    BY <1>0, <1>2 DEF Crash, Leave, Goto, Shape
  <2>2. RunsOwn(n)'
    BY <2>1 DEF RunsOwn
  <2> QED
    BY <1>0, <1>1, <2>1, <2>2, LeaveInv
<1>3. CASE Start(n)
  <2>1. /\ exe[n] # None /\ running'[n] = Started(exe[n])
        /\ pc[n] = "idle" /\ pc'[n] = "idle"
    BY <1>0, <1>3 DEF Start, NodeInv, RunsOwn, Shape
  <2>2. WholeFor(n, exe[n])
    BY <1>0, <2>1 DEF NodeInv, FileWhole
  <2>3. RunsOwn(n)'
    BY <1>0, <2>1, <2>2, StartedOwn DEF RunsOwn, Platform
  <2> QED
    BY <1>1, <2>1, <2>3 DEF NodeInv, TargetWhole, StagedVerified, OldKept, InPlace
<1> QED
  BY <1>2, <1>3

LEMMA StepInv == Inv /\ [Next]_vars => Inv'
<1> SUFFICES ASSUME Inv, [Next]_vars PROVE Inv'
  OBVIOUS
<1>1. CASE UNCHANGED vars
  <2>1. Shape' /\ \A m \in Node : Same(m)
    BY <1>1 DEF Inv, Shape, Same, vars
  <2> QED
    BY <2>1, SameInv DEF Inv
<1>2. CASE Next
  <2>1. PICK n \in Node : Step(n) \/ Crash(n) \/ Start(n)
    BY <1>2 DEF Next
  <2>2. Shape' /\ \A m \in Node \ {n} : NodeInv(m)'
    BY <2>1, OthersSame, SameInv DEF Inv
  <2>3. NodeInv(n)'
    BY <2>1, OwnStep, UserStep
  <2> QED
    BY <2>2, <2>3 DEF Inv
<1> QED
  BY <1>1, <1>2

THEOREM Invariant == Spec => []Inv
  BY InitInv, StepInv, PTL DEF Spec

(* The executable a daemon is started from is a whole build for its          *)
(* platform, for any fleet and any interleaving of updates.                 *)
THEOREM ExecutablesWhole == Spec => []ExeWhole
<1>1. Inv => ExeWhole
  BY DEF Inv, NodeInv, FileWhole, WholeFor, ExeWhole
<1> QED
  BY <1>1, Invariant, PTL

(* There is always a whole build to go back to, also between the two renames *)
(* on Windows and after any of them failed.                                 *)
THEOREM AlwaysRecoverable == Spec => []Recoverable
<1>1. Inv => Recoverable
  BY DEF Inv, NodeInv, FileWhole, WholeFor, Recoverable
<1> QED
  BY <1>1, Invariant, PTL

-----------------------------------------------------------------------------
(* While no daemon has been ended or updated, one that has the port serves,  *)
(* a TUI that connects has seen one, and for a TUI that waits one serves or  *)
(* is coming up.                                                           *)
Undisturbed ==
    /\ \A p \in Pid : at[p] \in {"unused", "spawned", "up", "serving", "gone"}
    /\ ipcPort # NoPid => ipcPort \in Pid /\ at[ipcPort] = "serving"
    /\ \A l \in Launcher : step[l] # "offline"
    /\ \A l \in Launcher : step[l] = "connecting" => Answers
    /\ \A l \in Launcher :
          step[l] = "waiting" => Answers \/ \E p \in Pid : Starting(p)

ProcessInv ==
    /\ DOMAIN at = Pid /\ DOMAIN step = Launcher
    /\ happened = {} => Undisturbed

LEMMA ProcessInvInit == ProcessInit => ProcessInv
  BY DEF ProcessInit, NoPid, ProcessInv, Undisturbed

LEMMA PidIsSome == \A p \in Pid : p # NoPid
  BY DEF Pid, NoPid

(* The steps of the daemons, none of which can end one that serves. *)
LEMMA DaemonInv ==
    ASSUME ProcessInv, happened = {}, NEW p \in Pid, Daemon(p)
    PROVE  ProcessInv'
<1>0. DOMAIN at = Pid /\ DOMAIN step = Launcher /\ Undisturbed
  BY DEF ProcessInv
<1>1. CASE StartP2P(p)
  <2>1. /\ at[p] = "spawned" /\ at' = [at EXCEPT ![p] = "up"]
        /\ ipcPort' = ipcPort /\ step' = step
    BY <1>1 DEF StartP2P, Moves, portVars, launcherVars
  <2> QED
    BY <1>0, <2>1 DEF ProcessInv, Undisturbed, Answers, Starting
<1>2. CASE BindBlocks(p)
  <2>1. at' = at /\ ipcPort' = ipcPort /\ step' = step
    BY <1>2 DEF BindBlocks, launcherVars
  <2> QED
    BY <1>0, <2>1 DEF ProcessInv, Undisturbed, Answers, Starting
<1>3. CASE BindIpc(p)
  <2>1. at[p] = "up" /\ at' = [at EXCEPT ![p] = "serving"] /\ ipcPort' = p /\ step' = step
    BY <1>3 DEF BindIpc, Moves, launcherVars
  <2> QED
    BY <1>0, <2>1, PidIsSome DEF ProcessInv, Undisturbed, Answers
<1>4. CASE BindIpcFails(p)
  <2>1. at[p] = "up" /\ ipcPort # NoPid /\ at' = [at EXCEPT ![p] = "gone"] /\ step' = step
        /\ ipcPort' = IF ipcPort = p THEN NoPid ELSE ipcPort
    BY <1>4 DEF BindIpcFails, CannotServe, Exit, Moves,
                Free, launcherVars
  <2>2. ipcPort # p
    BY <1>0, <2>1 DEF Undisturbed
  <2> QED
    BY <1>0, <2>1, <2>2 DEF ProcessInv, Undisturbed, Answers
<1>5. ~ ExitAfterShutdown(p) /\ ~ ExitReplaced(p)
  BY <1>0 DEF Undisturbed, ExitAfterShutdown, ExitReplaced
<1> QED
  BY <1>1, <1>2, <1>3, <1>4, <1>5 DEF Daemon

(* The steps of the invocations. *)
LEMMA InvocationInv ==
    ASSUME ProcessInv, happened = {}, NEW l \in Launcher, Invocation(l), happened' = {}
    PROVE  ProcessInv'
<1>0. DOMAIN at = Pid /\ DOMAIN step = Launcher /\ Undisturbed
  BY DEF ProcessInv
<1>1. CASE Probe(l)
  <2>1. /\ at' = at /\ ipcPort' = ipcPort
        /\ \E s : step' = [step EXCEPT ![l] = s] /\ s \in {"connecting", "done", "spawning"}
                 /\ (s = "connecting" => Answers)
    BY <1>1 DEF Probe, Goes, daemonVars, portVars
  <2> QED
    BY <1>0, <2>1 DEF ProcessInv, Undisturbed, Answers, Starting
<1>2. CASE SpawnDaemon(l)
  <2>1. PICK p \in Pid : Spawn(p)
    BY <1>2 DEF SpawnDaemon
  <2>2. /\ at[p] = "unused" /\ at' = [at EXCEPT ![p] = "spawned"] /\ ipcPort' = ipcPort
        /\ \E s \in {"waiting", "done"} : step' = [step EXCEPT ![l] = s]
    BY <1>2, <2>1 DEF SpawnDaemon, Spawn, Moves, Goes, portVars
  <2>3. at'[p] = "spawned" /\ \A q \in Pid : q # p => at'[q] = at[q]
    BY <1>0, <2>2
  <2> QED
    BY <1>0, <2>2, <2>3 DEF ProcessInv, Undisturbed, Answers, Starting
<1>3. CASE WaitForDaemon(l)
  <2>1. /\ step[l] = "waiting" /\ at' = at /\ ipcPort' = ipcPort
        /\ step' = [step EXCEPT ![l] = "connecting"]
        /\ Answers \/ \A p \in Pid : ~ Starting(p)
    BY <1>3 DEF WaitForDaemon, GivesUp, Goes, daemonVars,
                portVars
  <2>2. Answers
    BY <1>0, <2>1 DEF Undisturbed
  <2> QED
    BY <1>0, <2>1, <2>2 DEF ProcessInv, Undisturbed, Answers, Starting
<1>4. CASE Connect(l)
  <2>1. /\ step[l] = "connecting" /\ at' = at /\ ipcPort' = ipcPort
    BY <1>4 DEF Connect, daemonVars, portVars
  <2>2. Answers
    BY <1>0, <2>1 DEF Undisturbed
  <2>3. step' = [step EXCEPT ![l] = "connected"]
    BY <1>4, <2>2 DEF Connect, Goes
  <2> QED
    BY <1>0, <2>1, <2>3 DEF ProcessInv, Undisturbed, Answers, Starting
<1>5. CASE Shutdown(l)
  <2>1. ~ Answers
    BY <1>5 DEF Shutdown
  <2>2. /\ at' = at /\ ipcPort' = ipcPort
        /\ \E s \in {"done", "spawning"} : step' = [step EXCEPT ![l] = s]
    BY <1>5, <2>1 DEF Shutdown, Goes, portVars
  <2> QED
    BY <1>0, <2>2 DEF ProcessInv, Undisturbed, Answers, Starting
<1>6. CASE Slept(l)
  <2>1. at' = at /\ ipcPort' = ipcPort /\ step' = [step EXCEPT ![l] = "spawning"]
    BY <1>6 DEF Slept, Goes, daemonVars, portVars
  <2> QED
    BY <1>0, <2>1 DEF ProcessInv, Undisturbed, Answers, Starting
<1> QED
  BY <1>1, <1>2, <1>3, <1>4, <1>5, <1>6 DEF Invocation

(* What has happened stays, and whatever ends or updates a daemon happens. *)
LEMMA ProcessHistory ==
    ASSUME ProcessInv, [ProcessNext]_processVars
    PROVE  /\ DOMAIN at' = Pid /\ DOMAIN step' = Launcher
           /\ happened' = {} =>
                 /\ happened = {}
                 /\ \/ UNCHANGED processVars
                    \/ \E p \in Pid : Daemon(p)
                    \/ \E l \in Launcher : Invocation(l)
<1>0. DOMAIN at = Pid /\ DOMAIN step = Launcher
  BY DEF ProcessInv
<1> USE DEF Moves, Goes, Exit, daemonVars, portVars,
            launcherVars
<1>1. ASSUME NEW p \in Pid, Daemon(p)
      PROVE  happened' = happened /\ DOMAIN at' = Pid /\ DOMAIN step' = Launcher
  BY <1>0, <1>1 DEF Daemon, StartP2P, BindBlocks, BindIpc,
       BindIpcFails, CannotServe, ExitAfterShutdown, ExitReplaced
<1>2. ASSUME NEW p \in Pid, Interrupt(p) \/ Kill(p) \/ Renew(p)
      PROVE  happened' # {} /\ DOMAIN at' = Pid /\ DOMAIN step' = Launcher
  BY <1>0, <1>2 DEF Interrupt, Kill, Renew
<1>3. ASSUME NEW l \in Launcher, Invocation(l)
      PROVE  happened \subseteq happened' /\ DOMAIN at' = Pid /\ DOMAIN step' = Launcher
  BY <1>0, <1>3 DEF Invocation, Probe, SpawnDaemon, Spawn,
       WaitForDaemon, Connect, Shutdown, Slept
<1>4. CASE UNCHANGED processVars
  BY <1>0, <1>4 DEF processVars
<1> QED
  BY <1>1, <1>2, <1>3, <1>4 DEF ProcessNext

LEMMA ProcessInvStep ==
    ASSUME ProcessInv, [ProcessNext]_processVars
    PROVE  ProcessInv'
<1> SUFFICES ASSUME happened' = {} PROVE ProcessInv'
  BY ProcessHistory DEF ProcessInv
<1>1. CASE UNCHANGED processVars
  BY <1>1 DEF ProcessInv, Undisturbed, Answers, Starting, processVars,
     daemonVars, portVars, launcherVars
<1> QED
  BY <1>1, ProcessHistory, DaemonInv, InvocationInv

(* A TUI is connected to a daemon, which it has started if need be, unless   *)
(* a daemon was ended or updated meanwhile: for any number of invocations    *)
(* and processes that race for the port.                                    *)
THEOREM TuiConnects == ProcessSpec => []TuiConnected
<1>1. ProcessInv => TuiConnected
  BY DEF ProcessInv, Undisturbed, TuiConnected
<1> QED
  BY <1>1, ProcessInvInit, ProcessInvStep, PTL DEF ProcessSpec
=============================================================================
