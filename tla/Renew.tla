------------------------------- MODULE Renew -------------------------------
(***************************************************************************)
(* Updating daemons from their peers (daemon/renew.rs, renew/version.rs,   *)
(* the two renew requests of p2p/service.rs).                              *)
(*                                                                         *)
(* Every renew_check_interval an enabled daemon asks its peers, one after  *)
(* the other, for the version they run; from the first that is "newer" it  *)
(* loads the executable in chunks, checks the hash it was told, puts the    *)
(* file in the place of its own and starts it. On Windows the own file is   *)
(* moved away first.                                                       *)
(*                                                                         *)
(* Abstractions: a file is the sequence of its chunks, <<build, index>>;   *)
(* a hash is the file it stands for. The .bak copy, which nothing reads,   *)
(* is left out. A daemon whose file is not the one it runs (a restart      *)
(* failed) may find that its own path is gone, as on Linux, or not.        *)
(***************************************************************************)
EXTENDS Naturals, Sequences, FiniteSets

CONSTANTS Node,
          Build,    (* builds of the daemon                                *)
          Size,     (* Size[b]: the chunks of build b, at least one        *)
          Released, (* Released[b]: when b was packaged                    *)
          Semver,   (* the builds whose version string parses as semver:   *)
                    (* build.rs formats it "V24-0131.1200", which does not *)
          Target,   (* Target[b]: the platform of build b                  *)
          Windows,  (* the platforms that are a Windows                    *)
          Fleets,   (* the fleets to look at: the platform of each node,   *)
                    (* the nodes with renew_enabled, what may fail         *)
          MaxFaults, (* bound on the faults                                 *)
          None

FaultKinds == {"request", "apply", "restart", "crash"}

Platforms == {Target[b] : b \in Build}

Fleet == [platform : [Node -> Platforms], enabled : SUBSET Node,
          faults : SUBSET FaultKinds]

ASSUME RenewAssumption ==
    /\ Size \in [Build -> Nat \ {0}]
    /\ Released \in [Build -> Nat]
    /\ Semver \subseteq Build
    /\ Fleets \subseteq Fleet
    /\ MaxFaults \in Nat
    /\ None \notin Build \cup Node

Whole(b) == [k \in 1..Size[b] |-> <<b, k>>]

VARIABLES
    fleet,   (* which fleet it is                                          *)
    exe,     (* exe[n]: the file the daemon is started from, or None       *)
    old,     (* old[n]: "<exe>.old", or None                               *)
    running, (* running[n]: the build n's daemon runs, None when down      *)
    pc,      (* pc[n]: the step of the check n is at                       *)
    todo,    (* todo[n]: the peers left to ask                             *)
    peer,    (* peer[n]: the peer n loads from                             *)
    target,  (* target[n]: the hash of the version that peer gave          *)
    staged,  (* staged[n]: what has been loaded                            *)
    faults

vars == <<fleet, exe, old, running, pc, todo, peer, target, staged, faults>>

Platform == fleet.platform

Init ==
    /\ fleet \in Fleets
    /\ running \in {r \in [Node -> Build] : \A n \in Node : Target[r[n]] = Platform[n]}
    /\ exe = [n \in Node |-> Whole(running[n])]
    /\ old = [n \in Node |-> None]
    /\ pc = [n \in Node |-> "idle"]
    /\ todo = [n \in Node |-> {}]
    /\ peer = [n \in Node |-> None]
    /\ target = [n \in Node |-> None]
    /\ staged = [n \in Node |-> <<>>]
    /\ faults = 0

Chunk == Build \X (Nat \ {0})

TypeOK ==
    /\ fleet \in Fleets
    /\ \A n \in Node : \A f \in {exe[n], old[n], target[n]} :
          f # None => f \in Seq(Chunk) /\ f # <<>>
    /\ running \in [Node -> Build \cup {None}]
    /\ pc \in [Node -> {"idle", "ask", "load", "verify", "apply", "moved", "restart"}]
    /\ todo \in [Node -> SUBSET Node]
    /\ peer \in [Node -> Node \cup {None}]
    /\ \A n \in Node : staged[n] \in Seq(Chunk)
    /\ \A n \in Node : running[n] = None => pc[n] = "idle"
    /\ \A n \in Node : pc[n] = "moved" => Platform[n] \in Windows /\ old[n] # None
    /\ faults \in 0..MaxFaults

-----------------------------------------------------------------------------
Files == <<exe, old>>
Load == <<peer, target, staged>>

Goto(n, where) == pc' = [pc EXCEPT ![n] = where]

(* The check is over; what it has gathered goes with it. *)
Leave(n) ==
    /\ Goto(n, "idle")
    /\ todo' = [todo EXCEPT ![n] = {}]
    /\ peer' = [peer EXCEPT ![n] = None]
    /\ target' = [target EXCEPT ![n] = None]
    /\ staged' = [staged EXCEPT ![n] = <<>>]

Fault(kind) == kind \in fleet.faults /\ faults < MaxFaults /\ faults' = faults + 1

(* n's daemon runs, and its own path leads to its file. *)
AtHome(n) == running[n] # None /\ exe[n] = Whole(running[n])

(* VersionInfo::current: the version compiled in, the hash of the file. *)
Current(n) == [version |-> running[n], hash |-> exe[n]]

(* What n compares with: its version info when it was started. *)
Local(n) == [version |-> running[n], hash |-> Whole(running[n])]

(* Both version strings parse and tell the two apart. *)
Ordered(i, j) ==
    {i.version, j.version} \subseteq Semver /\ Released[i.version] # Released[j.version]

(* is_newer_than: without two versions to compare, any other hash will do. *)
IsNewer(i, j) ==
    \/ Ordered(i, j) /\ Released[i.version] > Released[j.version]
    \/ ~Ordered(i, j) /\ i.hash # j.hash

IsCompatible(i, j) == Target[i.version] = Target[j.version]

(* The interval has passed. *)
Check(n) ==
    /\ pc[n] = "idle" /\ running[n] # None /\ n \in fleet.enabled
    /\ Node # {n}
    /\ todo' = [todo EXCEPT ![n] = Node \ {n}]
    /\ Goto(n, "ask")
    /\ UNCHANGED <<Files, running, Load, faults>>

(* The next peer tells its version. *)
Ask(n) ==
    /\ pc[n] = "ask"
    /\ \E p \in todo[n] :
        /\ running[p] # None /\ exe[p] # None
        /\ todo' = [todo EXCEPT ![n] = @ \ {p}]
        /\ IF IsCompatible(Current(p), Local(n)) /\ IsNewer(Current(p), Local(n))
           THEN /\ peer' = [peer EXCEPT ![n] = p]
                /\ target' = [target EXCEPT ![n] = exe[p]]
                /\ staged' = [staged EXCEPT ![n] = <<>>]
                /\ Goto(n, "load")
           ELSE UNCHANGED <<pc, Load>>
    /\ UNCHANGED <<Files, running, faults>>

(* Mutant: a peer that does not answer ends the check. *)
AfterSilence_endsCheck(n, p) == {}

AfterSilence(n, p) == todo[n] \ {p}

(* The next peer gives no answer, or an error: it is skipped. *)
AskFails(n) ==
    /\ pc[n] = "ask"
    /\ \E p \in todo[n] :
        /\ IF AtHome(p) THEN Fault("request") ELSE UNCHANGED faults
        /\ todo' = [todo EXCEPT ![n] = AfterSilence(n, p)]
    /\ UNCHANGED <<Files, running, pc, Load>>

AllAsked(n) ==
    /\ pc[n] = "ask" /\ todo[n] = {}
    /\ Leave(n)
    /\ UNCHANGED <<Files, running, faults>>

(* The peer sends the next chunk of the file it has now, or, beyond its     *)
(* end, nothing; the last chunk ends the load.                             *)
LoadChunk(n) ==
    LET f == exe[peer[n]]
        k == Len(staged[n]) + 1
    IN  /\ pc[n] = "load"
        /\ running[peer[n]] # None /\ f # None
        /\ staged' = [staged EXCEPT ![n] = IF k <= Len(f) THEN Append(@, f[k]) ELSE @]
        /\ IF k >= Len(f) THEN Goto(n, "verify") ELSE UNCHANGED pc
        /\ UNCHANGED <<Files, running, todo, peer, target, faults>>

(* A chunk does not come: the update is given up until the next check. *)
LoadFails(n) ==
    /\ pc[n] = "load"
    /\ IF AtHome(peer[n]) THEN Fault("request") ELSE UNCHANGED faults
    /\ Leave(n)
    /\ UNCHANGED <<Files, running>>

(* Mutant: the length is checked, not the hash. *)
Verified_length(n) == Len(staged[n]) = Len(target[n])

Verified(n) == staged[n] = target[n]

Verify(n) ==
    /\ pc[n] = "verify"
    /\ IF Verified(n) THEN Goto(n, "apply") /\ UNCHANGED <<todo, Load>> ELSE Leave(n)
    /\ UNCHANGED <<Files, running, faults>>

(* Elsewhere than on Windows one rename puts the new file in place. *)
Replace(n) ==
    /\ pc[n] = "apply" /\ Platform[n] \notin Windows
    /\ exe' = [exe EXCEPT ![n] = staged[n]]
    /\ Goto(n, "restart")
    /\ UNCHANGED <<old, running, todo, Load, faults>>

(* Mutant: the running file is removed, not moved. *)
MoveAway_removes(n) ==
    /\ pc[n] = "apply" /\ Platform[n] \in Windows /\ exe[n] # None
    /\ exe' = [exe EXCEPT ![n] = None]
    /\ old' = [old EXCEPT ![n] = None]
    /\ Goto(n, "moved")
    /\ UNCHANGED <<running, todo, Load, faults>>

(* Windows: any previous ".old" is removed, the running file becomes it. *)
MoveAway(n) ==
    /\ pc[n] = "apply" /\ Platform[n] \in Windows /\ exe[n] # None
    /\ exe' = [exe EXCEPT ![n] = None]
    /\ old' = [old EXCEPT ![n] = exe[n]]
    /\ Goto(n, "moved")
    /\ UNCHANGED <<running, todo, Load, faults>>

MoveIn(n) ==
    /\ pc[n] = "moved"
    /\ exe' = [exe EXCEPT ![n] = staged[n]]
    /\ Goto(n, "restart")
    /\ UNCHANGED <<old, running, todo, Load, faults>>

(* A copy, a permission or a rename fails: nothing is undone. *)
ApplyFails(n) ==
    /\ pc[n] \in {"apply", "moved"}
    /\ IF AtHome(n) \/ pc[n] = "moved" THEN Fault("apply") ELSE UNCHANGED faults
    /\ Leave(n)
    /\ UNCHANGED <<Files, running>>

(* The build a file is; a damaged one cannot be run. *)
Started(f) == IF \E b \in Build : f = Whole(b) THEN CHOOSE b \in Build : f = Whole(b) ELSE None

(* The file is executed in place of the daemon. *)
Restart(n) ==
    /\ pc[n] = "restart"
    /\ running' = [running EXCEPT ![n] = Started(exe[n])]
    /\ Leave(n)
    /\ UNCHANGED <<Files, faults>>

(* It cannot be executed: only Windows puts the old file back. *)
RestartFails(n) ==
    /\ pc[n] = "restart"
    /\ Fault("restart")
    /\ IF Platform[n] \in Windows
       THEN exe' = [exe EXCEPT ![n] = old[n]] /\ old' = [old EXCEPT ![n] = None]
       ELSE UNCHANGED Files
    /\ Leave(n)
    /\ UNCHANGED <<running>>

(* The daemon is stopped, or its machine. *)
Crash(n) ==
    /\ running[n] # None
    /\ Fault("crash")
    /\ running' = [running EXCEPT ![n] = None]
    /\ Leave(n)
    /\ UNCHANGED <<fleet, Files>>

(* The user starts the daemon again, if its file is there. *)
Start(n) ==
    /\ running[n] = None /\ exe[n] # None
    /\ running' = [running EXCEPT ![n] = Started(exe[n])]
    /\ UNCHANGED <<fleet, Files, pc, todo, Load, faults>>

Step(n) ==
    /\ UNCHANGED fleet
    /\ \/ Check(n) \/ Ask(n) \/ AskFails(n) \/ AllAsked(n) \/ LoadChunk(n) \/ LoadFails(n)
       \/ Verify(n) \/ Replace(n) \/ MoveAway(n) \/ MoveIn(n) \/ ApplyFails(n)
       \/ Restart(n) \/ RestartFails(n)

Next == \E n \in Node : Step(n) \/ Crash(n) \/ Start(n)

Spec == Init /\ [][Next]_vars

(* The renew task of each daemon runs; requests are answered or time out.  *)
LiveSpec == Spec /\ \A n \in Node : WF_vars(Step(n))

-----------------------------------------------------------------------------
(* Properties. *)

(* The file a daemon is started from is always a whole build for its        *)
(* platform, whatever the peer did to its own file while it was loaded.     *)
ExeWhole ==
    \A n \in Node : exe[n] # None =>
        \E b \in Build : exe[n] = Whole(b) /\ Target[b] = Platform[n]

(* A failed or interrupted update leaves a whole build to go back to, in    *)
(* the daemon's place or beside it.                                         *)
Recoverable ==
    \A n \in Node : \E b \in Build : Whole(b) \in {exe[n], old[n]} /\ Target[b] = Platform[n]

(* "Check if this version is newer than another": no daemon is replaced by  *)
(* an older build.                                                          *)
UpgradeOnly ==
    [][\A n \in Node : running[n] # None /\ running'[n] # None =>
            Released[running'[n]] >= Released[running[n]]]_vars

(* m has one peer of its platform, n, and is the one of them that updates.  *)
LoneUpdater(m, n) ==
    /\ m # n
    /\ {k \in Node : Platform[k] = Platform[m]} = {m, n}
    /\ fleet.enabled \cap {m, n} = {m}
    /\ Platform[m] \notin Windows

(* A daemon with one peer it can update from ends up with that peer's       *)
(* build, whatever requests, copies, renames and kills failed on the way,   *)
(* or else is not at home: after a restart that failed it runs a file that  *)
(* is no longer in its place, on Linux its own path then reads "(deleted)", *)
(* every later copy fails and it stays on its build until it is started     *)
(* anew. (Two that update from each other may swap builds for ever; on      *)
(* Windows a failed rename stops the updates.)                              *)
Settles ==
    \A m, n \in Node :
        <>[](LoneUpdater(m, n) /\ AtHome(m) /\ running[n] # None
                => running[m] = running[n])

(* It does not without that condition.                                      *)
SettlesAnywhere ==
    \A m, n \in Node :
        <>[](LoneUpdater(m, n) /\ None \notin {running[m], running[n]}
                => running[m] = running[n])
=============================================================================
