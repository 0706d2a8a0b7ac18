---------------------------- MODULE DaemonProcess ----------------------------
(***************************************************************************)
(* The daemon's processes on one machine and the invocations of rxiu that    *)
(* start and stop them (main.rs, bin/rxiu-daemon.rs, daemon/server.rs        *)
(* run_server and handle_client, daemon/client.rs, the restart at the end    *)
(* of daemon/renew.rs).                                                     *)
(*                                                                         *)
(* What keeps two daemons apart is the IPC port alone: a process whose bind *)
(* of it fails ends. The block server's port is bound by a task of its own, *)
(* whose failure is only logged. Every start of a daemon makes a new P2P    *)
(* identity, which a TUI asks for once. Nobody reads the PID file: it is left *)
(* out.                                                                    *)
(*                                                                         *)
(* Times are an assumption, stated where it is used: the daemon that has    *)
(* answered a shutdown exits (100 ms) before the restart command goes on     *)
(* (500 ms), and a daemon is up before a TUI has given up on it (2 s).       *)
(***************************************************************************)
EXTENDS Naturals, FiniteSets

CONSTANTS
    Launcher,  (* invocations of rxiu                                      *)
    Command,   (* Command[l]: "tui", "start", "stop" or "restart"           *)
    MaxPid,    (* processes are numbered as they are spawned               *)
    Exec,      (* how the update may restart: TRUE by exec (unix), FALSE by *)
               (* spawn (Windows)                                          *)
    MaxRenews, MaxKills

ASSUME DaemonAssumption ==
    /\ Command \in [Launcher -> {"tui", "start", "stop", "restart"}]
    /\ MaxPid \in Nat /\ Exec \subseteq BOOLEAN

Pid == 1 .. MaxPid
NoPid == 0
Identity == Pid \X Nat

VARIABLES
    exec,     (* how the update restarts on this machine                    *)
    at,       (* at[p]: how far a process is                                *)
    start,    (* start[p]: how often its image was started                  *)
    block,    (* block[p]: its block server                                 *)
    ipcPort, blockPort,  (* the process that has the port, or NoPid         *)
    step,     (* step[l]: how far an invocation is                          *)
    answering,  (* answering[l]: the daemon whose answer a restart has        *)
    me,       (* me[l]: the identity a TUI was told, or <<NoPid, 0>>        *)
    happened  (* the kinds of ends of a daemon so far                       *)

daemonVars == <<exec, at, start, block>>
portVars == <<ipcPort, blockPort>>
launcherVars == <<step, answering, me>>
processVars == <<daemonVars, portVars, launcherVars, happened>>

Unknown == <<NoPid, 0>>

ProcessTypeOK ==
    /\ exec \in Exec
    /\ at \in [Pid -> {"unused", "spawned", "up", "serving", "stopping", "replaced", "gone"}]
    /\ start \in [Pid -> 0 .. MaxRenews + 1]
    /\ block \in [Pid -> {"unbound", "bound", "failed"}]
    /\ {ipcPort, blockPort} \subseteq Pid \cup {NoPid}
    /\ \A p \in Pid : ipcPort = p => at[p] \in {"serving", "stopping", "replaced"}
    /\ \A p \in Pid : (blockPort = p) = (block[p] = "bound")
    /\ step \in [Launcher -> {"begin", "waiting", "connecting", "stopping", "spawning",
                              "connected", "offline", "done"}]
    /\ answering \in [Launcher -> Pid \cup {NoPid}]
    /\ me \in [Launcher -> Identity \cup {Unknown}]
    /\ happened \subseteq {"stop", "restart", "kill", "signal", "renew"}

ProcessInit ==
    /\ exec \in Exec
    /\ at = [p \in Pid |-> "unused"] /\ start = [p \in Pid |-> 0]
    /\ block = [p \in Pid |-> "unbound"]
    /\ ipcPort = NoPid /\ blockPort = NoPid
    /\ step = [l \in Launcher |-> "begin"]
    /\ answering = [l \in Launcher |-> NoPid]
    /\ me = [l \in Launcher |-> Unknown]
    /\ happened = {}

Alive(p) == at[p] \notin {"unused", "gone"}
Starting(p) == at[p] \in {"spawned", "up"}
Answers == ipcPort # NoPid
Moves(p, a) == at' = [at EXCEPT ![p] = a]

(* The port without process p. *)
Free(port, p) == IF port = p THEN NoPid ELSE port

-----------------------------------------------------------------------------
(* A process. *)

Spawn(p) ==
    /\ at[p] = "unused" /\ \A q \in 1 .. p - 1 : at[q] # "unused"
    /\ Moves(p, "spawned")
    /\ start' = [start EXCEPT ![p] = 1]
    /\ UNCHANGED <<exec, block>>

(* The process ends and its ports are free. *)
Exit(p) ==
    /\ Moves(p, "gone")
    /\ block' = [block EXCEPT ![p] = "unbound"]
    /\ ipcPort' = Free(ipcPort, p) /\ blockPort' = Free(blockPort, p)
    /\ UNCHANGED <<exec, start, launcherVars>>

(* The stores are loaded and the P2P service runs, under a new identity. *)
StartP2P(p) ==
    /\ at[p] = "spawned"
    /\ Moves(p, "up")
    /\ UNCHANGED <<exec, start, block, portVars, launcherVars, happened>>

(* The task of the block server. *)
BindBlocks(p) ==
    /\ at[p] \in {"up", "serving", "stopping", "replaced"} /\ block[p] = "unbound"
    /\ IF blockPort = NoPid
       THEN blockPort' = p /\ block' = [block EXCEPT ![p] = "bound"]
       ELSE block' = [block EXCEPT ![p] = "failed"] /\ UNCHANGED blockPort
    /\ UNCHANGED <<exec, at, start, ipcPort, launcherVars, happened>>

BindIpc(p) ==
    /\ at[p] = "up" /\ ipcPort = NoPid
    /\ ipcPort' = p
    /\ Moves(p, "serving")
    /\ UNCHANGED <<exec, start, block, blockPort, launcherVars, happened>>

(* Mutant: the failure is logged, as that of the block server is. *)
CannotServe_logged(p) == UNCHANGED <<daemonVars, portVars, launcherVars>>

(* run_server returns the error and main ends. *)
CannotServe(p) == Exit(p)

BindIpcFails(p) ==
    /\ at[p] = "up" /\ ipcPort # NoPid
    /\ CannotServe(p)
    /\ UNCHANGED happened

(* Ctrl-C: the server returns and main ends in order. *)
Interrupt(p) ==
    /\ at[p] = "serving" /\ "signal" \notin happened
    /\ Exit(p)
    /\ happened' = happened \cup {"signal"}

(* The process is killed, or P2PService::start fails and it exits. *)
Kill(p) ==
    /\ Alive(p) /\ MaxKills > 0 /\ "kill" \notin happened
    /\ Exit(p)
    /\ happened' = happened \cup {"kill"}

(* 100 ms after the answer to a shutdown, during which it still serves. *)
ExitAfterShutdown(p) ==
    /\ at[p] = "stopping"
    /\ Exit(p) /\ UNCHANGED happened

(* The end of an update: the image is replaced in its process, whose        *)
(* sockets are closed, or a new process is spawned, which the old one gives *)
(* 500 ms before it exits.                                                 *)
Renew(p) ==
    /\ at[p] = "serving" /\ start[p] <= MaxRenews
    /\ happened' = happened \cup {"renew"}
    /\ IF exec
       THEN /\ Moves(p, "spawned")
            /\ start' = [start EXCEPT ![p] = @ + 1]
            /\ block' = [block EXCEPT ![p] = "unbound"]
            /\ ipcPort' = NoPid /\ blockPort' = Free(blockPort, p)
       ELSE /\ \E q \in Pid :
                 /\ at[q] = "unused" /\ \A r \in 1 .. q - 1 : at[r] # "unused"
                 /\ at' = [at EXCEPT ![p] = "replaced", ![q] = "spawned"]
                 /\ start' = [start EXCEPT ![q] = start[p] + 1]
            /\ UNCHANGED <<block, portVars>>
    /\ UNCHANGED <<exec, launcherVars>>

ExitReplaced(p) ==
    /\ at[p] = "replaced"
    /\ Exit(p) /\ UNCHANGED happened

-----------------------------------------------------------------------------
(* An invocation of rxiu. *)

Goes(l, s) == step' = [step EXCEPT ![l] = s]

(* ensure_daemon_running, daemon start: DaemonClient::is_daemon_running. *)
Probe(l) ==
    /\ Command[l] \in {"tui", "start"} /\ step[l] = "begin"
    /\ IF Answers
       THEN Goes(l, IF Command[l] = "tui" THEN "connecting" ELSE "done")
       ELSE Goes(l, "spawning")
    /\ UNCHANGED <<daemonVars, portVars, answering, me, happened>>

SpawnDaemon(l) ==
    /\ step[l] = "spawning"
    /\ \E p \in Pid : Spawn(p)
    /\ Goes(l, IF Command[l] = "tui" THEN "waiting" ELSE "done")
    /\ UNCHANGED <<portVars, answering, me, happened>>

(* Mutant: the TUI goes on without waiting. *)
GivesUp_atOnce == TRUE

(* Twenty probes in 2 s have failed, which is longer than a start takes. *)
GivesUp == \A p \in Pid : ~Starting(p)

WaitForDaemon(l) ==
    /\ step[l] = "waiting"
    /\ Answers \/ GivesUp
    /\ Goes(l, "connecting")
    /\ UNCHANGED <<daemonVars, portVars, answering, me, happened>>

(* P2PProxy::connect, once: a TUI that fails to connect stays without P2P. *)
Connect(l) ==
    /\ step[l] = "connecting"
    /\ IF Answers
       THEN Goes(l, "connected") /\ me' = [me EXCEPT ![l] = <<ipcPort, start[ipcPort]>>]
       ELSE Goes(l, "offline") /\ UNCHANGED me
    /\ UNCHANGED <<daemonVars, portVars, answering, happened>>

(* daemon stop and daemon restart: a shutdown request to the daemon there is. *)
Shutdown(l) ==
    /\ Command[l] \in {"stop", "restart"} /\ step[l] = "begin"
    /\ IF Answers
       THEN /\ at' = [at EXCEPT ![ipcPort] = "stopping"]
            /\ answering' = [answering EXCEPT ![l] = ipcPort]
            /\ happened' = happened \cup {Command[l]}
            /\ Goes(l, IF Command[l] = "stop" THEN "done" ELSE "stopping")
       ELSE /\ Goes(l, IF Command[l] = "stop" THEN "done" ELSE "spawning")
            /\ UNCHANGED <<at, answering, happened>>
    /\ UNCHANGED <<exec, start, block, portVars, me>>

(* Mutant: the restart command does not sleep. *)
HasSlept_not(l) == TRUE

(* The 500 ms of the restart command are over. *)
HasSlept(l) == ~Alive(answering[l])

Slept(l) ==
    /\ step[l] = "stopping" /\ HasSlept(l)
    /\ Goes(l, "spawning")
    /\ UNCHANGED <<daemonVars, portVars, answering, me, happened>>

-----------------------------------------------------------------------------
Daemon(p) ==
    \/ StartP2P(p) \/ BindBlocks(p) \/ BindIpc(p) \/ BindIpcFails(p)
    \/ ExitAfterShutdown(p) \/ ExitReplaced(p)

Invocation(l) ==
    \/ Probe(l) \/ SpawnDaemon(l) \/ WaitForDaemon(l) \/ Connect(l) \/ Shutdown(l) \/ Slept(l)

ProcessNext ==
    \/ \E p \in Pid : Daemon(p) \/ Interrupt(p) \/ Kill(p) \/ Renew(p)
    \/ \E l \in Launcher : Invocation(l)

ProcessSpec == ProcessInit /\ [][ProcessNext]_processVars

(* A process that can go on does; nobody has to interrupt, kill or update. *)
LiveProcessSpec ==
    /\ ProcessSpec
    /\ \A p \in Pid : WF_processVars(Daemon(p))
    /\ \A l \in Launcher : WF_processVars(Invocation(l))

-----------------------------------------------------------------------------
(* Properties. *)

(* A TUI is connected to a daemon, which it has started if need be, unless   *)
(* a daemon was ended or updated while it came up.                         *)
TuiConnected ==
    \A l \in Launcher : step[l] = "offline" => happened # {}

(* However the starts, restarts and updates race, in the end a daemon       *)
(* serves, unless one was stopped, interrupted or killed, or updated where   *)
(* there is no exec.                                                       *)
EventuallyServed ==
    \/ <>(happened \cap {"stop", "kill", "signal"} # {})
    \/ <>("renew" \in happened /\ ~exec)
    \/ <>[]Answers

(* "New daemon started, exiting old process" (daemon/renew.rs): an update    *)
(* leaves a daemon, also where the old process still has the port.          *)
UpdateServed == <>(happened \ {"renew"} # {}) \/ <>[]Answers

(* In the end there is one daemon at most: a process that lost the race for *)
(* the port is gone.                                                       *)
NoneLingers == <>[](\A p, q \in Pid : Alive(p) /\ Alive(q) => p = q)

(* A daemon that serves serves blocks too, or is about to: two daemons that *)
(* start at once may each get one of the ports.                            *)
ServesBlocks == \A p \in Pid : at[p] = "serving" => block[p] # "failed"

(* The identity by which a TUI names its own node in the member list of an  *)
(* upload is that of the daemon that serves.                               *)
IdentityCurrent ==
    \A l \in Launcher : step[l] = "connected" /\ Answers => me[l] = <<ipcPort, start[ipcPort]>>
=============================================================================
