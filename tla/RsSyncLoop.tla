----------------------------- MODULE RsSyncLoop -----------------------------
(***************************************************************************)
(* The daemon's sync loop (daemon/rs_sync.rs, RsSyncManager): one task      *)
(* waits for the config tick (2 s), the auto tick (5 s) and the triggers   *)
(* that IPC clients send over a channel of four; a sync runs inside the    *)
(* loop, so nothing else is served while it does.                          *)
(*                                                                         *)
(* The config file is written by hand or by rscfg of a TUI (config.rs,      *)
(* tui/input.rs).                                                          *)
(*                                                                         *)
(* Abstractions: a config is its rs_global_sync flag, whether any setting   *)
(* that rscfg has no command for is not the default one, and a version      *)
(* number; of a sync itself only its outcome is kept (RsCluster has the     *)
(* rest). A tick that is due is remembered once, as the loop gains nothing  *)
(* from the bursts of a tokio interval.                                     *)
(***************************************************************************)
EXTENDS Naturals, Sequences, FiniteSets

CONSTANTS Client,
          Capacity,   (* of the trigger channel: 4                         *)
          MaxEdits,   (* bound on the edits of the config file             *)
          MaxTriggers, (* bound on the triggers sent                        *)
          Faults      (* what may fail: "metadata", "sync", "config"; in   *)
                      (* one behaviour some of it does                     *)

ASSUME SyncLoopAssumption ==
    /\ Capacity \in Nat \ {0}
    /\ MaxEdits \in Nat /\ MaxTriggers \in Nat
    /\ Faults \subseteq {"metadata", "sync", "config"}

Config == [gsyn : BOOLEAN, tuned : BOOLEAN, edition : 0..MaxEdits]

(* AppConfig::default, and what an empty file is read as. *)
Default(edition) == [gsyn |-> TRUE, tuned |-> FALSE, edition |-> edition]
NotSaving == Default(MaxEdits + 1)

VARIABLES
    disk,       (* the config file                                         *)
    saving,     (* the config a TUI is writing to the file it has truncated *)
    tui,        (* rs_global_sync as the TUI has it since it started        *)
    config,     (* state.config                                            *)
    dueConfig, dueAuto, (* the ticks that are due                          *)
    dueDisk,    (* the config file when the config tick became due         *)
    inProgress, (* state.in_progress                                       *)
    lastError,  (* whether state.last_error is set                         *)
    pc,         (* "select", or the phase of a sync: "check", "sync"       *)
    force,      (* whether the sync was triggered                          *)
    queue,      (* the clients whose triggers are in the channel           *)
    blocked,    (* the clients waiting for room in the channel             *)
    owed,       (* clients whose trigger was sent and no sync has begun    *)
                (* since it was taken                                      *)
    triggers,
    failing     (* what fails in this behaviour, now and then              *)

vars == <<failing, disk, saving, tui, config, dueConfig, dueAuto, dueDisk, inProgress, lastError, pc, force,
          queue, blocked, owed, triggers>>

Init ==
    /\ disk \in [gsyn : BOOLEAN, tuned : {FALSE}, edition : {0}]
    /\ saving = NotSaving /\ tui = disk.gsyn
    /\ config = disk
    /\ dueConfig = FALSE /\ dueAuto = FALSE
    /\ dueDisk = disk
    /\ inProgress = FALSE /\ lastError = FALSE
    /\ pc = "select" /\ force = FALSE
    /\ queue = <<>> /\ blocked = {}
    /\ owed = {} /\ triggers = 0
    /\ failing \in SUBSET Faults

Queued == {queue[i] : i \in 1..Len(queue)}

TypeOK ==
    /\ saving \in Config \cup {NotSaving} /\ tui \in BOOLEAN
    /\ disk \in Config /\ config \in Config /\ dueDisk \in Config
    /\ {dueConfig, dueAuto, inProgress, lastError, force} \subseteq BOOLEAN
    /\ pc \in {"select", "check", "sync"}
    /\ pc # "select" => inProgress
    /\ queue \in Seq(Client) /\ Len(queue) <= Capacity
    /\ blocked \in SUBSET Client
    /\ blocked # {} => Len(queue) = Capacity
    /\ owed \in SUBSET Client
    /\ triggers \in 0..MaxTriggers
    /\ failing \in SUBSET Faults

-----------------------------------------------------------------------------
Ticks == <<dueConfig, dueAuto, dueDisk>>
File == <<disk, saving, tui>>
Configs == <<File, config, failing>>
Channel == <<queue, blocked, triggers>>
Sync == <<inProgress, lastError, pc, force>>

(* The file is edited by hand. *)
Edit ==
    /\ saving = NotSaving
    /\ disk.edition < MaxEdits
    /\ \E g, u \in BOOLEAN : disk' = [gsyn |-> g, tuned |-> u, edition |-> disk.edition + 1]
    /\ UNCHANGED <<saving, tui, config, failing, Ticks, Sync, Channel, owed>>

(* A TUI starts. *)
TuiStart ==
    /\ saving = NotSaving
    /\ tui # disk.gsyn /\ tui' = disk.gsyn
    /\ UNCHANGED <<disk, saving, config, failing, Ticks, Sync, Channel, owed>>

(* rscfg: one setting is changed, and all are written from what the TUI has *)
(* and, where it has none, from constants. The file is truncated first.    *)
Rscfg ==
    /\ saving = NotSaving
    /\ disk.edition < MaxEdits
    /\ tui' \in BOOLEAN
    /\ saving' = [gsyn |-> tui', tuned |-> FALSE, edition |-> disk.edition + 1]
    /\ disk' = Default(disk.edition + 1)
    /\ UNCHANGED <<config, failing, Ticks, Sync, Channel, owed>>

(* The file is written, or the TUI is killed before it is. *)
Saved ==
    /\ saving # NotSaving
    /\ disk' \in {saving, disk}
    /\ saving' = NotSaving
    /\ UNCHANGED <<tui, config, failing, Ticks, Sync, Channel, owed>>

ConfigTickDue ==
    /\ ~dueConfig
    /\ dueConfig' = TRUE /\ dueDisk' = disk
    /\ UNCHANGED <<Configs, dueAuto, Sync, Channel, owed>>

AutoTickDue ==
    /\ ~dueAuto
    /\ dueAuto' = TRUE
    /\ UNCHANGED <<Configs, dueConfig, dueDisk, Sync, Channel, owed>>

Room == Len(queue) < Capacity

(* An IPC client asks for a sync: with four triggers queued it has to wait. *)
Trigger(c) ==
    /\ triggers < MaxTriggers /\ triggers' = triggers + 1
    /\ c \notin Queued \cup blocked \cup owed
    /\ IF Room
       THEN queue' = Append(queue, c) /\ UNCHANGED blocked
       ELSE blocked' = blocked \cup {c} /\ UNCHANGED queue
    /\ owed' = owed \cup {c}
    /\ UNCHANGED <<Configs, Ticks, Sync>>

-----------------------------------------------------------------------------
(* Mutant: the file is only read again while syncing is on. *)
Reloaded_whileSyncing == IF config.gsyn THEN disk ELSE config

Reloaded == disk

(* The file is read again; one that does not parse changes nothing. *)
ConfigTick ==
    /\ pc = "select" /\ dueConfig
    /\ \/ config' = Reloaded
       \/ "config" \in failing /\ UNCHANGED config
    /\ dueConfig' = FALSE
    /\ UNCHANGED <<File, failing, dueAuto, dueDisk, Sync, Channel, owed>>

(* run_sync_if_needed: the flag keeps a second sync out. *)
Enter(forced) ==
    IF inProgress THEN UNCHANGED Sync
    ELSE /\ inProgress' = TRUE /\ lastError' = FALSE
         /\ force' = forced
         /\ pc' = IF forced THEN "sync" ELSE "check"

AutoTick ==
    /\ pc = "select" /\ dueAuto
    /\ dueAuto' = FALSE
    /\ IF config.gsyn THEN Enter(FALSE) ELSE UNCHANGED Sync
    /\ UNCHANGED <<Configs, dueConfig, dueDisk, Channel, owed>>

(* Mutant: triggers are left in the channel while the flag is set. *)
Ready_whenFree == queue # <<>> /\ ~inProgress

Ready == queue # <<>>

(* A trigger is taken, and a client waiting for room gets its own in. *)
TakeTrigger ==
    /\ pc = "select" /\ Ready
    /\ IF blocked = {} THEN queue' = Tail(queue) /\ UNCHANGED blocked
       ELSE \E c \in blocked : /\ queue' = Append(Tail(queue), c)
                               /\ blocked' = blocked \ {c}
    /\ Enter(TRUE)
    /\ owed' = IF inProgress THEN owed ELSE owed \ {Head(queue)}
    /\ UNCHANGED <<Configs, Ticks, triggers>>

(* The sync is over. *)
Leave(failed) ==
    /\ pc' = "select"
    /\ inProgress' = FALSE
    /\ lastError' = failed
    /\ UNCHANGED force

(* needs_sync reads the metadata: nothing to do, or a sync. *)
Check ==
    /\ pc = "check"
    /\ \/ Leave(FALSE)
       \/ pc' = "sync" /\ UNCHANGED <<inProgress, lastError, force>>
    /\ UNCHANGED <<Configs, Ticks, Channel, owed>>

(* The metadata file cannot be read: "?" leaves the function without        *)
(* putting the flag back.                                                  *)
CheckFails ==
    /\ pc = "check" /\ "metadata" \in failing
    /\ pc' = "select"
    /\ UNCHANGED <<inProgress, lastError, force, Configs, Ticks, Channel, owed>>

(* Mutant: the flag is only put back when the sync succeeds. *)
AfterSync_flagStays(failed) ==
    pc' = "select" /\ inProgress' = failed /\ lastError' = failed /\ UNCHANGED force

AfterSync(failed) == Leave(failed)

(* The sync returns, with an error or without. *)
Synced ==
    /\ pc = "sync"
    /\ \/ AfterSync(FALSE)
       \/ "sync" \in failing /\ AfterSync(TRUE)
    /\ UNCHANGED <<Configs, Ticks, Channel, owed>>

Loop == ConfigTick \/ AutoTick \/ TakeTrigger \/ Check \/ CheckFails \/ Synced

Next == Edit \/ TuiStart \/ Rscfg \/ Saved \/ ConfigTickDue \/ AutoTickDue \/ (\E c \in Client : Trigger(c)) \/ Loop

Spec == Init /\ [][Next]_vars

(* The timers run and a sync ends (its requests have deadlines); select!   *)
(* chooses at random among what is ready, so none of them starves.         *)
LiveSpec ==
    /\ Spec
    /\ WF_vars(Saved)
    /\ WF_vars(ConfigTickDue) /\ WF_vars(AutoTickDue) /\ WF_vars(Check \/ CheckFails) /\ WF_vars(Synced)
    /\ SF_vars(ConfigTick) /\ SF_vars(AutoTick) /\ SF_vars(TakeTrigger)

-----------------------------------------------------------------------------
(* Properties. *)

(* "gsyn=1: the daemon goes on syncing in the background": the check for    *)
(* missing blocks is made again and again, whatever failed before.          *)
KeepsSyncing == <>[](config.gsyn) => []<>(pc = "check")

(* The same as long as the metadata can be read: no failing sync, unreadable *)
(* config or flood of triggers keeps the check from being made.             *)
KeepsSyncingWhenReadable ==
    <>[](config.gsyn) => []<>(pc = "check" \/ "metadata" \in failing)

(* Every trigger is followed by a sync that begins after it, however many   *)
(* clients wait and whatever syncs fail.                                    *)
TriggersServed ==
    \A c \in Client : c \in owed /\ "metadata" \notin failing ~> c \notin owed

(* No client waits for ever to hand over its trigger, even when the loop    *)
(* takes triggers without syncing.                                          *)
ClientsReturn == \A c \in Client : c \in blocked ~> c \notin blocked

(* The edits once over, the config in use is the one in the file, if it can *)
(* be read: the daemon does not keep what it may have read of a file that   *)
(* was being written.                                                      *)
ConfigTakesEffect == <>[](config = disk \/ "config" \in failing)

(* The daemon works with no config but those that were written: not with    *)
(* the defaults that a file truncated by rscfg reads as.                   *)
OnlyWrittenConfigs == [][config' # config => saving = NotSaving]_vars

(* "Config file": what was set there by hand, and rscfg has no command for, *)
(* is kept when rscfg changes another setting.                             *)
HandEditsKept ==
    [][saving = NotSaving /\ saving' # NotSaving => saving'.tuned = disk.tuned]_vars

(* "Takes effect within 2 seconds": when a sync begins, the config in use   *)
(* is no older than the file was when the config tick was last due.         *)
FreshConfig ==
    [][pc = "select" /\ pc' # "select" => config'.edition >= dueDisk.edition]_vars
=============================================================================
