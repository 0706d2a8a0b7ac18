------------------------------- MODULE Zones -------------------------------
(***************************************************************************)
(* The zones of one machine (storage/manager.rs, storage/local.rs): the     *)
(* registry zones.json, and for each zone a directory of files and their    *)
(* metadata list. TUIs change them, the daemon serves them to peers; every  *)
(* process has loaded the registry at its start and takes no lock.          *)
(*                                                                         *)
(* Each access to the file system is a step. A JSON file that is rewritten  *)
(* is empty (Torn) before it is whole, and so is a file that is imported;   *)
(* two processes writing at once may leave a mixture, which is Torn too.   *)
(* A file is its content, and an entry of a list the content its hash is   *)
(* of. A kill leaves the files as they are.                                 *)
(***************************************************************************)
EXTENDS Naturals, Sequences, FiniteSets

CONSTANTS Zone, Name, Content,
          Tui, Daemon,   (* the processes                                  *)
          Absent, Torn,  (* no such file; a file cut short                 *)
          Off, NoJob

Process == Tui \cup {Daemon}
Entry == [name : Name, content : Content]

VARIABLES
    registry, (* zones.json: the zones in it, or Torn                      *)
    list,     (* list[z]: metadata.json of the zone                        *)
    files,    (* files[z][n]: the file of that name                        *)
    loaded,   (* loaded[p]: ZoneManager.zones of a process, Off if not run *)
    job,      (* job[t]: the storage call a TUI is in                      *)
    cut       (* the files whose deletion or import broke off              *)

zoneVars == <<registry, list, files, loaded, job, cut>>

JobType ==
    [kind : {"create"}, at : {"init", "initWrite", "register", "registerWrite"}, zone : Zone]
    \cup [kind : {"store"}, at : {"file", "fill", "load", "save", "saveWrite"}, zone : Zone,
          name : Name, content : Content, new : Seq(Entry)]
    \cup [kind : {"delete"}, at : {"unlink", "load", "save", "saveWrite"}, zone : Zone,
          name : Name, new : Seq(Entry)]

(* What a file, a list, a registry and a job can be is told from what they   *)
(* are not.                                                                *)
ASSUME ZonesAssumption ==
    /\ Daemon \notin Tui
    /\ Absent # Torn /\ {Absent, Torn} \cap Content = {}
    /\ Absent \notin Seq(Entry) /\ Torn \notin Seq(Entry)
    /\ \A zs \in SUBSET Zone : zs # Torn /\ zs # Off
    /\ NoJob \notin JobType

ZonesTypeOK ==
    /\ registry = Torn \/ registry \in SUBSET Zone
    /\ \A z \in Zone : list[z] \in {Absent, Torn} \/ list[z] \in Seq(Entry)
    /\ files \in [Zone -> [Name -> Content \cup {Absent, Torn}]]
    /\ \A p \in Process : loaded[p] = Off \/ loaded[p] \in SUBSET Zone
    /\ \A t \in Tui : job[t] # NoJob => job[t] \in JobType /\ loaded[t] # Off
    /\ cut \in SUBSET (Zone \X Name)

ZonesInit ==
    /\ registry = {} /\ list = [z \in Zone |-> Absent]
    /\ files = [z \in Zone |-> [n \in Name |-> Absent]]
    /\ loaded = [p \in Process |-> {}]
    /\ job = [t \in Tui |-> NoJob]
    /\ cut = {}

-----------------------------------------------------------------------------
Running(p) == loaded[p] # Off
Idle(t) == Running(t) /\ job[t] = NoJob
Working(t, at) == job[t] # NoJob /\ job[t].at = at
Goes(t, at) == job' = [job EXCEPT ![t].at = at]

(* Outcomes of writing v where a file holds old: another process may have   *)
(* written since the file was truncated.                                   *)
Written(old, v) == IF old = Torn THEN {v} ELSE {v, Torn}

(* The process is gone, by an error or killed. *)
Dies(p) ==
    /\ loaded' = [loaded EXCEPT ![p] = Off]
    /\ IF p \in Tui /\ job[p] # NoJob
       THEN /\ cut' = IF job[p].kind = "create" THEN cut
                      ELSE cut \cup {<<job[p].zone, job[p].name>>}
            /\ job' = [job EXCEPT ![p] = NoJob]
       ELSE UNCHANGED <<cut, job>>

(* ZoneManager::new: a registry that cannot be parsed is taken as empty;    *)
(* a registered zone without a list is given one.                          *)
Start(p) ==
    /\ loaded[p] = Off
    /\ loaded' = [loaded EXCEPT ![p] = IF registry = Torn THEN {} ELSE registry]
    /\ list' = [z \in Zone |-> IF z \in loaded'[p] /\ list[z] = Absent THEN <<>> ELSE list[z]]
    /\ UNCHANGED <<registry, files, job, cut>>

Kill(p) == Running(p) /\ Dies(p) /\ UNCHANGED <<registry, list, files>>

-----------------------------------------------------------------------------
(* create_zone: the zone's directory and list, then the registry with the  *)
(* zones this process knows.                                               *)
CreateZone(t, z) ==
    /\ Idle(t) /\ z \notin loaded[t]
    /\ job' = [job EXCEPT ![t] = [kind |-> "create", at |-> "init", zone |-> z]]
    /\ UNCHANGED <<registry, list, files, loaded, cut>>

InitList(t) ==
    /\ Working(t, "init")
    /\ IF list[job[t].zone] = Absent
       THEN list' = [list EXCEPT ![job[t].zone] = Torn] /\ Goes(t, "initWrite")
       ELSE Goes(t, "register") /\ UNCHANGED list
    /\ UNCHANGED <<registry, files, loaded, cut>>

InitListWrite(t) ==
    /\ Working(t, "initWrite")
    /\ \E v \in Written(list[job[t].zone], <<>>) : list' = [list EXCEPT ![job[t].zone] = v]
    /\ Goes(t, "register")
    /\ UNCHANGED <<registry, files, loaded, cut>>

Register(t) ==
    /\ Working(t, "register")
    /\ loaded' = [loaded EXCEPT ![t] = @ \cup {job[t].zone}]
    /\ registry' = Torn
    /\ Goes(t, "registerWrite")
    /\ UNCHANGED <<list, files, cut>>

RegisterWrite(t) ==
    /\ Working(t, "registerWrite")
    /\ registry' \in Written(registry, loaded[t])
    /\ job' = [job EXCEPT ![t] = NoJob]
    /\ UNCHANGED <<list, files, loaded, cut>>

-----------------------------------------------------------------------------
(* zone.exists(name) is false. *)
Free(z, n) == files[z][n] = Absent

(* LocalBackend::store. *)
Store(t, z, n, c) ==
    /\ Idle(t) /\ z \in loaded[t]
    /\ job' = [job EXCEPT ![t] = [kind |-> "store", at |-> "file", zone |-> z, name |-> n,
                                  content |-> c, new |-> <<>>]]
    /\ UNCHANGED <<registry, list, files, loaded, cut>>

CreateFile(t) ==
    /\ Working(t, "file")
    /\ files' = [files EXCEPT ![job[t].zone][job[t].name] = Torn]
    /\ Goes(t, "fill")
    /\ UNCHANGED <<registry, list, loaded, cut>>

(* A file unlinked meanwhile gets its content where nobody sees it. *)
FillFile(t) ==
    /\ Working(t, "fill")
    /\ LET old == files[job[t].zone][job[t].name]
       IN  \E v \in IF old = Absent THEN {Absent} ELSE Written(old, job[t].content) :
              files' = [files EXCEPT ![job[t].zone][job[t].name] = v]
    /\ Goes(t, "load")
    /\ UNCHANGED <<registry, list, loaded, cut>>

(* LocalBackend::delete. *)
Delete(t, z, n) ==
    /\ Idle(t) /\ z \in loaded[t]
    /\ job' = [job EXCEPT ![t] = [kind |-> "delete", at |-> "unlink", zone |-> z, name |-> n,
                                  new |-> <<>>]]
    /\ UNCHANGED <<registry, list, files, loaded, cut>>

(* A file that is not there is an error. *)
CanUnlink(t) == files[job[t].zone][job[t].name] # Absent

Unlink(t) ==
    /\ Working(t, "unlink") /\ CanUnlink(t)
    /\ files' = [files EXCEPT ![job[t].zone][job[t].name] = Absent]
    /\ Goes(t, "load")
    /\ UNCHANGED <<registry, list, loaded, cut>>

(* retain: the entries of l that do not have name n, in their order. *)
Without(n, l) ==
    LET kept[i \in 0..Len(l)] ==
            IF i = 0 THEN <<>>
            ELSE IF l[i].name = n THEN kept[i - 1] ELSE Append(kept[i - 1], l[i])
    IN  kept[Len(l)]

(* Mutant: a deletion leaves the entry in the list. *)
Updated_keeps(j, l) ==
    IF j.kind = "store" THEN Append(l, [name |-> j.name, content |-> j.content]) ELSE l

(* The list with the change of job j. *)
Updated(j, l) ==
    IF j.kind = "store" THEN Append(l, [name |-> j.name, content |-> j.content])
    ELSE Without(j.name, l)

(* load_metadata: a list that cannot be parsed is an error. *)
CanLoad(t) == list[job[t].zone] # Torn

LoadList(t) ==
    /\ Working(t, "load") /\ CanLoad(t)
    /\ job' = [job EXCEPT ![t].at = "save", ![t].new = Updated(job[t], list[job[t].zone])]
    /\ UNCHANGED <<registry, list, files, loaded, cut>>

(* An error of a store or a deletion goes up to the main function. *)
CallFails(t) ==
    /\ \/ Working(t, "unlink") /\ ~CanUnlink(t)
       \/ Working(t, "load") /\ ~CanLoad(t)
    /\ Dies(t)
    /\ UNCHANGED <<registry, list, files>>

(* save_metadata. *)
TruncateList(t) ==
    /\ Working(t, "save")
    /\ list' = [list EXCEPT ![job[t].zone] = Torn]
    /\ Goes(t, "saveWrite")
    /\ UNCHANGED <<registry, files, loaded, cut>>

WriteList(t) ==
    /\ Working(t, "saveWrite")
    /\ \E v \in Written(list[job[t].zone], job[t].new) : list' = [list EXCEPT ![job[t].zone] = v]
    /\ cut' = IF job[t].kind = "delete" THEN cut \ {<<job[t].zone, job[t].name>>} ELSE cut
    /\ job' = [job EXCEPT ![t] = NoJob]
    /\ UNCHANGED <<registry, files, loaded>>

JobStep(t) ==
    \/ InitList(t) \/ InitListWrite(t) \/ Register(t) \/ RegisterWrite(t)
    \/ CreateFile(t) \/ FillFile(t) \/ Unlink(t)
    \/ LoadList(t) \/ TruncateList(t) \/ WriteList(t)

-----------------------------------------------------------------------------
(* What the daemon answers to peers about a zone: the first entry of that   *)
(* name, and the bytes of the file.                                        *)
Readable(z) == list[z] \notin {Absent, Torn}

(* Where the list of z has entries of that name. *)
Named(z, n) == IF Readable(z) THEN {i \in DOMAIN list[z] : list[z][i].name = n} ELSE {}

ServedMeta(z, n) == list[z][CHOOSE i \in Named(z, n) : \A j \in Named(z, n) : i <= j].content

ServedChunks(z, n) == files[z][n]

-----------------------------------------------------------------------------
(* Properties of the zones. *)

InWork(z, n) ==
    \E t \in Tui : job[t] # NoJob /\ job[t].kind # "create" /\ job[t].zone = z /\ job[t].name = n

(* What peers are told about a file is true of it at every moment, so that  *)
(* they can load it: the hash in its metadata is that of the bytes they get. *)
(* While a command deletes it there may be no bytes, but never others. Not   *)
(* of a file whose deletion or import was killed, nor with two TUIs at work. *)
MetaTrue ==
    \A z \in Zone, n \in Name :
        Named(z, n) # {} /\ <<z, n>> \notin cut
        => \/ ServedChunks(z, n) = ServedMeta(z, n)
           \/ ServedChunks(z, n) = Absent /\ InWork(z, n)

(* The same of all files: a file imported again after a deletion that was    *)
(* killed half-way is listed behind the entry of the deleted one.           *)
MetaAlwaysTrue ==
    \A z \in Zone, n \in Name :
        Named(z, n) # {} /\ ~InWork(z, n)
        => ServedChunks(z, n) \in {ServedMeta(z, n), Absent}

(* There is no command that removes a zone: a zone that has been created    *)
(* stays in the registry.                                                  *)
ZonesStay ==
    [][\A z \in Zone :
        registry # Torn /\ z \in registry => registry' = Torn \/ z \in registry']_registry

(* A peer can list every zone there is. *)
ZonesServed ==
    \A z \in Zone :
        registry # Torn /\ z \in registry /\ Running(Daemon) => z \in loaded[Daemon]
=============================================================================
