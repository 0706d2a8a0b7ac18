----------------------------- MODULE TuiSession -----------------------------
(***************************************************************************)
(* A session of the TUI (tui/app.rs main_loop_async, tui/input.rs): the     *)
(* commands on the own zones, over the storage calls of Zones, and the     *)
(* browsing of remote zones with the background transfers it starts.        *)
(*                                                                         *)
(* The loop takes the pending operation, then one message of the transfer   *)
(* channel, then a key or the two-second poll of the daemon's peer list. An *)
(* error of the key handler ends the program. A command line and the keys   *)
(* of the file browser are one step each: the command, and the choice or    *)
(* the cancelling. What a transfer does is in ChunkedDownload, RsDownload   *)
(* and RsStore; here it reports progress and an outcome. The files the user *)
(* picks outside of the zones can be read and written.                      *)
(*                                                                         *)
(* scene is a bound: a session uses either the commands on the own zones or *)
(* the remote ones.                                                        *)
(***************************************************************************)
EXTENDS Zones

CONSTANTS
    Me,            (* the TUI whose session is modelled, one of Tui         *)
    Peer, None,
    Shared,        (* Shared[p][z]: the names in zone z of peer p, listed   *)
    PeerLists,     (* the lists of peers the daemon may answer             *)
    Imports,       (* the names and contents the user puts into zones       *)
    ChannelSize,   (* capacity of the transfer channel; 16 in the code      *)
    IpcFails,      (* may requests to the daemon fail                       *)
    MaxTransfers, MaxKills, MaxPeerChanges

ASSUME SessionAssumption ==
    /\ Me \in Tui
    /\ Shared \in [Peer -> [Zone -> Seq(Name)]] /\ PeerLists \subseteq Seq(Peer)
    /\ Imports \subseteq Name \X Content
    /\ ChannelSize \in Nat \ {0}
    /\ IpcFails \in BOOLEAN
    /\ IsFiniteSet(Peer) /\ None \notin Zone /\ None \notin Name

VARIABLES
    scene,
    at,       (* what the loop does next: "pending", "results" or "select" *)
    mode,     (* AppMode, with the callback of the browser or the action    *)
    active,   (* ZoneManager.active_zone                                   *)
    rsMode,
    ended,    (* why the last session of Me ended, "no" while one runs      *)
    kills,
    remote,   (* RemoteConnection; peer 0 is no peer                       *)
    listing,  (* the files the user was last shown: the number and identity *)
              (* of their peer, and the zone; None when there are none, and *)
              (* when a listing of another zone has failed since            *)
    peers,    (* the list of peers the daemon would answer                 *)
    cache,    (* peers_cache                                               *)
    pending,  (* pending_op                                                *)
    bar,      (* transfer: the file name while active, else None            *)
    rx,       (* transfer_rx: the task whose channel is read, 0 for None    *)
    tasks,    (* the transfers started                                     *)
    changes

zoneCmdVars == <<mode, active, rsMode>>
transferVars == <<bar, rx, tasks>>
remoteVars == <<remote, listing, cache>>
vars == <<zoneVars, scene, at, zoneCmdVars, ended, kills, remoteVars, peers, pending,
          transferVars, changes>>

Normal == [kind |-> "normal"]
NoRemote == [peer |-> 0, zone |-> None, files |-> <<>>]
Listing == [index : 1 .. Cardinality(Peer), peer : Peer, zone : Zone]

Mode ==
    {Normal} \cup [kind : {"put", "rsput", "rsdel"}] \cup [kind : {"get", "del", "rsget"}, name : Name]
    \cup [kind : {"rget"}, peer : 1 .. Cardinality(Peer), zone : Zone, name : Name,
          seen : Listing \cup {None}]

Operation ==
    [op : {"zones", "selectedZones", "selectedFiles"}]
    \cup [op : {"files"}, zone : Zone]
    \cup [op : {"rsget"}, name : Name]
    \cup [op : {"download"}, peer : 1 .. Cardinality(Peer), zone : Zone, name : Name,
          seen : Listing \cup {None}]

ASSUME OperationAssumption == None \notin Operation /\ None \notin Listing

(* Success and Error are shown alike. *)
Message == {"progress", "outcome"}

Task == [name : Name, queue : Seq(Message), over : BOOLEAN, shown : BOOLEAN]

TypeOK ==
    /\ ZonesTypeOK
    /\ scene \in {"zones", "remote"} /\ at \in {"pending", "results", "select"}
    /\ mode \in Mode /\ active \in Zone \cup {None} /\ rsMode \in BOOLEAN
    /\ active # None => active \in loaded[Me]
    /\ ended \in {"no", "quit", "killed", "noZone", "missing", "unparsed"}
    /\ (ended = "no") = Running(Me)
    /\ remote.peer \in 0 .. Cardinality(Peer) /\ remote.zone \in Zone \cup {None}
    /\ listing \in Listing \cup {None}
    /\ pending \in Operation \cup {None} /\ (at = "pending") = (pending # None)
    /\ bar \in Name \cup {None} /\ rx \in 0 .. Len(tasks)
    /\ \A i \in DOMAIN tasks : tasks[i] \in Task /\ Len(tasks[i].queue) <= ChannelSize

-----------------------------------------------------------------------------
(* A new App. *)
FreshSession ==
    /\ at = "select" /\ mode = Normal /\ active = None /\ rsMode = FALSE
    /\ remote = NoRemote /\ listing = None /\ cache = <<>> /\ pending = None
    /\ bar = None /\ rx = 0 /\ tasks = <<>>

(* The memory of the process and its transfers are gone. *)
ForgetsAll ==
    /\ at' = "select" /\ mode' = Normal /\ active' = None /\ rsMode' = FALSE
    /\ remote' = NoRemote /\ listing' = None /\ cache' = <<>> /\ pending' = None
    /\ bar' = None /\ rx' = 0 /\ tasks' = <<>>

Init ==
    /\ ZonesInit
    /\ FreshSession
    /\ scene \in {"zones", "remote"}
    /\ ended = "no" /\ kills = 0 /\ changes = 0
    /\ peers \in PeerLists

Ends(why) ==
    /\ Dies(Me)
    /\ ended' = why
    /\ ForgetsAll
    /\ UNCHANGED <<registry, list, files, scene, peers, changes>>

StartSession ==
    /\ Start(Me)
    /\ ended' = "no"
    /\ UNCHANGED <<scene, at, zoneCmdVars, kills, remoteVars, peers, pending, transferVars, changes>>

KillSession ==
    /\ scene = "zones" /\ kills < MaxKills /\ Running(Me)
    /\ Ends("killed")
    /\ kills' = kills + 1

AtPrompt(s) == scene = s /\ Idle(Me) /\ at = "select" /\ mode = Normal
Choosing(k) == Idle(Me) /\ at = "select" /\ mode.kind = k

(* The loop goes on, with operation op pending. *)
Loop(op) == pending' = op /\ at' = IF op = None THEN "results" ELSE "pending"

(* exit, quit, or Ctrl-C in whatever mode. *)
Quit ==
    /\ Idle(Me) /\ at = "select"
    /\ Ends("quit")
    /\ UNCHANGED kills

Fails(why) == Ends(why) /\ UNCHANGED kills

NoKey ==
    /\ Idle(Me) /\ at = "select"
    /\ Loop(None)
    /\ UNCHANGED <<zoneVars, scene, zoneCmdVars, ended, kills, remoteVars, peers, transferVars, changes>>

(* q or Escape in the browser, any key but y at a confirmation. *)
Cancel ==
    /\ Idle(Me) /\ at = "select" /\ mode # Normal
    /\ mode' = Normal
    /\ Loop(None)
    /\ UNCHANGED <<zoneVars, scene, active, rsMode, ended, kills, remoteVars, peers, transferVars, changes>>

(* The mode a command leads to. *)
Enters(m) ==
    /\ mode' = m
    /\ Loop(None)
    /\ UNCHANGED <<zoneVars, scene, active, rsMode, ended, kills, remoteVars, peers, transferVars, changes>>

-----------------------------------------------------------------------------
(* Commands on the own zones. *)

Create(z) ==
    /\ AtPrompt("zones") /\ CreateZone(Me, z)
    /\ Loop(None)
    /\ UNCHANGED <<scene, zoneCmdVars, ended, kills, remoteVars, peers, transferVars, changes>>

(* ZoneManager.zones has the zone. *)
Known(z) == z \in loaded[Me]

(* use z. *)
Use(z) ==
    /\ AtPrompt("zones") /\ Known(z)
    /\ active' = z
    /\ Loop(None)
    /\ UNCHANGED <<zoneVars, scene, mode, rsMode, ended, kills, remoteVars, peers, transferVars, changes>>

(* get, put and del without an active zone are errors of the key handler. *)
NoZone ==
    /\ AtPrompt("zones") /\ ~rsMode /\ active = None
    /\ Fails("noZone")

Put == AtPrompt("zones") /\ ~rsMode /\ active # None /\ Enters([kind |-> "put"])

(* zone.exists(name): what get and del ask before they go on. *)
Found(z, n) == files[z][n] # Absent

Get(n) ==
    /\ AtPrompt("zones") /\ ~rsMode /\ active # None /\ Found(active, n)
    /\ Enters([kind |-> "get", name |-> n])

Del(n) ==
    /\ AtPrompt("zones") /\ ~rsMode /\ active # None /\ Found(active, n)
    /\ Enters([kind |-> "del", name |-> n])

(* The chosen file is imported unless the zone has one of the name. *)
PutSelected(n, c) ==
    /\ Choosing("put")
    /\ IF Free(active, n) THEN Store(Me, active, n, c) ELSE UNCHANGED zoneVars
    /\ mode' = Normal
    /\ Loop(None)
    /\ UNCHANGED <<scene, active, rsMode, ended, kills, remoteVars, peers, transferVars, changes>>

(* retrieve: a file that is not there ends the program. *)
GetSelected ==
    /\ Choosing("get")
    /\ IF files[active][mode.name] = Absent THEN Fails("missing") ELSE Enters(Normal)

DelConfirmed ==
    /\ Choosing("del")
    /\ Delete(Me, active, mode.name)
    /\ mode' = Normal
    /\ Loop(None)
    /\ UNCHANGED <<scene, active, rsMode, ended, kills, remoteVars, peers, transferVars, changes>>

StorageStep ==
    /\ JobStep(Me)
    /\ UNCHANGED <<scene, at, zoneCmdVars, ended, kills, remoteVars, peers, pending, transferVars, changes>>

(* The error of a storage call. *)
StorageFails ==
    /\ CallFails(Me)
    /\ ended' = IF Working(Me, "unlink") THEN "missing" ELSE "unparsed"
    /\ ForgetsAll
    /\ UNCHANGED <<scene, kills, peers, changes>>

EnterRs ==
    /\ AtPrompt("zones") /\ ~rsMode
    /\ rsMode' = TRUE
    /\ Loop(None)
    /\ UNCHANGED <<zoneVars, scene, mode, active, ended, kills, remoteVars, peers, transferVars, changes>>

(* Mutant: the channel of the running transfer is dropped with the bar. *)
RxAfterRxiu_dropped(r) == 0

(* rxiu leaves the receiver of the transfer in place. *)
RxAfterRxiu(r) == r

Rxiu ==
    /\ AtPrompt(scene)
    /\ rsMode' = FALSE /\ active' = None
    /\ remote' = NoRemote /\ listing' = None
    /\ bar' = None /\ rx' = RxAfterRxiu(rx)
    /\ Loop(None)
    /\ UNCHANGED <<zoneVars, scene, mode, ended, kills, cache, peers, tasks, changes>>

-----------------------------------------------------------------------------
(* Commands on remote zones. *)

(* What a remote command changes besides the selection. *)
Remotely(op) ==
    /\ Loop(op)
    /\ UNCHANGED <<zoneVars, scene, zoneCmdVars, ended, kills, cache, peers, transferVars, changes>>

(* remote i. *)
QueryPeer(i) ==
    /\ AtPrompt("remote") /\ i \in DOMAIN cache
    /\ remote' = [NoRemote EXCEPT !.peer = i] /\ listing' = None
    /\ Remotely([op |-> "zones"])

(* ruse i. *)
UsePeer(i) ==
    /\ AtPrompt("remote") /\ i \in DOMAIN cache
    /\ remote' = [NoRemote EXCEPT !.peer = i] /\ listing' = None
    /\ Remotely(None)

(* Mutant: the files of the zone used before stay. *)
InZone_keeps(r, z) == [r EXCEPT !.zone = z]

(* Another zone of the peer is selected. *)
InZone(r, z) == [r EXCEPT !.zone = z, !.files = <<>>]

(* ruse z. *)
UseZone(z) ==
    /\ AtPrompt("remote") /\ remote.peer # 0
    /\ remote' = InZone(remote, z)
    /\ UNCHANGED listing
    /\ Remotely(None)

(* rlist z: the files listed before stay until the answer comes. *)
ListZone(z) ==
    /\ AtPrompt("remote") /\ remote.peer # 0
    /\ remote' = [remote EXCEPT !.zone = z]
    /\ UNCHANGED listing
    /\ Remotely([op |-> "files", zone |-> z])

(* rlist. *)
ListFiles ==
    /\ AtPrompt("remote") /\ remote.peer # 0 /\ remote.zone # None
    /\ UNCHANGED <<remote, listing>>
    /\ Remotely([op |-> "selectedFiles"])

(* rarea. *)
ListZones ==
    /\ AtPrompt("remote") /\ remote.peer # 0
    /\ UNCHANGED <<remote, listing>>
    /\ Remotely([op |-> "selectedZones"])

(* rget k: the numbers of peer and file are resolved to an index and a name. *)
GetRemote(k) ==
    /\ AtPrompt("remote") /\ remote.peer # 0 /\ remote.zone # None /\ k \in DOMAIN remote.files
    /\ Len(tasks) < MaxTransfers
    /\ Enters([kind |-> "rget", peer |-> remote.peer, zone |-> remote.zone,
               name |-> remote.files[k], seen |-> listing])

GetRemoteSelected ==
    /\ Choosing("rget")
    /\ mode' = Normal
    /\ Loop([op |-> "download", peer |-> mode.peer, zone |-> mode.zone, name |-> mode.name,
             seen |-> mode.seen])
    /\ UNCHANGED <<zoneVars, scene, active, rsMode, ended, kills, remoteVars, peers, transferVars, changes>>

(* rsput, rsget n, rsdel n. *)
RsCommand(n) ==
    /\ AtPrompt("remote")
    /\ \/ Len(tasks) < MaxTransfers /\ Enters([kind |-> "rsput"])
       \/ Len(tasks) < MaxTransfers /\ Enters([kind |-> "rsget", name |-> n])
       \/ Enters([kind |-> "rsdel"])

(* The RS metadata is read by rsput and rsdel: while it cannot be parsed     *)
(* they end the program (see RsStore).                                     *)
RsUnreadable ==
    /\ Choosing("rsput") \/ Choosing("rsdel")
    /\ Fails("unparsed")

RsDelConfirmed == Choosing("rsdel") /\ Enters(Normal)

RsGetSelected ==
    /\ Choosing("rsget")
    /\ mode' = Normal
    /\ Loop([op |-> "rsget", name |-> mode.name])
    /\ UNCHANGED <<zoneVars, scene, active, rsMode, ended, kills, remoteVars, peers, transferVars, changes>>

-----------------------------------------------------------------------------
(* Transfers. *)

(* Mutant: a channel that is there already goes on being read. *)
RxOfNew_first(r, i) == IF r = 0 THEN i ELSE r

(* The channel of the new transfer replaces the one of a running one. *)
RxOfNew(r, i) == i

Starts(n) ==
    /\ tasks' = Append([i \in DOMAIN tasks |-> [tasks[i] EXCEPT !.queue = <<>>]],
                       [name |-> n, queue |-> <<>>, over |-> FALSE, shown |-> FALSE])
    /\ rx' = RxOfNew(rx, Len(tasks) + 1)
    /\ bar' = n

(* The upload starts in the key handler. *)
RsPutSelected(n) ==
    /\ Choosing("rsput")
    /\ Starts(n)
    /\ mode' = Normal
    /\ Loop(None)
    /\ UNCHANGED <<zoneVars, scene, active, rsMode, ended, kills, remoteVars, peers, changes>>

(* A send waits for room while the channel is read, and fails silently after. *)
Sends(i, m) ==
    /\ ~tasks[i].over
    /\ i = rx => Len(tasks[i].queue) < ChannelSize
    /\ tasks' = [tasks EXCEPT ![i].queue = IF i = rx THEN Append(@, m) ELSE @,
                              ![i].over = m # "progress"]

TaskSends(i) ==
    /\ \E m \in Message : Sends(i, m)
    /\ UNCHANGED <<zoneVars, scene, at, zoneCmdVars, ended, kills, remoteVars, peers, pending, bar, rx, changes>>

(* A task that panics has its channel closed. *)
TaskPanics(i) ==
    /\ ~tasks[i].over
    /\ tasks' = [tasks EXCEPT ![i].over = TRUE]
    /\ UNCHANGED <<zoneVars, scene, at, zoneCmdVars, ended, kills, remoteVars, peers, pending, bar, rx, changes>>

(* try_recv. *)
Results ==
    /\ Idle(Me) /\ at = "results"
    /\ at' = "select"
    /\ IF rx # 0 /\ (tasks[rx].queue # <<>> \/ tasks[rx].over)
       THEN IF tasks[rx].queue # <<>> /\ Head(tasks[rx].queue) = "progress"
            THEN tasks' = [tasks EXCEPT ![rx].queue = Tail(@)] /\ UNCHANGED <<bar, rx>>
            ELSE tasks' = [tasks EXCEPT ![rx].queue = <<>>, ![rx].shown = TRUE]
                 /\ bar' = None /\ rx' = 0
       ELSE UNCHANGED transferVars
    /\ UNCHANGED <<zoneVars, scene, zoneCmdVars, ended, kills, remoteVars, peers, pending, changes>>

-----------------------------------------------------------------------------
(* process_pending_operation. *)

(* No answer: the files listed before stay, even those of another zone.     *)
Unanswered(z) ==
    /\ listing' = IF listing # None /\ listing.zone = z THEN listing ELSE None
    /\ UNCHANGED remote

(* The files of a zone are asked for. *)
Answered(z) ==
    IF remote.peer \in DOMAIN cache
    THEN \/ /\ remote' = [remote EXCEPT !.files = Shared[cache[remote.peer]][z]]
            /\ listing' = [index |-> remote.peer, peer |-> cache[remote.peer], zone |-> z]
         \/ IpcFails /\ Unanswered(z)
    ELSE Unanswered(z)

ProcessPending ==
    /\ Idle(Me) /\ at = "pending"
    /\ Loop(None)
    /\ CASE pending.op = "zones" -> UNCHANGED <<remote, listing, transferVars>>
         [] pending.op = "selectedZones" ->
              /\ remote' = IF remote.peer \in DOMAIN cache THEN remote ELSE [remote EXCEPT !.peer = 0]
              /\ UNCHANGED <<listing, transferVars>>
         [] pending.op = "files" -> Answered(pending.zone) /\ UNCHANGED transferVars
         [] pending.op = "selectedFiles" -> Answered(remote.zone) /\ UNCHANGED transferVars
         [] pending.op = "rsget" -> Starts(pending.name) /\ UNCHANGED <<remote, listing>>
         [] pending.op = "download" ->
              /\ IF pending.peer \in DOMAIN cache
                 THEN Starts(pending.name)
                 ELSE UNCHANGED transferVars
              /\ UNCHANGED <<remote, listing>>
    /\ UNCHANGED <<zoneVars, scene, zoneCmdVars, ended, kills, cache, peers, changes>>

-----------------------------------------------------------------------------
(* The daemon loses or finds a peer, and those behind it in the list move. *)
PeersChange ==
    /\ scene = "remote" /\ changes < MaxPeerChanges
    /\ changes' = changes + 1
    /\ peers' \in PeerLists \ {peers}
    /\ UNCHANGED <<zoneVars, scene, at, zoneCmdVars, ended, kills, remoteVars, pending, transferVars>>

(* The poll of the peer list, which an error makes empty. *)
PollPeers ==
    /\ scene = "remote" /\ Idle(Me) /\ at = "select"
    /\ cache' \in {peers} \cup (IF IpcFails THEN {<<>>} ELSE {})
    /\ Loop(None)
    /\ UNCHANGED <<zoneVars, scene, zoneCmdVars, ended, kills, remote, listing, peers, transferVars, changes>>

-----------------------------------------------------------------------------
(* Other processes of the machine: the daemon, and TUIs of which only the    *)
(* storage calls are modelled.                                             *)
Others ==
    /\ scene = "zones"
    /\ \/ Start(Daemon) /\ UNCHANGED kills
       \/ kills < MaxKills /\ Kill(Daemon) /\ kills' = kills + 1
       \/ \E t \in Tui \ {Me} :
            /\ \/ \E z \in Zone : CreateZone(t, z)
               \/ \E z \in Zone, i \in Imports : Free(z, i[1]) /\ Store(t, z, i[1], i[2])
               \/ \E z \in Zone, n \in Name : Found(z, n) /\ Delete(t, z, n)
               \/ JobStep(t) \/ CallFails(t) \/ Start(t)
            /\ UNCHANGED kills
    /\ UNCHANGED <<scene, at, zoneCmdVars, ended, remoteVars, peers, pending, transferVars, changes>>

ZoneCommand ==
    \/ \E z \in Zone : Create(z) \/ Use(z)
    \/ NoZone \/ Put \/ EnterRs
    \/ \E n \in Name : Get(n) \/ Del(n)
    \/ \E i \in Imports : PutSelected(i[1], i[2])
    \/ GetSelected \/ DelConfirmed

RemoteCommand ==
    \/ \E i \in 1 .. Cardinality(Peer) : QueryPeer(i) \/ UsePeer(i)
    \/ \E z \in Zone : UseZone(z) \/ ListZone(z)
    \/ ListFiles \/ ListZones \/ GetRemoteSelected
    \/ \E k \in 1 .. Cardinality(Name) : GetRemote(k)
    \/ \E n \in Name : RsCommand(n) \/ RsPutSelected(n)
    \/ RsUnreadable \/ RsDelConfirmed \/ RsGetSelected

Next ==
    \/ ZoneCommand \/ RemoteCommand \/ Rxiu \/ Cancel \/ Quit \/ NoKey
    \/ StorageStep \/ StorageFails
    \/ ProcessPending \/ Results \/ PollPeers
    \/ \E i \in DOMAIN tasks : TaskSends(i) \/ TaskPanics(i)
    \/ PeersChange \/ StartSession \/ KillSession \/ Others

Spec == Init /\ [][Next]_vars

(* The loop turns at least every 50 ms, whatever the user does. *)
LiveSpec == Spec /\ WF_vars(NoKey) /\ WF_vars(ProcessPending) /\ WF_vars(Results)

-----------------------------------------------------------------------------
(* Properties. *)

(* The bar at the bottom is about the transfer whose messages the loop      *)
(* reads, and that transfer's outcome is still to come.                    *)
BarHonest == bar # None => rx # 0 /\ bar = tasks[rx].name /\ ~tasks[rx].shown

(* The loop is about to start a download. *)
Downloads == pending # None /\ pending.op = "download" /\ pending.peer \in DOMAIN cache

(* rget fetches from the zone whose files the user was shown, and from the   *)
(* peer he was shown them of whenever that peer has the number it had then, *)
(* through all re-selections, failures, refreshes of the peer list and the  *)
(* time the choice of a place takes. A number that has moved, and a failed  *)
(* listing of another zone, whose name the old files then stand under, are  *)
(* all that can mislead it.                                                 *)
RightSource ==
    Downloads /\ pending.seen # None
    => /\ pending.zone = pending.seen.zone
       /\ pending.seen.index \in DOMAIN cache /\ cache[pending.seen.index] = pending.seen.peer
          => cache[pending.peer] = pending.seen.peer

(* The user learns how the last transfer he started ended, even after rxiu   *)
(* has taken its bar away.                                                 *)
LastOutcomeShown ==
    \A i \in 1 .. MaxTransfers :
        (Len(tasks) = i /\ tasks[i].over)
        ~> (Len(tasks) # i \/ tasks[i].shown \/ ended # "no")

(* The same of every transfer, which a second one started meanwhile breaks. *)
EveryOutcomeShown ==
    \A i \in 1 .. MaxTransfers :
        (Len(tasks) >= i /\ tasks[i].over)
        ~> (Len(tasks) < i \/ tasks[i].shown \/ ended # "no")

(* The user was shown the files of the peer and zone he loads from. *)
AlwaysRightSource ==
    Downloads => /\ pending.seen # None
                 /\ pending.seen.peer = cache[pending.peer] /\ pending.seen.zone = pending.zone
=============================================================================
