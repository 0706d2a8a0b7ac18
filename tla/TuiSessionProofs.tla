-------------------------- MODULE TuiSessionProofs --------------------------
(***************************************************************************)
(* Proofs about TuiSession and the zones under it, for any peers, zones,     *)
(* files, numbers of transfers and kills.                                   *)
(*                                                                         *)
(* About the remote side: the bar is about the transfer that is read         *)
(* (BarHonest), and a download is from where the user was shown the file     *)
(* (RightSource). About the own zones, as long as this TUI is the only one   *)
(* of the machine (OneTui): what peers are told of a file is true (MetaTrue). *)
(***************************************************************************)
EXTENDS TuiSession, FiniteSetTheorems, WellFoundedInduction, TLAPS

OneTui == Tui = {Me}

Remote == [peer : 0 .. Cardinality(Peer), zone : Zone \cup {None}, files : Seq(Name)]

SessionType ==
    /\ scene \in {"zones", "remote"} /\ at \in {"pending", "results", "select"}
    /\ mode \in Mode /\ active \in Zone \cup {None} /\ rsMode \in BOOLEAN
    /\ remote \in Remote /\ listing \in Listing \cup {None}
    /\ peers \in PeerLists /\ cache \in Seq(Peer)
    /\ pending \in Operation \cup {None} /\ (at = "pending" <=> pending # None)
    /\ bar \in Name \cup {None} /\ tasks \in Seq(Task) /\ rx \in 0 .. Len(tasks)

Awaits(op) == pending # None /\ pending.op = op

(* The number and zone of the files in the list, and those asked for. *)
Shown ==
    /\ listing # None /\ remote.files # <<>> /\ remote.peer # 0
       => listing.index = remote.peer /\ (~Awaits("files") => listing.zone = remote.zone)
    /\ Awaits("files") => pending.zone = remote.zone
    /\ Awaits("selectedFiles") => remote.zone # None

(* The file the user is about to choose a place for. *)
Chosen ==
    mode.kind = "rget" /\ mode.seen # None
    => mode.seen.index = mode.peer /\ mode.seen.zone = mode.zone

RemoteInv == SessionType /\ BarHonest /\ Shown /\ Chosen /\ RightSource

-----------------------------------------------------------------------------
ZonesType ==
    /\ registry \in (SUBSET Zone) \cup {Torn}
    /\ list \in [Zone -> Seq(Entry) \cup {Absent, Torn}]
    /\ files \in [Zone -> [Name -> Content \cup {Absent, Torn}]]
    /\ loaded \in [Process -> (SUBSET Zone) \cup {Off}]
    /\ job \in [Tui -> JobType \cup {NoJob}]
    /\ cut \in SUBSET (Zone \X Name)

J == job[Me]

Doing(kind, steps) == J # NoJob /\ J.kind = kind /\ J.at \in steps

(* Every zone that can be worked on has a list. *)
ListsThere ==
    /\ loaded[Me] # Off => \A z \in loaded[Me] : list[z] # Absent
    /\ J # NoJob => loaded[Me] # Off
    /\ J # NoJob /\ J.kind # "create" => J.zone \in loaded[Me]
    /\ Doing("create", {"initWrite"}) => list[J.zone] = Torn
    /\ Doing("create", {"register"}) => list[J.zone] # Absent

Removing(z, n) ==
    /\ Doing("delete", {"load", "save", "saveWrite"})
    /\ J.zone = z /\ J.name = n

Fits(z, e) ==
    \/ <<z, e.name>> \in cut
    \/ files[z][e.name] = e.content
    \/ Removing(z, e.name) /\ files[z][e.name] = Absent

ListsTrue == \A z \in Zone : Readable(z) => \A i \in DOMAIN list[z] : Fits(z, list[z][i])

(* How far a storage call is shows in the file and in the list. *)
JobTrue ==
    /\ Doing("store", {"file", "fill", "load", "save"}) /\ <<J.zone, J.name>> \notin cut
         => Named(J.zone, J.name) = {}
    /\ Doing("store", {"fill"}) => files[J.zone][J.name] = Torn
    /\ Doing("store", {"load", "save", "saveWrite"}) => files[J.zone][J.name] = J.content
    /\ Doing("delete", {"load", "save", "saveWrite"}) => files[J.zone][J.name] = Absent

(* The list that is about to be saved. *)
NewTrue ==
    /\ J # NoJob /\ J.at \in {"save", "saveWrite"} =>
         \A i \in DOMAIN J.new :
            Fits(J.zone, J.new[i]) /\ (J.kind = "delete" => J.new[i].name # J.name)
    /\ J # NoJob /\ J.at = "saveWrite" => list[J.zone] = Torn

ZoneChosen ==
    /\ mode.kind \in {"get", "del", "put"} => active # None
    /\ J # NoJob => mode = Normal

LocalInv ==
    /\ ZonesType /\ ListsThere /\ ListsTrue /\ JobTrue /\ NewTrue
    /\ ZoneChosen

-----------------------------------------------------------------------------
(* What the variants of modes and operations have. *)
LEMMA ModeFields ==
    ASSUME NEW m \in Mode
    PROVE  /\ m.kind \in {"get", "del", "rsget"} => m.name \in Name
           /\ m.kind = "rget" => /\ m.peer \in 1 .. Cardinality(Peer) /\ m.zone \in Zone
                                 /\ m.name \in Name /\ m.seen \in Listing \cup {None}
  BY DEF Mode, Normal

LEMMA ModeTypes ==
    /\ Normal \in Mode /\ Normal.kind = "normal"
    /\ \A k \in {"put", "rsput", "rsdel"} : [kind |-> k] \in Mode
    /\ \A k \in {"get", "del", "rsget"}, n \in Name : [kind |-> k, name |-> n] \in Mode
    /\ \A i \in 1 .. Cardinality(Peer), z \in Zone, n \in Name, l \in Listing \cup {None} :
          [kind |-> "rget", peer |-> i, zone |-> z, name |-> n, seen |-> l] \in Mode
  BY DEF Mode, Normal

LEMMA OperationFields ==
    ASSUME NEW o \in Operation
    PROVE  /\ o.op \in {"zones", "selectedZones", "selectedFiles", "files", "rsget", "download"}
           /\ o.op = "files" => o.zone \in Zone
           /\ o.op = "rsget" => o.name \in Name
           /\ o.op = "download" => /\ o.peer \in 1 .. Cardinality(Peer) /\ o.zone \in Zone
                                   /\ o.name \in Name /\ o.seen \in Listing \cup {None}
           /\ o # None
  BY OperationAssumption DEF Operation

LEMMA OperationTypes ==
    /\ \A o \in {"zones", "selectedZones", "selectedFiles"} : [op |-> o] \in Operation
    /\ \A z \in Zone : [op |-> "files", zone |-> z] \in Operation
    /\ \A n \in Name : [op |-> "rsget", name |-> n] \in Operation
    /\ \A i \in 1 .. Cardinality(Peer), z \in Zone, n \in Name, l \in Listing \cup {None} :
          [op |-> "download", peer |-> i, zone |-> z, name |-> n, seen |-> l] \in Operation
  BY DEF Operation

LEMMA NoRemoteType ==
    /\ NoRemote \in Remote /\ NoRemote.files = <<>>
    /\ \A i \in 1 .. Cardinality(Peer) :
          [NoRemote EXCEPT !.peer = i] \in Remote /\ [NoRemote EXCEPT !.peer = i].files = <<>>
<1>1. Cardinality(Peer) \in Nat /\ <<>> \in Seq(Name)
  BY SessionAssumption, FS_CardinalityType
<1>2. \A i \in 0 .. Cardinality(Peer) : [peer |-> i, zone |-> None, files |-> <<>>] \in Remote
  BY <1>1 DEF Remote
<1>3. 0 \in 0 .. Cardinality(Peer) /\ \A i \in 1 .. Cardinality(Peer) : i \in 0 .. Cardinality(Peer)
  BY <1>1
<1>4. \A i \in 1 .. Cardinality(Peer) :
          [NoRemote EXCEPT !.peer = i] = [peer |-> i, zone |-> None, files |-> <<>>]
  BY DEF NoRemote
<1> QED
  BY <1>2, <1>3, <1>4 DEF NoRemote

LEMMA FreshRemoteInv ==
    ASSUME FreshSession, scene \in {"zones", "remote"}, peers \in PeerLists
    PROVE  RemoteInv
<1>1. <<>> \in Seq(Peer) /\ <<>> \in Seq(Task) /\ Len(<<>>) = 0
  OBVIOUS
<1>2. SessionType
  <2>1. /\ at = "select" /\ mode = Normal /\ active = None /\ rsMode = FALSE /\ remote = NoRemote
        /\ listing = None /\ cache = <<>> /\ pending = None /\ bar = None /\ rx = 0 /\ tasks = <<>>
    BY DEF FreshSession
  <2>2. 0 \in 0 .. Len(<<>>)
    BY <1>1
  <2> QED
    BY <1>1, <2>1, <2>2, ModeTypes, NoRemoteType DEF SessionType
<1> QED
  BY <1>2, ModeTypes DEF FreshSession, RemoteInv, BarHonest, Shown, Chosen, RightSource, Downloads, Awaits

LEMMA ForgottenRemoteInv ==
    ASSUME RemoteInv, ForgetsAll, UNCHANGED <<scene, peers>>
    PROVE  RemoteInv'
<1>1. <<>> \in Seq(Peer) /\ <<>> \in Seq(Task) /\ Len(<<>>) = 0
  OBVIOUS
<1>2. SessionType'
  <2>1. /\ at' = "select" /\ mode' = Normal /\ active' = None /\ rsMode' = FALSE /\ remote' = NoRemote
        /\ listing' = None /\ cache' = <<>> /\ pending' = None /\ bar' = None /\ rx' = 0 /\ tasks' = <<>>
    BY DEF ForgetsAll
  <2>2. 0 \in 0 .. Len(<<>>) /\ scene' \in {"zones", "remote"} /\ peers' \in PeerLists
    BY <1>1 DEF RemoteInv, SessionType
  <2> QED
    BY <1>1, <2>1, <2>2, ModeTypes, NoRemoteType DEF SessionType
<1> QED
  BY <1>2, ModeTypes DEF ForgetsAll, RemoteInv, BarHonest, Shown, Chosen, RightSource, Downloads, Awaits

(* A step that may lead to another mode, and leaves the remote side alone. *)
LEMMA QuietRemoteInv ==
    ASSUME RemoteInv, at = "select", Loop(None),
           mode' \in Mode, mode'.kind = "rget" => mode' = mode,
           active' \in Zone \cup {None}, rsMode' \in BOOLEAN,
           UNCHANGED <<scene, remoteVars, peers, transferVars>>
    PROVE  RemoteInv'
<1>1. pending = None /\ pending' = None /\ at' = "results"
  BY DEF RemoteInv, SessionType, Loop
<1>2. SessionType'
  BY <1>1 DEF RemoteInv, SessionType, remoteVars, transferVars
<1>3. BarHonest' /\ Shown' /\ Chosen' /\ RightSource'
  BY <1>1 DEF RemoteInv, BarHonest, Shown, Chosen, RightSource, Downloads, Awaits, remoteVars, transferVars
<1> QED
  BY <1>2, <1>3 DEF RemoteInv

LEMMA StillRemoteInv ==
    ASSUME RemoteInv, UNCHANGED <<scene, at, zoneCmdVars, remoteVars, pending, transferVars>>,
           peers' \in PeerLists
    PROVE  RemoteInv'
  BY DEF RemoteInv, SessionType, BarHonest, Shown, Chosen, RightSource, Downloads, Awaits,
         zoneCmdVars, remoteVars, transferVars

LEMMA ZoneCommandRemote ==
    ASSUME RemoteInv, ZoneCommand \/ Cancel \/ NoKey
    PROVE  RemoteInv'
<1> USE DEF zoneCmdVars, remoteVars, transferVars
<1>0. mode \in Mode /\ active \in Zone \cup {None} /\ rsMode \in BOOLEAN
  BY DEF RemoteInv, SessionType
<1>1. ASSUME NEW z \in Zone, Create(z) PROVE RemoteInv'
  BY <1>0, <1>1, QuietRemoteInv DEF Create, AtPrompt
<1>2. ASSUME NEW z \in Zone, Use(z) PROVE RemoteInv'
  BY <1>0, <1>2, QuietRemoteInv DEF Use, AtPrompt
<1>3. CASE NoZone
  BY <1>3, ForgottenRemoteInv DEF NoZone, Fails, Ends
<1>4. ASSUME NEW m \in Mode, m.kind # "rget", at = "select", Enters(m) PROVE RemoteInv'
  BY <1>0, <1>4, QuietRemoteInv DEF Enters
<1>5. CASE Put
  BY <1>4, <1>5, ModeTypes DEF Put, AtPrompt
<1>6. CASE EnterRs
  BY <1>0, <1>6, QuietRemoteInv DEF EnterRs, AtPrompt
<1>7. ASSUME NEW n \in Name, Get(n) \/ Del(n) PROVE RemoteInv'
  BY <1>4, <1>7, ModeTypes DEF Get, Del, AtPrompt
<1>8. ASSUME NEW i \in Imports, PutSelected(i[1], i[2]) PROVE RemoteInv'
  BY <1>0, <1>8, ModeTypes, QuietRemoteInv DEF PutSelected, Choosing
<1>9. CASE GetSelected
  BY <1>4, <1>9, ModeTypes, ForgottenRemoteInv DEF GetSelected, Choosing, Fails, Ends
<1>10. CASE DelConfirmed
  BY <1>0, <1>10, ModeTypes, QuietRemoteInv DEF DelConfirmed, Choosing
<1>11. CASE Cancel
  BY <1>0, <1>11, ModeTypes, QuietRemoteInv DEF Cancel
<1>12. CASE NoKey
  BY <1>0, <1>12, QuietRemoteInv DEF NoKey
<1> QED
  BY <1>1, <1>2, <1>3, <1>5, <1>6, <1>7, <1>8, <1>9, <1>10, <1>11, <1>12 DEF ZoneCommand

(* A selection among the remote zones, and the operation it asks for. *)
LEMMA SelectingInv ==
    ASSUME RemoteInv, at = "select", NEW op \in Operation \cup {None}, Remotely(op),
           op # None => op.op # "download",
           remote' \in Remote, listing' \in Listing \cup {None}, Shown'
    PROVE  RemoteInv'
<1>1. pending' = op /\ (at' = "pending" <=> op # None) /\ at' \in {"pending", "results"}
      /\ UNCHANGED <<scene, zoneCmdVars, cache, peers, transferVars>>
  BY DEF Remotely, Loop
<1>2. SessionType'
  BY <1>1 DEF RemoteInv, SessionType, zoneCmdVars, transferVars
<1>3. BarHonest' /\ Chosen' /\ RightSource'
  BY <1>1 DEF RemoteInv, BarHonest, Chosen, RightSource, Downloads, zoneCmdVars, transferVars
<1> QED
  BY <1>2, <1>3 DEF RemoteInv

LEMMA SelectionRemote ==
    ASSUME RemoteInv,
           \/ \E i \in 1 .. Cardinality(Peer) : QueryPeer(i) \/ UsePeer(i)
           \/ \E z \in Zone : UseZone(z) \/ ListZone(z)
           \/ ListFiles \/ ListZones
    PROVE  RemoteInv'
<1>1. remote \in Remote /\ listing \in Listing \cup {None} /\ (at = "select" => pending = None)
  BY DEF RemoteInv, SessionType
<1>2. ASSUME NEW i \in 1 .. Cardinality(Peer), QueryPeer(i) \/ UsePeer(i) PROVE RemoteInv'
  <2>1. /\ at = "select" /\ remote' = [NoRemote EXCEPT !.peer = i] /\ listing' = None
        /\ Remotely([op |-> "zones"]) \/ Remotely(None)
    BY <1>2 DEF QueryPeer, UsePeer, AtPrompt
  <2>2. Shown'
    BY <2>1, <1>2 DEF Shown, Awaits, Remotely, Loop
  <2> QED
    BY <2>1, <2>2, NoRemoteType, OperationTypes, SelectingInv
<1>3. ASSUME NEW z \in Zone, UseZone(z) PROVE RemoteInv'
  <2>1. /\ at = "select" /\ remote' = [remote EXCEPT !.zone = z, !.files = <<>>] /\ listing' = listing
        /\ Remotely(None)
    BY <1>3 DEF UseZone, InZone, AtPrompt
  <2>2. remote' \in Remote /\ remote'.files = <<>>
    <3>1. <<>> \in Seq(Name) /\ remote.peer \in 0 .. Cardinality(Peer)
      BY <1>1 DEF Remote
    <3>2. remote' = [peer |-> remote.peer, zone |-> z, files |-> <<>>]
      BY <1>1, <2>1 DEF Remote
    <3> QED
      BY <3>1, <3>2 DEF Remote
  <2>3. Shown'
    BY <2>1, <2>2 DEF Shown, Awaits, Remotely, Loop
  <2> QED
    BY <1>1, <2>1, <2>2, <2>3, SelectingInv
<1>4. ASSUME NEW z \in Zone, ListZone(z) PROVE RemoteInv'
  <2>1. /\ at = "select" /\ remote' = [remote EXCEPT !.zone = z] /\ listing' = listing
        /\ Remotely([op |-> "files", zone |-> z])
    BY <1>4 DEF ListZone, AtPrompt
  <2>2. /\ remote' \in Remote /\ remote'.zone = z
        /\ remote'.peer = remote.peer /\ remote'.files = remote.files
    BY <1>1, <2>1 DEF Remote
  <2>3. pending' = [op |-> "files", zone |-> z] /\ pending' # None
    BY <2>1, OperationTypes, OperationAssumption DEF Remotely, Loop
  <2>4. Shown'
    BY <2>1, <2>2, <2>3 DEF RemoteInv, Shown, Awaits
  <2> QED
    BY <1>1, <2>1, <2>2, <2>4, OperationTypes, SelectingInv
<1>5. CASE ListFiles
  <2>1. /\ at = "select" /\ remote' = remote /\ listing' = listing /\ remote.zone # None
        /\ Remotely([op |-> "selectedFiles"])
    BY <1>5 DEF ListFiles, AtPrompt
  <2>2. pending' = [op |-> "selectedFiles"] /\ cache' = cache
    BY <2>1 DEF Remotely, Loop
  <2>3. Shown'
    BY <1>1, <2>1, <2>2 DEF Shown, Awaits, RemoteInv
  <2> QED
    BY <1>1, <2>1, <2>3, OperationTypes, SelectingInv
<1>6. CASE ListZones
  <2>1. /\ at = "select" /\ remote' = remote /\ listing' = listing
        /\ Remotely([op |-> "selectedZones"])
    BY <1>6 DEF ListZones, AtPrompt
  <2>2. pending' = [op |-> "selectedZones"] /\ cache' = cache
    BY <2>1 DEF Remotely, Loop
  <2>3. Shown'
    BY <1>1, <2>1, <2>2 DEF Shown, Awaits, RemoteInv
  <2> QED
    BY <1>1, <2>1, <2>3, OperationTypes, SelectingInv
<1> QED
  BY <1>2, <1>3, <1>4, <1>5, <1>6

(* The choice of a remote file, and of the place for it. *)
LEMMA GetRemoteInv ==
    ASSUME RemoteInv, (\E k \in 1 .. Cardinality(Name) : GetRemote(k)) \/ GetRemoteSelected
    PROVE  RemoteInv'
<1>1. SessionType
  BY DEF RemoteInv
<1>2. ASSUME NEW k, GetRemote(k) PROVE RemoteInv'
  <2> DEFINE m == [kind |-> "rget", peer |-> remote.peer, zone |-> remote.zone,
                   name |-> remote.files[k], seen |-> listing]
  <2>1. /\ at = "select" /\ remote.peer # 0 /\ remote.zone # None /\ k \in DOMAIN remote.files
        /\ Enters(m)
    BY <1>2 DEF GetRemote, AtPrompt
  <2>2. /\ mode' = m /\ pending = None /\ pending' = None /\ at' = "results"
        /\ UNCHANGED <<scene, active, rsMode, remoteVars, peers, transferVars>>
    BY <1>1, <2>1 DEF Enters, Loop, SessionType
  <2>3. m \in Mode
    <3>1. Cardinality(Peer) \in Nat
      BY SessionAssumption, FS_CardinalityType
    <3>2. remote.peer \in 1 .. Cardinality(Peer) /\ remote.zone \in Zone
          /\ remote.files[k] \in Name /\ listing \in Listing \cup {None}
      BY <1>1, <2>1, <3>1 DEF SessionType, Remote
    <3> QED
      BY <3>2, ModeTypes
  <2>4. SessionType'
    BY <1>1, <2>2, <2>3 DEF SessionType, remoteVars, transferVars
  <2>5. Chosen'
    <3>1. remote.files # <<>>
      BY <2>1
    <3>2. listing # None => listing.index = remote.peer /\ listing.zone = remote.zone
      BY <2>1, <2>2, <3>1 DEF RemoteInv, Shown, Awaits
    <3> QED
      BY <2>2, <3>2 DEF Chosen, remoteVars
  <2>6. BarHonest' /\ Shown' /\ RightSource'
    BY <2>2 DEF RemoteInv, BarHonest, Shown, RightSource, Downloads, Awaits, remoteVars, transferVars
  <2> QED
    BY <2>4, <2>5, <2>6 DEF RemoteInv
<1>3. CASE GetRemoteSelected
  <2> DEFINE o == [op |-> "download", peer |-> mode.peer, zone |-> mode.zone, name |-> mode.name,
                   seen |-> mode.seen]
  <2>1. /\ at = "select" /\ mode.kind = "rget" /\ mode' = Normal /\ Loop(o)
        /\ UNCHANGED <<scene, active, rsMode, remoteVars, peers, transferVars>>
    BY <1>3 DEF GetRemoteSelected, Choosing
  <2>2. o \in Operation /\ o # None
    BY <1>1, <2>1, ModeFields, OperationTypes, OperationAssumption DEF SessionType
  <2>3. pending' = o /\ at' = "pending" /\ pending = None
    BY <1>1, <2>1, <2>2 DEF Loop, SessionType
  <2>4. SessionType'
    BY <1>1, <2>1, <2>2, <2>3, ModeTypes DEF SessionType, remoteVars, transferVars
  <2>5. RightSource'
    BY <2>1, <2>3 DEF RemoteInv, Chosen, RightSource, Downloads, remoteVars
  <2>6. Chosen'
    BY <2>1, ModeTypes DEF Chosen
  <2>7. BarHonest' /\ Shown'
    BY <2>1, <2>3 DEF RemoteInv, BarHonest, Shown, Awaits, remoteVars, transferVars
  <2> QED
    BY <2>4, <2>5, <2>6, <2>7 DEF RemoteInv
<1> QED
  BY <1>2, <1>3

(* A transfer that starts is the one that is read and shown. *)
LEMMA StartsType ==
    ASSUME tasks \in Seq(Task), NEW n \in Name, Starts(n)
    PROVE  /\ tasks' \in Seq(Task) /\ rx' \in 0 .. Len(tasks') /\ bar' \in Name \cup {None}
           /\ BarHonest'
<1> DEFINE old == [i \in DOMAIN tasks |-> [tasks[i] EXCEPT !.queue = <<>>]]
           new == [name |-> n, queue |-> <<>>, over |-> FALSE, shown |-> FALSE]
<1>1. tasks' = Append(old, new) /\ rx' = Len(tasks) + 1 /\ bar' = n
  BY DEF Starts, RxOfNew
<1>2. \A i \in DOMAIN tasks : [tasks[i] EXCEPT !.queue = <<>>] \in Task
  <2> SUFFICES ASSUME NEW i \in DOMAIN tasks PROVE [tasks[i] EXCEPT !.queue = <<>>] \in Task
    OBVIOUS
  <2>1. tasks[i] \in Task /\ <<>> \in Seq(Message)
    OBVIOUS
  <2> QED
    BY <2>1 DEF Task
<1>3. old \in Seq(Task) /\ Len(old) = Len(tasks) /\ Len(tasks) \in Nat
  <2>1. DOMAIN tasks = 1 .. Len(tasks) /\ Len(tasks) \in Nat
    OBVIOUS
  <2>2. old \in [1 .. Len(tasks) -> Task]
    BY <1>2, <2>1
  <2> HIDE DEF old
  <2> QED
    BY <2>1, <2>2
<1>4. new \in Task
  <2>1. <<>> \in Seq(Message)
    OBVIOUS
  <2> QED
    BY <2>1 DEF Task
<1> HIDE DEF old
<1>5. /\ tasks' \in Seq(Task) /\ Len(tasks') = Len(tasks) + 1
      /\ tasks'[Len(tasks) + 1] = new
  BY <1>1, <1>3, <1>4
<1> QED
  BY <1>1, <1>3, <1>5 DEF BarHonest

(* A step about the transfers alone. *)
LEMMA TransferInv ==
    ASSUME RemoteInv, mode' \in Mode, mode'.kind = "rget" => mode' = mode,
           at' = "results" \/ at' = "select" \/ at' = at, at' = "pending" <=> pending' # None,
           pending' = pending \/ (pending' = None /\ ~Awaits("files")),
           tasks' \in Seq(Task), rx' \in 0 .. Len(tasks'), bar' \in Name \cup {None}, BarHonest',
           UNCHANGED <<scene, active, rsMode, remoteVars, peers>>
    PROVE  RemoteInv'
<1>1. SessionType'
  BY DEF RemoteInv, SessionType, remoteVars
<1>2. Shown' /\ Chosen' /\ RightSource'
  BY DEF RemoteInv, Shown, Chosen, RightSource, Downloads, Awaits, remoteVars
<1> QED
  BY <1>1, <1>2 DEF RemoteInv

LEMMA RsRemote ==
    ASSUME RemoteInv,
           \/ \E n \in Name : RsCommand(n) \/ RsPutSelected(n)
           \/ RsUnreadable \/ RsDelConfirmed \/ RsGetSelected
    PROVE  RemoteInv'
<1>1. SessionType
  BY DEF RemoteInv
<1>2. ASSUME NEW m \in Mode, m.kind # "rget", at = "select", Enters(m) PROVE RemoteInv'
  BY <1>1, <1>2, QuietRemoteInv DEF Enters, SessionType
<1>3. ASSUME NEW n \in Name, RsCommand(n) PROVE RemoteInv'
  <2>1. at = "select"
    BY <1>3 DEF RsCommand, AtPrompt
  <2>2. \/ Enters([kind |-> "rsput"]) \/ Enters([kind |-> "rsdel"])
        \/ Enters([kind |-> "rsget", name |-> n])
    BY <1>3 DEF RsCommand
  <2> QED
    BY <1>2, <2>1, <2>2, ModeTypes
<1>4. ASSUME NEW n \in Name, RsPutSelected(n) PROVE RemoteInv'
  <2>1. /\ at = "select" /\ Starts(n) /\ mode' = Normal /\ pending' = None /\ at' = "results"
        /\ UNCHANGED <<scene, active, rsMode, remoteVars, peers>>
    BY <1>4 DEF RsPutSelected, Choosing, Loop
  <2>2. /\ tasks' \in Seq(Task) /\ rx' \in 0 .. Len(tasks') /\ bar' \in Name \cup {None}
        /\ BarHonest'
    BY <1>1, <2>1, StartsType DEF SessionType
  <2>3. ~Awaits("files")
    BY <1>1, <2>1 DEF SessionType, Awaits
  <2> QED
    BY <2>1, <2>2, <2>3, ModeTypes, TransferInv
<1>5. CASE RsUnreadable
  BY <1>5, ForgottenRemoteInv DEF RsUnreadable, Fails, Ends
<1>6. CASE RsDelConfirmed
  BY <1>2, <1>6, ModeTypes DEF RsDelConfirmed, Choosing
<1>7. CASE RsGetSelected
  <2> DEFINE o == [op |-> "rsget", name |-> mode.name]
  <2>1. /\ at = "select" /\ mode.kind = "rsget" /\ mode' = Normal /\ Loop(o)
        /\ UNCHANGED <<scene, active, rsMode, remoteVars, peers, transferVars>>
    BY <1>7 DEF RsGetSelected, Choosing
  <2>2. o \in Operation /\ o # None
    BY <1>1, <2>1, ModeFields, OperationTypes, OperationAssumption DEF SessionType
  <2>3. pending' = o /\ at' = "pending" /\ pending = None
    BY <1>1, <2>1, <2>2 DEF Loop, SessionType
  <2>4. SessionType'
    BY <1>1, <2>1, <2>2, <2>3, ModeTypes DEF SessionType, remoteVars, transferVars
  <2>5. BarHonest' /\ Shown' /\ Chosen' /\ RightSource'
    BY <2>1, <2>3, ModeTypes DEF RemoteInv, BarHonest, Shown, Chosen, RightSource, Downloads,
       Awaits, remoteVars, transferVars
  <2> QED
    BY <2>4, <2>5 DEF RemoteInv
<1> QED
  BY <1>3, <1>4, <1>5, <1>6, <1>7

(* The answer to a listing of zone z. *)
LEMMA AnsweredType ==
    ASSUME SessionType, NEW z \in Zone, Answered(z), UNCHANGED cache
    PROVE  /\ remote' \in Remote /\ listing' \in Listing \cup {None}
           /\ remote'.zone = remote.zone /\ remote'.peer = remote.peer
           /\ \/ listing' # None => listing'.index = remote.peer /\ listing'.zone = z
              \/ /\ listing' = listing /\ listing # None /\ listing.zone = z
                 /\ remote'.files = remote.files
<1>1. remote \in Remote /\ cache \in Seq(Peer)
  BY DEF SessionType
<1>2. CASE Unanswered(z)
  BY <1>1, <1>2 DEF Unanswered, SessionType
<1>3. CASE /\ remote.peer \in DOMAIN cache
           /\ remote' = [remote EXCEPT !.files = Shared[cache[remote.peer]][z]]
           /\ listing' = [index |-> remote.peer, peer |-> cache[remote.peer], zone |-> z]
  <2>1. cache[remote.peer] \in Peer
    BY <1>1, <1>3
  <2>2. Shared[cache[remote.peer]][z] \in Seq(Name)
    BY <2>1, SessionAssumption
  <2>3. remote' \in Remote /\ remote'.peer = remote.peer /\ remote'.zone = remote.zone
    BY <1>1, <1>3, <2>2 DEF Remote
  <2>4. remote.peer \in 1 .. Cardinality(Peer)
    <3>1. remote.peer \in 0 .. Cardinality(Peer) /\ remote.peer # 0
      BY <1>1, <1>3 DEF Remote
    <3> QED
      BY <3>1, SessionAssumption, FS_CardinalityType
  <2>5. listing' \in Listing
    BY <1>3, <2>1, <2>4 DEF Listing
  <2> QED
    BY <1>3, <2>3, <2>5
<1> QED
  BY <1>2, <1>3 DEF Answered

LEMMA ProcessRemote ==
    ASSUME RemoteInv, ProcessPending
    PROVE  RemoteInv'
<1>1. SessionType /\ pending \in Operation /\ pending # None
  BY DEF RemoteInv, SessionType, ProcessPending
<1>2. /\ pending' = None /\ at' = "results" /\ cache' = cache
      /\ UNCHANGED <<scene, mode, active, rsMode, peers>>
  BY DEF ProcessPending, Loop, zoneCmdVars
<1>3. ASSUME UNCHANGED transferVars, remote' \in Remote, listing' \in Listing \cup {None}, Shown'
      PROVE  RemoteInv'
  <2>1. SessionType'
    BY <1>1, <1>2, <1>3 DEF SessionType, transferVars
  <2>2. BarHonest' /\ Chosen' /\ RightSource'
    BY <1>2, <1>3 DEF RemoteInv, BarHonest, Chosen, RightSource, Downloads, transferVars
  <2> QED
    BY <1>3, <2>1, <2>2 DEF RemoteInv
<1>4. ASSUME NEW n \in Name, Starts(n), UNCHANGED <<remote, listing>>, pending.op # "files"
      PROVE  RemoteInv'
  <2>1. /\ tasks' \in Seq(Task) /\ rx' \in 0 .. Len(tasks') /\ bar' \in Name \cup {None}
        /\ BarHonest'
    BY <1>1, <1>4, StartsType DEF SessionType
  <2>2. mode \in Mode
    BY <1>1 DEF SessionType
  <2> QED
    BY <1>2, <1>4, <2>1, <2>2, TransferInv DEF Awaits, remoteVars
<1>5. remote \in Remote /\ listing \in Listing \cup {None}
  BY <1>1 DEF SessionType
<1>6. CASE pending.op \in {"zones", "download"} /\ UNCHANGED <<remote, listing, transferVars>>
  <2>1. Shown'
    BY <1>2, <1>6 DEF RemoteInv, Shown, Awaits
  <2> QED
    BY <1>3, <1>5, <1>6, <2>1
<1>7. CASE pending.op = "selectedZones"
  <2>1. /\ remote' = IF remote.peer \in DOMAIN cache THEN remote ELSE [remote EXCEPT !.peer = 0]
        /\ UNCHANGED <<listing, transferVars>>
    BY <1>7 DEF ProcessPending
  <2>2. remote' \in Remote /\ (remote' = remote \/ remote'.peer = 0)
    <3>1. 0 \in 0 .. Cardinality(Peer)
      BY SessionAssumption, FS_CardinalityType
    <3> QED
      BY <1>5, <2>1, <3>1 DEF Remote
  <2>3. Shown'
    BY <1>1, <1>2, <1>7, <2>1, <2>2 DEF RemoteInv, Shown, Awaits
  <2> QED
    BY <1>3, <1>5, <2>1, <2>2, <2>3
<1>8. CASE pending.op = "files"
  <2>1. Answered(pending.zone) /\ UNCHANGED transferVars
    BY <1>8 DEF ProcessPending
  <2>2. pending.zone \in Zone /\ pending.zone = remote.zone
    BY <1>1, <1>8, OperationFields DEF RemoteInv, Shown, Awaits
  <2>3. /\ remote' \in Remote /\ listing' \in Listing \cup {None}
        /\ remote'.zone = remote.zone /\ remote'.peer = remote.peer
        /\ \/ listing' # None => listing'.index = remote.peer /\ listing'.zone = pending.zone
           \/ /\ listing' = listing /\ listing # None /\ listing.zone = pending.zone
              /\ remote'.files = remote.files
    BY <1>1, <1>2, <2>1, <2>2, AnsweredType
  <2>4. Shown'
    BY <1>2, <2>2, <2>3 DEF RemoteInv, Shown, Awaits
  <2> QED
    BY <1>3, <2>1, <2>3, <2>4
<1>9. CASE pending.op = "selectedFiles"
  <2>1. Answered(remote.zone) /\ UNCHANGED transferVars
    BY <1>9 DEF ProcessPending
  <2>2. remote.zone \in Zone
    BY <1>1, <1>5, <1>9 DEF RemoteInv, Shown, Awaits, Remote
  <2>3. /\ remote' \in Remote /\ listing' \in Listing \cup {None}
        /\ remote'.zone = remote.zone /\ remote'.peer = remote.peer
        /\ \/ listing' # None => listing'.index = remote.peer /\ listing'.zone = remote.zone
           \/ /\ listing' = listing /\ listing # None /\ listing.zone = remote.zone
              /\ remote'.files = remote.files
    BY <1>1, <1>2, <2>1, <2>2, AnsweredType
  <2>4. Shown'
    BY <1>2, <2>3 DEF RemoteInv, Shown, Awaits
  <2> QED
    BY <1>3, <2>1, <2>3, <2>4
<1>10. CASE pending.op = "rsget"
  <2>1. Starts(pending.name) /\ UNCHANGED <<remote, listing>>
    BY <1>10 DEF ProcessPending
  <2> QED
    BY <1>1, <1>4, <1>10, <2>1, OperationFields
<1>11. CASE pending.op = "download"
  <2>1. Starts(pending.name) \/ UNCHANGED transferVars
    BY <1>11 DEF ProcessPending
  <2>2. UNCHANGED <<remote, listing>>
    BY <1>11 DEF ProcessPending
  <2> QED
    BY <1>1, <1>4, <1>6, <1>11, <2>1, <2>2, OperationFields
<1>12. CASE pending.op = "zones"
  BY <1>6, <1>12 DEF ProcessPending
<1> QED
  BY <1>1, <1>7, <1>8, <1>9, <1>10, <1>11, <1>12, OperationFields

LEMMA RxiuRemote ==
    ASSUME RemoteInv, Rxiu
    PROVE  RemoteInv'
<1>1. SessionType /\ at = "select" /\ pending = None /\ mode = Normal
  BY DEF RemoteInv, SessionType, Rxiu, AtPrompt
<1>2. /\ at' = "results" /\ pending' = None /\ mode' = Normal /\ rsMode' = FALSE /\ active' = None
      /\ remote' = NoRemote /\ listing' = None /\ bar' = None /\ rx' = rx
      /\ UNCHANGED <<scene, cache, peers, tasks>>
  BY <1>1 DEF Rxiu, RxAfterRxiu, Loop
<1>3. SessionType'
  BY <1>1, <1>2, NoRemoteType DEF SessionType
<1>4. BarHonest' /\ Shown' /\ Chosen' /\ RightSource'
  BY <1>2, ModeTypes DEF BarHonest, Shown, Chosen, RightSource, Downloads, Awaits
<1> QED
  BY <1>3, <1>4 DEF RemoteInv

LEMMA TaskChanged ==
    ASSUME NEW r \in Task, NEW q \in Seq(Message), NEW o \in BOOLEAN
    PROVE  /\ [r EXCEPT !.queue = q, !.over = o] \in Task
           /\ [r EXCEPT !.queue = q, !.over = o].name = r.name
           /\ [r EXCEPT !.queue = q, !.over = o].shown = r.shown
           /\ [r EXCEPT !.over = o] \in Task
           /\ [r EXCEPT !.over = o].name = r.name
           /\ [r EXCEPT !.over = o].shown = r.shown
           /\ [r EXCEPT !.queue = q] \in Task
           /\ [r EXCEPT !.queue = q].name = r.name
           /\ [r EXCEPT !.queue = q].shown = r.shown
           /\ [r EXCEPT !.queue = q, !.shown = o] \in Task
  BY DEF Task

(* The message of a transfer, or its panic. *)
LEMMA TaskRemote ==
    ASSUME RemoteInv, NEW i \in DOMAIN tasks, TaskSends(i) \/ TaskPanics(i)
    PROVE  RemoteInv'
<1>1. SessionType /\ tasks \in Seq(Task) /\ tasks[i] \in Task
  BY DEF RemoteInv, SessionType
<1>2. PICK t \in Task : tasks' = [tasks EXCEPT ![i] = t] /\ t.name = tasks[i].name /\ t.shown = tasks[i].shown
  <2>1. ASSUME NEW m \in Message, Sends(i, m)
        PROVE  \E t \in Task : tasks' = [tasks EXCEPT ![i] = t] /\ t.name = tasks[i].name
                               /\ t.shown = tasks[i].shown
    <3> DEFINE q == IF i = rx THEN Append(tasks[i].queue, m) ELSE tasks[i].queue
               o == m # "progress"
               t == [tasks[i] EXCEPT !.queue = q, !.over = o]
    <3>1. q \in Seq(Message) /\ o \in BOOLEAN
      BY <1>1 DEF Task
    <3>2. t \in Task /\ t.name = tasks[i].name /\ t.shown = tasks[i].shown
      <4> HIDE DEF q, o
      <4>1. tasks[i] \in Task
        BY <1>1
      <4>2. t \in Task
        BY <3>1, <4>1 DEF Task
      <4>3. t.name = tasks[i].name
        BY <3>1, <4>1 DEF Task
      <4>4. t.shown = tasks[i].shown
        BY <3>1, <4>1 DEF Task
      <4> QED
        BY <4>2, <4>3, <4>4
    <3>3. tasks' = [tasks EXCEPT ![i] = t]
      BY <1>1, <2>1 DEF Sends
    <3> QED
      BY <3>2, <3>3
  <2>2. ASSUME TaskPanics(i)
        PROVE  \E t \in Task : tasks' = [tasks EXCEPT ![i] = t] /\ t.name = tasks[i].name
                               /\ t.shown = tasks[i].shown
    <3> DEFINE t == [tasks[i] EXCEPT !.over = TRUE]
    <3>1. <<>> \in Seq(Message)
      OBVIOUS
    <3>2. t \in Task /\ t.name = tasks[i].name /\ t.shown = tasks[i].shown
      BY <1>1, <3>1, TaskChanged
    <3>3. tasks' = [tasks EXCEPT ![i] = t]
      BY <2>2 DEF TaskPanics
    <3> QED
      BY <3>2, <3>3
  <2> QED
    BY <2>1, <2>2 DEF TaskSends
<1>3. UNCHANGED <<scene, at, mode, active, rsMode, remoteVars, peers, pending, bar, rx>>
  BY DEF TaskSends, TaskPanics, zoneCmdVars
<1>4. tasks' \in Seq(Task) /\ Len(tasks') = Len(tasks)
      /\ \A j \in DOMAIN tasks : tasks'[j].name = tasks[j].name /\ tasks'[j].shown = tasks[j].shown
  BY <1>1, <1>2
<1>5. rx \in 0 .. Len(tasks) /\ (rx # 0 => rx \in DOMAIN tasks)
  BY <1>1 DEF SessionType
<1>6. BarHonest'
  BY <1>3, <1>4, <1>5 DEF RemoteInv, BarHonest
<1>7. /\ mode' \in Mode /\ mode' = mode /\ at' = at /\ pending' = pending
      /\ at' = "pending" <=> pending' # None
      /\ bar' \in Name \cup {None} /\ rx' \in 0 .. Len(tasks')
      /\ UNCHANGED <<scene, active, rsMode, remoteVars, peers>>
  BY <1>1, <1>3, <1>4 DEF SessionType
<1> QED
  BY <1>4, <1>6, <1>7, TransferInv

LEMMA ResultsRemote ==
    ASSUME RemoteInv, Results
    PROVE  RemoteInv'
<1>1. SessionType /\ tasks \in Seq(Task) /\ rx \in 0 .. Len(tasks) /\ pending = None
  BY DEF RemoteInv, SessionType, Results
<1>2. at' = "select" /\ UNCHANGED <<scene, mode, active, rsMode, remoteVars, peers, pending>>
  BY DEF Results, zoneCmdVars
<1>3. /\ tasks' \in Seq(Task) /\ rx' \in 0 .. Len(tasks') /\ bar' \in Name \cup {None}
      /\ BarHonest'
  <2>1. CASE UNCHANGED transferVars
    BY <1>1, <2>1 DEF RemoteInv, SessionType, BarHonest, transferVars
  <2>2. CASE rx # 0 /\ tasks[rx].queue # <<>> /\ tasks' = [tasks EXCEPT ![rx].queue = Tail(@)]
             /\ UNCHANGED <<bar, rx>>
    <3> DEFINE t == [tasks[rx] EXCEPT !.queue = Tail(tasks[rx].queue)]
    <3>1. rx \in DOMAIN tasks /\ tasks[rx] \in Task
      BY <1>1, <2>2
    <3>2. Tail(tasks[rx].queue) \in Seq(Message) /\ TRUE \in BOOLEAN
      BY <2>2, <3>1 DEF Task
    <3>3. t \in Task /\ t.name = tasks[rx].name /\ t.shown = tasks[rx].shown
      BY <3>1, <3>2, TaskChanged
    <3>4. tasks' = [tasks EXCEPT ![rx] = t]
      BY <2>2
    <3> HIDE DEF t
    <3>5. tasks' \in Seq(Task) /\ Len(tasks') = Len(tasks) /\ tasks'[rx] = t
      BY <1>1, <3>1, <3>3, <3>4
    <3> QED
      BY <1>1, <2>2, <3>3, <3>5 DEF RemoteInv, SessionType, BarHonest
  <2>3. CASE rx # 0 /\ tasks' = [tasks EXCEPT ![rx].queue = <<>>, ![rx].shown = TRUE]
             /\ bar' = None /\ rx' = 0
    <3> DEFINE t == [tasks[rx] EXCEPT !.queue = <<>>, !.shown = TRUE]
    <3>1. rx \in DOMAIN tasks /\ tasks[rx] \in Task /\ <<>> \in Seq(Message)
      BY <1>1, <2>3
    <3>2. t \in Task
      BY <3>1, TaskChanged
    <3>3. tasks' = [tasks EXCEPT ![rx] = t]
      BY <2>3
    <3> HIDE DEF t
    <3>4. tasks' \in Seq(Task) /\ Len(tasks') \in Nat
      BY <1>1, <3>1, <3>2, <3>3
    <3> QED
      BY <2>3, <3>4 DEF BarHonest
  <2> QED
    BY <2>1, <2>2, <2>3 DEF Results
<1>4. mode' \in Mode /\ mode' = mode /\ pending' = pending /\ pending' = None
  BY <1>1, <1>2 DEF SessionType
<1> QED
  BY <1>2, <1>3, <1>4, TransferInv

LEMMA PollRemote ==
    ASSUME RemoteInv, PollPeers
    PROVE  RemoteInv'
<1>1. SessionType /\ at = "select" /\ pending = None
  BY DEF RemoteInv, SessionType, PollPeers
<1>2. /\ pending' = None /\ at' = "results" /\ cache' \in {peers, <<>>}
      /\ UNCHANGED <<scene, zoneCmdVars, remote, listing, peers, transferVars>>
  BY DEF PollPeers, Loop
<1>3. cache' \in Seq(Peer)
  <2>1. peers \in Seq(Peer) /\ <<>> \in Seq(Peer)
    BY <1>1, SessionAssumption DEF SessionType
  <2> QED
    BY <1>2, <2>1
<1>4. SessionType'
  BY <1>1, <1>2, <1>3 DEF SessionType, transferVars, zoneCmdVars
<1> QED
  BY <1>1, <1>2, <1>4 DEF RemoteInv, BarHonest, Shown, Chosen, RightSource, Downloads,
     Awaits, transferVars, zoneCmdVars

LEMMA RemoteStep ==
    ASSUME RemoteInv, [Next]_vars
    PROVE  RemoteInv'
<1>0. peers \in PeerLists
  BY DEF RemoteInv, SessionType
<1>1. CASE ZoneCommand \/ Cancel \/ NoKey
  BY <1>1, ZoneCommandRemote
<1>2. CASE RemoteCommand
  BY <1>2, SelectionRemote, GetRemoteInv, RsRemote DEF RemoteCommand
<1>3. CASE Rxiu
  BY <1>3, RxiuRemote
<1>4. CASE Quit \/ KillSession
  BY <1>4, ForgottenRemoteInv DEF Quit, KillSession, Ends
<1>5. CASE StorageFails
  BY <1>5, ForgottenRemoteInv DEF StorageFails
<1>6. CASE StorageStep \/ StartSession \/ Others
  BY <1>0, <1>6, StillRemoteInv DEF StorageStep, StartSession, Others
<1>7. CASE ProcessPending
  BY <1>7, ProcessRemote
<1>8. CASE Results
  BY <1>8, ResultsRemote
<1>9. CASE PollPeers
  BY <1>9, PollRemote
<1>10. CASE \E i \in DOMAIN tasks : TaskSends(i) \/ TaskPanics(i)
  BY <1>10, TaskRemote
<1>11. CASE PeersChange
  BY <1>11, StillRemoteInv DEF PeersChange
<1>12. CASE UNCHANGED vars
  BY <1>0, <1>12, StillRemoteInv DEF vars
<1> QED
  BY <1>1, <1>2, <1>3, <1>4, <1>5, <1>6, <1>7, <1>8, <1>9, <1>10, <1>11, <1>12 DEF Next

LEMMA RemoteCorrect == Spec => []RemoteInv
<1>1. Init => RemoteInv
  BY FreshRemoteInv DEF Init
<1>2. RemoteInv /\ [Next]_vars => RemoteInv'
  BY RemoteStep
<1> QED
  BY <1>1, <1>2, PTL DEF Spec

(* The bar at the bottom is about the transfer whose messages the loop reads *)
(* (tui/app.rs transfer, transfer_rx), and its outcome is still to come.    *)
THEOREM BarIsHonest == Spec => []BarHonest
<1>1. RemoteInv => BarHonest
  BY DEF RemoteInv
<1> QED
  BY <1>1, RemoteCorrect, PTL

(* rget (tui/app.rs pending operations) fetches from the zone the user was   *)
(* shown, and from the peer he was shown unless the list of peers, between   *)
(* the listing and the download, has given that peer's number to another.   *)
THEOREM SourceIsRight == Spec => []RightSource
<1>1. RemoteInv => RightSource
  BY DEF RemoteInv
<1> QED
  BY <1>1, RemoteCorrect, PTL

-----------------------------------------------------------------------------
(* Own zones: what the list of a zone holds after a deletion, and what peers *)
(* are told from it.                                                       *)

(* f is the function that Without is defined by, up to m. *)
Keeping(n, l, m, f) ==
    f = [i \in 0 .. m |-> IF i = 0 THEN <<>>
                          ELSE IF l[i].name = n THEN f[i - 1] ELSE Append(f[i - 1], l[i])]

LEMMA KeepingExists ==
    ASSUME NEW n, NEW l \in Seq(Entry)
    PROVE  \A m \in Nat : \E f : Keeping(n, l, m, f)
<1> DEFINE Bad == {m \in Nat : ~ \E f : Keeping(n, l, m, f)}
<1>1. SUFFICES ASSUME Bad # {} PROVE FALSE
  OBVIOUS
<1>2. PICK m \in Bad : \A k \in Bad : ~(<<k, m>> \in OpToRel(<, Nat))
  <2>1. Bad \subseteq Nat
    OBVIOUS
  <2> HIDE DEF Bad
  <2> QED
    BY <1>1, <2>1, NatLessThanWellFounded, WFMin
<1>3. \A k \in Bad : ~(k < m)
  BY <1>2 DEF OpToRel
<1>4. CASE m = 0
  <2>1. Keeping(n, l, 0, [i \in 0 .. 0 |-> <<>>])
    BY DEF Keeping
  <2> QED
    BY <1>4, <2>1
<1>5. CASE m # 0
  <2>1. m - 1 \in Nat /\ ~(m - 1 \in Bad)
    BY <1>3, <1>5
  <2>2. PICK g : Keeping(n, l, m - 1, g)
    BY <2>1
  <2> DEFINE last == IF l[m].name = n THEN g[m - 1] ELSE Append(g[m - 1], l[m])
             f == [i \in 0 .. m |-> IF i = m THEN last ELSE g[i]]
  <2>3. m \in Nat
    OBVIOUS
  <2>4. DOMAIN f = 0 .. m /\ f = [i \in 0 .. m |-> f[i]]
    OBVIOUS
  <2>5. ASSUME NEW i \in 0 .. m
        PROVE  f[i] = IF i = 0 THEN <<>>
                          ELSE IF l[i].name = n THEN f[i - 1] ELSE Append(f[i - 1], l[i])
    <3>1. CASE i = m
      <4>1. f[i] = last /\ f[i - 1] = g[m - 1]
        BY <1>5, <2>3, <3>1
      <4> QED
        BY <1>5, <3>1, <4>1
    <3>2. CASE i = 0
      BY <1>5, <2>2, <2>3, <3>2 DEF Keeping
    <3>3. CASE i # m /\ i # 0
      <4>1. i \in 0 .. m - 1 /\ i - 1 \in 0 .. m /\ i - 1 # m
        BY <2>3, <3>3
      <4>2. f[i] = g[i] /\ f[i - 1] = g[i - 1]
        BY <3>3, <4>1
      <4>3. g[i] = IF i = 0 THEN <<>>
                          ELSE IF l[i].name = n THEN g[i - 1] ELSE Append(g[i - 1], l[i])
        BY <2>2, <4>1 DEF Keeping
      <4> HIDE DEF f
      <4> QED
        BY <4>2, <4>3
    <3> QED
      BY <3>1, <3>2, <3>3
  <2> HIDE DEF f
  <2>6. Keeping(n, l, m, f)
    BY <2>4, <2>5 DEF Keeping
  <2> QED
    BY <2>6
<1> QED
  BY <1>4, <1>5

(* A deletion removes the entries of the name, and adds none. *)
LEMMA WithoutKeeps ==
    ASSUME NEW n, NEW l \in Seq(Entry)
    PROVE  /\ Without(n, l) \in Seq(Entry)
           /\ \A i \in DOMAIN Without(n, l) : \E k \in DOMAIN l : Without(n, l)[i] = l[k] /\ l[k].name # n
<1> DEFINE kept == CHOOSE f : Keeping(n, l, Len(l), f)
           Rest(s) == /\ s \in Seq(Entry)
                      /\ \A i \in DOMAIN s : \E k \in DOMAIN l : s[i] = l[k] /\ l[k].name # n
           Bad == {i \in 0 .. Len(l) : ~Rest(kept[i])}
<1>1. Without(n, l) = kept[Len(l)]
  BY DEF Without, Keeping
<1>2. Keeping(n, l, Len(l), kept)
  <2>1. Len(l) \in Nat
    OBVIOUS
  <2> QED
    BY <2>1, KeepingExists
<1> HIDE DEF kept
<1>3. SUFFICES ASSUME Bad # {} PROVE FALSE
  BY <1>1
<1>4. PICK m \in Bad : \A k \in Bad : ~(<<k, m>> \in OpToRel(<, Nat))
  <2>1. Bad \subseteq Nat
    OBVIOUS
  <2> HIDE DEF Bad
  <2> QED
    BY <1>3, <2>1, NatLessThanWellFounded, WFMin
<1>5. \A k \in Bad : ~(k < m)
  <2>1. Len(l) \in Nat
    OBVIOUS
  <2>2. \A k \in Bad : k \in Nat /\ m \in Nat
    BY <2>1
  <2> HIDE DEF Bad
  <2> QED
    BY <1>4, <2>2 DEF OpToRel
<1>6. m \in 0 .. Len(l) /\ ~Rest(kept[m])
  OBVIOUS
<1>7. kept[m] = IF m = 0 THEN <<>>
                ELSE IF l[m].name = n THEN kept[m - 1] ELSE Append(kept[m - 1], l[m])
  BY <1>2, <1>6 DEF Keeping
<1>8. CASE m = 0
  BY <1>6, <1>7, <1>8
<1>9. CASE m # 0
  <2>1. m \in DOMAIN l /\ m - 1 \in 0 .. Len(l) /\ m - 1 < m
    BY <1>6, <1>9
  <2>2. Rest(kept[m - 1])
    BY <1>5, <2>1
  <2>3. l[m].name # n /\ kept[m] = Append(kept[m - 1], l[m]) /\ l[m] \in Entry
    BY <1>6, <1>7, <1>9, <2>1, <2>2
  <2>4. Rest(Append(kept[m - 1], l[m]))
    <3> DEFINE s == kept[m - 1]
    <3>1. s \in Seq(Entry) /\ \A i \in DOMAIN s : \E k \in DOMAIN l : s[i] = l[k] /\ l[k].name # n
      BY <2>2
    <3> HIDE DEF s
    <3>2. Append(s, l[m]) \in Seq(Entry)
      BY <2>3, <3>1
    <3>3. ASSUME NEW i \in DOMAIN Append(s, l[m])
          PROVE  \E k \in DOMAIN l : Append(s, l[m])[i] = l[k] /\ l[k].name # n
      <4>1. (i \in DOMAIN s /\ Append(s, l[m])[i] = s[i]) \/ Append(s, l[m])[i] = l[m]
        BY <2>3, <3>1
      <4> QED
        BY <2>1, <2>3, <3>1, <4>1
    <3> QED
      BY <3>2, <3>3 DEF s
  <2> QED
    BY <1>6, <2>3, <2>4
<1> QED
  BY <1>8, <1>9

(* Peers are told what one of the entries of the name says. *)
LEMMA ServedFirst ==
    ASSUME NEW z \in Zone, NEW n, list[z] \in Seq(Entry), Named(z, n) # {}
    PROVE  \E i \in Named(z, n) : ServedMeta(z, n) = list[z][i].content
<1> DEFINE I == Named(z, n)
<1>1. I \subseteq Nat
  BY DEF Named
<1> HIDE DEF I
<1>2. PICK m \in I : \A k \in I : ~(<<k, m>> \in OpToRel(<, Nat))
  BY <1>1, NatLessThanWellFounded, WFMin DEF I
<1>3. \A k \in I : m <= k
  <2>1. \A k \in I : k \in Nat /\ m \in Nat
    BY <1>1
  <2>2. \A k \in I : ~(k < m)
    BY <1>2, <2>1 DEF OpToRel
  <2> QED
    BY <2>1, <2>2
<1>4. (CHOOSE i \in I : \A j \in I : i <= j) \in I
  BY <1>3
<1> QED
  BY <1>4 DEF ServedMeta, I

(* What the variants of storage calls have. *)
LEMMA JobFields ==
    ASSUME NEW j \in JobType
    PROVE  /\ j # NoJob /\ j.kind \in {"create", "store", "delete"} /\ j.zone \in Zone
           /\ j.kind = "create" => j.at \in {"init", "initWrite", "register", "registerWrite"}
           /\ j.kind = "store" => /\ j.at \in {"file", "fill", "load", "save", "saveWrite"}
                                  /\ j.content \in Content
           /\ j.kind = "delete" => j.at \in {"unlink", "load", "save", "saveWrite"}
           /\ j.kind # "create" => j.name \in Name /\ j.new \in Seq(Entry)
  BY ZonesAssumption DEF JobType

(* A call that goes on stays the call it is. *)
LEMMA JobGoes ==
    ASSUME NEW j \in JobType, NEW a,
           \/ j.kind = "create" /\ a \in {"initWrite", "register", "registerWrite"}
           \/ j.kind = "store" /\ a \in {"fill", "load", "saveWrite"}
           \/ j.kind = "delete" /\ a \in {"load", "saveWrite"}
    PROVE  LET k == [j EXCEPT !.at = a]
           IN  /\ k \in JobType /\ k.kind = j.kind /\ k.at = a /\ k.zone = j.zone
               /\ j.kind # "create" => k.name = j.name /\ k.new = j.new
               /\ j.kind = "store" => k.content = j.content
  BY DEF JobType

LEMMA JobLoads ==
    ASSUME NEW j \in JobType, j.kind # "create", NEW l \in Seq(Entry)
    PROVE  LET k == [j EXCEPT !.at = "save", !.new = l]
           IN  /\ k \in JobType /\ k.kind = j.kind /\ k.at = "save" /\ k.zone = j.zone
               /\ k.name = j.name /\ k.new = l
               /\ j.kind = "store" => k.content = j.content
  BY DEF JobType

LEMMA MyJob ==
    ASSUME OneTui, ZonesType, NEW k \in JobType \cup {NoJob}, job' = [job EXCEPT ![Me] = k]
    PROVE  job' \in [Tui -> JobType \cup {NoJob}] /\ J' = k
  BY DEF OneTui, ZonesType, J

(* What the daemon serves is as true as the entries are. *)
LEMMA EntriesMetaTrue ==
    ASSUME OneTui, ZonesType, ListsTrue
    PROVE  MetaTrue
<1> SUFFICES ASSUME NEW z \in Zone, NEW n \in Name, Named(z, n) # {}, <<z, n>> \notin cut
             PROVE  \/ ServedChunks(z, n) = ServedMeta(z, n)
                    \/ ServedChunks(z, n) = Absent /\ InWork(z, n)
  BY DEF MetaTrue
<1>1. Readable(z) /\ list[z] \in Seq(Entry)
  BY DEF Named, Readable, ZonesType
<1>2. PICK i \in Named(z, n) : ServedMeta(z, n) = list[z][i].content
  BY <1>1, ServedFirst
<1>3. i \in DOMAIN list[z] /\ list[z][i].name = n
  BY <1>2 DEF Named
<1>4. Fits(z, list[z][i])
  BY <1>1, <1>3 DEF ListsTrue
<1>5. Me \in Tui
  BY SessionAssumption
<1>6. Removing(z, n) => InWork(z, n)
  BY <1>5 DEF Removing, InWork, Doing, J
<1> QED
  BY <1>2, <1>3, <1>4, <1>6 DEF Fits, ServedChunks

(* A step that leaves the zones alone. *)
LEMMA StillZones ==
    ASSUME LocalInv, UNCHANGED zoneVars, ZoneChosen'
    PROVE  LocalInv'
<1>1. UNCHANGED <<registry, list, files, loaded, job, cut>> /\ J' = J
  BY DEF zoneVars, J
<1>2. ZonesType' /\ ListsThere' /\ JobTrue'
  BY <1>1 DEF LocalInv, ZonesType, ListsThere, JobTrue, Doing, Named, Readable
<1>3. \A z, e : Fits(z, e)' <=> Fits(z, e)
  BY <1>1 DEF Fits, Removing, Doing
<1>4. ListsTrue'
  BY <1>1, <1>3 DEF LocalInv, ListsTrue, Readable
<1>5. NewTrue'
  BY <1>1, <1>3 DEF LocalInv, NewTrue
<1> QED
  BY <1>2, <1>4, <1>5 DEF LocalInv

(* The session ends: the call is broken off, and what it was about is cut.  *)
LEMMA SessionGone ==
    ASSUME OneTui, LocalInv, Dies(Me), ForgetsAll, UNCHANGED <<registry, list, files>>
    PROVE  LocalInv'
<1>1. ZonesType /\ Me \in Process /\ Me \in Tui
  BY SessionAssumption DEF LocalInv, Process
<1>2. /\ loaded' = [loaded EXCEPT ![Me] = Off] /\ loaded'[Me] = Off
      /\ loaded' \in [Process -> (SUBSET Zone) \cup {Off}]
  <2>1. loaded' = [loaded EXCEPT ![Me] = Off]
    BY DEF Dies
  <2> DEFINE Loaded == (SUBSET Zone) \cup {Off}
  <2>2. Off \in Loaded
    OBVIOUS
  <2>3. loaded \in [Process -> Loaded]
    BY <1>1, Zenon DEF ZonesType
  <2> HIDE DEF Loaded
  <2>4. loaded' \in [Process -> Loaded] /\ loaded'[Me] = Off
    BY <1>1, <2>1, <2>2, <2>3
  <2> QED
    BY <2>1, <2>4, Zenon DEF Loaded
<1>3. job' \in [Tui -> JobType \cup {NoJob}] /\ J' = NoJob
  BY <1>1, MyJob DEF Dies, ZonesType, J
<1>4. /\ cut' \in SUBSET (Zone \X Name) /\ cut \subseteq cut'
      /\ \A z \in Zone, n \in Name : Removing(z, n) => <<z, n>> \in cut'
  <2>1. CASE J = NoJob
    BY <1>1, <2>1 DEF Dies, ZonesType, J, Removing, Doing
  <2>2. CASE J # NoJob
    <3>1. J \in JobType
      BY <1>1, <2>2 DEF ZonesType, J
    <3>2. cut' = IF J.kind = "create" THEN cut ELSE cut \cup {<<J.zone, J.name>>}
      BY <1>1, <2>2 DEF Dies, J
    <3> QED
      BY <1>1, <3>1, <3>2, JobFields DEF ZonesType, Removing, Doing
  <2> QED
    BY <2>1, <2>2
<1>5. ZonesType'
  BY <1>1, <1>2, <1>3, <1>4 DEF ZonesType
<1>6. ListsThere' /\ JobTrue' /\ NewTrue'
  BY <1>2, <1>3 DEF ListsThere, JobTrue, NewTrue, Doing
<1>7. ListsTrue'
  <2> SUFFICES ASSUME NEW z \in Zone, Readable(z)', NEW i \in DOMAIN list[z]
               PROVE  Fits(z, list[z][i])'
    BY DEF ListsTrue
  <2>1. Readable(z) /\ list[z] \in Seq(Entry) /\ Fits(z, list[z][i])
    BY <1>1 DEF LocalInv, ListsTrue, Readable, ZonesType
  <2>2. list[z][i].name \in Name
    <3>1. list[z][i] \in Entry
      BY <2>1
    <3> QED
      BY <3>1 DEF Entry
  <2> QED
    BY <1>4, <2>1, <2>2 DEF Fits
<1>8. ZoneChosen'
  BY <1>3, ModeTypes DEF ForgetsAll, ZoneChosen
<1> QED
  BY <1>5, <1>6, <1>7, <1>8 DEF LocalInv

(* A call begins. *)
LEMMA CallBegins ==
    ASSUME OneTui, LocalInv, J = NoJob, NEW k \in JobType, job' = [job EXCEPT ![Me] = k],
           k.at \in {"init", "file", "unlink"},
           loaded[Me] # Off, k.kind # "create" => k.zone \in loaded[Me],
           k.at = "file" => Free(k.zone, k.name),
           UNCHANGED <<registry, list, files, loaded, cut>>, mode' = Normal
    PROVE  LocalInv'
<1>1. ZonesType /\ ListsThere /\ ListsTrue
  BY DEF LocalInv
<1>2. job' \in [Tui -> JobType \cup {NoJob}] /\ J' = k
  BY <1>1, MyJob
<1>3. /\ k # NoJob /\ k.zone \in Zone /\ k.kind \in {"create", "store", "delete"}
      /\ k.kind = "create" => k.at = "init"
      /\ k.kind = "store" => k.at = "file"
      /\ k.kind = "delete" => k.at = "unlink"
      /\ k.kind # "create" => k.name \in Name
  BY JobFields
<1>4. ZonesType'
  BY <1>1, <1>2 DEF ZonesType
<1>5. ListsThere'
  BY <1>1, <1>2, <1>3 DEF ListsThere, Doing
<1>6. \A z, e : Fits(z, e) => Fits(z, e)'
  BY DEF Fits, Removing, Doing
<1>7. ListsTrue'
  BY <1>1, <1>6 DEF ListsTrue, Readable
<1>8. k.at = "file" /\ <<k.zone, k.name>> \notin cut => Named(k.zone, k.name) = {}
  <2> SUFFICES ASSUME k.at = "file", <<k.zone, k.name>> \notin cut, NEW i \in Named(k.zone, k.name)
               PROVE  FALSE
    OBVIOUS
  <2>1. Readable(k.zone) /\ i \in DOMAIN list[k.zone] /\ list[k.zone][i].name = k.name
    BY DEF Named
  <2>2. list[k.zone] \in Seq(Entry)
    BY <1>1, <1>3, <2>1 DEF ZonesType, Readable
  <2>3. list[k.zone][i].content \in Content
    <3>1. list[k.zone][i] \in Entry
      BY <2>1, <2>2
    <3> QED
      BY <3>1 DEF Entry
  <2>4. Fits(k.zone, list[k.zone][i])
    BY <1>1, <1>3, <2>1 DEF ListsTrue
  <2>5. files[k.zone][k.name] = list[k.zone][i].content
    BY <2>1, <2>4 DEF Fits, Removing, Doing
  <2> QED
    BY <2>3, <2>5, ZonesAssumption DEF Free
<1>9. JobTrue'
  BY <1>2, <1>3, <1>8 DEF JobTrue, Doing, Named, Readable
<1>10. NewTrue' /\ ZoneChosen'
  BY <1>2, <1>3, ModeTypes DEF NewTrue, ZoneChosen
<1> QED
  BY <1>4, <1>5, <1>7, <1>9, <1>10 DEF LocalInv

(* The steps of create_zone. *)
LEMMA CreateSteps ==
    ASSUME OneTui, LocalInv, InitList(Me) \/ InitListWrite(Me) \/ Register(Me) \/ RegisterWrite(Me),
           mode' = Normal
    PROVE  LocalInv'
<1>1. ZonesType /\ ListsThere /\ ListsTrue /\ Me \in Tui /\ Me \in Process
  BY SessionAssumption DEF LocalInv, Process
<1>2. J \in JobType /\ J # NoJob /\ J.kind = "create" /\ J.zone \in Zone /\ loaded[Me] # Off
      /\ loaded[Me] \in SUBSET Zone
  <2>1. J # NoJob /\ J.at \in {"init", "initWrite", "register", "registerWrite"}
    BY DEF InitList, InitListWrite, Register, RegisterWrite, Working, J
  <2>2. J \in JobType /\ loaded[Me] \in (SUBSET Zone) \cup {Off}
    BY <1>1, <2>1 DEF ZonesType, J
  <2> QED
    BY <1>1, <2>1, <2>2, JobFields DEF ListsThere
<1>3. UNCHANGED <<files, cut>>
  BY DEF InitList, InitListWrite, Register, RegisterWrite
<1>4. /\ job' \in [Tui -> JobType \cup {NoJob}]
      /\ (J' = NoJob \/ (J'.kind = "create" /\ J'.zone = J.zone))
      /\ (J' # NoJob => J'.at = "register" \/ J'.at = "registerWrite" \/ J'.at = "initWrite")
  <2>1. ASSUME NEW a \in {"initWrite", "register", "registerWrite"}, Goes(Me, a)
        PROVE  job' \in [Tui -> JobType \cup {NoJob}] /\ J'.kind = "create" /\ J'.zone = J.zone
               /\ J'.at = a
    <3>1. job' = [job EXCEPT ![Me] = [J EXCEPT !.at = a]]
      BY <2>1 DEF Goes, J
    <3>2. [J EXCEPT !.at = a] \in JobType
      BY <1>2, JobGoes
    <3>3. job' \in [Tui -> JobType \cup {NoJob}] /\ J' = [J EXCEPT !.at = a]
      BY <1>1, <3>1, <3>2, MyJob
    <3> QED
      BY <1>2, <3>3, JobGoes
  <2>2. ASSUME job' = [job EXCEPT ![Me] = NoJob]
        PROVE  job' \in [Tui -> JobType \cup {NoJob}] /\ J' = NoJob
    BY <1>1, <2>2, MyJob
  <2> QED
    BY <2>1, <2>2 DEF InitList, InitListWrite, Register, RegisterWrite
<1>5. /\ list' \in [Zone -> Seq(Entry) \cup {Absent, Torn}]
      /\ \A z \in Zone : z # J.zone => list'[z] = list[z]
      /\ list'[J.zone] \in {list[J.zone], Torn, <<>>}
      /\ \A z \in Zone : list[z] # Absent => list'[z] # Absent
      /\ Doing("create", {"initWrite"})' => list'[J.zone] = Torn
      /\ Doing("create", {"register"})' => list'[J.zone] # Absent
  <2>0. <<>> \in Seq(Entry) /\ <<>> # Absent /\ Torn # Absent
    <3>1. <<>> \in Seq(Entry)
      OBVIOUS
    <3> QED
      BY <3>1, ZonesAssumption
  <2>1. CASE InitList(Me) /\ list[J.zone] = Absent
    <3>1. list' = [list EXCEPT ![J.zone] = Torn]
      BY <2>1 DEF InitList, J
    <3>2. list'[J.zone] = Torn
      BY <1>1, <1>2, <3>1 DEF ZonesType
    <3> QED
      BY <1>1, <1>2, <2>0, <3>1, <3>2 DEF ZonesType
  <2>2. CASE InitList(Me) /\ list[J.zone] # Absent
    <3>1. list' = list /\ Goes(Me, "register")
      BY <2>2 DEF InitList, J
    <3>2. J'.at = "register"
      BY <1>1, <1>2, <3>1, JobGoes, MyJob DEF Goes, J, ZonesType
    <3> QED
      BY <1>1, <1>2, <2>2, <3>1, <3>2 DEF ZonesType, Doing
  <2>3. CASE InitListWrite(Me)
    <3>1. list[J.zone] = Torn
      BY <1>1, <1>2, <2>3 DEF InitListWrite, Working, J, ListsThere, Doing
    <3>2. list' = [list EXCEPT ![J.zone] = <<>>] /\ Goes(Me, "register")
      BY <2>3, <3>1 DEF InitListWrite, Written, J
    <3>3. J'.at = "register"
      BY <1>1, <1>2, <3>2, JobGoes, MyJob DEF Goes, J, ZonesType
    <3>4. list'[J.zone] = <<>>
      BY <1>1, <1>2, <3>2 DEF ZonesType
    <3> QED
      BY <1>1, <1>2, <2>0, <3>2, <3>3, <3>4 DEF ZonesType, Doing
  <2>4. CASE Register(Me) \/ RegisterWrite(Me)
    <3>1. list' = list /\ (J' = NoJob \/ J'.at = "registerWrite")
      <4>1. CASE Register(Me)
        <5>1. job' = [job EXCEPT ![Me] = [J EXCEPT !.at = "registerWrite"]] /\ list' = list
          BY <4>1 DEF Register, Goes, J
        <5>2. [J EXCEPT !.at = "registerWrite"] \in JobType /\ [J EXCEPT !.at = "registerWrite"].at = "registerWrite"
          BY <1>2, JobGoes
        <5> QED
          BY <1>1, <5>1, <5>2, MyJob
      <4>2. CASE RegisterWrite(Me)
        BY <1>1, <4>2, MyJob DEF RegisterWrite
      <4> QED
        BY <2>4, <4>1, <4>2
    <3> QED
      BY <1>1, <1>2, <3>1 DEF ZonesType, Doing
  <2> QED
    BY <2>1, <2>2, <2>3, <2>4
<1>6. /\ registry' \in (SUBSET Zone) \cup {Torn}
      /\ loaded' \in [Process -> (SUBSET Zone) \cup {Off}] /\ loaded'[Me] # Off
      /\ \A z \in loaded'[Me] : z \in loaded[Me] \/ list'[z] # Absent
  <2>1. CASE InitList(Me) \/ InitListWrite(Me)
    BY <1>1, <1>2, <2>1 DEF InitList, InitListWrite, ZonesType
  <2>2. CASE Register(Me)
    <3> DEFINE Loaded == (SUBSET Zone) \cup {Off}
               new == loaded[Me] \cup {J.zone}
    <3>1. new \in SUBSET Zone /\ loaded \in [Process -> Loaded]
      BY <1>1, <1>2 DEF ZonesType
    <3>2. new \in Loaded /\ new # Off
      BY <3>1, ZonesAssumption
    <3>3. loaded' = [loaded EXCEPT ![Me] = new] /\ registry' = Torn /\ list' = list
      BY <2>2 DEF Register, J
    <3>4. list[J.zone] # Absent
      BY <1>1, <1>2, <2>2 DEF Register, Working, J, ListsThere, Doing
    <3> HIDE DEF Loaded
    <3>5. loaded' \in [Process -> Loaded] /\ loaded'[Me] = new
      <4> HIDE DEF new
      <4> QED
        BY <1>1, <3>1, <3>2, <3>3
    <3> QED
      BY <3>2, <3>3, <3>4, <3>5 DEF Loaded
  <2>3. CASE RegisterWrite(Me)
    <3>1. loaded' = loaded /\ registry' \in {loaded[Me], Torn}
      BY <2>3 DEF RegisterWrite, Written
    <3> QED
      BY <1>1, <1>2, <3>1 DEF ZonesType
  <2> QED
    BY <2>1, <2>2, <2>3
<1>7. ZonesType'
  <2>1. files' \in [Zone -> [Name -> Content \cup {Absent, Torn}]] /\ cut' \in SUBSET (Zone \X Name)
    BY <1>1, <1>3 DEF ZonesType
  <2>2. registry' \in (SUBSET Zone) \cup {Torn} /\ loaded' \in [Process -> (SUBSET Zone) \cup {Off}]
    BY <1>6
  <2>3. list' \in [Zone -> Seq(Entry) \cup {Absent, Torn}]
    BY <1>5
  <2>4. job' \in [Tui -> JobType \cup {NoJob}]
    BY <1>4
  <2> QED
    BY <2>1, <2>2, <2>3, <2>4, Zenon DEF ZonesType
<1>8. ListsThere'
  BY <1>1, <1>2, <1>4, <1>5, <1>6 DEF ListsThere, Doing
<1>9. \A z, e : Fits(z, e) => Fits(z, e)'
  BY <1>2, <1>3 DEF Fits, Removing, Doing
<1>10. ListsTrue'
  <2> SUFFICES ASSUME NEW z \in Zone, Readable(z)', NEW i \in DOMAIN list'[z]
               PROVE  Fits(z, list[z][i])'
    BY DEF ListsTrue
  <2>1. list'[z] # <<>>
    OBVIOUS
  <2>2. list'[z] = list[z] /\ Readable(z)
    BY <1>5, <2>1 DEF Readable
  <2> QED
    BY <1>1, <1>9, <2>2 DEF ListsTrue
<1>11. JobTrue' /\ NewTrue'
  BY <1>4 DEF JobTrue, NewTrue, Doing
<1>12. ZoneChosen'
  BY ModeTypes DEF ZoneChosen
<1> QED
  BY <1>7, <1>8, <1>10, <1>11, <1>12 DEF LocalInv

(* What a step of a storage call leaves of the call. *)
LEMMA CallGoesOn ==
    ASSUME OneTui, ZonesType, J # NoJob, NEW a, Goes(Me, a),
           \/ J.kind = "store" /\ a \in {"fill", "load", "saveWrite"}
           \/ J.kind = "delete" /\ a \in {"load", "saveWrite"}
    PROVE  /\ job' \in [Tui -> JobType \cup {NoJob}] /\ J' # NoJob
           /\ J'.kind = J.kind /\ J'.at = a /\ J'.zone = J.zone /\ J'.name = J.name /\ J'.new = J.new
           /\ J.kind = "store" => J'.content = J.content
<1>1. J \in JobType
  BY SessionAssumption DEF ZonesType, J
<1>2. job' = [job EXCEPT ![Me] = [J EXCEPT !.at = a]]
  BY DEF Goes, J
<1>3. [J EXCEPT !.at = a] \in JobType
  BY <1>1, JobGoes
<1>4. job' \in [Tui -> JobType \cup {NoJob}] /\ J' = [J EXCEPT !.at = a]
  BY <1>2, <1>3, MyJob
<1> QED
  BY <1>1, <1>3, <1>4, JobGoes, JobFields

(* What a storage call is about. *)
LEMMA CallFields ==
    ASSUME OneTui, LocalInv, J # NoJob, J.kind # "create"
    PROVE  /\ J \in JobType /\ J.zone \in Zone /\ J.name \in Name /\ J.new \in Seq(Entry)
           /\ J.kind \in {"store", "delete"} /\ loaded[Me] # Off /\ J.zone \in loaded[Me]
           /\ J.kind = "store" => J.content \in Content
<1>1. J \in JobType
  BY SessionAssumption DEF LocalInv, ZonesType, J
<1> QED
  BY <1>1, JobFields DEF LocalInv, ListsThere

(* The steps on the file: the list is as before. *)
LEMMA FileSteps ==
    ASSUME OneTui, LocalInv, CreateFile(Me) \/ FillFile(Me) \/ Unlink(Me),
           mode' = Normal
    PROVE  LocalInv'
<1>1. ZonesType /\ ListsThere /\ ListsTrue /\ JobTrue
  BY DEF LocalInv
<1>2. /\ J # NoJob /\ UNCHANGED <<registry, list, loaded, cut>>
      /\ CreateFile(Me) => J.at = "file" /\ Goes(Me, "fill")
      /\ FillFile(Me) => J.at = "fill" /\ Goes(Me, "load")
      /\ Unlink(Me) => J.at = "unlink" /\ Goes(Me, "load")
  BY DEF CreateFile, FillFile, Unlink, Working, J
<1>3. /\ J \in JobType /\ J.zone \in Zone /\ J.name \in Name
      /\ J.kind = "store" => J.content \in Content
      /\ CreateFile(Me) \/ FillFile(Me) => J.kind = "store"
      /\ Unlink(Me) => J.kind = "delete"
  <2>1. J \in JobType
    BY <1>1, <1>2, SessionAssumption DEF ZonesType, J
  <2> QED
    BY <1>2, <2>1, JobFields
<1>4. /\ job' \in [Tui -> JobType \cup {NoJob}] /\ J' # NoJob
      /\ J'.kind = J.kind /\ J'.zone = J.zone /\ J'.name = J.name
      /\ J.kind = "store" => J'.content = J.content
      /\ CreateFile(Me) => J'.at = "fill"
      /\ FillFile(Me) \/ Unlink(Me) => J'.at = "load"
  BY <1>1, <1>2, <1>3, CallGoesOn
<1>5. PICK v \in Content \cup {Absent, Torn} :
         /\ files' = [files EXCEPT ![J.zone][J.name] = v]
         /\ CreateFile(Me) => v = Torn
         /\ FillFile(Me) => v = J.content
         /\ Unlink(Me) => v = Absent
  <2>1. CASE CreateFile(Me)
    BY <1>2, <1>3, <2>1 DEF CreateFile, J
  <2>2. CASE FillFile(Me)
    <3>1. files[J.zone][J.name] = Torn /\ J.content \in Content
      BY <1>1, <1>2, <1>3, <2>2 DEF JobTrue, Doing
    <3>2. files' = [files EXCEPT ![J.zone][J.name] = J.content]
      BY <2>2, <3>1, ZonesAssumption DEF FillFile, Written, J
    <3> QED
      BY <1>2, <1>3, <2>2, <3>1, <3>2
  <2>3. CASE Unlink(Me)
    BY <1>2, <1>3, <2>3 DEF Unlink, J
  <2> QED
    BY <2>1, <2>2, <2>3
<1>6. /\ files' \in [Zone -> [Name -> Content \cup {Absent, Torn}]]
      /\ files'[J.zone][J.name] = v
      /\ \A z \in Zone, n \in Name : z # J.zone \/ n # J.name => files'[z][n] = files[z][n]
  BY <1>1, <1>3, <1>5 DEF ZonesType
<1>7. ZonesType'
  BY <1>1, <1>2, <1>4, <1>6 DEF ZonesType
<1>8. ListsThere'
  BY <1>1, <1>2, <1>3, <1>4 DEF ListsThere, Doing
<1>9. CreateFile(Me) \/ FillFile(Me) => <<J.zone, J.name>> \in cut \/ Named(J.zone, J.name) = {}
  BY <1>1, <1>2, <1>3 DEF JobTrue, Doing
<1>10. ListsTrue'
  <2> SUFFICES ASSUME NEW z \in Zone, Readable(z)', NEW i \in DOMAIN list'[z]
               PROVE  Fits(z, list[z][i])'
    BY DEF ListsTrue
  <2> DEFINE e == list[z][i]
  <2>1. Readable(z) /\ list'[z] = list[z] /\ Fits(z, e)
    BY <1>1, <1>2 DEF ListsTrue, Readable
  <2>2. e.name \in Name
    <3>1. e \in Entry
      BY <1>1, <2>1 DEF ZonesType, Readable
    <3> QED
      BY <3>1 DEF Entry
  <2>3. ~Removing(z, e.name)
    BY <1>2, <1>3 DEF Removing, Doing
  <2>4. CASE z = J.zone /\ e.name = J.name
    <3>1. Named(J.zone, J.name) # {}
      BY <2>1, <2>4 DEF Named
    <3>2. CASE Unlink(Me)
      BY <1>2, <1>3, <1>4, <1>5, <1>6, <2>1, <2>4, <3>2 DEF Fits, Removing, Doing
    <3>3. CASE CreateFile(Me) \/ FillFile(Me)
      BY <1>2, <1>9, <2>1, <2>4, <3>1, <3>3 DEF Fits
    <3> QED
      BY <3>2, <3>3
  <2>5. CASE ~(z = J.zone /\ e.name = J.name)
    BY <1>2, <1>6, <2>1, <2>2, <2>3, <2>5 DEF Fits
  <2> QED
    BY <2>4, <2>5
<1>11. JobTrue'
  BY <1>2, <1>3, <1>4, <1>5, <1>6, <1>9 DEF JobTrue, Doing, Named, Readable
<1>12. NewTrue' /\ ZoneChosen'
  BY <1>4, ModeTypes DEF NewTrue, ZoneChosen
<1> QED
  BY <1>7, <1>8, <1>10, <1>11, <1>12 DEF LocalInv

LEMMA LoadStep ==
    ASSUME OneTui, LocalInv, LoadList(Me), mode' = Normal
    PROVE  LocalInv'
<1>1. ZonesType /\ ListsThere /\ ListsTrue /\ JobTrue
  BY DEF LocalInv
<1>2. /\ J # NoJob /\ J.at = "load" /\ list[J.zone] # Torn
      /\ job' = [job EXCEPT ![Me] = [J EXCEPT !.at = "save", !.new = Updated(J, list[J.zone])]]
      /\ UNCHANGED <<registry, list, files, loaded, cut>>
  BY DEF LoadList, CanLoad, Working, J
<1>3. J \in JobType /\ J.kind \in {"store", "delete"}
  <2>1. J \in JobType
    BY <1>1, <1>2, SessionAssumption DEF ZonesType, J
  <2> QED
    BY <1>2, <2>1, JobFields
<1>4. /\ J.zone \in Zone /\ J.name \in Name /\ loaded[Me] # Off /\ J.zone \in loaded[Me]
      /\ J.kind = "store" => J.content \in Content
  BY <1>2, <1>3, CallFields
<1>5. Readable(J.zone) /\ list[J.zone] \in Seq(Entry)
  BY <1>1, <1>2, <1>4 DEF Readable, ListsThere, ZonesType
<1>6. \A i \in DOMAIN list[J.zone] : Fits(J.zone, list[J.zone][i])
  BY <1>1, <1>4, <1>5 DEF ListsTrue
<1> DEFINE new == Updated(J, list[J.zone])
<1>7. /\ new \in Seq(Entry)
      /\ \A i \in DOMAIN new : Fits(J.zone, new[i]) /\ (J.kind = "delete" => new[i].name # J.name)
  <2>1. CASE J.kind = "store"
    <3> DEFINE e == [name |-> J.name, content |-> J.content]
               l == list[J.zone]
    <3>1. e \in Entry /\ Fits(J.zone, e) /\ J.kind # "delete"
      BY <1>1, <1>2, <1>4, <2>1 DEF Entry, Fits, JobTrue, Doing
    <3>2. new = Append(l, e)
      BY <2>1 DEF Updated
    <3> HIDE DEF e, new
    <3>3. /\ Append(l, e) \in Seq(Entry)
          /\ \A i \in DOMAIN Append(l, e) : (i \in DOMAIN l /\ Append(l, e)[i] = l[i]) \/ Append(l, e)[i] = e
      BY <1>5, <3>1
    <3> QED
      BY <1>6, <3>1, <3>2, <3>3
  <2>2. CASE J.kind = "delete"
    <3>1. new = Without(J.name, list[J.zone])
      BY <2>2 DEF Updated
    <3> QED
      BY <1>5, <1>6, <3>1, WithoutKeeps
  <2> QED
    BY <1>3, <2>1, <2>2
<1> HIDE DEF new
<1>8. /\ job' \in [Tui -> JobType \cup {NoJob}] /\ J' # NoJob
      /\ J'.kind = J.kind /\ J'.at = "save" /\ J'.zone = J.zone /\ J'.name = J.name /\ J'.new = new
      /\ J.kind = "store" => J'.content = J.content
  <2> DEFINE k == [J EXCEPT !.at = "save", !.new = new]
  <2>1. /\ k \in JobType /\ k.kind = J.kind /\ k.at = "save" /\ k.zone = J.zone
        /\ k.name = J.name /\ k.new = new
        /\ J.kind = "store" => k.content = J.content
    BY <1>3, <1>7, JobLoads
  <2>2. job' = [job EXCEPT ![Me] = k]
    BY <1>2 DEF new
  <2> HIDE DEF k
  <2>3. job' \in [Tui -> JobType \cup {NoJob}] /\ J' = k
    BY <1>1, <2>1, <2>2, MyJob
  <2> QED
    BY <2>1, <2>3, JobFields
<1>9. ZonesType'
  BY <1>1, <1>2, <1>8 DEF ZonesType
<1>10. ListsThere'
  BY <1>1, <1>2, <1>3, <1>8 DEF ListsThere, Doing
<1>11. \A z, e : Fits(z, e) => Fits(z, e)'
  BY <1>2, <1>3, <1>8 DEF Fits, Removing, Doing
<1>12. ListsTrue'
  BY <1>1, <1>2, <1>11 DEF ListsTrue, Readable
<1>13. JobTrue'
  BY <1>1, <1>2, <1>3, <1>8 DEF JobTrue, Doing, Named, Readable
<1>14. NewTrue'
  BY <1>7, <1>8, <1>11 DEF NewTrue
<1>15. ZoneChosen'
  BY ModeTypes DEF ZoneChosen
<1> QED
  BY <1>9, <1>10, <1>12, <1>13, <1>14, <1>15 DEF LocalInv

(* The list is cut short. *)
LEMMA TruncateStep ==
    ASSUME OneTui, LocalInv, TruncateList(Me), mode' = Normal
    PROVE  LocalInv'
<1>1. ZonesType /\ ListsThere /\ ListsTrue /\ JobTrue /\ NewTrue
  BY DEF LocalInv
<1>2. /\ J # NoJob /\ J.at = "save" /\ list' = [list EXCEPT ![J.zone] = Torn] /\ Goes(Me, "saveWrite")
      /\ UNCHANGED <<registry, files, loaded, cut>>
  BY DEF TruncateList, Working, J
<1>3. J \in JobType /\ J.kind \in {"store", "delete"}
  <2>1. J \in JobType
    BY <1>1, <1>2, SessionAssumption DEF ZonesType, J
  <2> QED
    BY <1>2, <2>1, JobFields
<1>4. /\ J.zone \in Zone /\ J.name \in Name /\ loaded[Me] # Off /\ J.zone \in loaded[Me]
  BY <1>2, <1>3, CallFields
<1>5. /\ job' \in [Tui -> JobType \cup {NoJob}] /\ J' # NoJob
      /\ J'.kind = J.kind /\ J'.at = "saveWrite" /\ J'.zone = J.zone /\ J'.name = J.name /\ J'.new = J.new
      /\ J.kind = "store" => J'.content = J.content
  BY <1>1, <1>2, <1>3, CallGoesOn
<1>6. /\ list' \in [Zone -> Seq(Entry) \cup {Absent, Torn}] /\ list'[J.zone] = Torn
      /\ \A z \in Zone : z # J.zone => list'[z] = list[z]
  BY <1>1, <1>2, <1>4 DEF ZonesType
<1>7. ZonesType'
  BY <1>1, <1>2, <1>5, <1>6 DEF ZonesType
<1>8. ListsThere'
  <2>1. \A z \in Zone : list[z] # Absent => list'[z] # Absent
    BY <1>6, ZonesAssumption
  <2>2. loaded[Me] \in SUBSET Zone
    BY <1>1, <1>4, SessionAssumption DEF ZonesType, Process
  <2> QED
    BY <1>1, <1>2, <1>3, <1>5, <2>1, <2>2 DEF ListsThere, Doing
<1>9. \A z, e : Fits(z, e) => Fits(z, e)'
  BY <1>2, <1>3, <1>5 DEF Fits, Removing, Doing
<1>10. ListsTrue'
  BY <1>1, <1>6, <1>9 DEF ListsTrue, Readable
<1>11. JobTrue'
  BY <1>1, <1>2, <1>3, <1>5 DEF JobTrue, Doing
<1>12. NewTrue'
  BY <1>1, <1>2, <1>5, <1>6, <1>9 DEF NewTrue
<1>13. ZoneChosen'
  BY ModeTypes DEF ZoneChosen
<1> QED
  BY <1>7, <1>8, <1>10, <1>11, <1>12, <1>13 DEF LocalInv

(* The new list is there: the call is done. *)
LEMMA WriteStep ==
    ASSUME OneTui, LocalInv, WriteList(Me), mode' = Normal
    PROVE  LocalInv'
<1>1. ZonesType /\ ListsThere /\ ListsTrue /\ JobTrue /\ NewTrue
  BY DEF LocalInv
<1>2. /\ J # NoJob /\ J.at = "saveWrite"
      /\ cut' = IF J.kind = "delete" THEN cut \ {<<J.zone, J.name>>} ELSE cut
      /\ job' = [job EXCEPT ![Me] = NoJob]
      /\ UNCHANGED <<registry, files, loaded>>
  BY DEF WriteList, Working, J
<1>3. J \in JobType /\ J.kind \in {"store", "delete"}
  <2>1. J \in JobType
    BY <1>1, <1>2, SessionAssumption DEF ZonesType, J
  <2> QED
    BY <1>2, <2>1, JobFields
<1>4. /\ J.zone \in Zone /\ J.name \in Name /\ loaded[Me] # Off /\ J.zone \in loaded[Me]
      /\ J.new \in Seq(Entry)
  BY <1>2, <1>3, CallFields
<1>5. list' = [list EXCEPT ![J.zone] = J.new]
  <2>1. list[J.zone] = Torn
    BY <1>1, <1>2 DEF NewTrue
  <2> QED
    BY <2>1 DEF WriteList, Written, J
<1>6. /\ list' \in [Zone -> Seq(Entry) \cup {Absent, Torn}] /\ list'[J.zone] = J.new
      /\ \A z \in Zone : z # J.zone => list'[z] = list[z]
  BY <1>1, <1>4, <1>5 DEF ZonesType
<1>7. job' \in [Tui -> JobType \cup {NoJob}] /\ J' = NoJob
  BY <1>1, <1>2, MyJob
<1>8. ZonesType'
  <2>1. cut' \in SUBSET (Zone \X Name)
    BY <1>1, <1>2 DEF ZonesType
  <2> QED
    BY <1>1, <1>2, <1>6, <1>7, <2>1 DEF ZonesType
<1>9. ListsThere'
  <2>1. \A z \in Zone : list[z] # Absent => list'[z] # Absent
    BY <1>4, <1>6, ZonesAssumption
  <2>2. loaded[Me] \in SUBSET Zone
    BY <1>1, <1>4, SessionAssumption DEF ZonesType, Process
  <2> QED
    BY <1>1, <1>2, <1>7, <2>1, <2>2 DEF ListsThere, Doing
<1>10. \A z, e : Fits(z, e) /\ (J.kind = "delete" => z # J.zone \/ e.name # J.name) => Fits(z, e)'
  BY <1>2, <1>3 DEF Fits, Removing, Doing
<1>11. ListsTrue'
  <2> SUFFICES ASSUME NEW z \in Zone, Readable(z)', NEW i \in DOMAIN list'[z]
               PROVE  Fits(z, list[z][i])'
    BY DEF ListsTrue
  <2>1. CASE z = J.zone
    <3>1. Fits(z, J.new[i]) /\ (J.kind = "delete" => J.new[i].name # J.name)
      BY <1>1, <1>2, <1>6, <2>1 DEF NewTrue
    <3> QED
      BY <1>6, <1>10, <2>1, <3>1
  <2>2. CASE z # J.zone
    <3>1. Readable(z) /\ list'[z] = list[z] /\ Fits(z, list[z][i])
      BY <1>1, <1>6, <2>2 DEF ListsTrue, Readable
    <3> QED
      BY <1>10, <2>2, <3>1
  <2> QED
    BY <2>1, <2>2
<1>12. JobTrue' /\ NewTrue' /\ ZoneChosen'
  BY <1>7, ModeTypes DEF JobTrue, NewTrue, ZoneChosen, Doing
<1> QED
  BY <1>8, <1>9, <1>11, <1>12 DEF LocalInv

(* A process starts, which gives registered zones a list. *)
LEMMA StartStep ==
    ASSUME OneTui, LocalInv, NEW p \in Process, Start(p), UNCHANGED <<mode, active>>
    PROVE  LocalInv'
<1>1. ZonesType /\ ListsThere /\ ListsTrue /\ JobTrue /\ NewTrue /\ Me \in Process
  BY SessionAssumption DEF LocalInv, Process
<1>2. loaded[p] = Off /\ UNCHANGED <<registry, files, job, cut>> /\ J' = J
  BY DEF Start, J
<1>3. /\ loaded' \in [Process -> (SUBSET Zone) \cup {Off}] /\ loaded'[p] \in SUBSET Zone
      /\ loaded'[Me] = loaded[Me] \/ (p = Me /\ loaded[Me] = Off)
  <2> DEFINE Loaded == (SUBSET Zone) \cup {Off}
             new == IF registry = Torn THEN {} ELSE registry
  <2>1. new \in SUBSET Zone /\ loaded \in [Process -> Loaded]
    BY <1>1 DEF ZonesType
  <2>2. loaded' = [loaded EXCEPT ![p] = new]
    BY DEF Start
  <2>3. new \in Loaded
    BY <2>1
  <2> HIDE DEF Loaded, new
  <2>4. loaded' \in [Process -> Loaded] /\ loaded'[p] = new /\ (p # Me => loaded'[Me] = loaded[Me])
    BY <1>1, <2>1, <2>2, <2>3
  <2> QED
    BY <1>2, <2>1, <2>4 DEF Loaded
<1>4. list' = [z \in Zone |-> IF z \in loaded'[p] /\ list[z] = Absent THEN <<>> ELSE list[z]]
  BY DEF Start
<1>5. /\ list' \in [Zone -> Seq(Entry) \cup {Absent, Torn}]
      /\ \A z \in Zone : list[z] # Absent => list'[z] = list[z]
      /\ \A z \in Zone : list[z] = Absent => list'[z] \in {Absent, <<>>}
      /\ \A z \in loaded'[p] : list'[z] # Absent
  <2>1. <<>> \in Seq(Entry)
    OBVIOUS
  <2>2. <<>> # Absent
    BY <2>1, ZonesAssumption
  <2> QED
    BY <1>1, <1>3, <1>4, <2>1, <2>2 DEF ZonesType
<1>6. ZonesType'
  BY <1>1, <1>2, <1>3, <1>5 DEF ZonesType
<1>7. loaded[Me] \in (SUBSET Zone) \cup {Off}
  BY <1>1 DEF ZonesType
<1>8. ListsThere'
  <2>1. J # NoJob => loaded'[Me] = loaded[Me] /\ J.zone \in Zone
    <3>1. J # NoJob => J \in JobType
      BY <1>1, SessionAssumption DEF ZonesType, J
    <3> QED
      BY <1>1, <1>3, <3>1, JobFields DEF ListsThere
  <2>2. loaded'[Me] # Off => \A z \in loaded'[Me] : list'[z] # Absent
    BY <1>1, <1>3, <1>5, <1>7 DEF ListsThere
  <2>3. Torn # Absent
    BY ZonesAssumption
  <2> QED
    BY <1>1, <1>2, <1>5, <2>1, <2>2, <2>3 DEF ListsThere, Doing
<1>9. \A z, e : Fits(z, e)' <=> Fits(z, e)
  BY <1>2 DEF Fits, Removing, Doing
<1>10. ListsTrue'
  <2> SUFFICES ASSUME NEW z \in Zone, Readable(z)', NEW i \in DOMAIN list'[z]
               PROVE  Fits(z, list[z][i])'
    BY DEF ListsTrue
  <2>1. list'[z] # <<>>
    OBVIOUS
  <2>2. list'[z] = list[z] /\ Readable(z)
    BY <1>5, <2>1 DEF Readable
  <2> QED
    BY <1>1, <1>9, <2>2 DEF ListsTrue
<1>11. JobTrue'
  <2>1. J # NoJob => J.zone \in Zone
    <3>1. J # NoJob => J \in JobType
      BY <1>1, SessionAssumption DEF ZonesType, J
    <3> QED
      BY <3>1, JobFields
  <2>2. \A z \in Zone : \A n : Named(z, n) = {} => Named(z, n)' = {}
    BY <1>5 DEF Named, Readable
  <2> QED
    BY <1>1, <1>2, <2>1, <2>2 DEF JobTrue, Doing
<1>12. NewTrue'
  <2>1. J # NoJob => J.zone \in Zone
    <3>1. J # NoJob => J \in JobType
      BY <1>1, SessionAssumption DEF ZonesType, J
    <3> QED
      BY <3>1, JobFields
  <2>2. Torn # Absent
    BY ZonesAssumption
  <2> QED
    BY <1>1, <1>2, <1>5, <1>9, <2>1, <2>2 DEF NewTrue
<1>13. ZoneChosen'
  BY <1>2 DEF LocalInv, ZoneChosen
<1> QED
  BY <1>6, <1>8, <1>10, <1>11, <1>12, <1>13 DEF LocalInv

(* The daemon is killed. *)
LEMMA DaemonGone ==
    ASSUME OneTui, LocalInv, Kill(Daemon), UNCHANGED <<mode, active>>
    PROVE  LocalInv'
<1>1. ZonesType /\ Me \in Process /\ Daemon \in Process /\ Daemon # Me /\ Daemon \notin Tui
  BY SessionAssumption, ZonesAssumption DEF LocalInv, Process
<1>2. UNCHANGED <<registry, list, files, job, cut>> /\ J' = J
  BY <1>1 DEF Kill, Dies, J
<1>3. loaded' \in [Process -> (SUBSET Zone) \cup {Off}] /\ loaded'[Me] = loaded[Me]
  <2> DEFINE Loaded == (SUBSET Zone) \cup {Off}
  <2>1. loaded \in [Process -> Loaded] /\ Off \in Loaded
    BY <1>1 DEF ZonesType
  <2>2. loaded' = [loaded EXCEPT ![Daemon] = Off]
    BY DEF Kill, Dies
  <2> HIDE DEF Loaded
  <2>3. loaded' \in [Process -> Loaded] /\ loaded'[Me] = loaded[Me]
    BY <1>1, <2>1, <2>2
  <2> QED
    BY <2>3 DEF Loaded
<1>4. ZonesType' /\ ListsThere' /\ JobTrue'
  BY <1>1, <1>2, <1>3 DEF LocalInv, ZonesType, ListsThere, JobTrue, Doing, Named, Readable
<1>5. \A z, e : Fits(z, e)' <=> Fits(z, e)
  BY <1>2 DEF Fits, Removing, Doing
<1>6. ListsTrue' /\ NewTrue'
  BY <1>2, <1>5 DEF LocalInv, ListsTrue, NewTrue, Readable
<1>7. ZoneChosen'
  BY <1>2 DEF LocalInv, ZoneChosen
<1> QED
  BY <1>4, <1>6, <1>7 DEF LocalInv

(* A step of the session between two calls. *)
LEMMA QuietZones ==
    ASSUME LocalInv, UNCHANGED zoneVars, J = NoJob,
           \/ mode'.kind \notin {"get", "del", "put"}
           \/ mode' = mode /\ active' = active
           \/ active' # None
    PROVE  LocalInv'
<1>1. files' = files /\ job' = job /\ J' = J
  BY DEF zoneVars, J
<1>2. ZoneChosen'
  BY <1>1 DEF LocalInv, ZoneChosen
<1> QED
  BY <1>2, StillZones

LEMMA ZoneCommandStep ==
    ASSUME OneTui, RemoteInv, LocalInv, ZoneCommand
    PROVE  LocalInv'
<1> USE DEF zoneCmdVars
<1>1. Idle(Me) /\ J = NoJob /\ at = "select" /\ loaded[Me] # Off
  BY DEF ZoneCommand, Create, Use, NoZone, Put, EnterRs, Get, Del, PutSelected, GetSelected, DelConfirmed,
         AtPrompt, Choosing, Idle, Running, J
<1>2. mode \in Mode /\ active \in Zone \cup {None} /\ ZoneChosen
  BY DEF RemoteInv, SessionType, LocalInv
<1>3. ASSUME NEW z \in Zone, Create(z) PROVE LocalInv'
  <2> DEFINE k == [kind |-> "create", at |-> "init", zone |-> z]
  <2>1. k \in JobType /\ k.at = "init" /\ k.kind = "create"
    BY DEF JobType
  <2>2. /\ job' = [job EXCEPT ![Me] = k] /\ UNCHANGED <<registry, list, files, loaded, cut>>
        /\ mode' = Normal
    BY <1>3 DEF Create, AtPrompt, CreateZone
  <2> HIDE DEF k
  <2> QED
    BY <1>1, <1>2, <2>1, <2>2, CallBegins
<1>4. ASSUME NEW z \in Zone, Use(z) PROVE LocalInv'
  BY <1>1, <1>4, ModeTypes, QuietZones DEF Use, AtPrompt
<1>5. CASE NoZone
  BY <1>5, SessionGone DEF NoZone, Fails, Ends
<1>6. CASE Put
  BY <1>1, <1>6, QuietZones DEF Put, Enters
<1>7. CASE EnterRs
  BY <1>1, <1>7, QuietZones DEF EnterRs
<1>8. ASSUME NEW n \in Name, Get(n) \/ Del(n) PROVE LocalInv'
  BY <1>1, <1>8, QuietZones DEF Get, Del, Enters
<1>9. ASSUME NEW n \in Name, NEW c \in Content, PutSelected(n, c) PROVE LocalInv'
  <2>1. mode' = Normal
    BY <1>9 DEF PutSelected
  <2>2. CASE UNCHANGED zoneVars
    BY <1>1, <2>1, <2>2, ModeTypes, QuietZones
  <2>3. CASE Free(active, n) /\ Store(Me, active, n, c)
    <3> DEFINE k == [kind |-> "store", at |-> "file", zone |-> active, name |-> n,
                     content |-> c, new |-> <<>>]
    <3>1. active \in loaded[Me] /\ active \in Zone
      <4>1. mode.kind = "put"
        BY <1>9 DEF PutSelected, Choosing
      <4> QED
        BY <1>2, <2>3, <4>1 DEF Store, ZoneChosen
    <3>2. <<>> \in Seq(Entry)
      OBVIOUS
    <3>3. k \in JobType /\ k.at = "file" /\ k.kind = "store" /\ k.zone = active /\ k.name = n
      BY <3>1, <3>2 DEF JobType
    <3>4. job' = [job EXCEPT ![Me] = k] /\ UNCHANGED <<registry, list, files, loaded, cut>>
      BY <2>3 DEF Store
    <3> HIDE DEF k
    <3> QED
      BY <1>1, <1>2, <2>1, <2>3, <3>1, <3>3, <3>4, CallBegins
  <2> QED
    BY <1>9, <2>2, <2>3 DEF PutSelected
<1>10. CASE GetSelected
  <2>1. CASE Enters(Normal)
    BY <1>1, <2>1, ModeTypes, QuietZones DEF Enters
  <2>2. CASE Fails("missing")
    BY <2>2, SessionGone DEF Fails, Ends
  <2> QED
    BY <1>10, <2>1, <2>2 DEF GetSelected
<1>11. CASE DelConfirmed
  <2> DEFINE k == [kind |-> "delete", at |-> "unlink", zone |-> active, name |-> mode.name, new |-> <<>>]
  <2>1. mode.kind = "del" /\ mode' = Normal /\ Delete(Me, active, mode.name)
    BY <1>11 DEF DelConfirmed, Choosing
  <2>2. active \in Zone /\ mode.name \in Name /\ active \in loaded[Me]
    BY <1>2, <2>1, ModeFields DEF ZoneChosen, Delete
  <2>3. <<>> \in Seq(Entry)
    OBVIOUS
  <2>4. k \in JobType /\ k.at = "unlink" /\ k.kind = "delete" /\ k.zone = active /\ k.name = mode.name
    BY <2>2, <2>3 DEF JobType
  <2>5. job' = [job EXCEPT ![Me] = k] /\ UNCHANGED <<registry, list, files, loaded, cut>>
    BY <2>1 DEF Delete
  <2> HIDE DEF k
  <2> QED
    BY <1>1, <1>2, <2>1, <2>2, <2>4, <2>5, CallBegins
<1>12. \A i \in Imports : i[1] \in Name /\ i[2] \in Content
  BY SessionAssumption
<1> QED
  BY <1>3, <1>4, <1>5, <1>6, <1>7, <1>8, <1>9, <1>10, <1>11, <1>12 DEF ZoneCommand

LEMMA RemoteCommandStep ==
    ASSUME OneTui, RemoteInv, LocalInv, RemoteCommand \/ Rxiu \/ Cancel \/ NoKey
    PROVE  LocalInv'
<1> USE DEF zoneCmdVars
<1>1. Idle(Me) /\ J = NoJob
  BY DEF RemoteCommand, QueryPeer, UsePeer, UseZone, ListZone, ListFiles, ListZones, GetRemoteSelected,
         GetRemote, RsCommand, RsPutSelected, RsUnreadable, RsDelConfirmed, RsGetSelected, Rxiu, Cancel,
         NoKey, AtPrompt, Choosing, Idle, J
<1>2. ASSUME NEW op, Remotely(op) PROVE LocalInv'
  BY <1>1, <1>2, QuietZones DEF Remotely
<1>3. CASE \/ \E i \in 1 .. Cardinality(Peer) : QueryPeer(i) \/ UsePeer(i)
           \/ \E z \in Zone : UseZone(z) \/ ListZone(z)
           \/ ListFiles \/ ListZones
  BY <1>2, <1>3 DEF QueryPeer, UsePeer, UseZone, ListZone, ListFiles, ListZones
<1>4. ASSUME NEW m, m.kind \notin {"get", "del", "put"}, Enters(m) PROVE LocalInv'
  BY <1>1, <1>4, QuietZones DEF Enters
<1>5. CASE GetRemoteSelected \/ RsGetSelected
  BY <1>1, <1>5, ModeTypes, QuietZones DEF GetRemoteSelected, RsGetSelected
<1>6. ASSUME NEW k, GetRemote(k) PROVE LocalInv'
  BY <1>4, <1>6 DEF GetRemote
<1>7. ASSUME NEW n \in Name, RsCommand(n) PROVE LocalInv'
  BY <1>4, <1>7 DEF RsCommand
<1>8. ASSUME NEW n \in Name, RsPutSelected(n) PROVE LocalInv'
  BY <1>1, <1>8, ModeTypes, QuietZones DEF RsPutSelected
<1>9. CASE RsUnreadable
  BY <1>9, SessionGone DEF RsUnreadable, Fails, Ends
<1>10. CASE RsDelConfirmed
  BY <1>4, <1>10, ModeTypes DEF RsDelConfirmed
<1>11. CASE Rxiu
  BY <1>1, <1>11, ModeTypes, QuietZones DEF Rxiu, AtPrompt
<1>12. CASE Cancel \/ NoKey
  BY <1>1, <1>12, ModeTypes, QuietZones DEF Cancel, NoKey
<1> QED
  BY <1>3, <1>5, <1>6, <1>7, <1>8, <1>9, <1>10, <1>11, <1>12 DEF RemoteCommand

LEMMA LocalStep ==
    ASSUME OneTui, RemoteInv, LocalInv, [Next]_vars
    PROVE  LocalInv'
<1> USE DEF zoneCmdVars
<1>1. ZoneChosen /\ mode \in Mode
  BY DEF RemoteInv, SessionType, LocalInv
<1>2. CASE Quit \/ KillSession
  BY <1>2, SessionGone DEF Quit, KillSession, Ends
<1>3. CASE StorageStep
  <2>1. JobStep(Me) /\ mode' = mode
    BY <1>3 DEF StorageStep
  <2>2. J # NoJob
    BY <2>1 DEF JobStep, InitList, InitListWrite, Register, RegisterWrite, CreateFile, FillFile, Unlink,
                LoadList, TruncateList, WriteList, Working, J
  <2>3. mode' = Normal
    BY <1>1, <2>1, <2>2 DEF ZoneChosen
  <2> QED
    BY <2>1, <2>3, CreateSteps, FileSteps, LoadStep, TruncateStep, WriteStep DEF JobStep
<1>4. ASSUME UNCHANGED <<zoneVars, mode, active>> PROVE LocalInv'
  <2>1. ZoneChosen'
    BY <1>1, <1>4 DEF ZoneChosen, zoneVars, J
  <2> QED
    BY <1>4, <2>1, StillZones
<1>5. CASE ProcessPending \/ Results \/ PeersChange \/ UNCHANGED vars
  BY <1>4, <1>5 DEF ProcessPending, Results, PeersChange, vars
<1>6. CASE \E i \in DOMAIN tasks : TaskSends(i) \/ TaskPanics(i)
  BY <1>4, <1>6 DEF TaskSends, TaskPanics
<1>7. CASE PollPeers
  <2>1. UNCHANGED <<zoneVars, mode, active>>
    BY <1>7 DEF PollPeers
  <2> QED
    BY <1>4, <2>1
<1>8. CASE StartSession
  BY <1>8, StartStep, SessionAssumption DEF StartSession, Process
<1>9. CASE Others
  <2>1. UNCHANGED <<mode, active>>
    BY <1>9 DEF Others
  <2>2. Start(Daemon) \/ Kill(Daemon)
    BY <1>9 DEF Others, OneTui
  <2> QED
    BY <2>1, <2>2, StartStep, DaemonGone DEF Process
<1>10. CASE StorageFails
  BY <1>10, SessionGone DEF StorageFails, CallFails
<1> QED
  BY <1>2, <1>3, <1>5, <1>6, <1>7, <1>8, <1>9, <1>10, ZoneCommandStep, RemoteCommandStep DEF Next

LEMMA LocalInit ==
    ASSUME OneTui, Init
    PROVE  LocalInv
<1>1. /\ registry = {} /\ list = [z \in Zone |-> Absent] /\ files = [z \in Zone |-> [n \in Name |-> Absent]]
      /\ loaded = [p \in Process |-> {}] /\ job = [t \in Tui |-> NoJob] /\ cut = {}
      /\ mode = Normal /\ ended = "no"
  BY DEF Init, ZonesInit, FreshSession
<1>2. J = NoJob /\ loaded[Me] = {}
  BY <1>1, SessionAssumption DEF J, Process
<1>3. ZonesType
  BY <1>1 DEF ZonesType
<1>4. ListsThere /\ JobTrue /\ NewTrue /\ ListsTrue
  BY <1>1, <1>2 DEF ListsThere, JobTrue, NewTrue, ListsTrue, Readable, Doing
<1>5. ZoneChosen
  BY <1>1, <1>2, ModeTypes DEF ZoneChosen
<1> QED
  BY <1>3, <1>4, <1>5 DEF LocalInv

LEMMA LocalCorrect == OneTui => (Spec => []LocalInv)
<1> SUFFICES ASSUME OneTui PROVE Spec => []LocalInv
  OBVIOUS
<1>1. Init => LocalInv
  BY LocalInit
<1>2. RemoteInv /\ LocalInv /\ [Next]_vars => LocalInv'
  BY LocalStep
<1> QED
  BY <1>1, <1>2, RemoteCorrect, PTL DEF Spec

(* Where one TUI is at work, what the daemon tells peers about a file is     *)
(* true of the bytes it serves (storage/local.rs store, delete), whatever    *)
(* kills and errors there were, except of files whose call broke off.       *)
THEOREM MetaIsTrue == OneTui => (Spec => []MetaTrue)
<1> SUFFICES ASSUME OneTui PROVE Spec => []MetaTrue
  OBVIOUS
<1>1. LocalInv => MetaTrue
  BY EntriesMetaTrue DEF LocalInv
<1> QED
  BY <1>1, LocalCorrect, PTL
=============================================================================
