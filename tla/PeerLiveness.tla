---------------------------- MODULE PeerLiveness ----------------------------
(***************************************************************************)
(* Which peers a node knows: discovery, heartbeat and reconnection         *)
(* (p2p/service.rs with p2p/node.rs and p2p/peer_store.rs).                *)
(*                                                                         *)
(* A peer becomes known when mDNS finds it or a connection to it is made,  *)
(* and is forgotten when its last connection closes, when its mDNS record   *)
(* expires, or when the heartbeat (5 s) has missed four of its pongs. Known *)
(* peers are stored, and every 30 s the stored ones that are not known are *)
(* dialled.                                                                *)
(*                                                                         *)
(* Abstractions: one node's view. libp2p is external: a dial of a peer that *)
(* is connected or being dialled is refused, a request to a peer without a  *)
(* connection dials it, disconnecting is not immediate, listening again has *)
(* mDNS find peers, which it may at any time. The ticks may come in any     *)
(* order with the events; NetworkRecovery measures the gaps between them.   *)
(***************************************************************************)
EXTENDS NetworkRecovery, FiniteSets

CONSTANTS Peer,
          MaxMisses,  (* heartbeats a peer may miss: 4                     *)
          MaxChanges, (* bound on the machines going down or up            *)
          MdnsExpires (* whether mDNS records expire                       *)

ASSUME PeerAssumption ==
    /\ MaxMisses \in Nat \ {0} /\ MaxChanges \in Nat
    /\ MdnsExpires \in BOOLEAN

VARIABLES
    up,        (* the peers that run and can be reached                    *)
    connected, (* peers with an established connection                     *)
    closing,   (* those of them the node is disconnecting from             *)
    dialing,   (* peers being dialled                                      *)
    known,     (* discovered_peers                                         *)
    persisted, (* known_peers.json                                         *)
    pings,     (* pending_pings                                            *)
    misses,    (* peer_heartbeat_misses, 0 when there is no entry          *)
    unanswered, (* peers pinged whose pong has not come                     *)
    silence,   (* silence[p]: ticks in a row that found p's ping unanswered, *)
               (* counted to MaxMisses                                     *)
    changes

vars == <<up, connected, closing, dialing, known, persisted, pings, misses, unanswered,
          silence, changes, recoveryVars>>

TypeOK ==
    /\ RecoveryTypeOK
    /\ up \in SUBSET Peer /\ connected \in SUBSET Peer /\ dialing \in SUBSET Peer
    /\ closing \in SUBSET connected
    /\ connected \cap dialing = {}
    /\ known \in SUBSET persisted /\ persisted \in SUBSET Peer
    /\ pings \in SUBSET known
    /\ misses \in [Peer -> 0..MaxMisses - 1]
    /\ unanswered \in SUBSET Peer
    /\ silence \in [Peer -> 0..MaxMisses]
    /\ changes \in 0..MaxChanges

(* The node starts: it dials what it has stored. *)
Init ==
    /\ up \in SUBSET Peer
    /\ connected = {} /\ closing = {}
    /\ persisted \in SUBSET Peer
    /\ dialing = persisted
    /\ known = {} /\ pings = {}
    /\ misses = [p \in Peer |-> 0]
    /\ unanswered = {}
    /\ silence = [p \in Peer |-> 0]
    /\ changes = 0
    /\ RecoveryInit

-----------------------------------------------------------------------------
Ghosts == <<unanswered, silence>>
Network == <<up, changes>>
Surroundings == <<Network, recoveryVars>>

(* Peers that a dial of P starts to dial. *)
Dialled(P) == P \ (connected \cup dialing)

(* PeerDiscovered: the peer is stored and its misses are forgotten.        *)
Discovered(p) ==
    /\ known' = known \cup {p}
    /\ persisted' = persisted \cup {p}
    /\ misses' = [misses EXCEPT ![p] = 0]

(* PeerExpired. *)
Expired(p) ==
    /\ known' = known \ {p}
    /\ pings' = pings \ {p}
    /\ misses' = [misses EXCEPT ![p] = 0]

(* Mutant: the misses of peers that have not answered are not kept. *)
Counted_forgets == [p \in Peer |-> IF p \in pings THEN 1 ELSE 0]

(* Each tick counts a miss for every ping that is still pending. *)
Counted == [p \in Peer |-> IF p \in pings THEN misses[p] + 1 ELSE misses[p]]

(* Peers that have missed too many pings are removed and disconnected, the  *)
(* others pinged. After a sleep, first, the known peers are asked for       *)
(* theirs and the other stored ones dialled: all of them are dialled.      *)
Heartbeat(e) ==
    LET dead  == {p \in Peer : Counted[p] >= MaxMisses}
        woken == IF Woken(e) THEN persisted ELSE {}
    IN  /\ known' = known \ dead
        /\ Recover(e, known')
        /\ pings' = known'
        /\ misses' = [p \in Peer |-> IF p \in dead THEN 0 ELSE Counted[p]]
        /\ closing' = closing \cup (dead \cap connected)
        /\ dialing' = dialing \cup Dialled(woken \cup known')
        /\ unanswered' = unanswered \cup known'
        /\ silence' = [p \in Peer |-> IF p \notin unanswered THEN 0
                                      ELSE IF silence[p] < MaxMisses THEN silence[p] + 1
                                      ELSE silence[p]]
        /\ UNCHANGED <<connected, persisted, Network>>

(* Mutant: a pong ends the ping but not the count of misses. *)
Forgiven_not(p) == misses

Forgiven(p) == [misses EXCEPT ![p] = 0]

(* The peer's pong arrives, late or not. *)
Pong(p) ==
    /\ p \in unanswered \cap up \cap connected
    /\ pings' = pings \ {p}
    /\ misses' = Forgiven(p)
    /\ unanswered' = unanswered \ {p}
    /\ silence' = [silence EXCEPT ![p] = 0]
    /\ UNCHANGED <<connected, closing, dialing, known, persisted, Surroundings>>

(* Mutant: the known peers are dialled, not the others. *)
ReconnectTo_known == known

ReconnectTo == persisted \ known

(* Every 30 s. *)
Reconnect ==
    /\ Dialled(ReconnectTo) # {}
    /\ dialing' = dialing \cup Dialled(ReconnectTo)
    /\ UNCHANGED <<connected, closing, known, persisted, pings, misses, Ghosts, Surroundings>>

(* Peer exchange: a connected peer names another one. *)
Exchange(p) ==
    /\ connected \cap known \cap up # {}
    /\ p \in Dialled(Peer \ known)
    /\ dialing' = dialing \cup {p}
    /\ UNCHANGED <<connected, closing, known, persisted, pings, misses, Ghosts, Surroundings>>

(* A connection is made, by this node's dial or by the peer's: a peer that *)
(* was not known is discovered.                                            *)
Established(p) ==
    /\ p \in up \ connected
    /\ connected' = connected \cup {p}
    /\ dialing' = dialing \ {p}
    /\ IF p \in known THEN UNCHANGED <<known, persisted, misses>> ELSE Discovered(p)
    /\ UNCHANGED <<closing, pings, Ghosts, Surroundings>>

(* A dial fails: the node only logs it. *)
DialFails(p) ==
    /\ p \in dialing \ up
    /\ dialing' = dialing \ {p}
    /\ UNCHANGED <<connected, closing, known, persisted, pings, misses, Ghosts, Surroundings>>

(* The last connection to p closes. *)
Closed(p) ==
    /\ p \in connected
    /\ connected' = connected \ {p} /\ closing' = closing \ {p}
    /\ IF p \in known THEN Expired(p) ELSE UNCHANGED <<known, pings, misses>>
    /\ UNCHANGED <<dialing, persisted, Ghosts, Surroundings>>

(* mDNS finds p: it is dialled and known at once. Of the peers found        *)
(* together only the first is handled.                                     *)
MdnsDiscovered(p) ==
    /\ p \in up
    /\ dialing' = dialing \cup Dialled({p})
    /\ Discovered(p)
    /\ UNCHANGED <<connected, closing, pings, Ghosts, Surroundings>>

(* p's mDNS record expires; of several the first only. *)
MdnsExpired(p) ==
    /\ MdnsExpires
    /\ Expired(p)
    /\ UNCHANGED <<connected, closing, dialing, persisted, Ghosts, Surroundings>>

(* A machine goes down or comes back. *)
Change(p) ==
    /\ changes < MaxChanges /\ changes' = changes + 1
    /\ up' = IF p \in up THEN up \ {p} ELSE up \cup {p}
    /\ UNCHANGED <<connected, closing, dialing, known, persisted, pings, misses, Ghosts, recoveryVars>>

Next ==
    \/ \E e \in 0..MaxSleep : Heartbeat(e)
    \/ Reconnect
    \/ \E p \in Peer : \/ Pong(p) \/ Exchange(p) \/ Established(p) \/ DialFails(p) \/ Closed(p)
                       \/ MdnsDiscovered(p) \/ MdnsExpired(p) \/ Change(p)

Spec == Init /\ [][Next]_vars

(* The ticks come, in time or late; a dial succeeds or fails; a disconnection *)
(* is carried out.                                                         *)
LiveSpec ==
    /\ Spec
    /\ WF_vars(\E e \in 0..MaxSleep : Heartbeat(e)) /\ WF_vars(Reconnect)
    /\ \A p \in Peer : /\ WF_vars(p \in dialing /\ Established(p)) /\ WF_vars(DialFails(p))
                       /\ WF_vars(p \in closing /\ Closed(p))

-----------------------------------------------------------------------------
(* Properties. *)

(* "A peer that does not answer four times in a row is removed", and only   *)
(* such a peer: the heartbeat disconnects none that has answered one of its *)
(* last four pings, though peers are found, lost and found again meanwhile. *)
FourMisses ==
    [][\A p \in Peer : p \in closing' \ closing => silence'[p] >= MaxMisses]_vars

(* A peer that is gone for good is not among the known ones for ever.       *)
DeadPeersLeave == \A p \in Peer : <>[](p \notin up) => <>[](p \notin known)

(* "Periodic reconnection to persisted peers": a stored peer that can be    *)
(* reached is known again and again, whatever was lost before.              *)
PeersReturn ==
    \A p \in Peer : <>[](p \in up) /\ <>(p \in persisted) => []<>(p \in known)

(* The same for a peer whose connection does not stay open while the peer   *)
(* is unknown (an expired mDNS record makes it unknown, and a connected     *)
(* peer is not dialled).                                                    *)
ClosedPeersReturn ==
    \A p \in Peer :
        <>[](p \in up) /\ <>(p \in persisted)
            => []<>(p \in known \/ p \in connected)
               /\ ([]<>(p \notin connected) => []<>(p \in known))
=============================================================================
