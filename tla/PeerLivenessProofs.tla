------------------------- MODULE PeerLivenessProofs -------------------------
(***************************************************************************)
(* What holds of the peers a node knows and of its recovery, for any number *)
(* of peers, of misses allowed and for any thresholds: types, that only a   *)
(* peer silent for MaxMisses ticks in a row is disconnected, and that a     *)
(* node without peers listens again in time.                               *)
(***************************************************************************)
EXTENDS PeerLiveness, TLAPS

(* The thresholds and the clocks' ends are numbers in order. *)
LEMMA Thresholds ==
    /\ StaleThreshold \in Nat \ {0} /\ SleepThreshold \in Nat \ {0}
    /\ RefreshInterval \in Nat \ {0} /\ MaxRetries \in Nat \ {0} /\ MaxSleep \in Nat \ {0}
    /\ RetryInterval \in Nat \ {0}
    /\ LastRetry \in Nat /\ LastRetry >= StaleThreshold /\ Never \in Nat /\ Never = LastRetry + 1
    /\ TooLong \in Nat /\ TooLong >= RefreshInterval /\ TooLong > RefreshInterval
<1>1. /\ StaleThreshold \in Nat \ {0} /\ SleepThreshold \in Nat \ {0}
      /\ RefreshInterval \in Nat \ {0} /\ MaxRetries \in Nat \ {0} /\ MaxSleep \in Nat \ {0}
      /\ RetryInterval \in Nat \ {0}
  BY RecoveryAssumption
<1>2. RetryInterval * MaxRetries \in Nat
  BY <1>1, SMT
<1>3. QED
  BY <1>1, <1>2, SMT DEF LastRetry, Never, TooLong

LEMMA LaterType ==
    ASSUME NEW t \in Nat, NEW e \in Nat, NEW end \in Nat
    PROVE  /\ Later(t, e, end) \in 0..end
           /\ t + e <= end => Later(t, e, end) = t + e
           /\ t + e > end => Later(t, e, end) = end
  BY SMT DEF Later
-----------------------------------------------------------------------------
(* Recovery. *)

(* The attempts of a loss are under way only when the node has listened; and *)
(* before that the clock of the loss lags behind by the first gap at most.   *)
ClocksAgree ==
    /\ alone <= last_refresh /\ alone < RefreshInterval
    /\ in_recovery => tried
    /\ had_peers_before /\ ~tried /\ alone > 0 =>
          /\ zero_peers_since < StaleThreshold
          /\ alone <= zero_peers_since + SleepThreshold

LEMMA ZeroForType ==
    ASSUME RecoveryTypeOK, NEW e \in Nat
    PROVE  /\ ZeroFor(e) \in 0..Never
           /\ ZeroFor(e) # Never => ~Woken(e) /\ zero_peers_since # Never
                                    /\ ZeroFor(e) = Later(zero_peers_since, e, LastRetry)
           /\ Started(e) \in 0..Never
<1>1. zero_peers_since \in Nat
  BY Thresholds DEF RecoveryTypeOK
<1>2. Later(zero_peers_since, e, LastRetry) \in 0..LastRetry
  BY <1>1, Thresholds, LaterType
<1>3. ZeroFor(e) \in 0..Never
  BY <1>2, Thresholds DEF ZeroFor
<1>4. QED
  BY <1>3, Thresholds DEF ZeroFor, Started

LEMMA RecoverTyped ==
    ASSUME RecoveryTypeOK, NEW e \in 0..MaxSleep, NEW peers, Recover(e, peers)
    PROVE  RecoveryTypeOK'
<1>0. e \in Nat
  BY Thresholds
<1>1. backlog' \in 0..MaxSleep - 1
  BY Thresholds DEF Recover, Gap, RecoveryTypeOK
<1>2. alone' \in 0..TooLong
  <2>1. alone \in Nat /\ TooLong \in Nat
    BY Thresholds DEF RecoveryTypeOK
  <2>2. Later(alone, e, TooLong) \in 0..TooLong
    BY <1>0, <2>1, LaterType
  <2>3. QED
    BY <2>1, <2>2 DEF Recover
<1>3. Later(last_refresh, e, RefreshInterval) \in 0..RefreshInterval
  <2>1. last_refresh \in Nat /\ RefreshInterval \in Nat
    BY Thresholds DEF RecoveryTypeOK
  <2>2. QED
    BY <1>0, <2>1, LaterType
<1>4. tried' \in BOOLEAN
  BY DEF Recover, RecoveryTypeOK
<1>5. CASE peers # {}
  <2>1. /\ had_peers_before' = TRUE /\ in_recovery' = FALSE
        /\ zero_peers_since' = Never /\ retry_count' = 0
        /\ last_refresh' \in 0..RefreshInterval
    BY <1>3, <1>5 DEF Recover, WithPeers, Settled
  <2>2. zero_peers_since' \in 0..Never /\ retry_count' \in 0..MaxRetries
    BY <2>1, Thresholds
  <2>3. QED
    BY <1>1, <1>2, <1>4, <2>1, <2>2 DEF RecoveryTypeOK
<1>6. CASE peers = {}
  <2>1. last_refresh' \in 0..RefreshInterval /\ had_peers_before' \in BOOLEAN
    BY <1>3, <1>6, Thresholds DEF Recover, WithoutPeers, RecoveryTypeOK
  <2>2. NoAttempt(e) => retry_count' \in 0..MaxRetries /\ in_recovery' \in BOOLEAN
    BY Thresholds DEF NoAttempt, Recovering, Woken, RecoveryTypeOK
  <2>3. ZeroFor(e) \in 0..Never /\ Started(e) \in 0..Never /\ 0 \in 0..Never
    BY <1>0, ZeroForType, Thresholds
  <2>4. zero_peers_since' \in 0..Never
    BY <1>6, <2>3 DEF Recover, WithoutPeers
  <2>5. retry_count' \in 0..MaxRetries /\ in_recovery' \in BOOLEAN
    <3>1. retry_count \in Nat /\ retry_count <= MaxRetries
      BY Thresholds DEF RecoveryTypeOK
    <3>2. CASE NoAttempt(e)
      BY <2>2, <3>2
    <3>3. CASE retry_count' = 1 /\ in_recovery' = TRUE
      BY <3>3, Thresholds
    <3>4. CASE RetryDue(e) /\ retry_count' = retry_count + 1 /\ in_recovery' = TRUE
      BY <3>1, <3>4, Thresholds DEF RetryDue
    <3>5. QED
      BY <1>6, <3>2, <3>3, <3>4 DEF Recover, WithoutPeers
  <2>6. QED
    BY <1>1, <1>2, <1>4, <2>1, <2>4, <2>5, Thresholds DEF RecoveryTypeOK
<1>7. QED
  BY <1>5, <1>6

LEMMA RecoverAgrees ==
    ASSUME RecoveryTypeOK, ClocksAgree, NEW e \in 0..MaxSleep, NEW peers, Recover(e, peers)
    PROVE  ClocksAgree'
<1>0. /\ e \in Nat
      /\ RecoveryTypeOK'
  BY Thresholds, RecoverTyped
<1>1. CASE peers # {}
  BY <1>0, <1>1, Thresholds DEF Recover, WithPeers, Settled, ClocksAgree, RecoveryTypeOK
<1>2. CASE peers = {} /\ Listens(e, peers)
  <2>1. alone' = 0 /\ tried'
    BY <1>2 DEF Recover
  <2>2. QED
    BY <1>0, <2>1, Thresholds DEF ClocksAgree, RecoveryTypeOK
<1>3. CASE peers = {} /\ ~Listens(e, peers)
  <2>1. /\ ~Woken(e) /\ ~Refreshes(e)
        /\ had_peers_before => ~Stale(e) /\ ~RetryDue(e)
    BY <1>3 DEF Listens
  <2>2. /\ last_refresh + e < RefreshInterval
        /\ last_refresh' = last_refresh + e
    BY <1>0, <1>3, <2>1, Thresholds, LaterType DEF Recover, WithoutPeers, Refreshes, RecoveryTypeOK
  <2>3. alone' = alone + e /\ alone' < RefreshInterval /\ tried' = tried
    <3>1. alone' = Later(alone, e, TooLong) /\ tried' = tried
      BY <1>3 DEF Recover, RecoveryTypeOK
    <3>2. alone + e < RefreshInterval
      BY <1>0, <2>2, Thresholds DEF ClocksAgree, RecoveryTypeOK
    <3>3. alone \in Nat
      BY Thresholds DEF RecoveryTypeOK
    <3>4. QED
      <4>1. alone + e <= TooLong /\ TooLong \in Nat
        BY <1>0, <3>2, <3>3, Thresholds
      <4>2. Later(alone, e, TooLong) = alone + e
        BY <1>0, <3>3, <4>1, LaterType
      <4>3. QED
        BY <3>1, <3>2, <4>2
  <2>4. in_recovery' => tried'
    BY <1>3, <2>1, <2>3 DEF Recover, WithoutPeers, NoAttempt, Recovering, ClocksAgree
  <2>5. ASSUME had_peers_before', ~tried'
        PROVE  zero_peers_since' < StaleThreshold /\ alone' <= zero_peers_since' + SleepThreshold
    <3>1. had_peers_before /\ ~tried /\ ~in_recovery /\ zero_peers_since' = Started(e)
      BY <1>3, <2>1, <2>3, <2>5 DEF Recover, WithoutPeers, ClocksAgree
    <3>2. e <= SleepThreshold
      BY <1>0, <2>1, Thresholds DEF Woken
    <3>3. CASE ZeroFor(e) = Never
      <4>1. zero_peers_since = Never
        BY <1>0, <2>1, <3>3, LaterType, Thresholds DEF ZeroFor, RecoveryTypeOK
      <4>2. alone = 0
        BY <3>1, <4>1, Thresholds DEF ClocksAgree, RecoveryTypeOK
      <4>3. QED
        BY <1>0, <2>3, <3>1, <3>2, <3>3, <4>2, Thresholds DEF Started
    <3>4. CASE ZeroFor(e) # Never
      <4>1. ZeroFor(e) < StaleThreshold
        BY <1>0, <2>1, <3>1, <3>4, ZeroForType, Thresholds DEF Stale, Recovering
      <4>2. ZeroFor(e) = zero_peers_since + e
        <5>1. zero_peers_since \in Nat /\ ZeroFor(e) = Later(zero_peers_since, e, LastRetry)
        BY <1>0, <3>4, ZeroForType, Thresholds DEF RecoveryTypeOK
      <5>2. QED
        BY <1>0, <4>1, <5>1, LaterType, Thresholds
      <4>3. alone <= zero_peers_since + SleepThreshold
        BY <3>1, Thresholds DEF ClocksAgree, RecoveryTypeOK
      <4>4. QED
        BY <1>0, <2>3, <3>1, <3>4, <4>1, <4>2, <4>3, Thresholds DEF Started, RecoveryTypeOK
    <3>5. QED
      BY <3>3, <3>4
  <2>6. QED
    <3>1. alone' <= last_refresh'
      BY <1>0, <2>2, <2>3, Thresholds DEF ClocksAgree, RecoveryTypeOK
    <3>2. QED
      BY <2>3, <2>4, <2>5, <3>1 DEF ClocksAgree
<1>4. QED
  BY <1>1, <1>2, <1>3
-----------------------------------------------------------------------------
(* The peers. *)

(* A miss has been counted only for a peer whose ping is pending, and never  *)
(* more misses than ticks that found it silent.                            *)
MissesAreSilence ==
    /\ pings \subseteq unanswered
    /\ \A p \in Peer : /\ misses[p] <= silence[p]
                       /\ misses[p] > 0 => p \in pings

Inv == TypeOK /\ ClocksAgree /\ MissesAreSilence

LEMMA InitInv == Init => Inv
<1> SUFFICES ASSUME Init PROVE Inv
  OBVIOUS
<1>1. RecoveryTypeOK /\ ClocksAgree
  <2>1. RecoveryInit
    BY DEF Init
  <2>2. Never \in 0..Never /\ 0 \in 0..RefreshInterval /\ 0 \in 0..MaxRetries /\ 0 \in 0..TooLong
        /\ 0 \in 0..MaxSleep - 1
    BY Thresholds
  <2>3. RecoveryTypeOK
    BY <2>1, <2>2 DEF RecoveryInit, RecoveryTypeOK
  <2>4. QED
    BY <2>1, <2>3, Thresholds DEF RecoveryInit, ClocksAgree
<1>2. QED
  BY <1>1, PeerAssumption DEF Init, Inv, TypeOK, MissesAreSilence

(* Most actions leave the clocks and the silence of the peers alone. *)
LEMMA ClocksKept ==
    ASSUME Inv, UNCHANGED recoveryVars
    PROVE  RecoveryTypeOK' /\ ClocksAgree'
  BY DEF Inv, TypeOK, RecoveryTypeOK, ClocksAgree, recoveryVars

LEMMA DiscoveredKeeps ==
    ASSUME Inv, NEW p \in Peer, Discovered(p), UNCHANGED <<pings, Ghosts>>
    PROVE  /\ known' \in SUBSET persisted' /\ persisted' \in SUBSET Peer
           /\ pings' \in SUBSET known'
           /\ misses' \in [Peer -> 0..MaxMisses - 1]
           /\ unanswered' \in SUBSET Peer /\ silence' \in [Peer -> 0..MaxMisses]
           /\ MissesAreSilence'
  BY PeerAssumption DEF Inv, TypeOK, Discovered, MissesAreSilence, Ghosts

LEMMA ExpiredKeeps ==
    ASSUME Inv, NEW p \in Peer, Expired(p), UNCHANGED <<persisted, Ghosts>>
    PROVE  /\ known' \in SUBSET persisted' /\ persisted' \in SUBSET Peer
           /\ pings' \in SUBSET known'
           /\ misses' \in [Peer -> 0..MaxMisses - 1]
           /\ unanswered' \in SUBSET Peer /\ silence' \in [Peer -> 0..MaxMisses]
           /\ MissesAreSilence'
  BY PeerAssumption DEF Inv, TypeOK, Expired, MissesAreSilence, Ghosts

LEMMA HeartbeatKeeps ==
    ASSUME Inv, NEW e \in 0..MaxSleep, Heartbeat(e)
    PROVE  Inv' /\ \A p \in Peer : p \in closing' \ closing => silence'[p] >= MaxMisses
<1> DEFINE dead  == {p \in Peer : Counted[p] >= MaxMisses}
           woken == IF Woken(e) THEN persisted ELSE {}
<1>1. RecoveryTypeOK' /\ ClocksAgree'
  BY RecoverTyped, RecoverAgrees DEF Heartbeat, Inv, TypeOK
<1>2. /\ known' = known \ dead /\ pings' = known \ dead
      /\ misses' = [p \in Peer |-> IF p \in dead THEN 0 ELSE Counted[p]]
      /\ closing' = closing \cup (dead \cap connected)
      /\ dialing' = dialing \cup Dialled(woken \cup (known \ dead))
      /\ unanswered' = unanswered \cup (known \ dead)
      /\ silence' = [p \in Peer |-> IF p \notin unanswered THEN 0
                                     ELSE IF silence[p] < MaxMisses THEN silence[p] + 1
                                     ELSE silence[p]]
      /\ UNCHANGED <<connected, persisted, up, changes>>
  BY DEF Heartbeat, Network
<1>3. \A p \in Peer : /\ Counted[p] \in 0..MaxMisses
                      /\ Counted[p] = IF p \in pings THEN misses[p] + 1 ELSE misses[p]
  BY PeerAssumption DEF Counted, Inv, TypeOK
<1>4. \A p \in Peer : Counted[p] > 0 => p \in pings
  BY <1>3, PeerAssumption DEF Inv, TypeOK, MissesAreSilence
<1>5. \A p \in Peer : Counted[p] <= silence'[p]
  <2> TAKE p \in Peer
  <2>1. CASE p \in pings
    <3>1. p \in unanswered /\ misses[p] <= silence[p] /\ Counted[p] = misses[p] + 1
      BY <1>3, <2>1 DEF Inv, MissesAreSilence
    <3>2. silence'[p] = IF silence[p] < MaxMisses THEN silence[p] + 1 ELSE silence[p]
      BY <1>2, <3>1
    <3>3. misses[p] \in 0..MaxMisses - 1 /\ silence[p] \in 0..MaxMisses
      BY DEF Inv, TypeOK
    <3>4. QED
      BY <3>1, <3>2, <3>3, PeerAssumption
  <2>2. CASE p \notin pings
    <3>1. Counted[p] = 0
      BY <1>3, <1>4, <2>2, PeerAssumption
    <3>2. silence'[p] \in Nat
      BY <1>2, PeerAssumption DEF Inv, TypeOK
    <3>3. QED
      BY <3>1, <3>2
  <2>3. QED
    BY <2>1, <2>2
<1>6. \A p \in Peer : p \in dead => silence'[p] >= MaxMisses
  <2> TAKE p \in Peer
  <2>1. silence'[p] \in Nat
    BY <1>2, PeerAssumption DEF Inv, TypeOK
  <2>2. QED
    BY <1>3, <1>5, <2>1, PeerAssumption
<1>7. misses' \in [Peer -> 0..MaxMisses - 1] /\ silence' \in [Peer -> 0..MaxMisses]
  <2>1. \A p \in Peer : (IF p \in dead THEN 0 ELSE Counted[p]) \in 0..MaxMisses - 1
    BY <1>3, PeerAssumption
  <2>2. \A p \in Peer : silence[p] \in 0..MaxMisses
    BY DEF Inv, TypeOK
  <2>3. QED
    BY <1>2, <2>1, <2>2, PeerAssumption
<1>8. MissesAreSilence'
  <2>1. \A p \in Peer : misses'[p] <= silence'[p]
    <3> TAKE p \in Peer
    <3>1. silence'[p] \in Nat
      BY <1>7, PeerAssumption
    <3>2. QED
      BY <1>2, <1>5, <3>1
  <2>2. \A p \in Peer : misses'[p] > 0 => p \in pings'
    BY <1>2, <1>4 DEF Inv, TypeOK
  <2>3. QED
    BY <1>2, <2>1, <2>2 DEF MissesAreSilence
<1>9. /\ known' \in SUBSET persisted' /\ persisted' \in SUBSET Peer /\ pings' \in SUBSET known'
      /\ unanswered' \in SUBSET Peer /\ closing' \in SUBSET connected'
      /\ connected' \in SUBSET Peer /\ up' \in SUBSET Peer /\ changes' \in 0..MaxChanges
  BY <1>2 DEF Inv, TypeOK
<1>10. dialing' \in SUBSET Peer /\ connected' \cap dialing' = {}
  BY <1>2 DEF Inv, TypeOK, Dialled
<1>11. TypeOK'
  BY <1>1, <1>7, <1>9, <1>10 DEF TypeOK
<1>12. QED
  BY <1>1, <1>2, <1>6, <1>8, <1>11 DEF Inv

(* One step per action; only the heartbeat closes connections. *)
LEMMA StepInv ==
    ASSUME Inv, [Next]_vars
    PROVE  Inv' /\ \A p \in Peer : p \in closing' \ closing => silence'[p] >= MaxMisses
<1>1. ASSUME NEW e \in 0..MaxSleep, Heartbeat(e)
      PROVE  Inv' /\ \A p \in Peer : p \in closing' \ closing => silence'[p] >= MaxMisses
  BY <1>1, HeartbeatKeeps
<1> DEFINE Kept == Inv' /\ closing' \subseteq closing
<1>2. CASE Reconnect
  <2>1. RecoveryTypeOK' /\ ClocksAgree'
    BY <1>2, ClocksKept DEF Reconnect, Surroundings
  <2>2. Kept
    BY <1>2, <2>1 DEF Reconnect, Dialled, ReconnectTo, Ghosts, Surroundings, Network, Inv, TypeOK,
       MissesAreSilence
  <2>3. QED
    BY <2>2
<1>3. ASSUME NEW p \in Peer, Pong(p) PROVE Kept
  <2>1. RecoveryTypeOK' /\ ClocksAgree'
    BY <1>3, ClocksKept DEF Pong, Surroundings
  <2>2. QED
    BY <1>3, <2>1, PeerAssumption DEF Pong, Forgiven, Surroundings, Network, Inv, TypeOK,
       MissesAreSilence
<1>4. ASSUME NEW p \in Peer, Exchange(p) PROVE Kept
  <2>1. RecoveryTypeOK' /\ ClocksAgree'
    BY <1>4, ClocksKept DEF Exchange, Surroundings
  <2>2. QED
    BY <1>4, <2>1 DEF Exchange, Dialled, Ghosts, Surroundings, Network, Inv, TypeOK,
       MissesAreSilence
<1>5. ASSUME NEW p \in Peer, Established(p) PROVE Kept
  <2>1. RecoveryTypeOK' /\ ClocksAgree'
    BY <1>5, ClocksKept DEF Established, Surroundings
  <2>2. CASE p \in known
    BY <1>5, <2>1, <2>2 DEF Established, Ghosts, Surroundings, Network, Inv, TypeOK,
       MissesAreSilence
  <2>3. CASE p \notin known
    <3>1. Discovered(p) /\ UNCHANGED <<pings, Ghosts>>
      BY <1>5, <2>3 DEF Established
    <3>2. QED
      BY <1>5, <2>1, <3>1, DiscoveredKeeps DEF Established, Surroundings, Network, Inv, TypeOK
  <2>4. QED
    BY <2>2, <2>3
<1>6. ASSUME NEW p \in Peer, DialFails(p) PROVE Kept
  <2>1. RecoveryTypeOK' /\ ClocksAgree'
    BY <1>6, ClocksKept DEF DialFails, Surroundings
  <2>2. QED
    BY <1>6, <2>1 DEF DialFails, Ghosts, Surroundings, Network, Inv, TypeOK, MissesAreSilence
<1>7. ASSUME NEW p \in Peer, Closed(p) PROVE Kept
  <2>1. RecoveryTypeOK' /\ ClocksAgree'
    BY <1>7, ClocksKept DEF Closed, Surroundings
  <2>2. CASE p \in known
    <3>1. Expired(p) /\ UNCHANGED <<persisted, Ghosts>>
      BY <1>7, <2>2 DEF Closed
    <3>2. QED
      BY <1>7, <2>1, <3>1, ExpiredKeeps DEF Closed, Surroundings, Network, Inv, TypeOK
  <2>3. CASE p \notin known
    BY <1>7, <2>1, <2>3 DEF Closed, Ghosts, Surroundings, Network, Inv, TypeOK, MissesAreSilence
  <2>4. QED
    BY <2>2, <2>3
<1>8. ASSUME NEW p \in Peer, MdnsDiscovered(p) PROVE Kept
  <2>1. RecoveryTypeOK' /\ ClocksAgree'
    BY <1>8, ClocksKept DEF MdnsDiscovered, Surroundings
  <2>2. Discovered(p) /\ UNCHANGED <<pings, Ghosts>>
    BY <1>8 DEF MdnsDiscovered
  <2>3. QED
    BY <1>8, <2>1, <2>2, DiscoveredKeeps DEF MdnsDiscovered, Dialled, Surroundings, Network, Inv, TypeOK
<1>9. ASSUME NEW p \in Peer, MdnsExpired(p) PROVE Kept
  <2>1. RecoveryTypeOK' /\ ClocksAgree'
    BY <1>9, ClocksKept DEF MdnsExpired, Surroundings
  <2>2. Expired(p) /\ UNCHANGED <<persisted, Ghosts>>
    BY <1>9 DEF MdnsExpired
  <2>3. QED
    BY <1>9, <2>1, <2>2, ExpiredKeeps DEF MdnsExpired, Surroundings, Network, Inv, TypeOK
<1>10. ASSUME NEW p \in Peer, Change(p) PROVE Kept
  <2>1. RecoveryTypeOK' /\ ClocksAgree'
    BY <1>10, ClocksKept DEF Change
  <2>2. changes' \in 0..MaxChanges
    BY <1>10, PeerAssumption DEF Change, Inv, TypeOK
  <2>3. QED
    BY <1>10, <2>1, <2>2 DEF Change, Ghosts, Inv, TypeOK, MissesAreSilence
<1>11. CASE UNCHANGED vars
  <2>1. RecoveryTypeOK' /\ ClocksAgree'
    BY <1>11, ClocksKept DEF vars
  <2>2. Kept
    BY <1>11, <2>1 DEF vars, Inv, TypeOK, MissesAreSilence
  <2>3. QED
    BY <2>2
<1>12. QED
  BY <1>1, <1>2, <1>3, <1>4, <1>5, <1>6, <1>7, <1>8, <1>9, <1>10, <1>11 DEF Next
-----------------------------------------------------------------------------
(* Every reachable state is typed, the clocks agree and no more misses are   *)
(* counted than there were silent ticks.                                   *)
THEOREM Invariant == Spec => []Inv
  BY InitInv, StepInv, PTL DEF Spec

(* Types, of any number of peers and any thresholds. *)
THEOREM TypeCorrect == Spec => []TypeOK
<1>1. Inv => TypeOK
  BY DEF Inv
<1>2. QED
  BY <1>1, Invariant, PTL

(* The heartbeat disconnects only peers that were silent for MaxMisses      *)
(* ticks in a row.                                                         *)
THEOREM FourMissesHold == Spec => FourMisses
<1> DEFINE Silent == \A p \in Peer : p \in closing' \ closing => silence'[p] >= MaxMisses
<1>1. Inv /\ [Next]_vars => Silent
  BY StepInv
<1>2. FourMisses <=> [][Silent]_vars
  BY DEF FourMisses
<1>3. QED
  BY <1>1, <1>2, Invariant, PTL DEF Spec

(* No node stays without peers for the refresh interval without listening. *)
THEOREM NeverLongAloneHolds == Spec => []NeverLongAlone
<1>1. Inv => NeverLongAlone
  BY DEF Inv, ClocksAgree, NeverLongAlone
<1>2. QED
  BY <1>1, Invariant, PTL

(* A node that has lost its peers listens soon. *)
THEOREM PromptAfterLossHolds == Spec => []PromptAfterLoss
<1>1. Inv => PromptAfterLoss
  BY Thresholds DEF Inv, TypeOK, RecoveryTypeOK, ClocksAgree, PromptAfterLoss
<1>2. QED
  BY <1>1, Invariant, PTL
=============================================================================
