-------------------------- MODULE NetworkRecovery ---------------------------
(***************************************************************************)
(* When a node without peers listens again (p2p/recovery.rs).              *)
(*                                                                         *)
(* Every tick of the heartbeat asks twice: detect_wake, which takes a long  *)
(* gap between two ticks for a sleep of the machine, and should_recover,    *)
(* which sees how many peers are left. Three strategies share the clocks:   *)
(* a refresh at an interval, a first attempt soon after the last peer went, *)
(* and a bounded number of retries after it.                               *)
(*                                                                         *)
(* The unit of time is one heartbeat interval. A tick that comes late is    *)
(* followed by the ticks it held up, at once (tokio's Burst).               *)
(***************************************************************************)
EXTENDS Naturals

CONSTANTS StaleThreshold,  (* 5 s                                            *)
          RetryInterval,   (* 10 s                                           *)
          RefreshInterval, (* 60 s                                           *)
          MaxRetries,      (* 5                                              *)
          SleepThreshold,  (* 30 s                                           *)
          MaxSleep         (* bound on the gap between two ticks             *)

ASSUME RecoveryAssumption ==
    /\ {StaleThreshold, RetryInterval, RefreshInterval, MaxRetries, SleepThreshold, MaxSleep}
         \subseteq Nat \ {0}
    /\ StaleThreshold < RefreshInterval

VARIABLES
    had_peers_before,
    zero_peers_since, (* time since then; Never when it is None               *)
    last_refresh,     (* time since then                                     *)
    retry_count,
    in_recovery,
    backlog,          (* ticks that are due                                  *)
    alone,            (* time the ticks have seen no peer and not listened    *)
    tried             (* whether the node has listened since it lost its peers *)

recoveryVars == <<had_peers_before, zero_peers_since, last_refresh, retry_count, in_recovery,
                  backlog, alone, tried>>

(* No threshold lies beyond these, where clocks stop. *)
LastRetry == StaleThreshold + RetryInterval * MaxRetries
Never == LastRetry + 1
TooLong == RefreshInterval + MaxSleep

RecoveryTypeOK ==
    /\ had_peers_before \in BOOLEAN /\ in_recovery \in BOOLEAN
    /\ zero_peers_since \in 0..Never
    /\ last_refresh \in 0..RefreshInterval
    /\ retry_count \in 0..MaxRetries
    /\ backlog \in 0..MaxSleep - 1
    /\ alone \in 0..TooLong
    /\ tried \in BOOLEAN

RecoveryInit ==
    /\ had_peers_before = FALSE /\ in_recovery = FALSE
    /\ zero_peers_since = Never
    /\ last_refresh = 0
    /\ retry_count = 0
    /\ backlog = 0
    /\ alone = 0 /\ tried = FALSE

-----------------------------------------------------------------------------
(* Time t, e later, as far as it is told apart. *)
Later(t, e, end) == IF t + e > end THEN end ELSE t + e

(* A gap the heartbeat can find: a tick in time or late, or one held up. *)
Gap(e) == IF backlog > 0 THEN e = 0 ELSE e \in 1..MaxSleep

Woken(e) == e > SleepThreshold

(* Mutant: the refresh waits for the retries, which are over after some time. *)
Refreshes_notInRecovery(e) ==
    ~in_recovery /\ Later(last_refresh, e, RefreshInterval) = RefreshInterval

(* The periodic refresh comes first and whatever else goes on. *)
Refreshes(e) == Later(last_refresh, e, RefreshInterval) = RefreshInterval

(* zero_peers_since after detect_wake. *)
ZeroFor(e) ==
    IF Woken(e) \/ zero_peers_since = Never THEN Never ELSE Later(zero_peers_since, e, LastRetry)

Recovering(e) == in_recovery /\ ~Woken(e)

Stale(e) ==
    ~Recovering(e) /\ ZeroFor(e) # Never /\ ZeroFor(e) >= StaleThreshold

RetryDue(e) ==
    /\ Recovering(e) /\ ZeroFor(e) # Never
    /\ retry_count < MaxRetries
    /\ ZeroFor(e) >= StaleThreshold + RetryInterval * retry_count

(* The clock of the attempts runs since the first tick without peers. *)
Started(e) == IF ZeroFor(e) = Never THEN 0 ELSE ZeroFor(e)

(* What detect_wake leaves of the attempts. *)
NoAttempt(e) ==
    /\ retry_count' = IF Woken(e) THEN 0 ELSE retry_count
    /\ in_recovery' = Recovering(e)

(* Mutant: the attempts of one loss are counted on in the next one. *)
Settled_not ==
    zero_peers_since' = Never /\ UNCHANGED <<retry_count, in_recovery>>

(* The peers are back: the next loss is a new one. *)
Settled ==
    zero_peers_since' = Never /\ retry_count' = 0 /\ in_recovery' = FALSE

(* should_recover with peers left. *)
WithPeers(e) ==
    /\ had_peers_before' = TRUE
    /\ Settled
    /\ last_refresh' = Later(last_refresh, e, RefreshInterval)

(* should_recover without any: the attempt that is due, if one is. *)
WithoutPeers(e) ==
    /\ last_refresh' = IF Refreshes(e) THEN 0 ELSE Later(last_refresh, e, RefreshInterval)
    /\ UNCHANGED had_peers_before
    /\ \/ /\ Refreshes(e)
          /\ zero_peers_since' = ZeroFor(e)
          /\ NoAttempt(e)
       \/ /\ ~Refreshes(e) /\ had_peers_before
          /\ zero_peers_since' = Started(e)
          /\ CASE Stale(e)    -> retry_count' = 1 /\ in_recovery' = TRUE
               [] RetryDue(e) -> retry_count' = retry_count + 1 /\ in_recovery' = TRUE
               [] OTHER       -> NoAttempt(e)
       \/ /\ ~Refreshes(e) /\ ~had_peers_before
          /\ zero_peers_since' = 0
          /\ NoAttempt(e)

(* Whether the tick calls start_listening. *)
Listens(e, peers) ==
    \/ Woken(e)
    \/ peers = {} /\ (Refreshes(e) \/ (had_peers_before /\ (Stale(e) \/ RetryDue(e))))

(* One heartbeat, e after the one before it, that leaves these peers. *)
Recover(e, peers) ==
    /\ Gap(e)
    /\ backlog' = IF backlog > 0 THEN backlog - 1 ELSE e - 1
    /\ IF peers = {} THEN WithoutPeers(e) ELSE WithPeers(e)
    /\ alone' = IF peers # {} \/ Listens(e, peers) THEN 0 ELSE Later(alone, e, TooLong)
    /\ tried' = (peers = {} /\ (tried \/ Listens(e, peers)))

-----------------------------------------------------------------------------
(* Properties. *)

(* "Periodic refresh, every 60s when peers=0": no node stays without peers  *)
(* for the interval without listening again, wherever the retries of the   *)
(* other strategy stand and however ticks are held up.                     *)
NeverLongAlone == alone < RefreshInterval

(* "Immediate retry after 5s of peers=0": a node that loses its peers, for *)
(* the first time or again, listens soon after, though wake-ups, refreshes  *)
(* and earlier losses move the same clocks. (The tick that first sees no    *)
(* peers may be late.)                                                     *)
PromptAfterLoss ==
    had_peers_before /\ alone >= StaleThreshold + SleepThreshold => tried
=============================================================================
