---------------------------- MODULE RsPlacement ----------------------------
(***************************************************************************)
(* Placement of RS blocks by highest random weight (rs/sync.rs).           *)
(*                                                                         *)
(* The code keeps the members of a file as a sorted vector of peer id      *)
(* strings and works with indices into it; the model keeps the set of ids. *)
(* The SHA-256 of "member id, block hash" is Score[b][p]; only the order   *)
(* of the scores matters, and distinct digests give distinct scores.       *)
(***************************************************************************)
EXTENDS Naturals, FiniteSets

CONSTANTS Id,        (* peer ids                                           *)
          Block,     (* block hashes                                       *)
          Score      (* Score[b][p]: the weight of member p for block b    *)

ASSUME ScoreAssumption ==
    /\ Score \in [Block -> [Id -> Nat]]
    /\ \A b \in Block : \A p, q \in Id : Score[b][p] = Score[b][q] => p = q

(***************************************************************************)
(* entry_members: the members recorded in the entry or, for an entry put   *)
(* without a P2P session ("legacy"), the list the caller falls back on.    *)
(***************************************************************************)
EntryMembers(members, fallback) == IF members # {} THEN members ELSE fallback

(* The members sorted before p in the descending sort of the scores. *)
Outscoring(b, members, p) == {q \in members : Score[b][q] > Score[b][p]}

(* Mutant: one owner too many. *)
HrwTopNOwners_offByOne(b, members, n) ==
    {p \in members : Cardinality(Outscoring(b, members, p)) <= n}

(* Mutant: the order of the members depends on how many there are. *)
HrwTopNOwners_sizeDependent(b, members, n) ==
    IF Cardinality(members) % 2 = 0
    THEN {p \in members : Cardinality(members \ Outscoring(b, members, p)) <= n}
    ELSE {p \in members : Cardinality(Outscoring(b, members, p)) < n}

(* hrw_top_n_owners: sort by score, highest first, and take n. *)
HrwTopNOwners(b, members, n) ==
    {p \in members : Cardinality(Outscoring(b, members, p)) < n}

(* is_block_assigned_to, for the member p. *)
IsBlockAssignedTo(b, members, p, n) == p \in HrwTopNOwners(b, members, n)

(* The blocks of a file that the local id must store; none for a stranger. *)
AssignedBlocks(blocks, members, p, n) ==
    {b \in blocks : IsBlockAssignedTo(b, members, p, n)}

-----------------------------------------------------------------------------
(* hrw_top_n_owners as the code computes it: the members sorted by          *)
(* descending score, ...                                                   *)
Ranking(b, members) ==
    CHOOSE s \in [1..Cardinality(members) -> members] :
        \A i, j \in 1..Cardinality(members) : i < j => Score[b][s[i]] > Score[b][s[j]]

(* ... and truncated to the first n. *)
SortAndTake(b, members, n) ==
    {Ranking(b, members)[i] : i \in {k \in 1..Cardinality(members) : k <= n}}

Factors == 0..Cardinality(Id) + 1

Placement == Block \X (SUBSET Id) \X Factors

(* The groups with a wrong placement: not the code's sort-and-take, or not  *)
(* as many owners as the factor asks for, or all the members.              *)
Misplaced ==
    {w[2] : w \in {v \in Placement :
        LET owners == HrwTopNOwners(v[1], v[2], v[3])
        IN  \/ owners # SortAndTake(v[1], v[2], v[3])
            \/ Cardinality(owners)
                  # IF v[3] < Cardinality(v[2]) THEN v[3] ELSE Cardinality(v[2])}}

(* The groups that a newcomer disturbs: another one gains a block, or it   *)
(* takes a block from two.                                                 *)
Disturbed ==
    {w[2] : w \in {v \in Placement : \E p \in Id \ v[2] :
        LET old == HrwTopNOwners(v[1], v[2], v[3])
            new == HrwTopNOwners(v[1], v[2] \cup {p}, v[3])
        IN  ~(new \subseteq old \cup {p}) \/ Cardinality(old \ new) > 1}}
=============================================================================
