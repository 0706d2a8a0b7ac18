-------------------------- MODULE RsClusterProofs --------------------------
(***************************************************************************)
(* What the placement guarantees for every set of members, every factor and *)
(* every assignment of scores; type correctness of the cluster, the two      *)
(* flags of an entry, and that no node loses its share of a file it lists,   *)
(* for any number of machines, files, blocks and operations.                *)
(***************************************************************************)
EXTENDS RsCluster, FiniteSetTheorems, TLAPS

(* The members that outscore p are finitely many, so the comparison with n *)
(* is one between natural numbers.                                         *)
LEMMA OutscoringFinite ==
    ASSUME NEW b, NEW members, IsFiniteSet(members), NEW p
    PROVE  /\ IsFiniteSet(Outscoring(b, members, p))
           /\ Cardinality(Outscoring(b, members, p)) \in Nat
<1>1. Outscoring(b, members, p) \subseteq members
  BY DEF Outscoring
<1>2. IsFiniteSet(Outscoring(b, members, p))
  BY <1>1, FS_Subset
<1>3. QED
  BY <1>2, FS_CardinalityType

(* Whoever outscores q outscores everybody that q outscores: the sort of   *)
(* hrw_top_n_owners is by one total order.                                 *)
LEMMA OutscoringMonotone ==
    ASSUME NEW b \in Block, NEW members \in SUBSET Id,
           NEW p \in members, NEW q \in Outscoring(b, members, p)
    PROVE  /\ Outscoring(b, members, q) \subseteq Outscoring(b, members, p)
           /\ q \in Outscoring(b, members, p) \ Outscoring(b, members, q)
<1>1. \A x \in Id : Score[b][x] \in Nat
  BY ScoreAssumption
<1>2. QED
  BY <1>1 DEF Outscoring

(* Raising rs_replication_factor only adds owners: no block moves. *)
THEOREM FactorMonotone ==
    ASSUME NEW b, NEW members, IsFiniteSet(members),
           NEW m \in Nat, NEW n \in Nat, m <= n
    PROVE  HrwTopNOwners(b, members, m) \subseteq HrwTopNOwners(b, members, n)
<1>1. SUFFICES ASSUME NEW p \in members, Cardinality(Outscoring(b, members, p)) < m
               PROVE  Cardinality(Outscoring(b, members, p)) < n
  BY DEF HrwTopNOwners
<1>2. Cardinality(Outscoring(b, members, p)) \in Nat
  BY OutscoringFinite
<1>3. QED
  BY <1>1, <1>2

(* Every block of a file with members has an owner: no block is stored     *)
(* nowhere by design.                                                      *)
THEOREM OwnerExists ==
    ASSUME NEW b \in Block, NEW members \in SUBSET Id, IsFiniteSet(members),
           members # {}, NEW n \in Nat \ {0}
    PROVE  HrwTopNOwners(b, members, n) # {}
<1> DEFINE Rank(p) == Cardinality(Outscoring(b, members, p))
           Ranks == {Rank(p) : p \in members}
<1>1. \A p \in members : Rank(p) \in Nat
  BY OutscoringFinite
<1>2. Ranks \subseteq Nat /\ Ranks # {}
  BY <1>1
<1>3. PICK r \in Ranks : \A s \in Ranks : <<s, r>> \notin OpToRel(<, Nat)
  BY <1>2, WFMin, NatLessThanWellFounded
<1>4. PICK p \in members : r = Rank(p)
  BY <1>3
<1>5. ASSUME NEW q \in Outscoring(b, members, p) PROVE FALSE
  <2>1. q \in members
    BY <1>5 DEF Outscoring
  <2>2. IsFiniteSet(Outscoring(b, members, p))
    BY OutscoringFinite
  <2>3. /\ Outscoring(b, members, q) \subseteq Outscoring(b, members, p)
        /\ Outscoring(b, members, q) # Outscoring(b, members, p)
    BY <1>5, OutscoringMonotone
  <2>4. Rank(q) < Rank(p)
    BY <2>1, <2>2, <2>3, <1>1, FS_Subset
  <2>5. <<Rank(q), Rank(p)>> \in OpToRel(<, Nat)
    BY <2>1, <2>4, <1>1 DEF OpToRel
  <2>6. QED
    BY <2>1, <2>5, <1>3, <1>4
<1>6. Outscoring(b, members, p) = {}
  BY <1>5
<1>7. Rank(p) = 0
  BY <1>6, FS_EmptySet
<1>8. QED
  BY <1>7 DEF HrwTopNOwners

(* A member that leaves without owning a block takes no part in its        *)
(* placement: the others keep exactly what they had.                       *)
THEOREM StrangerLeaves ==
    ASSUME NEW b \in Block, NEW members \in SUBSET Id, IsFiniteSet(members),
           NEW n \in Nat, NEW p \in members,
           p \notin HrwTopNOwners(b, members, n)
    PROVE  HrwTopNOwners(b, members \ {p}, n) = HrwTopNOwners(b, members, n)
<1> DEFINE rest == members \ {p}
<1>1. IsFiniteSet(rest)
  BY FS_Subset
<1>2. \A q \in members : /\ Outscoring(b, rest, q) \subseteq Outscoring(b, members, q)
                         /\ Cardinality(Outscoring(b, rest, q))
                                <= Cardinality(Outscoring(b, members, q))
                         /\ Cardinality(Outscoring(b, rest, q)) \in Nat
                         /\ Cardinality(Outscoring(b, members, q)) \in Nat
  <2>1. TAKE q \in members
  <2>2. Outscoring(b, rest, q) \subseteq Outscoring(b, members, q)
    BY DEF Outscoring
  <2>3. /\ IsFiniteSet(Outscoring(b, members, q))
        /\ Cardinality(Outscoring(b, members, q)) \in Nat
        /\ Cardinality(Outscoring(b, rest, q)) \in Nat
    BY <1>1, OutscoringFinite
  <2>4. Cardinality(Outscoring(b, rest, q)) <= Cardinality(Outscoring(b, members, q))
    BY <2>2, <2>3, FS_Subset
  <2>5. QED
    BY <2>2, <2>3, <2>4
<1>3. HrwTopNOwners(b, members, n) \subseteq HrwTopNOwners(b, rest, n)
  BY <1>2 DEF HrwTopNOwners
<1>4. ASSUME NEW q \in HrwTopNOwners(b, rest, n)
      PROVE  q \in HrwTopNOwners(b, members, n)
  <2>1. q \in members /\ q # p /\ Cardinality(Outscoring(b, rest, q)) < n
    BY <1>4 DEF HrwTopNOwners
  <2>2. CASE p \notin Outscoring(b, members, q)
    <3>1. Outscoring(b, rest, q) = Outscoring(b, members, q)
      BY <2>2 DEF Outscoring
    <3>2. QED
      BY <2>1, <3>1 DEF HrwTopNOwners
  <2>3. CASE p \in Outscoring(b, members, q)
    (* p comes before q and is itself not among the first n. *)
    <3>1. /\ Outscoring(b, members, p) \subseteq Outscoring(b, members, q)
          /\ p \notin Outscoring(b, members, p)
      BY <2>1, <2>3, OutscoringMonotone
    <3>2. Outscoring(b, members, p) \subseteq Outscoring(b, rest, q)
      BY <3>1 DEF Outscoring
    <3>3. /\ IsFiniteSet(Outscoring(b, rest, q))
          /\ Cardinality(Outscoring(b, members, p)) \in Nat
          /\ Cardinality(Outscoring(b, rest, q)) \in Nat
      BY <1>1, OutscoringFinite
    <3>4. Cardinality(Outscoring(b, members, p)) <= Cardinality(Outscoring(b, rest, q))
      BY <3>2, <3>3, FS_Subset
    <3>5. Cardinality(Outscoring(b, members, p)) < n
      BY <2>1, <3>3, <3>4
    <3>6. QED
      BY <3>5 DEF HrwTopNOwners
  <2>4. QED
    BY <2>2, <2>3
<1>5. QED
  BY <1>3, <1>4

(* A member is outscored by fewer members than there are, and by more the   *)
(* lower its score: the ranks of the members are different.                 *)
LEMMA RankRange ==
    ASSUME NEW b \in Block, NEW members \in SUBSET Id, IsFiniteSet(members), NEW p \in members
    PROVE  /\ Cardinality(members) \in Nat
           /\ Cardinality(Outscoring(b, members, p)) \in Nat
           /\ Cardinality(Outscoring(b, members, p)) < Cardinality(members)
<1>1. Outscoring(b, members, p) \subseteq members \ {p}
  BY ScoreAssumption DEF Outscoring
<1>2. /\ IsFiniteSet(members \ {p}) /\ Cardinality(members) \in Nat
      /\ Cardinality(members \ {p}) = Cardinality(members) - 1
  BY FS_RemoveElement, FS_CardinalityType
<1>3. Cardinality(Outscoring(b, members, p)) <= Cardinality(members \ {p})
  BY <1>1, <1>2, FS_Subset
<1> QED
  BY <1>2, <1>3, OutscoringFinite

LEMMA RankOrder ==
    ASSUME NEW b \in Block, NEW members \in SUBSET Id, IsFiniteSet(members),
           NEW p \in members, NEW q \in members, Score[b][q] > Score[b][p]
    PROVE  Cardinality(Outscoring(b, members, q)) < Cardinality(Outscoring(b, members, p))
<1>1. q \in Outscoring(b, members, p)
  BY DEF Outscoring
<1>2. /\ Outscoring(b, members, q) \subseteq Outscoring(b, members, p)
      /\ Outscoring(b, members, q) # Outscoring(b, members, p)
  BY <1>1, OutscoringMonotone
<1>3. IsFiniteSet(Outscoring(b, members, p))
  BY OutscoringFinite
<1>4. /\ Cardinality(Outscoring(b, members, q)) <= Cardinality(Outscoring(b, members, p))
      /\ Cardinality(Outscoring(b, members, q)) # Cardinality(Outscoring(b, members, p))
  BY <1>2, <1>3, FS_Subset
<1> QED
  BY <1>4, OutscoringFinite

LEMMA RankIdentifies ==
    ASSUME NEW b \in Block, NEW members \in SUBSET Id, IsFiniteSet(members),
           NEW p \in members, NEW q \in members,
           Cardinality(Outscoring(b, members, p)) = Cardinality(Outscoring(b, members, q))
    PROVE  p = q
<1>1. Cardinality(Outscoring(b, members, p)) \in Nat
  BY OutscoringFinite
<1>2. ~ (Score[b][q] > Score[b][p]) /\ ~ (Score[b][p] > Score[b][q])
  BY <1>1, RankOrder
<1>3. Score[b][p] \in Nat /\ Score[b][q] \in Nat
  BY ScoreAssumption
<1> QED
  BY <1>2, <1>3, ScoreAssumption

(* The members can be sorted by descending score: each rank is somebody's. *)
LEMMA SortExists ==
    ASSUME NEW b \in Block, NEW members \in SUBSET Id, IsFiniteSet(members)
    PROVE  \E s \in [1..Cardinality(members) -> members] :
               \A i, j \in 1..Cardinality(members) : i < j => Score[b][s[i]] > Score[b][s[j]]
<1> DEFINE N == Cardinality(members)
           Rank(p) == Cardinality(Outscoring(b, members, p))
           place == [p \in members |-> Rank(p) + 1]
           s == [i \in 1..N |-> CHOOSE p \in members : Rank(p) + 1 = i]
<1>1. N \in Nat
  BY FS_CardinalityType
<1>2. \A p \in members : Rank(p) \in Nat /\ Rank(p) + 1 \in 1..N
  BY RankRange
<1>3. \A p, q \in members : Rank(p) = Rank(q) => p = q
  BY RankIdentifies
<1>4. \A p, q \in members : Score[b][q] > Score[b][p] => Rank(q) < Rank(p)
  BY RankOrder
<1> HIDE DEF Rank, N
<1>5. place \in Injection(members, 1..N)
  <2>1. place \in [members -> 1..N]
    BY <1>2
  <2>2. ASSUME NEW p \in members, NEW q \in members, place[p] = place[q] PROVE p = q
    BY <1>2, <1>3, <2>2
  <2> QED
    BY <2>1, <2>2 DEF Injection, IsInjective
<1>6. IsFiniteSet(1..N) /\ Cardinality(1..N) = N
  BY <1>1, FS_Interval
<1>7. place \in Surjection(members, 1..N)
  BY <1>5, <1>6, FS_Injection DEF N
<1>8. ASSUME NEW i \in 1..N PROVE s[i] \in members /\ Rank(s[i]) + 1 = i
  <2>1. \E p \in members : Rank(p) + 1 = i
    BY <1>7 DEF Surjection
  <2> QED
    BY <2>1
<1>9. s \in [1..N -> members]
  BY <1>8
<1> HIDE DEF s
<1>10. ASSUME NEW i \in 1..N, NEW j \in 1..N, i < j PROVE Score[b][s[i]] > Score[b][s[j]]
  <2>1. s[i] \in members /\ s[j] \in members /\ Rank(s[i]) < Rank(s[j])
    BY <1>2, <1>8, <1>10
  <2>2. Score[b][s[i]] \in Nat /\ Score[b][s[j]] \in Nat
    BY <2>1, ScoreAssumption
  <2>3. Score[b][s[i]] # Score[b][s[j]]
    BY <1>2, <2>1, ScoreAssumption
  <2>4. ~ (Score[b][s[j]] > Score[b][s[i]])
    BY <1>2, <1>4, <2>1
  <2> QED
    BY <2>2, <2>3, <2>4
<1> QED
  BY <1>9, <1>10 DEF N

(* In the sorted list the i-th member is outscored by those before it. *)
LEMMA RankingPlaces ==
    ASSUME NEW b \in Block, NEW members \in SUBSET Id, IsFiniteSet(members)
    PROVE  /\ Ranking(b, members) \in Bijection(1..Cardinality(members), members)
           /\ \A i \in 1..Cardinality(members) :
                 Cardinality(Outscoring(b, members, Ranking(b, members)[i])) = i - 1
<1> DEFINE N == Cardinality(members)
           s == Ranking(b, members)
<1>1. N \in Nat
  BY FS_CardinalityType
<1>2. /\ s \in [1..N -> members]
      /\ \A i, j \in 1..N : i < j => Score[b][s[i]] > Score[b][s[j]]
  BY SortExists DEF Ranking
<1> HIDE DEF s, N
<1>3. \A i \in 1..N : s[i] \in members /\ Score[b][s[i]] \in Nat
  BY <1>2, ScoreAssumption
<1>4. ASSUME NEW i \in 1..N, NEW j \in 1..N PROVE s[i] = s[j] => i = j
  BY <1>1, <1>2, <1>3
<1>5. s \in Injection(1..N, members)
  BY <1>2, <1>4 DEF Injection, IsInjective
<1>6. s \in Surjection(1..N, members)
  <2>1. Cardinality(1..N) = N
    BY <1>1, FS_Interval
  <2> QED
    BY <1>5, <2>1, FS_Injection DEF N
<1>7. ASSUME NEW i \in 1..N PROVE Cardinality(Outscoring(b, members, s[i])) = i - 1
  <2> DEFINE before == [j \in 1..i - 1 |-> s[j]]
             O == Outscoring(b, members, s[i])
  <2>1. \A j \in 1..i - 1 : j \in 1..N /\ j < i
    BY <1>1
  <2>2. \A j \in 1..i - 1 : s[j] \in O
    BY <1>2, <1>3, <2>1 DEF Outscoring
  <2>3. ASSUME NEW p \in O PROVE \E j \in 1..i - 1 : s[j] = p
    <3>1. p \in members /\ Score[b][p] > Score[b][s[i]]
      BY DEF Outscoring
    <3>2. PICK j \in 1..N : s[j] = p
      BY <1>6, <3>1 DEF Surjection
    <3>3. ~ (i < j) /\ i # j
      BY <1>2, <1>3, <3>1, <3>2
    <3>4. j \in 1..i - 1
      BY <1>1, <3>3
    <3> QED
      BY <3>2, <3>4
  <2> HIDE DEF O
  <2>4. before \in [1..i - 1 -> O]
    BY <2>2
  <2>5. before \in Injection(1..i - 1, O)
    <3>1. \A j, k \in 1..i - 1 : before[j] = before[k] => j = k
      BY <1>4, <2>1
    <3> QED
      BY <2>4, <3>1 DEF Injection, IsInjective
  <2>6. before \in Surjection(1..i - 1, O)
    BY <2>3, <2>4 DEF Surjection
  <2>7. ExistsBijection(1..i - 1, O)
    BY <2>5, <2>6 DEF ExistsBijection, Bijection
  <2>8. i - 1 \in Nat
    BY <1>1
  <2> QED
    BY <2>7, <2>8, FS_CountingElements DEF O
<1> QED
  BY <1>5, <1>6, <1>7 DEF s, N, Bijection

(* HrwTopNOwners is the code's sort-and-take, and as many as it should be,  *)
(* for every finite group and every factor.                                 *)
THEOREM SortedPlacement ==
    ASSUME NEW b \in Block, NEW members \in SUBSET Id, IsFiniteSet(members), NEW n \in Nat
    PROVE  /\ HrwTopNOwners(b, members, n) = SortAndTake(b, members, n)
           /\ Cardinality(HrwTopNOwners(b, members, n))
                  = IF n < Cardinality(members) THEN n ELSE Cardinality(members)
<1> DEFINE N == Cardinality(members)
           s == Ranking(b, members)
           H == HrwTopNOwners(b, members, n)
           K == IF n < N THEN n ELSE N
<1>1. N \in Nat
  BY FS_CardinalityType
<1>2. /\ s \in Bijection(1..N, members)
      /\ \A i \in 1..N : Cardinality(Outscoring(b, members, s[i])) = i - 1
  BY RankingPlaces
<1> HIDE DEF N, s
<1>3. s \in [1..N -> members] /\ (\A i, j \in 1..N : s[i] = s[j] => i = j)
      /\ \A p \in members : \E i \in 1..N : s[i] = p
  BY <1>2 DEF Bijection, Injection, Surjection, IsInjective
<1>4. K \in Nat /\ \A i \in 1..K : i \in 1..N
  BY <1>1
<1>5. \A i \in 1..N : i \in 1..K <=> i - 1 < n
  BY <1>1
<1>6. \A i \in 1..N : i <= n <=> i \in 1..K
  BY <1>1
<1> HIDE DEF K
<1>7. \A p : p \in H <=> \E i \in 1..K : s[i] = p
  <2>1. ASSUME NEW i \in 1..K PROVE s[i] \in H
    BY <1>2, <1>3, <1>4, <1>5 DEF HrwTopNOwners
  <2>2. ASSUME NEW p \in H PROVE \E i \in 1..K : s[i] = p
    <3>1. p \in members /\ Cardinality(Outscoring(b, members, p)) < n
      BY DEF HrwTopNOwners
    <3>2. PICK i \in 1..N : s[i] = p
      BY <1>3, <3>1
    <3>3. i \in 1..K
      BY <1>2, <1>5, <3>1, <3>2
    <3> QED
      BY <3>2, <3>3
  <2> QED
    BY <2>1, <2>2
<1>8. H = SortAndTake(b, members, n)
  <2>1. SortAndTake(b, members, n) = {s[i] : i \in {k \in 1..N : k <= n}}
    BY DEF SortAndTake, s, N
  <2> HIDE DEF H
  <2>2. \A p : p \in SortAndTake(b, members, n) <=> \E i \in 1..K : s[i] = p
    BY <1>4, <1>6, <2>1
  <2> QED
    BY <1>7, <2>2
<1> HIDE DEF H
<1>9. Cardinality(H) = K
  <2> DEFINE first == [i \in 1..K |-> s[i]]
  <2>1. first \in [1..K -> H]
    BY <1>7
  <2>2. first \in Injection(1..K, H)
    <3>1. \A i, j \in 1..K : first[i] = first[j] => i = j
      BY <1>3, <1>4
    <3> QED
      BY <2>1, <3>1 DEF Injection, IsInjective
  <2>3. first \in Surjection(1..K, H)
    BY <1>7, <2>1 DEF Surjection
  <2>4. ExistsBijection(1..K, H)
    BY <2>2, <2>3 DEF ExistsBijection, Bijection
  <2> QED
    BY <1>4, <2>4, FS_CountingElements
<1> QED
  BY <1>8, <1>9 DEF H, K, N

(* For every block, every group of members and every factor the placement   *)
(* the other modules work with is the code's sort-and-take, and has as many  *)
(* owners as rs_replication_factor asks for, or all members.                *)
THEOREM PlacementAgrees == Spec => []AgreesWithSort
<1>1. Misplaced = {}
  <2> SUFFICES ASSUME NEW b \in Block, NEW members \in SUBSET Id, NEW n \in Factors
               PROVE  /\ HrwTopNOwners(b, members, n) = SortAndTake(b, members, n)
                      /\ Cardinality(HrwTopNOwners(b, members, n))
                             = IF n < Cardinality(members) THEN n ELSE Cardinality(members)
    BY DEF Misplaced, Placement
  <2>1. IsFiniteSet(members) /\ n \in Nat
    BY ClusterAssumption, FS_Subset DEF Factors
  <2> QED
    BY <2>1, SortedPlacement
<1>2. AgreesWithSort
  BY <1>1 DEF AgreesWithSort
<1> QED
  BY <1>2, PTL

(* A newcomer adds at most itself before a member in the sort. *)
LEMMA NewcomerAdds ==
    ASSUME NEW b \in Block, NEW members \in SUBSET Id, IsFiniteSet(members),
           NEW p \in Id \ members, NEW q \in members
    PROVE  /\ Cardinality(Outscoring(b, members, q)) \in Nat
           /\ Cardinality(Outscoring(b, members \cup {p}, q)) \in Nat
           /\ Cardinality(Outscoring(b, members, q)) <= Cardinality(Outscoring(b, members \cup {p}, q))
           /\ Cardinality(Outscoring(b, members \cup {p}, q)) <= Cardinality(Outscoring(b, members, q)) + 1
<1> DEFINE O == Outscoring(b, members, q)
           O2 == Outscoring(b, members \cup {p}, q)
<1>1. IsFiniteSet(O) /\ Cardinality(O) \in Nat
  BY OutscoringFinite
<1>2. O2 = O \/ O2 = O \cup {p}
  BY DEF Outscoring
<1> HIDE DEF O, O2
<1>3. Cardinality(O \cup {p}) = IF p \in O THEN Cardinality(O) ELSE Cardinality(O) + 1
  BY <1>1, FS_AddElement
<1> QED
  BY <1>1, <1>2, <1>3 DEF O, O2

(* A newcomer is the only one that gains the block, and displaces one owner  *)
(* of it at most.                                                          *)
THEOREM NewcomerDisturbs ==
    ASSUME NEW b \in Block, NEW members \in SUBSET Id, IsFiniteSet(members),
           NEW p \in Id \ members, NEW n \in Nat
    PROVE  /\ HrwTopNOwners(b, members \cup {p}, n) \subseteq HrwTopNOwners(b, members, n) \cup {p}
           /\ ~ (Cardinality(HrwTopNOwners(b, members, n)
                               \ HrwTopNOwners(b, members \cup {p}, n)) > 1)
<1> DEFINE old == HrwTopNOwners(b, members, n)
           new == HrwTopNOwners(b, members \cup {p}, n)
<1>1. ASSUME NEW q \in new, q # p PROVE q \in old
  <2>1. q \in members /\ Cardinality(Outscoring(b, members \cup {p}, q)) < n
    BY <1>1 DEF HrwTopNOwners
  <2> QED
    BY <2>1, NewcomerAdds DEF HrwTopNOwners
(* The displaced owner was the last one. *)
<1>2. ASSUME NEW q \in old \ new PROVE q \in members /\ Cardinality(Outscoring(b, members, q)) = n - 1
  <2>1. q \in members /\ Cardinality(Outscoring(b, members, q)) < n
    BY DEF HrwTopNOwners
  <2>2. ~ (Cardinality(Outscoring(b, members \cup {p}, q)) < n)
    BY <2>1 DEF HrwTopNOwners
  <2> QED
    BY <2>1, <2>2, NewcomerAdds
<1>3. ASSUME NEW q \in old \ new, NEW r \in old \ new PROVE q = r
  BY <1>2, RankIdentifies
<1>4. Cardinality(old \ new) = 0 \/ Cardinality(old \ new) = 1
  <2>1. CASE old \ new = {}
    BY <2>1, FS_EmptySet
  <2>2. ASSUME NEW q \in old \ new PROVE Cardinality(old \ new) = 1
    <3>1. old \ new = {q}
      BY <1>3, <2>2
    <3> QED
      BY <3>1, FS_Singleton
  <2> QED
    BY <2>1, <2>2
<1> QED
  BY <1>1, <1>4

(* For every block, every group and every factor a newcomer is the only one *)
(* that gains the block, and takes it from one owner at most.               *)
THEOREM MovesLittle == Spec => []MinimalDisruption
<1>1. ASSUME NEW v \in Placement, NEW p \in Id \ v[2]
      PROVE  /\ HrwTopNOwners(v[1], v[2] \cup {p}, v[3]) \subseteq HrwTopNOwners(v[1], v[2], v[3]) \cup {p}
             /\ ~ (Cardinality(HrwTopNOwners(v[1], v[2], v[3])
                                 \ HrwTopNOwners(v[1], v[2] \cup {p}, v[3])) > 1)
  <2>1. v[1] \in Block /\ v[2] \in SUBSET Id /\ v[3] \in Factors
    BY DEF Placement
  <2>2. IsFiniteSet(v[2]) /\ v[3] \in Nat
    BY <2>1, ClusterAssumption, FS_Subset DEF Factors
  <2> QED
    BY <2>1, <2>2, NewcomerDisturbs
<1>2. Disturbed = {}
  BY <1>1, Zenon DEF Disturbed
<1>3. MinimalDisruption
  BY <1>2 DEF MinimalDisruption
<1> QED
  BY <1>3, PTL

-----------------------------------------------------------------------------
(* The operators on entries and metadata. *)

LEMMA NoEntryIsNone == NoEntry \notin Entry
  BY ClusterAssumption DEF Entry

LEMMA IdleTypes ==
    /\ NoSnapshot \in Metadata
    /\ IdleSync \in SyncState
    /\ IdleDownload \in DownloadState
  BY DEF NoSnapshot, Metadata, IdleSync, SyncState, IdleDownload, DownloadState

(* upsert_file leaves a metadata that is a function of the file names. *)
LEMMA UpsertType ==
    ASSUME NEW m \in Metadata, NEW f \in File, NEW e \in Entry \cup {NoEntry}
    PROVE  Upsert(m, f, e) \in Metadata
  BY DEF Upsert, Metadata

LEMMA SetSyncingType ==
    ASSUME NEW m \in Metadata, NEW f \in File
    PROVE  SetSyncing(m, f) \in Metadata
<1>1. CASE m[f] = NoEntry
  BY <1>1 DEF SetSyncing
<1>2. CASE m[f] # NoEntry
  <2>1. m[f] \in Entry
    BY <1>2 DEF Metadata
  <2>2. [m[f] EXCEPT !.syncing = TRUE, !.complete = FALSE] \in Entry
    BY <2>1 DEF Entry
  <2>3. SetSyncing(m, f)
          = [m EXCEPT ![f] = [m[f] EXCEPT !.syncing = TRUE, !.complete = FALSE]]
    BY <1>2 DEF SetSyncing, Metadata
  <2>4. QED
    BY <2>2, <2>3 DEF Metadata
<1>3. QED
  BY <1>1, <1>2

LEMMA FlagsType ==
    ASSUME NEW e \in Entry, NEW c \in BOOLEAN, NEW s \in BOOLEAN
    PROVE  /\ WithFlags(e, c, s) \in Entry
           /\ WithFlags(e, c, s).complete = c
           /\ WithFlags(e, c, s).syncing = s
           /\ WithFlags(e, c, s).content = e.content
           /\ WithFlags(e, c, s).members = e.members
  BY DEF Entry, WithFlags

LEMMA RemoteEntryType ==
    ASSUME NEW e \in Entry, NEW blocks
    PROVE  /\ RemoteEntry(e, blocks) \in Entry
           /\ RemoteEntry(e, blocks).syncing = FALSE
<1>1. (BlocksOf[e.content] \subseteq blocks) \in BOOLEAN
  OBVIOUS
<1>2. QED
  BY <1>1, FlagsType DEF RemoteEntry

LEMMA PrunedEntryType ==
    ASSUME NEW n, NEW e \in Entry, NEW fallback
    PROVE  /\ PrunedEntry(n, e, fallback) \in Entry
           /\ PrunedEntry(n, e, fallback).syncing = FALSE
           /\ PrunedEntry(n, e, fallback).content = e.content
           /\ PrunedEntry(n, e, fallback).members = e.members
<1>1. (/\ me[n] \in EntryMembers(e.members, fallback)
       /\ PruneShare(n, e, fallback) \subseteq PruneKeeps(n, fallback)
       /\ BlocksOf[e.content] # {}) \in BOOLEAN
  OBVIOUS
<1>2. QED
  BY <1>1, FlagsType DEF PrunedEntry

LEMMA PruneKeepsType ==
    ASSUME TypeOK, NEW n \in Node, NEW fallback
    PROVE  PruneKeeps(n, fallback) \in SUBSET Block
<1>1. ASSUME NEW f \in File, meta[n][f] # NoEntry
      PROVE  PruneShare(n, meta[n][f], fallback) \subseteq Block
  <2>1. meta[n][f] \in Entry
    BY <1>1 DEF TypeOK, Metadata
  <2>2. BlocksOf[meta[n][f].content] \subseteq Block
    BY <2>1, ClusterAssumption DEF Entry
  <2>3. QED
    BY <2>2 DEF PruneShare, AssignedBlocks
<1>2. QED
  BY <1>1 DEF PruneKeeps

LEMMA CleanupType ==
    ASSUME NEW m, NEW f, NEW blocks \in SUBSET Block
    PROVE  Cleanup(m, f, blocks) \in SUBSET Block
  BY DEF Cleanup
-----------------------------------------------------------------------------
(* Type correctness, one step per action. *)

THEOREM InitTyped == Init => TypeOK
<1> SUFFICES ASSUME Init PROVE TypeOK
  OBVIOUS
<1>1. InitId \in [Node -> Id] /\ MaxOps \in Nat
  BY ClusterAssumption
<1>2. 0 \in 0..MaxOps
  BY <1>1
<1>3. \A n \in Node : sync[n].pc = "idle" /\ dl[n].pc = "idle"
  BY DEF Init, IdleSync, IdleDownload
<1>4. QED
  BY <1>1, <1>2, <1>3, IdleTypes DEF Init, TypeOK

(* The machine-local steps of the sync task. *)
LEMMA SyncStepTyped ==
    ASSUME TypeOK, NEW n \in Node, SyncStep(n)
    PROVE  TypeOK'
<1> USE NoEntryIsNone DEF TypeOK
<1>1. ASSUME NEW f \in File, SyncStranger(n, f) PROVE TypeOK'
  <2>1. sync[n].todo[f] \in Entry
    BY <1>1 DEF SyncStranger, SyncState, Metadata
  <2>a. WithFlags(sync[n].todo[f], FALSE, FALSE) \in Entry
    BY <2>1, FlagsType
  <2>b. Upsert(meta[n], f, WithFlags(sync[n].todo[f], FALSE, FALSE)) \in Metadata
    BY <2>a, UpsertType
  <2>2. meta' \in [Node -> Metadata]
    BY <1>1, <2>b DEF SyncStranger
  <2>3. [sync[n].todo EXCEPT ![f] = NoEntry] \in Metadata
    BY DEF SyncState, Metadata
  <2>4. sync' \in [Node -> SyncState] /\ sync'[n].pc = "scan"
    BY <1>1, <2>3 DEF SyncStranger, SyncState
  <2>5. QED
    BY <1>1, <2>2, <2>4 DEF SyncStranger
<1>2. ASSUME NEW f \in File, SyncNothingMissing(n, f) PROVE TypeOK'
  <2>1. sync[n].todo[f] \in Entry
    BY <1>2 DEF SyncNothingMissing, SyncState, Metadata
  <2>2. meta' \in [Node -> Metadata]
    BY <1>2, <2>1, UpsertType, FlagsType DEF SyncNothingMissing
  <2>3. [sync[n].todo EXCEPT ![f] = NoEntry] \in Metadata
    BY DEF SyncState, Metadata
  <2>4. sync' \in [Node -> SyncState] /\ sync'[n].pc = "scan"
    BY <1>2, <2>3 DEF SyncNothingMissing, SyncState
  <2>5. QED
    BY <1>2, <2>2, <2>4 DEF SyncNothingMissing
<1>3. ASSUME NEW f \in File, SyncBegin(n, f) PROVE TypeOK'
  <2>1. meta' \in [Node -> Metadata]
    BY <1>3, SetSyncingType DEF SyncBegin
  <2>2. SyncMissing(n, sync[n].todo[f]) \in SUBSET Block
    <3>1. BlocksOf[sync[n].todo[f].content] \subseteq Block
      BY <1>3, ClusterAssumption DEF SyncBegin, SyncState, Metadata, Entry
    <3>2. QED
      BY <3>1 DEF SyncMissing, Assigned, AssignedBlocks
  <2>3. /\ sync' \in [Node -> SyncState]
        /\ sync'[n].file = f
        /\ sync'[n].todo = sync[n].todo
    BY <1>3, <2>2 DEF SyncBegin, SyncState
  <2>4. QED
    BY <1>3, <2>1, <2>3 DEF SyncBegin
<1>4. ASSUME NEW b \in Block, SyncFetch(n, b) PROVE TypeOK'
  <2>1. /\ sync' \in [Node -> SyncState]
        /\ sync'[n].file = sync[n].file
        /\ sync'[n].todo = sync[n].todo
    BY <1>4 DEF SyncFetch, SyncState
  <2>2. QED
    BY <1>4, <2>1 DEF SyncFetch
<1>5. ASSUME NEW b \in Block, SyncGiveUp(n, b) PROVE TypeOK'
  <2>1. /\ sync' \in [Node -> SyncState]
        /\ sync'[n].file = sync[n].file
        /\ sync'[n].todo = sync[n].todo
    BY <1>5 DEF SyncGiveUp, SyncState
  <2>2. QED
    BY <1>5, <2>1 DEF SyncGiveUp
<1>6. CASE SyncCheck(n)
  <2> DEFINE assigned == Assigned(n, sync[n].todo[sync[n].file], SyncFallback, RF)
             have == assigned # {} /\ assigned \subseteq disk[n]
  <2>a. have \in BOOLEAN
    OBVIOUS
  <2>b. sync' = [sync EXCEPT ![n] = [sync[n] EXCEPT !.pc = "write", !.have = have]]
    BY <1>6 DEF SyncCheck
  <2> HIDE DEF have
  <2>1. /\ sync' \in [Node -> SyncState]
        /\ sync'[n].file = sync[n].file
        /\ sync'[n].todo = sync[n].todo
    BY <1>6, <2>a, <2>b DEF SyncState
  <2>2. QED
    BY <1>6, <2>1 DEF SyncCheck
<1>7. CASE SyncWrite(n)
  <2>1. /\ sync[n].file \in File
        /\ sync[n].todo[sync[n].file] \in Entry
        /\ sync[n].have \in BOOLEAN
    BY <1>7 DEF SyncWrite, SyncState, Metadata
  <2>2. meta' \in [Node -> Metadata]
    BY <1>7, <2>1, UpsertType, FlagsType DEF SyncWrite
  <2>3. [sync[n].todo EXCEPT ![sync[n].file] = NoEntry] \in Metadata
    BY <2>1 DEF SyncState, Metadata
  <2>4. sync' \in [Node -> SyncState] /\ sync'[n].pc = "scan"
    BY <1>7, <2>3, IdleTypes DEF SyncWrite, SyncState, IdleSync
  <2>5. QED
    BY <1>7, <2>2, <2>4 DEF SyncWrite
<1>8. CASE SyncEnd(n)
  BY <1>8, IdleTypes DEF SyncEnd, IdleSync
<1>9. QED
  BY <1>1, <1>2, <1>3, <1>4, <1>5, <1>6, <1>7, <1>8 DEF SyncStep

(* Requests never carry anything but an entry or, for a deletion, none. *)
LEMMA RequestsTyped ==
    ASSUME NEW P \in SUBSET Node, NEW f \in File, NEW e \in Entry
    PROVE  /\ [type : {"announce"}, to : P, file : {f}, entry : {e}] \subseteq Request
           /\ [type : {"delete"}, to : P, file : {f}, entry : {NoEntry}] \subseteq Request
  BY DEF Request

LEMMA UserStepTyped ==
    ASSUME TypeOK, NEW n \in Node, UserStep(n)
    PROVE  TypeOK'
<1> USE NoEntryIsNone DEF TypeOK
<1>0. ASSUME UserOp PROVE ops' \in 0..MaxOps
  BY <1>0, ClusterAssumption DEF UserOp
<1>1. ASSUME NEW f \in File, NEW c \in Content, NEW P \in SUBSET PeerIds(n),
             NEW p2p \in BOOLEAN, RsPut(n, f, c, P, p2p)
      PROVE  TypeOK'
  <2> DEFINE e == [content |-> c,
                   members |-> IF p2p THEN P \cup {me[n]} ELSE {},
                   complete |-> TRUE, syncing |-> FALSE]
  <2>1. e \in Entry
    BY DEF Entry, PeerIds, Others
  <2> HIDE DEF e
  <2>2. meta' = [meta EXCEPT ![n] = Upsert(meta[n], f, e)]
    BY <1>1 DEF RsPut, e
  <2>3. meta' \in [Node -> Metadata]
    BY <2>1, <2>2, UpsertType
  <2>4. BlocksOf[c] \subseteq Block
    BY ClusterAssumption
  <2>5. disk' \in [Node -> SUBSET Block]
    BY <1>1, <2>4 DEF RsPut
  <2> DEFINE to == {m \in Others(n) : id[m] \in P}
  <2>6. net' = net \cup [type : {"announce"}, to : to, file : {f}, entry : {e}]
    BY <1>1 DEF RsPut, e
  <2>7. to \in SUBSET Node
    BY DEF Others
  <2> HIDE DEF to
  <2>8. /\ net' \subseteq Request
        /\ \A r \in net' : r.type = "announce" => r.entry # NoEntry
    BY <2>1, <2>6, <2>7, RequestsTyped
  <2>9. QED
    BY <1>0, <1>1, <2>3, <2>5, <2>8 DEF RsPut
<1>2. ASSUME NEW f \in File, NEW P \in SUBSET Others(n), RsDelete(n, f, P)
      PROVE  TypeOK'
  <2>1. meta' \in [Node -> Metadata]
    BY <1>2 DEF RsDelete, RemoveFile, Metadata
  <2>2. disk' \in [Node -> SUBSET Block]
    BY <1>2, CleanupType DEF RsDelete, RemoveFile
  <2>3. /\ net' \subseteq Request
        /\ \A r \in net' : r.type = "announce" => r.entry # NoEntry
    BY <1>2 DEF RsDelete, Request, Others
  <2>4. QED
    BY <1>0, <1>2, <2>1, <2>2, <2>3 DEF RsDelete, RemoveFile
<1>3. ASSUME NEW p \in Node, RsList(n, p) PROVE TypeOK'
  <2>1. ASSUME NEW f \in File, meta[p][f] # NoEntry
        PROVE  RemoteEntry(meta[p][f], disk[n]) \in Entry
    <3>1. meta[p][f] \in Entry
      BY <2>1 DEF Metadata
    <3>2. QED
      BY <3>1, RemoteEntryType
  <2>2. [f \in File |-> IF meta[p][f] = NoEntry THEN meta[n][f]
                        ELSE RemoteEntry(meta[p][f], disk[n])] \in Metadata
    BY <2>1 DEF Metadata
  <2>3. meta' \in [Node -> Metadata]
    BY <1>3, <2>2 DEF RsList
  <2>4. QED
    BY <1>0, <1>3, <2>3 DEF RsList
<1>4. ASSUME NEW f \in File, DownloadStart(n, f) PROVE TypeOK'
  <2>1. meta' \in [Node -> Metadata]
    BY <1>4, SetSyncingType DEF DownloadStart
  <2>2. meta[n][f] \in Entry
    BY <1>4 DEF DownloadStart, Metadata
  <2>3. /\ dl' \in [Node -> DownloadState]
        /\ dl'[n].file = f /\ dl'[n].entry = meta[n][f]
    BY <1>4, <2>2, IdleTypes DEF DownloadStart, DownloadState, IdleDownload
  <2>4. QED
    BY <1>0, <1>4, <2>1, <2>2, <2>3 DEF DownloadStart
<1>5. ASSUME NEW b \in Block, DownloadBlock(n, b) PROVE TypeOK'
  BY <1>5 DEF DownloadBlock
<1>6. CASE DownloadAbort(n)
  BY <1>6, IdleTypes DEF DownloadAbort, IdleDownload
<1>7. CASE DownloadComplete(n)
  <2>1. dl[n].file \in File /\ dl[n].entry \in Entry
    BY <1>7 DEF DownloadComplete, DownloadState
  <2>2. WithFlags(dl[n].entry, TRUE, FALSE) \in Entry
    BY <2>1, FlagsType
  <2>3. Upsert(meta[n], dl[n].file, WithFlags(dl[n].entry, TRUE, FALSE)) \in Metadata
    BY <2>1, <2>2, UpsertType
  <2>4. meta' \in [Node -> Metadata]
    BY <1>7, <2>3 DEF DownloadComplete
  <2>5. /\ dl' \in [Node -> DownloadState]
        /\ dl'[n].file = dl[n].file /\ dl'[n].entry = dl[n].entry
    BY <1>7 DEF DownloadComplete, DownloadState
  <2>6. QED
    BY <1>7, <2>1, <2>4, <2>5 DEF DownloadComplete
<1>8. ASSUME NEW P \in SUBSET PeerIds(n), PruneList(n, P) PROVE TypeOK'
  <2> DEFINE fb == EntryMembers(dl[n].entry.members, P \cup {me[n]})
             listed == [f \in File |-> IF meta[n][f] = NoEntry THEN NoEntry
                                       ELSE PrunedEntry(n, meta[n][f], fb)]
  <2>1. ASSUME NEW f \in File, meta[n][f] # NoEntry
        PROVE  PrunedEntry(n, meta[n][f], fb) \in Entry
    <3>1. meta[n][f] \in Entry
      BY <2>1 DEF Metadata
    <3>2. QED
      BY <3>1, PrunedEntryType
  <2>2. listed \in Metadata
    BY <2>1 DEF Metadata
  <2>3. PruneKeeps(n, fb) \in SUBSET Block
    BY PruneKeepsType
  <2>4. dl' = [dl EXCEPT ![n] = [IdleDownload EXCEPT
                  !.pc = "unlink", !.listed = listed, !.keep = PruneKeeps(n, fb),
                  !.scan = disk[n] \ PruneKeeps(n, fb)]]
    BY <1>8 DEF PruneList
  <2> HIDE DEF listed, fb
  <2>5. dl' \in [Node -> DownloadState] /\ dl'[n].pc = "unlink"
    BY <2>2, <2>3, <2>4 DEF IdleDownload, DownloadState
  <2>6. QED
    BY <1>8, <2>4, <2>5 DEF PruneList
<1>9. ASSUME NEW b \in Block, PruneUnlink(n, b) PROVE TypeOK'
  <2>1. dl' \in [Node -> DownloadState] /\ dl'[n].pc = "unlink"
    BY <1>9 DEF PruneUnlink, DownloadState
  <2>2. disk' \in [Node -> SUBSET Block]
    BY <1>9 DEF PruneUnlink
  <2>3. QED
    BY <1>9, <2>1, <2>2 DEF PruneUnlink
<1>10. CASE PruneScanned(n)
  <2>1. dl' \in [Node -> DownloadState] /\ dl'[n].pc = "upsert"
    BY <1>10, IdleTypes DEF PruneScanned, DownloadState, IdleDownload
  <2>2. QED
    BY <1>10, <2>1 DEF PruneScanned
<1>11. ASSUME NEW f \in File, PruneUpsert(n, f) PROVE TypeOK'
  <2>1. dl[n].listed \in Metadata /\ dl[n].listed[f] \in Entry
    BY <1>11 DEF PruneUpsert, DownloadState, Metadata
  <2>2. Upsert(meta[n], f, dl[n].listed[f]) \in Metadata
    BY <2>1, UpsertType
  <2>3. meta' \in [Node -> Metadata]
    BY <1>11, <2>2 DEF PruneUpsert
  <2>4. [dl[n].listed EXCEPT ![f] = NoEntry] \in Metadata
    BY <2>1 DEF Metadata
  <2>5. dl' \in [Node -> DownloadState] /\ dl'[n].pc = "upsert"
    BY <1>11, <2>4 DEF PruneUpsert, DownloadState
  <2>6. QED
    BY <1>11, <2>3, <2>5 DEF PruneUpsert
<1>12. CASE PruneEnd(n)
  BY <1>12, IdleTypes DEF PruneEnd, IdleDownload
<1>13. CASE TuiRestart(n)
  BY <1>13, IdleTypes DEF TuiRestart, IdleDownload
<1> HIDE DEF TypeOK
<1>14. QED
  BY <1>1, <1>2, <1>3, <1>4, <1>5, <1>6, <1>7, <1>8, <1>9, <1>10, <1>11, <1>12, <1>13,
     Zenon DEF UserStep

LEMMA DaemonStepTyped ==
    ASSUME TypeOK, NEW r \in net,
           HandleAnnounce(r) \/ HandleDelete(r) \/ LoseRequest(r)
    PROVE  TypeOK'
<1> USE NoEntryIsNone DEF TypeOK
<1>1. CASE HandleAnnounce(r)
  <2>1. r.to \in Node /\ r.file \in File /\ r.entry \in Entry
    BY <1>1 DEF HandleAnnounce, Request
  <2>2. RemoteEntry(r.entry, disk[r.to]) \in Entry
    BY <2>1, RemoteEntryType
  <2>3. Upsert(meta[r.to], r.file, RemoteEntry(r.entry, disk[r.to])) \in Metadata
    BY <2>1, <2>2, UpsertType
  <2>4. meta' \in [Node -> Metadata]
    BY <1>1, <2>1, <2>3 DEF HandleAnnounce
  <2>5. QED
    BY <1>1, <2>4 DEF HandleAnnounce
<1>2. CASE HandleDelete(r)
  <2>1. r.to \in Node /\ r.file \in File
    BY DEF Request
  <2>2. meta' \in [Node -> Metadata]
    BY <1>2, <2>1 DEF HandleDelete, RemoveFile, Metadata
  <2>3. disk' \in [Node -> SUBSET Block]
    BY <1>2, <2>1, CleanupType DEF HandleDelete, RemoveFile
  <2>4. QED
    BY <1>2, <2>1, <2>2, <2>3 DEF HandleDelete, RemoveFile
<1>3. CASE LoseRequest(r)
  BY <1>3 DEF LoseRequest
<1>4. QED
  BY <1>1, <1>2, <1>3

LEMMA SyncStartTyped ==
    ASSUME TypeOK, NEW n \in Node, SyncStart(n)
    PROVE  TypeOK'
<1> USE DEF TypeOK
<1>1. /\ sync' \in [Node -> SyncState] /\ sync'[n].pc = "scan"
  BY IdleTypes DEF SyncStart, SyncState, IdleSync
<1>2. QED
  BY <1>1 DEF SyncStart

(* Every step of the cluster keeps the state well typed; in particular a   *)
(* sync run and a download always have the entry they work on.             *)
THEOREM TypeCorrect == Spec => []TypeOK
<1>1. TypeOK /\ [Next]_vars => TypeOK'
  <2> SUFFICES ASSUME TypeOK, [Next]_vars PROVE TypeOK'
    OBVIOUS
  <2>u. Users \subseteq Node /\ Getters \subseteq Node
    BY ClusterAssumption
  <2>1. ASSUME NEW n \in Users, UserStep(n) PROVE TypeOK'
    BY <2>u, <2>1, UserStepTyped
  <2>t. ASSUME NEW n \in Getters, SyncTrigger(n) PROVE TypeOK'
    BY <2>u, <2>t, SyncStartTyped DEF SyncTrigger
  <2>2. ASSUME NEW n \in Node, SyncTick(n) \/ SyncStep(n) PROVE TypeOK'
    BY <2>2, SyncStepTyped, SyncStartTyped DEF SyncTick
  <2>3. ASSUME NEW n \in Node, NEW p \in Id, Restart(n, p) PROVE TypeOK'
    <3>1. ops' \in 0..MaxOps
      BY <2>3, ClusterAssumption DEF Restart, UserOp, TypeOK
    <3>2. ids' \in [Node -> SUBSET Id]
      BY <2>3 DEF Restart, TypeOK
    <3>3. QED
      BY <2>3, <3>1, <3>2, IdleTypes DEF Restart, TypeOK, IdleSync
  <2>4. ASSUME NEW r \in net, HandleAnnounce(r) \/ HandleDelete(r) \/ LoseRequest(r)
        PROVE  TypeOK'
    BY <2>4, DaemonStepTyped
  <2>5. CASE UNCHANGED vars
    BY <2>5 DEF vars, TypeOK
  <2>6. QED
    BY <2>1, <2>t, <2>2, <2>3, <2>4, <2>5 DEF Next
<1>2. QED
  BY InitTyped, <1>1, PTL DEF Spec

-----------------------------------------------------------------------------
(* What a prune remembers of its listing. *)

(* The blocks that the holder of the id m is to store of e. *)
ShareAs(m, e) ==
    IF e.members = {} THEN {}
    ELSE AssignedBlocks(BlocksOf[e.content], e.members, m, RF)

(* A listed entry is stored with syncing off, and what the prune keeps     *)
(* holds the TUI's share of it as long as the configured factor is not     *)
(* above the one the prune uses.                                            *)
PictureOf(d, m) ==
    \A f \in File : d.listed[f] # NoEntry =>
        /\ d.listed[f].syncing = FALSE
        /\ d.pc = "unlink" /\ RF <= PruneFactor
              => ShareAs(m, d.listed[f]) \subseteq d.keep

Picture == \A n \in Node : PictureOf(dl[n], me[n])

IdlePicture == \A f \in File : IdleDownload.listed[f] = NoEntry

LEMMA NothingListed == IdlePicture
  BY DEF IdlePicture, IdleDownload, NoSnapshot

(* What a prune keeps includes the share of each listed file. *)
LEMMA PruneKeepsShare ==
    ASSUME TypeOK, RF <= PruneFactor, NEW n \in Node, NEW f \in File, NEW fallback,
           meta[n][f] # NoEntry
    PROVE  ShareAs(me[n], meta[n][f]) \subseteq PruneKeeps(n, fallback)
<1> DEFINE e == meta[n][f]
<1> SUFFICES ASSUME e.members # {}
             PROVE  ShareAs(me[n], e) \subseteq PruneKeeps(n, fallback)
  BY DEF ShareAs
<1>1. e \in Entry /\ me[n] \in Id
  BY DEF TypeOK, Metadata
<1>2. e.members \in SUBSET Id /\ IsFiniteSet(e.members)
  BY <1>1, FS_Subset, ClusterAssumption DEF Entry
<1>3. BlocksOf[e.content] \subseteq Block
  BY <1>1, ClusterAssumption DEF Entry
<1>4. RF \in Nat /\ PruneFactor \in Nat
  BY ClusterAssumption DEF PruneFactor
<1>5. AssignedBlocks(BlocksOf[e.content], e.members, me[n], RF)
         \subseteq AssignedBlocks(BlocksOf[e.content], e.members, me[n], PruneFactor)
  BY <1>1, <1>2, <1>3, <1>4, FactorMonotone DEF AssignedBlocks, IsBlockAssignedTo
<1>6. PruneShare(n, e, fallback)
         = AssignedBlocks(BlocksOf[e.content], e.members, me[n], PruneFactor)
  BY DEF PruneShare, EntryMembers
<1>7. PruneShare(n, e, fallback) \subseteq PruneKeeps(n, fallback)
  BY DEF PruneKeeps
<1>8. ShareAs(me[n], e) = AssignedBlocks(BlocksOf[e.content], e.members, me[n], RF)
  BY DEF ShareAs
<1> HIDE DEF e
<1>9. QED
  BY <1>5, <1>6, <1>7, <1>8

(* The flags a prune sets do not change who stores the blocks. *)
LEMMA PrunedShare ==
    ASSUME NEW n, NEW e \in Entry, NEW fallback, NEW m
    PROVE  ShareAs(m, PrunedEntry(n, e, fallback)) = ShareAs(m, e)
  BY PrunedEntryType DEF ShareAs

LEMMA PictureListed ==
    ASSUME TypeOK, NEW n \in Node, NEW P \in SUBSET PeerIds(n), PruneList(n, P)
    PROVE  PictureOf(dl'[n], me[n])
<1> DEFINE fb == EntryMembers(dl[n].entry.members, P \cup {me[n]})
           listed == [f \in File |-> IF meta[n][f] = NoEntry THEN NoEntry
                                     ELSE PrunedEntry(n, meta[n][f], fb)]
<1>1. dl'[n] = [IdleDownload EXCEPT
                  !.pc = "unlink", !.listed = listed, !.keep = PruneKeeps(n, fb),
                  !.scan = disk[n] \ PruneKeeps(n, fb)]
  BY DEF PruneList, TypeOK
<1>2. dl'[n].listed = listed /\ dl'[n].keep = PruneKeeps(n, fb)
  BY <1>1 DEF IdleDownload
<1>3. ASSUME NEW f \in File, listed[f] # NoEntry
      PROVE  /\ listed[f].syncing = FALSE
             /\ RF <= PruneFactor => ShareAs(me[n], listed[f]) \subseteq PruneKeeps(n, fb)
  <2>1. meta[n][f] # NoEntry /\ listed[f] = PrunedEntry(n, meta[n][f], fb)
    BY <1>3
  <2>2. meta[n][f] \in Entry
    BY <2>1 DEF TypeOK, Metadata
  <2>3. RF <= PruneFactor => ShareAs(me[n], meta[n][f]) \subseteq PruneKeeps(n, fb)
    BY <2>1, PruneKeepsShare
  <2>4. PrunedEntry(n, meta[n][f], fb).syncing = FALSE
    BY <2>2, PrunedEntryType
  <2>5. ShareAs(me[n], PrunedEntry(n, meta[n][f], fb)) = ShareAs(me[n], meta[n][f])
    BY <2>2, PrunedShare
  <2> HIDE DEF listed, fb
  <2>6. QED
    BY <2>1, <2>3, <2>4, <2>5
<1> HIDE DEF listed, fb
<1>4. QED
  BY <1>2, <1>3 DEF PictureOf

(* The steps that are no part of a download leave it alone. *)
DownloadsKept == dl' = dl /\ me' = me

LEMMA DownloadsStay ==
    /\ \A n \in Node :
          /\ \A f \in File, c \in Content, P \in SUBSET PeerIds(n), p2p \in BOOLEAN :
                RsPut(n, f, c, P, p2p) => DownloadsKept
          /\ \A f \in File, P \in SUBSET Others(n) : RsDelete(n, f, P) => DownloadsKept
          /\ \A p \in Node : RsList(n, p) => DownloadsKept
          /\ \A b \in Block : DownloadBlock(n, b) => DownloadsKept
          /\ SyncStart(n) \/ SyncStep(n) => DownloadsKept
          /\ \A p \in Id : Restart(n, p) => DownloadsKept
    /\ \A r \in net : HandleAnnounce(r) \/ HandleDelete(r) \/ LoseRequest(r) => DownloadsKept
<1>1. \A n \in Node : SyncStart(n) \/ SyncStep(n) => DownloadsKept
  <2> TAKE n \in Node
  <2>1. \A f \in File : SyncStranger(n, f) \/ SyncNothingMissing(n, f) \/ SyncBegin(n, f)
           => DownloadsKept
    BY DEF SyncStranger, SyncNothingMissing, SyncBegin, DownloadsKept
  <2>2. \A b \in Block : SyncFetch(n, b) \/ SyncGiveUp(n, b) => DownloadsKept
    BY DEF SyncFetch, SyncGiveUp, DownloadsKept
  <2>3. SyncCheck(n) \/ SyncWrite(n) \/ SyncEnd(n) \/ SyncStart(n) => DownloadsKept
    BY DEF SyncCheck, SyncWrite, SyncEnd, SyncStart, DownloadsKept
  <2>4. QED
    BY <2>1, <2>2, <2>3 DEF SyncStep
<1>2. QED
  BY <1>1 DEF RsPut, RsDelete, RsList, DownloadBlock, Restart, HandleAnnounce, HandleDelete,
     LoseRequest, DownloadsKept

(* One machine's download changes, and its picture is right. *)
LEMMA OneMachinePicture ==
    ASSUME TypeOK, Picture, NEW n \in Node, NEW d, NEW m, PictureOf(d, m),
           dl' = [dl EXCEPT ![n] = d], me' = [me EXCEPT ![n] = m]
    PROVE  Picture'
  BY DEF TypeOK, Picture, PictureOf

LEMMA PictureStep ==
    ASSUME TypeOK, Picture, [Next]_vars
    PROVE  Picture'
<1>0. Users \subseteq Node /\ Getters \subseteq Node
  BY ClusterAssumption
<1>1. ASSUME DownloadsKept PROVE Picture'
  BY <1>1 DEF DownloadsKept, Picture, PictureOf
<1>2. ASSUME NEW n \in Node, NEW d, \A f \in File : d.listed[f] = NoEntry,
             dl' = [dl EXCEPT ![n] = d], me' = me \/ me' = [me EXCEPT ![n] = id[n]]
      PROVE  Picture'
  BY <1>2 DEF TypeOK, Picture, PictureOf
<1>3. ASSUME NEW n \in Node, PictureOf(dl'[n], me[n]), me' = me,
             \A k \in Node \ {n} : dl'[k] = dl[k]
      PROVE  Picture'
  BY <1>3 DEF Picture, PictureOf
<1>4. ASSUME NEW n \in Node, UserStep(n) PROVE Picture'
  <2>0. PictureOf(dl[n], me[n]) /\ dl \in [Node -> DownloadState]
    BY DEF Picture, TypeOK
  <2>1. ASSUME NEW f \in File, DownloadStart(n, f) PROVE Picture'
    <3>1. \A g \in File : [IdleDownload EXCEPT !.pc = "fetch", !.file = f,
                                               !.entry = meta[n][f]].listed[g] = NoEntry
      BY NothingListed DEF IdlePicture, IdleDownload
    <3>2. QED
      BY <1>2, <2>1, <3>1 DEF DownloadStart
  <2>2. CASE DownloadAbort(n) \/ PruneEnd(n) \/ TuiRestart(n)
    BY <1>2, <2>2, NothingListed DEF IdlePicture, DownloadAbort, PruneEnd, TuiRestart
  <2>3. CASE DownloadComplete(n)
    <3>1. dl'[n].pc = "prune" /\ dl'[n].listed = dl[n].listed
      BY <2>0, <2>3 DEF DownloadComplete, DownloadState
    <3>2. QED
      BY <1>3, <2>0, <2>3, <3>1 DEF DownloadComplete, PictureOf
  <2>4. ASSUME NEW P \in SUBSET PeerIds(n), PruneList(n, P) PROVE Picture'
    <3>1. PictureOf(dl'[n], me[n])
      BY <2>4, PictureListed
    <3>2. \A k \in Node \ {n} : dl'[k] = dl[k]
      BY <2>0, <2>4 DEF PruneList
    <3>3. me' = me
      BY <2>4 DEF PruneList
    <3>4. QED
      BY <1>3, <3>1, <3>2, <3>3
  <2>5. ASSUME NEW b \in Block, PruneUnlink(n, b) PROVE Picture'
    <3>1. /\ dl'[n].listed = dl[n].listed /\ dl'[n].keep = dl[n].keep
          /\ dl'[n].pc = dl[n].pc
      BY <2>0, <2>5 DEF PruneUnlink, DownloadState
    <3>2. QED
      BY <1>3, <2>0, <2>5, <3>1 DEF PruneUnlink, PictureOf
  <2>6. CASE PruneScanned(n)
    <3>1. dl'[n].pc = "upsert" /\ dl'[n].listed = dl[n].listed
      BY <2>0, <2>6 DEF PruneScanned, DownloadState, IdleDownload
    <3>2. QED
      BY <1>3, <2>0, <2>6, <3>1 DEF PruneScanned, PictureOf
  <2>7. ASSUME NEW f \in File, PruneUpsert(n, f) PROVE Picture'
    <3>1. /\ dl'[n].pc = "upsert"
          /\ dl'[n].listed = [dl[n].listed EXCEPT ![f] = NoEntry]
      BY <2>0, <2>7 DEF PruneUpsert, DownloadState
    <3>2. \A g \in File : dl'[n].listed[g] # NoEntry => dl'[n].listed[g] = dl[n].listed[g]
      BY <2>0, <3>1 DEF DownloadState, Metadata
    <3>3. PictureOf(dl'[n], me[n])
      BY <2>0, <3>1, <3>2 DEF PictureOf
    <3>4. QED
      BY <1>3, <2>0, <2>7, <3>3 DEF PruneUpsert
  <2>8. QED
    BY <1>1, <1>4, <2>1, <2>2, <2>3, <2>4, <2>5, <2>6, <2>7, DownloadsStay DEF UserStep
<1>5. CASE Next
  BY <1>0, <1>1, <1>4, <1>5, DownloadsStay DEF Next, SyncTrigger, SyncTick
<1>6. CASE UNCHANGED vars
  BY <1>1, <1>6 DEF vars, DownloadsKept
<1>7. QED
  BY <1>5, <1>6

THEOREM PictureRight == Spec => []Picture
<1>1. Init => Picture
  <2> SUFFICES ASSUME Init, NEW n \in Node PROVE PictureOf(dl[n], me[n])
    BY DEF Picture
  <2>1. dl[n] = IdleDownload
    BY DEF Init
  <2>2. QED
    BY <2>1, NothingListed DEF IdlePicture, PictureOf
<1>2. TypeOK /\ Picture /\ [Next]_vars => Picture'
  BY PictureStep
<1>3. QED
  BY <1>1, <1>2, TypeCorrect, PTL DEF Spec

-----------------------------------------------------------------------------
(* The flags of an entry. *)

FlagsDisjoint(e) == e # NoEntry => ~ (e.complete /\ e.syncing)

LEMMA FlagsUnfolded ==
    NeverCompleteWhileSyncing
        <=> \A n \in Node, f \in File : FlagsDisjoint(meta[n][f])
  BY DEF NeverCompleteWhileSyncing, FlagsDisjoint

LEMMA UpsertFlags ==
    ASSUME NEW m \in Metadata, \A g \in File : FlagsDisjoint(m[g]),
           NEW f \in File, NEW e \in Entry, NEW c \in BOOLEAN
    PROVE  \A g \in File : FlagsDisjoint(Upsert(m, f, WithFlags(e, c, FALSE))[g])
<1>1. WithFlags(e, c, FALSE).syncing = FALSE
  BY FlagsType
<1>2. QED
  BY <1>1 DEF Upsert, Metadata, FlagsDisjoint

LEMMA SetSyncingFlags ==
    ASSUME NEW m \in Metadata, \A g \in File : FlagsDisjoint(m[g]), NEW f \in File
    PROVE  \A g \in File : FlagsDisjoint(SetSyncing(m, f)[g])
<1>1. CASE m[f] = NoEntry
  BY <1>1 DEF SetSyncing
<1>2. CASE m[f] # NoEntry
  <2>1. m[f] \in Entry
    BY <1>2 DEF Metadata
  <2>2. [m[f] EXCEPT !.syncing = TRUE, !.complete = FALSE].complete = FALSE
    BY <2>1 DEF Entry
  <2>3. SetSyncing(m, f)
          = [m EXCEPT ![f] = [m[f] EXCEPT !.syncing = TRUE, !.complete = FALSE]]
    BY <1>2 DEF SetSyncing, Metadata
  <2>4. QED
    BY <2>2, <2>3 DEF Metadata, FlagsDisjoint
<1>3. QED
  BY <1>1, <1>2

(* The metadata of one machine changes, and its flags stay disjoint. *)
LEMMA OneMachineFlags ==
    ASSUME TypeOK, \A m \in Node, f \in File : FlagsDisjoint(meta[m][f]),
           NEW n \in Node, NEW new, \A f \in File : FlagsDisjoint(new[f]),
           meta' = [meta EXCEPT ![n] = new]
    PROVE  \A m \in Node, f \in File : FlagsDisjoint(meta'[m][f])
  BY DEF TypeOK

LEMMA FlagsStep ==
    ASSUME TypeOK, Picture, NeverCompleteWhileSyncing, [Next]_vars
    PROVE  NeverCompleteWhileSyncing'
<1> DEFINE Disjoint == \A m \in Node, f \in File : FlagsDisjoint(meta[m][f])
<1>0. Disjoint
  BY FlagsUnfolded
<1> SUFFICES \A m \in Node, f \in File : FlagsDisjoint(meta'[m][f])
  BY FlagsUnfolded DEF NeverCompleteWhileSyncing, FlagsDisjoint
<1>m. ASSUME NEW n \in Node PROVE meta[n] \in Metadata
  BY DEF TypeOK
<1>1. ASSUME NEW n \in Node, NEW f \in File, NEW c \in Content,
             NEW P \in SUBSET PeerIds(n), NEW p2p \in BOOLEAN, RsPut(n, f, c, P, p2p)
      PROVE  Disjoint'
  <2> DEFINE e == [content |-> c,
                   members |-> IF p2p THEN P \cup {me[n]} ELSE {},
                   complete |-> TRUE, syncing |-> FALSE]
  <2>1. FlagsDisjoint(e)
    BY DEF FlagsDisjoint
  <2> HIDE DEF e
  <2>2. meta' = [meta EXCEPT ![n] = Upsert(meta[n], f, e)]
    BY <1>1 DEF RsPut, e
  <2>3. \A g \in File : FlagsDisjoint(Upsert(meta[n], f, e)[g])
    BY <1>0, <1>m, <2>1 DEF Upsert, Metadata
  <2>4. QED
    BY <1>0, <2>2, <2>3, OneMachineFlags
<1>2. ASSUME NEW n \in Node, NEW f \in File, RemoveFile(n, f) PROVE Disjoint'
  BY <1>0, <1>2 DEF RemoveFile, FlagsDisjoint, TypeOK, Metadata
<1>3. ASSUME NEW n \in Node, NEW p \in Node, RsList(n, p) PROVE Disjoint'
  <2> DEFINE new == [f \in File |-> IF meta[p][f] = NoEntry THEN meta[n][f]
                                    ELSE RemoteEntry(meta[p][f], disk[n])]
  <2>1. ASSUME NEW f \in File PROVE FlagsDisjoint(new[f])
    <3>1. CASE meta[p][f] = NoEntry
      BY <1>0, <3>1
    <3>2. CASE meta[p][f] # NoEntry
      <4>1. meta[p][f] \in Entry
        BY <1>m, <3>2 DEF Metadata
      <4>2. RemoteEntry(meta[p][f], disk[n]).syncing = FALSE
        BY <4>1, RemoteEntryType
      <4>3. QED
        BY <3>2, <4>2 DEF FlagsDisjoint
    <3>3. QED
      BY <3>1, <3>2
  <2>2. meta' = [meta EXCEPT ![n] = new]
    BY <1>3 DEF RsList
  <2> HIDE DEF new
  <2>3. QED
    BY <1>0, <2>1, <2>2, OneMachineFlags
<1>4. ASSUME NEW n \in Node, NEW f \in File,
             meta' = [meta EXCEPT ![n] = SetSyncing(meta[n], f)]
      PROVE  Disjoint'
  <2>1. \A g \in File : FlagsDisjoint(SetSyncing(meta[n], f)[g])
    BY <1>0, <1>m, SetSyncingFlags
  <2>2. QED
    BY <1>0, <1>4, <2>1, OneMachineFlags
<1>5. ASSUME NEW n \in Node, NEW f \in File, NEW e \in Entry, NEW c \in BOOLEAN,
             meta' = [meta EXCEPT ![n] = Upsert(meta[n], f, WithFlags(e, c, FALSE))]
      PROVE  Disjoint'
  <2>1. \A g \in File : FlagsDisjoint(Upsert(meta[n], f, WithFlags(e, c, FALSE))[g])
    BY <1>0, <1>m, UpsertFlags
  <2>2. QED
    BY <1>0, <1>5, <2>1, OneMachineFlags
<1>6. ASSUME NEW n \in Node, UserStep(n) PROVE Disjoint'
  <2>1. ASSUME NEW f \in File, NEW P \in SUBSET Others(n), RsDelete(n, f, P)
        PROVE  Disjoint'
    BY <1>2, <2>1 DEF RsDelete
  <2>2. ASSUME NEW f \in File, DownloadStart(n, f) PROVE Disjoint'
    BY <1>4, <2>2 DEF DownloadStart
  <2>3. ASSUME NEW b \in Block, DownloadBlock(n, b) PROVE Disjoint'
    BY <1>0, <2>3 DEF DownloadBlock
  <2>4. CASE DownloadAbort(n)
    BY <1>0, <2>4 DEF DownloadAbort
  <2>5. CASE DownloadComplete(n)
    <3>1. dl[n].file \in File /\ dl[n].entry \in Entry
      BY <2>5 DEF DownloadComplete, TypeOK, DownloadState
    <3>2. meta' = [meta EXCEPT ![n] = Upsert(meta[n], dl[n].file,
                                             WithFlags(dl[n].entry, TRUE, FALSE))]
      BY <2>5 DEF DownloadComplete
    <3>3. QED
      BY <1>5, <3>1, <3>2
  <2>6. ASSUME NEW f \in File, PruneUpsert(n, f) PROVE Disjoint'
    <3>1. FlagsDisjoint(dl[n].listed[f])
      BY <2>6 DEF PruneUpsert, Picture, PictureOf, FlagsDisjoint
    <3>2. \A g \in File : FlagsDisjoint(Upsert(meta[n], f, dl[n].listed[f])[g])
      BY <1>0, <1>m, <3>1 DEF Upsert, Metadata
    <3>3. meta' = [meta EXCEPT ![n] = Upsert(meta[n], f, dl[n].listed[f])]
      BY <2>6 DEF PruneUpsert
    <3>4. QED
      BY <1>0, <3>2, <3>3, OneMachineFlags
  <2>a. ASSUME UNCHANGED meta PROVE Disjoint'
    BY <1>0, <2>a
  <2>b. /\ \A P \in SUBSET PeerIds(n) : PruneList(n, P) => UNCHANGED meta
        /\ \A b \in Block : PruneUnlink(n, b) => UNCHANGED meta
        /\ PruneScanned(n) \/ PruneEnd(n) \/ TuiRestart(n) => UNCHANGED meta
    BY DEF PruneList, PruneUnlink, PruneScanned, PruneEnd, TuiRestart
  <2>7. QED
    BY <1>1, <1>3, <1>6, <2>1, <2>2, <2>3, <2>4, <2>5, <2>6, <2>a, <2>b DEF UserStep
<1>7. ASSUME NEW n \in Node, SyncStep(n) PROVE Disjoint'
  <2>1. ASSUME NEW f \in File, sync[n].todo[f] # NoEntry
        PROVE  sync[n].todo[f] \in Entry
    BY <2>1 DEF TypeOK, SyncState, Metadata
  <2>2. ASSUME NEW f \in File, SyncStranger(n, f) PROVE Disjoint'
    BY <1>5, <2>1, <2>2 DEF SyncStranger
  <2>3. ASSUME NEW f \in File, SyncNothingMissing(n, f) PROVE Disjoint'
    BY <1>0, <1>5, <2>1, <2>3 DEF SyncNothingMissing
  <2>4. ASSUME NEW f \in File, SyncBegin(n, f) PROVE Disjoint'
    BY <1>4, <2>4 DEF SyncBegin
  <2>5. CASE SyncWrite(n)
    <3>1. /\ sync[n].file \in File /\ sync[n].have \in BOOLEAN
          /\ sync[n].todo[sync[n].file] # NoEntry
      BY <2>5 DEF SyncWrite, TypeOK, SyncState
    <3>2. QED
      BY <1>5, <2>1, <2>5, <3>1 DEF SyncWrite
  <2>6. ASSUME UNCHANGED meta PROVE Disjoint'
    BY <1>0, <2>6
  <2>7. ASSUME NEW b \in Block, SyncFetch(n, b) \/ SyncGiveUp(n, b) PROVE UNCHANGED meta
    BY <2>7 DEF SyncFetch, SyncGiveUp
  <2>8. ASSUME SyncCheck(n) \/ SyncEnd(n) PROVE UNCHANGED meta
    BY <2>8 DEF SyncCheck, SyncEnd
  <2>9. QED
    BY <1>7, <2>2, <2>3, <2>4, <2>5, <2>6, <2>7, <2>8 DEF SyncStep
<1>8. ASSUME NEW r \in net, HandleAnnounce(r) \/ HandleDelete(r) \/ LoseRequest(r)
      PROVE  Disjoint'
  <2>1. r.to \in Node /\ r.file \in File
    BY DEF TypeOK, Request
  <2>2. CASE HandleAnnounce(r)
    <3>1. r.entry \in Entry
      BY <2>2 DEF HandleAnnounce, TypeOK, Request
    <3>2. (BlocksOf[r.entry.content] \subseteq disk[r.to]) \in BOOLEAN
      OBVIOUS
    <3>3. QED
      BY <1>5, <2>1, <2>2, <3>1, <3>2 DEF HandleAnnounce, RemoteEntry
  <2>3. CASE HandleDelete(r)
    BY <1>2, <2>1, <2>3 DEF HandleDelete
  <2>4. CASE LoseRequest(r)
    BY <1>0, <2>4 DEF LoseRequest
  <2>5. QED
    BY <1>8, <2>2, <2>3, <2>4
<1>9. ASSUME NEW n \in Node, SyncStart(n) PROVE Disjoint'
  BY <1>0, <1>9 DEF SyncStart
<1>10. ASSUME NEW n \in Node, NEW p \in Id, Restart(n, p) PROVE Disjoint'
  BY <1>0, <1>10 DEF Restart
<1>11. CASE UNCHANGED vars
  BY <1>0, <1>11 DEF vars
<1>12. Users \subseteq Node /\ Getters \subseteq Node
  BY ClusterAssumption
<1> HIDE DEF Disjoint
<1>13. ASSUME Next PROVE Disjoint'
  <2>1. CASE \E n \in Users : UserStep(n)
    BY <1>6, <1>12, <2>1
  <2>t. CASE \E n \in Getters : SyncTrigger(n)
    BY <1>9, <1>12, <2>t DEF SyncTrigger
  <2>2. CASE \E n \in Node : SyncTick(n) \/ SyncStep(n)
    BY <1>7, <1>9, <2>2 DEF SyncTick
  <2>3. CASE \E n \in Node, p \in Id : Restart(n, p)
    BY <1>10, <2>3
  <2>4. CASE \E r \in net : HandleAnnounce(r) \/ HandleDelete(r) \/ LoseRequest(r)
    BY <1>8, <2>4
  <2>5. QED
    BY <1>13, <2>1, <2>t, <2>2, <2>3, <2>4 DEF Next
<1>14. QED
  BY <1>11, <1>13 DEF Disjoint

(* No entry is ever both complete and syncing, on any machine. *)
THEOREM FlagsCorrect == Spec => []NeverCompleteWhileSyncing
<1>1. Init => NeverCompleteWhileSyncing
  BY DEF Init, NeverCompleteWhileSyncing, NoSnapshot
<1>2. TypeOK /\ Picture /\ NeverCompleteWhileSyncing /\ [Next]_vars
         => NeverCompleteWhileSyncing'
  BY FlagsStep
<1>3. QED
  BY <1>1, <1>2, TypeCorrect, PictureRight, PTL DEF Spec

-----------------------------------------------------------------------------
(* No step loses an owned block of a file that stays listed. *)

(* Every block goes on being there: all steps but a deletion and a prune. *)
DiskKept == \A n \in Node : disk[n] \subseteq disk'[n]

(* The clean-up of a deletion keeps the share of every other listed file. *)
LEMMA CleanupKeepsShare ==
    ASSUME TypeOK, NEW n \in Node, NEW f \in File, NEW g \in File,
           f # g, meta[n][g] # NoEntry
    PROVE  Share(n, meta[n][g]) \cap disk[n] \subseteq Cleanup(meta[n], f, disk[n])
<1>1. meta[n] \in Metadata
  BY DEF TypeOK
<1>2. BlocksOf[meta[n][g].content] \subseteq Referenced([meta[n] EXCEPT ![f] = NoEntry])
  <2> DEFINE m == [meta[n] EXCEPT ![f] = NoEntry]
  <2>1. m[g] = meta[n][g]
    BY <1>1 DEF Metadata
  <2>2. BlocksOf[m[g].content] \subseteq Referenced(m)
    <3> HIDE DEF m
    <3>1. m[g] # NoEntry
      BY <2>1
    <3>2. QED
      BY <3>1 DEF Referenced
  <2>3. QED
    BY <2>1, <2>2
<1>3. Share(n, meta[n][g]) \subseteq BlocksOf[meta[n][g].content]
  BY DEF Share, AssignedBlocks
<1>4. QED
  BY <1>2, <1>3 DEF Cleanup

LEMMA RemoveKeepsShare ==
    ASSUME TypeOK, NEW n \in Node, NEW f \in File, RemoveFile(n, f),
           NEW k \in Node, NEW g \in File, meta'[k][g] # NoEntry
    PROVE  Share(k, meta[k][g]) \cap disk[k] \subseteq disk'[k]
<1>1. meta \in [Node -> Metadata] /\ disk \in [Node -> SUBSET Block]
  BY DEF TypeOK
<1>2. CASE k # n
  BY <1>1, <1>2 DEF RemoveFile
<1>3. CASE k = n /\ g = f
  <2>1. meta'[n][f] = NoEntry
    BY <1>1 DEF RemoveFile, Metadata
  <2>2. QED
    BY <1>3, <2>1
<1>4. CASE k = n /\ g # f
  <2>1. meta'[n][g] = meta[n][g]
    BY <1>1, <1>4 DEF RemoveFile, Metadata
  <2>2. disk'[n] = Cleanup(meta[n], f, disk[n])
    BY <1>1 DEF RemoveFile
  <2>3. Share(n, meta[n][g]) \cap disk[n] \subseteq Cleanup(meta[n], f, disk[n])
    BY <1>4, <2>1, CleanupKeepsShare
  <2>4. QED
    BY <1>4, <2>2, <2>3
<1>5. QED
  BY <1>2, <1>3, <1>4

(* The steps that only add blocks. *)
LEMMA DiskGrows ==
    ASSUME TypeOK, NEW n \in Node
    PROVE  /\ \A f \in File, c \in Content, P \in SUBSET PeerIds(n), p2p \in BOOLEAN :
                 RsPut(n, f, c, P, p2p) => DiskKept
           /\ \A p \in Node : RsList(n, p) => DiskKept
           /\ \A f \in File : DownloadStart(n, f) => DiskKept
           /\ \A b \in Block : DownloadBlock(n, b) => DiskKept
           /\ DownloadAbort(n) \/ DownloadComplete(n) => DiskKept
           /\ \A P \in SUBSET PeerIds(n) : PruneList(n, P) => DiskKept
           /\ \A f \in File : PruneUpsert(n, f) => DiskKept
           /\ PruneScanned(n) \/ PruneEnd(n) \/ TuiRestart(n) => DiskKept
           /\ SyncStart(n) \/ SyncStep(n) => DiskKept
           /\ \A p \in Id : Restart(n, p) => DiskKept
           /\ \A r \in net : HandleAnnounce(r) \/ LoseRequest(r) => DiskKept
<1> disk \in [Node -> SUBSET Block]
  BY DEF TypeOK
<1>1. \A f \in File, c \in Content, P \in SUBSET PeerIds(n), p2p \in BOOLEAN :
         RsPut(n, f, c, P, p2p) => DiskKept
  BY DEF RsPut, DiskKept
<1>2. \A b \in Block : DownloadBlock(n, b) => DiskKept
  BY DEF DownloadBlock, DiskKept
<1>3. SyncStart(n) \/ SyncStep(n) => DiskKept
  <2>1. \A f \in File : SyncStranger(n, f) \/ SyncNothingMissing(n, f) \/ SyncBegin(n, f)
           => DiskKept
    BY DEF SyncStranger, SyncNothingMissing, SyncBegin, DiskKept
  <2>2. \A b \in Block : SyncFetch(n, b) \/ SyncGiveUp(n, b) => DiskKept
    BY DEF SyncFetch, SyncGiveUp, DiskKept
  <2>3. SyncCheck(n) \/ SyncWrite(n) \/ SyncEnd(n) \/ SyncStart(n) => DiskKept
    BY DEF SyncCheck, SyncWrite, SyncEnd, SyncStart, DiskKept
  <2>4. QED
    BY <2>1, <2>2, <2>3 DEF SyncStep
<1>4. QED
  BY <1>1, <1>2, <1>3 DEF RsList, DownloadStart, DownloadAbort, DownloadComplete,
     PruneList, PruneUpsert, PruneScanned, PruneEnd, TuiRestart,
     Restart, HandleAnnounce, LoseRequest, DiskKept

ShareStays(n, f) == Share(n, meta[n][f]) \cap disk[n] \subseteq disk'[n]

LEMMA ShareStep ==
    ASSUME TypeOK, Picture, RF <= PruneFactor, [Next]_vars,
           NEW n \in Node, NEW f \in File, meta'[n][f] # NoEntry,
           ~ (PrunesBlindly(n, f) /\ meta' = meta)
    PROVE  ShareStays(n, f)
<1>0. /\ disk \in [Node -> SUBSET Block]
      /\ Users \subseteq Node /\ Getters \subseteq Node
  BY ClusterAssumption DEF TypeOK
<1>1. ASSUME DiskKept PROVE ShareStays(n, f)
  BY <1>1 DEF DiskKept, ShareStays
<1>2. ASSUME NEW k \in Node, NEW g \in File, RemoveFile(k, g) PROVE ShareStays(n, f)
  BY <1>2, RemoveKeepsShare DEF ShareStays
<1>3. ASSUME NEW k \in Node, NEW b \in Block, PruneUnlink(k, b)
      PROVE  ShareStays(n, f)
  <2>1. disk' = [disk EXCEPT ![k] = disk[k] \ {b}] /\ b \notin dl[k].keep
    BY <1>3 DEF PruneUnlink
  <2>2. CASE k # n
    BY <1>0, <2>1, <2>2 DEF ShareStays
  <2>3. CASE k = n
    (* The picture of f is up to date, or the step would be the exception. *)
    <3>1. dl[n].pc = "unlink" /\ meta' = meta
      BY <1>3, <2>3 DEF PruneUnlink
    <3>2. AsListed(n, f) /\ me[n] = id[n]
      BY <3>1 DEF PrunesBlindly
    <3>3. ShareAs(me[n], dl[n].listed[f]) \subseteq dl[n].keep
      BY <3>1, <3>2 DEF Picture, PictureOf, AsListed
    <3>4. Share(n, meta[n][f]) = ShareAs(me[n], dl[n].listed[f])
      BY <3>2 DEF AsListed, Share, ShareAs
    <3>5. QED
      BY <1>0, <2>1, <2>3, <3>3, <3>4 DEF ShareStays
  <2>4. QED
    BY <2>2, <2>3
<1>4. ASSUME NEW k \in Node, UserStep(k) PROVE ShareStays(n, f)
  <2>1. ASSUME NEW g \in File, NEW P \in SUBSET Others(k), RsDelete(k, g, P) PROVE ShareStays(n, f)
    BY <1>2, <2>1 DEF RsDelete
  <2>2. CASE \/ \E g \in File, c \in Content, P \in SUBSET PeerIds(k), p2p \in BOOLEAN :
                   RsPut(k, g, c, P, p2p)
             \/ \E p \in Node : RsList(k, p)
             \/ \E g \in File : DownloadStart(k, g)
             \/ \E b \in Block : DownloadBlock(k, b)
             \/ DownloadAbort(k)
             \/ DownloadComplete(k)
             \/ \E P \in SUBSET PeerIds(k) : PruneList(k, P)
             \/ \E g \in File : PruneUpsert(k, g)
             \/ PruneScanned(k) \/ PruneEnd(k) \/ TuiRestart(k)
    BY <1>1, <2>2, DiskGrows
  <2>3. QED
    BY <1>3, <1>4, <2>1, <2>2 DEF UserStep
<1>5. CASE (\E k \in Users : UserStep(k)) \/ (\E k \in Getters : SyncTrigger(k))
  BY <1>0, <1>1, <1>4, <1>5, DiskGrows DEF SyncTrigger
<1>6. CASE \E k \in Node : SyncTick(k) \/ SyncStep(k)
  BY <1>1, <1>6, DiskGrows DEF SyncTick
<1>7. CASE \E k \in Node, p \in Id : Restart(k, p)
  BY <1>1, <1>7, DiskGrows
<1>8. CASE \E r \in net : HandleAnnounce(r) \/ HandleDelete(r) \/ LoseRequest(r)
  <2>1. ASSUME NEW r \in net, HandleDelete(r) PROVE ShareStays(n, f)
    <3>1. r.to \in Node /\ r.file \in File
      BY DEF TypeOK, Request
    <3>2. QED
      BY <1>2, <2>1, <3>1 DEF HandleDelete
  <2>2. QED
    BY <1>1, <1>8, <2>1, DiskGrows
<1>9. CASE UNCHANGED vars
  BY <1>1, <1>9 DEF vars, DiskKept
<1>10. QED
  BY <1>5, <1>6, <1>7, <1>8, <1>9 DEF Next

(* As long as the configured factor is at most the 2 that rsget's prune    *)
(* works with, no deletion, prune or other step takes from a machine a      *)
(* block it is assigned for a file it goes on listing, but the unlink of a  *)
(* prune whose picture of the file is out of date.                          *)
THEOREM OwnedBlocksStay ==
    ASSUME RF <= PruneFactor
    PROVE  Spec => OwnedBlocksKept
<1> DEFINE Kept == \A n \in Node, f \in File :
                      /\ meta'[n][f] # NoEntry
                      /\ ~ (PrunesBlindly(n, f) /\ meta' = meta)
                      => Share(n, meta[n][f]) \cap disk[n] \subseteq disk'[n]
<1>1. TypeOK /\ Picture /\ [Next]_vars => Kept
  BY ShareStep DEF ShareStays
<1>2. OwnedBlocksKept <=> [][Kept]_vars
  BY DEF OwnedBlocksKept
<1>3. QED
  BY <1>1, <1>2, TypeCorrect, PictureRight, PTL DEF Spec
=============================================================================
