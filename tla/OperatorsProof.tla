---------------------------- MODULE OperatorsProof ----------------------------
(***************************************************************************)
(* What the operators the models share return, for sequences over any set. *)
(* Picks: picking positions yields the elements there, all of them and no  *)
(* others, in their order, and only moves them to the left.                *)
(* ArchiveRows: a parse that covers the stored rows holds every one of     *)
(* them, storing a parse under an unchanged parser never loses a stored    *)
(* row and repeats none that neither repeats, and merging two sessions     *)
(* loses no row of either.                                                 *)
(***************************************************************************)
EXTENDS ArchiveRows, SequenceTheorems, FiniteSetTheorems, TLAPS

-----------------------------------------------------------------------------
(* Picking positions. *)

\* Positions of a sequence form a finite set, and so does every subset of them.
LEMMA PositionsFinite ==
  ASSUME NEW S, NEW q \in Seq(S), NEW P \in SUBSET DOMAIN q
  PROVE  IsFiniteSet(P) /\ Cardinality(P) \in Nat
<1>1. IsFiniteSet(1..Len(q))
  BY FS_Interval
<1>2. P \in SUBSET (1..Len(q))
  OBVIOUS
<1>3. IsFiniteSet(P)
  BY <1>1, <1>2, FS_Subset
<1> QED
  BY <1>3, FS_CardinalityType

\* The CHOOSE of Nth stays inside the set, so a picked element is an element of the sequence.
LEMMA NthInSet ==
  ASSUME NEW P, IsFiniteSet(P), NEW k \in 1..Cardinality(P)
  PROVE  Nth(P, k) \in P
<1>1. Cardinality(P) # 0
  BY FS_CardinalityType
<1>2. P # {}
  BY <1>1, FS_EmptySet
<1>3. \E i \in P : (\E j \in P : IsNth(P, k, j)) => IsNth(P, k, i)
  BY <1>2
<1> QED
  BY <1>3 DEF Nth

\* Picking positions yields a sequence over the same set, and only the elements at them.
LEMMA PickProperties ==
  ASSUME NEW S, NEW q \in Seq(S), NEW P \in SUBSET DOMAIN q
  PROVE  /\ Pick(q, P) \in Seq(S)
         /\ \A k \in DOMAIN Pick(q, P) : \E i \in P : Pick(q, P)[k] = q[i]
<1> DEFINE n == Cardinality(P)
<1>1. n \in Nat /\ IsFiniteSet(P)
  BY PositionsFinite
<1>2. \A k \in 1..n : Nth(P, k) \in P /\ Nth(P, k) \in DOMAIN q
  BY <1>1, NthInSet
<1>3. \A k \in 1..n : q[Nth(P, k)] \in S
  BY <1>2
<1>4. Pick(q, P) \in [1..n -> S]
  BY <1>3 DEF Pick
<1>5. Pick(q, P) \in Seq(S)
  BY <1>1, <1>4, SeqDef
<1>6. \A k \in DOMAIN Pick(q, P) : \E i \in P : Pick(q, P)[k] = q[i]
  BY <1>2 DEF Pick
<1> QED
  BY <1>5, <1>6

\* The k-th smallest element of a set is the one that k elements do not exceed.
LEMMA NthIsElement ==
  ASSUME NEW P \in SUBSET Nat, IsFiniteSet(P), NEW i \in P
  PROVE  LET k == Cardinality({j \in P : j <= i})
         IN k \in 1..Cardinality(P) /\ Nth(P, k) = i
<1> DEFINE Upto(m) == {j \in P : j <= m}
           k == Cardinality(Upto(i))
<1>1. \A m \in P : /\ IsFiniteSet(Upto(m)) /\ Cardinality(Upto(m)) \in Nat
                   /\ Cardinality(Upto(m)) <= Cardinality(P)
  <2> TAKE m \in P
  <2>1. Upto(m) \in SUBSET P
    OBVIOUS
  <2> QED
    BY <2>1, FS_Subset, FS_CardinalityType
<1>2. i \in Upto(i)
  OBVIOUS
<1>3. k # 0
  BY <1>1, <1>2, FS_EmptySet
<1>4. k \in 1..Cardinality(P)
  BY <1>1, <1>3, FS_CardinalityType
<1>5. ASSUME NEW a \in P, NEW b \in P, a < b
      PROVE  Cardinality(Upto(a)) # Cardinality(Upto(b))
  <2>1. \A j \in P : j <= a => j <= b
    BY <1>5
  <2>2. b \in Upto(b) /\ b \notin Upto(a)
    BY <1>5
  <2>3. Upto(a) \in SUBSET Upto(b) /\ Upto(a) # Upto(b)
    BY <2>1, <2>2
  <2> QED
    BY <1>1, <2>3, FS_Subset
<1>6. ASSUME NEW m \in P, Cardinality(Upto(m)) = k PROVE m = i
  <2>1. m < i \/ i < m \/ m = i
    OBVIOUS
  <2> QED
    BY <1>5, <1>6, <2>1
<1>7. \A m \in P : IsNth(P, k, m) <=> Cardinality(Upto(m)) = k
  BY DEF IsNth
<1>8. \E m \in P : IsNth(P, k, m)
  BY <1>7
<1>9. \E m \in P : (\E j \in P : IsNth(P, k, j)) => IsNth(P, k, m)
  BY <1>8
<1>10. Nth(P, k) \in P /\ IsNth(P, k, Nth(P, k))
  BY <1>8, <1>9 DEF Nth
<1>11. Nth(P, k) = i
  BY <1>6, <1>7, <1>10
<1> QED
  BY <1>4, <1>11

\* Picking leaves out none of the positions it is given.
LEMMA PickKeepsAll ==
  ASSUME NEW S, NEW q \in Seq(S), NEW P \in SUBSET DOMAIN q, NEW i \in P
  PROVE  \E k \in DOMAIN Pick(q, P) : Pick(q, P)[k] = q[i]
<1> DEFINE k == Cardinality({j \in P : j <= i})
<1>1. P \in SUBSET Nat /\ IsFiniteSet(P)
  BY PositionsFinite
<1>2. k \in 1..Cardinality(P) /\ Nth(P, k) = i
  BY <1>1, NthIsElement
<1>3. k \in DOMAIN Pick(q, P) /\ Pick(q, P)[k] = q[i]
  BY <1>2 DEF Pick
<1> QED
  BY <1>3

\* Every rank from 1 to the number of positions is somebody's: ranks of different positions differ.
LEMMA NthIsNth ==
  ASSUME NEW P \in SUBSET Nat, IsFiniteSet(P), NEW k \in 1..Cardinality(P)
  PROVE  Nth(P, k) \in P /\ IsNth(P, k, Nth(P, k))
<1> DEFINE Upto(m) == {j \in P : j <= m}
           rank == [i \in P |-> Cardinality(Upto(i))]
           Ranks == 1..Cardinality(P)
<1>1. Cardinality(P) \in Nat /\ IsFiniteSet(Ranks) /\ Cardinality(Ranks) = Cardinality(P)
  <2>1. Cardinality(P) \in Nat
    BY FS_CardinalityType
  <2> QED
    BY <2>1, FS_Interval
<1>2. rank \in [P -> Ranks]
  BY NthIsElement
<1>3. \A a, b \in P : rank[a] = rank[b] => a = b
  <2> TAKE a, b \in P
  <2>1. Nth(P, rank[a]) = a /\ Nth(P, rank[b]) = b
    BY NthIsElement
  <2> QED
    BY <2>1
<1> HIDE DEF rank, Ranks
<1>4. rank \in Injection(P, Ranks)
  BY <1>2, <1>3 DEF Injection, IsInjective
<1>5. rank \in Surjection(P, Ranks)
  BY <1>1, <1>4, FS_Injection
<1>6. \E i \in P : rank[i] = k
  BY <1>5 DEF Surjection, Ranks
<1>7. \E i \in P : IsNth(P, k, i)
  BY <1>6 DEF rank, IsNth
<1> QED
  BY <1>7 DEF Nth

\* Picking keeps the order of the sequence.
LEMMA PickInOrder ==
  ASSUME NEW S, NEW q \in Seq(S), NEW P \in SUBSET DOMAIN q,
         NEW k \in DOMAIN Pick(q, P), NEW l \in DOMAIN Pick(q, P), k < l
  PROVE  \E i, j \in P : i < j /\ Pick(q, P)[k] = q[i] /\ Pick(q, P)[l] = q[j]
<1> DEFINE i == Nth(P, k)
           j == Nth(P, l)
<1>1. P \in SUBSET Nat /\ IsFiniteSet(P) /\ Cardinality(P) \in Nat
  BY PositionsFinite
<1>2. k \in 1..Cardinality(P) /\ l \in 1..Cardinality(P)
  BY DEF Pick
<1>3. i \in P /\ IsNth(P, k, i) /\ j \in P /\ IsNth(P, l, j)
  BY <1>1, <1>2, NthIsNth
<1>4. i < j
  <2> SUFFICES ASSUME j <= i PROVE FALSE
    BY <1>1, <1>3
  <2>1. {m \in P : m <= j} \in SUBSET {m \in P : m <= i}
    BY <1>1, <1>3
  <2>2. IsFiniteSet({m \in P : m <= i})
    BY <1>1, FS_Subset
  <2>3. Cardinality({m \in P : m <= j}) <= Cardinality({m \in P : m <= i})
    BY <2>1, <2>2, FS_Subset
  <2> QED
    BY <1>2, <1>3, <2>3 DEF IsNth
<1>5. Pick(q, P)[k] = q[i] /\ Pick(q, P)[l] = q[j]
  BY <1>2 DEF Pick
<1> QED
  BY <1>3, <1>4, <1>5

\* Picking never moves an element to a later position.
LEMMA PickMovesLeft ==
  ASSUME NEW S, NEW q \in Seq(S), NEW P \in SUBSET DOMAIN q, NEW k \in DOMAIN Pick(q, P)
  PROVE  \E i \in P : k <= i /\ Pick(q, P)[k] = q[i]
<1> DEFINE i == Nth(P, k)
           Upto == {m \in P : m <= i}
<1>1. P \in SUBSET Nat /\ IsFiniteSet(P) /\ Cardinality(P) \in Nat
  BY PositionsFinite
<1>2. k \in 1..Cardinality(P)
  BY DEF Pick
<1>3. i \in P /\ IsNth(P, k, i)
  BY <1>1, <1>2, NthIsNth
<1>4. i \in Nat /\ Upto \in SUBSET (1..i)
  BY <1>1, <1>3
<1>5. IsFiniteSet(1..i) /\ Cardinality(1..i) = i
  <2> HIDE DEF i
  <2> QED
    BY <1>4, FS_Interval
<1>6. Cardinality(Upto) <= i
  <2> HIDE DEF i, Upto
  <2> QED
    BY <1>4, <1>5, FS_Subset
<1>7. Cardinality(Upto) = k
  BY <1>3 DEF IsNth
<1>8. Pick(q, P)[k] = q[i]
  BY <1>2 DEF Pick
<1> HIDE DEF i
<1> QED
  BY <1>3, <1>6, <1>7, <1>8

\* No element occurs twice.
Distinct(q) == \A i, j \in DOMAIN q : q[i] = q[j] => i = j

LEMMA PickDistinct ==
  ASSUME NEW S, NEW q \in Seq(S), NEW P \in SUBSET DOMAIN q, Distinct(q)
  PROVE  Distinct(Pick(q, P))
<1> DEFINE r == Pick(q, P)
<1>1. r \in Seq(S)
  BY PickProperties
<1>2. ASSUME NEW k \in DOMAIN r, NEW l \in DOMAIN r, k < l
      PROVE  r[k] # r[l]
  <2>1. PICK i \in P, j \in P : i < j /\ r[k] = q[i] /\ r[l] = q[j]
    BY <1>2, PickInOrder
  <2>2. q[i] # q[j]
    BY <2>1 DEF Distinct
  <2> QED
    BY <2>1, <2>2
<1>3. DOMAIN r \subseteq Nat
  BY <1>1
<1> HIDE DEF r
<1>4. \A k, l \in DOMAIN r : k < l \/ l < k \/ k = l
  BY <1>3
<1>5. Distinct(r)
  BY <1>2, <1>4 DEF Distinct
<1> QED
  BY <1>5 DEF r

-----------------------------------------------------------------------------
(* The archive rule. *)

\* A parse holding a copy for every stored copy holds every stored key.
LEMMA CoversKeepsKeys ==
  ASSUME NEW S, NEW stored \in Seq(S), NEW parsed \in Seq(S), Covers(stored, parsed)
  PROVE  Keys(stored) \subseteq Keys(parsed)
<1> SUFFICES ASSUME NEW k \in Keys(stored) PROVE k \in Keys(parsed)
  OBVIOUS
<1> DEFINE A == {i \in DOMAIN stored : stored[i] = k}
           B == {i \in DOMAIN parsed : parsed[i] = k}
<1>1. A # {}
  BY DEF Keys
<1>2. IsFiniteSet(A) /\ Cardinality(A) \in Nat
  BY PositionsFinite
<1>3. IsFiniteSet(B) /\ Cardinality(B) \in Nat
  BY PositionsFinite
<1>4. Cardinality(A) <= Cardinality(B)
  BY DEF Covers, Copies
<1>5. Cardinality(A) # 0
  BY <1>1, <1>2, FS_EmptySet
<1>6. B # {}
  BY <1>2, <1>3, <1>4, <1>5, FS_EmptySet
<1> QED
  BY <1>6 DEF Keys

\* The keys of a concatenation are the keys of its parts.
LEMMA ConcatKeys ==
  ASSUME NEW S, NEW q \in Seq(S), NEW r \in Seq(S)
  PROVE  Keys(q \o r) = Keys(q) \cup Keys(r)
<1>1. /\ DOMAIN (q \o r) = 1..(Len(q) + Len(r))
      /\ DOMAIN q = 1..Len(q)
      /\ DOMAIN r = 1..Len(r)
      /\ Len(q) \in Nat /\ Len(r) \in Nat
  BY ConcatProperties
<1>2. \A i \in 1..(Len(q) + Len(r)) :
        (q \o r)[i] = IF i <= Len(q) THEN q[i] ELSE r[i - Len(q)]
  BY ConcatProperties
<1>3. Keys(q \o r) \subseteq Keys(q) \cup Keys(r)
  BY <1>1, <1>2 DEF Keys
<1>4. Keys(q) \subseteq Keys(q \o r)
  BY <1>1, <1>2 DEF Keys
<1>5. ASSUME NEW i \in 1..Len(r)
      PROVE  r[i] \in Keys(q \o r)
  <2>1. Len(q) + i \in 1..(Len(q) + Len(r))
    BY <1>1
  <2>2. (q \o r)[Len(q) + i] = r[i]
    BY <1>1, <1>2, <2>1
  <2> QED
    BY <1>1, <2>1, <2>2 DEF Keys
<1>6. Keys(r) \subseteq Keys(q \o r)
  BY <1>1, <1>5 DEF Keys
<1> QED
  BY <1>3, <1>4, <1>6

\* Two sequences without repetition and without a common element, one after the other.
LEMMA ConcatDistinct ==
  ASSUME NEW S, NEW q \in Seq(S), NEW r \in Seq(S), Distinct(q), Distinct(r),
         Keys(q) \cap Keys(r) = {}
  PROVE  Distinct(q \o r)
<1> DEFINE all == q \o r
           m == Len(q)
<1>1. m \in Nat /\ Len(r) \in Nat /\ DOMAIN q = 1..m /\ DOMAIN r = 1..Len(r)
  OBVIOUS
<1>2. DOMAIN all = 1..(m + Len(r))
  BY ConcatProperties
<1>3. \A i \in DOMAIN q, j \in DOMAIN r : q[i] # r[j]
  BY DEF Keys
<1>4. \A i \in DOMAIN all : all[i] = IF i <= m THEN q[i] ELSE r[i - m]
  BY ConcatProperties
<1>5. ASSUME NEW i \in DOMAIN all
      PROVE  \/ i \in DOMAIN q /\ all[i] = q[i]
             \/ i - m \in DOMAIN r /\ all[i] = r[i - m]
  <2> HIDE DEF m, all
  <2> QED
    BY <1>1, <1>2, <1>4
<1>6. DOMAIN all \subseteq Int
  BY <1>1, <1>2
<1> HIDE DEF m, all
<1> SUFFICES ASSUME NEW i \in DOMAIN all, NEW j \in DOMAIN all, all[i] = all[j]
             PROVE  i = j
  BY DEF Distinct, all
<1>7. CASE i \in DOMAIN q /\ all[i] = q[i] /\ j \in DOMAIN q /\ all[j] = q[j]
  BY <1>7 DEF Distinct
<1>8. CASE /\ i - m \in DOMAIN r /\ all[i] = r[i - m]
           /\ j - m \in DOMAIN r /\ all[j] = r[j - m]
  <2>1. i - m = j - m
    BY <1>8 DEF Distinct
  <2> QED
    BY <1>1, <1>6, <2>1
<1> QED
  BY <1>3, <1>5, <1>7, <1>8

\* The only copy of a key is unseen exactly if the key is not stored.
LEMMA UnseenAreNew ==
  ASSUME NEW S, NEW stored \in Seq(S), NEW parsed \in Seq(S), Distinct(parsed),
         NEW i \in UnseenPositions(stored, parsed)
  PROVE  parsed[i] \notin Keys(stored)
<1> DEFINE A == {j \in DOMAIN stored : stored[j] = parsed[i]}
           R == {j \in 1..i : parsed[j] = parsed[i]}
<1>1. i \in DOMAIN parsed /\ DOMAIN parsed = 1..Len(parsed)
  BY DEF UnseenPositions
<1>2. R = {i}
  BY <1>1 DEF Distinct
<1>3. Rank(parsed, i) = 1
  BY <1>2, FS_Singleton DEF Rank
<1>4. 1 > Copies(stored, parsed[i])
  BY <1>3 DEF UnseenPositions
<1>5. IsFiniteSet(A) /\ Cardinality(A) \in Nat
  BY PositionsFinite
<1>6. Cardinality(A) = 0
  BY <1>4, <1>5 DEF Copies
<1>7. A = {}
  BY <1>5, <1>6, FS_EmptySet
<1> QED
  BY <1>7 DEF Keys

\* take_key accounts for no row of a key that is not stored: each of its copies is unseen.
LEMMA NewKeysAreUnseen ==
  ASSUME NEW S, NEW stored \in Seq(S), NEW parsed \in Seq(S),
         NEW i \in DOMAIN parsed, parsed[i] \notin Keys(stored)
  PROVE  i \in UnseenPositions(stored, parsed)
<1> DEFINE R == {j \in 1..i : parsed[j] = parsed[i]}
<1>1. {j \in DOMAIN stored : stored[j] = parsed[i]} = {}
  BY DEF Keys
<1>2. Copies(stored, parsed[i]) = 0
  BY <1>1, FS_EmptySet DEF Copies
<1>3. i \in R
  OBVIOUS
<1>4. R \in SUBSET (1..i) /\ IsFiniteSet(1..i)
  BY FS_Interval
<1>5. IsFiniteSet(R) /\ Cardinality(R) \in Nat
  BY <1>4, FS_Subset, FS_CardinalityType
<1>6. Cardinality(R) # 0
  BY <1>3, <1>5, FS_EmptySet
<1>7. Rank(parsed, i) > 0
  BY <1>5, <1>6 DEF Rank
<1> QED
  BY <1>2, <1>7 DEF UnseenPositions

\* Stored rows followed by the unseen rows of a parse hold every key of both and no other.
LEMMA UnionOfKeys ==
  ASSUME NEW S, NEW stored \in Seq(S), NEW parsed \in Seq(S)
  PROVE  LET all == stored \o Pick(parsed, UnseenPositions(stored, parsed))
         IN all \in Seq(S) /\ Keys(all) = Keys(stored) \cup Keys(parsed)
<1> DEFINE U == UnseenPositions(stored, parsed)
<1>1. U \in SUBSET DOMAIN parsed
  BY DEF UnseenPositions
<1>2. /\ Pick(parsed, U) \in Seq(S)
      /\ Keys(Pick(parsed, U)) \subseteq Keys(parsed)
  <2>1. /\ Pick(parsed, U) \in Seq(S)
        /\ \A j \in DOMAIN Pick(parsed, U) : \E i \in U : Pick(parsed, U)[j] = parsed[i]
    BY <1>1, PickProperties
  <2> QED
    BY <1>1, <2>1 DEF Keys
<1>3. stored \o Pick(parsed, U) \in Seq(S)
  BY <1>2, ConcatProperties
<1>4. Keys(stored \o Pick(parsed, U)) = Keys(stored) \cup Keys(Pick(parsed, U))
  BY <1>2, ConcatKeys
<1>5. ASSUME NEW i \in DOMAIN parsed, parsed[i] \notin Keys(stored)
      PROVE  parsed[i] \in Keys(Pick(parsed, U))
  <2>1. \E j \in DOMAIN Pick(parsed, U) : Pick(parsed, U)[j] = parsed[i]
    BY <1>1, <1>5, NewKeysAreUnseen, PickKeepsAll
  <2> QED
    BY <2>1 DEF Keys
<1>6. \A key \in Keys(parsed) : key \in Keys(stored) \/ key \in Keys(Pick(parsed, U))
  BY <1>5 DEF Keys
<1> HIDE DEF U
<1>7. Keys(stored \o Pick(parsed, U)) = Keys(stored) \cup Keys(parsed)
  BY <1>2, <1>4, <1>6
<1> QED
  BY <1>3, <1>7 DEF U

\* store_parsed_messages stores every row of the parse, none from anywhere else, and under an
\* unchanged parser keeps every stored row.
THEOREM StoredProperties ==
  ASSUME NEW S, NEW stored \in Seq(S), NEW parsed \in Seq(S), NEW same \in BOOLEAN
  PROVE  /\ Stored(stored, parsed, same) \in Seq(S)
         /\ Keys(Stored(stored, parsed, same)) \subseteq
              (IF same THEN Keys(stored) ELSE {}) \cup Keys(parsed)
         /\ Keys(parsed) \subseteq Keys(Stored(stored, parsed, same))
         /\ same => Keys(stored) \subseteq Keys(Stored(stored, parsed, same))
<1>1. CASE ~same \/ Covers(stored, parsed)
  <2>1. Stored(stored, parsed, same) = parsed
    BY <1>1 DEF Stored
  <2>2. same => Keys(stored) \subseteq Keys(parsed)
    BY <1>1, CoversKeepsKeys
  <2> QED
    BY <2>1, <2>2
<1>2. CASE same /\ ~Covers(stored, parsed)
  <2>1. Stored(stored, parsed, same) = stored \o Pick(parsed, UnseenPositions(stored, parsed))
    BY <1>2 DEF Stored
  <2>2. /\ Stored(stored, parsed, same) \in Seq(S)
        /\ Keys(Stored(stored, parsed, same)) = Keys(stored) \cup Keys(parsed)
    BY <2>1, UnionOfKeys
  <2>3. (IF same THEN Keys(stored) ELSE {}) = Keys(stored)
    BY <1>2
  <2> QED
    BY <2>2, <2>3
<1> QED
  BY <1>1, <1>2

\* Storing a parse without repetition next to rows without repetition stores no row twice.
THEOREM StoredDistinct ==
  ASSUME NEW S, NEW stored \in Seq(S), NEW parsed \in Seq(S), NEW same \in BOOLEAN,
         Distinct(stored), Distinct(parsed)
  PROVE  Distinct(Stored(stored, parsed, same))
<1> DEFINE U == UnseenPositions(stored, parsed)
           new == Pick(parsed, U)
<1>1. U \in SUBSET DOMAIN parsed
  BY DEF UnseenPositions
<1>2. new \in Seq(S) /\ Distinct(new)
  BY <1>1, PickProperties, PickDistinct
<1>3. Keys(stored) \cap Keys(new) = {}
  <2>1. \A i \in U : parsed[i] \notin Keys(stored)
    BY UnseenAreNew
  <2>2. \A k \in DOMAIN new : \E i \in U : new[k] = parsed[i]
    BY <1>1, PickProperties
  <2> HIDE DEF U, new
  <2>3. \A key \in Keys(new) : key \notin Keys(stored)
    BY <2>1, <2>2 DEF Keys
  <2> QED
    BY <2>3
<1>4. Distinct(stored \o new)
  <2> HIDE DEF new
  <2> QED
    BY <1>2, <1>3, ConcatDistinct
<1> QED
  BY <1>4 DEF Stored

\* move_retired_rows gives a session that takes over another exactly the rows of the two.
THEOREM MergedProperties ==
  ASSUME NEW S, NEW held \in Seq(S), NEW retired \in Seq(S)
  PROVE  /\ Merged(held, retired) \in Seq(S)
         /\ Keys(Merged(held, retired)) = Keys(held) \cup Keys(retired)
BY UnionOfKeys DEF Merged
=============================================================================
