---------------------- MODULE SourceReconciliationProof ----------------------
(***************************************************************************)
(* For any finite set of paths and of session ids, and any number of       *)
(* writes, moves and refreshes: no step but the first parse of a source    *)
(* takes a record out of the index, and what a refresh passes over has all *)
(* its records in the session it declares.  The second needs two things of *)
(* the users of the files, which are stated as actions they never take.    *)
(*                                                                         *)
(* A session takes over the rows of any number of others, in the order of  *)
(* a fold.  Facts of the fold are proved by a set of smallest size that    *)
(* they fail for, as strict inclusion of finite sets is well-founded.      *)
(***************************************************************************)
EXTENDS SourceReconciliation, OperatorsProof, WellFoundedInduction

-----------------------------------------------------------------------------
(* The rows a session takes over from those it retires *)

\* A set of numbers has a least one.
LEMMA Least ==
  ASSUME NEW T \in SUBSET Nat, T # {}
  PROVE  \E n \in T : \A m \in T : n <= m
<1> DEFINE Downs == {1..n : n \in T}
<1>1. \A n \in Nat : 1..n \in FiniteSubsetsOf(Nat)
  BY FS_Interval DEF FiniteSubsetsOf
<1>2. Downs \subseteq FiniteSubsetsOf(Nat) /\ Downs # {}
  BY <1>1
<1>3. \E D \in Downs : \A E \in Downs : <<E, D>> \notin StrictSubsetOrdering(Nat)
  <2> HIDE DEF Downs
  <2> QED
    BY <1>2, FS_StrictSubsetOrderingWellFounded, WFMin
<1>4. PICK n \in T : \A m \in T : <<1..m, 1..n>> \notin StrictSubsetOrdering(Nat)
  BY <1>3
<1>5. ASSUME NEW m \in T, m < n
      PROVE  FALSE
  <2>1. 1..m \subseteq 1..n /\ n \in 1..n /\ n \notin 1..m
    BY <1>5
  <2>2. 1..m \in SUBSET Nat /\ 1..n \in SUBSET Nat
    OBVIOUS
  <2> QED
    BY <2>1, <2>2, <1>4 DEF StrictSubsetOrdering
<1> QED
  BY <1>4, <1>5

AllRows(ids) == UNION {Keys(RowsOf(i)) : i \in ids}

\* The session a fold over ids takes next.
First(ids) == CHOOSE i \in ids : TRUE

\* One turn of the fold, over the results for smaller sets.
Turn(f, held, ids) ==
  IF ids = {} THEN held ELSE Merged(f[ids \ {First(ids)}], RowsOf(First(ids)))

LEMMA FirstLess ==
  ASSUME NEW I, IsFiniteSet(I), NEW s \in SUBSET I, s # {}
  PROVE  /\ First(s) \in s /\ s \ {First(s)} \in SUBSET I
         /\ Cardinality(s) \in Nat
         /\ Cardinality(s \ {First(s)}) = Cardinality(s) - 1
         /\ s = (s \ {First(s)}) \cup {First(s)}
<1>1. IsFiniteSet(s)
  BY FS_Subset
<1>2. First(s) \in s
  BY DEF First
<1>3. Cardinality(s \ {First(s)}) = Cardinality(s) - 1
  BY <1>1, <1>2, FS_RemoveElement
<1>4. Cardinality(s) \in Nat
  BY <1>1, FS_CardinalityType
<1> QED
  BY <1>2, <1>3, <1>4

\* A fold satisfies its equation.
LEMMA JoinedTurn ==
  ASSUME NEW held, NEW I, IsFiniteSet(I)
  PROVE  \E f : /\ f = [s \in SUBSET I |-> Turn(f, held, s)]
                /\ Joined(held, I) = f[I]
<1> DEFINE Small(n) == {s \in SUBSET I : Cardinality(s) <= n}
           Folds(f, n) == f = [s \in Small(n) |-> Turn(f, held, s)]
           Bad == {n \in Nat : ~ \E f : Folds(f, n)}
<1>0. \A s \in SUBSET I : Cardinality(s) \in Nat /\ Cardinality(s) <= Cardinality(I)
  BY FS_Subset, FS_CardinalityType
<1>1. \E f : Folds(f, 0)
  <2>1. Small(0) = {{}}
    <3>1. \A s \in SUBSET I : Cardinality(s) <= 0 => s = {}
      BY <1>0, FS_Subset, FS_EmptySet
    <3>2. Cardinality({}) = 0
      BY FS_EmptySet
    <3> QED
      BY <3>1, <3>2
  <2> DEFINE f0 == [s \in Small(0) |-> held]
  <2>2. Folds(f0, 0)
    BY <2>1 DEF Turn
  <2> QED
    BY <2>2
<1>2. ASSUME NEW n \in Nat, NEW g, Folds(g, n)
      PROVE  \E f : Folds(f, n + 1)
  <2> DEFINE f1 == [s \in Small(n + 1) |-> Turn(g, held, s)]
  <2>1. ASSUME NEW s \in Small(n + 1), s # {}
        PROVE  s \ {First(s)} \in Small(n)
    BY <2>1, <1>0, FirstLess
  <2>2. \A s \in Small(n) : s \in Small(n + 1) /\ f1[s] = g[s]
    BY <1>0, <1>2
  <2>3. \A s \in Small(n + 1) : Turn(g, held, s) = Turn(f1, held, s)
    BY <2>1, <2>2 DEF Turn
  <2>4. Folds(f1, n + 1)
    BY <2>3
  <2> QED
    BY <2>4
<1>3. \A n \in Nat : \E f : Folds(f, n)
  <2> SUFFICES ASSUME Bad # {}
               PROVE  FALSE
    OBVIOUS
  <2>1. PICK n \in Bad : \A m \in Bad : n <= m
    BY Least
  <2>2. \A k \in Nat : (\E g : Folds(g, k)) => \E f : Folds(f, k + 1)
    BY <1>2
  <2>3. ~ (\E f : Folds(f, n)) /\ n \in Nat
    BY <2>1
  <2>4. \A m \in Nat : m < n => \E f : Folds(f, m)
    <3> HIDE DEF Folds
    <3> SUFFICES ASSUME NEW m \in Nat, m < n, ~ \E f : Folds(f, m)
                 PROVE  FALSE
      OBVIOUS
    <3>1. m \in Bad
      OBVIOUS
    <3> HIDE DEF Bad
    <3>2. n <= m
      BY <2>1, <3>1
    <3> QED
      BY <2>3, <3>2
  <2> HIDE DEF Folds, Bad
  <2>5. n # 0
    BY <1>1, <2>3
  <2>6. n - 1 \in Nat /\ n - 1 < n /\ (n - 1) + 1 = n
    BY <2>3, <2>5
  <2> QED
    BY <2>2, <2>3, <2>4, <2>6
<1>4. Cardinality(I) \in Nat /\ Small(Cardinality(I)) = SUBSET I
  BY <1>0
<1>5. \E g : g = [s \in SUBSET I |-> Turn(g, held, s)]
  <2>1. \E g : Folds(g, Cardinality(I))
    <3> HIDE DEF Folds
    <3> QED
      BY <1>3, <1>4
  <2> QED
    BY <1>4, <2>1
<1> DEFINE iter == CHOOSE f : f = [s \in SUBSET I |-> Turn(f, held, s)]
<1>6. iter = [s \in SUBSET I |-> Turn(iter, held, s)]
  BY <1>5
<1>7. Joined(held, I) = iter[I]
  BY DEF Joined, FoldSet, MapThenFoldSet, Turn, First
<1> QED
  BY <1>6, <1>7

\* The rows of every session a fold takes in, and of the one it begins with, are those it ends with.
LEMMA JoinedProperties ==
  ASSUME \A i \in Ids : RowsOf(i) \in Seq(Nat),
         NEW held \in Seq(Nat), NEW I \in SUBSET Ids
  PROVE  /\ Joined(held, I) \in Seq(Nat)
         /\ Keys(Joined(held, I)) = Keys(held) \cup AllRows(I)
<1>1. IsFiniteSet(I)
  BY SourcesAssumption, FS_Subset
<1>2. PICK f : /\ f = [s \in SUBSET I |-> Turn(f, held, s)]
               /\ Joined(held, I) = f[I]
  BY <1>1, JoinedTurn
<1> DEFINE Right(s) == f[s] \in Seq(Nat) /\ Keys(f[s]) = Keys(held) \cup AllRows(s)
           Wrong == {s \in SUBSET I : ~ Right(s)}
           Sizes == {Cardinality(s) : s \in Wrong}
<1>3. \A s \in SUBSET I : f[s] = Turn(f, held, s)
  <2> DEFINE g == [s \in SUBSET I |-> Turn(f, held, s)]
  <2>1. \A s \in SUBSET I : g[s] = Turn(f, held, s)
    OBVIOUS
  <2> HIDE DEF g
  <2> QED
    BY <1>2, <2>1 DEF g
<1>4. Right({})
  BY <1>3 DEF Turn, AllRows
<1>5. ASSUME NEW s \in SUBSET I, s # {}, Right(s \ {First(s)})
      PROVE  Right(s)
  <2>1. /\ First(s) \in s /\ s = (s \ {First(s)}) \cup {First(s)}
        /\ First(s) \in Ids
    BY <1>1, <1>5, FirstLess
  <2>2. f[s] = Merged(f[s \ {First(s)}], RowsOf(First(s)))
    BY <1>3, <1>5 DEF Turn
  <2>3. /\ f[s] \in Seq(Nat)
        /\ Keys(f[s]) = Keys(f[s \ {First(s)}]) \cup Keys(RowsOf(First(s)))
    <3>1. f[s \ {First(s)}] \in Seq(Nat) /\ RowsOf(First(s)) \in Seq(Nat)
      BY <1>5, <2>1
    <3>2. /\ Merged(f[s \ {First(s)}], RowsOf(First(s))) \in Seq(Nat)
          /\ Keys(Merged(f[s \ {First(s)}], RowsOf(First(s)))) =
               Keys(f[s \ {First(s)}]) \cup Keys(RowsOf(First(s)))
      <4> DEFINE a == f[s \ {First(s)}]
                 b == RowsOf(First(s))
      <4> HIDE DEF a, b
      <4>1. a \in Seq(Nat) /\ b \in Seq(Nat)
        BY <3>1 DEF a, b
      <4>2. Merged(a, b) \in Seq(Nat) /\ Keys(Merged(a, b)) = Keys(a) \cup Keys(b)
        BY <4>1, MergedProperties
      <4> QED
        BY <4>2 DEF a, b
    <3> QED
      BY <2>2, <3>2
  <2>4. AllRows(s) = AllRows(s \ {First(s)}) \cup Keys(RowsOf(First(s)))
    BY <2>1 DEF AllRows
  <2> QED
    BY <1>5, <2>3, <2>4
<1>6. Wrong = {}
  <2> SUFFICES ASSUME Wrong # {}
               PROVE  FALSE
    OBVIOUS
  <2>0. \A s \in SUBSET I : Cardinality(s) \in Nat
    BY <1>1, FS_Subset, FS_CardinalityType
  <2>1. Sizes \in SUBSET Nat /\ Sizes # {}
    BY <2>0
  <2>2. PICK s \in Wrong : \A t \in Wrong : Cardinality(s) <= Cardinality(t)
    <3>1. \E n \in Sizes : \A m \in Sizes : n <= m
      <4> HIDE DEF Sizes
      <4> QED
        BY <2>1, Least
    <3> HIDE DEF Wrong
    <3> QED
      BY <3>1
  <2>3. s \in SUBSET I /\ ~ Right(s)
    BY <2>2
  <2> HIDE DEF Right
  <2>4. s # {}
    BY <1>4, <2>3
  <2>5. /\ s \ {First(s)} \in SUBSET I
        /\ Cardinality(s) \in Nat /\ Cardinality(s \ {First(s)}) = Cardinality(s) - 1
    BY <1>1, <2>3, <2>4, FirstLess
  <2>6. ~ Right(s \ {First(s)})
    BY <1>5, <2>3, <2>4
  <2> QED
    BY <2>2, <2>5, <2>6
<1> QED
  BY <1>2, <1>6

-----------------------------------------------------------------------------
(* Types *)

LEMMA ContentType ==
  ASSUME TypeOK, NEW p \in Paths
  PROVE  /\ Resolve(p) \in Paths \cup {None}
         /\ Content(p) # None => Resolve(p) \in Live /\ Content(p) = file[Resolve(p)]
         /\ Content(p) \in Transcripts \cup {None}
         /\ p \in Live => Resolve(p) = p /\ Content(p) = file[p]
<1>1. /\ link[p] \in Paths \cup {None}
      /\ \A q \in Paths : file[q] \in Transcripts \cup {None}
      /\ None \notin Paths
  BY SourcesAssumption DEF TypeOK
<1> QED
  BY <1>1 DEF Resolve, Content, Live

LEMMA ParsedType ==
  ASSUME TypeOK, NEW p \in Paths
  PROVE  /\ Parsed(p).id \in Ids /\ Parsed(p).recs \in Seq(Nat)
         /\ Fails(p) => Parsed(p).recs = << >>
         /\ ~ Fails(p) => /\ Content(p) \in Transcripts
                          /\ Parsed(p).id = Content(p).id
                          /\ Parsed(p).recs = Content(p).recs
                          /\ Parsed(p).recs # << >>
<1>1. Content(p) \in Transcripts \cup {None}
  BY ContentType
<1>2. Stem[p] \in Ids
  BY SourcesAssumption
<1>3. << >> \in Seq(Nat)
  OBVIOUS
<1> QED
  BY <1>1, <1>2, <1>3 DEF Parsed, Fails, Transcripts

LEMMA RowsType ==
  ASSUME TypeOK
  PROVE  \A i \in Ids : RowsOf(i) \in Seq(Nat)
<1>1. \A i \in Ids : session[i] \in StoredSessions \cup {None}
  BY DEF TypeOK
<1>2. << >> \in Seq(Nat)
  OBVIOUS
<1> QED
  BY <1>1, <1>2 DEF RowsOf, StoredSessions

\* The upsert gives the parse's session the source and every row of the parse, and unless the
\* source is new those it had and those of the sessions it retires.
LEMMA UpsertEffect ==
  ASSUME TypeOK, NEW p \in Paths, Upsert(p)
  PROVE  LET id == Parsed(p).id
         IN /\ session' \in [Ids -> StoredSessions \cup {None}]
            /\ session'[id] \in StoredSessions /\ session'[id].path = p
            /\ Keys(Parsed(p).recs) \subseteq Keys(session'[id].rows)
            /\ SameParser(p) =>
                 Keys(RowsOf(id)) \cup AllRows(Retired(p)) \subseteq Keys(session'[id].rows)
            /\ \A i \in Ids \ {id} :
                 session'[i] = IF i \in Retired(p) THEN None ELSE session[i]
<1> DEFINE id == Parsed(p).id
           held == Joined(RowsOf(id), Retired(p))
           rows == Stored(held, Parsed(p).recs, SameParser(p))
<1>1. id \in Ids /\ Parsed(p).recs \in Seq(Nat)
  BY ParsedType
<1>2. /\ held \in Seq(Nat)
      /\ Keys(held) = Keys(RowsOf(id)) \cup AllRows(Retired(p))
  <2>1. Retired(p) \in SUBSET Ids
    BY DEF Retired, Sessions
  <2>2. RowsOf(id) \in Seq(Nat)
    BY <1>1, RowsType
  <2> QED
    BY <2>1, <2>2, RowsType, JoinedProperties
<1>3. SameParser(p) \in BOOLEAN
  BY DEF SameParser
<1>4. /\ rows \in Seq(Nat) /\ Keys(Parsed(p).recs) \subseteq Keys(rows)
      /\ SameParser(p) => Keys(held) \subseteq Keys(rows)
  <2> HIDE DEF held
  <2> QED
    BY <1>1, <1>2, <1>3, StoredProperties
<1>5. session' = [i \in Ids |-> IF i = id THEN [path |-> p, rows |-> rows]
                                ELSE IF i \in Retired(p) THEN None ELSE session[i]]
  BY DEF Upsert
<1> HIDE DEF id, held, rows
<1>6. [path |-> p, rows |-> rows] \in StoredSessions
  BY <1>4 DEF StoredSessions
<1>7. session'[id] = [path |-> p, rows |-> rows]
  BY <1>1, <1>5
<1>8. \A i \in Ids \ {id} : session'[i] = IF i \in Retired(p) THEN None ELSE session[i]
  BY <1>5
<1>9. session' \in [Ids -> StoredSessions \cup {None}]
  BY <1>5, <1>6 DEF TypeOK
<1> QED
  BY <1>2, <1>4, <1>6, <1>7, <1>8, <1>9 DEF id

\* What harnesses and users do is to write, move and remove files.
LEMMA EnvironmentSteps ==
  ASSUME TypeOK, Environment
  PROVE  \/ \E p \in Paths, id \in Ids, recs \in Seq(Nat) : Put(p, id, recs)
         \/ \E p, q \in Paths, leaves \in BOOLEAN : Move(p, q, leaves)
         \/ \E p \in Paths : Remove(p)
<1>1. \A p \in Live : /\ file[p].id \in Ids /\ file[p].recs \in Seq(Nat)
  BY DEF Live, TypeOK, Transcripts
<1>2. writes + 1 \in Nat /\ << >> \in Seq(Nat) /\ <<writes + 1>> \in Seq(Nat)
  BY SourcesAssumption DEF TypeOK
<1>3. PICK p \in Paths :
        \/ Write(p) \/ Compact(p) \/ Truncate(p) \/ Remove(p)
        \/ \E i \in Ids : Redeclare(p, i) \/ \E whole \in BOOLEAN : Create(p, i, whole)
        \/ \E q \in Paths : Copy(p, q) \/ \E leaves \in BOOLEAN : Move(p, q, leaves)
  BY DEF Environment
<1>4. CASE Write(p)
  <2>1. Append(file[p].recs, writes + 1) \in Seq(Nat)
    BY <1>1, <1>2, <1>4 DEF Write
  <2> QED
    BY <1>1, <1>4, <2>1 DEF Write
<1>5. CASE Compact(p)
  BY <1>1, <1>2, <1>5 DEF Compact
<1>6. CASE Truncate(p)
  <2>1. SubSeq(file[p].recs, 1, Len(file[p].recs) - 1) \in Seq(Nat)
    BY <1>1, <1>6 DEF Truncate
  <2> QED
    BY <1>1, <1>6, <2>1 DEF Truncate
<1>7. CASE \E i \in Ids : Redeclare(p, i)
  BY <1>1, <1>7 DEF Redeclare
<1>8. CASE \E i \in Ids, whole \in BOOLEAN : Create(p, i, whole)
  BY <1>2, <1>8 DEF Create
<1>9. CASE \E q \in Paths : Copy(p, q)
  BY <1>1, <1>9 DEF Copy
<1> QED
  BY <1>3, <1>4, <1>5, <1>6, <1>7, <1>8, <1>9

LEMMA EnvironmentTypes == TypeOK /\ Environment => TypeOK'
<1> SUFFICES ASSUME TypeOK, Environment
             PROVE  TypeOK'
  OBVIOUS
<1>0. /\ \A p \in Live : file[p] \in Transcripts
      /\ MaxWrites \in Nat /\ MaxMoves \in Nat
  BY SourcesAssumption DEF Live, TypeOK
<1>1. ASSUME NEW p \in Paths, NEW id \in Ids, NEW recs \in Seq(Nat), Put(p, id, recs)
      PROVE  TypeOK'
  <2>1. writes' \in 0..MaxWrites /\ writes' \in Nat
    BY <1>0, <1>1 DEF Put, TypeOK
  <2>2. [id |-> id, recs |-> recs, time |-> writes + 1] \in Transcripts
    BY <1>1, <2>1 DEF Put, Transcripts
  <2>3. file' \in [Paths -> Transcripts \cup {None}] /\ link' \in [Paths -> Paths \cup {None}]
    BY <1>1, <2>2 DEF Put, TypeOK
  <2> QED
    BY <1>1, <2>1, <2>3 DEF Put, TypeOK, index, refresh
<1>2. ASSUME NEW p \in Paths, NEW q \in Paths, NEW leaves \in BOOLEAN, Move(p, q, leaves)
      PROVE  TypeOK'
  <2>1. moves' \in 0..MaxMoves
    BY <1>0, <1>2 DEF Move, TypeOK
  <2>2. file' \in [Paths -> Transcripts \cup {None}] /\ link' \in [Paths -> Paths \cup {None}]
    BY <1>0, <1>2 DEF Move, TypeOK
  <2> QED
    BY <1>2, <2>1, <2>2 DEF Move, TypeOK, index, refresh
<1>3. ASSUME NEW p \in Paths, Remove(p)
      PROVE  TypeOK'
  <2>1. moves' \in 0..MaxMoves
    BY <1>0, <1>3 DEF Remove, TypeOK
  <2>2. file' \in [Paths -> Transcripts \cup {None}]
    BY <1>3 DEF Remove, TypeOK
  <2> QED
    BY <1>3, <2>1, <2>2 DEF Remove, TypeOK, index, refresh
<1> QED
  BY <1>1, <1>2, <1>3, EnvironmentSteps

LEMMA ReturnTypes ==
  ASSUME TypeOK, Return, runs' \in 0..MaxRuns,
         session' \in [Ids -> StoredSessions \cup {None}], seen' \in [Paths -> Entries \cup {None}]
  PROVE  TypeOK'
BY DEF Return, TypeOK, disk, NoStat, NoPlan

LEMMA LeaveTypes ==
  ASSUME TypeOK, NEW p \in Paths, Leave(p),
         session' \in [Ids -> StoredSessions \cup {None}], seen' \in [Paths -> Entries \cup {None}]
  PROVE  TypeOK'
<1>1. NoStat \in [time : Nat, len : Nat]
  BY DEF NoStat
<1>2. NoPlan \in [ids : SUBSET Ids, aliases : SUBSET Paths, indexed : BOOLEAN]
  BY DEF NoPlan
<1>3. /\ stat' \in [Paths -> [time : Nat, len : Nat]]
      /\ plan' \in [Paths -> [ids : SUBSET Ids, aliases : SUBSET Paths, indexed : BOOLEAN]]
  BY <1>1, <1>2 DEF Leave, TypeOK
<1> QED
  BY <1>3 DEF Leave, TypeOK, disk

\* A tail adds rows to the one session that was stored for the source.
LEMMA AppendEffect ==
  ASSUME TypeOK, NEW p \in Paths, AppendTail(p)
  PROVE  LET now  == Content(p)
             rest == SubSeq(now.recs, seen[p].off + 1, Len(now.recs))
         IN /\ now \in Transcripts /\ now.id \in Sessions /\ plan[p].ids = {now.id}
            /\ seen[p] \in Entries /\ seen[p].off > 0 /\ seen[p].off < Len(now.recs)
            /\ now.recs # << >> /\ now.recs[1] = seen[p].head
            /\ session' = [session EXCEPT ![now.id].rows = @ \o rest]
            /\ session' \in [Ids -> StoredSessions \cup {None}]
            /\ Keys(session'[now.id].rows) = Keys(session[now.id].rows) \cup Keys(rest)
            /\ session'[now.id] \in StoredSessions
            /\ session'[now.id].path = session[now.id].path
            /\ \A i \in Ids \ {now.id} : session'[i] = session[i]
            /\ seen' = [seen EXCEPT ![p].time = stat[p].time, ![p].off = Len(now.recs)]
            /\ seen' \in [Paths -> Entries \cup {None}]
            /\ seen'[p] = [seen[p] EXCEPT !.time = stat[p].time, !.off = Len(now.recs)]
            /\ seen'[p] \in Entries
            /\ Leave(p)
<1> DEFINE now  == Content(p)
           rest == SubSeq(now.recs, seen[p].off + 1, Len(now.recs))
<1>1. /\ now \in Transcripts /\ now.id \in Sessions /\ plan[p].ids = {now.id}
      /\ session' = [session EXCEPT ![now.id].rows = @ \o rest]
      /\ seen' = [seen EXCEPT ![p].time = stat[p].time, ![p].off = Len(now.recs)]
      /\ Leave(p)
  BY ContentType DEF AppendTail
<1>2. /\ seen[p] \in Entries /\ seen[p].off > 0 /\ seen[p].off < Len(now.recs)
      /\ now.recs # << >> /\ now.recs[1] = seen[p].head
  BY <1>1 DEF AppendTail, TailCandidate, HeadMatches, TypeOK, Entries
<1>3. now.recs \in Seq(Nat) /\ now.id \in Ids /\ Len(now.recs) \in Nat
  BY <1>1 DEF Transcripts
<1>4. seen[p].off \in Nat
  BY <1>2 DEF Entries
<1> HIDE DEF now
<1>5. rest \in Seq(Nat)
  BY <1>3, <1>4
<1>6. session[now.id] \in StoredSessions
  BY <1>1 DEF Sessions, TypeOK
<1>7. session[now.id].rows \in Seq(Nat) /\ session[now.id].path \in Paths
  BY <1>6 DEF StoredSessions
<1> HIDE DEF rest
<1>8. /\ session[now.id].rows \o rest \in Seq(Nat)
      /\ Keys(session[now.id].rows \o rest) = Keys(session[now.id].rows) \cup Keys(rest)
  BY <1>5, <1>7, ConcatProperties, ConcatKeys
<1>9. session'[now.id] = [session[now.id] EXCEPT !.rows = @ \o rest]
  BY <1>1, <1>3 DEF TypeOK
<1>10. /\ session'[now.id].rows = session[now.id].rows \o rest
       /\ session'[now.id].path = session[now.id].path
       /\ session'[now.id] \in StoredSessions
  BY <1>6, <1>8, <1>9 DEF StoredSessions
<1>11. \A i \in Ids \ {now.id} : session'[i] = session[i]
  BY <1>1 DEF TypeOK
<1>12. session' \in [Ids -> StoredSessions \cup {None}]
  BY <1>1, <1>10, <1>11 DEF TypeOK
<1>13. stat[p].time \in Nat
  BY DEF TypeOK
<1>14. seen'[p] = [seen[p] EXCEPT !.time = stat[p].time, !.off = Len(now.recs)]
  BY <1>1 DEF TypeOK
<1>15. seen'[p] \in Entries
  BY <1>2, <1>3, <1>13, <1>14 DEF Entries
<1>16. seen' \in [Paths -> Entries \cup {None}]
  BY <1>1, <1>15 DEF TypeOK
<1> QED
  BY <1>1, <1>2, <1>8, <1>10, <1>11, <1>12, <1>14, <1>15, <1>16 DEF now, rest

\* What a full parse records of its source.
LEMMA IndexedType ==
  ASSUME TypeOK, NEW p \in Paths, Content(p) # None
  PROVE  Indexed(p) \in Entries /\ Indexed(p) # None
<1>1. stat[p].time \in Nat /\ Parsed(p).recs \in Seq(Nat)
  BY ParsedType DEF TypeOK
<1>2. ~ Fails(p) => Parsed(p).recs[1] \in Nat
  BY <1>1, ParsedType
<1>3. Indexed(p) \in Entries
  BY <1>1, <1>2 DEF Indexed, Entries
<1> QED
  BY <1>3, SourcesAssumption

LEMMA StoreEffect ==
  ASSUME TypeOK, NEW p \in Paths, Store(p) \/ StoreGone(p)
  PROVE  /\ Upsert(p) /\ p \in todo
         /\ seen' \in [Paths -> Entries \cup {None}] /\ seen'[p] \in Entries
         /\ seen'[p].time = stat[p].time
         /\ \A q \in Paths \ {p} : seen'[q] = IF q \in plan[p].aliases THEN None ELSE seen[q]
<1> DEFINE gone == IF seen[p] = None THEN [time |-> stat[p].time, off |-> 0, head |-> 0]
                   ELSE [seen[p] EXCEPT !.time = stat[p].time]
<1>1. stat[p].time \in Nat
  BY DEF TypeOK
<1>2. gone \in Entries /\ gone.time = stat[p].time
  BY <1>1 DEF TypeOK, Entries
<1>3. ASSUME NEW entry \in Entries, entry.time = stat[p].time, Forget(plan[p].aliases, p, entry)
      PROVE  /\ seen' \in [Paths -> Entries \cup {None}] /\ seen'[p] \in Entries
             /\ seen'[p].time = stat[p].time
             /\ \A q \in Paths \ {p} : seen'[q] = IF q \in plan[p].aliases THEN None ELSE seen[q]
  BY <1>3 DEF Forget, TypeOK
<1>4. CASE Store(p)
  <2>1. Indexed(p) \in Entries /\ Indexed(p).time = stat[p].time
    BY <1>4, IndexedType DEF Store, Indexed
  <2> QED
    BY <1>3, <1>4, <2>1 DEF Store, Storable, Parsing, Visiting
<1>5. CASE StoreGone(p)
  <2>1. Forget(plan[p].aliases, p, gone)
    BY <1>5 DEF StoreGone
  <2> HIDE DEF gone
  <2> QED
    BY <1>2, <1>3, <1>5, <2>1 DEF StoreGone, Storable, Parsing, Visiting
<1> QED
  BY <1>4, <1>5

LEMMA VisitTypes ==
  ASSUME TypeOK, NEW p \in Paths, Visit(p)
  PROVE  TypeOK'
<1>1. CASE AppendTail(p)
  BY <1>1, AppendEffect, LeaveTypes
<1>2. CASE Store(p)
  BY <1>2, StoreEffect, UpsertEffect, LeaveTypes DEF Store
<1>3. CASE StoreGone(p)
  <2>1. runs' \in 0..MaxRuns
    BY <1>3 DEF StoreGone, TypeOK
  <2>2. Return
    BY <1>3 DEF StoreGone
  <2> QED
    BY <1>3, <2>1, <2>2, StoreEffect, UpsertEffect, ReturnTypes
<1>4. CASE Skip(p) \/ TailNothingNew(p) \/ KeepFailed(p) \/ LeaveToHolder(p)
  <2>1. Leave(p) /\ UNCHANGED index
    BY <1>4 DEF Skip, TailNothingNew, KeepFailed, LeaveToHolder
  <2> QED
    BY <2>1, LeaveTypes DEF index, TypeOK
<1>5. CASE TailError(p)
  BY <1>5, ReturnTypes DEF TailError, index, TypeOK
<1> QED
  BY <1>1, <1>2, <1>3, <1>4, <1>5 DEF Visit

LEMMA NextTypes == TypeOK /\ [Next]_vars => TypeOK'
<1> SUFFICES ASSUME TypeOK, [Next]_vars
             PROVE  TypeOK'
  OBVIOUS
<1>0. MaxRuns \in Nat
  BY SourcesAssumption
<1>1. CASE Environment
  BY <1>1, EnvironmentTypes
<1>2. CASE Discover
  <2>1. \A p \in Live : file[p].time \in Nat /\ Len(file[p].recs) \in Nat
    BY DEF Live, TypeOK, Transcripts
  <2>2. stat' \in [Paths -> [time : Nat, len : Nat]]
    BY <1>2, <2>1 DEF Discover, NoStat
  <2>3. runs' \in 0..MaxRuns
    BY <1>0, <1>2 DEF Discover, TypeOK
  <2> QED
    BY <1>2, <2>2, <2>3 DEF Discover, TypeOK, disk, index, Live
<1>3. CASE Reconcile
  <2>1. \A p \in Paths : At(p) \in SUBSET Ids
    BY DEF At, Sessions
  <2>2. \A i \in Sessions : session[i].path \in Paths
    BY DEF Sessions, TypeOK, StoredSessions
  <2>3. \A p \in Paths : {session[i].path : i \in At(p)} \ {p} \in SUBSET Paths
    BY <2>2 DEF At
  <2>4. plan' \in [Paths -> [ids : SUBSET Ids, aliases : SUBSET Paths, indexed : BOOLEAN]]
    BY <1>3, <2>1, <2>3 DEF Reconcile, NoPlan
  <2> QED
    BY <1>3, <2>4 DEF Reconcile, TypeOK, disk, index
<1>4. CASE \E p \in Paths : Visit(p)
  BY <1>4, VisitTypes
<1>5. CASE Finish
  BY <1>5, ReturnTypes DEF Finish, index, TypeOK
<1>6. CASE Abort
  <2>1. runs' \in 0..MaxRuns
    BY <1>0, <1>6 DEF Abort, TypeOK
  <2> QED
    BY <1>6, <2>1, ReturnTypes DEF Abort, index, TypeOK
<1>7. CASE UNCHANGED vars
  BY <1>7 DEF TypeOK, vars, disk, index, refresh
<1> QED
  BY <1>1, <1>2, <1>3, <1>4, <1>5, <1>6, <1>7 DEF Next, Refresh

LEMMA InitTypes == Init => TypeOK
<1> SUFFICES ASSUME Init
             PROVE  TypeOK
  OBVIOUS
<1>1. NoStat \in [time : Nat, len : Nat]
  BY DEF NoStat
<1>2. NoPlan \in [ids : SUBSET Ids, aliases : SUBSET Paths, indexed : BOOLEAN]
  BY DEF NoPlan
<1>3. stat \in [Paths -> [time : Nat, len : Nat]]
  BY <1>1 DEF Init
<1>4. plan \in [Paths -> [ids : SUBSET Ids, aliases : SUBSET Paths, indexed : BOOLEAN]]
  BY <1>2 DEF Init
<1>5. 0 \in 0..MaxWrites /\ 0 \in 0..MaxMoves /\ 0 \in 0..MaxRuns
  BY SourcesAssumption
<1> QED
  BY <1>3, <1>4, <1>5 DEF Init, TypeOK

(* Files, links, the index and what the refresh remembers of them are what *)
(* their declarations say, whatever the order of writes, moves and visits. *)
THEOREM TypeCorrect == Spec => []TypeOK
BY InitTypes, NextTypes, PTL DEF Spec

-----------------------------------------------------------------------------
(* What leaves the index *)

\* Rows stay in the index that move to another session.
LEMMA RowsStay ==
  ASSUME \A i \in Sessions : \E j \in Sessions' :
           Keys(session[i].rows) \subseteq Keys(session'[j].rows)
  PROVE  Archived \subseteq Archived'
BY DEF Archived

LEMMA OtherStepsStay ==
  ASSUME UNCHANGED session
  PROVE  Archived \subseteq Archived'
<1>1. Sessions' = Sessions
  BY DEF Sessions
<1> QED
  BY <1>1 DEF Archived

\* An index that knows the source by any of its names keeps the rows of every session.
LEMMA StoreKeeps ==
  ASSUME TypeOK, NEW p \in Paths, Store(p) \/ StoreGone(p), SameParser(p)
  PROVE  Archived \subseteq Archived'
<1> DEFINE id == Parsed(p).id
<1>1. id \in Ids
  BY ParsedType
<1>2. /\ session'[id] \in StoredSessions
      /\ Keys(RowsOf(id)) \cup AllRows(Retired(p)) \subseteq Keys(session'[id].rows)
      /\ \A i \in Ids \ {id} : session'[i] = IF i \in Retired(p) THEN None ELSE session[i]
  BY StoreEffect, UpsertEffect
<1>3. None \notin StoredSessions
  BY SourcesAssumption
<1> HIDE DEF id
<1>4. id \in Sessions'
  BY <1>1, <1>2, <1>3 DEF Sessions
<1>5. SUFFICES ASSUME NEW i \in Sessions
               PROVE  \E j \in Sessions' : Keys(session[i].rows) \subseteq Keys(session'[j].rows)
  BY RowsStay
<1>6. i \in Ids /\ session[i] # None /\ RowsOf(i) = session[i].rows
  BY DEF Sessions, RowsOf
<1>7. CASE i = id
  BY <1>2, <1>4, <1>6, <1>7
<1>8. CASE i \in Retired(p)
  <2>1. Keys(session[i].rows) \subseteq AllRows(Retired(p))
    BY <1>6, <1>8 DEF AllRows
  <2> QED
    BY <1>2, <1>4, <2>1
<1>9. CASE i # id /\ i \notin Retired(p)
  BY <1>2, <1>6, <1>9 DEF Sessions
<1> QED
  BY <1>7, <1>8, <1>9

LEMMA AppendKeeps ==
  ASSUME TypeOK, NEW p \in Paths, AppendTail(p)
  PROVE  Archived \subseteq Archived'
<1> DEFINE id == Content(p).id
<1>1. /\ id \in Sessions /\ Keys(session[id].rows) \subseteq Keys(session'[id].rows)
      /\ session'[id] \in StoredSessions
      /\ \A i \in Ids \ {id} : session'[i] = session[i]
  BY AppendEffect
<1> HIDE DEF id
<1>2. Sessions \subseteq Sessions'
  BY <1>1, SourcesAssumption DEF Sessions
<1> QED
  BY <1>1, <1>2, RowsStay DEF Sessions

(* Every step of a refresh or of a user keeps every stored record, but for *)
(* the upsert of a source the index knows by no name.                      *)
THEOREM NothingElseIsReplaced == Spec => OnlyFirstParseReplaces
<1> DEFINE Step == Archived \subseteq Archived' \/ \E p \in todo : ~SameParser(p) /\ seen'[p] # None
<1>1. TypeOK /\ [Next]_vars => Step
  <2> SUFFICES ASSUME TypeOK, [Next]_vars
               PROVE  Step
    OBVIOUS
  <2>1. ASSUME NEW p \in Paths, Store(p) \/ StoreGone(p)
        PROVE  Step
    <3>1. p \in todo /\ seen'[p] \in Entries
      BY <2>1, StoreEffect
    <3>2. seen'[p] # None
      BY <3>1, SourcesAssumption
    <3> QED
      BY <2>1, <3>1, <3>2, StoreKeeps
  <2>2. ASSUME NEW p \in Paths, AppendTail(p)
        PROVE  Step
    BY <2>2, AppendKeeps
  <2>3. CASE UNCHANGED session
    BY <2>3, OtherStepsStay
  <2>4. \/ UNCHANGED session
        \/ \E p \in Paths : Store(p) \/ StoreGone(p) \/ AppendTail(p)
    BY DEF Next, Environment, Refresh, Visit, Write, Compact, Truncate, Redeclare, Create, Copy,
           Put, Move, Remove, Discover, Reconcile, Skip, TailNothingNew, TailError, KeepFailed,
           LeaveToHolder, Finish, Abort, vars, index
  <2> QED
    BY <2>1, <2>2, <2>3, <2>4
<1> QED
  BY <1>1, TypeCorrect, PTL DEF Spec, OnlyFirstParseReplaces

-----------------------------------------------------------------------------
(* What a refresh passes over *)

\* No file is moved away between its discovery and its visit.
MovesWait == \A p, q \in Paths, leaves \in BOOLEAN : Move(p, q, leaves) => p \notin todo

\* A transcript that a tail takes for a longer one: it begins as the indexed one did.
StartsAs(p, f) ==
  /\ f # None /\ f.recs # << >>
  /\ seen[p] # None /\ seen[p].off > 0 /\ f.recs[1] = seen[p].head

\* A change that leaves the head of a transcript alone leaves alone what was indexed of it.
HeadsTell ==
  \A p \in Paths : file'[p] # file[p] /\ StartsAs(p, file'[p]) =>
    /\ file[p] # None
    /\ seen[p].off <= Len(file[p].recs) /\ seen[p].off <= Len(file'[p].recs)
    /\ \A k \in 1..seen[p].off : file'[p].recs[k] = file[p].recs[k]

\* No two files have one time, and nothing has a time yet to come.
Timed ==
  /\ \A p \in Live : file[p].time <= writes /\ link[p] = None
  /\ \A p, q \in Live : file[p].time = file[q].time => p = q
  /\ \A p \in Paths : seen[p] # None => seen[p].time <= writes
  /\ \A p \in Paths : stat[p].time <= writes

\* A source has one session, and the metadata of its last parse.
Sourced ==
  /\ \A i, j \in Sessions : session[i].path = session[j].path => i = j
  /\ \A i \in Sessions : seen[session[i].path] # None

\* What was discovered at a path is not at another one when it is visited.
Discovered ==
  \A p \in todo :
    link[p] = None /\ \A q \in Live : file[q].time = stat[p].time => q = p

\* If a source to visit had a session, it has no other one by now.
Planned ==
  pc = "visit" => \A p \in todo : plan[p].ids # {} =>
    \A i \in Sessions : session[i].path = p => i \in plan[p].ids

\* The session whose source was parsed as the file is now, wherever the file is, has its records.
Whole ==
  \A i \in Sessions, q \in Live :
    seen[session[i].path].time = file[q].time /\ file[q].recs # << >> =>
      file[q].id = i /\ Keys(file[q].recs) \subseteq Keys(session[i].rows)

\* The session of a source that begins as it did has the records before the checkpoint.
Headed ==
  \A i \in Sessions : LET p == session[i].path IN
    StartsAs(p, file[p]) =>
      /\ seen[p].off <= Len(file[p].recs)
      /\ \A k \in 1..seen[p].off : file[p].recs[k] \in Keys(session[i].rows)

Passable == TypeOK /\ Timed /\ Sourced /\ Discovered /\ Planned /\ Whole /\ Headed

LEMMA PassableSuffices == Passable => PassedOverIsIndexed
<1> SUFFICES ASSUME Passable, NEW p \in PassedOver, file[p].recs # << >>
             PROVE  /\ At(p) = {file[p].id}
                    /\ Keys(file[p].recs) \subseteq Keys(session[file[p].id].rows)
  BY DEF PassedOverIsIndexed
<1>1. /\ p \in Live /\ seen[p].time = file[p].time
      /\ Cardinality(At(p)) = 1 /\ \A i \in At(p) : session[i].path = p
  BY DEF PassedOver
<1>2. At(p) \in SUBSET Ids /\ IsFiniteSet(At(p)) /\ At(p) \in SUBSET Sessions
  BY SourcesAssumption, FS_Subset DEF At, Sessions
<1>3. At(p) # {}
  <2>1. Cardinality(At(p)) # Cardinality({})
    BY <1>1, FS_EmptySet
  <2> QED
    BY <2>1, Zenon
<1>4. \A i \in At(p) : file[p].id = i /\ Keys(file[p].recs) \subseteq Keys(session[i].rows)
  BY <1>1, <1>2 DEF Passable, Whole
<1> QED
  BY <1>3, <1>4

LEMMA PutPasses ==
  ASSUME Passable, HeadsTell,
         NEW p \in Paths, NEW id \in Ids, NEW recs \in Seq(Nat), Put(p, id, recs)
  PROVE  Timed' /\ Sourced' /\ Discovered' /\ Planned' /\ Whole' /\ Headed'
<1>1. /\ writes \in Nat /\ writes' = writes + 1
      /\ file' = [file EXCEPT ![p] = [id |-> id, recs |-> recs, time |-> writes + 1]]
      /\ link' = [link EXCEPT ![p] = None]
      /\ UNCHANGED <<session, seen, pc, full, runs, todo, found, stat, plan>>
  BY SourcesAssumption DEF Put, Passable, TypeOK, index, refresh
<1>2. /\ file'[p].time = writes + 1 /\ link'[p] = None
      /\ \A q \in Paths \ {p} : file'[q] = file[q] /\ link'[q] = link[q]
      /\ Live' \in SUBSET Paths
  BY <1>1 DEF Passable, TypeOK, Live
<1>3. \A q \in Live' : q = p \/ q \in Live \ {p}
  BY <1>2 DEF Live
<1>4. /\ \A q \in Live : file[q].time \in Nat
      /\ \A q \in Paths : stat[q].time \in Nat /\ (seen[q] # None => seen[q].time \in Nat)
      /\ \A i \in Sessions : session[i].path \in Paths
      /\ todo \in SUBSET Paths
  BY DEF Passable, TypeOK, Live, Transcripts, Entries, Sessions, StoredSessions
<1>5. Sessions' = Sessions
  BY <1>1 DEF Sessions
<1>6. Timed'
  BY <1>1, <1>2, <1>3, <1>4 DEF Passable, Timed
<1>7. Sourced'
  BY <1>1, <1>5 DEF Passable, Sourced
<1>8. Discovered'
  BY <1>1, <1>2, <1>3, <1>4 DEF Passable, Timed, Discovered
<1>9. Planned'
  BY <1>1, <1>5 DEF Passable, Planned
<1>10. Whole'
  <2> SUFFICES ASSUME NEW i \in Sessions, NEW q \in Live',
                      seen[session[i].path].time = file'[q].time, file'[q].recs # << >>
               PROVE  file'[q].id = i /\ Keys(file'[q].recs) \subseteq Keys(session[i].rows)
    BY <1>1, <1>5 DEF Whole
  <2>1. seen[session[i].path].time <= writes /\ seen[session[i].path].time \in Nat
    BY <1>4 DEF Passable, Timed, Sourced
  <2>2. q \in Live \ {p}
    BY <1>1, <1>2, <1>3, <2>1
  <2>3. q \in Live /\ file'[q] = file[q]
    BY <1>2, <2>2 DEF Live
  <2>4. Whole
    BY DEF Passable
  <2>5. file[q].id = i /\ Keys(file[q].recs) \subseteq Keys(session[i].rows)
    BY <2>3, <2>4 DEF Whole
  <2> QED
    BY <2>3, <2>5
<1>11. Headed'
  <2> SUFFICES ASSUME NEW i \in Sessions, StartsAs(session[i].path, file[session[i].path])'
               PROVE  LET q == session[i].path
                      IN /\ seen[q].off <= Len(file'[q].recs)
                         /\ \A k \in 1..seen[q].off : file'[q].recs[k] \in Keys(session[i].rows)
    <3>1. seen' = seen /\ session' = session
      BY <1>1
    <3> QED
      BY <1>5, <3>1, Zenon DEF Headed
  <2> DEFINE q == session[i].path
  <2>1. q \in Paths /\ StartsAs(q, file'[q])
    BY <1>1, <1>4 DEF StartsAs
  <2>2. CASE file'[q] = file[q]
    BY <2>1, <2>2 DEF Passable, Headed
  <2>3. CASE file'[q] # file[q]
    <3>1. /\ file[q] # None
          /\ seen[q].off <= Len(file[q].recs) /\ seen[q].off <= Len(file'[q].recs)
          /\ \A k \in 1..seen[q].off : file'[q].recs[k] = file[q].recs[k]
      BY <2>1, <2>3 DEF HeadsTell
    <3>2. seen[q] \in Entries /\ seen[q].off \in Nat /\ seen[q].off > 0
      BY <2>1 DEF StartsAs, Passable, TypeOK, Entries
    <3>3. file[q].recs \in Seq(Nat) /\ file[q].recs # << >> /\ file[q].recs[1] = file'[q].recs[1]
      <4>1. file[q].recs \in Seq(Nat)
        BY <2>1, <3>1 DEF Passable, TypeOK, Transcripts
      <4>2. 1 \in 1..seen[q].off /\ Len(file[q].recs) \in Nat /\ Len(file[q].recs) > 0
        BY <3>1, <3>2, <4>1
      <4>3. file[q].recs[1] = file'[q].recs[1]
        BY <3>1, <4>2
      <4>4. file[q].recs # << >>
        BY <4>2
      <4> QED
        BY <4>1, <4>3, <4>4
    <3>4. StartsAs(q, file[q])
      BY <2>1, <3>1, <3>3 DEF StartsAs
    <3> QED
      BY <3>1, <3>4 DEF Passable, Headed
  <2> QED
    BY <2>2, <2>3
<1> QED
  BY <1>6, <1>7, <1>8, <1>9, <1>10, <1>11

LEMMA MovePasses ==
  ASSUME Passable, HeadsTell, MovesWait,
         NEW p \in Paths, NEW q \in Paths, NEW leaves \in BOOLEAN, Move(p, q, leaves)
  PROVE  Timed' /\ Sourced' /\ Discovered' /\ Planned' /\ Whole' /\ Headed'
<1>1. /\ p \in Live /\ file[q] = None /\ p # q /\ p \notin todo
      /\ file' = [file EXCEPT ![q] = file[p], ![p] = None]
      /\ link' = [link EXCEPT ![q] = None, ![p] = IF leaves THEN q ELSE None]
      /\ UNCHANGED <<writes, session, seen, pc, full, runs, todo, found, stat, plan>>
  BY DEF Move, MovesWait, Live, index, refresh
<1>2. /\ file'[q] = file[p] /\ link'[q] = None /\ file'[p] = None
      /\ \A r \in Paths \ {p, q} : file'[r] = file[r] /\ link'[r] = link[r]
  BY <1>1 DEF Passable, TypeOK
<1>3. \A r \in Live' :
        \/ r = q
        \/ r \notin {p, q} /\ r \in Live /\ file'[r] = file[r] /\ link'[r] = link[r]
  BY <1>1, <1>2 DEF Live
<1>4. /\ \A i \in Sessions : session[i].path \in Paths
      /\ todo \in SUBSET Paths /\ Sessions' = Sessions
  BY <1>1 DEF Passable, TypeOK, Sessions, StoredSessions
<1>5. Timed'
  <2>1. \A r \in Live' : file'[r].time <= writes /\ link'[r] = None
    BY <1>1, <1>2, <1>3 DEF Passable, Timed
  <2>2. ASSUME NEW r \in Live', NEW x \in Live', file'[r].time = file'[x].time
        PROVE  r = x
    <3>1. \A y \in Live : file[y].time = file[p].time => y = p
      BY <1>1 DEF Passable, Timed
    <3>2. CASE r = q \/ x = q
      BY <1>2, <1>3, <2>2, <3>1, <3>2
    <3>3. CASE r # q /\ x # q
      <4>1. r \in Live /\ x \in Live /\ file[r].time = file[x].time
        BY <1>3, <2>2, <3>3
      <4> QED
        BY <4>1 DEF Passable, Timed
    <3> QED
      BY <3>2, <3>3
  <2> QED
    BY <1>1, <2>1, <2>2 DEF Passable, Timed
<1>6. Sourced'
  BY <1>1, <1>4 DEF Passable, Sourced
<1>7. Discovered'
  <2> SUFFICES ASSUME NEW r \in todo
               PROVE  /\ link'[r] = None
                      /\ \A x \in Live' : file'[x].time = stat[r].time => x = r
    <3>1. todo' = todo /\ stat' = stat
      BY <1>1
    <3> QED
      BY <3>1, Zenon DEF Discovered
  <2>1. /\ r \in Paths \ {p} /\ link[r] = None
        /\ \A x \in Live : file[x].time = stat[r].time => x = r
    BY <1>1, <1>4 DEF Passable, Discovered
  <2>2. link'[r] = None
    BY <1>2, <2>1
  <2>3. file[p].time # stat[r].time
    BY <1>1, <2>1
  <2> QED
    BY <1>2, <1>3, <2>1, <2>2, <2>3
<1>8. Planned'
  BY <1>1, <1>4 DEF Passable, Planned
<1>9. Whole'
  <2> SUFFICES ASSUME NEW i \in Sessions, NEW r \in Live',
                      seen[session[i].path].time = file'[r].time, file'[r].recs # << >>
               PROVE  file'[r].id = i /\ Keys(file'[r].recs) \subseteq Keys(session[i].rows)
    BY <1>1, <1>4 DEF Whole
  <2>1. PICK x \in Live : file'[r] = file[x]
    BY <1>1, <1>2, <1>3
  <2> QED
    BY <2>1 DEF Passable, Whole
<1>10. Headed'
  <2> SUFFICES ASSUME NEW i \in Sessions, StartsAs(session[i].path, file[session[i].path])'
               PROVE  LET r == session[i].path
                      IN /\ seen[r].off <= Len(file'[r].recs)
                         /\ \A k \in 1..seen[r].off : file'[r].recs[k] \in Keys(session[i].rows)
    BY <1>1, <1>4 DEF Headed
  <2> DEFINE r == session[i].path
  <2>1. r \in Paths /\ StartsAs(r, file'[r])
    BY <1>1, <1>4 DEF StartsAs
  <2>2. r # p
    BY <1>2, <2>1 DEF StartsAs
  <2>3. CASE r = q
    BY <1>1, <2>1, <2>3 DEF HeadsTell, StartsAs
  <2>4. CASE r # q
    <3>1. file'[r] = file[r]
      BY <1>2, <2>1, <2>2, <2>4
    <3> QED
      BY <2>1, <3>1 DEF Passable, Headed
  <2> QED
    BY <2>3, <2>4
<1> QED
  BY <1>5, <1>6, <1>7, <1>8, <1>9, <1>10

LEMMA RemovePasses ==
  ASSUME Passable, NEW p \in Paths, Remove(p)
  PROVE  Timed' /\ Sourced' /\ Discovered' /\ Planned' /\ Whole' /\ Headed'
<1>1. /\ file' = [file EXCEPT ![p] = None]
      /\ UNCHANGED <<link, writes, session, seen, pc, full, runs, todo, found, stat, plan>>
  BY DEF Remove, index, refresh
<1>2. /\ \A r \in Live' : r \in Live /\ file'[r] = file[r]
      /\ file'[p] = None /\ \A r \in Paths \ {p} : file'[r] = file[r]
  BY <1>1 DEF Passable, TypeOK, Live
<1>3. Sessions' = Sessions /\ \A i \in Sessions : session[i].path \in Paths
  BY <1>1 DEF Passable, TypeOK, Sessions, StoredSessions
<1>4. Timed'
  BY <1>1, <1>2 DEF Passable, Timed
<1>5. Sourced' /\ Planned'
  BY <1>1, <1>3 DEF Passable, Sourced, Planned
<1>6. Discovered'
  BY <1>1, <1>2 DEF Passable, Discovered
<1>7. Whole'
  BY <1>1, <1>2, <1>3 DEF Passable, Whole
<1>8. Headed'
  BY <1>1, <1>2, <1>3 DEF Passable, Headed, StartsAs
<1> QED
  BY <1>4, <1>5, <1>6, <1>7, <1>8

\* What a refresh does leaves the files alone, and stores nothing but sessions and metadata.
LEMMA DiscoverPasses ==
  ASSUME Passable, Discover
  PROVE  Timed' /\ Sourced' /\ Discovered' /\ Planned' /\ Whole' /\ Headed'
<1>1. /\ pc' = "reconcile" /\ todo' = Live
      /\ stat' = [p \in Paths |-> IF p \in Live
                                  THEN [time |-> file[p].time, len |-> Len(file[p].recs)]
                                  ELSE NoStat]
      /\ UNCHANGED <<file, link, writes, session, seen, plan>>
  BY DEF Discover, disk, index
<1>2. /\ \A p \in Live : stat'[p].time = file[p].time
      /\ \A p \in Paths \ Live : stat'[p].time = 0
      /\ Live' = Live /\ Sessions' = Sessions /\ Live \in SUBSET Paths
  BY <1>1 DEF Live, Sessions, NoStat
<1>3. writes \in Nat
  BY SourcesAssumption DEF Passable, TypeOK
<1>4. Timed'
  BY <1>1, <1>2, <1>3 DEF Passable, Timed
<1>5. Discovered'
  BY <1>1, <1>2 DEF Passable, Timed, Discovered
<1>6. Planned'
  BY <1>1 DEF Planned
<1>7. Sourced' /\ Whole' /\ Headed'
  BY <1>1, <1>2 DEF Passable, Sourced, Whole, Headed, StartsAs
<1> QED
  BY <1>4, <1>5, <1>6, <1>7

LEMMA ReconcilePasses ==
  ASSUME Passable, Reconcile
  PROVE  Timed' /\ Sourced' /\ Discovered' /\ Planned' /\ Whole' /\ Headed'
<1>1. UNCHANGED <<file, link, writes, session, seen, todo, stat>>
  BY DEF Reconcile, disk, index
<1>2. Live' = Live /\ Sessions' = Sessions
  BY <1>1 DEF Live, Sessions
<1>3. Timed' /\ Sourced' /\ Discovered' /\ Whole' /\ Headed'
  BY <1>1, <1>2 DEF Passable, Timed, Sourced, Discovered, Whole, Headed, StartsAs
<1>4. Planned'
  <2> SUFFICES ASSUME NEW p \in todo, plan'[p].ids # {},
                      NEW i \in Sessions, session[i].path = p
               PROVE  i \in plan'[p].ids
    BY <1>1, <1>2 DEF Planned
  <2>1. p \in Paths
    BY DEF Passable, TypeOK
  <2>2. plan'[p].ids = At(p)
    BY <2>1 DEF Reconcile
  <2>3. PICK j \in Sessions : Resolve(session[j].path) = p
    BY <2>2 DEF At
  <2>4. file[p] # None
    BY <2>1, <2>3, SourcesAssumption DEF Resolve
  <2>5. Resolve(p) = p
    BY <2>4 DEF Resolve
  <2> QED
    BY <2>2, <2>5 DEF At
<1> QED
  BY <1>3, <1>4

\* What is left of a refresh that returns, or of one that leaves a source.
LEMMA ReturnPasses ==
  ASSUME Passable, Return
  PROVE  Discovered' /\ Planned' /\ \A p \in Paths : stat'[p].time = 0
BY DEF Return, Discovered, Planned, NoStat

LEMMA LeavePasses ==
  ASSUME Passable, NEW p \in todo, Leave(p)
  PROVE  /\ Discovered'
         /\ \A q \in Paths : stat'[q].time = stat[q].time \/ stat'[q].time = 0
         /\ (\A i \in Sessions' : \/ i \in Sessions /\ session'[i].path = session[i].path
                                  \/ session'[i].path = p)
              => Planned'
<1>1. /\ todo' = todo \ {p} /\ pc' = pc
      /\ p \in Paths /\ todo \in SUBSET Paths
      /\ \A q \in Paths \ {p} : stat'[q] = stat[q] /\ plan'[q] = plan[q]
      /\ stat'[p].time = 0
      /\ UNCHANGED <<file, link, writes>>
  BY DEF Passable, TypeOK, Leave, NoStat, disk
<1>2. Live' = Live
  BY <1>1 DEF Live
<1>3. Discovered'
  BY <1>1, <1>2 DEF Passable, Discovered
<1>4. ASSUME \A i \in Sessions' : \/ i \in Sessions /\ session'[i].path = session[i].path
                                  \/ session'[i].path = p
      PROVE  Planned'
  BY <1>1, <1>4 DEF Passable, Planned
<1> QED
  BY <1>1, <1>3, <1>4

\* A tail has every record behind the offset it begins at.
LEMMA TailKeys ==
  ASSUME NEW q \in Seq(Nat), NEW m \in Nat, NEW k \in 1..Len(q), k > m
  PROVE  q[k] \in Keys(SubSeq(q, m + 1, Len(q)))
<1> DEFINE r == SubSeq(q, m + 1, Len(q))
<1>1. Len(q) \in Nat /\ \A i \in (m + 1)..Len(q) : q[i] \in Nat
  BY LenProperties, ElementOfSeq
<1>2. /\ r \in Seq(Nat) /\ Len(r) = Len(q) - m
      /\ \A i \in 1..(Len(q) - m) : r[i] = q[m + i]
  <2>1. /\ r \in Seq(Nat)
        /\ Len(r) = IF m + 1 <= Len(q) THEN Len(q) - (m + 1) + 1 ELSE 0
        /\ \A i \in 1..(Len(q) - (m + 1) + 1) : r[i] = q[m + 1 + i - 1]
    BY <1>1, SubSeqProperties
  <2> HIDE DEF r
  <2> QED
    BY <1>1, <2>1
<1> HIDE DEF r
<1>3. k - m \in 1..(Len(q) - m) /\ m + (k - m) = k
  BY <1>1
<1>4. k - m \in DOMAIN r /\ r[k - m] = q[k]
  BY <1>2, <1>3
<1> QED
  BY <1>4 DEF Keys, r

\* A source that is visited is where it was discovered, if it is anywhere.
LEMMA VisitedInPlace ==
  ASSUME Passable, NEW p \in todo
  PROVE  /\ p \in Paths
         /\ Content(p) # None => p \in Live /\ Content(p) = file[p] /\ file[p] \in Transcripts
         /\ Content(p) = None => p \notin Live
         /\ \A q \in Live : file[q].time = stat[p].time => q = p
         /\ stat[p].time \in Nat /\ stat[p].time <= writes
<1>1. p \in Paths /\ link[p] = None /\ file[p] \in Transcripts \cup {None}
  BY DEF Passable, TypeOK, Discovered
<1>2. \A q \in Live : file[q].time = stat[p].time => q = p
  BY DEF Passable, Discovered
<1>3. stat[p].time \in Nat /\ stat[p].time <= writes
  BY <1>1 DEF Passable, TypeOK, Timed
<1>4. CASE file[p] = None
  <2>1. Content(p) = None /\ p \notin Live
    BY <1>1, <1>4 DEF Resolve, Content, Live
  <2> QED
    BY <1>1, <1>2, <1>3, <2>1
<1>5. CASE file[p] # None
  <2>1. Content(p) = file[p] /\ p \in Live
    BY <1>1, <1>5, SourcesAssumption DEF Resolve, Content, Live
  <2> QED
    BY <1>1, <1>2, <1>3, <1>5, <2>1
<1> QED
  BY <1>4, <1>5

LEMMA AppendPasses ==
  ASSUME Passable, NEW p \in todo, AppendTail(p)
  PROVE  Timed' /\ Sourced' /\ Discovered' /\ Planned' /\ Whole' /\ Headed'
<1> DEFINE now  == Content(p)
           rest == SubSeq(now.recs, seen[p].off + 1, Len(now.recs))
<1>1. /\ p \in Paths /\ now \in Transcripts
      /\ \A q \in Live : file[q].time = stat[p].time => q = p
      /\ stat[p].time \in Nat /\ stat[p].time <= writes
  BY VisitedInPlace, AppendEffect DEF Passable
<1>2. p \in Live /\ now = file[p]
  BY <1>1, VisitedInPlace, SourcesAssumption
<1>3. /\ now.id \in Sessions /\ plan[p].ids = {now.id} /\ pc = "visit"
      /\ seen[p] \in Entries /\ seen[p].off > 0 /\ seen[p].off < Len(now.recs)
      /\ now.recs # << >> /\ now.recs[1] = seen[p].head
      /\ session' \in [Ids -> StoredSessions \cup {None}]
      /\ Keys(session'[now.id].rows) = Keys(session[now.id].rows) \cup Keys(rest)
      /\ session'[now.id] \in StoredSessions
      /\ session'[now.id].path = session[now.id].path
      /\ \A i \in Ids \ {now.id} : session'[i] = session[i]
      /\ seen' = [seen EXCEPT ![p].time = stat[p].time, ![p].off = Len(now.recs)]
      /\ seen'[p] = [seen[p] EXCEPT !.time = stat[p].time, !.off = Len(now.recs)]
      /\ seen'[p] \in Entries
      /\ Leave(p)
  BY <1>1, AppendEffect DEF Passable, AppendTail, Visiting
<1>4. /\ UNCHANGED <<file, link, writes>> /\ Live' = Live
      /\ \A q \in Paths \ {p} : seen'[q] = seen[q]
  BY <1>3 DEF Leave, disk, Live, Passable, TypeOK
<1>5. /\ seen'[p] \in Entries /\ seen'[p] # None
      /\ seen'[p].time = stat[p].time /\ seen'[p].off = Len(now.recs) /\ seen'[p].head = seen[p].head
  <2> HIDE DEF now
  <2>1. seen'[p] \in Entries /\ seen[p] \in Entries
    BY <1>3
  <2>2. seen'[p] = [seen[p] EXCEPT !.time = stat[p].time, !.off = Len(now.recs)]
    BY <1>3
  <2>3. /\ seen'[p].time = stat[p].time /\ seen'[p].off = Len(now.recs)
        /\ seen'[p].head = seen[p].head
    BY <2>1, <2>2 DEF Entries
  <2> QED
    BY <2>1, <2>3, SourcesAssumption
<1>6. /\ Sessions' = Sessions
      /\ \A i \in Sessions : /\ session'[i].path = session[i].path /\ session[i].path \in Paths
                             /\ Keys(session[i].rows) \subseteq Keys(session'[i].rows)
  <2>1. Sessions' = Sessions
    BY <1>3, SourcesAssumption DEF Sessions
  <2>2. \A i \in Sessions : i \in Ids /\ session[i].path \in Paths
    BY DEF Passable, TypeOK, Sessions, StoredSessions
  <2> QED
    BY <1>3, <2>1, <2>2
<1>7. \A i \in Sessions : session[i].path = p => i = now.id
  BY <1>3 DEF Passable, Planned
<1>8. now.recs \in Seq(Nat) /\ seen[p].off \in Nat
  BY <1>1, <1>3 DEF Transcripts, Entries
<1> HIDE DEF now
<1>9. \A k \in 1..Len(now.recs) : k > seen[p].off => now.recs[k] \in Keys(rest)
  BY <1>3, <1>8, TailKeys
<1> HIDE DEF rest
\* If the source still has the session, all its records are there.
<1>10. ASSUME NEW i \in Sessions, session[i].path = p
       PROVE  i = now.id /\ Keys(now.recs) \subseteq Keys(session'[i].rows)
  <2>1. i = now.id
    BY <1>7, <1>10
  <2>2. StartsAs(p, file[p])
    BY <1>2, <1>3, SourcesAssumption DEF StartsAs, Live
  <2>3. \A k \in 1..seen[p].off : now.recs[k] \in Keys(session[i].rows)
    BY <1>2, <1>10, <2>2 DEF Passable, Headed
  <2>4. DOMAIN now.recs = 1..Len(now.recs) /\ Len(now.recs) \in Nat
    BY <1>8
  <2>5. /\ Keys(session[i].rows) \subseteq Keys(session'[i].rows)
        /\ Keys(rest) \subseteq Keys(session'[i].rows)
    BY <1>3, <2>1
  <2>6. \A k \in DOMAIN now.recs : now.recs[k] \in Keys(session'[i].rows)
    BY <1>8, <1>9, <2>3, <2>4, <2>5
  <2> QED
    BY <2>1, <2>6 DEF Keys
<1>11. Timed'
  <2>1. \A q \in Paths : stat'[q].time <= writes'
    <3>1. writes \in Nat
      BY DEF Passable, TypeOK
    <3> QED
      BY <1>3, <1>4, <3>1, LeavePasses DEF Passable, Timed
  <2> QED
    BY <1>1, <1>4, <1>5, <2>1 DEF Passable, Timed
<1>12. Sourced'
  BY <1>4, <1>5, <1>6 DEF Passable, Sourced
<1>13. Discovered' /\ Planned'
  BY <1>3, <1>6, LeavePasses
<1>14. Whole'
  <2> SUFFICES ASSUME NEW i \in Sessions, NEW q \in Live,
                      seen'[session[i].path].time = file[q].time, file[q].recs # << >>
               PROVE  file[q].id = i /\ Keys(file[q].recs) \subseteq Keys(session'[i].rows)
    BY <1>4, <1>6 DEF Whole
  <2>1. CASE session[i].path = p
    BY <1>1, <1>2, <1>5, <1>10, <2>1
  <2>2. CASE session[i].path # p
    BY <1>4, <1>6, <2>2 DEF Passable, Whole
  <2> QED
    BY <2>1, <2>2
<1>15. Headed'
  <2> SUFFICES ASSUME NEW i \in Sessions, StartsAs(session[i].path, file[session[i].path])'
               PROVE  LET q == session[i].path
                      IN /\ seen'[q].off <= Len(file[q].recs)
                         /\ \A k \in 1..seen'[q].off : file[q].recs[k] \in Keys(session'[i].rows)
    BY <1>4, <1>6 DEF Headed
  <2>1. CASE session[i].path = p
    <3>1. /\ seen'[p].off = Len(file[p].recs) /\ DOMAIN file[p].recs = 1..Len(file[p].recs)
          /\ Len(file[p].recs) \in Nat
      BY <1>2, <1>5, <1>8
    <3>2. Keys(file[p].recs) \subseteq Keys(session'[i].rows)
      BY <1>2, <1>10, <2>1
    <3>3. \A k \in 1..Len(file[p].recs) : file[p].recs[k] \in Keys(session'[i].rows)
      BY <3>1, <3>2 DEF Keys
    <3> QED
      BY <2>1, <3>1, <3>3
  <2>2. CASE session[i].path # p
    <3>1. StartsAs(session[i].path, file[session[i].path])
      BY <1>4, <1>6, <2>2 DEF StartsAs
    <3> QED
      BY <1>4, <1>6, <2>2, <3>1 DEF Passable, Headed
  <2> QED
    BY <2>1, <2>2
<1> QED
  BY <1>11, <1>12, <1>13, <1>14, <1>15

LEMMA StorePasses ==
  ASSUME Passable, NEW p \in todo, Store(p) \/ StoreGone(p)
  PROVE  Timed' /\ Sourced' /\ Discovered' /\ Planned' /\ Whole' /\ Headed'
<1> DEFINE id == Parsed(p).id
<1>1. /\ p \in Paths
      /\ Content(p) # None => p \in Live /\ Content(p) = file[p] /\ file[p] \in Transcripts
      /\ Content(p) = None => p \notin Live
      /\ \A q \in Live : file[q].time = stat[p].time => q = p
      /\ stat[p].time \in Nat /\ stat[p].time <= writes
  BY VisitedInPlace
<1>2. /\ seen'[p] \in Entries /\ seen'[p] # None /\ seen'[p].time = stat[p].time
      /\ \A q \in Paths \ {p} : seen'[q] = IF q \in plan[p].aliases THEN None ELSE seen[q]
  BY <1>1, StoreEffect, SourcesAssumption DEF Passable
<1>3. /\ id \in Ids
      /\ session'[id] \in StoredSessions /\ session'[id] # None /\ session'[id].path = p
      /\ Keys(Parsed(p).recs) \subseteq Keys(session'[id].rows)
      /\ \A i \in Ids \ {id} : session'[i] = IF i \in Retired(p) THEN None ELSE session[i]
  <2>1. TypeOK /\ Upsert(p)
    BY <1>1, StoreEffect DEF Passable
  <2>2. id \in Ids
    BY <1>1, <2>1, ParsedType
  <2> QED
    BY <1>1, <2>1, <2>2, UpsertEffect, SourcesAssumption
\* A session of another name keeps its source, which is none of the names of this one.
<1>4. \A i \in Sessions' \ {id} :
        /\ i \in Sessions /\ session'[i] = session[i]
        /\ session[i].path \in Paths \ {p} /\ seen'[session[i].path] = seen[session[i].path]
  <2> SUFFICES ASSUME NEW i \in Sessions', i # id
               PROVE  /\ i \in Sessions /\ session'[i] = session[i]
                      /\ session[i].path \in Paths \ {p}
                      /\ seen'[session[i].path] = seen[session[i].path]
    OBVIOUS
  <2>1. i \in Ids /\ session'[i] # None
    BY DEF Sessions
  <2>2. i \notin Retired(p) /\ session'[i] = session[i] /\ i \in Sessions
    BY <1>3, <2>1 DEF Sessions
  <2>3. session[i].path \in Paths
    BY <2>2 DEF Passable, TypeOK, Sessions, StoredSessions
  <2>4. session[i].path # p /\ session[i].path \notin plan[p].aliases
    BY <2>2 DEF Retired, SourcePaths
  <2> QED
    BY <1>2, <2>2, <2>3, <2>4
<1>5. UNCHANGED <<file, link, writes>> /\ Live' = Live
  BY DEF Store, StoreGone, Leave, Return, disk, Live
<1>6. /\ Discovered' /\ Planned'
      /\ \A q \in Paths : stat'[q].time = stat[q].time \/ stat'[q].time = 0
  <2>1. CASE Leave(p)
    <3>1. \A i \in Sessions' : \/ i \in Sessions /\ session'[i].path = session[i].path
                               \/ session'[i].path = p
      BY <1>3, <1>4
    <3> QED
      BY <2>1, <3>1, LeavePasses
  <2>2. CASE Return
    BY <2>2, ReturnPasses
  <2> QED
    BY <2>1, <2>2 DEF Store, StoreGone
<1>7. \A i \in Ids : i \in Sessions' => i = id \/ i \in Sessions' \ {id}
  OBVIOUS
<1>8. Sessions' \in SUBSET Ids
  BY DEF Sessions
<1>9. Timed'
  <2>1. writes \in Nat
    BY DEF Passable, TypeOK
  <2>2. \A q \in Paths : stat'[q].time <= writes
    BY <1>6, <2>1 DEF Passable, Timed
  <2>3. \A q \in Paths : seen'[q] # None => seen'[q].time <= writes
    BY <1>1, <1>2 DEF Passable, Timed
  <2> QED
    BY <1>5, <2>2, <2>3 DEF Passable, Timed
<1> HIDE DEF id
<1>10. Sourced'
  <2>1. \A i \in Sessions' : seen'[session'[i].path] # None
    BY <1>2, <1>3, <1>4 DEF Passable, Sourced
  <2>2. ASSUME NEW i \in Sessions', NEW j \in Sessions', session'[i].path = session'[j].path
        PROVE  i = j
    BY <1>3, <1>4, <2>2 DEF Passable, Sourced
  <2> QED
    BY <2>1, <2>2 DEF Sourced
\* A file that was parsed has its records in its session, and none is parsed that is gone.
<1>11. ASSUME p \in Live, file[p].recs # << >>
       PROVE  /\ file[p].id = id /\ Keys(file[p].recs) \subseteq Keys(session'[id].rows)
              /\ seen'[p].off > 0 => seen'[p].off = Len(file[p].recs)
  <2>1. Content(p) = file[p] /\ Content(p) # None /\ file[p] # None
    BY <1>1, <1>11 DEF Live
  <2>2. ~ Fails(p)
    BY <1>11, <2>1 DEF Fails
  <2>3. Parsed(p).id = file[p].id /\ Parsed(p).recs = file[p].recs
    BY <2>1, <2>2 DEF Parsed
  <2>4. Store(p)
    BY <2>1 DEF StoreGone
  <2>5. seen'[p] = Indexed(p)
    BY <1>1, <2>4 DEF Store, Forget
  <2>6. Indexed(p).off > 0 => Indexed(p).off = Len(file[p].recs)
    BY <2>3 DEF Indexed
  <2> QED
    BY <1>3, <2>3, <2>5, <2>6 DEF id
<1>12. Whole'
  <2> SUFFICES ASSUME NEW i \in Sessions', NEW q \in Live,
                      seen'[session'[i].path].time = file[q].time, file[q].recs # << >>
               PROVE  file[q].id = i /\ Keys(file[q].recs) \subseteq Keys(session'[i].rows)
    BY <1>5 DEF Whole
  <2>1. CASE i = id
    BY <1>1, <1>2, <1>3, <1>11, <2>1
  <2>2. CASE i # id
    BY <1>4, <2>2 DEF Passable, Whole
  <2> QED
    BY <2>1, <2>2
<1>13. Headed'
  <2> SUFFICES ASSUME NEW i \in Sessions', StartsAs(session[i].path, file[session[i].path])'
               PROVE  LET q == session'[i].path
                      IN /\ seen'[q].off <= Len(file[q].recs)
                         /\ \A k \in 1..seen'[q].off : file[q].recs[k] \in Keys(session'[i].rows)
    BY <1>5 DEF Headed
  <2>1. CASE i = id
    <3>1. p \in Live /\ file[p].recs # << >> /\ seen'[p].off > 0
      BY <1>1, <1>3, <1>5, <2>1 DEF StartsAs, Live
    <3>2. file[p].recs \in Seq(Nat)
      BY <1>1, <3>1 DEF Passable, TypeOK, Live, Transcripts
    <3>3. /\ seen'[p].off = Len(file[p].recs) /\ Len(file[p].recs) \in Nat
          /\ DOMAIN file[p].recs = 1..Len(file[p].recs)
          /\ Keys(file[p].recs) \subseteq Keys(session'[id].rows)
      BY <1>11, <3>1, <3>2
    <3>4. \A k \in 1..Len(file[p].recs) : file[p].recs[k] \in Keys(session'[id].rows)
      BY <3>3 DEF Keys
    <3> QED
      BY <1>3, <2>1, <3>3, <3>4
  <2>2. CASE i # id
    <3>1. StartsAs(session[i].path, file[session[i].path])
      BY <1>4, <1>5, <2>2 DEF StartsAs
    <3> QED
      BY <1>4, <2>2, <3>1 DEF Passable, Headed
  <2> QED
    BY <2>1, <2>2
<1> QED
  BY <1>6, <1>9, <1>10, <1>12, <1>13

\* Whatever ends a visit or a refresh without a word to the index.
LEMMA QuietPasses ==
  ASSUME Passable, UNCHANGED <<file, link, writes, session, seen>>,
         Return \/ \E p \in todo : Leave(p)
  PROVE  Timed' /\ Sourced' /\ Discovered' /\ Planned' /\ Whole' /\ Headed'
<1>1. Live' = Live /\ Sessions' = Sessions
  BY DEF Live, Sessions
<1>2. /\ Discovered' /\ Planned'
      /\ \A q \in Paths : stat'[q].time = stat[q].time \/ stat'[q].time = 0
  <2>1. CASE Return
    BY <2>1, ReturnPasses
  <2>2. ASSUME NEW p \in todo, Leave(p)
        PROVE  /\ Discovered' /\ Planned'
               /\ \A q \in Paths : stat'[q].time = stat[q].time \/ stat'[q].time = 0
    BY <1>1, <2>2, LeavePasses
  <2> QED
    BY <2>1, <2>2
<1>3. writes \in Nat
  BY DEF Passable, TypeOK
<1>4. Timed'
  BY <1>1, <1>2, <1>3 DEF Passable, Timed
<1>5. Sourced' /\ Whole' /\ Headed'
  BY <1>1 DEF Passable, Sourced, Whole, Headed, StartsAs
<1> QED
  BY <1>2, <1>4, <1>5

LEMMA PassableStays ==
  Passable /\ [Next]_vars /\ [MovesWait]_vars /\ [HeadsTell]_vars => Passable'
<1> SUFFICES ASSUME Passable, [Next]_vars, [MovesWait]_vars, [HeadsTell]_vars
             PROVE  Timed' /\ Sourced' /\ Discovered' /\ Planned' /\ Whole' /\ Headed'
  BY NextTypes DEF Passable
<1>1. CASE UNCHANGED vars
  BY <1>1 DEF vars, disk, index, refresh, Passable, Timed, Sourced, Discovered, Planned, Whole,
     Headed, StartsAs, Live, Sessions
<1>2. CASE Environment /\ MovesWait /\ HeadsTell
  BY <1>2, EnvironmentSteps, PutPasses, MovePasses, RemovePasses DEF Passable
<1>3. CASE Discover
  BY <1>3, DiscoverPasses
<1>4. CASE Reconcile
  BY <1>4, ReconcilePasses
<1>5. ASSUME NEW p \in Paths, Visit(p)
      PROVE  Timed' /\ Sourced' /\ Discovered' /\ Planned' /\ Whole' /\ Headed'
  <2>1. p \in todo
    BY <1>5 DEF Visit, Skip, AppendTail, TailNothingNew, TailError, KeepFailed, LeaveToHolder,
       Store, StoreGone, Storable, Parsing, Visiting
  <2>2. CASE AppendTail(p)
    BY <2>1, <2>2, AppendPasses
  <2>3. CASE Store(p) \/ StoreGone(p)
    BY <2>1, <2>3, StorePasses
  <2>4. CASE Skip(p) \/ TailNothingNew(p) \/ TailError(p) \/ KeepFailed(p) \/ LeaveToHolder(p)
    <3>1. UNCHANGED <<file, link, writes, session, seen>> /\ (Return \/ Leave(p))
      BY <2>4 DEF Skip, TailNothingNew, TailError, KeepFailed, LeaveToHolder, Leave, Return, disk,
         index
    <3> QED
      BY <2>1, <3>1, QuietPasses
  <2> QED
    BY <1>5, <2>2, <2>3, <2>4 DEF Visit
<1>6. CASE Finish \/ Abort
  <2>1. UNCHANGED <<file, link, writes, session, seen>> /\ Return
    BY <1>6 DEF Finish, Abort, Return, disk, index
  <2> QED
    BY <2>1, QuietPasses
<1> QED
  BY <1>1, <1>2, <1>3, <1>4, <1>5, <1>6 DEF Next, Refresh

(* While no file is moved from where a refresh found it before the refresh *)
(* has visited it, and no change keeps the head of a transcript but not    *)
(* what was indexed behind it, a refresh passes over complete transcripts  *)
(* only: the test of reindex for unchanged metadata, and the offset that   *)
(* try_tail continues from, never hide a record from the index, however    *)
(* files are copied, moved and renamed and sessions change hands.          *)
THEOREM WhatIsPassedOverIsIndexed ==
  Spec /\ [][MovesWait]_vars /\ [][HeadsTell]_vars => []PassedOverIsIndexed
<1>1. Init => Passable
  <2> SUFFICES ASSUME Init
               PROVE  Timed /\ Sourced /\ Discovered /\ Planned /\ Whole /\ Headed
    BY InitTypes DEF Passable
  <2>1. Live = {} /\ Sessions = {} /\ writes = 0 /\ todo = {} /\ pc = "idle"
    BY DEF Init, Live, Sessions
  <2>2. \A p \in Paths : seen[p] = None /\ stat[p].time = 0
    BY DEF Init, NoStat
  <2> QED
    BY <2>1, <2>2 DEF Timed, Sourced, Discovered, Planned, Whole, Headed
<1> QED
  BY <1>1, PassableStays, PassableSuffices, PTL DEF Spec

=============================================================================
