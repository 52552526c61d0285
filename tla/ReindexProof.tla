----------------------------- MODULE ReindexProof -----------------------------
(***************************************************************************)
(* For every set of transcripts, every set of parser versions and every    *)
(* bound: the types of the refresh, that the stored rows of a session are  *)
(* the work of one parser version, and that the index never drops a row    *)
(* while that version stays.  These three assume nothing about when the    *)
(* harnesses write, rewrite or remove transcripts, or when the refresh is  *)
(* cut off.                                                                *)
(* Two more have a premise, which names what the code does not survive.    *)
(* If nothing comes between a commit and the checkpoint that follows it    *)
(* (CheckpointsFollow), no record is stored twice.  If the refresh can see *)
(* every rewrite, and no lost transcript comes back before its stub is     *)
(* checkpointed (RewritesShow), one that counts as current is complete.    *)
(***************************************************************************)
EXTENDS Reindex, OperatorsProof

File == [recs : Seq(Nat), cut : 0..2, mtime : Nat, status : {"ok", "unreadable", "gone"}]

\* The rows of a parse or of a tail slice are well-typed and carry the running version.
LEMMA RenderProperties ==
  ASSUME NEW f \in File, NEW first \in Nat, NEW last \in Int,
         last <= Len(f.recs), version \in Versions
  PROVE  /\ Render(f, first, last) \in Seq(RowSet)
         /\ \A i \in DOMAIN Render(f, first, last) : Render(f, first, last)[i].by = version
<1> DEFINE n == IF last - first > 0 THEN last - first ELSE 0
<1>1. f.recs \in Seq(Nat)
  BY DEF File
<1>2. n \in Nat /\ 1..n = 1..(last - first)
  OBVIOUS
<1>3. \A i \in 1..n : [rec |-> f.recs[first + i], by |-> version] \in RowSet
  <2> SUFFICES ASSUME NEW i \in 1..n PROVE f.recs[first + i] \in Nat
    BY DEF RowSet
  <2>1. first + i \in 1..Len(f.recs)
    BY <1>1
  <2> QED
    BY <1>1, <2>1, ElementOfSeq
<1>4. Render(f, first, last) \in [1..n -> RowSet]
  BY <1>2, <1>3 DEF Render
<1>5. Render(f, first, last) \in Seq(RowSet)
  BY <1>2, <1>4, SeqDef
<1> QED
  BY <1>5 DEF Render

\* A head fingerprint has its type.
LEMMA FingerprintType ==
  ASSUME NEW f \in File, HeadRecords \in Nat
  PROVE  Fingerprint(f) \in Prints
<1>1. f.recs \in Seq(Nat) /\ Len(f.recs) \in Nat
  BY DEF File
<1> DEFINE h == Least(Len(f.recs), HeadRecords)
<1>2. h \in Nat /\ h <= Len(f.recs)
  BY <1>1 DEF Least
<1>3. \A i \in 1..h : f.recs[i] \in Nat
  BY <1>1, <1>2, ElementOfSeq
<1>4. SubSeq(f.recs, 1, h) \in Seq(Nat)
  <2> HIDE DEF h
  <2> QED
    BY <1>2, <1>3, SubSeqProperties
<1>5. Least(Size(f), RecordBytes * HeadRecords) \in Int
  BY <1>1 DEF Least, Size, RecordBytes, File
<1> QED
  BY <1>4, <1>5 DEF Fingerprint, Prints

LEMMA NoWorkType == NoWork \in WorkSet
<1>1. << >> \in Seq(Nat) /\ << >> \in Seq(RowSet)
  BY EmptySeq
<1> QED
  BY <1>1 DEF NoWork, NoFingerprint, Prints, WorkSet

LEMMA InitType == Init => TypeOK
<1> SUFFICES ASSUME Init PROVE TypeOK
  OBVIOUS
<1>1. << >> \in Seq(Nat) /\ << >> \in Seq(RowSet)
  BY EmptySeq
<1>2. WorldOK
  BY <1>1 DEF Init, WorldOK
<1>3. TablesOK
  <2>1. seen \in [Sources -> [mtime : Nat, size : Int, by : Versions \cup {0}]]
    BY DEF Init, NotSeen
  <2>2. ckpt \in [Sources -> [off : Nat, fp : Prints]]
    BY <1>1 DEF Init, NoCheckpoint, NoFingerprint, Prints
  <2>3. rows \in [Sources -> Seq(RowSet)]
    BY <1>1 DEF Init
  <2>4. stub \in [Sources -> BOOLEAN]
    BY DEF Init
  <2> QED
    BY <2>1, <2>2, <2>3, <2>4 DEF TablesOK
<1>4. RefreshOK
  <2>1. full \in BOOLEAN
    BY DEF Init
  <2> QED
    BY <2>1, NoWorkType DEF Init, RefreshOK, Points
<1> QED
  BY <1>2, <1>3, <1>4 DEF TypeOK

\* What the harnesses and the file system do leaves the types intact.
LEMMA ChangeType ==
  ASSUME TypeOK, NEW s \in Sources, NEW recs \in Seq(Nat), NEW cut \in 0..2,
         Change(s, recs, cut), written' \in [Sources -> Nat]
  PROVE  TypeOK'
<1> DEFINE new == [recs |-> recs, cut |-> cut, mtime |-> file[s].mtime + 1,
                   status |-> file[s].status]
<1>1. WorldOK'
  <2>1. file \in [Sources -> File] /\ file[s] \in File
    BY DEF TypeOK, WorldOK, File
  <2>2. new \in File
    BY <2>1 DEF File
  <2>3. file' = [file EXCEPT ![s] = new]
    BY DEF Change
  <2>4. file' \in [Sources -> File]
    BY <2>1, <2>2, <2>3
  <2> QED
    BY <2>4 DEF WorldOK, File
<1>2. TablesOK'
  BY DEF TypeOK, TablesOK, Change, tables
<1>3. RefreshOK'
  BY DEF TypeOK, RefreshOK, Points, Change, refresh
<1> QED
  BY <1>1, <1>2, <1>3 DEF TypeOK

LEMMA EnvironmentType == TypeOK /\ Environment => TypeOK'
<1> SUFFICES ASSUME TypeOK, NEW s \in Sources,
                    \/ \E cut \in 0..2 : AppendRecord(s, cut) \/ FlushRecord(s, cut)
                    \/ \E kept \in SUBSET DOMAIN file[s].recs, summary \in BOOLEAN :
                         RewriteRecords(s, kept, summary)
                    \/ \E status \in Faults : LoseAccess(s, status)
                    \/ RegainAccess(s)
             PROVE  TypeOK'
  BY DEF Environment
<1>1. file[s] \in File /\ written[s] \in Nat
  BY DEF TypeOK, WorldOK, File
<1>2. file[s].recs \in Seq(Nat)
  BY <1>1 DEF File
<1>3. ASSUME NEW cut \in 0..2, AppendRecord(s, cut)
      PROVE  TypeOK'
  <2>1. Append(file[s].recs, written[s] + 1) \in Seq(Nat)
    BY <1>1, <1>2, AppendProperties
  <2>2. written' \in [Sources -> Nat]
    BY <1>1, <1>3 DEF TypeOK, WorldOK, AppendRecord
  <2> QED
    BY <1>3, <2>1, <2>2, ChangeType DEF AppendRecord
<1>4. ASSUME NEW cut \in 0..2, FlushRecord(s, cut)
      PROVE  TypeOK'
  <2>1. written' \in [Sources -> Nat]
    BY <1>4 DEF TypeOK, WorldOK, FlushRecord
  <2> QED
    BY <1>2, <1>4, <2>1, ChangeType DEF FlushRecord
<1>5. ASSUME NEW kept \in SUBSET DOMAIN file[s].recs, NEW summary \in BOOLEAN,
             RewriteRecords(s, kept, summary)
      PROVE  TypeOK'
  <2> DEFINE extra == IF summary THEN <<written[s] + 1>> ELSE << >>
  <2>1. Pick(file[s].recs, kept) \in Seq(Nat)
    BY <1>2, PickProperties
  <2>2. extra \in Seq(Nat)
    BY <1>1, EmptySeq
  <2>3. Pick(file[s].recs, kept) \o extra \in Seq(Nat)
    BY <2>1, <2>2, ConcatProperties
  <2>4. written' \in [Sources -> Nat]
    BY <1>1, <1>5 DEF TypeOK, WorldOK, RewriteRecords
  <2>5. Change(s, Pick(file[s].recs, kept) \o extra, 0)
    BY <1>5 DEF RewriteRecords
  <2>6. \A recs \in Seq(Nat) : Change(s, recs, 0) => TypeOK'
    BY <2>4, ChangeType
  <2> QED
    BY <2>3, <2>5, <2>6
<1>6. ASSUME NEW status \in Faults, LoseAccess(s, status)
      PROVE  TypeOK'
  <2>1. status \in {"ok", "unreadable", "gone"}
    BY ReindexAssumption DEF ReindexAssumption
  <2>2. WorldOK'
    BY <1>6, <2>1 DEF TypeOK, WorldOK, LoseAccess
  <2>3. TablesOK'
    BY <1>6 DEF TypeOK, TablesOK, LoseAccess, tables
  <2>4. RefreshOK'
    BY <1>6 DEF TypeOK, RefreshOK, Points, LoseAccess
  <2> QED
    BY <2>2, <2>3, <2>4 DEF TypeOK
<1>7. ASSUME RegainAccess(s)
      PROVE  TypeOK'
  <2>1. WorldOK'
    BY <1>7 DEF TypeOK, WorldOK, RegainAccess
  <2>2. TablesOK'
    BY <1>7 DEF TypeOK, TablesOK, RegainAccess, tables
  <2>3. RefreshOK'
    BY <1>7 DEF TypeOK, RefreshOK, Points, RegainAccess, refresh
  <2> QED
    BY <2>1, <2>2, <2>3 DEF TypeOK
<1> QED
  BY <1>3, <1>4, <1>5, <1>6, <1>7

\* The three ways the refresh moves on leave its own variables well-typed.
LEMMA MoveType ==
  ASSUME RefreshOK
  PROVE  /\ Leave => RefreshOK'
         /\ Return => RefreshOK'
         /\ \A s \in Sources, where \in {"tail", "parse"} : Enter(s, where) => RefreshOK'
<1>1. ASSUME Leave PROVE RefreshOK'
  BY <1>1, NoWorkType DEF RefreshOK, Points, Leave
<1>2. ASSUME Return PROVE RefreshOK'
  BY <1>2, NoWorkType DEF RefreshOK, Points, Return
<1>3. ASSUME NEW s \in Sources, NEW where \in {"tail", "parse"}, Enter(s, where)
      PROVE  RefreshOK'
  <2>1. Reading(s) \in WorkSet /\ Reading(s).src = s
    BY NoWorkType DEF Reading, WorkSet, NoWork
  <2> QED
    BY <1>3, <2>1 DEF RefreshOK, Points, Enter
<1> QED
  BY <1>1, <1>2, <1>3

LEMMA DiscoverType == TypeOK /\ Discover => TypeOK'
<1> SUFFICES ASSUME TypeOK, Discover PROVE TypeOK'
  OBVIOUS
<1>1. ASSUME NEW s \in Sources
      PROVE  file[s].mtime \in Nat /\ Size(file[s]) \in Int
  <2>1. file[s] \in File
    BY DEF TypeOK, WorldOK, File
  <2>2. Len(file[s].recs) \in Nat /\ file[s].cut \in 0..2 /\ file[s].mtime \in Nat
    BY <2>1 DEF File
  <2> QED
    BY <2>2 DEF Size, RecordBytes
<1>2. stat' \in [Sources -> [mtime : Nat, size : Int]]
  BY <1>1 DEF Discover
<1>3. RefreshOK'
  BY <1>2 DEF TypeOK, RefreshOK, Points, Discover
<1> QED
  BY <1>3 DEF TypeOK, WorldOK, TablesOK, Discover, world, tables

LEMMA VisitType == TypeOK /\ (\E s \in Sources : Visit(s)) => TypeOK'
<1> SUFFICES ASSUME TypeOK, NEW s \in Sources, Visit(s) PROVE TypeOK'
  OBVIOUS
<1>1. RefreshOK
  BY DEF TypeOK
<1>2. UNCHANGED <<world, tables>>
  BY DEF Visit, Skip, StartFullParse, StartTail, FingerprintError
<1>3. CASE Skip(s)
  BY <1>1, <1>3 DEF RefreshOK, Points, TypeOK, Skip, WorldOK, TablesOK, world, tables
<1>4. CASE ~Skip(s)
  <2>1. Enter(s, "parse") \/ Enter(s, "tail") \/ Return
    BY <1>4 DEF Visit, StartFullParse, StartTail, FingerprintError
  <2>2. RefreshOK'
    BY <1>1, <2>1, MoveType
  <2> QED
    BY <1>2, <2>2 DEF TypeOK, WorldOK, TablesOK, world, tables
<1> QED
  BY <1>3, <1>4

LEMMA HandleType == TypeOK /\ Handle => TypeOK'
<1> SUFFICES ASSUME TypeOK, Handle PROVE TypeOK'
  OBVIOUS
<1>1. RefreshOK /\ TablesOK /\ WorldOK
  BY DEF TypeOK
<1>2. HeadRecords \in Nat /\ version \in Versions
  BY ReindexAssumption DEF ReindexAssumption, TypeOK, RefreshOK, Points
<1>3. \A s \in Sources :
        /\ file[s] \in File
        /\ file[s].recs \in Seq(Nat) /\ Len(file[s].recs) \in Nat
        /\ Fingerprint(file[s]) \in Prints
        /\ ckpt[s].off \in Nat
        /\ rows[s] \in Seq(RowSet)
  <2> SUFFICES ASSUME NEW s \in Sources
               PROVE  /\ file[s] \in File
                      /\ file[s].recs \in Seq(Nat) /\ Len(file[s].recs) \in Nat
                      /\ Fingerprint(file[s]) \in Prints
                      /\ ckpt[s].off \in Nat
                      /\ rows[s] \in Seq(RowSet)
    OBVIOUS
  <2>1. file[s] \in File
    BY DEF TypeOK, WorldOK, File
  <2>2. Fingerprint(file[s]) \in Prints
    BY <1>2, <2>1, FingerprintType
  <2> QED
    BY <2>1, <2>2 DEF TypeOK, TablesOK, File
<1>4. ASSUME world' = world, TablesOK', RefreshOK'
      PROVE  TypeOK'
  BY <1>4 DEF TypeOK, WorldOK, world
<1>5. ASSUME UNCHANGED <<world, tables>>, Leave \/ Return
      PROVE  TypeOK'
  BY <1>1, <1>5, MoveType DEF TypeOK, WorldOK, TablesOK, world, tables
<1>6. CASE TailRead
  <2> DEFINE s == work.src
             f == file[s]
  <2>1. s \in Sources
    BY <1>1, <1>6 DEF TailRead, RefreshOK, Points
  <2>2. Complete(f) \in Nat /\ Complete(f) <= Len(f.recs)
    <3>1. Len(f.recs) \in Nat /\ ckpt[s].off \in Nat
      BY <1>3, <2>1
    <3>2. Complete(f) > ckpt[s].off
      BY <1>6 DEF TailRead
    <3> HIDE DEF f, s
    <3> QED
      BY <3>1, <3>2 DEF Complete
  <2>3. Render(f, ckpt[s].off, Complete(f)) \in Seq(RowSet)
    <3>1. f \in File /\ ckpt[s].off \in Nat /\ Complete(f) \in Int
      BY <1>3, <2>1, <2>2
    <3> HIDE DEF f, s
    <3> QED
      BY <1>2, <2>2, <3>1, RenderProperties
  <2>4. work' \in WorkSet /\ work'.src = s
    BY <1>3, <1>6, <2>1, <2>2, <2>3 DEF TailRead, WorkSet
  <2>5. RefreshOK'
    BY <1>1, <1>6, <2>1, <2>4 DEF TailRead, RefreshOK, Points
  <2>6. TablesOK'
    BY <1>1, <1>6 DEF TailRead, TablesOK, tables
  <2> QED
    BY <1>4, <1>6, <2>5, <2>6 DEF TailRead
<1>7. CASE TailNothingNew
  BY <1>5, <1>7 DEF TailNothingNew
<1>8. CASE TailRefused
  <2>1. RefreshOK'
    BY <1>1, <1>8 DEF TailRefused, RefreshOK, Points
  <2> QED
    BY <1>1, <1>4, <1>8, <2>1 DEF TailRefused, TablesOK, tables
<1>9. CASE KeepAfterFailure
  BY <1>5, <1>9 DEF KeepAfterFailure
<1>10. CASE CheckpointError
  BY <1>5, <1>10 DEF CheckpointError
<1>11. CASE FullRead
  <2> DEFINE s == work.src
             f == file[s]
  <2>1. s \in Sources
    BY <1>1, <1>11 DEF FullRead, RefreshOK, Points
  <2>2. Parseable(f) \in Int /\ Parseable(f) <= Len(f.recs)
    BY <1>3, <2>1 DEF Parseable
  <2>3. Render(f, 0, Parseable(f)) \in Seq(RowSet)
    BY <1>2, <1>3, <2>1, <2>2, RenderProperties
  <2>4. work' \in WorkSet /\ work'.src = s
    BY <1>11, <2>1, <2>3, NoWorkType DEF FullRead, Reading, WorkSet, NoWork
  <2>5. RefreshOK'
    BY <1>1, <1>11, <2>1, <2>4 DEF FullRead, RefreshOK, Points
  <2>6. TablesOK'
    BY <1>1, <1>11 DEF FullRead, TablesOK, tables
  <2> QED
    BY <1>4, <1>11, <2>5, <2>6 DEF FullRead
<1>12. CASE StubAfterFailure
  <2>1. work.src \in Sources
    BY <1>1, <1>12 DEF StubAfterFailure, RefreshOK, Points
  <2>2. work' \in WorkSet /\ work'.src = work.src
    BY <1>12, <2>1, NoWorkType DEF StubAfterFailure, Reading, WorkSet, NoWork
  <2>3. RefreshOK'
    BY <1>1, <1>12, <2>1, <2>2 DEF StubAfterFailure, RefreshOK, Points
  <2> QED
    BY <1>1, <1>4, <1>12, <2>3 DEF StubAfterFailure, TablesOK, tables
<1>13. CASE AppendTail
  <2> DEFINE s == work.src
  <2>1. s \in Sources /\ work \in WorkSet
    BY <1>1, <1>13 DEF AppendTail, RefreshOK, Points
  <2>2. rows[s] \o work.rows \in Seq(RowSet)
    BY <1>3, <2>1, ConcatProperties DEF WorkSet
  <2>3. rows' \in [Sources -> Seq(RowSet)]
    BY <1>1, <1>13, <2>2 DEF AppendTail, TablesOK
  <2>4. seen' \in [Sources -> [mtime : Nat, size : Int, by : Versions \cup {0}]]
    BY <1>1, <1>2, <1>13, <2>1 DEF AppendTail, TablesOK, RefreshOK, Points, Discovered
  <2>5. ckpt' \in [Sources -> [off : Nat, fp : Prints]]
    BY <1>1, <1>13, <2>1 DEF AppendTail, TablesOK, WorkSet
  <2>6. stub' \in [Sources -> BOOLEAN]
    BY <1>1, <1>13 DEF AppendTail, TablesOK
  <2>7. RefreshOK'
    BY <1>1, <1>13, MoveType DEF AppendTail
  <2> QED
    BY <1>4, <1>13, <2>3, <2>4, <2>5, <2>6, <2>7 DEF AppendTail, TablesOK
<1>14. CASE StoreParsed
  <2> DEFINE s == work.src
             same == seen[s].by = version
  <2>1. s \in Sources /\ work \in WorkSet
    BY <1>1, <1>14 DEF StoreParsed, RefreshOK, Points
  <2>2. Stored(rows[s], work.rows, same) \in Seq(RowSet)
    BY <1>3, <2>1, StoredProperties DEF WorkSet
  <2>3. rows' \in [Sources -> Seq(RowSet)]
    BY <1>1, <1>14, <2>2 DEF StoreParsed, TablesOK
  <2>4. seen' \in [Sources -> [mtime : Nat, size : Int, by : Versions \cup {0}]]
    BY <1>1, <1>2, <1>14, <2>1 DEF StoreParsed, TablesOK, RefreshOK, Points, Discovered
  <2>5. stub' \in [Sources -> BOOLEAN]
    <3>1. work.failed \in BOOLEAN
      BY <2>1 DEF WorkSet
    <3> QED
      BY <1>1, <1>14, <3>1 DEF StoreParsed, TablesOK
  <2>6. TablesOK'
    BY <1>1, <1>14, <2>3, <2>4, <2>5 DEF StoreParsed, TablesOK
  <2>7. RefreshOK'
    BY <1>1, <1>14, <2>1 DEF StoreParsed, RefreshOK, Points
  <2> QED
    BY <1>4, <1>14, <2>6, <2>7 DEF StoreParsed
<1>15. CASE SetCheckpoint
  <2> DEFINE s == work.src
  <2>1. s \in Sources
    BY <1>1, <1>15 DEF SetCheckpoint, RefreshOK, Points
  <2>2. FullCheckpoint(s) \in [off : Nat, fp : Prints]
    BY <1>3, <2>1 DEF FullCheckpoint, Complete
  <2>3. ckpt' \in [Sources -> [off : Nat, fp : Prints]]
    BY <1>1, <1>15, <2>2 DEF SetCheckpoint, TablesOK
  <2>4. TablesOK'
    BY <1>1, <1>15, <2>3 DEF SetCheckpoint, TablesOK
  <2>5. RefreshOK'
    BY <1>1, <1>15, MoveType DEF SetCheckpoint
  <2> QED
    BY <1>4, <1>15, <2>4, <2>5 DEF SetCheckpoint
<1> QED
  BY <1>6, <1>7, <1>8, <1>9, <1>10, <1>11, <1>12, <1>13, <1>14, <1>15 DEF Handle

LEMMA StepType == TypeOK /\ [Next]_vars => TypeOK'
<1> SUFFICES ASSUME TypeOK, [Next]_vars PROVE TypeOK'
  OBVIOUS
<1>1. CASE Environment
  BY <1>1, EnvironmentType
<1>2. CASE SwitchBuild
  BY <1>2 DEF TypeOK, WorldOK, TablesOK, RefreshOK, Points, SwitchBuild, world, tables
<1>3. CASE Refresh
  <2>1. CASE Finish
    <3>1. RefreshOK'
      BY <2>1, MoveType DEF Finish, TypeOK
    <3> QED
      BY <2>1, <3>1 DEF TypeOK, WorldOK, TablesOK, Finish, world, tables
  <2> QED
    BY <1>3, <2>1, DiscoverType, VisitType, HandleType DEF Refresh
<1>4. CASE Abort
  BY <1>4, NoWorkType DEF TypeOK, WorldOK, TablesOK, RefreshOK, Points, Abort, world, tables
<1>5. CASE UNCHANGED vars
  BY <1>5 DEF TypeOK, WorldOK, TablesOK, RefreshOK, Points, vars
<1> QED
  BY <1>1, <1>2, <1>3, <1>4, <1>5 DEF Next

\* The types hold throughout, whatever the constants are.
THEOREM TypeCorrect == Spec => []TypeOK
<1> QED
  BY InitType, StepType, PTL DEF Spec
-----------------------------------------------------------------------------
(* Rows of one parser version *)

\* RowsOfOneParser is not inductive alone: the rows about to be stored must be the running
\* version's, and a tail may only be under way for a source that version has indexed.
WorkOfOneParser ==
  /\ pc \in {"append", "store"} =>
       \A i \in DOMAIN work.rows : work.rows[i].by = version
  /\ pc \in {"tail", "append"} => seen[work.src].by = version

ParserInv == TypeOK /\ RowsOfOneParser /\ WorkOfOneParser

\* RowsOfOneParser, said of the set of stored rows.
LEMMA OneParserKeys ==
  RowsOfOneParser <=> \A s \in Sources : \A row \in Keys(rows[s]) : row.by = seen[s].by
BY DEF RowsOfOneParser, Keys

LEMMA WorkKeys ==
  WorkOfOneParser /\ pc \in {"append", "store"} => \A row \in Keys(work.rows) : row.by = version
BY DEF WorkOfOneParser, Keys

\* Only the two commits touch the rows and the recorded parser version.
LEMMA OnlyCommitsStore ==
  ASSUME [Next]_vars
  PROVE  AppendTail \/ StoreParsed \/ UNCHANGED <<rows, seen>>
BY DEF Next, vars, Environment, AppendRecord, FlushRecord, RewriteRecords, Change, LoseAccess,
       RegainAccess, SwitchBuild, Refresh, Discover, Visit, Skip, StartFullParse, StartTail,
       FingerprintError, Handle, TailRead, TailNothingNew, TailRefused, FullRead,
       KeepAfterFailure, StubAfterFailure, SetCheckpoint, CheckpointError, Finish, Abort, tables

\* append_tail keeps what is stored and adds the work's rows, under the same version.
LEMMA AppendTailEffect ==
  ASSUME TypeOK, AppendTail
  PROVE  /\ work.src \in Sources
         /\ Keys(rows'[work.src]) = Keys(rows[work.src]) \cup Keys(work.rows)
         /\ seen'[work.src].by = version
         /\ \A t \in Sources \ {work.src} : rows'[t] = rows[t] /\ seen'[t] = seen[t]
<1> DEFINE s == work.src
<1>1. s \in Sources /\ work.rows \in Seq(RowSet) /\ rows[s] \in Seq(RowSet)
  BY DEF AppendTail, TypeOK, RefreshOK, Points, TablesOK, WorkSet
<1>2. rows'[s] = rows[s] \o work.rows
  BY <1>1 DEF AppendTail, TypeOK, TablesOK
<1>3. Keys(rows'[s]) = Keys(rows[s]) \cup Keys(work.rows)
  BY <1>1, <1>2, ConcatKeys
<1>4. /\ seen'[s].by = version
      /\ \A t \in Sources \ {s} : rows'[t] = rows[t] /\ seen'[t] = seen[t]
  BY <1>1 DEF AppendTail, TypeOK, TablesOK, Discovered
<1> QED
  BY <1>1, <1>3, <1>4

\* upsert_session_with_mode stores nothing but the work's rows and, under an unchanged parser,
\* the stored ones, all of which it keeps.
LEMMA StoreParsedEffect ==
  ASSUME TypeOK, StoreParsed
  PROVE  /\ work.src \in Sources
         /\ Keys(rows'[work.src]) \subseteq
              (IF seen[work.src].by = version THEN Keys(rows[work.src]) ELSE {})
                \cup Keys(work.rows)
         /\ seen[work.src].by = version => Keys(rows[work.src]) \subseteq Keys(rows'[work.src])
         /\ seen'[work.src].by = version
         /\ \A t \in Sources \ {work.src} : rows'[t] = rows[t] /\ seen'[t] = seen[t]
<1> DEFINE s == work.src
           same == seen[s].by = version
<1>1. s \in Sources /\ work.rows \in Seq(RowSet) /\ rows[s] \in Seq(RowSet)
  BY DEF StoreParsed, TypeOK, RefreshOK, Points, TablesOK, WorkSet
<1>2. rows'[s] = Stored(rows[s], work.rows, same)
  BY <1>1 DEF StoreParsed, TypeOK, TablesOK
<1>3. /\ Keys(rows'[s]) \subseteq (IF same THEN Keys(rows[s]) ELSE {}) \cup Keys(work.rows)
      /\ same => Keys(rows[s]) \subseteq Keys(rows'[s])
  <2>1. same \in BOOLEAN
    OBVIOUS
  <2> HIDE DEF same, s
  <2> QED
    BY <1>1, <1>2, <2>1, StoredProperties
<1>4. /\ seen'[s].by = version
      /\ \A t \in Sources \ {s} : rows'[t] = rows[t] /\ seen'[t] = seen[t]
  BY <1>1 DEF StoreParsed, TypeOK, TablesOK, Discovered
<1> QED
  BY <1>1, <1>3, <1>4

LEMMA RowsStep == ParserInv /\ [Next]_vars => RowsOfOneParser'
<1> SUFFICES ASSUME ParserInv, [Next]_vars
             PROVE  \A s \in Sources : \A row \in Keys(rows'[s]) : row.by = seen'[s].by
  BY DEF RowsOfOneParser, Keys
<1> SUFFICES ASSUME NEW s \in Sources, NEW row \in Keys(rows'[s])
             PROVE  row.by = seen'[s].by
  OBVIOUS
<1>1. TypeOK /\ \A t \in Sources : \A r \in Keys(rows[t]) : r.by = seen[t].by
  BY OneParserKeys DEF ParserInv
<1>2. CASE AppendTail
  <2>1. seen[work.src].by = version /\ \A r \in Keys(work.rows) : r.by = version
    BY <1>2, WorkKeys DEF ParserInv, AppendTail, WorkOfOneParser
  <2> QED
    BY <1>1, <1>2, <2>1, AppendTailEffect
<1>3. CASE StoreParsed
  <2>1. \A r \in Keys(work.rows) : r.by = version
    BY <1>3, WorkKeys DEF ParserInv, StoreParsed
  <2> QED
    BY <1>1, <1>3, <2>1, StoreParsedEffect
<1>4. CASE UNCHANGED <<rows, seen>>
  BY <1>1, <1>4
<1> QED
  BY <1>2, <1>3, <1>4, OnlyCommitsStore

LEMMA WorkStep == ParserInv /\ [Next]_vars => WorkOfOneParser'
<1> SUFFICES ASSUME ParserInv, [Next]_vars PROVE WorkOfOneParser'
  OBVIOUS
<1>1. version \in Versions /\ (pc \notin {"idle", "visit"} => work.src \in Sources)
  BY DEF ParserInv, TypeOK, RefreshOK, Points
<1>2. ASSUME pc' \in {"idle", "visit", "parse", "checkpoint"}
      PROVE  WorkOfOneParser'
  BY <1>2 DEF WorkOfOneParser
<1>3. ASSUME UNCHANGED <<pc, work, seen, version>>
      PROVE  WorkOfOneParser'
  BY <1>3 DEF ParserInv, WorkOfOneParser
<1>4. CASE Environment
  BY <1>3, <1>4 DEF Environment, AppendRecord, FlushRecord, RewriteRecords, Change, LoseAccess,
                    RegainAccess, tables, refresh
<1>5. ASSUME NEW s \in Sources, StartTail(s)
      PROVE  WorkOfOneParser'
  <2>1. pc' = "tail" /\ work'.src = s
    BY <1>5 DEF StartTail, Enter, Reading, NoWork
  <2>2. seen'[s].by = version'
    BY <1>5 DEF StartTail, TailCandidate, Enter, tables
  <2> QED
    BY <2>1, <2>2 DEF WorkOfOneParser
<1>6. CASE TailRead
  <2> DEFINE s == work.src
             f == file[s]
             r == Render(f, ckpt[s].off, Complete(f))
  <2>1. \A i \in DOMAIN r : r[i].by = version
    BY DEF Render
  <2>2. pc' = "append" /\ work'.rows = r /\ work'.src = s /\ seen' = seen /\ version' = version
    BY <1>6 DEF TailRead, tables
  <2>3. seen[s].by = version
    BY <1>6 DEF TailRead, ParserInv, WorkOfOneParser
  <2> HIDE DEF r, s
  <2> QED
    BY <2>1, <2>2, <2>3 DEF WorkOfOneParser
<1>7. CASE FullRead
  <2> DEFINE f == file[work.src]
             r == Render(f, 0, Parseable(f))
  <2>1. \A i \in DOMAIN r : r[i].by = version
    BY DEF Render
  <2>2. pc' = "store" /\ work'.rows = r /\ version' = version
    BY <1>7 DEF FullRead, Reading, NoWork
  <2> HIDE DEF r
  <2> QED
    BY <2>1, <2>2 DEF WorkOfOneParser
<1>8. CASE StubAfterFailure
  <2>1. pc' = "store" /\ work'.rows = << >>
    BY <1>8 DEF StubAfterFailure, Reading, NoWork
  <2> QED
    BY <2>1 DEF WorkOfOneParser
<1>9. ASSUME NEW s \in Sources, Skip(s) \/ StartFullParse(s) \/ FingerprintError(s)
      PROVE  WorkOfOneParser'
  BY <1>2, <1>9 DEF Skip, StartFullParse, FingerprintError, Enter, Return
<1>10. CASE TailNothingNew \/ TailRefused \/ AppendTail \/ KeepAfterFailure \/ StoreParsed
              \/ SetCheckpoint \/ CheckpointError
  BY <1>2, <1>10 DEF TailNothingNew, TailRefused, AppendTail, KeepAfterFailure, StoreParsed,
                     SetCheckpoint, CheckpointError, Leave, Return
<1>11. CASE SwitchBuild \/ Discover \/ Finish \/ Abort
  BY <1>2, <1>11 DEF SwitchBuild, Discover, Finish, Abort, Return
<1>12. CASE UNCHANGED vars
  BY <1>3, <1>12 DEF vars
<1> QED
  BY <1>4, <1>5, <1>6, <1>7, <1>8, <1>9, <1>10, <1>11, <1>12 DEF Next, Refresh, Visit, Handle

LEMMA ParserInvInit == Init => ParserInv
<1> SUFFICES ASSUME Init PROVE ParserInv
  OBVIOUS
<1>1. RowsOfOneParser /\ WorkOfOneParser
  BY DEF Init, RowsOfOneParser, WorkOfOneParser
<1> QED
  BY <1>1, InitType DEF ParserInv

LEMMA ParserInvStep == ParserInv /\ [Next]_vars => ParserInv'
BY StepType, RowsStep, WorkStep DEF ParserInv

\* Whatever builds run, and wherever a refresh is cut off, the stored rows of a session are all
\* the work of the parser version its files_seen row names: a tail append never extends an older
\* parser's prefix.
THEOREM OneParserPerSession == Spec => []RowsOfOneParser
<1>1. Spec => []ParserInv
  BY ParserInvInit, ParserInvStep, PTL DEF Spec
<1>2. ParserInv => RowsOfOneParser
  BY DEF ParserInv
<1> QED
  BY <1>1, <1>2, PTL

\* Rewritten, pruned, removed or unreadable transcripts never cost the archive a stored row: a
\* step that drops one records another parser version.
THEOREM NothingLeavesTheArchive == Spec => ArchiveKept
<1> DEFINE Kept == \A s \in Sources :
                     seen'[s].by = seen[s].by => Keys(rows[s]) \subseteq Keys(rows'[s])
<1>1. TypeOK /\ [Next]_vars => Kept
  <2> SUFFICES ASSUME TypeOK, [Next]_vars PROVE Kept
    OBVIOUS
  <2>1. CASE AppendTail
    BY <2>1, AppendTailEffect
  <2>2. CASE StoreParsed
    BY <2>2, StoreParsedEffect
  <2>3. CASE UNCHANGED <<rows, seen>>
    BY <2>3
  <2> QED
    BY <2>1, <2>2, <2>3, OnlyCommitsStore
<1> QED
  BY <1>1, TypeCorrect, PTL DEF Spec, ArchiveKept
-----------------------------------------------------------------------------
(* No row twice *)

\* What must not come between a commit and the checkpoint statement that follows it: a cut, or,
\* where transcripts can become inaccessible at all, the loss of a source that has a checkpoint.
\* Everything else may happen anywhere.
CheckpointsFollow ==
  /\ "checkpoint" \notin AbortPoints
  /\ Faults = {} \/ DisturbPoints \cap {"store", "checkpoint"} = {}

\* The records a sequence of rows was rendered from.
Recs(q) == {row.rec : row \in Keys(q)}

\* A transcript never holds a record twice, and whatever it holds or the index stores has its
\* number: the next record written is new to both.
Numbered ==
  \A s \in Sources :
    /\ Distinct(file[s].recs)
    /\ Keys(file[s].recs) \subseteq 1..written[s]
StoredNumbered == \A s \in Sources : Recs(rows[s]) \subseteq 1..written[s]

\* A source has its files_seen row before it has a checkpoint.
IndexedFirst ==
  /\ \A s \in Sources : ~Indexed(s) => ckpt[s].off = 0
  /\ pc = "checkpoint" => Indexed(work.src)

Pending(s) == pc = "checkpoint" /\ work.src = s

\* What lies past a checkpoint is not stored yet, unless the checkpoint is about to be replaced.
\* A rewrite keeps this, whatever it does to the head: it only moves records to the left.
PastIsNew ==
  \A s \in Sources :
    ckpt[s].off > 0 /\ ~Pending(s) =>
      \A i \in DOMAIN file[s].recs : file[s].recs[i] \in Recs(rows[s]) => i <= ckpt[s].off

\* The rows about to be stored repeat nothing; those about to be appended are new, and so is
\* what lies past the offset that will be recorded with them.  A source that was lost before its
\* checkpoint could be replaced has none.
WorkIsNew ==
  /\ pc = "tail" => ckpt[work.src].off > 0
  /\ pc \in {"append", "store"} =>
       Distinct(work.rows) /\ Recs(work.rows) \subseteq 1..written[work.src]
  /\ pc = "append" =>
       /\ Recs(work.rows) \cap Recs(rows[work.src]) = {}
       /\ \A i \in DOMAIN file[work.src].recs :
            file[work.src].recs[i] \in Recs(rows[work.src]) \cup Recs(work.rows) => i <= work.off
  /\ pc \in {"store", "checkpoint"} /\ file[work.src].status # "ok" => ckpt[work.src].off = 0

RowsInv ==
  TypeOK /\ NoDuplicateRows /\ Numbered /\ StoredNumbered /\ IndexedFirst /\ PastIsNew /\ WorkIsNew

LEMMA RecsOfUnion ==
  ASSUME NEW q, NEW r, NEW t, Keys(q) \subseteq Keys(r) \cup Keys(t)
  PROVE  Recs(q) \subseteq Recs(r) \cup Recs(t)
BY DEF Recs

\* One transcript before and after a write to it, of which n and m records had been written:
\* old records may go and move to the left, and a record not there before has a new number.
Moved(old, new, n, m) ==
  /\ n <= m
  /\ Distinct(new)
  /\ Keys(new) \subseteq 1..m
  /\ \A i \in DOMAIN new : new[i] <= n => \E j \in DOMAIN old : i <= j /\ new[i] = old[j]

LEMMA KeepMoves ==
  ASSUME NEW old \in Seq(Nat), NEW n \in Nat, Distinct(old), Keys(old) \subseteq 1..n,
         NEW P \in SUBSET DOMAIN old
  PROVE  Moved(old, old, n, n) /\ Moved(old, Pick(old, P), n, n)
<1> DEFINE new == Pick(old, P)
<1>1. DOMAIN old \subseteq Nat
  OBVIOUS
<1>2. Moved(old, old, n, n)
  BY <1>1 DEF Moved
<1>3. \A i \in DOMAIN new : \E j \in P : i <= j /\ new[i] = old[j]
  BY PickMovesLeft
<1>4. Distinct(new)
  BY PickDistinct
<1> HIDE DEF new
<1>5. Keys(new) \subseteq Keys(old)
  BY <1>3 DEF Keys
<1>6. Moved(old, new, n, n)
  BY <1>3, <1>4, <1>5 DEF Moved
<1> QED
  BY <1>2, <1>6 DEF new

LEMMA AddMoves ==
  ASSUME NEW old, NEW kept \in Seq(Nat), NEW n \in Nat, Moved(old, kept, n, n)
  PROVE  Moved(old, kept \o <<n + 1>>, n, n + 1)
<1> DEFINE new == kept \o <<n + 1>>
           m == Len(kept)
<1>1. <<n + 1>> \in Seq(Nat) /\ Keys(<<n + 1>>) = {n + 1} /\ Distinct(<<n + 1>>)
  BY DEF Keys, Distinct
<1>2. Keys(kept) \subseteq 1..n /\ Distinct(kept)
  BY DEF Moved
<1>3. Distinct(new)
  <2>1. Keys(kept) \cap Keys(<<n + 1>>) = {}
    BY <1>1, <1>2
  <2> QED
    BY <1>1, <1>2, <2>1, ConcatDistinct
<1>4. Keys(new) \subseteq 1..(n + 1)
  <2>1. Keys(new) = Keys(kept) \cup Keys(<<n + 1>>)
    <3>1. <<n + 1>> \in Seq(Nat)
      BY <1>1
    <3> QED
      BY <3>1, ConcatKeys
  <2> HIDE DEF new
  <2> QED
    BY <1>1, <1>2, <2>1
<1>5. m \in Nat /\ DOMAIN kept = 1..m
  OBVIOUS
<1>6. DOMAIN new = 1..(m + 1) /\ \A i \in 1..m : new[i] = kept[i]
  OBVIOUS
<1>7. new[m + 1] = n + 1
  OBVIOUS
<1> HIDE DEF new, m
<1>8. \A i \in DOMAIN new : new[i] <= n => i \in DOMAIN kept /\ new[i] = kept[i]
  BY <1>5, <1>6, <1>7
<1>9. Moved(old, new, n, n + 1)
  BY <1>3, <1>4, <1>8 DEF Moved
<1> QED
  BY <1>9 DEF new

\* Whatever the harnesses do, every transcript moves in this way and nothing of the refresh does.
LEMMA EnvironmentMoves ==
  ASSUME TypeOK, Numbered, Environment
  PROVE  /\ \A t \in Sources : Moved(file[t].recs, file'[t].recs, written[t], written'[t])
         /\ UNCHANGED <<tables, version, pc, full, todo, stat, work>>
<1> PICK s \in Sources :
      \/ \E cut \in 0..2 : AppendRecord(s, cut) \/ FlushRecord(s, cut)
      \/ \E kept \in SUBSET DOMAIN file[s].recs, summary \in BOOLEAN :
           RewriteRecords(s, kept, summary)
      \/ \E status \in Faults : LoseAccess(s, status)
      \/ RegainAccess(s)
  BY DEF Environment
<1> DEFINE old == file[s].recs
           n == written[s]
<1>1. UNCHANGED <<tables, version, pc, full, todo, stat, work>>
  BY DEF AppendRecord, FlushRecord, RewriteRecords, Change, LoseAccess, RegainAccess, tables,
         refresh
<1>2. \A t \in Sources :
        /\ file[t].recs \in Seq(Nat) /\ written[t] \in Nat
        /\ Moved(file[t].recs, file[t].recs, written[t], written[t])
  <2> SUFFICES ASSUME NEW t \in Sources
               PROVE  /\ file[t].recs \in Seq(Nat) /\ written[t] \in Nat
                      /\ Moved(file[t].recs, file[t].recs, written[t], written[t])
    OBVIOUS
  <2>1. file[t].recs \in Seq(Nat) /\ written[t] \in Nat
    BY DEF TypeOK, WorldOK
  <2>2. Distinct(file[t].recs) /\ Keys(file[t].recs) \subseteq 1..written[t]
    BY DEF Numbered
  <2> QED
    BY <2>1, <2>2, KeepMoves
<1>3. old \in Seq(Nat) /\ n \in Nat /\ Distinct(old) /\ Keys(old) \subseteq 1..n
  BY <1>2 DEF Numbered
<1>4. file \in [Sources -> File] /\ written \in [Sources -> Nat]
  BY DEF TypeOK, WorldOK, File
<1>5. ASSUME NEW recs, NEW m,
             Moved(old, recs, n, m), file'[s].recs = recs, written'[s] = m,
             \A t \in Sources \ {s} : file'[t] = file[t] /\ written'[t] = written[t]
      PROVE  \A t \in Sources : Moved(file[t].recs, file'[t].recs, written[t], written'[t])
  BY <1>2, <1>5
<1>6. ASSUME NEW recs, NEW cut, NEW m, Change(s, recs, cut), Moved(old, recs, n, m),
             written' = [written EXCEPT ![s] = m]
      PROVE  \A t \in Sources : Moved(file[t].recs, file'[t].recs, written[t], written'[t])
  <2>1. file'[s].recs = recs /\ \A t \in Sources \ {s} : file'[t] = file[t]
    BY <1>4, <1>6 DEF Change
  <2>2. written'[s] = m /\ \A t \in Sources \ {s} : written'[t] = written[t]
    BY <1>4, <1>6
  <2> QED
    BY <1>5, <1>6, <2>1, <2>2
<1>7. ASSUME NEW cut \in 0..2, AppendRecord(s, cut)
      PROVE  \A t \in Sources : Moved(file[t].recs, file'[t].recs, written[t], written'[t])
  <2>1. Append(old, n + 1) = old \o <<n + 1>>
    <3> HIDE DEF old, n
    <3> QED
      BY <1>3, AppendIsConcat
  <2>2. Moved(old, Append(old, n + 1), n, n + 1)
    BY <1>2, <1>3, <2>1, AddMoves
  <2>3. Change(s, Append(old, n + 1), cut) /\ written' = [written EXCEPT ![s] = n + 1]
    BY <1>7 DEF AppendRecord
  <2> QED
    BY <1>6, <2>2, <2>3
<1>8. ASSUME NEW cut \in 0..2, FlushRecord(s, cut)
      PROVE  \A t \in Sources : Moved(file[t].recs, file'[t].recs, written[t], written'[t])
  <2>1. Change(s, old, cut) /\ written' = [written EXCEPT ![s] = n]
    BY <1>4, <1>8 DEF FlushRecord
  <2> QED
    BY <1>2, <1>6, <2>1
<1>9. ASSUME NEW kept \in SUBSET DOMAIN file[s].recs, NEW summary \in BOOLEAN,
             RewriteRecords(s, kept, summary)
      PROVE  \A t \in Sources : Moved(file[t].recs, file'[t].recs, written[t], written'[t])
  <2> DEFINE left == Pick(old, kept)
  <2>1. left \in Seq(Nat) /\ Moved(old, left, n, n)
    BY <1>3, KeepMoves, PickProperties
  <2>2. /\ Change(s, left \o (IF summary THEN <<n + 1>> ELSE << >>), 0)
        /\ written' = [written EXCEPT ![s] = IF summary THEN n + 1 ELSE n]
    BY <1>9 DEF RewriteRecords
  <2> HIDE DEF left
  <2>3. CASE summary
    <3>1. Moved(old, left \o <<n + 1>>, n, n + 1)
      BY <1>3, <2>1, AddMoves
    <3> QED
      BY <1>6, <2>2, <2>3, <3>1
  <2>4. CASE ~summary
    <3>1. left \o << >> = left
      BY <2>1
    <3> QED
      BY <1>6, <2>1, <2>2, <2>4, <3>1
  <2> QED
    BY <2>3, <2>4
<1>10. ASSUME (\E status \in Faults : LoseAccess(s, status)) \/ RegainAccess(s)
       PROVE  \A t \in Sources : Moved(file[t].recs, file'[t].recs, written[t], written'[t])
  <2>1. written' = written /\ \A t \in Sources : file'[t].recs = file[t].recs
    <3>1. PICK status : file' = [file EXCEPT ![s].status = status] /\ written' = written
      BY <1>10 DEF LoseAccess, RegainAccess
    <3>2. file'[s].recs = file[s].recs
      <4>1. file'[s] = [file[s] EXCEPT !.status = status]
        BY <1>4, <3>1
      <4>2. file[s] \in File
        BY <1>4
      <4> QED
        BY <4>1, <4>2 DEF File
    <3>3. \A t \in Sources \ {s} : file'[t] = file[t]
      BY <1>4, <3>1
    <3> QED
      BY <3>1, <3>2, <3>3
  <2>2. ASSUME NEW t \in Sources
        PROVE  Moved(file[t].recs, file'[t].recs, written[t], written'[t])
    <3>1. file'[t].recs = file[t].recs /\ written'[t] = written[t]
      BY <2>1
    <3>2. Moved(file[t].recs, file[t].recs, written[t], written[t])
      BY <1>2
    <3> QED
      BY <3>1, <3>2
  <2> QED
    BY <2>2
<1> QED
  BY <1>1, <1>7, <1>8, <1>9, <1>10

\* The steps that matter here; no other step touches the world or the tables, and with no cut at
\* that point none of them leaves "checkpoint".
LEMMA StepKinds ==
  ASSUME "checkpoint" \notin AbortPoints, [Next]_vars
  PROVE  \/ Environment
         \/ AppendTail \/ StoreParsed \/ SetCheckpoint \/ CheckpointError
         \/ UNCHANGED vars
         \/ UNCHANGED <<world, tables>> /\ pc # "checkpoint" /\ pc' # "checkpoint"
BY DEF Next, SwitchBuild, Refresh, Discover, Visit, Skip, StartFullParse, StartTail,
       FingerprintError, Handle, TailRead, TailNothingNew, TailRefused, FullRead,
       KeepAfterFailure, StubAfterFailure, Finish, Abort, Leave, Enter, Return

\* What a transcript moves, said of the records at hand.
LEMMA MovedPast ==
  ASSUME NEW old \in Seq(Nat), NEW new, NEW n \in Nat, NEW m, Moved(old, new, n, m),
         NEW Known \in SUBSET (1..n), NEW off \in Nat,
         \A i \in DOMAIN old : old[i] \in Known => i <= off,
         NEW k \in DOMAIN new, new[k] \in Known, DOMAIN new \subseteq Nat
  PROVE  k <= off
<1>1. PICK j \in DOMAIN old : k <= j /\ new[k] = old[j]
  <2>1. new[k] \in 1..n
    OBVIOUS
  <2>2. new[k] <= n
    BY <2>1
  <2> QED
    BY <2>2 DEF Moved
<1>2. j <= off /\ j \in Nat /\ k \in Nat
  BY <1>1
<1> QED
  BY <1>1, <1>2

\* What is used of the types.
LEMMA SourceTypes ==
  ASSUME TypeOK, NEW s \in Sources
  PROVE  /\ file[s] \in File /\ file[s].recs \in Seq(Nat) /\ Len(file[s].recs) \in Nat
         /\ DOMAIN file[s].recs = 1..Len(file[s].recs)
         /\ written[s] \in Nat /\ ckpt[s].off \in Nat
         /\ rows[s] \in Seq(RowSet)
<1>1. file[s] \in File /\ written[s] \in Nat /\ ckpt[s].off \in Nat /\ rows[s] \in Seq(RowSet)
  BY DEF TypeOK, WorldOK, TablesOK, File
<1>2. file[s].recs \in Seq(Nat)
  BY <1>1 DEF File
<1> QED
  BY <1>1, <1>2

LEMMA WorkTypes ==
  ASSUME TypeOK, pc \notin {"idle", "visit"}
  PROVE  /\ work.src \in Sources /\ work.rows \in Seq(RowSet) /\ work.off \in Nat
BY DEF TypeOK, RefreshOK, WorkSet

\* Both commits store nothing but the rows there and the work's.
LEMMA CommitRecs ==
  ASSUME TypeOK, AppendTail \/ StoreParsed
  PROVE  /\ pc \in {"append", "store"} /\ work.src \in Sources
         /\ Recs(rows'[work.src]) \subseteq Recs(rows[work.src]) \cup Recs(work.rows)
         /\ seen'[work.src].by = version
         /\ \A t \in Sources \ {work.src} : rows'[t] = rows[t] /\ seen'[t] = seen[t]
<1>1. Keys(rows'[work.src]) \subseteq Keys(rows[work.src]) \cup Keys(work.rows)
  BY AppendTailEffect, StoreParsedEffect
<1>2. Recs(rows'[work.src]) \subseteq Recs(rows[work.src]) \cup Recs(work.rows)
  BY <1>1, RecsOfUnion
<1> QED
  BY <1>2, AppendTailEffect, StoreParsedEffect DEF AppendTail, StoreParsed

LEMMA DuplicateStep == RowsInv /\ [Next]_vars => NoDuplicateRows'
<1> SUFFICES ASSUME RowsInv, [Next]_vars, NEW s \in Sources
             PROVE  Distinct(rows'[s])
  BY DEF NoDuplicateRows, Distinct
<1>1. TypeOK /\ Distinct(rows[s]) /\ WorkIsNew
  BY DEF RowsInv, NoDuplicateRows, Distinct
<1>2. rows[s] \in Seq(RowSet)
  BY <1>1, SourceTypes
<1>3. CASE AppendTail /\ s = work.src
  <2>1. rows'[s] = rows[s] \o work.rows /\ pc = "append"
    BY <1>1, <1>3 DEF AppendTail, TypeOK, TablesOK
  <2>2. work.rows \in Seq(RowSet)
    BY <1>1, <2>1, WorkTypes
  <2>3. Distinct(work.rows) /\ Recs(work.rows) \cap Recs(rows[s]) = {}
    BY <1>1, <1>3, <2>1 DEF WorkIsNew
  <2>4. Keys(rows[s]) \cap Keys(work.rows) = {}
    BY <2>3 DEF Recs
  <2> QED
    BY <1>1, <1>2, <2>1, <2>2, <2>3, <2>4, ConcatDistinct
<1>4. CASE StoreParsed /\ s = work.src
  <2> DEFINE same == seen[s].by = version
  <2>1. rows'[s] = Stored(rows[s], work.rows, same) /\ pc = "store"
    BY <1>1, <1>4 DEF StoreParsed, TypeOK, TablesOK
  <2>2. work.rows \in Seq(RowSet) /\ Distinct(work.rows)
    BY <1>1, <2>1, WorkTypes DEF WorkIsNew
  <2>3. same \in BOOLEAN
    OBVIOUS
  <2> HIDE DEF same
  <2> QED
    BY <1>1, <1>2, <2>1, <2>2, <2>3, StoredDistinct
<1>5. CASE rows'[s] = rows[s]
  BY <1>1, <1>5
<1> QED
  BY <1>1, <1>3, <1>4, <1>5, OnlyCommitsStore, CommitRecs

\* Only the harnesses and the file system change a transcript.
LEMMA OnlyEnvironmentWrites ==
  ASSUME [Next]_vars
  PROVE  Environment \/ UNCHANGED world
BY DEF Next, vars, world, SwitchBuild, Refresh, Discover, Visit, Skip, StartFullParse,
       StartTail, FingerprintError, Handle, TailRead, TailNothingNew, TailRefused, AppendTail,
       FullRead, KeepAfterFailure, StubAfterFailure, StoreParsed, SetCheckpoint,
       CheckpointError, Finish, Abort

LEMMA NumberedStep == TypeOK /\ Numbered /\ [Next]_vars => Numbered'
<1> SUFFICES ASSUME TypeOK, Numbered, [Next]_vars, NEW s \in Sources
             PROVE  Distinct(file'[s].recs) /\ Keys(file'[s].recs) \subseteq 1..written'[s]
  BY DEF Numbered
<1>1. CASE Environment
  BY <1>1, EnvironmentMoves DEF Moved
<1>2. CASE UNCHANGED world
  BY <1>2 DEF world, Numbered
<1> QED
  BY <1>1, <1>2, OnlyEnvironmentWrites

LEMMA StoredNumberedStep == RowsInv /\ [Next]_vars => StoredNumbered'
<1> SUFFICES ASSUME RowsInv, [Next]_vars, NEW s \in Sources
             PROVE  Recs(rows'[s]) \subseteq 1..written'[s]
  BY DEF StoredNumbered
<1>1. TypeOK /\ Numbered /\ WorkIsNew
  BY DEF RowsInv
<1>2. Recs(rows[s]) \subseteq 1..written[s] /\ written[s] \in Nat /\ written'[s] \in Nat
  BY <1>1, SourceTypes, StepType DEF RowsInv, StoredNumbered, TypeOK, WorldOK
<1>3. CASE Environment
  <2>1. Moved(file[s].recs, file'[s].recs, written[s], written'[s]) /\ rows' = rows
    BY <1>1, <1>3, EnvironmentMoves DEF tables
  <2>2. 1..written[s] \subseteq 1..written'[s]
    BY <1>2, <2>1 DEF Moved
  <2> QED
    BY <1>2, <2>1, <2>2
<1>4. CASE AppendTail \/ StoreParsed
  <2>1. UNCHANGED world
    BY <1>4 DEF AppendTail, StoreParsed, world
  <2>2. Recs(work.rows) \subseteq 1..written[work.src]
    BY <1>1, <1>4, CommitRecs DEF WorkIsNew
  <2>3. Recs(rows'[s]) \subseteq 1..written[s]
    BY <1>1, <1>2, <1>4, <2>2, CommitRecs
  <2> QED
    BY <2>1, <2>3 DEF world
<1>5. CASE UNCHANGED <<world, rows>>
  BY <1>2, <1>5 DEF world
<1> QED
  BY <1>3, <1>4, <1>5, OnlyEnvironmentWrites, OnlyCommitsStore

LEMMA IndexedStep == TypeOK /\ IndexedFirst /\ [Next]_vars => IndexedFirst'
<1> SUFFICES ASSUME TypeOK, IndexedFirst, [Next]_vars PROVE IndexedFirst'
  OBVIOUS
<1>1. version # 0
  BY ReindexAssumption DEF ReindexAssumption, TypeOK, RefreshOK
<1>2. ckpt \in [Sources -> [off : Nat, fp : Prints]]
  BY DEF TypeOK, TablesOK
<1>3. CASE AppendTail
  <2>1. /\ pc' = "visit"
        /\ \A s \in Sources \ {work.src} : ckpt'[s] = ckpt[s]
    BY <1>2, <1>3 DEF AppendTail, Leave
  <2> QED
    BY <1>1, <1>3, <2>1, CommitRecs DEF IndexedFirst, Indexed
<1>4. CASE StoreParsed
  <2>1. ckpt' = ckpt /\ work' = work
    BY <1>4 DEF StoreParsed
  <2> QED
    BY <1>1, <1>4, <2>1, CommitRecs DEF IndexedFirst, Indexed
<1>5. CASE SetCheckpoint
  <2>1. /\ pc = "checkpoint" /\ pc' = "visit" /\ seen' = seen
        /\ \A s \in Sources \ {work.src} : ckpt'[s] = ckpt[s]
    BY <1>2, <1>5 DEF SetCheckpoint, Leave
  <2> QED
    BY <2>1 DEF IndexedFirst, Indexed
<1>6. CASE Environment
  BY <1>6 DEF Environment, AppendRecord, FlushRecord, RewriteRecords, Change, LoseAccess,
              RegainAccess, tables, refresh, IndexedFirst, Indexed
<1>7. CASE UNCHANGED vars
  BY <1>7 DEF vars, IndexedFirst, Indexed
<1>8. CASE UNCHANGED tables /\ pc' # "checkpoint"
  BY <1>8 DEF tables, IndexedFirst, Indexed
<1>9. \/ Environment \/ AppendTail \/ StoreParsed \/ SetCheckpoint \/ UNCHANGED vars
      \/ UNCHANGED tables /\ pc' # "checkpoint"
  BY DEF Next, SwitchBuild, Refresh, Discover, Visit, Skip, StartFullParse, StartTail,
         FingerprintError, Handle, TailRead, TailNothingNew, TailRefused, FullRead,
         KeepAfterFailure, StubAfterFailure, CheckpointError, Finish, Abort, Leave, Enter,
         Return
<1> QED
  BY <1>3, <1>4, <1>5, <1>6, <1>7, <1>8, <1>9

LEMMA PastStep ==
  ASSUME CheckpointsFollow, RowsInv, [Next]_vars
  PROVE  PastIsNew'
<1> SUFFICES ASSUME NEW s \in Sources
             PROVE  ckpt'[s].off > 0 /\ ~(pc' = "checkpoint" /\ work'.src = s) =>
                      \A i \in DOMAIN file'[s].recs :
                        file'[s].recs[i] \in Recs(rows'[s]) => i <= ckpt'[s].off
  BY DEF PastIsNew, Pending
<1>1. TypeOK /\ TypeOK' /\ Numbered /\ StoredNumbered /\ PastIsNew /\ WorkIsNew
  BY StepType DEF RowsInv
<1>2. ckpt[s].off > 0 /\ ~Pending(s) =>
        \A i \in DOMAIN file[s].recs : file[s].recs[i] \in Recs(rows[s]) => i <= ckpt[s].off
  BY <1>1 DEF PastIsNew
<1>3. /\ file[s].recs \in Seq(Nat) /\ ckpt[s].off \in Nat /\ written[s] \in Nat
      /\ Recs(rows[s]) \in SUBSET (1..written[s])
  BY <1>1, SourceTypes DEF StoredNumbered
<1>4. CASE Environment
  <2>1. /\ Moved(file[s].recs, file'[s].recs, written[s], written'[s])
        /\ UNCHANGED <<seen, ckpt, rows, pc, work>>
    BY <1>1, <1>4, EnvironmentMoves DEF tables
  <2>2. DOMAIN file'[s].recs \subseteq Nat
    <3>1. file'[s].recs \in Seq(Nat)
      BY <1>1 DEF TypeOK, WorldOK
    <3> QED
      BY <3>1
  <2>3. ASSUME ckpt[s].off > 0, ~Pending(s), NEW k \in DOMAIN file'[s].recs,
               file'[s].recs[k] \in Recs(rows[s])
        PROVE  k <= ckpt[s].off
    BY <1>2, <1>3, <2>1, <2>2, <2>3, MovedPast
  <2> QED
    BY <1>2, <2>1, <2>3 DEF Pending
<1>5. CASE AppendTail
  <2>1. /\ pc = "append" /\ pc' = "visit" /\ file' = file
        /\ ckpt' = [ckpt EXCEPT ![work.src] = [off |-> work.off, fp |-> work.fp]]
    BY <1>5 DEF AppendTail, Leave, world
  <2>2. CASE s = work.src
    <3>1. ckpt'[s].off = work.off
      BY <1>1, <2>1, <2>2 DEF TypeOK, TablesOK
    <3>2. /\ \A i \in DOMAIN file[s].recs :
               file[s].recs[i] \in Recs(rows[s]) \cup Recs(work.rows) => i <= work.off
      BY <1>1, <2>1, <2>2 DEF WorkIsNew
    <3>3. Recs(rows'[s]) \subseteq Recs(rows[s]) \cup Recs(work.rows)
      BY <1>1, <1>5, <2>2, CommitRecs
    <3> QED
      BY <2>1, <3>1, <3>2, <3>3
  <2>3. CASE s # work.src
    <3>1. ckpt'[s] = ckpt[s]
      BY <1>1, <2>1, <2>3 DEF TypeOK, TablesOK
    <3>2. rows'[s] = rows[s]
      BY <1>1, <1>5, <2>3, CommitRecs
    <3> QED
      BY <1>2, <2>1, <3>1, <3>2 DEF Pending
  <2> QED
    BY <2>2, <2>3
<1>6. CASE StoreParsed
  <2>1. pc = "store" /\ pc' = "checkpoint" /\ work' = work /\ file' = file /\ ckpt' = ckpt
    BY <1>6 DEF StoreParsed, world
  <2>2. CASE s = work.src
    BY <2>1, <2>2
  <2>3. CASE s # work.src
    BY <1>1, <1>2, <1>6, <2>1, <2>3, CommitRecs DEF Pending
  <2> QED
    BY <2>2, <2>3
<1>7. CASE SetCheckpoint
  <2>1. /\ pc = "checkpoint" /\ pc' = "visit" /\ UNCHANGED <<file, rows>>
        /\ ckpt' = [ckpt EXCEPT ![work.src] = FullCheckpoint(work.src)]
    BY <1>7 DEF SetCheckpoint, Leave, world
  <2>2. CASE s = work.src
    <3>1. ckpt'[s].off \in {0, Complete(file[s])} /\ (ckpt'[s].off > 0 => file[s].cut = 0)
      BY <1>1, <2>1, <2>2 DEF TypeOK, TablesOK, FullCheckpoint
    <3>2. ckpt'[s].off > 0 => ckpt'[s].off = Len(file[s].recs)
      BY <3>1 DEF Complete
    <3> QED
      BY <1>3, <2>1, <3>2
  <2>3. CASE s # work.src
    BY <1>1, <1>2, <2>1, <2>3 DEF TypeOK, TablesOK, Pending
  <2> QED
    BY <2>2, <2>3
<1>8. CASE CheckpointError
  <2>1. pc = "checkpoint" /\ UNCHANGED <<file, ckpt, rows>>
    BY <1>8 DEF CheckpointError, world, tables
  <2>2. ckpt[work.src].off = 0
    BY <1>1, <1>8 DEF CheckpointError, WorkIsNew
  <2> QED
    BY <1>2, <2>1, <2>2 DEF Pending
<1>9. CASE UNCHANGED vars
  BY <1>2, <1>9 DEF vars, Pending
<1>10. CASE UNCHANGED <<world, tables>> /\ pc # "checkpoint" /\ pc' # "checkpoint"
  BY <1>2, <1>10 DEF world, tables, Pending
<1> QED
  BY <1>4, <1>5, <1>6, <1>7, <1>8, <1>9, <1>10, StepKinds DEF CheckpointsFollow

\* A tail slice holds the records past the checkpoint, in order and once each.
LEMMA SliceProperties ==
  ASSUME NEW f \in File, Distinct(f.recs), NEW first \in Nat, NEW last \in Int,
         last <= Len(f.recs)
  PROVE  LET r == Render(f, first, last)
         IN /\ Distinct(r)
            /\ \A rec \in Recs(r) : \E j \in DOMAIN f.recs :
                 first < j /\ j <= last /\ rec = f.recs[j]
<1> DEFINE r == Render(f, first, last)
<1>1. f.recs \in Seq(Nat) /\ Len(f.recs) \in Nat /\ DOMAIN f.recs = 1..Len(f.recs)
  <2>1. f.recs \in Seq(Nat)
    BY DEF File
  <2> QED
    BY <2>1
<1>2. /\ DOMAIN r = 1..(last - first)
      /\ \A i \in DOMAIN r : r[i].rec = f.recs[first + i]
  BY DEF Render
<1>3. \A i \in DOMAIN r : first + i \in DOMAIN f.recs /\ first < first + i /\ first + i <= last
  BY <1>1, <1>2
<1> HIDE DEF r
<1>4. ASSUME NEW i \in DOMAIN r, NEW j \in DOMAIN r, r[i] = r[j]
      PROVE  i = j
  <2>1. f.recs[first + i] = f.recs[first + j]
    BY <1>2, <1>4
  <2>2. first + i = first + j
    BY <1>3, <2>1 DEF Distinct
  <2> QED
    BY <1>2, <2>2
<1>5. \A rec \in Recs(r) : \E i \in DOMAIN r : rec = f.recs[first + i]
  BY <1>2 DEF Recs, Keys
<1>6. \A rec \in Recs(r) : \E j \in DOMAIN f.recs : first < j /\ j <= last /\ rec = f.recs[j]
  BY <1>3, <1>5
<1> QED
  BY <1>4, <1>6 DEF Distinct, r

\* No source with a checkpoint is lost between a commit and the checkpoint statement.
LEMMA StatusKept ==
  ASSUME CheckpointsFollow, TypeOK, Environment, pc \in {"store", "checkpoint"},
         NEW s \in Sources, file[s].status = "ok", file'[s].status # "ok"
  PROVE  ckpt[s].off = 0
<1> PICK t \in Sources :
      \/ \E cut \in 0..2 : AppendRecord(t, cut) \/ FlushRecord(t, cut)
      \/ \E kept \in SUBSET DOMAIN file[t].recs, summary \in BOOLEAN :
           RewriteRecords(t, kept, summary)
      \/ \E status \in Faults : LoseAccess(t, status)
      \/ RegainAccess(t)
  BY DEF Environment
<1>1. file \in [Sources -> File] /\ file[t] \in File
  BY DEF TypeOK, WorldOK, File
<1>2. ASSUME NEW recs, NEW cut, Change(t, recs, cut)
      PROVE  file'[s].status = file[s].status
  BY <1>1, <1>2 DEF Change
<1>3. ASSUME RegainAccess(t)
      PROVE  file'[s].status = "ok"
  <2>1. file' = [file EXCEPT ![t].status = "ok"]
    BY <1>3 DEF RegainAccess
  <2>2. file'[t] = [file[t] EXCEPT !.status = "ok"] /\ (s # t => file'[s] = file[s])
    BY <1>1, <2>1
  <2>3. file'[t].status = "ok"
    BY <1>1, <2>2 DEF File
  <2> QED
    BY <2>2, <2>3
<1>4. PICK status \in Faults : LoseAccess(t, status)
  <2>1. \A cut \in 0..2 : ~(AppendRecord(t, cut) \/ FlushRecord(t, cut))
    BY <1>2 DEF AppendRecord, FlushRecord
  <2>2. \A kept \in SUBSET DOMAIN file[t].recs, summary \in BOOLEAN :
          ~RewriteRecords(t, kept, summary)
    BY <1>2 DEF RewriteRecords
  <2> QED
    BY <1>3, <2>1, <2>2
<1>5. pc \notin DisturbPoints
  BY <1>4 DEF CheckpointsFollow
<1>6. ckpt[t].off = 0
  BY <1>4, <1>5 DEF LoseAccess
<1>7. s = t
  BY <1>1, <1>4 DEF LoseAccess
<1> QED
  BY <1>6, <1>7

LEMMA NewWorkStep ==
  ASSUME CheckpointsFollow, RowsInv, [Next]_vars
  PROVE  WorkIsNew'
<1>1. /\ TypeOK /\ TypeOK' /\ Numbered /\ StoredNumbered
      /\ IndexedFirst /\ PastIsNew /\ WorkIsNew
  BY StepType DEF RowsInv
<1>2. ASSUME pc' \in {"idle", "visit", "parse"}
      PROVE  WorkIsNew'
  BY <1>2 DEF WorkIsNew
<1>3. CASE Environment
  <2> DEFINE s == work.src
  <2>1. /\ UNCHANGED <<seen, ckpt, rows, pc, work>>
        /\ \A t \in Sources : Moved(file[t].recs, file'[t].recs, written[t], written'[t])
    BY <1>1, <1>3, EnvironmentMoves DEF tables
  <2>2. CASE pc \in {"idle", "visit", "parse"}
    BY <1>2, <2>1, <2>2
  <2>3. CASE pc = "tail"
    BY <1>1, <2>1, <2>3 DEF WorkIsNew
  <2>4. ASSUME pc \in {"append", "store", "checkpoint"}
        PROVE  /\ s \in Sources
               /\ file[s].recs \in Seq(Nat) /\ file'[s].recs \in Seq(Nat)
               /\ written[s] \in Nat /\ written[s] <= written'[s] /\ written'[s] \in Nat
    BY <1>1, <2>1, <2>4, WorkTypes DEF TypeOK, WorldOK, Moved
  <2>5. CASE pc = "append"
    <3>1. /\ Distinct(work.rows) /\ Recs(work.rows) \subseteq 1..written[s]
          /\ Recs(work.rows) \cap Recs(rows[s]) = {}
          /\ \A i \in DOMAIN file[s].recs :
               file[s].recs[i] \in Recs(rows[s]) \cup Recs(work.rows) => i <= work.off
      BY <1>1, <2>5 DEF WorkIsNew
    <3>2. Recs(rows[s]) \cup Recs(work.rows) \in SUBSET (1..written[s])
      BY <1>1, <2>4, <2>5, <3>1 DEF StoredNumbered
    <3>3. work.off \in Nat /\ DOMAIN file'[s].recs \subseteq Nat
      BY <1>1, <2>4, <2>5, WorkTypes
    <3>4. ASSUME NEW k \in DOMAIN file'[s].recs,
                 file'[s].recs[k] \in Recs(rows[s]) \cup Recs(work.rows)
          PROVE  k <= work.off
      <4> DEFINE Known == Recs(rows[s]) \cup Recs(work.rows)
                 old == file[s].recs
                 new == file'[s].recs
                 n == written[s]
                 m == written'[s]
                 off == work.off
      <4>1. /\ old \in Seq(Nat) /\ n \in Nat /\ off \in Nat /\ Known \in SUBSET (1..n)
            /\ DOMAIN new \subseteq Nat /\ k \in DOMAIN new /\ new[k] \in Known
            /\ \A i \in DOMAIN old : old[i] \in Known => i <= off
        BY <2>4, <2>5, <3>1, <3>2, <3>3, <3>4
      <4>2. Moved(old, new, n, m)
        BY <2>1, <2>4, <2>5
      <4> HIDE DEF Known, old, new, n, m, off
      <4>3. k <= off
        BY <4>1, <4>2, MovedPast
      <4> QED
        BY <4>3 DEF off
    <3>5. Recs(work.rows) \subseteq 1..written'[s]
      BY <2>4, <2>5, <3>1
    <3> QED
      BY <2>1, <2>5, <3>1, <3>4, <3>5 DEF WorkIsNew
  <2>6. CASE pc \in {"store", "checkpoint"}
    <3>1. file'[s].status # "ok" => ckpt[s].off = 0
      BY <1>1, <1>3, <2>4, <2>6, StatusKept DEF WorkIsNew
    <3>2. pc = "store" => Distinct(work.rows) /\ Recs(work.rows) \subseteq 1..written'[s]
      <4>1. pc = "store" => Distinct(work.rows) /\ Recs(work.rows) \subseteq 1..written[s]
        BY <1>1 DEF WorkIsNew
      <4> QED
        BY <2>4, <2>6, <4>1
    <3> QED
      BY <2>1, <2>6, <3>1, <3>2 DEF WorkIsNew
  <2> QED
    BY <1>1, <2>2, <2>3, <2>5, <2>6 DEF TypeOK, RefreshOK, Points
<1>4. ASSUME NEW s \in Sources, StartTail(s)
      PROVE  WorkIsNew'
  <2>1. pc' = "tail" /\ work'.src = s /\ ckpt' = ckpt /\ ckpt[s].off > 0
    BY <1>4 DEF StartTail, Enter, Reading, NoWork, TailCandidate, tables
  <2> QED
    BY <2>1 DEF WorkIsNew
<1>5. CASE TailRead
  <2> DEFINE s == work.src
             f == file[s]
             off == ckpt[s].off
             r == Render(f, off, Complete(f))
  <2>1. pc = "tail" /\ off > 0 /\ s \in Sources
    BY <1>1, <1>5, WorkTypes DEF TailRead, WorkIsNew
  <2>2. /\ f \in File /\ off \in Nat /\ Len(f.recs) \in Nat /\ written[s] \in Nat
        /\ DOMAIN f.recs = 1..Len(f.recs)
    BY <1>1, <2>1, SourceTypes
  <2>3. Complete(f) \in Nat /\ Complete(f) <= Len(f.recs) /\ off < Complete(f)
    BY <1>5, <2>2 DEF TailRead, Complete
  <2>4. /\ Distinct(f.recs) /\ Keys(f.recs) \subseteq 1..written[s]
        /\ \A i \in DOMAIN f.recs : f.recs[i] \in Recs(rows[s]) => i <= off
    BY <1>1, <2>1 DEF Numbered, PastIsNew, Pending
  <2>5. /\ Distinct(r)
        /\ \A rec \in Recs(r) : \E j \in DOMAIN f.recs :
             off < j /\ j <= Complete(f) /\ rec = f.recs[j]
    <3> HIDE DEF f, off
    <3> QED
      BY <2>2, <2>3, <2>4, SliceProperties
  <2>6. /\ pc' = "append" /\ work'.src = s /\ work'.rows = r /\ work'.off = Complete(f)
        /\ UNCHANGED <<file, written, rows>>
    BY <1>5 DEF TailRead, world, tables
  <2> HIDE DEF f, off, r
  <2>7. Recs(r) \subseteq 1..written[s]
    BY <2>4, <2>5 DEF Keys
  <2>8. Recs(r) \cap Recs(rows[s]) = {}
    BY <2>2, <2>4, <2>5
  <2>9. \A i \in DOMAIN f.recs : f.recs[i] \in Recs(rows[s]) \cup Recs(r) => i <= Complete(f)
    <3> SUFFICES ASSUME NEW i \in DOMAIN f.recs, f.recs[i] \in Recs(rows[s]) \cup Recs(r)
                 PROVE  i <= Complete(f)
      OBVIOUS
    <3>1. CASE f.recs[i] \in Recs(rows[s])
      BY <2>2, <2>3, <2>4, <3>1
    <3>2. CASE f.recs[i] \in Recs(r)
      <4>1. PICK j \in DOMAIN f.recs : j <= Complete(f) /\ f.recs[i] = f.recs[j]
        BY <2>5, <3>2
      <4>2. i = j
        BY <2>4, <4>1 DEF Distinct
      <4> QED
        BY <4>1, <4>2
    <3> QED
      BY <3>1, <3>2
  <2> QED
    BY <2>5, <2>6, <2>7, <2>8, <2>9 DEF WorkIsNew, f
<1>6. CASE FullRead
  <2> DEFINE s == work.src
             f == file[s]
             r == Render(f, 0, Parseable(f))
  <2>1. s \in Sources /\ f.status = "ok"
    BY <1>1, <1>6, WorkTypes DEF FullRead, ParseFails
  <2>2. /\ f \in File /\ Len(f.recs) \in Nat /\ written[s] \in Nat
        /\ DOMAIN f.recs = 1..Len(f.recs)
    BY <1>1, <2>1, SourceTypes
  <2>3. Distinct(f.recs) /\ Keys(f.recs) \subseteq 1..written[s]
    BY <1>1, <2>1 DEF Numbered
  <2>4. Parseable(f) \in Int /\ Parseable(f) <= Len(f.recs)
    BY <2>2 DEF Parseable
  <2>5. /\ Distinct(r)
        /\ \A rec \in Recs(r) : \E j \in DOMAIN f.recs :
             0 < j /\ j <= Parseable(f) /\ rec = f.recs[j]
    <3> HIDE DEF f
    <3> QED
      BY <2>2, <2>3, <2>4, SliceProperties
  <2>6. /\ pc' = "store" /\ work'.src = s /\ work'.rows = r
        /\ UNCHANGED <<file, written>>
    BY <1>6 DEF FullRead, Reading, NoWork, world
  <2> HIDE DEF f, r
  <2>7. Recs(r) \subseteq 1..written[s]
    BY <2>3, <2>5 DEF Keys
  <2> QED
    BY <2>1, <2>5, <2>6, <2>7 DEF WorkIsNew, f
<1>7. CASE StubAfterFailure
  <2>1. /\ pc' = "store" /\ work'.src = work.src /\ work'.rows = << >> /\ ckpt' = ckpt
        /\ work.src \in Sources /\ ~Indexed(work.src)
    BY <1>1, <1>7, WorkTypes DEF StubAfterFailure, Reading, NoWork, tables
  <2>2. Distinct(<< >>) /\ Recs(<< >>) = {}
    BY DEF Distinct, Recs, Keys
  <2>3. ckpt[work.src].off = 0
    BY <1>1, <2>1 DEF IndexedFirst
  <2> QED
    BY <2>1, <2>2, <2>3 DEF WorkIsNew
<1>8. CASE StoreParsed
  <2>1. /\ pc = "store" /\ pc' = "checkpoint" /\ work' = work /\ file' = file /\ ckpt' = ckpt
    BY <1>8 DEF StoreParsed, world
  <2>2. file[work.src].status # "ok" => ckpt[work.src].off = 0
    BY <1>1, <2>1 DEF WorkIsNew
  <2> QED
    BY <2>1, <2>2 DEF WorkIsNew
<1>9. ASSUME NEW s \in Sources, Skip(s) \/ StartFullParse(s) \/ FingerprintError(s)
      PROVE  WorkIsNew'
  BY <1>2, <1>9 DEF Skip, StartFullParse, FingerprintError, Enter, Return
<1>10. CASE TailNothingNew \/ TailRefused \/ AppendTail \/ KeepAfterFailure
              \/ SetCheckpoint \/ CheckpointError
  BY <1>2, <1>10 DEF TailNothingNew, TailRefused, AppendTail, KeepAfterFailure,
                     SetCheckpoint, CheckpointError, Leave, Return
<1>11. CASE SwitchBuild \/ Discover \/ Finish \/ Abort
  BY <1>2, <1>11 DEF SwitchBuild, Discover, Finish, Abort, Return
<1>12. CASE UNCHANGED vars
  BY <1>1, <1>12 DEF vars, WorkIsNew
<1> QED
  BY <1>3, <1>4, <1>5, <1>6, <1>7, <1>8, <1>9, <1>10, <1>11, <1>12
     DEF Next, Refresh, Visit, Handle

LEMMA RowsInvInit == Init => RowsInv
<1> SUFFICES ASSUME Init PROVE RowsInv
  OBVIOUS
<1>1. Distinct(<< >>) /\ Keys(<< >>) = {} /\ Recs(<< >>) = {}
  BY DEF Distinct, Keys, Recs
<1>2. NoDuplicateRows /\ Numbered /\ StoredNumbered
  BY <1>1 DEF Init, NoDuplicateRows, Numbered, StoredNumbered
<1>3. IndexedFirst /\ PastIsNew /\ WorkIsNew
  BY DEF Init, IndexedFirst, PastIsNew, WorkIsNew, NoCheckpoint
<1> QED
  BY <1>2, <1>3, InitType DEF RowsInv

LEMMA RowsInvStep == CheckpointsFollow /\ RowsInv /\ [Next]_vars => RowsInv'
<1> SUFFICES ASSUME CheckpointsFollow, RowsInv, [Next]_vars PROVE RowsInv'
  OBVIOUS
<1>1. TypeOK'
  BY StepType DEF RowsInv
<1> QED
  BY <1>1, DuplicateStep, NumberedStep, StoredNumberedStep, IndexedStep, PastStep, NewWorkStep
     DEF RowsInv

\* However transcripts grow, shrink, are rewritten under the refresh and come and go, whichever
\* builds run and wherever else a refresh is cut off: no message is stored twice.
THEOREM NothingStoredTwice == Spec /\ CheckpointsFollow => []NoDuplicateRows
<1> SUFFICES ASSUME CheckpointsFollow PROVE Spec => []NoDuplicateRows
  OBVIOUS
<1>1. RowsInv /\ [Next]_vars => RowsInv'
  BY RowsInvStep
<1>2. RowsInv => NoDuplicateRows
  BY DEF RowsInv
<1> QED
  BY <1>1, <1>2, RowsInvInit, PTL DEF Spec
-----------------------------------------------------------------------------
(* No message missed *)

\* When the checks of the refresh see every rewrite: it comes between refreshes and changes the
\* head of the transcript.  And a stub must not be taken for a parsed source: a file that could
\* not be read does not come back between the commit of its stub and the checkpoint statement.
\* Files may grow at any time, and a refresh may be cut off anywhere.
RewritesShow ==
  /\ Rewrites = {} \/ ("samehead" \notin Rewrites /\ DisturbPoints \subseteq {"idle"})
  /\ ReturnPoints \cap {"store", "checkpoint"} = {}

\* The transcript starts with these records.
SameHead(recs, head) ==
  Len(head) <= Len(recs) /\ \A i \in 1..Len(head) : recs[i] = head[i]

\* A head as it is recorded with an offset: of numbered records, and all of a transcript that is
\* no longer than the fingerprint reaches.
HeadOf(off, head, n) ==
  /\ Keys(head) \subseteq 1..n
  /\ Len(head) <= HeadRecords
  /\ Len(head) < HeadRecords => off <= Len(head)

\* A recorded head is the head of the transcript, or part of it is gone for good.
Headed ==
  \A s \in Sources :
    ckpt[s].off > 0 =>
      /\ HeadOf(ckpt[s].off, ckpt[s].fp.head, written[s])
      /\ \/ SameHead(file[s].recs, ckpt[s].fp.head)
         \/ ~(Keys(ckpt[s].fp.head) \subseteq Keys(file[s].recs))

\* If the head is still there, the file reaches up to the checkpoint and nothing before it is
\* missing among these records.
Behind(f, point, known) ==
  point.off > 0 /\ SameHead(f.recs, point.fp.head) =>
    /\ point.off <= Complete(f)
    /\ \A i \in 1..point.off : f.recs[i] \in known
PastIsKnown == \A s \in Sources : Behind(file[s], ckpt[s], Recs(rows[s]))

\* No complete record of the transcript is missing among these.
Whole(f, known) == \A i \in 1..Complete(f) : f.recs[i] \in known

\* No transcript is older than what is recorded of it, and one that still has the size
\* discovery saw has not been written to since.
Timely ==
  \A s \in Sources :
    /\ seen[s].mtime <= file[s].mtime
    /\ pc # "idle" =>
         /\ stat[s].mtime <= file[s].mtime
         /\ stat[s].size <= Size(file[s])
         /\ stat[s].size = Size(file[s]) => stat[s].mtime = file[s].mtime

Unwritten(s) == stat[s].mtime = file[s].mtime

\* What is in hand on the way to each commit and to the checkpoint statement.
NextPoint == [off |-> work.off, fp |-> work.fp]
InHand ==
  LET s == work.src
      f == file[s]
  IN /\ pc = "tail" => ckpt[s].off > 0 /\ SameHead(f.recs, ckpt[s].fp.head)
     /\ pc = "append" =>
          /\ work.off > 0
          /\ HeadOf(work.off, work.fp.head, written[s])
          /\ SameHead(f.recs, work.fp.head)
          /\ Behind(f, NextPoint, Recs(rows[s]) \cup Recs(work.rows))
          /\ Unwritten(s) => work.off = Complete(f)
     /\ pc = "store" =>
          IF work.failed
          THEN ckpt[s].off = 0
          ELSE /\ Behind(f, ckpt[s], Recs(work.rows))
               /\ Unwritten(s) => Whole(f, Recs(work.rows))
     /\ pc = "checkpoint" /\ Unwritten(s) /\ ~work.failed => Whole(f, Recs(rows[s]))
     /\ pc \in {"store", "checkpoint"} /\ Unwritten(s) /\ work.failed =>
          f.status # "ok" \/ f.cut = 2

\* What CurrentMeansComplete comes to before the parser version is compared.
Told ==
  \A s \in Sources :
    Indexed(s) /\ seen[s].mtime = file[s].mtime /\ ~stub[s] =>
      Whole(file[s], Recs(rows[s]))

ReadInv ==
  TypeOK /\ Numbered /\ IndexedFirst /\ Headed /\ PastIsKnown /\ Timely /\ InHand /\ Told

\* A transcript that was not written to, whatever became of the access to it.
SameText(f, g) == g.recs = f.recs /\ g.cut = f.cut /\ g.mtime = f.mtime

\* One that was appended to or flushed.
Grown(f, g) ==
  /\ g.mtime = f.mtime + 1
  /\ Len(f.recs) <= Len(g.recs)
  /\ \A i \in 1..Len(f.recs) : g.recs[i] = f.recs[i]
  /\ Size(f) < Size(g)
  /\ Complete(f) <= Complete(g)

\* One that was rewritten where its head shows it: of a head recorded with n records written,
\* either a record is gone, or it was shorter than the fingerprint and is still the head.
Pruned(f, g, n) ==
  /\ g.mtime = f.mtime + 1
  /\ g.cut = 0
  /\ \A head \in Seq(Nat) :
       Keys(head) \subseteq 1..n /\ Len(head) <= HeadRecords /\ SameHead(f.recs, head) =>
         \/ SameHead(g.recs, head) /\ Len(head) < HeadRecords
         \/ ~(Keys(head) \subseteq Keys(g.recs))

LEMMA HeadKeys ==
  ASSUME NEW recs \in Seq(Nat), NEW head \in Seq(Nat), SameHead(recs, head)
  PROVE  Keys(head) \subseteq Keys(recs)
<1>1. \A i \in 1..Len(head) : i \in 1..Len(recs) /\ recs[i] = head[i]
  BY DEF SameHead
<1> QED
  BY <1>1 DEF Keys

\* What is gone from a head stays gone: its number is taken.
LEMMA GoneForGood ==
  ASSUME NEW old, NEW new, NEW n \in Nat, NEW m, Moved(old, new, n, m),
         NEW head, Keys(head) \subseteq 1..n, Keys(head) \subseteq Keys(new)
  PROVE  Keys(head) \subseteq Keys(old)
<1> SUFFICES ASSUME NEW r \in Keys(head) PROVE r \in Keys(old)
  OBVIOUS
<1>1. PICK i \in DOMAIN new : new[i] = r
  BY DEF Keys
<1>2. r \in 1..n
  OBVIOUS
<1>3. \E j \in DOMAIN old : r = old[j]
  BY <1>1, <1>2 DEF Moved
<1> QED
  BY <1>3 DEF Keys

\* If the first positions are all picked, the head of the sequence stays the head.
LEMMA PickedHead ==
  ASSUME NEW S, NEW q \in Seq(S), NEW P \in SUBSET DOMAIN q, NEW m \in Nat, 1..m \subseteq P
  PROVE  /\ m <= Len(Pick(q, P))
         /\ \A i \in 1..m : Pick(q, P)[i] = q[i]
<1>1. P \in SUBSET Nat /\ IsFiniteSet(P) /\ Cardinality(P) \in Nat
  BY PositionsFinite
<1>2. ASSUME NEW i \in 1..m
      PROVE  i \in 1..Cardinality(P) /\ Nth(P, i) = i
  <2>1. {j \in P : j <= i} = 1..i
    <3>1. DOMAIN q = 1..Len(q)
      OBVIOUS
    <3> QED
      BY <3>1
  <2>2. Cardinality(1..i) = i
    BY FS_Interval
  <2>3. i \in P
    OBVIOUS
  <2> QED
    BY <1>1, <2>1, <2>2, <2>3, NthIsElement
<1>3. \A i \in 1..m : Pick(q, P)[i] = q[i]
  BY <1>2 DEF Pick
<1>4. m <= Cardinality(P)
  <2>1. IsFiniteSet(1..m) /\ Cardinality(1..m) = m
    BY FS_Interval
  <2> QED
    BY <1>1, <2>1, FS_Subset
<1>5. Len(Pick(q, P)) = Cardinality(P)
  <2>1. Pick(q, P) \in Seq(S) /\ DOMAIN Pick(q, P) = 1..Cardinality(P)
    BY PickProperties DEF Pick
  <2> QED
    BY <1>1, <2>1, LenProperties
<1> QED
  BY <1>3, <1>4, <1>5

\* A rewrite that the fingerprint of the transcript does not match.
LEMMA PrunedHead ==
  ASSUME HeadRecords \in Nat, NEW f \in File, NEW n \in Nat,
         Distinct(f.recs), Keys(f.recs) \subseteq 1..n,
         NEW kept \in SUBSET DOMAIN f.recs, NEW more \in {<< >>, <<n + 1>>},
         NEW g, g.recs = Pick(f.recs, kept) \o more, g.cut = 0, g.mtime = f.mtime + 1,
         ~Matches(g, Fingerprint(f))
  PROVE  Pruned(f, g, n)
<1> DEFINE old == f.recs
           left == Pick(old, kept)
<1>1. old \in Seq(Nat) /\ Len(old) \in Nat /\ DOMAIN old = 1..Len(old) /\ f.cut \in 0..2
  BY DEF File
<1>2. left \in Seq(Nat) /\ Len(left) \in Nat /\ DOMAIN left = 1..Len(left)
  <2>1. left \in Seq(Nat)
    BY <1>1, PickProperties
  <2> QED
    BY <2>1
<1>3. /\ g.recs \in Seq(Nat) /\ Len(left) <= Len(g.recs) /\ Len(g.recs) \in Nat
      /\ \A i \in 1..Len(left) : g.recs[i] = left[i]
      /\ Keys(g.recs) \subseteq Keys(left) \cup {n + 1}
  <2>1. more \in Seq(Nat) /\ Keys(more) \subseteq {n + 1}
    <3>1. CASE more = << >>
      BY <3>1, EmptySeq DEF Keys
    <3>2. CASE more = <<n + 1>>
      BY <3>2 DEF Keys
    <3> QED
      BY <3>1, <3>2
  <2>2. Keys(left \o more) = Keys(left) \cup Keys(more)
    <3> HIDE DEF left
    <3> QED
      BY <1>2, <2>1, ConcatKeys
  <2>3. /\ left \o more \in Seq(Nat) /\ Len(left \o more) = Len(left) + Len(more)
        /\ \A i \in 1..Len(left) : (left \o more)[i] = left[i]
        /\ Len(more) \in Nat
    <3> HIDE DEF left
    <3> QED
      BY <1>2, <2>1, ConcatProperties
  <2> HIDE DEF left
  <2> QED
    BY <1>2, <2>1, <2>2, <2>3 DEF left
<1> SUFFICES ASSUME NEW head \in Seq(Nat), Keys(head) \subseteq 1..n,
                    Len(head) <= HeadRecords, SameHead(old, head),
                    Keys(head) \subseteq Keys(g.recs)
             PROVE  SameHead(g.recs, head) /\ Len(head) < HeadRecords
  BY DEF Pruned
<1> DEFINE m == Len(head)
<1>4. m \in Nat /\ m <= Len(old) /\ \A i \in 1..m : old[i] = head[i]
  BY DEF SameHead
<1>5. 1..m \subseteq kept
  <2> SUFFICES ASSUME NEW i \in 1..m PROVE i \in kept
    OBVIOUS
  <2>1. head[i] \in Keys(head) /\ i \in DOMAIN old /\ old[i] = head[i]
    BY <1>1, <1>4 DEF Keys
  <2>2. head[i] \in Keys(left)
    BY <1>3, <2>1
  <2>3. PICK k \in DOMAIN left : left[k] = head[i]
    BY <2>2 DEF Keys
  <2>4. PICK j \in kept : left[k] = old[j]
    <3>1. \A l \in DOMAIN left : \E j \in kept : left[l] = old[j]
      BY <1>1, PickProperties
    <3> QED
      BY <3>1
  <2>5. i = j
    BY <2>1, <2>3, <2>4 DEF Distinct
  <2> QED
    BY <2>5
<1>6. m <= Len(left) /\ \A i \in 1..m : left[i] = old[i]
  BY <1>1, <1>4, <1>5, PickedHead
<1> HIDE DEF left, old, m
<1>7. m <= Len(g.recs) /\ \A i \in 1..m : g.recs[i] = head[i]
  <2>1. m <= Len(g.recs)
    BY <1>2, <1>3, <1>4, <1>6
  <2>2. ASSUME NEW i \in 1..m
        PROVE  g.recs[i] = head[i]
    <3>1. i \in 1..Len(left)
      BY <1>2, <1>4, <1>6
    <3>2. g.recs[i] = left[i] /\ left[i] = old[i] /\ old[i] = head[i]
      BY <1>3, <1>4, <1>6, <3>1
    <3> QED
      BY <3>2
  <2> QED
    BY <2>1, <2>2
<1>8. ASSUME m = HeadRecords
      PROVE  Matches(g, Fingerprint(f))
  <2> DEFINE fp == Fingerprint(f)
  <2>1. Least(Len(old), HeadRecords) = m
    <3>1. Len(old) \in Nat /\ m \in Nat /\ m <= Len(old)
      BY <1>1, <1>4
    <3> QED
      BY <1>8, <3>1 DEF Least
  <2>2. fp.head = SubSeq(old, 1, m)
    BY <2>1 DEF Fingerprint, old
  <2>3. fp.len <= RecordBytes * HeadRecords /\ fp.len \in Int
    BY <1>1 DEF Fingerprint, Least, Size, RecordBytes, old
  <2>4. Size(g) >= RecordBytes * HeadRecords
    BY <1>3, <1>7, <1>8 DEF Size, RecordBytes
  <2>5. /\ SubSeq(old, 1, m) \in Seq(Nat) /\ Len(SubSeq(old, 1, m)) = m
        /\ SubSeq(old, 1, m) = [i \in 1..m |-> old[i]]
    BY <1>1, <1>4
  <2>6. SubSeq(g.recs, 1, m) = [i \in 1..m |-> g.recs[i]]
    BY <1>3, <1>4, <1>7
  <2>7. SubSeq(g.recs, 1, m) = SubSeq(old, 1, m)
    <3>1. \A i \in 1..m : old[i] = g.recs[i]
      BY <1>4, <1>7
    <3> QED
      BY <2>5, <2>6, <3>1
  <2>8. Size(g) \in Int
    BY <1>3 DEF Size, RecordBytes
  <2>9. Size(g) >= fp.len
    <3> HIDE DEF fp
    <3> QED
      BY <2>3, <2>4, <2>8 DEF RecordBytes
  <2> HIDE DEF fp
  <2>10. Matches(g, fp)
    BY <1>7, <2>2, <2>5, <2>7, <2>9 DEF Matches
  <2> QED
    BY <2>10 DEF fp
<1> QED
  BY <1>4, <1>7, <1>8 DEF SameHead, m

LEMMA AppendGrows ==
  ASSUME NEW f \in File, NEW g \in File, NEW r \in Nat, f.cut = 0,
         g.recs = Append(f.recs, r), g.mtime = f.mtime + 1
  PROVE  Grown(f, g)
<1>1. f.recs \in Seq(Nat) /\ Len(f.recs) \in Nat /\ g.cut \in 0..2
  <2>1. f.recs \in Seq(Nat) /\ g.cut \in 0..2
    BY DEF File
  <2> QED
    BY <2>1
<1>2. /\ Len(g.recs) = Len(f.recs) + 1
      /\ \A i \in 1..Len(f.recs) : g.recs[i] = f.recs[i]
  BY <1>1, AppendProperties
<1>3. Size(f) < Size(g) /\ Complete(f) <= Complete(g)
  BY <1>1, <1>2 DEF Size, Complete, RecordBytes
<1> QED
  BY <1>1, <1>2, <1>3 DEF Grown

LEMMA FlushGrows ==
  ASSUME NEW f \in File, NEW g \in File, g.cut < f.cut, g.recs = f.recs, g.mtime = f.mtime + 1
  PROVE  Grown(f, g)
<1>1. f.cut \in 0..2 /\ g.cut \in 0..2
  BY DEF File
<1>2. Len(f.recs) \in Nat
  <2>1. f.recs \in Seq(Nat)
    BY DEF File
  <2> QED
    BY <2>1
<1>3. Size(f) < Size(g) /\ Complete(f) <= Complete(g)
  BY <1>1, <1>2 DEF Size, Complete, RecordBytes
<1> QED
  BY <1>2, <1>3 DEF Grown

\* What the environment can do to the text of a transcript.
LEMMA EnvironmentTexts ==
  ASSUME RewritesShow, TypeOK, Numbered, Environment, NEW t \in Sources
  PROVE  \/ SameText(file[t], file'[t])
         \/ Grown(file[t], file'[t])
         \/ pc = "idle" /\ Pruned(file[t], file'[t], written[t])
<1> PICK s \in Sources :
      \/ \E cut \in 0..2 : AppendRecord(s, cut) \/ FlushRecord(s, cut)
      \/ \E kept \in SUBSET DOMAIN file[s].recs, summary \in BOOLEAN :
           RewriteRecords(s, kept, summary)
      \/ \E status \in Faults : LoseAccess(s, status)
      \/ RegainAccess(s)
  BY DEF Environment
<1> DEFINE f == file[s]
           g == file'[s]
           n == written[s]
<1>1. file \in [Sources -> File] /\ TypeOK'
  BY EnvironmentType DEF TypeOK, WorldOK, File
<1>2. /\ f \in File /\ g \in File /\ n \in Nat
      /\ Distinct(f.recs) /\ Keys(f.recs) \subseteq 1..n
  BY <1>1 DEF TypeOK, WorldOK, File, Numbered
<1>3. ASSUME NEW recs, NEW cut, Change(s, recs, cut)
      PROVE  /\ g.recs = recs /\ g.cut = cut /\ g.mtime = f.mtime + 1
             /\ t # s => file'[t] = file[t]
  <2>1. file' = [file EXCEPT ![s] = [recs |-> recs, cut |-> cut, mtime |-> file[s].mtime + 1,
                                     status |-> file[s].status]]
    BY <1>3 DEF Change
  <2> QED
    BY <1>1, <2>1
<1>4. t # s => SameText(file[t], file'[t])
  <2>1. ASSUME t # s PROVE file'[t] = file[t]
    BY <1>1, <1>3, <2>1 DEF AppendRecord, FlushRecord, RewriteRecords, LoseAccess, RegainAccess
  <2> QED
    BY <2>1 DEF SameText
<1>5. ASSUME NEW cut \in 0..2, AppendRecord(s, cut)
      PROVE  Grown(f, g)
  <2>1. /\ g.recs = Append(f.recs, n + 1) /\ g.mtime = f.mtime + 1 /\ f.cut = 0
    BY <1>3, <1>5 DEF AppendRecord
  <2>2. n + 1 \in Nat
    BY <1>2
  <2> HIDE DEF f, g, n
  <2> QED
    BY <1>2, <2>1, <2>2, AppendGrows
<1>6. ASSUME NEW cut \in 0..2, FlushRecord(s, cut)
      PROVE  Grown(f, g)
  <2>1. g.recs = f.recs /\ g.cut = cut /\ cut < f.cut /\ g.mtime = f.mtime + 1
    BY <1>3, <1>6 DEF FlushRecord
  <2> HIDE DEF f, g
  <2> QED
    BY <1>2, <2>1, FlushGrows
<1>7. ASSUME NEW kept \in SUBSET DOMAIN file[s].recs, NEW summary \in BOOLEAN,
             RewriteRecords(s, kept, summary)
      PROVE  pc = "idle" /\ Pruned(f, g, n)
  <2> DEFINE more == IF summary THEN <<n + 1>> ELSE << >>
             new == [recs |-> Pick(f.recs, kept) \o more, cut |-> 0]
  <2>1. /\ pc \in DisturbPoints
        /\ (IF Matches(new, Fingerprint(f)) THEN "samehead" ELSE "newhead") \in Rewrites
        /\ Change(s, new.recs, new.cut)
    BY <1>7 DEF RewriteRecords
  <2>2. pc = "idle" /\ ~Matches(new, Fingerprint(f))
    BY <2>1 DEF RewritesShow
  <2>3. g.recs = new.recs /\ g.cut = 0 /\ g.mtime = f.mtime + 1
    BY <1>3, <2>1
  <2>4. ~Matches(g, Fingerprint(f))
    <3>1. Size(g) = Size(new)
      BY <2>3 DEF Size
    <3> HIDE DEF new, g, f
    <3> QED
      BY <2>2, <2>3, <3>1 DEF Matches
  <2>5. g.recs = Pick(f.recs, kept) \o more /\ more \in {<< >>, <<n + 1>>}
    BY <2>3
  <2>6. HeadRecords \in Nat /\ kept \in SUBSET DOMAIN f.recs
    BY ReindexAssumption DEF ReindexAssumption
  <2> HIDE DEF f, g, n, more, new
  <2> QED
    BY <1>2, <2>2, <2>3, <2>4, <2>5, <2>6, PrunedHead
<1>8. ASSUME (\E status \in Faults : LoseAccess(s, status)) \/ RegainAccess(s)
      PROVE  SameText(f, g)
  <2>1. PICK status : file' = [file EXCEPT ![s].status = status]
    BY <1>8 DEF LoseAccess, RegainAccess
  <2>2. g = [f EXCEPT !.status = status]
    BY <1>1, <2>1
  <2> QED
    BY <1>2, <2>2 DEF SameText, File
<1>9. CASE t = s
  BY <1>5, <1>6, <1>7, <1>8, <1>9
<1> QED
  BY <1>4, <1>9

\* Where a file that could not be read may not come back, it does not.
LEMMA StatusStays ==
  ASSUME RewritesShow, TypeOK, Environment, pc \in {"store", "checkpoint"},
         NEW s \in Sources, file[s].status # "ok"
  PROVE  file'[s].status # "ok"
<1> PICK t \in Sources :
      \/ \E cut \in 0..2 : AppendRecord(t, cut) \/ FlushRecord(t, cut)
      \/ \E kept \in SUBSET DOMAIN file[t].recs, summary \in BOOLEAN :
           RewriteRecords(t, kept, summary)
      \/ \E status \in Faults : LoseAccess(t, status)
      \/ RegainAccess(t)
  BY DEF Environment
<1>1. file \in [Sources -> File]
  BY DEF TypeOK, WorldOK, File
<1>2. ASSUME NEW recs, NEW cut, Change(t, recs, cut)
      PROVE  file'[s].status = file[s].status
  BY <1>1, <1>2 DEF Change
<1>3. ~RegainAccess(t)
  BY DEF RewritesShow, RegainAccess
<1>4. ASSUME NEW status \in Faults, LoseAccess(t, status)
      PROVE  file'[s] = file[s]
  BY <1>1, <1>4 DEF LoseAccess
<1>5. \A cut \in 0..2 :
        AppendRecord(t, cut) \/ FlushRecord(t, cut) => file'[s].status = file[s].status
  BY <1>2 DEF AppendRecord, FlushRecord
<1>6. \A kept \in SUBSET DOMAIN file[t].recs, summary \in BOOLEAN :
        RewriteRecords(t, kept, summary) => file'[s].status = file[s].status
  BY <1>2 DEF RewriteRecords
<1> QED
  BY <1>3, <1>4, <1>5, <1>6

\* What a checkpoint promises of its source outlasts what happens to the transcript.
LEMMA BehindKept ==
  ASSUME NEW f \in File, NEW g \in File, NEW n \in Nat, NEW m \in Nat,
         Moved(f.recs, g.recs, n, m),
         SameText(f, g) \/ Grown(f, g) \/ Pruned(f, g, n),
         NEW point \in [off : Nat, fp : Prints], NEW known,
         HeadOf(point.off, point.fp.head, n),
         \/ SameHead(f.recs, point.fp.head)
         \/ ~(Keys(point.fp.head) \subseteq Keys(f.recs)),
         point.off > 0, Behind(f, point, known)
  PROVE  /\ HeadOf(point.off, point.fp.head, m)
         /\ \/ SameHead(g.recs, point.fp.head)
            \/ ~(Keys(point.fp.head) \subseteq Keys(g.recs))
         /\ Behind(g, point, known)
<1> DEFINE head == point.fp.head
           off == point.off
<1>1. /\ head \in Seq(Nat) /\ off \in Nat /\ Len(head) \in Nat
      /\ f.recs \in Seq(Nat) /\ g.recs \in Seq(Nat) /\ f.cut \in 0..2
      /\ Len(f.recs) \in Nat /\ Len(g.recs) \in Nat
  <2>1. /\ head \in Seq(Nat) /\ off \in Nat /\ f.recs \in Seq(Nat) /\ g.recs \in Seq(Nat)
        /\ f.cut \in 0..2
    BY DEF File, Prints
  <2> HIDE DEF head
  <2> QED
    BY <2>1
<1>2. HeadOf(off, head, m)
  <2>1. 1..n \subseteq 1..m
    BY DEF Moved
  <2> QED
    BY <2>1 DEF HeadOf
<1>3. Keys(head) \subseteq 1..n /\ Len(head) <= HeadRecords
  BY DEF HeadOf
<1> HIDE DEF head, off
<1>4. CASE ~(Keys(head) \subseteq Keys(f.recs))
  <2>1. ~(Keys(head) \subseteq Keys(g.recs))
    BY <1>3, <1>4, GoneForGood
  <2>2. ~SameHead(g.recs, head)
    BY <1>1, <2>1, HeadKeys
  <2> QED
    BY <1>2, <2>1, <2>2 DEF Behind, head, off
<1>5. ASSUME SameHead(f.recs, head)
      PROVE  /\ Len(head) <= Len(f.recs) /\ \A i \in 1..Len(head) : f.recs[i] = head[i]
             /\ off <= Complete(f) /\ Complete(f) <= Len(f.recs)
             /\ \A i \in 1..off : f.recs[i] \in known
  <2>1. Complete(f) <= Len(f.recs)
    BY <1>1 DEF Complete
  <2> QED
    BY <1>5, <2>1 DEF SameHead, Behind, head, off
<1>6. ASSUME SameHead(f.recs, head), SameText(f, g)
      PROVE  SameHead(g.recs, head) /\ Behind(g, point, known)
  BY <1>6 DEF SameText, Behind, Complete, head
<1>7. ASSUME SameHead(f.recs, head), Grown(f, g)
      PROVE  SameHead(g.recs, head) /\ Behind(g, point, known)
  <2>1. /\ Len(f.recs) <= Len(g.recs) /\ Complete(f) <= Complete(g)
        /\ \A i \in 1..Len(f.recs) : g.recs[i] = f.recs[i]
    BY <1>7 DEF Grown
  <2>2. Len(head) <= Len(g.recs)
    BY <1>1, <1>5, <1>7, <2>1
  <2>3. \A i \in 1..Len(head) : g.recs[i] = head[i]
    <3> SUFFICES ASSUME NEW i \in 1..Len(head) PROVE g.recs[i] = head[i]
      OBVIOUS
    <3>1. i \in 1..Len(f.recs)
      BY <1>1, <1>5, <1>7
    <3> QED
      BY <1>5, <1>7, <2>1, <3>1
  <2>4. Complete(f) \in Int /\ Complete(g) \in Int
    BY <1>1 DEF Complete
  <2>5. off <= Complete(g)
    BY <1>1, <1>5, <1>7, <2>1, <2>4
  <2>6. \A i \in 1..off : g.recs[i] \in known
    <3> SUFFICES ASSUME NEW i \in 1..off PROVE g.recs[i] \in known
      OBVIOUS
    <3>1. i \in 1..Len(f.recs)
      BY <1>1, <1>5, <1>7, <2>4
    <3> QED
      BY <1>5, <1>7, <2>1, <3>1
  <2> QED
    BY <2>2, <2>3, <2>5, <2>6 DEF SameHead, Behind, head, off
<1>8. ASSUME SameHead(f.recs, head), Pruned(f, g, n), Keys(head) \subseteq Keys(g.recs)
      PROVE  SameHead(g.recs, head) /\ Behind(g, point, known)
  <2>1. SameHead(g.recs, head) /\ Len(head) < HeadRecords /\ g.cut = 0
    BY <1>1, <1>3, <1>8 DEF Pruned
  <2>2. off <= Len(head)
    BY <2>1 DEF HeadOf, head, off
  <2>3. off <= Complete(g)
    BY <1>1, <2>1, <2>2 DEF SameHead, Complete
  <2>4. \A i \in 1..off : g.recs[i] \in known
    <3> SUFFICES ASSUME NEW i \in 1..off PROVE g.recs[i] \in known
      OBVIOUS
    <3>1. i \in 1..Len(head)
      BY <1>1, <2>2
    <3> QED
      BY <1>5, <1>8, <2>1, <3>1 DEF SameHead
  <2> QED
    BY <2>1, <2>3, <2>4 DEF Behind, off
<1>9. ~(Keys(head) \subseteq Keys(g.recs)) => Behind(g, point, known)
  BY <1>1, HeadKeys DEF Behind, head
<1> QED
  BY <1>2, <1>4, <1>6, <1>7, <1>8, <1>9 DEF head, off

LEMMA HeadKept ==
  ASSUME NEW f \in File, NEW g \in File, SameText(f, g) \/ Grown(f, g),
         NEW head \in Seq(Nat), SameHead(f.recs, head)
  PROVE  SameHead(g.recs, head)
<1>1. Len(head) \in Nat /\ Len(f.recs) \in Nat /\ Len(g.recs) \in Nat
  <2>1. f.recs \in Seq(Nat) /\ g.recs \in Seq(Nat)
    BY DEF File
  <2> QED
    BY <2>1
<1>2. CASE SameText(f, g)
  BY <1>2 DEF SameText
<1>3. CASE Grown(f, g)
  <2>1. Len(head) <= Len(f.recs) /\ Len(f.recs) <= Len(g.recs)
    BY <1>3 DEF SameHead, Grown
  <2>2. \A i \in 1..Len(head) : i \in 1..Len(f.recs) /\ f.recs[i] = head[i]
    BY <1>1, <2>1 DEF SameHead
  <2>3. \A i \in 1..Len(head) : g.recs[i] = head[i]
    BY <1>3, <2>2 DEF Grown
  <2> QED
    BY <1>1, <2>1, <2>3 DEF SameHead
<1> QED
  BY <1>2, <1>3

LEMMA TextTimes ==
  ASSUME NEW f \in File, NEW g \in File, NEW n,
         SameText(f, g) \/ Grown(f, g) \/ Pruned(f, g, n)
  PROVE  /\ f.mtime \in Nat /\ g.mtime \in Nat /\ Size(f) \in Int /\ Size(g) \in Int
         /\ f.mtime <= g.mtime
         /\ SameText(f, g) => Size(g) = Size(f) /\ \A known : Whole(f, known) = Whole(g, known)
         /\ ~SameText(f, g) => f.mtime < g.mtime
         /\ Grown(f, g) => Size(f) < Size(g)
<1>1. /\ f.mtime \in Nat /\ g.mtime \in Nat /\ f.cut \in 0..2 /\ g.cut \in 0..2
      /\ Len(f.recs) \in Nat /\ Len(g.recs) \in Nat
  <2>1. /\ f.mtime \in Nat /\ g.mtime \in Nat /\ f.cut \in 0..2 /\ g.cut \in 0..2
        /\ f.recs \in Seq(Nat) /\ g.recs \in Seq(Nat)
    BY DEF File
  <2> QED
    BY <2>1
<1>2. Size(f) \in Int /\ Size(g) \in Int
  BY <1>1 DEF Size, RecordBytes
<1>3. SameText(f, g) => Size(g) = Size(f)
  BY DEF SameText, Size
<1>4. SameText(f, g) => \A known : Whole(f, known) = Whole(g, known)
  BY DEF SameText, Whole, Complete
<1>5. SameText(f, g) \/ g.mtime = f.mtime + 1
  BY DEF Grown, Pruned
<1> QED
  BY <1>1, <1>2, <1>3, <1>4, <1>5 DEF SameText, Grown

\* What the types give for a source, and what the environment does to it.
LEMMA EnvironmentFacts ==
  ASSUME RewritesShow, TypeOK, Numbered, Environment, NEW s \in Sources
  PROVE  /\ file[s] \in File /\ file'[s] \in File /\ written[s] \in Nat /\ written'[s] \in Nat
         /\ Moved(file[s].recs, file'[s].recs, written[s], written'[s])
         /\ \/ SameText(file[s], file'[s]) \/ Grown(file[s], file'[s])
            \/ pc = "idle" /\ Pruned(file[s], file'[s], written[s])
         /\ ckpt[s] \in [off : Nat, fp : Prints]
         /\ seen[s].mtime \in Nat /\ stat[s].mtime \in Nat /\ stat[s].size \in Int
<1>1. TypeOK'
  BY EnvironmentType
<1>2. /\ file[s] \in File /\ file'[s] \in File /\ written[s] \in Nat /\ written'[s] \in Nat
  BY <1>1 DEF TypeOK, WorldOK, File
<1>3. /\ ckpt[s] \in [off : Nat, fp : Prints]
      /\ seen[s].mtime \in Nat /\ stat[s].mtime \in Nat /\ stat[s].size \in Int
  BY DEF TypeOK, TablesOK, RefreshOK
<1> QED
  BY <1>2, <1>3, EnvironmentMoves, EnvironmentTexts

LEMMA ReadEnvironmentTables ==
  ASSUME RewritesShow, ReadInv, Environment
  PROVE  Headed' /\ PastIsKnown' /\ Timely' /\ Told'
<1>1. TypeOK /\ Numbered /\ Headed /\ PastIsKnown /\ Timely /\ Told
  BY DEF ReadInv
<1>2. UNCHANGED <<seen, ckpt, rows, stub, pc, stat>>
  BY <1>1, EnvironmentMoves DEF tables
<1>3. ASSUME NEW s \in Sources, ckpt[s].off > 0
      PROVE  /\ HeadOf(ckpt[s].off, ckpt[s].fp.head, written'[s])
             /\ \/ SameHead(file'[s].recs, ckpt[s].fp.head)
                \/ ~(Keys(ckpt[s].fp.head) \subseteq Keys(file'[s].recs))
             /\ Behind(file'[s], ckpt[s], Recs(rows[s]))
  <2> DEFINE f == file[s]
             g == file'[s]
             n == written[s]
             m == written'[s]
             point == ckpt[s]
             known == Recs(rows[s])
  <2>1. /\ f \in File /\ g \in File /\ n \in Nat /\ m \in Nat
        /\ Moved(f.recs, g.recs, n, m)
        /\ SameText(f, g) \/ Grown(f, g) \/ Pruned(f, g, n)
        /\ point \in [off : Nat, fp : Prints]
    BY <1>1, EnvironmentFacts
  <2>2. /\ HeadOf(point.off, point.fp.head, n)
        /\ \/ SameHead(f.recs, point.fp.head)
           \/ ~(Keys(point.fp.head) \subseteq Keys(f.recs))
        /\ Behind(f, point, known) /\ point.off > 0
    BY <1>1, <1>3 DEF Headed, PastIsKnown
  <2> HIDE DEF f, g, n, m, point, known
  <2>3. /\ HeadOf(point.off, point.fp.head, m)
        /\ \/ SameHead(g.recs, point.fp.head)
           \/ ~(Keys(point.fp.head) \subseteq Keys(g.recs))
        /\ Behind(g, point, known)
    BY <2>1, <2>2, BehindKept
  <2> QED
    BY <2>3 DEF g, m, point, known
<1>4. Headed'
  BY <1>2, <1>3 DEF Headed
<1>5. PastIsKnown'
  <2> SUFFICES ASSUME NEW s \in Sources
               PROVE  Behind(file'[s], ckpt[s], Recs(rows[s]))
    BY <1>2 DEF PastIsKnown
  <2>1. CASE ckpt[s].off > 0
    BY <1>3, <2>1
  <2>2. CASE ~(ckpt[s].off > 0)
    BY <2>2 DEF Behind
  <2> QED
    BY <2>1, <2>2
<1>6. ASSUME NEW s \in Sources
      PROVE  /\ seen[s].mtime <= file'[s].mtime
             /\ pc # "idle" =>
                  /\ stat[s].mtime <= file'[s].mtime
                  /\ stat[s].size <= Size(file'[s])
                  /\ stat[s].size = Size(file'[s]) => stat[s].mtime = file'[s].mtime
             /\ Indexed(s) /\ seen[s].mtime = file'[s].mtime /\ ~stub[s] =>
                  Whole(file'[s], Recs(rows[s]))
  <2> DEFINE f == file[s]
             g == file'[s]
             known == Recs(rows[s])
  <2>1. /\ f \in File /\ g \in File
        /\ \/ SameText(f, g) \/ Grown(f, g)
           \/ pc = "idle" /\ Pruned(f, g, written[s])
        /\ seen[s].mtime \in Nat /\ stat[s].mtime \in Nat /\ stat[s].size \in Int
    BY <1>1, EnvironmentFacts
  <2>2. /\ seen[s].mtime <= f.mtime
        /\ pc # "idle" =>
             /\ stat[s].mtime <= f.mtime
             /\ stat[s].size <= Size(f)
             /\ stat[s].size = Size(f) => stat[s].mtime = f.mtime
        /\ Indexed(s) /\ seen[s].mtime = f.mtime /\ ~stub[s] => Whole(f, known)
    BY <1>1 DEF Timely, Told
  <2> HIDE DEF f, g, known
  <2>3. /\ f.mtime \in Nat /\ g.mtime \in Nat /\ Size(f) \in Int /\ Size(g) \in Int
        /\ f.mtime <= g.mtime
        /\ SameText(f, g) => Size(g) = Size(f) /\ Whole(f, known) = Whole(g, known)
        /\ ~SameText(f, g) => f.mtime < g.mtime
        /\ Grown(f, g) => Size(f) < Size(g)
    BY <2>1, TextTimes
  <2>4. /\ seen[s].mtime <= g.mtime
        /\ seen[s].mtime = g.mtime => seen[s].mtime = f.mtime /\ SameText(f, g)
    BY <2>1, <2>2, <2>3 DEF SameText
  <2>5. pc # "idle" => stat[s].mtime <= g.mtime /\ stat[s].size <= Size(g)
    BY <2>1, <2>2, <2>3
  <2>6. pc # "idle" /\ stat[s].size = Size(g) => stat[s].mtime = g.mtime
    <3>1. pc # "idle" /\ stat[s].size = Size(g) => SameText(f, g)
      BY <2>1, <2>2, <2>3
    <3> QED
      BY <2>2, <2>3, <3>1 DEF SameText
  <2>7. Indexed(s) /\ seen[s].mtime = g.mtime /\ ~stub[s] => Whole(g, known)
    BY <2>2, <2>3, <2>4
  <2> QED
    BY <2>4, <2>5, <2>6, <2>7 DEF g, known
<1>7. Timely' /\ Told'
  BY <1>2, <1>6 DEF Timely, Told, Indexed
<1> QED
  BY <1>4, <1>5, <1>7

LEMMA ReadEnvironmentWork ==
  ASSUME RewritesShow, ReadInv, Environment
  PROVE  InHand'
<1> DEFINE s == work.src
           f == file[s]
           g == file'[s]
           n == written[s]
           m == written'[s]
<1>1. TypeOK /\ Numbered /\ Headed /\ Timely /\ InHand
  BY DEF ReadInv
<1>2. UNCHANGED <<ckpt, rows, pc, stat, work>>
  BY <1>1, EnvironmentMoves DEF tables
<1>3. CASE pc \in {"idle", "visit", "parse"}
  BY <1>2, <1>3 DEF InHand
<1>4. CASE pc \in {"tail", "append", "store", "checkpoint"}
  <2>1. /\ f \in File /\ g \in File /\ n \in Nat /\ m \in Nat
        /\ Moved(f.recs, g.recs, n, m)
        /\ SameText(f, g) \/ Grown(f, g)
        /\ ckpt[s] \in [off : Nat, fp : Prints]
        /\ stat[s].mtime \in Nat
        /\ s \in Sources
    BY <1>1, <1>4, EnvironmentFacts, WorkTypes
  <2>2. stat[s].mtime <= f.mtime
    BY <1>1, <1>4, <2>1 DEF Timely
  <2>3. stat[s].mtime = g.mtime => stat[s].mtime = f.mtime /\ SameText(f, g)
    <3> HIDE DEF f, g, s
    <3>1. /\ f.mtime \in Nat /\ g.mtime \in Nat /\ f.mtime <= g.mtime
          /\ ~SameText(f, g) => f.mtime < g.mtime
      BY <2>1, TextTimes
    <3> QED
      BY <2>1, <2>2, <3>1 DEF SameText
  <2>4. \A known : SameText(f, g) => Whole(f, known) = Whole(g, known)
    <3> HIDE DEF f, g
    <3> QED
      BY <2>1, TextTimes
  <2>5. CASE pc = "tail"
    <3>1. ckpt[s].off > 0 /\ SameHead(f.recs, ckpt[s].fp.head) /\ ckpt[s].fp.head \in Seq(Nat)
      BY <1>1, <2>1, <2>5 DEF InHand, Prints
    <3>2. SameHead(g.recs, ckpt[s].fp.head)
      <4> HIDE DEF f, g, s
      <4> QED
        BY <2>1, <3>1, HeadKept
    <3> QED
      BY <1>2, <2>5, <3>1, <3>2 DEF InHand
  <2>6. CASE pc = "append"
    <3> DEFINE known == Recs(rows[s]) \cup Recs(work.rows)
               point == NextPoint
    <3>1. point \in [off : Nat, fp : Prints]
      BY <1>1 DEF TypeOK, RefreshOK, WorkSet, NextPoint
    <3>2. /\ point.off = work.off /\ point.fp = work.fp /\ point.off > 0
          /\ HeadOf(point.off, point.fp.head, n)
          /\ SameHead(f.recs, point.fp.head)
          /\ Behind(f, point, known)
          /\ Unwritten(s) => work.off = Complete(f)
      BY <1>1, <2>6 DEF InHand, NextPoint
    <3>3. point.fp.head \in Seq(Nat)
      BY <3>1 DEF Prints
    <3>4. /\ HeadOf(point.off, point.fp.head, m)
          /\ SameHead(g.recs, point.fp.head)
          /\ Behind(g, point, known)
      <4> HIDE DEF f, g, n, m, known, point
      <4>1. SameHead(g.recs, point.fp.head)
        BY <2>1, <3>2, <3>3, HeadKept
      <4> QED
        BY <2>1, <3>1, <3>2, <4>1, BehindKept
    <3>5. stat[s].mtime = g.mtime => work.off = Complete(g)
      BY <2>3, <3>2 DEF Unwritten, SameText, Complete
    <3>6. NextPoint' = point
      BY <1>2 DEF NextPoint
    <3> HIDE DEF point
    <3> QED
      BY <1>2, <2>6, <3>2, <3>4, <3>5, <3>6 DEF InHand, Unwritten
  <2>7. CASE pc = "store"
    <3>1. ASSUME work.failed
          PROVE  ckpt[s].off = 0
      BY <1>1, <2>7, <3>1 DEF InHand
    <3>2. ASSUME ~work.failed
          PROVE  Behind(g, ckpt[s], Recs(work.rows))
      <4>1. Behind(f, ckpt[s], Recs(work.rows))
        BY <1>1, <2>7, <3>2 DEF InHand
      <4>2. CASE ckpt[s].off > 0
        <5> DEFINE point == ckpt[s]
                   known == Recs(work.rows)
        <5>1. /\ HeadOf(point.off, point.fp.head, n)
              /\ \/ SameHead(f.recs, point.fp.head)
                 \/ ~(Keys(point.fp.head) \subseteq Keys(f.recs))
          BY <1>1, <2>1, <4>2 DEF Headed
        <5>2. point \in [off : Nat, fp : Prints] /\ Behind(f, point, known) /\ point.off > 0
          BY <2>1, <4>1, <4>2
        <5> HIDE DEF f, g, n, m, point, known
        <5>3. Behind(g, point, known)
          BY <2>1, <5>1, <5>2, BehindKept
        <5> QED
          BY <5>3 DEF point, known
      <4>3. CASE ~(ckpt[s].off > 0)
        BY <4>3 DEF Behind
      <4> QED
        BY <4>2, <4>3
    <3>3. ASSUME ~work.failed, stat[s].mtime = g.mtime
          PROVE  Whole(g, Recs(work.rows))
      BY <1>1, <2>3, <2>4, <2>7, <3>3 DEF InHand, Unwritten
    <3>4. ASSUME work.failed, stat[s].mtime = g.mtime
          PROVE  g.status # "ok" \/ g.cut = 2
      <4>1. SameText(f, g) /\ (f.status # "ok" \/ f.cut = 2)
        BY <1>1, <2>3, <2>7, <3>4 DEF InHand, Unwritten
      <4>2. f.status # "ok" => g.status # "ok"
        BY <1>1, <2>1, <2>7, StatusStays
      <4> QED
        BY <4>1, <4>2 DEF SameText
    <3> HIDE DEF f, g
    <3> QED
      BY <1>2, <2>7, <3>1, <3>2, <3>3, <3>4 DEF InHand, Unwritten, g
  <2>8. CASE pc = "checkpoint"
    <3>1. ASSUME ~work.failed, stat[s].mtime = g.mtime
          PROVE  Whole(g, Recs(rows[s]))
      BY <1>1, <2>3, <2>4, <2>8, <3>1 DEF InHand, Unwritten
    <3>2. ASSUME work.failed, stat[s].mtime = g.mtime
          PROVE  g.status # "ok" \/ g.cut = 2
      <4>1. SameText(f, g) /\ (f.status # "ok" \/ f.cut = 2)
        BY <1>1, <2>3, <2>8, <3>2 DEF InHand, Unwritten
      <4>2. f.status # "ok" => g.status # "ok"
        BY <1>1, <2>1, <2>8, StatusStays
      <4> QED
        BY <4>1, <4>2 DEF SameText
    <3> QED
      BY <1>2, <2>8, <3>1, <3>2 DEF InHand, Unwritten
  <2> QED
    BY <1>4, <2>5, <2>6, <2>7, <2>8
<1> QED
  BY <1>1, <1>3, <1>4 DEF TypeOK, RefreshOK, Points

\* A fingerprint taken now is of the head the transcript has now.
LEMMA FingerprintHead ==
  ASSUME HeadRecords \in Nat, NEW f \in File, NEW n, Keys(f.recs) \subseteq 1..n,
         NEW off \in Int, off <= Len(f.recs)
  PROVE  SameHead(f.recs, Fingerprint(f).head) /\ HeadOf(off, Fingerprint(f).head, n)
<1> DEFINE head == Fingerprint(f).head
           l == Len(f.recs)
           h == Least(l, HeadRecords)
<1>1. f.recs \in Seq(Nat) /\ l \in Nat /\ DOMAIN f.recs = 1..l
  <2>1. f.recs \in Seq(Nat)
    BY DEF File
  <2> QED
    BY <2>1
<1>2. h \in Nat /\ h <= l /\ h <= HeadRecords /\ (h < HeadRecords => h = l)
  <2> HIDE DEF l
  <2> QED
    BY <1>1 DEF Least
<1>3. head = SubSeq(f.recs, 1, h)
  BY DEF Fingerprint
<1>4. Len(SubSeq(f.recs, 1, h)) = h /\ \A i \in 1..h : SubSeq(f.recs, 1, h)[i] = f.recs[i]
  <2> HIDE DEF h, l
  <2> QED
    BY <1>1, <1>2 DEF l
<1>5. DOMAIN head = 1..h /\ Len(head) = h /\ \A i \in 1..h : head[i] = f.recs[i]
  <2>1. DOMAIN SubSeq(f.recs, 1, h) = 1..h
    <3> HIDE DEF h, l
    <3> QED
      BY <1>1, <1>2 DEF l
  <2> QED
    BY <1>3, <1>4, <2>1
<1> HIDE DEF head, h
<1>6. \A i \in 1..h : i \in DOMAIN f.recs
  BY <1>1, <1>2
<1>7. Keys(head) \subseteq Keys(f.recs)
  BY <1>5, <1>6 DEF Keys
<1>8. SameHead(f.recs, head)
  BY <1>2, <1>5 DEF SameHead
<1>9. HeadOf(off, head, n)
  BY <1>1, <1>2, <1>5, <1>7 DEF HeadOf
<1> QED
  BY <1>8, <1>9 DEF head

\* fingerprint_matches: the head of the file is the one recorded.
LEMMA MatchesHead ==
  ASSUME NEW f \in File, NEW fp \in Prints, Matches(f, fp)
  PROVE  SameHead(f.recs, fp.head)
<1> DEFINE m == Len(fp.head)
<1>1. f.recs \in Seq(Nat) /\ fp.head \in Seq(Nat)
  BY DEF File, Prints
<1>2. m \in Nat /\ Len(f.recs) \in Nat /\ m <= Len(f.recs) /\ SubSeq(f.recs, 1, m) = fp.head
  BY <1>1 DEF Matches
<1>3. \A i \in 1..m : SubSeq(f.recs, 1, m)[i] = f.recs[i]
  <2> HIDE DEF m
  <2> QED
    BY <1>1, <1>2
<1> QED
  BY <1>2, <1>3 DEF SameHead

\* Both commits leave every row they were handed in the table, and an append every row before.
LEMMA CommitHolds ==
  ASSUME TypeOK
  PROVE  /\ AppendTail => Recs(rows[work.src]) \cup Recs(work.rows) \subseteq Recs(rows'[work.src])
         /\ StoreParsed => Recs(work.rows) \subseteq Recs(rows'[work.src])
<1>1. ASSUME AppendTail
      PROVE  Recs(rows[work.src]) \cup Recs(work.rows) \subseteq Recs(rows'[work.src])
  BY <1>1, AppendTailEffect DEF Recs
<1>2. ASSUME StoreParsed
      PROVE  Recs(work.rows) \subseteq Recs(rows'[work.src])
  <2> DEFINE s == work.src
             same == seen[s].by = version
  <2>1. s \in Sources /\ work.rows \in Seq(RowSet) /\ rows[s] \in Seq(RowSet)
    BY <1>2 DEF StoreParsed, TypeOK, RefreshOK, Points, TablesOK, WorkSet
  <2>2. rows'[s] = Stored(rows[s], work.rows, same)
    BY <1>2, <2>1 DEF StoreParsed, TypeOK, TablesOK
  <2>3. same \in BOOLEAN
    OBVIOUS
  <2> HIDE DEF same, s
  <2>4. Keys(work.rows) \subseteq Keys(rows'[s])
    BY <2>1, <2>2, <2>3, StoredProperties
  <2> QED
    BY <2>4 DEF Recs, s
<1> QED
  BY <1>1, <1>2

LEMMA ReadKinds ==
  ASSUME [Next]_vars
  PROVE  \/ Environment \/ Discover \/ AppendTail \/ StoreParsed \/ SetCheckpoint
         \/ UNCHANGED vars
         \/ UNCHANGED <<world, tables, stat>> /\ (pc # "idle" \/ pc' = "idle")
BY DEF Next, SwitchBuild, Refresh, Visit, Skip, StartFullParse, StartTail,
       FingerprintError, Handle, TailRead, TailNothingNew, TailRefused, FullRead,
       KeepAfterFailure, StubAfterFailure, CheckpointError, Finish, Abort, Leave, Enter, Return

\* append_tail: with the rows goes the checkpoint that covers them.
LEMMA ReadAppendTail ==
  ASSUME ReadInv, AppendTail
  PROVE  Headed' /\ PastIsKnown' /\ Timely' /\ Told'
<1> DEFINE src == work.src
           known == Recs(rows[src]) \cup Recs(work.rows)
<1>1. /\ TypeOK /\ Headed /\ PastIsKnown /\ Timely /\ InHand /\ Told
      /\ pc = "append" /\ src \in Sources
  BY WorkTypes DEF ReadInv, AppendTail
<1>2. /\ file' = file /\ written' = written /\ stat' = stat /\ pc' = "visit"
      /\ seen'[src].mtime = stat[src].mtime
      /\ ckpt'[src] = NextPoint
      /\ \A s \in Sources \ {src} : seen'[s] = seen[s] /\ rows'[s] = rows[s]
                                    /\ ckpt'[s] = ckpt[s] /\ stub'[s] = stub[s]
  BY <1>1 DEF AppendTail, Leave, world, Discovered, NextPoint, TypeOK, TablesOK
<1>3. /\ NextPoint.off = work.off /\ NextPoint.fp = work.fp
      /\ work.off > 0
      /\ HeadOf(work.off, work.fp.head, written[src])
      /\ SameHead(file[src].recs, work.fp.head)
      /\ Behind(file[src], NextPoint, known)
      /\ Unwritten(src) => work.off = Complete(file[src])
  BY <1>1 DEF InHand, NextPoint
<1>4. known \subseteq Recs(rows'[src])
  BY <1>1, CommitHolds
<1> HIDE DEF src, known
<1>5. Headed'
  BY <1>1, <1>2, <1>3 DEF Headed
<1>6. PastIsKnown'
  <2>1. Behind(file[src], ckpt'[src], Recs(rows'[src]))
    BY <1>2, <1>3, <1>4 DEF Behind
  <2>2. \A s \in Sources \ {src} : Behind(file[s], ckpt'[s], Recs(rows'[s]))
    BY <1>1, <1>2 DEF PastIsKnown
  <2> QED
    BY <1>2, <2>1, <2>2 DEF PastIsKnown
<1>7. Timely'
  BY <1>1, <1>2 DEF Timely
<1>8. Told'
  <2>1. ASSUME seen'[src].mtime = file[src].mtime
        PROVE  Whole(file[src], Recs(rows'[src]))
    BY <1>2, <1>3, <1>4, <2>1 DEF Unwritten, Behind, Whole
  <2>2. ASSUME NEW s \in Sources \ {src}, seen'[s].by # 0, seen'[s].mtime = file[s].mtime,
               ~stub'[s]
        PROVE  Whole(file[s], Recs(rows'[s]))
    BY <1>1, <1>2, <2>2 DEF Told, Indexed
  <2> QED
    BY <1>2, <2>1, <2>2 DEF Told, Indexed
<1> QED
  BY <1>5, <1>6, <1>7, <1>8

\* upsert_session_with_mode: the checkpoint it leaves alone still holds for the new rows.
LEMMA ReadStoreParsed ==
  ASSUME ReadInv, StoreParsed
  PROVE  Headed' /\ PastIsKnown' /\ Timely' /\ InHand' /\ Told'
<1> DEFINE src == work.src
<1>1. /\ TypeOK /\ Headed /\ PastIsKnown /\ Timely /\ InHand /\ Told
      /\ pc = "store" /\ src \in Sources
  BY WorkTypes DEF ReadInv, StoreParsed
<1>2. /\ file' = file /\ written' = written /\ stat' = stat /\ ckpt' = ckpt /\ work' = work
      /\ pc' = "checkpoint"
      /\ seen'[src].mtime = stat[src].mtime
      /\ stub'[src] = work.failed
      /\ \A s \in Sources \ {src} : seen'[s] = seen[s] /\ rows'[s] = rows[s] /\ stub'[s] = stub[s]
  BY <1>1 DEF StoreParsed, world, Discovered, TypeOK, TablesOK
<1>3. /\ work.failed => ckpt[src].off = 0
      /\ ~work.failed => Behind(file[src], ckpt[src], Recs(work.rows))
      /\ ~work.failed /\ Unwritten(src) => Whole(file[src], Recs(work.rows))
      /\ Unwritten(src) /\ work.failed => file[src].status # "ok" \/ file[src].cut = 2
  BY <1>1 DEF InHand
<1>4. Recs(work.rows) \subseteq Recs(rows'[src])
  BY <1>1, CommitHolds
<1>5. work'.src = src
  BY <1>2
<1> HIDE DEF src
<1>6. Headed' /\ Timely'
  BY <1>1, <1>2 DEF Headed, Timely
<1>7. PastIsKnown'
  <2>1. Behind(file[src], ckpt[src], Recs(rows'[src]))
    BY <1>3, <1>4 DEF Behind
  <2>2. \A s \in Sources \ {src} : Behind(file[s], ckpt[s], Recs(rows'[s]))
    BY <1>1, <1>2 DEF PastIsKnown
  <2> QED
    BY <1>2, <2>1, <2>2 DEF PastIsKnown
<1>8. ~work.failed /\ Unwritten(src) => Whole(file[src], Recs(rows'[src]))
  BY <1>3, <1>4 DEF Whole
<1>9. InHand'
  BY <1>2, <1>3, <1>5, <1>8 DEF InHand, Unwritten
<1>10. Told'
  <2>1. ASSUME NEW s \in Sources \ {src}, seen'[s].by # 0, seen'[s].mtime = file[s].mtime,
               ~stub'[s]
        PROVE  Whole(file[s], Recs(rows'[s]))
    BY <1>1, <1>2, <2>1 DEF Told, Indexed
  <2> QED
    BY <1>2, <1>8, <2>1 DEF Told, Indexed, Unwritten
<1> QED
  BY <1>6, <1>7, <1>9, <1>10

\* set_file_checkpoint: the offset vouches for what the parse stored only if the file is still
\* the one discovery saw.
LEMMA ReadSetCheckpoint ==
  ASSUME ReadInv, SetCheckpoint
  PROVE  Headed' /\ PastIsKnown' /\ Timely' /\ Told'
<1> DEFINE src == work.src
           f == file[src]
<1>1. /\ TypeOK /\ Numbered /\ Headed /\ PastIsKnown /\ Timely /\ InHand /\ Told
      /\ pc = "checkpoint" /\ src \in Sources /\ f.status = "ok"
  BY WorkTypes DEF ReadInv, SetCheckpoint
<1>2. /\ UNCHANGED <<file, written, stat, seen, rows, stub>>
      /\ pc' = "visit"
      /\ ckpt'[src] = FullCheckpoint(src)
      /\ \A s \in Sources \ {src} : ckpt'[s] = ckpt[s]
  BY <1>1 DEF SetCheckpoint, Leave, world, TypeOK, TablesOK
<1>3. /\ f \in File /\ Len(f.recs) \in Nat /\ Keys(f.recs) \subseteq 1..written[src]
  BY <1>1, SourceTypes DEF Numbered
<1>4. FullCheckpoint(src).fp = Fingerprint(f)
  BY DEF FullCheckpoint
<1>5. ASSUME FullCheckpoint(src).off > 0
      PROVE  /\ Size(f) = stat[src].size /\ f.cut = 0
             /\ FullCheckpoint(src).off = Complete(f) /\ Complete(f) = Len(f.recs)
  <2>1. Size(f) = stat[src].size /\ f.cut = 0 /\ FullCheckpoint(src).off = Complete(f)
    BY <1>5 DEF FullCheckpoint
  <2> QED
    BY <2>1 DEF Complete
<1>6. ASSUME FullCheckpoint(src).off > 0
      PROVE  Whole(f, Recs(rows[src]))
  <2>1. Unwritten(src)
    BY <1>1, <1>5, <1>6 DEF Timely, Unwritten
  <2>2. ~work.failed
    BY <1>1, <1>5, <1>6, <2>1 DEF InHand
  <2> QED
    BY <1>1, <2>1, <2>2 DEF InHand
<1>7. ASSUME FullCheckpoint(src).off > 0
      PROVE  /\ SameHead(f.recs, Fingerprint(f).head)
             /\ HeadOf(FullCheckpoint(src).off, Fingerprint(f).head, written[src])
  <2>1. HeadRecords \in Nat
    BY ReindexAssumption DEF ReindexAssumption
  <2>2. FullCheckpoint(src).off \in Int /\ FullCheckpoint(src).off <= Len(f.recs)
    BY <1>3, <1>5, <1>7
  <2> HIDE DEF f
  <2> QED
    BY <1>3, <2>1, <2>2, FingerprintHead
<1>8. Headed'
  <2>1. FullCheckpoint(src).off > 0 =>
          /\ HeadOf(ckpt'[src].off, ckpt'[src].fp.head, written[src])
          /\ SameHead(file[src].recs, ckpt'[src].fp.head)
    BY <1>2, <1>4, <1>7
  <2> HIDE DEF src, f
  <2> QED
    BY <1>1, <1>2, <2>1 DEF Headed
<1>9. PastIsKnown'
  <2>1. Behind(f, ckpt'[src], Recs(rows[src]))
    <3>1. CASE FullCheckpoint(src).off > 0
      BY <1>2, <1>3, <1>5, <1>6, <3>1 DEF Behind, Whole
    <3>2. CASE ~(FullCheckpoint(src).off > 0)
      BY <1>2, <3>2 DEF Behind
    <3> QED
      BY <3>1, <3>2
  <2> HIDE DEF src
  <2> QED
    BY <1>1, <1>2, <2>1 DEF PastIsKnown
<1>10. Timely' /\ Told'
  BY <1>1, <1>2 DEF Timely, Told, Indexed
<1> QED
  BY <1>8, <1>9, <1>10

LEMMA ReadTables ==
  ASSUME RewritesShow, ReadInv, [Next]_vars
  PROVE  Headed' /\ PastIsKnown' /\ Timely' /\ Told'
<1>1. TypeOK /\ Headed /\ PastIsKnown /\ Timely /\ Told
  BY DEF ReadInv
<1>2. CASE Environment
  BY <1>2, ReadEnvironmentTables
<1>3. CASE AppendTail \/ StoreParsed \/ SetCheckpoint
  BY <1>3, ReadAppendTail, ReadStoreParsed, ReadSetCheckpoint
<1>4. ASSUME UNCHANGED <<world, tables>>
      PROVE  Headed' /\ PastIsKnown' /\ Told'
  BY <1>1, <1>4 DEF world, tables, Headed, PastIsKnown, Told, Indexed
<1>5. CASE Discover
  <2>1. UNCHANGED <<world, tables>>
    BY <1>5 DEF Discover
  <2>2. \A s \in Sources : /\ stat'[s].mtime = file[s].mtime /\ stat'[s].size = Size(file[s])
                           /\ file[s].mtime \in Nat /\ Size(file[s]) \in Int
    <3> SUFFICES ASSUME NEW s \in Sources
                 PROVE  /\ stat'[s].mtime = file[s].mtime /\ stat'[s].size = Size(file[s])
                        /\ file[s].mtime \in Nat /\ Size(file[s]) \in Int
      OBVIOUS
    <3>1. file[s] \in File
      BY <1>1, SourceTypes
    <3>2. SameText(file[s], file[s])
      BY DEF SameText
    <3>3. file[s].mtime \in Nat /\ Size(file[s]) \in Int
      BY <3>1, <3>2, TextTimes
    <3> QED
      BY <1>5, <3>3 DEF Discover
  <2>3. Timely'
    BY <1>1, <2>1, <2>2 DEF Timely, world, tables
  <2> QED
    BY <1>4, <2>1, <2>3
<1>6. CASE UNCHANGED vars
  BY <1>1, <1>6 DEF vars, Headed, PastIsKnown, Timely, Told, Indexed
<1>7. CASE UNCHANGED <<world, tables, stat>> /\ (pc # "idle" \/ pc' = "idle")
  <2>1. Timely'
    BY <1>1, <1>7 DEF Timely, world, tables
  <2> QED
    BY <1>4, <1>7, <2>1
<1> QED
  BY <1>2, <1>3, <1>5, <1>6, <1>7, ReadKinds

LEMMA ReadWork ==
  ASSUME RewritesShow, ReadInv, [Next]_vars
  PROVE  InHand'
<1>1. /\ TypeOK /\ Numbered /\ IndexedFirst /\ Headed /\ PastIsKnown /\ Timely /\ InHand
      /\ HeadRecords \in Nat
  BY ReindexAssumption DEF ReindexAssumption, ReadInv
<1>2. ASSUME pc' \in {"idle", "visit", "parse"}
      PROVE  InHand'
  BY <1>2 DEF InHand
<1>3. CASE Environment
  BY <1>3, ReadEnvironmentWork
<1>4. ASSUME NEW s \in Sources, StartTail(s)
      PROVE  InHand'
  <2>1. /\ pc' = "tail" /\ work'.src = s /\ ckpt' = ckpt /\ ckpt[s].off > 0 /\ file' = file
        /\ Matches(file[s], ckpt[s].fp)
    BY <1>4 DEF StartTail, Enter, Reading, NoWork, TailCandidate, tables, world
  <2>2. SameHead(file[s].recs, ckpt[s].fp.head)
    <3>1. file[s] \in File /\ ckpt[s].fp \in Prints
      BY <1>1, SourceTypes DEF TypeOK, TablesOK
    <3> QED
      BY <2>1, <3>1, MatchesHead
  <2> QED
    BY <2>1, <2>2 DEF InHand
<1>5. CASE TailRead
  <2> DEFINE s == work.src
             f == file[s]
             off == ckpt[s].off
             last == Complete(f)
             r == Render(f, off, last)
  <2>1. pc = "tail" /\ s \in Sources /\ off > 0 /\ SameHead(f.recs, ckpt[s].fp.head)
    BY <1>1, <1>5, WorkTypes DEF TailRead, InHand
  <2>2. /\ f \in File /\ off \in Nat /\ Len(f.recs) \in Nat
        /\ Keys(f.recs) \subseteq 1..written[s]
    BY <1>1, <2>1, SourceTypes DEF Numbered
  <2>3. last \in Nat /\ last <= Len(f.recs) /\ off < last
    BY <1>5, <2>2 DEF TailRead, Complete
  <2>4. /\ pc' = "append" /\ UNCHANGED <<file, written, stat, rows>>
        /\ work'.src = s /\ work'.rows = r /\ work'.off = last /\ work'.fp = Fingerprint(f)
    BY <1>5 DEF TailRead, world, tables
  <2>5. \A i \in 1..off : f.recs[i] \in Recs(rows[s])
    BY <1>1, <2>1 DEF PastIsKnown, Behind
  <2>6. \A i \in 1..last : off < i => f.recs[i] \in Recs(r)
    <3> SUFFICES ASSUME NEW i \in 1..last, off < i PROVE f.recs[i] \in Recs(r)
      OBVIOUS
    <3> HIDE DEF off, last, f, s
    <3>1. i - off \in 1..(last - off) /\ off + (i - off) = i
      BY <2>2, <2>3
    <3>2. i - off \in DOMAIN r /\ r[i - off].rec = f.recs[i]
      BY <3>1 DEF Render
    <3> QED
      BY <3>2 DEF Recs, Keys
  <2>7. \A i \in 1..last : f.recs[i] \in Recs(rows[s]) \cup Recs(r)
    <3> SUFFICES ASSUME NEW i \in 1..last PROVE f.recs[i] \in Recs(rows[s]) \cup Recs(r)
      OBVIOUS
    <3> HIDE DEF off, last, f, s, r
    <3>1. off \in Nat /\ last \in Nat
      BY <2>2, <2>3
    <3>2. i \in 1..off \/ off < i
      BY <3>1
    <3> QED
      BY <2>5, <2>6, <3>2
  <2>8. SameHead(f.recs, Fingerprint(f).head) /\ HeadOf(last, Fingerprint(f).head, written[s])
    <3>1. HeadRecords \in Nat /\ f \in File /\ Keys(f.recs) \subseteq 1..written[s]
      BY <1>1, <2>2
    <3>2. last \in Int /\ last <= Len(f.recs)
      BY <2>3
    <3> HIDE DEF f, last, s, off, r
    <3> QED
      BY <3>1, <3>2, FingerprintHead
  <2>9. last > 0
    BY <2>1, <2>2, <2>3
  <2> HIDE DEF f, off, r, s
  <2>10. Behind(f, [off |-> last, fp |-> Fingerprint(f)], Recs(rows[s]) \cup Recs(r))
    BY <2>3, <2>7 DEF Behind
  <2>11. NextPoint' = [off |-> last, fp |-> Fingerprint(f)]
    BY <2>4 DEF NextPoint
  <2> HIDE DEF last
  <2> QED
    BY <2>4, <2>8, <2>9, <2>10, <2>11 DEF InHand, f, last
<1>6. CASE FullRead
  <2> DEFINE s == work.src
             f == file[s]
             n == Parseable(f)
             r == Render(f, 0, n)
  <2>1. s \in Sources
    BY <1>1, <1>6, WorkTypes DEF FullRead
  <2>2. f \in File /\ Len(f.recs) \in Nat /\ ckpt[s].off \in Nat /\ f.cut \in 0..2
    BY <1>1, <2>1, SourceTypes DEF File
  <2>3. n \in Int /\ Complete(f) \in Int /\ Complete(f) <= n
    BY <2>2 DEF Parseable, Complete
  <2>4. /\ pc' = "store" /\ UNCHANGED <<file, stat, ckpt>>
        /\ work'.src = s /\ work'.rows = r /\ work'.failed = FALSE
    BY <1>6 DEF FullRead, Reading, NoWork, world, tables
  <2>5. \A i \in 1..Complete(f) : f.recs[i] \in Recs(r)
    <3> SUFFICES ASSUME NEW i \in 1..Complete(f) PROVE f.recs[i] \in Recs(r)
      OBVIOUS
    <3> HIDE DEF n, f, s
    <3>1. i \in 1..(n - 0) /\ 0 + i = i
      BY <2>3
    <3>2. i \in DOMAIN r /\ r[i].rec = f.recs[i]
      BY <3>1 DEF Render
    <3> QED
      BY <3>2 DEF Recs, Keys
  <2>6. Behind(f, ckpt[s], Recs(rows[s]))
    BY <1>1, <2>1 DEF PastIsKnown
  <2> HIDE DEF f, r, n
  <2>7. Behind(f, ckpt[s], Recs(r))
    BY <2>2, <2>3, <2>5, <2>6 DEF Behind
  <2> HIDE DEF s
  <2> QED
    BY <2>4, <2>5, <2>7 DEF InHand, Whole, f
<1>7. CASE StubAfterFailure
  <2> DEFINE s == work.src
             f == file[s]
  <2>1. /\ pc' = "store" /\ work'.src = s /\ work'.failed = TRUE
        /\ UNCHANGED <<ckpt, file, stat>> /\ s \in Sources /\ ~Indexed(s) /\ ParseFails(f)
    BY <1>1, <1>7, WorkTypes DEF StubAfterFailure, Reading, NoWork, tables, world
  <2>2. ckpt[s].off = 0
    BY <1>1, <2>1 DEF IndexedFirst
  <2>3. f.status # "ok" \/ f.cut = 2
    BY <2>1 DEF ParseFails
  <2> HIDE DEF s
  <2> QED
    BY <2>1, <2>2, <2>3 DEF InHand
<1>8. CASE StoreParsed
  BY <1>8, ReadStoreParsed
<1>9. ASSUME NEW s \in Sources, Skip(s) \/ StartFullParse(s) \/ FingerprintError(s)
      PROVE  InHand'
  BY <1>2, <1>9 DEF Skip, StartFullParse, FingerprintError, Enter, Return
<1>10. CASE TailNothingNew \/ TailRefused \/ AppendTail \/ KeepAfterFailure
              \/ SetCheckpoint \/ CheckpointError
  BY <1>2, <1>10 DEF TailNothingNew, TailRefused, AppendTail, KeepAfterFailure,
                     SetCheckpoint, CheckpointError, Leave, Return
<1>11. CASE SwitchBuild \/ Discover \/ Finish \/ Abort
  BY <1>2, <1>11 DEF SwitchBuild, Discover, Finish, Abort, Return
<1>12. CASE UNCHANGED vars
  BY <1>1, <1>12 DEF vars, InHand, NextPoint, Unwritten
<1> QED
  BY <1>3, <1>4, <1>5, <1>6, <1>7, <1>8, <1>9, <1>10, <1>11, <1>12
     DEF Next, Refresh, Visit, Handle

LEMMA ReadInvInit == Init => ReadInv
<1> SUFFICES ASSUME Init PROVE ReadInv
  OBVIOUS
<1>1. Distinct(<< >>) /\ Keys(<< >>) = {}
  BY DEF Distinct, Keys
<1>2. Numbered
  BY <1>1 DEF Init, Numbered
<1>3. IndexedFirst /\ Headed /\ PastIsKnown
  BY DEF Init, IndexedFirst, Headed, PastIsKnown, Behind, NoCheckpoint
<1>4. Timely /\ InHand /\ Told
  BY DEF Init, Timely, InHand, Told, Indexed, NotSeen
<1> QED
  BY <1>2, <1>3, <1>4, InitType DEF ReadInv

LEMMA ReadInvStep == RewritesShow /\ ReadInv /\ [Next]_vars => ReadInv'
<1> SUFFICES ASSUME RewritesShow, ReadInv, [Next]_vars PROVE ReadInv'
  OBVIOUS
<1>1. TypeOK' /\ Numbered' /\ IndexedFirst'
  BY StepType, NumberedStep, IndexedStep DEF ReadInv
<1> QED
  BY <1>1, ReadTables, ReadWork DEF ReadInv

LEMMA ToldIsComplete == ReadInv /\ ParserInv => CurrentMeansComplete
<1> SUFFICES ASSUME ReadInv, ParserInv, NEW s \in Sources, Settled(s),
                    NEW i \in 1..Complete(file[s])
             PROVE  Holds(s, file[s].recs[i])
  BY DEF CurrentMeansComplete, AllHeld
<1>1. TypeOK /\ RowsOfOneParser /\ Told
  BY DEF ReadInv, ParserInv
<1>2. seen[s].mtime = file[s].mtime /\ seen[s].by = version /\ ~stub[s]
  BY DEF Settled, Unchanged
<1>3. version # 0
  BY <1>1, ReindexAssumption DEF ReindexAssumption, TypeOK, RefreshOK
<1>4. file[s].recs[i] \in Recs(rows[s])
  BY <1>1, <1>2, <1>3 DEF Told, Indexed, Whole
<1>5. PICK k \in DOMAIN rows[s] : rows[s][k].rec = file[s].recs[i]
  BY <1>4 DEF Recs, Keys
<1>6. rows[s][k].by = version
  BY <1>1, <1>2 DEF RowsOfOneParser
<1>7. rows[s][k] \in RowSet
  <2>1. rows[s] \in Seq(RowSet)
    BY <1>1, SourceTypes
  <2> QED
    BY <2>1, ElementOfSeq
<1> QED
  BY <1>5, <1>6, <1>7 DEF Holds, RowSet

\* A source the refresh would skip lacks none of its complete records, however its transcript grew
\* and was rewritten between refreshes, whichever builds ran and wherever refreshes were cut off:
\* skipping by mtime, size and version, and reading only past the checkpoint, cost no message. The
\* stub of a source that has never been parsed claims nothing (see NoRepairNeeded).
THEOREM SkippedIsComplete == Spec /\ RewritesShow => []CurrentMeansComplete
<1> SUFFICES ASSUME RewritesShow PROVE Spec => []CurrentMeansComplete
  OBVIOUS
<1>1. ReadInv /\ [Next]_vars => ReadInv'
  BY ReadInvStep
<1>2. Spec => []ReadInv
  BY <1>1, ReadInvInit, PTL DEF Spec
<1>3. Spec => []ParserInv
  BY ParserInvInit, ParserInvStep, PTL DEF Spec
<1> QED
  BY <1>2, <1>3, ToldIsComplete, PTL
=============================================================================
