------------------------- MODULE SourceReconciliation -------------------------
(***************************************************************************)
(* Which session a transcript is: the reconciliation of indexer.rs and the *)
(* upsert of db.rs, over files that are copied, moved, left behind as      *)
(* links, renamed and given other session ids.  A session is named by the  *)
(* id its transcript declares, so several files can claim one session, and *)
(* one file can leave a session for another.  What the refresh knows of    *)
(* the stored sessions it reads once, before it visits the first source.   *)
(*                                                                         *)
(* Reindex has the races of one transcript; here the visit of a source is  *)
(* one step: the read, the upsert and the checkpoint.  One provider and    *)
(* one parser version; hard links, which discovery reduces to one source,  *)
(* are left out.  Records are never repeated but by copies of their file.  *)
(***************************************************************************)
EXTENDS Naturals, FiniteSetsExt, ArchiveRows

CONSTANTS
  Paths,
  Ids,
  Stem,        \* Stem[p]: the session a file at p is if its parse fails
  MaxWrites,   \* how often files are written, copied and given ids
  MaxMoves,    \* how often files are moved, removed and broken
  MaxRuns,     \* how many full refreshes run, and how many refreshes are cut off
  None         \* no file, no link, no session, no metadata

Transcripts == [id : Ids, recs : Seq(Nat), time : Nat]
StoredSessions == [path : Paths, rows : Seq(Nat)]
Entries == [time : Nat, off : Nat, head : Nat]

ASSUME SourcesAssumption ==
  /\ IsFiniteSet(Paths) /\ IsFiniteSet(Ids)
  /\ Stem \in [Paths -> Ids]
  /\ MaxWrites \in Nat /\ MaxMoves \in Nat /\ MaxRuns \in Nat
  /\ None \notin Paths \cup Ids
  /\ None \notin Transcripts /\ None \notin StoredSessions /\ None \notin Entries

VARIABLES
  file,      \* file[p]: the transcript at the canonical path p
  link,      \* link[p]: where a link that was left at p leads
  writes, moves,
  session,   \* session[i]: source_path and the rows of session i
  seen,      \* files_seen[p]: the file p was when it was indexed, and the checkpoint
  pc, full, runs,
  todo,      \* sources not yet visited by this refresh
  found,     \* discovered_source_paths
  stat,      \* stat[p]: what discovery saw of p
  plan       \* plan[p]: what source_reconciliation and indexed_source_paths say of p

disk == <<file, link, writes, moves>>
index == <<session, seen>>
refresh == <<pc, full, runs, todo, found, stat, plan>>
vars == <<disk, index, refresh>>

Live == {p \in Paths : file[p] # None}
Sessions == {i \in Ids : session[i] # None}

(* canonicalize, and what a read of p reads: a link is followed, but not a *)
(* chain of links, which takes two moves.                                  *)
Resolve(p) ==
  IF file[p] # None THEN p
  ELSE IF link[p] # None /\ file[link[p]] # None THEN link[p] ELSE None
Content(p) == IF Resolve(p) = None THEN None ELSE file[Resolve(p)]

-----------------------------------------------------------------------------
(* The harnesses and the user                                              *)

(* Every write has a modification time of its own, which names the record  *)
(* it adds.  A transcript without a whole record cannot be parsed.         *)
Put(p, id, recs) ==
  /\ writes < MaxWrites
  /\ writes' = writes + 1
  /\ file' = [file EXCEPT ![p] = [id |-> id, recs |-> recs, time |-> writes + 1]]
  /\ link' = [link EXCEPT ![p] = None]
  /\ UNCHANGED <<moves, index, refresh>>

Create(p, id, whole) ==
  file[p] = None /\ Put(p, id, IF whole THEN <<writes + 1>> ELSE << >>)
Write(p)        == p \in Live /\ Put(p, file[p].id, Append(file[p].recs, writes + 1))
Compact(p)      == p \in Live /\ Put(p, file[p].id, <<writes + 1>>)
Truncate(p) ==
  /\ p \in Live /\ file[p].recs # << >>
  /\ Put(p, file[p].id, SubSeq(file[p].recs, 1, Len(file[p].recs) - 1))
Redeclare(p, i) == p \in Live /\ i # file[p].id /\ Put(p, i, file[p].recs)
Copy(p, q)      == p \in Live /\ file[q] = None /\ Put(q, file[p].id, file[p].recs)

(* A file that is moved keeps its time, and may leave a link behind.       *)
Move(p, q, leaves) ==
  /\ moves < MaxMoves
  /\ p \in Live /\ file[q] = None
  /\ moves' = moves + 1
  /\ file' = [file EXCEPT ![q] = file[p], ![p] = None]
  /\ link' = [link EXCEPT ![q] = None, ![p] = IF leaves THEN q ELSE None]
  /\ UNCHANGED <<writes, index, refresh>>

Remove(p) ==
  /\ moves < MaxMoves
  /\ p \in Live
  /\ moves' = moves + 1
  /\ file' = [file EXCEPT ![p] = None]
  /\ UNCHANGED <<link, writes, index, refresh>>

Environment ==
  \E p \in Paths :
    \/ Write(p) \/ Compact(p) \/ Truncate(p) \/ Remove(p)
    \/ \E i \in Ids : Redeclare(p, i) \/ \E whole \in BOOLEAN : Create(p, i, whole)
    \/ \E q \in Paths : Copy(p, q) \/ \E leaves \in BOOLEAN : Move(p, q, leaves)

-----------------------------------------------------------------------------
(* The start of a refresh                                                  *)

NoStat == [time |-> 0, len |-> 0]
NoPlan == [ids |-> {}, aliases |-> {}, indexed |-> FALSE]

Discover ==
  /\ pc = "idle"
  /\ full' \in BOOLEAN
  /\ full' => runs < MaxRuns
  /\ runs' = IF full' THEN runs + 1 ELSE runs
  /\ pc' = "reconcile"
  /\ todo' = Live /\ found' = Live
  /\ stat' = [p \in Paths |-> IF p \in Live
                              THEN [time |-> file[p].time, len |-> Len(file[p].recs)] ELSE NoStat]
  /\ UNCHANGED <<disk, index, plan>>

(* source_reconciliation: the sessions whose stored path leads to p now,   *)
(* and the other paths they are stored under.                              *)
At(p) == {i \in Sessions : Resolve(session[i].path) = p}

Reconcile ==
  /\ pc = "reconcile"
  /\ pc' = "visit"
  /\ plan' = [p \in Paths |->
                IF p \in todo
                THEN [ids     |-> At(p),
                      aliases |-> {session[i].path : i \in At(p)} \ {p},
                      indexed |-> \E i \in Sessions : session[i].path = p]
                ELSE NoPlan]
  /\ UNCHANGED <<disk, index, full, runs, todo, found, stat>>

-----------------------------------------------------------------------------
(* The visit of a source                                                   *)

Leave(p) ==
  /\ todo' = todo \ {p}
  /\ stat' = [stat EXCEPT ![p] = NoStat] /\ plan' = [plan EXCEPT ![p] = NoPlan]
  /\ UNCHANGED <<disk, pc, full, runs, found>>

(* The error of a statement ends the refresh, as a crash or a cancellation *)
(* does.                                                                   *)
Return ==
  /\ pc' = "idle" /\ todo' = {} /\ found' = {}
  /\ stat' = [p \in Paths |-> NoStat] /\ plan' = [p \in Paths |-> NoPlan]
  /\ UNCHANGED <<disk, full>>

Visiting(p) == pc = "visit" /\ p \in todo

\* A mutant: metadata of the source is enough, whoever has its session.
KnownIfSeen(p) == plan[p].ids # {} \/ seen[p] # None

Known(p) == plan[p].ids # {}

Reparse(p) == plan[p].aliases # {} \/ Cardinality(plan[p].ids) > 1
Current(p) == seen[p] # None /\ seen[p].time = stat[p].time

\* current_without_session: indexed as it is, for a session that is another file's.
Orphan(p) == ~full /\ Current(p) /\ ~Known(p)

Skip(p) ==
  /\ Visiting(p)
  /\ ~full /\ Current(p) /\ Known(p) /\ ~Reparse(p)
  /\ Leave(p)
  /\ UNCHANGED index

(* try_tail, up to its fingerprint test.                                   *)
TailCandidate(p) ==
  /\ ~full /\ ~Current(p) /\ ~Reparse(p)
  /\ seen[p] # None /\ seen[p].off > 0 /\ stat[p].len > seen[p].off

\* A mutant: a file that has grown is a file that was appended to.
HeadUnchecked(p) == TRUE

HeadMatches(p) ==
  IF Content(p).recs = << >> THEN FALSE ELSE Content(p).recs[1] = seen[p].head

(* The new records go to the session of the tail if that is the one that   *)
(* was stored for the source alone when the refresh began.                 *)
AppendTail(p) ==
  /\ Visiting(p) /\ TailCandidate(p)
  /\ Content(p) # None /\ HeadMatches(p)
  /\ LET now == Content(p)
     IN /\ plan[p].ids = {now.id} /\ now.id \in Sessions
        /\ Len(now.recs) > seen[p].off
        /\ session' = [session EXCEPT ![now.id].rows =
                         @ \o SubSeq(now.recs, seen[p].off + 1, Len(now.recs))]
        /\ seen' = [seen EXCEPT ![p].time = stat[p].time, ![p].off = Len(now.recs)]
  /\ Leave(p)

TailNothingNew(p) ==
  /\ Visiting(p) /\ TailCandidate(p)
  /\ Content(p) # None /\ HeadMatches(p) /\ Len(Content(p).recs) <= seen[p].off
  /\ Leave(p)
  /\ UNCHANGED index

\* The session the new records belong to was retired by a source visited before this one, and
\* no message is stored without its session.
SessionGone(p) ==
  LET now == Content(p)
  IN /\ HeadMatches(p) /\ Len(now.recs) > seen[p].off
     /\ plan[p].ids = {now.id} /\ now.id \notin Sessions

\* The other way for a tail to end the refresh: the fingerprint's file does not open.
TailError(p) ==
  /\ Visiting(p) /\ TailCandidate(p)
  /\ Content(p) # None => SessionGone(p)
  /\ Return
  /\ UNCHANGED <<index, runs>>

(* Whatever is not skipped may be parsed in full: a tail is refused on any *)
(* doubt.                                                                  *)
Parsing(p) ==
  /\ Visiting(p)
  /\ full \/ ~Current(p) \/ ~Known(p) \/ Reparse(p)
  /\ TailCandidate(p) => Content(p) # None

Fails(p) == Content(p) # None => Content(p).recs = << >>

\* A failed parse of an indexed source is not a new state of the archive.
KeepFailed(p) ==
  /\ Parsing(p) /\ Fails(p)
  /\ Known(p) \/ plan[p].indexed
  /\ Leave(p)
  /\ UNCHANGED index

\* What the parse stands for: minimal_record names the session after the file.
Parsed(p) ==
  IF Fails(p) THEN [id |-> Stem[p], recs |-> << >>]
  ELSE [id |-> Content(p).id, recs |-> Content(p).recs]

Storable(p) == Parsing(p) /\ (Fails(p) => ~Known(p) /\ ~plan[p].indexed)

\* A mutant: whoever is visited takes the session.
HeldNever(p) == FALSE

\* The holder of the session is a live file: exact_session_source_path.
Held(p) ==
  LET holder == session[Parsed(p).id] IN Orphan(p) /\ holder # None /\ holder.path \in found

LeaveToHolder(p) ==
  /\ Storable(p) /\ Held(p)
  /\ Leave(p)
  /\ UNCHANGED index

(* upsert_session_with_mode, one transaction.  The source's other names    *)
(* are forgotten, the sessions stored under any of them become this one,   *)
(* and the rows of the parse join the rows held, unless the source was     *)
(* never indexed under any of them.                                        *)
SourcePaths(p) == {p} \cup plan[p].aliases
SameParser(p) == \E q \in SourcePaths(p) : seen[q] # None
Retired(p) == {i \in Sessions : session[i].path \in SourcePaths(p) /\ i # Parsed(p).id}
RowsOf(i) == IF session[i] = None THEN << >> ELSE session[i].rows
Joined(held, ids) == FoldSet(LAMBDA i, rows : Merged(rows, RowsOf(i)), held, ids)

Upsert(p) ==
  LET id   == Parsed(p).id
      held == Joined(RowsOf(id), Retired(p))
  IN session' = [i \in Ids |->
                   IF i = id
                   THEN [path |-> p, rows |-> Stored(held, Parsed(p).recs, SameParser(p))]
                   ELSE IF i \in Retired(p) THEN None ELSE session[i]]

\* full_parse_checkpoint and the metadata of the upsert.
Indexed(p) ==
  [time |-> stat[p].time,
   off  |-> IF Content(p).time = stat[p].time THEN Len(Parsed(p).recs) ELSE 0,
   head |-> IF Fails(p) THEN 0 ELSE Parsed(p).recs[1]]

Forget(aliases, p, entry) ==
  seen' = [q \in Paths |-> IF q = p THEN entry ELSE IF q \in aliases THEN None ELSE seen[q]]

Store(p) ==
  /\ Storable(p) /\ ~Held(p) /\ Content(p) # None
  /\ Upsert(p)
  /\ Forget(plan[p].aliases, p, Indexed(p))
  /\ Leave(p)

\* The stub of a file that is gone is stored, and its checkpoint fails.
StoreGone(p) ==
  /\ Storable(p) /\ ~Held(p) /\ Content(p) = None
  /\ Upsert(p)
  /\ Forget(plan[p].aliases, p,
            IF seen[p] = None THEN [time |-> stat[p].time, off |-> 0, head |-> 0]
            ELSE [seen[p] EXCEPT !.time = stat[p].time])
  /\ Return
  /\ UNCHANGED runs

Finish ==
  /\ pc = "visit" /\ todo = {}
  /\ Return
  /\ UNCHANGED <<index, runs>>

Abort ==
  /\ pc # "idle" /\ runs < MaxRuns
  /\ runs' = runs + 1
  /\ Return
  /\ UNCHANGED index

-----------------------------------------------------------------------------
Init ==
  /\ file = [p \in Paths |-> None] /\ link = [p \in Paths |-> None]
  /\ writes = 0 /\ moves = 0
  /\ session = [i \in Ids |-> None] /\ seen = [p \in Paths |-> None]
  /\ pc = "idle" /\ full = FALSE /\ runs = 0
  /\ todo = {} /\ found = {}
  /\ stat = [p \in Paths |-> NoStat] /\ plan = [p \in Paths |-> NoPlan]

Visit(p) ==
  \/ Skip(p) \/ AppendTail(p) \/ TailNothingNew(p) \/ TailError(p)
  \/ KeepFailed(p) \/ LeaveToHolder(p) \/ Store(p) \/ StoreGone(p)

Refresh == Discover \/ Reconcile \/ (\E p \in Paths : Visit(p)) \/ Finish

Next == Environment \/ Refresh \/ Abort

Spec == Init /\ [][Next]_vars

(* Reads trigger refresh after refresh, and a refresh runs on.             *)
FairSpec == Spec /\ WF_vars(Refresh)

-----------------------------------------------------------------------------
TypeOK ==
  /\ file \in [Paths -> Transcripts \cup {None}] /\ link \in [Paths -> Paths \cup {None}]
  /\ writes \in 0..MaxWrites /\ moves \in 0..MaxMoves /\ runs \in 0..MaxRuns
  /\ session \in [Ids -> StoredSessions \cup {None}] /\ seen \in [Paths -> Entries \cup {None}]
  /\ pc \in {"idle", "reconcile", "visit"} /\ full \in BOOLEAN
  /\ todo \subseteq Paths /\ found \subseteq Paths
  /\ stat \in [Paths -> [time : Nat, len : Nat]]
  /\ plan \in [Paths -> [ids : SUBSET Ids, aliases : SUBSET Paths, indexed : BOOLEAN]]

Archived == UNION {Keys(session[i].rows) : i \in Sessions}

(* A record leaves the index only when a file that was never indexed,      *)
(* under this or another name, is given its session: a file that changes   *)
(* its session, its place or its records, and a session several files      *)
(* claim, cost nothing.                                                    *)
OnlyFirstParseReplaces ==
  [][Archived \subseteq Archived' \/ \E p \in todo : ~SameParser(p) /\ seen'[p] # None]_vars

(* The files a refresh passes over.                                        *)
PassedOver ==
  {p \in Live :
     /\ seen[p] # None /\ seen[p].time = file[p].time
     /\ Cardinality(At(p)) = 1 /\ \A i \in At(p) : session[i].path = p}

(* What a refresh passes over is in the index: the one session of the      *)
(* source is the one it declares, and has all its records.                 *)
PassedOverIsIndexed ==
  \A p \in PassedOver : file[p].recs # << >> =>
    /\ At(p) = {file[p].id}
    /\ Keys(file[p].recs) \subseteq Keys(session[file[p].id].rows)

(* Once files are left alone, every one of them is in the session it       *)
(* declares or leaves it to another live file, and no session is stored    *)
(* under a link to a file that can be parsed.                              *)
EventuallyReconciled ==
  <>[](/\ \A p \in Live : file[p].recs # << >> =>
            session[file[p].id] # None /\ session[file[p].id].path \in Live
       /\ \A i \in Sessions :
            Content(session[i].path) # None /\ session[i].path \notin Live
              => Content(session[i].path).recs = << >>)

(* Then the index stops changing: files that claim one session do not take *)
(* it from each other for ever.                                            *)
EventuallyStill == <>[][UNCHANGED index]_vars

(* A removed file is not visited again, so its history is retained.        *)
RemovedIsRetained ==
  [][\A i \in Sessions :
       Resolve(session[i].path) = None => Keys(session[i].rows) \subseteq Archived']_vars

NoDuplicates ==
  \A i \in Sessions : \A j, k \in DOMAIN session[i].rows :
    session[i].rows[j] = session[i].rows[k] => j = k
=============================================================================
