------------------------------- MODULE Reindex -------------------------------
(***************************************************************************)
(* The index refresh of indexer.rs (reindex_until) over a set of session   *)
(* transcripts, together with the tables of db.rs it writes: files_seen    *)
(* (mtime, size, parser version, tail checkpoint), sessions and messages.  *)
(* Harnesses append to, rewrite and remove their transcripts while the     *)
(* refresh runs, and the refresh can stop between any two of its           *)
(* transactions.  The cross-process writer election is in RefreshElection; *)
(* here one elected writer runs at a time.                                 *)
(*                                                                         *)
(* A transcript is a sequence of records.  Its last record may lack bytes: *)
(* cut = 1 is a valid record without its newline, cut = 2 a torn one.      *)
(* Every record is three bytes long, which is enough to tell the two apart *)
(* by size.  Records are never repeated, so a row that occurs twice was    *)
(* stored twice; ArchiveRows counts copies, for messages that repeat.      *)
(***************************************************************************)
EXTENDS Integers, ArchiveRows

CONSTANTS
  Sources,       \* transcript files in the configured discovery set
  TailSources,   \* those whose provider has a tail parser (not AiStudio, GeminiCli)
  Versions,      \* parser versions of the builds that may run (provider_parse_version)
  HeadRecords,   \* records covered by the head fingerprint (FINGERPRINT_LEN)
  Rewrites,      \* kinds of rewrite the harnesses perform: subset of {"newhead", "samehead"}
  Faults,        \* what may befall a file: subset of {"unreadable", "gone"}
  DisturbPoints, \* program points of the refresh at which rewrites and faults may hit
  ReturnPoints,  \* those at which a file may become accessible again
  AbortPoints,   \* program points at which a refresh can be cut off (crash, kill, cancellation)
  MaxChanges,    \* bound: changes of one transcript
  MaxRecords,    \* bound: records ever written to one transcript
  MaxMishaps     \* bound: refreshes cut off and files made inaccessible

Points == {"idle", "visit", "tail", "append", "parse", "store", "checkpoint"}

ReindexAssumption ==
  /\ IsFiniteSet(Sources) /\ TailSources \subseteq Sources
  /\ Versions \subseteq Nat \ {0} /\ Versions # {}
  /\ HeadRecords \in Nat \ {0}
  /\ Rewrites \subseteq {"newhead", "samehead"}
  /\ Faults \subseteq {"unreadable", "gone"}
  /\ DisturbPoints \subseteq Points /\ ReturnPoints \subseteq Points
  /\ AbortPoints \subseteq Points \ {"idle"}
  /\ MaxChanges \in Nat /\ MaxRecords \in Nat /\ MaxMishaps \in Nat
ASSUME ReindexAssumption

VARIABLES
  file,     \* file[s]: records, missing bytes of the last one, mtime, accessibility
  written,  \* written[s]: number of records ever written to s (names the next fresh one)
  seen,     \* files_seen: mtime, size and parser version a source was last indexed with
  ckpt,     \* files_seen: tail_byte_offset (in records) and prefix_fingerprint
  rows,     \* messages: the stored rows of the source's session, in seq order
  stub,     \* sessions: the row is a "(parse failed)" stub (minimal_record)
  version,  \* parser version of the running build
  pc,       \* where reindex_until is
  full,     \* its `full` argument
  todo,     \* sources not yet visited by this refresh
  stat,     \* mtime and size discovery captured (SourceFile)
  work,     \* the source being handled and what was read from it
  mishaps   \* refreshes cut off and files made inaccessible so far (only for the bound)

vars == <<file, written, seen, ckpt, rows, stub, version, pc, full, todo, stat, work, mishaps>>
world == <<file, written>>
tables == <<seen, ckpt, rows, stub>>
-----------------------------------------------------------------------------
(* Transcripts *)

RecordBytes == 3
Least(a, b) == IF a <= b THEN a ELSE b

Size(f) == RecordBytes * Len(f.recs) - f.cut

\* complete_prefix_offset: records up to and including the last newline.
Complete(f) == IF f.cut > 0 THEN Len(f.recs) - 1 ELSE Len(f.recs)

\* A full parse accepts a final record that only lacks its newline and skips a torn one.
Parseable(f) == IF f.cut = 2 THEN Len(f.recs) - 1 ELSE Len(f.recs)

\* prefix_fingerprint and fingerprint_matches.
Fingerprint(f) ==
  [len  |-> Least(Size(f), RecordBytes * HeadRecords),
   head |-> SubSeq(f.recs, 1, Least(Len(f.recs), HeadRecords))]
Matches(f, fp) ==
  /\ Size(f) >= fp.len
  /\ Len(f.recs) >= Len(fp.head)
  /\ SubSeq(f.recs, 1, Len(fp.head)) = fp.head

\* The rows the running parser renders from records first+1 .. last of a transcript.
Render(f, first, last) ==
  [i \in 1..(last - first) |-> [rec |-> f.recs[first + i], by |-> version]]

NoFingerprint == [len |-> 0, head |-> << >>]
NoCheckpoint == [off |-> 0, fp |-> NoFingerprint]   \* NULL columns, or an offset of 0
NotSeen == [mtime |-> 0, size |-> 0, by |-> 0]      \* no files_seen row
NoWork == [src |-> "none", rows |-> << >>, off |-> 0, fp |-> NoFingerprint, failed |-> FALSE]

Indexed(s) == seen[s].by # 0

\* A commit that stats the file itself would record bytes the parser never read.
StatAtCommit(s) == [mtime |-> file[s].mtime, size |-> Size(file[s]), by |-> version]

\* The metadata a commit records: what discovery saw, never what the file has become since.
Discovered(s) == [mtime |-> stat[s].mtime, size |-> stat[s].size, by |-> version]

\* source_file_refresh_state = Current
Current(s) == seen[s] = [mtime |-> stat[s].mtime, size |-> stat[s].size, by |-> version]
-----------------------------------------------------------------------------
Init ==
  /\ file = [s \in Sources |-> [recs |-> << >>, cut |-> 0, mtime |-> 1, status |-> "ok"]]
  /\ written = [s \in Sources |-> 0]
  /\ seen = [s \in Sources |-> NotSeen]
  /\ ckpt = [s \in Sources |-> NoCheckpoint]
  /\ rows = [s \in Sources |-> << >>]
  /\ stub = [s \in Sources |-> FALSE]
  /\ version \in Versions
  /\ pc = "idle"
  /\ full = FALSE
  /\ todo = {}
  /\ stat = [s \in Sources |-> [mtime |-> 0, size |-> 0]]
  /\ work = NoWork
  /\ mishaps = 0
-----------------------------------------------------------------------------
(* The harnesses and the file system *)

refresh == <<version, pc, full, todo, stat, work, mishaps>>

\* Every write to a transcript changes its modification time.
Change(s, recs, cut) ==
  /\ file[s].status # "gone"
  /\ file[s].mtime < MaxChanges
  /\ file' = [file EXCEPT ![s] = [recs |-> recs, cut |-> cut, mtime |-> @.mtime + 1,
                                  status |-> @.status]]
  /\ UNCHANGED <<tables, refresh>>

\* A harness appends a record, which may reach the file only in part.
AppendRecord(s, cut) ==
  /\ file[s].cut = 0
  /\ written[s] < MaxRecords
  /\ written' = [written EXCEPT ![s] = @ + 1]
  /\ Change(s, Append(file[s].recs, written[s] + 1), cut)

\* More of the last record reaches the file.
FlushRecord(s, cut) ==
  /\ cut < file[s].cut
  /\ Change(s, file[s].recs, cut)
  /\ UNCHANGED written

\* A harness compacts or prunes its transcript: some records go, and a fresh summary record
\* may follow those that stay (db.rs replace_session: "harnesses compact, rewrite and prune
\* their own transcripts").
RewriteRecords(s, kept, summary) ==
  LET old == file[s]
      new == [recs |-> Pick(old.recs, kept) \o (IF summary THEN <<written[s] + 1>> ELSE << >>),
              cut |-> 0]
  IN /\ pc \in DisturbPoints
     /\ kept # DOMAIN old.recs
     /\ summary => written[s] < MaxRecords
     /\ (IF Matches(new, Fingerprint(old)) THEN "samehead" ELSE "newhead") \in Rewrites
     /\ written' = [written EXCEPT ![s] = IF summary THEN @ + 1 ELSE @]
     /\ Change(s, new.recs, new.cut)

\* A file becomes unreadable or disappears.  In the window before its checkpoint it may do so in
\* every instance when it has none yet; after that the window is one of DisturbPoints.
LoseAccess(s, status) ==
  /\ pc \in DisturbPoints \/ (pc = "checkpoint" /\ ckpt[s].off = 0)
  /\ file[s].status = "ok"
  /\ mishaps < MaxMishaps
  /\ mishaps' = mishaps + 1
  /\ file' = [file EXCEPT ![s].status = status]
  /\ UNCHANGED <<written, tables, version, pc, full, todo, stat, work>>

\* It is back as it was.
RegainAccess(s) ==
  /\ pc \in ReturnPoints
  /\ file[s].status # "ok"
  /\ file' = [file EXCEPT ![s].status = "ok"]
  /\ UNCHANGED <<written, tables, refresh>>

Environment ==
  \E s \in Sources :
    \/ \E cut \in 0..2 : AppendRecord(s, cut) \/ FlushRecord(s, cut)
    \/ \E kept \in SUBSET DOMAIN file[s].recs, summary \in BOOLEAN :
         RewriteRecords(s, kept, summary)
    \/ \E status \in Faults : LoseAccess(s, status)
    \/ RegainAccess(s)
-----------------------------------------------------------------------------
(* The refresh: reindex_until *)

\* Another build is started: its parser version may differ either way.
SwitchBuild ==
  /\ pc = "idle"
  /\ \E v \in Versions \ {version} : version' = v
  /\ UNCHANGED <<world, tables, pc, full, todo, stat, work, mishaps>>

\* Discovery stats every transcript that exists.
Discover ==
  /\ pc = "idle"
  /\ full' \in BOOLEAN
  /\ todo' = {s \in Sources : file[s].status # "gone"}
  /\ stat' = [s \in Sources |-> [mtime |-> file[s].mtime, size |-> Size(file[s])]]
  /\ pc' = "visit"
  /\ UNCHANGED <<world, tables, version, work, mishaps>>

Reading(s) == [NoWork EXCEPT !.src = s]

Leave ==
  /\ pc' = "visit"
  /\ work' = NoWork
  /\ UNCHANGED <<version, full, todo, stat, mishaps>>

Enter(s, where) ==
  /\ pc' = where
  /\ work' = Reading(s)
  /\ todo' = todo \ {s}
  /\ UNCHANGED <<version, full, stat, mishaps>>

\* reindex_until returns; after the error of a `?` the sources still to do are not visited.
Return ==
  /\ pc' = "idle"
  /\ work' = NoWork
  /\ todo' = {}
  /\ UNCHANGED <<version, full, stat, mishaps>>

\* Skipping what is current in a full reindex, too.
SkipAlways(s) ==
  /\ pc = "visit" /\ s \in todo
  /\ Current(s)
  /\ todo' = todo \ {s}
  /\ UNCHANGED <<world, tables, version, pc, full, stat, work, mishaps>>

Skip(s) ==
  /\ pc = "visit" /\ s \in todo
  /\ ~full /\ Current(s)
  /\ todo' = todo \ {s}
  /\ UNCHANGED <<world, tables, version, pc, full, stat, work, mishaps>>

\* A checkpoint taken from another parser's files_seen row.
TailCandidateAnyParser(s) ==
  /\ s \in TailSources
  /\ Indexed(s)
  /\ ckpt[s].off > 0
  /\ stat[s].size > RecordBytes * ckpt[s].off

\* try_tail up to its fingerprint test: a checkpoint of the running parser inside the
\* discovered size.
TailCandidate(s) ==
  /\ s \in TailSources
  /\ seen[s].by = version
  /\ ckpt[s].off > 0
  /\ stat[s].size > RecordBytes * ckpt[s].off

StartFullParse(s) ==
  /\ pc = "visit" /\ s \in todo
  /\ \/ full
     \/ ~Current(s) /\ ~TailCandidate(s)
     \/ /\ ~Current(s) /\ TailCandidate(s)
        /\ file[s].status = "ok" /\ ~Matches(file[s], ckpt[s].fp)
  /\ Enter(s, "parse")
  /\ UNCHANGED <<world, tables>>

StartTail(s) ==
  /\ pc = "visit" /\ s \in todo
  /\ ~full /\ ~Current(s) /\ TailCandidate(s)
  /\ file[s].status = "ok" /\ Matches(file[s], ckpt[s].fp)
  /\ Enter(s, "tail")
  /\ UNCHANGED <<world, tables>>

\* fingerprint_matches opens the file, and its error is not turned into a full parse.
FingerprintError(s) ==
  /\ pc = "visit" /\ s \in todo
  /\ ~full /\ ~Current(s) /\ TailCandidate(s)
  /\ file[s].status # "ok"
  /\ Return
  /\ UNCHANGED <<world, tables>>

\* tail_parse_until: the size is read again when the file is opened.
TailRead ==
  LET s == work.src
      f == file[s]
  IN /\ pc = "tail"
     /\ f.status = "ok"
     /\ Complete(f) > ckpt[s].off
     /\ pc' = "append"
     /\ work' = [src |-> s, rows |-> Render(f, ckpt[s].off, Complete(f)),
                 off |-> Complete(f), fp |-> Fingerprint(f), failed |-> FALSE]
     /\ UNCHANGED <<world, tables, version, full, todo, stat, mishaps>>

\* No newline after the checkpoint yet.
TailNothingNew ==
  /\ pc = "tail"
  /\ file[work.src].status = "ok"
  /\ Complete(file[work.src]) <= ckpt[work.src].off
  /\ Leave
  /\ UNCHANGED <<world, tables>>

\* The slice cannot be parsed or read, or it does not show the session id stored for the
\* source: the file is read in full.
TailRefused ==
  /\ pc = "tail"
  /\ pc' = "parse"
  /\ UNCHANGED <<world, tables, version, full, todo, stat, work, mishaps>>

\* append_tail, one transaction: rows, files_seen and the checkpoint together.
AppendTail ==
  LET s == work.src
  IN /\ pc = "append"
     /\ rows' = [rows EXCEPT ![s] = @ \o work.rows]
     /\ seen' = [seen EXCEPT ![s] = Discovered(s)]
     /\ ckpt' = [ckpt EXCEPT ![s] = [off |-> work.off, fp |-> work.fp]]
     /\ stub' = [stub EXCEPT ![s] = FALSE]
     /\ Leave
     /\ UNCHANGED world

\* A file whose only record is torn yields no valid record at all: total_parse_failure_reason.
ParseFails(f) == f.status # "ok" \/ (Parseable(f) = 0 /\ f.cut = 2)

FullRead ==
  LET s == work.src
      f == file[s]
  IN /\ pc = "parse"
     /\ ~ParseFails(f)
     /\ pc' = "store"
     /\ work' = [Reading(s) EXCEPT !.rows = Render(f, 0, Parseable(f))]
     /\ UNCHANGED <<world, tables, version, full, todo, stat, mishaps>>

\* A failed parse of a source already indexed keeps its rows and its old metadata.
KeepAfterFailure ==
  /\ pc = "parse"
  /\ ParseFails(file[work.src]) /\ Indexed(work.src)
  /\ Leave
  /\ UNCHANGED <<world, tables>>

\* A failed parse of a new source is stored as a stub without messages (minimal_record).
StubAfterFailure ==
  /\ pc = "parse"
  /\ ParseFails(file[work.src]) /\ ~Indexed(work.src)
  /\ pc' = "store"
  /\ work' = [Reading(work.src) EXCEPT !.failed = TRUE]
  /\ UNCHANGED <<world, tables, version, full, todo, stat, mishaps>>

\* upsert_session_with_mode, one transaction; it leaves the checkpoint columns alone.
StoreParsed ==
  LET s == work.src
  IN /\ pc = "store"
     /\ rows' = [rows EXCEPT ![s] = Stored(@, work.rows, seen[s].by = version)]
     /\ seen' = [seen EXCEPT ![s] = Discovered(s)]
     /\ stub' = [stub EXCEPT ![s] = work.failed]
     /\ pc' = "checkpoint"
     /\ UNCHANGED <<world, ckpt, version, full, todo, stat, work, mishaps>>

\* Two ways to get the checkpoint wrong: trusting a file that grew during the parse, and trusting
\* the last newline when the parse went past it.
CheckpointOfGrownFile(s) ==
  LET f == file[s]
  IN [off |-> IF f.cut = 0 THEN Complete(f) ELSE 0, fp |-> Fingerprint(f)]
CheckpointAtLastNewline(s) ==
  LET f == file[s]
  IN [off |-> IF Size(f) = stat[s].size THEN Complete(f) ELSE 0, fp |-> Fingerprint(f)]

\* full_parse_checkpoint: an offset only when the file still has its discovered size and ends
\* in a newline.
FullCheckpoint(s) ==
  LET f == file[s]
  IN [off |-> IF Size(f) = stat[s].size /\ f.cut = 0 THEN Complete(f) ELSE 0,
      fp  |-> Fingerprint(f)]

\* set_file_checkpoint, a statement of its own after the upsert.
SetCheckpoint ==
  /\ pc = "checkpoint"
  /\ file[work.src].status = "ok"
  /\ ckpt' = [ckpt EXCEPT ![work.src] = FullCheckpoint(work.src)]
  /\ Leave
  /\ UNCHANGED <<world, seen, rows, stub>>

CheckpointError ==
  /\ pc = "checkpoint"
  /\ file[work.src].status # "ok"
  /\ Return
  /\ UNCHANGED <<world, tables>>

Finish ==
  /\ pc = "visit" /\ todo = {}
  /\ Return
  /\ UNCHANGED <<world, tables>>

\* A crash, a kill, a cancellation or a database error between two transactions.
Abort ==
  /\ pc \in AbortPoints
  /\ mishaps < MaxMishaps
  /\ mishaps' = mishaps + 1
  /\ pc' = "idle" /\ work' = NoWork /\ todo' = {}
  /\ UNCHANGED <<world, tables, version, full, stat>>

Visit(s) == Skip(s) \/ StartFullParse(s) \/ StartTail(s) \/ FingerprintError(s)

Handle ==
  \/ TailRead \/ TailNothingNew \/ TailRefused \/ AppendTail
  \/ FullRead \/ KeepAfterFailure \/ StubAfterFailure
  \/ StoreParsed \/ SetCheckpoint \/ CheckpointError

Refresh == Discover \/ (\E s \in Sources : Visit(s)) \/ Handle \/ Finish

Next == Environment \/ SwitchBuild \/ Refresh \/ Abort

Spec == Init /\ [][Next]_vars

\* Reads trigger a refresh again and again (auto_reindex), and a started refresh runs on.
FairSpec == Spec /\ WF_vars(Refresh)
-----------------------------------------------------------------------------
(* The index status: classify_index_status *)

\* The commands it names: for a discovered source whose session is of another parser version, or
\* else for one without a session.
RepairCommands ==
  LET discovered == {s \in Sources : file[s].status # "gone"}
      stale == {s \in discovered : Indexed(s) /\ seen[s].by # version}
      unindexed == {s \in discovered : ~Indexed(s)}
  IN IF stale # {} THEN {"aise reindex --full"}
     ELSE IF unindexed # {} THEN {"aise reindex"} ELSE {}
-----------------------------------------------------------------------------
(* Properties *)

RowSet == [rec : Nat, by : Versions]
Prints == [len : Int, head : Seq(Nat)]

WorkSet == [src : Sources \cup {"none"}, rows : Seq(RowSet), off : Nat, fp : Prints,
            failed : BOOLEAN]

WorldOK ==
  /\ file \in [Sources -> [recs : Seq(Nat), cut : 0..2, mtime : Nat,
                           status : {"ok", "unreadable", "gone"}]]
  /\ written \in [Sources -> Nat]

TablesOK ==
  /\ seen \in [Sources -> [mtime : Nat, size : Int, by : Versions \cup {0}]]
  /\ ckpt \in [Sources -> [off : Nat, fp : Prints]]
  /\ rows \in [Sources -> Seq(RowSet)]
  /\ stub \in [Sources -> BOOLEAN]

RefreshOK ==
  /\ version \in Versions
  /\ pc \in Points
  /\ full \in BOOLEAN
  /\ todo \subseteq Sources
  /\ stat \in [Sources -> [mtime : Nat, size : Int]]
  /\ work \in WorkSet
  /\ pc \notin {"idle", "visit"} => work.src \in Sources
  /\ mishaps \in Nat

\* Types; while a source is handled, work names it, and a stored offset is never negative.
TypeOK == WorldOK /\ TablesOK /\ RefreshOK

\* A stored message is never stored a second time, whichever way full parses, tail appends,
\* rewrites of the transcript and interrupted refreshes follow each other (db.rs
\* set_file_checkpoint: no stale offset makes a tail parse re-append indexed rows).
NoDuplicateRows ==
  \A s \in Sources : \A i, j \in DOMAIN rows[s] : rows[s][i] = rows[s][j] => i = j

\* The next discovery would find the source Current (source_file_refresh_state).
Unchanged(s) == seen[s] = [mtime |-> file[s].mtime, size |-> Size(file[s]), by |-> version]

\* A readable source that the next refresh would skip, and that was parsed: its session is not
\* the stub of a failed first parse.
Settled(s) == file[s].status = "ok" /\ Unchanged(s) /\ ~stub[s]

\* The first parse of a source failed, and the file is still as discovery saw it then.  The stub
\* was stored with that time, that size and this parser's version, so that no refresh reads the
\* file again: only a full reindex, another parser or a change of the file does.
FailedAsItIs(s) == stub[s] /\ Unchanged(s)

Holds(s, r) == \E i \in DOMAIN rows[s] : rows[s][i] = [rec |-> r, by |-> version]

\* Every complete record of the source is stored, as the running parser renders it.
AllHeld(s) == \A i \in 1..Complete(file[s]) : Holds(s, file[s].recs[i])

\* A source the refresh takes for current, stubs of failed first parses apart, lacks none of its
\* complete records: skipping it and reading only past its checkpoint never cost a message
\* (source_file_refresh_state, full_parse_checkpoint, try_tail).
CurrentMeansComplete == \A s \in Sources : Settled(s) => AllHeld(s)

\* The stored rows of a session are all the work of the parser version recorded for it, so a
\* tail append never extends a prefix an older parser rendered (db.rs file_checkpoint).
RowsOfOneParser ==
  \A s \in Sources : \A i \in DOMAIN rows[s] : rows[s][i].by = seen[s].by

\* The index is the archive: only a change of the recorded parser version may drop a stored
\* row, whatever the harness did to its transcript (db.rs store_parsed_messages, Keep).
ArchiveKept ==
  [][\A s \in Sources :
       seen'[s].by = seen[s].by => Keys(rows[s]) \subseteq Keys(rows'[s])]_vars

\* Where full reindexes are run again and again and get as far as the transcript.
FullyReindexed(s) == []<>(pc = "visit" /\ full /\ s \in todo)

\* Once the harnesses fall silent and one build runs, every complete record of a readable
\* transcript is indexed by its parser, unless its first parse failed and the file has not changed
\* since: that one is never retried but by full reindexes, which index it however its earlier
\* parses failed.  Builds that alternate for ever parse each other's files again
\* (indexer.rs reindex_until and its `full` argument, provider_parse_version).
EventuallyIndexed ==
  /\ \A v \in Versions, s \in Sources :
       <>[](version = v) => <>[](file[s].status = "ok" /\ ~FailedAsItIs(s) => AllHeld(s))
  /\ \A v \in Versions, s \in Sources :
       <>[](version = v) /\ FullyReindexed(s) => <>[](file[s].status = "ok" => AllHeld(s))

\* Between refreshes, where the index status names no repair, none is needed: no readable source
\* that the next refresh would skip lacks a record (mcp_server.rs get_index_status_output_schema:
\* empty means no repair is required).
NoRepairNeeded ==
  pc = "idle" /\ RepairCommands = {} =>
    \A s \in Sources : file[s].status = "ok" /\ Unchanged(s) => AllHeld(s)
=============================================================================
