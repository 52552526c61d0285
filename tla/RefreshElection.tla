--------------------------- MODULE RefreshElection ---------------------------
(***************************************************************************)
(* Who refreshes the index, and what the schema stamp, the freshness       *)
(* marker and the status report say afterwards: the writer election of     *)
(* indexer.rs, the self-repair of service.rs and db.rs at open, and the    *)
(* report of background_refresh.rs, run by aise processes that share one   *)
(* database and any of which may die.                                      *)
(*                                                                         *)
(* The refresh between election and stamps (module Reindex) is one step    *)
(* here: it ends completely or not.  A committed SQLite transaction is     *)
(* atomic.  Reading a decision and acting on it are different steps.       *)
(***************************************************************************)
EXTENDS Naturals, FiniteSets

CONSTANTS
  Procs,           \* aise processes
  Schema,          \* Schema[p]: SCHEMA_VERSION = PARSER_SCHEMA_VERSION of p's build
  InitialIndexes,  \* indexes that may be found at the start
  Commands,        \* Commands[p]: what p is asked to do, a subset of AllCommands
  MaxCrashes,      \* bound: processes that die
  MaxFailures,     \* bound: refreshes cut short (cancelled, SQLite busy, an error) and reports not
                   \* read or written
  MaxExpiries,     \* bound: times the freshness interval elapses
  MaxQuestions     \* bound: index status requests

Nobody == "nobody"
Dead == "dead" \* the pid of a process that no longer exists
Reader == "reader" \* a process that reports the status

MinReadable == 2   \* MIN_READABLE_SCHEMA_VERSION
PreFts == 3        \* PRE_FTS_PARSER_SCHEMA_VERSION
Fts == 4           \* the first generation with the FTS5 message search layout

(* background: background_refresh::run; read: prepare_index_for_read_now;   *)
(* refresh: refresh_index_opportunistically; explicit and full: `aise       *)
(* reindex`, without and with --full; library: Db::open and auto_reindex.   *)
AllCommands == {"background", "read", "refresh", "explicit", "full", "library"}
Generations == 0..6 \cup {Schema[p] : p \in Procs} \* those found or written

\* user_version, whether the search layout is complete, the generation whose parser the last
\* full refresh used, and whether there are no sessions yet.
Indexes == [version : Generations, fts : BOOLEAN, parsed : Generations, empty : BOOLEAN]

ElectionAssumption ==
  /\ IsFiniteSet(Procs)
  /\ Procs \cap {Nobody, Dead, Reader} = {}
  /\ \A p \in Procs : Schema[p] \in Nat /\ Schema[p] > Fts
  /\ InitialIndexes \subseteq Indexes
  /\ \A i \in InitialIndexes : i.version >= Fts => i.parsed >= i.version
  /\ Commands \in [Procs -> SUBSET AllCommands]
  /\ MaxCrashes \in Nat /\ MaxFailures \in Nat /\ MaxExpiries \in Nat /\ MaxQuestions \in Nat
ASSUME ElectionAssumption

VARIABLES
  index,      \* the database, a member of Indexes
  marker,     \* the build whose refresh completed within the freshness interval, or 0
  report,     \* the status report file: its state and the process that wrote it
  lost,       \* processes that failed to record how their background refresh ended, and have
              \* recorded nothing since, for RunningReportHasWriter
  writer,     \* the process holding the index update lock exclusively, or Nobody
  probing,    \* processes holding it shared for the moment of update_lock_is_held
  pc,         \* pc[p]: where p is
  job,        \* job[p]: p's command and what it has found out
  automatic,  \* automatic refreshes completed since the interval began, for OneRefreshPerInterval
  crashes, failures, expiries, questions \* counts, only for the bounds

shared == <<index, marker, automatic>>
reporting == <<report, lost>>
bounds == <<crashes, failures, expiries, questions>>
vars == <<index, marker, reporting, writer, probing, pc, job, automatic, bounds>>

NoReport == [state |-> "none", by |-> Nobody]
NoJob == [command |-> "none", full |-> FALSE, elected |-> FALSE, outcome |-> "none", target |-> 0]

Outcomes == {"updated", "fresh", "busy", "cancelled", "failed"}
Opening == {"open", "repair", "repairing", "init", "heal"}
Working == {"decide", "elect", "wait", "announce", "announcing", "recheck", "refresh", "stamp",
            "promote", "mark", "promotelast", "close", "closing", "output"}
Points == {"idle"} \cup Opening \cup Working
Jobs == [command : AllCommands \cup {"none"}, full : BOOLEAN, elected : BOOLEAN,
         outcome : Outcomes \cup {"none"}, target : Generations]

Init ==
  /\ index \in InitialIndexes
  /\ marker = 0
  /\ report = NoReport
  /\ lost = {}
  /\ writer = Nobody
  /\ probing = {}
  /\ pc = [p \in Procs |-> "idle"]
  /\ job = [p \in Procs |-> NoJob]
  /\ automatic = 0
  /\ crashes = 0 /\ failures = 0 /\ expiries = 0 /\ questions = 0
-----------------------------------------------------------------------------
At(p, point) == pc[p] = point /\ p \notin probing
Go(p, point) == pc' = [pc EXCEPT ![p] = point]
Background(p) == job[p].command = "background"

\* needs_backfill
Outdated(p) == index.version < Schema[p]

\* schema_is_readable
Readable(p) == index.version \in MinReadable..Schema[p]

\* The interval has elapsed or the last refresh was another parser contract's.
Stale(p) == marker # Schema[p]

\* Dropping the rule that schema work wins over a recent content timestamp.
DueByContent(p) == Stale(p)

\* auto_refresh_is_due
Due(p) == Outdated(p) \/ Stale(p)

\* An exclusive lock that does not wait for shared ones.
FreeOfWriter == writer = Nobody

LockFree == writer = Nobody /\ probing = {}

\* A command ends.
End(p) ==
  /\ Go(p, "idle")
  /\ job' = [job EXCEPT ![p] = NoJob]

\* A contender that lost the election publishes nothing (losing the `elected` flag).
ReportsUnlessBusy(p, outcome) == outcome # "busy"

\* Whether a background refresh with that outcome writes a terminal report.
Reports(p, outcome) == job[p].elected \/ outcome # "busy"

\* Whether a read with that outcome answers.
Answers(p, outcome) == job[p].command = "read" /\ outcome # "failed"

\* The result of a command on its way out; a read goes on to its output.
Leave(p, outcome) ==
  \/ /\ Background(p) /\ Reports(p, outcome)
     /\ Go(p, "close")
     /\ job' = [job EXCEPT ![p].outcome = outcome]
  \/ /\ Answers(p, outcome)
     /\ Go(p, "output")
     /\ job' = [job EXCEPT ![p] = [NoJob EXCEPT !.command = "read"]]
  \/ /\ ~(Background(p) /\ Reports(p, outcome))
     /\ ~Answers(p, outcome)
     /\ End(p)

\* Processes with an open connection to the database.
Connected == {p \in Procs : pc[p] \in (Working \cup {"heal"}) \ {"close", "closing"}}

\* An exclusive transaction needs a database nobody else is connected to.
Alone(p) == Connected \subseteq {p}

\* p's lock, if it holds it, is released.
Released(p) == IF writer = p THEN Nobody ELSE writer

Start(p, command) ==
  /\ pc[p] = "idle"
  /\ job' = [job EXCEPT ![p] = [NoJob EXCEPT !.command = command]]
  /\ Go(p, IF command = "library" THEN "init" ELSE "open")
  /\ UNCHANGED <<shared, reporting, writer, probing, bounds>>

\* After its output a read starts a background refresh of an index that is due.
Schedule(p) ==
  /\ At(p, "output")
  /\ IF Due(p)
     THEN Go(p, "open") /\ job' = [job EXCEPT ![p] = [NoJob EXCEPT !.command = "background"]]
     ELSE End(p)
  /\ UNCHANGED <<shared, reporting, writer, probing, bounds>>
-----------------------------------------------------------------------------
(* Opening the database: SessionSearch::open, Db::init *)

Broken == index.version >= Fts /\ ~index.fts

\* inspect_schema, read-only: a newer index is refused, a broken layout of the current
\* generation is repaired first.
OpenRefused(p) ==
  /\ At(p, "open")
  /\ index.version > Schema[p]
  /\ Leave(p, "failed")
  /\ UNCHANGED <<shared, reporting, writer, probing, bounds>>

Inspect(p) ==
  /\ At(p, "open")
  /\ index.version <= Schema[p]
  /\ Go(p, IF index.version = Schema[p] /\ Broken THEN "repair" ELSE "init")
  /\ UNCHANGED <<shared, reporting, writer, probing, job, bounds>>

RepairElected(p) ==
  /\ At(p, "repair")
  /\ LockFree
  /\ writer' = p
  /\ Go(p, "repairing")
  /\ UNCHANGED <<shared, reporting, probing, job, bounds>>

\* Looked at again under the lock: a peer may have healed it.
Repair(p) ==
  /\ At(p, "repairing")
  /\ index.version = Schema[p] /\ Broken => Alone(p)
  /\ index' = IF index.version = Schema[p] THEN [index EXCEPT !.fts = TRUE] ELSE index
  /\ writer' = Nobody
  /\ Go(p, "init")
  /\ UNCHANGED <<marker, automatic, reporting, probing, job, bounds>>

\* A brand-new database gets layout and stamp in one transaction.
Install(p) ==
  /\ At(p, "init")
  /\ index.version = 0 /\ index.empty
  /\ index' = [version |-> Schema[p], fts |-> TRUE, parsed |-> Schema[p], empty |-> TRUE]
  /\ Go(p, "decide")
  /\ UNCHANGED <<marker, automatic, reporting, writer, probing, job, bounds>>

\* init rebuilds a broken layout without the update lock: it reads the stamp, then opens an
\* exclusive transaction that stamps the target it chose.
SelfHeal(p) ==
  /\ At(p, "init")
  /\ index.version \in {Fts, Schema[p]} /\ ~index.fts
  /\ job' = [job EXCEPT ![p].target = index.version]
  /\ Go(p, "heal")
  /\ UNCHANGED <<shared, reporting, writer, probing, bounds>>

SelfHealed(p) ==
  /\ At(p, "heal")
  /\ Alone(p)
  /\ index' = [index EXCEPT !.fts = TRUE, !.version = job[p].target]
  /\ Go(p, "decide")
  /\ UNCHANGED <<marker, automatic, reporting, writer, probing, job, bounds>>

Opened(p) ==
  /\ At(p, "init")
  /\ ~(index.version = 0 /\ index.empty)
  /\ ~(index.version \in {Fts, Schema[p]} /\ ~index.fts)
  /\ Go(p, "decide")
  /\ UNCHANGED <<shared, reporting, writer, probing, job, bounds>>

Open(p) ==
  \/ OpenRefused(p) \/ Inspect(p) \/ RepairElected(p) \/ Repair(p)
  \/ Install(p) \/ SelfHeal(p) \/ SelfHealed(p) \/ Opened(p)
-----------------------------------------------------------------------------
(* Deciding whether to refresh, before and after the election *)

Explicit(p) == job[p].command \in {"explicit", "full"}

\* A read or refresh of an index that cannot be read becomes a backfill
\* (ensure_schema_backfilled), which waits for the lock.
DecideBackfill(p) ==
  /\ At(p, "decide")
  /\ job[p].command \in {"read", "refresh"}
  /\ ~Readable(p)
  /\ IF Outdated(p)
     THEN Go(p, "wait") /\ job' = [job EXCEPT ![p].full = TRUE]
     ELSE End(p)
  /\ UNCHANGED <<shared, reporting, writer, probing, bounds>>

\* An implicit read refreshes only an index without sessions; the other commands any due one.
DecideRefresh(p) ==
  /\ At(p, "decide")
  /\ job[p].command \in {"background", "read", "refresh"}
  /\ Readable(p)
  /\ IF Due(p) /\ (job[p].command = "read" => index.empty /\ ~Outdated(p))
     THEN Go(p, "elect") /\ UNCHANGED job
     ELSE Leave(p, "fresh")
  /\ UNCHANGED <<shared, reporting, writer, probing, bounds>>

DecideUnreadable(p) ==
  /\ At(p, "decide")
  /\ Background(p)
  /\ ~Readable(p)
  /\ Leave(p, "failed")
  /\ UNCHANGED <<shared, reporting, writer, probing, bounds>>

DecideExplicit(p) ==
  /\ At(p, "decide")
  /\ Explicit(p)
  /\ Go(p, "wait")
  /\ UNCHANGED <<shared, reporting, writer, probing, job, bounds>>

\* auto_reindex
DecideLibrary(p) ==
  /\ At(p, "decide")
  /\ job[p].command = "library"
  /\ IF Due(p) THEN Go(p, "wait") /\ UNCHANGED job ELSE End(p)
  /\ UNCHANGED <<shared, reporting, writer, probing, bounds>>

\* try_with_elected_writer; a background refresh announces itself (on_elected).
Elect(p) ==
  /\ At(p, "elect")
  /\ LockFree
  /\ writer' = p
  /\ job' = [job EXCEPT ![p].elected = TRUE]
  /\ Go(p, IF Background(p) THEN "announce" ELSE "recheck")
  /\ UNCHANGED <<shared, reporting, probing, bounds>>

\* WouldBlock: a writer, or a shared lock of update_lock_is_held.
Busy(p) ==
  /\ At(p, "elect")
  /\ ~LockFree
  /\ Leave(p, "busy")
  /\ UNCHANGED <<shared, reporting, writer, probing, bounds>>

\* with_elected_writer
Wait(p) ==
  /\ At(p, "wait")
  /\ LockFree
  /\ writer' = p
  /\ Go(p, "recheck")
  /\ UNCHANGED <<shared, reporting, probing, job, bounds>>

\* The operation under the lock returns: the lock is released.
Finish(p, outcome) == writer' = Nobody /\ Leave(p, outcome)

\* Refreshing on the strength of the check made before the election.
StillDueUnchecked(p) == TRUE

\* What was due may have been done by the writer that held the lock.
StillDue(p) ==
  \/ Explicit(p)
  \/ job[p].full /\ Outdated(p)
  \/ ~job[p].full /\ Due(p)

Recheck(p) ==
  /\ At(p, "recheck")
  /\ \/ /\ StillDue(p)
        /\ job' = [job EXCEPT ![p].full = @ \/ job[p].command = "full" \/ Outdated(p)]
        /\ Go(p, "refresh")
        /\ UNCHANGED writer
     \/ /\ ~StillDue(p)
        /\ Finish(p, "fresh")
  /\ UNCHANGED <<shared, reporting, probing, bounds>>
-----------------------------------------------------------------------------
(* The refresh and its stamps *)

\* Sessions stored so far; without any source there are none.
Filled(index1) == {[index1 EXCEPT !.empty = e] : e \in {FALSE, index1.empty}}

\* A full refresh renders every row with its own parser, an older parser some of them.
Refresh(p) ==
  /\ At(p, "refresh")
  /\ index' \in Filled([index EXCEPT !.parsed = IF job[p].full \/ Schema[p] < @ THEN Schema[p] ELSE @])
  /\ Go(p, IF job[p].full THEN "stamp" ELSE "mark")
  /\ UNCHANGED <<marker, automatic, reporting, writer, probing, job, bounds>>

\* Cancelled, SQLite busy or an error: no stamp.  An older parser may have rewritten rows.
CutShort(p) ==
  /\ At(p, "refresh")
  /\ failures < MaxFailures
  /\ failures' = failures + 1
  /\ index' \in Filled(index) \cup
               Filled([index EXCEPT !.parsed = IF Schema[p] < @ THEN Schema[p] ELSE @])
  /\ \E outcome \in {"busy", "failed", "cancelled"} :
       /\ outcome = "cancelled" => Background(p)
       /\ outcome = "busy" => ~Explicit(p) /\ ~(job[p].command = "read" /\ job[p].full)
       /\ Finish(p, outcome)
  /\ UNCHANGED <<marker, automatic, reporting, probing, crashes, expiries, questions>>

\* A background refresh looks for its cancellation before it opens or elects and after it is
\* elected.
Cancel(p) ==
  /\ Background(p)
  /\ At(p, "decide") \/ At(p, "recheck")
  /\ failures < MaxFailures
  /\ failures' = failures + 1
  /\ writer' = Released(p)
  /\ Leave(p, "cancelled")
  /\ UNCHANGED <<shared, reporting, probing, crashes, expiries, questions>>

\* Stamping the current generation over a layout that is not built yet.
StampCurrent(p) == Schema[p]

\* Stopping at the parser generation whatever the layout.
StampPreFts(p) == PreFts

\* The generation mark_schema_current stamps: without the layout, one below it.
Stamped(p) == IF index.version >= Fts THEN Schema[p] ELSE PreFts

Stamp(p) ==
  /\ At(p, "stamp")
  /\ index' = [index EXCEPT !.version = Stamped(p)]
  /\ Go(p, IF ~Explicit(p) /\ Stamped(p) < Schema[p] THEN "promote" ELSE "mark")
  /\ UNCHANGED <<marker, automatic, reporting, writer, probing, job, bounds>>

\* migrate_message_search_schema_exclusive: layout and stamp in one exclusive transaction;
\* a generation 4 index keeps its stamp.
Promoted(p) ==
  [index EXCEPT !.fts = TRUE, !.version = IF @ = Fts THEN @ ELSE Schema[p]]

Promote(p) ==
  \/ /\ At(p, "promote")
     /\ Alone(p)
     /\ index' = Promoted(p)
     /\ Go(p, "mark")
     /\ UNCHANGED <<marker, automatic, reporting, writer, probing, job, bounds>>
  \/ /\ At(p, "promotelast")
     /\ Alone(p)
     /\ index' = Promoted(p)
     /\ Finish(p, "updated")
     /\ UNCHANGED <<marker, automatic, reporting, probing, bounds>>

Promoting(p) == pc[p] \in {"repairing", "heal", "promote", "promotelast"} /\ p \notin probing

\* A promotion that fails ends its command; the lock is released.
Unpromoted(p) ==
  /\ writer' = Released(p)
  /\ Leave(p, "failed")
  /\ UNCHANGED <<shared, reporting, probing>>

\* The exclusive transaction meets other connections.
PromoteBlocked(p) ==
  /\ Promoting(p)
  /\ ~Alone(p)
  /\ Unpromoted(p)
  /\ UNCHANGED bounds

\* The disk is full.
PromoteFails(p) ==
  /\ Promoting(p)
  /\ failures < MaxFailures
  /\ failures' = failures + 1
  /\ Unpromoted(p)
  /\ UNCHANGED <<crashes, expiries, questions>>

\* mark_auto_reindex_complete, which an explicit reindex calls before it promotes the layout.
Mark(p) ==
  /\ At(p, "mark")
  /\ marker' = Schema[p]
  /\ automatic' = IF Explicit(p) \/ automatic = 2 THEN automatic ELSE automatic + 1
  /\ \/ /\ Explicit(p) /\ job[p].full /\ Outdated(p)
        /\ Go(p, "promotelast")
        /\ UNCHANGED <<writer, job>>
     \/ /\ ~(Explicit(p) /\ job[p].full /\ Outdated(p))
        /\ Finish(p, "updated")
  /\ UNCHANGED <<index, reporting, probing, bounds>>
-----------------------------------------------------------------------------
(* The status report: write_best_effort, update_lock_is_held *)

RunningOfAnother(p) == report.state = "running" /\ report.by # p

\* Deferring to any running report, whether or not its writer lives.
PreservesAlways(p) == RunningOfAnother(p)

\* preserve_active_writer_report.  The probe of p's own lock finds it held, too.
Preserves(p) == RunningOfAnother(p) /\ writer # Nobody

CheckReport(p) ==
  /\ At(p, "announce") \/ At(p, "close")
  /\ \/ /\ Preserves(p)
        /\ IF pc[p] = "announce" THEN Go(p, "recheck") /\ UNCHANGED job ELSE End(p)
        /\ UNCHANGED probing
     \/ /\ ~Preserves(p)
        /\ Go(p, IF pc[p] = "announce" THEN "announcing" ELSE "closing")
        /\ probing' = IF RunningOfAnother(p) THEN probing \cup {p} ELSE probing
        /\ UNCHANGED job
  /\ UNCHANGED <<shared, reporting, writer, bounds>>

\* The report is replaced in a step of its own.
WriteReport(p) ==
  /\ \/ /\ At(p, "announcing")
        /\ report' = [state |-> "running", by |-> p]
        /\ Go(p, "recheck")
        /\ UNCHANGED job
     \/ /\ At(p, "closing")
        /\ report' = [state |-> job[p].outcome, by |-> p]
        /\ End(p)
  /\ lost' = lost \ {p}
  /\ UNCHANGED <<shared, writer, probing, bounds>>

\* A running report of another process that cannot be read is replaced without a probe, the
\* active writer's included.
ReportUnread(p) ==
  /\ At(p, "announce") \/ At(p, "close")
  /\ RunningOfAnother(p)
  /\ failures < MaxFailures
  /\ failures' = failures + 1
  /\ Go(p, IF pc[p] = "announce" THEN "announcing" ELSE "closing")
  /\ UNCHANGED <<shared, reporting, writer, probing, job, crashes, expiries, questions>>

\* write_best_effort only prints the error of the probe or of the replacement: the refresh goes
\* on, the command ends, and the report on disk stays as it was.
ReportFails(p) ==
  /\ failures < MaxFailures
  /\ failures' = failures + 1
  /\ \/ /\ At(p, "announcing") \/ (At(p, "announce") /\ RunningOfAnother(p))
        /\ Go(p, "recheck")
        /\ UNCHANGED <<job, lost>>
     \/ /\ At(p, "closing") \/ (At(p, "close") /\ RunningOfAnother(p))
        /\ End(p)
        /\ lost' = lost \cup {p}
  /\ UNCHANGED <<shared, report, writer, probing, crashes, expiries, questions>>

\* The shared guard is dropped.
EndProbe(p) ==
  /\ p \in probing
  /\ probing' = probing \ {p}
  /\ UNCHANGED <<shared, reporting, writer, pc, job, bounds>>

\* A status request, of a process that does nothing else: it probes the lock when a report says
\* running, or when there is neither a report nor a snapshot.  A held lock leaves no trace.
AskStatus ==
  /\ questions < MaxQuestions
  /\ report.state = "running" \/ (report = NoReport /\ index.empty /\ marker = 0)
  /\ writer = Nobody
  /\ questions' = questions + 1
  /\ probing' = probing \cup {Reader}
  /\ UNCHANGED <<shared, reporting, writer, pc, job, crashes, failures, expiries>>
-----------------------------------------------------------------------------
\* A process dies: the system releases its locks; its report stays.
Crash(p) ==
  /\ pc[p] # "idle"
  /\ crashes < MaxCrashes
  /\ crashes' = crashes + 1
  /\ writer' = Released(p)
  /\ probing' = probing \ {p}
  /\ report' = IF report.by = p THEN [report EXCEPT !.by = Dead] ELSE report
  /\ lost' = lost \ {p}
  /\ End(p)
  /\ UNCHANGED <<shared, failures, expiries, questions>>

\* The freshness interval elapses.
Expire ==
  /\ expiries < MaxExpiries
  /\ expiries' = expiries + 1
  /\ marker' = 0
  /\ automatic' = 0
  /\ UNCHANGED <<index, reporting, writer, probing, pc, job, crashes, failures, questions>>

Continue(p) ==
  \/ Open(p)
  \/ DecideBackfill(p) \/ DecideRefresh(p) \/ DecideUnreadable(p) \/ DecideExplicit(p)
  \/ DecideLibrary(p)
  \/ Elect(p) \/ Busy(p) \/ Wait(p) \/ Recheck(p)
  \/ Refresh(p) \/ Stamp(p) \/ Promote(p) \/ PromoteBlocked(p) \/ Mark(p)
  \/ CheckReport(p) \/ WriteReport(p) \/ EndProbe(p) \/ Schedule(p)

Next ==
  \/ \E p \in Procs :
       \/ \E command \in Commands[p] : Start(p, command)
       \/ Continue(p)
       \/ CutShort(p) \/ Cancel(p) \/ PromoteFails(p) \/ ReportUnread(p) \/ ReportFails(p)
       \/ Crash(p)
  \/ AskStatus \/ EndProbe(Reader) \/ Expire

Spec == Init /\ [][Next]_vars

\* A running command goes on.
Fairness ==
  /\ \A p \in Procs : WF_vars(Continue(p))
  /\ WF_vars(EndProbe(Reader))

FairSpec == Spec /\ Fairness
-----------------------------------------------------------------------------
(* Properties *)

\* Locks exclude each other; everything else stays of its kind.
TypeOK ==
  /\ index \in Indexes
  /\ marker \in Generations
  /\ report \in [state : Outcomes \cup {"none", "running"}, by : Procs \cup {Nobody, Dead}]
  /\ lost \subseteq Procs
  /\ writer \in Procs \cup {Nobody}
  /\ probing \subseteq Procs \cup {Reader}
  /\ writer # Nobody => probing = {}
  /\ pc \in [Procs -> Points]
  /\ job \in [Procs -> Jobs]
  /\ automatic \in 0..2
  /\ crashes \in Nat /\ failures \in Nat /\ expiries \in Nat /\ questions \in Nat

\* Whoever has opened an index of a generation it knows finds a stamp that is true: a generation
\* with the search layout has the layout, and rows that a full refresh of that generation's parser produced
\* (mark_schema_current, migrate_message_search_schema_exclusive, Db::init).
StampHonest ==
  (\E p \in Connected : pc[p] # "heal" /\ index.version \in Fts..Schema[p]) =>
    index.fts /\ index.parsed >= index.version

\* No step lowers the generation the index is stamped with: what was refreshed for a generation
\* is not refreshed for it again (the exclusive migrations, mark_schema_current).
VersionNeverFalls == [][index'.version >= index.version]_vars

\* However many processes find the index due at once, one of them refreshes it: the others see
\* under the lock that it has been done (auto_reindex_after_election and its siblings).
OneRefreshPerInterval == automatic < 2

\* A status report that says running was written by a process that still is at work on that
\* refresh, or died in it, or tried to record its end and got an error: no way out of an elected
\* refresh forgets the terminal report, and no failed attempt of another process or of an earlier
\* refresh excuses it (background_refresh::run, write_best_effort).
RunningReportHasWriter ==
  report.state = "running" =>
    \/ report.by = Dead
    \/ report.by \in lost
    \/ report.by \in Procs /\ pc[report.by] \in Working /\ Background(report.by)

\* While an elected background refresh is at work, a report of a running refresh is its own.
WriterOwnsReport ==
  \A p \in Procs :
    Background(p) /\ pc[p] \in {"refresh", "stamp", "promote", "mark"} =>
      report = [state |-> "running", by |-> p]

\* If from some time on one process alone uses the index, and reads it again and again, it
\* brings it to the current generation and refreshes what is due, whatever crashed, failed or
\* lost an election before; unless a newer release wrote it (prepare_index_for_read_now,
\* schedule_auto_refresh_after_output, auto_refresh_is_due).
EventuallyCurrent ==
  \A p \in Procs :
    /\ <>[](\A q \in Procs \ {p} : pc[q] = "idle")
    /\ []<>(pc[p] = "open" /\ job[p].command = "read")
    => <>[](index.version <= Schema[p] => index.version = Schema[p] /\ marker = Schema[p])

\* A running report that a crash or a failed write has left behind does not stay: if from some
\* time on one process alone uses the index, its background refreshes replace it, though they
\* defer to a running report while a writer is at work (preserve_active_writer_report).
StaleReportGivesWay ==
  \A p \in Procs :
    /\ <>[](\A q \in Procs \ {p} : pc[q] = "idle")
    /\ []<>(pc[p] = "open" /\ Background(p))
    => []<>(report.state # "running")
=============================================================================
