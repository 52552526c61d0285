# A formal model of `aise` (AI Session Search)

`aise` indexes the session transcripts that coding agents leave on disk into one SQLite
database and answers searches over it: from a command line, a TUI, an MCP server and a Python
package. It also installs itself into the configuration files of those agents. Nothing in it is
a server of its own: several `aise` processes of possibly different releases share the database
and the configuration files, and any of them may be killed at any time.

This directory models the parts of it whose correctness depends on the order of things. The
source is `src/rust/ai-session-search-core/src`, and for the Python object of `MessageBatches`
`src/rust/ai-session-search-python/src/lib.rs`; every definition that stands for code is listed
with its lines in `PROJECT.json` under `map`. File names below are relative to the first.

## The system

### Components, their state and operations

| component | files | state | operations |
|---|---|---|---|
| index refresh | `indexer.rs` | the discovery set of this run, the source being read | `reindex_until`, `try_tail`, `full_parse_checkpoint`, `source_reconciliation` |
| tail parser | `tail.rs` | none | `complete_prefix_offset`, `prefix_fingerprint`, `fingerprint_matches`, `tail_parse_until` |
| providers and parsers | `providers/*`, `source.rs` | none | discovery, `parse_until`, `total_parse_failure_reason` |
| storage | `db.rs`, `fts.rs`, `trigram*.rs` | tables `files_seen`, `sessions`, `messages`, `file_edits`, `index_metadata`, `user_version` | `upsert_session_with_mode`, `append_tail`, `set_file_checkpoint`, `mark_schema_current`, migrations |
| archive rule | `db.rs` (`store_parsed_messages`, `move_retired_rows`, `merge_transcripts`) | the rows of a session | which stored rows a new parse replaces, keeps or moves |
| refresh election | `indexer.rs` (`IndexCoordinator`), `background_refresh.rs` | the index update lock, the status report file | due check, election, recheck, stamps, terminal report |
| database migration | `migration.rs` | staging database, prepared and published receipts | `migrate_database`, `recover_database_migration` |
| integration transactions | `text_file_transaction.rs` | receipt, lock file, managed files and links | publish, roll back, recover, locked snapshot |
| integrations | `integrations.rs`, `executable_alias.rs`, `skill_*.rs` | client configurations, instruction files, skill package, manifest, discovery links | install, uninstall, status, post-upgrade refresh |
| durable files | `durable_fs.rs`, `durable_path.rs` | staged files | `atomic_write_file`, `publish_new`, `sync_parent` |
| MCP server | `mcp_server.rs`, `service.rs` | reader permits, registrations, cancellation tokens, the refresh thread; the client's roots and the shared application | `call_tool`, delivery, cancel, close; `refresh_official_roots_authority` |
| searches | `message_search*.rs`, `search_scope.rs`, `sql_query.rs` | the producer thread of a search in batches; page cursors | `next_batch`, `close`, `completion`; the rest are pure functions of one snapshot |
| TUI | `tui.rs`, `keymap.rs` | the screen, the worker's mailbox, two generations | edit, filter, move, supersede, absorb, quit |
| Python package | `ai-session-search-python/src/lib.rs` | the batches object, with a lock beside the interpreter's | bindings of the operations above |
| analysis | `analysis_*.rs`, `analytics.rs`, `corrections.rs`, `inspect*` | a published bundle | compute, stage, publish |
| the rest | `cli.rs`, `config.rs`, `update.rs`, `render.rs`, `export.rs`, `util.rs`, ... | none that lives on | parsing, formatting, conversions |

### How they interact

* A command, an MCP request or a detached child decides that the index is due, takes the index
  update lock and runs one refresh. The refresh asks the providers for sources, compares each
  with its `files_seen` row, and stores what the parsers yield through the archive rule. Queries
  read committed rows meanwhile (SQLite WAL).
* Agents (the *harnesses*) write their transcripts whenever they like. They take no lock: the
  refresh reads files that grow, tear, are rewritten or vanish under it.
* The integrations plan an update and hand it to the transaction as a list of changes with
  before and after images. The transaction writes a receipt, publishes the changes one by one,
  marks the receipt published and removes it. A receipt that is found later is undone or
  finalized by `aise integrations recover`. Users edit the same files with their editors.
* A migration copies the index of one place to another under the update locks of both, with two
  receipts that tell `aise migrate recover` how far it came.
* The MCP server runs one handler per request on top of `rmcp`. Reads run on blocking threads
  under a bound; the refresh a read asks for starts when its answer has been delivered. The
  client's roots decide what the reads may see, and change by notification.
* The TUI has one thread for keys and drawing and one for the database, a mailbox with one place
  per kind of request between them, and a channel of answers back.
* A search in batches has a thread of its own that reads one snapshot and hands batches over a
  channel without a buffer; Python threads share the object at the other end.

### What is hard in it

* **Interleaving**: harness against refresh; editor against publication; status snapshot against
  the first writer that creates the lock; plan against another update; delivery against
  cancellation against close of a tool call; `next` against `close` against `completion`.
* **Atomicity**: rows, metadata and checkpoint of one source are written in two transactions;
  a directory gives way to a link in two file operations.
* **Crash and restart** between any two transactions or file operations, and power losses that
  undo operations which had returned.
* **Order**: answers of the database, of the client and of the network arrive when what they
  answer has been superseded.
* **Staleness**: discovery's metadata, the checkpoint of another parser version, the preimages of
  a plan, the state of a file looked at a second time after its parse.
* **Long legal histories**: append, rewrite, upgrade, downgrade, crash, append again, none of
  which alone does harm.
* **Liveness**: one source or one pending receipt must not block the others for ever.

`PROJECT.json` lists each of these at its line under `hazards`.

### What makes each component correct

* refresh: no record is stored twice; a parsed source taken for current lacks none of its records;
  rows of one parser version only; in the end everything readable is indexed, a failed first parse
  of an unchanged file apart, and where the status names no repair none is needed.
* archive rule: a message the harness dropped stays; a message it kept is not duplicated.
* transaction: all or nothing; never over a user's text; never a mixed status; always
  recoverable, and in the end recovered.
* election: one writer; no second refresh of what has just been refreshed; a generation stamp
  only over rows and layout of that generation; a status report that tells the truth.
* reconciliation: what a refresh passes over is indexed as what it is; a session that changes its
  file or its id loses nothing; the index comes to rest when the files do.
* migration: the destination is a whole copy or absent, also after a power loss; nothing is
  replaced; an interrupted one whose evidence agrees is finished.
* MCP calls: no permit is lost; every call ends; delivered answers are followed by the refresh
  they ask for; a closed connection ends the server.
* MCP roots: no call runs on roots older than a notification that was handled.
* TUI: what is shown answers what is asked; every wait ends.
* batches: those of one snapshot; no failure is hidden and no cancellation reported as one; every
  call returns and the producer ends.

## The modules

| module | models | main definitions |
|---|---|---|
| `Picks` | the elements a filter keeps, in order | `Pick` |
| `ArchiveRows` | the multiset arithmetic of `store_parsed_messages` and `move_retired_rows` | `Covers`, `UnseenPositions`, `Stored`, `Merged` |
| `Reindex` | `indexer.rs` and `tail.rs` over the tables of `db.rs`, with the harnesses: one transcript, step by step; the repair commands of `diagnostics.rs` | one action per branch of `reindex_until` |
| `SourceReconciliation` | which session a file is: `source_reconciliation` and the upsert over copied, moved, linked and renamed files, source by source | `Reconcile`, `Store`, `LeaveToHolder` |
| `RefreshElection` | who refreshes and what is stamped and reported: `indexer.rs` around `reindex_until`, `service.rs` and `db.rs` at open, `background_refresh.rs` | one action per check, lock operation, transaction and report |
| `DatabaseMigration` | `migration.rs` over the staging of `durable_fs.rs`, with power losses | one action per file operation |
| `AtomicUpdate` | what an integration update promises | `Commit`, `UserEdit` |
| `TextFileTransaction` | `text_file_transaction.rs` with the plans of `integrations.rs` | one action per file operation; `Atomic` maps it to `AtomicUpdate` |
| `McpCalls` | tool calls of `mcp_server.rs`: admission, delivery, cancellation, close, the refresh thread | one action per handler step |
| `McpRoots` | the client's roots as authority | `Revoke`, `Compare`, `Apply`, `OpenApp` |
| `SearchBrowser` | `tui.rs`: UI thread, mailbox, worker | one action per key, response and worker step |
| `MessageBatches` | `message_search_batches.rs` and the Python object over it | one action per wait, hand-over and lock |
| `MC*` | instances for TLC of the module they are named after | |
| `OperatorsProof` | what the operators of `Picks` and `ArchiveRows` return | `PickProperties`, `StoredProperties`, `StoredDistinct`, `MergedProperties` |
| `CallsProof` | the theorems of `McpCalls`, `McpRoots` and `MessageBatches` | see below |
| other `*Proof` | the theorems of the module they are named after | see below |

`ArchiveRows` is the data part of `Reindex` and `SourceReconciliation`, which see the same refresh
from near and from afar: `Reindex` takes one transcript apart and lets its harness write between
any two steps; `SourceReconciliation` makes the visit of a source one step and lets files trade
places and sessions. `AtomicUpdate` is what `TextFileTransaction` implements. `Reindex` and
`RefreshElection` meet at one step: `RefreshElection!Refresh` stands for a whole run of `Reindex`
under the update lock, and `Reindex` assumes the one writer that the election provides (`LockHeld`
in `RefreshElectionProof`). `McpCalls!StartRefresh` is where a server becomes one of the
processes of `RefreshElection`; `McpRoots!OpenApp` is part of the preparation that `McpCalls!Read`
begins with.

### Reindex

State. `file[s]` is a transcript: its records, how many bytes of the last one are missing, its
modification time, and whether it can be read. `seen`, `ckpt`, `rows` and `stub` are the columns
of `files_seen`, `messages` and `sessions` the refresh reads and writes. `pc`, `full`, `todo`,
`stat` and `work` are the local variables of `reindex_until`.

Actions. `Discover` stats every source and fixes the order-free set `todo`. For a source, `Skip`,
`StartFullParse`, `StartTail` and `FingerprintError` are the four ways through the checks at the
head of the loop and of `try_tail`. `TailRead`/`AppendTail` and `FullRead`/`StoreParsed`/
`SetCheckpoint` are the two paths; `StoreParsed` and `SetCheckpoint` are two transactions, because
they are two in the code. `KeepAfterFailure` and `StubAfterFailure` are the failed parses: with rows
the source keeps what it had and is tried again, without it gets a stub with the metadata of a parsed
source and is not. `RepairCommands` is what the index status then names.
`CheckpointError` is the `?` behind the second look at the file. `Abort` is a crash, a
cancellation or a database error wherever a transaction ends.

Abstractions. A record is a number that is never used again, so a row stored twice is visible. It
is three bytes long, so that a record without its newline and a torn one differ in size from a
complete one. A parse renders each record into one row marked with the parser version. The head
fingerprint covers `HeadRecords` records. Several sources and path aliases are
`SourceReconciliation`'s; sidecar files are left out. A tail parse may be refused at any time
(`TailRefused`), which covers the slices a parser rejects and the session ids that do not match.

### TextFileTransaction

State. `entry[s]` is what the file system holds in a slot: an image of a text file, or nothing, a
directory or a link at a discovery entry. `receipt`, `lockFile`, `writer` and `readers` are the
receipt and the lock beside it. `pc`, `job`, `at`, `conflict` and `report` are what each process
has in memory and loses when it dies.

Actions. `Plan` is the preflight of `install` and `uninstall`, made before the lock; `Acquire`,
`Busy`, `Refuse` and `Prepare` lead to the prepared receipt; `Verify` and `ApplyFile`,
`RemoveDirectory` or `ApplyLink` publish a change in two steps, since the code looks first and
replaces afterwards; `Publish` and `Finish` are the commit and the removal of the receipt. `Fail`,
`PrepareUnconfirmed`, `PublishUnconfirmed`, `FinishFails`, `RestoreFails` and `RollbackAborts` are
the operations that return an error, before or after they took effect. `Examine`, `Restore` and
`RolledBack` undo links before files in reverse order. Recovery and the status snapshot have
actions of their own. The path of a file in a copied package reads through the discovery link once
its directory has become one: `Slot` says where a path leads.

Abstractions. Images are opaque. `durable_fs` stages, syncs and renames, so one operation on one
file is one step. Power loss is left to `DatabaseMigration`, which takes the same operations of
`durable_fs` apart: here what returned stays.

### RefreshElection

State. `index` is what the code reads of the database before it decides: `user_version`, whether
the search layout is complete, and whether there are sessions; `parsed` adds what nobody can read
off, the generation whose parser rendered all rows. `marker` is the freshness timestamp, as the
release that wrote it within the interval. `report` is the status report file with its author;
`lost`, a history variable, has the processes whose last attempt to record the end of a refresh got
an error.
`writer` and `probing` are the holders of the index update lock, exclusive and shared. `pc` and
`job` are where a process is and the local variables it has decided by. `automatic` counts
automatic refreshes since the interval began; only `OneRefreshPerInterval` reads it.

Actions. `Open` is `SessionSearch::open` and `Db::init`: refusing a newer index, repairing a broken
layout under the lock (`RepairElected`, `Repair`), installing a new one, repairing without the lock
(`SelfHeal`, `SelfHealed`). `DecideBackfill`, `DecideRefresh`, `DecideUnreadable`, `DecideExplicit`
and `DecideLibrary` are the checks before the election, by entry point. `Elect`, `Busy` and `Wait`
are the two ways to ask for the lock, `Recheck` the second look under it. `Refresh`, `Stamp`,
`Promote` and `Mark` follow in the order of the code, which for an explicit reindex promotes after
it has marked. `CheckReport` and `WriteReport` are the two halves of `write_best_effort`, `EndProbe`
ends the momentary shared lock, `AskStatus` is a status request. `CutShort`, `Cancel`,
`PromoteBlocked`, `PromoteFails`, `ReportUnread`, `ReportFails` and `Crash` are how each of them goes
wrong. `ReportUnread` takes a report that cannot be read for none and replaces it without a look at
the lock; `ReportFails` is the error of the probe, of the serialization or of the replacement, which
`write_best_effort` prints and forgets: the command goes on, the report stays (an error after the
rename has taken effect is a `WriteReport`). A crash releases locks
and leaves the report, with its author `Dead`. `Schedule` is the refresh that follows a read's
output.

Abstractions. A refresh is one step, complete or cut short. A connection lasts as long as its
command, so that a promotion, which needs the database alone, can be kept from it by any other
command. Progress reports repeat the announcement and are left out. All processes use one database.
Sub-generations below the search layout are told apart only as far as `schema_is_readable` and
`mark_schema_current` do.

### SourceReconciliation

State. `file[p]` is the transcript at a path, with the session id it declares; `link[p]` is the link
a move may leave. `session[i]` is a stored session, `seen[p]` a row of `files_seen` with its
checkpoint. `found`, `stat` and `plan` are what the refresh has read before it visits the first
source, and go on using while sessions change hands.

Actions. `Discover` and `Reconcile` are the two looks at everything. A visit is one of `Skip`,
`AppendTail`, `TailNothingNew`, `TailError`, `KeepFailed`, `LeaveToHolder`, `Store` and `StoreGone`,
the ways through the body of the loop. `Upsert` retires every session that belonged to the file or
its aliases and lets the new one take over their rows (`Merged`). `Put`, `Move` and `Remove` are the
harness and the user, at any time between two visits. A tail whose session was retired by a source
visited before it (`SessionGone`) ends the refresh (`TailError`): messages reference their session, and
foreign keys are enforced.

`MovesWait` and `HeadsTell`, which the last theorem needs of the users, are actions they are not to
take; they are stated beside the proof and restrict no run.

Abstractions. The order of visits is free. Links are followed one deep. One provider and one parser
version; hard links, which discovery reduces to one source, are left out.

### DatabaseMigration

State. `disk[f]` is the file under each of five names in two directories, and whether its contents
are synced. `images[d]` is what a power loss may leave of directory `d`: one view for each operation
since its last sync. `holder` has the update locks; `pc` and `job` are the process's.

Actions. One file operation each, in the order of `migrate_database` and
`recover_database_migration`; `Owned` says which staging file a `StagedFile` would delete on return,
and `Leave` does it. `Fail` is an operation that returns an error, `Kill` a process that dies where
it is, `PowerLoss` picks one image of each directory and tears what was not synced. The source may be
refreshed and the destination used or created by others.

Abstractions. A copy is the generation of the source it was made of, so the checksums, row counts and
quick check of a snapshot are one comparison. Operations on one directory reach the disk in order.
The two directories (database and receipt) may be one in practice, which allows fewer losses.

### McpCalls and McpRoots

`McpCalls` keeps for each request the place of its handler (`call`), its blocking task (`reader`),
its answer (`response`) and the registration that holds its permit until the answer is delivered
(`pending`). `noticed`, `token` and `raised` are the three stages of a cancellation: seen by the
transport, raised by `rmcp`, told to the read. The refresh thread has its channel of one (`signal`)
and its stop flag. `Admit`, `GiveUp`, `Complete`, `Interrupt` and `EndCancelled` are `call_tool`;
`Send` and `FinishDelivery` are the transport's; `Close`, `DropHandler`, `CancelAll`, `DropServer`
and `Join` are the end. `due`, a history variable, is raised when a delivered answer asked for a
refresh and cleared when one starts.

`McpRoots` numbers the client's changes, and a list of roots is the number of the change it shows.
`Revoke` is the handler of a notification up to its request, `Compare` the first look at the
generation, `Apply` the second, with the roots put in place or another request. `OpenApp` opens the
application calls share. Roots that do not resolve, a failing request and roots from the
configuration are constants.

Abstractions. `rmcp` and `tokio` are external, modelled by what the code relies on: a handler per
request in any order, a fair semaphore, handlers dropped at the close. What a call reads is one
step, and so is its preparation under the state's lock.

### SearchBrowser

State. The screen as the handlers see it (query, filter, list, selection, preview, the two waits, the
error), the mailbox (`slot`, `inFlight`, `closed`), the worker and the channel of outcomes.

Actions. `EditQuery`, `FlushQuery`, `ChangeFilter`, `MoveSelection` and `Quit` are keys;
`DropSuperseded`, `ApplyResults`, `ApplyPreview`, `ApplyError` and `ReportDisconnect` are what a
turn of the UI loop does with an outcome; `Take`, `Execute`, `FinishWork` and `EndWorker` are the
worker. A handler takes the mailbox lock at most once and is one step.

Abstractions. `Matches` says which rows a query finds. Poll intervals and the delay of the search
after an edit are any time. Keys whose only effect is on the drawing are left out.

### MessageBatches

State. The producer with its snapshot, the rows it has stepped through and what it offers; the
object's state with the ends it still holds (`start`, `events`, `worker`); the lock of the Python
object and that of the interpreter; where each Python thread is. `delivered` and `told` are history:
the rows handed over, and whether a failure has been reported.

Actions. `Ready` to `RollbackFails` are the producer; a hand-over through the channel without a buffer
is one step of both sides (`Start`, `ReceiveBatch`, `ReceiveCompletion`, `ReceiveFailure`). `Call`,
`Lock`, `Unlock`, `Regain` and `ProjectionFails` are the binding of `next` and `close`, which release
the interpreter before they take the lock; `CallCompletion` and `Completion` the getter, which does
not. `CloseSearch`, `DropStart`, `DropEvents` and `JoinClosed` are the order in which `close` lets go.

Abstractions. A generation of the index is the number of matches in it. The interrupt that `close`
sends is one with the flag SQLite polls; it may end a read early and does not have to. A newest-first
search reads a boundary first, in the same snapshot, and is not told apart.


## What TLC checks

Runs that pass:

| run | instance | properties |
|---|---|---|
| `ReindexRows` | one tailed source, 4 records, 5 changes, two parser versions, rewrites with a new head, 2 mishaps | `NoDuplicateRows`, `CurrentMeansComplete`, `RowsOfOneParser`, `ArchiveKept`, `EventuallyIndexed` |
| `SourcesReconciled` | two paths, two session ids, 3 writes, a move, a run that is full or cut off | `PassedOverIsIndexed`, `OnlyFirstParseReplaces`, `EventuallyReconciled`, `EventuallyStill` |
| `ElectionStamps` | a server and a user on each of five indexes, a crash, a failure, an elapsed interval and a status request | `StampHonest`, `VersionNeverFalls`, `OneRefreshPerInterval`, `RunningReportHasWriter`, `StaleReportGivesWay`, `EventuallyCurrent` |
| `MigrationCutover` | two processes, one of which migrates; a source refresh, two kills, a failing operation, two power losses, someone else's use of the destination | `NeverPartial`, `ReceiptHasCopy`, `NothingReplaced`, `AgreedIsFinished` |
| `UpdateInterrupted` | two processes, plans at any time, one edit, crash and failing operation | `PublishedIsFinalizable`, `StatusShowsCommitted`, `EditsSurvive` |
| `UpdateMigrates` | two processes, a copied package to be replaced by a link, one edit and crash | `PreparedIsRestorable`, `AllOrNothing` |
| `UpdateRecovered` | one process, two crashes and two failing operations | `ReceiptResolved` |
| `McpCallsEnd` | three requests for one permit, two that make a refresh due and one that reads until told to stop; a panic | `PermitsAccounted`, `EveryCallEnds`, `DeliveredIsRefreshed`, `ServerStops` |
| `McpRootsSettle` | four changes of the roots, one of which does not resolve, a failing request, roots in the configuration | `NoStaleRoots`, `AppHasTheRoots`, `RootsSettle` |
| `BrowserSettles` | two queries, two filters, two sessions, three keys, one failing search, a panic of the worker | `ShownIsWanted`, `PreviewIsSelected`, `EventuallySettles`, `QuitJoins` |
| `BatchesEnd` | two Python threads, batches of two rows, an index that grows, 5 calls, 2 faults | `OneSnapshot`, `ProducerReleased`, `FailureReported`, `CallsReturn` |

The type invariants of the modules with a proof, and the invariants that only serve one
(`SingleFlight` of the roots, the lists of the browser), were checked while the proofs were made and
are proved for every instance, so no run repeats them.

Two premises are part of what `ReindexRows` and `ElectionStamps` say. `EventuallyIndexed` excuses a
transcript whose first parse failed and that is still as discovery saw it then (`FailedAsItIs`), and
`CurrentMeansComplete` its stub: no refresh reads that file again (`NoRepairNeeded` below), but a
full reindex does, which is the second half of `EventuallyIndexed`. `RunningReportHasWriter` excuses
an author who tried to record the end of its refresh and got an error, besides one who died; that it
is not excused by anyone else's error, nor by one of an earlier refresh, is what it adds. Either way
the report left behind gives way to the next refresh (`StaleReportGivesWay`).

`AllOrNothing` is `Atomic!Spec`: the transaction implements `AtomicUpdate`, where the store stands
for what a recovery of the receipt would leave. A process that publishes, dies and is rolled back
never changed the abstract store; the step that turns the receipt to *published* changes all of it.

One run finds a property violated that the documentation states (quoted under `findings`):

| run | what happens |
|---|---|
| `CrashBeforeCheckpoint` | a stop between the commit of a full parse and its checkpoint leaves the old tail offset; the next tail parse stores records twice |

### Known counterexamples

Each line names constants that make TLC find a property of the passing runs, or one stated beside
them in the module, violated by what the code does. Where it is a property of a passing run, that
run's constants exclude the cause named. In `SourcesReconciled` its bounds do, and the theorem names the
causes.

| module, change of constants | property | what happens |
|---|---|---|
| `Reindex`, `"checkpoint"` in `AbortPoints` | `NoDuplicateRows` | the run `CrashBeforeCheckpoint` |
| `Reindex`, `"parse"` in `DisturbPoints`, `"store"` in `ReturnPoints` | `CurrentMeansComplete` | a transcript locked during its first parse, and readable again by the checkpoint, becomes a stub with a checkpoint at its end (`indexer.rs:962`); its first records are never indexed |
| `Reindex`, `"store"` in `DisturbPoints`, a fault | `NoDuplicateRows` | a transcript that becomes unreadable between the parse and the checkpoint keeps its old tail offset beside the new rows |
| `Reindex`, `"visit"`, `"parse"`, `"tail"` or `"store"` in `DisturbPoints` | `CurrentMeansComplete` | a transcript rewritten while it is being refreshed gets an offset past records that the parse did not read; the next refresh reads on from there |
| `Reindex`, two sources and `"unreadable"` in `Faults` | `EventuallyIndexed` | the `?` behind the fingerprint (`indexer.rs:1183`) lets one unreadable transcript end every refresh before the sources behind it |
| `Reindex`, `"unreadable"` in `Faults` | `NoRepairNeeded` | a transcript that cannot be opened at its first parse becomes a stub with the time and size discovery saw and the running parser's version (`indexer.rs:912-952`); when it can be opened again, unchanged, every refresh skips it (`db.rs:1792`), and the status names no repair (`diagnostics.rs:218`), though "empty means no repair is required" (`mcp_server.rs:3196`); the premise of `EventuallyIndexed` and of `CurrentMeansComplete` |
| `Reindex`, `"samehead"` in `Rewrites` | `CurrentMeansComplete` | a rewrite that keeps the fingerprinted head passes for an append; inherent in the design |
| `SourceReconciliation`, as in `SourcesReconciled` | `RemovedIsRetained` | a file never indexed that declares a removed file's session id replaces its rows, though the archive is called durable (`indexer.rs:714`) |
| `SourceReconciliation`, as in `SourcesReconciled` | `NoDuplicates` | a copy visited first takes the session; the expected id read before lets `append_tail` add the other file's tail (`indexer.rs:1150`) |
| `SourceReconciliation`, `MaxMoves = 2` | `PassedOverIsIndexed` | a file moved away after its discovery is visited where it was, and becomes a stub with the time discovery saw; moved back, it passes for indexed until it is written again |
| `SourceReconciliation`, one path and id, `MaxWrites = 5` | `PassedOverIsIndexed` | a transcript cut back behind its head and grown past its checkpoint before the next refresh passes for an append (`indexer.rs:1178`, `1182`), and the records written in between are never read; the cause is that of `"samehead"` above |
| `RefreshElection`, `MCRefreshElection!TwoReleases` and `FullReindexes` on `CurrentIndex` | `VersionNeverFalls` | a full reindex of an older release waits for the lock while a newer one raises the generation, and parses and stamps it down again (`indexer.rs:688`), though "future schema generations fail closed" (`db.rs:1647`): that is looked at on opening only |
| `RefreshElection`, `FullReindexes` on `CurrentIndex` | `WriterOwnsReport` | the report of a killed refresh keeps the next one from announcing itself: it takes its own lock for another writer's |
| `DatabaseMigration`, as in `MigrationCutover` | `InterruptedIsRecovered` | a power loss tears the final receipt (`migration.rs:245`), and recovery refuses for ever what it cannot parse |
| `DatabaseMigration`, `"published"` in `StopPoints` | `ReceiptHasCopy` | a kill between the rename of the database and the sync of its directory, a recovery, which does not sync a directory whose file is already there, and a power loss: the receipt outlives the copy |
| `DatabaseMigration`, two `Migrators` | `NeverPartial` | a migration validated before another one announced its copy goes on after that one was killed, and leaves a staging database that is not synced, which a recovery publishes for the announced one |
| `TextFileTransaction`, `EditsBeforeReplace = TRUE` | `EditsSurvive` | an edit between the last look at a file and its replacement is lost (`text_file_transaction.rs:183`); inherent in the design, though "recovery never overwrites content that differs from both recorded images" (`docs/development/configuration.md:460`) |
| `TextFileTransaction`, `PlanDuringUpdate = TRUE` | `AllOrNothing` | an uninstall planned during an installation (`integrations.rs:1441`) leaves out what is not there yet, removes the rest once the lock is free, and ends as a success |
| `TextFileTransaction`, `UpdateMigrates` with `MaxFailures = 1` | `PreparedIsRestorable` | after a link that could not be removed the rollback writes through it into the package |
| `TextFileTransaction`, `UpdateInterrupted` from `MigrationStart` | `PublishedIsFinalizable` | a published receipt that replaced a package by a link cannot be verified |
| `SearchBrowser`, both kinds in `FailingKinds`, `MaxErrors = 2` | `ShownIsWanted` | a failed preview takes over the error of a failed search; the next preview clears it, and the list of the previous query stands without an error |

`UpdateInterrupted` and `UpdateMigrates` are two runs because the second's start breaks the first's
property and the first's plans break the second's. `UpdateRecovered` has one process: two that
recover, or one that keeps asking for the status, can keep each other busy for ever.

### Bounds

* `Reindex`: four records and five changes let a source be indexed, appended to, rewritten with a
  summary, indexed again and appended to once more, with a torn record on the way: every pair of a
  full and a tail parse around a rewrite, and a version change on either side of each.
  `HeadRecords = 1` leaves records both inside and outside the fingerprint. Two mishaps are a crash
  and a fault, or two crashes, in one history.
* `SourceReconciliation`: two paths and two ids are a copy, a rename, a swap of ids and a link with
  its target; three writes let both files exist, agree and part again.
* `RefreshElection`: the server runs background refreshes; the user reads (which goes on to a
  background refresh of its own), reindexes fully and makes library calls: every entry point that
  writes, the two left out (`refresh`, and `explicit` without `--full`) being paths through the same
  actions. One failure is shared by refreshes, promotions and the reading and writing of reports, so
  that each of them fails at every place, next to a crash. The five indexes are a new one, one too
  old to read, generation 4 and 5 with a damaged layout, and one of a later release. Two processes
  suffice for losing an election, waiting for it, and keeping a promotion from the database; the
  proofs cover any number and every command.
* `TextFileTransaction`: two processes are enough for the locks, since readers and writers exclude
  each other pairwise. Install and uninstall share three of four targets, and the copied package adds
  the two-operation change of a directory. One edit, crash and failing operation each, in any order.
* `DatabaseMigration`: a migration and a recovery that races or follows it; two kills are one of each,
  two power losses one before and one during the recovery, and one refresh makes the source differ
  from the copy.
* `McpCalls`: one permit for three requests makes one run, one wait and one give up or be cancelled
  in the queue; two of them make a refresh due, so that a signal can meet a full channel.
* `McpRoots`: with four changes one can arrive during each of the two looks and the request between
  them, and one after.
* `SearchBrowser`: three keys are an edit, a selection and a filter in flight together, in any order;
  the mailbox holds one request beside the one in work, so a fourth repeats the third.
* `MessageBatches`: the two snapshots have two and three rows, so with batches of two one ends on a
  full batch and one on a part of it; two threads wait for each other and for the lock of the
  interpreter; five calls drain a search, ask again after its end and close it twice. `MaxCalls` also
  bounds how often one thread overtakes the other at the mutex, which is not fair.

### Fairness

Weak fairness of a process's or a thread's steps says that what runs is scheduled; it is assumed of
nothing that a user, a harness or a client decides.

* `Reindex!FairSpec`: weak fairness of `Refresh`. A refresh that has begun runs on, and reads keep
  starting new ones (`auto_reindex` before a query, the MCP server at its start).
  `EventuallyIndexed` assumes that in the end one build runs, and in its second half besides that
  full reindexes are run again and again and get as far as the transcript (`FullyReindexed`).
* `SourceReconciliation!FairSpec`: the same.
* `RefreshElection!FairSpec`: the steps of a running command and the end of a status probe. Starting
  a command is not fair; `EventuallyCurrent` says what follows if one process reads again and again
  while the others have stopped, `StaleReportGivesWay` if it runs background refreshes again and
  again. That they have is a premise because waiting connections can keep
  each other from every promotion.
* `TextFileTransaction!FairSpec`: the steps of a running command, and strong fairness of
  `StartRecover`: a user who is told to run the recovery does so, again if need be, though other
  commands come between. Without it a receipt may stay for ever, by design.
* `DatabaseMigration!FairSpec`: the steps of a running command, and strong fairness of its first look
  at the receipt, for the same reason.
* `McpCalls!FairSpec`: the handler, the read, the delivery and the cancellation of each call, the
  refresh thread and the steps of the shutdown. The client need not send, cancel or disconnect.
  `EveryCallEnds` has delivery: a client that stops reading keeps its permits, by design.
* `McpRoots!RootsFairSpec`: each handler, and the client's answer to each request.
* `SearchBrowser!FairSpec`: the turns of the UI loop, the worker, and the search that an edit has put
  off. Keys are not fair.
* `MessageBatches!BatchesFairSpec`: the producer, and the code of each Python thread once it is inside a
  call.

Crashes, failures and edits are never fair; their bounds end them.

## What is proved

Each theorem holds for every value of the constants its module's assumptions allow: any number of
files, records, processes, requests, crashes and rewrites, those that the passing runs exclude
included unless a premise is named.

Data. `OperatorsProof` proves what `Pick` returns (`PickProperties`, `PickKeepsAll`, `PickInOrder`,
`PickMovesLeft`): a fold over positions, stated once so that the modules above it need no recursion.
From it follow `StoredProperties` (the archive rule loses no stored key, and a parse that covers the
stored rows replaces them), `StoredDistinct` (it makes no row occur twice) and `MergedProperties` (a
session that takes over the rows of retired ones keeps theirs and its own).

`ReindexProof`:

* `TypeCorrect`: `Spec => []TypeOK`.
* `OneParserPerSession`: `Spec => []RowsOfOneParser`. It is not inductive by itself: the rows in
  hand must be the running version's, and a tail may only be under way for a source whose
  `files_seen` row names that version. `ParserInv` adds these two.
* `NothingLeavesTheArchive`: `Spec => ArchiveKept`, from `ParserInv` and `StoredProperties`: the
  only step that drops rows is a store, and a store under the same parser version keeps the keys.
* `NothingStoredTwice`: `Spec => []NoDuplicateRows` under `CheckpointsFollow`: no refresh is cut off,
  and no transcript becomes inaccessible, between the commit of a parse and its checkpoint statement.
  Without it TLC has the counterexamples above. The property relates rows, checkpoint and a file that
  may have been rewritten any number of times since; what carries it is `PastIsNew`: a stored record
  that is still in the file is before the checkpoint. A rewrite keeps this whatever it drops, because
  it only moves old records to the left and numbers new ones afresh (`Moved`, `Numbered`,
  `StoredNumbered`); `WorkIsNew` says the same of the rows in hand. Rewrites may come at any point and
  may keep the fingerprinted head. `RowsInv` is the conjunction.
* `SkippedIsComplete`: `Spec => []CurrentMeansComplete` under `RewritesShow`: a source that was
  parsed (stubs of failed first parses are apart) and is skipped has all its records, if rewrites
  come between two refreshes and change the head and no file becomes readable between the commit of
  its stub and the checkpoint. Appends, flushes, faults, stops and changes of build may come
  anywhere. The invariant, `ReadInv`, says that a recorded head is that of the file or part of it is
  gone for good (`Headed`), that nothing before a checkpoint with a matching head is missing
  (`PastIsKnown`), that no file is older than what is recorded of it and a size that did not change
  stands for contents that did not (`Timely`), and what each step has in hand (`InHand`); `Told` is
  the property before the versions are compared.

`SourceReconciliationProof`, for any finite sets of paths and session ids, in any order of visits:

* `TypeCorrect`: `Spec => []TypeOK`.
* `NothingElseIsReplaced`: `Spec => OnlyFirstParseReplaces`, without a premise. A step either leaves
  the rows of every session where they are or puts them into another session (`RowsStay`); what a
  session takes over from those it retires is a fold (`Joined`), of which `JoinedProperties` says that
  it has the rows of all of them.
* `WhatIsPassedOverIsIndexed`: `Spec => []PassedOverIsIndexed` under two premises on the behaviour.
  `MovesWait`: no file is moved from where a refresh has found it before the refresh has visited it.
  `HeadsTell`: a change that leaves a path with the head recorded for it leaves everything before the
  checkpoint. Each is needed (see above). Appends, rewrites with a new head, copies, removals, renamed
  sessions, links and refreshes that are cut off may come at any time, files that are not waiting for
  a visit may be moved, and a session may change hands between the look at it (`Reconcile`) and the
  visit. The property relates a file to one session through a time and
  an offset recorded at a path, and none of the three stays where it is. The invariant, `Passable`,
  says that times name files (`Timed`), that a path has one session and metadata while it has one
  (`Sourced`), that a discovered file is where it was or nowhere (`Discovered`), that the plan of a
  source still to be visited names its session if it had any then and has one now (`Planned`), that a
  session whose source was last parsed at some file's time has that file's records wherever the file
  is now (`Whole`), and that a path that begins as it did has everything before its checkpoint in its
  session (`Headed`), which is what a tail builds on.

The induction over a set's size that a fold needs is done without the library's induction theorems,
which take an operator: strict inclusion of finite sets is well-founded, so a nonempty set of numbers
has a least element (`Least`), and so has the set of sizes of sets for which a fact of the fold fails.

`RefreshElectionProof`:

* `TypeCorrect`: `Spec => []TypeOK`, and with it that shared and exclusive locks never coexist.
* `RunningReportsEnd`: `Spec => []RunningReportHasWriter`, whatever the releases and whatever reads,
  probes and writes of reports fail: the author of a running report is at work on that refresh, died,
  or is in `lost`, having tried to record its end and got an error. Its invariant `ReportOwned` adds
  that the author was elected, for only then does its command end in an attempt to report.
* `StampsTrue`, `StampNeverFalls` and `OneRefresh`: `StampHonest`, `VersionNeverFalls` and
  `OneRefreshPerInterval`, under `ThisRelease`: every process has the generation of this release, 5.
  Two releases break the second (see above). The three share one inductive invariant, `IInv`.
  `LockHeld` says where a process holds the update lock. `LayoutKnown` says that whoever has the
  database open has found or made its layout, and that a self-repair has the database alone, which is
  why the target it chose is still right. `NewerUntouched` keeps full reindexes from an index of a
  later release, `Provenance` has a full refresh behind every stamp to come, and `OnceDone` has the
  second look under the lock behind every automatic refresh.

`TextFileTransactionProof`:

* `TypeCorrect`: `Spec => []TypeOK`. A step takes the receipt from a process or leaves it on disk, so
  the induction is over `Typed`, which adds where each process is while it holds a job (`Placed`) and
  that a writer past its preparation finds its own receipt (`OwnReceipt`).
* `StatusTrue`: `Spec => StatusShowsCommitted`. `Snapshots` says what a reader in the middle of its
  snapshot may assume: from the moment it holds the lock, or has seen that there is none and will look
  again, the files it has read are of one committed state.
* `EditsAreKept`: `Spec => EditsSurvive` under `~EditsBeforeReplace`: what a process has in hand
  between its look and its replacement is what the slot holds (`InHand`).
* `PreparedIsLeftRestorable` and `PublishedIsLeftFinalizable`: `PreparedIsRestorable` under
  `Recoverable`, `PublishedIsFinalizable` under `NothingCopied`. `NothingCopied` says that no client
  has a copied package to begin with, `Recoverable` that there is none or no operation fails; for both
  TLC has a counterexample without (see above). The invariant, `IInv`, says that the recorded changes
  are of different paths, copied files before their directory (`Shapes`), that each is as it was
  before, as it is to be, or between the two operations that exchange a directory for a link
  (`Accounted`), that a copied file only exists in a directory (`CopiesInDirectories`), and which
  changes a process at a given place has behind it (`Position`).
* `UpdatesAreAtomic`: `Spec => AllOrNothing`, the refinement of `AtomicUpdate`, under `Recoverable`,
  `~EditsBeforeReplace` and `UpdatesAlone`: no update is planned while another is planned, under way or
  pending. Recoveries, status commands, edits and crashes come at any time. The step that publishes the
  receipt is `Commit`, a user's edit is `UserEdit`, every other step leaves the store of a would-be
  recovery as it is. `UpdatesAlone` is a premise on the behaviour and more than the
  `PlanDuringUpdate = FALSE` of `UpdateMigrates`, under which two processes may still both plan and then
  take turns: what the second leaves out of its plan the first may change. `AloneIsAtomic` derives it
  for one process. `AInv` adds to `IInv` that one process has a job at a time (`Sole`) and that its
  job is all that its update still has to change (`Carries`).

These rest on three facts about the updates, assumed in `TransactionAssumption` because the code
refuses or never makes others: no path occurs twice (`OneChangePerPath`, `validate_changes`), files come
before links (`FilesFirst`), and a copied package is only removed to be replaced by a link
(`CopiesAreReplaced`, `plan_migrate_discovery_copies`).

`DatabaseMigrationProof`. `TypeCorrect` (`Spec => []TypeOK`) and `NoneIsReplaced`
(`Spec => NothingReplaced`) have no premise. `images`, a set of views per directory, is kept out of the
rest: what matters of it is what a power loss may leave under the two names that are promised
something (`Destinations` and `Receipts`), and an operation adds to these at most what it has just
put there (`Kept`).

* `DestinationIsWhole`: `Spec => []NeverPartial` if one process migrates (`OneMigrator`), however many
  recover. The invariant says that copying only goes on while there is no receipt (`Ordered`), what a
  process has in hand at each place (`InHand`), and that an announced staging database and a staged
  receipt are synced (`StagedIsSafe`, `FinalIsSafe`). Two migrations break it (see above).
* `ReceiptsAreBacked`: `Spec => []ReceiptHasCopy` if, besides, nothing stops a process between the
  rename of the database and the sync of its directory (`PublicationsEnd`). `Durable` says that
  otherwise a copy that is in place can no longer be lost. A stop there breaks it (see above).

`CallsProof` proves `EveryPermit` of `McpCalls`: `Spec => []PermitsAccounted`. The invariant says
besides that a blocking task only runs for an admitted call (`TasksAreAdmitted`), and that a permit
is only registered with the transport once its call has ended (`RegistrationsAreEnded`): nobody
returns it twice.

The definitions of `McpRoots` and `MessageBatches` have names of their own, so that one module may
extend all three. Of `McpRoots` it proves
`RootsTypeCorrect`, `OneRequest` (one request to the client at a time), `RootsAreFresh` and
`CallsHaveTheRoots`: no roots older than the last notification handled are in force, and the application
that calls share has the roots that are in place. The invariant, `RootsInv`, says in addition that the
generation asked for is that of a notification handled (`WantedHandled`), and that an answer whose
generation is current was given after every notification handled (`AnswersFresh`).

Of `MessageBatches` it proves `BatchesOfOneSnapshot`, `EndReleasesProducer` and `FailuresAreTold`:
`OneSnapshot`, `ProducerReleased` and `FailureReported`, for any number of threads, batch size,
index and faults. The three share `BatchesInv`: who is inside `next` or `close` has the object's
lock (`Exclusive`); a producer that ends as cancelled was cancelled (`CancelledFirst`); what went
wrong is known by how the producer ends (`FaultsKnown`); one that has not begun or has ended pins no
snapshot (`Unpinned`); a worker is let go only after its end, and a failure is told to whoever joins
it (`Joined`); and the rows delivered, followed by those that wait, are the beginning of one
generation, the one being read (`OneGeneration`).

`SearchBrowserProof` proves `TypeCorrect`; `OnlyCurrent` (an outcome of a superseded generation
changes nothing on the screen); `PreviewIsRight` (`PreviewIsSelected`, whichever requests fail);
and, as long as previews do not fail, `ListIsRight` (`ShownIsWanted`). The invariant,
`GenerationsMatch`, says that a generation stands for what was on the screen when it was drawn,
wherever it is now: in the mailbox, in work, in the channel or being waited for.

### Only model-checked

* All liveness (`EventuallyIndexed`, `EventuallyReconciled`,
  `EventuallyStill`, `EventuallyCurrent`, `StaleReportGivesWay`, `AgreedIsFinished`,
  `ReceiptResolved`, `EveryCallEnds`, `DeliveredIsRefreshed`, `ServerStops`, `RootsSettle`,
  `EventuallySettles`, `QuitJoins`, `CallsReturn`): the prover has no rules for `ENABLED`.

## What the models leave open

Behaviours met while modelling that no run states, and where a model stops.

* `DatabaseMigration`: a `StagedFile` dropped on the way out of "requires inspection" deletes the file
  it asks to inspect. A publication that fails after the prepared receipt deletes the staging database
  and leaves a receipt without evidence. A torn prepared receipt blocks both commands. A source that
  was refreshed after the prepared receipt, or a destination used before the final one, makes recovery
  refuse.
* `McpCalls`: a thread that unwinds from a panic loses the signal it was to send until the next call.
  Reused request ids, poisoned locks and panics of the refresh thread are left out. The permit of a
  call cancelled between the notice and the token is returned because `rmcp` answers cancelled
  requests. The run does not look for deadlocks because the server stops.
* `McpRoots`: a client that never answers blocks later refreshes, there being no timeout. Calls
  prepared before a revocation go on reading with the roots they have. A poisoned lock leaves
  `request_in_flight` set.
* `SearchBrowser`: a search that cancels a preview in flight and then fails leaves the old preview
  under its error.
* `SourceReconciliation`: the guard against oscillation (`indexer.rs:931`) is passed over for changed
  and new files and in full reindexes; `EventuallyStill` shows that the archive settles all the same.
* `MessageBatches`: `close` in another thread waits for the mutex, so it cannot interrupt a `next` that
  runs. The getter of the completion waits while it holds the interpreter. An interrupt can hit the
  `ROLLBACK` itself, which is then reported as a failed cleanup. A panic leaves the object open until it
  is closed; dropping it ignores the error of `close`.
* `TextFileTransaction`: the lock is beside the receipt, so two commands given different receipts
  exclude nobody (`text_file_transaction.rs:820`); the model has one receipt.
* `RefreshElection`: a library call on an index of a newer release refreshes it with the older parser
  (`indexer.rs:376`), since the database it has open does not refuse; the model has it, and no property
  forbids it.

## Not modelled

Most of the repository converts data and keeps no state: the formats of transcripts and of clients'
configuration files, SQL text and ranking, analytics and corrections, drawing, printing, exporting, the
definitions of the command line, generated skills and documentation, tests and benchmarks. None of it
has an order of steps to get wrong, its operations are functions of bounded input that the repository's
tests cover, and a model of it would repeat it line by line. The map therefore covers the parts that
coordinate, a small share of the lines.

Of the parts that do have an order:

* The trigram base of generations below 4 (`trigram*.rs`, `db.rs`): a second index that a full refresh
  rebuilds. Rows re-parsed below its maximal id reuse ids whose postings describe other rows, so that
  substring searches pass over them until the next full refresh. The current generation has no such
  base.
* The staging of analysis bundles (`analysis_publication.rs`): a directory staged, synced and renamed
  to a name that must not exist, the operations that `DatabaseMigration` takes apart for a file.
* The self update (`update.rs`): downloads and replaces the executable through another installer.
* Of the integrations: uninstalling a copied package and pruning its directory, several receipts at
  once, edits that delete files or change links.
* Of the refresh: sidecar files, several providers for one path, hard links.
* Power loss in `TextFileTransaction` and in SQLite, which promises its own recovery.

The components table in `PROJECT.json` gives the reason for each.

## What remains

* `Reindex` with several sources in a run of its own once an unreadable one no longer ends a refresh.
* The post-upgrade refresh of `integrations.rs` over `TextFileTransaction`, and several receipts.
