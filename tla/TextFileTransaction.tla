------------------------- MODULE TextFileTransaction -------------------------
(***************************************************************************)
(* text_file_transaction.rs: integration updates over several text files   *)
(* and discovery links, with a durable receipt as the undo log, run by     *)
(* several aise processes at once (install, uninstall, recover, status),   *)
(* any of which may die between two file operations, while users edit the  *)
(* same files.  An operation on one entry is atomic (durable_fs stages and *)
(* renames); the images are abstract.                                      *)
(*                                                                         *)
(* A discovery entry is absent, a directory holding a copied package, or a *)
(* link to the canonical package.  A file inside a copied package is       *)
(* therefore reached under a path that leads elsewhere once its directory  *)
(* has become a link.                                                      *)
(***************************************************************************)
EXTENDS Naturals, Sequences, FiniteSets, Picks

CONSTANTS
  Procs,
  Files, Links,     \* managed text files and discovery entries
  Home,             \* Home[f]: the discovery entry whose directory holds f, or NoLink
  Package,          \* Package[f]: the canonical file f's path leads to through that link
  Owned,            \* files of the skill package, which only aise is meant to write
  Texts,            \* texts aise writes
  Start,            \* the initial image of every slot
  ReadOrder,        \* the slots in the order the status command reads them
  Updates,          \* updates on offer: [kind, changes], a sequence of [path, after], files
                    \* before links
  MaxEdits, MaxCrashes, MaxFailures, \* bounds: user edits, process deaths, failing operations
  PlanDuringUpdate,  \* whether a command may plan while an update is under way or pending
  EditsBeforeReplace \* whether an edit may fall between the last look at a file and its replacement

NoLink == "none"
NoProc == "nobody"
Absent == "absent"
Edited == "edited"
Slots == Files \cup Links
FileImages == Texts \cup {Absent, Edited}
LinkImages == {Absent, "directory", "link"}
Images == FileImages \cup LinkImages

\* validate_changes refuses two changes of one path.
OneChangePerPath(changes) ==
  \A i, j \in DOMAIN changes : changes[i].path = changes[j].path => i = j

\* Links are published after all files, and rolled back before them.
FilesFirst(changes) ==
  \A i, j \in DOMAIN changes : i < j /\ changes[i].path \in Links => changes[j].path \in Links

\* A copied package is only removed, to be replaced by a link (plan_migrate_discovery_copies).
CopiesAreReplaced(changes) ==
  \A i \in DOMAIN changes :
    changes[i].path \in Files /\ Home[changes[i].path] # NoLink =>
      /\ changes[i].after = Absent
      /\ [path |-> Home[changes[i].path], after |-> "link"] \in {changes[j] : j \in DOMAIN changes}

TransactionAssumption ==
  /\ Files \cap Links = {}
  /\ Home \in [Files -> Links \cup {NoLink}]
  /\ Package \in [Files -> Files]
  /\ \A f \in Files : Home[f] = NoLink <=> Package[f] = f
  /\ \A f \in Files : Home[Package[f]] = NoLink
  /\ Owned \subseteq Files
  /\ \A update \in Updates :
       /\ update.kind \in {"install", "uninstall"}
       /\ update.changes \in Seq([path : Files, after : Texts \cup {Absent}]
                                   \cup [path : Links, after : {Absent, "link"}])
       /\ OneChangePerPath(update.changes)
       /\ FilesFirst(update.changes)
       /\ CopiesAreReplaced(update.changes)
  /\ Texts \cap ({Edited} \cup LinkImages) = {}
  /\ NoProc \notin Procs
  /\ \A s \in Files : Start[s] \in FileImages
  /\ \A f \in Files : Start[f] # Absent /\ Home[f] # NoLink => Start[Home[f]] = "directory"
  /\ \A s \in Links : Start[s] \in LinkImages
  /\ Start \in [Slots -> Images]
  /\ ReadOrder \in Seq(Slots)
  /\ \A s \in Slots : \E i \in DOMAIN ReadOrder : ReadOrder[i] = s
  /\ Len(ReadOrder) = Cardinality(Slots)
  /\ MaxEdits \in Nat /\ MaxCrashes \in Nat /\ MaxFailures \in Nat
  /\ EditsBeforeReplace \in BOOLEAN /\ PlanDuringUpdate \in BOOLEAN
ASSUME TransactionAssumption

VARIABLES
  entry,     \* entry[s]: what the file system holds in slot s
  receipt,   \* the receipt file: NoReceipt, or its phase and changes
  lockFile,  \* whether the adjacent lock file exists; it is never deleted
  writer,    \* the process holding the lock exclusively, or NoProc
  readers,   \* processes holding it shared
  pc,        \* pc[p]: where process p is
  job,       \* job[p]: the changes it publishes or rolls back, each with before and after image
  at,        \* at[p]: the change, or the status entry, it has reached
  conflict,  \* conflict[p]: its rollback met an entry it could not restore
  report,    \* report[p]: what its status snapshot has read so far
  edits, crashes, failures  \* counts, only for the bounds

vars == <<entry, receipt, lockFile, writer, readers, pc, job, at, conflict, report,
          edits, crashes, failures>>
locks == <<lockFile, writer, readers>>
bounds == <<edits, crashes, failures>>

NoReceipt == [phase |-> "none", changes |-> << >>]
Pending == receipt.phase # "none"

Init ==
  /\ entry = Start
  /\ receipt = NoReceipt
  /\ lockFile = FALSE
  /\ writer = NoProc
  /\ readers = {}
  /\ pc = [p \in Procs |-> "idle"]
  /\ job = [p \in Procs |-> << >>]
  /\ at = [p \in Procs |-> 0]
  /\ conflict = [p \in Procs |-> FALSE]
  /\ report = [p \in Procs |-> << >>]
  /\ edits = 0 /\ crashes = 0 /\ failures = 0
-----------------------------------------------------------------------------
(* The file system *)

\* Whether the path of file f leads through a discovery link into the canonical package.
Linked(f) == Home[f] # NoLink /\ entry[Home[f]] = "link"

\* The slot a path leads to, and what is read there.
Slot(path) == IF path \in Files /\ Linked(path) THEN Package[path] ELSE path
Current(path) == entry[Slot(path)]

\* Files copied into the directory of a discovery entry.
Copied(link) == {f \in Files : Home[f] = link /\ entry[f] # Absent}

\* A written file creates its directory (atomic_write_file).
Written(path, image) ==
  LET s == Slot(path)
      filled == [entry EXCEPT ![s] = image]
  IN IF s \in Files /\ Home[s] # NoLink /\ entry[Home[s]] = Absent
     THEN [filled EXCEPT ![Home[s]] = "directory"]
     ELSE filled

\* A user writes a file, wherever its path leads.
UserEdit(f) ==
  /\ edits < MaxEdits
  /\ Home[f] # NoLink => entry[Home[f]] # Absent
  /\ EditsBeforeReplace \/
       \A p \in Procs : pc[p] \in {"apply", "restore"} => job[p][at[p]].path # f
                                                          /\ Slot(job[p][at[p]].path) # Slot(f)
  /\ edits' = edits + 1
  /\ entry' = [entry EXCEPT ![Slot(f)] = Edited]
  /\ UNCHANGED <<receipt, locks, pc, job, at, conflict, report, crashes, failures>>
-----------------------------------------------------------------------------
(* Publishing an update: execute_transaction_with *)

\* Package files a user changed: an install refuses, an uninstall preserves them.
Changed(update) ==
  {i \in DOMAIN update.changes :
     LET path == update.changes[i].path
     IN path \in Owned /\ ~Linked(path) /\ Current(path) = Edited}

\* preflight: nothing is planned for a target that needs no change, nor for a copied package
\* whose directory is a link already (plan_migrate_discovery_copies).
Planned(update) ==
  LET changes == update.changes
      needed == {i \in DOMAIN changes :
                   LET c == changes[i]
                   IN /\ Current(c.path) # c.after
                      /\ ~(c.path \in Files /\ Linked(c.path))
                      /\ c.path \in Owned => Current(c.path) # Edited}
      chosen == Pick(changes, needed)
  IN [i \in DOMAIN chosen |->
        [path |-> chosen[i].path, before |-> Current(chosen[i].path), after |-> chosen[i].after]]

\* Uninstalling a copied package (its directory is pruned afterwards) is not modelled.
Offered(update) ==
  /\ update.kind = "install" => Changed(update) = {}
  /\ update.kind = "uninstall" =>
       \A i \in DOMAIN update.changes : Current(update.changes[i].path) # "directory"

\* The plan is made before the lock is taken.
Plan(p, update) ==
  /\ pc[p] = "idle"
  /\ PlanDuringUpdate \/ (writer = NoProc /\ ~Pending)
  /\ Offered(update)
  /\ Planned(update) # << >>
  /\ job' = [job EXCEPT ![p] = Planned(update)]
  /\ pc' = [pc EXCEPT ![p] = "planned"]
  /\ UNCHANGED <<entry, receipt, locks, at, conflict, report, bounds>>

\* p ends its command and lets go of the lock.
End(p) ==
  /\ pc' = [pc EXCEPT ![p] = "idle"]
  /\ job' = [job EXCEPT ![p] = << >>]
  /\ at' = [at EXCEPT ![p] = 0]
  /\ conflict' = [conflict EXCEPT ![p] = FALSE]
  /\ report' = [report EXCEPT ![p] = << >>]
  /\ writer' = IF writer = p THEN NoProc ELSE writer
  /\ readers' = readers \ {p}

LockFree == writer = NoProc /\ readers = {}

\* open_file_lock creates the lock file, then try_write takes it or gives up
\* (IntegrationLockHeld).
Acquire(p) ==
  /\ pc[p] = "planned"
  /\ LockFree
  /\ lockFile' = TRUE
  /\ writer' = p
  /\ pc' = [pc EXCEPT ![p] = "prepare"]
  /\ UNCHANGED <<entry, receipt, readers, job, at, conflict, report, bounds>>

Busy(p) ==
  /\ pc[p] = "planned"
  /\ ~LockFree
  /\ lockFile' = TRUE
  /\ End(p)
  /\ UNCHANGED <<entry, receipt, bounds>>

Intact(p) == \A i \in DOMAIN job[p] : Current(job[p][i].path) = job[p][i].before

\* A pending receipt, or a target changed since preflight, stops the update before any write.
Blocked(p) == Pending \/ ~Intact(p)

Refuse(p) ==
  /\ pc[p] = "prepare"
  /\ Blocked(p)
  /\ End(p)
  /\ UNCHANGED <<entry, receipt, lockFile, bounds>>

\* The receipt is on disk before the first mutation.
Prepare(p) ==
  /\ pc[p] = "prepare"
  /\ ~Blocked(p)
  /\ receipt' = [phase |-> "prepared", changes |-> job[p]]
  /\ at' = [at EXCEPT ![p] = 1]
  /\ pc' = [pc EXCEPT ![p] = "verify"]
  /\ UNCHANGED <<entry, locks, job, conflict, report, bounds>>

Change(p) == job[p][at[p]]

StartRollback(p) ==
  /\ at' = [at EXCEPT ![p] = Len(job[p])]
  /\ conflict' = [conflict EXCEPT ![p] = FALSE]
  /\ pc' = [pc EXCEPT ![p] = "rollback"]

\* verify_image and verify_symlink_image right before each publication.
Verify(p) ==
  /\ pc[p] = "verify"
  /\ IF Current(Change(p).path) = Change(p).before
     THEN pc' = [pc EXCEPT ![p] = "apply"] /\ UNCHANGED <<at, conflict>>
     ELSE StartRollback(p)
  /\ UNCHANGED <<entry, receipt, locks, job, report, bounds>>

\* Forgetting the last change.
MoreButOne(p) == at[p] + 1 < Len(job[p])

More(p) == at[p] < Len(job[p])

Advance(p) ==
  /\ \/ /\ More(p)
        /\ at' = [at EXCEPT ![p] = @ + 1]
        /\ pc' = [pc EXCEPT ![p] = "verify"]
     \/ /\ ~More(p)
        /\ pc' = [pc EXCEPT ![p] = "publish"]
        /\ UNCHANGED at
  /\ UNCHANGED conflict

\* apply_image; removing a file that is gone fails.
ApplyFile(p) ==
  LET c == Change(p)
  IN /\ pc[p] = "apply" /\ c.path \in Files
     /\ IF c.after = Absent /\ Current(c.path) = Absent
        THEN StartRollback(p) /\ UNCHANGED entry
        ELSE entry' = Written(c.path, c.after) /\ Advance(p)
     /\ UNCHANGED <<receipt, locks, job, report, bounds>>

\* publish_install_skill_discovery_link removes an emptied legacy directory; one that holds a
\* file again fails the update.
RemoveDirectory(p) ==
  LET c == Change(p)
  IN /\ pc[p] = "apply" /\ c.path \in Links
     /\ entry[c.path] = "directory"
     /\ IF Copied(c.path) = {}
        THEN /\ entry' = [entry EXCEPT ![c.path] = Absent]
             /\ UNCHANGED <<pc, at, conflict>>
        ELSE StartRollback(p) /\ UNCHANGED entry
     /\ UNCHANGED <<receipt, locks, job, report, bounds>>

\* apply_symlink_image: create the link, or remove it.
ApplyLink(p) ==
  LET c == Change(p)
  IN /\ pc[p] = "apply" /\ c.path \in Links
     /\ entry[c.path] # "directory"
     /\ entry' = [entry EXCEPT ![c.path] = c.after]
     /\ Advance(p)
     /\ UNCHANGED <<receipt, locks, job, report, bounds>>

\* A publication, the sync after it, or writing the final receipt fails.
Fail(p) ==
  /\ pc[p] \in {"verify", "apply", "publish"}
  /\ failures < MaxFailures
  /\ failures' = failures + 1
  /\ StartRollback(p)
  /\ UNCHANGED <<entry, receipt, locks, job, report, edits, crashes>>

\* The published phase is the commit.
Publish(p) ==
  /\ pc[p] = "publish"
  /\ receipt' = [receipt EXCEPT !.phase = "published"]
  /\ pc' = [pc EXCEPT ![p] = "finish"]
  /\ UNCHANGED <<entry, locks, job, at, conflict, report, bounds>>

\* remove_receipt, after a publication, a clean rollback or a recovery.
Finish(p) ==
  /\ pc[p] = "finish"
  /\ receipt' = NoReceipt
  /\ End(p)
  /\ UNCHANGED <<entry, lockFile, bounds>>

\* The receipt cannot be removed.
FinishFails(p) ==
  /\ pc[p] = "finish"
  /\ failures < MaxFailures
  /\ failures' = failures + 1
  /\ End(p)
  /\ UNCHANGED <<entry, receipt, lockFile, edits, crashes>>

\* A receipt is in place but the sync after it fails: the command ends and leaves it.
PrepareUnconfirmed(p) ==
  /\ pc[p] = "prepare"
  /\ ~Blocked(p)
  /\ failures < MaxFailures
  /\ failures' = failures + 1
  /\ receipt' = [phase |-> "prepared", changes |-> job[p]]
  /\ End(p)
  /\ UNCHANGED <<entry, lockFile, edits, crashes>>

PublishUnconfirmed(p) ==
  /\ pc[p] = "publish"
  /\ failures < MaxFailures
  /\ failures' = failures + 1
  /\ receipt' = [receipt EXCEPT !.phase = "published"]
  /\ End(p)
  /\ UNCHANGED <<entry, lockFile, edits, crashes>>
-----------------------------------------------------------------------------
(* Rolling back: rollback_prepared, links before files, last change first *)

\* The directory of a copied package was removed and the link not created yet.
Between(c) == c.before = "directory" /\ Current(c.path) = Absent

\* Restoring content other than the recorded images.
RestorableAny(c) == TRUE

Restorable(c) == Current(c.path) = c.after \/ Between(c)

\* Taking a change that is undone already for a conflict.
AtPreimageNever(c) == FALSE

AtPreimage(c) == Current(c.path) = c.before

\* Files before links.
UndoFilesFirst(p) == job[p][IF at[p] = 1 THEN Len(job[p]) ELSE at[p] - 1]

Undo(p) == job[p][at[p]]

\* The change under consideration is undone already, can be undone, or conflicts.
Examine(p) ==
  /\ pc[p] = "rollback" /\ at[p] > 0
  /\ LET c == Undo(p)
     IN \/ /\ ~AtPreimage(c) /\ Restorable(c)
           /\ pc' = [pc EXCEPT ![p] = "restore"]
           /\ UNCHANGED <<at, conflict>>
        \/ /\ AtPreimage(c) \/ ~Restorable(c)
           /\ conflict' = [conflict EXCEPT ![p] = @ \/ ~AtPreimage(c)]
           /\ at' = [at EXCEPT ![p] = @ - 1]
           /\ UNCHANGED pc
  /\ UNCHANGED <<entry, receipt, locks, job, report, bounds>>

\* apply_image of the preimage; a link gives way to its directory in two operations.
Restore(p) ==
  LET c == Undo(p)
      half == c.before = "directory" /\ entry[c.path] = "link"
  IN /\ pc[p] = "restore"
     /\ \/ /\ half
           /\ entry' = [entry EXCEPT ![c.path] = Absent]
           /\ UNCHANGED <<pc, at>>
        \/ /\ ~half
           /\ entry' = IF c.path \in Links THEN [entry EXCEPT ![c.path] = c.before]
                                           ELSE Written(c.path, c.before)
           /\ at' = [at EXCEPT ![p] = @ - 1]
           /\ pc' = [pc EXCEPT ![p] = "rollback"]
     /\ UNCHANGED <<receipt, locks, job, conflict, report, bounds>>

RestoreFails(p) ==
  /\ pc[p] = "restore"
  /\ failures < MaxFailures
  /\ failures' = failures + 1
  /\ conflict' = [conflict EXCEPT ![p] = TRUE]
  /\ at' = [at EXCEPT ![p] = @ - 1]
  /\ pc' = [pc EXCEPT ![p] = "rollback"]
  /\ UNCHANGED <<entry, receipt, locks, job, report, edits, crashes>>

\* An entry that cannot be read ends the rollback at once.
RollbackAborts(p) ==
  /\ pc[p] = "rollback" /\ at[p] > 0
  /\ failures < MaxFailures
  /\ failures' = failures + 1
  /\ End(p)
  /\ UNCHANGED <<entry, receipt, lockFile, edits, crashes>>

Clean(p) == ~conflict[p]

\* A complete rollback removes the receipt; an incomplete one preserves it.
RolledBack(p) ==
  /\ pc[p] = "rollback" /\ at[p] = 0
  /\ \/ /\ Clean(p)
        /\ pc' = [pc EXCEPT ![p] = "finish"]
        /\ UNCHANGED <<locks, job, at, conflict, report>>
     \/ /\ ~Clean(p)
        /\ End(p)
        /\ UNCHANGED lockFile
  /\ UNCHANGED <<entry, receipt, bounds>>
-----------------------------------------------------------------------------
(* recover_text_file_transaction *)

\* It looks for the receipt before it takes the lock.
StartRecover(p) ==
  /\ pc[p] = "idle"
  /\ Pending
  /\ pc' = [pc EXCEPT ![p] = "recover"]
  /\ UNCHANGED <<entry, receipt, locks, job, at, conflict, report, bounds>>

\* No lock, or no receipt any more.
RecoverRefused(p) ==
  /\ pc[p] = "recover"
  /\ ~LockFree \/ ~Pending
  /\ lockFile' = TRUE
  /\ End(p)
  /\ UNCHANGED <<entry, receipt, bounds>>

RecoverPrepared(p) ==
  /\ pc[p] = "recover"
  /\ LockFree /\ receipt.phase = "prepared"
  /\ lockFile' = TRUE
  /\ writer' = p
  /\ job' = [job EXCEPT ![p] = receipt.changes]
  /\ at' = [at EXCEPT ![p] = Len(receipt.changes)]
  /\ pc' = [pc EXCEPT ![p] = "rollback"]
  /\ UNCHANGED <<entry, receipt, readers, conflict, report, bounds>>

\* Every recorded path reads as the update left it.
Finalizable ==
  \A i \in DOMAIN receipt.changes :
    Current(receipt.changes[i].path) = receipt.changes[i].after

RecoverPublished(p) ==
  /\ pc[p] = "recover"
  /\ LockFree /\ receipt.phase = "published"
  /\ lockFile' = TRUE
  /\ IF Finalizable
     THEN /\ writer' = p
          /\ pc' = [pc EXCEPT ![p] = "finish"]
          /\ UNCHANGED <<readers, job, at, conflict, report>>
     ELSE End(p)
  /\ UNCHANGED <<entry, receipt, bounds>>
-----------------------------------------------------------------------------
(* aise integrations status: with_text_file_transaction_read_lock *)

\* Without a lock file the snapshot is read unlocked and kept only if none has appeared.
StartStatus(p) ==
  /\ pc[p] = "idle"
  /\ pc' = [pc EXCEPT ![p] = IF lockFile THEN "wait" ELSE "look"]
  /\ UNCHANGED <<entry, receipt, locks, job, at, conflict, report, bounds>>

\* The shared guard blocks while a writer holds the lock.
AcquireShared(p) ==
  /\ pc[p] = "wait"
  /\ writer = NoProc
  /\ readers' = readers \cup {p}
  /\ pc' = [pc EXCEPT ![p] = "read"]
  /\ UNCHANGED <<entry, receipt, lockFile, writer, job, at, conflict, report, bounds>>

Reading(p) == pc[p] \in {"look", "read"}

\* A pending receipt makes the status refuse to answer (ensure_no_pending_transaction).
StatusPending(p) ==
  /\ Reading(p) /\ report[p] = << >>
  /\ Pending
  /\ End(p)
  /\ UNCHANGED <<entry, receipt, lockFile, bounds>>

\* One target is read after the other; the receipt was looked for before the first.
ReadOne(p) ==
  /\ Reading(p) /\ Len(report[p]) < Len(ReadOrder)
  /\ report[p] = << >> => ~Pending
  /\ report' = [report EXCEPT ![p] = Append(@, entry[ReadOrder[Len(@) + 1]])]
  /\ UNCHANGED <<entry, receipt, locks, pc, job, at, conflict, bounds>>

Complete(p) == Len(report[p]) = Len(ReadOrder)

\* Keeping an unlocked snapshot without looking for the lock again.
StillUnlockedUnchecked == TRUE

StillUnlocked == ~lockFile

\* An unlocked snapshot taken while the lock file appeared is thrown away and taken again.
ReadAgain(p) ==
  /\ pc[p] = "look" /\ Complete(p)
  /\ ~StillUnlocked
  /\ report' = [report EXCEPT ![p] = << >>]
  /\ pc' = [pc EXCEPT ![p] = "wait"]
  /\ UNCHANGED <<entry, receipt, locks, job, at, conflict, bounds>>

Report(p) ==
  /\ Reading(p) /\ Complete(p)
  /\ pc[p] = "look" => StillUnlocked
  /\ End(p)
  /\ UNCHANGED <<entry, receipt, lockFile, bounds>>
-----------------------------------------------------------------------------
\* A process dies; its locks go with it, the files stay as they are.
Crash(p) ==
  /\ pc[p] # "idle"
  /\ crashes < MaxCrashes
  /\ crashes' = crashes + 1
  /\ End(p)
  /\ UNCHANGED <<entry, receipt, lockFile, edits, failures>>

Publishing(p) ==
  \/ Acquire(p) \/ Busy(p) \/ Refuse(p) \/ Prepare(p) \/ Verify(p)
  \/ ApplyFile(p) \/ RemoveDirectory(p) \/ ApplyLink(p) \/ Publish(p) \/ Finish(p)

RollingBack(p) == Examine(p) \/ Restore(p) \/ RolledBack(p)

Recovering(p) == StartRecover(p) \/ RecoverRefused(p) \/ RecoverPrepared(p) \/ RecoverPublished(p)

Status(p) ==
  AcquireShared(p) \/ StatusPending(p) \/ ReadOne(p) \/ ReadAgain(p) \/ Report(p)

Failing(p) ==
  Fail(p) \/ PrepareUnconfirmed(p) \/ PublishUnconfirmed(p) \/ FinishFails(p)
  \/ RestoreFails(p) \/ RollbackAborts(p)

Next ==
  \/ \E p \in Procs :
       \/ \E update \in Updates : Plan(p, update)
       \/ Publishing(p) \/ RollingBack(p) \/ Recovering(p)
       \/ StartStatus(p) \/ Status(p)
       \/ Failing(p) \/ Crash(p)
  \/ \E f \in Files : UserEdit(f)

Spec == Init /\ [][Next]_vars

\* A command that runs ends.  Whoever is told that a receipt is pending runs the recovery, again
\* and again if need be: strong fairness, as other commands of the same process come between.
FairSpec ==
  /\ Spec
  /\ \A p \in Procs :
       /\ WF_vars(Publishing(p) \/ RollingBack(p))
       /\ WF_vars(RecoverRefused(p) \/ RecoverPrepared(p) \/ RecoverPublished(p))
       /\ WF_vars(Status(p))
       /\ SF_vars(StartRecover(p))
-----------------------------------------------------------------------------
ChangeSet ==
  [path : Files, before : FileImages, after : Texts \cup {Absent}]
    \cup [path : Links, before : LinkImages, after : {Absent, "link"}]

PCs == {"idle", "planned", "prepare", "verify", "apply", "publish", "finish", "rollback",
        "restore", "recover", "wait", "look", "read"}

EntriesOK ==
  /\ entry \in [Slots -> Images]
  /\ \A f \in Files : entry[f] \in FileImages
  /\ \A l \in Links : entry[l] \in LinkImages

ReceiptOK == receipt \in [phase : {"none", "prepared", "published"}, changes : Seq(ChangeSet)]

LocksOK ==
  /\ lockFile \in BOOLEAN /\ writer \in Procs \cup {NoProc} /\ readers \subseteq Procs
  /\ writer # NoProc => readers = {} /\ lockFile
  /\ \A p \in Procs :
       /\ writer = p <=> pc[p] \in {"prepare", "verify", "apply", "publish", "finish",
                                    "rollback", "restore"}
       /\ p \in readers <=> pc[p] = "read"

ProcessesOK ==
  /\ pc \in [Procs -> PCs]
  /\ job \in [Procs -> Seq(ChangeSet)] /\ at \in [Procs -> Nat]
  /\ conflict \in [Procs -> BOOLEAN] /\ report \in [Procs -> Seq(Images)]
  /\ \A p \in Procs : at[p] <= Len(job[p])

\* Images, receipts, locks and program counters are of their kind; one writer excludes the
\* readers, and only a process that took the lock is past preflight.
TypeOK == EntriesOK /\ ReceiptOK /\ LocksOK /\ ProcessesOK

\* What the receipt would put back: until the published phase, every recorded change still has
\* its preimage, unless a user wrote the file.
ChangeOf(s) == {i \in DOMAIN receipt.changes : receipt.changes[i].path = s}
Undone(s, c) == IF entry[s] = c.after \/ (c.before = "directory" /\ entry[s] = Absent)
                THEN c.before ELSE entry[s]
Store ==
  [s \in Slots |->
     IF receipt.phase = "prepared" /\ ChangeOf(s) # {}
     THEN Undone(s, receipt.changes[CHOOSE i \in ChangeOf(s) : TRUE])
     ELSE entry[s]]

\* Each update as the images it promises.
Promised ==
  {[s \in {update.changes[i].path : i \in DOMAIN update.changes} |->
      update.changes[CHOOSE i \in DOMAIN update.changes : update.changes[i].path = s].after] :
     update \in Updates}

Atomic == INSTANCE AtomicUpdate WITH store <- Store, Updates <- Promised

\* An update, whatever fails, crashes or is edited on the way, takes effect on all its files and
\* links at the moment the receipt turns to published, or on none (README: "A failed install
\* rolls back what it had already written").
AllOrNothing == Atomic!Spec

\* A status report never mixes two generations of an update: at its end every target it read
\* still is what the transaction stands for, save what a user edited meanwhile.
StatusShowsCommitted ==
  [][\A p \in Procs : Report(p) =>
       \A i \in DOMAIN ReadOrder :
         Store[ReadOrder[i]] \in {report[p][i], Edited}]_vars

\* No step of an update, a rollback or a recovery replaces content that differs from both images
\* the receipt records for it.
EditsSurvive ==
  [][edits' = edits => \A f \in Files : entry'[f] # entry[f] =>
       \E i \in DOMAIN receipt.changes :
         LET c == receipt.changes[i]
         IN Slot(c.path) = f /\ entry[f] \in {c.before, c.after}]_vars

\* While nobody edits, every target of a prepared receipt can be rolled back: it holds one of its
\* two recorded images, or is the gap between a removed directory and its link.
PreparedIsRestorable ==
  receipt.phase = "prepared" /\ edits = 0 =>
    \A i \in DOMAIN receipt.changes :
      LET c == receipt.changes[i]
      IN \/ entry[c.path] \in {c.before, c.after}
         \/ c.before = "directory" /\ entry[c.path] = Absent

\* A receipt left in the published phase with nobody editing can be verified and finalized.
PublishedIsFinalizable == receipt.phase = "published" /\ edits = 0 => Finalizable

\* A pending receipt, which blocks every later update, is resolved in the end.
ReceiptResolved == Pending ~> ~Pending
=============================================================================
