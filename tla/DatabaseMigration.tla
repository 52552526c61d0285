-------------------------- MODULE DatabaseMigration --------------------------
(***************************************************************************)
(* migration.rs: the copy of an index database to a new place, and the     *)
(* recovery of a copy that was interrupted.  A migration copies the source *)
(* into a staging file beside the destination, writes a prepared receipt,  *)
(* renames the staging file to the destination, writes the final receipt   *)
(* under a staging name, renames it, and removes the prepared one.  Each   *)
(* step is one file operation, so that a process may be killed, an         *)
(* operation may fail and the power may be lost between any two.           *)
(*                                                                         *)
(* A power loss undoes directory operations that no directory sync has     *)
(* made durable, and tears files whose contents were not synced: images[d] *)
(* holds what directory d may look like afterwards.  The file systems      *)
(* assumed apply the operations on one directory in order.                 *)
(***************************************************************************)
EXTENDS Naturals, FiniteSets, Functions

CONSTANTS
  Procs,        \* processes that run aise migrate recover
  Migrators,    \* those of them that run aise migrate database
  MaxSource,    \* how often the source is refreshed
  MaxKills,     \* how many processes are killed
  MaxFailures,  \* how many file operations return an error
  MaxLosses,    \* how often the power is lost
  Outsider,     \* whether another program may create the destination
  StopPoints,   \* where a kill or a failing operation may fall
  Absent, Torn, Foreign, Used,  \* contents that are no copy of the source
  Nobody        \* no process

ASSUME MigrationAssumption ==
  /\ {MaxSource, MaxKills, MaxFailures, MaxLosses} \subseteq Nat
  /\ Outsider \in BOOLEAN
  /\ Migrators \subseteq Procs /\ Nobody \notin Procs

VARIABLES
  disk,      \* disk[f]: the file under each name, as every process sees it
  images,    \* images[d]: what a power loss may leave of directory d
  source,    \* the generation of the source's rows
  holder,    \* the process with the update locks of source and destination
  pc, job,   \* where a process is, and the copy its receipt describes
  kills, failures, losses

vars == <<disk, images, source, holder, pc, job, kills, failures, losses>>
mishaps == <<kills, failures, losses>>

Directories == {"data", "record"}
FilesOf == [data |-> {"database", "destination"},
            record |-> {"prepared", "final", "receipt"}]
Files == UNION {FilesOf[d] : d \in Directories}
Directory(f) == CHOOSE d \in Directories : f \in FilesOf[d]

Copies == 0..MaxSource
Entry == [data : Copies \cup {Torn, Foreign, Used}, synced : BOOLEAN]

ASSUME ContentsAssumption ==
  /\ {Torn, Foreign, Used} \cap Copies = {} /\ Torn \notin {Foreign, Used}
  /\ Absent \notin Entry

Exists(f) == disk[f] # Absent
Holds(f, v) == Exists(f) /\ disk[f].data = v

View(fs, d) == Restrict(fs, FilesOf[d])

(* One operation on the entries of directory d: the new state is one more  *)
(* that a power loss may leave.                                            *)
Change(d, fs) ==
  /\ disk' = fs
  /\ images' = [images EXCEPT ![d] = @ \cup {View(fs, d)}]

Write(f, v, synced) ==
  Change(Directory(f), [disk EXCEPT ![f] = [data |-> v, synced |-> synced]])
Remove(f) == Change(Directory(f), [disk EXCEPT ![f] = Absent])
Rename(f, g) ==
  Change(Directory(f), [disk EXCEPT ![g] = disk[f], ![f] = Absent])

(* sync_all on a file: the contents are safe under whatever name it has.   *)
SyncFile(f) ==
  LET safe == [disk[f] EXCEPT !.synced = TRUE]
  IN /\ disk' = [disk EXCEPT ![f] = safe]
     /\ images' = [images EXCEPT ![Directory(f)] =
          {[img EXCEPT ![f] = IF @ = disk[f] THEN safe ELSE @] : img \in @}]

SyncParent(f) ==
  /\ images' = [images EXCEPT ![Directory(f)] = {View(disk, Directory(f))}]
  /\ UNCHANGED disk

(* The staging file whose StagedFile is alive, and is deleted on a return. *)
Owned(p) ==
  IF pc[p] \in {"staging", "copying", "copied", "flushed", "announcing",
                "announced", "publishing", "republishing"} THEN {"database"}
  ELSE IF pc[p] \in {"recording", "writing", "recorded"} THEN {"final"}
  ELSE {}

Goto(p, label) == pc' = [pc EXCEPT ![p] = label]
Release(p) == holder' = IF holder = p THEN Nobody ELSE holder

(* A return, with or without an error: StagedFile's Drop removes the       *)
(* staging file it still owns, and the locks are released.                 *)
Leave(p) ==
  LET doomed == {f \in Owned(p) : Exists(f)}
  IN /\ Goto(p, "idle")
     /\ Release(p)
     /\ IF doomed = {} THEN UNCHANGED <<disk, images>>
        ELSE Remove(CHOOSE f \in doomed : TRUE)

-----------------------------------------------------------------------------
(* migrate_database                                                        *)

(* options.validate(), before any lock                                     *)
Validate(p) ==
  /\ p \in Migrators /\ pc[p] = "idle"
  /\ ~Exists("destination") /\ ~Exists("receipt") /\ ~Exists("prepared")
  /\ Goto(p, "validated")
  /\ UNCHANGED <<disk, images, source, holder, job, mishaps>>

(* Both update locks are tried without waiting, in the same order by all.  *)
Lock(p) ==
  /\ pc[p] \in {"validated", "loaded", "confirming"}
  /\ IF holder = Nobody
     THEN /\ holder' = p
          /\ Goto(p, CASE pc[p] = "validated"  -> "staging"
                       [] pc[p] = "loaded"     -> "resuming"
                       [] pc[p] = "confirming" -> "verifying")
     ELSE Goto(p, "idle") /\ UNCHANGED holder
  /\ UNCHANGED <<disk, images, source, job, mishaps>>

(* The refusals that leave through the Drop of a StagedFile: a staging     *)
(* database, prepared receipt, destination, staged or final receipt that   *)
(* is there already.                                                       *)
Refuse(p) ==
  /\ \/ pc[p] = "staging" /\ Exists("database")
     \/ pc[p] = "flushed" /\ Exists("prepared")
     \/ pc[p] \in {"publishing", "republishing"} /\ Exists("destination")
     \/ pc[p] = "recording" /\ Exists("final")
     \/ pc[p] = "recorded" /\ Exists("receipt")
  /\ Leave(p)
  /\ UNCHANGED <<source, job, mishaps>>

CreateStaging(p) ==
  /\ pc[p] = "staging" /\ ~Exists("database")
  /\ Write("database", Torn, FALSE)
  /\ Goto(p, "copying")
  /\ UNCHANGED <<source, holder, job, mishaps>>

(* Backup, ensure_migrated_index_is_current, journal_mode = delete, the    *)
(* integrity check and the comparison of the row counts                    *)
CopySource(p) ==
  /\ pc[p] = "copying"
  /\ Write("database", source, FALSE)
  /\ job' = [job EXCEPT ![p] = source]
  /\ Goto(p, "copied")
  /\ UNCHANGED <<source, holder, mishaps>>

\* A staging database that is never synced.
FlushNothing(p) ==
  /\ pc[p] = "copied"
  /\ Goto(p, "flushed")
  /\ UNCHANGED <<disk, images, source, holder, job, mishaps>>

FlushStaging(p) ==
  /\ pc[p] = "copied"
  /\ SyncFile("database")
  /\ Goto(p, "flushed")
  /\ UNCHANGED <<source, holder, job, mishaps>>

CreatePrepared(p) ==
  /\ pc[p] = "flushed" /\ ~Exists("prepared")
  /\ Write("prepared", Torn, FALSE)
  /\ Goto(p, "announcing")
  /\ UNCHANGED <<source, holder, job, mishaps>>

WritePrepared(p) ==
  /\ pc[p] = "announcing"
  /\ Write("prepared", job[p], TRUE)
  /\ Goto(p, "announced")
  /\ UNCHANGED <<source, holder, job, mishaps>>

SyncPrepared(p) ==
  /\ pc[p] = "announced"
  /\ SyncParent("prepared")
  /\ Goto(p, "publishing")
  /\ UNCHANGED <<source, holder, job, mishaps>>

\* A rename that replaces what is there.
PublishOver(p) ==
  /\ pc[p] \in {"publishing", "republishing"}
  /\ Exists("database")
  /\ Rename("database", "destination")
  /\ Goto(p, IF pc[p] = "publishing" THEN "published" ELSE "republished")
  /\ UNCHANGED <<source, holder, job, mishaps>>

(* publish_new of the staging database: rename_noreplace, then the sync of *)
(* the directory, after which a recovery verifies the destination again    *)
PublishDatabase(p) ==
  /\ pc[p] \in {"publishing", "republishing"}
  /\ Exists("database") /\ ~Exists("destination")
  /\ Rename("database", "destination")
  /\ Goto(p, IF pc[p] = "publishing" THEN "published" ELSE "republished")
  /\ UNCHANGED <<source, holder, job, mishaps>>

\* A publication whose directory is never synced.
SyncNothing(p) ==
  /\ pc[p] \in {"published", "republished"}
  /\ Goto(p, IF pc[p] = "published" THEN "recording" ELSE "reverifying")
  /\ UNCHANGED <<disk, images, source, holder, job, mishaps>>

SyncDestination(p) ==
  /\ pc[p] \in {"published", "republished"}
  /\ SyncParent("destination")
  /\ Goto(p, IF pc[p] = "published" THEN "recording" ELSE "reverifying")
  /\ UNCHANGED <<source, holder, job, mishaps>>

CreateFinal(p) ==
  /\ pc[p] = "recording" /\ ~Exists("final")
  /\ Write("final", Torn, FALSE)
  /\ Goto(p, "writing")
  /\ UNCHANGED <<source, holder, job, mishaps>>

WriteFinal(p) ==
  /\ pc[p] \in {"writing", "rewriting"}
  /\ Write("final", job[p], TRUE)
  /\ Goto(p, "recorded")
  /\ UNCHANGED <<source, holder, job, mishaps>>

PublishReceipt(p) ==
  /\ pc[p] = "recorded" /\ ~Exists("receipt")
  /\ Rename("final", "receipt")
  /\ Goto(p, "receipted")
  /\ UNCHANGED <<source, holder, job, mishaps>>

SyncReceipt(p) ==
  /\ pc[p] = "receipted"
  /\ SyncParent("receipt")
  /\ Goto(p, "cleaning")
  /\ UNCHANGED <<source, holder, job, mishaps>>

RemovePrepared(p) ==
  /\ pc[p] = "cleaning" /\ Exists("prepared")
  /\ Remove("prepared")
  /\ Goto(p, "cleaned")
  /\ UNCHANGED <<source, holder, job, mishaps>>

SyncRemoval(p) ==
  /\ pc[p] = "cleaned"
  /\ SyncParent("prepared")
  /\ Goto(p, "idle")
  /\ Release(p)
  /\ UNCHANGED <<source, job, mishaps>>

-----------------------------------------------------------------------------
(* recover_database_migration                                              *)

(* The receipt to go by is read before the locks are taken; one that does  *)
(* not parse ends the command.                                             *)
LoadReceipt(p) ==
  LET evidence == IF Exists("receipt") THEN "receipt" ELSE "prepared"
  IN /\ pc[p] = "idle"
     /\ Exists(evidence) /\ disk[evidence].data \in Copies
     /\ job' = [job EXCEPT ![p] = disk[evidence].data]
     /\ Goto(p, IF evidence = "receipt" THEN "confirming" ELSE "loaded")
     /\ UNCHANGED <<disk, images, source, holder, mishaps>>

(* verify_migration_snapshot: checksum, integrity and row counts           *)
Verified(f, v) == Holds(f, v) /\ source = v

Confirm(p) ==
  /\ pc[p] = "verifying"
  /\ IF /\ Verified("destination", job[p])
        /\ Holds("prepared", job[p])
     THEN Goto(p, "cleaning") /\ UNCHANGED <<disk, images, holder>>
     ELSE Leave(p)
  /\ UNCHANGED <<source, job, mishaps>>

Resume(p) ==
  /\ pc[p] = "resuming"
  /\ IF /\ Exists("destination") /\ ~Exists("database")
        /\ Verified("destination", job[p])
     THEN Goto(p, "completing") /\ UNCHANGED <<disk, images, holder>>
     ELSE IF ~Exists("destination") /\ Verified("database", job[p])
     THEN Goto(p, "republishing") /\ UNCHANGED <<disk, images, holder>>
     ELSE Leave(p)
  /\ UNCHANGED <<source, job, mishaps>>

VerifyAgain(p) ==
  /\ pc[p] = "reverifying"
  /\ IF Verified("destination", job[p])
     THEN Goto(p, "completing") /\ UNCHANGED <<disk, images, holder>>
     ELSE Leave(p)
  /\ UNCHANGED <<source, job, mishaps>>

\* Writing the staged receipt anew although an interrupted command left it.
CompleteAfresh(p) ==
  /\ pc[p] = "completing"
  /\ \/ /\ ~Exists("final")
        /\ Write("final", Torn, FALSE)
        /\ Goto(p, "rewriting")
        /\ UNCHANGED holder
     \/ /\ Exists("final")
        /\ Leave(p)
  /\ UNCHANGED <<source, job, mishaps>>

(* A staged final receipt is used if it says the same, and written if      *)
(* there is none; neither is under a StagedFile yet.                       *)
Complete(p) ==
  /\ pc[p] = "completing"
  /\ \/ /\ ~Exists("final")
        /\ Write("final", Torn, FALSE)
        /\ Goto(p, "rewriting")
        /\ UNCHANGED holder
     \/ /\ Holds("final", job[p])
        /\ Goto(p, "recorded")
        /\ UNCHANGED <<disk, images, holder>>
     \/ /\ Exists("final") /\ ~Holds("final", job[p])
        /\ Leave(p)
  /\ UNCHANGED <<source, job, mishaps>>

-----------------------------------------------------------------------------
(* What goes wrong, and what others do                                     *)

(* An operation returns an error; a sync that fails after a rename is one. *)
Fail(p) ==
  /\ pc[p] \in StopPoints
  /\ failures < MaxFailures
  /\ failures' = failures + 1
  /\ Leave(p)
  /\ UNCHANGED <<source, job, kills, losses>>

(* A killed process drops nothing: only its locks are released.            *)
Kill(p) ==
  /\ pc[p] \in StopPoints
  /\ kills < MaxKills
  /\ kills' = kills + 1
  /\ Goto(p, "idle")
  /\ Release(p)
  /\ UNCHANGED <<disk, images, source, job, failures, losses>>

PowerLoss ==
  /\ losses < MaxLosses
  /\ losses' = losses + 1
  /\ \A p \in Procs : pc[p] \in StopPoints \cup {"idle", "validated", "loaded", "confirming"}
  /\ \E data \in images["data"], record \in images["record"] :
       LET left == [f \in Files |-> IF f \in FilesOf["data"] THEN data[f] ELSE record[f]]
           unsafe == {f \in Files : left[f] # Absent /\ ~left[f].synced}
       IN \E torn \in SUBSET unsafe :
            disk' = [f \in Files |->
                       IF left[f] = Absent THEN Absent
                       ELSE [data |-> IF f \in torn THEN Torn ELSE left[f].data,
                             synced |-> TRUE]]
  /\ images' = [d \in Directories |-> {View(disk', d)}]
  /\ pc' = [p \in Procs |-> "idle"]
  /\ holder' = Nobody
  /\ UNCHANGED <<source, job, kills, failures>>

(* A refresh of the source or of the destination runs under its lock.      *)
RefreshSource ==
  /\ holder = Nobody /\ source < MaxSource
  /\ source' = source + 1
  /\ UNCHANGED <<disk, images, holder, pc, job, mishaps>>

UseDestination ==
  /\ holder = Nobody
  /\ \E v \in Copies : Holds("destination", v)
  /\ Write("destination", Used, TRUE)
  /\ UNCHANGED <<source, holder, pc, job, mishaps>>

CreateForeign ==
  /\ Outsider /\ ~Exists("destination")
  /\ Write("destination", Foreign, TRUE)
  /\ UNCHANGED <<source, holder, pc, job, mishaps>>

-----------------------------------------------------------------------------
Init ==
  /\ disk = [f \in Files |-> Absent]
  /\ images = [d \in Directories |-> {View(disk, d)}]
  /\ source = 0
  /\ holder = Nobody
  /\ pc = [p \in Procs |-> "idle"]
  /\ job = [p \in Procs |-> 0]
  /\ kills = 0 /\ failures = 0 /\ losses = 0

Step(p) ==
  \/ Lock(p) \/ Refuse(p) \/ CreateStaging(p) \/ CopySource(p) \/ FlushStaging(p)
  \/ CreatePrepared(p) \/ WritePrepared(p) \/ SyncPrepared(p) \/ PublishDatabase(p)
  \/ SyncDestination(p) \/ CreateFinal(p) \/ WriteFinal(p) \/ PublishReceipt(p)
  \/ SyncReceipt(p) \/ RemovePrepared(p) \/ SyncRemoval(p) \/ Confirm(p)
  \/ Resume(p) \/ VerifyAgain(p) \/ Complete(p)

Next ==
  \/ \E p \in Procs : Validate(p) \/ LoadReceipt(p) \/ Step(p) \/ Fail(p) \/ Kill(p)
  \/ PowerLoss \/ RefreshSource \/ UseDestination \/ CreateForeign

Spec == Init /\ [][Next]_vars

(* A command that runs goes on, and the user runs the recovery again until *)
(* it succeeds.                                                            *)
FairSpec ==
  /\ Spec
  /\ \A p \in Procs : WF_vars(Step(p)) /\ SF_vars(LoadReceipt(p))

-----------------------------------------------------------------------------
Labels ==
  {"idle", "validated", "staging", "copying", "copied", "flushed", "announcing",
   "announced", "publishing", "published", "recording", "writing", "recorded",
   "receipted", "cleaning", "cleaned", "loaded", "resuming", "republishing",
   "republished", "reverifying", "completing", "rewriting", "confirming", "verifying"}
Unlocked == {"idle", "validated", "loaded", "confirming"}

(* Types of the state, and that a process beyond the locks holds both.     *)
TypeOK ==
  /\ disk \in [Files -> Entry \cup {Absent}]
  /\ DOMAIN images = Directories
  /\ \A d \in Directories : images[d] \subseteq [FilesOf[d] -> Entry \cup {Absent}]
  /\ source \in Copies /\ job \in [Procs -> Copies]
  /\ pc \in [Procs -> Labels]
  /\ holder \in Procs \cup {Nobody}
  /\ \A p \in Procs : pc[p] \notin Unlocked <=> holder = p

(* Under the destination's name there is never an incomplete copy, nor can *)
(* a power loss leave one: migrate_database syncs the staging file before  *)
(* it lets the name point to it.                                           *)
NeverPartial ==
  \A img \in images["data"] :
    LET dest == img["destination"] IN dest # Absent => dest.synced /\ dest.data # Torn

(* rename_noreplace: an index that another program created first, or a     *)
(* published copy or receipt, is neither replaced nor removed, whichever   *)
(* of the refusals and Drops above is taken.                               *)
NothingReplaced ==
  [][losses' = losses =>
       \A f \in {"destination", "receipt"} :
         Exists(f) => disk'[f] = disk[f] \/ (f = "destination" /\ disk'[f].data = Used)]_vars

(* Wherever the power is lost, a receipt that is left is whole and has its *)
(* copy, used since or not: publish_new syncs the destination's directory  *)
(* before the receipt is renamed.                                          *)
ReceiptHasCopy ==
  \A data \in images["data"], record \in images["record"] :
    LET receipt == record["receipt"] dest == data["destination"]
    IN receipt # Absent =>
         /\ receipt.synced /\ receipt.data \in Copies
         /\ dest # Absent /\ dest.data \in {receipt.data, Used}

Announced == Exists("prepared") /\ disk["prepared"].data \in Copies
Receipted == Exists("receipt")
Halted == \A p \in Procs : pc[p] \in Unlocked

(* What a recovery asks of the files before it changes any: one copy as    *)
(* announced, under one of its two names, of a source that is still the    *)
(* same, and no half-written final receipt.                                *)
EvidenceAgrees ==
  LET v == disk["prepared"].data
  IN /\ source = v
     /\ \/ Holds("database", v) /\ ~Exists("destination")
        \/ Holds("destination", v) /\ ~Exists("database")
     /\ ~Exists("final") \/ Holds("final", v)

(* A migration that was interrupted after its prepared receipt is finished *)
(* by recoveries, however often they are interrupted themselves, as long   *)
(* as the evidence agrees.                                                 *)
AgreedIsFinished ==
  (Announced /\ EvidenceAgrees)
    ~> (Receipted \/ (Halted /\ ~(Announced /\ EvidenceAgrees)))

(* The documentation of recover: an interruption after the prepared        *)
(* receipt is synced is recovered with aise migrate recover, unless the    *)
(* published index has been used before.                                   *)
InterruptedIsRecovered ==
  (Announced /\ \E p \in Procs : pc[p] = "publishing")
    ~> (Receipted \/ Holds("destination", Used))
=============================================================================
