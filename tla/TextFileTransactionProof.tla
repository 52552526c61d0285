----------------------- MODULE TextFileTransactionProof -----------------------
(***************************************************************************)
(* Theorems about TextFileTransaction, for any processes, files, links,    *)
(* updates and bounds: types and locking; a status report is what the      *)
(* transaction stands for; as far as nobody edits between the last look at *)
(* a file and its replacement, no edit is overwritten; a receipt left      *)
(* behind can be rolled back or finalized; and an update, with no other    *)
(* planned beside it, takes effect at its commit or not at all.            *)
(***************************************************************************)
EXTENDS TextFileTransaction, OperatorsProof

\* A process is past the checks of the step it has reached, and a report is read in order.
Placed ==
  \A p \in Procs :
    /\ pc[p] \in {"planned", "prepare"} => job[p] # << >>
    /\ pc[p] \in {"verify", "apply", "restore"} => at[p] # 0
    /\ pc[p] \in {"idle", "wait"} => report[p] = << >>
    /\ pc[p] = "idle" => at[p] = 0
    /\ Len(report[p]) <= Len(ReadOrder)

\* The writer works on the changes its receipt records.
OwnReceipt ==
  \A p \in Procs :
    pc[p] \in {"verify", "apply", "publish", "rollback", "restore"} => receipt.changes = job[p]

\* A snapshot under the shared lock, or without one while no lock file has appeared, shows what
\* is there, but for edits, and no update is under way or pending.
Snapshots ==
  \A p \in Procs :
    Reading(p) /\ report[p] # << >> /\ (pc[p] = "look" => ~lockFile) =>
      /\ ~Pending
      /\ \A i \in 1..Len(report[p]) : entry[ReadOrder[i]] \in {report[p][i], Edited}

\* A file that is about to be replaced still has the image it was found with.
Fresh(p) ==
  LET c == job[p][at[p]]
  IN c.path \in Files => /\ pc[p] = "apply" => Current(c.path) = c.before
                         /\ pc[p] = "restore" => Current(c.path) = c.after
InHand == edits \in Nat /\ \A p \in Procs : Fresh(p)

-----------------------------------------------------------------------------
(* Paths, images and plans                                                 *)

LEMMA PathImage ==
  ASSUME EntriesOK, NEW s \in Slots
  PROVE  /\ Slot(s) \in Slots
         /\ s \in Files => Slot(s) \in Files /\ Current(s) \in FileImages
         /\ s \in Links => Slot(s) = s /\ Current(s) \in LinkImages
BY TransactionAssumption DEF TransactionAssumption, EntriesOK, Slot, Current, Slots

LEMMA ChangeIsTyped ==
  ASSUME NEW c \in ChangeSet
  PROVE  /\ c.path \in Slots
         /\ c.path \in Files => c.before \in FileImages /\ c.after \in Texts \cup {Absent}
         /\ c.path \in Links => c.before \in LinkImages /\ c.after \in {Absent, "link"}
BY TransactionAssumption DEF TransactionAssumption, ChangeSet, Slots

LEMMA WrittenIsTyped ==
  ASSUME EntriesOK, NEW f \in Files, NEW image \in FileImages, entry' = Written(f, image)
  PROVE  EntriesOK'
<1> DEFINE s == Slot(f)
           filled == [entry EXCEPT ![s] = image]
<1>1. s \in Files
  BY PathImage DEF Slots
<1>2. /\ filled \in [Slots -> Images]
      /\ \A g \in Files : filled[g] \in FileImages
      /\ \A l \in Links : filled[l] \in LinkImages
  BY <1>1, TransactionAssumption DEF TransactionAssumption, EntriesOK, Slots, Images
<1>3. Home[s] \in Links \cup {NoLink}
  BY <1>1, TransactionAssumption DEF TransactionAssumption
<1> HIDE DEF filled, s
<1>4. entry' = IF s \in Files /\ Home[s] # NoLink /\ entry[Home[s]] = Absent
               THEN [filled EXCEPT ![Home[s]] = "directory"] ELSE filled
  BY DEF Written, filled, s
<1>5. CASE s \in Files /\ Home[s] # NoLink /\ entry[Home[s]] = Absent
  <2>1. Home[s] \in Links /\ entry' = [filled EXCEPT ![Home[s]] = "directory"]
    BY <1>3, <1>4, <1>5
  <2>2. "directory" \in LinkImages /\ "directory" \in Images
    BY DEF LinkImages, Images
  <2> QED
    BY <1>2, <2>1, <2>2, TransactionAssumption DEF TransactionAssumption, EntriesOK, Slots
<1>6. CASE ~(s \in Files /\ Home[s] # NoLink /\ entry[Home[s]] = Absent)
  BY <1>2, <1>4, <1>6 DEF EntriesOK
<1> QED
  BY <1>5, <1>6

LEMMA PlanIsTyped ==
  ASSUME EntriesOK, NEW update \in Updates
  PROVE  Planned(update) \in Seq(ChangeSet)
<1> DEFINE Offers == [path : Files, after : Texts \cup {Absent}]
                       \cup [path : Links, after : {Absent, "link"}]
           changes == update.changes
           needed == {i \in DOMAIN changes :
                        LET c == changes[i]
                        IN /\ Current(c.path) # c.after
                           /\ ~(c.path \in Files /\ Linked(c.path))
                           /\ c.path \in Owned => Current(c.path) # Edited}
           chosen == Pick(changes, needed)
           change(o) == [path |-> o.path, before |-> Current(o.path), after |-> o.after]
<1>1. changes \in Seq(Offers)
  BY TransactionAssumption DEF TransactionAssumption
<1>2. needed \in SUBSET DOMAIN changes
  OBVIOUS
<1>3. \A o \in Offers : change(o) \in ChangeSet
  <2> TAKE o \in Offers
  <2>1. CASE o \in [path : Files, after : Texts \cup {Absent}]
    <3>1. o.path \in Files /\ o.path \in Slots /\ o.after \in Texts \cup {Absent}
      BY <2>1 DEF Slots
    <3> QED
      BY <3>1, PathImage DEF ChangeSet
  <2>2. CASE o \in [path : Links, after : {Absent, "link"}]
    <3>1. o.path \in Links /\ o.path \in Slots /\ o.after \in {Absent, "link"}
      BY <2>2 DEF Slots
    <3> QED
      BY <3>1, PathImage DEF ChangeSet
  <2> QED
    BY <2>1, <2>2
<1> HIDE DEF Offers, changes, needed
<1>4. chosen \in Seq(Offers)
  BY <1>1, <1>2, PickProperties
<1>5. Planned(update) = [i \in DOMAIN chosen |-> change(chosen[i])]
  BY DEF Planned, changes, needed
<1> HIDE DEF chosen, change
<1>6. DOMAIN chosen = 1..Len(chosen) /\ Len(chosen) \in Nat
      /\ \A i \in 1..Len(chosen) : chosen[i] \in Offers
  BY <1>4
<1>7. Planned(update) \in [1..Len(chosen) -> ChangeSet]
  BY <1>3, <1>5, <1>6
<1> QED
  BY <1>6, <1>7, SeqDef

-----------------------------------------------------------------------------
(* Types, locks and places                                                 *)

Typed == TypeOK /\ Placed /\ OwnReceipt

USE DEF TypeOK

\* A command that ends leaves no trace of itself in the locks.
LEMMA EndKeeps ==
  ASSUME Typed, NEW p \in Procs, End(p), lockFile' \in {lockFile, TRUE}
  PROVE  LocksOK' /\ ProcessesOK' /\ Placed'
<1> USE DEF Typed
<1>1. ProcessesOK'
  BY EmptySeq DEF ProcessesOK, End, PCs
<1>2. LocksOK'
  <2>1. /\ writer' = IF writer = p THEN NoProc ELSE writer
        /\ readers' = readers \ {p} /\ pc' = [pc EXCEPT ![p] = "idle"]
    BY DEF End
  <2>2. lockFile' \in BOOLEAN /\ writer' \in Procs \cup {NoProc} /\ readers' \subseteq Procs
    BY <2>1 DEF LocksOK
  <2>3. writer' # NoProc => readers' = {} /\ lockFile'
    BY <2>1 DEF LocksOK
  <2>4. NoProc \notin Procs
    BY TransactionAssumption DEF TransactionAssumption
  <2>5. ASSUME NEW q \in Procs
        PROVE  /\ writer' = q <=> pc'[q] \in {"prepare", "verify", "apply", "publish",
                                              "finish", "rollback", "restore"}
               /\ q \in readers' <=> pc'[q] = "read"
    <3>1. CASE q = p
      BY <2>1, <2>4, <3>1 DEF ProcessesOK
    <3>2. CASE q # p
      <4>1. pc'[q] = pc[q] /\ (q \in readers' <=> q \in readers) /\ (writer' = q <=> writer = q)
        BY <2>1, <2>4, <3>2 DEF ProcessesOK
      <4> QED
        BY <4>1 DEF LocksOK
    <3> QED
      BY <3>1, <3>2
  <2> QED
    BY <2>2, <2>3, <2>5 DEF LocksOK
<1>3. Placed'
  BY DEF Placed, ProcessesOK, End
<1> QED
  BY <1>1, <1>2, <1>3

\* ... nor anywhere else: what it does to the receipt, it does as the writer.
LEMMA EndingKeeps ==
  ASSUME Typed, NEW p \in Procs, End(p), lockFile' \in {lockFile, TRUE}, entry' = entry,
         receipt' = receipt \/ (writer = p /\ ReceiptOK')
  PROVE  Typed'
<1> USE DEF Typed
<1>1. EntriesOK' /\ ReceiptOK'
  BY DEF EntriesOK, ReceiptOK
<1>2. LocksOK' /\ ProcessesOK' /\ Placed'
  BY EndKeeps
<1>3. OwnReceipt'
  BY <1>2 DEF OwnReceipt, ProcessesOK, LocksOK, End
<1> QED
  BY <1>1, <1>2, <1>3

\* The actions with which a command ends.
Ending(p) ==
  \/ Busy(p) \/ Refuse(p) \/ Finish(p) \/ FinishFails(p) \/ PrepareUnconfirmed(p)
  \/ PublishUnconfirmed(p) \/ RollbackAborts(p) \/ RecoverRefused(p) \/ StatusPending(p)
  \/ Report(p) \/ Crash(p)

LEMMA EndingActionsKeep ==
  ASSUME Typed, NEW p \in Procs, Ending(p)
  PROVE  Typed'
<1> USE DEF Typed
<1>1. End(p) /\ lockFile' \in {lockFile, TRUE} /\ entry' = entry
  BY DEF Ending, Busy, Refuse, Finish, FinishFails, PrepareUnconfirmed, PublishUnconfirmed,
         RollbackAborts, RecoverRefused, StatusPending, Report, Crash
<1>2. receipt' = receipt \/ receipt' \in {NoReceipt, [phase |-> "prepared", changes |-> job[p]],
                                          [receipt EXCEPT !.phase = "published"]}
  BY DEF Ending, Busy, Refuse, Finish, FinishFails, PrepareUnconfirmed, PublishUnconfirmed,
         RollbackAborts, RecoverRefused, StatusPending, Report, Crash
<1>3. receipt' = receipt \/ writer = p
  BY DEF Ending, Busy, Refuse, Finish, FinishFails, PrepareUnconfirmed, PublishUnconfirmed,
         RollbackAborts, RecoverRefused, StatusPending, Report, Crash, LocksOK
<1>4. ReceiptOK'
  <2>1. CASE receipt' = receipt
    BY <2>1 DEF ReceiptOK
  <2>2. CASE receipt' = NoReceipt
    BY <2>2, EmptySeq DEF ReceiptOK, NoReceipt
  <2>3. CASE receipt' = [phase |-> "prepared", changes |-> job[p]]
    BY <2>3 DEF ReceiptOK, ProcessesOK
  <2>4. CASE receipt' = [receipt EXCEPT !.phase = "published"]
    BY <2>4 DEF ReceiptOK
  <2> QED
    BY <1>2, <2>1, <2>2, <2>3, <2>4
<1> QED
  BY <1>1, <1>3, <1>4, EndingKeeps

LEMMA AcquireKeeps ==
  ASSUME Typed, NEW p \in Procs, Acquire(p)
  PROVE  Typed'
<1> USE DEF Typed, Acquire, locks, bounds, LockFree
<1>1. EntriesOK'
  BY DEF EntriesOK
<1>2. ReceiptOK'
  BY DEF ReceiptOK
<1>3. LocksOK'
  BY TransactionAssumption DEF TransactionAssumption, LocksOK, ProcessesOK
<1>4. ProcessesOK'
  BY DEF ProcessesOK, Placed, PCs
<1>5. Placed'
  BY DEF Placed, ProcessesOK
<1>6. OwnReceipt'
  BY DEF OwnReceipt, ProcessesOK, LocksOK
<1> QED
  BY <1>1, <1>2, <1>3, <1>4, <1>5, <1>6

LEMMA PrepareKeeps ==
  ASSUME Typed, NEW p \in Procs, Prepare(p)
  PROVE  Typed'
<1> USE DEF Typed, Prepare, locks, bounds
<1>1. EntriesOK'
  BY DEF EntriesOK
<1>2. ReceiptOK'
  BY DEF ReceiptOK, ProcessesOK
<1>3. LocksOK'
  BY TransactionAssumption DEF TransactionAssumption, LocksOK, ProcessesOK
<1>4. ProcessesOK'
  BY DEF ProcessesOK, Placed, PCs
<1>5. Placed'
  BY DEF Placed, ProcessesOK
<1>6. OwnReceipt'
  BY DEF OwnReceipt, ProcessesOK, LocksOK
<1> QED
  BY <1>1, <1>2, <1>3, <1>4, <1>5, <1>6

LEMMA VerifyKeeps ==
  ASSUME Typed, NEW p \in Procs, Verify(p)
  PROVE  Typed'
<1> USE DEF Typed, Verify, locks, bounds, StartRollback
<1>1. EntriesOK'
  BY DEF EntriesOK
<1>2. ReceiptOK'
  BY DEF ReceiptOK
<1>3. LocksOK'
  BY TransactionAssumption DEF TransactionAssumption, LocksOK, ProcessesOK
<1>4. ProcessesOK'
  <2>1. CASE Current(Change(p).path) = Change(p).before
    BY <2>1 DEF ProcessesOK, PCs
  <2>2. CASE Current(Change(p).path) # Change(p).before
    <3>1. Len(job[p]) \in Nat
      BY DEF ProcessesOK
    <3>2. /\ at' = [at EXCEPT ![p] = Len(job[p])] /\ conflict' = [conflict EXCEPT ![p] = FALSE]
          /\ pc' = [pc EXCEPT ![p] = "rollback"] /\ UNCHANGED <<job, report>>
      BY <2>2
    <3> QED
      BY <3>1, <3>2 DEF ProcessesOK, PCs
  <2> QED
    BY <2>1, <2>2
<1>5. Placed'
  BY DEF Placed, ProcessesOK
<1>6. OwnReceipt'
  BY DEF OwnReceipt, ProcessesOK, LocksOK
<1> QED
  BY <1>1, <1>2, <1>3, <1>4, <1>5, <1>6

LEMMA PublishKeeps ==
  ASSUME Typed, NEW p \in Procs, Publish(p)
  PROVE  Typed'
<1> USE DEF Typed, Publish, locks, bounds
<1>1. EntriesOK'
  BY DEF EntriesOK
<1>2. ReceiptOK'
  BY DEF ReceiptOK
<1>3. LocksOK'
  BY TransactionAssumption DEF TransactionAssumption, LocksOK, ProcessesOK
<1>4. ProcessesOK'
  BY DEF ProcessesOK, Placed, PCs
<1>5. Placed'
  BY DEF Placed, ProcessesOK
<1>6. OwnReceipt'
  BY DEF OwnReceipt, ProcessesOK, LocksOK
<1> QED
  BY <1>1, <1>2, <1>3, <1>4, <1>5, <1>6

LEMMA FailKeeps ==
  ASSUME Typed, NEW p \in Procs, Fail(p)
  PROVE  Typed'
<1> USE DEF Typed, Fail, locks, bounds, StartRollback
<1>1. EntriesOK'
  BY DEF EntriesOK
<1>2. ReceiptOK'
  BY DEF ReceiptOK
<1>3. LocksOK'
  BY TransactionAssumption DEF TransactionAssumption, LocksOK, ProcessesOK
<1>4. ProcessesOK'
  BY DEF ProcessesOK, Placed, PCs
<1>5. Placed'
  BY DEF Placed, ProcessesOK
<1>6. OwnReceipt'
  BY DEF OwnReceipt, ProcessesOK, LocksOK
<1> QED
  BY <1>1, <1>2, <1>3, <1>4, <1>5, <1>6

LEMMA ExamineKeeps ==
  ASSUME Typed, NEW p \in Procs, Examine(p)
  PROVE  Typed'
<1> USE DEF Typed, Examine, locks, bounds
<1>1. EntriesOK'
  BY DEF EntriesOK
<1>2. ReceiptOK'
  BY DEF ReceiptOK
<1>3. LocksOK'
  BY TransactionAssumption DEF TransactionAssumption, LocksOK, ProcessesOK
<1>4. ProcessesOK'
  <2>1. \/ conflict' = conflict
        \/ conflict' = [conflict EXCEPT ![p] = conflict[p] \/ ~AtPreimage(Undo(p))]
    OBVIOUS
  <2>2. conflict' \in [Procs -> BOOLEAN]
    BY <2>1, Zenon DEF ProcessesOK
  <2>3. pc' \in {pc, [pc EXCEPT ![p] = "restore"]} /\ at' \in {at, [at EXCEPT ![p] = @ - 1]}
    OBVIOUS
  <2>4. pc' \in [Procs -> PCs]
    BY <2>3 DEF ProcessesOK, PCs
  <2>5. at[p] > 0 /\ at \in [Procs -> Nat]
    BY DEF ProcessesOK
  <2> HIDE DEF Examine
  <2>6. at' \in [Procs -> Nat] /\ \A q \in Procs : at'[q] <= at[q]
    BY <2>3, <2>5
  <2>7. UNCHANGED <<job, report>>
    BY DEF Examine
  <2> QED
    BY <2>2, <2>4, <2>5, <2>6, <2>7 DEF ProcessesOK
<1>5. Placed'
  BY DEF Placed, ProcessesOK
<1>6. OwnReceipt'
  BY DEF OwnReceipt, ProcessesOK, LocksOK
<1> QED
  BY <1>1, <1>2, <1>3, <1>4, <1>5, <1>6

LEMMA RestoreFailsKeeps ==
  ASSUME Typed, NEW p \in Procs, RestoreFails(p)
  PROVE  Typed'
<1> USE DEF Typed, RestoreFails, locks, bounds
<1>1. EntriesOK'
  BY DEF EntriesOK
<1>2. ReceiptOK'
  BY DEF ReceiptOK
<1>3. LocksOK'
  BY TransactionAssumption DEF TransactionAssumption, LocksOK, ProcessesOK
<1>4. ProcessesOK'
  BY DEF ProcessesOK, Placed, PCs
<1>5. Placed'
  BY DEF Placed, ProcessesOK
<1>6. OwnReceipt'
  BY DEF OwnReceipt, ProcessesOK, LocksOK
<1> QED
  BY <1>1, <1>2, <1>3, <1>4, <1>5, <1>6

LEMMA StartRecoverKeeps ==
  ASSUME Typed, NEW p \in Procs, StartRecover(p)
  PROVE  Typed'
<1> USE DEF Typed, StartRecover, locks, bounds
<1>1. EntriesOK'
  BY DEF EntriesOK
<1>2. ReceiptOK'
  BY DEF ReceiptOK
<1>3. LocksOK'
  BY TransactionAssumption DEF TransactionAssumption, LocksOK, ProcessesOK
<1>4. ProcessesOK'
  BY DEF ProcessesOK, Placed, PCs
<1>5. Placed'
  BY DEF Placed, ProcessesOK
<1>6. OwnReceipt'
  BY DEF OwnReceipt, ProcessesOK, LocksOK
<1> QED
  BY <1>1, <1>2, <1>3, <1>4, <1>5, <1>6

LEMMA RecoverPreparedKeeps ==
  ASSUME Typed, NEW p \in Procs, RecoverPrepared(p)
  PROVE  Typed'
<1> USE DEF Typed, RecoverPrepared, bounds, LockFree
<1>1. EntriesOK'
  BY DEF EntriesOK
<1>2. ReceiptOK'
  BY DEF ReceiptOK
<1>3. LocksOK'
  BY TransactionAssumption DEF TransactionAssumption, LocksOK, ProcessesOK
<1>4. ProcessesOK'
  BY DEF ReceiptOK, ProcessesOK, PCs
<1>5. Placed'
  BY DEF Placed, ProcessesOK
<1>6. OwnReceipt'
  BY DEF OwnReceipt, ProcessesOK, LocksOK
<1> QED
  BY <1>1, <1>2, <1>3, <1>4, <1>5, <1>6

LEMMA StartStatusKeeps ==
  ASSUME Typed, NEW p \in Procs, StartStatus(p)
  PROVE  Typed'
<1> USE DEF Typed, StartStatus, locks, bounds
<1>1. EntriesOK'
  BY DEF EntriesOK
<1>2. ReceiptOK'
  BY DEF ReceiptOK
<1>3. LocksOK'
  BY TransactionAssumption DEF TransactionAssumption, LocksOK, ProcessesOK
<1>4. ProcessesOK'
  BY DEF ProcessesOK, Placed, PCs
<1>5. Placed'
  BY DEF Placed, ProcessesOK
<1>6. OwnReceipt'
  BY DEF OwnReceipt, ProcessesOK, LocksOK
<1> QED
  BY <1>1, <1>2, <1>3, <1>4, <1>5, <1>6

LEMMA AcquireSharedKeeps ==
  ASSUME Typed, NEW p \in Procs, AcquireShared(p)
  PROVE  Typed'
<1> USE DEF Typed, AcquireShared, bounds
<1>1. EntriesOK'
  BY DEF EntriesOK
<1>2. ReceiptOK'
  BY DEF ReceiptOK
<1>3. LocksOK'
  BY TransactionAssumption DEF TransactionAssumption, LocksOK, ProcessesOK
<1>4. ProcessesOK'
  BY DEF ProcessesOK, Placed, PCs
<1>5. Placed'
  BY DEF Placed, ProcessesOK
<1>6. OwnReceipt'
  BY DEF OwnReceipt, ProcessesOK, LocksOK
<1> QED
  BY <1>1, <1>2, <1>3, <1>4, <1>5, <1>6

LEMMA ReadAgainKeeps ==
  ASSUME Typed, NEW p \in Procs, ReadAgain(p)
  PROVE  Typed'
<1> USE DEF Typed, ReadAgain, locks, bounds
<1>1. EntriesOK'
  BY DEF EntriesOK
<1>2. ReceiptOK'
  BY DEF ReceiptOK
<1>3. LocksOK'
  BY TransactionAssumption DEF TransactionAssumption, LocksOK, ProcessesOK
<1>4. ProcessesOK'
  BY EmptySeq DEF ProcessesOK, PCs
<1>5. Placed'
  BY DEF Placed, ProcessesOK
<1>6. OwnReceipt'
  BY DEF OwnReceipt, ProcessesOK, LocksOK
<1> QED
  BY <1>1, <1>2, <1>3, <1>4, <1>5, <1>6

\* A change applied or given up: the process goes to the next change, to the publication or into
\* the rollback.
LEMMA GoesOn ==
  ASSUME Typed, NEW p \in Procs, pc[p] = "apply", Advance(p) \/ StartRollback(p), EntriesOK',
         UNCHANGED <<receipt, locks, job, report>>
  PROVE  Typed'
<1> USE DEF Typed, locks
<1>1. Len(job[p]) \in Nat /\ at[p] \in Nat /\ at[p] # 0
  BY DEF ProcessesOK, Placed
<1>2. /\ \E stage \in {"verify", "publish", "rollback"} :
           /\ pc' = [pc EXCEPT ![p] = stage]
           /\ stage = "verify" => at' = [at EXCEPT ![p] = at[p] + 1]
      /\ \/ at' = at
         \/ at' = [at EXCEPT ![p] = Len(job[p])]
         \/ at[p] < Len(job[p]) /\ at' = [at EXCEPT ![p] = at[p] + 1]
      /\ conflict' \in {conflict, [conflict EXCEPT ![p] = FALSE]}
  BY DEF Advance, StartRollback, More
<1>3. PICK stage \in {"verify", "publish", "rollback"} :
        /\ pc' = [pc EXCEPT ![p] = stage]
        /\ stage = "verify" => at' = [at EXCEPT ![p] = at[p] + 1]
  BY <1>2
<1>4. ReceiptOK'
  BY DEF ReceiptOK
<1>5. LocksOK'
  BY <1>3, TransactionAssumption DEF TransactionAssumption, LocksOK, ProcessesOK
<1>6. at' \in [Procs -> Nat] /\ \A q \in Procs : at'[q] <= Len(job[q])
  <2>1. CASE at' = at
    BY <2>1 DEF ProcessesOK
  <2>2. CASE at' = [at EXCEPT ![p] = Len(job[p])]
    BY <1>1, <2>2 DEF ProcessesOK
  <2>3. CASE at[p] < Len(job[p]) /\ at' = [at EXCEPT ![p] = at[p] + 1]
    BY <1>1, <2>3 DEF ProcessesOK
  <2> QED
    BY <1>2, <2>1, <2>2, <2>3
<1>7. ProcessesOK'
  BY <1>2, <1>3, <1>6 DEF ProcessesOK, PCs
<1>8. Placed'
  <2>1. ASSUME NEW q \in Procs
        PROVE  /\ pc'[q] \in {"verify", "apply", "restore"} => at'[q] # 0
               /\ pc'[q] = "idle" => at'[q] = 0
    <3>1. CASE q = p
      BY <1>1, <1>3, <3>1 DEF ProcessesOK
    <3>2. CASE q # p
      BY <1>2, <1>3, <3>2 DEF ProcessesOK, Placed
    <3> QED
      BY <3>1, <3>2
  <2> QED
    BY <1>3, <2>1 DEF Placed, ProcessesOK
<1>9. OwnReceipt'
  BY <1>3 DEF OwnReceipt, ProcessesOK
<1> QED
  BY <1>4, <1>5, <1>7, <1>8, <1>9

LEMMA PlanKeeps ==
  ASSUME Typed, NEW p \in Procs, NEW update \in Updates, Plan(p, update)
  PROVE  Typed'
<1> USE DEF Typed
<1>1. Planned(update) \in Seq(ChangeSet)
  BY PlanIsTyped
<1>2. /\ pc[p] = "idle" /\ Planned(update) # << >>
      /\ job' = [job EXCEPT ![p] = Planned(update)] /\ pc' = [pc EXCEPT ![p] = "planned"]
      /\ UNCHANGED <<entry, receipt, lockFile, writer, readers, at, conflict, report>>
  BY DEF Plan, locks
<1>3. EntriesOK' /\ ReceiptOK'
  BY <1>2 DEF EntriesOK, ReceiptOK
<1>4. LocksOK'
  BY <1>2, TransactionAssumption DEF TransactionAssumption, LocksOK, ProcessesOK
<1>5. ProcessesOK'
  BY <1>1, <1>2 DEF ProcessesOK, Placed, PCs
<1>6. Placed'
  BY <1>2 DEF Placed, ProcessesOK
<1>7. OwnReceipt'
  BY <1>2 DEF OwnReceipt, ProcessesOK
<1> QED
  BY <1>3, <1>4, <1>5, <1>6, <1>7

\* The change a process is at is one of its changes.
LEMMA ChangeInHand ==
  ASSUME Typed, NEW p \in Procs, at[p] # 0
  PROVE  job[p][at[p]] \in ChangeSet
<1>1. at[p] \in 1..Len(job[p]) /\ job[p] \in Seq(ChangeSet)
  BY DEF Typed, ProcessesOK
<1> QED
  BY <1>1

LEMMA ApplyFileKeeps ==
  ASSUME Typed, NEW p \in Procs, ApplyFile(p)
  PROVE  Typed'
<1> DEFINE c == Change(p)
<1>1. at[p] # 0 /\ pc[p] = "apply" /\ c.path \in Files
  <2>1. pc[p] = "apply" /\ c.path \in Files
    BY DEF ApplyFile
  <2> QED
    BY <2>1 DEF Typed, Placed
<1>2. c.after \in FileImages
  BY <1>1, ChangeInHand, ChangeIsTyped DEF Change, FileImages
<1>3. \/ StartRollback(p) /\ UNCHANGED entry
      \/ entry' = Written(c.path, c.after) /\ Advance(p)
  BY DEF ApplyFile
<1>4. EntriesOK'
  <2>1. CASE UNCHANGED entry
    BY <2>1 DEF Typed, EntriesOK
  <2>2. CASE entry' = Written(c.path, c.after)
    BY <1>1, <1>2, <2>2, WrittenIsTyped DEF Typed
  <2> QED
    BY <1>3, <2>1, <2>2
<1>5. UNCHANGED <<receipt, locks, job, report>>
  BY DEF ApplyFile
<1> QED
  BY <1>1, <1>3, <1>4, <1>5, GoesOn

LEMMA RemoveDirectoryKeeps ==
  ASSUME Typed, NEW p \in Procs, RemoveDirectory(p)
  PROVE  Typed'
<1> DEFINE c == Change(p)
<1>1. pc[p] = "apply" /\ c.path \in Links
  BY DEF RemoveDirectory
<1>2. \/ entry' = [entry EXCEPT ![c.path] = Absent] /\ UNCHANGED <<pc, at, conflict>>
      \/ StartRollback(p) /\ UNCHANGED entry
  BY DEF RemoveDirectory
<1>3. EntriesOK'
  <2>1. CASE UNCHANGED entry
    BY <2>1 DEF Typed, EntriesOK
  <2>2. CASE entry' = [entry EXCEPT ![c.path] = Absent]
    <3>1. Absent \in LinkImages /\ Absent \in Images /\ c.path \in Slots /\ c.path \notin Files
      BY <1>1, TransactionAssumption DEF TransactionAssumption, Slots, Images, LinkImages
    <3> QED
      BY <1>1, <2>2, <3>1 DEF Typed, EntriesOK, Slots
  <2> QED
    BY <1>2, <2>1, <2>2
<1>4. UNCHANGED <<receipt, locks, job, report>>
  BY DEF RemoveDirectory
<1>5. CASE UNCHANGED <<pc, at, conflict>>
  BY <1>3, <1>4, <1>5
  DEF Typed, locks, ReceiptOK, LocksOK, ProcessesOK, Placed, OwnReceipt
<1>6. CASE StartRollback(p)
  BY <1>1, <1>3, <1>4, <1>6, GoesOn
<1> QED
  BY <1>2, <1>5, <1>6

LEMMA ApplyLinkKeeps ==
  ASSUME Typed, NEW p \in Procs, ApplyLink(p)
  PROVE  Typed'
<1> DEFINE c == Change(p)
<1>1. at[p] # 0 /\ pc[p] = "apply" /\ c.path \in Links
  <2>1. pc[p] = "apply" /\ c.path \in Links
    BY DEF ApplyLink
  <2> QED
    BY <2>1 DEF Typed, Placed
<1>2. c.after \in LinkImages
  BY <1>1, ChangeInHand, ChangeIsTyped DEF Change, LinkImages
<1>3. entry' = [entry EXCEPT ![c.path] = c.after]
  BY DEF ApplyLink
<1>4. EntriesOK'
  BY <1>1, <1>2, <1>3, TransactionAssumption
  DEF TransactionAssumption, Typed, EntriesOK, Slots, Images
<1>5. UNCHANGED <<receipt, locks, job, report>> /\ Advance(p)
  BY DEF ApplyLink
<1> QED
  BY <1>1, <1>4, <1>5, GoesOn

\* A change rolled back: the process goes to the one before it.
LEMMA GoesBack ==
  ASSUME Typed, NEW p \in Procs, pc[p] = "restore", pc' = [pc EXCEPT ![p] = "rollback"],
         at' = [at EXCEPT ![p] = @ - 1], EntriesOK',
         UNCHANGED <<receipt, locks, job, conflict, report>>
  PROVE  Typed'
<1> USE DEF Typed, locks
<1>1. at[p] \in Nat /\ at[p] # 0
  BY DEF ProcessesOK, Placed
<1>2. at' \in [Procs -> Nat] /\ \A q \in Procs : at'[q] <= at[q]
  BY <1>1 DEF ProcessesOK
<1>3. ProcessesOK'
  BY <1>2 DEF ProcessesOK, PCs
<1>4. LocksOK' /\ ReceiptOK'
  BY TransactionAssumption DEF TransactionAssumption, LocksOK, ProcessesOK, ReceiptOK
<1>5. Placed'
  BY DEF Placed, ProcessesOK
<1>6. OwnReceipt'
  BY DEF OwnReceipt, ProcessesOK
<1> QED
  BY <1>3, <1>4, <1>5, <1>6

LEMMA RestoreKeeps ==
  ASSUME Typed, NEW p \in Procs, Restore(p)
  PROVE  Typed'
<1> DEFINE c == Undo(p)
           half == c.before = "directory" /\ entry[c.path] = "link"
<1>1. pc[p] = "restore" /\ UNCHANGED <<receipt, locks, job, conflict, report>>
  BY DEF Restore
<1>2. \/ half /\ entry' = [entry EXCEPT ![c.path] = Absent] /\ UNCHANGED <<pc, at>>
      \/ /\ ~half
         /\ entry' = IF c.path \in Links THEN [entry EXCEPT ![c.path] = c.before]
                                         ELSE Written(c.path, c.before)
         /\ at' = [at EXCEPT ![p] = @ - 1] /\ pc' = [pc EXCEPT ![p] = "rollback"]
  BY DEF Restore
<1>3. c \in ChangeSet
  BY <1>1, ChangeInHand DEF Typed, Placed, Undo
<1>4. /\ c.path \in Slots
      /\ c.path \in Files => c.before \in FileImages
      /\ c.path \in Links => c.before \in LinkImages
  BY <1>3, ChangeIsTyped
<1> HIDE DEF c
<1>5. ASSUME NEW image \in LinkImages, c.path \in Links, entry' = [entry EXCEPT ![c.path] = image]
      PROVE  EntriesOK'
  <2>1. image \in Images /\ c.path \notin Files
    BY <1>5, TransactionAssumption DEF TransactionAssumption, Images
  <2> QED
    BY <1>5, <2>1 DEF Typed, EntriesOK, Slots
<1>6. CASE half /\ entry' = [entry EXCEPT ![c.path] = Absent] /\ UNCHANGED <<pc, at>>
  <2>1. c.path \in Links
    <3>1. "directory" \notin FileImages
      BY TransactionAssumption DEF TransactionAssumption, FileImages, LinkImages, Absent, Edited
    <3> QED
      BY <1>4, <1>6, <3>1 DEF Slots
  <2>2. EntriesOK'
    BY <1>5, <1>6, <2>1 DEF LinkImages
  <2> QED
    BY <1>1, <1>6, <2>2 DEF Typed, locks, ReceiptOK, LocksOK, ProcessesOK, Placed, OwnReceipt
<1>7. CASE /\ ~half
           /\ entry' = IF c.path \in Links THEN [entry EXCEPT ![c.path] = c.before]
                                           ELSE Written(c.path, c.before)
           /\ at' = [at EXCEPT ![p] = @ - 1] /\ pc' = [pc EXCEPT ![p] = "rollback"]
  <2>1. EntriesOK'
    <3>1. CASE c.path \in Links
      BY <1>4, <1>5, <1>7, <3>1
    <3>2. CASE c.path \notin Links
      BY <1>4, <1>7, <3>2, WrittenIsTyped DEF Typed, Slots
    <3> QED
      BY <3>1, <3>2
  <2> QED
    BY <1>1, <1>7, <2>1, GoesBack
<1> QED
  BY <1>2, <1>6, <1>7

LEMMA RolledBackKeeps ==
  ASSUME Typed, NEW p \in Procs, RolledBack(p)
  PROVE  Typed'
<1>1. pc[p] = "rollback" /\ at[p] = 0 /\ UNCHANGED <<entry, receipt>>
  BY DEF RolledBack
<1>2. \/ pc' = [pc EXCEPT ![p] = "finish"] /\ UNCHANGED <<locks, job, at, conflict, report>>
      \/ End(p) /\ UNCHANGED lockFile
  BY DEF RolledBack
<1>3. CASE pc' = [pc EXCEPT ![p] = "finish"] /\ UNCHANGED <<locks, job, at, conflict, report>>
  <2> USE <1>1, <1>3 DEF Typed, locks
  <2>1. EntriesOK' /\ ReceiptOK' /\ ProcessesOK'
    BY DEF EntriesOK, ReceiptOK, ProcessesOK, PCs
  <2>2. LocksOK'
    BY TransactionAssumption DEF TransactionAssumption, LocksOK, ProcessesOK
  <2>3. Placed' /\ OwnReceipt'
    BY DEF Placed, OwnReceipt, ProcessesOK
  <2> QED
    BY <2>1, <2>2, <2>3
<1>4. CASE End(p) /\ UNCHANGED lockFile
  BY <1>1, <1>4, EndingKeeps
<1> QED
  BY <1>2, <1>3, <1>4

LEMMA RecoverPublishedKeeps ==
  ASSUME Typed, NEW p \in Procs, RecoverPublished(p)
  PROVE  Typed'
<1>1. pc[p] = "recover" /\ LockFree /\ lockFile' = TRUE /\ UNCHANGED <<entry, receipt>>
  BY DEF RecoverPublished
<1>2. \/ /\ writer' = p /\ pc' = [pc EXCEPT ![p] = "finish"]
         /\ UNCHANGED <<readers, job, at, conflict, report>>
      \/ End(p)
  BY DEF RecoverPublished
<1>3. CASE /\ writer' = p /\ pc' = [pc EXCEPT ![p] = "finish"]
           /\ UNCHANGED <<readers, job, at, conflict, report>>
  <2> USE <1>1, <1>3 DEF Typed
  <2>1. EntriesOK' /\ ReceiptOK' /\ ProcessesOK'
    BY DEF EntriesOK, ReceiptOK, ProcessesOK, PCs
  <2>2. LocksOK'
    BY TransactionAssumption DEF TransactionAssumption, LocksOK, ProcessesOK, LockFree
  <2>3. Placed' /\ OwnReceipt'
    BY DEF Placed, OwnReceipt, ProcessesOK
  <2> QED
    BY <2>1, <2>2, <2>3
<1>4. CASE End(p)
  BY <1>1, <1>4, EndingKeeps
<1> QED
  BY <1>2, <1>3, <1>4

LEMMA ReadOneKeeps ==
  ASSUME Typed, NEW p \in Procs, ReadOne(p)
  PROVE  Typed'
<1> DEFINE n == Len(report[p])
           image == entry[ReadOrder[n + 1]]
<1>1. /\ Reading(p) /\ n < Len(ReadOrder)
      /\ report' = [report EXCEPT ![p] = Append(report[p], image)]
      /\ UNCHANGED <<entry, receipt, lockFile, writer, readers, pc, job, at, conflict>>
  BY DEF ReadOne, locks
<1>2. n \in Nat /\ Len(ReadOrder) \in Nat /\ ReadOrder \in Seq(Slots)
  BY TransactionAssumption DEF TransactionAssumption, Typed, ProcessesOK
<1>3. ReadOrder[n + 1] \in Slots
  BY <1>1, <1>2
<1>4. image \in Images
  BY <1>3 DEF Typed, EntriesOK
<1>5. Append(report[p], image) \in Seq(Images) /\ Len(Append(report[p], image)) = n + 1
  BY <1>4 DEF Typed, ProcessesOK
<1> HIDE DEF image
<1>6. EntriesOK' /\ ReceiptOK' /\ LocksOK'
  BY <1>1 DEF Typed, EntriesOK, ReceiptOK, LocksOK
<1>7. ProcessesOK'
  BY <1>1, <1>5 DEF Typed, ProcessesOK
<1>8. Placed'
  BY <1>1, <1>2, <1>5 DEF Typed, Placed, ProcessesOK, Reading
<1>9. OwnReceipt'
  BY <1>1 DEF Typed, OwnReceipt
<1> QED
  BY <1>6, <1>7, <1>8, <1>9 DEF Typed

LEMMA UserEditKeeps ==
  ASSUME Typed, NEW f \in Files, UserEdit(f)
  PROVE  Typed'
<1>1. /\ entry' = [entry EXCEPT ![Slot(f)] = Edited]
      /\ UNCHANGED <<receipt, lockFile, writer, readers, pc, job, at, conflict, report>>
  BY DEF UserEdit, locks
<1>2. Slot(f) \in Files
  BY PathImage DEF Typed, Slots
<1>3. EntriesOK'
  BY <1>1, <1>2, TransactionAssumption
  DEF TransactionAssumption, Typed, EntriesOK, Slots, Images, FileImages
<1> QED
  BY <1>1, <1>3 DEF Typed, ReceiptOK, LocksOK, ProcessesOK, Placed, OwnReceipt

LEMMA TypedInitially == Init => Typed
<1> SUFFICES ASSUME Init PROVE Typed
  OBVIOUS
<1> USE DEF Init
<1>1. EntriesOK
  <2>1. /\ Start \in [Slots -> Images] /\ \A s \in Files : Start[s] \in FileImages
        /\ \A s \in Links : Start[s] \in LinkImages
    BY TransactionAssumption DEF TransactionAssumption
  <2> QED
    BY <2>1 DEF EntriesOK, Slots, Images
<1>2. ReceiptOK /\ ProcessesOK
  BY EmptySeq DEF ReceiptOK, ProcessesOK, NoReceipt, PCs
<1>3. LocksOK /\ OwnReceipt
  BY TransactionAssumption DEF TransactionAssumption, LocksOK, OwnReceipt
<1>4. Placed
  BY TransactionAssumption DEF TransactionAssumption, Placed
<1> QED
  BY <1>1, <1>2, <1>3, <1>4 DEF Typed

LEMMA TypedStays == Typed /\ [Next]_vars => Typed'
<1> SUFFICES ASSUME Typed, [Next]_vars PROVE Typed'
  OBVIOUS
<1>1. ASSUME NEW p \in Procs, \E update \in Updates : Plan(p, update) PROVE Typed'
  BY <1>1, PlanKeeps
<1>2. ASSUME NEW p \in Procs, Publishing(p) PROVE Typed'
  BY <1>2, EndingActionsKeep, AcquireKeeps, PrepareKeeps, VerifyKeeps, ApplyFileKeeps,
     RemoveDirectoryKeeps, ApplyLinkKeeps, PublishKeeps DEF Publishing, Ending
<1>3. ASSUME NEW p \in Procs, RollingBack(p) \/ Recovering(p) PROVE Typed'
  BY <1>3, EndingActionsKeep, ExamineKeeps, RestoreKeeps, RolledBackKeeps, StartRecoverKeeps,
     RecoverPreparedKeeps, RecoverPublishedKeeps DEF RollingBack, Recovering, Ending
<1>4. ASSUME NEW p \in Procs, StartStatus(p) \/ Status(p) PROVE Typed'
  BY <1>4, EndingActionsKeep, StartStatusKeeps, AcquireSharedKeeps, ReadOneKeeps, ReadAgainKeeps
  DEF Status, Ending
<1>5. ASSUME NEW p \in Procs, Failing(p) \/ Crash(p) PROVE Typed'
  BY <1>5, EndingActionsKeep, FailKeeps, RestoreFailsKeeps DEF Failing, Ending
<1>6. ASSUME NEW f \in Files, UserEdit(f) PROVE Typed'
  BY <1>6, UserEditKeeps
<1>7. CASE UNCHANGED vars
  BY <1>7 DEF vars, locks, Typed, EntriesOK, ReceiptOK, LocksOK, ProcessesOK, Placed, OwnReceipt
<1> QED
  BY <1>1, <1>2, <1>3, <1>4, <1>5, <1>6, <1>7 DEF Next

\* Locks exclude each other, every process is where its locks let it be, and receipts, plans and
\* entries keep their kind (text_file_transaction.rs, all commands).
THEOREM TypeCorrect == Spec => []TypeOK
<1>1. Spec => []Typed
  BY TypedInitially, TypedStays, PTL DEF Spec
<1>2. Typed => TypeOK
  BY DEF Typed
<1> QED
  BY <1>1, <1>2, PTL

-----------------------------------------------------------------------------
(* What one process's step leaves alone                                    *)

\* Of other processes it changes nothing; the lock file stays; and what it does to an entry or
\* the receipt, it does as the writer.
Local(p) ==
  /\ \A q \in Procs \ {p} :
       pc'[q] = pc[q] /\ job'[q] = job[q] /\ at'[q] = at[q] /\ report'[q] = report[q]
  /\ lockFile => lockFile'
  /\ UNCHANGED <<entry, receipt>> \/ writer = p

Act(p) ==
  \/ \E update \in Updates : Plan(p, update)
  \/ Publishing(p) \/ RollingBack(p) \/ Recovering(p) \/ StartStatus(p) \/ Status(p)
  \/ Failing(p) \/ Crash(p)

LEMMA StepIsLocal ==
  ASSUME Typed, NEW p \in Procs, Act(p)
  PROVE  Local(p)
<1> USE DEF Local, End, locks
<1>0. /\ pc \in [Procs -> PCs] /\ DOMAIN job = Procs /\ DOMAIN at = Procs
      /\ DOMAIN report = Procs /\ job = [q \in Procs |-> job[q]] /\ at = [q \in Procs |-> at[q]]
      /\ report = [q \in Procs |-> report[q]]
      /\ pc[p] \in {"prepare", "verify", "apply", "publish", "finish", "rollback", "restore"}
           => writer = p
  BY DEF Typed, ProcessesOK, LocksOK
<1>1. ASSUME \E update \in Updates : Plan(p, update) PROVE Local(p)
  BY <1>0, <1>1 DEF Plan
<1>2. ASSUME Publishing(p) PROVE Local(p)
  <2>1. CASE Acquire(p) \/ Busy(p) \/ Refuse(p)
    BY <1>0, <2>1 DEF Acquire, Busy, Refuse
  <2>2. CASE Prepare(p) \/ Publish(p) \/ Finish(p)
    BY <1>0, <2>2 DEF Prepare, Publish, Finish
  <2>3. CASE Verify(p)
    BY <1>0, <2>3 DEF Verify, StartRollback
  <2>4. CASE ApplyFile(p)
    <3>1. /\ pc[p] = "apply" /\ (StartRollback(p) \/ Advance(p))
          /\ UNCHANGED <<receipt, locks, job, report>>
      BY <2>4 DEF ApplyFile
    <3> QED
      BY <1>0, <3>1 DEF StartRollback, Advance
  <2>5. CASE RemoveDirectory(p) \/ ApplyLink(p)
    <3>1. /\ pc[p] = "apply"
          /\ (StartRollback(p) \/ Advance(p) \/ UNCHANGED <<pc, at, conflict>>)
          /\ UNCHANGED <<receipt, locks, job, report>>
      BY <2>5 DEF RemoveDirectory, ApplyLink
    <3> QED
      BY <1>0, <3>1 DEF StartRollback, Advance
  <2> QED
    BY <1>2, <2>1, <2>2, <2>3, <2>4, <2>5 DEF Publishing
<1>3. ASSUME RollingBack(p) PROVE Local(p)
  <2>1. CASE Examine(p)
    BY <1>0, <2>1 DEF Examine
  <2>2. CASE Restore(p)
    <3>1. /\ pc[p] = "restore" /\ UNCHANGED <<receipt, locks, job, report>>
          /\ pc' \in {pc, [pc EXCEPT ![p] = "rollback"]} /\ at' \in {at, [at EXCEPT ![p] = @ - 1]}
      BY <2>2 DEF Restore
    <3> QED
      BY <1>0, <3>1
  <2>3. CASE RolledBack(p)
    BY <1>0, <2>3 DEF RolledBack
  <2> QED
    BY <1>3, <2>1, <2>2, <2>3 DEF RollingBack
<1>4. ASSUME Recovering(p) PROVE Local(p)
  BY <1>0, <1>4 DEF Recovering, StartRecover, RecoverRefused, RecoverPrepared, RecoverPublished
<1>5. ASSUME StartStatus(p) \/ Status(p) PROVE Local(p)
  BY <1>0, <1>5 DEF StartStatus, Status, AcquireShared, StatusPending, ReadOne, ReadAgain, Report
<1>6. ASSUME Failing(p) \/ Crash(p) PROVE Local(p)
  BY <1>0, <1>6 DEF Failing, Fail, StartRollback, PrepareUnconfirmed, PublishUnconfirmed,
     FinishFails, RestoreFails, RollbackAborts, Crash
<1> HIDE DEF Local
<1> QED
  BY <1>1, <1>2, <1>3, <1>4, <1>5, <1>6 DEF Act

LEMMA NextIsAct ==
  ASSUME [Next]_vars
  PROVE  (\E p \in Procs : Act(p)) \/ (\E f \in Files : UserEdit(f)) \/ UNCHANGED vars
BY DEF Next, Act

-----------------------------------------------------------------------------
(* A status report                                                         *)

\* A step after which the process is not in the middle of a snapshot keeps everybody's.
LEMMA SnapshotsKept ==
  ASSUME Typed, Snapshots, NEW p \in Procs, Local(p),
         pc'[p] \notin {"look", "read"} \/ report'[p] = << >>
  PROVE  Snapshots'
<1> SUFFICES ASSUME NEW q \in Procs, pc'[q] \in {"look", "read"}, report'[q] # << >>,
                    pc'[q] = "look" => ~lockFile'
             PROVE  /\ ~Pending'
                    /\ \A i \in 1..Len(report'[q]) :
                         entry'[ReadOrder[i]] \in {report'[q][i], Edited}
  BY DEF Snapshots, Reading
<1>1. q # p
  OBVIOUS
<1>2. pc'[q] = pc[q] /\ report'[q] = report[q] /\ (lockFile => lockFile')
  BY <1>1 DEF Local
<1>3. ~(writer = p)
  BY <1>2, TransactionAssumption DEF TransactionAssumption, Typed, LocksOK
<1>4. UNCHANGED <<entry, receipt>>
  BY <1>3 DEF Local
<1>5. /\ ~Pending
      /\ \A i \in 1..Len(report[q]) : entry[ReadOrder[i]] \in {report[q][i], Edited}
  BY <1>2 DEF Snapshots, Reading
<1> QED
  BY <1>2, <1>4, <1>5 DEF Pending

LEMMA ReadOneSnapshots ==
  ASSUME Typed, Snapshots, NEW p \in Procs, ReadOne(p)
  PROVE  Snapshots'
<1> DEFINE n == Len(report[p])
           image == entry[ReadOrder[n + 1]]
<1>1. /\ Reading(p) /\ (report[p] = << >> => ~Pending)
      /\ report' = [report EXCEPT ![p] = Append(report[p], image)]
      /\ UNCHANGED <<entry, receipt, lockFile, pc>>
  BY DEF ReadOne, locks
<1>2. report \in [Procs -> Seq(Images)] /\ image \in Images
  <2>1. n \in Nat /\ n < Len(ReadOrder) /\ ReadOrder \in Seq(Slots)
    BY TransactionAssumption DEF TransactionAssumption, ReadOne, Typed, ProcessesOK
  <2>2. ReadOrder[n + 1] \in Slots
    BY <2>1
  <2> QED
    BY <2>2 DEF Typed, EntriesOK, ProcessesOK
<1>3. SUFFICES ASSUME NEW q \in Procs, pc[q] \in {"look", "read"}, report'[q] # << >>,
                      pc[q] = "look" => ~lockFile
               PROVE  /\ ~Pending
                      /\ \A i \in 1..Len(report'[q]) :
                           entry[ReadOrder[i]] \in {report'[q][i], Edited}
  BY <1>1 DEF Snapshots, Reading, Pending
<1>4. CASE q = p
  <2>1. /\ report'[p] = Append(report[p], image) /\ Len(report'[p]) = n + 1 /\ n \in Nat
        /\ report'[p][n + 1] = image /\ \A i \in 1..n : report'[p][i] = report[p][i]
    <3> HIDE DEF image
    <3> QED
      BY <1>1, <1>2
  <2>2. CASE report[p] = << >>
    BY <1>1, <1>4, <2>1, <2>2
  <2>3. CASE report[p] # << >>
    <3>1. /\ ~Pending
          /\ \A i \in 1..n : entry[ReadOrder[i]] \in {report[p][i], Edited}
      BY <1>3, <1>4, <2>3 DEF Snapshots, Reading
    <3> QED
      BY <1>4, <2>1, <3>1
  <2> QED
    BY <2>2, <2>3
<1>5. CASE q # p
  <2>1. report'[q] = report[q]
    BY <1>1, <1>2, <1>5
  <2> QED
    BY <1>3, <2>1 DEF Snapshots, Reading
<1> QED
  BY <1>4, <1>5

\* Only reading a target leaves a process in the middle of a snapshot.
LEMMA NoSnapshotUnderWay ==
  ASSUME Typed, NEW p \in Procs, Act(p), ~ReadOne(p)
  PROVE  pc'[p] \notin {"look", "read"} \/ report'[p] = << >>
<1> DEFINE Quiet == pc'[p] \notin {"look", "read"} \/ report'[p] = << >>
<1>0. pc \in [Procs -> PCs] /\ report \in [Procs -> Seq(Images)]
      /\ (pc[p] \in {"idle", "wait"} => report[p] = << >>)
  BY DEF Typed, ProcessesOK, Placed
<1>1. ASSUME \E update \in Updates : Plan(p, update) PROVE Quiet
  BY <1>0, <1>1 DEF Plan
<1>2. ASSUME Ending(p) PROVE Quiet
  <2>1. End(p)
    BY <1>2 DEF Ending, Busy, Refuse, Finish, FinishFails, PrepareUnconfirmed,
                PublishUnconfirmed, RollbackAborts, RecoverRefused, StatusPending, Report, Crash
  <2> QED
    BY <1>0, <2>1 DEF End
<1>3. ASSUME Acquire(p) \/ Prepare(p) \/ Publish(p) PROVE Quiet
  BY <1>0, <1>3 DEF Acquire, Prepare, Publish
<1>4. ASSUME Verify(p) PROVE Quiet
  BY <1>0, <1>4 DEF Verify, StartRollback
<1>5. ASSUME ApplyFile(p) \/ RemoveDirectory(p) \/ ApplyLink(p) PROVE Quiet
  <2>1. pc[p] = "apply" /\ (StartRollback(p) \/ Advance(p) \/ UNCHANGED pc)
    BY <1>5 DEF ApplyFile, RemoveDirectory, ApplyLink
  <2> QED
    BY <1>0, <2>1 DEF StartRollback, Advance
<1>6. ASSUME RollingBack(p) PROVE Quiet
  <2>1. pc[p] \in {"rollback", "restore"}
        /\ (End(p) \/ pc' \in {pc, [pc EXCEPT ![p] = "rollback"], [pc EXCEPT ![p] = "restore"],
                               [pc EXCEPT ![p] = "finish"]})
    BY <1>6 DEF RollingBack, Examine, Restore, RolledBack
  <2> QED
    BY <1>0, <2>1 DEF End
<1>7. ASSUME StartRecover(p) \/ RecoverPrepared(p) \/ RecoverPublished(p) PROVE Quiet
  BY <1>0, <1>7 DEF StartRecover, RecoverPrepared, RecoverPublished, End
<1>8. ASSUME StartStatus(p) \/ AcquireShared(p) \/ ReadAgain(p) PROVE Quiet
  BY <1>0, <1>8 DEF StartStatus, AcquireShared, ReadAgain
<1>9. ASSUME Fail(p) \/ RestoreFails(p) PROVE Quiet
  BY <1>0, <1>9 DEF Fail, StartRollback, RestoreFails
<1> HIDE DEF Quiet
<1>10. Quiet
  BY <1>1, <1>2, <1>3, <1>4, <1>5, <1>6, <1>7, <1>8, <1>9
  DEF Act, Publishing, Recovering, Status, Failing, Ending
<1> QED
  BY <1>10 DEF Quiet

LEMMA SnapshotsStay ==
  ASSUME Typed, Snapshots, [Next]_vars
  PROVE  Snapshots'
<1>1. ASSUME NEW p \in Procs, Act(p) PROVE Snapshots'
  <2>1. Local(p)
    BY <1>1, StepIsLocal
  <2>2. CASE ReadOne(p)
    BY <2>2, ReadOneSnapshots
  <2>3. CASE ~ReadOne(p)
    BY <1>1, <2>1, <2>3, NoSnapshotUnderWay, SnapshotsKept
  <2> QED
    BY <2>2, <2>3
<1>2. ASSUME NEW f \in Files, UserEdit(f) PROVE Snapshots'
  <2>1. /\ entry' = [entry EXCEPT ![Slot(f)] = Edited]
        /\ UNCHANGED <<receipt, lockFile, pc, report>>
    BY <1>2 DEF UserEdit, locks
  <2>2. ReadOrder \in Seq(Slots) /\ entry \in [Slots -> Images]
    BY TransactionAssumption DEF TransactionAssumption, Typed, EntriesOK
  <2>3. \A s \in Slots : entry'[s] \in {entry[s], Edited}
    BY <2>1, <2>2
  <2>4. \A q \in Procs : Len(report[q]) \in Nat /\ Len(report[q]) <= Len(ReadOrder)
    BY DEF Typed, Placed, ProcessesOK
  <2>5. \A q \in Procs : \A i \in 1..Len(report[q]) : ReadOrder[i] \in Slots
    BY <2>2, <2>4
  <2> QED
    BY <2>1, <2>3, <2>5 DEF Snapshots, Reading, Pending
<1>3. CASE UNCHANGED vars
  BY <1>3 DEF vars, locks, Snapshots, Reading, Pending
<1> QED
  BY <1>1, <1>2, <1>3, NextIsAct

LEMMA ReportShowsStore ==
  ASSUME Typed, Snapshots, NEW p \in Procs, Report(p), NEW i \in DOMAIN ReadOrder
  PROVE  Store[ReadOrder[i]] \in {report[p][i], Edited}
<1>1. Reading(p) /\ Len(report[p]) = Len(ReadOrder) /\ (pc[p] = "look" => ~lockFile)
  BY DEF Report, Complete, StillUnlocked
<1>2. ReadOrder \in Seq(Slots) /\ ReadOrder[i] \in Slots /\ i \in 1..Len(report[p])
  BY <1>1, TransactionAssumption DEF TransactionAssumption
<1>3. report[p] # << >>
  BY <1>2
<1>4. ~Pending /\ entry[ReadOrder[i]] \in {report[p][i], Edited}
  BY <1>1, <1>2, <1>3 DEF Snapshots
<1>5. Store[ReadOrder[i]] = entry[ReadOrder[i]]
  BY <1>2, <1>4 DEF Store, Pending
<1> QED
  BY <1>4, <1>5

\* Whatever a status command reports was all there together, outside any update, save what a
\* user edited meanwhile (with_text_file_transaction_read_lock).
THEOREM StatusTrue == Spec => StatusShowsCommitted
<1>1. Init => Snapshots
  BY DEF Init, Snapshots, Reading
<1>2. Spec => [](Typed /\ Snapshots)
  BY <1>1, TypedInitially, TypedStays, SnapshotsStay, PTL DEF Spec
<1>3. Typed /\ Snapshots /\ [Next]_vars =>
        [\A p \in Procs : Report(p) =>
           \A i \in DOMAIN ReadOrder : Store[ReadOrder[i]] \in {report[p][i], Edited}]_vars
  BY ReportShowsStore
<1> QED
  BY <1>2, <1>3, PTL DEF Spec, StatusShowsCommitted

-----------------------------------------------------------------------------
(* A user's edit                                                           *)

LEMMA OnlyUsersEdit ==
  ASSUME NEW p \in Procs, Act(p)
  PROVE  edits' = edits
<1> USE DEF bounds
<1>1. CASE \E update \in Updates : Plan(p, update)
  BY <1>1 DEF Plan
<1>2. CASE Publishing(p)
  BY <1>2 DEF Publishing, Acquire, Busy, Refuse, Prepare, Verify, ApplyFile, RemoveDirectory,
              ApplyLink, Publish, Finish
<1>3. CASE RollingBack(p) \/ Recovering(p)
  BY <1>3 DEF RollingBack, Examine, Restore, RolledBack, Recovering, StartRecover,
              RecoverRefused, RecoverPrepared, RecoverPublished
<1>4. CASE StartStatus(p) \/ Status(p)
  BY <1>4 DEF StartStatus, Status, AcquireShared, StatusPending, ReadOne, ReadAgain, Report
<1>5. CASE Failing(p) \/ Crash(p)
  BY <1>5 DEF Failing, Fail, PrepareUnconfirmed, PublishUnconfirmed, FinishFails, RestoreFails,
              RollbackAborts, Crash
<1> QED
  BY <1>1, <1>2, <1>3, <1>4, <1>5 DEF Act

\* A step of p keeps what others have in hand.
LEMMA HandKept ==
  ASSUME Typed, InHand, NEW p \in Procs, Local(p), edits' = edits, Fresh(p)'
  PROVE  InHand'
<1> SUFFICES ASSUME NEW q \in Procs, q # p PROVE Fresh(q)'
  BY DEF InHand
<1>1. pc'[q] = pc[q] /\ job'[q] = job[q] /\ at'[q] = at[q]
  BY DEF Local
<1>2. CASE pc[q] \in {"apply", "restore"}
  <2>1. writer = q
    BY <1>2 DEF Typed, LocksOK
  <2>2. UNCHANGED entry
    BY <2>1 DEF Local
  <2> QED
    BY <1>1, <2>2 DEF InHand, Fresh, Current, Slot, Linked
<1>3. CASE pc[q] \notin {"apply", "restore"}
  BY <1>1, <1>3 DEF Fresh
<1> QED
  BY <1>2, <1>3

\* The two looks at a file: right before it is replaced, and right before it is put back.
LEMMA LooksBeforeReplacing ==
  ASSUME Typed, NEW p \in Procs, Verify(p) \/ Examine(p)
  PROVE  Fresh(p)'
<1> DEFINE c == job[p][at[p]]
<1>1. pc \in [Procs -> PCs]
  BY DEF Typed, ProcessesOK
<1>2. CASE Verify(p)
  <2>1. /\ UNCHANGED <<entry, job>>
        /\ \/ Current(c.path) = c.before /\ pc' = [pc EXCEPT ![p] = "apply"] /\ UNCHANGED at
           \/ pc' = [pc EXCEPT ![p] = "rollback"]
    BY <1>2 DEF Verify, StartRollback, Change
  <2>2. CASE pc' = [pc EXCEPT ![p] = "rollback"]
    BY <1>1, <2>2 DEF Fresh
  <2>3. CASE Current(c.path) = c.before /\ pc' = [pc EXCEPT ![p] = "apply"] /\ UNCHANGED at
    BY <1>1, <2>1, <2>3 DEF Fresh, Current, Slot, Linked
  <2> QED
    BY <2>1, <2>2, <2>3
<1>3. CASE Examine(p)
  <2>1. /\ pc[p] = "rollback" /\ at[p] > 0 /\ UNCHANGED <<entry, job>>
        /\ \/ Restorable(c) /\ pc' = [pc EXCEPT ![p] = "restore"] /\ UNCHANGED at
           \/ UNCHANGED pc
    BY <1>3 DEF Examine, Undo
  <2>2. CASE UNCHANGED pc
    BY <2>1, <2>2 DEF Fresh
  <2>3. CASE Restorable(c) /\ pc' = [pc EXCEPT ![p] = "restore"] /\ UNCHANGED at
    <3>1. at[p] # 0
      BY <2>1 DEF Typed, ProcessesOK
    <3>2. c.path \in Files => c.before # "directory"
      BY <3>1, ChangeInHand, ChangeIsTyped, TransactionAssumption
      DEF TransactionAssumption, FileImages, LinkImages, Absent, Edited
    <3>3. c.path \in Files => Current(c.path) = c.after
      BY <2>3, <3>2 DEF Restorable, Between
    <3> QED
      BY <1>1, <2>1, <2>3, <3>3 DEF Fresh, Current, Slot, Linked
  <2> QED
    BY <2>1, <2>2, <2>3
<1> QED
  BY <1>2, <1>3

\* No other step leaves a file in hand.
LEMMA NothingInHand ==
  ASSUME Typed, NEW p \in Procs, Act(p), ~(Verify(p) \/ Examine(p))
  PROVE  Fresh(p)'
<1>0. pc \in [Procs -> PCs] /\ Files \cap Links = {}
  BY TransactionAssumption DEF TransactionAssumption, Typed, ProcessesOK
<1> DEFINE Out == pc'[p] \notin {"apply", "restore"}
<1>1. ASSUME \E update \in Updates : Plan(p, update) PROVE Out
  BY <1>0, <1>1 DEF Plan
<1>2. ASSUME Ending(p) PROVE Out
  <2>1. End(p)
    BY <1>2 DEF Ending, Busy, Refuse, Finish, FinishFails, PrepareUnconfirmed,
                PublishUnconfirmed, RollbackAborts, RecoverRefused, StatusPending, Report, Crash
  <2> QED
    BY <1>0, <2>1 DEF End
<1>3. ASSUME Acquire(p) \/ Prepare(p) \/ Publish(p) PROVE Out
  BY <1>0, <1>3 DEF Acquire, Prepare, Publish
<1>4. ASSUME ApplyFile(p) \/ ApplyLink(p) PROVE Out
  <2>1. StartRollback(p) \/ Advance(p)
    BY <1>4 DEF ApplyFile, ApplyLink
  <2> QED
    BY <1>0, <2>1 DEF StartRollback, Advance
<1>5. ASSUME RemoveDirectory(p) PROVE Fresh(p)'
  <2>1. /\ job[p][at[p]].path \in Links /\ UNCHANGED job
        /\ StartRollback(p) \/ UNCHANGED at
    BY <1>5 DEF RemoveDirectory, Change
  <2> QED
    BY <1>0, <2>1 DEF StartRollback, Fresh
<1>6. ASSUME Restore(p) PROVE Fresh(p)'
  <2> DEFINE c == job[p][at[p]]
  <2>1. /\ pc[p] = "restore" /\ UNCHANGED job
        /\ (c.before = "directory" /\ UNCHANGED at) \/ pc' = [pc EXCEPT ![p] = "rollback"]
    BY <1>6 DEF Restore, Undo
  <2>2. c.path \in Files => c.before # "directory"
    BY <2>1, ChangeInHand, ChangeIsTyped, TransactionAssumption
    DEF TransactionAssumption, Typed, Placed, FileImages, LinkImages, Absent, Edited
  <2> QED
    BY <1>0, <2>1, <2>2 DEF Fresh
<1>7. ASSUME RolledBack(p) PROVE Out
  BY <1>0, <1>7 DEF RolledBack, End
<1>8. ASSUME StartRecover(p) \/ RecoverPrepared(p) \/ RecoverPublished(p) PROVE Out
  BY <1>0, <1>8 DEF StartRecover, RecoverPrepared, RecoverPublished, End
<1>9. ASSUME StartStatus(p) \/ AcquireShared(p) \/ ReadOne(p) \/ ReadAgain(p) PROVE Out
  BY <1>0, <1>9 DEF StartStatus, AcquireShared, ReadOne, ReadAgain, Reading
<1>10. ASSUME Fail(p) \/ RestoreFails(p) PROVE Out
  BY <1>0, <1>10 DEF Fail, StartRollback, RestoreFails
<1> HIDE DEF Out
<1>11. Out \/ Fresh(p)'
  BY <1>1, <1>2, <1>3, <1>4, <1>5, <1>6, <1>7, <1>8, <1>9, <1>10
  DEF Act, Publishing, RollingBack, Recovering, Status, Failing, Ending
<1> QED
  BY <1>11 DEF Out, Fresh

LEMMA InHandStays ==
  ASSUME ~EditsBeforeReplace, Typed, InHand, [Next]_vars
  PROVE  InHand'
<1>1. ASSUME NEW p \in Procs, Act(p) PROVE InHand'
  <2>1. Local(p) /\ edits' = edits
    BY <1>1, StepIsLocal, OnlyUsersEdit
  <2>2. Fresh(p)'
    BY <1>1, LooksBeforeReplacing, NothingInHand
  <2> QED
    BY <2>1, <2>2, HandKept
<1>2. ASSUME NEW f \in Files, UserEdit(f) PROVE InHand'
  <2>1. /\ entry' = [entry EXCEPT ![Slot(f)] = Edited] /\ edits' = edits + 1
        /\ UNCHANGED <<pc, job, at>>
        /\ \A p \in Procs : pc[p] \in {"apply", "restore"} => Slot(job[p][at[p]].path) # Slot(f)
    BY <1>2 DEF UserEdit
  <2>2. Slot(f) \in Files /\ entry \in [Slots -> Images]
    BY PathImage DEF Typed, Slots, EntriesOK
  <2>3. \A g \in Files : Linked(g)' <=> Linked(g)
    BY <2>1, <2>2, TransactionAssumption DEF TransactionAssumption, Linked, Slots
  <2>4. ASSUME NEW p \in Procs, pc[p] \in {"apply", "restore"}, job[p][at[p]].path \in Files
        PROVE  Current(job[p][at[p]].path)' = Current(job[p][at[p]].path)
    <3> DEFINE path == job[p][at[p]].path
    <3>1. Slot(path) \in Files /\ Slot(path) # Slot(f)
      BY <2>1, <2>4, PathImage DEF Typed, Slots
    <3>2. Slot(path)' = Slot(path)
      BY <2>1, <2>3, <2>4 DEF Slot
    <3> QED
      BY <2>1, <2>2, <3>1, <3>2 DEF Current, Slots
  <2> QED
    BY <2>1, <2>4 DEF InHand, Fresh
<1>3. CASE UNCHANGED vars
  BY <1>3 DEF vars, InHand, Fresh, Current, Slot, Linked
<1> QED
  BY <1>1, <1>2, <1>3, NextIsAct

\* What a write to a path changes among the files is the file the path leads to.
LEMMA WrittenElsewhere ==
  ASSUME Typed, NEW path \in Files, NEW image, entry' = Written(path, image),
         NEW f \in Files, entry'[f] # entry[f]
  PROVE  Slot(path) = f
<1> DEFINE s == Slot(path)
           filled == [entry EXCEPT ![s] = image]
<1>1. s \in Files /\ Home[s] \in Links \cup {NoLink}
  BY PathImage, TransactionAssumption DEF TransactionAssumption, Typed, Slots
<1>2. entry \in [Slots -> Images] /\ f \in Slots /\ f \notin Links
  BY TransactionAssumption DEF TransactionAssumption, Typed, EntriesOK, Slots
<1>3. f # s => filled[f] = entry[f]
  BY <1>2
<1>4. filled \in [Slots -> Images \cup {image}]
  BY <1>2
<1> HIDE DEF s, filled
<1>5. \/ entry' = filled
      \/ Home[s] # NoLink /\ entry' = [filled EXCEPT ![Home[s]] = "directory"]
  BY DEF Written, s, filled
<1>6. entry'[f] = filled[f]
  BY <1>1, <1>2, <1>4, <1>5
<1> QED
  BY <1>3, <1>6 DEF s

LEMMA ReplacesWhatItLookedAt ==
  ASSUME Typed, InHand, NEW p \in Procs, Act(p), NEW f \in Files, entry'[f] # entry[f]
  PROVE  \E i \in DOMAIN receipt.changes :
           LET c == receipt.changes[i]
           IN Slot(c.path) = f /\ entry[f] \in {c.before, c.after}
<1> DEFINE c == job[p][at[p]]
<1>0. f \notin Links /\ entry \in [Slots -> Images] /\ f \in Slots
  BY TransactionAssumption DEF TransactionAssumption, Typed, EntriesOK, Slots
<1>1. ApplyFile(p) \/ RemoveDirectory(p) \/ ApplyLink(p) \/ Restore(p)
  <2>1. CASE \E update \in Updates : Plan(p, update)
    BY <2>1 DEF Plan
  <2>2. CASE Publishing(p)
    BY <2>2 DEF Publishing, Acquire, Busy, Refuse, Prepare, Verify, Publish, Finish
  <2>3. CASE RollingBack(p) \/ Recovering(p)
    BY <2>3 DEF RollingBack, Examine, RolledBack, Recovering, StartRecover, RecoverRefused,
                RecoverPrepared, RecoverPublished
  <2>4. CASE StartStatus(p) \/ Status(p)
    BY <2>4 DEF StartStatus, Status, AcquireShared, StatusPending, ReadOne, ReadAgain, Report
  <2>5. CASE Failing(p) \/ Crash(p)
    BY <2>5 DEF Failing, Fail, PrepareUnconfirmed, PublishUnconfirmed, FinishFails,
                RestoreFails, RollbackAborts, Crash
  <2> QED
    BY <2>1, <2>2, <2>3, <2>4, <2>5 DEF Act
<1>2. pc[p] \in {"apply", "restore"}
  BY <1>1 DEF ApplyFile, RemoveDirectory, ApplyLink, Restore
<1>3. /\ at[p] \in DOMAIN receipt.changes /\ receipt.changes[at[p]] = c
      /\ c.path \in Slots
  <2>1. receipt.changes = job[p] /\ at[p] # 0
    BY <1>2 DEF Typed, OwnReceipt, Placed
  <2>2. at[p] \in 1..Len(job[p]) /\ job[p] \in Seq(ChangeSet)
    BY <2>1 DEF Typed, ProcessesOK
  <2>3. c \in ChangeSet
    BY <2>2
  <2> QED
    BY <2>1, <2>2, <2>3, ChangeIsTyped
<1>4. c.path \in Files /\ Slot(c.path) = f
  <2>1. CASE ApplyFile(p)
    <3>1. c.path \in Files /\ (entry' = entry \/ entry' = Written(c.path, c.after))
      BY <2>1 DEF ApplyFile, Change
    <3> QED
      BY <3>1, WrittenElsewhere
  <2>2. CASE RemoveDirectory(p) \/ ApplyLink(p)
    <3>1. /\ c.path \in Links
          /\ \/ entry' = entry \/ entry' = [entry EXCEPT ![c.path] = Absent]
             \/ entry' = [entry EXCEPT ![c.path] = c.after]
      BY <2>2 DEF RemoveDirectory, ApplyLink, Change
    <3> QED
      BY <1>0, <3>1
  <2>3. CASE Restore(p)
    <3>1. \/ entry' = [entry EXCEPT ![c.path] = Absent] /\ c.before = "directory"
          \/ c.path \in Links /\ entry' = [entry EXCEPT ![c.path] = c.before]
          \/ c.path \notin Links /\ entry' = Written(c.path, c.before)
      BY <2>3 DEF Restore, Undo
    <3>2. c.before = "directory" => c.path \in Links
      BY <1>2, <1>3, ChangeInHand, ChangeIsTyped, TransactionAssumption
      DEF TransactionAssumption, Typed, Placed, FileImages, LinkImages, Absent, Edited, Slots
    <3>3. c.path \notin Links /\ entry' = Written(c.path, c.before)
      BY <1>0, <3>1, <3>2
    <3> QED
      BY <1>3, <3>3, WrittenElsewhere DEF Slots
  <2> QED
    BY <1>1, <2>1, <2>2, <2>3
<1>5. entry[f] \in {c.before, c.after}
  BY <1>2, <1>4 DEF InHand, Fresh, Current
<1> QED
  BY <1>3, <1>4, <1>5

\* As far as nobody writes a file between the last look at it and its replacement, no step of an
\* update, a rollback or a recovery replaces anything but an image its receipt records: what a
\* user wrote survives (verify_image, rollback_prepared).
THEOREM EditsAreKept == Spec /\ ~EditsBeforeReplace => EditsSurvive
<1>1. Init => InHand
  BY DEF Init, InHand, Fresh
<1>2. SUFFICES ASSUME ~EditsBeforeReplace PROVE Spec => EditsSurvive
  OBVIOUS
<1>3. Typed /\ InHand /\ [Next]_vars => Typed' /\ InHand'
  BY <1>2, TypedStays, InHandStays
<1>4. Typed /\ InHand /\ [Next]_vars =>
        [edits' = edits => \A f \in Files : entry'[f] # entry[f] =>
           \E i \in DOMAIN receipt.changes :
             LET c == receipt.changes[i]
             IN Slot(c.path) = f /\ entry[f] \in {c.before, c.after}]_vars
  <2> SUFFICES ASSUME Typed, InHand, [Next]_vars, edits' = edits,
                      NEW f \in Files, entry'[f] # entry[f]
               PROVE  \E i \in DOMAIN receipt.changes :
                        LET c == receipt.changes[i]
                        IN Slot(c.path) = f /\ entry[f] \in {c.before, c.after}
    OBVIOUS
  <2>1. CASE \E p \in Procs : Act(p)
    BY <2>1, ReplacesWhatItLookedAt
  <2>2. CASE \E g \in Files : UserEdit(g)
    <3>1. edits' = edits + 1 /\ edits \in Nat
      BY <2>2 DEF UserEdit, InHand
    <3> QED
      BY <3>1
  <2>3. CASE UNCHANGED vars
    BY <2>3 DEF vars
  <2> QED
    BY <2>1, <2>2, <2>3, NextIsAct
<1> QED
  BY <1>1, <1>3, <1>4, TypedInitially, PTL DEF Spec, EditsSurvive

-----------------------------------------------------------------------------
(* A step and the rollbacks of others                                      *)

\* What another process's rollback has met is not touched either.
LEMMA ConflictIsOwn ==
  ASSUME Typed, NEW p \in Procs, Act(p), NEW q \in Procs \ {p}
  PROVE  conflict'[q] = conflict[q]
<1> DEFINE Own == \E b : conflict' = [conflict EXCEPT ![p] = b]
<1>0. conflict = [r \in Procs |-> conflict[r]]
  BY DEF Typed, ProcessesOK
<1>1. ASSUME UNCHANGED conflict PROVE Own
  <2>1. conflict' = [conflict EXCEPT ![p] = conflict[p]]
    BY <1>0, <1>1
  <2> QED
    BY <2>1
<1>2. ASSUME StartRollback(p) \/ Advance(p) \/ End(p) PROVE Own
  BY <1>1, <1>2 DEF StartRollback, Advance, End
<1>3. ASSUME Examine(p) PROVE Own
  <2>1. \/ UNCHANGED conflict
        \/ conflict' = [conflict EXCEPT ![p] = conflict[p] \/ ~AtPreimage(Undo(p))]
    BY <1>3 DEF Examine
  <2> QED
    BY <1>1, <2>1, Zenon
<1>4. ASSUME RestoreFails(p) PROVE Own
  BY <1>4 DEF RestoreFails
<1>5. ASSUME \E update \in Updates : Plan(p, update) PROVE UNCHANGED conflict
  BY <1>5 DEF Plan
<1>6. ASSUME Publishing(p)
      PROVE  UNCHANGED conflict \/ StartRollback(p) \/ Advance(p) \/ End(p)
  BY <1>6 DEF Publishing, Acquire, Busy, Refuse, Prepare, Verify, ApplyFile, RemoveDirectory,
              ApplyLink, Publish, Finish
<1>7. ASSUME RollingBack(p) \/ Recovering(p)
      PROVE  UNCHANGED conflict \/ End(p) \/ Examine(p)
  BY <1>7 DEF RollingBack, Restore, RolledBack, Recovering, StartRecover, RecoverRefused,
              RecoverPrepared, RecoverPublished
<1>8. ASSUME StartStatus(p) \/ Status(p) PROVE UNCHANGED conflict \/ End(p)
  BY <1>8 DEF StartStatus, Status, AcquireShared, StatusPending, ReadOne, ReadAgain, Report
<1>9. ASSUME Failing(p) \/ Crash(p)
      PROVE  StartRollback(p) \/ End(p) \/ RestoreFails(p)
  BY <1>9 DEF Failing, Fail, PrepareUnconfirmed, PublishUnconfirmed, FinishFails, RollbackAborts,
              Crash
<1>10. Own
  <2> HIDE DEF Own
  <2> QED
    BY <1>1, <1>2, <1>3, <1>4, <1>5, <1>6, <1>7, <1>8, <1>9 DEF Act
<1> QED
  BY <1>0, <1>10

-----------------------------------------------------------------------------
(* An update and its undoing                                               *)

\* No older release has copied its package into a client's directory.
NothingCopied == \A l \in Links : Start[l] # "directory"

\* A directory is put back in two operations, the files in it after them.  It is, if no operation
\* can fail in between; and without copied packages there is none.
Recoverable == NothingCopied \/ MaxFailures = 0

\* A file of a copied package: its path leads elsewhere once a link has replaced the directory.
Homed(f) == f \in Files /\ Home[f] # NoLink

\* What validate_changes and the order of execute_transaction make of the recorded changes: they
\* are of different entries, and copied files go before their directory does.
Shaped(changes) ==
  /\ OneChangePerPath(changes)
  /\ FilesFirst(changes)
  /\ \A i \in DOMAIN changes :
       LET c == changes[i]
       IN /\ NothingCopied => c.before # "directory" /\ ~Homed(c.path)
          /\ Homed(c.path) =>
               /\ c.after = Absent
               /\ \E j \in DOMAIN changes :
                    changes[j].path = Home[c.path] /\ changes[j].before = "directory"
Shapes == Shaped(receipt.changes) /\ \A p \in Procs : Shaped(job[p])

\* Copied files lie in directories.
CopiesInDirectories ==
  /\ \A f \in Files : Homed(f) /\ entry[f] # Absent => entry[Home[f]] = "directory"
  /\ NothingCopied => \A l \in Links : entry[l] # "directory"

Counted == edits \in Nat /\ failures \in Nat

\* How far an entry is: a user's text, the image of the update, the one before, or between the two.
Overwritten(c) == c.path \in Files /\ entry[c.path] = Edited /\ edits # 0
Gap(c) == c.before = "directory" /\ entry[c.path] = Absent
Applied(c) == entry[c.path] = c.after \/ Overwritten(c)
PutBack(c) == entry[c.path] = c.before \/ Overwritten(c)

\* Nothing but edits sets a managed entry to an image its receipt does not record.
Accounted ==
  \A i \in DOMAIN receipt.changes :
    LET c == receipt.changes[i]
    IN /\ receipt.phase = "prepared" => PutBack(c) \/ Applied(c) \/ Gap(c)
       /\ receipt.phase = "published" => Applied(c)

\* What the position of the writer says about the entries before and behind it.
Working == {"verify", "apply", "publish", "rollback", "restore"}
Position(p) ==
  /\ pc[p] \in Working => receipt.phase = "prepared"
  /\ \A i \in DOMAIN receipt.changes :
       LET c == receipt.changes[i]
       IN /\ pc[p] \in {"verify", "apply"} =>
               /\ i > at[p] /\ c.path \in Links => entry[c.path] = c.before
               /\ i < at[p] => Applied(c)
          /\ pc[p] = "publish" => Applied(c)
          /\ pc[p] \in {"rollback", "restore"} /\ i > at[p] =>
               /\ MaxFailures = 0 /\ c.path \in Links => entry[c.path] = c.before
               /\ ~conflict[p] => PutBack(c)
          /\ pc[p] = "apply" /\ i = at[p] /\ c.path \in Links =>
               entry[c.path] = c.before \/ Gap(c)
          /\ pc[p] = "restore" /\ i = at[p] /\ c.path \in Links =>
               entry[c.path] = c.after \/ Gap(c)
          /\ pc[p] = "finish" /\ receipt.phase = "prepared" => PutBack(c)

IInv ==
  Typed /\ Counted /\ Shapes /\ CopiesInDirectories /\ Accounted /\ \A p \in Procs : Position(p)

LEMMA IInvInitially == Init => IInv
<1> SUFFICES ASSUME Init PROVE IInv
  OBVIOUS
<1>1. Typed
  BY TypedInitially
<1>2. Counted /\ Accounted /\ \A p \in Procs : Position(p)
  BY DEF Init, Counted, Accounted, Position, NoReceipt, Working
<1>3. Shapes
  BY DEF Init, Shapes, Shaped, NoReceipt, OneChangePerPath, FilesFirst
<1>4. CopiesInDirectories
  BY TransactionAssumption
  DEF TransactionAssumption, Init, CopiesInDirectories, Homed, NothingCopied
<1> QED
  BY <1>1, <1>2, <1>3, <1>4 DEF IInv

\* The recorded changes are changes of entries there are.
LEMMA RecordedIsTyped ==
  ASSUME Typed, NEW i \in DOMAIN receipt.changes
  PROVE  receipt.changes[i] \in ChangeSet /\ receipt.changes[i].path \in Slots /\ i \in Nat
<1>1. receipt.changes \in Seq(ChangeSet)
  BY DEF Typed, ReceiptOK
<1>2. receipt.changes[i] \in ChangeSet /\ i \in Nat
  BY <1>1
<1> QED
  BY <1>2, ChangeIsTyped

\* Only links and the directories in their place have a "directory" before them.
LEMMA DirectoriesAreLinks ==
  ASSUME NEW c \in ChangeSet, c.before = "directory" \/ c.path \notin Files
  PROVE  c.path \in Links /\ c.path \notin Files /\ c.after \in {Absent, "link"}
BY ChangeIsTyped, TransactionAssumption
DEF TransactionAssumption, ChangeSet, FileImages, LinkImages, Absent, Edited, Slots

\* A copied file is only planned, verified, removed or put back while its directory is there: its
\* path leads to itself.
LEMMA LeadsToItself ==
  ASSUME EntriesOK, NEW path \in Slots, Homed(path) => entry[Home[path]] = "directory"
  PROVE  Slot(path) = path /\ Current(path) = entry[path]
BY TransactionAssumption DEF TransactionAssumption, Slot, Current, Linked, Homed, Slots

LEMMA WorksInPlace ==
  ASSUME IInv, Recoverable, NEW p \in Procs,
         pc[p] \in {"verify", "apply", "rollback", "restore"}, at[p] # 0
  PROVE  LET c == job[p][at[p]]
         IN /\ at[p] \in DOMAIN receipt.changes /\ receipt.changes[at[p]] = c
            /\ c \in ChangeSet /\ c.path \in Slots
            /\ Homed(c.path) => entry[Home[c.path]] = "directory"
            /\ Slot(c.path) = c.path /\ Current(c.path) = entry[c.path]
<1> DEFINE c == job[p][at[p]]
<1>1. receipt.changes = job[p] /\ at[p] \in 1..Len(job[p]) /\ job[p] \in Seq(ChangeSet)
  BY DEF IInv, Typed, OwnReceipt, ProcessesOK
<1>2. at[p] \in DOMAIN receipt.changes /\ receipt.changes[at[p]] = c
  BY <1>1
<1>3. c \in ChangeSet /\ c.path \in Slots
  BY <1>2, RecordedIsTyped DEF IInv
<1>4. ASSUME Homed(c.path) PROVE entry[Home[c.path]] = "directory"
  <2>1. PICK j \in DOMAIN receipt.changes :
          receipt.changes[j].path = Home[c.path] /\ receipt.changes[j].before = "directory"
    BY <1>2, <1>4 DEF IInv, Shapes, Shaped
  <2>2. receipt.changes[j] \in ChangeSet /\ j \in Nat
    BY RecordedIsTyped DEF IInv
  <2>3. receipt.changes[j].path \in Links /\ receipt.changes[j].path \notin Files
    BY <2>1, <2>2, DirectoriesAreLinks
  <2>4. j > at[p]
    <3>1. FilesFirst(receipt.changes)
      BY DEF IInv, Shapes, Shaped
    <3>2. c.path \in Files /\ c.path \notin Links
      BY <1>4, TransactionAssumption DEF TransactionAssumption, Homed
    <3>3. ~(j < at[p]) /\ j # at[p]
      BY <1>2, <2>3, <3>1, <3>2 DEF FilesFirst
    <3> QED
      BY <1>1, <2>2, <3>3
  <2>5. MaxFailures = 0
    BY <1>2, <1>4 DEF Recoverable, IInv, Shapes, Shaped
  <2>6. Position(p)
    BY DEF IInv
  <2>7. entry[receipt.changes[j].path] = receipt.changes[j].before
    BY <2>3, <2>4, <2>5, <2>6 DEF Position
  <2> QED
    BY <2>1, <2>7
<1>5. Slot(c.path) = c.path /\ Current(c.path) = entry[c.path]
  BY <1>3, <1>4, LeadsToItself DEF IInv, Typed
<1> QED
  BY <1>2, <1>3, <1>4, <1>5

\* A copied file that is in a plan lies in a directory that is in the plan.
LEMMA PlanIsShaped ==
  ASSUME IInv, NEW update \in Updates
  PROVE  Shaped(Planned(update))
<1> DEFINE Offers == [path : Files, after : Texts \cup {Absent}]
                       \cup [path : Links, after : {Absent, "link"}]
           changes == update.changes
           needed == {i \in DOMAIN changes :
                        LET c == changes[i]
                        IN /\ Current(c.path) # c.after
                           /\ ~(c.path \in Files /\ Linked(c.path))
                           /\ c.path \in Owned => Current(c.path) # Edited}
           chosen == Pick(changes, needed)
           plan == Planned(update)
<1>1. /\ changes \in Seq(Offers)
      /\ OneChangePerPath(changes) /\ FilesFirst(changes) /\ CopiesAreReplaced(changes)
  BY TransactionAssumption DEF TransactionAssumption
<1>2. needed \in SUBSET DOMAIN changes
  OBVIOUS
<1> HIDE DEF Offers, needed
<1>3. /\ chosen \in Seq(Offers)
      /\ \A k \in DOMAIN chosen : \E i \in needed : chosen[k] = changes[i]
  BY <1>1, <1>2, PickProperties
<1>4. \A i \in needed : \E k \in DOMAIN chosen : chosen[k] = changes[i]
  BY <1>1, <1>2, PickKeepsAll
<1>5. \A k, l \in DOMAIN chosen :
        k < l => \E i, j \in needed : i < j /\ chosen[k] = changes[i] /\ chosen[l] = changes[j]
  BY <1>1, <1>2, PickInOrder
<1>6. plan = [k \in DOMAIN chosen |->
                [path |-> chosen[k].path, before |-> Current(chosen[k].path),
                 after |-> chosen[k].after]]
  BY DEF Planned, needed
<1> HIDE DEF changes, chosen, plan
<1>7. /\ DOMAIN plan = DOMAIN chosen /\ DOMAIN chosen \subseteq Nat
      /\ \A k \in DOMAIN plan : /\ plan[k].path = chosen[k].path
                               /\ plan[k].before = Current(chosen[k].path)
                               /\ plan[k].after = chosen[k].after
  BY <1>3, <1>6
<1>8. OneChangePerPath(plan)
  <2> SUFFICES ASSUME NEW k \in DOMAIN plan, NEW l \in DOMAIN plan, k < l
               PROVE  plan[k].path # plan[l].path
    BY <1>7 DEF OneChangePerPath
  <2>1. PICK i, j \in needed : i < j /\ chosen[k] = changes[i] /\ chosen[l] = changes[j]
    BY <1>5, <1>7
  <2>2. i \in DOMAIN changes /\ j \in DOMAIN changes /\ i # j
    BY <1>1, <1>2, <2>1
  <2> QED
    BY <1>1, <1>7, <2>1, <2>2 DEF OneChangePerPath
<1>9. FilesFirst(plan)
  <2> SUFFICES ASSUME NEW k \in DOMAIN plan, NEW l \in DOMAIN plan, k < l,
                      plan[k].path \in Links
               PROVE  plan[l].path \in Links
    BY DEF FilesFirst
  <2>1. PICK i, j \in needed : i < j /\ chosen[k] = changes[i] /\ chosen[l] = changes[j]
    BY <1>5, <1>7
  <2> QED
    BY <1>1, <1>2, <1>7, <2>1 DEF FilesFirst
<1>10. ASSUME NEW k \in DOMAIN plan, Homed(plan[k].path)
       PROVE  /\ ~NothingCopied /\ plan[k].after = Absent
              /\ \E l \in DOMAIN plan :
                   plan[l].path = Home[plan[k].path] /\ plan[l].before = "directory"
  <2> DEFINE f == plan[k].path
             home == Home[f]
  <2>1. PICK i \in needed : chosen[k] = changes[i]
    BY <1>3, <1>7
  <2>2. i \in DOMAIN changes /\ changes[i].path = f /\ changes[i].after = plan[k].after
    BY <1>2, <1>7, <2>1
  <2>3. PICK j \in DOMAIN changes : changes[j] = [path |-> home, after |-> "link"]
    BY <1>1, <1>10, <2>2 DEF CopiesAreReplaced, Homed
  <2>4. plan[k].after = Absent
    BY <1>1, <1>10, <2>2 DEF CopiesAreReplaced, Homed
  <2>5. f \in Files /\ home \in Links /\ home \notin Files
    BY <1>10, TransactionAssumption DEF TransactionAssumption, Homed
  <2>6. ~Linked(f) /\ Current(f) # Absent
    BY <2>1, <2>2, <2>4, <2>5 DEF needed
  <2>7. entry[f] # Absent
    BY <2>5, <2>6 DEF Current, Slot
  <2>8. entry[home] = "directory"
    BY <1>10, <2>5, <2>7 DEF IInv, CopiesInDirectories
  <2>9. Current(home) = "directory" /\ home \notin Owned
    BY <2>5, <2>8, TransactionAssumption DEF TransactionAssumption, Current, Slot
  <2>10. j \in needed
    BY <2>3, <2>5, <2>9 DEF needed
  <2>11. PICK l \in DOMAIN chosen : chosen[l] = changes[j]
    BY <1>4, <2>10
  <2>12. plan[l].path = home /\ plan[l].before = "directory" /\ l \in DOMAIN plan
    BY <1>7, <2>3, <2>9, <2>11
  <2>13. ~NothingCopied
    BY <2>5, <2>8 DEF IInv, CopiesInDirectories
  <2> QED
    BY <2>4, <2>12, <2>13
<1>11. ASSUME NEW k \in DOMAIN plan, NothingCopied PROVE plan[k].before # "directory"
  <2>1. plan \in Seq(ChangeSet)
    BY PlanIsTyped DEF IInv, Typed, plan
  <2>2. plan[k] \in ChangeSet
    BY <2>1
  <2> SUFFICES ASSUME plan[k].before = "directory" PROVE FALSE
    OBVIOUS
  <2>3. plan[k].path \in Links /\ plan[k].path \notin Files
    BY <2>2, DirectoriesAreLinks
  <2>4. entry[plan[k].path] = "directory"
    BY <1>7, <2>3 DEF Current, Slot
  <2> QED
    BY <1>11, <2>3, <2>4 DEF IInv, CopiesInDirectories
<1>12. Shaped(plan)
  BY <1>8, <1>9, <1>10, <1>11 DEF Shaped
<1> QED
  BY <1>12 DEF plan

-----------------------------------------------------------------------------
(* What a step does to the receipt, the entries and the place of its process *)

Still == UNCHANGED <<entry, receipt>>
Moved(p, place, position) == pc'[p] = place /\ at'[p] = position

\* It leads to a plan or the lock, or to a place without a job.
Jobless == {"idle", "recover", "wait", "look", "read"}
Aside(p) ==
  /\ Still
  /\ \/ /\ \E update \in Updates : Plan(p, update) /\ job'[p] = Planned(update)
        /\ pc'[p] = "planned"
     \/ pc[p] = "planned" /\ pc'[p] = "prepare" /\ job'[p] = job[p]
     \/ pc'[p] \in Jobless /\ (job'[p] = << >> \/ (pc[p] \in Jobless /\ job'[p] = job[p]))

Prepares(p) ==
  /\ entry' = entry /\ ~Pending /\ pc[p] = "prepare"
  /\ \A i \in DOMAIN job[p] : entry[job[p][i].path] = job[p][i].before
  /\ receipt' = [phase |-> "prepared", changes |-> job[p]]
  /\ \/ Moved(p, "verify", 1) /\ job'[p] = job[p]
     \/ pc'[p] = "idle" /\ job'[p] = << >>

\* The looks before a file is replaced or put back.
Looks(p) ==
  LET c == job[p][at[p]]
  IN /\ Still /\ job'[p] = job[p] /\ at[p] # 0 /\ conflict'[p] = conflict[p]
     /\ \/ pc[p] = "verify" /\ Moved(p, "apply", at[p]) /\ entry[c.path] = c.before
        \/ pc[p] = "rollback" /\ Moved(p, "restore", at[p]) /\ (entry[c.path] = c.after \/ Gap(c))

Writes(p, image) ==
  /\ entry' = [entry EXCEPT ![job[p][at[p]].path] = image]
  /\ receipt' = receipt /\ job'[p] = job[p] /\ at[p] # 0 /\ conflict'[p] = conflict[p]

Replaces(p) ==
  LET c == job[p][at[p]]
  IN /\ pc[p] = "apply" /\ Writes(p, c.after)
     /\ c.path \in Links => entry[c.path] # "directory"
     /\ \/ at[p] < Len(job[p]) /\ Moved(p, "verify", at[p] + 1)
        \/ at[p] = Len(job[p]) /\ Moved(p, "publish", at[p])

Restores(p) ==
  LET c == job[p][at[p]]
  IN /\ pc[p] = "restore" /\ Writes(p, c.before) /\ Moved(p, "rollback", at[p] - 1)

\* The first of the two operations on a directory.
Empties(p) ==
  LET c == job[p][at[p]]
  IN /\ pc[p] \in {"apply", "restore"} /\ Writes(p, Absent) /\ Moved(p, pc[p], at[p])
     /\ c.path \in Links /\ c.before = "directory"
     /\ entry[c.path] = "directory" => Copied(c.path) = {}

GivesUp(p) ==
  /\ Still /\ pc[p] \in {"verify", "apply", "publish"}
  /\ Moved(p, "rollback", Len(job[p])) /\ job'[p] = job[p] /\ ~conflict'[p]

\* The rollback leaves a change as it is: it is undone, or cannot be.
Passes(p) ==
  LET c == job[p][at[p]]
  IN /\ Still /\ pc[p] \in {"rollback", "restore"} /\ at[p] # 0
     /\ Moved(p, "rollback", at[p] - 1) /\ job'[p] = job[p]
     /\ \/ entry[c.path] = c.before /\ conflict'[p] = conflict[p]
        \/ conflict'[p] /\ (MaxFailures = 0 => ~(entry[c.path] = c.after \/ Gap(c)))

Publishes(p) ==
  /\ entry' = entry /\ pc[p] = "publish"
  /\ receipt' = [phase |-> "published", changes |-> receipt.changes]
  /\ (pc'[p] = "finish" /\ job'[p] = job[p]) \/ (pc'[p] = "idle" /\ job'[p] = << >>)

\* The rollback is complete.
Completes(p) ==
  Still /\ pc[p] = "rollback" /\ at[p] = 0 /\ ~conflict[p] /\ pc'[p] = "finish" /\ job'[p] = job[p]

Finishes(p) ==
  entry' = entry /\ pc[p] = "finish" /\ receipt' = NoReceipt /\ pc'[p] = "idle" /\ job'[p] = << >>

TakesOver(p) ==
  /\ Still /\ pc[p] = "recover" /\ LockFree
  /\ \/ /\ receipt.phase = "prepared" /\ job'[p] = receipt.changes
        /\ Moved(p, "rollback", Len(receipt.changes))
     \/ receipt.phase = "published" /\ job'[p] = job[p] /\ pc'[p] = "finish"

Effect(p) ==
  \/ Aside(p) \/ Prepares(p) \/ Looks(p) \/ Replaces(p) \/ Restores(p) \/ Empties(p)
  \/ GivesUp(p) \/ Passes(p) \/ Publishes(p) \/ Completes(p) \/ Finishes(p) \/ TakesOver(p)

\* What p holds is what the writer's functions say of it.
LEMMA Domains ==
  ASSUME Typed
  PROVE  /\ pc = [q \in Procs |-> pc[q]] /\ at = [q \in Procs |-> at[q]]
         /\ job = [q \in Procs |-> job[q]] /\ conflict = [q \in Procs |-> conflict[q]]
         /\ entry = [s \in Slots |-> entry[s]]
         /\ \A q \in Procs : Len(job[q]) \in Nat /\ at[q] \in Nat /\ at[q] <= Len(job[q])
         /\ \A q \in Procs : conflict[q] \in BOOLEAN
BY DEF Typed, ProcessesOK, EntriesOK

LEMMA GivesUpEffect ==
  ASSUME Typed, NEW p \in Procs, pc[p] \in {"verify", "apply", "publish"}, StartRollback(p),
         UNCHANGED <<entry, receipt, job>>
  PROVE  GivesUp(p)
BY Domains DEF GivesUp, StartRollback, Still, Moved

LEMMA EndEffect ==
  ASSUME Typed, NEW p \in Procs, End(p)
  PROVE  pc'[p] = "idle" /\ job'[p] = << >>
BY Domains DEF End

LEMMA PrepareEffect ==
  ASSUME IInv, NEW p \in Procs, Prepare(p) \/ PrepareUnconfirmed(p)
  PROVE  Prepares(p)
<1>0. Typed
  BY DEF IInv
<1>1. pc[p] = "prepare" /\ ~Pending /\ Intact(p) /\ UNCHANGED entry
      /\ receipt' = [phase |-> "prepared", changes |-> job[p]]
  BY DEF Prepare, PrepareUnconfirmed, Blocked
<1>2. \/ Moved(p, "verify", 1) /\ job'[p] = job[p]
      \/ pc'[p] = "idle" /\ job'[p] = << >>
  <2>1. CASE Prepare(p)
    BY <1>0, <2>1, Domains DEF Prepare, Moved
  <2>2. CASE PrepareUnconfirmed(p)
    BY <1>0, <2>2, EndEffect DEF PrepareUnconfirmed
  <2> QED
    BY <2>1, <2>2
<1>3. ASSUME NEW i \in DOMAIN job[p] PROVE entry[job[p][i].path] = job[p][i].before
  <2> DEFINE c == job[p][i]
  <2>1. job[p] \in Seq(ChangeSet) /\ Shaped(job[p])
    BY DEF IInv, Typed, Shapes, ProcessesOK
  <2>2. c \in ChangeSet /\ c.path \in Slots
    BY <2>1, ChangeIsTyped
  <2>3. Current(c.path) = c.before
    BY <1>1 DEF Intact
  <2>4. ASSUME Homed(c.path) PROVE entry[Home[c.path]] = "directory"
    <3>1. PICK j \in DOMAIN job[p] :
            job[p][j].path = Home[c.path] /\ job[p][j].before = "directory"
      BY <2>1, <2>4 DEF Shaped
    <3>2. job[p][j] \in ChangeSet
      BY <2>1
    <3>3. job[p][j].path \notin Files /\ Current(job[p][j].path) = "directory"
      BY <1>1, <3>1, <3>2, DirectoriesAreLinks DEF Intact
    <3> QED
      BY <3>1, <3>3 DEF Current, Slot
  <2> QED
    BY <2>2, <2>3, <2>4, LeadsToItself DEF IInv, Typed
<1> QED
  BY <1>1, <1>2, <1>3 DEF Prepares

LEMMA LookEffect ==
  ASSUME IInv, Recoverable, NEW p \in Procs, Verify(p) \/ Examine(p)
  PROVE  Looks(p) \/ GivesUp(p) \/ Passes(p)
<1> DEFINE c == job[p][at[p]]
<1>0. Typed
  BY DEF IInv
<1>1. /\ pc[p] \in {"verify", "rollback"} /\ at[p] # 0 /\ UNCHANGED <<entry, receipt, job>>
  <2>1. CASE Verify(p)
    BY <1>0, <2>1 DEF Verify, Typed, Placed
  <2>2. CASE Examine(p)
    BY <1>0, <2>2, Domains DEF Examine
  <2> QED
    BY <2>1, <2>2
<1>2. Current(c.path) = entry[c.path]
  BY <1>1, WorksInPlace
<1>3. CASE Verify(p)
  <2>1. CASE StartRollback(p)
    BY <1>0, <1>1, <1>3, <2>1, GivesUpEffect DEF Verify
  <2>2. CASE ~StartRollback(p)
    <3>1. /\ pc[p] = "verify" /\ Current(c.path) = c.before
          /\ pc' = [pc EXCEPT ![p] = "apply"] /\ UNCHANGED <<at, conflict>>
      BY <1>3, <2>2 DEF Verify, Change
    <3> QED
      BY <1>0, <1>1, <1>2, <3>1, Domains DEF Looks, Still, Moved
  <2> QED
    BY <2>1, <2>2
<1>4. CASE Examine(p)
  <2> DEFINE kept == entry[c.path] = c.before
             restorable == entry[c.path] = c.after \/ Gap(c)
  <2>1. (AtPreimage(c) <=> kept) /\ (Restorable(c) <=> restorable)
    BY <1>2 DEF AtPreimage, Restorable, Between, Gap
  <2>2. CASE /\ ~AtPreimage(c) /\ Restorable(c)
             /\ pc' = [pc EXCEPT ![p] = "restore"] /\ UNCHANGED <<at, conflict>>
    <3>1. pc[p] = "rollback"
      BY <1>4 DEF Examine
    <3> QED
      BY <1>0, <1>1, <2>1, <2>2, <3>1, Domains DEF Looks, Still, Moved
  <2>3. CASE /\ AtPreimage(c) \/ ~Restorable(c)
             /\ conflict' = [conflict EXCEPT ![p] = conflict[p] \/ ~AtPreimage(c)]
             /\ at' = [at EXCEPT ![p] = at[p] - 1] /\ UNCHANGED pc
    <3>1. pc[p] = "rollback" /\ UNCHANGED pc
      BY <1>4, <2>3 DEF Examine
    <3>2. at'[p] = at[p] - 1
      BY <1>0, <2>3, Domains
    <3>3. conflict'[p] = (conflict[p] \/ ~AtPreimage(c))
      <4>1. conflict' = [conflict EXCEPT ![p] = conflict[p] \/ ~AtPreimage(c)]
        BY <2>3
      <4>2. conflict = [q \in Procs |-> conflict[q]]
        BY <1>0, Domains
      <4> HIDE DEF c
      <4> QED
        BY <4>1, <4>2, Zenon
    <3>4. \/ kept /\ conflict'[p] = conflict[p]
          \/ conflict'[p] /\ ~restorable
      <4>1. conflict[p] \in BOOLEAN
        BY <1>0, Domains
      <4>2. CASE AtPreimage(c)
        BY <2>1, <3>3, <4>1, <4>2
      <4>3. CASE ~AtPreimage(c)
        BY <2>1, <2>3, <3>3, <4>3
      <4> QED
        BY <4>2, <4>3
    <3> QED
      BY <1>1, <3>1, <3>2, <3>4 DEF Passes, Still, Moved
  <2> QED
    BY <1>4, <2>2, <2>3 DEF Examine, Undo
<1> QED
  BY <1>3, <1>4

\* Where a path leads to itself, and its directory is there, a write is a write to it alone.
LEMMA WritesInPlace ==
  ASSUME NEW path \in Files, NEW image, Slot(path) = path,
         Homed(path) => entry[Home[path]] = "directory"
  PROVE  Written(path, image) = [entry EXCEPT ![path] = image]
BY DEF Written, Homed, Absent

LEMMA ApplyEffect ==
  ASSUME IInv, Recoverable, NEW p \in Procs,
         ApplyFile(p) \/ RemoveDirectory(p) \/ ApplyLink(p)
  PROVE  Replaces(p) \/ Empties(p) \/ GivesUp(p)
<1> DEFINE c == job[p][at[p]]
<1>0. Typed
  BY DEF IInv
<1>1. /\ pc[p] = "apply" /\ UNCHANGED <<receipt, job>>
      /\ c.path \in Files \/ c.path \in Links
  BY DEF ApplyFile, RemoveDirectory, ApplyLink, Change
<1>2. at[p] # 0
  BY <1>0, <1>1 DEF Typed, Placed
<1>3. /\ at[p] \in DOMAIN receipt.changes /\ receipt.changes[at[p]] = c
      /\ c \in ChangeSet /\ Slot(c.path) = c.path
      /\ Homed(c.path) => entry[Home[c.path]] = "directory"
  BY <1>1, <1>2, WorksInPlace
<1>4. CASE UNCHANGED entry /\ StartRollback(p)
  BY <1>0, <1>1, <1>4, GivesUpEffect
<1>5. ASSUME entry' = [entry EXCEPT ![c.path] = c.after], Advance(p),
             c.path \in Links => entry[c.path] # "directory"
      PROVE  Replaces(p)
  <2>1. conflict'[p] = conflict[p]
    BY <1>5 DEF Advance
  <2>2. \/ at[p] < Len(job[p]) /\ Moved(p, "verify", at[p] + 1)
        \/ at[p] = Len(job[p]) /\ Moved(p, "publish", at[p])
    BY <1>0, <1>5, Domains DEF Advance, More, Moved
  <2> QED
    BY <1>1, <1>2, <1>5, <2>1, <2>2 DEF Replaces, Writes
<1>6. CASE ApplyFile(p)
  <2>1. c.path \in Files /\ c.path \notin Links
    BY <1>6, TransactionAssumption DEF TransactionAssumption, ApplyFile, Change
  <2>2. \/ UNCHANGED entry /\ StartRollback(p)
        \/ entry' = Written(c.path, c.after) /\ Advance(p)
    BY <1>6 DEF ApplyFile, Change
  <2>3. Written(c.path, c.after) = [entry EXCEPT ![c.path] = c.after]
    BY <1>3, <2>1, WritesInPlace
  <2> QED
    BY <1>4, <1>5, <2>1, <2>2, <2>3
<1>7. CASE RemoveDirectory(p)
  <2>1. \/ UNCHANGED entry /\ StartRollback(p)
        \/ /\ entry' = [entry EXCEPT ![c.path] = Absent] /\ UNCHANGED <<pc, at, conflict>>
           /\ Copied(c.path) = {}
    BY <1>7 DEF RemoveDirectory, Change
  <2>2. c.path \in Links /\ entry[c.path] = "directory"
    BY <1>7 DEF RemoveDirectory, Change
  <2>3. c.before = "directory"
    <3>1. Position(p)
      BY DEF IInv
    <3>2. entry[c.path] = c.before \/ Gap(c)
      BY <1>1, <1>3, <2>2, <3>1 DEF Position
    <3> QED
      BY <2>2, <3>2 DEF Gap, Absent
  <2> QED
    BY <1>1, <1>2, <1>4, <2>1, <2>2, <2>3 DEF Empties, Writes, Moved
<1>8. CASE ApplyLink(p)
  BY <1>5, <1>8 DEF ApplyLink, Change
<1> QED
  BY <1>6, <1>7, <1>8

LEMMA RestoreEffect ==
  ASSUME IInv, Recoverable, NEW p \in Procs, Restore(p)
  PROVE  Restores(p) \/ Empties(p)
<1> DEFINE c == job[p][at[p]]
           half == c.before = "directory" /\ entry[c.path] = "link"
<1>0. Typed
  BY DEF IInv
<1>1. pc[p] = "restore" /\ UNCHANGED <<receipt, job, conflict>>
  BY DEF Restore
<1>2. at[p] # 0
  BY <1>0, <1>1 DEF Typed, Placed
<1>3. /\ c \in ChangeSet /\ c.path \in Slots /\ Slot(c.path) = c.path
      /\ Homed(c.path) => entry[Home[c.path]] = "directory"
  BY <1>1, <1>2, WorksInPlace
<1>4. CASE /\ half /\ entry' = [entry EXCEPT ![c.path] = Absent] /\ UNCHANGED <<pc, at>>
  <2>1. c.path \in Links
    BY <1>3, <1>4, DirectoriesAreLinks
  <2> QED
    BY <1>1, <1>2, <1>4, <2>1 DEF Empties, Writes, Moved
<1>5. CASE /\ entry' = IF c.path \in Links THEN [entry EXCEPT ![c.path] = c.before]
                                            ELSE Written(c.path, c.before)
           /\ at' = [at EXCEPT ![p] = at[p] - 1] /\ pc' = [pc EXCEPT ![p] = "rollback"]
  <2>1. entry' = [entry EXCEPT ![c.path] = c.before]
    BY <1>3, <1>5, WritesInPlace DEF Slots
  <2>2. Moved(p, "rollback", at[p] - 1)
    BY <1>0, <1>5, Domains DEF Moved
  <2> QED
    BY <1>1, <1>2, <2>1, <2>2 DEF Restores, Writes
<1> QED
  BY <1>4, <1>5 DEF Restore, Undo

LEMMA RestoreFailsEffect ==
  ASSUME IInv, NEW p \in Procs, RestoreFails(p)
  PROVE  Passes(p)
<1>1. Typed /\ failures \in Nat /\ MaxFailures \in Nat
  BY TransactionAssumption DEF TransactionAssumption, IInv, Counted
<1>2. at[p] # 0 /\ MaxFailures # 0
  BY <1>1 DEF RestoreFails, Typed, Placed
<1> QED
  BY <1>1, <1>2, Domains DEF RestoreFails, Passes, Still, Moved

LEMMA RecoveryEffect ==
  ASSUME IInv, NEW p \in Procs, Recovering(p) \/ RolledBack(p)
  PROVE  Effect(p)
<1>0. Typed
  BY DEF IInv
<1>1. CASE StartRecover(p)
  BY <1>0, <1>1, Domains DEF StartRecover, Effect, Aside, Still, Jobless
<1>2. CASE RecoverRefused(p)
  BY <1>0, <1>2, EndEffect DEF RecoverRefused, Effect, Aside, Still, Jobless
<1>3. CASE RecoverPrepared(p)
  BY <1>0, <1>3, Domains DEF RecoverPrepared, Effect, TakesOver, Still, Moved
<1>4. CASE RecoverPublished(p)
  <2>1. /\ Still /\ pc[p] = "recover" /\ LockFree /\ receipt.phase = "published"
        /\ End(p) \/ (pc' = [pc EXCEPT ![p] = "finish"] /\ UNCHANGED job)
    BY <1>4 DEF RecoverPublished, Still
  <2>2. CASE End(p)
    BY <1>0, <2>1, <2>2, EndEffect DEF Effect, Aside, Still, Jobless
  <2>3. CASE pc' = [pc EXCEPT ![p] = "finish"] /\ UNCHANGED job
    BY <1>0, <2>1, <2>3, Domains DEF Effect, TakesOver
  <2> QED
    BY <2>1, <2>2, <2>3
<1>5. CASE RolledBack(p)
  <2>1. /\ Still /\ pc[p] = "rollback" /\ at[p] = 0
        /\ End(p) \/ (~conflict[p] /\ pc' = [pc EXCEPT ![p] = "finish"] /\ UNCHANGED job)
    BY <1>5 DEF RolledBack, Still, Clean
  <2>2. CASE End(p)
    BY <1>0, <2>1, <2>2, EndEffect DEF Effect, Aside, Still, Jobless
  <2>3. CASE ~conflict[p] /\ pc' = [pc EXCEPT ![p] = "finish"] /\ UNCHANGED job
    BY <1>0, <2>1, <2>3, Domains DEF Effect, Completes
  <2> QED
    BY <2>1, <2>2, <2>3
<1> QED
  BY <1>1, <1>2, <1>3, <1>4, <1>5 DEF Recovering

LEMMA StatusEffect ==
  ASSUME IInv, NEW p \in Procs, StartStatus(p) \/ Status(p)
  PROVE  Aside(p)
<1>0. Typed
  BY DEF IInv
<1>1. CASE StartStatus(p) \/ AcquireShared(p) \/ ReadAgain(p)
  BY <1>0, <1>1, Domains DEF StartStatus, AcquireShared, ReadAgain, Aside, Still, Jobless
<1>2. CASE StatusPending(p) \/ Report(p)
  BY <1>0, <1>2, EndEffect DEF StatusPending, Report, Aside, Still, Jobless
<1>3. CASE ReadOne(p)
  BY <1>0, <1>3, Domains DEF ReadOne, Reading, Aside, Still, Jobless
<1> QED
  BY <1>1, <1>2, <1>3 DEF Status

LEMMA OtherEffects ==
  ASSUME IInv, NEW p \in Procs
  PROVE  /\ (\E update \in Updates : Plan(p, update)) => Aside(p)
         /\ Acquire(p) \/ Busy(p) \/ Refuse(p) => Aside(p)
         /\ Publish(p) \/ PublishUnconfirmed(p) => Publishes(p)
         /\ Finish(p) => Finishes(p)
         /\ FinishFails(p) \/ RollbackAborts(p) \/ Crash(p) => Aside(p)
         /\ Fail(p) => GivesUp(p)
<1>0. Typed
  BY DEF IInv
<1>1. ASSUME NEW update \in Updates, Plan(p, update) PROVE Aside(p)
  BY <1>0, <1>1, Domains DEF Plan, Aside, Still, Jobless
<1>2. ASSUME Acquire(p) PROVE Aside(p)
  BY <1>0, <1>2, Domains DEF Acquire, Aside, Still, Jobless
<1>3. ASSUME Busy(p) \/ Refuse(p) \/ FinishFails(p) \/ RollbackAborts(p) \/ Crash(p)
      PROVE  Aside(p)
  <2>1. End(p) /\ Still
    BY <1>3 DEF Busy, Refuse, FinishFails, RollbackAborts, Crash, Still
  <2> QED
    BY <1>0, <2>1, EndEffect DEF Aside, Jobless
<1>4. ASSUME Publish(p) \/ PublishUnconfirmed(p) PROVE Publishes(p)
  <2>1. entry' = entry /\ pc[p] = "publish" /\ receipt' = [receipt EXCEPT !.phase = "published"]
    BY <1>4 DEF Publish, PublishUnconfirmed
  <2>2. receipt' = [phase |-> "published", changes |-> receipt.changes]
    BY <1>0, <2>1 DEF Typed, ReceiptOK
  <2>3. (pc'[p] = "finish" /\ job'[p] = job[p]) \/ (pc'[p] = "idle" /\ job'[p] = << >>)
    <3>1. CASE Publish(p)
      BY <1>0, <3>1, Domains DEF Publish
    <3>2. CASE PublishUnconfirmed(p)
      BY <1>0, <3>2, EndEffect DEF PublishUnconfirmed
    <3> QED
      BY <1>4, <3>1, <3>2
  <2> QED
    BY <2>1, <2>2, <2>3 DEF Publishes
<1>5. ASSUME Finish(p) PROVE Finishes(p)
  BY <1>0, <1>5, EndEffect DEF Finish, Finishes
<1>6. ASSUME Fail(p) PROVE GivesUp(p)
  <2>1. /\ pc[p] \in {"verify", "apply", "publish"} /\ StartRollback(p)
        /\ UNCHANGED <<entry, receipt, job>>
    BY <1>6 DEF Fail
  <2> QED
    BY <1>0, <2>1, GivesUpEffect
<1> QED
  BY <1>1, <1>2, <1>3, <1>4, <1>5, <1>6

LEMMA Effects ==
  ASSUME IInv, Recoverable, NEW p \in Procs, Act(p)
  PROVE  Effect(p)
<1>1. CASE \E update \in Updates : Plan(p, update)
  BY <1>1, OtherEffects DEF Effect
<1>2. CASE Publishing(p)
  BY <1>2, OtherEffects, PrepareEffect, LookEffect, ApplyEffect DEF Publishing, Effect
<1>3. CASE RollingBack(p) \/ Recovering(p)
  BY <1>3, LookEffect, RestoreEffect, RecoveryEffect DEF RollingBack, Effect
<1>4. CASE StartStatus(p) \/ Status(p)
  BY <1>4, StatusEffect DEF Effect
<1>5. CASE Failing(p) \/ Crash(p)
  BY <1>5, OtherEffects, PrepareEffect, RestoreFailsEffect DEF Failing, Effect
<1> QED
  BY <1>1, <1>2, <1>3, <1>4, <1>5 DEF Act

LEMMA ShapesStay ==
  ASSUME IInv, NEW p \in Procs, Effect(p), Local(p)
  PROVE  Shapes'
<1>1. Shaped(<< >>)
  BY DEF Shaped, OneChangePerPath, FilesFirst
<1>2. \A q \in Procs : Shaped(job[q])
  BY DEF IInv, Shapes
<1>3. Shaped(receipt.changes)
  BY DEF IInv, Shapes
<1>4. receipt'.changes \in {receipt.changes, job[p], << >>}
  BY DEF Effect, Aside, Prepares, Looks, Replaces, Restores, Empties, GivesUp, Passes, Publishes,
         Completes, Finishes, TakesOver, Writes, Still, NoReceipt
<1>5. \/ job'[p] \in {job[p], receipt.changes, << >>}
      \/ \E update \in Updates : job'[p] = Planned(update)
  BY DEF Effect, Aside, Prepares, Looks, Replaces, Restores, Empties, GivesUp, Passes, Publishes,
         Completes, Finishes, TakesOver, Writes, Still
<1>6. \A q \in Procs \ {p} : job'[q] = job[q]
  BY DEF Local
<1>7. \A update \in Updates : Shaped(Planned(update))
  BY PlanIsShaped
<1>8. Shaped(receipt'.changes) /\ Shaped(job'[p])
  BY <1>1, <1>2, <1>3, <1>4, <1>5, <1>7
<1>9. \A q \in Procs : Shaped(job'[q])
  BY <1>2, <1>6, <1>8
<1> QED
  BY <1>8, <1>9 DEF Shapes, Shaped, OneChangePerPath, FilesFirst

\* A step writes at most the entry of the change in hand.
LEMMA WriteEffect ==
  ASSUME IInv, Recoverable, NEW p \in Procs, Effect(p)
  PROVE  \/ entry' = entry
         \/ /\ Replaces(p) \/ Restores(p) \/ Empties(p)
            /\ pc[p] \in {"apply", "restore"} /\ at[p] # 0
            /\ LET c == job[p][at[p]]
               IN /\ c \in ChangeSet /\ c.path \in Slots
                  /\ at[p] \in DOMAIN receipt.changes /\ receipt.changes[at[p]] = c
                  /\ Homed(c.path) => entry[Home[c.path]] = "directory"
                  /\ entry'[c.path] = (IF Replaces(p) THEN c.after
                                       ELSE IF Restores(p) THEN c.before ELSE Absent)
                  /\ \A s \in Slots \ {c.path} : entry'[s] = entry[s]
<1> DEFINE c == job[p][at[p]]
<1>1. entry' = entry \/ Replaces(p) \/ Restores(p) \/ Empties(p)
  BY DEF Effect, Aside, Prepares, Looks, GivesUp, Passes, Publishes, Completes, Finishes,
         TakesOver, Still
<1>2. ASSUME Replaces(p) \/ Restores(p) \/ Empties(p)
      PROVE  /\ pc[p] \in {"apply", "restore"} /\ at[p] # 0
             /\ entry' = [entry EXCEPT ![c.path] = IF Replaces(p) THEN c.after
                                                   ELSE IF Restores(p) THEN c.before ELSE Absent]
  BY <1>2 DEF Replaces, Restores, Empties, Writes
<1>3. ASSUME Replaces(p) \/ Restores(p) \/ Empties(p)
      PROVE  /\ c \in ChangeSet /\ c.path \in Slots
             /\ at[p] \in DOMAIN receipt.changes /\ receipt.changes[at[p]] = c
             /\ Homed(c.path) => entry[Home[c.path]] = "directory"
  BY <1>2, <1>3, WorksInPlace
<1>4. entry = [s \in Slots |-> entry[s]]
  BY Domains DEF IInv
<1> QED
  BY <1>1, <1>2, <1>3, <1>4

\* A link in hand is not a directory once it can be replaced.
LEMMA CopiesStay ==
  ASSUME IInv, Recoverable, NEW p \in Procs, Effect(p)
  PROVE  CopiesInDirectories'
<1> DEFINE c == job[p][at[p]]
<1>1. CASE entry' = entry
  BY <1>1 DEF IInv, CopiesInDirectories
<1>2. CASE entry' # entry
  <2>1. /\ Replaces(p) \/ Restores(p) \/ Empties(p)
        /\ pc[p] \in {"apply", "restore"} /\ at[p] # 0
        /\ c \in ChangeSet /\ c.path \in Slots
        /\ at[p] \in DOMAIN receipt.changes /\ receipt.changes[at[p]] = c
        /\ Homed(c.path) => entry[Home[c.path]] = "directory"
        /\ entry'[c.path] = (IF Replaces(p) THEN c.after
                             ELSE IF Restores(p) THEN c.before ELSE Absent)
        /\ \A s \in Slots \ {c.path} : entry'[s] = entry[s]
    BY <1>2, WriteEffect
  <2>2. /\ Home \in [Files -> Links \cup {NoLink}] /\ Files \cap Links = {}
        /\ \A f \in Files : f \in Slots /\ (Homed(f) => Home[f] \in Links /\ Home[f] \in Slots)
        /\ \A l \in Links : l \in Slots
    BY TransactionAssumption DEF TransactionAssumption, Slots, Homed
  <2>3. CASE c.path \in Files
    <3>1. \A l \in Links : entry'[l] = entry[l]
      BY <2>1, <2>2, <2>3
    <3>2. \A f \in Files : f # c.path => entry'[f] = entry[f]
      BY <2>1, <2>2
    <3> QED
      BY <2>1, <2>2, <3>1, <3>2 DEF IInv, CopiesInDirectories, Homed
  <2>4. CASE c.path \in Links
    <3>1. \A f \in Files : entry'[f] = entry[f]
      BY <2>1, <2>2, <2>4
    <3>2. \A l \in Links : l # c.path => entry'[l] = entry[l]
      BY <2>1, <2>2
    <3>3. \A f \in Files : Homed(f) /\ Home[f] = c.path => entry[f] = Absent
      <4>1. CASE entry[c.path] # "directory"
        BY <4>1 DEF IInv, CopiesInDirectories
      <4>2. CASE entry[c.path] = "directory"
        <5>1. Position(p) /\ c.after # "directory"
          BY <2>1, <2>4, <2>2, DirectoriesAreLinks DEF IInv, Absent
        <5>2. ~Restores(p)
          BY <2>1, <2>4, <4>2, <5>1 DEF Restores, Position, Gap, Absent
        <5>3. Empties(p)
          BY <2>1, <2>4, <4>2, <5>2 DEF Replaces
        <5> QED
          BY <4>2, <5>3 DEF Empties, Copied, Homed
      <4> QED
        BY <4>1, <4>2
    <3>4. NothingCopied => entry'[c.path] # "directory"
      <4>1. NothingCopied => c.before # "directory"
        BY <2>1 DEF IInv, Shapes, Shaped
      <4>2. c.after # "directory"
        BY <2>1, <2>2, <2>4, DirectoriesAreLinks DEF Absent
      <4> QED
        BY <2>1, <4>1, <4>2 DEF Absent
    <3> QED
      BY <2>2, <3>1, <3>2, <3>3, <3>4 DEF IInv, CopiesInDirectories, Homed
  <2> QED
    BY <2>1, <2>3, <2>4 DEF Slots
<1> QED
  BY <1>1, <1>2

\* Another process's part: while it is the writer, no step of p touches an entry or the receipt.
LEMMA OthersKeepPosition ==
  ASSUME IInv, Recoverable, NEW p \in Procs, Effect(p), Local(p), edits' = edits,
         NEW q \in Procs \ {p}, conflict'[q] = conflict[q]
  PROVE  Position(q)'
<1>1. pc'[q] = pc[q] /\ at'[q] = at[q]
  BY DEF Local
<1>2. CASE pc[q] \in Working \cup {"finish"}
  <2>1. writer = q
    BY <1>2 DEF IInv, Typed, LocksOK, Working
  <2>2. UNCHANGED <<entry, receipt>>
    BY <2>1 DEF Local
  <2> QED
    BY <1>1, <2>2 DEF IInv, Position, PutBack, Applied, Gap, Overwritten
<1>3. CASE pc[q] \notin Working \cup {"finish"}
  BY <1>1, <1>3 DEF Position, Working
<1> QED
  BY <1>2, <1>3

\* Entries the change in hand is not about stay.
LEMMA OnlyInHand ==
  ASSUME IInv, Recoverable, NEW p \in Procs, Effect(p), entry' # entry
  PROVE  /\ \A i \in DOMAIN receipt.changes :
              i # at[p] => entry'[receipt.changes[i].path] = entry[receipt.changes[i].path]
         /\ receipt.phase = "prepared" /\ receipt' = receipt
<1> DEFINE c == job[p][at[p]]
<1>1. /\ Replaces(p) \/ Restores(p) \/ Empties(p)
      /\ pc[p] \in {"apply", "restore"}
      /\ at[p] \in DOMAIN receipt.changes /\ receipt.changes[at[p]] = c
      /\ \A s \in Slots \ {c.path} : entry'[s] = entry[s]
  BY WriteEffect
<1>2. OneChangePerPath(receipt.changes)
  BY DEF IInv, Shapes, Shaped
<1>3. \A i \in DOMAIN receipt.changes : receipt.changes[i].path \in Slots
  BY RecordedIsTyped DEF IInv
<1>4. receipt.phase = "prepared" /\ receipt' = receipt
  BY <1>1 DEF IInv, Position, Working, Replaces, Restores, Empties, Writes
<1> QED
  BY <1>1, <1>2, <1>3, <1>4 DEF OneChangePerPath

LEMMA AccountedStays ==
  ASSUME IInv, Recoverable, NEW p \in Procs, Effect(p), edits' = edits
  PROVE  Accounted'
<1> DEFINE c == job[p][at[p]]
<1>1. CASE entry' # entry
  <2>1. /\ at[p] \in DOMAIN receipt.changes /\ receipt.changes[at[p]] = c
        /\ entry'[c.path] = (IF Replaces(p) THEN c.after
                             ELSE IF Restores(p) THEN c.before ELSE Absent)
        /\ Replaces(p) \/ Restores(p) \/ c.before = "directory"
    BY <1>1, WriteEffect DEF Empties
  <2>2. /\ \A i \in DOMAIN receipt.changes :
             i # at[p] => entry'[receipt.changes[i].path] = entry[receipt.changes[i].path]
        /\ receipt.phase = "prepared" /\ receipt' = receipt
    BY <1>1, OnlyInHand
  <2>3. ASSUME NEW i \in DOMAIN receipt.changes, i # at[p]
        PROVE  LET d == receipt.changes[i] IN (PutBack(d) \/ Applied(d) \/ Gap(d))'
    BY <2>2, <2>3 DEF IInv, Accounted, PutBack, Applied, Gap, Overwritten
  <2>4. ASSUME NEW i \in DOMAIN receipt.changes, i = at[p]
        PROVE  LET d == receipt.changes[i] IN (PutBack(d) \/ Applied(d) \/ Gap(d))'
    BY <2>1, <2>2, <2>4 DEF PutBack, Applied, Gap
  <2> QED
    BY <2>1, <2>2, <2>3, <2>4 DEF Accounted
<1>2. CASE entry' = entry /\ receipt' = receipt
  BY <1>2 DEF IInv, Accounted, PutBack, Applied, Gap, Overwritten
<1>3. CASE entry' = entry /\ receipt' # receipt
  <2>1. Prepares(p) \/ Publishes(p) \/ Finishes(p)
    BY <1>3 DEF Effect, Aside, Looks, Replaces, Restores, Empties, GivesUp, Passes, Completes,
                TakesOver, Writes, Still
  <2>2. CASE Prepares(p)
    BY <1>3, <2>2 DEF Prepares, Accounted, PutBack
  <2>3. CASE Publishes(p)
    <3>1. /\ receipt'.phase = "published" /\ receipt'.changes = receipt.changes
          /\ pc[p] = "publish" /\ Position(p)
      BY <2>3 DEF Publishes, IInv
    <3> QED
      BY <1>3, <3>1 DEF Accounted, Position, Applied, Overwritten
  <2>4. CASE Finishes(p)
    BY <2>4 DEF Finishes, NoReceipt, Accounted
  <2> QED
    BY <2>1, <2>2, <2>3, <2>4
<1> QED
  BY <1>1, <1>2, <1>3

LEMMA OwnPosition ==
  ASSUME IInv, Recoverable, NEW p \in Procs, Effect(p), edits' = edits
  PROVE  Position(p)'
<1> DEFINE c == job[p][at[p]]
<1>0. /\ Position(p) /\ Accounted
      /\ pc[p] \in Working => receipt.changes = job[p]
      /\ \A i \in DOMAIN receipt.changes : i \in Nat
      /\ at[p] \in Nat /\ at[p] <= Len(job[p])
      /\ DOMAIN receipt.changes = 1..Len(receipt.changes) /\ Len(receipt.changes) \in Nat
      /\ DOMAIN job[p] = 1..Len(job[p]) /\ Len(job[p]) \in Nat
  BY RecordedIsTyped DEF IInv, Typed, OwnReceipt, Working, ProcessesOK, ReceiptOK
<1>1. CASE Aside(p)
  BY <1>1 DEF Aside, Jobless, Position, Working
<1>2. CASE Prepares(p)
  <2>1. CASE pc'[p] = "idle"
    BY <2>1 DEF Position, Working
  <2>2. CASE pc'[p] = "verify" /\ at'[p] = 1
    <3>1. /\ receipt'.phase = "prepared" /\ receipt'.changes = job[p]
          /\ \A i \in DOMAIN job[p] : entry'[job[p][i].path] = job[p][i].before
      BY <1>2 DEF Prepares
    <3>2. \A i \in DOMAIN job[p] : ~(i < 1)
      BY <1>0
    <3> QED
      BY <2>2, <3>1, <3>2 DEF Position
  <2> QED
    BY <1>2, <2>1, <2>2 DEF Prepares, Moved
<1>3. CASE Looks(p)
  <2>1. /\ UNCHANGED <<entry, receipt>> /\ at'[p] = at[p] /\ conflict'[p] = conflict[p]
        /\ receipt.phase = "prepared" /\ at[p] \in DOMAIN receipt.changes
        /\ receipt.changes[at[p]] = c
    BY <1>0, <1>3, WorksInPlace DEF Looks, Still, Moved, Position, Working
  <2>2. CASE pc[p] = "verify" /\ pc'[p] = "apply" /\ entry[c.path] = c.before
    BY <1>0, <2>1, <2>2 DEF Position, Applied, Overwritten
  <2>3. CASE pc[p] = "rollback" /\ pc'[p] = "restore" /\ (entry[c.path] = c.after \/ Gap(c))
    BY <1>0, <2>1, <2>3 DEF Position, PutBack, Overwritten, Gap
  <2> QED
    BY <1>3, <2>2, <2>3 DEF Looks, Moved
<1>4. CASE Replaces(p) \/ Restores(p) \/ Empties(p)
  <2>1. /\ pc[p] \in {"apply", "restore"} /\ at[p] # 0 /\ job'[p] = job[p]
        /\ conflict'[p] = conflict[p] /\ receipt' = receipt /\ receipt.phase = "prepared"
    BY <1>0, <1>4 DEF Replaces, Restores, Empties, Writes, Position, Working
  <2>2. at[p] \in DOMAIN receipt.changes /\ receipt.changes[at[p]] = c
    BY <2>1, WorksInPlace
  <2>3. \A i \in DOMAIN receipt.changes :
          i # at[p] => entry'[receipt.changes[i].path] = entry[receipt.changes[i].path]
    BY OnlyInHand
  <2>4. /\ c \in ChangeSet /\ c.path \in Slots
        /\ entry = [s \in Slots |-> entry[s]]
    BY <2>1, WorksInPlace, Domains DEF IInv
  <2>5. CASE Replaces(p)
    <3>1. entry'[c.path] = c.after
      BY <2>4, <2>5 DEF Replaces, Writes
    <3>2. CASE at[p] < Len(job[p]) /\ Moved(p, "verify", at[p] + 1)
      <4>1. pc'[p] = "verify" /\ at'[p] = at[p] + 1 /\ pc[p] = "apply"
        BY <2>5, <3>2 DEF Moved, Replaces
      <4>2. ASSUME NEW i \in DOMAIN receipt.changes
            PROVE  LET d == receipt.changes[i]
                   IN /\ i > at[p] + 1 /\ d.path \in Links => entry'[d.path] = d.before
                      /\ i < at[p] + 1 => Applied(d)'
        <5>1. i < at[p] + 1 => i < at[p] \/ i = at[p]
          BY <1>0
        <5>2. i > at[p] + 1 => i > at[p]
          BY <1>0
        <5> QED
          BY <1>0, <2>1, <2>2, <2>3, <3>1, <4>1, <5>1, <5>2 DEF Position, Applied, Overwritten
      <4> QED
        BY <2>1, <4>1, <4>2 DEF Position
    <3>3. CASE at[p] = Len(job[p]) /\ Moved(p, "publish", at[p])
      <4>1. pc'[p] = "publish" /\ pc[p] = "apply" /\ receipt.changes = job[p]
        BY <1>0, <2>5, <3>3 DEF Moved, Replaces, Working
      <4>2. ASSUME NEW i \in DOMAIN receipt.changes
            PROVE  Applied(receipt.changes[i])'
        <5>1. i < at[p] \/ i = at[p]
          BY <1>0, <3>3, <4>1
        <5> QED
          BY <1>0, <2>1, <2>2, <2>3, <3>1, <4>1, <5>1 DEF Position, Applied, Overwritten
      <4> QED
        BY <2>1, <4>1, <4>2 DEF Position
    <3> QED
      BY <2>5, <3>2, <3>3 DEF Replaces
  <2>6. CASE Restores(p)
    <3>1. entry'[c.path] = c.before
      BY <2>4, <2>6 DEF Restores, Writes
    <3>2. pc[p] = "restore" /\ pc'[p] = "rollback" /\ at'[p] = at[p] - 1
      BY <2>6 DEF Restores, Moved
    <3>3. ASSUME NEW i \in DOMAIN receipt.changes, i > at[p] - 1
          PROVE  LET d == receipt.changes[i]
                 IN /\ MaxFailures = 0 /\ d.path \in Links => entry'[d.path] = d.before
                    /\ ~conflict[p] => PutBack(d)'
      <4>1. i > at[p] \/ i = at[p]
        BY <1>0, <3>3
      <4> QED
        BY <1>0, <2>1, <2>2, <2>3, <3>1, <3>2, <4>1 DEF Position, PutBack, Overwritten
    <3> QED
      BY <2>1, <3>2, <3>3 DEF Position
  <2>7. CASE Empties(p)
    <3>1. /\ entry'[c.path] = Absent /\ c.before = "directory"
          /\ pc'[p] = pc[p] /\ at'[p] = at[p]
      BY <2>4, <2>7 DEF Empties, Writes, Moved
    <3>2. ASSUME NEW i \in DOMAIN receipt.changes, i = at[p] PROVE Gap(receipt.changes[i])'
      BY <2>1, <2>2, <3>1, <3>2 DEF Gap
    <3>3. ASSUME NEW i \in DOMAIN receipt.changes, i # at[p]
          PROVE  /\ Applied(receipt.changes[i]) => Applied(receipt.changes[i])'
                 /\ PutBack(receipt.changes[i]) => PutBack(receipt.changes[i])'
      BY <2>1, <2>3, <3>3 DEF Applied, PutBack, Overwritten
    <3> QED
      BY <1>0, <2>1, <2>3, <3>1, <3>2, <3>3 DEF Position
  <2> QED
    BY <1>4, <2>5, <2>6, <2>7
<1>5. CASE GivesUp(p)
  <2>1. /\ UNCHANGED <<entry, receipt>> /\ receipt.phase = "prepared" /\ receipt.changes = job[p]
        /\ pc'[p] = "rollback" /\ at'[p] = Len(job[p])
    BY <1>0, <1>5 DEF GivesUp, Still, Moved, Position, Working
  <2>2. \A i \in DOMAIN receipt.changes : ~(i > Len(job[p]))
    BY <1>0, <2>1
  <2> QED
    BY <2>1, <2>2 DEF Position
<1>6. CASE Passes(p)
  <2>1. /\ UNCHANGED <<entry, receipt>> /\ receipt.phase = "prepared"
        /\ pc[p] \in {"rollback", "restore"} /\ pc'[p] = "rollback" /\ at'[p] = at[p] - 1
        /\ at[p] \in DOMAIN receipt.changes /\ receipt.changes[at[p]] = c /\ c \in ChangeSet
    BY <1>0, <1>6, WorksInPlace DEF Passes, Still, Moved, Position, Working
  <2>2. conflict'[p] \/ conflict'[p] = conflict[p]
    BY <1>6 DEF Passes
  <2>3. MaxFailures = 0 /\ c.path \in Links => entry[c.path] = c.before
    <3>1. PutBack(c) \/ Applied(c) \/ Gap(c)
      BY <1>0, <2>1 DEF Accounted
    <3>2. c.path \in Links => c.path \notin Files
      BY TransactionAssumption DEF TransactionAssumption
    <3> QED
      BY <1>6, <3>1, <3>2 DEF Passes, PutBack, Applied, Overwritten
  <2>4. ~conflict'[p] => entry[c.path] = c.before
    BY <1>6 DEF Passes
  <2>5. ASSUME NEW i \in DOMAIN receipt.changes, i > at[p] - 1
        PROVE  LET d == receipt.changes[i]
               IN /\ MaxFailures = 0 /\ d.path \in Links => entry[d.path] = d.before
                  /\ ~conflict'[p] => PutBack(d)
    <3>1. i > at[p] \/ i = at[p]
      BY <1>0, <2>5
    <3> QED
      BY <1>0, <2>1, <2>2, <2>3, <2>4, <3>1 DEF Position, PutBack
  <2> QED
    BY <2>1, <2>5 DEF Position, PutBack, Overwritten
<1>7. CASE Publishes(p)
  BY <1>7 DEF Publishes, Position, Working
<1>8. CASE Completes(p)
  <2>1. \A i \in DOMAIN receipt.changes : i > 0
    BY <1>0
  <2> QED
    BY <1>0, <1>8, <2>1 DEF Completes, Still, Position, Working, PutBack, Overwritten
<1>9. CASE Finishes(p)
  BY <1>9 DEF Finishes, Position, Working
<1>10. CASE TakesOver(p)
  <2>1. \A i \in DOMAIN receipt.changes : ~(i > Len(receipt.changes))
    BY <1>0
  <2> QED
    BY <1>10, <2>1 DEF TakesOver, Still, Moved, Position, Working
<1> QED
  BY <1>1, <1>2, <1>3, <1>4, <1>5, <1>6, <1>7, <1>8, <1>9, <1>10 DEF Effect

LEMMA CountsStay ==
  ASSUME Counted, [Next]_vars
  PROVE  Counted'
<1>1. ASSUME NEW p \in Procs, Act(p) PROVE edits' = edits /\ failures' \in {failures, failures + 1}
  <2>1. edits' = edits
    BY <1>1, OnlyUsersEdit
  <2> USE DEF bounds
  <2>2. CASE \E update \in Updates : Plan(p, update)
    BY <2>1, <2>2 DEF Plan
  <2>3. CASE Publishing(p)
    BY <2>1, <2>3 DEF Publishing, Acquire, Busy, Refuse, Prepare, Verify, ApplyFile,
                      RemoveDirectory, ApplyLink, Publish, Finish
  <2>4. CASE RollingBack(p) \/ Recovering(p)
    BY <2>1, <2>4 DEF RollingBack, Examine, Restore, RolledBack, Recovering, StartRecover,
                      RecoverRefused, RecoverPrepared, RecoverPublished
  <2>5. CASE StartStatus(p) \/ Status(p)
    BY <2>1, <2>5 DEF StartStatus, Status, AcquireShared, StatusPending, ReadOne, ReadAgain, Report
  <2>6. CASE Failing(p) \/ Crash(p)
    BY <2>1, <2>6 DEF Failing, Fail, PrepareUnconfirmed, PublishUnconfirmed, FinishFails,
                      RestoreFails, RollbackAborts, Crash
  <2> QED
    BY <1>1, <2>2, <2>3, <2>4, <2>5, <2>6 DEF Act
<1>2. ASSUME NEW f \in Files, UserEdit(f) PROVE edits' = edits + 1 /\ failures' = failures
  BY <1>2 DEF UserEdit
<1> QED
  BY <1>1, <1>2, NextIsAct DEF Counted, vars, bounds

LEMMA UserEditKeepsIInv ==
  ASSUME IInv, NEW f \in Files, UserEdit(f), Typed', Counted'
  PROVE  IInv'
<1>1. /\ entry' = [entry EXCEPT ![Slot(f)] = Edited] /\ edits' # 0
      /\ UNCHANGED <<receipt, pc, job, at, conflict>>
      /\ Home[f] # NoLink => entry[Home[f]] # Absent
  BY DEF UserEdit, IInv, Counted
<1>2. /\ Slot(f) \in Files /\ entry = [s \in Slots |-> entry[s]] /\ Files \subseteq Slots
      /\ Files \cap Links = {} /\ Home \in [Files -> Links \cup {NoLink}]
      /\ Slot(f) \in Slots
  BY PathImage, Domains, TransactionAssumption DEF TransactionAssumption, IInv, Typed, Slots
<1>3. /\ entry'[Slot(f)] = Edited
      /\ \A s \in Slots : s # Slot(f) => entry'[s] = entry[s]
      /\ \A l \in Links : entry'[l] = entry[l]
  BY <1>1, <1>2 DEF Slots
<1>4. Shapes'
  BY <1>1 DEF IInv, Shapes, Shaped, OneChangePerPath, FilesFirst
<1>5. CopiesInDirectories'
  <2>1. Homed(Slot(f)) => entry[Home[Slot(f)]] = "directory"
    <3>1. CASE Linked(f)
      BY <3>1, TransactionAssumption DEF TransactionAssumption, Slot, Homed
    <3>2. CASE ~Linked(f)
      <4>1. Slot(f) = f
        BY <3>2 DEF Slot
      <4>2. Homed(f) => Home[f] \in Links /\ entry[Home[f]] \notin {Absent, "link"}
        BY <1>1, <1>2, <3>2 DEF Homed, Linked
      <4>3. \A l \in Links : entry[l] \in LinkImages
        BY DEF IInv, Typed, EntriesOK
      <4> QED
        BY <4>1, <4>2, <4>3 DEF LinkImages
    <3> QED
      BY <3>1, <3>2
  <2> QED
    BY <1>2, <1>3, <2>1 DEF IInv, CopiesInDirectories, Homed
<1>6. ASSUME NEW i \in DOMAIN receipt.changes
      PROVE  LET c == receipt.changes[i]
             IN /\ c.path \in Links => entry'[c.path] = entry[c.path]
                /\ Applied(c) => Applied(c)'
                /\ PutBack(c) => PutBack(c)'
                /\ Gap(c) => Gap(c)'
  <2> DEFINE c == receipt.changes[i]
  <2>1. c \in ChangeSet /\ c.path \in Slots
    BY RecordedIsTyped DEF IInv
  <2>2. CASE c.path = Slot(f)
    <3>1. Overwritten(c)'
      BY <1>1, <1>2, <1>3, <2>2 DEF Overwritten
    <3>2. ~Gap(c)
      BY <1>2, <2>1, <2>2, DirectoriesAreLinks DEF Gap
    <3>3. c.path \notin Links
      BY <1>2, <2>2
    <3> QED
      BY <1>1, <3>1, <3>2, <3>3 DEF Applied, PutBack
  <2>3. CASE c.path # Slot(f)
    <3>1. entry'[c.path] = entry[c.path]
      BY <1>3, <2>1, <2>3
    <3> QED
      BY <1>1, <3>1 DEF Applied, PutBack, Gap, Overwritten
  <2> QED
    BY <2>2, <2>3
<1>7. Accounted'
  BY <1>1, <1>6 DEF IInv, Accounted
<1>8. ASSUME NEW p \in Procs PROVE Position(p)'
  <2>1. Position(p)
    BY DEF IInv
  <2> QED
    BY <1>1, <1>6, <2>1 DEF Position
<1> QED
  BY <1>4, <1>5, <1>7, <1>8 DEF IInv

LEMMA IInvStays ==
  ASSUME Recoverable, IInv, [Next]_vars
  PROVE  IInv'
<1>1. Typed' /\ Counted'
  BY TypedStays, CountsStay DEF IInv
<1>2. ASSUME NEW p \in Procs, Act(p) PROVE IInv'
  <2>1. Effect(p) /\ Local(p) /\ edits' = edits
    BY <1>2, Effects, StepIsLocal, OnlyUsersEdit DEF IInv
  <2>2. \A q \in Procs \ {p} : conflict'[q] = conflict[q]
    BY <1>2, ConflictIsOwn DEF IInv
  <2>3. Shapes' /\ CopiesInDirectories' /\ Accounted' /\ Position(p)'
    BY <2>1, ShapesStay, CopiesStay, AccountedStays, OwnPosition
  <2>4. \A q \in Procs \ {p} : Position(q)'
    BY <2>1, <2>2, OthersKeepPosition
  <2> QED
    BY <1>1, <2>3, <2>4 DEF IInv
<1>3. ASSUME NEW f \in Files, UserEdit(f) PROVE IInv'
  BY <1>1, <1>3, UserEditKeepsIInv
<1>4. CASE UNCHANGED vars
  BY <1>1, <1>4 DEF vars, IInv, Shapes, Shaped, OneChangePerPath, FilesFirst, CopiesInDirectories,
     Accounted, Position, PutBack, Applied, Gap, Overwritten
<1> QED
  BY <1>2, <1>3, <1>4, NextIsAct

\* Wherever an update, a rollback or a recovery dies, a prepared receipt whose files nobody has
\* edited can be rolled back: with copied packages as long as no operation fails, without them
\* whatever fails (rollback_prepared).
THEOREM PreparedIsLeftRestorable == Spec /\ Recoverable => []PreparedIsRestorable
<1>1. SUFFICES ASSUME Recoverable PROVE Spec => []PreparedIsRestorable
  OBVIOUS
<1>2. IInv /\ [Next]_vars => IInv'
  BY <1>1, IInvStays
<1>3. IInv => PreparedIsRestorable
  BY DEF IInv, Accounted, PreparedIsRestorable, PutBack, Applied, Gap, Overwritten
<1> QED
  BY <1>2, <1>3, IInvInitially, PTL DEF Spec

\* Where no older release has copied its package, a receipt left published, nobody having edited
\* a file, is finalized by the recovery: every path still reads as the update left it (verify_image
\* in recover_text_file_transaction).
THEOREM PublishedIsLeftFinalizable == Spec /\ NothingCopied => []PublishedIsFinalizable
<1>1. SUFFICES ASSUME NothingCopied PROVE Spec => []PublishedIsFinalizable
  OBVIOUS
<1>2. IInv /\ [Next]_vars => IInv'
  BY <1>1, IInvStays DEF Recoverable
<1>3. ASSUME IInv, receipt.phase = "published", edits = 0, NEW i \in DOMAIN receipt.changes
      PROVE  Current(receipt.changes[i].path) = receipt.changes[i].after
  <2> DEFINE c == receipt.changes[i]
  <2>1. c.path \in Slots
    BY <1>3, RecordedIsTyped DEF IInv
  <2>2. ~Homed(c.path)
    BY <1>1, <1>3 DEF IInv, Shapes, Shaped
  <2>3. Current(c.path) = entry[c.path]
    BY <1>3, <2>1, <2>2, LeadsToItself DEF IInv, Typed
  <2> QED
    BY <1>3, <2>3 DEF IInv, Accounted, Applied, Overwritten
<1>4. IInv => PublishedIsFinalizable
  BY <1>3 DEF PublishedIsFinalizable, Finalizable
<1> QED
  BY <1>2, <1>4, IInvInitially, PTL DEF Spec

-----------------------------------------------------------------------------
(* All or nothing                                                          *)

\* Updates one at a time: none is planned while another is planned or under way, or a receipt
\* is pending.  Recoveries and status commands come at any time.
PlansAlone ==
  \A p \in Procs, update \in Updates :
    Plan(p, update) => ~Pending /\ \A q \in Procs : job[q] = << >>
UpdatesAlone == [][PlansAlone]_vars

\* Only one process has a job at a time, and a plan is made while nothing is pending.
Sole ==
  /\ \A p, q \in Procs : p # q => job[p] = << >> \/ job[q] = << >>
  /\ \A p \in Procs : /\ pc[p] \in {"planned", "prepare"} => ~Pending
                      /\ pc[p] \in Jobless => job[p] = << >>

\* What a plan leaves out of its update is as the update wants it, or as a user does.
Left(o, entries) ==
  entries[o.path] = o.after \/ (o.path \in Files /\ entries[o.path] = Edited)
PlanFor(plan, update, entries) ==
  /\ \A i \in DOMAIN plan :
       \E j \in DOMAIN update.changes :
         update.changes[j].path = plan[i].path /\ update.changes[j].after = plan[i].after
  /\ \A j \in DOMAIN update.changes :
       \/ \E i \in DOMAIN plan : plan[i].path = update.changes[j].path
       \/ Left(update.changes[j], entries)
Publishers == {"planned", "prepare", "verify", "apply", "publish"}
Carries(p) == pc[p] \in Publishers => \E update \in Updates : PlanFor(job[p], update, entry)

AInv == IInv /\ InHand /\ Sole /\ \A p \in Procs : Carries(p)

LEMMA OfferIsTyped ==
  ASSUME NEW update \in Updates, NEW j \in DOMAIN update.changes
  PROVE  LET o == update.changes[j]
         IN /\ o.path \in Slots
            /\ o.path \in Files => o.path \notin Links /\ o.after \in Texts \cup {Absent}
            /\ o.path \in Links => o.path \notin Files /\ o.after \in {Absent, "link"}
<1> DEFINE Offers == [path : Files, after : Texts \cup {Absent}]
                       \cup [path : Links, after : {Absent, "link"}]
           o == update.changes[j]
<1>1. update.changes \in Seq(Offers) /\ Files \cap Links = {}
  BY TransactionAssumption DEF TransactionAssumption
<1>2. o \in Offers
  BY <1>1
<1> QED
  BY <1>1, <1>2 DEF Slots

LEMMA PlansAreForUpdates ==
  ASSUME IInv, NEW update \in Updates
  PROVE  PlanFor(Planned(update), update, entry)
<1> DEFINE Offers == [path : Files, after : Texts \cup {Absent}]
                       \cup [path : Links, after : {Absent, "link"}]
           changes == update.changes
           needed == {i \in DOMAIN changes :
                        LET c == changes[i]
                        IN /\ Current(c.path) # c.after
                           /\ ~(c.path \in Files /\ Linked(c.path))
                           /\ c.path \in Owned => Current(c.path) # Edited}
           chosen == Pick(changes, needed)
           plan == Planned(update)
<1>1. changes \in Seq(Offers) /\ CopiesAreReplaced(changes)
  BY TransactionAssumption DEF TransactionAssumption
<1>2. needed \in SUBSET DOMAIN changes
  OBVIOUS
<1> HIDE DEF Offers, needed
<1>3. /\ chosen \in Seq(Offers)
      /\ \A k \in DOMAIN chosen : \E i \in needed : chosen[k] = changes[i]
  BY <1>1, <1>2, PickProperties
<1>4. \A i \in needed : \E k \in DOMAIN chosen : chosen[k] = changes[i]
  BY <1>1, <1>2, PickKeepsAll
<1>5. plan = [k \in DOMAIN chosen |->
                [path |-> chosen[k].path, before |-> Current(chosen[k].path),
                 after |-> chosen[k].after]]
  BY DEF Planned, needed
<1>6. /\ DOMAIN plan = DOMAIN chosen
      /\ \A k \in DOMAIN plan : plan[k].path = chosen[k].path /\ plan[k].after = chosen[k].after
  BY <1>5
<1> HIDE DEF changes, chosen, plan
<1>7. ASSUME NEW i \in DOMAIN plan
      PROVE  \E j \in DOMAIN changes :
               changes[j].path = plan[i].path /\ changes[j].after = plan[i].after
  <2>1. PICK j \in needed : chosen[i] = changes[j]
    BY <1>3, <1>6
  <2> QED
    BY <1>2, <1>6, <2>1
<1>8. ASSUME NEW j \in needed
      PROVE  \E i \in DOMAIN plan : plan[i].path = changes[j].path
  BY <1>4, <1>6
<1>9. ASSUME NEW j \in DOMAIN changes, j \notin needed PROVE Left(changes[j], entry)
  <2> DEFINE o == changes[j]
  <2>1. /\ o.path \in Slots /\ o.path \in Files => o.path \notin Links
        /\ o.path \in Links => o.path \notin Files
    BY OfferIsTyped DEF changes
  <2>2. CASE o.path \in Files /\ Linked(o.path)
    <3>1. Homed(o.path) /\ entry[Home[o.path]] = "link"
      BY <2>2 DEF Linked, Homed
    <3>2. o.after = Absent
      BY <1>1, <3>1 DEF CopiesAreReplaced, Homed
    <3>3. entry[o.path] = Absent
      BY <2>2, <3>1 DEF IInv, CopiesInDirectories
    <3> QED
      BY <3>2, <3>3 DEF Left
  <2>3. CASE ~(o.path \in Files /\ Linked(o.path))
    <3>1. Current(o.path) = entry[o.path]
      BY <2>3 DEF Current, Slot
    <3>2. Current(o.path) = o.after \/ (o.path \in Owned /\ Current(o.path) = Edited)
      BY <1>9, <2>3 DEF needed
    <3>3. Owned \subseteq Files
      BY TransactionAssumption DEF TransactionAssumption
    <3> QED
      BY <3>1, <3>2, <3>3 DEF Left
  <2> QED
    BY <2>2, <2>3
<1>10. PlanFor(plan, update, entry)
  BY <1>7, <1>8, <1>9 DEF PlanFor, changes
<1> QED
  BY <1>10 DEF plan

LEMMA SoleStays ==
  ASSUME AInv, NEW p \in Procs, Effect(p), Local(p), Typed', PlansAlone
  PROVE  Sole'
<1>0. /\ Sole /\ Typed /\ \A q \in Procs : Position(q)
      /\ \A q \in Procs \ {p} : pc'[q] = pc[q] /\ job'[q] = job[q]
  BY DEF AInv, IInv, Local
<1>1. CASE (\E update \in Updates : Plan(p, update)) /\ pc'[p] = "planned" /\ Still
  <2>1. ~Pending /\ \A q \in Procs : job[q] = << >>
    BY <1>1 DEF PlansAlone
  <2> QED
    BY <1>0, <1>1, <2>1 DEF Sole, Still, Pending, Jobless
<1>2. CASE Aside(p) /\ ~(\E update \in Updates : Plan(p, update))
  BY <1>0, <1>2 DEF Aside, Sole, Still, Pending, Jobless
<1>3. CASE Prepares(p)
  <2>1. job[p] # << >> /\ pc[p] = "prepare"
    BY <1>0, <1>3 DEF Prepares, Typed, Placed
  <2>2. \A q \in Procs \ {p} : job[q] = << >>
    BY <1>0, <2>1 DEF Sole
  <2>3. \A q \in Procs \ {p} : pc[q] \notin {"planned", "prepare"}
    BY <1>0, <2>2 DEF Typed, Placed
  <2> QED
    BY <1>0, <1>3, <2>2, <2>3 DEF Prepares, Moved, Sole, Jobless
<1>4. CASE Looks(p) \/ Replaces(p) \/ Restores(p) \/ Empties(p) \/ GivesUp(p) \/ Passes(p)
           \/ Completes(p)
  <2>1. /\ job'[p] = job[p] /\ receipt' = receipt
        /\ pc'[p] \in Working \cup {"finish"}
    BY <1>4 DEF Looks, Replaces, Restores, Empties, GivesUp, Passes, Completes, Still, Writes,
                Moved, Working
  <2> QED
    BY <1>0, <2>1 DEF Sole, Pending, Jobless, Working
<1>5. CASE Publishes(p) \/ Finishes(p)
  <2>1. /\ job'[p] \in {job[p], << >>} /\ (pc'[p] \in Jobless => job'[p] = << >>)
        /\ pc'[p] \in {"finish", "idle"} /\ (Pending' => Pending)
    <3>1. CASE Finishes(p)
      BY <3>1 DEF Finishes, NoReceipt, Pending
    <3>2. CASE Publishes(p)
      <4>1. receipt.phase = "prepared"
        BY <1>0, <3>2 DEF Publishes, Position, Working
      <4>2. pc'[p] = "idle" => job'[p] = << >>
        BY <1>0, <3>2 DEF Publishes
      <4> QED
        BY <3>2, <4>1, <4>2 DEF Publishes, Pending, Jobless
    <3> QED
      BY <1>5, <3>1, <3>2
  <2> QED
    BY <1>0, <2>1 DEF Sole
<1>6. CASE TakesOver(p)
  <2>1. Pending /\ writer = NoProc /\ receipt' = receipt /\ pc'[p] \in {"rollback", "finish"}
    BY <1>6 DEF TakesOver, LockFree, Pending, Moved, Still
  <2>2. ASSUME NEW q \in Procs PROVE pc[q] \in Jobless
    <3>1. q # NoProc /\ pc[q] \in PCs
      BY <1>0, TransactionAssumption DEF TransactionAssumption, Typed, ProcessesOK
    <3>2. pc[q] \notin {"planned", "prepare"}
      BY <1>0, <2>1 DEF Sole
    <3>3. pc[q] \notin Working \cup {"finish"}
      BY <1>0, <2>1, <3>1 DEF Typed, LocksOK, Working
    <3> QED
      BY <3>1, <3>2, <3>3 DEF PCs, Jobless, Working
  <2>3. \A q \in Procs : job[q] = << >>
    BY <1>0, <2>2 DEF Sole
  <2>4. \A q, r \in Procs : q # r => job'[q] = << >> \/ job'[r] = << >>
    BY <1>0, <2>3
  <2>5. ASSUME NEW q \in Procs
        PROVE  pc'[q] \notin {"planned", "prepare"} /\ (pc'[q] \in Jobless => job'[q] = << >>)
    <3>1. CASE q = p
      BY <2>1, <3>1 DEF Jobless
    <3>2. CASE q # p
      BY <1>0, <2>2, <2>3, <3>2 DEF Jobless
    <3> QED
      BY <3>1, <3>2
  <2> QED
    BY <2>4, <2>5 DEF Sole
<1>7. (\E update \in Updates : Plan(p, update)) => pc'[p] = "planned" /\ Still
  BY <1>0, Domains DEF Plan, Still
<1> QED
  BY <1>1, <1>2, <1>3, <1>4, <1>5, <1>6, <1>7 DEF Effect

\* A process that plans or publishes carries changes that bring about one of the updates.
LEMMA CarriesStays ==
  ASSUME AInv, Recoverable, NEW p \in Procs, Effect(p), Local(p)
  PROVE  \A q \in Procs : Carries(q)'
<1> DEFINE c == job[p][at[p]]
<1>0. IInv /\ Sole /\ Typed /\ \A q \in Procs : Carries(q)
  BY DEF AInv, IInv
<1>1. ASSUME NEW q \in Procs, q # p PROVE Carries(q)'
  <2>1. pc'[q] = pc[q] /\ job'[q] = job[q]
    BY <1>1 DEF Local
  <2>2. CASE entry' = entry
    BY <1>0, <2>1, <2>2 DEF Carries
  <2>3. CASE entry' # entry
    <3>1. writer = p /\ pc[p] \in {"apply", "restore"} /\ at[p] # 0
      BY <1>0, <2>3, WriteEffect DEF Local
    <3>2. job[p] # << >>
      BY <1>0, <3>1, Domains
    <3>3. job[q] = << >>
      BY <1>0, <1>1, <3>2 DEF Sole
    <3>4. pc[q] \notin {"planned", "prepare"}
      BY <1>0, <3>3 DEF Typed, Placed
    <3>5. pc[q] \notin {"verify", "apply", "publish"}
      BY <1>0, <1>1, <3>1 DEF Typed, LocksOK
    <3> QED
      BY <2>1, <3>4, <3>5 DEF Carries, Publishers
  <2> QED
    BY <2>2, <2>3
<1>2. ASSUME entry' = entry PROVE Carries(p)'
  <2>1. CASE \E update \in Updates : job'[p] = Planned(update)
    <3>1. PICK update \in Updates : job'[p] = Planned(update)
      BY <2>1
    <3>2. PlanFor(job'[p], update, entry')
      BY <1>0, <1>2, <3>1, PlansAreForUpdates
    <3> QED
      BY <3>2 DEF Carries
  <2>2. CASE pc'[p] \in Publishers => pc[p] \in Publishers /\ job'[p] = job[p]
    BY <1>0, <1>2, <2>2 DEF Carries
  <2>3. \/ \E update \in Updates : job'[p] = Planned(update)
        \/ pc'[p] \in Publishers => pc[p] \in Publishers /\ job'[p] = job[p]
    <3>1. CASE Aside(p)
      BY <3>1 DEF Aside, Jobless, Publishers
    <3>2. CASE Prepares(p) \/ Looks(p) \/ Replaces(p) \/ Restores(p) \/ Empties(p)
      BY <3>2 DEF Prepares, Looks, Replaces, Restores, Empties, Writes, Moved, Publishers
    <3>3. CASE GivesUp(p) \/ Passes(p) \/ Publishes(p) \/ Completes(p) \/ Finishes(p)
               \/ TakesOver(p)
      BY <3>3 DEF GivesUp, Passes, Publishes, Completes, Finishes, TakesOver, Moved, Publishers
    <3> QED
      BY <3>1, <3>2, <3>3 DEF Effect
  <2> QED
    BY <2>1, <2>2, <2>3
<1>3. ASSUME entry' # entry PROVE Carries(p)'
  <2>1. /\ Replaces(p) \/ Restores(p) \/ Empties(p)
        /\ at[p] \in DOMAIN receipt.changes /\ receipt.changes[at[p]] = c
        /\ \A s \in Slots \ {c.path} : entry'[s] = entry[s]
    BY <1>0, <1>3, WriteEffect
  <2>2. CASE pc'[p] \notin Publishers
    BY <2>2 DEF Carries
  <2>3. CASE pc'[p] \in Publishers
    <3>1. pc[p] \in Publishers /\ job'[p] = job[p] /\ receipt.changes = job[p]
      BY <1>0, <2>1, <2>3 DEF Replaces, Restores, Empties, Writes, Moved, Publishers, Typed,
                              OwnReceipt
    <3>2. PICK update \in Updates : PlanFor(job[p], update, entry)
      BY <1>0, <3>1 DEF Carries
    <3>3. ASSUME NEW j \in DOMAIN update.changes,
                 ~\E i \in DOMAIN job[p] : job[p][i].path = update.changes[j].path
          PROVE  Left(update.changes[j], entry')
      <4>1. Left(update.changes[j], entry) /\ update.changes[j].path # c.path
        BY <2>1, <3>1, <3>2, <3>3 DEF PlanFor
      <4>2. update.changes[j].path \in Slots
        BY OfferIsTyped
      <4> QED
        BY <2>1, <4>1, <4>2 DEF Left
    <3>4. PlanFor(job'[p], update, entry')
      BY <3>1, <3>2, <3>3 DEF PlanFor
    <3> QED
      BY <3>4 DEF Carries
  <2> QED
    BY <2>2, <2>3
<1> QED
  BY <1>1, <1>2, <1>3

LEMMA UserEditKeepsAInv ==
  ASSUME AInv, NEW f \in Files, UserEdit(f)
  PROVE  Sole' /\ \A p \in Procs : Carries(p)'
<1>1. /\ entry' = [entry EXCEPT ![Slot(f)] = Edited]
      /\ UNCHANGED <<receipt, pc, job>>
  BY DEF UserEdit
<1>2. /\ Slot(f) \in Files /\ Slot(f) \in Slots /\ entry = [s \in Slots |-> entry[s]]
      /\ Sole /\ \A p \in Procs : Carries(p)
  BY PathImage, Domains DEF AInv, IInv, Typed, Slots
<1>3. Sole'
  BY <1>1, <1>2 DEF Sole, Pending
<1>4. ASSUME NEW update \in Updates, NEW plan, PlanFor(plan, update, entry)
      PROVE  PlanFor(plan, update, entry')
  <2>1. ASSUME NEW j \in DOMAIN update.changes, Left(update.changes[j], entry)
        PROVE  Left(update.changes[j], entry')
    <3>1. update.changes[j].path \in Slots
      BY OfferIsTyped
    <3> QED
      BY <1>1, <1>2, <2>1, <3>1 DEF Left
  <2> QED
    BY <1>4, <2>1 DEF PlanFor
<1>5. \A p \in Procs : Carries(p)'
  BY <1>1, <1>2, <1>4 DEF Carries
<1> QED
  BY <1>3, <1>5

LEMMA AInvStays ==
  ASSUME AInv, Recoverable, ~EditsBeforeReplace, [Next]_vars, [PlansAlone]_vars
  PROVE  AInv'
<1>1. IInv' /\ InHand'
  BY IInvStays, InHandStays DEF AInv, IInv
<1>2. ASSUME NEW p \in Procs, Act(p), PlansAlone PROVE AInv'
  <2>1. Effect(p) /\ Local(p)
    BY <1>2, Effects, StepIsLocal DEF AInv, IInv
  <2>2. Sole' /\ \A q \in Procs : Carries(q)'
    BY <1>1, <1>2, <2>1, SoleStays, CarriesStays DEF IInv
  <2> QED
    BY <1>1, <2>2 DEF AInv
<1>3. ASSUME NEW f \in Files, UserEdit(f) PROVE AInv'
  BY <1>1, <1>3, UserEditKeepsAInv DEF AInv
<1>4. CASE UNCHANGED vars
  BY <1>1, <1>4 DEF vars, AInv, Sole, Pending, Carries
<1> QED
  BY <1>2, <1>3, <1>4, NextIsAct

\* What a change stands for until its update is published.
Standing(c, entries) ==
  IF c.path \in Files /\ entries[c.path] = Edited THEN Edited ELSE c.before

LEMMA StoreOfChange ==
  ASSUME IInv, receipt.phase = "prepared", NEW i \in DOMAIN receipt.changes
  PROVE  LET c == receipt.changes[i] IN Store[c.path] = Standing(c, entry)
<1> DEFINE c == receipt.changes[i]
<1>1. c \in ChangeSet /\ c.path \in Slots
  BY RecordedIsTyped DEF IInv
<1>2. ChangeOf(c.path) = {i}
  BY DEF IInv, Shapes, Shaped, OneChangePerPath, ChangeOf
<1>3. Store[c.path] = Undone(c.path, c)
  BY <1>1, <1>2 DEF Store
<1>4. PutBack(c) \/ Applied(c) \/ Gap(c)
  BY DEF IInv, Accounted
<1>5. CASE c.path \in Files /\ entry[c.path] = Edited
  <2>1. c.after # Edited /\ c.before # "directory"
    BY <1>1, <1>5, ChangeIsTyped, DirectoriesAreLinks, TransactionAssumption
    DEF TransactionAssumption, Absent, Edited
  <2> QED
    BY <1>3, <1>5, <2>1 DEF Undone, Standing
<1>6. CASE ~(c.path \in Files /\ entry[c.path] = Edited)
  BY <1>3, <1>4, <1>6 DEF Undone, Standing, PutBack, Applied, Gap, Overwritten
<1> QED
  BY <1>5, <1>6

LEMMA StoreElsewhere ==
  ASSUME NEW s \in Slots,
         receipt.phase # "prepared" \/ \A i \in DOMAIN receipt.changes : receipt.changes[i].path # s
  PROVE  Store[s] = entry[s]
BY DEF Store, ChangeOf

LEMMA StoreIsTyped ==
  ASSUME Typed
  PROVE  Store \in [Slots -> Images]
<1>1. ASSUME NEW s \in Slots PROVE Store[s] \in Images
  <2>1. CASE receipt.phase = "prepared" /\ ChangeOf(s) # {}
    <3>1. PICK i \in DOMAIN receipt.changes : Store[s] = Undone(s, receipt.changes[i])
      BY <2>1 DEF Store, ChangeOf
    <3>2. receipt.changes[i].before \in Images
      BY RecordedIsTyped, DirectoriesAreLinks DEF ChangeSet, Images
    <3> QED
      BY <3>1, <3>2 DEF Undone, Typed, EntriesOK
  <2>2. CASE ~(receipt.phase = "prepared" /\ ChangeOf(s) # {})
    BY <2>2 DEF Store, Typed, EntriesOK
  <2> QED
    BY <2>1, <2>2
<1> QED
  BY <1>1 DEF Store

\* What the file system stands for: a change that is not published does not count.
StoreRead ==
  /\ Store \in [Slots -> Images]
  /\ receipt.phase = "prepared" =>
       \A i \in DOMAIN receipt.changes :
         Store[receipt.changes[i].path] = Standing(receipt.changes[i], entry)
  /\ \A s \in Slots :
       receipt.phase # "prepared" \/ (\A i \in DOMAIN receipt.changes : receipt.changes[i].path # s)
         => Store[s] = entry[s]

LEMMA StoreIsRead == IInv => StoreRead
BY StoreOfChange, StoreElsewhere, StoreIsTyped DEF StoreRead, IInv

LEMMA StoreIsReadAfter == IInv' => StoreRead'
BY StoreIsRead, PTL

\* While p applies or puts back a change, or takes the first step of either, the update goes on
\* standing for what was there before it.
LEMMA WritingKeepsStore ==
  ASSUME AInv, IInv', Recoverable, NEW p \in Procs, Effect(p), entry' # entry
  PROVE  Store' = Store
<1> DEFINE c == job[p][at[p]]
<1>0. StoreRead /\ StoreRead' /\ IInv /\ Position(p)
  BY StoreIsRead, StoreIsReadAfter DEF AInv, IInv
<1>1. /\ Replaces(p) \/ Restores(p) \/ Empties(p)
      /\ pc[p] \in {"apply", "restore"}
      /\ c \in ChangeSet /\ c.path \in Slots
      /\ at[p] \in DOMAIN receipt.changes /\ receipt.changes[at[p]] = c
      /\ Homed(c.path) => entry[Home[c.path]] = "directory"
      /\ entry'[c.path] = (IF Replaces(p) THEN c.after
                           ELSE IF Restores(p) THEN c.before ELSE Absent)
      /\ \A s \in Slots \ {c.path} : entry'[s] = entry[s]
  BY <1>0, WriteEffect
<1>2. receipt' = receipt /\ receipt.phase = "prepared"
  BY <1>0, OnlyInHand
<1>3. Standing(c, entry') = Standing(c, entry)
  <2>1. CASE c.path \notin Files
    BY <2>1 DEF Standing
  <2>2. CASE c.path \in Files
    <3>1. c.path \notin Links
      BY <2>2, TransactionAssumption DEF TransactionAssumption
    <3>2. ~Empties(p)
      BY <3>1 DEF Empties
    <3>3. c.after # Edited
      BY <1>1, <2>2, ChangeIsTyped, TransactionAssumption
      DEF TransactionAssumption, Absent, Edited
    <3>4. Current(c.path) = entry[c.path] /\ Fresh(p)
      BY <1>0, <1>1, LeadsToItself DEF AInv, InHand, IInv, Typed
    <3>5. CASE Replaces(p)
      <4>1. entry[c.path] = c.before
        BY <2>2, <3>4, <3>5 DEF Fresh, Replaces
      <4> QED
        BY <1>1, <3>3, <3>5, <4>1 DEF Standing
    <3>6. CASE Restores(p) /\ ~Replaces(p)
      <4>1. entry[c.path] = c.after
        BY <2>2, <3>4, <3>6 DEF Fresh, Restores
      <4> QED
        BY <1>1, <3>3, <3>6, <4>1 DEF Standing
    <3> QED
      BY <1>1, <3>2, <3>5, <3>6
  <2> QED
    BY <2>1, <2>2
<1>4. ASSUME NEW s \in Slots PROVE Store'[s] = Store[s]
  <2>1. CASE s = c.path
    BY <1>0, <1>1, <1>2, <1>3, <2>1 DEF StoreRead
  <2>2. CASE s # c.path /\ \E i \in DOMAIN receipt.changes : receipt.changes[i].path = s
    <3>1. PICK i \in DOMAIN receipt.changes : receipt.changes[i].path = s
      BY <2>2
    <3>2. Standing(receipt.changes[i], entry') = Standing(receipt.changes[i], entry)
      BY <1>1, <2>2, <3>1 DEF Standing
    <3> QED
      BY <1>0, <1>2, <3>1, <3>2 DEF StoreRead
  <2>3. CASE s # c.path /\ \A i \in DOMAIN receipt.changes : receipt.changes[i].path # s
    BY <1>0, <1>1, <1>2, <2>3 DEF StoreRead
  <2> QED
    BY <2>1, <2>2, <2>3
<1> QED
  BY <1>0, <1>4 DEF StoreRead

\* Writing a receipt, and removing one that has been put back or published, changes nothing.
LEMMA ReceiptKeepsStore ==
  ASSUME AInv, IInv', NEW p \in Procs, Prepares(p) \/ Finishes(p)
  PROVE  Store' = Store
<1>0. StoreRead /\ StoreRead' /\ IInv /\ Position(p) /\ Typed
  BY StoreIsRead, StoreIsReadAfter DEF AInv, IInv
<1>1. CASE Prepares(p)
  <2>1. /\ entry' = entry /\ receipt.phase # "prepared"
        /\ receipt'.phase = "prepared" /\ receipt'.changes = job[p]
        /\ \A i \in DOMAIN job[p] : entry[job[p][i].path] = job[p][i].before
    BY <1>1 DEF Prepares, Pending
  <2>2. \A i \in DOMAIN job[p] : Standing(job[p][i], entry) = entry[job[p][i].path]
    BY <2>1 DEF Standing
  <2>3. \A s \in Slots : Store[s] = entry[s] /\ Store'[s] = entry[s]
    BY <1>0, <2>1, <2>2 DEF StoreRead
  <2> QED
    BY <1>0, <2>3 DEF StoreRead
<1>2. CASE Finishes(p)
  <2>1. entry' = entry /\ receipt'.phase = "none" /\ pc[p] = "finish"
    BY <1>2 DEF Finishes, NoReceipt
  <2>2. receipt.phase = "prepared" =>
          \A i \in DOMAIN receipt.changes :
            Standing(receipt.changes[i], entry) = entry[receipt.changes[i].path]
    BY <1>0, <2>1 DEF Position, PutBack, Overwritten, Standing
  <2>3. \A s \in Slots : Store[s] = entry[s] /\ Store'[s] = entry[s]
    BY <1>0, <2>1, <2>2 DEF StoreRead
  <2> QED
    BY <1>0, <2>3 DEF StoreRead
<1> QED
  BY <1>1, <1>2

\* The published phase is the commit: all of the update takes effect.
LEMMA PublishingCommits ==
  ASSUME AInv, IInv', NEW p \in Procs, Publishes(p)
  PROVE  \E promise \in Promised : Atomic!Commit(promise)
<1>0. StoreRead /\ StoreRead' /\ IInv /\ Position(p) /\ Typed /\ Carries(p)
  BY StoreIsRead, StoreIsReadAfter DEF AInv, IInv
<1>1. /\ entry' = entry /\ pc[p] = "publish" /\ receipt.phase = "prepared"
      /\ receipt'.phase = "published" /\ receipt.changes = job[p]
      /\ \A i \in DOMAIN job[p] : Applied(job[p][i])
  BY <1>0 DEF Publishes, Position, Working, Typed, OwnReceipt
<1>2. PICK update \in Updates : PlanFor(job[p], update, entry)
  BY <1>0, <1>1 DEF Carries, Publishers
<1> DEFINE changes == update.changes
           paths == {changes[i].path : i \in DOMAIN changes}
           promise == [s \in paths |->
                         changes[CHOOSE i \in DOMAIN changes : changes[i].path = s].after]
<1>3. OneChangePerPath(changes)
  BY TransactionAssumption DEF TransactionAssumption
<1>4. \A j \in DOMAIN changes : changes[j].path \in Slots
  BY OfferIsTyped
<1>5. DOMAIN promise = paths
  OBVIOUS
<1>6. \A j \in DOMAIN changes : changes[j].path \in paths
                                /\ promise[changes[j].path] = changes[j].after
  BY <1>3 DEF OneChangePerPath
<1>7. promise \in Promised
  BY DEF Promised
<1> HIDE DEF promise
<1>8. \A s \in Slots : Store'[s] = entry[s]
  BY <1>0, <1>1 DEF StoreRead
<1>9. ASSUME NEW s \in paths
      PROVE  Store'[s] = promise[s] \/ (Store[s] = Edited /\ Store'[s] = Edited)
  <2>1. PICK j \in DOMAIN changes : s = changes[j].path
    OBVIOUS
  <2>2. s \in Slots /\ promise[s] = changes[j].after /\ Store'[s] = entry[s]
    BY <1>4, <1>6, <1>8, <2>1
  <2>3. CASE \E i \in DOMAIN job[p] : job[p][i].path = s
    <3>1. PICK i \in DOMAIN job[p] : job[p][i].path = s
      BY <2>3
    <3>2. job[p][i].after = changes[j].after
      BY <1>2, <1>3, <2>1, <3>1 DEF PlanFor, OneChangePerPath
    <3>3. CASE entry[s] = job[p][i].after
      BY <2>2, <3>2, <3>3
    <3>4. CASE s \in Files /\ entry[s] = Edited
      BY <1>0, <1>1, <2>2, <3>1, <3>4 DEF StoreRead, Standing
    <3> QED
      BY <1>1, <3>1, <3>3, <3>4 DEF Applied, Overwritten
  <2>4. CASE ~\E i \in DOMAIN job[p] : job[p][i].path = s
    <3>1. Left(changes[j], entry)
      BY <1>2, <2>1, <2>4 DEF PlanFor
    <3>2. Store[s] = entry[s]
      BY <1>0, <1>1, <2>2, <2>4 DEF StoreRead
    <3> QED
      BY <2>1, <2>2, <3>1, <3>2 DEF Left
  <2> QED
    BY <2>3, <2>4
<1>10. ASSUME NEW s \in Slots \ paths PROVE Store'[s] = Store[s]
  <2>1. \A i \in DOMAIN job[p] : job[p][i].path # s
    BY <1>2, <1>10 DEF PlanFor
  <2> QED
    BY <1>0, <1>1, <1>8, <2>1 DEF StoreRead
<1> HIDE DEF paths
<1> QED
  BY <1>0, <1>5, <1>7, <1>9, <1>10 DEF StoreRead, Atomic!Commit

\* A user's text counts at once.
LEMMA EditingEdits ==
  ASSUME IInv, IInv', NEW f \in Files, UserEdit(f)
  PROVE  \E s \in Slots : Atomic!UserEdit(s)
<1> DEFINE s == Slot(f)
<1>0. /\ StoreRead /\ StoreRead' /\ s \in Files /\ s \in Slots
      /\ entry = [r \in Slots |-> entry[r]]
  BY StoreIsRead, StoreIsReadAfter, PathImage, Domains DEF IInv, Typed, Slots
<1>1. entry' = [entry EXCEPT ![s] = Edited] /\ receipt' = receipt
  BY DEF UserEdit
<1> HIDE DEF s
<1>2. entry'[s] = Edited /\ \A r \in Slots \ {s} : entry'[r] = entry[r]
  BY <1>0, <1>1
<1>3. \A i \in DOMAIN receipt.changes :
        receipt.phase = "prepared" => receipt.changes[i].path \in Slots
  BY RecordedIsTyped DEF IInv
<1>4. Store'[s] = Edited
  BY <1>0, <1>1, <1>2 DEF StoreRead, Standing
<1>5. ASSUME NEW r \in Slots \ {s} PROVE Store'[r] = Store[r]
  <2>1. CASE receipt.phase = "prepared"
             /\ \E i \in DOMAIN receipt.changes : receipt.changes[i].path = r
    <3>1. PICK i \in DOMAIN receipt.changes : receipt.changes[i].path = r
      BY <2>1
    <3>2. Standing(receipt.changes[i], entry') = Standing(receipt.changes[i], entry)
      BY <1>2, <3>1 DEF Standing
    <3>3. Store[r] = Standing(receipt.changes[i], entry)
      BY <1>0, <2>1, <3>1 DEF StoreRead
    <3>4. Store'[r] = Standing(receipt.changes[i], entry')
      <4>1. receipt'.phase = "prepared" /\ receipt'.changes = receipt.changes
        BY <1>1, <2>1
      <4> QED
        BY <1>0, <3>1, <4>1 DEF StoreRead
    <3> QED
      BY <3>2, <3>3, <3>4
  <2>2. CASE ~(receipt.phase = "prepared"
               /\ \E i \in DOMAIN receipt.changes : receipt.changes[i].path = r)
    BY <1>0, <1>1, <1>2, <2>2 DEF StoreRead
  <2> QED
    BY <2>1, <2>2
<1>6. Store' = [Store EXCEPT ![s] = Edited]
  <2>1. DOMAIN Store' = Slots /\ DOMAIN Store = Slots
    BY <1>0 DEF StoreRead
  <2> HIDE DEF Store
  <2> QED
    BY <1>0, <1>4, <1>5, <2>1 DEF StoreRead
<1> QED
  BY <1>0, <1>6 DEF Atomic!UserEdit

LEMMA StepIsAtomic ==
  ASSUME AInv, AInv', Recoverable, [Next]_vars
  PROVE  [Atomic!Next]_Store
<1>0. IInv /\ IInv'
  BY DEF AInv
<1>1. ASSUME NEW p \in Procs, Act(p) PROVE [Atomic!Next]_Store
  <2>1. Effect(p)
    BY <1>0, <1>1, Effects
  <2>2. CASE UNCHANGED <<entry, receipt>>
    BY <2>2 DEF Store, ChangeOf, Undone
  <2>3. CASE entry' # entry
    BY <1>0, <2>1, <2>3, WritingKeepsStore
  <2>4. CASE Prepares(p) \/ Finishes(p)
    BY <1>0, <2>4, ReceiptKeepsStore
  <2>5. CASE Publishes(p)
    BY <1>0, <2>5, PublishingCommits DEF Atomic!Next
  <2>6. \/ UNCHANGED <<entry, receipt>> \/ entry' # entry \/ Prepares(p) \/ Finishes(p)
        \/ Publishes(p)
    BY <2>1 DEF Effect, Aside, Looks, Replaces, Restores, Empties, GivesUp, Passes, Completes,
                TakesOver, Writes, Still
  <2> QED
    BY <2>2, <2>3, <2>4, <2>5, <2>6
<1>2. ASSUME NEW f \in Files, UserEdit(f) PROVE [Atomic!Next]_Store
  BY <1>0, <1>2, EditingEdits DEF Atomic!Next
<1>3. CASE UNCHANGED vars
  BY <1>3 DEF vars, Store, ChangeOf, Undone
<1> QED
  BY <1>1, <1>2, <1>3, NextIsAct

LEMMA AInvInitially == Init => AInv
<1> SUFFICES ASSUME Init PROVE AInv
  OBVIOUS
<1>1. InHand
  BY DEF Init, InHand, Fresh
<1>2. Sole /\ \A p \in Procs : Carries(p)
  BY DEF Init, Sole, Carries, Publishers
<1> QED
  BY <1>1, <1>2, IInvInitially DEF AInv

\* With one update at a time and no edit between the last look at a file and its replacement, an
\* update takes effect on all its files and links at the moment its receipt is published or on
\* none, wherever it dies and however often it is recovered; with copied packages, if no operation
\* fails (execute_transaction_with, recover_text_file_transaction).
THEOREM UpdatesAreAtomic ==
  Spec /\ UpdatesAlone /\ Recoverable /\ ~EditsBeforeReplace => AllOrNothing
<1>1. SUFFICES ASSUME Recoverable, ~EditsBeforeReplace
               PROVE  Spec /\ UpdatesAlone => AllOrNothing
  OBVIOUS
<1>2. AInv /\ [Next]_vars /\ [PlansAlone]_vars => AInv'
  BY <1>1, AInvStays
<1>3. AInv /\ AInv' /\ [Next]_vars => [Atomic!Next]_Store
  BY <1>1, StepIsAtomic
<1>4. AInv => Store \in [Slots -> Images]
  BY StoreIsTyped DEF AInv, IInv
<1>5. Init => Atomic!Init
  BY <1>4, AInvInitially DEF Atomic!Init
<1> QED
  BY <1>2, <1>3, <1>5, AInvInitially, PTL DEF Spec, UpdatesAlone, AllOrNothing, Atomic!Spec

\* One process that plans only where nothing is pending has its updates alone.
LEMMA PlansByItself ==
  ASSUME AInv, ~PlanDuringUpdate, \A p, q \in Procs : p = q
  PROVE  PlansAlone
<1> SUFFICES ASSUME NEW p \in Procs, NEW update \in Updates, Plan(p, update), NEW q \in Procs
             PROVE  ~Pending /\ job[q] = << >>
  BY DEF PlansAlone
<1>1. ~Pending /\ pc[p] = "idle"
  BY DEF Plan
<1> QED
  BY <1>1 DEF AInv, Sole, Jobless

\* One process after another, crashes and recoveries included, updates all or nothing if it plans
\* once what an earlier one left is recovered (install_with_receipt, uninstall_with_receipt).
THEOREM AloneIsAtomic ==
  /\ Spec /\ Recoverable /\ ~EditsBeforeReplace
  /\ ~PlanDuringUpdate /\ (\A p, q \in Procs : p = q)
  => AllOrNothing
<1>1. SUFFICES ASSUME Recoverable, ~EditsBeforeReplace, ~PlanDuringUpdate,
                      \A p, q \in Procs : p = q
               PROVE  Spec => AllOrNothing
  OBVIOUS
<1>2. AInv /\ [Next]_vars => AInv' /\ [PlansAlone]_vars
  <2> SUFFICES ASSUME AInv, [Next]_vars PROVE AInv' /\ PlansAlone
    OBVIOUS
  <2>1. PlansAlone
    BY <1>1, PlansByItself
  <2> QED
    BY <1>1, <2>1, AInvStays
<1>3. Spec => UpdatesAlone
  BY <1>2, AInvInitially, PTL DEF Spec, UpdatesAlone
<1> QED
  BY <1>1, <1>3, UpdatesAreAtomic

=============================================================================
