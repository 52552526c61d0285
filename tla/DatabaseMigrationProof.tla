----------------------- MODULE DatabaseMigrationProof -----------------------
(***************************************************************************)
(* For any number of processes, kills, failing operations and power        *)
(* losses: the types of a migration, and that it replaces nothing that     *)
(* others made.  With one process that migrates, the destination is never  *)
(* an incomplete copy; and where the rename of the database and the sync   *)
(* of its directory are not interrupted, no receipt outlives its copy.     *)
(***************************************************************************)
EXTENDS DatabaseMigration, TLAPS

Contents == Entry \cup {Absent}

\* What a power loss may leave under the two names that are promised something.
Destinations == {img["destination"] : img \in images["data"]}
Receipts == {img["receipt"] : img \in images["record"]}

-----------------------------------------------------------------------------
(* Names and directories *)

LEMMA Names ==
  /\ Directories = {"data", "record"}
  /\ FilesOf["data"] = {"database", "destination"}
  /\ FilesOf["record"] = {"prepared", "final", "receipt"}
  /\ Files = {"database", "destination", "prepared", "final", "receipt"}
BY DEF Directories, FilesOf, Files

LEMMA InDirectory ==
  ASSUME NEW f \in Files
  PROVE  Directory(f) \in Directories /\ f \in FilesOf[Directory(f)]
<1>1. \E d \in Directories : f \in FilesOf[d]
  BY DEF Files
<1> QED
  BY <1>1 DEF Directory

LEMMA OneDirectory ==
  /\ Directory("database") = "data" /\ Directory("destination") = "data"
  /\ Directory("prepared") = "record" /\ Directory("final") = "record"
  /\ Directory("receipt") = "record"
<1>1. \A d \in Directories, f \in Files :
        f \in FilesOf[d] => d = (IF f \in {"database", "destination"} THEN "data" ELSE "record")
  BY Names
<1>2. \A f \in Files : Directory(f) = IF f \in {"database", "destination"} THEN "data" ELSE "record"
  BY <1>1, InDirectory
<1> QED
  BY <1>2, Names

LEMMA ViewType ==
  ASSUME NEW fs \in [Files -> Contents], NEW d \in Directories
  PROVE  /\ View(fs, d) \in [FilesOf[d] -> Contents]
         /\ \A f \in FilesOf[d] : View(fs, d)[f] = fs[f]
<1>1. FilesOf[d] \subseteq Files
  BY DEF Files
<1> QED
  BY <1>1 DEF View, Restrict

-----------------------------------------------------------------------------
(* One operation on the files *)

DiskOK ==
  /\ disk \in [Files -> Contents]
  /\ DOMAIN images = Directories
  /\ \A d \in Directories : images[d] \subseteq [FilesOf[d] -> Contents]

\* What the processes see is among what a power loss may leave.
Shown == disk["destination"] \in Destinations /\ disk["receipt"] \in Receipts

\* An operation adds what it does to what a power loss may leave, or takes away from it.
Grown ==
  /\ Destinations' \subseteq Destinations \cup {disk'["destination"]}
  /\ Receipts' \subseteq Receipts \cup {disk'["receipt"]}

Kept == DiskOK' /\ Shown' /\ Grown

LEMMA ChangeKeeps ==
  ASSUME DiskOK, Shown, NEW d \in Directories, NEW fs \in [Files -> Contents], Change(d, fs),
         \A f \in Files \ FilesOf[d] : fs[f] = disk[f]
  PROVE  Kept /\ disk' = fs
<1>1. disk' = fs /\ images' = [images EXCEPT ![d] = @ \cup {View(fs, d)}]
  BY DEF Change
<1>2. /\ View(fs, d) \in [FilesOf[d] -> Contents]
      /\ \A f \in FilesOf[d] : View(fs, d)[f] = fs[f]
  BY ViewType
<1>3. /\ images'[d] = images[d] \cup {View(fs, d)}
      /\ \A e \in Directories \ {d} : images'[e] = images[e]
  BY <1>1 DEF DiskOK
<1>4. DiskOK'
  BY <1>1, <1>2, <1>3 DEF DiskOK
<1>5. CASE d = "data"
  <2>1. Destinations' = Destinations \cup {fs["destination"]}
    BY <1>2, <1>3, <1>5, Names DEF Destinations
  <2>2. Receipts' = Receipts /\ fs["receipt"] = disk["receipt"]
    BY <1>3, <1>5, Names DEF Receipts
  <2> QED
    BY <1>1, <1>4, <2>1, <2>2 DEF Kept, Shown, Grown
<1>6. CASE d = "record"
  <2>1. Receipts' = Receipts \cup {fs["receipt"]}
    BY <1>2, <1>3, <1>6, Names DEF Receipts
  <2>2. Destinations' = Destinations /\ fs["destination"] = disk["destination"]
    BY <1>3, <1>6, Names DEF Destinations
  <2> QED
    BY <1>1, <1>4, <2>1, <2>2 DEF Kept, Shown, Grown
<1> QED
  BY <1>5, <1>6, Names

LEMMA PutKeeps ==
  ASSUME DiskOK, Shown, NEW f \in Files, NEW e \in Contents,
         Change(Directory(f), [disk EXCEPT ![f] = e])
  PROVE  Kept /\ disk' = [disk EXCEPT ![f] = e]
<1> DEFINE fs == [disk EXCEPT ![f] = e]
<1>1. fs \in [Files -> Contents] /\ \A g \in Files \ {f} : fs[g] = disk[g]
  BY DEF DiskOK
<1>2. Directory(f) \in Directories /\ f \in FilesOf[Directory(f)]
  BY InDirectory
<1> QED
  BY <1>1, <1>2, ChangeKeeps

LEMMA EntryMade ==
  ASSUME NEW v \in Copies \cup {Torn, Foreign, Used}, NEW synced \in BOOLEAN
  PROVE  [data |-> v, synced |-> synced] \in Entry /\ [data |-> v, synced |-> synced] # Absent
<1>1. [data |-> v, synced |-> synced] \in Entry
  BY DEF Entry
<1> QED
  BY <1>1, ContentsAssumption DEF ContentsAssumption

LEMMA WriteKeeps ==
  ASSUME DiskOK, Shown, NEW f \in Files, NEW v \in Copies \cup {Torn, Foreign, Used},
         NEW synced \in BOOLEAN, Write(f, v, synced)
  PROVE  Kept /\ disk' = [disk EXCEPT ![f] = [data |-> v, synced |-> synced]]
<1>1. [data |-> v, synced |-> synced] \in Contents
  BY EntryMade DEF Contents
<1> QED
  BY <1>1, PutKeeps DEF Write

LEMMA RemoveKeeps ==
  ASSUME DiskOK, Shown, NEW f \in Files, Remove(f)
  PROVE  Kept /\ disk' = [disk EXCEPT ![f] = Absent]
BY PutKeeps DEF Remove, Contents

LEMMA RenameKeeps ==
  ASSUME DiskOK, Shown, NEW f \in Files, NEW g \in Files, Directory(f) = Directory(g),
         Rename(f, g)
  PROVE  Kept /\ disk' = [disk EXCEPT ![g] = disk[f], ![f] = Absent]
<1> DEFINE fs == [disk EXCEPT ![g] = disk[f], ![f] = Absent]
<1>1. fs \in [Files -> Contents] /\ \A h \in Files \ {f, g} : fs[h] = disk[h]
  BY DEF DiskOK, Contents
<1>2. Directory(f) \in Directories /\ {f, g} \subseteq FilesOf[Directory(f)]
  BY InDirectory
<1> QED
  BY <1>1, <1>2, ChangeKeeps DEF Rename

LEMMA SyncFileKeeps ==
  ASSUME DiskOK, Shown, Exists("database"), SyncFile("database")
  PROVE  Kept /\ disk' = [disk EXCEPT !["database"] = [disk["database"] EXCEPT !.synced = TRUE]]
<1> DEFINE safe == [disk["database"] EXCEPT !.synced = TRUE]
           Safe(img) == [img EXCEPT !["database"] = IF @ = disk["database"] THEN safe ELSE @]
<1>1. "database" \in Files /\ "database" \in FilesOf["data"] /\ "data" \in Directories
  BY Names
<1>2. safe \in Contents
  <2>1. disk["database"] \in Entry
    BY <1>1 DEF DiskOK, Contents, Exists
  <2> QED
    BY <2>1 DEF Entry, Contents
<1>3. /\ disk' = [disk EXCEPT !["database"] = safe]
      /\ images' = [images EXCEPT !["data"] = {Safe(img) : img \in @}]
  BY OneDirectory DEF SyncFile
<1>4. \A img \in images["data"] :
        Safe(img) \in [FilesOf["data"] -> Contents] /\ Safe(img)["destination"] = img["destination"]
  BY <1>1, <1>2, Names DEF DiskOK
<1> HIDE DEF safe, Safe
<1>5. images'["data"] = {Safe(img) : img \in images["data"]} /\ images'["record"] = images["record"]
  BY <1>1, <1>3 DEF DiskOK, Directories
<1>6. DiskOK'
  BY <1>1, <1>2, <1>3, <1>4, <1>5, Names DEF DiskOK
<1>7. Destinations' = Destinations
  BY <1>4, <1>5 DEF Destinations
<1>8. Receipts' = Receipts
  BY <1>5 DEF Receipts
<1>9. disk'["destination"] = disk["destination"] /\ disk'["receipt"] = disk["receipt"]
  BY <1>3, Names DEF DiskOK
<1> QED
  BY <1>3, <1>6, <1>7, <1>8, <1>9 DEF Kept, Shown, Grown, safe

LEMMA SyncParentKeeps ==
  ASSUME DiskOK, Shown, NEW f \in Files, SyncParent(f)
  PROVE  /\ Kept /\ disk' = disk
         /\ f = "destination" => Destinations' = {disk["destination"]}
<1> DEFINE d == Directory(f)
<1>1. d \in Directories
  BY InDirectory
<1>2. disk' = disk /\ images' = [images EXCEPT ![d] = {View(disk, d)}]
  BY DEF SyncParent
<1>3. /\ View(disk, d) \in [FilesOf[d] -> Contents]
      /\ \A g \in FilesOf[d] : View(disk, d)[g] = disk[g]
  BY <1>1, ViewType DEF DiskOK
<1>4. images'[d] = {View(disk, d)} /\ \A e \in Directories \ {d} : images'[e] = images[e]
  BY <1>1, <1>2 DEF DiskOK
<1>5. DiskOK'
  BY <1>1, <1>2, <1>3, <1>4 DEF DiskOK
<1>6. CASE d = "data"
  <2>1. Destinations' = {disk["destination"]}
    BY <1>3, <1>4, <1>6, Names DEF Destinations
  <2>2. Receipts' = Receipts
    BY <1>4, <1>6, Names DEF Receipts
  <2> QED
    BY <1>2, <1>5, <2>1, <2>2 DEF Kept, Shown, Grown
<1>7. CASE d = "record"
  <2>1. Receipts' = {disk["receipt"]}
    BY <1>3, <1>4, <1>7, Names DEF Receipts
  <2>2. Destinations' = Destinations
    BY <1>4, <1>7, Names DEF Destinations
  <2> QED
    BY <1>2, <1>5, <1>7, <2>1, <2>2, OneDirectory DEF Kept, Shown, Grown
<1> QED
  BY <1>1, <1>6, <1>7, Names

LEMMA NothingKeeps ==
  ASSUME DiskOK, Shown, UNCHANGED <<disk, images>>
  PROVE  Kept
BY DEF DiskOK, Shown, Kept, Grown, Destinations, Receipts

\* A return removes at most the staging file of its process.
LEMMA LeaveKeeps ==
  ASSUME DiskOK, Shown, NEW p \in Procs, Leave(p)
  PROVE  /\ Kept
         /\ \/ disk' = disk
            \/ \E f \in Owned(p) : disk' = [disk EXCEPT ![f] = Absent]
<1> DEFINE doomed == {f \in Owned(p) : Exists(f)}
<1>1. CASE doomed = {}
  BY <1>1, NothingKeeps DEF Leave
<1>2. CASE doomed # {}
  <2>1. PICK f \in doomed : Remove(f)
    BY <1>2 DEF Leave
  <2>2. f \in Files
    BY Names DEF Owned
  <2> QED
    BY <2>1, <2>2, RemoveKeeps
<1> QED
  BY <1>1, <1>2

-----------------------------------------------------------------------------
(* Types *)

Positions ==
  /\ pc \in [Procs -> Labels]
  /\ holder \in Procs \cup {Nobody}
  /\ \A p \in Procs : pc[p] \notin Unlocked <=> holder = p

\* What SyncFile needs, and what each of the proofs begins with.
Based ==
  /\ TypeOK /\ Shown /\ losses \in Nat
  /\ \A p \in Procs : pc[p] = "copied" => Exists("database")

LEMMA TypeParts ==
  TypeOK <=> DiskOK /\ Positions /\ source \in Copies /\ job \in [Procs -> Copies]
BY DEF TypeOK, DiskOK, Positions, Contents

LEMMA TypesThen ==
  DiskOK' /\ Positions' /\ source' \in Copies /\ job' \in [Procs -> Copies] => TypeOK'
BY DEF TypeOK, DiskOK, Positions, Contents

LEMMA OneHolder ==
  ASSUME Positions, NEW p \in Procs, pc[p] \notin Unlocked, NEW q \in Procs, q # p
  PROVE  pc[q] \in Unlocked
BY DEF Positions

LEMMA Proceeds ==
  ASSUME Positions, NEW p \in Procs, NEW l \in Labels, Goto(p, l),
         \/ /\ pc[p] \notin Unlocked <=> l \notin Unlocked
            /\ holder' = holder
         \/ /\ holder = Nobody /\ pc[p] \in Unlocked /\ l \notin Unlocked
            /\ holder' = p
  PROVE  Positions'
<1>1. Nobody \notin Procs
  BY MigrationAssumption DEF MigrationAssumption
<1>2. \A q \in Procs : pc'[q] = IF q = p THEN l ELSE pc[q]
  BY DEF Goto, Positions
<1>3. pc' \in [Procs -> Labels]
  BY DEF Goto, Positions
<1> QED
  BY <1>1, <1>2, <1>3 DEF Positions

LEMMA Returns ==
  ASSUME Positions, NEW p \in Procs, Goto(p, "idle"), Release(p)
  PROVE  Positions'
<1>1. Nobody \notin Procs
  BY MigrationAssumption DEF MigrationAssumption
<1>2. \A q \in Procs : pc'[q] = IF q = p THEN "idle" ELSE pc[q]
  BY DEF Goto, Positions
<1>3. pc' \in [Procs -> Labels]
  BY DEF Goto, Positions, Labels
<1> QED
  BY <1>1, <1>2, <1>3 DEF Positions, Release, Unlocked

\* The files after a step of the process p that is none of its checks and returns.
LEMMA FileOperations ==
  ASSUME Based, NEW p \in Procs,
         \/ CreateStaging(p) \/ CopySource(p) \/ FlushStaging(p) \/ CreatePrepared(p)
         \/ WritePrepared(p) \/ SyncPrepared(p) \/ PublishDatabase(p) \/ SyncDestination(p)
         \/ CreateFinal(p) \/ WriteFinal(p) \/ PublishReceipt(p) \/ SyncReceipt(p)
         \/ RemovePrepared(p) \/ SyncRemoval(p)
  PROVE  Kept
<1>1. DiskOK /\ Shown /\ source \in Copies /\ job[p] \in Copies
  BY TypeParts DEF Based
<1>2. CASE CreateStaging(p) \/ CreatePrepared(p) \/ CreateFinal(p)
  BY <1>1, <1>2, WriteKeeps, Names DEF CreateStaging, CreatePrepared, CreateFinal
<1>3. CASE CopySource(p)
  BY <1>1, <1>3, WriteKeeps, Names DEF CopySource
<1>4. CASE FlushStaging(p)
  BY <1>1, <1>4, SyncFileKeeps DEF FlushStaging, Based
<1>5. CASE WritePrepared(p) \/ WriteFinal(p)
  BY <1>1, <1>5, WriteKeeps, Names DEF WritePrepared, WriteFinal
<1>6. CASE SyncPrepared(p) \/ SyncDestination(p) \/ SyncReceipt(p) \/ SyncRemoval(p)
  BY <1>1, <1>6, SyncParentKeeps, Names
     DEF SyncPrepared, SyncDestination, SyncReceipt, SyncRemoval
<1>7. CASE PublishDatabase(p) \/ PublishReceipt(p)
  BY <1>1, <1>7, RenameKeeps, OneDirectory, Names DEF PublishDatabase, PublishReceipt
<1>8. CASE RemovePrepared(p)
  BY <1>1, <1>8, RemoveKeeps, Names DEF RemovePrepared
<1> QED
  BY <1>2, <1>3, <1>4, <1>5, <1>6, <1>7, <1>8

\* What a name shows after the power was lost, if e was to be found under it.
Survives(e, x) ==
  IF e = Absent THEN x = Absent
  ELSE /\ x # Absent /\ x.synced = TRUE
       /\ x.data = e.data \/ (~e.synced /\ x.data = Torn)

LEMMA PowerLossLeaves ==
  ASSUME TypeOK, PowerLoss
  PROVE  /\ DiskOK' /\ Shown'
         /\ Destinations' = {disk'["destination"]} /\ Receipts' = {disk'["receipt"]}
         /\ \A f \in Files : disk'[f] # Absent => disk'[f].synced = TRUE
         /\ \E dest \in Destinations, record \in Receipts :
              Survives(dest, disk'["destination"]) /\ Survives(record, disk'["receipt"])
<1>1. PICK data \in images["data"], record \in images["record"] :
        LET left == [f \in Files |-> IF f \in FilesOf["data"] THEN data[f] ELSE record[f]]
            unsafe == {f \in Files : left[f] # Absent /\ ~left[f].synced}
        IN \E torn \in SUBSET unsafe :
             disk' = [f \in Files |->
                        IF left[f] = Absent THEN Absent
                        ELSE [data |-> IF f \in torn THEN Torn ELSE left[f].data,
                              synced |-> TRUE]]
  BY DEF PowerLoss
<1> DEFINE left == [f \in Files |-> IF f \in FilesOf["data"] THEN data[f] ELSE record[f]]
<1>2. PICK torn \in SUBSET {f \in Files : left[f] # Absent /\ ~left[f].synced} :
        disk' = [f \in Files |->
                   IF left[f] = Absent THEN Absent
                   ELSE [data |-> IF f \in torn THEN Torn ELSE left[f].data, synced |-> TRUE]]
  BY <1>1
<1>3. images' = [d \in Directories |-> {View(disk', d)}]
  BY DEF PowerLoss
<1>4. /\ data \in [FilesOf["data"] -> Contents] /\ record \in [FilesOf["record"] -> Contents]
      /\ left["destination"] = data["destination"] /\ left["receipt"] = record["receipt"]
  BY Names DEF TypeOK, Contents
<1>5. \A f \in Files : left[f] \in Contents
  BY <1>4, Names
<1> HIDE DEF left
<1>6. ASSUME NEW f \in Files
      PROVE  disk'[f] \in Contents /\ Survives(left[f], disk'[f])
  <2>1. CASE left[f] = Absent
    BY <1>2, <2>1 DEF Contents, Survives
  <2>2. CASE left[f] # Absent
    <3>1. disk'[f] = [data |-> IF f \in torn THEN Torn ELSE left[f].data, synced |-> TRUE]
      BY <1>2, <2>2
    <3>2. left[f] \in Entry
      BY <1>5, <2>2 DEF Contents
    <3>3. disk'[f] \in Entry /\ disk'[f] # Absent
      <4>1. (IF f \in torn THEN Torn ELSE left[f].data) \in Copies \cup {Torn, Foreign, Used}
        BY <3>2 DEF Entry
      <4> QED
        BY <3>1, <4>1, EntryMade
    <3>4. f \in torn => ~left[f].synced
      BY <1>2
    <3> QED
      BY <2>2, <3>1, <3>3, <3>4 DEF Contents, Survives
  <2> QED
    BY <2>1, <2>2
<1>7. disk' \in [Files -> Contents]
  <2>1. disk' = [f \in Files |-> disk'[f]]
    BY <1>2
  <2> QED
    BY <1>6, <2>1
<1>8. \A d \in Directories :
        /\ View(disk', d) \in [FilesOf[d] -> Contents]
        /\ \A f \in FilesOf[d] : View(disk', d)[f] = disk'[f]
  BY <1>7, ViewType
<1>9. DiskOK'
  BY <1>3, <1>7, <1>8 DEF DiskOK
<1>10. Destinations' = {disk'["destination"]} /\ Receipts' = {disk'["receipt"]}
  <2>1. images'["data"] = {View(disk', "data")} /\ images'["record"] = {View(disk', "record")}
    BY <1>3, Names
  <2>2. View(disk', "data")["destination"] = disk'["destination"]
    BY <1>8, Names
  <2>3. View(disk', "record")["receipt"] = disk'["receipt"]
    BY <1>8, Names
  <2> QED
    BY <2>1, <2>2, <2>3 DEF Destinations, Receipts
<1>11. data["destination"] \in Destinations /\ record["receipt"] \in Receipts
  BY DEF Destinations, Receipts
<1>12. \A f \in Files : disk'[f] # Absent => disk'[f].synced = TRUE
  BY <1>6 DEF Survives
<1> QED
  BY <1>4, <1>6, <1>9, <1>10, <1>11, <1>12, Names DEF Shown

\* A step of the process p, and one that goes on.
Act(p) == Validate(p) \/ LoadReceipt(p) \/ Step(p) \/ Fail(p) \/ Kill(p)
Onward(p, l) ==
  /\ l \in Labels /\ Goto(p, l)
  /\ \/ (pc[p] \notin Unlocked <=> l \notin Unlocked) /\ holder' = holder
     \/ holder = Nobody /\ pc[p] \in Unlocked /\ l \notin Unlocked /\ holder' = p

LEMMA NextActs ==
  ASSUME [Next]_vars
  PROVE  \/ \E p \in Procs : Act(p)
         \/ PowerLoss \/ RefreshSource \/ UseDestination \/ CreateForeign \/ UNCHANGED vars
BY DEF Next, Act

\* Every step of a process goes on or returns, and only a copy or a receipt is kept in mind.
LEMMA Moves ==
  ASSUME Based, NEW p \in Procs, Act(p)
  PROVE  /\ (\E l \in Labels : Onward(p, l)) \/ (Goto(p, "idle") /\ Release(p))
         /\ \/ job' = job
            \/ \E v \in Copies : job' = [job EXCEPT ![p] = v]
         /\ source' = source /\ losses' = losses
<1> USE DEF Labels, Unlocked, Onward, mishaps
<1>1. CASE Validate(p) \/ LoadReceipt(p)
  BY <1>1 DEF Validate, LoadReceipt
<1>2. CASE Lock(p)
  <2>1. CASE holder = Nobody
    BY <1>2, <2>1 DEF Lock
  <2>2. CASE holder # Nobody
    BY <1>2, <2>2 DEF Lock
  <2> QED
    BY <2>1, <2>2
<1>3. CASE Refuse(p) \/ Fail(p)
  BY <1>3 DEF Refuse, Fail, Leave
<1>4. CASE Kill(p)
  BY <1>4 DEF Kill
<1>5. CASE CreateStaging(p) \/ FlushStaging(p) \/ CreatePrepared(p) \/ WritePrepared(p)
  BY <1>5 DEF CreateStaging, FlushStaging, CreatePrepared, WritePrepared
<1>6. CASE SyncPrepared(p) \/ PublishDatabase(p) \/ SyncDestination(p) \/ CreateFinal(p)
  BY <1>6 DEF SyncPrepared, PublishDatabase, SyncDestination, CreateFinal
<1>7. CASE WriteFinal(p) \/ PublishReceipt(p) \/ SyncReceipt(p) \/ RemovePrepared(p)
  BY <1>7 DEF WriteFinal, PublishReceipt, SyncReceipt, RemovePrepared
<1>8. CASE SyncRemoval(p)
  BY <1>8 DEF SyncRemoval
<1>9. CASE CopySource(p)
  BY <1>9 DEF CopySource, Based, TypeOK
<1>10. CASE Confirm(p) \/ Resume(p) \/ VerifyAgain(p)
  BY <1>10 DEF Confirm, Resume, VerifyAgain, Leave
<1>11. CASE Complete(p)
  BY <1>11 DEF Complete, Leave
<1> QED
  BY <1>1, <1>2, <1>3, <1>4, <1>5, <1>6, <1>7, <1>8, <1>9, <1>10, <1>11 DEF Act, Step

\* A process without the locks changes no file.
LEMMA LocksFirst ==
  ASSUME NEW p \in Procs, Act(p), pc[p] \in Unlocked
  PROVE  UNCHANGED <<disk, images>>
<1> USE DEF Unlocked
<1>1. CASE Step(p)
  BY <1>1 DEF Step, Lock, Refuse, CreateStaging, CopySource, FlushStaging, CreatePrepared,
     WritePrepared, SyncPrepared, PublishDatabase, SyncDestination, CreateFinal, WriteFinal,
     PublishReceipt, SyncReceipt, RemovePrepared, SyncRemoval, Confirm, Resume, VerifyAgain,
     Complete
<1>2. CASE Fail(p)
  BY <1>2 DEF Fail, Leave, Owned
<1>3. CASE Validate(p) \/ LoadReceipt(p) \/ Kill(p)
  BY <1>3 DEF Validate, LoadReceipt, Kill
<1> QED
  BY <1>1, <1>2, <1>3 DEF Act

LEMMA ActKeeps ==
  ASSUME Based, NEW p \in Procs, Act(p)
  PROVE  Kept
<1>1. DiskOK /\ Shown /\ job[p] \in Copies
  BY TypeParts DEF Based
<1>2. CASE Validate(p) \/ LoadReceipt(p) \/ Lock(p) \/ Kill(p)
  BY <1>1, <1>2, NothingKeeps DEF Validate, LoadReceipt, Lock, Kill
<1>3. CASE Refuse(p) \/ Fail(p)
  BY <1>1, <1>3, LeaveKeeps DEF Refuse, Fail
<1>4. CASE Confirm(p) \/ Resume(p) \/ VerifyAgain(p)
  BY <1>1, <1>4, LeaveKeeps, NothingKeeps DEF Confirm, Resume, VerifyAgain
<1>5. CASE Complete(p)
  <2>1. CASE Write("final", Torn, FALSE)
    BY <1>1, <2>1, WriteKeeps, Names
  <2>2. CASE Leave(p) \/ UNCHANGED <<disk, images>>
    BY <1>1, <2>2, LeaveKeeps, NothingKeeps
  <2> QED
    BY <1>5, <2>1, <2>2 DEF Complete
<1> QED
  BY <1>2, <1>3, <1>4, <1>5, FileOperations DEF Act, Step

LEMMA OthersKeep ==
  ASSUME Based, RefreshSource \/ UseDestination \/ CreateForeign \/ UNCHANGED vars
  PROVE  /\ Kept
         /\ disk'["database"] = disk["database"]
         /\ source' \in Copies /\ UNCHANGED <<pc, holder, job, losses>>
<1>1. DiskOK /\ Shown /\ source \in Copies
  BY TypeParts DEF Based
<1>2. CASE RefreshSource
  <2>1. source' \in Copies
    BY <1>1, <1>2, MigrationAssumption DEF RefreshSource, Copies, MigrationAssumption
  <2> QED
    BY <1>1, <1>2, <2>1, NothingKeeps DEF RefreshSource, mishaps
<1>3. CASE UseDestination
  BY <1>1, <1>3, WriteKeeps, Names DEF UseDestination, DiskOK, mishaps
<1>4. CASE CreateForeign
  BY <1>1, <1>4, WriteKeeps, Names DEF CreateForeign, DiskOK, mishaps
<1>5. CASE UNCHANGED vars
  BY <1>1, <1>5, NothingKeeps DEF vars, mishaps
<1> QED
  BY <1>2, <1>3, <1>4, <1>5

LEMMA BasedStep == Based /\ [Next]_vars => Based'
<1> SUFFICES ASSUME Based, [Next]_vars PROVE Based'
  OBVIOUS
<1>1. DiskOK /\ Shown /\ Positions /\ source \in Copies /\ job \in [Procs -> Copies]
  BY TypeParts DEF Based
<1>2. ASSUME NEW p \in Procs, Act(p)
      PROVE  Based'
  <2>1. Kept
    BY <1>2, ActKeeps
  <2>2. Positions'
    BY <1>1, <1>2, Moves, Proceeds, Returns DEF Onward
  <2>3. source' \in Copies /\ job' \in [Procs -> Copies] /\ losses' \in Nat
    BY <1>1, <1>2, Moves DEF Based
  <2>4. ASSUME NEW q \in Procs, pc'[q] = "copied"
        PROVE  Exists("database")'
    <3>1. \A r \in Procs : r # p => pc'[r] = pc[r]
      BY <1>1, <1>2, Moves DEF Onward, Goto, Positions
    <3>2. CASE pc[p] \in Unlocked
      <4>1. disk' = disk
        BY <1>2, <3>2, LocksFirst
      <4>2. pc'[p] # "copied"
        BY <1>1, <1>2, <3>2
           DEF Positions, Act, Step, Validate, LoadReceipt, Fail, Kill, Leave, Lock, Refuse,
               CreateStaging, CopySource, FlushStaging, CreatePrepared, WritePrepared,
               SyncPrepared, PublishDatabase, SyncDestination, CreateFinal, WriteFinal,
               PublishReceipt, SyncReceipt, RemovePrepared, SyncRemoval, Confirm, Resume,
               VerifyAgain, Complete, Goto, Unlocked
      <4>3. Exists("database")
        BY <2>4, <3>1, <4>2 DEF Based
      <4> QED
        BY <4>1, <4>3 DEF Exists
    <3>3. CASE pc[p] \notin Unlocked
      <4>1. q = p
        BY <1>1, <2>4, <3>1, <3>3, OneHolder DEF Unlocked
      <4>2. CopySource(p)
        BY <1>1, <1>2, <2>4, <3>3, <4>1
           DEF Positions, Act, Step, Validate, LoadReceipt, Fail, Kill, Leave, Lock, Refuse,
               CreateStaging, FlushStaging, CreatePrepared, WritePrepared,
               SyncPrepared, PublishDatabase, SyncDestination, CreateFinal, WriteFinal,
               PublishReceipt, SyncReceipt, RemovePrepared, SyncRemoval, Confirm, Resume,
               VerifyAgain, Complete, Goto, Unlocked
      <4>3. disk' = [disk EXCEPT !["database"] = [data |-> source, synced |-> FALSE]]
        BY <4>2 DEF CopySource, Write, Change
      <4> QED
        BY <1>1, <4>3, EntryMade, Names DEF Exists, DiskOK
    <3> QED
      BY <3>2, <3>3
  <2> QED
    BY <2>1, <2>2, <2>3, <2>4, TypesThen DEF Based, Kept
<1>3. CASE PowerLoss
  <2>1. DiskOK' /\ Shown'
    BY <1>3, PowerLossLeaves DEF Based
  <2>2. Positions' /\ \A q \in Procs : pc'[q] # "copied"
    BY <1>3, MigrationAssumption
       DEF PowerLoss, Positions, Labels, Unlocked, MigrationAssumption
  <2>3. source' \in Copies /\ job' \in [Procs -> Copies] /\ losses' \in Nat
    BY <1>1, <1>3 DEF PowerLoss, Based
  <2> QED
    BY <2>1, <2>2, <2>3, TypesThen DEF Based
<1>4. CASE RefreshSource \/ UseDestination \/ CreateForeign \/ UNCHANGED vars
  <2>1. Kept /\ disk'["database"] = disk["database"] /\ source' \in Copies
        /\ UNCHANGED <<pc, holder, job, losses>>
    BY <1>4, OthersKeep
  <2>2. Positions' /\ job' \in [Procs -> Copies]
    BY <1>1, <2>1 DEF Positions
  <2> QED
    BY <2>1, <2>2, TypesThen DEF Based, Kept, Exists
<1> QED
  BY <1>2, <1>3, <1>4, NextActs

LEMMA BasedInit == Init => Based
<1> SUFFICES ASSUME Init PROVE Based
  OBVIOUS
<1>1. disk \in [Files -> Contents]
  BY DEF Init, Contents
<1>2. DiskOK
  BY <1>1, ViewType DEF Init, DiskOK
<1>3. Shown
  <2>1. \A d \in Directories : View(disk, d) \in images[d]
    BY DEF Init
  <2> QED
    BY <1>1, <2>1, ViewType, Names DEF Shown, Destinations, Receipts
<1>4. Positions /\ source \in Copies /\ job \in [Procs -> Copies]
  BY MigrationAssumption
     DEF Init, Positions, Labels, Unlocked, Copies, MigrationAssumption
<1> QED
  BY <1>2, <1>3, <1>4, TypeParts DEF Based, Init

(* The files, what a power loss may leave of them, the copies and the      *)
(* places of the processes are of their kinds, and one process at a time   *)
(* is beyond migration.rs's two update locks.                              *)
THEOREM TypeCorrect == Spec => []TypeOK
<1>1. Based => TypeOK
  BY DEF Based
<1> QED
  BY <1>1, BasedInit, BasedStep, PTL DEF Spec

-----------------------------------------------------------------------------
(* What a step of a process changes *)

\* Each file changes in few steps, and the destination and the receipt only appear.
LEMMA Frame ==
  ASSUME Based, NEW p \in Procs, Act(p)
  PROVE  /\ \/ disk'["database"] \in {disk["database"], Absent}
            \/ CreateStaging(p) \/ CopySource(p) \/ FlushStaging(p)
         /\ \/ disk'["destination"] = disk["destination"]
            \/ PublishDatabase(p) /\ ~Exists("destination")
         /\ \/ disk'["prepared"] = disk["prepared"]
            \/ CreatePrepared(p) \/ WritePrepared(p) \/ RemovePrepared(p)
         /\ \/ disk'["final"] \in {disk["final"], Absent, [data |-> Torn, synced |-> FALSE]}
            \/ WriteFinal(p)
         /\ \/ disk'["receipt"] = disk["receipt"]
            \/ PublishReceipt(p) /\ ~Exists("receipt")
<1>1. DiskOK /\ Shown
  BY TypeParts DEF Based
<1> USE Names DEF DiskOK
<1>2. ASSUME Leave(p)
      PROVE  \/ disk' = disk
             \/ \E f \in {"database", "final"} : disk' = [disk EXCEPT ![f] = Absent]
  BY <1>1, <1>2, LeaveKeeps DEF Owned
<1>3. CASE UNCHANGED <<disk, images>>
  BY <1>3
<1>4. CASE Leave(p)
  BY <1>1, <1>2, <1>4
<1>5. CASE CreateStaging(p) \/ CopySource(p) \/ FlushStaging(p)
  BY <1>1, <1>5 DEF CreateStaging, CopySource, FlushStaging, Write, SyncFile, Change
<1>6. CASE CreatePrepared(p) \/ WritePrepared(p) \/ RemovePrepared(p)
  BY <1>1, <1>6 DEF CreatePrepared, WritePrepared, RemovePrepared, Write, Remove, Change
<1>7. CASE SyncPrepared(p) \/ SyncDestination(p) \/ SyncReceipt(p) \/ SyncRemoval(p)
  BY <1>7 DEF SyncPrepared, SyncDestination, SyncReceipt, SyncRemoval, SyncParent
<1>8. CASE PublishDatabase(p)
  BY <1>1, <1>8 DEF PublishDatabase, Rename, Change
<1>9. CASE CreateFinal(p) \/ WriteFinal(p)
  BY <1>1, <1>9 DEF CreateFinal, WriteFinal, Write, Change
<1>10. CASE PublishReceipt(p)
  BY <1>1, <1>10 DEF PublishReceipt, Rename, Change
<1>11. CASE Complete(p)
  <2>1. CASE Write("final", Torn, FALSE)
    BY <1>1, <2>1 DEF Write, Change
  <2> QED
    BY <1>3, <1>4, <1>11, <2>1 DEF Complete
<1>12. CASE Validate(p) \/ LoadReceipt(p) \/ Lock(p) \/ Kill(p)
  BY <1>3, <1>12 DEF Validate, LoadReceipt, Lock, Kill
<1>13. CASE Refuse(p) \/ Fail(p) \/ Confirm(p) \/ Resume(p) \/ VerifyAgain(p)
  BY <1>3, <1>4, <1>13 DEF Refuse, Fail, Confirm, Resume, VerifyAgain
<1> QED
  BY <1>5, <1>6, <1>7, <1>8, <1>9, <1>10, <1>11, <1>12, <1>13 DEF Act, Step

(* publish_new and rename_noreplace: no step but a power loss takes away   *)
(* or replaces an index that another program put at the destination, a     *)
(* published copy or a receipt.                                            *)
THEOREM NoneIsReplaced == Spec => NothingReplaced
<1> DEFINE Respected ==
      losses' = losses =>
        \A f \in {"destination", "receipt"} :
          Exists(f) => disk'[f] = disk[f] \/ (f = "destination" /\ disk'[f].data = Used)
<1>1. Based /\ [Next]_vars => Respected
  <2> SUFFICES ASSUME Based, [Next]_vars, losses' = losses PROVE Respected
    OBVIOUS
  <2>1. DiskOK
    BY TypeParts DEF Based
  <2>2. ASSUME NEW p \in Procs, Act(p)
        PROVE  Respected
    BY <2>2, Frame
  <2>3. CASE UseDestination
    BY <2>1, <2>3, Names DEF UseDestination, Write, Change, DiskOK
  <2>4. CASE CreateForeign
    BY <2>1, <2>4, Names DEF CreateForeign, Write, Change, DiskOK
  <2>5. CASE RefreshSource \/ UNCHANGED vars
    BY <2>5 DEF RefreshSource, vars
  <2>6. ~PowerLoss
    BY DEF PowerLoss, Based
  <2> QED
    BY <2>2, <2>3, <2>4, <2>5, <2>6, NextActs
<1> QED
  BY <1>1, BasedInit, BasedStep, PTL DEF Spec, NothingReplaced

-----------------------------------------------------------------------------
(* One process that migrates *)

\* A migration that was validated before another one announced its copy goes on after it, and may
\* leave a staging database that is not synced in the place of the announced one.
OneMigrator == \A p, q \in Migrators : p = q

Early == {"validated", "staging", "copying", "copied", "flushed"}
Begun == Exists("prepared") \/ Exists("receipt")

\* A copy is made while there is no receipt, and everything else is done on account of one.
OrderedAt(p) ==
  /\ pc[p] \in Early => p \in Migrators /\ ~Begun
  /\ pc[p] \notin Early \cup {"idle"} => Begun
  /\ pc[p] \in {"confirming", "verifying", "receipted", "cleaning", "cleaned"} =>
       Exists("receipt")
Ordered == \A p \in Procs : OrderedAt(p)

\* The copy a process describes in its receipt is where it is about to need it, and synced.
Whole(p) == [data |-> job[p], synced |-> TRUE]
InHandAt(p) ==
  /\ pc[p] = "copied" => disk["database"] = [data |-> job[p], synced |-> FALSE]
  /\ pc[p] \in {"flushed", "announcing", "announced", "publishing", "republishing"} =>
       disk["database"] = Whole(p)
  /\ pc[p] \in {"published", "recording", "writing", "recorded", "republished", "reverifying",
                "completing", "rewriting"} =>
       disk["destination"] = Whole(p)
  /\ pc[p] = "recorded" => disk["final"] = Whole(p)
InHand == \A p \in Procs : InHandAt(p)

\* A staging database is complete once it is announced, and so is a staged receipt that parses.
StagedIsSafe == Begun /\ Exists("database") => disk["database"].synced
FinalIsSafe == Exists("final") /\ disk["final"].data \in Copies => disk["final"].synced

IInv ==
  Based /\ NeverPartial /\ Ordered /\ InHand /\ StagedIsSafe /\ FinalIsSafe

LEMMA PartialMeans ==
  NeverPartial <=> \A e \in Destinations : e # Absent => e.synced /\ e.data # Torn
BY DEF NeverPartial, Destinations

LEMMA PartialThen ==
  NeverPartial' <=> \A e \in Destinations' : e # Absent => e.synced /\ e.data # Torn
BY DEF NeverPartial, Destinations

\* Where the copy is complete and what is there has a receipt, once a process is past its step.
LEMMA OwnStep ==
  ASSUME IInv, NEW p \in Procs, Act(p), pc[p] \notin Unlocked
  PROVE  OrderedAt(p)' /\ InHandAt(p)'
<1> USE DEF Early, Unlocked
<1>1. /\ DiskOK /\ Positions /\ job \in [Procs -> Copies] /\ source \in Copies
      /\ OrderedAt(p) /\ InHandAt(p)
  BY TypeParts DEF IInv, Based, Ordered, InHand
<1>2. pc \in [Procs -> Labels] /\ disk \in [Files -> Contents]
  BY <1>1 DEF Positions, DiskOK
<1>3. ASSUME Goto(p, "idle")
      PROVE  OrderedAt(p)' /\ InHandAt(p)'
  BY <1>2, <1>3 DEF Goto, OrderedAt, InHandAt
<1>4. CASE CreateStaging(p)
  BY <1>1, <1>2, <1>4, Names
     DEF CreateStaging, Write, Change, Goto, OrderedAt, InHandAt, Begun, Exists
<1>5. CASE CopySource(p)
  BY <1>1, <1>2, <1>5, Names
     DEF CopySource, Write, Change, Goto, OrderedAt, InHandAt, Begun, Exists
<1>6. CASE FlushStaging(p)
  <2>1. disk["database"] = [data |-> job[p], synced |-> FALSE]
    BY <1>1, <1>6 DEF FlushStaging, InHandAt
  <2>2. disk' = [disk EXCEPT !["database"] = [disk["database"] EXCEPT !.synced = TRUE]]
    BY <1>6 DEF FlushStaging, SyncFile
  <2>3. [disk["database"] EXCEPT !.synced = TRUE] = Whole(p)
    <3> DEFINE safe == [disk["database"] EXCEPT !.synced = TRUE]
    <3>1. disk["database"] \in Entry
      <4>1. disk["database"] \in Contents /\ Exists("database")
        BY <1>2, <1>6, Names DEF FlushStaging, IInv, Based
      <4> QED
        BY <4>1 DEF Contents, Exists
    <3>2. safe \in Entry /\ safe.data = job[p] /\ safe.synced = TRUE
      <4>1. disk["database"].data = job[p]
        BY <2>1
      <4>2. safe \in Entry /\ safe.data = disk["database"].data
        BY <3>1 DEF Entry
      <4>3. safe.synced = TRUE
        BY <3>1 DEF Entry
      <4> QED
        BY <4>1, <4>2, <4>3
    <3> HIDE DEF safe
    <3>3. safe = Whole(p)
      BY <3>2 DEF Entry, Whole
    <3> QED
      BY <3>3 DEF safe
  <2>4. /\ disk'["database"] = Whole(p)
        /\ disk'["prepared"] = disk["prepared"] /\ disk'["receipt"] = disk["receipt"]
    BY <1>2, <2>2, <2>3, Names
  <2> QED
    BY <1>1, <1>2, <1>6, <2>4
       DEF FlushStaging, Goto, OrderedAt, InHandAt, Begun, Exists, Whole
<1>7. CASE CreatePrepared(p)
  BY <1>1, <1>2, <1>7, Names, EntryMade
     DEF CreatePrepared, Write, Change, Goto, OrderedAt, InHandAt, Begun, Exists, Whole
<1>8. CASE WritePrepared(p)
  BY <1>1, <1>2, <1>8, Names, EntryMade
     DEF WritePrepared, Write, Change, Goto, OrderedAt, InHandAt, Begun, Exists, Whole
<1>9. CASE SyncPrepared(p)
  BY <1>1, <1>2, <1>9
     DEF SyncPrepared, SyncParent, Goto, OrderedAt, InHandAt, Begun, Exists, Whole
<1>10. CASE PublishDatabase(p)
  BY <1>1, <1>2, <1>10, Names
     DEF PublishDatabase, Rename, Change, Goto, OrderedAt, InHandAt, Begun, Exists, Whole
<1>11. CASE SyncDestination(p)
  BY <1>1, <1>2, <1>11
     DEF SyncDestination, SyncParent, Goto, OrderedAt, InHandAt, Begun, Exists, Whole
<1>12. CASE CreateFinal(p)
  BY <1>1, <1>2, <1>12, Names
     DEF CreateFinal, Write, Change, Goto, OrderedAt, InHandAt, Begun, Exists, Whole
<1>13. CASE WriteFinal(p)
  BY <1>1, <1>2, <1>13, Names
     DEF WriteFinal, Write, Change, Goto, OrderedAt, InHandAt, Begun, Exists, Whole
<1>14. CASE PublishReceipt(p)
  BY <1>1, <1>2, <1>14, Names, EntryMade
     DEF PublishReceipt, Rename, Change, Goto, OrderedAt, InHandAt, Begun, Exists, Whole
<1>15. CASE SyncReceipt(p)
  BY <1>1, <1>2, <1>15
     DEF SyncReceipt, SyncParent, Goto, OrderedAt, InHandAt, Begun, Exists
<1>16. CASE RemovePrepared(p)
  BY <1>1, <1>2, <1>16, Names
     DEF RemovePrepared, Remove, Change, Goto, OrderedAt, InHandAt, Begun, Exists
<1>17. CASE SyncRemoval(p) \/ Refuse(p) \/ Fail(p) \/ Kill(p)
  BY <1>3, <1>17 DEF SyncRemoval, Refuse, Fail, Kill, Leave
<1>18. CASE Confirm(p)
  <2>1. CASE Leave(p)
    BY <1>3, <2>1 DEF Leave
  <2>2. CASE Goto(p, "cleaning") /\ UNCHANGED <<disk, images, holder>>
    BY <1>1, <1>2, <1>18, <2>2 DEF Confirm, Goto, OrderedAt, InHandAt, Begun, Exists
  <2> QED
    BY <1>18, <2>1, <2>2 DEF Confirm
<1>19. \A f \in Files, v \in Copies :
         Holds(f, v) /\ disk[f].synced => disk[f] = [data |-> v, synced |-> TRUE]
  <2> SUFFICES ASSUME NEW f \in Files, NEW v \in Copies, Holds(f, v), disk[f].synced
               PROVE  disk[f] = [data |-> v, synced |-> TRUE]
    OBVIOUS
  <2>1. disk[f] \in Entry
    BY <1>2 DEF Contents, Holds, Exists
  <2> QED
    BY <2>1 DEF Entry, Holds
<1>20. Exists("destination") => disk["destination"].synced
  <2>1. disk["destination"] \in Destinations
    BY DEF IInv, Based, Shown
  <2> QED
    BY <2>1, PartialMeans DEF IInv, Exists
<1>21. CASE Resume(p)
  <2>1. Begun /\ pc[p] = "resuming" /\ job' = job
    BY <1>1, <1>21 DEF Resume, OrderedAt
  <2>2. CASE Leave(p)
    BY <1>3, <2>2 DEF Leave
  <2>3. CASE Verified("destination", job[p]) /\ Goto(p, "completing") /\ disk' = disk
    <3>1. disk["destination"] = Whole(p)
      BY <1>1, <1>19, <1>20, <2>3, Names DEF Verified, Holds, Whole
    <3> QED
      BY <1>2, <2>1, <2>3, <3>1 DEF Goto, OrderedAt, InHandAt, Begun, Exists, Whole
  <2>4. CASE Verified("database", job[p]) /\ Goto(p, "republishing") /\ disk' = disk
    <3>1. disk["database"] = Whole(p)
      BY <1>1, <1>19, <2>1, <2>4, Names DEF Verified, Holds, Whole, IInv, StagedIsSafe
    <3> QED
      BY <1>2, <2>1, <2>4, <3>1 DEF Goto, OrderedAt, InHandAt, Begun, Exists, Whole
  <2> QED
    BY <1>21, <2>2, <2>3, <2>4 DEF Resume
<1>22. CASE VerifyAgain(p)
  <2>1. CASE Leave(p)
    BY <1>3, <2>1 DEF Leave
  <2>2. CASE Goto(p, "completing") /\ UNCHANGED <<disk, images, holder>>
    BY <1>1, <1>2, <1>22, <2>2 DEF VerifyAgain, Goto, OrderedAt, InHandAt, Begun, Exists, Whole
  <2> QED
    BY <1>22, <2>1, <2>2 DEF VerifyAgain
<1>23. CASE Complete(p)
  <2>1. pc[p] = "completing" /\ job' = job /\ disk["destination"] = Whole(p) /\ Begun
    BY <1>1, <1>23 DEF Complete, OrderedAt, InHandAt
  <2>2. CASE Write("final", Torn, FALSE) /\ Goto(p, "rewriting")
    BY <1>2, <2>1, <2>2, Names
       DEF Write, Change, Goto, OrderedAt, InHandAt, Begun, Exists, Whole
  <2>3. CASE Holds("final", job[p]) /\ Goto(p, "recorded") /\ disk' = disk
    <3>1. disk["final"] = Whole(p)
      BY <1>1, <1>19, <2>3, Names DEF Holds, Whole, IInv, FinalIsSafe
    <3> QED
      BY <1>2, <2>1, <2>3, <3>1 DEF Goto, OrderedAt, InHandAt, Begun, Exists, Whole
  <2>4. CASE Leave(p)
    BY <1>3, <2>4 DEF Leave
  <2> QED
    BY <1>23, <2>2, <2>3, <2>4 DEF Complete
<1>24. ~Validate(p) /\ ~LoadReceipt(p) /\ ~Lock(p)
  BY DEF Validate, LoadReceipt, Lock
<1> QED
  BY <1>4, <1>5, <1>6, <1>7, <1>8, <1>9, <1>10, <1>11, <1>12, <1>13, <1>14, <1>15, <1>16,
     <1>17, <1>18, <1>21, <1>22, <1>23, <1>24 DEF Act, Step

\* A process without the locks only looks, and takes them.
LEMMA OutsideStep ==
  ASSUME IInv, NEW p \in Procs, Act(p), pc[p] \in Unlocked
  PROVE  OrderedAt(p)' /\ InHandAt(p)'
<1> USE DEF Early, Unlocked
<1>1. OrderedAt(p) /\ disk' = disk /\ pc \in [Procs -> Labels]
  BY LocksFirst, TypeParts DEF IInv, Based, Ordered, Positions
<1>2. CASE Validate(p)
  BY <1>1, <1>2 DEF Validate, Goto, OrderedAt, InHandAt, Begun, Exists
<1>3. CASE LoadReceipt(p)
  <2>1. Begun /\ (pc'[p] = "confirming" => Exists("receipt")) /\ pc'[p] \in {"confirming", "loaded"}
    BY <1>1, <1>3 DEF LoadReceipt, Goto, Begun
  <2> QED
    BY <1>1, <2>1 DEF OrderedAt, InHandAt, Begun, Exists
<1>4. CASE Lock(p)
  <2>1. CASE holder = Nobody
    BY <1>1, <1>4, <2>1 DEF Lock, Goto, OrderedAt, InHandAt, Begun, Exists
  <2>2. CASE holder # Nobody
    BY <1>1, <1>4, <2>2 DEF Lock, Goto, OrderedAt, InHandAt
  <2> QED
    BY <2>1, <2>2
<1>5. CASE Fail(p) \/ Kill(p)
  BY <1>1, <1>5 DEF Fail, Kill, Leave, Goto, OrderedAt, InHandAt
<1>6. CASE Step(p) /\ ~Lock(p)
  BY <1>6 DEF Step, Refuse, CreateStaging, CopySource, FlushStaging, CreatePrepared,
     WritePrepared, SyncPrepared, PublishDatabase, SyncDestination, CreateFinal, WriteFinal,
     PublishReceipt, SyncReceipt, RemovePrepared, SyncRemoval, Confirm, Resume, VerifyAgain,
     Complete
<1> QED
  BY <1>2, <1>3, <1>4, <1>5, <1>6 DEF Act

\* A receipt stays until the next one is there, and only a new copy begins one.
LEMMA BegunStep ==
  ASSUME IInv, NEW p \in Procs, Act(p)
  PROVE  /\ Exists("receipt") => Exists("receipt")'
         /\ Begun => Begun'
         /\ Begun' => Begun \/ CreatePrepared(p)
<1>1. DiskOK /\ OrderedAt(p)
  BY TypeParts DEF IInv, Based, Ordered
<1>2. Exists("receipt") => Exists("receipt")'
  BY Frame DEF IInv, Exists
<1>3. CASE WritePrepared(p)
  <2>1. Begun /\ disk'["prepared"] # Absent
    BY <1>1, <1>3, Names, EntryMade, TypeParts
       DEF WritePrepared, Write, Change, OrderedAt, Early, DiskOK, IInv, Based
  <2> QED
    BY <1>2, <2>1 DEF Begun, Exists
<1>4. CASE CreatePrepared(p)
  BY <1>2, <1>4 DEF CreatePrepared, Begun, Exists
<1>5. CASE RemovePrepared(p)
  BY <1>1, <1>2, <1>5 DEF RemovePrepared, OrderedAt, Begun
<1>6. CASE PublishReceipt(p)
  <2>1. Begun /\ disk'["prepared"] = disk["prepared"]
    BY <1>1, <1>6, Names DEF PublishReceipt, Rename, Change, OrderedAt, Early, DiskOK
  <2> QED
    BY <1>2, <2>1 DEF Begun, Exists
<1>7. CASE disk'["prepared"] = disk["prepared"] /\ disk'["receipt"] = disk["receipt"]
  BY <1>7 DEF Begun, Exists
<1> QED
  BY <1>3, <1>4, <1>5, <1>6, <1>7, Frame DEF IInv

\* What the others rely on while a process moves.
LEMMA BystanderStep ==
  ASSUME OneMigrator, IInv, NEW p \in Procs, Act(p), NEW q \in Procs, q # p
  PROVE  OrderedAt(q)' /\ InHandAt(q)'
<1>1. OrderedAt(q) /\ InHandAt(q) /\ OrderedAt(p) /\ Positions
  BY TypeParts DEF IInv, Based, Ordered, InHand
<1>2. pc'[q] = pc[q] /\ job'[q] = job[q]
  BY <1>1, Moves, TypeParts DEF IInv, Based, Onward, Goto, Positions
<1>3. CASE pc[p] \in Unlocked
  <2>1. disk' = disk
    BY <1>3, LocksFirst
  <2> QED
    BY <1>1, <1>2, <2>1 DEF OrderedAt, InHandAt, Begun, Exists, Whole
<1>4. CASE pc[p] \notin Unlocked
  <2>1. pc[q] \in Unlocked
    BY <1>1, <1>4, OneHolder
  <2>2. InHandAt(q)'
    BY <1>2, <2>1 DEF InHandAt, Unlocked
  <2>3. CreatePrepared(p) => pc[q] \notin Early
    <3>1. CreatePrepared(p) => p \in Migrators
      BY <1>1 DEF CreatePrepared, OrderedAt, Early
    <3> QED
      BY <1>1, <3>1 DEF OrderedAt, OneMigrator
  <2> QED
    BY <1>1, <1>2, <2>1, <2>2, <2>3, BegunStep DEF OrderedAt, Unlocked
<1> QED
  BY <1>3, <1>4

\* What a process leaves on disk is whole where it has to be.
LEMMA SafeStep ==
  ASSUME IInv, NEW p \in Procs, Act(p)
  PROVE  NeverPartial' /\ StagedIsSafe' /\ FinalIsSafe'
<1>1. DiskOK /\ OrderedAt(p) /\ InHandAt(p) /\ Kept
  BY TypeParts, ActKeeps DEF IInv, Based, Ordered, InHand
<1>2. NeverPartial'
  <2>1. \A e \in Destinations : e # Absent => e.synced /\ e.data # Torn
    BY PartialMeans DEF IInv
  <2>2. disk["destination"] \in Destinations
    BY DEF IInv, Based, Shown
  <2>3. CASE PublishDatabase(p)
    <3>1. disk'["destination"] = disk["database"] /\ disk["database"] = Whole(p)
      BY <1>1, <2>3, Names DEF PublishDatabase, Rename, Change, InHandAt, DiskOK
    <3>2. job[p] # Torn
      BY TypeParts, ContentsAssumption DEF IInv, Based, ContentsAssumption
    <3>3. disk'["destination"].synced /\ disk'["destination"].data # Torn
      BY <3>1, <3>2 DEF Whole
    <3> QED
      BY <1>1, <2>1, <3>3, PartialThen DEF Kept, Grown
  <2>4. CASE disk'["destination"] = disk["destination"]
    BY <1>1, <2>1, <2>2, <2>4, PartialThen DEF Kept, Grown
  <2> QED
    BY <2>3, <2>4, Frame DEF IInv
<1>3. StagedIsSafe'
  <2>1. SUFFICES ASSUME Begun', Exists("database")'
                 PROVE  disk'["database"].synced
    BY DEF StagedIsSafe
  <2>2. CASE CreatePrepared(p)
    <3>1. disk'["database"] = Whole(p)
      BY <1>1, <2>2, Names DEF CreatePrepared, Write, Change, InHandAt, DiskOK
    <3> QED
      BY <3>1 DEF Whole
  <2>3. CASE Begun
    <3>1. ~CreateStaging(p) /\ ~CopySource(p) /\ ~FlushStaging(p)
      BY <1>1, <2>3 DEF CreateStaging, CopySource, FlushStaging, OrderedAt, Early
    <3>2. disk'["database"] = disk["database"]
      BY <2>1, <3>1, Frame DEF IInv, Exists
    <3> QED
      BY <2>1, <2>3, <3>2 DEF IInv, StagedIsSafe, Exists
  <2> QED
    BY <2>1, <2>2, <2>3, BegunStep
<1>4. FinalIsSafe'
  <2>1. CASE WriteFinal(p)
    <3>1. disk'["final"] = Whole(p)
      BY <1>1, <2>1, Names DEF WriteFinal, Write, Change, DiskOK, Whole
    <3> QED
      BY <3>1 DEF Whole, FinalIsSafe
  <2>2. CASE disk'["final"] = [data |-> Torn, synced |-> FALSE]
    BY <2>2, ContentsAssumption DEF FinalIsSafe, ContentsAssumption
  <2>3. CASE disk'["final"] \in {disk["final"], Absent}
    BY <2>3 DEF IInv, FinalIsSafe, Exists
  <2> QED
    BY <2>1, <2>2, <2>3, Frame DEF IInv
<1> QED
  BY <1>2, <1>3, <1>4

LEMMA PowerLossKeeps ==
  ASSUME IInv, PowerLoss
  PROVE  NeverPartial' /\ Ordered' /\ InHand' /\ StagedIsSafe' /\ FinalIsSafe'
<1>1. /\ Destinations' = {disk'["destination"]}
      /\ \A f \in Files : disk'[f] # Absent => disk'[f].synced = TRUE
      /\ \E dest \in Destinations : Survives(dest, disk'["destination"])
  BY PowerLossLeaves DEF IInv, Based
<1>2. NeverPartial'
  <2>1. \A e \in Destinations : e # Absent => e.synced /\ e.data # Torn
    BY PartialMeans DEF IInv
  <2> QED
    BY <1>1, <2>1, PartialThen DEF Survives
<1>3. \A q \in Procs : pc'[q] = "idle"
  BY DEF PowerLoss
<1>4. Ordered' /\ InHand'
  BY <1>3 DEF Ordered, OrderedAt, InHand, InHandAt, Early
<1>5. StagedIsSafe' /\ FinalIsSafe'
  BY <1>1, Names DEF StagedIsSafe, FinalIsSafe, Exists
<1> QED
  BY <1>2, <1>4, <1>5

LEMMA OthersStep ==
  ASSUME IInv, RefreshSource \/ UseDestination \/ CreateForeign \/ UNCHANGED vars
  PROVE  NeverPartial' /\ Ordered' /\ InHand' /\ StagedIsSafe' /\ FinalIsSafe'
<1>1. DiskOK /\ Positions /\ Kept /\ UNCHANGED <<pc, holder, job>>
  BY TypeParts, OthersKeep DEF IInv, Based
<1>2. \/ disk' = disk
      \/ \E v \in {Used, Foreign} :
           disk' = [disk EXCEPT !["destination"] = [data |-> v, synced |-> TRUE]]
  BY DEF RefreshSource, UseDestination, CreateForeign, Write, Change, vars
<1>3. \A f \in Files \ {"destination"} : disk'[f] = disk[f]
  BY <1>1, <1>2 DEF DiskOK
<1>4. Ordered' /\ StagedIsSafe' /\ FinalIsSafe'
  BY <1>1, <1>3, Names
     DEF IInv, Ordered, OrderedAt, StagedIsSafe, FinalIsSafe, Begun, Exists
<1>5. NeverPartial'
  <2>1. disk'["destination"] # Absent =>
          disk'["destination"].synced /\ disk'["destination"].data # Torn
    <3>1. CASE disk' = disk
      BY <3>1, PartialMeans DEF IInv, Based, Shown
    <3>2. CASE disk' # disk
      <4>1. PICK v \in {Used, Foreign} :
              disk' = [disk EXCEPT !["destination"] = [data |-> v, synced |-> TRUE]]
        BY <1>2, <3>2
      <4>2. disk'["destination"] = [data |-> v, synced |-> TRUE]
        BY <1>1, <4>1, Names DEF DiskOK
      <4> QED
        BY <4>2, ContentsAssumption DEF ContentsAssumption
    <3> QED
      BY <3>1, <3>2
  <2> QED
    BY <1>1, <2>1, PartialMeans, PartialThen DEF IInv, Kept, Grown
<1>6. InHand'
  <2> SUFFICES ASSUME NEW q \in Procs PROVE InHandAt(q)'
    BY DEF InHand
  <2>1. InHandAt(q)
    BY DEF IInv, InHand
  <2>2. CASE UseDestination
    <3>1. pc[q] \in Unlocked
      BY <1>1, <2>2, MigrationAssumption DEF UseDestination, Positions, MigrationAssumption
    <3> QED
      BY <1>1, <3>1 DEF InHandAt, Unlocked
  <2>3. CASE CreateForeign
    <3>1. disk["destination"] # Whole(q)
      <4>1. Whole(q) # Absent
        BY EntryMade, TypeParts DEF IInv, Based, Whole
      <4> QED
        BY <2>3, <4>1 DEF CreateForeign, Exists
    <3> QED
      BY <1>1, <1>3, <2>1, <3>1, Names DEF InHandAt, Whole
  <2>4. CASE disk' = disk
    BY <1>1, <2>1, <2>4 DEF InHandAt, Whole
  <2> QED
    BY <2>2, <2>3, <2>4 DEF RefreshSource, vars
<1> QED
  BY <1>4, <1>5, <1>6

LEMMA Inductive == OneMigrator /\ IInv /\ [Next]_vars => IInv'
<1> SUFFICES ASSUME OneMigrator, IInv, [Next]_vars PROVE IInv'
  OBVIOUS
<1>1. Based'
  BY BasedStep DEF IInv
<1>2. ASSUME NEW p \in Procs, Act(p)
      PROVE  IInv'
  <2>1. \A q \in Procs : OrderedAt(q)' /\ InHandAt(q)'
    BY <1>2, OwnStep, OutsideStep, BystanderStep
  <2> QED
    BY <1>1, <1>2, <2>1, SafeStep DEF IInv, Ordered, InHand
<1> QED
  BY <1>1, <1>2, PowerLossKeeps, OthersStep, NextActs DEF IInv

LEMMA Initially == Init => IInv
<1> SUFFICES ASSUME Init PROVE IInv
  OBVIOUS
<1>1. \A f \in Files : disk[f] = Absent
  BY DEF Init
<1>2. Destinations = {Absent}
  <2>1. images["data"] = {View(disk, "data")} /\ disk \in [Files -> Contents]
    BY Names DEF Init, Contents
  <2>2. View(disk, "data")["destination"] = Absent
    BY <1>1, <2>1, ViewType, Names
  <2> QED
    BY <2>1, <2>2 DEF Destinations
<1>3. NeverPartial
  BY <1>2, PartialMeans
<1>4. Ordered /\ InHand
  BY DEF Init, Ordered, OrderedAt, InHand, InHandAt, Early
<1>5. StagedIsSafe /\ FinalIsSafe
  BY <1>1, Names DEF StagedIsSafe, FinalIsSafe, Exists
<1> QED
  BY <1>3, <1>4, <1>5, BasedInit DEF IInv

(* If one process migrates, however often it and those that recover are    *)
(* killed, fail or lose the power, nothing under the destination's name is *)
(* an incomplete copy, and no power loss makes it one: migrate_database    *)
(* syncs the staging file before the receipt that lets it be published.    *)
THEOREM DestinationIsWhole == Spec /\ OneMigrator => []NeverPartial
<1> SUFFICES ASSUME OneMigrator PROVE Spec => []NeverPartial
  OBVIOUS
<1>1. IInv /\ [Next]_vars => IInv'
  BY Inductive
<1>2. IInv => NeverPartial
  BY DEF IInv
<1> QED
  BY <1>1, <1>2, Initially, PTL DEF Spec

-----------------------------------------------------------------------------
(* No receipt outlives its copy *)

\* Where a stop does more than migrate_database allows for: between the rename of the database and
\* the sync of its directory, after which a recovery finds the file and does not sync again.
PublicationsEnd == {"published", "republished"} \cap StopPoints = {}

Publishing(p) == pc[p] \in {"published", "republished"}

\* Otherwise a copy at the destination is there for good.
Durable ==
  (\A p \in Procs : ~Publishing(p)) /\ Exists("destination") /\ disk["destination"].data \in Copies
    => Destinations = {disk["destination"]}

DInv == IInv /\ Durable /\ ReceiptHasCopy

Backs(dest, receipt) ==
  receipt # Absent =>
    /\ receipt.synced /\ receipt.data \in Copies
    /\ dest # Absent /\ dest.data \in {receipt.data, Used}

LEMMA BackedMeans ==
  ReceiptHasCopy <=> \A dest \in Destinations, receipt \in Receipts : Backs(dest, receipt)
BY DEF ReceiptHasCopy, Destinations, Receipts, Backs

LEMMA BackedThen ==
  ReceiptHasCopy' <=> \A dest \in Destinations', receipt \in Receipts' : Backs(dest, receipt)
BY DEF ReceiptHasCopy, Destinations, Receipts, Backs

LEMMA DurableStep ==
  ASSUME PublicationsEnd, DInv, NEW p \in Procs, Act(p)
  PROVE  Durable'
<1>1. DiskOK /\ Shown /\ Positions /\ Kept
  BY TypeParts, ActKeeps DEF DInv, IInv, Based
<1>2. \A q \in Procs : q # p => pc'[q] = pc[q]
  BY <1>1, Moves DEF DInv, IInv, Onward, Goto, Positions
<1>3. CASE PublishDatabase(p)
  <2>1. Publishing(p)'
    BY <1>1, <1>3 DEF PublishDatabase, Goto, Positions, Publishing
  <2> QED
    BY <2>1 DEF Durable
<1>4. CASE Publishing(p)
  <2>1. SyncDestination(p)
    BY <1>4 DEF Publishing, PublicationsEnd, Unlocked, Act, Step, Validate, LoadReceipt, Fail, Kill,
       Lock, Refuse, CreateStaging, CopySource, FlushStaging, CreatePrepared, WritePrepared,
       SyncPrepared, PublishDatabase, CreateFinal, WriteFinal, PublishReceipt, SyncReceipt,
       RemovePrepared, SyncRemoval, Confirm, Resume, VerifyAgain, Complete
  <2>2. Destinations' = {disk["destination"]} /\ disk' = disk
    BY <1>1, <2>1, SyncParentKeeps, Names DEF SyncDestination
  <2> QED
    BY <2>2 DEF Durable
<1>5. CASE ~Publishing(p) /\ ~PublishDatabase(p)
  <2>1. disk'["destination"] = disk["destination"]
    BY <1>5, Frame DEF DInv, IInv
  <2>2. SUFFICES ASSUME \A q \in Procs : ~Publishing(q)', Exists("destination")',
                        disk'["destination"].data \in Copies
                 PROVE  Destinations' = {disk'["destination"]}
    BY DEF Durable
  <2>3. \A q \in Procs : ~Publishing(q)
    BY <1>2, <1>5, <2>2 DEF Publishing
  <2>4. Destinations = {disk["destination"]}
    BY <2>1, <2>2, <2>3 DEF DInv, Durable, Exists
  <2> QED
    BY <1>1, <2>1, <2>4 DEF Kept, Grown, Shown
<1> QED
  BY <1>3, <1>4, <1>5

LEMMA BackedStep ==
  ASSUME DInv, NEW p \in Procs, Act(p)
  PROVE  ReceiptHasCopy'
<1>1. DiskOK /\ Shown /\ Positions /\ Kept /\ InHandAt(p) /\ job[p] \in Copies
  BY TypeParts, ActKeeps DEF DInv, IInv, Based, InHand
<1>2. \A dest \in Destinations, receipt \in Receipts : Backs(dest, receipt)
  BY BackedMeans DEF DInv
<1>3. CASE PublishReceipt(p)
  <2>1. /\ disk["destination"] = Whole(p)
        /\ disk'["destination"] = disk["destination"] /\ disk'["receipt"] = Whole(p)
    BY <1>1, <1>3, Names DEF PublishReceipt, Rename, Change, InHandAt, DiskOK
  <2>2. \A q \in Procs : ~Publishing(q)
    BY <1>1, <1>3, OneHolder DEF PublishReceipt, Publishing, Unlocked
  <2>3. Whole(p) # Absent /\ Whole(p).data = job[p] /\ Whole(p).synced = TRUE
    BY <1>1, EntryMade DEF Whole
  <2>4. Destinations' \subseteq Destinations /\ Destinations \subseteq {Whole(p)}
    BY <1>1, <2>1, <2>2, <2>3 DEF DInv, Durable, Exists, Kept, Grown, Shown
  <2>5. Backs(Whole(p), Whole(p))
    BY <1>1, <2>3 DEF Backs
  <2> QED
    BY <1>1, <1>2, <2>1, <2>4, <2>5, BackedThen DEF Kept, Grown
<1>4. CASE PublishDatabase(p) /\ ~PublishReceipt(p)
  <2>1. disk["destination"] = Absent /\ disk'["receipt"] = disk["receipt"]
    BY <1>4, Frame DEF DInv, IInv, PublishDatabase, Exists
  <2>2. \A receipt \in Receipts' : receipt = Absent
    BY <1>1, <1>2, <2>1 DEF Backs, Shown, Kept, Grown
  <2> QED
    BY <2>2, BackedThen DEF Backs
<1>5. CASE ~PublishDatabase(p) /\ ~PublishReceipt(p)
  <2>1. disk'["destination"] = disk["destination"] /\ disk'["receipt"] = disk["receipt"]
    BY <1>5, Frame DEF DInv, IInv
  <2>2. Destinations' \subseteq Destinations /\ Receipts' \subseteq Receipts
    BY <1>1, <2>1 DEF Shown, Kept, Grown
  <2> QED
    BY <1>2, <2>2, BackedThen
<1> QED
  BY <1>3, <1>4, <1>5

LEMMA BackedAfterLoss ==
  ASSUME DInv, PowerLoss
  PROVE  Durable' /\ ReceiptHasCopy'
<1>1. Destinations' = {disk'["destination"]} /\ Receipts' = {disk'["receipt"]}
  BY PowerLossLeaves DEF DInv, IInv, Based
<1>2. PICK dest \in Destinations, receipt \in Receipts :
        Survives(dest, disk'["destination"]) /\ Survives(receipt, disk'["receipt"])
  BY PowerLossLeaves DEF DInv, IInv, Based
<1>3. Backs(dest, receipt) /\ (dest # Absent => dest.synced)
  BY BackedMeans, PartialMeans DEF DInv, IInv
<1>4. Backs(disk'["destination"], disk'["receipt"])
  BY <1>2, <1>3 DEF Survives, Backs
<1> QED
  BY <1>1, <1>4, BackedThen DEF Durable

LEMMA BackedForOthers ==
  ASSUME DInv, RefreshSource \/ UseDestination \/ CreateForeign \/ UNCHANGED vars
  PROVE  Durable' /\ ReceiptHasCopy'
<1>1. DiskOK /\ Shown /\ Kept /\ pc' = pc
  BY TypeParts, OthersKeep DEF DInv, IInv, Based
<1>2. \A dest \in Destinations, receipt \in Receipts : Backs(dest, receipt)
  BY BackedMeans DEF DInv
<1>3. CASE disk' = disk
  <2>1. Destinations' \subseteq Destinations /\ Receipts' \subseteq Receipts
    BY <1>1, <1>3 DEF Shown, Kept, Grown
  <2>2. Durable'
    BY <1>1, <1>3, <2>1 DEF DInv, Durable, Publishing, Exists, Kept, Shown
  <2> QED
    BY <1>2, <2>1, <2>2, BackedThen
<1>4. ASSUME NEW v \in {Used, Foreign}, v = Used \/ ~Exists("destination"),
             disk' = [disk EXCEPT !["destination"] = [data |-> v, synced |-> TRUE]]
      PROVE  Durable' /\ ReceiptHasCopy'
  <2>1. disk'["destination"] = [data |-> v, synced |-> TRUE] /\ disk'["receipt"] = disk["receipt"]
    BY <1>1, <1>4, Names DEF DiskOK
  <2>2. disk'["destination"] # Absent /\ disk'["destination"].data = v
    <3>1. v \in Copies \cup {Torn, Foreign, Used} /\ TRUE \in BOOLEAN
      OBVIOUS
    <3>2. [data |-> v, synced |-> TRUE] # Absent
      BY <3>1, EntryMade
    <3> QED
      BY <2>1, <3>2
  <2>3. Durable'
    BY <2>2, ContentsAssumption DEF Durable, ContentsAssumption
  <2>4. \A receipt \in Receipts : Backs(disk["destination"], receipt)
    BY <1>1, <1>2 DEF Shown
  <2>5. \A receipt \in Receipts : Backs(disk'["destination"], receipt)
    BY <1>4, <2>2, <2>4 DEF Backs, Exists
  <2>6. /\ Receipts' \subseteq Receipts
        /\ Destinations' \subseteq Destinations \cup {disk'["destination"]}
    BY <1>1, <2>1 DEF Shown, Kept, Grown
  <2> QED
    BY <1>2, <2>3, <2>5, <2>6, BackedThen
<1>5. CASE UseDestination
  BY <1>4, <1>5 DEF UseDestination, Write, Change
<1>6. CASE CreateForeign
  BY <1>4, <1>6 DEF CreateForeign, Write, Change
<1> QED
  BY <1>3, <1>5, <1>6 DEF RefreshSource, vars

(* If one process migrates, and nothing stops it or a recovery between the *)
(* rename of the database and the sync of its directory, every receipt     *)
(* that a power loss can leave is whole and has its copy: publish_new      *)
(* syncs the destination before the receipt gets its name.                 *)
THEOREM ReceiptsAreBacked == Spec /\ OneMigrator /\ PublicationsEnd => []ReceiptHasCopy
<1> SUFFICES ASSUME OneMigrator, PublicationsEnd PROVE Spec => []ReceiptHasCopy
  OBVIOUS
<1>1. Init => DInv
  <2> SUFFICES ASSUME Init PROVE DInv
    OBVIOUS
  <2>1. Durable
    BY DEF Init, Durable, Exists, Files, FilesOf, Directories
  <2>2. Receipts = {Absent}
    <3>1. images["record"] = {View(disk, "record")} /\ disk \in [Files -> Contents]
      BY Names DEF Init, Contents
    <3>2. View(disk, "record")["receipt"] = Absent
      BY <3>1, ViewType, Names DEF Init
    <3> QED
      BY <3>1, <3>2 DEF Receipts
  <2> QED
    BY <2>1, <2>2, Initially, BackedMeans DEF DInv, Backs
<1>2. DInv /\ [Next]_vars => DInv'
  <2> SUFFICES ASSUME DInv, [Next]_vars PROVE DInv'
    OBVIOUS
  <2>1. IInv'
    BY Inductive DEF DInv
  <2>2. Durable' /\ ReceiptHasCopy'
    BY DurableStep, BackedStep, BackedAfterLoss, BackedForOthers, NextActs
  <2> QED
    BY <2>1, <2>2 DEF DInv
<1>3. DInv => ReceiptHasCopy
  BY DEF DInv
<1> QED
  BY <1>1, <1>2, <1>3, PTL DEF Spec
=============================================================================
