------------------------- MODULE RefreshElectionProof -------------------------
(***************************************************************************)
(* For every set of processes of one release, every initial index and all  *)
(* bounds: the types of the election, that the schema stamp is true and    *)
(* never falls, that one process refreshes an interval, and that a running *)
(* report has its writer.                                                  *)
(***************************************************************************)
EXTENDS RefreshElection, TLAPS

\* All processes are of this release; of two releases the older may lower the stamp.
ThisRelease == \A p \in Procs : Schema[p] = 5

\* Where a process holds the update lock.
Holding == {"repairing", "announce", "announcing", "recheck", "refresh", "stamp", "promote",
            "mark", "promotelast"}

\* Where a process has opened the database and not closed it yet.
Inside == Working \ {"close", "closing"}

LockHeld == \A p \in Procs : pc[p] \in Holding => writer = p

\* Whoever is inside has a complete layout if the stamp says so; whoever is about to heal one is
\* alone with others about to do the same.
LayoutKnown ==
  \A p \in Procs :
    /\ pc[p] \in Inside /\ index.version \in {4, 5} => index.fts
    /\ pc[p] = "heal" => index.version = job[p].target /\ job[p].target \in {4, 5} /\ ~index.fts

\* An index of a newer release is opened by library calls only, which do not reindex it fully.
NewerUntouched ==
  \A p \in Procs :
    index.version > 5 /\ pc[p] \notin {"idle", "open", "close", "closing"} =>
      job[p].command = "library" /\ ~job[p].full

\* The rows are as new as the stamp says, or will say.
Provenance ==
  /\ index.version \in {4, 5} => index.parsed >= index.version
  /\ \A p \in Procs :
       /\ pc[p] \in {"stamp", "promote", "promotelast"} => job[p].full
       /\ pc[p] \in {"stamp", "promote", "promotelast", "mark"} /\ job[p].full =>
            index.parsed >= 5

\* After an automatic refresh nothing is due; before its end there was none.
OnceDone ==
  /\ automatic > 0 => marker = 5 /\ index.version >= 5 /\ automatic < 2
  /\ \A p \in Procs :
       ~Explicit(p) =>
         /\ pc[p] \in {"refresh", "stamp", "promote", "mark"} => automatic = 0
         /\ pc[p] = "refresh" /\ ~job[p].full => index.version >= 5
         /\ pc[p] = "promote" => index.version # 4
         /\ pc[p] = "mark" => index.version >= 5

IInv == TypeOK /\ LockHeld /\ LayoutKnown /\ NewerUntouched /\ Provenance /\ OnceDone

-----------------------------------------------------------------------------
(* Types *)

\* Storing sessions changes nothing of the index but whether it is empty.
LEMMA FilledProperties ==
  ASSUME NEW i \in Indexes, NEW j \in Filled(i)
  PROVE  j \in Indexes /\ j.version = i.version /\ j.fts = i.fts /\ j.parsed = i.parsed
<1>1. PICK e \in {FALSE, i.empty} : j = [i EXCEPT !.empty = e]
  BY DEF Filled
<1> QED
  BY <1>1 DEF Indexes

\* What a refresh, complete or cut short, may do to the index.
Rewritten(p) ==
  /\ index' \in Indexes
  /\ index'.version = index.version /\ index'.fts = index.fts
  /\ index'.parsed \in {index.parsed, Schema[p]}
  /\ Schema[p] < index.parsed \/ job[p].full \/ index'.parsed = index.parsed

LEMMA RewriteProperties ==
  ASSUME TypeOK, NEW p \in Procs, Refresh(p) \/ CutShort(p)
  PROVE  Rewritten(p) /\ (Refresh(p) /\ job[p].full => index'.parsed = Schema[p])
<1> DEFINE i == [index EXCEPT !.parsed = Schema[p]]
<1>1. Schema[p] \in Generations
  BY DEF Generations
<1>2. i \in Indexes /\ i.version = index.version /\ i.fts = index.fts /\ i.parsed = Schema[p]
  BY <1>1 DEF TypeOK, Indexes
<1>3. index \in Indexes /\ index = [index EXCEPT !.parsed = index.parsed]
  BY DEF TypeOK, Indexes
<1>4. index' \in Filled(index) \/ (index' \in Filled(i) /\ (job[p].full \/ Schema[p] < index.parsed))
  <2>1. CASE Refresh(p)
    BY <2>1, <1>3 DEF Refresh
  <2>2. CASE CutShort(p)
    BY <2>2, <1>3 DEF CutShort
  <2> QED
    BY <2>1, <2>2
<1>5. Refresh(p) /\ job[p].full => index' \in Filled(i)
  BY DEF Refresh
<1> HIDE DEF i
<1> QED
  BY <1>2, <1>3, <1>4, <1>5, FilledProperties DEF Rewritten

\* A job stays a job when one of its fields changes.
LEMMA JobProperties ==
  ASSUME NEW j \in Jobs
  PROVE  /\ \A b \in BOOLEAN : [j EXCEPT !.full = b] \in Jobs /\ [j EXCEPT !.elected = b] \in Jobs
         /\ \A outcome \in Outcomes : [j EXCEPT !.outcome = outcome] \in Jobs
         /\ \A g \in Generations : [j EXCEPT !.target = g] \in Jobs
BY DEF Jobs

LEMMA NoJobProperties ==
  /\ NoJob \in Jobs
  /\ \A command \in AllCommands : [NoJob EXCEPT !.command = command] \in Jobs
<1>1. NoJob \in Jobs
  BY DEF Jobs, NoJob, Generations
<1> QED
  BY <1>1 DEF Jobs

LEMMA EndType ==
  ASSUME TypeOK, NEW p \in Procs, End(p)
  PROVE  pc' \in [Procs -> Points] /\ job' \in [Procs -> Jobs]
BY NoJobProperties DEF TypeOK, End, Go, Points

LEMMA LeaveType ==
  ASSUME TypeOK, NEW p \in Procs, NEW outcome \in Outcomes, Leave(p, outcome)
  PROVE  pc' \in [Procs -> Points] /\ job' \in [Procs -> Jobs]
<1>1. CASE Go(p, "close") /\ job' = [job EXCEPT ![p].outcome = outcome]
  <2>1. job' = [job EXCEPT ![p] = [job[p] EXCEPT !.outcome = outcome]]
    BY <1>1
  <2> QED
    BY <1>1, <2>1, JobProperties DEF TypeOK, Go, Points, Working
<1>2. CASE Go(p, "output") /\ job' = [job EXCEPT ![p] = [NoJob EXCEPT !.command = "read"]]
  BY <1>2, NoJobProperties DEF TypeOK, Go, Points, Working, AllCommands
<1> QED
  BY <1>1, <1>2, EndType DEF Leave

LEMMA InitType == Init => TypeOK
BY ElectionAssumption DEF ElectionAssumption, Init, TypeOK, Points, Jobs, NoJob, NoReport, Generations, Indexes

LEMMA TypeStep == TypeOK /\ [Next]_vars => TypeOK'
<1> SUFFICES ASSUME TypeOK, [Next]_vars PROVE TypeOK'
  OBVIOUS
<1> USE ElectionAssumption DEF ElectionAssumption
<1>1. ASSUME NEW p \in Procs, \E command \in Commands[p] : Start(p, command) PROVE TypeOK'
  BY <1>1, NoJobProperties DEF TypeOK, Points, Opening, Working, shared, reporting, bounds, Start, Go
<1>2. ASSUME NEW p \in Procs, OpenRefused(p) PROVE TypeOK'
  BY <1>2, LeaveType DEF TypeOK, Points, Opening, Working, shared, reporting, bounds, OpenRefused, Outcomes
<1>3. ASSUME NEW p \in Procs, Inspect(p) PROVE TypeOK'
  BY <1>3 DEF TypeOK, Points, Opening, Working, shared, reporting, bounds, Inspect, Go
<1>4. ASSUME NEW p \in Procs, RepairElected(p) PROVE TypeOK'
  BY <1>4 DEF TypeOK, Points, Opening, Working, shared, reporting, bounds, RepairElected, LockFree, Go
<1>5. ASSUME NEW p \in Procs, Repair(p) PROVE TypeOK'
  BY <1>5 DEF TypeOK, Points, Opening, Working, shared, reporting, bounds, Repair, Go, Indexes
<1>6. ASSUME NEW p \in Procs, Install(p) PROVE TypeOK'
  BY <1>6 DEF TypeOK, Points, Opening, Working, shared, reporting, bounds, Install, Go, Indexes, Generations
<1>7. ASSUME NEW p \in Procs, SelfHeal(p) PROVE TypeOK'
  BY <1>7, JobProperties DEF TypeOK, Points, Opening, Working, shared, reporting, bounds, SelfHeal, Go, Indexes
<1>8. ASSUME NEW p \in Procs, SelfHealed(p) PROVE TypeOK'
  BY <1>8 DEF TypeOK, Points, Opening, Working, shared, reporting, bounds, SelfHealed, Go, Indexes, Jobs
<1>9. ASSUME NEW p \in Procs, Opened(p) PROVE TypeOK'
  BY <1>9 DEF TypeOK, Points, Opening, Working, shared, reporting, bounds, Opened, Go
<1>10. ASSUME NEW p \in Procs, DecideBackfill(p) PROVE TypeOK'
  <2>1. CASE job' = [job EXCEPT ![p].full = TRUE] /\ Go(p, "wait")
    <3>1. job' = [job EXCEPT ![p] = [job[p] EXCEPT !.full = TRUE]]
      BY <2>1
    <3>2. [job[p] EXCEPT !.full = TRUE] \in Jobs
      <4>1. job[p] \in Jobs
        BY DEF TypeOK
      <4> QED
        BY <4>1, JobProperties
    <3>3. job' \in [Procs -> Jobs] /\ pc' \in [Procs -> Points]
      BY <2>1, <3>1, <3>2 DEF TypeOK, Points, Working, Go
    <3> QED
      BY <1>10, <3>3 DEF TypeOK, shared, reporting, bounds, DecideBackfill
  <2>2. CASE End(p)
    BY <1>10, <2>2, EndType DEF TypeOK, shared, reporting, bounds, DecideBackfill
  <2> QED
    BY <1>10, <2>1, <2>2 DEF DecideBackfill
<1>11. ASSUME NEW p \in Procs, DecideRefresh(p) PROVE TypeOK'
  BY <1>11, LeaveType DEF TypeOK, Points, Opening, Working, shared, reporting, bounds, DecideRefresh, Go, Outcomes
<1>12. ASSUME NEW p \in Procs, DecideUnreadable(p) PROVE TypeOK'
  BY <1>12, LeaveType DEF TypeOK, Points, Opening, Working, shared, reporting, bounds, DecideUnreadable, Outcomes
<1>13. ASSUME NEW p \in Procs, DecideExplicit(p) PROVE TypeOK'
  BY <1>13 DEF TypeOK, Points, Opening, Working, shared, reporting, bounds, DecideExplicit, Go
<1>14. ASSUME NEW p \in Procs, DecideLibrary(p) PROVE TypeOK'
  BY <1>14, EndType DEF TypeOK, Points, Opening, Working, shared, reporting, bounds, DecideLibrary, Go
<1>15. ASSUME NEW p \in Procs, Elect(p) PROVE TypeOK'
  BY <1>15, JobProperties DEF TypeOK, Points, Opening, Working, shared, reporting, bounds, Elect, LockFree, Go
<1>16. ASSUME NEW p \in Procs, Busy(p) PROVE TypeOK'
  BY <1>16, LeaveType DEF TypeOK, Points, Opening, Working, shared, reporting, bounds, Busy, Outcomes
<1>17. ASSUME NEW p \in Procs, Wait(p) PROVE TypeOK'
  BY <1>17 DEF TypeOK, Points, Opening, Working, shared, reporting, bounds, Wait, LockFree, Go
<1>18. ASSUME NEW p \in Procs, Recheck(p) PROVE TypeOK'
  <2>1. CASE StillDue(p)
    <3> DEFINE full == job[p].full \/ job[p].command = "full" \/ Outdated(p)
    <3>1. job' = [job EXCEPT ![p] = [job[p] EXCEPT !.full = full]] /\ full \in BOOLEAN
      BY <1>18, <2>1 DEF Recheck, TypeOK, Jobs
    <3> HIDE DEF full
    <3>2. job' \in [Procs -> Jobs]
      BY <3>1, JobProperties DEF TypeOK
    <3> QED
      BY <1>18, <2>1, <3>2 DEF TypeOK, Points, Working, shared, reporting, bounds, Recheck, Go
  <2>2. CASE ~StillDue(p)
    BY <1>18, <2>2, LeaveType DEF TypeOK, shared, reporting, bounds, Recheck, Finish, Outcomes
  <2> QED
    BY <2>1, <2>2
<1>19. ASSUME NEW p \in Procs, Refresh(p) PROVE TypeOK'
  BY <1>19, RewriteProperties DEF TypeOK, Points, Opening, Working, shared, reporting, bounds, Refresh, Rewritten, Go
<1>20. ASSUME NEW p \in Procs, CutShort(p) PROVE TypeOK'
  <2>1. PICK outcome \in {"busy", "failed", "cancelled"} : Finish(p, outcome)
    BY <1>20 DEF CutShort
  <2>2. writer' = Nobody /\ pc' \in [Procs -> Points] /\ job' \in [Procs -> Jobs]
    BY <2>1, LeaveType DEF Finish, Outcomes
  <2>3. index' \in Indexes
    BY <1>20, RewriteProperties DEF Rewritten
  <2> QED
    BY <1>20, <2>2, <2>3 DEF CutShort, TypeOK, reporting
<1>21. ASSUME NEW p \in Procs, Cancel(p) PROVE TypeOK'
  BY <1>21, LeaveType DEF TypeOK, Points, Opening, Working, shared, reporting, bounds, Cancel, Released, Outcomes
<1>22. ASSUME NEW p \in Procs, Stamp(p) PROVE TypeOK'
  BY <1>22 DEF TypeOK, Points, Opening, Working, shared, reporting, bounds, Stamp, Stamped, Go, Indexes, Generations, PreFts
<1>23. ASSUME NEW p \in Procs, Promote(p) PROVE TypeOK'
  <2>1. Promoted(p) \in Indexes
    BY DEF TypeOK, Promoted, Indexes, Generations
  <2>2. index' \in Indexes
    BY <1>23, <2>1 DEF Promote
  <2>3. CASE At(p, "promote")
    BY <1>23, <2>2, <2>3 DEF TypeOK, Points, Working, reporting, bounds, Promote, Go, At
  <2>4. CASE At(p, "promotelast")
    BY <1>23, <2>2, <2>4, LeaveType DEF TypeOK, reporting, bounds, Promote, Finish, Outcomes, At
  <2> QED
    BY <1>23, <2>3, <2>4 DEF Promote
<1>24. ASSUME NEW p \in Procs, PromoteBlocked(p) PROVE TypeOK'
  BY <1>24, LeaveType DEF TypeOK, Points, Opening, Working, shared, reporting, bounds, PromoteBlocked, Unpromoted, Released, Outcomes
<1>25. ASSUME NEW p \in Procs, PromoteFails(p) PROVE TypeOK'
  BY <1>25, LeaveType DEF TypeOK, Points, Opening, Working, shared, reporting, bounds, PromoteFails, Unpromoted, Released, Outcomes
<1>26. ASSUME NEW p \in Procs, Mark(p) PROVE TypeOK'
  BY <1>26, LeaveType DEF TypeOK, Points, Opening, Working, shared, reporting, bounds, Mark, Finish, Go, Generations, Outcomes
<1>27. ASSUME NEW p \in Procs, CheckReport(p) PROVE TypeOK'
  BY <1>27, EndType DEF TypeOK, Points, Opening, Working, shared, reporting, bounds, CheckReport, Preserves, RunningOfAnother, Go
<1>28. ASSUME NEW p \in Procs, WriteReport(p) PROVE TypeOK'
  BY <1>28, EndType DEF TypeOK, Points, Opening, Working, shared, reporting, bounds, WriteReport, Go, Jobs
<1>29. ASSUME NEW p \in Procs, EndProbe(p) PROVE TypeOK'
  BY <1>29 DEF TypeOK, Points, Opening, Working, shared, reporting, bounds, EndProbe
<1>30. ASSUME NEW p \in Procs, Schedule(p) PROVE TypeOK'
  BY <1>30, EndType, NoJobProperties DEF TypeOK, Points, Opening, Working, shared, reporting, bounds, Schedule, Go, AllCommands
<1>31. ASSUME NEW p \in Procs, Crash(p) PROVE TypeOK'
  BY <1>31, EndType DEF TypeOK, Points, Opening, Working, shared, reporting, bounds, Crash, Released
<1>32. AskStatus => TypeOK'
  BY DEF AskStatus, TypeOK, shared, reporting
<1>33. EndProbe(Reader) => TypeOK'
  BY DEF EndProbe, TypeOK, shared, reporting, bounds
<1>34. Expire => TypeOK'
  BY DEF Expire, TypeOK, reporting, Generations
<1>35. UNCHANGED vars => TypeOK'
  BY DEF vars, shared, reporting, bounds, TypeOK
<1>36. ASSUME NEW p \in Procs, ReportUnread(p) PROVE TypeOK'
  BY <1>36 DEF TypeOK, Points, Working, shared, reporting, ReportUnread, Go
<1>37. ASSUME NEW p \in Procs, ReportFails(p) PROVE TypeOK'
  BY <1>37, EndType DEF TypeOK, Points, Working, shared, ReportFails, Go
<1> QED
  BY <1>1, <1>2, <1>3, <1>4, <1>5, <1>6, <1>7, <1>8, <1>9, <1>10, <1>11, <1>12, <1>13, <1>14, <1>15, <1>16, <1>17, <1>18, <1>19, <1>20, <1>21, <1>22, <1>23, <1>24, <1>25, <1>26, <1>27, <1>28, <1>29, <1>30, <1>31, <1>32, <1>33, <1>34, <1>35, <1>36, <1>37 DEF Next, Continue, Open

\* TypeOK for all constants: the states of the election, of its lock and of the status report
\* (IndexCoordinator, background_refresh::run).
THEOREM TypeCorrect == Spec => []TypeOK
<1>1. Init => TypeOK
  BY InitType
<1>2. TypeOK /\ [Next]_vars => TypeOK'
  BY TypeStep
<1> QED
  BY <1>1, <1>2, PTL DEF Spec
-----------------------------------------------------------------------------
(* The status report *)

\* A step of one process.
StepOf(p) ==
  \/ \E command \in Commands[p] : Start(p, command)
  \/ Continue(p) \/ CutShort(p) \/ Cancel(p) \/ PromoteFails(p)
  \/ ReportUnread(p) \/ ReportFails(p) \/ Crash(p)

\* What becomes of a report.
Reported(p) == WriteReport(p) \/ ReportUnread(p) \/ ReportFails(p)

\* What the other processes are at and know stays as it is.
OthersStay(p) == \A q \in Procs \ {p} : pc'[q] = pc[q] /\ job'[q] = job[q]

LEMMA LeaveLocal ==
  ASSUME TypeOK, NEW p \in Procs, NEW outcome, Leave(p, outcome)
  PROVE  OthersStay(p)
BY DEF TypeOK, Leave, End, Go, OthersStay

LEMMA StepLocal ==
  ASSUME TypeOK, NEW p \in Procs, StepOf(p)
  PROVE  OthersStay(p)
<1>1. CASE Open(p)
  BY <1>1, LeaveLocal
  DEF TypeOK, OthersStay, Open, OpenRefused, Inspect, RepairElected, Repair, Install, SelfHeal,
      SelfHealed, Opened, Go
<1>2. CASE DecideBackfill(p) \/ DecideRefresh(p) \/ DecideUnreadable(p) \/ DecideExplicit(p)
           \/ DecideLibrary(p)
  BY <1>2, LeaveLocal
  DEF TypeOK, OthersStay, DecideBackfill, DecideRefresh, DecideUnreadable, DecideExplicit,
      DecideLibrary, End, Go
<1>3. CASE Elect(p) \/ Busy(p) \/ Wait(p) \/ Recheck(p)
  BY <1>3, LeaveLocal DEF TypeOK, OthersStay, Elect, Busy, Wait, Recheck, Finish, Go
<1>4. CASE Refresh(p) \/ CutShort(p) \/ Cancel(p) \/ Stamp(p)
  BY <1>4, LeaveLocal DEF TypeOK, OthersStay, Refresh, CutShort, Cancel, Stamp, Finish, Go
<1>5. CASE Promote(p) \/ PromoteBlocked(p) \/ PromoteFails(p) \/ Mark(p)
  BY <1>5, LeaveLocal
  DEF TypeOK, OthersStay, Promote, PromoteBlocked, PromoteFails, Unpromoted, Mark, Finish, Go
<1>6. CASE CheckReport(p) \/ Reported(p) \/ EndProbe(p) \/ Schedule(p) \/ Crash(p)
  BY <1>6
  DEF TypeOK, OthersStay, CheckReport, Reported, WriteReport, ReportUnread, ReportFails, EndProbe,
      Schedule, Crash, End, Go
<1>7. CASE \E command \in Commands[p] : Start(p, command)
  BY <1>7 DEF TypeOK, OthersStay, Start, Go
<1> QED
  BY <1>1, <1>2, <1>3, <1>4, <1>5, <1>6, <1>7 DEF StepOf, Continue, Reported

\* Where the writer of a running report may be.
Reporting == {"recheck", "refresh", "stamp", "promote", "mark", "close", "closing"}

\* An elected background refresh leaves for its terminal report.
LEMMA LeaveReporting ==
  ASSUME TypeOK, NEW p \in Procs, NEW outcome, Leave(p, outcome),
         Background(p), job[p].elected
  PROVE  pc'[p] = "close" /\ Background(p)' /\ job'[p].elected
BY DEF TypeOK, Jobs, Leave, Reports, Answers, Background, Go

\* Its own steps keep it where it still owes a terminal report.
LEMMA ReporterStays ==
  ASSUME TypeOK, NEW p \in Procs, StepOf(p), ~Crash(p), ~WriteReport(p), ~ReportFails(p),
         report.by = p, Background(p), job[p].elected, pc[p] \in Reporting
  PROVE  Background(p)' /\ job'[p].elected /\ pc'[p] \in Reporting
<1> USE DEF TypeOK, Reporting, At
<1>1. CASE Recheck(p)
  BY <1>1, LeaveReporting DEF Recheck, Finish, Go, Jobs, Background
<1>2. CASE Refresh(p) \/ Stamp(p)
  BY <1>2 DEF Refresh, Stamp, Go, Explicit, Background
<1>3. CASE CutShort(p) \/ Cancel(p)
  BY <1>3, LeaveReporting DEF CutShort, Cancel, Finish
<1>4. CASE Promote(p) \/ PromoteBlocked(p) \/ PromoteFails(p)
  BY <1>4, LeaveReporting
  DEF Promote, PromoteBlocked, PromoteFails, Unpromoted, Promoting, Finish, Go, Background
<1>5. CASE Mark(p)
  BY <1>5, LeaveReporting DEF Mark, Finish, Explicit, Background
<1>6. CASE CheckReport(p) \/ ReportUnread(p)
  BY <1>6 DEF CheckReport, ReportUnread, Preserves, RunningOfAnother, Go, Background
<1>7. CASE EndProbe(p)
  BY <1>7 DEF EndProbe, Background
<1>8. ~(Open(p) \/ \E command \in Commands[p] : Start(p, command))
  BY DEF Open, OpenRefused, Inspect, RepairElected, Repair, Install, SelfHeal, SelfHealed, Opened, Start
<1>9. ~(DecideBackfill(p) \/ DecideRefresh(p) \/ DecideUnreadable(p) \/ DecideExplicit(p)
        \/ DecideLibrary(p) \/ Elect(p) \/ Busy(p) \/ Wait(p) \/ Schedule(p))
  BY DEF DecideBackfill, DecideRefresh, DecideUnreadable, DecideExplicit, DecideLibrary, Elect,
         Busy, Wait, Schedule
<1> QED
  BY <1>1, <1>2, <1>3, <1>4, <1>5, <1>6, <1>7, <1>8, <1>9 DEF StepOf, Continue

\* A running report is the report of an elected process that writes another one at its end, unless
\* it dies or has tried in vain.
ReportOwned ==
  /\ report.state = "running" =>
       \/ report.by = Dead \/ report.by \in lost
       \/ /\ report.by \in Procs
          /\ Background(report.by) /\ job[report.by].elected
          /\ pc[report.by] \in Reporting
  /\ \A p \in Procs :
       pc[p] \in {"announce", "announcing"} => Background(p) /\ job[p].elected

LEMMA Announcing ==
  ASSUME TypeOK, ReportOwned, NEW p \in Procs, StepOf(p), pc'[p] \in {"announce", "announcing"}
  PROVE  Background(p)' /\ job'[p].elected
<1> USE DEF TypeOK, At
<1>1. ASSUME NEW outcome PROVE ~Leave(p, outcome)
  BY DEF Leave, End, Go
<1>2. ~(Open(p) \/ \E command \in Commands[p] : Start(p, command))
  BY <1>1
  DEF Open, OpenRefused, Inspect, RepairElected, Repair, Install, SelfHeal, SelfHealed, Opened,
      Start, Go
<1>3. ~(DecideBackfill(p) \/ DecideRefresh(p) \/ DecideUnreadable(p) \/ DecideExplicit(p)
        \/ DecideLibrary(p) \/ Busy(p) \/ Wait(p) \/ Recheck(p))
  BY <1>1
  DEF DecideBackfill, DecideRefresh, DecideUnreadable, DecideExplicit, DecideLibrary, Busy, Wait,
      Recheck, Finish, End, Go
<1>4. ~(Refresh(p) \/ CutShort(p) \/ Cancel(p) \/ Stamp(p) \/ Promote(p) \/ PromoteBlocked(p)
        \/ PromoteFails(p) \/ Mark(p))
  BY <1>1
  DEF Refresh, CutShort, Cancel, Stamp, Promote, PromoteBlocked, PromoteFails, Unpromoted, Mark,
      Finish, Go
<1>5. ~(WriteReport(p) \/ ReportFails(p) \/ Schedule(p) \/ Crash(p))
  BY DEF WriteReport, ReportFails, Schedule, Crash, End, Go
<1>6. CASE Elect(p)
  BY <1>6 DEF Elect, Go, Background, Jobs
<1>7. CASE CheckReport(p) \/ ReportUnread(p)
  <2>1. pc[p] = "announce" /\ job' = job
    BY <1>7 DEF CheckReport, ReportUnread, End, Go
  <2> QED
    BY <2>1 DEF ReportOwned, Background
<1>8. CASE EndProbe(p)
  BY <1>8 DEF EndProbe, ReportOwned, Background
<1> QED
  BY <1>2, <1>3, <1>4, <1>5, <1>6, <1>7, <1>8 DEF StepOf, Continue, Reported

LEMMA ReportStep == TypeOK /\ ReportOwned /\ [Next]_vars => ReportOwned'
<1> SUFFICES ASSUME TypeOK, ReportOwned, [Next]_vars PROVE ReportOwned'
  OBVIOUS
<1>1. ASSUME NEW p \in Procs, StepOf(p) PROVE ReportOwned'
  <2>1. OthersStay(p)
    BY <1>1, StepLocal
  <2>2. \A q \in Procs : pc'[q] \in {"announce", "announcing"} => Background(q)' /\ job'[q].elected
    <3> SUFFICES ASSUME NEW q \in Procs, pc'[q] \in {"announce", "announcing"}
                 PROVE  Background(q)' /\ job'[q].elected
      OBVIOUS
    <3>1. CASE q = p
      BY <1>1, <3>1, Announcing
    <3>2. CASE q # p
      BY <2>1, <3>2 DEF OthersStay, ReportOwned, Background
    <3> QED
      BY <3>1, <3>2
  <2>3. CASE WriteReport(p)
    <3>1. CASE At(p, "announcing")
      <4>1. report' = [state |-> "running", by |-> p] /\ pc'[p] = "recheck" /\ job' = job
        BY <2>3, <3>1 DEF WriteReport, At, Go, TypeOK
      <4> QED
        BY <2>2, <3>1, <4>1 DEF ReportOwned, Reporting, At, Background
    <3>2. CASE At(p, "closing")
      <4>1. report'.state \in Outcomes \cup {"none"}
        BY <2>3, <3>2 DEF WriteReport, At, TypeOK, Jobs
      <4> QED
        BY <2>2, <4>1 DEF ReportOwned, Outcomes
    <3> QED
      BY <2>3, <3>1, <3>2 DEF WriteReport
  <2>4. CASE Crash(p)
    <3>1. CASE report.by = p
      BY <2>2, <2>4, <3>1 DEF Crash, ReportOwned, TypeOK
    <3>2. CASE report.by # p
      BY <2>1, <2>2, <2>4, <3>2 DEF Crash, ReportOwned, OthersStay, Background
    <3> QED
      BY <3>1, <3>2
  <2>5. CASE ReportFails(p)
    <3>1. report' = report /\ lost \subseteq lost'
      BY <2>5 DEF ReportFails
    <3>2. CASE report.by = p /\ pc[p] \in {"close", "closing"}
      <4>1. p \in lost'
        BY <2>5, <3>2 DEF ReportFails, At
      <4> QED
        BY <2>2, <3>1, <3>2, <4>1 DEF ReportOwned
    <3>3. CASE report.by = p /\ pc[p] \notin {"close", "closing"}
      <4>1. pc[p] \notin Reporting
        BY <2>5, <3>3 DEF ReportFails, At, Reporting
      <4> QED
        BY <2>2, <3>1, <3>3, <4>1 DEF ReportOwned
    <3>4. CASE report.by # p
      BY <2>1, <2>2, <3>1, <3>4 DEF ReportOwned, OthersStay, Background
    <3> QED
      BY <3>2, <3>3, <3>4
  <2>6. CASE ~WriteReport(p) /\ ~Crash(p) /\ ~ReportFails(p)
    <3>1. report' = report /\ lost' = lost
      BY <1>1, <2>6
      DEF StepOf, Continue, Start, Open, OpenRefused, Inspect, RepairElected, Repair, Install,
          SelfHeal, SelfHealed, Opened, DecideBackfill, DecideRefresh, DecideUnreadable,
          DecideExplicit, DecideLibrary, Elect, Busy, Wait, Recheck, Refresh, CutShort, Cancel,
          Stamp, Promote, PromoteBlocked, PromoteFails, Unpromoted, Mark, CheckReport,
          ReportUnread, EndProbe, Schedule, reporting
    <3>2. CASE report.by = p
      BY <1>1, <2>2, <2>6, <3>1, <3>2, ReporterStays DEF ReportOwned
    <3>3. CASE report.by # p
      BY <2>1, <2>2, <3>1, <3>3 DEF ReportOwned, OthersStay, Background
    <3> QED
      BY <3>2, <3>3
  <2> QED
    BY <2>3, <2>4, <2>5, <2>6
<1>2. CASE AskStatus \/ EndProbe(Reader) \/ Expire \/ UNCHANGED vars
  BY <1>2 DEF AskStatus, EndProbe, Expire, vars, reporting, ReportOwned, Background
<1> QED
  BY <1>1, <1>2 DEF Next, StepOf

\* RunningReportHasWriter for all constants, releases included: an elected background refresh
\* ends with a report of its own, with the error of an attempt at it, or with its process
\* (background_refresh::run, write_best_effort), whatever other reports fail or cannot be read.
THEOREM RunningReportsEnd == Spec => []RunningReportHasWriter
<1>1. Init => ReportOwned
  BY DEF Init, ReportOwned, NoReport
<1>2. TypeOK /\ ReportOwned /\ [Next]_vars => ReportOwned'
  BY ReportStep
<1>3. ReportOwned => RunningReportHasWriter
  BY DEF ReportOwned, RunningReportHasWriter, Reporting, Working
<1> QED
  BY <1>1, <1>2, <1>3, TypeCorrect, PTL DEF Spec
-----------------------------------------------------------------------------
(* The update lock *)

LEMMA HolderHolds ==
  ASSUME TypeOK, LockHeld, NEW p \in Procs, StepOf(p), pc'[p] \in Holding
  PROVE  writer' = p
<1> USE DEF TypeOK, At, Holding
<1>1. ASSUME NEW outcome PROVE ~Leave(p, outcome)
  BY DEF Leave, End, Go
<1>2. CASE Open(p)
  BY <1>1, <1>2
  DEF Open, OpenRefused, Inspect, RepairElected, Repair, Install, SelfHeal, SelfHealed, Opened, Go
<1>3. CASE Elect(p) \/ Wait(p) \/ Recheck(p)
  BY <1>1, <1>3 DEF Elect, Wait, Recheck, Finish, Go, LockHeld
<1>4. CASE Refresh(p) \/ Stamp(p) \/ Promote(p) \/ Mark(p)
  BY <1>1, <1>4 DEF Refresh, Stamp, Promote, Mark, Finish, Go, LockHeld
<1>5. CASE CheckReport(p) \/ Reported(p) \/ EndProbe(p)
  BY <1>5
  DEF CheckReport, Reported, WriteReport, ReportUnread, ReportFails, EndProbe, End, Go, LockHeld
<1>6. ~(DecideBackfill(p) \/ DecideRefresh(p) \/ DecideUnreadable(p) \/ DecideExplicit(p)
        \/ DecideLibrary(p) \/ Busy(p))
  BY <1>1
  DEF DecideBackfill, DecideRefresh, DecideUnreadable, DecideExplicit, DecideLibrary, Busy, End, Go
<1>7. ~(CutShort(p) \/ Cancel(p) \/ PromoteBlocked(p) \/ PromoteFails(p))
  BY <1>1 DEF CutShort, Cancel, PromoteBlocked, PromoteFails, Unpromoted, Finish
<1>8. ~(Schedule(p) \/ Crash(p) \/ \E command \in Commands[p] : Start(p, command))
  BY DEF Schedule, Crash, Start, End, Go
<1> QED
  BY <1>2, <1>3, <1>4, <1>5, <1>6, <1>7, <1>8 DEF StepOf, Continue, Reported

LEMMA WriterStays ==
  ASSUME TypeOK, LockHeld, NEW p \in Procs, NEW q \in Procs, q # p, writer = q, StepOf(p)
  PROVE  writer' = q
<1>1. writer # Nobody /\ pc[p] \notin Holding
  BY ElectionAssumption DEF ElectionAssumption, LockHeld
<1>2. Released(p) = writer
  BY DEF Released
<1>3. ~(RepairElected(p) \/ Repair(p) \/ Elect(p) \/ Wait(p) \/ Recheck(p) \/ CutShort(p)
        \/ Promote(p) \/ Mark(p))
  BY <1>1
  DEF RepairElected, Repair, Elect, Wait, Recheck, CutShort, Promote, Mark, LockFree, At, Holding,
      Refresh
<1> QED
  BY <1>2, <1>3
  DEF StepOf, Continue, Start, Open, OpenRefused, Inspect, Install, SelfHeal, SelfHealed, Opened,
      DecideBackfill, DecideRefresh, DecideUnreadable, DecideExplicit, DecideLibrary, Busy, Refresh,
      Cancel, Stamp, PromoteBlocked, PromoteFails, Unpromoted, CheckReport, Reported, WriteReport,
      ReportUnread, ReportFails, EndProbe,
      Schedule, Crash

LEMMA LockStep == TypeOK /\ LockHeld /\ [Next]_vars => LockHeld'
<1> SUFFICES ASSUME TypeOK, LockHeld, [Next]_vars PROVE LockHeld'
  OBVIOUS
<1>1. ASSUME NEW p \in Procs, StepOf(p) PROVE LockHeld'
  <2> SUFFICES ASSUME NEW q \in Procs, pc'[q] \in Holding PROVE writer' = q
    BY DEF LockHeld
  <2>1. CASE q = p
    BY <1>1, <2>1, HolderHolds
  <2>2. CASE q # p
    BY <1>1, <2>2, StepLocal, WriterStays DEF OthersStay, LockHeld
  <2> QED
    BY <2>1, <2>2
<1>2. CASE AskStatus \/ EndProbe(Reader) \/ Expire \/ UNCHANGED vars
  BY <1>2 DEF AskStatus, EndProbe, Expire, vars, LockHeld
<1> QED
  BY <1>1, <1>2 DEF Next, StepOf
-----------------------------------------------------------------------------
(* The schema stamp *)

\* The only steps that change the stamp, and how.
Restamped(p) ==
  \/ Install(p) /\ index.version = 0 /\ index'.version = 5 /\ index'.fts
  \/ Stamp(p) /\ index.version \in 4..5 /\ index'.version = 5
  \/ Stamp(p) /\ index.version < 4 /\ index'.version = 3
  \/ Promote(p) /\ index.version \in (0..5) \ {4} /\ index'.version = 5 /\ index'.fts

LEMMA IndexStep ==
  ASSUME IInv, ThisRelease, NEW p \in Procs, StepOf(p)
  PROVE  /\ index'.version = index.version \/ Restamped(p)
         /\ index.fts => index'.fts
         /\ index'.parsed \in {index.parsed, 5}
<1> USE DEF At, Fts
<1>1. /\ Schema[p] = 5 /\ index.version \in Nat
      /\ index = [version |-> index.version, fts |-> index.fts, parsed |-> index.parsed, empty |-> index.empty]
      /\ index.fts \in BOOLEAN
  BY DEF ThisRelease, IInv, TypeOK, Indexes, Generations
<1>2. CASE Install(p)
  BY <1>1, <1>2 DEF Install, Restamped
<1>3. CASE Repair(p)
  BY <1>1, <1>3 DEF Repair
<1>4. CASE SelfHealed(p)
  <2>1. index.version = job[p].target
    BY <1>4 DEF SelfHealed, IInv, LayoutKnown
  <2> QED
    BY <1>1, <1>4, <2>1 DEF SelfHealed
<1>5. CASE Refresh(p) \/ CutShort(p)
  BY <1>1, <1>5, RewriteProperties DEF IInv, Rewritten
<1>6. CASE Stamp(p)
  <2>1. job[p].full
    BY <1>6 DEF Stamp, IInv, Provenance
  <2>2. index.version <= 5
    BY <1>1, <1>6, <2>1 DEF Stamp, IInv, NewerUntouched
  <2>3. index' = [index EXCEPT !.version = IF index.version >= 4 THEN 5 ELSE 3]
    BY <1>1, <1>6 DEF Stamp, Stamped, PreFts
  <2> QED
    BY <1>1, <1>6, <2>2, <2>3 DEF Restamped
<1>7. CASE Promote(p)
  <2>1. job[p].full
    BY <1>7 DEF Promote, IInv, Provenance
  <2>2. index.version <= 5
    BY <1>1, <1>7, <2>1 DEF Promote, IInv, NewerUntouched
  <2>3. index' = [index EXCEPT !.fts = TRUE, !.version = IF index.version = 4 THEN 4 ELSE 5]
    BY <1>1, <1>7 DEF Promote, Promoted
  <2> QED
    BY <1>1, <1>7, <2>2, <2>3 DEF Restamped
<1>8. CASE ~(Install(p) \/ Repair(p) \/ SelfHealed(p) \/ Refresh(p) \/ CutShort(p) \/ Stamp(p)
             \/ Promote(p))
  <2>1. index' = index
    BY <1>8
    DEF StepOf, Continue, Start, Open, OpenRefused, Inspect, RepairElected, SelfHeal, Opened,
        DecideBackfill, DecideRefresh, DecideUnreadable, DecideExplicit, DecideLibrary, Elect, Busy,
        Wait, Recheck, Cancel, PromoteBlocked, PromoteFails, Unpromoted, Mark, CheckReport,
        Reported, WriteReport, ReportUnread, ReportFails, EndProbe, Schedule, Crash, shared
  <2> QED
    BY <2>1
<1> QED
  BY <1>2, <1>3, <1>4, <1>5, <1>6, <1>7, <1>8

\* While p is about to heal a layout, no other process touches the index.
LEMMA HealAlone ==
  ASSUME IInv, ThisRelease, NEW p \in Procs, NEW q \in Procs, q # p, pc[q] = "heal", StepOf(p)
  PROVE  index' = index
<1> USE DEF At, Fts
<1>1. /\ index.version \in {4, 5} /\ ~index.fts /\ ~Alone(p) /\ Schema[p] = 5 /\ Broken
      /\ pc[p] \notin Inside
  BY DEF IInv, LayoutKnown, Alone, Connected, ThisRelease, Broken
<1>2. ~(Install(p) \/ SelfHealed(p) \/ Refresh(p) \/ CutShort(p) \/ Stamp(p) \/ Promote(p))
  BY <1>1 DEF Install, SelfHealed, Refresh, CutShort, Stamp, Promote, Inside, Working
<1>3. CASE Repair(p)
  <2>1. index.version # 5
    BY <1>1, <1>3 DEF Repair
  <2> QED
    BY <1>1, <1>3, <2>1 DEF Repair
<1>4. CASE ~Repair(p)
  BY <1>2, <1>4
  DEF StepOf, Continue, Start, Open, OpenRefused, Inspect, RepairElected, SelfHeal, Opened,
      DecideBackfill, DecideRefresh, DecideUnreadable, DecideExplicit, DecideLibrary, Elect, Busy,
      Wait, Recheck, Cancel, PromoteBlocked, PromoteFails, Unpromoted, Mark, CheckReport,
      Reported, WriteReport, ReportUnread, ReportFails, EndProbe, Schedule, Crash, shared
<1> QED
  BY <1>3, <1>4

\* Inside, and about to heal, are where somebody came from there or through Db::init.
LEMMA Entering ==
  ASSUME TypeOK, NEW p \in Procs, StepOf(p), pc'[p] \in Inside
  PROVE  pc[p] \in Inside \/ Opened(p) \/ Install(p) \/ SelfHealed(p)
<1> USE DEF TypeOK, At, Inside, Working
<1>1. CASE OpenRefused(p) \/ Inspect(p) \/ RepairElected(p) \/ Repair(p) \/ SelfHeal(p)
  BY <1>1
  DEF OpenRefused, Inspect, RepairElected, Repair, SelfHeal, Leave, Answers, End, Go
<1>2. CASE PromoteBlocked(p) \/ PromoteFails(p)
  BY <1>2 DEF PromoteBlocked, PromoteFails, Unpromoted, Leave, Answers, End, Go
<1>3. CASE CheckReport(p) \/ Reported(p) \/ EndProbe(p) \/ Crash(p)
            \/ \E command \in Commands[p] : Start(p, command)
  BY <1>3
  DEF CheckReport, Reported, WriteReport, ReportUnread, ReportFails, EndProbe, Crash, Start, End, Go
<1>4. CASE DecideBackfill(p) \/ DecideRefresh(p) \/ DecideUnreadable(p) \/ DecideExplicit(p)
           \/ DecideLibrary(p) \/ Elect(p) \/ Busy(p) \/ Wait(p) \/ Recheck(p) \/ Schedule(p)
  BY <1>4
  DEF DecideBackfill, DecideRefresh, DecideUnreadable, DecideExplicit, DecideLibrary, Elect, Busy,
      Wait, Recheck, Schedule
<1>5. CASE Refresh(p) \/ CutShort(p) \/ Cancel(p) \/ Stamp(p) \/ Promote(p) \/ Mark(p)
  BY <1>5 DEF Refresh, CutShort, Cancel, Stamp, Promote, Mark
<1> QED
  BY <1>1, <1>2, <1>3, <1>4, <1>5 DEF StepOf, Continue, Reported, Open

LEMMA Healing ==
  ASSUME TypeOK, NEW p \in Procs, StepOf(p), pc'[p] = "heal"
  PROVE  SelfHeal(p) \/ (pc[p] = "heal" /\ job' = job /\ index' = index)
<1> USE DEF TypeOK, At
<1>1. ASSUME NEW outcome PROVE ~Leave(p, outcome)
  BY DEF Leave, End, Go
<1>2. CASE Open(p)
  BY <1>1, <1>2
  DEF Open, OpenRefused, Inspect, RepairElected, Repair, Install, SelfHealed, Opened, Go
<1>3. CASE EndProbe(p)
  BY <1>3 DEF EndProbe, shared
<1>4. ~(DecideBackfill(p) \/ DecideRefresh(p) \/ DecideUnreadable(p) \/ DecideExplicit(p)
        \/ DecideLibrary(p) \/ Elect(p) \/ Busy(p) \/ Wait(p) \/ Recheck(p))
  BY <1>1
  DEF DecideBackfill, DecideRefresh, DecideUnreadable, DecideExplicit, DecideLibrary, Elect, Busy,
      Wait, Recheck, Finish, End, Go
<1>5. ~(Refresh(p) \/ CutShort(p) \/ Cancel(p) \/ Stamp(p) \/ Promote(p) \/ PromoteBlocked(p)
        \/ PromoteFails(p) \/ Mark(p))
  BY <1>1
  DEF Refresh, CutShort, Cancel, Stamp, Promote, PromoteBlocked, PromoteFails, Unpromoted, Mark,
      Finish, Go
<1>6. ~(CheckReport(p) \/ Reported(p) \/ Schedule(p) \/ Crash(p)
        \/ \E command \in Commands[p] : Start(p, command))
  BY DEF CheckReport, Reported, WriteReport, ReportUnread, ReportFails, Schedule, Crash, Start, End,
         Go
<1> QED
  BY <1>2, <1>3, <1>4, <1>5, <1>6 DEF StepOf, Continue, Reported

LEMMA LayoutStep ==
  ASSUME IInv, ThisRelease, NEW p \in Procs, StepOf(p)
  PROVE  LayoutKnown'
<1>1. TypeOK /\ OthersStay(p) /\ Schema[p] = 5
  BY StepLocal DEF IInv, ThisRelease
<1>2. (index.version \in {4, 5} => index.fts) => (index'.version \in {4, 5} => index'.fts)
  <2>1. Stamp(p) => (index.version \in {4, 5} => index.fts)
    BY DEF IInv, LayoutKnown, Stamp, At, Inside, Working
  <2> QED
    BY <2>1, IndexStep DEF Restamped
<1> SUFFICES ASSUME NEW q \in Procs
             PROVE  /\ pc'[q] \in Inside /\ index'.version \in {4, 5} => index'.fts
                    /\ pc'[q] = "heal" =>
                         index'.version = job'[q].target /\ job'[q].target \in {4, 5} /\ ~index'.fts
  BY DEF LayoutKnown
<1>3. CASE q # p
  <2>1. pc'[q] = pc[q] /\ job'[q] = job[q]
    BY <1>1, <1>3 DEF OthersStay
  <2>2. pc[q] = "heal" => index' = index
    BY <1>3, HealAlone
  <2> QED
    BY <1>2, <2>1, <2>2 DEF IInv, LayoutKnown
<1>4. CASE q = p
  <2>1. ASSUME pc'[p] \in Inside, index'.version \in {4, 5} PROVE index'.fts
    <3>1. CASE pc[p] \in Inside
      BY <1>2, <2>1, <3>1 DEF IInv, LayoutKnown
    <3>2. CASE Opened(p)
      BY <1>1, <2>1, <3>2 DEF Opened, shared, Fts
    <3>3. CASE Install(p)
      BY <3>3 DEF Install
    <3>4. CASE SelfHealed(p)
      BY <1>1, <3>4 DEF SelfHealed, TypeOK, Indexes
    <3> QED
      BY <1>1, <2>1, <3>1, <3>2, <3>3, <3>4, Entering
  <2>2. ASSUME pc'[p] = "heal"
        PROVE  index'.version = job'[p].target /\ job'[p].target \in {4, 5} /\ ~index'.fts
    <3>1. CASE SelfHeal(p)
      <4>1. index' = index /\ job'[p] = [job[p] EXCEPT !.target = index.version]
        BY <1>1, <3>1 DEF SelfHeal, shared, TypeOK
      <4>2. job'[p].target = index.version
        BY <1>1, <4>1 DEF TypeOK, Jobs
      <4> QED
        BY <1>1, <3>1, <4>1, <4>2 DEF SelfHeal, Fts
    <3>2. CASE pc[p] = "heal" /\ job' = job /\ index' = index
      BY <3>2 DEF IInv, LayoutKnown
    <3> QED
      BY <1>1, <2>2, <3>1, <3>2, Healing
  <2> QED
    BY <1>4, <2>1, <2>2
<1> QED
  BY <1>3, <1>4

LEMMA NewerStep ==
  ASSUME IInv, ThisRelease, NEW p \in Procs, StepOf(p)
  PROVE  NewerUntouched'
<1>1. TypeOK /\ OthersStay(p) /\ Schema[p] = 5
  BY StepLocal DEF IInv, ThisRelease
<1> SUFFICES ASSUME NEW q \in Procs, index'.version > 5,
                    pc'[q] \notin {"idle", "open", "close", "closing"}
             PROVE  job'[q].command = "library" /\ ~job'[q].full
  BY DEF NewerUntouched
<1>2. index.version > 5
  BY IndexStep DEF Restamped
<1>3. CASE q # p
  BY <1>1, <1>2, <1>3 DEF OthersStay, IInv, NewerUntouched
<1>4. CASE q = p
  <2> USE DEF TypeOK, At
  <2>1. CASE \E command \in Commands[p] : Start(p, command)
    BY <1>1, <1>4, <2>1 DEF Start, Go, NoJob
  <2>2. CASE pc[p] \in {"idle", "open", "close", "closing"}
            /\ ~\E command \in Commands[p] : Start(p, command)
    <3>1. ASSUME OpenRefused(p) PROVE pc'[p] \in {"idle", "close"}
      BY <1>1, <3>1 DEF OpenRefused, Leave, Answers, End, Go
    <3>2. ~Inspect(p)
      <4>1. index.version \in Nat
        BY <1>1, ElectionAssumption DEF ElectionAssumption, Indexes, Generations
      <4> QED
        BY <1>1, <1>2, <4>1 DEF Inspect
    <3>3. ASSUME CheckReport(p) \/ Reported(p) \/ EndProbe(p) \/ Crash(p)
          PROVE  pc'[p] \in {"idle", "open", "close", "closing"}
      <4>1. CASE CheckReport(p)
        BY <1>1, <2>2, <4>1 DEF CheckReport, End, Go
      <4>2. CASE Reported(p)
        BY <1>1, <2>2, <4>2 DEF Reported, WriteReport, ReportUnread, ReportFails, End, Go
      <4>3. CASE EndProbe(p)
        BY <2>2, <4>3 DEF EndProbe
      <4>4. CASE Crash(p)
        BY <1>1, <4>4 DEF Crash, End, Go
      <4> QED
        BY <3>3, <4>1, <4>2, <4>3, <4>4
    <3>4. ~(RepairElected(p) \/ Repair(p) \/ Install(p) \/ SelfHeal(p) \/ SelfHealed(p)
            \/ Opened(p) \/ DecideBackfill(p) \/ DecideRefresh(p) \/ DecideUnreadable(p)
            \/ DecideExplicit(p) \/ DecideLibrary(p))
      BY <2>2
      DEF RepairElected, Repair, Install, SelfHeal, SelfHealed, Opened, DecideBackfill,
          DecideRefresh, DecideUnreadable, DecideExplicit, DecideLibrary
    <3>5. ~(Elect(p) \/ Busy(p) \/ Wait(p) \/ Recheck(p) \/ Refresh(p) \/ CutShort(p) \/ Cancel(p)
            \/ Stamp(p) \/ Promote(p) \/ PromoteBlocked(p) \/ PromoteFails(p) \/ Mark(p)
            \/ Schedule(p))
      BY <2>2
      DEF Elect, Busy, Wait, Recheck, Refresh, CutShort, Cancel, Stamp, Promote, PromoteBlocked,
          PromoteFails, Promoting, Mark, Schedule
    <3> QED
      BY <1>4, <2>2, <3>1, <3>2, <3>3, <3>4, <3>5 DEF StepOf, Continue, Reported, Open
  <2>3. CASE pc[p] \notin {"idle", "open", "close", "closing"}
    <3>1. job[p].command = "library" /\ ~job[p].full /\ job[p] \in Jobs
      BY <1>1, <1>2, <2>3 DEF IInv, NewerUntouched
    <3>2. ASSUME NEW outcome, Leave(p, outcome) PROVE pc'[p] = "idle"
      BY <1>1, <3>1, <3>2 DEF Leave, Background, Answers, End, Go
    <3>3. job'[p] = job[p] \/ pc'[p] \in {"idle", "open"} \/ SelfHeal(p) \/ Elect(p) \/ Recheck(p)
      <4>1. CASE Open(p)
        BY <3>2, <4>1
        DEF Open, OpenRefused, Inspect, RepairElected, Repair, Install, SelfHealed, Opened
      <4>2. ~(DecideBackfill(p) \/ DecideRefresh(p) \/ DecideUnreadable(p) \/ DecideExplicit(p))
        BY <3>1
        DEF DecideBackfill, DecideRefresh, DecideUnreadable, DecideExplicit, Explicit, Background
      <4>3. CASE DecideLibrary(p) \/ Busy(p) \/ Wait(p)
        BY <1>1, <3>2, <4>3 DEF DecideLibrary, Busy, Wait, End, Go
      <4>4. CASE Refresh(p) \/ CutShort(p) \/ Cancel(p) \/ Stamp(p)
        BY <3>2, <4>4 DEF Refresh, CutShort, Cancel, Stamp, Finish
      <4>5. CASE Promote(p) \/ PromoteBlocked(p) \/ PromoteFails(p) \/ Mark(p)
        BY <3>2, <4>5 DEF Promote, PromoteBlocked, PromoteFails, Unpromoted, Mark, Finish
      <4>6. CASE CheckReport(p) \/ Reported(p) \/ EndProbe(p) \/ Crash(p)
        BY <1>1, <4>6
        DEF CheckReport, Reported, WriteReport, ReportUnread, ReportFails, EndProbe, Crash, End, Go
      <4>7. CASE Schedule(p)
        BY <1>1, <4>7 DEF Schedule, End, Go
      <4>8. ~\E command \in Commands[p] : Start(p, command)
        BY <2>3 DEF Start
      <4> QED
        BY <4>1, <4>2, <4>3, <4>4, <4>5, <4>6, <4>7, <4>8 DEF StepOf, Continue, Reported
    <3>4. CASE SelfHeal(p) \/ Elect(p)
      BY <1>1, <1>4, <3>1, <3>4 DEF SelfHeal, Elect, Jobs
    <3>5. CASE Recheck(p)
      <4>1. ~Outdated(p)
        BY <1>1, <1>2 DEF Outdated, Indexes, Generations, ThisRelease
      <4> QED
        BY <1>1, <1>4, <3>1, <3>2, <3>5, <4>1 DEF Recheck, Finish, Jobs
    <3> QED
      BY <1>4, <3>1, <3>3, <3>4, <3>5
  <2> QED
    BY <2>1, <2>2, <2>3
<1> QED
  BY <1>3, <1>4

\* The stamp never falls.
LEMMA VersionStep ==
  ASSUME IInv, ThisRelease, NEW p \in Procs, StepOf(p)
  PROVE  index'.version >= index.version
<1>1. index.version \in Nat
  BY ElectionAssumption DEF ElectionAssumption, IInv, TypeOK, Indexes, Generations
<1> QED
  BY <1>1, IndexStep DEF Restamped

\* After the refresh, up to its stamps.
Finishing == {"stamp", "promote", "promotelast", "mark"}

\* What a step does that gets there or stays there.
FinishingStep(p) ==
  \/ Refresh(p) /\ pc'[p] = IF job[p].full THEN "stamp" ELSE "mark"
  \/ Stamp(p) /\ pc'[p] = IF ~Explicit(p) /\ Stamped(p) < Schema[p] THEN "promote" ELSE "mark"
  \/ Promote(p) /\ pc[p] = "promote" /\ pc'[p] = "mark" /\ index' = Promoted(p)
  \/ Mark(p) /\ Explicit(p) /\ job[p].full /\ pc'[p] = "promotelast" /\ index' = index
  \/ pc[p] \in Finishing /\ pc'[p] = pc[p] /\ index' = index /\ automatic' = automatic

LEMMA FinishingProperties ==
  ASSUME TypeOK, NEW p \in Procs, StepOf(p), pc'[p] \in Finishing
  PROVE  FinishingStep(p) /\ job'[p] = job[p]
<1> USE DEF TypeOK, At, Finishing
<1>1. ASSUME NEW outcome PROVE ~Leave(p, outcome)
  BY DEF Leave, End, Go
<1>2. ~Open(p)
  BY <1>1
  DEF Open, OpenRefused, Inspect, RepairElected, Repair, Install, SelfHeal, SelfHealed, Opened, Go
<1>3. ~(DecideBackfill(p) \/ DecideRefresh(p) \/ DecideUnreadable(p) \/ DecideExplicit(p)
        \/ DecideLibrary(p))
  BY <1>1
  DEF DecideBackfill, DecideRefresh, DecideUnreadable, DecideExplicit, DecideLibrary, End, Go
<1>4. ~(Elect(p) \/ Busy(p) \/ Wait(p) \/ Recheck(p))
  BY <1>1 DEF Elect, Busy, Wait, Recheck, Finish, Go
<1>5. ~(CutShort(p) \/ Cancel(p) \/ PromoteBlocked(p) \/ PromoteFails(p))
  BY <1>1 DEF CutShort, Cancel, PromoteBlocked, PromoteFails, Unpromoted, Finish
<1>6. ~(CheckReport(p) \/ Reported(p) \/ Schedule(p) \/ Crash(p)
        \/ \E command \in Commands[p] : Start(p, command))
  BY DEF CheckReport, Reported, WriteReport, ReportUnread, ReportFails, Schedule, Crash, Start, End,
         Go
<1>7. CASE Refresh(p)
  BY <1>7 DEF Refresh, Go, FinishingStep
<1>8. CASE Stamp(p)
  BY <1>8 DEF Stamp, Go, FinishingStep
<1>9. CASE Promote(p)
  BY <1>1, <1>9 DEF Promote, Finish, Go, FinishingStep
<1>10. CASE Mark(p)
  BY <1>1, <1>10 DEF Mark, Finish, Go, FinishingStep
<1>11. CASE EndProbe(p)
  BY <1>11 DEF EndProbe, shared, FinishingStep
<1> QED
  BY <1>2, <1>3, <1>4, <1>5, <1>6, <1>7, <1>8, <1>9, <1>10, <1>11 DEF StepOf, Continue, Reported

LEMMA ProvenanceStep ==
  ASSUME IInv, ThisRelease, NEW p \in Procs, StepOf(p)
  PROVE  Provenance'
<1>1. TypeOK /\ OthersStay(p) /\ Schema[p] = 5
  BY StepLocal DEF IInv, ThisRelease
<1>2. index.parsed \in Nat /\ index'.parsed \in {index.parsed, 5}
  BY <1>1, IndexStep, ElectionAssumption DEF ElectionAssumption, TypeOK, Indexes, Generations
<1>3. Stamp(p) \/ Promote(p) => job[p].full /\ index.parsed >= 5
  BY DEF Stamp, Promote, At, IInv, Provenance
<1>4. index'.version \in {4, 5} => index'.parsed >= index'.version
  <2>1. CASE index'.version = index.version
    BY <1>2, <2>1 DEF IInv, Provenance
  <2>2. CASE Install(p)
    BY <1>1, <2>2 DEF Install
  <2>3. CASE Stamp(p) \/ Promote(p)
    BY <1>2, <1>3, <2>3, IndexStep DEF Restamped
  <2> QED
    BY <2>1, <2>2, <2>3, IndexStep DEF Restamped
<1>5. ASSUME NEW q \in Procs
      PROVE  /\ pc'[q] \in {"stamp", "promote", "promotelast"} => job'[q].full
             /\ pc'[q] \in Finishing /\ job'[q].full => index'.parsed >= 5
  <2>1. CASE q # p
    <3>1. pc'[q] = pc[q] /\ job'[q] = job[q]
      BY <1>1, <2>1 DEF OthersStay
    <3> QED
      BY <1>2, <3>1 DEF IInv, Provenance, Finishing
  <2>2. CASE q = p /\ pc'[p] \in Finishing
    <3>1. FinishingStep(p) /\ job'[p] = job[p]
      BY <1>1, <2>2, FinishingProperties
    <3>2. CASE Refresh(p)
      <4>1. pc'[p] = IF job[p].full THEN "stamp" ELSE "mark"
        BY <1>1, <3>2 DEF TypeOK, Refresh, Go
      <4> QED
        BY <1>1, <2>2, <3>1, <3>2, <4>1, RewriteProperties
    <3>3. CASE pc[p] \in Finishing /\ (pc[p] = "mark" => pc'[p] = "mark" \/ job[p].full)
      BY <1>2, <2>2, <3>1, <3>3 DEF IInv, Provenance, Finishing
    <3>4. CASE ~Refresh(p)
      BY <3>1, <3>3, <3>4 DEF FinishingStep, Stamp, Promote, Mark, At, Finishing
    <3> QED
      BY <3>2, <3>4
  <2> QED
    BY <2>1, <2>2 DEF Finishing
<1> QED
  BY <1>4, <1>5 DEF Provenance, Finishing

LEMMA OnceStep ==
  ASSUME IInv, ThisRelease, NEW p \in Procs, StepOf(p)
  PROVE  OnceDone'
<1>1. TypeOK /\ OthersStay(p) /\ Schema[p] = 5
  BY StepLocal DEF IInv, ThisRelease
<1>2. index.version \in Nat /\ automatic \in 0..2
  BY <1>1, ElectionAssumption DEF ElectionAssumption, TypeOK, Indexes, Generations
<1>3. ~Mark(p) => marker' = marker /\ automatic' = automatic
  BY DEF StepOf, Continue, Start, Open, OpenRefused, Inspect, RepairElected, Repair, Install,
         SelfHeal, SelfHealed, Opened, DecideBackfill, DecideRefresh, DecideUnreadable,
         DecideExplicit, DecideLibrary, Elect, Busy, Wait, Recheck, Refresh, CutShort, Cancel,
         Stamp, Promote, PromoteBlocked, PromoteFails, Unpromoted, CheckReport, Reported,
         WriteReport, ReportUnread, ReportFails,
         EndProbe, Schedule, Crash, shared
<1>4. index.version >= 5 => index'.version >= 5
  BY <1>2, VersionStep, IndexStep DEF Restamped
<1>5. automatic' > 0 => marker' = 5 /\ index'.version >= 5 /\ automatic' < 2
  <2>1. CASE Mark(p)
    <3>1. marker' = 5 /\ index' = index /\ At(p, "mark")
      BY <1>1, <2>1 DEF Mark
    <3>2. CASE Explicit(p)
      BY <1>2, <2>1, <3>1, <3>2 DEF Mark, IInv, OnceDone
    <3>3. CASE ~Explicit(p)
      <4>1. automatic = 0 /\ index.version >= 5
        BY <3>1, <3>3 DEF At, IInv, OnceDone
      <4> QED
        BY <2>1, <3>1, <3>3, <4>1 DEF Mark
    <3> QED
      BY <3>2, <3>3
  <2>2. CASE ~Mark(p)
    BY <1>3, <1>4, <2>2 DEF IInv, OnceDone
  <2> QED
    BY <2>1, <2>2
<1> DEFINE Once(q) ==
             ~Explicit(q) =>
               /\ pc[q] \in {"refresh", "stamp", "promote", "mark"} => automatic = 0
               /\ pc[q] = "refresh" /\ ~job[q].full => index.version >= 5
               /\ pc[q] = "promote" => index.version # 4
               /\ pc[q] = "mark" => index.version >= 5
<1>6. \A q \in Procs : Once(q)
  BY DEF IInv, OnceDone
<1>7. ASSUME NEW q \in Procs PROVE Once(q)'
  <2>1. CASE q # p
    <3>1. pc'[q] = pc[q] /\ job'[q] = job[q]
      BY <1>1, <2>1 DEF OthersStay
    <3>2. pc[q] \in Holding => ~Mark(p)
      BY <2>1 DEF IInv, LockHeld, Holding, Mark, At
    <3>3. index.version # 4 => index'.version # 4
      BY IndexStep DEF Restamped
    <3>4. Explicit(q)' <=> Explicit(q)
      BY <3>1 DEF Explicit
    <3>5. pc[q] \in Holding => automatic' = automatic
      BY <1>3, <3>2
    <3>6. Once(q)
      BY <1>6
    <3> QED
      BY <1>4, <3>1, <3>3, <3>4, <3>5, <3>6 DEF Holding
  <2>2. CASE q = p /\ pc'[p] = "refresh"
    <3>1. ASSUME Recheck(p), ~Explicit(p)' PROVE Once(p)'
      <4>1. StillDue(p) /\ index' = index /\ automatic' = automatic
        BY <1>1, <2>2, <3>1 DEF Recheck, Finish, Leave, End, Go, TypeOK, shared
      <4> DEFINE full == job[p].full \/ job[p].command = "full" \/ Outdated(p)
      <4>2. /\ job'[p] = [job[p] EXCEPT !.full = full]
            /\ full \in BOOLEAN /\ (Outdated(p) => full)
        BY <1>1, <3>1, <4>1 DEF Recheck, TypeOK, Jobs
      <4> HIDE DEF full
      <4>3. job'[p].command = job[p].command /\ (~job'[p].full => ~Outdated(p))
        BY <1>1, <4>2 DEF TypeOK, Jobs
      <4>4. automatic = 0
        BY <1>1, <1>2, <3>1, <4>1, <4>3
        DEF StillDue, Due, Outdated, Stale, Explicit, IInv, OnceDone
      <4> QED
        BY <1>1, <1>2, <2>2, <4>1, <4>3, <4>4 DEF Outdated
    <3>2. CASE EndProbe(p)
      BY <1>6, <3>2 DEF EndProbe, shared, Explicit
    <3>3. Recheck(p) \/ EndProbe(p)
      <4>1. ASSUME NEW outcome PROVE ~Leave(p, outcome)
        BY <1>1, <2>2 DEF Leave, End, Go, TypeOK
      <4>2. ~Open(p)
        BY <1>1, <2>2, <4>1
        DEF TypeOK, Open, OpenRefused, Inspect, RepairElected, Repair, Install, SelfHeal,
            SelfHealed, Opened, Go
      <4>3. ~(DecideBackfill(p) \/ DecideRefresh(p) \/ DecideUnreadable(p) \/ DecideExplicit(p)
              \/ DecideLibrary(p) \/ Elect(p) \/ Busy(p) \/ Wait(p))
        BY <1>1, <2>2, <4>1
        DEF TypeOK, DecideBackfill, DecideRefresh, DecideUnreadable, DecideExplicit,
            DecideLibrary, Elect, Busy, Wait, End, Go
      <4>4. ~(Refresh(p) \/ CutShort(p) \/ Cancel(p) \/ Stamp(p) \/ Promote(p)
              \/ PromoteBlocked(p) \/ PromoteFails(p) \/ Mark(p))
        BY <1>1, <2>2, <4>1
        DEF TypeOK, Refresh, CutShort, Cancel, Stamp, Promote, PromoteBlocked, PromoteFails,
            Unpromoted, Mark, Finish, Go
      <4>5. ~(CheckReport(p) \/ Reported(p) \/ Schedule(p) \/ Crash(p)
              \/ \E command \in Commands[p] : Start(p, command))
        BY <1>1, <2>2
        DEF TypeOK, CheckReport, Reported, WriteReport, ReportUnread, ReportFails, Schedule, Crash,
            Start, End, Go
      <4> QED
        BY <4>2, <4>3, <4>4, <4>5 DEF StepOf, Continue, Reported
    <3> QED
      BY <2>2, <3>1, <3>2, <3>3
  <2>3. CASE q = p /\ pc'[p] \in {"stamp", "promote", "mark"} /\ ~Explicit(p)'
    <3>1. FinishingStep(p) /\ job'[p] = job[p] /\ ~Explicit(p)
      BY <1>1, <2>3, FinishingProperties DEF Finishing, Explicit
    <3>2. CASE Refresh(p)
      <4>1. pc[p] = "refresh" /\ automatic' = automatic /\ index'.version = index.version
            /\ (pc'[p] = "mark" => ~job[p].full) /\ pc'[p] \in {"stamp", "mark"}
        BY <1>1, <3>2, RewriteProperties DEF TypeOK, Refresh, Go, At, Rewritten
      <4> QED
        BY <1>6, <2>3, <3>1, <4>1
    <3>3. CASE Stamp(p)
      <4>1. pc[p] = "stamp" /\ automatic' = automatic /\ index'.version = Stamped(p)
        BY <1>1, <3>3 DEF TypeOK, Indexes, Stamp, At
      <4>2. pc'[p] = IF Stamped(p) < 5 THEN "promote" ELSE "mark"
        BY <1>1, <3>1, <3>3 DEF TypeOK, Stamp, Go
      <4>3. Stamped(p) \in {3, 5}
        BY <1>1 DEF Stamped, PreFts
      <4> QED
        BY <1>6, <2>3, <3>1, <4>1, <4>2, <4>3
    <3>4. CASE Promote(p) /\ pc[p] = "promote" /\ pc'[p] = "mark" /\ index' = Promoted(p)
      <4>1. index.version # 4 /\ automatic = 0 /\ automatic' = automatic
        BY <1>3, <1>6, <3>1, <3>4 DEF Promote, Mark, At
      <4>2. index'.version = 5
        BY <1>1, <3>4, <4>1 DEF TypeOK, Indexes, Promoted, Fts
      <4> QED
        BY <3>4, <4>1, <4>2
    <3>5. CASE pc'[p] = pc[p] /\ index' = index /\ automatic' = automatic
      BY <1>6, <2>3, <3>1, <3>5
    <3> QED
      BY <2>3, <3>1, <3>2, <3>3, <3>4, <3>5 DEF FinishingStep
  <2> QED
    BY <2>1, <2>2, <2>3
<1> QED
  BY <1>5, <1>7 DEF OnceDone, Explicit

LEMMA InvariantInit == Init => IInv
<1> SUFFICES ASSUME Init PROVE IInv
  OBVIOUS
<1>1. TypeOK
  BY InitType
<1>2. index.version \in {4, 5} => index.parsed >= index.version
  BY ElectionAssumption DEF ElectionAssumption, Init, Fts
<1> QED
  BY <1>1, <1>2
  DEF Init, IInv, LockHeld, LayoutKnown, NewerUntouched, Provenance, OnceDone, Holding, Inside,
      Working

LEMMA InvariantStep == IInv /\ ThisRelease /\ [Next]_vars => IInv'
<1> SUFFICES ASSUME IInv, ThisRelease, [Next]_vars PROVE IInv'
  OBVIOUS
<1>1. TypeOK' /\ LockHeld'
  BY TypeStep, LockStep DEF IInv
<1>2. ASSUME NEW p \in Procs, StepOf(p) PROVE IInv'
  BY <1>1, <1>2, LayoutStep, NewerStep, ProvenanceStep, OnceStep DEF IInv
<1>3. CASE AskStatus \/ EndProbe(Reader) \/ UNCHANGED vars
  <2>1. UNCHANGED <<index, marker, automatic, pc, job>>
    BY <1>3 DEF AskStatus, EndProbe, vars, shared
  <2> QED
    BY <1>1, <2>1 DEF IInv, LayoutKnown, NewerUntouched, Provenance, OnceDone, Explicit
<1>4. CASE Expire
  <2>1. UNCHANGED <<index, pc, job>> /\ automatic' = 0
    BY <1>4 DEF Expire
  <2> QED
    BY <1>1, <2>1 DEF IInv, LayoutKnown, NewerUntouched, Provenance, OnceDone, Explicit
<1> QED
  BY <1>2, <1>3, <1>4 DEF Next, StepOf

LEMMA Invariant == ASSUME ThisRelease PROVE Spec => []IInv
<1>1. Init => IInv
  BY InvariantInit
<1>2. IInv /\ [Next]_vars => IInv'
  BY InvariantStep
<1> QED
  BY <1>1, <1>2, PTL DEF Spec

\* StampHonest for all processes of one release: a stamp of a search generation stands for a
\* complete layout and for rows of that generation's parser (Db::init, mark_schema_current,
\* migrate_message_search_schema_exclusive).
THEOREM StampsTrue == ASSUME ThisRelease PROVE Spec => []StampHonest
<1>1. IInv => StampHonest
  <2> SUFFICES ASSUME IInv, NEW p \in Connected, pc[p] # "heal", index.version \in Fts..Schema[p]
               PROVE  index.fts /\ index.parsed >= index.version
    BY DEF StampHonest
  <2>1. p \in Procs /\ pc[p] \in Inside
    BY DEF Connected, Inside
  <2>2. index.version \in {4, 5}
    BY <2>1 DEF ThisRelease, Fts
  <2> QED
    BY <2>1, <2>2 DEF IInv, LayoutKnown, Provenance
<1> QED
  BY <1>1, Invariant, PTL

\* VersionNeverFalls for all processes of one release: no migration, self-repair or stamp lowers
\* the stamp, whoever else has changed it between the decision and the write.
THEOREM StampNeverFalls == ASSUME ThisRelease PROVE Spec => VersionNeverFalls
<1>1. IInv /\ [Next]_vars => [index'.version >= index.version]_vars
  <2> SUFFICES ASSUME IInv, Next PROVE index'.version >= index.version
    OBVIOUS
  <2>1. index.version \in Nat
    BY ElectionAssumption DEF ElectionAssumption, IInv, TypeOK, Indexes, Generations
  <2>2. ASSUME NEW p \in Procs, StepOf(p) PROVE index'.version >= index.version
    BY <2>2, VersionStep
  <2>3. CASE AskStatus \/ EndProbe(Reader) \/ Expire
    BY <2>1, <2>3 DEF AskStatus, EndProbe, Expire, shared
  <2> QED
    BY <2>2, <2>3 DEF Next, StepOf
<1> QED
  BY <1>1, Invariant, PTL DEF Spec, VersionNeverFalls

\* OneRefreshPerInterval for all processes of one release: what was due before the election is
\* looked at again under the lock (auto_reindex_after_election and its siblings).
THEOREM OneRefresh == ASSUME ThisRelease PROVE Spec => []OneRefreshPerInterval
<1>1. IInv => OneRefreshPerInterval
  BY DEF IInv, TypeOK, OnceDone, OneRefreshPerInterval
<1> QED
  BY <1>1, Invariant, PTL
=============================================================================
