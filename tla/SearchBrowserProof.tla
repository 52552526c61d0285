-------------------------- MODULE SearchBrowserProof --------------------------
(***************************************************************************)
(* For all queries, filters, sessions and results, and any number of keys  *)
(* and errors: the types of the browser; that only the answer to what is   *)
(* on screen replaces the list; that a preview shown without a wait or an  *)
(* error is the selected row's; and, where previews do not fail, that such *)
(* a list is the wanted one.                                               *)
(***************************************************************************)
EXTENDS SearchBrowser, TLAPS, SequenceTheorems

Ids == Sessions \cup {None}
Outcome == [kind : Kinds, gen : Nat, ok : BOOLEAN, query : Queries, filter : Filters, id : Ids]

Types ==
  /\ TypeOK
  /\ outcomes \in Seq(Outcome)
  /\ worker \in {"running", "finishing"} => work # None

\* What a request and its answer have in common.
Same(o) == [kind |-> o.kind, gen |-> o.gen, query |-> o.query, filter |-> o.filter, id |-> o.id]

\* Every request that is pending or run, and every answer that is under way.
Boxed == {Same(slot[kind]) : kind \in {k \in Kinds : slot[k] # None}}
Running == IF work = None THEN {} ELSE {Same(work)}
Answered == {Same(outcomes[i]) : i \in DOMAIN outcomes}
UnderWay == Boxed \cup Running \cup Answered

\* A generation stands for what was on screen when it was drawn.
Matching(o) ==
  /\ o.kind = "search" =>
       o.gen <= searchGen /\ (o.gen = searchGen => o.query = query /\ o.filter = filter)
  /\ o.kind = "preview" =>
       o.gen <= previewGen /\ (o.gen = previewGen => o.id = Selected)

GenerationsMatch == \A o \in UnderWay : Matching(o)

IInv == Types /\ GenerationsMatch

-----------------------------------------------------------------------------
(* Types *)

LEMMA SelectedType == ASSUME TypeOK PROVE Selected \in Ids
  BY DEF TypeOK, Selected, Ids

\* What TypeOK says of the mailbox.
SlotsTyped ==
  /\ slot \in [Kinds -> Request \cup {None}]
  /\ \A kind \in Kinds : slot[kind] # None => slot[kind].kind = kind

BoxTyped ==
  SlotsTyped /\ inFlight \in Kinds \cup {None} /\ closed \in BOOLEAN /\ cancelled \in BOOLEAN

LEMMA InitTypes == Init => Types
<1> SUFFICES ASSUME Init PROVE Types
  OBVIOUS
<1> USE BrowserAssumption DEF BrowserAssumption, Init, Kinds
<1>1. slot["search"] \in Request /\ slot["search"].kind = "search" /\ slot["preview"] = None
  BY DEF Request
<1>2. SlotsTyped
  BY <1>1 DEF SlotsTyped
<1>3. rows \in Seq(Sessions) /\ outcomes \in Seq(Outcome)
  OBVIOUS
<1> QED
  BY <1>2, <1>3 DEF Types, TypeOK, SlotsTyped

LEMMA CancelTypes ==
  ASSUME Types, NEW kinds, Cancel(kinds)
  PROVE  inFlight' \in Kinds \cup {None} /\ cancelled' \in BOOLEAN
  BY DEF Types, TypeOK, Cancel

LEMMA PutTypes ==
  ASSUME Types, NEW r \in Request, r.kind \in Kinds, slot' = [slot EXCEPT ![r.kind] = r]
  PROVE  SlotsTyped'
  BY DEF Types, TypeOK, SlotsTyped, Kinds

LEMMA SendTypes ==
  ASSUME Types, NEW r \in Request, r.kind \in Kinds, Send(r)
  PROVE  BoxTyped'
<1>1. SlotsTyped'
  BY PutTypes DEF Send
<1>2. inFlight' \in Kinds \cup {None} /\ cancelled' \in BOOLEAN
  BY CancelTypes DEF Send
<1>3. closed' \in BOOLEAN
  BY DEF Types, TypeOK, Send
<1> QED BY <1>1, <1>2, <1>3 DEF BoxTyped

LEMMA CancelKindTypes ==
  ASSUME Types, NEW kind \in Kinds, CancelKind(kind)
  PROVE  BoxTyped'
<1>1. SlotsTyped'
  BY DEF Types, TypeOK, SlotsTyped, CancelKind
<1>2. inFlight' \in Kinds \cup {None} /\ cancelled' \in BOOLEAN
  BY CancelTypes DEF CancelKind
<1>3. closed' \in BOOLEAN
  BY DEF Types, TypeOK, CancelKind
<1> QED BY <1>1, <1>2, <1>3 DEF BoxTyped

LEMMA CloseTypes == ASSUME Types, Close PROVE BoxTyped'
<1>1. SlotsTyped'
  BY DEF SlotsTyped, Close
<1>2. inFlight' \in Kinds \cup {None} /\ cancelled' \in BOOLEAN
  BY CancelTypes DEF Close
<1> QED BY <1>1, <1>2 DEF BoxTyped, Close

LEMMA KeptTypes == ASSUME Types, UNCHANGED <<mailbox, cancelled>> PROVE BoxTyped'
<1>1. slot' = slot /\ inFlight' = inFlight /\ closed' = closed /\ cancelled' = cancelled
  BY DEF mailbox
<1> QED BY <1>1 DEF Types, TypeOK, BoxTyped, SlotsTyped

LEMMA SearchTypes ==
  ASSUME Types, RequestSearch, query' \in Queries, filter' \in Filters
  PROVE  /\ BoxTyped' /\ searchGen' \in Nat /\ loading' = FALSE /\ searching' \in BOOLEAN
         /\ errOwner' \in Kinds \cup {None}
<1>1. searchGen' \in Nat /\ loading' = FALSE /\ searching' \in BOOLEAN
  BY DEF Types, TypeOK, RequestSearch
<1>2. errOwner' \in Kinds \cup {None}
  BY DEF Types, TypeOK, RequestSearch, Kinds
<1>3. CASE closed
  BY <1>1, <1>2, <1>3, KeptTypes DEF RequestSearch
<1>4. CASE ~closed
  <2> DEFINE r == [kind |-> "search", gen |-> searchGen + 1, query |-> query',
                   filter |-> filter', id |-> None]
  <2>1. r \in Request /\ r.kind \in Kinds
    BY DEF Types, TypeOK, Request, Kinds
  <2>2. Send(r)
    BY <1>4 DEF RequestSearch
  <2> QED BY <1>1, <1>2, <2>1, <2>2, SendTypes
<1> QED BY <1>3, <1>4

LEMMA PreviewTypes ==
  ASSUME Types, NEW id \in Ids, NEW owner \in Kinds \cup {None}, RequestPreview(id, owner)
  PROVE  /\ BoxTyped' /\ previewGen' \in Nat /\ loading' \in BOOLEAN
         /\ errOwner' \in Kinds \cup {None}
<1>1. previewGen' \in Nat
  BY DEF Types, TypeOK, RequestPreview
<1>0. loading' \in BOOLEAN
  BY DEF RequestPreview
<1>2. errOwner' \in Kinds \cup {None}
  BY DEF RequestPreview, Kinds
<1>3. CASE id = previewed /\ owner # "preview"
  BY <1>0, <1>1, <1>2, <1>3, CancelKindTypes DEF RequestPreview, Kinds
<1>4. CASE ~(id = previewed /\ owner # "preview") /\ closed
  <2>1. UNCHANGED <<mailbox, cancelled>>
    BY <1>4 DEF RequestPreview
  <2> QED BY <1>0, <1>1, <1>2, <2>1, KeptTypes
<1>5. CASE ~(id = previewed /\ owner # "preview") /\ ~closed
  <2> DEFINE r == [kind |-> "preview", gen |-> previewGen + 1, query |-> query,
                   filter |-> filter, id |-> id]
  <2>1. r \in Request /\ r.kind \in Kinds
    BY DEF Types, TypeOK, Request, Kinds, Ids
  <2>2. Send(r)
    BY <1>5 DEF RequestPreview
  <2> QED BY <1>0, <1>1, <1>2, <2>1, <2>2, SendTypes
<1> QED BY <1>3, <1>4, <1>5

LEMMA AnswerType ==
  ASSUME Types, Drain
  PROVE  /\ Answer \in Outcome /\ outcomes' \in Seq(Outcome)
         /\ \A i \in DOMAIN outcomes' : \E j \in DOMAIN outcomes : outcomes'[i] = outcomes[j]
         /\ \E j \in DOMAIN outcomes : Answer = outcomes[j]
<1>1. outcomes \in Seq(Outcome) /\ outcomes # <<>> /\ outcomes' = Tail(outcomes)
  BY DEF Types, Drain
<1>2. 1 \in DOMAIN outcomes /\ Answer = outcomes[1]
  BY <1>1 DEF Answer
<1>3. \A i \in DOMAIN outcomes' : i + 1 \in DOMAIN outcomes /\ outcomes'[i] = outcomes[i + 1]
  BY <1>1
<1>4. Answer \in Outcome /\ outcomes' \in Seq(Outcome)
  BY <1>1, <1>2
<1> QED BY <1>2, <1>3, <1>4

\* The types, but for what is of the mailbox.
RestTyped ==
  /\ query \in Queries /\ filter \in Filters
  /\ edited \in BOOLEAN /\ searching \in BOOLEAN /\ loading \in BOOLEAN /\ reported \in BOOLEAN
  /\ searchGen \in Nat /\ previewGen \in Nat
  /\ rows \in Seq(Sessions) /\ selected \in Nat /\ (rows # <<>> => selected \in DOMAIN rows)
  /\ previewed \in Ids /\ errOwner \in Kinds \cup {None}
  /\ ui \in {"open", "closing", "closed"}
  /\ work \in Request \cup {None}
  /\ worker \in {"waiting", "running", "finishing", "ended"}
  /\ worker \in {"running", "finishing"} => work # None
  /\ outcomes \in Seq(Outcome)

LEMMA TypesParts == Types <=> BoxTyped /\ RestTyped
  BY DEF Types, TypeOK, BoxTyped, SlotsTyped, RestTyped, Ids

LEMMA TypesThen == BoxTyped' /\ RestTyped' => Types'
  BY DEF Types, TypeOK, BoxTyped, SlotsTyped, RestTyped, Ids

LEMMA EditTypes == ASSUME Types, NEW q \in Queries, EditQuery(q) PROVE Types'
<1>1. BoxTyped'
  BY CancelKindTypes DEF EditQuery, Kinds
<1>2. RestTyped'
  BY TypesParts DEF RestTyped, EditQuery, Press, thread
<1> QED BY <1>1, <1>2, TypesThen

LEMMA FlushTypes == ASSUME Types, FlushQuery PROVE Types'
<1>1. /\ BoxTyped' /\ searchGen' \in Nat /\ loading' = FALSE /\ searching' \in BOOLEAN
      /\ errOwner' \in Kinds \cup {None}
  BY SearchTypes, TypesParts DEF FlushQuery, RestTyped
<1>2. RestTyped'
  BY <1>1, TypesParts DEF RestTyped, FlushQuery, thread
<1> QED BY <1>1, <1>2, TypesThen

LEMMA FilterTypes == ASSUME Types, NEW f \in Filters, ChangeFilter(f) PROVE Types'
<1>1. /\ BoxTyped' /\ searchGen' \in Nat /\ loading' = FALSE /\ searching' \in BOOLEAN
      /\ errOwner' \in Kinds \cup {None}
  BY SearchTypes, TypesParts DEF ChangeFilter, RestTyped
<1>2. RestTyped'
  BY <1>1, TypesParts DEF RestTyped, ChangeFilter, thread
<1> QED BY <1>1, <1>2, TypesThen

LEMMA MoveTypes == ASSUME Types, NEW i \in DOMAIN rows, MoveSelection(i) PROVE Types'
<1>1. rows[i] \in Ids /\ i \in Nat /\ errOwner \in Kinds \cup {None}
  BY TypesParts DEF RestTyped, Ids
<1>2. /\ BoxTyped' /\ previewGen' \in Nat /\ loading' \in BOOLEAN
      /\ errOwner' \in Kinds \cup {None}
  BY <1>1, PreviewTypes DEF MoveSelection
<1>3. RestTyped'
  BY <1>1, <1>2, TypesParts DEF RestTyped, MoveSelection, thread
<1> QED BY <1>2, <1>3, TypesThen

LEMMA QuitTypes == ASSUME Types, Quit PROVE Types'
<1>1. BoxTyped'
  BY CloseTypes DEF Quit
<1>2. RestTyped'
  BY TypesParts DEF RestTyped, Quit, thread
<1> QED BY <1>1, <1>2, TypesThen

LEMMA SameBox ==
  ASSUME Types, UNCHANGED <<mailbox, cancelled>>, RestTyped' PROVE Types'
  BY KeptTypes, TypesThen

LEMMA JoinTypes == ASSUME Types, Join PROVE Types'
  BY SameBox, TypesParts DEF RestTyped, Join, thread, mailbox

LEMMA DropTypes == ASSUME Types, DropSuperseded PROVE Types'
<1>1. RestTyped'
  BY TypesParts, AnswerType DEF RestTyped, DropSuperseded, thread, screen
<1> QED BY <1>1, SameBox DEF DropSuperseded

LEMMA ResultsTypes == ASSUME Types, ApplyResults PROVE Types'
<1> DEFINE id == IF rows' = <<>> THEN None ELSE rows'[selected']
           owner == IF errOwner = "search" THEN None ELSE errOwner
<1>1. Answer \in Outcome /\ outcomes' \in Seq(Outcome)
  BY AnswerType DEF ApplyResults
<1>2. rows' \in Seq(Sessions)
  BY <1>1, BrowserAssumption DEF BrowserAssumption, ApplyResults, Outcome
<1>3. selected' \in Nat /\ (rows' # <<>> => selected' \in DOMAIN rows')
  <2> DEFINE kept == {i \in DOMAIN rows' : rows'[i] = Selected}
  <2>1. selected' = IF kept = {} THEN 1 ELSE CHOOSE i \in kept : TRUE
    BY DEF ApplyResults
  <2>2. CASE kept = {}
    BY <1>2, <2>1, <2>2
  <2>3. CASE kept # {}
    <3>1. selected' \in kept
      BY <2>1, <2>3
    <3> QED BY <1>2, <3>1
  <2> QED BY <2>2, <2>3
<1>4. id \in Ids /\ owner \in Kinds \cup {None}
  BY <1>2, <1>3, TypesParts DEF Ids, RestTyped
<1>5. /\ BoxTyped' /\ previewGen' \in Nat /\ loading' \in BOOLEAN
      /\ errOwner' \in Kinds \cup {None}
  <2>1. RequestPreview(IF rows' = <<>> THEN None ELSE rows'[selected'], owner)
    BY DEF ApplyResults
  <2> QED BY <1>4, <2>1, PreviewTypes
<1>6. RestTyped'
  BY <1>1, <1>2, <1>3, <1>5, TypesParts DEF RestTyped, ApplyResults, thread
<1> QED BY <1>5, <1>6, TypesThen

LEMMA PreviewedTypes == ASSUME Types, ApplyPreview PROVE Types'
<1>1. Answer \in Outcome /\ outcomes' \in Seq(Outcome)
  BY AnswerType DEF ApplyPreview
<1>2. previewed' \in Ids /\ errOwner' \in Kinds \cup {None}
  BY <1>1, TypesParts DEF RestTyped, ApplyPreview, Outcome
<1>3. RestTyped'
  BY <1>1, <1>2, TypesParts DEF RestTyped, ApplyPreview, thread
<1> QED BY <1>3, SameBox DEF ApplyPreview

LEMMA ErrorTypes == ASSUME Types, ApplyError PROVE Types'
<1>1. Answer \in Outcome /\ outcomes' \in Seq(Outcome) /\ Selected \in Ids
  BY AnswerType, SelectedType DEF ApplyError, Types
<1>2. errOwner' \in Kinds /\ previewed' \in Ids /\ searching' \in BOOLEAN /\ loading' \in BOOLEAN
  BY <1>1, TypesParts DEF RestTyped, ApplyError, Outcome
<1>3. RestTyped'
  BY <1>1, <1>2, TypesParts DEF RestTyped, ApplyError, thread
<1> QED BY <1>3, SameBox DEF ApplyError

LEMMA DisconnectTypes == ASSUME Types, ReportDisconnect PROVE Types'
<1>1. RestTyped'
  BY TypesParts DEF RestTyped, ReportDisconnect, thread
<1> QED BY <1>1, SameBox DEF ReportDisconnect

LEMMA WorkTypes == ASSUME Types, Work PROVE Types'
<1>1. CASE Take
  <2>1. PICK kind \in Kinds :
          slot[kind] # None /\ work' = slot[kind] /\ slot' = [slot EXCEPT ![kind] = None]
          /\ inFlight' = kind
    BY <1>1 DEF Take
  <2>2. SlotsTyped'
    BY <2>1 DEF Types, TypeOK, SlotsTyped
  <2>3. BoxTyped'
    BY <1>1, <2>1, <2>2 DEF Types, TypeOK, BoxTyped, Take
  <2>4. work' \in Request /\ work' # None
    BY <2>1 DEF Types, TypeOK
  <2>5. RestTyped'
    BY <1>1, <2>4, TypesParts DEF RestTyped, Take, screen
  <2> QED BY <2>3, <2>5, TypesThen
<1>2. CASE Execute
  <2>1. RestTyped'
    BY <1>2, TypesParts DEF RestTyped, Execute, screen
  <2> QED BY <1>2, <2>1, SameBox DEF Execute
<1>3. CASE FinishWork
  <2> DEFINE o == [kind |-> work.kind, gen |-> work.gen, ok |-> result = "ok",
                   query |-> work.query, filter |-> work.filter, id |-> work.id]
  <2>1. work \in Request
    BY <1>3, TypesParts DEF RestTyped, FinishWork
  <2>2. o \in Outcome
    BY <2>1 DEF Request, Outcome, Ids
  <2>3. outcomes' \in Seq(Outcome)
    <3> HIDE DEF o
    <3>1. outcomes' = outcomes \/ outcomes' = Append(outcomes, o)
      BY <1>3 DEF FinishWork, o
    <3> QED BY <2>2, <3>1 DEF Types
  <2>4. SlotsTyped'
    BY <1>3 DEF Types, TypeOK, SlotsTyped, FinishWork, Kinds
  <2>5. BoxTyped'
    <3>1. inFlight' = None /\ closed' = closed /\ cancelled' = cancelled
      BY <1>3 DEF FinishWork
    <3> QED BY <2>4, <3>1 DEF Types, TypeOK, BoxTyped
  <2>6. RestTyped'
    BY <1>3, <2>3, TypesParts DEF RestTyped, FinishWork, screen
  <2> QED BY <2>5, <2>6, TypesThen
<1>4. CASE EndWorker
  <2>1. BoxTyped'
    BY <1>4, CloseTypes DEF EndWorker
  <2>2. RestTyped'
    BY <1>4, TypesParts DEF RestTyped, EndWorker, screen
  <2> QED BY <2>1, <2>2, TypesThen
<1> QED BY <1>1, <1>2, <1>3, <1>4 DEF Work

LEMMA NextTypes == ASSUME Types, [Next]_vars PROVE Types'
<1>1. CASE UNCHANGED vars
  <2>1. RestTyped'
    BY <1>1, TypesParts DEF RestTyped, vars, screen, thread
  <2> QED BY <1>1, <2>1, SameBox DEF vars
<1>2. CASE Key
  BY <1>2, EditTypes, FilterTypes, MoveTypes, QuitTypes DEF Key
<1>3. CASE Loop
  BY <1>3, FlushTypes, JoinTypes, DropTypes, ResultsTypes, PreviewedTypes, ErrorTypes,
     DisconnectTypes DEF Loop
<1>4. CASE Work
  BY <1>4, WorkTypes
<1> QED BY <1>1, <1>2, <1>3, <1>4 DEF Next

-----------------------------------------------------------------------------
(* What is under way *)

LEMMA UnderWayTypes == ASSUME Types PROVE \A o \in UnderWay : o.kind \in Kinds /\ o.gen \in Nat
<1>1. \A r \in Request \cup Outcome : Same(r).kind \in Kinds /\ Same(r).gen \in Nat
  BY DEF Same, Request, Outcome
<1>2. \A o \in Boxed \cup Running : o.kind \in Kinds /\ o.gen \in Nat
  BY <1>1 DEF Types, TypeOK, Boxed, Running
<1>3. \A i \in DOMAIN outcomes : outcomes[i] \in Outcome
  BY DEF Types
<1> QED BY <1>1, <1>2, <1>3 DEF UnderWay, Answered

\* What the UI thread does to the mailbox puts at most its own request in it.
LEMMA CancelKindLess ==
  ASSUME Types, NEW kind \in Kinds, CancelKind(kind) PROVE Boxed' \subseteq Boxed
<1>1. \A k \in Kinds : slot'[k] # None => slot'[k] = slot[k]
  BY DEF Types, TypeOK, CancelKind
<1> QED BY <1>1 DEF Boxed

LEMMA CloseLess == ASSUME Close PROVE Boxed' \subseteq Boxed
<1>1. \A k \in Kinds : slot'[k] = None
  BY DEF Close
<1> QED BY <1>1 DEF Boxed

LEMMA SendMore ==
  ASSUME Types, NEW r \in Request, r.kind \in Kinds, Send(r)
  PROVE  Boxed' \subseteq Boxed \cup {Same(r)}
<1>1. \A k \in Kinds : slot'[k] = slot[k] \/ slot'[k] = r
  BY DEF Types, TypeOK, Send
<1> QED BY <1>1 DEF Boxed

\* An answer that is taken from the channel leaves less under way.
LEMMA DrainLess == ASSUME Types, Drain PROVE Answered' \subseteq Answered /\ Same(Answer) \in UnderWay
<1>1. /\ \A i \in DOMAIN outcomes' : \E j \in DOMAIN outcomes : outcomes'[i] = outcomes[j]
      /\ \E j \in DOMAIN outcomes : Answer = outcomes[j]
  BY AnswerType
<1> QED BY <1>1 DEF Answered, UnderWay

\* The worker moves requests on, and invents none.
LEMMA WorkLess == ASSUME Types, Work PROVE UnderWay' \subseteq UnderWay
<1>1. CASE Take
  <2>1. PICK kind \in Kinds :
          slot[kind] # None /\ work' = slot[kind] /\ slot' = [slot EXCEPT ![kind] = None]
    BY <1>1 DEF Take
  <2>2. \A k \in Kinds : slot'[k] # None => slot'[k] = slot[k]
    BY <2>1 DEF Types, TypeOK
  <2>3. outcomes' = outcomes
    BY <1>1 DEF Take
  <2> QED BY <2>1, <2>2, <2>3 DEF UnderWay, Boxed, Running, Answered
<1>2. CASE Execute
  BY <1>2 DEF Execute, mailbox, UnderWay, Boxed, Running, Answered
<1>3. CASE FinishWork
  <2> DEFINE o == [kind |-> work.kind, gen |-> work.gen, ok |-> result = "ok",
                   query |-> work.query, filter |-> work.filter, id |-> work.id]
  <2>1. work # None /\ work' = None /\ outcomes \in Seq(Outcome)
    BY <1>3 DEF Types, FinishWork
  <2>2. \A k \in Kinds : slot'[k] # None => slot'[k] = slot[k]
    BY <1>3 DEF Types, TypeOK, FinishWork, Kinds
  <2>3. outcomes' = outcomes \/ outcomes' = Append(outcomes, o)
    BY <1>3 DEF FinishWork
  <2>4. \A i \in DOMAIN outcomes' : outcomes'[i] = o \/ \E j \in DOMAIN outcomes : outcomes'[i] = outcomes[j]
    <3> HIDE DEF o
    <3> QED BY <2>1, <2>3
  <2>5. Same(o) = Same(work)
    BY DEF Same
  <2>6. Same(work) \in UnderWay
    BY <2>1 DEF UnderWay, Running
  <2>7. \A i \in DOMAIN outcomes' : Same(outcomes'[i]) \in UnderWay
    <3> HIDE DEF o
    <3> QED BY <2>4, <2>5, <2>6 DEF UnderWay, Answered
  <2>8. \A k \in Kinds : slot'[k] # None => Same(slot'[k]) \in UnderWay
    BY <2>2 DEF UnderWay, Boxed
  <2> QED BY <2>1, <2>7, <2>8 DEF UnderWay, Boxed, Running, Answered
<1>4. CASE EndWorker
  BY <1>4, CloseLess DEF EndWorker, UnderWay, Running, Answered
<1> QED BY <1>1, <1>2, <1>3, <1>4 DEF Work

\* A request draws a new generation, which nothing that was under way has.
LEMMA SearchMatches ==
  ASSUME IInv, RequestSearch, query' \in Queries, filter' \in Filters,
         UNCHANGED <<work, outcomes, previewGen, rows, selected>>
  PROVE  GenerationsMatch'
<1> DEFINE r == [kind |-> "search", gen |-> searchGen + 1, query |-> query',
                 filter |-> filter', id |-> None]
<1>1. r \in Request /\ r.kind \in Kinds
  BY DEF IInv, Types, TypeOK, Request, Kinds
<1>2. Boxed' \subseteq Boxed \cup {Same(r)}
  <2>1. CASE closed
    BY <2>1 DEF RequestSearch, mailbox, Boxed
  <2>2. CASE ~closed
    BY <1>1, <2>2, SendMore DEF RequestSearch, IInv
  <2> QED BY <2>1, <2>2
<1>3. UnderWay' \subseteq UnderWay \cup {Same(r)}
  BY <1>2 DEF UnderWay, Running, Answered
<1>4. Selected' = Selected /\ previewGen' = previewGen /\ searchGen' = searchGen + 1
  BY DEF Selected, RequestSearch
<1>5. searchGen \in Nat
  BY DEF IInv, Types, TypeOK
<1>6. \A o \in UnderWay : Matching(o)'
  BY <1>4, <1>5, UnderWayTypes DEF IInv, GenerationsMatch, Matching
<1>7. \A o \in {Same(r)} : Matching(o)'
  BY <1>4, <1>5 DEF Matching, Same
<1> QED BY <1>3, <1>6, <1>7 DEF GenerationsMatch

LEMMA PreviewMatches ==
  ASSUME IInv, NEW id \in Ids, NEW owner \in Kinds \cup {None}, RequestPreview(id, owner),
         Selected' = id, Answered' \subseteq Answered,
         UNCHANGED <<work, searchGen, query, filter>>
  PROVE  GenerationsMatch'
<1> DEFINE r == [kind |-> "preview", gen |-> previewGen + 1, query |-> query,
                 filter |-> filter, id |-> id]
<1>1. r \in Request /\ r.kind \in Kinds
  BY DEF IInv, Types, TypeOK, Request, Kinds, Ids
<1>2. Boxed' \subseteq Boxed \cup {Same(r)}
  <2>1. CASE CancelKind("preview")
    BY <2>1, CancelKindLess DEF IInv, Kinds
  <2>2. CASE UNCHANGED <<mailbox, cancelled>>
    BY <2>2 DEF mailbox, Boxed
  <2>3. CASE Send(r)
    BY <1>1, <2>3, SendMore DEF IInv
  <2> QED BY <2>1, <2>2, <2>3 DEF RequestPreview
<1>3. UnderWay' \subseteq UnderWay \cup {Same(r)}
  BY <1>2 DEF UnderWay, Running
<1>4. previewGen' = previewGen + 1
  BY DEF RequestPreview
<1>5. previewGen \in Nat
  BY DEF IInv, Types, TypeOK
<1>6. \A o \in UnderWay : Matching(o)'
  BY <1>4, <1>5, UnderWayTypes DEF IInv, GenerationsMatch, Matching
<1>7. \A o \in {Same(r)} : Matching(o)'
  BY <1>4, <1>5 DEF Matching, Same
<1> QED BY <1>3, <1>6, <1>7 DEF GenerationsMatch

LEMMA SameMatches ==
  ASSUME IInv, UnderWay' \subseteq UnderWay,
         UNCHANGED <<query, filter, searchGen, previewGen, rows, selected>>
  PROVE  GenerationsMatch'
  BY DEF IInv, GenerationsMatch, Matching, Selected

LEMMA EditMatches == ASSUME IInv, NEW q \in Queries, EditQuery(q) PROVE GenerationsMatch'
<1>1. UnderWay' \subseteq UnderWay
  BY CancelKindLess DEF EditQuery, Kinds, IInv, UnderWay, Running, Answered, thread
<1>2. Selected' = Selected /\ previewGen' = previewGen /\ searchGen' = searchGen + 1
  BY DEF Selected, EditQuery
<1>3. searchGen \in Nat
  BY DEF IInv, Types, TypeOK
<1> QED
  BY <1>1, <1>2, <1>3, UnderWayTypes DEF IInv, GenerationsMatch, Matching

LEMMA NextMatches == ASSUME IInv, [Next]_vars PROVE GenerationsMatch'
<1>1. CASE UNCHANGED vars
  BY <1>1, SameMatches DEF vars, screen, mailbox, thread, UnderWay, Boxed, Running, Answered
<1>2. CASE Key
  <2>1. ASSUME NEW f \in Filters, ChangeFilter(f) PROVE GenerationsMatch'
    BY <2>1, SearchMatches DEF ChangeFilter, thread, IInv, Types, TypeOK
  <2>2. ASSUME NEW i \in DOMAIN rows, MoveSelection(i) PROVE GenerationsMatch'
    <3>1. rows[i] \in Ids /\ errOwner \in Kinds \cup {None} /\ rows # <<>>
      BY DEF IInv, Types, TypeOK, Ids
    <3>2. Selected' = rows[i] /\ Answered' = Answered /\ RequestPreview(rows[i], errOwner)
      BY <2>2, <3>1 DEF MoveSelection, Selected, Answered
    <3> QED BY <2>2, <3>1, <3>2, PreviewMatches DEF MoveSelection, thread
  <2>3. CASE Quit
    BY <2>3, CloseLess, SameMatches DEF Quit, UnderWay, Running, Answered, thread
  <2> QED BY <1>2, <2>1, <2>2, <2>3, EditMatches DEF Key
<1>3. CASE Loop
  <2>1. CASE FlushQuery
    BY <2>1, SearchMatches DEF FlushQuery, thread, IInv, Types, TypeOK
  <2>2. ASSUME Drain, UNCHANGED <<mailbox, thread, cancelled>>,
               UNCHANGED <<query, filter, searchGen, previewGen, rows, selected>>
        PROVE  GenerationsMatch'
    <3>1. UnderWay' \subseteq UnderWay
      BY <2>2, DrainLess DEF IInv, UnderWay, Running, Boxed, mailbox, thread
    <3> QED BY <2>2, <3>1, SameMatches
  <2>3. CASE DropSuperseded
    BY <2>2, <2>3 DEF DropSuperseded, screen
  <2>4. CASE ApplyPreview
    BY <2>2, <2>4 DEF ApplyPreview
  <2>5. CASE ApplyError
    BY <2>2, <2>5 DEF ApplyError
  <2>6. CASE ApplyResults
    <3> DEFINE owner == IF errOwner = "search" THEN None ELSE errOwner
    <3>1. RequestPreview(Selected', owner)
      BY <2>6 DEF ApplyResults, Selected
    <3>2. Types'
      BY ResultsTypes, <2>6 DEF IInv
    <3>3. Selected' \in Ids
      BY <3>2 DEF Types, TypeOK, Selected, Ids
    <3>4. owner \in Kinds \cup {None}
      BY DEF IInv, Types, TypeOK
    <3>5. Answered' \subseteq Answered
      BY <2>6, DrainLess DEF ApplyResults, IInv
    <3> QED
      BY <2>6, <3>1, <3>3, <3>4, <3>5, PreviewMatches DEF ApplyResults, thread
  <2>7. CASE ReportDisconnect
    BY <2>7, SameMatches DEF ReportDisconnect, UnderWay, Boxed, Running, Answered, mailbox, thread
  <2>8. CASE Join
    BY <2>8, SameMatches DEF Join, UnderWay, Boxed, Running, Answered, mailbox, thread
  <2> QED
    BY <1>3, <2>1, <2>3, <2>4, <2>5, <2>6, <2>7, <2>8 DEF Loop
<1>4. CASE Work
  BY <1>4, WorkLess, SameMatches DEF IInv, Work, Take, Execute, FinishWork, EndWorker, screen
<1> QED BY <1>1, <1>2, <1>3, <1>4 DEF Next

THEOREM Inductive == Spec => []IInv
<1>1. Init => IInv
  <2> SUFFICES ASSUME Init PROVE GenerationsMatch
    BY InitTypes DEF IInv
  <2>1. slot["search"].kind = "search" /\ slot["preview"] = None /\ slot["search"].gen = 1
        /\ slot["search"].query = query /\ slot["search"].filter = filter
    BY DEF Init
  <2>2. UnderWay \subseteq {Same(slot["search"])}
    BY <2>1 DEF Init, UnderWay, Boxed, Running, Answered, Kinds
  <2> QED BY <2>1, <2>2 DEF GenerationsMatch, Matching, Same, Init
<1>2. IInv /\ [Next]_vars => IInv'
  BY NextTypes, NextMatches DEF IInv
<1> QED BY <1>1, <1>2, PTL DEF Spec

(* The browser, its mailbox and its worker keep their states of their      *)
(* kinds, for any queries, results and keys.                               *)
THEOREM TypeCorrect == Spec => []TypeOK
  BY Inductive, PTL DEF IInv, Types

(* apply_outcome replaces the list by the answer to what is on screen, and *)
(* nothing else replaces it.                                               *)
THEOREM OnlyCurrent == Spec => OnlyCurrentReplaces
<1>1. IInv /\ [Next]_vars => [rows' # rows => rows' = Matches[query', filter']]_vars
  <2> SUFFICES ASSUME IInv, Next, rows' # rows PROVE rows' = Matches[query', filter']
    BY DEF vars, screen
  <2>1. ApplyResults
    BY DEF Next, Key, Loop, Work, EditQuery, FlushQuery, ChangeFilter, MoveSelection, Quit, Join,
           DropSuperseded, ApplyPreview, ApplyError, ReportDisconnect, Take, Execute, FinishWork,
           EndWorker, screen
  <2>2. Same(Answer) \in UnderWay
    BY <2>1, DrainLess DEF ApplyResults, IInv
  <2>3. Answer.query = query /\ Answer.filter = filter
    BY <2>1, <2>2 DEF IInv, GenerationsMatch, Matching, Same, ApplyResults, IsCurrent
  <2> QED BY <2>1, <2>3 DEF ApplyResults
<1> QED BY <1>1, Inductive, PTL DEF Spec, OnlyCurrentReplaces

-----------------------------------------------------------------------------
(* The preview beside the list *)

PreviewHeld ==
  (ui = "open" /\ ~searching /\ ~loading /\ ~reported)
    => previewed = Selected \/ errOwner # None

LEMMA RequestedHeld ==
  ASSUME Types, None \notin Kinds, NEW id \in Ids, NEW owner \in Kinds \cup {None},
         RequestPreview(id, owner), Selected' = id, UNCHANGED previewed
  PROVE  PreviewHeld'
  BY DEF RequestPreview, PreviewHeld, Kinds

LEMMA SearchHeld == ASSUME None \notin Kinds, RequestSearch PROVE PreviewHeld'
  BY DEF RequestSearch, PreviewHeld, Kinds

LEMMA NextHeld ==
  ASSUME IInv, IInv', None \notin Kinds, PreviewHeld, [Next]_vars PROVE PreviewHeld'
<1>0. IInv => Types
  BY DEF IInv
<1>1. CASE UNCHANGED vars
  BY <1>1 DEF vars, screen, PreviewHeld, Selected
<1>2. CASE Key
  <2>1. ASSUME NEW q \in Queries, EditQuery(q) PROVE PreviewHeld'
    BY <2>1 DEF EditQuery, PreviewHeld
  <2>2. ASSUME NEW f \in Filters, ChangeFilter(f) PROVE PreviewHeld'
    BY <2>2, SearchHeld DEF ChangeFilter
  <2>3. ASSUME NEW i \in DOMAIN rows, MoveSelection(i) PROVE PreviewHeld'
    <3>1. rows[i] \in Ids /\ errOwner \in Kinds \cup {None} /\ rows # <<>>
      BY DEF IInv, Types, TypeOK, Ids
    <3>2. Selected' = rows[i] /\ RequestPreview(rows[i], errOwner)
      BY <2>3, <3>1 DEF MoveSelection, Selected
    <3> QED BY <1>0, <2>3, <3>1, <3>2, RequestedHeld DEF MoveSelection
  <2>4. CASE Quit
    BY <2>4 DEF Quit, PreviewHeld
  <2> QED BY <1>2, <2>1, <2>2, <2>3, <2>4 DEF Key
<1>3. CASE Loop
  <2>1. CASE FlushQuery
    BY <2>1, SearchHeld DEF FlushQuery
  <2>2. CASE DropSuperseded
    BY <2>2 DEF DropSuperseded, screen, PreviewHeld, Selected
  <2>3. CASE ApplyResults
    <3> DEFINE owner == IF errOwner = "search" THEN None ELSE errOwner
    <3>1. RequestPreview(Selected', owner)
      BY <2>3 DEF ApplyResults, Selected
    <3>2. Selected' \in Ids /\ owner \in Kinds \cup {None}
      BY DEF IInv, Types, TypeOK, Selected, Ids
    <3> QED BY <1>0, <2>3, <3>1, <3>2, RequestedHeld DEF ApplyResults
  <2>4. CASE ApplyPreview
    <3>1. Same(Answer) \in UnderWay
      BY <1>0, <2>4, DrainLess DEF ApplyPreview
    <3>2. Answer.id = Selected
      BY <2>4, <3>1 DEF IInv, GenerationsMatch, Matching, Same, ApplyPreview, IsCurrent
    <3> QED BY <2>4, <3>2 DEF ApplyPreview, PreviewHeld, Selected
  <2>5. CASE ApplyError
    <3>1. Answer.kind \in Kinds
      BY <1>0, <2>5, AnswerType DEF ApplyError, Outcome
    <3> QED BY <2>5, <3>1 DEF ApplyError, PreviewHeld
  <2>6. CASE ReportDisconnect
    BY <2>6 DEF ReportDisconnect, PreviewHeld
  <2>7. CASE Join
    BY <2>7 DEF Join, PreviewHeld
  <2> QED
    BY <1>3, <2>1, <2>2, <2>3, <2>4, <2>5, <2>6, <2>7 DEF Loop
<1>4. CASE Work
  BY <1>4 DEF Work, Take, Execute, FinishWork, EndWorker, screen, PreviewHeld, Selected
<1> QED BY <1>1, <1>2, <1>3, <1>4 DEF Next

(* Whichever requests fail, a preview that is shown without a wait or an   *)
(* error beside a list without a wait is the selected row's.               *)
THEOREM PreviewIsRight == Spec => []PreviewIsSelected
<1>1. None \notin Kinds
  BY BrowserAssumption DEF BrowserAssumption, Kinds
<1>2. Init => PreviewHeld
  BY DEF Init, PreviewHeld
<1>3. IInv /\ IInv' /\ PreviewHeld /\ [Next]_vars => PreviewHeld'
  BY <1>1, NextHeld
<1>4. PreviewHeld => PreviewIsSelected
  BY DEF PreviewHeld, PreviewIsSelected
<1> QED BY <1>2, <1>3, <1>4, Inductive, PTL DEF Spec

-----------------------------------------------------------------------------
(* The list, when previews do not fail *)

\* An error of a preview is then a closed mailbox's, and nothing clears it.
OnlySearchesFail ==
  /\ \A i \in DOMAIN outcomes : outcomes[i].ok \/ outcomes[i].kind = "search"
  /\ (worker = "finishing" /\ result \notin {"ok", "interrupted"}) => work.kind = "search"

PreviewErrorLasts ==
  errOwner = "preview" =>
    closed /\ \A o \in UnderWay : o.kind = "preview" => o.gen # previewGen

ListHeld ==
  (ui = "open" /\ ~searching /\ ~reported) => rows = Matches[query, filter] \/ errOwner # None

Listed == OnlySearchesFail /\ PreviewErrorLasts /\ ListHeld

LEMMA NextFails ==
  ASSUME Types, "preview" \notin FailingKinds, OnlySearchesFail, [Next]_vars
  PROVE  OnlySearchesFail'
<1>1. CASE UNCHANGED <<outcomes, worker, result, work>>
  BY <1>1 DEF OnlySearchesFail
<1>2. CASE Drain /\ UNCHANGED <<worker, result, work>>
  BY <1>2, AnswerType DEF OnlySearchesFail
<1>3. CASE Take \/ EndWorker
  BY <1>3 DEF OnlySearchesFail, Take, EndWorker
<1>4. CASE Execute
  <2>1. worker = "running" /\ work \in Request
    BY <1>4 DEF Execute, Types, TypeOK
  <2>2. work.kind \in Kinds
    BY <2>1 DEF Request
  <2> QED BY <1>4, <2>2, BrowserAssumption DEF OnlySearchesFail, Execute, BrowserAssumption, Kinds
<1>5. CASE FinishWork
  <2> DEFINE o == [kind |-> work.kind, gen |-> work.gen, ok |-> result = "ok",
                   query |-> work.query, filter |-> work.filter, id |-> work.id]
  <2>1. o.ok \/ result = "interrupted" \/ o.kind = "search"
    BY <1>5 DEF FinishWork, OnlySearchesFail
  <2>2. outcomes' = outcomes \/ (outcomes' = Append(outcomes, o) /\ result # "interrupted")
    BY <1>5 DEF FinishWork
  <2>3. worker' = "waiting"
    BY <1>5 DEF FinishWork
  <2> HIDE DEF o
  <2>4. CASE outcomes' = outcomes
    BY <2>3, <2>4 DEF OnlySearchesFail
  <2>5. CASE outcomes' = Append(outcomes, o) /\ result # "interrupted"
    <3>1. \A i \in DOMAIN outcomes' : (i \in DOMAIN outcomes /\ outcomes'[i] = outcomes[i])
                                     \/ outcomes'[i] = o
      BY <2>5 DEF Types
    <3> QED BY <2>1, <2>3, <2>5, <3>1 DEF OnlySearchesFail
  <2> QED BY <2>2, <2>4, <2>5
<1> QED
  BY <1>1, <1>2, <1>3, <1>4, <1>5 DEF Next, Key, Loop, Work, EditQuery, FlushQuery, ChangeFilter,
     MoveSelection, Quit, Join, DropSuperseded, ApplyResults, ApplyPreview, ApplyError,
     ReportDisconnect, vars, thread, Drain

LEMMA SearchKeepsError ==
  ASSUME IInv, PreviewErrorLasts, RequestSearch, UNCHANGED <<work, outcomes, previewGen>>
  PROVE  PreviewErrorLasts'
<1> SUFFICES ASSUME errOwner' = "preview" PROVE PreviewErrorLasts'
  BY DEF PreviewErrorLasts
<1>1. closed
  BY DEF PreviewErrorLasts, RequestSearch
<1>2. UNCHANGED <<mailbox, cancelled>> /\ errOwner' = "search"
  BY <1>1 DEF RequestSearch
<1> QED BY <1>2

\* A request for a preview that leaves the error of one is on a closed mailbox.
LEMMA PreviewKeepsError ==
  ASSUME IInv, NEW id \in Ids, NEW owner \in Kinds \cup {None}, RequestPreview(id, owner),
         owner = "preview" => closed, Answered' \subseteq Answered, UNCHANGED work
  PROVE  PreviewErrorLasts'
<1> SUFFICES ASSUME errOwner' = "preview" PROVE PreviewErrorLasts'
  BY DEF PreviewErrorLasts
<1>1. closed /\ UNCHANGED mailbox /\ previewGen' = previewGen + 1
  BY DEF RequestPreview, mailbox
<1>2. UnderWay' \subseteq UnderWay
  BY <1>1 DEF UnderWay, Boxed, Running, mailbox
<1>3. previewGen \in Nat /\ \A o \in UnderWay : o.gen \in Nat
  BY UnderWayTypes DEF IInv, Types, TypeOK
<1>4. \A o \in UnderWay : o.kind = "preview" => o.gen <= previewGen
  BY DEF IInv, GenerationsMatch, Matching
<1>5. \A o \in UnderWay' : o.kind = "preview" => o.gen # previewGen'
  BY <1>1, <1>2, <1>3, <1>4
<1> QED BY <1>1, <1>5 DEF PreviewErrorLasts, mailbox

LEMMA SameKeepsError ==
  ASSUME PreviewErrorLasts, UnderWay' \subseteq UnderWay, closed => closed',
         errOwner' = errOwner \/ errOwner' # "preview", previewGen' = previewGen
  PROVE  PreviewErrorLasts'
  BY DEF PreviewErrorLasts

LEMMA NextKeepsError ==
  ASSUME IInv, IInv', None \notin Kinds, OnlySearchesFail, PreviewErrorLasts, [Next]_vars
  PROVE  PreviewErrorLasts'
<1>0. IInv => Types
  BY DEF IInv
<1>1. CASE UNCHANGED vars
  BY <1>1, SameKeepsError
     DEF vars, screen, mailbox, thread, UnderWay, Boxed, Running, Answered
<1>2. CASE Key
  <2>1. ASSUME NEW q \in Queries, EditQuery(q) PROVE PreviewErrorLasts'
    <3>1. UnderWay' \subseteq UnderWay
      BY <1>0, <2>1, CancelKindLess DEF EditQuery, Kinds, UnderWay, Running, Answered, thread
    <3> QED BY <2>1, <3>1, SameKeepsError DEF EditQuery, CancelKind
  <2>2. ASSUME NEW f \in Filters, ChangeFilter(f) PROVE PreviewErrorLasts'
    BY <2>2, SearchKeepsError DEF ChangeFilter, thread
  <2>3. ASSUME NEW i \in DOMAIN rows, MoveSelection(i) PROVE PreviewErrorLasts'
    <3>1. rows[i] \in Ids /\ errOwner \in Kinds \cup {None}
      BY DEF IInv, Types, TypeOK, Ids
    <3>2. RequestPreview(rows[i], errOwner) /\ (errOwner = "preview" => closed)
      BY <2>3 DEF MoveSelection, PreviewErrorLasts
    <3>3. Answered' \subseteq Answered /\ work' = work
      BY <2>3 DEF MoveSelection, Answered, thread
    <3> QED BY <3>1, <3>2, <3>3, PreviewKeepsError
  <2>4. CASE Quit
    BY <2>4, CloseLess, SameKeepsError DEF Quit, Close, UnderWay, Running, Answered, thread
  <2> QED BY <1>2, <2>1, <2>2, <2>3, <2>4 DEF Key
<1>3. CASE Loop
  <2>1. CASE FlushQuery
    BY <2>1, SearchKeepsError DEF FlushQuery, thread
  <2>2. ASSUME Drain, UNCHANGED <<mailbox, thread, cancelled, previewGen>>,
               errOwner' = errOwner \/ errOwner' # "preview"
        PROVE  PreviewErrorLasts'
    <3>1. UnderWay' \subseteq UnderWay
      BY <1>0, <2>2, DrainLess DEF UnderWay, Running, Boxed, mailbox, thread
    <3> QED BY <2>2, <3>1, SameKeepsError DEF mailbox
  <2>3. CASE DropSuperseded
    BY <2>2, <2>3 DEF DropSuperseded, screen
  <2>4. CASE ApplyPreview
    BY <1>0, <2>2, <2>4, TypesParts DEF ApplyPreview, RestTyped, Kinds
  <2>5. CASE ApplyError
    <3>1. Answer.kind = "search"
      BY <1>0, <2>5, AnswerType DEF ApplyError, OnlySearchesFail
    <3> QED BY <2>2, <2>5, <3>1 DEF ApplyError
  <2>6. CASE ApplyResults
    <3> DEFINE owner == IF errOwner = "search" THEN None ELSE errOwner
    <3>1. RequestPreview(Selected', owner)
      BY <2>6 DEF ApplyResults, Selected
    <3>2. Selected' \in Ids /\ owner \in Kinds \cup {None}
      BY DEF IInv, Types, TypeOK, Selected, Ids
    <3>3. Answered' \subseteq Answered /\ work' = work
      BY <1>0, <2>6, DrainLess DEF ApplyResults, thread
    <3>4. owner = "preview" => closed
      BY DEF PreviewErrorLasts, Kinds
    <3> QED BY <3>1, <3>2, <3>3, <3>4, PreviewKeepsError
  <2>7. CASE ReportDisconnect
    BY <2>7, SameKeepsError
       DEF ReportDisconnect, UnderWay, Boxed, Running, Answered, mailbox, thread, Kinds
  <2>8. CASE Join
    BY <2>8, SameKeepsError DEF Join, UnderWay, Boxed, Running, Answered, mailbox, thread
  <2> QED
    BY <1>3, <2>1, <2>3, <2>4, <2>5, <2>6, <2>7, <2>8 DEF Loop
<1>4. CASE Work
  <2>1. UnderWay' \subseteq UnderWay
    BY <1>0, <1>4, WorkLess
  <2>2. closed => closed'
    BY <1>4 DEF Work, Take, Execute, FinishWork, EndWorker, mailbox, Close
  <2>3. errOwner' = errOwner /\ previewGen' = previewGen
    BY <1>4 DEF Work, Take, Execute, FinishWork, EndWorker, screen
  <2> QED BY <2>1, <2>2, <2>3, SameKeepsError
<1> QED BY <1>1, <1>2, <1>3, <1>4 DEF Next

LEMMA NextListed ==
  ASSUME IInv, None \notin Kinds, PreviewErrorLasts, ListHeld, [Next]_vars PROVE ListHeld'
<1>0. IInv => Types
  BY DEF IInv
<1>1. CASE UNCHANGED vars
  BY <1>1 DEF vars, screen, ListHeld
<1>2. CASE Key
  BY <1>2 DEF Key, EditQuery, ChangeFilter, RequestSearch, MoveSelection, RequestPreview, Quit,
     ListHeld, Kinds
<1>3. CASE Loop
  <2>1. CASE FlushQuery
    BY <2>1 DEF FlushQuery, RequestSearch, ListHeld, Kinds
  <2>2. CASE DropSuperseded \/ Join \/ ReportDisconnect
    BY <2>2 DEF DropSuperseded, Join, ReportDisconnect, screen, ListHeld
  <2>3. CASE ApplyResults
    <3>1. Same(Answer) \in UnderWay
      BY <1>0, <2>3, DrainLess DEF ApplyResults
    <3>2. Answer.query = query /\ Answer.filter = filter
      BY <2>3, <3>1 DEF IInv, GenerationsMatch, Matching, Same, ApplyResults, IsCurrent
    <3> QED BY <2>3, <3>2 DEF ApplyResults, ListHeld
  <2>4. CASE ApplyPreview
    <3>1. Same(Answer) \in UnderWay
      BY <1>0, <2>4, DrainLess DEF ApplyPreview
    <3>2. errOwner # "preview"
      BY <2>4, <3>1 DEF PreviewErrorLasts, Same, ApplyPreview, IsCurrent
    <3>3. errOwner' = errOwner
      BY <2>4, <3>2 DEF ApplyPreview
    <3> QED BY <2>4, <3>3 DEF ApplyPreview, ListHeld
  <2>5. CASE ApplyError
    <3>1. Answer.kind \in Kinds
      BY <1>0, <2>5, AnswerType DEF ApplyError, Outcome
    <3> QED BY <2>5, <3>1 DEF ApplyError, ListHeld
  <2> QED BY <1>3, <2>1, <2>2, <2>3, <2>4, <2>5 DEF Loop
<1>4. CASE Work
  BY <1>4 DEF Work, Take, Execute, FinishWork, EndWorker, screen, ListHeld
<1> QED BY <1>1, <1>2, <1>3, <1>4 DEF Next

(* If previews do not fail, a list that is shown without a wait or an      *)
(* error is what the query and the filters on screen find: keys, late      *)
(* answers, cancelled and failed searches and a dying worker notwithstanding. *)
THEOREM ListIsRight == "preview" \notin FailingKinds => (Spec => []ShownIsWanted)
<1> SUFFICES ASSUME "preview" \notin FailingKinds PROVE Spec => []ShownIsWanted
  OBVIOUS
<1>1. None \notin Kinds
  BY BrowserAssumption DEF BrowserAssumption, Kinds
<1>2. Init => Listed
  BY <1>1 DEF Init, Listed, OnlySearchesFail, PreviewErrorLasts, ListHeld, Kinds
<1>3. IInv /\ IInv' /\ Listed /\ [Next]_vars => Listed'
  BY <1>1, NextFails, NextKeepsError, NextListed DEF Listed, IInv
<1>4. Listed => ShownIsWanted
  BY DEF Listed, ListHeld, ShownIsWanted
<1> QED BY <1>2, <1>3, <1>4, Inductive, PTL DEF Spec
=============================================================================
