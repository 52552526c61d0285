---------------------------- MODULE SearchBrowser ----------------------------
(***************************************************************************)
(* tui.rs: the interactive browser.  The UI thread handles keys and        *)
(* responses and never waits for the database; one worker thread takes     *)
(* requests from a mailbox with one place per kind, runs them, and sends   *)
(* outcomes back over a channel.  Newer requests supersede older ones in   *)
(* the mailbox, in flight (by cancellation) and on arrival (by generation).*)
(*                                                                         *)
(* Every handler of the UI thread takes the mailbox lock at most once, and *)
(* is one step.  How long a poll waits is left out: a response is absorbed *)
(* at some later step, and a pending query is searched for at some later   *)
(* step.  Text, filters and sessions are opaque; Matches says which rows a *)
(* query finds.  Rejected filter combinations, which no key produces, and  *)
(* a worker that does not start, which ends the browser, are left out.     *)
(***************************************************************************)
EXTENDS Naturals, Sequences

CONSTANTS
  Queries, Filters, Sessions,
  Matches,       \* Matches[q, f]: the rows a search for q under f lists
  MaxKeys,       \* how many keys are pressed
  MaxErrors,     \* how many requests fail
  FailingKinds,  \* the kinds of request that may fail
  MayPanic,      \* whether the worker may panic
  None           \* no session, no request, no error

ASSUME BrowserAssumption ==
  /\ Matches \in [Queries \X Filters -> Seq(Sessions)]
  /\ MaxKeys \in Nat /\ MaxErrors \in Nat
  /\ FailingKinds \subseteq {"search", "preview"}
  /\ MayPanic \in BOOLEAN
  /\ None \notin Sessions \cup {"search", "preview"}

VARIABLES
  \* the UI thread
  query, filter,       \* what is asked for
  edited,              \* an edit has not been searched for yet
  searchGen, previewGen,
  searching, loading,  \* what the titles say is under way
  rows, selected,      \* the list and the place in it
  previewed,           \* the session whose preview is shown
  errOwner,            \* the request whose error is shown
  reported,            \* the end of the worker has been reported
  ui,                  \* "open", "closing" or "closed"
  keys,
  \* the mailbox
  slot,                \* slot[kind]: the pending request
  inFlight,            \* the kind of the request that can be cancelled
  closed,
  \* the worker and its channel
  worker, work, cancelled, result, errors,
  outcomes

screen == <<query, filter, edited, searchGen, previewGen, searching, loading,
            rows, selected, previewed, errOwner, reported, ui, keys>>
mailbox == <<slot, inFlight, closed>>
thread == <<worker, work, result, errors>>
vars == <<screen, mailbox, thread, cancelled, outcomes>>

Kinds == {"search", "preview"}
Selected == IF rows = <<>> THEN None ELSE rows[selected]

-----------------------------------------------------------------------------
(* The mailbox.  Cancelling takes the request in flight out of its place   *)
(* and raises the flag the worker looks at, in one locked step.            *)

Cancel(kinds) ==
  /\ inFlight' = IF inFlight \in kinds THEN None ELSE inFlight
  /\ cancelled' = (cancelled \/ inFlight \in kinds)

(* A newer search supersedes whatever runs; a preview only a preview.      *)
Supersedes(kind) == IF kind = "search" THEN Kinds ELSE {"preview"}

Send(request) ==
  /\ Cancel(Supersedes(request.kind))
  /\ slot' = [slot EXCEPT ![request.kind] = request]
  /\ UNCHANGED closed

CancelKind(kind) ==
  /\ Cancel({kind})
  /\ slot' = [slot EXCEPT ![kind] = None]
  /\ UNCHANGED closed

\* A mutant: the request in flight is cancelled, the mailbox stays open.
CloseCancelsOnly ==
  /\ Cancel(Kinds)
  /\ slot' = [kind \in Kinds |-> None]
  /\ UNCHANGED closed

Close ==
  /\ Cancel(Kinds)
  /\ slot' = [kind \in Kinds |-> None]
  /\ closed' = TRUE

-----------------------------------------------------------------------------
(* Requests of the UI thread                                               *)

(* request_search: the answer to the preview that is under way is waited   *)
(* for no longer.  A closed mailbox shows its error.                       *)
RequestSearch ==
  /\ searchGen' = searchGen + 1
  /\ loading' = FALSE
  /\ searching' = ~closed
  /\ IF closed
     THEN errOwner' = "search" /\ UNCHANGED <<mailbox, cancelled>>
     ELSE /\ Send([kind |-> "search", gen |-> searchGen + 1,
                   query |-> query', filter |-> filter', id |-> None])
          /\ UNCHANGED errOwner

(* request_preview for the row id, given who owns the error on the screen. *)
RequestPreview(id, owner) ==
  /\ previewGen' = previewGen + 1
  /\ IF id = previewed /\ owner # "preview"
     THEN loading' = FALSE /\ errOwner' = owner /\ CancelKind("preview")
     ELSE IF closed
     THEN loading' = FALSE /\ errOwner' = "preview" /\ UNCHANGED <<mailbox, cancelled>>
     ELSE /\ loading' = TRUE /\ errOwner' = owner
          /\ Send([kind |-> "preview", gen |-> previewGen + 1,
                   query |-> query, filter |-> filter, id |-> id])

-----------------------------------------------------------------------------
(* Keys                                                                    *)

Press == ui = "open" /\ keys < MaxKeys /\ keys' = keys + 1

(* The keys of the list are read outside the search box, and leaving the   *)
(* box flushes the query.                                                  *)
Browse == Press /\ ~edited

\* A mutant: the edit waits for its quiet period before it owns the screen.
EditQueryQuietly(q) ==
  /\ Press /\ q # query
  /\ query' = q
  /\ edited' = TRUE
  /\ searching' = TRUE
  /\ UNCHANGED <<filter, searchGen, previewGen, loading, rows, selected, previewed, errOwner,
                 reported, ui, mailbox, thread, cancelled, outcomes>>

(* An edit owns the screen at once, before its quiet period is over.       *)
EditQuery(q) ==
  /\ Press /\ q # query
  /\ query' = q
  /\ edited' = TRUE
  /\ searchGen' = searchGen + 1
  /\ searching' = TRUE
  /\ CancelKind("search")
  /\ UNCHANGED <<filter, previewGen, loading, rows, selected, previewed, errOwner,
                 reported, ui, thread, outcomes>>

(* The quiet period is over, or Enter was pressed.                         *)
FlushQuery ==
  /\ ui = "open" /\ edited
  /\ edited' = FALSE
  /\ UNCHANGED <<query, filter>>
  /\ RequestSearch
  /\ UNCHANGED <<previewGen, rows, selected, previewed, reported, ui, keys, thread, outcomes>>

ChangeFilter(f) ==
  /\ Browse /\ f # filter
  /\ filter' = f
  /\ UNCHANGED query
  /\ RequestSearch
  /\ UNCHANGED <<edited, previewGen, rows, selected, previewed, reported, ui, thread, outcomes>>

MoveSelection(i) ==
  /\ Browse /\ i \in DOMAIN rows /\ i # selected
  /\ selected' = i
  /\ RequestPreview(rows[i], errOwner)
  /\ UNCHANGED <<query, filter, edited, searchGen, searching, rows, previewed, reported,
                 ui, thread, outcomes>>

(* Dropping the worker's owner closes the mailbox and joins the thread.    *)
Quit ==
  /\ ui = "open"
  /\ ui' = "closing"
  /\ Close
  /\ UNCHANGED <<query, filter, edited, searchGen, previewGen, searching, loading, rows,
                 selected, previewed, errOwner, reported, keys, thread, outcomes>>

Join ==
  /\ ui = "closing" /\ worker = "ended"
  /\ ui' = "closed"
  /\ UNCHANGED <<query, filter, edited, searchGen, previewGen, searching, loading, rows,
                 selected, previewed, errOwner, reported, keys, mailbox, thread, cancelled,
                 outcomes>>

-----------------------------------------------------------------------------
(* Responses                                                               *)

Answer == Head(outcomes)

IsCurrent(o) == o.gen = IF o.kind = "search" THEN searchGen ELSE previewGen

Drain == ui = "open" /\ outcomes # <<>> /\ outcomes' = Tail(outcomes)

DropSuperseded ==
  /\ Drain /\ ~IsCurrent(Answer)
  /\ UNCHANGED <<screen, mailbox, thread, cancelled>>

\* A mutant: the place in the list is kept, not the session and its preview.
ApplyResultsInPlace ==
  /\ Drain /\ IsCurrent(Answer) /\ Answer.kind = "search" /\ Answer.ok
  /\ searching' = FALSE
  /\ rows' = Matches[Answer.query, Answer.filter]
  /\ errOwner' = IF errOwner = "search" THEN None ELSE errOwner
  /\ UNCHANGED <<query, filter, edited, searchGen, previewGen, loading, selected, previewed,
                 reported, ui, keys, mailbox, thread, cancelled>>

(* The new list keeps the selected session where it can, and the preview   *)
(* of whatever is selected then is asked for.                              *)
ApplyResults ==
  /\ Drain /\ IsCurrent(Answer) /\ Answer.kind = "search" /\ Answer.ok
  /\ searching' = FALSE
  /\ rows' = Matches[Answer.query, Answer.filter]
  /\ LET kept == {i \in DOMAIN rows' : rows'[i] = Selected}
     IN selected' = IF kept = {} THEN 1 ELSE CHOOSE i \in kept : TRUE
  /\ RequestPreview(IF rows' = <<>> THEN None ELSE rows'[selected'],
                    IF errOwner = "search" THEN None ELSE errOwner)
  /\ UNCHANGED <<query, filter, edited, searchGen, previewed, reported, ui, keys, thread>>

ApplyPreview ==
  /\ Drain /\ IsCurrent(Answer) /\ Answer.kind = "preview" /\ Answer.ok
  /\ loading' = FALSE
  /\ IF Answer.id = Selected
     THEN /\ previewed' = Answer.id
          /\ errOwner' = IF errOwner = "preview" THEN None ELSE errOwner
     ELSE UNCHANGED <<previewed, errOwner>>
  /\ UNCHANGED <<query, filter, edited, searchGen, previewGen, searching, rows, selected,
                 reported, ui, keys, mailbox, thread, cancelled>>

ApplyError ==
  /\ Drain /\ IsCurrent(Answer) /\ ~Answer.ok
  /\ errOwner' = Answer.kind
  /\ IF Answer.kind = "search"
     THEN searching' = FALSE /\ UNCHANGED <<loading, previewed>>
     ELSE loading' = FALSE /\ previewed' = Selected /\ UNCHANGED searching
  /\ UNCHANGED <<query, filter, edited, searchGen, previewGen, rows, selected, reported,
                 ui, keys, mailbox, thread, cancelled>>

\* A mutant: the end of the worker is reported, the waits go on.
ReportDisconnectOnly ==
  /\ ui = "open" /\ outcomes = <<>> /\ worker = "ended" /\ ~reported
  /\ reported' = TRUE
  /\ errOwner' = None
  /\ UNCHANGED <<query, filter, edited, searchGen, previewGen, searching, loading, rows,
                 selected, previewed, ui, keys, mailbox, thread, cancelled, outcomes>>

(* The channel is empty and its sender gone.                               *)
ReportDisconnect ==
  /\ ui = "open" /\ outcomes = <<>> /\ worker = "ended" /\ ~reported
  /\ reported' = TRUE
  /\ searching' = FALSE /\ loading' = FALSE
  /\ errOwner' = None
  /\ UNCHANGED <<query, filter, edited, searchGen, previewGen, rows, selected, previewed,
                 ui, keys, mailbox, thread, cancelled, outcomes>>

-----------------------------------------------------------------------------
(* The worker                                                              *)

(* next(): a search goes before a preview; it runs under a new token.      *)
Take ==
  /\ worker = "waiting" /\ ~closed
  /\ \E kind \in Kinds :
       /\ slot[kind] # None
       /\ kind = "search" \/ slot["search"] = None
       /\ work' = slot[kind]
       /\ slot' = [slot EXCEPT ![kind] = None]
       /\ inFlight' = kind
  /\ cancelled' = FALSE
  /\ worker' = "running"
  /\ UNCHANGED <<screen, closed, result, errors, outcomes>>

(* The request ends with an answer, an error, or, if it was cancelled, the *)
(* interruption; only what is not cancelled by now can be published.       *)
Execute ==
  /\ worker = "running"
  /\ \/ result' = "ok" /\ UNCHANGED errors
     \/ /\ work.kind \in FailingKinds /\ errors < MaxErrors
        /\ result' = "error" /\ errors' = errors + 1
     \/ /\ cancelled
        /\ result' = "interrupted" /\ UNCHANGED errors
  /\ worker' = "finishing"
  /\ UNCHANGED <<screen, mailbox, work, cancelled, outcomes>>

(* finish(): a list that was replaced makes a queued preview obsolete.     *)
FinishWork ==
  /\ worker = "finishing"
  /\ inFlight' = None
  /\ slot' = IF work.kind = "search" /\ result = "ok" /\ slot["search"] = None
             THEN [slot EXCEPT !["preview"] = None] ELSE slot
  /\ outcomes' = IF cancelled \/ result = "interrupted" THEN outcomes
                 ELSE Append(outcomes,
                        [kind |-> work.kind, gen |-> work.gen, ok |-> result = "ok",
                         query |-> work.query, filter |-> work.filter, id |-> work.id])
  /\ worker' = "waiting"
  /\ work' = None
  /\ UNCHANGED <<screen, closed, result, errors, cancelled>>

(* next() returns None, or the thread unwinds; either closes the mailbox.  *)
EndWorker ==
  /\ \/ worker = "waiting" /\ closed
     \/ worker = "running" /\ MayPanic
  /\ Close
  /\ worker' = "ended"
  /\ work' = None
  /\ UNCHANGED <<screen, result, errors, outcomes>>

-----------------------------------------------------------------------------
(* AppState::new asks for the first list.                                  *)
Init ==
  /\ query \in Queries /\ filter \in Filters
  /\ edited = FALSE /\ searching = TRUE /\ loading = FALSE
  /\ searchGen = 1 /\ previewGen = 0
  /\ rows = <<>> /\ selected = 1 /\ previewed = None
  /\ errOwner = None /\ reported = FALSE /\ ui = "open" /\ keys = 0
  /\ slot = [search  |-> [kind |-> "search", gen |-> 1, query |-> query,
                          filter |-> filter, id |-> None],
             preview |-> None]
  /\ inFlight = None /\ closed = FALSE
  /\ worker = "waiting" /\ work = None /\ cancelled = FALSE /\ result = "ok"
  /\ errors = 0 /\ outcomes = <<>>

Key ==
  \/ \E q \in Queries : EditQuery(q)
  \/ \E f \in Filters : ChangeFilter(f)
  \/ \E i \in DOMAIN rows : MoveSelection(i)
  \/ Quit

Loop ==
  \/ FlushQuery \/ DropSuperseded \/ ApplyResults \/ ApplyPreview \/ ApplyError
  \/ ReportDisconnect \/ Join

Work == Take \/ Execute \/ FinishWork \/ EndWorker

Next == Key \/ Loop \/ Work

Spec == Init /\ [][Next]_vars

(* The loop comes round again and the thread runs; keys may stay away.     *)
FairSpec ==
  /\ Spec
  /\ WF_vars(Loop) /\ WF_vars(Work)
  /\ WF_vars(FlushQuery)

-----------------------------------------------------------------------------
Request == [kind : Kinds, gen : Nat, query : Queries, filter : Filters,
            id : Sessions \cup {None}]

TypeOK ==
  /\ query \in Queries /\ filter \in Filters
  /\ edited \in BOOLEAN /\ searching \in BOOLEAN /\ loading \in BOOLEAN
  /\ reported \in BOOLEAN /\ closed \in BOOLEAN /\ cancelled \in BOOLEAN
  /\ searchGen \in Nat /\ previewGen \in Nat
  /\ rows \in Seq(Sessions) /\ selected \in Nat /\ (rows # <<>> => selected \in DOMAIN rows)
  /\ previewed \in Sessions \cup {None}
  /\ errOwner \in Kinds \cup {None} /\ inFlight \in Kinds \cup {None}
  /\ ui \in {"open", "closing", "closed"}
  /\ slot \in [Kinds -> Request \cup {None}] /\ work \in Request \cup {None}
  /\ \A kind \in Kinds : slot[kind] # None => slot[kind].kind = kind
  /\ worker \in {"waiting", "running", "finishing", "ended"}

(* Whenever the titles say that nothing is under way and no error is       *)
(* shown, the list is the answer to the query and the filters on screen.   *)
ShownIsWanted ==
  (ui = "open" /\ ~searching /\ errOwner = None /\ ~reported)
    => rows = Matches[query, filter]

(* In the same circumstances the preview is that of the selected row.      *)
PreviewIsSelected ==
  (ui = "open" /\ ~searching /\ ~loading /\ errOwner = None /\ ~reported)
    => previewed = Selected

(* The list changes only to the answer for what is on screen then: no late *)
(* response, however it races the edit, replaces it.                       *)
OnlyCurrentReplaces == [][rows' # rows => rows' = Matches[query', filter']]_vars

Settled == ~searching /\ ~loading /\ ~edited

(* However keys, cancellations and answers race, a browser that is left    *)
(* alone settles, and shows no wait that nobody will end.                  *)
EventuallySettles == <>[](Settled \/ ui # "open")

(* Quitting joins the worker, whatever it is doing.                        *)
QuitJoins == (ui = "closing") ~> (ui = "closed")
=============================================================================
