------------------------------- MODULE McpCalls -------------------------------
(***************************************************************************)
(* mcp_server.rs: tool calls and the refreshes they ask for.  A call waits *)
(* for a reader permit, reads on a blocking thread, and answers; a call    *)
(* whose read asks for a refresh leaves its permit with a registration     *)
(* until the transport has delivered the answer, and only then signals the *)
(* refresh thread.  Calls are cancelled by the client at any moment, sends *)
(* fail, and the connection closes under all of it.                        *)
(*                                                                         *)
(* rmcp, which runs one handler per request, raises its token after the    *)
(* transport has seen the cancellation, and drops the handlers of a closed *)
(* connection, is external, and so is tokio's first-come semaphore.  What  *)
(* a call reads, and the preparation it makes under the state's lock, are  *)
(* one step here: the outcome is whether a refresh is asked for.           *)
(* Request ids are not reused.                                             *)
(***************************************************************************)
EXTENDS Naturals, FiniteSets, Sequences

CONSTANTS
  Requests,
  Refreshing,  \* the calls that read under the automatic refresh policy
  Endless,     \* the calls whose read ends only when it is told to
  Bound,       \* resolve_mcp_max_concurrent_reads
  MaxPanics    \* how many refreshes panic

ASSUME CallsAssumption ==
  /\ IsFiniteSet(Requests) /\ Refreshing \subseteq Requests /\ Endless \subseteq Requests
  /\ Bound \in Nat \ {0} /\ MaxPanics \in Nat

VARIABLES
  call,      \* call[r]: where the handler of r is
  queue,     \* the calls that wait for a permit
  permits,
  reader,    \* reader[r]: the blocking task of r, or what it returned
  noticed,   \* the transport has seen the cancellation, the token is not raised
  token,     \* the calls whose token is raised
  raised,    \* the reads under way that are told to stop
  pending,   \* registrations, each with its permit
  response,  \* response[r]: where the answer to r is
  link,      \* the connection
  signal, thread, stop, panics,  \* the refresh thread, its channel of one and its flag
  due        \* a delivered answer has asked for a refresh that has not started

handlers == <<call, queue, permits, reader>>
cancels == <<noticed, token, raised>>
refresher == <<signal, thread, stop, panics, due>>
vars == <<handlers, cancels, pending, response, link, refresher>>

Without(r) == SelectSeq(queue, LAMBDA q : q # r)
Returned(r) == reader[r] \in {"refresh", "plain"}
Busy == {r \in Requests : reader[r] = "busy"}

-----------------------------------------------------------------------------
(* One call                                                                *)

Receive(r) ==
  /\ link = "open" /\ call[r] = "unsent"
  /\ call' = [call EXCEPT ![r] = "waiting"]
  /\ queue' = Append(queue, r)
  /\ UNCHANGED <<permits, reader, cancels, pending, response, link, refresher>>

(* The token is looked at first.                                           *)
Admit(r) ==
  /\ call[r] = "waiting" /\ r \notin token
  /\ queue[1] = r /\ permits > 0
  /\ permits' = permits - 1
  /\ queue' = Without(r)
  /\ call' = [call EXCEPT ![r] = "reading"]
  /\ reader' = [reader EXCEPT ![r] = "busy"]
  /\ UNCHANGED <<cancels, pending, response, link, refresher>>

GiveUp(r) ==
  /\ call[r] = "waiting" /\ r \in token
  /\ queue' = Without(r)
  /\ call' = [call EXCEPT ![r] = "ended"]
  /\ response' = [response EXCEPT ![r] = "queued"]
  /\ UNCHANGED <<permits, reader, cancels, pending, link, refresher>>

(* The task returns the permit with its result, which are dropped together *)
(* when no handler waits for them.  Direct answers, errors of preparation, *)
(* and reads stopped before they start ask for no refresh.                 *)
Read(r) ==
  /\ reader[r] = "busy" /\ (r \in Endless => r \in raised)
  /\ raised' = raised \ {r}
  /\ \E outcome \in {"plain"} \cup (IF r \in Refreshing THEN {"refresh"} ELSE {}) :
       IF call[r] = "ended"
       THEN reader' = [reader EXCEPT ![r] = "none"] /\ permits' = permits + 1
       ELSE reader' = [reader EXCEPT ![r] = outcome] /\ UNCHANGED permits
  /\ UNCHANGED <<call, queue, noticed, token, pending, response, link, refresher>>

Complete(r) ==
  /\ call[r] = "reading" /\ Returned(r) /\ r \notin token
  /\ IF reader[r] = "refresh"
     THEN pending' = pending \cup {r} /\ UNCHANGED permits
     ELSE permits' = permits + 1 /\ UNCHANGED pending
  /\ reader' = [reader EXCEPT ![r] = "none"]
  /\ call' = [call EXCEPT ![r] = "ended"]
  /\ response' = [response EXCEPT ![r] = "queued"]
  /\ UNCHANGED <<queue, cancels, link, refresher>>

Interrupt(r) ==
  /\ call[r] = "reading" /\ r \in token
  /\ raised' = raised \cup ({r} \cap Busy)
  /\ call' = [call EXCEPT ![r] = "cancelling"]
  /\ UNCHANGED <<queue, permits, reader, noticed, token, pending, response, link, refresher>>

EndCancelled(r) ==
  /\ call[r] = "cancelling" /\ Returned(r)
  /\ permits' = permits + 1
  /\ reader' = [reader EXCEPT ![r] = "none"]
  /\ call' = [call EXCEPT ![r] = "ended"]
  /\ response' = [response EXCEPT ![r] = "queued"]
  /\ UNCHANGED <<queue, cancels, pending, link, refresher>>

-----------------------------------------------------------------------------
(* Cancellation by the client                                              *)

\* A mutant: the cancellation frees a permit without looking for the registration.
CancelNoticeFrees(r) ==
  /\ link = "open" /\ call[r] = "ended" /\ response[r] # "finished"
  /\ r \notin noticed \cup token
  /\ noticed' = noticed \cup {r}
  /\ pending' = pending \ {r}
  /\ permits' = permits + 1
  /\ UNCHANGED <<call, queue, reader, token, raised, response, link, refresher>>

CancelNotice(r) ==
  /\ link = "open" /\ call[r] # "unsent" /\ response[r] # "finished"
  /\ r \notin noticed \cup token
  /\ noticed' = noticed \cup {r}
  /\ pending' = pending \ {r}
  /\ permits' = IF r \in pending THEN permits + 1 ELSE permits
  /\ UNCHANGED <<call, queue, reader, token, raised, response, link, refresher>>

CancelToken(r) ==
  /\ r \in noticed
  /\ noticed' = noticed \ {r}
  /\ token' = token \cup {r}
  /\ UNCHANGED <<handlers, raised, pending, response, link, refresher>>

-----------------------------------------------------------------------------
(* Delivery and the refresh thread                                         *)

(* schedule: a thread that has ended is replaced; a signal that is already *)
(* there is enough; a thread that is unwinding hears nothing.              *)
Schedule ==
  /\ due' = TRUE
  /\ IF thread \in {"none", "ended"}
     THEN thread' = "idle" /\ stop' = FALSE /\ signal' = TRUE
     ELSE signal' = (thread # "unwinding") /\ UNCHANGED <<thread, stop>>
  /\ UNCHANGED panics

Send(r) ==
  /\ link = "open" /\ response[r] = "queued"
  /\ \E outcome \in {"sent", "failed"} : response' = [response EXCEPT ![r] = outcome]
  /\ UNCHANGED <<handlers, cancels, pending, link, refresher>>

\* A mutant: an answer that was not delivered leaves its registration.
FinishDelivered(r) ==
  /\ link \in {"open", "closing", "closed"} /\ response[r] \in {"sent", "failed"}
  /\ IF r \in pending /\ response[r] = "sent"
     THEN pending' = pending \ {r} /\ permits' = permits + 1 /\ Schedule
     ELSE UNCHANGED <<pending, permits, refresher>>
  /\ response' = [response EXCEPT ![r] = "finished"]
  /\ noticed' = noticed \ {r} /\ token' = token \ {r}
  /\ UNCHANGED <<call, queue, reader, raised, link>>

FinishDelivery(r) ==
  /\ link \in {"open", "closing", "closed"} /\ response[r] \in {"sent", "failed"}
  /\ pending' = pending \ {r}
  /\ permits' = IF r \in pending THEN permits + 1 ELSE permits
  /\ IF r \in pending /\ response[r] = "sent" THEN Schedule ELSE UNCHANGED refresher
  /\ response' = [response EXCEPT ![r] = "finished"]
  /\ noticed' = noticed \ {r} /\ token' = token \ {r}
  /\ UNCHANGED <<call, queue, reader, raised, link>>

(* The signal is taken before the run, so that one that comes during the   *)
(* run is kept for another.                                                *)
StartRefresh ==
  /\ thread = "idle" /\ signal
  /\ signal' = FALSE
  /\ IF stop THEN thread' = "ended" /\ UNCHANGED due
             ELSE thread' = "running" /\ due' = FALSE
  /\ UNCHANGED <<handlers, cancels, pending, response, link, stop, panics>>

\* A mutant: the channel is drained after a run.
EndRefreshDrains ==
  /\ thread = "running"
  /\ thread' = "idle" /\ signal' = FALSE
  /\ UNCHANGED <<handlers, cancels, pending, response, link, stop, panics, due>>

EndRefresh ==
  /\ thread = "running"
  /\ thread' = "idle"
  /\ UNCHANGED <<handlers, cancels, pending, response, link, signal, stop, panics, due>>

PanicRefresh ==
  /\ thread = "running" /\ panics < MaxPanics
  /\ panics' = panics + 1
  /\ thread' = "unwinding"
  /\ signal' = FALSE
  /\ UNCHANGED <<handlers, cancels, pending, response, link, stop, due>>

EndThread ==
  /\ \/ thread = "unwinding"
     \/ thread = "idle" /\ ~signal /\ link = "dropped"
  /\ thread' = "ended"
  /\ UNCHANGED <<handlers, cancels, pending, response, link, signal, stop, panics, due>>

-----------------------------------------------------------------------------
(* The end of the connection                                               *)

Close ==
  /\ link = "open"
  /\ link' = "closing"
  /\ token' = token \cup {r \in Requests : call[r] # "unsent"}
  /\ UNCHANGED <<handlers, noticed, raised, pending, response, refresher>>

\* A mutant: the handler is dropped without its guard.
DropHandlerUnguarded(r) ==
  /\ link # "open" /\ call[r] \in {"waiting", "reading", "cancelling"}
  /\ call' = [call EXCEPT ![r] = "ended"]
  /\ queue' = Without(r)
  /\ IF Returned(r)
     THEN reader' = [reader EXCEPT ![r] = "none"] /\ permits' = permits + 1
     ELSE UNCHANGED <<reader, permits>>
  /\ UNCHANGED <<cancels, pending, response, link, refresher>>

(* A handler that is dropped leaves its task to stop by itself.            *)
DropHandler(r) ==
  /\ link # "open" /\ call[r] \in {"waiting", "reading", "cancelling"}
  /\ call' = [call EXCEPT ![r] = "ended"]
  /\ queue' = Without(r)
  /\ raised' = raised \cup ({r} \cap Busy)
  /\ IF Returned(r)
     THEN reader' = [reader EXCEPT ![r] = "none"] /\ permits' = permits + 1
     ELSE UNCHANGED <<reader, permits>>
  /\ UNCHANGED <<noticed, token, pending, response, link, refresher>>

CancelAll ==
  /\ link = "closing"
  /\ link' = "closed"
  /\ pending' = {}
  /\ permits' = permits + Cardinality(pending)
  /\ UNCHANGED <<call, queue, reader, cancels, response, refresher>>

(* The state goes with its last owner, handler or task, and the refresh    *)
(* thread is told to stop and joined.                                      *)
DropServer ==
  /\ link = "closed"
  /\ \A r \in Requests : call[r] \in {"unsent", "ended"} /\ reader[r] = "none"
  /\ link' = "dropped"
  /\ stop' = TRUE
  /\ UNCHANGED <<handlers, cancels, pending, response, signal, thread, panics, due>>

Join ==
  /\ link = "dropped" /\ thread \in {"none", "ended"}
  /\ link' = "stopped"
  /\ UNCHANGED <<handlers, cancels, pending, response, refresher>>

-----------------------------------------------------------------------------
(* on_initialized has scheduled the first refresh.                         *)
Init ==
  /\ call = [r \in Requests |-> "unsent"] /\ queue = <<>> /\ permits = Bound
  /\ reader = [r \in Requests |-> "none"]
  /\ noticed = {} /\ token = {} /\ raised = {} /\ pending = {}
  /\ response = [r \in Requests |-> "none"] /\ link = "open"
  /\ thread = "idle" /\ signal = TRUE /\ stop = FALSE /\ panics = 0 /\ due = FALSE

Handle(r) ==
  \/ Admit(r) \/ GiveUp(r) \/ Complete(r) \/ Interrupt(r) \/ EndCancelled(r)
  \/ DropHandler(r)

Deliver(r) == Send(r) \/ FinishDelivery(r)

Refresh == StartRefresh \/ EndRefresh \/ PanicRefresh \/ EndThread

Stopping == CancelAll \/ DropServer \/ Join

Next ==
  \/ \E r \in Requests : Receive(r) \/ CancelNotice(r) \/ CancelToken(r)
                         \/ Handle(r) \/ Read(r) \/ Deliver(r)
  \/ Refresh \/ Close \/ Stopping

Spec == Init /\ [][Next]_vars

(* Handlers, tasks and the thread run, a refresh ends, a read ends when it *)
(* is told to, and the client takes what is sent; what the client does     *)
(* else is up to it.                                                       *)
FairSpec ==
  /\ Spec
  /\ \A r \in Requests : /\ WF_vars(Handle(r)) /\ WF_vars(Read(r)) /\ WF_vars(Deliver(r))
                         /\ WF_vars(CancelToken(r))
  /\ WF_vars(Refresh) /\ WF_vars(Stopping)

-----------------------------------------------------------------------------
(* No permit is lost or freed twice, whichever of delivery, failure,       *)
(* cancellation, dropped handler or close gets to it first.                *)
PermitsAccounted ==
  permits + Cardinality({r \in Requests : reader[r] # "none"}) + Cardinality(pending) = Bound

(* While the connection is open, every call that is received is answered   *)
(* and the answer is delivered or fails, unless endless reads hold the     *)
(* permits: registrations that wait for their delivery, cancelled waiters  *)
(* and stopped reads never starve admission.                               *)
EveryCallEnds ==
  \A r \in Requests :
    call[r] # "unsent" ~>
      \/ response[r] = "finished" \/ link # "open"
      \/ \E q \in Endless \cap Busy : q \notin noticed \cup token

(* What a delivered answer asks for is followed by a refresh that starts   *)
(* after it, however many ask at once and whatever is running, unless a    *)
(* refresh has panicked and the thread awaits the next call.               *)
DeliveredIsRefreshed == due ~> (~due \/ link # "open" \/ thread = "ended")

(* A connection that closes ends the server, with reads and a refresh      *)
(* under way.                                                              *)
ServerStops == link = "closing" ~> link = "stopped"
=============================================================================
