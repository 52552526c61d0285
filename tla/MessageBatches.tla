---------------------------- MODULE MessageBatches ----------------------------
(***************************************************************************)
(* message_search_batches.rs: an exhaustive search whose batches a         *)
(* producer thread reads from one snapshot of the index and hands over     *)
(* through a channel without a buffer, and the Python object               *)
(* (ai-session-search-python, NativeMessageSearchBatches) through which    *)
(* several threads ask for batches, close the search and read its          *)
(* completion.                                                             *)
(*                                                                         *)
(* A refresh may commit at any time; each commit makes a new generation of *)
(* the matches, of which only their number counts.  Text, context windows  *)
(* and included metadata go with the rows of their batch.  The interrupt   *)
(* that close sends to SQLite is one with the flag SQLite polls: it may    *)
(* end a read early, and does not have to.  Dropping the object is close   *)
(* with its error ignored.                                                 *)
(***************************************************************************)
EXTENDS Naturals, Sequences

CONSTANTS
  Threads,      \* Python threads that share the object
  Sizes,        \* Sizes[g]: the matches of generation g of the index
  BatchRows,    \* batch_rows
  MaxCalls,     \* bound: calls of next, close and completion
  MaxFaults,    \* bound: failed reads, rollbacks and projections, and panics
  Free          \* a lock nobody holds

ASSUME BatchesAssumption ==
  /\ Sizes \in Seq(Nat) /\ Len(Sizes) > 0
  /\ BatchRows \in Nat \ {0}
  /\ MaxCalls \in Nat /\ MaxFaults \in Nat
  /\ Free \notin Threads

VARIABLES
  index,      \* the generation that is committed
  \* the producer
  producer,   \* where it is, or "ok", "error" or "panic" when it has ended
  snapshot,   \* the generation its read transaction sees, 0 if it sees none
  visited,    \* rows it has stepped through
  batch,      \* those not handed over yet
  offer,      \* what it blocks on handing over: "batch", "complete", "failed"
  fault,      \* what has gone wrong: "none", "cancelled", "query", "cleanup", "panic"
  \* MessageSearchBatches
  state,      \* "opening", "unopened", "open", "exhausted", "closed", "failed"
  start,      \* it holds the sender of the start signal
  events,     \* it holds the receiver of batches
  worker,     \* it holds the handle of the producer
  cancelled,  \* the flag it shares with the producer
  \* the Python threads
  pc, got,    \* where a thread is in its call, and what the call will return
  mutex, gil, \* who holds the object's lock and the interpreter
  calls, faults,
  \* history
  delivered,  \* the rows handed over
  told        \* whether a call has reported that the producer failed

reading == <<snapshot, visited, batch>>
ends == <<start, events, worker, cancelled>>
threads == <<pc, got, mutex, gil, calls>>
history == <<delivered, told>>
batchesVars == <<index, producer, reading, offer, fault, state, ends, threads, faults, history>>

Generations == DOMAIN Sizes
Row(g, i) == [of |-> g, at |-> i]
Ended == {"ok", "error", "panic"}
Terminal == {"exhausted", "closed", "failed"}

-----------------------------------------------------------------------------
(* The index                                                               *)

Commit ==
  /\ index < Len(Sizes)
  /\ index' = index + 1
  /\ UNCHANGED <<producer, reading, offer, fault, state, ends, threads, faults, history>>

-----------------------------------------------------------------------------
(* The producer                                                            *)

theirs == <<index, state, ends, threads, history>>

\* A transaction begun as deferred sees the index as of its first read: planning reads it only
\* to resolve a session.
Ready ==
  /\ producer = "open"
  /\ producer' = "wait" /\ state' = "open"
  /\ snapshot' \in {0, index}
  /\ UNCHANGED <<index, visited, batch, offer, fault, ends, threads, faults, history>>

\* spawn joins a producer that does not get ready and returns its error.
StartupFails ==
  /\ producer = "open" /\ faults < MaxFaults
  /\ faults' = faults + 1
  /\ producer' = "ok" /\ state' = "unopened"
  /\ worker' = FALSE
  /\ UNCHANGED <<index, reading, offer, fault, start, events, cancelled, threads, history>>

\* The owner dropped its end of the start channel.
NeverStarted ==
  /\ producer = "wait" /\ ~start
  /\ producer' = "rollback" /\ fault' = "cancelled"
  /\ UNCHANGED <<theirs, reading, offer, faults>>

FirstRead ==
  /\ producer = "prepare"
  /\ snapshot' = IF snapshot = 0 THEN index ELSE snapshot
  /\ producer' = "rows"
  /\ UNCHANGED <<theirs, visited, batch, offer, fault, faults>>

\* A mutant: every step reads what is committed then, outside a transaction.
NextRowUnpinned ==
  /\ producer = "rows"
  /\ visited < Sizes[index] /\ Len(batch) < BatchRows
  /\ visited' = visited + 1
  /\ batch' = Append(batch, Row(index, visited + 1))
  /\ UNCHANGED <<theirs, producer, snapshot, offer, fault, faults>>

NextRow ==
  /\ producer = "rows"
  /\ visited < Sizes[snapshot] /\ Len(batch) < BatchRows
  /\ visited' = visited + 1
  /\ batch' = Append(batch, Row(snapshot, visited + 1))
  /\ UNCHANGED <<theirs, producer, snapshot, offer, fault, faults>>

\* SQLite polls the flag while it steps, and the visitor before and after it enriches a batch.
Interrupted ==
  /\ producer = "rows" /\ cancelled
  /\ producer' = "rollback" /\ fault' = "cancelled"
  /\ UNCHANGED <<theirs, reading, offer, faults>>

QueryFails ==
  /\ producer = "rows" /\ faults < MaxFaults
  /\ faults' = faults + 1
  /\ producer' = "rollback" /\ fault' = "query"
  /\ UNCHANGED <<theirs, reading, offer>>

\* Guards roll the transaction back while the stack unwinds.
Panic ==
  /\ producer = "rows" /\ faults < MaxFaults
  /\ faults' = faults + 1
  /\ producer' = "panic" /\ fault' = "panic"
  /\ snapshot' = 0
  /\ UNCHANGED <<theirs, visited, batch, offer>>

Drained == visited = Sizes[snapshot]

OfferBatch ==
  /\ producer = "rows" /\ ~cancelled
  /\ Len(batch) = BatchRows \/ (Drained /\ batch # << >>)
  /\ producer' = "offer" /\ offer' = "batch"
  /\ UNCHANGED <<theirs, reading, fault, faults>>

\* Completion is for a search nobody has cancelled.
OfferCompletion ==
  /\ producer = "rows" /\ Drained /\ batch = << >>
  /\ IF cancelled THEN producer' = "rollback" /\ UNCHANGED offer
                  ELSE producer' = "offer" /\ offer' = "complete"
  /\ UNCHANGED <<theirs, reading, fault, faults>>

\* The receiver is gone: the batch stops the traversal, the completion is dropped, and a failure
\* is left to whoever joins the thread.
SendFails ==
  /\ producer = "offer" /\ ~events
  /\ producer' = IF offer = "failed" THEN "error" ELSE "rollback"
  /\ UNCHANGED <<theirs, reading, offer, fault, faults>>

\* A mutant: whatever fails after a cancellation is taken for its effect.
ExpectedOnceCancelled(f) == cancelled

\* is_expected_message_search_cancellation, of a producer that has been cancelled.
Expected(f) == cancelled /\ f = "cancelled"

Conclude(f) ==
  IF f = "none" \/ Expected(f)
  THEN producer' = "ok" /\ UNCHANGED offer
  ELSE producer' = "offer" /\ offer' = "failed"

RolledBack ==
  /\ producer = "rollback"
  /\ snapshot' = 0
  /\ Conclude(fault)
  /\ UNCHANGED <<theirs, visited, batch, fault, faults>>

\* ReadSnapshotCleanupError hides what the search itself ended with; the connection, and the
\* transaction with it, is closed before the error is sent.
RollbackFails ==
  /\ producer = "rollback" /\ faults < MaxFaults
  /\ faults' = faults + 1
  /\ snapshot' = 0
  /\ fault' = "cleanup"
  /\ Conclude("cleanup")
  /\ UNCHANGED <<theirs, visited, batch>>

-----------------------------------------------------------------------------
(* The calls of the Python threads                                         *)

producers == <<index, producer, reading, offer, fault, faults>>

Go(t, to) == pc' = [pc EXCEPT ![t] = to]
Return(t, result) == Go(t, "unlock") /\ got' = [got EXCEPT ![t] = result]

\* next and close release the interpreter before they wait for the lock.
Call(t, body) ==
  /\ pc[t] = "idle" /\ gil = Free /\ state \notin {"opening", "unopened"}
  /\ calls < MaxCalls
  /\ calls' = calls + 1
  /\ Go(t, IF body = "next" THEN "lock next" ELSE "lock close")
  /\ UNCHANGED <<producers, state, ends, got, mutex, gil, history>>

Lock(t) ==
  /\ pc[t] \in {"lock next", "lock close"} /\ mutex = Free
  /\ mutex' = t
  /\ Go(t, IF pc[t] = "lock next" THEN "next" ELSE "close")
  /\ UNCHANGED <<producers, state, ends, got, gil, calls, history>>

Unlock(t) ==
  /\ pc[t] = "unlock"
  /\ mutex' = Free
  /\ Go(t, "regain")
  /\ UNCHANGED <<producers, state, ends, got, gil, calls, history>>

\* Back in the interpreter the thread turns a batch into Python objects.
Regain(t) ==
  /\ pc[t] = "regain" /\ gil = Free
  /\ Go(t, "idle")
  /\ got' = [got EXCEPT ![t] = "none"]
  /\ UNCHANGED <<producers, state, ends, mutex, gil, calls, history>>

\* A projection that fails closes the search.
ProjectionFails(t) ==
  /\ pc[t] = "regain" /\ gil = Free
  /\ got[t] = "batch" /\ faults < MaxFaults
  /\ faults' = faults + 1
  /\ Go(t, "lock close")
  /\ got' = [got EXCEPT ![t] = "none"]
  /\ UNCHANGED <<index, producer, reading, offer, fault, state, ends, mutex, gil, calls, history>>

\* The getter waits for the lock with the interpreter in its hands.
CallCompletion(t) ==
  /\ pc[t] = "idle" /\ gil = Free /\ state \notin {"opening", "unopened"}
  /\ calls < MaxCalls
  /\ calls' = calls + 1
  /\ gil' = t
  /\ Go(t, "getter")
  /\ UNCHANGED <<producers, state, ends, got, mutex, history>>

Completion(t) ==
  /\ pc[t] = "getter" /\ mutex = Free
  /\ gil' = Free
  /\ Go(t, "idle")
  /\ UNCHANGED <<producers, state, ends, got, mutex, calls, history>>

-----------------------------------------------------------------------------
(* next_batch                                                              *)

held == <<mutex, gil, calls>>

NextBatch(t) ==
  /\ pc[t] = "next"
  /\ \/ state = "exhausted" /\ Return(t, "end")
     \/ state \in {"closed", "failed"} /\ Return(t, "error")
     \/ state = "open" /\ start /\ Go(t, "start") /\ UNCHANGED got
     \/ state = "open" /\ ~start /\ events /\ Go(t, "receive") /\ UNCHANGED got
     \/ state = "open" /\ ~start /\ ~events /\ Return(t, "error")
  /\ UNCHANGED <<producers, state, ends, held, history>>

\* The start signal meets the waiting producer.
Start(t) ==
  /\ pc[t] = "start" /\ producer = "wait"
  /\ start' = FALSE
  /\ producer' = "prepare"
  /\ Go(t, "receive")
  /\ UNCHANGED <<index, reading, offer, fault, faults, state, events, worker, cancelled,
                 got, held, history>>

ReceiveBatch(t) ==
  /\ pc[t] = "receive" /\ producer = "offer" /\ offer = "batch"
  /\ delivered' = delivered \o batch
  /\ batch' = << >>
  /\ producer' = "rows"
  /\ Return(t, "batch")
  /\ UNCHANGED <<index, snapshot, visited, offer, fault, faults, state, ends, held, told>>

\* A mutant: the end of the search is returned before the producer has ended.
ReceiveEndUnjoined(t) ==
  /\ pc[t] = "receive" /\ producer = "offer" /\ offer = "complete"
  /\ state' = "exhausted"
  /\ events' = FALSE
  /\ producer' = "rollback"
  /\ Return(t, "end")
  /\ UNCHANGED <<index, reading, offer, fault, faults, start, worker, cancelled, held, history>>

ReceiveCompletion(t) ==
  /\ pc[t] = "receive" /\ producer = "offer" /\ offer = "complete"
  /\ state' = "exhausted"
  /\ events' = FALSE
  /\ producer' = "rollback"
  /\ Go(t, "join")
  /\ UNCHANGED <<index, reading, offer, fault, faults, start, worker, cancelled, got, held, history>>

ReceiveFailure(t) ==
  /\ pc[t] = "receive" /\ producer = "offer" /\ offer = "failed"
  /\ state' = "failed"
  /\ events' = FALSE
  /\ producer' = "error"
  /\ Go(t, "join")
  /\ UNCHANGED <<index, reading, offer, fault, faults, start, worker, cancelled, got, held, history>>

\* The producer has ended without a word.
ReceiveNothing(t) ==
  /\ pc[t] = "receive" /\ producer \in Ended
  /\ events' = FALSE
  /\ Go(t, "join")
  /\ UNCHANGED <<producers, state, start, worker, cancelled, got, held, history>>

\* What the producer failed with, if it did, is an error of the call that joins it.
JoinWorker(t) ==
  /\ pc[t] = "join" /\ producer \in Ended
  /\ worker' = FALSE
  /\ IF producer = "ok" /\ state = "exhausted"
     THEN Return(t, "end") /\ UNCHANGED <<state, told>>
     ELSE /\ Return(t, "error")
          /\ told' = (told \/ producer # "ok")
          /\ state' = IF producer = "panic" THEN state ELSE "failed"
  /\ UNCHANGED <<producers, start, events, cancelled, held, delivered>>

-----------------------------------------------------------------------------
(* close                                                                   *)

CloseSearch(t) ==
  /\ pc[t] = "close"
  /\ IF state \in {"closed", "exhausted"}
     THEN Return(t, "end") /\ UNCHANGED cancelled
     ELSE cancelled' = TRUE /\ Go(t, "drop start") /\ UNCHANGED got
  /\ UNCHANGED <<producers, state, start, events, worker, held, history>>

DropStart(t) ==
  /\ pc[t] = "drop start"
  /\ start' = FALSE
  /\ Go(t, "drop events")
  /\ UNCHANGED <<producers, state, events, worker, cancelled, got, held, history>>

\* A mutant: the receiver is kept until the producer is joined.
DropEventsLater(t) ==
  /\ pc[t] = "drop events"
  /\ Go(t, "join closed")
  /\ UNCHANGED <<producers, state, start, events, worker, cancelled, got, held, history>>

DropEvents(t) ==
  /\ pc[t] = "drop events"
  /\ events' = FALSE
  /\ Go(t, "join closed")
  /\ UNCHANGED <<producers, state, start, worker, cancelled, got, held, history>>

\* The error of a producer that panicked returns before the state is set.
JoinClosed(t) ==
  /\ pc[t] = "join closed" /\ producer \in Ended
  /\ worker' = FALSE
  /\ IF worker /\ producer # "ok"
     THEN /\ Return(t, "error")
          /\ told' = TRUE
          /\ state' = IF producer = "panic" THEN state ELSE "closed"
     ELSE Return(t, "end") /\ state' = "closed" /\ UNCHANGED told
  /\ UNCHANGED <<producers, start, events, cancelled, held, delivered>>

-----------------------------------------------------------------------------
BatchesInit ==
  /\ index = 1
  /\ producer = "open" /\ snapshot = 0 /\ visited = 0 /\ batch = << >>
  /\ offer = "batch" /\ fault = "none"
  /\ state = "opening" /\ start = TRUE /\ events = TRUE /\ worker = TRUE
  /\ cancelled = FALSE
  /\ pc = [t \in Threads |-> "idle"] /\ got = [t \in Threads |-> "none"]
  /\ mutex = Free /\ gil = Free /\ calls = 0 /\ faults = 0
  /\ delivered = << >> /\ told = FALSE

Producer ==
  \/ Ready \/ StartupFails \/ NeverStarted
  \/ FirstRead \/ NextRow \/ Interrupted \/ QueryFails \/ Panic
  \/ OfferBatch \/ OfferCompletion \/ SendFails \/ RolledBack \/ RollbackFails

Body(t) ==
  \/ Lock(t) \/ Unlock(t) \/ Regain(t) \/ ProjectionFails(t) \/ Completion(t)
  \/ NextBatch(t) \/ Start(t) \/ ReceiveBatch(t) \/ ReceiveCompletion(t)
  \/ ReceiveFailure(t) \/ ReceiveNothing(t) \/ JoinWorker(t)
  \/ CloseSearch(t) \/ DropStart(t) \/ DropEvents(t) \/ JoinClosed(t)

BatchesNext ==
  \/ Commit \/ Producer
  \/ \E t \in Threads :
       Call(t, "next") \/ Call(t, "close") \/ CallCompletion(t) \/ Body(t)

BatchesSpec == BatchesInit /\ [][BatchesNext]_batchesVars

\* Threads run, a read ends, and a lock that is free is taken: with MaxCalls calls in all nobody
\* can be overtaken for ever.
BatchesFairSpec == BatchesSpec /\ WF_batchesVars(Producer) /\ \A t \in Threads : WF_batchesVars(Body(t))

-----------------------------------------------------------------------------
\* The object as a thread finds it that takes the lock.
Quiet == mutex = Free

(* Batches are the matches of one generation of the index, each once and   *)
(* in order, whatever is committed meanwhile and however many threads take *)
(* them; a search that is exhausted has handed over all of them.           *)
OneSnapshot ==
  \E g \in Generations :
    /\ Len(delivered) <= Sizes[g]
    /\ \A i \in DOMAIN delivered : delivered[i] = Row(g, i)
    /\ Quiet /\ state = "exhausted" => Len(delivered) = Sizes[g]

(* Once the search is exhausted, closed or has failed, its thread has      *)
(* ended and pins no snapshot of the index.                                *)
ProducerReleased ==
  Quiet /\ state \in Terminal => producer \in Ended /\ snapshot = 0

(* What the producer failed with is reported by a call, also when close    *)
(* races it, and a cancellation is never reported as a failure.            *)
FailureReported ==
  Quiet /\ state \in Terminal =>
    (told <=> fault \in {"query", "cleanup", "panic"})

(* Every call returns: no order of next, close and completion, cancelled   *)
(* or failed, leaves two threads waiting for each other's lock, or one for *)
(* a producer that waits for it.                                           *)
CallsReturn == \A t \in Threads : pc[t] # "idle" ~> pc[t] = "idle"
=============================================================================
