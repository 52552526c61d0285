----------------------------- MODULE CallsProof -----------------------------
(***************************************************************************)
(* What those who call from outside are promised: the clients of the MCP   *)
(* server, and the Python threads that read a search in batches.           *)
(*                                                                         *)
(* For any finite set of calls and any number of permits, endless reads    *)
(* and panics: no permit is lost or freed twice.  For every number of      *)
(* changes of the client's roots and of failures, and whichever roots do   *)
(* not resolve: the types of the roots handshake, that one handler at a    *)
(* time asks, that no answer older than a handled notification is put in   *)
(* place, and that the shared application has the roots in place.          *)
(*                                                                         *)
(* For any number of Python threads, any growth of the index, any size of  *)
(* the batches and any number of calls and faults: batches are those of    *)
(* one snapshot, a search that has ended has released its producer, and    *)
(* what the producer failed with has been reported.                        *)
(***************************************************************************)
EXTENDS McpCalls, McpRoots, MessageBatches, TLAPS, FiniteSetTheorems, SequenceTheorems

-----------------------------------------------------------------------------
(* Calls and permits *)

Held == {r \in Requests : reader[r] # "none"}

CallsTypes ==
  /\ call \in [Requests -> {"unsent", "waiting", "reading", "cancelling", "ended"}]
  /\ reader \in [Requests -> {"none", "busy", "refresh", "plain"}]
  /\ pending \subseteq Requests
  /\ permits \in Nat

\* A call has a task only once it is admitted.
TasksAreAdmitted == \A r \in Requests : call[r] \in {"unsent", "waiting"} => reader[r] = "none"

\* A registration is made by the handler's last step.
RegistrationsAreEnded == \A r \in pending : call[r] = "ended"

\* The invariant of the calls: who holds a permit, and that none is missing.
CallsInv == CallsTypes /\ TasksAreAdmitted /\ RegistrationsAreEnded /\ PermitsAccounted

-----------------------------------------------------------------------------
LEMMA Added ==
  ASSUME NEW S, IsFiniteSet(S), NEW x, x \notin S
  PROVE  Cardinality(S \cup {x}) = Cardinality(S) + 1
  BY FS_AddElement

LEMMA Removed ==
  ASSUME NEW S, IsFiniteSet(S), NEW x \in S
  PROVE  Cardinality(S \ {x}) = Cardinality(S) - 1
  BY FS_RemoveElement

LEMMA Finite ==
  ASSUME CallsTypes
  PROVE  /\ IsFiniteSet(Held) /\ IsFiniteSet(pending)
         /\ Cardinality(Held) \in Nat /\ Cardinality(pending) \in Nat
<1>1. IsFiniteSet(Requests)
  BY CallsAssumption DEF CallsAssumption
<1>2. Held \subseteq Requests /\ pending \subseteq Requests
  BY DEF Held, CallsTypes
<1>3. IsFiniteSet(Held) /\ IsFiniteSet(pending)
  BY <1>1, <1>2, FS_Subset
<1> QED BY <1>3, FS_CardinalityType

LEMMA Sum == PermitsAccounted <=> permits + Cardinality(Held) + Cardinality(pending) = Bound
  BY DEF PermitsAccounted, Held

LEMMA SumThen ==
  PermitsAccounted' <=> permits' + Cardinality(Held') + Cardinality(pending') = Bound
  BY DEF PermitsAccounted, Held

LEMMA BoundType == Bound \in Nat
  BY CallsAssumption DEF CallsAssumption

(* A permit changes hands: from the semaphore to a task, back from a task, *)
(* from a task to a registration, and back from a registration.            *)
LEMMA Acquired ==
  ASSUME CallsInv, NEW r \in Requests, r \notin Held, Held' = Held \cup {r},
         permits' = permits - 1, pending' = pending
  PROVE  PermitsAccounted'
<1>1. Cardinality(Held') = Cardinality(Held) + 1
  BY Added, Finite DEF CallsInv
<1> QED BY <1>1, Finite, Sum, SumThen, BoundType DEF CallsInv, CallsTypes

LEMMA Released ==
  ASSUME CallsInv, NEW r \in Held, Held' = Held \ {r}, permits' = permits + 1, pending' = pending
  PROVE  PermitsAccounted'
<1>1. Cardinality(Held') = Cardinality(Held) - 1
  BY Removed, Finite DEF CallsInv
<1> QED BY <1>1, Finite, Sum, SumThen, BoundType DEF CallsInv, CallsTypes

LEMMA Registered ==
  ASSUME CallsInv, NEW r \in Held, r \notin pending, Held' = Held \ {r},
         pending' = pending \cup {r}, permits' = permits
  PROVE  PermitsAccounted'
<1>1. Cardinality(Held') = Cardinality(Held) - 1
  BY Removed, Finite DEF CallsInv
<1>2. Cardinality(pending') = Cardinality(pending) + 1
  BY Added, Finite DEF CallsInv
<1> QED BY <1>1, <1>2, Finite, Sum, SumThen, BoundType DEF CallsInv, CallsTypes

LEMMA Withdrawn ==
  ASSUME CallsInv, NEW r, Held' = Held, pending' = pending \ {r},
         permits' = IF r \in pending THEN permits + 1 ELSE permits
  PROVE  PermitsAccounted'
<1>1. CASE r \in pending
  <2>1. Cardinality(pending') = Cardinality(pending) - 1
    BY <1>1, Removed, Finite DEF CallsInv
  <2> QED BY <1>1, <2>1, Finite, Sum, SumThen, BoundType DEF CallsInv, CallsTypes
<1>2. CASE r \notin pending
  BY <1>2, Finite, Sum, SumThen DEF CallsInv, CallsTypes
<1> QED BY <1>1, <1>2

LEMMA Kept ==
  ASSUME CallsInv, Held' = Held, pending' = pending, permits' = permits PROVE PermitsAccounted'
  BY Sum, SumThen DEF CallsInv

-----------------------------------------------------------------------------
(* The other parts *)

LEMMA HandleRest ==
  ASSUME CallsInv, NEW r \in Requests, Handle(r) \/ Read(r)
  PROVE  CallsTypes' /\ TasksAreAdmitted' /\ RegistrationsAreEnded'
<1>1. CASE Admit(r)
  BY <1>1
     DEF Admit, cancels, refresher, CallsInv, CallsTypes, TasksAreAdmitted, RegistrationsAreEnded
<1>2. CASE GiveUp(r)
  BY <1>2
     DEF GiveUp, cancels, refresher, CallsInv, CallsTypes, TasksAreAdmitted, RegistrationsAreEnded
<1>3. CASE Complete(r)
  BY <1>3
     DEF Complete, cancels, refresher, CallsInv, CallsTypes, TasksAreAdmitted, RegistrationsAreEnded
<1>4. CASE Interrupt(r)
  BY <1>4
     DEF Interrupt, cancels, refresher, CallsInv, CallsTypes, TasksAreAdmitted,
     RegistrationsAreEnded
<1>5. CASE EndCancelled(r)
  BY <1>5 DEF EndCancelled, cancels, refresher, CallsInv, CallsTypes, TasksAreAdmitted,
              RegistrationsAreEnded
<1>6. CASE DropHandler(r)
  BY <1>6 DEF DropHandler, cancels, refresher, CallsInv, CallsTypes, TasksAreAdmitted,
              RegistrationsAreEnded
<1>7. CASE Read(r)
  <2>1. reader[r] = "busy" /\ call' = call /\ pending' = pending /\ permits' \in Nat
    BY <1>7 DEF Read, CallsInv, CallsTypes
  <2>2. \E o \in {"none", "plain", "refresh"} : reader' = [reader EXCEPT ![r] = o]
    BY <1>7 DEF Read
  <2> QED BY <2>1, <2>2 DEF CallsInv, CallsTypes, TasksAreAdmitted, RegistrationsAreEnded
<1> QED BY <1>1, <1>2, <1>3, <1>4, <1>5, <1>6, <1>7 DEF Handle

LEMMA HandleSums ==
  ASSUME CallsInv, NEW r \in Requests, Handle(r) \/ Read(r) PROVE PermitsAccounted'
<1>1. CASE Admit(r)
  <2>1. r \notin Held
    BY <1>1 DEF Held, Admit, CallsInv, TasksAreAdmitted
  <2>2. Held' = Held \cup {r} /\ permits' = permits - 1 /\ pending' = pending
    BY <1>1 DEF Held, Admit, CallsInv, CallsTypes
  <2> QED BY <2>1, <2>2, Acquired
<1>2. CASE GiveUp(r) \/ Interrupt(r)
  BY <1>2, Kept DEF GiveUp, Interrupt, Held
<1>3. ASSUME r \in Held, reader' = [reader EXCEPT ![r] = "none"] PROVE Held' = Held \ {r}
  BY <1>3 DEF Held, CallsInv, CallsTypes
<1>4. Returned(r) => r \in Held
  BY DEF Returned, Held
<1>5. CASE Complete(r)
  <2>1. r \notin pending
    BY <1>5 DEF Complete, CallsInv, RegistrationsAreEnded
  <2> QED BY <1>3, <1>4, <1>5, <2>1, Registered, Released DEF Complete
<1>6. CASE EndCancelled(r)
  BY <1>3, <1>4, <1>6, Released DEF EndCancelled
<1>7. CASE DropHandler(r)
  <2>1. CASE Returned(r)
    BY <1>3, <1>4, <1>7, <2>1, Released DEF DropHandler
  <2>2. CASE ~Returned(r)
    BY <1>7, <2>2, Kept DEF DropHandler, Held
  <2> QED BY <2>1, <2>2
<1>8. CASE Read(r)
  <2>1. r \in Held
    BY <1>8 DEF Read, Held
  <2>2. CASE call[r] = "ended"
    BY <1>3, <1>8, <2>1, <2>2, Released DEF Read
  <2>3. CASE call[r] # "ended"
    <3>1. PICK o \in {"plain", "refresh"} : reader' = [reader EXCEPT ![r] = o]
      BY <1>8, <2>3 DEF Read
    <3>2. Held' = Held
      BY <2>1, <3>1 DEF Held, CallsInv, CallsTypes
    <3> QED BY <1>8, <2>3, <3>2, Kept DEF Read
  <2> QED BY <2>2, <2>3
<1> QED BY <1>1, <1>2, <1>5, <1>6, <1>7, <1>8 DEF Handle

LEMMA WithdrawalKeeps ==
  ASSUME CallsInv, NEW r \in Requests, CancelNotice(r) \/ FinishDelivery(r) PROVE CallsInv'
<1>1. /\ pending' = pending \ {r} /\ permits' = (IF r \in pending THEN permits + 1 ELSE permits)
      /\ call' = call /\ reader' = reader
  BY DEF CancelNotice, FinishDelivery
<1>2. Held' = Held
  BY <1>1 DEF Held
<1>3. PermitsAccounted'
  BY <1>1, <1>2, Withdrawn
<1>4. CallsTypes' /\ TasksAreAdmitted' /\ RegistrationsAreEnded'
  BY <1>1 DEF CallsInv, CallsTypes, TasksAreAdmitted, RegistrationsAreEnded
<1> QED BY <1>3, <1>4 DEF CallsInv

LEMMA CloseKeeps == ASSUME CallsInv, CancelAll PROVE CallsInv'
<1>1. pending' = {} /\ permits' = permits + Cardinality(pending) /\ call' = call /\ reader' = reader
  BY DEF CancelAll
<1>2. Held' = Held /\ Cardinality(pending') = 0 /\ permits' \in Nat
  BY <1>1, Finite, FS_EmptySet DEF Held, CallsInv, CallsTypes
<1>3. PermitsAccounted'
  BY <1>1, <1>2, Finite, Sum, SumThen, BoundType DEF CallsInv, CallsTypes
<1>4. CallsTypes' /\ TasksAreAdmitted' /\ RegistrationsAreEnded'
  BY <1>1, <1>2 DEF CallsInv, CallsTypes, TasksAreAdmitted, RegistrationsAreEnded
<1> QED BY <1>3, <1>4 DEF CallsInv

LEMMA ReceiveKeeps == ASSUME CallsInv, NEW r \in Requests, Receive(r) PROVE CallsInv'
<1>1. Held' = Held /\ pending' = pending /\ permits' = permits
  BY DEF Receive, Held
<1>2. CallsTypes' /\ TasksAreAdmitted' /\ RegistrationsAreEnded'
  BY DEF Receive, CallsInv, CallsTypes, TasksAreAdmitted, RegistrationsAreEnded
<1> QED BY <1>1, <1>2, Kept DEF CallsInv

LEMMA OthersKeep ==
  ASSUME CallsInv, UNCHANGED <<call, reader, permits, pending>> PROVE CallsInv'
<1>1. CallsTypes' /\ TasksAreAdmitted' /\ RegistrationsAreEnded'
  BY DEF CallsInv, CallsTypes, TasksAreAdmitted, RegistrationsAreEnded
<1> QED BY <1>1, Kept DEF CallsInv, Held

(* Every permit of the admission semaphore is free, with a blocking task   *)
(* or its result, or with a registration, however delivery, failure,       *)
(* cancellation, dropped handlers and the close of the connection race.    *)
THEOREM EveryPermit == Spec => []PermitsAccounted
<1>1. Init => CallsInv
  <2> SUFFICES ASSUME Init PROVE CallsInv
    OBVIOUS
  <2>1. CallsTypes /\ TasksAreAdmitted /\ RegistrationsAreEnded
    BY BoundType DEF Init, CallsTypes, TasksAreAdmitted, RegistrationsAreEnded
  <2>2. Held = {} /\ pending = {} /\ permits = Bound
    BY DEF Init, Held
  <2> QED BY <2>1, <2>2, Sum, FS_EmptySet, BoundType DEF CallsInv
<1>2. CallsInv /\ [Next]_vars => CallsInv'
  <2> SUFFICES ASSUME CallsInv, [Next]_vars PROVE CallsInv'
    OBVIOUS
  <2>1. CASE UNCHANGED vars
    BY <2>1, OthersKeep DEF vars, handlers
  <2>2. ASSUME NEW r \in Requests, Handle(r) \/ Read(r) PROVE CallsInv'
    BY <2>2, HandleRest, HandleSums DEF CallsInv
  <2>3. ASSUME NEW r \in Requests, CancelToken(r) \/ Send(r) PROVE CallsInv'
    BY <2>3, OthersKeep DEF CancelToken, Send, handlers
  <2>4. ASSUME NEW r \in Requests, FinishDelivery(r) \/ CancelNotice(r) PROVE CallsInv'
    BY <2>4, WithdrawalKeeps
  <2>5. CASE Refresh \/ Close \/ DropServer \/ Join
    BY <2>5, OthersKeep DEF Refresh, StartRefresh, EndRefresh, PanicRefresh, EndThread, Close,
                            DropServer, Join, handlers
  <2> QED
    BY <2>1, <2>2, <2>3, <2>4, <2>5, ReceiveKeeps, CloseKeeps DEF Next, Deliver, Stopping
<1>3. CallsInv => PermitsAccounted
  BY DEF CallsInv
<1> QED BY <1>1, <1>2, <1>3, PTL DEF Spec

-----------------------------------------------------------------------------
(* The roots handshake *)

Holds(h) == handler[h] \in {"answered", "validated"}

\* The generation a handler asks for is that of a notification that has been handled.
WantedHandled ==
  /\ \A h \in Asking : wanted[h] \in Handled
  /\ Asking # {} => generation \in Handled

\* An answer whose generation is current was given after every handled notification.
AnswersFresh ==
  \A h \in Changes :
    Holds(h) =>
      /\ answer[h] \in Changes \cup {Failed}
      /\ wanted[h] = generation /\ answer[h] # Failed => \A k \in Handled : answer[h] >= k

\* The invariant of the handshake.
RootsInv ==
  /\ TypeOK /\ SingleFlight
  /\ WantedHandled /\ AnswersFresh
  /\ NoStaleRoots /\ AppHasTheRoots

-----------------------------------------------------------------------------
(* CallsTypes *)

LEMMA InitTypes == ASSUME RootsInit PROVE TypeOK
<1> USE RootsAssumption DEF RootsAssumption
<1>1. 0 \in Changes /\ \A h \in Changes : h = 0 \/ h > 0
  BY DEF Changes
<1>2. handler \in [Changes -> {"unsent", "sent", "asking", "answered", "validated", "done"}]
  BY DEF RootsInit
<1>3. \A h \in Changes : handler[h] = "unsent" <=> h > listed
  BY <1>1 DEF RootsInit, Changes
<1>4. failures \in 0..MaxFailures /\ app.open \in BOOLEAN /\ app.roots = Nothing
  BY DEF RootsInit, NoApp
<1> QED
  BY <1>1, <1>2, <1>3, <1>4 DEF RootsInit, TypeOK

LEMMA NextTypes ==
  ASSUME TypeOK, [RootsNext]_rootsVars PROVE TypeOK'
<1> USE RootsAssumption DEF RootsAssumption
<1>1. CASE Change
  BY <1>1 DEF Change, TypeOK, Changes, tasks, flight, authority
<1>2. CASE OpenApp
  BY <1>2 DEF OpenApp, TypeOK, client, tasks, flight
<1>3. ASSUME NEW h \in Changes, Revoke(h) PROVE TypeOK'
  BY <1>3 DEF Revoke, TypeOK, NoApp, client
<1>4. ASSUME NEW h \in Changes, Answer(h) PROVE TypeOK'
  BY <1>4 DEF Answer, TypeOK, Changes, flight, authority
<1>5. ASSUME NEW h \in Changes, Compare(h) PROVE TypeOK'
  BY <1>5
     DEF Compare, AskAgain, TypeOK, client, flight, authority
<1>6. ASSUME NEW h \in Changes, Apply(h) PROVE TypeOK'
  <2>1. CASE wanted[h] # generation
    BY <1>6, <2>1 DEF Apply, AskAgain, TypeOK, client, authority
  <2>2. CASE wanted[h] = generation
    <3>1. /\ roots' \in (Changes \ Invalid) \cup {Nothing}
          /\ error' \in Invalid \cup {Nothing, Failed}
      BY <1>6, <2>2 DEF Apply, TypeOK
    <3>2. /\ handler' \in
               [Changes ->
                  {"unsent", "sent", "asking", "answered", "validated", "done"}]
          /\ \A k \in Changes : handler'[k] = "unsent" <=> k > listed'
      BY <1>6, <2>2 DEF Apply, TypeOK, client
    <3>3. /\ app'.open = FALSE /\ app'.roots = Nothing /\ inFlight' = FALSE
          /\ UNCHANGED <<listed, failures, wanted, answer, generation>>
      BY <1>6, <2>2 DEF Apply, NoApp, client
    <3> QED BY <3>1, <3>2, <3>3 DEF TypeOK
  <2> QED BY <2>1, <2>2
<1>7. CASE UNCHANGED rootsVars
  BY <1>7 DEF TypeOK, rootsVars, client, tasks, flight, authority
<1> QED
  BY <1>1, <1>2, <1>3, <1>4, <1>5, <1>6, <1>7 DEF RootsNext, HandleRoots

-----------------------------------------------------------------------------
(* Which handlers ask, and which notifications have been handled *)

LEMMA SameSets ==
  ASSUME TypeOK, NEW h \in Changes, listed' = listed,
         handler[h] \in {"asking", "answered", "validated"},
         NEW to \in {"asking", "answered", "validated"},
         handler' = [handler EXCEPT ![h] = to]
  PROVE  Asking' = Asking /\ Handled' = Handled
<1>1. \A k \in Changes : k \in Asking' <=> k \in Asking
  BY DEF TypeOK, Asking
<1>2. \A k \in 0..listed : handler'[k] # "sent" <=> handler[k] # "sent"
  BY RootsAssumption DEF TypeOK, Changes
<1> QED
  BY <1>1, <1>2 DEF Asking, Handled

LEMMA ChangeKeeps == ASSUME RootsInv, Change PROVE RootsInv'
<1> USE RootsAssumption DEF RootsAssumption
<1>1. TypeOK'
  BY NextTypes DEF RootsInv, RootsNext
<1>2. listed + 1 \in Changes /\ handler[listed + 1] = "unsent"
  BY DEF RootsInv, TypeOK, Change, Changes
<1>3. \A k \in Changes : k # listed + 1 => handler'[k] = handler[k]
  BY DEF RootsInv, TypeOK, Change
<1>4. handler'[listed + 1] = "sent"
  BY <1>2 DEF RootsInv, TypeOK, Change
<1>5. Asking' = Asking
  BY <1>2, <1>3, <1>4 DEF Asking
<1>6. Handled' = Handled
  <2>1. 0..listed' = 0..listed \cup {listed + 1} /\ 0..listed \subseteq Changes
    BY DEF RootsInv, TypeOK, Change, Changes
  <2> QED BY <1>3, <1>4, <2>1 DEF Handled, RootsInv, TypeOK, Changes
<1>7. WantedHandled' /\ SingleFlight'
  BY <1>5, <1>6 DEF RootsInv, WantedHandled, SingleFlight, Change, flight
<1>8. \A k \in Changes : Holds(k)' => Holds(k)
  BY <1>3, <1>4 DEF Holds
<1>9. AnswersFresh'
  BY <1>6, <1>8 DEF RootsInv, AnswersFresh, Change, flight
<1>10. NoStaleRoots' /\ AppHasTheRoots'
  BY <1>6 DEF RootsInv, NoStaleRoots, AppHasTheRoots, Change, authority
<1> QED
  BY <1>1, <1>7, <1>9, <1>10 DEF RootsInv

LEMMA RevokeKeeps ==
  ASSUME RootsInv, NEW h \in Changes, Revoke(h)
  PROVE  RootsInv'
<1> USE RootsAssumption DEF RootsAssumption
<1>1. TypeOK'
  BY NextTypes DEF RootsInv, RootsNext, HandleRoots
<1>2. h \in 0..listed /\ h \notin Handled /\ h \notin Asking
  BY DEF RootsInv, TypeOK, Revoke, Changes, Handled, Asking
<1>3. Handled' = Handled \cup {h}
  <2>1. \A k \in 0..listed : handler'[k] # "sent" <=> handler[k] # "sent" \/ k = h
    BY <1>2 DEF RootsInv, TypeOK, Revoke, Changes
  <2> QED BY <1>2, <2>1 DEF Handled, Revoke, client
<1>4. \A k \in Changes : k # h => handler'[k] = handler[k] /\ wanted'[k] = wanted[k]
  BY DEF RootsInv, TypeOK, Revoke
<1>5. ~Holds(h)'
  BY DEF RootsInv, TypeOK, Revoke, Holds
<1>6. SingleFlight' /\ WantedHandled'
  <2>1. CASE inFlight
    <3>1. Asking' = Asking
      BY <1>2, <1>4, <2>1 DEF RootsInv, TypeOK, Revoke, Asking
    <3> QED BY <1>3, <2>1, <3>1 DEF RootsInv, SingleFlight, WantedHandled, Revoke
  <2>2. CASE ~inFlight
    <3>1. Asking = {} /\ handler'[h] = "asking" /\ wanted'[h] = h
      BY <2>2 DEF RootsInv, TypeOK, SingleFlight, Revoke
    <3>2. Asking' = {h}
      BY <1>4, <3>1 DEF Asking
    <3> QED BY <1>3, <2>2, <3>1, <3>2 DEF SingleFlight, WantedHandled, Revoke
  <2> QED BY <2>1, <2>2
<1>7. AnswersFresh'
  <2> SUFFICES ASSUME NEW k \in Changes, Holds(k)'
               PROVE  /\ answer'[k] \in Changes \cup {Failed}
                      /\ wanted'[k] # generation'
    BY DEF AnswersFresh
  <2>1. k # h /\ Holds(k) /\ k \in Asking
    BY <1>4, <1>5 DEF Holds, Asking
  <2>2. wanted'[k] # h
    BY <1>2, <1>4, <2>1 DEF RootsInv, WantedHandled
  <2> QED BY <2>1, <2>2 DEF RootsInv, AnswersFresh, Revoke
<1>8. NoStaleRoots' /\ AppHasTheRoots'
  BY DEF NoStaleRoots, AppHasTheRoots, Revoke, NoApp
<1> QED
  BY <1>1, <1>6, <1>7, <1>8 DEF RootsInv

LEMMA AnswerKeeps ==
  ASSUME RootsInv, NEW h \in Changes, Answer(h)
  PROVE  RootsInv'
<1> USE RootsAssumption DEF RootsAssumption
<1>1. TypeOK'
  BY NextTypes DEF RootsInv, RootsNext
<1>2. Asking' = Asking /\ Handled' = Handled
  BY SameSets DEF RootsInv, Answer
<1>3. AnswersFresh'
  <2> SUFFICES ASSUME NEW k \in Changes, Holds(k)'
               PROVE  /\ answer'[k] \in Changes \cup {Failed}
                      /\ wanted'[k] = generation' /\ answer'[k] # Failed =>
                           \A g \in Handled : answer'[k] >= g
    BY <1>2 DEF AnswersFresh
  <2>1. CASE k = h
    <3>1. answer'[h] \in {listed, Failed}
      BY DEF RootsInv, TypeOK, Answer
    <3>2. listed \in Changes /\ \A g \in Handled : listed >= g
      BY DEF RootsInv, TypeOK, Handled, Changes
    <3> QED BY <2>1, <3>1, <3>2
  <2>2. CASE k # h
    <3>1. Holds(k) /\ answer'[k] = answer[k]
      BY <2>2 DEF RootsInv, TypeOK, Answer, Holds
    <3> QED BY <3>1 DEF RootsInv, AnswersFresh, Answer, flight
  <2> QED BY <2>1, <2>2
<1> QED
  BY <1>1, <1>2, <1>3
     DEF RootsInv, SingleFlight, WantedHandled, NoStaleRoots, AppHasTheRoots, Answer, flight,
         authority

\* Whoever finds its generation outdated asks again, for one that has been handled.
LEMMA AskAgainKeeps ==
  ASSUME RootsInv, TypeOK',
         NEW h \in Changes, Holds(h), AskAgain(h),
         UNCHANGED <<client, answer, flight, authority>>
  PROVE  RootsInv'
<1> USE RootsAssumption DEF RootsAssumption
<1>1. Asking' = Asking /\ Handled' = Handled /\ h \in Asking
  BY SameSets DEF RootsInv, AskAgain, Holds, client, Asking
<1>2. \A k \in Changes : k # h => handler'[k] = handler[k] /\ wanted'[k] = wanted[k]
  BY DEF RootsInv, TypeOK, AskAgain
<1>3. ~Holds(h)' /\ wanted'[h] = generation
  BY DEF RootsInv, TypeOK, AskAgain, Holds
<1>4. WantedHandled'
  BY <1>1, <1>2, <1>3 DEF RootsInv, WantedHandled, flight, Asking
<1>5. AnswersFresh'
  BY <1>1, <1>2, <1>3 DEF RootsInv, AnswersFresh, Holds, flight
<1> QED
  BY <1>1, <1>4, <1>5
     DEF RootsInv, SingleFlight, NoStaleRoots, AppHasTheRoots, flight, authority

LEMMA CompareKeeps ==
  ASSUME RootsInv, NEW h \in Changes, Compare(h)
  PROVE  RootsInv'
<1> USE RootsAssumption DEF RootsAssumption
<1>1. TypeOK'
  BY NextTypes DEF RootsInv, RootsNext, HandleRoots
<1>2. CASE wanted[h] # generation
  BY <1>1, <1>2, AskAgainKeeps DEF Compare, Holds
<1>3. CASE wanted[h] = generation
  <2>1. Asking' = Asking /\ Handled' = Handled
    BY <1>3, SameSets DEF RootsInv, Compare, client
  <2>2. \A k \in Changes : Holds(k)' <=> Holds(k)
    BY <1>3 DEF RootsInv, TypeOK, Compare, Holds
  <2> QED
    BY <1>1, <1>3, <2>1, <2>2
       DEF RootsInv, SingleFlight, WantedHandled, AnswersFresh, NoStaleRoots, AppHasTheRoots,
           Compare, flight, authority
<1> QED BY <1>2, <1>3

LEMMA ApplyKeeps ==
  ASSUME RootsInv, NEW h \in Changes, Apply(h)
  PROVE  RootsInv'
<1> USE RootsAssumption DEF RootsAssumption
<1>1. TypeOK'
  BY NextTypes DEF RootsInv, RootsNext, HandleRoots
<1>2. CASE wanted[h] # generation
  BY <1>1, <1>2, AskAgainKeeps DEF Apply, Holds, flight
<1>3. CASE wanted[h] = generation
  <2>1. h \in Asking /\ Asking = {h} /\ Holds(h)
    BY DEF RootsInv, SingleFlight, Apply, Asking, Holds
  <2>2. handler'[h] = "done" /\ \A k \in Changes : k # h => handler'[k] = handler[k]
    BY <1>3 DEF RootsInv, TypeOK, Apply
  <2>3. Asking' = {}
    BY <2>1, <2>2 DEF Asking
  <2>4. Handled' = Handled
    BY <2>2 DEF RootsInv, TypeOK, Apply, client, Handled, Changes
  <2>5. SingleFlight' /\ WantedHandled'
    BY <1>3, <2>3 DEF SingleFlight, WantedHandled, Apply
  <2>6. \A k \in Changes : ~Holds(k)'
    BY <2>3 DEF Asking, Holds
  <2>7. NoStaleRoots'
    BY <1>3, <2>1, <2>4 DEF RootsInv, AnswersFresh, NoStaleRoots, Apply
  <2>8. AppHasTheRoots'
    BY <1>3 DEF AppHasTheRoots, Apply, NoApp
  <2> QED BY <1>1, <2>5, <2>6, <2>7, <2>8 DEF RootsInv, AnswersFresh
<1> QED BY <1>2, <1>3

LEMMA OpenAppKeeps == ASSUME RootsInv, OpenApp PROVE RootsInv'
<1>1. TypeOK'
  BY NextTypes DEF RootsInv, RootsNext
<1>2. Asking' = Asking /\ Handled' = Handled
  BY DEF OpenApp, Asking, Handled, client, tasks
<1> QED
  BY <1>1, <1>2
     DEF RootsInv, SingleFlight, WantedHandled, AnswersFresh, Holds, NoStaleRoots,
         AppHasTheRoots, OpenApp, tasks, flight

-----------------------------------------------------------------------------
(* The roots handshake keeps its invariant, whatever the constants are.    *)
THEOREM RootsInductive == RootsSpec => []RootsInv
<1>1. RootsInit => RootsInv
  <2> SUFFICES ASSUME RootsInit PROVE RootsInv
    OBVIOUS
  <2>1. Asking = {}
    BY DEF RootsInit, Asking
  <2> QED
    BY <2>1, InitTypes
       DEF RootsInit, RootsInv, SingleFlight, WantedHandled, AnswersFresh, Holds, NoStaleRoots,
           AppHasTheRoots, NoApp
<1>2. RootsInv /\ [RootsNext]_rootsVars => RootsInv'
  <2> SUFFICES ASSUME RootsInv, [RootsNext]_rootsVars PROVE RootsInv'
    OBVIOUS
  <2>1. CASE UNCHANGED rootsVars
    BY <2>1
       DEF RootsInv, TypeOK, SingleFlight, WantedHandled, AnswersFresh, Holds, NoStaleRoots,
           AppHasTheRoots, Asking, Handled, rootsVars, client, tasks, flight, authority
  <2> QED
    BY <2>1, ChangeKeeps, RevokeKeeps, AnswerKeeps, CompareKeeps, ApplyKeeps, OpenAppKeeps
       DEF RootsNext, HandleRoots
<1> QED BY <1>1, <1>2, PTL DEF RootsSpec

(* The handshake keeps its tables, its flag and its roots of their kinds,  *)
(* for any number of changes.                                              *)
THEOREM RootsTypeCorrect == RootsSpec => []TypeOK
  BY RootsInductive, PTL DEF RootsInv

(* However many notifications arrive, refresh_official_roots_authority has *)
(* one roots/list request open at a time, and its flag says when.          *)
THEOREM OneRequest == RootsSpec => []SingleFlight
  BY RootsInductive, PTL DEF RootsInv

(* No answer of the client that is older than a notification the server    *)
(* has handled is ever put in place by refresh_official_roots_authority.   *)
THEOREM RootsAreFresh == RootsSpec => []NoStaleRoots
  BY RootsInductive, PTL DEF RootsInv

(* The application that tool calls share (open_mcp_app) never has other    *)
(* roots than those in place.                                              *)
THEOREM CallsHaveTheRoots == RootsSpec => []AppHasTheRoots
  BY RootsInductive, PTL DEF RootsInv

-----------------------------------------------------------------------------
(* The batches of a search *)

Producers == {"open", "wait", "prepare", "rows", "offer", "rollback"} \cup Ended
States == {"opening", "unopened", "open"} \cup Terminal
Failures == {"query", "cleanup", "panic"}
Closing == {"drop start", "drop events", "join closed"}
Locked == {"next", "close", "start", "receive", "join", "unlock"} \cup Closing
Points == {"idle", "lock next", "lock close", "regain", "getter"} \cup Locked

BatchesTypes ==
  /\ index \in Generations /\ snapshot \in Generations \cup {0} /\ visited \in Nat
  /\ producer \in Producers /\ state \in States
  /\ offer \in {"batch", "complete", "failed"}
  /\ fault \in {"none", "cancelled"} \cup Failures
  /\ start \in BOOLEAN /\ events \in BOOLEAN /\ worker \in BOOLEAN /\ cancelled \in BOOLEAN
  /\ told \in BOOLEAN
  /\ pc \in [Threads -> Points]
  /\ batch \in Seq([of : Nat, at : Nat]) /\ delivered \in Seq([of : Nat, at : Nat])

\* Who is inside next or close holds the object's lock.
Exclusive == \A t \in Threads : pc[t] \in Locked => mutex = t

\* A producer nobody starts, or that ends as one cancelled, has been cancelled.
CancelledFirst ==
  /\ \A t \in Threads : pc[t] \in Closing => cancelled
  /\ ~start /\ producer \in {"open", "wait"} => cancelled
  /\ fault = "cancelled" => cancelled

\* Whether the producer hands over a batch, the end of the search or nothing of it any more.
Offering(o) == producer = "offer" /\ offer = o
Reading == producer = "rows" \/ Offering("batch") \/ Offering("complete")
Unread == producer \in {"open", "wait", "prepare"}

\* What has gone wrong is known by how the producer ends.
FaultsKnown ==
  /\ Unread \/ Reading => fault = "none"
  /\ Offering("failed") \/ producer = "error" => fault \in {"query", "cleanup"}
  /\ producer = "rollback" => fault \in {"none", "cancelled", "query"}
  /\ producer = "ok" => fault \in {"none", "cancelled"}
  /\ producer = "panic" => fault = "panic"

\* A producer that has not begun, has ended or only has its failure to report pins no snapshot.
Unpinned == producer \in {"open"} \cup Ended \/ Offering("failed") => snapshot = 0

\* A thread that has learnt of the end of the search, or of a failure, joins the producer.
Joining == \E t \in Threads : pc[t] = "join"
Joined ==
  /\ ~worker => producer \in Ended /\ (producer # "ok" => told)
  /\ told => producer \in {"error", "panic"}
  /\ state \in Terminal => ~worker \/ Joining

\* Delivered rows, and those that wait for delivery behind them, are a prefix of one generation:
\* the one the producer reads.
Prefix(g) ==
  /\ visited = Len(delivered) + Len(batch) /\ visited <= Sizes[g]
  /\ \A i \in DOMAIN delivered : delivered[i] = Row(g, i)
  /\ \A i \in DOMAIN batch : batch[i] = Row(g, Len(delivered) + i)
  /\ Reading => snapshot = g
  /\ Offering("complete") \/ state = "exhausted" => Len(delivered) = Sizes[g]
OneGeneration ==
  /\ \E g \in Generations : Prefix(g)
  /\ Unread => visited = 0
  /\ state = "exhausted" => ~Unread /\ ~Reading

BatchesInv ==
  /\ BatchesTypes /\ Exclusive /\ CancelledFirst /\ FaultsKnown /\ Unpinned /\ Joined
  /\ OneGeneration

-----------------------------------------------------------------------------
(* Steps *)

\* A step of a thread inside a call.
ThreadStep(t) == Call(t, "next") \/ Call(t, "close") \/ CallCompletion(t) \/ Body(t)

LEMMA StepCases ==
  ASSUME [BatchesNext]_batchesVars
  PROVE  Commit \/ Producer \/ (\E t \in Threads : ThreadStep(t)) \/ UNCHANGED batchesVars
  BY DEF BatchesNext, ThreadStep

LEMMA BatchesInitTypes == BatchesInit => BatchesTypes
<1> SUFFICES ASSUME BatchesInit PROVE BatchesTypes
  OBVIOUS
<1>1. << >> \in Seq([of : Nat, at : Nat])
  BY EmptySeq
<1>2. 1 \in Generations
  BY BatchesAssumption DEF BatchesAssumption, Generations
<1> QED
  BY <1>1, <1>2 DEF BatchesInit, BatchesTypes, Producers, States, Failures, Points, Locked,
     Closing, Terminal, Ended

LEMMA ProducerTypes == ASSUME BatchesTypes, Producer PROVE BatchesTypes'
<1>1. CASE Ready \/ StartupFails \/ NeverStarted
  BY <1>1 DEF Ready, StartupFails, NeverStarted, BatchesTypes, theirs, reading, ends, threads,
     history,
     Producers, States, Failures, Ended, Terminal
<1>2. CASE FirstRead \/ Interrupted \/ QueryFails \/ Panic
  BY <1>2 DEF FirstRead, Interrupted, QueryFails, Panic, BatchesTypes, theirs, reading, ends,
     threads,
     history, Producers, Failures, Ended
<1>3. CASE OfferBatch \/ OfferCompletion \/ SendFails
  BY <1>3 DEF OfferBatch, OfferCompletion, SendFails, BatchesTypes, theirs, reading, ends, threads,
     history, Producers, Ended
<1>4. CASE RolledBack \/ RollbackFails
  BY <1>4 DEF RolledBack, RollbackFails, Conclude, BatchesTypes, theirs, reading, ends, threads,
     history, Producers, Failures, Ended
<1>5. CASE NextRow
  <2>1. visited' \in Nat /\ snapshot \in Nat
    BY <1>5, BatchesAssumption DEF BatchesAssumption, NextRow, BatchesTypes, Generations
  <2>2. batch' \in Seq([of : Nat, at : Nat])
    BY <1>5, <2>1, AppendProperties DEF NextRow, BatchesTypes, Row
  <2> QED
    BY <1>5, <2>1, <2>2 DEF NextRow, BatchesTypes, theirs, ends, threads, history
<1> QED
  BY <1>1, <1>2, <1>3, <1>4, <1>5 DEF Producer

LEMMA ThreadTypes == ASSUME BatchesTypes, NEW t \in Threads, ThreadStep(t) PROVE BatchesTypes'
<1>1. ASSUME NEW to \in Points, Go(t, to) PROVE pc' \in [Threads -> Points]
  BY <1>1 DEF Go, BatchesTypes
<1>2. CASE Call(t, "next") \/ Call(t, "close") \/ CallCompletion(t) \/ Lock(t) \/ Unlock(t)
           \/ Regain(t) \/ ProjectionFails(t) \/ Completion(t) \/ NextBatch(t)
  BY <1>2 DEF Call, CallCompletion, Lock, Unlock, Regain, ProjectionFails, Completion, NextBatch,
     Return, Go, BatchesTypes, producers, reading, ends, history, held, Points, Locked, Closing
<1>3. CASE Start(t)
  BY <1>3 DEF Start, Go, BatchesTypes, reading, history, held, Points, Locked, Producers
<1>4. CASE ReceiveBatch(t)
  <2>1. delivered' \in Seq([of : Nat, at : Nat]) /\ batch' \in Seq([of : Nat, at : Nat])
    BY <1>4, ConcatProperties, EmptySeq DEF ReceiveBatch, BatchesTypes
  <2> QED
    BY <1>4, <2>1 DEF ReceiveBatch, Return, Go, BatchesTypes, ends, held, Points, Locked, Producers
<1>5. CASE ReceiveCompletion(t) \/ ReceiveFailure(t) \/ ReceiveNothing(t)
  BY <1>5 DEF ReceiveCompletion, ReceiveFailure, ReceiveNothing, Go, BatchesTypes, producers,
     reading,
     history, held, Points, Locked, Producers, Ended, States, Terminal
<1>6. CASE JoinWorker(t) \/ JoinClosed(t)
  BY <1>6 DEF JoinWorker, JoinClosed, Return, Go, BatchesTypes, producers, reading, held, Points,
     Locked,
     States, Terminal, Ended
<1>7. CASE CloseSearch(t) \/ DropStart(t) \/ DropEvents(t)
  BY <1>7 DEF CloseSearch, DropStart, DropEvents, Return, Go, BatchesTypes, producers, reading,
     history, held,
     Points, Locked, Closing
<1> QED
  BY <1>2, <1>3, <1>4, <1>5, <1>6, <1>7 DEF ThreadStep, Body

LEMMA StepTypes == ASSUME BatchesTypes, [BatchesNext]_batchesVars PROVE BatchesTypes'
<1>1. CASE Commit
  BY <1>1, BatchesAssumption DEF Commit, BatchesTypes, Generations, BatchesAssumption, reading,
     ends,
     threads, history
<1>2. CASE UNCHANGED batchesVars
  BY <1>2 DEF BatchesTypes, batchesVars, reading, ends, threads, history
<1> QED
  BY <1>1, <1>2, StepCases, ProducerTypes, ThreadTypes

-----------------------------------------------------------------------------
(* Who holds the lock, and what a cancellation comes before *)

LEMMA ExclusiveStep == ASSUME BatchesTypes, Exclusive, [BatchesNext]_batchesVars PROVE Exclusive'
<1>1. CASE Commit \/ Producer \/ UNCHANGED batchesVars
  BY <1>1 DEF Exclusive, Locked, Closing, Commit, Producer, Ready, StartupFails, NeverStarted,
     FirstRead, NextRow, Interrupted, QueryFails, Panic, OfferBatch, OfferCompletion, SendFails,
     RolledBack, RollbackFails, theirs, threads, batchesVars
<1>2. ASSUME NEW t \in Threads, NEW to \in Points, Go(t, to), mutex' = mutex,
             to \in Locked => mutex = t
      PROVE  Exclusive'
  BY <1>2 DEF Go, Exclusive, BatchesTypes
<1>3. ASSUME NEW t \in Threads, Lock(t) PROVE Exclusive'
  <2>1. mutex = Free /\ mutex' = t /\ \A u \in Threads : u # t => pc'[u] = pc[u]
    BY <1>3 DEF Lock, Go, BatchesTypes
  <2>2. \A u \in Threads : pc[u] \notin Locked
    BY <2>1, BatchesAssumption DEF Exclusive, BatchesAssumption
  <2> QED
    BY <2>1, <2>2 DEF Exclusive
<1>4. ASSUME NEW t \in Threads, Unlock(t) PROVE Exclusive'
  <2>1. pc[t] \in Locked /\ pc'[t] = "regain" /\ \A u \in Threads : u # t => pc'[u] = pc[u]
    BY <1>4 DEF Unlock, Go, BatchesTypes, Locked
  <2> QED
    BY <2>1 DEF Exclusive, Locked, Closing
<1>5. ASSUME NEW t \in Threads,
             Call(t, "next") \/ Call(t, "close") \/ CallCompletion(t) \/ Regain(t)
             \/ ProjectionFails(t) \/ Completion(t)
      PROVE  Exclusive'
  <2>1. mutex' = mutex
    BY <1>5 DEF Call, CallCompletion, Regain, ProjectionFails, Completion
  <2>2. \E to \in Points \ Locked : Go(t, to)
    BY <1>5 DEF Call, CallCompletion, Regain, ProjectionFails, Completion, Points, Locked, Closing
  <2> QED
    BY <1>2, <2>1, <2>2
<1>6. ASSUME NEW t \in Threads,
             NextBatch(t) \/ Start(t) \/ ReceiveBatch(t) \/ ReceiveCompletion(t)
             \/ ReceiveFailure(t) \/ ReceiveNothing(t) \/ JoinWorker(t)
             \/ CloseSearch(t) \/ DropStart(t) \/ DropEvents(t) \/ JoinClosed(t)
      PROVE  Exclusive'
  <2>1. mutex' = mutex /\ mutex = t
    BY <1>6 DEF NextBatch, Start, ReceiveBatch, ReceiveCompletion, ReceiveFailure, ReceiveNothing,
       JoinWorker, CloseSearch, DropStart, DropEvents, JoinClosed, held, Exclusive, Locked, Closing
  <2>2. \E to \in Points : Go(t, to)
    BY <1>6 DEF NextBatch, Start, ReceiveBatch, ReceiveCompletion, ReceiveFailure, ReceiveNothing,
       JoinWorker, CloseSearch, DropStart, DropEvents, JoinClosed, Return, Points, Locked, Closing
  <2> QED
    BY <1>2, <2>1, <2>2
<1> QED
  BY <1>1, <1>3, <1>4, <1>5, <1>6, StepCases DEF ThreadStep, Body

LEMMA CancelledStep ==
  ASSUME BatchesTypes, CancelledFirst, [BatchesNext]_batchesVars
  PROVE  CancelledFirst'
<1>1. CASE Commit \/ Producer \/ UNCHANGED batchesVars
  <2>1. UNCHANGED <<start, cancelled, pc>>
    BY <1>1 DEF Commit, Producer, Ready, StartupFails, NeverStarted, FirstRead, NextRow,
       Interrupted, QueryFails, Panic, OfferBatch, OfferCompletion, SendFails, RolledBack,
       RollbackFails, theirs, threads, ends, batchesVars
  <2>2. producer' \in {"open", "wait"} => producer \in {"open", "wait"}
    BY <1>1 DEF Commit, Producer, Ready, StartupFails, NeverStarted, FirstRead, NextRow,
       Interrupted, QueryFails, Panic, OfferBatch, OfferCompletion, SendFails, RolledBack,
       RollbackFails, Conclude, batchesVars
  <2>3. fault' = "cancelled" => fault = "cancelled" \/ NeverStarted \/ Interrupted
    BY <1>1 DEF Commit, Producer, Ready, StartupFails, FirstRead, NextRow,
       QueryFails, Panic, OfferBatch, OfferCompletion, SendFails, RolledBack, RollbackFails,
       batchesVars
  <2> QED
    BY <2>1, <2>2, <2>3 DEF CancelledFirst, NeverStarted, Interrupted
<1>2. ASSUME NEW t \in Threads, NEW to \in Points \ Closing, Go(t, to),
             UNCHANGED <<start, producer, fault, cancelled>>
      PROVE  CancelledFirst'
  BY <1>2 DEF Go, CancelledFirst, BatchesTypes
<1>3. ASSUME NEW t \in Threads,
             Call(t, "next") \/ Call(t, "close") \/ CallCompletion(t) \/ Lock(t) \/ Unlock(t)
             \/ Regain(t) \/ ProjectionFails(t) \/ Completion(t) \/ NextBatch(t)
             \/ ReceiveNothing(t) \/ JoinWorker(t) \/ JoinClosed(t)
      PROVE  CancelledFirst'
  <2>1. UNCHANGED <<start, producer, fault, cancelled>>
    BY <1>3 DEF Call, CallCompletion, Lock, Unlock, Regain, ProjectionFails, Completion, NextBatch,
       ReceiveNothing, JoinWorker, JoinClosed, producers, ends
  <2>2. \E to \in Points \ Closing : Go(t, to)
    BY <1>3 DEF Call, CallCompletion, Lock, Unlock, Regain, ProjectionFails, Completion, NextBatch,
       ReceiveNothing, JoinWorker, JoinClosed, Return, Points, Locked, Closing
  <2> QED
    BY <1>2, <2>1, <2>2
<1>4. ASSUME NEW t \in Threads,
             Start(t) \/ ReceiveBatch(t) \/ ReceiveCompletion(t) \/ ReceiveFailure(t)
      PROVE  CancelledFirst'
  <2>1. producer' \notin {"open", "wait"} /\ UNCHANGED <<cancelled, fault>>
    BY <1>4 DEF Start, ReceiveBatch, ReceiveCompletion, ReceiveFailure, ends
  <2>2. \A u \in Threads : pc'[u] \in Closing => pc[u] \in Closing
    BY <1>4 DEF Start, ReceiveBatch, ReceiveCompletion, ReceiveFailure, Return, Go, Closing,
       BatchesTypes
  <2> QED
    BY <2>1, <2>2 DEF CancelledFirst
<1>5. ASSUME NEW t \in Threads, CloseSearch(t) \/ DropStart(t) \/ DropEvents(t)
      PROVE  CancelledFirst'
  BY <1>5 DEF CloseSearch, DropStart, DropEvents, Return, Go, producers, CancelledFirst, Closing,
     BatchesTypes
<1> QED
  BY <1>1, <1>3, <1>4, <1>5, StepCases DEF ThreadStep, Body

-----------------------------------------------------------------------------
(* What the producer ends with *)

LEMMA FaultsStep ==
  ASSUME BatchesTypes, CancelledFirst, FaultsKnown, [BatchesNext]_batchesVars PROVE FaultsKnown'
<1> USE DEF Offering, Reading, Unread
<1>1. CASE Commit \/ UNCHANGED batchesVars
  BY <1>1 DEF FaultsKnown, Commit, batchesVars
<1>2. CASE RolledBack
  BY <1>2 DEF FaultsKnown, RolledBack, Conclude, Expected, CancelledFirst
<1>3. CASE RollbackFails
  BY <1>3 DEF FaultsKnown, RollbackFails, Conclude, Expected
<1>4. CASE Producer /\ ~RolledBack /\ ~RollbackFails
  BY <1>4 DEF FaultsKnown, Producer, Ready, StartupFails, NeverStarted, FirstRead, NextRow,
     Interrupted, QueryFails, Panic, OfferBatch, OfferCompletion, SendFails, BatchesTypes
<1>5. ASSUME NEW t \in Threads,
             Start(t) \/ ReceiveBatch(t) \/ ReceiveCompletion(t) \/ ReceiveFailure(t)
      PROVE  FaultsKnown'
  BY <1>5 DEF FaultsKnown, Start, ReceiveBatch, ReceiveCompletion, ReceiveFailure
<1>6. ASSUME NEW t \in Threads, ThreadStep(t),
             ~(Start(t) \/ ReceiveBatch(t) \/ ReceiveCompletion(t) \/ ReceiveFailure(t))
      PROVE  FaultsKnown'
  <2>1. UNCHANGED <<producer, offer, fault>>
    BY <1>6 DEF ThreadStep, Body, Call, CallCompletion, Lock, Unlock, Regain, ProjectionFails,
       Completion, NextBatch, ReceiveNothing, JoinWorker, CloseSearch, DropStart, DropEvents,
       JoinClosed,
       producers
  <2> QED
    BY <2>1 DEF FaultsKnown
<1> QED
  BY <1>1, <1>2, <1>3, <1>4, <1>5, <1>6, StepCases

LEMMA UnpinnedStep == ASSUME BatchesTypes, Unpinned, [BatchesNext]_batchesVars PROVE Unpinned'
<1> USE DEF Offering, Ended
<1>1. CASE Commit \/ UNCHANGED batchesVars
  BY <1>1 DEF Unpinned, Commit, batchesVars, reading
<1>2. CASE Producer
  BY <1>2 DEF Unpinned, Producer, Ready, StartupFails, NeverStarted, FirstRead, NextRow,
     Interrupted, QueryFails, Panic, OfferBatch, OfferCompletion, SendFails, RolledBack,
     RollbackFails, reading
<1>3. ASSUME NEW t \in Threads, ThreadStep(t) PROVE Unpinned'
  <2>1. CASE Start(t) \/ ReceiveBatch(t) \/ ReceiveCompletion(t) \/ ReceiveFailure(t)
    BY <2>1 DEF Unpinned, Start, ReceiveBatch, ReceiveCompletion, ReceiveFailure, reading
  <2>2. CASE ~(Start(t) \/ ReceiveBatch(t) \/ ReceiveCompletion(t) \/ ReceiveFailure(t))
    <3>1. UNCHANGED <<producer, offer, snapshot>>
      BY <1>3, <2>2 DEF ThreadStep, Body, Call, CallCompletion, Lock, Unlock, Regain,
         ProjectionFails,
         Completion, NextBatch, ReceiveNothing, JoinWorker, CloseSearch, DropStart, DropEvents,
         JoinClosed,
         producers, reading
    <3> QED
      BY <3>1 DEF Unpinned
  <2> QED
    BY <2>1, <2>2
<1> QED
  BY <1>1, <1>2, <1>3, StepCases

-----------------------------------------------------------------------------
(* Joining the producer *)

LEMMA JoinedStep ==
  ASSUME BatchesTypes, FaultsKnown, Joined, [BatchesNext]_batchesVars
  PROVE  Joined'
<1> USE DEF Ended, Terminal
<1>1. CASE Commit \/ UNCHANGED batchesVars
  BY <1>1 DEF Joined, Joining, Commit, batchesVars, ends, threads, history
<1>2. CASE Producer
  <2>1. UNCHANGED <<pc, told>>
    BY <1>2 DEF Producer, Ready, StartupFails, NeverStarted, FirstRead, NextRow, Interrupted,
       QueryFails, Panic, OfferBatch, OfferCompletion, SendFails, RolledBack, RollbackFails,
       theirs, threads, history
  <2>2. producer \notin Ended
    BY <1>2 DEF Producer, Ready, StartupFails, NeverStarted, FirstRead, NextRow, Interrupted,
       QueryFails, Panic, OfferBatch, OfferCompletion, SendFails, RolledBack, RollbackFails
  <2>3. worker /\ ~told
    BY <2>2 DEF Joined, BatchesTypes
  <2>4. (state' \in Terminal => state \in Terminal) /\ (~worker' => producer' = "ok")
    BY <1>2, <2>3 DEF Producer, Ready, StartupFails, NeverStarted, FirstRead, NextRow, Interrupted,
       QueryFails, Panic, OfferBatch, OfferCompletion, SendFails, RolledBack, RollbackFails,
       theirs, ends
  <2> QED
    BY <2>1, <2>3, <2>4 DEF Joined, Joining
<1>3. ASSUME NEW t \in Threads, pc[t] # "join", NEW to \in Points, Go(t, to),
             UNCHANGED <<producer, worker, told, state>>
      PROVE  Joined'
  BY <1>3 DEF Go, Joined, Joining, BatchesTypes
<1>4. ASSUME NEW t \in Threads,
             Call(t, "next") \/ Call(t, "close") \/ CallCompletion(t) \/ Lock(t) \/ Unlock(t)
             \/ Regain(t) \/ ProjectionFails(t) \/ Completion(t) \/ NextBatch(t)
             \/ ReceiveNothing(t) \/ CloseSearch(t) \/ DropStart(t) \/ DropEvents(t)
      PROVE  Joined'
  <2>1. UNCHANGED <<producer, worker, told, state>> /\ pc[t] # "join"
    BY <1>4 DEF Call, CallCompletion, Lock, Unlock, Regain, ProjectionFails, Completion, NextBatch,
       ReceiveNothing, CloseSearch, DropStart, DropEvents, producers, ends, history
  <2>2. \E to \in Points : Go(t, to)
    BY <1>4 DEF Call, CallCompletion, Lock, Unlock, Regain, ProjectionFails, Completion, NextBatch,
       ReceiveNothing, CloseSearch, DropStart, DropEvents, Return, Points, Locked, Closing
  <2> QED
    BY <1>3, <2>1, <2>2
<1>5. ASSUME NEW t \in Threads, Start(t) \/ ReceiveBatch(t) PROVE Joined'
  <2>1. worker /\ ~told /\ UNCHANGED <<worker, told, state>> /\ pc[t] # "join"
    BY <1>5 DEF Start, ReceiveBatch, ends, history, Joined, BatchesTypes
  <2>2. \A u \in Threads : pc[u] = "join" => pc'[u] = "join"
    BY <1>5 DEF Start, ReceiveBatch, Return, Go, BatchesTypes
  <2> QED
    BY <2>1, <2>2 DEF Joined, Joining
<1>6. ASSUME NEW t \in Threads, ReceiveCompletion(t) \/ ReceiveFailure(t) PROVE Joined'
  <2>1. worker /\ ~told /\ UNCHANGED <<worker, told>>
    BY <1>6 DEF ReceiveCompletion, ReceiveFailure, history, Joined, BatchesTypes
  <2>2. pc'[t] = "join"
    BY <1>6 DEF ReceiveCompletion, ReceiveFailure, Go, BatchesTypes
  <2> QED
    BY <2>1, <2>2 DEF Joined, Joining
<1>7. ASSUME NEW t \in Threads, JoinWorker(t) \/ JoinClosed(t) PROVE Joined'
  <2>1. producer \in Ended /\ producer' = producer /\ ~worker'
    BY <1>7 DEF JoinWorker, JoinClosed, producers
  <2>2. (producer # "ok" => told') /\ (told' => producer # "ok")
    BY <1>7 DEF JoinWorker, JoinClosed, Joined, BatchesTypes
  <2> QED
    BY <2>1, <2>2 DEF Joined
<1> QED
  BY <1>1, <1>2, <1>4, <1>5, <1>6, <1>7, StepCases DEF ThreadStep, Body

-----------------------------------------------------------------------------
(* One generation *)

LEMMA Sized == ASSUME NEW g \in Generations PROVE Sizes[g] \in Nat /\ g \in Nat \ {0}
  BY BatchesAssumption DEF BatchesAssumption, Generations

\* Steps that touch no row, and end or do not end the reading.
LEMMA PrefixKept ==
  ASSUME NEW g \in Generations, Prefix(g), UNCHANGED <<visited, delivered, batch>>,
         Reading' => Reading /\ snapshot' = snapshot,
         Offering("complete")' => Offering("complete"),
         state' = "exhausted" => state = "exhausted" \/ Offering("complete")
  PROVE  Prefix(g)'
  BY DEF Prefix

LEMMA GenerationStep ==
  ASSUME BatchesTypes, OneGeneration, [BatchesNext]_batchesVars
  PROVE  OneGeneration'
<1>1. PICK g \in Generations : Prefix(g)
  BY DEF OneGeneration
<1> USE DEF Offering, Reading, Unread
<1>2. ASSUME UNCHANGED <<visited, delivered, batch, snapshot, producer, offer>>,
             state' = "exhausted" => state = "exhausted"
      PROVE  OneGeneration'
  BY <1>1, <1>2, PrefixKept DEF OneGeneration
<1>3. CASE Commit \/ UNCHANGED batchesVars
  BY <1>2, <1>3 DEF Commit, batchesVars, reading, history
<1>4. CASE FirstRead
  <2>1. Len(batch) = 0 /\ Len(delivered) = 0 /\ visited = 0
    <3>1. visited = 0 /\ visited = Len(delivered) + Len(batch)
      BY <1>1, <1>4 DEF OneGeneration, FirstRead, Prefix
    <3> QED
      BY <3>1, LenProperties DEF BatchesTypes
  <2>2. PICK h \in Generations : snapshot' = h
    BY <1>4 DEF FirstRead, BatchesTypes
  <2>3. UNCHANGED <<visited, delivered, batch, state>> /\ producer' = "rows" /\ state # "exhausted"
    BY <1>4 DEF FirstRead, theirs, history, OneGeneration
  <2>4. DOMAIN batch = {} /\ DOMAIN delivered = {}
    BY <2>1, LenProperties DEF BatchesTypes
  <2>5. Prefix(h)'
    BY <2>1, <2>2, <2>3, <2>4, Sized DEF Prefix
  <2> QED
    BY <2>3, <2>5 DEF OneGeneration
<1>5. CASE NextRow
  <2>1. snapshot = g /\ state # "exhausted"
    BY <1>1, <1>5 DEF NextRow, Prefix, OneGeneration
  <2>2. /\ Len(batch') = Len(batch) + 1
        /\ \A i \in DOMAIN batch' : batch'[i] = Row(g, Len(delivered) + i)
    BY <1>1, <1>5, <2>1 DEF NextRow, Prefix, BatchesTypes
  <2>3. Prefix(g)'
    <3>1. /\ visited' = visited + 1 /\ visited < Sizes[g] /\ snapshot' = g
          /\ producer' = "rows" /\ UNCHANGED <<delivered, state>>
      BY <1>5, <2>1 DEF NextRow, theirs, history
    <3>2. visited' <= Sizes[g]
      BY <3>1, Sized DEF BatchesTypes
    <3>3. visited' = Len(delivered) + Len(batch')
      BY <1>1, <2>2, <3>1, LenProperties DEF Prefix, BatchesTypes
    <3> QED
      BY <1>1, <2>1, <2>2, <3>1, <3>2, <3>3 DEF Prefix
  <2> QED
    BY <1>5, <2>1, <2>3 DEF NextRow, OneGeneration, theirs
<1>6. CASE OfferCompletion
  <2>1. snapshot = g /\ Len(batch) = 0 /\ visited = Sizes[g]
    BY <1>1, <1>6 DEF OfferCompletion, Prefix, Drained
  <2>2. Prefix(g)'
    BY <1>1, <1>6, <2>1 DEF OfferCompletion, Prefix, theirs, reading, history, BatchesTypes
  <2> QED
    BY <1>6, <2>2 DEF OfferCompletion, OneGeneration, theirs, reading
<1>7. CASE Producer /\ ~FirstRead /\ ~NextRow /\ ~OfferCompletion
  <2>1. /\ UNCHANGED <<visited, delivered, batch>>
        /\ Reading' => Reading /\ snapshot' = snapshot
        /\ Offering("complete")' => Offering("complete")
        /\ Unread' => Unread
        /\ state' = "exhausted" => state = "exhausted"
    BY <1>7 DEF Producer, Ready, StartupFails, NeverStarted, Interrupted, QueryFails, Panic,
       OfferBatch, SendFails, RolledBack, RollbackFails, Conclude, theirs, reading, history
  <2>2. Prefix(g)'
    BY <1>1, <2>1, PrefixKept
  <2> QED
    BY <2>1, <2>2 DEF OneGeneration
<1>8. ASSUME NEW t \in Threads, ReceiveBatch(t) PROVE OneGeneration'
  <2>1. snapshot = g /\ state # "exhausted"
    BY <1>1, <1>8 DEF ReceiveBatch, Prefix, OneGeneration
  <2>2. /\ Len(delivered') = Len(delivered) + Len(batch) /\ Len(batch') = 0
        /\ DOMAIN delivered' = 1..(Len(delivered) + Len(batch)) /\ DOMAIN batch' = {}
        /\ \A i \in 1..(Len(delivered) + Len(batch)) :
             delivered'[i] = IF i <= Len(delivered) THEN delivered[i] ELSE batch[i - Len(delivered)]
    BY <1>8, ConcatProperties DEF ReceiveBatch, BatchesTypes
  <2>3. ASSUME NEW i \in DOMAIN delivered' PROVE delivered'[i] = Row(g, i)
    <3>1. CASE i <= Len(delivered)
      <4>1. i \in DOMAIN delivered /\ delivered'[i] = delivered[i]
        BY <2>2, <3>1, LenProperties DEF BatchesTypes
      <4> QED
        BY <1>1, <4>1 DEF Prefix
    <3>2. CASE ~(i <= Len(delivered))
      <4>1. i - Len(delivered) \in DOMAIN batch /\ Len(delivered) + (i - Len(delivered)) = i
        BY <2>2, <3>2, LenProperties DEF BatchesTypes
      <4> QED
        BY <1>1, <2>2, <3>2, <4>1 DEF Prefix
    <3> QED
      BY <3>1, <3>2
  <2>4. Prefix(g)'
    BY <1>1, <1>8, <2>1, <2>2, <2>3, LenProperties DEF ReceiveBatch, Prefix, BatchesTypes
  <2> QED
    BY <1>8, <2>1, <2>4 DEF ReceiveBatch, OneGeneration
<1>9. ASSUME NEW t \in Threads, Start(t) \/ ReceiveCompletion(t) \/ ReceiveFailure(t)
      PROVE  OneGeneration'
  <2>1. /\ UNCHANGED <<visited, delivered, batch, snapshot>>
        /\ Reading' => Reading
        /\ Offering("complete")' => Offering("complete")
        /\ Unread' => Unread
        /\ state' = "exhausted" => (state = "exhausted" \/ Offering("complete"))
                                    /\ ~Unread' /\ ~Reading'
    BY <1>9 DEF Start, ReceiveCompletion, ReceiveFailure, reading, history, OneGeneration
  <2>2. Prefix(g)'
    BY <1>1, <2>1, PrefixKept
  <2> QED
    BY <2>1, <2>2 DEF OneGeneration
<1>10. ASSUME NEW t \in Threads, ThreadStep(t),
              ~(Start(t) \/ ReceiveBatch(t) \/ ReceiveCompletion(t) \/ ReceiveFailure(t))
       PROVE  OneGeneration'
  <2>1. /\ UNCHANGED <<visited, delivered, batch, snapshot, producer, offer>>
        /\ state' = "exhausted" => state = "exhausted"
    BY <1>10 DEF ThreadStep, Body, Call, CallCompletion, Lock, Unlock, Regain, ProjectionFails,
       Completion, NextBatch, ReceiveNothing, JoinWorker, CloseSearch, DropStart, DropEvents,
       JoinClosed,
       producers, reading, history
  <2> QED
    BY <1>2, <2>1
<1> QED
  BY <1>3, <1>4, <1>5, <1>6, <1>7, <1>8, <1>9, <1>10, StepCases

-----------------------------------------------------------------------------
(* The theorems *)

LEMMA BatchesInitInv == BatchesInit => BatchesInv
<1> SUFFICES ASSUME BatchesInit PROVE BatchesInv
  OBVIOUS
<1>1. Exclusive /\ CancelledFirst /\ FaultsKnown /\ Unpinned /\ Joined
  BY DEF BatchesInit, Exclusive, CancelledFirst, FaultsKnown, Unpinned, Joined, Offering, Reading,
     Unread,
     Locked, Closing, Ended, Terminal
<1>2. 1 \in Generations
  BY BatchesAssumption DEF BatchesAssumption, Generations
<1>3. Prefix(1)
  BY <1>2, Sized DEF BatchesInit, Prefix, Reading, Offering
<1>4. OneGeneration
  BY <1>2, <1>3 DEF BatchesInit, OneGeneration
<1> QED
  BY <1>1, <1>4, BatchesInitTypes DEF BatchesInv

LEMMA BatchesStepInv == BatchesInv /\ [BatchesNext]_batchesVars => BatchesInv'
  BY StepTypes, ExclusiveStep, CancelledStep, FaultsStep, UnpinnedStep, JoinedStep, GenerationStep
     DEF BatchesInv

LEMMA BatchesInductive == BatchesSpec => []BatchesInv
  BY BatchesInitInv, BatchesStepInv, PTL DEF BatchesSpec

\* While nobody holds the lock, nobody is about to join the producer.
LEMMA QuietJoined == ASSUME BatchesInv, Quiet PROVE ~Joining
  BY BatchesAssumption DEF BatchesInv, Quiet, Exclusive, Joining, Locked, BatchesAssumption

\* Whatever is committed meanwhile and however many threads call next, they are handed the matches
\* of one generation of the index, in order and each once, and all of them if the search ends.
THEOREM BatchesOfOneSnapshot == BatchesSpec => []OneSnapshot
<1>1. BatchesInv => OneSnapshot
  <2> SUFFICES ASSUME BatchesInv PROVE OneSnapshot
    OBVIOUS
  <2>1. PICK g \in Generations : Prefix(g)
    BY DEF BatchesInv, OneGeneration
  <2>2. Len(delivered) <= Sizes[g]
    BY <2>1, Sized, LenProperties DEF BatchesInv, BatchesTypes, Prefix
  <2> QED
    BY <2>1, <2>2 DEF OneSnapshot, Prefix
<1> QED
  BY <1>1, BatchesInductive, PTL

\* An exhausted, closed or failed search has ended its thread, which pins no snapshot.
THEOREM EndReleasesProducer == BatchesSpec => []ProducerReleased
<1>1. BatchesInv => ProducerReleased
  BY QuietJoined DEF BatchesInv, Joined, Unpinned, ProducerReleased
<1> QED
  BY <1>1, BatchesInductive, PTL

\* CloseSearch or no close, a failure of the producer is told to a caller, and nothing else is.
THEOREM FailuresAreTold == BatchesSpec => []FailureReported
<1>1. BatchesInv => FailureReported
  <2> SUFFICES ASSUME BatchesInv, Quiet, state \in Terminal
               PROVE  told <=> fault \in {"query", "cleanup", "panic"}
    BY DEF FailureReported
  <2>1. ~worker /\ producer \in Ended
    BY QuietJoined DEF BatchesInv, Joined
  <2>2. told <=> producer # "ok"
    BY <2>1 DEF BatchesInv, Joined, Ended
  <2>3. producer # "ok" <=> fault \in {"query", "cleanup", "panic"}
    BY <2>1 DEF BatchesInv, FaultsKnown, Ended
  <2> QED
    BY <2>2, <2>3
<1> QED
  BY <1>1, BatchesInductive, PTL
=============================================================================
