------------------------------- MODULE McpRoots -------------------------------
(***************************************************************************)
(* mcp_server.rs: the roots of the client as authority of a restricted     *)
(* search scope.  The client may change its roots at any time and then     *)
(* notifies the server.  The handler of a notification takes the old roots *)
(* away at once, and the first of them asks the client for the new ones;   *)
(* the others leave it to notice, by comparing generations, that it has to *)
(* ask again.  Tool calls meanwhile open the application with the roots    *)
(* that are in place.                                                      *)
(*                                                                         *)
(* The transport (rmcp) is external: it runs every handler as a task of    *)
(* its own, in any order, and an answer is as old as the moment it was     *)
(* given.  The roots of the client are numbered by its changes, and the    *)
(* handler of change h is h; 0 is the initial list, asked for by           *)
(* on_initialized.  Locks are not poisoned.                                *)
(***************************************************************************)
EXTENDS Naturals, FiniteSets

CONSTANTS
  MaxChanges,   \* how often the client changes its roots
  MaxFailures,  \* how many roots/list requests fail
  Invalid,      \* the changes whose roots do not resolve
  Configured,   \* whether the configuration names roots of its own
  Nothing,      \* no roots, no error
  Failed        \* instead of roots, that roots/list failed

Changes == 0..MaxChanges

ASSUME RootsAssumption ==
  /\ MaxChanges \in Nat /\ MaxFailures \in Nat
  /\ Invalid \subseteq Changes /\ Configured \in BOOLEAN
  /\ Nothing \notin Changes /\ Failed \notin Changes \cup {Nothing}

VARIABLES
  listed,    \* the client: its last change
  failures,
  handler,   \* handler[h]: where the task for change h is
  wanted,    \* wanted[h]: the generation it asks for
  answer,    \* answer[h]: the roots it was given, or Failed
  generation, inFlight,  \* OfficialRootsRefreshState
  roots,     \* harness_roots
  error,     \* roots_error: the roots at fault, or Failed
  app        \* the roots the open application was given

client == <<listed, failures>>
tasks == <<handler, wanted, answer>>
flight == <<generation, inFlight>>
authority == <<roots, error, app>>
rootsVars == <<client, tasks, flight, authority>>

NoApp == [open |-> FALSE, roots |-> Nothing]

-----------------------------------------------------------------------------
(* The client changes its roots and sends the notification.                *)
Change ==
  /\ listed < MaxChanges
  /\ listed' = listed + 1
  /\ handler' = [handler EXCEPT ![listed + 1] = "sent"]
  /\ UNCHANGED <<failures, wanted, answer, flight, authority>>

\* A mutant: a notification that finds a request in flight leaves the generation alone.
RevokeQuietly(h) ==
  /\ handler[h] = "sent"
  /\ app' = NoApp /\ roots' = Nothing /\ error' = Nothing
  /\ inFlight' = TRUE
  /\ IF inFlight
     THEN handler' = [handler EXCEPT ![h] = "done"] /\ UNCHANGED <<wanted, generation>>
     ELSE /\ handler' = [handler EXCEPT ![h] = "asking"]
          /\ wanted' = [wanted EXCEPT ![h] = h] /\ generation' = h
  /\ UNCHANGED <<client, answer>>

(* The handler runs: a new generation, and no roots until they are listed. *)
Revoke(h) ==
  /\ handler[h] = "sent"
  /\ generation' = h
  /\ app' = NoApp /\ roots' = Nothing /\ error' = Nothing
  /\ inFlight' = TRUE
  /\ IF inFlight
     THEN handler' = [handler EXCEPT ![h] = "done"] /\ UNCHANGED wanted
     ELSE /\ handler' = [handler EXCEPT ![h] = "asking"]
          /\ wanted' = [wanted EXCEPT ![h] = h]
  /\ UNCHANGED <<client, answer>>

(* peer.list_roots(): the client answers with what it has then.            *)
Answer(h) ==
  /\ handler[h] = "asking"
  /\ handler' = [handler EXCEPT ![h] = "answered"]
  /\ \/ answer' = [answer EXCEPT ![h] = listed] /\ UNCHANGED failures
     \/ /\ failures < MaxFailures
        /\ failures' = failures + 1
        /\ answer' = [answer EXCEPT ![h] = Failed]
  /\ UNCHANGED <<listed, wanted, flight, authority>>

AskAgain(h) ==
  /\ wanted' = [wanted EXCEPT ![h] = generation]
  /\ handler' = [handler EXCEPT ![h] = "asking"]

(* A stale answer is not even validated.                                   *)
Compare(h) ==
  /\ handler[h] = "answered"
  /\ IF wanted[h] # generation
     THEN AskAgain(h)
     ELSE handler' = [handler EXCEPT ![h] = "validated"] /\ UNCHANGED wanted
  /\ UNCHANGED <<client, answer, flight, authority>>

\* A mutant: the application opened meanwhile stays.
ApplyKeepsApp(h) ==
  /\ handler[h] = "validated"
  /\ IF wanted[h] # generation
     THEN AskAgain(h) /\ UNCHANGED <<inFlight, authority>>
     ELSE /\ IF answer[h] \in Changes \ Invalid
             THEN roots' = answer[h] /\ error' = Nothing
             ELSE roots' = Nothing /\ error' = answer[h]
          /\ inFlight' = FALSE
          /\ handler' = [handler EXCEPT ![h] = "done"]
          /\ UNCHANGED <<wanted, app>>
  /\ UNCHANGED <<client, answer, generation>>

\* A mutant: roots that do not resolve leave the request marked in flight.
ApplyValid(h) ==
  /\ handler[h] = "validated"
  /\ IF wanted[h] # generation
     THEN AskAgain(h) /\ UNCHANGED <<inFlight, authority>>
     ELSE /\ app' = NoApp
          /\ IF answer[h] \in Changes \ Invalid
             THEN roots' = answer[h] /\ error' = Nothing /\ inFlight' = FALSE
             ELSE roots' = Nothing /\ error' = answer[h] /\ UNCHANGED inFlight
          /\ handler' = [handler EXCEPT ![h] = "done"]
          /\ UNCHANGED wanted
  /\ UNCHANGED <<client, answer, generation>>

(* Generations are compared again under the lock that the roots are put in *)
(* place under; the application that calls have opened meanwhile goes.     *)
Apply(h) ==
  /\ handler[h] = "validated"
  /\ IF wanted[h] # generation
     THEN AskAgain(h) /\ UNCHANGED <<inFlight, authority>>
     ELSE /\ app' = NoApp
          /\ IF answer[h] \in Changes \ Invalid
             THEN roots' = answer[h] /\ error' = Nothing
             ELSE roots' = Nothing /\ error' = answer[h]
          /\ inFlight' = FALSE
          /\ handler' = [handler EXCEPT ![h] = "done"]
          /\ UNCHANGED wanted
  /\ UNCHANGED <<client, answer, generation>>

(* A tool call opens the application for later ones, unless the roots are  *)
(* in error or there are none.                                             *)
OpenApp ==
  /\ error = Nothing /\ app = NoApp
  /\ roots # Nothing \/ Configured
  /\ app' = [open |-> TRUE, roots |-> roots]
  /\ UNCHANGED <<client, tasks, flight, roots, error>>

-----------------------------------------------------------------------------
RootsInit ==
  /\ listed = 0 /\ failures = 0
  /\ handler = [h \in Changes |-> IF h = 0 THEN "sent" ELSE "unsent"]
  /\ wanted = [h \in Changes |-> Nothing] /\ answer = [h \in Changes |-> Nothing]
  /\ generation = Nothing /\ inFlight = FALSE
  /\ roots = Nothing /\ error = Nothing /\ app = NoApp

HandleRoots(h) == Revoke(h) \/ Compare(h) \/ Apply(h)

RootsNext == Change \/ OpenApp \/ \E h \in Changes : HandleRoots(h) \/ Answer(h)

RootsSpec == RootsInit /\ [][RootsNext]_rootsVars
RootsFairSpec == RootsSpec /\ \A h \in Changes : WF_rootsVars(HandleRoots(h)) /\ WF_rootsVars(Answer(h))

-----------------------------------------------------------------------------
TypeOK ==
  /\ listed \in Changes /\ failures \in 0..MaxFailures
  /\ handler \in [Changes -> {"unsent", "sent", "asking", "answered", "validated", "done"}]
  /\ \A h \in Changes : handler[h] = "unsent" <=> h > listed
  /\ wanted \in [Changes -> Changes \cup {Nothing}]
  /\ answer \in [Changes -> Changes \cup {Nothing, Failed}]
  /\ generation \in Changes \cup {Nothing} /\ inFlight \in BOOLEAN
  /\ roots \in (Changes \ Invalid) \cup {Nothing}
  /\ error \in Invalid \cup {Nothing, Failed}
  /\ app.open \in BOOLEAN /\ app.roots \in (Changes \ Invalid) \cup {Nothing}

Asking == {h \in Changes : handler[h] \in {"asking", "answered", "validated"}}
Handled == {h \in 0..listed : handler[h] # "sent"}

(* At most one handler at a time asks for the roots, and one does whenever *)
(* the flag says so.                                                       *)
SingleFlight == IF inFlight THEN \E h \in Changes : Asking = {h} ELSE Asking = {}

(* Roots in place are no older than any change the server has been told    *)
(* of: no answer given before that is accepted after it, whatever order    *)
(* notifications and answers are handled in.                               *)
NoStaleRoots == roots # Nothing => \A h \in Handled : roots >= h

(* The application that calls share was opened with the roots in place.    *)
AppHasTheRoots == app.open => app.roots = roots /\ error = Nothing

(* A client that stops changing its roots has them in place in the end, or *)
(* is told, by the error of its calls, that they, or the request, failed.  *)
RootsSettle ==
  <>[](\/ roots = listed /\ error = Nothing
       \/ error = listed /\ listed \in Invalid
       \/ error = Failed)
=============================================================================
