-------------------------- MODULE MCRefreshElection --------------------------
(* Instances of RefreshElection for TLC. *)
EXTENDS RefreshElection

CONSTANTS server, user

\* All processes are of this release.
MCSchema == [p \in Procs |-> 5]

\* A new database; an index of generation 1, which is not readable; one of
\* generation 4 and a current one whose search layout was damaged; one of a later release.
MCIndexes ==
  {[version |-> 0, fts |-> FALSE, parsed |-> 0, empty |-> TRUE],
   [version |-> 1, fts |-> FALSE, parsed |-> 1, empty |-> FALSE],
   [version |-> 4, fts |-> FALSE, parsed |-> 4, empty |-> FALSE],
   [version |-> 5, fts |-> FALSE, parsed |-> 5, empty |-> FALSE],
   [version |-> 6, fts |-> TRUE, parsed |-> 6, empty |-> FALSE]}

\* An index of this release, found by a user of it and by one who has the next release.
TwoReleases == [p \in Procs |-> IF p = server THEN 6 ELSE 5]
CurrentIndex == {[version |-> 5, fts |-> TRUE, parsed |-> 5, empty |-> FALSE]}
FullReindexes == [p \in Procs |-> {"full"}]

\* A server that refreshes in the background, and a user's commands and library calls.
MCCommands ==
  [p \in Procs |-> IF p = server THEN {"background"} ELSE {"read", "full", "library"}]
=============================================================================
