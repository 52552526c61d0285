----------------------------- MODULE ArchiveRows -----------------------------
(***************************************************************************)
(* The multiset arithmetic of the archive rule in db.rs: how the rows a    *)
(* session already stores are compared with the rows a full parse of its   *)
(* transcript yields.  A row is compared by its identity key (db.rs        *)
(* MessageKeys.role_and_content, FileEditKeys.edit), so the operators take *)
(* sequences of keys and know nothing else about a row.                    *)
(***************************************************************************)
EXTENDS Naturals, Sequences, FiniteSets, Picks

Keys(q) == {q[i] : i \in DOMAIN q}

\* key_counts: how many copies of key k the sequence q holds.
Copies(q, k) == Cardinality({i \in DOMAIN q : q[i] = k})

\* covers_every_stored_key with take_key: every stored copy finds its own copy in the parse.
Covers(stored, parsed) ==
  \A k \in Keys(stored) : Copies(stored, k) <= Copies(parsed, k)

\* The rank of position i among the equal keys of q: 1 for the first copy, 2 for the second.
Rank(q, i) == Cardinality({j \in 1..i : q[j] = q[i]})

\* Positions of the parse no stored copy accounts for: take_key gives stored copies away in
\* the parse's order, so the first copies of a key are the accounted ones.
UnseenPositions(stored, parsed) ==
  {i \in DOMAIN parsed : Rank(parsed, i) > Copies(stored, parsed[i])}

\* An index that mirrors the transcript instead of archiving it.
StoredMirror(stored, parsed, sameParser) == parsed

\* store_parsed_messages without the append shortcut, on keys: a parser change, or a parse
\* that still holds every stored row, replaces the rows; otherwise the stored rows stay and
\* the rows only the parse holds follow them.
Stored(stored, parsed, sameParser) ==
  IF ~sameParser \/ Covers(stored, parsed)
  THEN parsed
  ELSE stored \o Pick(parsed, UnseenPositions(stored, parsed))

\* A mutant: the target's rows stand for all of the retired identity's.
MergedTarget(held, retired) == IF held = << >> THEN retired ELSE held

\* move_retired_rows, on keys: what the target holds stays, and the rows of the retired
\* identity that no copy of the target accounts for follow.
Merged(held, retired) == held \o Pick(retired, UnseenPositions(held, retired))

=============================================================================
