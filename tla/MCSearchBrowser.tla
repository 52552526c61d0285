--------------------------- MODULE MCSearchBrowser ---------------------------
(* An instance of SearchBrowser for TLC: a query that finds both sessions  *)
(* and one that finds the second, under an open and a narrow filter.       *)
EXTENDS SearchBrowser

CONSTANTS a, b, wide, narrow, open, none

MCQueries == {wide, narrow}
MCFilters == {open, none}
MCSessions == {a, b}
MCMatches == [<<q, f>> \in MCQueries \X MCFilters |->
               IF f = none THEN IF q = wide THEN <<b>> ELSE <<>>
               ELSE IF q = wide THEN <<a, b>> ELSE <<b, a>>]
=============================================================================
