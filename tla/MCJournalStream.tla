--------------------------- MODULE MCJournalStream ---------------------------
(* Small finished runs for module JournalStream: with and without a        *)
(* configured date, retries, quarantines, gaps of both kinds, and leads.   *)
EXTENDS JournalStream

MCResults ==
  LET made(q, o) == [query |-> q, outcome |-> o] IN
  {[dated |-> TRUE, retries |-> 1, quarantines |-> <<>>,
    leads |-> <<>>, complete |-> FALSE,
    assessments |-> <<made("q1", "access_gap")>>],
   [dated |-> TRUE, retries |-> 0, quarantines |-> <<"bad">>,
    leads |-> <<>>, complete |-> FALSE,
    assessments |-> <<made("q1", "transport_error")>>],
   [dated |-> FALSE, retries |-> 0, quarantines |-> <<>>,
    leads |-> <<"lead">>, complete |-> TRUE,
    assessments |-> <<made("q1", "results")>>]}

MCBodies == {<<"checkpoint", 0>>}
=============================================================================
