--------------------------- MODULE MCDiscoveryRun ---------------------------
(* DiscoveryRun with a paginated channel g and an unpaginated one u.       *)
EXTENDS DiscoveryRun

CONSTANTS r1, r2, g, u, v1, v2

Answered(candidates) == [valid |-> TRUE, entries |-> candidates]

NoList == [valid |-> FALSE, entries |-> <<>>]

(* A malformed candidate with two siblings; one that they share, and a new *)
(* one; k is known.                                                        *)
SomeAnswers ==
  {NoList, Answered(<< <<>>, <<"a">>, <<"b">> >>),
   Answered(<< <<"b", "a">>, <<"c">>, <<"d", "k">>, <<"e">> >>)}

Page(items, next, exhausted) ==
  [fault |-> "none", items |-> items, next |-> next, exhausted |-> exhausted]

Fault == [fault |-> "transport_error", items |-> <<>>, next |-> NoCursor,
          exhausted |-> TRUE]

SomePages ==
  (g :> {Fault, Page(<<>>, NoCursor, TRUE), Page(<<r1>>, 1, FALSE),
         Page(<<r2>>, NoCursor, TRUE)})
  @@ (u :> {Fault, Page(<<r2>>, NoCursor, TRUE)})

Ask(query, channel, base) ==
  [query |-> query, channel |-> channel,
   text |-> [base |-> base, without |-> <<>>]]

(* The vocabulary as it is first, and as another run may leave it.         *)
FirstQueries == (v1 :> <<Ask("q", g, "t"), Ask("q", u, "t")>>)
             @@ (v2 :> <<Ask("q", u, "iso")>>)

OneRecall == (v1 :> <<Ask("q", u, "iso")>>) @@ (v2 :> <<>>)

OneFormulation == (v1 :> <<[query |-> "q", channel |-> u, base |-> "t",
                            plain |-> TRUE]>>)
               @@ (v2 :> <<>>)

Inventory == <<"k">>
Titles == (r1 :> "a") @@ (r2 :> "r")

(* r1 names x, to be looked up with g, and what u was asked already; r2    *)
(* names x again and y.                                                    *)
TwoLeads == (r1 :> <<[term |-> "x", targets |-> <<g>>],
                     [term |-> "t", targets |-> <<u>>]>>)
         @@ (r2 :> <<[term |-> "x", targets |-> <<g>>],
                     [term |-> "y", targets |-> <<g>>]>>)
=============================================================================
