----------------------------- MODULE Pagination -----------------------------
(***************************************************************************)
(* One execution of one provider request: assess_search_response and       *)
(* assess_paginated_search of research/search_providers.py.  Everything    *)
(* the page loop remembers (items, cursors, pages seen) is a function of   *)
(* the pages it got, so an execution in progress is the sequence of those. *)
(***************************************************************************)
EXTENDS SequencesExt, Integers

CONSTANTS Results,     \* result items, by their stable key
          Leads,       \* those that the inspector classifies as leads
          Cursors,     \* cursors a next page can be requested with
          BadCursors,  \* cursors it cannot
          NoCursor,    \* the response has no cursor
          MaxPages,    \* MAX_PROVIDER_PAGES
          MaxResults   \* MAX_PROVIDER_RESULTS

ASSUME PaginationAssumption ==
  /\ Leads \subseteq Results
  /\ NoCursor \notin Cursors \cup BadCursors
  /\ {MaxPages, MaxResults} \subseteq Nat \ {0}

(* SearchPageResponse, parsed: a response that is a fault has no items.    *)
Response == [fault : {"none", "access_gap", "transport_error"},
             items : Seq(Results),
             next : Cursors \cup BadCursors \cup {NoCursor},
             exhausted : BOOLEAN]

(* assess_search_response: what the inspection of every item makes of it.  *)
Assessment(page) ==
  CASE page.fault # "none" -> page.fault
    [] page.fault = "none" /\ page.items = <<>> -> "empty"
    [] page.fault = "none" /\ page.items # <<>> ->
         IF ToSet(page.items) \cap Leads = {} THEN "unrelated" ELSE "results"

Items(pages) == FlattenSeq([i \in DOMAIN pages |-> pages[i].items])

(* Those of all pages, each once.                                          *)
Unique(pages) == UNION {ToSet(pages[i].items) : i \in DOMAIN pages}

(* The reasons to stop after the last page, in the order they are tested.  *)
StopTests(pages) ==
  LET n      == Len(pages)
      last   == pages[n]
      before == 1 .. n - 1
      test(reason, holds) == [reason |-> reason, holds |-> holds]
  IN << test("repeated_page", /\ last.fault = "none"
                              /\ \E i \in before : pages[i].items = last.items),
        test("max_results", Cardinality(Unique(pages)) > MaxResults),
        test("access_gap", Assessment(last) = "access_gap"),
        test("transport_error", Assessment(last) = "transport_error"),
        test("unsafe_pagination_response",
             last.exhausted /\ last.next # NoCursor),
        test("first_page_inconclusive",
             /\ last.exhausted /\ n = 1
             /\ Assessment(last) \in {"empty", "unrelated"}),
        test("provider_exhausted", last.exhausted),
        test("next_page_unavailable", last.next = NoCursor),
        test("repeated_cursor",
             \E i \in before : pages[i].next = last.next),
        test("max_pages", n >= MaxPages),
        test("unsafe_pagination_response", last.next \in BadCursors) >>

Reasons == {"repeated_page", "max_results", "access_gap", "transport_error",
            "unsafe_pagination_response", "first_page_inconclusive",
            "provider_exhausted", "next_page_unavailable",
            "repeated_cursor", "max_pages", "unsupported_pagination"}

FirstHolding(tests) ==
  LET holding == {i \in DOMAIN tests : tests[i].holds}
  IN IF holding = {} THEN "none" ELSE tests[Min(holding)].reason

(* Mutant: a claim of exhaustion is believed first of all.                 *)
StopReasonExhaustedFirst(pages) ==
  IF pages[Len(pages)].exhausted THEN "provider_exhausted"
  ELSE FirstHolding(StopTests(pages))

(* assess_paginated_search, where it returns; "none" when it asks for the  *)
(* next page.                                                              *)
StopReason(pages) == FirstHolding(StopTests(pages))
=============================================================================
