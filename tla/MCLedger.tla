------------------------------ MODULE MCLedger ------------------------------
(* Ledger with two cells of different categories.                          *)
EXTENDS Ledger, TLC

CONSTANTS corpus, tool, corpus_ohg, tool_ohg, rc, rt, none, cand, other,
          p1, p2, p3, q1, stray, nocell

CellCategories     == [x \in Cells |-> IF x = tool_ohg THEN tool ELSE corpus]
ResourceCategories == [r \in Resources |-> IF r = rt THEN tool ELSE corpus]
PassCells ==
  [p \in PassIds |-> CASE p = q1 -> tool_ohg [] p = stray -> nocell
                       [] OTHER -> corpus_ohg]
Trusted == [id \in CandidateIds |-> IF id = other THEN rc ELSE none]

(* The order in which the passes of the corpus cell are recorded does not  *)
(* depend on their names; nor does anything on the clients' names.         *)
Alike == Permutations({p1, p2, p3} \cap PassIds) \cup Permutations(Clients)
=============================================================================
