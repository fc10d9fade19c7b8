---------------------------- MODULE MCVocabulary ----------------------------
(* Vocabulary with pages that gain, lose and move their one term.  *)
EXTENDS Vocabulary, TLC

CONSTANT a

(* The versions of a page: a term that is found in each context or not.    *)
OneTermPages == [Contexts -> SUBSET {a}]
ThreePages == {p \in OneTermPages : p[2] = {} \/ p[1] = {a}}
TwoPages == {p \in OneTermPages : p[2] = {}}

Listed == [listed |-> Urls, contexts |-> [u \in Urls |-> {1}]]
ListedTwice == [listed |-> Urls, contexts |-> [u \in Urls |-> {1, 2}]]

Same == Permutations(Clients)
=============================================================================
