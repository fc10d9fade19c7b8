--------------------------- MODULE MCJournalStore ---------------------------
(* Two callers, two runs and two payloads for module JournalStore.         *)
EXTENDS JournalStore, TLC

(* Run ids and payloads are chosen by CHOOSE in NoEvent, so only the       *)
(* callers are interchangeable.                                            *)
ClientSymmetry == Permutations(Clients)
=============================================================================
