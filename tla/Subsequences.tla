---------------------------- MODULE Subsequences ----------------------------
(***************************************************************************)
(* The subsequences that a comprehension, or a loop that skips what it has *)
(* seen, makes of a list.  SelectSeq is not used for them: its definition  *)
(* cannot be expanded in a proof.                                          *)
(***************************************************************************)
EXTENDS SequencesExt

(* The elements of s at those places, in their order.                      *)
AtPlaces(s, places) ==
  FlattenSeq([i \in DOMAIN s |-> IF i \in places THEN <<s[i]>> ELSE <<>>])

(* The places of s whose element does not come before.                     *)
FirstPlaces(s) == {i \in DOMAIN s : \A j \in 1 .. i - 1 : s[j] # s[i]}

(* The elements of s, each where it comes first (chosen from one, so that  *)
(* TLC evaluates s once).                                                  *)
Distinct(s) ==
  CHOOSE d \in {AtPlaces(all, FirstPlaces(all)) : all \in {s}} : TRUE
=============================================================================
