---------------------------- MODULE SequenceLemmas ----------------------------
(***************************************************************************)
(* Facts about sequences that the proofs of several components rest on.    *)
(* Induction is over sets: a set that holds the empty sequence and, with a *)
(* sequence, all that have one element more, holds every sequence.         *)
(***************************************************************************)
EXTENDS Subsequences, Integers, WellFoundedInduction, TLAPS

(* A set of naturals that has an element has a least one.                  *)
LEMMA LeastOfSome ==
  ASSUME NEW S, S \subseteq Nat, S # {}
  PROVE  \E i \in S : \A j \in S : i <= j
  <1> DEFINE R == OpToRel(<, Nat)
  <1>1. IsWellFoundedOn(R, Nat)
    BY NatLessThanWellFounded
  <1>2. \A i, j \in Nat : <<i, j>> \in R <=> i < j
    BY DEF OpToRel
  <1> HIDE DEF R
  <1>3. PICK i \in S : \A j \in S : <<j, i>> \notin R
    BY <1>1, WFMin
  <1>4. i \in Nat /\ \A j \in S : j \in Nat /\ ~(j < i)
    BY <1>2, <1>3
  <1>5. \A j \in S : i <= j
    BY <1>4
  <1> QED
    BY <1>5

(* A set that holds 0 and, with a number, the next one holds every number. *)
LEMMA EveryNumber ==
  ASSUME NEW T, 0 \in T, \A n \in Nat : n \in T => n + 1 \in T
  PROVE  Nat \subseteq T
  <1> DEFINE missing == Nat \ T
  <1>1. SUFFICES ASSUME missing # {} PROVE FALSE
    OBVIOUS
  <1>2. PICK n \in missing : \A m \in missing : n <= m
    BY <1>1, LeastOfSome
  <1>3. n # 0 /\ n \in Nat
    BY <1>2
  <1>4. n - 1 \in Nat /\ n - 1 \notin missing
    BY <1>2, <1>3
  <1>5. n - 1 \in T
    BY <1>4
  <1>6. (n - 1) + 1 \in T
    BY <1>4, <1>5
  <1> QED
    BY <1>2, <1>3, <1>6

(* A sequence that is not empty is another one and its last element.       *)
LEMMA FrontAndLast ==
  ASSUME NEW S, NEW s \in Seq(S), NEW n \in Nat, Len(s) = n + 1
  PROVE  \E r \in Seq(S) : /\ Len(r) = n /\ s[n + 1] \in S
                           /\ s = Append(r, s[n + 1])
  <1> DEFINE r == [i \in 1 .. n |-> s[i]]
  <1>1. s \in [1 .. n + 1 -> S] /\ DOMAIN s = 1 .. n + 1
    OBVIOUS
  <1>2. r \in [1 .. n -> S]
    BY <1>1
  <1>3. r \in Seq(S) /\ Len(r) = n
    BY <1>2
  <1>4. s[n + 1] \in S
    BY <1>1
  <1>5. /\ Append(r, s[n + 1]) \in Seq(S)
        /\ Len(Append(r, s[n + 1])) = n + 1
        /\ \A i \in 1 .. n + 1 : Append(r, s[n + 1])[i] = s[i]
    BY <1>3, <1>4
  <1> HIDE DEF r
  <1>6. s = Append(r, s[n + 1])
    BY <1>1, <1>5
  <1> QED
    BY <1>3, <1>4, <1>6

(* Induction over sequences.                                               *)
LEMMA EverySequence ==
  ASSUME NEW S, NEW T, <<>> \in T,
         \A s \in Seq(S), e \in S : s \in T => Append(s, e) \in T
  PROVE  Seq(S) \subseteq T
  <1> DEFINE N == {n \in Nat : \A s \in Seq(S) : Len(s) = n => s \in T}
  <1>1. 0 \in N
    <2>1. \A s \in Seq(S) : Len(s) = 0 => s = <<>>
      OBVIOUS
    <2> QED
      BY <2>1
  <1>2. ASSUME NEW n \in Nat, n \in N PROVE n + 1 \in N
    <2>1. ASSUME NEW s \in Seq(S), Len(s) = n + 1 PROVE s \in T
      <3>1. PICK r \in Seq(S) : /\ Len(r) = n /\ s[n + 1] \in S
                                /\ s = Append(r, s[n + 1])
        BY <2>1, FrontAndLast
      <3>2. r \in T
        BY <1>2, <3>1
      <3> QED
        BY <3>1, <3>2
    <2> QED
      BY <2>1
  <1>3. Nat \subseteq N
    <2> HIDE DEF N
    <2> QED
      BY <1>1, <1>2, EveryNumber
  <1>4. ASSUME NEW s \in Seq(S) PROVE s \in T
    <2>1. Len(s) \in Nat
      OBVIOUS
    <2> QED
      BY <1>3, <2>1
  <1> QED
    BY <1>4

-----------------------------------------------------------------------------
(* What FlattenSeq computes: the concatenations of the first sequences.    *)
Flattens(f, ss, n) ==
  f = [i \in 1 .. n |-> IF i = 1 THEN ss[i] ELSE f[i - 1] \o ss[i]]

LEMMA FlattensExists ==
  ASSUME NEW ss, NEW n \in Nat PROVE \E f : Flattens(f, ss, n)
  <1> DEFINE N == {m \in Nat : \E f : Flattens(f, ss, m)}
  <1>1. 0 \in N
    <2>1. Flattens(<<>>, ss, 0)
      BY DEF Flattens
    <2> QED
      BY <2>1
  <1>2. ASSUME NEW m \in Nat, m \in N PROVE m + 1 \in N
    <2>1. PICK f : Flattens(f, ss, m)
      BY <1>2
    <2> DEFINE next == IF m = 0 THEN ss[1] ELSE f[m] \o ss[m + 1]
               g == [i \in 1 .. m + 1 |-> IF i <= m THEN f[i] ELSE next]
    <2>2. ASSUME NEW i \in 1 .. m + 1
          PROVE  g[i] = IF i = 1 THEN ss[i] ELSE g[i - 1] \o ss[i]
      <3>1. CASE i <= m
        <4>1. i \in 1 .. m /\ (i # 1 => i - 1 \in 1 .. m)
          BY <3>1
        <4>2. f[i] = IF i = 1 THEN ss[i] ELSE f[i - 1] \o ss[i]
          BY <2>1, <4>1 DEF Flattens
        <4> QED
          BY <3>1, <4>1, <4>2
      <3>2. CASE i = m + 1
        <4>1. g[i] = next
          BY <3>2
        <4>2. i # 1 => g[i - 1] = f[m]
          BY <3>2
        <4> QED
          BY <3>2, <4>1, <4>2
      <3> QED
        BY <3>1, <3>2
    <2>3. Flattens(g, ss, m + 1)
      BY <2>2 DEF Flattens
    <2> QED
      BY <2>3
  <1>3. Nat \subseteq N
    <2> HIDE DEF N
    <2> QED
      BY <1>1, <1>2, EveryNumber
  <1> QED
    BY <1>3

LEMMA FlattenSeqFlattens ==
  ASSUME NEW ss, Len(ss) \in Nat \ {0}
  PROVE  \E f : Flattens(f, ss, Len(ss)) /\ FlattenSeq(ss) = f[Len(ss)]
  <1> DEFINE f == CHOOSE g : g = [i \in 1 .. Len(ss) |->
                         IF i = 1 THEN ss[i] ELSE g[i - 1] \o ss[i]]
  <1>1. f = [i \in 1 .. Len(ss) |->
               IF i = 1 THEN ss[i] ELSE f[i - 1] \o ss[i]]
    BY FlattensExists DEF Flattens
  <1>2. FlattenSeq(ss) = f[Len(ss)]
    BY DEF FlattenSeq
  <1> QED
    BY <1>1, <1>2 DEF Flattens

LEMMA FlattenNothing == FlattenSeq(<<>>) = <<>>
  BY DEF FlattenSeq

(* One sequence more is concatenated at the end.                           *)
LEMMA FlattenAppend ==
  ASSUME NEW S, NEW ss \in Seq(Seq(S)), NEW s \in Seq(S)
  PROVE  FlattenSeq(Append(ss, s)) = FlattenSeq(ss) \o s
  <1> DEFINE n == Len(ss)
             all == Append(ss, s)
  <1>1. /\ n \in Nat /\ Len(all) = n + 1 /\ all[n + 1] = s
        /\ \A i \in 1 .. n : all[i] = ss[i]
    OBVIOUS
  <1> HIDE DEF all
  <1>2. PICK g : Flattens(g, all, n + 1) /\ FlattenSeq(all) = g[n + 1]
    BY <1>1, FlattenSeqFlattens
  <1>3. CASE n = 0
    <2>1. ss = <<>>
      BY <1>3
    <2>2. g[1] = s
      BY <1>1, <1>2, <1>3 DEF Flattens
    <2>3. <<>> \o s = s
      OBVIOUS
    <2> QED
      BY <1>2, <1>3, <2>1, <2>2, <2>3, FlattenNothing DEF all
  <1>4. CASE n # 0
    <2>1. PICK f : Flattens(f, ss, n) /\ FlattenSeq(ss) = f[n]
      BY <1>1, <1>4, FlattenSeqFlattens
    <2> DEFINE N == {i \in Nat : i \in 1 .. n => f[i] = g[i]}
    <2>2. 0 \in N
      OBVIOUS
    <2>3. ASSUME NEW i \in Nat, i \in N PROVE i + 1 \in N
      <3>1. CASE i + 1 \notin 1 .. n
        BY <3>1
      <3>2. CASE i + 1 \in 1 .. n
        <4>1. i # 0 => f[i] = g[i]
          BY <2>3, <3>2, <1>1
        <4>2. f[i + 1] = IF i + 1 = 1 THEN ss[i + 1] ELSE f[i] \o ss[i + 1]
          <5>1. f[i + 1] = IF i + 1 = 1 THEN ss[i + 1]
                           ELSE f[(i + 1) - 1] \o ss[i + 1]
            BY <2>1, <3>2 DEF Flattens
          <5>2. (i + 1) - 1 = i
            OBVIOUS
          <5> QED
            BY <5>1, <5>2
        <4>3. g[i + 1] = IF i + 1 = 1 THEN all[i + 1] ELSE g[i] \o all[i + 1]
          <5>1. i + 1 \in 1 .. n + 1
            BY <1>1, <3>2
          <5>2. g[i + 1] = IF i + 1 = 1 THEN all[i + 1]
                           ELSE g[(i + 1) - 1] \o all[i + 1]
            BY <1>2, <5>1 DEF Flattens
          <5>3. (i + 1) - 1 = i
            OBVIOUS
          <5> QED
            BY <5>2, <5>3
        <4>4. all[i + 1] = ss[i + 1]
          BY <1>1, <3>2
        <4>5. f[i + 1] = g[i + 1]
          BY <4>1, <4>2, <4>3, <4>4
        <4> QED
          BY <4>5
      <3> QED
        BY <3>1, <3>2
    <2>4. n \in N
      <3> HIDE DEF N, n
      <3> QED
        BY <1>1, <2>2, <2>3, EveryNumber
    <2>5. f[n] = g[n]
      BY <1>1, <1>4, <2>4
    <2>6. g[n + 1] = g[n] \o all[n + 1]
      <3>1. n + 1 \in 1 .. n + 1 /\ (n + 1) - 1 = n /\ n + 1 # 1
        BY <1>1, <1>4
      <3> QED
        BY <1>2, <3>1 DEF Flattens
    <2> QED
      BY <1>1, <1>2, <2>1, <2>5, <2>6 DEF all
  <1> QED
    BY <1>3, <1>4

LEMMA FlattenType ==
  ASSUME NEW S, NEW ss \in Seq(Seq(S)) PROVE FlattenSeq(ss) \in Seq(S)
  <1> DEFINE T == {t \in Seq(Seq(S)) : FlattenSeq(t) \in Seq(S)}
  <1>1. <<>> \in T
    <2>1. <<>> \in Seq(Seq(S)) /\ <<>> \in Seq(S)
      OBVIOUS
    <2> QED
      BY <2>1, FlattenNothing
  <1>2. ASSUME NEW t \in Seq(Seq(S)), NEW s \in Seq(S), t \in T
        PROVE  Append(t, s) \in T
    <2>1. FlattenSeq(Append(t, s)) = FlattenSeq(t) \o s
      BY FlattenAppend
    <2>2. FlattenSeq(t) \o s \in Seq(S)
      BY <1>2
    <2>3. Append(t, s) \in Seq(Seq(S))
      OBVIOUS
    <2> QED
      BY <2>1, <2>2, <2>3
  <1>3. Seq(Seq(S)) \subseteq T
    <2> HIDE DEF T
    <2> QED
      BY <1>1, <1>2, EverySequence
  <1> QED
    BY <1>3

-----------------------------------------------------------------------------
(* Subsequences.                                                           *)
LEMMA PartsAreSequences ==
  ASSUME NEW R, NEW s \in Seq(R), NEW P, NEW S,
         \A i \in DOMAIN s : i \in P => s[i] \in S
  PROVE  LET parts == [i \in DOMAIN s |-> IF i \in P THEN <<s[i]>> ELSE <<>>]
         IN parts \in Seq(Seq(S)) /\ Len(parts) = Len(s)
  <1> DEFINE parts == [i \in DOMAIN s |-> IF i \in P THEN <<s[i]>> ELSE <<>>]
  <1>1. DOMAIN s = 1 .. Len(s) /\ Len(s) \in Nat
    OBVIOUS
  <1>2. ASSUME NEW i \in DOMAIN s PROVE parts[i] \in Seq(S)
    OBVIOUS
  <1>3. parts \in [1 .. Len(s) -> Seq(S)]
    BY <1>1, <1>2
  <1> HIDE DEF parts
  <1>4. parts \in Seq(Seq(S)) /\ Len(parts) = Len(s)
    BY <1>1, <1>3
  <1> QED
    BY <1>4 DEF parts

LEMMA AtNoPlaces ==
  ASSUME NEW P PROVE AtPlaces(<<>>, P) = <<>>
  <1>1. [i \in DOMAIN <<>> |-> IF i \in P THEN <<(<<>>[i])>> ELSE <<>>] = <<>>
    OBVIOUS
  <1> QED
    BY <1>1, FlattenNothing DEF AtPlaces

LEMMA AtPlacesIn ==
  ASSUME NEW R, NEW s \in Seq(R), NEW P, NEW S,
         \A i \in DOMAIN s : i \in P => s[i] \in S
  PROVE  AtPlaces(s, P) \in Seq(S)
  BY PartsAreSequences, FlattenType DEF AtPlaces

LEMMA AtPlacesType ==
  ASSUME NEW S, NEW s \in Seq(S), NEW P
  PROVE  AtPlaces(s, P) \in Seq(S)
  <1>1. \A i \in DOMAIN s : s[i] \in S
    OBVIOUS
  <1> QED
    BY <1>1, AtPlacesIn

(* Only the places of s matter.                                            *)
LEMMA AtSamePlaces ==
  ASSUME NEW s, NEW P, NEW Q, \A i \in DOMAIN s : i \in P <=> i \in Q
  PROVE  AtPlaces(s, P) = AtPlaces(s, Q)
  <1>1. [i \in DOMAIN s |-> IF i \in P THEN <<s[i]>> ELSE <<>>]
          = [i \in DOMAIN s |-> IF i \in Q THEN <<s[i]>> ELSE <<>>]
    OBVIOUS
  <1> QED
    BY <1>1 DEF AtPlaces

LEMMA AtPlacesAppend ==
  ASSUME NEW S, NEW s \in Seq(S), NEW e \in S, NEW P
  PROVE  AtPlaces(Append(s, e), P) =
           IF Len(s) + 1 \in P THEN Append(AtPlaces(s, P), e)
                               ELSE AtPlaces(s, P)
  <1> DEFINE n == Len(s)
             t == Append(s, e)
             last == IF n + 1 \in P THEN <<e>> ELSE <<>>
             parts == [i \in DOMAIN s |-> IF i \in P THEN <<s[i]>> ELSE <<>>]
             all == [i \in DOMAIN t |-> IF i \in P THEN <<t[i]>> ELSE <<>>]
  <1>1. /\ n \in Nat /\ DOMAIN s = 1 .. n /\ DOMAIN t = 1 .. n + 1
        /\ t \in Seq(S) /\ t[n + 1] = e
        /\ \A i \in 1 .. n : t[i] = s[i]
    OBVIOUS
  <1>2. /\ parts \in Seq(Seq(S)) /\ Len(parts) = n /\ last \in Seq(S)
        /\ all \in Seq(Seq(S)) /\ Len(all) = n + 1
    <2>1. parts \in Seq(Seq(S)) /\ Len(parts) = n
      <3>1. \A i \in DOMAIN s : i \in P => s[i] \in S
        OBVIOUS
      <3> QED
        BY <3>1, PartsAreSequences
    <2>2. Len(t) = n + 1
      OBVIOUS
    <2> HIDE DEF t
    <2>3. all \in Seq(Seq(S)) /\ Len(all) = Len(t)
      <3>1. \A i \in DOMAIN t : i \in P => t[i] \in S
        BY <1>1
      <3> QED
        BY <1>1, <3>1, PartsAreSequences
    <2>4. last \in Seq(S)
      OBVIOUS
    <2> QED
      BY <2>1, <2>2, <2>3, <2>4
  <1>3. \A i \in 1 .. n + 1 : all[i] = Append(parts, last)[i]
    <2>1. ASSUME NEW i \in 1 .. n PROVE all[i] = Append(parts, last)[i]
      <3>1. all[i] = parts[i]
        BY <1>1
      <3> HIDE DEF parts, last, all, t, n
      <3>2. Append(parts, last)[i] = parts[i]
        BY <1>2
      <3> QED
        BY <3>1, <3>2
    <2>2. all[n + 1] = last
      BY <1>1
    <2> HIDE DEF parts, last, all, t, n
    <2>3. Append(parts, last)[n + 1] = last
      BY <1>2
    <2>4. \A i \in 1 .. n + 1 : i \in 1 .. n \/ i = n + 1
      BY <1>1
    <2> QED
      BY <2>1, <2>2, <2>3, <2>4
  <1>4. AtPlaces(t, P) = FlattenSeq(all) /\ AtPlaces(s, P) = FlattenSeq(parts)
    BY DEF AtPlaces
  <1>5. last = <<e>> \/ last = <<>>
    OBVIOUS
  <1>6. last = IF n + 1 \in P THEN <<e>> ELSE <<>>
    OBVIOUS
  <1> HIDE DEF parts, last, all, t
  <1>7. all = Append(parts, last)
    BY <1>1, <1>2, <1>3
  <1>8. FlattenSeq(all) = FlattenSeq(parts) \o last
    BY <1>2, <1>7, FlattenAppend
  <1>9. FlattenSeq(parts) \in Seq(S)
    BY <1>2, FlattenType
  <1>10. FlattenSeq(parts) \o <<e>> = Append(FlattenSeq(parts), e)
         /\ FlattenSeq(parts) \o <<>> = FlattenSeq(parts)
    BY <1>9
  <1> QED
    BY <1>4, <1>6, <1>8, <1>10 DEF t

LEMMA ToSetAppend ==
  ASSUME NEW S, NEW s \in Seq(S), NEW e \in S
  PROVE  ToSet(Append(s, e)) = ToSet(s) \cup {e}
  <1> DEFINE n == Len(s)
             t == Append(s, e)
  <1>1. /\ n \in Nat /\ DOMAIN s = 1 .. n /\ DOMAIN t = 1 .. n + 1
        /\ t[n + 1] = e /\ \A i \in 1 .. n : t[i] = s[i]
    OBVIOUS
  <1> HIDE DEF t
  <1>2. \A i : i \in 1 .. n + 1 <=> i \in 1 .. n \/ i = n + 1
    BY <1>1
  <1>3. ToSet(t) = ToSet(s) \cup {e}
    BY <1>1, <1>2 DEF ToSet
  <1> QED
    BY <1>3 DEF t

LEMMA ToSetOfNothing == ToSet(<<>>) = {}
  BY DEF ToSet

LEMMA DistinctAtPlaces ==
  ASSUME NEW s PROVE Distinct(s) = AtPlaces(s, FirstPlaces(s))
  BY DEF Distinct

LEMMA DistinctOfNothing == Distinct(<<>>) = <<>>
  BY DistinctAtPlaces, AtNoPlaces

LEMMA DistinctType ==
  ASSUME NEW S, NEW s \in Seq(S) PROVE Distinct(s) \in Seq(S)
  BY DistinctAtPlaces, AtPlacesType

(* _retain_leads: an element that is not there yet is retained.            *)
LEMMA DistinctAppend ==
  ASSUME NEW S, NEW s \in Seq(S), NEW e \in S
  PROVE  Distinct(Append(s, e)) = IF e \in ToSet(s) THEN Distinct(s)
                                  ELSE Append(Distinct(s), e)
  <1> DEFINE n == Len(s)
             t == Append(s, e)
  <1>1. /\ n \in Nat /\ DOMAIN s = 1 .. n /\ DOMAIN t = 1 .. n + 1
        /\ t[n + 1] = e /\ \A i \in 1 .. n : t[i] = s[i]
    OBVIOUS
  <1> HIDE DEF t
  <1>2. \A i \in DOMAIN s : i \in FirstPlaces(t) <=> i \in FirstPlaces(s)
    <2> SUFFICES ASSUME NEW i \in 1 .. n
                 PROVE  i \in FirstPlaces(t) <=> i \in FirstPlaces(s)
      BY <1>1
    <2>1. \A j \in 1 .. i - 1 : j \in 1 .. n
      BY <1>1
    <2>2. i \in DOMAIN t
      BY <1>1
    <2> QED
      BY <1>1, <2>1, <2>2 DEF FirstPlaces
  <1>3. n + 1 \in FirstPlaces(t) <=> e \notin ToSet(s)
    <2>1. \A j : j \in 1 .. (n + 1) - 1 <=> j \in 1 .. n
      BY <1>1
    <2>2. n + 1 \in DOMAIN t
      BY <1>1
    <2> QED
      BY <1>1, <2>1, <2>2 DEF FirstPlaces, ToSet
  <1>4. AtPlaces(s, FirstPlaces(t)) = AtPlaces(s, FirstPlaces(s))
    BY <1>2, AtSamePlaces
  <1>5. AtPlaces(t, FirstPlaces(t)) =
          IF n + 1 \in FirstPlaces(t)
          THEN Append(AtPlaces(s, FirstPlaces(t)), e)
          ELSE AtPlaces(s, FirstPlaces(t))
    BY AtPlacesAppend DEF t
  <1> QED
    BY <1>3, <1>4, <1>5, DistinctAtPlaces DEF t

LEMMA DistinctSet ==
  ASSUME NEW S, NEW s \in Seq(S) PROVE ToSet(Distinct(s)) = ToSet(s)
  <1> DEFINE T == {t \in Seq(S) : ToSet(Distinct(t)) = ToSet(t)}
  <1>1. <<>> \in T
    BY DistinctOfNothing
  <1>2. ASSUME NEW t \in Seq(S), NEW e \in S, t \in T
        PROVE  Append(t, e) \in T
    <2>1. /\ ToSet(Append(t, e)) = ToSet(t) \cup {e}
          /\ ToSet(Distinct(t)) = ToSet(t) /\ Append(t, e) \in Seq(S)
      BY <1>2, ToSetAppend
    <2>2. CASE e \in ToSet(t)
      <3>1. Distinct(Append(t, e)) = Distinct(t)
        BY <2>2, DistinctAppend
      <3>2. ToSet(t) \cup {e} = ToSet(t)
        BY <2>2
      <3> QED
        BY <2>1, <3>1, <3>2
    <2>3. CASE e \notin ToSet(t)
      <3>1. Distinct(Append(t, e)) = Append(Distinct(t), e)
        BY <2>3, DistinctAppend
      <3>2. ToSet(Append(Distinct(t), e)) = ToSet(Distinct(t)) \cup {e}
        BY DistinctType, ToSetAppend
      <3> QED
        BY <2>1, <3>1, <3>2
    <2> QED
      BY <2>2, <2>3
  <1>3. Seq(S) \subseteq T
    <2> HIDE DEF T
    <2> QED
      BY <1>1, <1>2, EverySequence
  <1> QED
    BY <1>3

(* What is distinct already can be made so first.                          *)
LEMMA DistinctTwice ==
  ASSUME NEW S, NEW s \in Seq(S) PROVE Distinct(Distinct(s)) = Distinct(s)
  <1> DEFINE T == {t \in Seq(S) : Distinct(Distinct(t)) = Distinct(t)}
  <1>1. <<>> \in T
    BY DistinctOfNothing
  <1>2. ASSUME NEW t \in Seq(S), NEW e \in S, t \in T
        PROVE  Append(t, e) \in T
    <2>1. /\ Distinct(t) \in Seq(S) /\ ToSet(Distinct(t)) = ToSet(t)
          /\ Distinct(Distinct(t)) = Distinct(t) /\ Append(t, e) \in Seq(S)
      BY <1>2, DistinctType, DistinctSet
    <2>2. CASE e \in ToSet(t)
      <3>1. Distinct(Append(t, e)) = Distinct(t)
        BY <2>2, DistinctAppend
      <3> QED
        BY <2>1, <3>1
    <2>3. CASE e \notin ToSet(t)
      <3>1. Distinct(Append(t, e)) = Append(Distinct(t), e)
        BY <2>3, DistinctAppend
      <3>2. Distinct(Append(Distinct(t), e)) = Append(Distinct(Distinct(t)), e)
        BY <2>1, <2>3, DistinctAppend
      <3> QED
        BY <2>1, <3>1, <3>2
    <2> QED
      BY <2>2, <2>3
  <1>3. Seq(S) \subseteq T
    <2> HIDE DEF T
    <2> QED
      BY <1>1, <1>2, EverySequence
  <1> QED
    BY <1>3

LEMMA DistinctOfBoth ==
  ASSUME NEW S, NEW s \in Seq(S), NEW more \in Seq(S)
  PROVE  Distinct(Distinct(s) \o more) = Distinct(s \o more)
  <1> DEFINE d == Distinct(s)
             T == {t \in Seq(S) : /\ Distinct(d \o t) = Distinct(s \o t)
                                  /\ ToSet(d \o t) = ToSet(s \o t)}
  <1>1. d \in Seq(S) /\ ToSet(d) = ToSet(s) /\ Distinct(d) = Distinct(s)
    BY DistinctType, DistinctSet, DistinctTwice
  <1> HIDE DEF d
  <1>2. <<>> \in T
    <2>1. d \o <<>> = d /\ s \o <<>> = s
      BY <1>1
    <2> QED
      BY <1>1, <2>1
  <1>3. ASSUME NEW t \in Seq(S), NEW e \in S, t \in T
        PROVE  Append(t, e) \in T
    <2>1. /\ d \o t \in Seq(S) /\ s \o t \in Seq(S)
          /\ d \o Append(t, e) = Append(d \o t, e)
          /\ s \o Append(t, e) = Append(s \o t, e)
      BY <1>1
    <2>2. Distinct(d \o t) = Distinct(s \o t) /\ ToSet(d \o t) = ToSet(s \o t)
      BY <1>3
    <2>3. Append(t, e) \in Seq(S)
      OBVIOUS
    <2> DEFINE dt == d \o t
               st == s \o t
    <2> HIDE DEF dt, st, T
    <2>4. dt \in Seq(S) /\ st \in Seq(S)
      BY <2>1 DEF dt, st
    <2>5. Distinct(dt) = Distinct(st) /\ ToSet(dt) = ToSet(st)
      BY <2>2 DEF dt, st
    <2>6. /\ Distinct(Append(dt, e)) = IF e \in ToSet(dt) THEN Distinct(dt)
                                       ELSE Append(Distinct(dt), e)
          /\ Distinct(Append(st, e)) = IF e \in ToSet(st) THEN Distinct(st)
                                       ELSE Append(Distinct(st), e)
      BY <2>4, DistinctAppend
    <2>7. /\ ToSet(Append(dt, e)) = ToSet(dt) \cup {e}
          /\ ToSet(Append(st, e)) = ToSet(st) \cup {e}
      BY <2>4, ToSetAppend
    <2>8. /\ Distinct(Append(dt, e)) = Distinct(Append(st, e))
          /\ ToSet(Append(dt, e)) = ToSet(Append(st, e))
      BY <2>5, <2>6, <2>7
    <2>9. /\ Distinct(d \o Append(t, e)) = Distinct(s \o Append(t, e))
          /\ ToSet(d \o Append(t, e)) = ToSet(s \o Append(t, e))
      BY <2>1, <2>8 DEF dt, st
    <2> QED
      BY <2>3, <2>9 DEF T
  <1>4. Seq(S) \subseteq T
    <2> HIDE DEF T
    <2> QED
      BY <1>2, <1>3, EverySequence
  <1> QED
    BY <1>4 DEF d

=============================================================================
