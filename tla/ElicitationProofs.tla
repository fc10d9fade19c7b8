-------------------------- MODULE ElicitationProofs --------------------------
(***************************************************************************)
(* Proofs about Elicitation: whatever the model answers, every name of a   *)
(* candidate that is a lead is held by one lead, and a follow-up excludes  *)
(* what is known and all that was accepted.  What is accepted is always    *)
(* what the leads hold and the candidates still to read will bring         *)
(* (Accounted); reading a candidate moves its names from the one to the    *)
(* other.  The iterations, stages and candidates that are left (Rounds)    *)
(* come to an end.                                                         *)
(***************************************************************************)
EXTENDS Elicitation, SequenceLemmas

Held == UNION {named[i].all : i \in DOMAIN named}

(* Where the iterations are, and that only reading leaves candidates.      *)
Paced == /\ stage = "prompt" => iteration < MaxIterations
         /\ stage = "asked" => retries < iteration
         /\ stage # "reading" => entries = <<>>

Disjoint == \A i, j \in DOMAIN named :
              i # j => named[i].all \cap named[j].all = {}

Unknown == \A i \in DOMAIN named : named[i].all \cap Known = {}

Accounted == accepted = Held \cup NamesOf(entries)

ElicitInv == ElicitTypeOK /\ Paced /\ Disjoint /\ Unknown /\ Accounted

LEMMA Constants ==
  /\ MaxIterations \in Nat \ {0} /\ MaxCandidates \in Nat \ {0}
  /\ MaxAliases \in Nat
  /\ Known \subseteq Names
  /\ \A r \in ModelResponses : r.valid \in BOOLEAN /\ r.entries \in Seq(Candidate)
  BY ElicitationAssumption DEF ModelResponse

(* The names of a candidate are names.                                     *)
LEMMA ValuesAreNames ==
  ASSUME NEW c \in Candidate PROVE Values(c) \subseteq Names
  BY DEF Candidate, Values

LEMMA NamesAreNames ==
  ASSUME NEW s \in Seq(Candidate) PROVE NamesOf(s) \subseteq Names
  <1>1. ASSUME NEW i \in DOMAIN s PROVE Values(s[i]) \subseteq Names
    <2>1. s[i] \in Candidate
      OBVIOUS
    <2> QED
      BY <2>1, ValuesAreNames
  <1> QED
    BY <1>1 DEF NamesOf

LEMMA NamesOfNothing == NamesOf(<<>>) = {}
  BY DEF NamesOf

(* What a sequence of candidates names is what its first one names, unless *)
(* it is no lead, and what the others do.                                  *)
LEMMA NamesOfHead ==
  ASSUME NEW s \in Seq(Candidate), s # <<>>
  PROVE  NamesOf(s) = (IF NoLead(Head(s)) THEN {} ELSE Values(Head(s)))
                        \cup NamesOf(Tail(s))
  <1>1. /\ Len(s) \in Nat /\ Len(s) > 0 /\ DOMAIN s = 1 .. Len(s)
        /\ Head(s) = s[1]
        /\ Tail(s) \in Seq(Candidate) /\ DOMAIN Tail(s) = 1 .. Len(s) - 1
        /\ \A i \in 1 .. Len(s) - 1 : Tail(s)[i] = s[i + 1]
    OBVIOUS
  <1>2. ASSUME NEW x \in NamesOf(s), ~(~NoLead(s[1]) /\ x \in Values(s[1]))
        PROVE  x \in NamesOf(Tail(s))
    <2>1. PICK i \in DOMAIN s : ~NoLead(s[i]) /\ x \in Values(s[i])
      BY <1>2 DEF NamesOf
    <2>2. i # 1
      BY <1>2, <2>1
    <2>3. i - 1 \in DOMAIN Tail(s) /\ Tail(s)[i - 1] = s[i]
      BY <1>1, <2>2
    <2> QED
      BY <2>1, <2>3 DEF NamesOf
  <1>3. ASSUME NEW x \in NamesOf(Tail(s)) PROVE x \in NamesOf(s)
    <2>1. PICK i \in DOMAIN Tail(s) :
             ~NoLead(Tail(s)[i]) /\ x \in Values(Tail(s)[i])
      BY DEF NamesOf
    <2>2. i + 1 \in DOMAIN s /\ s[i + 1] = Tail(s)[i]
      BY <1>1
    <2> QED
      BY <2>1, <2>2 DEF NamesOf
  <1>4. ASSUME ~NoLead(s[1]), NEW x \in Values(s[1]) PROVE x \in NamesOf(s)
    BY <1>1, <1>4 DEF NamesOf
  <1> QED
    BY <1>1, <1>2, <1>3, <1>4

-----------------------------------------------------------------------------
(* How the steps change the leads.                                         *)
LEMMA AddKeeps ==
  ASSUME ElicitInv, NEW values, Add(values)
  PROVE  /\ named' \in Seq(Lead) /\ Disjoint' /\ Unknown'
         /\ Held' = Held \cup values
  <1> DEFINE n == Len(named)
             lead == [name |-> Head(Head(entries)), all |-> values]
  <1>1. /\ named \in Seq(Lead) /\ entries \in Seq(Candidate) /\ entries # <<>>
        /\ ~NoLead(Head(entries)) /\ values = Values(Head(entries))
        /\ Matching(values) = {}
        /\ named' = Append(named, lead)
    BY DEF ElicitInv, ElicitTypeOK, Add, Counts, Reading
  <1>2. /\ Head(entries) \in Candidate
        /\ Head(entries) # <<>> /\ values \cap Known = {}
    BY <1>1 DEF NoLead
  <1>3. lead \in Lead
    <2>1. Head(Head(entries)) \in Names
      BY <1>2 DEF Candidate
    <2> QED
      BY <1>1, <1>2, <2>1, ValuesAreNames DEF Lead
  <1>4. /\ n \in Nat /\ DOMAIN named = 1 .. n
        /\ named' \in Seq(Lead) /\ DOMAIN named' = 1 .. n + 1
        /\ \A i \in 1 .. n : named'[i] = named[i]
        /\ named'[n + 1] = lead
    BY <1>1, <1>3
  <1>5. \A i \in 1 .. n : values \cap named[i].all = {}
    BY <1>1, <1>4 DEF Matching
  <1>6. lead.all = values
    OBVIOUS
  <1> HIDE DEF lead
  <1>7. Disjoint'
    <2> SUFFICES ASSUME NEW i \in 1 .. n + 1, NEW j \in 1 .. n + 1, i # j
                 PROVE  named'[i].all \cap named'[j].all = {}
      BY <1>4 DEF Disjoint
    <2>1. CASE i \in 1 .. n /\ j \in 1 .. n
      BY <1>4, <2>1 DEF ElicitInv, Disjoint
    <2>2. CASE i \in 1 .. n /\ j = n + 1
      BY <1>4, <1>5, <1>6, <2>2
    <2>3. CASE j \in 1 .. n /\ i = n + 1
      BY <1>4, <1>5, <1>6, <2>3
    <2> QED
      BY <1>4, <2>1, <2>2, <2>3
  <1>8. Unknown'
    <2> SUFFICES ASSUME NEW i \in 1 .. n + 1
                 PROVE  named'[i].all \cap Known = {}
      BY <1>4 DEF Unknown
    <2>1. CASE i \in 1 .. n
      BY <1>4, <2>1 DEF ElicitInv, Unknown
    <2>2. CASE i = n + 1
      BY <1>2, <1>4, <1>6, <2>2
    <2> QED
      BY <1>4, <2>1, <2>2
  <1>9. Held' = Held \cup values
    <2>1. \A i \in 1 .. n : i \in 1 .. n + 1 /\ named'[i].all = named[i].all
      BY <1>4
    <2>2. n + 1 \in 1 .. n + 1 /\ named'[n + 1].all = values
      BY <1>4, <1>6
    <2>3. \A i \in 1 .. n + 1 : i \in 1 .. n \/ i = n + 1
      BY <1>4
    <2> QED
      BY <1>4, <2>1, <2>2, <2>3 DEF Held
  <1> QED
    BY <1>4, <1>7, <1>8, <1>9

LEMMA MergeKeeps ==
  ASSUME ElicitInv, NEW values, Merge(values)
  PROVE  /\ named' \in Seq(Lead) /\ Disjoint' /\ Unknown'
         /\ Held' = Held \cup values
  <1> DEFINE M == Matching(values)
             first == CHOOSE i \in M : \A j \in M : i <= j
             all == values \cup UNION {named[i].all : i \in M}
  <1>1. /\ named \in Seq(Lead) /\ entries \in Seq(Candidate) /\ entries # <<>>
        /\ ~NoLead(Head(entries)) /\ values = Values(Head(entries))
        /\ M # {} /\ named' = Merged(values)
    BY DEF ElicitInv, ElicitTypeOK, Merge, Counts, Reading
  <1>2. values \subseteq Names /\ values \cap Known = {}
    BY <1>1, ValuesAreNames DEF NoLead
  <1>3. M \subseteq DOMAIN named /\ M \subseteq Nat
    BY <1>1 DEF Matching
  <1>4. first \in M
    <2>1. \E i \in M : \A j \in M : i <= j
      BY <1>1, <1>3, LeastOfSome
    <2> QED
      BY <2>1
  <1>5. named' = [i \in DOMAIN named |->
                    IF i \notin M THEN named[i]
                    ELSE [named[i] EXCEPT !.all = IF i = first THEN all ELSE {}]]
    BY <1>1 DEF Merged
  <1> HIDE DEF M, first
  <1>6. \A i \in DOMAIN named :
          named[i].all \subseteq Names /\ named[i] \in Lead
    <2>1. named \in Seq(Lead)
      BY <1>1
    <2>2. \A i \in DOMAIN named : named[i] \in Lead
      BY <2>1
    <2> QED
      BY <2>2 DEF Lead
  <1>7. all \subseteq Names
    BY <1>2, <1>3, <1>6
  <1>8. \A i \in DOMAIN named : named'[i] \in Lead
    BY <1>5, <1>6, <1>7 DEF Lead
  <1>9. DOMAIN named' = DOMAIN named /\ named' \in Seq(Lead)
    <2>1. DOMAIN named' = 1 .. Len(named) /\ Len(named) \in Nat
      BY <1>1, <1>5
    <2>2. named' = [i \in 1 .. Len(named) |-> named'[i]]
      BY <1>1, <1>5
    <2>3. \A i \in 1 .. Len(named) : named'[i] \in Lead
      BY <1>1, <1>8
    <2> QED
      BY <2>1, <2>2, <2>3, <1>1
  <1>10. \A i \in DOMAIN named :
           named'[i].all = IF i \notin M THEN named[i].all
                           ELSE IF i = first THEN all ELSE {}
    BY <1>5, <1>6 DEF Lead
  <1>11. \A i \in DOMAIN named : i \notin M => named[i].all \cap all = {}
    <2> SUFFICES ASSUME NEW i \in DOMAIN named, i \notin M
                 PROVE  named[i].all \cap all = {}
      OBVIOUS
    <2>1. named[i].all \cap values = {}
      BY DEF M, Matching
    <2>2. \A j \in M : named[i].all \cap named[j].all = {}
      BY <1>3 DEF ElicitInv, Disjoint
    <2> QED
      BY <2>1, <2>2
  <1>12. Disjoint'
    <2> SUFFICES ASSUME NEW i \in DOMAIN named, NEW j \in DOMAIN named, i # j
                 PROVE  named'[i].all \cap named'[j].all = {}
      BY <1>9 DEF Disjoint
    <2>1. named[i].all \cap named[j].all = {}
      BY DEF ElicitInv, Disjoint
    <2> QED
      BY <1>10, <1>11, <2>1
  <1>13. Unknown'
    <2>1. all \cap Known = {}
      BY <1>2, <1>3 DEF ElicitInv, Unknown
    <2> QED
      BY <1>9, <1>10, <2>1 DEF ElicitInv, Unknown
  <1>14. Held' = Held \cup values
    <2>1. \A i \in DOMAIN named : named'[i].all \subseteq Held \cup values
      BY <1>3, <1>10 DEF Held
    <2>2. all \subseteq Held'
      BY <1>3, <1>4, <1>9, <1>10 DEF Held
    <2>3. \A i \in DOMAIN named : named[i].all \subseteq Held'
      <3> TAKE i \in DOMAIN named
      <3>1. CASE i \in M
        BY <2>2, <3>1
      <3>2. CASE i \notin M
        BY <1>9, <1>10, <3>2 DEF Held
      <3> QED
        BY <3>1, <3>2
    <2>4. Held \subseteq Held'
      BY <2>3 DEF Held
    <2>5. Held' \subseteq Held \cup values
      <3>1. \A x \in Held' : \E i \in DOMAIN named : x \in named'[i].all
        BY <1>9 DEF Held
      <3> QED
        BY <2>1, <3>1
    <2> QED
      BY <2>2, <2>4, <2>5
  <1> QED
    BY <1>9, <1>12, <1>13, <1>14

-----------------------------------------------------------------------------
LEMMA Initially == Unasked => ElicitInv
  <1> SUFFICES ASSUME Unasked PROVE ElicitInv
    OBVIOUS
  <1>1. /\ stage = "prompt" /\ iteration = 0 /\ entries = <<>> /\ fresh = FALSE
        /\ named = <<>> /\ retries = 0 /\ recovered = 0 /\ blocked = 0
        /\ excluded = {} /\ accepted = {}
    BY DEF Unasked
  <1>2. MaxIterations \in Nat \ {0}
    BY Constants
  <1>3. ElicitTypeOK
    <2>1. entries \in Seq(Candidate) /\ named \in Seq(Lead)
      BY <1>1
    <2>2. iteration \in 0 .. MaxIterations /\ retries <= iteration
      BY <1>1, <1>2
    <2>3. fresh \in BOOLEAN
      BY <1>1
    <2>4. stage \in Stages
      BY <1>1 DEF Stages
    <2>5. /\ {retries, recovered, blocked} \subseteq Nat
          /\ excluded \subseteq Names /\ accepted \subseteq Names
      BY <1>1
    <2> QED
      BY <2>1, <2>2, <2>3, <2>4, <2>5 DEF ElicitTypeOK
  <1>4. Paced
    BY <1>1, <1>2 DEF Paced
  <1>5. DOMAIN named = {} /\ Held = {}
    BY <1>1 DEF Held
  <1>6. Disjoint /\ Unknown
    BY <1>5 DEF Disjoint, Unknown
  <1>7. Accounted
    BY <1>1, <1>5, NamesOfNothing DEF Accounted
  <1> QED
    BY <1>3, <1>4, <1>6, <1>7 DEF ElicitInv

(* What a step leaves alone when it does not touch the leads.              *)
LEMMA SameLeads ==
  ASSUME ElicitInv, UNCHANGED named
  PROVE  Disjoint' /\ Unknown' /\ Held' = Held
  BY DEF ElicitInv, Disjoint, Unknown, Held

(* A response has been received; its candidates are accounted for at once. *)
LEMMA ReadKeeps ==
  ASSUME ElicitInv, stage \in {"asked", "retried"},
         NEW response, response.entries \in Seq(Candidate), Read(response),
         {retries', recovered', blocked'} \subseteq Nat, retries' <= iteration
  PROVE  ElicitInv'
  <1>1. /\ iteration \in 0 .. MaxIterations /\ named \in Seq(Lead)
        /\ excluded \subseteq Names /\ accepted \subseteq Names
        /\ entries = <<>>
    BY DEF ElicitInv, ElicitTypeOK, Paced
  <1>2. /\ stage' = "reading" /\ fresh' = FALSE
        /\ accepted' = accepted \cup NamesOf(entries')
        /\ iteration' = iteration /\ named' = named /\ excluded' = excluded
        /\ entries' = IF Len(response.entries) <= MaxCandidates
                      THEN response.entries
                      ELSE SubSeq(response.entries, 1, MaxCandidates)
    BY DEF Read
  <1>3. entries' \in Seq(Candidate)
    <2>1. MaxCandidates \in Nat \ {0}
      BY Constants
    <2>2. CASE Len(response.entries) <= MaxCandidates
      BY <1>2, <2>2
    <2>3. CASE ~(Len(response.entries) <= MaxCandidates)
      <3>1. \A i \in 1 .. MaxCandidates : response.entries[i] \in Candidate
        BY <2>1, <2>3
      <3> QED
        BY <1>2, <2>1, <2>3, <3>1
    <2> QED
      BY <2>2, <2>3
  <1>4. ElicitTypeOK'
    <2>1. NamesOf(entries') \subseteq Names
      BY <1>3, NamesAreNames
    <2> QED
      BY <1>1, <1>2, <1>3, <2>1 DEF ElicitTypeOK, Stages
  <1>5. Paced'
    BY <1>2 DEF Paced
  <1>6. Disjoint' /\ Unknown' /\ Held' = Held
    BY <1>2, SameLeads
  <1>7. Accounted'
    <2>1. accepted = Held
      BY <1>1, NamesOfNothing DEF ElicitInv, Accounted
    <2> QED
      BY <1>2, <1>6, <2>1 DEF Accounted
  <1> QED
    BY <1>4, <1>5, <1>6, <1>7 DEF ElicitInv

(* The first of the candidates has been read.                              *)
LEMMA EntryKeeps ==
  ASSUME ElicitInv, Reading, NextEntry, stage' = stage, fresh' \in BOOLEAN,
         UNCHANGED <<iteration, metrics, excluded, accepted>>,
         named' \in Seq(Lead), Disjoint', Unknown',
         Held' = Held \cup (IF NoLead(Head(entries)) THEN {}
                            ELSE Values(Head(entries)))
  PROVE  ElicitInv'
  <1>1. /\ entries \in Seq(Candidate) /\ entries # <<>> /\ stage = "reading"
        /\ entries' = Tail(entries)
    BY DEF ElicitInv, ElicitTypeOK, Reading, NextEntry
  <1>2. entries' \in Seq(Candidate)
    BY <1>1
  <1>3. ElicitTypeOK'
    BY <1>1, <1>2 DEF ElicitInv, ElicitTypeOK, metrics
  <1>4. Paced'
    BY <1>1 DEF Paced
  <1>5. Accounted'
    <2>1. NamesOf(entries) = (IF NoLead(Head(entries)) THEN {}
                              ELSE Values(Head(entries))) \cup NamesOf(entries')
      BY <1>1, NamesOfHead
    <2>2. accepted' = Held \cup NamesOf(entries)
      BY DEF ElicitInv, Accounted
    <2> QED
      BY <2>1, <2>2 DEF Accounted
  <1> QED
    BY <1>3, <1>4, <1>5 DEF ElicitInv

LEMMA ElicitStep ==
  ASSUME ElicitInv, Elicit PROVE ElicitInv'
  <1>0. /\ MaxIterations \in Nat \ {0} /\ Known \subseteq Names
        /\ stage \in Stages /\ iteration \in 0 .. MaxIterations
        /\ entries \in Seq(Candidate) /\ fresh \in BOOLEAN
        /\ named \in Seq(Lead) /\ {retries, recovered, blocked} \subseteq Nat
        /\ retries <= iteration
        /\ excluded \subseteq Names /\ accepted \subseteq Names
        /\ Disjoint /\ Unknown /\ Accounted
        /\ stage = "prompt" => iteration < MaxIterations
        /\ stage = "asked" => retries < iteration
        /\ stage # "reading" => entries = <<>>
    BY Constants DEF ElicitInv, ElicitTypeOK, Paced
  <1>1. ASSUME UNCHANGED <<entries, named, accepted>>
        PROVE  Disjoint' /\ Unknown' /\ Accounted'
    <2>1. Disjoint' /\ Unknown' /\ Held' = Held
      BY <1>1, SameLeads
    <2>2. NamesOf(entries') = NamesOf(entries)
      BY <1>1
    <2> QED
      BY <1>0, <1>1, <2>1, <2>2 DEF Accounted
  <1>2. CASE Broad
    <2>1. /\ stage' = "asked" /\ iteration' = 1 /\ excluded' = {}
          /\ stage = "prompt" /\ iteration = 0
          /\ entries' = entries /\ fresh' = fresh /\ named' = named
          /\ retries' = retries /\ recovered' = recovered /\ blocked' = blocked
          /\ accepted' = accepted
      BY <1>2 DEF Broad, metrics
    <2>2. ElicitTypeOK' /\ Paced'
      BY <1>0, <2>1 DEF ElicitTypeOK, Paced, Stages
    <2> QED
      BY <1>1, <2>1, <2>2 DEF ElicitInv
  <1>3. CASE FollowUp
    <2>1. /\ stage' = "asked" /\ iteration' = iteration + 1
          /\ excluded' = Exclusions /\ stage = "prompt"
          /\ entries' = entries /\ fresh' = fresh /\ named' = named
          /\ retries' = retries /\ recovered' = recovered /\ blocked' = blocked
          /\ accepted' = accepted
      BY <1>3 DEF FollowUp, metrics
    <2>2. Exclusions \subseteq Names
      <3>1. \A i \in DOMAIN named : named[i] \in Lead
        BY <1>0
      <3>2. \A i \in DOMAIN named : named[i].all \subseteq Names
        BY <3>1 DEF Lead
      <3> QED
        BY <1>0, <3>2 DEF Exclusions
    <2>3. ElicitTypeOK' /\ Paced'
      BY <1>0, <2>1, <2>2 DEF ElicitTypeOK, Paced, Stages
    <2> QED
      BY <1>1, <2>1, <2>3 DEF ElicitInv
  <1>4. CASE TooManyNames \/ CallFails
    <2>1. /\ stage' = "failed" /\ stage \in {"prompt", "asked", "retried"}
          /\ iteration' = iteration /\ excluded' = excluded
          /\ entries' = entries /\ fresh' = fresh /\ named' = named
          /\ retries' = retries /\ recovered' = recovered /\ blocked' = blocked
          /\ accepted' = accepted
      BY <1>4 DEF TooManyNames, CallFails, Fail, metrics
    <2>2. ElicitTypeOK' /\ Paced'
      BY <1>0, <2>1 DEF ElicitTypeOK, Paced, Stages
    <2> QED
      BY <1>1, <2>1, <2>2 DEF ElicitInv
  <1>5. CASE \E response \in ModelResponses : Answer(response)
    <2>1. PICK response \in ModelResponses : Answer(response)
      BY <1>5
    <2>2. /\ stage = "asked" /\ Read(response)
          /\ retries' = retries /\ recovered' = recovered /\ blocked' = blocked
      BY <2>1 DEF Answer, metrics
    <2>3. response.entries \in Seq(Candidate)
      BY Constants
    <2> QED
      BY <1>0, <2>2, <2>3, ReadKeeps
  <1>6. CASE \E response \in ModelResponses : Retry(response)
    <2>1. /\ stage' = "retried" /\ retries' = retries + 1 /\ excluded' = {}
          /\ stage = "asked" /\ iteration' = iteration
          /\ entries' = entries /\ fresh' = fresh /\ named' = named
          /\ recovered' = recovered /\ blocked' = blocked
          /\ accepted' = accepted
      BY <1>6 DEF Retry
    <2>2. ElicitTypeOK' /\ Paced'
      BY <1>0, <2>1 DEF ElicitTypeOK, Paced, Stages
    <2> QED
      BY <1>1, <2>1, <2>2 DEF ElicitInv
  <1>7. CASE \E response \in ModelResponses : AnswerRetry(response)
    <2>1. PICK response \in ModelResponses : AnswerRetry(response)
      BY <1>7
    <2>2. /\ stage = "retried" /\ Read(response)
          /\ retries' = retries /\ recovered' = recovered + 1
          /\ blocked' = blocked
      BY <2>1 DEF AnswerRetry
    <2>3. response.entries \in Seq(Candidate)
      BY Constants
    <2> QED
      BY <1>0, <2>2, <2>3, ReadKeeps
  <1>8. CASE \E response \in ModelResponses : Block(response)
    <2> DEFINE none == [valid |-> FALSE, entries |-> <<>>]
    <2>1. /\ stage = "retried" /\ Read(none)
          /\ retries' = retries /\ recovered' = recovered
          /\ blocked' = blocked + 1
      BY <1>8 DEF Block
    <2>2. none.entries \in Seq(Candidate)
      OBVIOUS
    <2> HIDE DEF none
    <2> QED
      BY <1>0, <2>1, <2>2, ReadKeeps
  <1>9. CASE ReadNext
    <2>1. CASE Pass
      <3>1. /\ Reading /\ NoLead(Head(entries)) /\ NextEntry
            /\ stage' = stage /\ fresh' = fresh /\ named' = named
            /\ UNCHANGED <<iteration, metrics, excluded, accepted>>
        BY <2>1 DEF Pass
      <3>2. Disjoint' /\ Unknown' /\ Held' = Held
        BY <3>1, SameLeads
      <3> QED
        BY <1>0, <3>1, <3>2, EntryKeeps
    <2>2. ASSUME NEW values, Merge(values) PROVE ElicitInv'
      <3>1. /\ Reading /\ ~NoLead(Head(entries)) /\ NextEntry
            /\ values = Values(Head(entries))
            /\ stage' = stage /\ fresh' = fresh
            /\ UNCHANGED <<iteration, metrics, excluded, accepted>>
        BY <2>2 DEF Merge, Counts
      <3>2. /\ named' \in Seq(Lead) /\ Disjoint' /\ Unknown'
            /\ Held' = Held \cup values
        BY <2>2, MergeKeeps
      <3> QED
        BY <1>0, <3>1, <3>2, EntryKeeps
    <2>3. ASSUME NEW values, Add(values) PROVE ElicitInv'
      <3>1. /\ Reading /\ ~NoLead(Head(entries)) /\ NextEntry
            /\ values = Values(Head(entries))
            /\ stage' = stage /\ fresh' = TRUE
            /\ UNCHANGED <<iteration, metrics, excluded, accepted>>
        BY <2>3 DEF Add, Counts
      <3>2. /\ named' \in Seq(Lead) /\ Disjoint' /\ Unknown'
            /\ Held' = Held \cup values
        BY <2>3, AddKeeps
      <3> QED
        BY <1>0, <3>1, <3>2, EntryKeeps
    <2> QED
      BY <1>9, <2>1, <2>2, <2>3 DEF ReadNext
  <1>10. CASE EndIteration
    <2>1. /\ stage = "reading" /\ entries = <<>>
          /\ stage' = IF LastIteration THEN "done" ELSE "prompt"
          /\ iteration' = iteration /\ excluded' = excluded
          /\ entries' = entries /\ fresh' = fresh /\ named' = named
          /\ retries' = retries /\ recovered' = recovered /\ blocked' = blocked
          /\ accepted' = accepted
      BY <1>10 DEF EndIteration, metrics
    <2>2. ElicitTypeOK' /\ Paced'
      BY <1>0, <2>1 DEF ElicitTypeOK, Paced, Stages, LastIteration
    <2> QED
      BY <1>1, <2>1, <2>2 DEF ElicitInv
  <1> QED
    BY <1>2, <1>3, <1>4, <1>5, <1>6, <1>7, <1>8, <1>9, <1>10 DEF Elicit

LEMMA ElicitUnchanged ==
  ASSUME ElicitInv, UNCHANGED elicitVars PROVE ElicitInv'
  BY DEF elicitVars, progress, metrics, ElicitInv, ElicitTypeOK, Paced,
         Disjoint, Unknown, Accounted, Held, NamesOf, NoLead, Values

LEMMA ElicitInvariance == ElicitSpec => []ElicitInv
  <1>1. ElicitInv /\ [Elicit]_elicitVars => ElicitInv'
    BY ElicitStep, ElicitUnchanged
  <1> QED
    BY <1>1, Initially, PTL DEF ElicitSpec

-----------------------------------------------------------------------------
(* Types, and no more than one retry in an iteration.                      *)
THEOREM ElicitTypeCorrect == ElicitSpec => []ElicitTypeOK
  <1>1. ElicitInv => ElicitTypeOK
    BY DEF ElicitInv
  <1> QED
    BY <1>1, ElicitInvariance, PTL

(* Between two candidates nothing is still to be accounted for.            *)
LEMMA AccountedFor == ElicitInv => EveryNameOnce
  <1>1. ElicitInv /\ entries = <<>> => accepted = Held
    BY NamesOfNothing DEF ElicitInv, Accounted
  <1> QED
    BY <1>1 DEF ElicitInv, Disjoint, Unknown, EveryNameOnce, Held

(* Whatever the model answers, every name of a valid candidate ends up in  *)
(* exactly one lead, and no lead is known already.                         *)
THEOREM EveryNameKept == ElicitSpec => []EveryNameOnce
  BY AccountedFor, ElicitInvariance, PTL

(* A prompt that is no first one and no retry is a follow-up.              *)
LEMMA FollowUpExcludesAll ==
  ASSUME ElicitInv, Elicit, stage = "prompt", stage' = "asked", iteration > 0
  PROVE  excluded' = Known \cup accepted
  <1>1. ~Broad /\ ~TooManyNames /\ ~CallFails /\ ~ReadNext /\ ~EndIteration
    BY DEF Broad, TooManyNames, CallFails, ReadNext, Pass, Merge, Add, Counts,
           Reading, EndIteration, Fail
  <1>2. \A response : ~(\/ Answer(response) \/ Retry(response)
                       \/ AnswerRetry(response) \/ Block(response))
    BY DEF Answer, Retry, AnswerRetry, Block
  <1>3. FollowUp
    BY <1>1, <1>2 DEF Elicit
  <1>4. accepted = Held
    BY NamesOfNothing DEF ElicitInv, Paced, Accounted
  <1> QED
    BY <1>3, <1>4 DEF FollowUp, Exclusions, Held

(* A follow-up prompt excludes every name that is known and every name     *)
(* that was accepted in any response before it, merged or not.             *)
THEOREM NothingAskedAgain == ElicitSpec => FollowUpsExclude
  <1>1. ElicitInv /\ [Elicit]_elicitVars
          => [stage = "prompt" /\ stage' = "asked" /\ iteration > 0
                => excluded' = Known \cup accepted]_elicitVars
    BY FollowUpExcludesAll
  <1> QED
    BY <1>1, ElicitInvariance, PTL DEF ElicitSpec, FollowUpsExclude

-----------------------------------------------------------------------------
(* The steps that are left, as a word of numbers: iterations, stages of    *)
(* the current one, candidates to read.                                    *)
StageRank == [asked |-> 4, retried |-> 3, reading |-> 2, prompt |-> 1,
              done |-> 0, failed |-> 0]

Rounds == <<MaxIterations - iteration, StageRank[stage], Len(entries)>>

(* a comes before b in the order of words, which is well founded: it has   *)
(* no infinite descent among words of naturals of one length.              *)
Before(a, b) == \E k \in DOMAIN b : /\ a[k] < b[k]
                                    /\ \A j \in 1 .. k - 1 : a[j] = b[j]

RoundsLeft == /\ iteration \in Int /\ MaxIterations - iteration \in Nat
              /\ StageRank[stage] \in Nat /\ Len(entries) \in Nat

LEMMA RoundsAreNumbers == ElicitInv => RoundsLeft
  <1> SUFFICES ASSUME ElicitInv PROVE RoundsLeft
    OBVIOUS
  <1>1. /\ MaxIterations \in Nat /\ iteration \in 0 .. MaxIterations
        /\ stage \in Stages /\ entries \in Seq(Candidate)
    BY Constants DEF ElicitInv, ElicitTypeOK
  <1> QED
    BY <1>1 DEF Stages, StageRank, RoundsLeft

LEMMA RoundsStep ==
  ASSUME ElicitInv, Elicit
  PROVE  \/ iteration' = iteration + 1
         \/ iteration' = iteration /\ StageRank[stage'] < StageRank[stage]
         \/ /\ iteration' = iteration /\ stage' = stage
            /\ Len(entries') < Len(entries)
  <1>1. entries \in Seq(Candidate)
    BY DEF ElicitInv, ElicitTypeOK
  <1>2. CASE Broad \/ FollowUp
    BY <1>2 DEF Broad, FollowUp
  <1>3. CASE TooManyNames \/ CallFails
    BY <1>3 DEF TooManyNames, CallFails, Fail, StageRank
  <1>4. ASSUME NEW response, Answer(response) \/ AnswerRetry(response)
                               \/ Retry(response) \/ Block(response)
        PROVE  iteration' = iteration /\ StageRank[stage'] < StageRank[stage]
    BY <1>4 DEF Answer, AnswerRetry, Retry, Block, Read, StageRank
  <1>5. CASE ReadNext
    <2>1. /\ entries # <<>> /\ entries' = Tail(entries)
          /\ iteration' = iteration /\ stage' = stage
      BY <1>5 DEF ReadNext, Pass, Merge, Add, Counts, Reading, NextEntry
    <2> QED
      BY <1>1, <2>1
  <1>6. CASE EndIteration
    BY <1>6 DEF EndIteration, StageRank
  <1> QED
    BY <1>2, <1>3, <1>4, <1>5, <1>6 DEF Elicit

(* Whatever the model answers, every step of the elicitation brings it     *)
(* nearer to its end; so it has only finitely many.                        *)
THEOREM ElicitationGetsOn ==
  ElicitSpec => /\ [](Rounds \in [1 .. 3 -> Nat])
                /\ [][Before(Rounds', Rounds)]_elicitVars
  <1>1. RoundsLeft => Rounds \in [1 .. 3 -> Nat]
    BY DEF RoundsLeft, Rounds
  <1>2. ASSUME ElicitInv, RoundsLeft, RoundsLeft', Elicit
        PROVE  Before(Rounds', Rounds)
    <2> DEFINE a == MaxIterations - iteration
               b == StageRank[stage]
               c == Len(entries)
    <2>1. /\ a \in Nat /\ b \in Nat /\ c \in Nat
          /\ a' \in Nat /\ b' \in Nat /\ c' \in Nat
      BY <1>2 DEF RoundsLeft
    <2>2. \/ a' < a
          \/ a' = a /\ b' < b
          \/ a' = a /\ b' = b /\ c' < c
      <3>1. iteration \in Int /\ MaxIterations \in Int
        BY <1>2, Constants DEF RoundsLeft
      <3> QED
        BY <1>2, <3>1, RoundsStep
    <2>3. Rounds = <<a, b, c>> /\ Rounds' = <<a', b', c'>>
      BY DEF Rounds
    <2> HIDE DEF a, b, c
    <2> QED
      BY <2>1, <2>2, <2>3 DEF Before
  <1>3. ElicitInv /\ RoundsLeft /\ RoundsLeft' /\ [Elicit]_elicitVars =>
          [Before(Rounds', Rounds)]_elicitVars
    BY <1>2
  <1> QED
    BY <1>1, <1>3, RoundsAreNumbers, ElicitInvariance, PTL DEF ElicitSpec
=============================================================================
