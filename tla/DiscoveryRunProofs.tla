------------------------- MODULE DiscoveryRunProofs --------------------------
(***************************************************************************)
(* Proofs about DiscoveryRun, for every inventory, model, provider, limit  *)
(* and number of interruptions: the state has its types (RunTypes); no     *)
(* request is executed twice, and each is answered with its own records    *)
(* (Asked, and what the memo holds: Remembered); a search that is called   *)
(* exhausted is one (the pages of an execution in progress are Inspected,  *)
(* and every execution that ended is Earned); the leads with their context *)
(* are the leads (LeadsStep); what a phase plans is queried or its limit   *)
(* reported (PlanHeld, Due); a run that is repeated goes the way of the    *)
(* interrupted one (Repeats, Reaches); what ElicitationProofs shows of the *)
(* elicitation holds of it as a part of the run, which may interrupt it    *)
(* and begin it again; and every step leaves the run less to do (Effort).  *)
(***************************************************************************)
EXTENDS DiscoveryRun, ElicitationProofs, FiniteSetTheorems

(* What ExhaustionEarned asks of the records of one execution.             *)
Shows(got) == /\ got[Len(got)].exhausted /\ got[Len(got)].next = NoCursor
              /\ \A k \in DOMAIN got : got[k].fault = "none"
              /\ \A k, l \in DOMAIN got : got[k].items = got[l].items => k = l
              /\ Cardinality(Unique(got)) <= MaxResults
              /\ Len(got) > 1 \/ Unique(got) \cap Leads # {}

Earned(records) == records.reason = "provider_exhausted" => Shows(records.pages)

(* The pages of an execution that goes on.                                 *)
Inspected(got) ==
  /\ got \in Seq(Response)
  /\ \A k \in DOMAIN got : got[k].fault = "none"
  /\ \A k, l \in DOMAIN got : got[k].items = got[l].items => k = l

Asked ==
  /\ \E S : assessments \in Seq(S)
  /\ \A i \in DOMAIN assessments : /\ assessments[i].asked \in executed
                                   /\ Earned(assessments[i].records)
  /\ AskedOnce

Remembered == \A k \in DOMAIN memo : Key(memo[k]) = k /\ Earned(memo[k])

RunInv == Asked /\ Remembered /\ Inspected(pages) /\ ElicitInv

-----------------------------------------------------------------------------
(* The first test that holds decides.                                      *)
LEMMA FirstDecides ==
  ASSUME NEW n \in Nat, NEW tests, DOMAIN tests = 1 .. n
  PROVE  \/ /\ FirstHolding(tests) = "none"
            /\ \A i \in 1 .. n : ~tests[i].holds
         \/ \E i \in 1 .. n : /\ FirstHolding(tests) = tests[i].reason
                              /\ tests[i].holds
                              /\ \A j \in 1 .. i - 1 : ~tests[j].holds
  <1> DEFINE holding == {i \in DOMAIN tests : tests[i].holds}
  <1>1. CASE holding = {}
    BY <1>1 DEF FirstHolding
  <1>2. CASE holding # {}
    <2>1. holding \subseteq Nat
      OBVIOUS
    <2>2. PICK i \in holding : \A j \in holding : i <= j
      BY <1>2, <2>1, LeastOfSome
    <2>3. i = Min(holding)
      <3>1. \A k \in holding : (\A j \in holding : k <= j) => k = i
        BY <2>1, <2>2
      <3> QED
        BY <2>2, <3>1 DEF Min
    <2>4. \A j \in 1 .. i - 1 : ~tests[j].holds
      BY <2>1, <2>2
    <2>5. FirstHolding(tests) = tests[i].reason
      BY <1>2, <2>3 DEF FirstHolding
    <2> QED
      BY <2>2, <2>4, <2>5
  <1> QED
    BY <1>1, <1>2

(* What the page loop knows of its last page when it goes on, and when it  *)
(* ends with the provider's word.                                          *)
LEMMA PageTests ==
  ASSUME NEW got \in Seq(Response), got # <<>>,
         StopReason(got) \in {"none", "provider_exhausted"}
  PROVE  /\ got[Len(got)].fault = "none"
         /\ \A i \in 1 .. Len(got) - 1 : got[i].items # got[Len(got)].items
         /\ StopReason(got) = "provider_exhausted" =>
              /\ got[Len(got)].exhausted /\ got[Len(got)].next = NoCursor
              /\ ~(Cardinality(Unique(got)) > MaxResults)
              /\ Len(got) = 1 => ToSet(got[Len(got)].items) \cap Leads # {}
  <1> DEFINE last == got[Len(got)]
             tests == StopTests(got)
  <1>1. /\ Len(got) \in Nat \ {0} /\ last \in Response
    OBVIOUS
  <1>2. last.fault \in {"none", "access_gap", "transport_error"}
    BY <1>1 DEF Response
  <1>3. /\ DOMAIN tests = 1 .. 11
        /\ tests[1].holds <=> /\ last.fault = "none"
                              /\ \E i \in 1 .. Len(got) - 1 :
                                   got[i].items = last.items
        /\ tests[2].holds <=> Cardinality(Unique(got)) > MaxResults
        /\ tests[3].holds <=> Assessment(last) = "access_gap"
        /\ tests[4].holds <=> Assessment(last) = "transport_error"
        /\ tests[5].holds <=> last.exhausted /\ last.next # NoCursor
        /\ tests[6].holds <=> /\ last.exhausted /\ Len(got) = 1
                              /\ Assessment(last) \in {"empty", "unrelated"}
        /\ tests[7].holds <=> last.exhausted
    <2>1. DOMAIN tests = 1 .. 11
      BY DEF StopTests
    <2>2. tests[1].holds <=> /\ last.fault = "none"
                             /\ \E i \in 1 .. Len(got) - 1 :
                                  got[i].items = last.items
      BY DEF StopTests
    <2>3. tests[2].holds <=> Cardinality(Unique(got)) > MaxResults
      BY DEF StopTests
    <2>4. /\ tests[3].holds <=> Assessment(last) = "access_gap"
          /\ tests[4].holds <=> Assessment(last) = "transport_error"
      BY DEF StopTests
    <2>5. tests[5].holds <=> last.exhausted /\ last.next # NoCursor
      BY DEF StopTests
    <2>6. tests[6].holds <=> /\ last.exhausted /\ Len(got) = 1
                             /\ Assessment(last) \in {"empty", "unrelated"}
      BY DEF StopTests
    <2>7. tests[7].holds <=> last.exhausted
      BY DEF StopTests
    <2> QED
      BY <2>1, <2>2, <2>3, <2>4, <2>5, <2>6, <2>7
  <1>4. \A i \in 1 .. 11 : /\ tests[i].reason # "none"
                           /\ tests[i].reason = "provider_exhausted" <=> i = 7
    BY DEF StopTests
  <1> HIDE DEF tests
  <1>5. \/ StopReason(got) = "none" /\ \A i \in 1 .. 11 : ~tests[i].holds
        \/ /\ StopReason(got) = "provider_exhausted" /\ tests[7].holds
           /\ \A i \in 1 .. 6 : ~tests[i].holds
    <2>1. \/ /\ StopReason(got) = "none"
             /\ \A i \in 1 .. 11 : ~tests[i].holds
          \/ \E i \in 1 .. 11 : /\ StopReason(got) = tests[i].reason
                                /\ tests[i].holds
                                /\ \A j \in 1 .. i - 1 : ~tests[j].holds
      BY <1>3, FirstDecides DEF StopReason, tests
    <2>2. ASSUME NEW i \in 1 .. 11, StopReason(got) = tests[i].reason,
                 tests[i].holds, \A j \in 1 .. i - 1 : ~tests[j].holds
          PROVE  /\ StopReason(got) = "provider_exhausted" /\ tests[7].holds
                 /\ \A j \in 1 .. 6 : ~tests[j].holds
      BY <1>4, <2>2
    <2> QED
      BY <2>1, <2>2
  <1>6. \A i \in 1 .. 6 : ~tests[i].holds
    BY <1>5
  <1>7. last.fault = "none"
    BY <1>2, <1>3, <1>6 DEF Assessment
  <1>8. \A i \in 1 .. Len(got) - 1 : got[i].items # last.items
    BY <1>3, <1>6, <1>7
  <1>9. ASSUME StopReason(got) = "provider_exhausted"
        PROVE  /\ last.exhausted /\ last.next = NoCursor
               /\ ~(Cardinality(Unique(got)) > MaxResults)
               /\ Len(got) = 1 => ToSet(last.items) \cap Leads # {}
    <2>1. last.exhausted
      BY <1>3, <1>5, <1>9
    <2>2. last.next = NoCursor /\ ~(Cardinality(Unique(got)) > MaxResults)
      BY <1>3, <1>6, <2>1
    <2>3. Len(got) = 1 => Assessment(last) \notin {"empty", "unrelated"}
      BY <1>3, <1>6, <2>1
    <2>4. ToSet(last.items) \cap Leads = {} =>
            Assessment(last) \in {"empty", "unrelated"}
      BY <1>7 DEF Assessment
    <2> QED
      BY <2>1, <2>2, <2>3, <2>4
  <1> QED
    BY <1>7, <1>8, <1>9

(* The image of a finite set is finite.                                    *)
LEMMA FiniteImage ==
  ASSUME NEW f, IsFiniteSet(DOMAIN f), f = [x \in DOMAIN f |-> f[x]]
  PROVE  IsFiniteSet({f[x] : x \in DOMAIN f})
  <1> DEFINE T == {f[x] : x \in DOMAIN f}
  <1>1. f \in Surjection(DOMAIN f, T)
    BY DEF Surjection
  <1> QED
    BY <1>1, FS_Surjection

LEMMA FiniteDomain ==
  ASSUME NEW S, NEW s \in Seq(S) PROVE IsFiniteSet(DOMAIN s)
  <1>1. Len(s) \in Nat /\ DOMAIN s = 1 .. Len(s)
    OBVIOUS
  <1>2. 1 \in Int /\ Len(s) \in Int
    BY <1>1
  <1>3. IsFiniteSet(1 .. Len(s))
    BY <1>2, FS_Interval, Zenon
  <1> QED
    BY <1>1, <1>3

(* Pages have finitely many items.                                         *)
LEMMA FiniteItems ==
  ASSUME NEW got \in Seq(Response) PROVE IsFiniteSet(Unique(got))
  <1> DEFINE of == [i \in DOMAIN got |-> ToSet(got[i].items)]
             all == {of[i] : i \in DOMAIN got}
  <1>1. IsFiniteSet(DOMAIN got)
    BY FiniteDomain
  <1>2. ASSUME NEW i \in DOMAIN got PROVE IsFiniteSet(of[i])
    <2>1. got[i].items \in Seq(Results)
      <3>1. got[i] \in Response
        OBVIOUS
      <3> QED
        BY <3>1 DEF Response
    <2> DEFINE items == got[i].items
               at == [k \in DOMAIN items |-> items[k]]
    <2>2. IsFiniteSet(DOMAIN items)
      <3> HIDE DEF items
      <3>1. items \in Seq(Results)
        BY <2>1 DEF items
      <3> QED
        BY <3>1, FiniteDomain
    <2>3. {at[k] : k \in DOMAIN at} = ToSet(items)
      BY DEF ToSet
    <2>4. DOMAIN at = DOMAIN items /\ at = [k \in DOMAIN at |-> at[k]]
      OBVIOUS
    <2> HIDE DEF items, at
    <2>5. IsFiniteSet({at[k] : k \in DOMAIN at})
      BY <2>2, <2>4, FiniteImage
    <2> QED
      BY <2>3, <2>5 DEF items
  <1>3. IsFiniteSet(all)
    BY <1>1, FiniteImage
  <1>4. IsFiniteSet(UNION all)
    BY <1>2, <1>3, FS_UNION
  <1> QED
    BY <1>4 DEF Unique

(* Another page has been inspected.                                        *)
LEMMA OneMorePage ==
  ASSUME NEW earlier, Inspected(earlier), NEW page \in Response,
         NEW got, got = Append(earlier, page),
         StopReason(got) \in {"none", "provider_exhausted"}
  PROVE  /\ Inspected(got)
         /\ StopReason(got) = "provider_exhausted" => Shows(got)
  <1> DEFINE n == Len(earlier)
  <1>1. /\ n \in Nat /\ DOMAIN earlier = 1 .. n
        /\ got \in Seq(Response) /\ Len(got) = n + 1
        /\ DOMAIN got = 1 .. n + 1
        /\ \A i \in 1 .. n : got[i] = earlier[i]
        /\ got[n + 1] = page /\ got # <<>>
    BY DEF Inspected
  <1>2. /\ page.fault = "none"
        /\ \A i \in 1 .. n : got[i].items # page.items
        /\ StopReason(got) = "provider_exhausted" =>
             /\ page.exhausted /\ page.next = NoCursor
             /\ ~(Cardinality(Unique(got)) > MaxResults)
             /\ Len(got) = 1 => ToSet(page.items) \cap Leads # {}
    <2>1. /\ got[n + 1].fault = "none"
          /\ \A i \in 1 .. n : got[i].items # got[n + 1].items
          /\ StopReason(got) = "provider_exhausted" =>
               /\ got[n + 1].exhausted /\ got[n + 1].next = NoCursor
               /\ ~(Cardinality(Unique(got)) > MaxResults)
               /\ Len(got) = 1 => ToSet(got[n + 1].items) \cap Leads # {}
      <3>1. Len(got) = n + 1 /\ Len(got) - 1 = n
        BY <1>1
      <3>2. got # <<>>
        BY <1>1
      <3>3. /\ got[Len(got)].fault = "none"
            /\ \A i \in 1 .. Len(got) - 1 : got[i].items # got[Len(got)].items
            /\ StopReason(got) = "provider_exhausted" =>
                 /\ got[Len(got)].exhausted /\ got[Len(got)].next = NoCursor
                 /\ ~(Cardinality(Unique(got)) > MaxResults)
                 /\ Len(got) = 1 => ToSet(got[Len(got)].items) \cap Leads # {}
        BY <1>1, <3>2, PageTests
      <3> QED
        BY <3>1, <3>3
    <2> QED
      BY <1>1, <2>1
  <1>3. \A k \in 1 .. n + 1 : got[k].fault = "none"
    BY <1>1, <1>2 DEF Inspected
  <1>4. \A k, l \in 1 .. n + 1 : got[k].items = got[l].items => k = l
    BY <1>1, <1>2 DEF Inspected
  <1>5. Inspected(got)
    BY <1>1, <1>3, <1>4 DEF Inspected
  <1>6. ASSUME StopReason(got) = "provider_exhausted" PROVE Shows(got)
    <2>1. ToSet(page.items) \subseteq Unique(got)
      BY <1>1 DEF Unique
    <2>2. Len(got) > 1 \/ Unique(got) \cap Leads # {}
      BY <1>1, <1>2, <1>6, <2>1
    <2>3. Cardinality(Unique(got)) <= MaxResults
      <3>1. Cardinality(Unique(got)) \in Nat
        BY <1>1, FiniteItems, FS_CardinalityType
      <3>2. MaxResults \in Nat
        BY PaginationAssumption
      <3> QED
        BY <1>2, <1>6, <3>1, <3>2
    <2> QED
      BY <1>1, <1>2, <1>3, <1>4, <1>6, <2>2, <2>3 DEF Shows
  <1> QED
    BY <1>5, <1>6

-----------------------------------------------------------------------------
(* Types of what the run is made of.                                       *)
LEMMA RunConstants ==
  /\ Leads \subseteq Results /\ Terms \subseteq Bases
  /\ RawLeads \in [Leads -> Seq(RawLead)]
  /\ Trusted \in Seq(Names) /\ Title \in [Leads -> Names]
  /\ NoVocabulary \notin Vocabularies /\ "follow_up" \in Queries
  /\ Initial \in [Vocabularies -> Seq(Request)]
  /\ Recall \in [Vocabularies -> Seq(Request)]
  /\ Formulations \in [Vocabularies -> Seq(Formulation)]
  /\ MaxLeads \in Nat /\ MaxTerms \in Nat /\ MaxFollowUps \in Nat
  /\ GroupSize \in Nat \ {0} /\ MaxGroups \in Nat /\ MaxInterrupts \in Nat
  /\ \A c \in Channels : PageResponses[c] \subseteq Response
  BY RunAssumption, PaginationAssumption

LEMMA FlattenEach ==
  ASSUME NEW S, NEW R, NEW s \in Seq(R), NEW ss, DOMAIN ss = DOMAIN s,
         ss = [i \in DOMAIN s |-> ss[i]],
         \A i \in DOMAIN s : ss[i] \in Seq(S)
  PROVE  FlattenSeq(ss) \in Seq(S)
  <1>1. DOMAIN s = 1 .. Len(s) /\ Len(s) \in Nat
    OBVIOUS
  <1>2. ss \in [1 .. Len(s) -> Seq(S)]
    BY <1>1
  <1>3. ss \in Seq(Seq(S))
    BY <1>1, <1>2
  <1> QED
    BY <1>3, FlattenType

LEMMA EachType ==
  ASSUME NEW S, NEW R, NEW s \in Seq(R), NEW t, DOMAIN t = DOMAIN s,
         t = [i \in DOMAIN s |-> t[i]], \A i \in DOMAIN s : t[i] \in S
  PROVE  t \in Seq(S)
  <1>1. DOMAIN s = 1 .. Len(s) /\ Len(s) \in Nat
    OBVIOUS
  <1>2. t \in [1 .. Len(s) -> S]
    BY <1>1
  <1> QED
    BY <1>1, <1>2

LEMMA AtMostType ==
  ASSUME NEW S, NEW s \in Seq(S), NEW n \in Nat PROVE AtMost(n, s) \in Seq(S)
  BY DEF AtMost

LEMMA LeadsInType ==
  ASSUME NEW records, records.pages \in Seq(Response)
  PROVE  LeadsIn(records) \in Seq(Leads)
  <1> DEFINE got == records.pages
             each == [i \in DOMAIN got |-> got[i].items]
             items == Items(got)
             places == {i \in DOMAIN items : items[i] \in Leads}
  <1>1. \A i \in DOMAIN got : each[i] \in Seq(Results)
    <2> SUFFICES ASSUME NEW i \in DOMAIN got PROVE got[i].items \in Seq(Results)
      OBVIOUS
    <2>1. got[i] \in Response
      OBVIOUS
    <2> QED
      BY <2>1 DEF Response
  <1>2. /\ DOMAIN each = DOMAIN got /\ each = [i \in DOMAIN got |-> each[i]]
        /\ items = FlattenSeq(each)
    BY DEF Items
  <1> HIDE DEF got, each, items
  <1>3. items \in Seq(Results)
    BY <1>1, <1>2, FlattenEach DEF got
  <1>4. \A i \in DOMAIN items : i \in places => items[i] \in Leads
    OBVIOUS
  <1> HIDE DEF places
  <1>5. AtPlaces(items, places) \in Seq(Leads)
    BY <1>3, <1>4, AtPlacesIn
  <1> QED
    BY <1>5 DEF LeadsIn, places, items, got

LEMMA TermsOfType ==
  ASSUME NEW raw \in Seq(RawLead) PROVE TermsOf(raw) \in Seq(Terms)
  <1> DEFINE terms == [i \in DOMAIN raw |-> raw[i].term]
  <1>1. /\ DOMAIN terms = DOMAIN raw /\ terms = [i \in DOMAIN raw |-> terms[i]]
        /\ \A i \in DOMAIN raw : terms[i] \in Terms
    <2>1. \A i \in DOMAIN raw : raw[i] \in RawLead
      OBVIOUS
    <2> QED
      BY <2>1 DEF RawLead
  <1> HIDE DEF terms
  <1>2. Distinct(terms) \in Seq(Terms)
    BY <1>1, EachType, DistinctType
  <1>3. AtMost(MaxTerms, Distinct(terms)) \in Seq(Terms)
    BY <1>2, RunConstants, AtMostType
  <1> QED
    BY <1>3 DEF TermsOf, terms

LEMMA TargetsOfType ==
  ASSUME NEW raw \in Seq(RawLead), NEW term
  PROVE  TargetsOf(raw, term) \in Seq(Channels)
  <1> DEFINE each == [i \in DOMAIN raw |->
                        IF raw[i].term = term THEN raw[i].targets ELSE <<>>]
  <1>1. /\ DOMAIN each = DOMAIN raw /\ each = [i \in DOMAIN raw |-> each[i]]
        /\ \A i \in DOMAIN raw : each[i] \in Seq(Channels)
    <2>1. \A i \in DOMAIN raw : raw[i].targets \in Seq(Channels)
      <3>1. \A i \in DOMAIN raw : raw[i] \in RawLead
        OBVIOUS
      <3> QED
        BY <3>1 DEF RawLead
    <2> QED
      BY <2>1
  <1> HIDE DEF each
  <1>2. Distinct(FlattenSeq(each)) \in Seq(Channels)
    BY <1>1, FlattenEach, DistinctType
  <1> QED
    BY <1>2 DEF TargetsOf, each

LEMMA FollowUpsOfType ==
  ASSUME NEW term \in Terms, NEW targets \in Seq(Channels)
  PROVE  FollowUpsOf(term, targets) \in Seq(Request)
  <1> DEFINE of == FollowUpsOf(term, targets)
  <1>1. [base |-> term, without |-> <<>>] \in Text
    BY RunConstants DEF Text
  <1>2. /\ DOMAIN of = DOMAIN targets /\ of = [i \in DOMAIN targets |-> of[i]]
        /\ \A i \in DOMAIN targets : of[i] \in Request
    BY <1>1, RunConstants DEF FollowUpsOf, Request
  <1> HIDE DEF of
  <1>3. of \in Seq(Request)
    BY <1>2, EachType
  <1> QED
    BY <1>3 DEF of

LEMMA FollowUpsFromType ==
  ASSUME NEW raw \in Seq(RawLead), NEW terms \in Seq(Terms)
  PROVE  FollowUpsFrom(raw, terms) \in Seq(Request)
  <1> DEFINE each == [i \in DOMAIN terms |->
                        FollowUpsOf(terms[i], TargetsOf(raw, terms[i]))]
  <1>1. \A i \in DOMAIN terms : each[i] \in Seq(Request)
    <2> SUFFICES ASSUME NEW i \in DOMAIN terms
                 PROVE  FollowUpsOf(terms[i], TargetsOf(raw, terms[i]))
                          \in Seq(Request)
      OBVIOUS
    <2>1. terms[i] \in Terms
      OBVIOUS
    <2> QED
      BY <2>1, TargetsOfType, FollowUpsOfType
  <1>2. DOMAIN each = DOMAIN terms /\ each = [i \in DOMAIN terms |-> each[i]]
    OBVIOUS
  <1> HIDE DEF each
  <1>3. FlattenSeq(each) \in Seq(Request)
    BY <1>1, <1>2, FlattenEach
  <1> QED
    BY <1>3 DEF FollowUpsFrom, each

LEMMA RawLeadsOfType ==
  ASSUME NEW found \in Seq(Leads) PROVE RawLeadsOf(found) \in Seq(RawLead)
  <1> DEFINE each == [i \in DOMAIN found |-> RawLeads[found[i]]]
  <1>1. \A i \in DOMAIN found : each[i] \in Seq(RawLead)
    BY RunConstants
  <1>2. DOMAIN each = DOMAIN found /\ each = [i \in DOMAIN found |-> each[i]]
    OBVIOUS
  <1> HIDE DEF each
  <1>3. FlattenSeq(each) \in Seq(RawLead)
    BY <1>1, <1>2, FlattenEach
  <1> QED
    BY <1>3 DEF RawLeadsOf, each

LEMMA FollowUpsType ==
  ASSUME NEW found \in Seq(Leads)
  PROVE  \E plan \in Seq(Request) : FollowUps(found) = {plan}
  <1> DEFINE raw == AtMost(MaxLeads, RawLeadsOf(found))
             plan == FollowUpsFrom(raw, TermsOf(raw))
  <1>1. raw \in Seq(RawLead)
    BY RawLeadsOfType, RunConstants, AtMostType
  <1>2. FollowUps(found) = {plan}
    BY DEF FollowUps
  <1> HIDE DEF raw
  <1>3. plan \in Seq(Request)
    BY <1>1, TermsOfType, FollowUpsFromType
  <1> QED
    BY <1>2, <1>3

LEMMA TruncatedType ==
  ASSUME NEW found \in Seq(Leads) PROVE Truncated(found) \in BOOLEAN
  BY DEF Truncated

LEMMA GroupsType ==
  ASSUME leads \in Seq(Leads), elicited \in Seq(Names)
  PROVE  ExclusionGroups \in Seq(Seq(Names))
  <1> DEFINE titles == [i \in DOMAIN leads |-> Title[leads[i]]]
             seen == Distinct(Trusted \o elicited \o titles)
             wanted == (Len(seen) + GroupSize - 1) \div GroupSize
             n == IF wanted < MaxGroups THEN wanted ELSE MaxGroups
             part(k) == AtMost(GroupSize,
                          SubSeq(seen, (k - 1) * GroupSize + 1, Len(seen)))
  <1>1. GroupSize \in Nat \ {0} /\ MaxGroups \in Nat
    BY RunConstants
  <1>2. seen \in Seq(Names)
    <2>1. \A i \in DOMAIN leads : titles[i] \in Names
      BY RunConstants
    <2>2. DOMAIN titles = DOMAIN leads
          /\ titles = [i \in DOMAIN leads |-> titles[i]]
      OBVIOUS
    <2> HIDE DEF titles
    <2>3. titles \in Seq(Names)
      BY <2>1, <2>2, EachType
    <2>4. Trusted \o elicited \o titles \in Seq(Names)
      BY <2>3, RunConstants
    <2> QED
      BY <2>4, DistinctType
  <1>3. ExclusionGroups = [k \in 1 .. n |-> part(k)]
    BY DEF ExclusionGroups
  <1> HIDE DEF seen
  <1>4. Len(seen) \in Nat
    BY <1>2
  <1>5. n \in Nat
    <2>1. Len(seen) + GroupSize - 1 \in Nat
      BY <1>1, <1>4
    <2>2. wanted \in Nat
      BY <1>1, <2>1
    <2> QED
      BY <1>1, <2>2
  <1>6. ASSUME NEW k \in 1 .. n PROVE part(k) \in Seq(Names)
    <2> DEFINE first == (k - 1) * GroupSize + 1
    <2>1. first \in Nat \ {0}
      BY <1>1, <1>5
    <2> HIDE DEF first
    <2>2. SubSeq(seen, first, Len(seen)) \in Seq(Names)
      BY <1>2, <1>4, <2>1
    <2>3. AtMost(GroupSize, SubSeq(seen, first, Len(seen))) \in Seq(Names)
      BY <1>1, <2>2, AtMostType
    <2> QED
      BY <2>3 DEF first
  <1> HIDE DEF n, part
  <1> QED
    BY <1>3, <1>5, <1>6

LEMMA VariantsType ==
  ASSUME leads \in Seq(Leads), elicited \in Seq(Names),
         vocabulary \in Vocabularies
  PROVE  Variants \in Seq(Request)
  <1> DEFINE formulations == Formulations[vocabulary]
             without(f) == (IF f.plain THEN << <<>> >> ELSE <<>>)
                             \o OrPlain(ExclusionGroups)
             of(f) == [i \in DOMAIN without(f) |->
                         [query |-> f.query, channel |-> f.channel,
                          text |-> [base |-> f.base,
                                    without |-> without(f)[i]]]]
             each == [i \in DOMAIN formulations |-> of(formulations[i])]
  <1>1. formulations \in Seq(Formulation)
    BY RunConstants
  <1>2. OrPlain(ExclusionGroups) \in Seq(Seq(Names))
    BY GroupsType DEF OrPlain
  <1>3. ASSUME NEW f \in Formulation PROVE of(f) \in Seq(Request)
    <2> DEFINE w == without(f)
    <2>1. /\ f.query \in Queries /\ f.channel \in Channels /\ f.base \in Bases
      BY DEF Formulation
    <2>2. w \in Seq(Seq(Names))
      BY <1>2
    <2> HIDE DEF w
    <2>3. \A i \in DOMAIN w :
            [query |-> f.query, channel |-> f.channel,
             text |-> [base |-> f.base, without |-> w[i]]] \in Request
      <3>1. \A i \in DOMAIN w : w[i] \in Seq(Names)
        BY <2>2
      <3> QED
        BY <2>1, <3>1 DEF Request, Text
    <2> DEFINE all == [i \in DOMAIN w |->
                         [query |-> f.query, channel |-> f.channel,
                          text |-> [base |-> f.base, without |-> w[i]]]]
    <2>4. /\ DOMAIN all = DOMAIN w /\ all = [i \in DOMAIN w |-> all[i]]
          /\ \A i \in DOMAIN w : all[i] \in Request
      BY <2>3
    <2> HIDE DEF all
    <2>5. all \in Seq(Request)
      BY <2>2, <2>4, EachType
    <2> QED
      BY <2>5 DEF all, w
  <1>4. \A i \in DOMAIN formulations : of(formulations[i]) \in Seq(Request)
    <2>1. \A i \in DOMAIN formulations : formulations[i] \in Formulation
      BY <1>1
    <2> HIDE DEF of, formulations
    <2> QED
      BY <1>3, <2>1
  <1> HIDE DEF of, formulations
  <1>5. /\ DOMAIN each = DOMAIN formulations
        /\ each = [i \in DOMAIN formulations |-> each[i]]
        /\ \A i \in DOMAIN formulations : each[i] \in Seq(Request)
    BY <1>4
  <1> HIDE DEF each
  <1>6. FlattenSeq(each) \in Seq(Request)
    BY <1>1, <1>5, FlattenEach
  <1> QED
    BY <1>6 DEF Variants, each, of, formulations

LEMMA LeadNamesType ==
  ASSUME named \in Seq(Lead) PROVE LeadNames \in Seq(Names)
  <1> DEFINE left == AtPlaces(named, {i \in DOMAIN named : named[i].all # {}})
             names == [i \in DOMAIN left |-> left[i].name]
  <1>1. left \in Seq(Lead)
    BY AtPlacesType
  <1> HIDE DEF left
  <1>2. \A i \in DOMAIN left : left[i].name \in Names
    <2>1. \A i \in DOMAIN left : left[i] \in Lead
      BY <1>1
    <2> QED
      BY <2>1 DEF Lead
  <1>3. /\ DOMAIN names = DOMAIN left /\ names = [i \in DOMAIN left |-> names[i]]
        /\ \A i \in DOMAIN left : names[i] \in Names
    BY <1>2
  <1> HIDE DEF names
  <1>4. names \in Seq(Names)
    BY <1>1, <1>3, EachType
  <1> QED
    BY <1>4 DEF LeadNames, names, left

LEMMA KeysOfType ==
  ASSUME NEW requests \in Seq(Request) PROVE KeysOf(requests) \subseteq Keys
  <1>1. \A i \in DOMAIN requests : requests[i] \in Request
    OBVIOUS
  <1> QED
    BY <1>1 DEF KeysOf, Keys, Key, Request

-----------------------------------------------------------------------------
(* What a step leaves alone when nothing is assessed.                      *)
LEMMA NothingAssessed ==
  ASSUME Asked, UNCHANGED <<executed, assessments>> PROVE Asked'
  BY DEF Asked, AskedOnce

(* What a request is answered with is appended once.                       *)
LEMMA AssessKeeps ==
  ASSUME Asked, NEW request, NEW records, ~Executed(request),
         Key(records) = Key(request), Earned(records),
         Assess(request, records)
  PROVE  Asked' /\ pages' = <<>>
  <1> DEFINE n == Len(assessments)
             new == [asked |-> Key(request), phase |-> phase,
                     records |-> records]
  <1>1. /\ executed' = executed \cup {Key(request)}
        /\ assessments' = Append(assessments, new)
        /\ pages' = <<>>
    BY DEF Assess
  <1>2. PICK S : assessments \in Seq(S)
    BY DEF Asked
  <1>3. /\ n \in Nat /\ DOMAIN assessments = 1 .. n
        /\ assessments \in Seq(S \cup {new})
    BY <1>2
  <1> HIDE DEF new
  <1>4. /\ assessments' \in Seq(S \cup {new})
        /\ DOMAIN assessments' = 1 .. n + 1
        /\ \A i \in 1 .. n : assessments'[i] = assessments[i]
        /\ assessments'[n + 1] = new
    BY <1>1, <1>3
  <1>5. /\ new.asked = Key(request) /\ new.records = records
        /\ Key(request) \notin executed
    BY DEF new, Executed
  <1>6. \A i \in 1 .. n + 1 : /\ assessments'[i].asked \in executed'
                              /\ Earned(assessments'[i].records)
    <2>1. \A i \in 1 .. n : /\ assessments[i].asked \in executed
                            /\ Earned(assessments[i].records)
      BY <1>3 DEF Asked
    <2>2. \A i \in 1 .. n + 1 : i \in 1 .. n \/ i = n + 1
      BY <1>3
    <2> QED
      BY <1>1, <1>4, <1>5, <2>1, <2>2
  <1>7. \A i \in 1 .. n + 1 :
          assessments'[i].asked = Key(assessments'[i].records)
    <2>1. \A i \in 1 .. n : assessments[i].asked = Key(assessments[i].records)
      BY <1>3 DEF Asked, AskedOnce
    <2>2. \A i \in 1 .. n + 1 : i \in 1 .. n \/ i = n + 1
      BY <1>3
    <2> QED
      BY <1>4, <1>5, <2>1, <2>2
  <1>8. \A i, j \in 1 .. n + 1 :
          assessments'[i].asked = assessments'[j].asked => i = j
    <2>1. \A i, j \in 1 .. n : assessments[i].asked = assessments[j].asked => i = j
      BY <1>3 DEF Asked, AskedOnce
    <2>2. \A i \in 1 .. n : assessments[i].asked # Key(request)
      BY <1>3, <1>5 DEF Asked
    <2>3. \A i \in 1 .. n + 1 : i \in 1 .. n \/ i = n + 1
      BY <1>3
    <2> QED
      BY <1>4, <1>5, <2>1, <2>2, <2>3
  <1>9. AskedOnce'
    BY <1>4, <1>7, <1>8 DEF AskedOnce
  <1> QED
    BY <1>1, <1>4, <1>6, <1>9 DEF Asked

(* A request that is wanted has not been executed.                         *)
LEMMA WantedIsNew ==
  ASSUME NEW channel, NEW request \in Wanted(channel)
  PROVE  ~Executed(request) /\ request.channel = channel
  BY DEF Wanted, Unneeded

(* What an execution ends with at a page.                                  *)
LEMMA EndedIsEarned ==
  ASSUME Inspected(pages), NEW request, NEW page \in Response,
         NEW got, got = Append(pages, page), NEW records \in Ended(request, got)
  PROVE  Key(records) = Key(request) /\ Earned(records)
  <1>1. PICK reason : /\ reason = EndsWith(request, got)
                      /\ records = RecordsOf(request, got, reason)
    BY DEF Ended
  <1>2. /\ records.channel = request.channel /\ records.text = request.text
        /\ records.pages = got /\ records.reason = reason
    BY <1>1 DEF RecordsOf
  <1>3. ASSUME reason = "provider_exhausted" PROVE Shows(got)
    <2>1. StopReason(got) = "provider_exhausted"
      BY <1>1, <1>3 DEF EndsWith
    <2> QED
      BY <2>1, OneMorePage
  <1> QED
    BY <1>2, <1>3 DEF Key, Earned

LEMMA SearchStep ==
  ASSUME RunInv, Search, UNCHANGED elicitVars
  PROVE  RunInv'
  <1>1. ElicitInv'
    BY ElicitUnchanged DEF RunInv
  <1>2. Asked /\ Remembered /\ Inspected(pages)
    BY DEF RunInv
  <1>3. Inspected(<<>>)
    BY DEF Inspected
  <1>4. ASSUME UNCHANGED <<executed, assessments, memo>>, pages' = pages
        PROVE  RunInv'
    BY <1>1, <1>2, <1>4, NothingAssessed DEF RunInv, Remembered, Inspected
  <1>5. CASE Skip
    BY <1>4, <1>5 DEF Skip
  <1>6. CASE StopFollowUps
    BY <1>4, <1>6 DEF StopFollowUps, DropFollowUps
  <1>7. CASE PlanFollowUps
    BY <1>4, <1>7 DEF PlanFollowUps
  <1>8. CASE NextPhase
    BY <1>4, <1>8 DEF NextPhase
  <1>9. CASE Reuse
    <2>1. PICK channel \in Channels : \E request \in Wanted(channel) :
            /\ Cached(request)
            /\ Assess(request, memo[MemoKey(request)])
            /\ memo' = memo
      BY <1>9 DEF Reuse
    <2>2. PICK request \in Wanted(channel) :
            /\ Cached(request)
            /\ Assess(request, memo[MemoKey(request)])
            /\ memo' = memo
      BY <2>1
    <2> DEFINE records == memo[MemoKey(request)]
    <2>3. Key(records) = Key(request) /\ Earned(records)
      BY <1>2, <2>2 DEF Remembered, Cached, MemoKey, Key
    <2> HIDE DEF records
    <2>4. ~Executed(request) /\ Assess(request, records)
      BY <2>2, WantedIsNew DEF records
    <2>5. Asked' /\ pages' = <<>>
      BY <1>2, <2>3, <2>4, AssessKeeps
    <2> QED
      BY <1>1, <1>2, <1>3, <2>2, <2>5 DEF RunInv, Remembered, Inspected
  <1>10. CASE FetchNext
    <2>1. PICK channel \in Channels :
            \E request \in Wanted(channel), page \in PageResponses[channel] :
              /\ Ended(request, Append(pages, page)) = {}
              /\ pages' = Append(pages, page)
              /\ UNCHANGED <<executed, assessments, memo>>
      BY <1>10 DEF FetchNext
    <2>2. PICK request \in Wanted(channel), page \in PageResponses[channel] :
            /\ Ended(request, Append(pages, page)) = {}
            /\ pages' = Append(pages, page)
            /\ UNCHANGED <<executed, assessments, memo>>
      BY <2>1
    <2>3. page \in Response
      BY <2>2, RunAssumption
    <2> DEFINE got == Append(pages, page)
    <2>4. EndsWith(request, got) = "none"
      BY <2>2 DEF Ended
    <2>5. StopReason(got) = "none"
      BY <2>4 DEF EndsWith
    <2>6. Inspected(got)
      BY <1>2, <2>3, <2>5, OneMorePage
    <2>7. Asked'
      BY <1>2, <2>2, NothingAssessed
    <2> QED
      BY <1>1, <1>2, <2>2, <2>6, <2>7 DEF RunInv, Remembered, Inspected
  <1>11. CASE FetchLast
    <2>1. PICK channel \in Channels :
            \E request \in Wanted(channel), page \in PageResponses[channel] :
            \E records \in Ended(request, Append(pages, page)) :
              /\ Assess(request, records)
              /\ memo' = IF hasMemo THEN Remembering(MemoKey(request), records)
                         ELSE memo
      BY <1>11 DEF FetchLast
    <2>2. PICK request \in Wanted(channel), page \in PageResponses[channel] :
            \E records \in Ended(request, Append(pages, page)) :
              /\ Assess(request, records)
              /\ memo' = IF hasMemo THEN Remembering(MemoKey(request), records)
                         ELSE memo
      BY <2>1
    <2>3. PICK records \in Ended(request, Append(pages, page)) :
            /\ Assess(request, records)
            /\ memo' = IF hasMemo THEN Remembering(MemoKey(request), records)
                       ELSE memo
      BY <2>2
    <2>4. page \in Response
      BY <2>2, RunAssumption
    <2>5. Key(records) = Key(request) /\ Earned(records)
      BY <1>2, <2>3, <2>4, EndedIsEarned
    <2>6. Asked' /\ pages' = <<>>
      BY <1>2, <2>3, <2>5, WantedIsNew, AssessKeeps
    <2>7. Remembered'
      <3>1. CASE ~hasMemo
        BY <1>2, <2>3, <3>1 DEF Remembered
      <3>2. CASE hasMemo
        <4>1. memo' = Remembering(MemoKey(request), records)
          BY <2>3, <3>2
        <4>2. MemoKey(request) = Key(request)
          BY DEF MemoKey, Key
        <4> QED
          BY <1>2, <2>5, <4>1, <4>2 DEF Remembered, Remembering
      <3> QED
        BY <3>1, <3>2
    <2> QED
      BY <1>1, <1>3, <2>6, <2>7 DEF RunInv, Inspected
  <1> QED
    BY <1>5, <1>6, <1>7, <1>8, <1>9, <1>10, <1>11 DEF Search

-----------------------------------------------------------------------------
(* An elicitation that begins again.                                       *)
LEMMA ElicitedAgain == UnaskedAgain => ElicitInv'
  <1>1. UnaskedAgain => Unasked'
    BY DEF UnaskedAgain, Unasked
  <1> QED
    BY <1>1, Initially, PTL

(* A run that begins again has asked nothing.                              *)
LEMMA NothingAsked ==
  ASSUME executed' = {}, assessments' = <<>> PROVE Asked'
  <1>1. assessments' \in Seq({}) /\ DOMAIN assessments' = {}
    OBVIOUS
  <1> QED
    BY <1>1 DEF Asked, AskedOnce

LEMMA RunStep ==
  ASSUME RunInv, Next PROVE RunInv'
  <1>1. Asked /\ Remembered /\ Inspected(pages) /\ ElicitInv
    BY DEF RunInv
  <1>2. ASSUME UNCHANGED <<executed, assessments, memo, pages>>, ElicitInv'
        PROVE  RunInv'
    BY <1>1, <1>2, NothingAssessed DEF RunInv, Remembered, Inspected
  <1>3. CASE Eliciting
    BY <1>1, <1>2, <1>3, ElicitStep DEF Eliciting, runVars, run
  <1>4. CASE Begin
    BY <1>2, <1>4, ElicitedAgain DEF Begin
  <1>5. CASE Abandon
    BY <1>2, <1>5, ElicitedAgain DEF Abandon
  <1>6. CASE Search /\ UNCHANGED elicitVars
    BY <1>6, SearchStep
  <1>7. CASE Interrupt
    <2>1. /\ executed' = {} /\ assessments' = <<>> /\ pages' = <<>>
          /\ memo' = memo /\ UnaskedAgain
      BY <1>7 DEF Interrupt, Start
    <2>2. Inspected(pages)'
      BY <2>1 DEF Inspected
    <2> QED
      BY <1>1, <2>1, <2>2, ElicitedAgain, NothingAsked DEF RunInv, Remembered
  <1>8. CASE VocabularyFails
    BY <1>2, <1>8, ElicitedAgain DEF VocabularyFails
  <1> QED
    BY <1>3, <1>4, <1>5, <1>6, <1>7, <1>8 DEF Next, Step

LEMMA RunInvariance == Spec => []RunInv
  <1>1. Init => RunInv
    <2> SUFFICES ASSUME Init PROVE RunInv
      OBVIOUS
    <2>1. /\ executed = {} /\ assessments = <<>> /\ pages = <<>>
          /\ memo = <<>> /\ Unasked
      BY DEF Init
    <2>2. assessments \in Seq({}) /\ DOMAIN assessments = {} /\ DOMAIN memo = {}
      BY <2>1
    <2> QED
      BY <2>1, <2>2, Initially
      DEF RunInv, Asked, AskedOnce, Remembered, Inspected
  <1>2. RunInv /\ UNCHANGED vars => RunInv'
    BY ElicitUnchanged, NothingAssessed
    DEF vars, runVars, run, RunInv, Remembered, Inspected
  <1>3. RunInv /\ [Next]_vars => RunInv'
    BY <1>2, RunStep
  <1> QED
    BY <1>1, <1>3, PTL DEF Spec

-----------------------------------------------------------------------------
(* The page loop ends with a reason, and goes on below its limit.          *)
LEMMA StopReasons ==
  ASSUME NEW got \in Seq(Response), got # <<>>
  PROVE  /\ StopReason(got) \in Reasons \cup {"none"}
         /\ StopReason(got) = "none" => Len(got) < MaxPages
  <1> DEFINE tests == StopTests(got)
  <1>1. DOMAIN tests = 1 .. 11
    BY DEF StopTests
  <1>2. tests[10].holds <=> Len(got) >= MaxPages
    BY DEF StopTests
  <1>3. \A i \in 1 .. 11 : tests[i].reason \in Reasons
    BY DEF StopTests, Reasons
  <1> HIDE DEF tests
  <1>4. \/ StopReason(got) = "none" /\ \A i \in 1 .. 11 : ~tests[i].holds
        \/ \E i \in 1 .. 11 : StopReason(got) = tests[i].reason
    <2>1. StopReason(got) = FirstHolding(tests)
      BY DEF StopReason, tests
    <2>2. \/ FirstHolding(tests) = "none" /\ \A i \in 1 .. 11 : ~tests[i].holds
          \/ \E i \in 1 .. 11 : /\ FirstHolding(tests) = tests[i].reason
                                /\ tests[i].holds
                                /\ \A j \in 1 .. i - 1 : ~tests[j].holds
      <3>1. 11 \in Nat
        OBVIOUS
      <3> QED
        BY <1>1, <3>1, FirstDecides
    <2> QED
      BY <2>1, <2>2
  <1>5. "none" \notin Reasons
    BY DEF Reasons
  <1>6. Len(got) \in Nat /\ MaxPages \in Nat
    BY PaginationAssumption
  <1> QED
    BY <1>2, <1>3, <1>4, <1>5, <1>6

LEMMA LeadsAssessedType ==
  ASSUME assessments \in Seq(Assessed) PROVE LeadsAssessed \in Seq(Leads)
  <1> DEFINE each == [i \in DOMAIN assessments |->
                        LeadsIn(assessments[i].records)]
  <1>1. \A i \in DOMAIN assessments : each[i] \in Seq(Leads)
    <2>1. \A i \in DOMAIN assessments :
            assessments[i].records.pages \in Seq(Response)
      <3>1. \A i \in DOMAIN assessments : assessments[i] \in Assessed
        OBVIOUS
      <3> QED
        BY <3>1 DEF Assessed, Records
    <2> QED
      BY <2>1, LeadsInType
  <1>2. DOMAIN each = DOMAIN assessments
        /\ each = [i \in DOMAIN assessments |-> each[i]]
    OBVIOUS
  <1> HIDE DEF each
  <1>3. FlattenSeq(each) \in Seq(Leads)
    BY <1>1, <1>2, FlattenEach
  <1> QED
    BY <1>3 DEF LeadsAssessed, each

(* The phases that have requests have a vocabulary.                        *)
Chosen == phase \in {"initial", "follow_up", "weak", "recall"}
            => vocabulary \in Vocabularies

RunTypes == TypeOK /\ Chosen

LEMMA WantedType ==
  ASSUME TypeOK, NEW channel, NEW request \in Wanted(channel)
  PROVE  /\ todo # <<>> /\ request = Head(todo) /\ request \in Request
         /\ request.channel = channel /\ ~AtLimit /\ ~Unneeded(request)
  BY DEF Wanted, TypeOK

LEMMA EndedType ==
  ASSUME TypeOK, NEW request \in Request, NEW page \in Response,
         NEW got, got = Append(pages, page)
  PROVE  /\ got \in Seq(Response)
         /\ Ended(request, got) = {} => Len(got) < MaxPages
         /\ Ended(request, got) \subseteq Records
  <1>1. got \in Seq(Response) /\ got # <<>>
    <2>1. pages \in Seq(Response)
      BY DEF TypeOK
    <2> QED
      BY <2>1
  <1>2. EndsWith(request, got) \in Reasons \cup {"none"}
    BY <1>1, StopReasons DEF EndsWith, Reasons
  <1>3. EndsWith(request, got) = "none" => Len(got) < MaxPages
    BY <1>1, StopReasons DEF EndsWith
  <1>4. request.channel \in Channels /\ request.text \in Text
    BY DEF Request
  <1>5. Ended(request, got) \subseteq Records
    BY <1>1, <1>2, <1>4 DEF Ended, RecordsOf, Records
  <1>6. Ended(request, got) = {} => EndsWith(request, got) = "none"
    BY DEF Ended
  <1> QED
    BY <1>1, <1>3, <1>5, <1>6

LEMMA AssessTypes ==
  ASSUME TypeOK, NEW channel, NEW request \in Wanted(channel),
         NEW records \in Records, Assess(request, records)
  PROVE  /\ todo' \in Seq(Request) /\ pages' = <<>>
         /\ executed' \subseteq Keys /\ assessments' \in Seq(Assessed)
         /\ leads' \in Seq(Leads) /\ productive' \subseteq Queries \X Channels
         /\ included' \in 0 .. MaxFollowUps /\ limitReached' \in BOOLEAN
         /\ planned' \subseteq Keys
         /\ UNCHANGED <<phase, elicited, vocabulary, kept, hasMemo,
                        interrupts, before>>
  <1> DEFINE found == LeadsIn(records)
             new == [asked |-> Key(request), phase |-> phase,
                     records |-> records]
  <1>1. /\ todo # <<>> /\ request \in Request /\ ~AtLimit
        /\ todo \in Seq(Request) /\ phase \in Phases
        /\ assessments \in Seq(Assessed) /\ leads \in Seq(Leads)
        /\ executed \subseteq Keys /\ productive \subseteq Queries \X Channels
        /\ included \in 0 .. MaxFollowUps /\ limitReached \in BOOLEAN
        /\ planned \subseteq Keys
    BY WantedType DEF TypeOK
  <1>2. found \in Seq(Leads)
    BY LeadsInType DEF Records
  <1> HIDE DEF found
  <1>3. PICK more \in IF phase = "follow_up" THEN FollowUps(found) ELSE {<<>>} :
          /\ executed' = executed \cup {Key(request)}
          /\ assessments' = Append(assessments, new)
          /\ leads' = Retained(leads, found)
          /\ productive' = IF phase = "initial" /\ found # <<>>
               THEN productive \cup {<<request.query, request.channel>>}
               ELSE productive
          /\ included' = IF phase = "follow_up" THEN included + 1 ELSE included
          /\ limitReached' = (limitReached \/ (phase = "follow_up"
                                               /\ Truncated(found)))
          /\ todo' = Tail(todo) \o more
          /\ planned' = planned \cup KeysOf(more)
          /\ pages' = <<>>
          /\ UNCHANGED <<phase, elicited, vocabulary, kept, hasMemo, interrupts,
                         before>>
    BY DEF Assess, found
  <1>4. more \in Seq(Request)
    <2>1. <<>> \in Seq(Request)
      OBVIOUS
    <2> QED
      BY <1>2, <2>1, FollowUpsType
  <1>5. Key(request) \in Keys /\ request.query \in Queries
        /\ request.channel \in Channels
    BY <1>1 DEF Key, Keys, Request
  <1>6. new \in Assessed
    BY <1>1, <1>5 DEF Assessed
  <1> HIDE DEF new
  <1>7. todo' \in Seq(Request)
    BY <1>1, <1>3, <1>4
  <1>8. assessments' \in Seq(Assessed)
    BY <1>1, <1>3, <1>6
  <1>9. leads' \in Seq(Leads)
    <2>1. leads \o found \in Seq(Leads)
      BY <1>1, <1>2
    <2> QED
      BY <1>3, <2>1, DistinctType DEF Retained
  <1>10. included' \in 0 .. MaxFollowUps
    <2>1. phase = "follow_up" => included < MaxFollowUps
      BY <1>1, RunConstants DEF AtLimit
    <2> QED
      BY <1>1, <1>3, <2>1, RunConstants
  <1>11. limitReached' \in BOOLEAN
    BY <1>1, <1>3
  <1>12. planned' \subseteq Keys
    BY <1>1, <1>3, <1>4, KeysOfType
  <1> QED
    BY <1>1, <1>3, <1>5, <1>7, <1>8, <1>9, <1>10, <1>11, <1>12

LEMMA AssessedTypes ==
  ASSUME RunTypes, ElicitTypeOK', NEW channel,
         NEW request \in Wanted(channel), NEW records \in Records,
         Assess(request, records), \A k \in DOMAIN memo' : memo'[k] \in Records
  PROVE  RunTypes'
  <1>1. /\ todo' \in Seq(Request) /\ pages' = <<>>
        /\ executed' \subseteq Keys /\ assessments' \in Seq(Assessed)
        /\ leads' \in Seq(Leads) /\ productive' \subseteq Queries \X Channels
        /\ included' \in 0 .. MaxFollowUps /\ limitReached' \in BOOLEAN
        /\ planned' \subseteq Keys
        /\ UNCHANGED <<phase, elicited, vocabulary, kept, hasMemo,
                       interrupts, before>>
    BY AssessTypes DEF RunTypes
  <1>2. pages' \in Seq(Response) /\ Len(pages') < MaxPages
    BY <1>1, PaginationAssumption
  <1>3. TypeOK'
    BY <1>1, <1>2 DEF RunTypes, TypeOK
  <1>4. Chosen'
    BY <1>1 DEF RunTypes, Chosen
  <1> QED
    BY <1>3, <1>4 DEF RunTypes

LEMMA SearchTypes ==
  ASSUME RunTypes, ElicitTypeOK', Search PROVE RunTypes'
  <1>1. /\ TypeOK /\ Chosen /\ todo \in Seq(Request)
        /\ pages \in Seq(Response) /\ assessments \in Seq(Assessed)
        /\ leads \in Seq(Leads) /\ elicited \in Seq(Names)
        /\ phase \in Phases /\ limitReached \in BOOLEAN
        /\ \A k \in DOMAIN memo : memo[k] \in Records
    BY DEF RunTypes, TypeOK
  <1>2. CASE Skip
    <2>1. todo' \in Seq(Request)
      BY <1>1, <1>2 DEF Skip
    <2>2. UNCHANGED <<phase, pages, executed, assessments, leads, productive,
                      included, limitReached, elicited, vocabulary, planned,
                      memo, kept, hasMemo, interrupts, before>>
      BY <1>2 DEF Skip
    <2> QED
      BY <2>1, <2>2 DEF RunTypes, TypeOK, Chosen
  <1>3. CASE StopFollowUps
    <2>1. todo' \in Seq(Request) /\ limitReached' \in BOOLEAN
      BY <1>3 DEF StopFollowUps, DropFollowUps
    <2>2. UNCHANGED <<phase, pages, executed, assessments, leads, productive,
                      included, elicited, vocabulary, planned,
                      memo, kept, hasMemo, interrupts, before>>
      BY <1>3 DEF StopFollowUps, DropFollowUps
    <2> QED
      BY <2>1, <2>2 DEF RunTypes, TypeOK, Chosen
  <1>4. CASE Reuse
    <2>1. PICK channel \in Channels : \E request \in Wanted(channel) :
            /\ Cached(request)
            /\ Assess(request, memo[MemoKey(request)])
            /\ memo' = memo
      BY <1>4 DEF Reuse
    <2>2. PICK request \in Wanted(channel) :
            /\ Cached(request)
            /\ Assess(request, memo[MemoKey(request)])
            /\ memo' = memo
      BY <2>1
    <2> DEFINE records == memo[MemoKey(request)]
    <2>3. records \in Records
      BY <1>1, <2>2 DEF Cached
    <2>4. \A k \in DOMAIN memo' : memo'[k] \in Records
      BY <1>1, <2>2
    <2>5. Assess(request, records)
      BY <2>2
    <2> HIDE DEF records
    <2> QED
      BY <2>3, <2>4, <2>5, AssessedTypes
  <1>5. CASE FetchNext
    <2>1. PICK channel \in Channels :
            \E request \in Wanted(channel), page \in PageResponses[channel] :
              /\ Ended(request, Append(pages, page)) = {}
              /\ pages' = Append(pages, page)
              /\ UNCHANGED <<phase, todo, executed, assessments, leads,
                             productive, included, limitReached, elicited,
                             vocabulary, planned, memo, kept, hasMemo,
                             interrupts, before>>
      BY <1>5 DEF FetchNext
    <2>2. PICK request \in Wanted(channel), page \in PageResponses[channel] :
            /\ Ended(request, Append(pages, page)) = {}
            /\ pages' = Append(pages, page)
            /\ UNCHANGED <<phase, todo, executed, assessments, leads,
                           productive, included, limitReached, elicited,
                           vocabulary, planned, memo, kept, hasMemo,
                           interrupts, before>>
      BY <2>1
    <2>3. page \in Response /\ request \in Request
      BY <1>1, <2>2, RunConstants, WantedType
    <2>4. pages' \in Seq(Response) /\ Len(pages') < MaxPages
      BY <1>1, <2>2, <2>3, EndedType
    <2> QED
      BY <2>2, <2>4 DEF RunTypes, TypeOK, Chosen
  <1>6. CASE FetchLast
    <2>1. PICK channel \in Channels :
            \E request \in Wanted(channel), page \in PageResponses[channel] :
            \E records \in Ended(request, Append(pages, page)) :
              /\ Assess(request, records)
              /\ memo' = IF hasMemo THEN Remembering(MemoKey(request), records)
                         ELSE memo
      BY <1>6 DEF FetchLast
    <2>2. PICK request \in Wanted(channel), page \in PageResponses[channel] :
            \E records \in Ended(request, Append(pages, page)) :
              /\ Assess(request, records)
              /\ memo' = IF hasMemo THEN Remembering(MemoKey(request), records)
                         ELSE memo
      BY <2>1
    <2>3. PICK records \in Ended(request, Append(pages, page)) :
            /\ Assess(request, records)
            /\ memo' = IF hasMemo THEN Remembering(MemoKey(request), records)
                       ELSE memo
      BY <2>2
    <2>4. page \in Response /\ request \in Request
      BY <1>1, <2>2, RunConstants, WantedType
    <2>5. records \in Records
      BY <1>1, <2>3, <2>4, EndedType
    <2>6. \A k \in DOMAIN memo' : memo'[k] \in Records
      BY <1>1, <2>3, <2>5 DEF Remembering
    <2> QED
      BY <2>3, <2>5, <2>6, AssessedTypes
  <1>7. CASE PlanFollowUps
    <2>1. PICK plan \in FollowUps(LeadsAssessed) :
            /\ todo' = plan /\ planned' = KeysOf(plan)
            /\ limitReached' = Truncated(LeadsAssessed)
      BY <1>7 DEF PlanFollowUps
    <2>2. plan \in Seq(Request)
      BY <1>1, <2>1, LeadsAssessedType, FollowUpsType
    <2>3. limitReached' \in BOOLEAN /\ planned' \subseteq Keys
      BY <2>1, <2>2, KeysOfType DEF Truncated
    <2>4. /\ phase = "initial" /\ phase' = "follow_up"
          /\ UNCHANGED <<pages, executed, assessments, leads, productive,
                         included, elicited, vocabulary, memo, kept, hasMemo,
                         interrupts, before>>
      BY <1>7 DEF PlanFollowUps
    <2>5. phase' \in Phases /\ Chosen'
      BY <1>1, <2>4 DEF Phases, Chosen
    <2> QED
      BY <2>1, <2>2, <2>3, <2>4, <2>5 DEF RunTypes, TypeOK
  <1>8. CASE NextPhase
    <2> DEFINE asks == CASE phase = "follow_up" -> Variants
                         [] phase = "weak" -> Recall[vocabulary]
                         [] OTHER -> <<>>
               plan == {j \in DOMAIN asks :
                          phase = "follow_up" =>
                            <<asks[j].query, asks[j].channel>> \notin productive}
    <2>1. /\ phase \in {"follow_up", "weak", "recall"}
          /\ phase' \in {"weak", "recall", "done"}
          /\ todo' = asks
          /\ planned' = {Key(asks[i]) : i \in plan}
          /\ UNCHANGED <<pages, executed, assessments, leads, productive,
                         included, limitReached, elicited, vocabulary, memo,
                         kept, hasMemo, interrupts, before>>
      BY <1>8 DEF NextPhase, Later
    <2>2. vocabulary \in Vocabularies
      BY <1>1, <2>1 DEF Chosen
    <2>3. asks \in Seq(Request)
      BY <1>1, <2>1, <2>2, VariantsType, RunConstants
    <2>4. planned' \subseteq KeysOf(asks)
      BY <2>1 DEF KeysOf
    <2> HIDE DEF asks
    <2>5. planned' \subseteq Keys
      BY <2>3, <2>4, KeysOfType
    <2>6. phase' \in Phases /\ Chosen'
      BY <2>1, <2>2 DEF Phases, Chosen
    <2> QED
      BY <2>1, <2>3, <2>5, <2>6 DEF RunTypes, TypeOK
  <1> QED
    BY <1>2, <1>3, <1>4, <1>5, <1>6, <1>7, <1>8 DEF Search

LEMMA TypeStep ==
  ASSUME RunTypes, ElicitTypeOK', Next PROVE RunTypes'
  <1>1. TypeOK /\ Chosen
    BY DEF RunTypes
  <1>2. CASE Eliciting
    BY <1>1, <1>2 DEF Eliciting, runVars, run, RunTypes, TypeOK, Chosen
  <1>3. CASE Begin
    <2>1. PICK v \in Available :
            /\ vocabulary' = v /\ kept' = KeptAfter(v)
            /\ todo' = Initial[v] /\ planned' = KeysOf(Initial[v])
      BY <1>3 DEF Begin
    <2>2. /\ phase' = "initial" /\ elicited' = LeadNames
          /\ UNCHANGED <<pages, executed, assessments, leads, productive,
                         included, limitReached, memo, hasMemo, interrupts,
                         before>>
      BY <1>3 DEF Begin
    <2>3. v \in Vocabularies
      BY <1>1, <2>1 DEF Available, TypeOK
    <2>4. todo' \in Seq(Request)
      BY <2>1, <2>3, RunConstants
    <2>5. planned' \subseteq Keys
      BY <2>1, <2>4, KeysOfType
    <2>6. elicited' \in Seq(Names)
      BY <1>1, <2>2, LeadNamesType DEF TypeOK, ElicitTypeOK
    <2>7. {vocabulary', kept'} \subseteq Vocabularies \cup {NoVocabulary}
      BY <1>1, <2>1, <2>3 DEF KeptAfter, TypeOK
    <2>8. phase' \in Phases /\ Chosen'
      BY <2>1, <2>2, <2>3 DEF Phases, Chosen
    <2> QED
      BY <1>1, <2>2, <2>4, <2>5, <2>6, <2>7, <2>8 DEF RunTypes, TypeOK
  <1>4. CASE Abandon \/ VocabularyFails
    <2>1. /\ phase' = "failed"
          /\ UNCHANGED <<todo, pages, executed, assessments, leads, productive,
                         included, limitReached, elicited, vocabulary, planned,
                         memo, kept, hasMemo, interrupts, before>>
      BY <1>4 DEF Abandon, VocabularyFails
    <2>2. phase' \in Phases /\ Chosen'
      BY <2>1 DEF Phases, Chosen
    <2> QED
      BY <1>1, <2>1, <2>2 DEF RunTypes, TypeOK
  <1>5. CASE Search /\ UNCHANGED elicitVars
    BY <1>5, SearchTypes
  <1>6. CASE Interrupt
    <2>1. /\ phase' = "elicitation" /\ todo' = <<>> /\ pages' = <<>>
          /\ executed' = {} /\ assessments' = <<>> /\ leads' = <<>>
          /\ productive' = {} /\ included' = 0 /\ limitReached' = FALSE
          /\ planned' = {} /\ elicited' = <<>> /\ vocabulary' = NoVocabulary
      BY <1>6 DEF Interrupt, Start
    <2>2. /\ interrupts' = interrupts + 1 /\ interrupts < MaxInterrupts
          /\ before' = Deterministic(assessments)
          /\ UNCHANGED <<memo, kept, hasMemo>>
      BY <1>6 DEF Interrupt
    <2>3. before' \in Seq(Assessed)
      BY <1>1, <2>2, AtPlacesType DEF TypeOK, Deterministic
    <2>4. interrupts' \in 0 .. MaxInterrupts
      BY <1>1, <2>2, RunConstants DEF TypeOK
    <2>5. /\ phase' \in Phases /\ Chosen'
          /\ {vocabulary', kept'} \subseteq Vocabularies \cup {NoVocabulary}
      BY <1>1, <2>1, <2>2 DEF Phases, Chosen, TypeOK
    <2>6. /\ todo' \in Seq(Request)
          /\ pages' \in Seq(Response) /\ Len(pages') < MaxPages
          /\ assessments' \in Seq(Assessed) /\ leads' \in Seq(Leads)
          /\ elicited' \in Seq(Names) /\ included' \in 0 .. MaxFollowUps
      BY <2>1, RunConstants, PaginationAssumption
    <2> QED
      BY <1>1, <2>1, <2>2, <2>3, <2>4, <2>5, <2>6 DEF RunTypes, TypeOK
  <1> QED
    BY <1>2, <1>3, <1>4, <1>5, <1>6 DEF Next, Step

LEMMA TypeInvariance == Spec => []RunTypes
  <1>1. Init => RunTypes
    <2> SUFFICES ASSUME Init PROVE RunTypes
      OBVIOUS
    <2>1. /\ phase = "elicitation" /\ todo = <<>> /\ pages = <<>>
          /\ executed = {} /\ assessments = <<>> /\ leads = <<>>
          /\ productive = {} /\ included = 0 /\ limitReached = FALSE
          /\ elicited = <<>> /\ vocabulary = NoVocabulary
          /\ memo = <<>> /\ kept = NoVocabulary /\ hasMemo \in BOOLEAN
          /\ interrupts = 0 /\ planned = {} /\ before = <<>>
      BY DEF Init
    <2>2. ElicitTypeOK
      BY Initially DEF Init, ElicitInv
    <2>3. /\ todo \in Seq(Request)
          /\ pages \in Seq(Response) /\ Len(pages) < MaxPages
          /\ assessments \in Seq(Assessed) /\ leads \in Seq(Leads)
          /\ elicited \in Seq(Names) /\ included \in 0 .. MaxFollowUps
          /\ interrupts \in 0 .. MaxInterrupts /\ before \in Seq(Assessed)
          /\ DOMAIN memo = {}
      BY <2>1, RunConstants, PaginationAssumption
    <2>4. phase \in Phases /\ Chosen
      BY <2>1 DEF Phases, Chosen
    <2> QED
      BY <2>1, <2>2, <2>3, <2>4 DEF RunTypes, TypeOK
  <1>2. RunTypes /\ ElicitInv' /\ [Next]_vars => RunTypes'
    <2>1. ElicitInv' => ElicitTypeOK'
      BY DEF ElicitInv
    <2>2. RunTypes /\ ElicitTypeOK' /\ UNCHANGED vars => RunTypes'
      BY DEF vars, runVars, run, RunTypes, TypeOK, Chosen
    <2> QED
      BY <2>1, <2>2, TypeStep
  <1>3. RunInv => ElicitInv
    BY DEF RunInv
  <1> QED
    BY <1>1, <1>2, <1>3, RunInvariance, PTL DEF Spec

-----------------------------------------------------------------------------
(* Types and bounds, whatever the model names and the providers answer.    *)
THEOREM RunTypeCorrect == Spec => []TypeOK
  <1>1. RunTypes => TypeOK
    BY DEF RunTypes
  <1> QED
    BY <1>1, TypeInvariance, PTL

(* In a run no request is executed twice, whichever phases it comes up in  *)
(* and however often the run was interrupted, and the memo never answers   *)
(* it with what another request found.                                     *)
THEOREM NothingTwice == Spec => []AskedOnce
  <1>1. RunInv => AskedOnce
    BY DEF RunInv, Asked
  <1> QED
    BY <1>1, RunInvariance, PTL

(* Whatever a provider answers, and whatever was remembered of an earlier  *)
(* run, a search counts as exhausted only when it is.                      *)
THEOREM ExhaustionIsEarned == Spec => []ExhaustionEarned
  <1>1. RunInv => ExhaustionEarned
    BY DEF RunInv, Asked, Earned, Shows, ExhaustionEarned
  <1> QED
    BY <1>1, RunInvariance, PTL

(* A run keeps every name of a valid candidate too, and once.              *)
THEOREM NothingNamedIsLost == Spec => []EveryNameOnce
  <1>1. RunInv => EveryNameOnce
    BY AccountedFor DEF RunInv
  <1> QED
    BY <1>1, RunInvariance, PTL

(* Its follow-ups exclude what is known and everything it has been told.   *)
THEOREM FollowUpsAskForMore == Spec => FollowUpsExclude
  <1>1. ASSUME RunInv, Next, stage = "prompt", stage' = "asked", iteration > 0
        PROVE  excluded' = Known \cup accepted
    <2>1. ElicitInv
      BY <1>1 DEF RunInv
    <2>2. CASE Elicit
      BY <1>1, <2>1, <2>2, FollowUpExcludesAll
    <2>3. ~Begin /\ ~Abandon /\ ~VocabularyFails /\ ~Interrupt
      BY <1>1 DEF Begin, Abandon, VocabularyFails, Interrupt, Start,
                  UnaskedAgain
    <2>4. ~UNCHANGED elicitVars
      BY <1>1 DEF elicitVars, progress
    <2> QED
      BY <1>1, <2>2, <2>3, <2>4 DEF Next, Step, Eliciting
  <1>2. RunInv /\ [Next]_vars
          => [stage = "prompt" /\ stage' = "asked" /\ iteration > 0
                => excluded' = Known \cup accepted]_elicitVars
    BY <1>1 DEF vars
  <1> QED
    BY <1>2, RunInvariance, PTL DEF Spec, FollowUpsExclude

-----------------------------------------------------------------------------
(* What a request was answered with is appended, also to what the leads    *)
(* are recomputed from.                                                    *)
LEMMA LeadsAppended ==
  ASSUME RunTypes, NEW channel, NEW request \in Wanted(channel),
         NEW records \in Records, Assess(request, records)
  PROVE  LeadsAssessed' = LeadsAssessed \o LeadsIn(records)
  <1> DEFINE n == Len(assessments)
             new == [asked |-> Key(request), phase |-> phase,
                     records |-> records]
             each == [i \in DOMAIN assessments |->
                        LeadsIn(assessments[i].records)]
             all == [i \in DOMAIN assessments' |->
                       LeadsIn(assessments'[i].records)]
             found == LeadsIn(records)
  <1>1. /\ assessments \in Seq(Assessed) /\ assessments' \in Seq(Assessed)
        /\ assessments' = Append(assessments, new)
    BY AssessTypes DEF RunTypes, TypeOK, Assess
  <1>2. /\ n \in Nat /\ DOMAIN assessments = 1 .. n
        /\ DOMAIN assessments' = 1 .. n + 1
        /\ \A i \in 1 .. n : assessments'[i] = assessments[i]
        /\ assessments'[n + 1] = new /\ new.records = records
    BY <1>1
  <1>3. found \in Seq(Leads)
    BY LeadsInType DEF Records
  <1>4. \A i \in 1 .. n : each[i] \in Seq(Leads) /\ all[i] = each[i]
    <2>1. \A i \in 1 .. n : assessments[i].records.pages \in Seq(Response)
      <3>1. \A i \in 1 .. n : assessments[i] \in Assessed
        BY <1>1, <1>2
      <3> QED
        BY <3>1 DEF Assessed, Records
    <2>2. \A i \in 1 .. n : i \in 1 .. n + 1
      BY <1>2
    <2> QED
      BY <1>2, <2>1, <2>2, LeadsInType
  <1>5. all[n + 1] = found /\ DOMAIN all = 1 .. n + 1 /\ DOMAIN each = 1 .. n
    BY <1>2
  <1>6. each = [i \in 1 .. n |-> each[i]] /\ all = [i \in 1 .. n + 1 |-> all[i]]
    BY <1>2
  <1>7. LeadsAssessed = FlattenSeq(each) /\ LeadsAssessed' = FlattenSeq(all)
    BY DEF LeadsAssessed
  <1> HIDE DEF n, new, each, all, found
  <1>8. /\ each \in Seq(Seq(Leads)) /\ Len(each) = n
        /\ all \in Seq(Seq(Leads)) /\ Len(all) = n + 1
    <2>1. each \in [1 .. n -> Seq(Leads)]
      BY <1>4, <1>6
    <2>2. \A i \in 1 .. n + 1 : i \in 1 .. n \/ i = n + 1
      BY <1>2
    <2>3. all \in [1 .. n + 1 -> Seq(Leads)]
      BY <1>3, <1>4, <1>5, <1>6, <2>2
    <2>4. each \in Seq(Seq(Leads)) /\ Len(each) = n
      BY <1>2, <2>1
    <2>5. n + 1 \in Nat
      BY <1>2
    <2>6. all \in Seq(Seq(Leads)) /\ Len(all) = n + 1
      BY <2>3, <2>5
    <2> QED
      BY <2>4, <2>6
  <1>9. all = Append(each, found)
    <2>1. \A i \in 1 .. n + 1 : all[i] = Append(each, found)[i]
      <3>1. /\ \A i \in 1 .. n : Append(each, found)[i] = each[i]
            /\ Append(each, found)[n + 1] = found
        BY <1>2, <1>3, <1>8
      <3>2. \A i \in 1 .. n + 1 : i \in 1 .. n \/ i = n + 1
        BY <1>2
      <3> QED
        BY <1>4, <1>5, <3>1, <3>2
    <2> QED
      BY <1>2, <1>3, <1>8, <2>1
  <1>10. FlattenSeq(all) = FlattenSeq(each) \o found
    BY <1>3, <1>8, <1>9, FlattenAppend
  <1> QED
    BY <1>7, <1>10 DEF found

(* The records that a step assesses, if it does.                           *)
Assesses(records) ==
  \E channel \in Channels : \E request \in Wanted(channel) :
    Assess(request, records)

(* A step assesses records, begins again, or leaves what was assessed.     *)
LEMMA StepAssesses ==
  ASSUME RunTypes, Next
  PROVE  \/ \E records \in Records : Assesses(records)
         \/ Start
         \/ UNCHANGED <<assessments, leads, executed, productive>>
  <1>1. \A k \in DOMAIN memo : memo[k] \in Records
    BY DEF RunTypes, TypeOK
  <1>2. CASE Reuse
    <2>1. PICK channel \in Channels : \E request \in Wanted(channel) :
            /\ Cached(request)
            /\ Assess(request, memo[MemoKey(request)])
      BY <1>2 DEF Reuse
    <2>2. PICK request \in Wanted(channel) :
            /\ Cached(request)
            /\ Assess(request, memo[MemoKey(request)])
      BY <2>1
    <2>3. memo[MemoKey(request)] \in Records
      BY <1>1, <2>2 DEF Cached
    <2> QED
      BY <2>2, <2>3 DEF Assesses
  <1>3. CASE FetchLast
    <2>1. PICK channel \in Channels :
            \E request \in Wanted(channel), page \in PageResponses[channel] :
            \E records \in Ended(request, Append(pages, page)) :
              Assess(request, records)
      BY <1>3 DEF FetchLast
    <2>2. PICK request \in Wanted(channel), page \in PageResponses[channel] :
            \E records \in Ended(request, Append(pages, page)) :
              Assess(request, records)
      BY <2>1
    <2>3. PICK records \in Ended(request, Append(pages, page)) :
            Assess(request, records)
      BY <2>2
    <2>4. page \in Response /\ request \in Request
      BY <2>2, RunConstants, WantedType DEF RunTypes
    <2>5. records \in Records
      BY <2>3, <2>4, EndedType DEF RunTypes
    <2> QED
      BY <2>3, <2>5 DEF Assesses
  <1>4. CASE Interrupt
    BY <1>4 DEF Interrupt
  <1>5. CASE Eliciting \/ Begin \/ Abandon \/ VocabularyFails
    BY <1>5 DEF Eliciting, Begin, Abandon, VocabularyFails, runVars, run
  <1>6. CASE Skip \/ StopFollowUps \/ PlanFollowUps \/ NextPhase \/ FetchNext
    BY <1>6 DEF Skip, StopFollowUps, DropFollowUps, PlanFollowUps, NextPhase,
                FetchNext
  <1> QED
    BY <1>2, <1>3, <1>4, <1>5, <1>6 DEF Next, Step, Search

LEMMA LeadsStep ==
  ASSUME RunTypes, LeadsAgree, Next PROVE LeadsAgree'
  <1>1. CASE \E records \in Records : Assesses(records)
    <2>1. PICK records \in Records, channel \in Channels :
            \E request \in Wanted(channel) : Assess(request, records)
      BY <1>1 DEF Assesses
    <2>2. PICK request \in Wanted(channel) : Assess(request, records)
      BY <2>1
    <2> DEFINE found == LeadsIn(records)
               old == LeadsAssessed
    <2>3. LeadsAssessed' = old \o found
      BY <2>2, LeadsAppended
    <2>4. leads' = Distinct(leads \o found)
      BY <2>2 DEF Assess, Retained
    <2>5. found \in Seq(Leads)
      BY LeadsInType DEF Records
    <2>6. old \in Seq(Leads)
      BY LeadsAssessedType DEF RunTypes, TypeOK
    <2>7. leads = Distinct(old)
      BY DEF LeadsAgree, LeadsWithContext
    <2> HIDE DEF found, old
    <2>8. Distinct(Distinct(old) \o found) = Distinct(old \o found)
      BY <2>5, <2>6, DistinctOfBoth
    <2> QED
      BY <2>3, <2>4, <2>7, <2>8 DEF LeadsAgree, LeadsWithContext
  <1>2. CASE Start
    <2>1. assessments' = <<>> /\ leads' = <<>>
      BY <1>2 DEF Start
    <2>2. [i \in DOMAIN <<>> |-> LeadsIn((<<>>[i]).records)] = <<>>
      OBVIOUS
    <2>3. LeadsAssessed' = <<>>
      BY <2>1, <2>2, FlattenNothing DEF LeadsAssessed
    <2> QED
      BY <2>1, <2>3, DistinctOfNothing DEF LeadsAgree, LeadsWithContext
  <1>3. CASE UNCHANGED <<assessments, leads, executed, productive>>
    BY <1>3 DEF LeadsAgree, LeadsWithContext, LeadsAssessed
  <1> QED
    BY <1>1, <1>2, <1>3, StepAssesses

(* The leads of the result are always those that are recomputed from the   *)
(* assessments, in the same order: retaining them one execution at a time, *)
(* from the memo too, loses none and moves none.                           *)
THEOREM LeadsAlwaysAgree == Spec => []LeadsAgree
  <1>1. Init => LeadsAgree
    <2> SUFFICES ASSUME Init PROVE LeadsAgree
      OBVIOUS
    <2>1. assessments = <<>> /\ leads = <<>>
      BY DEF Init
    <2>2. [i \in DOMAIN <<>> |-> LeadsIn((<<>>[i]).records)] = <<>>
      OBVIOUS
    <2>3. LeadsAssessed = <<>>
      BY <2>1, <2>2, FlattenNothing DEF LeadsAssessed
    <2> QED
      BY <2>1, <2>3, DistinctOfNothing DEF LeadsAgree, LeadsWithContext
  <1>2. LeadsAgree /\ UNCHANGED vars => LeadsAgree'
    BY DEF vars, runVars, run, LeadsAgree, LeadsWithContext, LeadsAssessed
  <1>3. RunTypes /\ LeadsAgree /\ [Next]_vars => LeadsAgree'
    BY <1>2, LeadsStep
  <1> QED
    BY <1>1, <1>3, TypeInvariance, PTL DEF Spec

-----------------------------------------------------------------------------
(* A request that the phase has to ask is executed or still to do.         *)
Due(key) ==
  \/ key \in executed
  \/ \E i \in DOMAIN todo :
       /\ Key(todo[i]) = key
       /\ phase = "weak" => <<todo[i].query, todo[i].channel>> \notin productive

PlanHeld == \/ phase = "follow_up" /\ limitReached
            \/ \A key \in planned : Due(key)

LEMMA PlanHeldQueried == PlanHeld => PlannedQueried
  BY DEF PlanHeld, Due, PlannedQueried

(* The first request leaves the queue because it was executed or because   *)
(* its query was productive; another stays.                                *)
LEMMA HeadLeaves ==
  ASSUME RunTypes, todo # <<>>, NEW key, Due(key), NEW more \in Seq(Request),
         Key(Head(todo)) \in executed'
           \/ /\ phase = "weak"
              /\ <<Head(todo).query, Head(todo).channel>> \in productive,
         todo' = Tail(todo) \o more, executed \subseteq executed',
         phase' = phase, phase = "weak" => productive' = productive
  PROVE  Due(key)'
  <1>1. CASE key \in executed
    BY <1>1 DEF Due
  <1>2. CASE key \notin executed
    <2>1. PICK i \in DOMAIN todo :
            /\ Key(todo[i]) = key
            /\ phase = "weak" =>
                 <<todo[i].query, todo[i].channel>> \notin productive
      BY <1>2 DEF Due
    <2>2. /\ Len(todo) \in Nat /\ DOMAIN todo = 1 .. Len(todo) /\ Len(todo) > 0
          /\ Head(todo) = todo[1] /\ Tail(todo) \in Seq(Request)
          /\ Len(Tail(todo)) = Len(todo) - 1
          /\ \A j \in 1 .. Len(todo) - 1 : Tail(todo)[j] = todo[j + 1]
      BY DEF RunTypes, TypeOK
    <2>3. CASE i = 1
      BY <2>1, <2>2, <2>3 DEF Due
    <2>4. CASE i # 1
      <3>1. i - 1 \in 1 .. Len(todo) - 1 /\ (i - 1) + 1 = i
        BY <2>2, <2>4
      <3>2. /\ i - 1 \in DOMAIN (Tail(todo) \o more)
            /\ (Tail(todo) \o more)[i - 1] = Tail(todo)[i - 1]
        BY <2>2, <3>1
      <3>3. i - 1 \in DOMAIN todo' /\ todo'[i - 1] = todo[i]
        BY <2>2, <3>1, <3>2
      <3> QED
        BY <2>1, <3>3 DEF Due
    <2> QED
      BY <2>3, <2>4
  <1> QED
    BY <1>1, <1>2

LEMMA PlanStep ==
  ASSUME RunTypes, PlanHeld, Next PROVE PlanHeld'
  <1>1. /\ todo \in Seq(Request) /\ limitReached \in BOOLEAN /\ TypeOK
        /\ <<>> \in Seq(Request)
    BY DEF RunTypes, TypeOK
  <1>2. CASE \E records \in Records : Assesses(records)
    <2>1. PICK records \in Records, channel \in Channels :
            \E request \in Wanted(channel) : Assess(request, records)
      BY <1>2 DEF Assesses
    <2>2. PICK request \in Wanted(channel) : Assess(request, records)
      BY <2>1
    <2>3. todo # <<>> /\ request = Head(todo)
      BY <1>1, WantedType
    <2> DEFINE found == LeadsIn(records)
    <2>4. found \in Seq(Leads)
      BY LeadsInType DEF Records
    <2>5. PICK more \in IF phase = "follow_up" THEN FollowUps(found)
                        ELSE {<<>>} :
            /\ executed' = executed \cup {Key(request)}
            /\ productive' = IF phase = "initial" /\ found # <<>>
                 THEN productive \cup {<<request.query, request.channel>>}
                 ELSE productive
            /\ limitReached' = (limitReached \/ (phase = "follow_up"
                                                 /\ Truncated(found)))
            /\ todo' = Tail(todo) \o more
            /\ planned' = planned \cup KeysOf(more)
            /\ phase' = phase
      BY <2>2 DEF Assess
    <2> HIDE DEF found
    <2>6. more \in Seq(Request)
      <3>1. PICK plan \in Seq(Request) : FollowUps(found) = {plan}
        BY <2>4, FollowUpsType
      <3>2. more = plan \/ more = <<>>
        BY <2>5, <3>1
      <3> QED
        BY <1>1, <3>2
    <2>7. CASE phase = "follow_up" /\ limitReached
      BY <2>5, <2>7 DEF PlanHeld
    <2>8. CASE ~(phase = "follow_up" /\ limitReached)
      <3>1. \A key \in planned : Due(key)
        BY <2>8 DEF PlanHeld
      <3>2. \A key \in planned : Due(key)'
        BY <2>3, <2>5, <2>6, <3>1, HeadLeaves
      <3>3. ASSUME NEW key \in KeysOf(more) PROVE Due(key)'
        <4>1. PICK i \in DOMAIN more : key = Key(more[i])
          BY <3>3 DEF KeysOf
        <4>2. CASE more = <<>>
          BY <4>1, <4>2
        <4>3. CASE phase = "follow_up"
          <5>1. Tail(todo) \in Seq(Request) /\ Len(Tail(todo)) \in Nat
            BY <1>1, <2>3
          <5>2. /\ Len(Tail(todo)) + i \in DOMAIN (Tail(todo) \o more)
                /\ (Tail(todo) \o more)[Len(Tail(todo)) + i] = more[i]
            BY <2>6, <4>1, <5>1
          <5> QED
            BY <2>5, <4>1, <4>3, <5>2 DEF Due
        <4> QED
          BY <2>5, <4>2, <4>3
      <3> QED
        BY <2>5, <3>2, <3>3 DEF PlanHeld
    <2> QED
      BY <2>7, <2>8
  <1>3. CASE Skip
    <2>1. /\ todo # <<>> /\ Unneeded(Head(todo)) /\ todo' = Tail(todo)
          /\ UNCHANGED <<phase, executed, productive, limitReached, planned>>
      BY <1>3 DEF Skip
    <2>2. todo' = Tail(todo) \o <<>>
      BY <1>1, <2>1
    <2>3. \A key : Due(key) => Due(key)'
      BY <1>1, <2>1, <2>2, HeadLeaves DEF Unneeded, Executed
    <2> QED
      BY <2>1, <2>3 DEF PlanHeld
  <1>4. CASE StopFollowUps
    <2>1. phase' = "follow_up" /\ limitReached' = TRUE
      BY <1>4 DEF StopFollowUps, DropFollowUps, AtLimit
    <2> QED
      BY <2>1 DEF PlanHeld
  <1>5. CASE FetchNext \/ Eliciting
    <2>1. UNCHANGED <<phase, todo, executed, productive, limitReached, planned>>
      BY <1>5 DEF FetchNext, Eliciting, runVars, run
    <2> QED
      BY <2>1 DEF PlanHeld, Due
  <1>6. CASE PlanFollowUps
    <2>1. PICK plan \in FollowUps(LeadsAssessed) :
            todo' = plan /\ planned' = KeysOf(plan)
      BY <1>6 DEF PlanFollowUps
    <2>2. phase' = "follow_up"
      BY <1>6 DEF PlanFollowUps
    <2> QED
      BY <2>1, <2>2 DEF PlanHeld, Due, KeysOf
  <1>7. CASE NextPhase
    <2> DEFINE asks == CASE phase = "follow_up" -> Variants
                         [] phase = "weak" -> Recall[vocabulary]
                         [] OTHER -> <<>>
               plan == {j \in DOMAIN asks :
                          phase = "follow_up" =>
                            <<asks[j].query, asks[j].channel>> \notin productive}
    <2>1. /\ todo' = asks
          /\ planned' = {Key(asks[i]) : i \in plan}
          /\ phase' = Later[phase] /\ productive' = productive
          /\ phase \in {"follow_up", "weak", "recall"}
      BY <1>7 DEF NextPhase, Later
    <2>2. phase' = "weak" => phase = "follow_up"
      BY <2>1 DEF Later
    <2> HIDE DEF asks
    <2> QED
      BY <2>1, <2>2 DEF PlanHeld, Due
  <1>8. CASE Begin
    <2>1. PICK v \in Available :
            todo' = Initial[v] /\ planned' = KeysOf(Initial[v])
      BY <1>8 DEF Begin
    <2>2. phase' = "initial"
      BY <1>8 DEF Begin
    <2> QED
      BY <2>1, <2>2 DEF PlanHeld, Due, KeysOf
  <1>9. CASE Abandon \/ VocabularyFails
    <2>1. /\ phase = "elicitation" /\ phase' = "failed"
          /\ UNCHANGED <<todo, executed, productive, planned>>
      BY <1>9 DEF Abandon, VocabularyFails
    <2> QED
      BY <2>1 DEF PlanHeld, Due
  <1>10. CASE Interrupt
    <2>1. planned' = {}
      BY <1>10 DEF Interrupt, Start
    <2> QED
      BY <2>1 DEF PlanHeld
  <1>11. CASE Reuse \/ FetchLast
    <2>1. \/ \E records \in Records : Assesses(records)
          \/ Start
          \/ UNCHANGED <<assessments, leads, executed, productive>>
      BY StepAssesses
    <2>2. ~Start /\ assessments' # assessments
      <3>1. PICK request, records : Assess(request, records)
        BY <1>11 DEF Reuse, FetchLast
      <3>2. /\ executed' # {}
            /\ assessments' = Append(assessments, [asked |-> Key(request),
                                       phase |-> phase, records |-> records])
        BY <3>1 DEF Assess
      <3>3. Len(assessments') = Len(assessments) + 1 /\ Len(assessments) \in Nat
        BY <1>1, <3>2 DEF TypeOK
      <3> QED
        BY <3>2, <3>3 DEF Start
    <2> QED
      BY <1>2, <2>1, <2>2
  <1> QED
    BY <1>3, <1>4, <1>5, <1>6, <1>7, <1>8, <1>9, <1>10, <1>11
    DEF Next, Step, Search

(* What a phase has to ask has been executed when the phase ends, unless   *)
(* the limit of the follow-ups is reported.                                *)
THEOREM EverythingPlannedIsQueried == Spec => []PlannedQueried
  <1>1. Init => PlanHeld
    BY DEF Init, PlanHeld
  <1>2. PlanHeld /\ UNCHANGED vars => PlanHeld'
    BY DEF vars, runVars, run, PlanHeld, Due
  <1>3. RunTypes /\ PlanHeld /\ [Next]_vars => PlanHeld'
    BY <1>2, PlanStep
  <1> QED
    BY <1>1, <1>3, TypeInvariance, PlanHeldQueried, PTL DEF Spec

-----------------------------------------------------------------------------
(* Until the exclusion variants a run is determined by the vocabulary and  *)
(* by what the memo answers: from the state s the run goes on, when it     *)
(* needs no provider, to the one state After(m, s).                        *)
Now == [phase |-> phase, todo |-> todo, executed |-> executed,
        included |-> included, log |-> assessments]

Starts(v) == [phase |-> "initial", todo |-> Initial[v], executed |-> {},
              included |-> 0, log |-> <<>>]

PlanOf(found) == CHOOSE plan : FollowUps(found) = {plan}

LeadsOf(log) == FlattenSeq([i \in DOMAIN log |-> LeadsIn(log[i].records)])

Stopped(s) == s.phase = "follow_up" /\ s.included >= MaxFollowUps

Goes(m, s) ==
  /\ s.phase \in {"initial", "follow_up"}
  /\ s.todo = <<>> => s.phase = "initial"
  /\ s.todo # <<>> => \/ Key(Head(s.todo)) \in s.executed
                      \/ Stopped(s)
                      \/ Key(Head(s.todo)) \in DOMAIN m

Planning(s) == [phase |-> "follow_up", todo |-> PlanOf(LeadsOf(s.log)),
                executed |-> s.executed, included |-> s.included,
                log |-> s.log]

Without(s, rest) == [phase |-> s.phase, todo |-> rest, executed |-> s.executed,
                     included |-> s.included, log |-> s.log]

AnsweredWith(s, records) ==
  [phase    |-> s.phase,
   todo     |-> Tail(s.todo) \o (IF s.phase = "follow_up"
                                 THEN PlanOf(LeadsIn(records)) ELSE <<>>),
   executed |-> s.executed \cup {Key(Head(s.todo))},
   included |-> IF s.phase = "follow_up" THEN s.included + 1 ELSE s.included,
   log      |-> Append(s.log, [asked |-> Key(Head(s.todo)),
                               phase |-> s.phase, records |-> records])]

After(m, s) ==
  IF s.todo = <<>> THEN Planning(s)
  ELSE IF Key(Head(s.todo)) \in s.executed THEN Without(s, Tail(s.todo))
  ELSE IF Stopped(s) THEN Without(s, <<>>)
  ELSE AnsweredWith(s, m[Key(Head(s.todo))])

(* The states that a run of a vocabulary comes to without a provider.      *)
IsTrace(T, n, m, v) ==
  /\ T[0] = Starts(v)
  /\ \A i \in 0 .. n : T[i].log \in Seq(Assessed)
  /\ \A i \in 0 .. n - 1 : Goes(m, T[i]) /\ T[i + 1] = After(m, T[i])

Reaches(m, v, s) == \E n \in Nat : \E T : IsTrace(T, n, m, v) /\ T[n] = s

Extends(more, m) ==
  \A key \in DOMAIN m : key \in DOMAIN more /\ more[key] = m[key]

LEMMA ReachesStart ==
  ASSUME NEW m, NEW v PROVE Reaches(m, v, Starts(v))
  <1> DEFINE T == [i \in {0} |-> Starts(v)]
  <1>1. T[0] = Starts(v) /\ T[0].log \in Seq(Assessed)
    <2>1. T[0] = Starts(v)
      OBVIOUS
    <2>2. Starts(v).log = <<>> /\ <<>> \in Seq(Assessed)
      BY DEF Starts
    <2> QED
      BY <2>1, <2>2
  <1>2. \A i \in 0 .. 0 : i = 0
    OBVIOUS
  <1>3. \A i \in 0 .. 0 - 1 : FALSE
    OBVIOUS
  <1> HIDE DEF T
  <1>4. IsTrace(T, 0, m, v)
    BY <1>1, <1>2, <1>3 DEF IsTrace
  <1>5. 0 \in Nat
    OBVIOUS
  <1> QED
    BY <1>1, <1>4, <1>5 DEF Reaches

LEMMA ReachesNext ==
  ASSUME NEW m, NEW v, NEW s, Reaches(m, v, s), Goes(m, s),
         After(m, s).log \in Seq(Assessed)
  PROVE  Reaches(m, v, After(m, s))
  <1>1a. PICK n \in Nat : \E T : IsTrace(T, n, m, v) /\ T[n] = s
    BY DEF Reaches
  <1>1. PICK T : IsTrace(T, n, m, v) /\ T[n] = s
    BY <1>1a
  <1> DEFINE more == [i \in 0 .. n + 1 |-> IF i = n + 1 THEN After(m, s)
                                           ELSE T[i]]
  <1>2. /\ n + 1 \in Nat /\ more[n + 1] = After(m, s)
        /\ \A i \in 0 .. n : more[i] = T[i]
    BY <1>1
  <1>3. /\ \A i \in 0 .. n + 1 : i \in 0 .. n \/ i = n + 1
        /\ \A i \in 0 .. (n + 1) - 1 : i \in 0 .. n
        /\ \A i \in 0 .. n : i = n \/ (i \in 0 .. n - 1 /\ i + 1 \in 0 .. n)
        /\ 0 \in 0 .. n
    BY <1>1
  <1> HIDE DEF more
  <1>4. \A i \in 0 .. n + 1 : more[i].log \in Seq(Assessed)
    BY <1>1, <1>2, <1>3 DEF IsTrace
  <1>5. ASSUME NEW i \in 0 .. (n + 1) - 1
        PROVE  Goes(m, more[i]) /\ more[i + 1] = After(m, more[i])
    <2>1. i \in 0 .. n
      BY <1>3
    <2>2. CASE i = n
      BY <1>1, <1>2, <2>1, <2>2
    <2>3. CASE i # n
      <3>1. i \in 0 .. n - 1 /\ i + 1 \in 0 .. n
        BY <1>3, <2>1, <2>3
      <3>2. Goes(m, T[i]) /\ T[i + 1] = After(m, T[i])
        BY <1>1, <3>1 DEF IsTrace
      <3> QED
        BY <1>2, <2>1, <3>1, <3>2
    <2> QED
      BY <2>2, <2>3
  <1>6. more[0] = Starts(v)
    BY <1>1, <1>2, <1>3 DEF IsTrace
  <1>7. IsTrace(more, n + 1, m, v)
    BY <1>4, <1>5, <1>6 DEF IsTrace
  <1> QED
    BY <1>2, <1>7 DEF Reaches

(* What the memo learns changes nothing of what it answered already.       *)
LEMMA SameWithMore ==
  ASSUME NEW m, NEW more, Extends(more, m), NEW s, Goes(m, s)
  PROVE  Goes(more, s) /\ After(more, s) = After(m, s)
  BY DEF Goes, After, Extends

LEMMA ReachesWithMore ==
  ASSUME NEW m, NEW more, Extends(more, m), NEW v, NEW s, Reaches(m, v, s)
  PROVE  Reaches(more, v, s)
  <1>1a. PICK n \in Nat : \E T : IsTrace(T, n, m, v) /\ T[n] = s
    BY DEF Reaches
  <1>1. PICK T : IsTrace(T, n, m, v) /\ T[n] = s
    BY <1>1a
  <1>2. \A i \in 0 .. n - 1 : Goes(more, T[i]) /\ T[i + 1] = After(more, T[i])
    BY <1>1, SameWithMore DEF IsTrace
  <1>3. IsTrace(T, n, more, v)
    BY <1>1, <1>2 DEF IsTrace
  <1> QED
    BY <1>1, <1>3 DEF Reaches

LEMMA PrefixOfItself ==
  ASSUME NEW S, NEW s \in Seq(S) PROVE IsPrefix(s, s)
  BY DEF IsPrefix

LEMMA PrefixOfNothing ==
  ASSUME NEW S, NEW s \in Seq(S) PROVE IsPrefix(<<>>, s)
  BY DEF IsPrefix

LEMMA PrefixOfAppended ==
  ASSUME NEW S, NEW r \in Seq(S), NEW s \in Seq(S), NEW e, IsPrefix(r, s)
  PROVE  IsPrefix(r, Append(s, e))
  BY DEF IsPrefix

(* A state of the run has everything assessed that an earlier one had.     *)
LEMMA AfterKeepsLog ==
  ASSUME NEW m, NEW s, NEW r \in Seq(Assessed), s.log \in Seq(Assessed),
         IsPrefix(r, s.log)
  PROVE  IsPrefix(r, After(m, s).log)
  <1>1. \/ After(m, s).log = s.log
        \/ \E e : After(m, s).log = Append(s.log, e)
    BY DEF After, Planning, Without, AnsweredWith
  <1> QED
    BY <1>1, PrefixOfAppended

LEMMA LogsGrow ==
  ASSUME NEW m, NEW v, NEW n \in Nat, NEW T, IsTrace(T, n, m, v),
         NEW i \in 0 .. n
  PROVE  IsPrefix(T[i].log, T[n].log)
  <1> DEFINE N == {k \in Nat : i + k <= n => IsPrefix(T[i].log, T[i + k].log)}
  <1>1. /\ \A j \in 0 .. n : T[j].log \in Seq(Assessed)
        /\ \A j \in 0 .. n - 1 : T[j + 1] = After(m, T[j])
    BY DEF IsTrace
  <1>2. 0 \in N
    BY <1>1, PrefixOfItself
  <1>3. ASSUME NEW k \in Nat, k \in N PROVE k + 1 \in N
    <2> SUFFICES ASSUME i + (k + 1) <= n
                 PROVE  IsPrefix(T[i].log, T[i + (k + 1)].log)
      OBVIOUS
    <2>1. /\ i + k <= n /\ i + k \in 0 .. n - 1 /\ i + k \in 0 .. n
          /\ i + (k + 1) = (i + k) + 1
      OBVIOUS
    <2>2. IsPrefix(T[i].log, T[i + k].log)
      BY <1>3, <2>1
    <2>3. T[(i + k) + 1] = After(m, T[i + k])
      BY <1>1, <2>1
    <2>4. T[i].log \in Seq(Assessed) /\ T[i + k].log \in Seq(Assessed)
      BY <1>1, <2>1
    <2>5. IsPrefix(T[i].log, After(m, T[i + k]).log)
      BY <2>2, <2>4, AfterKeepsLog
    <2> QED
      BY <2>1, <2>3, <2>5
  <1>4. Nat \subseteq N
    <2> HIDE DEF N
    <2> QED
      BY <1>2, <1>3, EveryNumber
  <1>5. n - i \in N /\ i + (n - i) = n
    BY <1>4
  <1> QED
    BY <1>5

LEMMA TracesAgree ==
  ASSUME NEW m, NEW v, NEW n \in Nat, NEW T, IsTrace(T, n, m, v),
         NEW k \in Nat, NEW U, IsTrace(U, k, m, v), n <= k
  PROVE  T[n] = U[n]
  <1> DEFINE N == {i \in Nat : i <= n => T[i] = U[i]}
  <1>1. 0 \in N
    BY DEF IsTrace
  <1>2. ASSUME NEW i \in Nat, i \in N PROVE i + 1 \in N
    <2> SUFFICES ASSUME i + 1 <= n PROVE T[i + 1] = U[i + 1]
      OBVIOUS
    <2>1. i \in 0 .. n - 1 /\ i \in 0 .. k - 1 /\ i <= n
      OBVIOUS
    <2>2. T[i] = U[i]
      BY <1>2, <2>1
    <2>3. T[i + 1] = After(m, T[i]) /\ U[i + 1] = After(m, U[i])
      BY <2>1 DEF IsTrace
    <2> QED
      BY <2>2, <2>3
  <1>3. Nat \subseteq N
    <2> HIDE DEF N
    <2> QED
      BY <1>1, <1>2, EveryNumber
  <1> QED
    BY <1>3

(* Of two runs of a vocabulary with the same memo, one has come further.   *)
LEMMA OneIsFurther ==
  ASSUME NEW m, NEW v, NEW s, NEW t, Reaches(m, v, s), Reaches(m, v, t)
  PROVE  IsPrefix(s.log, t.log) \/ IsPrefix(t.log, s.log)
  <1>1a. PICK n \in Nat : \E T : IsTrace(T, n, m, v) /\ T[n] = s
    BY DEF Reaches
  <1>1. PICK T : IsTrace(T, n, m, v) /\ T[n] = s
    BY <1>1a
  <1>2a. PICK k \in Nat : \E U : IsTrace(U, k, m, v) /\ U[k] = t
    BY DEF Reaches
  <1>2. PICK U : IsTrace(U, k, m, v) /\ U[k] = t
    BY <1>2a
  <1>3. CASE n <= k
    <2>1. T[n] = U[n] /\ n \in 0 .. k
      BY <1>1, <1>2, <1>3, TracesAgree
    <2>2. IsPrefix(U[n].log, U[k].log)
      BY <1>2, <2>1, LogsGrow
    <2> QED
      BY <1>1, <1>2, <2>1, <2>2
  <1>4. CASE k <= n
    <2>1. U[k] = T[k] /\ k \in 0 .. n
      BY <1>1, <1>2, <1>4, TracesAgree
    <2>2. IsPrefix(T[k].log, T[n].log)
      BY <1>1, <2>1, LogsGrow
    <2> QED
      BY <1>1, <1>2, <2>1, <2>2
  <1> QED
    BY <1>3, <1>4

(* What is asked in the phases that do not depend on the model is kept.    *)
LEMMA DeterministicAppend ==
  ASSUME NEW s \in Seq(Assessed), NEW e \in Assessed
  PROVE  Deterministic(Append(s, e)) =
           IF e.phase \in {"initial", "follow_up"}
           THEN Append(Deterministic(s), e) ELSE Deterministic(s)
  <1> DEFINE n == Len(s)
             t == Append(s, e)
             P == {i \in DOMAIN s : s[i].phase \in {"initial", "follow_up"}}
             Q == {i \in DOMAIN t : t[i].phase \in {"initial", "follow_up"}}
  <1>1. /\ n \in Nat /\ DOMAIN s = 1 .. n /\ DOMAIN t = 1 .. n + 1
        /\ t[n + 1] = e /\ \A i \in 1 .. n : t[i] = s[i]
        /\ n + 1 \in 1 .. n + 1 /\ \A i \in 1 .. n : i \in 1 .. n + 1
    OBVIOUS
  <1> HIDE DEF t, n
  <1>2. \A i \in DOMAIN s : i \in Q <=> i \in P
    BY <1>1
  <1>3. n + 1 \in Q <=> e.phase \in {"initial", "follow_up"}
    BY <1>1
  <1> HIDE DEF P, Q
  <1>4. AtPlaces(s, Q) = AtPlaces(s, P)
    BY <1>2, AtSamePlaces
  <1>5. AtPlaces(t, Q) = IF n + 1 \in Q THEN Append(AtPlaces(s, Q), e)
                         ELSE AtPlaces(s, Q)
    BY AtPlacesAppend DEF t, n
  <1> QED
    BY <1>3, <1>4, <1>5 DEF Deterministic, P, Q, t

LEMMA DeterministicNothing == Deterministic(<<>>) = <<>>
  BY AtNoPlaces DEF Deterministic

(* The run, and the one before it, did what the vocabulary and the memo    *)
(* determine.                                                              *)
Did(log) == \E s : Reaches(memo, kept, s) /\ s.log = log

Repeats ==
  /\ ~hasMemo => before = <<>>
  /\ phase \in {"elicitation", "failed"} =>
       assessments = <<>> /\ todo = <<>> /\ executed = {} /\ included = 0
  /\ phase \in {"initial", "follow_up"} =>
       /\ Deterministic(assessments) = assessments
       /\ hasMemo => kept = vocabulary /\ Reaches(memo, kept, Now)
  /\ hasMemo /\ phase \in {"weak", "recall", "done"} =>
       kept \in Vocabularies /\ Did(Deterministic(assessments))
  /\ before # <<>> => kept \in Vocabularies /\ Did(before)

LEMMA RepeatsRetraced ==
  ASSUME RunTypes, Repeats PROVE Retraced
  <1> DEFINE det == Deterministic(assessments)
  <1>1. /\ assessments \in Seq(Assessed) /\ before \in Seq(Assessed)
        /\ hasMemo \in BOOLEAN /\ phase \in Phases
    BY DEF RunTypes, TypeOK
  <1>2. det \in Seq(Assessed)
    BY <1>1, AtPlacesType DEF Deterministic
  <1>3. CASE before = <<>>
    BY <1>2, <1>3, PrefixOfNothing DEF Retraced
  <1>4. CASE before # <<>> /\ phase \in {"elicitation", "failed"}
    BY <1>1, <1>4, PrefixOfNothing, DeterministicNothing DEF Retraced, Repeats
  <1>5. CASE before # <<>> /\ phase \notin {"elicitation", "failed"}
    <2>1. Did(det)
      BY <1>1, <1>5 DEF Repeats, Phases, Did, Now
    <2>2. Did(before)
      BY <1>5 DEF Repeats
    <2>3. PICK s : Reaches(memo, kept, s) /\ s.log = det
      BY <2>1 DEF Did
    <2>4. PICK r : Reaches(memo, kept, r) /\ r.log = before
      BY <2>2 DEF Did
    <2>5. IsPrefix(s.log, r.log) \/ IsPrefix(r.log, s.log)
      BY <2>3, <2>4, OneIsFurther
    <2> QED
      BY <2>3, <2>4, <2>5 DEF Retraced
  <1> QED
    BY <1>3, <1>4, <1>5

LEMMA DidStill ==
  ASSUME NEW log, Did(log), Extends(memo', memo), kept' = kept
  PROVE  \E s : Reaches(memo', kept', s) /\ s.log = log
  BY ReachesWithMore DEF Did

(* The run goes on without a provider, by the memo as it is afterwards.    *)
LEMMA GoesOn ==
  ASSUME RunTypes', Reaches(memo, kept, Now), Extends(memo', memo),
         kept' = kept, Goes(memo', Now), Now' = After(memo', Now)
  PROVE  Reaches(memo, kept, Now)'
  <1>1. After(memo', Now).log \in Seq(Assessed)
    <2>1. (Now').log = assessments'
      BY DEF Now
    <2>2. assessments' \in Seq(Assessed)
      BY DEF RunTypes, TypeOK
    <2> QED
      BY <2>1, <2>2
  <1>2. Reaches(memo', kept, Now)
    BY ReachesWithMore
  <1>3. Reaches(memo', kept, After(memo', Now))
    BY <1>1, <1>2, ReachesNext
  <1> QED
    BY <1>3

LEMMA AssessGoes ==
  ASSUME RunTypes, phase \in {"initial", "follow_up"}, NEW channel,
         NEW request \in Wanted(channel), NEW records \in Records,
         Assess(request, records), NEW m, Key(request) \in DOMAIN m,
         m[Key(request)] = records
  PROVE  Goes(m, Now) /\ Now' = After(m, Now)
  <1> DEFINE found == LeadsIn(records)
  <1>1. /\ todo # <<>> /\ request = Head(todo)
        /\ Key(request) \notin executed /\ ~AtLimit
    BY WantedType DEF RunTypes, Unneeded, Executed
  <1>2. found \in Seq(Leads)
    BY LeadsInType DEF Records
  <1>3. PICK plan : FollowUps(found) = {plan}
    BY <1>2, FollowUpsType
  <1>4. PlanOf(found) = plan
    BY <1>3 DEF PlanOf
  <1> HIDE DEF found
  <1>5. PICK more \in IF phase = "follow_up" THEN FollowUps(found) ELSE {<<>>} :
          /\ executed' = executed \cup {Key(request)}
          /\ assessments' = Append(assessments, [asked |-> Key(request),
                                                 phase |-> phase,
                                                 records |-> records])
          /\ included' = IF phase = "follow_up" THEN included + 1 ELSE included
          /\ todo' = Tail(todo) \o more
          /\ phase' = phase
    BY DEF Assess, found
  <1>6. more = IF phase = "follow_up" THEN PlanOf(found) ELSE <<>>
    BY <1>3, <1>4, <1>5
  <1>7. /\ Now.phase = phase /\ Now.todo = todo /\ Now.executed = executed
        /\ Now.included = included /\ Now.log = assessments
    BY DEF Now
  <1>8. ~Stopped(Now)
    BY <1>1, <1>7 DEF Stopped, AtLimit
  <1>9. After(m, Now) = AnsweredWith(Now, records)
    BY <1>1, <1>7, <1>8 DEF After
  <1>10. Now' = AnsweredWith(Now, records)
    BY <1>1, <1>5, <1>6, <1>7 DEF AnsweredWith, Now, found
  <1>11. Goes(m, Now)
    BY <1>1, <1>7 DEF Goes
  <1> QED
    BY <1>9, <1>10, <1>11

LEMMA AssessRepeats ==
  ASSUME RunTypes, RunTypes', Repeats, NEW channel,
         NEW request \in Wanted(channel), NEW records \in Records,
         Assess(request, records), Extends(memo', memo),
         hasMemo => /\ Key(request) \in DOMAIN memo'
                    /\ memo'[Key(request)] = records
  PROVE  Repeats'
  <1> DEFINE new == [asked |-> Key(request), phase |-> phase,
                     records |-> records]
  <1>1. /\ UNCHANGED <<phase, vocabulary, kept, hasMemo, before>>
        /\ assessments' = Append(assessments, new)
        /\ executed' = executed \cup {Key(request)}
    BY DEF Assess
  <1>2. assessments \in Seq(Assessed) /\ phase \in Phases
        /\ assessments' \in Seq(Assessed) /\ todo # <<>>
    BY WantedType DEF RunTypes, TypeOK
  <1>3. new \in Assessed
    <2>1. Len(assessments) + 1 \in DOMAIN assessments'
          /\ assessments'[Len(assessments) + 1] = new
      BY <1>1, <1>2
    <2> QED
      BY <1>2, <2>1
  <1>4. Deterministic(assessments') =
          IF phase \in {"initial", "follow_up"}
          THEN Append(Deterministic(assessments), new)
          ELSE Deterministic(assessments)
    BY <1>1, <1>2, <1>3, DeterministicAppend
  <1>5. phase \notin {"elicitation", "failed"}
    BY <1>2 DEF Repeats
  <1>6. before' # <<>> => kept' \in Vocabularies /\ Did(before)'
    BY <1>1, DidStill DEF Repeats, Did
  <1>7. CASE phase \in {"initial", "follow_up"}
    <2>1. Deterministic(assessments') = assessments'
      BY <1>1, <1>4, <1>7 DEF Repeats
    <2>2. ASSUME hasMemo PROVE kept' = vocabulary' /\ Reaches(memo, kept, Now)'
      <3>1. Goes(memo', Now) /\ Now' = After(memo', Now)
        BY <1>7, <2>2, AssessGoes
      <3>2. kept = vocabulary /\ Reaches(memo, kept, Now)
        BY <1>7, <2>2 DEF Repeats
      <3> QED
        BY <1>1, <3>1, <3>2, GoesOn
    <2> QED
      BY <1>1, <1>6, <1>7, <2>1, <2>2 DEF Repeats
  <1>8. CASE phase \notin {"initial", "follow_up"}
    <2>1. ASSUME hasMemo, phase \in {"weak", "recall", "done"}
          PROVE  kept' \in Vocabularies /\ Did(Deterministic(assessments))'
      <3>1. kept \in Vocabularies /\ Did(Deterministic(assessments))
        BY <2>1 DEF Repeats
      <3>2. Deterministic(assessments') = Deterministic(assessments)
        BY <1>4, <1>8
      <3>3. \E s : /\ Reaches(memo', kept', s)
                   /\ s.log = Deterministic(assessments)
        BY <1>1, <3>1, DidStill
      <3> QED
        BY <1>1, <3>1, <3>2, <3>3 DEF Did
    <2> QED
      BY <1>1, <1>5, <1>6, <1>8, <2>1 DEF Repeats
  <1> QED
    BY <1>7, <1>8

LEMMA SameRun ==
  ASSUME Repeats, UNCHANGED <<phase, todo, executed, included, assessments,
                              vocabulary, memo, kept, hasMemo, before>>
  PROVE  Repeats'
  BY DEF Repeats, Now, Did, Deterministic

(* Steps of the search that assess nothing.                                *)
LEMMA SilentRepeats ==
  ASSUME RunTypes, RunTypes', Repeats, todo # <<>>,
         UNCHANGED <<phase, executed, included, assessments, vocabulary, memo,
                     kept, hasMemo, before>>,
         phase \in {"initial", "follow_up"} =>
           Goes(memo, Now) /\ Now' = After(memo, Now)
  PROVE  Repeats'
  <1>1. phase \in Phases /\ Extends(memo', memo)
    BY DEF RunTypes, TypeOK, Extends
  <1>2. phase \notin {"elicitation", "failed"}
    BY DEF Repeats
  <1>3. Did(Deterministic(assessments)) => Did(Deterministic(assessments))'
    BY DEF Did, Deterministic
  <1>4. Did(before) => Did(before)'
    BY DEF Did
  <1>5. CASE phase \in {"initial", "follow_up"}
    <2>1. ASSUME hasMemo PROVE Reaches(memo, kept, Now)'
      <3>1. Reaches(memo, kept, Now) /\ Goes(memo', Now)
            /\ Now' = After(memo', Now)
        BY <1>5, <2>1 DEF Repeats
      <3> QED
        BY <1>1, <3>1, GoesOn
    <2> QED
      BY <1>4, <1>5, <2>1 DEF Repeats, Deterministic
  <1>6. CASE phase \notin {"initial", "follow_up"}
    BY <1>2, <1>3, <1>4, <1>6 DEF Repeats
  <1> QED
    BY <1>5, <1>6

LEMMA SearchRepeats ==
  ASSUME RunTypes, RunTypes', Repeats, Search PROVE Repeats'
  <1>1. /\ todo \in Seq(Request) /\ phase \in Phases /\ hasMemo \in BOOLEAN
        /\ assessments \in Seq(Assessed) /\ TypeOK /\ Chosen
        /\ \A k \in DOMAIN memo : memo[k] \in Records
    BY DEF RunTypes, TypeOK
  <1>2. /\ Now.phase = phase /\ Now.todo = todo /\ Now.executed = executed
        /\ Now.included = included /\ Now.log = assessments
    BY DEF Now
  <1>3. CASE Skip
    <2>1. /\ todo # <<>> /\ Unneeded(Head(todo)) /\ todo' = Tail(todo)
          /\ UNCHANGED <<phase, executed, included, assessments, vocabulary,
                         memo, kept, hasMemo, before>>
      BY <1>3 DEF Skip
    <2>2. phase \in {"initial", "follow_up"} =>
            Goes(memo, Now) /\ Now' = After(memo, Now)
      <3> SUFFICES ASSUME phase \in {"initial", "follow_up"}
                   PROVE  Goes(memo, Now) /\ Now' = After(memo, Now)
        OBVIOUS
      <3>1. Key(Head(todo)) \in executed
        BY <2>1 DEF Unneeded, Executed
      <3>2. Goes(memo, Now)
        BY <1>2, <2>1, <3>1 DEF Goes
      <3>3. After(memo, Now) = Without(Now, Tail(todo))
        BY <1>2, <2>1, <3>1 DEF After
      <3>4. Now' = Without(Now, Tail(todo))
        BY <2>1 DEF Now, Without
      <3> QED
        BY <3>2, <3>3, <3>4
    <2> QED
      BY <2>1, <2>2, SilentRepeats
  <1>4. CASE StopFollowUps
    <2>1. /\ todo # <<>> /\ ~Unneeded(Head(todo)) /\ AtLimit /\ todo' = <<>>
          /\ UNCHANGED <<phase, executed, included, assessments, vocabulary,
                         memo, kept, hasMemo, before>>
      BY <1>4 DEF StopFollowUps, DropFollowUps
    <2>2. Key(Head(todo)) \notin executed /\ Stopped(Now)
      BY <1>2, <2>1 DEF Unneeded, Executed, AtLimit, Stopped
    <2>3. Goes(memo, Now)
      BY <1>2, <2>1, <2>2 DEF Goes, AtLimit
    <2>4. After(memo, Now) = Without(Now, <<>>)
      BY <1>2, <2>1, <2>2 DEF After
    <2>5. Now' = Without(Now, <<>>)
      BY <2>1 DEF Now, Without
    <2> QED
      BY <2>1, <2>3, <2>4, <2>5, SilentRepeats
  <1>5. CASE Reuse
    <2>1. PICK channel \in Channels : \E request \in Wanted(channel) :
            /\ Cached(request)
            /\ Assess(request, memo[MemoKey(request)])
            /\ memo' = memo
      BY <1>5 DEF Reuse
    <2>2. PICK request \in Wanted(channel) :
            /\ Cached(request)
            /\ Assess(request, memo[MemoKey(request)])
            /\ memo' = memo
      BY <2>1
    <2>3. MemoKey(request) = Key(request)
      BY DEF MemoKey, Key
    <2> DEFINE records == memo[Key(request)]
    <2>4. Key(request) \in DOMAIN memo /\ records \in Records
      BY <1>1, <2>2, <2>3 DEF Cached
    <2>5. /\ Extends(memo', memo) /\ Key(request) \in DOMAIN memo'
          /\ memo'[Key(request)] = records
      BY <2>2, <2>4 DEF Extends
    <2>6. Assess(request, records)
      BY <2>2, <2>3
    <2> HIDE DEF records
    <2> QED
      BY <2>4, <2>5, <2>6, AssessRepeats
  <1>6. CASE FetchNext
    BY <1>6, SameRun DEF FetchNext
  <1>7. CASE FetchLast
    <2>1. PICK channel \in Channels :
            \E request \in Wanted(channel), page \in PageResponses[channel] :
              /\ ~Cached(request)
              /\ \E records \in Ended(request, Append(pages, page)) :
                   /\ Assess(request, records)
                   /\ memo' = IF hasMemo
                              THEN Remembering(MemoKey(request), records)
                              ELSE memo
      BY <1>7 DEF FetchLast
    <2>2. PICK request \in Wanted(channel), page \in PageResponses[channel] :
            /\ ~Cached(request)
            /\ \E records \in Ended(request, Append(pages, page)) :
                 /\ Assess(request, records)
                 /\ memo' = IF hasMemo
                            THEN Remembering(MemoKey(request), records)
                            ELSE memo
      BY <2>1
    <2>3. PICK records \in Ended(request, Append(pages, page)) :
            /\ Assess(request, records)
            /\ memo' = IF hasMemo THEN Remembering(MemoKey(request), records)
                       ELSE memo
      BY <2>2
    <2>4. page \in Response /\ request \in Request
      BY <1>1, <2>2, RunConstants, WantedType
    <2>5. records \in Records
      BY <1>1, <2>3, <2>4, EndedType
    <2>6. MemoKey(request) = Key(request)
      BY DEF MemoKey, Key
    <2>7. ASSUME hasMemo
          PROVE  /\ Extends(memo', memo) /\ Key(request) \in DOMAIN memo'
                 /\ memo'[Key(request)] = records
      <3>1. memo' = Remembering(Key(request), records)
        BY <2>3, <2>6, <2>7
      <3>2. Key(request) \notin DOMAIN memo
        BY <2>2, <2>6, <2>7 DEF Cached
      <3> QED
        BY <3>1, <3>2 DEF Remembering, Extends
    <2>8. Extends(memo', memo)
      BY <1>1, <2>3, <2>7 DEF Extends
    <2> QED
      BY <2>3, <2>5, <2>7, <2>8, AssessRepeats
  <1>8. CASE PlanFollowUps
    <2>1. PICK plan \in FollowUps(LeadsAssessed) : todo' = plan
      BY <1>8 DEF PlanFollowUps
    <2>2. /\ phase = "initial" /\ phase' = "follow_up" /\ todo = <<>>
          /\ UNCHANGED <<executed, included, assessments, vocabulary, memo,
                         kept, hasMemo, before>>
      BY <1>8 DEF PlanFollowUps
    <2>3. LeadsOf(Now.log) = LeadsAssessed
      BY <1>2 DEF LeadsOf, LeadsAssessed
    <2>4. PlanOf(LeadsAssessed) = plan
      <3>1. PICK p : FollowUps(LeadsAssessed) = {p}
        BY <1>1, LeadsAssessedType, FollowUpsType
      <3> QED
        BY <2>1, <3>1 DEF PlanOf
    <2>5. Goes(memo, Now)
      BY <1>2, <2>2 DEF Goes
    <2>6. After(memo, Now) = Planning(Now)
      BY <1>2, <2>2 DEF After
    <2>7. Now' = Planning(Now)
      <3>1. todo' = PlanOf(LeadsOf(Now.log))
        BY <2>1, <2>3, <2>4
      <3> QED
        BY <1>2, <2>2, <3>1 DEF Planning, Now
    <2>8. ASSUME hasMemo PROVE Reaches(memo, kept, Now)'
      <3>1. /\ Reaches(memo, kept, Now) /\ Goes(memo', Now)
            /\ Now' = After(memo', Now) /\ Extends(memo', memo) /\ kept' = kept
        BY <2>2, <2>5, <2>6, <2>7, <2>8 DEF Repeats, Extends
      <3> QED
        BY <3>1, GoesOn
    <2> QED
      BY <2>2, <2>8 DEF Repeats, Did, Deterministic
  <1>9. CASE NextPhase
    <2>1. /\ phase \in {"follow_up", "weak", "recall"}
          /\ phase' \in {"weak", "recall", "done"}
          /\ UNCHANGED <<assessments, vocabulary, memo, kept, hasMemo, before>>
      BY <1>9 DEF NextPhase, Later
    <2>2. ASSUME hasMemo
          PROVE  kept \in Vocabularies /\ Did(Deterministic(assessments))
      <3>1. CASE phase = "follow_up"
        BY <1>1, <1>2, <2>2, <3>1 DEF Repeats, Did, Chosen
      <3>2. CASE phase # "follow_up"
        BY <2>1, <2>2, <3>2 DEF Repeats
      <3> QED
        BY <3>1, <3>2
    <2> QED
      BY <2>1, <2>2 DEF Repeats, Did, Deterministic
  <1> QED
    BY <1>3, <1>4, <1>5, <1>6, <1>7, <1>8, <1>9 DEF Search

LEMMA RepeatsStep ==
  ASSUME RunTypes, RunTypes', Repeats, Next PROVE Repeats'
  <1>1. /\ phase \in Phases /\ hasMemo \in BOOLEAN /\ Chosen
        /\ {vocabulary, kept} \subseteq Vocabularies \cup {NoVocabulary}
    BY DEF RunTypes, TypeOK
  <1>2. CASE Eliciting
    BY <1>2, SameRun DEF Eliciting, runVars, run
  <1>3. CASE Begin
    <2>1. PICK v \in Available :
            vocabulary' = v /\ kept' = KeptAfter(v) /\ todo' = Initial[v]
      BY <1>3 DEF Begin
    <2>2. /\ phase = "elicitation" /\ phase' = "initial"
          /\ UNCHANGED <<executed, assessments, included, memo, hasMemo,
                         before>>
      BY <1>3 DEF Begin
    <2>3. executed = {} /\ included = 0 /\ assessments = <<>>
      BY <2>2 DEF Repeats
    <2>4. Now' = Starts(v)
      BY <2>1, <2>2, <2>3 DEF Now, Starts
    <2>5. hasMemo => kept' = vocabulary' /\ Reaches(memo, kept, Now)'
      BY <2>1, <2>2, <2>4, ReachesStart DEF KeptAfter
    <2>6. before # <<>> => kept' = kept
      <3>1. before # <<>> => hasMemo /\ kept # NoVocabulary
        BY <1>1, RunConstants DEF Repeats
      <3> QED
        BY <2>1, <3>1 DEF Available, KeptAfter
    <2>7. before' # <<>> => kept' \in Vocabularies /\ Did(before)'
      BY <2>2, <2>6 DEF Repeats, Did
    <2>8. Deterministic(assessments') = assessments'
      BY <2>2, <2>3, DeterministicNothing
    <2> QED
      BY <2>2, <2>5, <2>7, <2>8 DEF Repeats
  <1>4. CASE Abandon \/ VocabularyFails
    <2>1. /\ phase = "elicitation" /\ phase' = "failed"
          /\ UNCHANGED <<todo, executed, included, assessments, memo, kept,
                         hasMemo, before>>
      BY <1>4 DEF Abandon, VocabularyFails
    <2> QED
      BY <2>1 DEF Repeats, Did
  <1>5. CASE Search /\ UNCHANGED elicitVars
    BY <1>5, SearchRepeats
  <1>6. CASE Interrupt
    <2>1. /\ phase # "done" /\ hasMemo /\ before' = Deterministic(assessments)
          /\ phase' = "elicitation" /\ assessments' = <<>> /\ executed' = {}
          /\ included' = 0 /\ todo' = <<>> /\ UNCHANGED <<memo, kept, hasMemo>>
      BY <1>6 DEF Interrupt, Start
    <2>2. ASSUME before' # <<>>
          PROVE  kept \in Vocabularies /\ Did(Deterministic(assessments))
      <3>1. phase \notin {"elicitation", "failed"}
        BY <2>1, <2>2, DeterministicNothing DEF Repeats
      <3>2. CASE phase \in {"initial", "follow_up"}
        BY <1>1, <2>1, <3>2 DEF Repeats, Did, Chosen, Now
      <3>3. CASE phase \in {"weak", "recall"}
        BY <2>1, <3>3 DEF Repeats
      <3> QED
        BY <1>1, <2>1, <3>1, <3>2, <3>3 DEF Phases
    <2>3. before' # <<>> => kept' \in Vocabularies /\ Did(before)'
      BY <2>1, <2>2 DEF Did
    <2> QED
      BY <2>1, <2>3 DEF Repeats
  <1> QED
    BY <1>2, <1>3, <1>4, <1>5, <1>6 DEF Next, Step

(* A repeated run does what the interrupted one did, in the same order and *)
(* with the same answers, as far as both came before the exclusion         *)
(* variants: what it does there is determined by the vocabulary and the    *)
(* executions that the memo confirmed, whatever the model names meanwhile. *)
THEOREM RepeatedRunsRetrace == Spec => []Retraced
  <1>1. Init => Repeats
    BY DEF Init, Repeats
  <1>2. Repeats /\ UNCHANGED vars => Repeats'
    BY SameRun DEF vars, runVars, run
  <1>3. RunTypes /\ RunTypes' /\ Repeats /\ [Next]_vars => Repeats'
    BY <1>2, RepeatsStep
  <1>4. RunTypes /\ Repeats => Retraced
    BY RepeatsRetraced
  <1> QED
    BY <1>1, <1>3, <1>4, TypeInvariance, PTL DEF Spec

-----------------------------------------------------------------------------
(* The steps that are left: interruptions, phases, follow-ups, requests,   *)
(* pages, and what is left of the elicitation.                             *)
PhaseRank == [elicitation |-> 5, initial |-> 4, follow_up |-> 3, weak |-> 2,
              recall |-> 1, done |-> 0, failed |-> 0]

Effort == <<MaxInterrupts - interrupts, PhaseRank[phase],
            MaxFollowUps - included, Len(todo), MaxPages - Len(pages),
            Rounds[1], Rounds[2], Rounds[3]>>

EffortLeft ==
  /\ RoundsLeft
  /\ interrupts \in Int /\ MaxInterrupts - interrupts \in Nat
  /\ PhaseRank[phase] \in Nat
  /\ included \in Int /\ MaxFollowUps - included \in Nat
  /\ Len(todo) \in Nat /\ Len(pages) \in Nat /\ MaxPages - Len(pages) \in Nat

LEMMA EffortIsNumbers == RunTypes /\ ElicitInv => EffortLeft
  <1> SUFFICES ASSUME RunTypes, ElicitInv PROVE EffortLeft
    OBVIOUS
  <1>1. /\ MaxInterrupts \in Nat /\ interrupts \in 0 .. MaxInterrupts
        /\ MaxFollowUps \in Nat /\ included \in 0 .. MaxFollowUps
        /\ MaxPages \in Nat /\ pages \in Seq(Response) /\ Len(pages) < MaxPages
        /\ todo \in Seq(Request) /\ phase \in Phases
    BY RunConstants, PaginationAssumption DEF RunTypes, TypeOK
  <1>2. PhaseRank[phase] \in Nat
    BY <1>1 DEF Phases, PhaseRank
  <1> QED
    BY <1>1, <1>2, RoundsAreNumbers DEF EffortLeft

(* A request that is assessed is a follow-up or leaves the queue shorter.  *)
LEMMA AssessGetsOn ==
  ASSUME RunTypes, NEW channel, NEW request \in Wanted(channel),
         NEW records, Assess(request, records)
  PROVE  /\ interrupts' = interrupts /\ phase' = phase
         /\ \/ included' = included + 1
            \/ included' = included /\ Len(todo') < Len(todo)
  <1>1. todo \in Seq(Request) /\ todo # <<>>
    BY WantedType DEF RunTypes, TypeOK
  <1>2. PICK more \in IF phase = "follow_up" THEN FollowUps(LeadsIn(records))
                      ELSE {<<>>} :
          /\ included' = IF phase = "follow_up" THEN included + 1 ELSE included
          /\ todo' = Tail(todo) \o more
    BY DEF Assess
  <1>3. Len(Tail(todo) \o <<>>) < Len(todo)
    BY <1>1
  <1>4. interrupts' = interrupts /\ phase' = phase
    BY DEF Assess
  <1> QED
    BY <1>2, <1>3, <1>4

LEMMA SearchGetsOn ==
  ASSUME RunTypes, Search
  PROVE  /\ interrupts' = interrupts
         /\ \/ PhaseRank[phase'] < PhaseRank[phase]
            \/ /\ phase' = phase
               /\ \/ included' = included + 1
                  \/ included' = included /\ Len(todo') < Len(todo)
                  \/ /\ included' = included /\ todo' = todo
                     /\ Len(pages') = Len(pages) + 1
  <1>1. todo \in Seq(Request) /\ pages \in Seq(Response)
    BY DEF RunTypes, TypeOK
  <1>2. CASE Skip
    BY <1>1, <1>2 DEF Skip
  <1>3. CASE StopFollowUps
    <2>1. /\ todo # <<>> /\ todo' = <<>>
          /\ UNCHANGED <<phase, included, interrupts>>
      BY <1>3 DEF StopFollowUps, DropFollowUps
    <2> QED
      BY <1>1, <2>1
  <1>4. CASE Reuse
    <2>1. PICK channel \in Channels : \E request \in Wanted(channel) :
            Assess(request, memo[MemoKey(request)])
      BY <1>4 DEF Reuse
    <2> QED
      BY <2>1, AssessGetsOn
  <1>5. CASE PlanFollowUps
    BY <1>5 DEF PlanFollowUps, PhaseRank
  <1>6. CASE NextPhase
    BY <1>6 DEF NextPhase, Later, PhaseRank
  <1>7. CASE FetchNext
    <2>1. /\ \E page : pages' = Append(pages, page)
          /\ UNCHANGED <<phase, todo, included, interrupts>>
      BY <1>7 DEF FetchNext
    <2> QED
      BY <1>1, <2>1
  <1>8. CASE FetchLast
    <2>1. PICK channel \in Channels :
            \E request \in Wanted(channel) : \E records : Assess(request, records)
      BY <1>8 DEF FetchLast
    <2> QED
      BY <2>1, AssessGetsOn
  <1> QED
    BY <1>2, <1>3, <1>4, <1>5, <1>6, <1>7, <1>8 DEF Search

(* Whatever the model, the providers and the vocabulary phase answer, and  *)
(* however often it is interrupted, every step of a run brings it nearer   *)
(* to its end; so it has only finitely many.                               *)
THEOREM RunGetsOn ==
  Spec => /\ [](Effort \in [1 .. 8 -> Nat])
          /\ [][Before(Effort', Effort)]_vars
  <1>1. EffortLeft => Effort \in [1 .. 8 -> Nat]
    BY DEF EffortLeft, Effort, RoundsLeft, Rounds
  <1>2. ASSUME RunTypes, ElicitInv, EffortLeft, EffortLeft', Next
        PROVE  Before(Effort', Effort)
    <2> DEFINE a == MaxInterrupts - interrupts
               b == PhaseRank[phase]
               c == MaxFollowUps - included
               d == Len(todo)
               e == MaxPages - Len(pages)
               f == MaxIterations - iteration
               g == StageRank[stage]
               h == Len(entries)
    <2>1. /\ a \in Nat /\ b \in Nat /\ c \in Nat /\ d \in Nat
          /\ e \in Nat /\ f \in Nat /\ g \in Nat /\ h \in Nat
          /\ a' \in Nat /\ b' \in Nat /\ c' \in Nat /\ d' \in Nat
          /\ e' \in Nat /\ f' \in Nat /\ g' \in Nat /\ h' \in Nat
      BY <1>2 DEF EffortLeft, RoundsLeft
    <2>2. /\ interrupts \in Int /\ included \in Int /\ iteration \in Int
          /\ Len(pages) \in Int
          /\ MaxInterrupts \in Int /\ MaxFollowUps \in Int
          /\ MaxPages \in Int /\ MaxIterations \in Int
      BY <1>2, RunConstants, PaginationAssumption, Constants
         DEF EffortLeft, RoundsLeft
    <2>3. \/ a' < a
          \/ a' = a /\ b' < b
          \/ a' = a /\ b' = b /\ c' < c
          \/ a' = a /\ b' = b /\ c' = c /\ d' < d
          \/ a' = a /\ b' = b /\ c' = c /\ d' = d /\ e' < e
          \/ a' = a /\ b' = b /\ c' = c /\ d' = d /\ e' = e /\ f' < f
          \/ /\ a' = a /\ b' = b /\ c' = c /\ d' = d /\ e' = e
             /\ f' = f /\ g' < g
          \/ /\ a' = a /\ b' = b /\ c' = c /\ d' = d /\ e' = e
             /\ f' = f /\ g' = g /\ h' < h
      <3>1. CASE Interrupt
        <4>1. interrupts' = interrupts + 1
          BY <3>1 DEF Interrupt
        <4> QED
          BY <2>2, <4>1
      <3>2. CASE Begin \/ Abandon \/ VocabularyFails
        BY <3>2 DEF Begin, Abandon, VocabularyFails, PhaseRank
      <3>3. CASE Eliciting
        <4>1. UNCHANGED <<interrupts, phase, included, todo, pages>> /\ Elicit
          BY <3>3 DEF Eliciting, runVars, run
        <4>2. \/ f' < f
              \/ f' = f /\ g' < g
              \/ f' = f /\ g' = g /\ h' < h
          BY <1>2, <2>2, <4>1, RoundsStep
        <4> QED
          BY <4>1, <4>2
      <3>4. CASE Search
        BY <1>2, <2>2, <3>4, SearchGetsOn
      <3> QED
        BY <1>2, <3>1, <3>2, <3>3, <3>4 DEF Next, Step
    <2>4. /\ Effort = <<a, b, c, d, e, f, g, h>>
          /\ Effort' = <<a', b', c', d', e', f', g', h'>>
      BY DEF Effort, Rounds
    <2> HIDE DEF a, b, c, d, e, f, g, h
    <2> QED
      BY <2>1, <2>3, <2>4 DEF Before
  <1>3. RunTypes /\ ElicitInv /\ EffortLeft /\ EffortLeft' /\ [Next]_vars =>
          [Before(Effort', Effort)]_vars
    BY <1>2
  <1>4. RunInv => ElicitInv
    BY DEF RunInv
  <1> QED
    BY <1>1, <1>3, <1>4, EffortIsNumbers, TypeInvariance, RunInvariance, PTL
       DEF Spec
=============================================================================
