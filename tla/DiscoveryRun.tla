---------------------------- MODULE DiscoveryRun ----------------------------
(***************************************************************************)
(* run_discovery of research/discovery_orchestration.py: the elicitation   *)
(* of names; the vocabulary phase; the initial queries made of it; the     *)
(* follow-ups of untrusted metadata leads; for the query-channel pairs     *)
(* without a lead the variants that exclude names already seen; the        *)
(* controlled recall.  A run can be interrupted (a DiscoveryMemo may       *)
(* raise, the process may die) and is then repeated from its start with    *)
(* the outcomes the memo confirmed: the vocabulary and the searches.  What *)
(* was elicited is not in the memo: a repeated run asks the model again,   *)
(* and may be told something else.  What the vocabulary phase does to its  *)
(* document is module Vocabulary; other runs may update it meanwhile.      *)
(*                                                                         *)
(* A text is what was rendered, case-folded, and the names excluded from   *)
(* it; a follow-up's is its term.  Names are short enough for a group.     *)
(* The required families of tool queries are left out.  The bounds         *)
(* MaxPages, MaxResults, MaxLeads, MaxTerms, MaxFollowUps, GroupSize and   *)
(* MaxGroups are the code's; MaxInterrupts is a bound of the model.        *)
(***************************************************************************)
EXTENDS Pagination, Elicitation

CONSTANTS Channels,
          Paginated,      \* the channels that supports_pagination
          Queries,
          Bases,          \* rendered texts without exclusions
          Terms,          \* terms of metadata leads, as bases
          RawLeads,       \* raw leads in the metadata of a lead
          Trusted,        \* names of the records of the inventory
          Title,          \* of a lead, as a name
          Vocabularies,   \* what the vocabulary phase may result in
          NoVocabulary,
          Initial,        \* by vocabulary: the requests of its queries
          Formulations,   \* by vocabulary: for weak coverage
          Recall,         \* by vocabulary: controlled recall requests
          PageResponses,  \* what the provider of a channel may answer
          MaxLeads,       \* _MAX_METADATA_LEADS
          MaxTerms,       \* max_terms of normalize_metadata_lead_terms
          MaxFollowUps,   \* _MAX_FOLLOW_UP_QUERIES
          GroupSize,      \* exclusion_group_size
          MaxGroups,      \* max_exclusion_groups
          MaxInterrupts   \* bound: interruptions of a run

Text    == [base : Bases, without : Seq(Names)]
Request == [query : Queries, channel : Channels, text : Text]
RawLead == [term : Terms, targets : Seq(Channels)]

(* plain: this formulation is also asked without exclusions.               *)
Formulation == [query : Queries, channel : Channels, base : Bases,
                plain : BOOLEAN]

ASSUME RunAssumption ==
  /\ Paginated \subseteq Channels /\ Terms \subseteq Bases
  /\ "follow_up" \in Queries
  /\ PageResponses \in [Channels -> SUBSET Response]
  /\ \A c \in Channels : \A page \in PageResponses[c] :
       page.fault # "none" => page.items = <<>>
  /\ RawLeads \in [Leads -> Seq(RawLead)]
  /\ Trusted \in Seq(Names) /\ ToSet(Trusted) \subseteq Known
  /\ Title \in [Leads -> Names]
  /\ NoVocabulary \notin Vocabularies
  /\ {Initial, Recall} \subseteq [Vocabularies -> Seq(Request)]
  /\ Formulations \in [Vocabularies -> Seq(Formulation)]
  /\ {MaxLeads, MaxTerms, GroupSize, MaxGroups} \subseteq Nat \ {0}
  /\ {MaxFollowUps, MaxInterrupts} \subseteq Nat

VARIABLES phase,
          todo,          \* requests of the phase that are still to do
          pages,         \* pages of the request being executed
          executed,      \* executed_requests
          assessments,   \* what was executed, in order
          leads,         \* leads, in the order they were retained
          productive,    \* productive_requests
          included,      \* how many follow-ups were executed
          limitReached,  \* follow_up_limit_reached
          elicited,      \* names of the model's leads
          vocabulary,    \* what the vocabulary phase resulted in
          memo,          \* DiscoveryMemo: confirmed executions by key
          kept,          \* and its confirmed vocabulary
          hasMemo,
          interrupts,
          planned,       \* what the phase has to ask (observed)
          before         \* assessments of the interrupted run, without those
                         \* of the weak phase and the recall (observed)

run == <<phase, todo, pages, executed, assessments, leads, productive,
         included, limitReached, elicited, vocabulary, planned>>
runVars == <<run, memo, kept, hasMemo, interrupts, before>>
vars == <<runVars, elicitVars>>

-----------------------------------------------------------------------------
Key(request) == <<request.channel, request.text>>
Keys == Channels \X Text

(* _execute_query: the memo's key of a request.                            *)
MemoKey(request) == <<request.channel, request.text>>

(* SearchAssessmentRecords of one request: its pages share a stop reason.  *)
Records == [channel : Channels, text : Text, pages : Seq(Response),
            reason : Reasons]

RecordsOf(request, got, reason) ==
  [channel |-> request.channel, text |-> request.text,
   pages |-> got, reason |-> reason]

(* _fetch_and_assess: why the execution ends with this page, if it does.   *)
EndsWith(request, got) ==
  IF request.channel \in Paginated THEN StopReason(got)
  ELSE "unsupported_pagination"

LeadsIn(records) ==
  LET items == Items(records.pages)
  IN AtPlaces(items, {i \in DOMAIN items : items[i] \in Leads})

AtMost(n, s) == IF Len(s) <= n THEN s ELSE SubSeq(s, 1, n)

(* Mutant: only the first lead of an execution is retained.                *)
RetainedOfFirst(known, found) == Distinct(known \o AtMost(1, found))

(* _retain_execution_leads                                                 *)
Retained(known, found) == Distinct(known \o found)

(* The leads of everything assessed so far.                                *)
LeadsAssessed ==
  FlattenSeq([i \in DOMAIN assessments |-> LeadsIn(assessments[i].records)])

(* DiscoveryRunResult.leads_with_context, which recomputes the leads from  *)
(* the assessments of the run.                                             *)
LeadsWithContext == Distinct(LeadsAssessed)

(* _untrusted_follow_up_queries: the raw leads of the records up to their  *)
(* limit, the distinct terms up to theirs, each with its targets.          *)
RawLeadsOf(found) ==
  FlattenSeq([i \in DOMAIN found |-> RawLeads[found[i]]])

TermsOf(raw) ==
  AtMost(MaxTerms, Distinct([i \in DOMAIN raw |-> raw[i].term]))

TargetsOf(raw, term) ==
  Distinct(FlattenSeq([i \in DOMAIN raw |->
    IF raw[i].term = term THEN raw[i].targets ELSE <<>>]))

FollowUpsOf(term, targets) ==
  [k \in DOMAIN targets |-> [query |-> "follow_up", channel |-> targets[k],
                             text |-> [base |-> term, without |-> <<>>]]]

FollowUpsFrom(raw, terms) ==
  FlattenSeq([i \in DOMAIN terms |->
                FollowUpsOf(terms[i], TargetsOf(raw, terms[i]))])

(* The one plan of follow-ups, in a set (TLC evaluates its parts once).    *)
FollowUps(found) ==
  UNION {{FollowUpsFrom(raw, terms) : terms \in {TermsOf(raw)}} :
           raw \in {AtMost(MaxLeads, RawLeadsOf(found))}}

Truncated(found) == Len(RawLeadsOf(found)) >= MaxLeads

(* bounded_exclusion_groups, as many of them as are used: the names seen   *)
(* so far, those of the inventory first, in groups of GroupSize.           *)
ExclusionGroups ==
  LET seen == Distinct(Trusted \o elicited
                         \o [i \in DOMAIN leads |-> Title[leads[i]]])
      part(k) == AtMost(GroupSize,
                        SubSeq(seen, (k - 1) * GroupSize + 1, Len(seen)))
      wanted == (Len(seen) + GroupSize - 1) \div GroupSize
  IN [k \in 1 .. (IF wanted < MaxGroups THEN wanted ELSE MaxGroups)
        |-> part(k)]

(* Without names, the query as it is.                                      *)
OrPlain(groups) == IF groups = <<>> THEN << <<>> >> ELSE groups

(* _rendered_exclusion_variants of every query and channel.                *)
Variants ==
  LET formulations == Formulations[vocabulary]
      without(f) == (IF f.plain THEN << <<>> >> ELSE <<>>)
                      \o OrPlain(ExclusionGroups)
      of(f) == [i \in DOMAIN without(f) |->
                  [query |-> f.query, channel |-> f.channel,
                   text |-> [base |-> f.base, without |-> without(f)[i]]]]
  IN FlattenSeq([i \in DOMAIN formulations |-> of(formulations[i])])

-----------------------------------------------------------------------------
Start ==
  /\ phase' = "elicitation" /\ todo' = <<>> /\ pages' = <<>>
  /\ executed' = {} /\ assessments' = <<>> /\ leads' = <<>>
  /\ productive' = {} /\ included' = 0 /\ limitReached' = FALSE
  /\ planned' = {} /\ elicited' = <<>> /\ vocabulary' = NoVocabulary
  /\ UnaskedAgain

Init ==
  /\ phase = "elicitation" /\ todo = <<>> /\ pages = <<>>
  /\ executed = {} /\ assessments = <<>> /\ leads = <<>>
  /\ productive = {} /\ included = 0 /\ limitReached = FALSE
  /\ elicited = <<>> /\ vocabulary = NoVocabulary
  /\ memo = <<>> /\ kept = NoVocabulary /\ hasMemo \in BOOLEAN
  /\ interrupts = 0 /\ planned = {} /\ before = <<>>
  /\ Unasked

KeysOf(requests) == {Key(requests[i]) : i \in DOMAIN requests}

(* The model is asked, and its responses are read.                         *)
Eliciting == phase = "elicitation" /\ Elicit /\ UNCHANGED runVars

(* elicit_candidates raises, which ends the run.                           *)
Abandon ==
  /\ phase = "elicitation" /\ stage = "failed"
  /\ phase' = "failed"
  /\ UnaskedAgain
  /\ UNCHANGED <<todo, pages, executed, assessments, leads, productive,
                 included, limitReached, elicited, vocabulary, planned,
                 memo, kept, hasMemo, interrupts, before>>

(* _memoized_vocabulary: the confirmed one, or what a new phase results in *)
(* when the document and its pages are what they are by then ...           *)
Available == IF kept = NoVocabulary THEN Vocabularies ELSE {kept}

(* Mutant: the vocabulary is not stored in the memo.                       *)
KeptForNobody(v) == IF v \in Vocabularies THEN kept ELSE NoVocabulary

KeptAfter(v) == IF hasMemo THEN v ELSE kept

Begin ==
  /\ phase = "elicitation" /\ stage = "done"
  /\ \E v \in Available :
       /\ vocabulary' = v /\ kept' = KeptAfter(v)
       /\ todo' = Initial[v] /\ planned' = KeysOf(Initial[v])
  /\ phase' = "initial" /\ elicited' = LeadNames
  /\ UnaskedAgain
  /\ UNCHANGED <<pages, executed, assessments, leads, productive, included,
                 limitReached, memo, hasMemo, interrupts, before>>

(* ... unless the phase raises: its update was refused, for one.           *)
VocabularyFails ==
  /\ phase = "elicitation" /\ stage = "done" /\ kept = NoVocabulary
  /\ phase' = "failed"
  /\ UnaskedAgain
  /\ UNCHANGED <<todo, pages, executed, assessments, leads, productive,
                 included, limitReached, elicited, vocabulary, planned,
                 memo, kept, hasMemo, interrupts, before>>

(* Mutant: what was executed is forgotten when the phase ends.             *)
ExecutedInPhase(request) ==
  \E i \in DOMAIN assessments : /\ assessments[i].phase = phase
                                /\ assessments[i].asked = Key(request)

Executed(request) == Key(request) \in executed

Unneeded(request) ==
  \/ Executed(request)
  \/ phase = "weak" /\ <<request.query, request.channel>> \in productive

(* Mutant: the queue is looked at, not popped.                             *)
SkipWithoutPop ==
  /\ pages = <<>> /\ todo # <<>> /\ Unneeded(Head(todo))
  /\ UNCHANGED vars

(* A request that was executed, or whose query was productive there.       *)
Skip ==
  /\ pages = <<>> /\ todo # <<>>
  /\ Unneeded(Head(todo))
  /\ todo' = Tail(todo)
  /\ UNCHANGED <<phase, pages, executed, assessments, leads, productive,
                 included, limitReached, elicited, vocabulary, planned,
                 memo, kept, hasMemo, interrupts, before>>

(* Mutant: one follow-up too many.                                         *)
PastLimit == phase = "follow_up" /\ included > MaxFollowUps

(* The follow-up bound ends the loop.                                      *)
AtLimit == phase = "follow_up" /\ included >= MaxFollowUps

DropFollowUps ==
  /\ pages = <<>> /\ todo # <<>>
  /\ ~Unneeded(Head(todo))
  /\ AtLimit
  /\ todo' = <<>>
  /\ UNCHANGED <<phase, pages, executed, assessments, leads, productive,
                 included, elicited, vocabulary, planned,
                 memo, kept, hasMemo, interrupts, before>>

(* Mutant: the bound is not reported.                                      *)
StopFollowUpsSilently == DropFollowUps /\ UNCHANGED limitReached

StopFollowUps == DropFollowUps /\ limitReached' = TRUE

(* What the loops of run_discovery do with the records of a request.       *)
Assess(request, records) ==
  \E found \in {LeadsIn(records)} :
  \E more \in IF phase = "follow_up" THEN FollowUps(found) ELSE {<<>>} :
    /\ executed' = executed \cup {Key(request)}
    /\ assessments' = Append(assessments, [asked |-> Key(request),
                                           phase |-> phase,
                                           records |-> records])
    /\ leads' = Retained(leads, found)
    /\ productive' = IF phase = "initial" /\ found # <<>>
                     THEN productive \cup {<<request.query, request.channel>>}
                     ELSE productive
    /\ included' = IF phase = "follow_up" THEN included + 1 ELSE included
    /\ limitReached' = (limitReached \/ (phase = "follow_up"
                                         /\ Truncated(found)))
    /\ todo' = Tail(todo) \o more
    /\ planned' = planned \cup KeysOf(more)
    /\ pages' = <<>>
    /\ UNCHANGED <<phase, elicited, vocabulary, kept, hasMemo, interrupts,
                   before>>

(* The request that is executed next, if it is one for this channel.       *)
Wanted(channel) ==
  IF todo = <<>> \/ AtLimit THEN {}
  ELSE {request \in {Head(todo)} :
          request.channel = channel /\ ~Unneeded(request)}

(* Mutant: the memo is not asked.                                          *)
NeverCached(request) == request.text.base \notin Bases

Cached(request) == hasMemo /\ MemoKey(request) \in DOMAIN memo

Reuse ==
  \E channel \in Channels : \E request \in Wanted(channel) :
    /\ pages = <<>> /\ Cached(request)
    /\ Assess(request, memo[MemoKey(request)])
    /\ UNCHANGED memo

(* The records that an execution ends with at this page, if it does.       *)
Ended(request, got) ==
  {RecordsOf(request, got, reason) :
     reason \in {EndsWith(request, got)} \ {"none"}}

(* One page of a request is fetched; the loop goes on or returns.          *)
FetchNext ==
  \E channel \in Channels :
  \E request \in Wanted(channel), page \in PageResponses[channel] :
  \E got \in {Append(pages, page)} :
    /\ ~Cached(request)
    /\ Ended(request, got) = {}
    /\ pages' = got
    /\ UNCHANGED <<phase, todo, executed, assessments, leads, productive,
                   included, limitReached, elicited, vocabulary, planned,
                   memo, kept, hasMemo, interrupts, before>>

(* store_execution                                                         *)
Remembering(key, records) ==
  [k \in DOMAIN memo \cup {key} |-> IF k = key THEN records ELSE memo[k]]

FetchLast ==
  \E channel \in Channels :
  \E request \in Wanted(channel), page \in PageResponses[channel] :
  \E got \in {Append(pages, page)} :
    /\ ~Cached(request)
    /\ \E records \in Ended(request, got) :
         /\ Assess(request, records)
         /\ memo' = IF hasMemo THEN Remembering(MemoKey(request), records)
                    ELSE memo

(* The phases in their order.                                              *)
PlanFollowUps ==
  /\ phase = "initial" /\ pages = <<>> /\ todo = <<>>
  /\ phase' = "follow_up"
  /\ \E found \in {LeadsAssessed} : \E plan \in FollowUps(found) :
       /\ todo' = plan
       /\ planned' = KeysOf(plan)
       /\ limitReached' = Truncated(found)
  /\ UNCHANGED <<pages, executed, assessments, leads, productive, included,
                 elicited, vocabulary, memo, kept, hasMemo, interrupts,
                 before>>

Later == [follow_up |-> "weak", weak |-> "recall", recall |-> "done"]

NextPhase ==
  /\ phase \in DOMAIN Later /\ pages = <<>> /\ todo = <<>>
  /\ phase' = Later[phase]
  /\ \E plan \in {CASE phase = "follow_up" -> Variants
                    [] phase = "weak" -> Recall[vocabulary]
                    [] OTHER -> <<>>} :
       /\ todo' = plan
       /\ planned' = {Key(plan[i]) : i \in {j \in DOMAIN plan :
                        phase = "follow_up" =>
                          <<plan[j].query, plan[j].channel>> \notin productive}}
  /\ UNCHANGED <<pages, executed, assessments, leads, productive, included,
                 limitReached, elicited, vocabulary, memo, kept, hasMemo,
                 interrupts, before>>

(* What does not depend on what the model names.                           *)
Deterministic(s) ==
  AtPlaces(s, {i \in DOMAIN s : s[i].phase \in {"initial", "follow_up"}})

(* The run is paused or dies, and is repeated with the same memo; the      *)
(* model is asked again.                                                   *)
Interrupt ==
  /\ phase # "done" /\ hasMemo /\ interrupts < MaxInterrupts
  /\ interrupts' = interrupts + 1
  /\ before' = Deterministic(assessments)
  /\ Start
  /\ UNCHANGED <<memo, kept, hasMemo>>

Search == \/ Skip \/ StopFollowUps \/ Reuse \/ PlanFollowUps \/ NextPhase
          \/ FetchNext \/ FetchLast

Step == \/ Eliciting \/ Begin \/ Abandon \/ VocabularyFails
        \/ Search /\ UNCHANGED elicitVars

Next == Step \/ Interrupt

(* The loops are sequential code, and every fetch and every call of the    *)
(* model returns or raises.                                                *)
Spec == Init /\ [][Next]_vars /\ WF_vars(Step)

(* _completion_gaps *)
CompletionGaps ==
  {gap \in {"provider", "follow_up"} :
     \/ /\ gap = "provider"
        /\ \E i \in DOMAIN assessments :
             assessments[i].records.reason # "provider_exhausted"
     \/ gap = "follow_up" /\ limitReached}

-----------------------------------------------------------------------------
Phases == {"elicitation", "initial", "follow_up", "weak", "recall",
           "done", "failed"}
Assessed == [asked : Keys, phase : Phases, records : Records]

(* Types and bounds.                                                       *)
TypeOK ==
  /\ ElicitTypeOK
  /\ phase \in Phases /\ todo \in Seq(Request)
  /\ pages \in Seq(Response) /\ Len(pages) < MaxPages
  /\ executed \subseteq Keys /\ assessments \in Seq(Assessed)
  /\ leads \in Seq(Leads)
  /\ productive \subseteq Queries \X Channels
  /\ included \in 0 .. MaxFollowUps
  /\ limitReached \in BOOLEAN /\ elicited \in Seq(Names)
  /\ \A k \in DOMAIN memo : memo[k] \in Records
  /\ {vocabulary, kept} \subseteq Vocabularies \cup {NoVocabulary}
  /\ hasMemo \in BOOLEAN /\ interrupts \in 0 .. MaxInterrupts
  /\ planned \subseteq Keys /\ before \in Seq(Assessed)

(* No request is executed twice in a run, in whatever phases it comes up,  *)
(* and each is answered with its own records, also out of the memo.        *)
AskedOnce ==
  \A i, j \in DOMAIN assessments :
    /\ assessments[i].asked = assessments[j].asked => i = j
    /\ assessments[i].asked = Key(assessments[i].records)

(* A repeated run does, request by request, what the interrupted one did,  *)
(* until the exclusion variants, which depend on what the model names.     *)
Retraced ==
  \/ IsPrefix(Deterministic(assessments), before)
  \/ IsPrefix(before, Deterministic(assessments))

(* The result's leads are those that leads_with_context recomputes for the *)
(* journal: "the identical lead set", in the same order.                   *)
LeadsAgree == leads = LeadsWithContext

(* What a phase has to ask has been executed when the phase ends: the      *)
(* follow-ups that come up during it too, unless their limit is reported;  *)
(* every query that was not productive with a channel in each of its       *)
(* variants there.                                                         *)
PlannedQueried ==
  todo = <<>> /\ pages = <<>> /\ (phase = "follow_up" => ~limitReached) =>
    planned \subseteq executed

(* search_providers.py: "only explicit provider exhaustion" is complete:   *)
(* the provider said so on a last page without cursor, after pages that    *)
(* were inspected, differ, stayed within the limits, and showed a lead or  *)
(* were followed by another page.                                          *)
ExhaustionEarned ==
  \A i \in DOMAIN assessments :
    LET got == assessments[i].records.pages IN
    assessments[i].records.reason = "provider_exhausted" =>
      /\ got[Len(got)].exhausted /\ got[Len(got)].next = NoCursor
      /\ \A k \in DOMAIN got : got[k].fault = "none"
      /\ \A k, l \in DOMAIN got : got[k].items = got[l].items => k = l
      /\ Cardinality(Unique(got)) <= MaxResults
      /\ Len(got) > 1 \/ Unique(got) \cap Leads # {}

(* The model goes on naming, and follow-ups find leads that have           *)
(* follow-ups, yet every run ends.                                         *)
Terminates == <>(phase \in {"done", "failed"})

(* docs/inventory-curator.md 282-284: "iteration limits remain explicit    *)
(* incomplete gaps rather than silently exhausted coverage".  Does not     *)
(* hold: the terms beyond MaxTerms are dropped without a gap.              *)
LimitsAreExplicit ==
  phase = "done" /\ "follow_up" \notin CompletionGaps =>
    \A i \in DOMAIN assessments :
      LET a == assessments[i]
          raw == RawLeadsOf(LeadsIn(a.records))
      IN a.phase \in {"initial", "follow_up"} =>
           \A k \in DOMAIN raw : \A channel \in ToSet(raw[k].targets) :
             <<channel, [base |-> raw[k].term, without |-> <<>>]>> \in executed
=============================================================================
