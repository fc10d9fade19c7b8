----------------------------- MODULE Elicitation -----------------------------
(***************************************************************************)
(* elicit_candidates of research/elicitation.py: a model is asked for      *)
(* names, first broadly and then with what is known and what it has named  *)
(* excluded, until it names nothing new or the iterations are used up.  A  *)
(* response that is no list of candidates is asked for once more; a        *)
(* candidate that is malformed is put aside alone; candidates that share a *)
(* name are one lead.                                                      *)
(*                                                                         *)
(* The model is external and answers anything, to any prompt.  Names are   *)
(* normalized already.  A candidate is the sequence of its name and its    *)
(* aliases, and empty when it is malformed.  A lead that was popped stays  *)
(* in the sequence without names: only the order of the others matters.    *)
(* Counters of truncated output and the texts of prompts are left out; a   *)
(* prompt that is too long fails like a call that does.                    *)
(***************************************************************************)
EXTENDS Subsequences, Integers

CONSTANTS Names,
          Known,          \* names of the inventory and the ledger
          ModelResponses, \* what the model may answer
          MaxIterations,  \* max_iterations
          MaxCandidates,  \* max_candidates_per_response
          MaxAliases,     \* max_aliases_per_candidate
          MaxExclusions   \* max_exclusion_names

Candidate     == Seq(Names)
ModelResponse == [valid : BOOLEAN, entries : Seq(Candidate)]

ASSUME ElicitationAssumption ==
  /\ Known \subseteq Names /\ IsFiniteSet(Known)
  /\ ModelResponses \subseteq ModelResponse
  /\ {MaxIterations, MaxCandidates, MaxExclusions} \subseteq Nat \ {0}
  /\ MaxAliases \in Nat

VARIABLES stage,      \* where elicit_candidates is
          iteration,
          entries,    \* candidates of the response that are still to read
          fresh,      \* new_distinct > 0
          named,      \* leads
          retries, recovered, blocked,  \* of the metrics
          excluded,   \* what the last prompt excluded (observed)
          accepted    \* names of all candidates that are leads (observed)

progress == <<stage, iteration, entries, fresh>>
metrics  == <<retries, recovered, blocked>>
elicitVars == <<progress, named, metrics, excluded, accepted>>

Lead == [name : Names, all : SUBSET Names]

Unasked ==
  /\ stage = "prompt" /\ iteration = 0 /\ entries = <<>> /\ fresh = FALSE
  /\ named = <<>> /\ retries = 0 /\ recovered = 0 /\ blocked = 0
  /\ excluded = {} /\ accepted = {}

(* The next call starts with nothing of this one.                          *)
UnaskedAgain ==
  /\ stage' = "prompt" /\ iteration' = 0 /\ entries' = <<>> /\ fresh' = FALSE
  /\ named' = <<>> /\ retries' = 0 /\ recovered' = 0 /\ blocked' = 0
  /\ excluded' = {} /\ accepted' = {}

-----------------------------------------------------------------------------
(* Mutant: the aliases of the leads are not excluded.                      *)
ExclusionsOfNames ==
  Known \cup {named[i].name : i \in {j \in DOMAIN named : named[j].all # {}}}

(* The names a follow-up prompt excludes.                                  *)
Exclusions == Known \cup UNION {named[i].all : i \in DOMAIN named}

Broad ==
  /\ stage = "prompt" /\ iteration = 0
  /\ stage' = "asked" /\ iteration' = 1 /\ excluded' = {}
  /\ UNCHANGED <<entries, fresh, named, metrics, accepted>>

FollowUp ==
  /\ stage = "prompt" /\ iteration > 0
  /\ Cardinality(Exclusions) <= MaxExclusions
  /\ stage' = "asked" /\ iteration' = iteration + 1
  /\ excluded' = Exclusions
  /\ UNCHANGED <<entries, fresh, named, metrics, accepted>>

(* _add_output_leads: the names of a candidate that are kept.              *)
Values(candidate) ==
  {candidate[i] : i \in {j \in DOMAIN candidate : j <= MaxAliases + 1}}

(* The candidates that are no leads: malformed ones, and known ones.       *)
NoLead(candidate) == candidate = <<>> \/ Values(candidate) \cap Known # {}

(* The names of the candidates that are.                                   *)
NamesOf(candidates) ==
  UNION {Values(candidates[i]) :
           i \in {j \in DOMAIN candidates : ~NoLead(candidates[j])}}

Fail == /\ stage' = "failed"
        /\ UNCHANGED <<iteration, entries, fresh, named, metrics, excluded,
                       accepted>>

(* ElicitationLimitError: nothing of what was named survives.              *)
TooManyNames ==
  /\ stage = "prompt" /\ iteration > 0
  /\ Cardinality(Exclusions) > MaxExclusions
  /\ Fail

(* The call raises, or does not return text.                               *)
CallFails == stage \in {"asked", "retried"} /\ Fail

(* _elicit_response: a list of candidates is cut to its limit and read ... *)
Read(response) ==
  /\ stage' = "reading" /\ fresh' = FALSE
  /\ entries' = IF Len(response.entries) <= MaxCandidates
                THEN response.entries
                ELSE SubSeq(response.entries, 1, MaxCandidates)
  /\ accepted' = accepted \cup NamesOf(entries')
  /\ UNCHANGED <<iteration, named, excluded>>

Answer(response) ==
  /\ stage = "asked" /\ response.valid
  /\ Read(response) /\ UNCHANGED metrics

(* ... and anything else is asked for once more, by a prompt that names    *)
(* the reason and excludes nothing.                                        *)
Retry(response) ==
  /\ stage = "asked" /\ ~response.valid
  /\ stage' = "retried" /\ retries' = retries + 1 /\ excluded' = {}
  /\ UNCHANGED <<iteration, entries, fresh, named, recovered, blocked,
                 accepted>>

AnswerRetry(response) ==
  /\ stage = "retried" /\ response.valid
  /\ Read(response) /\ recovered' = recovered + 1
  /\ UNCHANGED <<retries, blocked>>

(* The response is quarantined as a whole and names nobody.                *)
Block(response) ==
  /\ stage = "retried" /\ ~response.valid
  /\ Read([valid |-> FALSE, entries |-> <<>>]) /\ blocked' = blocked + 1
  /\ UNCHANGED <<retries, recovered>>

-----------------------------------------------------------------------------
Matching(values) == {i \in DOMAIN named : values \cap named[i].all # {}}

Reading == stage = "reading" /\ entries # <<>>

NextEntry == entries' = Tail(entries)

(* A malformed candidate is quarantined, one that is known is no lead.     *)
Pass ==
  /\ Reading /\ NoLead(Head(entries))
  /\ NextEntry
  /\ UNCHANGED <<stage, iteration, fresh, named, metrics, excluded, accepted>>

Counts(values) == /\ Reading /\ ~NoLead(Head(entries))
                  /\ values = Values(Head(entries))

(* Mutant: only the first of the leads that match is merged.               *)
MergedFirst(values) ==
  LET first == CHOOSE i \in Matching(values) :
                 \A j \in Matching(values) : i <= j
  IN [named EXCEPT ![first].all = @ \cup values]

(* _merge_names: the first of the leads that match takes the names of the  *)
(* candidate and of the others, which are popped.                          *)
Merged(values) ==
  LET first == CHOOSE i \in Matching(values) :
                 \A j \in Matching(values) : i <= j
      all   == values \cup UNION {named[i].all : i \in Matching(values)}
  IN [i \in DOMAIN named |->
        IF i \notin Matching(values) THEN named[i]
        ELSE [named[i] EXCEPT !.all = IF i = first THEN all ELSE {}]]

Merge(values) ==
  /\ Counts(values) /\ Matching(values) # {}
  /\ named' = Merged(values)
  /\ NextEntry
  /\ UNCHANGED <<stage, iteration, fresh, metrics, excluded, accepted>>

Add(values) ==
  /\ Counts(values) /\ Matching(values) = {}
  /\ named' = Append(named, [name |-> Head(Head(entries)), all |-> values])
  /\ fresh' = TRUE
  /\ NextEntry
  /\ UNCHANGED <<stage, iteration, metrics, excluded, accepted>>

(* The iterations are used up, or a follow-up named nothing new.           *)
LastIteration == iteration = MaxIterations \/ (iteration > 1 /\ ~fresh)

EndIteration ==
  /\ stage = "reading" /\ entries = <<>>
  /\ stage' = IF LastIteration THEN "done" ELSE "prompt"
  /\ UNCHANGED <<iteration, entries, fresh, named, metrics, excluded,
                 accepted>>

ReadNext ==
  /\ Reading
  /\ \/ Pass
     \/ \E values \in {Values(Head(entries))} : Merge(values) \/ Add(values)

Elicit == \/ Broad \/ FollowUp \/ TooManyNames \/ CallFails
          \/ \E response \in ModelResponses : \/ Answer(response)
                                              \/ Retry(response)
                                              \/ AnswerRetry(response)
                                              \/ Block(response)
          \/ ReadNext \/ EndIteration

ElicitSpec == Unasked /\ [][Elicit]_elicitVars

(* The names of the leads, in their order: what the result is used for.    *)
LeadNames ==
  LET left == AtPlaces(named, {i \in DOMAIN named : named[i].all # {}})
  IN [i \in DOMAIN left |-> left[i].name]

-----------------------------------------------------------------------------
Stages == {"prompt", "asked", "retried", "reading", "done", "failed"}

ElicitTypeOK ==
  /\ stage \in Stages /\ iteration \in 0 .. MaxIterations
  /\ entries \in Seq(Candidate) /\ fresh \in BOOLEAN
  /\ named \in Seq(Lead)
  /\ {retries, recovered, blocked} \subseteq Nat
  /\ retries <= iteration
  /\ excluded \subseteq Names /\ accepted \subseteq Names

(* "Malformed output is recovered candidate-locally: valid siblings are    *)
(* always retained": when a response has been read, every name of a valid  *)
(* candidate within the limits is held by one lead, whichever leads were   *)
(* merged since; no lead is known, and none holds what was not named.      *)
EveryNameOnce ==
  /\ \A i, j \in DOMAIN named :
       i # j => named[i].all \cap named[j].all = {}
  /\ \A i \in DOMAIN named : named[i].all \cap Known = {}
  /\ entries = <<>> => accepted = UNION {named[i].all : i \in DOMAIN named}

(* docs/inventory-curator.md: "Follow-up elicitation excludes              *)
(* already-known names", and the agent's definition: "and every lead       *)
(* already seen", the popped and the merged ones too.                      *)
FollowUpsExclude ==
  [][stage = "prompt" /\ stage' = "asked" /\ iteration > 0
       => excluded' = Known \cup accepted]_elicitVars
=============================================================================
