------------------------------- MODULE Ledger -------------------------------
(***************************************************************************)
(* The discovery ledger of research/ledger.py and its validators in        *)
(* research/models.py: category-stage sweeps, the search passes recorded   *)
(* in them and the candidates those passes encountered.  Module            *)
(* Persistence shows that one locked call behaves as one atomic step, so   *)
(* each mutation is one action here.  A client reads the ledger, decides,  *)
(* and sends one mutation with the revision it has read; answers get lost  *)
(* and the same request is then sent again.                                *)
(***************************************************************************)
EXTENDS Integers, Sequences

CONSTANTS Clients,        \* coordinators that mutate the ledger
          Categories,     \* resource categories
          Cells,          \* category-stage cells, one sweep each
          CellCategory,   \* the category of a cell
          CandidateIds,
          Resources,      \* trusted inventory identifiers
          ResourceCategory,
          NoResource,     \* resource_id: null
          Inventory,      \* the resource a candidate is bootstrapped from
          PassIds,
          PassCell,       \* the cell named by a pass identifier's prefix
          NoCell,         \* a prefix that names no cell
          Days,           \* dates
          Verdicts,       \* dispositions that callers and workers use
          MaxRevision     \* bound: revisions explored

FinalDispositions == {"added", "duplicate", "out_of_scope", "blocked"}

ASSUME CellsAssumption ==
  /\ Categories # {}
  /\ CellCategory \in [Cells -> Categories]
  /\ PassCell \in [PassIds -> Cells \cup {NoCell}]
  /\ NoCell \notin Cells
ASSUME ResourcesAssumption ==
  /\ ResourceCategory \in [Resources -> Categories]
  /\ Inventory \in [CandidateIds -> Resources \cup {NoResource}]
  /\ NoResource \notin Resources
ASSUME BoundsAssumption ==
  /\ Days \subseteq Nat \ {0} /\ Days # {}
  /\ Verdicts \subseteq FinalDispositions \cup {"pending"}
  /\ MaxRevision \in Nat

VARIABLES revision,    \* the ledger's revision; -1: there is no file
          updatedOn,   \* its updated_on
          sweeps,      \* its sweeps, by cell
          candidates,  \* its candidates, by identifier
          expected,    \* expected[c]: the revision c decides from, or Unread
          outcome,     \* outcome[c]: the answer on its way to c
          overtaken    \* ghost: the ledger changed after c read it

ledger == <<revision, updatedOn, sweeps, candidates>>
clientVars == <<expected, outcome, overtaken>>
vars == <<revision, updatedOn, sweeps, candidates,
          expected, outcome, overtaken>>

Unread == -1

States       == {"not_started", "in_progress", "complete"}
Dispositions == {"absent", "pending"} \cup FinalDispositions

(* A pass: its date, the candidates it encountered, the new ones of them.  *)
Pass == [id : PassIds, on : Days, found : SUBSET CandidateIds,
         new : SUBSET CandidateIds, complete : BOOLEAN]

Sweep == [state : States, empties : 0 .. 2, passes : Seq(Pass)]

(* A candidate; the reasons and gaps that some dispositions require, names *)
(* and URLs are left out.  "absent" stands for an identifier without entry.*)
Entry == [category : Categories, disposition : Dispositions,
          resource : Resources \cup {NoResource},
          checked : Days, refreshed : BOOLEAN]

(* A worker's result: what it matched, what it proposes, and the date of   *)
(* its latest evidence (0: none).                                          *)
Result == [category : Categories, disposition : FinalDispositions,
           matched : Resources \cup {NoResource},
           proposed : Resources \cup {NoResource}, on : Days \cup {0}]

Exists(entry) == entry.disposition # "absent"
Settled(entry) == entry.disposition \in FinalDispositions

Later(a, b) == IF a < b THEN b ELSE a

-----------------------------------------------------------------------------
(* The validators of research/models.py.                                   *)

OfCategory(resource, category) ==
  resource # NoResource => ResourceCategory[resource] = category

(* SearchPass.validate_search_pass; coverage is part of being complete.    *)
ValidPass(p) == p.new \subseteq p.found

(* CandidateEntry.validate_disposition *)
ValidEntry(e) ==
  /\ e.disposition \in {"added", "duplicate"} => e.resource # NoResource
  /\ e.refreshed => e.disposition = "duplicate" /\ e.resource # NoResource
  /\ OfCategory(e.resource, e.category)

(* CandidateResearchResult.validate_result *)
ValidResult(r) ==
  /\ OfCategory(r.proposed, r.category) /\ OfCategory(r.matched, r.category)
  /\ r.disposition = "added" =>
       r.proposed # NoResource /\ r.matched = NoResource /\ r.on # 0
  /\ r.disposition = "duplicate" => r.matched # NoResource
  /\ r.disposition = "out_of_scope" => r.on # 0

EmptyPass(p) == p.complete /\ p.new = {}

(* Mutant: an incomplete pass counts as an empty one.                      *)
TrailingFruitless(passes) ==
  LET n == Len(passes) IN
  IF n > 0 /\ passes[n].new = {}
  THEN IF n > 1 /\ passes[n - 1].new = {} THEN 2 ELSE 1
  ELSE 0

(* _trailing_empty_passes: counted from the end, at most two.              *)
TrailingEmpty(passes) ==
  LET n == Len(passes) IN
  IF n > 0 /\ EmptyPass(passes[n])
  THEN IF n > 1 /\ EmptyPass(passes[n - 1]) THEN 2 ELSE 1
  ELSE 0

(* SweepEntry.validate_sweep                                               *)
ValidSweep(s) ==
  /\ \A i \in 1 .. Len(s.passes) : ValidPass(s.passes[i])
  /\ \A i, j \in 1 .. Len(s.passes) :
        i < j => /\ s.passes[i].id # s.passes[j].id
                 /\ s.passes[i].on <= s.passes[j].on
  /\ s.empties = TrailingEmpty(s.passes)
  /\ s.state = "not_started" => s.passes = <<>>
  /\ s.state = "complete" => s.empties = 2

Encountered(s) == UNION {s.passes[i].found : i \in 1 .. Len(s.passes)}

RecordedIds(s) == {s.passes[i].id : i \in 1 .. Len(s.passes)}

(* Mutant: a complete sweep's candidates are not looked at again.          *)
ValidReferences(sw, ca) ==
  /\ \A x, y \in Cells :
        x # y => RecordedIds(sw[x]) \cap RecordedIds(sw[y]) = {}
  /\ \A x \in Cells : \A id \in Encountered(sw[x]) :
        Exists(ca[id]) /\ ca[id].category = CellCategory[x]

(* DiscoveryLedger.validate_ledger, the check before every write.          *)
ValidLedger(sw, ca) ==
  /\ \A x, y \in Cells :
        x # y => RecordedIds(sw[x]) \cap RecordedIds(sw[y]) = {}
  /\ \A x \in Cells : \A id \in Encountered(sw[x]) :
        /\ Exists(ca[id])
        /\ ca[id].category = CellCategory[x]
        /\ sw[x].state = "complete" => Settled(ca[id])

-----------------------------------------------------------------------------
(* Committing.                                                             *)

NoEntry ==
  [category |-> CHOOSE k \in Categories : TRUE, disposition |-> "absent",
   resource |-> NoResource, checked |-> CHOOSE d \in Days : TRUE,
   refreshed |-> FALSE]

NewSweep == [state |-> "not_started", empties |-> 0, passes |-> <<>>]

Answer(c, o) == outcome' = [outcome EXCEPT ![c] = o]

(* A request that is on its way: sent and not answered yet.                *)
Sent(c) == expected[c] # Unread /\ outcome[c] = "none"

Refuse(c, o) ==
  /\ Answer(c, o)
  /\ UNCHANGED <<ledger, expected, overtaken>>

(* Mutant: any revision will do.                                           *)
AnyRevision(c) == TRUE

(* _require_revision *)
RevisionMatches(c) == expected[c] = revision

(* _commit: the whole ledger is validated, then replaced with the next     *)
(* revision of the one that the caller expected.                           *)
Commit(c, sw, ca, on) ==
  IF ValidLedger(sw, ca)
  THEN /\ revision' = expected[c] + 1
       /\ updatedOn' = Later(updatedOn, on)
       /\ sweeps' = sw
       /\ candidates' = ca
       /\ Answer(c, "committed")
       /\ overtaken' = [d \in Clients |-> TRUE]
       /\ UNCHANGED expected
  ELSE Refuse(c, "refused")

(* _locked_ledger: with another revision than the expected one, the call   *)
(* fails before it looks at the request.                                   *)
Stale(c) ==
  /\ Sent(c)
  /\ ~RevisionMatches(c)
  /\ Refuse(c, "stale")

Locked(c) ==
  /\ Sent(c)
  /\ revision < MaxRevision
  /\ RevisionMatches(c)

-----------------------------------------------------------------------------
(* record_search_pass                                                      *)

(* Mutant: a complete sweep takes further passes.                          *)
AdmissibleAnyState(p) ==
  LET cell == PassCell[p.id] IN
  /\ cell # NoCell
  /\ \A x \in Cells : p.id \notin RecordedIds(sweeps[x])
  /\ \A id \in p.found : Exists(candidates[id])
  /\ p.complete => \A id \in p.found : Settled(candidates[id])
  /\ sweeps[cell].passes # <<>> =>
       sweeps[cell].passes[Len(sweeps[cell].passes)].on <= p.on

Admissible(p) ==
  LET cell == PassCell[p.id] IN
  /\ cell # NoCell
  /\ sweeps[cell].state # "complete"
  /\ \A x \in Cells : p.id \notin RecordedIds(sweeps[x])
  /\ \A id \in p.found : Exists(candidates[id])
  /\ p.complete => \A id \in p.found : Settled(candidates[id])
  /\ sweeps[cell].passes # <<>> =>
       sweeps[cell].passes[Len(sweeps[cell].passes)].on <= p.on

(* Mutant: only the latest pass is kept.                                   *)
SweepOfLatest(s, p) ==
  LET empties == TrailingEmpty(<<p>>) IN
  [state |-> "in_progress", empties |-> empties, passes |-> <<p>>]

(* The sweep with one pass more; its counters are derived from the passes. *)
SweepWith(s, p) ==
  LET passes  == Append(s.passes, p)
      empties == TrailingEmpty(passes) IN
  [state   |-> IF empties = 2 THEN "complete" ELSE "in_progress",
   empties |-> empties, passes |-> passes]

RecordSearchPass(c) ==
  /\ Locked(c)
  /\ \E p \in Pass :
       /\ ValidPass(p)
       /\ \/ ~Admissible(p) /\ Refuse(c, "refused")
          \/ /\ Admissible(p)
             /\ LET cell  == PassCell[p.id]
                    sweep == SweepWith(sweeps[cell], p) IN
                IF ValidSweep(sweep)
                THEN Commit(c, [sweeps EXCEPT ![cell] = sweep],
                            candidates, p.on)
                ELSE Refuse(c, "refused")

-----------------------------------------------------------------------------
(* upsert_candidate: add or replace the whole entry.                       *)
UpsertCandidate(c) ==
  /\ Locked(c)
  /\ \E id \in CandidateIds, e \in Entry :
       /\ ValidEntry(e) /\ e.disposition \in Verdicts
       /\ Commit(c, sweeps, [candidates EXCEPT ![id] = e], e.checked)

(* apply_research_result                                                   *)

(* A refreshed duplicate must propose the record it has matched.           *)
Applicable(entry, r) ==
  /\ Exists(entry)
  /\ entry.category = r.category
  /\ r.disposition = "duplicate" => r.proposed \in {NoResource, r.matched}

Researched(entry, r) ==
  [category    |-> entry.category,
   disposition |-> r.disposition,
   resource    |-> CASE r.disposition = "added"     -> r.proposed
                     [] r.disposition = "duplicate" -> r.matched
                     [] OTHER                       -> NoResource,
   checked     |-> Later(entry.checked, r.on),
   refreshed   |-> /\ r.disposition = "duplicate"
                   /\ entry.refreshed \/ r.proposed # NoResource]

ApplyResearchResult(c) ==
  /\ Locked(c)
  /\ \E id \in CandidateIds, r \in Result :
       /\ ValidResult(r) /\ r.disposition \in Verdicts
       /\ \/ ~Applicable(candidates[id], r) /\ Refuse(c, "refused")
          \/ /\ Applicable(candidates[id], r)
             /\ LET e == Researched(candidates[id], r) IN
                IF ValidEntry(e)
                THEN Commit(c, sweeps, [candidates EXCEPT ![id] = e],
                            e.checked)
                ELSE Refuse(c, "refused")

-----------------------------------------------------------------------------
(* The clients.                                                            *)

Bootstrapped(on) ==
  [id \in CandidateIds |->
     IF Inventory[id] = NoResource THEN NoEntry
     ELSE [category |-> ResourceCategory[Inventory[id]],
           disposition |-> "added", resource |-> Inventory[id],
           checked |-> on, refreshed |-> FALSE]]

(* initialize_ledger: creation by link, which never replaces a file.       *)
InitializeLedger(c) ==
  /\ expected[c] = Unread /\ outcome[c] = "none"
  /\ \/ revision # -1 /\ Answer(c, "failed") /\ UNCHANGED ledger
     \/ /\ revision = -1
        /\ revision' = 0
        /\ \E on \in Days :
             /\ updatedOn' = on
             /\ \E reviewed \in {d \in Days : d <= on} :
                  candidates' = Bootstrapped(reviewed)
        /\ sweeps' = [x \in Cells |-> NewSweep]
        /\ Answer(c, "committed")
  /\ UNCHANGED <<expected, overtaken>>

(* A client loads the ledger and decides on one mutation of it.            *)
Read(c) ==
  /\ expected[c] = Unread /\ outcome[c] = "none"
  /\ revision # -1
  /\ expected' = [expected EXCEPT ![c] = revision]
  /\ overtaken' = [overtaken EXCEPT ![c] = FALSE]
  /\ UNCHANGED <<ledger, outcome>>

(* The answer arrives; or the client forgets its request and reads again.  *)
Finish(c) ==
  /\ expected[c] # Unread \/ outcome[c] # "none"
  /\ expected' = [expected EXCEPT ![c] = Unread]
  /\ Answer(c, "none")
  /\ UNCHANGED <<ledger, overtaken>>

(* The answer is lost and the same request is sent again.                  *)
Retry(c) ==
  /\ expected[c] # Unread /\ outcome[c] # "none"
  /\ Answer(c, "none")
  /\ UNCHANGED <<ledger, expected, overtaken>>

Init ==
  /\ revision = -1
  /\ updatedOn = 0
  /\ sweeps = [x \in Cells |-> NewSweep]
  /\ candidates = [id \in CandidateIds |-> NoEntry]
  /\ expected = [c \in Clients |-> Unread]
  /\ outcome = [c \in Clients |-> "none"]
  /\ overtaken = [c \in Clients |-> FALSE]

Next ==
  \E c \in Clients :
     \/ InitializeLedger(c) \/ Read(c) \/ Stale(c)
     \/ RecordSearchPass(c) \/ UpsertCandidate(c) \/ ApplyResearchResult(c)
     \/ Finish(c) \/ Retry(c)

Spec == Init /\ [][Next]_vars

-----------------------------------------------------------------------------
(* The types; no client has read a revision that is not there yet.         *)
TypeOK ==
  /\ revision \in -1 .. MaxRevision
  /\ updatedOn \in Days \cup {0}
  /\ sweeps \in [Cells -> Sweep]
  /\ candidates \in [CandidateIds -> Entry]
  /\ expected \in [Clients -> Int]
  /\ \A c \in Clients : expected[c] \in Unread .. revision
  /\ outcome \in [Clients ->
                    {"none", "committed", "stale", "refused", "failed"}]
  /\ overtaken \in [Clients -> BOOLEAN]

(* Every candidate that a complete sweep encountered has an entry of the   *)
(* sweep's category with a final disposition, whatever is upserted later.  *)
CompleteSweepsSettled ==
  \A x \in Cells : \A id \in Encountered(sweeps[x]) :
     /\ Exists(candidates[id])
     /\ candidates[id].category = CellCategory[x]
     /\ sweeps[x].state = "complete" => Settled(candidates[id])

(* A sweep is complete exactly when its last two passes were complete and  *)
(* found nothing new.                                                      *)
CompletionEarned ==
  \A x \in Cells :
     LET passes == sweeps[x].passes
         n      == Len(passes) IN
     sweeps[x].state = "complete" <=>
        n >= 2 /\ \A i \in {n - 1, n} : passes[i].complete
                                        /\ passes[i].new = {}

(* A complete sweep never changes again.                                   *)
CompleteIsFinal ==
  [][\A x \in Cells :
       sweeps[x].state = "complete" => sweeps'[x] = sweeps[x]]_vars

(* A mutation increments the revision once, keeps every recorded pass in   *)
(* its place and every candidate, and never dates the ledger back.         *)
History ==
  [][\/ revision = -1 /\ revision' = 0
     \/ /\ revision # -1 /\ revision' = revision + 1
        /\ \A x \in Cells :
             LET n == Len(sweeps[x].passes) IN
             /\ Len(sweeps'[x].passes) >= n
             /\ SubSeq(sweeps'[x].passes, 1, n) = sweeps[x].passes
        /\ \A id \in CandidateIds :
             Exists(candidates[id]) => Exists(candidates'[id])
        /\ updatedOn' >= updatedOn]_ledger

(* A mutation is only ever applied to the ledger that its caller decided   *)
(* from: neither over another client's commit nor a second time.           *)
NotOvertaken ==
  [][\A c \in Clients :
       outcome[c] = "none" /\ outcome'[c] = "committed" /\ revision # -1
         => ~overtaken[c]]_vars

(* docs/inventory-curator.md 71: no candidate remains pending in a         *)
(* complete pass or sweep.                                                 *)
CompletePassSettled ==
  \A x \in Cells : \A i \in 1 .. Len(sweeps[x].passes) :
     LET p == sweeps[x].passes[i] IN
     p.complete => \A id \in p.found : Settled(candidates[id])
=============================================================================
