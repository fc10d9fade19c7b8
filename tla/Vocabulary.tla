----------------------------- MODULE Vocabulary -----------------------------
(***************************************************************************)
(* The incremental discovery vocabulary: research/vocabulary_store.py (the *)
(* document, its validators, inventory reconciliation, selection, the      *)
(* revisioned replacement) and _incremental_vocabulary of                  *)
(* research/discovery_orchestration.py, which loads the document, crawls   *)
(* the selected inventory pages one at a time and applies one update.      *)
(*                                                                         *)
(* A term has one wording here; a page is the candidates that the          *)
(* generator finds on it in each (category, stage) context, and two pages  *)
(* have the same digest when they are equal.  Writing the document is the  *)
(* atomic replacement that module Persistence implements.                  *)
(***************************************************************************)
EXTENDS FiniteSetsExt, Integers

CONSTANTS Clients,         \* the processes that run a discovery
          Urls,            \* canonical inventory URLs, in their order
          Terms,           \* (normalized, kind) keys
          Contexts,        \* (category, stage) pairs, in their order
          Pages,           \* what a page may hold: candidates per context
          NoPage,          \* no page was ever cleaned
          MaxPages,        \* limits.max_pages: sources refreshed per run
          MaxDecisions,    \* limits.max_decisions_per_source
          RefreshDays,
          RetryDays,
          LastDay,         \* bound: the clock stops there
          InitialCatalog,  \* the trusted inventory to begin with
          MaxRevision,     \* bound: no run starts at this revision
          MaxEdits         \* bound: commits to the trusted inventory

ASSUME VocabularyAssumption ==
  /\ Urls \subseteq Nat /\ Contexts \subseteq Nat
  /\ IsFiniteSet(Urls) /\ IsFiniteSet(Contexts) /\ IsFiniteSet(Terms)
  /\ Pages \subseteq [Contexts -> SUBSET Terms]
  /\ NoPage \notin [Contexts -> SUBSET Terms]
  /\ InitialCatalog \in [listed : SUBSET Urls,
                         contexts : [Urls -> SUBSET Contexts]]
  /\ {MaxPages, RefreshDays, RetryDays} \subseteq Nat \ {0}
  /\ {MaxDecisions, LastDay, MaxRevision, MaxEdits} \subseteq Nat

VARIABLES file,       \* research/discovery-vocabulary.yaml
          catalog,    \* the trusted inventory: listed URLs, their contexts
          today,
          edits,
          phase,      \* phase[c]: idle or crawling
          on,         \* on[c]: the date of c's run
          inventory,  \* inventory[c]: the catalog c loaded
          original,   \* original[c]: the document c loaded
          proposed,   \* proposed[c]: the update c is preparing
          queue       \* queue[c]: selected sources not yet crawled

vars == <<file, catalog, today, edits,
          phase, on, inventory, original, proposed, queue>>

-----------------------------------------------------------------------------
Days == 0 .. LastDay + RefreshDays + RetryDays
Never == 0 - 1       \* a date that is absent

(* VocabularySource; the gap's retry_after is Never for a classifier gap.  *)
NoGap == [kind |-> "none", attempted |-> Never, retry |-> Never]
Gap == [kind : {"none", "access", "classifier"},
        attempted : Days \cup {Never}, retry : Days \cup {Never}]
Source == [status : {"unknown", "active", "orphaned"},
           attempted : Days \cup {Never}, successful : Days \cup {Never},
           refresh : Days, page : Pages \cup {NoPage}, gap : Gap,
           decided : [Terms -> {"none", "accepted", "rejected"}],
           seen : SUBSET Terms]      \* the decisions that are active

(* assoc[t][u]: whether u is among the active or the inactive source URLs  *)
(* of the wording of t; a term with no association is not in the document. *)
Document == [revision : Nat, updated : Days,
             src : [Urls -> Source],
             assoc : [Terms -> [Urls -> {"none", "active", "inactive"}]],
             contexts : [Terms -> SUBSET Contexts]]

Catalog == [listed : SUBSET Urls, contexts : [Urls -> SUBSET Contexts]]

NoCatalog == [listed |-> {}, contexts |-> [u \in Urls |-> {}]]

MaxDay(a, b) == IF a >= b THEN a ELSE b

Unknown == [status |-> "unknown", attempted |-> Never, successful |-> Never,
            refresh |-> 0, page |-> NoPage, gap |-> NoGap,
            decided |-> [t \in Terms |-> "none"], seen |-> {}]

Empty == [revision |-> 0, updated |-> 0, src |-> [u \in Urls |-> Unknown],
          assoc |-> [t \in Terms |-> [u \in Urls |-> "none"]],
          contexts |-> [t \in Terms |-> {}]]

(* VocabularySource.validate_source                                        *)
ValidSource(s) ==
  /\ s.status = "orphaned" => s.seen = {}
  /\ s.successful <= s.attempted
  /\ s.attempted <= s.refresh
  /\ s.gap # NoGap => s.gap.attempted = s.attempted
  /\ \A t \in s.seen : s.decided[t] # "none"

(* DiscoveryVocabulary.validate_document and VocabularyTerm.validate_term  *)
ValidDocument(d) ==
  /\ \A u \in Urls : ValidSource(d.src[u]) /\ d.src[u].attempted <= d.updated
  /\ \A t \in Terms, u \in Urls :
       /\ d.assoc[t][u] # "none" => /\ d.src[u].status # "unknown"
                                    /\ d.contexts[t] # {}
       /\ d.assoc[t][u] = "active" => d.src[u].status = "active"

-----------------------------------------------------------------------------
(* reconcile_inventory_sources: one source of the document.                *)
Reconciled(s, listed, day) ==
  CASE listed /\ s.status = "unknown" ->
         [s EXCEPT !.status = "active", !.refresh = day]
    [] listed /\ s.status # "unknown" -> [s EXCEPT !.status = "active"]
    [] ~listed /\ s.status # "unknown" ->
         [s EXCEPT !.status = "orphaned", !.seen = {}]
    [] OTHER -> s

(* Mutant: the terms of an orphaned source stay active.                    *)
AssocAsBefore(assoc, cat) == assoc

(* Orphaned sources keep their associations as inactive ones.              *)
ReconciledAssoc(assoc, cat) ==
  [t \in Terms |-> [u \in Urls |->
     IF assoc[t][u] = "active" /\ u \notin cat.listed
     THEN "inactive" ELSE assoc[t][u]]]

ReconciledSources(src, cat, day) ==
  [u \in Urls |-> Reconciled(src[u], u \in cat.listed, day)]

(* reconcile_inventory_sources, then _reconcile_provenance_contexts: terms *)
(* take on the catalog contexts of the sources that actively support them. *)
ReconcileInventory(d, cat, day) ==
  LET assoc == ReconciledAssoc(d.assoc, cat)
      supporters(t) == {u \in cat.listed : assoc[t][u] = "active"}
      contexts == [t \in Terms |-> d.contexts[t] \cup
                     UNION {cat.contexts[u] : u \in supporters(t)}]
      src == ReconciledSources(d.src, cat, day)
  IN [d EXCEPT !.updated = MaxDay(d.updated, day), !.src = src,
               !.assoc = assoc, !.contexts = contexts]

(* select_sources_for_refresh *)
Eligible(d, day, explicit) ==
  {u \in Urls :
     LET s == d.src[u] IN
     /\ s.status = "active"
     /\ \/ u \in explicit
        \/ s.attempted = Never
        \/ s.refresh <= day
        \/ s.gap.retry # Never /\ s.gap.retry <= day}

Select(d, day, explicit) ==
  LET eligible == Eligible(d, day, explicit) IN
  {u \in eligible :
     Cardinality({v \in eligible : v < u}) < MaxPages}

Known(d) == {u \in Urls : d.src[u].status # "unknown"}

(* The document with another state of one source.                          *)
WithSource(d, u, s, day) ==
  [d EXCEPT !.updated = MaxDay(@, day), !.src[u] = s]

Failed(s, day) ==
  [s EXCEPT !.attempted = day, !.refresh = day + RetryDays,
            !.gap = [kind |-> "access", attempted |-> day,
                     retry |-> day + RetryDays]]

Refreshed(s, page, day) ==
  [s EXCEPT !.attempted = day, !.successful = day,
            !.refresh = day + RefreshDays, !.page = page, !.gap = NoGap]

(* Mutant: an access gap takes the source's terms out of use.              *)
MarkUnavailable(d, u, day) ==
  [WithSource(d, u, Failed(d.src[u], day), day) EXCEPT
     !.assoc = [t \in Terms |-> [@[t] EXCEPT
                  ![u] = IF @ = "active" THEN "inactive" ELSE @]]]

(* mark_source_access_gap *)
MarkAccessGap(d, u, day) == WithSource(d, u, Failed(d.src[u], day), day)

(* _update_source_success *)
UpdateSourceSuccess(d, u, page, day) ==
  WithSource(d, u, Refreshed(d.src[u], page, day), day)

-----------------------------------------------------------------------------
(* _reconcile_source_contexts: the changed page is reconciled with each of *)
(* the source's contexts in turn, the decisions of one being prior to the  *)
(* next.  A ruling says of each candidate with no decision in which        *)
(* context the classifier (or, when there is none or it fails, the rule    *)
(* for strong kinds) decides it, and how; it may be left undecided, and is *)
(* when the source's decision slots run out.                               *)
Found(page, ctxs) == UNION {page[k] : k \in ctxs}

Undecided == [at |-> Never, says |-> "none"]

Rulings(s, page, ctxs) ==
  LET new   == {t \in Found(page, ctxs) : s.decided[t] = "none"}
      known == {t \in Terms : s.decided[t] # "none"}
      one   == {Undecided} \cup [at : ctxs, says : {"accepted", "rejected"}]
  IN {r \in [new -> one] :
        /\ \A t \in new : r[t] # Undecided => t \in page[r[t].at]
        /\ Cardinality({t \in new : r[t] # Undecided})
             + Cardinality(known) <= MaxDecisions}

(* Mutant: decisions on candidates that are gone from the page are dropped. *)
DecisionsOnPage(s, r) ==
  [t \in Terms |-> IF t \in DOMAIN r THEN r[t].says
                   ELSE IF t \in s.seen THEN s.decided[t] ELSE "none"]

(* Prior decisions are reused; only candidates without one are decided.    *)
DecisionsAfter(s, r) ==
  [t \in Terms |-> IF s.decided[t] # "none" \/ t \notin DOMAIN r
                   THEN s.decided[t] ELSE r[t].says]

(* The decision on t when context k has been reconciled.                   *)
DecidedAt(s, r, t, k) ==
  IF t \in DOMAIN r
  THEN IF r[t] # Undecided /\ r[t].at <= k THEN r[t].says ELSE "none"
  ELSE s.decided[t]

(* Some context left one of its candidates undecided.                      *)
LeftUndecided(s, page, ctxs, r) ==
  \E k \in ctxs : \E t \in page[k] : DecidedAt(s, r, t, k) = "none"

(* reconcile_cleaned_source: the association of t in context k, if any; a  *)
(* prior association that the page no longer supports is kept as inactive. *)
Supported(s, page, r, t, k) ==
  t \in page[k] /\ DecidedAt(s, r, t, k) = "accepted"

(* Mutant: a prior association is kept as it was.                          *)
KeptInContext(s, page, r, prior, ofTerm, t, k) ==
  CASE Supported(s, page, r, t, k) -> "active"
    [] ~Supported(s, page, r, t, k) /\ k \in ofTerm -> prior
    [] OTHER -> "none"

InContext(s, page, r, prior, ofTerm, t, k) ==
  CASE Supported(s, page, r, t, k) -> "active"
    [] ~Supported(s, page, r, t, k) /\ prior # "none" /\ k \in ofTerm ->
         "inactive"
    [] OTHER -> "none"

(* Mutant: associations of contexts that the source lost are dropped.      *)
MergedCurrent(s, page, ctxs, r, prior, ofTerm, t) ==
  LET at(k) == InContext(s, page, r, prior, ofTerm, t, k)
      marked == {k \in ctxs : at(k) # "none"}
  IN IF \E k \in marked : at(k) = "active" /\ \A j \in marked : j <= k
     THEN "active"
     ELSE IF marked # {} THEN "inactive" ELSE "none"

(* _merge_terms: the contexts are merged in order, the last one decides;   *)
(* an association of other contexts only stays on record as inactive.      *)
MergedAssoc(s, page, ctxs, r, prior, ofTerm, t) ==
  LET at(k) == InContext(s, page, r, prior, ofTerm, t, k)
      marked == {k \in ctxs : at(k) # "none"}
  IN IF \E k \in marked : at(k) = "active" /\ \A j \in marked : j <= k
     THEN "active"
     ELSE IF prior # "none" THEN "inactive" ELSE "none"

(* The contexts that a term gains from this source.                        *)
MergedContexts(s, page, ctxs, r, prior, ofTerm, t) ==
  ofTerm \cup {k \in ctxs :
                 InContext(s, page, r, prior, ofTerm, t, k) # "none"}

(* _merge_reconciliation *)
Reclassified(s, page, ctxs, r, day) ==
  LET after == DecisionsAfter(s, r) IN
  [Refreshed(s, page, day) EXCEPT
     !.decided = after,
     !.seen = {t \in Found(page, ctxs) : after[t] # "none"},
     !.gap = IF LeftUndecided(s, page, ctxs, r)
             THEN [kind |-> "classifier", attempted |-> day, retry |-> Never]
             ELSE NoGap]

MergeReconciliation(d, u, page, ctxs, r, day) ==
  LET s == d.src[u]
      assoc == [t \in Terms |-> [d.assoc[t] EXCEPT
                  ![u] = MergedAssoc(s, page, ctxs, r, d.assoc[t][u],
                                     d.contexts[t], t)]]
      contexts == [t \in Terms |-> MergedContexts(s, page, ctxs, r,
                                      d.assoc[t][u], d.contexts[t], t)]
  IN [WithSource(d, u, Reclassified(s, page, ctxs, r, day), day) EXCEPT
        !.assoc = assoc, !.contexts = contexts]

-----------------------------------------------------------------------------
Init ==
  /\ file = Empty
  /\ catalog = InitialCatalog
  /\ today = 0
  /\ edits = 0
  /\ phase = [c \in Clients |-> "idle"]
  /\ on = [c \in Clients |-> 0]
  /\ inventory = [c \in Clients |-> NoCatalog]
  /\ original = [c \in Clients |-> Empty]
  /\ proposed = [c \in Clients |-> Empty]
  /\ queue = [c \in Clients |-> {}]

(* _incremental_vocabulary up to its loop.                                 *)
Begin(c) ==
  /\ phase[c] = "idle"
  /\ file.revision < MaxRevision
  /\ LET reconciled == ReconcileInventory(file, catalog, today) IN
     \E explicit \in SUBSET Known(reconciled) :
       queue' = [queue EXCEPT ![c] = Select(reconciled, today, explicit)]
  /\ proposed' = [proposed EXCEPT
                    ![c] = ReconcileInventory(file, catalog, today)]
  /\ original' = [original EXCEPT ![c] = file]
  /\ inventory' = [inventory EXCEPT ![c] = catalog]
  /\ on' = [on EXCEPT ![c] = today]
  /\ phase' = [phase EXCEPT ![c] = "crawling"]
  /\ UNCHANGED <<file, catalog, today, edits>>

(* The next selected source, in the order of the URLs.                     *)
Crawled(c, u, update) ==
  /\ phase[c] = "crawling"
  /\ u \in queue[c] /\ \A v \in queue[c] : u <= v
  /\ proposed' = [proposed EXCEPT ![c] = update]
  /\ queue' = [queue EXCEPT ![c] = @ \ {u}]
  /\ UNCHANGED <<file, catalog, today, edits, phase, on, inventory, original>>

(* The render raised.                                                      *)
CrawlFails(c, u) == Crawled(c, u, MarkAccessGap(proposed[c], u, on[c]))

(* The digest is unchanged, or the inventory names no context: no term is  *)
(* touched.                                                                *)
CrawlUnchanged(c, u, page) ==
  /\ page = proposed[c].src[u].page \/ inventory[c].contexts[u] = {}
  /\ Crawled(c, u, UpdateSourceSuccess(proposed[c], u, page, on[c]))

CrawlChanged(c, u, page) ==
  /\ page # proposed[c].src[u].page
  /\ inventory[c].contexts[u] # {}
  /\ \E r \in Rulings(proposed[c].src[u], page, inventory[c].contexts[u]) :
       Crawled(c, u, MergeReconciliation(proposed[c], u, page,
                                         inventory[c].contexts[u], r, on[c]))

(* Of the vocabulary phase of a run only the document remains.             *)
Forget(c) ==
  /\ on' = [on EXCEPT ![c] = 0]
  /\ inventory' = [inventory EXCEPT ![c] = NoCatalog]
  /\ original' = [original EXCEPT ![c] = Empty]
  /\ proposed' = [proposed EXCEPT ![c] = Empty]
  /\ queue' = [queue EXCEPT ![c] = {}]

(* _substantive_dump *)
Substance(d) == <<d.src, d.assoc, d.contexts>>

(* apply_vocabulary, under the document's lock: nothing to do, replaced,   *)
(* or refused (the run raises).                                            *)
(* Mutant: whatever was written meanwhile is overwritten.                  *)
AnyRevision(c) == file.revision \in Nat /\ c \in Clients

RevisionMatches(c) == file.revision = original[c].revision

Apply(c) ==
  /\ phase[c] = "crawling"
  /\ queue[c] = {}
  /\ IF /\ Substance(proposed[c]) # Substance(original[c])
        /\ RevisionMatches(c)
        /\ proposed[c].updated >= file.updated
     THEN file' = [proposed[c] EXCEPT !.revision = @ + 1]
     ELSE UNCHANGED file
  /\ phase' = [phase EXCEPT ![c] = "idle"]
  /\ Forget(c)
  /\ UNCHANGED <<catalog, today, edits>>

(* The run's process dies before it applied its update.                    *)
Die(c) ==
  /\ phase[c] = "crawling"
  /\ phase' = [phase EXCEPT ![c] = "idle"]
  /\ Forget(c)
  /\ UNCHANGED <<file, catalog, today, edits>>

(* A reviewed commit to the trusted inventory (outside the discovery).     *)
EditCatalog(u, ctxs) ==
  /\ edits < MaxEdits
  /\ edits' = edits + 1
  /\ catalog' = [catalog EXCEPT
        !.listed = IF u \in @ /\ ctxs = {} THEN @ \ {u} ELSE @ \cup {u},
        !.contexts[u] = ctxs]
  /\ UNCHANGED <<file, today, phase, on, inventory, original, proposed, queue>>

Midnight ==
  /\ today < LastDay
  /\ today' = today + 1
  /\ UNCHANGED <<file, catalog, edits, phase, on, inventory, original,
                 proposed, queue>>

ClientNext(c) ==
  \/ Begin(c)
  \/ Apply(c)
  \/ Die(c)
  \/ \E u \in Urls : \/ CrawlFails(c, u)
                     \/ \E page \in Pages : \/ CrawlUnchanged(c, u, page)
                                            \/ CrawlChanged(c, u, page)

Next ==
  \/ \E c \in Clients : ClientNext(c)
  \/ \E u \in Urls, ctxs \in SUBSET Contexts : EditCatalog(u, ctxs)
  \/ Midnight

Spec == Init /\ [][Next]_vars

-----------------------------------------------------------------------------
(* Types, and the validators of the document: what is on disk loads again, *)
(* and no update under preparation is one whose validation would raise and *)
(* lose the run's crawl.                                                   *)
TypeOK ==
  /\ file \in Document /\ ValidDocument(file)
  /\ catalog \in Catalog
  /\ today \in 0 .. LastDay /\ edits \in 0 .. MaxEdits
  /\ phase \in [Clients -> {"idle", "crawling"}]
  /\ on \in [Clients -> 0 .. LastDay]
  /\ inventory \in [Clients -> Catalog]
  /\ original \in [Clients -> Document]
  /\ proposed \in [Clients -> Document]
  /\ queue \in [Clients -> SUBSET Urls]
  /\ \A c \in Clients : ValidDocument(proposed[c])

(* Only what a listed source was found to say expands a query: an active   *)
(* association has a listed and refreshed source, with a decision for the  *)
(* term that is accepted and itself active, in a context it was seen in.   *)
ActiveIsSupported ==
  \A t \in Terms, u \in Urls :
    file.assoc[t][u] = "active" =>
      LET s == file.src[u] IN
      /\ s.status = "active" /\ s.successful # Never
      /\ t \in s.seen /\ s.decided[t] = "accepted"

(* docs/inventory-curator.md 113-117: an update replaces exactly the       *)
(* document it was prepared from, and increments its revision once.        *)
NotOvertaken ==
  [][file' # file => /\ file'.revision = file.revision + 1
                     /\ file'.updated >= file.updated
                     /\ \E c \in Clients : /\ original[c] = file
                                           /\ phase[c] = "crawling"
                                           /\ phase'[c] = "idle"]_vars

(* docs/inventory-curator.md 117-118: prior decisions are reused; no run   *)
(* flips or forgets what the classifier once decided about a source.       *)
DecisionsStand ==
  [][\A u \in Urls, t \in Terms :
        file.src[u].decided[t] # "none" =>
          file'.src[u].decided[t] = file.src[u].decided[t]]_vars

(* Nothing on record is deleted: sources, associations and contexts are    *)
(* only added or made inactive, also when the inventory drops a URL or     *)
(* moves it to another context.                                            *)
HistoryKept ==
  [][\A t \in Terms :
        /\ file.contexts[t] \subseteq file'.contexts[t]
        /\ \A u \in Urls :
             /\ file.src[u].status # "unknown" =>
                  file'.src[u].status # "unknown"
             /\ file.assoc[t][u] # "none" => file'.assoc[t][u] # "none"]_vars

(* An active association is given up only when the inventory dropped its   *)
(* source or the source's page changed: an access gap, an unchanged page   *)
(* and the refresh of another source preserve it.                          *)
LostWithReason ==
  [][\A t \in Terms, u \in Urls :
        file.assoc[t][u] = "active" /\ file'.assoc[t][u] # "active" =>
          \/ file'.src[u].status = "orphaned"
          \/ file'.src[u].page # file.src[u].page]_vars

(* vocabulary_store.py, VocabularyWording: "active and historical inactive *)
(* source associations".  Does not hold: a term whose accepted decision is *)
(* active can have an inactive association with the same source.           *)
InactiveIsHistorical ==
  \A t \in Terms, u \in Urls :
    file.assoc[t][u] = "inactive" =>
      ~(t \in file.src[u].seen /\ file.src[u].decided[t] = "accepted")
=============================================================================
