# A TLA+ model of HistGerm's research workflow

HistGerm is a Python package with a small read-only part (a catalog of
historical German corpora, tools and dictionaries, loaded from YAML) and a large
stateful part, `src/histgerm/research`, with which a curator or an agent looks
for further resources. This directory models the stateful part: what several
processes do to the same three files, what a discovery run does to providers that
answer as they like, and what a page can make the two page loaders do.

Paths below are relative to the package, `src/histgerm/`, unless they start with
`docs/` or `tests/`. `PROJECT.json` maps each definition to the lines it models.

## 1. The system

| Part | State it keeps | Operations | Talks to |
|---|---|---|---|
| `research/_persistence.py` | a lock file, a temporary, the target file | bounded lock, durable temporary, atomic replace | the stores |
| `research/journal_store.py`, `run_journal.py` | one append-only `*.journal.jsonl` per run | append, compact, status, validate | persistence, adapters, command line |
| `research/journal_adapters.py` | none between calls | project a finished run to events, append the stream, reduce for parity | journal store, discovery run |
| `research/ledger.py`, `models.py` | sweeps, passes and candidates in one YAML file with a revision | initialize, record a pass, upsert a candidate, apply a research result | persistence, command line |
| `research/vocabulary_store.py`, `inventory_vocabulary.py` | sources, decisions and terms in one YAML file with a revision | reconcile with the inventory, select, mark a gap, apply | persistence, discovery run |
| `research/discovery_orchestration.py` | the run: executed requests, assessments, leads; a memo that outlives it | elicitation; the vocabulary phase; initial, follow-up, exclusion and recall phases | model, providers, crawler, classifier, vocabulary, memo |
| `research/search_providers.py` | the pages of one execution | assess a response, follow cursors, say why it stopped | providers |
| `research/crawl4ai_adapter.py` | the render's counters, permissions and route errors; a cache | render one URL | a browser whose requests call back in threads |
| `research/controlled_browser.py` | per fetch: policies and clocks of origins, session bytes | fetch with robots.txt, delays, limits | a browser that calls back synchronously |
| `research/fetching.py` | none | bounded GET with redirects | servers |
| `research/elicitation.py` | per call: leads with their names, metrics; none between runs | ask a model for names, retry, quarantine, merge | a model |
| queries, intents, metrics, protocol, session, runtime, command line, catalog, scripts | none worth a model | text, tables, digests, arguments, reading data | |

What is hard in it:

- **Concurrency.** Coordinators and workers share the three files; each decides
  from what it read earlier. A render's requests run in threads that share a gate
  and outlive a timeout.
- **Crashes, lost answers, retries.** A process may die at any step of a write; a
  caller that hears nothing repeats its request; an interrupted run is repeated
  from its start.
- **Ordering over long times.** A vocabulary is prepared during a crawl that takes
  minutes; a sweep is completed by passes recorded on different days; the
  inventory changes between the runs.
- **Outsiders.** Providers repeat pages and cursors; pages redirect and navigate;
  robots files redirect and ask for delays; the classifier and the model say what
  they like: malformed candidates among valid ones, names that join earlier leads.

What makes it correct, by part: no lost or torn update, and every call ends
(persistence); what was confirmed stays, and the file can be read (journal); a sweep
is complete exactly when it has earned it, and stays settled (ledger); nothing on
record is lost, and a term is in use only while a listed page supports it
(vocabulary); no request is repeated, an interrupted run is retraced, nothing is
called exhaustive that is not (discovery run); no name the model gave is lost or
asked for again (elicitation); limits hold, a result is one
document's, a page's requests keep to plainly written robots rules and to the delay,
everything ends (retrieval). The hazards behind
these are listed in `PROJECT.json`, each at its line, with the properties that
would notice it, or why none does.

## 2. Modules

```
RevisionedFile  <--implements--  Persistence  <--  PersistenceProofs
      (one locked call is one atomic step: what the three stores below rely on)
Subsequences, JournalStore  <--  JournalStream  <--  JournalProofs
Ledger        <--  LedgerProofs
Vocabulary    <--  VocabularyProofs
Subsequences  <--  SequenceLemmas  <--  JournalProofs, ElicitationProofs
Subsequences  <--  Elicitation  <--  ElicitationProofs  <--\
Elicitation, Pagination  <--  DiscoveryRun  <--  DiscoveryRunProofs
Robots  <--  ControlledBrowser  <--\
             PageRender         <--  Retrieval  <--  RetrievalProofs
```

- **`RevisionedFile`** is the abstract specification: a file is the sequence of
  accepted updates; a call atomically appends one when the caller's revision is
  the current one.
- **`Persistence`** is the protocol of `_persistence.py` as the stores drive it,
  step by step: `Start`, `Acquire`/`Expire` (flock and its deadline), `LoadAndCheck`,
  `Reject`, `CreateTemporary`, `WriteTemporary`/`WriteFails`, `Replace`/`ReplaceFails`,
  `Answer`, and `Crash` between any two. `pc`, `loaded`, `temp`, `onDisk` are where a
  call is and what it holds; `orphans` are temporaries of dead processes; `acked` is
  a history variable. `ImplementsRevisionedFile` maps `pc` to the abstract status.
- **`JournalStore`**: `lines` is the journal, `torn` an incomplete last line.
  `AppendEvent` has the checks of `append_event` in their order (run, stated
  sequence, idempotence, gap, first event), `CompactJournal` those of
  `compact_journal`; `Readable` is `_validate_integrity`. Requests and answers
  travel; an answer may be lost and the request sent again.
- **`JournalStream`** adds `discovery_run_events` (a projection of a finished run),
  the append loop of `append_discovery_journal`, its interruption and repetition, an
  operator's compaction, midnight, `replay_journal`, and the two parity reductions.
- **`Ledger`**: the four mutations with all validators of `models.py`, and clients
  that read, decide, send, lose the answer and send again.
- **`Vocabulary`**: the document with its validators, the vocabulary phase of a
  discovery run (`Begin` loads, reconciles and selects; `CrawlFails`,
  `CrawlUnchanged`, `CrawlChanged` handle one page; `Apply` replaces), catalog edits,
  midnight, and death at any step.
- **`Elicitation`** is `elicit_candidates`, one action per step: the broad prompt and
  the follow-ups with their exclusions (`Broad`, `FollowUp`, `TooManyNames`), the answer,
  its one retry or its quarantine (`Answer`, `Retry`, `AnswerRetry`, `Block`,
  `CallFails`), and `_add_output_leads` candidate by candidate: `Pass` over malformed
  and known ones, `Add` a lead, or `Merge` into the first lead that shares a name while
  the other such leads are emptied. `excluded` and `accepted` are history variables.
- **`Pagination`** and **`DiscoveryRun`**: one execution of a request with every stop
  reason of `assess_paginated_search`; around it the phases of `run_discovery`. The run
  extends `Elicitation` (`Eliciting`, `Abandon`) and takes its vocabulary either from
  the memo or from a phase whose result another run may have changed meanwhile (`Begin`,
  `VocabularyFails`); `Initial`, `Formulations` and `Recall` depend on it. Names of the
  inventory, of the model and of the leads are put into the exclusion groups
  of the weak phase. `memo` and `kept` outlive an interruption, after which the run
  starts over; what was elicited does not.
- **`PageRender`**: `Crawl4AIAdapter.render` with `NetworkGate.handle` in threads:
  the tests before the lock, the request under it, the answer back in the event
  loop, redirects, the timeout that leaves threads behind, the reading of address
  and content, the mapping and the closing. **`Robots`** and **`ControlledBrowser`**:
  the choice of groups, the path as it is asked for and unquoted, rule precedence,
  robots retrieval with its redirects and refusals, delays, session bytes. A path is a
  sequence of pieces, each under some levels of percent encoding: `permits` takes one
  level off the path (`Target`) and none off the rules. **`Retrieval`** composes them with the redirect loop of
  `fetch_public_metadata` and the choice of the browser.
- **`Subsequences`** has the two kinds of subsequences that these modules take of a list.
- **`MC…`** modules and `.cfg` files give the constants values. Operators marked
  "Mutant" are wrong variants of a definition, kept to show that the properties would
  notice them; no specification uses them.

The stores' modules do not repeat the lock protocol: `Persistence` shows, and
`PersistenceProofs` proves, that a locked call is one atomic step.

## 3. What the runs show

| Run | Instance | Shows |
|---|---|---|
| `persistence` | 2 processes, 2 updates, calls up to revision 2 | mutual exclusion, acknowledged updates stay, no update lost, torn or doubled, every call ends, the protocol implements `RevisionedFile` |
| `journal` | 2 clients, 2 runs, 3 events, 1 torn tail | always readable, confirmed events stay, append-only, a verbatim retry is no conflict |
| `journal_stream` | 2 writers of one stream, 1 interruption, 1 compaction, 1 midnight, 3 finished runs | the journal is a prefix of the stream; a recorded stream can be read, and what replay computes from it (queries, gaps, counters, parameters, completion, checkpoint) is what the result says; a writer is refused only for a reason, and finishes |
| `ledger` | 2 clients, 1 cell, 2 candidates, 4 pass identifiers, 2 days, 3 mutations | completion is earned and final, complete sweeps stay settled, history is kept, no decision lands on another ledger |
| `vocabulary` | 2 runs, 1 URL, 1 term, 2 contexts, 2 pages, 1 midnight, 2 catalog edits, 3 revisions | valid documents, supported terms, history and decisions kept, terms lost only with a reason, no overwriting |
| `discovery_run` | 3 responses of the model, 2 iterations, 2 vocabularies, a paginated and an unpaginated channel, 2 pages per search, 1 follow-up, 2 exclusion groups of 2 names, 1 interruption | every name held once, follow-up prompts exclude all names accepted, no request asked twice and no record of another one, an interrupted run retraced, leads agree, what a phase plans is queried or its limit reported, exhaustion earned, the run ends |
| `retrieval` | 2 threads, 2 URLs, 3 resources, 2 bytes; 2 origins, 4 paths, 2 robots files, 1 robots redirect, delays up to 2 | limits, one document, a page's requests keep to plain robots rules and to the delay, everything ends |

Five runs check a statement of the documentation or of the code that the code does
not keep. TLC finds the counterexample:

1. `journal_second_start`: `append_event` looks at `run_started` only for an empty
   journal (`journal_store.py:198`). A second one is committed and confirmed, and the
   file cannot be read any more.
2. `journal_stated_retry`: with `--expected-last-sequence`, which the curator guide
   prescribes, the verbatim retry of an append whose answer was lost is refused
   (`journal_store.py:169` comes before the idempotence test).
3. `ledger_pending`: a candidate of a recorded complete pass can be put back to
   pending while its sweep is in progress (`docs/inventory-curator.md:71`).
4. `vocabulary_historical`: with a page in two contexts, the second context's
   reconciliation deactivates an association the first found active
   (`discovery_orchestration.py:1115`).
5. `discovery_limits`: metadata terms beyond the eighth are dropped and no completion
   gap says so (`discovery_orchestration.py:1538`).

Two more observations, without a run. `docs/inventory-curator.md:363-369` requires
robots.txt to be evaluated before every request of Crawl4AI, and
`_DisabledRuntimeRobotsParser` (`crawl4ai_adapter.py:685`) says the gate owns that
policy. `NetworkGate.handle` evaluates none, so `PageRender` has no robots state;
`Courteous` is stated of the controlled browser only.

And `_RobotsPolicy.permits` unquotes the path that is asked for but not the path of a
rule (`controlled_browser.py:152`, 136): a published `Disallow: /%7Ejoe` does not stop
a request for `/%7Ejoe/x`. The model does the same (`Target`, `Matching`). No document or test of
the repository speaks of such rules, so nothing it says is contradicted, but `Courteous` holds
only of files whose rules are written without escapes (`WrittenPlainly`); for these it
holds however a page spells its path. Its meaning of the rules (`Forbids`) is stated
apart from the code's operators. It is about the page's requests: those for robots.txt
and their redirects are made before there is a policy, are neither delayed nor
counted as the origin's last request, and are not covered.

### Why the bounds are enough

- Two processes show every race of two writers; revision 2 allows a commit upon a
  commit, by the same process or the other. The proofs remove these bounds.
- Three journal events are a first, an ordinary one and a checkpoint, which may also
  be refused for lack of room; 12 are more than the longest stream and its checkpoints.
- Three ledger mutations after the file is created are the two passes of completion
  and a mutation of the complete sweep; four pass identifiers include one that belongs
  to no cell.
- Two contexts are needed for one term to be found in one and lost in another; two
  edits let a URL leave and come back; one midnight makes a source due. `MaxRevision`
  stops new runs, not one that has begun.
- The model answers with no list, with a malformed candidate beside two valid ones, and
  with four candidates (one past the limit) of which the first joins two earlier leads
  and another is known; two iterations let the second response meet the leads of the
  first, and three exclusions are enough or too few by what was named. Two vocabularies
  let a repeated run meet another document than the interrupted one.
- Two pages with a limit of one result reach every limit of a search; follow-ups
  repeat an initial request's text. A failing page, an empty one, one with a cursor
  and a last one are what a provider may answer at any time.
- Three resources and two bytes let each limit be reached first; two URLs give a
  redirect and a foreign navigation. A robots file has groups for everyone, for a
  shorter agent name and twice for the full one, so that choice and merging matter; one
  of these disallows a path, plainly in one file and with an escape in the other, and
  the other allows a longer path. A page asks for the path as it is and with an escape.

### Fairness

- `persistence`: each process goes on with a call it has started (weak fairness of
  `Progress`); the lock's poll loop has a deadline. Nobody has to start or die.
- `journal_stream`: each writer goes on and, when interrupted, is run again, as the
  documentation of `append_discovery_journal` has it.
- `discovery_run`: the run is one sequential program whose requests, to the model too,
  return or raise (weak fairness of `Step`). Interruptions are bounded, not fair.
- `retrieval`: threads are scheduled and the transport has a timeout (weak fairness of
  each thread's gate and answer steps); `goto`, `wait_for` and a handler end (weak
  fairness). The browser's `Finish` is strongly fair: `goto`'s timeout fires once the
  handler of the moment has returned, however often the page asks again.
- `journal`, `ledger` and `vocabulary` check safety only.

`CHECK_DEADLOCK FALSE` is set where the modelled program ends or its bounds end it:
the discovery run, the retrieval, and the vocabulary once its revisions and days are used up.

## 4. What is proved

TLAPS checks these for every value of the constants, from the named assumptions of
the modules (types of the parameters, distinct null values, natural bounds).

- **`PersistenceProofs`**: types, mutual exclusion, durability, no lost update and
  the refinement of `RevisionedFile`. The inductive invariant adds `LoadedIsCurrent`:
  what a call has loaded is the file until it replaces the file itself. Mutual
  exclusion alone is inductive but says nothing of contents; with `LoadedIsCurrent` a
  rename only ever extends the file, which gives durability and the refinement.
- **`JournalProofs`, the store**: types, readability, durability and append-only, for
  callers that append ordinary events after the first (`HonestCallers`). Readability is
  false otherwise, as `journal_second_start` shows. The invariant adds that only
  outstanding requests have answers on their way, and that a confirmation on its way
  is about a recorded event. The argument is that all checks of `Readable` are
  about prefixes, and a call only appends. That a retry is no conflict
  (`RetriesAreNoConflicts`) needs callers that state no expected sequence
  (`UnstatedCallers`); it is false otherwise, as `journal_stated_retry` shows.
- **`JournalProofs`, the stream**: the prefix property, and that running the helper
  again is refused only for a reason, for any number of writers, results and
  interruptions. The second needs `RoomForRun`: a stream and its checkpoint fit into the
  journal's limit, which the projection does not test. The journal is a prefix only while
  no checkpoint took a place in it, so that invariant (`StreamIInv`) is conditional: as
  long as nobody compacted before the stream was complete and the date is stable
  (`Undisturbed`), the file is readable, a prefix of the stream, and every writer appends
  the event its position asks for, at or before the end of the journal (`OnCourse`).
- **`JournalProofs`, parity**: `Parity` holds of disturbed journals too, and rests on
  another invariant, `Recording`: the lines are one projection of the run, of some day
  that has been, with a checkpoint at most as the last of them; what a writer has been
  confirmed is recorded as it projected it, and a writer that is done has found the
  checkpoint. So a second projection after midnight, whose first line differs, ends in a
  refusal and never in a mixture. A done writer then leaves exactly one projection
  and one checkpoint, and what both reductions and `replay_journal` compute of it follows
  by induction over the result's sequences. `StreamStaysReadable` says that the file can
  be read throughout, whoever writes to it.
- **`LedgerProofs`**: types, earned completion, settled complete sweeps, finality,
  history, no lost update. The invariant adds that a client overtaken by a commit
  expects an older revision, from which it follows that it is refused.
- **`VocabularyProofs`**: types with all validators, supported terms, decisions that
  stand, history, no overwriting, and that a term is lost only for a reason. Every
  operation on a document keeps it good and lets it only grow (`Grows`); `Prepared` says
  of each run in progress that its proposal grew out of the document it loaded, and, when
  nobody committed since, that this is the file. For the losses, `Reasoned` follows each
  association through a preparation: one that was active in the document loaded and is
  not in the proposal has lost its source to the catalog or its page to a change.
- **`ElicitationProofs`** and **`DiscoveryRunProofs`**: for any model, names and limits,
  every name of a valid candidate is in exactly one lead, no lead is known already, and
  a follow-up prompt excludes all of them. The invariant adds that leads are
  disjoint and that what is accepted is what the leads hold and what the candidates
  still to read will bring (`Accounted`). It is stated over the elicitation's variables
  alone, so that the run, whose every step is an elicitation step, a new call or a stutter
  there, takes it over. For the run itself:
  - types (`RunTypes` adds that a phase with requests has a vocabulary);
  - no request is executed twice, the memo answers a request with its own records only,
    and exhaustion is earned. The invariant adds that all that was assessed is in
    `executed`, that the pages of an execution in progress are without fault and differ
    (`Inspected`), and that what the memo holds under a key is that request's and earned
    (`Remembered`);
  - leads agree: each assessment adds to the leads what `leads_with_context` adds when
    it reaches that assessment (`LeadsStep`);
  - what a phase plans is queried or its limit reported: of each phase the invariant says
    what is still in `todo` of what is due in it, or has been executed (`PlanHeld`, `Due`);
  - an interrupted run is retraced: until the exclusion variants, the assessments of a
    run are those that the memo determines from its elicited names and first vocabulary,
    and a memo that grows changes none of them (`Repeats`, `Reaches`).
- **`RetrievalProofs`**: types and counters within their limits, metering, one
  document, for any number of threads and requests; page requests keep to the rules of
  robots.txt that are written without escapes and to its delay, for any origins, such
  rules, spellings of a path and delays (`PermittedIsNotForbidden` relates the code's
  choice among raw rules to what they mean). The invariant adds that only the holder of the lock has a request in the
  transport, and that its answer fits (`Sent`); that delivered and pending answers are
  disjoint parts of the bytes counted (`Delivery`); that at most one navigation is under
  way, for the one URL allowed, and none once a document is shown (`Navigation`); and
  that the policy held of an origin is what it publishes, the time since the page's last
  request there never overestimated (`Informed`).

**Ends.** Liveness needs fairness and ENABLED, which the prover has not, so
`EveryCallEnds`, `StreamRecorded`, `Terminates` and `RetrievalEnds` are model-checked
only. Of the first three the part that needs no fairness is proved, for all values of the
constants: a measure in the natural numbers, or in words of naturals in the order of
words, gets smaller with each step of the process concerned, and nothing others do
sets it back, interruptions apart, which are bounded (`CallsGetOn`, `WritersGetOn`,
`ElicitationGetsOn`, `RunGetsOn`). What is left to TLC is that such a process can always take a step.
`EndedRunsAreWhole` is the rest of `StreamRecorded`: writers that ended undisturbed all
succeeded, and the file is the whole run and one checkpoint.

**Sequences.** `Subsequences` has the sequences that the models take from a list, by
places (`AtPlaces`) and by first occurrence (`Distinct`); the definition of the library's
`SelectSeq` cannot be expanded in a proof. `SequenceLemmas` says what these and
`FlattenSeq` compute. Its inductions are about sets of numbers and of sequences and not
about operators, which no prover here can instantiate: the set of the lengths for
which a statement holds contains 0 and with each number the next.

Not proved, and model-checked only: the liveness properties, as above, and the five
counterexamples, which are behaviours of one instance.

The modules that are proved about use no RECURSIVE operator.

## 5. Abstractions, and what is not modelled

- **Stores.** Updates, payloads and identifiers are model values; YAML and JSON syntax,
  URL rules and path tests are left out. Death is that of a process; what a power
  failure leaves of an unflushed directory is not modelled.
- **Vocabulary.** A term has one wording. A page is the set of candidates found on it in
  each context, and equal pages have equal digests; extraction and candidate generation
  are left out. The classifier decides arbitrarily or fails. Dates do not go back. The
  document has no size limit.
- **Elicitation.** Names are normalized already (case, blanks, width), a response is a
  list of candidates or it is not, prompts have no text; counters of what was cut off
  are left out. The model is external and may answer anything at any time.
- **Discovery run.** What the vocabulary phase does to its document is module
  `Vocabulary`; here it results in one of `Vocabularies` or fails. The legacy vocabulary
  that `mine_inventory_vocabulary` builds in memory when no document is configured is
  left out. A query is its rendered text; texts that are equal when case-folded are one text, although the memo's
  key keeps the case. The required families of tool queries and the coverage counters are
  left out. `DiscoveryMemo` is a protocol that no class of the package implements; the
  model keeps what it promises: it returns what it confirmed.
- **Pagination.** Real configurations always include channels without pagination, and
  the runtime passes page state on for one provider only, so a real run is never
  complete today; the model leaves this to the constants.
- **Retrieval.** Bodies are sizes. The browsers are external: they begin with the page's
  navigation and, once a document is shown, request and navigate as they like. Optional
  resource types that are aborted without an error, pruning of the cache (and the race of
  two processes that prune one directory) and the version test are left out; of robots
  rules and paths, wildcards, the `$` anchor, queries, escapes of what structures a URL
  (`%2F`, `%3F`) and an empty `Allow`.
- **Not modelled.** The command line, which is one store
  operation per process; the catalog, loading, validation, README generation, which read
  immutable data once; query text, intents, digests and metrics, which keep no state.

## 6. Plan

1. Pruning of the render cache: age and size, several processes on one directory.
2. The required families of tool queries and the coverage counters of a run, with
   what a completion gap promises of them.
3. A measure for the handlers and redirects of one retrieval, towards `RetrievalEnds`;
   the page itself may ask without end.
4. Larger instances of the ledger (two cells) and of the vocabulary (two URLs), as far
   as they can be exhausted.
