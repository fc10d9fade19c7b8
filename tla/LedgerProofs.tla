---------------------------- MODULE LedgerProofs ----------------------------
(***************************************************************************)
(* Proofs about module Ledger for every set of clients, cells, candidates, *)
(* passes and dates and every bound on the revision.                       *)
(***************************************************************************)
EXTENDS Ledger, TLAPS

(* Whoever has been overtaken by a commit expects an older revision.       *)
OvertakenIsBehind ==
  \A c \in Clients :
     expected[c] # Unread /\ overtaken[c] => expected[c] < revision

(* Before the file is created nothing is recorded.                         *)
NothingBefore == revision = -1 => sweeps = [x \in Cells |-> NewSweep]

IInv ==
  /\ TypeOK
  /\ NothingBefore
  /\ OvertakenIsBehind
  /\ CompletionEarned
  /\ CompleteSweepsSettled

-----------------------------------------------------------------------------
(* The values that the operations compute.                                 *)

LEMMA TrailingEmptyIsTwo ==
  ASSUME NEW passes \in Seq(Pass)
  PROVE  LET n == Len(passes) IN
         /\ TrailingEmpty(passes) \in 0 .. 2
         /\ TrailingEmpty(passes) = 2 <=>
              n >= 2 /\ \A i \in {n - 1, n} :
                           passes[i].complete /\ passes[i].new = {}
  <1> DEFINE n == Len(passes)
  <1>1. n \in Nat
    OBVIOUS
  <1>2. CASE n > 1
    <2>1. \A i \in {n - 1, n} : EmptyPass(passes[i]) <=>
            passes[i].complete /\ passes[i].new = {}
      BY DEF EmptyPass
    <2> QED
      BY <1>1, <1>2, <2>1 DEF TrailingEmpty
  <1>3. CASE ~(n > 1)
    BY <1>1, <1>3 DEF TrailingEmpty
  <1> QED
    BY <1>2, <1>3

LEMMA SweepWithType ==
  ASSUME NEW s \in Sweep, NEW p \in Pass
  PROVE  /\ SweepWith(s, p) \in Sweep
         /\ SweepWith(s, p).passes = Append(s.passes, p)
         /\ SweepWith(s, p).state = "complete" <=>
              TrailingEmpty(Append(s.passes, p)) = 2
  <1> DEFINE passes == Append(s.passes, p)
             k == TrailingEmpty(passes)
  <1>1. passes \in Seq(Pass)
    BY DEF Sweep
  <1>2. k \in 0 .. 2
    BY <1>1, TrailingEmptyIsTwo
  <1>3. SweepWith(s, p) =
          [state |-> IF k = 2 THEN "complete" ELSE "in_progress",
           empties |-> k, passes |-> passes]
    BY DEF SweepWith
  <1> HIDE DEF passes, k
  <1>4. SweepWith(s, p) \in Sweep
    BY <1>1, <1>2, <1>3 DEF Sweep, States
  <1> QED
    BY <1>3, <1>4 DEF passes, k

LEMMA NoEntryType == NoEntry \in Entry /\ ~Exists(NoEntry)
  <1>1. /\ (CHOOSE k \in Categories : TRUE) \in Categories
        /\ (CHOOSE d \in Days : TRUE) \in Days
    BY CellsAssumption, BoundsAssumption
  <1> QED
    BY <1>1 DEF NoEntry, Entry, Dispositions, Exists

LEMMA ResearchedType ==
  ASSUME NEW e \in Entry, NEW r \in Result
  PROVE  /\ Researched(e, r) \in Entry /\ Exists(Researched(e, r))
         /\ Researched(e, r).category = e.category
  <1> DEFINE resource == CASE r.disposition = "added"     -> r.proposed
                           [] r.disposition = "duplicate" -> r.matched
                           [] OTHER                       -> NoResource
             refreshed == /\ r.disposition = "duplicate"
                          /\ e.refreshed \/ r.proposed # NoResource
  <1>1. resource \in Resources \cup {NoResource}
    BY DEF Result
  <1>2. Later(e.checked, r.on) \in Days
    <2>1. e.checked \in Days /\ r.on \in Days \cup {0}
      BY DEF Entry, Result
    <2>2. e.checked \in Nat \ {0}
      BY <2>1, BoundsAssumption
    <2> QED
      BY <2>1, <2>2 DEF Later
  <1>3. refreshed \in BOOLEAN
    OBVIOUS
  <1>4. /\ e.category \in Categories
        /\ r.disposition \in Dispositions /\ r.disposition # "absent"
    BY DEF Entry, Result, Dispositions, FinalDispositions
  <1>5. Researched(e, r) =
          [category |-> e.category, disposition |-> r.disposition,
           resource |-> resource, checked |-> Later(e.checked, r.on),
           refreshed |-> refreshed]
    BY DEF Researched
  <1> HIDE DEF resource, refreshed
  <1> QED
    BY <1>1, <1>2, <1>3, <1>4, <1>5 DEF Entry, Exists

-----------------------------------------------------------------------------
(* What a step of the system may do to the ledger.                         *)

Earned(s) ==
  LET n == Len(s.passes) IN
  s.state = "complete" <=>
    n >= 2 /\ \A i \in {n - 1, n} : s.passes[i].complete
                                    /\ s.passes[i].new = {}

(* The sweeps of a commit: as they were, or one pass more in one of them,  *)
(* which is not complete.                                                  *)
OnePassMore(sw) ==
  \/ sw = sweeps
  \/ \E p \in Pass, x \in Cells :
       /\ sweeps[x].state # "complete"
       /\ sw = [sweeps EXCEPT ![x] = SweepWith(sweeps[x], p)]

(* The candidates of a commit: as they were, or one entry written.         *)
OneEntryWritten(ca) ==
  \/ ca = candidates
  \/ \E id \in CandidateIds, e \in Entry :
       Exists(e) /\ ca = [candidates EXCEPT ![id] = e]

(* A commit that c's expected revision allows.                             *)
Committed(c) ==
  /\ expected[c] = revision /\ expected[c] # Unread /\ revision < MaxRevision
  /\ \E on \in Days : updatedOn' = Later(updatedOn, on)
  /\ revision' = revision + 1
  /\ OnePassMore(sweeps') /\ OneEntryWritten(candidates')
  /\ ValidLedger(sweeps', candidates')
  /\ outcome' = [outcome EXCEPT ![c] = "committed"]
  /\ overtaken' = [d \in Clients |-> TRUE]
  /\ expected' = expected

(* A step in which c only gets an answer.                                  *)
Answered(c) ==
  /\ \E o \in {"stale", "refused", "failed"} :
       outcome' = [outcome EXCEPT ![c] = o]
  /\ UNCHANGED <<ledger, expected, overtaken>>

LEMMA CommitOrRefuse ==
  ASSUME NEW c \in Clients, Locked(c), NEW sw, NEW ca, NEW on \in Days,
         OnePassMore(sw), OneEntryWritten(ca), Commit(c, sw, ca, on)
  PROVE  Committed(c) \/ Answered(c)
  <1>1. CASE ValidLedger(sw, ca)
    <2>1. /\ revision' = expected[c] + 1
          /\ updatedOn' = Later(updatedOn, on)
          /\ sweeps' = sw /\ candidates' = ca
          /\ outcome' = [outcome EXCEPT ![c] = "committed"]
          /\ overtaken' = [d \in Clients |-> TRUE]
          /\ expected' = expected
      BY <1>1 DEF Commit, Answer
    <2>2. /\ expected[c] = revision /\ expected[c] # Unread
          /\ revision < MaxRevision
      BY DEF Locked, Sent, RevisionMatches
    <2>3. ValidLedger(sweeps', candidates')
      BY <1>1, <2>1
    <2>4. OnePassMore(sweeps') /\ OneEntryWritten(candidates')
      BY <2>1
    <2> QED
      BY <2>1, <2>2, <2>3, <2>4 DEF Committed
  <1>2. CASE ~ValidLedger(sw, ca)
    BY <1>2 DEF Commit, Refuse, Answer, Answered
  <1> QED
    BY <1>1, <1>2

LEMMA MutationShape ==
  ASSUME TypeOK, NEW c \in Clients,
         RecordSearchPass(c) \/ UpsertCandidate(c) \/ ApplyResearchResult(c)
  PROVE  Committed(c) \/ Answered(c)
  <1>1. ASSUME Refuse(c, "refused") PROVE Answered(c)
    BY <1>1 DEF Refuse, Answer, Answered
  <1>2. CASE RecordSearchPass(c)
    <2>1. PICK p \in Pass :
            \/ Refuse(c, "refused")
            \/ /\ Admissible(p)
               /\ LET cell  == PassCell[p.id]
                      sweep == SweepWith(sweeps[cell], p) IN
                  IF ValidSweep(sweep)
                  THEN Commit(c, [sweeps EXCEPT ![cell] = sweep],
                              candidates, p.on)
                  ELSE Refuse(c, "refused")
      BY <1>2 DEF RecordSearchPass
    <2> DEFINE cell == PassCell[p.id]
               sw == [sweeps EXCEPT ![cell] = SweepWith(sweeps[cell], p)]
    <2>2. CASE Admissible(p) /\ Commit(c, sw, candidates, p.on)
      <3>1. p.id \in PassIds /\ p.on \in Days
        BY DEF Pass
      <3>2. cell \in Cells /\ sweeps[cell].state # "complete"
        BY <2>2, <3>1, CellsAssumption DEF Admissible
      <3>3. OnePassMore(sw)
        BY <3>2 DEF OnePassMore
      <3>4. OneEntryWritten(candidates)
        BY DEF OneEntryWritten
      <3>5. Locked(c)
        BY <1>2 DEF RecordSearchPass
      <3> HIDE DEF sw, cell
      <3> QED
        BY <2>2, <3>1, <3>3, <3>4, <3>5, CommitOrRefuse
    <2> QED
      BY <1>1, <2>1, <2>2
  <1>3. CASE UpsertCandidate(c)
    <2>1. PICK id \in CandidateIds, e \in Entry :
            /\ e.disposition \in Verdicts
            /\ Commit(c, sweeps, [candidates EXCEPT ![id] = e], e.checked)
      BY <1>3 DEF UpsertCandidate
    <2>2. Exists(e)
      BY <2>1, BoundsAssumption DEF Exists, FinalDispositions
    <2>3. e.checked \in Days /\ OnePassMore(sweeps)
      BY DEF Entry, OnePassMore
    <2>4. OneEntryWritten([candidates EXCEPT ![id] = e])
      BY <2>2 DEF OneEntryWritten
    <2>5. Locked(c)
      BY <1>3 DEF UpsertCandidate
    <2> QED
      BY <2>1, <2>3, <2>4, <2>5, CommitOrRefuse
  <1>4. CASE ApplyResearchResult(c)
    <2>1. PICK id \in CandidateIds, r \in Result :
            LET e == Researched(candidates[id], r) IN
            \/ Refuse(c, "refused")
            \/ Commit(c, sweeps, [candidates EXCEPT ![id] = e], e.checked)
      BY <1>4 DEF ApplyResearchResult
    <2> DEFINE e == Researched(candidates[id], r)
    <2>2. CASE Commit(c, sweeps, [candidates EXCEPT ![id] = e], e.checked)
      <3>1. e \in Entry /\ Exists(e)
        BY ResearchedType DEF TypeOK
      <3> HIDE DEF e
      <3>2. e.checked \in Days /\ OnePassMore(sweeps)
        BY <3>1 DEF Entry, OnePassMore
      <3>3. OneEntryWritten([candidates EXCEPT ![id] = e])
        BY <3>1 DEF OneEntryWritten
      <3>4. Locked(c)
        BY <1>4 DEF ApplyResearchResult
      <3> QED
        BY <2>2, <3>2, <3>3, <3>4, CommitOrRefuse
    <2> QED
      BY <1>1, <2>1, <2>2
  <1> QED
    BY <1>2, <1>3, <1>4

-----------------------------------------------------------------------------
(* The invariant is inductive.                                             *)

LEMMA InitIInv == Init => IInv
  <1> SUFFICES ASSUME Init PROVE IInv
    OBVIOUS
  <1>1. NewSweep \in Sweep
    BY DEF NewSweep, Sweep, States
  <1>2. TypeOK
    <2>1. /\ sweeps \in [Cells -> Sweep]
          /\ candidates \in [CandidateIds -> Entry]
      BY <1>1, NoEntryType DEF Init
    <2>2. /\ expected \in [Clients -> Int]
          /\ \A c \in Clients : expected[c] \in Unread .. revision
      BY DEF Init, Unread
    <2>3. revision \in -1 .. MaxRevision /\ updatedOn \in Days \cup {0}
      BY BoundsAssumption DEF Init
    <2>4. outcome \in [Clients ->
                         {"none", "committed", "stale", "refused", "failed"}]
          /\ overtaken \in [Clients -> BOOLEAN]
      BY DEF Init
    <2> QED
      BY <2>1, <2>2, <2>3, <2>4 DEF TypeOK
  <1>3. OvertakenIsBehind /\ NothingBefore
    BY DEF Init, OvertakenIsBehind, NothingBefore
  <1>4. CompletionEarned /\ CompleteSweepsSettled
    BY DEF Init, CompletionEarned, CompleteSweepsSettled, NewSweep,
           Encountered
  <1> QED
    BY <1>2, <1>3, <1>4 DEF IInv

LEMMA CommittedKeepsIInv ==
  ASSUME IInv, NEW c \in Clients, Committed(c)
  PROVE  IInv'
  <1>1. /\ revision \in -1 .. MaxRevision /\ revision < MaxRevision
        /\ revision' = revision + 1 /\ MaxRevision \in Nat
    BY BoundsAssumption DEF IInv, TypeOK, Committed
  <1>2. sweeps' \in [Cells -> Sweep]
    BY SweepWithType DEF IInv, TypeOK, Committed, OnePassMore
  <1>3. candidates' \in [CandidateIds -> Entry]
    BY DEF IInv, TypeOK, Committed, OneEntryWritten
  <1>4. /\ expected' \in [Clients -> Int]
        /\ \A d \in Clients : expected'[d] \in Unread .. revision'
        /\ \A d \in Clients : expected'[d] < revision'
    BY <1>1 DEF IInv, TypeOK, Committed, Unread
  <1>5. TypeOK'
    <2>1. updatedOn' \in Days \cup {0}
      BY DEF IInv, TypeOK, Committed, Later
    <2>2. outcome' \in [Clients ->
                          {"none", "committed", "stale", "refused", "failed"}]
          /\ overtaken' \in [Clients -> BOOLEAN]
      BY DEF IInv, TypeOK, Committed
    <2>3. revision' \in -1 .. MaxRevision
      BY <1>1
    <2> QED
      BY <1>2, <1>3, <1>4, <2>1, <2>2, <2>3 DEF TypeOK
  <1>6. OvertakenIsBehind' /\ NothingBefore'
    BY <1>1, <1>4 DEF OvertakenIsBehind, NothingBefore
  <1>7. CompletionEarned'
    <2>1. \A x \in Cells : Earned(sweeps[x])
      BY DEF IInv, CompletionEarned, Earned
    <2>2. \A x \in Cells : Earned(sweeps'[x])
      <3>1. CASE sweeps' = sweeps
        BY <2>1, <3>1
      <3>2. ASSUME NEW p \in Pass, NEW x \in Cells,
                   sweeps' = [sweeps EXCEPT ![x] = SweepWith(sweeps[x], p)]
            PROVE  \A y \in Cells : Earned(sweeps'[y])
        <4>1. sweeps[x] \in Sweep /\ Append(sweeps[x].passes, p) \in Seq(Pass)
          BY DEF IInv, TypeOK, Sweep
        <4>2. sweeps'[x] = SweepWith(sweeps[x], p)
          BY <3>2 DEF IInv, TypeOK
        <4>3. Earned(SweepWith(sweeps[x], p))
          BY <4>1, SweepWithType, TrailingEmptyIsTwo DEF Earned
        <4>4. \A y \in Cells \ {x} : sweeps'[y] = sweeps[y]
          BY <3>2 DEF IInv, TypeOK
        <4> QED
          BY <2>1, <4>2, <4>3, <4>4
      <3> QED
        BY <3>1, <3>2 DEF Committed, OnePassMore
    <2> QED
      BY <2>2 DEF CompletionEarned, Earned
  <1>8. CompleteSweepsSettled'
    BY DEF Committed, ValidLedger, CompleteSweepsSettled, Encountered,
           Exists, Settled
  <1> QED
    BY <1>5, <1>6, <1>7, <1>8 DEF IInv

(* A step that leaves the ledger alone.                                    *)
LEMMA QuietStepKeepsIInv ==
  ASSUME IInv, UNCHANGED ledger,
         outcome' \in [Clients ->
                         {"none", "committed", "stale", "refused", "failed"}],
         overtaken' \in [Clients -> BOOLEAN],
         expected' \in [Clients -> Int],
         \A d \in Clients : expected'[d] \in Unread .. revision,
         OvertakenIsBehind'
  PROVE  IInv'
  <1>1. UNCHANGED <<revision, updatedOn, sweeps, candidates>>
    BY DEF ledger
  <1>2. TypeOK' /\ NothingBefore'
    BY <1>1 DEF IInv, TypeOK, NothingBefore
  <1>3. CompletionEarned'
    BY <1>1 DEF IInv, CompletionEarned
  <1>4. CompleteSweepsSettled'
    BY <1>1 DEF IInv, CompleteSweepsSettled, Encountered, Exists, Settled
  <1> QED
    BY <1>2, <1>3, <1>4 DEF IInv

LEMMA AnsweredKeepsIInv ==
  ASSUME IInv, NEW c \in Clients, Answered(c)
  PROVE  IInv'
  <1>1. /\ UNCHANGED ledger /\ expected' = expected
        /\ overtaken' = overtaken /\ revision' = revision
    BY DEF Answered, ledger
  <1>2. outcome' \in [Clients ->
                        {"none", "committed", "stale", "refused", "failed"}]
    BY DEF Answered, IInv, TypeOK
  <1>3. OvertakenIsBehind'
    BY <1>1 DEF IInv, OvertakenIsBehind
  <1> QED
    BY <1>1, <1>2, <1>3, QuietStepKeepsIInv DEF IInv, TypeOK

(* The ledger that initialize_ledger creates.                              *)
Created ==
  /\ revision = -1 /\ revision' = 0
  /\ updatedOn' \in Days
  /\ candidates' \in [CandidateIds -> Entry]
  /\ sweeps' = [x \in Cells |-> NewSweep]
  /\ expected' = expected /\ overtaken' = overtaken
  /\ \E c \in Clients : outcome' = [outcome EXCEPT ![c] = "committed"]

LEMMA BootstrappedType ==
  ASSUME NEW on \in Days
  PROVE  Bootstrapped(on) \in [CandidateIds -> Entry]
  <1>1. ASSUME NEW id \in CandidateIds
        PROVE  (IF Inventory[id] = NoResource THEN NoEntry
                ELSE [category |-> ResourceCategory[Inventory[id]],
                      disposition |-> "added", resource |-> Inventory[id],
                      checked |-> on, refreshed |-> FALSE]) \in Entry
    <2>1. CASE Inventory[id] = NoResource
      BY <2>1, NoEntryType
    <2>2. CASE Inventory[id] # NoResource
      <3>1. Inventory[id] \in Resources
            /\ ResourceCategory[Inventory[id]] \in Categories
        BY <2>2, ResourcesAssumption
      <3> QED
        BY <2>2, <3>1 DEF Entry, Dispositions, FinalDispositions
    <2> QED
      BY <2>1, <2>2
  <1> QED
    BY <1>1 DEF Bootstrapped

LEMMA InitializeShape ==
  ASSUME NEW c \in Clients, InitializeLedger(c)
  PROVE  Created \/ Answered(c)
  <1>1. CASE revision # -1 /\ Answer(c, "failed") /\ UNCHANGED ledger
    BY <1>1 DEF InitializeLedger, Answered, Answer
  <1>2. CASE ~(revision # -1 /\ Answer(c, "failed") /\ UNCHANGED ledger)
    <2>1. /\ revision = -1 /\ revision' = 0
          /\ sweeps' = [x \in Cells |-> NewSweep]
          /\ expected' = expected /\ overtaken' = overtaken
          /\ outcome' = [outcome EXCEPT ![c] = "committed"]
      BY <1>2 DEF InitializeLedger, Answer
    <2>2. PICK on \in Days : /\ updatedOn' = on
                             /\ \E reviewed \in {d \in Days : d <= on} :
                                  candidates' = Bootstrapped(reviewed)
      BY <1>2 DEF InitializeLedger
    <2>3. candidates' \in [CandidateIds -> Entry]
      BY <2>2, BootstrappedType
    <2> QED
      BY <2>1, <2>2, <2>3 DEF Created
  <1> QED
    BY <1>1, <1>2

LEMMA CreatedKeepsIInv ==
  ASSUME IInv, Created
  PROVE  IInv'
  <1>1. NewSweep \in Sweep
    BY DEF NewSweep, Sweep, States
  <1>2. \A c \in Clients : expected'[c] = Unread /\ expected'[c] \in Int
    BY DEF Created, IInv, TypeOK, Unread
  <1>3. TypeOK'
    <2>1. revision' \in -1 .. MaxRevision /\ updatedOn' \in Days \cup {0}
      BY BoundsAssumption DEF Created
    <2>2. sweeps' \in [Cells -> Sweep]
      BY <1>1 DEF Created
    <2>3. /\ expected' \in [Clients -> Int]
          /\ \A c \in Clients : expected'[c] \in Unread .. revision'
      BY <1>2 DEF Created, IInv, TypeOK, Unread
    <2>4. /\ outcome' \in [Clients ->
               {"none", "committed", "stale", "refused", "failed"}]
          /\ overtaken' \in [Clients -> BOOLEAN]
      BY DEF Created, IInv, TypeOK
    <2> QED
      BY <2>1, <2>2, <2>3, <2>4 DEF Created, TypeOK
  <1>4. OvertakenIsBehind' /\ NothingBefore'
    BY <1>2 DEF Created, OvertakenIsBehind, NothingBefore
  <1>5. CompletionEarned' /\ CompleteSweepsSettled'
    BY DEF Created, CompletionEarned, CompleteSweepsSettled, NewSweep,
           Encountered
  <1> QED
    BY <1>3, <1>4, <1>5 DEF IInv

(* Every step is one of these.                                             *)
LEMMA StepShape ==
  ASSUME IInv, [Next]_vars
  PROVE  \/ Created
         \/ \E c \in Clients : Committed(c) \/ Answered(c)
         \/ \E c \in Clients : Read(c) \/ Finish(c) \/ Retry(c)
         \/ UNCHANGED vars
  <1>1. ASSUME NEW c \in Clients, Stale(c)
        PROVE  Answered(c)
    BY <1>1 DEF Stale, Refuse, Answer, Answered
  <1> QED
    BY <1>1, InitializeShape, MutationShape DEF IInv, Next

LEMMA StepKeepsIInv ==
  ASSUME IInv, [Next]_vars
  PROVE  IInv'
  <1>1. ASSUME NEW c \in Clients, Read(c)
        PROVE  IInv'
    <2>1. /\ UNCHANGED ledger /\ outcome' = outcome
          /\ revision' = revision /\ revision \in -1 .. MaxRevision
          /\ expected' = [expected EXCEPT ![c] = revision]
          /\ overtaken' = [overtaken EXCEPT ![c] = FALSE]
      BY <1>1 DEF Read, ledger, IInv, TypeOK
    <2>2. /\ expected' \in [Clients -> Int]
          /\ \A d \in Clients : expected'[d] \in Unread .. revision
          /\ overtaken' \in [Clients -> BOOLEAN]
      BY <2>1, BoundsAssumption DEF IInv, TypeOK, Unread
    <2>3. OvertakenIsBehind'
      BY <2>1 DEF IInv, TypeOK, OvertakenIsBehind
    <2> QED
      BY <2>1, <2>2, <2>3, QuietStepKeepsIInv DEF IInv, TypeOK
  <1>2. ASSUME NEW c \in Clients, Finish(c) \/ Retry(c)
        PROVE  IInv'
    <2>1. /\ UNCHANGED ledger /\ overtaken' = overtaken
          /\ revision' = revision /\ revision \in -1 .. MaxRevision
          /\ outcome' = [outcome EXCEPT ![c] = "none"]
          /\ \/ expected' = expected
             \/ expected' = [expected EXCEPT ![c] = Unread]
      BY <1>2 DEF Finish, Retry, Answer, ledger, IInv, TypeOK
    <2>2. /\ expected' \in [Clients -> Int]
          /\ \A d \in Clients : expected'[d] \in Unread .. revision
      BY <2>1, BoundsAssumption DEF IInv, TypeOK, Unread
    <2>3. OvertakenIsBehind'
      BY <2>1 DEF IInv, TypeOK, OvertakenIsBehind
    <2>4. outcome' \in [Clients ->
                          {"none", "committed", "stale", "refused", "failed"}]
      BY <2>1 DEF IInv, TypeOK
    <2> QED
      BY <2>1, <2>2, <2>3, <2>4, QuietStepKeepsIInv DEF IInv, TypeOK
  <1>3. CASE UNCHANGED vars
    <2>1. /\ UNCHANGED ledger
          /\ UNCHANGED <<revision, expected, outcome, overtaken>>
      BY <1>3 DEF vars, ledger
    <2>2. OvertakenIsBehind'
      BY <2>1 DEF IInv, OvertakenIsBehind
    <2> QED
      BY <2>1, <2>2, QuietStepKeepsIInv DEF IInv, TypeOK
  <1> QED
    BY <1>1, <1>2, <1>3, StepShape, CreatedKeepsIInv, CommittedKeepsIInv,
       AnsweredKeepsIInv

-----------------------------------------------------------------------------
(* The inductive invariant holds throughout every run.                     *)
THEOREM Invariance == Spec => []IInv
  <1>1. IInv /\ [Next]_vars => IInv'
    BY StepKeepsIInv
  <1> QED
    BY <1>1, InitIInv, PTL DEF Spec

(* The types; no client has read a revision that is not there yet.         *)
THEOREM TypeCorrect == Spec => []TypeOK
  <1>1. IInv => TypeOK
    BY DEF IInv
  <1> QED
    BY <1>1, Invariance, PTL

(* Candidates of a complete sweep keep a final disposition.                *)
THEOREM SettledSweeps == Spec => []CompleteSweepsSettled
  <1>1. IInv => CompleteSweepsSettled
    BY DEF IInv
  <1> QED
    BY <1>1, Invariance, PTL

(* A sweep is complete exactly after two empty complete passes in a row.   *)
THEOREM EarnedCompletion == Spec => []CompletionEarned
  <1>1. IInv => CompletionEarned
    BY DEF IInv
  <1> QED
    BY <1>1, Invariance, PTL

(* No commit is applied to a ledger that its caller did not decide from.   *)
THEOREM NoLostUpdate == Spec => NotOvertaken
  <1> DEFINE Step == \A c \in Clients :
               outcome[c] = "none" /\ outcome'[c] = "committed"
                 /\ revision # -1 => ~overtaken[c]
  <1>1. IInv /\ [Next]_vars => [Step]_vars
    <2> SUFFICES ASSUME IInv, [Next]_vars, NEW c \in Clients,
                        outcome[c] = "none", outcome'[c] = "committed",
                        revision # -1
                 PROVE  ~overtaken[c]
      OBVIOUS
    <2>1. CASE \E d \in Clients : Committed(d)
      <3>1. PICK d \in Clients : Committed(d)
        BY <2>1
      <3>2. d = c
        BY <3>1 DEF Committed, IInv, TypeOK
      <3>3. expected[c] = revision /\ expected[c] # Unread
        BY <3>1, <3>2 DEF Committed
      <3>4. revision \in Int
        BY DEF IInv, TypeOK
      <3> QED
        BY <3>3, <3>4 DEF IInv, OvertakenIsBehind
    <2>2. CASE ~ \E d \in Clients : Committed(d)
      <3>1. ~Created
        BY DEF Created
      <3>2. ASSUME NEW d \in Clients, Answered(d)
            PROVE  outcome'[c] # "committed"
        BY <3>2 DEF Answered, IInv, TypeOK
      <3>3. ASSUME NEW d \in Clients, Read(d) \/ Finish(d) \/ Retry(d)
            PROVE  outcome'[c] # "committed"
        BY <3>3 DEF Read, Finish, Retry, Answer, IInv, TypeOK
      <3>4. CASE UNCHANGED vars
        BY <3>4 DEF vars
      <3> QED
        BY <2>2, <3>1, <3>2, <3>3, <3>4, StepShape
    <2> QED
      BY <2>1, <2>2
  <1> QED
    BY <1>1, Invariance, PTL DEF Spec, NotOvertaken

(* What a step does to the ledger, for the action properties.              *)
LEMMA LedgerStep ==
  ASSUME IInv, [Next]_vars
  PROVE  Created \/ UNCHANGED ledger \/ \E c \in Clients : Committed(c)
  <1>1. ASSUME NEW c \in Clients, Answered(c) PROVE UNCHANGED ledger
    BY <1>1 DEF Answered
  <1>2. ASSUME NEW c \in Clients, Read(c) \/ Finish(c) \/ Retry(c)
        PROVE  UNCHANGED ledger
    BY <1>2 DEF Read, Finish, Retry
  <1>3. CASE UNCHANGED vars
    BY <1>3 DEF vars, ledger
  <1> QED
    BY <1>1, <1>2, <1>3, StepShape

(* A complete sweep never changes again.                                   *)
THEOREM FinalSweeps == Spec => CompleteIsFinal
  <1> DEFINE Step == \A x \in Cells :
               sweeps[x].state = "complete" => sweeps'[x] = sweeps[x]
  <1>1. ASSUME IInv, [Next]_vars PROVE Step
    <2>1. CASE Created
      <3>1. ASSUME NEW x \in Cells, sweeps[x].state = "complete" PROVE FALSE
        <4>1. sweeps = [y \in Cells |-> NewSweep]
          BY <1>1, <2>1 DEF Created, IInv, NothingBefore
        <4> QED
          BY <3>1, <4>1 DEF NewSweep
      <3> QED
        BY <3>1
    <2>2. CASE UNCHANGED ledger
      BY <2>2 DEF ledger
    <2>3. ASSUME NEW c \in Clients, Committed(c) PROVE Step
      <3>1. CASE sweeps' = sweeps
        BY <3>1
      <3>2. ASSUME NEW p \in Pass, NEW x \in Cells,
                   sweeps[x].state # "complete",
                   sweeps' = [sweeps EXCEPT ![x] = SweepWith(sweeps[x], p)]
            PROVE  Step
        BY <1>1, <3>2 DEF IInv, TypeOK
      <3> QED
        BY <2>3, <3>1, <3>2 DEF Committed, OnePassMore
    <2> QED
      BY <1>1, <2>1, <2>2, <2>3, LedgerStep
  <1>2. IInv /\ [Next]_vars => [Step]_vars
    BY <1>1
  <1> QED
    BY <1>2, Invariance, PTL DEF Spec, CompleteIsFinal

(* A mutation increments the revision once and only adds to the record.    *)
THEOREM OnlyAdded == Spec => History
  <1> DEFINE Kept(x) ==
               LET n == Len(sweeps[x].passes) IN
               /\ Len(sweeps'[x].passes) >= n
               /\ SubSeq(sweeps'[x].passes, 1, n) = sweeps[x].passes
             Step ==
               \/ revision = -1 /\ revision' = 0
               \/ /\ revision # -1 /\ revision' = revision + 1
                  /\ \A x \in Cells : Kept(x)
                  /\ \A id \in CandidateIds :
                       Exists(candidates[id]) => Exists(candidates'[id])
                  /\ updatedOn' >= updatedOn
  <1>1. ASSUME IInv, [Next]_vars PROVE [Step]_ledger
    <2>1. CASE Created
      BY <2>1 DEF Created
    <2>2. ASSUME NEW c \in Clients, Committed(c) PROVE Step
      <3>1. revision # -1 /\ revision' = revision + 1
        BY <2>2 DEF Committed, Unread
      <3>2. ASSUME NEW x \in Cells PROVE Kept(x)
        <4>1. sweeps[x].passes \in Seq(Pass)
          BY <1>1 DEF IInv, TypeOK, Sweep
        <4>2. CASE sweeps'[x].passes = sweeps[x].passes
          BY <4>1, <4>2
        <4>3. ASSUME NEW p \in Pass,
                     sweeps'[x].passes = Append(sweeps[x].passes, p)
              PROVE  Kept(x)
          BY <4>1, <4>3
        <4>4. \/ sweeps'[x].passes = sweeps[x].passes
              \/ \E p \in Pass :
                   sweeps'[x].passes = Append(sweeps[x].passes, p)
          <5>1. CASE sweeps' = sweeps
            BY <5>1
          <5>2. ASSUME NEW p \in Pass, NEW y \in Cells,
                       sweeps' = [sweeps EXCEPT ![y] = SweepWith(sweeps[y], p)]
                PROVE  \/ sweeps'[x].passes = sweeps[x].passes
                       \/ sweeps'[x].passes = Append(sweeps[x].passes, p)
            <6>1. sweeps \in [Cells -> Sweep]
              BY <1>1 DEF IInv, TypeOK
            <6>2. CASE x = y
              BY <5>2, <6>1, <6>2, SweepWithType
            <6>3. CASE x # y
              BY <5>2, <6>1, <6>3
            <6> QED
              BY <6>2, <6>3
          <5> QED
            BY <2>2, <5>1, <5>2 DEF Committed, OnePassMore
        <4> QED
          BY <4>2, <4>3, <4>4
      <3>3. ASSUME NEW id \in CandidateIds, Exists(candidates[id])
            PROVE  Exists(candidates'[id])
        BY <1>1, <2>2, <3>3
        DEF Committed, OneEntryWritten, Exists, IInv, TypeOK
      <3>4. updatedOn' >= updatedOn
        <4>1. PICK on \in Days : updatedOn' = Later(updatedOn, on)
          BY <2>2 DEF Committed
        <4>2. updatedOn \in Int /\ on \in Int
          BY <1>1, BoundsAssumption DEF IInv, TypeOK
        <4> QED
          BY <4>1, <4>2 DEF Later
      <3> QED
        BY <3>1, <3>2, <3>3, <3>4
    <2> QED
      BY <1>1, <2>1, <2>2, LedgerStep
  <1> QED
    BY <1>1, Invariance, PTL DEF Spec, History
=============================================================================
