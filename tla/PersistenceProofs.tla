------------------------- MODULE PersistenceProofs -------------------------
(***************************************************************************)
(* Proofs about module Persistence, for every set of processes and every   *)
(* set of updates.  The inductive invariant adds LoadedIsCurrent to the    *)
(* invariants that the run checks: SingleWriter makes it inductive (nobody *)
(* else can replace the file between a load and a rename), and it makes    *)
(* AckedStays and NoLostUpdate hold (a rename only ever extends the        *)
(* content).  That every step of a call brings it nearer its end is shown  *)
(* by the number of steps left to it.                                      *)
(***************************************************************************)
EXTENDS Persistence, TLAPS

(* What a process has loaded under the lock is still the file's content    *)
(* until it replaces the file itself: no write is based on a stale read.   *)
LoadedIsCurrent ==
  \A p \in Procs :
     /\ pc[p] \in {"checked", "writing", "durable"} =>
          loaded[p] = file /\ call[p].expected = Len(file)
     /\ pc[p] = "durable" => temp[p] = Append(file, call[p].payload)
     /\ pc[p] = "replaced" => file = Append(loaded[p], call[p].payload)

IInv == TypeOK /\ SingleWriter /\ LoadedIsCurrent /\ AckedStays

LEMMA NoCallType == NoCall \in Call
  BY PayloadsAssumption DEF NoCall, Call

(* Appending keeps what is there and puts the update at the next revision. *)
LEMMA AppendKeeps ==
  ASSUME NEW s \in Seq(Payloads), NEW v \in Payloads
  PROVE  /\ Append(s, v) \in Seq(Payloads)
         /\ Len(Append(s, v)) = Len(s) + 1
         /\ Append(s, v)[Len(s) + 1] = v
         /\ \A i \in 1 .. Len(s) : Append(s, v)[i] = s[i]
  OBVIOUS

LEMMA InitIInv == Init => IInv
  <1> SUFFICES ASSUME Init PROVE IInv
    OBVIOUS
  <1>1. TypeOK
    BY NoCallType, NoProcAssumption DEF Init, TypeOK, PC
  <1>2. SingleWriter /\ LoadedIsCurrent /\ AckedStays
    BY NoProcAssumption
    DEF Init, SingleWriter, LoadedIsCurrent, AckedStays, Critical
  <1> QED
    BY <1>1, <1>2 DEF IInv

(* Every action keeps the types.                                           *)
LEMMA TypeStep == ASSUME IInv, [Next]_vars PROVE TypeOK'
  <1> USE DEF IInv, TypeOK, PC, Critical
  <1>1. CASE UNCHANGED vars
    BY <1>1 DEF vars
  <1>2. ASSUME NEW p \in Procs, Read(p) PROVE TypeOK'
    BY <1>2 DEF Read
  <1>3. ASSUME NEW p \in Procs, Start(p) PROVE TypeOK'
    BY <1>3 DEF Start, Goto, Call
  <1>4. ASSUME NEW p \in Procs, Acquire(p) \/ Expire(p) PROVE TypeOK'
    BY <1>4 DEF Acquire, Expire, Goto
  <1>5. ASSUME NEW p \in Procs, LoadAndCheck(p) \/ Reject(p) PROVE TypeOK'
    BY <1>5 DEF LoadAndCheck, Reject, Goto
  <1>6. ASSUME NEW p \in Procs, CreateTemporary(p) PROVE TypeOK'
    BY <1>6 DEF CreateTemporary, Goto
  <1>7. ASSUME NEW p \in Procs, WriteTemporary(p) PROVE TypeOK'
    <2>1. Append(loaded[p], call[p].payload) \in Seq(Payloads)
      BY DEF Call
    <2> QED
      BY <1>7, <2>1 DEF WriteTemporary, Goto
  <1>8. ASSUME NEW p \in Procs, WriteFails(p) \/ ReplaceFails(p) PROVE TypeOK'
    BY <1>8 DEF WriteFails, ReplaceFails, UnlinkTemporary, Goto
  <1>9. ASSUME NEW p \in Procs, Replace(p) PROVE TypeOK'
    BY <1>9 DEF Replace, Goto
  <1>10. ASSUME NEW p \in Procs, Answer(p) PROVE TypeOK'
    <2>1. /\ pc' \in [Procs -> PC] /\ call' \in [Procs -> Call]
          /\ loaded' \in [Procs -> Seq(Payloads)]
          /\ temp' \in [Procs -> Seq(Payloads)]
      BY <1>10, NoCallType DEF Answer, DropFrame
    <2>2. known' \in [Procs -> Nat] /\ acked' \in SUBSET (Nat \X Payloads)
      <3>1. Len(loaded[p]) + 1 \in Nat /\ call[p].payload \in Payloads
        BY DEF Call
      <3>2. known' \in [Procs -> Nat]
        BY <1>10, <3>1 DEF Answer
      <3>3. CASE acked' = acked
        BY <3>2, <3>3, Zenon
      <3>4. CASE acked' = acked \cup {<<Len(loaded[p]) + 1, call[p].payload>>}
        <4>1. <<Len(loaded[p]) + 1, call[p].payload>> \in Nat \X Payloads
          BY <3>1
        <4> QED
          BY <3>2, <3>4, <4>1, Zenon
      <3> QED
        BY <1>10, <3>3, <3>4 DEF Answer
    <2>3. onDisk' \in SUBSET {q \in Procs : pc'[q] \in {"writing", "durable"}}
      BY <1>10 DEF Answer, DropFrame
    <2> QED
      BY <1>10, <2>1, <2>2, <2>3 DEF Answer
  <1>11. ASSUME NEW p \in Procs, AnswerExpired(p) PROVE TypeOK'
    BY <1>11, NoCallType DEF AnswerExpired, DropFrame
  <1>12. ASSUME NEW p \in Procs, Crash(p) PROVE TypeOK'
    BY <1>12, NoCallType DEF Crash, DropFrame, LockAfterDeath
  <1> QED
    BY <1>1, <1>2, <1>3, <1>4, <1>5, <1>6, <1>7, <1>8, <1>9, <1>10, <1>11, <1>12
    DEF Next, Progress

(* The lock decides who is in the critical section, after every action.    *)
LEMMA SingleWriterStep == ASSUME IInv, [Next]_vars PROVE SingleWriter'
  <1> USE NoProcAssumption DEF IInv, TypeOK, PC, Critical, SingleWriter
  <1>1. CASE UNCHANGED vars
    BY <1>1 DEF vars
  <1>2. ASSUME NEW p \in Procs, Read(p) \/ Start(p) PROVE SingleWriter'
    BY <1>2 DEF Read, Start, Goto
  <1>3. ASSUME NEW p \in Procs, Acquire(p) \/ Expire(p) PROVE SingleWriter'
    BY <1>3 DEF Acquire, MayAcquire, LockFree, Expire, Goto
  <1>4. ASSUME NEW p \in Procs, LoadAndCheck(p) \/ Reject(p) PROVE SingleWriter'
    BY <1>4 DEF LoadAndCheck, Reject
  <1>5. ASSUME NEW p \in Procs, CreateTemporary(p) \/ WriteTemporary(p)
        PROVE SingleWriter'
    BY <1>5 DEF CreateTemporary, WriteTemporary, Goto
  <1>6. ASSUME NEW p \in Procs, WriteFails(p) \/ ReplaceFails(p) \/ Replace(p)
        PROVE SingleWriter'
    BY <1>6 DEF WriteFails, ReplaceFails, Replace, Goto
  <1>7. ASSUME NEW p \in Procs, Answer(p) \/ AnswerExpired(p) PROVE SingleWriter'
    BY <1>7 DEF Answer, AnswerExpired, DropFrame
  <1>8. ASSUME NEW p \in Procs, Crash(p) PROVE SingleWriter'
    BY <1>8 DEF Crash, DropFrame, LockAfterDeath
  <1> QED
    BY <1>1, <1>2, <1>3, <1>4, <1>5, <1>6, <1>7, <1>8 DEF Next, Progress

(* Only a rename changes the file, and it appends the update of the        *)
(* process that renames, which was built on the revision it replaces.      *)
LEMMA FileStep ==
  ASSUME IInv, [Next]_vars, file' # file
  PROVE  \E p \in Procs :
            /\ Replace(p)
            /\ pc[p] = "durable"
            /\ call[p].expected = Len(file)
            /\ file' = Append(file, call[p].payload)
  <1>1. PICK p \in Procs : Replace(p)
    BY DEF Next, vars, Progress, Read, Start, Acquire, Expire, LoadAndCheck,
           Reject, CreateTemporary, WriteTemporary, WriteFails, ReplaceFails,
           Answer, AnswerExpired, Crash
  <1> QED
    BY <1>1 DEF Replace, Goto, IInv, LoadedIsCurrent

(* Nobody but the lock's holder is between a load and a rename, so what    *)
(* the holder has loaded cannot become stale.                              *)
LEMMA LoadedIsCurrentStep == ASSUME IInv, [Next]_vars PROVE LoadedIsCurrent'
  <1> USE NoProcAssumption DEF IInv, TypeOK, SingleWriter, LoadedIsCurrent,
                               PC, Critical
  <1>1. CASE UNCHANGED vars
    BY <1>1 DEF vars
  <1>2. ASSUME NEW p \in Procs, Read(p) \/ Start(p) PROVE LoadedIsCurrent'
    BY <1>2 DEF Read, Start, Goto
  <1>3. ASSUME NEW p \in Procs, Acquire(p) \/ Expire(p) PROVE LoadedIsCurrent'
    BY <1>3 DEF Acquire, Expire, Goto
  <1>4. ASSUME NEW p \in Procs, LoadAndCheck(p) \/ Reject(p) PROVE LoadedIsCurrent'
    <2>1. CASE LoadAndCheck(p)
      <3>1. /\ pc[p] = "locked" /\ loaded'[p] = file /\ file' = file
            /\ call' = call /\ temp' = temp
            /\ pc'[p] \in {"checked", "stale"}
            /\ pc'[p] = "checked" => call[p].expected = Len(file)
        BY <2>1 DEF LoadAndCheck, MatchesExpected
      <3>2. \A q \in Procs \ {p} : pc'[q] = pc[q] /\ loaded'[q] = loaded[q]
        BY <2>1 DEF LoadAndCheck
      <3> QED
        BY <3>1, <3>2
    <2>2. CASE Reject(p)
      BY <2>2 DEF Reject
    <2> QED
      BY <1>4, <2>1, <2>2
  <1>5. ASSUME NEW p \in Procs, CreateTemporary(p) PROVE LoadedIsCurrent'
    BY <1>5 DEF CreateTemporary, Goto
  <1>6. ASSUME NEW p \in Procs, WriteTemporary(p) PROVE LoadedIsCurrent'
    BY <1>6 DEF WriteTemporary, Goto
  <1>7. ASSUME NEW p \in Procs, WriteFails(p) \/ ReplaceFails(p)
        PROVE LoadedIsCurrent'
    BY <1>7 DEF WriteFails, ReplaceFails, Goto
  <1>8. ASSUME NEW p \in Procs, Replace(p) PROVE LoadedIsCurrent'
    BY <1>8 DEF Replace, Goto
  <1>9. ASSUME NEW p \in Procs, Answer(p) \/ AnswerExpired(p)
        PROVE LoadedIsCurrent'
    <2>1. DropFrame(p) /\ UNCHANGED file
      BY <1>9 DEF Answer, AnswerExpired
    <2>2. pc'[p] = "idle" /\ \A q \in Procs \ {p} :
            /\ pc'[q] = pc[q] /\ loaded'[q] = loaded[q]
            /\ temp'[q] = temp[q] /\ call'[q] = call[q]
      BY <2>1 DEF DropFrame
    <2> QED
      BY <2>1, <2>2
  <1>10. ASSUME NEW p \in Procs, Crash(p) PROVE LoadedIsCurrent'
    BY <1>10 DEF Crash, DropFrame
  <1> QED
    BY <1>1, <1>2, <1>3, <1>4, <1>5, <1>6, <1>7, <1>8, <1>9, <1>10
    DEF Next, Progress

(* The file only grows, and only a call that replaced it is acknowledged.  *)
LEMMA AckedStaysStep == ASSUME IInv, [Next]_vars PROVE AckedStays'
  <1> USE DEF IInv, TypeOK, AckedStays
  <1>1. ASSUME NEW a \in acked
        PROVE  a[1] \in 1 .. Len(file') /\ file'[a[1]] = a[2]
    <2>1. CASE file' = file
      BY <2>1
    <2>2. CASE file' # file
      <3>1. PICK p \in Procs : file' = Append(file, call[p].payload)
        BY <2>2, FileStep
      <3>2. a[1] \in 1 .. Len(file) /\ call[p].payload \in Payloads
        BY DEF Call
      <3> QED
        BY <3>1, <3>2, AppendKeeps
    <2> QED
      BY <2>1, <2>2
  <1>2. CASE acked' = acked
    BY <1>1, <1>2, Zenon
  <1>3. CASE acked' # acked
    <2>1. PICK p \in Procs : Answer(p)
      BY <1>3 DEF Next, vars, Progress, Read, Start, Acquire, Expire,
           LoadAndCheck, Reject, CreateTemporary, WriteTemporary, WriteFails,
           Replace, ReplaceFails, AnswerExpired, Crash
    <2>2. /\ pc[p] = "replaced" /\ file' = file
          /\ acked' = acked \cup {<<Len(loaded[p]) + 1, call[p].payload>>}
      BY <2>1, <1>3 DEF Answer
    <2>3. /\ loaded[p] \in Seq(Payloads) /\ call[p].payload \in Payloads
          /\ file = Append(loaded[p], call[p].payload)
      BY <2>2 DEF LoadedIsCurrent, Call
    <2>4. Len(loaded[p]) + 1 \in 1 .. Len(file)
          /\ file[Len(loaded[p]) + 1] = call[p].payload
      BY <2>3, AppendKeeps
    <2> QED
      BY <2>2, <2>4, <1>1
  <1> QED
    BY <1>2, <1>3

LEMMA IInvStep == IInv /\ [Next]_vars => IInv'
  BY TypeStep, SingleWriterStep, LoadedIsCurrentStep, AckedStaysStep DEF IInv

(* The invariant of the protocol, for any number of processes.             *)
THEOREM Invariance == Spec => []IInv
  BY InitIInv, IInvStep, PTL DEF Spec

(* Every variable of the protocol keeps its type; in particular a call     *)
(* leaves no temporary of its own behind when it returns.                  *)
THEOREM TypeCorrect == Spec => []TypeOK
  BY Invariance, PTL DEF IInv

(* At most one process is inside bounded_file_lock's body at any time.     *)
THEOREM MutualExclusion == Spec => []SingleWriter
  BY Invariance, PTL DEF IInv

(* An acknowledged update is never lost.                                   *)
THEOREM Durability == Spec => []AckedStays
  BY Invariance, PTL DEF IInv

(* A step that changes the file appends one update built on its revision.  *)
THEOREM LostUpdateFree == Spec => NoLostUpdate
  <1>1. IInv /\ [Next]_vars =>
          [\E p \in Procs :
             /\ pc[p] = "durable"
             /\ call[p].expected = Len(file)
             /\ file' = Append(file, call[p].payload)]_file
    BY FileStep
  <1> QED
    BY <1>1, Invariance, PTL DEF Spec, NoLostUpdate

-----------------------------------------------------------------------------
(* The refinement of RevisionedFile: a rename is the abstract commit, the  *)
(* failed comparison the abstract conflict, every other refusal a failure. *)

StatusOf == [p \in Procs |-> AbstractStatus(p)]

(* A step of one process changes the abstract status of that process only. *)
LEMMA StatusStep ==
  ASSUME IInv, NEW p \in Procs, NEW to \in PC,
         pc' = [pc EXCEPT ![p] = to]
  PROVE  StatusOf' = [StatusOf EXCEPT ![p] =
            CASE to = "idle" -> "idle"
              [] to = "replaced" -> "committed"
              [] to = "stale" -> "conflict"
              [] to \in {"broken", "expired"} -> "failed"
              [] OTHER -> "invoked"]
  BY DEF StatusOf, AbstractStatus, IInv, TypeOK

LEMMA SameStatus ==
  ASSUME pc' = pc
  PROVE  StatusOf' = StatusOf
  BY DEF StatusOf, AbstractStatus

LEMMA RefinesInit == Init => Abstract!Init
  BY DEF Init, Abstract!Init, Abstract!NoCall, NoCall, AbstractStatus

LEMMA RefinesStep == IInv /\ [Next]_vars => [Abstract!Next]_Abstract!absVars
  <1> SUFFICES ASSUME IInv, [Next]_vars
               PROVE  Abstract!Next \/ UNCHANGED Abstract!absVars
    OBVIOUS
  <1> USE DEF IInv, TypeOK, PC, Critical
  <1>s. ASSUME file' = file, call' = call, StatusOf' = StatusOf
        PROVE  UNCHANGED Abstract!absVars
    BY <1>s DEF Abstract!absVars, StatusOf
  <1>e. ASSUME NEW p \in Procs, pc[p] # "idle", DropFrame(p), file' = file
        PROVE  Abstract!End(p)
    <2>1. StatusOf' = [StatusOf EXCEPT ![p] = "idle"]
      BY <1>e, StatusStep DEF DropFrame
    <2>2. StatusOf[p] # "idle"
      BY <1>e DEF StatusOf, AbstractStatus
    <2> QED
      BY <1>e, <2>1, <2>2
      DEF Abstract!End, DropFrame, StatusOf, NoCall, Abstract!NoCall
  <1>f. ASSUME NEW p \in Procs, StatusOf[p] = "invoked",
               StatusOf' = [StatusOf EXCEPT ![p] = "failed"],
               file' = file, call' = call
        PROVE  Abstract!Fail(p)
    BY <1>f DEF Abstract!Fail, Abstract!Becomes, StatusOf
  <1>1. CASE UNCHANGED vars
    BY <1>1, <1>s, SameStatus DEF vars
  <1>2. ASSUME NEW p \in Procs, Read(p) PROVE UNCHANGED Abstract!absVars
    BY <1>2, <1>s, SameStatus DEF Read
  <1>3. ASSUME NEW p \in Procs, Start(p) PROVE Abstract!Invoke(p)
    <2>1. StatusOf' = [StatusOf EXCEPT ![p] = "invoked"] /\ StatusOf[p] = "idle"
      BY <1>3, StatusStep DEF Start, Goto, StatusOf, AbstractStatus
    <2>2. /\ call' \in [Procs -> Abstract!Call]
          /\ \A q \in Procs \ {p} : call'[q] = call[q]
      BY <1>3 DEF Start, Call, Abstract!Call
    <2> QED
      BY <1>3, <2>1, <2>2 DEF Start, Abstract!Invoke, Abstract!Becomes, StatusOf
  <1>4. ASSUME NEW p \in Procs, Acquire(p) \/ CreateTemporary(p) \/ WriteTemporary(p)
        PROVE  UNCHANGED Abstract!absVars
    <2>1. StatusOf[p] = "invoked"
      BY <1>4 DEF Acquire, CreateTemporary, WriteTemporary, Goto, StatusOf,
                  AbstractStatus
    <2>2. StatusOf' = [StatusOf EXCEPT ![p] = "invoked"]
      BY <1>4, StatusStep DEF Acquire, CreateTemporary, WriteTemporary, Goto
    <2>3. StatusOf' = StatusOf
      BY <2>1, <2>2 DEF StatusOf
    <2> QED
      BY <1>4, <1>s, <2>3 DEF Acquire, CreateTemporary, WriteTemporary
  <1>5. ASSUME NEW p \in Procs, LoadAndCheck(p)
        PROVE  Abstract!Conflict(p) \/ UNCHANGED Abstract!absVars
    <2>1. StatusOf[p] = "invoked" /\ file' = file /\ call' = call
      BY <1>5 DEF LoadAndCheck, StatusOf, AbstractStatus
    <2>2. CASE MatchesExpected(p, file)
      <3>0. pc' = [pc EXCEPT ![p] = "checked"]
        BY <1>5, <2>2 DEF LoadAndCheck
      <3>1. StatusOf' = [StatusOf EXCEPT ![p] = "invoked"]
        BY <3>0, StatusStep, "checked" \in PC, "stale" \in PC
      <3>2. StatusOf' = StatusOf
        BY <2>1, <3>1 DEF StatusOf
      <3> QED
        BY <1>s, <2>1, <3>2
    <2>3. CASE ~MatchesExpected(p, file)
      <3>0. pc' = [pc EXCEPT ![p] = "stale"]
        BY <1>5, <2>3 DEF LoadAndCheck
      <3>1. StatusOf' = [StatusOf EXCEPT ![p] = "conflict"]
        BY <3>0, StatusStep, "checked" \in PC, "stale" \in PC
      <3>2. call[p].expected # Len(file)
        BY <2>3 DEF MatchesExpected
      <3> QED
        BY <2>1, <3>1, <3>2
        DEF Abstract!Conflict, Abstract!Becomes, StatusOf
    <2> QED
      BY <2>2, <2>3
  <1>6. ASSUME NEW p \in Procs, Replace(p) PROVE Abstract!Commit(p)
    <2>1. StatusOf[p] = "invoked" /\ StatusOf' = [StatusOf EXCEPT ![p] = "committed"]
      BY <1>6, StatusStep DEF Replace, Goto, StatusOf, AbstractStatus
    <2>2. /\ call[p].expected = Len(file) /\ call' = call
          /\ file' = Append(file, call[p].payload)
      BY <1>6 DEF Replace, Goto, LoadedIsCurrent
    <2> QED
      BY <2>1, <2>2 DEF Abstract!Commit, Abstract!Becomes, StatusOf
  <1>7. ASSUME NEW p \in Procs,
               Expire(p) \/ Reject(p) \/ WriteFails(p) \/ ReplaceFails(p)
        PROVE  Abstract!Fail(p)
    <2>1. StatusOf[p] = "invoked" /\ file' = file /\ call' = call
      BY <1>7 DEF Expire, Reject, WriteFails, ReplaceFails, Goto, StatusOf,
                  AbstractStatus
    <2>2. StatusOf' = [StatusOf EXCEPT ![p] = "failed"]
      BY <1>7, StatusStep DEF Expire, Reject, WriteFails, ReplaceFails, Goto
    <2> QED
      BY <1>f, <2>1, <2>2
  <1>8. ASSUME NEW p \in Procs, Answer(p) \/ AnswerExpired(p) \/ Crash(p)
        PROVE  Abstract!End(p)
    BY <1>8, <1>e DEF Answer, AnswerExpired, Crash
  <1> QED
    BY <1>1, <1>2, <1>3, <1>4, <1>5, <1>6, <1>7, <1>8
    DEF Next, Progress, Abstract!Next

(* The protocol implements the atomic compare-and-append of RevisionedFile *)
(* that the journal, ledger and vocabulary modules take for granted.       *)
THEOREM Refinement == Spec => ImplementsRevisionedFile
  BY RefinesInit, RefinesStep, Invariance, PTL
  DEF Spec, ImplementsRevisionedFile
-----------------------------------------------------------------------------
(* The steps that are left to a call, at most.                             *)
StepsLeft == [waiting |-> 6, locked |-> 5, checked |-> 4, writing |-> 3,
              durable |-> 2, replaced |-> 1, stale |-> 1, broken |-> 1,
              expired |-> 1, idle |-> 0]

(* A call that has started only comes nearer its end: each of its steps    *)
(* leaves it fewer, and no step of another process, not even one that dies *)
(* or takes the lock, sets it back.                                        *)
THEOREM CallsGetOn ==
  Spec => [][\A p \in Procs :
               /\ StepsLeft[pc[p]] \in Nat
               /\ Progress(p) => StepsLeft[pc'[p]] < StepsLeft[pc[p]]
               /\ \/ pc[p] = "idle"
                  \/ StepsLeft[pc'[p]] <= StepsLeft[pc[p]]]_vars
  <1> DEFINE Nearer(p) == /\ StepsLeft[pc[p]] \in Nat
                          /\ Progress(p) =>
                               StepsLeft[pc'[p]] < StepsLeft[pc[p]]
                          /\ \/ pc[p] = "idle"
                             \/ StepsLeft[pc'[p]] <= StepsLeft[pc[p]]
  <1>1. \A s \in PC : StepsLeft[s] \in Nat /\ StepsLeft[s] >= StepsLeft["idle"]
    BY DEF PC, Critical, StepsLeft
  <1>2. ASSUME TypeOK, NEW p \in Procs, Progress(p)
        PROVE  /\ pc'[p] \in PC /\ StepsLeft[pc'[p]] < StepsLeft[pc[p]]
               /\ \A q \in Procs \ {p} : pc'[q] = pc[q]
    <2>1. pc \in [Procs -> PC]
      BY <1>2 DEF TypeOK
    <2>2. Goto(p, "waiting", "locked") \/ Goto(p, "waiting", "expired")
          \/ (pc[p] = "locked" /\ \E s \in {"checked", "stale"} :
                pc' = [pc EXCEPT ![p] = s])
          \/ (pc[p] \in {"locked", "checked"} /\ pc' = [pc EXCEPT ![p] = "broken"])
          \/ Goto(p, "checked", "writing") \/ Goto(p, "writing", "durable")
          \/ Goto(p, "writing", "broken") \/ Goto(p, "durable", "replaced")
          \/ Goto(p, "durable", "broken")
          \/ (pc[p] \in {"replaced", "stale", "broken", "expired"}
                /\ pc' = [pc EXCEPT ![p] = "idle"])
      BY <1>2 DEF Progress, Acquire, Expire, LoadAndCheck, Reject,
                  CreateTemporary, WriteTemporary, WriteFails, Replace,
                  ReplaceFails, Answer, AnswerExpired, DropFrame
    <2> QED
      BY <2>1, <2>2 DEF Goto, StepsLeft, PC, Critical
  <1>3. ASSUME TypeOK, NEW p \in Procs, Read(p) \/ Start(p) \/ Crash(p)
        PROVE  /\ pc'[p] = pc[p] \/ pc[p] = "idle" \/ pc'[p] = "idle"
               /\ \A q \in Procs \ {p} : pc'[q] = pc[q]
    BY <1>3 DEF Read, Start, Crash, Goto, DropFrame, TypeOK
  <1>4. ASSUME TypeOK, NEW p \in Procs, Next PROVE Nearer(p)
    <2>0. pc[p] \in PC
      BY <1>4 DEF TypeOK
    <2>1. PICK q \in Procs : Read(q) \/ Start(q) \/ Progress(q) \/ Crash(q)
      BY <1>4 DEF Next
    <2>2. StepsLeft[pc'[p]] <= StepsLeft[pc[p]] \/ pc[p] = "idle"
      <3>1. StepsLeft[pc[p]] \in Nat /\ StepsLeft[pc[p]] >= StepsLeft["idle"]
        BY <1>1, <2>0
      <3>2. CASE Progress(q)
        <4>1. p = q => StepsLeft[pc'[p]] < StepsLeft[pc[p]]
          BY <1>2, <1>4, <3>2
        <4>2. p # q => pc'[p] = pc[p]
          BY <1>2, <1>4, <3>2
        <4>3. StepsLeft[pc'[p]] \in Nat
          BY <1>1, <1>2, <1>4, <2>0, <3>2, <4>2
        <4> QED
          BY <3>1, <4>1, <4>2, <4>3
      <3>3. CASE Read(q) \/ Start(q) \/ Crash(q)
        <4>1. pc'[p] = pc[p] \/ pc[p] = "idle" \/ pc'[p] = "idle"
          BY <1>3, <1>4, <3>3
        <4> QED
          BY <3>1, <4>1
      <3> QED
        BY <2>1, <3>2, <3>3
    <2> QED
      BY <1>1, <1>2, <1>4, <2>0, <2>2
  <1>5. TypeOK /\ [Next]_vars => [\A p \in Procs : Nearer(p)]_vars
    BY <1>4
  <1> QED
    BY <1>5, TypeCorrect, PTL DEF Spec
=============================================================================
