---------------------------- MODULE Persistence ----------------------------
(***************************************************************************)
(* The single-writer persistence primitives of research/_persistence.py,   *)
(* driven the way journal_store, ledger and vocabulary_store drive them:   *)
(* take the bounded advisory lock, load the current content, compare the   *)
(* expected revision, write a durable temporary beside the file, rename it *)
(* over the file, release the lock.  Every step may be interleaved with    *)
(* the steps of other processes, and a process may die between any two.    *)
(***************************************************************************)
EXTENDS Naturals, Sequences

CONSTANTS Procs,        \* processes that call the store
          Payloads,     \* updates they submit
          NoProc,       \* the lock's holder when nobody holds it
          MaxRevision   \* bound: no call is started beyond this revision

ASSUME NoProcAssumption == NoProc \notin Procs
ASSUME PayloadsAssumption == Payloads # {}
ASSUME BoundAssumption == MaxRevision \in Nat

VARIABLES file,      \* the updates visible under the store's path
          lock,      \* the process holding the flock
          pc,        \* pc[p]: where the call of p stands
          call,      \* call[p]: the expected revision and the payload of p
          loaded,    \* loaded[p]: the content p has read under the lock
          temp,      \* temp[p]: the bytes of the temporary of p
          onDisk,    \* processes whose call has a temporary in the directory
          orphans,   \* processes whose death left a temporary behind
          known,     \* known[p]: the revision p has last seen
          acked      \* ghost: <<revision, payload>> of acknowledged calls

vars == <<file, lock, pc, call, loaded, temp, onDisk, orphans, known, acked>>

(* "replaced", "stale" and "broken" are the three ways a call can be about *)
(* to release the lock; "expired" never took it.                           *)
Critical == {"locked", "checked", "writing", "durable",
             "replaced", "stale", "broken"}
PC == {"idle", "waiting", "expired"} \cup Critical

Call == [expected : Nat, payload : Payloads]

(* The frame of a call holds nothing once the call has ended.              *)
NoCall == [expected |-> 0, payload |-> CHOOSE v \in Payloads : TRUE]

Init ==
  /\ file = <<>>
  /\ lock = NoProc
  /\ pc = [p \in Procs |-> "idle"]
  /\ call = [p \in Procs |-> NoCall]
  /\ loaded = [p \in Procs |-> <<>>]
  /\ temp = [p \in Procs |-> <<>>]
  /\ onDisk = {}
  /\ orphans = {}
  /\ known = [p \in Procs |-> 0]
  /\ acked = {}

Goto(p, from, to) ==
  /\ pc[p] = from
  /\ pc' = [pc EXCEPT ![p] = to]

-----------------------------------------------------------------------------
(* The caller.                                                             *)

(* Readers take no lock: the rename makes every visible content complete.  *)
Read(p) ==
  /\ pc[p] = "idle"
  /\ known' = [known EXCEPT ![p] = Len(file)]
  /\ UNCHANGED <<file, lock, pc, call, loaded, temp, onDisk, orphans, acked>>

(* A mutation starts: its lock file is opened and the deadline is set.     *)
Start(p) ==
  /\ Goto(p, "idle", "waiting")
  /\ known[p] < MaxRevision
  /\ \E v \in Payloads :
        call' = [call EXCEPT ![p] = [expected |-> known[p], payload |-> v]]
  /\ UNCHANGED <<file, lock, loaded, temp, onDisk, orphans, known, acked>>

-----------------------------------------------------------------------------
(* bounded_file_lock.                                                      *)

LockFree(p) == lock = NoProc

(* Mutant: the lock's existence is not exclusive.                          *)
LockIgnored(p) == TRUE

MayAcquire(p) == LockFree(p)

Acquire(p) ==
  /\ Goto(p, "waiting", "locked")
  /\ MayAcquire(p)
  /\ lock' = p
  /\ UNCHANGED <<file, call, loaded, temp, onDisk, orphans, known, acked>>

(* Mutant: the poll loop has no deadline.                                  *)
NoDeadline(p) == FALSE

(* A poll that finds the lock taken may find the deadline behind it too.   *)
MayExpire(p) == lock # NoProc

Expire(p) ==
  /\ Goto(p, "waiting", "expired")
  /\ MayExpire(p)
  /\ UNCHANGED <<file, lock, call, loaded, temp, onDisk, orphans, known, acked>>

-----------------------------------------------------------------------------
(* The body of a mutation: load, compare, write, rename.                   *)

(* Mutant: the caller's own view is compared, not the file's content.      *)
MatchesCallersView(p, content) == call[p].expected = known[p]

MatchesExpected(p, content) == call[p].expected = Len(content)

(* The load and the revision comparison read the file under the lock.      *)
LoadAndCheck(p) ==
  /\ pc[p] = "locked"
  /\ loaded' = [loaded EXCEPT ![p] = file]
  /\ pc' = [pc EXCEPT ![p] =
              IF MatchesExpected(p, file) THEN "checked" ELSE "stale"]
  /\ UNCHANGED <<file, lock, call, temp, onDisk, orphans, known, acked>>

(* The update fails validation, or the load raised: nothing was written.   *)
Reject(p) ==
  /\ pc[p] \in {"locked", "checked"}
  /\ pc' = [pc EXCEPT ![p] = "broken"]
  /\ UNCHANGED <<file, lock, call, loaded, temp, onDisk, orphans, known, acked>>

(* mkstemp in the file's directory: a fresh name, still empty.             *)
CreateTemporary(p) ==
  /\ Goto(p, "checked", "writing")
  /\ temp' = [temp EXCEPT ![p] = <<>>]
  /\ onDisk' = onDisk \cup {p}
  /\ UNCHANGED <<file, lock, call, loaded, orphans, known, acked>>

(* write, flush, fsync, close, chmod.                                      *)
WriteTemporary(p) ==
  /\ Goto(p, "writing", "durable")
  /\ temp' = [temp EXCEPT ![p] = Append(loaded[p], call[p].payload)]
  /\ UNCHANGED <<file, lock, call, loaded, onDisk, orphans, known, acked>>

(* Mutant: the failing path forgets the partial temporary.                 *)
KeepTemporary(p) == onDisk

(* Both failing paths unlink the temporary before they re-raise.           *)
UnlinkTemporary(p) == onDisk \ {p}

WriteFails(p) ==
  /\ Goto(p, "writing", "broken")
  /\ onDisk' = UnlinkTemporary(p)
  /\ UNCHANGED <<file, lock, call, loaded, temp, orphans, known, acked>>

(* os.replace: the temporary's name disappears, its bytes become visible.  *)
Replace(p) ==
  /\ Goto(p, "durable", "replaced")
  /\ file' = temp[p]
  /\ onDisk' = onDisk \ {p}
  /\ UNCHANGED <<lock, call, loaded, temp, orphans, known, acked>>

ReplaceFails(p) ==
  /\ Goto(p, "durable", "broken")
  /\ onDisk' = UnlinkTemporary(p)
  /\ UNCHANGED <<file, lock, call, loaded, temp, orphans, known, acked>>

-----------------------------------------------------------------------------
(* The end of a call.                                                      *)

(* Its local data goes with its stack frame.                               *)
DropFrame(p) ==
  /\ pc' = [pc EXCEPT ![p] = "idle"]
  /\ call' = [call EXCEPT ![p] = NoCall]
  /\ loaded' = [loaded EXCEPT ![p] = <<>>]
  /\ temp' = [temp EXCEPT ![p] = <<>>]

(* The lock is released in a finally block; then the call answers.         *)
Answer(p) ==
  /\ pc[p] \in {"replaced", "stale", "broken"}
  /\ DropFrame(p)
  /\ lock' = NoProc
  /\ IF pc[p] = "replaced"
     THEN /\ known' = [known EXCEPT ![p] = Len(loaded[p]) + 1]
          /\ acked' = acked \cup {<<Len(loaded[p]) + 1, call[p].payload>>}
     ELSE UNCHANGED <<known, acked>>
  /\ UNCHANGED <<file, onDisk, orphans>>

(* The timeout error reaches the caller, which never held the lock.        *)
AnswerExpired(p) ==
  /\ pc[p] = "expired"
  /\ DropFrame(p)
  /\ UNCHANGED <<file, lock, onDisk, orphans, known, acked>>

(* Mutant: a lock that outlives its owner.                                 *)
LockSurvives(p) == lock

(* The kernel drops a dead process's flock with its descriptors.           *)
LockAfterDeath(p) == IF lock = p THEN NoProc ELSE lock

(* The process dies and is started again; its temporary stays behind.      *)
Crash(p) ==
  /\ pc[p] # "idle"
  /\ DropFrame(p)
  /\ lock' = LockAfterDeath(p)
  /\ onDisk' = onDisk \ {p}
  /\ orphans' = orphans \cup (onDisk \cap {p})
  /\ known' = [known EXCEPT ![p] = 0]
  /\ UNCHANGED <<file, acked>>

Progress(p) ==
  \/ Acquire(p) \/ Expire(p) \/ LoadAndCheck(p) \/ Reject(p)
  \/ CreateTemporary(p) \/ WriteTemporary(p) \/ WriteFails(p)
  \/ Replace(p) \/ ReplaceFails(p) \/ Answer(p) \/ AnswerExpired(p)

Next == \E p \in Procs : Read(p) \/ Start(p) \/ Progress(p) \/ Crash(p)

Spec == Init /\ [][Next]_vars

(* Each process keeps executing the call it has started: the poll loop     *)
(* either gets the lock or passes its deadline, and no step waits for      *)
(* anything but the lock.  Nothing forces a process to start or to die.    *)
FairSpec == Spec /\ \A p \in Procs : WF_vars(Progress(p))

-----------------------------------------------------------------------------
(* The type of every variable.  A temporary exists only inside a call.     *)
TypeOK ==
  /\ file \in Seq(Payloads)
  /\ lock \in Procs \cup {NoProc}
  /\ pc \in [Procs -> PC]
  /\ call \in [Procs -> Call]
  /\ loaded \in [Procs -> Seq(Payloads)]
  /\ temp \in [Procs -> Seq(Payloads)]
  /\ onDisk \in SUBSET {p \in Procs : pc[p] \in {"writing", "durable"}}
  /\ orphans \in SUBSET Procs
  /\ known \in [Procs -> Nat]
  /\ acked \in SUBSET (Nat \X Payloads)

(* _persistence.py 108-116: only the lock's holder is between the flock    *)
(* and its release, whoever crashed or timed out before.                   *)
SingleWriter == \A p \in Procs : pc[p] \in Critical <=> lock = p

(* An acknowledged update stays in the file, at the revision the caller    *)
(* was told, whatever other writers, crashes and failures come after it.   *)
AckedStays ==
  \A a \in acked : a[1] \in 1 .. Len(file) /\ file[a[1]] = a[2]

(* Each change of the file appends exactly one update, which its caller    *)
(* built on the revision it replaces: no lost, torn or doubled update.     *)
NoLostUpdate ==
  [][\E p \in Procs :
        /\ pc[p] = "durable"
        /\ call[p].expected = Len(file)
        /\ file' = Append(file, call[p].payload)]_file


(* Every call ends: with an answer, a timeout or the death of its process. *)
EveryCallEnds == \A p \in Procs : pc[p] # "idle" ~> pc[p] = "idle"

(* The abstract state of a call, for the refinement of RevisionedFile.     *)
AbstractStatus(p) ==
  CASE pc[p] = "idle"                 -> "idle"
    [] pc[p] = "replaced"             -> "committed"
    [] pc[p] = "stale"                -> "conflict"
    [] pc[p] \in {"broken", "expired"} -> "failed"
    [] OTHER                          -> "invoked"

Abstract == INSTANCE RevisionedFile
  WITH content <- file, status <- [p \in Procs |-> AbstractStatus(p)]

(* The lock, temporary and rename protocol implements the atomic           *)
(* compare-and-append that every store above it is written against.        *)
ImplementsRevisionedFile == Abstract!Init /\ [][Abstract!Next]_Abstract!absVars
=============================================================================
