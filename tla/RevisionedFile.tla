--------------------------- MODULE RevisionedFile ---------------------------
(***************************************************************************)
(* What histgerm's locked stores (the discovery journal, the discovery     *)
(* ledger and the corpus vocabulary) promise their callers: one file whose *)
(* content is the sequence of accepted updates, and calls that atomically  *)
(* append one update when the revision the caller expects is the current   *)
(* one, or leave the file alone.  Module Persistence implements this with  *)
(* an advisory lock, a temporary file and an atomic rename.                *)
(***************************************************************************)
EXTENDS Naturals, Sequences

CONSTANTS Procs,     \* the processes that may call the store
          Payloads   \* the updates a caller may submit

VARIABLES content,   \* the accepted updates, in commit order
          status,    \* status[p]: where the call of p stands
          call       \* call[p]: the revision p expects and the update

absVars == <<content, status, call>>

(* A call in flight has not decided yet; a decided one has not returned.   *)
Decided == {"committed", "conflict", "failed"}

Call   == [expected : Nat, payload : Payloads]
NoCall == [expected |-> 0, payload |-> CHOOSE v \in Payloads : TRUE]

Init ==
  /\ content = <<>>
  /\ status = [p \in Procs |-> "idle"]
  /\ call = [p \in Procs |-> NoCall]

Becomes(p, from, to) ==
  /\ status[p] = from
  /\ status' = [status EXCEPT ![p] = to]

(* A caller submits an update built on some revision it has seen.          *)
Invoke(p) ==
  /\ Becomes(p, "idle", "invoked")
  /\ call' \in [Procs -> Call]
  /\ \A q \in Procs \ {p} : call'[q] = call[q]
  /\ UNCHANGED content

(* The compare-and-append: only an update built on the current revision.   *)
Commit(p) ==
  /\ Becomes(p, "invoked", "committed")
  /\ call[p].expected = Len(content)
  /\ content' = Append(content, call[p].payload)
  /\ UNCHANGED call

(* A conflict is reported only for a revision that really is stale.        *)
Conflict(p) ==
  /\ Becomes(p, "invoked", "conflict")
  /\ call[p].expected # Len(content)
  /\ UNCHANGED <<content, call>>

(* Lock timeouts and I/O errors may refuse any call, without an effect.    *)
Fail(p) ==
  /\ Becomes(p, "invoked", "failed")
  /\ UNCHANGED <<content, call>>

(* The caller gets its answer, or dies without one.                        *)
End(p) ==
  /\ status[p] # "idle"
  /\ status' = [status EXCEPT ![p] = "idle"]
  /\ call' = [call EXCEPT ![p] = NoCall]
  /\ UNCHANGED content

Next ==
  \E p \in Procs :
     Invoke(p) \/ Commit(p) \/ Conflict(p) \/ Fail(p) \/ End(p)

Spec == Init /\ [][Next]_absVars
=============================================================================
