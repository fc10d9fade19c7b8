---------------------------- MODULE JournalStore ----------------------------
(***************************************************************************)
(* The run journal of research/journal_store.py: an append-only sequence   *)
(* of typed events with optimistic sequencing, idempotent re-append and    *)
(* verifiable checkpoints.  Module Persistence shows that one locked call  *)
(* behaves as one atomic step, so append_event and compact_journal are one *)
(* action each here; what remains hard is several coordinators that append *)
(* from stale views, answers that get lost, verbatim retries and a file    *)
(* whose last line was torn by something outside the program.              *)
(***************************************************************************)
EXTENDS Integers, Sequences

CONSTANTS Clients,      \* coordinators and workers that append
          RunIds,       \* run identifiers they may use
          Bodies,       \* payloads (and recorded_at stamps) of events
          CallerKinds,  \* kinds a caller may append after sequence 0
          Stated,       \* which callers pass --expected-last-sequence
          MaxEvents,    \* events that fit in MAX_JOURNAL_BYTES
          MaxTears      \* bound: how often the last line may be torn

ASSUME CallersAssumption ==
  /\ CallerKinds \subseteq {"run_started", "recorded", "checkpoint"}
  /\ Stated \subseteq BOOLEAN
ASSUME SizesAssumption ==
  /\ RunIds # {} /\ Bodies # {}
  /\ MaxEvents \in Nat \ {0} /\ MaxTears \in Nat

VARIABLES lines,     \* the complete lines of the file, as events
          torn,      \* the file ends in an incomplete line
          tears,     \* how often that has happened
          op,        \* op[c]: the request c has outstanding
          event,     \* event[c]: the event of an outstanding append
          expected,  \* expected[c]: its expected last sequence, or Unstated
          reply,     \* reply[c]: the answer on its way to c
          known,     \* known[c]: the last sequence c has been told
          acked      \* ghost: events whose append was confirmed to a caller

clientVars == <<op, event, expected, known>>
vars == <<lines, torn, tears, op, event, expected, reply, known, acked>>

(* The eleven kinds the store treats alike are one kind, "recorded".       *)
Kinds    == {"run_started", "recorded", "checkpoint"}
Unstated == -2
NoReply  == [outcome |-> "none", last |-> -1]

Digests  == Seq(Kinds \X Bodies)
Event    == [run : RunIds, seq : Nat, kind : Kinds, body : Bodies,
             digest : Digests, last : Int]
LastNumber == Nat \cup {-1}
Reply    == [outcome : {"none", "appended", "noop", "conflict", "failed"},
             last : LastNumber]

(* journal_content_hash of one run's events: their kinds and payloads.     *)
ContentHash(events) ==
  [i \in 1 .. Len(events) |-> <<events[i].kind, events[i].body>>]

LastSequence(events) == Len(events) - 1

NewEvent(r, n, k, b) ==
  [run |-> r, seq |-> n, kind |-> k, body |-> b, digest |-> <<>>, last |-> -1]

(* Mutant: the checkpoint counts itself.                                   *)
SelfCountingCheckpoint(events, b) ==
  [run |-> events[1].run, seq |-> LastSequence(events) + 1,
   kind |-> "checkpoint", body |-> b,
   digest |-> ContentHash(events), last |-> LastSequence(events) + 1]

(* The checkpoint of a journal records its content hash and last sequence. *)
NewCheckpoint(events, b) ==
  [run |-> events[1].run, seq |-> LastSequence(events) + 1,
   kind |-> "checkpoint", body |-> b,
   digest |-> ContentHash(events), last |-> LastSequence(events)]

NoEvent == NewEvent(CHOOSE r \in RunIds : TRUE, 0, "recorded",
                    CHOOSE b \in Bodies : TRUE)

-----------------------------------------------------------------------------
(* Reading: every complete line must parse into one consistent run.        *)

(* _validate_integrity *)
Integrity(events) ==
  \A i \in 1 .. Len(events) :
     /\ events[i].run = events[1].run
     /\ events[i].seq = i - 1
     /\ events[i].kind = "run_started" <=> i = 1

(* _verify_checkpoints *)
CheckpointsVerify(events) ==
  \A i \in 1 .. Len(events) :
     events[i].kind = "checkpoint" =>
        /\ events[i].digest = ContentHash(SubSeq(events, 1, i - 1))
        /\ events[i].last = i - 2

Readable == Integrity(lines) /\ CheckpointsVerify(lines)

-----------------------------------------------------------------------------
(* append_event's conditions, on the parsed events.                        *)

(* Mutant: an event of another run is accepted.                            *)
AnyRun(e) == TRUE

RunMatches(e) == lines # <<>> => e.run = lines[1].run

ExpectedMatches(n) == n \in {Unstated, LastSequence(lines)}

(* Mutant: whatever is recorded at the sequence counts as the same event.  *)
SequenceTaken(e) == e.seq <= LastSequence(lines)

(* Mutant: a recorded sequence is always a conflict.                       *)
NeverRecorded(e) == FALSE

AlreadyRecorded(e) ==
  e.seq <= LastSequence(lines) /\ lines[e.seq + 1] = e

(* Mutant: a gap after the last sequence is not noticed.                   *)
FollowsLoosely(e) ==
  /\ e.seq > LastSequence(lines)
  /\ lines = <<>> => e.kind = "run_started"

Follows(e) ==
  /\ e.seq = LastSequence(lines) + 1
  /\ lines = <<>> => e.kind = "run_started"

(* Mutant: the size limit is not applied to what is written.               *)
FitsAlways(events) == TRUE

Fits(events) == Len(events) <= MaxEvents

(* Mutant: the line before a torn tail is taken for part of the tear.      *)
DropBeforeTear ==
  IF torn /\ lines # <<>> THEN SubSeq(lines, 1, Len(lines) - 1) ELSE lines

(* _parse_journal: a torn trailing line is dropped, all others are kept.   *)
Recovered == lines

Answer(c, outcome, last) ==
  reply' = [reply EXCEPT ![c] = [outcome |-> outcome, last |-> last]]

(* _write_events: the recovered events and the new one, atomically; the    *)
(* rewritten file has no torn tail.                                        *)
Write(c, e) ==
  IF Fits(Append(Recovered, e))
  THEN /\ lines' = Append(Recovered, e)
       /\ torn' = FALSE
       /\ Answer(c, "appended", e.seq)
  ELSE /\ Answer(c, "failed", -1)
       /\ UNCHANGED <<lines, torn>>

Refuse(c, outcome) ==
  /\ Answer(c, outcome, -1)
  /\ UNCHANGED <<lines, torn>>

-----------------------------------------------------------------------------
Outstanding(c, o) == op[c] = o /\ reply[c] = NoReply

AppendEvent(c) ==
  /\ Outstanding(c, "append")
  /\ LET e == event[c]
         mine == RunMatches(e) /\ ExpectedMatches(expected[c]) IN
     \/ ~Readable /\ Refuse(c, "failed")
     \/ /\ Readable /\ mine /\ AlreadyRecorded(e)
        /\ Answer(c, "noop", LastSequence(lines))
        /\ UNCHANGED <<lines, torn>>
     \/ Readable /\ mine /\ ~AlreadyRecorded(e) /\ Follows(e) /\ Write(c, e)
     \/ /\ Readable
        /\ ~(mine /\ (AlreadyRecorded(e) \/ Follows(e)))
        /\ Refuse(c, "conflict")
  /\ UNCHANGED <<clientVars, tears, acked>>

(* Mutant: compaction does not look at the tail.                           *)
TailUnchecked == FALSE

TailIsCheckpoint == lines[Len(lines)].kind = "checkpoint"

CompactJournal(c) ==
  /\ Outstanding(c, "compact")
  /\ \/ ~Readable /\ Refuse(c, "failed")
     \/ /\ Readable
        /\ lines = <<>> \/ ~ExpectedMatches(expected[c])
        /\ Refuse(c, "conflict")
     \/ /\ Readable /\ lines # <<>> /\ ExpectedMatches(expected[c])
        /\ \/ /\ TailIsCheckpoint
              /\ Answer(c, "noop", LastSequence(lines))
              /\ UNCHANGED <<lines, torn>>
           \/ /\ ~TailIsCheckpoint
              /\ \E b \in Bodies : Write(c, NewCheckpoint(lines, b))
  /\ UNCHANGED <<clientVars, tears, acked>>

-----------------------------------------------------------------------------
(* The callers.                                                            *)

(* journal-status: replay the readable journal.                            *)
Status(c) ==
  /\ op[c] = "none"
  /\ Readable
  /\ known' = [known EXCEPT ![c] = LastSequence(lines)]
  /\ UNCHANGED <<lines, torn, tears, op, event, expected, reply, acked>>

Expecting(c) == {IF s THEN known[c] ELSE Unstated : s \in Stated}

(* A caller numbers its event after the last sequence it has been told.    *)
RequestAppend(c) ==
  /\ op[c] = "none"
  /\ known[c] < MaxEvents
  /\ \E r \in RunIds, b \in Bodies, n \in Expecting(c),
        k \in IF known[c] = -1 THEN {"run_started"} ELSE CallerKinds :
        /\ event' = [event EXCEPT ![c] = NewEvent(r, known[c] + 1, k, b)]
        /\ expected' = [expected EXCEPT ![c] = n]
  /\ op' = [op EXCEPT ![c] = "append"]
  /\ UNCHANGED <<lines, torn, tears, reply, known, acked>>

RequestCompact(c) ==
  /\ op[c] = "none"
  /\ \E n \in Expecting(c) : expected' = [expected EXCEPT ![c] = n]
  /\ op' = [op EXCEPT ![c] = "compact"]
  /\ UNCHANGED <<lines, torn, tears, event, reply, known, acked>>

Forget(c) ==
  /\ op' = [op EXCEPT ![c] = "none"]
  /\ event' = [event EXCEPT ![c] = NoEvent]
  /\ expected' = [expected EXCEPT ![c] = Unstated]
  /\ reply' = [reply EXCEPT ![c] = NoReply]

Confirmed(c) == reply[c].outcome \in {"appended", "noop"}

Hear(c) ==
  /\ reply[c] # NoReply
  /\ Forget(c)
  /\ known' = [known EXCEPT ![c] = IF Confirmed(c) THEN reply[c].last ELSE @]
  /\ acked' = IF Confirmed(c) /\ op[c] = "append"
              THEN acked \cup {event[c]} ELSE acked
  /\ UNCHANGED <<lines, torn, tears>>

(* The answer is lost and the caller sends the same request again.         *)
LoseReply(c) ==
  /\ reply[c] # NoReply
  /\ reply' = [reply EXCEPT ![c] = NoReply]
  /\ UNCHANGED <<lines, torn, tears, clientVars, acked>>

(* The caller dies and forgets its request, answered or not.               *)
CallerDies(c) ==
  /\ op[c] # "none"
  /\ Forget(c)
  /\ known' = [known EXCEPT ![c] = -1]
  /\ UNCHANGED <<lines, torn, tears, acked>>

(* Outside the program: the last line loses its end (a copy cut short).    *)
Tear ==
  /\ tears < MaxTears
  /\ lines # <<>>
  /\ ~torn
  /\ lines' = SubSeq(lines, 1, Len(lines) - 1)
  /\ torn' = TRUE
  /\ tears' = tears + 1
  /\ UNCHANGED <<op, event, expected, reply, known, acked>>

Init ==
  /\ lines = <<>>
  /\ torn = FALSE
  /\ tears = 0
  /\ op = [c \in Clients |-> "none"]
  /\ event = [c \in Clients |-> NoEvent]
  /\ expected = [c \in Clients |-> Unstated]
  /\ reply = [c \in Clients |-> NoReply]
  /\ known = [c \in Clients |-> -1]
  /\ acked = {}

ClientNext(c) ==
  \/ Status(c) \/ RequestAppend(c) \/ RequestCompact(c)
  \/ AppendEvent(c) \/ CompactJournal(c)
  \/ Hear(c) \/ LoseReply(c) \/ CallerDies(c)

Next == Tear \/ \E c \in Clients : ClientNext(c)

Spec == Init /\ [][Next]_vars

-----------------------------------------------------------------------------
(* The types, and the size limit that the next read enforces again.        *)
TypeOK ==
  /\ lines \in Seq(Event)
  /\ Len(lines) <= MaxEvents
  /\ torn \in BOOLEAN
  /\ tears \in 0 .. MaxTears
  /\ op \in [Clients -> {"none", "append", "compact"}]
  /\ event \in [Clients -> Event]
  /\ expected \in [Clients -> Int]
  /\ reply \in [Clients -> Reply]
  /\ known \in [Clients -> LastNumber]
  /\ acked \in SUBSET Event

(* What the store writes, the store can read: one run, started once and    *)
(* first, no gaps, and every checkpoint matching the events before it.     *)
AlwaysReadable == Readable

(* journal_store.py 375-378: a journal contains exactly one run_started.   *)
OneRunStarted ==
  \A i, j \in 1 .. Len(lines) :
     lines[i].kind = "run_started" /\ lines[j].kind = "run_started" => i = j

(* A confirmed event is in the journal at its sequence for good, unless    *)
(* its line was torn from outside.                                         *)
ConfirmedIsRecorded ==
  tears = 0 =>
    \A e \in acked : e.seq < Len(lines) /\ lines[e.seq + 1] = e

(* Recorded events are never changed or removed: a call appends at most    *)
(* one event after everything that was there, torn tail or not.            *)
AppendOnly ==
  [][\/ Tear
     \/ /\ Len(lines') = Len(lines) + 1
        /\ SubSeq(lines', 1, Len(lines)) = lines]_lines

(* journal_store.py 62-69: an append of an event that is already recorded  *)
(* byte for byte (the retry after a lost answer) is no conflict.           *)
RetryIsNoConflict ==
  [][\A c \in Clients :
       /\ AppendEvent(c) /\ Readable
       /\ event[c].seq < Len(lines) /\ lines[event[c].seq + 1] = event[c]
       => reply'[c].outcome = "noop" /\ lines' = lines]_vars
=============================================================================
