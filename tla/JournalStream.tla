---------------------------- MODULE JournalStream ----------------------------
(***************************************************************************)
(* The dual-write adapters of research/journal_adapters.py on top of the   *)
(* journal store: discovery_run_events projects a finished discovery run   *)
(* to a stream of events, append_discovery_journal appends the stream one  *)
(* event at a time (and is run again from the start after a fault), and    *)
(* the two synthetic_from reductions are compared for parity.              *)
(***************************************************************************)
EXTENDS JournalStore, Subsequences

CONSTANTS Results,           \* the finished runs that may be projected
          MaxCompactions,    \* bound: journal-compact runs of an operator
          MaxFaults,         \* bound: how often a writer is interrupted
          MaxDays            \* bound: how often midnight passes

ASSUME StreamAssumption ==
  /\ \A r \in Results : /\ r.retries \in Nat
                         /\ r.quarantines \in Seq(ToSet(r.quarantines))
                         /\ r.assessments \in Seq(ToSet(r.assessments))
                         /\ r.leads \in Seq(ToSet(r.leads))
  /\ MaxCompactions \in Nat /\ MaxFaults \in Nat /\ MaxDays \in Nat

VARIABLES result,   \* the run that is being recorded
          today,    \* the date of the machine
          stream,   \* stream[w]: the events w is appending
          pos,      \* pos[w]: how many of them the store has confirmed
          phase,    \* phase[w]: where append_discovery_journal stands
          faults,   \* interruptions so far
          compactions  \* compactions by an operator so far

streamVars == <<result, today, stream, pos, phase, faults, compactions>>
allVars == <<vars, streamVars>>

TheRun == CHOOSE r \in RunIds : TRUE

-----------------------------------------------------------------------------
(* A result: [dated, retries, quarantines, assessments, leads, complete],  *)
(* each assessment being [query, outcome]; it is dated when config.run_on  *)
(* is set.  A body is <<kind, payload>>.                                   *)

(* _run_on: without a configured date, whatever today is.                  *)
RunOn == IF result.dated THEN 0 ELSE today

(* _GAP_ASSESSMENTS *)
IsGap(a) == a.outcome \in {"access_gap", "transport_error"}

(* Mutant: only blocked access is reported as a gap.                       *)
OnlyAccessGap(a) ==
  IF a.outcome = "access_gap" THEN <<"provider_gap", a>>
                              ELSE <<"query_executed", a>>

OutcomeBody(a) ==
  IF IsGap(a) THEN <<"provider_gap", a>> ELSE <<"query_executed", a>>

(* Each assessment is a planned query and its outcome.                     *)
QueryBodies(assessments) ==
  [k \in 1 .. 2 * Len(assessments) |->
     LET a == assessments[(k + 1) \div 2] IN
     IF k % 2 = 1 THEN <<"query_planned", a.query>> ELSE OutcomeBody(a)]

StreamBodies(r, day) ==
  <<<<"run_started", day>>>>
    \o [i \in 1 .. r.retries |-> <<"retry_scheduled", i>>]
    \o [i \in 1 .. Len(r.quarantines) |->
          <<"model_response_invalid", r.quarantines[i]>>]
    \o QueryBodies(r.assessments)
    \o [i \in 1 .. Len(r.leads) |-> <<"lead_found", r.leads[i]>>]
    \o <<<<"run_completed", r.complete>>>>

(* discovery_run_events: gap-free sequence numbers from run_started on.    *)
DiscoveryRunEvents(r, day) ==
  LET bodies == StreamBodies(r, day) IN
  [i \in DOMAIN bodies |->
     NewEvent(TheRun, i - 1, IF i = 1 THEN "run_started" ELSE "recorded",
              bodies[i])]

(* The places of the assessments that are reported as gaps.                *)
Gaps(assessments) == {i \in DOMAIN assessments : IsGap(assessments[i])}

SyntheticFromResult(r, day) ==
  [run_on    |-> day,
   planned   |-> [i \in DOMAIN r.assessments |-> r.assessments[i].query],
   executed  |-> AtPlaces(r.assessments,
                          DOMAIN r.assessments \ Gaps(r.assessments)),
   gaps      |-> AtPlaces(r.assessments, Gaps(r.assessments)),
   leads     |-> r.leads,
   invalid   |-> r.quarantines,
   retries   |-> r.retries,
   status    |-> r.complete]

(* The payloads of the events of one kind, in order.                       *)
Payloads(events, kind) ==
  FlattenSeq([i \in DOMAIN events |->
                IF events[i].kind # "checkpoint" /\ events[i].body[1] = kind
                THEN <<events[i].body[2]>> ELSE <<>>])

SyntheticFromEvents(events) ==
  [run_on    |-> Payloads(events, "run_started")[1],
   planned   |-> Payloads(events, "query_planned"),
   executed  |-> Payloads(events, "query_executed"),
   gaps      |-> Payloads(events, "provider_gap"),
   leads     |-> Payloads(events, "lead_found"),
   invalid   |-> Payloads(events, "model_response_invalid"),
   retries   |-> Len(Payloads(events, "retry_scheduled")),
   status    |-> Last(Payloads(events, "run_completed"))]

(* replay_run and replay_journal: the counters of one kind each, and the   *)
(* last payload of the kinds of which the last one counts.                 *)
LastOf(payloads) == IF payloads = <<>> THEN <<>> ELSE <<Last(payloads)>>

ReplayJournal(events) ==
  LET checkpoints ==
        AtPlaces(events, {i \in DOMAIN events : events[i].kind = "checkpoint"})
  IN
  [parameters  |-> LastOf(Payloads(events, "run_started")),
   leads       |-> Len(Payloads(events, "lead_found")),
   gaps        |-> Len(Payloads(events, "provider_gap")),
   invalid     |-> Len(Payloads(events, "model_response_invalid")),
   retries     |-> Len(Payloads(events, "retry_scheduled")),
   sequence    |-> LastSequence(events),
   checkpoint  |-> LastOf([i \in DOMAIN checkpoints |-> checkpoints[i].last]),
   completed   |-> LastOf(Payloads(events, "run_completed"))]

-----------------------------------------------------------------------------
StreamInit ==
  /\ Init
  /\ result \in Results
  /\ today = 0
  /\ stream = [w \in Clients |-> <<>>]
  /\ pos = [w \in Clients |-> 0]
  /\ phase = [w \in Clients |-> "off"]
  /\ faults = 0
  /\ compactions = 0

(* The events are projected when the helper's caller starts.               *)
StartWriter(w) ==
  /\ phase[w] = "off"
  /\ stream' = [stream EXCEPT ![w] = DiscoveryRunEvents(result, RunOn)]
  /\ pos' = [pos EXCEPT ![w] = 0]
  /\ phase' = [phase EXCEPT ![w] = "appending"]
  /\ UNCHANGED <<vars, result, today, faults, compactions>>

(* One iteration of the loop asks for the next append; after the loop the  *)
(* checkpoint is asked for.                                                *)
Send(w) ==
  /\ phase[w] = "appending"
  /\ op[w] = "none"
  /\ IF pos[w] < Len(stream[w])
     THEN /\ op' = [op EXCEPT ![w] = "append"]
          /\ event' = [event EXCEPT ![w] = stream[w][pos[w] + 1]]
     ELSE /\ op' = [op EXCEPT ![w] = "compact"]
          /\ UNCHANGED event
  /\ UNCHANGED <<lines, torn, tears, expected, reply, known, acked>>
  /\ UNCHANGED streamVars

Serve(w) ==
  /\ phase[w] = "appending"
  /\ AppendEvent(w) \/ CompactJournal(w)
  /\ UNCHANGED streamVars

(* append_event returns or raises; nothing in the helper catches it.       *)
Receive(w) ==
  /\ phase[w] = "appending"
  /\ Hear(w)
  /\ phase' = [phase EXCEPT ![w] =
                 IF ~Confirmed(w) THEN "raised"
                 ELSE IF op[w] = "compact" THEN "done" ELSE "appending"]
  /\ pos' = [pos EXCEPT ![w] = IF Confirmed(w) /\ op[w] = "append"
                               THEN @ + 1 ELSE @]
  /\ UNCHANGED <<result, today, stream, faults, compactions>>

(* A fault anywhere in the helper; it is run again from the start.         *)
Interrupt(w) ==
  /\ phase[w] = "appending"
  /\ faults < MaxFaults
  /\ faults' = faults + 1
  /\ phase' = [phase EXCEPT ![w] = "off"]
  /\ stream' = [stream EXCEPT ![w] = <<>>]
  /\ pos' = [pos EXCEPT ![w] = 0]
  /\ Forget(w)
  /\ UNCHANGED <<lines, torn, tears, known, acked, result, today, compactions>>

(* The operator's journal-compact between two appends.                     *)
OperatorCompact ==
  /\ compactions < MaxCompactions
  /\ compactions' = compactions + 1
  /\ Readable /\ lines # <<>> /\ ~TailIsCheckpoint
  /\ \E b \in Bodies :
       LET all == Append(Recovered, NewCheckpoint(lines, b)) IN
       Fits(all) /\ lines' = all
  /\ torn' = FALSE
  /\ UNCHANGED <<tears, op, event, expected, reply, known, acked>>
  /\ UNCHANGED <<result, today, stream, pos, phase, faults>>

Midnight ==
  /\ today < MaxDays
  /\ today' = today + 1
  /\ UNCHANGED <<vars, result, stream, pos, phase, faults, compactions>>

WriterNext(w) == StartWriter(w) \/ Send(w) \/ Serve(w) \/ Receive(w)

Finished == \A w \in Clients : phase[w] \in {"done", "raised"}

StreamNext ==
  \/ \E w \in Clients : WriterNext(w) \/ Interrupt(w)
  \/ OperatorCompact
  \/ Midnight
  \/ Finished /\ UNCHANGED allVars

StreamSpec == StreamInit /\ [][StreamNext]_allVars

(* A started helper is a sequential program: it keeps running unless it is *)
(* interrupted, and whoever interrupted it runs it again.                  *)
FairStreamSpec ==
  StreamSpec /\ \A w \in Clients : WF_allVars(WriterNext(w))

-----------------------------------------------------------------------------
(* The run's date cannot change under the helper and the reductions.       *)
DateIsStable == result.dated \/ today = 0

(* The journal is always a prefix of the stream and its checkpoint: two    *)
(* writers and any number of restarts neither repeat nor reorder an event. *)
JournalIsPrefix ==
  LET whole == DiscoveryRunEvents(result, 0) IN
  compactions = 0 /\ DateIsStable =>
    \A i \in 1 .. Len(lines) :
       IF i <= Len(whole) THEN lines[i] = whole[i]
       ELSE i = Len(whole) + 1 /\ lines[i].kind = "checkpoint"

(* journal_adapters.py 15-18: once recorded, the file can be read and both *)
(* reductions agree, gaps, retries, quarantines and checkpoints included;  *)
(* when the run carries no date and midnight has passed, in everything but *)
(* the date.  The status command's replay of the same file agrees with     *)
(* them, and its checkpoint is the helper's own, over the completed run.   *)
Parity ==
  (\E w \in Clients : phase[w] = "done") =>
     LET replayed == SyntheticFromEvents(lines)
         expects  == SyntheticFromResult(result, RunOn)
         status   == ReplayJournal(lines)
     IN
     /\ Readable
     /\ [replayed EXCEPT !.run_on = RunOn] = expects
     /\ DateIsStable => replayed.run_on = RunOn
     /\ <<status.leads, status.gaps, status.invalid, status.retries>>
          = <<Len(expects.leads), Len(expects.gaps), Len(expects.invalid),
              expects.retries>>
     /\ status.parameters = <<replayed.run_on>>
     /\ status.completed = <<expects.status>>
     /\ status.checkpoint = <<status.sequence - 1>>

(* journal_adapters.py 573-581: running the helper again after a fault is  *)
(* safe; the store refuses it only when an operator's checkpoint has taken *)
(* a sequence number that the helper had fixed beforehand, or when the run *)
(* carries no date and was projected again after midnight.                 *)
RefusedOnlyAfterCompaction ==
  (\E w \in Clients : phase[w] = "raised") =>
     \/ ~DateIsStable
     \/ \E i \in 1 .. Len(lines) :
          /\ lines[i].kind = "checkpoint"
          /\ i <= Len(DiscoveryRunEvents(result, 0))

(* Every writer finishes, and leaves the whole run and its checkpoint,     *)
(* unless an operator has compacted the journal under it or its date has   *)
(* changed.                                                                *)
StreamRecorded ==
  <>[](compactions = 0 /\ DateIsStable =>
         /\ \A w \in Clients : phase[w] = "done"
         /\ Len(lines) = Len(DiscoveryRunEvents(result, 0)) + 1)
=============================================================================
