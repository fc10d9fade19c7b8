----------------------------- MODULE JournalProofs -----------------------------
(***************************************************************************)
(* Proofs about JournalStore and about JournalStream, which extends it.    *)
(*                                                                         *)
(* The store, for every set of callers, runs and payloads, every journal   *)
(* size and any number of torn lines, as long as callers append only the   *)
(* ordinary kinds after sequence 0 (with the other kinds AlwaysReadable is *)
(* false, as a run shows).                                                 *)
(*                                                                         *)
(* The stream, for every set of writers and results, any number of         *)
(* interruptions, compactions and midnights.  The argument follows the     *)
(* journal while it is undisturbed: the date is stable, and no checkpoint  *)
(* stands where an event of the run belongs.  Until then the file is a     *)
(* prefix of the stream that every writer has projected, and no writer is  *)
(* ahead of it.                                                            *)
(*                                                                         *)
(* Parity needs no undisturbed journal.  Whatever happens, the lines stay  *)
(* one projection of the run, of some day, with a checkpoint at most as    *)
(* the last line; a writer that is done has had the whole projection       *)
(* confirmed under such a checkpoint.  What the reductions compute from    *)
(* those lines follows by induction over the sequences of a result: each   *)
(* assessment adds two events, each other entry one, and the checkpoint    *)
(* none.  How the helper ends needs both: its steps are counted along the  *)
(* projection, and undisturbed writers are not refused.                    *)
(***************************************************************************)
EXTENDS JournalStream, SequenceLemmas, TLAPS

(* Callers leave run_started and checkpoint to the store's own rules.      *)
HonestCallers == CallerKinds \subseteq {"recorded"}

(* The kind of an outstanding append fits its sequence number.             *)
HonestEvents ==
  \A c \in Clients :
     op[c] = "append" =>
        event[c].kind = IF event[c].seq = 0 THEN "run_started" ELSE "recorded"

(* Only an outstanding request has an answer on its way.                   *)
NoStrayReply == \A c \in Clients : op[c] = "none" => reply[c] = NoReply

(* A confirmation on its way to an appender is about a recorded event.     *)
ConfirmedOnItsWay ==
  tears = 0 =>
    \A c \in Clients :
       op[c] = "append" /\ Confirmed(c) =>
          event[c].seq < Len(lines) /\ lines[event[c].seq + 1] = event[c]

IInv ==
  /\ TypeOK /\ HonestEvents /\ NoStrayReply
  /\ AlwaysReadable
  /\ ConfirmedOnItsWay /\ ConfirmedIsRecorded

-----------------------------------------------------------------------------
(* Facts about sequences.                                                  *)

LEMMA PrefixOfPrefix ==
  ASSUME NEW S, NEW s \in Seq(S), NEW n \in 0 .. Len(s), NEW i \in 0 .. n
  PROVE  SubSeq(SubSeq(s, 1, n), 1, i) = SubSeq(s, 1, i)
  OBVIOUS

LEMMA PrefixOfAppend ==
  ASSUME NEW S, NEW s \in Seq(S), NEW e \in S, NEW i \in 0 .. Len(s)
  PROVE  SubSeq(Append(s, e), 1, i) = SubSeq(s, 1, i)
  OBVIOUS

LEMMA WholeIsPrefix ==
  ASSUME NEW S, NEW s \in Seq(S)
  PROVE  SubSeq(s, 1, Len(s)) = s
  OBVIOUS

LEMMA ContentHashType ==
  ASSUME NEW s \in Seq(Event)
  PROVE  ContentHash(s) \in Digests
  <1> DEFINE Pair == Kinds \X Bodies
             n    == Len(s)
  <1>1. ASSUME NEW i \in 1 .. n
        PROVE  <<s[i].kind, s[i].body>> \in Pair
    <2>1. s[i] \in Event
      OBVIOUS
    <2>2. s[i].kind \in Kinds /\ s[i].body \in Bodies
      BY <2>1 DEF Event
    <2> QED
      BY <2>2
  <1>2. n \in Nat
    OBVIOUS
  <1> HIDE DEF Pair, n
  <1>3. ContentHash(s) \in [1 .. n -> Pair]
    <2>1. ContentHash(s) = [i \in 1 .. n |-> <<s[i].kind, s[i].body>>]
      BY DEF ContentHash, n
    <2> QED
      BY <1>1, <2>1
  <1>4. ContentHash(s) \in Seq(Pair)
    BY <1>2, <1>3
  <1> QED
    BY <1>4 DEF Digests, Pair

(* Appending the event that the store's conditions admit keeps the journal *)
(* readable: its own checks, and those of every earlier checkpoint.        *)
LEMMA ReadableAppend ==
  ASSUME NEW S, NEW s \in Seq(S), NEW e \in S,
         Integrity(s), CheckpointsVerify(s),
         e.seq = Len(s),
         s # <<>> => e.run = s[1].run,
         e.kind = "run_started" <=> s = <<>>,
         e.kind = "checkpoint" =>
           e.digest = ContentHash(s) /\ e.last = Len(s) - 1
  PROVE  Integrity(Append(s, e)) /\ CheckpointsVerify(Append(s, e))
  <1> DEFINE t == Append(s, e)
  <1>1. /\ t \in Seq(S) /\ Len(t) = Len(s) + 1 /\ t[Len(s) + 1] = e
        /\ \A i \in 1 .. Len(s) : t[i] = s[i]
    OBVIOUS
  <1>2. Integrity(t)
    <2> SUFFICES ASSUME NEW i \in 1 .. Len(t)
                 PROVE  /\ t[i].run = t[1].run
                        /\ t[i].seq = i - 1
                        /\ t[i].kind = "run_started" <=> i = 1
      BY DEF Integrity
    <2>1. CASE i \in 1 .. Len(s)
      BY <1>1, <2>1 DEF Integrity
    <2>2. CASE i = Len(s) + 1
      <3>1. s = <<>> <=> Len(s) = 0
        OBVIOUS
      <3> QED
        BY <1>1, <2>2, <3>1
    <2> QED
      BY <1>1, <2>1, <2>2
  <1>3. CheckpointsVerify(t)
    <2> SUFFICES ASSUME NEW i \in 1 .. Len(t), t[i].kind = "checkpoint"
                 PROVE  /\ t[i].digest = ContentHash(SubSeq(t, 1, i - 1))
                        /\ t[i].last = i - 2
      BY DEF CheckpointsVerify
    <2>1. CASE i \in 1 .. Len(s)
      <3>1. SubSeq(t, 1, i - 1) = SubSeq(s, 1, i - 1)
        BY <2>1, PrefixOfAppend
      <3> QED
        BY <1>1, <2>1, <3>1 DEF CheckpointsVerify
    <2>2. CASE i = Len(s) + 1
      <3>1. i - 1 = Len(s) /\ Len(s) \in 0 .. Len(s)
        BY <2>2
      <3>2. SubSeq(t, 1, Len(s)) = SubSeq(s, 1, Len(s))
        BY <3>1, PrefixOfAppend
      <3>3. SubSeq(t, 1, i - 1) = s
        BY <3>1, <3>2, WholeIsPrefix
      <3>4. t[i] = e /\ e.kind = "checkpoint" /\ i - 2 = Len(s) - 1
        BY <1>1, <2>2
      <3>5. t[i].digest = ContentHash(s) /\ t[i].last = i - 2
        BY <3>4
      <3> HIDE DEF t
      <3> QED
        BY <3>3, <3>5
    <2> QED
      BY <1>1, <2>1, <2>2
  <1> QED
    BY <1>2, <1>3

(* Losing the last line keeps the rest readable.                           *)
LEMMA ReadablePrefix ==
  ASSUME NEW s \in Seq(Event), NEW n \in 0 .. Len(s),
         Integrity(s), CheckpointsVerify(s)
  PROVE  Integrity(SubSeq(s, 1, n)) /\ CheckpointsVerify(SubSeq(s, 1, n))
  <1> DEFINE t == SubSeq(s, 1, n)
  <1>1. t \in Seq(Event) /\ Len(t) = n /\ \A i \in 1 .. n : t[i] = s[i]
    OBVIOUS
  <1>2. Integrity(t)
    BY <1>1 DEF Integrity
  <1>3. CheckpointsVerify(t)
    <2> SUFFICES ASSUME NEW i \in 1 .. n, t[i].kind = "checkpoint"
                 PROVE  /\ t[i].digest = ContentHash(SubSeq(t, 1, i - 1))
                        /\ t[i].last = i - 2
      BY <1>1 DEF CheckpointsVerify
    <2>1. i - 1 \in 0 .. n
      OBVIOUS
    <2>2. SubSeq(t, 1, i - 1) = SubSeq(s, 1, i - 1)
      BY <2>1, PrefixOfPrefix
    <2>3. i \in 1 .. Len(s) /\ t[i] = s[i]
      BY <1>1
    <2> QED
      BY <2>2, <2>3 DEF CheckpointsVerify
  <1> QED
    BY <1>2, <1>3

-----------------------------------------------------------------------------
(* The invariant is inductive.                                             *)

LEMMA NoEventType == NoEvent \in Event
  <1>1. (CHOOSE r \in RunIds : TRUE) \in RunIds
        /\ (CHOOSE b \in Bodies : TRUE) \in Bodies
    BY SizesAssumption
  <1>2. <<>> \in Digests
    BY DEF Digests
  <1> QED
    BY <1>1, <1>2 DEF NoEvent, NewEvent, Event, Kinds

LEMMA ReplyTypes ==
  /\ NoReply \in Reply
  /\ \A n \in LastNumber : \A o \in {"appended", "noop", "conflict", "failed"} :
        [outcome |-> o, last |-> n] \in Reply
  BY DEF NoReply, Reply, LastNumber

LEMMA InitIInv == Init => IInv
  <1> SUFFICES ASSUME Init PROVE IInv
    OBVIOUS
  <1>1. TypeOK
    <2>1. lines \in Seq(Event) /\ Len(lines) <= MaxEvents
      BY SizesAssumption DEF Init
    <2>2. event \in [Clients -> Event] /\ reply \in [Clients -> Reply]
      <3>1. NoEvent \in Event /\ NoReply \in Reply
        BY NoEventType, ReplyTypes
      <3>2. event = [c \in Clients |-> NoEvent]
            /\ reply = [c \in Clients |-> NoReply]
        BY DEF Init
      <3> QED
        BY <3>1, <3>2
    <2>3. torn \in BOOLEAN /\ tears \in 0 .. MaxTears /\ acked = {}
      <3>1. torn = FALSE /\ tears = 0 /\ acked = {}
        BY DEF Init
      <3>2. 0 \in 0 .. MaxTears
        BY SizesAssumption
      <3> QED
        BY <3>1, <3>2
    <2>4. op \in [Clients -> {"none", "append", "compact"}]
      BY DEF Init
    <2>5. expected \in [Clients -> Int] /\ known \in [Clients -> LastNumber]
      <3>1. Unstated \in Int /\ -1 \in LastNumber
        BY DEF Unstated, LastNumber
      <3> QED
        BY <3>1 DEF Init
    <2> QED
      BY <2>1, <2>2, <2>3, <2>4, <2>5 DEF TypeOK
  <1>2. HonestEvents /\ NoStrayReply
    BY DEF Init, HonestEvents, NoStrayReply
  <1>3. AlwaysReadable
    BY DEF Init, AlwaysReadable, Readable, Integrity, CheckpointsVerify
  <1>4. ConfirmedOnItsWay /\ ConfirmedIsRecorded
    BY DEF Init, ConfirmedOnItsWay, ConfirmedIsRecorded
  <1> QED
    BY <1>1, <1>2, <1>3, <1>4 DEF IInv

(* A step that leaves the file alone and only answers c.                   *)
LEMMA AnswerKeepsIInv ==
  ASSUME IInv, NEW c \in Clients,
         NEW o \in {"noop", "conflict", "failed"}, NEW n \in LastNumber,
         op[c] # "none", Answer(c, o, n),
         o = "noop" /\ op[c] = "append" =>
           event[c].seq < Len(lines) /\ lines[event[c].seq + 1] = event[c],
         UNCHANGED <<lines, torn, clientVars, tears, acked>>
  PROVE  IInv'
  <1>1. reply' = [reply EXCEPT ![c] = [outcome |-> o, last |-> n]]
    BY DEF Answer
  <1>2. UNCHANGED <<lines, torn, tears, op, event, expected, known, acked>>
    BY DEF clientVars
  <1>3. TypeOK'
    <2>1. reply' \in [Clients -> Reply]
      BY <1>1, ReplyTypes DEF IInv, TypeOK
    <2> QED
      BY <1>2, <2>1 DEF IInv, TypeOK
  <1>6. NoStrayReply'
    BY <1>1, <1>2 DEF IInv, TypeOK, NoStrayReply
  <1>4. HonestEvents' /\ AlwaysReadable' /\ ConfirmedIsRecorded'
    BY <1>2 DEF IInv, HonestEvents, AlwaysReadable, Readable, Integrity,
                CheckpointsVerify, ContentHash, ConfirmedIsRecorded
  <1>5. ConfirmedOnItsWay'
    <2> SUFFICES ASSUME tears = 0, NEW d \in Clients,
                        op[d] = "append", Confirmed(d)'
                 PROVE  /\ event[d].seq < Len(lines)
                        /\ lines[event[d].seq + 1] = event[d]
      BY <1>2 DEF ConfirmedOnItsWay
    <2>1. CASE d = c
      <3>1. reply'[c] = [outcome |-> o, last |-> n]
        BY <1>1 DEF IInv, TypeOK
      <3>2. o = "noop"
        BY <2>1, <3>1 DEF Confirmed
      <3> QED
        BY <2>1, <3>2
    <2>2. CASE d # c
      <3>1. Confirmed(d)
        BY <1>1, <2>2 DEF Confirmed, IInv, TypeOK
      <3> QED
        BY <3>1 DEF IInv, ConfirmedOnItsWay
    <2> QED
      BY <2>1, <2>2
  <1> QED
    BY <1>3, <1>4, <1>5, <1>6 DEF IInv

(* Writing an event that the store's conditions admit.                     *)
LEMMA WriteKeepsIInv ==
  ASSUME IInv, NEW c \in Clients, NEW e \in Event, Write(c, e),
         op[c] # "none", op[c] = "append" => e = event[c],
         e.seq = Len(lines),
         lines # <<>> => e.run = lines[1].run,
         e.kind = "run_started" <=> lines = <<>>,
         e.kind = "checkpoint" =>
           e.digest = ContentHash(lines) /\ e.last = Len(lines) - 1,
         UNCHANGED <<clientVars, tears, acked>>
  PROVE  IInv'
  <1>1. UNCHANGED <<tears, op, event, expected, known, acked>>
    BY DEF clientVars
  <1>2. CASE ~Fits(Append(Recovered, e))
    <2>1. Answer(c, "failed", -1) /\ UNCHANGED <<lines, torn>>
      BY <1>2 DEF Write
    <2> QED
      BY <2>1, AnswerKeepsIInv DEF LastNumber
  <1>3. CASE Fits(Append(Recovered, e))
    <2>1. /\ lines' = Append(lines, e) /\ torn' = FALSE
          /\ reply' = [reply EXCEPT ![c] =
                         [outcome |-> "appended", last |-> e.seq]]
          /\ Len(Append(lines, e)) <= MaxEvents
      BY <1>3 DEF Write, Recovered, Answer, Fits
    <2>2. lines \in Seq(Event) /\ Len(lines) \in Nat
      BY DEF IInv, TypeOK
    <2>3. /\ lines' \in Seq(Event) /\ Len(lines') = Len(lines) + 1
          /\ lines'[Len(lines) + 1] = e
          /\ \A i \in 1 .. Len(lines) : lines'[i] = lines[i]
      BY <2>1, <2>2
    <2>4. TypeOK'
      <3>1. e.seq \in LastNumber
        BY DEF Event, LastNumber
      <3>2. reply' \in [Clients -> Reply]
        BY <2>1, <3>1, ReplyTypes DEF IInv, TypeOK
      <3>3. Len(lines') <= MaxEvents /\ torn' \in BOOLEAN
        BY <2>1
      <3> QED
        BY <1>1, <2>3, <3>2, <3>3 DEF IInv, TypeOK
    <2>5. HonestEvents' /\ NoStrayReply'
      BY <1>1, <2>1 DEF IInv, TypeOK, HonestEvents, NoStrayReply
    <2>6. AlwaysReadable'
      <3>1. Integrity(lines) /\ CheckpointsVerify(lines)
        BY DEF IInv, AlwaysReadable, Readable
      <3>2. /\ Integrity(Append(lines, e))
            /\ CheckpointsVerify(Append(lines, e))
        BY <2>2, <3>1, ReadableAppend
      <3>3. Integrity(lines') /\ CheckpointsVerify(lines')
        BY <2>1, <3>2
      <3> QED
        BY <3>3 DEF AlwaysReadable, Readable, Integrity, CheckpointsVerify,
                    ContentHash
    <2>7. ASSUME NEW f \in Event, f.seq < Len(lines), lines[f.seq + 1] = f
          PROVE  f.seq < Len(lines') /\ lines'[f.seq + 1] = f
      <3>1. f.seq \in Nat
        BY DEF Event
      <3> QED
        BY <2>2, <2>3, <2>7, <3>1
    <2>8. ConfirmedIsRecorded'
      BY <1>1, <2>7 DEF IInv, TypeOK, ConfirmedIsRecorded
    <2>9. ConfirmedOnItsWay'
      <3> SUFFICES ASSUME tears = 0, NEW d \in Clients,
                          op[d] = "append", Confirmed(d)'
                   PROVE  /\ event[d].seq < Len(lines')
                          /\ lines'[event[d].seq + 1] = event[d]
        BY <1>1 DEF ConfirmedOnItsWay
      <3>1. CASE d = c
        BY <2>2, <2>3, <3>1
      <3>2. CASE d # c
        <4>1. Confirmed(d)
          BY <2>1, <3>2 DEF Confirmed, IInv, TypeOK
        <4>2. /\ event[d].seq < Len(lines)
              /\ lines[event[d].seq + 1] = event[d]
          BY <4>1 DEF IInv, ConfirmedOnItsWay
        <4> QED
          BY <2>7, <4>2 DEF IInv, TypeOK
      <3> QED
        BY <3>1, <3>2
    <2> QED
      BY <2>4, <2>5, <2>6, <2>8, <2>9 DEF IInv
  <1> QED
    BY <1>2, <1>3

LEMMA AppendEventKeepsIInv ==
  ASSUME IInv, NEW c \in Clients, AppendEvent(c)
  PROVE  IInv'
  <1> DEFINE e == event[c]
             mine == RunMatches(e) /\ ExpectedMatches(expected[c])
  <1>1. /\ op[c] = "append" /\ UNCHANGED <<clientVars, tears, acked>>
        /\ e \in Event /\ lines \in Seq(Event)
    BY DEF AppendEvent, Outstanding, IInv, TypeOK
  <1>2. LastSequence(lines) \in LastNumber
    BY <1>1 DEF LastSequence, LastNumber
  <1>3. ASSUME NEW o \in {"conflict", "failed"}, Refuse(c, o)
        PROVE  IInv'
    BY <1>1, <1>3, AnswerKeepsIInv DEF Refuse, LastNumber
  <1>4. ASSUME mine, AlreadyRecorded(e),
               Answer(c, "noop", LastSequence(lines)),
               UNCHANGED <<lines, torn>>
        PROVE  IInv'
    <2>1. e.seq < Len(lines) /\ lines[e.seq + 1] = e
      BY <1>1, <1>4 DEF AlreadyRecorded, LastSequence, Event
    <2> QED
      BY <1>1, <1>2, <1>4, <2>1, AnswerKeepsIInv
  <1>5. ASSUME mine, Follows(e), Write(c, e)
        PROVE  IInv'
    <2>1. e.seq = Len(lines) /\ (lines = <<>> => e.kind = "run_started")
      BY <1>1, <1>5 DEF Follows, LastSequence
    <2>2. lines # <<>> => e.run = lines[1].run
      BY <1>5 DEF RunMatches
    <2>3. e.kind = IF e.seq = 0 THEN "run_started" ELSE "recorded"
      BY <1>1 DEF IInv, HonestEvents
    <2>4. lines = <<>> <=> Len(lines) = 0
      BY <1>1
    <2>5. /\ e.kind = "run_started" <=> lines = <<>>
          /\ e.kind # "checkpoint"
      BY <2>1, <2>3, <2>4
    <2> HIDE DEF mine
    <2> QED
      BY <1>1, <1>5, <2>1, <2>2, <2>5, WriteKeepsIInv
  <1> QED
    BY <1>3, <1>4, <1>5 DEF AppendEvent

LEMMA CompactJournalKeepsIInv ==
  ASSUME IInv, NEW c \in Clients, CompactJournal(c)
  PROVE  IInv'
  <1>1. /\ op[c] = "compact" /\ UNCHANGED <<clientVars, tears, acked>>
        /\ lines \in Seq(Event)
    BY DEF CompactJournal, Outstanding, IInv, TypeOK
  <1>2. LastSequence(lines) \in LastNumber
    BY <1>1 DEF LastSequence, LastNumber
  <1>3. ASSUME NEW o \in {"conflict", "failed"}, Refuse(c, o)
        PROVE  IInv'
    BY <1>1, <1>3, AnswerKeepsIInv DEF Refuse, LastNumber
  <1>4. ASSUME Answer(c, "noop", LastSequence(lines)),
               UNCHANGED <<lines, torn>>
        PROVE  IInv'
    BY <1>1, <1>2, <1>4, AnswerKeepsIInv
  <1>5. ASSUME lines # <<>>, NEW b \in Bodies,
               Write(c, NewCheckpoint(lines, b))
        PROVE  IInv'
    <2> DEFINE e == NewCheckpoint(lines, b)
    <2>1. lines[1].run \in RunIds /\ Len(lines) \in Nat
      <3>1. lines[1] \in Event /\ Len(lines) \in Nat
        BY <1>1, <1>5
      <3> QED
        BY <3>1 DEF Event
    <2>2. /\ e.run = lines[1].run /\ e.seq = Len(lines)
          /\ e.kind = "checkpoint" /\ e.digest = ContentHash(lines)
          /\ e.last = Len(lines) - 1
      BY <2>1 DEF NewCheckpoint, LastSequence
    <2>3. ContentHash(lines) \in Digests
      BY <1>1, ContentHashType
    <2>4. e \in Event
      <3>1. LastSequence(lines) + 1 \in Nat /\ LastSequence(lines) \in Int
        BY <2>1 DEF LastSequence
      <3>2. e = [run |-> lines[1].run, seq |-> LastSequence(lines) + 1,
                 kind |-> "checkpoint", body |-> b,
                 digest |-> ContentHash(lines), last |-> LastSequence(lines)]
        BY DEF NewCheckpoint
      <3> HIDE DEF e
      <3> QED
        BY <2>1, <2>3, <3>1, <3>2 DEF Event, Kinds
    <2> HIDE DEF e
    <2>5. Write(c, e)
      BY <1>5 DEF e
    <2> QED
      BY <1>1, <1>5, <2>2, <2>4, <2>5, WriteKeepsIInv
  <1> QED
    BY <1>3, <1>4, <1>5 DEF CompactJournal

(* A step of c's own that leaves the file alone.                          *)
LEMMA CallerStepKeepsIInv ==
  ASSUME IInv, NEW c \in Clients, TypeOK',
         UNCHANGED <<lines, tears>>,
         acked' = acked \/ ConfirmedIsRecorded',
         \A d \in Clients \ {c} : /\ op'[d] = op[d] /\ event'[d] = event[d]
                                  /\ reply'[d] = reply[d],
         op'[c] = "append" =>
           event'[c].kind = IF event'[c].seq = 0
                            THEN "run_started" ELSE "recorded",
         reply'[c] = NoReply
  PROVE  IInv'
  <1>1. HonestEvents'
    <2> SUFFICES ASSUME NEW d \in Clients, op'[d] = "append"
                 PROVE  event'[d].kind = IF event'[d].seq = 0
                                         THEN "run_started" ELSE "recorded"
      BY DEF HonestEvents
    <2>1. CASE d = c
      BY <2>1
    <2>2. CASE d # c
      BY <2>2 DEF IInv, HonestEvents
    <2> QED
      BY <2>1, <2>2
  <1>4. NoStrayReply'
    BY DEF IInv, NoStrayReply
  <1>2. AlwaysReadable' /\ ConfirmedIsRecorded'
    BY DEF IInv, AlwaysReadable, Readable, Integrity, CheckpointsVerify,
           ContentHash, ConfirmedIsRecorded
  <1>3. ConfirmedOnItsWay'
    <2> SUFFICES ASSUME tears = 0, NEW d \in Clients,
                        op'[d] = "append", Confirmed(d)'
                 PROVE  /\ event'[d].seq < Len(lines)
                        /\ lines[event'[d].seq + 1] = event'[d]
      BY DEF ConfirmedOnItsWay
    <2>1. d # c
      BY DEF Confirmed, NoReply
    <2>2. op[d] = "append" /\ Confirmed(d) /\ event'[d] = event[d]
      BY <2>1 DEF Confirmed
    <2> QED
      BY <2>2 DEF IInv, ConfirmedOnItsWay
  <1> QED
    BY <1>1, <1>2, <1>3, <1>4 DEF IInv

LEMMA CallerKeepsIInv ==
  ASSUME IInv, HonestCallers, NEW c \in Clients,
         Status(c) \/ RequestAppend(c) \/ RequestCompact(c)
           \/ Hear(c) \/ LoseReply(c) \/ CallerDies(c)
  PROVE  IInv'
  <1>1. CASE Status(c)
    <2>1. LastSequence(lines) \in LastNumber
      BY DEF IInv, TypeOK, LastSequence, LastNumber
    <2>2. TypeOK'
      BY <1>1, <2>1 DEF Status, IInv, TypeOK
    <2> QED
      BY <1>1, <2>2, CallerStepKeepsIInv DEF Status, IInv, NoStrayReply
  <1>2. CASE RequestAppend(c)
    <2>1. PICK r \in RunIds, b \in Bodies, n \in Expecting(c),
               k \in IF known[c] = -1 THEN {"run_started"} ELSE CallerKinds :
            /\ event' = [event EXCEPT ![c] = NewEvent(r, known[c] + 1, k, b)]
            /\ expected' = [expected EXCEPT ![c] = n]
      BY <1>2 DEF RequestAppend
    <2>2. /\ op[c] = "none" /\ op' = [op EXCEPT ![c] = "append"]
          /\ UNCHANGED <<lines, torn, tears, reply, known, acked>>
      BY <1>2 DEF RequestAppend
    <2>3. known[c] \in LastNumber /\ n \in Int
      BY DEF IInv, TypeOK, Expecting, LastNumber, Unstated
    <2>4. k \in Kinds /\ k = IF known[c] + 1 = 0
                             THEN "run_started" ELSE "recorded"
      BY <2>3 DEF HonestCallers, Kinds, LastNumber
    <2>5. /\ NewEvent(r, known[c] + 1, k, b) \in Event
          /\ NewEvent(r, known[c] + 1, k, b).kind = k
          /\ NewEvent(r, known[c] + 1, k, b).seq = known[c] + 1
      <3>1. <<>> \in Digests /\ known[c] + 1 \in Nat /\ -1 \in Int
        BY <2>3 DEF Digests, LastNumber
      <3> QED
        BY <2>4, <3>1 DEF NewEvent, Event
    <2>6. event'[c] = NewEvent(r, known[c] + 1, k, b)
      BY <2>1 DEF IInv, TypeOK
    <2>7. TypeOK'
      BY <2>1, <2>2, <2>3, <2>5 DEF IInv, TypeOK
    <2>8. reply'[c] = NoReply
      BY <2>2 DEF IInv, NoStrayReply
    <2>9. event'[c].kind = IF event'[c].seq = 0
                           THEN "run_started" ELSE "recorded"
      BY <2>4, <2>5, <2>6
    <2>10. \A d \in Clients \ {c} : /\ op'[d] = op[d] /\ event'[d] = event[d]
                                    /\ reply'[d] = reply[d]
      BY <2>1, <2>2 DEF IInv, TypeOK
    <2> QED
      BY <2>2, <2>7, <2>8, <2>9, <2>10, CallerStepKeepsIInv
  <1>3. CASE RequestCompact(c)
    <2>1. PICK n \in Expecting(c) : expected' = [expected EXCEPT ![c] = n]
      BY <1>3 DEF RequestCompact
    <2>2. n \in Int
      BY DEF IInv, TypeOK, Expecting, LastNumber, Unstated
    <2>3. /\ op[c] = "none" /\ op' = [op EXCEPT ![c] = "compact"]
          /\ UNCHANGED <<lines, torn, tears, event, reply, known, acked>>
      BY <1>3 DEF RequestCompact
    <2>4. TypeOK'
      BY <2>1, <2>2, <2>3 DEF IInv, TypeOK
    <2>5. op'[c] = "compact" /\ reply'[c] = NoReply
      BY <2>3 DEF IInv, TypeOK, NoStrayReply
    <2> QED
      BY <2>3, <2>4, <2>5, CallerStepKeepsIInv DEF IInv, TypeOK
  <1>4. ASSUME Forget(c), UNCHANGED <<lines, torn, tears>>,
               known' \in [Clients -> LastNumber], acked' \in SUBSET Event
        PROVE  /\ TypeOK' /\ op'[c] = "none" /\ reply'[c] = NoReply
               /\ \A d \in Clients \ {c} : /\ op'[d] = op[d]
                                          /\ event'[d] = event[d]
                                          /\ reply'[d] = reply[d]
    <2>1. NoEvent \in Event /\ NoReply \in Reply /\ Unstated \in Int
      BY NoEventType, ReplyTypes DEF Unstated
    <2> QED
      BY <1>4, <2>1 DEF Forget, IInv, TypeOK
  <1>5. CASE Hear(c)
    <2>1. /\ Forget(c) /\ UNCHANGED <<lines, torn, tears>>
          /\ known' \in [Clients -> LastNumber]
      BY <1>5 DEF Hear, IInv, TypeOK, Reply
    <2>2. CASE Confirmed(c) /\ op[c] = "append"
      <3>1. acked' = acked \cup {event[c]}
        BY <1>5, <2>2 DEF Hear
      <3>2. acked' \in SUBSET Event
        BY <3>1 DEF IInv, TypeOK
      <3>3. /\ TypeOK' /\ op'[c] = "none" /\ reply'[c] = NoReply
            /\ \A d \in Clients \ {c} : /\ op'[d] = op[d]
                                       /\ event'[d] = event[d]
                                       /\ reply'[d] = reply[d]
        BY <1>4, <2>1, <3>2
      <3>4. ConfirmedIsRecorded'
        BY <2>1, <2>2, <3>1 DEF IInv, ConfirmedOnItsWay, ConfirmedIsRecorded
      <3> QED
        BY <2>1, <3>3, <3>4, CallerStepKeepsIInv
    <2>3. CASE ~(Confirmed(c) /\ op[c] = "append")
      <3>1. acked' = acked
        BY <1>5, <2>3 DEF Hear
      <3>2. acked' \in SUBSET Event
        BY <3>1 DEF IInv, TypeOK
      <3> QED
        BY <1>4, <2>1, <3>1, <3>2, CallerStepKeepsIInv
    <2> QED
      BY <2>2, <2>3
  <1>6. CASE LoseReply(c)
    <2>1. /\ reply' = [reply EXCEPT ![c] = NoReply]
          /\ UNCHANGED <<lines, torn, tears, op, event, expected, known, acked>>
      BY <1>6 DEF LoseReply, clientVars
    <2>2. TypeOK' /\ reply'[c] = NoReply
      BY <2>1, ReplyTypes DEF IInv, TypeOK
    <2>3. \A d \in Clients \ {c} : /\ op'[d] = op[d] /\ event'[d] = event[d]
                                   /\ reply'[d] = reply[d]
      BY <2>1 DEF IInv, TypeOK
    <2>4. op'[c] = "append" =>
            event'[c].kind = IF event'[c].seq = 0
                             THEN "run_started" ELSE "recorded"
      BY <2>1 DEF IInv, HonestEvents
    <2> QED
      BY <2>1, <2>2, <2>3, <2>4, CallerStepKeepsIInv
  <1>7. CASE CallerDies(c)
    <2>1. /\ Forget(c) /\ UNCHANGED <<lines, torn, tears, acked>>
          /\ known' \in [Clients -> LastNumber] /\ acked' \in SUBSET Event
      BY <1>7 DEF CallerDies, IInv, TypeOK, LastNumber
    <2> QED
      BY <1>4, <2>1, CallerStepKeepsIInv
  <1> QED
    BY <1>1, <1>2, <1>3, <1>5, <1>6, <1>7

LEMMA TearKeepsIInv ==
  ASSUME IInv, Tear
  PROVE  IInv'
  <1>1. /\ lines \in Seq(Event) /\ lines # <<>>
        /\ lines' = SubSeq(lines, 1, Len(lines) - 1)
        /\ torn' = TRUE /\ tears \in 0 .. MaxTears /\ tears < MaxTears
        /\ tears' = tears + 1
        /\ UNCHANGED <<op, event, expected, reply, known, acked>>
    BY DEF Tear, IInv, TypeOK
  <1>2. Len(lines) - 1 \in 0 .. Len(lines)
    BY <1>1
  <1>3. lines' \in Seq(Event) /\ Len(lines') <= MaxEvents
    BY <1>1, <1>2, SizesAssumption DEF IInv, TypeOK
  <1>4. tears' \in 0 .. MaxTears /\ tears' # 0
    BY <1>1, SizesAssumption
  <1>5. TypeOK'
    BY <1>1, <1>3, <1>4 DEF IInv, TypeOK
  <1>6. HonestEvents' /\ NoStrayReply'
    BY <1>1 DEF IInv, HonestEvents, NoStrayReply
  <1>7. AlwaysReadable'
    <2>1. Integrity(lines) /\ CheckpointsVerify(lines)
      BY DEF IInv, AlwaysReadable, Readable
    <2>2. /\ Integrity(SubSeq(lines, 1, Len(lines) - 1))
          /\ CheckpointsVerify(SubSeq(lines, 1, Len(lines) - 1))
      BY <1>1, <1>2, <2>1, ReadablePrefix
    <2>3. Integrity(lines') /\ CheckpointsVerify(lines')
      BY <1>1, <2>2
    <2> QED
      BY <2>3 DEF AlwaysReadable, Readable, Integrity, CheckpointsVerify,
                  ContentHash
  <1>8. ConfirmedOnItsWay' /\ ConfirmedIsRecorded'
    BY <1>4 DEF ConfirmedOnItsWay, ConfirmedIsRecorded
  <1> QED
    BY <1>5, <1>6, <1>7, <1>8 DEF IInv

LEMMA StepKeepsIInv ==
  ASSUME IInv, HonestCallers, [Next]_vars
  PROVE  IInv'
  <1>1. CASE Tear
    BY <1>1, TearKeepsIInv
  <1>2. ASSUME NEW c \in Clients, ClientNext(c)
        PROVE  IInv'
    BY <1>2, AppendEventKeepsIInv, CompactJournalKeepsIInv, CallerKeepsIInv
    DEF ClientNext
  <1>3. CASE UNCHANGED vars
    <2>1. UNCHANGED <<lines, torn, tears, op, event, expected, reply, known,
                      acked>>
      BY <1>3 DEF vars
    <2>2. TypeOK'
      BY <2>1 DEF IInv, TypeOK
    <2>3. HonestEvents' /\ NoStrayReply'
      BY <2>1 DEF IInv, HonestEvents, NoStrayReply
    <2>4. AlwaysReadable' /\ ConfirmedIsRecorded'
      BY <2>1 DEF IInv, AlwaysReadable, Readable, Integrity,
                  CheckpointsVerify, ContentHash, ConfirmedIsRecorded
    <2>5. ConfirmedOnItsWay'
      BY <2>1 DEF IInv, ConfirmedOnItsWay, Confirmed
    <2> QED
      BY <2>2, <2>3, <2>4, <2>5 DEF IInv
  <1> QED
    BY <1>1, <1>2, <1>3 DEF Next

-----------------------------------------------------------------------------
(* The inductive invariant holds throughout every run.                     *)
THEOREM Invariance == HonestCallers => (Spec => []IInv)
  <1> SUFFICES ASSUME HonestCallers PROVE Spec => []IInv
    OBVIOUS
  <1>1. IInv /\ [Next]_vars => IInv'
    BY StepKeepsIInv
  <1> QED
    BY <1>1, InitIInv, PTL DEF Spec

(* The types, and the size limit the next read enforces again.             *)
THEOREM TypeCorrect == HonestCallers => (Spec => []TypeOK)
  <1>1. IInv => TypeOK
    BY DEF IInv
  <1> QED
    BY <1>1, Invariance, PTL

(* What append_event and compact_journal write, every later read accepts,  *)
(* also after a torn tail was recovered.                                   *)
THEOREM Readability == HonestCallers => (Spec => []AlwaysReadable)
  <1>1. IInv => AlwaysReadable
    BY DEF IInv
  <1> QED
    BY <1>1, Invariance, PTL

(* A confirmed append stays at its sequence number, whatever other callers *)
(* append, retry or compact, unless its line is torn from outside.         *)
THEOREM Durability == HonestCallers => (Spec => []ConfirmedIsRecorded)
  <1>1. IInv => ConfirmedIsRecorded
    BY DEF IInv
  <1> QED
    BY <1>1, Invariance, PTL

(* No call changes or removes a recorded event.                            *)
THEOREM History == HonestCallers => (Spec => AppendOnly)
  <1> DEFINE Step == \/ Tear
                     \/ /\ Len(lines') = Len(lines) + 1
                        /\ SubSeq(lines', 1, Len(lines)) = lines
  <1>1. IInv /\ [Next]_vars => [Step]_lines
    <2> SUFFICES ASSUME IInv, [Next]_vars, lines' # lines PROVE Step
      OBVIOUS
    <2>1. CASE Tear
      BY <2>1
    <2>2. ASSUME NEW c \in Clients, ClientNext(c)
          PROVE  Step
      <3>1. PICK e : lines' = Append(lines, e)
        BY <2>2 DEF ClientNext, Status, RequestAppend, RequestCompact,
             AppendEvent, CompactJournal, Hear, LoseReply, CallerDies,
             Write, Refuse, Recovered
      <3>2. lines \in Seq(Event)
        BY DEF IInv, TypeOK
      <3>3. Len(lines') = Len(lines) + 1
        BY <3>1, <3>2
      <3>4. SubSeq(lines', 1, Len(lines)) = lines
        BY <3>1, <3>2
      <3> QED
        BY <3>3, <3>4
    <2>3. CASE UNCHANGED vars
      BY <2>3 DEF vars
    <2> QED
      BY <2>1, <2>2, <2>3 DEF Next
  <1> QED
    BY <1>1, Invariance, PTL DEF Spec, AppendOnly
-----------------------------------------------------------------------------
(* Callers that do not state the last sequence they saw.                   *)
UnstatedCallers == Stated \subseteq {FALSE}

NothingStated == \A c \in Clients : expected[c] = Unstated

LEMMA NothingIsStated ==
  ASSUME UnstatedCallers, IInv, NothingStated, [Next]_vars
  PROVE  NothingStated'
  <1>1. expected \in [Clients -> Int]
    BY DEF IInv, TypeOK
  <1>2. \A c \in Clients : Expecting(c) \subseteq {Unstated}
    BY DEF Expecting, UnstatedCallers
  <1>3. CASE Tear
    BY <1>3 DEF Tear, NothingStated
  <1>4. ASSUME NEW c \in Clients, ClientNext(c) PROVE NothingStated'
    <2>1. \/ UNCHANGED expected
          \/ expected' = [expected EXCEPT ![c] = Unstated]
      BY <1>2, <1>4 DEF ClientNext, Status, RequestAppend, RequestCompact,
           AppendEvent, CompactJournal, Hear, LoseReply, CallerDies, Forget,
           clientVars
    <2> QED
      BY <1>1, <2>1 DEF NothingStated
  <1>5. CASE UNCHANGED vars
    BY <1>5 DEF vars, NothingStated
  <1> QED
    BY <1>3, <1>4, <1>5 DEF Next

(* The retry of an append that is recorded byte for byte is answered as    *)
(* such and changes nothing, unless its caller states the last sequence.   *)
THEOREM RetriesAreNoConflicts ==
  HonestCallers /\ UnstatedCallers => (Spec => RetryIsNoConflict)
  <1> SUFFICES ASSUME HonestCallers, UnstatedCallers
               PROVE  Spec => RetryIsNoConflict
    OBVIOUS
  <1> DEFINE Accepted(c) ==
        /\ AppendEvent(c) /\ Readable
        /\ event[c].seq < Len(lines) /\ lines[event[c].seq + 1] = event[c]
        => reply'[c].outcome = "noop" /\ lines' = lines
  <1>1. Init => NothingStated
    BY DEF Init, NothingStated
  <1>2. IInv /\ NothingStated /\ [Next]_vars => NothingStated'
    BY NothingIsStated
  <1>3. ASSUME IInv, NothingStated, NEW c \in Clients PROVE Accepted(c)
    <2> DEFINE e == event[c]
    <2> SUFFICES ASSUME AppendEvent(c), Readable, e.seq < Len(lines),
                        lines[e.seq + 1] = e
                 PROVE  reply'[c].outcome = "noop" /\ lines' = lines
      OBVIOUS
    <2>1. /\ lines \in Seq(Event) /\ Len(lines) \in Nat /\ e \in Event
          /\ reply \in [Clients -> Reply]
      BY <1>3 DEF IInv, TypeOK
    <2>2. e.seq \in Nat
      BY <2>1 DEF Event
    <2>3. RunMatches(e)
      BY <2>1, <2>2 DEF Readable, Integrity, RunMatches
    <2>4. ExpectedMatches(expected[c])
      BY <1>3 DEF NothingStated, ExpectedMatches
    <2>5. AlreadyRecorded(e)
      BY <2>1, <2>2 DEF AlreadyRecorded, LastSequence
    <2>6. Answer(c, "noop", LastSequence(lines)) /\ UNCHANGED lines
      BY <2>3, <2>4, <2>5 DEF AppendEvent
    <2> QED
      BY <2>1, <2>6 DEF Answer
  <1>4. IInv /\ NothingStated => [\A c \in Clients : Accepted(c)]_vars
    BY <1>3
  <1> QED
    BY <1>1, <1>2, <1>4, Invariance, PTL DEF Spec, RetryIsNoConflict

-----------------------------------------------------------------------------
(* JournalStream: the dual write.                                         *)

IsSequence(s) == \E S : s \in Seq(S)

(* The events of the run, as projected on its date.                        *)
Whole == DiscoveryRunEvents(result, 0)

(* A result's stream and its checkpoint fit in the journal.                *)
RoomForRun ==
  \A r \in Results : Len(DiscoveryRunEvents(r, 0)) < MaxEvents

(* Facts that every step keeps.                                            *)
Types ==
  /\ result \in Results /\ today \in Nat /\ compactions \in Nat
  /\ IsSequence(lines)
  /\ DOMAIN stream = Clients /\ DOMAIN pos = Clients
  /\ DOMAIN phase = Clients /\ DOMAIN op = Clients
  /\ DOMAIN event = Clients /\ DOMAIN reply = Clients
  /\ expected = [w \in Clients |-> Unstated]

Outcomes == {"appended", "noop", "conflict", "failed"}

(* w is answered by this step, and nobody else.                            *)
Answered(w) ==
  \E o \in Outcomes : \E n :
     reply' = [reply EXCEPT ![w] = [outcome |-> o, last |-> n]]

(* A writer that is not appending has no request outstanding, and only an  *)
(* outstanding request is answered.                                        *)
Quiet ==
  \A w \in Clients : /\ phase[w] # "appending" => op[w] = "none"
                     /\ op[w] = "none" => reply[w] = NoReply
                     /\ reply[w] = NoReply \/ reply[w].outcome \in Outcomes

Undisturbed ==
  /\ DateIsStable
  /\ \A i \in 1 .. Len(lines) :
       lines[i].kind = "checkpoint" => i > Len(Whole)

PrefixOf(events, whole) ==
  \A i \in 1 .. Len(events) :
     IF i <= Len(whole) THEN events[i] = whole[i]
     ELSE i = Len(whole) + 1 /\ events[i].kind = "checkpoint"

(* Where a writer stands: everything it has been confirmed is recorded.    *)
OnCourse(w) ==
  /\ stream[w] = Whole
  /\ pos[w] \in Nat /\ pos[w] <= Len(Whole) /\ pos[w] <= Len(lines)
  /\ op[w] \in {"none", "append", "compact"}
  /\ op[w] = "append" => /\ pos[w] < Len(Whole)
                         /\ event[w] = Whole[pos[w] + 1]
                         /\ Confirmed(w) => pos[w] < Len(lines)
  /\ op[w] = "compact" => pos[w] = Len(Whole)

NotRefused(w) ==
  phase[w] # "raised" /\ reply[w].outcome \notin {"failed", "conflict"}

Good ==
  /\ Integrity(lines) /\ CheckpointsVerify(lines)
  /\ PrefixOf(lines, Whole)
  /\ \A w \in Clients : phase[w] = "appending" => OnCourse(w)
  /\ RoomForRun => \A w \in Clients : NotRefused(w)

StreamIInv ==
  /\ Types /\ Quiet
  /\ compactions = 0 /\ DateIsStable => Undisturbed
  /\ Undisturbed => Good

-----------------------------------------------------------------------------
(* Facts about sequences and about the projected stream.                   *)

LEMMA SequenceOfFunction ==
  ASSUME NEW n \in Nat, NEW s, DOMAIN s = 1 .. n,
         s = [i \in 1 .. n |-> s[i]]
  PROVE  IsSequence(s) /\ Len(s) = n
  <1> DEFINE S == {s[i] : i \in 1 .. n}
  <1>1. s \in [1 .. n -> S]
    OBVIOUS
  <1> HIDE DEF S
  <1>2. s \in Seq(S) /\ Len(s) = n
    BY <1>1
  <1> QED
    BY <1>2 DEF IsSequence

LEMMA SequenceGrows ==
  ASSUME NEW s, NEW e, IsSequence(s)
  PROVE  \E S : /\ s \in Seq(S) /\ e \in S
                /\ Append(s, e) \in Seq(S) /\ Len(Append(s, e)) = Len(s) + 1
                /\ Append(s, e)[Len(s) + 1] = e
                /\ \A i \in 1 .. Len(s) : Append(s, e)[i] = s[i]
  <1>1. PICK T : s \in Seq(T)
    BY DEF IsSequence
  <1> DEFINE S == T \cup {e}
  <1>2. s \in [1 .. Len(s) -> S] /\ Len(s) \in Nat
    BY <1>1
  <1>3. e \in S
    OBVIOUS
  <1> HIDE DEF S
  <1>4. s \in Seq(S)
    BY <1>2
  <1>5. /\ Append(s, e) \in Seq(S) /\ Len(Append(s, e)) = Len(s) + 1
        /\ Append(s, e)[Len(s) + 1] = e
        /\ \A i \in 1 .. Len(s) : Append(s, e)[i] = s[i]
    BY <1>3, <1>4
  <1> QED
    BY <1>3, <1>4, <1>5

LEMMA SequenceOfConcatenation ==
  ASSUME NEW s, NEW t, IsSequence(s), IsSequence(t)
  PROVE  IsSequence(s \o t) /\ Len(s \o t) = Len(s) + Len(t)
  <1>1. PICK S : s \in Seq(S)
    BY DEF IsSequence
  <1>2. PICK T : t \in Seq(T)
    BY DEF IsSequence
  <1> DEFINE U == S \cup T
  <1>3. /\ s \in [1 .. Len(s) -> U] /\ Len(s) \in Nat
        /\ t \in [1 .. Len(t) -> U] /\ Len(t) \in Nat
    BY <1>1, <1>2
  <1> HIDE DEF U
  <1>4. s \in Seq(U) /\ t \in Seq(U)
    BY <1>3
  <1>5. s \o t \in Seq(U) /\ Len(s \o t) = Len(s) + Len(t)
    BY <1>4
  <1> QED
    BY <1>5 DEF IsSequence

LEMMA LengthIsNat ==
  ASSUME NEW s, IsSequence(s)
  PROVE  Len(s) \in Nat /\ DOMAIN s = 1 .. Len(s) /\ (s = <<>> <=> Len(s) = 0)
  BY DEF IsSequence

LEMMA BodiesAreASequence ==
  ASSUME NEW r \in Results, NEW day
  PROVE  /\ IsSequence(StreamBodies(r, day))
         /\ Len(StreamBodies(r, day)) =
              2 + r.retries + Len(r.quarantines) + 2 * Len(r.assessments)
                + Len(r.leads)
         /\ Len(StreamBodies(r, day)) >= 2
  <1> DEFINE a == <<<<"run_started", day>>>>
             b == [i \in 1 .. r.retries |-> <<"retry_scheduled", i>>]
             c == [i \in 1 .. Len(r.quarantines) |->
                     <<"model_response_invalid", r.quarantines[i]>>]
             d == QueryBodies(r.assessments)
             e == [i \in 1 .. Len(r.leads) |-> <<"lead_found", r.leads[i]>>]
             f == <<<<"run_completed", r.complete>>>>
  <1>1. /\ r.retries \in Nat /\ Len(r.quarantines) \in Nat
        /\ Len(r.assessments) \in Nat /\ Len(r.leads) \in Nat
    BY StreamAssumption
  <1>2. IsSequence(a) /\ Len(a) = 1 /\ IsSequence(f) /\ Len(f) = 1
    <2>1. a \in Seq({<<"run_started", day>>})
          /\ f \in Seq({<<"run_completed", r.complete>>})
      OBVIOUS
    <2> QED
      BY <2>1 DEF IsSequence
  <1>3. IsSequence(b) /\ Len(b) = r.retries
    BY <1>1, SequenceOfFunction
  <1>4. IsSequence(c) /\ Len(c) = Len(r.quarantines)
    BY <1>1, SequenceOfFunction
  <1>5. IsSequence(d) /\ Len(d) = 2 * Len(r.assessments)
    <2>1. 2 * Len(r.assessments) \in Nat
      BY <1>1
    <2> QED
      BY <2>1, SequenceOfFunction DEF QueryBodies
  <1>6. IsSequence(e) /\ Len(e) = Len(r.leads)
    BY <1>1, SequenceOfFunction
  <1>7. StreamBodies(r, day) = a \o b \o c \o d \o e \o f
    BY DEF StreamBodies
  <1> HIDE DEF a, b, c, d, e, f
  <1>8. IsSequence(a \o b) /\ Len(a \o b) = Len(a) + Len(b)
    BY <1>2, <1>3, SequenceOfConcatenation
  <1>9. IsSequence(a \o b \o c) /\ Len(a \o b \o c) = Len(a \o b) + Len(c)
    BY <1>4, <1>8, SequenceOfConcatenation
  <1>10. /\ IsSequence(a \o b \o c \o d)
         /\ Len(a \o b \o c \o d) = Len(a \o b \o c) + Len(d)
    BY <1>5, <1>9, SequenceOfConcatenation
  <1>11. /\ IsSequence(a \o b \o c \o d \o e)
         /\ Len(a \o b \o c \o d \o e) = Len(a \o b \o c \o d) + Len(e)
    BY <1>6, <1>10, SequenceOfConcatenation
  <1>12. /\ IsSequence(a \o b \o c \o d \o e \o f)
         /\ Len(a \o b \o c \o d \o e \o f) = Len(a \o b \o c \o d \o e) + Len(f)
    BY <1>2, <1>11, SequenceOfConcatenation
  <1>13. Len(StreamBodies(r, day)) =
           1 + r.retries + Len(r.quarantines) + 2 * Len(r.assessments)
             + Len(r.leads) + 1
    BY <1>2, <1>3, <1>4, <1>5, <1>6, <1>7, <1>8, <1>9, <1>10, <1>11, <1>12
  <1>14. /\ IsSequence(StreamBodies(r, day))
         /\ StreamBodies(r, day) = a \o b \o c \o d \o e \o f
    BY <1>7, <1>12
  <1>15. ASSUME NEW t \in Nat, NEW q \in Nat, NEW s \in Nat, NEW l \in Nat
         PROVE  /\ 1 + t + q + 2 * s + l + 1 = 2 + t + q + 2 * s + l
                /\ 2 + t + q + 2 * s + l >= 2
    OBVIOUS
  <1> DEFINE t == r.retries
             q == Len(r.quarantines)
             s == Len(r.assessments)
             l == Len(r.leads)
             n == Len(StreamBodies(r, day))
  <1>16. t \in Nat /\ q \in Nat /\ s \in Nat /\ l \in Nat
    BY <1>1
  <1>17. n = 1 + t + q + 2 * s + l + 1
    BY <1>13
  <1> HIDE DEF t, q, s, l, n
  <1>18. n = 2 + t + q + 2 * s + l /\ n >= 2
    BY ONLY <1>16, <1>17, <1>15
  <1> QED
    BY <1>14, <1>18 DEF t, q, s, l, n

(* What discovery_run_events promises of its numbering.                    *)
LEMMA Numbered ==
  ASSUME NEW r \in Results, NEW day
  PROVE  LET events == DiscoveryRunEvents(r, day) IN
         /\ IsSequence(events) /\ Len(events) \in Nat /\ Len(events) >= 2
         /\ Len(events) = Len(StreamBodies(r, day))
         /\ \A i \in 1 .. Len(events) :
              /\ events[i].run = TheRun /\ events[i].seq = i - 1
              /\ events[i].kind = IF i = 1 THEN "run_started" ELSE "recorded"
  <1> DEFINE bodies == StreamBodies(r, day)
             events == DiscoveryRunEvents(r, day)
             n == Len(bodies)
  <1>1. IsSequence(bodies) /\ n >= 2 /\ n \in Nat /\ DOMAIN bodies = 1 .. n
    BY BodiesAreASequence, LengthIsNat
  <1>2. events = [i \in 1 .. n |->
                    NewEvent(TheRun, i - 1,
                             IF i = 1 THEN "run_started" ELSE "recorded",
                             bodies[i])]
    BY <1>1 DEF DiscoveryRunEvents
  <1> HIDE DEF bodies, events, n
  <1>3. DOMAIN events = 1 .. n /\ events = [i \in 1 .. n |-> events[i]]
    BY <1>2
  <1>4. IsSequence(events) /\ Len(events) = n
    BY <1>1, <1>3, SequenceOfFunction
  <1>5. ASSUME NEW i \in 1 .. n
        PROVE  /\ events[i].run = TheRun /\ events[i].seq = i - 1
               /\ events[i].kind = IF i = 1 THEN "run_started" ELSE "recorded"
    BY <1>2 DEF NewEvent
  <1> QED
    BY <1>1, <1>4, <1>5 DEF events, bodies, n

(* The date changes no number.                                             *)
LEMMA NumberedAlike ==
  ASSUME NEW r \in Results, NEW day, NEW other
  PROVE  Len(DiscoveryRunEvents(r, other)) = Len(DiscoveryRunEvents(r, day))
  BY Numbered, BodiesAreASequence

LEMMA WholeNumbered ==
  ASSUME Types
  PROVE  /\ IsSequence(Whole) /\ Len(Whole) \in Nat /\ Len(Whole) >= 2
         /\ \A i \in 1 .. Len(Whole) :
              /\ Whole[i].run = TheRun /\ Whole[i].seq = i - 1
              /\ Whole[i].kind = IF i = 1 THEN "run_started" ELSE "recorded"
  BY Numbered DEF Types, Whole

-----------------------------------------------------------------------------
(* What a step does to the file, the date and the run.                     *)

LEMMA WriteGrows ==
  ASSUME NEW w, NEW e, Write(w, e)
  PROVE  lines' = lines \/ lines' = Append(lines, e)
  BY DEF Write, Recovered

LEMMA ServeGrows ==
  ASSUME NEW w \in Clients, AppendEvent(w) \/ CompactJournal(w)
  PROVE  lines' = lines \/ \E e : lines' = Append(lines, e)
  <1>1. ASSUME NEW e, Write(w, e)
        PROVE  lines' = lines \/ \E f : lines' = Append(lines, f)
    BY <1>1, WriteGrows
  <1>2. ASSUME NEW o, Refuse(w, o)
        PROVE  lines' = lines
    BY <1>2 DEF Refuse
  <1>3. CASE AppendEvent(w)
    BY <1>1, <1>2, <1>3 DEF AppendEvent
  <1>4. CASE CompactJournal(w)
    BY <1>1, <1>2, <1>4 DEF CompactJournal
  <1> QED
    BY <1>3, <1>4

LEMMA ServeAnswers ==
  ASSUME NEW w \in Clients, AppendEvent(w) \/ CompactJournal(w)
  PROVE  /\ Answered(w)
         /\ op[w] # "none"
         /\ UNCHANGED <<op, event, expected>>
  <1>1. ASSUME NEW e, Write(w, e)
        PROVE  Answered(w)
    BY <1>1 DEF Write, Answer, Answered, Outcomes
  <1>2. ASSUME NEW o \in Outcomes, Refuse(w, o)
        PROVE  Answered(w)
    BY <1>2 DEF Refuse, Answer, Answered
  <1>3. ASSUME NEW o \in Outcomes, NEW n, Answer(w, o, n)
        PROVE  Answered(w)
    BY <1>3 DEF Answer, Answered
  <1>4. CASE AppendEvent(w)
    BY <1>1, <1>2, <1>3, <1>4 DEF AppendEvent, Outcomes,
       Outstanding, clientVars
  <1>5. CASE CompactJournal(w)
    BY <1>1, <1>2, <1>3, <1>5 DEF CompactJournal, Outcomes,
       Outstanding, clientVars
  <1> QED
    BY <1>4, <1>5

LEMMA StepGrows ==
  ASSUME [StreamNext]_allVars
  PROVE  /\ lines' = lines \/ \E e : lines' = Append(lines, e)
         /\ result' = result
         /\ today' \in {today, today + 1}
         /\ compactions' \in {compactions, compactions + 1}
  <1>1. ASSUME NEW w \in Clients, WriterNext(w) \/ Interrupt(w)
        PROVE  /\ lines' = lines \/ \E e : lines' = Append(lines, e)
               /\ UNCHANGED <<result, today, compactions>>
    <2>1. CASE StartWriter(w)
      BY <2>1 DEF StartWriter, vars
    <2>2. CASE Send(w)
      BY <2>2 DEF Send, streamVars
    <2>3. CASE Serve(w)
      BY <2>3, ServeGrows DEF Serve, streamVars
    <2>4. CASE Receive(w)
      BY <2>4 DEF Receive, Hear
    <2>5. CASE Interrupt(w)
      BY <2>5 DEF Interrupt
    <2> QED
      BY <1>1, <2>1, <2>2, <2>3, <2>4, <2>5 DEF WriterNext
  <1>2. CASE OperatorCompact
    BY <1>2 DEF OperatorCompact, Recovered
  <1>3. CASE Midnight
    BY <1>3 DEF Midnight, vars
  <1>4. CASE UNCHANGED allVars
    BY <1>4 DEF allVars, vars, streamVars
  <1> QED
    BY <1>1, <1>2, <1>3, <1>4 DEF StreamNext

LEMMA TypesKept ==
  ASSUME Types, [StreamNext]_allVars
  PROVE  Types'
  <1>1. IsSequence(lines')
    <2>1. CASE lines' = lines
      BY <2>1 DEF Types
    <2>2. CASE \E e : lines' = Append(lines, e)
      BY <2>2, SequenceGrows DEF Types, IsSequence
    <2> QED
      BY <2>1, <2>2, StepGrows
  <1>2. result' \in Results /\ today' \in Nat /\ compactions' \in Nat
    BY StepGrows DEF Types
  <1>3. /\ DOMAIN stream' = Clients /\ DOMAIN pos' = Clients
        /\ DOMAIN phase' = Clients /\ DOMAIN op' = Clients
        /\ DOMAIN event' = Clients /\ DOMAIN reply' = Clients
        /\ expected' = [w \in Clients |-> Unstated]
    <2>1. ASSUME NEW w \in Clients, StartWriter(w) PROVE <1>3
      BY <2>1 DEF StartWriter, vars, Types
    <2>2. ASSUME NEW w \in Clients, Send(w) PROVE <1>3
      BY <2>2 DEF Send, streamVars, Types
    <2>3. ASSUME NEW w \in Clients, Serve(w) PROVE <1>3
      BY <2>3, ServeAnswers DEF Serve, streamVars, Types, Answered
    <2>4. ASSUME NEW w \in Clients, Receive(w) PROVE <1>3
      BY <2>4 DEF Receive, Hear, Forget, Types
    <2>5. ASSUME NEW w \in Clients, Interrupt(w) PROVE <1>3
      BY <2>5 DEF Interrupt, Forget, Types
    <2>6. CASE OperatorCompact
      BY <2>6 DEF OperatorCompact, Types
    <2>7. CASE Midnight
      BY <2>7 DEF Midnight, vars, Types
    <2>8. CASE UNCHANGED allVars
      BY <2>8 DEF allVars, vars, streamVars, Types
    <2> QED
      BY <2>1, <2>2, <2>3, <2>4, <2>5, <2>6, <2>7, <2>8
         DEF StreamNext, WriterNext
  <1> QED
    BY <1>1, <1>2, <1>3 DEF Types

LEMMA QuietKept ==
  ASSUME Types, Quiet, [StreamNext]_allVars
  PROVE  Quiet'
  <1>1. ASSUME NEW w \in Clients, StartWriter(w) PROVE Quiet'
    BY <1>1 DEF StartWriter, vars, Types, Quiet
  <1>2. ASSUME NEW w \in Clients, Send(w) PROVE Quiet'
    BY <1>2 DEF Send, streamVars, Types, Quiet
  <1>3. ASSUME NEW w \in Clients, Serve(w) PROVE Quiet'
    BY <1>3, ServeAnswers DEF Serve, streamVars, Types, Quiet, Answered
  <1>4. ASSUME NEW w \in Clients, Receive(w) PROVE Quiet'
    BY <1>4 DEF Receive, Hear, Forget, Types, Quiet
  <1>5. ASSUME NEW w \in Clients, Interrupt(w) PROVE Quiet'
    BY <1>5 DEF Interrupt, Forget, Types, Quiet
  <1>6. CASE OperatorCompact
    BY <1>6 DEF OperatorCompact, Quiet
  <1>7. CASE Midnight
    BY <1>7 DEF Midnight, vars, Quiet
  <1>8. CASE UNCHANGED allVars
    BY <1>8 DEF allVars, vars, streamVars, Quiet
  <1> QED
    BY <1>1, <1>2, <1>3, <1>4, <1>5, <1>6, <1>7, <1>8
       DEF StreamNext, WriterNext

(* A disturbed journal stays disturbed.                                    *)
LEMMA UndisturbedBefore ==
  ASSUME Types, [StreamNext]_allVars, Undisturbed'
  PROVE  Undisturbed /\ Whole' = Whole
  <1>1. result' = result /\ today' \in {today, today + 1} /\ today \in Nat
    BY StepGrows DEF Types
  <1>2. Whole' = Whole /\ DateIsStable
    BY <1>1 DEF Whole, Undisturbed, DateIsStable
  <1>3. ASSUME NEW i \in 1 .. Len(lines), lines[i].kind = "checkpoint"
        PROVE  i > Len(Whole)
    <2>1. i \in 1 .. Len(lines') /\ lines'[i] = lines[i]
      <3>1. CASE lines' = lines
        BY <3>1
      <3>2. CASE \E e : lines' = Append(lines, e)
        <4>1. Len(lines) \in Nat
          BY LengthIsNat DEF Types
        <4>2. PICK e : lines' = Append(lines, e)
          BY <3>2
        <4> QED
          BY <4>1, <4>2, SequenceGrows DEF Types
      <3> QED
        BY <3>1, <3>2, StepGrows
    <2> QED
      BY <1>2, <1>3, <2>1 DEF Undisturbed
  <1> QED
    BY <1>2, <1>3 DEF Undisturbed

-----------------------------------------------------------------------------
(* Each step keeps an undisturbed journal on course.                       *)

(* One event that belongs there keeps the file readable and a prefix.      *)
LEMMA NextEventFits ==
  ASSUME Types, Good, NEW e,
         Len(lines) <= Len(Whole),
         Len(lines) < Len(Whole) => e = Whole[Len(lines) + 1],
         Len(lines) = Len(Whole) =>
           \E b : e = NewCheckpoint(lines, b)
  PROVE  LET all == Append(lines, e) IN
         /\ Integrity(all) /\ CheckpointsVerify(all) /\ PrefixOf(all, Whole)
         /\ Len(all) = Len(lines) + 1
  <1> DEFINE all == Append(lines, e)
             n == Len(lines)
  <1>1. /\ Len(Whole) \in Nat /\ Len(Whole) >= 2
        /\ \A i \in 1 .. Len(Whole) :
             /\ Whole[i].run = TheRun /\ Whole[i].seq = i - 1
             /\ Whole[i].kind = IF i = 1 THEN "run_started" ELSE "recorded"
    BY WholeNumbered
  <1>2. PICK S : /\ lines \in Seq(S) /\ e \in S /\ Len(all) = n + 1
                 /\ all[n + 1] = e /\ \A i \in 1 .. n : all[i] = lines[i]
    BY SequenceGrows DEF Types
  <1>3. n \in Nat /\ (lines = <<>> <=> n = 0)
    BY LengthIsNat DEF Types
  <1>4. /\ Integrity(lines) /\ CheckpointsVerify(lines)
        /\ PrefixOf(lines, Whole)
    BY DEF Good
  <1>5. lines # <<>> => lines[1] = Whole[1]
    BY <1>1, <1>3, <1>4 DEF PrefixOf
  <1>6. /\ e.seq = n
        /\ lines # <<>> => e.run = lines[1].run
        /\ e.kind = "run_started" <=> lines = <<>>
        /\ e.kind = "checkpoint" =>
             e.digest = ContentHash(lines) /\ e.last = n - 1
        /\ n = Len(Whole) => e.kind = "checkpoint"
    <2>1. CASE n < Len(Whole)
      <3>1. n + 1 \in 1 .. Len(Whole) /\ e = Whole[n + 1]
        BY <1>1, <1>3, <2>1
      <3> QED
        BY <1>1, <1>3, <1>5, <2>1, <3>1
    <2>2. CASE n = Len(Whole)
      <3>1. PICK b : e = NewCheckpoint(lines, b)
        BY <2>2
      <3> QED
        BY <1>1, <1>3, <2>2, <3>1 DEF NewCheckpoint, LastSequence
    <2> QED
      BY <1>1, <1>3, <2>1, <2>2
  <1>7. Integrity(all) /\ CheckpointsVerify(all)
    BY <1>2, <1>4, <1>6, ReadableAppend
  <1>8. PrefixOf(all, Whole)
    <2> SUFFICES ASSUME NEW i \in 1 .. Len(all)
                 PROVE  IF i <= Len(Whole) THEN all[i] = Whole[i]
                        ELSE /\ i = Len(Whole) + 1
                             /\ all[i].kind = "checkpoint"
      BY DEF PrefixOf
    <2>1. CASE i \in 1 .. n
      BY <1>2, <1>4, <2>1 DEF PrefixOf
    <2>2. CASE i = n + 1
      BY <1>1, <1>2, <1>3, <1>6, <2>2
    <2> QED
      BY <1>2, <1>3, <2>1, <2>2
  <1> QED
    BY <1>2, <1>7, <1>8

(* The store's answer to w, with the file as it was or one event longer.   *)
LEMMA AnswerKeepsGood ==
  ASSUME Types, Good, Whole' = Whole,
         NEW w \in Clients, phase[w] = "appending", NEW answer,
         reply' = [reply EXCEPT ![w] = answer],
         UNCHANGED <<op, event, stream, pos, phase>>,
         Integrity(lines') /\ CheckpointsVerify(lines'),
         PrefixOf(lines', Whole),
         Len(lines') \in {Len(lines), Len(lines) + 1},
         op[w] = "append" /\ answer.outcome \in {"appended", "noop"} =>
           pos[w] < Len(lines'),
         RoomForRun => answer.outcome \notin {"failed", "conflict"}
  PROVE  Good'
  <1>1. /\ \A d \in Clients : reply'[d] = IF d = w THEN answer ELSE reply[d]
        /\ Len(lines) \in Nat /\ Len(Whole) \in Nat
    BY LengthIsNat, WholeNumbered DEF Types
  <1>2. ASSUME NEW d \in Clients, phase[d] = "appending"
        PROVE  OnCourse(d)'
    <2>1. OnCourse(d)
      BY <1>2 DEF Good
    <2>2. Confirmed(d)' /\ op[d] = "append" => pos[d] < Len(lines')
      <3>1. CASE d = w
        BY <1>1, <3>1 DEF Confirmed
      <3>2. CASE d # w
        BY <1>1, <2>1, <3>2 DEF Confirmed, OnCourse
      <3> QED
        BY <3>1, <3>2
    <2> QED
      BY <1>1, <2>1, <2>2 DEF OnCourse
  <1>3. ASSUME RoomForRun, NEW d \in Clients
        PROVE  NotRefused(d)'
    <2>1. NotRefused(d)
      BY <1>3 DEF Good
    <2> QED
      BY <1>1, <1>3, <2>1 DEF NotRefused
  <1>4. PrefixOf(lines', Whole')
    OBVIOUS
  <1> QED
    BY <1>2, <1>3, <1>4 DEF Good, PrefixOf, Integrity, CheckpointsVerify,
                            ContentHash, RoomForRun

LEMMA WriteKeepsGood ==
  ASSUME Types, Good, Whole' = Whole,
         NEW w \in Clients, phase[w] = "appending", NEW e, Write(w, e),
         UNCHANGED <<op, event, stream, pos, phase>>,
         Len(lines) <= Len(Whole),
         Len(lines) < Len(Whole) => e = Whole[Len(lines) + 1],
         Len(lines) = Len(Whole) =>
           \E b : e = NewCheckpoint(lines, b)
  PROVE  Good'
  <1>1. /\ Len(lines) \in Nat /\ Len(Whole) \in Nat /\ Len(Whole) >= 2
        /\ OnCourse(w)
    BY LengthIsNat, WholeNumbered DEF Types, Good
  <1>2. CASE Fits(Append(lines, e))
    <2>1. /\ lines' = Append(lines, e)
          /\ reply' = [reply EXCEPT ![w] =
                         [outcome |-> "appended", last |-> e.seq]]
      BY <1>2 DEF Write, Recovered, Answer
    <2>2. /\ Integrity(lines') /\ CheckpointsVerify(lines')
          /\ PrefixOf(lines', Whole) /\ Len(lines') = Len(lines) + 1
      BY <2>1, NextEventFits
    <2>3. pos[w] < Len(lines')
      BY <1>1, <2>2 DEF OnCourse
    <2> QED
      BY <2>1, <2>2, <2>3, AnswerKeepsGood
  <1>3. CASE ~Fits(Append(lines, e))
    <2>1. /\ lines' = lines
          /\ reply' = [reply EXCEPT ![w] = [outcome |-> "failed", last |-> -1]]
      BY <1>3 DEF Write, Recovered, Answer
    <2>2. ~RoomForRun
      <3>1. Len(Append(lines, e)) = Len(lines) + 1
        BY NextEventFits
      <3>2. RoomForRun => Len(Whole) < MaxEvents
        BY DEF RoomForRun, Types, Whole
      <3> QED
        BY <1>1, <1>3, <3>1, <3>2, SizesAssumption DEF Fits
    <2>3. /\ Integrity(lines') /\ CheckpointsVerify(lines')
          /\ PrefixOf(lines', Whole)
      BY <2>1 DEF Good
    <2> QED
      BY <2>1, <2>2, <2>3, AnswerKeepsGood
  <1> QED
    BY <1>2, <1>3

LEMMA AppendKeepsGood ==
  ASSUME Types, Undisturbed, Good, Whole' = Whole,
         NEW w \in Clients, phase[w] = "appending", AppendEvent(w),
         UNCHANGED <<stream, pos, phase>>
  PROVE  Good'
  <1> DEFINE e == event[w]
             n == Len(lines)
             mine == RunMatches(e) /\ ExpectedMatches(expected[w])
  <1>1. /\ Len(Whole) \in Nat /\ Len(Whole) >= 2
        /\ \A i \in 1 .. Len(Whole) :
             /\ Whole[i].run = TheRun /\ Whole[i].seq = i - 1
             /\ Whole[i].kind = IF i = 1 THEN "run_started" ELSE "recorded"
        /\ n \in Nat /\ (lines = <<>> <=> n = 0)
    BY WholeNumbered, LengthIsNat DEF Types
  <1>2. /\ op[w] = "append" /\ UNCHANGED <<op, event>>
        /\ OnCourse(w) /\ PrefixOf(lines, Whole)
        /\ Integrity(lines) /\ CheckpointsVerify(lines)
    BY DEF AppendEvent, Outstanding, clientVars, Good
  <1>3. /\ pos[w] \in Nat /\ pos[w] < Len(Whole) /\ pos[w] <= n
        /\ e = Whole[pos[w] + 1] /\ pos[w] + 1 \in 1 .. Len(Whole)
    BY <1>1, <1>2 DEF OnCourse
  <1>4. e.seq = pos[w] /\ e.run = TheRun
        /\ (e.seq = 0 => e.kind = "run_started")
    BY <1>1, <1>3
  <1>5. Readable
    BY <1>2 DEF Readable
  <1>6. mine
    <2>1. lines # <<>> => lines[1] = Whole[1]
      BY <1>1, <1>2 DEF PrefixOf
    <2>2. RunMatches(e)
      BY <1>1, <1>4, <2>1 DEF RunMatches
    <2> QED
      BY <2>2 DEF ExpectedMatches, Types
  <1>7. AlreadyRecorded(e) <=> pos[w] < n
    <2>1. ASSUME pos[w] < n PROVE lines[pos[w] + 1] = e
      <3>1. pos[w] + 1 \in 1 .. Len(lines) /\ pos[w] + 1 <= Len(Whole)
        BY <1>1, <1>3, <2>1
      <3>2. lines[pos[w] + 1] = Whole[pos[w] + 1]
        BY <1>2, <3>1 DEF PrefixOf
      <3> QED
        BY <1>3, <3>2
    <2> QED
      BY <1>1, <1>3, <1>4, <2>1 DEF AlreadyRecorded, LastSequence
  <1>8. pos[w] = n => Follows(e)
    BY <1>1, <1>4 DEF Follows, LastSequence
  <1> HIDE DEF e, mine
  <1>9. \/ /\ AlreadyRecorded(e) /\ Answer(w, "noop", LastSequence(lines))
           /\ lines' = lines
        \/ ~AlreadyRecorded(e) /\ Write(w, e)
    BY <1>1, <1>3, <1>5, <1>6, <1>7, <1>8 DEF AppendEvent, e, mine
  <1>10. CASE /\ AlreadyRecorded(e) /\ Answer(w, "noop", LastSequence(lines))
              /\ lines' = lines
    <2>1. reply' = [reply EXCEPT ![w] =
                      [outcome |-> "noop", last |-> LastSequence(lines)]]
      BY <1>10 DEF Answer
    <2>2. /\ Integrity(lines') /\ CheckpointsVerify(lines')
          /\ PrefixOf(lines', Whole)
      BY <1>2, <1>10
    <2> QED
      BY <1>2, <1>7, <1>10, <2>1, <2>2, AnswerKeepsGood
  <1>11. CASE ~AlreadyRecorded(e) /\ Write(w, e)
    <2>1. n = pos[w]
      BY <1>1, <1>3, <1>7, <1>11
    <2> QED
      BY <1>1, <1>2, <1>3, <1>11, <2>1, WriteKeepsGood
  <1> QED
    BY <1>9, <1>10, <1>11

LEMMA CompactKeepsGood ==
  ASSUME Types, Undisturbed, Good, Whole' = Whole,
         NEW w \in Clients, phase[w] = "appending", CompactJournal(w),
         UNCHANGED <<stream, pos, phase>>
  PROVE  Good'
  <1> DEFINE n == Len(lines)
  <1>1. /\ Len(Whole) \in Nat /\ Len(Whole) >= 2
        /\ \A i \in 1 .. Len(Whole) :
             /\ Whole[i].kind = IF i = 1 THEN "run_started" ELSE "recorded"
        /\ n \in Nat /\ (lines = <<>> <=> n = 0)
    BY WholeNumbered, LengthIsNat DEF Types
  <1>2. /\ op[w] = "compact" /\ UNCHANGED <<op, event>>
        /\ OnCourse(w) /\ PrefixOf(lines, Whole)
        /\ Integrity(lines) /\ CheckpointsVerify(lines)
    BY DEF CompactJournal, Outstanding, clientVars, Good
  <1>3. n >= Len(Whole) /\ n <= Len(Whole) + 1
    <2>1. n >= Len(Whole)
      BY <1>2 DEF OnCourse
    <2>2. n \in 1 .. n
      BY <1>1, <2>1
    <2> QED
      BY <1>1, <1>2, <2>1, <2>2 DEF PrefixOf
  <1>4. Readable /\ lines # <<>> /\ ExpectedMatches(expected[w])
    BY <1>1, <1>2, <1>3 DEF Readable, ExpectedMatches, Types
  <1>5. TailIsCheckpoint <=> n = Len(Whole) + 1
    BY <1>1, <1>2, <1>3 DEF TailIsCheckpoint, PrefixOf
  <1>6. \/ /\ TailIsCheckpoint /\ Answer(w, "noop", LastSequence(lines))
           /\ lines' = lines
        \/ ~TailIsCheckpoint /\ \E b \in Bodies : Write(w, NewCheckpoint(lines, b))
    BY <1>4 DEF CompactJournal
  <1>7. CASE /\ TailIsCheckpoint /\ Answer(w, "noop", LastSequence(lines))
             /\ lines' = lines
    <2>1. reply' = [reply EXCEPT ![w] =
                      [outcome |-> "noop", last |-> LastSequence(lines)]]
      BY <1>7 DEF Answer
    <2>2. /\ Integrity(lines') /\ CheckpointsVerify(lines')
          /\ PrefixOf(lines', Whole)
      BY <1>2, <1>7
    <2> QED
      BY <1>2, <1>7, <2>1, <2>2, AnswerKeepsGood
  <1>8. ASSUME ~TailIsCheckpoint, NEW b \in Bodies,
               Write(w, NewCheckpoint(lines, b))
        PROVE  Good'
    <2>1. n = Len(Whole)
      BY <1>1, <1>3, <1>5, <1>8
    <2> QED
      BY <1>2, <1>8, <2>1, WriteKeepsGood
  <1> QED
    BY <1>6, <1>7, <1>8

(* A checkpoint of the operator that disturbs nothing follows the run.     *)
LEMMA OperatorKeepsGood ==
  ASSUME Types, Undisturbed', Good, Whole' = Whole, OperatorCompact
  PROVE  Good'
  <1>1. PICK b \in Bodies : lines' = Append(lines, NewCheckpoint(lines, b))
    BY DEF OperatorCompact, Recovered
  <1> DEFINE e == NewCheckpoint(lines, b)
             n == Len(lines)
  <1>2. /\ n \in Nat /\ Len(Whole) \in Nat
        /\ Len(lines') = n + 1 /\ lines'[n + 1] = e
    BY <1>1, LengthIsNat, WholeNumbered, SequenceGrows DEF Types
  <1>3. e.kind = "checkpoint"
    BY DEF NewCheckpoint
  <1>4. n >= Len(Whole)
    <2>1. n + 1 > Len(Whole)
      BY <1>2, <1>3 DEF Undisturbed
    <2> QED
      BY <1>2, <2>1
  <1>5. n = Len(Whole)
    <2>1. lines[n].kind # "checkpoint" /\ lines # <<>>
      BY DEF OperatorCompact, TailIsCheckpoint
    <2>2. n \in 1 .. n
      BY <1>2, <2>1, LengthIsNat DEF Types
    <2> QED
      BY <1>2, <1>4, <2>1, <2>2 DEF Good, PrefixOf
  <1>6. /\ Integrity(lines') /\ CheckpointsVerify(lines')
        /\ PrefixOf(lines', Whole)
    BY <1>1, <1>2, <1>5, NextEventFits
  <1>7. UNCHANGED <<op, event, reply, stream, pos, phase>>
    BY DEF OperatorCompact
  <1>8. ASSUME NEW d \in Clients, phase[d] = "appending"
        PROVE  OnCourse(d)'
    <2>1. OnCourse(d)
      BY <1>8 DEF Good
    <2> QED
      BY <1>2, <1>7, <2>1 DEF OnCourse, Confirmed
  <1> QED
    BY <1>6, <1>7, <1>8 DEF Good, PrefixOf, Integrity, CheckpointsVerify,
                            ContentHash, NotRefused

(* Steps of the helper that leave the file alone.                          *)
LEMMA HelperKeepsGood ==
  ASSUME Types, Quiet, Undisturbed, Good, Whole' = Whole,
         NEW w \in Clients,
         StartWriter(w) \/ Send(w) \/ Receive(w) \/ Interrupt(w)
  PROVE  Good'
  <1>1. lines' = lines
    BY DEF StartWriter, Send, Receive, Interrupt, Hear, vars
  <1>2. /\ Len(lines) \in Nat /\ Len(Whole) \in Nat
        /\ Integrity(lines') /\ CheckpointsVerify(lines')
        /\ PrefixOf(lines', Whole')
    BY <1>1, LengthIsNat, WholeNumbered DEF Types, Good
  <1>3. ASSUME NEW d \in Clients, d # w
        PROVE  /\ phase'[d] = phase[d] /\ op'[d] = op[d]
               /\ event'[d] = event[d] /\ reply'[d] = reply[d]
               /\ stream'[d] = stream[d] /\ pos'[d] = pos[d]
    <2>1. CASE StartWriter(w)
      BY <1>3, <2>1 DEF StartWriter, vars, Types
    <2>2. CASE Send(w)
      BY <1>3, <2>2 DEF Send, streamVars, Types
    <2>3. CASE Receive(w)
      BY <1>3, <2>3 DEF Receive, Hear, Forget, Types
    <2>4. CASE Interrupt(w)
      BY <1>3, <2>4 DEF Interrupt, Forget, Types
    <2> QED
      BY <2>1, <2>2, <2>3, <2>4
  <1>4. /\ phase'[w] = "appending" => OnCourse(w)'
        /\ RoomForRun => NotRefused(w)'
    <2>1. CASE StartWriter(w)
      <3>1. /\ op[w] = "none" /\ reply[w] = NoReply
        BY <2>1 DEF StartWriter, Quiet
      <3>2. /\ op'[w] = "none" /\ reply'[w] = NoReply
            /\ pos'[w] = 0 /\ phase'[w] = "appending"
        BY <2>1, <3>1 DEF StartWriter, vars, Types
      <3>3. stream'[w] = Whole
        <4>1. RunOn = 0
          BY DEF Undisturbed, DateIsStable, RunOn
        <4> QED
          BY <2>1, <4>1 DEF StartWriter, Types, Whole
      <3> QED
        BY <1>1, <1>2, <3>2, <3>3 DEF OnCourse, NotRefused, NoReply
    <2>2. CASE Send(w)
      <3>1. OnCourse(w) /\ phase[w] = "appending" /\ op[w] = "none"
        BY <2>2 DEF Send, Good
      <3>2. /\ reply' = reply /\ reply[w] = NoReply
            /\ stream' = stream /\ pos' = pos /\ phase' = phase
        BY <2>2, <3>1 DEF Send, streamVars, Quiet
      <3>3. \/ /\ pos[w] < Len(Whole) /\ op'[w] = "append"
               /\ event'[w] = Whole[pos[w] + 1]
            \/ ~(pos[w] < Len(Whole)) /\ op'[w] = "compact"
        BY <2>2, <3>1 DEF Send, Types, OnCourse
      <3> QED
        BY <1>1, <1>2, <3>1, <3>2, <3>3
           DEF OnCourse, NotRefused, Confirmed, NoReply
    <2>3. CASE Receive(w)
      <3>1. /\ OnCourse(w) /\ phase[w] = "appending" /\ reply[w] # NoReply
            /\ stream' = stream /\ op'[w] = "none" /\ reply'[w] = NoReply
        BY <2>3 DEF Receive, Hear, Forget, Good, Types
      <3>2. pos'[w] = IF Confirmed(w) /\ op[w] = "append"
                      THEN pos[w] + 1 ELSE pos[w]
        BY <2>3 DEF Receive, Types
      <3>3. OnCourse(w)'
        BY <1>1, <1>2, <3>1, <3>2 DEF OnCourse, Confirmed, NoReply
      <3>4. RoomForRun => phase'[w] # "raised"
        <4> SUFFICES ASSUME RoomForRun
                     PROVE  phase'[w] # "raised"
          OBVIOUS
        <4>1. Confirmed(w) => phase'[w] # "raised"
          BY <2>3 DEF Receive, Types
        <4>2. Confirmed(w)
          BY <3>1 DEF Good, NotRefused, Confirmed, Quiet, Outcomes
        <4> QED
          BY <4>1, <4>2
      <3> QED
        BY <3>1, <3>3, <3>4 DEF NotRefused, NoReply
    <2>4. CASE Interrupt(w)
      BY <2>4 DEF Interrupt, Forget, Types, NotRefused, NoReply
    <2> QED
      BY <2>1, <2>2, <2>3, <2>4
  <1>5. ASSUME NEW d \in Clients, d # w, phase'[d] = "appending"
        PROVE  OnCourse(d)'
    <2>1. OnCourse(d)
      BY <1>3, <1>5 DEF Good
    <2> QED
      BY <1>1, <1>3, <1>5, <2>1 DEF OnCourse, Confirmed
  <1>6. ASSUME NEW d \in Clients, d # w, RoomForRun
        PROVE  NotRefused(d)'
    BY <1>3, <1>6 DEF Good, NotRefused
  <1> QED
    BY <1>2, <1>4, <1>5, <1>6 DEF Good, PrefixOf, Integrity,
       CheckpointsVerify, ContentHash, RoomForRun

-----------------------------------------------------------------------------
(* The induction.                                                          *)

LEMMA StreamInitIInv == StreamInit => StreamIInv
  <1> SUFFICES ASSUME StreamInit PROVE StreamIInv
    OBVIOUS
  <1>1. Types
    <2>1. lines \in Seq({}) /\ lines = <<>>
      BY DEF StreamInit, Init
    <2> QED
      BY <2>1 DEF StreamInit, Init, Types, IsSequence
  <1>2. Quiet
    BY DEF StreamInit, Init, Quiet
  <1>3. lines = <<>> /\ Len(lines) = 0
    BY DEF StreamInit, Init
  <1>4. DateIsStable => Undisturbed
    BY <1>3 DEF Undisturbed
  <1>5. Good
    <2>1. Integrity(lines) /\ CheckpointsVerify(lines) /\ PrefixOf(lines, Whole)
      BY <1>3 DEF Integrity, CheckpointsVerify, PrefixOf
    <2>2. \A w \in Clients : phase[w] = "off" /\ reply[w] = NoReply
      BY DEF StreamInit, Init
    <2> QED
      BY <2>1, <2>2 DEF Good, NotRefused, NoReply
  <1> QED
    BY <1>1, <1>2, <1>4, <1>5 DEF StreamIInv

LEMMA GoodKept ==
  ASSUME Types, Quiet, Undisturbed => Good, [StreamNext]_allVars
  PROVE  Undisturbed' => Good'
  <1> SUFFICES ASSUME Undisturbed'
               PROVE  Good'
    OBVIOUS
  <1>1. Undisturbed /\ Whole' = Whole /\ Good
    BY UndisturbedBefore
  <1>2. ASSUME NEW w \in Clients, Serve(w)
        PROVE  Good'
    <2>1. /\ phase[w] = "appending"
          /\ AppendEvent(w) \/ CompactJournal(w)
          /\ UNCHANGED <<stream, pos, phase>>
      BY <1>2 DEF Serve, streamVars
    <2> QED
      BY <1>1, <2>1, AppendKeepsGood, CompactKeepsGood
  <1>3. ASSUME NEW w \in Clients, WriterNext(w) \/ Interrupt(w)
        PROVE  Good'
    BY <1>1, <1>2, <1>3, HelperKeepsGood DEF WriterNext
  <1>4. CASE OperatorCompact
    BY <1>1, <1>4, OperatorKeepsGood
  <1>5. CASE Midnight \/ UNCHANGED allVars
    <2>1. UNCHANGED <<lines, op, event, reply, stream, pos, phase>>
      BY <1>5 DEF Midnight, allVars, vars, streamVars
    <2>2. Integrity(lines') /\ CheckpointsVerify(lines')
          /\ PrefixOf(lines', Whole')
      BY <1>1, <2>1 DEF Good
    <2>3. ASSUME NEW w \in Clients
          PROVE  /\ phase'[w] = "appending" => OnCourse(w)'
                 /\ RoomForRun => NotRefused(w)'
      BY <1>1, <2>1 DEF Good, OnCourse, NotRefused, Confirmed
    <2> QED
      BY <2>2, <2>3 DEF Good, PrefixOf, Integrity, CheckpointsVerify,
                        ContentHash, RoomForRun
  <1> QED
    BY <1>3, <1>4, <1>5 DEF StreamNext

LEMMA StreamStepIInv ==
  ASSUME StreamIInv, [StreamNext]_allVars
  PROVE  StreamIInv'
  <1>1. Types /\ Quiet /\ (Undisturbed => Good)
    BY DEF StreamIInv
  <1>2. Types' /\ Quiet' /\ (Undisturbed' => Good')
    BY <1>1, TypesKept, QuietKept, GoodKept
  <1>3. ASSUME (compactions = 0 /\ DateIsStable)'
        PROVE  Undisturbed'
    <2>1. /\ result' = result /\ today' \in {today, today + 1}
          /\ today \in Nat /\ compactions \in Nat
          /\ compactions' \in {compactions, compactions + 1}
          /\ lines' = lines \/ \E e : lines' = Append(lines, e)
      BY <1>1, StepGrows DEF Types
    <2>2. compactions = 0 /\ DateIsStable /\ compactions' = compactions
      BY <1>3, <2>1 DEF DateIsStable
    <2>3. Undisturbed /\ Good
      BY <2>2 DEF StreamIInv
    <2>4. Whole' = Whole /\ Len(lines) \in Nat /\ Len(Whole) \in Nat
      BY <1>1, <2>1, LengthIsNat, WholeNumbered DEF Whole, Types
    <2>5. ASSUME NEW i \in 1 .. Len(lines'), lines'[i].kind = "checkpoint"
          PROVE  i > Len(Whole)
      <3>1. CASE lines' = lines
        BY <2>3, <2>5, <3>1 DEF Undisturbed
      <3>2. ASSUME NEW w \in Clients, Serve(w)
            PROVE  i > Len(Whole)
        <4>1. /\ phase[w] = "appending"
              /\ AppendEvent(w) \/ CompactJournal(w)
              /\ UNCHANGED <<stream, pos, phase>>
          BY <3>2 DEF Serve, streamVars
        <4>2. Good'
          BY <1>1, <2>3, <2>4, <4>1, AppendKeepsGood, CompactKeepsGood
        <4>3. PrefixOf(lines', Whole)
          BY <2>4, <4>2 DEF Good
        <4> QED
          BY <1>1, <2>4, <2>5, <4>3, WholeNumbered DEF PrefixOf
      <3>3. lines' = lines \/ \E w \in Clients : Serve(w)
        BY <2>1, <2>2 DEF StreamNext, WriterNext, StartWriter, Send, Receive,
           Hear, Interrupt, OperatorCompact, Midnight, allVars, vars
      <3> QED
        BY <3>1, <3>2, <3>3
    <2> QED
      BY <1>3, <2>4, <2>5 DEF Undisturbed
  <1> QED
    BY <1>2, <1>3 DEF StreamIInv

LEMMA StreamInvariance == StreamSpec => []StreamIInv
  BY StreamInitIInv, StreamStepIInv, PTL DEF StreamSpec

-----------------------------------------------------------------------------
(* append_discovery_journal writes one stream however often it is run, by  *)
(* however many processes at once: as long as no operator compacts and the *)
(* date is stable, the file is a prefix of the run's events, each once and *)
(* in its place, followed by at most one checkpoint.                       *)
THEOREM OneStream == StreamSpec => []JournalIsPrefix
  <1>1. StreamIInv => JournalIsPrefix
    BY DEF StreamIInv, Good, PrefixOf, JournalIsPrefix, Whole
  <1> QED
    BY <1>1, StreamInvariance, PTL

(* Running the helper again is safe: if the run fits in the journal, a     *)
(* writer's append is refused only when a checkpoint of the operator has   *)
(* taken the place of an event, or the run was projected on another date.  *)
THEOREM RerunIsSafe ==
  RoomForRun => (StreamSpec => []RefusedOnlyAfterCompaction)
  <1>1. RoomForRun /\ StreamIInv => RefusedOnlyAfterCompaction
    <2> SUFFICES ASSUME RoomForRun, StreamIInv,
                        \E w \in Clients : phase[w] = "raised"
                 PROVE  \/ ~DateIsStable
                        \/ \E i \in 1 .. Len(lines) :
                             /\ lines[i].kind = "checkpoint"
                             /\ i <= Len(Whole)
      BY DEF RefusedOnlyAfterCompaction, Whole
    <2>1. ~Undisturbed
      BY DEF StreamIInv, Good, NotRefused
    <2>2. Len(lines) \in Nat /\ Len(Whole) \in Nat
      BY LengthIsNat, WholeNumbered DEF StreamIInv, Types
    <2> QED
      BY <2>1, <2>2 DEF Undisturbed
  <1>2. SUFFICES ASSUME RoomForRun
                 PROVE  StreamSpec => []RefusedOnlyAfterCompaction
    OBVIOUS
  <1>3. StreamIInv => RefusedOnlyAfterCompaction
    BY <1>1, <1>2
  <1> QED
    BY <1>3, StreamInvariance, PTL

-----------------------------------------------------------------------------
(* What the reductions compute from a recorded stream.                     *)

(* The payloads of one kind among the bodies of events.                    *)
Parts(bodies, kind) ==
  [i \in DOMAIN bodies |->
     IF bodies[i][1] = kind THEN <<bodies[i][2]>> ELSE <<>>]

PayloadsOf(bodies, kind) == FlattenSeq(Parts(bodies, kind))

BodyKinds == {"run_started", "retry_scheduled", "model_response_invalid",
              "query_planned", "query_executed", "provider_gap", "lead_found",
              "run_completed"}

Bodied(U) == BodyKinds \X U

LEMMA PartsType ==
  ASSUME NEW U, NEW s \in Seq(Bodied(U)), NEW k
  PROVE  Parts(s, k) \in Seq(Seq(U)) /\ Len(Parts(s, k)) = Len(s)
  <1>1. DOMAIN s = 1 .. Len(s) /\ Len(s) \in Nat
    OBVIOUS
  <1>2. ASSUME NEW i \in DOMAIN s
        PROVE  (IF s[i][1] = k THEN <<s[i][2]>> ELSE <<>>) \in Seq(U)
    <2>1. s[i] \in Bodied(U)
      OBVIOUS
    <2>2. s[i][2] \in U
      BY <2>1 DEF Bodied
    <2> QED
      BY <2>2
  <1>3. Parts(s, k) \in [1 .. Len(s) -> Seq(U)]
    BY <1>1, <1>2 DEF Parts
  <1> QED
    BY <1>1, <1>3

LEMMA PayloadsType ==
  ASSUME NEW U, NEW s \in Seq(Bodied(U)), NEW k
  PROVE  PayloadsOf(s, k) \in Seq(U)
  BY PartsType, FlattenType DEF PayloadsOf

LEMMA PayloadsOfNothing ==
  ASSUME NEW k PROVE PayloadsOf(<<>>, k) = <<>>
  <1>1. Parts(<<>>, k) = <<>>
    BY DEF Parts
  <1> QED
    BY <1>1, FlattenNothing DEF PayloadsOf

LEMMA PayloadsAppend ==
  ASSUME NEW U, NEW s \in Seq(Bodied(U)), NEW e \in Bodied(U), NEW k
  PROVE  PayloadsOf(Append(s, e), k) =
           IF e[1] = k THEN Append(PayloadsOf(s, k), e[2]) ELSE PayloadsOf(s, k)
  <1> DEFINE n == Len(s)
             t == Append(s, e)
             last == IF e[1] = k THEN <<e[2]>> ELSE <<>>
  <1>1. /\ n \in Nat /\ DOMAIN s = 1 .. n /\ DOMAIN t = 1 .. n + 1
        /\ t \in Seq(Bodied(U)) /\ Len(t) = n + 1 /\ t[n + 1] = e
        /\ \A i \in 1 .. n : t[i] = s[i]
    OBVIOUS
  <1>2. last \in Seq(U)
    <2>1. e[2] \in U
      BY DEF Bodied
    <2> QED
      BY <2>1
  <1> HIDE DEF t, last
  <1>3. /\ Parts(s, k) \in Seq(Seq(U)) /\ Len(Parts(s, k)) = n
        /\ Parts(t, k) \in Seq(Seq(U)) /\ Len(Parts(t, k)) = n + 1
    BY <1>1, PartsType
  <1>4. /\ \A i \in 1 .. n : Parts(t, k)[i] = Parts(s, k)[i]
        /\ Parts(t, k)[n + 1] = last
    BY <1>1 DEF Parts, last
  <1>5. Parts(t, k) = Append(Parts(s, k), last)
    <2> DEFINE p == Parts(s, k)
               q == Parts(t, k)
    <2> HIDE DEF p, q, n
    <2>1. /\ Append(p, last) \in Seq(Seq(U)) /\ Len(Append(p, last)) = n + 1
          /\ \A i \in 1 .. n : Append(p, last)[i] = p[i]
          /\ Append(p, last)[n + 1] = last
      BY <1>1, <1>2, <1>3 DEF p
    <2>2. \A i \in 1 .. n + 1 : i \in 1 .. n \/ i = n + 1
      BY <1>1
    <2>3. \A i \in 1 .. n + 1 : q[i] = Append(p, last)[i]
      BY <1>4, <2>1, <2>2 DEF p, q
    <2>4. q = Append(p, last)
      BY <1>1, <1>3, <2>1, <2>3 DEF q
    <2> QED
      BY <2>4 DEF p, q
  <1>6. PayloadsOf(t, k) = PayloadsOf(s, k) \o last
    BY <1>2, <1>3, <1>5, FlattenAppend DEF PayloadsOf
  <1>7. /\ PayloadsOf(s, k) \o <<>> = PayloadsOf(s, k)
        /\ PayloadsOf(s, k) \o <<e[2]>> = Append(PayloadsOf(s, k), e[2])
    <2>1. PayloadsOf(s, k) \in Seq(U) /\ e[2] \in U
      BY PayloadsType DEF Bodied
    <2> QED
      BY <2>1
  <1> QED
    BY <1>6, <1>7 DEF last, t

LEMMA PayloadsOfBoth ==
  ASSUME NEW U, NEW s \in Seq(Bodied(U)), NEW t \in Seq(Bodied(U)), NEW k
  PROVE  PayloadsOf(s \o t, k) = PayloadsOf(s, k) \o PayloadsOf(t, k)
  <1> DEFINE B == Bodied(U)
             T == {r \in Seq(B) :
                     PayloadsOf(s \o r, k) = PayloadsOf(s, k) \o PayloadsOf(r, k)}
  <1> HIDE DEF B
  <1>1. <<>> \in T
    <2>1. s \o <<>> = s
      OBVIOUS
    <2>2. PayloadsOf(s, k) \o <<>> = PayloadsOf(s, k)
      <3>1. PayloadsOf(s, k) \in Seq(U)
        BY PayloadsType
      <3> QED
        BY <3>1
    <2>3. PayloadsOf(s \o <<>>, k) = PayloadsOf(s, k) \o PayloadsOf(<<>>, k)
      BY <2>1, <2>2, PayloadsOfNothing
    <2>4. <<>> \in Seq(B)
      OBVIOUS
    <2> QED
      BY <2>3, <2>4
  <1>2. ASSUME NEW r \in Seq(B), NEW e \in B, r \in T
        PROVE  Append(r, e) \in T
    <2> DEFINE p == PayloadsOf(s, k)
               q == PayloadsOf(r, k)
    <2>1. /\ s \o r \in Seq(B) /\ s \o Append(r, e) = Append(s \o r, e)
          /\ Append(r, e) \in Seq(B)
      BY DEF B
    <2>2. PayloadsOf(s \o r, k) = p \o q
      BY <1>2
    <2>3. p \in Seq(U) /\ q \in Seq(U) /\ e[2] \in U
      BY PayloadsType DEF B, Bodied
    <2> HIDE DEF p, q, T
    <2>4. p \o Append(q, e[2]) = Append(p \o q, e[2])
      BY <2>3
    <2>5. /\ PayloadsOf(Append(s \o r, e), k) =
               IF e[1] = k THEN Append(p \o q, e[2]) ELSE p \o q
          /\ PayloadsOf(Append(r, e), k) = IF e[1] = k THEN Append(q, e[2]) ELSE q
      <3> DEFINE sr == s \o r
      <3> HIDE DEF sr
      <3>1. sr \in Seq(Bodied(U)) /\ r \in Seq(Bodied(U)) /\ e \in Bodied(U)
        BY <2>1 DEF B, sr
      <3>2. PayloadsOf(Append(sr, e), k) =
              IF e[1] = k THEN Append(PayloadsOf(sr, k), e[2])
                          ELSE PayloadsOf(sr, k)
        BY <3>1, PayloadsAppend
      <3>3. PayloadsOf(Append(r, e), k) =
              IF e[1] = k THEN Append(PayloadsOf(r, k), e[2])
                          ELSE PayloadsOf(r, k)
        BY <3>1, PayloadsAppend
      <3> QED
        BY <2>2, <3>2, <3>3 DEF sr, q
    <2>6. PayloadsOf(s \o Append(r, e), k) = p \o PayloadsOf(Append(r, e), k)
      BY <2>1, <2>4, <2>5
    <2> QED
      BY <2>1, <2>6 DEF T, p
  <1>3. Seq(B) \subseteq T
    <2> HIDE DEF T
    <2> QED
      BY <1>1, <1>2, EverySequence
  <1> QED
    BY <1>3 DEF B

(* A segment all of one kind, as the stream has for retries, quarantines   *)
(* and leads.                                                              *)
Segment(kind, p) == [i \in 1 .. Len(p) |-> <<kind, p[i]>>]

LEMMA SegmentType ==
  ASSUME NEW U, NEW p \in Seq(U), NEW kind \in BodyKinds
  PROVE  /\ Segment(kind, p) \in Seq(Bodied(U))
         /\ Len(Segment(kind, p)) = Len(p)
  <1> DEFINE n == Len(p)
             s == Segment(kind, p)
  <1>1. n \in Nat /\ \A i \in 1 .. n : p[i] \in U
    OBVIOUS
  <1>2. ASSUME NEW i \in 1 .. n PROVE <<kind, p[i]>> \in Bodied(U)
    BY <1>1 DEF Bodied
  <1>3. s \in [1 .. n -> Bodied(U)]
    BY <1>2 DEF Segment
  <1> HIDE DEF n, s
  <1>4. s \in Seq(Bodied(U)) /\ Len(s) = n
    BY <1>1, <1>3
  <1> QED
    BY <1>4 DEF n, s

LEMMA SegmentPayloads ==
  ASSUME NEW U, NEW p \in Seq(U), NEW kind \in BodyKinds, NEW k
  PROVE  PayloadsOf(Segment(kind, p), k) = IF k = kind THEN p ELSE <<>>
  <1> DEFINE T == {q \in Seq(U) : PayloadsOf(Segment(kind, q), k) =
                                    IF k = kind THEN q ELSE <<>>}
  <1>1. <<>> \in T
    <2>1. Segment(kind, <<>>) = <<>> /\ <<>> \in Seq(U)
      BY DEF Segment
    <2>2. PayloadsOf(Segment(kind, <<>>), k) = <<>>
      BY <2>1, PayloadsOfNothing
    <2> QED
      BY <2>1, <2>2
  <1>2. ASSUME NEW q \in Seq(U), NEW e \in U, q \in T
        PROVE  Append(q, e) \in T
    <2> DEFINE s == Segment(kind, q)
               t == Segment(kind, Append(q, e))
               n == Len(q)
               last == <<kind, e>>
    <2>1. /\ n \in Nat /\ Append(q, e) \in Seq(U) /\ Len(Append(q, e)) = n + 1
          /\ Append(q, e)[n + 1] = e /\ \A i \in 1 .. n : Append(q, e)[i] = q[i]
      OBVIOUS
    <2>2. /\ s \in Seq(Bodied(U)) /\ Len(s) = n
          /\ t \in Seq(Bodied(U)) /\ Len(t) = n + 1
      BY <2>1, SegmentType
    <2>3. last \in Bodied(U) /\ last[1] = kind /\ last[2] = e
      BY DEF Bodied
    <2>4. /\ \A i \in 1 .. n : t[i] = s[i]
          /\ t[n + 1] = last
      <3> DEFINE r == Append(q, e)
      <3> HIDE DEF r
      <3>1. /\ \A i \in 1 .. n : Segment(kind, q)[i] = <<kind, q[i]>>
            /\ \A i \in 1 .. n + 1 : Segment(kind, r)[i] = <<kind, r[i]>>
        BY <2>1 DEF Segment, r
      <3>2. \A i \in 1 .. n : i \in 1 .. n + 1 /\ r[i] = q[i]
        BY <2>1 DEF r
      <3>3. n + 1 \in 1 .. n + 1 /\ r[n + 1] = e
        BY <2>1 DEF r
      <3> QED
        BY <3>1, <3>2, <3>3 DEF r
    <2>5. t = Append(s, last)
      <3> HIDE DEF s, t, last, n
      <3>1. /\ Append(s, last) \in Seq(Bodied(U)) /\ Len(Append(s, last)) = n + 1
            /\ \A i \in 1 .. n : Append(s, last)[i] = s[i]
            /\ Append(s, last)[n + 1] = last
        BY <2>1, <2>2, <2>3
      <3>2. \A i \in 1 .. n + 1 : i \in 1 .. n \/ i = n + 1
        BY <2>1
      <3>3. \A i \in 1 .. n + 1 : t[i] = Append(s, last)[i]
        BY <2>4, <3>1, <3>2
      <3> QED
        BY <2>1, <2>2, <3>1, <3>3
    <2>6. PayloadsOf(t, k) =
            IF kind = k THEN Append(PayloadsOf(s, k), e) ELSE PayloadsOf(s, k)
      <3> HIDE DEF s, t, last
      <3> QED
        BY <2>2, <2>3, <2>5, PayloadsAppend
    <2>7. PayloadsOf(s, k) = IF k = kind THEN q ELSE <<>>
      BY <1>2
    <2> HIDE DEF s, t
    <2>8. PayloadsOf(t, k) = IF k = kind THEN Append(q, e) ELSE <<>>
      BY <2>6, <2>7
    <2> QED
      BY <2>1, <2>8 DEF t
  <1>3. Seq(U) \subseteq T
    <2> HIDE DEF T
    <2> QED
      BY <1>1, <1>2, EverySequence
  <1> QED
    BY <1>3

-----------------------------------------------------------------------------
(* Two events of each assessment, the second by its outcome.               *)
LEMMA Halves ==
  ASSUME NEW n \in Nat
  PROVE  /\ \A k \in 1 .. 2 * n : (k + 1) \div 2 \in 1 .. n
         /\ (2 * n + 1) % 2 = 1 /\ (2 * n + 1 + 1) \div 2 = n + 1
         /\ (2 * n + 2) % 2 = 0 /\ (2 * n + 2 + 1) \div 2 = n + 1
  OBVIOUS

Planned(a) == <<"query_planned", a.query>>

LEMMA AssessmentBodies ==
  ASSUME NEW U, NEW A, A \subseteq U, \A a \in A : a.query \in U,
         NEW a \in A
  PROVE  Planned(a) \in Bodied(U) /\ OutcomeBody(a) \in Bodied(U)
  <1>1. a \in U /\ a.query \in U
    OBVIOUS
  <1>2. \A k \in BodyKinds : <<k, a>> \in Bodied(U) /\ <<k, a.query>> \in Bodied(U)
    BY <1>1 DEF Bodied
  <1>3. {"query_planned", "provider_gap", "query_executed"} \subseteq BodyKinds
    BY DEF BodyKinds
  <1> QED
    BY <1>2, <1>3 DEF Planned, OutcomeBody

LEMMA QueryBodiesType ==
  ASSUME NEW U, NEW A, A \subseteq U, \A a \in A : a.query \in U,
         NEW s \in Seq(A)
  PROVE  /\ QueryBodies(s) \in Seq(Bodied(U))
         /\ Len(QueryBodies(s)) = 2 * Len(s)
  <1> DEFINE n == Len(s)
             b == QueryBodies(s)
  <1>1. n \in Nat /\ \A i \in 1 .. n : s[i] \in A
    OBVIOUS
  <1>2. ASSUME NEW k \in 1 .. 2 * n
        PROVE  LET a == s[(k + 1) \div 2] IN
               (IF k % 2 = 1 THEN <<"query_planned", a.query>>
                             ELSE OutcomeBody(a)) \in Bodied(U)
    <2> DEFINE a == s[(k + 1) \div 2]
    <2>1. a \in A
      BY <1>1, Halves
    <2> HIDE DEF a
    <2>2. Planned(a) \in Bodied(U) /\ OutcomeBody(a) \in Bodied(U)
      BY <2>1, AssessmentBodies
    <2> QED
      BY <2>2 DEF a, Planned
  <1>3. b \in [1 .. 2 * n -> Bodied(U)]
    BY <1>2 DEF QueryBodies
  <1>4. 2 * n \in Nat
    BY <1>1
  <1> HIDE DEF n, b
  <1>5. b \in Seq(Bodied(U)) /\ Len(b) = 2 * n
    BY <1>3, <1>4
  <1> QED
    BY <1>5 DEF n, b

LEMMA QueryBodiesAppend ==
  ASSUME NEW A, NEW s \in Seq(A), NEW a \in A
  PROVE  QueryBodies(Append(s, a)) =
           Append(Append(QueryBodies(s), Planned(a)), OutcomeBody(a))
  <1> DEFINE U == A \cup {x.query : x \in A}
             n == Len(s)
             t == Append(s, a)
             b == QueryBodies(s)
             c == QueryBodies(t)
             d == Append(Append(b, Planned(a)), OutcomeBody(a))
  <1>0. A \subseteq U /\ \A x \in A : x.query \in U
    OBVIOUS
  <1> HIDE DEF U
  <1>1. /\ n \in Nat /\ t \in Seq(A) /\ Len(t) = n + 1
        /\ t[n + 1] = a /\ \A i \in 1 .. n : t[i] = s[i]
    OBVIOUS
  <1>2. Planned(a) \in Bodied(U) /\ OutcomeBody(a) \in Bodied(U)
    BY <1>0, AssessmentBodies
  <1>3. b \in Seq(Bodied(U)) /\ Len(b) = 2 * n
    BY <1>0, QueryBodiesType
  <1>4. c \in Seq(Bodied(U)) /\ Len(c) = 2 * n + 2
    <2>1. c \in Seq(Bodied(U)) /\ Len(c) = 2 * Len(t)
      <3> HIDE DEF t
      <3> QED
        BY <1>0, <1>1, QueryBodiesType
    <2> QED
      BY <1>1, <2>1
  <1>5. \A k \in 1 .. 2 * n : c[k] = b[k]
    <2> SUFFICES ASSUME NEW k \in 1 .. 2 * n PROVE c[k] = b[k]
      OBVIOUS
    <2>1. (k + 1) \div 2 \in 1 .. n
      BY <1>1, Halves
    <2>2. t[(k + 1) \div 2] = s[(k + 1) \div 2]
      BY <1>1, <2>1
    <2>3. k \in 1 .. 2 * Len(s) /\ k \in 1 .. 2 * Len(t)
      BY <1>1
    <2> HIDE DEF t
    <2> QED
      BY <2>2, <2>3 DEF QueryBodies
  <1>6. c[2 * n + 1] = Planned(a) /\ c[2 * n + 2] = OutcomeBody(a)
    <2>1. 2 * n + 1 \in 1 .. 2 * Len(t) /\ 2 * n + 2 \in 1 .. 2 * Len(t)
      BY <1>1
    <2> HIDE DEF t, n
    <2>2. (2 * n + 1) % 2 = 1 /\ t[(2 * n + 1 + 1) \div 2] = a
      BY <1>1, Halves
    <2>3. (2 * n + 2) % 2 = 0 /\ t[(2 * n + 2 + 1) \div 2] = a
      BY <1>1, Halves
    <2>4. c[2 * n + 1] = Planned(a)
      BY <2>1, <2>2 DEF QueryBodies, Planned
    <2>5. c[2 * n + 2] = OutcomeBody(a)
      BY <2>1, <2>3 DEF QueryBodies
    <2> QED
      BY <2>4, <2>5
  <1>7. c = d
    <2> DEFINE m == 2 * n
               p == Planned(a)
               o == OutcomeBody(a)
    <2>1. m \in Nat
      BY <1>1
    <2> HIDE DEF t, n, b, c, m, p, o
    <2>2. /\ d \in Seq(Bodied(U)) /\ Len(d) = m + 2
          /\ \A k \in 1 .. m : d[k] = b[k]
          /\ d[m + 1] = p /\ d[m + 2] = o
      BY <1>2, <1>3, <2>1 DEF m, p, o
    <2>3. \A k \in 1 .. m + 2 : k \in 1 .. m \/ k = m + 1 \/ k = m + 2
      BY <2>1
    <2> HIDE DEF d
    <2>4. \A k \in 1 .. m + 2 : c[k] = d[k]
      BY <1>5, <1>6, <2>2, <2>3 DEF m, p, o
    <2> QED
      BY <1>4, <2>1, <2>2, <2>4 DEF m
  <1> QED
    BY <1>7 DEF t, b, c, d

(* The assessments of one sort, in their order.                            *)
LEMMA SortedAppend ==
  ASSUME NEW A, NEW s \in Seq(A), NEW a \in A
  PROVE  LET t == Append(s, a) IN
         /\ AtPlaces(t, Gaps(t)) =
              IF IsGap(a) THEN Append(AtPlaces(s, Gaps(s)), a)
                          ELSE AtPlaces(s, Gaps(s))
         /\ AtPlaces(t, DOMAIN t \ Gaps(t)) =
              IF IsGap(a) THEN AtPlaces(s, DOMAIN s \ Gaps(s))
                          ELSE Append(AtPlaces(s, DOMAIN s \ Gaps(s)), a)
  <1> DEFINE n == Len(s)
             t == Append(s, a)
  <1>1. /\ n \in Nat /\ DOMAIN s = 1 .. n /\ DOMAIN t = 1 .. n + 1
        /\ t[n + 1] = a /\ \A i \in 1 .. n : t[i] = s[i]
    OBVIOUS
  <1>2. /\ AtPlaces(t, Gaps(t)) = IF n + 1 \in Gaps(t)
                                  THEN Append(AtPlaces(s, Gaps(t)), a)
                                  ELSE AtPlaces(s, Gaps(t))
        /\ AtPlaces(t, DOMAIN t \ Gaps(t)) =
             IF n + 1 \in DOMAIN t \ Gaps(t)
             THEN Append(AtPlaces(s, DOMAIN t \ Gaps(t)), a)
             ELSE AtPlaces(s, DOMAIN t \ Gaps(t))
    BY AtPlacesAppend
  <1> HIDE DEF t
  <1>3. /\ n + 1 \in DOMAIN t /\ (n + 1 \in Gaps(t) <=> IsGap(a))
        /\ \A i \in DOMAIN s : /\ i \in DOMAIN t
                               /\ i \in Gaps(t) <=> i \in Gaps(s)
    BY <1>1 DEF Gaps
  <1>4. /\ AtPlaces(s, Gaps(t)) = AtPlaces(s, Gaps(s))
        /\ AtPlaces(s, DOMAIN t \ Gaps(t)) = AtPlaces(s, DOMAIN s \ Gaps(s))
    <2>1. \A i \in DOMAIN s : i \in DOMAIN t \ Gaps(t) <=> i \in DOMAIN s \ Gaps(s)
      BY <1>3
    <2> QED
      BY <1>3, <2>1, AtSamePlaces
  <1> QED
    BY <1>2, <1>3, <1>4 DEF t

LEMMA QueryPayloads ==
  ASSUME NEW U, NEW A, A \subseteq U, \A a \in A : a.query \in U,
         NEW s \in Seq(A)
  PROVE  /\ PayloadsOf(QueryBodies(s), "query_planned") =
              [i \in DOMAIN s |-> s[i].query]
         /\ PayloadsOf(QueryBodies(s), "query_executed") =
              AtPlaces(s, DOMAIN s \ Gaps(s))
         /\ PayloadsOf(QueryBodies(s), "provider_gap") = AtPlaces(s, Gaps(s))
         /\ \A k : k \notin {"query_planned", "query_executed", "provider_gap"}
                 => PayloadsOf(QueryBodies(s), k) = <<>>
  <1> DEFINE Of(t, k) == PayloadsOf(QueryBodies(t), k)
             Queries(t) == [i \in DOMAIN t |-> t[i].query]
             Right(t) == /\ Of(t, "query_planned") = Queries(t)
                         /\ Of(t, "query_executed") =
                              AtPlaces(t, DOMAIN t \ Gaps(t))
                         /\ Of(t, "provider_gap") = AtPlaces(t, Gaps(t))
                         /\ \A k : k \notin {"query_planned", "query_executed",
                                             "provider_gap"} => Of(t, k) = <<>>
             T == {t \in Seq(A) : Right(t)}
  <1>1. <<>> \in T
    <2>1. QueryBodies(<<>>) = <<>>
      BY DEF QueryBodies
    <2>2. \A k : Of(<<>>, k) = <<>>
      BY <2>1, PayloadsOfNothing
    <2>3. Queries(<<>>) = <<>> /\ <<>> \in Seq(A)
      OBVIOUS
    <2>4. \A P : AtPlaces(<<>>, P) = <<>>
      BY AtNoPlaces
    <2> HIDE DEF Of, Queries
    <2>5. Right(<<>>)
      BY <2>2, <2>3, <2>4
    <2> QED
      BY <2>3, <2>5
  <1>2. ASSUME NEW t \in Seq(A), NEW a \in A, t \in T
        PROVE  Append(t, a) \in T
    <2> DEFINE b == QueryBodies(t)
               p == Planned(a)
               o == OutcomeBody(a)
               u == Append(t, a)
    <2>1. u \in Seq(A) /\ Right(t)
      BY <1>2
    <2>2. /\ b \in Seq(Bodied(U)) /\ p \in Bodied(U) /\ o \in Bodied(U)
          /\ QueryBodies(u) = Append(Append(b, p), o)
      <3>1. t \in Seq(A) /\ a \in A
        OBVIOUS
      <3> HIDE DEF T
      <3>2. b \in Seq(Bodied(U))
        BY <3>1, QueryBodiesType
      <3>3. p \in Bodied(U) /\ o \in Bodied(U)
        BY <3>1, AssessmentBodies
      <3>4. QueryBodies(Append(t, a)) =
              Append(Append(QueryBodies(t), Planned(a)), OutcomeBody(a))
        BY <3>1, QueryBodiesAppend
      <3> QED
        BY <3>2, <3>3, <3>4
    <2>3. Append(b, p) \in Seq(Bodied(U))
      BY <2>2
    <2>4. ASSUME NEW k
          PROVE  Of(u, k) =
                   LET q == IF k = "query_planned"
                            THEN Append(Of(t, k), a.query) ELSE Of(t, k)
                   IN IF k = o[1] THEN Append(q, a) ELSE q
      <3>1. p[1] = "query_planned" /\ p[2] = a.query /\ o[2] = a
        BY DEF Planned, OutcomeBody
      <3> HIDE DEF b, p, o, u
      <3>2. PayloadsOf(Append(b, p), k) =
              IF k = "query_planned" THEN Append(PayloadsOf(b, k), a.query)
                                     ELSE PayloadsOf(b, k)
        BY <2>2, <3>1, PayloadsAppend
      <3>3. PayloadsOf(Append(Append(b, p), o), k) =
              IF k = o[1] THEN Append(PayloadsOf(Append(b, p), k), a)
                          ELSE PayloadsOf(Append(b, p), k)
        <4> DEFINE c == Append(b, p)
        <4> HIDE DEF c
        <4>1. c \in Seq(Bodied(U)) /\ o \in Bodied(U)
          BY <2>2, <2>3 DEF c
        <4>2. PayloadsOf(Append(c, o), k) =
                IF k = o[1] THEN Append(PayloadsOf(c, k), a) ELSE PayloadsOf(c, k)
          BY <3>1, <4>1, PayloadsAppend
        <4> QED
          BY <4>2 DEF c
      <3> QED
        BY <2>2, <3>2, <3>3 DEF b
    <2>5. o[1] = IF IsGap(a) THEN "provider_gap" ELSE "query_executed"
      BY DEF OutcomeBody
    <2>6. Queries(u) = Append(Queries(t), a.query)
      <3> DEFINE n == Len(t)
                 Q == {x.query : x \in A}
                 f == Queries(t)
                 g == Queries(u)
      <3>1. /\ n \in Nat /\ DOMAIN t = 1 .. n /\ DOMAIN u = 1 .. n + 1
            /\ u[n + 1] = a /\ \A i \in 1 .. n : u[i] = t[i] /\ t[i] \in A
        OBVIOUS
      <3> HIDE DEF u
      <3>2. f \in [1 .. n -> Q] /\ a.query \in Q
        BY <3>1
      <3>3. /\ DOMAIN g = 1 .. n + 1 /\ g = [i \in 1 .. n + 1 |-> g[i]]
            /\ g[n + 1] = a.query /\ \A i \in 1 .. n : g[i] = f[i]
        BY <3>1
      <3> HIDE DEF f, g, Q, n
      <3>4. f \in Seq(Q) /\ Len(f) = n
        BY <3>1, <3>2
      <3>5. /\ Append(f, a.query) \in Seq(Q)
            /\ Len(Append(f, a.query)) = n + 1
            /\ Append(f, a.query)[n + 1] = a.query
            /\ \A i \in 1 .. n : Append(f, a.query)[i] = f[i]
        BY <3>1, <3>2, <3>4
      <3>6. \A i \in 1 .. n + 1 : i \in 1 .. n \/ i = n + 1
        BY <3>1
      <3>7. \A i \in 1 .. n + 1 : g[i] = Append(f, a.query)[i]
        BY <3>3, <3>5, <3>6
      <3>8. g = Append(f, a.query)
        BY <3>1, <3>3, <3>5, <3>7
      <3> QED
        BY <3>8 DEF f, g
    <2>7. /\ AtPlaces(u, Gaps(u)) = IF IsGap(a) THEN Append(AtPlaces(t, Gaps(t)), a)
                                               ELSE AtPlaces(t, Gaps(t))
          /\ AtPlaces(u, DOMAIN u \ Gaps(u)) =
               IF IsGap(a) THEN AtPlaces(t, DOMAIN t \ Gaps(t))
                           ELSE Append(AtPlaces(t, DOMAIN t \ Gaps(t)), a)
      BY SortedAppend
    <2> DEFINE k1 == o[1]
    <2>8. k1 = IF IsGap(a) THEN "provider_gap" ELSE "query_executed"
      BY <2>5
    <2> HIDE DEF b, p, o, u, Of, Queries, k1
    <2>9. Right(u)
      BY <2>1, <2>4, <2>6, <2>7, <2>8 DEF k1
    <2> QED
      BY <2>1, <2>9 DEF u
  <1>3. Seq(A) \subseteq T
    <2> HIDE DEF T
    <2> QED
      BY <1>1, <1>2, EverySequence
  <1> QED
    BY <1>3

-----------------------------------------------------------------------------
(* The whole stream.                                                       *)
Counted(n) == [i \in 1 .. n |-> i]

Streamed(r, day, k) ==
  CASE k = "run_started"            -> <<day>>
    [] k = "retry_scheduled"        -> Counted(r.retries)
    [] k = "model_response_invalid" -> r.quarantines
    [] k = "query_planned"          -> [i \in DOMAIN r.assessments |->
                                          r.assessments[i].query]
    [] k = "query_executed"         ->
         AtPlaces(r.assessments, DOMAIN r.assessments \ Gaps(r.assessments))
    [] k = "provider_gap"           ->
         AtPlaces(r.assessments, Gaps(r.assessments))
    [] k = "lead_found"             -> r.leads
    [] k = "run_completed"          -> <<r.complete>>

LEMMA CountedType ==
  ASSUME NEW n \in Nat PROVE Counted(n) \in Seq(Nat) /\ Len(Counted(n)) = n
  <1> DEFINE c == Counted(n)
  <1>1. c \in [1 .. n -> Nat]
    BY DEF Counted
  <1> HIDE DEF c
  <1>2. c \in Seq(Nat) /\ Len(c) = n
    BY <1>1
  <1> QED
    BY <1>2 DEF c

LEMMA ResultType ==
  ASSUME NEW r \in Results, NEW day
  PROVE  \E U : /\ day \in U /\ Nat \subseteq U /\ r.complete \in U
               /\ r.retries \in Nat /\ r.quarantines \in Seq(U)
               /\ r.leads \in Seq(U)
               /\ \E A : /\ A \subseteq U /\ \A a \in A : a.query \in U
                        /\ r.assessments \in Seq(A)
  <1> DEFINE Q == ToSet(r.quarantines)
             A == ToSet(r.assessments)
             L == ToSet(r.leads)
             U == {day, r.complete} \cup Nat \cup Q \cup L
                    \cup A \cup {a.query : a \in A}
  <1>1. /\ r.retries \in Nat /\ r.quarantines \in Seq(Q)
        /\ r.leads \in Seq(L) /\ r.assessments \in Seq(A)
    BY StreamAssumption
  <1> HIDE DEF Q, A, L
  <1>2. /\ day \in U /\ Nat \subseteq U /\ r.complete \in U
        /\ Q \subseteq U /\ L \subseteq U /\ A \subseteq U
        /\ \A a \in A : a.query \in U
    OBVIOUS
  <1> HIDE DEF U
  <1>3. r.quarantines \in Seq(U) /\ r.leads \in Seq(U)
    BY <1>1, <1>2
  <1> QED
    BY <1>1, <1>2, <1>3

(* The stream is six segments.                                             *)
LEMMA StreamSegments ==
  ASSUME NEW r \in Results, NEW day
  PROVE  StreamBodies(r, day) =
           Segment("run_started", <<day>>)
             \o Segment("retry_scheduled", Counted(r.retries))
             \o Segment("model_response_invalid", r.quarantines)
             \o QueryBodies(r.assessments)
             \o Segment("lead_found", r.leads)
             \o Segment("run_completed", <<r.complete>>)
  <1>1. /\ Segment("run_started", <<day>>) = <<<<"run_started", day>>>>
        /\ Segment("run_completed", <<r.complete>>) =
             <<<<"run_completed", r.complete>>>>
    BY DEF Segment
  <1>2. Segment("retry_scheduled", Counted(r.retries)) =
          [i \in 1 .. r.retries |-> <<"retry_scheduled", i>>]
    <2>1. r.retries \in Nat
      BY StreamAssumption
    <2>2. Len(Counted(r.retries)) = r.retries
      BY <2>1, CountedType
    <2> QED
      BY <2>2 DEF Segment, Counted
  <1> QED
    BY <1>1, <1>2 DEF StreamBodies, Segment

LEMMA StreamPayloads ==
  ASSUME NEW r \in Results, NEW day
  PROVE  /\ \E U : StreamBodies(r, day) \in Seq(Bodied(U))
         /\ \A k \in BodyKinds :
              PayloadsOf(StreamBodies(r, day), k) = Streamed(r, day, k)
  <1>1. PICK U : /\ day \in U /\ Nat \subseteq U /\ r.complete \in U
                 /\ r.retries \in Nat /\ r.quarantines \in Seq(U)
                 /\ r.leads \in Seq(U)
                 /\ \E A : /\ A \subseteq U /\ \A a \in A : a.query \in U
                          /\ r.assessments \in Seq(A)
    BY ResultType
  <1>2. PICK A : /\ A \subseteq U /\ \A a \in A : a.query \in U
                 /\ r.assessments \in Seq(A)
    BY <1>1
  <1> DEFINE B == Bodied(U)
             a == Segment("run_started", <<day>>)
             b == Segment("retry_scheduled", Counted(r.retries))
             c == Segment("model_response_invalid", r.quarantines)
             d == QueryBodies(r.assessments)
             e == Segment("lead_found", r.leads)
             f == Segment("run_completed", <<r.complete>>)
  <1>3. /\ <<day>> \in Seq(U) /\ <<r.complete>> \in Seq(U)
        /\ Counted(r.retries) \in Seq(U)
    <2>1. <<day>> \in Seq(U) /\ <<r.complete>> \in Seq(U)
      BY <1>1
    <2>2. Counted(r.retries) \in Seq(Nat)
      BY <1>1, CountedType
    <2> QED
      BY <1>1, <2>1, <2>2
  <1>4. {"run_started", "retry_scheduled", "model_response_invalid",
         "lead_found", "run_completed"} \subseteq BodyKinds
    BY DEF BodyKinds
  <1>5. /\ a \in Seq(B) /\ b \in Seq(B) /\ c \in Seq(B) /\ d \in Seq(B)
        /\ e \in Seq(B) /\ f \in Seq(B)
    BY <1>1, <1>2, <1>3, <1>4, SegmentType, QueryBodiesType
  <1>6. StreamBodies(r, day) = a \o b \o c \o d \o e \o f
    BY StreamSegments
  <1>7. ASSUME NEW k
        PROVE  /\ PayloadsOf(a, k) = IF k = "run_started" THEN <<day>> ELSE <<>>
               /\ PayloadsOf(b, k) = IF k = "retry_scheduled"
                                     THEN Counted(r.retries) ELSE <<>>
               /\ PayloadsOf(c, k) = IF k = "model_response_invalid"
                                     THEN r.quarantines ELSE <<>>
               /\ PayloadsOf(e, k) = IF k = "lead_found" THEN r.leads ELSE <<>>
               /\ PayloadsOf(f, k) = IF k = "run_completed"
                                     THEN <<r.complete>> ELSE <<>>
    <2>1. ASSUME NEW p \in Seq(U), NEW kind \in BodyKinds
          PROVE  PayloadsOf(Segment(kind, p), k) = IF k = kind THEN p ELSE <<>>
      BY SegmentPayloads
    <2>2. PayloadsOf(a, k) = IF k = "run_started" THEN <<day>> ELSE <<>>
      BY <1>3, <1>4, <2>1
    <2>3. PayloadsOf(b, k) = IF k = "retry_scheduled"
                             THEN Counted(r.retries) ELSE <<>>
      BY <1>3, <1>4, <2>1
    <2>4. PayloadsOf(c, k) = IF k = "model_response_invalid"
                             THEN r.quarantines ELSE <<>>
      BY <1>1, <1>4, <2>1
    <2>5. PayloadsOf(e, k) = IF k = "lead_found" THEN r.leads ELSE <<>>
      BY <1>1, <1>4, <2>1
    <2>6. PayloadsOf(f, k) = IF k = "run_completed"
                             THEN <<r.complete>> ELSE <<>>
      BY <1>3, <1>4, <2>1
    <2> QED
      BY <2>2, <2>3, <2>4, <2>5, <2>6
  <1>8. /\ PayloadsOf(d, "query_planned") = Streamed(r, day, "query_planned")
        /\ PayloadsOf(d, "query_executed") = Streamed(r, day, "query_executed")
        /\ PayloadsOf(d, "provider_gap") = Streamed(r, day, "provider_gap")
        /\ \A k : k \notin {"query_planned", "query_executed", "provider_gap"}
                => PayloadsOf(d, k) = <<>>
    BY <1>2, QueryPayloads DEF Streamed
  <1> HIDE DEF B, a, b, c, d, e, f
  <1>9. /\ a \o b \in Seq(B) /\ a \o b \o c \in Seq(B)
        /\ a \o b \o c \o d \in Seq(B) /\ a \o b \o c \o d \o e \in Seq(B)
        /\ a \o b \o c \o d \o e \o f \in Seq(B)
    BY <1>5
  <1>10. ASSUME NEW k \in BodyKinds
         PROVE  PayloadsOf(StreamBodies(r, day), k) = Streamed(r, day, k)
    <2> DEFINE pa == PayloadsOf(a, k)
               pb == PayloadsOf(b, k)
               pc == PayloadsOf(c, k)
               pd == PayloadsOf(d, k)
               pe == PayloadsOf(e, k)
               pf == PayloadsOf(f, k)
               ab == a \o b
               abc == ab \o c
               abcd == abc \o d
               abcde == abcd \o e
    <2>1. /\ pa \in Seq(U) /\ pb \in Seq(U) /\ pc \in Seq(U)
          /\ pd \in Seq(U) /\ pe \in Seq(U) /\ pf \in Seq(U)
      BY <1>5, PayloadsType DEF B
    <2>2. /\ ab \in Seq(B) /\ abc \in Seq(B) /\ abcd \in Seq(B)
          /\ abcde \in Seq(B)
      BY <1>9
    <2>3. /\ StreamBodies(r, day) = abcde \o f
      BY <1>6
    <2>0. ASSUME NEW s \in Seq(B), NEW t \in Seq(B)
          PROVE  PayloadsOf(s \o t, k) = PayloadsOf(s, k) \o PayloadsOf(t, k)
      BY PayloadsOfBoth DEF B
    <2>4. PayloadsOf(ab, k) = pa \o pb
      BY <1>5, <2>0
    <2> HIDE DEF ab
    <2>5. PayloadsOf(abc, k) = PayloadsOf(ab, k) \o pc
      BY <1>5, <2>0, <2>2
    <2> HIDE DEF abc
    <2>6. PayloadsOf(abcd, k) = PayloadsOf(abc, k) \o pd
      BY <1>5, <2>0, <2>2
    <2> HIDE DEF abcd
    <2>7. PayloadsOf(abcde, k) = PayloadsOf(abcd, k) \o pe
      BY <1>5, <2>0, <2>2
    <2> HIDE DEF abcde
    <2>8. PayloadsOf(abcde \o f, k) = PayloadsOf(abcde, k) \o pf
      BY <1>5, <2>0, <2>2
    <2>9. PayloadsOf(StreamBodies(r, day), k) = pa \o pb \o pc \o pd \o pe \o pf
      BY <2>3, <2>4, <2>5, <2>6, <2>7, <2>8
    <2>10. \A p \in Seq(U) : <<>> \o p = p /\ p \o <<>> = p
      OBVIOUS
    <2>17. /\ pa = IF k = "run_started" THEN <<day>> ELSE <<>>
           /\ pb = IF k = "retry_scheduled" THEN Counted(r.retries) ELSE <<>>
           /\ pc = IF k = "model_response_invalid" THEN r.quarantines ELSE <<>>
           /\ pe = IF k = "lead_found" THEN r.leads ELSE <<>>
           /\ pf = IF k = "run_completed" THEN <<r.complete>> ELSE <<>>
      BY <1>7
    <2>18. pd = IF k \in {"query_planned", "query_executed", "provider_gap"}
                THEN Streamed(r, day, k) ELSE <<>>
      BY <1>8
    <2> HIDE DEF pa, pb, pc, pd, pe, pf
    <2>11. CASE k = "run_started"
      <3>1. /\ pa = <<day>> /\ pb = <<>> /\ pc = <<>> /\ pd = <<>>
            /\ pe = <<>> /\ pf = <<>>
        BY <2>11, <2>17, <2>18
      <3> QED
        BY <2>1, <2>9, <2>10, <2>11, <3>1 DEF Streamed
    <2>12. CASE k = "retry_scheduled"
      <3>1. /\ pa = <<>> /\ pb = Counted(r.retries) /\ pc = <<>> /\ pd = <<>>
            /\ pe = <<>> /\ pf = <<>>
        BY <2>12, <2>17, <2>18
      <3> QED
        BY <2>1, <2>9, <2>10, <2>12, <3>1 DEF Streamed
    <2>13. CASE k = "model_response_invalid"
      <3>1. /\ pa = <<>> /\ pb = <<>> /\ pc = r.quarantines /\ pd = <<>>
            /\ pe = <<>> /\ pf = <<>>
        BY <2>13, <2>17, <2>18
      <3> QED
        BY <2>1, <2>9, <2>10, <2>13, <3>1 DEF Streamed
    <2>14. CASE k \in {"query_planned", "query_executed", "provider_gap"}
      <3>1. /\ pa = <<>> /\ pb = <<>> /\ pc = <<>> /\ pe = <<>> /\ pf = <<>>
            /\ pd = Streamed(r, day, k)
        BY <2>14, <2>17, <2>18
      <3> QED
        BY <2>1, <2>9, <2>10, <3>1
    <2>15. CASE k = "lead_found"
      <3>1. /\ pa = <<>> /\ pb = <<>> /\ pc = <<>> /\ pd = <<>>
            /\ pe = r.leads /\ pf = <<>>
        BY <2>15, <2>17, <2>18
      <3> QED
        BY <2>1, <2>9, <2>10, <2>15, <3>1 DEF Streamed
    <2>16. CASE k = "run_completed"
      <3>1. /\ pa = <<>> /\ pb = <<>> /\ pc = <<>> /\ pd = <<>>
            /\ pe = <<>> /\ pf = <<r.complete>>
        BY <2>16, <2>17, <2>18
      <3> QED
        BY <2>1, <2>9, <2>10, <2>16, <3>1 DEF Streamed
    <2> QED
      BY <2>11, <2>12, <2>13, <2>14, <2>15, <2>16 DEF BodyKinds
  <1> QED
    BY <1>6, <1>9, <1>10 DEF B

-----------------------------------------------------------------------------
(* The whole stream, followed by a checkpoint.                             *)
LEMMA CheckpointCarriesNothing ==
  ASSUME NEW r \in Results, NEW day, NEW last, last.kind = "checkpoint",
         NEW k \in BodyKinds
  PROVE  Payloads(Append(DiscoveryRunEvents(r, day), last), k)
           = Streamed(r, day, k)
  <1> DEFINE bodies == StreamBodies(r, day)
             events == DiscoveryRunEvents(r, day)
             all == Append(events, last)
             n == Len(bodies)
             parts == [i \in DOMAIN all |->
                         IF all[i].kind # "checkpoint" /\ all[i].body[1] = k
                         THEN <<all[i].body[2]>> ELSE <<>>]
  <1>1. PICK U : bodies \in Seq(Bodied(U))
    BY StreamPayloads
  <1>2. n \in Nat /\ DOMAIN bodies = 1 .. n
    BY <1>1
  <1>3. /\ IsSequence(events) /\ Len(events) = n
        /\ \A i \in 1 .. n : /\ events[i].kind # "checkpoint"
                             /\ events[i].body = bodies[i]
    <2>1. /\ IsSequence(events)
          /\ \A i \in 1 .. Len(events) :
               events[i].kind = IF i = 1 THEN "run_started" ELSE "recorded"
      BY Numbered
    <2>2. /\ DOMAIN events = 1 .. n
          /\ \A i \in 1 .. n : events[i].body = bodies[i]
      <3> HIDE DEF bodies, n
      <3> QED
        BY <1>2 DEF DiscoveryRunEvents, NewEvent, bodies
    <2>3. Len(events) = n
      <3> HIDE DEF events, n
      <3> QED
        BY <1>2, <2>1, <2>2, LengthIsNat
    <2> QED
      BY <2>1, <2>2, <2>3
  <1> HIDE DEF bodies, events, n
  <1>4. PICK S : /\ all \in Seq(S) /\ Len(all) = n + 1 /\ all[n + 1] = last
                 /\ \A i \in 1 .. n : all[i] = events[i]
    BY <1>3, SequenceGrows
  <1>5. DOMAIN all = 1 .. n + 1
    BY <1>2, <1>4
  <1> HIDE DEF all
  <1>6. /\ DOMAIN parts = 1 .. n + 1 /\ parts = [i \in 1 .. n + 1 |-> parts[i]]
        /\ \A i \in 1 .. n : parts[i] = Parts(bodies, k)[i]
        /\ parts[n + 1] = <<>>
    BY <1>2, <1>3, <1>4, <1>5 DEF Parts
  <1>7. Payloads(all, k) = FlattenSeq(parts)
    BY DEF Payloads
  <1> DEFINE p == Parts(bodies, k)
  <1>8. p \in Seq(Seq(U)) /\ Len(p) = n
    BY <1>1, PartsType DEF n
  <1> HIDE DEF parts, p
  <1>9. parts = Append(p, <<>>)
    <2> DEFINE q == Append(p, <<>>)
    <2>1. /\ q \in Seq(Seq(U)) /\ Len(q) = n + 1
          /\ \A i \in 1 .. n : q[i] = p[i]
          /\ q[n + 1] = <<>>
      BY <1>2, <1>8
    <2>2. \A i \in 1 .. n + 1 : i \in 1 .. n \/ i = n + 1
      BY <1>2
    <2> HIDE DEF q
    <2>3. \A i \in 1 .. n + 1 : parts[i] = q[i]
      BY <1>6, <2>1, <2>2 DEF p
    <2>4. parts = q
      BY <1>2, <1>6, <2>1, <2>3
    <2> QED
      BY <2>4 DEF q
  <1>10. FlattenSeq(parts) = FlattenSeq(p) \o <<>>
    <2>1. <<>> \in Seq(U)
      OBVIOUS
    <2> QED
      BY <1>8, <1>9, <2>1, FlattenAppend
  <1>11. FlattenSeq(p) \o <<>> = FlattenSeq(p)
    <2>1. FlattenSeq(p) \in Seq(U)
      BY <1>8, FlattenType
    <2> QED
      BY <2>1
  <1>12. FlattenSeq(p) = Streamed(r, day, k)
    BY StreamPayloads DEF p, PayloadsOf, bodies
  <1> QED
    BY <1>7, <1>10, <1>11, <1>12 DEF all, events

(* Both reductions of a complete recording are the result's own.           *)
LEMMA Reductions ==
  ASSUME NEW r \in Results, NEW day, NEW last, last.kind = "checkpoint"
  PROVE  LET all == Append(DiscoveryRunEvents(r, day), last)
             expects == SyntheticFromResult(r, day)
             status == ReplayJournal(all) IN
         /\ SyntheticFromEvents(all) = expects
         /\ status.leads = Len(r.leads)
         /\ status.gaps = Len(expects.gaps)
         /\ status.invalid = Len(r.quarantines)
         /\ status.retries = r.retries
         /\ status.parameters = <<day>>
         /\ status.completed = <<r.complete>>
         /\ status.checkpoint = <<last.last>>
  <1> DEFINE all == Append(DiscoveryRunEvents(r, day), last)
             P(k) == Payloads(all, k)
  <1>1. \A k \in BodyKinds : P(k) = Streamed(r, day, k)
    BY CheckpointCarriesNothing
  <1>2. /\ P("run_started") = <<day>>
        /\ P("retry_scheduled") = Counted(r.retries)
        /\ P("model_response_invalid") = r.quarantines
        /\ P("query_planned") = [i \in DOMAIN r.assessments |->
                                   r.assessments[i].query]
        /\ P("query_executed") =
             AtPlaces(r.assessments, DOMAIN r.assessments \ Gaps(r.assessments))
        /\ P("provider_gap") = AtPlaces(r.assessments, Gaps(r.assessments))
        /\ P("lead_found") = r.leads
        /\ P("run_completed") = <<r.complete>>
    <2> HIDE DEF P
    <2> QED
      BY <1>1 DEF BodyKinds, Streamed
  <1>3. Len(Counted(r.retries)) = r.retries
    BY StreamAssumption, CountedType
  <1>4. \A x : <<x>>[1] = x /\ Last(<<x>>) = x /\ LastOf(<<x>>) = <<x>>
    BY DEF Last, LastOf
  <1>5. SyntheticFromEvents(all) = SyntheticFromResult(r, day)
    <2> HIDE DEF all
    <2> QED
      BY <1>2, <1>3, <1>4 DEF SyntheticFromEvents, SyntheticFromResult
  <1> DEFINE events == DiscoveryRunEvents(r, day)
             C == {i \in DOMAIN all : all[i].kind = "checkpoint"}
             n == Len(events)
  <1>6. AtPlaces(all, C) = <<last>>
    <2>1. PICK S : /\ events \in Seq(S) /\ last \in S /\ all \in Seq(S)
                   /\ Len(all) = n + 1 /\ all[n + 1] = last
                   /\ \A i \in 1 .. n : all[i] = events[i]
      BY Numbered, SequenceGrows
    <2>2. n \in Nat /\ DOMAIN all = 1 .. n + 1 /\ DOMAIN events = 1 .. n
      BY <2>1
    <2>3. \A i \in 1 .. n : events[i].kind # "checkpoint"
      <3>1. \A i \in 1 .. n :
              events[i].kind = IF i = 1 THEN "run_started" ELSE "recorded"
        BY Numbered
      <3> QED
        BY <3>1
    <2>4. AtPlaces(all, C) = IF n + 1 \in C
                             THEN Append(AtPlaces(events, C), last)
                             ELSE AtPlaces(events, C)
      <3> HIDE DEF events, n, C
      <3> QED
        BY <2>1, AtPlacesAppend DEF n
    <2> HIDE DEF all, events, n
    <2>5. n + 1 \in C
      BY <2>1, <2>2
    <2>6. AtPlaces(events, C) \in Seq({})
      <3>1. \A i \in DOMAIN events : i \in C => events[i] \in {}
        BY <2>1, <2>2, <2>3
      <3> QED
        BY <2>1, <3>1, AtPlacesIn
    <2>7. AtPlaces(events, C) = <<>>
      BY <2>6
    <2>8. Append(<<>>, last) = <<last>>
      OBVIOUS
    <2> QED
      BY <2>4, <2>5, <2>7, <2>8
  <1>7. ReplayJournal(all).checkpoint = <<last.last>>
    <2> DEFINE c == AtPlaces(all, C)
    <2> HIDE DEF all, C
    <2>1. [i \in DOMAIN c |-> c[i].last] = <<last.last>>
      BY <1>6
    <2> QED
      BY <1>4, <2>1 DEF ReplayJournal, C
  <1>8. /\ ReplayJournal(all).leads = Len(r.leads)
        /\ ReplayJournal(all).gaps = Len(SyntheticFromResult(r, day).gaps)
        /\ ReplayJournal(all).invalid = Len(r.quarantines)
        /\ ReplayJournal(all).retries = r.retries
        /\ ReplayJournal(all).parameters = <<day>>
        /\ ReplayJournal(all).completed = <<r.complete>>
    <2> HIDE DEF all
    <2> QED
      BY <1>2, <1>3, <1>4 DEF ReplayJournal, SyntheticFromResult
  <1> QED
    BY <1>5, <1>7, <1>8 DEF all

-----------------------------------------------------------------------------
(* What is recorded, disturbed or not: the lines are one projection of the *)
(* run as far as they go, with a checkpoint at most at their end; and what *)
(* a writer has been confirmed is what it has projected.                   *)
Days == IF result.dated THEN {0} ELSE 0 .. today

On(day) == DiscoveryRunEvents(result, day)

Tailed == lines # <<>> /\ TailIsCheckpoint

ProjectedOn(day) ==
  \A i \in 1 .. Len(lines) :
     IF lines[i].kind = "checkpoint"
     THEN i = Len(lines) /\ lines[i].last = i - 2
     ELSE i <= Len(On(day)) /\ lines[i] = On(day)[i]

(* Where a writer stands that has projected the run on that day.           *)
Wrote(w, day) ==
  /\ stream[w] = On(day)
  /\ pos[w] \in Nat /\ pos[w] <= Len(stream[w]) /\ pos[w] <= Len(lines)
  /\ \A i \in 1 .. pos[w] : lines[i] = stream[w][i]
  /\ op[w] \in {"none", "append", "compact"}
  /\ op[w] = "append" =>
       /\ pos[w] < Len(stream[w]) /\ event[w] = stream[w][pos[w] + 1]
       /\ Confirmed(w) => pos[w] < Len(lines) /\ lines[pos[w] + 1] = event[w]
  /\ op[w] = "compact" =>
       pos[w] = Len(stream[w]) /\ (Confirmed(w) => Tailed)
  /\ phase[w] = "done" => pos[w] = Len(stream[w]) /\ Tailed

Recorder(w) == \E day \in Days : Wrote(w, day)

Recording ==
  /\ \E day \in Days : ProjectedOn(day)
  /\ \A w \in Clients : phase[w] \in {"appending", "done"} => Recorder(w)

RecordedIInv == Types /\ Quiet /\ Recording

LEMMA Projection ==
  ASSUME Types, NEW day
  PROVE  /\ IsSequence(On(day)) /\ Len(On(day)) \in Nat /\ Len(On(day)) >= 2
         /\ \A other : Len(On(other)) = Len(On(day))
         /\ \A i \in 1 .. Len(On(day)) :
              On(day)[i].seq = i - 1 /\ On(day)[i].kind # "checkpoint"
  <1>1. result \in Results
    BY DEF Types
  <1>2. /\ IsSequence(On(day)) /\ Len(On(day)) \in Nat /\ Len(On(day)) >= 2
        /\ \A i \in 1 .. Len(On(day)) :
             /\ On(day)[i].seq = i - 1
             /\ On(day)[i].kind = IF i = 1 THEN "run_started" ELSE "recorded"
    BY <1>1, Numbered DEF On
  <1>3. \A other : Len(On(other)) = Len(On(day))
    BY <1>1, NumberedAlike DEF On
  <1> QED
    BY <1>2, <1>3

(* A line more, after lines that end in no checkpoint.                     *)
Extends == \/ lines' = lines
           \/ ~Tailed /\ \E e : lines' = Append(lines, e)

LEMMA DaysGrow ==
  ASSUME Types, [StreamNext]_allVars
  PROVE  Days \subseteq Days' /\ \A day : On(day)' = On(day)
  <1>1. /\ result' = result /\ today \in Nat
        /\ today' = today \/ today' = today + 1
    BY StepGrows DEF Types
  <1> QED
    BY <1>1 DEF Days, On

LEMMA ExtendsKeeps ==
  ASSUME Types, Extends
  PROVE  /\ Len(lines) \in Nat /\ Len(lines') \in Nat
         /\ Len(lines) <= Len(lines')
         /\ \A i \in 1 .. Len(lines) : lines'[i] = lines[i]
         /\ Tailed => lines' = lines
  <1>1. Len(lines) \in Nat
    BY LengthIsNat DEF Types
  <1>2. CASE lines' = lines
    BY <1>1, <1>2
  <1>3. CASE ~Tailed /\ \E e : lines' = Append(lines, e)
    <2>1. PICK e : lines' = Append(lines, e)
      BY <1>3
    <2>2. /\ Len(lines') = Len(lines) + 1
          /\ \A i \in 1 .. Len(lines) : lines'[i] = lines[i]
      BY <2>1, SequenceGrows DEF Types
    <2> QED
      BY <1>1, <1>3, <2>2
  <1> QED
    BY <1>2, <1>3 DEF Extends

(* A writer that does not move keeps what it has been confirmed.           *)
LEMMA OthersKept ==
  ASSUME Types, [StreamNext]_allVars, Extends, NEW w \in Clients, Recorder(w),
         /\ stream'[w] = stream[w] /\ pos'[w] = pos[w] /\ phase'[w] = phase[w]
         /\ op'[w] = op[w] /\ event'[w] = event[w] /\ reply'[w] = reply[w]
  PROVE  Recorder(w)'
  <1>1. PICK day \in Days : Wrote(w, day)
    BY DEF Recorder
  <1>2. day \in Days' /\ stream'[w] = On(day)'
    BY <1>1, DaysGrow DEF Wrote
  <1>3. /\ pos[w] <= Len(lines') /\ pos[w] \in Nat
        /\ \A i \in 1 .. pos[w] : lines'[i] = lines[i]
    BY <1>1, ExtendsKeeps DEF Wrote
  <1>4. Confirmed(w)' <=> Confirmed(w)
    BY DEF Confirmed
  <1>5. Tailed => Tailed'
    <2> SUFFICES ASSUME Tailed PROVE Tailed'
      OBVIOUS
    <2>1. lines' = lines
      BY ExtendsKeeps
    <2> QED
      BY <2>1 DEF Tailed, TailIsCheckpoint
  <1>6. pos[w] < Len(lines) => /\ pos[w] < Len(lines')
                              /\ lines'[pos[w] + 1] = lines[pos[w] + 1]
    BY <1>3, ExtendsKeeps
  <1> QED
    BY <1>1, <1>2, <1>3, <1>4, <1>5, <1>6 DEF Recorder, Wrote

(* One line more of the same projection, or its checkpoint.                *)
LEMMA LineAdded ==
  ASSUME Types, [StreamNext]_allVars, NEW day \in Days, ProjectedOn(day),
         ~Tailed, NEW e, lines' = Append(lines, e),
         IF e.kind = "checkpoint" THEN e.last = Len(lines) - 1
         ELSE Len(lines) < Len(On(day)) /\ e = On(day)[Len(lines) + 1]
  PROVE  \E d \in Days' : ProjectedOn(d)'
  <1> DEFINE n == Len(lines)
  <1>1. /\ n \in Nat /\ Len(lines') = n + 1 /\ lines'[n + 1] = e
        /\ \A i \in 1 .. n : lines'[i] = lines[i]
    BY LengthIsNat, SequenceGrows DEF Types
  <1>2. day \in Days' /\ On(day)' = On(day) /\ Len(On(day)) \in Nat
    BY DaysGrow, Projection
  <1>3. ASSUME NEW i \in 1 .. n
        PROVE  /\ lines[i].kind # "checkpoint"
               /\ i <= Len(On(day)) /\ lines[i] = On(day)[i]
    <2>1. lines # <<>>
      BY <1>1, LengthIsNat DEF Types
    <2>2. lines[i].kind # "checkpoint"
      BY <1>1, <2>1 DEF ProjectedOn, Tailed, TailIsCheckpoint
    <2> QED
      BY <2>2 DEF ProjectedOn
  <1>4. ASSUME NEW i \in 1 .. n + 1
        PROVE  IF lines'[i].kind = "checkpoint"
               THEN i = n + 1 /\ lines'[i].last = i - 2
               ELSE i <= Len(On(day)) /\ lines'[i] = On(day)[i]
    <2>1. CASE i \in 1 .. n
      BY <1>1, <1>3, <2>1
    <2>2. CASE i = n + 1
      BY <1>1, <1>2, <2>2
    <2> QED
      BY <1>1, <2>1, <2>2
  <1>5. ProjectedOn(day)'
    BY <1>1, <1>2, <1>4 DEF ProjectedOn
  <1> QED
    BY <1>2, <1>5

LEMMA ProjectionKept ==
  ASSUME Types, [StreamNext]_allVars, lines' = lines,
         \E day \in Days : ProjectedOn(day)
  PROVE  \E day \in Days' : ProjectedOn(day)'
  <1>1. PICK day \in Days : ProjectedOn(day)
    OBVIOUS
  <1>2. day \in Days' /\ On(day)' = On(day)
    BY DaysGrow
  <1>3. ProjectedOn(day)'
    BY <1>1, <1>2 DEF ProjectedOn
  <1> QED
    BY <1>2, <1>3

(* Who is to append the next line has projected the lines before it.       *)
LEMMA NextLine ==
  ASSUME Types, Recording, NEW w \in Clients, phase[w] = "appending",
         op[w] = "append", Follows(event[w])
  PROVE  /\ ~Tailed /\ event[w].kind # "checkpoint"
         /\ pos[w] = Len(lines)
         /\ \E day \in Days : /\ ProjectedOn(day) /\ Len(lines) < Len(On(day))
                              /\ event[w] = On(day)[Len(lines) + 1]
  <1> DEFINE n == Len(lines)
  <1>1. PICK day \in Days : Wrote(w, day)
    BY DEF Recording, Recorder
  <1>2. n \in Nat /\ (lines = <<>> <=> n = 0)
    BY LengthIsNat DEF Types
  <1>3. /\ Len(On(day)) \in Nat
        /\ \A i \in 1 .. Len(On(day)) :
             On(day)[i].seq = i - 1 /\ On(day)[i].kind # "checkpoint"
    BY Projection
  <1>4. /\ pos[w] \in Nat /\ pos[w] < Len(On(day))
        /\ event[w] = On(day)[pos[w] + 1]
    BY <1>1 DEF Wrote
  <1>5. event[w].seq = pos[w] /\ event[w].kind # "checkpoint"
    BY <1>3, <1>4
  <1>6. pos[w] = n
    BY <1>2, <1>4, <1>5 DEF Follows, LastSequence
  <1>7. \A i \in 1 .. n : lines[i] = On(day)[i] /\ lines[i].kind # "checkpoint"
    BY <1>1, <1>2, <1>3, <1>4, <1>6 DEF Wrote
  <1>8. ~Tailed
    BY <1>2, <1>7 DEF Tailed, TailIsCheckpoint
  <1>9. ProjectedOn(day)
    BY <1>2, <1>4, <1>6, <1>7 DEF ProjectedOn
  <1> QED
    BY <1>4, <1>5, <1>6, <1>8, <1>9

-----------------------------------------------------------------------------
(* Each step keeps what is recorded.                                       *)

(* The answer to w, and whatever the file has gained by it.                *)
LEMMA AnswerRecorded ==
  ASSUME Types, Recording, [StreamNext]_allVars, Extends,
         NEW w \in Clients, phase[w] = "appending", NEW answer,
         reply' = [reply EXCEPT ![w] = answer],
         UNCHANGED <<op, event, stream, pos, phase>>,
         \E day \in Days' : ProjectedOn(day)',
         answer.outcome \in {"appended", "noop"} =>
           /\ op[w] = "append" => /\ pos[w] < Len(lines')
                                  /\ lines'[pos[w] + 1] = event[w]
           /\ op[w] = "compact" => Tailed'
  PROVE  Recording'
  <1>1. \A v \in Clients : reply'[v] = IF v = w THEN answer ELSE reply[v]
    BY DEF Types
  <1>2. Recorder(w)'
    <2>1. PICK day \in Days : Wrote(w, day)
      BY DEF Recording, Recorder
    <2>2. day \in Days' /\ stream'[w] = On(day)'
      BY <2>1, DaysGrow DEF Wrote
    <2>3. /\ pos[w] <= Len(lines') /\ pos[w] \in Nat
          /\ \A i \in 1 .. pos[w] : lines'[i] = lines[i]
      BY <2>1, ExtendsKeeps DEF Wrote
    <2>4. Confirmed(w)' => answer.outcome \in {"appended", "noop"}
      BY <1>1 DEF Confirmed
    <2>5. Wrote(w, day)'
      BY <2>1, <2>2, <2>3, <2>4 DEF Wrote
    <2> QED
      BY <2>2, <2>5 DEF Recorder
  <1>3. ASSUME NEW v \in Clients, v # w, phase'[v] \in {"appending", "done"}
        PROVE  Recorder(v)'
    <2>1. Recorder(v) /\ reply'[v] = reply[v]
      BY <1>1, <1>3 DEF Recording
    <2> QED
      BY <2>1, OthersKept
  <1> QED
    BY <1>2, <1>3 DEF Recording

LEMMA WriteRecorded ==
  ASSUME Types, Recording, [StreamNext]_allVars,
         NEW w \in Clients, phase[w] = "appending", NEW e, Write(w, e),
         UNCHANGED <<op, event, stream, pos, phase>>,
         ~Tailed, NEW day \in Days, ProjectedOn(day),
         IF e.kind = "checkpoint" THEN e.last = Len(lines) - 1
         ELSE Len(lines) < Len(On(day)) /\ e = On(day)[Len(lines) + 1],
         op[w] = "append" => pos[w] = Len(lines) /\ e = event[w],
         op[w] = "compact" => e.kind = "checkpoint"
  PROVE  Recording'
  <1>1. CASE Fits(Append(Recovered, e))
    <2>1. /\ lines' = Append(lines, e)
          /\ reply' = [reply EXCEPT ![w] =
                         [outcome |-> "appended", last |-> e.seq]]
      BY <1>1 DEF Write, Recovered, Answer
    <2>2. Extends
      BY <2>1 DEF Extends
    <2>3. \E d \in Days' : ProjectedOn(d)'
      BY <2>1, LineAdded
    <2>4. /\ Len(lines) \in Nat /\ Len(lines') = Len(lines) + 1
          /\ lines'[Len(lines) + 1] = e
      BY <2>1, LengthIsNat, SequenceGrows DEF Types
    <2>5. IsSequence(lines')
      BY TypesKept DEF Types
    <2>6. e.kind = "checkpoint" => Tailed'
      BY <2>4, <2>5, LengthIsNat DEF Tailed, TailIsCheckpoint
    <2>7. /\ op[w] = "append" => /\ pos[w] < Len(lines')
                                 /\ lines'[pos[w] + 1] = event[w]
          /\ op[w] = "compact" => Tailed'
      BY <2>4, <2>6
    <2> QED
      BY <2>1, <2>2, <2>3, <2>7, AnswerRecorded
  <1>2. CASE ~Fits(Append(Recovered, e))
    <2>1. /\ lines' = lines
          /\ reply' = [reply EXCEPT ![w] = [outcome |-> "failed", last |-> -1]]
      BY <1>2 DEF Write, Answer
    <2>2. Extends
      BY <2>1 DEF Extends
    <2>3. \E d \in Days' : ProjectedOn(d)'
      BY <2>1, ProjectionKept
    <2> QED
      BY <2>1, <2>2, <2>3, AnswerRecorded
  <1> QED
    BY <1>1, <1>2

(* An answer that leaves the file alone.                                   *)
LEMMA ToldRecorded ==
  ASSUME Types, Recording, [StreamNext]_allVars,
         NEW w \in Clients, phase[w] = "appending",
         NEW o, NEW n, Answer(w, o, n), lines' = lines,
         UNCHANGED <<op, event, stream, pos, phase>>,
         o \in {"appended", "noop"} =>
           /\ op[w] = "append" => pos[w] < Len(lines)
                                  /\ lines[pos[w] + 1] = event[w]
           /\ op[w] = "compact" => Tailed
  PROVE  Recording'
  <1>1. reply' = [reply EXCEPT ![w] = [outcome |-> o, last |-> n]]
    BY DEF Answer
  <1>2. Extends
    BY DEF Extends
  <1>3. \E d \in Days' : ProjectedOn(d)'
    BY ProjectionKept DEF Recording
  <1>4. Tailed => Tailed'
    BY DEF Tailed, TailIsCheckpoint
  <1> QED
    BY <1>1, <1>2, <1>3, <1>4, AnswerRecorded

LEMMA AppendRecorded ==
  ASSUME Types, Recording, [StreamNext]_allVars,
         NEW w \in Clients, phase[w] = "appending", AppendEvent(w),
         UNCHANGED <<stream, pos, phase>>
  PROVE  Recording'
  <1> DEFINE e == event[w]
             mine == RunMatches(e) /\ ExpectedMatches(expected[w])
  <1>1. op[w] = "append" /\ UNCHANGED <<op, event>>
    BY DEF AppendEvent, Outstanding, clientVars
  <1>2. PICK day \in Days : Wrote(w, day)
    BY DEF Recording, Recorder
  <1>3. /\ pos[w] \in Nat /\ pos[w] < Len(On(day))
        /\ e = On(day)[pos[w] + 1] /\ Len(On(day)) \in Nat
    BY <1>1, <1>2, Projection DEF Wrote
  <1>4. e.seq = pos[w]
    BY <1>3, Projection
  <1>5. Len(lines) \in Nat
    BY LengthIsNat DEF Types
  <1> HIDE DEF e, mine
  <1>6. \/ \E o \in {"failed", "conflict"} : Refuse(w, o)
        \/ /\ AlreadyRecorded(e) /\ Answer(w, "noop", LastSequence(lines))
           /\ lines' = lines
        \/ Follows(e) /\ Write(w, e)
    BY DEF AppendEvent, e, mine
  <1>7. CASE \E o \in {"failed", "conflict"} : Refuse(w, o)
    <2>1. PICK o \in {"failed", "conflict"} : Answer(w, o, -1) /\ lines' = lines
      BY <1>7 DEF Refuse
    <2> QED
      BY <1>1, <2>1, ToldRecorded
  <1>8. CASE /\ AlreadyRecorded(e) /\ Answer(w, "noop", LastSequence(lines))
             /\ lines' = lines
    <2>1. pos[w] < Len(lines) /\ lines[pos[w] + 1] = event[w]
      BY <1>3, <1>4, <1>5, <1>8 DEF AlreadyRecorded, LastSequence, e
    <2> QED
      BY <1>1, <1>8, <2>1, ToldRecorded
  <1>9. CASE Follows(e) /\ Write(w, e)
    <2>1. /\ ~Tailed /\ e.kind # "checkpoint" /\ pos[w] = Len(lines)
          /\ \E d \in Days : /\ ProjectedOn(d) /\ Len(lines) < Len(On(d))
                             /\ e = On(d)[Len(lines) + 1]
      BY <1>1, <1>9, NextLine DEF e
    <2> QED
      BY <1>1, <1>9, <2>1, WriteRecorded DEF e
  <1> QED
    BY <1>6, <1>7, <1>8, <1>9

LEMMA CompactRecorded ==
  ASSUME Types, Recording, [StreamNext]_allVars,
         NEW w \in Clients, phase[w] = "appending", CompactJournal(w),
         UNCHANGED <<stream, pos, phase>>
  PROVE  Recording'
  <1>1. op[w] = "compact" /\ UNCHANGED <<op, event>>
    BY DEF CompactJournal, Outstanding, clientVars
  <1>2. \/ \E o \in {"failed", "conflict"} : Refuse(w, o)
        \/ /\ lines # <<>> /\ TailIsCheckpoint
           /\ Answer(w, "noop", LastSequence(lines)) /\ lines' = lines
        \/ /\ ~TailIsCheckpoint
           /\ \E b \in Bodies : Write(w, NewCheckpoint(lines, b))
    BY DEF CompactJournal
  <1>3. CASE \E o \in {"failed", "conflict"} : Refuse(w, o)
    <2>1. PICK o \in {"failed", "conflict"} : Answer(w, o, -1) /\ lines' = lines
      BY <1>3 DEF Refuse
    <2> QED
      BY <1>1, <2>1, ToldRecorded
  <1>4. CASE /\ lines # <<>> /\ TailIsCheckpoint
             /\ Answer(w, "noop", LastSequence(lines)) /\ lines' = lines
    BY <1>1, <1>4, ToldRecorded DEF Tailed
  <1>5. CASE /\ ~TailIsCheckpoint
             /\ \E b \in Bodies : Write(w, NewCheckpoint(lines, b))
    <2>1. PICK b \in Bodies : Write(w, NewCheckpoint(lines, b))
      BY <1>5
    <2>2. PICK day \in Days : ProjectedOn(day)
      BY DEF Recording
    <2>3. ~Tailed
      BY <1>5 DEF Tailed
    <2>4. /\ NewCheckpoint(lines, b).kind = "checkpoint"
          /\ NewCheckpoint(lines, b).last = Len(lines) - 1
      BY DEF NewCheckpoint, LastSequence
    <2> QED
      BY <1>1, <2>1, <2>2, <2>3, <2>4, WriteRecorded
  <1> QED
    BY <1>2, <1>3, <1>4, <1>5

(* Steps of the helper that leave the file alone.                          *)
LEMMA HelperRecorded ==
  ASSUME Types, Quiet, Recording, [StreamNext]_allVars, NEW w \in Clients,
         StartWriter(w) \/ Send(w) \/ Receive(w) \/ Interrupt(w)
  PROVE  Recording'
  <1>1. lines' = lines /\ result' = result /\ today' = today
    BY DEF StartWriter, Send, Receive, Interrupt, Hear, vars, streamVars
  <1>2. Extends
    BY <1>1 DEF Extends
  <1>3. \E d \in Days' : ProjectedOn(d)'
    BY <1>1, ProjectionKept DEF Recording
  <1>4. /\ Days' = Days /\ (Tailed' <=> Tailed) /\ Len(lines) \in Nat
        /\ \A day : On(day)' = On(day) /\ Len(On(day)) \in Nat
    BY <1>1, DaysGrow, Projection, LengthIsNat
       DEF Days, Tailed, TailIsCheckpoint, Types
  <1>5. ASSUME NEW d \in Clients, d # w
        PROVE  /\ phase'[d] = phase[d] /\ op'[d] = op[d]
               /\ event'[d] = event[d] /\ reply'[d] = reply[d]
               /\ stream'[d] = stream[d] /\ pos'[d] = pos[d]
    <2>1. CASE StartWriter(w)
      BY <1>5, <2>1 DEF StartWriter, vars, Types
    <2>2. CASE Send(w)
      BY <1>5, <2>2 DEF Send, streamVars, Types
    <2>3. CASE Receive(w)
      BY <1>5, <2>3 DEF Receive, Hear, Forget, Types
    <2>4. CASE Interrupt(w)
      BY <1>5, <2>4 DEF Interrupt, Forget, Types
    <2> QED
      BY <2>1, <2>2, <2>3, <2>4
  <1>6. phase'[w] \in {"appending", "done"} => Recorder(w)'
    <2>1. CASE StartWriter(w)
      <3>1. op[w] = "none" /\ reply[w] = NoReply
        BY <2>1 DEF StartWriter, Quiet
      <3>2. /\ op'[w] = "none" /\ reply'[w] = NoReply
            /\ pos'[w] = 0 /\ phase'[w] = "appending"
            /\ stream'[w] = On(RunOn)
        BY <2>1, <3>1 DEF StartWriter, vars, Types, On
      <3>3. RunOn \in Days
        BY DEF RunOn, Days, Types
      <3>4. PICK day \in Days : day = RunOn
        BY <3>3
      <3>5. Wrote(w, day)'
        BY <1>1, <1>4, <3>2, <3>4 DEF Wrote
      <3> QED
        BY <1>4, <3>5 DEF Recorder
    <2>2. CASE Send(w)
      <3>1. phase[w] = "appending" /\ op[w] = "none" /\ phase' = phase
        BY <2>2 DEF Send, streamVars
      <3>2. PICK day \in Days : Wrote(w, day)
        BY <3>1 DEF Recording, Recorder
      <3>3. /\ reply' = reply /\ reply[w] = NoReply
            /\ stream' = stream /\ pos' = pos
        BY <2>2, <3>1 DEF Send, streamVars, Quiet
      <3>4. \/ /\ pos[w] < Len(stream[w]) /\ op'[w] = "append"
               /\ event'[w] = stream[w][pos[w] + 1]
            \/ ~(pos[w] < Len(stream[w])) /\ op'[w] = "compact"
        BY <2>2, <3>1 DEF Send, Types
      <3>5. ~Confirmed(w)'
        BY <3>3 DEF Confirmed, NoReply
      <3>6. Wrote(w, day)'
        BY <1>1, <1>4, <3>1, <3>2, <3>3, <3>4, <3>5 DEF Wrote
      <3> QED
        BY <1>4, <3>2, <3>6 DEF Recorder
    <2>3. CASE Receive(w)
      <3>1. /\ phase[w] = "appending" /\ stream' = stream
            /\ op'[w] = "none" /\ reply'[w] = NoReply
        BY <2>3 DEF Receive, Hear, Forget, Types
      <3>2. PICK day \in Days : Wrote(w, day)
        BY <3>1 DEF Recording, Recorder
      <3>3. /\ pos'[w] = IF Confirmed(w) /\ op[w] = "append"
                         THEN pos[w] + 1 ELSE pos[w]
            /\ phase'[w] = "done" => Confirmed(w) /\ op[w] = "compact"
        <4>1. pos'[w] = IF Confirmed(w) /\ op[w] = "append"
                        THEN pos[w] + 1 ELSE pos[w]
          BY <2>3 DEF Receive, Types
        <4>2. phase'[w] = IF ~Confirmed(w) THEN "raised"
                          ELSE IF op[w] = "compact" THEN "done" ELSE "appending"
          BY <2>3 DEF Receive, Types
        <4> QED
          BY <4>1, <4>2
      <3>4. /\ pos'[w] \in Nat /\ pos'[w] <= Len(stream[w])
            /\ pos'[w] <= Len(lines)
            /\ \A i \in 1 .. pos'[w] : lines[i] = stream[w][i]
        <4>1. CASE Confirmed(w) /\ op[w] = "append"
          <5>1. /\ pos[w] \in Nat /\ pos[w] < Len(stream[w])
                /\ pos[w] < Len(lines) /\ Len(stream[w]) \in Nat
                /\ lines[pos[w] + 1] = stream[w][pos[w] + 1]
                /\ pos'[w] = pos[w] + 1
                /\ \A i \in 1 .. pos[w] : lines[i] = stream[w][i]
            BY <1>4, <3>2, <3>3, <4>1 DEF Wrote
          <5>2. \A i \in 1 .. pos[w] + 1 : i \in 1 .. pos[w] \/ i = pos[w] + 1
            BY <5>1
          <5> QED
            BY <1>4, <5>1, <5>2
        <4>2. CASE ~(Confirmed(w) /\ op[w] = "append")
          BY <3>2, <3>3, <4>2 DEF Wrote
        <4> QED
          BY <4>1, <4>2
      <3>5. phase'[w] = "done" => pos'[w] = Len(stream[w]) /\ Tailed
        BY <3>2, <3>3 DEF Wrote
      <3>6. Wrote(w, day)'
        BY <1>1, <1>4, <3>1, <3>2, <3>4, <3>5 DEF Wrote
      <3> QED
        BY <1>4, <3>2, <3>6 DEF Recorder
    <2>4. CASE Interrupt(w)
      BY <2>4 DEF Interrupt, Types
    <2> QED
      BY <2>1, <2>2, <2>3, <2>4
  <1>7. ASSUME NEW d \in Clients, d # w, phase'[d] \in {"appending", "done"}
        PROVE  Recorder(d)'
    <2>1. Recorder(d)
      BY <1>5, <1>7 DEF Recording
    <2> QED
      BY <1>2, <1>5, <1>7, <2>1, OthersKept
  <1> QED
    BY <1>3, <1>6, <1>7 DEF Recording

(* Steps in which no writer takes part.                                    *)
LEMMA OutsideRecorded ==
  ASSUME Types, Recording, [StreamNext]_allVars, Extends,
         \E day \in Days' : ProjectedOn(day)',
         UNCHANGED <<op, event, reply, stream, pos, phase>>
  PROVE  Recording'
  <1>1. ASSUME NEW w \in Clients, phase'[w] \in {"appending", "done"}
        PROVE  Recorder(w)'
    <2>1. Recorder(w)
      BY <1>1 DEF Recording
    <2> QED
      BY <2>1, OthersKept
  <1> QED
    BY <1>1 DEF Recording

LEMMA RecordedStep ==
  ASSUME RecordedIInv, [StreamNext]_allVars
  PROVE  RecordedIInv'
  <1>1. Types /\ Quiet /\ Recording
    BY DEF RecordedIInv
  <1>2. Types' /\ Quiet'
    BY <1>1, TypesKept, QuietKept
  <1>3. Recording'
    <2>1. ASSUME NEW w \in Clients, Serve(w) PROVE Recording'
      <3>1. /\ phase[w] = "appending"
            /\ AppendEvent(w) \/ CompactJournal(w)
            /\ UNCHANGED <<stream, pos, phase>>
        BY <2>1 DEF Serve, streamVars
      <3> QED
        BY <1>1, <3>1, AppendRecorded, CompactRecorded
    <2>2. ASSUME NEW w \in Clients, WriterNext(w) \/ Interrupt(w)
          PROVE  Recording'
      BY <1>1, <2>1, <2>2, HelperRecorded DEF WriterNext
    <2>3. CASE OperatorCompact
      <3>1. /\ ~Tailed /\ UNCHANGED <<op, event, reply, stream, pos, phase>>
            /\ \E b \in Bodies : lines' = Append(lines, NewCheckpoint(lines, b))
        BY <2>3 DEF OperatorCompact, Recovered, Tailed
      <3>2. PICK b \in Bodies : lines' = Append(lines, NewCheckpoint(lines, b))
        BY <3>1
      <3>3. PICK day \in Days : ProjectedOn(day)
        BY <1>1 DEF Recording
      <3>4. /\ NewCheckpoint(lines, b).kind = "checkpoint"
            /\ NewCheckpoint(lines, b).last = Len(lines) - 1
        BY DEF NewCheckpoint, LastSequence
      <3>5. \E d \in Days' : ProjectedOn(d)'
        BY <1>1, <3>1, <3>2, <3>3, <3>4, LineAdded
      <3>6. Extends
        BY <3>1, <3>2 DEF Extends
      <3> QED
        BY <1>1, <3>1, <3>5, <3>6, OutsideRecorded
    <2>4. CASE Midnight \/ UNCHANGED allVars
      <3>1. UNCHANGED <<lines, op, event, reply, stream, pos, phase>>
        BY <2>4 DEF Midnight, allVars, vars, streamVars
      <3>2. Extends
        BY <3>1 DEF Extends
      <3>3. \E d \in Days' : ProjectedOn(d)'
        BY <1>1, <3>1, ProjectionKept DEF Recording
      <3> QED
        BY <1>1, <3>1, <3>2, <3>3, OutsideRecorded
    <2> QED
      BY <2>2, <2>3, <2>4 DEF StreamNext
  <1> QED
    BY <1>2, <1>3 DEF RecordedIInv

LEMMA RecordedInit == StreamInit => RecordedIInv
  <1> SUFFICES ASSUME StreamInit PROVE RecordedIInv
    OBVIOUS
  <1>1. Types /\ Quiet
    BY StreamInitIInv DEF StreamIInv
  <1>2. Len(lines) = 0 /\ \A w \in Clients : phase[w] = "off"
    BY DEF StreamInit, Init
  <1>3. 0 \in Days
    BY DEF Days, StreamInit
  <1>4. ProjectedOn(0)
    BY <1>2 DEF ProjectedOn
  <1> QED
    BY <1>1, <1>2, <1>3, <1>4 DEF RecordedIInv, Recording

LEMMA RecordedInvariance == StreamSpec => []RecordedIInv
  BY RecordedInit, RecordedStep, PTL DEF StreamSpec

-----------------------------------------------------------------------------
(* A writer that is done has left the whole run and a checkpoint, and      *)
(* nothing else.                                                           *)
LEMMA DoneIsRecorded ==
  ASSUME Types, Recording, NEW w \in Clients, phase[w] = "done"
  PROVE  \E day \in Days : \E last :
           /\ lines = Append(On(day), last)
           /\ last.kind = "checkpoint" /\ last.last = Len(lines) - 2
  <1>1. PICK day \in Days : Wrote(w, day)
    BY DEF Recording, Recorder
  <1> DEFINE n == Len(On(day))
             m == Len(lines)
             last == lines[m]
  <1>2. /\ IsSequence(On(day)) /\ n \in Nat /\ n >= 2
        /\ \A i \in 1 .. n : On(day)[i].kind # "checkpoint"
        /\ IsSequence(lines) /\ m \in Nat
    BY Projection, LengthIsNat DEF Types
  <1>3. /\ n <= m /\ Tailed /\ \A i \in 1 .. n : lines[i] = On(day)[i]
    BY <1>1 DEF Wrote
  <1>4. last.kind = "checkpoint"
    BY <1>3 DEF Tailed, TailIsCheckpoint
  <1>5. m > n
    BY <1>2, <1>3, <1>4
  <1>6. PICK other \in Days : ProjectedOn(other)
    BY DEF Recording
  <1>7. Len(On(other)) = n
    BY Projection
  <1>8. m = n + 1 /\ last.last = m - 2
    <2>1. n + 1 \in 1 .. m /\ m \in 1 .. m
      BY <1>2, <1>5
    <2>2. lines[n + 1].kind = "checkpoint"
      BY <1>2, <1>6, <1>7, <2>1 DEF ProjectedOn
    <2> QED
      BY <1>4, <1>6, <2>1, <2>2 DEF ProjectedOn
  <1> DEFINE all == Append(On(day), last)
  <1> HIDE DEF last
  <1>9. lines = all
    <2>1. PICK S : /\ all \in Seq(S) /\ Len(all) = n + 1 /\ all[n + 1] = last
                   /\ \A i \in 1 .. n : all[i] = On(day)[i]
      BY <1>2, SequenceGrows
    <2>2. PICK T : lines \in Seq(T)
      BY <1>2 DEF IsSequence
    <2>3. \A i \in 1 .. n + 1 : i \in 1 .. n \/ i = n + 1
      BY <1>2
    <2>4. last = lines[n + 1]
      BY <1>8 DEF last
    <2> HIDE DEF all
    <2>5. \A i \in 1 .. n + 1 : lines[i] = all[i]
      BY <1>3, <2>1, <2>3, <2>4
    <2>6. Len(lines) = n + 1
      BY <1>8
    <2> QED
      BY <1>2, <2>1, <2>2, <2>5, <2>6
  <1> QED
    BY <1>4, <1>8, <1>9

-----------------------------------------------------------------------------
(* The file stays readable: no compaction, midnight or repetition gets a   *)
(* line into it that the parser would refuse.                              *)
LEMMA NextLineReadable ==
  ASSUME Types, Readable, NEW e,
         e.seq = Len(lines),
         lines # <<>> => e.run = lines[1].run,
         e.kind = "run_started" <=> lines = <<>>,
         e.kind = "checkpoint" =>
           e.digest = ContentHash(lines) /\ e.last = Len(lines) - 1,
         lines' = Append(lines, e)
  PROVE  Readable'
  <1>1. PICK S : lines \in Seq(S) /\ e \in S
    BY SequenceGrows DEF Types
  <1>2. Integrity(Append(lines, e)) /\ CheckpointsVerify(Append(lines, e))
    BY <1>1, ReadableAppend DEF Readable
  <1>3. Integrity(lines') /\ CheckpointsVerify(lines')
    BY <1>2
  <1> QED
    BY <1>3 DEF Readable, Integrity, CheckpointsVerify, ContentHash

LEMMA CheckpointReadable ==
  ASSUME Types, Readable, lines # <<>>, NEW b,
         lines' = Append(lines, NewCheckpoint(lines, b))
  PROVE  Readable'
  <1> DEFINE e == NewCheckpoint(lines, b)
  <1>1. Len(lines) \in Nat
    BY LengthIsNat DEF Types
  <1>2. /\ e.run = lines[1].run /\ e.seq = Len(lines)
        /\ e.kind = "checkpoint" /\ e.digest = ContentHash(lines)
        /\ e.last = Len(lines) - 1
    BY <1>1 DEF NewCheckpoint, LastSequence
  <1> HIDE DEF e
  <1>3. lines' = Append(lines, e)
    BY DEF e
  <1> QED
    BY <1>2, <1>3, NextLineReadable

LEMMA EventReadable ==
  ASSUME Types, Recording, Readable, NEW w \in Clients,
         phase[w] = "appending", op[w] = "append",
         RunMatches(event[w]), Follows(event[w]),
         lines' = Append(lines, event[w])
  PROVE  Readable'
  <1> DEFINE e == event[w]
             n == Len(lines)
  <1>1. n \in Nat /\ (lines = <<>> <=> n = 0)
    BY LengthIsNat DEF Types
  <1>2. PICK day \in Days : n < Len(On(day)) /\ e = On(day)[n + 1]
    BY NextLine
  <1>3. /\ Len(On(day)) \in Nat
        /\ \A i \in 1 .. Len(On(day)) :
             On(day)[i].kind = IF i = 1 THEN "run_started" ELSE "recorded"
    BY Numbered DEF On, Types
  <1>4. e.kind = IF n = 0 THEN "run_started" ELSE "recorded"
    BY <1>1, <1>2, <1>3
  <1>5. e.seq = n
    BY <1>1 DEF Follows, LastSequence
  <1> QED
    BY <1>1, <1>4, <1>5, NextLineReadable DEF RunMatches

LEMMA ReadableStep ==
  ASSUME RecordedIInv, Readable, [StreamNext]_allVars
  PROVE  Readable'
  <1>1. Types /\ Recording
    BY DEF RecordedIInv
  <1>2. CASE lines' = lines
    BY <1>2 DEF Readable, Integrity, CheckpointsVerify, ContentHash
  <1>3. ASSUME NEW w \in Clients, phase[w] = "appending", AppendEvent(w),
               lines' # lines
        PROVE  Readable'
    <2>1. /\ op[w] = "append" /\ RunMatches(event[w]) /\ Follows(event[w])
          /\ lines' = Append(lines, event[w])
      BY <1>3 DEF AppendEvent, Outstanding, Refuse, Write, Recovered
    <2> QED
      BY <1>1, <1>3, <2>1, EventReadable
  <1>4. ASSUME NEW w \in Clients, CompactJournal(w), lines' # lines
        PROVE  Readable'
    <2>1. lines # <<>> /\ \E b : lines' = Append(lines, NewCheckpoint(lines, b))
      BY <1>4 DEF CompactJournal, Refuse, Write, Recovered
    <2> QED
      BY <1>1, <2>1, CheckpointReadable
  <1>5. ASSUME NEW w \in Clients, WriterNext(w), lines' # lines
        PROVE  Readable'
    <2>1. Serve(w)
      BY <1>5 DEF WriterNext, StartWriter, Send, Receive, Hear, vars
    <2> QED
      BY <1>3, <1>4, <1>5, <2>1 DEF Serve
  <1>6. ASSUME NEW w \in Clients, Interrupt(w) PROVE lines' = lines
    BY <1>6 DEF Interrupt
  <1>7. CASE OperatorCompact
    <2>1. lines # <<>> /\ \E b : lines' = Append(lines, NewCheckpoint(lines, b))
      BY <1>7 DEF OperatorCompact, Recovered
    <2> QED
      BY <1>1, <2>1, CheckpointReadable
  <1>8. Midnight => lines' = lines
    BY DEF Midnight, vars
  <1>9. UNCHANGED allVars => lines' = lines
    BY DEF allVars, vars
  <1> QED
    BY <1>2, <1>5, <1>6, <1>7, <1>8, <1>9 DEF StreamNext

(* Whatever writers, operators, faults and midnights do to the journal of  *)
(* a discovery run, every later command can read it.                       *)
THEOREM StreamStaysReadable == StreamSpec => []AlwaysReadable
  <1>1. StreamInit => Readable
    BY DEF StreamInit, Init, Readable, Integrity, CheckpointsVerify
  <1>2. RecordedIInv /\ Readable /\ [StreamNext]_allVars => Readable'
    BY ReadableStep
  <1>3. Readable => AlwaysReadable
    BY DEF AlwaysReadable
  <1> QED
    BY <1>1, <1>2, <1>3, RecordedInvariance, PTL DEF StreamSpec

(* Once a writer is done, both parity reductions and the status command's  *)
(* replay say of the file what the finished run says of itself, for any    *)
(* number of writers, interruptions, midnights and compactions.            *)
THEOREM RecordedRunsAgree == StreamSpec => []Parity
  <1>1. RecordedIInv /\ AlwaysReadable => Parity
    <2> SUFFICES ASSUME RecordedIInv, AlwaysReadable,
                        \E w \in Clients : phase[w] = "done"
                 PROVE  LET replayed == SyntheticFromEvents(lines)
                            expects == SyntheticFromResult(result, RunOn)
                            status == ReplayJournal(lines) IN
                        /\ Readable
                        /\ [replayed EXCEPT !.run_on = RunOn] = expects
                        /\ DateIsStable => replayed.run_on = RunOn
                        /\ <<status.leads, status.gaps, status.invalid,
                             status.retries>>
                             = <<Len(expects.leads), Len(expects.gaps),
                                 Len(expects.invalid), expects.retries>>
                        /\ status.parameters = <<replayed.run_on>>
                        /\ status.completed = <<expects.status>>
                        /\ status.checkpoint = <<status.sequence - 1>>
      BY DEF Parity
    <2>1. Types /\ Recording
      BY DEF RecordedIInv
    <2>2. PICK day \in Days : \E last :
                 /\ lines = Append(On(day), last)
                 /\ last.kind = "checkpoint" /\ last.last = Len(lines) - 2
      BY <2>1, DoneIsRecorded
    <2>3. PICK last : /\ lines = Append(On(day), last)
                      /\ last.kind = "checkpoint"
                      /\ last.last = Len(lines) - 2
      BY <2>2
    <2>4. result \in Results /\ Len(lines) \in Nat
      BY <2>1, LengthIsNat DEF Types
    <2> DEFINE replayed == SyntheticFromEvents(lines)
               on == SyntheticFromResult(result, day)
               expects == SyntheticFromResult(result, RunOn)
               status == ReplayJournal(lines)
    <2>5. /\ replayed = on
          /\ status.leads = Len(result.leads)
          /\ status.gaps = Len(on.gaps)
          /\ status.invalid = Len(result.quarantines)
          /\ status.retries = result.retries
          /\ status.parameters = <<day>>
          /\ status.completed = <<result.complete>>
          /\ status.checkpoint = <<last.last>>
      BY <2>3, <2>4, Reductions DEF On
    <2>6. /\ [on EXCEPT !.run_on = RunOn] = expects /\ on.run_on = day
          /\ on.gaps = expects.gaps /\ expects.leads = result.leads
          /\ expects.invalid = result.quarantines
          /\ expects.retries = result.retries
          /\ expects.status = result.complete
      <3>1. [on EXCEPT !.run_on = RunOn] = expects
        <4>1. ASSUME NEW a, NEW b, NEW p, NEW e, NEW g, NEW l, NEW i, NEW t,
                     NEW c
              PROVE  [[run_on |-> a, planned |-> p, executed |-> e, gaps |-> g,
                       leads |-> l, invalid |-> i, retries |-> t, status |-> c]
                       EXCEPT !.run_on = b]
                     = [run_on |-> b, planned |-> p, executed |-> e, gaps |-> g,
                        leads |-> l, invalid |-> i, retries |-> t, status |-> c]
          OBVIOUS
        <4> DEFINE a == result.assessments
                   p == [i \in DOMAIN a |-> a[i].query]
                   e == AtPlaces(a, DOMAIN a \ Gaps(a))
                   g == AtPlaces(a, Gaps(a))
        <4>2. ASSUME NEW d
              PROVE  SyntheticFromResult(result, d) =
                       [run_on |-> d, planned |-> p, executed |-> e,
                        gaps |-> g, leads |-> result.leads,
                        invalid |-> result.quarantines,
                        retries |-> result.retries, status |-> result.complete]
          BY Zenon DEF SyntheticFromResult
        <4> HIDE DEF p, e, g
        <4>3. [SyntheticFromResult(result, day) EXCEPT !.run_on = RunOn]
                = SyntheticFromResult(result, RunOn)
          <5>1. [[run_on |-> day, planned |-> p, executed |-> e,
                  gaps |-> g, leads |-> result.leads,
                  invalid |-> result.quarantines,
                  retries |-> result.retries, status |-> result.complete]
                 EXCEPT !.run_on = RunOn]
                  = [run_on |-> RunOn, planned |-> p, executed |-> e,
                     gaps |-> g, leads |-> result.leads,
                     invalid |-> result.quarantines,
                     retries |-> result.retries, status |-> result.complete]
            BY <4>1
          <5> QED
            BY ONLY <5>1, <4>2, Zenon
        <4> QED
          BY <4>3
      <3>2. on.run_on = day /\ on.gaps = expects.gaps
        BY DEF SyntheticFromResult
      <3>3. /\ expects.leads = result.leads
            /\ expects.invalid = result.quarantines
            /\ expects.retries = result.retries
            /\ expects.status = result.complete
        BY DEF SyntheticFromResult
      <3> QED
        BY <3>1, <3>2, <3>3
    <2>7. DateIsStable => day = RunOn
      BY <2>1 DEF DateIsStable, RunOn, Days, Types
    <2>8. status.sequence = Len(lines) - 1
      BY DEF ReplayJournal, LastSequence
    <2>9. status.sequence - 1 = last.last
      BY <2>3, <2>4, <2>8
    <2> HIDE DEF replayed, on, expects, status
    <2>10. /\ [replayed EXCEPT !.run_on = RunOn] = expects
           /\ DateIsStable => replayed.run_on = RunOn
           /\ <<status.leads, status.gaps, status.invalid, status.retries>>
                = <<Len(expects.leads), Len(expects.gaps),
                    Len(expects.invalid), expects.retries>>
           /\ status.parameters = <<replayed.run_on>>
           /\ status.completed = <<expects.status>>
           /\ status.checkpoint = <<status.sequence - 1>>
      BY <2>5, <2>6, <2>7, <2>9
    <2> QED
      BY <2>10 DEF replayed, expects, status, AlwaysReadable
  <1> QED
    BY <1>1, RecordedInvariance, StreamStaysReadable, PTL
-----------------------------------------------------------------------------
(* append_discovery_journal ends, and what it has recorded then.           *)

(* The steps that are left to a writer that is not interrupted: it asks,   *)
(* is served and hears for each event and for the checkpoint.              *)
StepsLeft(w) ==
  IF phase[w] = "off" THEN 3 * Len(Whole) + 4
  ELSE IF phase[w] # "appending" THEN 0
  ELSE 3 * (Len(Whole) + 1 - pos[w]) - (IF op[w] = "none" THEN 0 ELSE 1)
         - (IF reply[w] = NoReply THEN 0 ELSE 1)

(* What the next step of a writer depends on.                              *)
LEMMA WriterStands ==
  ASSUME RecordedIInv, NEW w \in Clients
  PROVE  /\ Len(Whole) \in Nat
         /\ phase[w] # "appending" => op[w] = "none"
         /\ op[w] = "none" => reply[w] = NoReply
         /\ phase[w] = "appending" =>
              /\ Len(stream[w]) = Len(Whole)
              /\ pos[w] \in Nat /\ pos[w] <= Len(Whole)
              /\ op[w] \in {"none", "append", "compact"}
              /\ op[w] = "append" => pos[w] < Len(Whole)
  <1>1. Len(Whole) \in Nat /\ \A day : Len(On(day)) = Len(Whole)
    BY Projection DEF RecordedIInv, On, Whole
  <1>2. phase[w] = "appending" => \E day \in Days : Wrote(w, day)
    BY DEF RecordedIInv, Recording, Recorder
  <1>3. /\ phase[w] # "appending" => op[w] = "none"
        /\ op[w] = "none" => reply[w] = NoReply
    BY DEF RecordedIInv, Quiet
  <1> QED
    BY <1>1, <1>2, <1>3 DEF Wrote

LEMMA StepsAreNumbers ==
  ASSUME RecordedIInv, NEW w \in Clients
  PROVE  StepsLeft(w) \in Nat
  <1> DEFINE n == Len(Whole)
             asked == IF op[w] = "none" THEN 0 ELSE 1
             heard == IF reply[w] = NoReply THEN 0 ELSE 1
  <1>1. n \in Nat
    BY WriterStands
  <1>2. CASE phase[w] # "appending"
    <2> HIDE DEF n
    <2> QED
      BY <1>1, <1>2 DEF StepsLeft, n
  <1>3. CASE phase[w] = "appending"
    <2>1. pos[w] \in Nat /\ pos[w] <= n
      BY <1>3, WriterStands
    <2>2. asked \in 0 .. 1 /\ heard \in 0 .. 1
      OBVIOUS
    <2>3. StepsLeft(w) = 3 * (n + 1 - pos[w]) - asked - heard
      BY <1>3 DEF StepsLeft
    <2> HIDE DEF n, asked, heard
    <2> QED
      BY <1>1, <2>1, <2>2, <2>3
  <1> QED
    BY <1>2, <1>3

(* The writers do not get in each other's way.                             *)
LEMMA OthersWait ==
  ASSUME Types, NEW w \in Clients, WriterNext(w) \/ Interrupt(w),
         NEW v \in Clients, v # w
  PROVE  /\ phase'[v] = phase[v] /\ pos'[v] = pos[v]
         /\ op'[v] = op[v] /\ reply'[v] = reply[v]
  <1>1. CASE StartWriter(w)
    BY <1>1 DEF StartWriter, Types, vars, clientVars
  <1>2. CASE Send(w)
    BY <1>2 DEF Send, Types, streamVars
  <1>3. CASE Serve(w)
    BY <1>3, ServeAnswers DEF Serve, Answered, Types, streamVars
  <1>4. CASE Receive(w)
    BY <1>4 DEF Receive, Hear, Forget, Types
  <1>5. CASE Interrupt(w)
    BY <1>5 DEF Interrupt, Forget, Types
  <1> QED
    BY <1>1, <1>2, <1>3, <1>4, <1>5 DEF WriterNext

LEMMA WriterGetsOn ==
  ASSUME RecordedIInv, NEW w \in Clients, WriterNext(w), Len(Whole)' = Len(Whole)
  PROVE  StepsLeft(w)' < StepsLeft(w)
  <1> DEFINE n == Len(Whole)
  <1>0. /\ n \in Nat /\ n' = n
        /\ DOMAIN phase = Clients /\ DOMAIN pos = Clients
        /\ DOMAIN op = Clients /\ DOMAIN reply = Clients
    BY WriterStands DEF RecordedIInv, Types
  <1> HIDE DEF n
  <1>1. CASE StartWriter(w)
    <2>1. /\ phase[w] = "off" /\ phase'[w] = "appending" /\ pos'[w] = 0
          /\ op'[w] = "none" /\ reply'[w] = NoReply
      BY <1>0, <1>1, WriterStands DEF StartWriter, vars, clientVars
    <2>2. StepsLeft(w) = 3 * n + 4 /\ StepsLeft(w)' = 3 * (n + 1 - 0) - 0 - 0
      BY <1>0, <2>1 DEF StepsLeft, n
    <2> QED
      BY <1>0, <2>2
  <1>2. CASE Send(w)
    <2>1. /\ phase[w] = "appending" /\ phase'[w] = "appending"
          /\ op[w] = "none" /\ op'[w] # "none"
          /\ reply[w] = NoReply /\ reply'[w] = NoReply /\ pos'[w] = pos[w]
      BY <1>0, <1>2, WriterStands DEF Send, streamVars
    <2>2. /\ StepsLeft(w) = 3 * (n + 1 - pos[w]) - 0 - 0
          /\ StepsLeft(w)' = 3 * (n + 1 - pos[w]) - 1 - 0
      BY <1>0, <2>1 DEF StepsLeft, n
    <2> QED
      BY <1>0, <2>1, <2>2, WriterStands
  <1>3. CASE Serve(w)
    <2>1. Answered(w) /\ op[w] # "none" /\ op'[w] = op[w]
      BY <1>3, ServeAnswers DEF Serve
    <2>2. /\ phase[w] = "appending" /\ phase'[w] = "appending"
          /\ reply[w] = NoReply /\ pos'[w] = pos[w]
      BY <1>3 DEF Serve, AppendEvent, CompactJournal, Outstanding, streamVars
    <2>3. reply'[w] # NoReply
      BY <1>0, <2>1 DEF Answered, Outcomes, NoReply
    <2>4. /\ StepsLeft(w) = 3 * (n + 1 - pos[w]) - 1 - 0
          /\ StepsLeft(w)' = 3 * (n + 1 - pos[w]) - 1 - 1
      BY <1>0, <2>1, <2>2, <2>3 DEF StepsLeft, n
    <2> QED
      BY <1>0, <2>2, <2>4, WriterStands
  <1>4. CASE Receive(w)
    <2>1. /\ phase[w] = "appending" /\ reply[w] # NoReply /\ op[w] # "none"
          /\ op'[w] = "none" /\ reply'[w] = NoReply
      BY <1>0, <1>4, WriterStands DEF Receive, Hear, Forget
    <2>2. StepsLeft(w) = 3 * (n + 1 - pos[w]) - 1 - 1
      BY <2>1 DEF StepsLeft, n
    <2>3. pos[w] \in Nat /\ pos[w] <= n
      BY <2>1, WriterStands DEF n
    <2>4. CASE phase'[w] # "appending"
      <3>1. phase'[w] # "off"
        BY <1>0, <1>4 DEF Receive
      <3>2. StepsLeft(w)' = 0
        BY <2>4, <3>1 DEF StepsLeft
      <3> QED
        BY <1>0, <2>2, <2>3, <3>2
    <2>5. CASE phase'[w] = "appending"
      <3>1. pos'[w] = pos[w] + 1
        BY <1>0, <1>4, <2>1, <2>5, WriterStands DEF Receive
      <3>2. StepsLeft(w)' = 3 * (n + 1 - (pos[w] + 1)) - 0 - 0
        BY <1>0, <2>1, <2>5, <3>1 DEF StepsLeft, n
      <3> QED
        BY <1>0, <2>2, <2>3, <3>2
    <2> QED
      BY <2>4, <2>5
  <1> QED
    BY <1>1, <1>2, <1>3, <1>4 DEF WriterNext

(* The helper ends: every step of a writer leaves it fewer, and no step of *)
(* another writer, of an operator or of the clock sets it back.  Only an   *)
(* interruption of the helper does.                                        *)
THEOREM WritersGetOn ==
  StreamSpec =>
    [][\A w \in Clients :
         /\ StepsLeft(w) \in Nat
         /\ WriterNext(w) => StepsLeft(w)' < StepsLeft(w)
         /\ StepsLeft(w)' <= StepsLeft(w) \/ Interrupt(w)]_allVars
  <1> DEFINE Nearer(w) ==
               /\ StepsLeft(w) \in Nat
               /\ WriterNext(w) => StepsLeft(w)' < StepsLeft(w)
               /\ StepsLeft(w)' <= StepsLeft(w) \/ Interrupt(w)
  <1>0. RecordedIInv => \A w \in Clients : StepsLeft(w) \in Nat
    BY StepsAreNumbers
  <1>p. RecordedIInv' => (\A w \in Clients : StepsLeft(w) \in Nat)'
    BY <1>0, PTL
  <1>1. ASSUME RecordedIInv, RecordedIInv', StreamNext, NEW w \in Clients
        PROVE  Nearer(w)
    <2>1. Types /\ Len(Whole)' = Len(Whole) /\ Len(Whole) \in Nat
      BY <1>1, StepGrows, WriterStands DEF RecordedIInv, Whole
    <2>2. StepsLeft(w) \in Nat /\ StepsLeft(w)' \in Nat
      BY <1>0, <1>p, <1>1
    <2>3. WriterNext(w) => StepsLeft(w)' < StepsLeft(w)
      BY <1>1, <2>1, WriterGetsOn
    <2>4. ASSUME /\ phase'[w] = phase[w] /\ pos'[w] = pos[w]
                 /\ op'[w] = op[w] /\ reply'[w] = reply[w]
          PROVE  StepsLeft(w)' = StepsLeft(w)
      BY <2>1, <2>4 DEF StepsLeft
    <2>5. StepsLeft(w)' <= StepsLeft(w) \/ Interrupt(w)
      <3>1. ASSUME NEW v \in Clients, WriterNext(v) \/ Interrupt(v), v # w
            PROVE  StepsLeft(w)' = StepsLeft(w)
        BY <2>1, <2>4, <3>1, OthersWait
      <3>2. OperatorCompact \/ Midnight \/ UNCHANGED allVars =>
              StepsLeft(w)' = StepsLeft(w)
        BY <2>4 DEF OperatorCompact, Midnight, allVars, vars, clientVars,
                    streamVars
      <3>3. WriterNext(w) => StepsLeft(w)' <= StepsLeft(w)
        BY <2>2, <2>3
      <3> QED
        BY <1>1, <2>2, <3>1, <3>2, <3>3 DEF StreamNext
    <2> QED
      BY <2>2, <2>3, <2>5
  <1>2. RecordedIInv /\ RecordedIInv' /\ [StreamNext]_allVars =>
          [\A w \in Clients : Nearer(w)]_allVars
    BY <1>1
  <1> QED
    BY <1>2, RecordedInvariance, PTL DEF StreamSpec

(* When every writer has ended and nobody compacted the journal or changed *)
(* the run's date, each of them has succeeded, and the file is the whole   *)
(* run and one checkpoint: if the run fits in the journal, no interleaving *)
(* of writers and no interruption leaves a part of it behind.              *)
THEOREM EndedRunsAreWhole ==
  RoomForRun =>
    (StreamSpec =>
       [](Finished /\ Clients # {} /\ compactions = 0 /\ DateIsStable
          => /\ \A w \in Clients : phase[w] = "done"
             /\ Len(lines) = Len(DiscoveryRunEvents(result, 0)) + 1))
  <1> DEFINE Ended == Finished /\ Clients # {}
                      /\ compactions = 0 /\ DateIsStable
             IsWhole == /\ \A w \in Clients : phase[w] = "done"
                        /\ Len(lines) = Len(DiscoveryRunEvents(result, 0)) + 1
  <1>1. SUFFICES ASSUME RoomForRun PROVE StreamSpec => [](Ended => IsWhole)
    OBVIOUS
  <1>2. ASSUME StreamIInv, RecordedIInv, Ended PROVE IsWhole
    <2>1. \A w \in Clients : phase[w] = "done"
      BY <1>1, <1>2 DEF Finished, StreamIInv, Good, NotRefused
    <2>2. PICK day \in Days : \E last : lines = Append(On(day), last)
      BY <1>2, <2>1, DoneIsRecorded DEF RecordedIInv
    <2>3. /\ IsSequence(On(day)) /\ Len(On(day)) = Len(Whole)
      BY <1>2, Projection DEF RecordedIInv, On, Whole
    <2>4. Len(lines) = Len(Whole) + 1
      BY <2>2, <2>3, SequenceGrows
    <2> QED
      BY <2>1, <2>4 DEF Whole
  <1> QED
    BY <1>2, StreamInvariance, RecordedInvariance, PTL
=============================================================================
