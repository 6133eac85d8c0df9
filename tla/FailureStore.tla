---------------------------- MODULE FailureStore ----------------------------
(***************************************************************************)
(* The failure log of a service: FileFailureStore, one JSON line to an     *)
(* event in a file that outlives the process, and record_event in front of *)
(* it (shared/autosre_shared/storage/failure_store.py).                    *)
(*                                                                         *)
(* A lock makes write, read and clear atomic towards each other, but an    *)
(* append is not atomic towards the disk: when the device is full or the   *)
(* process dies, any part of "line + newline" may be in the file, and the  *)
(* next append continues right after it.  A line made of two writes never  *)
(* parses.  Events are told apart by a serial number and by their source.  *)
(***************************************************************************)
EXTENDS Integers, SequencesExt

CONSTANTS
  Sources,    \* Source.CHAOS, Source.CIRCUIT_BREAKER, ...
  Limits,     \* the values of ?limit= that are asked for
  MaxEvents   \* events recorded between two clears

ASSUME StoreConfig == Limits \subseteq Int /\ MaxEvents \in Nat

VARIABLES
  lines,    \* the terminated lines of the file: events, or Garbage
  tail,     \* what follows the last newline: nothing, Torn, or a whole event
  \* History since the file was last cleared, read by the properties only:
  serial,   \* events recorded so far
  stored,   \* the events whose write returned normally, in order
  torn      \* writes that left something behind without finishing

storeVars == <<lines, tail, serial, stored, torn>>

Garbage == [id |-> 0, source |-> "garbage"]
Nothing == [id |-> 0, source |-> "nothing"]
Torn    == [id |-> 0, source |-> "torn"]
Every   == "every"   \* source=None

----------------------------------------------------------------------------
\* What does not parse is skipped, and so is what another source recorded.
Wanted(line, source) == line.id # 0 /\ (source = Every \/ line.source = source)

\* The reader's loop over the lines of a file.
Collect(file, source) ==
  LET events[i \in 0..Len(file)] ==
        IF i = 0 THEN <<>>
        ELSE IF Wanted(file[i], source) THEN Append(events[i - 1], file[i])
        ELSE events[i - 1]
  IN  events[Len(file)]

\* The last line of the file need not end in a newline.
Matching(source) == Collect(Append(lines, tail), source)

Parsed == Matching(Every)

\* events[-limit:] as Python slices it: a limit of zero takes everything and
\* a negative one drops that many from the front.
LastN(s, limit) ==
  CASE limit = 0 -> s
    [] limit > 0 -> SubSeq(s, IF Len(s) > limit THEN Len(s) - limit + 1 ELSE 1, Len(s))
    [] limit < 0 -> SubSeq(s, 1 - limit, Len(s))

\* Mutant: the limit is applied before the filter.
ReadLimitFirst(limit, source) ==
  Collect(LastN(Parsed, limit), source)

\* read_events, as GET /failures returns it.
ReadEvents(limit, source) == LastN(Matching(source), limit)

----------------------------------------------------------------------------
Init ==
  /\ lines = <<>>
  /\ tail = Nothing
  /\ serial = 0
  /\ stored = <<>>
  /\ torn = 0

NewEvent(source) == [id |-> serial + 1, source |-> source]

\* Mutant: the newest event is put at the front of the file.
WriteInFront(source) ==
  /\ serial < MaxEvents
  /\ serial' = serial + 1
  /\ stored' = Append(stored, NewEvent(source))
  /\ lines' = <<NewEvent(source)>> \o lines
  /\ UNCHANGED <<tail, torn>>

\* write_event succeeds: the line joins whatever the last write left behind.
Write(source) ==
  /\ serial < MaxEvents
  /\ serial' = serial + 1
  /\ stored' = Append(stored, NewEvent(source))
  /\ lines' = Append(lines, IF tail = Nothing THEN NewEvent(source) ELSE Garbage)
  /\ tail' = Nothing
  /\ UNCHANGED torn

\* The write fails with part of the line in the file (record_event logs the
\* exception and goes on), or the process dies in it and is started again.
WriteTorn(source) ==
  /\ serial < MaxEvents
  /\ serial' = serial + 1
  /\ tail' \in IF tail = Nothing THEN {Torn, NewEvent(source)} ELSE {Torn}
  /\ torn' = torn + 1
  /\ UNCHANGED <<lines, stored>>

\* The write fails before anything reached the file.
WriteFails(source) ==
  /\ serial < MaxEvents
  /\ serial' = serial + 1
  /\ UNCHANGED <<lines, tail, stored, torn>>

\* Mutant: clearing drops the terminated lines only.
ClearKeepsTail == lines' = <<>> /\ serial' = 0 /\ stored' = <<>> /\ torn' = 0 /\ UNCHANGED tail

\* clear_events, DELETE /failures
Clear == lines' = <<>> /\ tail' = Nothing /\ serial' = 0 /\ stored' = <<>> /\ torn' = 0

Next ==
  \/ \E source \in Sources : Write(source) \/ WriteTorn(source) \/ WriteFails(source)
  \/ Clear

Spec == Init /\ [][Next]_storeVars

----------------------------------------------------------------------------
(***************************************************************************)
(* Properties.                                                             *)
(***************************************************************************)

\* A reader sees events at most once and in the order they were recorded,
\* whatever was torn in between.
ReadInOrder ==
  \A i, j \in DOMAIN Parsed : i < j => Parsed[i].id < Parsed[j].id

\* A write that did not finish costs at most one event that did: the next
\* event shares its line, the ones after it are safe.
LossBounded ==
  Cardinality(ToSet(stored) \ ToSet(Parsed)) <= torn

\* A read returns the newest events of the source asked for, and a positive
\* limit counts those, not all events.
LimitTakesNewest ==
  \A source \in Sources \cup {Every}, limit \in Limits :
    LET all == Matching(source)
        got == ReadEvents(limit, source) IN
    /\ IsSuffix(got, all)
    /\ limit > 0 => Len(got) = IF Len(all) < limit THEN Len(all) ELSE limit

=============================================================================
