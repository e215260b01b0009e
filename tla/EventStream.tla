----------------------------- MODULE EventStream -----------------------------
(***************************************************************************)
(* The event stream and the snapshot token of a session (session.rs). The  *)
(* stream is a sequence of words: the game opens a record and extends it   *)
(* in place by counting up words it wrote earlier, while the host takes    *)
(* the stream at any time and an undo discards it in two critical          *)
(* sections.                                                               *)
(***************************************************************************)
EXTENDS Naturals, Sequences, SequencesExt

CONSTANTS Sessions,
          Ids,          \* the lengths in bytes of the ids the game uses
          Handles,      \* the entities it names
          Limit,        \* PACKET_LIMIT in words
          LastToken     \* i32::MAX

ASSUME StreamAssumption ==
  Ids \subseteq Nat /\ Handles \subseteq Nat /\ LastToken \in Nat

ResyncLength == 12      \* "world.resync"
None == 0

VARIABLES shared, counter, resyncing

streamVars == <<shared, counter, resyncing>>

\* A value is its tag and the length of its bytes: nil, an integer, a text of two words.
EventValues == {<<0, 0>>, <<2, 8>>, <<4, 9>>}

\* Content words are told apart from every length, count and tag.
Content(bytes) == [k \in 1..((bytes + 7) \div 8) |-> 1000 + bytes]

Fresh == [events |-> <<>>, event_values |-> None, snapshot |-> 0]

(***************************************************************************)
(* Words of the stream.                                                    *)
(***************************************************************************)
read_word(events, at) == IF at \in DOMAIN events THEN events[at] ELSE 0

bump(events, at) ==
  IF at \in DOMAIN events THEN [events EXCEPT ![at] = @ + 1] ELSE events

id_words(events, start) == (read_word(events, start + 1) + 7) \div 8

\* Where the record that begins at this word ends.
following(events, at) == at + read_word(events, at)

\* The start of the last record, found by walking from the first; None if there is none.
last_event(events) ==
  LET walk[at \in 1..Len(events)] ==
        LET next == following(events, at)
        IN IF read_word(events, next) = 0 THEN at ELSE walk[next]
  IN IF read_word(events, 1) = 0 THEN None ELSE walk[1]

(***************************************************************************)
(* What each call makes of a session's record; the record itself when the  *)
(* call is refused.                                                        *)
(***************************************************************************)
event(s, id) ==
  LET record == <<3 + Len(Content(id)), id>> \o Content(id) \o <<0>>
  IN IF Len(s.events) + Len(record) > Limit THEN s
     ELSE [s EXCEPT !.events = @ \o record, !.event_values = None]

event_subject(s, handle) ==
  LET start == last_event(s.events)
      count == start + 2 + id_words(s.events, start)
  IN IF start = None \/ s.event_values # None \/ Len(s.events) + 1 > Limit THEN s
     ELSE [s EXCEPT !.events = Append(bump(bump(@, count), start), handle)]

\* Slip: the words of the record are counted before the value is appended.
EventValueCountedEarly(s, value) ==
  LET start == last_event(s.events)
      count == IF s.event_values # None THEN s.event_values ELSE Len(s.events) + 1
      opened == IF s.event_values # None THEN s.events ELSE Append(s.events, 0)
      stored == bump(opened, count) \o value \o Content(value[2])
  IN IF start = None \/ Len(stored) > Limit THEN s
     ELSE [s EXCEPT !.events = [stored EXCEPT ![start] = Len(opened) - start + 1],
                    !.event_values = count]

event_value(s, value) ==
  LET start == last_event(s.events)
      count == IF s.event_values # None THEN s.event_values ELSE Len(s.events) + 1
      opened == IF s.event_values # None THEN s.events ELSE Append(s.events, 0)
      stored == bump(opened, count) \o value \o Content(value[2])
  IN IF start = None \/ Len(stored) > Limit THEN s
     ELSE [s EXCEPT !.events = [stored EXCEPT ![start] = Len(stored) - start + 1],
                    !.event_values = count]

drained(s) == [s EXCEPT !.events = <<>>, !.event_values = None]

cleared(s) == [s EXCEPT !.events = <<>>, !.event_values = None, !.snapshot = 0]

next_snapshot(s) == IF counter < LastToken THEN counter ELSE None

(***************************************************************************)
(* Steps: one critical section of the session's mutex each. The worker     *)
(* makes every call but the host's drained; resync is two sections.        *)
(***************************************************************************)
Idle(s) == ~resyncing[s]

Becomes(s, record) == shared' = [shared EXCEPT ![s] = record]

Event(s) ==
  /\ Idle(s)
  /\ \E id \in Ids : Becomes(s, event(shared[s], id))
  /\ UNCHANGED <<counter, resyncing>>

EventSubject(s) ==
  /\ Idle(s)
  /\ \E h \in Handles : Becomes(s, event_subject(shared[s], h))
  /\ UNCHANGED <<counter, resyncing>>

EventValue(s) ==
  /\ Idle(s)
  /\ \E v \in EventValues : Becomes(s, event_value(shared[s], v))
  /\ UNCHANGED <<counter, resyncing>>

Drained(s) ==
  /\ Becomes(s, drained(shared[s]))
  /\ UNCHANGED <<counter, resyncing>>

\* A rollback, an undo that found a cycle, or a restore.
Resync(s) ==
  /\ Idle(s)
  /\ Becomes(s, cleared(shared[s]))
  /\ resyncing' = [resyncing EXCEPT ![s] = TRUE]
  /\ UNCHANGED counter

ResyncEvent(s) ==
  /\ resyncing[s]
  /\ Becomes(s, event(shared[s], ResyncLength))
  /\ resyncing' = [resyncing EXCEPT ![s] = FALSE]
  /\ UNCHANGED counter

Reset(s) ==
  /\ Idle(s)
  /\ Becomes(s, Fresh)
  /\ UNCHANGED <<counter, resyncing>>

IssueToken(s) ==
  /\ Idle(s)
  /\ next_snapshot(s) # None
  /\ Becomes(s, [shared[s] EXCEPT !.snapshot = next_snapshot(s)])
  /\ counter' = counter + 1
  /\ UNCHANGED resyncing

\* The game may hold any token that was ever issued, to whichever session.
TakeToken(s) ==
  /\ Idle(s)
  /\ \E token \in 1..(counter - 1) :
       /\ shared[s].snapshot = token
       /\ Becomes(s, [shared[s] EXCEPT !.snapshot = 0])
  /\ UNCHANGED <<counter, resyncing>>

StreamInit ==
  /\ shared = [s \in Sessions |-> Fresh]
  /\ counter = 1
  /\ resyncing = [s \in Sessions |-> FALSE]

StreamNext ==
  \E s \in Sessions :
     \/ Event(s) \/ EventSubject(s) \/ EventValue(s) \/ Drained(s)
     \/ Resync(s) \/ ResyncEvent(s) \/ Reset(s) \/ IssueToken(s) \/ TakeToken(s)

StreamSpec == StreamInit /\ [][StreamNext]_streamVars

(***************************************************************************)
(* The stream as a host reads it: each record by its own lengths, and the  *)
(* next one where the record says it ends.                                 *)
(***************************************************************************)
after_value(events, at) == at + 2 + Len(Content(read_word(events, at + 1)))

ReadValues(events, from, many) ==
  LET place[k \in 0..many] ==
        IF k = 0 THEN from ELSE after_value(events, place[k - 1])
  IN [k \in 1..many |-> <<read_word(events, place[k - 1]), read_word(events, place[k - 1] + 1)>>]

ReadRecord(events, start) ==
  LET ends     == following(events, start)
      count    == start + 2 + id_words(events, start)
      subjects == read_word(events, count)
      valued   == count + subjects + 1
  IN [id       |-> read_word(events, start + 1),
      subjects |-> [k \in 1..subjects |-> read_word(events, count + k)],
      values   |-> IF valued >= ends THEN <<>>
                   ELSE ReadValues(events, valued + 1, read_word(events, valued))]

ReadEvents(events) ==
  LET read[at \in 1..Len(events)] ==
        LET next == following(events, at)
        IN <<ReadRecord(events, at)>> \o (IF read_word(events, next) = 0 THEN <<>> ELSE read[next])
  IN IF read_word(events, 1) = 0 THEN <<>> ELSE read[1]

Log == INSTANCE EventLog WITH
         Names   <- Ids,
         Notice  <- ResyncLength,
         Values  <- EventValues,
         Tokens  <- 1..(LastToken - 1),
         records <- [s \in Sessions |-> ReadEvents(shared[s].events)],
         held    <- [s \in Sessions |-> shared[s].snapshot],
         handed  <- counter - 1

(***************************************************************************)
(* Whatever the calls and whenever the host takes the stream, what the     *)
(* host reads is the list of whole records the game wrote, in order, with  *)
(* each subject and value in the record it was meant for; an undo voids    *)
(* the list and the token together; and a session spends a token only if   *)
(* it is the last one it was handed, once, no session ever being handed    *)
(* the same again (session.rs event, event_subject, event_value, drained,  *)
(* resync, snapshot_token).                                                *)
(***************************************************************************)
ImplementsLog == Log!LogSpec

=============================================================================
