------------------------------ MODULE EventLog ------------------------------
(***************************************************************************)
(* What the event stream of a session promises the host: a list of whole   *)
(* records in the order the game wrote them, of which only the last one    *)
(* grows, and a snapshot token that one session may take once.             *)
(***************************************************************************)
EXTENDS Naturals, Sequences, SequencesExt

CONSTANTS Sessions, Names, Notice, Handles, Values, Tokens

NoToken == 0

VARIABLES records, held, handed

logVars == <<records, held, handed>>

Opened(id) == [id |-> id, subjects |-> <<>>, values |-> <<>>]

LogInit ==
  /\ records = [s \in Sessions |-> <<>>]
  /\ held = [s \in Sessions |-> NoToken]
  /\ handed = NoToken

(***************************************************************************)
(* How the list of one session may change.                                 *)
(***************************************************************************)
Told(old, new) == \E id \in Names \cup {Notice} : new = Append(old, Opened(id))

\* The last record grows; no subject follows a value.
Extended(old, new) ==
  /\ old # <<>> /\ Len(new) = Len(old)
  /\ Front(new) = Front(old)
  /\ \/ /\ Last(old).values = <<>>
        /\ \E h \in Handles :
             Last(new) = [Last(old) EXCEPT !.subjects = Append(@, h)]
     \/ \E v \in Values : Last(new) = [Last(old) EXCEPT !.values = Append(@, v)]

Writes(s) ==
  /\ \E old \in {records[s]}, new \in {records'[s]} :
       Told(old, new) \/ Extended(old, new) \/ new = <<>>
  /\ UNCHANGED <<held, handed>>

\* The world went back: what the session was told of it is void.
WentBack(s) ==
  /\ records'[s] = <<>>
  /\ held' = [held EXCEPT ![s] = NoToken]
  /\ UNCHANGED handed

\* Tokens are handed out in order, each to one session and once.
Hands(s) ==
  /\ \E t \in Tokens :
       /\ handed < t
       /\ handed' = t
       /\ held' = [held EXCEPT ![s] = t]
  /\ records'[s] = records[s]

Spends(s) ==
  /\ held[s] # NoToken
  /\ held' = [held EXCEPT ![s] = NoToken]
  /\ records'[s] = records[s]
  /\ UNCHANGED handed

LogNext ==
  \E s \in Sessions :
     /\ \A q \in Sessions \ {s} : records'[q] = records[q]
     /\ Writes(s) \/ WentBack(s) \/ Hands(s) \/ Spends(s)

LogSpec == LogInit /\ [][LogNext]_logVars
=============================================================================
