------------------------------- MODULE RowStore -------------------------------
(***************************************************************************)
(* What the relation store promises a game.  A relation is a set of pairs   *)
(* that its cardinality allows; a cycle starts from the rows there are, a   *)
(* failed turn returns to them, and undo returns to the start of the last   *)
(* finished cycle, as far back as UndoDepth cycles.  Orders, indexes, caches*)
(* and journals are the store's business (see Relations).                   *)
(***************************************************************************)
EXTENDS Integers, SequencesExt

CONSTANTS Entities, Keys, CardOf(_), UndoDepth

VARIABLES
  rows,    \* the related pairs of every relation, as <<key, left, right>>
  saved,   \* the rows at the start of each cycle that can be undone, and of this one
  mode     \* "startup", "between" cycles, "recording", or "undone" until the cycle ends

vars == <<rows, saved, mode>>

AllRows == Keys \X Entities \X Entities

(* A row fits when neither side has a partner that it would need alone. *)
Fits(k, x, y) ==
  /\ CardOf(k) = "one_to_one" => \A z \in Entities : <<k, x, z>> \notin rows
  /\ CardOf(k) # "many_to_many" => \A z \in Entities : <<k, z, y>> \notin rows

Init == rows = {} /\ saved = <<{}>> /\ mode = "startup"

Relate(k, x, y) ==
  /\ mode \in {"startup", "recording"} /\ Fits(k, x, y)
  /\ rows' = rows \cup {<<k, x, y>>}
  /\ UNCHANGED <<saved, mode>>

Unrelate(k, x, y) ==
  /\ mode \in {"startup", "recording"}
  /\ rows' = rows \ {<<k, x, y>>}
  /\ UNCHANGED <<saved, mode>>

Begin ==
  /\ mode \in {"startup", "between"} /\ mode' = "recording"
  /\ saved' = Append(Front(saved), rows)
  /\ UNCHANGED rows

(* A cycle that changed rows can be undone; one that did not may be. *)
Finish ==
  /\ mode \in {"recording", "undone"} /\ mode' \in {"between", "recording"}
  /\ \/ rows = Last(saved) /\ UNCHANGED saved
     \/ /\ mode = "recording"
        /\ saved' = Append(IF Len(saved) > UndoDepth THEN Tail(saved) ELSE saved, rows)
  /\ UNCHANGED rows

Rollback ==
  /\ mode = "recording" /\ rows' = Last(saved)
  /\ UNCHANGED <<saved, mode>>

Undo ==
  /\ mode \in {"recording", "undone"} /\ mode' = "undone"
  /\ saved' = IF Len(saved) > 1 THEN Front(saved) ELSE saved
  /\ rows' = Last(saved')

Next ==
  \/ \E k \in Keys, x, y \in Entities : Relate(k, x, y) \/ Unrelate(k, x, y)
  \/ Begin \/ Finish \/ Rollback \/ Undo

Spec == Init /\ [][Next]_vars
=============================================================================
