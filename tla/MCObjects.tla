------------------------------ MODULE MCObjects ------------------------------
(* Small instances of Objects: the games that are played. *)
EXTENDS Saving
CONSTANT aKey  \* a key that is not a reference

Game ==
  [statics |-> <<"vector">>, props |-> {}, keys |-> {}, calls |-> {}, early |-> FALSE,
   most_calls |-> 4, longest |-> 1, identities |-> 6, objects |-> 5, properties |-> 6,
   depth |-> 1, quiet |-> TRUE]

(* Objects that refer to each other, made and despawned before and in turns. *)
OfObjects ==
  [Game EXCEPT !.statics = <<"none", "none">>, !.props = {"p"}, !.early = TRUE,
               !.calls = {"new", "set", "despawn", "undo", "table"},
               !.identities = 7, !.properties = 5]

(* A named vector, and the vectors and objects that a turn puts into it. *)
OfVectors ==
  [Game EXCEPT !.calls = {"new", "vector", "append", "element", "remove", "despawn", "undo"},
               !.most_calls = 3, !.longest = 2, !.identities = 8, !.depth = 2]

(* A named table, a savepoint, and rows between objects of a turn. *)
OfTables ==
  [Game EXCEPT !.statics = <<"table">>, !.keys = {aKey},
               !.calls = {"new", "key", "relate", "despawn", "undo", "savepoint"},
               !.most_calls = 3, !.identities = 8, !.properties = 7, !.depth = 2]

(* Constructors and handlers that nest, and what they store. *)
OfExceptions ==
  [Game EXCEPT !.calls = {"new", "append", "throw", "despawn"}, !.most_calls = 3,
               !.identities = 10, !.objects = 7, !.properties = 5]

OfTurnTables == [Game EXCEPT !.keys = {aKey}, !.calls = {"table", "append", "key"}]

OfFieldContainers ==
  [Game EXCEPT !.props = {"field"}, !.calls = {"set", "despawn"}, !.most_calls = 2,
               !.identities = 5, !.objects = 4, !.properties = 4]

ObjectsAndContainers == {OfObjects, OfVectors, OfTables, OfExceptions}
TurnTables == {OfTurnTables}
FieldContainers == {OfFieldContainers}
=============================================================================
