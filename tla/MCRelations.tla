---------------------------- MODULE MCRelations ----------------------------
(* Small instances of Relations: the cardinalities and the pairs a game's   *)
(* calls name.                                                              *)
EXTENDS Relations
CONSTANTS a, b, c

CardsContainment == <<"one_to_many">>
CardsLinksAndDoor == <<"many_to_many", "one_to_one">>
PairsContainment == {<<a, c>>, <<b, c>>, <<c, a>>}
PairsDoor == {<<a, a>>, <<b, b>>, <<a, b>>}
NoFamily == {}
SecondIsFamily == {2}
=============================================================================
