------------------------- MODULE MC_StudyStatManager -------------------------
(***************************************************************************)
(* Model-checking instance of StudyStatManager: an aggregator is keyed by *)
(* its own name, as StatAggregatorStruct is built from the name it is     *)
(* given.                                                                 *)
(***************************************************************************)
EXTENDS StudyStatManager

CONSTANTS n1, n2, n3

MCStatNames == {n1, n2, n3}

MCDescribeKey(name) == name

=============================================================================
