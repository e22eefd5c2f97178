---------------------------- MODULE MCTreeCrash ----------------------------
(* A full root leaf in the file, and one Update that splits it.              *)
EXTENDS TreeCrash

MCValues == {[name |-> "a", pages |-> 0]}
MCShapes == {[i \in 1..4 |-> i]}
=============================================================================
