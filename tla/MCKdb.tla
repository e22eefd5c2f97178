-------------------------------- MODULE MCKdb -------------------------------
(* Two keys on two leaf pages, so that a flush can be cut between them.      *)
EXTENDS Kdb, TLC
CONSTANTS k1, k2, pageA, pageB

MCPageOf == [k \in {k1, k2} |-> IF k = k1 THEN pageA ELSE pageB]

\* Values may be permuted, and the two keys exchanged together with their pages.
Exchange == {[x \in {k1, k2, pageA, pageB} |-> x],
             (k1 :> k2) @@ (k2 :> k1) @@ (pageA :> pageB) @@ (pageB :> pageA)}
Symmetry == {p @@ q : p \in Permutations(Vals), q \in Exchange}
=============================================================================
