------------------------------- MODULE MCOpen -------------------------------
(***************************************************************************)
(* What opening a database sets up besides its tree: the lock of the       *)
(* directory, the meta pages, the write-ahead log and the freelist.  Where *)
(* they meet is the subject of Kdb; here each is run by itself, in full    *)
(* detail, so a behaviour runs one of them and leaves the others as they   *)
(* are at the start.                                                       *)
(***************************************************************************)
EXTENDS Meta, Wal, FileLock, Freelist, TLC

CONSTANTS Parts,      \* those of "meta", "wal", "lock" and "freelist" that are run
          p1, p2, p3, i1, i2, i3, i4

VARIABLE part

allVars == <<part, vars, walVars, lockVars, freelistVars>>

MCSymmetry == Permutations(Proc) \cup Permutations(Inode)

OpenInit == /\ part \in Parts
            /\ Init /\ WalInit /\ LockInit /\ FreelistInit
            /\ part # "wal" => legacy = NoFile

MetaStep == part = "meta" /\ Next /\ UNCHANGED <<part, walVars, lockVars, freelistVars>>
WalStep == part = "wal" /\ WalNext /\ UNCHANGED <<part, vars, lockVars, freelistVars>>
LockStep == part = "lock" /\ LockNext /\ UNCHANGED <<part, vars, walVars, freelistVars>>
FreelistStep == part = "freelist" /\ FreelistNext /\ UNCHANGED <<part, vars, walVars, lockVars>>

OpenSpec == OpenInit /\ [][MetaStep \/ WalStep \/ LockStep \/ FreelistStep]_allVars
=============================================================================
