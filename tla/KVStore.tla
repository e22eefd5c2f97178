------------------------------ MODULE KVStore ------------------------------
(***************************************************************************)
(* What kdb promises of the state a crash brings back.  It is a map from   *)
(* keys to values that changes only while a transaction runs, by one write *)
(* at a time.  The end of a transaction (commit or not), flushes,          *)
(* checkpoints, crashes and recoveries leave every key alone, with one     *)
(* exception: a crash while the pages of a reshaped tree are on their way  *)
(* to the file.  After such a loss nothing is promised.                    *)
(***************************************************************************)
CONSTANTS Keys, Value, Absent

VARIABLES
  kv,      \* key -> value after a crash now
  tx,      \* "busy" while the function of a transaction runs, "idle", "down"
  moving,  \* whether pages of a reshaped tree are on their way to the file
  lost     \* whether a crash came while they were

vars == <<kv, tx, moving, lost>>

Init == /\ kv = [k \in Keys |-> Absent]
        /\ tx = "idle" /\ moving = FALSE /\ lost = FALSE

Begin == tx = "idle" /\ tx' = "busy" /\ UNCHANGED <<kv, moving, lost>>

Put(k, v) == tx = "busy" /\ kv' = [kv EXCEPT ![k] = v] /\ UNCHANGED <<tx, moving, lost>>

End == tx = "busy" /\ tx' = "idle" /\ UNCHANGED <<kv, moving, lost>>

\* The first page of a reshaped tree reaches the file; the meta page names its root.
Move == moving' = ~moving /\ UNCHANGED <<kv, tx, lost>>

\* The end of a process, by a crash, a kill or after Close, or of an Open.
Crash == /\ tx' = "down" /\ moving' = FALSE
         /\ IF moving THEN lost' = TRUE ELSE UNCHANGED <<kv, lost>>

Recover == tx = "down" /\ tx' = "idle" /\ moving' = FALSE /\ UNCHANGED <<kv, lost>>

Next == \/ Begin \/ End \/ Move \/ Crash \/ Recover
        \/ \E k \in Keys, v \in Value : Put(k, v)
        \/ lost /\ lost'

Spec == Init /\ [][Next]_vars
=============================================================================
