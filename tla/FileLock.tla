------------------------------ MODULE FileLock ------------------------------
(***************************************************************************)
(* The exclusive lock a process takes on a database directory              *)
(* (internal/kdb/lock, unix).  The lock lives on an inode, the processes   *)
(* meet at a path: Unlock releases the inode, then removes the path.  The  *)
(* PID written into the file is diagnostic and left out.                   *)
(***************************************************************************)
CONSTANTS
  Proc,     \* processes that open the database
  Inode,    \* inodes of the file system, used again once nothing refers to them
  None      \* no inode

ASSUME FileLockAssumption == None \notin Inode

VARIABLES
  lockPc,  \* where each process is in Acquire or Unlock
  fd,      \* inode each process has open
  path,    \* inode the path names
  flock    \* holder of the lock on each inode, a set of at most one process

lockVars == <<lockPc, fd, path, flock>>

LockInit == /\ lockPc = [p \in Proc |-> "out"]
            /\ fd = [p \in Proc |-> None]
            /\ path = None
            /\ flock = [i \in Inode |-> {}]

Unused == {i \in Inode : i # path /\ \A p \in Proc : fd[p] # i}

Goto(p, from, to) == lockPc[p] = from /\ lockPc' = [lockPc EXCEPT ![p] = to]

\* Acquire: os.OpenFile with O_CREATE.
OpenFile(p) ==
  /\ Goto(p, "out", "opened")
  /\ IF path = None THEN path' \in Unused ELSE path' = path
  /\ fd' = [fd EXCEPT ![p] = path']
  /\ UNCHANGED flock

\* Seeded fault: the lock is taken whoever holds it.
TryLockShared(p) ==
  /\ Goto(p, "opened", "holding")
  /\ flock' = [flock EXCEPT ![fd[p]] = @ \cup {p}]
  /\ UNCHANGED <<fd, path>>

\* Acquire: the non-blocking flock succeeds and Open goes on with the database.
TryLock(p) ==
  /\ Goto(p, "opened", "holding")
  /\ flock[fd[p]] = {}
  /\ flock' = [flock EXCEPT ![fd[p]] = {p}]
  /\ UNCHANGED <<fd, path>>

\* Acquire: the inode is locked; the file is closed and ErrDBLocked returned.
TryLockFails(p) ==
  /\ Goto(p, "opened", "out")
  /\ flock[fd[p]] # {}
  /\ fd' = [fd EXCEPT ![p] = None]
  /\ UNCHANGED <<path, flock>>

\* Seeded fault: the lock outlives its holder.
DropNothing(p) == flock' = flock

Drop(p) == flock' = [i \in DOMAIN flock |-> flock[i] \ {p}]

\* Unlock: the flock is released ...
Unlock(p) == /\ Goto(p, "holding", "unlocked")
             /\ Drop(p)
             /\ UNCHANGED <<fd, path>>

\* ... the file is closed and the path removed, whatever it names by now.
RemoveFile(p) == /\ Goto(p, "unlocked", "out")
                 /\ fd' = [fd EXCEPT ![p] = None]
                 /\ path' = None
                 /\ UNCHANGED flock

\* A process dies anywhere: the system closes its file, the path stays.
Die(p) == /\ lockPc[p] # "out"
          /\ lockPc' = [lockPc EXCEPT ![p] = "out"]
          /\ fd' = [fd EXCEPT ![p] = None]
          /\ Drop(p)
          /\ UNCHANGED path

LockNext == \E p \in Proc : OpenFile(p) \/ TryLock(p) \/ TryLockFails(p)
                            \/ Unlock(p) \/ RemoveFile(p) \/ Die(p)

LockSpec == LockInit /\ [][LockNext]_lockVars

-----------------------------------------------------------------------------
\* Every variable holds a value of its kind.
LockTypeOK == /\ lockPc \in [Proc -> {"out", "opened", "holding", "unlocked"}]
              /\ fd \in [Proc -> Inode \cup {None}]
              /\ path \in Inode \cup {None}
              /\ flock \in [Inode -> SUBSET Proc]

\* The lock is exclusive: no two processes have the database open at once.
MutualExclusion == \A p, q \in Proc : lockPc[p] = "holding" /\ lockPc[q] = "holding" => p = q

\* What does hold: a process that has the database open is the only holder of
\* the lock of the inode it opened, so two of them stand on different inodes.
HoldersLockTheirInode ==
  \A p \in Proc : lockPc[p] = "holding" => fd[p] \in Inode /\ flock[fd[p]] = {p}

\* A lock file left behind locks nobody out: an inode is locked only while a
\* living process has the database open through it.
NoStaleLock ==
  \A i \in Inode : \A p \in flock[i] : lockPc[p] = "holding" /\ fd[p] = i
=============================================================================
