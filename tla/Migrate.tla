------------------------------ MODULE Migrate ------------------------------
(***************************************************************************)
(* The schema migrations of internal/kdb/migrate, run by scan and serve    *)
(* before anything else (cmd/pcke/commands.go), and the online ALTER that  *)
(* shares their version number.  A migration reads the legacy records of   *)
(* one prefix and translates them in batches, one transaction each; a      *)
(* crash, an error or a restart may fall between any two, and the next run *)
(* starts the migration again.  A legacy record is [id, form], form being  *)
(* "good", "nameless" (no id: skipped) or "bad" (not JSON: an error).      *)
(***************************************************************************)
EXTENDS EventStore, SequencesExt

CONSTANTS LegacyKn, LegacyRel, LegacyNt,  \* sequences of legacy records, in key order
          LegacyEl,                       \* the set of el: keys
          MigrateBatch,                   \* knBatchSize (100 in the code)
          MaxAlters, MaxCrashes

Forms == {"good", "nameless", "bad"}
ASSUME MigrateAssumption ==
  /\ LegacyKn \in Seq([id : Nodes, form : Forms])
  /\ LegacyRel \in Seq([id : Links, form : Forms])
  /\ LegacyNt \in Seq([id : Nodes, form : Forms])
  /\ IsFiniteSet(LegacyEl) /\ MigrateBatch \in Nat \ {0}

VARIABLES disk,      \* [store, el, version] as the last commit left them
          el,        \* the el: keys in memory
          version,   \* db.meta.SchemaVersion
          engine,    \* the migration that runs and what it has yet to translate
          alters, crashes

migrateVars == <<storeVars, disk, el, version, engine, alters, crashes>>

LatestVersion == 15
Registered == 10..LatestVersion           \* registerMigrations
Off == [at |-> "closed", to |-> 0, todo |-> <<>>]
Idle == [at |-> "idle", to |-> 0, todo |-> <<>>]
Running(v, todo) == [at |-> "running", to |-> v, todo |-> todo]
Committed == [store |-> store, el |-> el, version |-> version]

-----------------------------------------------------------------------------
(* One migration *)

\* What a migration collects in its View.  10 and 15 are markers.
Collected(v) ==
    CASE v = 11 -> LegacyKn
      [] v = 12 -> LegacyRel
      [] v = 13 -> LegacyNt
      [] v = 14 -> LET keys == SetToSeq(el) IN [i \in DOMAIN keys |-> [id |-> keys[i], form |-> "good"]]
      [] OTHER  -> <<>>

\* translateKnRecord, translateRelRecord, translateNtRecord: skip what has a version 1.
AlreadyTranslated(s, r) == Len(s.chain[r.id]) >= 1

\* The state of a transaction after one record: the records translated so far, the Puts
\* that may still succeed, and whether it goes on.
translate(w, r) ==
    CASE ~w.ok \/ r.form = "nameless"                                -> w
      [] w.ok /\ r.form = "bad"                                      -> [w EXCEPT !.ok = FALSE]
      [] w.ok /\ r.form = "good" /\ AlreadyTranslated(w.store, r)    -> w
      [] OTHER ->
            LET n == IF w.puts < PutsOf(r.id) THEN w.puts ELSE PutsOf(r.id)
            IN [w EXCEPT !.store = appendInTx(@, r.id, CHOOSE t \in Times : TRUE, "Active", n),
                         !.puts = @ - n,
                         !.ok = (n = PutsOf(r.id)),
                         !.half = (@ \/ n \in 1..(PutsOf(r.id) - 1))]

Translated(batch, puts) ==
    LET after[n \in 0..Len(batch)] ==
            IF n = 0 THEN [store |-> store, puts |-> puts, ok |-> TRUE, half |-> halfWritten]
            ELSE translate(after[n - 1], batch[n])
    IN after[Len(batch)]

InBatch == IF Len(engine.todo) < MigrateBatch THEN Len(engine.todo) ELSE MigrateBatch
NextBatch == SubSeq(engine.todo, 1, InBatch)
AfterBatch == SubSeq(engine.todo, InBatch + 1, Len(engine.todo))

-----------------------------------------------------------------------------
(* The engine *)

Pending == {v \in Registered : v > version}
NextPending == CHOOSE v \in Pending : \A u \in Pending : v <= u

\* A command opens the database and runs the engine.
Open ==
    /\ engine = Off
    /\ store' = disk.store /\ el' = disk.el /\ version' = disk.version
    /\ engine' = Idle
    /\ UNCHANGED <<halfWritten, disk, alters, crashes>>

\* Run: the next pending migration, unless the database is newer than the code.
StartMigration ==
    /\ engine = Idle /\ Pending # {} /\ version <= LatestVersion
    /\ engine' = Running(NextPending, Collected(NextPending))
    /\ UNCHANGED <<storeVars, disk, el, version, alters, crashes>>

\* One batch, committed: the swap of the meta page takes the version in memory with it.
CommitBatch ==
    /\ engine.at = "running" /\ engine.todo # <<>>
    /\ IF engine.to = 14
       THEN /\ el' = el \ {NextBatch[i].id : i \in DOMAIN NextBatch}
            /\ UNCHANGED storeVars
       ELSE LET w == Translated(NextBatch, 2 * MigrateBatch)
            IN w.ok /\ store' = w.store /\ UNCHANGED <<halfWritten, el>>
    /\ engine' = [engine EXCEPT !.todo = AfterBatch]
    /\ disk' = [store |-> store', el |-> el', version |-> version]
    /\ UNCHANGED <<version, alters, crashes>>

\* A record that is not JSON, or a Put that fails.
FailTranslation ==
    /\ engine.to # 14
    /\ \E puts \in 0..(2 * MigrateBatch) :
          LET w == Translated(NextBatch, puts)
          IN /\ ~w.ok
             /\ w.puts = 0 => crashes < MaxCrashes       \* a failing Put
             /\ crashes' = IF w.puts = 0 THEN crashes + 1 ELSE crashes
             /\ store' = w.store
             /\ halfWritten' = w.half
    /\ UNCHANGED el

\* A Delete that fails.
FailDeletion ==
    /\ engine.to = 14 /\ crashes < MaxCrashes
    /\ crashes' = crashes + 1
    /\ \E deleted \in 0..(InBatch - 1) : el' = el \ {NextBatch[i].id : i \in 1..deleted}
    /\ UNCHANGED storeVars

\* The command ends.  Its Close writes what the transaction did so far, but no meta
\* page: the version in the file stays that of the last commit.  A process that is
\* killed inside a transaction leaves the same, for recovery replays its records.
FailBatch ==
    /\ engine.at = "running" /\ engine.todo # <<>>
    /\ FailTranslation \/ FailDeletion
    /\ disk' = [store |-> store', el |-> el', version |-> disk.version]
    /\ engine' = Off
    /\ UNCHANGED <<version, alters>>

\* SetSchemaVersion, in memory, after the migration returned nil.
\* Seeded fault: the version is set when the migration starts.
FinishMigrationEarly ==
    /\ engine.at = "running"
    /\ version' = engine.to
    /\ engine' = IF engine.todo = <<>> THEN Idle ELSE engine
    /\ UNCHANGED <<storeVars, disk, el, alters, crashes>>
FinishMigration ==
    /\ engine.at = "running" /\ engine.todo = <<>>
    /\ version' = engine.to
    /\ engine' = Idle
    /\ UNCHANGED <<storeVars, disk, el, alters, crashes>>

\* applyPendingMigrations ends with a checkpoint, which writes the meta page.
Close ==
    /\ engine = Idle /\ (Pending = {} \/ version > LatestVersion)
    /\ disk' = Committed
    /\ engine' = Off
    /\ UNCHANGED <<storeVars, el, version, alters, crashes>>

Crash ==
    /\ engine # Off /\ crashes < MaxCrashes
    /\ crashes' = crashes + 1
    /\ engine' = Off
    /\ UNCHANGED <<storeVars, disk, el, version, alters>>

\* The alter command does not run the engine.  Apply bumps the version in memory, even
\* when the field or the collection exists already; it is kept only if the backfill
\* commits a transaction, which it does when the collection has records.
Alter ==
    /\ engine = Off /\ alters < MaxAlters
    /\ alters' = alters + 1
    /\ disk' \in {disk, [disk EXCEPT !.version = @ + 1]}
    /\ UNCHANGED <<storeVars, el, version, engine, crashes>>

MigrateInit ==
    /\ Init
    /\ el = LegacyEl /\ version = 0
    /\ disk = [store |-> EmptyStore, el |-> LegacyEl, version |-> 0]
    /\ engine = Off /\ alters = 0 /\ crashes = 0

MigrateNext == Open \/ StartMigration \/ CommitBatch \/ FailBatch \/ FinishMigration \/ Close \/ Crash \/ Alter

MigrateSpec == MigrateInit /\ [][MigrateNext]_migrateVars

-----------------------------------------------------------------------------
(* Properties *)

Good(records) == {records[i].id : i \in {j \in DOMAIN records : records[j].form = "good"}}

\* What a version number says of the records it is stored with.
Says(v, s, keys) ==
    /\ v >= 11 => \A id \in Good(LegacyKn) : s.chain[id] # <<>>
    /\ v >= 12 => \A id \in Good(LegacyRel) : s.chain[id] # <<>> /\ (halfWritten \/ s.reverse[id] # NoVersion)
    /\ v >= 13 => \A id \in Good(LegacyNt) : s.chain[id] # <<>>
    /\ v >= 14 => keys = {}

(***************************************************************************)
(* A schema version is kept only when every migration up to it is done, in *)
(* memory and in the file, whatever crash or error came between two        *)
(* batches: no record is left behind by a run that was cut.  (As long as   *)
(* nobody altered the schema: see VersionMeansMigratedAlways.)             *)
(***************************************************************************)
VersionMeansMigrated ==
    alters = 0 =>
        /\ Says(disk.version, disk.store, disk.el)
        /\ engine # Off => Says(version, store, el)

(***************************************************************************)
(* A migration that is run again translates no record twice: every chain   *)
(* it writes has one version.                                              *)
(***************************************************************************)
NothingTranslatedTwice ==
    \A id \in Ids : Len(disk.store.chain[id]) <= 1 /\ Len(store.chain[id]) <= 1

\* A schema version stands for its migration, and no record is translated twice.
MigrationsHold == VersionMeansMigrated /\ NothingTranslatedTwice

(***************************************************************************)
(* Run applies all pending migrations (migrate.go:131): the same, with the *)
(* version numbers that ALTER uses up.                                     *)
(***************************************************************************)
VersionMeansMigratedAlways == Says(disk.version, disk.store, disk.el)

(***************************************************************************)
(* A database of this program is never taken for one of a newer program    *)
(* (ErrSchemaVersionMismatch).                                             *)
(***************************************************************************)
NeverNewerThanCode == disk.version <= LatestVersion

(***************************************************************************)
(* A relation that was translated is found from both its ends              *)
(* (v0012_rel_to_l.go:44-46), even after a run that failed.                *)
(***************************************************************************)
TranslatedBothWays ==
    disk.version >= 12 => \A id \in Good(LegacyRel) : disk.store.reverse[id] # NoVersion
=============================================================================
