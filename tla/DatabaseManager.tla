--------------------------- MODULE DatabaseManager ---------------------------
(***************************************************************************)
(* db.Manager (db/db.go): Connect, AddMigrationSource, RunMigrations and      *)
(* Close, called by the instances of an application that share a database.    *)
(*                                                                         *)
(* RunMigrations merges the registered sources into one directory and hands   *)
(* it to goose (external), which works on the shared table of versions        *)
(* without a lock: it compares its files with the table, then reads the       *)
(* version recorded last and applies the next file until there is none.       *)
(* Every migration is a transaction; an instance may fail, or be killed,      *)
(* between any two of these steps.                                            *)
(*                                                                         *)
(* pc is the control state of Application.Run (module Application), which     *)
(* calls these operations; an operation that fails makes Run return: "error". *)
(***************************************************************************)
EXTENDS Integers, Sequences, FiniteSets, FiniteSetsExt

CONSTANTS
    Apps,       \* instances of the application
    Sources,    \* migration sources: core, auth, password and the application's own
    Files       \* the versions, hence file names, that each source holds

ASSUME FilesAssumption == Files \in [Sources -> (SUBSET (Nat \ {0})) \ {{}}]

VARIABLES
    applied,    \* the versions recorded in goose_db_version
    version,    \* the one recorded last (0: none)
    pc,
    pool,       \* m.pool of each instance
    sources,    \* m.migrationFiles
    next        \* the migration goose is about to apply

database == <<applied, version>>
manager == <<pool, sources, next>>

DatabaseInit ==
    /\ applied = {} /\ version = 0
    /\ pc = [a \in Apps |-> "none"]
    /\ pool = [a \in Apps |-> "nil"]
    /\ sources = [a \in Apps |-> <<>>]
    /\ next = [a \in Apps |-> 0]

At(a, label) == pc[a] = label
Goto(a, label) == pc' = [pc EXCEPT ![a] = label]

-----------------------------------------------------------------------------
(* Connect and Close.                                                      *)

\* A pool that exists is used as it is.  Otherwise it is stored before the ping,
\* and kept when the ping fails.
Connect(a) ==
    /\ At(a, "connect")
    /\ \/ pool[a] # "nil" /\ Goto(a, "sources") /\ UNCHANGED pool
       \/ pool[a] = "nil" /\ Goto(a, "error") /\ UNCHANGED pool
       \/ pool[a] = "nil" /\ Goto(a, "ping") /\ pool' = [pool EXCEPT ![a] = "open"]
    /\ UNCHANGED <<database, sources, next>>

Ping(a) ==
    /\ At(a, "ping")
    /\ Goto(a, "sources") \/ Goto(a, "error")
    /\ UNCHANGED <<database, manager>>

-----------------------------------------------------------------------------
(* Migrations.                                                             *)

\* AddMigrationSource appends, whatever is registered already.
AddMigrationSources(a, added) ==
    /\ At(a, "sources")
    /\ sources' = [sources EXCEPT ![a] = @ \o added]
    /\ Goto(a, "merge")
    /\ UNCHANGED <<database, pool, next>>

\* mergeMigrationSources: one flat directory (flatFS), in which a file name must not
\* come twice.  A source that cannot be read is an error as well.
Merged(a) == UNION {Files[sources[a][i]] : i \in DOMAIN sources[a]}
Duplicate(a) ==
    \E i, j \in DOMAIN sources[a] :
        i # j /\ Files[sources[a][i]] \cap Files[sources[a][j]] # {}

MergeMigrationSources(a) ==
    /\ At(a, "merge")
    /\ \/ sources[a] = <<>> /\ Goto(a, "services")
       \/ sources[a] # <<>> /\ ~Duplicate(a) /\ Goto(a, "check")
       \/ sources[a] # <<>> /\ Goto(a, "error")
    /\ UNCHANGED <<database, manager>>

\* goose.UpContext: a file older than the newest version in the table, and not
\* in it, is "missing", and nothing is applied.
Missing(a) == {m \in Merged(a) \ applied : \E n \in applied : m < n}
CheckMissing(a) ==
    /\ At(a, "check")
    /\ \/ Missing(a) = {} /\ Goto(a, "next")
       \/ Goto(a, "error")
    /\ UNCHANGED <<database, manager>>

Later(a) == {m \in Merged(a) : m > version}
\* Mutant: the merged directory is not sorted.
NextMigrationUnsorted(a) ==
    /\ At(a, "next")
    /\ \/ Later(a) = {} /\ Goto(a, "services") /\ UNCHANGED next
       \/ /\ Goto(a, "apply")
          /\ \E m \in Later(a) : next' = [next EXCEPT ![a] = m]
       \/ Goto(a, "error") /\ UNCHANGED next
    /\ UNCHANGED <<database, pool, sources>>
\* The next file is the one after the version recorded last.
NextMigration(a) ==
    /\ At(a, "next")
    /\ \/ Later(a) = {} /\ Goto(a, "services") /\ UNCHANGED next
       \/ Later(a) # {} /\ Goto(a, "apply") /\ next' = [next EXCEPT ![a] = Min(Later(a))]
       \/ Goto(a, "error") /\ UNCHANGED next
    /\ UNCHANGED <<database, pool, sources>>

\* A migration is applied and recorded in one transaction.  It may be in the table
\* already, because another instance was faster: CREATE ... IF NOT EXISTS then
\* succeeds again.  It may fail, also after its commit.
ApplyMigration(a) ==
    /\ At(a, "apply")
    /\ \/ /\ applied' = applied \cup {next[a]} /\ version' = next[a]
          /\ Goto(a, "next") \/ Goto(a, "error")
       \/ Goto(a, "error") /\ UNCHANGED database
    /\ next' = [next EXCEPT ![a] = 0]
    /\ UNCHANGED <<pool, sources>>

RunMigrations(a) == \/ MergeMigrationSources(a) \/ CheckMissing(a)
                    \/ NextMigration(a) \/ ApplyMigration(a)
=============================================================================
