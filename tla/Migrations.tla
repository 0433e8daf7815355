----------------------------- MODULE Migrations -----------------------------
(* Opening the database: Store.Migrate and applyMigration                     *)
(* (core/persistence/store.go, migration_compat.go).  Several processes, of     *)
(* several builds, may open the same file at once: a Core that is started      *)
(* while its predecessor still drains, or the command line beside it.  Each    *)
(* reads what is recorded, version by version, and applies what is missing in   *)
(* one transaction per version.                                                *)
EXTENDS Naturals, FiniteSets

CONSTANTS
    Opener,      \* processes that open the database
    Build,       \* builds of the program
    Supports,    \* the newest migration each build has
    ChecksumOf,  \* the checksum of each migration in each build
    Session,     \* voice sessions a version 1 database may hold, as numbers
    DeviceOf,    \* their devices
    StartedAt    \* and start times

Version == 1..4

VoiceIndex == 2   \* migration 2 allows one active session for each device

ASSUME MigrationAssumption ==
    /\ Supports \in [Build -> Version]
    /\ \A b \in Build, v \in Version : ChecksumOf[b][v] \notin {"absent", "blank"}
    /\ Session \subseteq Nat /\ IsFiniteSet(Session)
    /\ StartedAt \in [Session -> Nat]

VARIABLES
    recorded, \* schema_migrations: "absent", "blank" or the checksum of each version
    applied,  \* history: how often the contents of each version were committed
    active,   \* sessions that are neither ended nor failed
    legacy,   \* history: the active sessions before migration 2
    opener    \* each process: its build, where it is, the version it looks at

migrationVars == <<recorded, applied, active, legacy, opener>>

\* A new database, or one of version 1, with or without its checksum.
MigrationInit ==
    /\ \E first \in {"absent", "blank"} \cup {ChecksumOf[b][1] : b \in Build} :
          /\ recorded = [v \in Version |-> IF v = 1 THEN first ELSE "absent"]
          /\ applied = [v \in Version |-> IF v = 1 /\ first # "absent" THEN 1 ELSE 0]
          /\ active \in IF first = "absent" THEN {{}} ELSE SUBSET Session
    /\ legacy = active
    /\ opener \in [Opener -> [build : Build, pc : {"start"}, version : {0}]]

(***************************************************************************)
(* Migrate                                                                 *)
(***************************************************************************)
Moves(o, pc, v) == opener' = [opener EXCEPT ![o].pc = pc, ![o].version = v]

RecordedVersions == {v \in Version : recorded[v] # "absent"}

\* A database newer than the build is refused before anything is changed.
readNewest(o) ==
    /\ opener[o].pc = "start"
    /\ IF \E v \in RecordedVersions : v > Supports[opener[o].build]
       THEN Moves(o, "refused", 0)
       ELSE Moves(o, "look", 1)
    /\ UNCHANGED <<recorded, applied, active, legacy>>

\* The row of one version: absent, without checksum, the same, or another.
checkVersion(o) ==
    /\ opener[o].pc = "look"
    /\ LET v == opener[o].version
           sum == ChecksumOf[opener[o].build][v]
           next == IF v = Supports[opener[o].build] THEN "open" ELSE "look"
       IN \/ /\ recorded[v] = "absent"
             /\ Moves(o, "apply", v)
             /\ UNCHANGED recorded
          \/ /\ recorded[v] = "blank"
             /\ recorded' = [recorded EXCEPT ![v] = sum]
             /\ Moves(o, next, v + 1)
          \/ /\ recorded[v] = sum
             /\ Moves(o, next, v + 1)
             /\ UNCHANGED recorded
          \/ /\ recorded[v] \notin {"absent", "blank", sum}
             /\ Moves(o, "refused", v)
             /\ UNCHANGED recorded
    /\ UNCHANGED <<applied, active, legacy>>

\* The session kept for a device: the newest, the greatest id among equals.
Retained(d) ==
    LET mine == {s \in active : DeviceOf[s] = d}
    IN {s \in mine : \A r \in mine :
           StartedAt[s] > StartedAt[r] \/ (StartedAt[s] = StartedAt[r] /\ s >= r)}

\* prepareMigrationCompatibility: older duplicates are failed before the
\* unique index is created.
Reconciled(v) ==
    IF v = VoiceIndex THEN UNION {Retained(DeviceOf[s]) : s \in active} ELSE active

\* Contents and record in two transactions.
CommittedUnrecorded(v, sum) ==
    /\ applied' = [applied EXCEPT ![v] = @ + 1]
    /\ UNCHANGED recorded

\* The contents and the record commit together.  Another process that got
\* there first makes the contents (CREATE TABLE, CREATE INDEX, ADD COLUMN) or the
\* primary key fail.
Committed(v, sum) ==
    /\ recorded[v] = "absent"
    /\ recorded' = [recorded EXCEPT ![v] = sum]
    /\ applied' = [applied EXCEPT ![v] = @ + 1]

applyMigration(o) ==
    /\ opener[o].pc = "apply"
    /\ LET v == opener[o].version
           b == opener[o].build
       IN \/ /\ Committed(v, ChecksumOf[b][v])
             /\ active' = Reconciled(v)
             /\ Moves(o, IF v = Supports[b] THEN "open" ELSE "look", v + 1)
          \/ /\ Moves(o, "refused", v)          \* an error rolls all of it back
             /\ UNCHANGED <<recorded, applied, active>>
    /\ UNCHANGED legacy

\* A process dies, or is started again, at any point.
openerRestarts(o) ==
    /\ opener[o].pc # "start"
    /\ Moves(o, "start", 0)
    /\ UNCHANGED <<recorded, applied, active, legacy>>

MigrationNext ==
    \E o \in Opener :
       \/ readNewest(o)
       \/ checkVersion(o)
       \/ applyMigration(o)
       \/ openerRestarts(o)

MigrationSpec == MigrationInit /\ [][MigrationNext]_migrationVars

(***************************************************************************)
(* Claims                                                                  *)
(***************************************************************************)
\* However processes, builds, failures and restarts interleave: a migration is
\* committed once and never without its record, in the order of the versions;
\* and a process that has opened the database finds every version it knows,
\* with the contents it knows.
MigratedOnce ==
    /\ \A v \in Version : applied[v] = (IF recorded[v] = "absent" THEN 0 ELSE 1)
    /\ \A v, w \in Version : v < w /\ recorded[w] # "absent" => recorded[v] # "absent"
    /\ \A o \in Opener :
          opener[o].pc = "open" =>
             \A v \in 1..Supports[opener[o].build] :
                recorded[v] = ChecksumOf[opener[o].build][v]

\* Migration 2 leaves each device that had an active session exactly one, and
\* none of its other sessions started later.
NewestSessionKept ==
    recorded[VoiceIndex] # "absent" =>
       \A s \in legacy :
          \E k \in active :
             /\ DeviceOf[k] = DeviceOf[s]
             /\ StartedAt[k] >= StartedAt[s]
             /\ \A r \in active : DeviceOf[r] = DeviceOf[s] => r = k

\* Every version is applied once, and the rows it rewrites are the right ones.
MigrationsKeepData == MigratedOnce /\ NewestSessionKept
=============================================================================
