------------------------------- MODULE MCHost -------------------------------
(***************************************************************************)
(* Core as a process on a computer: what its clients show of the store,    *)
(* what an administrator changes, who starts and stops it, and what it     *)
(* leaves on disk.  The components share no state but the hub of the two   *)
(* streams, so a behaviour is one of a single component, chosen at the     *)
(* start, and the others stay as they are.                                 *)
(***************************************************************************)
EXTENDS DesktopStream, DeviceChannel, SnapshotBounds, ControlPlane, ManagedCore, Migrations,
        DurableFiles, BuildTool, TLC

CONSTANTS s1, s2   \* interchangeable administrators and processes

VARIABLE focus

streams == <<hubVars, deskVars, phoneVars, snapVars>>
running == <<controlVars, managedVars>>
stored  == <<migrationVars, fileVars, buildVars>>

vars == <<focus, streams, running, stored>>

\* A component that is not looked at starts in one state.
Unless(name, start) == focus = name \/ start

Init ==
    /\ focus \in {"desktop", "phone", "snapshot", "control", "managed", "migration", "files", "build"}
    /\ HubInit /\ DeskInit /\ PhoneInit /\ ControlInit /\ BuildInit
    /\ SnapInit      /\ Unless("snapshot", turns = 0 /\ \A r \in Row : open[r])
    /\ ManagedInit   /\ Unless("managed", mode = "managed")
    /\ MigrationInit /\ Unless("migration", recorded[1] = "absent" /\ \A o \in Opener : opener[o].build = "new")
    /\ FileInit      /\ Unless("files", kind = "backup")

\* The desktop is shown the commits of one writer, the phone those of two.
Next ==
    /\ \/ /\ focus = "desktop" /\ DeskNext /\ posting'["w2"] = posting["w2"]
          /\ UNCHANGED <<phoneVars, snapVars, running, stored>>
       \/ focus = "phone" /\ PhoneNext /\ UNCHANGED <<deskVars, snapVars, running, stored>>
       \/ focus = "snapshot" /\ SnapNext /\ UNCHANGED <<hubVars, deskVars, phoneVars, running, stored>>
       \/ focus = "control" /\ ControlNext /\ UNCHANGED <<streams, managedVars, stored>>
       \/ focus = "managed" /\ ManagedNext /\ UNCHANGED <<streams, controlVars, stored>>
       \/ focus = "migration" /\ MigrationNext /\ UNCHANGED <<streams, running, fileVars, buildVars>>
       \/ focus = "files" /\ FileNext /\ UNCHANGED <<streams, running, migrationVars, buildVars>>
       \/ focus = "build" /\ BuildNext /\ UNCHANGED <<streams, running, migrationVars, fileVars>>
    /\ UNCHANGED focus

Spec == Init /\ [][Next]_vars

\* Both clients show the committed rows once their streams are quiet: what a
\* full buffer, a lost stream or an overtaken load dropped comes with the next
\* snapshot (internal/stream/hub.go and the two stream handlers).
ClientsShowStore == DesktopShowsStore /\ PhoneShowsStore

-----------------------------------------------------------------------------
(* Values                                                                  *)

BufferValue == [s \in {"desktop", "phone"} |-> 1]

ActionOfValue ==
    [q1 |-> [type |-> "kill_switch", id |-> "agent", enabled |-> TRUE],
     q2 |-> [type |-> "kill_switch", id |-> "slack", enabled |-> TRUE],
     q3 |-> [type |-> "other", id |-> "none", enabled |-> TRUE]]

SupportsValue == [old |-> 2, new |-> 3, edited |-> 3]

\* A build in which migration 2 was edited after it was released.
ChecksumOfValue ==
    [b \in {"old", "new", "edited"} |-> <<"c1", IF b = "edited" THEN "c2x" ELSE "c2", "c3", "c4">>]

DeviceOfValue  == <<"d", "d", "d", "e">>
StartedAtValue == <<1, 2, 2, 2>>

FilesOfValue == [dev |-> {"app", "map"}, r1 |-> {"app", "old"}, r2 |-> {"app"}]

Symmetry == Permutations({s1, s2})
=============================================================================
