------------------------------ MODULE MCEdges -------------------------------
(***************************************************************************)
(* Where Core meets what it does not control: agents, executables and the  *)
(* workspace, and the sources of events and of pairing claims.  The        *)
(* components share no state, so a behaviour is one of a single component, *)
(* chosen at the start, and the others stay as they are.                   *)
(***************************************************************************)
EXTENDS AgentAdapters, ShellLaunch, WorkspaceWalk, WorkspaceEdits, LocalEvents, WebhookReplay,
        PairingLimiter, TLC

CONSTANTS s1, s2, s3   \* interchangeable addresses

VARIABLE focus

effectVars == <<adapterVars, launchVars, walkVars, editVars>>
sourceVars == <<localVars, replayVars, limiterVars>>

vars == <<focus, effectVars, sourceVars>>

\* A component that is not looked at starts in one state.
Unless(name, start) == focus = name \/ start

Init ==
    /\ focus \in {"adapter", "launch", "walk", "edit", "local", "replay", "limiter"}
    /\ ReplayInit /\ LimiterInit
    /\ AdapterInit /\ Unless("adapter", adapter = "stdio" /\ polite)
    /\ LaunchInit  /\ Unless("launch", (\A p \in Path : content[p] = "x") /\ \A t \in ShellTask : shellTask[t] = NoTask)
    /\ WalkInit    /\ Unless("walk", request.op = "list" /\ request.recursive)
                   /\ Unless("walk", \A e \in Entry : tree[e].parent = 0 /\ tree[e].kind = "link")
    /\ EditInit    /\ Unless("edit", \A f \in File : files[f] = Missing)
    /\ LocalInit   /\ Unless("local", file = 0 /\ ~plugin.stopped)

Next ==
    /\ \/ focus = "adapter" /\ AdapterNext /\ UNCHANGED <<launchVars, walkVars, editVars, sourceVars>>
       \/ focus = "launch" /\ LaunchNext /\ UNCHANGED <<adapterVars, walkVars, editVars, sourceVars>>
       \/ focus = "walk" /\ WalkNext /\ UNCHANGED <<adapterVars, launchVars, editVars, sourceVars>>
       \/ focus = "edit" /\ EditNext /\ UNCHANGED <<adapterVars, launchVars, walkVars, sourceVars>>
       \/ focus = "local" /\ LocalNext /\ UNCHANGED <<effectVars, replayVars, limiterVars>>
       \/ focus = "replay" /\ ReplayNext /\ UNCHANGED <<effectVars, localVars, limiterVars>>
       \/ focus = "limiter" /\ LimiterNext /\ UNCHANGED <<effectVars, localVars, replayVars>>
    /\ UNCHANGED focus

Spec == Init /\ [][Next]_vars

-----------------------------------------------------------------------------
(* Values                                                                  *)

LinesValue == <<"event", "blank", "event", "bad", "event">>

\* "late" repeats the nonce of "first" under a signature of its own.
NonceOfValue == [first |-> "n1", late |-> "n1", other |-> "n2"]
StampOfValue == [first |-> 2, late |-> 4, other |-> 2]

Write(f, text, expected, mustNotExist, dryRun) ==
    [op |-> "write", path |-> f, content |-> text, expected |-> expected,
     mustNotExist |-> mustNotExist, dryRun |-> dryRun]

Patch(f, patches) ==
    [op |-> "patch", path |-> f, expected |-> None, patches |-> patches, dryRun |-> FALSE]

Move(f, g, expected, overwrite) ==
    [op |-> "move", path |-> f, destination |-> g, expected |-> expected,
     overwrite |-> overwrite, dryRun |-> FALSE]

Delete(f, expected, recursive) ==
    [op |-> "delete", path |-> f, expected |-> expected, recursive |-> recursive, dryRun |-> FALSE]

EditRequestsValue ==
    {Write("f", <<"a", "b">>, None, FALSE, FALSE),
     Write("f", <<"b">>, <<"a">>, FALSE, FALSE),
     Write("g", <<"a">>, None, TRUE, FALSE),
     Write("f", <<>>, None, FALSE, TRUE),
     Patch("f", <<[old |-> "a", new |-> "b", count |-> 1], [old |-> "b", new |-> "a", count |-> 2]>>),
     Move("f", "g", None, FALSE),
     Move("g", "f", <<"a">>, TRUE),
     Delete("f", <<"a">>, FALSE),
     Delete("g", None, TRUE)}

Symmetry == Permutations({s1, s2, s3})
=============================================================================
