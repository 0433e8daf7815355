--------------------------- MODULE WorkspaceEdits ---------------------------
(***************************************************************************)
(* The changing operations of the workspace tool (tools/filesystem): each  *)
(* looks at its target, checks the preconditions the caller stated, and    *)
(* then renames or removes. Look and change are separate system calls, and *)
(* no lock is held between them, so two executions may interleave.         *)
(***************************************************************************)
EXTENDS Naturals, Sequences, SequencesExt

CONSTANTS
    Editor,        \* concurrent executions
    File,          \* paths below one workspace root
    Word,          \* a text is a sequence of words
    EditRequests,  \* the requests of the instance
    MaxEdits       \* bound on the requests of one editor

VARIABLES
    files,    \* path -> what is there
    editor,   \* execution -> where it stands, its input and what it has read
    edits     \* execution -> requests started

editVars == <<files, editor, edits>>

None    == <<"none">>        \* no expected_sha256 was given
Missing == [kind |-> "absent", text |-> <<>>]
Regular(text) == [kind |-> "file", text |-> text]

Text == Seq(Word)

\* Hashes are compared only for equality, so a text stands for its hash.
\* validateOperationFields: an operation carries its own fields and no other.
ExpectedField == {None} \cup Text

ParseAndValidate(input) ==
    \/ input \in [op : {"write"}, path : File, content : Text, expected : ExpectedField,
                  mustNotExist : BOOLEAN, dryRun : BOOLEAN]
    \/ /\ input \in [op : {"patch"}, path : File, expected : ExpectedField, dryRun : BOOLEAN,
                     patches : Seq([old : Word, new : Word, count : Nat \ {0}])]
       /\ input.patches # <<>>
    \/ input \in [op : {"move"}, path : File, destination : File, expected : ExpectedField,
                  overwrite : BOOLEAN, dryRun : BOOLEAN]
    \/ input \in [op : {"delete"}, path : File, expected : ExpectedField, recursive : BOOLEAN,
                  dryRun : BOOLEAN]

ASSUME EditAssumption == MaxEdits \in Nat /\ \A input \in EditRequests : ParseAndValidate(input)

Idle == [pc |-> "idle"]

EditInit ==
    /\ files \in [File -> {Missing, Regular(<<>>), [kind |-> "dir", text |-> <<>>]}
                              \cup {Regular(<<w>>) : w \in Word}]
    /\ editor = [x \in Editor |-> Idle] /\ edits = [x \in Editor |-> 0]

-----------------------------------------------------------------------------
\* touched: paths another execution has changed since this one looked.
editRequested(x, input) ==
    /\ editor[x] = Idle /\ edits[x] < MaxEdits
    /\ editor' = [editor EXCEPT ![x] =
                    [pc |-> "look", input |-> input, seen |-> Missing, next |-> <<>>, touched |-> {}]]
    /\ edits' = [edits EXCEPT ![x] = @ + 1]
    /\ UNCHANGED files

\* An error before the change, or the cancelled context seen on the way: only
\* the temporary file is cleaned up.
editFails(x) ==
    /\ editor[x] # Idle
    /\ editor' = [editor EXCEPT ![x] = Idle]
    /\ UNCHANGED <<files, edits>>

Occurrences(text, word) == Len(SelectSeq(text, LAMBDA w : w = word))

Replaced(text, edit) == [i \in DOMAIN text |-> IF text[i] = edit.old THEN edit.new ELSE text[i]]

\* Every edit of a patch counts its text in what the edits before it left.
PatchLeaves(text, patches) ==
    LET steps[i \in 0..Len(patches)] == IF i = 0 THEN text ELSE Replaced(steps[i - 1], patches[i])
    IN  steps

PatchApplies(text, patches) ==
    \A i \in DOMAIN patches :
        Occurrences(PatchLeaves(text, patches)[i - 1], patches[i].old) = patches[i].count

Patched(text, patches) == PatchLeaves(text, patches)[Len(patches)]

checkExpectedIfPresent(seen, input) ==
    /\ input.mustNotExist => seen.kind = "absent"
    /\ input.expected # None => seen.kind = "absent" \/ seen.text = input.expected

checkExpected(seen, input) ==
    /\ input.mustNotExist => seen.kind = "absent"
    /\ input.expected # None => seen.kind = "file" /\ seen.text = input.expected

Looked(x, next, text) ==
    /\ editor' = [editor EXCEPT ![x].pc = next, ![x].seen = files[editor[x].input.path],
                                ![x].next = text]
    /\ UNCHANGED <<files, edits>>

\* existingHash refuses what is neither absent nor a regular file.
writeLooks(x) ==
    LET input == editor[x].input  seen == files[input.path] IN
    /\ editor[x].pc = "look" /\ input.op = "write"
    /\ seen.kind \in {"absent", "file"} /\ checkExpected(seen, input)
    /\ Looked(x, IF input.dryRun THEN "plan" ELSE "change", input.content)

patchLooks(x) ==
    LET input == editor[x].input  seen == files[input.path] IN
    /\ editor[x].pc = "look" /\ input.op = "patch"
    /\ seen.kind = "file" /\ input.expected \in {None, seen.text}
    /\ PatchApplies(seen.text, input.patches)
    /\ Looked(x, IF input.dryRun THEN "plan" ELSE "change", Patched(seen.text, input.patches))

\* Only a regular file has a hash; a directory has none that could be expected.
HashAsExpected(seen, input) == input.expected # None => seen.kind = "file" /\ seen.text = input.expected

moveLooks(x) ==
    LET input == editor[x].input  seen == files[input.path] IN
    /\ editor[x].pc = "look" /\ input.op = "move"
    /\ seen.kind # "absent"
    /\ Looked(x, "destination", seen.text)

moveChecks(x) ==
    LET input == editor[x].input  there == files[input.destination] IN
    /\ editor[x].pc = "destination"
    /\ there.kind = "absent" \/ (input.overwrite /\ there.kind # "dir")
    /\ HashAsExpected(editor[x].seen, input)
    /\ editor' = [editor EXCEPT ![x].pc = IF input.dryRun THEN "plan" ELSE "change"]
    /\ UNCHANGED <<files, edits>>

deleteLooks(x) ==
    LET input == editor[x].input  seen == files[input.path] IN
    /\ editor[x].pc = "look" /\ input.op = "delete"
    /\ seen.kind # "absent" /\ HashAsExpected(seen, input)
    /\ input.recursive => seen.kind = "dir"
    /\ Looked(x, IF input.dryRun THEN "plan" ELSE "change", <<>>)

\* A dry run reports what it would do.
editPlans(x) ==
    /\ editor[x].pc = "plan"
    /\ editor' = [editor EXCEPT ![x] = Idle]
    /\ UNCHANGED <<files, edits>>

Targets(input) == {input.path} \cup IF input.op = "move" THEN {input.destination} ELSE {}

\* A rename onto a directory fails, except that of a directory onto an empty one.
Renames(from, to) == from.kind # "absent" /\ (to.kind = "dir" => from.kind = "dir")

\* atomicWrite renames the temporary file over whatever has the name by now;
\* move renames what has the source's name by now; delete removes what it finds.
AfterChange(input, next) ==
    CASE input.op \in {"write", "patch"} -> [files EXCEPT ![input.path] = Regular(next)]
      [] input.op = "move"   -> [files EXCEPT ![input.path] = Missing, ![input.destination] = files[input.path]]
      [] input.op = "delete" -> [files EXCEPT ![input.path] = Missing]

Changeable(input, next) ==
    CASE input.op \in {"write", "patch"} -> Renames(Regular(next), files[input.path])
      [] input.op = "move"   -> Renames(files[input.path], files[input.destination])
      [] input.op = "delete" -> files[input.path].kind # "absent"

editChanges(x) ==
    LET input == editor[x].input IN
    /\ editor[x].pc = "change" /\ Changeable(input, editor[x].next)
    /\ files' = AfterChange(input, editor[x].next)
    /\ editor' = [y \in Editor |->
                    IF y = x \/ editor[y] = Idle THEN Idle
                    ELSE [editor[y] EXCEPT !.touched = @ \cup IF editor[y].pc = "look" THEN {} ELSE Targets(input)]]
    /\ UNCHANGED edits

EditNext ==
    \E x \in Editor :
        \/ \E input \in EditRequests : editRequested(x, input)
        \/ editFails(x) \/ writeLooks(x) \/ patchLooks(x) \/ moveLooks(x) \/ moveChecks(x)
        \/ deleteLooks(x) \/ editPlans(x) \/ editChanges(x)

EditSpec == EditInit /\ [][EditNext]_editVars

-----------------------------------------------------------------------------
\* What the caller was promised of the change an execution is about to make.
PreconditionsHold(input) ==
    /\ ~input.dryRun
    /\ input.expected # None => files[input.path] = Regular(input.expected)
    /\ input.op = "write" /\ input.mustNotExist => files[input.path] = Missing
    /\ input.op = "move" /\ ~input.overwrite => files[input.destination] = Missing
    /\ input.op = "patch" => PatchApplies(files[input.path].text, input.patches)

\* "Expected-hash preconditions, exact patches, dry-run plans": when a file
\* changes and no other execution changed a path of that request since it looked,
\* the stated preconditions hold of what is replaced, at the moment of the change.
\* The exception is real: look and rename are two system calls without a lock.
ChangesAsPromised ==
    [][\A x \in Editor :
          files' # files /\ editor[x].pc = "change" /\ editor'[x] = Idle
          /\ editor[x].touched \cap Targets(editor[x].input) = {}
             => PreconditionsHold(editor[x].input)]_editVars
=============================================================================
