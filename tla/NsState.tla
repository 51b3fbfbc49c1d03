------------------------------- MODULE NsState ------------------------------
(***************************************************************************)
(* The name space of a storage server as the plugins meet it, and another  *)
(* process that changes it between their requests.  The server is not part *)
(* of gfal2: what it answers is taken from how the plugins read it.        *)
(***************************************************************************)
EXTENDS Integers, Sequences, SequencesExt, FiniteSetsExt

CONSTANTS
    Paths,       \* everything that may exist below the root
    Root,        \* always there
    Parent,      \* of a path
    FirstTree,   \* of a part: what may be there at the start
    Contested,   \* of a part: the paths the other process is at
    MaxMeddling  \* bound: of a part, changes by the other process

VARIABLES
    plugin,   \* the part of the library that is at work
    tree,     \* of a path: "absent", "dir", "file", "private" (a file, other mode)
    meddling  \* changes made by the other process

server == <<tree, meddling>>

Kinds == {"absent", "dir", "file", "private"}

NsInit ==
    /\ tree \in FirstTree[plugin]
    /\ meddling = 0

\* What is picked for a part that is at work; for the others it does not matter.
PickFor(part, S) == IF plugin = part THEN S ELSE {CHOOSE c \in S : TRUE}

Exists(p) == p = Root \/ tree[p] # "absent"
IsDir(p) == p = Root \/ tree[p] = "dir"
IsFile(p) == Exists(p) /\ ~IsDir(p)
Content(p) == {q \in Paths : Parent[q] = p /\ Exists(q)}

With(p, kind) == [tree EXCEPT ![p] = kind]
Without(p) == With(p, "absent")

\* What the server says to a request on p.
MkdirCode(p) ==
    IF Exists(p) THEN "EEXIST"
    ELSE IF ~Exists(Parent[p]) THEN "ENOENT"
    ELSE IF ~IsDir(Parent[p]) THEN "ENOTDIR" ELSE "OK"

RmdirCode(p) ==
    IF ~Exists(p) THEN "ENOENT"
    ELSE IF ~IsDir(p) THEN "ENOTDIR"
    ELSE IF Content(p) # {} THEN "ENOTEMPTY" ELSE "OK"

RmCode(p) ==
    IF ~Exists(p) THEN "ENOENT" ELSE IF IsDir(p) THEN "EINVAL" ELSE "OK"

RenameCode(p, q) ==
    IF ~Exists(p) \/ ~IsDir(Parent[q]) THEN "ENOENT"
    ELSE IF Exists(q) THEN "EEXIST" ELSE "OK"

\* A request may also be lost, or its answer: then it was carried out.
Answers(code, after) ==
    LET done == IF code = "OK" THEN after ELSE tree
    IN  {[code |-> code, tree |-> done],
         [code |-> "ECOMM", tree |-> tree],
         [code |-> "ECOMM", tree |-> done]}

\* What is below p goes with it, to where no name of Paths is.
Renamed(p, q) ==
    [r \in Paths |-> IF r = q THEN tree[p]
                     ELSE IF r = p \/ Parent[r] = p THEN "absent" ELSE tree[r]]

\* The other process makes or removes a directory or a file.
Meddled(p) ==
    {With(p, k) : k \in IF Exists(p) \/ ~IsDir(Parent[p]) THEN {} ELSE {"dir", "file"}}
        \cup (IF Exists(p) /\ Content(p) = {} THEN {Without(p)} ELSE {})

Meddle(p) ==
    /\ meddling < MaxMeddling[plugin]
    /\ meddling' = meddling + 1
    /\ tree' \in Meddled(p)
=============================================================================
