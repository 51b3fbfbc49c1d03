------------------------------ MODULE MkdirRec ------------------------------
(***************************************************************************)
(* gfal2_mkdir_rec (src/core/file/gfal2_standard_file_operations.c) over a *)
(* plugin that has no recursive creation of its own (HTTP, SFTP, file): it *)
(* walks up until a directory can be made or is there, and then down       *)
(* again, while another process may create and remove the same             *)
(* directories.                                                            *)
(***************************************************************************)
EXTENDS NsState

CONSTANTS Targets  \* the directories asked for

VARIABLES
    step,    \* "idle", "first", "up", "down", "done"
    target,
    current, \* current_url
    stack,   \* stack_url
    result,  \* the code returned
    lost     \* ghost: a request was lost, or somebody removed a directory

mkdirRec == <<step, target, current, stack, result, lost>>

MkdirRecInit ==
    /\ step = "idle"
    /\ target \in PickFor("core", Targets)
    /\ current = target
    /\ stack = <<>>
    /\ result = "none"
    /\ lost = FALSE

\* gfal_plugin_mkdirp: one request.
Mkdirp(p, a) ==
    /\ a \in IF p = Root THEN {[code |-> "EEXIST", tree |-> tree]}
             ELSE Answers(MkdirCode(p), With(p, "dir"))
    /\ tree' = a.tree
    /\ lost' = (lost \/ a.code = "ECOMM")

Return(code) ==
    /\ step' = "done"
    /\ result' = code
    /\ UNCHANGED <<current, stack>>

Begin ==
    /\ step = "idle"
    /\ step' = "first"
    /\ UNCHANGED <<target, current, stack, result, lost, tree>>

\* The directory itself, with the flag for the parents, which the plugin
\* ignores.
TryTarget ==
    /\ step = "first"
    /\ \E a \in Answers(MkdirCode(target), With(target, "dir")) :
        /\ Mkdirp(target, a)
        /\ IF a.code = "ENOENT"
           THEN step' = "up" /\ UNCHANGED <<current, stack, result>>
           ELSE Return(IF a.code = "EEXIST" THEN "OK" ELSE a.code)
    /\ UNCHANGED target

\* A directory whose parent is missing goes on the stack, and the parent is
\* tried, up to one that could be made or that exists.
WalkUp ==
    /\ step = "up"
    /\ stack' = <<current>> \o stack
    /\ current' = Parent[current]
    /\ \E a \in IF current' = Root THEN {[code |-> "EEXIST", tree |-> tree]}
                ELSE Answers(MkdirCode(current'), With(current', "dir")) :
        /\ Mkdirp(current', a)
        /\ CASE a.code = "ENOENT" -> UNCHANGED <<step, result>>
             [] a.code \in {"OK", "EEXIST"} -> step' = "down" /\ UNCHANGED result
             [] OTHER -> step' = "done" /\ result' = a.code
    /\ UNCHANGED target

\* Mutant: every failure on the way down is taken for somebody else's success.
WalkDownAnyway ==
    /\ step = "down"
    /\ IF stack = <<>>
       THEN Return("OK") /\ UNCHANGED <<tree, lost>>
       ELSE \E a \in Answers(MkdirCode(Head(stack)), With(Head(stack), "dir")) :
            /\ Mkdirp(Head(stack), a)
            /\ stack' = Tail(stack)
            /\ UNCHANGED <<step, current, result>>
    /\ UNCHANGED target

\* The directories of the stack, outermost first; one that somebody else has
\* made in the meantime is as good.
WalkDown ==
    /\ step = "down"
    /\ IF stack = <<>>
       THEN Return("OK") /\ UNCHANGED <<tree, lost>>
       ELSE \E a \in Answers(MkdirCode(Head(stack)), With(Head(stack), "dir")) :
            /\ Mkdirp(Head(stack), a)
            /\ IF a.code \in {"OK", "EEXIST"}
               THEN stack' = Tail(stack) /\ UNCHANGED <<step, current, result>>
               ELSE Return(a.code)
    /\ UNCHANGED target

MkdirRecStep == Begin \/ TryTarget \/ WalkUp \/ WalkDown

\* Another process at work on the same directories
MkdirRecMeddle(p) ==
    /\ Meddle(p)
    /\ lost' = (lost \/ tree'[p] = "absent")
    /\ UNCHANGED <<step, target, current, stack, result>>

MkdirRecNext ==
    \/ MkdirRecStep /\ UNCHANGED meddling
    \/ \E p \in Contested["core"] : MkdirRecMeddle(p)

\* Two programs may create the same directories at the same time: unless a
\* request is lost or a directory is taken away, the call succeeds and the
\* directory is there, whoever made it, or a file is in the way.
MkdirRecDone ==
    step = "done" /\ ~lost =>
        \/ result = "OK" /\ Exists(target)
        \/ result # "OK" /\ \E p \in Paths : IsFile(p)

-----------------------------------------------------------------------------
(* The inductive invariant of MkdirRecDone.                                *)

ASSUME MkdirRecAssumption ==
    /\ Root \notin Paths
    /\ Parent \in [Paths -> Paths \cup {Root}]
    /\ FirstTree["core"] \subseteq [Paths -> Kinds]
    /\ Targets \subseteq Paths
    /\ Contested["core"] \subseteq Paths

MkdirRecTypeOK ==
    /\ tree \in [Paths -> Kinds]
    /\ step \in {"idle", "first", "up", "down", "done"}
    /\ target \in Paths
    /\ stack \in Seq(Paths)
    /\ lost \in BOOLEAN

\* The stack leads from below the current directory down to the target.
StackLeadsDown ==
    /\ \A i \in 1..(Len(stack) - 1) : Parent[stack[i + 1]] = stack[i]
    /\ stack # <<>> => stack[Len(stack)] = target

\* On the way up the first of the stack is what could not be made in the
\* current directory.
UpFromStack ==
    /\ step \in {"idle", "first"} => current = target /\ stack = <<>>
    /\ step = "up" =>
        /\ current \in Paths
        /\ IF stack = <<>> THEN current = target ELSE Parent[stack[1]] = current

\* On the way down what comes next has its parent.
ParentThere ==
    step = "down" /\ ~lost =>
        IF stack = <<>> THEN Exists(target) ELSE Exists(Parent[stack[1]])

MkdirRecInv ==
    IF plugin = "core"
    THEN MkdirRecTypeOK /\ StackLeadsDown /\ UpFromStack /\ ParentThere /\ MkdirRecDone
    ELSE step = "idle"
=============================================================================
