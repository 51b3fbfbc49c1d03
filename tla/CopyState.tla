----------------------------- MODULE CopyState ------------------------------
(***************************************************************************)
(* What the copies of the GridFTP, HTTP and SRM plugins share: the         *)
(* parameters, the error, the destination and another process that works   *)
(* on it.                                                                  *)
(*                                                                         *)
(* Every request to a server is a step that may fail.  Checksums do not    *)
(* collide: the checksum of a file is its content.  The events sent to the *)
(* application are left out.                                               *)
(***************************************************************************)
EXTENDS Naturals

CONSTANTS
    Plugins,       \* the plugins whose copies to explore
    MaxMeddling,   \* bound on what another process does to the destination
    StrictModes    \* values of gfalt_get_strict_copy_mode to explore

ASSUME PluginsOK == Plugins \subseteq {"gridftp", "http", "srm"}
ASSUME BoundsOK == MaxMeddling \in Nat /\ StrictModes \subseteq BOOLEAN

\* Contents of the destination.  The last three were written by this copy:
\* all of the source, something else, a part of it.
Contents == {"absent", "old", "foreign", "source", "garbled", "partial"}
Mine == {"source", "garbled", "partial"}

VARIABLES
    par,       \* the parameters of the copy
    opt,       \* the options and URLs its plugin looks at
    pc,        \* "done", or "crashed" where the code follows a null pointer
    err,       \* code of the error, "none" while there is none
    sum,       \* the checksum of the source, "none" for an empty string
    parent,    \* the parent directory of the destination exists
    dst,       \* content of the destination
    meddled,   \* steps the other process has taken
    clobbered, \* history: the copy overwrote or deleted a file it did not
               \* create
    unclean    \* history: the destination was to be deleted, in vain

copyVars == <<par, opt, pc, err, sum, parent, dst, meddled, clobbered, unclean>>

Final == {"done", "crashed"}

Modes == {{}, {"SOURCE"}, {"TARGET"}, {"SOURCE", "TARGET"}}

\* A mode with one side only needs a value (gfalt_set_checksum).  GridFTP
\* does not look at the clean-up option.
Params ==
    {p \in [plugin : Plugins, strict : StrictModes, replace : BOOLEAN,
            create_parent : BOOLEAN, cleanup : BOOLEAN, mode : Modes,
            user : {"none", "source", "wrong"}] :
        /\ p.mode \in {{"SOURCE"}, {"TARGET"}} => p.user # "none"
        /\ p.plugin = "gridftp" => p.cleanup}

CopyInit ==
    /\ par \in Params
    /\ pc = "start"
    /\ err = "none"
    /\ sum = "none"
    /\ parent \in BOOLEAN
    /\ dst \in {"absent", "old"}
    /\ dst = "old" => parent
    /\ meddled = 0
    /\ clobbered = FALSE
    /\ unclean = FALSE

GoTo(next) ==
    /\ pc' = next
    /\ UNCHANGED err

Stop(code) ==
    /\ pc' = "done"
    /\ err' = code

NotMine == dst \in {"old", "foreign"}

\* The destination gets another content.
Overwrite(content) ==
    /\ dst' = content
    /\ clobbered' = (clobbered \/ NotMine)

\* A server is asked to delete the destination and the answer is ignored.
TryDelete ==
    \/ Overwrite("absent") /\ UNCHANGED unclean
    \/ unclean' = TRUE /\ UNCHANGED <<dst, clobbered>>

\* Another process creates, replaces or deletes the destination.
Meddle ==
    /\ pc \notin Final
    /\ meddled < MaxMeddling
    /\ meddled' = meddled + 1
    /\ parent
    /\ dst' \in {"absent", "foreign"} \ {dst}
    /\ UNCHANGED <<par, opt, pc, err, sum, parent, clobbered, unclean>>
=============================================================================
