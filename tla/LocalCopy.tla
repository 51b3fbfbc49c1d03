------------------------------ MODULE LocalCopy -----------------------------
(***************************************************************************)
(* A copy streamed through the client: perform_local_copy and              *)
(* streamed_copy (src/core/transfer/gfal_transfer_localcopy.c).            *)
(*                                                                         *)
(* One copy runs.  Each plugin call is a step and may fail.  Around it the *)
(* clock advances, gfal2_cancel may raise the context's flag (the calls    *)
(* that open a cancel scope of their own, gfal2_stat, gfal2_unlink,        *)
(* gfal2_mkdir_rec and gfal2_checksum, then refuse to run), a write may be *)
(* short, and another process may create or delete the destination.        *)
(*                                                                         *)
(* The events sent to the application's listeners are left out.            *)
(*                                                                         *)
(* A file is a sequence of chunks.  The checksum of a file is its content: *)
(* the model assumes that checksums do not collide.                        *)
(***************************************************************************)
EXTENDS Integers, Sequences

CONSTANTS
    SrcLen,        \* chunks of the source file
    OldLen,        \* chunks of a destination file that is already there
    MaxLen,        \* bound on the recorded length of the destination
    Timeout,       \* ticks gfalt_get_timeout allows
    MaxMeddling,   \* bound on what another process does to the destination
    StrictModes    \* values of gfalt_get_strict_copy_mode to explore

ASSUME SizesOK ==
    /\ SrcLen \in Nat /\ OldLen \in Nat /\ MaxLen \in Nat
    /\ SrcLen <= MaxLen /\ OldLen <= MaxLen
ASSUME TimeoutOK == Timeout \in Nat
ASSUME MeddlingOK == MaxMeddling \in Nat
ASSUME StrictModesOK == StrictModes \subseteq BOOLEAN

Old == 0       \* a chunk of a file that was there before
Torn == -1     \* a chunk of which only a part was written
Foreign == -2  \* a chunk another process wrote

Src == [i \in 1 .. SrcLen |-> i]

\* Checksums.  NoSum stands for the empty string.
NoSum == <<-3>>
WrongSum == <<-4>>

\* A file is "mine" if the copy created it, "held" if the handle the copy writes
\* through refers to it.
NoFile == [exists |-> FALSE, special |-> FALSE, mine |-> FALSE, held |-> FALSE,
           data |-> <<>>]
OldFile(special) ==
    [exists |-> TRUE, special |-> special, mine |-> FALSE, held |-> FALSE,
     data |-> [i \in 1 .. OldLen |-> Old]]
ForeignFile ==
    [exists |-> TRUE, special |-> FALSE, mine |-> FALSE, held |-> FALSE,
     data |-> <<Foreign>>]

VARIABLES
    par,        \* the gfalt_params_t of the copy
    endless,    \* the source never reports its end (a pipe, a device)
    pc,
    err,        \* code of the error, "none" while there is none
    parent,     \* the parent directory of the destination exists
    dst,        \* the destination
    read,       \* chunks read from the source
    cursor,     \* chunks written to the destination
    got,        \* outcome of the last read: "data", "eof" or "error"
    open,       \* file handles that are open
    source_checksum,
    canceled,   \* context->cancel
    clock,
    meddled,    \* steps the other process has taken
    torn,       \* history: a write was short
    clobbered   \* history: a file the copy did not create was modified or
                \* deleted by it

vars == <<par, endless, pc, err, parent, dst, read, cursor, got, open,
          source_checksum, canceled, clock, meddled, torn, clobbered>>

input == <<par, endless>>
fileVars == <<parent, dst, read, cursor, got, open, torn, clobbered>>
envVars == <<canceled, clock, meddled>>

Modes == {"none", "source", "target", "both"}

\* gfalt_set_checksum refuses "source" and "target" without a value.
Params ==
    {p \in [strict : StrictModes, replace : BOOLEAN, parent_dir_create : BOOLEAN,
            mode : Modes, checksum : {NoSum, Src, WrongSum}] :
        p.mode \in {"source", "target"} => p.checksum # NoSum}

\* In strict mode the checksum configuration is not even read.
checksum_mode == IF par.strict THEN "none" ELSE par.mode
user_checksum == IF par.strict THEN NoSum ELSE par.checksum

Init ==
    /\ par \in Params
    /\ endless \in BOOLEAN
    /\ pc = "start"
    /\ err = "none"
    /\ dst \in {NoFile, OldFile(FALSE), OldFile(TRUE)}
    /\ parent \in BOOLEAN
    /\ dst.exists => parent
    /\ read = 0 /\ cursor = 0 /\ got = "data"
    /\ open = {}
    /\ source_checksum = NoSum
    /\ canceled = FALSE
    /\ clock = 0
    /\ meddled = 0
    /\ torn = FALSE
    /\ clobbered = FALSE

-----------------------------------------------------------------------------
Fail(code) ==
    /\ err' = code
    /\ pc' = "done"

GoTo(next) ==
    /\ pc' = next
    /\ UNCHANGED err

\* An operation with a cancel scope of its own, and any call of a plugin,
\* may fail; once the flag is up the former always does.
ScopedFails == \E code \in {"ECANCELED", "EIO"} :
                  /\ code = "ECANCELED" <=> canceled
                  /\ Fail(code)

-----------------------------------------------------------------------------
(* perform_local_copy: before the transfer                                 *)

\* The source checksum, and the user's against it.
SourceChecksum ==
    /\ pc = "start"
    /\ IF checksum_mode \in {"source", "both"}
       THEN \/ ScopedFails /\ UNCHANGED source_checksum
            \/ /\ ~canceled
               /\ source_checksum' = Src
               /\ IF user_checksum # NoSum /\ user_checksum # Src
                  THEN Fail("EMISMATCH")
                  ELSE GoTo("parent")
       ELSE GoTo("parent") /\ UNCHANGED source_checksum
    /\ UNCHANGED <<input, fileVars, envVars>>

\* create_parent: the look at the parent directory.
StatParent ==
    /\ pc = "parent"
    /\ IF ~par.strict /\ par.parent_dir_create
       THEN \/ ScopedFails
            \/ ~canceled /\ parent /\ GoTo("stat")
            \/ ~canceled /\ ~parent /\ GoTo("mkdir")
       ELSE GoTo("stat")
    /\ UNCHANGED <<input, fileVars, source_checksum, envVars>>

\* create_parent: gfal2_mkdir_rec.
MakeParent ==
    /\ pc = "mkdir"
    /\ \/ ScopedFails /\ UNCHANGED parent
       \/ ~canceled /\ GoTo("stat") /\ parent' = TRUE
    /\ UNCHANGED <<input, dst, read, cursor, got, open, torn, clobbered,
                   source_checksum, envVars>>

\* The test for a regular file, inverted.
ExistingSpecial == dst.exists /\ dst.special

\* A regular file is at the destination.
ExistingFile == dst.exists /\ ~dst.special

\* unlink_if_exists: the look at the destination.
StatDestination ==
    /\ pc = "stat"
    /\ \/ par.strict /\ GoTo("open source")
       \/ ~par.strict /\ ScopedFails
       \/ /\ ~par.strict /\ ~canceled
          /\ \/ ~ExistingFile /\ GoTo("open source")
             \/ ExistingFile /\ par.replace /\ GoTo("unlink")
             \/ ExistingFile /\ ~par.replace /\ Fail("EEXIST")
    /\ UNCHANGED <<input, fileVars, source_checksum, envVars>>

\* A replace that trusts the open to overwrite the file.
UnlinkSkipped ==
    /\ pc = "unlink"
    /\ GoTo("open source")
    /\ UNCHANGED <<input, fileVars, source_checksum, envVars>>

\* unlink_if_exists: the removal; a destination that is gone by now is fine.
UnlinkDestination ==
    /\ pc = "unlink"
    /\ \/ ScopedFails /\ UNCHANGED <<dst, clobbered>>
       \/ /\ ~canceled
          /\ GoTo("open source")
          /\ dst' = NoFile
          /\ clobbered' = (clobbered \/ dst.exists)
    /\ UNCHANGED <<input, parent, read, cursor, got, open, torn,
                   source_checksum, envVars>>

-----------------------------------------------------------------------------
(* streamed_copy                                                           *)

OpenSource ==
    /\ pc = "open source"
    /\ \/ Fail("EIO") /\ UNCHANGED open
       \/ GoTo("open destination") /\ open' = open \cup {"source"}
    /\ UNCHANGED <<input, parent, dst, read, cursor, got, torn, clobbered,
                   source_checksum, envVars>>

\* O_WRONLY | O_CREAT: neither O_EXCL nor O_TRUNC.  When it fails the source
\* is closed.
OpenDestination ==
    /\ pc = "open destination"
    /\ \/ /\ Fail("EIO")
          /\ open' = open \ {"source"}
          /\ UNCHANGED dst
       \/ /\ parent
          /\ GoTo("copy")
          /\ dst' = IF dst.exists THEN [dst EXCEPT !.held = TRUE]
                    ELSE [NoFile EXCEPT !.exists = TRUE, !.mine = TRUE, !.held = TRUE]
          /\ open' = open \cup {"destination"}
    /\ UNCHANGED <<input, parent, read, cursor, got, torn, clobbered,
                   source_checksum, envVars>>

\* The destination after chunk v was written at the cursor.  A file that was
\* deleted under the open handle stays deleted, one that was put in its place is
\* not written to; a special file keeps nothing.
Written(v) ==
    IF ~dst.held \/ dst.special \/ cursor >= MaxLen THEN dst
    ELSE [dst EXCEPT !.data =
             [i \in 1 .. (IF Len(@) > cursor THEN Len(@) ELSE cursor + 1) |->
                 IF i = cursor + 1 THEN v ELSE @[i]]]

Expired == clock >= Timeout

\* readG returns 0.
AtEnd == ~endless /\ read = SrcLen

\* One round of the loop: read a chunk, write it.  What writeG returns is not
\* looked at, so a short write passes for a full one.
CopyChunk ==
    /\ pc = "copy"
    /\ \/ /\ got' = "error" /\ err' = "EIO"
          /\ UNCHANGED <<dst, read, cursor, torn, clobbered>>
       \/ /\ AtEnd
          /\ got' = "eof"
          /\ UNCHANGED <<err, dst, read, cursor, torn, clobbered>>
       \/ /\ ~AtEnd
          /\ got' = "data"
          /\ read' = IF endless THEN read ELSE read + 1
          /\ \/ err' = "EIO" /\ UNCHANGED <<dst, cursor, torn, clobbered>>
             \/ /\ UNCHANGED err
                /\ \/ dst' = Written(read + 1) /\ UNCHANGED torn
                   \/ dst' = Written(Torn) /\ torn' = TRUE
                /\ cursor' = IF cursor < MaxLen THEN cursor + 1 ELSE cursor
                /\ clobbered' =
                      (clobbered \/ (dst.held /\ ~dst.mine /\ ~dst.special))
    /\ pc' = "check"
    /\ UNCHANGED <<input, parent, open, source_checksum, envVars>>

\* The end of a round that has no time limit.
CheckRoundTimeless ==
    /\ pc = "check"
    /\ err' = IF err # "none" THEN err
              ELSE IF canceled THEN "ECANCELED" ELSE "none"
    /\ pc' = IF got = "data" /\ err' = "none" THEN "copy" ELSE "close"
    /\ UNCHANGED <<input, fileVars, source_checksum, envVars>>

\* The end of a round, also of the one that met the end of the file:
\* cancelled, else out of time.
CheckRound ==
    /\ pc = "check"
    /\ err' = IF err # "none" THEN err
              ELSE IF canceled THEN "ECANCELED"
              ELSE IF Expired THEN "ETIMEDOUT" ELSE "none"
    /\ pc' = IF got = "data" /\ err' = "none" THEN "copy" ELSE "close"
    /\ UNCHANGED <<input, fileVars, source_checksum, envVars>>

\* Both handles are closed; a close that fails is the error of the copy
\* unless there is one already.
CloseFiles ==
    /\ pc = "close"
    /\ open' = {}
    /\ \/ err = "none" /\ GoTo("verify")
       \/ Fail(IF err = "none" THEN "EIO" ELSE err)
    /\ UNCHANGED <<input, parent, dst, read, cursor, got, torn, clobbered,
                   source_checksum, envVars>>

-----------------------------------------------------------------------------
(* perform_local_copy: after the transfer                                  *)

compare_against == IF user_checksum # NoSum THEN user_checksum ELSE source_checksum

\* The destination checksum against the user's or the source's.
TargetChecksum ==
    /\ pc = "verify"
    /\ IF checksum_mode \in {"target", "both"}
       THEN \/ ScopedFails
            \/ /\ ~canceled
               /\ dst.exists
               /\ IF dst.data = compare_against
                  THEN GoTo("done") ELSE Fail("EMISMATCH")
       ELSE GoTo("done")
    /\ UNCHANGED <<input, fileVars, source_checksum, envVars>>

-----------------------------------------------------------------------------
(* The surroundings                                                        *)

\* gfal2_cancel on the context: the flag stays up until the copy is over.
CancelCopy ==
    /\ pc # "done"
    /\ ~canceled
    /\ canceled' = TRUE
    /\ UNCHANGED <<input, pc, err, fileVars, source_checksum, clock, meddled>>

\* time(NULL) moves on.
Tick ==
    /\ pc # "done"
    /\ clock < Timeout
    /\ clock' = clock + 1
    /\ UNCHANGED <<input, pc, err, fileVars, source_checksum, canceled, meddled>>

\* Another process creates the destination, or deletes it.
Meddle ==
    /\ pc # "done"
    /\ meddled < MaxMeddling
    /\ meddled' = meddled + 1
    /\ IF dst.exists THEN dst' = NoFile ELSE parent /\ dst' = ForeignFile
    /\ UNCHANGED <<input, pc, err, parent, read, cursor, got, open, torn, clobbered,
                   source_checksum, canceled, clock>>

-----------------------------------------------------------------------------
CopyStep ==
    \/ SourceChecksum \/ StatParent \/ MakeParent
    \/ StatDestination \/ UnlinkDestination
    \/ OpenSource \/ OpenDestination \/ CopyChunk \/ CheckRound \/ CloseFiles
    \/ TargetChecksum

Next == CopyStep \/ CancelCopy \/ Tick \/ Meddle

Spec == Init /\ [][Next]_vars

\* Every call of a plugin returns and time passes.
FairSpec == Spec /\ WF_vars(CopyStep) /\ WF_vars(Tick)

-----------------------------------------------------------------------------
(* Properties                                                              *)

Succeeded == pc = "done" /\ err = "none"

\* A copy that succeeds has made the destination equal to the source, also
\* over an older, longer file, of which nothing is left, if nobody else touched
\* the destination: verified end to end also after a short write, which the
\* copy does not notice; unverified if there was none.  (In strict mode the
\* copy does not look at the destination, and does not truncate it.)
CopyExact ==
    /\ Succeeded /\ ~par.strict /\ meddled = 0 /\ ~dst.special
    /\ ~torn \/ checksum_mode = "both"
    => dst.exists /\ dst.data = Src

\* The policy "replace or cancel; default : cancel": without replace a
\* file that was there before the copy is neither modified nor deleted, on
\* any path.  One that another process creates after the copy has looked is
\* not protected: the destination is opened without O_EXCL.
KeepExisting == ~par.replace /\ ~par.strict /\ meddled = 0 => ~clobbered

\* The copy ends, even when the source never does: the timeout is checked in
\* every round.
Terminates == <>(pc = "done")

-----------------------------------------------------------------------------
(* The inductive invariant behind the two safety properties                *)

Files == [exists : BOOLEAN, special : BOOLEAN, mine : BOOLEAN, held : BOOLEAN,
          data : Seq(Int)]

Codes == {"none", "ECANCELED", "EIO", "EMISMATCH", "EEXIST", "ETIMEDOUT"}

Before == {"start", "parent", "mkdir", "stat", "unlink", "open source",
           "open destination"}
Streaming == {"copy", "check", "close", "verify"}

TypeOK ==
    /\ par \in Params /\ endless \in BOOLEAN
    /\ pc \in Before \cup Streaming \cup {"done"}
    /\ err \in Codes
    /\ parent \in BOOLEAN
    /\ dst \in Files
    /\ read \in 0 .. SrcLen /\ cursor \in 0 .. MaxLen
    /\ got \in {"data", "eof", "error"}
    /\ open \subseteq {"source", "destination"}
    /\ source_checksum \in {NoSum, Src}
    /\ canceled \in BOOLEAN
    /\ clock \in 0 .. Timeout /\ meddled \in 0 .. MaxMeddling
    /\ torn \in BOOLEAN /\ clobbered \in BOOLEAN

\* The copy is past the opening of the destination and has not failed.
Streamed == pc \in Streaming \/ Succeeded

\* The copy writes without leaving a gap.
NoGap == dst.held /\ ~dst.special => cursor <= Len(dst.data)

\* What unlink_if_exists saw is still so when the destination is opened, if
\* nobody else touches it: what is written to is the copy's own file.
OwnDestination ==
    /\ pc = "unlink" => par.replace
    /\ ~par.strict /\ meddled = 0 =>
          /\ pc \in {"open source", "open destination"} => ~ExistingFile
          /\ Streamed => dst.exists /\ dst.held /\ (dst.mine \/ dst.special)

\* What has been written is what has been read, from the first chunk on.
PrefixWritten ==
    /\ pc \in Before => read = 0 /\ cursor = 0 /\ got = "data"
    /\ /\ Streamed /\ err = "none" /\ ~endless
       /\ ~par.strict /\ meddled = 0 /\ ~dst.special /\ ~torn
       => cursor = read /\ dst.data = [i \in 1 .. cursor |-> i]

\* A copy leaves the loop without an error only at the end of the source.
EndMet ==
    /\ got = "eof" => ~endless /\ read = SrcLen
    /\ got = "error" => err # "none"
    /\ pc \in {"close", "verify", "done"} /\ err = "none" => got = "eof"

\* A checksum of the source that is compared at the end is the source's, and
\* so is the user's, which has been compared with it.
SourceSummed ==
    pc # "start" /\ ~(pc = "done" /\ err # "none") /\ checksum_mode = "both" =>
        compare_against = Src

\* A destination that was compared has the source's checksum.
Compared ==
    Succeeded /\ checksum_mode = "both" => dst.exists /\ dst.data = Src

IInv ==
    /\ TypeOK /\ NoGap /\ OwnDestination /\ PrefixWritten /\ EndMet /\ SourceSummed
    /\ Compared /\ KeepExisting
=============================================================================
