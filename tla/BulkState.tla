------------------------------ MODULE BulkState ------------------------------
(***************************************************************************)
(* What the three implementations of gfalt_copy_bulk share: the arguments  *)
(* of the call, its two results (op_error and the array file_errors), the  *)
(* number of failures, and the files at the destination.                   *)
(*                                                                         *)
(* Every source has the content "good".  Checksums do not collide: the     *)
(* checksum of a file is its content, and "good" is also the checksum the  *)
(* user gives for the right file.                                          *)
(***************************************************************************)
EXTENDS Integers, Sequences, FiniteSets

CONSTANTS
    MaxFiles,    \* bound on the number of pairs of a call
    Arguments    \* the entries of the array checksums to explore

\* Contents of a destination: what was there before, all of the source, as
\* many bytes but other ones, fewer bytes.
Contents == {"absent", "old", "good", "garbled", "short"}

\* What checksums[i] may be: NULL, the empty string, a value, and "type:value"
\* with a right value of at most eight characters or of more.
ArgumentKinds == {"null", "empty", "good", "bad", "typed", "wide"}

ASSUME BulkBoundsOK == MaxFiles \in Nat \ {0} /\ Arguments \subseteq ArgumentKinds

VARIABLES
    call,      \* the arguments and parameters of the call
    pc,        \* "returned", or "left" by a crash or a C++ exception
    i,         \* index of the loop over the pairs
    ferr,      \* codes of file_errors, "none" for NULL
    op_error,  \* code of *op_error, "none" for NULL
    nfailed,   \* failures counted so far
    ret,       \* result of the call
    dst,       \* content of every destination
    cancel     \* context->cancel; it stays up until the call is over

stateVars == <<call, pc, i, ferr, op_error, nfailed, ret, dst, cancel>>

Files == 1 .. call.n
Failed == {f \in Files : ferr[f] # "none"}

Final == {"returned", "left"}

\* A NULL array stands for an array of NULLs: the two differ only in the
\* plugins, which look at the array first.  Without a checksum mode an entry
\* is not looked at, save by GridFTP for being NULL.
Calls ==
    UNION {{c \in [n : {n},
                   plugin : {"gridftp", "xrootd", "none"},
                   mode : SUBSET {"SOURCE", "TARGET"},
                   replace : BOOLEAN,
                   cleanup : BOOLEAN,
                   checksums : BOOLEAN,
                   arg : [1 .. n -> Arguments \cup {"null"}],
                   was : [1 .. n -> {"absent", "old"}]] :
                /\ c.plugin # "xrootd" => c.cleanup
                /\ c.mode = {} => \A f \in 1 .. n : c.arg[f] \in {"null", "good"}
                /\ ~c.checksums => \A f \in 1 .. n : c.arg[f] = "null"} :
           n \in 1 .. MaxFiles}

StateInit ==
    /\ call \in Calls
    /\ pc = "enter"
    /\ i = 1
    /\ ferr = [f \in Files |-> "none"]
    /\ op_error = "none"
    /\ nfailed = 0
    /\ ret = 0
    /\ dst = call.was
    /\ cancel = FALSE

-----------------------------------------------------------------------------
\* The end of an iteration: on to the next pair, or out of the loop.
Advance(next) ==
    /\ i' = IF i < call.n THEN i + 1 ELSE 1
    /\ pc' = IF i < call.n THEN pc ELSE next
    /\ UNCHANGED <<call, op_error, ret, cancel>>

FileFails(code, next) ==
    /\ ferr' = [ferr EXCEPT ![i] = code]
    /\ nfailed' = nfailed + 1
    /\ Advance(next)

FileGoesOn(next) ==
    /\ UNCHANGED <<ferr, nfailed>>
    /\ Advance(next)

GoTo(next) ==
    /\ pc' = next
    /\ UNCHANGED <<call, i, ferr, op_error, nfailed, ret, cancel>>

\* A null pointer, or a CoreException that nobody catches.
Leave ==
    /\ GoTo("left")
    /\ UNCHANGED dst

Return(r, code) ==
    /\ pc' = "returned"
    /\ ret' = r
    /\ op_error' = code
    /\ UNCHANGED <<call, i, ferr, nfailed, cancel>>

Write(content) == dst' = [dst EXCEPT ![i] = content]

\* A file may be created at the destination: there is none, or it may be
\* replaced.
MayCreate == dst[i] = "absent" \/ call.replace
=============================================================================
