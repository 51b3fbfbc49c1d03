------------------------------ MODULE BulkCopy ------------------------------
(***************************************************************************)
(* gfalt_copy_bulk (src/core/transfer/gfal_transfer_filecopy.c): several   *)
(* files in one call, by the plugin that takes the first pair (GridFTP or  *)
(* XRootD) or, when none does, one after the other.  Another thread may    *)
(* cancel the context at any time.                                         *)
(***************************************************************************)
EXTENDS GridFtpBulk, XrootdBulk

VARIABLES
    checksum_type,   \* params->checksum_type: "type", or one character short
    checksum_value   \* params->checksum_value, "empty" for NULL and ""

paramVars == <<checksum_type, checksum_value>>
vars == <<stateVars, gridftpVars, status, paramVars>>

Init ==
    /\ StateInit
    /\ GridFtpInit
    /\ XrootdInit
    /\ checksum_type = "type"
    /\ checksum_value = "empty"

\* gfalt_copy_bulk, perform_bulk_copy: the scope of the call, the listeners,
\* the plugin.
Enter ==
    /\ pc = "enter"
    /\ \/ cancel /\ Return(-1, "ECANCELED")
       \/ ~cancel /\ call.plugin = "gridftp" /\ GoTo("setup")
       \/ ~cancel /\ call.plugin = "xrootd" /\ GoTo("jobs")
       \/ ~cancel /\ call.plugin = "none" /\ GoTo("fallback")
    /\ UNCHANGED <<dst, gridftpVars, status, paramVars>>

-----------------------------------------------------------------------------
(* bulk_fallback                                                           *)

\* Mutant: every pair gets the checksum of the first.
ValueOfFirst(f) ==
    CASE call.arg[1] \in {"null", "empty"} -> "empty"
      [] call.arg[1] = "bad" -> "bad"
      [] OTHER -> "good"

\* set_checksum: the value of the pair goes into the parameters of the call,
\* with its type when it has one: g_strlcpy is given the length of the type
\* and leaves out its last character.
Value(f) ==
    CASE call.arg[f] \in {"null", "empty"} -> "empty"
      [] call.arg[f] = "bad" -> "bad"
      [] OTHER -> "good"

SetChecksum ==
    /\ checksum_value' = Value(i)
    /\ checksum_type' = IF call.arg[i] \in {"typed", "wide"} THEN "typ" ELSE checksum_type

\* What a checksum mode makes of a copy that wrote c.  No server knows a type
\* that lost a character.
Passes(c) ==
    \/ call.mode = {}
    \/ /\ checksum_type' = "type"
       /\ "SOURCE" \in call.mode => checksum_value' \in {"empty", "good"}
       /\ "TARGET" \in call.mode =>
             c = IF checksum_value' = "empty" THEN "good" ELSE checksum_value'

\* perform_copy of one pair: copy_file of a plugin or the local copy.
PerformCopy ==
    \/ /\ MayCreate
       /\ \E c \in {"good", "garbled", "short"} : Passes(c) /\ Write(c)
       /\ FileGoesOn("copied")
    \/ ~MayCreate /\ FileFails("EEXIST", "copied") /\ UNCHANGED dst
    \/ /\ FileFails("EIO", "copied")
       /\ \/ UNCHANGED dst
          \/ MayCreate /\ \E c \in Contents \ {"old"} : Write(c)

\* One iteration of the loop.  gfalt_set_checksum wants a value when the mode
\* is for one side only.
FallbackPair ==
    /\ pc = "fallback"
    /\ IF Cardinality(call.mode) = 1 /\ Value(i) = "empty"
       THEN FileFails("EINVAL", "copied") /\ UNCHANGED <<dst, paramVars>>
       ELSE SetChecksum /\ PerformCopy
    /\ UNCHANGED <<gridftpVars, status>>

FallbackReturn ==
    /\ pc = "copied"
    /\ Return(-nfailed, op_error)
    /\ UNCHANGED <<dst, gridftpVars, status, paramVars>>

-----------------------------------------------------------------------------
\* gfal2_cancel in another thread.  The hook of the GridFTP plugin was given
\* the handle where its address was meant: what the abort works on is not a
\* handle.
Cancel ==
    /\ ~cancel
    /\ pc \notin Final
    /\ cancel' = TRUE
    /\ pc' \in {pc} \cup (IF pc = "wait" THEN {"left"} ELSE {})
    /\ UNCHANGED <<call, i, ferr, op_error, nfailed, ret, dst>>
    /\ UNCHANGED <<gridftpVars, status, paramVars>>

GridFtp == CallerStep /\ UNCHANGED <<status, paramVars>>
Timeout == WaitTimesOut /\ UNCHANGED <<status, paramVars>>
Globus == GlobusStep /\ UNCHANGED <<status, paramVars>>
Xrootd == XrootdNext /\ UNCHANGED <<gridftpVars, paramVars>>
Fallback == FallbackPair \/ FallbackReturn

Next == Enter \/ GridFtp \/ Timeout \/ Globus \/ Xrootd \/ Fallback \/ Cancel

Spec == Init /\ [][Next]_vars

\* The calling thread runs, and its wait expires (timeout > 0, the default
\* is an hour).  Globus owes nothing.
FairSpec ==
    /\ Spec
    /\ WF_vars(Enter \/ GridFtp \/ Xrootd \/ Fallback)
    /\ WF_vars(Timeout)

-----------------------------------------------------------------------------
(* Properties                                                              *)

\* The result is the number of pairs with an error, whichever of the three
\* implementations ran and at whichever stage a pair failed.  Two cases are
\* left: the whole operation failed and says so in op_error, or a cancellation
\* came between the preparation and the transfer of a GridFTP pipeline.
FailuresCounted ==
    pc = "returned" =>
        \/ ret = -Cardinality(Failed)
        \/ op_error # "none" /\ ret < 0
        \/ cancel /\ call.plugin = "gridftp" /\ ret = -call.n

\* A destination that was there before and may not be replaced is left alone,
\* by the preparation, by the pipeline, which is not given its pair, and by
\* the copy of single files.  (The clean-up of the XRootD plugin does delete
\* it: after any failure but EEXIST, and for the pairs after the first after
\* any failure.)
ExistingKept ==
    ~call.replace /\ call.plugin # "xrootd" =>
        \A f \in Files : call.was[f] = "old" => dst[f] = "old"

\* A pair that is reported as copied, in a call that verifies both sides, is
\* there and is the source, and the user's own checksum for that pair, not
\* for another, was the right one.  (After a wait that timed out Globus may
\* still be writing.)
VerifiedPairExact ==
    pc = "returned" /\ op_error = "none" /\ ~cancel /\ ~expired =>
        \A f \in Files \ Failed :
            call.mode = {"SOURCE", "TARGET"} => dst[f] = "good" /\ call.arg[f] # "bad"

\* The call comes to an end although Globus may never call back.
BulkReturns == <>(pc \in Final)

-----------------------------------------------------------------------------
(* The inductive invariant behind the three safety properties              *)

Phases ==
    {"enter", "setup", "source", "destination", "start", "wait", "result", "retry",
     "close", "total", "jobs", "prepare", "run", "results", "evict", "fallback",
     "copied"} \cup Final

Codes == {"none", "ECANCELED", "EINTR", "EIO", "EEXIST", "ENOTDIR", "EINVAL", "EUDT",
          "ETIMEDOUT"}

TypeOK ==
    /\ call \in Calls
    /\ pc \in Phases
    /\ i \in Files
    /\ ferr \in [Files -> Codes]
    /\ op_error \in Codes
    /\ nfailed \in Nat
    /\ ret \in Int
    /\ dst \in [Files -> Contents]
    /\ sums \in [Files -> {"empty", "good", "bad", "typed"}]
    /\ queue \in Seq(Files)
    /\ index \in Nat
    /\ owed \in Nat
    /\ attempt \in {1, 2}
    /\ error \in {"none", "EIO", "EUDT"}
    /\ wait_ret \in {"none", "ETIMEDOUT"}
    /\ status \in [Files -> {"none", "ok", "EEXIST", "EIO"}]

\* Which plugin is in which phase
GridFtpPhases == {"setup", "source", "destination", "start", "wait", "result", "retry",
                  "close", "total"}
XrootdPhases == {"jobs", "prepare", "run", "results", "evict"}
PhaseOfPlugin ==
    /\ pc \in GridFtpPhases => call.plugin = "gridftp"
    /\ pc \in XrootdPhases => call.plugin = "xrootd"
    /\ pc \in {"fallback", "copied"} => call.plugin = "none"
    /\ expired => call.plugin = "gridftp"

\* Between the loops the index is at the first pair.
AtFirstPair ==
    pc \in {"enter", "setup", "start", "wait", "result", "retry", "jobs", "prepare"} => i = 1

\* A pair fails once: in the loops that do not look at its error it has none.
FailsOnce ==
    /\ pc \in {"enter", "setup", "jobs", "prepare", "run"} => Failed = {}
    /\ pc \in {"source", "results", "fallback"} => \A f \in Failed : f < i
    /\ nfailed = Cardinality(Failed)
    /\ pc = "retry" => op_error # "none"
    /\ pc = "results" => \A f \in Files : status[f] # "none"
    /\ pc = "run" => \A f \in Files : f < i => status[f] # "none"

\* Globus is given pairs that may be written to.
MayWrite(f) == call.replace \/ call.was[f] = "absent"
Prepared ==
    /\ pc = "destination" => \A f \in Viable : f < i => MayWrite(f)
    /\ running \/ pc \in {"start", "wait", "result", "retry", "close", "total"}
        => \A f \in Viable : MayWrite(f)
    /\ \A k \in DOMAIN queue : MayWrite(queue[k])

\* If no wait has expired, Globus works only while the caller waits, and calls
\* back once in an attempt.
GlobusQuiet ==
    ~expired =>
        /\ pc \notin {"wait", "left"} => ~running /\ owed = 0
        /\ done => ~running /\ owed = 0
        /\ running => owed = 0
        /\ owed <= 1
        /\ pc \in {"enter", "setup", "source", "destination", "start"} => ~done
        /\ wait_ret = "none"

\* The checksum a GridFTP destination is compared with
SourceChecked ==
    call.plugin = "gridftp" =>
        /\ pc = "source" => \A f \in Files : f >= i /\ call.arg[f] = "bad" => sums[f] = "bad"
        /\ "SOURCE" \in call.mode =>
            /\ pc = "source" =>
                \A f \in Viable : f < i => sums[f] = "good" /\ call.arg[f] # "bad"
            /\ pc \in GridFtpPhases \ {"setup", "source"} =>
                \A f \in Viable : sums[f] = "good" /\ call.arg[f] # "bad"

\* What VerifiedPairExact asks of a pair, and which pairs have it before the
\* call returns.
Exact(f) == call.mode = {"SOURCE", "TARGET"} => dst[f] = "good" /\ call.arg[f] # "bad"
VerifiedSoFar ==
    /\ ~expired =>
        /\ pc = "close" => \A f \in Viable : f < i => Exact(f)
        /\ pc = "total" => \A f \in Viable : Exact(f)
    /\ pc \in {"enter", "jobs", "prepare"} => \A f \in Files : status[f] = "none"
    /\ pc \in {"run", "results", "evict"} => \A f \in Files : status[f] = "ok" => Exact(f)
    /\ pc = "results" => \A f \in Viable : f < i => status[f] = "ok"
    /\ pc = "evict" => \A f \in Viable : status[f] = "ok"
    /\ pc = "fallback" => \A f \in Viable : f < i => Exact(f)
    /\ pc = "copied" => \A f \in Viable : Exact(f)

IInv ==
    /\ TypeOK /\ PhaseOfPlugin /\ AtFirstPair /\ FailsOnce /\ Prepared /\ GlobusQuiet
    /\ SourceChecked /\ VerifiedSoFar
    /\ FailuresCounted /\ ExistingKept /\ VerifiedPairExact
=============================================================================
