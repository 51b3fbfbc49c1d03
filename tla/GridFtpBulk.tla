---------------------------- MODULE GridFtpBulk -----------------------------
(***************************************************************************)
(* gridftp_bulk_copy (src/plugins/gridftp/gridftp_bulk.cpp): the sources   *)
(* are checked, the destinations prepared, the remaining pairs transferred *)
(* through one Globus pipeline, and the destinations checked.              *)
(*                                                                         *)
(* The Globus thread asks for the next pair and reports the end of the     *)
(* transfer through a GridFTPBulkData on the stack of the caller, which    *)
(* waits with a timeout.  errn[i] and file_errors[i] are always set        *)
(* together and are one variable, ferr.                                    *)
(***************************************************************************)
EXTENDS BulkState

VARIABLES
    sums,      \* pairs.checksums
    made,      \* the parent of the destinations is in created_parents; the
               \* destinations of a call share it
    attempt,   \* 2 once the transfer is tried again without UDT
    index,     \* pairs.index
    offered,   \* history: the pairs this attempt gave to Globus, in order
    queue,     \* those Globus has still to transfer
    running,   \* the pipeline runs
    owed,      \* calls to gridftp_done_callback that have stored the error
               \* and not yet set done
    error,     \* pairs.error
    done,      \* pairs.done
    wait_ret,  \* result of the last globus_cond_timedwait
    expired,   \* history: a wait has timed out
    late       \* history: Globus used the pairs after the call returned

globusVars == <<index, offered, queue, running, owed, error, done>>
waitVars == <<attempt, wait_ret, expired>>
gridftpVars == <<sums, made, globusVars, waitVars, late>>

GridFtpInit ==
    /\ sums = [f \in Files |-> "empty"]
    /\ made = FALSE
    /\ attempt = 1
    /\ index = 0
    /\ offered = <<>>
    /\ queue = <<>>
    /\ running = FALSE
    /\ owed = 0
    /\ error = "none"
    /\ done = FALSE
    /\ wait_ret = "none"
    /\ expired = FALSE
    /\ late = FALSE

-----------------------------------------------------------------------------
\* The second scope of the call, then the copy of the user's checksums into
\* strings, which a null pointer cannot be.  "type:value" is kept whole and
\* equals no checksum a server computes.
Setup ==
    /\ pc = "setup"
    /\ \/ cancel /\ Return(-1, "ECANCELED") /\ UNCHANGED <<dst, sums>>
       \/ /\ ~cancel /\ call.checksums /\ \E f \in Files : call.arg[f] = "null"
          /\ Leave /\ UNCHANGED sums
       \/ /\ ~cancel /\ call.checksums => \A f \in Files : call.arg[f] # "null"
          /\ sums' = [f \in Files |->
                        CASE call.arg[f] \in {"null", "empty"} -> "empty"
                          [] call.arg[f] \in {"good", "bad"} -> call.arg[f]
                          [] OTHER -> "typed"]
          /\ GoTo("source") /\ UNCHANGED dst
    /\ UNCHANGED <<made, globusVars, waitVars, late>>

\* gridftp_bulk_check_sources: the stat, the kind, the checksum.
CheckSource ==
    /\ pc = "source"
    /\ \/ cancel /\ FileFails("EINTR", "destination") /\ UNCHANGED sums
       \/ ~cancel /\ FileFails("EIO", "destination") /\ UNCHANGED sums
       \/ /\ ~cancel /\ "SOURCE" \notin call.mode
          /\ FileGoesOn("destination") /\ UNCHANGED sums
       \/ /\ ~cancel /\ "SOURCE" \in call.mode /\ sums[i] \in {"empty", "good"}
          /\ FileGoesOn("destination")
          /\ sums' = [sums EXCEPT ![i] = "good"]
       \/ /\ ~cancel /\ "SOURCE" \in call.mode /\ sums[i] \notin {"empty", "good"}
          /\ FileFails("EIO", "destination") /\ UNCHANGED sums
    /\ UNCHANGED <<dst, made, globusVars, waitVars, late>>

\* Mutant: a pair that failed at its source is prepared like the others.
PrepareDestinationOfAll ==
    /\ pc = "destination"
    /\ \/ cancel /\ FileFails("EINTR", "start") /\ UNCHANGED <<dst, made>>
       \/ ~cancel /\ ~MayCreate /\ FileFails("EEXIST", "start") /\ UNCHANGED <<dst, made>>
       \/ ~cancel /\ MayCreate /\ Write("absent") /\ FileGoesOn("start") /\ made' = TRUE
    /\ UNCHANGED <<sums, globusVars, waitVars, late>>

\* gridftp_bulk_prepare_destination: an existing file is deleted or makes the
\* pair fail, the parent is made once.  Only a TransferException is caught:
\* exists, unlink and mkdir throw others.
PrepareDestination ==
    /\ pc = "destination"
    /\ \/ ferr[i] # "none" /\ FileGoesOn("start") /\ UNCHANGED <<dst, made>>
       \/ /\ ferr[i] = "none" /\ cancel
          /\ FileFails("EINTR", "start") /\ UNCHANGED <<dst, made>>
       \/ ferr[i] = "none" /\ ~cancel /\ Leave /\ UNCHANGED made
       \/ /\ ferr[i] = "none" /\ ~cancel /\ ~MayCreate
          /\ FileFails("EEXIST", "start") /\ UNCHANGED <<dst, made>>
       \/ /\ ferr[i] = "none" /\ ~cancel /\ MayCreate
          /\ Write("absent")
          /\ \/ ~made /\ FileFails("ENOTDIR", "start") /\ UNCHANGED made
             \/ FileGoesOn("start") /\ made' = TRUE
    /\ UNCHANGED <<sums, globusVars, waitVars, late>>

-----------------------------------------------------------------------------
(* gridftp_pipeline_transfer                                               *)

Viable == Files \ Failed

\* Mutant: the pairs that failed are not skipped.
NextPair(f) == f + 1

\* The first pair that has not failed after f, or n + 1.
NextViable(f) ==
    LET rest == {g \in Viable : g > f}
    IN  IF rest = {} THEN call.n + 1 ELSE CHOOSE g \in rest : \A h \in rest : g <= h

\* The transfer, unless the call was cancelled, which only the first attempt
\* looks at.  The session may throw; no pair may be left; Globus may refuse.
StartTransfer ==
    /\ pc = "start"
    /\ \/ /\ cancel /\ attempt = 1
          /\ Return(-call.n, "none")
          /\ UNCHANGED <<index, offered, queue, running>>
       \/ /\ ~cancel \/ attempt = 2
          /\ Leave /\ UNCHANGED <<index, offered, queue, running>>
       \/ /\ ~cancel \/ attempt = 2
          /\ index' = NextViable(0)
          /\ IF Viable = {}
             THEN GoTo("close") /\ UNCHANGED <<offered, queue, running>>
             ELSE /\ offered' = <<index'>>
                  /\ queue' = <<index'>>
                  /\ running' = TRUE
                  /\ GoTo("wait")
       \/ /\ ~cancel \/ attempt = 2
          /\ Viable # {}
          /\ index' = NextViable(0)
          /\ op_error' = "EIO"
          /\ pc' = "retry"
          /\ UNCHANGED <<call, i, ferr, nfailed, ret, cancel>>
          /\ UNCHANGED <<offered, queue, running>>
    /\ wait_ret' = "none"
    /\ UNCHANGED <<dst, sums, made, owed, error, done, attempt, expired, late>>

\* After a crash, or the first use of memory that is gone, anything may
\* happen: the model ends there.
GlobusAlive == pc # "left" /\ ~late

\* gridftp_pipeline_callback: Globus asks for another pair, before or after
\* it has transferred the ones it has.
PipelineCallback ==
    /\ running /\ GlobusAlive
    /\ index <= call.n
    /\ index' = NextViable(index)
    /\ IF index' <= call.n
       THEN offered' = Append(offered, index') /\ queue' = Append(queue, index')
       ELSE UNCHANGED <<offered, queue>>
    /\ late' = (late \/ pc = "returned")
    /\ UNCHANGED <<stateVars, sums, made, running, owed, error, done, waitVars>>

\* Globus transfers a pair, exactly or not.  What it writes after the call
\* returned is not followed.
TransferPair ==
    /\ running /\ pc \notin Final
    /\ queue # <<>>
    /\ \E c \in {"good", "garbled", "short"} :
          dst' = [dst EXCEPT ![Head(queue)] = c]
    /\ queue' = Tail(queue)
    /\ UNCHANGED <<call, pc, i, ferr, op_error, nfailed, ret, cancel, sums, made,
                   index, offered, running, owed, error, done, waitVars, late>>

\* The pipeline ends: every pair is through, or there was an error.
\* gridftp_done_callback stores it outside the lock.
PipelineEnds ==
    /\ running /\ GlobusAlive
    /\ \/ queue = <<>> /\ index > call.n /\ UNCHANGED error
       \/ error' \in {"EIO"} \cup (IF attempt = 1 THEN {"EUDT"} ELSE {})
    /\ running' = FALSE
    /\ queue' = <<>>
    /\ owed' = owed + 1
    /\ late' = (late \/ pc = "returned")
    /\ UNCHANGED <<stateVars, sums, made, index, offered, done, waitVars>>

\* gridftp_done_callback, under the lock.
DoneCallback ==
    /\ owed > 0 /\ GlobusAlive
    /\ owed' = owed - 1
    /\ done' = TRUE
    /\ late' = (late \/ pc = "returned")
    /\ UNCHANGED <<stateVars, sums, made, index, offered, queue, running, error,
                   waitVars>>

WaitDone ==
    /\ pc = "wait"
    /\ done
    /\ GoTo("result")
    /\ UNCHANGED <<dst, gridftpVars>>

\* Mutant: the loop around the wait looks at done only.
WaitTimesOutAgain ==
    /\ pc = "wait"
    /\ wait_ret' = "ETIMEDOUT"
    /\ expired' = TRUE
    /\ GoTo(IF done THEN "result" ELSE "wait")
    /\ UNCHANGED <<dst, sums, made, globusVars, attempt, late>>

\* The wait may expire although done was set meanwhile.  Globus is not told
\* to abort.
WaitTimesOut ==
    /\ pc = "wait"
    /\ wait_ret' = "ETIMEDOUT"
    /\ expired' = TRUE
    /\ GoTo("result")
    /\ UNCHANGED <<dst, sums, made, globusVars, attempt, late>>

\* pairs->error is read without the lock.
ReadResult ==
    /\ pc = "result"
    /\ op_error' = IF error # "none" THEN error
                   ELSE IF wait_ret = "ETIMEDOUT" THEN "ETIMEDOUT" ELSE op_error
    /\ pc' = IF error # "none" \/ wait_ret = "ETIMEDOUT" THEN "retry" ELSE "close"
    /\ UNCHANGED <<call, i, ferr, nfailed, ret, cancel, dst, gridftpVars>>

\* A failed transfer makes every pair fail, unless it was UDT that was
\* refused: then the pairs that are left are transferred again.
RetryOrReturn ==
    /\ pc = "retry"
    /\ IF attempt = 1 /\ op_error = "EUDT" /\ ~cancel
       THEN /\ attempt' = 2
            /\ done' = FALSE
            /\ error' = "none"
            /\ op_error' = "none"
            /\ pc' = "start"
            /\ UNCHANGED <<call, i, ferr, nfailed, ret, cancel>>
       ELSE Return(-call.n, op_error) /\ UNCHANGED <<attempt, done, error>>
    /\ UNCHANGED <<dst, sums, made, index, offered, queue, running, owed,
                   wait_ret, expired, late>>

-----------------------------------------------------------------------------
\* gridftp_bulk_close, what a pair that has not failed goes through: the
\* stat, the size, the checksum.
CheckDestination ==
    \/ cancel /\ FileFails("EINTR", "total")
    \/ ~cancel /\ FileFails("EIO", "total")
    \/ /\ ~cancel
       /\ dst[i] \notin {"absent", "short"}
       /\ "TARGET" \in call.mode => sums[i] \in {"empty", dst[i]}
       /\ FileGoesOn("total")

\* Mutant: the pairs that failed before are checked as well.
CloseAll ==
    /\ pc = "close"
    /\ CheckDestination
    /\ UNCHANGED <<dst, gridftpVars>>

Close ==
    /\ pc = "close"
    /\ IF ferr[i] # "none" THEN FileGoesOn("total") ELSE CheckDestination
    /\ UNCHANGED <<dst, gridftpVars>>

ReturnTotal ==
    /\ pc = "total"
    /\ Return(-nfailed, "none")
    /\ UNCHANGED <<dst, gridftpVars>>

CallerStep ==
    \/ Setup \/ CheckSource \/ PrepareDestination \/ StartTransfer \/ WaitDone
    \/ ReadResult \/ RetryOrReturn \/ Close \/ ReturnTotal

GlobusStep == PipelineCallback \/ TransferPair \/ PipelineEnds \/ DoneCallback
=============================================================================
