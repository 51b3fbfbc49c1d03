--------------------------- MODULE GridFtpRequest ---------------------------
(***************************************************************************)
(* A third-party copy of the GridFTP plugin and the threads around its     *)
(* GridFTPRequestState (src/plugins/gridftp/gridftpwrapper.cpp and         *)
(* gridftp_filecopy.cpp): the thread that starts the transfer and waits,   *)
(* the Globus thread that calls back, the timer that watches the           *)
(* performance markers, and a thread inside gfal2_cancel.                  *)
(*                                                                         *)
(* GridFTPRequestState::cancel runs in three of them, without the mutex of *)
(* the request: it is two steps, the abort and the assignment of "error".  *)
(* The abort, globus_gass_copy_cancel, is given the same callback and the  *)
(* same request as the operation: Globus then owes the request one more    *)
(* call, which comes before or after that of the operation.                *)
(***************************************************************************)
EXTENDS Integers

CONSTANT MarkerTimeout  \* ticks without progress after which the timer fires

ASSUME MarkerTimeoutOK == MarkerTimeout \in Nat \ {0}

VARIABLES
    pc,          \* the copying thread
    attempt,     \* 1, and 2 for the copy that is tried again without UDT
    outcome,     \* what GridFTPRequestState::wait returned or threw
    wait_ret,    \* result of callback_cond_wait
    alive,       \* the request exists
    done,        \* req.done
    error,       \* code of req.error, "none" for NULL
    outstanding, \* Globus has still to call back for the operation
    cancels,     \* and this often for its cancellations
    aborted,     \* Globus was told to abort the operation
    reported,    \* what Globus reported for this attempt
    timer,       \* CallbackHandler::func_timer
    left,        \* ticks to timeout_time
    hook,        \* the request is in the context's cancel hooks
    cpc,         \* a thread in gfal2_cancel; it holds mux_cancel in "abort"
                 \* and "assign"
    flag,        \* context->cancel
    sent,        \* every byte has been transferred
    idle         \* history: ticks since a marker showed progress

vars == <<pc, attempt, outcome, wait_ret, alive, done, error, outstanding, cancels,
          aborted, reported, timer, left, hook, cpc, flag, sent, idle>>

copyVars == <<pc, attempt, outcome, wait_ret, alive>>
requestVars == <<done, error>>
globusVars == <<outstanding, cancels, aborted, reported, sent>>
timerVars == <<timer, left, idle>>
cancelVars == <<cpc, flag>>

Init ==
    /\ pc = "start" /\ attempt = 1 /\ outcome = "none" /\ wait_ret = 0
    /\ alive = TRUE /\ done = FALSE /\ error = "none"
    /\ outstanding = FALSE /\ cancels = 0 /\ aborted = FALSE /\ reported = "none" /\ sent = FALSE
    /\ timer = "none" /\ left = 0 /\ idle = 0
    /\ hook = FALSE /\ cpc = "out" /\ flag = FALSE

\* globus_gass_copy_cancel: the operation, if it runs, will call back with an
\* error, and the cancellation with the same callback and request.
Abort ==
    /\ aborted' = (aborted \/ outstanding)
    /\ cancels' = IF outstanding THEN cancels + 1 ELSE cancels
    /\ UNCHANGED <<outstanding, reported, sent>>

MuxFree == cpc \notin {"abort", "assign"}

-----------------------------------------------------------------------------
(* gridftp_do_copy and gridftp_do_copy_inner                               *)

\* A new CallbackHandler, with its timer unless the markers are not watched,
\* then globus_gass_copy_register_url_to_url, which may refuse.
StartTransfer ==
    /\ pc = "start"
    /\ timer' \in {"armed", "none"}
    /\ left' = MarkerTimeout
    /\ idle' = 0
    /\ \/ /\ outstanding' = TRUE /\ aborted' = FALSE /\ reported' = "none"
          /\ sent' = FALSE
          /\ pc' = "hook"
          /\ UNCHANGED <<cancels, outcome>>
       \/ /\ outcome' = "EIO"
          /\ pc' = "join"
          /\ UNCHANGED globusVars
    /\ UNCHANGED <<attempt, wait_ret, alive, requestVars, hook, cancelVars>>

\* ~CallbackHandler: a timer that sleeps is cancelled, one that fires is
\* waited for.  Then the copy is tried again if UDT was refused, with the
\* same request.
JoinTimer ==
    /\ pc = "join"
    /\ timer \notin {"abort", "assign"}
    /\ timer' = "none"
    /\ IF attempt = 1 /\ outcome = "EUDT"
       THEN pc' = "start" /\ attempt' = 2
       ELSE pc' = "destroy" /\ UNCHANGED attempt
    /\ UNCHANGED <<outcome, wait_ret, alive, requestVars, globusVars, left, idle,
                   hook, cancelVars>>

\* ~GridFTPRequestState
Destroy ==
    /\ pc = "destroy"
    /\ IF done THEN UNCHANGED globusVars ELSE Abort
    /\ alive' = FALSE
    /\ pc' = "gone"
    /\ UNCHANGED <<attempt, outcome, wait_ret, requestVars, timerVars, hook,
                   cancelVars>>

-----------------------------------------------------------------------------
(* GridFTPRequestState::wait                                               *)

\* gfal2_register_cancel_callback
RegisterHook ==
    /\ pc = "hook"
    /\ MuxFree
    /\ hook' = TRUE
    /\ pc' = "check"
    /\ UNCHANGED <<attempt, outcome, wait_ret, alive, requestVars, globusVars,
                   timerVars, cancelVars>>

\* callback_cond_wait: the first look at "done".
CheckDone ==
    /\ pc = "check"
    /\ pc' = IF done THEN "unhook" ELSE "sleep"
    /\ wait_ret' = 0
    /\ UNCHANGED <<attempt, outcome, alive, requestVars, globusVars, timerVars,
                   hook, cancelVars>>

\* The condition variable was signalled.
Wake ==
    /\ pc = "sleep"
    /\ done
    /\ pc' = "unhook"
    /\ UNCHANGED <<attempt, outcome, wait_ret, alive, requestVars, globusVars,
                   timerVars, hook, cancelVars>>

\* A wait that goes round its loop until it is done.
WaitForever ==
    /\ pc = "sleep"
    /\ done
    /\ wait_ret' = 0
    /\ pc' = "unhook"
    /\ UNCHANGED <<attempt, outcome, alive, requestVars, globusVars, timerVars,
                   hook, cancelVars>>

\* globus_cond_timedwait gives up; "done" may have been set meanwhile.
WaitTimesOut ==
    /\ pc = "sleep"
    /\ wait_ret' = 1
    /\ pc' = "unhook"
    /\ UNCHANGED <<attempt, outcome, alive, requestVars, globusVars, timerVars,
                   hook, cancelVars>>

\* A removal that does not take mux_cancel.
RemoveHookUnlocked ==
    /\ pc = "unhook"
    /\ hook' = FALSE
    /\ pc' = IF wait_ret = 1 THEN "abort" ELSE "result"
    /\ UNCHANGED <<attempt, outcome, wait_ret, alive, requestVars, globusVars,
                   timerVars, cancelVars>>

\* gfal2_remove_cancel_callback
RemoveHook ==
    /\ pc = "unhook"
    /\ MuxFree
    /\ hook' = FALSE
    /\ pc' = IF wait_ret = 1 THEN "abort" ELSE "result"
    /\ UNCHANGED <<attempt, outcome, wait_ret, alive, requestVars, globusVars,
                   timerVars, cancelVars>>

\* The operation expired: cancel, abort first ...
ExpireAbort ==
    /\ pc = "abort"
    /\ Abort
    /\ pc' = "assign"
    /\ UNCHANGED <<attempt, outcome, wait_ret, alive, requestVars, timerVars, hook,
                   cancelVars>>

\* ... then the error ...
ExpireAssign ==
    /\ pc = "assign"
    /\ error' = "ECANCELED"
    /\ pc' = "again"
    /\ UNCHANGED <<attempt, outcome, wait_ret, alive, done, globusVars, timerVars,
                   hook, cancelVars>>

\* ... and a second wait, which ends when the request is done or after the
\* same time once more.
WaitAgain ==
    /\ pc = "again"
    /\ outcome' = "ETIMEDOUT"
    /\ pc' = "join"
    /\ UNCHANGED <<attempt, wait_ret, alive, requestVars, globusVars, timerVars,
                   hook, cancelVars>>

\* A wait that throws only when it expires.
ReadErrorIgnored ==
    /\ pc = "result"
    /\ outcome' = "ok"
    /\ pc' = "join"
    /\ UNCHANGED <<attempt, wait_ret, alive, requestVars, globusVars, timerVars,
                   hook, cancelVars>>

\* "error" is read without the mutex.
ReadError ==
    /\ pc = "result"
    /\ outcome' = IF error = "none" THEN "ok" ELSE error
    /\ pc' = "join"
    /\ UNCHANGED <<attempt, wait_ret, alive, requestVars, globusVars, timerVars,
                   hook, cancelVars>>

-----------------------------------------------------------------------------
(* Globus                                                                  *)

\* What Globus may report: an aborted operation may just have finished; a
\* server may answer "udt driver not whitelisted" to the first attempt.  The
\* callbacks of one operation all report the same.
Reports ==
    IF reported # "none" THEN {reported}
    ELSE IF aborted THEN {"ok", "ECANCELED"}
    ELSE {"ok", "EIO"} \cup (IF attempt = 1 THEN {"EUDT"} ELSE {})

\* gfal_globus_done_callback, under the mutex of the request.
Callback ==
    /\ \E r \in Reports :
          /\ reported' = r
          /\ error' = IF r = "ok" THEN error ELSE r
    /\ done' = TRUE
    /\ UNCHANGED <<copyVars, aborted, sent, timerVars, hook, cancelVars>>

\* It is called for the operation ...
DoneCallback ==
    /\ outstanding
    /\ outstanding' = FALSE
    /\ Callback
    /\ UNCHANGED cancels

\* ... and for each time it was cancelled.
CancelCallback ==
    /\ cancels > 0
    /\ cancels' = cancels - 1
    /\ Callback
    /\ UNCHANGED outstanding

\* The last byte arrives; the server may still be busy with the file.
AllSent ==
    /\ outstanding
    /\ ~sent
    /\ sent' = TRUE
    /\ UNCHANGED <<copyVars, requestVars, outstanding, cancels, aborted, reported, timerVars,
                   hook, cancelVars>>

\* The size gridftp_do_copy gives to CallbackHandler.
source_size == 0

\* What makes a marker re-arm the timer.
Rearms(moving) == moving \/ (source_size > 0 /\ sent)

\* gsiftp_3rd_callback: a performance marker.
Marker ==
    /\ outstanding
    /\ timer = "armed"
    /\ \E moving \in BOOLEAN :
          /\ moving => ~sent
          /\ left' = IF Rearms(moving) THEN MarkerTimeout ELSE left
          /\ idle' = IF moving THEN 0 ELSE idle
    /\ UNCHANGED <<copyVars, requestVars, globusVars, timer, hook, cancelVars>>

-----------------------------------------------------------------------------
(* CallbackHandler::func_timer                                             *)

TimerTick ==
    /\ timer = "armed"
    /\ left > 0
    /\ left' = left - 1
    /\ idle' = IF idle < MarkerTimeout THEN idle + 1 ELSE idle
    /\ UNCHANGED <<copyVars, requestVars, globusVars, timer, hook, cancelVars>>

\* timeout_time has come; from here on pthread_cancel has no effect.
TimerFires ==
    /\ timer = "armed"
    /\ left = 0
    /\ timer' = "abort"
    /\ UNCHANGED <<copyVars, requestVars, globusVars, left, idle, hook,
                   cancelVars>>

TimerAbort ==
    /\ timer = "abort"
    /\ Abort
    /\ timer' = "assign"
    /\ UNCHANGED <<copyVars, requestVars, left, idle, hook, cancelVars>>

TimerAssign ==
    /\ timer = "assign"
    /\ error' = "ETIMEDOUT"
    /\ timer' = "ended"
    /\ UNCHANGED <<copyVars, done, globusVars, left, idle, hook, cancelVars>>

-----------------------------------------------------------------------------
(* gfal2_cancel, as far as it concerns this request                        *)

\* Flag up, and the hooks that are there are called.
CancelRaise ==
    /\ cpc = "out"
    /\ pc # "gone"
    /\ flag' = TRUE
    /\ cpc' = IF hook THEN "abort" ELSE "wait"
    /\ UNCHANGED <<copyVars, requestVars, globusVars, timerVars, hook>>

\* gridftp_cancel
CancelAbort ==
    /\ cpc = "abort"
    /\ Abort
    /\ cpc' = "assign"
    /\ UNCHANGED <<copyVars, requestVars, timerVars, hook, flag>>

CancelAssign ==
    /\ cpc = "assign"
    /\ error' = "ECANCELED"
    /\ cpc' = "wait"
    /\ UNCHANGED <<copyVars, done, globusVars, timerVars, hook, flag>>

\* The copy was the last operation of the context.
CancelReturn ==
    /\ cpc = "wait"
    /\ pc = "gone"
    /\ flag' = FALSE
    /\ cpc' = "returned"
    /\ UNCHANGED <<copyVars, requestVars, globusVars, timerVars, hook>>

-----------------------------------------------------------------------------
CopyStep ==
    \/ StartTransfer \/ RegisterHook \/ CheckDone \/ Wake \/ RemoveHook
    \/ ExpireAbort \/ ExpireAssign \/ WaitAgain \/ ReadError
    \/ JoinTimer \/ Destroy

GlobusStep == DoneCallback \/ CancelCallback \/ AllSent \/ Marker
TimerStep == TimerTick \/ TimerFires \/ TimerAbort \/ TimerAssign
CancelStep == CancelRaise \/ CancelAbort \/ CancelAssign \/ CancelReturn

Next == CopyStep \/ WaitTimesOut \/ GlobusStep \/ TimerStep \/ CancelStep

Spec == Init /\ [][Next]_vars

\* The threads run and a wait that nobody ends times out.  Globus owes nothing.
FairSpec ==
    /\ Spec
    /\ WF_vars(CopyStep)
    /\ WF_vars(WaitTimesOut)
    /\ WF_vars(TimerAbort \/ TimerAssign)
    /\ WF_vars(CancelAbort \/ CancelAssign \/ CancelReturn)

-----------------------------------------------------------------------------
(* Properties                                                              *)

\* The request outlives those who use it: neither the timer nor a cancel hook
\* runs into it, or into the stack frame it lives in, once it is destroyed,
\* and Globus calls back into a destroyed request only when the operation was
\* aborted.  (That it then may is the code's: the callbacks of the operation
\* and of its cancellations are not all waited for.  A retry without UDT starts
\* with the done of the first attempt and does not wait for Globus at all.)
RequestOutlivesUsers ==
    /\ (outstanding \/ cancels > 0) /\ ~alive => aborted \/ attempt = 2
    /\ timer \in {"armed", "abort", "assign"} => alive
    /\ hook \/ cpc \in {"abort", "assign"} => alive

\* A copy succeeds only if Globus reported that the transfer did, whatever
\* the order in which the callback, the timer, the expiry and the cancel
\* came.
SuccessIsReported == outcome = "ok" => reported = "ok"

\* The copy ends, even when Globus never calls back: both waits expire, and
\* neither the timer nor a cancel holds the copy up for ever.
CopyEnds == <>(pc = "gone")
-----------------------------------------------------------------------------
(* The inductive invariant behind the two                                  *)

TypeOK ==
    /\ pc \in {"start", "hook", "check", "sleep", "unhook", "abort", "assign",
               "again", "result", "join", "destroy", "gone"}
    /\ attempt \in {1, 2}
    /\ outcome \in {"none", "ok", "EUDT", "EIO", "ECANCELED", "ETIMEDOUT"}
    /\ wait_ret \in {0, 1}
    /\ alive \in BOOLEAN /\ done \in BOOLEAN
    /\ error \in {"none", "EUDT", "EIO", "ECANCELED", "ETIMEDOUT"}
    /\ outstanding \in BOOLEAN /\ cancels \in Nat /\ aborted \in BOOLEAN /\ sent \in BOOLEAN
    /\ reported \in {"none", "ok", "EUDT", "EIO", "ECANCELED"}
    /\ timer \in {"none", "armed", "abort", "assign", "ended"}
    /\ left \in 0..MarkerTimeout /\ idle \in 0..MarkerTimeout
    /\ hook \in BOOLEAN /\ flag \in BOOLEAN
    /\ cpc \in {"out", "abort", "assign", "wait", "returned"}

\* Who may use the request at which point of the copy: the timer from the
\* start to the join, a hook and the thread that calls it within the wait.
UsersWithin ==
    /\ alive <=> pc # "gone"
    /\ timer # "none" => pc \notin {"start", "destroy", "gone"}
    /\ hook => pc \in {"check", "sleep", "unhook"}
    /\ cpc \in {"abort", "assign"} => hook

\* A wait that did not expire saw "done"; before the first transfer is
\* started nothing is done or outstanding.
WaitSawDone ==
    /\ pc = "unhook" /\ wait_ret = 0 => done
    /\ pc = "sleep" => wait_ret = 0
    /\ pc = "result" => done
    /\ pc = "start" /\ attempt = 1 => ~done /\ ~outstanding /\ cancels = 0

\* The second attempt has the done and the error of the first.
AttemptsApart ==
    /\ outcome = "EUDT" \/ attempt = 2 => done /\ error # "none"
    /\ done /\ error = "none" => reported = "ok"
    /\ outcome = "ok" => /\ attempt = 1 /\ done
                         /\ pc \in {"join", "destroy", "gone"}

\* In the first attempt only an aborted operation owes a callback once one has
\* come, or once the request is gone.
CallbacksOwed ==
    attempt = 1 =>
        /\ cancels > 0 => aborted
        /\ outstanding /\ (done \/ pc = "gone") => aborted

IInv ==
    /\ TypeOK /\ UsersWithin /\ WaitSawDone /\ AttemptsApart /\ CallbacksOwed
    /\ SuccessIsReported
=============================================================================
