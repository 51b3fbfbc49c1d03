------------------------ MODULE GridFtpRequestProofs ------------------------
(***************************************************************************)
(* Proofs about a GridFTP copy and the threads that use its request, for   *)
(* every timeout of the markers.                                           *)
(***************************************************************************)
EXTENDS GridFtpRequest, TLAPS

\* Before the transfer starts nothing uses the request.
LEMMA InitIInv == Init => IInv
<1> SUFFICES ASSUME Init PROVE IInv
  OBVIOUS
<1> USE DEF Init
<1>1. TypeOK
  <2>1. /\ alive \in BOOLEAN /\ done \in BOOLEAN /\ outstanding \in BOOLEAN
        /\ aborted \in BOOLEAN /\ sent \in BOOLEAN /\ hook \in BOOLEAN
        /\ flag \in BOOLEAN
    BY Zenon
  <2> QED
    BY <2>1, MarkerTimeoutOK DEF TypeOK
<1>2. UsersWithin
  BY MarkerTimeoutOK DEF UsersWithin
<1>3. WaitSawDone
  BY MarkerTimeoutOK DEF WaitSawDone
<1>4. AttemptsApart
  BY MarkerTimeoutOK DEF AttemptsApart
<1>5. CallbacksOwed
  BY MarkerTimeoutOK DEF CallbacksOwed
<1>6. SuccessIsReported
  BY MarkerTimeoutOK DEF SuccessIsReported
<1> QED
  BY <1>1, <1>2, <1>3, <1>4, <1>5, <1>6 DEF IInv

\* No step of the copying thread, of Globus, of the timer or of gfal2_cancel
\* breaks the invariant.
LEMMA StepIInv == IInv /\ [Next]_vars => IInv'
<1> SUFFICES ASSUME IInv, [Next]_vars PROVE IInv'
  OBVIOUS
<1> USE MarkerTimeoutOK
    DEF IInv, TypeOK, UsersWithin, WaitSawDone, AttemptsApart, CallbacksOwed,
        SuccessIsReported, copyVars, requestVars, globusVars, timerVars, cancelVars
<1>1. CASE StartTransfer
  <2>1. TypeOK'
    <3>1. outstanding' \in BOOLEAN /\ aborted' \in BOOLEAN /\ sent' \in BOOLEAN
      BY <1>1, Zenon DEF StartTransfer, globusVars
    <3> QED
      BY <3>1, <1>1 DEF StartTransfer
  <2>2. UsersWithin'
    BY <1>1 DEF StartTransfer
  <2>3. WaitSawDone'
    BY <1>1 DEF StartTransfer
  <2>4. AttemptsApart'
    BY <1>1 DEF StartTransfer
  <2>5. CallbacksOwed'
    BY <1>1 DEF StartTransfer
  <2>6. SuccessIsReported'
    BY <1>1 DEF StartTransfer
  <2> QED
    BY <2>1, <2>2, <2>3, <2>4, <2>5, <2>6
<1>2. CASE RegisterHook
  BY <1>2 DEF RegisterHook, MuxFree
<1>3. CASE CheckDone
  BY <1>3 DEF CheckDone
<1>4. CASE Wake
  BY <1>4 DEF Wake
<1>5. CASE RemoveHook
  <2>1. TypeOK'
    <3>1. hook' \in BOOLEAN
      BY <1>5, Zenon DEF RemoveHook
    <3> QED
      BY <3>1, <1>5 DEF RemoveHook, MuxFree
  <2>2. UsersWithin'
    BY <1>5 DEF RemoveHook, MuxFree
  <2>3. WaitSawDone'
    BY <1>5 DEF RemoveHook, MuxFree
  <2>4. AttemptsApart'
    BY <1>5 DEF RemoveHook, MuxFree
  <2>5. CallbacksOwed'
    BY <1>5 DEF RemoveHook, MuxFree
  <2>6. SuccessIsReported'
    BY <1>5 DEF RemoveHook, MuxFree
  <2> QED
    BY <2>1, <2>2, <2>3, <2>4, <2>5, <2>6
<1>6. CASE ExpireAbort
  BY <1>6 DEF ExpireAbort, Abort
<1>7. CASE ExpireAssign
  BY <1>7 DEF ExpireAssign
<1>8. CASE WaitAgain
  BY <1>8 DEF WaitAgain
<1>9. CASE ReadError
  BY <1>9 DEF ReadError
<1>10. CASE JoinTimer
  BY <1>10 DEF JoinTimer
<1>11. CASE Destroy
  <2>1. TypeOK'
    <3>1. alive' \in BOOLEAN
      BY <1>11, Zenon DEF Destroy
    <3> QED
      BY <3>1, <1>11 DEF Destroy, Abort
  <2>2. UsersWithin'
    BY <1>11 DEF Destroy, Abort
  <2>3. WaitSawDone'
    BY <1>11 DEF Destroy, Abort
  <2>4. AttemptsApart'
    BY <1>11 DEF Destroy, Abort
  <2>5. CallbacksOwed'
    BY <1>11 DEF Destroy, Abort
  <2>6. SuccessIsReported'
    BY <1>11 DEF Destroy, Abort
  <2> QED
    BY <2>1, <2>2, <2>3, <2>4, <2>5, <2>6
<1>12. CASE WaitTimesOut
  BY <1>12 DEF WaitTimesOut
<1>13. CASE DoneCallback
  <2>0. /\ \E r \in Reports : /\ reported' = r
                            /\ error' = IF r = "ok" THEN error ELSE r
        /\ UNCHANGED <<copyVars, aborted, sent, timerVars, hook, cancelVars>>
        /\ outstanding /\ outstanding' = FALSE /\ cancels' = cancels
    BY <1>13 DEF DoneCallback, Callback
  <2>1. TypeOK'
    <3>1. done' \in BOOLEAN /\ outstanding' \in BOOLEAN
      BY <1>13, Zenon DEF DoneCallback, Callback
    <3> QED
      BY <2>0, <3>1 DEF Reports
  <2>2. UsersWithin'
    BY <2>0
  <2>3. WaitSawDone'
    BY <1>13, <2>0 DEF DoneCallback, Callback
  <2>4. AttemptsApart'
    BY <1>13, <2>0 DEF DoneCallback, Callback, Reports
  <2>5. CallbacksOwed'
    BY <1>13, <2>0 DEF DoneCallback, Callback
  <2>6. SuccessIsReported'
    BY <2>0 DEF Reports
  <2> QED
    BY <2>1, <2>2, <2>3, <2>4, <2>5, <2>6
<1>25. CASE CancelCallback
  <2>0. /\ \E r \in Reports : /\ reported' = r
                            /\ error' = IF r = "ok" THEN error ELSE r
        /\ UNCHANGED <<copyVars, aborted, sent, timerVars, hook, cancelVars>>
        /\ cancels > 0 /\ cancels' = cancels - 1
    BY <1>25 DEF CancelCallback, Callback
  <2>1. TypeOK'
    <3>1. done' \in BOOLEAN /\ outstanding' \in BOOLEAN
      BY <1>25, Zenon DEF CancelCallback, Callback
    <3> QED
      BY <2>0, <3>1 DEF Reports
  <2>2. UsersWithin'
    BY <2>0
  <2>3. WaitSawDone'
    BY <1>25, <2>0 DEF CancelCallback, Callback
  <2>4. AttemptsApart'
    BY <1>25, <2>0 DEF CancelCallback, Callback, Reports
  <2>5. CallbacksOwed'
    BY <1>25, <2>0 DEF CancelCallback, Callback
  <2>6. SuccessIsReported'
    BY <2>0 DEF Reports
  <2> QED
    BY <2>1, <2>2, <2>3, <2>4, <2>5, <2>6
<1>14. CASE AllSent
  BY <1>14 DEF AllSent
<1>15. CASE Marker
  BY <1>15 DEF Marker, Rearms, source_size
<1>16. CASE TimerTick
  BY <1>16 DEF TimerTick
<1>17. CASE TimerFires
  BY <1>17 DEF TimerFires
<1>18. CASE TimerAbort
  BY <1>18 DEF TimerAbort, Abort
<1>19. CASE TimerAssign
  BY <1>19 DEF TimerAssign
<1>20. CASE CancelRaise
  BY <1>20 DEF CancelRaise
<1>21. CASE CancelAbort
  BY <1>21 DEF CancelAbort, Abort
<1>22. CASE CancelAssign
  BY <1>22 DEF CancelAssign
<1>23. CASE CancelReturn
  <2>1. TypeOK'
    <3>1. flag' \in BOOLEAN
      BY <1>23, Zenon DEF CancelReturn
    <3> QED
      BY <3>1, <1>23 DEF CancelReturn
  <2>2. UsersWithin'
    BY <1>23 DEF CancelReturn
  <2>3. WaitSawDone'
    BY <1>23 DEF CancelReturn
  <2>4. AttemptsApart'
    BY <1>23 DEF CancelReturn
  <2>5. CallbacksOwed'
    BY <1>23 DEF CancelReturn
  <2>6. SuccessIsReported'
    BY <1>23 DEF CancelReturn
  <2> QED
    BY <2>1, <2>2, <2>3, <2>4, <2>5, <2>6
<1>24. CASE UNCHANGED vars
  BY <1>24 DEF vars
<1> QED
  BY <1>1, <1>2, <1>3, <1>4, <1>5, <1>6, <1>7, <1>8, <1>9, <1>10, <1>11, <1>12, <1>13, <1>14, <1>15, <1>16, <1>17, <1>18, <1>19, <1>20, <1>21, <1>22, <1>23, <1>24,
     <1>25
  DEF Next, CopyStep, GlobusStep, TimerStep, CancelStep

\* The inductive invariant holds in every state of the copy.
THEOREM InvariantHolds == Spec => []IInv
BY InitIInv, StepIInv, PTL DEF Spec

\* A copy whose wait returned without an error was reported by Globus as
\* transferred, for every order of callbacks, timer, expiry and cancel, however
\* late Globus is with the callbacks of an aborted operation.
THEOREM SuccessReported == Spec => []SuccessIsReported
<1>1. IInv => SuccessIsReported
  BY DEF IInv
<1> QED
  BY <1>1, InvariantHolds, PTL

\* Neither the timer of the markers nor a cancel hook runs into the request
\* once it is destroyed, and neither does Globus unless the operation was
\* aborted, or is the retry without UDT.
THEOREM RequestOutlives == Spec => []RequestOutlivesUsers
<1>1. IInv => RequestOutlivesUsers
  BY DEF IInv, TypeOK, UsersWithin, CallbacksOwed, RequestOutlivesUsers
<1> QED
  BY <1>1, InvariantHolds, PTL
=============================================================================
