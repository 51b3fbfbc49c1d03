------------------------------ MODULE CoreProofs -----------------------------
(***************************************************************************)
(* Proofs about the core of the library: cancellation (GfalCancel), the    *)
(* plugins of a context and the calls that reach them (PosixThreads), the  *)
(* credential map (CredMapping) and the polling of recalls and archives    *)
(* (Staging).  For each an inductive invariant holds for every value of    *)
(* the constants, and the safety properties follow from it.                *)
(***************************************************************************)
EXTENDS GfalCancel, PosixThreads, CredMapping, Staging,
        FiniteSetTheorems, WellFoundedInduction, TLAPS

(* Least elements and induction                                            *)

\* A set of numbers that is not empty has a least element.
LEMMA LeastOf ==
    ASSUME NEW S, S \subseteq Nat, S # {}
    PROVE  \E g \in S : \A h \in S : g <= h
  <1> DEFINE R == OpToRel(<, Nat)
  <1>1. IsWellFoundedOn(R, Nat)
    BY NatLessThanWellFounded
  <1>2. R = {p \in Nat \X Nat : p[1] < p[2]}
    BY DEF OpToRel
  <1> HIDE DEF R
  <1>3. PICK g \in S : \A h \in S : ~(<<h, g>> \in R)
    BY <1>1, WFMin
  <1>4. ASSUME NEW h \in S
        PROVE  g <= h
    <2>1. g \in Nat /\ h \in Nat /\ <<h, g>> \in Nat \X Nat
      BY <1>3
    <2>2. ~(h < g)
      BY <1>2, <1>3, <2>1
    <2> QED
      BY <2>1, <2>2
  <1> QED
    BY <1>3, <1>4

\* Induction, for a set of numbers.
LEMMA InductOn ==
    ASSUME NEW P, 0 \in P, \A n \in Nat : n \in P => n + 1 \in P
    PROVE  Nat \subseteq P
  <1> SUFFICES ASSUME Nat \ P # {} PROVE FALSE
    OBVIOUS
  <1>1. PICK g \in Nat \ P : \A h \in Nat \ P : g <= h
    BY LeastOf
  <1>2. g # 0 /\ g - 1 \in Nat /\ g - 1 \in P
    BY <1>1
  <1> QED
    BY <1>1, <1>2

\* SelectInSeq takes the first element that passes.
LEMMA FirstIn ==
    ASSUME NEW n \in Nat, NEW S, S \subseteq 1 .. n, S # {}
    PROVE  Min(S) \in S /\ \A i \in S : Min(S) <= i
  <1>1. S \subseteq Nat
    OBVIOUS
  <1>2. \E g \in S : \A h \in S : g <= h
    BY <1>1, LeastOf
  <1> QED
    BY <1>2 DEF Min

-----------------------------------------------------------------------------
(***************************************************************************)
(* Cancellation: IInv is inductive, for any number of worker and canceller *)
(* threads.  The one fact that needs counting is that the set of open scopes*)
(* gains or loses exactly one element with running_ops.                    *)
(***************************************************************************)

\* The open scopes are finitely many, so running_ops can count them.
LEMMA OpenScopesFinite ==
    /\ IsFiniteSet(OpenScopes)
    /\ Cardinality(OpenScopes) \in Nat
<1>1. IsFiniteSet(1 .. MaxDepth)
  BY MaxDepthIsPos, FS_Interval
<1>2. IsFiniteSet(Workers \X (1 .. MaxDepth))
  BY <1>1, WorkersFinite, FS_Product
<1>3. IsFiniteSet(OpenScopes)
  BY <1>2, FS_Subset DEF OpenScopes
<1> QED
  BY <1>3, FS_CardinalityType

\* g_atomic_int_inc in gfal2_start_scope_cancel opens exactly one scope.
LEMMA EnterCounts ==
    ASSUME IInv, NEW w \in Workers, EnterScope(w)
    PROVE  Cardinality(OpenScopes)' = Cardinality(OpenScopes) + 1
<1> DEFINE new == <<w, depth[w] + 1>>
<1>1. depth[w] \in 0 .. MaxDepth /\ depth[w] < MaxDepth /\ MaxDepth \in Nat
  BY MaxDepthIsPos DEF IInv, TypeOK, ScopesMatchPc, EnterScope
<1>2. new \notin OpenScopes
  BY <1>1 DEF OpenScopes
<1>3. OpenScopes' = OpenScopes \cup {new}
  BY <1>1, MaxDepthIsPos DEF OpenScopes, EnterScope, IInv, TypeOK
<1> QED
  BY <1>2, <1>3, OpenScopesFinite, FS_AddElement

\* g_atomic_int_dec_and_test in gfal2_end_scope_cancel closes exactly one.
LEMMA EndCounts ==
    ASSUME IInv, NEW w \in Workers, EndScope(w)
    PROVE  /\ Cardinality(OpenScopes)' = Cardinality(OpenScopes) - 1
           /\ Cardinality(OpenScopes) > 0
<1> DEFINE old == <<w, depth[w]>>
<1>1. depth[w] \in 1 .. MaxDepth /\ MaxDepth \in Nat
  BY MaxDepthIsPos DEF IInv, TypeOK, ScopesMatchPc, EndScope
<1>2. old \in OpenScopes
  BY <1>1 DEF OpenScopes
<1>3. OpenScopes' = OpenScopes \ {old}
  BY <1>1, MaxDepthIsPos DEF OpenScopes, EndScope, IInv, TypeOK
<1>4. Cardinality(OpenScopes)' = Cardinality(OpenScopes) - 1
  BY <1>2, <1>3, OpenScopesFinite, FS_RemoveElement
<1>5. OpenScopes # {}
  BY <1>2
<1>6. Cardinality(OpenScopes) # 0
  BY <1>5, OpenScopesFinite, FS_EmptySet
<1> QED
  BY <1>4, <1>6, OpenScopesFinite

\* When the counter is at zero no thread is inside an operation.
LEMMA ZeroMeansIdle ==
    ASSUME IInv, running_ops <= 0
    PROVE  InScope = {}
<1>1. Cardinality(OpenScopes) = 0
  BY OpenScopesFinite DEF IInv, ScopeCount
<1>2. OpenScopes = {}
  BY <1>1, OpenScopesFinite, FS_EmptySet
<1>3. ASSUME NEW w \in Workers, depth[w] > 0
      PROVE  FALSE
  <2>1. <<w, 1>> \in Workers \X (1 .. MaxDepth)
    BY MaxDepthIsPos
  <2>2. 1 <= depth[w]
    BY <1>3 DEF IInv, TypeOK
  <2> QED
    BY <1>2, <2>1, <2>2 DEF OpenScopes
<1> QED
  BY <1>3 DEF InScope

\* No scope is open in a context that was just made.
LEMMA InitIInv == Init => IInv
<1> SUFFICES ASSUME Init PROVE IInv
  OBVIOUS
<1> USE DEF Init
<1>1. TypeOK
  <2>1. seen \in [Workers -> BOOLEAN] /\ cancel \in BOOLEAN
    BY Zenon
  <2>2. /\ wpc \in [Workers -> WorkerPc]
        /\ depth \in [Workers -> 0 .. MaxDepth]
        /\ cpc \in [Cancellers -> CancelPc]
        /\ n_cancel \in [Cancellers -> Nat]
    BY MaxDepthIsPos DEF WorkerPc, CancelPc
  <2>3. /\ todo \in [Cancellers -> SUBSET Workers]
        /\ waiting \in [Cancellers -> SUBSET Workers]
    OBVIOUS
  <2> QED
    BY <2>1, <2>2, <2>3 DEF TypeOK
<1>2. MutexHeld
  BY ThreadsDisjoint DEF MutexHeld
<1>3. ScopesMatchPc
  BY MaxDepthIsPos DEF ScopesMatchPc
<1>4. HooksOwned /\ WaitingRuns /\ CancelDrains /\ FlagOwned
  BY DEF HooksOwned, WaitingRuns, CancelDrains, FlagOwned
<1>5. ScopeCount
  <2>1. OpenScopes = {}
    BY DEF OpenScopes
  <2> QED
    BY <2>1, FS_EmptySet DEF ScopeCount
<1> QED
  BY <1>1, <1>2, <1>3, <1>4, <1>5 DEF IInv

\* The steps of a thread that runs operations keep IInv.
LEMMA WorkerKeepsIInv ==
    ASSUME IInv, NEW w \in Workers, WorkerStep(w)
    PROVE  IInv'
<1> USE MaxDepthIsPos
<1>1. CASE StartScope(w)
  <2>1. TypeOK' /\ ScopesMatchPc'
    BY <1>1 DEF IInv, TypeOK, ScopesMatchPc, StartScope, cancelVars, WorkerPc
  <2>2. OpenScopes' = OpenScopes /\ InScope' = InScope
    BY <1>1 DEF StartScope, OpenScopes, InScope
  <2> QED
    BY <1>1, <2>1, <2>2 DEF IInv, StartScope, cancelVars, MutexHeld, HooksOwned,
       WaitingRuns, ScopeCount, CancelDrains, FlagOwned
<1>2. CASE RefuseScope(w) \/ PollCanceled(w)
  <2>1. TypeOK' /\ ScopesMatchPc'
    BY <1>2 DEF IInv, TypeOK, ScopesMatchPc, RefuseScope, PollCanceled, cancelVars
  <2>2. OpenScopes' = OpenScopes /\ InScope' = InScope
    BY <1>2 DEF RefuseScope, PollCanceled, OpenScopes, InScope
  <2> QED
    BY <1>2, <2>1, <2>2 DEF IInv, RefuseScope, PollCanceled, cancelVars, MutexHeld,
       HooksOwned, WaitingRuns, ScopeCount, CancelDrains, FlagOwned
<1>3. CASE EnterScope(w)
  <2>1. TypeOK' /\ ScopesMatchPc'
    BY <1>3 DEF IInv, TypeOK, ScopesMatchPc, EnterScope, cancelVars, WorkerPc
  <2>2. InScope \subseteq InScope'
    BY <1>3 DEF EnterScope, InScope, IInv, TypeOK
  <2>3. ScopeCount'
    BY <1>3, EnterCounts DEF IInv, ScopeCount, EnterScope
  <2> QED
    BY <1>3, <2>1, <2>2, <2>3 DEF IInv, EnterScope, cancelVars, MutexHeld,
       HooksOwned, WaitingRuns, CancelDrains, FlagOwned
<1>4. CASE EndScope(w)
  <2> DEFINE card == Cardinality(OpenScopes)
  <2>0. card \in Nat /\ card > 0 /\ card' = card - 1
    BY <1>4, EndCounts, OpenScopesFinite
  <2>1. running_ops' \in Nat /\ ScopeCount'
    <3>1. running_ops = card /\ running_ops' = running_ops - 1
      BY <1>4 DEF IInv, ScopeCount, EndScope
    <3> HIDE DEF card
    <3>2. running_ops' \in Nat /\ running_ops' = card'
      BY <2>0, <3>1
    <3> QED
      BY <3>2 DEF ScopeCount, card
  <2>2. TypeOK'
    <3>1. /\ depth' \in [Workers -> 0 .. MaxDepth]
          /\ wpc' \in [Workers -> WorkerPc]
          /\ waiting' \in [Cancellers -> SUBSET Workers]
      BY <1>4 DEF IInv, TypeOK, ScopesMatchPc, EndScope, WorkerPc
    <3>2. seen' \in [Workers -> BOOLEAN]
      BY <1>4 DEF IInv, TypeOK, EndScope
    <3> QED
      BY <1>4, <2>1, <3>1, <3>2 DEF IInv, TypeOK, EndScope, cancelVars
  <2>7. ScopesMatchPc'
    BY <1>4 DEF IInv, TypeOK, ScopesMatchPc, EndScope
  <2>3. InScope' = InScope \ (IF depth[w] = 1 THEN {w} ELSE {})
    BY <1>4 DEF EndScope, InScope, IInv, TypeOK, ScopesMatchPc
  <2>4. \A c \in Cancellers :
            waiting'[c] = waiting[c] \ (IF depth[w] = 1 THEN {w} ELSE {})
    BY <1>4 DEF EndScope
  <2>5. HooksOwned' /\ WaitingRuns'
    BY <1>4, <2>3, <2>4 DEF IInv, EndScope, cancelVars, HooksOwned, WaitingRuns
  <2>6. CancelDrains'
    BY <1>4, <2>4 DEF IInv, EndScope, cancelVars, CancelDrains
  <2> QED
    BY <1>4, <2>1, <2>2, <2>5, <2>6, <2>7 DEF IInv, EndScope, cancelVars, MutexHeld,
       FlagOwned
<1>5. CASE RegisterHook(w) \/ RemoveHook(w)
  <2>1. TypeOK' /\ ScopesMatchPc'
    BY <1>5 DEF IInv, TypeOK, ScopesMatchPc, RegisterHook, RemoveHook, cancelVars,
       workerVars
  <2>2. OpenScopes' = OpenScopes /\ InScope' = InScope
    BY <1>5 DEF RegisterHook, RemoveHook, workerVars, OpenScopes, InScope
  <2>3. w \in InScope
    BY <1>5 DEF IInv, ScopesMatchPc, RegisterHook, RemoveHook, InScope
  <2>4. \A c \in Cancellers : todo[c] = {}
    BY <1>5, ThreadsDisjoint DEF IInv, HooksOwned, MutexHeld, RegisterHook, RemoveHook
  <2>5. HooksOwned'
    BY <1>5, <2>2, <2>3, <2>4 DEF IInv, HooksOwned, RegisterHook, RemoveHook, cancelVars
  <2> QED
    BY <1>5, <2>1, <2>2, <2>5 DEF IInv, RegisterHook, RemoveHook, cancelVars,
       MutexHeld, WaitingRuns, ScopeCount, CancelDrains, FlagOwned
<1> QED
  BY <1>1, <1>2, <1>3, <1>4, <1>5 DEF WorkerStep

\* The steps of a thread that cancels keep IInv.
LEMMA CancellerKeepsIInv ==
    ASSUME IInv, NEW c \in Cancellers, CancellerStep(c)
    PROVE  IInv'
<1>1. depth' = depth /\ running_ops' = running_ops /\ hooks' = hooks /\ wpc' = wpc
  BY DEF CancellerStep, CancelEnter, CancelLock, CancelCount, CancelRaise, CancelHook,
     CancelUnlock, CancelDrained, CancelReturn, workerVars
<1>2. OpenScopes' = OpenScopes /\ InScope' = InScope
  BY <1>1 DEF OpenScopes, InScope
<1>3. ScopeCount' /\ ScopesMatchPc'
  BY <1>1, <1>2 DEF IInv, ScopeCount, ScopesMatchPc
<1>4. CASE CancelEnter(c) \/ CancelLock(c) \/ CancelCount(c)
  <2>1. TypeOK'
    BY <1>1, <1>4 DEF IInv, TypeOK, CancelPc, CancelEnter, CancelLock, CancelCount,
       workerVars
  <2>2. MutexHeld'
    BY <1>4, ThreadsDisjoint DEF IInv, TypeOK, MutexHeld, CancelEnter, CancelLock,
       CancelCount
  <2>3. HooksOwned' /\ WaitingRuns' /\ CancelDrains' /\ FlagOwned'
    BY <1>1, <1>2, <1>4 DEF IInv, TypeOK, HooksOwned, WaitingRuns, CancelDrains,
       FlagOwned, CancelEnter, CancelLock, CancelCount
  <2> QED
    BY <1>3, <2>1, <2>2, <2>3 DEF IInv
<1>5. CASE CancelRaise(c)
  <2>1. TypeOK'
    BY <1>1, <1>5 DEF IInv, TypeOK, CancelPc, CancelRaise, workerVars, InScope
  <2>2. MutexHeld'
    BY <1>5 DEF IInv, TypeOK, MutexHeld, CancelRaise
  <2>3. HooksOwned' /\ WaitingRuns' /\ CancelDrains' /\ FlagOwned'
    BY <1>1, <1>2, <1>5 DEF IInv, TypeOK, HooksOwned, WaitingRuns, CancelDrains,
       FlagOwned, CancelRaise
  <2> QED
    BY <1>3, <2>1, <2>2, <2>3 DEF IInv
<1>6. CASE CancelHook(c)
  <2>1. TypeOK'
    BY <1>1, <1>6 DEF IInv, TypeOK, CancelHook
  <2>2. MutexHeld'
    BY <1>6 DEF IInv, MutexHeld, CancelHook
  <2>3. HooksOwned' /\ WaitingRuns' /\ CancelDrains' /\ FlagOwned'
    BY <1>1, <1>2, <1>6 DEF IInv, TypeOK, HooksOwned, WaitingRuns, CancelDrains,
       FlagOwned, CancelHook
  <2> QED
    BY <1>3, <2>1, <2>2, <2>3 DEF IInv
<1>7. CASE CancelUnlock(c)
  <2>1. TypeOK'
    BY <1>1, <1>7 DEF IInv, TypeOK, CancelPc, CancelUnlock, workerVars
  <2>2. MutexHeld'
    BY <1>7, ThreadsDisjoint DEF IInv, TypeOK, MutexHeld, CancelUnlock
  <2>3. HooksOwned' /\ WaitingRuns' /\ CancelDrains' /\ FlagOwned'
    BY <1>1, <1>2, <1>7 DEF IInv, TypeOK, HooksOwned, WaitingRuns, CancelDrains,
       FlagOwned, CancelUnlock
  <2> QED
    BY <1>3, <2>1, <2>2, <2>3 DEF IInv
<1>8. CASE CancelDrained(c)
  <2>1. TypeOK' /\ MutexHeld'
    BY <1>1, <1>8 DEF IInv, TypeOK, MutexHeld, CancelPc, CancelDrained, workerVars
  <2>2. waiting[c] = {}
    BY <1>8, ZeroMeansIdle DEF IInv, WaitingRuns, CancelDrained
  <2>3. HooksOwned' /\ WaitingRuns' /\ CancelDrains' /\ FlagOwned'
    BY <1>1, <1>2, <1>8, <2>2 DEF IInv, TypeOK, HooksOwned, WaitingRuns, CancelDrains,
       FlagOwned, CancelDrained
  <2> QED
    BY <1>3, <2>1, <2>3 DEF IInv
<1>9. CASE CancelReturn(c)
  <2>1. TypeOK' /\ MutexHeld'
    BY <1>1, <1>9 DEF IInv, TypeOK, MutexHeld, CancelPc, CancelReturn, workerVars
  <2>2. HooksOwned' /\ WaitingRuns' /\ CancelDrains' /\ FlagOwned'
    BY <1>1, <1>2, <1>9 DEF IInv, TypeOK, HooksOwned, WaitingRuns, CancelDrains,
       FlagOwned, CancelReturn
  <2> QED
    BY <1>3, <2>1, <2>2 DEF IInv
<1> QED
  BY <1>4, <1>5, <1>6, <1>7, <1>8, <1>9 DEF CancellerStep

\* IInv holds in every reachable state: the state of gfal_cancel.c stays
\* consistent under every interleaving of any number of threads.
THEOREM InvariantHolds == Spec => []IInv
<1>1. IInv /\ UNCHANGED vars => IInv'
  <2> SUFFICES ASSUME IInv, UNCHANGED vars PROVE IInv'
    OBVIOUS
  <2>1. OpenScopes' = OpenScopes /\ InScope' = InScope
    BY DEF vars, OpenScopes, InScope
  <2>2. TypeOK' /\ MutexHeld' /\ ScopesMatchPc'
    BY DEF IInv, vars, TypeOK, MutexHeld, ScopesMatchPc
  <2> QED
    BY <2>1, <2>2 DEF IInv, vars, HooksOwned, WaitingRuns, ScopeCount, CancelDrains,
       FlagOwned
<1>2. IInv /\ [Next]_vars => IInv'
  BY <1>1, WorkerKeepsIInv, CancellerKeepsIInv DEF Next
<1> QED
  BY <1>2, InitIInv, PTL DEF Spec

\* Type correctness: every field keeps its type and running_ops, which
\* gfal2_end_scope_cancel decrements unconditionally, never goes below zero.
THEOREM TypeCorrect == Spec => []TypeOK
<1>1. IInv => TypeOK
  BY DEF IInv
<1> QED
  BY <1>1, InvariantHolds, PTL

\* running_ops is the number of open scopes at every moment.
THEOREM CountIsExact == Spec => []ScopeCount
<1>1. IInv => ScopeCount
  BY DEF IInv
<1> QED
  BY <1>1, InvariantHolds, PTL

\* gfal2_cancel leaves its wait loop only after every operation that was in
\* scope when it raised the flag has ended, for any number of cancellers.
THEOREM CancelBlocksUntilDrained == Spec => []CancelDrains
<1>1. IInv => CancelDrains
  BY DEF IInv
<1> QED
  BY <1>1, InvariantHolds, PTL

\* g_hook_list_invoke never reaches a hook that was removed or whose
\* operation has returned.
THEOREM HooksNeverDangle == Spec => []HooksAlive
<1>1. IInv => HooksAlive
  BY DEF IInv, HooksOwned, HooksAlive
<1> QED
  BY <1>1, InvariantHolds, PTL

\* A raised flag belongs to a canceller that has not returned: overlapping
\* calls of gfal2_cancel never leave the context cancelled for ever.
THEOREM FlagNeverOrphaned == Spec => []FlagOwned
<1>1. IInv => FlagOwned
  BY DEF IInv
<1> QED
  BY <1>1, InvariantHolds, PTL

-----------------------------------------------------------------------------
(***************************************************************************)
(* The plugins of a context: PosixInv is inductive, for any number of threads,*)
(* directories, plugins and URLs.  It says how far each load has come, what*)
(* the sorted list holds and where each handle points.                     *)
(***************************************************************************)

(* The files of some kinds                                                 *)

\* The function in OfKind, for the first n files.
IsKept(kept, dir, kinds, n) ==
    kept = [i \in 0 .. n |->
              IF i = 0 THEN <<>>
              ELSE IF Kind[dir[i]] \in kinds THEN Append(kept[i - 1], dir[i])
              ELSE kept[i - 1]]

\* The function in OfKind is defined.
LEMMA KeptExists ==
    ASSUME NEW dir, NEW kinds, NEW n \in Nat
    PROVE  \E kept : IsKept(kept, dir, kinds, n)
  <1> USE DEF IsKept
  <1> DEFINE Is(kept, m) == IsKept(kept, dir, kinds, m)
             P == {m \in Nat : \E kept : Is(kept, m)}
  <1>1. 0 \in P
    <2> DEFINE k0 == [i \in 0 .. 0 |-> <<>>]
    <2>1. Is(k0, 0)
      OBVIOUS
    <2> QED
      BY <2>1
  <1>2. ASSUME NEW m \in Nat, m \in P
        PROVE  m + 1 \in P
    <2>1. PICK kept : Is(kept, m)
      BY <1>2
    <2> DEFINE e == IF Kind[dir[m + 1]] \in kinds THEN Append(kept[m], dir[m + 1]) ELSE kept[m]
               next == [i \in 0 .. m + 1 |-> IF i = m + 1 THEN e ELSE kept[i]]
    <2>2. \A i \in 0 .. m : next[i] = kept[i]
      OBVIOUS
    <2>3. \A i \in 0 .. m + 1 :
            next[i] = IF i = 0 THEN <<>>
                      ELSE IF Kind[dir[i]] \in kinds THEN Append(next[i - 1], dir[i])
                      ELSE next[i - 1]
      <3> TAKE i \in 0 .. m + 1
      <3>1. CASE i = m + 1
        <4>1. i # 0 /\ i - 1 = m /\ next[i - 1] = kept[m]
          BY <3>1, <2>2, SMTT(30)
        <4> QED
          BY <3>1, <4>1
      <3>2. CASE i \in 0 .. m /\ i # 0
        <4>1. i - 1 \in 0 .. m
          BY <3>2
        <4>2. next[i - 1] = kept[i - 1] /\ next[i] = kept[i]
          BY <3>2, <4>1, <2>2
        <4>3. kept[i] = IF i = 0 THEN <<>>
                        ELSE IF Kind[dir[i]] \in kinds THEN Append(kept[i - 1], dir[i])
                        ELSE kept[i - 1]
          BY <2>1, <3>2
        <4> QED
          BY <4>2, <4>3
      <3>3. CASE i = 0
        BY <2>1, <2>2, <3>3
      <3> QED
        BY <3>1, <3>2, <3>3
    <2>4. next = [i \in 0 .. m + 1 |-> next[i]]
      OBVIOUS
    <2> HIDE DEF next
    <2>5. Is(next, m + 1)
      BY <2>3, <2>4
    <2> HIDE DEF Is
    <2> QED
      BY <2>5
  <1> HIDE DEF P
  <1>3. Nat \subseteq P
    BY <1>1, <1>2, InductOn
  <1>4. n \in P
    BY <1>3
  <1> QED
    BY <1>4 DEF P

\* The loop over a directory, one file further.
LEMMA OfKindAppend ==
    ASSUME NEW X, NEW dir \in Seq(X), NEW kinds, NEW f \in X
    PROVE  /\ OfKind(<<>>, kinds) = <<>>
           /\ OfKind(Append(dir, f), kinds) =
                IF Kind[f] \in kinds THEN Append(OfKind(dir, kinds), f) ELSE OfKind(dir, kinds)
  <1> DEFINE Is(kept, s) == IsKept(kept, s, kinds, Len(s))
             K(s) == CHOOSE kept : Is(kept, s)
             longer == Append(dir, f)
  <1>1. ASSUME NEW s \in Seq(X)
        PROVE  Is(K(s), s)
    <2>1. Len(s) \in Nat
      BY <1>1
    <2>2. \E kept : Is(kept, s)
      BY <2>1, KeptExists
    <2> QED
      BY <2>2
  <1>2. ASSUME NEW s PROVE  OfKind(s, kinds) = K(s)[Len(s)]
    BY DEF OfKind, IsKept
  <1>3. longer \in Seq(X) /\ Len(longer) = Len(dir) + 1 /\ <<>> \in Seq(X) /\ Len(<<>>) = 0
    OBVIOUS
  <1>4. Is(K(dir), dir) /\ Is(K(longer), longer) /\ Is(K(<<>>), <<>>)
    BY <1>1, <1>3
  <1> DEFINE a == K(dir)
             b == K(longer)
             z == K(<<>>)
  <1> HIDE DEF a, b, z
  <1>5. Is(a, dir) /\ Is(b, longer) /\ Is(z, <<>>)
    BY <1>4 DEF a, b, z
  <1> USE DEF IsKept
  <1> DEFINE P == {n \in Nat : n <= Len(dir) => a[n] = b[n]}
  <1>6. 0 \in P
    BY <1>5
  <1>7. ASSUME NEW n \in Nat, n \in P
        PROVE  n + 1 \in P
    <2> SUFFICES ASSUME n + 1 <= Len(dir) PROVE a[n + 1] = b[n + 1]
      OBVIOUS
    <2>1. longer[n + 1] = dir[n + 1] /\ n + 1 # 0 /\ (n + 1) - 1 = n
      OBVIOUS
    <2>2. n + 1 \in 0 .. Len(dir) /\ n + 1 \in 0 .. Len(longer)
      BY <1>3
    <2>3. a[n + 1] = IF Kind[dir[n + 1]] \in kinds THEN Append(a[n], dir[n + 1]) ELSE a[n]
      <3>1. a[n + 1] = IF n + 1 = 0 THEN <<>>
                       ELSE IF Kind[dir[n + 1]] \in kinds
                       THEN Append(a[(n + 1) - 1], dir[n + 1]) ELSE a[(n + 1) - 1]
        BY <1>5, <2>2
      <3> QED
        BY <2>1, <3>1
    <2>4. b[n + 1] = IF Kind[longer[n + 1]] \in kinds THEN Append(b[n], longer[n + 1]) ELSE b[n]
      BY <1>5, <2>1, <2>2
    <2>5. a[n] = b[n]
      BY <1>7
    <2> QED
      BY <2>1, <2>3, <2>4, <2>5
  <1>8. Len(dir) \in P
    <2> HIDE DEF P
    <2>1. Nat \subseteq P
      BY <1>6, <1>7, InductOn
    <2> QED
      BY <2>1
  <1>9. a[Len(dir)] = b[Len(dir)]
    BY <1>8
  <1>10. b[Len(dir) + 1] = IF Kind[f] \in kinds THEN Append(b[Len(dir)], f) ELSE b[Len(dir)]
    <2> DEFINE l == Len(dir) + 1
    <2>1. longer[l] = f /\ l \in 0 .. Len(longer) /\ l # 0 /\ l - 1 = Len(dir)
      BY <1>3
    <2> HIDE DEF l
    <2>2. b[l] = IF l = 0 THEN <<>>
                 ELSE IF Kind[longer[l]] \in kinds THEN Append(b[l - 1], longer[l]) ELSE b[l - 1]
      BY <1>5, <2>1
    <2>3. b[l] = IF Kind[f] \in kinds THEN Append(b[Len(dir)], f) ELSE b[Len(dir)]
      BY <2>1, <2>2
    <2> QED
      BY <2>3 DEF l
  <1>11. z[0] = <<>>
    BY <1>3, <1>5
  <1>12. OfKind(dir, kinds) = a[Len(dir)] /\ OfKind(longer, kinds) = b[Len(dir) + 1]
         /\ OfKind(<<>>, kinds) = z[0]
    BY <1>2, <1>3 DEF a, b, z
  <1> QED
    BY <1>9, <1>10, <1>11, <1>12

\* A sequence that is not empty is a shorter one and its last element.
LEMMA LastOff ==
    ASSUME NEW X, NEW s \in Seq(X), NEW n \in Nat, Len(s) = n + 1
    PROVE  \E r \in Seq(X), e \in X : s = Append(r, e) /\ Len(r) = n
  <1> DEFINE r == [i \in 1 .. n |-> s[i]]
  <1>1. r \in Seq(X) /\ Len(r) = n /\ s[n + 1] \in X
    OBVIOUS
  <1>2. s = Append(r, s[n + 1])
    OBVIOUS
  <1> QED
    BY <1>1, <1>2

\* Nothing is kept of an empty directory.
LEMMA OfKindEmpty == \A kinds : OfKind(<<>>, kinds) = <<>>
  <1>1. <<>> \in Seq({0}) /\ 0 \in {0}
    OBVIOUS
  <1> QED
    BY <1>1, OfKindAppend

\* Only files of those kinds are kept.
LEMMA OfKindKept ==
    ASSUME NEW X, NEW dir \in Seq(X), NEW kinds, NEW Y,
           \A f \in X : Kind[f] \in kinds => f \in Y
    PROVE  OfKind(dir, kinds) \in Seq(Y)
  <1> DEFINE Q(s) == OfKind(s, kinds) \in Seq(Y)
             P == {n \in Nat : \A s \in Seq(X) : Len(s) = n => Q(s)}
  <1>1. 0 \in P
    <2>1. ASSUME NEW s \in Seq(X), Len(s) = 0
          PROVE  Q(s)
      <3>1. s = <<>>
        BY <2>1
      <3>2. <<>> \in Seq(Y)
        OBVIOUS
      <3> QED
        BY <3>1, <3>2, OfKindEmpty
    <2> QED
      BY <2>1
  <1>2. ASSUME NEW n \in Nat, n \in P
        PROVE  n + 1 \in P
    <2>1. ASSUME NEW s \in Seq(X), Len(s) = n + 1
          PROVE  Q(s)
      <3>1. PICK r \in Seq(X), e \in X : s = Append(r, e) /\ Len(r) = n
        BY <2>1, LastOff
      <3>2. Q(r)
        BY <1>2, <3>1
      <3>3. OfKind(s, kinds) = IF Kind[e] \in kinds THEN Append(OfKind(r, kinds), e)
                               ELSE OfKind(r, kinds)
        BY <3>1, OfKindAppend
      <3> QED
        BY <3>1, <3>2, <3>3
    <2> HIDE DEF Q
    <2> QED
      BY <2>1
  <1> HIDE DEF P
  <1>3. Nat \subseteq P
    BY <1>1, <1>2, InductOn
  <1>4. Len(dir) \in P
    BY <1>3
  <1> HIDE DEF Q
  <1>5. Q(dir)
    BY <1>4 DEF P
  <1> QED
    BY <1>5 DEF Q

\* To keep some kinds, and then fewer, is to keep the fewer.
LEMMA OfKindTwice ==
    ASSUME NEW X, NEW dir \in Seq(X), NEW kinds, NEW fewer, fewer \subseteq kinds
    PROVE  OfKind(OfKind(dir, kinds), fewer) = OfKind(dir, fewer)
  <1> DEFINE Q(s) == /\ OfKind(s, kinds) \in Seq(X)
                     /\ OfKind(OfKind(s, kinds), fewer) = OfKind(s, fewer)
             P == {n \in Nat : \A s \in Seq(X) : Len(s) = n => Q(s)}
  <1>1. 0 \in P
    <2>1. ASSUME NEW s \in Seq(X), Len(s) = 0
          PROVE  Q(s)
      <3>1. s = <<>>
        BY <2>1
      <3>2. <<>> \in Seq(X)
        OBVIOUS
      <3> QED
        BY <3>1, <3>2, OfKindEmpty
    <2> QED
      BY <2>1
  <1>2. ASSUME NEW n \in Nat, n \in P
        PROVE  n + 1 \in P
    <2>1. ASSUME NEW s \in Seq(X), Len(s) = n + 1
          PROVE  Q(s)
      <3>1. PICK r \in Seq(X), e \in X : s = Append(r, e) /\ Len(r) = n
        BY <2>1, LastOff
      <3>2. Q(r)
        BY <1>2, <3>1
      <3>3. OfKind(s, kinds) = IF Kind[e] \in kinds THEN Append(OfKind(r, kinds), e)
                               ELSE OfKind(r, kinds)
        BY <3>1, OfKindAppend
      <3>4. OfKind(s, fewer) = IF Kind[e] \in fewer THEN Append(OfKind(r, fewer), e)
                               ELSE OfKind(r, fewer)
        BY <3>1, OfKindAppend
      <3>5. OfKind(Append(OfKind(r, kinds), e), fewer) =
                IF Kind[e] \in fewer THEN Append(OfKind(OfKind(r, kinds), fewer), e)
                ELSE OfKind(OfKind(r, kinds), fewer)
        BY <3>1, <3>2, OfKindAppend
      <3>6. Append(OfKind(r, kinds), e) \in Seq(X)
        BY <3>1, <3>2
      <3> QED
        BY <3>2, <3>3, <3>4, <3>5, <3>6
    <2> HIDE DEF Q
    <2> QED
      BY <2>1
  <1> HIDE DEF P
  <1>3. Nat \subseteq P
    BY <1>1, <1>2, InductOn
  <1>4. Len(dir) \in P
    BY <1>3
  <1> HIDE DEF Q
  <1>5. Q(dir)
    BY <1>4 DEF P
  <1> QED
    BY <1>5 DEF Q

-----------------------------------------------------------------------------
(* The order of the plugins                                                *)

\* The positions of a list, each once, in the order of the priorities.
IsOrder(order, list) ==
    /\ order \in Seq(Nat) /\ Len(order) = Len(list)
    /\ \A k \in 1 .. Len(list) : order[k] \in 1 .. Len(list)
    /\ \A i \in 1 .. Len(list) : \E k \in 1 .. Len(list) : order[k] = i
    /\ \A k, l \in 1 .. Len(list) : k < l =>
          \/ Priority[list[order[k]]] > Priority[list[order[l]]]
          \/ Priority[list[order[k]]] = Priority[list[order[l]]] /\ order[k] < order[l]

\* There is an order by priority, and gfal_plugins_sort arrives at one.
LEMMA SortedOrder ==
    ASSUME NEW list \in Seq(Makeable \cup Clients)
    PROVE  IsOrder(SortedByPriority(list), list)
  <1> DEFINE n == Len(list)
             D == 1 .. n
             pr(i) == Priority[list[i]]
             B(i, j) == pr(i) > pr(j) \/ (pr(i) = pr(j) /\ i < j)
             Is(o) == /\ \A i \in D : \E k \in D : o[k] = i
                      /\ \A k, l \in D : k < l => B(o[k], o[l])
  <1>1. n \in Nat /\ DOMAIN list = D /\ D \subseteq Nat /\ \A i \in D : pr(i) \in Int
    BY PriorityOK
  <1> HIDE DEF pr, n
  <1> DEFINE Down(i) == {j \in D : B(j, i)}
             rank == [i \in D |-> Cardinality(Down(i)) + 1]
  <1>2. IsFiniteSet(D) /\ Cardinality(D) = n
    BY <1>1, FS_Interval
  <1>3. ASSUME NEW i \in D, NEW j \in D
        PROVE  i # j => B(i, j) \/ B(j, i)
    BY <1>1, <1>3
  <1>4. ASSUME NEW i \in D
        PROVE  IsFiniteSet(Down(i)) /\ Cardinality(Down(i)) \in Nat /\ i \notin Down(i)
    <2>1. IsFiniteSet(Down(i))
      BY <1>2, FS_Subset
    <2>2. Cardinality(Down(i)) \in Nat
      BY <2>1, FS_CardinalityType
    <2>3. i \notin Down(i)
      BY <1>1, <1>4
    <2> QED
      BY <2>1, <2>2, <2>3
  <1>5. ASSUME NEW i \in D
        PROVE  rank[i] \in D
    <2>1. Cardinality(Down(i)) <= n /\ Cardinality(Down(i)) # n
      BY <1>2, <1>4, <1>5, FS_Subset
    <2>2. rank[i] = Cardinality(Down(i)) + 1
      BY <1>5
    <2> HIDE DEF Down, rank
    <2> QED
      BY <1>1, <1>4, <1>5, <2>1, <2>2
  <1>6. ASSUME NEW i \in D, NEW j \in D, B(i, j)
        PROVE  rank[i] < rank[j]
    <2>1. Down(i) \subseteq Down(j)
      <3> SUFFICES ASSUME NEW k \in D, B(k, i) PROVE B(k, j)
        OBVIOUS
      <3>1. pr(k) \in Int /\ pr(i) \in Int /\ pr(j) \in Int /\ k \in Nat /\ i \in Nat /\ j \in Nat
        BY <1>1, <1>6
      <3> QED
        BY <1>6, <3>1
    <2>2. i \in Down(j) /\ i \notin Down(i)
      BY <1>4, <1>6
    <2>3. Cardinality(Down(i)) <= Cardinality(Down(j)) /\ Cardinality(Down(i)) # Cardinality(Down(j))
      BY <1>4, <1>6, <2>1, <2>2, FS_Subset
    <2>4. Cardinality(Down(i)) \in Nat /\ Cardinality(Down(j)) \in Nat
      BY <1>4, <1>6
    <2>5. rank[i] = Cardinality(Down(i)) + 1 /\ rank[j] = Cardinality(Down(j)) + 1
      BY <1>6
    <2> HIDE DEF Down, rank
    <2> QED
      BY <2>3, <2>4, <2>5
  <1> HIDE DEF Down
  <1>7. rank \in [D -> D] /\ \A i, j \in D : rank[i] = rank[j] => i = j
    <2>1. rank \in [D -> D]
      BY <1>5
    <2>2. ASSUME NEW i \in D, NEW j \in D, rank[i] = rank[j]
          PROVE  i = j
      <3> HIDE DEF rank, B
      <3>1. rank[i] \in Nat /\ rank[j] \in Nat
        BY <1>1, <2>1, <2>2
      <3> QED
        BY <1>3, <1>6, <2>2, <3>1
    <2> QED
      BY <2>1, <2>2
  <1> HIDE DEF rank, B
  <1>8. \A k \in D : \E i \in D : rank[i] = k
    <2>1. rank \in Injection(D, D)
      BY <1>7 DEF Injection, IsInjective
    <2>2. rank \in Surjection(D, D)
      BY <1>2, <2>1, FS_Injection
    <2> QED
      BY <2>2 DEF Surjection
  <1> DEFINE inv == [k \in D |-> CHOOSE i \in D : rank[i] = k]
  <1>9. \A k \in D : inv[k] \in D /\ rank[inv[k]] = k
    BY <1>8
  <1>10. inv \in [D -> D]
    BY <1>9
  <1> HIDE DEF inv
  <1>11. Is(inv)
    <2>1. ASSUME NEW i \in D PROVE \E k \in D : inv[k] = i
      <3>1. rank[i] \in D /\ inv[rank[i]] \in D /\ rank[inv[rank[i]]] = rank[i]
        BY <1>7, <1>9, <2>1
      <3>2. inv[rank[i]] = i
        BY <1>7, <2>1, <3>1
      <3> QED
        BY <3>1, <3>2
    <2>2. ASSUME NEW k \in D, NEW l \in D, k < l PROVE B(inv[k], inv[l])
      <3>1. inv[k] \in D /\ inv[l] \in D /\ rank[inv[k]] = k /\ rank[inv[l]] = l
        BY <1>9, <2>2
      <3>2. inv[k] # inv[l]
        BY <2>2, <3>1
      <3>3. ~B(inv[l], inv[k])
        BY <1>1, <1>6, <2>2, <3>1
      <3> QED
        BY <1>3, <3>1, <3>2, <3>3
    <2> QED
      BY <2>1, <2>2
  <1> DEFINE sort == CHOOSE o \in [D -> D] : Is(o)
  <1>12. sort \in [D -> D] /\ Is(sort)
    BY <1>10, <1>11
  <1>13. SortedByPriority(list) = sort
    BY <1>1 DEF SortedByPriority, B, pr
  <1> HIDE DEF sort
  <1>14. sort \in Seq(Nat) /\ Len(sort) = n
    BY <1>1, <1>12
  <1>15. \A k, l \in D : k < l => B(sort[k], sort[l])
    BY <1>12
  <1>16. \A k \in D : sort[k] \in D
    BY <1>12
  <1>17. \A i \in D : \E k \in D : sort[k] = i
    BY <1>12
  <1>18. IsOrder(sort, list)
    BY <1>14, <1>15, <1>16, <1>17 DEF IsOrder, B, pr, n
  <1> QED
    BY <1>13, <1>18

\* The loop of gfal_modules_resolve takes one file off the list.
LEMMA NextModule ==
    ASSUME NEW X, NEW m \in Seq(X), NEW k \in 0 .. Len(m), NEW rest,
           rest = SubSeq(m, k + 1, Len(m)), rest # <<>>
    PROVE  /\ k + 1 \in 1 .. Len(m) /\ m[k + 1] \in X
           /\ Head(rest) = m[k + 1] /\ Tail(rest) = SubSeq(m, (k + 1) + 1, Len(m))
           /\ SubSeq(m, 1, k) \in Seq(X)
           /\ SubSeq(m, 1, k + 1) = Append(SubSeq(m, 1, k), m[k + 1])
  <1>1. k < Len(m)
    OBVIOUS
  <1>2. rest \in Seq(X) /\ Len(rest) = Len(m) - k /\ \A i \in 1 .. Len(rest) : rest[i] = m[i + k]
    BY <1>1
  <1>3. Head(rest) = m[k + 1]
    BY <1>1, <1>2
  <1>4. Tail(rest) = SubSeq(m, (k + 1) + 1, Len(m))
    BY <1>1, <1>2
  <1>5. SubSeq(m, 1, k) \in Seq(X) /\ SubSeq(m, 1, k + 1) = Append(SubSeq(m, 1, k), m[k + 1])
    BY <1>1
  <1> QED
    BY <1>1, <1>3, <1>4, <1>5

\* What gfal_list_directory_plugins returns fits into plugin_list, and the plugins
\* among it are those of the directory.
LEMMA DirType ==
    ASSUME NEW d \in Dirs
    PROVE  /\ ModuleFiles(d) \in Seq({f \in DOMAIN Kind : Kind[f] # "text"})
           /\ ModuleFiles(d) \in Seq(DOMAIN Kind)
           /\ Len(ModuleFiles(d)) \in 0 .. MaxPluginList
           /\ OfKind(ModuleFiles(d), {"plugin"}) = OfKind(d, {"plugin"})
  <1> DEFINE K == {"broken", "nosymbol", "plugin"}
             L == {"plugin"}
             Y == {f \in DOMAIN Kind : Kind[f] # "text"}
  <1>1. d \in Seq(DOMAIN Kind) /\ L \subseteq K /\ ModuleFiles(d) = OfKind(d, K)
    BY DirsOK DEF ModuleFiles
  <1>2. \A f \in DOMAIN Kind : Kind[f] \in K => f \in Y
    OBVIOUS
  <1>3. ModuleFiles(d) \in Seq(Y) /\ OfKind(ModuleFiles(d), L) = OfKind(d, L)
    <2> HIDE DEF K, L, Y
    <2>1. OfKind(d, K) \in Seq(Y)
      BY <1>1, <1>2, OfKindKept
    <2>2. OfKind(OfKind(d, K), L) = OfKind(d, L)
      BY <1>1, OfKindTwice
    <2> QED
      BY <1>1, <2>1, <2>2
  <1>4. Len(ModuleFiles(d)) <= MaxPluginList
    BY DirsFit
  <1>5. ModuleFiles(d) \in Seq(DOMAIN Kind)
    BY <1>3
  <1> QED
    BY <1>3, <1>4, <1>5, MaxPluginListAssumption

-----------------------------------------------------------------------------
(* Threads                                                                 *)

\* What a step of another thread leaves of a thread: at most it races.
Untouched(u) ==
    /\ pc'[u] = pc[u] /\ context'[u] = context[u] /\ plugins'[u] = plugins[u]
    /\ number'[u] = number[u] /\ sorted'[u] = sorted[u] /\ modules'[u] = modules[u]
    /\ mine'[u] = mine[u] /\ alive'[u] = alive[u] /\ halted'[u] = halted[u]
    /\ listed'[u] = listed[u] /\ outside'[u] = outside[u]
    /\ handle'[u] = handle[u] /\ last'[u] = last[u]
    /\ raced[u] => raced'[u]
    /\ debug' = debug

\* A step of one thread says nothing of another.
LEMMA UntouchedKeeps ==
    ASSUME NEW u, ThreadInv(u), Untouched(u)
    PROVE  ThreadInv(u)'
  <1> USE DEF ThreadInv, Untouched
  <1>1. CountInv(u)'
    BY DEF CountInv
  <1>2. StageInv(u)'
    BY DEF StageInv
  <1>3. SortInv(u)'
    BY DEF SortInv
  <1>4. LoadInv(u)'
    BY DEF LoadInv
  <1>5. ListInv(u)'
    BY DEF ListInv, Listed
  <1>6. HandleInv(u)'
    BY DEF HandleInv
  <1> QED
    BY <1>1, <1>2, <1>3, <1>4, <1>5, <1>6

\* A step of one thread keeps PosixInv if it keeps the part of that thread.
LEMMA StepOfOne ==
    ASSUME PosixInv, NEW t \in Threads, PosixTypes', ThreadInv(t)',
           \A u \in Threads \ {t} : Untouched(u)
    PROVE  PosixInv'
  <1>1. \A u \in Threads \ {t} : ThreadInv(u)'
    BY UntouchedKeeps DEF PosixInv
  <1> QED
    BY <1>1 DEF PosixInv

\* gfal_modules_resolve begins: a context that has plugins is not loaded again.
LEMMA StartLoadKeeps ==
    ASSUME PosixInv, NEW t \in Threads, StartLoad(t), UNCHANGED <<debug, posix>>
    PROVE  PosixInv'
  <1> USE DEF posix, GoTo
  <1>0. PosixTypes /\ ThreadInv(t) /\ pc[t] \in {"new", "instance"}
    BY DEF PosixInv, StartLoad
  <1>1. CASE number[t] > 0
    <2>1. pc' = [pc EXCEPT ![t] = "dispatch"] /\ UNCHANGED registry
      BY <1>1 DEF StartLoad
    <2>2. PosixTypes'
      BY <1>0, <2>1 DEF PosixTypes, registry
    <2>3. \A u \in Threads \ {t} : Untouched(u)
      BY <1>0, <2>1 DEF PosixTypes, registry, Untouched
    <2>4. pc'[t] = "dispatch" /\ pc[t] = "instance" /\ context[t]
      BY <1>0, <1>1, <2>1 DEF PosixTypes, ThreadInv, StageInv
    <2>5. CountInv(t)' /\ StageInv(t)'
      BY <1>0, <1>1, <2>1, <2>4 DEF ThreadInv, CountInv, StageInv, registry, Loading
    <2>6. SortInv(t)'
      BY <1>0, <1>1, <2>1, <2>4 DEF ThreadInv, SortInv, registry, Loading
    <2>7. LoadInv(t)'
      BY <2>4 DEF LoadInv, Loading
    <2>8. ListInv(t)'
      BY <1>0, <1>1, <2>1, <2>4 DEF ThreadInv, ListInv, Listed, registry
    <2>9. HandleInv(t)'
      BY <1>0, <1>1, <2>1, <2>4 DEF ThreadInv, HandleInv, registry
    <2>10. ThreadInv(t)'
      BY <1>0, <2>5, <2>6, <2>7, <2>8, <2>9 DEF ThreadInv
    <2> QED
      BY <2>2, <2>3, <2>10, StepOfOne
  <1>2. CASE /\ number[t] <= 0
             /\ \E d \in Dirs :
                    /\ modules' = [modules EXCEPT ![t] = ModuleFiles(d)]
                    /\ plugins' = [plugins EXCEPT ![t] = <<>>]
                    /\ listed' = [listed EXCEPT ![t] =
                                    [dir |-> d, from |-> IF number[t] < 0 THEN 2 ELSE 1]]
                    /\ GoTo(t, IF pc[t] = "new" THEN "load" ELSE "reload")
                    /\ UNCHANGED <<number, halted>>
             /\ UNCHANGED <<context, sorted, constructor, mine, alive, raced, outside>>
    <2> DEFINE first == IF number[t] < 0 THEN 2 ELSE 1
    <2>1. PICK d \in Dirs :
                    /\ modules' = [modules EXCEPT ![t] = ModuleFiles(d)]
                    /\ plugins' = [plugins EXCEPT ![t] = <<>>]
                    /\ listed' = [listed EXCEPT ![t] = [dir |-> d, from |-> first]]
                    /\ pc' = [pc EXCEPT ![t] = IF pc[t] = "new" THEN "load" ELSE "reload"]
                    /\ UNCHANGED <<number, halted>>
      BY <1>2
    <2>11. <<>> \in Seq(Makeable \cup Clients) /\ Len(<<>>) = 0
      OBVIOUS
    <2>12. ModuleFiles(d) \in Seq(DOMAIN Kind)
      BY <2>1, DirType
    <2>13. number[t] \in -1 .. 0 /\ first \in {1, 2} /\ number[t] = 0 - (first - 1)
      BY <1>0, <1>2, MaxPluginListAssumption DEF PosixTypes
    <2>14. d \in Seq(DOMAIN Kind)
      BY <2>1, DirsOK
    <2> HIDE DEF first
    <2>15. [dir |-> d, from |-> first] \in [dir : Seq(DOMAIN Kind), from : {1, 2}]
      BY <2>13, <2>14
    <2>16. listed' \in [Threads -> [dir : Seq(DOMAIN Kind), from : {1, 2}]]
      BY <1>0, <2>1, <2>15 DEF PosixTypes
    <2>2. PosixTypes'
      BY <1>0, <1>2, <2>11, <2>12, <2>16, <2>1 DEF PosixTypes, Loading
    <2>3. \A u \in Threads \ {t} : Untouched(u)
      BY <1>0, <1>2, <2>1 DEF PosixTypes, Untouched
    <2>4. /\ pc'[t] \in {"load", "reload"} /\ modules'[t] = ModuleFiles(d) /\ plugins'[t] = <<>>
          /\ number'[t] = number[t] /\ alive[t] \in Int
          /\ listed'[t] = [dir |-> d, from |-> first]
          /\ (pc'[t] = "load" => pc[t] = "new")
          /\ (pc'[t] = "reload" => pc[t] = "instance")
      BY <1>0, <1>2, <2>1 DEF PosixTypes
    <2>5. CountInv(t)'
      <3>1. /\ number[t] < 0 => halted[t]
            /\ outside[t] => halted[t]
            /\ ~halted[t] => alive[t] = number[t]
        BY <1>0 DEF ThreadInv, CountInv
      <3>2. first = 2 => number[t] < 0
        BY <2>13 DEF first
      <3> QED
        BY <1>2, <2>1, <2>4, <2>11, <2>13, <3>1, <3>2 DEF CountInv
    <2>17. StageInv(t)'
      BY <1>0, <1>2, <2>1, <2>4, <2>13 DEF ThreadInv, StageInv, Loading
    <2>6. SortInv(t)'
      <3>1. sorted[t] = <<>> /\ sorted'[t] = sorted[t]
        BY <1>0, <1>2, <2>13 DEF ThreadInv, SortInv
      <3> QED
        BY <2>4, <3>1 DEF SortInv, Loading
    <2>7. LoadInv(t)'
      <3> DEFINE m == ModuleFiles(d)
                 L == {"plugin"}
                 l(k) == OfKind(SubSeq(m, 1, k), L)
      <3>1. m \in Seq(DOMAIN Kind) /\ 0 \in 0 .. Len(m) /\ <<>> \in Seq(DOMAIN Kind)
        BY <2>12, <2>11
      <3>2. SubSeq(m, 0 + 1, Len(m)) = m /\ SubSeq(m, 1, 0) = <<>>
        BY <3>1
      <3>3. l(0) = <<>>
        BY <3>2, OfKindEmpty
      <3>4. l(0) = <<>> /\ Len(l(0)) = 0 /\ SubSeq(l(0), first, Len(l(0))) = <<>>
        <4> HIDE DEF l
        <4>1. SubSeq(<<>>, 1, 0) = <<>> /\ SubSeq(<<>>, 2, 0) = <<>>
          OBVIOUS
        <4> QED
          BY <2>11, <2>13, <3>3, <4>1
      <3> HIDE DEF m, L
      <3>5. /\ 0 \in 0 .. Len(m)
            /\ modules'[t] = SubSeq(m, 0 + 1, Len(m))
            /\ number'[t] <= 0
            /\ number'[t] = Len(l(0)) - (first - 1)
            /\ plugins'[t] = SubSeq(l(0), first, Len(l(0)))
        <4> HIDE DEF l
        <4>1. modules'[t] = m /\ plugins'[t] = <<>> /\ number'[t] = number[t]
          BY <2>4 DEF m
        <4>2. plugins'[t] = SubSeq(l(0), first, Len(l(0)))
          BY <3>4, <4>1, Zenon
        <4>3. modules'[t] = SubSeq(m, 0 + 1, Len(m))
          BY <3>2, <4>1, Zenon
        <4>4. number'[t] <= 0 /\ number'[t] = Len(l(0)) - (first - 1)
          BY <2>13, <3>4, <4>1
        <4> QED
          BY <3>1, <4>2, <4>3, <4>4, Zenon
      <3>6. \E k \in 0 .. Len(m) :
                  /\ modules'[t] = SubSeq(m, k + 1, Len(m))
                  /\ number'[t] <= k
                  /\ number'[t] = Len(l(k)) - (first - 1)
                  /\ ~raced'[t] => (number'[t] >= 0 => plugins'[t] = SubSeq(l(k), first, Len(l(k))))
        <4> HIDE DEF l
        <4> QED
          BY <3>5
      <3>7. listed'[t].dir = d /\ listed'[t].from = first
        BY <2>4
      <3> QED
        BY <2>1, <2>4, <3>6, <3>7 DEF LoadInv, m, L
    <2>8. ListInv(t)'
      BY <2>4 DEF ListInv
    <2>9. HandleInv(t)'
      <3>1. handle[t] = NoHandle /\ handle'[t] = handle[t]
        BY <1>0, <1>2, <2>13 DEF ThreadInv, HandleInv
      <3> QED
        BY <3>1 DEF HandleInv
    <2>10. ThreadInv(t)'
      BY <1>0, <2>5, <2>17, <2>6, <2>7, <2>8, <2>9 DEF ThreadInv
    <2> QED
      BY <2>2, <2>3, <2>10, StepOfOne
  <1>3. CASE /\ number[t] <= 0
             /\ number' = [number EXCEPT ![t] = -1]
             /\ GoTo(t, IF pc[t] = "new" THEN "refused" ELSE "failed")
             /\ halted' = [halted EXCEPT ![t] = TRUE]
             /\ UNCHANGED <<modules, plugins, listed>>
             /\ UNCHANGED <<context, sorted, constructor, mine, alive, raced, outside>>
    <2>0. -1 \in -1 .. MaxPluginList
      BY MaxPluginListAssumption
    <2>2. PosixTypes'
      BY <1>0, <1>3, <2>0 DEF PosixTypes, Loading
    <2>3. \A u \in Threads \ {t} : Untouched(u)
      BY <1>0, <1>3 DEF PosixTypes, Untouched
    <2>4. /\ pc'[t] \in {"refused", "failed"} /\ number'[t] = -1
          /\ number[t] <= 0 /\ number[t] \in Int
          /\ (pc'[t] = "refused" => pc[t] = "new")
          /\ (pc'[t] = "failed" => pc[t] = "instance")
      BY <1>0, <1>3 DEF PosixTypes
    <2>11. halted'[t] = TRUE
      BY <1>0, <1>3 DEF PosixTypes
    <2>5. CountInv(t)'
      BY <1>0, <1>3, <2>4, <2>11 DEF ThreadInv, CountInv
    <2>12. StageInv(t)'
      BY <1>0, <1>3, <2>4 DEF ThreadInv, StageInv, Loading
    <2>6. SortInv(t)'
      BY <1>0, <1>3, <2>4 DEF ThreadInv, SortInv, Loading
    <2>7. LoadInv(t)' /\ ListInv(t)'
      BY <2>4 DEF LoadInv, Loading, ListInv
    <2>9. HandleInv(t)'
      BY <1>0, <1>3, <2>4 DEF ThreadInv, HandleInv
    <2>10. ThreadInv(t)'
      BY <1>0, <2>5, <2>6, <2>7, <2>9, <2>12 DEF ThreadInv
    <2> QED
      BY <2>2, <2>3, <2>10, StepOfOne
  <1>4. number[t] \in Int
    BY <1>0 DEF PosixTypes
  <1> QED
    BY <1>1, <1>2, <1>3, <1>4 DEF StartLoad

\* The loop over the loaded plugins, one further.
LEMMA OneFurther ==
    ASSUME NEW S, NEW s \in Seq(S), NEW x \in S, NEW from \in {1, 2}, from <= Len(s) + 1
    PROVE  SubSeq(Append(s, x), from, Len(Append(s, x))) = Append(SubSeq(s, from, Len(s)), x)
  OBVIOUS

\* The first plugin of a load that began at -1 does not go into the list.
LEMMA FirstIsLost ==
    ASSUME NEW S, NEW s \in Seq(S), Len(s) = 0, NEW x \in S
    PROVE  SubSeq(Append(s, x), 2, Len(Append(s, x))) = <<>>
  OBVIOUS

\* The module at the head is dealt with: the plugin is made, or there is none.
LEMMA LoadGoesOn ==
    ASSUME PosixInv, NEW t \in Threads, pc[t] \in Loading, modules[t] # <<>>,
           modules'[t] = Tail(modules[t]), pc'[t] \in {"load", "reload"},
           raced'[t] = raced[t], listed'[t] = listed[t],
           \/ /\ Kind[Head(modules[t])] # "plugin"
              /\ plugins'[t] = plugins[t] /\ number'[t] = number[t]
           \/ /\ Kind[Head(modules[t])] = "plugin"
              /\ number'[t] = number[t] + 1
              /\ ~raced[t] => plugins'[t] = IF number[t] < 0 THEN <<>>
                                            ELSE Append(plugins[t], Head(modules[t]))
    PROVE  LoadInv(t)' /\ number'[t] \in Int /\ number'[t] <= MaxPluginList
  <1> DEFINE d == listed[t].dir
             from == listed[t].from
             m == ModuleFiles(d)
             L == {"plugin"}
             l(k) == OfKind(SubSeq(m, 1, k), L)
  <1>1. number[t] \in Int /\ number[t] >= -1 /\ LoadInv(t) /\ from \in {1, 2}
    BY MaxPluginListAssumption DEF PosixInv, PosixTypes, ThreadInv
  <1>2. d \in Dirs /\ \E k \in 0 .. Len(m) :
                /\ modules[t] = SubSeq(m, k + 1, Len(m))
                /\ number[t] <= k
                /\ number[t] = Len(l(k)) - (from - 1)
                /\ ~raced[t] => (number[t] >= 0 => plugins[t] = SubSeq(l(k), from, Len(l(k))))
    BY <1>1 DEF LoadInv
  <1>4. m \in Seq(DOMAIN Kind) /\ Len(m) \in 0 .. MaxPluginList
    BY <1>2, DirType
  <1> HIDE DEF m, L, d, from
  <1>3. PICK k \in 0 .. Len(m) :
                /\ modules[t] = SubSeq(m, k + 1, Len(m))
                /\ number[t] <= k
                /\ number[t] = Len(l(k)) - (from - 1)
                /\ ~raced[t] => (number[t] >= 0 => plugins[t] = SubSeq(l(k), from, Len(l(k))))
    BY <1>2
  <1> DEFINE e == m[k + 1]
  <1>5. /\ k + 1 \in 1 .. Len(m) /\ e \in DOMAIN Kind
        /\ Head(modules[t]) = e /\ Tail(modules[t]) = SubSeq(m, (k + 1) + 1, Len(m))
        /\ SubSeq(m, 1, k) \in Seq(DOMAIN Kind)
        /\ SubSeq(m, 1, k + 1) = Append(SubSeq(m, 1, k), e)
    BY <1>3, <1>4, NextModule
  <1> HIDE DEF e
  <1>6. l(k + 1) = IF Kind[e] \in L THEN Append(l(k), e) ELSE l(k)
    <2> DEFINE a == SubSeq(m, 1, k)
    <2> HIDE DEF a
    <2>1. a \in Seq(DOMAIN Kind) /\ e \in DOMAIN Kind /\ SubSeq(m, 1, k + 1) = Append(a, e)
      BY <1>5 DEF a
    <2>2. OfKind(Append(a, e), L) =
            IF Kind[e] \in L THEN Append(OfKind(a, L), e) ELSE OfKind(a, L)
      BY <2>1, OfKindAppend
    <2> QED
      BY <2>1, <2>2 DEF a
  <1>11. l(k) \in Seq(DOMAIN Kind)
    <2>1. SubSeq(m, 1, k) \in Seq(DOMAIN Kind) /\ \A f \in DOMAIN Kind : Kind[f] \in L => f \in DOMAIN Kind
      BY <1>5
    <2> QED
      BY <2>1, OfKindKept
  <1>12. Kind[e] = "plugin" <=> Kind[e] \in L
    BY DEF L
  <1> HIDE DEF l
  <1>7. number'[t] \in Int /\ number'[t] <= k + 1
    BY <1>1, <1>3, SMTT(30)
  <1>13. number'[t] = Len(l(k + 1)) - (from - 1)
    <2>1. CASE Kind[e] = "plugin"
      <3>1. number'[t] = number[t] + 1
        BY <1>5, <2>1
      <3>2. Len(l(k + 1)) = Len(l(k)) + 1 /\ Len(l(k)) \in Nat
        BY <1>5, <1>6, <1>11, <1>12, <2>1
      <3> QED
        BY <1>1, <1>3, <3>1, <3>2
    <2>2. CASE Kind[e] # "plugin"
      <3>1. number'[t] = number[t] /\ l(k + 1) = l(k)
        BY <1>5, <1>6, <1>12, <2>2
      <3> QED
        BY <1>3, <3>1
    <2> QED
      BY <2>1, <2>2
  <1>8. ~raced'[t] => (number'[t] >= 0 => plugins'[t] = SubSeq(l(k + 1), from, Len(l(k + 1))))
    <2> SUFFICES ASSUME ~raced[t], number'[t] >= 0
                 PROVE  plugins'[t] = SubSeq(l(k + 1), from, Len(l(k + 1)))
      OBVIOUS
    <2>1. CASE Kind[e] # "plugin"
      BY <1>3, <1>5, <1>6, <1>12, <2>1
    <2>2. CASE Kind[e] = "plugin" /\ number[t] >= 0
      <3>1. l(k + 1) = Append(l(k), e) /\ from <= Len(l(k)) + 1
        BY <1>1, <1>3, <1>6, <1>11, <1>12, <2>2
      <3>2. plugins[t] = SubSeq(l(k), from, Len(l(k)))
        BY <1>3, <2>2
      <3>5. ~(number[t] < 0)
        BY <1>1, <2>2
      <3>3. plugins'[t] = Append(plugins[t], e)
        <4>1. plugins'[t] = IF number[t] < 0 THEN <<>> ELSE Append(plugins[t], Head(modules[t]))
          BY <1>5, <2>2
        <4> QED
          BY <1>5, <3>5, <4>1, Zenon
      <3>4. plugins'[t] = Append(SubSeq(l(k), from, Len(l(k))), e)
        BY <3>2, <3>3
      <3> QED
        BY <1>1, <1>5, <1>11, <3>1, <3>4, OneFurther, ZenonT(30)
    <2>3. CASE Kind[e] = "plugin" /\ number[t] < 0
      <3>1. number[t] = -1 /\ from = 2 /\ Len(l(k)) = 0 /\ l(k + 1) = Append(l(k), e)
        BY <1>1, <1>3, <1>6, <1>11, <1>12, <2>3
      <3>2. plugins'[t] = <<>>
        BY <1>5, <2>3
      <3>3. SubSeq(Append(l(k), e), 2, Len(Append(l(k), e))) = <<>>
        BY <1>5, <1>11, <3>1, FirstIsLost
      <3> QED
        BY <3>1, <3>2, <3>3
    <2> QED
      BY <1>1, <2>1, <2>2, <2>3
  <1>9. modules'[t] = SubSeq(m, (k + 1) + 1, Len(m)) /\ k + 1 \in 0 .. Len(m)
    BY <1>5
  <1>10. LoadInv(t)'
    <2>1. \E j \in 0 .. Len(m) :
                /\ modules'[t] = SubSeq(m, j + 1, Len(m))
                /\ number'[t] <= j
                /\ number'[t] = Len(l(j)) - (from - 1)
                /\ ~raced'[t] => (number'[t] >= 0 => plugins'[t] = SubSeq(l(j), from, Len(l(j))))
      BY <1>7, <1>8, <1>9, <1>13
    <2> QED
      BY <1>2, <2>1 DEF LoadInv, m, d, from, l, L
  <1>14. number'[t] <= MaxPluginList
    BY <1>4, <1>7, <1>9, MaxPluginListAssumption
  <1> QED
    BY <1>7, <1>10, <1>14

\* dlopen fails: the load goes on with the next module.
LEMMA SkipBrokenKeeps ==
    ASSUME PosixInv, NEW t \in Threads, SkipBroken(t), UNCHANGED <<debug, posix>>
    PROVE  PosixInv'
  <1> USE DEF posix
  <1>1. /\ PosixTypes /\ ThreadInv(t) /\ pc[t] \in {"load", "reload"} /\ modules[t] # <<>>
        /\ modules' = [modules EXCEPT ![t] = Tail(@)]
        /\ Kind[Head(modules[t])] = "broken"
        /\ UNCHANGED <<pc, context, plugins, number, sorted, constructor, mine, loads,
                       alive, listed, raced, halted, outside>>
    BY DEF PosixInv, SkipBroken
  <1>2. modules[t] \in Seq(DOMAIN Kind) /\ Tail(modules[t]) \in Seq(DOMAIN Kind)
    BY <1>1 DEF PosixTypes
  <1>3. PosixTypes'
    BY <1>1, <1>2 DEF PosixTypes
  <1>4. \A u \in Threads \ {t} : Untouched(u)
    BY <1>1 DEF PosixTypes, Untouched
  <1>5. modules'[t] = Tail(modules[t])
    BY <1>1 DEF PosixTypes
  <1>6. LoadInv(t)'
    BY <1>1, <1>5, LoadGoesOn DEF Loading
  <1>7. CountInv(t)' /\ StageInv(t)' /\ SortInv(t)' /\ HandleInv(t)'
    BY <1>1 DEF ThreadInv, CountInv, StageInv, SortInv, HandleInv
  <1>8. ListInv(t)'
    BY <1>1 DEF ListInv
  <1>9. ThreadInv(t)'
    BY <1>1, <1>6, <1>7, <1>8 DEF ThreadInv
  <1> QED
    BY <1>3, <1>4, <1>9, StepOfOne

\* dlsym: the constructor is found, or the load fails and plugin_number is -1.
LEMMA LookUpSymbolKeeps ==
    ASSUME PosixInv, NEW t \in Threads, LookUpSymbol(t), UNCHANGED <<debug, posix>>
    PROVE  PosixInv'
  <1> USE DEF posix, GoTo
  <1>1. /\ PosixTypes /\ ThreadInv(t) /\ pc[t] \in {"load", "reload"} /\ modules[t] # <<>>
        /\ Kind[Head(modules[t])] # "broken"
        /\ raced' = [u \in Threads |->
                       raced[u] \/ (u # t /\ pc[u] \in {"construct", "reconstruct"})]
        /\ UNCHANGED <<context, plugins, sorted, modules, loads, alive, listed, outside>>
    BY DEF PosixInv, LookUpSymbol
  <1>2. raced' \in [Threads -> BOOLEAN] /\ \A u \in Threads : raced[u] => raced'[u]
    BY <1>1, Zenon
  <1>3. raced'[t] = raced[t]
    <2>1. raced[t] \in BOOLEAN
      BY <1>1 DEF PosixTypes
    <2> QED
      BY <1>1, <2>1
  <1>4. Head(modules[t]) \in DOMAIN Kind /\ Kind[Head(modules[t])] # "text"
    <2>1. PICK d \in Dirs : \E k \in 0 .. Len(ModuleFiles(d)) :
              modules[t] = SubSeq(ModuleFiles(d), k + 1, Len(ModuleFiles(d)))
      BY <1>1 DEF ThreadInv, LoadInv, Loading
    <2> DEFINE m == ModuleFiles(d)
               Y == {f \in DOMAIN Kind : Kind[f] # "text"}
    <2>2. m \in Seq(Y)
      BY <2>1, DirType
    <2>3. PICK k \in 0 .. Len(m) : modules[t] = SubSeq(m, k + 1, Len(m))
      BY <2>1
    <2>4. Head(modules[t]) \in Y
      <3> HIDE DEF m, Y
      <3> QED
        BY <1>1, <2>2, <2>3, NextModule
    <2> QED
      BY <2>4
  <1>5. CASE Kind[Head(modules[t])] = "nosymbol"
    <2>0. -1 \in -1 .. MaxPluginList
      BY MaxPluginListAssumption
    <2>1. /\ constructor' = "none"
          /\ number' = [number EXCEPT ![t] = -1]
          /\ halted' = [halted EXCEPT ![t] = TRUE]
          /\ pc' = [pc EXCEPT ![t] = IF pc[t] = "load" THEN "refused" ELSE "failed"]
          /\ UNCHANGED mine
      BY <1>5 DEF LookUpSymbol
    <2>2. PosixTypes'
      BY <1>1, <1>2, <2>0, <2>1 DEF PosixTypes
    <2>3. \A u \in Threads \ {t} : Untouched(u)
      BY <1>1, <1>2, <2>1 DEF PosixTypes, Untouched
    <2>4. /\ pc'[t] \in {"refused", "failed"} /\ number'[t] = -1 /\ halted'[t] = TRUE
          /\ number[t] \in Int
          /\ (pc'[t] = "refused" => pc[t] = "load")
          /\ (pc'[t] = "failed" => pc[t] = "reload")
      BY <1>1, <2>1 DEF PosixTypes
    <2>5. CountInv(t)'
      BY <1>1, <2>4 DEF ThreadInv, CountInv
    <2>6. StageInv(t)'
      BY <1>1, <2>4 DEF ThreadInv, StageInv, Loading
    <2>7. SortInv(t)'
      BY <1>1, <2>4 DEF ThreadInv, SortInv, Loading
    <2>8. LoadInv(t)' /\ ListInv(t)'
      BY <2>4 DEF LoadInv, Loading, ListInv
    <2>9. HandleInv(t)'
      BY <1>1, <2>4 DEF ThreadInv, HandleInv
    <2>10. ThreadInv(t)'
      BY <1>1, <2>5, <2>6, <2>7, <2>8, <2>9 DEF ThreadInv
    <2> QED
      BY <2>2, <2>3, <2>10, StepOfOne
  <1>6. CASE Kind[Head(modules[t])] # "nosymbol"
    <2>0. Head(modules[t]) \in Makeable
      BY <1>1, <1>4, <1>6, KindOK DEF Makeable
    <2>1. /\ constructor' = Head(modules[t])
          /\ mine' = [mine EXCEPT ![t] = Head(modules[t])]
          /\ pc' = [pc EXCEPT ![t] = IF pc[t] = "load" THEN "construct" ELSE "reconstruct"]
          /\ UNCHANGED <<number, halted>>
      BY <1>6 DEF LookUpSymbol
    <2>2. PosixTypes'
      BY <1>1, <1>2, <2>0, <2>1 DEF PosixTypes, Loading
    <2>3. \A u \in Threads \ {t} : Untouched(u)
      BY <1>1, <1>2, <2>1 DEF PosixTypes, Untouched
    <2>4. /\ pc'[t] \in {"construct", "reconstruct"} /\ mine'[t] = Head(modules[t])
          /\ number[t] \in Int
          /\ (pc'[t] = "construct" => pc[t] = "load")
          /\ (pc'[t] = "reconstruct" => pc[t] = "reload")
      BY <1>1, <2>1 DEF PosixTypes
    <2>5. CountInv(t)'
      BY <1>1, <2>1 DEF ThreadInv, CountInv
    <2>6. StageInv(t)'
      BY <1>1, <2>1, <2>4 DEF ThreadInv, StageInv, Loading
    <2>7. SortInv(t)'
      BY <1>1, <2>1, <2>4 DEF ThreadInv, SortInv, Loading
    <2>8. LoadInv(t)'
      BY <1>1, <1>3, <2>0, <2>1, <2>4 DEF ThreadInv, LoadInv, Loading
    <2>9. ListInv(t)'
      BY <2>4 DEF ListInv
    <2>10. HandleInv(t)'
      BY <1>1, <2>1, <2>4 DEF ThreadInv, HandleInv
    <2>11. ThreadInv(t)'
      BY <1>1, <2>5, <2>6, <2>7, <2>8, <2>9, <2>10 DEF ThreadInv
    <2> QED
      BY <2>2, <2>3, <2>11, StepOfOne
  <1> QED
    BY <1>5, <1>6

\* The constructor is called, which may be that of another thread's module.
LEMMA ConstructKeeps ==
    ASSUME PosixInv, NEW t \in Threads, Construct(t), UNCHANGED <<debug, posix>>
    PROVE  PosixInv'
  <1> USE DEF posix, GoTo
  <1>1. /\ PosixTypes /\ ThreadInv(t) /\ pc[t] \in {"construct", "reconstruct"}
        /\ mine' = [mine EXCEPT ![t] = "none"]
        /\ outside' = [outside EXCEPT ![t] = @ \/ number[t] < 0]
        /\ UNCHANGED <<context, sorted, constructor, loads, listed, raced>>
    BY DEF PosixInv, Construct
  <1>2. /\ modules[t] # <<>> /\ mine[t] = Head(modules[t]) /\ mine[t] \in Makeable
        /\ modules[t] \in Seq(DOMAIN Kind) /\ Tail(modules[t]) \in Seq(DOMAIN Kind)
        /\ plugins[t] \in Seq(Makeable \cup Clients)
        /\ number[t] \in Int /\ number[t] >= -1 /\ alive[t] \in Int
    BY <1>1, MaxPluginListAssumption DEF PosixTypes, ThreadInv, LoadInv, Loading
  <1> DEFINE grown(made) == IF number[t] < 0 THEN <<>> ELSE Append(plugins[t], made)
  <1>7. outside' \in [Threads -> BOOLEAN] /\ (outside'[t] <=> outside[t] \/ number[t] < 0)
    BY <1>1 DEF PosixTypes
  <1>3. PICK made \in ({mine[t]} \cup IF raced[t] THEN {constructor} ELSE {}) \ {"none"} :
         \/ /\ plugins' = [plugins EXCEPT ![t] = grown(made)]
            /\ number' = [number EXCEPT ![t] = @ + 1]
            /\ alive' = [alive EXCEPT ![t] = @ + 1]
            /\ modules' = [modules EXCEPT ![t] = Tail(@)]
            /\ GoTo(t, IF pc[t] = "construct" THEN "load" ELSE "reload")
            /\ UNCHANGED halted
         \/ /\ made \in Fallible
            /\ number' = [number EXCEPT ![t] = -1]
            /\ halted' = [halted EXCEPT ![t] = TRUE]
            /\ GoTo(t, IF pc[t] = "construct" THEN "refused" ELSE "failed")
            /\ UNCHANGED <<plugins, alive, modules>>
    BY <1>1 DEF Construct, PosixTypes
  <1>4. made \in Makeable /\ (~raced[t] => made = Head(modules[t]))
    BY <1>1, <1>2, <1>3 DEF PosixTypes
  <1>5. CASE /\ plugins' = [plugins EXCEPT ![t] = grown(made)]
             /\ number' = [number EXCEPT ![t] = @ + 1]
             /\ alive' = [alive EXCEPT ![t] = @ + 1]
             /\ modules' = [modules EXCEPT ![t] = Tail(@)]
             /\ pc' = [pc EXCEPT ![t] = IF pc[t] = "construct" THEN "load" ELSE "reload"]
             /\ UNCHANGED halted
    <2>1. /\ pc'[t] \in {"load", "reload"} /\ plugins'[t] = grown(made)
          /\ number'[t] = number[t] + 1 /\ alive'[t] = alive[t] + 1
          /\ modules'[t] = Tail(modules[t])
          /\ (pc'[t] = "load" => pc[t] = "construct")
          /\ (pc'[t] = "reload" => pc[t] = "reconstruct")
      BY <1>1, <1>5 DEF PosixTypes
    <2>2. Kind[Head(modules[t])] = "plugin"
      BY <1>2 DEF Makeable
    <2>3. LoadInv(t)' /\ number'[t] <= MaxPluginList
      BY <1>1, <1>2, <1>4, <2>1, <2>2, LoadGoesOn DEF Loading
    <2>4. grown(made) \in Seq(Makeable \cup Clients)
      <3>1. <<>> \in Seq(Makeable \cup Clients)
        OBVIOUS
      <3>2. Append(plugins[t], made) \in Seq(Makeable \cup Clients)
        BY <1>2, <1>4
      <3> QED
        BY <3>1, <3>2
    <2>5. number[t] + 1 \in -1 .. MaxPluginList /\ alive[t] + 1 \in Int
      BY <1>2, <2>1, <2>3, MaxPluginListAssumption
    <2>6. PosixTypes'
      <3> HIDE DEF grown
      <3> QED
        BY <1>1, <1>2, <1>5, <1>7, <2>4, <2>5 DEF PosixTypes, Loading
    <2>7. \A u \in Threads \ {t} : Untouched(u)
      BY <1>1, <1>5 DEF PosixTypes, Untouched
    <2>8. CountInv(t)'
      <3>1. /\ number[t] >= 0 => Len(plugins[t]) = number[t]
            /\ number[t] < 0 => halted[t]
            /\ (outside[t] \/ listed[t].from = 2) => halted[t]
            /\ ~halted[t] => alive[t] = number[t]
        BY <1>1 DEF ThreadInv, CountInv
      <3>2. number'[t] >= 0 => Len(plugins'[t]) = number'[t]
        <4>1. CASE number[t] >= 0
          BY <1>2, <1>4, <2>1, <3>1, <4>1
        <4>2. CASE number[t] < 0
          BY <1>2, <2>1, <4>2
        <4> QED
          BY <1>2, <4>1, <4>2
      <3>3. halted'[t] = halted[t] /\ listed'[t] = listed[t]
        BY <1>1, <1>5
      <3>4. number'[t] < 0 => halted'[t]
        BY <1>2, <2>1, <3>1, <3>3
      <3>5. (outside'[t] \/ listed'[t].from = 2) => halted'[t]
        BY <1>7, <3>1, <3>3
      <3>6. ~halted'[t] => alive'[t] = number'[t]
        BY <2>1, <3>1, <3>3
      <3> QED
        BY <3>2, <3>4, <3>5, <3>6 DEF CountInv
    <2>9. StageInv(t)'
      BY <1>1, <1>2, <2>1 DEF ThreadInv, StageInv, Loading
    <2>10. SortInv(t)'
      BY <1>1, <2>1 DEF ThreadInv, SortInv, Loading
    <2>11. ListInv(t)'
      BY <2>1 DEF ListInv
    <2>12. HandleInv(t)'
      BY <1>1, <2>1 DEF ThreadInv, HandleInv
    <2>13. ThreadInv(t)'
      BY <1>1, <2>3, <2>8, <2>9, <2>10, <2>11, <2>12 DEF ThreadInv
    <2> QED
      BY <2>6, <2>7, <2>13, StepOfOne
  <1>6. CASE /\ number' = [number EXCEPT ![t] = -1]
             /\ halted' = [halted EXCEPT ![t] = TRUE]
             /\ pc' = [pc EXCEPT ![t] = IF pc[t] = "construct" THEN "refused" ELSE "failed"]
             /\ UNCHANGED <<plugins, alive, modules>>
    <2>0. -1 \in -1 .. MaxPluginList
      BY MaxPluginListAssumption
    <2>1. /\ pc'[t] \in {"refused", "failed"} /\ number'[t] = -1 /\ halted'[t] = TRUE
          /\ (pc'[t] = "refused" => pc[t] = "construct")
          /\ (pc'[t] = "failed" => pc[t] = "reconstruct")
      BY <1>1, <1>6 DEF PosixTypes
    <2>2. PosixTypes'
      BY <1>1, <1>6, <1>7, <2>0 DEF PosixTypes
    <2>3. \A u \in Threads \ {t} : Untouched(u)
      BY <1>1, <1>6 DEF PosixTypes, Untouched
    <2>5. CountInv(t)'
      BY <1>1, <1>7, <2>1 DEF ThreadInv, CountInv
    <2>6. StageInv(t)'
      BY <1>1, <2>1 DEF ThreadInv, StageInv, Loading
    <2>7. SortInv(t)'
      BY <1>1, <2>1 DEF ThreadInv, SortInv, Loading
    <2>8. LoadInv(t)' /\ ListInv(t)'
      BY <2>1 DEF LoadInv, Loading, ListInv
    <2>9. HandleInv(t)'
      BY <1>1, <2>1 DEF ThreadInv, HandleInv
    <2>10. ThreadInv(t)'
      BY <1>1, <2>5, <2>6, <2>7, <2>8, <2>9 DEF ThreadInv
    <2> QED
      BY <2>2, <2>3, <2>10, StepOfOne
  <1> QED
    BY <1>3, <1>5, <1>6

\* The last module is dealt with: the plugins are sorted.
LEMMA FinishLoadKeeps ==
    ASSUME PosixInv, NEW t \in Threads, FinishLoad(t), UNCHANGED <<debug, posix>>
    PROVE  PosixInv'
  <1> USE DEF posix, GoTo
  <1>1. /\ PosixTypes /\ ThreadInv(t) /\ pc[t] \in {"load", "reload"} /\ modules[t] = <<>>
        /\ number' = [number EXCEPT ![t] = number[t]]
        /\ sorted' = IF number[t] > 0
                     THEN [sorted EXCEPT ![t] = SortedByPriority(plugins[t])] ELSE sorted
        /\ pc' = [pc EXCEPT ![t] = IF pc[t] = "load" THEN "instance" ELSE "dispatch"]
        /\ context' = [context EXCEPT ![t] = TRUE]
        /\ UNCHANGED <<plugins, modules, constructor, mine, loads, alive, listed, raced, halted,
                       outside>>
    BY DEF PosixInv, FinishLoad, EndLoad
  <1>2. /\ plugins[t] \in Seq(Makeable \cup Clients) /\ number[t] \in Int
        /\ (number[t] >= 0 => Len(plugins[t]) = number[t]) /\ number' = number
        /\ (pc[t] = "load" => number[t] >= 0)
    BY <1>1 DEF PosixTypes, ThreadInv, StageInv, CountInv
  <1>3. SortedByPriority(plugins[t]) \in Seq(Nat)
    BY <1>2, SortedOrder DEF IsOrder
  <1>4. pc'[t] \in {"instance", "dispatch"} /\ context'[t] = TRUE
    BY <1>1 DEF PosixTypes
  <1>5. context' \in [Threads -> BOOLEAN]
    BY <1>1 DEF PosixTypes
  <1>6. PosixTypes'
    BY <1>1, <1>2, <1>3, <1>5 DEF PosixTypes
  <1>7. \A u \in Threads \ {t} : Untouched(u)
    BY <1>1, <1>2 DEF PosixTypes, Untouched
  <1>8. CountInv(t)'
    BY <1>1, <1>2 DEF ThreadInv, CountInv
  <1>9. StageInv(t)'
    BY <1>1, <1>2, <1>4 DEF ThreadInv, StageInv, Loading
  <1>10. SortInv(t)'
    BY <1>1, <1>2, <1>4 DEF PosixTypes, ThreadInv, SortInv, Loading
  <1>11. LoadInv(t)'
    BY <1>4 DEF LoadInv, Loading
  <1>12. ListInv(t)'
    <2> DEFINE d == listed[t].dir
               from == listed[t].from
               m == ModuleFiles(d)
               L == {"plugin"}
    <2> SUFFICES ASSUME ~raced[t], number[t] >= 0
                 PROVE  /\ Len(Listed(t)) <= number[t]
                        /\ SubSeq(plugins[t], 1, Len(Listed(t))) = Listed(t)
                        /\ \A i \in (Len(Listed(t)) + 1) .. number[t] : plugins[t][i] \in Clients
      BY <1>1, <1>2 DEF ListInv, Listed
    <2>1. d \in Dirs /\ \E k \in 0 .. Len(m) :
              LET l == OfKind(SubSeq(m, 1, k), L) IN
              /\ modules[t] = SubSeq(m, k + 1, Len(m))
              /\ ~raced[t] => (number[t] >= 0 => plugins[t] = SubSeq(l, from, Len(l)))
      BY <1>1 DEF ThreadInv, LoadInv, Loading
    <2>2. m \in Seq(DOMAIN Kind) /\ OfKind(m, L) = OfKind(d, L)
      BY <2>1, DirType
    <2> HIDE DEF m, d, L
    <2>3. PICK k \in 0 .. Len(m) :
              LET l == OfKind(SubSeq(m, 1, k), L) IN
              /\ modules[t] = SubSeq(m, k + 1, Len(m))
              /\ ~raced[t] => (number[t] >= 0 => plugins[t] = SubSeq(l, from, Len(l)))
      BY <2>1
    <2>4. k = Len(m)
      BY <1>1, <2>2, <2>3
    <2>5. SubSeq(m, 1, k) = m
      BY <2>2, <2>4
    <2>6. plugins[t] = Listed(t)
      BY <2>2, <2>3, <2>5 DEF Listed, d, L
    <2>7. SubSeq(plugins[t], 1, number[t]) = plugins[t] /\ (number[t] + 1) .. number[t] = {}
      BY <1>2
    <2> QED
      BY <1>2, <2>6, <2>7
  <1>13. HandleInv(t)'
    BY <1>1 DEF ThreadInv, HandleInv
  <1>14. ThreadInv(t)'
    BY <1>1, <1>8, <1>9, <1>10, <1>11, <1>12, <1>13 DEF ThreadInv
  <1> QED
    BY <1>6, <1>7, <1>14, StepOfOne

\* gfal_posix_instance returns no context.
LEMMA NoContextKeeps ==
    ASSUME PosixInv, NEW t \in Threads, NoContext(t)
    PROVE  PosixInv'
  <1> USE DEF GoTo
  <1>1. /\ PosixTypes /\ ThreadInv(t) /\ pc[t] = "refused"
        /\ plugins' = [plugins EXCEPT ![t] = <<>>]
        /\ number' = [number EXCEPT ![t] = 0]
        /\ modules' = [modules EXCEPT ![t] = <<>>]
        /\ listed' = [listed EXCEPT ![t] = Nothing]
        /\ last' = [last EXCEPT ![t] = IF debug /\ error[t] THEN "masked" ELSE "explained"]
        /\ pc' = [pc EXCEPT ![t] = "idle"]
        /\ UNCHANGED <<context, sorted, constructor, mine, loads, alive, raced, halted,
                       outside, debug, handle>>
    BY DEF PosixInv, NoContext, Forsake
  <1>2. <<>> \in Seq(Makeable \cup Clients) /\ <<>> \in Seq(DOMAIN Kind) /\ Len(<<>>) = 0
    OBVIOUS
  <1>3. 0 \in -1 .. MaxPluginList /\ Nothing \in [dir : Seq(DOMAIN Kind), from : {1, 2}]
        /\ Nothing.from = 1
    BY <1>2, MaxPluginListAssumption DEF Nothing
  <1>4. PosixTypes'
    BY <1>1, <1>2, <1>3 DEF PosixTypes
  <1>5. \A u \in Threads \ {t} : Untouched(u)
    BY <1>1 DEF PosixTypes, Untouched
  <1>6. /\ pc'[t] = "idle" /\ number'[t] = 0 /\ plugins'[t] = <<>> /\ ~context[t]
        /\ number[t] \in Int /\ number[t] < 0 /\ listed'[t] = Nothing
        /\ last'[t] = "masked" => debug
    BY <1>1 DEF PosixTypes, ThreadInv, StageInv
  <1>7. CountInv(t)'
    BY <1>1, <1>2, <1>3, <1>6 DEF ThreadInv, CountInv
  <1>8. StageInv(t)'
    BY <1>1, <1>6 DEF StageInv, Loading
  <1>9. SortInv(t)'
    BY <1>1, <1>6 DEF ThreadInv, SortInv
  <1>10. LoadInv(t)' /\ ListInv(t)'
    BY <1>1, <1>6 DEF LoadInv, Loading, ListInv
  <1>11. HandleInv(t)'
    BY <1>1, <1>6 DEF ThreadInv, HandleInv
  <1>12. ThreadInv(t)'
    BY <1>1, <1>6, <1>7, <1>8, <1>9, <1>10, <1>11 DEF ThreadInv
  <1> QED
    BY <1>4, <1>5, <1>12, StepOfOne

\* A call that leaves the registry alone.
LEMMA CallKeeps ==
    ASSUME PosixInv, NEW t \in Threads, NEW where, NEW v,
           UNCHANGED <<registry, debug>>,
           pc' = [pc EXCEPT ![t] = where],
           \/ pc[t] = "idle" /\ where \in {"idle", IF context[t] THEN "instance" ELSE "new"}
           \/ pc[t] \in {"dispatch", "failed"} /\ where = "idle",
           last' = [last EXCEPT ![t] = v], v \in {"fine", "explained", "across"},
           \/ handle' = handle
           \/ handle' = [handle EXCEPT ![t] = NoHandle]
           \/ \E p \in 1 .. number[t] :
                /\ pc[t] = "dispatch"
                /\ handle' = [handle EXCEPT ![t] = [at |-> p, name |-> Name[plugins[t][p]]]]
    PROVE  PosixInv'
  <1>1. /\ PosixTypes /\ ThreadInv(t)
        /\ UNCHANGED <<context, plugins, number, sorted, modules, constructor, mine, loads,
                       alive, listed, raced, halted, outside, debug>>
    BY DEF PosixInv, registry
  <1>2. handle' = [u \in Threads |-> handle'[u]] /\ \A u \in Threads \ {t} : handle'[u] = handle[u]
    BY <1>1 DEF PosixTypes
  <1>3. PosixTypes'
    BY <1>1, <1>2 DEF PosixTypes
  <1>4. \A u \in Threads \ {t} : Untouched(u)
    BY <1>1, <1>2 DEF PosixTypes, Untouched
  <1>5. pc'[t] = where /\ last'[t] = v /\ number[t] \in Int
    BY <1>1 DEF PosixTypes
  <1>6. CountInv(t)'
    BY <1>1 DEF ThreadInv, CountInv
  <1>7. StageInv(t)'
    BY <1>1, <1>5 DEF ThreadInv, StageInv, Loading
  <1>8. SortInv(t)'
    BY <1>1, <1>5 DEF ThreadInv, SortInv, Loading
  <1>9. LoadInv(t)'
    BY <1>5 DEF LoadInv, Loading
  <1>10. ListInv(t)'
    <2>1. Listed(t)' = Listed(t)
      BY <1>1 DEF Listed
    <2>2. pc'[t] \in {"idle", "instance", "dispatch"} => pc[t] \in {"idle", "dispatch", "failed"}
      BY <1>5
    <2>3. pc[t] = "failed" => number[t] < 0
      BY <1>1 DEF ThreadInv, StageInv
    <2>4. pc'[t] = "instance" => context[t]
      BY <1>1, <1>5
    <2> QED
      BY <1>1, <1>5, <2>1, <2>2, <2>3, <2>4 DEF ThreadInv, ListInv
  <1>11. HandleInv(t)'
    <2>1. CASE handle'[t] = handle[t]
      BY <1>1, <1>5, <2>1 DEF ThreadInv, HandleInv, StageInv
    <2>2. CASE handle'[t] = NoHandle
      BY <2>2 DEF HandleInv
    <2>3. CASE \E p \in 1 .. number[t] :
                  /\ pc[t] = "dispatch"
                  /\ handle'[t] = [at |-> p, name |-> Name[plugins[t][p]]]
      BY <1>1, <1>5, <2>3 DEF ThreadInv, StageInv, HandleInv
    <2> QED
      BY <1>1, <2>1, <2>2, <2>3 DEF PosixTypes
  <1>12. ThreadInv(t)'
    BY <1>1, <1>5, <1>6, <1>7, <1>8, <1>9, <1>10, <1>11 DEF ThreadInv
  <1> QED
    BY <1>3, <1>4, <1>12, StepOfOne

\* What a load has put into the list has a length.
LEMMA ListedType ==
    ASSUME PosixTypes, NEW t \in Threads
    PROVE  Len(Listed(t)) \in Nat
  <1> DEFINE d == listed[t].dir
             from == listed[t].from
             L == {"plugin"}
             l == OfKind(d, L)
  <1>1. d \in Seq(DOMAIN Kind) /\ from \in {1, 2}
    BY DEF PosixTypes
  <1>2. \A f \in DOMAIN Kind : Kind[f] \in L => f \in DOMAIN Kind
    OBVIOUS
  <1> HIDE DEF L, d, from
  <1>3. l \in Seq(DOMAIN Kind)
    BY <1>1, <1>2, OfKindKept
  <1> HIDE DEF l
  <1>4. Len(SubSeq(l, from, Len(l))) \in Nat
    BY <1>1, <1>3
  <1> QED
    BY <1>4 DEF Listed, l, d, from, L

\* gfal2_register_plugin appends a plugin and sorts again.
LEMMA RegisterKeeps ==
    ASSUME PosixInv, NEW t \in Threads, RegisterPlugin(t)
    PROVE  PosixInv'
  <1>1. /\ PosixTypes /\ ThreadInv(t) /\ pc[t] = "idle" /\ context[t]
        /\ last' = [last EXCEPT ![t] = "fine"]
        /\ UNCHANGED <<pc, context, modules, constructor, mine, loads, raced, halted,
                       debug, error, handle>>
    BY DEF PosixInv, RegisterPlugin
  <1>2. PICK p \in Clients : Register(t, p)
    BY DEF RegisterPlugin
  <1> DEFINE more == IF number[t] < 0 THEN <<>> ELSE Append(plugins[t], p)
  <1>3. /\ number[t] < MaxPluginList
        /\ number' = [number EXCEPT ![t] = @ + 1]
        /\ outside' = [outside EXCEPT ![t] = @ \/ number[t] < 0]
        /\ plugins' = [plugins EXCEPT ![t] = more]
        /\ sorted' = [sorted EXCEPT ![t] = SortedByPriority(plugins'[t])]
        /\ alive' = [alive EXCEPT ![t] = IF number[t] < 0 THEN @ ELSE @ + 1]
        /\ listed' = [listed EXCEPT ![t] = IF number[t] < 0 THEN Nothing ELSE @]
    BY <1>1, <1>2 DEF Register, PosixTypes
  <1>20. Nothing \in [dir : Seq(DOMAIN Kind), from : {1, 2}] /\ Nothing.from = 1 /\ Nothing.dir = <<>>
    <2>1. <<>> \in Seq(DOMAIN Kind)
      OBVIOUS
    <2> QED
      BY <2>1 DEF Nothing
  <1>4. number[t] \in -1 .. MaxPluginList /\ plugins[t] \in Seq(Makeable \cup Clients) /\ alive[t] \in Int
    BY <1>1 DEF PosixTypes
  <1>5. number[t] + 1 \in -1 .. MaxPluginList /\ number[t] \in Int
    BY <1>3, <1>4, MaxPluginListAssumption
  <1>6. more \in Seq(Makeable \cup Clients)
    <2>1. <<>> \in Seq(Makeable \cup Clients)
      OBVIOUS
    <2>2. Append(plugins[t], p) \in Seq(Makeable \cup Clients)
      BY <1>2, <1>4
    <2> QED
      BY <2>1, <2>2
  <1>7. /\ plugins'[t] = more /\ number'[t] = number[t] + 1
        /\ sorted'[t] = SortedByPriority(more)
        /\ alive'[t] = IF number[t] < 0 THEN alive[t] ELSE alive[t] + 1
        /\ listed'[t] = IF number[t] < 0 THEN Nothing ELSE listed[t]
    BY <1>1, <1>3 DEF PosixTypes
  <1>8. outside' \in [Threads -> BOOLEAN] /\ (outside'[t] <=> outside[t] \/ number[t] < 0)
    BY <1>1, <1>3 DEF PosixTypes
  <1>9. SortedByPriority(more) \in Seq(Nat) /\ Len(SortedByPriority(more)) = Len(more)
    <2> HIDE DEF more
    <2> QED
      BY <1>6, SortedOrder DEF IsOrder
  <1>10. PosixTypes'
    <2> HIDE DEF more
    <2>1. plugins' \in [Threads -> Seq(Makeable \cup Clients)] /\ sorted' \in [Threads -> Seq(Nat)]
      BY <1>1, <1>3, <1>6, <1>7, <1>9 DEF PosixTypes
    <2>2. number' \in [Threads -> -1 .. MaxPluginList] /\ alive' \in [Threads -> Int]
      BY <1>1, <1>3, <1>4, <1>5 DEF PosixTypes
    <2>3. listed' \in [Threads -> [dir : Seq(DOMAIN Kind), from : {1, 2}]]
      BY <1>1, <1>3, <1>20 DEF PosixTypes
    <2> QED
      BY <1>1, <1>8, <2>1, <2>2, <2>3 DEF PosixTypes
  <1>11. \A u \in Threads \ {t} : Untouched(u)
    BY <1>1, <1>3 DEF PosixTypes, Untouched
  <1>12. CountInv(t)'
    BY <1>1, <1>4, <1>5, <1>7, <1>8, <1>20 DEF ThreadInv, CountInv
  <1>13. StageInv(t)'
    BY <1>1, <1>5, <1>7 DEF ThreadInv, StageInv, Loading
  <1>14. SortInv(t)'
    <2>1. CASE number[t] < 0
      <3>1. Len(SortedByPriority(more)) = 0 /\ number'[t] = 0
        BY <1>4, <1>7, <1>9, <2>1
      <3>2. sorted'[t] = <<>>
        BY <1>7, <1>9, <3>1
      <3> QED
        BY <3>1, <3>2 DEF SortInv
    <2>2. CASE number[t] >= 0
      <3>1. number'[t] > 0
        BY <1>5, <1>7, <2>2
      <3> QED
        BY <1>1, <1>7, <3>1 DEF SortInv, Loading
    <2> QED
      BY <1>5, <2>1, <2>2
  <1>15. LoadInv(t)'
    BY <1>1 DEF LoadInv, Loading
  <1>16. ListInv(t)'
    <2> SUFFICES ASSUME ~raced[t]
                 PROVE  LET l == Listed(t)' IN
                            /\ Len(l) <= number'[t]
                            /\ SubSeq(plugins'[t], 1, Len(l)) = l
                            /\ \A i \in (Len(l) + 1) .. number'[t] : plugins'[t][i] \in Clients
      BY <1>1 DEF ListInv
    <2>1. CASE number[t] >= 0
      <3> DEFINE n == Len(Listed(t))
      <3>1. plugins'[t] = Append(plugins[t], p) /\ Len(plugins[t]) = number[t]
        BY <1>1, <1>5, <1>7, <2>1 DEF ThreadInv, CountInv
      <3>2. Listed(t)' = Listed(t)
        <4>1. listed'[t] = listed[t]
          BY <1>5, <1>7, <2>1
        <4> QED
          BY <4>1 DEF Listed
      <3>3. /\ n <= number[t] /\ SubSeq(plugins[t], 1, n) = Listed(t)
            /\ \A i \in (n + 1) .. number[t] : plugins[t][i] \in Clients
        BY <1>1, <2>1 DEF ThreadInv, ListInv
      <3>4. n \in Nat
        BY <1>1, ListedType
      <3> HIDE DEF n
      <3>5. SubSeq(plugins'[t], 1, n) = SubSeq(plugins[t], 1, n)
        BY <1>4, <1>5, <3>1, <3>3, <3>4
      <3>6. \A i \in (n + 1) .. number'[t] : plugins'[t][i] \in Clients
        BY <1>2, <1>4, <1>5, <1>7, <3>1, <3>3, <3>4
      <3>7. n <= number'[t]
        BY <1>5, <1>7, <3>3, <3>4
      <3> QED
        BY <3>2, <3>3, <3>5, <3>6, <3>7 DEF n
    <2>2. CASE number[t] < 0
      <3>1. number'[t] = 0 /\ plugins'[t] = <<>> /\ listed'[t] = Nothing
        BY <1>4, <1>5, <1>7, <2>2
      <3>2. OfKind(<<>>, {"plugin"}) = <<>>
        BY OfKindEmpty
      <3>3. Listed(t)' = SubSeq(OfKind(<<>>, {"plugin"}), 1, Len(OfKind(<<>>, {"plugin"})))
        BY <1>20, <3>1 DEF Listed
      <3>4. SubSeq(<<>>, 1, Len(<<>>)) = <<>> /\ Len(<<>>) = 0 /\ SubSeq(<<>>, 1, 0) = <<>>
        OBVIOUS
      <3>5. Listed(t)' = <<>>
        BY <3>2, <3>3, <3>4, Zenon
      <3>6. \A i \in 1 .. 0 : plugins'[t][i] \in Clients
        OBVIOUS
      <3> QED
        BY <3>1, <3>4, <3>5, <3>6
    <2> QED
      BY <1>5, <2>1, <2>2
  <1>17. HandleInv(t)'
    <2> SUFFICES ASSUME handle[t] # NoHandle PROVE HandleInv(t)'
      BY <1>1 DEF HandleInv
    <2>1. /\ number[t] > 0 /\ handle[t].at \in 1 .. number[t]
          /\ handle[t].name = Name[plugins[t][handle[t].at]]
          /\ Len(plugins[t]) = number[t]
      BY <1>1, <1>5 DEF ThreadInv, HandleInv, CountInv
    <2>2. plugins'[t] = Append(plugins[t], p)
      BY <1>5, <1>7, <2>1
    <2>3. plugins'[t][handle[t].at] = plugins[t][handle[t].at]
      BY <1>4, <2>1, <2>2
    <2>4. number'[t] > 0 /\ handle[t].at \in 1 .. number'[t]
      BY <1>5, <1>7, <2>1
    <2> QED
      BY <1>1, <2>1, <2>3, <2>4 DEF HandleInv
  <1>18. last'[t] = "fine"
    BY <1>1 DEF PosixTypes
  <1>19. ThreadInv(t)'
    BY <1>12, <1>13, <1>14, <1>15, <1>16, <1>17, <1>18 DEF ThreadInv
  <1> QED
    BY <1>10, <1>11, <1>19, StepOfOne

\* A thread ends and its context is freed.
LEMMA EndThreadKeeps ==
    ASSUME PosixInv, NEW t \in Threads, EndThread(t)
    PROVE  PosixInv'
  <1> USE DEF GoTo
  <1>1. /\ PosixTypes /\ ThreadInv(t) /\ pc[t] = "idle"
        /\ context' = [context EXCEPT ![t] = FALSE]
        /\ plugins' = [plugins EXCEPT ![t] = <<>>]
        /\ sorted' = [sorted EXCEPT ![t] = <<>>]
        /\ listed' = [listed EXCEPT ![t] = Nothing]
        /\ handle' = [handle EXCEPT ![t] = NoHandle]
        /\ last' = [last EXCEPT ![t] = "fine"]
        /\ pc' = [pc EXCEPT ![t] = "ended"]
        /\ UNCHANGED <<modules, constructor, mine, loads, raced, halted, outside, debug>>
    BY DEF PosixInv, EndThread, FreeContext
  <1>2. /\ number' \in [Threads -> -1 .. MaxPluginList] /\ alive' \in [Threads -> Int]
        /\ \A u \in Threads \ {t} : number'[u] = number[u] /\ alive'[u] = alive[u]
        /\ number'[t] = 0
        /\ ~halted[t] => alive'[t] = 0
    <2>1. CASE context[t]
      <3>1. /\ alive' = [alive EXCEPT ![t] = @ - (IF number[t] > 0 THEN number[t] ELSE 0)]
            /\ number' = [number EXCEPT ![t] = 0]
        BY <2>1 DEF EndThread, FreeContext, DeletePlugins
      <3>2. number[t] \in Int /\ alive[t] \in Int /\ 0 \in -1 .. MaxPluginList
        BY <1>1, MaxPluginListAssumption DEF PosixTypes
      <3>3. ~halted[t] => alive[t] = number[t] /\ number[t] >= 0
        BY <1>1, <3>2 DEF ThreadInv, CountInv
      <3> QED
        BY <1>1, <3>1, <3>2, <3>3 DEF PosixTypes
    <2>2. CASE ~context[t]
      <3>1. UNCHANGED <<alive, number>>
        BY <2>2 DEF EndThread, FreeContext
      <3> QED
        BY <1>1, <2>2, <3>1 DEF PosixTypes, ThreadInv, CountInv, StageInv
    <2> QED
      BY <2>1, <2>2
  <1>12. <<>> \in Seq(Makeable \cup Clients) /\ <<>> \in Seq(Nat) /\ Len(<<>>) = 0
        /\ <<>> \in Seq(DOMAIN Kind)
    OBVIOUS
  <1>3. <<>> \in Seq(Makeable \cup Clients) /\ <<>> \in Seq(Nat) /\ Len(<<>>) = 0
        /\ Nothing \in [dir : Seq(DOMAIN Kind), from : {1, 2}] /\ Nothing.from = 1
    BY <1>12 DEF Nothing
  <1>4. context' \in [Threads -> BOOLEAN] /\ ~context'[t]
    BY <1>1 DEF PosixTypes
  <1>5. PosixTypes'
    BY <1>1, <1>2, <1>3, <1>4 DEF PosixTypes
  <1>6. \A u \in Threads \ {t} : Untouched(u)
    BY <1>1, <1>2 DEF PosixTypes, Untouched
  <1>7. /\ pc'[t] = "ended" /\ plugins'[t] = <<>> /\ sorted'[t] = <<>>
        /\ handle'[t] = NoHandle /\ last'[t] = "fine" /\ listed'[t] = Nothing
    BY <1>1 DEF PosixTypes
  <1>8. CountInv(t)'
    BY <1>1, <1>2, <1>3, <1>7 DEF ThreadInv, CountInv
  <1>9. StageInv(t)' /\ SortInv(t)'
    BY <1>2, <1>4, <1>7 DEF StageInv, SortInv, Loading
  <1>10. LoadInv(t)' /\ ListInv(t)' /\ HandleInv(t)'
    BY <1>7 DEF LoadInv, ListInv, HandleInv, Loading
  <1>11. ThreadInv(t)'
    BY <1>7, <1>8, <1>9, <1>10 DEF ThreadInv
  <1> QED
    BY <1>5, <1>6, <1>11, StepOfOne

-----------------------------------------------------------------------------
(* Calls                                                                   *)

\* gfal_find_plugin: the plugin found, and those that would have accepted too.
LEMMA FoundPlugin ==
    ASSUME PosixInv, NEW t \in Threads, NEW op, NEW u, FindPlugin(t, op, u) # 0
    PROVE  /\ number[t] > 0 /\ context[t] /\ pc[t] \notin Loading
           /\ FindPlugin(t, op, u) \in 1 .. number[t]
           /\ \A i \in 1 .. number[t] : Accepts(plugins[t][i], op, u) =>
                \/ i = FindPlugin(t, op, u)
                \/ Priority[plugins[t][FindPlugin(t, op, u)]] > Priority[plugins[t][i]]
                \/ /\ Priority[plugins[t][FindPlugin(t, op, u)]] = Priority[plugins[t][i]]
                   /\ FindPlugin(t, op, u) < i
  <1> DEFINE n == Len(sorted[t])
             S == {k \in 1 .. Len(sorted[t]) : \/ Accepts(plugins[t][sorted[t][k]], op, u)
                                               \/ <<plugins[t][sorted[t][k]], u>> \in Confused}
             p == FindPlugin(t, op, u)
  <1>1. /\ PosixTypes /\ ThreadInv(t)
        /\ plugins[t] \in Seq(Makeable \cup Clients) /\ number[t] \in Int /\ sorted[t] \in Seq(Nat)
    BY DEF PosixInv, PosixTypes
  <1>2. number[t] > 0 /\ S # {} /\ p = sorted[t][Min(S)]
    <2> DEFINE k == IF S # {} THEN Min(S) ELSE 0
    <2>1. p = IF number[t] <= 0 \/ k = 0 THEN 0
              ELSE IF <<plugins[t][sorted[t][k]], u>> \in Confused THEN 0
              ELSE sorted[t][k]
      BY DEF FindPlugin, SelectInSeq
    <2> HIDE DEF S, p
    <2>2. p # 0
      BY DEF p
    <2> QED
      BY <1>1, <2>1, <2>2
  <1>3. context[t] /\ pc[t] \notin Loading /\ sorted[t] = SortedByPriority(plugins[t])
    <2>1. sorted[t] # <<>>
      <3> SUFFICES ASSUME sorted[t] = <<>> PROVE FALSE
        OBVIOUS
      <3>1. 1 .. Len(sorted[t]) = {}
        OBVIOUS
      <3> QED
        BY <1>2, <3>1
    <2> QED
      BY <1>1, <2>1 DEF ThreadInv, SortInv
  <1>9. /\ Len(sorted[t]) = Len(plugins[t])
        /\ \A k \in 1 .. Len(plugins[t]) : sorted[t][k] \in 1 .. Len(plugins[t])
        /\ \A i \in 1 .. Len(plugins[t]) : \E k \in 1 .. Len(plugins[t]) : sorted[t][k] = i
        /\ \A k, l \in 1 .. Len(plugins[t]) : k < l =>
             \/ Priority[plugins[t][sorted[t][k]]] > Priority[plugins[t][sorted[t][l]]]
             \/ /\ Priority[plugins[t][sorted[t][k]]] = Priority[plugins[t][sorted[t][l]]]
                /\ sorted[t][k] < sorted[t][l]
    <2>1. IsOrder(sorted[t], plugins[t])
      BY <1>1, <1>3, SortedOrder
    <2> QED
      BY <2>1 DEF IsOrder
  <1>4. Len(plugins[t]) = number[t] /\ n = number[t] /\ n \in Nat
    BY <1>1, <1>2, <1>9 DEF ThreadInv, CountInv
  <1>5. Min(S) \in S /\ \A k \in S : Min(S) <= k
    <2> HIDE DEF S
    <2>1. S \subseteq 1 .. n
      BY DEF S
    <2> HIDE DEF n
    <2> QED
      BY <1>2, <1>4, <2>1, FirstIn
  <1>6. Min(S) \in 1 .. number[t]
    BY <1>4, <1>5
  <1>7. p \in 1 .. number[t]
    <2> HIDE DEF S, p
    <2> QED
      BY <1>2, <1>4, <1>6, <1>9
  <1> HIDE DEF p
  <1>8. ASSUME NEW i \in 1 .. number[t], Accepts(plugins[t][i], op, u), i # p
        PROVE  \/ Priority[plugins[t][p]] > Priority[plugins[t][i]]
               \/ Priority[plugins[t][p]] = Priority[plugins[t][i]] /\ p < i
    <2>1. PICK k \in 1 .. number[t] : sorted[t][k] = i
      BY <1>4, <1>8, <1>9
    <2>2. k \in S
      BY <1>4, <1>8, <2>1
    <2>3. Min(S) < k
      <3>1. Min(S) # k
        BY <1>2, <1>8, <2>1
      <3>2. Min(S) <= k
        BY <1>5, <2>2
      <3>3. Min(S) \in Int /\ k \in Int
        BY <1>4, <1>6, <2>1
      <3> HIDE DEF S
      <3> QED
        BY <3>1, <3>2, <3>3
    <2>4. /\ sorted[t][Min(S)] = p /\ sorted[t][k] = i /\ Min(S) \in 1 .. Len(plugins[t])
          /\ k \in 1 .. Len(plugins[t])
      BY <1>2, <1>4, <1>6, <2>1
    <2> HIDE DEF S
    <2> QED
      BY <1>9, <2>3, <2>4
  <1> QED
    BY <1>2, <1>3, <1>7, <1>8 DEF p

\* A call that fails says why.
Honest(r) == Verdict(r) \in {"fine", "explained"}

\* A plugin that fails, and gfal_find_plugin without a plugin, set an error.
LEMMA AnswersHonest ==
    /\ \A c : c # "none" => Honest(Fails(c)) /\ Fails(c).ret = -1
    /\ \A r \in PluginAnswers : Honest(r)
    /\ \A t, u : FindError(t, u) # "none"
  BY CodesOK DEF PluginAnswers, Honest, Verdict, Ok, Fails, FindError

\* An operation on a URL fails with an error or not at all.
LEMMA UrlOpHonest == \A t, op, u : \A r \in UrlOp(t, op, u) : Honest(r)
  BY AnswersHonest DEF UrlOp

\* So it does when a NULL URL is refused before.
LEMMA WithUrlHonest ==
    ASSUME NEW u, NEW S, \A r \in S : Honest(r)
    PROVE  \A r \in WithUrl(u, S) : Honest(r)
  BY AnswersHonest DEF WithUrl

\* An operation on a handle fails with an error or not at all.
LEMMA HandleOpHonest == \A t, op, name : \A r \in HandleOp(t, op, name) : Honest(r)
  BY AnswersHonest DEF HandleOp

\* A checksum fails with an error or not at all.
LEMMA ChecksumHonest == \A t, u : \A r \in ChecksumOp(t, u) : Honest(r)
  BY AnswersHonest, UrlOpHonest DEF ChecksumOp

\* An operation on two URLs fails without an error only between two plugins.
LEMMA TwoUrlHonest ==
    ASSUME NEW t, NEW op, NEW u, NEW v, NEW r \in WithUrl(u, WithUrl(v, TwoUrlOp(t, op, u, v)))
    PROVE  Honest(r) \/ Across(t, op, u, v)
  BY AnswersHonest DEF WithUrl, TwoUrlOp, Across

\* The gfal2 functions on URLs fail with an error but for a rename between two
\* plugins.
LEMMA UrlCallsHonest ==
    ASSUME NEW t, NEW u
    PROVE  /\ \A op : op # "rename" => \A r \in Gfal2Url(t, op, u, NoUrl) : Honest(r)
           /\ \A r \in Gfal2Lstat(t, u) : Honest(r)
           /\ \A r \in Gfal2Mkdir(t, u) : Honest(r)
           /\ \A r \in Gfal2Rmdir(t, u) : Honest(r)
           /\ \A op \in {"getxattr", "readlink", "unlink"} :
                \A r \in Gfal2Link(t, op, u, NoUrl) : Honest(r)
           /\ \A op : \A r \in Gfal2Attr(t, op, u) : Honest(r)
           /\ \A op : \A r \in Gfal2Qos(t, op, u) : Honest(r)
           /\ \A op : \A r \in ListOp(t, op, <<u>>) : Honest(r)
           /\ \A name : \A r \in Gfal2Readdirpp(t, name) : Honest(r)
  <1>1. \A op : op # "rename" => \A r \in Gfal2Url(t, op, u, NoUrl) : Honest(r)
    BY UrlOpHonest, WithUrlHonest DEF Gfal2Url
  <1>2. \A r \in Gfal2Lstat(t, u) : Honest(r)
    BY UrlOpHonest, WithUrlHonest DEF Gfal2Lstat
  <1>3. \A r \in Gfal2Mkdir(t, u) : Honest(r)
    <2>1. \A r \in MkdirpOp(t, u, FALSE) : Honest(r)
      BY UrlOpHonest DEF MkdirpOp
    <2> QED
      BY <2>1, WithUrlHonest DEF Gfal2Mkdir
  <1>4. \A r \in Gfal2Rmdir(t, u) : Honest(r)
    BY UrlOpHonest, WithUrlHonest DEF Gfal2Rmdir, RmdirOp
  <1>5. ASSUME NEW op \in {"getxattr", "readlink", "unlink"}, NEW r \in Gfal2Link(t, op, u, NoUrl)
        PROVE  Honest(r)
    <2>1. \A x \in UNION {GetxattrOp(t, u, c) : c \in BOOLEAN} : Honest(x)
      BY UrlOpHonest, ChecksumHonest DEF GetxattrOp
    <2>2. CASE op = "getxattr"
      BY <1>5, <2>1, <2>2, WithUrlHonest DEF Gfal2Link
    <2>3. CASE op # "getxattr"
      BY <1>5, <2>3, UrlOpHonest, WithUrlHonest DEF Gfal2Link, RequestOp
    <2> QED
      BY <2>2, <2>3
  <1>6. \A op : \A r \in Gfal2Attr(t, op, u) : Honest(r)
    BY UrlOpHonest, WithUrlHonest DEF Gfal2Attr, AttrOp
  <1>7. \A op : \A r \in Gfal2Qos(t, op, u) : Honest(r)
    BY UrlOpHonest, WithUrlHonest DEF Gfal2Qos, TokenOp, RequestOp
  <1>8. \A op : \A r \in ListOp(t, op, <<u>>) : Honest(r)
    BY AnswersHonest DEF ListOp
  <1>9. \A name : \A r \in Gfal2Readdirpp(t, name) : Honest(r)
    BY UrlOpHonest, HandleOpHonest DEF Gfal2Readdirpp
  <1> QED
    BY <1>1, <1>2, <1>3, <1>4, <1>5, <1>6, <1>7, <1>8, <1>9

\* A POSIX function returns, and the handle is kept, closed or a new one.
LEMMA ReturnKeeps ==
    ASSUME PosixInv, NEW t \in Threads, InCall(t), NEW r, NEW across \in BOOLEAN,
           Return(t, r, across), Honest(r) \/ across,
           \/ handle' = handle
           \/ handle' = [handle EXCEPT ![t] = NoHandle]
           \/ \E p \in 1 .. number[t] :
                /\ pc[t] = "dispatch"
                /\ handle' = [handle EXCEPT ![t] = [at |-> p, name |-> Name[plugins[t][p]]]]
    PROVE  PosixInv'
  <1> DEFINE v == IF across THEN "across" ELSE Verdict(r)
  <1>1. /\ UNCHANGED <<registry, debug>> /\ last' = [last EXCEPT ![t] = v]
        /\ pc' = [pc EXCEPT ![t] = "idle"]
    BY DEF Return, GoTo
  <1>2. v \in {"fine", "explained", "across"}
    BY DEF Honest
  <1>3. pc[t] \in {"dispatch", "failed"}
    BY DEF InCall
  <1> HIDE DEF v
  <1> QED
    BY <1>1, <1>2, <1>3, CallKeeps

\* A gfal2 function returns with the GError of its caller.
LEMMA ReturnErrorKeeps ==
    ASSUME PosixInv, NEW t \in Threads, InCall(t), NEW r, ReturnError(t, r), Honest(r)
    PROVE  PosixInv'
  <1> DEFINE v == Verdict(r)
  <1>1. /\ UNCHANGED <<registry, debug>> /\ last' = [last EXCEPT ![t] = v]
        /\ pc' = [pc EXCEPT ![t] = "idle"] /\ handle' = handle
    BY DEF ReturnError, GoTo
  <1>2. v \in {"fine", "explained", "across"}
    BY DEF Honest
  <1>3. pc[t] \in {"dispatch", "failed"}
    BY DEF InCall
  <1> HIDE DEF v
  <1> QED
    BY <1>1, <1>2, <1>3, CallKeeps

\* open and opendir remember the plugin that answered.
LEMMA OpenKeeps ==
    ASSUME PosixInv, NEW t \in Threads, InCall(t), NEW op, Open(t, op)
    PROVE  PosixInv'
  <1>1. PICK u \in Args : \E r \in WithUrl(u, UrlOp(t, op, u)) :
           LET p == FindPlugin(t, op, u) IN
           /\ Return(t, r, FALSE)
           /\ handle' = IF r.ret < 0 THEN handle
                        ELSE [handle EXCEPT ![t] = [at |-> p, name |-> Name[plugins[t][p]]]]
    BY DEF Open
  <1> DEFINE p == FindPlugin(t, op, u)
  <1>2. PICK r \in WithUrl(u, UrlOp(t, op, u)) :
           /\ Return(t, r, FALSE)
           /\ handle' = IF r.ret < 0 THEN handle
                        ELSE [handle EXCEPT ![t] = [at |-> p, name |-> Name[plugins[t][p]]]]
    BY <1>1
  <1>3. Honest(r)
    BY <1>2, UrlOpHonest, WithUrlHonest
  <1>4. CASE r.ret < 0
    BY <1>2, <1>3, <1>4, ReturnKeeps
  <1>5. CASE ~(r.ret < 0)
    <2>1. p # 0
      <3>1. \A c : Fails(c).ret < 0
        BY DEF Fails
      <3>2. p = 0 => r \in {Fails("EFAULT"), Fails(FindError(t, u))}
        BY <1>2 DEF WithUrl, UrlOp
      <3> QED
        BY <1>5, <3>1, <3>2
    <2>2. number[t] > 0 /\ p \in 1 .. number[t]
      BY <2>1, FoundPlugin
    <2>3. pc[t] = "dispatch"
      <3>1. number[t] \in Int /\ (pc[t] = "failed" => number[t] < 0)
        BY DEF PosixInv, PosixTypes, ThreadInv, StageInv
      <3> QED
        BY <2>2, <3>1 DEF InCall
    <2> HIDE DEF p
    <2>4. \E q \in 1 .. number[t] :
                /\ pc[t] = "dispatch"
                /\ handle' = [handle EXCEPT ![t] = [at |-> q, name |-> Name[plugins[t][q]]]]
      BY <1>2, <1>5, <2>2, <2>3
    <2> QED
      BY <1>2, <1>3, <2>4, ReturnKeeps
  <1> QED
    BY <1>4, <1>5

\* read, write, close and the like go to the handle.
LEMMA OnHandleKeeps ==
    ASSUME PosixInv, NEW t \in Threads, InCall(t), NEW op, NEW outcomes, OnHandle(t, op, outcomes),
           \A r \in outcomes : Honest(r)
    PROVE  PosixInv'
  <1>1. PICK r \in IF handle[t] = NoHandle THEN {Fails("EBADF")} ELSE outcomes :
         /\ Return(t, r, FALSE)
         /\ handle' = IF op = "close" /\ r.ret = 0
                      THEN [handle EXCEPT ![t] = NoHandle] ELSE handle
    BY DEF OnHandle
  <1>2. Honest(r)
    BY <1>1, AnswersHonest
  <1> QED
    BY <1>1, <1>2, ReturnKeeps

\* Every call of the application keeps PosixInv.
LEMMA CallsKeep ==
    ASSUME PosixInv, NEW t \in Threads, InCall(t),
           \/ NameCall(t) \/ DirCall(t) \/ OpenCall(t) \/ FileCall(t) \/ PositionCall(t)
           \/ LinkCall(t) \/ AttrCall(t) \/ DirectCall(t)
    PROVE  PosixInv'
  <1>1. CASE NameCall(t)
    <2>1. handle' = handle
      BY <1>1 DEF NameCall
    <2>2. ASSUME NEW op \in {"access", "chmod", "stat"}, NEW u \in Args,
                 NEW r \in Gfal2Url(t, op, u, NoUrl), Return(t, r, FALSE)
          PROVE  PosixInv'
      <3>1. Honest(r)
        BY <2>2, UrlCallsHonest
      <3> QED
        BY <2>1, <2>2, <3>1, ReturnKeeps
    <2>3. ASSUME NEW u \in Args, NEW r \in Gfal2Lstat(t, u) \cup Gfal2Mkdir(t, u) \cup Gfal2Rmdir(t, u),
                 Return(t, r, FALSE)
          PROVE  PosixInv'
      <3>1. Honest(r)
        BY <2>3, UrlCallsHonest
      <3> QED
        BY <2>1, <2>3, <3>1, ReturnKeeps
    <2>4. ASSUME NEW u \in Args, NEW v \in Args, NEW r \in Gfal2Url(t, "rename", u, v),
                 Return(t, r, Across(t, "rename", u, v))
          PROVE  PosixInv'
      <3>1. r \in WithUrl(u, WithUrl(v, TwoUrlOp(t, "rename", u, v)))
        BY <2>4 DEF Gfal2Url
      <3>2. Honest(r) \/ Across(t, "rename", u, v)
        BY <3>1, TwoUrlHonest
      <3>3. Across(t, "rename", u, v) \in BOOLEAN
        BY DEF Across
      <3> QED
        BY <2>1, <2>4, <3>2, <3>3, ReturnKeeps
    <2> QED
      BY <1>1, <2>2, <2>3, <2>4 DEF NameCall
  <1>2. CASE DirCall(t)
    BY <1>2, OpenKeeps, OnHandleKeeps, HandleOpHonest DEF DirCall, Gfal2Readdir
  <1>3. CASE OpenCall(t)
    BY <1>3, OpenKeeps DEF OpenCall
  <1>4. CASE FileCall(t)
    BY <1>4, OnHandleKeeps, HandleOpHonest DEF FileCall
  <1>5. CASE PositionCall(t)
    BY <1>5, OnHandleKeeps, HandleOpHonest DEF PositionCall
  <1>6. CASE LinkCall(t)
    <2>1. handle' = handle
      BY <1>6 DEF LinkCall
    <2>2. ASSUME NEW op \in {"getxattr", "readlink", "unlink"}, NEW u \in Args,
                 NEW r \in Gfal2Link(t, op, u, NoUrl), Return(t, r, FALSE)
          PROVE  PosixInv'
      <3>1. Honest(r)
        BY <2>2, UrlCallsHonest
      <3> QED
        BY <2>1, <2>2, <3>1, ReturnKeeps
    <2>3. ASSUME NEW u \in Args, NEW v \in Args, NEW r \in Gfal2Link(t, "symlink", u, v),
                 Return(t, r, Across(t, "symlink", u, v))
          PROVE  PosixInv'
      <3>1. r \in WithUrl(u, WithUrl(v, TwoUrlOp(t, "symlink", u, v)))
        BY <2>3 DEF Gfal2Link
      <3>2. Honest(r) \/ Across(t, "symlink", u, v)
        BY <3>1, TwoUrlHonest
      <3>3. Across(t, "symlink", u, v) \in BOOLEAN
        BY DEF Across
      <3> QED
        BY <2>1, <2>3, <3>2, <3>3, ReturnKeeps
    <2> QED
      BY <1>6, <2>2, <2>3 DEF LinkCall
  <1>7. CASE AttrCall(t)
    <2>1. PICK op \in {"listxattr", "setxattr"}, u \in Args : \E r \in Gfal2Attr(t, op, u) :
              Return(t, r, FALSE)
      BY <1>7 DEF AttrCall
    <2>2. PICK r \in Gfal2Attr(t, op, u) : Return(t, r, FALSE)
      BY <2>1
    <2>3. Honest(r)
      BY <2>2, UrlCallsHonest
    <2>4. handle' = handle
      BY <1>7 DEF AttrCall
    <2> QED
      BY <2>2, <2>3, <2>4, ReturnKeeps
  <1>8. CASE DirectCall(t)
    <2>1. PICK r : ReturnError(t, r) /\ (\/ \E op, u : r \in Gfal2Qos(t, op, u)
                                         \/ \E u : r \in ChecksumOp(t, u)
                                         \/ \E op, u : r \in ListOp(t, op, <<u>>)
                                         \/ \E name : r \in Gfal2Readdirpp(t, name))
      BY <1>8 DEF DirectCall
    <2>2. Honest(r)
      BY <2>1, UrlCallsHonest, ChecksumHonest
    <2> QED
      BY <2>1, <2>2, ReturnErrorKeeps
  <1> QED
    BY <1>1, <1>2, <1>3, <1>4, <1>5, <1>6, <1>7, <1>8

\* Every step of every thread keeps PosixInv.
LEMMA PosixStep ==
    ASSUME PosixInv, [PosixNext]_posixVars
    PROVE  PosixInv'
  <1>1. ASSUME NEW t \in Threads, Load(t)
        PROVE  PosixInv'
    BY <1>1, StartLoadKeeps, SkipBrokenKeeps, LookUpSymbolKeeps, ConstructKeeps, FinishLoadKeeps
       DEF Load
  <1>2. ASSUME NEW t \in Threads, GetHandle(t)
        PROVE  PosixInv'
    <2> DEFINE where == IF context[t] THEN "instance" ELSE "new"
    <2>1. /\ pc[t] = "idle" /\ pc' = [pc EXCEPT ![t] = where] /\ handle' = handle
          /\ last' = [last EXCEPT ![t] = "fine"] /\ UNCHANGED <<registry, debug>>
      BY <1>2 DEF GetHandle, GoTo
    <2>2. where \in {"idle", IF context[t] THEN "instance" ELSE "new"}
      OBVIOUS
    <2> HIDE DEF where
    <2> QED
      BY <1>2, <2>1, <2>2, CallKeeps
  <1>3. ASSUME NEW t \in Threads, NoContext(t)
        PROVE  PosixInv'
    BY <1>3, NoContextKeeps
  <1>4. ASSUME NEW t \in Threads, InCall(t),
               \/ NameCall(t) \/ DirCall(t) \/ OpenCall(t) \/ FileCall(t) \/ PositionCall(t)
               \/ LinkCall(t) \/ AttrCall(t) \/ DirectCall(t)
        PROVE  PosixInv'
    BY <1>4, CallsKeep
  <1>5. ASSUME NEW t \in Threads, RemovexattrCall(t) \/ ClearError(t)
        PROVE  PosixInv'
    <2>1. Verdict(Fails("ENOSYS")) = "explained"
      BY DEF Verdict, Fails
    <2>2. PICK v \in {"fine", "explained"} : last' = [last EXCEPT ![t] = v]
      BY <1>5, <2>1 DEF RemovexattrCall, ClearError
    <2>3. /\ pc[t] = "idle" /\ pc' = [pc EXCEPT ![t] = "idle"] /\ handle' = handle
          /\ UNCHANGED <<registry, debug>>
      BY <1>5 DEF RemovexattrCall, ClearError, PosixInv, PosixTypes
    <2> QED
      BY <1>5, <2>2, <2>3, CallKeeps
  <1>6. ASSUME NEW t \in Threads, RegisterPlugin(t)
        PROVE  PosixInv'
    BY <1>6, RegisterKeeps
  <1>7. ASSUME NEW t \in Threads, EndThread(t)
        PROVE  PosixInv'
    BY <1>7, EndThreadKeeps
  <1>8. CASE UNCHANGED posixVars
    <2>1. UNCHANGED <<pc, context, plugins, number, sorted, modules, constructor, mine, loads,
                      alive, listed, raced, halted, outside, debug, handle, last>>
      BY <1>8 DEF posixVars, registry, posix
    <2>2. PosixTypes'
      BY <2>1 DEF PosixInv, PosixTypes
    <2>3. \A u \in Threads : Untouched(u)
      BY <2>1 DEF Untouched
    <2> QED
      BY <2>2, <2>3, UntouchedKeeps DEF PosixInv
  <1> QED
    BY <1>1, <1>2, <1>3, <1>4, <1>5, <1>6, <1>7, <1>8 DEF PosixNext

\* PosixInv is an invariant of any number of threads that load, register, call
\* and end, with any directories, plugins and URLs.
THEOREM PosixInvariant == PosixSpec => []PosixInv
  <1>1. PosixInit => PosixInv
    <2> SUFFICES ASSUME PosixInit PROVE PosixInv
      OBVIOUS
    <2> USE DEF PosixInit, PluginsInit
    <2>0. <<>> \in Seq(Makeable \cup Clients) /\ <<>> \in Seq(Nat) /\ <<>> \in Seq(DOMAIN Kind)
          /\ Len(<<>>) = 0
      OBVIOUS
    <2>3. Nothing \in [dir : Seq(DOMAIN Kind), from : {1, 2}] /\ Nothing.from = 1
      BY <2>0 DEF Nothing
    <2>1. PosixTypes
      BY <2>0, <2>3, MaxPluginListAssumption DEF PosixTypes
    <2>2. ASSUME NEW t \in Threads PROVE ThreadInv(t)
      BY <2>0, <2>3 DEF ThreadInv, CountInv, StageInv, SortInv, LoadInv, ListInv, HandleInv, Loading
    <2> QED
      BY <2>1, <2>2 DEF PosixInv
  <1> QED
    BY <1>1, PosixStep, PTL DEF PosixSpec

\* gfal_modules_resolve, gfal2_register_plugin: a context that was not raced holds
\* the plugins of the directory it was loaded from, in its order, then those of the
\* client; plugin_list is never overrun, and the first plugin is missing, or one was
\* written before the start of the list, only after a load that failed.
THEOREM ContextsAsListed == PosixSpec => []LoadedAsListed
  <1>1. PosixInv => LoadedAsListed
    <2> SUFFICES ASSUME PosixInv, NEW t \in Threads
                 PROVE  /\ number[t] <= MaxPluginList
                        /\ (outside[t] \/ listed[t].from = 2) => halted[t]
                        /\ (pc[t] \in {"idle", "dispatch"} /\ context[t] /\ number[t] >= 0
                            /\ ~raced[t]) =>
                            /\ Len(Listed(t)) <= number[t]
                            /\ SubSeq(plugins[t], 1, Len(Listed(t))) = Listed(t)
                            /\ \A i \in (Len(Listed(t)) + 1) .. number[t] :
                                  plugins[t][i] \in Clients
      BY DEF LoadedAsListed
    <2>1. number[t] \in -1 .. MaxPluginList /\ ThreadInv(t)
      BY DEF PosixInv, PosixTypes
    <2>2. number[t] <= MaxPluginList
      BY <2>1, MaxPluginListAssumption
    <2> QED
      BY <2>1, <2>2 DEF ThreadInv, CountInv, ListInv
  <1> QED
    BY <1>1, PosixInvariant, PTL

\* gfal_find_plugin: no plugin with a higher priority would have accepted the URL,
\* and among equals the one loaded first gets it.
THEOREM HighestPriorityServes == PosixSpec => []FirstByPriority
  <1>1. PosixInv => FirstByPriority
    <2> SUFFICES ASSUME PosixInv, NEW t \in Threads, NEW u \in Urls, FindPlugin(t, "stat", u) # 0,
                        NEW i \in 1 .. number[t], Accepts(plugins[t][i], "stat", u)
                 PROVE  LET p == FindPlugin(t, "stat", u)
                            pr(j) == Priority[plugins[t][j]]
                        IN  pr(i) < pr(p) \/ (pr(i) = pr(p) /\ i >= p)
      BY DEF FirstByPriority
    <2> DEFINE p == FindPlugin(t, "stat", u)
               pr(j) == Priority[plugins[t][j]]
    <2>1. /\ number[t] > 0 /\ p \in 1 .. number[t] /\ number[t] \in Int
          /\ Len(plugins[t]) = number[t] /\ plugins[t] \in Seq(Makeable \cup Clients)
      BY FoundPlugin DEF PosixInv, PosixTypes, ThreadInv, CountInv
    <2>2. i = p \/ pr(p) > pr(i) \/ (pr(p) = pr(i) /\ p < i)
      BY FoundPlugin
    <2> HIDE DEF p
    <2>3. pr(i) \in Int /\ pr(p) \in Int /\ i \in Int /\ p \in Int
      BY <2>1, PriorityOK
    <2> HIDE DEF pr
    <2>4. pr(i) < pr(p) \/ (pr(i) = pr(p) /\ i >= p)
      BY <2>2, <2>3
    <2> QED
      BY <2>4 DEF p, pr
  <1> QED
    BY <1>1, PosixInvariant, PTL

\* gfal_posix_free_context: a thread that has ended has deleted every plugin it
\* made, unless a load of its failed half way.
THEOREM EndedThreadsRelease == PosixSpec => []PluginsReleased
  <1>1. PosixInv => PluginsReleased
    BY DEF PosixInv, ThreadInv, CountInv, StageInv, PluginsReleased
  <1> QED
    BY <1>1, PosixInvariant, PTL

\* The caller of a POSIX or gfal2 function that failed learns why, but for a rename
\* or link between plugins and, under DEBUG, an older error in the way.
THEOREM FailuresExplained == PosixSpec => []FailureExplained
  <1>1. PosixInv => FailureExplained
    BY DEF PosixInv, PosixTypes, ThreadInv, FailureExplained
  <1> QED
    BY <1>1, PosixInvariant, PTL

-----------------------------------------------------------------------------
(***************************************************************************)
(* The credential map: SortedLists is inductive, for any contexts, prefixes,*)
(* types and values.  Two nodes of a sorted list never have the same prefix*)
(* and type, so that a list is a map, and the first match is the longest.  *)
(***************************************************************************)

(* strcmp is an order                                                      *)

\* No string is below itself.
LEMMA StrLessIrreflexive ==
    ASSUME NEW a \in Seq(Nat)
    PROVE  ~StrLess(a, a)
  <1> SUFFICES ASSUME StrLess(a, a) PROVE FALSE
    OBVIOUS
  <1>1. PICK i \in 1 .. Len(a) : i > Len(a) \/ a[i] < a[i]
    BY DEF StrLess
  <1>2. a[i] \in Nat /\ i \in Nat /\ Len(a) \in Nat
    BY <1>1
  <1> QED
    BY <1>1, <1>2

\* Of two different strings one is below the other.
LEMMA StrLessTotal ==
    ASSUME NEW a \in Seq(Nat), NEW b \in Seq(Nat), a # b
    PROVE  StrLess(a, b) \/ StrLess(b, a)
  <1> DEFINE Equal(i) == i <= Len(a) /\ i <= Len(b) /\ a[i] = b[i]
             D == {i \in Nat : i >= 1 /\ (i <= Len(a) \/ i <= Len(b)) /\ ~Equal(i)}
  <1>1. Len(a) \in Nat /\ Len(b) \in Nat
    OBVIOUS
  <1>2. D # {}
    <2> SUFFICES ASSUME D = {} PROVE a = b
      OBVIOUS
    <2>1. Len(a) = Len(b)
      <3>1. ~(Len(a) < Len(b))
        <4> SUFFICES ASSUME Len(a) < Len(b) PROVE Len(b) \in D
          OBVIOUS
        <4> QED
          BY <1>1
      <3>2. ~(Len(b) < Len(a))
        <4> SUFFICES ASSUME Len(b) < Len(a) PROVE Len(a) \in D
          OBVIOUS
        <4> QED
          BY <1>1
      <3> QED
        BY <1>1, <3>1, <3>2
    <2>2. \A i \in 1 .. Len(a) : a[i] = b[i]
      <3> TAKE i \in 1 .. Len(a)
      <3>1. i \notin D
        OBVIOUS
      <3> QED
        BY <1>1, <2>1, <3>1
    <2> QED
      BY <2>1, <2>2
  <1>3. PICK i \in D : \A j \in D : i <= j
    <2>1. D \subseteq Nat
      OBVIOUS
    <2> HIDE DEF D
    <2> QED
      BY <1>2, <2>1, LeastOf
  <1>4. i \in Nat /\ i >= 1 /\ (i <= Len(a) \/ i <= Len(b)) /\ ~Equal(i)
    BY <1>3
  <1>5. \A j \in 1 .. i - 1 : Equal(j)
    <2> TAKE j \in 1 .. i - 1
    <2>1. j \in Nat /\ j >= 1 /\ j < i
      BY <1>4
    <2>2. j \notin D
      BY <1>3, <1>4, <2>1
    <2>3. j <= Len(a) \/ j <= Len(b)
      BY <1>1, <1>4, <2>1
    <2> QED
      BY <2>1, <2>2, <2>3
  <1>6. CASE i > Len(a)
    <2>1. i \in 1 .. Len(b)
      BY <1>1, <1>4, <1>6
    <2> QED
      BY <1>5, <1>6, <2>1 DEF StrLess
  <1>7. CASE i > Len(b)
    <2>1. i \in 1 .. Len(a)
      BY <1>1, <1>4, <1>7
    <2> QED
      BY <1>5, <1>7, <2>1 DEF StrLess
  <1>8. CASE i <= Len(a) /\ i <= Len(b)
    <2>1. i \in 1 .. Len(a) /\ i \in 1 .. Len(b) /\ a[i] \in Nat /\ b[i] \in Nat /\ a[i] # b[i]
      BY <1>1, <1>4, <1>8
    <2>2. CASE a[i] < b[i]
      BY <1>5, <2>1, <2>2 DEF StrLess
    <2>3. CASE b[i] < a[i]
      BY <1>5, <2>1, <2>3 DEF StrLess
    <2> QED
      BY <2>1, <2>2, <2>3
  <1> QED
    BY <1>1, <1>4, <1>6, <1>7, <1>8

\* strcmp is transitive.
LEMMA StrLessTransitive ==
    ASSUME NEW a \in Seq(Nat), NEW b \in Seq(Nat), NEW c \in Seq(Nat), StrLess(a, b), StrLess(b, c)
    PROVE  StrLess(a, c)
  <1>1. PICK i \in 1 .. Len(b) : /\ \A j \in 1 .. i - 1 : j <= Len(a) /\ a[j] = b[j]
                                 /\ i > Len(a) \/ a[i] < b[i]
    BY DEF StrLess
  <1>2. PICK k \in 1 .. Len(c) : /\ \A j \in 1 .. k - 1 : j <= Len(b) /\ b[j] = c[j]
                                 /\ k > Len(b) \/ b[k] < c[k]
    BY DEF StrLess
  <1>3. /\ i \in Nat /\ k \in Nat /\ i >= 1 /\ k >= 1 /\ i <= Len(b) /\ k <= Len(c)
        /\ Len(a) \in Nat /\ Len(b) \in Nat /\ Len(c) \in Nat
    BY <1>1, <1>2
  <1>4. CASE i < k
    <2>1. b[i] = c[i] /\ i \in 1 .. Len(c)
      BY <1>2, <1>3, <1>4
    <2>2. \A j \in 1 .. i - 1 : j <= Len(a) /\ a[j] = c[j]
      BY <1>1, <1>2, <1>3, <1>4, SMTT(30)
    <2>3. i > Len(a) \/ a[i] < c[i]
      BY <1>1, <2>1
    <2> QED
      BY <2>1, <2>2, <2>3 DEF StrLess
  <1>5. CASE i = k
    <2>1. \A j \in 1 .. i - 1 : j <= Len(a) /\ a[j] = c[j]
      BY <1>1, <1>2, <1>5
    <2>2. i > Len(a) \/ a[i] < c[i]
      <3> SUFFICES ASSUME i <= Len(a) PROVE a[i] < c[i]
        BY <1>3
      <3>0. i \in 1 .. Len(a) /\ i \in 1 .. Len(b) /\ i \in 1 .. Len(c)
        BY <1>3, <1>5
      <3>1. a[i] \in Nat /\ b[i] \in Nat /\ c[i] \in Nat
        BY <3>0, SMTT(30)
      <3>2. a[i] < b[i] /\ b[i] < c[i]
        BY <1>1, <1>2, <1>3, <1>5
      <3>3. \A x, y, z \in Nat : x < y /\ y < z => x < z
        OBVIOUS
      <3> QED
        BY <3>1, <3>2, <3>3, Zenon
    <2>3. i \in 1 .. Len(c)
      BY <1>3, <1>5
    <2> QED
      BY <2>1, <2>2, <2>3 DEF StrLess
  <1>6. CASE k < i
    <2>1. k <= Len(a) /\ a[k] = b[k] /\ k \in 1 .. Len(c)
      BY <1>1, <1>3, <1>6
    <2>2. \A j \in 1 .. k - 1 : j <= Len(a) /\ a[j] = c[j]
      BY <1>1, <1>2, <1>3, <1>6, SMTT(30)
    <2>3. a[k] < c[k]
      BY <1>2, <1>3, <1>6, <2>1
    <2> QED
      BY <2>1, <2>2, <2>3 DEF StrLess
  <1> QED
    BY <1>3, <1>4, <1>5, <1>6

\* node_compare is an order, and two nodes compare equal only if they have the
\* same prefix and type.
LEMMA NodeOrder ==
    ASSUME NEW a \in Nodes, NEW b \in Nodes
    PROVE  /\ ComesFirst(a, b) => ~(a.url_prefix = b.url_prefix /\ a.type = b.type)
           /\ ~(a.url_prefix = b.url_prefix /\ a.type = b.type) =>
                ComesFirst(a, b) \/ ComesFirst(b, a)
           /\ \A c \in Nodes : ComesFirst(a, b) /\ ComesFirst(b, c) => ComesFirst(a, c)
  <1>1. \A n \in Nodes : n.url_prefix \in Seq(Nat) /\ n.type \in Nat
    BY PrefixesOK, TypesOK DEF Nodes
  <1>2. ComesFirst(a, b) => ~(a.url_prefix = b.url_prefix /\ a.type = b.type)
    BY <1>1 DEF ComesFirst
  <1>3. ~(a.url_prefix = b.url_prefix /\ a.type = b.type) => ComesFirst(a, b) \/ ComesFirst(b, a)
    <2>1. CASE a.url_prefix = b.url_prefix
      BY <1>1, <2>1 DEF ComesFirst
    <2>2. CASE a.url_prefix # b.url_prefix
      BY <1>1, <2>2, StrLessTotal DEF ComesFirst
    <2> QED
      BY <2>1, <2>2
  <1>4. ASSUME NEW c \in Nodes, ComesFirst(a, b), ComesFirst(b, c)
        PROVE  ComesFirst(a, c)
    <2>1. /\ a.url_prefix \in Seq(Nat) /\ b.url_prefix \in Seq(Nat) /\ c.url_prefix \in Seq(Nat)
          /\ a.type \in Nat /\ b.type \in Nat /\ c.type \in Nat
      BY <1>1, <1>4
    <2>2. CASE a.url_prefix = b.url_prefix
      BY <1>4, <2>1, <2>2 DEF ComesFirst
    <2>3. CASE a.url_prefix # b.url_prefix /\ b.url_prefix = c.url_prefix
      BY <1>4, <2>1, <2>3 DEF ComesFirst
    <2>4. CASE a.url_prefix # b.url_prefix /\ b.url_prefix # c.url_prefix
      <3>1. StrLess(b.url_prefix, a.url_prefix) /\ StrLess(c.url_prefix, b.url_prefix)
        BY <1>4, <2>4 DEF ComesFirst
      <3>2. StrLess(c.url_prefix, a.url_prefix)
        BY <2>1, <3>1, StrLessTransitive
      <3>3. a.url_prefix # c.url_prefix
        BY <2>1, <3>2, StrLessIrreflexive
      <3> QED
        BY <3>2, <3>3 DEF ComesFirst
    <2> QED
      BY <2>2, <2>3, <2>4
  <1> QED
    BY <1>2, <1>3, <1>4

-----------------------------------------------------------------------------
(* The sorted list                                                         *)

IsConcat(c, X, a, b, m, k) ==
    /\ c \in Seq(X) /\ Len(c) = m + k
    /\ \A j \in 1 .. m : c[j] = a[j]
    /\ \A j \in m + 1 .. m + k : c[j] = b[j - m]

\* The elements of a concatenation.
LEMMA ConcatShape ==
    ASSUME NEW X, NEW a \in Seq(X), NEW b \in Seq(X), NEW m \in Nat, NEW k \in Nat,
           Len(a) = m, Len(b) = k
    PROVE  IsConcat(a \o b, X, a, b, m, k)
  <1>1. a \o b \in Seq(X) /\ Len(a \o b) = m + k
    OBVIOUS
  <1>2. \A j \in 1 .. m : (a \o b)[j] = a[j]
    OBVIOUS
  <1>3. \A j \in m + 1 .. m + k : (a \o b)[j] = b[j - m]
    OBVIOUS
  <1> QED
    BY <1>1, <1>2, <1>3 DEF IsConcat

\* The elements of a list with one inserted.
LEMMA InsertAtShape ==
    ASSUME NEW X, NEW s \in Seq(X), NEW i \in 1 .. Len(s), NEW e \in X, NEW r, r = InsertAt(s, i, e)
    PROVE  /\ r \in Seq(X) /\ Len(r) = Len(s) + 1
           /\ \A j \in 1 .. Len(s) + 1 :
                r[j] = IF j < i THEN s[j] ELSE IF j = i THEN e ELSE s[j - 1]
  <1> DEFINE u == SubSeq(s, 1, i - 1)
             w == SubSeq(s, i, Len(s))
             x == <<e>>
             v == u \o x
             m == i - 1
             k == Len(s) - i + 1
             l == 1
  <1>0. /\ i \in Nat /\ Len(s) \in Nat /\ m \in Nat /\ k \in Nat /\ l \in Nat
        /\ l = 1 /\ m + l = i /\ i + k = Len(s) + 1 /\ i <= Len(s) /\ i >= 1
    OBVIOUS
  <1>1. u \in Seq(X) /\ Len(u) = m /\ \A j \in 1 .. m : u[j] = s[j]
    OBVIOUS
  <1>2. w \in Seq(X) /\ Len(w) = k /\ \A j \in 1 .. k : w[j] = s[j + i - 1]
    OBVIOUS
  <1>3. x \in Seq(X) /\ Len(x) = l /\ x[1] = e
    OBVIOUS
  <1>4. r = v \o w /\ v = u \o x
    BY DEF InsertAt
  <1> HIDE DEF u, w, x, v, m, k, l
  <1>5. /\ v \in Seq(X) /\ Len(v) = m + l
        /\ \A j \in 1 .. m : v[j] = u[j]
        /\ \A j \in m + 1 .. m + l : v[j] = x[j - m]
    <2>1. IsConcat(u \o x, X, u, x, m, l)
      BY <1>0, <1>1, <1>3, ConcatShape
    <2> QED
      BY <1>4, <2>1 DEF IsConcat
  <1>6. v[i] = e
    <2>1. i \in m + 1 .. m + l /\ i - m = 1
      BY <1>0
    <2> QED
      BY <1>3, <1>5, <2>1
  <1>7. Len(v) = i /\ \A j \in 1 .. m : v[j] = s[j]
    BY <1>0, <1>1, <1>5
  <1>8. /\ r \in Seq(X) /\ Len(r) = i + k
        /\ \A j \in 1 .. i : r[j] = v[j]
        /\ \A j \in i + 1 .. i + k : r[j] = w[j - i]
    <2>1. IsConcat(v \o w, X, v, w, i, k)
      BY <1>0, <1>2, <1>5, <1>7, ConcatShape
    <2> QED
      BY <1>4, <2>1 DEF IsConcat
  <1>9. ASSUME NEW j \in 1 .. Len(s) + 1
        PROVE  r[j] = IF j < i THEN s[j] ELSE IF j = i THEN e ELSE s[j - 1]
    <2>1. CASE j < i
      <3>1. j \in 1 .. m /\ j \in 1 .. i
        BY <1>0, <1>9, <2>1
      <3> QED
        BY <1>7, <1>8, <2>1, <3>1
    <2>2. CASE j = i
      <3>1. j \in 1 .. i /\ ~(j < i)
        BY <1>0, <2>2
      <3> QED
        BY <1>6, <1>8, <2>2, <3>1
    <2>3. CASE j > i
      <3>1. j - i \in 1 .. k /\ (j - i) + i - 1 = j - 1 /\ j \in i + 1 .. i + k
        BY <1>0, <1>9, <2>3
      <3>2. w[j - i] = s[j - 1]
        BY <1>2, <3>1
      <3>3. r[j] = w[j - i]
        BY <1>8, <3>1
      <3> QED
        BY <1>0, <2>3, <3>2, <3>3
    <2> QED
      BY <1>0, <1>9, <2>1, <2>2, <2>3
  <1> QED
    BY <1>0, <1>8, <1>9

\* The elements of a list with one removed.
LEMMA RemoveAtShape ==
    ASSUME NEW X, NEW s \in Seq(X), NEW i \in 1 .. Len(s)
    PROVE  /\ RemoveAt(s, i) \in Seq(X) /\ Len(RemoveAt(s, i)) = Len(s) - 1
           /\ \A j \in 1 .. Len(s) - 1 : RemoveAt(s, i)[j] = IF j < i THEN s[j] ELSE s[j + 1]
  <1> DEFINE u == SubSeq(s, 1, i - 1)
             w == SubSeq(s, i + 1, Len(s))
  <1>1. u \in Seq(X) /\ Len(u) = i - 1 /\ \A j \in 1 .. i - 1 : u[j] = s[j]
    OBVIOUS
  <1>2. w \in Seq(X) /\ Len(w) = Len(s) - i /\ \A j \in 1 .. Len(w) : w[j] = s[j + i]
    OBVIOUS
  <1> HIDE DEF u, w
  <1>3. u \o w \in Seq(X) /\ Len(u \o w) = Len(s) - 1
    BY <1>1, <1>2
  <1>4. \A j \in 1 .. Len(s) - 1 : (u \o w)[j] = IF j < i THEN u[j] ELSE w[j - (i - 1)]
    BY <1>1, <1>2
  <1>5. \A j \in 1 .. Len(s) - 1 : (u \o w)[j] = IF j < i THEN s[j] ELSE s[j + 1]
    BY <1>1, <1>2, <1>4
  <1>6. RemoveAt(s, i) = u \o w
    BY DEF RemoveAt, u, w
  <1> QED
    BY <1>3, <1>5, <1>6

SortedNodes(list) == list \in Seq(Nodes) /\ Sorted(list)

Has(list, x) == \E i \in 1 .. Len(list) : list[i] = x

SameKey(x, p, t) == x.url_prefix = p /\ x.type = t

\* g_list_find_custom returns a node with the prefix and type, or there is none.
LEMMA FoundNode ==
    ASSUME NEW list \in Seq(Nodes), NEW p, NEW t, NEW at, at = FindNode(list, p, t)
    PROVE  /\ at \in 0 .. Len(list)
           /\ at # 0 => SameKey(list[at], p, t)
           /\ at = 0 => \A i \in 1 .. Len(list) : ~SameKey(list[i], p, t)
  <1> DEFINE S == {i \in 1 .. Len(list) : list[i].url_prefix = p /\ list[i].type = t}
  <1>1. at = IF S # {} THEN Min(S) ELSE 0
    BY DEF FindNode, SelectInSeq
  <1>2. Len(list) \in Nat /\ S \subseteq 1 .. Len(list)
    OBVIOUS
  <1>3. S # {} => Min(S) \in S
    <2> HIDE DEF S
    <2> QED
      BY <1>2, FirstIn
  <1>4. CASE S = {}
    BY <1>1, <1>2, <1>4 DEF SameKey
  <1>5. CASE S # {}
    BY <1>1, <1>2, <1>3, <1>5 DEF SameKey
  <1> QED
    BY <1>4, <1>5

\* Two nodes of a sorted list are never of the same prefix and type.
LEMMA DistinctKeys ==
    ASSUME NEW list, SortedNodes(list), NEW i \in 1 .. Len(list), NEW j \in 1 .. Len(list),
           SameKey(list[i], list[j].url_prefix, list[j].type)
    PROVE  i = j
  <1>1. list \in Seq(Nodes) /\ list[i] \in Nodes /\ list[j] \in Nodes /\ Sorted(list)
        /\ i \in Nat /\ j \in Nat
    BY DEF SortedNodes
  <1>2. ~(i < j)
    BY <1>1, NodeOrder DEF Sorted, SameKey
  <1>3. ~(j < i)
    BY <1>1, NodeOrder DEF Sorted, SameKey
  <1> QED
    BY <1>1, <1>2, <1>3

\* A sorted list without one of its nodes is sorted, and the node is gone.
LEMMA RemoveKeeps ==
    ASSUME NEW list, SortedNodes(list), NEW at \in 1 .. Len(list), NEW r, r = RemoveAt(list, at)
    PROVE  /\ SortedNodes(r)
           /\ \A x : Has(r, x) <=> Has(list, x) /\ ~SameKey(x, list[at].url_prefix, list[at].type)
  <1>1. list \in Seq(Nodes) /\ Sorted(list) /\ Len(list) \in Nat /\ at \in Nat
    BY DEF SortedNodes
  <1>2. /\ r \in Seq(Nodes) /\ Len(r) = Len(list) - 1
        /\ \A j \in 1 .. Len(list) - 1 : r[j] = IF j < at THEN list[j] ELSE list[j + 1]
    BY <1>1, RemoveAtShape
  <1>3. Sorted(r)
    <2> SUFFICES ASSUME NEW i \in 1 .. Len(r), NEW j \in 1 .. Len(r), i < j
                 PROVE  ComesFirst(r[i], r[j])
      BY DEF Sorted
    <2> DEFINE k == IF i < at THEN i ELSE i + 1
               l == IF j < at THEN j ELSE j + 1
    <2>1. k \in 1 .. Len(list) /\ l \in 1 .. Len(list) /\ k < l
      BY <1>1, <1>2
    <2>2. r[i] = list[k] /\ r[j] = list[l]
      BY <1>2
    <2> HIDE DEF k, l
    <2> QED
      BY <1>1, <2>1, <2>2 DEF Sorted
  <1>4. ASSUME NEW x, Has(r, x)
        PROVE  Has(list, x) /\ ~SameKey(x, list[at].url_prefix, list[at].type)
    <2>1. PICK j \in 1 .. Len(r) : r[j] = x
      BY <1>4 DEF Has
    <2> DEFINE k == IF j < at THEN j ELSE j + 1
    <2>2. k \in 1 .. Len(list) /\ list[k] = x /\ k # at
      BY <1>1, <1>2, <2>1
    <2> HIDE DEF k
    <2>3. ~SameKey(list[k], list[at].url_prefix, list[at].type)
      BY <2>2, DistinctKeys
    <2> QED
      BY <2>2, <2>3 DEF Has
  <1>5. ASSUME NEW x, Has(list, x), ~SameKey(x, list[at].url_prefix, list[at].type)
        PROVE  Has(r, x)
    <2>1. PICK k \in 1 .. Len(list) : list[k] = x
      BY <1>5 DEF Has
    <2>2. k # at
      BY <1>5, <2>1 DEF SameKey
    <2> DEFINE j == IF k < at THEN k ELSE k - 1
    <2>3. j \in 1 .. Len(r) /\ r[j] = x
      BY <1>1, <1>2, <2>1, <2>2
    <2> HIDE DEF j
    <2> QED
      BY <2>3 DEF Has
  <1> QED
    BY <1>2, <1>3, <1>4, <1>5 DEF SortedNodes

\* g_list_insert_sorted puts a node that is new where it belongs.
LEMMA InsertKeeps ==
    ASSUME NEW list, SortedNodes(list), NEW n \in Nodes,
           \A i \in 1 .. Len(list) : ~SameKey(list[i], n.url_prefix, n.type),
           NEW r, r = InsertSorted(list, n)
    PROVE  /\ SortedNodes(r)
           /\ \A x : Has(r, x) <=> x = n \/ Has(list, x)
  <1> DEFINE S == {i \in 1 .. Len(list) : ~ComesFirst(list[i], n)}
             q == IF S # {} THEN Min(S) ELSE Len(list) + 1
  <1>1. list \in Seq(Nodes) /\ Sorted(list) /\ Len(list) \in Nat /\ S \subseteq 1 .. Len(list)
    BY DEF SortedNodes
  <1>2. S # {} => Min(S) \in S /\ \A i \in S : Min(S) <= i
    <2> HIDE DEF S
    <2> QED
      BY <1>1, FirstIn
  <1>3. r = IF S # {} THEN InsertAt(list, Min(S), n) ELSE Append(list, n)
    <2> DEFINE at == IF S # {} THEN Min(S) ELSE 0
    <2>1. r = IF at = 0 THEN Append(list, n) ELSE InsertAt(list, at, n)
      BY DEF InsertSorted, SelectInSeq
    <2>2. S # {} => Min(S) # 0
      BY <1>2
    <2> HIDE DEF S
    <2> QED
      BY <2>1, <2>2
  <1>4. q \in 1 .. Len(list) + 1
    BY <1>1, <1>2
  <1>5. \A i \in 1 .. Len(list) : i < q => ComesFirst(list[i], n)
    <2> TAKE i \in 1 .. Len(list)
    <2>1. i < q => i \notin S
      <3>1. CASE S = {}
        BY <3>1
      <3>2. CASE S # {}
        <4>1. Min(S) \in Nat /\ i \in Nat
          BY <1>1, <1>2, <3>2
        <4> QED
          BY <1>2, <3>2, <4>1
      <3> QED
        BY <3>1, <3>2
    <2> QED
      BY <2>1
  <1>6. \A i \in 1 .. Len(list) : i >= q => ComesFirst(n, list[i])
    <2> SUFFICES ASSUME NEW i \in 1 .. Len(list), i >= q PROVE ComesFirst(n, list[i])
      OBVIOUS
    <2>1. S # {} /\ q = Min(S) /\ q \in 1 .. Len(list) /\ ~ComesFirst(list[q], n)
      BY <1>1, <1>2
    <2> HIDE DEF S, q
    <2>2. list[q] \in Nodes /\ list[i] \in Nodes
      BY <1>1, <2>1
    <2>3. ComesFirst(n, list[q])
      BY <2>1, <2>2, NodeOrder DEF SameKey
    <2>4. CASE i = q
      BY <2>3, <2>4
    <2>5. CASE i > q
      <3>1. ComesFirst(list[q], list[i])
        BY <1>1, <2>1, <2>5 DEF Sorted
      <3> QED
        BY <2>2, <2>3, <3>1, NodeOrder
    <2> QED
      BY <2>1, <2>4, <2>5
  <1>7. /\ r \in Seq(Nodes) /\ Len(r) = Len(list) + 1
        /\ \A j \in 1 .. Len(list) + 1 : r[j] = IF j < q THEN list[j] ELSE IF j = q THEN n ELSE list[j - 1]
    <2>1. CASE S = {}
      <3>1. r = Append(list, n) /\ q = Len(list) + 1
        BY <1>3, <2>1
      <3> HIDE DEF S, q
      <3> QED
        BY <1>1, <3>1
    <2>2. CASE S # {}
      <3>1. r = InsertAt(list, q, n) /\ q \in 1 .. Len(list)
        BY <1>1, <1>2, <1>3, <2>2
      <3> HIDE DEF S, q
      <3>2. r \in Seq(Nodes) /\ Len(r) = Len(list) + 1
        BY <1>1, <3>1, InsertAtShape
      <3>3. \A j \in 1 .. Len(list) + 1 :
                r[j] = IF j < q THEN list[j] ELSE IF j = q THEN n ELSE list[j - 1]
        BY <1>1, <3>1, InsertAtShape
      <3> QED
        BY <3>2, <3>3
    <2> QED
      BY <2>1, <2>2
  <1> HIDE DEF S, q
  <1>8. Sorted(r)
    <2> SUFFICES ASSUME NEW i \in 1 .. Len(r), NEW j \in 1 .. Len(r), i < j
                 PROVE  ComesFirst(r[i], r[j])
      BY DEF Sorted
    <2>0. i \in 1 .. Len(list) + 1 /\ j \in 1 .. Len(list) + 1 /\ i \in Nat /\ j \in Nat /\ q \in Nat
      BY <1>4, <1>7
    <2>1. CASE i = q
      <3>1. r[i] = n /\ r[j] = list[j - 1] /\ j - 1 \in 1 .. Len(list) /\ j - 1 >= q
        BY <1>1, <1>4, <1>7, <2>0, <2>1
      <3> QED
        BY <1>6, <3>1
    <2>2. CASE j = q
      <3>1. r[j] = n /\ r[i] = list[i] /\ i \in 1 .. Len(list) /\ i < q
        BY <1>1, <1>4, <1>7, <2>0, <2>2
      <3> QED
        BY <1>5, <3>1
    <2>3. CASE i # q /\ j # q
      <3> DEFINE k == IF i < q THEN i ELSE i - 1
                 l == IF j < q THEN j ELSE j - 1
      <3>1. k \in 1 .. Len(list) /\ l \in 1 .. Len(list) /\ k < l
        BY <1>1, <1>4, <2>0, <2>3
      <3>2. r[i] = list[k] /\ r[j] = list[l]
        BY <1>7, <2>0, <2>3
      <3> HIDE DEF k, l
      <3> QED
        BY <1>1, <3>1, <3>2 DEF Sorted
    <2> QED
      BY <2>1, <2>2, <2>3
  <1>9. ASSUME NEW x, Has(r, x)
        PROVE  x = n \/ Has(list, x)
    <2>1. PICK j \in 1 .. Len(r) : r[j] = x
      BY <1>9 DEF Has
    <2>2. CASE j = q
      BY <1>7, <2>1, <2>2
    <2>3. CASE j # q
      <3> DEFINE k == IF j < q THEN j ELSE j - 1
      <3>1. k \in 1 .. Len(list) /\ list[k] = x
        BY <1>1, <1>4, <1>7, <2>1, <2>3
      <3> HIDE DEF k
      <3> QED
        BY <3>1 DEF Has
    <2> QED
      BY <2>2, <2>3
  <1>10. Has(r, n)
    BY <1>4, <1>7 DEF Has
  <1>11. ASSUME NEW x, Has(list, x)
        PROVE  Has(r, x)
    <2>1. PICK k \in 1 .. Len(list) : list[k] = x
      BY <1>11 DEF Has
    <2> DEFINE j == IF k < q THEN k ELSE k + 1
    <2>2. j \in 1 .. Len(r) /\ r[j] = x
      BY <1>1, <1>4, <1>7, <2>1
    <2> HIDE DEF j
    <2> QED
      BY <2>2 DEF Has
  <1> QED
    BY <1>7, <1>8, <1>9, <1>10, <1>11 DEF SortedNodes

\* What gfal2_cred_set makes of a list.
IsSet(r, list, p, t, v) ==
    /\ SortedNodes(r)
    /\ \A x : Has(r, x) <=> x = Node(p, t, v) \/ (Has(list, x) /\ ~SameKey(x, p, t))

\* The deletion of a node: it and no other goes.
IsRemoved(r, list, p, t) ==
    /\ SortedNodes(r)
    /\ \A x : Has(r, x) <=> Has(list, x) /\ ~SameKey(x, p, t)

\* The node gfal2_cred_del found is the only one it removes.
LEMMA RemoveFound ==
    ASSUME NEW list, SortedNodes(list), NEW p, NEW t, NEW at, at = FindNode(list, p, t), at # 0
    PROVE  IsRemoved(RemoveAt(list, at), list, p, t)
  <1>1. list \in Seq(Nodes) /\ Len(list) \in Nat
    BY DEF SortedNodes
  <1>2. at \in 1 .. Len(list) /\ SameKey(list[at], p, t)
    BY <1>1, FoundNode
  <1>3. list[at].url_prefix = p /\ list[at].type = t
    BY <1>2 DEF SameKey
  <1> QED
    BY <1>2, <1>3, RemoveKeeps DEF IsRemoved

\* gfal2_cred_set replaces the node of the prefix and type, or adds it.
LEMMA SetNodeKeeps ==
    ASSUME NEW list, SortedNodes(list), NEW p \in UrlPrefixes, NEW t \in Types, NEW v \in Values
    PROVE  IsSet(SetNode(list, p, t, v), list, p, t, v)
  <1> DEFINE at == FindNode(list, p, t)
             rest == IF at = 0 THEN list ELSE RemoveAt(list, at)
             n == Node(p, t, v)
  <1>0. list \in Seq(Nodes)
    BY DEF SortedNodes
  <1>1. SetNode(list, p, t, v) = InsertSorted(rest, n)
    BY DEF SetNode
  <1>2. n \in Nodes /\ n.url_prefix = p /\ n.type = t
    BY DEF Node, Nodes
  <1>3. IsRemoved(rest, list, p, t)
    <2>1. CASE at = 0
      <3>1. \A i \in 1 .. Len(list) : ~SameKey(list[i], p, t)
        BY <1>0, <2>1, FoundNode
      <3> QED
        BY <2>1, <3>1 DEF IsRemoved, Has
    <2>2. CASE at # 0
      BY <2>2, RemoveFound
    <2> QED
      BY <2>1, <2>2
  <1> HIDE DEF at, rest, n
  <1>4. \A i \in 1 .. Len(rest) : ~SameKey(rest[i], n.url_prefix, n.type)
    BY <1>2, <1>3 DEF IsRemoved, Has
  <1>5. SortedNodes(rest)
    BY <1>3 DEF IsRemoved
  <1> DEFINE r == InsertSorted(rest, n)
  <1>6. SortedNodes(r) /\ \A x : Has(r, x) <=> x = n \/ Has(rest, x)
    <2>1. r = InsertSorted(rest, n)
      OBVIOUS
    <2> HIDE DEF r
    <2> QED
      BY <1>2, <1>4, <1>5, <2>1, InsertKeeps
  <1> HIDE DEF r
  <1>7. \A x : Has(r, x) <=> x = n \/ (Has(list, x) /\ ~SameKey(x, p, t))
    BY <1>3, <1>6 DEF IsRemoved
  <1>8. SetNode(list, p, t, v) = r
    BY <1>1 DEF r
  <1> QED
    BY <1>6, <1>7, <1>8 DEF IsSet, n

-----------------------------------------------------------------------------
(* The map of a list                                                       *)

\* A node of a sorted list is the entry of its prefix and type.
LEMMA MapAt ==
    ASSUME NEW list, SortedNodes(list), NEW p \in UrlPrefixes, NEW t \in Types
    PROVE  /\ \A x : Has(list, x) /\ SameKey(x, p, t) => MapOf(list)[<<p, t>>] = x.value
           /\ (\A x : Has(list, x) => ~SameKey(x, p, t)) => MapOf(list)[<<p, t>>] = NoValue
  <1> DEFINE at == FindNode(list, p, t)
  <1>0. list \in Seq(Nodes) /\ Len(list) \in Nat
    BY DEF SortedNodes
  <1>1. MapOf(list)[<<p, t>>] = IF at = 0 THEN NoValue ELSE list[at].value
    BY DEF MapOf
  <1>2. /\ at \in 0 .. Len(list)
        /\ at # 0 => SameKey(list[at], p, t)
        /\ at = 0 => \A i \in 1 .. Len(list) : ~SameKey(list[i], p, t)
    BY <1>0, FoundNode
  <1> HIDE DEF at
  <1>3. ASSUME NEW x, Has(list, x), SameKey(x, p, t)
        PROVE  MapOf(list)[<<p, t>>] = x.value
    <2>1. PICK i \in 1 .. Len(list) : list[i] = x
      BY <1>3 DEF Has
    <2>2. at # 0 /\ at \in 1 .. Len(list) /\ SameKey(list[at], p, t)
      BY <1>2, <1>3, <2>1
    <2>3. SameKey(list[i], list[at].url_prefix, list[at].type)
      BY <1>3, <2>1, <2>2 DEF SameKey
    <2>4. i = at
      BY <2>2, <2>3, DistinctKeys
    <2> QED
      BY <1>1, <2>1, <2>2, <2>4
  <1>4. ASSUME \A x : Has(list, x) => ~SameKey(x, p, t)
        PROVE  MapOf(list)[<<p, t>>] = NoValue
    <2>1. at # 0 => Has(list, list[at])
      BY <1>0, <1>2 DEF Has
    <2>2. at = 0
      BY <1>2, <1>4, <2>1
    <2> QED
      BY <1>1, <2>2
  <1> QED
    BY <1>3, <1>4

\* Lists of the same nodes are the same map.
LEMMA SameMap ==
    ASSUME NEW a, SortedNodes(a), NEW b, SortedNodes(b), \A x : Has(a, x) <=> Has(b, x)
    PROVE  MapOf(a) = MapOf(b)
  <1>1. ASSUME NEW p \in UrlPrefixes, NEW t \in Types
        PROVE  MapOf(a)[<<p, t>>] = MapOf(b)[<<p, t>>]
    <2>1. CASE \E x : Has(a, x) /\ SameKey(x, p, t)
      <3>1. PICK x : Has(a, x) /\ SameKey(x, p, t)
        BY <2>1
      <3>2. MapOf(a)[<<p, t>>] = x.value
        BY <1>1, <3>1, MapAt
      <3>3. MapOf(b)[<<p, t>>] = x.value
        BY <1>1, <3>1, MapAt
      <3> QED
        BY <3>2, <3>3
    <2>2. CASE \A x : Has(a, x) => ~SameKey(x, p, t)
      <3>1. MapOf(a)[<<p, t>>] = NoValue
        BY <1>1, <2>2, MapAt
      <3>2. MapOf(b)[<<p, t>>] = NoValue
        BY <1>1, <2>2, MapAt
      <3> QED
        BY <3>1, <3>2
    <2> QED
      BY <2>1, <2>2
  <1> DEFINE K == UrlPrefixes \X Types
  <1>2. \A k \in K : MapOf(a)[k] = MapOf(b)[k]
    BY <1>1
  <1>3. MapOf(a) = [k \in K |-> MapOf(a)[k]] /\ MapOf(b) = [k \in K |-> MapOf(b)[k]]
    BY DEF MapOf
  <1> QED
    BY <1>2, <1>3

-----------------------------------------------------------------------------
(* The copy of a list                                                      *)

\* The function in CopyOf, for the first n nodes.
IsCopied(copied, list, n) ==
    copied = [i \in 0 .. n |->
                IF i = 0 THEN <<>>
                ELSE SetNode(copied[i - 1], list[i].url_prefix, list[i].type, list[i].value)]

\* The function in CopyOf is defined.
LEMMA CopiedExists ==
    ASSUME NEW list, NEW n \in Nat
    PROVE  \E copied : IsCopied(copied, list, n)
  <1> USE DEF IsCopied
  <1> DEFINE Is(copied, m) == IsCopied(copied, list, m)
             P == {m \in Nat : \E copied : Is(copied, m)}
  <1>1. 0 \in P
    <2> DEFINE k0 == [i \in 0 .. 0 |-> <<>>]
    <2>1. Is(k0, 0)
      OBVIOUS
    <2> QED
      BY <2>1
  <1>2. ASSUME NEW m \in Nat, m \in P
        PROVE  m + 1 \in P
    <2>1. PICK copied : Is(copied, m)
      BY <1>2
    <2> DEFINE e == SetNode(copied[m], list[m + 1].url_prefix, list[m + 1].type, list[m + 1].value)
               next == [i \in 0 .. m + 1 |-> IF i = m + 1 THEN e ELSE copied[i]]
    <2>2. \A i \in 0 .. m : next[i] = copied[i]
      OBVIOUS
    <2>3. \A i \in 0 .. m + 1 :
            next[i] = IF i = 0 THEN <<>>
                      ELSE SetNode(next[i - 1], list[i].url_prefix, list[i].type, list[i].value)
      <3> TAKE i \in 0 .. m + 1
      <3>1. CASE i = m + 1
        <4>1. i # 0 /\ i - 1 = m /\ next[i - 1] = copied[m]
          BY <3>1, <2>2
        <4> QED
          BY <3>1, <4>1
      <3>2. CASE i \in 0 .. m /\ i # 0
        <4>1. i - 1 \in 0 .. m
          BY <3>2
        <4>2. next[i - 1] = copied[i - 1] /\ next[i] = copied[i]
          BY <3>2, <4>1, <2>2
        <4>3. copied[i] = IF i = 0 THEN <<>>
                ELSE SetNode(copied[i - 1], list[i].url_prefix, list[i].type, list[i].value)
          BY <2>1, <3>2
        <4> QED
          BY <4>2, <4>3
      <3>3. CASE i = 0
        BY <2>1, <2>2, <3>3
      <3> QED
        BY <3>1, <3>2, <3>3
    <2>4. next = [i \in 0 .. m + 1 |-> next[i]]
      OBVIOUS
    <2> HIDE DEF next
    <2>5. Is(next, m + 1)
      BY <2>3, <2>4
    <2> HIDE DEF Is
    <2> QED
      BY <2>5
  <1> HIDE DEF P
  <1>3. Nat \subseteq P
    BY <1>1, <1>2, InductOn
  <1>4. n \in P
    BY <1>3
  <1> QED
    BY <1>4 DEF P

\* The empty list is sorted.
LEMMA EmptyList == SortedNodes(<<>>) /\ \A x : ~Has(<<>>, x)
  <1>1. <<>> \in Seq(Nodes) /\ Len(<<>>) = 0
    OBVIOUS
  <1>2. Sorted(<<>>)
    BY <1>1 DEF Sorted
  <1> QED
    BY <1>1, <1>2 DEF SortedNodes, Has

\* A copy has the nodes of the list it is made from.
LEMMA CopyHasTheSame ==
    ASSUME NEW list, SortedNodes(list)
    PROVE  /\ SortedNodes(CopyOf(list))
           /\ \A x : Has(CopyOf(list), x) <=> Has(list, x)
  <1> DEFINE c == CHOOSE copied : IsCopied(copied, list, Len(list))
  <1>1. list \in Seq(Nodes) /\ Len(list) \in Nat
    BY DEF SortedNodes
  <1>2. CopyOf(list) = c[Len(list)]
    BY DEF CopyOf, IsCopied
  <1>3. IsCopied(c, list, Len(list))
    BY <1>1, CopiedExists
  <1> HIDE DEF c
  <1> DEFINE Good(n) == /\ SortedNodes(c[n])
                        /\ \A x : Has(c[n], x) <=> \E i \in 1 .. n : list[i] = x
             P == {n \in Nat : n <= Len(list) => Good(n)}
  <1>4. 0 \in P
    <2>1. c[0] = <<>>
      BY <1>1, <1>3 DEF IsCopied
    <2>2. Good(0)
      BY <2>1, EmptyList
    <2> QED
      BY <2>2
  <1>5. ASSUME NEW n \in Nat, n \in P
        PROVE  n + 1 \in P
    <2> SUFFICES ASSUME n + 1 <= Len(list) PROVE Good(n + 1)
      OBVIOUS
    <2> DEFINE e == list[n + 1]
               k == n + 1
    <2>1. k \in 1 .. Len(list) /\ k \in 0 .. Len(list) /\ k # 0 /\ k - 1 = n /\ n <= Len(list)
      BY <1>1
    <2>2. e \in Nodes /\ e = list[k]
      BY <1>1, <2>1
    <2>3. Good(n)
      BY <1>5, <2>1
    <2> HIDE DEF k
    <2>4. c[k] = IF k = 0 THEN <<>>
                 ELSE SetNode(c[k - 1], list[k].url_prefix, list[k].type, list[k].value)
      BY <1>3, <2>1 DEF IsCopied
    <2>5. c[k] = SetNode(c[n], e.url_prefix, e.type, e.value)
      BY <2>1, <2>2, <2>4
    <2>6. /\ e.url_prefix \in UrlPrefixes /\ e.type \in Types /\ e.value \in Values
          /\ e = Node(e.url_prefix, e.type, e.value)
      BY <2>2 DEF Nodes, Node
    <2> HIDE DEF e
    <2>7. IsSet(c[k], c[n], e.url_prefix, e.type, e.value)
      BY <2>3, <2>5, <2>6, SetNodeKeeps
    <2>8. \A x : Has(c[k], x) <=> x = e \/ (Has(c[n], x) /\ ~SameKey(x, e.url_prefix, e.type))
      BY <2>6, <2>7 DEF IsSet
    <2>9. ASSUME NEW x, Has(c[n], x)
          PROVE  ~SameKey(x, e.url_prefix, e.type)
      <3>1. PICK i \in 1 .. n : list[i] = x
        BY <2>3, <2>9
      <3>2. i \in 1 .. Len(list) /\ i # k
        BY <1>1, <2>1, <3>1
      <3> QED
        BY <2>1, <2>2, <3>1, <3>2, DistinctKeys
    <2>10. \A x : Has(c[k], x) <=> x = e \/ Has(c[n], x)
      BY <2>8, <2>9
    <2>11. ASSUME NEW x
           PROVE  (\E i \in 1 .. k : list[i] = x) <=> (x = e \/ \E i \in 1 .. n : list[i] = x)
      <3>1. \A i : i \in 1 .. k <=> i = k \/ i \in 1 .. n
        BY <1>5, <2>1
      <3> QED
        BY <2>2, <3>1
    <2>12. Good(k)
      <3>1. SortedNodes(c[k])
        BY <2>7 DEF IsSet
      <3>2. \A x : Has(c[k], x) <=> \E i \in 1 .. k : list[i] = x
        BY <2>3, <2>10, <2>11
      <3> QED
        BY <3>1, <3>2
    <2> QED
      BY <2>12 DEF k
  <1>6. Len(list) \in P
    <2> HIDE DEF P
    <2>1. Nat \subseteq P
      BY <1>4, <1>5, InductOn
    <2> QED
      BY <1>1, <2>1
  <1>7. Good(Len(list))
    BY <1>1, <1>6
  <1> QED
    BY <1>2, <1>7 DEF Has

-----------------------------------------------------------------------------
(* The operations                                                          *)

\* Every list of a context is a sorted list of nodes.
SortedContexts == \A c \in Contexts : SortedNodes(cred_mapping[c])

\* What SortedLists says of one context.
LEMMA SortedListsOf ==
    ASSUME SortedLists
    PROVE  SortedContexts /\ cred_mapping \in [Contexts -> Seq(Nodes)]
  BY DEF SortedLists, SortedContexts, SortedNodes

\* A step that replaces one list by a sorted one keeps SortedLists.
LEMMA OneListSorted ==
    ASSUME SortedLists, NEW c \in Contexts, NEW r, SortedNodes(r),
           cred_mapping' = [cred_mapping EXCEPT ![c] = r]
    PROVE  SortedLists'
  <1>1. /\ cred_mapping \in [Contexts -> Seq(Nodes)] /\ r \in Seq(Nodes) /\ Sorted(r)
        /\ \A d \in Contexts : Sorted(cred_mapping[d])
    BY DEF SortedLists, SortedNodes
  <1>2. cred_mapping' \in [Contexts -> Seq(Nodes)]
    BY <1>1
  <1>3. ASSUME NEW d \in Contexts
        PROVE  Sorted(cred_mapping'[d])
    <2>1. cred_mapping'[d] = IF d = c THEN r ELSE cred_mapping[d]
      BY <1>1
    <2> QED
      BY <1>1, <2>1
  <1> QED
    BY <1>2, <1>3 DEF SortedLists

\* Every operation keeps the lists sorted.
LEMMA SortedStep ==
    ASSUME SortedLists, [CredNext]_credVars
    PROVE  SortedLists'
  <1>0. SortedContexts
    BY SortedListsOf
  <1>1. CASE UNCHANGED credVars
    BY <1>1 DEF credVars, SortedLists
  <1>2. ASSUME NEW c \in Contexts, NEW p \in UrlPrefixes, NEW t \in Types, NEW v \in Values,
               CredSet(c, p, t, v)
        PROVE  SortedLists'
    <2>1. IsSet(SetNode(cred_mapping[c], p, t, v), cred_mapping[c], p, t, v)
      BY <1>0, <1>2, SetNodeKeeps DEF SortedContexts
    <2> QED
      BY <1>2, <2>1, OneListSorted DEF IsSet, CredSet
  <1>3. ASSUME NEW c \in Contexts, NEW p \in UrlPrefixes, NEW t \in Types, CredDel(c, t, p)
        PROVE  SortedLists'
    <2> DEFINE at == FindNode(cred_mapping[c], p, t)
    <2>1. at # 0 /\ cred_mapping' = [cred_mapping EXCEPT ![c] = RemoveAt(cred_mapping[c], at)]
      BY <1>3 DEF CredDel
    <2>2. IsRemoved(RemoveAt(cred_mapping[c], at), cred_mapping[c], p, t)
      BY <1>0, <2>1, RemoveFound DEF SortedContexts
    <2> QED
      BY <2>1, <2>2, OneListSorted DEF IsRemoved
  <1>4. ASSUME NEW c \in Contexts, CredClean(c)
        PROVE  SortedLists'
    BY <1>4, EmptyList, OneListSorted DEF CredClean
  <1>5. ASSUME NEW c \in Contexts, NEW s \in Contexts \ {c}, CredCopy(c, s)
        PROVE  SortedLists'
    <2>1. SortedNodes(CopyOf(cred_mapping[s]))
      BY <1>0, CopyHasTheSame DEF SortedContexts
    <2> QED
      BY <1>5, <2>1, OneListSorted DEF CredCopy
  <1> QED
    BY <1>1, <1>2, <1>3, <1>4, <1>5 DEF CredNext

\* Sets, deletions, cleans and copies keep every list strictly sorted.
THEOREM ListsSorted == CredSpec => []SortedLists
  <1>1. CredInit => SortedLists
    <2> SUFFICES ASSUME CredInit PROVE SortedLists
      OBVIOUS
    <2>1. <<>> \in Seq(Nodes) /\ Sorted(<<>>)
      BY EmptyList DEF SortedNodes
    <2> QED
      BY <2>1 DEF CredInit, SortedLists
  <1>2. SortedLists /\ [CredNext]_credVars => SortedLists'
    BY SortedStep
  <1> QED
    BY <1>1, <1>2, PTL DEF CredSpec

-----------------------------------------------------------------------------
(* The list implements the map                                             *)

\* Lists with the same nodes of a prefix and type have the same entry there.
LEMMA SameAt ==
    ASSUME NEW a, SortedNodes(a), NEW b, SortedNodes(b), NEW p \in UrlPrefixes, NEW t \in Types,
           \A x : SameKey(x, p, t) => (Has(a, x) <=> Has(b, x))
    PROVE  MapOf(a)[<<p, t>>] = MapOf(b)[<<p, t>>]
  <1>1. CASE \E x : Has(a, x) /\ SameKey(x, p, t)
    <2>1. PICK x : Has(a, x) /\ SameKey(x, p, t)
      BY <1>1
    <2>2. MapOf(a)[<<p, t>>] = x.value
      BY <2>1, MapAt
    <2>3. MapOf(b)[<<p, t>>] = x.value
      BY <2>1, MapAt
    <2> QED
      BY <2>2, <2>3
  <1>2. CASE \A x : Has(a, x) => ~SameKey(x, p, t)
    <2>1. MapOf(a)[<<p, t>>] = NoValue
      BY <1>2, MapAt
    <2>2. MapOf(b)[<<p, t>>] = NoValue
      BY <1>2, MapAt
    <2> QED
      BY <2>1, <2>2
  <1> QED
    BY <1>1, <1>2

\* A map is the same but for one entry.
LEMMA OneEntry ==
    ASSUME NEW a, NEW b, NEW p \in UrlPrefixes, NEW t \in Types, NEW v,
           MapOf(b)[<<p, t>>] = v,
           \A q \in UrlPrefixes, s \in Types :
              ~(q = p /\ s = t) => MapOf(b)[<<q, s>>] = MapOf(a)[<<q, s>>]
    PROVE  MapOf(b) = [MapOf(a) EXCEPT ![<<p, t>>] = v]
  <1> DEFINE K == UrlPrefixes \X Types
             m == [MapOf(a) EXCEPT ![<<p, t>>] = v]
  <1>1. MapOf(a) = [k \in K |-> MapOf(a)[k]] /\ MapOf(b) = [k \in K |-> MapOf(b)[k]]
    BY DEF MapOf
  <1>2. m = [k \in K |-> IF k = <<p, t>> THEN v ELSE MapOf(a)[k]]
    BY <1>1
  <1>3. \A k \in K : MapOf(b)[k] = IF k = <<p, t>> THEN v ELSE MapOf(a)[k]
    OBVIOUS
  <1> QED
    BY <1>1, <1>2, <1>3

\* The map after gfal2_cred_set.
LEMMA MapOfSet ==
    ASSUME NEW list, SortedNodes(list), NEW p \in UrlPrefixes, NEW t \in Types, NEW v,
           NEW r, IsSet(r, list, p, t, v)
    PROVE  MapOf(r) = [MapOf(list) EXCEPT ![<<p, t>>] = v]
  <1>1. MapOf(r)[<<p, t>>] = v
    <2>1. SameKey(Node(p, t, v), p, t) /\ Node(p, t, v).value = v
      BY DEF SameKey, Node
    <2>2. SortedNodes(r) /\ Has(r, Node(p, t, v))
      BY DEF IsSet
    <2> QED
      BY <2>1, <2>2, MapAt
  <1>2. ASSUME NEW q \in UrlPrefixes, NEW s \in Types, ~(q = p /\ s = t)
        PROVE  MapOf(r)[<<q, s>>] = MapOf(list)[<<q, s>>]
    <2>1. \A x : SameKey(x, q, s) => ~SameKey(x, p, t) /\ x # Node(p, t, v)
      BY <1>2 DEF SameKey, Node
    <2>2. SortedNodes(r) /\ \A x : SameKey(x, q, s) => (Has(r, x) <=> Has(list, x))
      BY <2>1 DEF IsSet
    <2> QED
      BY <1>2, <2>2, SameAt
  <1> QED
    BY <1>1, <1>2, OneEntry

\* The map after gfal2_cred_del.
LEMMA MapOfRemoved ==
    ASSUME NEW list, SortedNodes(list), NEW p \in UrlPrefixes, NEW t \in Types,
           NEW r, IsRemoved(r, list, p, t)
    PROVE  MapOf(r) = [MapOf(list) EXCEPT ![<<p, t>>] = NoValue]
  <1>1. MapOf(r)[<<p, t>>] = NoValue
    BY MapAt DEF IsRemoved
  <1>2. ASSUME NEW q \in UrlPrefixes, NEW s \in Types, ~(q = p /\ s = t)
        PROVE  MapOf(r)[<<q, s>>] = MapOf(list)[<<q, s>>]
    <2>1. \A x : SameKey(x, q, s) => ~SameKey(x, p, t)
      BY <1>2 DEF SameKey
    <2>2. SortedNodes(r) /\ \A x : SameKey(x, q, s) => (Has(r, x) <=> Has(list, x))
      BY <2>1 DEF IsRemoved
    <2> QED
      BY <1>2, <2>2, SameAt
  <1> QED
    BY <1>1, <1>2, OneEntry

\* The empty list is the empty map.
LEMMA MapOfEmpty == MapOf(<<>>) = Map!EmptyMap
  <1> DEFINE K == UrlPrefixes \X Types
  <1>1. \A p \in UrlPrefixes, t \in Types : MapOf(<<>>)[<<p, t>>] = NoValue
    BY EmptyList, MapAt
  <1>2. MapOf(<<>>) = [k \in K |-> MapOf(<<>>)[k]]
    BY DEF MapOf
  <1>3. \A k \in K : MapOf(<<>>)[k] = NoValue
    BY <1>1
  <1> QED
    BY <1>2, <1>3 DEF Map!EmptyMap, Map!MapKeys

\* The maps of all contexts.
Maps == [c \in Contexts |-> MapOf(cred_mapping[c])]

\* A step that replaces one list replaces one map.
LEMMA OneMapChanges ==
    ASSUME SortedLists, NEW c \in Contexts, NEW r,
           cred_mapping' = [cred_mapping EXCEPT ![c] = r]
    PROVE  Maps' = [Maps EXCEPT ![c] = MapOf(r)]
  <1>1. cred_mapping \in [Contexts -> Seq(Nodes)]
    BY DEF SortedLists
  <1>2. Maps' = [d \in Contexts |-> MapOf(cred_mapping'[d])]
    BY DEF Maps
  <1>3. \A d \in Contexts : cred_mapping'[d] = IF d = c THEN r ELSE cred_mapping[d]
    BY <1>1
  <1>4. \A d \in Contexts : MapOf(cred_mapping'[d]) = IF d = c THEN MapOf(r) ELSE Maps[d]
    BY <1>3 DEF Maps
  <1>5. [Maps EXCEPT ![c] = MapOf(r)] = [d \in Contexts |-> IF d = c THEN MapOf(r) ELSE Maps[d]]
    BY DEF Maps
  <1> QED
    BY <1>2, <1>4, <1>5

\* gfal2_cred_set puts one entry.
LEMMA SetIsPut ==
    ASSUME SortedLists, NEW c \in Contexts, NEW p \in UrlPrefixes, NEW t \in Types, NEW v \in Values,
           CredSet(c, p, t, v)
    PROVE  Map!Put(c, <<p, t>>, v)
  <1> DEFINE r == SetNode(cred_mapping[c], p, t, v)
  <1>1. SortedNodes(cred_mapping[c])
    BY SortedListsOf DEF SortedContexts
  <1>2. MapOf(r) = [MapOf(cred_mapping[c]) EXCEPT ![<<p, t>>] = v]
    BY <1>1, SetNodeKeeps, MapOfSet
  <1>3. Maps' = [Maps EXCEPT ![c] = MapOf(r)]
    BY OneMapChanges DEF CredSet
  <1> HIDE DEF r
  <1>4. MapOf(cred_mapping[c]) = Maps[c]
    BY DEF Maps
  <1>5. Maps' = [Maps EXCEPT ![c] = [Maps[c] EXCEPT ![<<p, t>>] = v]]
    BY <1>2, <1>3, <1>4
  <1> QED
    BY <1>5 DEF Map!Put, Maps

\* gfal2_cred_del deletes one entry.
LEMMA DelIsDelete ==
    ASSUME SortedLists, NEW c \in Contexts, NEW p \in UrlPrefixes, NEW t \in Types, CredDel(c, t, p)
    PROVE  Map!Delete(c, <<p, t>>)
  <1> DEFINE at == FindNode(cred_mapping[c], p, t)
             r == RemoveAt(cred_mapping[c], at)
  <1>1. SortedNodes(cred_mapping[c])
    BY SortedListsOf DEF SortedContexts
  <1>2. at # 0 /\ cred_mapping' = [cred_mapping EXCEPT ![c] = r]
    BY DEF CredDel
  <1>3. MapOf(r) = [MapOf(cred_mapping[c]) EXCEPT ![<<p, t>>] = NoValue]
    BY <1>1, <1>2, RemoveFound, MapOfRemoved
  <1>4. Maps' = [Maps EXCEPT ![c] = MapOf(r)]
    BY <1>2, OneMapChanges
  <1> HIDE DEF r
  <1>5. MapOf(cred_mapping[c]) = Maps[c]
    BY DEF Maps
  <1>6. Maps' = [Maps EXCEPT ![c] = [Maps[c] EXCEPT ![<<p, t>>] = NoValue]]
    BY <1>3, <1>4, <1>5
  <1> QED
    BY <1>6 DEF Map!Delete, Maps

\* gfal2_cred_clean deletes all.
LEMMA CleanIsClean ==
    ASSUME SortedLists, NEW c \in Contexts, CredClean(c)
    PROVE  Map!Clean(c)
  <1>1. Maps' = [Maps EXCEPT ![c] = MapOf(<<>>)]
    BY OneMapChanges DEF CredClean
  <1>2. Maps' = [Maps EXCEPT ![c] = Map!EmptyMap]
    BY <1>1, MapOfEmpty
  <1> QED
    BY <1>2 DEF Map!Clean, Maps

\* gfal2_cred_copy makes one map that of the other context.
LEMMA CopyIsCopy ==
    ASSUME SortedLists, NEW c \in Contexts, NEW s \in Contexts, CredCopy(c, s)
    PROVE  Map!CopyFrom(c, s)
  <1> DEFINE r == CopyOf(cred_mapping[s])
  <1>1. SortedNodes(cred_mapping[s])
    BY SortedListsOf DEF SortedContexts
  <1>2. MapOf(r) = MapOf(cred_mapping[s])
    BY <1>1, CopyHasTheSame, SameMap
  <1>3. Maps' = [Maps EXCEPT ![c] = MapOf(r)]
    BY OneMapChanges DEF CredCopy
  <1> HIDE DEF r
  <1>4. MapOf(cred_mapping[s]) = Maps[s]
    BY DEF Maps
  <1>5. Maps' = [Maps EXCEPT ![c] = Maps[s]]
    BY <1>2, <1>3, <1>4
  <1> QED
    BY <1>5 DEF Map!CopyFrom, Maps

\* The sorted lists implement the maps CredMap promises, and every gfal2_cred_set,
\* gfal2_cred_del, gfal2_cred_clean and gfal2_cred_copy does to the list what the
\* operation of that name does to the map.
THEOREM ListImplementsMap == CredSpec => ListIsMap
  <1>1. CredInit => Map!Init
    <2> SUFFICES ASSUME CredInit PROVE Map!Init
      OBVIOUS
    <2>1. \A c \in Contexts : MapOf(cred_mapping[c]) = Map!EmptyMap
      BY MapOfEmpty DEF CredInit
    <2> QED
      BY <2>1 DEF Map!Init
  <1>2. SortedLists /\ [CredNext]_credVars => [Map!Next]_Maps
    <2> SUFFICES ASSUME SortedLists, [CredNext]_credVars PROVE [Map!Next]_Maps
      OBVIOUS
    <2>1. CASE UNCHANGED credVars
      BY <2>1 DEF credVars, Maps
    <2>2. ASSUME NEW c \in Contexts, NEW p \in UrlPrefixes, NEW t \in Types, NEW v \in Values,
                 CredSet(c, p, t, v)
          PROVE  Map!Next
      BY <2>2, SetIsPut DEF Map!Next, Map!MapKeys
    <2>3. ASSUME NEW c \in Contexts, NEW p \in UrlPrefixes, NEW t \in Types, CredDel(c, t, p)
          PROVE  Map!Next
      BY <2>3, DelIsDelete DEF Map!Next, Map!MapKeys
    <2>4. ASSUME NEW c \in Contexts, CredClean(c)
          PROVE  Map!Next
      BY <2>4, CleanIsClean DEF Map!Next
    <2>5. ASSUME NEW c \in Contexts, NEW s \in Contexts \ {c}, CredCopy(c, s)
          PROVE  Map!Next
      BY <2>5, CopyIsCopy DEF Map!Next
    <2> QED
      BY <2>1, <2>2, <2>3, <2>4, <2>5 DEF CredNext
  <1>3. SortedLists => OperationStep
    BY SetIsPut, DelIsDelete, CleanIsClean, CopyIsCopy DEF OperationStep
  <1> QED
    BY <1>1, <1>2, <1>3, ListsSorted, PTL DEF CredSpec, ListIsMap, OperationsAsMap, Map!Spec, Maps

-----------------------------------------------------------------------------
(* The first match is the longest                                          *)

\* A prefix of a URL has its first characters.
LEMMA PrefixShape ==
    ASSUME NEW p \in Seq(Nat), NEW u \in Seq(Nat)
    PROVE  IsPrefix(p, u) => Len(p) <= Len(u) /\ \A i \in 1 .. Len(p) : p[i] = u[i]
  <1> SUFFICES ASSUME IsPrefix(p, u)
               PROVE  Len(p) <= Len(u) /\ \A i \in 1 .. Len(p) : p[i] = u[i]
    OBVIOUS
  <1>1. Len(p) <= Len(u) /\ SubSeq(p, 1, Len(p)) = SubSeq(u, 1, Len(p))
    BY DEF IsPrefix
  <1>2. \A i \in 1 .. Len(p) : SubSeq(p, 1, Len(p))[i] = p[i]
    OBVIOUS
  <1>3. \A i \in 1 .. Len(p) : SubSeq(u, 1, Len(p))[i] = u[i]
    BY <1>1
  <1> QED
    BY <1>1, <1>2, <1>3

\* Of two prefixes of a URL the one strcmp puts below is the shorter.
LEMMA BelowIsShorter ==
    ASSUME NEW p \in Seq(Nat), NEW q \in Seq(Nat), NEW u \in Seq(Nat),
           IsPrefix(p, u), IsPrefix(q, u), StrLess(p, q)
    PROVE  Len(p) < Len(q)
  <1>1. PICK i \in 1 .. Len(q) : i > Len(p) \/ p[i] < q[i]
    BY DEF StrLess
  <1>2. i \in Nat /\ Len(p) \in Nat /\ Len(q) \in Nat /\ i <= Len(q) /\ q[i] = u[i] /\ q[i] \in Nat
    BY <1>1, PrefixShape
  <1>3. ~(i <= Len(p))
    <2> SUFFICES ASSUME i <= Len(p) PROVE FALSE
      OBVIOUS
    <2>1. i \in 1 .. Len(p)
      BY <1>1, <1>2
    <2>2. p[i] = u[i]
      BY <2>1, PrefixShape
    <2>3. p[i] < q[i]
      BY <1>1, <1>2
    <2> QED
      BY <1>2, <2>2, <2>3
  <1> QED
    BY <1>2, <1>3

\* What the code tests of a prefix that is not empty.
LEMMA MatchesDirectory ==
    ASSUME NEW p \in Seq(Nat), NEW u \in Seq(Nat), NEW before \in BOOLEAN, p # <<>>
    PROVE  Matches(p, u, before) <=> DirectoryOf(p, u)
  <1>1. CASE ~IsPrefix(p, u)
    BY <1>1 DEF Matches, DirectoryOf
  <1>2. CASE IsPrefix(p, u)
    <2>1. Len(p) \in Nat /\ Len(u) \in Nat /\ Len(p) # 0 /\ Len(p) \in 1 .. Len(p)
      OBVIOUS
    <2>2. Len(p) <= Len(u) /\ \A i \in 1 .. Len(p) : p[i] = u[i]
      BY <1>2, PrefixShape
    <2>3. p[Len(p)] = u[Len(p)]
      BY <2>1, <2>2
    <2>4. Len(p) >= Len(u) => p = u
      <3> SUFFICES ASSUME Len(p) >= Len(u) PROVE p = u
        OBVIOUS
      <3>1. Len(p) = Len(u)
        BY <2>1, <2>2
      <3> QED
        BY <2>2, <3>1
    <2>5. p = u => Len(p) >= Len(u)
      BY <2>1
    <2>6. Matches(p, u, before) <=>
            Len(p) >= Len(u) \/ u[Len(p)] = Slash \/ u[Len(p) + 1] = Slash
      BY <1>2 DEF Matches
    <2>7. DirectoryOf(p, u) <=> p = u \/ p[Len(p)] = Slash \/ u[Len(p) + 1] = Slash
      BY <1>2 DEF DirectoryOf
    <2> QED
      BY <2>3, <2>4, <2>5, <2>6, <2>7
  <1> QED
    BY <1>1, <1>2

\* The look-up takes the first node that matches.
LEMMA FirstMatch ==
    ASSUME NEW list \in Seq(Nodes), NEW t, NEW u, NEW before
    PROVE  \/ /\ CredGet(list, t, u, before) = NoValue
              /\ \A i \in 1 .. Len(list) :
                    ~(list[i].type = t /\ Matches(list[i].url_prefix, u, before))
           \/ \E at \in 1 .. Len(list) :
                /\ CredGet(list, t, u, before) = list[at].value
                /\ list[at].type = t /\ Matches(list[at].url_prefix, u, before)
                /\ \A i \in 1 .. Len(list) :
                     list[i].type = t /\ Matches(list[i].url_prefix, u, before) => at <= i
  <1> DEFINE S == {i \in 1 .. Len(list) : list[i].type = t /\ Matches(list[i].url_prefix, u, before)}
             at == IF S # {} THEN Min(S) ELSE 0
  <1>1. CredGet(list, t, u, before) = IF at = 0 THEN NoValue ELSE list[at].value
    BY DEF CredGet, SelectInSeq
  <1>2. Len(list) \in Nat /\ S \subseteq 1 .. Len(list)
    OBVIOUS
  <1>3. S # {} => Min(S) \in S /\ \A i \in S : Min(S) <= i
    <2> HIDE DEF S
    <2> QED
      BY <1>2, FirstIn
  <1>4. CASE S = {}
    BY <1>1, <1>4
  <1>5. CASE S # {}
    <2>1. at = Min(S) /\ at \in S /\ \A i \in S : at <= i
      BY <1>3, <1>5
    <2>2. at # 0
      BY <1>2, <2>1
    <2> HIDE DEF at
    <2> QED
      BY <1>1, <2>1, <2>2
  <1> QED
    BY <1>4, <1>5

\* An entry of the map is a node of the list.
LEMMA MapNodes ==
    ASSUME NEW list, SortedNodes(list), NEW p \in UrlPrefixes, NEW t \in Types,
           MapOf(list)[<<p, t>>] # NoValue
    PROVE  \E j \in 1 .. Len(list) : list[j].url_prefix = p /\ list[j].type = t
  <1>1. PICK x : Has(list, x) /\ SameKey(x, p, t)
    BY MapAt
  <1> QED
    BY <1>1 DEF Has, SameKey

\* The part of BestMatchPicked about one look-up.
Picked(list, t, u, before) ==
    LET m == MapOf(list)
        fits == {p \in UrlPrefixes : m[<<p, t>>] # NoValue /\ DirectoryOf(p, u)}
        best == {p \in fits : \A q \in fits : Len(q) <= Len(p)}
        other == {m[<<p, t>>] : p \in UrlPrefixes \cap {<<>>}} \cup {NoValue}
    IN  CredGet(list, t, u, before) \in
            IF fits = {} THEN other ELSE {m[<<p, t>>] : p \in best}

\* A look-up in a sorted list takes the best match.
LEMMA SortedPicks ==
    ASSUME NEW list, SortedNodes(list), NEW t \in Types, NEW u \in CredUrls, NEW before \in BOOLEAN
    PROVE  Picked(list, t, u, before)
  <1> DEFINE m == MapOf(list)
             fits == {p \in UrlPrefixes : m[<<p, t>>] # NoValue /\ DirectoryOf(p, u)}
             best == {p \in fits : \A q \in fits : Len(q) <= Len(p)}
             other == {m[<<p, t>>] : p \in UrlPrefixes \cap {<<>>}} \cup {NoValue}
             got == CredGet(list, t, u, before)
             Match(i) == list[i].type = t /\ Matches(list[i].url_prefix, u, before)
  <1>0. list \in Seq(Nodes) /\ Len(list) \in Nat /\ Sorted(list) /\ u \in Seq(Nat)
    BY CredUrlsOK DEF SortedNodes
  <1>1. ASSUME NEW i \in 1 .. Len(list)
        PROVE  /\ list[i] \in Nodes /\ list[i].url_prefix \in UrlPrefixes /\ list[i].type \in Types
               /\ list[i].url_prefix \in Seq(Nat) /\ list[i].value \in Values
    <2>1. list[i] \in Nodes
      BY <1>0, <1>1
    <2>2. \A n \in Nodes : n.url_prefix \in UrlPrefixes /\ n.type \in Types /\ n.value \in Values
      BY DEF Nodes
    <2>3. list[i].url_prefix \in UrlPrefixes /\ list[i].type \in Types /\ list[i].value \in Values
      BY <2>1, <2>2
    <2>4. list[i].url_prefix \in Seq(Nat)
      BY <2>3, PrefixesOK
    <2> QED
      BY <2>1, <2>3, <2>4
  <1>2. ASSUME NEW i \in 1 .. Len(list), list[i].type = t
        PROVE  m[<<list[i].url_prefix, t>>] = list[i].value
    <2>1. Has(list, list[i]) /\ SameKey(list[i], list[i].url_prefix, t)
      BY <1>2 DEF Has, SameKey
    <2> QED
      BY <1>1, <1>2, <2>1, MapAt
  <1>3. ASSUME NEW p \in fits
        PROVE  \E j \in 1 .. Len(list) : list[j].url_prefix = p /\ Match(j)
    <2>1. p \in UrlPrefixes /\ m[<<p, t>>] # NoValue /\ DirectoryOf(p, u) /\ p # <<>> /\ p \in Seq(Nat)
      BY <1>3, PrefixesOK DEF DirectoryOf
    <2>2. PICK j \in 1 .. Len(list) : list[j].url_prefix = p /\ list[j].type = t
      BY <2>1, MapNodes
    <2>3. Matches(p, u, before)
      BY <1>0, <2>1, MatchesDirectory
    <2> QED
      BY <2>2, <2>3
  <1>4. ASSUME NEW i \in 1 .. Len(list), Match(i), list[i].url_prefix # <<>>
        PROVE  list[i].url_prefix \in fits
    <2> DEFINE p == list[i].url_prefix
    <2>1. DirectoryOf(p, u)
      BY <1>0, <1>1, <1>4, MatchesDirectory
    <2>2. m[<<p, t>>] # NoValue
      BY <1>1, <1>2, <1>4, NoValueOK
    <2> QED
      BY <1>1, <1>4, <2>1, <2>2
  <1>5. CASE got = NoValue /\ \A i \in 1 .. Len(list) : ~Match(i)
    <2>1. fits = {}
      BY <1>3, <1>5
    <2> QED
      BY <1>5, <2>1 DEF Picked
  <1>6. ASSUME NEW at \in 1 .. Len(list), got = list[at].value, Match(at),
               \A i \in 1 .. Len(list) : Match(i) => at <= i
        PROVE  Picked(list, t, u, before)
    <2> DEFINE q == list[at].url_prefix
    <2>1. got = m[<<q, t>>] /\ q \in UrlPrefixes /\ q \in Seq(Nat)
      BY <1>1, <1>2, <1>6
    <2>2. CASE fits = {}
      <3>1. q = <<>>
        BY <1>4, <1>6, <2>2
      <3>2. got \in other
        BY <2>1, <3>1
      <3> QED
        BY <2>2, <3>2 DEF Picked
    <2>3. CASE fits # {}
      <3>1. ASSUME NEW p \in fits
            PROVE  p = q \/ Len(p) < Len(q)
        <4>1. PICK j \in 1 .. Len(list) : list[j].url_prefix = p /\ Match(j)
          BY <1>3, <3>1
        <4>2. at <= j /\ j \in Nat /\ at \in Nat
          BY <1>6, <4>1
        <4>3. CASE j = at
          BY <4>1, <4>3
        <4>4. CASE at < j /\ p # q
          <5>1. ComesFirst(list[at], list[j])
            BY <1>0, <4>4 DEF Sorted
          <5>2. StrLess(p, q)
            BY <4>1, <4>4, <5>1 DEF ComesFirst
          <5>3. IsPrefix(p, u) /\ IsPrefix(q, u) /\ p \in Seq(Nat)
            BY <1>1, <1>6, <4>1 DEF Matches
          <5> QED
            BY <1>0, <2>1, <5>2, <5>3, BelowIsShorter
        <4> QED
          BY <4>2, <4>3, <4>4
      <3>2. \A p \in fits : Len(p) \in Nat /\ Len(p) > 0
        <4> TAKE p \in fits
        <4>1. p \in Seq(Nat) /\ p # <<>>
          BY PrefixesOK DEF DirectoryOf
        <4> QED
          BY <4>1
      <3>3. q # <<>>
        <4> SUFFICES ASSUME q = <<>> PROVE FALSE
          OBVIOUS
        <4>1. PICK p \in fits : TRUE
          BY <2>3
        <4>2. p = q \/ Len(p) < Len(q)
          BY <3>1
        <4>3. Len(q) = 0 /\ Len(p) \in Nat /\ Len(p) > 0
          BY <3>2
        <4> HIDE DEF fits, q
        <4> QED
          BY <4>2, <4>3
      <3>4. q \in fits
        BY <1>4, <1>6, <3>3
      <3>5. \A p \in fits : Len(p) <= Len(q)
        <4> TAKE p \in fits
        <4>1. Len(p) \in Nat /\ Len(q) \in Nat /\ (p = q \/ Len(p) < Len(q))
          BY <3>1, <3>2, <3>4
        <4> HIDE DEF fits, q
        <4> QED
          BY <4>1
      <3>6. q \in best
        BY <3>4, <3>5
      <3>7. got \in {m[<<p, t>>] : p \in best}
        BY <2>1, <3>6
      <3> QED
        BY <2>3, <3>7 DEF Picked
    <2> QED
      BY <2>2, <2>3
  <1> QED
    BY <1>0, <1>5, <1>6, FirstMatch, SMTT(30)

\* gfal2_cred_get: "Best matching prefix will be picked", although the look-up only
\* takes the first match of the list, and never the credential of a sibling whose
\* name begins the same way.
THEOREM LongestPrefixWins == CredSpec => []BestMatchPicked
  <1>1. SortedLists => BestMatchPicked
    <2> SUFFICES ASSUME SortedLists PROVE BestMatchPicked
      OBVIOUS
    <2>1. \A c \in Contexts, t \in Types, u \in CredUrls, before \in BOOLEAN :
            Picked(cred_mapping[c], t, u, before)
      BY SortedListsOf, SortedPicks DEF SortedContexts
    <2> QED
      BY <2>1 DEF BestMatchPicked, Picked
  <1> QED
    BY <1>1, ListsSorted, PTL

-----------------------------------------------------------------------------
(***************************************************************************)
(* Staging: StagingInv is inductive, for lists of any length.              *)
(***************************************************************************)

\* A list handed to a bring-online or a poll is finite and not empty, and its
\* files are among the files of the server.
LEMMA ListShape ==
    ASSUME call \in Calls
    PROVE  /\ call.plugin \in {"srm", "http", "xrootd"} /\ call.op \in {"stage", "archive"}
           /\ Len(call.urls) \in Nat /\ Positions = 1 .. Len(call.urls)
           /\ IsFiniteSet(Positions) /\ Cardinality(Positions) = Len(call.urls)
           /\ \A i \in Positions : call.urls[i] \in Paths /\ call.urls[i] \in Asked
           /\ Asked \subseteq Paths
  <1>1. /\ call.plugin \in {"srm", "http", "xrootd"} /\ call.op \in {"stage", "archive"}
        /\ call.urls \in Lists
    BY PluginsOK DEF Calls
  <1>2. PICK n \in 1 .. MaxFiles : call.urls \in [1 .. n -> Paths]
    BY <1>1 DEF Lists
  <1>3. n \in Nat
    BY MaxFilesOK
  <1>4. call.urls \in Seq(Paths) /\ Len(call.urls) = n /\ Positions = 1 .. n
    BY <1>2, <1>3 DEF Positions
  <1>5. IsFiniteSet(1 .. n) /\ Cardinality(1 .. n) = n
    BY <1>3, FS_Interval
  <1>6. \A i \in Positions : call.urls[i] \in Paths /\ call.urls[i] \in Asked
    BY <1>2, <1>4 DEF Asked
  <1>7. Asked \subseteq Paths
    BY <1>6 DEF Asked
  <1> QED
    BY <1>1, <1>3, <1>4, <1>5, <1>6, <1>7

\* A result other than 0 is given only when every file of the list is there
\* or has failed.
LEMMA ResultIsFinal ==
    ASSUME call \in Calls, NEW answers
    PROVE  /\ Result(answers) \in {-1, 0, 1, 2}
           /\ Result(answers) # 0 =>
                \A i \in Positions : answers[i] \in {"ok", "error", "missing", "unavailable"}
  <1> DEFINE n == Len(call.urls)
             okay == {i \in Positions : answers[i] \in {"ok"}}
             bad == {i \in Positions : answers[i] \in {"error", "missing", "unavailable"}}
  <1>1. n \in Nat /\ IsFiniteSet(Positions) /\ Cardinality(Positions) = n
    BY ListShape
  <1>2. /\ IsFiniteSet(okay) /\ IsFiniteSet(bad) /\ IsFiniteSet(okay \cup bad)
        /\ okay \cap bad = {} /\ okay \subseteq Positions /\ bad \subseteq Positions
        /\ okay \cup bad \subseteq Positions
    BY <1>1, FS_Subset
  <1>3. Cardinality(okay) \in Nat /\ Cardinality(bad) \in Nat
    BY <1>2, FS_CardinalityType
  <1>4. Cardinality(okay \cup bad) = Cardinality(okay) + Cardinality(bad)
    <2>1. Cardinality(okay \cap bad) = 0
      BY <1>2, FS_EmptySet
    <2>2. Cardinality(okay \cup bad) =
            Cardinality(okay) + Cardinality(bad) - Cardinality(okay \cap bad)
      BY <1>2, FS_Union
    <2> QED
      BY <1>3, <2>1, <2>2
  <1>5. Cardinality(okay \cup bad) = n => okay \cup bad = Positions
    BY <1>1, <1>2, FS_Subset
  <1>6. Cardinality(okay) = n => okay = Positions
    BY <1>1, <1>2, FS_Subset
  <1>7. Cardinality(bad) = n => bad = Positions
    BY <1>1, <1>2, FS_Subset
  <1>8. /\ Result(answers) \in {-1, 0, 1, 2}
        /\ Result(answers) # 0 => \/ Cardinality(okay) = n
                                  \/ Cardinality(bad) = n
                                  \/ Cardinality(okay) + Cardinality(bad) = n
    BY DEF Result, Count
  <1> QED
    BY <1>4, <1>5, <1>6, <1>7, <1>8

\* What was there stays there, and what is on its way was on its way.
LEMMA ProgressKeeps ==
    ASSUME StagingInv, NEW p \in Paths, Progress(p)
    PROVE  StagingInv'
  <1>1. /\ UNCHANGED <<call, turn, ret, errors, whole, inOrder>>
        /\ state[p] \in Pending
        /\ turn = "bring" => call.op = "stage"
        /\ call \in Calls /\ state \in [Paths -> {"disk", "nearline", "lost", "queued", "online",
                                                "failed", "unavailable", "mute"}]
    BY DEF Progress, StagingInv
  <1>2. PICK s \in Endings : state' = [state EXCEPT ![p] = s]
    BY DEF Progress
  <1>3. /\ Positions' = Positions /\ Pending' = Pending /\ (Trusted <=> Trusted')
        /\ call.op \in {"stage", "archive"}
    BY <1>1, ListShape DEF Positions, Pending, Trusted
  <1>4. state' \in [Paths -> {"disk", "nearline", "lost", "queued", "online", "failed", "unavailable", "mute"}]
    BY <1>1, <1>2 DEF Endings
  <1>5. \A i \in Positions : /\ call.urls[i] \in Paths
                             /\ state[call.urls[i]] \notin Pending => state'[call.urls[i]] = state[call.urls[i]]
                             /\ state'[call.urls[i]] \in Pending => state[call.urls[i]] \in Pending
    BY <1>1, <1>2, <1>3, ListShape DEF Pending, Endings
  <1>6. OnlineMeansOnline'
    BY <1>1, <1>3, <1>5 DEF StagingInv, OnlineMeansOnline, Pending
  <1>7. NothingForgotten'
    BY <1>1, <1>3, <1>5 DEF StagingInv, NothingForgotten
  <1> QED
    BY <1>1, <1>4, <1>6, <1>7 DEF StagingInv

\* What a request that was accepted makes of the files.
LEMMA AcceptedType ==
    ASSUME StagingInv
    PROVE  Accepted \in [Paths -> {"disk", "nearline", "lost", "queued", "online", "failed",
                                   "unavailable", "mute"}]
  BY DEF Accepted, StagingInv

\* A call that ends the list, or fails as a whole
LEMMA WholeKeeps ==
    ASSUME StagingInv, call' = call, state' \in {state, Accepted}, ret' \in Int,
           turn' # "bring",
           turn' \notin {"decide", "release", "abort"} \/ ret' = 0 \/ (ret' = -1 /\ whole')
    PROVE  StagingInv'
  <1>1. /\ call' \in Calls /\ turn' # "bring"
        /\ state' \in [Paths -> {"disk", "nearline", "lost", "queued", "online", "failed",
                                 "unavailable", "mute"}]
    BY AcceptedType DEF StagingInv
  <1> QED
    BY <1>1 DEF StagingInv, OnlineMeansOnline, NothingForgotten

\* The first report of SRM: a file without an error is online as soon as the
\* result is not 0.
LEMMA BringReportedKeeps ==
    ASSUME StagingInv, BringReported
    PROVE  StagingInv'
  <1>1. /\ turn = "bring" /\ call.plugin = "srm" /\ call.op = "stage" /\ turn' = "decide"
        /\ state' = Accepted /\ call' = call
    BY DEF BringReported, StagingInv
  <1>2. PICK reply \in Replies :
            LET answers == [i \in Positions |-> BySurl(Accepted, reply, i)]
                bad == {i \in Positions : answers[i] \in {"error", "missing"}}
            IN  /\ errors' = [i \in Positions |-> IF i \in bad THEN "EIO" ELSE "none"]
                /\ ret' = IF call.one /\ bad # {} THEN -1 ELSE Result(answers)
    BY DEF BringReported
  <1> DEFINE answers == [i \in Positions |-> BySurl(Accepted, reply, i)]
             bad == {i \in Positions : answers[i] \in {"error", "missing"}}
  <1>3. /\ errors' = [i \in Positions |-> IF i \in bad THEN "EIO" ELSE "none"]
        /\ ret' = IF call.one /\ bad # {} THEN -1 ELSE Result(answers)
    BY <1>2
  <1>4. call \in Calls /\ Positions' = Positions /\ Pending' = {"queued"}
    BY <1>1 DEF StagingInv, Positions, Pending
  <1>5. \A i \in Positions :
            \/ answers[i] = "missing"
            \/ answers[i] = "ok" /\ state'[call.urls[i]] = "online"
            \/ answers[i] = "again" /\ state'[call.urls[i]] \in {"queued", "mute"}
            \/ answers[i] = "error" /\ state'[call.urls[i]] \notin {"online", "queued"}
    <2>1. \A f : Answer(f) = StageAnswer(f)
      BY <1>1 DEF Answer
    <2> QED
      BY <1>1, <2>1 DEF BySurl, StageAnswer
  <1>6. \A i \in Positions : /\ errors'[i] = "none" => answers[i] \notin {"error", "missing"}
                             /\ answers[i] = "missing" => errors'[i] = "EIO"
    BY <1>3
  <1>7. /\ Result(answers) \in {-1, 0, 1, 2}
        /\ Result(answers) # 0 =>
             \A i \in Positions : answers[i] \in {"ok", "error", "missing", "unavailable"}
    BY <1>4, ResultIsFinal
  <1> HIDE DEF answers
  <1>8. ret' \in Int
    BY <1>3, <1>7
  <1>9. (ret' > 0 \/ (ret' # 0 /\ ~call.one)) => Result(answers) # 0
    BY <1>3, <1>7
  <1>10. OnlineMeansOnline'
    BY <1>1, <1>4, <1>5, <1>6, <1>7, <1>9 DEF OnlineMeansOnline
  <1>11. NothingForgotten'
    BY <1>1, <1>4, <1>5, <1>6, <1>7, <1>9 DEF NothingForgotten
  <1> QED
    BY <1>1, <1>4, <1>8, <1>10, <1>11, AcceptedType DEF StagingInv

\* A poll that got its reply, whatever its order: a result other than 0 says
\* that every entry is final, and an entry that is read at its place is that of
\* the file.
LEMMA PolledKeeps ==
    ASSUME StagingInv, NEW reply, NEW result \in Int, Polled(reply, result),
           result > 0 => Result(Answers(reply)) # 0,
           (result # 0 /\ ~(call.one /\ call.plugin = "srm")) => Result(Answers(reply)) # 0
    PROVE  StagingInv'
  <1>1. /\ call' = call /\ state' = state /\ ret' = result /\ turn' = "decide"
        /\ errors' = [i \in Positions |-> Code(Answers(reply)[i])]
        /\ inOrder' = (reply = call.urls)
    BY DEF Polled
  <1>2. /\ call \in Calls /\ call.op \in {"stage", "archive"}
        /\ Positions' = Positions /\ Pending' = Pending
    BY <1>1, ListShape DEF StagingInv, Positions, Pending
  <1>3. ASSUME Trusted', NEW i \in Positions
        PROVE  Answers(reply)[i] \in {"missing", Answer(state[call.urls[i]])}
    <2>1. CASE call.plugin = "xrootd"
      <3>1. reply = call.urls
        BY <1>1, <1>3, <2>1 DEF Trusted
      <3>2. reply[i] \in Asked
        BY <1>2, <1>3, <3>1, ListShape
      <3> QED
        BY <1>3, <2>1, <3>1, <3>2 DEF Answers, ByPosition
    <2>2. CASE call.plugin # "xrootd"
      BY <1>3, <2>2 DEF Answers, BySurl
    <2> QED
      BY <2>1, <2>2
  <1>4. \A s : /\ Answer(s) = "ok" => s = IF call.op = "stage" THEN "online" ELSE "nearline"
               /\ s \in Pending => Answer(s) = "again"
    <2>1. \A s : Answer(s) = IF call.op = "stage" THEN StageAnswer(s)
                             ELSE IF call.plugin = "srm" THEN SrmArchiveAnswer(s)
                             ELSE ArchiveAnswer(s)
      BY DEF Answer
    <2>2. CASE call.op = "stage"
      BY <2>1, <2>2 DEF StageAnswer, Pending
    <2>3. CASE call.op # "stage" /\ call.plugin = "srm"
      BY <2>1, <2>3 DEF SrmArchiveAnswer, Pending
    <2>4. CASE call.op # "stage" /\ call.plugin # "srm"
      BY <2>1, <2>4 DEF ArchiveAnswer, Pending
    <2> QED
      BY <2>2, <2>3, <2>4
  <1>5. \A i \in Positions : /\ errors'[i] = "none" => Answers(reply)[i] = "ok"
                             /\ Answers(reply)[i] = "missing" => errors'[i] = "EIO"
    BY <1>1 DEF Code
  <1>6. Result(Answers(reply)) # 0 =>
            \A i \in Positions :
                Answers(reply)[i] \in {"ok", "error", "missing", "unavailable"}
    BY <1>2, ResultIsFinal
  <1>7. OnlineMeansOnline'
    BY <1>1, <1>2, <1>3, <1>4, <1>5, <1>6 DEF OnlineMeansOnline
  <1>8. NothingForgotten'
    BY <1>1, <1>2, <1>3, <1>4, <1>5, <1>6 DEF NothingForgotten
  <1> QED
    BY <1>1, <1>2, <1>7, <1>8 DEF StagingInv

\* Every step of the server or of a client keeps StagingInv.
LEMMA StagingStep ==
    ASSUME StagingInv, [StagingNext]_stagingVars
    PROVE  StagingInv'
  <1>1. CASE Server
    BY <1>1, ProgressKeeps DEF Server
  <1>2. CASE RefuseCall
    BY <1>2, WholeKeeps DEF RefuseCall
  <1>3. CASE NotDispatched
    BY <1>3, WholeKeeps DEF NotDispatched, FailWhole
  <1>4. CASE BringFails
    BY <1>4, WholeKeeps DEF BringFails, FailWhole
  <1>5. CASE BringTokenLost
    BY <1>5, WholeKeeps DEF BringTokenLost, FailWhole
  <1>6. CASE BringAccepted
    BY <1>6, WholeKeeps DEF BringAccepted
  <1>7. CASE BringReported
    BY <1>7, BringReportedKeeps
  <1>8. CASE PollFails
    BY <1>8, WholeKeeps DEF PollFails, FailWhole
  <1>9. CASE PollStage
    <2>1. PICK reply \in Replies :
            Polled(reply, IF call.one /\ call.plugin = "srm" /\ Answers(reply)[1] # "ok"
                          THEN -1 ELSE Result(Answers(reply)))
      BY <1>9 DEF PollStage
    <2>2. Result(Answers(reply)) \in {-1, 0, 1, 2}
      BY ResultIsFinal DEF StagingInv
    <2> DEFINE result == IF call.one /\ call.plugin = "srm" /\ Answers(reply)[1] # "ok"
                         THEN -1 ELSE Result(Answers(reply))
    <2>3. /\ result \in Int
          /\ result > 0 => Result(Answers(reply)) # 0
          /\ (result # 0 /\ ~(call.one /\ call.plugin = "srm")) => Result(Answers(reply)) # 0
      BY <2>2
    <2>4. Polled(reply, result)
      BY <2>1
    <2> HIDE DEF result
    <2> QED
      BY <2>3, <2>4, PolledKeeps
  <1>10. CASE PollArchive
    <2>1. PICK reply \in Replies : Polled(reply, Result(Answers(reply)))
      BY <1>10 DEF PollArchive
    <2>2. Result(Answers(reply)) \in {-1, 0, 1, 2}
      BY ResultIsFinal DEF StagingInv
    <2>3. /\ Result(Answers(reply)) \in Int
          /\ Result(Answers(reply)) > 0 => Result(Answers(reply)) # 0
      BY <2>2
    <2> QED
      BY <2>1, <2>3, PolledKeeps
  <1>11. CASE LetGoFails
    BY <1>11, WholeKeeps DEF LetGoFails, FailWhole
  <1>12. ASSUME Release \/ Abort PROVE StagingInv'
    <2>1. PICK bad \in SUBSET Positions :
              LetGo(bad) /\ (ret' = -Cardinality(bad) \/ ret' \in {-1, 0})
      BY <1>12 DEF Release, Abort
    <2>2. ret' \in Int
      <3>1. IsFiniteSet(bad)
        BY <2>1, ListShape, FS_Subset DEF StagingInv
      <3>2. Cardinality(bad) \in Nat
        BY <3>1, FS_CardinalityType
      <3> QED
        BY <2>1, <3>2
    <2>3. call' = call /\ turn' = "done"
      BY <2>1 DEF LetGo
    <2>4. state' \in [Paths -> {"disk", "nearline", "lost", "queued", "online", "failed",
                                "unavailable", "mute"}]
      BY <2>1 DEF LetGo, StagingInv
    <2> QED
      BY <2>2, <2>3, <2>4 DEF StagingInv, OnlineMeansOnline, NothingForgotten
  <1>13. CASE Crash
    BY <1>13, WholeKeeps DEF Crash, StagingInv
  <1>14. CASE Decide
    <2>1. /\ UNCHANGED <<call, state, token, ret, errors, whole, inOrder, canceled>>
          /\ turn = "decide" /\ turn' # "bring"
      BY <1>14 DEF Decide
    <2> QED
      BY <2>1 DEF StagingInv, OnlineMeansOnline, NothingForgotten, Trusted, Positions, Pending
  <1>15. CASE Cancel \/ UNCHANGED stagingVars
    <2>1. UNCHANGED <<call, turn, state, token, ret, errors, whole, inOrder>>
      BY <1>15 DEF Cancel, stagingVars
    <2> QED
      BY <2>1 DEF StagingInv, OnlineMeansOnline, NothingForgotten, Trusted, Positions, Pending
  <1> QED
    BY <1>1, <1>2, <1>3, <1>4, <1>5, <1>6, <1>7, <1>8, <1>9, <1>10, <1>11, <1>12, <1>13,
       <1>14, <1>15 DEF StagingNext, Caller

\* The two properties of a list of files, together with the types they need,
\* survive every step of the server, the plugin and the application.
THEOREM StagingInvariant == StagingSpec => []StagingInv
  <1>1. StagingInit => StagingInv
    BY DEF StagingInit, StagingInv, OnlineMeansOnline, NothingForgotten
  <1> QED
    BY <1>1, StagingStep, PTL DEF StagingSpec

\* Files reported as there are there (the loops at the end of the poll functions
\* of SRM, HTTP and XRootD): a positive result means that every file without an
\* error is on disk, or on tape, for lists of any length, with files repeated.
THEOREM OnlineIsOnline == StagingSpec => []OnlineMeansOnline
  <1>1. StagingInv => OnlineMeansOnline
    BY DEF StagingInv
  <1> QED
    BY <1>1, StagingInvariant, PTL

\* No file is forgotten: when a bring-online or a poll tells the application to
\* stop polling, a file that is still on its way has an error of its own.
THEOREM NoneForgotten == StagingSpec => []NothingForgotten
  <1>1. StagingInv => NothingForgotten
    BY DEF StagingInv
  <1> QED
    BY <1>1, StagingInvariant, PTL
=============================================================================
