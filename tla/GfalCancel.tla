----------------------------- MODULE GfalCancel -----------------------------
(***************************************************************************)
(* The cancellation logic of a gfal2 context (src/core/common/             *)
(* gfal_cancel.c).  Worker threads run API operations: each operation is   *)
(* bracketed by gfal2_start_scope_cancel / gfal2_end_scope_cancel, may     *)
(* open nested scopes (gfal2_lstat calls gfal2_stat, a local copy calls    *)
(* gfal2_stat, gfal2_unlink, gfal2_checksum), may register a cancel hook   *)
(* while it runs and may poll gfal2_is_canceled.  Canceller threads call   *)
(* gfal2_cancel.                                                           *)
(*                                                                         *)
(* Every read and write of the shared fields is a step of its own: the     *)
(* test of "cancel" and the increment of "running_ops" in                  *)
(* gfal2_start_scope_cancel are not one atomic step, and neither are the   *)
(* count, the flag, the hooks, the wait and the reset of gfal2_cancel.     *)
(* The critical sections of gfal2_register_cancel_callback and             *)
(* gfal2_remove_cancel_callback only touch the hook list, which mux_cancel *)
(* protects, so each of them is one step taken when the mutex is free.     *)
(***************************************************************************)
EXTENDS Integers, FiniteSets

CONSTANTS
    Workers,      \* threads that run API operations on the context
    Cancellers,   \* threads that call gfal2_cancel on the context
    MaxDepth,     \* bound on nested scopes of one operation
    NoThread      \* "mux_cancel is free"

ASSUME WorkersFinite == IsFiniteSet(Workers)
ASSUME CancellersFinite == IsFiniteSet(Cancellers)
ASSUME ThreadsDisjoint ==
    /\ Workers \cap Cancellers = {}
    /\ NoThread \notin Workers \cup Cancellers
ASSUME MaxDepthIsPos == MaxDepth \in Nat \ {0}

VARIABLES
    running_ops,  \* context->running_ops
    cancel,       \* context->cancel
    mux,          \* holder of context->mux_cancel
    hooks,        \* owners of the hooks in context->cancel_hooks
    wpc,          \* where each worker is: "idle", "enter" or "body"
    depth,        \* scopes each worker has open
    seen,         \* the worker's operation learnt that it is cancelled
    cpc,          \* where each canceller is inside gfal2_cancel
    n_cancel,     \* gfal2_cancel's local n_cancel
    todo,         \* hooks g_hook_list_invoke has still to call
    waiting       \* history: workers in scope when the flag was raised that
                  \* have not left their operation since

vars == <<running_ops, cancel, mux, hooks, wpc, depth, seen, cpc, n_cancel,
          todo, waiting>>

workerVars == <<wpc, depth, seen>>
cancelVars == <<cpc, n_cancel, todo>>

WorkerPc == {"idle", "enter", "body"}
CancelPc == {"out", "lock", "count", "raise", "hooks", "wait", "reset"}

\* The scopes that are open, one element per increment of running_ops.
OpenScopes == {s \in Workers \X (1 .. MaxDepth) : s[2] <= depth[s[1]]}

\* Workers inside an operation.
InScope == {w \in Workers : depth[w] > 0}

Init ==
    /\ running_ops = 0
    /\ cancel = FALSE
    /\ mux = NoThread
    /\ hooks = {}
    /\ wpc = [w \in Workers |-> "idle"]
    /\ depth = [w \in Workers |-> 0]
    /\ seen = [w \in Workers |-> FALSE]
    /\ cpc = [c \in Cancellers |-> "out"]
    /\ n_cancel = [c \in Cancellers |-> 0]
    /\ todo = [c \in Cancellers |-> {}]
    /\ waiting = [c \in Cancellers |-> {}]

-----------------------------------------------------------------------------
(* gfal2_start_scope_cancel: the test of the flag.                         *)

\* The flag is down: go on to the increment.
StartScope(w) ==
    /\ \/ wpc[w] = "idle"
       \/ wpc[w] = "body" /\ depth[w] < MaxDepth /\ ~seen[w]
    /\ ~cancel
    /\ wpc' = [wpc EXCEPT ![w] = "enter"]
    /\ UNCHANGED <<running_ops, cancel, mux, hooks, depth, seen, waiting>>
    /\ UNCHANGED cancelVars

\* The flag is up: ECANCELED.  A refused outermost scope leaves the worker
\* idle, a refused nested one makes the enclosing operation fail.
RefuseScope(w) ==
    /\ wpc[w] = "body" /\ depth[w] < MaxDepth /\ ~seen[w]
    /\ cancel
    /\ seen' = [seen EXCEPT ![w] = TRUE]
    /\ UNCHANGED <<running_ops, cancel, mux, hooks, wpc, depth, waiting>>
    /\ UNCHANGED cancelVars

\* g_atomic_int_inc(&context->running_ops)
EnterScope(w) ==
    /\ wpc[w] = "enter"
    /\ running_ops' = running_ops + 1
    /\ depth' = [depth EXCEPT ![w] = @ + 1]
    /\ wpc' = [wpc EXCEPT ![w] = "body"]
    /\ UNCHANGED <<cancel, mux, hooks, seen, waiting>>
    /\ UNCHANGED cancelVars

\* An operation that returns without closing its scope.
EndScopeForgotten(w) ==
    /\ wpc[w] = "body"
    /\ depth[w] = 1 => w \notin hooks
    /\ depth' = [depth EXCEPT ![w] = @ - 1]
    /\ IF depth[w] = 1
       THEN /\ wpc' = [wpc EXCEPT ![w] = "idle"]
            /\ seen' = [seen EXCEPT ![w] = FALSE]
            /\ waiting' = [c \in Cancellers |-> waiting[c] \ {w}]
       ELSE UNCHANGED <<wpc, seen, waiting>>
    /\ UNCHANGED <<running_ops, cancel, mux, hooks>>
    /\ UNCHANGED cancelVars

\* gfal2_end_scope_cancel: g_atomic_int_dec_and_test.  The code that opened
\* the outermost scope has removed its hook before it closes the scope.
EndScope(w) ==
    /\ wpc[w] = "body"
    /\ depth[w] = 1 => w \notin hooks
    /\ running_ops' = running_ops - 1
    /\ depth' = [depth EXCEPT ![w] = @ - 1]
    /\ IF depth[w] = 1
       THEN /\ wpc' = [wpc EXCEPT ![w] = "idle"]
            /\ seen' = [seen EXCEPT ![w] = FALSE]
            /\ waiting' = [c \in Cancellers |-> waiting[c] \ {w}]
       ELSE UNCHANGED <<wpc, seen, waiting>>
    /\ UNCHANGED <<cancel, mux, hooks>>
    /\ UNCHANGED cancelVars

-----------------------------------------------------------------------------
(* What an operation does while it runs.                                   *)

\* gfal2_is_canceled, as the copy loop polls it.
PollCanceled(w) ==
    /\ wpc[w] = "body"
    /\ cancel
    /\ ~seen[w]
    /\ seen' = [seen EXCEPT ![w] = TRUE]
    /\ UNCHANGED <<running_ops, cancel, mux, hooks, wpc, depth, waiting>>
    /\ UNCHANGED cancelVars

\* gfal2_register_cancel_callback
RegisterHook(w) ==
    /\ wpc[w] = "body"
    /\ ~seen[w]
    /\ w \notin hooks
    /\ mux = NoThread
    /\ hooks' = hooks \cup {w}
    /\ UNCHANGED <<running_ops, cancel, mux, waiting>>
    /\ UNCHANGED workerVars
    /\ UNCHANGED cancelVars

\* A removal that forgets mux_cancel.
RemoveHookUnlocked(w) ==
    /\ wpc[w] = "body"
    /\ w \in hooks
    /\ hooks' = hooks \ {w}
    /\ UNCHANGED <<running_ops, cancel, mux, waiting>>
    /\ UNCHANGED workerVars
    /\ UNCHANGED cancelVars

\* gfal2_remove_cancel_callback
RemoveHook(w) ==
    /\ wpc[w] = "body"
    /\ w \in hooks
    /\ mux = NoThread
    /\ hooks' = hooks \ {w}
    /\ UNCHANGED <<running_ops, cancel, mux, waiting>>
    /\ UNCHANGED workerVars
    /\ UNCHANGED cancelVars

-----------------------------------------------------------------------------
(* gfal2_cancel                                                            *)

\* "avoid recursive calls": the call goes on only when the flag is down.  A
\* call that finds it up returns 0 and changes nothing.
CancelEnter(c) ==
    /\ cpc[c] = "out"
    /\ ~cancel
    /\ cpc' = [cpc EXCEPT ![c] = "lock"]
    /\ UNCHANGED <<running_ops, cancel, mux, hooks, n_cancel, todo, waiting>>
    /\ UNCHANGED workerVars

CancelLock(c) ==
    /\ cpc[c] = "lock"
    /\ mux = NoThread
    /\ mux' = c
    /\ cpc' = [cpc EXCEPT ![c] = "count"]
    /\ UNCHANGED <<running_ops, cancel, hooks, n_cancel, todo, waiting>>
    /\ UNCHANGED workerVars

CancelCount(c) ==
    /\ cpc[c] = "count"
    /\ n_cancel' = [n_cancel EXCEPT ![c] = running_ops]
    /\ cpc' = [cpc EXCEPT ![c] = "raise"]
    /\ UNCHANGED <<running_ops, cancel, mux, hooks, todo, waiting>>
    /\ UNCHANGED workerVars

CancelRaise(c) ==
    /\ cpc[c] = "raise"
    /\ cancel' = TRUE
    /\ waiting' = [waiting EXCEPT ![c] = InScope]
    /\ todo' = [todo EXCEPT ![c] = hooks]
    /\ cpc' = [cpc EXCEPT ![c] = "hooks"]
    /\ UNCHANGED <<running_ops, mux, hooks, n_cancel>>
    /\ UNCHANGED workerVars

\* g_hook_list_invoke calls one hook: its owner learns that it is cancelled.
CancelHook(c) ==
    /\ cpc[c] = "hooks"
    /\ \E w \in todo[c] :
          /\ todo' = [todo EXCEPT ![c] = @ \ {w}]
          /\ seen' = [seen EXCEPT ![w] = TRUE]
    /\ UNCHANGED <<running_ops, cancel, mux, hooks, wpc, depth, cpc, n_cancel,
                   waiting>>

CancelUnlock(c) ==
    /\ cpc[c] = "hooks"
    /\ todo[c] = {}
    /\ mux' = NoThread
    /\ cpc' = [cpc EXCEPT ![c] = "wait"]
    /\ UNCHANGED <<running_ops, cancel, hooks, n_cancel, todo, waiting>>
    /\ UNCHANGED workerVars

\* A wait loop that stops one operation too early.
CancelDrainedOffByOne(c) ==
    /\ cpc[c] = "wait"
    /\ running_ops <= 1
    /\ cpc' = [cpc EXCEPT ![c] = "reset"]
    /\ UNCHANGED <<running_ops, cancel, mux, hooks, n_cancel, todo, waiting>>
    /\ UNCHANGED workerVars

\* The usleep(50) loop ends when running_ops is not above 0; the rounds that
\* find it above 0 change nothing.
CancelDrained(c) ==
    /\ cpc[c] = "wait"
    /\ running_ops <= 0
    /\ cpc' = [cpc EXCEPT ![c] = "reset"]
    /\ UNCHANGED <<running_ops, cancel, mux, hooks, n_cancel, todo, waiting>>
    /\ UNCHANGED workerVars

CancelReturn(c) ==
    /\ cpc[c] = "reset"
    /\ cancel' = FALSE
    /\ cpc' = [cpc EXCEPT ![c] = "out"]
    /\ UNCHANGED <<running_ops, mux, hooks, n_cancel, todo, waiting>>
    /\ UNCHANGED workerVars

-----------------------------------------------------------------------------
WorkerStep(w) ==
    \/ StartScope(w) \/ RefuseScope(w) \/ EnterScope(w) \/ EndScope(w)
    \/ PollCanceled(w) \/ RegisterHook(w) \/ RemoveHook(w)

CancellerStep(c) ==
    \/ CancelEnter(c) \/ CancelLock(c) \/ CancelCount(c) \/ CancelRaise(c)
    \/ CancelHook(c) \/ CancelUnlock(c) \/ CancelDrained(c) \/ CancelReturn(c)

Next ==
    \/ \E w \in Workers : WorkerStep(w)
    \/ \E c \in Cancellers : CancellerStep(c)

Spec == Init /\ [][Next]_vars

\* The scheduling the code relies on.  An operation that has begun goes on:
\* it performs its increment, it meets the flag when it polls or opens a
\* nested scope, it removes its hook and it ends.  Inside gfal2_cancel every
\* step is taken.  Nothing obliges a thread to start an operation or to call
\* gfal2_cancel.
Fairness ==
    /\ \A w \in Workers :
          /\ WF_vars(EnterScope(w))
          /\ WF_vars(EndScope(w))
          /\ WF_vars(RemoveHook(w))
          /\ WF_vars(PollCanceled(w) \/ RefuseScope(w))
    /\ \A c \in Cancellers :
          /\ WF_vars(CancelLock(c))
          /\ WF_vars(CancelCount(c))
          /\ WF_vars(CancelRaise(c))
          /\ WF_vars(CancelHook(c))
          /\ WF_vars(CancelUnlock(c))
          /\ WF_vars(CancelDrained(c))
          /\ WF_vars(CancelReturn(c))

FairSpec == Spec /\ Fairness

-----------------------------------------------------------------------------
(* Properties                                                              *)

\* Every variable has its type; the counter of gfal2_start_scope_cancel
\* never goes below zero.
TypeOK ==
    /\ running_ops \in Nat
    /\ cancel \in BOOLEAN
    /\ mux \in Cancellers \cup {NoThread}
    /\ hooks \in SUBSET Workers
    /\ wpc \in [Workers -> WorkerPc]
    /\ depth \in [Workers -> 0 .. MaxDepth]
    /\ seen \in [Workers -> BOOLEAN]
    /\ cpc \in [Cancellers -> CancelPc]
    /\ n_cancel \in [Cancellers -> Nat]
    /\ todo \in [Cancellers -> SUBSET Workers]
    /\ waiting \in [Cancellers -> SUBSET Workers]

\* running_ops counts exactly the scopes that are open, whatever the
\* interleaving of starts, nested starts, refusals and ends: an operation
\* that is refused has not been counted and one that ends has been
\* discounted once per scope (gfal_cancel.c, start/end_scope_cancel).
ScopeCount == running_ops = Cardinality(OpenScopes)

\* "blocking until all operations finish": when gfal2_cancel leaves its wait
\* loop, every operation that had opened its scope when the flag was raised
\* has ended, however many cancellers race.
CancelDrains ==
    \A c \in Cancellers : cpc[c] \in {"reset", "out"} => waiting[c] = {}

\* The list g_hook_list_invoke walks under mux_cancel never holds a hook
\* whose owner has removed it: a callback never runs on the data of an
\* operation that has returned.
HooksAlive ==
    \A c \in Cancellers : todo[c] \subseteq hooks /\ todo[c] \subseteq InScope

\* The flag is up only while some thread is inside gfal2_cancel, after it
\* raised it: once every canceller has returned the context accepts
\* operations again, even if cancellers overlapped.
FlagOwned ==
    cancel => \E c \in Cancellers : cpc[c] \in {"hooks", "wait", "reset"}

\* mux_cancel is held exactly by the canceller that is between its lock and
\* its unlock: two cancellers never walk the hook list at the same time.
MutexHeld ==
    \A c \in Cancellers :
        mux = c <=> cpc[c] \in {"count", "raise", "hooks"}

\* How far a worker is agrees with the scopes it has open, and an operation
\* that will open one more has room for it.
ScopesMatchPc ==
    \A w \in Workers :
        /\ wpc[w] = "idle" => depth[w] = 0
        /\ wpc[w] = "body" => depth[w] > 0
        /\ wpc[w] = "enter" => depth[w] < MaxDepth

\* Hooks belong to running operations and are called only in the hooks phase.
HooksOwned ==
    /\ hooks \subseteq InScope
    /\ \A c \in Cancellers : cpc[c] # "hooks" => todo[c] = {}
    /\ \A c \in Cancellers : todo[c] \subseteq hooks

\* What a canceller still waits for is still running.
WaitingRuns == \A c \in Cancellers : waiting[c] \subseteq InScope

\* The inductive invariant behind the safety properties above.
IInv ==
    /\ TypeOK
    /\ MutexHeld
    /\ ScopesMatchPc
    /\ HooksOwned
    /\ WaitingRuns
    /\ ScopeCount
    /\ CancelDrains
    /\ FlagOwned

\* A call of gfal2_cancel that went past its first test returns, unless
\* another call overlaps with it: that one's return lowers the flag, after
\* which new operations may keep the first one waiting.
CancelReturns ==
    \A c \in Cancellers :
        cpc[c] = "lock" ~> \/ cpc[c] = "out"
                           \/ \E d \in Cancellers \ {c} : cpc[d] # "out"

=============================================================================
