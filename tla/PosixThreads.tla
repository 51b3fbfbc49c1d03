---------------------------- MODULE PosixThreads ----------------------------
(***************************************************************************)
(* The POSIX layer (src/core/posix/gfal_posix_ng.c): every thread has a    *)
(* context, made by its first call, and keeps its last error.  A call asks *)
(* for the context, goes through the file API (UrlCalls) and leaves errno  *)
(* and the stored error behind.  A thread may also use the file API with   *)
(* its context directly, and register plugins.                             *)
(***************************************************************************)
EXTENDS UrlCalls

CONSTANT Busy   \* bound: the threads that make more than a first call

VARIABLES
    debug,   \* the log level is DEBUG: an error already set is not replaced
    error,   \* Gfal2ThreadContext.error: whether one is stored
    handle,  \* an open file or directory: the plugin it was opened with
    last     \* what the caller can make of the call that returned last

posix == <<error, handle, last>>
posixVars == <<pc, registry, debug, posix>>

NoHandle == [at |-> 0, name |-> "none"]

PosixInit ==
    /\ PluginsInit
    /\ pc = [t \in Threads |-> "idle"]
    /\ debug \in BOOLEAN
    /\ error = [t \in Threads |-> FALSE]
    /\ handle = [t \in Threads |-> NoHandle]
    /\ last = [t \in Threads |-> "fine"]

\* What the caller learns from a call with outcome r.
Verdict(r) == IF r.ret = 0 THEN "fine"
              ELSE IF r.err = "none" THEN "unexplained" ELSE "explained"

-----------------------------------------------------------------------------
\* gfal_posix_get_handle
GetHandle(t) ==
    /\ pc[t] = "idle" /\ (t \in Busy \/ ~context[t])
    /\ GoTo(t, IF context[t] THEN "instance" ELSE "new")
    /\ last' = [last EXCEPT ![t] = "fine"]
    /\ UNCHANGED <<registry, debug, error, handle>>

\* gfal_posix_get_handle: there is no context.  The error is propagated into
\* one that may be there already, and errno is taken from the result.
NoContext(t) ==
    /\ pc[t] = "refused"
    /\ Forsake(t)
    /\ error' = [error EXCEPT ![t] = TRUE]
    /\ last' = [last EXCEPT ![t] = IF debug /\ error[t] THEN "masked" ELSE "explained"]
    /\ GoTo(t, "idle")
    /\ UNCHANGED <<context, sorted, constructor, mine, loads, alive, raced, halted,
                   outside, debug, handle>>

\* gfal_posix_register_internal_error: an error stored before is dropped, and
\* errno has the code of the new one.
RegisterInternalError(t) == error' = [error EXCEPT ![t] = TRUE]

\* The plugins are there, or could not be loaded: the call goes on.
InCall(t) == pc[t] \in {"dispatch", "failed"}

\* A call returns r; its error, if it set one, is registered.
Return(t, r, across) ==
    /\ IF r.err = "none" THEN UNCHANGED error ELSE RegisterInternalError(t)
    /\ last' = [last EXCEPT ![t] = IF across THEN "across" ELSE Verdict(r)]
    /\ GoTo(t, "idle")
    /\ UNCHANGED <<registry, debug>>

\* A call of the file API itself gives its error to the caller.
ReturnError(t, r) ==
    /\ last' = [last EXCEPT ![t] = Verdict(r)]
    /\ GoTo(t, "idle")
    /\ UNCHANGED <<registry, debug, error, handle>>

Across(t, op, u, v) ==
    LET src == FindPlugin(t, op, u)
        dst == FindPlugin(t, op, v)
    IN  src # 0 /\ dst # 0 /\ src # dst

Args == Urls \cup {NoUrl}

-----------------------------------------------------------------------------
\* gfal_access, gfal_chmod, gfal_rename, gfal_stat, gfal_lstat, gfal_mkdirp,
\* gfal_mkdir, gfal_rmdir
NameCall(t) ==
    /\ \/ \E op \in {"access", "chmod", "stat"}, u \in Args :
            \E r \in Gfal2Url(t, op, u, NoUrl) : Return(t, r, FALSE)
       \/ \E u \in Args : \E r \in Gfal2Lstat(t, u) \cup Gfal2Mkdir(t, u) \cup Gfal2Rmdir(t, u) :
            Return(t, r, FALSE)
       \/ \E u, v \in Args : \E r \in Gfal2Url(t, "rename", u, v) :
            Return(t, r, Across(t, "rename", u, v))
    /\ UNCHANGED handle

\* A file or a directory is opened; its handle keeps the name of the plugin.
Open(t, op) ==
    /\ t \in Busy /\ handle[t] = NoHandle
    /\ \E u \in Args : \E r \in WithUrl(u, UrlOp(t, op, u)) :
         LET p == FindPlugin(t, op, u) IN
         /\ Return(t, r, FALSE)
         /\ handle' = IF r.ret < 0 THEN handle
                      ELSE [handle EXCEPT ![t] = [at |-> p, name |-> Name[plugins[t][p]]]]

\* A call on the handle, which is gone when a close succeeds.
OnHandle(t, op, outcomes) ==
    /\ t \in Busy
    /\ \E r \in IF handle[t] = NoHandle THEN {Fails("EBADF")} ELSE outcomes :
         /\ Return(t, r, FALSE)
         /\ handle' = IF op = "close" /\ r.ret = 0
                      THEN [handle EXCEPT ![t] = NoHandle] ELSE handle

\* gfal_opendir, gfal_readdir, gfal_closedir
DirCall(t) ==
    \/ Open(t, "opendir")
    \/ OnHandle(t, "readdir", Gfal2Readdir(t, handle[t].name))
    \/ OnHandle(t, "close", HandleOp(t, "closedir", handle[t].name))

\* gfal_open, gfal_creat
OpenCall(t) == Open(t, "open")

\* gfal_read, gfal_write, gfal_close
FileCall(t) ==
    \E op \in {"read", "write", "close"} :
        OnHandle(t, op, HandleOp(t, op, handle[t].name))

\* gfal_pread, gfal_pwrite
PositionCall(t) ==
    \E op \in {"pread", "pwrite"} : OnHandle(t, op, HandleOp(t, op, handle[t].name))

\* gfal_symlink, gfal_getxattr, gfal_readlink, gfal_unlink (gfal_lseek, which
\* is in between, is as gfal_read)
LinkCall(t) ==
    /\ t \in Busy
    /\ \/ \E u, v \in Args : \E r \in Gfal2Link(t, "symlink", u, v) :
            Return(t, r, Across(t, "symlink", u, v))
       \/ \E op \in {"getxattr", "readlink", "unlink"}, u \in Args :
            \E r \in Gfal2Link(t, op, u, NoUrl) : Return(t, r, FALSE)
    /\ UNCHANGED handle

\* gfal_listxattr, gfal_setxattr
AttrCall(t) ==
    /\ t \in Busy
    /\ \E op \in {"listxattr", "setxattr"}, u \in Args :
         \E r \in Gfal2Attr(t, op, u) : Return(t, r, FALSE)
    /\ UNCHANGED handle

\* gfal_removexattr, which needs no context
RemovexattrCall(t) ==
    /\ t \in Busy
    /\ pc[t] = "idle"
    /\ RegisterInternalError(t)
    /\ last' = [last EXCEPT ![t] = Verdict(Fails("ENOSYS"))]
    /\ UNCHANGED <<pc, registry, debug, handle>>

\* The calls a client makes with the context, beyond those of POSIX.
DirectCall(t) ==
    /\ t \in Busy
    /\ \/ \E op \in {"qos", "token"}, u \in Args :
            \E r \in Gfal2Qos(t, op, u) : ReturnError(t, r)
       \/ \E u \in Args : \E r \in ChecksumOp(t, u) : ReturnError(t, r)
       \* the URLs of a list are never NULL
       \/ \E op \in {"unlink", "abort", "archive"}, u \in Urls :
            \E r \in ListOp(t, op, <<u>>) : ReturnError(t, r)
       \/ /\ handle[t] # NoHandle
          /\ \E r \in Gfal2Readdirpp(t, handle[t].name) : ReturnError(t, r)

\* gfal_posix_clear_error, gfal_posix_release_error
ClearError(t) ==
    /\ pc[t] = "idle" /\ error[t]
    /\ error' = [error EXCEPT ![t] = FALSE]
    /\ last' = [last EXCEPT ![t] = "fine"]
    /\ UNCHANGED <<pc, registry, debug, handle>>

\* gfal2_register_plugin; ENOMEM changes nothing
RegisterPlugin(t) ==
    /\ t \in Busy
    /\ pc[t] = "idle" /\ context[t]
    /\ \E p \in Clients : Register(t, p)
    /\ last' = [last EXCEPT ![t] = "fine"]
    /\ UNCHANGED <<pc, context, modules, constructor, mine, loads, raced, halted,
                   debug, error, handle>>

\* gfal_posix_free_context, when the thread ends.  Open files stay open.
EndThread(t) ==
    /\ pc[t] = "idle"
    /\ FreeContext(t)
    /\ error' = [error EXCEPT ![t] = FALSE]
    /\ handle' = [handle EXCEPT ![t] = NoHandle]
    /\ last' = [last EXCEPT ![t] = "fine"]
    /\ GoTo(t, "ended")
    /\ UNCHANGED <<modules, constructor, mine, loads, raced, halted, outside, debug>>

Load(t) ==
    /\ \/ StartLoad(t) \/ SkipBroken(t) \/ LookUpSymbol(t) \/ Construct(t)
       \/ FinishLoad(t)
    /\ UNCHANGED <<debug, posix>>

PosixNext ==
    \E t \in Threads :
        \/ Load(t)
        \/ GetHandle(t) \/ NoContext(t)
        \/ /\ InCall(t)
           /\ \/ NameCall(t) \/ DirCall(t) \/ OpenCall(t) \/ FileCall(t) \/ PositionCall(t)
              \/ LinkCall(t) \/ AttrCall(t) \/ DirectCall(t)
        \/ RemovexattrCall(t) \/ ClearError(t) \/ RegisterPlugin(t) \/ EndThread(t)

PosixSpec == PosixInit /\ [][PosixNext]_posixVars

-----------------------------------------------------------------------------
\* The plugins that the last load has put into plugin_list.
Listed(t) ==
    LET l == OfKind(listed[t].dir, {"plugin"}) IN SubSeq(l, listed[t].from, Len(l))

\* gfal_modules_resolve, gfal2_register_plugin: unless another thread was loading
\* at the same time, a context holds the plugins of the directory it was loaded
\* from, one each and in its order, followed by those of the client.  The first
\* is missing, and a plugin was written outside plugin_list, only if a load of
\* the thread had failed before; the list is never overrun at its end.
LoadedAsListed ==
    \A t \in Threads :
        /\ number[t] <= MaxPluginList
        /\ (outside[t] \/ listed[t].from = 2) => halted[t]
        /\ (pc[t] \in {"idle", "dispatch"} /\ context[t] /\ number[t] >= 0 /\ ~raced[t]) =>
            /\ Len(Listed(t)) <= number[t]
            /\ SubSeq(plugins[t], 1, Len(Listed(t))) = Listed(t)
            /\ \A i \in (Len(Listed(t)) + 1) .. number[t] : plugins[t][i] \in Clients

\* gfal_find_plugin: no plugin with a higher priority would have accepted the
\* URL, and among equals the one loaded first gets it; also after a client has
\* registered others.
FirstByPriority ==
    \A t \in Threads, u \in Urls :
        LET p == FindPlugin(t, "stat", u)
            pr(i) == Priority[plugins[t][i]]
        IN  (context[t] /\ p # 0) =>
              \A i \in 1..number[t] :
                Accepts(plugins[t][i], "stat", u) =>
                    pr(i) < pr(p) \/ (pr(i) = pr(p) /\ i >= p)

\* gfal_posix_free_context and gfal2_context_free: a thread that has ended
\* leaves a plugin undeleted only if a load of its failed half way.
PluginsReleased ==
    \A t \in Threads : (pc[t] = "ended" /\ ~halted[t]) => alive[t] = 0

\* The caller of a function that failed learns why: errno, or the GError, is
\* the code of this failure.  Two cases stand out: a rename or a link from one
\* plugin to another, and a context that cannot be made while an older error
\* is stored and the log level is DEBUG.
FailureExplained ==
    \A t \in Threads : last[t] # "unexplained" /\ (last[t] = "masked" => debug)

-----------------------------------------------------------------------------
(* The inductive invariant behind the four                                 *)

Loading == {"load", "construct", "reload", "reconstruct"}

PosixTypes ==
    /\ pc \in [Threads -> {"idle", "new", "instance", "dispatch", "refused", "failed",
                           "ended"} \cup Loading]
    /\ context \in [Threads -> BOOLEAN]
    /\ plugins \in [Threads -> Seq(Makeable \cup Clients)]
    /\ number \in [Threads -> -1 .. MaxPluginList]
    /\ sorted \in [Threads -> Seq(Nat)]
    /\ modules \in [Threads -> Seq(DOMAIN Kind)]
    /\ constructor \in Makeable \cup {"none"}
    /\ mine \in [Threads -> Makeable \cup {"none"}]
    /\ alive \in [Threads -> Int]
    /\ listed \in [Threads -> [dir : Seq(DOMAIN Kind), from : {1, 2}]]
    /\ raced \in [Threads -> BOOLEAN]
    /\ halted \in [Threads -> BOOLEAN]
    /\ outside \in [Threads -> BOOLEAN]
    /\ handle = [t \in Threads |-> handle[t]]
    /\ last \in [Threads -> {"fine", "explained", "across", "masked"}]

\* The count is that of the plugins, and of those alive unless a load failed.
CountInv(t) ==
    /\ number[t] >= 0 => Len(plugins[t]) = number[t]
    /\ number[t] < 0 => halted[t]
    /\ (outside[t] \/ listed[t].from = 2) => halted[t]
    /\ ~halted[t] => alive[t] = number[t]

\* What a thread can be at, given its context.
StageInv(t) ==
    /\ pc[t] \in {"refused", "failed"} => number[t] < 0
    /\ pc[t] \in {"new", "load", "construct", "refused", "ended"} => ~context[t]
    /\ pc[t] \in {"instance", "dispatch", "failed", "reload", "reconstruct"} => context[t]
    /\ (pc[t] \in {"idle", "new", "ended"} /\ ~context[t]) => number[t] = 0
    /\ pc[t] \in {"load", "construct"} => number[t] >= 0

SortInv(t) ==
    sorted[t] = IF context[t] /\ number[t] > 0 /\ pc[t] \notin Loading
                THEN SortedByPriority(plugins[t]) ELSE <<>>

\* How far a load has come: k modules of the directory are dealt with, and the
\* plugins among them are in the list, but for the first if it began at -1.
LoadInv(t) ==
    /\ pc[t] \in {"construct", "reconstruct"} =>
          modules[t] # <<>> /\ mine[t] = Head(modules[t]) /\ mine[t] \in Makeable
    /\ pc[t] \in Loading =>
          LET m == ModuleFiles(listed[t].dir) IN
          /\ listed[t].dir \in Dirs
          /\ \E k \in 0 .. Len(m) :
                LET l == OfKind(SubSeq(m, 1, k), {"plugin"}) IN
                /\ modules[t] = SubSeq(m, k + 1, Len(m))
                /\ number[t] <= k
                /\ number[t] = Len(l) - (listed[t].from - 1)
                /\ ~raced[t] =>
                      (number[t] >= 0 => plugins[t] = SubSeq(l, listed[t].from, Len(l)))

ListInv(t) ==
    (/\ pc[t] \in {"idle", "instance", "dispatch"} /\ context[t] /\ number[t] >= 0
     /\ ~raced[t]) =>
        /\ Len(Listed(t)) <= number[t]
        /\ SubSeq(plugins[t], 1, Len(Listed(t))) = Listed(t)
        /\ \A i \in (Len(Listed(t)) + 1) .. number[t] : plugins[t][i] \in Clients

HandleInv(t) ==
    handle[t] # NoHandle =>
        /\ context[t] /\ number[t] > 0
        /\ pc[t] \in {"idle", "instance", "dispatch"}
        /\ handle[t].at \in 1 .. number[t]
        /\ handle[t].name = Name[plugins[t][handle[t].at]]

ThreadInv(t) ==
    /\ CountInv(t) /\ StageInv(t) /\ SortInv(t) /\ LoadInv(t) /\ ListInv(t) /\ HandleInv(t)
    /\ last[t] = "masked" => debug

PosixInv == PosixTypes /\ \A t \in Threads : ThreadInv(t)

=============================================================================
