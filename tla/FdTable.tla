------------------------------- MODULE FdTable ------------------------------
(***************************************************************************)
(* The descriptor table of a gfal2 context and the life of the file        *)
(* handles it points to: gfal_file_handler_container.c, gfal_file_handle.c,*)
(* the descriptor functions of src/core/file and the dispatch to the       *)
(* plugin that owns a handle in gfal_plugin.c.  Files and directories      *)
(* share one table, so an action stands for both families.                 *)
(*                                                                         *)
(* A call is several steps.  The table is read under m_container, then the *)
(* plugin works on the handle with no lock held, and gfal2_close takes the *)
(* descriptor out of the table only after the plugin has closed, and       *)
(* freed, the handle.  Any thread may call with any descriptor at any      *)
(* time: nothing in gfal2 keeps a close apart from the other calls, nor an *)
(* application from using a descriptor whose close failed.  What happens   *)
(* to a thread that works on a freed handle is undefined; here it stops.   *)
(* Handles are never reused in the model, so that a use of a freed one     *)
(* stays visible.                                                          *)
(*                                                                         *)
(* MixedIO says whether the application mixes plain and positional I/O on  *)
(* one descriptor.  Freeing is the set of handles whose plugin may free    *)
(* them although it reports that the close failed: dcap, http and xrootd   *)
(* close, rfio closedir, and srm when its putdone or release fails.  The   *)
(* file and gridftp plugins, rfio close and dcap closedir keep them.       *)
(*                                                                         *)
(* failed and raced are history: no step reads them.                       *)
(***************************************************************************)
EXTENDS Integers, FiniteSets

CONSTANTS
    Threads,             \* application threads
    Handles,             \* struct _gfal_file_handle objects that can be made
    Keys,                \* what rand() can return except 0
    MaxOpen,             \* G_MAXINT / 2, the limit of the key generator
    Offsets,             \* positions in a file
    IntRange,            \* 2^31: offsets from here on do not fit an int
    MixedIO,             \* plain and positional I/O on the same descriptor
    Freeing,             \* handles a failed close may free
    NoHandle,
    NoThread

ASSUME ThreadsOK == NoThread \notin Threads
ASSUME HandlesOK == NoHandle \notin Handles
ASSUME KeysOK ==
    /\ Keys \subseteq Nat \ {0}
    /\ IsFiniteSet(Keys)
ASSUME LimitsOK == MaxOpen \in Nat /\ IntRange \in Nat \ {0} /\ MaxOpen + 1 < Cardinality(Keys)
ASSUME OffsetsOK == Offsets \subseteq Nat /\ 0 \in Offsets
ASSUME PoliciesOK ==
    MixedIO \in BOOLEAN /\ Freeing \subseteq Handles

VARIABLES
    table,    \* fdescs->container: the handle of each key, or NoHandle
    heap,     \* state of each handle: "unused", "live", "freed"
    lock,     \* who holds fh->lock
    pos,      \* the plugin's cursor on the handle
    pc,       \* where each thread is
    key,      \* the descriptor of its current call
    fh,       \* the handle it works on
    off,      \* the offset a positional call asked for
    ret,      \* what its last open or lseek returned, -1 before; 0 is what
              \* an open returns that found the table full
    failed,   \* handles a close of which has failed
    raced     \* threads whose call overlaps a close of the handle they bound

vars == <<table, heap, lock, pos, pc, key, fh, off, ret, failed, raced>>

Pcs == {"idle", "store", "io", "lock", "seek", "transfer", "close", "remove"}

\* Thread t returns: the locals of its call are gone.
Return(t) ==
    /\ pc' = [pc EXCEPT ![t] = "idle"]
    /\ key' = [key EXCEPT ![t] = 0]
    /\ fh' = [fh EXCEPT ![t] = NoHandle]
    /\ off' = [off EXCEPT ![t] = 0]
    /\ raced' = raced \ {t}

\* Thread t has bound handle h and not returned.
InCall(t, h) == pc[t] \notin {"idle", "store"} /\ fh[t] = h

\* Thread t is closing handle h, or has and will now remove its descriptor.
Closing(t, h) == pc[t] \in {"close", "remove"} /\ fh[t] = h

\* Thread t is about to work on handle h.
Touches(t, h) ==
    pc[t] \in {"store", "io", "lock", "seek", "transfer", "close"} /\ fh[t] = h

Init ==
    /\ table = [k \in Keys |-> NoHandle]
    /\ heap = [h \in Handles |-> "unused"]
    /\ lock = [h \in Handles |-> NoThread]
    /\ pos = [h \in Handles |-> 0]
    /\ pc = [t \in Threads |-> "idle"]
    /\ key = [t \in Threads |-> 0]
    /\ fh = [t \in Threads |-> NoHandle]
    /\ off = [t \in Threads |-> 0]
    /\ ret = [t \in Threads |-> -1]
    /\ failed = {}
    /\ raced = {}

-----------------------------------------------------------------------------
(* gfal2_open2, gfal2_creat, gfal2_opendir                                 *)

\* gfal_plugin_openG / opendirG: the plugin makes a handle with
\* gfal_file_handle_new.  A plugin that fails changes nothing here.
PluginOpen(t) ==
    /\ pc[t] = "idle"
    /\ \E h \in Handles :
          /\ heap[h] = "unused"
          /\ heap' = [heap EXCEPT ![h] = "live"]
          /\ fh' = [fh EXCEPT ![t] = h]
    /\ pc' = [pc EXCEPT ![t] = "store"]
    /\ ret' = [ret EXCEPT ![t] = -1]
    /\ UNCHANGED <<table, lock, pos, key, off, failed, raced>>

UsedKeys == {k \in Keys : table[k] # NoHandle}

\* gfal_file_key_generatorG: rand() until it is neither 0 nor in use.
FreshKey(k) == table[k] = NoHandle

\* gfal_add_new_file_desc: generate a key and insert, under m_container.
StoreHandle(t) ==
    /\ pc[t] = "store"
    /\ Cardinality(UsedKeys) <= MaxOpen
    /\ \E k \in Keys :
          /\ FreshKey(k)
          /\ table' = [table EXCEPT ![k] = fh[t]]
          /\ ret' = [ret EXCEPT ![t] = k]
    /\ Return(t)
    /\ UNCHANGED <<heap, lock, pos, failed>>

\* The limit is reached: EMFILE, the key is 0, nobody frees the handle and
\* gfal2_open2 returns the key.
StoreRefused(t) ==
    /\ pc[t] = "store"
    /\ Cardinality(UsedKeys) > MaxOpen
    /\ ret' = [ret EXCEPT ![t] = 0]
    /\ Return(t)
    /\ UNCHANGED <<table, heap, lock, pos, failed>>

-----------------------------------------------------------------------------
(* gfal_file_handle_bind: the look-up under m_container that every call on *)
(* a descriptor begins with.  One that finds nothing reports EBADF and     *)
(* changes nothing.                                                        *)

Bind(t, k, next) ==
    /\ pc[t] = "idle"
    /\ table[k] # NoHandle
    /\ key' = [key EXCEPT ![t] = k]
    /\ fh' = [fh EXCEPT ![t] = table[k]]
    /\ pc' = [pc EXCEPT ![t] = next]
    /\ ret' = [ret EXCEPT ![t] = -1]

\* Thread t joins the calls on handle h: it races with a close under way.
Joins(t, h) ==
    raced' = IF \E u \in Threads : Closing(u, h) THEN raced \cup {t} ELSE raced

\* gfal2_read, gfal2_write, gfal2_lseek, gfal2_readdir, gfal2_readdirpp
BeginIo(t) ==
    /\ \E k \in Keys :
          /\ Bind(t, k, "io")
          /\ Joins(t, table[k])
          /\ ~MixedIO => \A u \in Threads :
                ~(InCall(u, table[k]) /\ pc[u] \in {"lock", "seek", "transfer"})
    /\ UNCHANGED <<table, heap, lock, pos, off, failed>>

\* gfal2_pread, gfal2_pwrite on a plugin with neither preadG nor pwriteG
BeginPositional(t) ==
    /\ \E k \in Keys :
          /\ Bind(t, k, "lock")
          /\ Joins(t, table[k])
          /\ ~MixedIO => \A u \in Threads : ~(InCall(u, table[k]) /\ pc[u] = "io")
    /\ \E o \in Offsets : off' = [off EXCEPT ![t] = o]
    /\ UNCHANGED <<table, heap, lock, pos, failed>>

\* gfal2_close, gfal2_closedir: every call in progress on the handle now
\* races with a close, and so does this one if another close does.
BeginClose(t) ==
    /\ \E k \in Keys :
          /\ Bind(t, k, "close")
          /\ raced' = raced \cup {u \in Threads : InCall(u, table[k])}
                \cup {u \in {t} : \E v \in Threads : Closing(v, table[k])}
    /\ UNCHANGED <<table, heap, lock, pos, off, failed>>

-----------------------------------------------------------------------------
(* Plain I/O: gfal_plugin_readG, writeG, lseekG, readdirG.  No lock.       *)

\* The plugin reads or writes at its cursor and moves it.
Transfer(t) ==
    /\ pc[t] = "io"
    /\ heap[fh[t]] = "live"
    /\ \E o \in Offsets : pos' = [pos EXCEPT ![fh[t]] = o]
    /\ Return(t)
    /\ UNCHANGED <<table, heap, lock, ret, failed>>

\* off_t squeezed through the int of gfal_plugin_lseekG and gfal2_lseek.
AsInt(o) == ((o + IntRange) % (2 * IntRange)) - IntRange

Lseek(t) ==
    /\ pc[t] = "io"
    /\ heap[fh[t]] = "live"
    /\ \E o \in Offsets :
          /\ pos' = [pos EXCEPT ![fh[t]] = o]
          /\ ret' = [ret EXCEPT ![t] = AsInt(o)]
    /\ Return(t)
    /\ UNCHANGED <<table, heap, lock, failed>>

-----------------------------------------------------------------------------
(* gfal_plugin_simulate_preadG and simulate_pwriteG                        *)

\* A simulation that does not take the handle's lock.
PositionalUnlocked(t) ==
    /\ pc[t] = "lock"
    /\ heap[fh[t]] = "live"
    /\ pc' = [pc EXCEPT ![t] = "seek"]
    /\ UNCHANGED <<table, heap, lock, pos, key, fh, off, ret, failed, raced>>

PositionalLock(t) ==
    /\ pc[t] = "lock"
    /\ heap[fh[t]] = "live"
    /\ lock[fh[t]] = NoThread
    /\ lock' = [lock EXCEPT ![fh[t]] = t]
    /\ pc' = [pc EXCEPT ![t] = "seek"]
    /\ UNCHANGED <<table, heap, pos, key, fh, off, ret, failed, raced>>

PositionalSeek(t) ==
    /\ pc[t] = "seek"
    /\ heap[fh[t]] = "live"
    /\ pos' = [pos EXCEPT ![fh[t]] = off[t]]
    /\ pc' = [pc EXCEPT ![t] = "transfer"]
    /\ UNCHANGED <<table, heap, lock, key, fh, off, ret, failed, raced>>

\* lseekG fails or answers with another offset (EOVERFLOW): unlock, return.
PositionalSeekFails(t) ==
    /\ pc[t] = "seek"
    /\ heap[fh[t]] = "live"
    /\ lock' = [lock EXCEPT ![fh[t]] = NoThread]
    /\ Return(t)
    /\ UNCHANGED <<table, heap, pos, ret, failed>>

\* readG or writeG at the cursor, then unlock.
PositionalTransfer(t) ==
    /\ pc[t] = "transfer"
    /\ heap[fh[t]] = "live"
    /\ \E o \in Offsets : pos' = [pos EXCEPT ![fh[t]] = o]
    /\ lock' = [lock EXCEPT ![fh[t]] = NoThread]
    /\ Return(t)
    /\ UNCHANGED <<table, heap, ret, failed>>

-----------------------------------------------------------------------------
(* gfal_plugin_closeG / closedirG, then gfal_remove_file_desc              *)

PluginCloses(t) ==
    /\ pc[t] = "close"
    /\ heap[fh[t]] = "live"
    /\ heap' = [heap EXCEPT ![fh[t]] = "freed"]
    /\ pc' = [pc EXCEPT ![t] = "remove"]
    /\ UNCHANGED <<table, lock, pos, key, fh, off, ret, failed, raced>>

\* The plugin reports a failure, having freed the handle or not: gfal2_close
\* returns it and the descriptor stays in the table.
PluginCloseFails(t) ==
    /\ pc[t] = "close"
    /\ heap[fh[t]] = "live"
    /\ \/ heap' = heap
       \/ fh[t] \in Freeing /\ heap' = [heap EXCEPT ![fh[t]] = "freed"]
    /\ failed' = failed \cup {fh[t]}
    /\ Return(t)
    /\ UNCHANGED <<table, lock, pos, ret>>

\* A gfal2_close that leaves the descriptor behind, as after a failure.
LeaveDesc(t) ==
    /\ pc[t] = "remove"
    /\ Return(t)
    /\ UNCHANGED <<table, heap, lock, pos, ret, failed>>

\* Removal under m_container; one that finds nothing reports EBADF.
RemoveDesc(t) ==
    /\ pc[t] = "remove"
    /\ table' = [table EXCEPT ![key[t]] = NoHandle]
    /\ Return(t)
    /\ UNCHANGED <<heap, lock, pos, ret, failed>>

-----------------------------------------------------------------------------
Step(t) ==
    \/ PluginOpen(t) \/ StoreHandle(t) \/ StoreRefused(t)
    \/ BeginIo(t) \/ BeginPositional(t) \/ BeginClose(t)
    \/ Transfer(t) \/ Lseek(t)
    \/ PositionalLock(t) \/ PositionalSeek(t) \/ PositionalSeekFails(t)
    \/ PositionalTransfer(t)
    \/ PluginCloses(t) \/ PluginCloseFails(t) \/ RemoveDesc(t)

Next == \E t \in Threads : Step(t)

Spec == Init /\ [][Next]_vars

-----------------------------------------------------------------------------
(* Properties                                                              *)

\* Every variable has its type.
TypeOK ==
    /\ table \in [Keys -> Handles \cup {NoHandle}]
    /\ heap \in [Handles -> {"unused", "live", "freed"}]
    /\ lock \in [Handles -> Threads \cup {NoThread}]
    /\ pos \in [Handles -> Offsets]
    /\ pc \in [Threads -> Pcs]
    /\ key \in [Threads -> Keys \cup {0}]
    /\ fh \in [Threads -> Handles \cup {NoHandle}]
    /\ off \in [Threads -> Offsets]
    /\ ret \in [Threads -> Int]
    /\ failed \in SUBSET Handles
    /\ raced \in SUBSET Threads

\* The only failed closes that take a handle away from its descriptor are
\* those of the plugins that free it all the same.
FreedByFailure == Freeing \cap failed

\* A call works on a freed handle in two cases only: a close of the same
\* handle overlaps that very call, or a close has failed that freed it.  In
\* particular a call that begins once a close has returned finds the
\* descriptor gone, or in use for another handle that is live, and after a
\* failed close of a plugin that keeps its handle every call is safe.
NoUseAfterFree ==
    \A t \in Threads, h \in Handles :
        Touches(t, h) /\ heap[h] # "live" => t \in raced \/ h \in FreedByFailure

\* "allows the usage of parallels read at the same time on the same file
\* descriptor" (gfal_pread): the seek and the transfer of an emulated pread
\* or pwrite are not separated by those of another thread.
PreadAtOffset ==
    \A t \in Threads : pc[t] = "transfer" => pos[fh[t]] = off[t]

\* A descriptor in the table names a live handle, but between the two steps
\* of its close and after a failed close that freed the handle.
DescriptorsLive ==
    \A k \in Keys : table[k] # NoHandle /\ heap[table[k]] # "live" =>
        \/ \E u \in Threads : pc[u] = "remove" /\ fh[u] = table[k] /\ key[u] = k
        \/ table[k] \in FreedByFailure

\* Two descriptors never name the same handle.
DescriptorsDistinct ==
    \A j, k \in Keys : j # k /\ table[j] = table[k] => table[j] = NoHandle

Positional == {"lock", "seek", "transfer"}

\* A thread inside a call bound a descriptor that is still the only one to
\* name its handle, if any does.
CallsBound ==
    \A t \in Threads : pc[t] \notin {"idle", "store"} =>
        /\ key[t] \in Keys
        /\ fh[t] \in Handles
        /\ heap[fh[t]] # "unused"
        /\ \A k \in Keys : table[k] = fh[t] => k = key[t]

\* Whoever is in a call on a handle that another thread closes has raced.
RaceSeen ==
    \A t, u \in Threads, h \in Handles :
        t # u /\ Closing(t, h) /\ InCall(u, h) => u \in raced

\* A handle that waits to be stored is live and nobody else has it.
StoresOwn ==
    \A t \in Threads : pc[t] = "store" =>
        /\ fh[t] \in Handles
        /\ heap[fh[t]] = "live"
        /\ \A k \in Keys : table[k] # fh[t]
        /\ \A u \in Threads : fh[u] = fh[t] => u = t

\* A thread between calls has no handle.
IdleHasNone == \A t \in Threads : pc[t] = "idle" => fh[t] = NoHandle

\* What is in the table has been allocated.
TableAllocated ==
    \A k \in Keys : table[k] \in Handles => heap[table[k]] # "unused"

\* The lock of a handle is held exactly by the thread between lock and unlock.
LockHolder ==
    /\ \A t \in Threads : pc[t] \in {"seek", "transfer"} => lock[fh[t]] = t
    /\ \A h \in Handles, t \in Threads :
          lock[h] = t => pc[t] \in {"seek", "transfer"} /\ fh[t] = h

\* The application keeps plain and positional calls apart.
IoApart ==
    \A t, u \in Threads :
        ~(pc[t] = "io" /\ pc[u] \in Positional /\ fh[t] = fh[u])

\* The inductive invariant behind the safety properties.
IInv ==
    /\ TypeOK
    /\ NoUseAfterFree
    /\ DescriptorsLive
    /\ DescriptorsDistinct
    /\ CallsBound
    /\ RaceSeen
    /\ StoresOwn
    /\ IdleHasNone
    /\ TableAllocated
    /\ LockHolder

=============================================================================
