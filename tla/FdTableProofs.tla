---------------------------- MODULE FdTableProofs ---------------------------
(***************************************************************************)
(* Proofs about FdTable for any number of threads, handles and keys, any   *)
(* mix of plugins and any order of calls: which calls can work on a freed  *)
(* handle and, when the application keeps plain and positional I/O apart,  *)
(* that an emulated pread transfers at the offset it was asked for.        *)
(***************************************************************************)
EXTENDS FdTable, TLAPS

LEMMA InitIInv == Init => IInv
<1> SUFFICES ASSUME Init PROVE IInv
  OBVIOUS
<1>1. TypeOK
  BY OffsetsOK DEF Init, TypeOK, Pcs
<1>2. NoUseAfterFree /\ DescriptorsLive /\ DescriptorsDistinct /\ TableAllocated
  BY HandlesOK DEF Init, NoUseAfterFree, Touches, DescriptorsLive, DescriptorsDistinct,
     TableAllocated
<1>3. CallsBound /\ RaceSeen /\ StoresOwn /\ IdleHasNone /\ LockHolder
  BY ThreadsOK DEF Init, CallsBound, RaceSeen, Closing, InCall, StoresOwn, IdleHasNone,
     LockHolder
<1> QED
  BY <1>1, <1>2, <1>3 DEF IInv

\* Opening: a new handle, then its key.
LEMMA OpenKeepsIInv ==
    ASSUME IInv, NEW t \in Threads,
           PluginOpen(t) \/ StoreHandle(t) \/ StoreRefused(t)
    PROVE  IInv'
<1> USE HandlesOK, KeysOK, ThreadsOK, OffsetsOK
<1>1. CASE PluginOpen(t)
  <2> PICK h \in Handles :
            /\ heap[h] = "unused"
            /\ heap' = [heap EXCEPT ![h] = "live"]
            /\ fh' = [fh EXCEPT ![t] = h]
    BY <1>1 DEF PluginOpen
  <2>0. /\ pc[t] = "idle" /\ pc' = [pc EXCEPT ![t] = "store"]
        /\ ret' = [ret EXCEPT ![t] = -1]
        /\ UNCHANGED <<table, lock, pos, key, off, failed, raced>>
    BY <1>1 DEF PluginOpen
  <2>a. \A u \in Threads : fh[u] # h
    <3> SUFFICES ASSUME NEW u \in Threads, fh[u] = h PROVE FALSE
      OBVIOUS
    <3> QED
      BY DEF IInv, TypeOK, CallsBound, StoresOwn, IdleHasNone, Pcs
  <2>1. TypeOK'
    BY <2>0 DEF IInv, TypeOK, Pcs
  <2>2. NoUseAfterFree'
    BY <2>0, <2>a DEF IInv, TypeOK, NoUseAfterFree, Touches, FreedByFailure
  <2>3. DescriptorsLive'
    <3> SUFFICES ASSUME NEW k \in Keys, table[k] # NoHandle, heap'[table[k]] # "live"
                 PROVE  \/ \E u \in Threads :
                              pc'[u] = "remove" /\ fh'[u] = table[k] /\ key'[u] = k
                        \/ table[k] \in FreedByFailure
      BY <2>0 DEF DescriptorsLive, FreedByFailure
    <3>1. heap[table[k]] # "live"
      BY DEF IInv, TypeOK
    <3>2. CASE table[k] \in FreedByFailure
      BY <3>2
    <3>3. CASE table[k] \notin FreedByFailure
      <4>1. PICK u \in Threads : pc[u] = "remove" /\ fh[u] = table[k] /\ key[u] = k
        BY <3>1, <3>3 DEF IInv, DescriptorsLive
      <4> QED
        BY <2>0, <4>1 DEF IInv, TypeOK
    <3> QED
      BY <3>2, <3>3
  <2>4. DescriptorsDistinct' /\ TableAllocated'
    BY <2>0 DEF IInv, TypeOK, DescriptorsDistinct, TableAllocated
  <2>5. CallsBound'
    BY <2>0 DEF IInv, TypeOK, CallsBound
  <2>6. RaceSeen'
    BY <2>0 DEF IInv, TypeOK, RaceSeen, Closing, InCall
  <2>7. StoresOwn'
    BY <2>0, <2>a DEF IInv, TypeOK, StoresOwn, TableAllocated
  <2>8. IdleHasNone' /\ LockHolder'
    BY <2>0 DEF IInv, TypeOK, IdleHasNone, LockHolder
  <2> QED
    BY <2>1, <2>2, <2>3, <2>4, <2>5, <2>6, <2>7, <2>8 DEF IInv
<1>2. CASE StoreHandle(t)
  <2> PICK k \in Keys :
            /\ table[k] = NoHandle
            /\ table' = [table EXCEPT ![k] = fh[t]]
            /\ ret' = [ret EXCEPT ![t] = k]
    BY <1>2 DEF StoreHandle, FreshKey
  <2>0. /\ pc[t] = "store" /\ Return(t)
        /\ UNCHANGED <<heap, lock, pos, failed>>
    BY <1>2 DEF StoreHandle
  <2>1. TypeOK'
    BY <2>0 DEF IInv, TypeOK, Return, Pcs, StoresOwn
  <2>2. NoUseAfterFree'
    BY <2>0 DEF IInv, TypeOK, NoUseAfterFree, Touches, FreedByFailure, Return
  <2>3. DescriptorsLive'
    <3> SUFFICES ASSUME NEW j \in Keys, table'[j] # NoHandle, heap[table'[j]] # "live"
                 PROVE  \/ \E u \in Threads :
                              pc'[u] = "remove" /\ fh'[u] = table'[j] /\ key'[u] = j
                        \/ table'[j] \in FreedByFailure
      BY <2>0 DEF DescriptorsLive, FreedByFailure
    <3>1. j # k /\ table'[j] = table[j]
      BY <2>0 DEF IInv, TypeOK, StoresOwn
    <3>2. CASE table[j] \in FreedByFailure
      BY <3>1, <3>2
    <3>3. CASE table[j] \notin FreedByFailure
      <4>1. PICK u \in Threads : pc[u] = "remove" /\ fh[u] = table[j] /\ key[u] = j
        BY <3>1, <3>3 DEF IInv, DescriptorsLive
      <4> QED
        BY <2>0, <3>1, <4>1 DEF IInv, TypeOK, Return
    <3> QED
      BY <3>2, <3>3
  <2>4. DescriptorsDistinct' /\ TableAllocated'
    BY <2>0 DEF IInv, TypeOK, DescriptorsDistinct, TableAllocated, StoresOwn
  <2>5. CallsBound'
    <3> SUFFICES ASSUME NEW u \in Threads, pc'[u] \notin {"idle", "store"}
                 PROVE  /\ key'[u] \in Keys
                        /\ fh'[u] \in Handles
                        /\ heap'[fh'[u]] # "unused"
                        /\ \A j \in Keys : table'[j] = fh'[u] => j = key'[u]
      BY DEF CallsBound
    <3>1. u # t /\ pc'[u] = pc[u] /\ key'[u] = key[u] /\ fh'[u] = fh[u]
      BY <2>0 DEF IInv, TypeOK, Return
    <3>2. fh[u] # fh[t]
      BY <2>0, <3>1 DEF IInv, StoresOwn
    <3> QED
      BY <2>0, <3>1, <3>2 DEF IInv, TypeOK, CallsBound
  <2>6. RaceSeen'
    BY <2>0 DEF IInv, TypeOK, RaceSeen, Closing, InCall, Return
  <2>7. StoresOwn'
    BY <2>0 DEF IInv, TypeOK, Return, StoresOwn
  <2>8. IdleHasNone' /\ LockHolder'
    BY <2>0 DEF IInv, TypeOK, Return, IdleHasNone, LockHolder
  <2> QED
    BY <2>1, <2>2, <2>3, <2>4, <2>5, <2>6, <2>7, <2>8 DEF IInv
<1>3. CASE StoreRefused(t)
  <2>0. /\ pc[t] = "store" /\ Return(t)
        /\ ret' = [ret EXCEPT ![t] = 0]
        /\ UNCHANGED <<table, heap, lock, pos, failed>>
    BY <1>3 DEF StoreRefused
  <2>1. TypeOK'
    BY <2>0 DEF IInv, TypeOK, Return, Pcs
  <2>2. NoUseAfterFree'
    BY <2>0 DEF IInv, TypeOK, NoUseAfterFree, Touches, FreedByFailure, Return
  <2>3. DescriptorsLive'
    BY <2>0 DEF IInv, TypeOK, Return, DescriptorsLive, FreedByFailure
  <2>4. DescriptorsDistinct' /\ TableAllocated'
    BY <2>0 DEF IInv, DescriptorsDistinct, TableAllocated
  <2>5. CallsBound' /\ StoresOwn'
    BY <2>0 DEF IInv, TypeOK, Return, CallsBound, StoresOwn
  <2>6. RaceSeen'
    BY <2>0 DEF IInv, TypeOK, RaceSeen, Closing, InCall, Return
  <2>7. IdleHasNone' /\ LockHolder'
    BY <2>0 DEF IInv, TypeOK, Return, IdleHasNone, LockHolder
  <2> QED
    BY <2>1, <2>2, <2>3, <2>4, <2>5, <2>6, <2>7 DEF IInv
<1> QED
  BY <1>1, <1>2, <1>3

\* Starting a call: the thread binds to the handle the table has, and races
\* with whoever closes it.
LEMMA BeginKeepsIInv ==
    ASSUME IInv, NEW t \in Threads,
           BeginIo(t) \/ BeginPositional(t) \/ BeginClose(t)
    PROVE  IInv'
<1> USE HandlesOK, KeysOK, ThreadsOK, OffsetsOK
<1>1. PICK k \in Keys, next \in {"io", "lock", "close"} :
          /\ Bind(t, k, next)
          /\ raced \subseteq raced' /\ raced' \subseteq Threads
          /\ (\E v \in Threads : Closing(v, table[k])) => t \in raced'
          /\ next = "close" => \A u \in Threads : InCall(u, table[k]) => u \in raced'
  <2>1. CASE BeginIo(t)
    BY <2>1 DEF BeginIo, Joins, IInv, TypeOK
  <2>2. CASE BeginPositional(t)
    BY <2>2 DEF BeginPositional, Joins, IInv, TypeOK
  <2>3. CASE BeginClose(t)
    <3>1. PICK k \in Keys :
              /\ Bind(t, k, "close")
              /\ raced' = raced \cup {u \in Threads : InCall(u, table[k])}
                    \cup {u \in {t} : \E v \in Threads : Closing(v, table[k])}
      BY <2>3 DEF BeginClose
    <3>2. raced \subseteq raced' /\ raced' \subseteq Threads
      BY <3>1 DEF IInv, TypeOK
    <3>3. /\ (\E v \in Threads : Closing(v, table[k])) => t \in raced'
          /\ \A u \in Threads : InCall(u, table[k]) => u \in raced'
      BY <3>1
    <3> QED
      BY <3>1, <3>2, <3>3
  <2> QED
    BY <2>1, <2>2, <2>3
<1> DEFINE h == table[k]
<1>2. /\ pc[t] = "idle" /\ h \in Handles
      /\ key' = [key EXCEPT ![t] = k]
      /\ fh' = [fh EXCEPT ![t] = h]
      /\ pc' = [pc EXCEPT ![t] = next]
      /\ ret' = [ret EXCEPT ![t] = -1]
  BY <1>1 DEF Bind, IInv, TypeOK
<1>3. /\ UNCHANGED <<table, heap, lock, pos, failed>>
      /\ off' \in [Threads -> Offsets]
  BY DEF BeginIo, BeginPositional, BeginClose, IInv, TypeOK
<1>4. h = table[k]
  OBVIOUS
<1> HIDE DEF h
<1>5. heap[h] # "live" => t \in raced' \/ h \in FreedByFailure
  <2> SUFFICES ASSUME heap[h] # "live", h \notin FreedByFailure PROVE t \in raced'
    OBVIOUS
  <2>1. PICK u \in Threads : pc[u] = "remove" /\ fh[u] = h
    BY <1>2, <1>4 DEF IInv, DescriptorsLive
  <2> QED
    BY <1>1, <1>4, <2>1 DEF Closing
<1>6. TypeOK'
  <2>1. pc' \in [Threads -> Pcs]
    BY <1>1, <1>2 DEF IInv, TypeOK, Pcs
  <2>2. /\ key' \in [Threads -> Keys \cup {0}]
        /\ fh' \in [Threads -> Handles \cup {NoHandle}]
        /\ ret' \in [Threads -> Int]
    BY <1>1, <1>2 DEF IInv, TypeOK
  <2>3. raced' \in SUBSET Threads
    BY <1>1
  <2> QED
    BY <1>3, <2>1, <2>2, <2>3 DEF IInv, TypeOK
<1>7. NoUseAfterFree'
  <2> SUFFICES ASSUME NEW u \in Threads, NEW g \in Handles,
                      Touches(u, g)', heap[g] # "live"
               PROVE  u \in raced' \/ g \in FreedByFailure
    BY <1>3 DEF NoUseAfterFree, FreedByFailure
  <2>1. CASE u = t
    BY <1>2, <1>5, <2>1 DEF IInv, TypeOK, Touches
  <2>2. CASE u # t
    <3>1. Touches(u, g)
      BY <1>2, <2>2 DEF IInv, TypeOK, Touches
    <3>2. u \in raced \/ g \in FreedByFailure
      BY <3>1 DEF IInv, NoUseAfterFree
    <3> QED
      BY <1>1, <3>2
  <2> QED
    BY <2>1, <2>2
<1>8. DescriptorsLive'
  <2> SUFFICES ASSUME NEW j \in Keys, table[j] # NoHandle, heap[table[j]] # "live",
                      table[j] \notin FreedByFailure
               PROVE  \E u \in Threads :
                          pc'[u] = "remove" /\ fh'[u] = table[j] /\ key'[u] = j
    BY <1>3 DEF DescriptorsLive, FreedByFailure
  <2>1. PICK u \in Threads : pc[u] = "remove" /\ fh[u] = table[j] /\ key[u] = j
    BY DEF IInv, DescriptorsLive
  <2> QED
    BY <1>2, <2>1 DEF IInv, TypeOK
<1>9. DescriptorsDistinct' /\ TableAllocated'
  BY <1>3 DEF IInv, DescriptorsDistinct, TableAllocated
<1>10. CallsBound'
  <2> SUFFICES ASSUME NEW u \in Threads, pc'[u] \notin {"idle", "store"}
               PROVE  /\ key'[u] \in Keys
                      /\ fh'[u] \in Handles
                      /\ heap[fh'[u]] # "unused"
                      /\ \A j \in Keys : table[j] = fh'[u] => j = key'[u]
    BY <1>3 DEF CallsBound
  <2>1. CASE u = t
    <3>1. key'[u] = k /\ fh'[u] = h
      BY <1>2, <2>1 DEF IInv, TypeOK
    <3>2. heap[h] # "unused" /\ \A j \in Keys : table[j] = h => j = k
      BY <1>2, <1>4 DEF IInv, TableAllocated, DescriptorsDistinct
    <3> QED
      BY <1>2, <3>1, <3>2
  <2>2. CASE u # t
    BY <1>2, <2>2 DEF IInv, TypeOK, CallsBound
  <2> QED
    BY <2>1, <2>2
<1>11. RaceSeen'
  <2> SUFFICES ASSUME NEW v \in Threads, NEW u \in Threads, NEW g \in Handles, v # u,
                      Closing(v, g)', InCall(u, g)'
               PROVE  u \in raced'
    BY DEF RaceSeen
  <2>1. CASE v # t /\ u # t
    <3>1. Closing(v, g) /\ InCall(u, g)
      BY <1>2, <2>1 DEF IInv, TypeOK, Closing, InCall
    <3>2. u \in raced
      BY <3>1 DEF IInv, RaceSeen
    <3> QED
      BY <1>1, <3>2
  <2>2. CASE u = t
    <3>1. g = h /\ Closing(v, g)
      BY <1>2, <2>2 DEF IInv, TypeOK, Closing, InCall
    <3> QED
      BY <1>1, <1>4, <2>2, <3>1
  <2>3. CASE v = t
    <3>1. g = h /\ next = "close" /\ InCall(u, g)
      BY <1>2, <2>3 DEF IInv, TypeOK, Closing, InCall
    <3> QED
      BY <1>1, <1>4, <3>1
  <2> QED
    BY <2>1, <2>2, <2>3
<1>12. StoresOwn'
  <2>1. \A u \in Threads : pc[u] = "store" => fh[u] # h
    BY <1>4 DEF IInv, StoresOwn
  <2>2. \A u \in Threads : pc'[u] = "store" => u # t /\ pc[u] = "store" /\ fh'[u] = fh[u]
    BY <1>2 DEF IInv, TypeOK
  <2>3. fh'[t] = h
    BY <1>2 DEF IInv, TypeOK
  <2>4. \A u \in Threads : u # t => fh'[u] = fh[u]
    BY <1>2 DEF IInv, TypeOK
  <2> QED
    BY <1>3, <2>1, <2>2, <2>3, <2>4 DEF IInv, StoresOwn
<1>13. IdleHasNone' /\ LockHolder'
  BY <1>2, <1>3 DEF IInv, TypeOK, IdleHasNone, LockHolder
<1> QED
  BY <1>6, <1>7, <1>8, <1>9, <1>10, <1>11, <1>12, <1>13 DEF IInv

\* Input and output: only the cursor, the lock and the thread's locals move.
LEMMA IoKeepsIInv ==
    ASSUME IInv, NEW t \in Threads,
           \/ Transfer(t) \/ Lseek(t) \/ PositionalLock(t) \/ PositionalSeek(t)
           \/ PositionalSeekFails(t) \/ PositionalTransfer(t)
    PROVE  IInv'
<1> USE HandlesOK, KeysOK, ThreadsOK, OffsetsOK
<1>0. /\ pc[t] \in {"io", "lock", "seek", "transfer"}
      /\ fh[t] \in Handles
      /\ heap[fh[t]] = "live"
  BY DEF IInv, CallsBound, Transfer, Lseek, PositionalLock, PositionalSeek,
     PositionalSeekFails, PositionalTransfer
<1>1. UNCHANGED <<table, heap, failed>>
  BY DEF Transfer, Lseek, PositionalLock, PositionalSeek, PositionalSeekFails,
     PositionalTransfer
<1>2. \/ Return(t)
      \/ /\ pc' = [pc EXCEPT ![t] = "seek"]
         /\ UNCHANGED <<key, fh, off, raced>>
      \/ /\ pc' = [pc EXCEPT ![t] = "transfer"]
         /\ UNCHANGED <<key, fh, off, raced>>
  BY DEF Transfer, Lseek, PositionalLock, PositionalSeek, PositionalSeekFails,
     PositionalTransfer
<1>3. /\ pos' \in [Handles -> Offsets]
      /\ lock' \in [Handles -> Threads \cup {NoThread}]
      /\ ret' \in [Threads -> Int]
  <2>1. ASSUME NEW o \in Offsets
        PROVE  AsInt(o) \in Int
    BY LimitsOK DEF AsInt
  <2> QED
    BY <1>0, <2>1 DEF IInv, TypeOK, Transfer, Lseek, PositionalLock, PositionalSeek,
       PositionalSeekFails, PositionalTransfer
<1>4. TypeOK'
  BY <1>1, <1>2, <1>3 DEF IInv, TypeOK, Return, Pcs
<1>a. \A u \in Threads : u # t =>
          /\ pc'[u] = pc[u] /\ key'[u] = key[u] /\ fh'[u] = fh[u]
          /\ (u \in raced => u \in raced')
  BY <1>2 DEF IInv, TypeOK, Return
<1>b. \/ pc'[t] = "idle" /\ fh'[t] = NoHandle
      \/ /\ pc'[t] \in {"seek", "transfer"} /\ fh'[t] = fh[t] /\ key'[t] = key[t]
         /\ raced' = raced
  BY <1>2 DEF IInv, TypeOK, Return
<1>5. NoUseAfterFree' /\ DescriptorsLive'
  <2>1. NoUseAfterFree'
    BY <1>0, <1>1, <1>a, <1>b DEF IInv, NoUseAfterFree, Touches, FreedByFailure
  <2>2. DescriptorsLive'
    <3>1. FreedByFailure' = FreedByFailure
      BY <1>1 DEF FreedByFailure
    <3>2. SUFFICES ASSUME NEW k \in Keys, table[k] # NoHandle, heap[table[k]] # "live",
                          table[k] \notin FreedByFailure
                   PROVE  \E u \in Threads : pc'[u] = "remove" /\ fh'[u] = table[k] /\ key'[u] = k
      BY <1>1, <3>1 DEF DescriptorsLive
    <3>3. PICK u \in Threads : pc[u] = "remove" /\ fh[u] = table[k] /\ key[u] = k
      BY <3>2 DEF IInv, DescriptorsLive
    <3>4. u # t
      BY <1>0, <3>3
    <3> QED
      BY <1>a, <3>3, <3>4
  <2> QED
    BY <2>1, <2>2
<1>c. DescriptorsDistinct' /\ TableAllocated'
  BY <1>1 DEF IInv, DescriptorsDistinct, TableAllocated
<1>d. CallsBound'
  BY <1>0, <1>1, <1>a, <1>b DEF IInv, CallsBound
<1>e. RaceSeen'
  BY <1>0, <1>a, <1>b DEF IInv, RaceSeen, Closing, InCall
<1>f. StoresOwn' /\ IdleHasNone'
  BY <1>0, <1>1, <1>a, <1>b DEF IInv, StoresOwn, IdleHasNone
<1>7. LockHolder'
  <2>1. CASE Transfer(t) \/ Lseek(t)
    BY <2>1 DEF IInv, TypeOK, Transfer, Lseek, Return, LockHolder
  <2>2. CASE PositionalLock(t)
    BY <1>0, <2>2 DEF IInv, TypeOK, PositionalLock, LockHolder, CallsBound
  <2>3. CASE PositionalSeek(t)
    BY <2>3 DEF IInv, TypeOK, PositionalSeek, LockHolder
  <2>4. CASE PositionalSeekFails(t) \/ PositionalTransfer(t)
    <3>1. lock' = [lock EXCEPT ![fh[t]] = NoThread] /\ Return(t) /\ lock[fh[t]] = t
      BY <2>4 DEF IInv, PositionalSeekFails, PositionalTransfer, LockHolder
    <3>2. \A u \in Threads : pc'[u] \in {"seek", "transfer"} =>
              u # t /\ pc[u] = pc'[u] /\ fh'[u] = fh[u] /\ fh[u] \in Handles
      BY <3>1 DEF IInv, TypeOK, Return, CallsBound
    <3>3. \A u \in Threads : pc'[u] \in {"seek", "transfer"} => lock'[fh'[u]] = u
      BY <1>0, <3>1, <3>2 DEF IInv, TypeOK, LockHolder
    <3>4. \A h \in Handles, u \in Threads :
              lock'[h] = u => pc'[u] \in {"seek", "transfer"} /\ fh'[u] = h
      BY <1>0, <3>1 DEF IInv, TypeOK, LockHolder, Return
    <3> QED
      BY <3>3, <3>4 DEF LockHolder
  <2> QED
    BY <2>1, <2>2, <2>3, <2>4
<1> QED
  BY <1>4, <1>5, <1>7, <1>c, <1>d, <1>e, <1>f DEF IInv

\* Closing: the handle is freed while its descriptor is still in the table.
LEMMA CloseKeepsIInv ==
    ASSUME IInv, NEW t \in Threads,
           PluginCloses(t) \/ PluginCloseFails(t) \/ RemoveDesc(t)
    PROVE  IInv'
<1> USE HandlesOK, KeysOK, ThreadsOK, OffsetsOK
<1>0. /\ pc[t] \in {"close", "remove"}
      /\ key[t] \in Keys /\ fh[t] \in Handles
      /\ \A k \in Keys : table[k] = fh[t] => k = key[t]
      /\ \A u \in Threads : u # t /\ InCall(u, fh[t]) => u \in raced
  <2>1. pc[t] \in {"close", "remove"}
    BY DEF PluginCloses, PluginCloseFails, RemoveDesc
  <2>2. \A u \in Threads : u # t /\ InCall(u, fh[t]) => u \in raced
    BY <2>1 DEF IInv, RaceSeen, Closing, CallsBound
  <2> QED
    BY <2>1, <2>2 DEF IInv, CallsBound
<1>a. \A u \in Threads : pc[u] = "store" => fh[u] # fh[t] /\ u # t
  BY <1>0 DEF IInv, StoresOwn
<1>1. CASE PluginCloses(t)
  <2>0. /\ heap' = [heap EXCEPT ![fh[t]] = "freed"]
        /\ pc[t] = "close" /\ pc' = [pc EXCEPT ![t] = "remove"]
        /\ UNCHANGED <<table, lock, pos, key, fh, off, ret, failed, raced>>
    BY <1>1 DEF PluginCloses
  <2>1. TypeOK'
    BY <2>0 DEF IInv, TypeOK, Pcs
  <2>2. NoUseAfterFree'
    BY <1>0, <1>a, <2>0 DEF IInv, TypeOK, NoUseAfterFree, Touches, FreedByFailure, InCall
  <2>3. DescriptorsLive'
    <3> SUFFICES ASSUME NEW k \in Keys, table[k] # NoHandle, heap'[table[k]] # "live",
                        table[k] \notin FreedByFailure
                 PROVE  \E u \in Threads :
                            pc'[u] = "remove" /\ fh[u] = table[k] /\ key[u] = k
      BY <2>0 DEF DescriptorsLive, FreedByFailure
    <3>1. CASE table[k] = fh[t]
      BY <1>0, <2>0, <3>1 DEF IInv, TypeOK
    <3>2. CASE table[k] # fh[t]
      <4>1. heap[table[k]] # "live"
        BY <1>0, <2>0, <3>2 DEF IInv, TypeOK
      <4>2. PICK u \in Threads : pc[u] = "remove" /\ fh[u] = table[k] /\ key[u] = k
        BY <4>1 DEF IInv, DescriptorsLive
      <4> QED
        BY <2>0, <4>2 DEF IInv, TypeOK
    <3> QED
      BY <3>1, <3>2
  <2>4. DescriptorsDistinct' /\ TableAllocated'
    BY <1>0, <2>0 DEF IInv, TypeOK, DescriptorsDistinct, TableAllocated
  <2>5. CallsBound'
    BY <1>0, <2>0 DEF IInv, TypeOK, CallsBound
  <2>6. RaceSeen'
    BY <2>0 DEF IInv, TypeOK, RaceSeen, Closing, InCall
  <2>7. StoresOwn'
    BY <1>0, <1>a, <2>0 DEF IInv, TypeOK, StoresOwn
  <2>8. IdleHasNone' /\ LockHolder'
    BY <2>0 DEF IInv, TypeOK, IdleHasNone, LockHolder
  <2> QED
    BY <2>1, <2>2, <2>3, <2>4, <2>5, <2>6, <2>7, <2>8 DEF IInv
<1>2. CASE PluginCloseFails(t)
  <2>0. /\ pc[t] = "close"
        /\ \/ heap' = heap
           \/ fh[t] \in Freeing /\ heap' = [heap EXCEPT ![fh[t]] = "freed"]
        /\ failed' = failed \cup {fh[t]}
        /\ Return(t)
        /\ UNCHANGED <<table, lock, pos, ret>>
    BY <1>2 DEF PluginCloseFails
  <2>a. \A u \in Threads : u # t =>
            /\ pc'[u] = pc[u] /\ key'[u] = key[u] /\ fh'[u] = fh[u]
            /\ (u \in raced => u \in raced')
    BY <2>0 DEF IInv, TypeOK, Return
  <2>b. pc'[t] = "idle" /\ fh'[t] = NoHandle
    BY <2>0 DEF IInv, TypeOK, Return
  <2>c. \A h \in Handles : heap'[h] # heap[h] => h = fh[t] /\ h \in FreedByFailure'
    BY <2>0 DEF IInv, TypeOK, FreedByFailure
  <2>d. FreedByFailure \subseteq FreedByFailure'
    BY <2>0 DEF FreedByFailure
  <2>1. TypeOK'
    <3>1. heap' \in [Handles -> {"unused", "live", "freed"}]
      BY <1>0, <2>0 DEF IInv, TypeOK
    <3> QED
      BY <1>0, <2>0, <3>1 DEF IInv, TypeOK, Return, Pcs
  <2>2. NoUseAfterFree'
    BY <2>a, <2>b, <2>c, <2>d DEF IInv, NoUseAfterFree, Touches
  <2>3. DescriptorsLive'
    <3> SUFFICES ASSUME NEW k \in Keys, table[k] # NoHandle, heap'[table[k]] # "live",
                        table[k] \notin FreedByFailure'
                 PROVE  \E u \in Threads :
                            pc'[u] = "remove" /\ fh'[u] = table[k] /\ key'[u] = k
      BY <2>0 DEF DescriptorsLive
    <3>1. heap[table[k]] # "live" /\ table[k] \notin FreedByFailure
      BY <2>c, <2>d DEF IInv, TypeOK
    <3>2. PICK u \in Threads : pc[u] = "remove" /\ fh[u] = table[k] /\ key[u] = k
      BY <3>1 DEF IInv, DescriptorsLive
    <3> QED
      BY <2>0, <2>a, <3>2
  <2>4. DescriptorsDistinct'
    BY <2>0 DEF IInv, DescriptorsDistinct
  <2>5. TableAllocated'
    BY <1>0, <2>0 DEF IInv, TypeOK, TableAllocated
  <2>6. CallsBound'
    <3>1. \A h \in Handles : heap[h] # "unused" => heap'[h] # "unused"
      BY <1>0, <2>0 DEF IInv, TypeOK
    <3>2. SUFFICES ASSUME NEW u \in Threads, pc'[u] \notin {"idle", "store"}
                   PROVE  /\ key'[u] \in Keys
                          /\ fh'[u] \in Handles
                          /\ heap'[fh'[u]] # "unused"
                          /\ \A j \in Keys : table[j] = fh'[u] => j = key'[u]
      BY <2>0 DEF CallsBound
    <3>3. pc[u] \notin {"idle", "store"} /\ key'[u] = key[u] /\ fh'[u] = fh[u]
      BY <2>a, <2>b, <3>2
    <3> QED
      BY <3>1, <3>3 DEF IInv, CallsBound
  <2>7. RaceSeen'
    BY <2>a, <2>b DEF IInv, RaceSeen, Closing, InCall
  <2>8. StoresOwn'
    <3>1. \A u \in Threads : pc'[u] = "store" =>
              /\ u # t /\ pc[u] = "store" /\ fh'[u] = fh[u] /\ fh[u] \in Handles
              /\ heap'[fh[u]] = "live"
      BY <1>a, <2>a, <2>b, <2>c DEF IInv, StoresOwn
    <3> QED
      BY <2>0, <2>a, <2>b, <3>1 DEF IInv, StoresOwn
  <2>9. IdleHasNone' /\ LockHolder'
    BY <2>0 DEF IInv, TypeOK, Return, IdleHasNone, LockHolder
  <2> QED
    BY <2>1, <2>2, <2>3, <2>4, <2>5, <2>6, <2>7, <2>8, <2>9 DEF IInv
<1>3. CASE RemoveDesc(t)
  <2>0. /\ pc[t] = "remove"
        /\ table' = [table EXCEPT ![key[t]] = NoHandle]
        /\ Return(t)
        /\ UNCHANGED <<heap, lock, pos, ret, failed>>
    BY <1>3 DEF RemoveDesc
  <2>1. TypeOK'
    BY <1>0, <2>0 DEF IInv, TypeOK, Return, Pcs
  <2>2. NoUseAfterFree'
    BY <2>0 DEF IInv, TypeOK, NoUseAfterFree, Touches, FreedByFailure, Return
  <2>3. DescriptorsLive'
    <3> SUFFICES ASSUME NEW k \in Keys, table'[k] # NoHandle, heap[table'[k]] # "live",
                        table'[k] \notin FreedByFailure
                 PROVE  \E u \in Threads :
                            pc'[u] = "remove" /\ fh'[u] = table'[k] /\ key'[u] = k
      BY <2>0 DEF DescriptorsLive, FreedByFailure
    <3>1. k # key[t] /\ table'[k] = table[k]
      BY <1>0, <2>0 DEF IInv, TypeOK
    <3>2. PICK u \in Threads : pc[u] = "remove" /\ fh[u] = table[k] /\ key[u] = k
      BY <3>1 DEF IInv, DescriptorsLive
    <3> QED
      BY <2>0, <3>1, <3>2 DEF IInv, TypeOK, Return
  <2>4. DescriptorsDistinct' /\ TableAllocated'
    BY <1>0, <2>0 DEF IInv, TypeOK, DescriptorsDistinct, TableAllocated
  <2>5. CallsBound'
    <3> SUFFICES ASSUME NEW u \in Threads, pc'[u] \notin {"idle", "store"}
                 PROVE  /\ key'[u] \in Keys
                        /\ fh'[u] \in Handles
                        /\ heap[fh'[u]] # "unused"
                        /\ \A j \in Keys : table'[j] = fh'[u] => j = key'[u]
      BY <2>0 DEF CallsBound
    <3>1. pc'[u] = pc[u] /\ key'[u] = key[u] /\ fh'[u] = fh[u]
      BY <2>0 DEF IInv, TypeOK, Return
    <3>2. \A j \in Keys : table'[j] = table[j] \/ table'[j] = NoHandle
      BY <1>0, <2>0 DEF IInv, TypeOK
    <3> QED
      BY <3>1, <3>2 DEF IInv, CallsBound
  <2>6. RaceSeen'
    BY <2>0 DEF IInv, TypeOK, RaceSeen, Closing, InCall, Return
  <2>7. StoresOwn'
    BY <1>0, <1>a, <2>0 DEF IInv, TypeOK, Return, StoresOwn
  <2>8. IdleHasNone' /\ LockHolder'
    BY <2>0 DEF IInv, TypeOK, Return, IdleHasNone, LockHolder
  <2> QED
    BY <2>1, <2>2, <2>3, <2>4, <2>5, <2>6, <2>7, <2>8 DEF IInv
<1> QED
  BY <1>1, <1>2, <1>3

LEMMA StutterKeepsIInv == IInv /\ UNCHANGED vars => IInv'
<1> SUFFICES ASSUME IInv, UNCHANGED vars PROVE IInv'
  OBVIOUS
<1> USE DEF vars
<1>1. TypeOK' /\ DescriptorsDistinct' /\ TableAllocated' /\ IdleHasNone' /\ LockHolder'
  BY DEF IInv, TypeOK, DescriptorsDistinct, TableAllocated, IdleHasNone, LockHolder
<1>2. NoUseAfterFree' /\ DescriptorsLive'
  BY DEF IInv, NoUseAfterFree, Touches, DescriptorsLive, FreedByFailure
<1>3. CallsBound' /\ RaceSeen' /\ StoresOwn'
  BY DEF IInv, CallsBound, RaceSeen, Closing, InCall, StoresOwn
<1> QED
  BY <1>1, <1>2, <1>3 DEF IInv

LEMMA StepKeepsIInv == IInv /\ [Next]_vars => IInv'
BY OpenKeepsIInv, BeginKeepsIInv, IoKeepsIInv, CloseKeepsIInv, StutterKeepsIInv
   DEF Next, Step

\* The table, the heap of handles, the locks and the threads' positions stay
\* consistent, whatever calls the threads make.
THEOREM InvariantHolds == Spec => []IInv
BY InitIInv, StepKeepsIInv, PTL DEF Spec

\* gfal2_read, pread, lseek, readdir or close works on a freed handle only
\* if a gfal2_close of the handle overlaps it, or one has failed that freed
\* the handle and left its descriptor in the table.
THEOREM NeverUsesFreedHandle == Spec => []NoUseAfterFree
<1>1. IInv => NoUseAfterFree
  BY DEF IInv
<1> QED
  BY <1>1, InvariantHolds, PTL

\* gfal2_close leaves no descriptor of a freed handle behind, but between
\* its two steps and when the plugin freed the handle and reported failure.
THEOREM TableNamesLiveHandles == Spec => []DescriptorsLive
<1>1. IInv => DescriptorsLive
  BY DEF IInv
<1> QED
  BY <1>1, InvariantHolds, PTL

\* The invariant of the emulated positional calls.
PositionalInv == IInv /\ IoApart /\ PreadAtOffset

LEMMA PositionalStep ==
    ASSUME ~MixedIO
    PROVE  PositionalInv /\ [Next]_vars => PositionalInv'
<1> SUFFICES ASSUME PositionalInv, [Next]_vars PROVE PositionalInv'
  OBVIOUS
<1> USE HandlesOK, KeysOK, ThreadsOK, OffsetsOK DEF PositionalInv
<1>1. IInv'
  BY StepKeepsIInv
<1>2. CASE UNCHANGED vars
  BY <1>1, <1>2 DEF vars, IoApart, PreadAtOffset
<1>3. ASSUME NEW t \in Threads, Step(t)
      PROVE  IoApart' /\ PreadAtOffset'
  <2>1. CASE PluginOpen(t) \/ StoreHandle(t) \/ StoreRefused(t)
    BY <2>1 DEF IInv, TypeOK, PluginOpen, StoreHandle, StoreRefused, Return, IoApart,
       Positional, PreadAtOffset
  <2>2. CASE BeginIo(t)
    <3>1. IoApart'
      BY <2>2 DEF IInv, TypeOK, BeginIo, Bind, IoApart, Positional, InCall
    <3>2. PreadAtOffset'
      BY <2>2 DEF IInv, TypeOK, BeginIo, Bind, PreadAtOffset
    <3> QED
      BY <3>1, <3>2
  <2>3. CASE BeginPositional(t)
    <3>1. IoApart'
      BY <2>3 DEF IInv, TypeOK, BeginPositional, Bind, IoApart, Positional,
         InCall
    <3>2. PreadAtOffset'
      BY <2>3 DEF IInv, TypeOK, BeginPositional, Bind, PreadAtOffset
    <3> QED
      BY <3>1, <3>2
  <2>4. CASE BeginClose(t)
    BY <2>4 DEF IInv, TypeOK, BeginClose, Bind, IoApart, Positional, PreadAtOffset
  <2>5. CASE Transfer(t) \/ Lseek(t)
    <3>1. IoApart'
      BY <2>5 DEF IInv, TypeOK, Transfer, Lseek, Return, IoApart, Positional
    <3>2. \A u \in Threads : pc[u] = "transfer" => fh[u] # fh[t]
      BY <2>5 DEF Transfer, Lseek, IoApart, Positional
    <3>3. PreadAtOffset'
      BY <2>5, <3>2 DEF IInv, TypeOK, Transfer, Lseek, Return, PreadAtOffset,
         CallsBound
    <3> QED
      BY <3>1, <3>3
  <2>6. CASE PositionalLock(t) \/ PositionalSeekFails(t)
    BY <2>6 DEF IInv, TypeOK, PositionalLock, PositionalSeekFails, Return, IoApart,
       Positional, PreadAtOffset
  <2>7. CASE PositionalSeek(t) \/ PositionalTransfer(t)
    <3>1. IoApart'
      BY <2>7 DEF IInv, TypeOK, PositionalSeek, PositionalTransfer, Return, IoApart,
         Positional
    <3>2. \A u \in Threads : u # t /\ pc[u] = "transfer" => fh[u] # fh[t]
      BY <2>7 DEF IInv, PositionalSeek, PositionalTransfer, LockHolder
    <3>3. PreadAtOffset'
      BY <2>7, <3>2 DEF IInv, TypeOK, PositionalSeek, PositionalTransfer, Return,
         PreadAtOffset, CallsBound
    <3> QED
      BY <3>1, <3>3
  <2>8. CASE PluginCloses(t) \/ PluginCloseFails(t) \/ RemoveDesc(t)
    BY <2>8 DEF IInv, TypeOK, PluginCloses, PluginCloseFails, RemoveDesc, Return,
       IoApart, Positional, PreadAtOffset
  <2> QED
    BY <1>3, <2>1, <2>2, <2>3, <2>4, <2>5, <2>6, <2>7, <2>8 DEF Step
<1> QED
  BY <1>1, <1>2, <1>3 DEF Next

\* gfal_plugin_simulate_preadG and simulate_pwriteG transfer at the offset
\* they were asked for, however many threads use the same descriptor.
THEOREM PreadIsPositional ==
    ASSUME ~MixedIO
    PROVE  Spec => []PreadAtOffset
<1>1. Init => PositionalInv
  BY InitIInv DEF PositionalInv, Init, IoApart, Positional, PreadAtOffset
<1>2. PositionalInv => PreadAtOffset
  BY DEF PositionalInv
<1> QED
  BY <1>1, <1>2, PositionalStep, PTL DEF Spec
=============================================================================
