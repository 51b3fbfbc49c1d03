# A TLA+ verification of gfal2

gfal2 is a C library that gives one file API (open, read, stat, copy, stage
from tape ...) over many storage protocols. The core (`src/core`) keeps a
*context* (`gfal2_context_t`), finds the plugin that serves a URL and forwards
the call; the plugins (`src/plugins`) talk to GridFTP, SRM, HTTP, XRootD, SFTP,
dcap, rfio, LFC and local files through third-party client libraries. Several
application threads may share one context, any of them may cancel it, and the
client libraries call back in threads of their own.

This directory holds TLA+ models of the parts in which order, concurrency and
failure decide whether the library is right, the TLC runs that check them on
small instances, and TLAPS proofs of the most important invariants for every
instance. `PROJECT.json` maps every definition to the lines it models. Paths
below are relative to the root of the repository.

Contents: [1 Inventory](#1-inventory), [2 Modules and code](#2-modules-and-code),
[3 Runs](#3-runs), [4 Proofs](#4-proofs), [5 What the code does otherwise](#5-findings),
[6 Observations](#6-observations), [7 Limits](#7-what-is-not-modelled),
[8 Plan](#8-plan).

## 1 Inventory

For each part: the state it keeps, its operations, with whom it interacts, what
is hard about it, and what makes it correct.

**Cancellation** (`src/core/common/gfal_cancel.c`). State: `running_ops`,
`cancel`, `mux_cancel` and the hook list of a context. Operations:
`gfal2_start_scope_cancel`, `gfal2_end_scope_cancel`, `gfal2_is_canceled`,
`gfal2_register_cancel_callback`, `gfal2_remove_cancel_callback`,
`gfal2_cancel`. Every API call opens a scope; GridFTP and HTTP register hooks.
Hard: every field is read and written by several threads in separate steps.
Correct: the count is exact, `gfal2_cancel` blocks until the operations it
found have ended and then returns, a hook is never called after its owner went.

**Descriptor table** (`gfal_file_handler_container.c`, `gfal_file_handle.c`,
the descriptor calls of `src/core/file` and `gfal_plugin.c`). State: the table
from descriptors to handles, the lock and the cursor of a handle. Hard: a handle
is looked up under the lock and used without it; pread and pwrite are emulated
with a seek on a cursor that all threads share; a close may fail half-way.
Correct: no call that overlaps no close works on a freed handle, emulated positional
I/O happens at its offset, locks are given back.

**Streamed copy** (`src/core/transfer/gfal_transfer_localcopy.c`). State: two
descriptors, the checksum mode, start time. Interacts with cancellation, with
the file API and with whatever else works on the destination. Hard: failures at
each step, short writes, timeout and cancellation looked at once per chunk.
Correct: success means an exact copy, an existing file is kept without
`replace`, handles are closed, the copy stops when told and ends.

**GridFTP request** (`gridftpwrapper.cpp`, `gridftp_filecopy.cpp`). State:
`GridFTPRequestState` on the stack of the calling thread, a `CallbackHandler`
with its timer thread, a cancel hook. Four threads work on it: the caller, the
Globus callback thread, the marker timer and a thread in `gfal2_cancel`. Hard:
lifetime of the request against late callbacks, three writers of `error`.
Correct: nobody of the library touches the request after it is gone, success was
reported by Globus, a transfer that progresses is not killed, the copy ends.

**GridFTP session cache** (`GridFTPFactory`, `GridFTPSessionHandler` in
`gridftpwrapper.cpp`). State: a map from base URLs to idle sessions, its mutex.
Hard: reuse of sessions with settings and credentials of an earlier use, the
cache at its limit. Correct: one user per session, no use after deletion, the
login uses the credential of the URL.

**Copies by plugins** (`GridFTPModule::filecopy`, `gfal_http_copy`,
`srm_plugin_filecopy`). State: parameters, checksums, what is at the destination;
for HTTP the mode of the next attempt; for SRM a GET request that pins the source
and a PUT request that reserves the destination. Hard: clean-up after a failure at
any stage, attempts that follow one another, another process at the destination, a
cancel during the rollback. Correct: no partial file stays, a verified copy is
exact, an existing file is kept, requests that can be closed are.

**Credential map** (`gfal_cred_mapping.c`). State: a sorted list per context.
Operations: set, get, delete, clean, copy. Correct: it behaves as a map and the
look-up takes the longest directory of the URL.

**Bulk copy** (`gfalt_copy_bulk` in `gfal_transfer_filecopy.c`,
`gridftp_bulk.cpp`, `gfal_xrootd_plugin_3rd_copy.cpp`). State: per-pair errors,
the pipeline's index and its condition variable. Hard: a pair may fail at any of
four stages and later ones must skip it; the pipeline runs in Globus' thread on
data of the caller's stack; a refused UDT transfer is tried again. Correct:
the result agrees with the per-pair errors, pairs are transferred once, an
existing destination is kept, a pair reported as verified is exact.

**Staging** (`gfal_srm_bringonline.c`, `gfal_srm_archive.c`,
`gfal_http_plugin_tape.cpp`, `gfal_xrootd_plugin_bringonline.cpp`,
`gfal_xrootd_plugin_archive.cpp`). State: the token of a request, with the
application; the state of each file, at the server. Operations: bring-online, poll,
release, abort, archive poll, for one file or a list. Hard: a result per file from
a reply with its own order, files that are there, failed and pending in one list.
Correct: what is reported as there is there, nothing pending is dropped silently,
polling ends.

**Plugin registry, dispatch and POSIX layer** (`gfal_plugin.c`, `gfal_common.c`,
`gfal2_standard_file_operations.c`, `gfal2_directory_operations.c`,
`gfal_posix_ng.c`). State: the array of loaded plugins, its count and the sorted
list; per thread a context and the last error. Operations: load, sort, register,
delete; for each API call, find the plugin that accepts the URL and mode and
forward. Hard: loading fails half way and is tried again by the next call, two
threads load through one static function pointer, an error stored earlier meets a
new one. Correct: a context holds the plugins of the directory, the first in
priority order that accepts gets the call, plugins are deleted, a failure comes with
its code.

**Recursive mkdir** (`gfal2_mkdir_rec`). Walks up to an existing ancestor and down
again, one request per directory, against whoever works on the same tree. Correct:
unless a request is lost, the directory is there in the end, whoever made it, or a
file is in the way.

**SRM sessions, names and files** (`src/plugins/srm`). State: one SRM context per
plugin handle under a recursive mutex, shared by all threads and all endpoints; a
cache of metadata that counts its entries; open listings and files. Hard: a context
rebuilt for another endpoint or credential while a listing refers to it, early
returns with the mutex held, the cache against changes by this and by other clients,
directories that come in pieces. Correct: a request goes out on the context of its
call, the mutex is given back, the cache never answers with what this process has
changed, every entry is listed once, a file that was written is declared done.

**HTTP tokens, names and cloud keys** (`gfal_http_plugin*.cpp`). State: a map from
tokens to their right to write, tokens as credentials of directories, options of several groups.
Hard: tokens retrieved for one purpose and directory are found by the next call.
Correct: a call sends a token that fits it, two keys come from one group.

**SFTP sessions** (`src/plugins/sftp`). State: a cache of sessions by host and port,
sessions of open files. Correct: a session that was set up is in one place, and none
of them is lost.

**GridFTP files** (`gridftp_io.cpp`). State: a descriptor with an offset, the GET or
PUT begun when it was opened, its stream. Hard: calls use that transfer or partial
ones beside it; a seek aborts it; a buffer may be filled in pieces. Correct: what a
POSIX file promises.

**Not of interest**: configuration accessors, logging, error formatting,
checksum kernels, URI parsing, the mock plugin (a test
double), the LFC plugin (a retired service).

How the parts interact: an API call opens a *scope* (cancellation), is
*dispatched* to a plugin, takes a *handle* from the descriptor table if it has a
descriptor, and the plugin takes a *session* (with a credential from the
*credential map*), runs a *request* on it (with a cancel hook) and waits for the
library's callback. A *copy* is a sequence of such requests; a *bulk copy* is a
loop, or a pipeline, of copies.

## 2 Modules and code

Each module names its source file in its header, keeps the names of the
source, and has one action per step at which another thread, process or failure
can come in. A mutex-protected section that touches only what the mutex
protects is one action. The external libraries (Globus, XrdCl, the storage
servers) are nondeterministic: any request may fail, a transfer may write all,
part or garbage, a callback may come at any time or never.

| module | models | state | actions |
|---|---|---|---|
| `GfalCancel` | `gfal_cancel.c` | `running_ops`, `cancel`, `mux`, `hooks`, where each worker and canceller is | `StartScope`/`RefuseScope`/`EnterScope` (the test of the flag and the increment are two steps), `EndScope`, `PollCanceled`, `RegisterHook`, `RemoveHook`; `CancelEnter` ... `CancelReturn` are the lines of `gfal2_cancel` |
| `FdTable` | handle container, file handles, descriptor calls | `table`, `heap` (handles), `lock`, `pos`; history: `failed` (closes), `raced` (calls that overlap a close) | `PluginOpen` and `StoreHandle`/`StoreRefused`; `BeginIo`, `BeginPositional`, `BeginClose`; `Transfer`, `Lseek`, `PositionalLock/Seek/SeekFails/Transfer`, `PluginCloses`, `PluginCloseFails`, `RemoveDesc` |
| `LocalCopy` | `perform_local_copy`, `streamed_copy` | parameters, the destination as a sequence of chunks, open handles, the clock | `SourceChecksum`, `StatParent`, `MakeParent`, `StatDestination`, `UnlinkDestination`, `OpenSource`, `OpenDestination`, `CopyChunk`, `CheckRound`, `CloseFiles`, `TargetChecksum`; environment: `CancelCopy`, `Tick`, `Meddle` |
| `GridFtpRequest` | `GridFTPRequestState`, `CallbackHandler`, `gridftp_do_copy` | the request, the timer, the hook, the callbacks Globus owes (`outstanding`, `cancels`) | caller: `StartTransfer`, `RegisterHook`, `CheckDone`, `Wake`, `WaitTimesOut`, `RemoveHook`, `ExpireAbort`, `ExpireAssign`, `WaitAgain`, `ReadError`, `JoinTimer`, `Destroy`; Globus: `DoneCallback`, `CancelCallback`, `AllSent`, `Marker`; timer: `TimerTick/Fires/Abort/Assign`; cancel: `CancelRaise/Abort/Assign/Return` |
| `GridFtpSessions` | `GridFTPFactory`, `GridFTPSessionHandler` | cache, heap of sessions, base URL and credentials of each, `mux_cache`, credential map | `TakeRecycled`, `MakeSession`, `Authorise`, `Login`, `LoginFails`, `Finish`, `DeleteSession`, `Recycle`, `RecycleFull`, `DestroyFactory`; application: `Begin`, `SetCredential`, `SetReuse` |
| `CopyState` | what the copies of three plugins share | parameters, destination, error, checksum | helpers; environment: `Meddle` |
| `GridFtpCopy` | `GridFTPModule::filecopy` | that of `CopyState` | `SourceChecksum`, `CheckExisting`, `DeleteExisting`, `CreateParent`, `Transfer`, `CleanUp`, `TargetChecksum` |
| `HttpCopy` | `gfal_http_copy` | the mode of the next attempt, the fallback option of the context | `HttpSourceChecksum`, `HttpExists`, `HttpDeleteExisting`, `HttpMakeParent`, `ConstructCopyMode`, `Attempt`, `HttpCleanUp` (with the choice of the next mode), `HttpTargetChecksum`, `Evict` |
| `SrmCopy` | `srm_plugin_filecopy`, the GET and PUT requests of a copy | the two requests (held, closed, `lost` or `refused`), `transfer_finished`, the cancel flag | `SrmSourceChecksum`, `SrmGet`, `SrmDeleteExisting`, `SrmMakeParent`, `SrmPut`, `SrmTransfer`, `SrmPutDone`, `SrmTargetChecksum`, `SrmFinalize`, `SrmRelease`; environment: `Cancel` |
| `PluginCopy` | one copy by one of the three plugins; composes the four above and states what they promise | | `GridFtp`, `Http`, `Srm`, `Others` |
| `CredMapping` | `gfal_cred_mapping.c` | the list of each context | `CredSet`, `CredDel`, `CredClean`, `CredCopy`; `CredGet` is an operator |
| `CredMap` | what `CredMapping` promises | a function from prefix and type to a value | `Put`, `Delete`, `Clean`, `CopyFrom` |
| `BulkState` | arguments and results of `gfalt_copy_bulk` | `ferr`, `op_error`, `nfailed`, `dst`, `cancel` | helpers only |
| `GridFtpBulk` | `gridftp_bulk.cpp` | the `GridFTPBulkData` | `Setup`, `CheckSource`, `PrepareDestination`, `StartTransfer`, `WaitDone`, `WaitTimesOut`, `ReadResult`, `RetryOrReturn`, `CheckDestination`, `Close`; Globus: `PipelineCallback`, `TransferPair`, `PipelineEnds`, `DoneCallback` |
| `XrootdBulk` | `gfal_xrootd_3rd_copy_bulk` | the jobs' results | `AddJobs`, `PrepareJobs`, `RunJob`, `CollectResult`, `EvictAndReturn` |
| `BulkCopy` | `gfalt_copy_bulk`, `bulk_fallback`; composes the three above | parameters that change during the call | `Enter`, `FallbackPair`, `FallbackReturn`, `Cancel` |
| `Staging` | bring-online, poll, release, abort and archive poll of SRM, HTTP and XRootD | the call, the files at the server, result and error per URL of the last call | `RefuseCall`, `NotDispatched`, `BringFails`, `BringTokenLost`, `BringAccepted` (HTTP, XRootD), `BringReported` (SRM), `PollFails`, `PollStage`, `PollArchive`, `LetGoFails`, `Release`, `Abort`, `Crash`; application: `Decide`, `Cancel`; server: `Progress` |
| `Plugins` | the registry of `gfal_plugin.c`, contexts of `gfal_common.c` | `plugins`, `number`, `sorted`, what is left to load, the static `constructor` | `StartLoad`, `SkipBroken`, `LookUpSymbol`, `Construct`, `FinishLoad`; `Register`, `DeletePlugins`, `FreeContext`; `FindPlugin` and `MapFileHandle` are operators |
| `UrlCalls` | the calls of `gfal_plugin.c` and of the file API on URLs and handles | none | each call as the set of its outcomes (value, error) |
| `PosixThreads` | `gfal_posix_ng.c`; composes the two above | per thread a stored error, an open handle, what the last call told | `GetHandle`, `NoContext`, `NameCall`, `OpenCall`, `FileCall`, `PositionCall`, `DirCall`, `LinkCall`, `AttrCall`, `RemovexattrCall`, `DirectCall`, `ClearError`, `RegisterPlugin`, `EndThread` |
| `NsState` | a storage server and its other clients (external) | the tree | `Meddle` |
| `MkdirRec` | `gfal2_mkdir_rec` | where the walk is | `Begin`, `TryTarget`, `WalkUp`, `WalkDown` |
| `SrmSession` | the SRM context, its mutex, the choice of an endpoint | `lock`, `ctx`, `mark` (the credential), per thread the sections of its call | `GetContext`, `EndpointFails`; `Release` and `Leak` end a section |
| `SrmNames` | the SRM name space calls, `gsimplecache` | `cache`, `listing` | one per request: `LsStat`, `LsStatus`, `LsSum`, `LsRmdir`, `LsMkdir`, `LsOpendir`, `Access`, `Space`, `EndpointType`, `IsCastor`, `Chmod`, `Unlink`, `Rename`, `Rmdir`, `Mkdir`, `Readdir`, `Closedir` |
| `SrmFiles` | GET and PUT requests of open files | `file` | `Open`, `GetTurl`, `PutTurl`, `InnerOpen`, `Close`, `InnerClose`, `PutDone`, `ReleaseFile` |
| `HttpTokens` | `gfal_http_plugin_token.cpp`, the choice of a token in `gfal_http_plugin.cpp` | the token map, credentials of directories | look-up, retrieval and filing of tokens |
| `HttpNames` | `gfal_http_plugin_metadata.cpp`, `_io.cpp`, quality of service, tape endpoint | the call that is running, the open file | `GetParams`, `Reserve`, `StatOfRmdir`, `Send`, `HttpFclose`, `UserStep` |
| `HttpKeys` | the cloud keys of `gfal_http_plugin.cpp` | the options, the keys read | `ReadKeys` |
| `SftpSessions` | `src/plugins/sftp` | `stash` (the cache), `alive`, `abandoned` (set-up failed), `held` | `SftpCall`, `ConnectNew`, `Reconnect`, `Reuse`, `Operate`, `Opens`, `Closes`, `SftpDelete` |
| `GridFtpFile` | `gridftp_io.cpp`, the streams of `gridftpwrapper.cpp` | `desc`, `stream` (with `torn`: its data came in pieces), `request`, the main operation, the file | `GftpOpen`, `GftpRead`, `GftpWrite`, `GftpPread`, `GftpPwrite`, `GftpLseek`, `LseekWaits`, `GftpClose`, `CloseWaits`, `WaitExpires`, `WaitCancelled`; Globus: `MainEnds`, `MainBreaks` |
| `NameSpace` | composes the seven above: one of them works per behaviour | | |

`MC*` modules give the constants that a configuration cannot write down; the other
runs are of the component itself.
The `*Proofs` modules hold the theorems: `CoreProofs` (of `GfalCancel`, `PosixThreads`,
`CredMapping` and `Staging`), `FdTableProofs`, `LocalCopyProofs`, `GridFtpRequestProofs`, `GridFtpSessionsProofs`,
`PluginCopyProofs`, `BulkCopyProofs` and `NameSpaceProofs`. The inductive invariants they use stand
at the end of the module they are about. Where one module of proofs is about several
specifications, these are told apart by their names (`PosixSpec`, `CredSpec`,
`StagingSpec`). Definitions marked *Mutant* are altered forms of the definition that
follows them (a lost guard, a missing reset): each property was seen to fail
when one of them takes the place of the original, so no property holds for want
of anything to go wrong.

Data abstractions: a checksum is the content it was computed of (no
collisions); file contents are chunk sequences in `LocalCopy` and one of a few
named contents elsewhere; credentials, sessions, handles and threads are model
values; strings are modelled only in `CredMapping`, where the property is about
them. Events and log messages are left out. Descriptors are drawn at random in
the code and from a small set in the model; the cast of an `off_t` to an `int` in
`gfal_plugin_lseekG` is `AsInt`, a reduction modulo `2 * IntRange`.

## 3 Runs

Eleven runs must pass and one shows where code and documentation part (section
5). States are distinct states.

| run | states | what is checked |
|---|---|---|
| `GfalCancel` | 310,448 | `IInv` (types, exact count, owned hooks, owned flag), `CancelDrains`, `HooksAlive`; liveness `CancelReturns` |
| `FdTable` | 3,560,191 | `NoUseAfterFree`, `PreadAtOffset` |
| `LocalCopy` | 993,184 | `CopyExact` (with both checksums compared, whatever happened), `KeepExisting`; liveness `Terminates` |
| `GridFtpRequest` | 9,332 | `RequestOutlivesUsers`, `SuccessIsReported`; liveness `CopyEnds` |
| `GridFtpSessions` | 302,922 | `SessionOwned`, `LoginWithOwnCredential` |
| `PluginCopy` | 2,442,784 | all three: `NothingLeft` (no partial file; for SRM no rejected file either, and no open request but those whose token was lost or that the server would not end), `VerifiedExact`; HTTP and SRM: `ExistingSurvives` |
| `CredMapping` | 1,681 | the list refines `CredMap`, operation by operation (`ListIsMap`), `BestMatchPicked` (also: never a sibling) |
| `BulkCopy` | 2,589,088 | `FailuresCounted`, `ExistingKept`, `VerifiedPairExact`; liveness `BulkReturns` |
| `Staging` | 88,396 | `OnlineMeansOnline`, `NothingForgotten`; liveness `StagingEnds` |
| `Dispatch` | 304,605 | `LoadedAsListed` (also where it is inside the array), `FirstByPriority`, `PluginsReleased`, `FailureExplained` |
| `NameSpace` | 1,114,119 | core: `MkdirRecDone`; SRM: `ContextOfCall`, `LockAccounted`, `NoStaleEntry`, `ListedOnce`; HTTP: `TokenFits`, `PairOfOneGroup`; SFTP: `SessionInOnePlace`; GridFTP: `FileAsWritten` |

To repeat one: `tlc -config GfalCancel.cfg GfalCancel`.

### Bounds

- `GfalCancel`: two workers and two cancellers, scopes nested two deep. Two of
  each are needed for two calls of `gfal2_cancel` to overlap while one operation
  ends and another begins; nesting two deep separates counting operations from
  counting scopes. The safety part is proved for any number.
- `FdTable`: two threads, three handles, three keys, `MaxOpen` 1 so that the
  table is full with the second open (the code refuses when the count is above
  the limit), offsets 0 and 1, `IntRange` 2. `Freeing` holds one of the handles: both
  kinds of plugins are met, and descriptors of both are in the table at once.
- `LocalCopy`: a source of two chunks over an old destination of three, so a
  file that is not truncated shows; a timeout of two ticks; two acts of another
  process, so that it can delete the file the copy has open and put one of its own
  in its place; strict mode and not; a source with and without an end.
- `GridFtpRequest`: one transfer with its retry; a marker timeout of two ticks,
  so that progress can come between two ticks. Cancellations need no
  bound: timer, hook, expiry and destructor come at most once per attempt.
- `GridFtpSessions`: two threads, two session objects, one URL on each of two
  hosts, two credentials. `size_cache` is 0, not 400, so that the cache is at
  its limit with one session. Symmetry over threads, sessions and credentials is
  sound: no liveness is checked.
- `PluginCopy`: two acts of another process, so that it can delete and create;
  every combination of parameters and of the options a plugin looks at.
- `CredMapping`: two contexts, prefixes `x` and `x/y`, two types, two values, all
  URLs of up to three characters over a slash and two letters: `x`, its
  subdirectories and siblings with a common stem are among them. Symmetry over
  contexts and values is sound: no liveness is checked.
- `BulkCopy`: calls of one or two pairs, checksum arguments NULL, right, wrong and
  `type:value`. Two pairs separate "skip this pair" from "stop", and let a value
  of one pair leak into the next.
- `Staging`: lists of up to three URLs over two paths, so that a list has one file
  in each of two states and one of them twice; every way in which the server can be
through with a file; replies of every length up to that of
  the list, in every order, with repeated and foreign entries.
- `Dispatch`: two threads, of which one goes on to call (`Busy`) and loads three times,
  directories with no, two good, broken and symbol-less modules, an array of three,
  one client plugin with the name of a loaded one and a higher priority. Two loads
  are needed to meet what a failed one has left, three for the load that follows a
  failed reload, with `plugin_number` at -1.
- `NameSpace`: six paths. `MkdirRec` has a target three deep and three acts of
  another process; SRM two threads with up to three and two calls, out of eight menus of calls that
  meet in a cache of two entries, in one directory, on two endpoints or on one
  file; listings whole and in chunks of one; HTTP three calls out of four menus and two
  credentials set by the client, under seven settings of scheme, options and server;
  all combinations of four AWS options in three groups; SFTP four calls, three
  sessions, two open handles; GridFTP five calls on files of two and three blocks,
  with reads of one and two.

Deadlock is checked for `GfalCancel` and `CredMapping`. In the others the modelled call
ends and nothing follows (copies, requests), or the supply of fresh objects
(handles, sessions) runs out, which the program has no counterpart of.

### Fairness

- `GfalCancel`: weak fairness of the steps that end an operation, of polling, and
  of each step of `gfal2_cancel`. An operation that nobody ends would block
  `gfal2_cancel` for ever, in the code too; the code's operations are bounded
  by timeouts. No fairness is assumed for starting operations or for calling
  `gfal2_cancel`.
- `LocalCopy`: plugin calls return and time passes. Cancellation and the other
  process need never act; the source may never end.
- `GridFtpRequest`: the threads run and a timed wait expires. Globus owes nothing,
  not even to an operation that was aborted, so the end of the copy rests on the two
  timed waits.
- `BulkCopy`: the calling thread runs and its timed wait expires (the default is
  an hour). Globus owes nothing.
- `Staging`: the application goes on (polls while the result is 0), and the server
  finishes each file it has accepted, for better or worse; a server that leaves a
  file queued for ever keeps the application polling, in the code too. No call has
  to succeed.
- `FdTable`, `Dispatch`, `NameSpace`, `GridFtpSessions`, `PluginCopy`, `CredMapping`: safety only, no fairness.
- `GridFtpSessionsFull`: a thread in `release_session` goes on and gets the mutex if
  it can be got. The counterexample is one in which it cannot.

### Assumptions about the environment

`MixedIO` (in `FdTable`, FALSE in the run and in the theorem about `PreadAtOffset`):
the application does not mix plain and positional calls on one descriptor; section 6
says what happens if it does. `Freeing` (in `FdTable`) is no assumption: it may be
any set of handles. All callbacks of one operation report the same result (in
`GridFtpRequest`; Globus' word). In `SrmCopy` a server refuses a PUT over an existing
file (the plugin itself never looks). `DirsFit` (in `Plugins`): the directory has no
more modules than the array has room for; the code does not look. `Windows` (in
`SrmNames`): `;offset=` comes with `;count=` (section 6). The unlock of a recursive
mutex by a thread that does not hold it does nothing. The SFTP cache has one user at
a time.

Some properties hold only with exceptions, which the formulas name: `CopyExact` and
`KeepExisting` leave out interference by another process and strict mode, which does
not look at the destination; `NoUseAfterFree`, `RequestOutlivesUsers`, `NothingLeft`,
`StagingEnds`, `LoadedAsListed`, `SessionInOnePlace` and `FileAsWritten` leave out
what section 6 reports of the code.

## 4 Proofs

Checked by TLAPS (`tlapm CoreProofs.tla`, and so on; 14,950 obligations)
for every value of the constants that satisfies the named assumptions. Every safety
invariant, action property and refinement that a run checks is also a theorem.

**`CoreProofs`, cancellation**, from `WorkersFinite`, `CancellersFinite`,
`ThreadsDisjoint`, `MaxDepthIsPos`. `InvariantHolds: Spec => []IInv`, and from it
`TypeCorrect`, `CountIsExact`, `CancelBlocksUntilDrained`, `HooksNeverDangle`,
`FlagNeverOrphaned`. `CancelDrains` alone is not inductive: that the wait loop
ends when the counter is at zero means nothing unless the counter is the number
of open scopes (`ScopeCount`), that a worker in an operation has one open
(`ScopesMatchPc`), and that whoever a canceller waits for is in an operation
(`WaitingRuns`). `ScopeCount` needs the only counting argument: `EnterScope`
adds exactly one element to `OpenScopes`, `EndScope` removes exactly one (lemmas
`EnterCounts`, `EndCounts`), and at zero everyone is idle (`ZeroMeansIdle`).
`HooksAlive` needs `MutexHeld` (a hook is not removed while a canceller walks the
list) and `HooksOwned`. `FlagOwned` is the reason overlapping cancellations do
not leave the context cancelled.

**`CoreProofs`, plugins and calls**, from `MaxPluginListAssumption`, `KindOK`, `DirsOK`,
`PriorityOK`, `DirsFit` and `CodesOK`, for any threads, directories, plugins and URLs:
`PosixInvariant`, and from it `ContextsAsListed` (`LoadedAsListed`),
`HighestPriorityServes` (`FirstByPriority`),
`EndedThreadsRelease` (`PluginsReleased`) and `FailuresExplained` (`FailureExplained`).
`PosixInv` says of each thread how far its load has come: of the modules of some
directory the first k are dealt with, and unless its constructor was raced the plugins
are those of them that are good, but for the first if the load began with the count
a failed one had left at -1 (`LoadInv`); after it, the plugins of a
directory come first and those of clients follow (`ListInv`); the sorted list is
that of the plugins whenever a call can see it (`SortInv`); the number is that of the
plugins alive unless a load failed, and below zero or written before the array only
if one did (`CountInv`), so that the end of a thread releases all of them; a handle points into the list, at a plugin of its name (`HandleInv`). A step touches
its own thread only (`StepOfOne`), but for `constructor`, which all share and which is why
`raced` is in the conclusion. `SortedOrder` is about the sort, for any priorities: there is an
order that holds every place once and puts no place before one of a higher priority. That a failure comes with its code is a statement
about each of the calls of `UrlCalls` (`UrlCallsHonest`).

**`CoreProofs`, credentials**, from `SlashOK`, `PrefixesOK`, `CredUrlsOK`, `TypesOK` and
`NoValueOK`, for any contexts, prefixes, URLs and values: `ListsSorted` (`SortedLists`),
`ListImplementsMap` (the refinement `ListIsMap`: the initial lists are the empty maps, and
every operation on a list is the one of `CredMap` on its map, or no step) and
`LongestPrefixWins` (`BestMatchPicked`). A list stays strictly sorted by `NodeOrder`
(prefixes downwards, then types), for which `strcmp` must be an order: irreflexive, total and
transitive (`StrLess...`). A strictly sorted list has a prefix and type once
(`DistinctKeys`), which makes it a map; and of two prefixes of one URL the greater by `strcmp`
is the longer (`BelowIsShorter`), so that the first match is the longest (`SortedPicks`).
An empty prefix, which may match anything, is last in every list.

**`CoreProofs`, staging**, from `PluginsOK` and `MaxFilesOK`, for lists of any length with
repetitions: `StagingInvariant`, `OnlineIsOnline` (`OnlineMeansOnline`) and `NoneForgotten`
(`NothingForgotten`). The result of a poll counts files that are there and files that failed;
that it is 0 as long as one is on its way is an argument about the cardinalities of two
disjoint sets of places (`ResultIsFinal`). Between polls the server may only finish
what is on its way (`ProgressKeeps`).

**`FdTableProofs`**, from the assumptions of `FdTable`: `InvariantHolds`,
`NeverUsesFreedHandle` (`NoUseAfterFree`), `TableNamesLiveHandles` (`DescriptorsLive`),
and with `~MixedIO` `PreadIsPositional` (`PreadAtOffset`). Calls and closes overlap in
any way, and any plugin may free the handle of a failed close. `NoUseAfterFree` needs
that a descriptor names a freed handle only between the two steps of a close and
after a failed one that freed it (`DescriptorsLive`), that whoever is in a call on a
handle that another thread closes overlaps that close (`RaceSeen`), that a thread's
handle is the one the table has for its descriptor (`CallsBound`), so that the close of
one takes the right descriptor away, that a handle to be stored is nobody else's
(`StoresOwn`) and that descriptors name distinct handles (`DescriptorsDistinct`).
`PreadIsPositional` adds `LockHolder` and `IoApart`: the cursor of a locked handle is
moved by the holder only.

**`GridFtpSessionsProofs`**, from `SetsOK`, `HostsApart`, `SizeCacheOK`:
`InvariantHolds`, `OneOwnerPerSession`, and the action property
`OwnCredentialUsed`. The last rests on `CredsCurrent`: a session whose base URL is a
full URL was authorised with the certificate of that URL, so that the
authorisation `get_session` skips for it is not needed.

**`LocalCopyProofs`**, from `SizesOK`, `TimeoutOK`, `MeddlingOK`, `StrictModesOK`:
`InvariantHolds`, `ExistingKept` (`KeepExisting`) and `SuccessExact` (`CopyExact`),
for files and timeouts of any size. `CopyExact` needs, besides the loop invariant that what was
written is what was read (`PrefixWritten`), that the loop is left without an error
only at the end of the source (`EndMet`), that the file written to is the one the
copy made (`OwnDestination`: what `unlink_if_exists` saw is still so at the open),
and that the checksum kept for the comparison is the source's (`SourceSummed`).

**`GridFtpRequestProofs`**, from `MarkerTimeoutOK`: `InvariantHolds`, `SuccessReported`
(`SuccessIsReported`) and `RequestOutlives` (`RequestOutlivesUsers`). `UsersWithin` says
between which lines of `wait` the timer, the hook and the thread that calls it may
hold the request: the code joins the first and removes the second before it destroys
the request, whatever the server does. For Globus there is `CallbacksOwed`: in the first
attempt a callback is still to come only if the operation was aborted, once one has come or
the request is gone. `AttemptsApart` keeps the reports of the two attempts apart,
since the second inherits `done` and `error` of the first.

**`PluginCopyProofs`**, from `PluginsOK` and `BoundsOK`: `InvariantHolds`,
`CopyLeavesNothing` (`NothingLeft`), `ExistingFileSurvives` (`ExistingSurvives`) and
the action property `VerifiedIsExact` (`VerifiedExact`). Each plugin adds its part:
where a partial file can be and that the error code does not keep the clean-up from
it (`PartialCleaned`), what an HTTP attempt can find (`HttpOverwrites`), the
life of the SRM PUT request, which stays open only if it is lost or refused (`PutRequest`) and what `copy_finalize` undoes (`RolledBack`), the
checksum GridFTP compares with (`GridFtpSummed`).

**`BulkCopyProofs`**, from `BulkBoundsOK`, for any number of pairs: `BulkInvariant`,
`FailuresAreCounted` (`FailuresCounted`), `ExistingIsKept` (`ExistingKept`) and
`VerifiedPairIsExact` (`VerifiedPairExact`). The count is right because a pair fails
once: in the loops that do not look at its error it has none yet (`FailsOnce`; the
counting is in the lemma `PairFails`). What Globus writes, also after the wait
has timed out, is harmless to existing files because every pair it was given or may
still ask for had its destination prepared (`Prepared`). That the destinations
are not written to while they are checked holds as long as no wait has expired
(`GlobusQuiet`), and the checksum they are compared with is the source's
(`SourceChecked`). `VerifiedSoFar` carries what is verified through the loops of the
three implementations. That `NextViable` names a pair rests on the
well-foundedness of the natural numbers (`LeastOf`).

**`NameSpaceProofs`**, for any tree, any menus of calls and any number of threads,
servers and acts of others. One part of the library works per behaviour, so each
part has an invariant of its own.

- `MkdirRecMakes` (`MkdirRecDone`), from `MkdirRecAssumption`: the stack leads from
  the current directory to the target (`StackLeadsDown`), and on the way down the
  parent of what comes next is there (`ParentThere`).
- `ContextIsOfCall` (`ContextOfCall`) and `LockIsAccounted` (`LockAccounted`), from
  `SrmAssumption`. Neither is inductive alone: a thread that is in a section and has
  a directory open must hold the recursive lock twice (`DepthEnough`), or the release
  of the section would free the context under the directory; and the context must be
  the one its mark says (`ContextMarked`), since `gfal_srm_ifce_easy_context` compares
  with the mark. The lemmas `StepContext`, `StepRelease`, `StepLeak`, `StepFails`,
  `StepOpendir` ... say what a section may do to the lock, and every handler is a
  use of one of them.
- `NoEntryStale` (`NoStaleEntry`), from `SrmNamesAssumption` as well: an entry that was kept is about a
  path that is there (`CachedThere`), so that what mkdir or putdone makes was never cached
  as something else, and what rmdir has forgotten comes back only from a directory
  (`ForgottenFirst`). `EntriesKeepRight` reduces every handler to its entries: each is old,
  for a path that is as it was, or new and just asked for.
- `DirectoriesListedOnce` (`ListedOnce`): a directory that did not change is in step (`InStep`): its page
  is the part of the directory from the offset on (`Slice`), and what was given is what comes
  before the place in it (`GivenSoFar`). The chunk is turned with its last entry, so a page that
  is used up without being turned is the last one.
- `TokensFit` (`TokenFits`), from `HttpMenusOK`, `CredOrderOK` and `SettingsOK`: the map of tokens and the
  credentials are filed under what they are for (`TokensFiled`), look-up and
  retrieval give a token that suits the request (`FoundUsable`, `RetrievedRight`), and what a call still has to
  send is a request of that call (`RequestsProper`), whatever the user sets meanwhile.
- `KeysOfOneGroup` (`PairOfOneGroup`), from `GroupsOK`: after n groups the pair is that of the first
  of them that has one, and nothing is set if none has (`AwsParamsRight`).
- `SessionsKept` (`SessionInOnePlace`), from `SftpAssumption`: the counting form of
  the property is derived from three statements that the places are disjoint
  (`StashApart`, `HeldApart`, `RunningApart`) and one that no session that was set up is
  lost (`NoneLost`). `SetUpEnds` says how a new session begins: set up, or abandoned.
- `FileIsAsWritten` (`FileAsWritten`), from `GftpAssumption`; reads ask for
  at least one block, since an empty read returns nothing wherever it is. Data may come in
  any pieces and at any offsets: a read is then not empty (`OverlaidLength`), and it is
  right if it came in one piece (`PartialGetGives`, and `torn` for the stream). The main
  operation is over when its request is (`MainOfFlags`), a stream at its end is at the
  end of the file (`EndIsEnd`), and the file has every reported block unless its PUT
  has failed or was aborted (`ImageKept`, `Ruined`), in which case close cannot
  return 0. The lemmas `BlocksGot`, `ReadRight`, `BlockWritten` and `ImageWritten` say what
  reads and writes of a sequence of blocks do.

The definitions that go through a list (`InOrder`, `OfKind`, `Containing`, `AwsParams`,
the copy of a credential list) are recursive functions or folds over one. The
library's induction theorems take an operator; `InductOn` and `LeastOf` say the same of
a set of numbers, which the provers can instantiate, and each recursion is first shown to
be defined (`KeptExists`, `CopiedExists`, `UptoExists`, `SeenExists`).

What the proofs changed in the models. `LocalCopy` let the other process delete the
file the copy had open and then went on writing to the name; it now keeps the file
apart from its name (`held`). `NoStaleEntry` did not follow from the SRM invariant, and
an instance with a menu it had not been tried with violates it: a directory whose lock was given away is
read between the purge of `gfal_srm_rmdirG` and its removal, and puts the entry back
(`Removing`; now among the exceptions the property names, and a menu of the run).
`ListedOnce` compared the directory at its end with what it was when it was opened, and
a name that goes away and comes back between two chunks passes that comparison while an
entry is missed; the directories that changed while they were open are now
remembered (`changed`).

Only model-checked: all liveness (`CancelReturns`, `Terminates`, `CopyEnds`,
`BulkReturns`, `StagingEnds`), since fairness and `ENABLED` are outside the prover; and the
counterexample of section 5.

## 5 Findings

A run that TLC ends with a counterexample, and an entry of `PROJECT.json` that quotes
the line the code disagrees with.

- `GridFtpSessionsFull` / `ReleaseReturns`: `recycle_session` holds `mux_cache` when
  it calls `clear_cache`, which locks it again. With the cache full, the release
  never returns.

## 6 Observations

Behaviours the models show, or that had to be assumed away. Most are contradicted by
no document of the repository; where one is, it is quoted.

Cancellation. An operation between the test of the flag and the increment of the
count (`gfal_cancel.c:64`) is not seen by `gfal2_cancel` and runs on after it
returned. Two overlapping calls share one flag: the first to return lowers it
for both, and new operations may then keep the second waiting (`CancelReturns`
says so). The value returned counts scopes, not operations. A hook registered
after the hooks were invoked is not called.

Descriptors. Closing a descriptor while another thread is in a call on it frees
the handle under that call (`raced` in `NoUseAfterFree`). The dcap, http and xrootd
`close`, rfio `closedir`, and srm when its putdone or release fails, free the handle
and report a failure, while the core keeps the descriptor
(`gfal2_read_write_file_operations.c:111-113`): every later call on it works on a freed
handle (`FreedByFailure`). read and pread on one descriptor share the cursor, and only
pread takes the lock. At the limit of the table an open returns 0 and the handle is
lost. `gfal_plugin_lseekG` returns an `off_t` through an `int`.

Streamed copy. `streamed_copy` ignores how much `gfal_plugin_writeG` wrote, though
`gfal_file_api.h` says a short write is no error: a copy without checksum succeeds
with bytes missing (`CopyExact` excepts it). The destination is opened without `O_EXCL`, so a file made after
the check is overwritten. EXIT events are missing on failure. A timeout of 0
ends the copy after the first chunk. The buffer for the checksum of the
destination is not initialised. The source's size is never set.

GridFTP. A cached session keeps old credentials when the map changes, and
those of its last user for a URL without any of its own. A login that fails in
the constructor of the handler leaks the session. The retry without UDT
(`gridftp_filecopy.cpp:478`) uses the request of the refused attempt, whose `done`
and `error` are still set: the wait returns at once and the request goes while the
new transfer runs, where `gsiftp_plugin.conf:50` promises "gfal2 will fallback to a
normal transfer if not supported". An error before the transfer that is not a
`TransferException` (`gridftp_filecopy.cpp:622`) reaches the clean-up, which deletes
a destination the copy has not written. `cancel()` gives `globus_gass_copy_cancel` the
callback and the request of the operation once more (`gridftpwrapper.cpp:807-808`), and
`wait` is content with the first call and gives up after its second wait: a late
callback may find the request, which is on the stack, destroyed (`aborted` and
`attempt = 2` in `RequestOutlivesUsers`).

GridFTP files. A seek on a descriptor opened with `O_RDWR` alone waits for a request that was never started,
and fails after the time-out, twice. After a seek on a file opened for writing, close
always fails with ECANCELED, and the descriptor is never freed. The error of a stream
is never cleared: after one failed write, every later one through it and the close
fail. `O_RDONLY|O_CREAT` starts a GET and cannot be closed before the end of the file
was read. A read-only descriptor can be written to. The read callback ignores the
offset of its data (`gridftpwrapper.cpp:840`) and registers the start of the buffer again
after a piece without EOF (`:866-871`): pieces lie over each other, and their lengths add up.
A session out of the cache keeps the extended block mode and the streams of a file copy
(`gridftp_filecopy.cpp:443`), in which pieces are short and unordered (`torn` in
`FileAsWritten`). The C functions cast the number of
bytes to an `int`.

HTTP and SRM copies. A `copy_mode` in a URL switches the HTTP fallback off in the
options of the context, for later copies too (`fallback`). The eviction reports
a reply that is neither 200 nor an error through a null pointer (`Evict`). A file that fails the check
of its checksum stays at a GridFTP or HTTP destination; the SRM copy deletes it
(`NothingLeft`). When only one side is an SRM and that is the source, any
failure but EEXIST, also one before the transfer, deletes the destination.
After a cancel the rollback's `gfal2_unlink` is itself refused. Without the
clean-up option the GET request is not released, not even after a success. A
request whose TURL has an unexpected protocol was granted, but its token is thrown away
with the reply (`gfal_srm_getput.c:231-234`): it is never released or aborted (`lost`).
Nor is the one made to compute a checksum. An abort or a release that fails is only
logged (`refused`; `gfal_srm_copy.c:399-410`, `424-431`). `gfal_srm_unlinkG` fails without an error when no SRM
context can be had, and its callers follow the NULL pointer (`crashed`).

Credentials. `gfal2_cred_set` with NULL for a prefix that has an entry follows the
NULL pointer. An empty prefix makes the look-up read the character before the
URL (`before` in `CredGet`).

Bulk copy. A cancellation between preparation and transfer makes the call fail
for every pair with no error in either result. After a timeout the pipeline goes
on with data of a stack frame that has been left; nothing aborts it (`late`). Only `TransferException` is
caught during preparation. With a checksum mode the XRootD plugin dereferences
NULL or untyped checksums, though `gfal_plugin_interface.h` allows NULL, and cuts
values to eight characters; GridFTP compares a typed one as it is, so it never
matches; `set_checksum` cuts the last character of the type. The XRootD clean-up deletes a
destination that was there before after any failure but EEXIST. `bulk_fallback` leaves the checksum of the last pair in the
caller's parameters.

Staging. XRootD files the result of the i-th entry of a reply under the i-th URL,
whatever its path (`inOrder`). The SRM poll for one file returns -1 with EAGAIN while
the file is queued, where `gfal_file_api.h:377` documents 0: an application that
follows it aborts a healthy recall. A refused list call sets the error of the first
file only, and an empty reply to XRootD's bring-online sets none. A file for which
the reply has no entry counts as failed while the server goes on recalling it. SRM
reads entry i of a reply for URL i (the explanation of a queued file, the statuses of
a release or an abort) though the reply may be shorter, and HTTP reports a reply that
is neither an error nor the code it expects through a null pointer (`Crash`). A stage
request whose reply cannot be read has been accepted and cannot be polled or
aborted. An HTTP file that is UNAVAILABLE has the code EAGAIN and counts as failed. The archive
poll of SRM says EAGAIN for every locality that is not a NEARLINE one, also for LOST and
UNAVAILABLE (`gfal_srm_archive.c:38-44`); the poll of HTTP does for a FAILED or CANCELED
file whose entry has no `error` (`gfal_http_plugin_tape.cpp:641-657`), that of XRootD for an
empty `error_text`: an application that polls while the result is 0 never ends
(`Unseen` in `StagingEnds`).

`gfal_plugin_bring_online_list_v2G` tests the wrong pointer.

Registry and dispatch. Two threads that load at once share `constructor` and may run
the entry point of the other's module (`raced`). After a load that failed
`plugin_number` may be -1, and `gfal2_register_plugin` writes before the array
(`outside`); so does the next load, which never resets it, puts its first plugin
there and ends with a count that is one too small; a failed load leaks the plugins before it; nothing stops loading at the
end of the array. Rename and symlink across two plugins return -1 with no error,
though `gfal_file_api.h` says "err MUST be set". With the log level DEBUG an older stored
error hides why a context could not be made. `gfal_lseek`, `gfal_read` and `gfal_write`
pass their result through an `int`. Files open at the end of a thread are not closed.
`gfal2_mkdir_rec` returns 0 when a regular file is at the URL.

SRM. A call that fails on an unparsable URL gives back the lock of the listing its own
thread has open, and another thread may then use the context
(`exposed`), though `gfal_srm.h:76` says "Avoid same context being used from more than
one thread at the time". A URL with a mapped credential never matches the cached
context, which is rebuilt on every call and freed under an open listing; so is it by
a call on another endpoint. The mark of a credential stays when a URL has none. A
failed opendir and a failed ping keep the lock for ever. `;offset=` without `;count=`
repeats one entry for ever; `;count=` sets only the size of a page. Full SURLs and
short ones have separate cache keys, and children of a renamed directory stay in the
cache, as does the entry of a directory that is listed without the lock while `rmdir` has
purged it and not yet removed it (`excused`). GET requests for a TURL or a checksum, and those of an open that
fails, are never released. The BDII look-up tries only the first version preferred.
A call without a context, and a bulk unlink, may fail without an error.

HTTP. `path_contains` with an empty prefix throws; `discover` makes a string of NULL
for an invalid URL; a status other than 200 is reported through a null pointer.
`O_RDWR` and a change of quality of service ask for a token that can only read. A
user's token on a shorter path does not take the place of a server's on a longer one.
The expiry of a token is not kept, though a comment says so. AWS keys by the old
option names mix two groups, and the session token is looked up by itself.

SFTP. The cache has no lock and ignores the user. A handle whose handshake,
authentication or `sftp_init` fails is freed without its socket and its ssh session,
one of each for every such call (`gfal_sftp_connection.c:248-273`; `abandoned`). A failed write returns a count. Code 4, any failure, becomes EEXIST
for mkdir, so `gfal2_mkdir_rec` returns 0 on it. Sessions of open handles outlive the
plugin.

## 7 What is not modelled

`PROJECT.json` lists every component with its status and reason: the GridFTP and
XRootD name spaces (single requests without state between them), the file, dcap and
rfio plugins (forwarding to a library, but for their close, in `FdTable`), parsing of
listings and replies, checksum kernels, configuration, logging, the LFC plugin, the
queries of the BDII, the mock plugin. In `Plugins` a second reload within the fall-backs of one call, and in `SrmSession` the failure to
set up a context, whose error path unlocks twice, are left out. Weak-memory effects are
not modelled: GLib's atomic operations are sequentially consistent, and racing plain accesses are
modelled as interleaved steps. Memory exhaustion is not modelled.

## 8 Plan

In the order of importance:

1. An abstract specification of a copy that each copy implements.
2. The XRootD name space, if its requests come to share state.
3. Proofs of the liveness properties, when the prover supports `ENABLED`.
