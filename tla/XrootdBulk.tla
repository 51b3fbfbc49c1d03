----------------------------- MODULE XrootdBulk -----------------------------
(***************************************************************************)
(* gfal_xrootd_3rd_copy_bulk                                               *)
(* (src/plugins/xrootd/gfal_xrootd_plugin_3rd_copy.cpp): the pairs become  *)
(* the jobs of one XrdCl::CopyProcess, whose results are collected.        *)
(***************************************************************************)
EXTENDS BulkState

VARIABLE status   \* result of every job, "none" before it ran

XrootdInit == status = [f \in Files |-> "none"]

\* checkSumPreset: what is left of "type:value".  strncpy copies sizeof(s),
\* eight characters.
Preset(f) == IF call.arg[f] = "typed" THEN "good" ELSE "cut"

\* The jobs are described.  With a checksum mode, checksums[i] is split at
\* its colon: a null array, a null entry and a value without a type are
\* dereferenced.
AddJobs ==
    /\ pc = "jobs"
    /\ IF call.mode # {} /\ \E f \in Files : call.arg[f] \notin {"typed", "wide"}
       THEN Leave
       ELSE GoTo("prepare") /\ UNCHANGED dst
    /\ UNCHANGED status

\* CopyProcess::Prepare
PrepareJobs ==
    /\ pc = "prepare"
    /\ GoTo("run") \/ Return(-1, "EIO")
    /\ UNCHANGED <<dst, status>>

\* What XrdCl makes of a job that wrote c: the preset is compared with the
\* source, with the target, or with both.
Accepts(c) ==
    /\ "SOURCE" \in call.mode => Preset(i) = "good"
    /\ "TARGET" \in call.mode => Preset(i) = c

\* CopyProcess::Run, one job: it succeeds, finds the destination there and
\* may not replace it, or fails before or after it wrote something.
RunJob ==
    /\ pc = "run"
    /\ \/ /\ MayCreate
          /\ \E c \in {"good", "garbled"} : Accepts(c) /\ Write(c)
          /\ status' = [status EXCEPT ![i] = "ok"]
       \/ /\ ~MayCreate
          /\ status' = [status EXCEPT ![i] = "EEXIST"]
          /\ UNCHANGED dst
       \/ /\ status' = [status EXCEPT ![i] = "EIO"]
          /\ \/ UNCHANGED dst
             \/ MayCreate /\ \E c \in {"good", "garbled", "short"} : Write(c)
    /\ FileGoesOn("results")

\* gfal_xrootd_copy_cleanup with the error it should look at: the destination
\* is removed unless the copy failed because it exists; unlink may fail.
CleanUp(code) ==
    \/ call.cleanup /\ code # "EEXIST" /\ Write("absent")
    \/ UNCHANGED dst

\* A single job that failed is an error of the operation.
SingleResult ==
    /\ pc = "results"
    /\ call.n = 1
    /\ status[i] # "ok"
    /\ CleanUp(status[i])
    /\ Return(-1, status[i])
    /\ UNCHANGED status

\* The result of a job among several.  The clean-up is given file_errors[i]
\* and means (*file_errors) + i: for the first pair they are the same, for the
\* others it reads whatever lies behind the caller's variable.
CollectResult ==
    /\ pc = "results"
    /\ \/ status[i] = "ok" /\ FileGoesOn("evict") /\ UNCHANGED dst
       \/ /\ status[i] # "ok" /\ call.n > 1
          /\ FileFails(status[i], "evict")
          /\ IF i = 1 \/ ~call.cleanup
             THEN CleanUp(status[i])
             ELSE Write("absent") \/ UNCHANGED dst
       \/ /\ status[i] # "ok" /\ call.n > 1
          /\ i > 1 /\ call.cleanup
          /\ Leave
    /\ UNCHANGED status

\* The eviction of the sources that were copied reports its own errors; the
\* number of failures is returned.
EvictAndReturn ==
    /\ pc = "evict"
    /\ Return(-nfailed, "none")
    /\ UNCHANGED <<dst, status>>

XrootdNext ==
    \/ AddJobs \/ PrepareJobs \/ RunJob \/ SingleResult \/ CollectResult
    \/ EvictAndReturn
=============================================================================
