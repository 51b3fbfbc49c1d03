----------------------------- MODULE PluginCopy -----------------------------
(***************************************************************************)
(* One copy of one file by the GridFTP, the HTTP or the SRM plugin, and    *)
(* what the three promise: the parameters of a copy (gfal_transfer.h) mean *)
(* the same whoever makes it.                                              *)
(***************************************************************************)
EXTENDS GridFtpCopy, HttpCopy, SrmCopy

vars == <<copyVars, httpVars, srmVars>>

Init ==
    /\ CopyInit
    /\ opt \in CASE par.plugin = "gridftp" -> GridFtpOptions
                 [] par.plugin = "http" -> HttpOptions
                 [] par.plugin = "srm" -> SrmOptions
    /\ HttpInit
    /\ SrmInit

\* gfalt_copy_file hands the copy to the plugin the URLs belong to.
GridFtp == par.plugin = "gridftp" /\ GridFtpNext /\ UNCHANGED <<httpVars, srmVars>>
Http == par.plugin = "http" /\ HttpNext /\ UNCHANGED srmVars
Srm == par.plugin = "srm" /\ SrmNext /\ UNCHANGED httpVars
Others == Meddle /\ UNCHANGED <<httpVars, srmVars>>

Next == GridFtp \/ Http \/ Srm \/ Others

Spec == Init /\ [][Next]_vars

-----------------------------------------------------------------------------
\* The checks that are asked for and not switched off.
EffectiveMode ==
    CASE par.plugin = "gridftp" -> checksum_mode
      [] par.plugin = "http" -> HttpMode
      [] par.plugin = "srm" -> SrmMode

\* A copy that is over leaves nothing behind, if it was to clean up and could,
\* whichever step failed, in whichever attempt, with or without a cancel, and
\* whatever another process did to the destination meanwhile: no part of the
\* file; for SRM no file that was closed with PutDone and then rejected by the
\* checksum; and of the SRM requests, the pin on the source and the reservation
\* on the destination, only those that the server refused to end, or whose token
\* was thrown away with a TURL of a protocol nobody asked for.
NothingLeft ==
    pc = "done" /\ par.cleanup =>
        /\ ~unclean => dst # "partial"
        /\ par.plugin = "srm" =>
              \A r \in {get, put} : r \in OpenRequest => r \in {"lost", "refused"}
        /\ par.plugin = "srm" /\ finished /\ err # "none" /\ ~unclean => dst \notin Mine

\* What passes the check of the destination is the source, byte for byte, also
\* when another process put something else there after the transfer.  HTTP and
\* SRM need a checksum to compare with; GridFTP lets nothing pass without one.
VerifiedExact ==
    [][(/\ pc = "verify" /\ pc' # "verify" /\ err' = "none"
        /\ "TARGET" \in EffectiveMode
        /\ par.plugin = "gridftp" \/ sum # "none" \/ par.user # "none")
       => dst = "source"]_vars

\* gfalt_set_replace_existing_file: without it the destination file a user had
\* stays as it was, through every failure and every fallback of an HTTP copy,
\* and of an SRM copy to an SRM.
ExistingSurvives ==
    /\ ~par.replace /\ meddled = 0
    /\ \/ par.plugin = "http" /\ ~par.strict
       \/ par.plugin = "srm" /\ opt.dst_srm
    => ~clobbered

-----------------------------------------------------------------------------
(* The inductive invariant behind the properties                           *)

TypeOK ==
    /\ par \in Params
    /\ par.plugin = "http" => opt \in HttpOptions
    /\ pc \in {"start", "exists", "unlink", "parent", "choose", "attempt", "get",
               "put", "transfer", "putdone", "clean", "verify", "evict", "final",
               "release"} \cup Final
    /\ err \in {"none", "EIO", "EEXIST", "EMISMATCH", "ENOTDIR", "EPERM", "EINVAL",
                "EBADMSG", "ECANCELED"}
    /\ sum \in {"none", "source"}
    /\ parent \in BOOLEAN
    /\ dst \in Contents
    /\ meddled \in 0 .. MaxMeddling
    /\ clobbered \in BOOLEAN /\ unclean \in BOOLEAN
    /\ copyMode \in {"NONE", "PULL", "PUSH", "STREAM"} /\ fallback \in BOOLEAN
    /\ get \in {"none", "held", "released", "lost", "refused"}
    /\ put \in {"none", "held", "done", "aborted", "lost", "refused"}
    /\ finished \in BOOLEAN /\ cancel \in BOOLEAN

\* A part of the file is only there on the way to the clean-up, which the code
\* of the error does not keep from deleting it.
PartialCleaned ==
    par.cleanup /\ ~unclean /\ dst = "partial" =>
        pc \in {"clean", "final", "crashed"} /\ err \notin {"none", "EEXIST"}

\* An HTTP copy gets past gfal_http_copy_overwrite only if no file is there.
HttpOverwrites ==
    par.plugin = "http" =>
        /\ pc = "unlink" => par.replace
        /\ /\ ~par.strict /\ meddled = 0
           /\ pc \in {"parent", "choose", "attempt", "clean", "verify", "evict"}
           => ~NotMine

\* The PUT request of an SRM copy from the reservation to its end.
PutRequest ==
    /\ pc \in {"unlink", "parent", "put"} => opt.dst_srm
    /\ put = "held" => opt.dst_srm /\ ~finished
    /\ opt.dst_srm /\ pc \in {"transfer", "putdone"} => put = "held"
    /\ opt.dst_srm /\ (finished \/ dst \in Mine) => put \notin {"none", "lost"}
    /\ put = "done" => finished
    /\ put \in {"aborted", "refused"} => pc \in {"release"} \cup Final
    /\ opt.dst_srm /\ put # "none" /\ meddled = 0 => ~NotMine

\* What is left of an SRM copy when copy_finalize has rolled it back.
RolledBack ==
    /\ finished => pc \in {"verify", "final", "release"} \cup Final
    /\ pc = "verify" => finished
    /\ pc \notin {"final", "release"} \cup Final => err = "none"
    /\ pc = "final" => (err = "none" => finished) /\ (finished => err # "EEXIST")
    /\ pc \in {"release", "done"} /\ par.cleanup =>
          /\ put # "held"
          /\ finished /\ err # "none" /\ ~unclean => dst \notin Mine
    /\ pc = "done" /\ par.cleanup => get # "held"

\* The checksum GridFTP compares the destination with.
GridFtpSummed ==
    par.plugin = "gridftp" /\ "SOURCE" \in checksum_mode =>
        pc = "start" \/ pc = "done" \/ sum = "source"

IInv ==
    /\ TypeOK /\ PartialCleaned /\ HttpOverwrites /\ GridFtpSummed
    /\ par.plugin = "srm" => PutRequest /\ RolledBack
    /\ ExistingSurvives
=============================================================================
