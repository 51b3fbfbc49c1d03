------------------------------- MODULE SrmCopy ------------------------------
(***************************************************************************)
(* srm_plugin_filecopy (src/plugins/srm/gfal_srm_copy.c): a GET request    *)
(* pins the source, a PUT request reserves the destination, another plugin *)
(* copies between the two TURLs, and the requests are closed, released or  *)
(* aborted.  One of the two URLs may be outside SRM.                       *)
(*                                                                         *)
(* gfal2_cancel stays in force until the copy has returned (GfalCancel).   *)
(* That a server refuses to PUT over an existing file is assumed.          *)
(***************************************************************************)
EXTENDS CopyState

VARIABLES
    get,       \* the GET request: "held" while the copy has its token
    put,       \* the PUT request; either is "lost" when the server granted it
               \* and the copy did not get the token, and "refused" when the
               \* server would not release or abort it
    finished,  \* transfer_finished
    cancel     \* gfal2_is_canceled

srmVars == <<get, put, finished, cancel>>

SrmOptions ==
    {o \in [skip : BOOLEAN, src_srm : BOOLEAN, dst_srm : BOOLEAN] :
        o.src_srm \/ o.dst_srm}

\* The requests that are open at the server.
OpenRequest == {"held", "lost", "refused"}

SrmInit == get = "none" /\ put = "none" /\ finished = FALSE /\ cancel = FALSE

\* srm_get_checksum_config; the strict mode is not looked at.
SrmMode == IF opt.skip THEN par.mode \ {"SOURCE"} ELSE par.mode

\* goto copy_finalize
Fail(code) ==
    /\ pc' = "final"
    /\ err' = code

-----------------------------------------------------------------------------
\* srm_validate_source_checksum.  When the source is not to be checked the
\* checksum SRM has in its name space is taken if there is one.
SrmSourceChecksum ==
    /\ pc = "start"
    /\ \/ Fail("EINVAL") /\ UNCHANGED sum
       \/ SrmMode = {} /\ GoTo("get") /\ UNCHANGED sum
       \/ /\ SrmMode = {"TARGET"}
          /\ GoTo("get")
          /\ sum' \in IF opt.src_srm THEN {"none", "source"} ELSE {"none"}
       \/ "SOURCE" \in SrmMode /\ Fail("EIO") /\ UNCHANGED sum
       \/ /\ "SOURCE" \in SrmMode
          /\ sum' = "source"
          /\ IF par.user = "wrong" THEN Fail("EMISMATCH") ELSE GoTo("get")
    /\ UNCHANGED <<par, opt, parent, dst, meddled, clobbered, unclean, srmVars>>

\* srm_resolve_turls: the look for a source on tape, and the GET request.
\* When the server grants it with a TURL whose protocol nobody asked for,
\* validate_turls frees the result, and the token with it.
SrmGet ==
    /\ pc = "get"
    /\ \/ opt.src_srm /\ Fail("EIO") /\ get' \in {"none", "lost"}
       \/ /\ GoTo(IF opt.dst_srm THEN "unlink" ELSE "transfer")
          /\ get' = IF opt.src_srm THEN "held" ELSE get
    /\ UNCHANGED <<par, opt, sum, parent, dst, meddled, clobbered, unclean,
                   put, finished, cancel>>

\* srm_plugin_delete_existing_copy.  EINVAL is taken for ENOENT.  Without an
\* SRM context the unlink fails and sets no error, which is then looked at.
SrmDeleteExisting ==
    /\ pc = "unlink"
    /\ \/ ~par.replace /\ GoTo("parent") /\ UNCHANGED <<dst, clobbered>>
       \/ par.replace /\ Fail("EIO") /\ UNCHANGED <<dst, clobbered>>
       \/ par.replace /\ GoTo("crashed") /\ UNCHANGED <<dst, clobbered>>
       \/ par.replace /\ GoTo("parent") /\ UNCHANGED <<dst, clobbered>>
       \/ par.replace /\ dst # "absent" /\ GoTo("parent") /\ Overwrite("absent")
    /\ UNCHANGED <<par, opt, sum, parent, meddled, unclean, srmVars>>

\* srm_plugin_create_parent_copy
SrmMakeParent ==
    /\ pc = "parent"
    /\ \/ ~par.create_parent /\ GoTo("put") /\ UNCHANGED parent
       \/ par.create_parent /\ Fail("EIO") /\ UNCHANGED parent
       \/ par.create_parent /\ GoTo("put") /\ parent' = TRUE
    /\ UNCHANGED <<par, opt, sum, dst, meddled, clobbered, unclean, srmVars>>

\* gfal_srm_put_rd3_turl; a granted request may be lost as that of SrmGet.
SrmPut ==
    /\ pc = "put"
    /\ \/ Fail("EIO") /\ UNCHANGED put
       \/ dst # "absent" /\ Fail("EEXIST") /\ UNCHANGED put
       \/ dst = "absent" /\ parent /\ Fail("EBADMSG") /\ put' = "lost"
       \/ dst = "absent" /\ parent /\ GoTo("transfer") /\ put' = "held"
    /\ UNCHANGED <<par, opt, sum, parent, dst, meddled, clobbered, unclean,
                   get, finished, cancel>>

\* The copy between the TURLs is strict when the destination is an SRM.
Nested(flag) == ~opt.dst_srm /\ ~par.strict /\ flag

\* srm_do_transfer: the copy another plugin makes.  It may fail before
\* anything is written, after the old file was deleted or half way, with or
\* without its own clean-up.
SrmTransfer ==
    /\ pc = "transfer"
    /\ \/ cancel /\ Fail("ECANCELED") /\ UNCHANGED <<dst, clobbered, parent>>
       \/ ~cancel /\ Fail("EIO") /\ UNCHANGED <<dst, clobbered, parent>>
       \/ /\ ~cancel /\ dst # "absent"
          /\ Fail("EEXIST")
          /\ UNCHANGED <<dst, clobbered, parent>>
       \/ /\ ~cancel
          /\ Nested(~par.replace) => dst = "absent"
          /\ parent \/ Nested(par.create_parent)
          /\ parent' = TRUE
          /\ \/ Fail("EIO") /\ \E c \in {"absent", "partial"} : Overwrite(c)
             \/ /\ \E c \in {"source", "garbled"} : Overwrite(c)
                /\ GoTo("putdone")
    /\ UNCHANGED <<par, opt, sum, meddled, unclean, srmVars>>

\* srm_do_transfer: gfal_srm_putdone, if the destination is an SRM.
SrmPutDone ==
    /\ pc = "putdone"
    /\ \/ opt.dst_srm /\ Fail("EIO") /\ UNCHANGED <<put, finished>>
       \/ /\ GoTo("verify")
          /\ finished' = TRUE
          /\ put' = IF opt.dst_srm THEN "done" ELSE put
    /\ UNCHANGED <<par, opt, sum, parent, dst, meddled, clobbered, unclean, get, cancel>>

\* Mutant: the user's checksum counts only when the source has none.
SrmMatchesOne == dst = IF sum # "none" THEN sum ELSE "source"

SrmMatches ==
    /\ sum # "none" => dst = sum
    /\ par.user # "none" => dst = par.user

\* srm_validate_destination_checksum
SrmTargetChecksum ==
    /\ pc = "verify"
    /\ IF "TARGET" \in SrmMode
       THEN \/ Fail("EIO")
            \/ dst # "absent" /\ SrmMatches /\ GoTo("final")
            \/ dst # "absent" /\ ~SrmMatches /\ Fail("EMISMATCH")
       ELSE GoTo("final")
    /\ UNCHANGED <<par, opt, sum, parent, dst, meddled, clobbered, unclean, srmVars>>

\* srm_rollback_put: a finished transfer, and any destination outside SRM, is
\* deleted with gfal2_unlink, which a cancel refuses; an unfinished one is
\* aborted, if the copy has its token, and deleted past gfal2.  An abort that
\* fails is only logged.
Rollback ==
    CASE err \notin {"none", "EEXIST"} /\ (finished \/ ~opt.dst_srm) ->
            /\ UNCHANGED put
            /\ \/ ~cancel /\ TryDelete /\ GoTo("release")
               \/ /\ cancel /\ GoTo("release")
                  /\ unclean' = TRUE /\ UNCHANGED <<dst, clobbered>>
               \/ /\ ~cancel /\ opt.dst_srm /\ GoTo("crashed")
                  /\ UNCHANGED <<dst, clobbered, unclean>>
      [] err # "none" /\ opt.dst_srm /\ ~finished /\ put = "held" ->
            TryDelete /\ GoTo("release") /\ put' \in {"aborted", "refused"}
      [] OTHER -> GoTo("release") /\ UNCHANGED <<dst, clobbered, unclean, put>>

\* copy_finalize, srm_cleanup_copy
SrmFinalize ==
    /\ pc = "final"
    /\ IF par.cleanup THEN Rollback
       ELSE GoTo("done") /\ UNCHANGED <<dst, clobbered, unclean, put>>
    /\ UNCHANGED <<par, opt, sum, parent, meddled, get, finished, cancel>>

\* Mutant: a release that is left out when the copy has failed.
ReleaseOnSuccess ==
    /\ pc = "release"
    /\ GoTo("done")
    /\ get' = IF get = "held" /\ err = "none" THEN "released" ELSE get
    /\ UNCHANGED <<par, opt, sum, parent, dst, meddled, clobbered, unclean,
                   put, finished, cancel>>

\* srm_release_get; an error of the server is logged and ignored.
SrmRelease ==
    /\ pc = "release"
    /\ GoTo("done")
    /\ IF get = "held" THEN get' \in {"released", "refused"} ELSE UNCHANGED get
    /\ UNCHANGED <<par, opt, sum, parent, dst, meddled, clobbered, unclean,
                   put, finished, cancel>>

\* gfal2_cancel by another thread
Cancel ==
    /\ pc \notin Final
    /\ ~cancel
    /\ cancel' = TRUE
    /\ UNCHANGED <<copyVars, get, put, finished>>

SrmNext ==
    \/ SrmSourceChecksum \/ SrmGet \/ SrmDeleteExisting \/ SrmMakeParent \/ SrmPut
    \/ SrmTransfer \/ SrmPutDone \/ SrmTargetChecksum \/ SrmFinalize \/ SrmRelease
    \/ Cancel
=============================================================================
