----------------------------- MODULE GridFtpCopy ----------------------------
(***************************************************************************)
(* GridFTPModule::filecopy (src/plugins/gridftp/gridftp_filecopy.cpp): a   *)
(* third-party copy between two GridFTP servers, from the checksum of the  *)
(* source to the checksum of the destination, with the removal of an       *)
(* existing destination before it and the clean-up after a failure.  The   *)
(* transfer itself (GridFtpRequest) is one step here.                      *)
(***************************************************************************)
EXTENDS CopyState

GridFtpOptions == [skip : BOOLEAN]

\* The checks are off in strict mode; SKIP_SOURCE_CHECKSUM takes the source
\* out of the mode.
checksum_mode ==
    IF par.strict THEN {} ELSE IF opt.skip THEN par.mode \ {"SOURCE"} ELSE par.mode

\* A CoreException that reaches the handler around the transfer.  Others, a
\* TransferException or one from outside the try block, are let through.
ThrowCore(code) ==
    /\ pc' = "clean"
    /\ err' = code

-----------------------------------------------------------------------------
SourceChecksum ==
    /\ pc = "start"
    /\ IF "SOURCE" \in checksum_mode
       THEN \/ Stop("EIO") /\ UNCHANGED sum
            \/ /\ sum' = "source"
               /\ IF par.user \in {"none", "source"}
                  THEN GoTo("exists") ELSE Stop("EMISMATCH")
       ELSE GoTo("exists") /\ UNCHANGED sum
    /\ UNCHANGED <<par, opt, parent, dst, meddled, clobbered, unclean>>

\* gridftp_filecopy_delete_existing: the look at the destination.
CheckExisting ==
    /\ pc = "exists"
    /\ \/ par.strict /\ GoTo("transfer")
       \/ ~par.strict /\ ThrowCore("EIO")
       \/ ~par.strict /\ dst = "absent" /\ GoTo("parent")
       \/ ~par.strict /\ dst # "absent" /\ par.replace /\ GoTo("unlink")
       \/ ~par.strict /\ dst # "absent" /\ ~par.replace /\ Stop("EEXIST")
    /\ UNCHANGED <<par, opt, sum, parent, dst, meddled, clobbered, unclean>>

\* gridftp_filecopy_delete_existing: the removal; "the destination was
\* deleted. So the parent directory is there".
DeleteExisting ==
    /\ pc = "unlink"
    /\ \/ ThrowCore("EIO") /\ UNCHANGED <<dst, clobbered>>
       \/ dst # "absent" /\ GoTo("transfer") /\ Overwrite("absent")
    /\ UNCHANGED <<par, opt, sum, parent, meddled, unclean>>

\* gridftp_create_parent_copy: the parent may be there, may not be a
\* directory, or is made by gfal2_mkdir_rec.
CreateParent ==
    /\ pc = "parent"
    /\ IF par.create_parent
       THEN \/ ThrowCore("EIO") /\ UNCHANGED parent
            \/ ~parent /\ Stop("ENOTDIR") /\ UNCHANGED parent
            \/ GoTo("transfer") /\ parent' = TRUE
       ELSE GoTo("transfer") /\ UNCHANGED parent
    /\ UNCHANGED <<par, opt, sum, dst, meddled, clobbered, unclean>>

\* The session and the transfer.  It may fail before anything is written, be
\* refused because the destination exists, break off, or end, with the right
\* content or with another.
Transfer ==
    /\ pc = "transfer"
    /\ \/ ThrowCore("EIO") /\ UNCHANGED <<dst, clobbered>>
       \/ dst # "absent" /\ ThrowCore("EEXIST") /\ UNCHANGED <<dst, clobbered>>
       \/ parent /\ ThrowCore("EIO") /\ Overwrite("partial")
       \/ parent /\ GoTo("verify") /\ \E c \in {"source", "garbled"} : Overwrite(c)
    /\ UNCHANGED <<par, opt, sum, parent, meddled, unclean>>

\* autoCleanFileCopy: unless the code is EEXIST the destination is deleted; a
\* failure to delete it is ignored.
CleanUp ==
    /\ pc = "clean"
    /\ GoTo("done")
    /\ IF err = "EEXIST" THEN UNCHANGED <<dst, clobbered, unclean>> ELSE TryDelete
    /\ UNCHANGED <<par, opt, sum, parent, meddled>>

\* Mutant: compare with the user's checksum only when there is one.
ExpectedLax == IF par.user # "none" THEN par.user ELSE dst

\* What the checksum of the destination is compared with.  Without a source
\* checksum it is the user's, also when there is none.
Expected == IF "SOURCE" \in checksum_mode THEN sum ELSE par.user

TargetChecksum ==
    /\ pc = "verify"
    /\ IF "TARGET" \in checksum_mode
       THEN \/ Stop("EIO")
            \/ dst # "absent" /\ dst = Expected /\ GoTo("done")
            \/ dst # "absent" /\ dst # Expected /\ Stop("EMISMATCH")
       ELSE GoTo("done")
    /\ UNCHANGED <<par, opt, sum, parent, dst, meddled, clobbered, unclean>>

GridFtpNext ==
    \/ SourceChecksum \/ CheckExisting \/ DeleteExisting \/ CreateParent
    \/ Transfer \/ CleanUp \/ TargetChecksum
=============================================================================
