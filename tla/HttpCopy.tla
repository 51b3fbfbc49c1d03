------------------------------ MODULE HttpCopy ------------------------------
(***************************************************************************)
(* gfal_http_copy (src/plugins/http/gfal_http_copy.cpp): a third-party     *)
(* pull, a third-party push and a copy streamed through the client are     *)
(* tried one after the other until one succeeds.                           *)
(***************************************************************************)
EXTENDS CopyState

VARIABLES
    copyMode,   \* the mode of the next attempt, "NONE" before and after
    fallback    \* ENABLE_FALLBACK_TPC_COPY of the context

httpVars == <<copyMode, fallback>>

\* third_party: the source is on HTTP too and ENABLE_REMOTE_COPY is set;
\* query: copy_mode in one of the URLs.  Options nobody would look at have one
\* value.
HttpOptions ==
    {o \in [third_party : BOOLEAN, query : {"none", "PULL", "PUSH"},
            default : {"PULL", "PUSH", "STREAM"}, stream : BOOLEAN, evict : BOOLEAN] :
        /\ o.query # "none" => o.third_party /\ o.default = "PULL"
        /\ ~o.third_party => o.stream /\ o.default = "STREAM"}

HttpInit ==
    /\ copyMode = "NONE"
    /\ fallback \in IF par.plugin = "http" THEN BOOLEAN ELSE {FALSE}

HttpMode == IF par.strict THEN {} ELSE par.mode

-----------------------------------------------------------------------------
\* A source that cannot compute the type of checksum asked for is not checked.
HttpSourceChecksum ==
    /\ pc = "start"
    /\ IF "SOURCE" \in HttpMode
       THEN \/ Stop("EIO") /\ UNCHANGED sum
            \/ GoTo("exists") /\ UNCHANGED sum
            \/ /\ sum' = "source"
               /\ IF par.user = "wrong" THEN Stop("EMISMATCH") ELSE GoTo("exists")
       ELSE GoTo("exists") /\ UNCHANGED sum
    /\ UNCHANGED <<par, opt, parent, dst, meddled, clobbered, unclean, httpVars>>

\* Mutant: the destination is overwritten whether or not that was asked for.
HttpExistsReplaces ==
    /\ pc = "exists"
    /\ \/ par.strict /\ GoTo("choose")
       \/ ~par.strict /\ Stop("EIO")
       \/ ~par.strict /\ dst = "absent" /\ GoTo("parent")
       \/ ~par.strict /\ dst # "absent" /\ GoTo("unlink")
    /\ UNCHANGED <<par, opt, sum, parent, dst, meddled, clobbered, unclean, httpVars>>

\* gfal_http_copy_overwrite: the look at the destination.
HttpExists ==
    /\ pc = "exists"
    /\ \/ par.strict /\ GoTo("choose")
       \/ ~par.strict /\ Stop("EIO")
       \/ ~par.strict /\ dst = "absent" /\ GoTo("parent")
       \/ ~par.strict /\ dst # "absent" /\ par.replace /\ GoTo("unlink")
       \/ ~par.strict /\ dst # "absent" /\ ~par.replace /\ Stop("EEXIST")
    /\ UNCHANGED <<par, opt, sum, parent, dst, meddled, clobbered, unclean, httpVars>>

\* gfal_http_copy_overwrite: the removal.
HttpDeleteExisting ==
    /\ pc = "unlink"
    /\ \/ Stop("EIO") /\ UNCHANGED <<dst, clobbered>>
       \/ dst # "absent" /\ GoTo("parent") /\ Overwrite("absent")
    /\ UNCHANGED <<par, opt, sum, parent, meddled, unclean, httpVars>>

\* gfal_http_copy_make_parent
HttpMakeParent ==
    /\ pc = "parent"
    /\ \/ ~par.create_parent /\ GoTo("choose") /\ UNCHANGED parent
       \/ par.create_parent /\ Stop("EIO") /\ UNCHANGED parent
       \/ par.create_parent /\ GoTo("choose") /\ parent' = TRUE
    /\ UNCHANGED <<par, opt, sum, dst, meddled, clobbered, unclean, httpVars>>

\* HttpCopyMode::ConstructCopyMode.  A mode in the URL switches the fallback
\* off, in the options of the context, where it stays off.
ConstructCopyMode ==
    /\ pc = "choose"
    /\ GoTo("attempt")
    /\ copyMode' = IF ~opt.third_party THEN "STREAM"
                   ELSE IF opt.query # "none" THEN opt.query ELSE opt.default
    /\ fallback' = (fallback /\ (opt.third_party => opt.query = "none"))
    /\ UNCHANGED <<par, opt, sum, parent, dst, meddled, clobbered, unclean>>

isStreamingEnabled == opt.third_party => opt.stream

AttemptFails(code) ==
    /\ pc' = "clean"
    /\ err' = code

\* One attempt: gfal_http_third_party_copy or gfal_http_streamed_copy.  EPERM
\* stands for the errors after which no other mode is tried, ECANCELED among
\* them.  Streaming that is not allowed ends the copy at once.
Attempt ==
    /\ pc = "attempt"
    /\ IF copyMode = "STREAM" /\ ~isStreamingEnabled
       THEN Stop("EINVAL") /\ UNCHANGED <<dst, clobbered>>
       ELSE \/ \E code \in {"EIO", "EPERM"} :
                   AttemptFails(code) /\ UNCHANGED <<dst, clobbered>>
            \/ dst # "absent" /\ AttemptFails("EEXIST") /\ UNCHANGED <<dst, clobbered>>
            \/ parent /\ Overwrite("partial")
                 /\ \E code \in {"EIO", "EPERM"} : AttemptFails(code)
            \/ parent /\ GoTo("verify")
                 /\ \E c \in {"source", "garbled"} : Overwrite(c)
    /\ UNCHANGED <<par, opt, sum, parent, meddled, unclean, httpVars>>

\* HttpCopyMode::next
NextMode ==
    CASE copyMode = "PULL" -> "PUSH"
      [] copyMode = "PUSH" /\ isStreamingEnabled -> "STREAM"
      [] OTHER -> "NONE"

\* The end of the loop: another mode, or the error of the last one.
Fallback ==
    IF NextMode # "NONE" /\ fallback /\ err # "EPERM"
    THEN pc' = "attempt" /\ err' = "none" /\ copyMode' = NextMode
    ELSE pc' = "done" /\ UNCHANGED err /\ copyMode' = NextMode

\* gfal_http_copy_cleanup, after every attempt that failed.
HttpCleanUp ==
    /\ pc = "clean"
    /\ Fallback
    /\ IF par.cleanup /\ err # "EEXIST" THEN TryDelete
       ELSE UNCHANGED <<dst, clobbered, unclean>>
    /\ UNCHANGED <<par, opt, sum, parent, meddled, fallback>>

\* The destination is compared with the source, or with what the user gave,
\* or with nothing.
HttpExpected ==
    IF sum # "none" THEN sum ELSE IF par.user # "none" THEN par.user ELSE dst

HttpTargetChecksum ==
    /\ pc = "verify"
    /\ IF "TARGET" \in HttpMode
       THEN \/ Stop("EIO")
            \/ dst # "absent" /\ dst = HttpExpected /\ GoTo("evict")
            \/ dst # "absent" /\ dst # HttpExpected /\ Stop("EMISMATCH")
       ELSE GoTo("evict")
    /\ UNCHANGED <<par, opt, sum, parent, dst, meddled, clobbered, unclean, httpVars>>

\* The eviction of the source.  Its result is only logged.  A reply that is
\* neither 200 nor an error is reported through a null pointer.
Evict ==
    /\ pc = "evict"
    /\ \E next \in IF opt.evict THEN Final ELSE {"done"} : GoTo(next)
    /\ UNCHANGED <<par, opt, sum, parent, dst, meddled, clobbered, unclean, httpVars>>

HttpNext ==
    \/ HttpSourceChecksum \/ HttpExists \/ HttpDeleteExisting \/ HttpMakeParent
    \/ ConstructCopyMode \/ Attempt \/ HttpCleanUp \/ HttpTargetChecksum \/ Evict
=============================================================================
