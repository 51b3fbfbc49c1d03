------------------------------- MODULE Staging ------------------------------
(***************************************************************************)
(* Recall from tape and polling of archives for a list of files, by the    *)
(* SRM (gfal_srm_bringonline.c, gfal_srm_archive.c), HTTP                  *)
(* (gfal_http_plugin_tape.cpp) and XRootD (gfal_xrootd_plugin_*.cpp)       *)
(* plugins, behind gfal2_bring_online_list, _poll_list, release_file_list, *)
(* abort_files and archive_poll_list, or the calls for one file.           *)
(*                                                                         *)
(* The server is external.  It works on each file by itself, and its reply *)
(* may leave files out, repeat them and have an order of its own.  The     *)
(* application is the one gfal_file_api.h describes: it polls as long as   *)
(* the result is 0, then releases what it got or aborts the rest.          *)
(***************************************************************************)
EXTENDS Integers, Sequences, FiniteSets

CONSTANTS
    Plugins,     \* the plugins to explore
    Paths,       \* paths on one server
    MaxFiles     \* bound on the length of a list

ASSUME PluginsOK == Plugins \subseteq {"srm", "http", "xrootd"}
ASSUME MaxFilesOK == MaxFiles \in Nat \ {0}

VARIABLES
    call,        \* plugin, operation and URLs; one: the calls for one file
    turn,        \* what the application does next
    state,       \* server: state of each path
    token,       \* the application has the token of its request
    ret,         \* result of the last call
    errors,      \* code for each URL of the last call, "none" for NULL
    whole,       \* history: the last call failed as a whole
    inOrder,     \* history: the last reply had the URLs as they were asked
    canceled     \* gfal2_is_canceled

stagingVars == <<call, turn, state, token, ret, errors, whole, inOrder, canceled>>

Lists == UNION {[1 .. n -> Paths] : n \in 1 .. MaxFiles}

Calls ==
    {c \in [plugin : Plugins, op : {"stage", "archive"}, urls : Lists, one : BOOLEAN] :
        c.one => Len(c.urls) = 1}

Positions == DOMAIN call.urls
Asked == {call.urls[i] : i \in Positions}

StagingInit ==
    /\ call \in Calls
    /\ turn = IF call.op = "stage" THEN "bring" ELSE "poll"
    /\ state \in [Paths -> {"disk", "nearline", "lost"}]
    /\ token = FALSE
    /\ ret = 0
    /\ errors = [i \in Positions |-> "none"]
    /\ whole = FALSE
    /\ inOrder = TRUE
    /\ canceled = FALSE

-----------------------------------------------------------------------------
(* The server                                                              *)

\* Files on their way to disk or to tape.
Pending == IF call.op = "stage" THEN {"queued"} ELSE {"disk"}

\* How the work on a file can end.  A file is "mute" when the server has given
\* it up and its replies do not say so: HTTP's entry has "onDisk" and no "error",
\* whatever its "state"; XRootD's has an empty "error_text".
Endings ==
    (IF call.op = "stage" THEN {"online", "failed"} ELSE {"nearline", "lost", "unavailable"})
        \cup (IF \/ call.plugin = "xrootd"
                 \/ call.plugin = "http" /\ call.op = "stage"
              THEN {"mute"} ELSE {})

\* A recall ends, or the copy on tape is made, or the file cannot be had.
Progress(p) ==
    /\ turn \notin {"done", "crashed"}
    /\ p \in Asked
    /\ state[p] \in Pending
    /\ \E s \in Endings : state' = [state EXCEPT ![p] = s]
    /\ UNCHANGED <<call, turn, token, ret, errors, whole, inOrder, canceled>>

\* The request is accepted: files that are known are queued, or are on disk.
Accepted ==
    [p \in Paths |-> IF p \notin Asked THEN state[p]
                     ELSE CASE state[p] = "disk" -> "online"
                            [] state[p] = "nearline" -> "queued"
                            [] OTHER -> "failed"]

\* The entries of a reply: paths, or one that is unreadable or about another
\* file.
Replies == UNION {[1 .. n -> Asked \cup {"foreign"}] : n \in 0 .. Len(call.urls)}

-----------------------------------------------------------------------------
(* Results                                                                 *)

\* What a plugin makes of the entry of a file in the reply to a poll: the file
\* is there, is pending, or has an error.
StageAnswer(s) ==
    CASE s = "online" -> "ok"
      [] s \in {"queued", "mute"} -> "again"
      [] OTHER -> "error"

\* The same for an archive.  For a file that is UNAVAILABLE the HTTP plugin sets
\* the code of a pending one and counts an error.
ArchiveAnswer(s) ==
    CASE s = "nearline" -> "ok"
      [] s \in {"disk", "mute"} -> "again"
      [] s = "unavailable" /\ call.plugin = "http" -> "unavailable"
      [] OTHER -> "error"

\* SRM takes every locality other than the two NEARLINE ones for a file that is
\* not yet archived, LOST and UNAVAILABLE too.
SrmArchiveAnswer(s) == IF s = "nearline" THEN "ok" ELSE "again"

Answer(s) ==
    IF call.op = "stage" THEN StageAnswer(s)
    ELSE IF call.plugin = "srm" THEN SrmArchiveAnswer(s)
    ELSE ArchiveAnswer(s)

Code(answer) ==
    CASE answer = "ok" -> "none"
      [] answer \in {"again", "unavailable"} -> "EAGAIN"
      [] OTHER -> "EIO"

\* A list call that fails before a reply is read: one error, copied.
FailWhole(code) ==
    /\ ret' = -1
    /\ errors' = [i \in Positions |-> code]
    /\ whole' = TRUE
    /\ UNCHANGED inOrder

Count(answers, which) == Cardinality({i \in Positions : answers[i] \in which})

\* Mutant: the call is over when one file is there.
ResultHasty(answers) == IF Count(answers, {"ok"}) > 0 THEN 1 ELSE 0

\* Mutant: the files that failed are waited for.
ResultPatient(answers) ==
    IF Count(answers, {"ok"}) = Len(call.urls) THEN 1 ELSE 0

\* The end of the loops over the files.  The recalls of SRM only count what is
\* final.
Result(answers) ==
    LET ok == Count(answers, {"ok"})
        failed == Count(answers, {"error", "missing", "unavailable"})
    IN  IF call.plugin = "srm" /\ call.op = "stage"
        THEN IF ok + failed = Len(call.urls) THEN 1 ELSE 0
        ELSE CASE ok = Len(call.urls) -> 1
               [] failed = Len(call.urls) -> -1
               [] ok > 0 /\ failed > 0 /\ ok + failed = Len(call.urls) -> 2
               [] OTHER -> 0

\* Mutant: the answers are taken in the order of the reply.
BySurlPositional(files, reply, i) ==
    IF i \in DOMAIN reply /\ reply[i] \in Asked THEN Answer(files[reply[i]]) ELSE "missing"

\* gfal_srmv2_bring_online_internal_status_index, polling_get_item_by_path: the
\* answer for a URL is looked for by its path.  (SRM asks for one file after
\* the other when it polls archives; one that is left out is a query that
\* failed.)
BySurl(files, reply, i) ==
    IF \E j \in DOMAIN reply : reply[j] = call.urls[i]
    THEN Answer(files[call.urls[i]]) ELSE "missing"

\* XRootD: the answers are taken in the order of the reply.  An entry that
\* lacks an attribute or has another path is an error.
ByPosition(files, reply, i) ==
    IF reply[i] \in Asked THEN Answer(files[reply[i]]) ELSE "missing"

-----------------------------------------------------------------------------
(* The calls                                                               *)

Calling == turn \in {"bring", "poll", "release", "abort"} /\ ~canceled

\* GFAL2_BEGIN_SCOPE_CANCEL: the error goes to the first file.
RefuseCall ==
    /\ turn \in {"bring", "poll", "release", "abort"} /\ canceled
    /\ turn' = "done"
    /\ ret' = -1
    /\ errors' = [i \in Positions |-> IF i = 1 THEN "ECANCELED" ELSE "none"]
    /\ whole' = TRUE
    /\ UNCHANGED <<call, state, token, inOrder, canceled>>

\* gfal_find_plugin finds none for the first URL: one error for all.
NotDispatched ==
    /\ Calling
    /\ turn' = IF turn = "poll" THEN "decide" ELSE "done"
    /\ FailWhole("EPROTONOSUPPORT")
    /\ UNCHANGED <<call, state, token, canceled>>

\* The request does not get through, or the server turns it down.
BringFails ==
    /\ Calling /\ turn = "bring"
    /\ turn' = "done"
    /\ FailWhole("EIO")
    /\ UNCHANGED <<call, state, token, canceled>>

\* The server accepts and the token does not arrive: an unreadable reply
\* (HTTP), an empty one (XRootD, which sets no error).
BringTokenLost ==
    /\ Calling /\ turn = "bring"
    /\ call.plugin # "srm"
    /\ turn' = "done"
    /\ FailWhole(IF call.plugin = "xrootd" THEN "none" ELSE "EIO")
    /\ state' = Accepted
    /\ UNCHANGED <<call, token, canceled>>

\* HTTP and XRootD only take the token from the reply.
BringAccepted ==
    /\ Calling /\ turn = "bring"
    /\ call.plugin # "srm"
    /\ turn' = "decide"
    /\ state' = Accepted
    /\ token' = TRUE
    /\ ret' = 0
    /\ errors' = [i \in Positions |-> "none"]
    /\ whole' = FALSE
    /\ UNCHANGED <<call, inOrder, canceled>>

\* SRM also looks at the files, and gives no error to those that are pending.
\* The reply may be without a token.
BringReported ==
    /\ Calling /\ turn = "bring"
    /\ call.plugin = "srm"
    /\ turn' = "decide"
    /\ state' = Accepted
    /\ token' \in BOOLEAN
    /\ \E reply \in Replies :
          LET answers == [i \in Positions |-> BySurl(Accepted, reply, i)]
              bad == {i \in Positions : answers[i] \in {"error", "missing"}}
          IN  /\ inOrder' = (reply = call.urls)
              /\ errors' = [i \in Positions |-> IF i \in bad THEN "EIO" ELSE "none"]
              /\ ret' = IF call.one /\ bad # {} THEN -1 ELSE Result(answers)
    /\ whole' = FALSE
    /\ UNCHANGED <<call, canceled>>

\* The poll fails, or its reply cannot be read, is about another request, or,
\* for XRootD, has not as many entries as there are URLs.
PollFails ==
    /\ Calling /\ turn = "poll"
    /\ ~(call.plugin = "srm" /\ call.op = "archive")
    /\ turn' = "decide"
    /\ FailWhole("EIO")
    /\ UNCHANGED <<call, state, token, canceled>>

Answers(reply) ==
    [i \in Positions |-> IF call.plugin = "xrootd" THEN ByPosition(state, reply, i)
                    ELSE BySurl(state, reply, i)]

\* A poll that got its reply.
Polled(reply, result) ==
    /\ turn' = "decide"
    /\ inOrder' = (reply = call.urls)
    /\ errors' = [i \in Positions |-> Code(Answers(reply)[i])]
    /\ ret' = result
    /\ whole' = FALSE
    /\ UNCHANGED <<call, state, token, canceled>>

\* The call of SRM for one file returns -1 whenever an error is set, EAGAIN too.
PollStage ==
    /\ Calling /\ turn = "poll"
    /\ call.op = "stage" /\ token
    /\ \E reply \in Replies :
          /\ call.plugin = "xrootd" => Len(reply) = Len(call.urls)
          /\ LET answers == Answers(reply)
             IN  Polled(reply, IF call.one /\ call.plugin = "srm" /\ answers[1] # "ok"
                               THEN -1 ELSE Result(answers))

PollArchive ==
    /\ Calling /\ turn = "poll"
    /\ call.op = "archive"
    /\ \E reply \in Replies :
          /\ call.plugin = "xrootd" => Len(reply) = Len(call.urls)
          /\ Polled(reply, Result(Answers(reply)))

\* The server lets go of the files, or SRM of those it can.
LetGo(bad) ==
    /\ call.plugin # "srm" => bad = {}
    /\ turn' = "done"
    /\ errors' = [i \in Positions |-> IF i \in bad THEN "EIO" ELSE "none"]
    /\ whole' = FALSE
    /\ state' = [p \in Paths |->
                    IF /\ state[p] \in {"queued", "online"}
                       /\ \E i \in Positions \ bad : call.urls[i] = p
                    THEN "nearline" ELSE state[p]]
    /\ UNCHANGED <<call, token, inOrder, canceled>>

LetGoFails ==
    /\ Calling /\ turn \in {"release", "abort"}
    /\ turn' = "done"
    /\ FailWhole("EIO")
    /\ UNCHANGED <<call, state, token, canceled>>

\* A release that fails for some of the files of a list returns 0.
Release ==
    /\ Calling /\ turn = "release"
    /\ \E bad \in SUBSET Positions :
          /\ LetGo(bad)
          /\ ret' = IF call.one /\ bad # {} THEN -1 ELSE 0

Abort ==
    /\ Calling /\ turn = "abort"
    /\ \E bad \in SUBSET Positions : LetGo(bad) /\ ret' = -Cardinality(bad)

\* The reads the replies can lead astray: HTTP reports a success with another
\* code than it waits for through a null pointer, and SRM reads the status of
\* the i-th URL from a reply that may be shorter (while a file is queued, and
\* in every release and abort).
Crash ==
    /\ Calling
    /\ \/ call.plugin = "http"
       \/ /\ call.plugin = "srm"
          /\ \E i \in Positions \ {1} :
                \/ turn \in {"release", "abort"}
                \/ turn = "poll" /\ call.op = "stage" /\ state[call.urls[i]] = "queued"
    /\ turn' = "crashed"
    /\ state' \in {state} \cup IF turn = "bring" THEN {Accepted} ELSE {}
    /\ UNCHANGED <<call, token, ret, errors, whole, inOrder, canceled>>

\* The application, after a call: another poll, the release, or the abort.
Decide ==
    /\ turn = "decide"
    /\ turn' = CASE ret = 0 -> "poll"
               [] ret > 0 /\ call.op = "stage" -> "release"
               [] ret < 0 /\ call.op = "stage" -> "abort"
               [] OTHER -> "done"
    /\ UNCHANGED <<call, state, token, ret, errors, whole, inOrder, canceled>>

\* gfal2_cancel raises the flag, and lowers it when no call is running.
Cancel ==
    /\ turn \notin {"done", "crashed"}
    /\ canceled' = ~canceled
    /\ UNCHANGED <<call, turn, state, token, ret, errors, whole, inOrder>>

Server == \E p \in Paths : Progress(p)

Caller ==
    \/ RefuseCall \/ NotDispatched
    \/ BringFails \/ BringTokenLost \/ BringAccepted \/ BringReported
    \/ PollFails \/ PollStage \/ PollArchive
    \/ LetGoFails \/ Release \/ Abort
    \/ Crash \/ Decide

StagingNext == Server \/ Caller \/ Cancel

StagingSpec == StagingInit /\ [][StagingNext]_stagingVars

\* The server works on every file it has accepted and the application goes on.
FairStaging ==
    /\ StagingSpec
    /\ WF_stagingVars(Caller)
    /\ \A p \in Paths : WF_stagingVars(Progress(p))

-----------------------------------------------------------------------------
(* Properties                                                              *)

\* The URLs whose result can be read at their place: XRootD files the results
\* under the order of the reply.
Trusted == call.plugin = "xrootd" => inOrder

\* Files reported as there are there: when a bring-online or a poll returns a
\* positive number, a URL without an error is on disk (a recall) or on tape (an
\* archive), in whatever order the reply came, with files left out or repeated
\* (the loops at the end of the poll functions; for XRootD only if the reply
\* keeps the order).
OnlineMeansOnline ==
    (turn \in {"decide", "release"} /\ ret > 0 /\ Trusted) =>
        \A i \in Positions : errors[i] = "none" =>
            state[call.urls[i]] = IF call.op = "stage" THEN "online" ELSE "nearline"

\* No file is forgotten: when a call tells the application to stop polling,
\* every URL whose file is still on its way has an error other than EAGAIN.  Left
\* out: calls that failed as a whole, and the poll of SRM for one file, which
\* returns -1 while the file is queued.
NothingForgotten ==
    (/\ turn \in {"decide", "release", "abort"}
     /\ ret # 0 /\ ~whole /\ Trusted
     /\ ~(call.one /\ call.plugin = "srm")) =>
        \A i \in Positions : state[call.urls[i]] \in Pending => errors[i] = "EIO"

\* The ends of a file that its poll does not tell from a file on its way.
Unseen ==
    IF call.plugin = "srm" /\ call.op = "archive" THEN {"lost", "unavailable"} ELSE {"mute"}

\* Polling comes to an end: once the server is through with the files, a poll
\* returns something else than 0, also when some or all of them failed.  The
\* exceptions are the files in a state the code takes for pending for ever: LOST
\* and UNAVAILABLE ones in the archives of SRM (gfal_srm_archive.c:38-44), and
\* those the server gave up without an error (gfal_http_plugin_tape.cpp:641-657).
StagingEnds ==
    <>(turn \in {"done", "crashed"} \/ \E p \in Asked : state[p] \in Unseen)

-----------------------------------------------------------------------------
\* The inductive invariant behind the two safety properties
StagingInv ==
    /\ call \in Calls
    /\ state \in [Paths -> {"disk", "nearline", "lost", "queued", "online", "failed",
                            "unavailable", "mute"}]
    /\ ret \in Int
    /\ turn = "bring" => call.op = "stage"
    /\ OnlineMeansOnline
    /\ NothingForgotten
=============================================================================
