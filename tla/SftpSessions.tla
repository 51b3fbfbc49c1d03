---------------------------- MODULE SftpSessions ----------------------------
(***************************************************************************)
(* The SFTP plugin (src/plugins/sftp): every call takes a session for its  *)
(* host and port from the cache of the context or makes one, and gives it  *)
(* back; an open file or directory keeps its session until it is closed.   *)
(* Connections break while they are in the cache.  The cache has no lock:  *)
(* one thread uses the context.                                            *)
(***************************************************************************)
EXTENDS NsState, Functions

CONSTANTS
    SftpMenus,     \* the <<call, path, server>> made; one is picked
    Servers,       \* host:port
    Slots,         \* handles that may be open at once
    Offered,       \* of a server: the authentication methods it lists
    Working,       \* of a server: those of them that let this user in
    SftpMoves,     \* <<from, to>>
    MaxSftpCalls,  \* bound: calls
    MaxSessions    \* bound: sessions ever made

VARIABLES
    sftpMenu,
    stash,    \* cache: of a server, its idle sessions
    alive,    \* sessions set up and not destroyed
    abandoned,\* history: sessions whose set-up failed; their sockets stay open
    born,     \* sessions made: they are numbered
    home,     \* of a session: its server
    sftp,     \* the call that is running
    held,     \* of a slot: the session of an open file or directory
    requests, \* calls made
    deleted   \* gfal_plugin_sftp_delete was called

sftpState == <<sftpMenu, stash, alive, abandoned, born, home, sftp, held, requests, deleted>>

NoSession == 0
AtRest == [at |-> "idle"]

SftpInit ==
    /\ sftpMenu \in PickFor("sftp", SftpMenus)
    /\ stash = [s \in Servers |-> <<>>]
    /\ alive = {} /\ abandoned = {} /\ born = 0
    /\ home = [n \in 1..MaxSessions |-> "none"]
    /\ sftp = AtRest
    /\ held = [i \in Slots |-> NoSession]
    /\ requests = 0
    /\ deleted = FALSE

\* gfal_sftp_cache_push
Pushed(n) == [stash EXCEPT ![home[n]] = <<n>> \o @]

\* gfal_sftp_authn: the methods the server lists are tried in turn.
Authenticated(s) == \E m \in Offered[s] : m \in Working[s]

\* gfal_sftp_new_handle: no server was reached, or a session is under way.
NewHandle(s) == {NoSession} \cup (IF born < MaxSessions THEN {born + 1} ELSE {})

SftpCall(op, p, s) ==
    /\ sftp.at = "idle" /\ ~deleted
    /\ <<op, p, s>> \in sftpMenu
    /\ requests < MaxSftpCalls
    /\ op \in {"open", "opendir"} => \E i \in Slots : held[i] = NoSession
    /\ requests' = requests + 1
    /\ sftp' = [at |-> "connect", op |-> op, path |-> p, server |-> s, session |-> NoSession]
    /\ UNCHANGED <<sftpMenu, stash, alive, abandoned, born, home, held, deleted, server>>

\* With the session n, or without one the call is over.
Connected(n) == IF n = NoSession THEN AtRest ELSE [sftp EXCEPT !.at = "operate", !.session = n]

\* The rest of gfal_sftp_new_handle, once the session `old` was destroyed.  When
\* the handshake, the authentication or libssh2_sftp_init fails only the structure
\* of the handle is freed: the socket and the ssh session stay open.
SetUp(n, s, old) ==
    \E up \in BOOLEAN :
        /\ up => n # NoSession /\ Authenticated(s)
        /\ sftp' = Connected(IF up THEN n ELSE NoSession)
        /\ alive' = (alive \ {old}) \cup (IF up THEN {n} ELSE {})
        /\ abandoned' = abandoned \cup (IF up \/ n = NoSession THEN {} ELSE {n})
        /\ born' = Max({born, n})
        /\ home' = IF n = NoSession THEN home ELSE [home EXCEPT ![n] = s]

\* gfal_sftp_connect, nothing in the cache
ConnectNew ==
    LET s == sftp.server IN
    /\ sftp.at = "connect"
    /\ stash[s] = <<>>
    /\ \E n \in NewHandle(s) : SetUp(n, s, NoSession)
    /\ UNCHANGED <<sftpMenu, stash, held, requests, deleted, server>>

\* gfal_sftp_connect with gfal_sftp_cache_pop: a session that does not answer
\* the keepalive is destroyed, and a new one made.
Reconnect ==
    LET s == sftp.server IN
    /\ sftp.at = "connect"
    /\ stash[s] # <<>>
    /\ stash' = [stash EXCEPT ![s] = Tail(@)]
    /\ \E n \in NewHandle(s) : SetUp(n, s, Head(stash[s]))
    /\ UNCHANGED <<sftpMenu, held, requests, deleted, server>>

Reuse ==
    LET s == sftp.server IN
    /\ sftp.at = "connect"
    /\ stash[s] # <<>>
    /\ stash' = [stash EXCEPT ![s] = Tail(@)]
    /\ sftp' = Connected(Head(stash[s]))
    /\ UNCHANGED <<sftpMenu, alive, abandoned, born, home, held, requests, deleted, server>>

-----------------------------------------------------------------------------
(* The requests, each of which ends with gfal_sftp_release.                *)

Trees(code, after) == {a.tree : a \in Answers(code, after)}

\* gfal_sftp_stat
SftpStat(p) == {tree}
\* gfal_sftp_unlink
SftpUnlink(p) == Trees(RmCode(p), Without(p))
\* gfal_sftp_rename: no session for the second URL, only its path is used.
SftpRename(p) ==
    UNION {Trees(RenameCode(p, m[2]), Renamed(p, m[2])) : m \in {n \in SftpMoves : n[1] = p}}
\* gfal_sftp_mkdir
SftpMkdir(p) == Trees(MkdirCode(p), With(p, "dir"))
\* gfal_sftp_rmdir, with a stat after a failure
SftpRmdir(p) == Trees(RmdirCode(p), Without(p))
\* gfal_sftp_symlink: the link counts as a file.
SftpSymlink(p) ==
    UNION {Trees(MkdirCode(m[2]), With(m[2], "file")) : m \in {n \in SftpMoves : n[1] = p}}
\* gfal_sftp_readlink
SftpReadlink(p) == {tree}
\* gfal_sftp_chmod
SftpChmod(p) == Trees(IF IsFile(p) THEN "OK" ELSE "EINVAL", With(p, "private"))

SftpEffects(op, p) ==
    CASE op = "stat"     -> SftpStat(p)
      [] op = "unlink"   -> SftpUnlink(p)
      [] op = "rename"   -> SftpRename(p)
      [] op = "mkdir"    -> SftpMkdir(p)
      [] op = "rmdir"    -> SftpRmdir(p)
      [] op = "symlink"  -> SftpSymlink(p)
      [] op = "readlink" -> SftpReadlink(p)
      [] op = "chmod"    -> SftpChmod(p)

\* A call that is over with its request
Operate ==
    /\ sftp.at = "operate" /\ sftp.op \notin {"open", "opendir"}
    /\ tree' \in SftpEffects(sftp.op, sftp.path)
    /\ stash' = Pushed(sftp.session)
    /\ sftp' = AtRest
    /\ UNCHANGED <<sftpMenu, alive, abandoned, born, home, held, requests, deleted, meddling>>

\* Mutant: the session of an open that failed is forgotten.
OpensForgets ==
    LET p == sftp.path IN
    /\ sftp.at = "operate" /\ sftp.op \in {"open", "opendir"}
    /\ sftp' = AtRest
    /\ \/ UNCHANGED <<stash, held>>
       \/ /\ IF sftp.op = "open" THEN IsFile(p) ELSE IsDir(p)
          /\ \E i \in Slots : held[i] = NoSession /\ held' = [held EXCEPT ![i] = sftp.session]
          /\ UNCHANGED stash
    /\ UNCHANGED <<sftpMenu, alive, abandoned, born, home, requests, deleted, server>>

\* gfal_sftp_open, gfal_sftp_opendir: the handle keeps the session.
Opens ==
    LET p == sftp.path IN
    /\ sftp.at = "operate" /\ sftp.op \in {"open", "opendir"}
    /\ sftp' = AtRest
    /\ \/ stash' = Pushed(sftp.session) /\ UNCHANGED held
       \/ /\ IF sftp.op = "open" THEN IsFile(p) ELSE IsDir(p)
          /\ \E i \in Slots : held[i] = NoSession /\ held' = [held EXCEPT ![i] = sftp.session]
          /\ UNCHANGED stash
    /\ UNCHANGED <<sftpMenu, alive, abandoned, born, home, requests, deleted, server>>

\* gfal_sftp_close, gfal_sftp_closedir
Closes(i) ==
    /\ sftp.at = "idle" /\ ~deleted
    /\ held[i] # NoSession
    /\ stash' = Pushed(held[i])
    /\ held' = [held EXCEPT ![i] = NoSession]
    /\ UNCHANGED <<sftpMenu, alive, abandoned, born, home, sftp, requests, deleted, server>>

\* gfal_plugin_sftp_delete with gfal_sftp_cache_destroy
SftpDelete ==
    /\ sftp.at = "idle" /\ ~deleted
    /\ deleted' = TRUE
    /\ alive' = alive \ UNION {Range(stash[s]) : s \in Servers}
    /\ stash' = [s \in Servers |-> <<>>]
    /\ UNCHANGED <<sftpMenu, abandoned, born, home, sftp, held, requests, server>>

SftpMeddle(p) == Meddle(p) /\ UNCHANGED sftpState

SftpNext ==
    \/ \E m \in sftpMenu : SftpCall(m[1], m[2], m[3])
    \/ ConnectNew \/ Reconnect \/ Reuse \/ Operate \/ Opens
    \/ \E i \in Slots : Closes(i)
    \/ SftpDelete
    \/ \E p \in Contested["sftp"] : SftpMeddle(p)

-----------------------------------------------------------------------------
(* Property.                                                               *)

\* A session that was set up is in one place at a time until it is destroyed:
\* once in the cache, under its own server, or with one open handle, or with the
\* call that is running, which goes to the same server.  One that was destroyed,
\* or whose set-up failed, is nowhere.  So the sessions of a context grow in
\* number only with the set-ups that fail (gfal_sftp_connection.c:248-273), of
\* which each may leave one that nobody has.
SessionInOnePlace ==
    LET handles(n) == {i \in Slots : held[i] = n}
        idle(n) == UNION {{<<s, i>> : i \in {j \in DOMAIN stash[s] : stash[s][j] = n}} :
                          s \in Servers}
        running(n) == {c \in {sftp} : c.at = "operate" /\ c.session = n}
    IN
    /\ \A n \in 1..MaxSessions :
        Cardinality(handles(n)) + Cardinality(idle(n)) + Cardinality(running(n))
            = IF n \in alive THEN 1 ELSE 0
    /\ alive \cap abandoned = {}
    /\ \A s \in Servers : \A i \in DOMAIN stash[s] : home[stash[s][i]] = s
    /\ sftp.at = "operate" => home[sftp.session] = sftp.server

-----------------------------------------------------------------------------
(* The inductive invariant of SessionInOnePlace.                           *)

ASSUME SftpAssumption ==
    /\ MaxSessions \in Nat
    /\ \A m \in SftpMenus : \A c \in m : c[3] \in Servers

SftpTypeOK ==
    /\ plugin = "sftp" => sftpMenu \in SftpMenus
    /\ stash \in [Servers -> Seq(1..MaxSessions)]
    /\ born \in 0..MaxSessions
    /\ alive \subseteq 1..born /\ abandoned \subseteq 1..born /\ alive \cap abandoned = {}
    /\ home \in [1..MaxSessions -> Servers \cup {"none"}]
    /\ held \in [Slots -> 0..MaxSessions]
    /\ sftp.at \in {"idle", "connect", "operate"}
    /\ sftp.at # "idle" =>
        /\ DOMAIN sftp = {"at", "op", "path", "server", "session"}
        /\ sftp.server \in Servers
        /\ sftp.session \in 0..MaxSessions

InStash(n) == \E s \in Servers : \E i \in DOMAIN stash[s] : stash[s][i] = n
IsHeld(n) == \E i \in Slots : held[i] = n
IsRunning(n) == sftp.at = "operate" /\ sftp.session = n

StashApart ==
    \A s \in Servers : \A i \in DOMAIN stash[s] :
        /\ stash[s][i] \in alive
        /\ home[stash[s][i]] = s
        /\ \A j \in DOMAIN stash[s] : stash[s][i] = stash[s][j] => i = j

HeldApart ==
    \A i \in Slots : held[i] # NoSession =>
        /\ held[i] \in alive
        /\ ~InStash(held[i])
        /\ \A j \in Slots : held[i] = held[j] => i = j

RunningApart ==
    sftp.at = "operate" =>
        /\ sftp.session \in alive
        /\ home[sftp.session] = sftp.server
        /\ ~InStash(sftp.session) /\ ~IsHeld(sftp.session)

NoneLost ==
    \A n \in alive : home[n] \in Servers /\ (InStash(n) \/ IsHeld(n) \/ IsRunning(n))

SftpInv == SftpTypeOK /\ StashApart /\ HeldApart /\ RunningApart /\ NoneLost
=============================================================================
