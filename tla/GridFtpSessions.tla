-------------------------- MODULE GridFtpSessions ---------------------------
(***************************************************************************)
(* The session cache of the GridFTP plugin: GridFTPFactory and             *)
(* GridFTPSessionHandler (src/plugins/gridftp/gridftpwrapper.cpp).         *)
(*                                                                         *)
(* A thread that works on a URL makes a GridFTPSessionHandler, which takes *)
(* a session out of the cache, or makes one, and logs in; its destructor   *)
(* puts the session back or deletes it.  The cache is protected by         *)
(* mux_cache.  The credentials come from the credential map of the         *)
(* context, which the application may change.  Which of the cached sessions that    *)
(* fit is found first is left open.                                        *)
(***************************************************************************)
EXTENDS Naturals, FiniteSets

CONSTANTS
    Threads,
    Sessions,      \* memory for GridFTPSession objects, used once each
    Urls,          \* each stands for the prefix it has in the credential map
    Host,          \* the host of each URL
    Creds,
    size_cache,    \* 400 in the code
    NoSession, NoThread, NoCred, NoUrl

ASSUME SetsOK ==
    /\ IsFiniteSet(Sessions)
    /\ NoSession \notin Sessions /\ NoThread \notin Threads
    /\ NoCred \notin Creds /\ NoUrl \notin Urls
\* A prefix that is just a host matches every URL on it, so none of these
\* falls back to the host.
ASSUME HostsApart == \A u \in Urls : Host[u] \notin Urls
ASSUME SizeCacheOK == size_cache \in Nat

VARIABLES
    cert, key,     \* the credential map, for certificates and for keys
    heap,          \* state of each session: "unused", "live", "deleted"
    cache,         \* session_cache: the sessions in it
    baseurl,       \* baseurl of each session
    cred,          \* credentials each session is authorised with
    mux,           \* holder of mux_cache
    session_reuse, \* the option, read at every release
    pc,
    url,           \* the URL each thread works on
    session,       \* the session it has
    remapped       \* history: URLs whose credentials were changed

vars == <<cert, key, remapped, heap, cache, baseurl, cred, mux, session_reuse, pc, url, session>>
mapVars == <<cert, key, remapped>>
sessionVars == <<baseurl, cred>>

Maps == [Urls -> Creds \cup {NoCred}]

Init ==
    /\ cert \in Maps /\ key \in Maps
    /\ remapped = {}
    /\ heap = [s \in Sessions |-> "unused"]
    /\ cache = {}
    /\ baseurl = [s \in Sessions |-> NoUrl]
    /\ cred = [s \in Sessions |-> NoCred]
    /\ mux = NoThread
    /\ session_reuse \in BOOLEAN
    /\ pc = [t \in Threads |-> "idle"]
    /\ url = [t \in Threads |-> NoUrl]
    /\ session = [t \in Threads |-> NoSession]

\* gfal_gridftp_get_credentials: the prefix the key was found for or, when
\* the map has no key for the URL, the host.
BaseUrl(u) == IF key[u] # NoCred THEN u ELSE Host[u]

-----------------------------------------------------------------------------
(* GridFTPFactory::get_session                                             *)

\* The cached sessions get_recycled_handle may pick: one for the base URL,
\* or any when there is none.
Recyclable(b) ==
    LET same == {s \in cache : baseurl[s] = b}
    IN  IF same # {} THEN same ELSE cache

\* A look-up that leaves the session in the cache.
TakeRecycledShared(t) ==
    /\ pc[t] = "get"
    /\ mux = NoThread
    /\ \E s \in Recyclable(BaseUrl(url[t])) : session' = [session EXCEPT ![t] = s]
    /\ pc' = [pc EXCEPT ![t] = "authorise"]
    /\ UNCHANGED <<mapVars, heap, cache, sessionVars, mux, session_reuse, url>>

\* get_recycled_handle, under mux_cache.
TakeRecycled(t) ==
    /\ pc[t] = "get"
    /\ mux = NoThread
    /\ \E s \in Recyclable(BaseUrl(url[t])) :
          /\ session' = [session EXCEPT ![t] = s]
          /\ cache' = cache \ {s}
    /\ pc' = [pc EXCEPT ![t] = "authorise"]
    /\ UNCHANGED <<mapVars, heap, sessionVars, mux, session_reuse, url>>

\* The cache is empty: get_new_handle.
MakeSession(t) ==
    /\ pc[t] = "get"
    /\ mux = NoThread
    /\ cache = {}
    /\ \E s \in Sessions :
          /\ heap[s] = "unused"
          /\ heap' = [heap EXCEPT ![s] = "live"]
          /\ session' = [session EXCEPT ![t] = s]
    /\ pc' = [pc EXCEPT ![t] = "authorise"]
    /\ UNCHANGED <<mapVars, cache, sessionVars, mux, session_reuse, url>>

\* gfal_globus_set_credentials: without a certificate the session keeps the
\* credentials it has.
WithCert(s, u) == IF cert[u] # NoCred THEN cert[u] ELSE cred[s]

\* A recycled session that is given the new base URL and nothing else.
AuthoriseForgotten(t) ==
    LET s == session[t] IN
    /\ pc[t] = "authorise"
    /\ baseurl' = [baseurl EXCEPT ![s] = BaseUrl(url[t])]
    /\ cred' = [cred EXCEPT ![s] = IF @ = NoCred THEN WithCert(s, url[t]) ELSE @]
    /\ pc' = [pc EXCEPT ![t] = "login"]
    /\ UNCHANGED <<mapVars, heap, cache, mux, session_reuse, url, session>>

\* A session that is new, or was for another base URL, is given its
\* credentials; one that was for this base URL is left as it is.
Authorise(t) ==
    LET s == session[t] IN
    /\ pc[t] = "authorise"
    /\ IF baseurl[s] # BaseUrl(url[t])
       THEN /\ cred' = [cred EXCEPT ![s] = WithCert(s, url[t])]
            /\ baseurl' = [baseurl EXCEPT ![s] = BaseUrl(url[t])]
       ELSE UNCHANGED sessionVars
    /\ pc' = [pc EXCEPT ![t] = "login"]
    /\ UNCHANGED <<mapVars, heap, cache, mux, session_reuse, url, session>>

-----------------------------------------------------------------------------
(* GridFTPSessionHandler                                                   *)

\* A plugin operation on URL u begins.
Begin(t, u) ==
    /\ pc[t] = "idle"
    /\ url' = [url EXCEPT ![t] = u]
    /\ pc' = [pc EXCEPT ![t] = "get"]
    /\ UNCHANGED <<mapVars, heap, cache, sessionVars, mux, session_reuse, session>>

\* globus_ftp_client_feat succeeds.
Login(t) ==
    /\ pc[t] = "login"
    /\ pc' = [pc EXCEPT ![t] = "use"]
    /\ UNCHANGED <<mapVars, heap, cache, sessionVars, mux, session_reuse, url, session>>

\* It fails, or gfal_globus_set_credentials does: the exception leaves the
\* constructor, so no destructor releases the session.
LoginFails(t) ==
    /\ pc[t] \in {"authorise", "login"}
    /\ pc' = [pc EXCEPT ![t] = "idle"]
    /\ url' = [url EXCEPT ![t] = NoUrl]
    /\ session' = [session EXCEPT ![t] = NoSession]
    /\ UNCHANGED <<mapVars, heap, cache, sessionVars, mux, session_reuse>>

\* The operation on the URL is over: ~GridFTPSessionHandler.
Finish(t) ==
    /\ pc[t] = "use"
    /\ pc' = [pc EXCEPT ![t] = "release"]
    /\ UNCHANGED <<mapVars, heap, cache, sessionVars, mux, session_reuse, url, session>>

-----------------------------------------------------------------------------
(* GridFTPFactory::release_session                                         *)

Released(t) ==
    /\ pc' = [pc EXCEPT ![t] = "idle"]
    /\ url' = [url EXCEPT ![t] = NoUrl]
    /\ session' = [session EXCEPT ![t] = NoSession]

\* Sessions are not re-used: delete.
DeleteSession(t) ==
    /\ pc[t] = "release"
    /\ ~session_reuse
    /\ heap' = [heap EXCEPT ![session[t]] = "deleted"]
    /\ Released(t)
    /\ UNCHANGED <<mapVars, cache, sessionVars, mux, session_reuse>>

\* recycle_session, under mux_cache.
Recycle(t) ==
    /\ pc[t] = "release"
    /\ session_reuse
    /\ mux = NoThread
    /\ Cardinality(cache) <= size_cache
    /\ cache' = cache \cup {session[t]}
    /\ Released(t)
    /\ UNCHANGED <<mapVars, heap, sessionVars, mux, session_reuse>>

\* recycle_session finds the cache too large and calls clear_cache with
\* mux_cache held.  The first thing clear_cache does is to take mux_cache,
\* which is not recursive: the thread stays in "clear".
RecycleFull(t) ==
    /\ pc[t] = "release"
    /\ session_reuse
    /\ mux = NoThread
    /\ Cardinality(cache) > size_cache
    /\ mux' = t
    /\ pc' = [pc EXCEPT ![t] = "clear"]
    /\ UNCHANGED <<mapVars, heap, cache, sessionVars, session_reuse, url, session>>

-----------------------------------------------------------------------------
(* The application                                                         *)

\* gfal2_cred_set for the certificate and the key of a URL.
SetCredential(u) ==
    /\ \E c \in Creds :
          /\ cert' = [cert EXCEPT ![u] = c]
          /\ key' = [key EXCEPT ![u] = c]
    /\ remapped' = remapped \cup {u}
    /\ UNCHANGED <<heap, cache, sessionVars, mux, session_reuse, pc, url, session>>

\* gfal2_set_opt_boolean on SESSION_REUSE, as the SRM plugin does.
SetReuse ==
    /\ session_reuse' = ~session_reuse
    /\ UNCHANGED <<mapVars, heap, cache, sessionVars, mux, pc, url, session>>

\* The context is freed, when no operation runs: ~GridFTPFactory calls
\* clear_cache.
DestroyFactory ==
    /\ \A t \in Threads : pc[t] = "idle"
    /\ heap' = [s \in Sessions |-> IF s \in cache THEN "deleted" ELSE heap[s]]
    /\ cache' = {}
    /\ pc' = [t \in Threads |-> "closed"]
    /\ UNCHANGED <<mapVars, sessionVars, mux, session_reuse, url, session>>

-----------------------------------------------------------------------------
ThreadStep(t) ==
    \/ \E u \in Urls : Begin(t, u)
    \/ TakeRecycled(t) \/ MakeSession(t) \/ Authorise(t)
    \/ Login(t) \/ LoginFails(t) \/ Finish(t)
    \/ DeleteSession(t) \/ Recycle(t) \/ RecycleFull(t)

Next ==
    \/ \E t \in Threads : ThreadStep(t)
    \/ \E u \in Urls : SetCredential(u)
    \/ SetReuse
    \/ DestroyFactory

Spec == Init /\ [][Next]_vars

\* A thread in release_session runs and gets mux_cache in the end.
FairSpec ==
    /\ Spec
    /\ \A t \in Threads :
          WF_vars(DeleteSession(t) \/ Recycle(t) \/ RecycleFull(t))

-----------------------------------------------------------------------------
(* Properties                                                              *)

HasSession == {"authorise", "login", "use", "release", "clear"}

\* Every variable has its type.
TypeOK ==
    /\ cert \in Maps /\ key \in Maps
    /\ remapped \in SUBSET Urls
    /\ heap \in [Sessions -> {"unused", "live", "deleted"}]
    /\ cache \in SUBSET Sessions
    /\ baseurl \in [Sessions -> Urls \cup {NoUrl} \cup {Host[u] : u \in Urls}]
    /\ cred \in [Sessions -> Creds \cup {NoCred}]
    /\ mux \in Threads \cup {NoThread}
    /\ session_reuse \in BOOLEAN
    /\ pc \in [Threads -> {"idle", "get", "closed"} \cup HasSession]
    /\ url \in [Threads -> Urls \cup {NoUrl}]
    /\ session \in [Threads -> Sessions \cup {NoSession}]

\* A session has one user: two threads never talk on the same connection,
\* and nobody talks on one that waits in the cache.
SessionExclusive ==
    \A t \in Threads : session[t] # NoSession =>
        /\ session[t] \notin cache
        /\ \A o \in Threads : session[o] = session[t] => o = t

\* Neither a thread nor the cache holds a session that has been deleted.
NoDeletedSession ==
    /\ \A t \in Threads : session[t] # NoSession => heap[session[t]] = "live"
    /\ \A s \in cache : heap[s] = "live"

\* A session is owned: by one thread or by the cache, and until it is deleted.
SessionOwned == SessionExclusive /\ NoDeletedSession

\* The cache never holds more than one session above size_cache.
CacheBounded == Cardinality(cache) <= size_cache + 1

\* "The credential to use for this prefix": a session that is taken over for
\* a URL logs in with the credentials the map has for that URL, whatever it
\* was used for before.  Two cases are left out because the code does not
\* promise it there: a URL with no certificate or key of its own (the session
\* keeps the credential of its last user) and a URL whose credentials the
\* application has changed (a cached session keeps the old ones).
LoginWithOwnCredential ==
    [][\A t \in Threads :
          /\ pc[t] = "authorise" /\ pc'[t] = "login"
          /\ cert[url[t]] # NoCred /\ key[url[t]] # NoCred
          /\ url[t] \notin remapped
          => cred'[session[t]] = cert[url[t]]]_vars

\* "Release the session, and close it if should not be reused": release_session
\* returns.
ReleaseReturns ==
    \A t \in Threads : pc[t] \in {"release", "clear"} ~> pc[t] = "idle"

\* What a thread has agrees with where it is.
SessionMatchesPc ==
    \A t \in Threads :
        /\ pc[t] \in HasSession <=> session[t] # NoSession
        /\ pc[t] \in {"idle", "closed"} <=> url[t] = NoUrl

\* A session whose base URL is a URL was authorised with the certificate that
\* the map had for it, and still has if nobody changed it.
CredsCurrent ==
    \A s \in Sessions, u \in Urls :
        baseurl[s] = u /\ u \notin remapped /\ cert[u] # NoCred => cred[s] = cert[u]

\* The inductive invariant.
IInv ==
    /\ TypeOK
    /\ SessionMatchesPc
    /\ SessionExclusive
    /\ NoDeletedSession
    /\ CacheBounded
    /\ CredsCurrent
=============================================================================
