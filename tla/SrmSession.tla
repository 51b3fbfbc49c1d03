----------------------------- MODULE SrmSession -----------------------------
(***************************************************************************)
(* What the calls of the SRM plugin share (src/plugins/srm): the one SRM   *)
(* context with its recursive lock, taken and made by                      *)
(* gfal_srm_ifce_easy_context and given back by                            *)
(* gfal_srm_ifce_easy_context_release, and the cache of stat answers       *)
(* (src/utils/gsimplecache).                                               *)
(*                                                                         *)
(* A call is a list of sections, each of which takes the context, sends    *)
(* its requests and gives the context back.                                *)
(***************************************************************************)
EXTENDS NsState

CONSTANTS
    Threads,
    Urls,        \* the names the application uses: SURLs, also full ones (?SFN=)
    PathOf,      \* what a URL names; a short SURL is the path itself
    FormOf,      \* of a URL: "short", "full" (it has its endpoint), "bad" (it does not parse)
    HostOf,      \* of a URL: its host
    Bdii,        \* of a host: the lists of <<type, endpoint>> the BDII may answer; {} if disabled
    Default,     \* of a host: the endpoint by convention
    Mapped,      \* the URLs for which a credential of their own is set
    DefaultCred, \* that of all other URLs; "": none is set
    Menus,       \* of a thread: the <<call, URL>> it may make; one of these is picked
    MaxCalls,    \* bound: calls of a thread
    CacheSize    \* entries the cache has room for

VARIABLES
    menu,
    lock,     \* srm_context_mutex: its owner and how often it holds it
    ctx,      \* srm_context: the endpoint and credential it was made with
    mark,     \* endpoint, x509_ucert: what the context is believed to be for
    call,     \* of a thread: the section it is in and those that follow
    calls,    \* how many calls it has made
    listing,  \* of a thread: its open directory
    cache,    \* of a URL: the answer kept under it and how often it may be used
    leaked,   \* ghost: how often a thread left a section without a release
    excused,  \* ghost: cached URLs that the plugin cannot know to be out of date
    changed   \* ghost: threads whose open directory has got or lost something

session == <<lock, ctx, mark, call, leaked>>
srm == <<menu, session, calls, listing, cache, excused, changed>>

Nobody == "nobody"
NoContext == [ep |-> "", cred |-> ""]
NoListing == [open |-> FALSE]
NoEntry == [kind |-> "none", uses |-> 0]
Idle == [at |-> "idle"]

SessionInit ==
    /\ menu \in PickFor("srm", Menus)
    /\ lock = [owner |-> Nobody, depth |-> 0]
    /\ ctx = NoContext
    /\ mark = NoContext
    /\ call = [t \in Threads |-> Idle]
    /\ calls = [t \in Threads |-> 0]
    /\ listing = [t \in Threads |-> NoListing]
    /\ cache = [u \in Urls |-> NoEntry]
    /\ leaked = [t \in Threads |-> 0]
    /\ excused = {}
    /\ changed = {}

-----------------------------------------------------------------------------
(* The stat cache.  It has a lock of its own.                              *)

Cached(u) == cache[u].uses > 0
InUse == {u \in Urls : Cached(u)}

\* gsimplecache_take_one_kstr
Take(u) ==
    LET e == cache[u]
    IN  [cache EXCEPT ![u] = IF e.uses = 1 THEN NoEntry ELSE [e EXCEPT !.uses = @ - 1]]

\* gsimplecache_add_item_kstr: an entry that is there keeps its answer; a full
\* cache is emptied.
Add(u, kind) ==
    IF Cached(u) THEN [cache EXCEPT ![u].uses = @ + 1]
    ELSE [v \in Urls |-> IF v = u THEN [kind |-> kind, uses |-> 2]
                         ELSE IF Cardinality(InUse) >= CacheSize THEN NoEntry
                         ELSE cache[v]]

\* gfal_srm_cache_stat_remove
Purge(u) == [cache EXCEPT ![u] = NoEntry]

\* gfal_srm_rmdirG has forgotten u and not yet removed it.
Removing(u) ==
    \E t \in Threads : call[t].at = "change" /\ call[t].section = "rmdir" /\ call[t].url = u

\* gfal_srm_cache_stat_add under the name u, of an answer that may be older
\* than a change of the tree; one read from a directory that has lost its lock
\* may come in the middle of a removal.
CacheAdd(u, kind) ==
    /\ cache' = Add(u, kind)
    /\ excused' = (excused \cup (IF kind # tree[PathOf[u]] \/ Removing(u) THEN {u} ELSE {}))
                     \cap {v \in Urls : cache'[v].uses > 0}

CacheTake(u) ==
    /\ cache' = Take(u)
    /\ excused' = {v \in excused : cache'[v].uses > 0}

-----------------------------------------------------------------------------
(* The context.                                                            *)

\* gfal_select_best_protocol_and_endpointG: the list is gone through once, for
\* the preferred version; "none" if it is not there.
SelectBest(list) ==
    LET v2 == SelectSeq(list, LAMBDA e : e[1] = "srm_v2")
    IN  IF v2 = <<>> THEN "none" ELSE Head(v2)[2]

\* gfal_get_endpoint_and_setype_from_bdiiG, which may also fail
FromBdii(u) == {"none"} \cup {SelectBest(list) : list \in Bdii[HostOf[u]]}

\* gfal_srm_guess_service_endpoint, gfal_get_fullendpointG
GuessEndpoint(u) == Default[HostOf[u]]
FullEndpoint(u) == Default[HostOf[u]]

\* gfal_srm_determine_endpoint: what it may give for a URL
DetermineEndpoint(u) ==
    CASE FormOf[u] = "full"  -> {FullEndpoint(u)}
      [] FormOf[u] = "short" -> {IF e = "none" THEN GuessEndpoint(u) ELSE e : e \in FromBdii(u)}
      [] FormOf[u] = "bad"   -> {}

\* gfal2_cred_get
CredOf(u) == IF u \in Mapped THEN u ELSE DefaultCred

\* is_same_context: for a mapped URL the prefix of its credential is compared
\* with the endpoint, and differs.
IsSameContext(u, ep) ==
    /\ u \notin Mapped
    /\ mark.ep = ep
    /\ mark.cred = CredOf(u)

\* gfal_srm_ifce_context_setup
NewContext(u, ep) == [ep |-> ep, cred |-> CredOf(u)]

Free(t) == lock.owner \in {Nobody, t}
Locked(t) == [owner |-> t, depth |-> lock.depth + 1]

\* Mutant: whoever calls it, the lock is given back.
UnlockedByAnybody(t) ==
    IF lock.depth <= 1 THEN [owner |-> Nobody, depth |-> 0]
    ELSE [lock EXCEPT !.depth = @ - 1]

\* g_static_rec_mutex_unlock: nothing happens to a lock somebody else has.
Unlocked(t) ==
    IF lock.owner # t THEN lock
    ELSE IF lock.depth = 1 THEN [owner |-> Nobody, depth |-> 0]
    ELSE [lock EXCEPT !.depth = @ - 1]

\* The requests of a section before and after which nothing is decided.
FirstRequest(section) ==
    IF section \in {"stat", "status", "rmdir", "mkdir", "mkdirp", "sum", "opendir"} THEN "ls"
    ELSE IF section \in {"chmod", "unlink", "rename", "put", "putdone"} THEN "change"
    ELSE "ask"

\* gfal_srm_ifce_easy_context: any other context is freed, also one that an open
\* directory refers to.  The mark of a credential is never taken off.
GetContext(t) ==
    LET u == call[t].url IN
    /\ call[t].at = "context"
    /\ Free(t)
    /\ lock' = Locked(t)
    /\ \E ep \in DetermineEndpoint(u) :
        LET same == ctx # NoContext /\ IsSameContext(u, ep) IN
        /\ mark' = [ep |-> ep, cred |-> IF CredOf(u) = "" THEN mark.cred ELSE CredOf(u)]
        /\ ctx' = IF same THEN ctx ELSE NewContext(u, ep)
        /\ call' = [call EXCEPT ![t].at = FirstRequest(call[t].section), ![t].ep = ep]
        /\ listing' = [s \in Threads |->
                        IF listing[s].open /\ ~same
                        THEN [listing[s] EXCEPT !.live = FALSE, !.exposed = @ \/ s = t]
                        ELSE listing[s]]
    /\ UNCHANGED <<menu, calls, cache, leaked, excused>>

\* Sections of another plugin, on the TURL.
Inner == {"open get", "open put", "inner close"}

\* The next section, or the end of the call.
Follow(t, sections) ==
    IF sections = <<>> THEN Idle
    ELSE [call[t] EXCEPT !.section = Head(sections), !.rest = Tail(sections),
                         !.at = IF Head(sections) \in Inner THEN "inner" ELSE "context"]

\* gfal_srm_ifce_easy_context_release, and the sections that follow
Release(t, sections) ==
    /\ lock' = Unlocked(t)
    /\ call' = [call EXCEPT ![t] = Follow(t, sections)]
    /\ UNCHANGED <<ctx, mark, leaked>>

\* An early return past the release.
Leak(t) ==
    /\ call' = [call EXCEPT ![t] = Idle]
    /\ leaked' = [leaked EXCEPT ![t] = @ + 1]
    /\ UNCHANGED <<lock, ctx, mark>>

\* gfal_srm_determine_endpoint fails: nothing was locked.  The section gives
\* the context back all the same, unless it is one of three that do not; an
\* open directory of the same thread loses the lock.
EndpointFails(t) ==
    LET section == call[t].section IN
    /\ call[t].at = "context"
    /\ DetermineEndpoint(call[t].url) = {}
    /\ IF section \in {"opendir", "type", "castor"}
       THEN /\ call' = [call EXCEPT ![t] = Follow(t, IF section = "castor" THEN call[t].rest ELSE <<>>)]
            /\ UNCHANGED <<lock, ctx, mark, leaked, listing>>
       ELSE /\ Release(t, <<>>)
            /\ listing' = IF listing[t].open
                          THEN [listing EXCEPT ![t].exposed = TRUE] ELSE listing
    /\ UNCHANGED <<menu, calls, cache, excused>>
=============================================================================
