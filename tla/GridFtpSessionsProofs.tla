------------------------ MODULE GridFtpSessionsProofs -----------------------
(***************************************************************************)
(* Proofs about the session cache of the GridFTP plugin, for any number of *)
(* threads, sessions, URLs and credentials and any size of the cache.      *)
(***************************************************************************)
EXTENDS GridFtpSessions, FiniteSetTheorems, TLAPS

\* The initial states satisfy the invariant: no session exists yet.
LEMMA InitIInv == Init => IInv
<1> SUFFICES ASSUME Init PROVE IInv
  OBVIOUS
<1>1. TypeOK
  BY SetsOK DEF Init, TypeOK, HasSession
<1>2. SessionMatchesPc /\ SessionExclusive /\ NoDeletedSession
  BY DEF Init, SessionMatchesPc, SessionExclusive, NoDeletedSession, HasSession
<1>3. CacheBounded
  BY SizeCacheOK, FS_EmptySet DEF Init, CacheBounded
<1>4. CredsCurrent
  BY SetsOK DEF Init, CredsCurrent
<1> QED
  BY <1>1, <1>2, <1>3, <1>4 DEF IInv

\* The base URL of a session is a URL only if it is the URL asked for.
LEMMA BaseUrlIsOwn ==
    ASSUME NEW u \in Urls, NEW v \in Urls, BaseUrl(u) = v
    PROVE  v = u
BY HostsApart DEF BaseUrl

\* Taking a session out of the cache or adding one keeps the bound: one is
\* added only when the cache is no larger than size_cache.
LEMMA CacheSize ==
    ASSUME TypeOK, CacheBounded
    PROVE  /\ IsFiniteSet(cache)
           /\ Cardinality(cache) \in Nat
           /\ \A s \in Sessions :
                 /\ Cardinality(cache \ {s}) <= size_cache + 1
                 /\ Cardinality(cache) <= size_cache
                       => Cardinality(cache \cup {s}) <= size_cache + 1
<1>1. IsFiniteSet(cache)
  BY SetsOK, FS_Subset DEF TypeOK
<1>2. Cardinality(cache) \in Nat
  BY <1>1, FS_CardinalityType
<1>3. ASSUME NEW s \in Sessions
      PROVE  Cardinality(cache \ {s}) <= size_cache + 1
  <2>1. Cardinality(cache \ {s})
           = IF s \in cache THEN Cardinality(cache) - 1 ELSE Cardinality(cache)
    BY <1>1, FS_RemoveElement
  <2> QED
    BY <1>2, <2>1, SizeCacheOK DEF CacheBounded
<1>4. ASSUME NEW s \in Sessions, Cardinality(cache) <= size_cache
      PROVE  Cardinality(cache \cup {s}) <= size_cache + 1
  BY <1>1, <1>2, <1>4, FS_AddElement, SizeCacheOK
<1> QED
  BY <1>1, <1>2, <1>3, <1>4

\* Every step preserves the invariant.
LEMMA StepIInv == IInv /\ [Next]_vars => IInv'
<1> SUFFICES ASSUME IInv, [Next]_vars PROVE IInv'
  OBVIOUS
<1> USE DEF IInv
<1>0. TypeOK /\ CacheBounded
  OBVIOUS
<1>1. ASSUME NEW t \in Threads, NEW u \in Urls, Begin(t, u) PROVE IInv'
  <2>1. TypeOK'
    BY <1>1 DEF Begin, TypeOK, mapVars, sessionVars, HasSession
  <2>2. SessionMatchesPc' /\ SessionExclusive' /\ NoDeletedSession'
    BY <1>1, SetsOK DEF Begin, TypeOK, mapVars, sessionVars, HasSession, SessionMatchesPc,
       SessionExclusive, NoDeletedSession
  <2>3. CacheBounded' /\ CredsCurrent'
    BY <1>1 DEF Begin, mapVars, sessionVars, CacheBounded, CredsCurrent
  <2> QED BY <2>1, <2>2, <2>3
<1>2. ASSUME NEW t \in Threads, TakeRecycled(t) PROVE IInv'
  <2>0. PICK s \in cache : /\ session' = [session EXCEPT ![t] = s]
                           /\ cache' = cache \ {s}
    BY <1>2 DEF TakeRecycled, Recyclable
  <2>1. TypeOK'
    BY <1>2, <2>0 DEF TakeRecycled, TypeOK, mapVars, sessionVars, HasSession
  <2>2. SessionMatchesPc'
    BY <1>2, <2>0, SetsOK DEF TakeRecycled, TypeOK, HasSession, SessionMatchesPc
  <2>3. SessionExclusive' /\ NoDeletedSession'
    BY <1>2, <2>0, SetsOK DEF TakeRecycled, TypeOK, SessionExclusive, NoDeletedSession
  <2>4. CacheBounded'
    BY <1>0, <2>0, CacheSize DEF TypeOK, CacheBounded
  <2>5. CredsCurrent'
    BY <1>2 DEF TakeRecycled, mapVars, sessionVars, CredsCurrent
  <2> QED BY <2>1, <2>2, <2>3, <2>4, <2>5
<1>3. ASSUME NEW t \in Threads, MakeSession(t) PROVE IInv'
  <2>0. PICK s \in Sessions : /\ heap[s] = "unused"
                              /\ heap' = [heap EXCEPT ![s] = "live"]
                              /\ session' = [session EXCEPT ![t] = s]
    BY <1>3 DEF MakeSession
  <2>1. TypeOK'
    BY <1>3, <2>0 DEF MakeSession, TypeOK, mapVars, sessionVars, HasSession
  <2>2. SessionMatchesPc'
    BY <1>3, <2>0, SetsOK DEF MakeSession, TypeOK, HasSession, SessionMatchesPc
  <2>3. SessionExclusive' /\ NoDeletedSession'
    BY <1>3, <2>0, SetsOK DEF MakeSession, TypeOK, SessionExclusive, NoDeletedSession
  <2>4. CacheBounded' /\ CredsCurrent'
    BY <1>3 DEF MakeSession, mapVars, sessionVars, CacheBounded, CredsCurrent
  <2> QED BY <2>1, <2>2, <2>3, <2>4
<1>4. ASSUME NEW t \in Threads, Authorise(t) PROVE IInv'
  <2> DEFINE s == session[t]
  <2>0. s \in Sessions /\ url[t] \in Urls
    BY <1>4, SetsOK DEF Authorise, TypeOK, HasSession, SessionMatchesPc
  <2>1. TypeOK'
    <3>1. BaseUrl(url[t]) \in Urls \cup {Host[u] : u \in Urls}
      BY <2>0 DEF BaseUrl
    <3>2. WithCert(s, url[t]) \in Creds \cup {NoCred}
      BY <2>0 DEF WithCert, TypeOK, Maps
    <3> QED
      BY <1>4, <2>0, <3>1, <3>2
      DEF Authorise, TypeOK, mapVars, sessionVars, HasSession
  <2>2. SessionMatchesPc'
    BY <1>4 DEF Authorise, TypeOK, HasSession, SessionMatchesPc
  <2>3. SessionExclusive' /\ NoDeletedSession' /\ CacheBounded'
    BY <1>4 DEF Authorise, SessionExclusive, NoDeletedSession, CacheBounded
  <2>4. CredsCurrent'
    <3> SUFFICES ASSUME NEW x \in Sessions, NEW v \in Urls, baseurl'[x] = v,
                        v \notin remapped, cert[v] # NoCred
                 PROVE  cred'[x] = cert[v]
      BY <1>4 DEF Authorise, mapVars, CredsCurrent
    <3>1. CASE baseurl[s] # BaseUrl(url[t]) /\ x = s
      <4>1. v = url[t]
        BY <1>4, <2>0, <3>1, BaseUrlIsOwn DEF Authorise, TypeOK
      <4> QED
        BY <1>4, <2>0, <3>1, <4>1 DEF Authorise, TypeOK, WithCert
    <3>2. CASE ~(baseurl[s] # BaseUrl(url[t]) /\ x = s)
      BY <1>4, <2>0, <3>2 DEF Authorise, TypeOK, sessionVars, CredsCurrent
    <3> QED BY <3>1, <3>2
  <2> QED BY <2>1, <2>2, <2>3, <2>4
<1>5. ASSUME NEW t \in Threads, Login(t) \/ Finish(t) PROVE IInv'
  <2>1. TypeOK'
    BY <1>5 DEF Login, Finish, TypeOK, mapVars, sessionVars, HasSession
  <2>2. SessionMatchesPc'
    BY <1>5 DEF Login, Finish, TypeOK, HasSession, SessionMatchesPc
  <2>3. SessionExclusive' /\ NoDeletedSession' /\ CacheBounded' /\ CredsCurrent'
    BY <1>5 DEF Login, Finish, mapVars, sessionVars, SessionExclusive,
       NoDeletedSession, CacheBounded, CredsCurrent
  <2> QED BY <2>1, <2>2, <2>3
<1>6. ASSUME NEW t \in Threads, LoginFails(t) PROVE IInv'
  <2>1. TypeOK'
    BY <1>6 DEF LoginFails, TypeOK, mapVars, sessionVars, HasSession
  <2>2. SessionMatchesPc'
    BY <1>6 DEF LoginFails, TypeOK, HasSession, SessionMatchesPc
  <2>3. SessionExclusive' /\ NoDeletedSession'
    BY <1>6 DEF LoginFails, TypeOK, SessionExclusive, NoDeletedSession
  <2>4. CacheBounded' /\ CredsCurrent'
    BY <1>6 DEF LoginFails, mapVars, sessionVars, CacheBounded, CredsCurrent
  <2> QED BY <2>1, <2>2, <2>3, <2>4
<1>7. ASSUME NEW t \in Threads, DeleteSession(t) PROVE IInv'
  <2>0. session[t] \in Sessions /\ session[t] # NoSession
    BY <1>7, SetsOK DEF DeleteSession, TypeOK, HasSession, SessionMatchesPc
  <2>1. TypeOK'
    BY <1>7, <2>0 DEF DeleteSession, Released, TypeOK, mapVars, sessionVars, HasSession
  <2>2. SessionMatchesPc'
    BY <1>7 DEF DeleteSession, Released, TypeOK, HasSession, SessionMatchesPc
  <2>3. SessionExclusive'
    BY <1>7, <2>0 DEF DeleteSession, Released, TypeOK, SessionExclusive
  <2>4. NoDeletedSession'
    <3>1. session[t] \notin cache
      BY <2>0 DEF SessionExclusive
    <3>2. \A o \in Threads \ {t} : session[o] # session[t]
      BY <2>0 DEF SessionExclusive
    <3>3. session' = [session EXCEPT ![t] = NoSession] /\ cache' = cache
      BY <1>7 DEF DeleteSession, Released
    <3> QED
      BY <1>7, <2>0, <3>1, <3>2, <3>3 DEF DeleteSession, TypeOK, NoDeletedSession
  <2>5. CacheBounded' /\ CredsCurrent'
    BY <1>7 DEF DeleteSession, mapVars, sessionVars, CacheBounded, CredsCurrent
  <2> QED BY <2>1, <2>2, <2>3, <2>4, <2>5
<1>8. ASSUME NEW t \in Threads, Recycle(t) PROVE IInv'
  <2>0. session[t] \in Sessions /\ session[t] # NoSession
    BY <1>8, SetsOK DEF Recycle, TypeOK, HasSession, SessionMatchesPc
  <2>1. TypeOK'
    BY <1>8, <2>0 DEF Recycle, Released, TypeOK, mapVars, sessionVars, HasSession
  <2>2. SessionMatchesPc'
    BY <1>8 DEF Recycle, Released, TypeOK, HasSession, SessionMatchesPc
  <2>3. SessionExclusive' /\ NoDeletedSession'
    BY <1>8, <2>0 DEF Recycle, Released, TypeOK, SessionExclusive, NoDeletedSession
  <2>4. CacheBounded'
    BY <1>0, <1>8, <2>0, CacheSize DEF Recycle, CacheBounded
  <2>5. CredsCurrent'
    BY <1>8 DEF Recycle, mapVars, sessionVars, CredsCurrent
  <2> QED BY <2>1, <2>2, <2>3, <2>4, <2>5
<1>9. ASSUME NEW t \in Threads, RecycleFull(t) PROVE IInv'
  <2>1. TypeOK'
    BY <1>9 DEF RecycleFull, TypeOK, mapVars, sessionVars, HasSession
  <2>2. SessionMatchesPc'
    BY <1>9 DEF RecycleFull, TypeOK, HasSession, SessionMatchesPc
  <2>3. SessionExclusive' /\ NoDeletedSession' /\ CacheBounded' /\ CredsCurrent'
    BY <1>9 DEF RecycleFull, mapVars, sessionVars, SessionExclusive,
       NoDeletedSession, CacheBounded, CredsCurrent
  <2> QED BY <2>1, <2>2, <2>3
<1>10. ASSUME NEW u \in Urls, SetCredential(u) PROVE IInv'
  <2>1. TypeOK'
    BY <1>10 DEF SetCredential, TypeOK, Maps, sessionVars
  <2>2. SessionMatchesPc' /\ SessionExclusive' /\ NoDeletedSession' /\ CacheBounded'
    BY <1>10 DEF SetCredential, SessionMatchesPc, SessionExclusive,
       NoDeletedSession, CacheBounded
  <2>3. CredsCurrent'
    BY <1>10 DEF SetCredential, TypeOK, Maps, sessionVars, CredsCurrent
  <2> QED BY <2>1, <2>2, <2>3
<1>11. ASSUME SetReuse PROVE IInv'
  BY <1>11 DEF SetReuse, mapVars, sessionVars, TypeOK, SessionMatchesPc,
     SessionExclusive, NoDeletedSession, CacheBounded, CredsCurrent
<1>12. ASSUME DestroyFactory PROVE IInv'
  <2>1. TypeOK'
    BY <1>12 DEF DestroyFactory, TypeOK, mapVars, sessionVars
  <2>2. \A t \in Threads : session[t] = NoSession
    BY <1>12 DEF DestroyFactory, SessionMatchesPc, HasSession
  <2>3. SessionMatchesPc' /\ SessionExclusive' /\ NoDeletedSession'
    BY <1>12, <2>2 DEF DestroyFactory, SessionMatchesPc, SessionExclusive,
       NoDeletedSession, HasSession
  <2>4. CacheBounded'
    BY <1>12, SizeCacheOK, FS_EmptySet DEF DestroyFactory, CacheBounded
  <2>5. CredsCurrent'
    BY <1>12 DEF DestroyFactory, mapVars, sessionVars, CredsCurrent
  <2> QED BY <2>1, <2>3, <2>4, <2>5
<1>13. CASE UNCHANGED vars
  BY <1>13 DEF vars, TypeOK, SessionMatchesPc, SessionExclusive,
     NoDeletedSession, CacheBounded, CredsCurrent
<1> QED
  BY <1>1, <1>2, <1>3, <1>4, <1>5, <1>6, <1>7, <1>8, <1>9, <1>10, <1>11, <1>12, <1>13
  DEF Next, ThreadStep

\* The invariant holds in every reachable state.
THEOREM InvariantHolds == Spec => []IInv
BY InitIInv, StepIInv, PTL DEF Spec

\* A session has one user: GridFTPFactory never hands a session to two
\* threads, nor one that is in its cache; and no session is used, or cached,
\* after release_session or clear_cache has deleted it.
THEOREM OneOwnerPerSession == Spec => []SessionOwned
<1>1. IInv => SessionOwned
  BY DEF IInv, SessionOwned
<1>2. QED
  BY InvariantHolds, <1>1, PTL

\* Every login is made with the certificate the map has for the URL, if it has
\* one and it was not changed: what get_session skips for a session with the
\* same base URL is not needed.
THEOREM OwnCredentialUsed == Spec => LoginWithOwnCredential
<1> DEFINE A == \A t \in Threads :
                   /\ pc[t] = "authorise" /\ pc'[t] = "login"
                   /\ cert[url[t]] # NoCred /\ key[url[t]] # NoCred
                   /\ url[t] \notin remapped
                   => cred'[session[t]] = cert[url[t]]
<1>1. IInv /\ [Next]_vars => [A]_vars
  <2> SUFFICES ASSUME IInv, Next, NEW t \in Threads,
                      pc[t] = "authorise", pc'[t] = "login",
                      cert[url[t]] # NoCred, key[url[t]] # NoCred,
                      url[t] \notin remapped
               PROVE  cred'[session[t]] = cert[url[t]]
    OBVIOUS
  <2>1. Authorise(t)
    BY DEF Next, ThreadStep, Begin, TakeRecycled, MakeSession, Authorise, Login,
       LoginFails, Finish, DeleteSession, Released, Recycle, RecycleFull,
       SetCredential, SetReuse, DestroyFactory, IInv, TypeOK
  <2>2. session[t] \in Sessions /\ url[t] \in Urls
    BY SetsOK DEF IInv, TypeOK, HasSession, SessionMatchesPc
  <2>3. BaseUrl(url[t]) = url[t]
    BY DEF BaseUrl
  <2>4. CASE baseurl[session[t]] = url[t]
    BY <2>1, <2>2, <2>3, <2>4 DEF Authorise, IInv, CredsCurrent, sessionVars
  <2>5. CASE baseurl[session[t]] # url[t]
    BY <2>1, <2>2, <2>3, <2>5 DEF Authorise, WithCert, IInv, TypeOK
  <2> QED BY <2>4, <2>5
<1> QED
  BY InvariantHolds, <1>1, PTL DEF Spec, LoginWithOwnCredential
=============================================================================
