------------------------- MODULE MCGridFtpSessions --------------------------
(***************************************************************************)
(* GridFtpSessions for TLC: one URL, or one on each of two hosts.          *)
(***************************************************************************)
EXTENDS GridFtpSessions, TLC

OneUrl == {"gsiftp://a/x"}
TwoHosts == {"gsiftp://a/x", "gsiftp://b/x"}
HostOf(urls) == [u \in urls |-> IF u = "gsiftp://b/x" THEN "gsiftp://b" ELSE "gsiftp://a"]
HostOfOne == HostOf(OneUrl)
HostOfTwo == HostOf(TwoHosts)

Symmetric ==
    Permutations(Threads) \cup Permutations(Sessions) \cup Permutations(Creds)
=============================================================================
