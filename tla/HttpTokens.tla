----------------------------- MODULE HttpTokens -----------------------------
(***************************************************************************)
(* Which bearer token the HTTP plugin sends (find_se_token,                *)
(* retrieve_and_store_se_token, get_token and get_credentials of           *)
(* src/plugins/http/gfal_http_plugin.cpp, and                              *)
(* gfal_http_plugin_token.cpp).  Tokens the user set and tokens the        *)
(* plugin got from the storage are kept in the one credential list of the  *)
(* context, under the URL they are for; the plugin's own token_map says    *)
(* for the second kind what they allow.                                    *)
(*                                                                         *)
(* A token is what it was issued for.  The context is used by one thread.  *)
(***************************************************************************)
EXTENDS NsState, Functions

CONSTANTS
    CredOrder,  \* all URLs a token may be filed under, as the list has them
    Up,         \* of such a URL: the next shorter one that contains it
    Settings    \* what the configuration and the storage may be like

VARIABLES
    setting,   \* one of Settings: [scheme, retrieves, issues, fallback]
    creds,     \* of a URL: the token filed under it
    tokenMap,  \* token_map: of a token, whether it allows to write
    issued     \* what gfal2_token_retrieve gave the user last

tokens == <<setting, creds, tokenMap, issued>>

FiledUnder == Range(CredOrder)
NoToken == [by |-> "none", at |-> Root, can |-> {}]
UserToken == [by |-> "user", at |-> Root, can |-> {}]

\* The list has a URL before the shorter ones that contain it.
ASSUME CredOrderOK ==
    /\ Len(CredOrder) \in Nat /\ DOMAIN CredOrder = 1 .. Len(CredOrder)
    /\ Root \in FiledUnder
    /\ \A i \in DOMAIN CredOrder : CredOrder[i] # Root =>
         \E j \in i + 1 .. Len(CredOrder) : CredOrder[j] = Up[CredOrder[i]]

\* What is configured was set by the user.
ASSUME SettingsOK == \A s \in Settings : s.fallback \in {NoToken, UserToken}

TokensInit ==
    /\ setting \in PickFor("http", Settings)
    /\ creds = [n \in FiledUnder |-> NoToken]
    /\ tokenMap = [t \in {} |-> FALSE]
    /\ issued = NoToken

-----------------------------------------------------------------------------
(* Operations.                                                             *)

\* Mutant: to make a directory is not to write.
WritesNoMkcol(op) == op \in {"WRITE", "WRITE_PASV"}

\* writeFlagFromOperation
Writes(op) == op \in {"MKCOL", "WRITE", "WRITE_PASV"}

\* searchFlagFromOperation: a token for something below will do.
Searches(op) == op \in {"MKCOL", "HEAD"}

\* needsTransferHeader
HeaderOf(op) ==
    IF op \in {"READ_PASV", "WRITE_PASV"} THEN "TransferHeaderAuthorization" ELSE "Authorization"

\* allowsBearerTokenRetrieve and get_retrieve_bearer_token_config
MayRetrieve(op) == setting.retrieves /\ setting.scheme = "https" /\ op # "TAPE"

-----------------------------------------------------------------------------
(* Finding.                                                                *)

\* The URLs that contain n, itself included.
Containing[n \in FiledUnder] == {n} \cup (IF n = Root THEN {} ELSE Containing[Up[n]])

\* path_contains, in both directions
Fits(n, u, op) == n \in Containing[u] \/ (Searches(op) /\ u \in Containing[n])

\* find_in_token_map: what is not in the map was set by the user.
Accepted(t, op) ==
    t \notin DOMAIN tokenMap \/ tokenMap[t] \/ tokenMap[t] = Writes(op)

\* find_se_token: the first of the list, or what is set for the host or in
\* the configuration.
FindSeToken(u, op) ==
    LET suits(n) == creds[n] # NoToken /\ Fits(n, u, op) /\ Accepted(creds[n], op)
        first == SelectInSeq(CredOrder, suits)
    IN  IF first = 0 THEN setting.fallback ELSE creds[CredOrder[first]]

-----------------------------------------------------------------------------
(* Retrieving.                                                             *)

\* MacaroonRetriever::_activities
Activities(write) ==
    {"LIST", "DOWNLOAD"} \cup (IF write THEN {"MANAGE", "UPLOAD", "DELETE"} ELSE {})

\* get_token_endpoint: none without an issuer, and the discovery may fail.
TokenEndpoints(issuer) ==
    {"none"} \cup (IF issuer # "none" /\ "oauth" \in setting.issues THEN {"oauth"} ELSE {})

ServerToken(u, write) == [by |-> "server", at |-> u, can |-> Activities(write)]

\* MacaroonRetriever: without an endpoint the URL itself is asked for a
\* macaroon.  NoToken: it failed.
MacaroonRetriever(issuer, u, write) ==
    {NoToken} \cup
    {ServerToken(u, write) : e \in {e \in TokenEndpoints(issuer) :
                                    e = "oauth" \/ "macaroon" \in setting.issues}}

\* SciTokensRetriever: an endpoint is needed; the issuer decides on the scope.
SciTokensRetriever(issuer) ==
    {NoToken} \cup
    {[by |-> "server", at |-> Root, can |-> Activities(write)] :
        write \in {w \in BOOLEAN : "oauth" \in TokenEndpoints(issuer)}}

\* The second is asked if the first fails.
Chain(first, second) == (first \ {NoToken}) \cup second

Outcome(t, c, m) == [token |-> t, creds |-> c, map |-> m]

\* retrieve_and_store_se_token: a token under the same URL is replaced.
RetrieveAndStore(u, op) ==
    LET write == Writes(op)
        store(t) == IF t = NoToken THEN Outcome(t, creds, tokenMap)
                    ELSE Outcome(t, [creds EXCEPT ![u] = t],
                                 [s \in DOMAIN tokenMap \cup {t} |->
                                    IF s = t THEN write ELSE tokenMap[s]])
    IN  IF ~MayRetrieve(op) THEN {Outcome(NoToken, creds, tokenMap)}
        ELSE {store(t) : t \in Chain(MacaroonRetriever("none", u, write),
                                     MacaroonRetriever("storage", u, write))}

\* get_token: not for a URL that is signed.
GetToken(u, op) ==
    LET found == FindSeToken(u, op) IN
    IF setting.scheme = "signed" THEN {Outcome(NoToken, creds, tokenMap)}
    ELSE IF found # NoToken THEN {Outcome(found, creds, tokenMap)}
    ELSE RetrieveAndStore(u, op)

\* get_reva_credentials: the token of the configuration.
RevaToken == Outcome(setting.fallback, creds, tokenMap)

\* get_credentials: S3, GCloud and Swift have keys of their own.
GetCredentials(u, op) ==
    CASE setting.scheme = "cloud" -> {Outcome(NoToken, creds, tokenMap)}
      [] setting.scheme = "cs3"   -> {RevaToken}
      [] OTHER                    -> GetToken(u, op)

-----------------------------------------------------------------------------
(* What the user does between the calls.                                   *)

\* gfal_http_token_retrieve: not stored anywhere.
TokenRetrieve(u, issuer, write) ==
    /\ issued' \in IF issuer = "none" THEN MacaroonRetriever(issuer, u, write)
                   ELSE Chain(SciTokensRetriever(issuer),
                              MacaroonRetriever(issuer, u, write))
    /\ UNCHANGED <<setting, creds, tokenMap>>

\* gfal2_cred_set, of an own token or of the one issued
SetCredential(n) ==
    /\ creds' \in {[creds EXCEPT ![n] = t] :
                    t \in {UserToken} \cup (IF issued = NoToken THEN {}
                                            ELSE {[issued EXCEPT !.by = "user"]})}
    /\ UNCHANGED <<setting, tokenMap, issued>>

\* gfal2_cred_clean: the map of the plugin is not told.
CleanCredentials ==
    /\ creds' = [n \in FiledUnder |-> NoToken]
    /\ UNCHANGED <<setting, tokenMap, issued>>
=============================================================================
