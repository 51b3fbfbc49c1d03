------------------------------ MODULE HttpKeys ------------------------------
(***************************************************************************)
(* The keys for S3, Swift and GCloud that the HTTP plugin reads from the   *)
(* configuration (get_aws_params, get_swift_params, get_gcloud_credentials *)
(* of src/plugins/http/gfal_http_plugin.cpp): groups of options, from the  *)
(* one for the host to the one for all, are looked through in turn.        *)
(***************************************************************************)
EXTENDS NsState

CONSTANTS
    Groups,   \* the group labels, the most specific first
    KeyConfs  \* of a group: the options it may have

ASSUME GroupsOK == Len(Groups) \in Nat /\ DOMAIN Groups = 1 .. Len(Groups)

VARIABLES
    conf,  \* of a group: its options
    keys   \* what the parameters of the request have got

keyState == <<conf, keys>>

Unset == <<>>
NoKeys == [pair |-> <<Unset, Unset>>, token |-> Unset, gcloud |-> Unset, swift |-> Unset]

KeysInit ==
    /\ conf \in PickFor("keys", KeyConfs)
    /\ keys = NoKeys

\* gfal2_get_opt_string: which group a value is from is all that matters.
Opt(g, name) == IF name \in conf[g] THEN <<g, name>> ELSE Unset
Keep(value, other) == IF value # Unset THEN value ELSE other

\* Mutant: an old value is kept, not both.
AwsKeysKept(s, g) ==
    LET secret == Keep(s.secret, Opt(g, "SECRET_KEY"))
        access == Keep(s.access, Opt(g, "ACCESS_KEY"))
    IN  [s EXCEPT !.secret = Keep(secret, Opt(g, "ACCESS_TOKEN_SECRET")),
                  !.access = Keep(access, Opt(g, "ACCESS_TOKEN")),
                  !.token = Keep(@, Opt(g, "TOKEN"))]

\* gfal_http_get_aws_keys: unless there is a pair, the two options of old are
\* taken instead of what there is, set or not.
AwsKeys(s, g) ==
    LET secret == Keep(s.secret, Opt(g, "SECRET_KEY"))
        access == Keep(s.access, Opt(g, "ACCESS_KEY"))
        whole == secret # Unset /\ access # Unset
    IN  [s EXCEPT !.secret = IF whole THEN secret ELSE Opt(g, "ACCESS_TOKEN_SECRET"),
                  !.access = IF whole THEN access ELSE Opt(g, "ACCESS_TOKEN"),
                  !.token = Keep(@, Opt(g, "TOKEN"))]

\* get_aws_params: the first pair is used, and the first token.
AwsGroup(s, g) ==
    LET n == AwsKeys(s, g) IN
    IF n.pair = <<Unset, Unset>> /\ n.secret # Unset /\ n.access # Unset
    THEN [n EXCEPT !.pair = <<n.secret, n.access>>] ELSE n

AwsParams ==
    LET seen[i \in 0 .. Len(Groups)] ==
            IF i = 0
            THEN [secret |-> Unset, access |-> Unset, token |-> Unset, pair |-> <<Unset, Unset>>]
            ELSE AwsGroup(seen[i - 1], Groups[i])
    IN  seen[Len(Groups)]

\* get_swift_params: the token of the first group that has one
SwiftParams == FoldLeft(LAMBDA s, g : Keep(s, Opt(g, "OS_TOKEN")), Unset, Groups)

\* get_gcloud_credentials: the file before the string
GcloudCredentials ==
    LET g == Groups[Len(Groups)] IN Keep(Opt(g, "JSON_AUTH_FILE"), Opt(g, "JSON_AUTH_STRING"))

\* get_credentials, without a bearer token
ReadKeys ==
    /\ keys = NoKeys
    /\ keys' = [pair |-> AwsParams.pair, token |-> AwsParams.token,
                swift |-> SwiftParams, gcloud |-> GcloudCredentials]
    /\ UNCHANGED conf

\* The options of a pair, as they are called now and as they were.
Pairs == {<<"SECRET_KEY", "ACCESS_KEY">>, <<"ACCESS_TOKEN_SECRET", "ACCESS_TOKEN">>}
HalfOld(g) == Cardinality(conf[g] \cap {"ACCESS_TOKEN_SECRET", "ACCESS_TOKEN"}) = 1

\* The secret and the access key that sign a request belong together: unless
\* one of the old options is set without the other, both are of one group, the
\* most specific one that has a pair, and a group that has half a pair does not
\* keep the pair of a more general one from being used.
PairOfOneGroup ==
    LET having(g) == {pr \in Pairs : {pr[1], pr[2]} \subseteq conf[g]}
        first == {i \in DOMAIN Groups :
                    having(Groups[i]) # {} /\ \A j \in 1..i - 1 : having(Groups[j]) = {}}
    IN  keys # NoKeys /\ (\A i \in DOMAIN Groups : ~HalfOld(Groups[i])) =>
            \/ first = {} /\ keys.pair = <<Unset, Unset>>
            \/ \E i \in first : \E pr \in having(Groups[i]) :
                keys.pair = <<<<Groups[i], pr[1]>>, <<Groups[i], pr[2]>>>>

\* The parameters, once read, hold the pair get_aws_params finds.
KeysInv == keys = NoKeys \/ keys.pair = AwsParams.pair
=============================================================================
