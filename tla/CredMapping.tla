----------------------------- MODULE CredMapping ----------------------------
(***************************************************************************)
(* The credential map of a context (src/core/common/gfal_cred_mapping.c):  *)
(* a list that is kept sorted so that the first match of a look-up is the  *)
(* longest.                                                                *)
(*                                                                         *)
(* A credential is never NULL: gfal2_cred_set with NULL changes nothing    *)
(* when the prefix has no entry and follows the NULL pointer when it has   *)
(* one (node_compare), so no caller can rely on it.                        *)
(*                                                                         *)
(* A URL or a prefix is a sequence of characters, numbers in the order of  *)
(* strcmp, of which Slash is the directory separator.                      *)
(***************************************************************************)
EXTENDS Integers, SequencesExt

CONSTANTS
    Contexts,
    UrlPrefixes,  \* prefixes the application sets credentials for
    CredUrls,     \* URLs it looks up
    Types,        \* credential types, numbers in the order of strcmp
    Values,
    NoValue,
    Slash

ASSUME SlashOK == Slash \in Nat
ASSUME PrefixesOK == UrlPrefixes \subseteq Seq(Nat)
ASSUME CredUrlsOK == CredUrls \subseteq Seq(Nat)
ASSUME TypesOK == Types \subseteq Nat
ASSUME NoValueOK == NoValue \notin Values

VARIABLE cred_mapping  \* the list of each context

credVars == <<cred_mapping>>

Node(p, t, v) == [url_prefix |-> p, type |-> t, value |-> v]

\* strcmp(a, b) < 0: the first difference decides, the end of a string is
\* below every character.
StrLess(a, b) ==
    \E i \in 1 .. Len(b) :
        /\ \A j \in 1 .. i - 1 : j <= Len(a) /\ a[j] = b[j]
        /\ i > Len(a) \/ a[i] < b[i]

\* node_compare(a, b) < 0: prefixes in descending order, then types.
ComesFirst(a, b) ==
    IF a.url_prefix = b.url_prefix THEN a.type < b.type
    ELSE StrLess(b.url_prefix, a.url_prefix)

\* g_list_find_custom for a node with this prefix and type.
FindNode(list, p, t) ==
    SelectInSeq(list, LAMBDA n : n.url_prefix = p /\ n.type = t)

\* g_list_insert_sorted
InsertSorted(list, n) ==
    LET at == SelectInSeq(list, LAMBDA m : ~ComesFirst(m, n))
    IN  IF at = 0 THEN Append(list, n) ELSE InsertAt(list, at, n)

\* gfal2_cred_set with a credential.
SetNode(list, p, t, v) ==
    LET at == FindNode(list, p, t)
    IN  InsertSorted(IF at = 0 THEN list ELSE RemoveAt(list, at), Node(p, t, v))

-----------------------------------------------------------------------------
(* gfal2_cred_get                                                          *)

\* A match of characters, directory or not.
MatchesAnywhere(p, url, before) == IsPrefix(p, url)

\* The prefix matches a directory of the URL.  For the empty prefix the code
\* reads the byte before the URL; before says whether that is a slash.
Matches(p, url, before) ==
    /\ IsPrefix(p, url)
    /\ \/ Len(p) >= Len(url)
       \/ IF p = <<>> THEN before ELSE url[Len(p)] = Slash
       \/ url[Len(p) + 1] = Slash

\* The value of the first match; NoValue stands for what the configuration
\* has.
CredGet(list, t, url, before) ==
    LET at == SelectInSeq(list,
                  LAMBDA n : n.type = t /\ Matches(n.url_prefix, url, before))
    IN  IF at = 0 THEN NoValue ELSE list[at].value

-----------------------------------------------------------------------------
CredInit == cred_mapping = [c \in Contexts |-> <<>>]

CredSet(c, p, t, v) ==
    cred_mapping' = [cred_mapping EXCEPT ![c] = SetNode(@, p, t, v)]

\* Mutant: a deletion that stops at the first node of that prefix.
CredDelAnyType(c, t, p) ==
    LET at == SelectInSeq(cred_mapping[c], LAMBDA n : n.url_prefix = p)
    IN  /\ at # 0
        /\ cred_mapping' = [cred_mapping EXCEPT ![c] = RemoveAt(@, at)]

\* gfal2_cred_del: the entry of exactly this prefix and type, if there is
\* one.
CredDel(c, t, p) ==
    LET at == FindNode(cred_mapping[c], p, t)
    IN  /\ at # 0
        /\ cred_mapping' = [cred_mapping EXCEPT ![c] = RemoveAt(@, at)]

\* gfal2_cred_clean
CredClean(c) ==
    cred_mapping' = [cred_mapping EXCEPT ![c] = <<>>]

\* gfal2_cred_copy: clean, then set every node of the other context.
CopyOf(list) ==
    LET copied[i \in 0 .. Len(list)] ==
            IF i = 0 THEN <<>>
            ELSE SetNode(copied[i - 1], list[i].url_prefix, list[i].type, list[i].value)
    IN  copied[Len(list)]

CredCopy(dest, src) ==
    cred_mapping' = [cred_mapping EXCEPT ![dest] = CopyOf(cred_mapping[src])]

CredNext ==
    \E c \in Contexts :
        \/ \E p \in UrlPrefixes, t \in Types, v \in Values : CredSet(c, p, t, v)
        \/ \E p \in UrlPrefixes, t \in Types : CredDel(c, t, p)
        \/ CredClean(c)
        \/ \E s \in Contexts \ {c} : CredCopy(c, s)

CredSpec == CredInit /\ [][CredNext]_credVars

-----------------------------------------------------------------------------
(* Properties                                                              *)

\* The map a list stands for.
MapOf(list) ==
    [k \in UrlPrefixes \X Types |->
        LET at == FindNode(list, k[1], k[2])
        IN  IF at = 0 THEN NoValue ELSE list[at].value]

Map == INSTANCE CredMap WITH map <- [c \in Contexts |-> MapOf(cred_mapping[c])]

\* Each operation has on the list the effect the same operation has on the map.
OperationStep ==
    \A c \in Contexts :
        /\ \A p \in UrlPrefixes, t \in Types :
              /\ CredDel(c, t, p) => Map!Delete(c, <<p, t>>)
              /\ \A v \in Values : CredSet(c, p, t, v) => Map!Put(c, <<p, t>>, v)
        /\ CredClean(c) => Map!Clean(c)
        /\ \A s \in Contexts \ {c} : CredCopy(c, s) => Map!CopyFrom(c, s)

OperationsAsMap == [][OperationStep]_credVars

\* The sorted list is a map: every step of the lists of two contexts is one
\* of their maps, whatever sequence of sets, deletions, cleans and copies came
\* before, and it is the one the caller asked for, so that a deletion, say,
\* takes out the entry it was given and no other.
ListIsMap == Map!Spec /\ OperationsAsMap

\* p is the URL, or one of its directories, with or without the slash.
DirectoryOf(p, u) ==
    /\ p # <<>>
    /\ IsPrefix(p, u)
    /\ p = u \/ p[Len(p)] = Slash \/ u[Len(p) + 1] = Slash

\* "Best matching prefix will be picked": among the prefixes of the map that
\* are a directory of the URL the look-up takes the longest, although it only
\* takes the first of the list.  Without one it takes the empty prefix or
\* nothing: never the credential of a sibling whose name begins the same way.
BestMatchPicked ==
    \A c \in Contexts, t \in Types, u \in CredUrls, before \in BOOLEAN :
        LET m == MapOf(cred_mapping[c])
            fits == {p \in UrlPrefixes : m[<<p, t>>] # NoValue /\ DirectoryOf(p, u)}
            best == {p \in fits : \A q \in fits : Len(q) <= Len(p)}
            other == {m[<<p, t>>] : p \in UrlPrefixes \cap {<<>>}} \cup {NoValue}
        IN  CredGet(cred_mapping[c], t, u, before) \in
                IF fits = {} THEN other ELSE {m[<<p, t>>] : p \in best}

-----------------------------------------------------------------------------
(* The inductive invariant behind them: every list is strictly sorted      *)

Nodes == [url_prefix : UrlPrefixes, type : Types, value : Values]

Sorted(list) == \A i, j \in 1 .. Len(list) : i < j => ComesFirst(list[i], list[j])

SortedLists ==
    /\ cred_mapping \in [Contexts -> Seq(Nodes)]
    /\ \A c \in Contexts : Sorted(cred_mapping[c])
=============================================================================
