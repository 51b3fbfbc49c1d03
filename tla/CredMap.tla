------------------------------- MODULE CredMap ------------------------------
(***************************************************************************)
(* What the credential API of a context promises (src/core/common/         *)
(* gfal_cred_mapping.h): each context maps URL prefixes and credential     *)
(* types to values.  Setting replaces, deleting removes one entry,         *)
(* cleaning removes all, copying makes one context's map that of another.  *)
(***************************************************************************)

CONSTANTS Contexts, UrlPrefixes, Types, Values, NoValue

VARIABLE map

MapKeys == UrlPrefixes \X Types
EmptyMap == [k \in MapKeys |-> NoValue]

Init == map = [c \in Contexts |-> EmptyMap]

Put(c, k, v) == map' = [map EXCEPT ![c][k] = v]
Delete(c, k) == map' = [map EXCEPT ![c][k] = NoValue]
Clean(c) == map' = [map EXCEPT ![c] = EmptyMap]
CopyFrom(d, s) == map' = [map EXCEPT ![d] = map[s]]

Next ==
    \E c \in Contexts :
        \/ \E k \in MapKeys, v \in Values : Put(c, k, v)
        \/ \E k \in MapKeys : Delete(c, k)
        \/ Clean(c)
        \/ \E s \in Contexts \ {c} : CopyFrom(c, s)

Spec == Init /\ [][Next]_map
=============================================================================
