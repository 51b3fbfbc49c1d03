---------------------------- MODULE MCCredMapping ---------------------------
(***************************************************************************)
(* CredMapping for TLC.  Characters: 1 is the slash, 2 and 3 are letters.  *)
(* Every URL of up to three characters is looked up.                       *)
(***************************************************************************)
EXTENDS CredMapping, TLC

AllUrls == UNION {[1 .. n -> {1, 2, 3}] : n \in 1 .. 3}

\* x and x/y: nested directories.  Siblings with a common stem are among the
\* URLs.
NestedPrefixes == {<<2>>, <<2, 1, 3>>}

Symmetric == Permutations(Contexts) \cup Permutations(Values)
=============================================================================
