--------------------------- MODULE BulkCopyProofs ---------------------------
(***************************************************************************)
(* Proofs about BulkCopy, for calls with any number of pairs.  The         *)
(* inductive invariant is IInv of BulkCopy; there is one lemma for each    *)
(* action of the three implementations and of Globus.                      *)
(***************************************************************************)
EXTENDS BulkCopy, FiniteSetTheorems, WellFoundedInduction, TLAPS

-----------------------------------------------------------------------------
(* The loop over the pairs                                                 *)

LEMMA CallShape ==
    ASSUME call \in Calls
    PROVE  /\ call.n \in Nat /\ call.n >= 1
           /\ call.plugin \in {"gridftp", "xrootd", "none"}
           /\ call.was \in [1 .. call.n -> {"absent", "old"}]
           /\ call.arg \in [1 .. call.n -> Arguments \cup {"null"}]
           /\ Files = 1 .. call.n
           /\ IsFiniteSet(Files)
  <1>1. PICK n \in 1 .. MaxFiles :
            call \in [n : {n},
                      plugin : {"gridftp", "xrootd", "none"},
                      mode : SUBSET {"SOURCE", "TARGET"},
                      replace : BOOLEAN,
                      cleanup : BOOLEAN,
                      checksums : BOOLEAN,
                      arg : [1 .. n -> Arguments \cup {"null"}],
                      was : [1 .. n -> {"absent", "old"}]]
    BY DEF Calls
  <1>2. /\ call.n = n
        /\ call.plugin \in {"gridftp", "xrootd", "none"}
        /\ call.was \in [1 .. n -> {"absent", "old"}]
        /\ call.arg \in [1 .. n -> Arguments \cup {"null"}]
    BY <1>1
  <1>3. n \in Nat /\ n >= 1
    BY <1>1, BulkBoundsOK
  <1>4. IsFiniteSet(1 .. n)
    BY <1>3, FS_Interval
  <1> QED
    BY <1>2, <1>3, <1>4 DEF Files

LEMMA Pairs ==
    ASSUME TypeOK
    PROVE  /\ call.n \in Nat /\ call.n >= 1
           /\ Files = 1 .. call.n
           /\ i \in Nat /\ 1 <= i /\ i <= call.n
           /\ IsFiniteSet(Failed) /\ Cardinality(Failed) \in Nat
           /\ Cardinality(Failed) <= call.n
           /\ Failed \subseteq Files /\ Viable \subseteq Files
  <1>1. call.n \in Nat /\ call.n >= 1 /\ Files = 1 .. call.n /\ IsFiniteSet(Files)
    BY CallShape DEF TypeOK
  <1>2. i \in Nat /\ 1 <= i /\ i <= call.n
    BY <1>1 DEF TypeOK
  <1>3. Failed \subseteq Files /\ Viable \subseteq Files
    BY DEF Failed, Viable
  <1>4. Cardinality(Files) = call.n
    BY <1>1, FS_Interval
  <1>5. IsFiniteSet(Failed) /\ Cardinality(Failed) \in Nat /\ Cardinality(Failed) <= call.n
    BY <1>1, <1>3, <1>4, FS_Subset, FS_CardinalityType
  <1> QED
    BY <1>1, <1>2, <1>3, <1>5

\* Where the loop is after an iteration
LEMMA Advanced ==
    ASSUME TypeOK, NEW next, Advance(next)
    PROVE  /\ i' \in Files /\ Files' = Files
           /\ \/ i < call.n /\ i' = i + 1 /\ pc' = pc
              \/ i = call.n /\ i' = 1 /\ pc' = next
           /\ UNCHANGED <<call, op_error, ret, cancel>>
  <1>1. UNCHANGED <<call, op_error, ret, cancel>> /\ Files' = Files
    BY DEF Advance, Files
  <1>2. \/ i < call.n /\ i' = i + 1 /\ pc' = pc
        \/ i = call.n /\ i' = 1 /\ pc' = next
    BY Pairs DEF Advance
  <1>3. i' \in Files
    BY <1>2, Pairs
  <1> QED
    BY <1>1, <1>2, <1>3

LEMMA PairGoesOn ==
    ASSUME TypeOK, NEW next, FileGoesOn(next)
    PROVE  /\ i' \in Files /\ Files' = Files
           /\ \/ i < call.n /\ i' = i + 1 /\ pc' = pc
              \/ i = call.n /\ i' = 1 /\ pc' = next
           /\ UNCHANGED <<call, op_error, ret, cancel, ferr, nfailed>>
           /\ Failed' = Failed /\ Viable' = Viable
  <1>1. Advance(next) /\ UNCHANGED <<ferr, nfailed>>
    BY DEF FileGoesOn
  <1>2. /\ i' \in Files /\ Files' = Files
        /\ \/ i < call.n /\ i' = i + 1 /\ pc' = pc
           \/ i = call.n /\ i' = 1 /\ pc' = next
        /\ UNCHANGED <<call, op_error, ret, cancel>>
    BY <1>1, Advanced
  <1>3. Failed' = Failed
    BY <1>1, <1>2 DEF Failed
  <1> QED
    BY <1>1, <1>2, <1>3 DEF Viable

\* A pair that had no error gets one: one more failure.
LEMMA PairFails ==
    ASSUME TypeOK, NEW next, NEW code \in Codes \ {"none"}, ferr[i] = "none",
           nfailed = Cardinality(Failed), FileFails(code, next)
    PROVE  /\ i' \in Files /\ Files' = Files
           /\ \/ i < call.n /\ i' = i + 1 /\ pc' = pc
              \/ i = call.n /\ i' = 1 /\ pc' = next
           /\ UNCHANGED <<call, op_error, ret, cancel>>
           /\ ferr' \in [Files -> Codes] /\ nfailed' \in Nat
           /\ Failed' = Failed \cup {i} /\ Viable' = Viable \ {i}
           /\ nfailed' = Cardinality(Failed')
  <1>1. Advance(next) /\ ferr' = [ferr EXCEPT ![i] = code] /\ nfailed' = nfailed + 1
    BY DEF FileFails
  <1>2. /\ i' \in Files /\ Files' = Files
        /\ \/ i < call.n /\ i' = i + 1 /\ pc' = pc
           \/ i = call.n /\ i' = 1 /\ pc' = next
        /\ UNCHANGED <<call, op_error, ret, cancel>>
    BY <1>1, Advanced
  <1>3. ferr \in [Files -> Codes] /\ i \in Files
    BY DEF TypeOK
  <1>4. ferr' \in [Files -> Codes]
    BY <1>1, <1>3
  <1>5. Failed' = Failed \cup {i}
    BY <1>1, <1>2, <1>3 DEF Failed
  <1>6. i \notin Failed /\ IsFiniteSet(Failed) /\ Cardinality(Failed) \in Nat
    BY Pairs DEF Failed
  <1>7. Cardinality(Failed \cup {i}) = Cardinality(Failed) + 1
    BY <1>6, FS_AddElement
  <1>8. Viable' = Viable \ {i}
    BY <1>2, <1>5 DEF Viable
  <1>9. nfailed' = Cardinality(Failed') /\ nfailed' \in Nat
    BY <1>1, <1>5, <1>6, <1>7
  <1> QED
    BY <1>1, <1>2, <1>4, <1>5, <1>8, <1>9

\* Either way, what a loop may rely on
LEMMA PairDone ==
    ASSUME TypeOK, NEW next, nfailed = Cardinality(Failed),
           \/ FileGoesOn(next)
           \/ ferr[i] = "none" /\ \E code \in Codes \ {"none"} : FileFails(code, next)
    PROVE  /\ i' \in Files /\ Files' = Files
           /\ \/ i < call.n /\ i' = i + 1 /\ pc' = pc
              \/ i = call.n /\ i' = 1 /\ pc' = next
           /\ UNCHANGED <<call, op_error, ret, cancel>>
           /\ ferr' \in [Files -> Codes] /\ nfailed' \in Nat
           /\ Failed' \subseteq Failed \cup {i} /\ Viable' \subseteq Viable
           /\ nfailed' = Cardinality(Failed')
           /\ i \in Viable' => FileGoesOn(next)
  <1>1. ASSUME NEW code \in Codes \ {"none"}, ferr[i] = "none", FileFails(code, next)
        PROVE  /\ i' \in Files /\ Files' = Files
               /\ \/ i < call.n /\ i' = i + 1 /\ pc' = pc
                  \/ i = call.n /\ i' = 1 /\ pc' = next
               /\ UNCHANGED <<call, op_error, ret, cancel>>
               /\ ferr' \in [Files -> Codes] /\ nfailed' \in Nat
               /\ Failed' = Failed \cup {i} /\ Viable' = Viable \ {i}
               /\ nfailed' = Cardinality(Failed')
    BY <1>1, PairFails
  <1>2. CASE FileGoesOn(next)
    BY <1>2, PairGoesOn DEF TypeOK
  <1> QED
    BY <1>1, <1>2

LEMMA PairsKept ==
    ASSUME UNCHANGED <<call, ferr>>
    PROVE  Files' = Files /\ Failed' = Failed /\ Viable' = Viable
  BY DEF Files, Failed, Viable

-----------------------------------------------------------------------------
(* The two ends of a call                                                  *)

LEMMA LeaveKeeps ==
    ASSUME IInv, Leave,
           UNCHANGED <<sums, index, queue, running, owed, error, done, attempt, expired, status>>,
           wait_ret' \in {wait_ret, "none"}
    PROVE  IInv'
  <1>1. pc' = "left" /\ UNCHANGED <<call, i, ferr, op_error, nfailed, ret, cancel, dst>>
    BY DEF Leave, GoTo
  <1>2. Files' = Files /\ Failed' = Failed /\ Viable' = Viable
    BY <1>1, PairsKept
  <1>3. TypeOK'
    BY <1>1, <1>2 DEF IInv, TypeOK, Phases, Final
  <1>4. /\ PhaseOfPlugin' /\ AtFirstPair' /\ SourceChecked' /\ VerifiedSoFar'
        /\ FailuresCounted' /\ VerifiedPairExact'
    BY <1>1 DEF IInv, PhaseOfPlugin, AtFirstPair, SourceChecked, VerifiedSoFar, FailuresCounted,
                VerifiedPairExact, GridFtpPhases, XrootdPhases
  <1>5. FailsOnce' /\ GlobusQuiet'
    BY <1>1, <1>2 DEF IInv, FailsOnce, GlobusQuiet
  <1>6. Prepared' /\ ExistingKept'
    BY <1>1, <1>2 DEF IInv, Prepared, MayWrite, ExistingKept
  <1> QED
    BY <1>3, <1>4, <1>5, <1>6 DEF IInv

LEMMA ReturnKeeps ==
    ASSUME IInv, NEW r \in Int, NEW code \in Codes, Return(r, code), pc \notin {"wait", "left"},
           \/ r = -Cardinality(Failed)
           \/ code # "none" /\ r < 0
           \/ cancel /\ call.plugin = "gridftp" /\ r = -call.n,
           code = "none" /\ ~cancel /\ ~expired => \A f \in Viable : Exact(f),
           UNCHANGED <<sums, index, queue, running, owed, error, done, attempt, expired, status>>,
           wait_ret' \in {wait_ret, "none"},
           \/ UNCHANGED dst
           \/ code # "none" /\ call.plugin = "xrootd" /\ dst' \in [Files -> Contents]
    PROVE  IInv'
  <1>1. /\ pc' = "returned" /\ ret' = r /\ op_error' = code
        /\ UNCHANGED <<call, i, ferr, nfailed, cancel>>
    BY DEF Return
  <1>2. Files' = Files /\ Failed' = Failed /\ Viable' = Viable
    BY <1>1, PairsKept
  <1>3. TypeOK'
    BY <1>1, <1>2 DEF IInv, TypeOK, Phases, Final
  <1>4. PhaseOfPlugin' /\ AtFirstPair' /\ SourceChecked' /\ VerifiedSoFar'
    BY <1>1 DEF IInv, PhaseOfPlugin, AtFirstPair, SourceChecked, VerifiedSoFar,
                GridFtpPhases, XrootdPhases
  <1>5. FailsOnce' /\ GlobusQuiet'
    BY <1>1, <1>2 DEF IInv, FailsOnce, GlobusQuiet
  <1>6. Prepared' /\ ExistingKept'
    BY <1>1, <1>2 DEF IInv, Prepared, MayWrite, ExistingKept
  <1>7. FailuresCounted'
    BY <1>1, <1>2 DEF FailuresCounted
  <1>8. VerifiedPairExact'
    BY <1>1, <1>2 DEF VerifiedPairExact, Exact, Viable
  <1> QED
    BY <1>3, <1>4, <1>5, <1>6, <1>7, <1>8 DEF IInv

-----------------------------------------------------------------------------
(* The pair Globus is given next                                           *)

\* A set of numbers that is not empty has a least element.
LEMMA LeastOf ==
    ASSUME NEW S, S \subseteq Nat, S # {}
    PROVE  \E g \in S : \A h \in S : g <= h
  <1> DEFINE R == OpToRel(<, Nat)
  <1>1. IsWellFoundedOn(R, Nat)
    BY NatLessThanWellFounded
  <1>2. R = {p \in Nat \X Nat : p[1] < p[2]}
    BY DEF OpToRel
  <1> HIDE DEF R
  <1>3. PICK g \in S : \A h \in S : ~(<<h, g>> \in R)
    BY <1>1, WFMin
  <1>4. ASSUME NEW h \in S
        PROVE  g <= h
    <2>1. g \in Nat /\ h \in Nat /\ <<h, g>> \in Nat \X Nat
      BY <1>3
    <2>2. ~(h < g)
      BY <1>2, <1>3, <2>1
    <2> QED
      BY <2>1, <2>2
  <1> QED
    BY <1>3, <1>4

LEMMA NextIsViable ==
    ASSUME TypeOK, NEW f \in Nat
    PROVE  /\ NextViable(f) \in Nat
           /\ NextViable(f) <= call.n => NextViable(f) \in Viable
           /\ f = 0 /\ Viable # {} => NextViable(f) \in Viable
  <1> DEFINE rest == {g \in Viable : g > f}
  <1>1. Viable \subseteq Nat /\ call.n \in Nat /\ \A g \in Viable : g > 0
    BY Pairs
  <1>2. CASE rest = {}
    <2>1. NextViable(f) = call.n + 1
      BY <1>2 DEF NextViable
    <2>2. f = 0 => Viable = {}
      BY <1>1, <1>2
    <2>3. NextViable(f) \in Nat /\ ~(NextViable(f) <= call.n)
      BY <1>1, <2>1
    <2> QED
      BY <2>2, <2>3
  <1>3. CASE rest # {}
    <2>1. \E g \in rest : \A h \in rest : g <= h
      BY <1>1, <1>3, LeastOf
    <2>2. NextViable(f) = CHOOSE g \in rest : \A h \in rest : g <= h
      BY <1>3 DEF NextViable
    <2>3. NextViable(f) \in rest
      BY <2>1, <2>2
    <2> QED
      BY <1>1, <2>3
  <1> QED
    BY <1>2, <1>3

-----------------------------------------------------------------------------
(* The GridFTP plugin                                                      *)

LEMMA SetupKeeps ==
    ASSUME IInv, Setup, UNCHANGED status
    PROVE  IInv'
  <1>1. pc = "setup" /\ UNCHANGED <<globusVars, waitVars>>
    BY DEF Setup
  <1>2. CASE cancel /\ Return(-1, "ECANCELED") /\ UNCHANGED <<dst, sums>>
    BY <1>1, <1>2, ReturnKeeps DEF globusVars, waitVars, Codes
  <1>3. CASE Leave /\ UNCHANGED sums
    BY <1>1, <1>3, LeaveKeeps DEF globusVars, waitVars
  <1>4. CASE /\ sums' = [f \in Files |->
                          CASE call.arg[f] \in {"null", "empty"} -> "empty"
                            [] call.arg[f] \in {"good", "bad"} -> call.arg[f]
                            [] OTHER -> "typed"]
             /\ GoTo("source") /\ UNCHANGED dst
    <2>1. pc' = "source" /\ UNCHANGED <<call, i, ferr, op_error, nfailed, ret, cancel, dst>>
      BY <1>4 DEF GoTo
    <2>2. Files' = Files /\ Failed' = Failed /\ Viable' = Viable
      BY <2>1, PairsKept
    <2>3. TypeOK /\ FailsOnce /\ Failed = {}
      BY <1>1 DEF IInv, FailsOnce
    <2>4. sums' \in [Files -> {"empty", "good", "bad", "typed"}]
          /\ \A f \in Files : call.arg[f] = "bad" => sums'[f] = "bad"
      BY <1>4
    <2>5. TypeOK'
      BY <1>1, <2>1, <2>2, <2>4 DEF IInv, TypeOK, Phases, globusVars, waitVars
    <2>6. PhaseOfPlugin' /\ AtFirstPair' /\ VerifiedSoFar' /\ FailuresCounted' /\ VerifiedPairExact'
      BY <1>1, <2>1 DEF IInv, PhaseOfPlugin, AtFirstPair, VerifiedSoFar, FailuresCounted,
                        VerifiedPairExact, GridFtpPhases, XrootdPhases
    <2>7. FailsOnce' /\ GlobusQuiet'
      BY <1>1, <2>1, <2>2, <2>3 DEF IInv, FailsOnce, GlobusQuiet, globusVars, waitVars
    <2>8. Prepared' /\ ExistingKept'
      BY <1>1, <2>1, <2>2 DEF IInv, Prepared, MayWrite, ExistingKept, globusVars
    <2>9. SourceChecked'
      <3>1. i' = 1 /\ Viable \subseteq Nat
        BY <1>1, <2>1, <2>3, Pairs DEF IInv, AtFirstPair
      <3>2. \A f \in Viable : ~(f < 1)
        BY <2>3, Pairs
      <3> QED
        BY <2>1, <2>2, <2>4, <3>1, <3>2 DEF SourceChecked, GridFtpPhases
    <2> QED
      BY <2>5, <2>6, <2>7, <2>8, <2>9 DEF IInv
  <1> QED
    BY <1>2, <1>3, <1>4 DEF Setup

LEMMA CheckSourceKeeps ==
    ASSUME IInv, CheckSource, UNCHANGED status
    PROVE  IInv'
  <1>1. pc = "source" /\ UNCHANGED <<dst, globusVars, waitVars>>
    BY DEF CheckSource
  <1>2. /\ TypeOK /\ nfailed = Cardinality(Failed) /\ call.plugin = "gridftp"
        /\ \A f \in Failed : f < i
    BY <1>1 DEF IInv, FailsOnce, PhaseOfPlugin, GridFtpPhases
  <1>3. ferr[i] = "none" /\ i \in Viable
    BY <1>2, Pairs DEF TypeOK, Failed, Viable
  <1>4. \/ /\ \E code \in {"EINTR", "EIO"} : FileFails(code, "destination")
           /\ UNCHANGED sums
        \/ FileGoesOn("destination") /\ "SOURCE" \notin call.mode /\ UNCHANGED sums
        \/ /\ FileGoesOn("destination") /\ sums[i] \in {"empty", "good"}
           /\ sums' = [sums EXCEPT ![i] = "good"]
    BY DEF CheckSource
  <1>5. /\ i' \in Files /\ Files' = Files
        /\ \/ i < call.n /\ i' = i + 1 /\ pc' = pc
           \/ i = call.n /\ i' = 1 /\ pc' = "destination"
        /\ UNCHANGED <<call, op_error, ret, cancel>>
        /\ ferr' \in [Files -> Codes] /\ nfailed' \in Nat
        /\ Failed' \subseteq Failed \cup {i} /\ Viable' \subseteq Viable
        /\ nfailed' = Cardinality(Failed')
        /\ i \in Viable' => FileGoesOn("destination")
    BY <1>2, <1>3, <1>4, PairDone DEF Codes
  <1>6. sums \in [Files -> {"empty", "good", "bad", "typed"}] /\ i \in Files
    BY <1>2 DEF TypeOK
  <1>7. /\ sums' \in [Files -> {"empty", "good", "bad", "typed"}]
        /\ \A f \in Files : f # i => sums'[f] = sums[f]
    BY <1>4, <1>6
  <1>8. "SOURCE" \in call.mode /\ i \in Viable' => sums'[i] = "good" /\ call.arg[i] # "bad"
    <2>1. call.arg[i] = "bad" => sums[i] = "bad"
      BY <1>1, <1>2, <1>6, Pairs DEF IInv, SourceChecked
    <2>2. \A code : ~(FileFails(code, "destination") /\ FileGoesOn("destination"))
      BY <1>2, Pairs DEF FileFails, FileGoesOn
    <2> QED
      BY <1>4, <1>5, <1>6, <2>1, <2>2
  <1>9. TypeOK'
    BY <1>1, <1>2, <1>5, <1>7 DEF TypeOK, Phases, globusVars, waitVars
  <1>10. /\ PhaseOfPlugin' /\ AtFirstPair' /\ VerifiedSoFar'
         /\ FailuresCounted' /\ VerifiedPairExact'
    BY <1>1, <1>2, <1>5 DEF PhaseOfPlugin, AtFirstPair, VerifiedSoFar, FailuresCounted,
                            VerifiedPairExact, GridFtpPhases, XrootdPhases
  <1>11. FailsOnce'
    BY <1>1, <1>2, <1>5, Pairs DEF FailsOnce
  <1>12. Prepared' /\ ExistingKept'
    <2>1. ExistingKept' /\ (\A k \in DOMAIN queue : MayWrite(queue[k]))'
      BY <1>1, <1>5 DEF IInv, Prepared, MayWrite, ExistingKept, globusVars
    <2>2. pc' = "destination" => i' = 1
      BY <1>1, <1>5
    <2>3. \A f \in Viable' : f \in Nat /\ ~(f < 1)
      BY <1>2, <1>5, Pairs
    <2>4. running' => \A f \in Viable' : MayWrite(f)'
      BY <1>1, <1>5 DEF IInv, Prepared, MayWrite, globusVars
    <2> QED
      BY <1>1, <1>5, <2>1, <2>2, <2>3, <2>4 DEF Prepared
  <1>13. GlobusQuiet'
    BY <1>1, <1>5 DEF IInv, GlobusQuiet, globusVars, waitVars
  <1>14. SourceChecked'
    <2>1. ASSUME "SOURCE" \in call.mode, NEW f \in Viable', f <= i
          PROVE  sums'[f] = "good" /\ call.arg[f] # "bad"
      BY <1>1, <1>2, <1>5, <1>7, <1>8, <2>1, Pairs DEF IInv, SourceChecked
    <2>2. ASSUME NEW f \in Files, f > i, call.arg[f] = "bad"
          PROVE  sums'[f] = "bad"
      BY <1>1, <1>2, <1>7, <2>2, Pairs DEF IInv, SourceChecked
    <2>3. \/ i < call.n /\ i' = i + 1 /\ pc' = "source"
          \/ i = call.n /\ pc' = "destination"
      BY <1>1, <1>5
    <2>4. CASE i < call.n /\ i' = i + 1 /\ pc' = "source"
      BY <1>2, <1>5, <2>1, <2>2, <2>4, Pairs DEF SourceChecked, GridFtpPhases
    <2>5. CASE i = call.n /\ pc' = "destination"
      BY <1>2, <1>5, <2>1, <2>5, Pairs DEF SourceChecked, GridFtpPhases
    <2> QED
      BY <2>3, <2>4, <2>5
  <1> QED
    BY <1>9, <1>10, <1>11, <1>12, <1>13, <1>14 DEF IInv

LEMMA PrepareDestinationKeeps ==
    ASSUME IInv, PrepareDestination, UNCHANGED status
    PROVE  IInv'
  <1>1. pc = "destination" /\ UNCHANGED <<sums, globusVars, waitVars>>
    BY DEF PrepareDestination
  <1>2. TypeOK /\ nfailed = Cardinality(Failed) /\ call.plugin = "gridftp"
    BY <1>1 DEF IInv, FailsOnce, PhaseOfPlugin, GridFtpPhases
  <1>3. CASE Leave
    BY <1>1, <1>3, LeaveKeeps DEF globusVars, waitVars
  <1>4. MayCreate => MayWrite(i)
    BY <1>2, CallShape DEF IInv, ExistingKept, MayCreate, MayWrite, TypeOK
  <1>5. CASE /\ \/ FileGoesOn("start")
                \/ /\ ferr[i] = "none"
                   /\ \E code \in {"EINTR", "EEXIST", "ENOTDIR"} : FileFails(code, "start")
             /\ \/ UNCHANGED dst
                \/ MayWrite(i) /\ dst' = [dst EXCEPT ![i] = "absent"]
             /\ FileGoesOn("start") => ferr[i] # "none" \/ MayWrite(i)
    <2>1. /\ i' \in Files /\ Files' = Files
          /\ \/ i < call.n /\ i' = i + 1 /\ pc' = pc
             \/ i = call.n /\ i' = 1 /\ pc' = "start"
          /\ UNCHANGED <<call, op_error, ret, cancel>>
          /\ ferr' \in [Files -> Codes] /\ nfailed' \in Nat
          /\ Failed' \subseteq Failed \cup {i} /\ Viable' \subseteq Viable
          /\ nfailed' = Cardinality(Failed')
          /\ i \in Viable' => FileGoesOn("start")
      BY <1>2, <1>5, PairDone DEF Codes
    <2>2. dst \in [Files -> Contents] /\ i \in Files
      BY <1>2 DEF TypeOK
    <2>3. TypeOK'
      BY <1>1, <1>2, <1>5, <2>1, <2>2 DEF TypeOK, Phases, Contents, globusVars, waitVars
    <2>4. PhaseOfPlugin' /\ AtFirstPair' /\ VerifiedSoFar' /\ FailuresCounted' /\ VerifiedPairExact'
      BY <1>1, <1>2, <2>1 DEF PhaseOfPlugin, AtFirstPair, VerifiedSoFar, FailuresCounted,
                              VerifiedPairExact, GridFtpPhases, XrootdPhases
    <2>5. FailsOnce'
      BY <1>1, <2>1 DEF FailsOnce
    <2>6. Prepared'
      <3>1. (\A k \in DOMAIN queue : MayWrite(queue[k]))'
        BY <1>1, <2>1 DEF IInv, Prepared, MayWrite, globusVars
      <3>2. ASSUME NEW f \in Viable', f <= i
            PROVE  MayWrite(f)'
        <4>1. CASE f = i
          BY <1>5, <2>1, <4>1 DEF Viable, Failed, MayWrite
        <4>2. CASE f < i
          BY <1>1, <2>1, <4>2 DEF IInv, Prepared, MayWrite
        <4>3. f \in Nat /\ i \in Nat
          BY <1>2, <2>1, Pairs
        <4> QED
          BY <3>2, <4>1, <4>2, <4>3
      <3>3. running' => \A f \in Viable' : MayWrite(f)'
        BY <1>1, <2>1 DEF IInv, Prepared, MayWrite, globusVars
      <3>4. pc' = "start" => \A f \in Viable' : MayWrite(f)'
        BY <1>1, <1>2, <2>1, <3>2, Pairs
      <3>5. pc' = "destination" => \A f \in Viable' : f < i' => MayWrite(f)'
        BY <1>1, <1>2, <2>1, <3>2, Pairs
      <3> QED
        BY <1>1, <2>1, <3>1, <3>3, <3>4, <3>5 DEF Prepared
    <2>7. ExistingKept'
      BY <1>2, <1>5, <2>1, <2>2 DEF IInv, ExistingKept, MayWrite
    <2>8. GlobusQuiet'
      BY <1>1, <2>1 DEF IInv, GlobusQuiet, globusVars, waitVars
    <2>9. SourceChecked'
      BY <1>1, <1>2, <2>1 DEF IInv, SourceChecked, GridFtpPhases
    <2> QED
      BY <2>3, <2>4, <2>5, <2>6, <2>7, <2>8, <2>9 DEF IInv
  <1>6. \A code : ~(FileFails(code, "start") /\ FileGoesOn("start"))
    BY <1>2, Pairs DEF FileFails, FileGoesOn
  <1> QED
    BY <1>3, <1>4, <1>5, <1>6 DEF PrepareDestination, Write

LEMMA StartTransferKeeps ==
    ASSUME IInv, StartTransfer, UNCHANGED status
    PROVE  IInv'
  <1>1. /\ pc = "start" /\ wait_ret' = "none"
        /\ UNCHANGED <<dst, sums, owed, error, done, attempt, expired>>
    BY DEF StartTransfer
  <1>2. TypeOK /\ call.plugin = "gridftp"
    BY <1>1 DEF IInv, PhaseOfPlugin, GridFtpPhases
  <1>3. CASE cancel /\ Return(-call.n, "none") /\ UNCHANGED <<index, queue, running>>
    BY <1>1, <1>2, <1>3, Pairs, ReturnKeeps DEF Codes
  <1>4. CASE Leave /\ UNCHANGED <<index, queue, running>>
    BY <1>1, <1>4, LeaveKeeps
  <1>5. CASE /\ index' = NextViable(0)
             /\ pc' \in {"close", "wait", "retry"}
             /\ op_error' \in {op_error, "EIO"}
             /\ pc' = "retry" => op_error' = "EIO"
             /\ pc' = "close" => Viable = {}
             /\ \/ UNCHANGED <<queue, running>>
                \/ queue' = <<index'>> /\ running' = TRUE /\ pc' = "wait" /\ Viable # {}
             /\ UNCHANGED <<call, i, ferr, nfailed, ret, cancel>>
    <2>1. Files' = Files /\ Failed' = Failed /\ Viable' = Viable
      BY <1>5, PairsKept
    <2>2. index' \in Nat /\ (Viable # {} => index' \in Viable)
      BY <1>2, <1>5, NextIsViable
    <2>3. TypeOK'
      <3>1. queue' \in Seq(Files)
        <4>1. CASE UNCHANGED queue
          BY <1>2, <4>1 DEF TypeOK
        <4>2. CASE queue' = <<index'>> /\ Viable # {}
          BY <1>2, <2>2, <4>2, Pairs
        <4> QED
          BY <1>5, <4>1, <4>2
      <3> QED
        BY <1>1, <1>2, <1>5, <2>1, <2>2, <3>1 DEF TypeOK, Phases, Codes
    <2>4. PhaseOfPlugin' /\ AtFirstPair' /\ FailuresCounted' /\ VerifiedPairExact'
      BY <1>1, <1>2, <1>5 DEF IInv, PhaseOfPlugin, AtFirstPair, FailuresCounted,
                              VerifiedPairExact, GridFtpPhases, XrootdPhases
    <2>5. FailsOnce'
      BY <1>1, <1>5, <2>1 DEF IInv, FailsOnce
    <2>6. Prepared' /\ ExistingKept'
      <3>1. \A f \in Viable : MayWrite(f) /\ MayWrite(f)'
        BY <1>1, <1>5, <2>1 DEF IInv, Prepared, MayWrite
      <3>2. (\A k \in DOMAIN queue : MayWrite(queue[k]))'
        BY <1>5, <2>2, <3>1 DEF IInv, Prepared, MayWrite
      <3> QED
        BY <1>1, <1>5, <2>1, <3>1, <3>2 DEF IInv, Prepared, ExistingKept
    <2>7. GlobusQuiet'
      BY <1>1, <1>5 DEF IInv, GlobusQuiet
    <2>8. SourceChecked'
      BY <1>1, <1>2, <1>5, <2>1 DEF IInv, SourceChecked, GridFtpPhases
    <2>9. VerifiedSoFar'
      BY <1>1, <1>5, <2>1 DEF VerifiedSoFar
    <2> QED
      BY <2>3, <2>4, <2>5, <2>6, <2>7, <2>8, <2>9 DEF IInv
  <1> QED
    BY <1>3, <1>4, <1>5 DEF StartTransfer, GoTo

\* The end of the wait, on time or not
LEMMA WaitKeeps ==
    ASSUME IInv, WaitDone \/ WaitTimesOut, UNCHANGED status
    PROVE  IInv'
  <1>1. /\ pc = "wait" /\ pc' = "result"
        /\ UNCHANGED <<call, i, ferr, op_error, nfailed, ret, cancel>>
        /\ UNCHANGED <<dst, sums, globusVars, attempt>>
        /\ \/ done /\ UNCHANGED <<wait_ret, expired>>
           \/ wait_ret' = "ETIMEDOUT" /\ expired' = TRUE
    BY DEF WaitDone, WaitTimesOut, GoTo, gridftpVars, waitVars
  <1>2. Files' = Files /\ Failed' = Failed /\ Viable' = Viable
    BY <1>1, PairsKept
  <1>3. TypeOK'
    BY <1>1, <1>2 DEF IInv, TypeOK, Phases, globusVars
  <1>4. PhaseOfPlugin' /\ AtFirstPair' /\ VerifiedSoFar' /\ FailuresCounted' /\ VerifiedPairExact'
    BY <1>1 DEF IInv, PhaseOfPlugin, AtFirstPair, VerifiedSoFar, FailuresCounted,
                VerifiedPairExact, GridFtpPhases, XrootdPhases
  <1>5. FailsOnce'
    BY <1>1, <1>2 DEF IInv, FailsOnce
  <1>6. Prepared' /\ ExistingKept'
    BY <1>1, <1>2 DEF IInv, Prepared, MayWrite, ExistingKept, globusVars
  <1>7. GlobusQuiet'
    BY <1>1 DEF IInv, GlobusQuiet, globusVars
  <1>8. SourceChecked'
    BY <1>1, <1>2 DEF IInv, SourceChecked, GridFtpPhases
  <1> QED
    BY <1>3, <1>4, <1>5, <1>6, <1>7, <1>8 DEF IInv

LEMMA ReadResultKeeps ==
    ASSUME IInv, ReadResult, UNCHANGED status
    PROVE  IInv'
  <1>1. /\ pc = "result"
        /\ UNCHANGED <<call, i, ferr, nfailed, ret, cancel, dst, sums, globusVars, waitVars>>
    BY DEF ReadResult, gridftpVars
  <1>2. /\ pc' \in {"retry", "close"} /\ op_error' \in Codes
        /\ pc' = "retry" => op_error' # "none"
    BY DEF ReadResult, IInv, TypeOK, Codes
  <1>3. Files' = Files /\ Failed' = Failed /\ Viable' = Viable
    BY <1>1, PairsKept
  <1>4. TypeOK /\ i = 1 /\ call.plugin = "gridftp"
    BY <1>1 DEF IInv, AtFirstPair, PhaseOfPlugin, GridFtpPhases
  <1>5. TypeOK'
    BY <1>1, <1>2, <1>3, <1>4 DEF TypeOK, Phases, globusVars, waitVars
  <1>6. PhaseOfPlugin' /\ AtFirstPair' /\ FailuresCounted' /\ VerifiedPairExact'
    BY <1>1, <1>2, <1>4 DEF PhaseOfPlugin, AtFirstPair, FailuresCounted,
                            VerifiedPairExact, GridFtpPhases, XrootdPhases
  <1>7. VerifiedSoFar'
    <2>1. \A f \in Viable : ~(f < 1)
      BY <1>4, Pairs
    <2> QED
      BY <1>1, <1>2, <1>3, <1>4, <2>1 DEF VerifiedSoFar
  <1>8. FailsOnce'
    BY <1>1, <1>2, <1>3 DEF IInv, FailsOnce
  <1>9. Prepared' /\ ExistingKept'
    BY <1>1, <1>2, <1>3 DEF IInv, Prepared, MayWrite, ExistingKept, globusVars
  <1>10. GlobusQuiet'
    BY <1>1, <1>2 DEF IInv, GlobusQuiet, globusVars, waitVars
  <1>11. SourceChecked'
    BY <1>1, <1>2, <1>3 DEF IInv, SourceChecked, GridFtpPhases
  <1> QED
    BY <1>5, <1>6, <1>7, <1>8, <1>9, <1>10, <1>11 DEF IInv

LEMMA RetryOrReturnKeeps ==
    ASSUME IInv, RetryOrReturn, UNCHANGED status
    PROVE  IInv'
  <1>1. /\ pc = "retry"
        /\ UNCHANGED <<dst, sums, index, queue, running, owed, wait_ret, expired>>
    BY DEF RetryOrReturn
  <1>2. TypeOK /\ op_error # "none" /\ op_error \in Codes /\ call.plugin = "gridftp"
    BY <1>1 DEF IInv, FailsOnce, PhaseOfPlugin, GridFtpPhases, TypeOK
  <1>3. CASE Return(-call.n, op_error) /\ UNCHANGED <<attempt, done, error>>
    <2>1. -call.n \in Int /\ -call.n < 0
      BY <1>2, Pairs
    <2> QED
      BY <1>1, <1>2, <1>3, <2>1, ReturnKeeps
  <1>4. CASE /\ attempt' = 2 /\ done' = FALSE /\ error' = "none" /\ op_error' = "none"
             /\ pc' = "start"
             /\ UNCHANGED <<call, i, ferr, nfailed, ret, cancel>>
    <2>1. Files' = Files /\ Failed' = Failed /\ Viable' = Viable
      BY <1>4, PairsKept
    <2>2. TypeOK'
      BY <1>1, <1>2, <1>4, <2>1 DEF TypeOK, Phases, Codes
    <2>3. /\ PhaseOfPlugin' /\ AtFirstPair' /\ VerifiedSoFar'
          /\ FailuresCounted' /\ VerifiedPairExact'
      BY <1>1, <1>2, <1>4 DEF IInv, PhaseOfPlugin, AtFirstPair, VerifiedSoFar, FailuresCounted,
                              VerifiedPairExact, GridFtpPhases, XrootdPhases
    <2>4. FailsOnce'
      BY <1>1, <1>4, <2>1 DEF IInv, FailsOnce
    <2>5. Prepared' /\ ExistingKept'
      BY <1>1, <1>4, <2>1 DEF IInv, Prepared, MayWrite, ExistingKept
    <2>6. GlobusQuiet'
      BY <1>1, <1>4 DEF IInv, GlobusQuiet
    <2>7. SourceChecked'
      BY <1>1, <1>4, <2>1 DEF IInv, SourceChecked, GridFtpPhases
    <2> QED
      BY <2>2, <2>3, <2>4, <2>5, <2>6, <2>7 DEF IInv
  <1> QED
    BY <1>3, <1>4 DEF RetryOrReturn

LEMMA CloseKeeps ==
    ASSUME IInv, Close, UNCHANGED status
    PROVE  IInv'
  <1>1. pc = "close" /\ UNCHANGED <<dst, sums, globusVars, waitVars>>
    BY DEF Close, gridftpVars
  <1>2. TypeOK /\ nfailed = Cardinality(Failed) /\ call.plugin = "gridftp"
    BY <1>1 DEF IInv, FailsOnce, PhaseOfPlugin, GridFtpPhases
  <1>3. \/ FileGoesOn("total")
        \/ ferr[i] = "none" /\ \E code \in {"EINTR", "EIO"} : FileFails(code, "total")
    BY DEF Close, CheckDestination
  <1>4. /\ i' \in Files /\ Files' = Files
        /\ \/ i < call.n /\ i' = i + 1 /\ pc' = pc
           \/ i = call.n /\ i' = 1 /\ pc' = "total"
        /\ UNCHANGED <<call, op_error, ret, cancel>>
        /\ ferr' \in [Files -> Codes] /\ nfailed' \in Nat
        /\ Failed' \subseteq Failed \cup {i} /\ Viable' \subseteq Viable
        /\ nfailed' = Cardinality(Failed')
        /\ i \in Viable' => FileGoesOn("total")
    BY <1>2, <1>3, PairDone DEF Codes
  <1>5. TypeOK'
    BY <1>1, <1>2, <1>4 DEF TypeOK, Phases, globusVars, waitVars
  <1>6. PhaseOfPlugin' /\ AtFirstPair' /\ FailuresCounted' /\ VerifiedPairExact'
    BY <1>1, <1>2, <1>4 DEF PhaseOfPlugin, AtFirstPair, FailuresCounted,
                            VerifiedPairExact, GridFtpPhases, XrootdPhases
  <1>7. FailsOnce'
    BY <1>1, <1>4 DEF FailsOnce
  <1>8. Prepared' /\ ExistingKept'
    BY <1>1, <1>4 DEF IInv, Prepared, MayWrite, ExistingKept, globusVars
  <1>9. GlobusQuiet'
    BY <1>1, <1>4 DEF IInv, GlobusQuiet, globusVars, waitVars
  <1>10. SourceChecked'
    BY <1>1, <1>2, <1>4 DEF IInv, SourceChecked, GridFtpPhases
  <1>11. VerifiedSoFar'
    <2>1. i \in Viable' => Exact(i)
      <3>1. SUFFICES ASSUME i \in Viable', call.mode = {"SOURCE", "TARGET"}
                     PROVE  dst[i] = "good" /\ call.arg[i] # "bad"
        BY DEF Exact
      <3>2. i \in Viable /\ ferr[i] = "none" /\ FileGoesOn("total")
        BY <1>4, <3>1 DEF Viable, Failed
      <3>3. \A code : ~(FileFails(code, "total") /\ FileGoesOn("total"))
        BY <1>2, Pairs DEF FileFails, FileGoesOn
      <3>4. sums[i] = "good" /\ call.arg[i] # "bad"
        BY <1>1, <1>2, <3>1, <3>2 DEF IInv, SourceChecked, GridFtpPhases
      <3>5. sums[i] \in {"empty", dst[i]}
        BY <3>1, <3>2, <3>3 DEF Close, CheckDestination
      <3> QED
        BY <3>4, <3>5
    <2>2. ASSUME ~expired', NEW f \in Viable', f <= i
          PROVE  Exact(f)
      BY <1>1, <1>2, <1>4, <2>1, <2>2, Pairs DEF IInv, VerifiedSoFar, waitVars
    <2>3. \A f : Exact(f)' <=> Exact(f)
      BY <1>1, <1>4 DEF Exact
    <2>4. CASE i < call.n /\ i' = i + 1 /\ pc' = "close"
      BY <1>2, <1>4, <2>2, <2>3, <2>4, Pairs DEF VerifiedSoFar
    <2>5. CASE i = call.n /\ pc' = "total"
      BY <1>2, <1>4, <2>2, <2>3, <2>5, Pairs DEF VerifiedSoFar
    <2> QED
      BY <1>1, <1>4, <2>4, <2>5
  <1> QED
    BY <1>5, <1>6, <1>7, <1>8, <1>9, <1>10, <1>11 DEF IInv

LEMMA ReturnTotalKeeps ==
    ASSUME IInv, ReturnTotal, UNCHANGED status
    PROVE  IInv'
  <1>1. pc = "total" /\ Return(-nfailed, "none") /\ UNCHANGED <<dst, gridftpVars>>
    BY DEF ReturnTotal
  <1>2. TypeOK /\ nfailed = Cardinality(Failed) /\ -nfailed \in Int
    BY DEF IInv, FailsOnce, TypeOK
  <1>3. ~expired => \A f \in Viable : Exact(f)
    BY <1>1 DEF IInv, VerifiedSoFar
  <1> QED
    BY <1>1, <1>2, <1>3, ReturnKeeps DEF Codes, gridftpVars, globusVars, waitVars

-----------------------------------------------------------------------------
(* Globus, in a thread of its own                                          *)

LEMMA PipelineCallbackKeeps ==
    ASSUME IInv, PipelineCallback, UNCHANGED status
    PROVE  IInv'
  <1>1. /\ running /\ index' = NextViable(index)
        /\ \/ index' <= call.n /\ queue' = Append(queue, index')
           \/ UNCHANGED queue
        /\ UNCHANGED <<stateVars, sums, running, owed, error, done, waitVars>>
    BY DEF PipelineCallback
  <1>2. TypeOK /\ index \in Nat /\ queue \in Seq(Files)
    BY DEF IInv, TypeOK
  <1>3. Files' = Files /\ Failed' = Failed /\ Viable' = Viable
    BY <1>1, PairsKept DEF stateVars
  <1>4. index' \in Nat /\ (index' <= call.n => index' \in Viable /\ index' \in Files)
    BY <1>1, <1>2, NextIsViable, Pairs
  <1>5. queue' \in Seq(Files)
    BY <1>1, <1>2, <1>4
  <1>6. TypeOK'
    BY <1>1, <1>2, <1>3, <1>4, <1>5 DEF TypeOK, stateVars, waitVars
  <1>7. /\ PhaseOfPlugin' /\ AtFirstPair' /\ FailsOnce' /\ SourceChecked' /\ FailuresCounted'
        /\ ExistingKept'
    BY <1>1, <1>3 DEF IInv, PhaseOfPlugin, AtFirstPair, FailsOnce, SourceChecked, FailuresCounted,
                      ExistingKept, stateVars, waitVars
  <1>8. VerifiedSoFar' /\ VerifiedPairExact'
    BY <1>1, <1>3 DEF IInv, VerifiedSoFar, VerifiedPairExact, Exact, stateVars, waitVars
  <1>9. GlobusQuiet'
    BY <1>1 DEF IInv, GlobusQuiet, stateVars, waitVars
  <1>10. Prepared'
    <2>1. \A f : MayWrite(f)' <=> MayWrite(f)
      BY <1>1 DEF MayWrite, stateVars
    <2>2. index' <= call.n => MayWrite(index')
      BY <1>1, <1>4 DEF IInv, Prepared
    <2>3. ASSUME NEW k \in DOMAIN queue'
          PROVE  MayWrite(queue'[k])
      BY <1>1, <1>2, <1>4, <2>2, <2>3 DEF IInv, Prepared
    <2>4. (\A k \in DOMAIN queue : MayWrite(queue[k]))'
      BY <1>1, <2>1, <2>3 DEF MayWrite, stateVars
    <2> QED
      BY <1>1, <1>3, <2>1, <2>4 DEF IInv, Prepared, stateVars
  <1> QED
    BY <1>6, <1>7, <1>8, <1>9, <1>10 DEF IInv

LEMMA TransferPairKeeps ==
    ASSUME IInv, TransferPair, UNCHANGED status
    PROVE  IInv'
  <1>1. /\ running /\ pc \notin Final /\ queue # <<>> /\ queue' = Tail(queue)
        /\ UNCHANGED <<call, pc, i, ferr, op_error, nfailed, ret, cancel, sums,
                       index, running, owed, error, done, waitVars>>
    BY DEF TransferPair
  <1>2. PICK c \in {"good", "garbled", "short"} : dst' = [dst EXCEPT ![Head(queue)] = c]
    BY DEF TransferPair
  <1>3. TypeOK /\ queue \in Seq(Files) /\ dst \in [Files -> Contents]
    BY DEF IInv, TypeOK
  <1>4. Files' = Files /\ Failed' = Failed /\ Viable' = Viable
    BY <1>1, PairsKept
  <1>5. /\ Head(queue) \in Files /\ Head(queue) = queue[1] /\ 1 \in DOMAIN queue
        /\ queue' \in Seq(Files)
        /\ \A k \in DOMAIN queue' : k + 1 \in DOMAIN queue /\ queue'[k] = queue[k + 1]
    BY <1>1, <1>3
  <1>6. dst' \in [Files -> Contents]
    BY <1>2, <1>3, <1>5 DEF Contents
  <1>7. TypeOK'
    BY <1>1, <1>3, <1>4, <1>5, <1>6 DEF TypeOK, waitVars
  <1>8. PhaseOfPlugin' /\ AtFirstPair' /\ FailsOnce' /\ SourceChecked' /\ FailuresCounted'
    BY <1>1, <1>4 DEF IInv, PhaseOfPlugin, AtFirstPair, FailsOnce, SourceChecked,
                      FailuresCounted, waitVars
  <1>9. GlobusQuiet'
    BY <1>1 DEF IInv, GlobusQuiet, waitVars
  <1>10. Prepared'
    <2>1. \A f : MayWrite(f)' <=> MayWrite(f)
      BY <1>1 DEF MayWrite
    <2>2. \A k \in DOMAIN queue' : MayWrite(queue'[k])
      BY <1>5 DEF IInv, Prepared
    <2>3. (\A k \in DOMAIN queue : MayWrite(queue[k]))'
      BY <1>1, <2>1, <2>2 DEF MayWrite
    <2> QED
      BY <1>1, <1>4, <2>1, <2>3 DEF IInv, Prepared
  <1>11. ExistingKept'
    <2>1. MayWrite(Head(queue))
      BY <1>5 DEF IInv, Prepared
    <2> QED
      BY <1>1, <1>2, <1>3, <1>4, <1>5, <2>1 DEF IInv, ExistingKept, MayWrite
  <1>12. VerifiedSoFar' /\ VerifiedPairExact'
    <2>1. pc' = "wait" \/ expired
      BY <1>1 DEF IInv, GlobusQuiet, Final
    <2>2. pc' # "returned" /\ expired' = expired
      BY <1>1 DEF Final, waitVars
    <2>3. expired => pc' \notin {"run", "results", "evict", "fallback", "copied"}
      BY <1>1 DEF IInv, PhaseOfPlugin, XrootdPhases
    <2>4. (pc \in {"enter", "jobs", "prepare"} => \A f \in Files : status[f] = "none")'
      BY <1>1, <1>4 DEF IInv, VerifiedSoFar
    <2> QED
      BY <2>1, <2>2, <2>3, <2>4 DEF VerifiedSoFar, VerifiedPairExact
  <1> QED
    BY <1>7, <1>8, <1>9, <1>10, <1>11, <1>12 DEF IInv

\* The end of the pipeline and the call that reports it
LEMMA GlobusEndsKeeps ==
    ASSUME IInv, PipelineEnds \/ DoneCallback, UNCHANGED status
    PROVE  IInv'
  <1>1. /\ \/ /\ running /\ running' = FALSE /\ queue' = <<>> /\ owed' = owed + 1
              /\ error' \in {error, "EIO", "EUDT"} /\ UNCHANGED done
           \/ /\ owed > 0 /\ owed' = owed - 1 /\ done' = TRUE
              /\ UNCHANGED <<queue, running, error>>
        /\ pc # "left" /\ UNCHANGED <<stateVars, sums, index, waitVars>>
    BY DEF PipelineEnds, DoneCallback, GlobusAlive
  <1>2. Files' = Files /\ Failed' = Failed /\ Viable' = Viable
    BY <1>1, PairsKept DEF stateVars
  <1>3. TypeOK /\ owed \in Nat
    BY DEF IInv, TypeOK
  <1>4. owed' \in Nat /\ queue' \in Seq(Files) /\ error' \in {"none", "EIO", "EUDT"}
    <2>1. owed' \in Nat
      BY <1>1, <1>3
    <2>2. queue' \in Seq(Files)
      <3>1. <<>> \in Seq(Files)
        OBVIOUS
      <3> QED
        BY <1>1, <1>3, <3>1 DEF TypeOK
    <2>3. error' \in {"none", "EIO", "EUDT"}
      BY <1>1, <1>3 DEF TypeOK
    <2> QED
      BY <2>1, <2>2, <2>3
  <1>5. TypeOK'
    BY <1>1, <1>2, <1>3, <1>4 DEF TypeOK, stateVars, waitVars
  <1>6. /\ PhaseOfPlugin' /\ AtFirstPair' /\ FailsOnce' /\ SourceChecked' /\ FailuresCounted'
        /\ ExistingKept'
    BY <1>1, <1>2 DEF IInv, PhaseOfPlugin, AtFirstPair, FailsOnce, SourceChecked, FailuresCounted,
                      ExistingKept, stateVars, waitVars
  <1>7. VerifiedSoFar' /\ VerifiedPairExact'
    BY <1>1, <1>2 DEF IInv, VerifiedSoFar, VerifiedPairExact, Exact, stateVars, waitVars
  <1>8. GlobusQuiet'
    BY <1>1, <1>3 DEF IInv, GlobusQuiet, stateVars, waitVars
  <1>9. Prepared'
    BY <1>1, <1>2 DEF IInv, Prepared, MayWrite, stateVars
  <1> QED
    BY <1>5, <1>6, <1>7, <1>8, <1>9 DEF IInv

-----------------------------------------------------------------------------
(* The XRootD plugin                                                       *)

LEMMA AddJobsKeeps ==
    ASSUME IInv, AddJobs \/ PrepareJobs, UNCHANGED gridftpVars
    PROVE  IInv'
  <1>1. UNCHANGED <<sums, globusVars, waitVars, status, dst>>
    BY DEF AddJobs, PrepareJobs, gridftpVars, Leave
  <1>2. CASE Leave
    BY <1>1, <1>2, LeaveKeeps DEF globusVars, waitVars
  <1>3. CASE pc = "prepare" /\ Return(-1, "EIO")
    BY <1>1, <1>3, ReturnKeeps DEF globusVars, waitVars, Codes
  <1>4. CASE pc \in {"jobs", "prepare"} /\ \E next \in {"prepare", "run"} : GoTo(next)
    <2>1. /\ pc' \in {"prepare", "run"} /\ pc \in {"jobs", "prepare"}
          /\ UNCHANGED <<call, i, ferr, op_error, nfailed, ret, cancel>>
      BY <1>4 DEF GoTo
    <2>2. Files' = Files /\ Failed' = Failed /\ Viable' = Viable
      BY <2>1, PairsKept
    <2>3. TypeOK'
      BY <1>1, <2>1, <2>2 DEF IInv, TypeOK, Phases, globusVars, waitVars
    <2>4. call.plugin = "xrootd" /\ i = 1 /\ Failed = {} /\ \A f \in Files : status[f] = "none"
      BY <2>1 DEF IInv, PhaseOfPlugin, AtFirstPair, FailsOnce, VerifiedSoFar, XrootdPhases
    <2>5. PhaseOfPlugin' /\ AtFirstPair' /\ SourceChecked' /\ FailuresCounted' /\ VerifiedPairExact'
      BY <1>1, <2>1, <2>4 DEF IInv, PhaseOfPlugin, AtFirstPair, SourceChecked, FailuresCounted,
                              VerifiedPairExact, GridFtpPhases, XrootdPhases, waitVars
    <2>6. FailsOnce'
      <3>1. TypeOK /\ \A f \in Files : ~(f < 1)
        BY Pairs DEF IInv
      <3> QED
        BY <1>1, <2>1, <2>2, <2>4, <3>1 DEF IInv, FailsOnce
    <2>7. Prepared' /\ ExistingKept'
      BY <1>1, <2>1, <2>2 DEF IInv, Prepared, MayWrite, ExistingKept, globusVars
    <2>8. GlobusQuiet'
      BY <1>1, <2>1 DEF IInv, GlobusQuiet, globusVars, waitVars
    <2>9. VerifiedSoFar'
      BY <1>1, <2>1, <2>2, <2>4 DEF VerifiedSoFar
    <2> QED
      BY <2>3, <2>5, <2>6, <2>7, <2>8, <2>9 DEF IInv
  <1> QED
    BY <1>2, <1>3, <1>4 DEF AddJobs, PrepareJobs

LEMMA RunJobKeeps ==
    ASSUME IInv, RunJob, UNCHANGED gridftpVars
    PROVE  IInv'
  <1>1. pc = "run" /\ FileGoesOn("results") /\ UNCHANGED <<sums, globusVars, waitVars>>
    BY DEF RunJob, gridftpVars
  <1>2. TypeOK /\ call.plugin = "xrootd" /\ Failed = {} /\ nfailed = Cardinality(Failed)
    BY <1>1 DEF IInv, PhaseOfPlugin, XrootdPhases, FailsOnce
  <1>3. /\ i' \in Files /\ Files' = Files
        /\ \/ i < call.n /\ i' = i + 1 /\ pc' = pc
           \/ i = call.n /\ i' = 1 /\ pc' = "results"
        /\ UNCHANGED <<call, op_error, ret, cancel, ferr, nfailed>>
        /\ Failed' = Failed /\ Viable' = Viable
    BY <1>1, <1>2, PairGoesOn
  <1>4. /\ i \in Files /\ dst \in [Files -> Contents]
        /\ status \in [Files -> {"none", "ok", "EEXIST", "EIO"}]
    BY <1>2 DEF TypeOK
  <1>5. PICK code \in {"ok", "EEXIST", "EIO"} :
            /\ status' = [status EXCEPT ![i] = code]
            /\ \/ UNCHANGED dst /\ code # "ok"
               \/ \E c \in {"good", "garbled", "short"} :
                     dst' = [dst EXCEPT ![i] = c] /\ (code = "ok" => Accepts(c))
    BY DEF RunJob, Write
  <1>6. /\ status' \in [Files -> {"none", "ok", "EEXIST", "EIO"}] /\ dst' \in [Files -> Contents]
        /\ status'[i] = code
        /\ \A f \in Files : f # i => status'[f] = status[f] /\ dst'[f] = dst[f]
    BY <1>4, <1>5 DEF Contents
  <1>7. TypeOK'
    BY <1>1, <1>2, <1>3, <1>6 DEF TypeOK, Phases, globusVars, waitVars
  <1>8. PhaseOfPlugin' /\ AtFirstPair' /\ SourceChecked' /\ FailuresCounted' /\ VerifiedPairExact'
    BY <1>1, <1>2, <1>3 DEF IInv, PhaseOfPlugin, AtFirstPair, SourceChecked, FailuresCounted,
                            VerifiedPairExact, GridFtpPhases, XrootdPhases, waitVars
  <1>9. FailsOnce'
    <2>1. ASSUME NEW f \in Files, f <= i
          PROVE  status'[f] # "none"
      BY <1>1, <1>2, <1>5, <1>6, <2>1, Pairs DEF IInv, FailsOnce
    <2>2. CASE i < call.n /\ i' = i + 1 /\ pc' = "run"
      BY <1>2, <1>3, <2>1, <2>2, Pairs DEF FailsOnce
    <2>3. CASE i = call.n /\ pc' = "results"
      BY <1>2, <1>3, <2>1, <2>3, Pairs DEF FailsOnce
    <2> QED
      BY <1>1, <1>3, <2>2, <2>3
  <1>10. Prepared' /\ ExistingKept'
    BY <1>1, <1>2, <1>3 DEF IInv, Prepared, MayWrite, ExistingKept, globusVars
  <1>11. GlobusQuiet'
    BY <1>1, <1>3 DEF IInv, GlobusQuiet, globusVars, waitVars
  <1>12. VerifiedSoFar'
    <2>1. status'[i] = "ok" /\ call.mode = {"SOURCE", "TARGET"}
            => dst'[i] = "good" /\ call.arg[i] # "bad"
      <3>1. SUFFICES ASSUME code = "ok", call.mode = {"SOURCE", "TARGET"}
                     PROVE  dst'[i] = "good" /\ call.arg[i] # "bad"
        BY <1>6
      <3>2. PICK c \in {"good", "garbled", "short"} : dst' = [dst EXCEPT ![i] = c] /\ Accepts(c)
        BY <1>5, <3>1
      <3>3. Preset(i) = "good" /\ Preset(i) = c
        BY <3>1, <3>2 DEF Accepts
      <3> QED
        BY <1>4, <3>2, <3>3 DEF Preset
    <2>2. ASSUME NEW f \in Files, status'[f] = "ok"
          PROVE  Exact(f)'
      <3>1. CASE f = i
        BY <1>3, <2>1, <2>2, <3>1 DEF Exact
      <3>2. CASE f # i
        BY <1>1, <1>3, <1>6, <2>2, <3>2 DEF IInv, VerifiedSoFar, Exact
      <3> QED
        BY <3>1, <3>2
    <2>3. \A f \in Viable : f \in Nat /\ ~(f < 1)
      BY <1>2, Pairs
    <2> QED
      BY <1>1, <1>3, <2>2, <2>3 DEF VerifiedSoFar
  <1> QED
    BY <1>7, <1>8, <1>9, <1>10, <1>11, <1>12 DEF IInv

LEMMA SingleResultKeeps ==
    ASSUME IInv, SingleResult, UNCHANGED gridftpVars
    PROVE  IInv'
  <1>1. /\ pc = "results" /\ status[i] # "ok" /\ Return(-1, status[i])
        /\ UNCHANGED <<sums, globusVars, waitVars, status>>
        /\ UNCHANGED dst \/ dst' = [dst EXCEPT ![i] = "absent"]
    BY DEF SingleResult, CleanUp, Write, gridftpVars
  <1>2. TypeOK /\ call.plugin = "xrootd" /\ status[i] # "none"
    BY <1>1 DEF IInv, PhaseOfPlugin, XrootdPhases, FailsOnce, TypeOK
  <1>3. status[i] \in Codes
    BY <1>1, <1>2 DEF TypeOK, Codes
  <1>4. dst' \in [Files -> Contents]
    BY <1>1, <1>2 DEF TypeOK, Contents
  <1>5. -1 \in Int /\ -1 < 0
    OBVIOUS
  <1> QED
    BY <1>1, <1>2, <1>3, <1>4, <1>5, ReturnKeeps DEF globusVars, waitVars

LEMMA CollectResultKeeps ==
    ASSUME IInv, CollectResult, UNCHANGED gridftpVars
    PROVE  IInv'
  <1>1. pc = "results" /\ UNCHANGED <<sums, globusVars, waitVars, status>>
    BY DEF CollectResult, gridftpVars
  <1>2. /\ TypeOK /\ call.plugin = "xrootd" /\ nfailed = Cardinality(Failed)
        /\ status[i] # "none" /\ \A f \in Failed : f < i
    BY <1>1 DEF IInv, PhaseOfPlugin, XrootdPhases, FailsOnce, TypeOK
  <1>3. CASE Leave
    BY <1>1, <1>3, LeaveKeeps DEF globusVars, waitVars
  <1>4. CASE \/ status[i] = "ok" /\ FileGoesOn("evict") /\ UNCHANGED dst
             \/ /\ status[i] # "ok" /\ FileFails(status[i], "evict")
                /\ UNCHANGED dst \/ dst' = [dst EXCEPT ![i] = "absent"]
    <2>1. /\ i \in Files /\ dst \in [Files -> Contents] /\ ferr[i] = "none"
          /\ status[i] \in {"ok", "EEXIST", "EIO"}
      BY <1>2, Pairs DEF TypeOK, Failed
    <2>2. /\ i' \in Files /\ Files' = Files
          /\ \/ i < call.n /\ i' = i + 1 /\ pc' = pc
             \/ i = call.n /\ i' = 1 /\ pc' = "evict"
          /\ UNCHANGED <<call, op_error, ret, cancel>>
          /\ ferr' \in [Files -> Codes] /\ nfailed' \in Nat
          /\ Failed' \subseteq Failed \cup {i} /\ Viable' \subseteq Viable
          /\ nfailed' = Cardinality(Failed')
          /\ i \in Viable' => FileGoesOn("evict")
      BY <1>2, <1>4, <2>1, PairDone DEF Codes
    <2>3. /\ dst' \in [Files -> Contents]
          /\ \A f \in Files : status[f] = "ok" => dst'[f] = dst[f]
      BY <1>4, <2>1 DEF Contents
    <2>4. i \in Viable' => status[i] = "ok"
      <3>1. \A code : ~(FileFails(code, "evict") /\ FileGoesOn("evict"))
        BY <1>2, Pairs DEF FileFails, FileGoesOn
      <3> QED
        BY <1>4, <2>2, <3>1
    <2>5. TypeOK'
      BY <1>1, <1>2, <2>2, <2>3 DEF TypeOK, Phases, globusVars, waitVars
    <2>6. PhaseOfPlugin' /\ AtFirstPair' /\ SourceChecked' /\ FailuresCounted' /\ VerifiedPairExact'
      BY <1>1, <1>2, <2>2 DEF IInv, PhaseOfPlugin, AtFirstPair, SourceChecked, FailuresCounted,
                              VerifiedPairExact, GridFtpPhases, XrootdPhases, waitVars
    <2>7. FailsOnce'
      BY <1>1, <1>2, <2>2, Pairs DEF IInv, FailsOnce
    <2>8. Prepared' /\ ExistingKept'
      BY <1>1, <1>2, <2>2 DEF IInv, Prepared, MayWrite, ExistingKept, globusVars
    <2>9. GlobusQuiet'
      BY <1>1, <2>2 DEF IInv, GlobusQuiet, globusVars, waitVars
    <2>10. VerifiedSoFar'
      <3>1. \A f \in Files : status'[f] = "ok" => Exact(f)'
        BY <1>1, <2>2, <2>3 DEF IInv, VerifiedSoFar, Exact
      <3>2. ASSUME NEW f \in Viable', f <= i
            PROVE  status'[f] = "ok"
        BY <1>1, <1>2, <2>2, <2>4, <3>2, Pairs DEF IInv, VerifiedSoFar
      <3>3. CASE i < call.n /\ i' = i + 1 /\ pc' = "results"
        BY <1>2, <2>2, <3>1, <3>2, <3>3, Pairs DEF VerifiedSoFar
      <3>4. CASE i = call.n /\ pc' = "evict"
        BY <1>2, <2>2, <3>1, <3>2, <3>4, Pairs DEF VerifiedSoFar
      <3> QED
        BY <1>1, <2>2, <3>3, <3>4
    <2> QED
      BY <2>5, <2>6, <2>7, <2>8, <2>9, <2>10 DEF IInv
  <1> QED
    BY <1>3, <1>4 DEF CollectResult, CleanUp, Write

LEMMA EvictAndReturnKeeps ==
    ASSUME IInv, EvictAndReturn, UNCHANGED gridftpVars
    PROVE  IInv'
  <1>1. pc = "evict" /\ Return(-nfailed, "none") /\ UNCHANGED <<dst, status, gridftpVars>>
    BY DEF EvictAndReturn
  <1>2. TypeOK /\ nfailed = Cardinality(Failed) /\ -nfailed \in Int
    BY DEF IInv, FailsOnce, TypeOK
  <1>3. \A f \in Viable : Exact(f)
    BY <1>1, <1>2, Pairs DEF IInv, VerifiedSoFar
  <1> QED
    BY <1>1, <1>2, <1>3, ReturnKeeps DEF Codes, gridftpVars, globusVars, waitVars

-----------------------------------------------------------------------------
(* The core: the entry, the copies one by one, the cancellation            *)

LEMMA EnterKeeps ==
    ASSUME IInv, Enter
    PROVE  IInv'
  <1>1. pc = "enter" /\ UNCHANGED <<dst, gridftpVars, status>>
    BY DEF Enter
  <1>2. CASE Return(-1, "ECANCELED")
    BY <1>1, <1>2, ReturnKeeps DEF Codes, gridftpVars, globusVars, waitVars
  <1>3. CASE \/ call.plugin = "gridftp" /\ GoTo("setup")
             \/ call.plugin = "xrootd" /\ GoTo("jobs")
             \/ call.plugin = "none" /\ GoTo("fallback")
    <2>1. /\ \/ call.plugin = "gridftp" /\ pc' = "setup"
             \/ call.plugin = "xrootd" /\ pc' = "jobs"
             \/ call.plugin = "none" /\ pc' = "fallback"
          /\ UNCHANGED <<call, i, ferr, op_error, nfailed, ret, cancel>>
      BY <1>3 DEF GoTo
    <2>2. UNCHANGED <<sums, globusVars, waitVars>>
      BY <1>1 DEF gridftpVars
    <2>3. Files' = Files /\ Failed' = Failed /\ Viable' = Viable
      BY <2>1, PairsKept
    <2>4. TypeOK /\ i = 1 /\ Failed = {} /\ \A f \in Files : status[f] = "none"
      BY <1>1 DEF IInv, AtFirstPair, FailsOnce, VerifiedSoFar
    <2>5. \A f \in Files : ~(f < 1)
      BY <2>4, Pairs
    <2>6. TypeOK'
      BY <1>1, <2>1, <2>2, <2>3, <2>4 DEF TypeOK, Phases, globusVars, waitVars
    <2>7. /\ PhaseOfPlugin' /\ AtFirstPair' /\ SourceChecked' /\ FailuresCounted'
          /\ VerifiedPairExact'
      BY <1>1, <2>1, <2>2, <2>4 DEF IInv, PhaseOfPlugin, AtFirstPair, SourceChecked,
                                    FailuresCounted,
                                    VerifiedPairExact, GridFtpPhases, XrootdPhases, waitVars
    <2>8. FailsOnce'
      BY <1>1, <2>1, <2>3, <2>4 DEF IInv, FailsOnce
    <2>9. Prepared' /\ ExistingKept'
      BY <1>1, <2>1, <2>2, <2>3 DEF IInv, Prepared, MayWrite, ExistingKept, globusVars
    <2>10. GlobusQuiet'
      BY <1>1, <2>1, <2>2 DEF IInv, GlobusQuiet, globusVars, waitVars
    <2>11. VerifiedSoFar'
      BY <1>1, <2>1, <2>3, <2>4, <2>5 DEF VerifiedSoFar, Viable
    <2> QED
      BY <2>6, <2>7, <2>8, <2>9, <2>10, <2>11 DEF IInv
  <1> QED
    BY <1>2, <1>3 DEF Enter

\* A pair that passes a copy with both checksums is exact.
LEMMA PassedIsExact ==
    ASSUME NEW c \in {"good", "garbled", "short"}, SetChecksum, Passes(c),
           call.mode = {"SOURCE", "TARGET"}
    PROVE  c = "good" /\ call.arg[i] # "bad"
  <1>1. /\ checksum_value' \in {"empty", "good"}
        /\ c = IF checksum_value' = "empty" THEN "good" ELSE checksum_value'
    BY DEF Passes
  <1>2. call.arg[i] = "bad" => checksum_value' = "bad"
    BY DEF SetChecksum, Value
  <1> QED
    BY <1>1, <1>2

LEMMA FallbackPairKeeps ==
    ASSUME IInv, FallbackPair
    PROVE  IInv'
  <1>1. pc = "fallback" /\ UNCHANGED <<sums, globusVars, waitVars, status>>
    BY DEF FallbackPair, gridftpVars
  <1>2. /\ TypeOK /\ call.plugin = "none" /\ nfailed = Cardinality(Failed)
        /\ \A f \in Failed : f < i
    BY <1>1 DEF IInv, PhaseOfPlugin, FailsOnce
  <1>3. i \in Files /\ dst \in [Files -> Contents] /\ ferr[i] = "none"
    BY <1>2, Pairs DEF TypeOK, Failed
  <1>4. \/ /\ FileGoesOn("copied") /\ MayCreate /\ SetChecksum
           /\ \E c \in {"good", "garbled", "short"} : Passes(c) /\ dst' = [dst EXCEPT ![i] = c]
        \/ /\ \E code \in {"EINVAL", "EEXIST", "EIO"} : FileFails(code, "copied")
           /\ \/ UNCHANGED dst
              \/ MayCreate /\ \E c \in Contents : dst' = [dst EXCEPT ![i] = c]
    BY DEF FallbackPair, PerformCopy, Write
  <1>5. /\ i' \in Files /\ Files' = Files
        /\ \/ i < call.n /\ i' = i + 1 /\ pc' = pc
           \/ i = call.n /\ i' = 1 /\ pc' = "copied"
        /\ UNCHANGED <<call, op_error, ret, cancel>>
        /\ ferr' \in [Files -> Codes] /\ nfailed' \in Nat
        /\ Failed' \subseteq Failed \cup {i} /\ Viable' \subseteq Viable
        /\ nfailed' = Cardinality(Failed')
        /\ i \in Viable' => FileGoesOn("copied")
    BY <1>2, <1>3, <1>4, PairDone DEF Codes
  <1>6. /\ dst' \in [Files -> Contents]
        /\ \A f \in Files : f # i => dst'[f] = dst[f]
        /\ MayCreate \/ dst' = dst
    BY <1>3, <1>4 DEF Contents
  <1>7. i \in Viable' /\ call.mode = {"SOURCE", "TARGET"} => dst'[i] = "good" /\ call.arg[i] # "bad"
    <2>1. SUFFICES ASSUME i \in Viable', call.mode = {"SOURCE", "TARGET"}
                   PROVE  dst'[i] = "good" /\ call.arg[i] # "bad"
      OBVIOUS
    <2>2. \A code : ~(FileFails(code, "copied") /\ FileGoesOn("copied"))
      BY <1>2, Pairs DEF FileFails, FileGoesOn
    <2>3. PICK c \in {"good", "garbled", "short"} : Passes(c) /\ dst' = [dst EXCEPT ![i] = c]
      BY <1>4, <1>5, <2>1, <2>2
    <2>4. SetChecksum
      BY <1>4, <1>5, <2>1, <2>2
    <2> QED
      BY <1>3, <2>1, <2>3, <2>4, PassedIsExact
  <1>8. TypeOK'
    BY <1>1, <1>2, <1>5, <1>6 DEF TypeOK, Phases, globusVars, waitVars
  <1>9. PhaseOfPlugin' /\ AtFirstPair' /\ SourceChecked' /\ FailuresCounted' /\ VerifiedPairExact'
    BY <1>1, <1>2, <1>5 DEF IInv, PhaseOfPlugin, AtFirstPair, SourceChecked, FailuresCounted,
                            VerifiedPairExact, GridFtpPhases, XrootdPhases, waitVars
  <1>10. FailsOnce'
    BY <1>1, <1>2, <1>5, Pairs DEF IInv, FailsOnce
  <1>11. Prepared'
    BY <1>1, <1>5 DEF IInv, Prepared, MayWrite, globusVars
  <1>12. ExistingKept'
    BY <1>2, <1>3, <1>5, <1>6 DEF IInv, ExistingKept, MayCreate
  <1>13. GlobusQuiet'
    BY <1>1, <1>5 DEF IInv, GlobusQuiet, globusVars, waitVars
  <1>14. VerifiedSoFar'
    <2>1. ASSUME NEW f \in Viable', f <= i
          PROVE  Exact(f)'
      <3>1. CASE f = i
        BY <1>5, <1>7, <3>1 DEF Exact
      <3>2. CASE f < i
        BY <1>1, <1>2, <1>5, <1>6, <3>2, Pairs DEF IInv, VerifiedSoFar, Exact
      <3>3. f \in Nat /\ i \in Nat
        BY <1>2, <1>5, Pairs
      <3> QED
        BY <2>1, <3>1, <3>2, <3>3
    <2>2. CASE i < call.n /\ i' = i + 1 /\ pc' = "fallback"
      BY <1>2, <1>5, <2>1, <2>2, Pairs DEF VerifiedSoFar
    <2>3. CASE i = call.n /\ pc' = "copied"
      BY <1>2, <1>5, <2>1, <2>3, Pairs DEF VerifiedSoFar
    <2> QED
      BY <1>1, <1>5, <2>2, <2>3
  <1> QED
    BY <1>8, <1>9, <1>10, <1>11, <1>12, <1>13, <1>14 DEF IInv

LEMMA FallbackReturnKeeps ==
    ASSUME IInv, FallbackReturn
    PROVE  IInv'
  <1>1. pc = "copied" /\ Return(-nfailed, op_error) /\ UNCHANGED <<dst, gridftpVars, status>>
    BY DEF FallbackReturn
  <1>2. nfailed = Cardinality(Failed) /\ -nfailed \in Int /\ op_error \in Codes
    BY DEF IInv, FailsOnce, TypeOK
  <1>3. \A f \in Viable : Exact(f)
    BY <1>1 DEF IInv, VerifiedSoFar
  <1> QED
    BY <1>1, <1>2, <1>3, ReturnKeeps DEF gridftpVars, globusVars, waitVars

LEMMA CancelKeeps ==
    ASSUME IInv, Cancel
    PROVE  IInv'
  <1>1. /\ cancel' = TRUE /\ pc \notin Final
        /\ pc' = pc \/ (pc = "wait" /\ pc' = "left")
        /\ UNCHANGED <<call, i, ferr, op_error, nfailed, ret, dst, status, gridftpVars>>
    BY DEF Cancel
  <1>2. Files' = Files /\ Failed' = Failed /\ Viable' = Viable
    BY <1>1, PairsKept
  <1>3. UNCHANGED <<sums, globusVars, waitVars>>
    BY <1>1 DEF gridftpVars
  <1>4. CASE pc = "wait" /\ pc' = "left"
    <2>1. TypeOK'
      BY <1>1, <1>2, <1>3, <1>4 DEF IInv, TypeOK, Phases, Final, globusVars, waitVars
    <2>2. /\ PhaseOfPlugin' /\ AtFirstPair' /\ SourceChecked' /\ FailuresCounted'
          /\ VerifiedPairExact' /\ VerifiedSoFar'
      BY <1>1, <1>2, <1>3, <1>4
      DEF IInv, PhaseOfPlugin, AtFirstPair, SourceChecked, FailuresCounted, VerifiedPairExact,
          VerifiedSoFar, GridFtpPhases, XrootdPhases, waitVars
    <2>3. FailsOnce' /\ GlobusQuiet'
      BY <1>1, <1>2, <1>3, <1>4 DEF IInv, FailsOnce, GlobusQuiet, globusVars, waitVars
    <2>4. Prepared' /\ ExistingKept'
      BY <1>1, <1>2, <1>3, <1>4 DEF IInv, Prepared, MayWrite, ExistingKept, globusVars
    <2> QED
      BY <2>1, <2>2, <2>3, <2>4 DEF IInv
  <1>5. CASE pc' = pc
    <2>1. TypeOK'
      BY <1>1, <1>2, <1>3, <1>5 DEF IInv, TypeOK, globusVars, waitVars
    <2>2. PhaseOfPlugin' /\ AtFirstPair' /\ SourceChecked'
      BY <1>1, <1>2, <1>3, <1>5 DEF IInv, PhaseOfPlugin, AtFirstPair, SourceChecked, waitVars
    <2>3. FailuresCounted' /\ VerifiedPairExact'
      BY <1>1, <1>5 DEF FailuresCounted, VerifiedPairExact, Final
    <2>4. VerifiedSoFar'
      BY <1>1, <1>2, <1>3, <1>5 DEF IInv, VerifiedSoFar, Exact, waitVars
    <2>5. FailsOnce' /\ GlobusQuiet'
      BY <1>1, <1>2, <1>3, <1>5 DEF IInv, FailsOnce, GlobusQuiet, globusVars, waitVars
    <2>6. Prepared' /\ ExistingKept'
      BY <1>1, <1>2, <1>3, <1>5 DEF IInv, Prepared, MayWrite, ExistingKept, globusVars
    <2> QED
      BY <2>1, <2>2, <2>3, <2>4, <2>5, <2>6 DEF IInv
  <1> QED
    BY <1>1, <1>4, <1>5

LEMMA StutterKeeps ==
    ASSUME IInv, UNCHANGED vars
    PROVE  IInv'
  <1>1. /\ UNCHANGED <<call, pc, i, ferr, op_error, nfailed, ret, dst, cancel>>
        /\ UNCHANGED <<sums, globusVars, waitVars, status>>
    BY DEF vars, stateVars, gridftpVars
  <1>2. Files' = Files /\ Failed' = Failed /\ Viable' = Viable
    BY <1>1, PairsKept
  <1>3. TypeOK'
    BY <1>1, <1>2 DEF IInv, TypeOK, globusVars, waitVars
  <1>4. PhaseOfPlugin' /\ AtFirstPair' /\ SourceChecked'
    BY <1>1, <1>2 DEF IInv, PhaseOfPlugin, AtFirstPair, SourceChecked, waitVars
  <1>5. FailuresCounted' /\ VerifiedPairExact' /\ VerifiedSoFar'
    BY <1>1, <1>2 DEF IInv, FailuresCounted, VerifiedPairExact, VerifiedSoFar, Exact, waitVars
  <1>6. FailsOnce' /\ GlobusQuiet'
    BY <1>1, <1>2 DEF IInv, FailsOnce, GlobusQuiet, globusVars, waitVars
  <1>7. Prepared' /\ ExistingKept'
    BY <1>1, <1>2 DEF IInv, Prepared, MayWrite, ExistingKept, globusVars
  <1> QED
    BY <1>3, <1>4, <1>5, <1>6, <1>7 DEF IInv

-----------------------------------------------------------------------------
(* The theorems                                                            *)

LEMMA InitiallyIInv ==
    ASSUME Init
    PROVE  IInv
  <1>1. /\ call \in Calls /\ pc = "enter" /\ i = 1 /\ ferr = [f \in Files |-> "none"]
        /\ op_error = "none" /\ nfailed = 0 /\ ret = 0 /\ dst = call.was
        /\ sums = [f \in Files |-> "empty"] /\ attempt = 1 /\ index = 0 /\ queue = <<>>
        /\ running = FALSE /\ owed = 0 /\ error = "none" /\ done = FALSE
        /\ wait_ret = "none" /\ expired = FALSE /\ status = [f \in Files |-> "none"]
    BY DEF Init, StateInit, GridFtpInit, XrootdInit
  <1>2. /\ Files = 1 .. call.n /\ call.n \in Nat /\ call.n >= 1
        /\ call.was \in [1 .. call.n -> {"absent", "old"}]
    BY <1>1, CallShape
  <1>3. Failed = {} /\ Cardinality(Failed) = 0
    BY <1>1, FS_EmptySet DEF Failed
  <1>4. queue \in Seq(Files) /\ DOMAIN queue = {}
    BY <1>1
  <1>5. TypeOK
    BY <1>1, <1>2, <1>4 DEF TypeOK, Phases, Codes, Contents
  <1>6. /\ PhaseOfPlugin /\ AtFirstPair /\ SourceChecked /\ FailuresCounted
        /\ VerifiedPairExact /\ VerifiedSoFar
    BY <1>1 DEF PhaseOfPlugin, AtFirstPair, SourceChecked, FailuresCounted, VerifiedPairExact,
                VerifiedSoFar, GridFtpPhases, XrootdPhases
  <1>7. FailsOnce /\ GlobusQuiet
    BY <1>1, <1>3 DEF FailsOnce, GlobusQuiet
  <1>8. Prepared /\ ExistingKept
    BY <1>1, <1>4 DEF Prepared, ExistingKept
  <1> QED
    BY <1>5, <1>6, <1>7, <1>8 DEF IInv

LEMMA NextKeeps ==
    ASSUME IInv, [Next]_vars
    PROVE  IInv'
  <1>1. CASE Enter
    BY <1>1, EnterKeeps
  <1>2. CASE GridFtp
    BY <1>2, SetupKeeps, CheckSourceKeeps, PrepareDestinationKeeps, StartTransferKeeps, WaitKeeps,
       ReadResultKeeps, RetryOrReturnKeeps, CloseKeeps, ReturnTotalKeeps DEF GridFtp, CallerStep
  <1>3. CASE Timeout
    BY <1>3, WaitKeeps DEF Timeout
  <1>4. CASE Globus
    BY <1>4, PipelineCallbackKeeps, TransferPairKeeps, GlobusEndsKeeps DEF Globus, GlobusStep
  <1>5. CASE Xrootd
    BY <1>5, AddJobsKeeps, RunJobKeeps, SingleResultKeeps, CollectResultKeeps, EvictAndReturnKeeps
    DEF Xrootd, XrootdNext
  <1>6. CASE Fallback
    BY <1>6, FallbackPairKeeps, FallbackReturnKeeps DEF Fallback
  <1>7. CASE Cancel
    BY <1>7, CancelKeeps
  <1>8. CASE UNCHANGED vars
    BY <1>8, StutterKeeps
  <1> QED
    BY <1>1, <1>2, <1>3, <1>4, <1>5, <1>6, <1>7, <1>8 DEF Next

\* The invariant of a bulk copy holds with any number of pairs and whichever
\* checksums the user gives: the types, which pairs have failed, what Globus
\* was given, and which pairs are verified in every phase.
THEOREM BulkInvariant == Spec => []IInv
  <1>1. Init => IInv
    BY InitiallyIInv
  <1>2. IInv /\ [Next]_vars => IInv'
    BY NextKeeps
  <1> QED
    BY <1>1, <1>2, PTL DEF Spec

\* gfalt_copy_bulk returns the number of pairs with an error, in each of its
\* three implementations and at whichever stage a pair failed, save for a
\* failure of the whole operation and a cancellation before the pipeline.
THEOREM FailuresAreCounted == Spec => []FailuresCounted
  <1>1. IInv => FailuresCounted
    BY DEF IInv
  <1> QED
    BY <1>1, BulkInvariant, PTL

\* A destination that was there and may not be replaced is left alone by the
\* preparation of GridFTP, by the Globus pipeline, also after its wait timed
\* out, and by the copies one by one.
THEOREM ExistingIsKept == Spec => []ExistingKept
  <1>1. IInv => ExistingKept
    BY DEF IInv
  <1> QED
    BY <1>1, BulkInvariant, PTL

\* A pair that a call with both checksums reports as copied is at the
\* destination, is the source, and had no wrong checksum of the user.
THEOREM VerifiedPairIsExact == Spec => []VerifiedPairExact
  <1>1. IInv => VerifiedPairExact
    BY DEF IInv
  <1> QED
    BY <1>1, BulkInvariant, PTL
=============================================================================
