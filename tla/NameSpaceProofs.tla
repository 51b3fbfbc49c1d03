-------------------------- MODULE NameSpaceProofs ---------------------------
(***************************************************************************)
(* Proofs about NameSpace, for any tree, any numbers of threads, URLs,     *)
(* servers and calls, and any changes by the other process.  The parts of  *)
(* the library do not share state: each has an invariant of its own that   *)
(* only its own steps can disturb.                                         *)
(***************************************************************************)
EXTENDS NameSpace, FiniteSetTheorems, SequenceTheorems, WellFoundedInduction, TLAPS

-----------------------------------------------------------------------------
(* Numbers.  The library's induction takes an operator; these take a set.  *)

\* A set of numbers that is not empty has a least element.
LEMMA LeastOf ==
    ASSUME NEW S, S \subseteq Nat, S # {}
    PROVE  \E g \in S : \A h \in S : g <= h
  <1> DEFINE R == OpToRel(<, Nat)
  <1>1. IsWellFoundedOn(R, Nat)
    BY NatLessThanWellFounded
  <1>2. R = {p \in Nat \X Nat : p[1] < p[2]}
    BY DEF OpToRel
  <1> HIDE DEF R
  <1>3. PICK g \in S : \A h \in S : ~(<<h, g>> \in R)
    BY <1>1, WFMin
  <1>4. ASSUME NEW h \in S
        PROVE  g <= h
    <2>1. g \in Nat /\ h \in Nat /\ <<h, g>> \in Nat \X Nat
      BY <1>3
    <2>2. ~(h < g)
      BY <1>2, <1>3, <2>1
    <2> QED
      BY <2>1, <2>2
  <1> QED
    BY <1>3, <1>4

\* Induction, for a set of numbers.
LEMMA InductOn ==
    ASSUME NEW P, 0 \in P, \A n \in Nat : n \in P => n + 1 \in P
    PROVE  Nat \subseteq P
  <1> SUFFICES ASSUME Nat \ P # {} PROVE FALSE
    OBVIOUS
  <1>1. PICK g \in Nat \ P : \A h \in Nat \ P : g <= h
    BY LeastOf
  <1>2. g # 0 /\ g - 1 \in Nat /\ g - 1 \in P
    BY <1>1
  <1> QED
    BY <1>1, <1>2

\* SelectInSeq takes the first element that passes.
LEMMA FirstIn ==
    ASSUME NEW n \in Nat, NEW S, S \subseteq 1 .. n, S # {}
    PROVE  Min(S) \in S /\ \A i \in S : Min(S) <= i
  <1>1. S \subseteq Nat
    OBVIOUS
  <1>2. \E g \in S : \A h \in S : g <= h
    BY <1>1, LeastOf
  <1> QED
    BY <1>2 DEF Min

-----------------------------------------------------------------------------
(* gfal2_mkdir_rec                                                         *)

\* What a request to make the directory p may do: the tree stays or gets p,
\* and the code says what was in the way.
LEMMA MkdirAnswer ==
    ASSUME NEW p \in Paths, tree \in [Paths -> Kinds],
           NEW a \in Answers(MkdirCode(p), With(p, "dir"))
    PROVE  /\ a.tree \in [Paths -> Kinds]
           /\ \A q \in Paths : tree[q] # "absent" => a.tree[q] = tree[q]
           /\ a.code \in {"OK", "EEXIST", "ENOENT", "ENOTDIR", "ECOMM"}
           /\ a.code \in {"OK", "EEXIST"} => a.tree[p] # "absent"
           /\ a.code \in {"EEXIST", "ENOENT", "ENOTDIR"} => a.tree = tree
           /\ a.code = "ENOENT" => ~Exists(Parent[p])
           /\ a.code = "ENOTDIR" => IsFile(Parent[p])
  <1> USE MkdirRecAssumption
  <1>1. With(p, "dir") \in [Paths -> Kinds]
    BY DEF With, Kinds
  <1>2. \A q \in Paths : tree[q] # "absent" /\ MkdirCode(p) = "OK" => With(p, "dir")[q] = tree[q]
    BY DEF With, MkdirCode, Exists
  <1>3. MkdirCode(p) \in {"OK", "EEXIST", "ENOENT", "ENOTDIR"}
    BY DEF MkdirCode
  <1>4. /\ MkdirCode(p) = "EEXIST" => tree[p] # "absent"
        /\ MkdirCode(p) = "ENOENT" => ~Exists(Parent[p])
        /\ MkdirCode(p) = "ENOTDIR" => IsFile(Parent[p])
    BY DEF MkdirCode, Exists, IsFile
  <1>5. With(p, "dir")[p] = "dir"
    BY DEF With
  <1> QED
    BY <1>1, <1>2, <1>3, <1>4, <1>5 DEF Answers

\* Nothing that is there goes away unless it is counted as lost.
LEMMA MeddledTree ==
    ASSUME NEW p \in Paths, tree \in [Paths -> Kinds], tree' \in Meddled(p)
    PROVE  /\ tree' \in [Paths -> Kinds]
           /\ \A q \in Paths : tree[q] # "absent" => tree'[q] = tree[q] \/ tree'[p] = "absent"
  BY MkdirRecAssumption DEF Meddled, With, Without, Kinds, Exists

\* No directory is to be made yet.
LEMMA MkdirRecInitially == Init => MkdirRecInv
  <1> SUFFICES ASSUME Init PROVE MkdirRecInv
    OBVIOUS
  <1>1. NsInit /\ MkdirRecInit
    BY DEF Init
  <1>2. lost \in BOOLEAN
    BY <1>1, Zenon DEF MkdirRecInit
  <1>3. ASSUME plugin = "core" PROVE MkdirRecTypeOK
    BY <1>1, <1>2, <1>3, MkdirRecAssumption DEF NsInit, MkdirRecInit, PickFor, MkdirRecTypeOK
  <1>4. StackLeadsDown /\ UpFromStack /\ ParentThere /\ MkdirRecDone /\ step = "idle"
    BY <1>1 DEF MkdirRecInit, StackLeadsDown, UpFromStack, ParentThere, MkdirRecDone
  <1> QED
    BY <1>3, <1>4 DEF MkdirRecInv

\* One step per action of gfal2_mkdir_rec.
LEMMA MkdirRecPreserved == MkdirRecInv /\ [Next]_vars => MkdirRecInv'
  <1> SUFFICES ASSUME MkdirRecInv, [Next]_vars PROVE MkdirRecInv'
    OBVIOUS
  <1> USE MkdirRecAssumption
  <1>1. CASE UNCHANGED <<plugin, mkdirRec, tree>>
    BY <1>1 DEF MkdirRecInv, MkdirRecTypeOK, StackLeadsDown, UpFromStack, ParentThere,
                MkdirRecDone, Exists, IsFile, IsDir, mkdirRec
  <1>2. CASE plugin # "core" /\ UNCHANGED <<plugin, mkdirRec>>
    BY <1>2 DEF MkdirRecInv, mkdirRec
  <1>3. ASSUME plugin = "core", UNCHANGED plugin, MkdirRecNext PROVE MkdirRecInv'
    <2> USE <1>3
    <2> SUFFICES (MkdirRecTypeOK /\ StackLeadsDown /\ UpFromStack /\ ParentThere /\ MkdirRecDone)'
      BY DEF MkdirRecInv
    <2>t. MkdirRecTypeOK
      BY DEF MkdirRecInv
    <2>i. StackLeadsDown /\ UpFromStack /\ ParentThere /\ MkdirRecDone
      BY DEF MkdirRecInv
    <2>1. CASE Begin
      BY <2>1, <2>t, <2>i DEF Begin, MkdirRecTypeOK, StackLeadsDown, UpFromStack, ParentThere,
                MkdirRecDone
    <2>2. CASE TryTarget
      <3> PICK a \in Answers(MkdirCode(target), With(target, "dir")) :
            /\ Mkdirp(target, a)
            /\ IF a.code = "ENOENT"
               THEN step' = "up" /\ UNCHANGED <<current, stack, result>>
               ELSE Return(IF a.code = "EEXIST" THEN "OK" ELSE a.code)
        BY <2>2 DEF TryTarget
      <3>s. step = "first" /\ target' = target
        BY <2>2 DEF TryTarget
      <3>a. /\ a.tree \in [Paths -> Kinds]
            /\ a.code \in {"OK", "EEXIST", "ENOENT", "ENOTDIR", "ECOMM"}
            /\ a.code \in {"OK", "EEXIST"} => a.tree[target] # "absent"
            /\ a.code \in {"EEXIST", "ENOENT", "ENOTDIR"} => a.tree = tree
            /\ a.code = "ENOTDIR" => IsFile(Parent[target])
        BY <2>t, MkdirAnswer DEF MkdirRecTypeOK
      <3>b. tree' = a.tree /\ lost' = (lost \/ a.code = "ECOMM")
        BY DEF Mkdirp
      <3>l. lost' \in BOOLEAN
        BY <3>b, Zenon
      <3>1. MkdirRecTypeOK'
        BY <3>s, <3>a, <3>b, <3>l, <2>t DEF MkdirRecTypeOK, Return
      <3>2. StackLeadsDown' /\ UpFromStack' /\ ParentThere'
        BY <3>s, <2>t, <2>i DEF StackLeadsDown, UpFromStack, ParentThere, Return, MkdirRecTypeOK
      <3>3. MkdirRecDone'
        <4> SUFFICES ASSUME step' = "done", ~lost'
                     PROVE  \/ result' = "OK" /\ Exists(target)'
                            \/ result' # "OK" /\ \E q \in Paths : IsFile(q)'
          BY DEF MkdirRecDone
        <4>1. a.code \in {"OK", "EEXIST", "ENOTDIR"}
          BY <3>a, <3>b
        <4>2. CASE a.code = "ENOTDIR"
          <5>1. Parent[target] \in Paths
            BY <4>2, <3>a, <2>t DEF MkdirRecTypeOK, IsFile, IsDir
          <5> QED
            BY <5>1, <4>2, <3>a, <3>b DEF IsFile, IsDir, Exists, Return
        <4>3. CASE a.code \in {"OK", "EEXIST"}
          BY <4>3, <3>a, <3>b, <3>s DEF Exists, Return
        <4> QED
          BY <4>1, <4>2, <4>3
      <3> QED
        BY <3>1, <3>2, <3>3
    <2>3. CASE WalkUp
      <3>s. step = "up" /\ target' = target /\ stack' = <<current>> \o stack
                /\ current' = Parent[current]
        BY <2>3 DEF WalkUp
      <3>c. current \in Paths /\ current' \in Paths \cup {Root}
        BY <3>s, <2>i DEF UpFromStack
      <3>k. /\ stack' \in Seq(Paths) /\ stack' # <<>> /\ stack'[1] = current
            /\ Len(stack') = Len(stack) + 1
            /\ \A i \in 1..Len(stack) : stack'[i + 1] = stack[i]
        BY <3>s, <3>c, <2>t DEF MkdirRecTypeOK
      <3>2. StackLeadsDown'
        <4>1. \A i \in 1..(Len(stack') - 1) : Parent[stack'[i + 1]] = stack'[i]
          <5> SUFFICES ASSUME NEW i \in 1..(Len(stack') - 1)
                       PROVE  Parent[stack'[i + 1]] = stack'[i]
            OBVIOUS
          <5>1. i \in 1..Len(stack) /\ stack'[i + 1] = stack[i]
            BY <3>k, <2>t DEF MkdirRecTypeOK
          <5>2. CASE i = 1
            BY <5>1, <5>2, <3>k, <3>s, <2>t, <2>i DEF UpFromStack, MkdirRecTypeOK
          <5>3. CASE i # 1
            <6>1. i - 1 \in 1..(Len(stack) - 1)
              BY <5>1, <5>3, <2>t DEF MkdirRecTypeOK
            <6>2. Parent[stack[(i - 1) + 1]] = stack[i - 1]
              BY <6>1, <2>i DEF StackLeadsDown
            <6>3. stack'[(i - 1) + 1] = stack[i - 1] /\ (i - 1) + 1 = i
              BY <6>1, <3>k, <2>t DEF MkdirRecTypeOK
            <6> QED
              BY <6>2, <6>3, <5>1
          <5> QED
            BY <5>2, <5>3
        <4>2. stack'[Len(stack')] = target
          <5>1. CASE stack = <<>>
            BY <5>1, <3>k, <3>s, <2>i DEF UpFromStack
          <5>2. CASE stack # <<>>
            <6>1. Len(stack) \in 1..Len(stack)
              BY <5>2, <2>t DEF MkdirRecTypeOK
            <6> QED
              BY <6>1, <5>2, <3>k, <2>i DEF StackLeadsDown
          <5> QED
            BY <5>1, <5>2
        <4> QED
          BY <4>1, <4>2, <3>s DEF StackLeadsDown
      <3>3. CASE current' = Root
        <4>1. tree' = tree /\ lost' = lost /\ step' = "down" /\ result' = result
          <5>1. \A a \in {[code |-> "EEXIST", tree |-> tree]} : a.code = "EEXIST" /\ a.tree = tree
            OBVIOUS
          <5> QED
            BY <5>1, <3>3, <2>3, <2>t DEF WalkUp, Mkdirp, MkdirRecTypeOK
        <4>2. MkdirRecTypeOK'
          BY <4>1, <3>s, <3>k, <2>t DEF MkdirRecTypeOK
        <4>3. UpFromStack' /\ MkdirRecDone'
          BY <4>1 DEF UpFromStack, MkdirRecDone
        <4>4. ParentThere'
          BY <3>3, <3>k, <3>s DEF ParentThere, Exists
        <4> QED
          BY <3>2, <4>2, <4>3, <4>4
      <3>4. CASE current' # Root
        <4>c. current' \in Paths
          BY <3>4, <3>c
        <4> PICK a \in Answers(MkdirCode(current'), With(current', "dir")) :
              /\ Mkdirp(current', a)
              /\ CASE a.code = "ENOENT" -> UNCHANGED <<step, result>>
                   [] a.code \in {"OK", "EEXIST"} -> step' = "down" /\ UNCHANGED result
                   [] OTHER -> step' = "done" /\ result' = a.code
          BY <2>3, <3>4 DEF WalkUp
        <4>a. /\ a.tree \in [Paths -> Kinds]
              /\ a.code \in {"OK", "EEXIST", "ENOENT", "ENOTDIR", "ECOMM"}
              /\ a.code \in {"OK", "EEXIST"} => a.tree[current'] # "absent"
              /\ a.code \in {"EEXIST", "ENOENT", "ENOTDIR"} => a.tree = tree
              /\ a.code = "ENOTDIR" => IsFile(Parent[current'])
          <5> DEFINE c == current'
          <5>1. c \in Paths /\ a \in Answers(MkdirCode(c), With(c, "dir"))
            BY <4>c
          <5> HIDE DEF c
          <5>2. /\ a.tree \in [Paths -> Kinds]
                /\ a.code \in {"OK", "EEXIST", "ENOENT", "ENOTDIR", "ECOMM"}
                /\ a.code \in {"OK", "EEXIST"} => a.tree[c] # "absent"
                /\ a.code \in {"EEXIST", "ENOENT", "ENOTDIR"} => a.tree = tree
                /\ a.code = "ENOTDIR" => IsFile(Parent[c])
            BY <5>1, <2>t, MkdirAnswer DEF MkdirRecTypeOK
          <5> QED
            BY <5>2 DEF c
        <4>b. tree' = a.tree /\ lost' = (lost \/ a.code = "ECOMM")
          BY DEF Mkdirp
        <4>l. lost' \in BOOLEAN
          BY <4>b, Zenon
        <4>d. /\ a.code = "ENOENT" => step' = "up"
              /\ a.code \in {"OK", "EEXIST"} => step' = "down"
              /\ a.code \in {"ENOTDIR", "ECOMM"} => step' = "done" /\ result' = a.code
          BY <3>s, <4>a
        <4>1. MkdirRecTypeOK'
          BY <3>s, <3>k, <4>a, <4>b, <4>l, <4>d, <2>t DEF MkdirRecTypeOK
        <4>2. UpFromStack'
          BY <4>a, <4>d, <4>c, <3>s, <3>k DEF UpFromStack
        <4>3. ParentThere'
          BY <4>a, <4>b, <4>c, <4>d, <3>s, <3>k DEF ParentThere, Exists
        <4>4. MkdirRecDone'
          <5> SUFFICES ASSUME step' = "done", ~lost'
                       PROVE  result' # "OK" /\ \E q \in Paths : IsFile(q)'
            BY DEF MkdirRecDone
          <5>1. a.code = "ENOTDIR" /\ result' = "ENOTDIR"
            BY <4>a, <4>b, <4>d
          <5>2. Parent[current'] \in Paths /\ IsFile(Parent[current'])
            BY <5>1, <4>a, <4>c DEF IsFile, IsDir
          <5> QED
            BY <5>1, <5>2, <4>a, <4>b DEF IsFile, IsDir, Exists
        <4> QED
          BY <3>2, <4>1, <4>2, <4>3, <4>4
      <3> QED
        BY <3>3, <3>4
    <2>4. CASE WalkDown
      <3>s. step = "down" /\ target' = target
        BY <2>4 DEF WalkDown
      <3>1. CASE stack = <<>>
        <4>1. Return("OK") /\ UNCHANGED <<tree, lost>>
          BY <2>4, <3>1 DEF WalkDown
        <4>2. MkdirRecTypeOK' /\ StackLeadsDown' /\ UpFromStack' /\ ParentThere'
          BY <4>1, <3>s, <2>t, <2>i DEF Return, MkdirRecTypeOK, StackLeadsDown, UpFromStack, ParentThere
        <4>3. MkdirRecDone'
          BY <4>1, <3>1, <3>s, <2>i DEF Return, MkdirRecDone, ParentThere, Exists
        <4> QED
          BY <4>2, <4>3
      <3>2. CASE stack # <<>>
        <4> DEFINE p == Head(stack)
        <4>p. p \in Paths /\ p = stack[1]
          BY <3>2, <2>t DEF MkdirRecTypeOK
        <4> PICK a \in Answers(MkdirCode(p), With(p, "dir")) :
              /\ Mkdirp(p, a)
              /\ IF a.code \in {"OK", "EEXIST"}
                 THEN stack' = Tail(stack) /\ UNCHANGED <<step, current, result>>
                 ELSE Return(a.code)
          BY <2>4, <3>2 DEF WalkDown
        <4>a. /\ a.tree \in [Paths -> Kinds]
              /\ a.code \in {"OK", "EEXIST", "ENOENT", "ENOTDIR", "ECOMM"}
              /\ a.code \in {"OK", "EEXIST"} => a.tree[p] # "absent"
              /\ a.code \in {"EEXIST", "ENOENT", "ENOTDIR"} => a.tree = tree
              /\ a.code = "ENOENT" => ~Exists(Parent[p])
              /\ a.code = "ENOTDIR" => IsFile(Parent[p])
          BY <4>p, <2>t, MkdirAnswer DEF MkdirRecTypeOK
        <4>b. tree' = a.tree /\ lost' = (lost \/ a.code = "ECOMM")
          BY DEF Mkdirp
        <4>l. lost' \in BOOLEAN
          BY <4>b, Zenon
        <4> HIDE DEF p
        <4>3. CASE a.code \in {"OK", "EEXIST"}
          <5>s. stack' = Tail(stack) /\ step' = step /\ current' = current /\ result' = result
            BY <4>3
          <5>k. /\ stack' \in Seq(Paths) /\ Len(stack') = Len(stack) - 1
                /\ \A i \in 1..Len(stack') : stack'[i] = stack[i + 1]
            BY <5>s, <3>2, <2>t DEF MkdirRecTypeOK
          <5>n. Len(stack) \in Nat \ {0} /\ (stack' = <<>> <=> Len(stack) = 1)
            BY <5>k, <3>2, <2>t DEF MkdirRecTypeOK
          <5>1. MkdirRecTypeOK'
            BY <5>s, <5>k, <4>a, <4>b, <4>l, <3>s, <2>t DEF MkdirRecTypeOK
          <5>2. StackLeadsDown'
            <6>1. \A i \in 1..(Len(stack') - 1) : Parent[stack'[i + 1]] = stack'[i]
              <7> SUFFICES ASSUME NEW i \in 1..(Len(stack') - 1)
                           PROVE  Parent[stack'[i + 1]] = stack'[i]
                OBVIOUS
              <7>1. i + 1 \in 1..(Len(stack) - 1) /\ i \in 1..Len(stack') /\ i + 1 \in 1..Len(stack')
                BY <5>k, <5>n
              <7>2. Parent[stack[(i + 1) + 1]] = stack[i + 1]
                BY <7>1, <2>i DEF StackLeadsDown
              <7> QED
                BY <7>1, <7>2, <5>k
            <6>2. stack' # <<>> => stack'[Len(stack')] = target
              BY <5>k, <5>n, <3>2, <2>i DEF StackLeadsDown
            <6> QED
              BY <6>1, <6>2, <3>s DEF StackLeadsDown
          <5>3. UpFromStack' /\ MkdirRecDone'
            BY <5>s, <3>s DEF UpFromStack, MkdirRecDone
          <5>4. ParentThere'
            <6>1. CASE stack' = <<>>
              <7>1. target = p
                BY <6>1, <5>n, <3>2, <4>p, <2>i DEF StackLeadsDown
              <7> QED
                BY <7>1, <6>1, <4>3, <4>a, <4>b, <3>s DEF ParentThere, Exists
            <6>2. CASE stack' # <<>>
              <7>1. 1 \in 1..(Len(stack) - 1) /\ 1 \in 1..Len(stack')
                BY <6>2, <5>n, <5>k
              <7>2. Parent[stack[1 + 1]] = stack[1] /\ stack'[1] = stack[1 + 1]
                BY <7>1, <5>k, <2>i DEF StackLeadsDown
              <7> QED
                BY <7>2, <6>2, <4>3, <4>a, <4>b, <4>p DEF ParentThere, Exists
            <6> QED
              BY <6>1, <6>2
          <5> QED
            BY <5>1, <5>2, <5>3, <5>4
        <4>4. CASE a.code \notin {"OK", "EEXIST"}
          <5>s. Return(a.code)
            BY <4>4
          <5>1. MkdirRecTypeOK'
            BY <5>s, <4>a, <4>b, <4>l, <3>s, <2>t DEF MkdirRecTypeOK, Return
          <5>2. StackLeadsDown' /\ UpFromStack' /\ ParentThere'
            BY <5>s, <3>s, <2>i DEF StackLeadsDown, UpFromStack, ParentThere, Return
          <5>3. MkdirRecDone'
            <6> SUFFICES ASSUME ~lost'
                         PROVE  result' # "OK" /\ \E q \in Paths : IsFile(q)'
              BY DEF MkdirRecDone
            <6>1. a.code = "ENOTDIR" /\ ~lost
              BY <4>4, <4>a, <4>b, <4>p, <3>2, <3>s, <2>i DEF ParentThere
            <6>2. Parent[p] \in Paths /\ IsFile(Parent[p])
              BY <6>1, <4>a, <4>p DEF IsFile, IsDir
            <6> QED
              BY <6>1, <6>2, <5>s, <4>a, <4>b DEF IsFile, IsDir, Exists, Return
          <5> QED
            BY <5>1, <5>2, <5>3
        <4> QED
          BY <4>3, <4>4
      <3> QED
        BY <3>1, <3>2
    <2>5. ASSUME NEW p \in Contested["core"], MkdirRecMeddle(p)
          PROVE  (MkdirRecTypeOK /\ StackLeadsDown /\ UpFromStack /\ ParentThere /\ MkdirRecDone)'
      <3>u. UNCHANGED <<step, target, current, stack, result>>
        BY <2>5 DEF MkdirRecMeddle
      <3>l. lost' \in BOOLEAN /\ (lost' <=> lost \/ tree'[p] = "absent")
        BY <2>5, Zenon DEF MkdirRecMeddle
      <3>m. /\ tree' \in [Paths -> Kinds]
            /\ \A q \in Paths : tree[q] # "absent" => tree'[q] = tree[q] \/ tree'[p] = "absent"
        BY <2>5, <2>t, MeddledTree DEF MkdirRecMeddle, Meddle, MkdirRecTypeOK
      <3>1. MkdirRecTypeOK'
        BY <3>u, <3>l, <3>m, <2>t DEF MkdirRecTypeOK
      <3>2. StackLeadsDown' /\ UpFromStack'
        BY <3>u, <2>i DEF StackLeadsDown, UpFromStack
      <3>3. ParentThere'
        <4>1. \A q \in Paths \cup {Root} : Exists(q) /\ ~lost' => Exists(q)'
          BY <3>l, <3>m DEF Exists
        <4>2. stack # <<>> => Parent[stack[1]] \in Paths \cup {Root}
          BY <2>t DEF MkdirRecTypeOK
        <4> QED
          BY <4>1, <4>2, <3>u, <3>l, <2>t, <2>i DEF ParentThere, MkdirRecTypeOK
      <3>4. MkdirRecDone'
        BY <3>u, <3>l, <3>m, <2>t, <2>i DEF MkdirRecDone, Exists, IsFile, IsDir, MkdirRecTypeOK
      <3> QED
        BY <3>1, <3>2, <3>3, <3>4
    <2> QED
      BY <2>1, <2>2, <2>3, <2>4, <2>5 DEF MkdirRecNext, MkdirRecStep
  <1> QED
    BY <1>1, <1>2, <1>3 DEF Next, vars, server, mkdirRec

\* gfal2_mkdir_rec of any depth: unless a request is lost or a directory is
\* taken away, the directory is there at its end, whoever made it, or a file
\* is in the way.
THEOREM MkdirRecMakes == Spec => []MkdirRecDone
  <1>1. MkdirRecInv => MkdirRecDone
    BY DEF MkdirRecInv, MkdirRecDone
  <1> QED
    BY <1>1, MkdirRecInitially, MkdirRecPreserved, PTL DEF Spec

-----------------------------------------------------------------------------
(* Sessions of the SFTP plugin                                             *)

\* The larger of the sessions made so far and a new one.
LEMMA MaxOfBorn ==
    ASSUME NEW b \in Nat
    PROVE  Max({b, 0}) = b /\ Max({b, b + 1}) = b + 1
  <1>1. b = CHOOSE x \in {b, 0} : \A y \in {b, 0} : x >= y
    <2>1. \A x \in {b, 0} : (\A y \in {b, 0} : x >= y) <=> x = b
      OBVIOUS
    <2> QED
      BY <2>1
  <1>2. b + 1 = CHOOSE x \in {b, b + 1} : \A y \in {b, b + 1} : x >= y
    <2>1. \A x \in {b, b + 1} : (\A y \in {b, b + 1} : x >= y) <=> x = b + 1
      OBVIOUS
    <2> QED
      BY <2>1
  <1> QED
    BY <1>1, <1>2 DEF Max

\* gfal_sftp_cache_push of a session that is in no other place.
LEMMA PushStash ==
    ASSUME SftpTypeOK, StashApart, NEW n \in alive, home[n] \in Servers, ~InStash(n),
           stash' = Pushed(n), home' = home, alive' = alive
    PROVE  /\ stash' \in [Servers -> Seq(1..MaxSessions)]
           /\ StashApart'
           /\ \A m : InStash(m)' <=> InStash(m) \/ m = n
  <1> DEFINE h == home[n]
             q == stash[h]
             r == <<n>> \o q
  <1>1. n \in 1..MaxSessions /\ q \in Seq(1..MaxSessions)
    BY SftpAssumption DEF SftpTypeOK
  <1>2. r \in Seq(1..MaxSessions) /\ Len(r) = Len(q) + 1 /\ r[1] = n
        /\ \A i \in 1..Len(q) : r[i + 1] = q[i]
    BY <1>1
  <1>3. stash' = [stash EXCEPT ![h] = r]
    BY DEF Pushed
  <1>4. h \in Servers /\ stash \in [Servers -> Seq(1..MaxSessions)]
    BY DEF SftpTypeOK
  <1> HIDE DEF h, r
  <1>5. stash' \in [Servers -> Seq(1..MaxSessions)] /\ stash'[h] = r
        /\ \A s \in Servers : s # h => stash'[s] = stash[s]
    BY <1>2, <1>3, <1>4
  <1>d. DOMAIN r = 1..(Len(q) + 1) /\ DOMAIN q = 1..Len(q) /\ Len(q) \in Nat
    BY <1>1, <1>2
  <1>e. \A i \in DOMAIN r : i = 1 \/ (i - 1 \in DOMAIN q /\ r[i] = q[i - 1])
    <2> SUFFICES ASSUME NEW i \in DOMAIN r, i # 1 PROVE i - 1 \in DOMAIN q /\ r[i] = q[i - 1]
      OBVIOUS
    <2>1. i - 1 \in 1..Len(q) /\ (i - 1) + 1 = i
      BY <1>d
    <2> QED
      BY <2>1, <1>2, <1>d
  <1>n. \A i \in DOMAIN q : q[i] # n
    BY <1>4 DEF InStash
  <1>6. StashApart'
    <2> SUFFICES ASSUME NEW s \in Servers, NEW i \in DOMAIN stash'[s]
                 PROVE  /\ stash'[s][i] \in alive
                        /\ home[stash'[s][i]] = s
                        /\ \A j \in DOMAIN stash'[s] : stash'[s][i] = stash'[s][j] => i = j
      BY DEF StashApart
    <2>1. CASE s # h
      BY <2>1, <1>5 DEF StashApart
    <2>2. CASE s = h
      <3>1. r[i] \in alive /\ home[r[i]] = s
        <4>1. \A j \in DOMAIN q : q[j] \in alive /\ home[q[j]] = h
          BY <1>4 DEF StashApart
        <4>2. r[1] \in alive /\ home[r[1]] = h
          BY <1>2 DEF h
        <4> QED
          BY <4>1, <4>2, <2>2, <1>5, <1>e
      <3>2. \A j \in DOMAIN r : r[i] = r[j] => i = j
        <4> SUFFICES ASSUME NEW j \in DOMAIN r, r[i] = r[j] PROVE i = j
          OBVIOUS
        <4>1. i \in DOMAIN r
          BY <2>2, <1>5
        <4>2. i = 1 <=> j = 1
          BY <4>1, <1>e, <1>2, <1>n
        <4>3. ASSUME i # 1 PROVE i = j
          <5>1. i - 1 \in DOMAIN q /\ j - 1 \in DOMAIN q /\ q[i - 1] = q[j - 1]
            BY <4>1, <4>2, <4>3, <1>e
          <5>2. i - 1 = j - 1
            BY <5>1, <1>4 DEF StashApart
          <5> QED
            BY <5>2, <4>1, <1>d
        <4> QED
          BY <4>2, <4>3
      <3> QED
        BY <3>1, <3>2, <2>2, <1>5
    <2> QED
      BY <2>1, <2>2
  <1>7. ASSUME NEW m PROVE InStash(m)' <=> InStash(m) \/ m = n
    <2>1. ASSUME InStash(m)' PROVE InStash(m) \/ m = n
      <3>0. PICK s \in Servers : \E i \in DOMAIN stash'[s] : stash'[s][i] = m
        BY <2>1 DEF InStash
      <3>1. PICK i \in DOMAIN stash'[s] : stash'[s][i] = m
        BY <3>0
      <3>2. CASE s # h
        BY <3>1, <3>2, <1>5 DEF InStash
      <3>3. CASE s = h
        <4>1. m = n \/ \E j \in DOMAIN q : q[j] = m
          BY <3>1, <3>3, <1>5, <1>e, <1>2
        <4> QED
          BY <4>1, <1>4 DEF InStash
      <3> QED
        BY <3>2, <3>3
    <2>2. ASSUME InStash(m) PROVE InStash(m)'
      <3>0. PICK s \in Servers : \E i \in DOMAIN stash[s] : stash[s][i] = m
        BY <2>2 DEF InStash
      <3>1. PICK i \in DOMAIN stash[s] : stash[s][i] = m
        BY <3>0
      <3>2. CASE s # h
        BY <3>1, <3>2, <1>5 DEF InStash
      <3>3. CASE s = h
        <4>1. i + 1 \in DOMAIN stash'[h] /\ stash'[h][i + 1] = m
          BY <3>1, <3>3, <1>2, <1>5, <1>d
        <4> QED
          BY <4>1, <1>4 DEF InStash
      <3> QED
        BY <3>2, <3>3
    <2>3. InStash(n)'
      <3>1. 1 \in DOMAIN stash'[h] /\ stash'[h][1] = n
        BY <1>2, <1>5, <1>d
      <3> QED
        BY <3>1, <1>4 DEF InStash
    <2> QED
      BY <2>1, <2>2, <2>3
  <1> QED
    BY <1>5, <1>6, <1>7

\* gfal_sftp_cache_pop: what it gives is no longer in the cache.
LEMMA PopStash ==
    ASSUME SftpTypeOK, StashApart, NEW s \in Servers, stash[s] # <<>>,
           stash' = [stash EXCEPT ![s] = Tail(@)]
    PROVE  /\ Head(stash[s]) \in alive /\ home[Head(stash[s])] = s
           /\ stash' \in [Servers -> Seq(1..MaxSessions)]
           /\ \A t \in Servers : \A i \in DOMAIN stash'[t] :
                /\ stash'[t][i] \in alive /\ home[stash'[t][i]] = t
                /\ \A j \in DOMAIN stash'[t] : stash'[t][i] = stash'[t][j] => i = j
           /\ \A m : InStash(m)' <=> InStash(m) /\ m # Head(stash[s])
  <1> DEFINE q == stash[s]
             r == Tail(q)
             n == Head(q)
  <1>1. q \in Seq(1..MaxSessions) /\ stash \in [Servers -> Seq(1..MaxSessions)] /\ q # <<>>
    BY DEF SftpTypeOK
  <1>2. r \in Seq(1..MaxSessions) /\ Len(r) = Len(q) - 1 /\ n = q[1]
        /\ \A i \in 1..Len(r) : r[i] = q[i + 1]
    BY <1>1
  <1>3. stash' = [stash EXCEPT ![s] = r]
    OBVIOUS
  <1> HIDE DEF r, n
  <1>4. stash' \in [Servers -> Seq(1..MaxSessions)] /\ stash'[s] = r
        /\ \A t \in Servers : t # s => stash'[t] = stash[t]
    BY <1>1, <1>2, <1>3
  <1>d. DOMAIN q = 1..Len(q) /\ Len(q) \in Nat \ {0} /\ DOMAIN r = 1..(Len(q) - 1)
    BY <1>1, <1>2
  <1>e. \A i \in DOMAIN r : i + 1 \in DOMAIN q /\ r[i] = q[i + 1] /\ r[i] # n
    <2> SUFFICES ASSUME NEW i \in DOMAIN r PROVE i + 1 \in DOMAIN q /\ r[i] = q[i + 1] /\ r[i] # n
      OBVIOUS
    <2>1. i + 1 \in DOMAIN q /\ r[i] = q[i + 1] /\ 1 \in DOMAIN q /\ i + 1 # 1
      BY <1>d, <1>2
    <2> QED
      BY <2>1, <1>2 DEF StashApart
  <1>5. n \in alive /\ home[n] = s
    <2>1. 1 \in DOMAIN q
      BY <1>d
    <2> QED
      BY <2>1, <1>2 DEF StashApart
  <1>6. ASSUME NEW t \in Servers, NEW i \in DOMAIN stash'[t]
        PROVE  /\ stash'[t][i] \in alive /\ home[stash'[t][i]] = t
               /\ \A j \in DOMAIN stash'[t] : stash'[t][i] = stash'[t][j] => i = j
    <2>1. CASE t # s
      BY <2>1, <1>4 DEF StashApart
    <2>2. CASE t = s
      <3>1. r[i] \in alive /\ home[r[i]] = t /\ i \in DOMAIN r
        BY <2>2, <1>4, <1>e DEF StashApart
      <3>2. \A j \in DOMAIN r : r[i] = r[j] => i = j
        <4> SUFFICES ASSUME NEW j \in DOMAIN r, r[i] = r[j] PROVE i = j
          OBVIOUS
        <4>1. i + 1 = j + 1
          BY <3>1, <1>e DEF StashApart
        <4> QED
          BY <4>1, <3>1, <1>d
      <3> QED
        BY <3>1, <3>2, <2>2, <1>4
    <2> QED
      BY <2>1, <2>2
  <1>7. ASSUME NEW m PROVE InStash(m)' <=> InStash(m) /\ m # n
    <2>1. ASSUME InStash(m)' PROVE InStash(m) /\ m # n
      <3>0. PICK t \in Servers : \E i \in DOMAIN stash'[t] : stash'[t][i] = m
        BY <2>1 DEF InStash
      <3>1. PICK i \in DOMAIN stash'[t] : stash'[t][i] = m
        BY <3>0
      <3>2. CASE t = s
        BY <3>1, <3>2, <1>4, <1>e DEF InStash
      <3>3. CASE t # s
        <4>1. InStash(m) /\ home[m] = t
          BY <3>1, <3>3, <1>4 DEF InStash, StashApart
        <4> QED
          BY <4>1, <3>3, <1>5
      <3> QED
        BY <3>2, <3>3
    <2>2. ASSUME InStash(m), m # n PROVE InStash(m)'
      <3>0. PICK t \in Servers : \E i \in DOMAIN stash[t] : stash[t][i] = m
        BY <2>2 DEF InStash
      <3>1. PICK i \in DOMAIN stash[t] : stash[t][i] = m
        BY <3>0
      <3>2. CASE t # s
        BY <3>1, <3>2, <1>4 DEF InStash
      <3>3. CASE t = s
        <4>1. i # 1 /\ i \in 1..Len(q)
          BY <3>1, <3>3, <2>2, <1>2, <1>d
        <4>2. i - 1 \in DOMAIN r /\ (i - 1) + 1 = i
          BY <4>1, <1>d
        <4>3. i - 1 \in DOMAIN stash'[s] /\ stash'[s][i - 1] = m
          BY <4>2, <3>1, <3>3, <1>e, <1>4
        <4> QED
          BY <4>3 DEF InStash
      <3> QED
        BY <3>2, <3>3
    <2> QED
      BY <2>1, <2>2
  <1> QED
    BY <1>4, <1>5, <1>6, <1>7 DEF n

\* gfal_sftp_new_handle: no session, or one that was not there before.
LEMMA NewSession ==
    ASSUME SftpTypeOK, NEW s \in Servers, NEW n \in NewHandle(s)
    PROVE  \/ n = NoSession /\ Max({born, n}) = born
           \/ n = born + 1 /\ n \in 1..MaxSessions /\ Max({born, n}) = n
  <1>1. born \in Nat /\ MaxSessions \in Nat
    BY SftpAssumption DEF SftpTypeOK
  <1>2. n = 0 \/ (n = born + 1 /\ born < MaxSessions)
    BY DEF NewHandle, NoSession
  <1>3. CASE n = 0
    BY <1>1, <1>3, MaxOfBorn DEF NoSession
  <1>4. CASE n = born + 1 /\ born < MaxSessions
    <2>1. n \in 1..MaxSessions
      BY <1>1, <1>4
    <2> QED
      BY <2>1, <1>1, <1>4, MaxOfBorn
  <1> QED
    BY <1>2, <1>3, <1>4

\* A set-up that succeeds adds its session, one that fails leaves the others as
\* they are; either may have destroyed the session `old` before.
LEMMA SetUpEnds ==
    ASSUME SftpTypeOK, NEW s \in Servers, NEW n \in NewHandle(s), NEW old, SetUp(n, s, old)
    PROVE  /\ born' \in 0..MaxSessions /\ home' \in [1..MaxSessions -> Servers \cup {"none"}]
           /\ alive' \subseteq 1..born' /\ abandoned' \subseteq 1..born'
           /\ alive' \cap abandoned' = {}
           /\ \A k \in alive : home'[k] = home[k]
           /\ \/ sftp' = AtRest /\ alive' = alive \ {old}
              \/ /\ sftp' = [sftp EXCEPT !.at = "operate", !.session = n]
                 /\ n \in 1..MaxSessions /\ n \notin alive /\ n # NoSession
                 /\ alive' = (alive \ {old}) \cup {n} /\ home'[n] = s
  <1>t. /\ MaxSessions \in Nat /\ born \in 0..MaxSessions
        /\ alive \subseteq 1..born /\ abandoned \subseteq 1..born /\ alive \cap abandoned = {}
        /\ home \in [1..MaxSessions -> Servers \cup {"none"}]
    BY SftpAssumption DEF SftpTypeOK
  <1>n. PICK up \in BOOLEAN :
            /\ up => n # NoSession
            /\ sftp' = Connected(IF up THEN n ELSE NoSession)
            /\ alive' = (alive \ {old}) \cup (IF up THEN {n} ELSE {})
            /\ abandoned' = abandoned \cup (IF up \/ n = NoSession THEN {} ELSE {n})
            /\ born' = Max({born, n})
            /\ home' = IF n = NoSession THEN home ELSE [home EXCEPT ![n] = s]
    BY DEF SetUp
  <1>e. \/ n = NoSession /\ Max({born, n}) = born
        \/ n = born + 1 /\ n \in 1..MaxSessions /\ Max({born, n}) = n
    BY NewSession
  <1>1. CASE n = NoSession
    <2>1. ~up /\ UNCHANGED <<born, home, abandoned>> /\ alive' = alive \ {old}
      BY <1>1, <1>n, <1>e, <1>t DEF NoSession
    <2>2. sftp' = AtRest
      BY <2>1, <1>n DEF Connected
    <2> QED
      BY <2>1, <2>2, <1>t
  <1>2. CASE n # NoSession
    <2>1. /\ born' = n /\ n = born + 1 /\ n \in 1..MaxSessions /\ n \notin 1..born
          /\ home' = [home EXCEPT ![n] = s]
      BY <1>2, <1>n, <1>e, <1>t
    <2>2. /\ home' \in [1..MaxSessions -> Servers \cup {"none"}] /\ home'[n] = s
          /\ \A k \in alive : home'[k] = home[k]
      BY <2>1, <1>t
    <2>b. n \in 1..born' /\ \A k \in 1..born : k \in 1..born'
      BY <2>1, <1>t
    <2>3. CASE up
      <3>1. abandoned' = abandoned /\ alive' = (alive \ {old}) \cup {n}
        BY <2>3, <1>n
      <3>2. sftp' = [sftp EXCEPT !.at = "operate", !.session = n]
        BY <2>3, <1>2, <1>n DEF Connected
      <3>3. alive' \subseteq 1..born' /\ abandoned' \subseteq 1..born'
        BY <3>1, <2>b, <1>t
      <3>4. n \notin alive /\ n \notin abandoned
        BY <2>1, <1>t
      <3>5. alive' \cap abandoned' = {}
        BY <3>1, <3>4, <1>t
      <3> QED
        BY <3>1, <3>2, <3>3, <3>4, <3>5, <2>1, <2>2, <1>2
    <2>4. CASE ~up
      <3>1. abandoned' = abandoned \cup {n} /\ alive' = alive \ {old}
        BY <2>4, <1>2, <1>n
      <3>2. sftp' = AtRest
        BY <2>4, <1>n DEF Connected
      <3>3. alive' \subseteq 1..born' /\ abandoned' \subseteq 1..born'
        BY <3>1, <2>b, <1>t
      <3>4. n \notin alive
        BY <2>1, <1>t
      <3>5. alive' \cap abandoned' = {}
        BY <3>1, <3>4, <1>t
      <3> QED
        BY <3>1, <3>2, <3>3, <3>5, <2>1, <2>2
    <2> QED
      BY <2>3, <2>4, <1>n
  <1> QED
    BY <1>1, <1>2

\* No session is there yet.
LEMMA SftpInitially == Init => SftpInv
  <1> SUFFICES ASSUME Init PROVE SftpInv
    OBVIOUS
  <1>1. SftpInit
    BY DEF Init
  <1>2. SftpTypeOK
    <2>1. plugin = "sftp" => sftpMenu \in SftpMenus
      BY <1>1 DEF SftpInit, PickFor
    <2>2. stash \in [Servers -> Seq(1..MaxSessions)] /\ born \in 0..MaxSessions
          /\ alive \subseteq 1..born /\ abandoned \subseteq 1..born /\ alive \cap abandoned = {}
          /\ home \in [1..MaxSessions -> Servers \cup {"none"}]
          /\ held \in [Slots -> 0..MaxSessions] /\ sftp.at = "idle"
      BY <1>1, SftpAssumption DEF SftpInit, NoSession, AtRest
    <2> QED
      BY <2>1, <2>2 DEF SftpTypeOK
  <1>3. StashApart /\ HeldApart /\ RunningApart /\ NoneLost
    BY <1>1 DEF SftpInit, StashApart, HeldApart, RunningApart, NoneLost, AtRest, NoSession
  <1> QED
    BY <1>2, <1>3 DEF SftpInv

\* One step per action of the SFTP plugin.
LEMMA SftpPreserved == SftpInv /\ [Next]_vars => SftpInv'
  <1> SUFFICES ASSUME SftpInv, [Next]_vars PROVE SftpInv'
    OBVIOUS
  <1>t. SftpTypeOK
    BY DEF SftpInv
  <1>i. StashApart /\ HeldApart /\ RunningApart /\ NoneLost
    BY DEF SftpInv
  <1>1. CASE UNCHANGED <<plugin, sftpState>>
    BY <1>1, <1>t, <1>i
       DEF SftpInv, SftpTypeOK, StashApart, HeldApart, RunningApart, NoneLost, InStash, IsHeld,
           IsRunning, sftpState
  <1>2. ASSUME plugin = "sftp", UNCHANGED plugin, SftpNext PROVE SftpInv'
    <2> USE <1>2
    <2>n. MaxSessions \in Nat /\ born \in 0..MaxSessions /\ alive \subseteq 1..born
          /\ alive \subseteq 1..MaxSessions
      BY <1>t, SftpAssumption DEF SftpTypeOK
    <2>1. ASSUME NEW m \in sftpMenu, SftpCall(m[1], m[2], m[3]) PROVE SftpInv'
      <3>1. m[3] \in Servers
        BY <1>t, SftpAssumption DEF SftpTypeOK
      <3>2. sftp' = [at |-> "connect", op |-> m[1], path |-> m[2], server |-> m[3],
                     session |-> NoSession]
            /\ UNCHANGED <<sftpMenu, stash, alive, abandoned, born, home, held>>
        BY <2>1 DEF SftpCall
      <3>s. sftp.at = "idle"
        BY <2>1 DEF SftpCall
      <3>3. SftpTypeOK'
        BY <3>1, <3>2, <1>t, <2>n DEF SftpTypeOK, NoSession
      <3>4. StashApart' /\ HeldApart' /\ RunningApart' /\ NoneLost'
        BY <3>2, <3>s, <1>i DEF StashApart, HeldApart, RunningApart, NoneLost, InStash, IsHeld, IsRunning
      <3> QED
        BY <3>3, <3>4 DEF SftpInv
    <2>2. CASE ConnectNew
      <3> DEFINE s == sftp.server
      <3>s. s \in Servers /\ sftp.at = "connect"
            /\ DOMAIN sftp = {"at", "op", "path", "server", "session"}
        BY <2>2, <1>t DEF ConnectNew, SftpTypeOK
      <3>u. UNCHANGED <<sftpMenu, stash, held>>
        BY <2>2 DEF ConnectNew
      <3>n. PICK n \in NewHandle(s) : SetUp(n, s, NoSession)
        BY <2>2 DEF ConnectNew
      <3>e. /\ born' \in 0..MaxSessions /\ home' \in [1..MaxSessions -> Servers \cup {"none"}]
            /\ alive' \subseteq 1..born' /\ abandoned' \subseteq 1..born'
            /\ alive' \cap abandoned' = {}
            /\ \A k \in alive : home'[k] = home[k]
            /\ \/ sftp' = AtRest /\ alive' = alive \ {NoSession}
               \/ /\ sftp' = [sftp EXCEPT !.at = "operate", !.session = n]
                  /\ n \in 1..MaxSessions /\ n \notin alive /\ n # NoSession
                  /\ alive' = (alive \ {NoSession}) \cup {n} /\ home'[n] = s
        BY <3>s, <3>n, <1>t, SetUpEnds, ZenonT(30)
      <3>a. alive \ {NoSession} = alive
        BY <2>n DEF NoSession
      <3>y. stash' \in [Servers -> Seq(1..MaxSessions)] /\ held' \in [Slots -> 0..MaxSessions]
        BY <3>u, <1>t DEF SftpTypeOK
      <3> HIDE DEF s
      <3>1. CASE sftp' = AtRest /\ alive' = alive
        <4>1. sftp'.at = "idle"
          BY <3>1 DEF AtRest
        <4>2. SftpTypeOK'
          BY <4>1, <3>e, <3>u, <3>y, <1>t DEF SftpTypeOK
        <4>3. StashApart' /\ HeldApart'
          BY <3>1, <3>e, <3>u, <1>i DEF StashApart, HeldApart, InStash
        <4>4. RunningApart'
          BY <4>1 DEF RunningApart
        <4>5. NoneLost'
          BY <3>1, <3>e, <3>u, <3>s, <1>i DEF NoneLost, InStash, IsHeld, IsRunning
        <4> QED
          BY <4>2, <4>3, <4>4, <4>5 DEF SftpInv
      <3>2. CASE /\ sftp' = [sftp EXCEPT !.at = "operate", !.session = n]
                 /\ n \in 1..MaxSessions /\ n \notin alive /\ n # NoSession
                 /\ alive' = alive \cup {n} /\ home'[n] = s
        <4>2. /\ sftp'.at = "operate" /\ sftp'.session = n /\ sftp'.server = s
              /\ DOMAIN sftp' = DOMAIN sftp
          BY <3>2, <3>s DEF s
        <4>4. SftpTypeOK'
          <5>1. sftp'.server \in Servers /\ sftp'.session \in 0..MaxSessions
            BY <3>2, <4>2, <3>s, <2>n
          <5> QED
            BY <5>1, <3>e, <3>y, <4>2, <3>s, <3>u, <1>t DEF SftpTypeOK
        <4>5. ~InStash(n) /\ ~IsHeld(n)
          BY <3>2, <1>i DEF InStash, IsHeld, StashApart, HeldApart
        <4>6. StashApart'
          BY <3>2, <3>e, <3>u, <1>i DEF StashApart
        <4>7. HeldApart'
          BY <3>2, <3>u, <1>i DEF HeldApart, InStash
        <4>8. RunningApart'
          BY <3>2, <4>2, <4>5, <3>u DEF RunningApart, InStash, IsHeld
        <4>9. NoneLost'
          BY <3>2, <3>e, <4>2, <3>s, <3>u, <1>i DEF NoneLost, InStash, IsHeld, IsRunning
        <4> QED
          BY <4>4, <4>6, <4>7, <4>8, <4>9 DEF SftpInv
      <3> QED
        BY <3>1, <3>2, <3>e, <3>a
    <2>3. CASE Reconnect
      <3> DEFINE s == sftp.server
                 old == Head(stash[s])
      <3>s. s \in Servers /\ sftp.at = "connect" /\ stash[s] # <<>>
            /\ stash' = [stash EXCEPT ![s] = Tail(@)]
            /\ DOMAIN sftp = {"at", "op", "path", "server", "session"}
        BY <2>3, <1>t DEF Reconnect, SftpTypeOK
      <3>u. UNCHANGED <<sftpMenu, held>>
        BY <2>3 DEF Reconnect
      <3>n. PICK n \in NewHandle(s) : SetUp(n, s, old)
        BY <2>3 DEF Reconnect
      <3>e. /\ born' \in 0..MaxSessions /\ home' \in [1..MaxSessions -> Servers \cup {"none"}]
            /\ alive' \subseteq 1..born' /\ abandoned' \subseteq 1..born'
            /\ alive' \cap abandoned' = {}
            /\ \A k \in alive : home'[k] = home[k]
            /\ \/ sftp' = AtRest /\ alive' = alive \ {old}
               \/ /\ sftp' = [sftp EXCEPT !.at = "operate", !.session = n]
                  /\ n \in 1..MaxSessions /\ n \notin alive /\ n # NoSession
                  /\ alive' = (alive \ {old}) \cup {n} /\ home'[n] = s
        <4> HIDE DEF s, old
        <4> QED
          BY <3>s, <3>n, <1>t, SetUpEnds
      <3>y. held' \in [Slots -> 0..MaxSessions]
        BY <3>u, <1>t DEF SftpTypeOK
      <3>p. /\ old \in alive /\ InStash(old)
            /\ stash' \in [Servers -> Seq(1..MaxSessions)]
            /\ \A t \in Servers : \A i \in DOMAIN stash'[t] :
                /\ stash'[t][i] \in alive /\ home[stash'[t][i]] = t
                /\ \A j \in DOMAIN stash'[t] : stash'[t][i] = stash'[t][j] => i = j
            /\ \A m : InStash(m)' <=> InStash(m) /\ m # old
        <4>1. InStash(old)
          <5>1. stash[s] \in Seq(1..MaxSessions)
            BY <3>s, <1>t DEF SftpTypeOK
          <5>2. 1 \in DOMAIN stash[s] /\ stash[s][1] = old
            BY <5>1, <3>s
          <5> QED
            BY <5>2, <3>s DEF InStash
        <4> QED
          BY <4>1, <3>s, <1>t, <1>i, PopStash
      <3>q. \A t \in Servers : \A i \in DOMAIN stash'[t] : stash'[t][i] \in alive \ {old}
        BY <3>p DEF InStash
      <3> HIDE DEF s, old
      <3>h. \A i \in Slots : held[i] # NoSession => held[i] # old
        BY <3>p, <1>i DEF HeldApart
      <3>1. CASE sftp' = AtRest /\ alive' = alive \ {old}
        <4>a. sftp'.at = "idle"
          BY <3>1 DEF AtRest
        <4>2. SftpTypeOK'
          BY <4>a, <3>e, <3>u, <3>y, <3>p, <1>t DEF SftpTypeOK
        <4>3. StashApart'
          BY <3>1, <3>e, <3>p, <3>q DEF StashApart
        <4>4. HeldApart'
          BY <3>1, <3>u, <3>p, <3>h, <1>i DEF HeldApart
        <4>5. RunningApart'
          BY <4>a DEF RunningApart
        <4>6. NoneLost'
          BY <3>1, <3>e, <3>u, <3>p, <3>s, <1>i DEF NoneLost, IsHeld, IsRunning
        <4> QED
          BY <4>2, <4>3, <4>4, <4>5, <4>6 DEF SftpInv
      <3>2. CASE /\ sftp' = [sftp EXCEPT !.at = "operate", !.session = n]
                 /\ n \in 1..MaxSessions /\ n \notin alive /\ n # NoSession
                 /\ alive' = (alive \ {old}) \cup {n} /\ home'[n] = s
        <4>2. /\ sftp'.at = "operate" /\ sftp'.session = n /\ sftp'.server = s
              /\ DOMAIN sftp' = DOMAIN sftp
          BY <3>2, <3>s DEF s
        <4>4. SftpTypeOK'
          <5>1. sftp'.server \in Servers /\ sftp'.session \in 0..MaxSessions
            BY <3>2, <4>2, <3>s, <2>n
          <5> QED
            BY <5>1, <3>e, <3>y, <3>p, <4>2, <3>s, <3>u, <1>t DEF SftpTypeOK
        <4>5. ~InStash(n) /\ ~IsHeld(n)
          BY <3>2, <1>i DEF InStash, IsHeld, StashApart, HeldApart
        <4>6. StashApart'
          BY <3>2, <3>e, <3>p, <3>q DEF StashApart
        <4>7. HeldApart'
          BY <3>2, <3>u, <3>p, <3>h, <1>i DEF HeldApart
        <4>8. RunningApart'
          BY <3>2, <4>2, <4>5, <3>u, <3>p DEF RunningApart, IsHeld
        <4>9. NoneLost'
          BY <3>2, <3>e, <4>2, <3>s, <3>u, <3>p, <1>i DEF NoneLost, IsHeld, IsRunning
        <4> QED
          BY <4>4, <4>6, <4>7, <4>8, <4>9 DEF SftpInv
      <3> QED
        BY <3>1, <3>2, <3>e
    <2>4. CASE Reuse
      <3> DEFINE s == sftp.server
                 n == Head(stash[s])
      <3>s. s \in Servers /\ sftp.at = "connect" /\ stash[s] # <<>>
            /\ stash' = [stash EXCEPT ![s] = Tail(@)] /\ sftp' = Connected(n)
            /\ DOMAIN sftp = {"at", "op", "path", "server", "session"}
        BY <2>4, <1>t DEF Reuse, SftpTypeOK
      <3>u. UNCHANGED <<sftpMenu, alive, abandoned, born, home, held>>
        BY <2>4 DEF Reuse
      <3>p. /\ n \in alive /\ home[n] = s
            /\ stash' \in [Servers -> Seq(1..MaxSessions)]
            /\ \A t \in Servers : \A i \in DOMAIN stash'[t] :
                /\ stash'[t][i] \in alive /\ home[stash'[t][i]] = t
                /\ \A j \in DOMAIN stash'[t] : stash'[t][i] = stash'[t][j] => i = j
            /\ \A m : InStash(m)' <=> InStash(m) /\ m # n
        BY <3>s, <1>t, <1>i, PopStash
      <3>q. InStash(n)
        <4>1. stash[s] \in Seq(1..MaxSessions)
          BY <3>s, <1>t DEF SftpTypeOK
        <4>2. 1 \in DOMAIN stash[s] /\ stash[s][1] = n
          BY <4>1, <3>s
        <4> QED
          BY <4>2, <3>s DEF InStash
      <3> HIDE DEF s, n
      <3>1. sftp' = [sftp EXCEPT !.at = "operate", !.session = n] /\ n # NoSession
        BY <3>s, <3>p, <2>n DEF Connected, NoSession
      <3>2. /\ sftp'.at = "operate" /\ sftp'.session = n /\ sftp'.server = s
            /\ DOMAIN sftp' = DOMAIN sftp
        BY <3>1, <3>s DEF s
      <3>3. SftpTypeOK'
        BY <3>2, <3>s, <3>u, <3>p, <1>t, <2>n DEF SftpTypeOK
      <3>4. StashApart' /\ HeldApart'
        BY <3>u, <3>p, <1>i DEF StashApart, HeldApart
      <3>5. ~IsHeld(n)
        BY <3>q, <3>1, <1>i DEF HeldApart, IsHeld
      <3>6. RunningApart'
        BY <3>2, <3>5, <3>u, <3>p DEF RunningApart, IsHeld
      <3>7. NoneLost'
        BY <3>2, <3>s, <3>u, <3>p, <1>i DEF NoneLost, IsHeld, IsRunning
      <3> QED
        BY <3>3, <3>4, <3>6, <3>7 DEF SftpInv
    <2>5. ASSUME sftp.at = "operate", sftp' = AtRest, stash' = Pushed(sftp.session),
                 UNCHANGED <<sftpMenu, alive, abandoned, born, home, held>>
          PROVE  SftpInv'
      <3>1. /\ sftp.session \in alive /\ home[sftp.session] \in Servers
            /\ ~InStash(sftp.session) /\ ~IsHeld(sftp.session)
        BY <2>5, <1>t, <1>i DEF RunningApart, SftpTypeOK
      <3>2. /\ stash' \in [Servers -> Seq(1..MaxSessions)]
            /\ StashApart'
            /\ \A m : InStash(m)' <=> InStash(m) \/ m = sftp.session
        BY <3>1, <2>5, <1>t, <1>i, PushStash
      <3>3. SftpTypeOK'
        BY <3>2, <2>5, <1>t DEF SftpTypeOK, AtRest
      <3>4. HeldApart' /\ RunningApart'
        BY <3>1, <3>2, <2>5, <1>i DEF HeldApart, RunningApart, AtRest, IsHeld
      <3>5. NoneLost'
        BY <3>2, <2>5, <1>i DEF NoneLost, IsHeld, IsRunning
      <3> QED
        BY <3>2, <3>3, <3>4, <3>5 DEF SftpInv
    <2>6. CASE Operate
      BY <2>5, <2>6 DEF Operate
    <2>7. CASE Opens
      <3>1. CASE stash' = Pushed(sftp.session) /\ UNCHANGED held
        BY <3>1, <2>5, <2>7 DEF Opens
      <3>2. ASSUME NEW i \in Slots, held[i] = NoSession,
                   held' = [held EXCEPT ![i] = sftp.session], UNCHANGED stash
            PROVE  SftpInv'
        <4>1. sftp.at = "operate" /\ sftp' = AtRest /\ UNCHANGED <<sftpMenu, alive, abandoned, born, home>>
          BY <2>7 DEF Opens
        <4>2. /\ sftp.session \in alive /\ ~InStash(sftp.session) /\ ~IsHeld(sftp.session)
              /\ held \in [Slots -> 0..MaxSessions] /\ sftp.session \in 0..MaxSessions
          BY <4>1, <1>t, <1>i DEF RunningApart, SftpTypeOK
        <4>3. held'[i] = sftp.session /\ \A j \in Slots : j # i => held'[j] = held[j]
          BY <3>2, <4>2
        <4>4. SftpTypeOK'
          BY <3>2, <4>1, <4>2, <1>t DEF SftpTypeOK, AtRest
        <4>5. StashApart' /\ RunningApart'
          BY <3>2, <4>1, <1>i DEF StashApart, RunningApart, AtRest
        <4>6. HeldApart'
          BY <3>2, <4>1, <4>2, <4>3, <1>i DEF HeldApart, InStash, IsHeld
        <4>7. NoneLost'
          <5>1. \A k : IsHeld(k) /\ k # NoSession => IsHeld(k)'
            BY <3>2, <4>3 DEF IsHeld
          <5>2. NoSession \notin alive /\ \A k : k = sftp.session => IsHeld(k)'
            BY <4>3, <2>n DEF NoSession, IsHeld
          <5>3. \A k : InStash(k)' <=> InStash(k)
            BY <3>2 DEF InStash
          <5> QED
            BY <5>1, <5>2, <5>3, <4>1, <4>3, <1>i DEF NoneLost, IsRunning, IsHeld
        <4> QED
          BY <4>4, <4>5, <4>6, <4>7 DEF SftpInv
      <3> QED
        BY <3>1, <3>2, <2>7 DEF Opens
    <2>8. ASSUME NEW i \in Slots, Closes(i) PROVE SftpInv'
      <3>1. /\ sftp.at = "idle" /\ held[i] # NoSession /\ stash' = Pushed(held[i])
            /\ held' = [held EXCEPT ![i] = NoSession]
            /\ UNCHANGED <<sftpMenu, alive, abandoned, born, home, sftp>>
        BY <2>8 DEF Closes
      <3>2. /\ held[i] \in alive /\ home[held[i]] \in Servers /\ ~InStash(held[i])
            /\ held \in [Slots -> 0..MaxSessions]
        BY <3>1, <1>t, <1>i DEF HeldApart, NoneLost, SftpTypeOK
      <3>3. /\ stash' \in [Servers -> Seq(1..MaxSessions)]
            /\ StashApart'
            /\ \A m : InStash(m)' <=> InStash(m) \/ m = held[i]
        BY <3>1, <3>2, <1>t, <1>i, PushStash
      <3>4. held'[i] = NoSession /\ \A j \in Slots : j # i => held'[j] = held[j]
        BY <3>1, <3>2
      <3>5. SftpTypeOK'
        <4>1. held' \in [Slots -> 0..MaxSessions]
          BY <3>1, <3>2, <2>n DEF NoSession
        <4> QED
          BY <4>1, <3>1, <3>3, <1>t DEF SftpTypeOK
      <3>6. HeldApart' /\ RunningApart'
        BY <3>1, <3>3, <3>4, <1>i DEF HeldApart, RunningApart
      <3>7. NoneLost'
        <4>1. \A k : IsHeld(k) => IsHeld(k)' \/ k = held[i]
          BY <3>4 DEF IsHeld
        <4> QED
          BY <4>1, <3>1, <3>3, <1>i DEF NoneLost, IsRunning
      <3> QED
        BY <3>3, <3>5, <3>6, <3>7 DEF SftpInv
    <2>9. CASE SftpDelete
      <3>1. /\ sftp.at = "idle" /\ stash' = [s \in Servers |-> <<>>]
            /\ alive' = alive \ UNION {Range(stash[s]) : s \in Servers}
            /\ UNCHANGED <<sftpMenu, abandoned, born, home, sftp, held>>
        BY <2>9 DEF SftpDelete
      <3>2. \A k : k \in alive' <=> k \in alive /\ ~InStash(k)
        BY <3>1 DEF InStash, Range
      <3>3. \A s \in Servers : DOMAIN stash'[s] = {}
        BY <3>1
      <3>4. SftpTypeOK'
        <4>1. stash' \in [Servers -> Seq(1..MaxSessions)]
          BY <3>1
        <4>2. alive' \subseteq 1..born'
          BY <3>1, <3>2, <2>n
        <4> QED
          BY <4>1, <4>2, <3>1, <1>t DEF SftpTypeOK
      <3>5. StashApart' /\ RunningApart'
        BY <3>1, <3>3 DEF StashApart, RunningApart
      <3>6. HeldApart'
        BY <3>1, <3>2, <3>3, <1>i DEF HeldApart, InStash
      <3>7. NoneLost'
        BY <3>1, <3>2, <1>i DEF NoneLost, IsHeld, IsRunning
      <3> QED
        BY <3>4, <3>5, <3>6, <3>7 DEF SftpInv
    <2>10. ASSUME NEW p \in Contested["sftp"], SftpMeddle(p) PROVE SftpInv'
      BY <2>10, <1>1 DEF SftpMeddle
    <2> QED
      BY <2>1, <2>2, <2>3, <2>4, <2>6, <2>7, <2>8, <2>9, <2>10 DEF SftpNext
  <1> QED
    BY <1>1, <1>2 DEF Next, vars

\* The SFTP plugin, with any number of servers, handles, sessions and calls: a
\* session that was set up is in one place until it is destroyed, and one whose
\* set-up failed is in none.
THEOREM SessionsKept == Spec => []SessionInOnePlace
  <1>1. ASSUME SftpInv PROVE SessionInOnePlace
    <2> DEFINE handles(n) == {i \in Slots : held[i] = n}
               idle(n) == UNION {{<<s, i>> : i \in {j \in DOMAIN stash[s] : stash[s][j] = n}} :
                                 s \in Servers}
               running(n) == {c \in {sftp} : c.at = "operate" /\ c.session = n}
    <2>i. SftpTypeOK /\ StashApart /\ HeldApart /\ RunningApart /\ NoneLost
      BY <1>1 DEF SftpInv
    <2>1. ASSUME NEW n \in 1..MaxSessions
          PROVE  Cardinality(handles(n)) + Cardinality(idle(n)) + Cardinality(running(n))
                    = IF n \in alive THEN 1 ELSE 0
      <3>z. n # NoSession
        BY SftpAssumption DEF NoSession
      <3>c. Cardinality({}) = 0 /\ \A x : Cardinality({x}) = 1
        BY FS_EmptySet, FS_Singleton
      <3>h. Cardinality(handles(n)) = IF IsHeld(n) THEN 1 ELSE 0
        <4>1. CASE ~IsHeld(n)
          <5>1. handles(n) = {}
            BY <4>1 DEF IsHeld
          <5> QED
            BY <5>1, <4>1, <3>c
        <4>2. CASE IsHeld(n)
          <5>1. PICK i \in Slots : held[i] = n
            BY <4>2 DEF IsHeld
          <5>2. handles(n) = {i}
            BY <5>1, <3>z, <2>i DEF HeldApart
          <5> QED
            BY <5>2, <4>2, <3>c
        <4> QED
          BY <4>1, <4>2
      <3>s. Cardinality(idle(n)) = IF InStash(n) THEN 1 ELSE 0
        <4>1. CASE ~InStash(n)
          <5>1. ASSUME NEW x \in idle(n) PROVE FALSE
            <6>1. PICK s \in Servers :
                    x \in {<<s, i>> : i \in {j \in DOMAIN stash[s] : stash[s][j] = n}}
              BY <5>1
            <6> QED
              BY <6>1, <4>1 DEF InStash
          <5>2. idle(n) = {}
            BY <5>1
          <5> QED
            BY <5>2, <4>1, <3>c
        <4>2. CASE InStash(n)
          <5>0. PICK s \in Servers : \E i \in DOMAIN stash[s] : stash[s][i] = n
            BY <4>2 DEF InStash
          <5>1. PICK i \in DOMAIN stash[s] : stash[s][i] = n
            BY <5>0
          <5>2. \A t \in Servers : \A j \in DOMAIN stash[t] : stash[t][j] = n => t = s /\ j = i
            BY <5>1, <2>i DEF StashApart
          <5>3. idle(n) = {<<s, i>>}
            BY <5>1, <5>2
          <5> QED
            BY <5>3, <4>2, <3>c
        <4> QED
          BY <4>1, <4>2
      <3>r. Cardinality(running(n)) = IF IsRunning(n) THEN 1 ELSE 0
        <4>1. running(n) = IF IsRunning(n) THEN {sftp} ELSE {}
          BY DEF IsRunning
        <4> QED
          BY <4>1, <3>c
      <3> HIDE DEF handles, idle, running
      <3>1. CASE n \notin alive
        <4>1. ~IsHeld(n) /\ ~InStash(n) /\ ~IsRunning(n)
          BY <3>1, <3>z, <2>i DEF IsHeld, InStash, IsRunning, HeldApart, StashApart, RunningApart
        <4> QED
          BY <4>1, <3>1, <3>h, <3>s, <3>r
      <3>2. CASE n \in alive
        <4>1. \/ IsHeld(n) /\ ~InStash(n) /\ ~IsRunning(n)
              \/ ~IsHeld(n) /\ InStash(n) /\ ~IsRunning(n)
              \/ ~IsHeld(n) /\ ~InStash(n) /\ IsRunning(n)
          BY <3>2, <3>z, <2>i DEF NoneLost, IsHeld, IsRunning, HeldApart, RunningApart
        <4> QED
          BY <4>1, <3>2, <3>h, <3>s, <3>r
      <3> QED
        BY <3>1, <3>2
    <2>2. \A s \in Servers : \A i \in DOMAIN stash[s] : home[stash[s][i]] = s
      BY <2>i DEF StashApart
    <2>3. sftp.at = "operate" => home[sftp.session] = sftp.server
      BY <2>i DEF RunningApart
    <2>4. alive \cap abandoned = {}
      BY <2>i, Zenon DEF SftpTypeOK
    <2> QED
      BY <2>1, <2>2, <2>3, <2>4 DEF SessionInOnePlace
  <1> QED
    BY <1>1, SftpInitially, SftpPreserved, PTL DEF Spec

-----------------------------------------------------------------------------
(* The lock and the context of the SRM plugin                              *)

CallShape(c) ==
    /\ c.at \in {"idle", "context", "inner", "ls", "ask", "change"}
    /\ c.at # "idle" =>
        /\ DOMAIN c = {"at", "section", "rest", "url", "ep"}
        /\ c.rest \in Seq(Following)

\* m is the directory l, further read perhaps.
SameListing(l, m) ==
    /\ "open" \in DOMAIN m /\ m.open = l.open
    /\ l.open =>
        /\ {"live", "exposed", "ep"} \subseteq DOMAIN m
        /\ m.live = l.live /\ m.exposed = l.exposed /\ m.ep = l.ep

ListingsKept == DOMAIN listing' = Threads /\ \A t \in Threads : SameListing(listing[t], listing'[t])

\* Directories that stay as they are.
LEMMA ListingsUnchanged ==
    ASSUME SrmTypeOK, listing' = listing PROVE ListingsKept
  BY DEF SrmTypeOK, ListingsKept, SameListing

\* The calls, when one of them moves on.
LEMMA CallsShaped ==
    ASSUME SrmTypeOK, NEW t \in Threads, NEW c, CallShape(c), call' = [call EXCEPT ![t] = c]
    PROVE  /\ DOMAIN call' = Threads
           /\ call'[t] = c
           /\ \A s \in Threads : s # t => call'[s] = call[s]
           /\ \A s \in Threads : CallShape(call'[s])
  BY DEF SrmTypeOK, CallShape

\* The types after a step that keeps the context.
LEMMA TypesKept ==
    ASSUME SrmTypeOK, ListingsKept, DOMAIN call' = Threads, \A t \in Threads : CallShape(call'[t]),
           lock' \in [owner : Threads \cup {Nobody}, depth : Nat],
           ctx' = ctx, leaked' \in [Threads -> Nat]
    PROVE  SrmTypeOK'
  <1>1. \A t \in Threads :
            /\ "open" \in DOMAIN listing'[t] /\ listing'[t].open \in BOOLEAN
            /\ listing'[t].open =>
                /\ {"live", "exposed", "ep"} \subseteq DOMAIN listing'[t]
                /\ listing'[t].exposed \in BOOLEAN
    BY Zenon DEF SrmTypeOK, ListingsKept, SameListing
  <1>2. DOMAIN listing' = Threads
    BY DEF ListingsKept
  <1> QED
    BY <1>1, <1>2 DEF SrmTypeOK, CallShape

\* The sections that follow take the lock themselves.
LEMMA FollowShape ==
    ASSUME NEW t \in Threads, call[t].at # "idle", CallShape(call[t]), NEW sections \in Seq(Following)
    PROVE  /\ CallShape(Follow(t, sections))
           /\ Follow(t, sections).at \in {"idle", "inner", "context"}
           /\ Follow(t, sections).at # "idle" => Follow(t, sections).section # "opendir"
  <1>1. CASE sections = <<>>
    BY <1>1 DEF Follow, Idle, CallShape
  <1>2. CASE sections # <<>>
    <2> DEFINE f == [call[t] EXCEPT !.section = Head(sections), !.rest = Tail(sections),
                                    !.at = IF Head(sections) \in Inner THEN "inner" ELSE "context"]
    <2>1. Head(sections) \in Following /\ Tail(sections) \in Seq(Following)
      BY <1>2
    <2>2. DOMAIN call[t] = {"at", "section", "rest", "url", "ep"}
      BY DEF CallShape
    <2>3. /\ DOMAIN f = {"at", "section", "rest", "url", "ep"}
          /\ f.rest = Tail(sections) /\ f.section = Head(sections)
          /\ f.at = IF Head(sections) \in Inner THEN "inner" ELSE "context"
      BY <2>2
    <2>4. Follow(t, sections) = f
      BY <1>2 DEF Follow
    <2> HIDE DEF f
    <2>5. f.at \in {"inner", "context"} /\ f.section # "opendir"
      BY <2>1, <2>3 DEF Following
    <2> QED
      BY <2>1, <2>3, <2>4, <2>5 DEF CallShape
  <1> QED
    BY <1>1, <1>2

\* The sections of a call.
LEMMA SectionsShape ==
    ASSUME NEW op, NEW s \in SectionsOf(op)
    PROVE  Tail(s) \in Seq(Following) /\ (Head(s) = "opendir" => op = "opendir")
  <1>1. /\ Head(<<op>>) = op /\ Tail(<<op>>) = <<>>
        /\ Head(<<"get">>) = "get" /\ Tail(<<"get">>) = <<>>
        /\ Head(<<"sum">>) = "sum" /\ Tail(<<"sum">>) = <<>>
        /\ Head(<<"status", "get">>) = "status" /\ Tail(<<"status", "get">>) = <<"get">>
        /\ Head(<<"sum", "get">>) = "sum" /\ Tail(<<"sum", "get">>) = <<"get">>
    OBVIOUS
  <1>2. <<>> \in Seq(Following) /\ <<"get">> \in Seq(Following)
    BY DEF Following
  <1>3. CASE op = "geturl"
    <2>1. s = <<"get">> \/ s = <<"status", "get">>
      BY <1>3 DEF SectionsOf, GeturlSections
    <2> QED
      BY <2>1, <1>1, <1>2
  <1>4. CASE op = "checksum"
    <2>1. s = <<"sum">> \/ s = <<"sum", "get">>
      BY <1>4 DEF SectionsOf, ChecksumSections
    <2> QED
      BY <2>1, <1>1, <1>2
  <1>5. CASE op \in {"read", "write"}
    <2>1. \E x \in Following, y \in Following : s = <<"castor", x, y>>
      BY <1>5 DEF SectionsOf, OpenSections, Following
    <2>2. PICK x \in Following, y \in Following : s = <<"castor", x, y>>
      BY <2>1
    <2>3. <<x, y>> \in Seq(Following) /\ Tail(<<"castor", x, y>>) = <<x, y>>
      OBVIOUS
    <2>4. Head(<<"castor", x, y>>) = "castor"
      OBVIOUS
    <2> QED
      BY <2>2, <2>3, <2>4
  <1>6. CASE op \notin {"geturl", "checksum", "read", "write"}
    <2>1. s = <<op>>
      BY <1>6 DEF SectionsOf
    <2> QED
      BY <2>1, <1>1, <1>2
  <1> QED
    BY <1>3, <1>4, <1>5, <1>6

\* A step that leaves the lock and the context alone
LEMMA StepAside ==
    ASSUME SrmInv, NEW t \in Threads, NEW c, CallShape(c),
           call' = [call EXCEPT ![t] = c] \/ (call' = call /\ c = call[t]),
           ListingsKept, UNCHANGED <<lock, ctx, mark, leaked>>,
           c.at \in {"ls", "ask", "change"} <=> InSection(t),
           InSection(t) => c.ep = call[t].ep /\ c.url = call[t].url,
           c.at # "idle" /\ c.section = "opendir" => ~listing[t].open
    PROVE  SrmInv'
  <1>t. SrmTypeOK
    BY DEF SrmInv
  <1>c. /\ DOMAIN call' = Threads /\ call'[t] = c
        /\ \A s \in Threads : s # t => call'[s] = call[s]
        /\ \A s \in Threads : CallShape(call'[s])
    <2>1. CASE call' = [call EXCEPT ![t] = c]
      BY <2>1, <1>t, CallsShaped
    <2>2. CASE call' = call /\ c = call[t]
      BY <2>2, <1>t DEF SrmTypeOK, CallShape
    <2> QED
      BY <2>1, <2>2
  <1>s. \A s \in Threads : InSection(s)' <=> InSection(s)
    BY <1>c DEF InSection
  <1>l. \A s \in Threads : SameListing(listing[s], listing'[s])
    BY DEF ListingsKept
  <1>1. SrmTypeOK'
    BY <1>t, <1>c, TypesKept DEF SrmTypeOK
  <1>2. LockFree' /\ ContextMarked'
    BY DEF SrmInv, LockFree, ContextMarked
  <1>3. OneDirectory'
    BY <1>c, <1>l DEF SrmInv, OneDirectory, SameListing
  <1>4. DepthEnough'
    BY <1>s, <1>l DEF SrmInv, DepthEnough, Relied, SameListing
  <1>5. ContextOfCall'
    BY <1>s, <1>c, <1>l DEF SrmInv, ContextOfCall, SameListing
  <1>6. LockAccounted'
    BY <1>s, <1>l DEF SrmInv, LockAccounted, SameListing, Count
  <1> QED
    BY <1>1, <1>2, <1>3, <1>4, <1>5, <1>6 DEF SrmInv

\* gfal_srm_ifce_easy_context_release at the end of a section
LEMMA StepRelease ==
    ASSUME SrmInv, NEW t \in Threads, InSection(t), NEW sections \in Seq(Following),
           Release(t, sections), listing' = listing
    PROVE  SrmInv'
  <1> DEFINE c == Follow(t, sections)
  <1>t. SrmTypeOK
    BY DEF SrmInv
  <1>f. /\ CallShape(c) /\ c.at \in {"idle", "inner", "context"}
        /\ c.at # "idle" => c.section # "opendir"
    BY <1>t, FollowShape DEF SrmTypeOK, CallShape, InSection
  <1>r. call' = [call EXCEPT ![t] = c] /\ lock' = Unlocked(t) /\ UNCHANGED <<ctx, mark, leaked>>
    BY DEF Release
  <1> HIDE DEF c
  <1>c. /\ DOMAIN call' = Threads /\ call'[t] = c
        /\ \A s \in Threads : s # t => call'[s] = call[s]
        /\ \A s \in Threads : CallShape(call'[s])
    BY <1>t, <1>f, <1>r, CallsShaped
  <1>o. /\ lock.owner = t /\ t # Nobody /\ lock.depth \in Nat
        /\ lock \in [owner : Threads \cup {Nobody}, depth : Nat]
    BY <1>t, SrmAssumption DEF SrmInv, ContextOfCall, SrmTypeOK
  <1>u. \/ lock.depth = 1 /\ lock' = [owner |-> Nobody, depth |-> 0]
        \/ lock.depth > 1 /\ lock' = [owner |-> t, depth |-> lock.depth - 1]
    <2>1. lock.depth # 0
      BY <1>o DEF SrmInv, LockFree
    <2> QED
      BY <2>1, <1>o, <1>r DEF Unlocked
  <1>s. ~InSection(t)' /\ \A s \in Threads : s # t => ~InSection(s) /\ ~InSection(s)' /\ ~Relied(s)
    BY <1>c, <1>f, <1>o DEF InSection, Relied, SrmInv, ContextOfCall
  <1>1. SrmTypeOK'
    BY <1>t, <1>c, <1>r, <1>u, TypesKept, ListingsUnchanged DEF SrmTypeOK
  <1>v. \/ lock'.owner = Nobody /\ lock'.depth = 0
        \/ lock'.owner = t /\ lock'.depth = lock.depth - 1 /\ lock.depth > 1
    BY <1>u
  <1>2. LockFree' /\ ContextMarked'
    <2>1. LockFree'
      BY <1>v, <1>o DEF LockFree
    <2> QED
      BY <2>1, <1>r DEF SrmInv, ContextMarked
  <1>3. OneDirectory'
    BY <1>c, <1>f DEF SrmInv, OneDirectory
  <1>4. DepthEnough'
    BY <1>s DEF DepthEnough
  <1>5. ContextOfCall'
    <2> SUFFICES ASSUME NEW s \in Threads, listing[s].open, ~listing[s].exposed
                 PROVE  lock'.owner = s /\ listing[s].live /\ ctx = listing[s].ep
      BY <1>s, <1>r DEF ContextOfCall
    <2>1. s = t /\ lock.depth >= 2
      BY <1>s DEF Relied, SrmInv, DepthEnough
    <2> QED
      BY <2>1, <1>u DEF SrmInv, ContextOfCall
  <1>6. LockAccounted'
    <2> SUFFICES ASSUME NEW s \in Threads, lock'.owner = s
                 PROVE  lock'.depth <= Count(InSection(s)') + Count(listing[s].open) + leaked[s]
      BY <1>r DEF LockAccounted
    <2>1. s = t /\ lock'.depth = lock.depth - 1
      BY <1>v, SrmAssumption
    <2>2. lock.depth <= Count(InSection(t)) + Count(listing[t].open) + leaked[t]
      BY <1>o DEF SrmInv, LockAccounted
    <2> QED
      BY <2>1, <2>2, <1>s, <1>o, <1>t DEF Count, SrmTypeOK
  <1> QED
    BY <1>1, <1>2, <1>3, <1>4, <1>5, <1>6 DEF SrmInv

\* The two returns that skip the release
LEMMA StepLeak ==
    ASSUME SrmInv, NEW t \in Threads, InSection(t), Leak(t), listing' = listing
    PROVE  SrmInv'
  <1>t. SrmTypeOK
    BY DEF SrmInv
  <1>r. /\ call' = [call EXCEPT ![t] = Idle] /\ leaked' = [leaked EXCEPT ![t] = @ + 1]
        /\ UNCHANGED <<lock, ctx, mark>>
    BY DEF Leak
  <1>f. CallShape(Idle)
    BY DEF CallShape, Idle
  <1>c. /\ DOMAIN call' = Threads /\ call'[t] = Idle
        /\ \A s \in Threads : s # t => call'[s] = call[s]
        /\ \A s \in Threads : CallShape(call'[s])
    BY <1>t, <1>r, <1>f, CallsShaped
  <1>k. leaked \in [Threads -> Nat] /\ leaked' \in [Threads -> Nat] /\ leaked'[t] = leaked[t] + 1
        /\ \A s \in Threads : s # t => leaked'[s] = leaked[s]
    BY <1>t, <1>r DEF SrmTypeOK
  <1>s. ~InSection(t)' /\ \A s \in Threads : s # t => (InSection(s)' <=> InSection(s))
    BY <1>c DEF InSection, Idle
  <1>1. SrmTypeOK'
    BY <1>t, <1>c, <1>r, <1>k, TypesKept, ListingsUnchanged DEF SrmTypeOK
  <1>2. LockFree' /\ ContextMarked'
    BY <1>r DEF SrmInv, LockFree, ContextMarked
  <1>3. OneDirectory'
    BY <1>c DEF SrmInv, OneDirectory, Idle
  <1>4. DepthEnough'
    BY <1>r, <1>s DEF SrmInv, DepthEnough, Relied
  <1>5. ContextOfCall'
    BY <1>r, <1>s, <1>c DEF SrmInv, ContextOfCall
  <1>6. LockAccounted'
    <2> SUFFICES ASSUME NEW s \in Threads, lock.owner = s
                 PROVE  lock.depth <= Count(InSection(s)') + Count(listing[s].open) + leaked'[s]
      BY <1>r DEF LockAccounted
    <2>1. lock.depth <= Count(InSection(s)) + Count(listing[s].open) + leaked[s]
      BY DEF SrmInv, LockAccounted
    <2>2. lock.depth \in Nat
      BY <1>t DEF SrmTypeOK
    <2>3. CASE s = t
      BY <2>1, <2>2, <2>3, <1>s, <1>k DEF Count
    <2>4. CASE s # t
      BY <2>1, <2>4, <1>s, <1>k DEF Count
    <2> QED
      BY <2>3, <2>4
  <1> QED
    BY <1>1, <1>2, <1>3, <1>4, <1>5, <1>6 DEF SrmInv

ListingShape(l) ==
    /\ "open" \in DOMAIN l /\ l.open \in BOOLEAN
    /\ l.open => {"live", "exposed", "ep"} \subseteq DOMAIN l /\ l.exposed \in BOOLEAN

\* The types after a step that makes a context.
LEMMA TypesMade ==
    ASSUME DOMAIN call' = Threads, \A t \in Threads : CallShape(call'[t]),
           DOMAIN listing' = Threads, \A t \in Threads : ListingShape(listing'[t]),
           lock' \in [owner : Threads \cup {Nobody}, depth : Nat], leaked' \in [Threads -> Nat],
           NEW e, NEW d, ctx' = [ep |-> e, cred |-> d]
    PROVE  SrmTypeOK'
  <1>1. ctx' = [ep |-> ctx'.ep, cred |-> ctx'.cred]
    OBVIOUS
  <1> QED
    BY <1>1 DEF SrmTypeOK, CallShape, ListingShape

\* gfal_srm_ifce_easy_context: the lock is taken once more, and what is then
\* current is the context of the call.
LEMMA StepContext ==
    ASSUME SrmInv, NEW t \in Threads, GetContext(t)
    PROVE  SrmInv'
  <1> DEFINE u == call[t].url
  <1>t. SrmTypeOK
    BY DEF SrmInv
  <1>g. call[t].at = "context" /\ lock.owner \in {Nobody, t}
        /\ lock' = [owner |-> t, depth |-> lock.depth + 1] /\ leaked' = leaked
    BY DEF GetContext, Free, Locked
  <1>p. PICK ep \in DetermineEndpoint(u) :
            LET same == ctx # NoContext /\ IsSameContext(u, ep) IN
            /\ mark' = [ep |-> ep, cred |-> IF CredOf(u) = "" THEN mark.cred ELSE CredOf(u)]
            /\ ctx' = IF same THEN ctx ELSE NewContext(u, ep)
            /\ call' = [call EXCEPT ![t].at = FirstRequest(call[t].section), ![t].ep = ep]
            /\ listing' = [s \in Threads |->
                            IF listing[s].open /\ ~same
                            THEN [listing[s] EXCEPT !.live = FALSE, !.exposed = @ \/ s = t]
                            ELSE listing[s]]
    BY DEF GetContext
  <1> DEFINE same == ctx # NoContext /\ IsSameContext(u, ep)
             c == [call[t] EXCEPT !.at = FirstRequest(call[t].section), !.ep = ep]
  <1>d. DOMAIN call = Threads /\ DOMAIN call[t] = {"at", "section", "rest", "url", "ep"}
        /\ call[t].rest \in Seq(Following)
    BY <1>t, <1>g DEF SrmTypeOK
  <1>f. /\ DOMAIN c = {"at", "section", "rest", "url", "ep"}
        /\ c.at \in {"ls", "ask", "change"} /\ c.ep = ep /\ c.url = u
        /\ c.rest = call[t].rest /\ c.section = call[t].section
    BY <1>d DEF FirstRequest
  <1>e. call' = [call EXCEPT ![t] = c]
    BY <1>p, <1>d
  <1>x. /\ mark' = [ep |-> ep, cred |-> IF CredOf(u) = "" THEN mark.cred ELSE CredOf(u)]
        /\ ctx' = IF same THEN ctx ELSE NewContext(u, ep)
        /\ DOMAIN listing' = Threads
        /\ \A s \in Threads :
            listing'[s] = IF listing[s].open /\ ~same
                          THEN [listing[s] EXCEPT !.live = FALSE, !.exposed = @ \/ s = t]
                          ELSE listing[s]
    BY <1>p
  <1> HIDE DEF c, same
  <1>h. CallShape(c)
    BY <1>f, <1>d DEF CallShape
  <1>c. /\ DOMAIN call' = Threads /\ call'[t] = c
        /\ \A s \in Threads : s # t => call'[s] = call[s]
        /\ \A s \in Threads : CallShape(call'[s])
    BY <1>t, <1>h, <1>e, CallsShaped
  <1>l. /\ \A s \in Threads : ListingShape(listing'[s])
        /\ \A s \in Threads : listing'[s].open = listing[s].open
        /\ \A s \in Threads : listing[s].open /\ ~listing'[s].exposed =>
                ~listing[s].exposed /\ (s = t => same) /\ (same => listing'[s] = listing[s])
    <2> SUFFICES ASSUME NEW s \in Threads
                 PROVE  /\ ListingShape(listing'[s])
                        /\ listing'[s].open = listing[s].open
                        /\ listing[s].open /\ ~listing'[s].exposed =>
                            ~listing[s].exposed /\ (s = t => same) /\ (same => listing'[s] = listing[s])
      OBVIOUS
    <2>1. CASE listing[s].open /\ ~same
      <3> DEFINE m == [listing[s] EXCEPT !.live = FALSE, !.exposed = @ \/ s = t]
      <3>1. /\ "open" \in DOMAIN listing[s]
            /\ {"live", "exposed", "ep"} \subseteq DOMAIN listing[s]
            /\ listing[s].exposed \in BOOLEAN /\ listing[s].open \in BOOLEAN
        BY <2>1, <1>t DEF SrmTypeOK
      <3>2. DOMAIN m = DOMAIN listing[s] /\ m.open = listing[s].open
            /\ m.exposed = (listing[s].exposed \/ s = t)
        BY <3>1
      <3>3. listing'[s] = m
        BY <2>1, <1>x
      <3> HIDE DEF m
      <3>4. m.exposed \in BOOLEAN /\ (~m.exposed => ~listing[s].exposed /\ s # t)
        BY <3>2, Zenon
      <3> QED
        BY <2>1, <3>1, <3>2, <3>3, <3>4 DEF ListingShape
    <2>2. CASE ~(listing[s].open /\ ~same)
      <3>1. listing'[s] = listing[s] /\ (listing[s].open => same)
        BY <2>2, <1>x
      <3> QED
        BY <3>1, <1>t DEF ListingShape, SrmTypeOK
    <2> QED
      BY <2>1, <2>2
  <1>o. lock.depth \in Nat /\ t # Nobody /\ (lock.owner = t => lock.depth >= 1)
        /\ (lock.owner # t => lock.depth = 0)
    <2>1. lock.depth \in Nat /\ t # Nobody
      BY <1>t, SrmAssumption DEF SrmTypeOK
    <2>2. lock.owner = Nobody <=> lock.depth = 0
      BY DEF SrmInv, LockFree
    <2> QED
      BY <2>1, <2>2, <1>g
  <1>s. /\ ~InSection(t) /\ InSection(t)'
        /\ \A s \in Threads : s # t => ~InSection(s)' /\ ~Relied(s)
    <2>1. \A s \in Threads : s # t => lock.owner # s
      BY <1>g, SrmAssumption
    <2>2. ~InSection(t) /\ InSection(t)'
      BY <1>g, <1>c, <1>f DEF InSection
    <2>3. \A s \in Threads : s # t => ~InSection(s) /\ ~Relied(s)
      BY <2>1 DEF SrmInv, ContextOfCall, Relied
    <2> QED
      BY <2>2, <2>3, <1>c DEF InSection
  <1>k. ctx' = [ep |-> ep, cred |-> CredOf(u)]
    <2>1. CASE ~same
      BY <2>1, <1>x DEF NewContext
    <2>2. CASE same
      <3>1. u \notin Mapped /\ mark.ep = ep /\ mark.cred = CredOf(u)
        BY <2>2 DEF same, IsSameContext
      <3>2. ctx.ep = ep /\ ctx.cred = CredOf(u)
        BY <3>1 DEF SrmInv, ContextMarked, CredOf
      <3> QED
        BY <3>2, <2>2, <1>x, <1>t DEF SrmTypeOK
    <2> QED
      BY <2>1, <2>2
  <1>1. SrmTypeOK'
    <2>1. lock' \in [owner : Threads \cup {Nobody}, depth : Nat]
      BY <1>g, <1>o
    <2>2. leaked' \in [Threads -> Nat]
      BY <1>t, <1>g DEF SrmTypeOK
    <2> QED
      BY <2>1, <2>2, <1>c, <1>x, <1>l, <1>k, TypesMade
  <1>2. LockFree'
    BY <1>g, <1>o DEF LockFree
  <1>3. ContextMarked'
    <2>1. CASE CredOf(u) # ""
      BY <2>1, <1>x, <1>k DEF ContextMarked
    <2>2. CASE CredOf(u) = ""
      <3>1. DefaultCred = ""
        BY <2>2, SrmAssumption DEF CredOf
      <3>2. ctx'.ep = ep /\ ctx'.cred = ""
        BY <2>2, <1>k
      <3>3. mark'.ep = ep
        BY <1>x
      <3> QED
        BY <3>1, <3>2, <3>3 DEF ContextMarked
    <2> QED
      BY <2>1, <2>2
  <1>4. OneDirectory'
    BY <1>c, <1>f, <1>g, <1>l DEF SrmInv, OneDirectory
  <1>5. DepthEnough'
    <2> SUFFICES ASSUME Relied(t)' PROVE lock'.depth >= 2
      BY <1>s DEF DepthEnough
    <2>1. Relied(t)
      BY <1>l DEF Relied
    <2>2. lock.owner = t
      BY <2>1 DEF Relied, SrmInv, ContextOfCall
    <2> QED
      BY <2>2, <1>o, <1>g
  <1>6. ContextOfCall'
    <2>1. ASSUME NEW s \in Threads, InSection(s)'
          PROVE  lock'.owner = s /\ ctx' = [ep |-> call'[s].ep, cred |-> CredOf(call'[s].url)]
      BY <2>1, <1>s, <1>c, <1>f, <1>g, <1>k
    <2>2. ASSUME NEW s \in Threads, listing'[s].open, ~listing'[s].exposed
          PROVE  lock'.owner = s /\ listing'[s].live /\ ctx' = listing'[s].ep
      <3>1. Relied(s)
        BY <2>2, <1>l DEF Relied
      <3>2. s = t /\ same /\ listing'[s] = listing[s]
        BY <3>1, <2>2, <1>s, <1>l
      <3>3. listing[s].live /\ ctx = listing[s].ep
        BY <3>1 DEF Relied, SrmInv, ContextOfCall
      <3> QED
        BY <3>2, <3>3, <1>g, <1>x
    <2> QED
      BY <2>1, <2>2 DEF ContextOfCall, CredOf
  <1>7. LockAccounted'
    <2> SUFFICES ASSUME NEW s \in Threads, lock'.owner = s
                 PROVE  lock'.depth <= Count(InSection(s)') + Count(listing'[s].open) + leaked'[s]
      BY DEF LockAccounted, Count
    <2>1. s = t /\ lock'.depth = lock.depth + 1 /\ leaked[t] \in Nat
      BY <1>g, <1>t DEF SrmTypeOK
    <2>2. CASE lock.owner = t
      <3>1. lock.depth <= Count(InSection(t)) + Count(listing[t].open) + leaked[t]
        BY <2>2 DEF SrmInv, LockAccounted
      <3> QED
        BY <3>1, <2>1, <1>s, <1>l, <1>o, <1>g DEF Count
    <2>3. CASE lock.owner # t
      BY <2>3, <2>1, <1>s, <1>o, <1>g DEF Count
    <2> QED
      BY <2>2, <2>3
  <1> QED
    BY <1>1, <1>2, <1>3, <1>4, <1>5, <1>6, <1>7 DEF SrmInv

\* The lock is given back outside of a section: by closedir, or by a call that
\* did not get a context.
LEMMA StepUnlock ==
    ASSUME SrmInv, NEW t \in Threads, ~InSection(t),
           DOMAIN call' = Threads, CallShape(call'[t]), call'[t].at = "idle",
           \A s \in Threads : s # t => call'[s] = call[s],
           lock' = Unlocked(t), UNCHANGED <<ctx, mark, leaked>>,
           DOMAIN listing' = Threads, ListingShape(listing'[t]), ~Relied(t)',
           listing'[t].open => listing[t].open,
           \A s \in Threads : s # t => listing'[s] = listing[s]
    PROVE  SrmInv'
  <1>t. SrmTypeOK
    BY DEF SrmInv
  <1>o. lock \in [owner : Threads \cup {Nobody}, depth : Nat] /\ t # Nobody /\ lock.depth \in Nat
    BY <1>t, SrmAssumption DEF SrmTypeOK
  <1>u. \/ lock.owner # t /\ lock' = lock
        \/ lock.owner = t /\ lock'.owner = Nobody /\ lock'.depth = 0
        \/ lock.owner = t /\ lock'.owner = t /\ lock'.depth = lock.depth - 1 /\ lock.depth > 1
    <2>1. lock.owner = Nobody <=> lock.depth = 0
      BY DEF SrmInv, LockFree
    <2> QED
      BY <2>1, <1>o DEF Unlocked
  <1>m. lock' \in [owner : Threads \cup {Nobody}, depth : Nat]
    <2>1. lock.owner = Nobody <=> lock.depth = 0
      BY DEF SrmInv, LockFree
    <2> QED
      BY <2>1, <1>o DEF Unlocked
  <1>s. ~InSection(t)' /\ \A s \in Threads : s # t => (InSection(s)' <=> InSection(s))
    BY DEF InSection
  <1>1. SrmTypeOK'
    <2>1. \A s \in Threads : CallShape(call'[s])
      BY <1>t DEF SrmTypeOK, CallShape
    <2>2. \A s \in Threads : ListingShape(listing'[s])
      BY <1>t DEF SrmTypeOK, ListingShape
    <2>3. ctx' = [ep |-> ctx.ep, cred |-> ctx.cred] /\ leaked' \in [Threads -> Nat]
      BY <1>t DEF SrmTypeOK
    <2> QED
      BY <2>1, <2>2, <2>3, <1>m, TypesMade
  <1>2. LockFree'
    BY <1>u, <1>o DEF SrmInv, LockFree
  <1>3. ContextMarked'
    BY DEF SrmInv, ContextMarked
  <1>4. OneDirectory'
    BY DEF SrmInv, OneDirectory
  <1>5. DepthEnough'
    <2> SUFFICES ASSUME NEW s \in Threads, InSection(s)', Relied(s)' PROVE lock'.depth >= 2
      BY DEF DepthEnough
    <2>1. s # t /\ InSection(s) /\ Relied(s)
      BY <1>s DEF Relied
    <2>2. lock.owner = s /\ lock.depth >= 2
      BY <2>1 DEF SrmInv, ContextOfCall, DepthEnough
    <2> QED
      BY <2>1, <2>2, <1>u
  <1>6. ContextOfCall'
    <2>1. ASSUME NEW s \in Threads, InSection(s)'
          PROVE  lock'.owner = s /\ ctx' = [ep |-> call'[s].ep, cred |-> CredOf(call'[s].url)]
      <3>1. s # t /\ InSection(s) /\ call'[s] = call[s]
        BY <2>1, <1>s
      <3>2. lock.owner = s /\ ctx = [ep |-> call[s].ep, cred |-> CredOf(call[s].url)]
        BY <3>1 DEF SrmInv, ContextOfCall
      <3> QED
        BY <3>1, <3>2, <1>u
    <2>2. ASSUME NEW s \in Threads, listing'[s].open, ~listing'[s].exposed
          PROVE  lock'.owner = s /\ listing'[s].live /\ ctx' = listing'[s].ep
      <3>1. s # t /\ listing'[s] = listing[s]
        BY <2>2 DEF Relied
      <3>2. lock.owner = s /\ listing[s].live /\ ctx = listing[s].ep
        BY <3>1, <2>2 DEF SrmInv, ContextOfCall
      <3> QED
        BY <3>1, <3>2, <1>u
    <2> QED
      BY <2>1, <2>2 DEF ContextOfCall, CredOf
  <1>7. LockAccounted'
    <2> SUFFICES ASSUME NEW s \in Threads, lock'.owner = s
                 PROVE  lock'.depth <= Count(InSection(s)') + Count(listing'[s].open) + leaked[s]
      BY DEF LockAccounted, Count
    <2>n. leaked[s] \in Nat /\ s # Nobody
      BY <1>t, SrmAssumption DEF SrmTypeOK
    <2>1. CASE s # t
      <3>1. lock' = lock /\ lock.owner = s
        BY <2>1, <2>n, <1>u
      <3>2. lock.depth <= Count(InSection(s)) + Count(listing[s].open) + leaked[s]
        BY <3>1 DEF SrmInv, LockAccounted
      <3> QED
        BY <3>1, <3>2, <2>1, <1>s DEF Count
    <2>2. CASE s = t
      <3>1. lock.owner = t /\ lock'.depth = lock.depth - 1
        BY <2>2, <2>n, <1>u
      <3>2. lock.depth <= Count(InSection(t)) + Count(listing[t].open) + leaked[t]
        BY <3>1 DEF SrmInv, LockAccounted
      <3> QED
        BY <3>1, <3>2, <2>2, <2>n, <1>s, <1>o DEF Count
    <2> QED
      BY <2>1, <2>2
  <1> QED
    BY <1>1, <1>2, <1>3, <1>4, <1>5, <1>6, <1>7 DEF SrmInv

\* EndpointFails: a release without a lock, or none.
LEMMA StepFails ==
    ASSUME SrmInv, NEW t \in Threads, EndpointFails(t)
    PROVE  SrmInv'
  <1>t. SrmTypeOK
    BY DEF SrmInv
  <1>a. call[t].at = "context" /\ ~InSection(t) /\ CallShape(call[t])
        /\ call[t].rest \in Seq(Following) /\ <<>> \in Seq(Following)
    BY <1>t DEF EndpointFails, InSection, SrmTypeOK, CallShape
  <1>1. CASE call[t].section \in {"opendir", "type", "castor"}
    <2> DEFINE rest == IF call[t].section = "castor" THEN call[t].rest ELSE <<>>
               c == Follow(t, rest)
    <2>1. call' = [call EXCEPT ![t] = c] /\ UNCHANGED <<lock, ctx, mark, leaked, listing>>
      BY <1>1 DEF EndpointFails
    <2>2. rest \in Seq(Following)
      BY <1>a
    <2> HIDE DEF rest
    <2>3. /\ CallShape(c) /\ c.at \in {"idle", "inner", "context"}
          /\ c.at # "idle" => c.section # "opendir"
      BY <2>2, <1>a, FollowShape
    <2>4. ListingsKept
      BY <2>1, <1>t, ListingsUnchanged
    <2> HIDE DEF c
    <2> QED
      BY <2>1, <2>3, <2>4, <1>a, StepAside
  <1>2. CASE call[t].section \notin {"opendir", "type", "castor"}
    <2>1. /\ Release(t, <<>>)
          /\ listing' = IF listing[t].open THEN [listing EXCEPT ![t].exposed = TRUE] ELSE listing
      BY <1>2 DEF EndpointFails
    <2>2. lock' = Unlocked(t) /\ UNCHANGED <<ctx, mark, leaked>> /\ call' = [call EXCEPT ![t] = Idle]
      BY <2>1 DEF Release, Follow
    <2>3. CallShape(Idle)
      BY DEF CallShape, Idle
    <2>4. /\ DOMAIN call' = Threads /\ call'[t] = Idle
          /\ \A s \in Threads : s # t => call'[s] = call[s]
      BY <2>2, <2>3, <1>t, CallsShaped
    <2>5. /\ DOMAIN listing' = Threads /\ ListingShape(listing'[t]) /\ ~Relied(t)'
          /\ listing'[t].open => listing[t].open
          /\ \A s \in Threads : s # t => listing'[s] = listing[s]
      <3>1. CASE listing[t].open
        <4>1. DOMAIN listing = Threads /\ "open" \in DOMAIN listing[t]
              /\ {"live", "exposed", "ep"} \subseteq DOMAIN listing[t]
          BY <3>1, <1>t DEF SrmTypeOK
        <4>2. listing' = [listing EXCEPT ![t] = [listing[t] EXCEPT !.exposed = TRUE]]
          BY <2>1, <3>1
        <4>3. /\ DOMAIN listing' = Threads
              /\ listing'[t] = [listing[t] EXCEPT !.exposed = TRUE]
              /\ \A s \in Threads : s # t => listing'[s] = listing[s]
          BY <4>1, <4>2
        <4>4. DOMAIN listing'[t] = DOMAIN listing[t] /\ listing'[t].exposed = TRUE
              /\ listing'[t].open = listing[t].open
          BY <4>1, <4>3
        <4>5. listing'[t].exposed \in BOOLEAN /\ listing'[t].open \in BOOLEAN
          BY <4>4, <1>t, Zenon DEF SrmTypeOK
        <4> QED
          BY <3>1, <4>1, <4>3, <4>4, <4>5 DEF ListingShape, Relied
      <3>2. CASE ~listing[t].open
        BY <3>2, <2>1, <1>t DEF SrmTypeOK, ListingShape, Relied
      <3> QED
        BY <3>1, <3>2
    <2> QED
      BY <2>2, <2>3, <2>4, <2>5, <1>a, StepUnlock DEF Idle
  <1> QED
    BY <1>1, <1>2

\* closedir gives the lock back.
LEMMA StepClosedir ==
    ASSUME SrmInv, NEW t \in Threads, Closedir(t)
    PROVE  SrmInv'
  <1>t. SrmTypeOK
    BY DEF SrmInv
  <1>1. /\ call[t].at = "idle" /\ listing[t].open /\ lock' = Unlocked(t)
        /\ listing' = [listing EXCEPT ![t] = NoListing] /\ UNCHANGED <<ctx, mark, call, leaked>>
    BY DEF Closedir
  <1>2. /\ DOMAIN listing' = Threads /\ listing'[t] = NoListing
        /\ \A s \in Threads : s # t => listing'[s] = listing[s]
    BY <1>1, <1>t DEF SrmTypeOK
  <1>3. ListingShape(NoListing) /\ ~NoListing.open
    BY DEF ListingShape, NoListing
  <1>4. ~InSection(t) /\ CallShape(call'[t]) /\ DOMAIN call' = Threads
    BY <1>1, <1>t DEF InSection, CallShape, SrmTypeOK
  <1>5. ~Relied(t)'
    BY <1>2, <1>3 DEF Relied
  <1> QED
    BY <1>1, <1>2, <1>3, <1>4, <1>5, StepUnlock

\* gfal_srm_opendirG: the section ends and the directory keeps its lock.
LEMMA StepOpendir ==
    ASSUME SrmInv, NEW t \in Threads, LsOpendir(t)
    PROVE  SrmInv'
  <1>t. SrmTypeOK
    BY DEF SrmInv
  <1>a. call[t].at = "ls" /\ call[t].section = "opendir" /\ InSection(t)
    BY DEF LsOpendir, InSection
  <1>p. \/ Leak(t) /\ listing' = listing
        \/ \E w \in Windows :
            /\ listing' = [listing EXCEPT ![t] = OpenListing(call[t].url, w)]
            /\ call' = [call EXCEPT ![t] = Idle]
            /\ UNCHANGED <<lock, ctx, mark, leaked>>
    BY DEF LsOpendir
  <1>1. CASE Leak(t) /\ listing' = listing
    BY <1>1, <1>a, StepLeak
  <1>2. ASSUME NEW w \in Windows,
               listing' = [listing EXCEPT ![t] = OpenListing(call[t].url, w)],
               call' = [call EXCEPT ![t] = Idle], UNCHANGED <<lock, ctx, mark, leaked>>
        PROVE  SrmInv'
    <2> DEFINE m == OpenListing(call[t].url, w)
    <2>1. /\ m.open = TRUE /\ m.live = TRUE /\ m.exposed = FALSE /\ m.ep = ctx
          /\ {"open", "live", "exposed", "ep"} \subseteq DOMAIN m
      BY DEF OpenListing
    <2>2. listing' = [listing EXCEPT ![t] = m]
      BY <1>2
    <2> HIDE DEF m
    <2>l. /\ DOMAIN listing' = Threads /\ listing'[t] = m
          /\ \A s \in Threads : s # t => listing'[s] = listing[s]
      BY <2>2, <1>t DEF SrmTypeOK
    <2>h. m.open \in BOOLEAN /\ m.exposed \in BOOLEAN
      BY <2>1, Zenon
    <2>f. CallShape(Idle)
      BY DEF CallShape, Idle
    <2>c. /\ DOMAIN call' = Threads /\ call'[t] = Idle
          /\ \A s \in Threads : s # t => call'[s] = call[s]
          /\ \A s \in Threads : CallShape(call'[s])
      BY <1>2, <2>f, <1>t, CallsShaped
    <2>s. ~InSection(t)' /\ \A s \in Threads : s # t => (InSection(s)' <=> InSection(s))
      BY <2>c DEF InSection, Idle
    <2>o. lock.owner = t /\ ~listing[t].open
      BY <1>a DEF SrmInv, ContextOfCall, OneDirectory
    <2>3. SrmTypeOK'
      <3>1. \A s \in Threads : ListingShape(listing'[s])
        BY <2>l, <2>1, <2>h, <1>t DEF ListingShape, SrmTypeOK
      <3>2. ctx' = [ep |-> ctx.ep, cred |-> ctx.cred] /\ leaked' \in [Threads -> Nat]
            /\ lock' \in [owner : Threads \cup {Nobody}, depth : Nat]
        BY <1>2, <1>t DEF SrmTypeOK
      <3> QED
        BY <3>1, <3>2, <2>c, <2>l, TypesMade
    <2>4. LockFree' /\ ContextMarked'
      BY <1>2 DEF SrmInv, LockFree, ContextMarked
    <2>5. OneDirectory'
      BY <2>c, <2>l DEF SrmInv, OneDirectory, Idle
    <2>6. DepthEnough'
      BY <2>s, <2>l, <1>2 DEF SrmInv, DepthEnough, Relied
    <2>7. ContextOfCall'
      BY <2>s, <2>c, <2>l, <2>o, <2>1, <1>2 DEF SrmInv, ContextOfCall
    <2>8. LockAccounted'
      <3> SUFFICES ASSUME NEW s \in Threads, lock.owner = s
                   PROVE  lock.depth <= Count(InSection(s)') + Count(listing'[s].open) + leaked[s]
        BY <1>2 DEF LockAccounted, Count
      <3>1. s = t
        BY <2>o
      <3>2. lock.depth <= Count(InSection(t)) + Count(listing[t].open) + leaked[t]
        BY <2>o DEF SrmInv, LockAccounted
      <3> QED
        BY <3>1, <3>2, <2>s, <2>l, <2>1, <2>o, <1>a DEF Count
    <2> QED
      BY <2>3, <2>4, <2>5, <2>6, <2>7, <2>8 DEF SrmInv
  <1> QED
    BY <1>p, <1>1, <1>2

\* gfal_srm_readdir_pipeline moves within the directory and leaves its context.
LEMMA DeliverKeeps ==
    ASSUME SrmTypeOK, NEW t \in Threads, NEW l, SameListing(listing[t], l), Deliver(t, l)
    PROVE  ListingsKept
  <1>1. ASSUME NEW m, SameListing(listing[t], m), listing' = [listing EXCEPT ![t] = m]
        PROVE  ListingsKept
    BY <1>1 DEF SrmTypeOK, ListingsKept, SameListing
  <1>2. CASE l.index >= Len(l.page)
    <2>1. SameListing(listing[t], [l EXCEPT !.ended = TRUE])
      BY DEF SameListing
    <2> QED
      BY <1>1, <1>2, <2>1 DEF Deliver
  <1>3. CASE ~(l.index >= Len(l.page))
    <2> DEFINE entry == l.page[l.index + 1]
               next == [l EXCEPT !.index = @ + 1, !.given = Append(@, entry.path)]
               m == IF PastChunk(next)
                    THEN [next EXCEPT !.offset = @ + next.chunk, !.loaded = FALSE, !.page = <<>>]
                    ELSE next
    <2>1. listing' = [listing EXCEPT ![t] = m]
      BY <1>3 DEF Deliver
    <2>2. SameListing(listing[t], next)
      BY DEF SameListing
    <2> HIDE DEF next
    <2>3. SameListing(listing[t], m)
      BY <2>2 DEF SameListing
    <2> HIDE DEF m
    <2> QED
      BY <1>1, <2>1, <2>3
  <1> QED
    BY <1>2, <1>3

\* readdir leaves the context and the lock alone.
LEMMA ReaddirKeeps ==
    ASSUME SrmTypeOK, NEW t \in Threads, Readdir(t)
    PROVE  ListingsKept
  <1> DEFINE l == listing[t]
  <1>1. SameListing(l, l) /\ SameListing(l, Chunked(l))
    BY DEF SrmTypeOK, SameListing, Chunked
  <1>2. \A page : SameListing(l, Loaded(l, page))
    BY DEF SrmTypeOK, SameListing, Loaded
  <1>3. \A page : SameListing(l, Loaded(Chunked(l), page))
    BY <1>1 DEF SameListing, Loaded
  <1>4. CASE listing' = listing
    BY <1>4, ListingsUnchanged
  <1>5. CASE listing' = [listing EXCEPT ![t] = Chunked(l)]
    BY <1>1, <1>5 DEF SrmTypeOK, ListingsKept, SameListing
  <1>6. \/ Deliver(t, l)
        \/ \E page : Deliver(t, Loaded(l, page)) \/ Deliver(t, Loaded(Chunked(l), page))
        \/ listing' = [listing EXCEPT ![t] = Chunked(l)]
        \/ listing' = listing
    <2>1. CASE l.loaded
      BY <2>1 DEF Readdir
    <2>2. CASE ~l.loaded
      <3>1. PICK a \in Pages(l) :
                CASE a.code = "OK" -> Deliver(t, Loaded(l, a.page))
                  [] a.code = "EFBIG" /\ ~l.chunked ->
                        \E b \in Pages(Chunked(l)) :
                            IF b.code = "OK" THEN Deliver(t, Loaded(Chunked(l), b.page))
                            ELSE /\ listing' = [listing EXCEPT ![t] = Chunked(l)]
                                 /\ UNCHANGED <<cache, excused>>
                  [] OTHER -> UNCHANGED <<listing, cache, excused>>
        BY <2>2 DEF Readdir
      <3>2. CASE a.code = "OK"
        BY <3>1, <3>2
      <3>3. CASE a.code = "EFBIG" /\ ~l.chunked
        <4>1. PICK b \in Pages(Chunked(l)) :
                IF b.code = "OK" THEN Deliver(t, Loaded(Chunked(l), b.page))
                ELSE listing' = [listing EXCEPT ![t] = Chunked(l)]
          BY <3>1, <3>3
        <4> QED
          BY <4>1
      <3>4. CASE a.code # "OK" /\ ~(a.code = "EFBIG" /\ ~l.chunked)
        BY <3>1, <3>4
      <3> QED
        BY <3>2, <3>3, <3>4
    <2> QED
      BY <2>1, <2>2
  <1> HIDE DEF l
  <1>7. ASSUME NEW m, SameListing(l, m), Deliver(t, m) PROVE ListingsKept
    BY <1>7, DeliverKeeps DEF l
  <1> QED
    BY <1>1, <1>2, <1>3, <1>4, <1>5, <1>6, <1>7

\* Nobody has the lock.
LEMMA SrmInitially == Init => SrmInv
  <1> SUFFICES ASSUME Init PROVE SrmInv
    OBVIOUS
  <1>1. SessionInit
    BY DEF Init
  <1>2. /\ \A t \in Threads : call[t].at = "idle"
        /\ \A t \in Threads : "open" \in DOMAIN listing[t] /\ listing[t].open = FALSE
        /\ lock.owner = Nobody /\ lock.depth = 0
    BY <1>1 DEF SessionInit, Idle, NoListing
  <1>3. \A t \in Threads : listing[t].open \in BOOLEAN
    BY <1>2, Zenon
  <1>4. SrmTypeOK
    BY <1>1, <1>2, <1>3 DEF SrmTypeOK, SessionInit, NoContext
  <1>5. LockFree /\ OneDirectory /\ DepthEnough /\ ContextMarked /\ ContextOfCall
    BY <1>1, <1>2
       DEF SessionInit, LockFree, OneDirectory, DepthEnough, InSection, ContextMarked, NoContext,
           ContextOfCall
  <1>6. LockAccounted
    BY <1>2, SrmAssumption DEF LockAccounted
  <1> QED
    BY <1>4, <1>5, <1>6 DEF SrmInv

\* One step per action of the SRM plugin.
LEMMA SrmPreserved == SrmInv /\ [Next]_vars => SrmInv'
  <1> SUFFICES ASSUME SrmInv, [Next]_vars PROVE SrmInv'
    OBVIOUS
  <1>1. ASSUME UNCHANGED <<session, listing>> PROVE SrmInv'
    BY <1>1 DEF SrmInv, SrmTypeOK, LockFree, OneDirectory, DepthEnough, Relied, ContextMarked,
                ContextOfCall, LockAccounted, InSection, Count, session
  <1>t. SrmTypeOK
    BY DEF SrmInv
  <1>2. ASSUME NEW t \in Threads, SrmOf(t) PROVE SrmInv'
    <2>a. DOMAIN call = Threads /\ CallShape(call[t])
          /\ (InSection(t) => call[t].rest \in Seq(Following))
      BY <1>t DEF SrmTypeOK, CallShape, InSection
    <2>z. <<>> \in Seq(Following)
      OBVIOUS
    <2>l. listing' = listing => ListingsKept
      BY <1>t, ListingsUnchanged
    \* A section that ends, whatever it has found
    <2>r. ASSUME InSection(t), listing' = listing,
                 Release(t, call[t].rest) \/ Release(t, <<>>)
          PROVE  SrmInv'
      BY <2>r, <2>a, <2>z, StepRelease
    \* A section that goes on to its change
    <2>g. ASSUME InSection(t), listing' = listing, call' = [call EXCEPT ![t].at = "change"],
                 UNCHANGED <<lock, ctx, mark, leaked>>
          PROVE  SrmInv'
      <3> DEFINE c == [call[t] EXCEPT !.at = "change"]
      <3>1. call' = [call EXCEPT ![t] = c]
        BY <2>g
      <3>2. DOMAIN call[t] = {"at", "section", "rest", "url", "ep"} /\ call[t].at # "idle"
        BY <2>g, <2>a DEF CallShape, InSection
      <3>3. /\ DOMAIN c = DOMAIN call[t] /\ c.at = "change" /\ c.ep = call[t].ep
            /\ c.url = call[t].url /\ c.rest = call[t].rest /\ c.section = call[t].section
        BY <3>2
      <3> HIDE DEF c
      <3>4. CallShape(c)
        BY <3>2, <3>3, <2>a DEF CallShape
      <3>5. c.section = "opendir" => ~listing[t].open
        BY <3>2, <3>3 DEF SrmInv, OneDirectory
      <3> QED
        BY <2>g, <2>l, <3>1, <3>3, <3>4, <3>5, StepAside
    \* A step from outside of a section to the outside of one
    <2>o. ASSUME ~InSection(t), NEW c, CallShape(c), c.at \in {"idle", "context", "inner"},
                 c.at # "idle" /\ c.section = "opendir" => ~listing[t].open,
                 call' = [call EXCEPT ![t] = c], ListingsKept, UNCHANGED <<lock, ctx, mark, leaked>>
          PROVE  SrmInv'
      BY <2>o, StepAside
    <2>i. CallShape(Idle) /\ Idle.at = "idle"
      BY DEF CallShape, Idle
    <2>1. ASSUME NEW op, NEW u, Call(t, op, u) PROVE SrmInv'
      <3>1. CASE call' = call
        BY <2>1, <3>1, <1>1 DEF Call, session
      <3>2. CASE call' # call
        <4>1. PICK s \in SectionsOf(op) :
                call' = [call EXCEPT ![t] = [at |-> "context", section |-> Head(s),
                                             rest |-> Tail(s), url |-> u, ep |-> ""]]
          BY <2>1, <3>2 DEF Call
        <4> DEFINE c == [at |-> "context", section |-> Head(s), rest |-> Tail(s),
                         url |-> u, ep |-> ""]
        <4>2. Tail(s) \in Seq(Following) /\ (Head(s) = "opendir" => op = "opendir")
          BY SectionsShape
        <4>3. CallShape(c)
          BY <4>2 DEF CallShape
        <4>4. c.at = "context" /\ (c.section = "opendir" => ~listing[t].open)
          BY <4>2, <2>1 DEF Call
        <4>5. ~InSection(t) /\ listing' = listing /\ UNCHANGED <<lock, ctx, mark, leaked>>
          BY <2>1 DEF Call, InSection
        <4>6. call' = [call EXCEPT ![t] = c]
          BY <4>1
        <4> HIDE DEF c
        <4> QED
          BY <4>3, <4>4, <4>5, <4>6, <2>o, <2>l
      <3> QED
        BY <3>1, <3>2
    <2>2. CASE GetContext(t) \/ EndpointFails(t)
      BY <2>2, StepContext, StepFails
    <2>3. CASE LsStat(t)
      BY <2>3, <2>r DEF LsStat, InSection
    <2>4. CASE LsStatus(t)
      BY <2>4, <2>r DEF LsStatus, InSection
    <2>5. CASE LsSum(t)
      BY <2>5, <2>r DEF LsSum, InSection
    <2>6. CASE LsRmdir(t)
      BY <2>6, <2>r, <2>g DEF LsRmdir, InSection
    <2>7. CASE LsMkdir(t)
      BY <2>7, <2>r, <2>g DEF LsMkdir, InSection
    <2>8. CASE LsOpendir(t)
      BY <2>8, StepOpendir
    <2>w. ASSUME InSection(t), NEW ok, Answered(t, ok) PROVE SrmInv'
      BY <2>w, <2>r DEF Answered
    <2>9. CASE Access(t) \/ Space(t) \/ EndpointType(t) \/ IsCastor(t)
      <3>1. InSection(t)
        BY <2>9 DEF Access, Space, EndpointType, IsCastor, Asked, InSection
      <3>2. CASE Leak(t) /\ listing' = listing
        BY <3>1, <3>2, StepLeak
      <3> QED
        BY <2>9, <2>w, <3>1, <3>2 DEF Access, Space, EndpointType, IsCastor
    <2>10. CASE Change(t)
      BY <2>10, <2>r DEF Change, InSection
    <2>11. CASE Readdir(t)
      <3>1. ListingsKept
        BY <2>11, <1>t, ReaddirKeeps
      <3>2. call[t].at = "idle" /\ call' = call /\ UNCHANGED <<lock, ctx, mark, leaked>>
        BY <2>11 DEF Readdir, session
      <3>3. ~InSection(t) /\ call[t].at \notin {"ls", "ask", "change"}
        BY <3>2 DEF InSection
      <3> QED
        BY <3>1, <3>2, <3>3, <2>a, StepAside
    <2>12. CASE Closedir(t)
      BY <2>12, StepClosedir
    <2>13. CASE GetTurl(t) \/ PutTurl(t)
      BY <2>13, <2>w DEF GetTurl, PutTurl, Asked, InSection
    <2>14. CASE InnerOpen(t)
      BY <2>14, <2>i, <2>l, <2>o DEF InnerOpen, InSection
    <2>15. CASE Close(t)
      <3> DEFINE after == IF file[t].put THEN "putdone" ELSE "release"
                 c == [at |-> "inner", section |-> "inner close", url |-> file[t].url, ep |-> "",
                       rest |-> <<after>>]
      <3>1. call' = [call EXCEPT ![t] = c]
        BY <2>15 DEF Close
      <3>2. <<after>> \in Seq(Following)
        BY DEF Following
      <3> HIDE DEF after
      <3>3. CallShape(c) /\ c.at = "inner" /\ c.section = "inner close"
        BY <3>2 DEF CallShape
      <3> HIDE DEF c
      <3>4. ~InSection(t) /\ listing' = listing /\ UNCHANGED <<lock, ctx, mark, leaked>>
        BY <2>15 DEF Close, InSection
      <3> QED
        BY <3>1, <3>3, <3>4, <2>l, <2>o
    <2>16. CASE InnerClose(t)
      <3> DEFINE f == Follow(t, call[t].rest)
      <3>1. call[t].at = "inner" /\ listing' = listing /\ UNCHANGED <<lock, ctx, mark, leaked>>
            /\ (call' = [call EXCEPT ![t] = f] \/ call' = [call EXCEPT ![t] = Idle])
        BY <2>16 DEF InnerClose
      <3>2. /\ CallShape(f) /\ f.at \in {"idle", "inner", "context"}
            /\ f.at # "idle" => f.section # "opendir"
        <4>1. call[t].rest \in Seq(Following) /\ call[t].at # "idle"
          BY <3>1, <2>a DEF CallShape
        <4> QED
          BY <4>1, <2>a, FollowShape
      <3> HIDE DEF f
      <3> QED
        BY <3>1, <3>2, <2>i, <2>l, <2>o DEF InSection
    <2>17. CASE PutDone(t) \/ ReleaseFile(t)
      BY <2>17, <2>r DEF PutDone, ReleaseFile, InSection
    <2> QED
      BY <1>2, <2>1, <2>2, <2>3, <2>4, <2>5, <2>6, <2>7, <2>8, <2>9, <2>10, <2>11, <2>12, <2>13,
         <2>14, <2>15, <2>16, <2>17 DEF SrmOf, Open
  <1>3. ASSUME NEW p \in Contested["srm"], SrmMeddle(p) PROVE SrmInv'
    BY <1>1, <1>3 DEF SrmMeddle
  <1>4. CASE UNCHANGED srmState
    BY <1>1, <1>4 DEF srmState, srm
  <1> QED
    BY <1>2, <1>3, <1>4 DEF Next, vars, SrmNext

\* The SRM plugin, with any threads, URLs, endpoints and credentials: a request
\* goes out only under the lock, on the context of its own endpoint and
\* credential, and an open directory has the lock and its context.
THEOREM ContextIsOfCall == Spec => []ContextOfCall
  <1>1. SrmInv => ContextOfCall
    BY DEF SrmInv
  <1> QED
    BY <1>1, SrmInitially, SrmPreserved, PTL DEF Spec

\* Of all paths through the SRM handlers only the two that return without a
\* release keep the recursive lock.
THEOREM LockIsAccounted == Spec => []LockAccounted
  <1>1. SrmInv => LockAccounted
    BY DEF SrmInv
  <1> QED
    BY <1>1, SrmInitially, SrmPreserved, PTL DEF Spec

-----------------------------------------------------------------------------
(* Files of the GridFTP plugin                                             *)

\* The least and the greatest of two.
LEMMA Extremes ==
    ASSUME NEW a \in Nat, NEW b \in Nat
    PROVE  /\ Min({a, b}) = IF a <= b THEN a ELSE b
           /\ Max({a, b}) = IF a <= b THEN b ELSE a
  <1>1. (CHOOSE x \in {a, b} : \A y \in {a, b} : x <= y) = IF a <= b THEN a ELSE b
    <2>1. \A x \in {a, b} : (\A y \in {a, b} : x <= y) <=> x = IF a <= b THEN a ELSE b
      OBVIOUS
    <2> QED
      BY <2>1
  <1>2. (CHOOSE x \in {a, b} : \A y \in {a, b} : x >= y) = IF a <= b THEN b ELSE a
    <2>1. \A x \in {a, b} : (\A y \in {a, b} : x >= y) <=> x = IF a <= b THEN b ELSE a
      OBVIOUS
    <2> QED
      BY <2>1
  <1> QED
    BY <1>1, <1>2 DEF Min, Max

\* How much a read of n blocks at o gets.
LEMMA BlocksGot ==
    ASSUME remote \in Seq(Nat), NEW o \in Nat, NEW n \in Nat
    PROVE  /\ BlocksAt(o, n) \in Seq(Nat)
           /\ Len(BlocksAt(o, n)) = IF o + n <= Len(remote) THEN n
                                    ELSE IF o < Len(remote) THEN Len(remote) - o ELSE 0
           /\ BlocksAt(o, Len(BlocksAt(o, n))) = BlocksAt(o, n)
  <1> DEFINE e(k) == Min({o + k, Len(remote)})
             k0 == IF o + n <= Len(remote) THEN n
                   ELSE IF o < Len(remote) THEN Len(remote) - o ELSE 0
  <1>1. \A k \in Nat : e(k) = IF o + k <= Len(remote) THEN o + k ELSE Len(remote)
    <2> SUFFICES ASSUME NEW k \in Nat
                 PROVE  e(k) = IF o + k <= Len(remote) THEN o + k ELSE Len(remote)
      OBVIOUS
    <2>1. o + k \in Nat /\ Len(remote) \in Nat
      OBVIOUS
    <2> QED
      BY <2>1, Extremes
  <1>2. \A k \in Nat : BlocksAt(o, k) = SubSeq(remote, o + 1, e(k))
    BY DEF BlocksAt
  <1> HIDE DEF e
  <1>3. e(n) \in Nat /\ e(n) <= Len(remote)
    BY <1>1
  <1>4. /\ SubSeq(remote, o + 1, e(n)) \in Seq(Nat)
        /\ Len(SubSeq(remote, o + 1, e(n))) = IF o + 1 <= e(n) THEN e(n) - (o + 1) + 1 ELSE 0
    <2>1. \A i \in (o + 1)..e(n) : remote[i] \in Nat
      BY <1>3
    <2> QED
      BY <1>3, <2>1, SubSeqProperties
  <1>l. Len(remote) \in Nat
    OBVIOUS
  <1>m. e(n) = IF o + n <= Len(remote) THEN o + n ELSE Len(remote)
    BY <1>1
  <1>k. BlocksAt(o, n) = SubSeq(remote, o + 1, e(n))
    BY <1>2
  <1>5. Len(BlocksAt(o, n)) = k0 /\ k0 \in Nat
    <2>1. k0 \in Nat /\ k0 = IF o + 1 <= e(n) THEN e(n) - (o + 1) + 1 ELSE 0
      BY <1>l, <1>m
    <2> QED
      BY <2>1, <1>k, <1>4
  <1>6. BlocksAt(o, k0) = BlocksAt(o, n)
    <2>1. CASE o + n <= Len(remote)
      BY <2>1
    <2>2. CASE o + n > Len(remote) /\ o < Len(remote)
      <3>1. e(k0) = e(n)
        BY <2>2, <1>1, <1>5
      <3> QED
        BY <3>1, <1>2, <1>5
    <2>3. CASE o + n > Len(remote) /\ o >= Len(remote)
      <3>1. k0 = 0 /\ e(0) <= o /\ e(n) <= o /\ e(0) \in Nat /\ e(n) \in Nat
        <4>1. e(0) = IF o + 0 <= Len(remote) THEN o + 0 ELSE Len(remote)
          BY <1>1
        <4> QED
          BY <2>3, <4>1, <1>l, <1>m
      <3>2. SubSeq(remote, o + 1, e(0)) = <<>> /\ SubSeq(remote, o + 1, e(n)) = <<>>
        BY <3>1, SubSeqEmpty
      <3> QED
        BY <3>1, <3>2, <1>2
    <2> QED
      BY <2>1, <2>2, <2>3
  <1> QED
    BY <1>2, <1>4, <1>5, <1>6

\* What a read returns is right if it is at its place, or torn, and is not empty
\* before the end of the file.
LEMMA ReadRight ==
    ASSUME remote \in Seq(Nat), NEW o \in Nat, NEW data, NEW torn \in BOOLEAN, ~strange,
           Returned(data, o, torn),
           ~torn => data = BlocksAt(o, Len(data)),
           data = <<>> => o >= Len(remote)
    PROVE  ~strange'
  <1>1. Len(remote) \in Nat
    OBVIOUS
  <1>2. ~(data = <<>> /\ o < Len(remote))
    BY <1>1
  <1> QED
    BY <1>2, Zenon DEF Returned

\* Two pieces laid over each other are as long as both.
LEMMA OverlaidLength ==
    ASSUME NEW x \in Seq(Nat), NEW y \in Seq(Nat)
    PROVE  Len(Overlaid(x, y)) = Len(x) + Len(y)
  <1>1. Len(x) + Len(y) \in Nat
    OBVIOUS
  <1>2. Overlaid(x, y) = [i \in 1..(Len(x) + Len(y)) |->
            IF i <= Len(y) THEN y[i] ELSE IF i <= Len(x) THEN x[i] ELSE 0]
    BY DEF Overlaid
  <1>3. Overlaid(x, y) \in Seq(Nat)
    <2>1. \A i \in 1..(Len(x) + Len(y)) :
            (IF i <= Len(y) THEN y[i] ELSE IF i <= Len(x) THEN x[i] ELSE 0) \in Nat
      OBVIOUS
    <2> QED
      BY <1>1, <1>2, <2>1
  <1>4. DOMAIN Overlaid(x, y) = 1..(Len(x) + Len(y))
    BY <1>2
  <1> QED
    BY <1>1, <1>3, <1>4

\* A partial GET gives as many blocks as were asked for and are there, and
\* unless it is torn the right ones.
LEMMA PartialGetGives ==
    ASSUME remote \in Seq(Nat), NEW o \in Nat, NEW n \in Nat, n # 0, NEW torn \in BOOLEAN,
           NEW data \in PartialGet(o, n, torn)
    PROVE  /\ ~torn => data = BlocksAt(o, Len(data))
           /\ Len(data) \in Nat
           /\ data = <<>> => o >= Len(remote)
  <1> DEFINE all == BlocksAt(o, n)
             first(k) == SubSeq(all, 1, k)
             rest(k) == SubSeq(all, k + 1, Len(all))
  <1>1. /\ all \in Seq(Nat)
        /\ Len(all) = IF o + n <= Len(remote) THEN n
                      ELSE IF o < Len(remote) THEN Len(remote) - o ELSE 0
        /\ BlocksAt(o, Len(all)) = all
    BY BlocksGot
  <1>2. CASE ~torn
    <2>1. data = all
      BY <1>2 DEF PartialGet
    <2>2. Len(remote) \in Nat
      OBVIOUS
    <2> HIDE DEF all
    <2>3. Len(all) = 0 => o >= Len(remote)
      BY <1>1, <2>2
    <2> QED
      BY <1>1, <2>1, <2>3
  <1>3. CASE torn
    <2>1. data \in UNION {{Overlaid(first(k), rest(k)), Overlaid(rest(k), first(k))} :
                              k \in 1..(Len(all) - 1)}
      BY <1>3 DEF PartialGet
    <2>2. PICK k \in 1..(Len(all) - 1) :
              data \in {Overlaid(first(k), rest(k)), Overlaid(rest(k), first(k))}
      BY <2>1
    <2> HIDE DEF all
    <2>3. k \in Nat /\ k >= 1 /\ k + 1 <= Len(all) /\ Len(all) \in Nat
      BY <2>2, <1>1
    <2>4. first(k) \in Seq(Nat) /\ Len(first(k)) = k
      <3>2. first(k) = [i \in 1..k |-> all[i]] /\ DOMAIN first(k) = 1..k
        BY <2>3, <1>1
      <3>3. \A i \in 1..k : all[i] \in Nat
        <4>1. all \in Seq(Nat)
          BY <1>1
        <4>2. \A i \in 1..k : i \in 1..Len(all)
          BY <2>3
        <4> QED
          BY <4>1, <4>2, ElementOfSeq
      <3>4. first(k) \in Seq(Nat)
        BY <2>3, <3>2, <3>3
      <3> QED
        BY <2>3, <3>2, <3>4
    <2>5. rest(k) \in Seq(Nat) /\ Len(rest(k)) = Len(all) - k
      BY <2>3, <1>1, SMTT(30)
    <2>6. Len(Overlaid(first(k), rest(k))) = k + (Len(all) - k)
          /\ Len(Overlaid(rest(k), first(k))) = (Len(all) - k) + k
      <3> HIDE DEF first, rest
      <3> QED
        BY <2>4, <2>5, OverlaidLength
    <2>7. Len(data) = Len(all)
      <3> HIDE DEF first, rest
      <3>1. \/ data = Overlaid(first(k), rest(k))
            \/ data = Overlaid(rest(k), first(k))
        BY <2>2
      <3>2. k + (Len(all) - k) = Len(all) /\ (Len(all) - k) + k = Len(all)
        BY <2>3
      <3> QED
        BY <2>6, <3>1, <3>2
    <2>8. data # <<>>
      BY <2>3, <2>7
    <2> QED
      BY <1>3, <2>3, <2>7, <2>8
  <1> QED
    BY <1>2, <1>3

\* A block is written, and the others stay.
LEMMA BlockWritten ==
    ASSUME remote \in Seq(Nat), NEW o \in Nat, NEW b \in Nat
    PROVE  /\ WrittenAt(o, b) \in Seq(Nat)
           /\ Len(WrittenAt(o, b)) >= Len(remote) /\ o < Len(WrittenAt(o, b))
           /\ WrittenAt(o, b)[o + 1] = b
           /\ \A i \in 1..Len(remote) : i # o + 1 => WrittenAt(o, b)[i] = remote[i]
  <1> DEFINE m == Max({Len(remote), o + 1})
  <1>0. Len(remote) \in Nat /\ o + 1 \in Nat
    OBVIOUS
  <1>1. m = IF Len(remote) <= o + 1 THEN o + 1 ELSE Len(remote)
    BY <1>0, Extremes
  <1>2. WrittenAt(o, b) = [i \in 1..m |-> IF i = o + 1 THEN b
                                          ELSE IF i <= Len(remote) THEN remote[i] ELSE 0]
    BY DEF WrittenAt
  <1> HIDE DEF m
  <1>3. m \in Nat /\ m >= Len(remote) /\ m >= o + 1
    BY <1>1
  <1>4. WrittenAt(o, b) \in [1..m -> Nat]
    BY <1>2, <1>3
  <1>5. WrittenAt(o, b) \in Seq(Nat) /\ Len(WrittenAt(o, b)) = m
    BY <1>3, <1>4
  <1> QED
    BY <1>2, <1>3, <1>5

\* After a block was written at o, or perhaps not, the image is kept if it
\* has that block there, or none.
LEMMA ImageWritten ==
    ASSUME remote \in Seq(Nat), image \in [Offsets -> Nat], ImageKept, NEW o \in Offsets, NEW b \in Nat,
           NEW d \in {0, b}, remote' \in {remote, WrittenAt(o, b)},
           d # 0 => remote' = WrittenAt(o, b),
           image' = [image EXCEPT ![o] = d],
           desc'.flags = desc.flags, request' = request
    PROVE  remote' \in Seq(Nat) /\ image' \in [Offsets -> Nat] /\ ImageKept'
  <1>n. Offsets \subseteq Nat
    BY GftpAssumption
  <1>w. /\ WrittenAt(o, b) \in Seq(Nat)
        /\ Len(WrittenAt(o, b)) >= Len(remote) /\ o < Len(WrittenAt(o, b))
        /\ WrittenAt(o, b)[o + 1] = b
        /\ \A i \in 1..Len(remote) : i # o + 1 => WrittenAt(o, b)[i] = remote[i]
    BY <1>n, BlockWritten
  <1>1. remote' \in Seq(Nat) /\ image' \in [Offsets -> Nat]
    BY <1>w
  <1>2. CASE Ruined
    BY <1>1, <1>2 DEF Ruined, ImageKept, IsWriteOnly
  <1>3. CASE \A q \in Offsets : image[q] # 0 => HasBlock(q, image[q])
    <2> SUFFICES ASSUME NEW q \in Offsets, image'[q] # 0
                 PROVE  q < Len(remote') /\ remote'[q + 1] = image'[q]
      BY <1>1 DEF ImageKept, HasBlock
    <2>1. CASE q = o
      BY <2>1, <1>w
    <2>2. CASE q # o
      <3>1. image'[q] = image[q] /\ q < Len(remote) /\ remote[q + 1] = image[q]
        BY <2>2, <1>3 DEF HasBlock
      <3>2. q \in Nat /\ o \in Nat /\ Len(remote) \in Nat /\ Len(WrittenAt(o, b)) \in Nat
        BY <1>n, <1>w
      <3>3. q + 1 \in 1..Len(remote) /\ q + 1 # o + 1
        BY <2>2, <3>1, <3>2
      <3>4. WrittenAt(o, b)[q + 1] = remote[q + 1]
        BY <3>3, <1>w
      <3>5. q < Len(WrittenAt(o, b))
        BY <3>1, <3>2, <1>w
      <3>6. CASE remote' = remote
        BY <3>1, <3>6
      <3>7. CASE remote' = WrittenAt(o, b)
        BY <3>1, <3>4, <3>5, <3>7
      <3> QED
        BY <3>6, <3>7
    <2> QED
      BY <2>1, <2>2
  <1> QED
    BY <1>1, <1>2, <1>3 DEF ImageKept

\* No file is open.
LEMMA GftpInitially == Init => GftpInv
  <1> SUFFICES ASSUME Init PROVE GftpInv
    OBVIOUS
  <1>1. GftpInit
    BY DEF Init
  <1>2. plugin = "gridftp" => remote \in Seq(Nat)
    BY <1>1, GftpAssumption DEF GftpInit, PickFor
  <1>3. plugin = "gridftp" => GftpTypeOK
    BY <1>1, <1>2 DEF GftpInit, GftpTypeOK, NoMain, NewRequest, NewStream, NoDesc, Unknown
  <1>4. FreshAtFirst /\ MainOfFlags /\ EndIsEnd /\ ImageKept
    BY <1>1 DEF GftpInit, FreshAtFirst, MainOfFlags, EndIsEnd, ImageKept, NoMain, NewRequest, NewStream,
                NoDesc, Unknown, IsReadOnly
  <1>5. pos = desc.offset /\ desc.at = "closed" /\ ~strange
    BY <1>1 DEF GftpInit, NoDesc
  <1> QED
    BY <1>3, <1>4, <1>5 DEF GftpInv

\* The file itself and what is known of it are kept by a step that changes
\* neither the file nor what should be in it.
LEMMA FileAside ==
    ASSUME GftpTypeOK, ImageKept, EndIsEnd, UNCHANGED <<remote, image>>,
           desc'.flags = desc.flags, request.error # "" => request'.error # "",
           stream'.eof => stream.eof \/ stream'.offset >= Len(remote),
           stream.eof => stream'.offset = stream.offset
    PROVE  ImageKept' /\ EndIsEnd'
  <1>1. ImageKept'
    BY DEF ImageKept, HasBlock, Ruined, IsWriteOnly
  <1>2. EndIsEnd'
    BY DEF EndIsEnd, IsReadOnly, GftpTypeOK
  <1> QED
    BY <1>1, <1>2

\* One step per action on a GridFTP file.
LEMMA GftpPreserved == GftpInv /\ [Next]_vars => GftpInv'
  <1> SUFFICES ASSUME GftpInv, [Next]_vars PROVE GftpInv'
    OBVIOUS
  <1>1. CASE UNCHANGED <<plugin, gftpState>>
    <2>1. GftpTypeOK => GftpTypeOK'
      <3>1. UNCHANGED <<remote, main, request, stream>> /\ UNCHANGED <<desc, ios, image>>
        BY <1>1, Zenon DEF gftpState
      <3> QED
        BY <3>1, ZenonT(30) DEF GftpTypeOK
    <2>2. FreshAtFirst /\ MainOfFlags /\ EndIsEnd => FreshAtFirst' /\ MainOfFlags' /\ EndIsEnd'
      BY <1>1 DEF gftpState, FreshAtFirst, MainOfFlags, EndIsEnd
    <2>3. (ImageKept => ImageKept') /\ Ruined' = Ruined
      BY <1>1 DEF gftpState, ImageKept, HasBlock, Ruined
    <2> QED
      BY <1>1, <2>1, <2>2, <2>3 DEF GftpInv, gftpState
  <1>2. ASSUME plugin = "gridftp", UNCHANGED plugin, GftpNext PROVE GftpInv'
    <2> DEFINE Closely == /\ pos = desc.offset
                          /\ desc.at = "gone" => ~Ruined
                          /\ ~strange
    <2>i. GftpTypeOK /\ FreshAtFirst /\ MainOfFlags /\ EndIsEnd /\ ImageKept
      BY <1>2 DEF GftpInv
    <2>c. pos = desc.offset /\ (desc.at = "gone" => ~Ruined) /\ ~strange
      BY <1>2 DEF GftpInv
    <2>g. SUFFICES GftpTypeOK' /\ FreshAtFirst' /\ MainOfFlags' /\ EndIsEnd' /\ ImageKept' /\ Closely'
      BY <1>2 DEF GftpInv
    <2>t. /\ remote \in Seq(Nat)
          /\ main \in [op : {"none", "get", "put"}, aborted : BOOLEAN]
          /\ request \in [done : BOOLEAN, error : {"", "ECANCELED", "ECOMM"}]
          /\ stream \in [on : BOOLEAN, offset : Nat, eof : BOOLEAN, error : BOOLEAN, torn : BOOLEAN]
          /\ desc \in [at : {"closed", "open", "seek", "close", "gone"}, flags : Flags \cup {""},
                       offset : Nat, target : Nat]
          /\ ios \in Nat
          /\ image \in [Offsets -> Nat]
      BY <2>i DEF GftpTypeOK
    <2>d. desc \in [at : {"closed", "open", "seek", "close", "gone"}, flags : Flags \cup {""},
                     offset : Nat, target : Nat]
      BY <2>t
    <2>s. stream \in [on : BOOLEAN, offset : Nat, eof : BOOLEAN, error : BOOLEAN, torn : BOOLEAN]
      BY <2>t
    <2>o. desc.offset \in Nat /\ stream.offset \in Nat /\ desc.flags \in Flags \cup {""}
      BY <2>d, <2>s
    <2>p. desc.offset + 1 \in Nat /\ stream.offset + 0 \in Nat /\ stream.offset + 1 \in Nat
      <3>1. \A i \in Nat : i + 0 \in Nat /\ i + 1 \in Nat
        OBVIOUS
      <3> QED
        BY <3>1, <2>o, Zenon
    <2>r. remote \in Seq(Nat) /\ Len(remote) \in Nat
      <3>1. remote \in Seq(Nat)
        BY <2>t
      <3> QED
        BY <3>1
    <2>n. Offsets \subseteq Nat /\ (\A n \in Counts : n \in Nat /\ n # 0) /\ pos \in Nat /\ ios + 1 \in Nat
      <3>1. Offsets \subseteq Nat /\ Counts \subseteq Nat \ {0}
        BY GftpAssumption
      <3>2. pos \in Nat
        BY <2>o, <2>c
      <3>3. ios + 1 \in Nat
        <4>1. ios \in Nat
          BY <2>t
        <4> QED
          BY <4>1
      <3> QED
        BY <3>1, <3>2, <3>3
    <2>k. \A j \in Nat : (\A i \in 0..j : i \in Nat) /\ (\A i \in Nat : j + i \in Nat)
      OBVIOUS
    <2>a. Aborted \in [op : {"none", "get", "put"}, aborted : BOOLEAN] /\ Aborted.op = main.op
      BY <2>t DEF Aborted
    <2>1. ASSUME NEW f \in Flags, GftpOpen(f)
          PROVE  GftpTypeOK' /\ FreshAtFirst' /\ MainOfFlags' /\ EndIsEnd' /\ ImageKept' /\ Closely'
      <3> DEFINE op == IF IsReadOnly(f) THEN "get" ELSE IF IsWriteOnly(f) THEN "put" ELSE "none"
      <3>1. desc.at = "closed" /\ ios' = ios + 1 /\ UNCHANGED <<request, pos, image, strange>>
        BY <2>1 DEF GftpOpen, Called
      <3>2. main = NoMain /\ request = NewRequest /\ stream = NewStream /\ image = Unknown
        BY <3>1, <2>i DEF FreshAtFirst
      <3>3. CASE UNCHANGED <<remote, main, stream, desc>>
        <4>1. GftpTypeOK'
          BY <3>1, <3>3, <2>n, <2>t, Zenon DEF GftpTypeOK
        <4> QED
          BY <4>1, <3>1, <3>3, <2>i, <2>c
             DEF FreshAtFirst, MainOfFlags, EndIsEnd, ImageKept, HasBlock, Ruined, IsReadOnly, IsWriteOnly
      <3>4. CASE /\ desc' = [NoDesc EXCEPT !.at = "open", !.flags = f]
                 /\ main' = [NoMain EXCEPT !.op = op]
                 /\ stream' = [stream EXCEPT !.on = op # "none"]
                 /\ remote' = IF op = "put" THEN <<>> ELSE remote
        <4>1. desc' = [at |-> "open", flags |-> f, offset |-> 0, target |-> 0]
              /\ main' = [op |-> op, aborted |-> FALSE]
          BY <3>4, Zenon DEF NoDesc, NoMain
        <4>2. stream' \in [on : BOOLEAN, offset : Nat, eof : BOOLEAN, error : BOOLEAN, torn : BOOLEAN]
              /\ stream'.offset = 0 /\ stream'.eof = FALSE
          BY <3>2, <3>4 DEF NewStream
        <4>3. remote' \in Seq(Nat)
          BY <3>4, <2>r
        <4>4. GftpTypeOK'
          BY <4>1, <4>2, <4>3, <3>1, <2>n, <2>t, Zenon DEF GftpTypeOK
        <4>5. FreshAtFirst' /\ EndIsEnd'
          BY <4>1, <4>2 DEF FreshAtFirst, EndIsEnd
        <4>6. MainOfFlags'
          BY <4>1, <3>1, <3>2 DEF MainOfFlags, NewRequest
        <4>7. ImageKept'
          BY <3>1, <3>2 DEF ImageKept, Unknown
        <4>8. pos = 0
          <5>1. desc = NoDesc
            BY <3>1, <2>i, Zenon DEF FreshAtFirst
          <5> QED
            BY <5>1, <2>c DEF NoDesc
        <4> QED
          BY <4>1, <4>4, <4>5, <4>6, <4>7, <4>8, <3>1, <2>c
      <3> QED
        BY <3>3, <3>4, <2>1 DEF GftpOpen
    <2>2. ASSUME NEW n \in Counts, GftpRead(n)
          PROVE  GftpTypeOK' /\ FreshAtFirst' /\ MainOfFlags' /\ EndIsEnd' /\ ImageKept' /\ Closely'
      <3>1. desc.at = "open" /\ ios' = ios + 1 /\ UNCHANGED <<remote, request, image>>
        BY <2>2 DEF GftpRead, Called
      <3>2. CASE IsNotSeeked /\ IsReadOnly(desc.flags) /\ StreamRead(n)
        <4>0. desc.offset = stream.offset
          BY <3>2 DEF IsNotSeeked
        <4>1. CASE /\ stream.eof
                   /\ Returned(<<>>, pos, stream.torn)
                   /\ UNCHANGED <<main, stream, desc, pos>>
          <5>1. pos >= Len(remote)
            BY <4>0, <4>1, <3>2, <2>c, <2>i DEF EndIsEnd
          <5>2. BlocksAt(pos, 0) = <<>>
            <6>1. 0 \in Nat /\ pos + 0 = pos
              BY <2>n
            <6>2. BlocksAt(pos, 0) \in Seq(Nat) /\ Len(BlocksAt(pos, 0)) = 0
              <7>1. /\ BlocksAt(pos, 0) \in Seq(Nat)
                    /\ Len(BlocksAt(pos, 0)) = IF pos + 0 <= Len(remote) THEN 0
                                               ELSE IF pos < Len(remote) THEN Len(remote) - pos ELSE 0
                BY <6>1, <2>n, <2>r, BlocksGot
              <7> QED
                BY <7>1, <6>1, <5>1, <2>n, <2>r
            <6> QED
              BY <6>2
          <5>3. ~strange'
            <6>1. <<>> = BlocksAt(pos, Len(<<>>)) /\ stream.torn \in BOOLEAN
              BY <5>2, <2>s
            <6> QED
              BY <6>1, <5>1, <4>1, <2>n, <2>c, <2>r, ReadRight
          <5>4. GftpTypeOK'
            BY <3>1, <4>1, <2>n, <2>t, Zenon DEF GftpTypeOK
          <5>5. ImageKept' /\ EndIsEnd'
            BY <3>1, <4>1, <2>i, FileAside
          <5>6. FreshAtFirst' /\ MainOfFlags'
            BY <3>1, <4>1, <2>i DEF FreshAtFirst, MainOfFlags
          <5> QED
            BY <5>3, <5>4, <5>5, <5>6, <3>1, <4>1, <2>c
        <4>2. CASE /\ ~stream.eof /\ ~stream.error /\ main.op = "get"
                   /\ \E k \in 0..n, q \in 0..Len(remote), eof \in BOOLEAN :
                        LET end == stream.offset + k
                            torn == stream.torn \/ q # stream.offset
                        IN
                        /\ end <= Len(remote) /\ q + k <= Len(remote)
                        /\ k = 0 => eof
                        /\ eof => end = Len(remote)
                        /\ Returned(BlocksAt(q, k), pos, torn)
                        /\ stream' = [stream EXCEPT !.offset = end, !.eof = eof, !.torn = torn]
                        /\ desc' = [desc EXCEPT !.offset = @ + k]
                        /\ pos' = pos + k
                   /\ UNCHANGED main
          <5>1. PICK k \in 0..n, q \in 0..Len(remote), eof \in BOOLEAN :
                    /\ stream.offset + k <= Len(remote) /\ q + k <= Len(remote)
                    /\ k = 0 => eof
                    /\ eof => stream.offset + k = Len(remote)
                    /\ Returned(BlocksAt(q, k), pos, stream.torn \/ q # stream.offset)
                    /\ stream' = [stream EXCEPT !.offset = stream.offset + k, !.eof = eof,
                                                !.torn = stream.torn \/ q # stream.offset]
                    /\ desc' = [desc EXCEPT !.offset = desc.offset + k]
                    /\ pos' = pos + k
            BY <4>2
          <5>2. k \in Nat /\ stream.offset \in Nat /\ desc.offset \in Nat
            <6>1. n \in Nat
              BY <2>n
            <6>2. k \in 0..n
              BY <5>1
            <6>3. k \in Nat
              BY <6>1, <6>2, <2>k, Zenon
            <6> QED
              BY <6>3, <2>o
          <5>3. ~strange'
            <6>1. k = 0 => pos >= Len(remote)
              BY <5>1, <5>2, <4>0, <2>c, <2>r
            <6>2. q \in Nat /\ Len(remote) \in Nat
              BY <5>1, <2>r
            <6>3. Len(BlocksAt(q, k)) = k
              <7>1. Len(BlocksAt(q, k)) = IF q + k <= Len(remote) THEN k
                                          ELSE IF q < Len(remote) THEN Len(remote) - q ELSE 0
                BY <6>2, <5>2, <2>r, BlocksGot
              <7> QED
                BY <7>1, <5>1
            <6>4. (stream.torn \/ q # stream.offset) \in BOOLEAN
              OBVIOUS
            <6>5. BlocksAt(q, k) = <<>> => pos >= Len(remote)
              BY <6>1, <6>3
            <6>6. ~(stream.torn \/ q # stream.offset)
                    => BlocksAt(q, k) = BlocksAt(pos, Len(BlocksAt(q, k)))
              BY <6>3, <4>0, <2>c
            <6>7. Returned(BlocksAt(q, k), pos, stream.torn \/ q # stream.offset)
              BY <5>1
            <6> QED
              BY <6>4, <6>5, <6>6, <6>7, <2>n, <2>c, <2>r, ReadRight
          <5>4. stream' \in [on : BOOLEAN, offset : Nat, eof : BOOLEAN, error : BOOLEAN, torn : BOOLEAN]
                /\ stream'.offset = stream.offset + k /\ stream'.eof = eof
            <6>1. stream.offset + k \in Nat
              BY <5>2
            <6>2. (stream.torn \/ q # stream.offset) \in BOOLEAN
              OBVIOUS
            <6> QED
              BY <5>1, <6>1, <6>2, <2>s
          <5>5. desc' \in [at : {"closed", "open", "seek", "close", "gone"}, flags : Flags \cup {""},
                           offset : Nat, target : Nat]
                /\ desc'.at = desc.at /\ desc'.flags = desc.flags /\ desc'.offset = desc.offset + k
            <6>1. desc.offset + k \in Nat
              BY <5>2
            <6> QED
              BY <5>1, <6>1, <2>d
          <5>6. GftpTypeOK'
            BY <3>1, <4>2, <5>4, <5>5, <2>n, <2>t, Zenon DEF GftpTypeOK
          <5>7. ImageKept' /\ EndIsEnd'
            <6>1. stream'.eof => stream'.offset >= Len(remote)
              BY <5>1, <5>4, <2>r
            <6> QED
              BY <6>1, <5>5, <3>1, <4>2, <2>i, FileAside
          <5>8. FreshAtFirst' /\ MainOfFlags'
            BY <3>1, <4>2, <5>5, <2>i DEF FreshAtFirst, MainOfFlags
          <5> QED
            BY <5>1, <5>3, <5>5, <5>6, <5>7, <5>8, <3>1, <2>c
        <4>3. CASE /\ ~stream.eof
                   /\ \E k \in 0..n :
                        /\ stream.offset + k <= Len(remote) /\ (k > 0 => main.op = "get")
                        /\ stream' = [stream EXCEPT !.offset = @ + k, !.error = @ \/ main.op = "get"]
                   /\ main' \in {main, Aborted}
                   /\ UNCHANGED <<desc, pos, strange>>
          <5>1. PICK k \in 0..n :
                    stream' = [stream EXCEPT !.offset = stream.offset + k,
                                             !.error = stream.error \/ main.op = "get"]
            BY <4>3
          <5>2. k \in Nat /\ stream.offset + k \in Nat
            <6>1. n \in Nat
              BY <2>n
            <6>2. k \in 0..n
              BY <5>1
            <6>3. k \in Nat
              BY <6>1, <6>2, <2>k, Zenon
            <6> QED
              BY <6>3, <2>o, <2>k, Zenon
          <5>3. (stream.error \/ main.op = "get") \in BOOLEAN
            OBVIOUS
          <5>4. stream' \in [on : BOOLEAN, offset : Nat, eof : BOOLEAN, error : BOOLEAN, torn : BOOLEAN]
                /\ stream'.eof = stream.eof
            BY <5>1, <5>2, <5>3, <2>t
          <5>5. main' \in [op : {"none", "get", "put"}, aborted : BOOLEAN] /\ main'.op = main.op
            BY <4>3, <2>a, <2>t
          <5>6. GftpTypeOK'
            BY <3>1, <4>3, <5>4, <5>5, <2>n, <2>t, Zenon DEF GftpTypeOK
          <5>7. ImageKept' /\ EndIsEnd'
            BY <3>1, <4>3, <5>4, <2>i, FileAside
          <5>8. FreshAtFirst' /\ MainOfFlags'
            BY <3>1, <4>3, <5>5, <2>i DEF FreshAtFirst, MainOfFlags
          <5> QED
            BY <5>6, <5>7, <5>8, <3>1, <4>3, <2>c
        <4> QED
          BY <4>1, <4>2, <4>3, <3>2 DEF StreamRead
      <3>3. CASE /\ \/ \E torn \in BOOLEAN : \E data \in PartialGet(desc.offset, n, torn) :
                         /\ Returned(data, pos, torn)
                         /\ desc' = [desc EXCEPT !.offset = @ + Len(data)]
                         /\ pos' = pos + Len(data)
                    \/ UNCHANGED <<desc, pos, strange>>
                 /\ UNCHANGED <<main, stream>>
        <4>1. CASE UNCHANGED <<desc, pos, strange>>
          <5>1. GftpTypeOK'
            BY <3>1, <3>3, <4>1, <2>n, <2>t, Zenon DEF GftpTypeOK
          <5>2. ImageKept' /\ EndIsEnd'
            BY <3>1, <3>3, <4>1, <2>i, FileAside
          <5>3. FreshAtFirst' /\ MainOfFlags'
            BY <3>1, <3>3, <4>1, <2>i DEF FreshAtFirst, MainOfFlags
          <5> QED
            BY <5>1, <5>2, <5>3, <3>1, <4>1, <2>c
        <4>2. CASE \E torn \in BOOLEAN : \E data \in PartialGet(desc.offset, n, torn) :
                     /\ Returned(data, pos, torn)
                     /\ desc' = [desc EXCEPT !.offset = @ + Len(data)]
                     /\ pos' = pos + Len(data)
          <5>0. PICK torn \in BOOLEAN : \E data \in PartialGet(desc.offset, n, torn) :
                    /\ Returned(data, pos, torn)
                    /\ desc' = [desc EXCEPT !.offset = desc.offset + Len(data)]
                    /\ pos' = pos + Len(data)
            BY <4>2
          <5>1. PICK data \in PartialGet(desc.offset, n, torn) :
                    /\ Returned(data, pos, torn)
                    /\ desc' = [desc EXCEPT !.offset = desc.offset + Len(data)]
                    /\ pos' = pos + Len(data)
            BY <5>0
          <5>2. n \in Nat /\ n # 0 /\ desc.offset \in Nat
            BY <2>n, <2>o
          <5>3. /\ ~torn => data = BlocksAt(desc.offset, Len(data))
                /\ Len(data) \in Nat
                /\ data = <<>> => desc.offset >= Len(remote)
            BY <5>2, <2>r, PartialGetGives
          <5>4. Len(data) \in Nat
            BY <5>3
          <5>5. ~strange'
            BY <5>1, <5>2, <5>3, <2>n, <2>c, <2>r, ReadRight
          <5>6. desc' \in [at : {"closed", "open", "seek", "close", "gone"}, flags : Flags \cup {""},
                           offset : Nat, target : Nat]
                /\ desc'.at = desc.at /\ desc'.flags = desc.flags
                /\ desc'.offset = desc.offset + Len(data)
            <6>1. desc.offset + Len(data) \in Nat
              BY <5>2, <5>4
            <6> QED
              BY <5>1, <6>1, <2>d
          <5>7. GftpTypeOK'
            BY <3>1, <3>3, <5>6, <2>n, <2>t, Zenon DEF GftpTypeOK
          <5>8. ImageKept' /\ EndIsEnd'
            BY <3>1, <3>3, <5>6, <2>i, FileAside
          <5>9. FreshAtFirst' /\ MainOfFlags'
            BY <3>1, <3>3, <5>6, <2>i DEF FreshAtFirst, MainOfFlags
          <5> QED
            BY <5>1, <5>5, <5>6, <5>7, <5>8, <5>9, <3>1, <2>c
        <4> QED
          BY <4>1, <4>2, <3>3
      <3> QED
        BY <3>2, <3>3, <2>2 DEF GftpRead
    <2>3. ASSUME NEW o \in Offsets, NEW n \in Counts, GftpPread(o, n)
          PROVE  GftpTypeOK' /\ FreshAtFirst' /\ MainOfFlags' /\ EndIsEnd' /\ ImageKept' /\ Closely'
      <3>1. desc.at = "open" /\ ios' = ios + 1
            /\ UNCHANGED <<remote, main, request, stream, desc, pos, image>>
        BY <2>3 DEF GftpPread, Called
      <3>2. o \in Nat /\ n \in Nat /\ n # 0
        BY <2>n
      <3>3. ~strange'
        <4>1. CASE \E torn \in BOOLEAN : \E data \in PartialGet(o, n, torn) :
                     Returned(data, o, torn)
          <5>0. PICK torn \in BOOLEAN : \E data \in PartialGet(o, n, torn) :
                    Returned(data, o, torn)
            BY <4>1
          <5>1. PICK data \in PartialGet(o, n, torn) : Returned(data, o, torn)
            BY <5>0
          <5>2. /\ ~torn => data = BlocksAt(o, Len(data))
                /\ data = <<>> => o >= Len(remote)
            BY <3>2, <2>r, PartialGetGives
          <5> QED
            BY <5>1, <5>2, <3>2, <2>c, <2>r, ReadRight
        <4> QED
          BY <4>1, <2>3, <2>c DEF GftpPread
      <3>4. GftpTypeOK'
        BY <3>1, <2>n, <2>t, Zenon DEF GftpTypeOK
      <3>5. ImageKept' /\ EndIsEnd'
        BY <3>1, <2>i, FileAside
      <3>6. FreshAtFirst' /\ MainOfFlags'
        BY <3>1, <2>i DEF FreshAtFirst, MainOfFlags
      <3> QED
        BY <3>1, <3>3, <3>4, <3>5, <3>6, <2>c
    <2>4. ASSUME GftpWrite
          PROVE  GftpTypeOK' /\ FreshAtFirst' /\ MainOfFlags' /\ EndIsEnd' /\ ImageKept' /\ Closely'
      <3> DEFINE b == ios'
      <3>1. desc.at = "open" /\ ios' = ios + 1 /\ pos \in Offsets /\ UNCHANGED <<request, strange>>
        BY <2>4 DEF GftpWrite, Called
      <3>2. ~IsReadOnly(desc.flags)
        BY <2>4 DEF GftpWrite, MayWrite, IsReadOnly
      <3>3. b \in Nat
        BY <3>1, <2>n
      <3> HIDE DEF b
      <3>4. CASE IsNotSeeked /\ IsWriteOnly(desc.flags) /\ StreamWrite(b)
        <4>0. stream.offset = pos
          BY <3>4, <2>c DEF IsNotSeeked
        <4>1. CASE /\ ~stream.error /\ ~stream.eof /\ main.op = "put"
                   /\ remote' = WrittenAt(stream.offset, b)
                   /\ stream' = [stream EXCEPT !.offset = @ + 1]
                   /\ desc' = [desc EXCEPT !.offset = @ + 1]
                   /\ pos' = pos + 1
                   /\ image' = [image EXCEPT ![pos] = b]
                   /\ UNCHANGED main
          <5>1. stream' \in [on : BOOLEAN, offset : Nat, eof : BOOLEAN, error : BOOLEAN, torn : BOOLEAN]
            BY <4>1, <2>s, <2>p
          <5>2. desc' \in [at : {"closed", "open", "seek", "close", "gone"}, flags : Flags \cup {""},
                           offset : Nat, target : Nat]
                /\ desc'.at = desc.at /\ desc'.flags = desc.flags /\ desc'.offset = desc.offset + 1
            BY <4>1, <2>d, <2>p
          <5>3. remote' \in Seq(Nat) /\ image' \in [Offsets -> Nat] /\ ImageKept'
            <6>1. remote' = WrittenAt(pos, b)
              BY <4>0, <4>1
            <6>2. image \in [Offsets -> Nat]
              BY <2>t
            <6> QED
              BY <6>1, <6>2, <4>1, <5>2, <3>1, <3>3, <2>i, <2>r, ImageWritten
          <5>4. GftpTypeOK'
            BY <5>1, <5>2, <5>3, <4>1, <3>1, <2>n, <2>t, Zenon DEF GftpTypeOK
          <5>5. FreshAtFirst' /\ MainOfFlags' /\ EndIsEnd'
            BY <5>2, <4>1, <3>1, <3>2, <2>i DEF FreshAtFirst, MainOfFlags, EndIsEnd
          <5> QED
            BY <5>2, <5>3, <5>4, <5>5, <4>1, <3>1, <2>c
        <4>2. CASE /\ \E k \in {0, 1} :
                        /\ k > 0 => main.op = "put"
                        /\ stream' = [stream EXCEPT !.offset = @ + k, !.error = @ \/ main.op = "put"]
                   /\ remote' \in {remote} \cup (IF main.op = "put" THEN {WrittenAt(stream.offset, b)}
                                                 ELSE {})
                   /\ main' \in {main, Aborted}
                   /\ image' = [image EXCEPT ![pos] = 0]
                   /\ UNCHANGED <<desc, pos>>
          <5>1. PICK k \in {0, 1} :
                    stream' = [stream EXCEPT !.offset = stream.offset + k,
                                             !.error = stream.error \/ main.op = "put"]
            BY <4>2
          <5>2. (stream.error \/ main.op = "put") \in BOOLEAN
            OBVIOUS
          <5>3. stream.offset + k \in Nat
            BY <5>1, <2>p
          <5>4. stream' \in [on : BOOLEAN, offset : Nat, eof : BOOLEAN, error : BOOLEAN, torn : BOOLEAN]
            BY <5>1, <5>2, <5>3, <2>s
          <5>5. main' \in [op : {"none", "get", "put"}, aborted : BOOLEAN] /\ main'.op = main.op
            BY <4>2, <2>a, <2>t
          <5>6. remote' \in Seq(Nat) /\ image' \in [Offsets -> Nat] /\ ImageKept'
            <6>1. remote' \in {remote, WrittenAt(pos, b)}
              BY <4>0, <4>2
            <6>2. image \in [Offsets -> Nat]
              BY <2>t
            <6> QED
              BY <6>1, <6>2, <4>2, <3>1, <3>3, <2>i, <2>r, ImageWritten
          <5>7. GftpTypeOK'
            BY <5>4, <5>5, <5>6, <4>2, <3>1, <2>n, <2>t, Zenon DEF GftpTypeOK
          <5>8. FreshAtFirst' /\ MainOfFlags' /\ EndIsEnd'
            BY <5>5, <4>2, <3>1, <3>2, <2>i DEF FreshAtFirst, MainOfFlags, EndIsEnd
          <5> QED
            BY <5>6, <5>7, <5>8, <4>2, <3>1, <2>c
        <4> QED
          BY <4>1, <4>2, <3>4 DEF StreamWrite
      <3>5. CASE /\ \E ok \in BOOLEAN :
                      /\ PartialPut(desc.offset, b, ok)
                      /\ desc' = IF ok THEN [desc EXCEPT !.offset = @ + 1] ELSE desc
                      /\ pos' = IF ok THEN pos + 1 ELSE pos
                 /\ UNCHANGED <<main, stream>>
        <4>1. PICK ok \in BOOLEAN :
                  /\ PartialPut(pos, b, ok)
                  /\ desc' = IF ok THEN [desc EXCEPT !.offset = desc.offset + 1] ELSE desc
                  /\ pos' = IF ok THEN pos + 1 ELSE pos
          BY <3>5, <2>c
        <4>2. desc' \in [at : {"closed", "open", "seek", "close", "gone"}, flags : Flags \cup {""},
                         offset : Nat, target : Nat]
              /\ desc'.at = desc.at /\ desc'.flags = desc.flags
              /\ desc'.offset = IF ok THEN desc.offset + 1 ELSE desc.offset
          <5>1. CASE ok
            BY <5>1, <4>1, <2>d, <2>p
          <5>2. CASE ~ok
            BY <5>2, <4>1, <2>d
          <5> QED
            BY <5>1, <5>2
        <4>3. remote' \in Seq(Nat) /\ image' \in [Offsets -> Nat] /\ ImageKept'
          <5> DEFINE d == IF ok THEN b ELSE 0
          <5>1. /\ remote' \in {remote, WrittenAt(pos, b)}
                /\ d # 0 => remote' = WrittenAt(pos, b)
                /\ image' = [image EXCEPT ![pos] = d]
                /\ d \in {0, b}
            BY <4>1 DEF PartialPut
          <5> HIDE DEF d
          <5>2. image \in [Offsets -> Nat]
            BY <2>t
          <5> QED
            BY <5>1, <5>2, <4>2, <3>1, <3>3, <2>i, <2>r, ImageWritten
        <4>4. GftpTypeOK'
          BY <4>2, <4>3, <3>1, <3>5, <2>n, <2>t, Zenon DEF GftpTypeOK
        <4>5. FreshAtFirst' /\ MainOfFlags' /\ EndIsEnd'
          BY <4>2, <3>1, <3>2, <3>5, <2>i DEF FreshAtFirst, MainOfFlags, EndIsEnd
        <4> QED
          BY <4>1, <4>2, <4>3, <4>4, <4>5, <3>1, <2>c
      <3> QED
        BY <3>4, <3>5, <2>4 DEF GftpWrite, b
    <2>5. ASSUME NEW o \in Offsets, GftpPwrite(o)
          PROVE  GftpTypeOK' /\ FreshAtFirst' /\ MainOfFlags' /\ EndIsEnd' /\ ImageKept' /\ Closely'
      <3> DEFINE b == ios'
      <3>1. desc.at = "open" /\ ios' = ios + 1 /\ UNCHANGED <<main, request, stream, desc, pos, strange>>
        BY <2>5 DEF GftpPwrite, Called
      <3>2. ~IsReadOnly(desc.flags)
        BY <2>5 DEF GftpPwrite, MayWrite, IsReadOnly
      <3>3. b \in Nat
        BY <3>1, <2>n
      <3>4. PICK ok \in BOOLEAN : PartialPut(o, b, ok)
        BY <2>5 DEF GftpPwrite
      <3> HIDE DEF b
      <3>5. remote' \in Seq(Nat) /\ image' \in [Offsets -> Nat] /\ ImageKept'
        <4> DEFINE d == IF ok THEN b ELSE 0
        <4>1. /\ remote' \in {remote, WrittenAt(o, b)}
              /\ d # 0 => remote' = WrittenAt(o, b)
              /\ image' = [image EXCEPT ![o] = d]
              /\ d \in {0, b}
          BY <3>4 DEF PartialPut
        <4> HIDE DEF d
        <4>2. image \in [Offsets -> Nat]
          BY <2>t
        <4> QED
          BY <4>1, <4>2, <3>1, <3>3, <2>i, <2>r, ImageWritten
      <3>6. GftpTypeOK'
        BY <3>1, <3>5, <2>n, <2>t, Zenon DEF GftpTypeOK
      <3>7. FreshAtFirst' /\ MainOfFlags' /\ EndIsEnd'
        BY <3>1, <3>2, <2>i DEF FreshAtFirst, MainOfFlags, EndIsEnd
      <3> QED
        BY <3>1, <3>5, <3>6, <3>7, <2>c
    <2> DEFINE Settled ==
                 /\ UNCHANGED <<remote, image>>
                 /\ ios' \in {ios, ios + 1}
                 /\ main' \in [op : {"none", "get", "put"}, aborted : BOOLEAN]
                 /\ main'.op = main.op
                 /\ request' \in [done : BOOLEAN, error : {"", "ECANCELED", "ECOMM"}]
                 /\ request'.done = request.done
                 /\ request.error # "" => request'.error # ""
               Streaming ==
                 /\ stream' \in [on : BOOLEAN, offset : Nat, eof : BOOLEAN, error : BOOLEAN, torn : BOOLEAN]
                 /\ stream'.eof => stream.eof \/ main.op = "put"
                 /\ stream'.offset = stream.offset
               Described ==
                 /\ desc' \in [at : {"closed", "open", "seek", "close", "gone"}, flags : Flags \cup {""},
                                   offset : Nat, target : Nat]
                 /\ desc'.flags = desc.flags
                 /\ desc'.at \in {"open", "seek", "close"}
    <2>q. ASSUME Settled, Streaming, Described
          PROVE  GftpTypeOK' /\ FreshAtFirst' /\ MainOfFlags' /\ EndIsEnd' /\ ImageKept'
      <3>1. GftpTypeOK'
        BY <2>q, <2>n, <2>t, Zenon DEF GftpTypeOK
      <3>2. FreshAtFirst' /\ MainOfFlags'
        BY <2>q, <2>i DEF FreshAtFirst, MainOfFlags
      <3>3. EndIsEnd'
        BY <2>q, <2>i DEF EndIsEnd, MainOfFlags
      <3>4. ImageKept'
        BY <2>q, <2>i DEF ImageKept, HasBlock, Ruined
      <3> QED
        BY <3>1, <3>2, <3>3, <3>4
    <2>u. /\ main \in [op : {"none", "get", "put"}, aborted : BOOLEAN] /\ request \in [done : BOOLEAN, error : {"", "ECANCELED", "ECOMM"}]
          /\ stream \in [on : BOOLEAN, offset : Nat, eof : BOOLEAN, error : BOOLEAN, torn : BOOLEAN]
          /\ desc \in [at : {"closed", "open", "seek", "close", "gone"}, flags : Flags \cup {""},
                       offset : Nat, target : Nat]
      BY <2>t
    <2>v. ASSUME NEW o \in Nat, Sought(o)
          PROVE  Streaming /\ Described /\ pos' = desc'.offset
      <3>1. Streaming
        BY <2>v, <2>s DEF Sought
      <3>2. Described /\ pos' = desc'.offset
        BY <2>v, <2>d DEF Sought
      <3> QED
        BY <3>1, <3>2
    <2>w. UNCHANGED stream => Streaming
      BY <2>s
    <2>x. UNCHANGED <<remote, image, request>> /\ main' \in {main, Aborted} /\ ios' \in {ios, ios + 1} => Settled
      BY <2>u, <2>a
    <2>y. ASSUME NEW at \in {"open", "seek", "close"}, NEW o \in Nat,
                 desc' \in {[desc EXCEPT !.at = at], [desc EXCEPT !.at = at, !.target = o]}
          PROVE  Described /\ desc'.at = at /\ desc'.offset = desc.offset
      BY <2>y, <2>d
    <2> HIDE DEF Settled, Streaming, Described
    <2>6. ASSUME NEW o \in Offsets, GftpLseek(o)
          PROVE  GftpTypeOK' /\ FreshAtFirst' /\ MainOfFlags' /\ EndIsEnd' /\ ImageKept' /\ Closely'
      <3>1. desc.at = "open" /\ ios' = ios + 1 /\ UNCHANGED <<remote, request, image, strange>>
        BY <2>6 DEF GftpLseek, Called
      <3>2. o \in Nat
        BY <2>n
      <3>3. CASE o = desc.offset /\ pos' = o /\ UNCHANGED <<main, stream, desc>>
        <4>1. Settled /\ Streaming /\ Described
          BY <3>1, <3>3, <2>d, <2>w, <2>x DEF Described
        <4> QED
          BY <4>1, <3>1, <3>3, <2>c, <2>q
      <3>4. CASE Sought(o) /\ UNCHANGED main
        <4>1. Settled
          BY <3>1, <3>4, <2>x
        <4>2. Streaming /\ Described /\ pos' = desc'.offset
          BY <3>2, <3>4, <2>v
        <4>3. desc'.at # "gone"
          BY <4>2 DEF Described
        <4> QED
          BY <4>1, <4>2, <4>3, <3>1, <2>c, <2>q
      <3>5. CASE /\ desc' = [desc EXCEPT !.at = "seek", !.target = o]
                 /\ main' = Aborted
                 /\ UNCHANGED <<stream, pos>>
        <4>1. Settled /\ Streaming
          BY <3>1, <3>5, <2>w, <2>x
        <4>2. Described /\ desc'.at = "seek" /\ desc'.offset = desc.offset
          BY <3>2, <3>5, <2>y
        <4> QED
          BY <4>1, <4>2, <3>1, <3>5, <2>c, <2>q
      <3> QED
        BY <3>3, <3>4, <3>5, <2>6 DEF GftpLseek
    <2>7. ASSUME LseekWaits
          PROVE  GftpTypeOK' /\ FreshAtFirst' /\ MainOfFlags' /\ EndIsEnd' /\ ImageKept' /\ Closely'
      <3>1. desc.at = "seek" /\ UNCHANGED <<remote, main, request, ios, image, strange>>
        BY <2>7 DEF LseekWaits
      <3>2. desc.target \in Nat
        BY <2>d
      <3>3. Settled
        BY <3>1, <2>x
      <3>4. CASE Sought(desc.target)
        <4>1. Streaming /\ Described /\ pos' = desc'.offset
          BY <3>2, <3>4, <2>v
        <4>2. desc'.at # "gone"
          BY <4>1 DEF Described
        <4> QED
          BY <4>1, <4>2, <3>1, <3>3, <2>c, <2>q
      <3>5. CASE desc' = [desc EXCEPT !.at = "open"] /\ UNCHANGED <<stream, pos>>
        <4>1. Streaming /\ Described /\ desc'.at = "open" /\ desc'.offset = desc.offset
          BY <3>5, <2>o, <2>w, <2>y
        <4> QED
          BY <4>1, <3>1, <3>3, <3>5, <2>c, <2>q
      <3> QED
        BY <3>4, <3>5, <2>7 DEF LseekWaits
    <2>8. ASSUME WaitExpires \/ WaitCancelled
          PROVE  GftpTypeOK' /\ FreshAtFirst' /\ MainOfFlags' /\ EndIsEnd' /\ ImageKept' /\ Closely'
      <3>1. /\ desc.at \in {"seek", "close"}
            /\ request' = [request EXCEPT !.error = "ECANCELED"]
            /\ main' = Aborted
            /\ desc' \in {desc, [desc EXCEPT !.at = "open"]}
            /\ UNCHANGED <<remote, stream, ios, pos, image, strange>>
        BY <2>8 DEF WaitExpires, WaitCancelled
      <3>2. Settled
        BY <3>1, <2>a, <2>u DEF Settled
      <3>3. Described /\ desc'.offset = desc.offset
        BY <3>1, <2>d DEF Described
      <3>4. desc'.at # "gone"
        BY <3>3 DEF Described
      <3> QED
        BY <3>1, <3>2, <3>3, <3>4, <2>c, <2>q, <2>w
    <2>9. ASSUME GftpClose
          PROVE  GftpTypeOK' /\ FreshAtFirst' /\ MainOfFlags' /\ EndIsEnd' /\ ImageKept' /\ Closely'
      <3>1. desc.at = "open" /\ ios' = ios + 1 /\ UNCHANGED <<remote, request, pos, image, strange>>
        BY <2>9 DEF GftpClose, Called
      <3>2. CASE /\ ~IsReadOnly(desc.flags) /\ ~IsWriteOnly(desc.flags)
                 /\ Gone /\ UNCHANGED <<main, stream>>
        <4>1. desc' \in [at : {"closed", "open", "seek", "close", "gone"}, flags : Flags \cup {""},
                         offset : Nat, target : Nat]
              /\ desc'.at = "gone" /\ desc'.flags = desc.flags /\ desc'.offset = desc.offset
          BY <3>2, <2>d DEF Gone
        <4>2. GftpTypeOK'
          BY <4>1, <3>1, <3>2, <2>n, <2>t, Zenon DEF GftpTypeOK
        <4>3. main.op = "none"
          BY <3>2, <2>i, <2>u DEF MainOfFlags
        <4>4. FreshAtFirst' /\ MainOfFlags'
          BY <4>1, <4>3, <3>2 DEF FreshAtFirst, MainOfFlags
        <4>5. EndIsEnd' /\ ImageKept'
          BY <4>1, <3>1, <3>2, <2>i, FileAside
        <4>6. ~Ruined'
          BY <4>1, <3>2 DEF Ruined
        <4> QED
          BY <4>1, <4>2, <4>4, <4>5, <4>6, <3>1, <2>c
      <3>3. CASE Commit
        <4>1. Settled
          <5>1. main' \in {main, Aborted}
            BY <3>3 DEF Commit
          <5> QED
            BY <5>1, <3>1, <2>x
        <4>2. Streaming
          <5>1. CASE UNCHANGED stream
            BY <5>1, <2>w
          <5>2. CASE main.op = "put" /\ stream' = [stream EXCEPT !.eof = TRUE]
            BY <5>2, <2>s DEF Streaming
          <5>3. CASE stream' = [stream EXCEPT !.error = stream.error \/ main.op = "put"]
            <6>1. (stream.error \/ main.op = "put") \in BOOLEAN
              OBVIOUS
            <6> QED
              BY <5>3, <6>1, <2>s DEF Streaming
          <5> QED
            BY <5>1, <5>2, <5>3, <3>3 DEF Commit
        <4>3. desc' \in {desc, [desc EXCEPT !.at = "close"]}
          BY <3>3 DEF Commit
        <4>4. Described /\ desc'.offset = desc.offset
          BY <4>3, <3>1, <2>d DEF Described
        <4>5. desc'.at # "gone"
          BY <4>4 DEF Described
        <4> QED
          BY <4>1, <4>2, <4>4, <4>5, <3>1, <2>c, <2>q
      <3> QED
        BY <3>2, <3>3, <2>9 DEF GftpClose
    <2>10. ASSUME CloseWaits
          PROVE  GftpTypeOK' /\ FreshAtFirst' /\ MainOfFlags' /\ EndIsEnd' /\ ImageKept' /\ Closely'
      <3>1. desc.at = "close" /\ request.done
            /\ UNCHANGED <<remote, main, request, stream, ios, pos, image, strange>>
        BY <2>10 DEF CloseWaits
      <3>2. main.op = "none"
        BY <3>1, <2>i DEF MainOfFlags
      <3>3. CASE Gone /\ (request.error = "" \/ ~IsWriteOnly(desc.flags))
        <4>1. desc' \in [at : {"closed", "open", "seek", "close", "gone"}, flags : Flags \cup {""},
                         offset : Nat, target : Nat]
              /\ desc'.at = "gone" /\ desc'.flags = desc.flags /\ desc'.offset = desc.offset
          BY <3>3, <2>d DEF Gone
        <4>2. GftpTypeOK'
          BY <4>1, <3>1, <2>n, <2>t, Zenon DEF GftpTypeOK
        <4>3. FreshAtFirst' /\ MainOfFlags'
          BY <4>1, <3>1, <3>2 DEF FreshAtFirst, MainOfFlags
        <4>4. EndIsEnd' /\ ImageKept'
          BY <4>1, <3>1, <2>i, FileAside
        <4>5. ~Ruined'
          BY <4>1, <3>1, <3>3 DEF Ruined
        <4> QED
          BY <4>1, <4>2, <4>3, <4>4, <4>5, <3>1, <2>c
      <3>4. CASE desc' = [desc EXCEPT !.at = "open"]
        <4>1. Settled /\ Streaming
          BY <3>1, <2>w, <2>x
        <4>2. Described /\ desc'.at = "open" /\ desc'.offset = desc.offset
          BY <3>4, <2>o, <2>y
        <4> QED
          BY <4>1, <4>2, <3>1, <2>c, <2>q
      <3> QED
        BY <3>3, <3>4, <2>10 DEF CloseWaits
    <2>11. ASSUME MainEnds \/ MainBreaks
          PROVE  GftpTypeOK' /\ FreshAtFirst' /\ MainOfFlags' /\ EndIsEnd' /\ ImageKept' /\ Closely'
      <3>1. /\ main.op # "none" /\ main' = NoMain
            /\ remote' \in {remote} \cup (IF main.op = "put" THEN {<<>>} ELSE {})
            /\ UNCHANGED <<stream, desc, ios, pos, image, strange>>
        BY <2>11 DEF MainEnds, MainBreaks
      <3>2. request' \in [done : BOOLEAN, error : {"", "ECANCELED", "ECOMM"}]
            /\ (request.error # "" => request'.error # "")
            /\ (remote' = remote \/ request'.error # "")
        <4>1. CASE MainEnds
          BY <4>1, <2>u DEF MainEnds
        <4>2. CASE MainBreaks
          BY <4>2 DEF MainBreaks
        <4> QED
          BY <4>1, <4>2, <2>11
      <3>3. desc.at # "gone" /\ desc.at # "closed"
        BY <3>1, <2>i DEF MainOfFlags, FreshAtFirst, NoMain
      <3>4. GftpTypeOK'
        <4>1. remote' \in Seq(Nat)
          <5>1. remote' = remote \/ remote' = <<>>
            BY <3>1
          <5>2. <<>> \in Seq(Nat)
            OBVIOUS
          <5> QED
            BY <5>1, <5>2, <2>r
        <4>2. main' \in [op : {"none", "get", "put"}, aborted : BOOLEAN]
          BY <3>1 DEF NoMain
        <4> QED
          BY <4>1, <4>2, <3>1, <3>2, <2>t, Zenon DEF GftpTypeOK
      <3>5. FreshAtFirst' /\ MainOfFlags'
        BY <3>1, <3>3 DEF FreshAtFirst, MainOfFlags, NoMain
      <3>6. EndIsEnd' /\ ImageKept'
        <4>1. CASE remote' = remote
          BY <4>1, <3>1, <3>2, <2>i, FileAside
        <4>2. CASE remote' # remote
          <5>1. main.op = "put" /\ IsWriteOnly(desc.flags) /\ ~IsReadOnly(desc.flags)
            BY <4>2, <3>1, <2>i DEF MainOfFlags
          <5> QED
            BY <4>2, <5>1, <3>1, <3>2 DEF EndIsEnd, ImageKept, Ruined
        <4> QED
          BY <4>1, <4>2
      <3> QED
        BY <3>1, <3>3, <3>4, <3>5, <3>6, <2>c
    <2> QED
      BY <1>2, <2>1, <2>2, <2>3, <2>4, <2>5, <2>6, <2>7, <2>8, <2>9, <2>10, <2>11 DEF GftpNext
  <1> QED
    BY <1>1, <1>2 DEF Next, vars

\* FileAsWritten holds of every sequence of calls on a GridFTP file, with any
\* blocks, offsets, counts and flags and whatever Globus delivers: a read whose
\* data came in order tells the truth, none is empty before the end of the file,
\* and a close that returns 0 leaves the reported blocks in the file.
THEOREM FileIsAsWritten == Spec => []FileAsWritten
  <1>1. GftpInv => FileAsWritten
    <2> SUFFICES ASSUME GftpInv PROVE FileAsWritten
      OBVIOUS
    <2>1. ~strange
      BY DEF GftpInv
    <2>2. ASSUME desc.at = "gone", NEW o \in Offsets, image[o] # 0
          PROVE  BlocksAt(o, 1) = <<image[o]>>
      <3>1. remote \in Seq(Nat) /\ HasBlock(o, image[o])
        BY <2>2 DEF GftpInv, GftpTypeOK, ImageKept
      <3>2. o \in Nat /\ o < Len(remote) /\ Len(remote) \in Nat
        BY <3>1, GftpAssumption DEF HasBlock
      <3>3. Min({o + 1, Len(remote)}) = o + 1
        BY <3>2, Extremes
      <3>4. BlocksAt(o, 1) = SubSeq(remote, o + 1, o + 1)
        BY <3>3 DEF BlocksAt
      <3>5. SubSeq(remote, o + 1, o + 1) = <<remote[o + 1]>>
        <4> DEFINE one == SubSeq(remote, o + 1, o + 1)
        <4>1. o + 1 \in Nat /\ remote[o + 1] \in Nat
          BY <3>1, <3>2
        <4>2. \A i \in (o + 1)..(o + 1) : remote[i] \in Nat
          BY <4>1
        <4>3. one \in Seq(Nat) /\ Len(one) = 1
          BY <4>1, <4>2, <3>2, SubSeqProperties
        <4>4. one[1] = remote[o + 1]
          BY <3>1, <3>2, <4>1
        <4> HIDE DEF one
        <4>5. one = <<remote[o + 1]>>
          BY <4>3, <4>4
        <4> QED
          BY <4>5 DEF one
      <3> QED
        BY <3>1, <3>4, <3>5 DEF HasBlock
    <2> QED
      BY <2>1, <2>2 DEF FileAsWritten
  <1>2. GftpInv /\ [Next]_vars => GftpInv'
    BY GftpPreserved
  <1> QED
    BY <1>1, <1>2, GftpInitially, PTL DEF Spec

-----------------------------------------------------------------------------
(* The keys of a cloud storage                                             *)

Having(g) == {pr \in Pairs : {pr[1], pr[2]} \subseteq conf[g]}

\* What get_aws_params knows before it has found a pair.
NothingYet(s) == /\ s.secret = Unset /\ s.access = Unset /\ s.pair = <<Unset, Unset>>

HasFields(s) == s = [secret |-> s.secret, access |-> s.access, token |-> s.token, pair |-> s.pair]

\* What one group adds to the parameters.
LEMMA KeysOfGroup ==
    ASSUME NEW s, HasFields(s), NEW g, NEW secret, NEW access,
           secret = Keep(s.secret, Opt(g, "SECRET_KEY")),
           access = Keep(s.access, Opt(g, "ACCESS_KEY"))
    PROVE  AwsKeys(s, g) =
             IF secret # Unset /\ access # Unset
             THEN [secret |-> secret, access |-> access,
                   token |-> Keep(s.token, Opt(g, "TOKEN")), pair |-> s.pair]
             ELSE [secret |-> Opt(g, "ACCESS_TOKEN_SECRET"), access |-> Opt(g, "ACCESS_TOKEN"),
                   token |-> Keep(s.token, Opt(g, "TOKEN")), pair |-> s.pair]
  <1> DEFINE whole == secret # Unset /\ access # Unset
             a == IF whole THEN secret ELSE Opt(g, "ACCESS_TOKEN_SECRET")
             b == IF whole THEN access ELSE Opt(g, "ACCESS_TOKEN")
             c == Keep(s.token, Opt(g, "TOKEN"))
  <1>1. AwsKeys(s, g) = [s EXCEPT !.secret = a, !.access = b, !.token = c]
    BY DEF AwsKeys
  <1> HIDE DEF a, b, c
  <1>2. DOMAIN s = {"secret", "access", "token", "pair"}
    BY DEF HasFields
  <1>3. AwsKeys(s, g) = [f \in {"secret", "access", "token", "pair"} |->
            IF f = "token" THEN c ELSE IF f = "access" THEN b ELSE IF f = "secret" THEN a ELSE s[f]]
    BY <1>1, <1>2
  <1>4. AwsKeys(s, g) = [secret |-> a, access |-> b, token |-> c, pair |-> s.pair]
    BY <1>3
  <1> QED
    BY <1>4 DEF a, b, c

\* A group without a pair, and without half an old one, changes nothing.
LEMMA GroupWithout ==
    ASSUME NEW s, HasFields(s), NothingYet(s), NEW g, Having(g) = {}, ~HalfOld(g)
    PROVE  NothingYet(AwsGroup(s, g)) /\ HasFields(AwsGroup(s, g))
  <1>1. ~("SECRET_KEY" \in conf[g] /\ "ACCESS_KEY" \in conf[g])
    <2>1. <<"SECRET_KEY", "ACCESS_KEY">> \in Pairs
      BY DEF Pairs
    <2> QED
      BY <2>1 DEF Having
  <1>2. ~("ACCESS_TOKEN_SECRET" \in conf[g] /\ "ACCESS_TOKEN" \in conf[g])
    <2>1. <<"ACCESS_TOKEN_SECRET", "ACCESS_TOKEN">> \in Pairs
      BY DEF Pairs
    <2> QED
      BY <2>1 DEF Having
  <1>3. "ACCESS_TOKEN_SECRET" \notin conf[g] /\ "ACCESS_TOKEN" \notin conf[g]
    <2> DEFINE S == conf[g] \cap {"ACCESS_TOKEN_SECRET", "ACCESS_TOKEN"}
    <2>1. CASE "ACCESS_TOKEN_SECRET" \in conf[g]
      <3>1. S = {"ACCESS_TOKEN_SECRET"}
        BY <1>2, <2>1
      <3> QED
        BY <3>1, FS_Singleton DEF HalfOld
    <2>2. CASE "ACCESS_TOKEN" \in conf[g]
      <3>1. S = {"ACCESS_TOKEN"}
        BY <1>2, <2>2
      <3> QED
        BY <3>1, FS_Singleton DEF HalfOld
    <2> QED
      BY <2>1, <2>2
  <1>4. /\ Opt(g, "ACCESS_TOKEN_SECRET") = Unset /\ Opt(g, "ACCESS_TOKEN") = Unset
        /\ Opt(g, "SECRET_KEY") = Unset \/ Opt(g, "ACCESS_KEY") = Unset
    BY <1>1, <1>3 DEF Opt
  <1> DEFINE n == AwsKeys(s, g)
  <1>5. n.secret = Unset /\ n.access = Unset /\ n.pair = <<Unset, Unset>> /\ HasFields(n)
    <2>1. n = [secret |-> Unset, access |-> Unset,
               token |-> Keep(s.token, Opt(g, "TOKEN")), pair |-> <<Unset, Unset>>]
      BY <1>4, KeysOfGroup DEF NothingYet, Keep
    <2> QED
      BY <2>1 DEF HasFields
  <1>6. AwsGroup(s, g) = n
    BY <1>5 DEF AwsGroup
  <1> QED
    BY <1>5, <1>6 DEF NothingYet

\* The first group with a pair gives it.
LEMMA GroupWith ==
    ASSUME NEW s, HasFields(s), NothingYet(s), NEW g, Having(g) # {}
    PROVE  /\ HasFields(AwsGroup(s, g))
           /\ \E pr \in Having(g) : AwsGroup(s, g).pair = <<<<g, pr[1]>>, <<g, pr[2]>>>>
  <1> DEFINE n == AwsKeys(s, g)
  <1>1. \A name : name \in conf[g] => Opt(g, name) = <<g, name>> /\ Opt(g, name) # Unset
    BY DEF Opt, Unset
  <1>2. \A name : name \notin conf[g] => Opt(g, name) = Unset
    BY DEF Opt
  <1>3. ASSUME NEW a, NEW b, n.secret = a, n.access = b, a # Unset, b # Unset, n.pair = <<Unset, Unset>>,
               HasFields(n)
        PROVE  AwsGroup(s, g).pair = <<a, b>> /\ HasFields(AwsGroup(s, g))
    BY <1>3 DEF AwsGroup, HasFields
  <1>4. CASE "SECRET_KEY" \in conf[g] /\ "ACCESS_KEY" \in conf[g]
    <2> DEFINE pr == <<"SECRET_KEY", "ACCESS_KEY">>
    <2>1. pr \in Having(g)
      BY <1>4 DEF Having, Pairs
    <2>2. n = [secret |-> <<g, "SECRET_KEY">>, access |-> <<g, "ACCESS_KEY">>,
               token |-> Keep(s.token, Opt(g, "TOKEN")), pair |-> <<Unset, Unset>>]
      BY <1>1, <1>4, KeysOfGroup DEF NothingYet, Keep
    <2>3. n.secret = <<g, "SECRET_KEY">> /\ n.access = <<g, "ACCESS_KEY">>
            /\ n.pair = <<Unset, Unset>> /\ HasFields(n)
      BY <2>2 DEF HasFields
    <2>4. <<g, "SECRET_KEY">> # Unset /\ <<g, "ACCESS_KEY">> # Unset
      BY DEF Unset
    <2> HIDE DEF n
    <2>5. /\ AwsGroup(s, g).pair = <<<<g, "SECRET_KEY">>, <<g, "ACCESS_KEY">>>>
          /\ HasFields(AwsGroup(s, g))
      BY <1>3, <2>3, <2>4
    <2> QED
      BY <2>1, <2>5
  <1>5. CASE ~("SECRET_KEY" \in conf[g] /\ "ACCESS_KEY" \in conf[g])
    <2> DEFINE pr == <<"ACCESS_TOKEN_SECRET", "ACCESS_TOKEN">>
    <2>1. "ACCESS_TOKEN_SECRET" \in conf[g] /\ "ACCESS_TOKEN" \in conf[g]
      <3>1. PICK p \in Pairs : {p[1], p[2]} \subseteq conf[g]
        BY DEF Having
      <3> QED
        BY <1>5, <3>1 DEF Pairs
    <2>2. pr \in Having(g)
      BY <2>1 DEF Having, Pairs
    <2>3. n = [secret |-> <<g, "ACCESS_TOKEN_SECRET">>, access |-> <<g, "ACCESS_TOKEN">>,
               token |-> Keep(s.token, Opt(g, "TOKEN")), pair |-> <<Unset, Unset>>]
      BY <1>1, <1>2, <1>5, <2>1, KeysOfGroup DEF NothingYet, Keep
    <2>4. n.secret = <<g, "ACCESS_TOKEN_SECRET">> /\ n.access = <<g, "ACCESS_TOKEN">>
            /\ n.pair = <<Unset, Unset>> /\ HasFields(n)
      BY <2>3 DEF HasFields
    <2>5. <<g, "ACCESS_TOKEN_SECRET">> # Unset /\ <<g, "ACCESS_TOKEN">> # Unset
      BY DEF Unset
    <2> HIDE DEF n
    <2>6. /\ AwsGroup(s, g).pair = <<<<g, "ACCESS_TOKEN_SECRET">>, <<g, "ACCESS_TOKEN">>>>
          /\ HasFields(AwsGroup(s, g))
      BY <1>3, <2>4, <2>5
    <2> QED
      BY <2>2, <2>6
  <1> QED
    BY <1>4, <1>5

\* A pair that was found stays.
LEMMA GroupAfter ==
    ASSUME NEW s, HasFields(s), NEW g, s.pair # <<Unset, Unset>>
    PROVE  HasFields(AwsGroup(s, g)) /\ AwsGroup(s, g).pair = s.pair
  <1>1. AwsKeys(s, g).pair = s.pair /\ HasFields(AwsKeys(s, g))
    BY KeysOfGroup DEF HasFields
  <1> QED
    BY <1>1 DEF AwsGroup

NoAws == [secret |-> Unset, access |-> Unset, token |-> Unset, pair |-> <<Unset, Unset>>]

\* The function in AwsParams, for the first n groups.
IsSeen(seen, n) ==
    seen = [i \in 0 .. n |-> IF i = 0 THEN NoAws ELSE AwsGroup(seen[i - 1], Groups[i])]

\* It is defined.
LEMMA SeenExists ==
    ASSUME NEW n \in Nat
    PROVE  \E seen : IsSeen(seen, n)
  <1> USE DEF IsSeen
  <1> DEFINE P == {m \in Nat : \E seen : IsSeen(seen, m)}
  <1>1. 0 \in P
    <2> DEFINE k0 == [i \in 0 .. 0 |-> NoAws]
    <2>1. IsSeen(k0, 0)
      OBVIOUS
    <2> QED
      BY <2>1
  <1>2. ASSUME NEW m \in Nat, m \in P
        PROVE  m + 1 \in P
    <2>1. PICK seen : IsSeen(seen, m)
      BY <1>2
    <2> DEFINE e == AwsGroup(seen[m], Groups[m + 1])
               longer == [i \in 0 .. m + 1 |-> IF i = m + 1 THEN e ELSE seen[i]]
    <2>2. \A i \in 0 .. m : longer[i] = seen[i]
      OBVIOUS
    <2>3. \A i \in 0 .. m + 1 :
            longer[i] = IF i = 0 THEN NoAws ELSE AwsGroup(longer[i - 1], Groups[i])
      <3> TAKE i \in 0 .. m + 1
      <3>1. CASE i = m + 1
        <4>1. i # 0 /\ i - 1 = m /\ longer[i - 1] = seen[m]
          BY <3>1, <2>2
        <4> QED
          BY <3>1, <4>1
      <3>2. CASE i \in 0 .. m /\ i # 0
        <4>1. i - 1 \in 0 .. m
          BY <3>2
        <4>2. longer[i - 1] = seen[i - 1] /\ longer[i] = seen[i]
          BY <3>2, <4>1, <2>2
        <4>3. seen[i] = IF i = 0 THEN NoAws ELSE AwsGroup(seen[i - 1], Groups[i])
          BY <2>1, <3>2
        <4> QED
          BY <4>2, <4>3
      <3>3. CASE i = 0
        BY <2>1, <2>2, <3>3
      <3> QED
        BY <3>1, <3>2, <3>3
    <2>4. longer = [i \in 0 .. m + 1 |-> longer[i]]
      OBVIOUS
    <2> HIDE DEF longer
    <2>5. IsSeen(longer, m + 1)
      BY <2>3, <2>4
    <2> HIDE DEF IsSeen
    <2> QED
      BY <2>5
  <1> HIDE DEF P
  <1>3. Nat \subseteq P
    BY <1>1, <1>2, InductOn
  <1>4. n \in P
    BY <1>3
  <1> QED
    BY <1>4 DEF P

\* What get_aws_params has after n groups: nothing, if none of them has a pair, or
\* the pair of the first that has one.
FirstOf(i) == Having(Groups[i]) # {} /\ \A j \in 1 .. i - 1 : Having(Groups[j]) = {}

PairAfter(s, n) ==
    \/ (\A i \in 1 .. n : Having(Groups[i]) = {}) /\ NothingYet(s)
    \/ \E i \in 1 .. n : /\ FirstOf(i)
                          /\ \E pr \in Having(Groups[i]) :
                                s.pair = <<<<Groups[i], pr[1]>>, <<Groups[i], pr[2]>>>>

\* After all groups: the first group that has a pair gave it.
LEMMA AwsParamsRight ==
    ASSUME \A i \in DOMAIN Groups : ~HalfOld(Groups[i])
    PROVE  PairAfter(AwsParams, Len(Groups))
  <1> DEFINE s == CHOOSE seen : IsSeen(seen, Len(Groups))
  <1>1. AwsParams = s[Len(Groups)]
    BY DEF AwsParams, IsSeen, NoAws
  <1>2. IsSeen(s, Len(Groups))
    BY SeenExists, GroupsOK
  <1> HIDE DEF s
  <1> DEFINE P == {n \in Nat : n <= Len(Groups) => HasFields(s[n]) /\ PairAfter(s[n], n)}
  <1>3. 0 \in P
    <2>1. s[0] = NoAws
      BY <1>2, GroupsOK DEF IsSeen
    <2>2. HasFields(NoAws) /\ NothingYet(NoAws)
      BY DEF NoAws, HasFields, NothingYet
    <2> QED
      BY <2>1, <2>2 DEF PairAfter
  <1>4. ASSUME NEW n \in Nat, n \in P
        PROVE  n + 1 \in P
    <2> SUFFICES ASSUME n + 1 <= Len(Groups)
                 PROVE  HasFields(s[n + 1]) /\ PairAfter(s[n + 1], n + 1)
      OBVIOUS
    <2> DEFINE k == n + 1
               g == Groups[n + 1]
    <2>1. k \in 1 .. Len(Groups) /\ k \in 0 .. Len(Groups) /\ k # 0 /\ k - 1 = n /\ n <= Len(Groups)
          /\ k \in 1 .. k /\ 1 .. k = 1 .. n \cup {k}
      BY GroupsOK
    <2>2. HasFields(s[n]) /\ PairAfter(s[n], n)
      BY <1>4, <2>1
    <2>3. g = Groups[k]
      OBVIOUS
    <2> HIDE DEF k, g
    <2>4. s[k] = AwsGroup(s[n], g)
      <3>1. s[k] = IF k = 0 THEN NoAws ELSE AwsGroup(s[k - 1], Groups[k])
        BY <1>2, <2>1 DEF IsSeen
      <3> QED
        BY <2>1, <2>3, <3>1
    <2>5. CASE (\A i \in 1 .. n : Having(Groups[i]) = {}) /\ NothingYet(s[n])
      <3>1. CASE Having(g) = {}
        <4>1. ~HalfOld(g)
          BY <2>1, <2>3, GroupsOK
        <4>2. NothingYet(s[k]) /\ HasFields(s[k])
          BY <2>2, <2>4, <2>5, <3>1, <4>1, GroupWithout
        <4>3. \A i \in 1 .. k : Having(Groups[i]) = {}
          BY <2>1, <2>3, <2>5, <3>1
        <4> QED
          BY <4>2, <4>3 DEF PairAfter, k
      <3>2. CASE Having(g) # {}
        <4>1. /\ HasFields(s[k])
              /\ \E pr \in Having(g) : s[k].pair = <<<<g, pr[1]>>, <<g, pr[2]>>>>
          BY <2>2, <2>4, <2>5, <3>2, GroupWith
        <4>2. FirstOf(k)
          BY <2>1, <2>3, <2>5, <3>2 DEF FirstOf
        <4>3. PairAfter(s[k], k)
          BY <2>1, <2>3, <4>1, <4>2 DEF PairAfter
        <4> QED
          BY <4>1, <4>3 DEF k
      <3> QED
        BY <3>1, <3>2
    <2>6. CASE \E i \in 1 .. n : /\ FirstOf(i)
                                /\ \E pr \in Having(Groups[i]) :
                                     s[n].pair = <<<<Groups[i], pr[1]>>, <<Groups[i], pr[2]>>>>
      <3>1. PICK i \in 1 .. n : /\ FirstOf(i)
                               /\ \E pr \in Having(Groups[i]) :
                                     s[n].pair = <<<<Groups[i], pr[1]>>, <<Groups[i], pr[2]>>>>
        BY <2>6
      <3>2. PICK pr \in Having(Groups[i]) : s[n].pair = <<<<Groups[i], pr[1]>>, <<Groups[i], pr[2]>>>>
        BY <3>1
      <3>3. s[n].pair # <<Unset, Unset>>
        BY <3>2 DEF Unset
      <3>4. HasFields(s[k]) /\ s[k].pair = s[n].pair
        BY <2>2, <2>4, <3>3, GroupAfter
      <3>5. i \in 1 .. k
        BY <2>1, <3>1
      <3>6. PairAfter(s[k], k)
        BY <3>1, <3>4, <3>5 DEF PairAfter
      <3> QED
        BY <3>4, <3>6 DEF k
    <2> QED
      BY <2>2, <2>5, <2>6 DEF PairAfter
  <1>5. Len(Groups) \in P
    <2> HIDE DEF P
    <2>1. Nat \subseteq P
      BY <1>3, <1>4, InductOn
    <2> QED
      BY <2>1, GroupsOK
  <1> QED
    BY <1>1, <1>5, GroupsOK

\* The parameters are read once, and the configuration does not change.
LEMMA KeysPreserved == KeysInv /\ [Next]_vars => KeysInv'
  <1> SUFFICES ASSUME KeysInv, [Next]_vars PROVE KeysInv'
    OBVIOUS
  <1>1. CASE UNCHANGED keyState
    <2>1. AwsParams' = AwsParams
      BY <1>1 DEF keyState, AwsParams, AwsGroup, AwsKeys, Opt
    <2> QED
      BY <1>1, <2>1 DEF keyState, KeysInv
  <1>2. CASE ReadKeys
    <2>1. keys'.pair = AwsParams.pair
      BY <1>2 DEF ReadKeys
    <2>3. UNCHANGED conf
      BY <1>2 DEF ReadKeys
    <2>2. AwsParams' = AwsParams
      BY <2>3 DEF AwsParams, AwsGroup, AwsKeys, Opt
    <2> QED
      BY <2>1, <2>2 DEF KeysInv
  <1> QED
    BY <1>1, <1>2 DEF Next, vars

\* The keys that are sent come from one group of the configuration, the first
\* that has both, for any list of groups and any configuration: a secret of one
\* group is never combined with the access key of another.
THEOREM KeysOfOneGroup == Spec => []PairOfOneGroup
  <1>1. Init => KeysInv
    BY DEF Init, KeysInit, KeysInv
  <1>2. KeysInv => PairOfOneGroup
    <2> SUFFICES ASSUME KeysInv PROVE PairOfOneGroup
      OBVIOUS
    <2> DEFINE having(g) == {pr \in Pairs : {pr[1], pr[2]} \subseteq conf[g]}
               first == {i \in DOMAIN Groups :
                           having(Groups[i]) # {} /\ \A j \in 1..i - 1 : having(Groups[j]) = {}}
    <2> SUFFICES ASSUME keys # NoKeys, \A i \in DOMAIN Groups : ~HalfOld(Groups[i])
                 PROVE  \/ first = {} /\ keys.pair = <<Unset, Unset>>
                        \/ \E i \in first : \E pr \in having(Groups[i]) :
                             keys.pair = <<<<Groups[i], pr[1]>>, <<Groups[i], pr[2]>>>>
      BY DEF PairOfOneGroup
    <2>1. keys.pair = AwsParams.pair
      BY DEF KeysInv
    <2>2. PairAfter(AwsParams, Len(Groups))
      BY AwsParamsRight
    <2> HIDE DEF having
    <2>3. \A g : having(g) = Having(g)
      BY DEF having, Having
    <2>4. CASE (\A i \in 1 .. Len(Groups) : Having(Groups[i]) = {}) /\ NothingYet(AwsParams)
      BY <2>1, <2>3, <2>4, GroupsOK DEF NothingYet
    <2>5. ASSUME NEW i \in 1 .. Len(Groups), FirstOf(i), NEW pr \in Having(Groups[i]),
                 AwsParams.pair = <<<<Groups[i], pr[1]>>, <<Groups[i], pr[2]>>>>
          PROVE  \E k \in first : \E p \in having(Groups[k]) :
                             keys.pair = <<<<Groups[k], p[1]>>, <<Groups[k], p[2]>>>>
      <3>1. i \in first
        BY <2>3, <2>5, GroupsOK DEF FirstOf
      <3> QED
        BY <2>1, <2>3, <2>5, <3>1
    <2> QED
      BY <2>2, <2>4, <2>5 DEF PairAfter
  <1> QED
    BY <1>1, <1>2, KeysPreserved, PTL DEF Spec

-----------------------------------------------------------------------------
(* The tokens of the HTTP plugin                                           *)

\* The URLs from the k-th last one of the list on, and what contains them as
\* far as the recursion has got.
LastOnes(k) == {CredOrder[i] : i \in Len(CredOrder) - k + 1 .. Len(CredOrder)}

IsContaining(f, k) ==
    f = [n \in LastOnes(k) |-> {n} \cup (IF n = Root THEN {} ELSE f[Up[n]])]

\* What contains a URL is listed after it.
LEMMA UpListed ==
    ASSUME NEW k \in 0 .. Len(CredOrder), NEW n \in LastOnes(k), n # Root
    PROVE  /\ Up[n] \in LastOnes(k)
           /\ k > 0 /\ n = CredOrder[Len(CredOrder) - k + 1] => Up[n] \in LastOnes(k - 1)
  <1>1. Len(CredOrder) \in Nat /\ DOMAIN CredOrder = 1 .. Len(CredOrder)
    BY CredOrderOK
  <1>2. PICK i \in Len(CredOrder) - k + 1 .. Len(CredOrder) : n = CredOrder[i]
    BY DEF LastOnes
  <1>3. i \in 1 .. Len(CredOrder)
    BY <1>1, <1>2
  <1>4. PICK j \in i + 1 .. Len(CredOrder) : CredOrder[j] = Up[n]
    BY <1>1, <1>2, <1>3, CredOrderOK
  <1>5. j \in Len(CredOrder) - k + 1 .. Len(CredOrder)
    BY <1>1, <1>2, <1>4
  <1>6. Up[n] \in LastOnes(k)
    BY <1>4, <1>5 DEF LastOnes
  <1>7. ASSUME k > 0, n = CredOrder[Len(CredOrder) - k + 1]
        PROVE  Up[n] \in LastOnes(k - 1)
    <2> DEFINE h == Len(CredOrder) - k + 1
    <2>1. h \in 1 .. Len(CredOrder)
      BY <1>1, <1>7
    <2>2. PICK l \in h + 1 .. Len(CredOrder) : CredOrder[l] = Up[CredOrder[h]]
      BY <1>1, <1>7, <2>1, CredOrderOK
    <2>3. l \in Len(CredOrder) - (k - 1) + 1 .. Len(CredOrder)
      BY <1>1, <2>2
    <2> QED
      BY <1>7, <2>2, <2>3 DEF LastOnes
  <1> QED
    BY <1>6, <1>7

\* The recursion of Containing, one URL further up the list.
LEMMA ContainingGrows ==
    ASSUME NEW k \in Nat, k + 1 <= Len(CredOrder), NEW f, IsContaining(f, k)
    PROVE  \E g : IsContaining(g, k + 1)
  <1> DEFINE N == Len(CredOrder)
             new == CredOrder[N - k]
             D == LastOnes(k)
             g == [n \in LastOnes(k + 1) |->
                     IF n \in D THEN f[n]
                     ELSE {n} \cup (IF n = Root THEN {} ELSE f[Up[n]])]
  <1>1. N \in Nat /\ DOMAIN CredOrder = 1 .. N
    BY CredOrderOK
  <1>2. k \in 0 .. N /\ k + 1 \in 0 .. N /\ N - k \in 1 .. N
    BY <1>1
  <1>3. LastOnes(k + 1) = D \cup {new}
    <2>1. N - (k + 1) + 1 .. N = (N - k + 1 .. N) \cup {N - k}
      BY <1>1
    <2> QED
      BY <2>1 DEF LastOnes
  <1>5. ASSUME NEW n \in D, n # Root PROVE Up[n] \in D
    BY <1>2, <1>5, UpListed
  <1>6. ASSUME new # Root PROVE Up[new] \in D
    <2>1. new \in LastOnes(k + 1)
      BY <1>3
    <2>2. new = CredOrder[Len(CredOrder) - (k + 1) + 1] /\ k + 1 - 1 = k /\ k + 1 > 0
      BY <1>1
    <2> QED
      BY <1>2, <1>6, <2>1, <2>2, UpListed
  <1>7. \A n \in D : f[n] = {n} \cup (IF n = Root THEN {} ELSE f[Up[n]])
    BY DEF IsContaining
  <1> HIDE DEF D, new
  <1>9. \A n \in D : g[n] = f[n]
    BY <1>3
  <1>10. ASSUME NEW n \in LastOnes(k + 1)
         PROVE  g[n] = {n} \cup (IF n = Root THEN {} ELSE g[Up[n]])
    <2>1. CASE n \in D
      BY <1>5, <1>7, <1>9, <2>1
    <2>2. CASE n \notin D
      <3>1. n = new
        BY <1>3, <1>10, <2>2
      <3>2. g[n] = {n} \cup (IF n = Root THEN {} ELSE f[Up[n]])
        BY <1>10, <2>2
      <3> QED
        BY <1>6, <1>9, <3>1, <3>2
    <2> QED
      BY <2>1, <2>2
  <1>12. IsContaining(g, k + 1)
    <2>1. g = [n \in LastOnes(k + 1) |-> {n} \cup (IF n = Root THEN {} ELSE g[Up[n]])]
      <3>1. g = [n \in LastOnes(k + 1) |-> g[n]]
        OBVIOUS
      <3> HIDE DEF g
      <3> QED
        BY <1>10, <3>1
    <2> HIDE DEF g
    <2> QED
      BY <2>1 DEF IsContaining
  <1> QED
    BY <1>12

\* A URL contains itself, and what contains it is in the list.
LEMMA ContainingRight ==
    /\ \A n \in FiledUnder : n \in Containing[n]
    /\ \A n \in FiledUnder : Containing[n] \subseteq FiledUnder
  <1> DEFINE N == Len(CredOrder)
             P == {k \in Nat : k <= N => \E f : IsContaining(f, k)}
  <1>1. N \in Nat /\ DOMAIN CredOrder = 1 .. N
    BY CredOrderOK
  <1>2. 0 \in P
    <2>1. LastOnes(0) = {}
      BY <1>1 DEF LastOnes
    <2>2. IsContaining([n \in {} |-> {}], 0)
      BY <2>1 DEF IsContaining
    <2> QED
      BY <2>2
  <1>3. ASSUME NEW k \in Nat, k \in P PROVE k + 1 \in P
    <2> SUFFICES ASSUME k + 1 <= N PROVE \E f : IsContaining(f, k + 1)
      OBVIOUS
    <2>1. k <= N
      BY <1>1
    <2>2. PICK f : IsContaining(f, k)
      BY <1>3, <2>1
    <2> HIDE DEF P
    <2> QED
      BY <2>2, ContainingGrows
  <1> HIDE DEF P
  <1>4. N \in P
    BY <1>1, <1>2, <1>3, InductOn
  <1>5. PICK f : IsContaining(f, N)
    BY <1>1, <1>4 DEF P
  <1>6. LastOnes(N) = FiledUnder
    <2>1. N - N + 1 .. N = DOMAIN CredOrder
      BY <1>1
    <2> QED
      BY <2>1 DEF LastOnes, FiledUnder, Range
  <1>7. f = [n \in FiledUnder |-> {n} \cup (IF n = Root THEN {} ELSE f[Up[n]])]
    BY <1>5, <1>6 DEF IsContaining
  <1>8. Containing = [n \in FiledUnder |-> {n} \cup (IF n = Root THEN {} ELSE Containing[Up[n]])]
    BY <1>7 DEF Containing
  <1>9. \A n \in FiledUnder : n \in Containing[n]
    BY <1>8
  <1> DEFINE Q == {k \in Nat : k <= N => \A n \in LastOnes(k) : Containing[n] \subseteq FiledUnder}
  <1>10. 0 \in Q
    BY <1>1 DEF LastOnes
  <1>11. ASSUME NEW k \in Nat, k \in Q PROVE k + 1 \in Q
    <2> SUFFICES ASSUME k + 1 <= N, NEW n \in LastOnes(k + 1)
                 PROVE  Containing[n] \subseteq FiledUnder
      OBVIOUS
    <2>1. k <= N /\ k + 1 \in 0 .. N /\ N - (k + 1) + 1 = N - k /\ N - k \in 1 .. N
      BY <1>1
    <2>2. \A m \in LastOnes(k) : Containing[m] \subseteq FiledUnder
      BY <1>11, <2>1
    <2> HIDE DEF Q
    <2>3. CASE n \in LastOnes(k)
      BY <2>2, <2>3
    <2>4. CASE n \notin LastOnes(k)
      <3>1. n = CredOrder[N - (k + 1) + 1]
        <4>1. N - (k + 1) + 1 .. N = (N - k + 1 .. N) \cup {N - k}
          BY <1>1
        <4> QED
          BY <2>1, <2>4, <4>1 DEF LastOnes
      <3>2. n \in FiledUnder
        BY <1>1, <2>1, <3>1 DEF FiledUnder, Range
      <3>3. n # Root => Up[n] \in LastOnes(k)
        <4>1. k + 1 > 0 /\ k + 1 - 1 = k
          OBVIOUS
        <4> QED
          BY <2>1, <3>1, <4>1, UpListed
      <3>4. Containing[n] = {n} \cup (IF n = Root THEN {} ELSE Containing[Up[n]])
        BY <1>8, <3>2
      <3> QED
        BY <2>2, <3>2, <3>3, <3>4
    <2> QED
      BY <2>3, <2>4
  <1> HIDE DEF Q
  <1>12. N \in Q
    BY <1>1, <1>10, <1>11, InductOn
  <1>13. \A n \in FiledUnder : Containing[n] \subseteq FiledUnder
    BY <1>1, <1>6, <1>12 DEF Q
  <1> QED
    BY <1>9, <1>13

\* A token t that may go with a request for u
Usable(t, u, op) ==
    t.by = "server" =>
        /\ u \in Containing[t.at] \/ t.at \in Containing[u]
        /\ t.at \notin Containing[u] => op \in {"MKCOL", "HEAD"}
        /\ Writes(op) => {"UPLOAD", "DELETE"} \subseteq t.can

NoneSet(u) == \A n \in Containing[u] : creds[n].by # "user"

\* find_se_token finds a token that will do; if it finds none, the user set
\* none.
LEMMA FoundUsable ==
    ASSUME TokensFiled, setting.fallback \in {NoToken, UserToken}, NEW u \in FiledUnder, NEW op
    PROVE  /\ Usable(FindSeToken(u, op), u, op)
           /\ FindSeToken(u, op) = NoToken => NoneSet(u)
  <1> DEFINE suits(n) == creds[n] # NoToken /\ Fits(n, u, op) /\ Accepted(creds[n], op)
             I == {i \in 1 .. Len(CredOrder) : suits(CredOrder[i])}
             first == IF I # {} THEN Min(I) ELSE 0
  <1>1. Len(CredOrder) \in Nat /\ DOMAIN CredOrder = 1 .. Len(CredOrder)
    BY CredOrderOK
  <1>2. FindSeToken(u, op) = IF first = 0 THEN setting.fallback ELSE creds[CredOrder[first]]
    BY DEF FindSeToken, SelectInSeq
  <1> HIDE DEF suits
  <1>3. CASE I = {}
    <2>1. FindSeToken(u, op) = setting.fallback
      BY <1>2, <1>3
    <2>2. setting.fallback.by # "server"
      BY DEF NoToken, UserToken
    <2>3. ASSUME NEW n \in Containing[u], creds[n].by = "user"
          PROVE  FALSE
      <3>1. n \in FiledUnder
        BY <2>3, ContainingRight
      <3>2. PICK i \in 1 .. Len(CredOrder) : n = CredOrder[i]
        BY <1>1, <3>1 DEF FiledUnder, Range
      <3>3. creds[n] # NoToken
        BY <2>3 DEF NoToken
      <3>4. Accepted(creds[n], op)
        BY <2>3 DEF Accepted, TokensFiled, FiledRight
      <3>5. suits(n)
        BY <2>3, <3>3, <3>4 DEF suits, Fits
      <3> QED
        BY <1>3, <3>2, <3>5
    <2> QED
      BY <2>1, <2>2, <2>3 DEF Usable, NoneSet
  <1>4. CASE I # {}
    <2>1. Min(I) \in I
      BY <1>1, <1>4, FirstIn
    <2> DEFINE n == CredOrder[Min(I)]
    <2>2. FindSeToken(u, op) = creds[n]
      BY <1>1, <1>2, <1>4, <2>1
    <2>3. n \in FiledUnder
      BY <1>1, <2>1 DEF FiledUnder, Range
    <2>4. suits(n)
      BY <2>1
    <2> HIDE DEF n, I
    <2>5. creds[n] # NoToken /\ Fits(n, u, op) /\ Accepted(creds[n], op)
      BY <2>4 DEF suits
    <2>6. ASSUME creds[n].by = "server"
          PROVE  Usable(creds[n], u, op)
      <3>1. creds[n].at = n /\ creds[n] \in DOMAIN tokenMap
        BY <2>3, <2>6 DEF TokensFiled, FiledRight
      <3>2. n \in Containing[u] \/ (op \in {"MKCOL", "HEAD"} /\ u \in Containing[n])
        BY <2>5 DEF Fits, Searches
      <3>3. ASSUME Writes(op) PROVE {"UPLOAD", "DELETE"} \subseteq creds[n].can
        <4>1. tokenMap[creds[n]] = TRUE
          BY <2>5, <3>1, <3>3, Zenon DEF Accepted
        <4> QED
          BY <3>1, <4>1 DEF TokensFiled, FiledRight
      <3> QED
        BY <3>1, <3>2, <3>3 DEF Usable
    <2> QED
      BY <2>2, <2>5, <2>6 DEF Usable
  <1> QED
    BY <1>3, <1>4

\* What a call for the credentials of u leaves, and the token it gives
GoodOutcome(o, u, op) ==
    /\ FiledRight(o.creds, o.map)
    /\ \A n \in FiledUnder : o.creds[n].by = "user" => creds[n].by = "user"
    /\ Usable(o.token, u, op)

\* The parts of an outcome.
LEMMA OutcomeFields ==
    ASSUME NEW t, NEW c, NEW m
    PROVE  Outcome(t, c, m).token = t /\ Outcome(t, c, m).creds = c /\ Outcome(t, c, m).map = m
  BY DEF Outcome

\* Nothing is stored.
LEMMA OutcomeSame ==
    ASSUME TokensFiled, NEW t, NEW u, NEW op, Usable(t, u, op)
    PROVE  GoodOutcome(Outcome(t, creds, tokenMap), u, op)
  BY OutcomeFields DEF GoodOutcome, TokensFiled

\* To send no token is always possible.
LEMMA NoTokenUsable ==
    ASSUME NEW u, NEW op PROVE Usable(NoToken, u, op)
  BY DEF NoToken, Usable

\* Whether a token allows to write is what is put in the map.
LEMMA ActivitiesRight ==
    ASSUME NEW write \in BOOLEAN
    PROVE  write = TRUE => {"UPLOAD", "DELETE"} \subseteq Activities(write)
  BY DEF Activities

\* A token the plugin gets is filed under the URL it was got for.
LEMMA RetrievedRight ==
    ASSUME TokensFiled, NEW u \in FiledUnder, NEW op, NEW o \in RetrieveAndStore(u, op)
    PROVE  GoodOutcome(o, u, op)
  <1>1. Writes(op) \in BOOLEAN
    BY DEF Writes
  <1> DEFINE write == Writes(op)
             new == ServerToken(u, write)
             map == [s \in DOMAIN tokenMap \cup {new} |-> IF s = new THEN write ELSE tokenMap[s]]
             filed == [creds EXCEPT ![u] = new]
  <1>2. \/ o = Outcome(NoToken, creds, tokenMap)
        \/ o = Outcome(new, filed, map)
    <2>1. CASE ~MayRetrieve(op)
      BY <2>1 DEF RetrieveAndStore
    <2>2. CASE MayRetrieve(op)
      <3>1. PICK t \in Chain(MacaroonRetriever("none", u, write), MacaroonRetriever("storage", u, write)) :
              o = IF t = NoToken THEN Outcome(t, creds, tokenMap)
                  ELSE Outcome(t, [creds EXCEPT ![u] = t],
                               [s \in DOMAIN tokenMap \cup {t} |->
                                  IF s = t THEN write ELSE tokenMap[s]])
        BY <2>2 DEF RetrieveAndStore
      <3>2. t = NoToken \/ t = new
        BY <3>1 DEF Chain, MacaroonRetriever
      <3> QED
        BY <3>1, <3>2
    <2> QED
      BY <2>1, <2>2
  <1>3. CASE o = Outcome(NoToken, creds, tokenMap)
    BY <1>3, OutcomeSame, NoTokenUsable
  <1>4. CASE o = Outcome(new, filed, map)
    <2>1. o.token = new /\ o.creds = filed /\ o.map = map
      BY <1>4, OutcomeFields
    <2>2. new.by = "server" /\ new.at = u /\ new.can = Activities(write)
      BY DEF ServerToken
    <2>3. write = TRUE => {"UPLOAD", "DELETE"} \subseteq new.can
      BY <1>1, <2>2, ActivitiesRight
    <2> HIDE DEF new, write
    <2>4. DOMAIN filed = FiledUnder
      BY DEF TokensFiled, FiledRight
    <2>5. ASSUME NEW n \in FiledUnder, filed[n].by = "server"
          PROVE  filed[n].at = n /\ filed[n] \in DOMAIN map
      <3>1. CASE n = u
        BY <2>2, <3>1 DEF TokensFiled, FiledRight
      <3>2. CASE n # u
        <4>1. filed[n] = creds[n]
          BY <3>2 DEF TokensFiled, FiledRight
        <4> QED
          BY <2>5, <4>1 DEF TokensFiled, FiledRight
      <3> QED
        BY <3>1, <3>2
    <2>6. ASSUME NEW t \in DOMAIN map
          PROVE  t.by = "server" /\ map[t] \in BOOLEAN
                 /\ (map[t] = TRUE => {"UPLOAD", "DELETE"} \subseteq t.can)
      <3>1. CASE t = new
        <4>1. map[t] = write
          BY <3>1
        <4> QED
          BY <1>1, <2>2, <2>3, <3>1, <4>1 DEF write
      <3>2. CASE t # new
        <4>1. t \in DOMAIN tokenMap /\ map[t] = tokenMap[t]
          BY <2>6, <3>2
        <4> QED
          BY <4>1 DEF TokensFiled, FiledRight
      <3> QED
        BY <3>1, <3>2
    <2>7. FiledRight(filed, map)
      BY <2>4, <2>5, <2>6 DEF FiledRight
    <2>8. \A n \in FiledUnder : filed[n].by = "user" => creds[n].by = "user"
      <3> SUFFICES ASSUME NEW n \in FiledUnder, filed[n].by = "user" PROVE creds[n].by = "user"
        OBVIOUS
      <3>1. n # u
        BY <2>2 DEF TokensFiled, FiledRight
      <3> QED
        BY <3>1 DEF TokensFiled, FiledRight
    <2>9. Usable(new, u, op)
      BY <2>2, <2>3, ContainingRight DEF Usable, write
    <2> QED
      BY <2>1, <2>7, <2>8, <2>9 DEF GoodOutcome
  <1> QED
    BY <1>2, <1>3, <1>4

\* get_credentials: what it gives may be sent, and if it gives nothing the user
\* set nothing.
LEMMA CredentialsRight ==
    ASSUME TokensFiled, setting.fallback \in {NoToken, UserToken}, NEW u \in FiledUnder, NEW op,
           NEW o \in GetCredentials(u, op)
    PROVE  /\ GoodOutcome(o, u, op)
           /\ o.token = NoToken /\ setting.scheme \in {"https", "http"} => NoneSet(u)
  <1>1. CASE setting.scheme = "cloud"
    <2>1. o = Outcome(NoToken, creds, tokenMap)
      BY <1>1 DEF GetCredentials
    <2> QED
      BY <1>1, <2>1, OutcomeSame, NoTokenUsable
  <1>2. CASE setting.scheme = "cs3"
    <2>1. o = Outcome(setting.fallback, creds, tokenMap)
      BY <1>2 DEF GetCredentials, RevaToken
    <2>2. Usable(setting.fallback, u, op)
      BY DEF Usable, NoToken, UserToken
    <2> QED
      BY <1>2, <2>1, <2>2, OutcomeSame
  <1>3. CASE setting.scheme = "signed"
    <2>1. o \in GetToken(u, op)
      BY <1>3 DEF GetCredentials
    <2>2. o = Outcome(NoToken, creds, tokenMap)
      BY <1>3, <2>1 DEF GetToken
    <2> QED
      BY <1>3, <2>2, OutcomeSame, NoTokenUsable
  <1>4. CASE setting.scheme \notin {"cloud", "cs3", "signed"}
    <2>1. o \in GetToken(u, op)
      BY <1>4 DEF GetCredentials
    <2> DEFINE found == FindSeToken(u, op)
    <2>2. Usable(found, u, op) /\ (found = NoToken => NoneSet(u))
      BY FoundUsable
    <2>3. CASE found # NoToken
      <3>1. o = Outcome(found, creds, tokenMap)
        BY <1>4, <2>1, <2>3 DEF GetToken
      <3> QED
        BY <2>2, <2>3, <3>1, OutcomeSame, OutcomeFields
    <2>4. CASE found = NoToken
      <3>1. o \in RetrieveAndStore(u, op)
        BY <1>4, <2>1, <2>4 DEF GetToken
      <3> QED
        BY <2>2, <2>4, <3>1, RetrievedRight
    <2> QED
      BY <2>3, <2>4
  <1> QED
    BY <1>1, <1>2, <1>3, <1>4

\* What a menu may ask for
Allowed(c, p) == \E m \in HttpMenus : <<c, p>> \in m.calls

\* The URLs a call of the menu is about.
LEMMA AllowedPaths ==
    ASSUME NEW c, NEW p, Allowed(c, p)
    PROVE  /\ c \in {"stat", "access", "mkdir", "unlink", "rmdir", "rename", "opendir", "checksum",
                     "read", "write", "update", "classes", "qos", "transitions", "target",
                     "change", "push", "pull", "tape"}
           /\ p \in FiledUnder
           /\ c = "mkdir" => Reserved[p] \in FiledUnder
           /\ c = "rmdir" => Slash[p] \in FiledUnder
           /\ c = "rename" => BaseOf[p] \in FiledUnder
           /\ Tpc(c) => MovedTo(p) \in FiledUnder /\ MovedTo(p) # p
  <1>1. PICK m \in HttpMenus : <<c, p>> \in m.calls
    BY DEF Allowed
  <1> DEFINE e == <<c, p>>
  <1>2. e[1] = c /\ e[2] = p
    OBVIOUS
  <1> HIDE DEF e
  <1>3. e \in m.calls
    BY <1>1 DEF e
  <1>4. ASSUME Tpc(c) PROVE MovedTo(p) \in FiledUnder /\ MovedTo(p) # p
    <2>1. \E w \in Moves : w[1] = p
      BY <1>1, <1>2, <1>3, <1>4, HttpMenusOK
    <2>2. PICK w \in Moves : w[1] = p /\ MovedTo(p) = w[2]
      BY <2>1 DEF MovedTo
    <2> QED
      BY <2>2, HttpMenusOK
  <1> QED
    BY <1>1, <1>2, <1>3, <1>4, HttpMenusOK

\* A request of one operation on one URL
LEMMA RequestProper ==
    ASSUME NEW c, NEW p, NEW u \in FiledUnder, ~Tpc(c),
           NEW op \in {"HEAD", "MKCOL", "WRITE", "READ", "TAPE"},
           Changing(c, Request(op, u)) => Writes(op)
    PROVE  Request(op, u) \in ProperRequests(c, p)
  BY DEF Request, ProperRequests

\* Short sequences.
LEMMA OneOf ==
    ASSUME NEW S, NEW x \in S PROVE <<x>> \in Seq(S)
  OBVIOUS

\* The same, of two.
LEMMA TwoOf ==
    ASSUME NEW S, NEW x \in S, NEW y \in S PROVE <<x, y>> \in Seq(S)
  OBVIOUS

\* All requests of a call ask for what the call does.
LEMMA RequestsProper ==
    ASSUME NEW c, NEW p, Allowed(c, p)
    PROVE  RequestsOf(c, p) \in Seq(ProperRequests(c, p))
  <1> DEFINE R == ProperRequests(c, p)
  <1>1. p \in FiledUnder
    BY AllowedPaths
  <1>2. ASSUME ~Tpc(c), NEW op \in {"HEAD", "MKCOL", "WRITE", "READ", "TAPE"}, NEW u \in FiledUnder,
               Changing(c, Request(op, u)) => Writes(op)
        PROVE  Request(op, u) \in R
    BY <1>2, RequestProper
  <1>3. CASE c \in {"stat", "access"}
    <2>1. ~Tpc(c) /\ ~Changing(c, Request("HEAD", p))
      BY <1>3 DEF Tpc, Changing, Request
    <2>2. RequestsOf(c, p) = <<Request("HEAD", p)>>
      BY <1>3 DEF RequestsOf, HttpStat, HttpAccess
    <2>3. Request("HEAD", p) \in R
      BY <1>1, <1>2, <2>1
    <2> HIDE DEF R
    <2> QED
      BY <2>2, <2>3, OneOf DEF R
  <1>4. CASE c \in {"opendir", "checksum", "read", "update", "classes", "qos", "transitions",
                    "target", "change"}
    <2>1. ~Tpc(c) /\ ~Changing(c, Request("READ", p))
      BY <1>4 DEF Tpc, Changing, Request
    <2>2. RequestsOf(c, p) = <<Request("READ", p)>>
      BY <1>4 DEF RequestsOf, HttpOpendir, HttpChecksum, HttpFopen, QosClasses, QosOfFile,
                  QosTransitions, QosTarget, QosChange
    <2>3. Request("READ", p) \in R
      BY <1>1, <1>2, <2>1
    <2> HIDE DEF R
    <2> QED
      BY <2>2, <2>3, OneOf DEF R
  <1>5. CASE c \in {"unlink", "write"}
    <2>1. ~Tpc(c) /\ Writes("WRITE")
      BY <1>5 DEF Tpc, Writes
    <2>2. RequestsOf(c, p) = <<Request("WRITE", p)>>
      BY <1>5 DEF RequestsOf, HttpUnlink, HttpFopen
    <2>3. Request("WRITE", p) \in R
      BY <1>1, <1>2, <2>1
    <2> HIDE DEF R
    <2> QED
      BY <2>2, <2>3, OneOf DEF R
  <1>6. CASE c = "mkdir"
    <2>1. ~Tpc(c) /\ Writes("MKCOL")
      BY <1>6 DEF Tpc, Writes
    <2>2. RequestsOf(c, p) = <<Request("MKCOL", p)>>
      BY <1>6 DEF RequestsOf, HttpMkdirp
    <2>3. Request("MKCOL", p) \in R
      BY <1>1, <1>2, <2>1
    <2> HIDE DEF R
    <2> QED
      BY <2>2, <2>3, OneOf DEF R
  <1>7. CASE c = "rmdir"
    <2>1. ~Tpc(c) /\ Writes("WRITE") /\ ~Changing(c, Request("HEAD", p))
      BY <1>7 DEF Tpc, Writes, Changing, Request
    <2>2. RequestsOf(c, p) = <<Request("HEAD", p)>> \o <<Request("WRITE", Slash[p])>>
      BY <1>7 DEF RequestsOf, HttpRmdir, HttpStat
    <2>3. Request("HEAD", p) \in R
      BY <1>1, <1>2, <2>1
    <2>4. Request("WRITE", Slash[p]) \in R
      BY <1>2, <1>7, <2>1, AllowedPaths
    <2> HIDE DEF R
    <2>5. <<Request("HEAD", p)>> \in Seq(R) /\ <<Request("WRITE", Slash[p])>> \in Seq(R)
      BY <2>3, <2>4, OneOf
    <2> QED
      BY <2>2, <2>5, ConcatProperties DEF R
  <1>8. CASE c = "rename"
    <2> DEFINE u == IF setting.retrieves THEN BaseOf[p] ELSE p
    <2>1. ~Tpc(c) /\ Writes("WRITE")
      BY <1>8 DEF Tpc, Writes
    <2>2. RequestsOf(c, p) = <<Request("WRITE", u)>>
      BY <1>8 DEF RequestsOf, HttpRename
    <2>3. u \in FiledUnder
      BY <1>1, <1>8, AllowedPaths
    <2> HIDE DEF u
    <2>4. Request("WRITE", u) \in R
      BY <1>2, <2>1, <2>3
    <2> HIDE DEF R
    <2> QED
      BY <2>2, <2>4, OneOf DEF R
  <1>9. CASE c = "push"
    <2> DEFINE q == MovedTo(p)
    <2>1. q \in FiledUnder /\ q # p
      BY <1>9, AllowedPaths DEF Tpc
    <2>2. RequestsOf(c, p) = <<Request("READ", p), Request("WRITE_PASV", q)>>
      BY <1>9 DEF RequestsOf, TpcParams
    <2> HIDE DEF q
    <2>3. Request("READ", p) \in R
      BY <1>1, <1>9 DEF R, ProperRequests, Request, Changing, HeaderOf
    <2>4. Request("WRITE_PASV", q) \in R
      BY <1>9, <2>1 DEF R, ProperRequests, Request, Changing, HeaderOf, Writes
    <2> HIDE DEF R
    <2> QED
      BY <2>2, <2>3, <2>4, TwoOf DEF R
  <1>10. CASE c = "pull"
    <2> DEFINE q == MovedTo(p)
    <2>1. q \in FiledUnder /\ q # p
      BY <1>10, AllowedPaths DEF Tpc
    <2>2. RequestsOf(c, p) = <<Request("READ_PASV", p), Request("WRITE", q)>>
      BY <1>10 DEF RequestsOf, TpcParams
    <2>3. Request("READ_PASV", p) \in R
      BY <1>1, <1>10, <2>1 DEF R, ProperRequests, Request, Changing, HeaderOf
    <2>4. Request("WRITE", q) \in R
      BY <1>10, <2>1 DEF R, ProperRequests, Request, Changing, HeaderOf, Writes
    <2> HIDE DEF R
    <2> QED
      BY <2>2, <2>3, <2>4, TwoOf DEF R
  <1>11. CASE c = "tape"
    <2>1. ~Tpc(c) /\ ~Changing(c, Request("TAPE", Root))
      BY <1>11 DEF Tpc, Changing, Request
    <2>2. RequestsOf(c, p) = IF tape = -2 THEN <<Request("TAPE", Root)>> ELSE <<>>
      BY <1>11 DEF RequestsOf, TapeDiscovery
    <2>3. Request("TAPE", Root) \in R
      BY <1>2, <2>1, CredOrderOK
    <2> HIDE DEF R
    <2>4. <<>> \in Seq(R)
      OBVIOUS
    <2>5. <<Request("TAPE", Root)>> \in Seq(R)
      BY <2>3, OneOf
    <2> QED
      BY <2>2, <2>4, <2>5 DEF R
  <1> QED
    BY <1>3, <1>4, <1>5, <1>6, <1>7, <1>8, <1>9, <1>10, <1>11, AllowedPaths

\* Nothing is filed at first.
LEMMA HttpInitially == Init => HttpInv
  <1> SUFFICES ASSUME Init PROVE HttpInv
    OBVIOUS
  <1>1. TokensInit /\ HttpInit
    BY DEF Init
  <1>2. http = Quiet
    BY <1>1 DEF HttpInit
  <1>3. /\ http = [at |-> http.at, call |-> http.call, path |-> http.path,
                   requests |-> http.requests, sent |-> http.sent]
        /\ http.at = "idle" /\ http.sent = {} /\ http.requests = <<>>
    BY <1>2 DEF Quiet
  <1>4. ASSUME plugin = "http" PROVE HttpTypeOK
    <2>1. todo \in HttpMenus /\ setting \in Settings
      BY <1>1, <1>4 DEF HttpInit, TokensInit, PickFor
    <2>2. DOMAIN issued = {"by", "at", "can"}
      BY <1>1 DEF TokensInit, NoToken
    <2>3. <<>> \in Seq(ProperRequests(http.call, http.path))
      OBVIOUS
    <2> QED
      BY <1>3, <2>1, <2>2, <2>3, SettingsOK DEF HttpTypeOK
  <1>5. TokensFiled
    <2>1. \A n \in FiledUnder : creds[n].by # "server"
      BY <1>1 DEF TokensInit, NoToken
    <2>2. DOMAIN creds = FiledUnder /\ DOMAIN tokenMap = {}
      BY <1>1 DEF TokensInit
    <2> QED
      BY <2>1, <2>2 DEF TokensFiled, FiledRight
  <1>6. SentSuit
    BY <1>3 DEF SentSuit
  <1> QED
    BY <1>3, <1>4, <1>5, <1>6 DEF HttpInv

\* No call is running any more.
LEMMA QuietRight ==
    ASSUME HttpTypeOK, http' = Quiet, UNCHANGED <<todo, setting, issued>>
    PROVE  HttpTypeOK' /\ SentSuit'
  <1>1. /\ http' = [at |-> "idle", call |-> "none", path |-> Root, requests |-> <<>>, sent |-> {}]
    BY DEF Quiet
  <1>2. /\ http'.at = "idle" /\ http'.sent = {} /\ http'.requests = <<>>
        /\ http'.call = "none" /\ http'.path = Root
    BY <1>1
  <1>3. http' = [at |-> http'.at, call |-> http'.call, path |-> http'.path,
                requests |-> http'.requests, sent |-> http'.sent]
    BY <1>1, <1>2
  <1>4. <<>> \in Seq(ProperRequests(http.call, http.path))'
    OBVIOUS
  <1>5. todo' \in HttpMenus /\ setting'.fallback \in {NoToken, UserToken}
        /\ DOMAIN issued' = {"by", "at", "can"}
    BY DEF HttpTypeOK
  <1>6. http'.requests \in Seq(ProperRequests(http.call, http.path))'
    BY <1>2, <1>4
  <1>7. HttpTypeOK'
    BY <1>2, <1>3, <1>5, <1>6 DEF HttpTypeOK
  <1>8. SentSuit'
    BY <1>2 DEF SentSuit
  <1> QED
    BY <1>7, <1>8

\* Steps that leave the running call alone, when none is running
LEMMA IdleRight ==
    ASSUME HttpTypeOK, http.at = "idle", UNCHANGED <<todo, setting, http>>,
           DOMAIN issued' = {"by", "at", "can"}
    PROVE  HttpTypeOK' /\ SentSuit'
  <1>1. http.sent = {}
    BY DEF HttpTypeOK
  <1>2. SentSuit'
    BY <1>1 DEF SentSuit
  <1>3. HttpTypeOK'
    BY DEF HttpTypeOK, ProperRequests, Changing, Writes, Tpc, HeaderOf, MovedTo
  <1> QED
    BY <1>2, <1>3

\* A call that is running has its URLs from the menu.
LEMMA RunningAllowed ==
    ASSUME HttpTypeOK, http.at # "idle" PROVE Allowed(http.call, http.path)
  BY DEF HttpTypeOK, Allowed

\* Steps of other parts
LEMMA HttpAside ==
    ASSUME HttpInv, UNCHANGED <<plugin, httpState>> PROVE HttpInv'
  <1>1. UNCHANGED <<plugin, setting, creds, tokenMap, issued, todo, http>>
    BY DEF httpState, tokens, httpCalls
  <1> QED
    BY <1>1 DEF HttpInv, HttpTypeOK, TokensFiled, SentSuit, Suits

\* A call starts.
LEMMA CallKeeps ==
    ASSUME HttpTypeOK, TokensFiled, NEW c, NEW p, HttpCall(c, p)
    PROVE  HttpTypeOK' /\ TokensFiled' /\ SentSuit'
  <1> DEFINE reqs == RequestsOf(c, p)
             to == IF c \in {"mkdir", "rename"} /\ setting.retrieves THEN "reserve" ELSE "params"
  <1>1. <<c, p>> \in todo.calls /\ UNCHANGED <<setting, creds, tokenMap, issued, todo>>
    BY DEF HttpCall, tokens
  <1>2. TokensFiled'
    BY <1>1 DEF TokensFiled
  <1>3. CASE reqs = <<>>
    <2>1. http' = Quiet
      BY <1>3 DEF HttpCall
    <2> QED
      BY <1>1, <1>2, <2>1, QuietRight
  <1>4. CASE reqs # <<>>
    <2>1. http' = [at |-> to, call |-> c, path |-> p, requests |-> reqs, sent |-> {}]
      BY <1>4 DEF HttpCall
    <2>2. Allowed(c, p)
      BY <1>1 DEF HttpTypeOK, Allowed
    <2>3. reqs \in Seq(ProperRequests(c, p))
      BY <2>2, RequestsProper
    <2>4. to \in {"reserve", "params"}
      OBVIOUS
    <2> HIDE DEF reqs, to
    <2>5. /\ http'.at = to /\ http'.call = c /\ http'.path = p
          /\ http'.requests = reqs /\ http'.sent = {}
      BY <2>1
    <2>6. http' = [at |-> http'.at, call |-> http'.call, path |-> http'.path,
                  requests |-> http'.requests, sent |-> http'.sent]
      BY <2>1, <2>5
    <2>7. ProperRequests(http.call, http.path)' = ProperRequests(http'.call, http'.path)
      BY DEF ProperRequests
    <2>8. http'.requests \in Seq(ProperRequests(http.call, http.path)')
      BY <2>3, <2>5, <2>7
    <2>9. todo' \in HttpMenus /\ setting'.fallback \in {NoToken, UserToken}
          /\ DOMAIN issued' = {"by", "at", "can"} /\ <<http'.call, http'.path>> \in todo'.calls
      BY <1>1, <2>5 DEF HttpTypeOK
    <2>10. HttpTypeOK'
      BY <1>4, <2>4, <2>5, <2>6, <2>8, <2>9 DEF HttpTypeOK
    <2>11. SentSuit'
      BY <2>5 DEF SentSuit
    <2> QED
      BY <1>2, <2>10, <2>11
  <1> QED
    BY <1>3, <1>4

\* What was sent still suits if the user has set no token since.
LEMMA SuitsKept ==
    ASSUME NEW c, NEW t, NEW r \in ProperRequests(http.call, http.path), Suits(c, t, r), UNCHANGED setting,
           \A n \in FiledUnder : creds'[n].by = "user" => creds[n].by = "user"
    PROVE  Suits(c, t, r)'
  <1>1. r.url \in FiledUnder
    BY DEF ProperRequests
  <1>2. Containing[r.url] \subseteq FiledUnder
    BY <1>1, ContainingRight
  <1> QED
    BY <1>2 DEF Suits

\* The first step of mkdir and rename
LEMMA ReserveKeeps ==
    ASSUME HttpTypeOK, TokensFiled, SentSuit, Reserve
    PROVE  HttpTypeOK' /\ TokensFiled' /\ SentSuit'
  <1> DEFINE r == Head(http.requests)
             u == IF http.call = "mkdir" THEN Reserved[http.path] ELSE r.url
             R == ProperRequests(http.call, http.path)
  <1>1. http.at = "reserve" /\ http' = [http EXCEPT !.at = "params"]
        /\ UNCHANGED <<setting, issued, todo>>
    BY DEF Reserve
  <1>2. http.requests # <<>> /\ http.requests \in Seq(R)
    BY <1>1 DEF HttpTypeOK
  <1>3. r \in R
    BY <1>2
  <1>4. u \in FiledUnder
    <2>1. r.url \in FiledUnder
      BY <1>3 DEF ProperRequests
    <2>2. http.call = "mkdir" => Reserved[http.path] \in FiledUnder
      BY <1>1, RunningAllowed, AllowedPaths
    <2> QED
      BY <2>1, <2>2
  <1>5. \E o \in (IF FindSeToken(r.url, r.op) # NoToken
                  THEN {Outcome(NoToken, creds, tokenMap)} ELSE RetrieveAndStore(u, r.op)) :
            creds' = o.creds /\ tokenMap' = o.map
    BY DEF Reserve
  <1> HIDE DEF u, r
  <1>6. PICK o : GoodOutcome(o, u, r.op) /\ creds' = o.creds /\ tokenMap' = o.map
    <2>1. CASE FindSeToken(r.url, r.op) # NoToken
      BY <1>5, <2>1, OutcomeSame, NoTokenUsable
    <2>2. CASE FindSeToken(r.url, r.op) = NoToken
      <3>1. PICK o \in RetrieveAndStore(u, r.op) : creds' = o.creds /\ tokenMap' = o.map
        BY <1>5, <2>2
      <3>2. GoodOutcome(o, u, r.op)
        BY <1>4, <3>1, RetrievedRight
      <3> QED
        BY <3>1, <3>2
    <2> QED
      BY <2>1, <2>2
  <1>7. TokensFiled' /\ \A n \in FiledUnder : creds'[n].by = "user" => creds[n].by = "user"
    BY <1>6 DEF GoodOutcome, TokensFiled, FiledRight
  <1>8. http' = [at |-> "params", call |-> http.call, path |-> http.path,
                requests |-> http.requests, sent |-> http.sent]
    BY <1>1 DEF HttpTypeOK
  <1>9. /\ http'.at = "params" /\ http'.call = http.call /\ http'.path = http.path
        /\ http'.requests = http.requests /\ http'.sent = http.sent
    BY <1>8
  <1>10. http' = [at |-> http'.at, call |-> http'.call, path |-> http'.path,
                 requests |-> http'.requests, sent |-> http'.sent]
    BY <1>8, <1>9
  <1>11. ProperRequests(http.call, http.path)' = R
    BY <1>9 DEF ProperRequests
  <1>12. HttpTypeOK'
    <2>1. todo' \in HttpMenus /\ setting'.fallback \in {NoToken, UserToken}
          /\ DOMAIN issued' = {"by", "at", "can"} /\ <<http'.call, http'.path>> \in todo'.calls
      BY <1>1, <1>9 DEF HttpTypeOK
    <2>2. http'.requests \in Seq(ProperRequests(http.call, http.path)')
      BY <1>2, <1>9, <1>11
    <2> QED
      BY <1>2, <1>9, <1>10, <2>1, <2>2 DEF HttpTypeOK
  <1>13. ASSUME NEW s \in http'.sent
         PROVE  /\ s.header = HeaderOf(s.request.op)
                /\ s.request \in ProperRequests(http.call, http.path)'
                /\ Suits(http.call, s.token, s.request)'
    <2>1. s.header = HeaderOf(s.request.op) /\ s.request \in R /\ Suits(http.call, s.token, s.request)
      BY <1>9, <1>13 DEF SentSuit
    <2>2. Suits(http.call, s.token, s.request)'
      BY <1>1, <1>7, <2>1, SuitsKept
    <2> QED
      BY <1>9, <1>11, <2>1, <2>2
  <1> QED
    BY <1>7, <1>12, <1>13 DEF SentSuit

\* What is left of a list of requests.
LEMMA TailIsSeq ==
    ASSUME NEW S, NEW q \in Seq(S), q # <<>>
    PROVE  Tail(q) \in Seq(S) /\ Len(Tail(q)) = Len(q) - 1
  BY HeadTailProperties

\* get_params
LEMMA ParamsKeep ==
    ASSUME HttpTypeOK, TokensFiled, SentSuit, GetParams
    PROVE  HttpTypeOK' /\ TokensFiled' /\ SentSuit'
  <1> DEFINE r == Head(http.requests)
             R == ProperRequests(http.call, http.path)
             one(o) == [header |-> HeaderOf(r.op), request |-> r, token |-> o.token]
             both == Tpc(http.call) /\ Len(http.requests) = 2
             to == IF both THEN "params" ELSE "send"
             sent(o) == IF Tpc(http.call) THEN http.sent \cup {one(o)} ELSE {one(o)}
  <1>1. http.at = "params" /\ UNCHANGED <<setting, issued, todo>>
    BY DEF GetParams
  <1>2. http.requests # <<>> /\ http.requests \in Seq(R)
    BY <1>1 DEF HttpTypeOK
  <1>3. r \in R
    BY <1>2
  <1>4. r.url \in FiledUnder /\ (Changing(http.call, r) => Writes(r.op))
    BY <1>3 DEF ProperRequests
  <1>5. PICK o \in GetCredentials(r.url, r.op) :
            /\ creds' = o.creds /\ tokenMap' = o.map
            /\ http' = [http EXCEPT !.sent = sent(o), !.requests = Tail(@), !.at = to]
    BY DEF GetParams
  <1> HIDE DEF r
  <1>6. /\ GoodOutcome(o, r.url, r.op)
        /\ o.token = NoToken /\ setting.scheme \in {"https", "http"} => NoneSet(r.url)
    BY <1>4, <1>5, CredentialsRight DEF HttpTypeOK
  <1>7. TokensFiled' /\ \A n \in FiledUnder : creds'[n].by = "user" => creds[n].by = "user"
    BY <1>5, <1>6 DEF GoodOutcome, TokensFiled, FiledRight
  <1> HIDE DEF sent, to
  <1>8. http' = [at |-> to, call |-> http.call, path |-> http.path,
                requests |-> Tail(http.requests), sent |-> sent(o)]
    BY <1>5 DEF HttpTypeOK
  <1>9. /\ http'.at = to /\ http'.call = http.call /\ http'.path = http.path
        /\ http'.requests = Tail(http.requests) /\ http'.sent = sent(o)
    BY <1>8
  <1>10. http' = [at |-> http'.at, call |-> http'.call, path |-> http'.path,
                 requests |-> http'.requests, sent |-> http'.sent]
    BY <1>8, <1>9
  <1>11. ProperRequests(http.call, http.path)' = R
    BY <1>9 DEF ProperRequests
  <1>12. HttpTypeOK'
    <2>1. todo' \in HttpMenus /\ setting'.fallback \in {NoToken, UserToken}
          /\ DOMAIN issued' = {"by", "at", "can"} /\ <<http'.call, http'.path>> \in todo'.calls
      BY <1>1, <1>9 DEF HttpTypeOK
    <2>2. Tail(http.requests) \in Seq(R) /\ Len(Tail(http.requests)) = Len(http.requests) - 1
      <3> HIDE DEF R
      <3> QED
        BY <1>2, TailIsSeq
    <2>3. http'.requests \in Seq(ProperRequests(http.call, http.path)')
      BY <1>9, <1>11, <2>2
    <2>4. to = "params" => Tail(http.requests) # <<>>
      <3>1. ASSUME to = "params" PROVE Len(http.requests) = 2
        BY <3>1 DEF to
      <3>2. Len(<<>>) = 0
        OBVIOUS
      <3>3. ASSUME to = "params" PROVE Len(Tail(http.requests)) = 1
        BY <2>2, <3>1, <3>3
      <3>4. Tail(http.requests) = <<>> => Len(Tail(http.requests)) = Len(<<>>)
        BY Zenon
      <3>5. Tail(http.requests) = <<>> => Len(Tail(http.requests)) # 1
        <4> DEFINE n == Len(Tail(http.requests))
        <4> HIDE DEF n
        <4> QED
          BY <3>2, <3>4 DEF n
      <3> QED
        BY <3>3, <3>5, Zenon
    <2>5. to \in {"params", "send"}
      BY DEF to
    <2> QED
      BY <1>9, <1>10, <2>1, <2>3, <2>4, <2>5 DEF HttpTypeOK
  <1>13. ASSUME NEW s \in http'.sent
         PROVE  /\ s.header = HeaderOf(s.request.op)
                /\ s.request \in ProperRequests(http.call, http.path)'
                /\ Suits(http.call, s.token, s.request)'
    <2>1. s \in http.sent \/ s = one(o)
      BY <1>9, <1>13 DEF sent
    <2>2. CASE s \in http.sent
      <3>1. s.header = HeaderOf(s.request.op) /\ s.request \in R /\ Suits(http.call, s.token, s.request)
        BY <2>2 DEF SentSuit
      <3>2. Suits(http.call, s.token, s.request)'
        BY <1>1, <1>7, <1>9, <3>1, SuitsKept
      <3> QED
        BY <1>11, <3>1, <3>2
    <2>3. CASE s = one(o)
      <3>1. s.header = HeaderOf(r.op) /\ s.request = r /\ s.token = o.token
        BY <2>3
      <3>2. Usable(o.token, r.url, r.op)
        BY <1>6 DEF GoodOutcome
      <3>3. Suits(http.call, s.token, s.request) /\ s.request \in R
        BY <1>3, <1>4, <1>6, <3>1, <3>2 DEF Suits, Usable, NoneSet
      <3>4. Suits(http.call, s.token, s.request)'
        BY <1>1, <1>7, <1>9, <3>3, SuitsKept
      <3> QED
        BY <1>3, <1>11, <3>1, <3>4
    <2> QED
      BY <2>1, <2>2, <2>3
  <1> QED
    BY <1>7, <1>12, <1>13 DEF SentSuit

\* The stat of rmdir
LEMMA StatKeeps ==
    ASSUME HttpTypeOK, TokensFiled, SentSuit, StatOfRmdir
    PROVE  HttpTypeOK' /\ TokensFiled' /\ SentSuit'
  <1>1. /\ http.at = "send" /\ http.requests # <<>>
        /\ UNCHANGED <<setting, creds, tokenMap, issued, todo>>
        /\ http' = [http EXCEPT !.at = "params"] \/ http' = Quiet
    BY DEF StatOfRmdir, tokens
  <1>2. TokensFiled'
    BY <1>1 DEF TokensFiled
  <1>3. CASE http' = Quiet
    BY <1>1, <1>2, <1>3, QuietRight
  <1>4. CASE http' = [http EXCEPT !.at = "params"]
    <2>1. http' = [at |-> "params", call |-> http.call, path |-> http.path,
                  requests |-> http.requests, sent |-> http.sent]
      BY <1>4 DEF HttpTypeOK
    <2>2. /\ http'.at = "params" /\ http'.call = http.call /\ http'.path = http.path
          /\ http'.requests = http.requests /\ http'.sent = http.sent
      BY <2>1
    <2>3. http' = [at |-> http'.at, call |-> http'.call, path |-> http'.path,
                  requests |-> http'.requests, sent |-> http'.sent]
      BY <2>1, <2>2
    <2>4. ProperRequests(http.call, http.path)' = ProperRequests(http.call, http.path)
      BY <2>2 DEF ProperRequests
    <2>5. HttpTypeOK'
      <3>1. todo' \in HttpMenus /\ setting'.fallback \in {NoToken, UserToken}
            /\ DOMAIN issued' = {"by", "at", "can"} /\ <<http'.call, http'.path>> \in todo'.calls
        BY <1>1, <2>2 DEF HttpTypeOK
      <3>2. http'.requests \in Seq(ProperRequests(http.call, http.path)')
        BY <2>2, <2>4 DEF HttpTypeOK
      <3> QED
        BY <1>1, <2>2, <2>3, <3>1, <3>2 DEF HttpTypeOK
    <2>6. SentSuit'
      BY <1>1, <2>2, <2>4 DEF SentSuit, Suits
    <2> QED
      BY <1>2, <2>5, <2>6
  <1> QED
    BY <1>1, <1>3, <1>4

\* The user sets a token, gets one, or removes all.
LEMMA UserKeeps ==
    ASSUME HttpTypeOK, TokensFiled, UserStep
    PROVE  HttpTypeOK' /\ TokensFiled' /\ SentSuit'
  <1>1. http.at = "idle" /\ UNCHANGED <<todo, http>>
    BY DEF UserStep
  <1>2. ASSUME NEW n, SetCredential(n)
        PROVE  HttpTypeOK' /\ TokensFiled' /\ SentSuit'
    <2>1. PICK t \in {UserToken} \cup (IF issued = NoToken THEN {} ELSE {[issued EXCEPT !.by = "user"]}) :
            creds' = [creds EXCEPT ![n] = t]
      BY <1>2 DEF SetCredential
    <2>2. UNCHANGED <<setting, tokenMap, issued>>
      BY <1>2 DEF SetCredential
    <2>3. t.by = "user"
      <3>1. CASE t = UserToken
        BY <3>1 DEF UserToken
      <3>2. CASE t = [issued EXCEPT !.by = "user"]
        BY <3>2 DEF HttpTypeOK
      <3> QED
        BY <2>1, <3>1, <3>2
    <2>4. TokensFiled'
      BY <2>1, <2>2, <2>3 DEF TokensFiled, FiledRight
    <2>5. DOMAIN issued' = {"by", "at", "can"}
      BY <2>2 DEF HttpTypeOK
    <2> QED
      BY <1>1, <2>2, <2>4, <2>5, IdleRight
  <1>3. ASSUME NEW n, NEW issuer, NEW write, TokenRetrieve(n, issuer, write)
        PROVE  HttpTypeOK' /\ TokensFiled' /\ SentSuit'
    <2>1. issued' \in MacaroonRetriever(issuer, n, write)
                        \cup Chain(SciTokensRetriever(issuer), MacaroonRetriever(issuer, n, write))
      BY <1>3 DEF TokenRetrieve
    <2>2. \A t \in MacaroonRetriever(issuer, n, write) : DOMAIN t = {"by", "at", "can"}
      BY DEF MacaroonRetriever, NoToken, ServerToken
    <2>3. \A t \in SciTokensRetriever(issuer) : DOMAIN t = {"by", "at", "can"}
      BY DEF SciTokensRetriever, NoToken
    <2>4. DOMAIN issued' = {"by", "at", "can"}
      BY <2>1, <2>2, <2>3 DEF Chain
    <2>5. UNCHANGED <<setting, creds, tokenMap>>
      BY <1>3 DEF TokenRetrieve
    <2>6. TokensFiled'
      BY <2>5 DEF TokensFiled
    <2> QED
      BY <1>1, <2>4, <2>5, <2>6, IdleRight
  <1>4. ASSUME CleanCredentials
        PROVE  HttpTypeOK' /\ TokensFiled' /\ SentSuit'
    <2>1. UNCHANGED <<setting, tokenMap, issued>> /\ creds' = [n \in FiledUnder |-> NoToken]
      BY <1>4 DEF CleanCredentials
    <2>2. TokensFiled'
      BY <2>1 DEF TokensFiled, FiledRight, NoToken
    <2>3. DOMAIN issued' = {"by", "at", "can"}
      BY <2>1 DEF HttpTypeOK
    <2> QED
      BY <1>1, <2>1, <2>2, <2>3, IdleRight
  <1> QED
    BY <1>2, <1>3, <1>4 DEF UserStep

\* One step per action of the HTTP plugin.
LEMMA HttpPreserved == HttpInv /\ [Next]_vars => HttpInv'
  <1> SUFFICES ASSUME HttpInv, [Next]_vars PROVE HttpInv'
    OBVIOUS
  <1>1. CASE UNCHANGED <<plugin, httpState>>
    BY <1>1, HttpAside
  <1>2. CASE plugin = "http" /\ HttpNext /\ UNCHANGED plugin
    <2>1. HttpTypeOK /\ TokensFiled /\ SentSuit
      BY <1>2 DEF HttpInv
    <2>2. SUFFICES HttpTypeOK' /\ TokensFiled' /\ SentSuit'
      BY <1>2 DEF HttpInv
    <2>3. CASE \E m \in todo.calls : HttpCall(m[1], m[2])
      BY <2>1, <2>3, CallKeeps
    <2>4. CASE Reserve
      BY <2>1, <2>4, ReserveKeeps
    <2>5. CASE GetParams
      BY <2>1, <2>5, ParamsKeep
    <2>6. CASE StatOfRmdir
      BY <2>1, <2>6, StatKeeps
    <2>7. CASE Send
      <3>1. http' = Quiet /\ UNCHANGED <<todo, setting, creds, tokenMap, issued>>
        BY <2>7 DEF Send, tokens
      <3>2. TokensFiled'
        BY <2>1, <3>1 DEF TokensFiled
      <3> QED
        BY <2>1, <3>1, <3>2, QuietRight
    <2>8. CASE HttpFclose
      <3>1. http.at = "idle" /\ UNCHANGED <<todo, http, setting, creds, tokenMap, issued>>
        BY <2>8 DEF HttpFclose, tokens
      <3>2. TokensFiled' /\ DOMAIN issued' = {"by", "at", "can"}
        BY <2>1, <3>1 DEF TokensFiled, HttpTypeOK
      <3> QED
        BY <2>1, <3>1, <3>2, IdleRight
    <2>9. CASE UserStep
      BY <2>1, <2>9, UserKeeps
    <2>10. CASE \E p \in Contested["http"] : HttpMeddle(p)
      <3>1. UNCHANGED <<plugin, httpState>>
        BY <1>2, <2>10 DEF HttpMeddle, httpState
      <3> QED
        BY <1>2, <3>1, HttpAside DEF HttpInv
    <2> QED
      BY <1>2, <2>3, <2>4, <2>5, <2>6, <2>7, <2>8, <2>9, <2>10 DEF HttpNext
  <1> QED
    BY <1>1, <1>2 DEF Next, vars

\* A token that is sent fits its request, for any URLs, menus and settings: the
\* plugin never sends a token it got for something else or for less, never
\* swaps the two of a third-party copy, and never leaves out one that is set.
THEOREM TokensFit == Spec => []TokenFits
  <1>1. HttpInv => TokenFits
    <2> SUFFICES ASSUME HttpInv, http.at = "send", NEW s \in http.sent
                 PROVE  /\ s.token.by = "server" =>
                            /\ s.request.url \in Containing[s.token.at]
                                 \/ s.token.at \in Containing[s.request.url]
                            /\ s.token.at \notin Containing[s.request.url] =>
                                 s.request.op \in {"MKCOL", "HEAD"}
                            /\ Changing(http.call, s.request) =>
                                 {"UPLOAD", "DELETE"} \subseteq s.token.can
                        /\ Tpc(http.call) =>
                            (s.header = "Authorization" <=>
                                s.request.url = IF http.call = "push" THEN http.path
                                                ELSE MovedTo(http.path))
                        /\ s.token = NoToken /\ setting.scheme \in {"https", "http"} =>
                            \A n \in Containing[s.request.url] : creds[n].by # "user"
      BY DEF TokenFits
    <2>1. SentSuit
      BY DEF HttpInv
    <2>2. /\ s.header = HeaderOf(s.request.op)
          /\ s.request \in ProperRequests(http.call, http.path)
          /\ Suits(http.call, s.token, s.request)
      BY <2>1 DEF SentSuit
    <2> QED
      BY <2>2 DEF Suits, ProperRequests
  <1> QED
    BY <1>1, HttpInitially, HttpPreserved, PTL DEF Spec

-----------------------------------------------------------------------------
(* Directories and the cache of the SRM plugin                             *)

\* One name further of the list.
Extended(q, i, S) == IF Order[i] \in S THEN Append(q, Order[i]) ELSE q

IsUpto(f, n, S) ==
    f = [i \in 0 .. n |-> IF i = 0 THEN <<>> ELSE Extended(f[i - 1], i, S)]

\* The recursion of InOrder is defined.
LEMMA UptoExists ==
    ASSUME NEW S, NEW n \in Nat
    PROVE  \E f : IsUpto(f, n, S)
  <1> USE DEF IsUpto
  <1> DEFINE P == {m \in Nat : \E f : IsUpto(f, m, S)}
  <1>1. 0 \in P
    <2> DEFINE k0 == [i \in 0 .. 0 |-> <<>>]
    <2>1. IsUpto(k0, 0, S)
      OBVIOUS
    <2> QED
      BY <2>1
  <1>2. ASSUME NEW m \in Nat, m \in P
        PROVE  m + 1 \in P
    <2>1. PICK f : IsUpto(f, m, S)
      BY <1>2
    <2> DEFINE e == Extended(f[m], m + 1, S)
               longer == [i \in 0 .. m + 1 |-> IF i = m + 1 THEN e ELSE f[i]]
    <2>2. \A i \in 0 .. m : longer[i] = f[i]
      OBVIOUS
    <2>3. \A i \in 0 .. m + 1 :
            longer[i] = IF i = 0 THEN <<>> ELSE Extended(longer[i - 1], i, S)
      <3> TAKE i \in 0 .. m + 1
      <3>1. CASE i = m + 1
        <4>1. i # 0 /\ i - 1 = m /\ longer[i - 1] = f[m]
          BY <3>1, <2>2
        <4> QED
          BY <3>1, <4>1
      <3>2. CASE i \in 0 .. m /\ i # 0
        <4>1. i - 1 \in 0 .. m
          BY <3>2
        <4>2. longer[i - 1] = f[i - 1] /\ longer[i] = f[i]
          BY <3>2, <4>1, <2>2
        <4>3. f[i] = IF i = 0 THEN <<>> ELSE Extended(f[i - 1], i, S)
          BY <2>1, <3>2
        <4> QED
          BY <4>2, <4>3
      <3>3. CASE i = 0
        BY <2>1, <2>2, <3>3
      <3> QED
        BY <3>1, <3>2, <3>3
    <2>4. longer = [i \in 0 .. m + 1 |-> longer[i]]
      OBVIOUS
    <2> HIDE DEF longer
    <2>5. IsUpto(longer, m + 1, S)
      BY <2>3, <2>4
    <2> HIDE DEF IsUpto
    <2> QED
      BY <2>5
  <1> HIDE DEF P
  <1>3. Nat \subseteq P
    BY <1>1, <1>2, InductOn
  <1>4. n \in P
    BY <1>3
  <1> QED
    BY <1>4 DEF P

\* What is listed are names of the set.
LEMMA InOrderSeq ==
    ASSUME NEW S
    PROVE  InOrder(S) \in Seq(S \cap Names)
  <1> DEFINE N == Len(Order)
             f == CHOOSE g : IsUpto(g, N, S)
             T == S \cap Names
             P == {n \in Nat : n <= N => f[n] \in Seq(T)}
  <1>1. N \in Nat /\ DOMAIN Order = 1 .. N
    BY SrmNamesAssumption
  <1>2. IsUpto(f, N, S)
    BY <1>1, UptoExists
  <1>3. InOrder(S) = f[N]
    BY DEF InOrder, IsUpto, Extended
  <1> HIDE DEF f, T
  <1>4. f[0] = <<>> /\ \A n \in 1 .. N : f[n] = Extended(f[n - 1], n, S)
    BY <1>1, <1>2 DEF IsUpto
  <1>5. 0 \in P
    <2>1. <<>> \in Seq(T)
      OBVIOUS
    <2> QED
      BY <1>4, <2>1
  <1>6. ASSUME NEW n \in Nat, n \in P PROVE n + 1 \in P
    <2> SUFFICES ASSUME n + 1 <= N PROVE f[n + 1] \in Seq(T)
      OBVIOUS
    <2>1. f[n] \in Seq(T)
      BY <1>1, <1>6
    <2>2. n + 1 \in 1 .. N /\ n + 1 - 1 = n
      BY <1>1
    <2>3. f[n + 1] = Extended(f[n], n + 1, S)
      BY <1>4, <2>2
    <2>4. CASE Order[n + 1] \in S
      <3>1. Order[n + 1] \in T
        BY <1>1, <2>2, <2>4 DEF T, Names
      <3>2. f[n + 1] = Append(f[n], Order[n + 1])
        BY <2>3, <2>4 DEF Extended
      <3> QED
        BY <2>1, <3>1, <3>2
    <2>5. CASE Order[n + 1] \notin S
      BY <2>1, <2>3, <2>5 DEF Extended
    <2> QED
      BY <2>4, <2>5
  <1> HIDE DEF P
  <1>7. N \in P
    BY <1>1, <1>5, <1>6, InductOn
  <1> QED
    BY <1>1, <1>3, <1>7 DEF P, T

\* srm_ls of a directory: its names, each with what it is.
LEMMA EntriesRight ==
    ASSUME tree \in [Paths -> Kinds], NEW p
    PROVE  /\ Entries(p) \in Seq(PageEntries)
           /\ InOrder(Content(p)) \in Seq(Names)
           /\ Len(Entries(p)) = Len(InOrder(Content(p)))
           /\ \A i \in 1 .. Len(Entries(p)) : Entries(p)[i].path = InOrder(Content(p))[i]
  <1> DEFINE there == InOrder(Content(p))
             T == Content(p) \cap Names
  <1>1. there \in Seq(T)
    BY InOrderSeq
  <1>2. ASSUME NEW q \in T PROVE q \in Names /\ tree[q] \in Kinds \ {"absent"}
    <2>1. q \in Paths /\ Exists(q) /\ q # Root
      BY <1>2, SrmNamesAssumption DEF Content
    <2> QED
      BY <1>2, <2>1 DEF Exists
  <1>3. Entries(p) = [i \in DOMAIN there |-> [path |-> there[i], kind |-> tree[there[i]]]]
    BY DEF Entries
  <1> HIDE DEF there, T
  <1>4. DOMAIN there = 1 .. Len(there) /\ Len(there) \in Nat /\ \A i \in 1 .. Len(there) : there[i] \in T
    BY <1>1
  <1>5. ASSUME NEW i \in 1 .. Len(there)
        PROVE  [path |-> there[i], kind |-> tree[there[i]]] \in PageEntries
    BY <1>2, <1>4, <1>5 DEF PageEntries
  <1>6. Entries(p) \in [1 .. Len(there) -> PageEntries]
    BY <1>3, <1>4, <1>5
  <1>7. Entries(p) \in Seq(PageEntries) /\ Len(Entries(p)) = Len(there)
    BY <1>4, <1>6
  <1>8. there \in Seq(Names)
    BY <1>1, <1>2, <1>4
  <1>9. \A i \in 1 .. Len(there) : Entries(p)[i].path = there[i]
    BY <1>3, <1>4
  <1> QED
    BY <1>7, <1>8, <1>9 DEF there

\* The sequence part is q from the place after m up to n.
IsPart(part, q, m, n) ==
    /\ Len(part) = IF n > m THEN n - m ELSE 0
    /\ \A i \in 1 .. Len(part) : part[i] = q[m + i]

\* What SubSeq gives.
LEMMA PartFrom ==
    ASSUME NEW S, NEW q \in Seq(S), NEW m \in Nat, NEW n \in Nat, n <= Len(q), NEW j, j = m + 1
    PROVE  SubSeq(q, j, n) \in Seq(S) /\ IsPart(SubSeq(q, j, n), q, m, n)
  <1>1. \A i \in j .. n : q[i] \in S
    OBVIOUS
  <1>2. /\ SubSeq(q, j, n) \in Seq(S)
        /\ Len(SubSeq(q, j, n)) = IF j <= n THEN n - j + 1 ELSE 0
        /\ \A i \in 1 .. n - j + 1 : SubSeq(q, j, n)[i] = q[j + i - 1]
    BY <1>1, SubSeqProperties
  <1>3. \A i \in 1 .. n - m : j + i - 1 = m + i
    OBVIOUS
  <1> QED
    BY <1>2, <1>3 DEF IsPart

\* The same, from the place after m.
LEMMA PartOf ==
    ASSUME NEW S, NEW q \in Seq(S), NEW m \in Nat, NEW n \in Nat, n <= Len(q)
    PROVE  SubSeq(q, m + 1, n) \in Seq(S) /\ IsPart(SubSeq(q, m + 1, n), q, m, n)
  <1> DEFINE j == m + 1
  <1>1. j = m + 1
    OBVIOUS
  <1> HIDE DEF j
  <1>2. SubSeq(q, j, n) \in Seq(S) /\ IsPart(SubSeq(q, j, n), q, m, n)
    BY <1>1, PartFrom
  <1> QED
    BY <1>2 DEF j

\* The same, from the start.
LEMMA FirstPart ==
    ASSUME NEW S, NEW q \in Seq(S), NEW n \in Nat, n <= Len(q)
    PROVE  SubSeq(q, 1, n) \in Seq(S) /\ IsPart(SubSeq(q, 1, n), q, 0, n)
  <1> DEFINE j == 1
             m == 0
  <1>1. j = m + 1 /\ m \in Nat
    OBVIOUS
  <1> HIDE DEF j, m
  <1>2. SubSeq(q, j, n) \in Seq(S) /\ IsPart(SubSeq(q, j, n), q, m, n)
    BY <1>1, PartFrom
  <1> QED
    BY <1>2 DEF j, m

\* A page is the part of the directory it was asked for.
IsPage(page, l, all) ==
    LET left == IF Len(all) > l.offset THEN Len(all) - l.offset ELSE 0
    IN  /\ Len(page) = IF l.chunked /\ l.chunk < left THEN l.chunk ELSE left
        /\ \A i \in 1 .. Len(page) : page[i].path = all[l.offset + i]

\* What a server answers to readdir: that part, if it answers.
LEMMA PageRight ==
    ASSUME tree \in [Paths -> Kinds], NEW l, l.offset \in Nat, l.chunk \in Nat,
           NEW a \in Pages(l)
    PROVE  /\ a.page \in Seq(PageEntries)
           /\ a.code = "OK" => IsPage(a.page, l, InOrder(Content(l.path)))
  <1> DEFINE all == Entries(l.path)
             names == InOrder(Content(l.path))
             rest == SubSeq(all, l.offset + 1, Len(all))
             page == IF l.chunked THEN SubSeq(rest, 1, Min({l.chunk, Len(rest)})) ELSE rest
             left == IF Len(names) > l.offset THEN Len(names) - l.offset ELSE 0
  <1>1. \/ a.code = "ECOMM" /\ a.page = <<>>
        \/ a.page = PageOf(l)
    BY DEF Pages
  <1>p. PageOf(l) = page
    BY DEF PageOf
  <1>2. all \in Seq(PageEntries) /\ names \in Seq(Names) /\ Len(all) = Len(names)
        /\ \A i \in 1 .. Len(all) : all[i].path = names[i]
    BY EntriesRight
  <1> HIDE DEF all, names
  <1>n. Len(all) \in Nat
    BY <1>2
  <1>3. rest \in Seq(PageEntries) /\ IsPart(rest, all, l.offset, Len(all))
    <2> DEFINE m == l.offset
               n == Len(all)
               part == SubSeq(all, m + 1, n)
    <2>1. m \in Nat /\ n \in Nat /\ n <= Len(all) /\ rest = part
      BY <1>n
    <2> HIDE DEF m, n, rest
    <2>2. part \in Seq(PageEntries) /\ IsPart(part, all, m, n)
      BY <1>2, <2>1, PartOf
    <2> QED
      BY <2>1, <2>2 DEF m, n
  <1> HIDE DEF rest
  <1>4. left \in Nat /\ \A i \in 1 .. left : l.offset + i \in 1 .. Len(all)
    BY <1>2, <1>n
  <1>5. Len(rest) = left /\ \A i \in 1 .. left : rest[i].path = names[l.offset + i]
    <2>1. Len(rest) = left
      BY <1>2, <1>3 DEF IsPart
    <2>2. ASSUME NEW i \in 1 .. left PROVE rest[i].path = names[l.offset + i]
      <3> DEFINE k == l.offset + i
      <3>1. k \in 1 .. Len(all)
        BY <1>4, <2>2
      <3>2. rest[i] = all[k]
        BY <1>3, <2>1, <2>2 DEF IsPart
      <3> HIDE DEF k
      <3>3. all[k].path = names[k]
        BY <1>2, <3>1
      <3> QED
        BY <3>2, <3>3 DEF k
    <2> QED
      BY <2>1, <2>2
  <1> HIDE DEF left
  <1>6. /\ page \in Seq(PageEntries)
        /\ Len(page) = IF l.chunked /\ l.chunk < left THEN l.chunk ELSE left
        /\ \A i \in 1 .. Len(page) : page[i].path = names[l.offset + i]
    <2>1. CASE l.chunked
      <3> DEFINE k == Min({l.chunk, Len(rest)})
                 part == SubSeq(rest, 1, k)
      <3>1. k = IF l.chunk <= left THEN l.chunk ELSE left
        BY <1>4, <1>5, Extremes
      <3>3. page = part
        BY <2>1
      <3> HIDE DEF k, page
      <3>4. k \in Nat /\ k <= Len(rest) /\ k <= left
        BY <1>4, <1>5, <3>1
      <3>5. part \in Seq(PageEntries) /\ IsPart(part, rest, 0, k)
        BY <1>3, <3>4, FirstPart
      <3> HIDE DEF part
      <3>6. Len(part) = k /\ \A i \in 1 .. k : part[i] = rest[i]
        BY <3>4, <3>5 DEF IsPart
      <3>7. \A i \in 1 .. k : i \in 1 .. left
        BY <1>4, <3>4
      <3>8. \A i \in 1 .. k : part[i].path = names[l.offset + i]
        BY <1>5, <3>6, <3>7
      <3>9. k = IF l.chunked /\ l.chunk < left THEN l.chunk ELSE left
        BY <1>4, <2>1, <3>1
      <3> QED
        BY <3>3, <3>5, <3>6, <3>8, <3>9
    <2>2. CASE ~l.chunked
      BY <1>3, <1>5, <2>2
    <2> QED
      BY <2>1, <2>2
  <1>7. <<>> \in Seq(PageEntries)
    OBVIOUS
  <1> HIDE DEF page
  <1>8. IsPage(page, l, names)
    BY <1>6 DEF IsPage, left
  <1> QED
    BY <1>1, <1>p, <1>6, <1>7, <1>8 DEF names

\* Only the fields of a directory that readdir changes differ.
SameDirectory(l, m) ==
    /\ ListingTypeOK(m) /\ m.open = l.open /\ m.path = l.path

\* readdir at the end of a page
LEMMA EndRight ==
    ASSUME NEW l, ListingTypeOK(l), l.index >= Len(l.page)
    PROVE  /\ SameDirectory(l, [l EXCEPT !.ended = TRUE])
           /\ \A all : l.loaded /\ InStep(l, all) => InStep([l EXCEPT !.ended = TRUE], all)
  <1> DEFINE m == [l EXCEPT !.ended = TRUE]
  <1>1. /\ DOMAIN m = DOMAIN l /\ m.open = l.open /\ m.path = l.path /\ m.offset = l.offset
        /\ m.chunk = l.chunk /\ m.index = l.index /\ m.start = l.start /\ m.page = l.page
        /\ m.given = l.given
    BY DEF ListingTypeOK
  <1>2. m.chunked = l.chunked /\ m.loaded = l.loaded
    BY DEF ListingTypeOK
  <1> HIDE DEF m
  <1>3. SameDirectory(l, m)
    BY <1>1 DEF SameDirectory, ListingTypeOK
  <1>4. ASSUME NEW all, l.loaded, InStep(l, all) PROVE InStep(m, all)
    <2>1. Slice(l, all) /\ GivenSoFar(l, all)
      BY <1>4 DEF InStep
    <2>2. Len(l.page) \in Nat /\ l.index \in Nat
      BY DEF ListingTypeOK
    <2>3. l.index = Len(l.page)
      BY <2>1, <2>2 DEF Slice
    <2>4. Slice(m, all)
      BY <1>1, <1>2, <2>1 DEF Slice
    <2>5. GivenSoFar(m, all)
      BY <1>1, <1>2, <2>1 DEF GivenSoFar
    <2> QED
      BY <1>1, <1>2, <1>4, <2>3, <2>4, <2>5 DEF InStep
  <1> QED
    BY <1>3, <1>4 DEF m

\* readdir of an entry
Advanced(l) == [l EXCEPT !.index = @ + 1, !.given = Append(@, l.page[l.index + 1].path)]
Turned(l) == [l EXCEPT !.offset = @ + l.chunk, !.loaded = FALSE, !.page = <<>>]

\* An entry of a page is given, and the place in the page moves on.
LEMMA EntryRight ==
    ASSUME NEW l, ListingTypeOK(l), ~(l.index >= Len(l.page))
    PROVE  /\ l.page[l.index + 1] \in PageEntries
           /\ SameDirectory(l, Advanced(l))
           /\ Advanced(l).chunk = l.chunk
           /\ \A all : l.loaded /\ InStep(l, all) =>
                /\ (l.chunked /\ l.index + 1 >= l.chunk) \/ InStep(Advanced(l), all)
                /\ GivenSoFar(Advanced(l), all)
  <1> DEFINE m == Advanced(l)
             e == l.page[l.index + 1]
  <1>0. Len(l.page) \in Nat /\ l.index \in Nat /\ l.page \in Seq(PageEntries)
    BY DEF ListingTypeOK
  <1>1. e \in PageEntries
    BY <1>0
  <1>2. e.path \in Names
    BY <1>1 DEF PageEntries
  <1>3. /\ DOMAIN m = DOMAIN l /\ m.open = l.open /\ m.path = l.path /\ m.offset = l.offset
        /\ m.chunk = l.chunk /\ m.start = l.start /\ m.page = l.page
        /\ m.chunked = l.chunked /\ m.loaded = l.loaded /\ m.ended = l.ended
    BY DEF ListingTypeOK, Advanced
  <1>4. m.index = l.index + 1 /\ m.given = Append(l.given, e.path)
    BY DEF ListingTypeOK, Advanced
  <1> HIDE DEF m, e
  <1>5. m.given \in Seq(Names) /\ m.index \in Nat /\ Len(m.given) = Len(l.given) + 1
        /\ m.given[Len(l.given) + 1] = e.path
        /\ \A i \in 1 .. Len(l.given) : m.given[i] = l.given[i]
    BY <1>2, <1>4 DEF ListingTypeOK
  <1>6. SameDirectory(l, m)
    BY <1>3, <1>5 DEF SameDirectory, ListingTypeOK
  <1>7. ASSUME NEW all, l.loaded, InStep(l, all)
        PROVE  GivenSoFar(m, all) /\ ((l.chunked /\ l.index + 1 >= l.chunk) \/ InStep(m, all))
    <2>1. Slice(l, all) /\ GivenSoFar(l, all)
      BY <1>7 DEF InStep
    <2>3. l.offset \in Nat /\ l.start \in Nat /\ l.index \in Nat /\ l.chunk \in Nat /\ Len(l.given) \in Nat
      BY DEF ListingTypeOK
    <2>2. /\ Len(l.given) = (l.offset + l.index) - l.start
          /\ \A i \in 1 .. Len(l.given) : l.given[i] = all[l.start + i]
      BY <1>7, <2>1, <2>3 DEF GivenSoFar
    <2>4. e.path = all[l.offset + (l.index + 1)]
      <3>1. l.index + 1 \in 1 .. Len(l.page)
        BY <1>0
      <3> QED
        BY <2>1, <3>1 DEF Slice, e
    <2>5. l.start + (Len(l.given) + 1) = l.offset + (l.index + 1)
      BY <2>2, <2>3, SMTT(30)
    <2>6. \A i \in 1 .. Len(l.given) + 1 : m.given[i] = all[l.start + i]
      <3> TAKE i \in 1 .. Len(l.given) + 1
      <3>1. CASE i = Len(l.given) + 1
        BY <1>5, <2>4, <2>5, <3>1
      <3>2. CASE i \in 1 .. Len(l.given)
        BY <1>5, <2>2, <3>2
      <3> QED
        BY <2>3, <3>1, <3>2
    <2>7. Len(m.given) = (m.offset + m.index) - m.start
      BY <1>3, <1>4, <1>5, <2>2, <2>3
    <2>8. GivenSoFar(m, all)
      BY <1>3, <1>5, <1>7, <2>6, <2>7 DEF GivenSoFar
    <2>9. ASSUME ~(l.chunked /\ l.index + 1 >= l.chunk) PROVE InStep(m, all)
      <3>1. l.chunked => l.index + 1 < l.chunk
        BY <2>3, <2>9
      <3>2. Slice(m, all)
        BY <1>0, <1>3, <1>4, <2>1, <3>1 DEF Slice
      <3>3. ~l.ended
        BY <1>0, <1>7 DEF InStep
      <3> QED
        BY <1>3, <1>7, <2>8, <3>2, <3>3 DEF InStep
    <2> QED
      BY <2>8, <2>9
  <1> QED
    BY <1>1, <1>3, <1>6, <1>7 DEF m, e

\* The page was used up.
LEMMA TurnRight ==
    ASSUME NEW l, ListingTypeOK(l), PastChunk(l)
    PROVE  /\ SameDirectory(l, Turned(l))
           /\ \A all : /\ GivenSoFar(l, all) /\ l.loaded /\ ~l.ended
                       /\ l.chunk >= 1 /\ l.index = l.chunk /\ l.start <= l.offset
                       /\ l.offset + l.chunk <= Len(all)
                       => InStep(Turned(l), all)
  <1> DEFINE m == Turned(l)
  <1>1. /\ DOMAIN m = DOMAIN l /\ m.open = l.open /\ m.path = l.path
        /\ m.chunk = l.chunk /\ m.start = l.start /\ m.index = l.index /\ m.given = l.given
        /\ m.chunked = l.chunked /\ m.ended = l.ended
    BY DEF ListingTypeOK, Turned
  <1>2. m.offset = l.offset + l.chunk /\ m.page = <<>>
    BY DEF ListingTypeOK, Turned
  <1>3. m.loaded = FALSE
    BY DEF ListingTypeOK, Turned
  <1> HIDE DEF m
  <1>4. <<>> \in Seq(PageEntries)
    OBVIOUS
  <1>5. m.offset \in Nat /\ m.page \in Seq(PageEntries)
    BY <1>2, <1>4 DEF ListingTypeOK
  <1>6. SameDirectory(l, m)
    BY <1>1, <1>5 DEF SameDirectory, ListingTypeOK
  <1>7. ASSUME NEW all, GivenSoFar(l, all), l.loaded, ~l.ended, l.chunk >= 1, l.index = l.chunk,
               l.start <= l.offset, l.offset + l.chunk <= Len(all)
        PROVE  InStep(m, all)
    <2>1. l.offset \in Nat /\ l.start \in Nat /\ l.index \in Nat /\ l.chunk \in Nat
      BY DEF ListingTypeOK
    <2>2. GivenSoFar(m, all)
      BY <1>1, <1>2, <1>3, <1>7 DEF GivenSoFar
    <2>3. m.start < m.offset /\ m.offset <= Len(all)
      BY <1>1, <1>2, <1>7, <2>1
    <2>4. m.chunked /\ m.chunk >= 1 /\ ~m.ended
      BY <1>1, <1>7 DEF PastChunk
    <2>5. ~m.loaded
      BY <1>3
    <2> QED
      BY <2>2, <2>3, <2>4, <2>5 DEF InStep
  <1> QED
    BY <1>6, <1>7 DEF m

\* Deliver: what the directory is afterwards
LEMMA DeliverRight ==
    ASSUME NEW t, NEW l, ListingTypeOK(l), Deliver(t, l)
    PROVE  \E m : /\ listing' = [listing EXCEPT ![t] = m]
                  /\ SameDirectory(l, m)
                  /\ \A all : l.loaded /\ InStep(l, all) => InStep(m, all)
  <1>1. CASE l.index >= Len(l.page)
    <2> DEFINE m == [l EXCEPT !.ended = TRUE]
    <2>1. listing' = [listing EXCEPT ![t] = m]
      BY <1>1 DEF Deliver
    <2>2. SameDirectory(l, m) /\ \A all : l.loaded /\ InStep(l, all) => InStep(m, all)
      BY <1>1, EndRight
    <2> HIDE DEF m
    <2> QED
      BY <2>1, <2>2
  <1>2. CASE ~(l.index >= Len(l.page))
    <2> DEFINE next == Advanced(l)
               m == IF PastChunk(next) THEN Turned(next) ELSE next
    <2>1. listing' = [listing EXCEPT ![t] = m]
      BY <1>2 DEF Deliver, Advanced, Turned
    <2>2. SameDirectory(l, next) /\ next.chunk = l.chunk
      BY <1>2, EntryRight
    <2>3. /\ next.index = l.index + 1 /\ next.chunked = l.chunked /\ next.loaded = l.loaded
          /\ next.ended = l.ended /\ next.offset = l.offset /\ next.start = l.start
      BY DEF Advanced, ListingTypeOK
    <2>4. PastChunk(next) <=> l.chunked /\ l.index + 1 >= l.chunk
      BY <2>2, <2>3 DEF PastChunk
    <2>5. ListingTypeOK(next)
      BY <2>2 DEF SameDirectory
    <2>6. \A all : l.loaded /\ InStep(l, all) =>
                      GivenSoFar(next, all) /\ (~PastChunk(next) => InStep(next, all))
      BY <1>2, <2>4, EntryRight
    <2> HIDE DEF next
    <2>7. CASE ~PastChunk(next)
      BY <2>1, <2>2, <2>6, <2>7
    <2>8. CASE PastChunk(next)
      <3>1. listing' = [listing EXCEPT ![t] = Turned(next)]
        BY <2>1, <2>8
      <3>2. SameDirectory(l, Turned(next))
        BY <2>2, <2>5, <2>8, TurnRight DEF SameDirectory
      <3>3. ASSUME NEW all, l.loaded, InStep(l, all) PROVE InStep(Turned(next), all)
        <4>1. l.offset \in Nat /\ l.start \in Nat /\ l.index \in Nat /\ l.chunk \in Nat /\ Len(l.page) \in Nat
          BY DEF ListingTypeOK
        <4>2. l.chunked /\ l.index + 1 >= l.chunk
          BY <2>4, <2>8
        <4>3. Slice(l, all) /\ l.chunk >= 1 /\ l.start <= l.offset
          BY <3>3, <4>1, <4>2 DEF InStep
        <4>4. l.index + 1 = l.chunk
          BY <4>1, <4>2, <4>3 DEF Slice
        <4>5. ~l.ended
          BY <1>2, <3>3, <4>1 DEF InStep
        <4>6. ASSUME ~(l.offset + l.chunk <= Len(all)) PROVE FALSE
          <5> DEFINE left == IF Len(all) > l.offset THEN Len(all) - l.offset ELSE 0
          <5>1. Len(l.page) = IF l.chunk < left THEN l.chunk ELSE left
            BY <4>2, <4>3 DEF Slice
          <5>2. l.chunk <= Len(l.page)
            BY <1>2, <4>1, <4>4
          <5> QED
            BY <4>1, <4>3, <4>6, <5>1, <5>2
        <4>7. next.index = next.chunk /\ next.chunk >= 1 /\ next.start <= next.offset
              /\ next.offset + next.chunk <= Len(all)
          BY <2>2, <2>3, <4>3, <4>4, <4>6
        <4>8. next.loaded /\ ~next.ended /\ GivenSoFar(next, all)
          BY <2>3, <2>6, <3>3, <4>5
        <4> QED
          BY <2>5, <2>8, <4>7, <4>8, TurnRight
      <3> QED
        BY <3>1, <3>2, <3>3
    <2> QED
      BY <2>7, <2>8
  <1> QED
    BY <1>1, <1>2

\* Deliver: what it adds to the cache
LEMMA DeliverCaches ==
    ASSUME NEW t, NEW l, ListingTypeOK(l), Deliver(t, l)
    PROVE  \/ UNCHANGED <<cache, excused>>
           \/ \E e \in PageEntries : CacheAdd(e.path, e.kind)
  <1>1. CASE l.index >= Len(l.page)
    BY <1>1 DEF Deliver
  <1>2. CASE ~(l.index >= Len(l.page))
    <2>1. l.page[l.index + 1] \in PageEntries
      BY <1>2, EntryRight
    <2>2. CacheAdd(l.page[l.index + 1].path, l.page[l.index + 1].kind)
      BY <1>2 DEF Deliver
    <2> QED
      BY <2>1, <2>2
  <1> QED
    BY <1>1, <1>2

\* A page has come.
LEMMA LoadedRight ==
    ASSUME NEW l, ListingTypeOK(l), NEW page \in Seq(PageEntries)
    PROVE  /\ SameDirectory(l, Loaded(l, page)) /\ Loaded(l, page).loaded
           /\ \A all : ~l.loaded /\ ~l.ended /\ InStep(l, all) /\ IsPage(page, l, all)
                         => InStep(Loaded(l, page), all)
  <1> DEFINE m == Loaded(l, page)
  <1>1. /\ DOMAIN m = DOMAIN l /\ m.open = l.open /\ m.path = l.path /\ m.offset = l.offset
        /\ m.chunk = l.chunk /\ m.start = l.start /\ m.given = l.given
        /\ m.chunked = l.chunked /\ m.ended = l.ended
    BY DEF ListingTypeOK, Loaded
  <1>2. m.page = page /\ m.index = 0
    BY DEF ListingTypeOK, Loaded
  <1>3. m.loaded = TRUE
    BY DEF ListingTypeOK, Loaded
  <1> HIDE DEF m
  <1>4. SameDirectory(l, m)
    BY <1>1, <1>2 DEF SameDirectory, ListingTypeOK
  <1>5. ASSUME NEW all, ~l.loaded, ~l.ended, InStep(l, all), IsPage(page, l, all)
        PROVE  InStep(m, all)
    <2>1. l.offset \in Nat /\ l.start \in Nat /\ l.chunk \in Nat /\ Len(page) \in Nat
      BY DEF ListingTypeOK
    <2>2. Slice(m, all)
      BY <1>1, <1>2, <1>5, <2>1 DEF Slice, IsPage, InStep
    <2>3. GivenSoFar(l, all)
      BY <1>5 DEF InStep
    <2>4. m.offset + m.index = l.offset
      BY <1>1, <1>2, <2>1
    <2>5. GivenSoFar(m, all)
      BY <1>1, <1>3, <1>5, <2>3, <2>4 DEF GivenSoFar
    <2> QED
      BY <1>1, <1>5, <2>2, <2>5 DEF InStep
  <1>6. m.loaded
    BY <1>3
  <1> QED
    BY <1>4, <1>5, <1>6 DEF m

\* The directory is read again in chunks.
LEMMA ChunkedRight ==
    ASSUME NEW l, ListingTypeOK(l)
    PROVE  /\ SameDirectory(l, Chunked(l))
           /\ ~l.loaded => ~Chunked(l).loaded
           /\ ~l.ended => ~Chunked(l).ended
           /\ \A all : ~l.chunked /\ ~l.loaded /\ ~l.ended /\ InStep(l, all)
                         => InStep(Chunked(l), all)
  <1> DEFINE m == Chunked(l)
  <1>1. /\ DOMAIN m = DOMAIN l /\ m.open = l.open /\ m.path = l.path
        /\ m.start = l.start /\ m.given = l.given /\ m.page = l.page
        /\ m.loaded = l.loaded /\ m.ended = l.ended
    BY DEF ListingTypeOK, Chunked
  <1>2. m.offset = 0 /\ m.chunk = ChunkSize /\ m.index = 0
    BY DEF ListingTypeOK, Chunked
  <1>3. m.chunked = TRUE
    BY DEF ListingTypeOK, Chunked
  <1> HIDE DEF m
  <1>4. SameDirectory(l, m)
    BY <1>1, <1>2, SrmNamesAssumption DEF SameDirectory, ListingTypeOK
  <1>5. ASSUME NEW all, ~l.chunked, ~l.loaded, ~l.ended, InStep(l, all)
        PROVE  InStep(m, all)
    <2>1. l.offset = 0 /\ l.start = 0 /\ GivenSoFar(l, all)
      BY <1>5 DEF InStep
    <2>2. m.chunk >= 1 /\ m.chunked
      BY <1>2, <1>3, SrmNamesAssumption
    <2>3. GivenSoFar(m, all)
      BY <1>1, <1>2, <1>5, <2>1 DEF GivenSoFar
    <2> QED
      BY <1>1, <1>2, <1>5, <2>1, <2>2, <2>3 DEF InStep
  <1> QED
    BY <1>1, <1>4, <1>5 DEF m

\* readdir: the directory stays in step, and only entries of it are cached.
LEMMA ReaddirRight ==
    ASSUME CacheTypeOK, ListingsRight, NEW t \in Threads, Readdir(t)
    PROVE  /\ \E m : /\ \/ listing' = [listing EXCEPT ![t] = m]
                        \/ listing' = listing /\ m = listing[t]
                     /\ SameDirectory(listing[t], m)
                     /\ t \notin changed => InStep(m, InOrder(Content(listing[t].path)))
           /\ \/ UNCHANGED <<cache, excused>>
              \/ \E e \in PageEntries : CacheAdd(e.path, e.kind)
  <1> DEFINE l == listing[t]
             all == InOrder(Content(l.path))
             Right(m) == SameDirectory(l, m) /\ (t \notin changed => InStep(m, all))
             Goal == /\ \E m : /\ \/ listing' = [listing EXCEPT ![t] = m]
                                  \/ listing' = listing /\ m = l
                               /\ Right(m)
                     /\ \/ UNCHANGED <<cache, excused>>
                        \/ \E e \in PageEntries : CacheAdd(e.path, e.kind)
  <1>0. /\ l.open /\ ~l.ended
    BY DEF Readdir
  <1>1. ListingTypeOK(l) /\ (t \notin changed => InStep(l, all))
    BY <1>0 DEF ListingsRight
  <1>t. tree \in [Paths -> Kinds]
    BY DEF CacheTypeOK
  <1>2. Right(l)
    BY <1>1 DEF SameDirectory
  <1>3. ASSUME NEW m, Right(m), Deliver(t, m), m.loaded
        PROVE  Goal
    <2>1. ListingTypeOK(m)
      BY <1>3 DEF SameDirectory
    <2>2. PICK n : /\ listing' = [listing EXCEPT ![t] = n]
                   /\ SameDirectory(m, n)
                   /\ \A a : m.loaded /\ InStep(m, a) => InStep(n, a)
      BY <1>3, <2>1, DeliverRight
    <2>3. Right(n)
      BY <1>3, <2>2 DEF SameDirectory
    <2>4. \/ UNCHANGED <<cache, excused>>
          \/ \E e \in PageEntries : CacheAdd(e.path, e.kind)
      BY <1>3, <2>1, DeliverCaches
    <2> QED
      BY <2>2, <2>3, <2>4
  <1>4. ASSUME NEW m, Right(m), ~m.loaded, ~m.ended, NEW a \in Pages(m), a.code = "OK",
               Deliver(t, Loaded(m, a.page))
        PROVE  Goal
    <2>1. ListingTypeOK(m) /\ m.path = l.path
      BY <1>4 DEF SameDirectory
    <2>2. a.page \in Seq(PageEntries) /\ IsPage(a.page, m, InOrder(Content(m.path)))
      BY <1>4, <1>t, <2>1, PageRight DEF ListingTypeOK
    <2>3. IsPage(a.page, m, all)
      BY <2>1, <2>2
    <2> HIDE DEF all
    <2>4. /\ SameDirectory(m, Loaded(m, a.page)) /\ Loaded(m, a.page).loaded
          /\ t \notin changed => InStep(Loaded(m, a.page), all)
      BY <1>4, <2>1, <2>2, <2>3, LoadedRight
    <2>5. Right(Loaded(m, a.page))
      BY <1>4, <2>4 DEF SameDirectory
    <2> HIDE DEF Right, Goal
    <2> QED
      BY <1>3, <1>4, <2>4, <2>5
  <1>5. ASSUME listing' = listing, UNCHANGED <<cache, excused>> PROVE Goal
    BY <1>2, <1>5
  <1>6. CASE l.loaded
    BY <1>2, <1>3, <1>6 DEF Readdir
  <1>7. CASE ~l.loaded
    <2>1. PICK a \in Pages(l) :
              CASE a.code = "OK" -> Deliver(t, Loaded(l, a.page))
                [] a.code = "EFBIG" /\ ~l.chunked ->
                      \E b \in Pages(Chunked(l)) :
                          IF b.code = "OK" THEN Deliver(t, Loaded(Chunked(l), b.page))
                          ELSE /\ listing' = [listing EXCEPT ![t] = Chunked(l)]
                               /\ UNCHANGED <<cache, excused>>
                [] OTHER -> UNCHANGED <<listing, cache, excused>>
      BY <1>7 DEF Readdir
    <2> HIDE DEF Right, Goal, all
    <2>2. CASE a.code = "OK"
      <3>1. Deliver(t, Loaded(l, a.page))
        BY <2>1, <2>2
      <3> HIDE DEF l
      <3>2. Goal
        BY <1>0, <1>2, <1>4, <1>7, <2>1, <2>2, <3>1
      <3> QED
        BY <3>2 DEF Goal, Right, all, l
    <2>3. CASE a.code = "EFBIG" /\ ~l.chunked
      <3>1. PICK b \in Pages(Chunked(l)) :
              IF b.code = "OK" THEN Deliver(t, Loaded(Chunked(l), b.page))
              ELSE /\ listing' = [listing EXCEPT ![t] = Chunked(l)]
                   /\ UNCHANGED <<cache, excused>>
        BY <2>1, <2>3
      <3> HIDE DEF l
      <3>2. Right(Chunked(l)) /\ ~Chunked(l).loaded /\ ~Chunked(l).ended
        BY <1>0, <1>1, <1>7, <2>3, ChunkedRight DEF Right
      <3>3. CASE b.code = "OK"
        <4>1. Goal
          BY <1>4, <3>1, <3>2, <3>3
        <4> QED
          BY <4>1 DEF Goal, Right, all, l
      <3>4. CASE b.code # "OK"
        <4>1. listing' = [listing EXCEPT ![t] = Chunked(l)] /\ UNCHANGED <<cache, excused>>
          BY <3>1, <3>4
        <4>2. Goal
          BY <3>2, <4>1 DEF Goal
        <4> QED
          BY <4>2 DEF Goal, Right, all, l
      <3> QED
        BY <3>3, <3>4
    <2>4. CASE a.code # "OK" /\ ~(a.code = "EFBIG" /\ ~l.chunked)
      <3>1. listing' = listing /\ UNCHANGED <<cache, excused>>
        BY <2>1, <2>4
      <3>2. Goal
        BY <1>5, <3>1
      <3> QED
        BY <3>2 DEF Goal, Right, all
    <2> QED
      BY <2>2, <2>3, <2>4
  <1> QED
    BY <1>6, <1>7

\* Directories are in step after a step if each one that is open was just opened,
\* or was in step with the content it had.
LEMMA ListingsKeepRight ==
    ASSUME ListingsRight, changed' = Changed,
           \A t \in Threads : listing'[t].open =>
              \/ /\ listing[t].open /\ SameDirectory(listing[t], listing'[t])
                 /\ t \notin changed => InStep(listing'[t], InOrder(Content(listing[t].path)))
              \/ ListingTypeOK(listing'[t]) /\ \A all : InStep(listing'[t], all)
    PROVE  ListingsRight'
  <1> SUFFICES ASSUME NEW t \in Threads, listing'[t].open
               PROVE  /\ ListingTypeOK(listing'[t])
                      /\ t \notin changed' =>
                            InStep(listing'[t], InOrder(Content(listing[t].path)'))
    BY DEF ListingsRight
  <1>1. CASE ListingTypeOK(listing'[t]) /\ \A all : InStep(listing'[t], all)
    BY <1>1
  <1>2. CASE /\ listing[t].open /\ SameDirectory(listing[t], listing'[t])
             /\ t \notin changed => InStep(listing'[t], InOrder(Content(listing[t].path)))
    <2>1. ListingTypeOK(listing'[t])
      BY <1>2 DEF SameDirectory
    <2>2. ASSUME t \notin changed'
          PROVE  InStep(listing'[t], InOrder(Content(listing[t].path)'))
      <3>1. t \notin changed /\ Content(listing[t].path)' = Content(listing[t].path)
        BY <1>2, <2>2 DEF Changed
      <3> QED
        BY <1>2, <3>1
    <2> QED
      BY <2>1, <2>2
  <1> QED
    BY <1>1, <1>2

CacheOK == CacheTypeOK /\ CachedThere /\ ForgottenFirst /\ NoStaleEntry

\* An entry that was there, for a path that is as it was or was not there, or one
\* that is new.
OldEntry(v) ==
    /\ Cached(v) /\ cache'[v].kind = cache[v].kind
    /\ v \notin excused' => /\ v \notin excused
                            /\ \/ tree'[PathOf[v]] = tree[PathOf[v]]
                               \/ tree[PathOf[v]] = "absent"
    /\ Removing(v)' => Removing(v)

NewEntry(v) ==
    /\ cache'[v].kind # "absent"
    /\ v \notin excused' => cache'[v].kind = tree'[PathOf[v]] /\ ~Removing(v)'

\* A step after which all that is kept is old or new in this sense is right.
LEMMA EntriesKeepRight ==
    ASSUME CacheOK, CacheTypeOK', \A v \in Urls : cache'[v].uses > 0 => OldEntry(v) \/ NewEntry(v)
    PROVE  CacheOK'
  <1>1. CachedThere'
    BY DEF CachedThere, Cached, CacheOK, OldEntry, NewEntry
  <1>2. ForgottenFirst'
    <2> SUFFICES ASSUME NEW v \in Urls, Removing(v)', cache'[v].uses > 0 PROVE v \in excused'
      BY DEF ForgottenFirst, Cached
    <2>1. CASE OldEntry(v)
      BY <2>1 DEF OldEntry, CacheOK, ForgottenFirst
    <2>2. CASE NewEntry(v)
      BY <2>2 DEF NewEntry
    <2> QED
      BY <2>1, <2>2
  <1>3. NoStaleEntry'
    <2> SUFFICES ASSUME NEW v \in Urls, v \notin excused', cache'[v].uses > 0
                 PROVE  cache'[v].kind = tree'[PathOf[v]]
      BY DEF NoStaleEntry, Cached
    <2>1. CASE OldEntry(v)
      <3>1. Cached(v) /\ v \notin excused /\ cache'[v].kind = cache[v].kind
        BY <2>1 DEF OldEntry
      <3>2. cache[v].kind = tree[PathOf[v]] /\ cache[v].kind # "absent"
        BY <3>1 DEF CacheOK, NoStaleEntry, CachedThere
      <3> QED
        BY <2>1, <3>1, <3>2 DEF OldEntry
    <2>2. CASE NewEntry(v)
      BY <2>2 DEF NewEntry
    <2> QED
      BY <2>1, <2>2
  <1> QED
    BY <1>1, <1>2, <1>3 DEF CacheOK

RemovingFewer == \A u \in Urls : Removing(u)' => Removing(u)

\* The cache is not used.  What appears was not there before.
LEMMA SameRight ==
    ASSUME CacheOK, UNCHANGED <<cache, excused>>, RemovingFewer, tree' \in [Paths -> Kinds],
           \A u \in Urls : tree'[PathOf[u]] = tree[PathOf[u]] \/ tree[PathOf[u]] = "absent"
    PROVE  CacheOK'
  <1>1. CacheTypeOK'
    BY DEF CacheOK, CacheTypeOK
  <1>2. \A v \in Urls : cache'[v].uses > 0 => OldEntry(v)
    BY DEF OldEntry, Cached, RemovingFewer
  <1> QED
    BY <1>1, <1>2, EntriesKeepRight

\* gsimplecache_take_one_kstr
LEMMA TakeRight ==
    ASSUME CacheOK, NEW u \in Urls, Cached(u), CacheTake(u), UNCHANGED tree, RemovingFewer
    PROVE  CacheOK'
  <1> DEFINE e == cache[u]
             n == IF e.uses = 1 THEN NoEntry ELSE [e EXCEPT !.uses = e.uses - 1]
  <1>0. Take(u) = [cache EXCEPT ![u] = n]
    BY DEF Take
  <1>1. cache' = [cache EXCEPT ![u] = n] /\ excused' = {v \in excused : cache'[v].uses > 0}
    BY <1>0, Zenon DEF CacheTake
  <1>2. cache \in [Urls -> [kind : Kinds \cup {"none"}, uses : Nat]]
    BY DEF CacheOK, CacheTypeOK
  <1>3. e \in [kind : Kinds \cup {"none"}, uses : Nat] /\ e.uses > 0
    BY <1>2 DEF Cached
  <1>4. n \in [kind : Kinds \cup {"none"}, uses : Nat] /\ (n.uses > 0 => n.kind = e.kind)
    <2>1. CASE e.uses = 1
      BY <2>1 DEF NoEntry
    <2>2. CASE e.uses # 1
      <3>1. n = [kind |-> e.kind, uses |-> e.uses - 1]
        BY <1>3, <2>2
      <3> QED
        BY <1>3, <2>2, <3>1
    <2> QED
      BY <2>1, <2>2
  <1> HIDE DEF n
  <1>5. cache' \in [Urls -> [kind : Kinds \cup {"none"}, uses : Nat]]
    BY <1>1, <1>2, <1>4
  <1>6. CacheTypeOK'
    BY <1>5 DEF CacheOK, CacheTypeOK
  <1>7. ASSUME NEW v \in Urls, cache'[v].uses > 0 PROVE OldEntry(v)
    <2>1. Cached(v) /\ cache'[v].kind = cache[v].kind
      <3>1. CASE v = u
        BY <1>1, <1>2, <1>4, <1>7, <3>1
      <3>2. CASE v # u
        BY <1>1, <1>2, <1>7, <3>2 DEF Cached
      <3> QED
        BY <3>1, <3>2
    <2>2. v \notin excused' => v \notin excused
      BY <1>1, <1>7
    <2> QED
      BY <2>1, <2>2 DEF OldEntry, RemovingFewer
  <1> QED
    BY <1>6, <1>7, EntriesKeepRight

\* gfal_srm_cache_stat_add
LEMMA AddRight ==
    ASSUME CacheOK, NEW u \in Urls, NEW kind \in Kinds \ {"absent"}, CacheAdd(u, kind),
           UNCHANGED tree, RemovingFewer
    PROVE  CacheOK'
  <1> DEFINE E == [kind : Kinds \cup {"none"}, uses : Nat]
  <1>1. cache \in [Urls -> E]
    BY DEF CacheOK, CacheTypeOK
  <1>2. cache' = Add(u, kind)
        /\ excused' = (excused \cup (IF kind # tree[PathOf[u]] \/ Removing(u) THEN {u} ELSE {}))
                        \cap {v \in Urls : cache'[v].uses > 0}
    BY DEF CacheAdd
  <1>3. /\ cache' \in [Urls -> E]
        /\ \A v \in Urls : cache'[v].uses > 0 =>
              \/ Cached(v) /\ cache'[v].kind = cache[v].kind
              \/ v = u /\ cache'[v].kind = kind
    <2>1. CASE Cached(u)
      <3> DEFINE n == [cache[u] EXCEPT !.uses = cache[u].uses + 1]
      <3>1. cache' = [cache EXCEPT ![u] = n]
        BY <1>2, <2>1 DEF Add
      <3>2. cache[u] \in E
        BY <1>1
      <3>3. n = [kind |-> cache[u].kind, uses |-> cache[u].uses + 1]
        BY <3>2
      <3>4. n \in E /\ n.kind = cache[u].kind
        BY <3>2, <3>3
      <3> HIDE DEF n, E
      <3>5. cache' \in [Urls -> E]
        BY <1>1, <3>1, <3>4
      <3>6. cache'[u].kind = cache[u].kind /\ \A v \in Urls : v # u => cache'[v] = cache[v]
        BY <1>1, <3>1, <3>4
      <3> QED
        BY <2>1, <3>5, <3>6 DEF Cached
    <2>2. CASE ~Cached(u)
      <3> DEFINE n == [kind |-> kind, uses |-> 2]
                 o(v) == IF Cardinality(InUse) >= CacheSize THEN NoEntry ELSE cache[v]
      <3>1. cache' = [v \in Urls |-> IF v = u THEN n ELSE o(v)]
        BY <1>2, <2>2 DEF Add
      <3>2. n \in E /\ n.kind = kind /\ NoEntry \in E /\ NoEntry.uses = 0
        BY DEF NoEntry
      <3>3. \A v \in Urls : o(v) \in E /\ (o(v).uses > 0 => o(v) = cache[v])
        BY <1>1, <3>2
      <3> HIDE DEF n, o, E
      <3>4. cache' \in [Urls -> E]
        BY <3>1, <3>2, <3>3
      <3>5. cache'[u].kind = kind /\ \A v \in Urls : v # u => cache'[v] = o(v)
        BY <3>1, <3>2
      <3> QED
        BY <3>3, <3>4, <3>5 DEF Cached
    <2> QED
      BY <2>1, <2>2
  <1>4. CacheTypeOK'
    BY <1>3 DEF CacheOK, CacheTypeOK
  <1>5. ASSUME NEW v \in Urls, cache'[v].uses > 0 PROVE OldEntry(v) \/ NewEntry(v)
    <2>1. CASE Cached(v) /\ cache'[v].kind = cache[v].kind
      <3>1. v \notin excused' => v \notin excused
        BY <1>2, <1>5
      <3> QED
        BY <2>1, <3>1 DEF OldEntry, RemovingFewer
    <2>2. CASE v = u /\ cache'[v].kind = kind
      <3>1. v \notin excused' => kind = tree[PathOf[v]] /\ ~Removing(v)
        BY <1>2, <1>5, <2>2
      <3> QED
        BY <2>2, <3>1 DEF NewEntry, RemovingFewer
    <2> QED
      BY <1>3, <1>5, <2>1, <2>2
  <1> QED
    BY <1>4, <1>5, EntriesKeepRight

\* gfal_srm_cache_stat_remove, with the change if that comes at once
LEMMA PurgeRight ==
    ASSUME CacheOK, NEW u \in Urls, cache' = Purge(u), tree' \in [Paths -> Kinds],
           \A v \in Urls : Removing(v)' => Removing(v) \/ v = u,
           \A v \in Urls : v # u /\ Cached(v) =>
              (v \notin excused' => v \notin excused /\ tree'[PathOf[v]] = tree[PathOf[v]])
    PROVE  CacheOK'
  <1>1. cache \in [Urls -> [kind : Kinds \cup {"none"}, uses : Nat]]
    BY DEF CacheOK, CacheTypeOK
  <1>2. NoEntry \in [kind : Kinds \cup {"none"}, uses : Nat] /\ NoEntry.uses = 0
    BY DEF NoEntry
  <1>3. cache' = [cache EXCEPT ![u] = NoEntry]
    BY DEF Purge
  <1>4. CacheTypeOK'
    BY <1>1, <1>2, <1>3 DEF CacheTypeOK
  <1>5. ASSUME NEW v \in Urls, cache'[v].uses > 0 PROVE OldEntry(v)
    <2>1. v # u
      BY <1>1, <1>2, <1>3, <1>5
    <2>2. cache'[v] = cache[v]
      BY <1>1, <1>3, <2>1
    <2> QED
      BY <1>5, <2>1, <2>2 DEF OldEntry, Cached
  <1> QED
    BY <1>4, <1>5, EntriesKeepRight

\* A step of t to a call that is not about to remove a directory
Onward(t) ==
    \E c : /\ call' = [call EXCEPT ![t] = c]
           /\ c.at # "idle" => c.url \in Urls
           /\ ~(c.at = "change" /\ c.section = "rmdir")

\* Such a step starts no removal, and its URL is one of the application.
LEMMA OnwardRight ==
    ASSUME SrmTypeOK, UrlsUsed, NEW t \in Threads, Onward(t) \/ call' = call
    PROVE  /\ RemovingFewer
           /\ \A s \in Threads : call'[s].at # "idle" => call'[s].url \in Urls
  <1>1. CASE call' = call
    BY <1>1 DEF RemovingFewer, Removing, UrlsUsed
  <1>2. CASE Onward(t)
    <2>1. PICK c : /\ call' = [call EXCEPT ![t] = c]
                   /\ c.at # "idle" => c.url \in Urls
                   /\ ~(c.at = "change" /\ c.section = "rmdir")
      BY <1>2 DEF Onward
    <2>2. call'[t] = c /\ \A s \in Threads : s # t => call'[s] = call[s]
      BY <2>1 DEF SrmTypeOK
    <2> QED
      BY <2>1, <2>2 DEF RemovingFewer, Removing, UrlsUsed
  <1> QED
    BY <1>1, <1>2

\* The sections that follow are about the same URL.
LEMMA FollowOnward ==
    ASSUME SrmTypeOK, UrlsUsed, NEW t \in Threads, call[t].at # "idle", NEW sections \in Seq(Following),
           call' = [call EXCEPT ![t] = Follow(t, sections)]
    PROVE  Onward(t)
  <1> DEFINE c == Follow(t, sections)
  <1>1. call[t].url \in Urls
    BY DEF UrlsUsed
  <1>2. CallShape(call[t])
    BY DEF SrmTypeOK, CallShape
  <1>3. c.at \in {"idle", "inner", "context"}
    BY <1>2, FollowShape
  <1>4. c.at # "idle" => c.url = call[t].url
    <2>1. CASE sections = <<>>
      BY <2>1 DEF Follow, Idle
    <2>2. CASE sections # <<>>
      BY <1>2, <2>2 DEF Follow, CallShape
    <2> QED
      BY <2>1, <2>2
  <1> HIDE DEF c
  <1>5. call' = [call EXCEPT ![t] = c]
    BY DEF c
  <1> QED
    BY <1>1, <1>3, <1>4, <1>5 DEF Onward

\* A section that gives the context back goes on to the next.
LEMMA ReleaseOnward ==
    ASSUME SrmTypeOK, UrlsUsed, NEW t \in Threads, call[t].at # "idle",
           Release(t, call[t].rest) \/ Release(t, <<>>)
    PROVE  Onward(t)
  <1>1. call[t].rest \in Seq(Following) /\ <<>> \in Seq(Following)
    BY DEF SrmTypeOK
  <1> QED
    BY <1>1, FollowOnward DEF Release

\* A call that ends is about nothing.
LEMMA IdleOnward ==
    ASSUME NEW t \in Threads, call' = [call EXCEPT ![t] = Idle] PROVE Onward(t)
  <1>1. Idle.at = "idle"
    BY DEF Idle
  <1> QED
    BY <1>1 DEF Onward

\* What a request to the server does to the tree
LEMMA AnsweredTree ==
    ASSUME NEW code, NEW after, NEW T, T \in {a.tree : a \in Answers(code, after)}
    PROVE  T = tree \/ (code = "OK" /\ T = after)
  BY DEF Answers

\* All changes keep the tree a tree, and what is made was not there.
LEMMA TreeMade ==
    ASSUME CacheTypeOK, NEW p \in Paths, NEW kind \in Kinds, NEW code, code = "OK" => ~Exists(p),
           tree' \in {a.tree : a \in Answers(code, With(p, kind))}
    PROVE  /\ tree' \in [Paths -> Kinds]
           /\ \A q \in Paths : tree'[q] = tree[q] \/ tree[q] = "absent"
  <1>1. tree' = tree \/ (code = "OK" /\ tree' = With(p, kind))
    BY AnsweredTree
  <1>2. tree \in [Paths -> Kinds]
    BY DEF CacheTypeOK
  <1>3. CASE tree' = tree
    BY <1>2, <1>3
  <1>4. CASE code = "OK" /\ tree' = With(p, kind)
    <2>1. tree[p] = "absent"
      BY <1>4 DEF Exists
    <2>2. tree' = [tree EXCEPT ![p] = kind]
      BY <1>4 DEF With
    <2> QED
      BY <1>2, <2>1, <2>2
  <1> QED
    BY <1>1, <1>3, <1>4

\* The changes of the plugin keep the tree a tree.
LEMMA TreeChanged ==
    ASSUME CacheTypeOK, UrlsUsed, NEW t \in Threads, call[t].at # "idle",
           tree' \in Chmod(t) \cup Unlink(t) \cup Rename(t) \cup Rmdir(t)
    PROVE  tree' \in [Paths -> Kinds]
  <1> DEFINE p == PathOf[call[t].url]
  <1>1. p \in Paths
    BY SrmNamesAssumption DEF UrlsUsed
  <1>2. tree \in [Paths -> Kinds]
    BY DEF CacheTypeOK
  <1> HIDE DEF p
  <1>3. With(p, "private") \in [Paths -> Kinds] /\ Without(p) \in [Paths -> Kinds]
    BY <1>1, <1>2 DEF With, Without, Kinds
  <1>4. CASE tree' \in Chmod(t)
    <2>1. tree' \in {a.tree : a \in Answers(IF IsFile(p) THEN "OK" ELSE "EINVAL", With(p, "private"))}
      BY <1>4 DEF Chmod, p
    <2>2. tree' = tree \/ tree' = With(p, "private")
      BY <2>1, AnsweredTree
    <2> QED
      BY <1>2, <1>3, <2>2
  <1>5. CASE tree' \in Unlink(t)
    <2>1. tree' \in {a.tree : a \in Answers(RmCode(p), Without(p))}
      BY <1>5 DEF Unlink, p
    <2>2. tree' = tree \/ tree' = Without(p)
      BY <2>1, AnsweredTree
    <2> QED
      BY <1>2, <1>3, <2>2
  <1>6. CASE tree' \in Rename(t)
    <2>1. PICK q \in {r \in Paths : <<p, r>> \in Renames} :
            tree' \in {a.tree : a \in Answers(RenameCode(p, q), Renamed(p, q))}
      BY <1>6 DEF Rename, p
    <2>2. Renamed(p, q) \in [Paths -> Kinds]
      BY <1>1, <1>2 DEF Renamed, Kinds
    <2>3. tree' = tree \/ tree' = Renamed(p, q)
      BY <2>1, AnsweredTree
    <2> QED
      BY <1>2, <2>2, <2>3
  <1>7. CASE tree' \in Rmdir(t)
    <2>1. tree' \in {a.tree : a \in Answers(RmdirCode(p), Without(p))}
      BY <1>7 DEF Rmdir, p
    <2>2. tree' = tree \/ tree' = Without(p)
      BY <2>1, AnsweredTree
    <2> QED
      BY <1>2, <1>3, <2>2
  <1> QED
    BY <1>4, <1>5, <1>6, <1>7

\* A change of the tree by the plugin: what it forgets before, and what it makes.
LEMMA ChangeRight ==
    ASSUME CacheOK, SrmTypeOK, UrlsUsed, NEW t \in Threads, Change(t)
    PROVE  CacheOK' /\ Onward(t)
  <1> DEFINE u == call[t].url
             section == call[t].section
  <1>0. call[t].at = "change" /\ Release(t, call[t].rest)
    BY DEF Change
  <1>1. Onward(t)
    BY <1>0, ReleaseOnward
  <1>2. RemovingFewer
    BY <1>1, OnwardRight
  <1>3. u \in Urls /\ PathOf[u] \in Paths
    BY <1>0, SrmNamesAssumption DEF UrlsUsed
  <1>4. /\ cache' = IF Purges(section) THEN Purge(u) ELSE cache
        /\ excused' = (excused \cup Outdated(u, tree')) \ (IF Purges(section) THEN {u} ELSE {})
    BY DEF Change
  <1>5. \A v \in Urls : v # u /\ Cached(v) =>
            (v \notin excused' => v \notin excused /\ tree'[PathOf[v]] = tree[PathOf[v]])
    BY <1>4 DEF Outdated
  <1>c. CacheTypeOK
    BY DEF CacheOK
  <1>6. CASE Purges(section)
    <2>1. tree' \in Chmod(t) \cup Unlink(t) \cup Rename(t)
      BY <1>6 DEF Purges, Change
    <2>2. tree' \in [Paths -> Kinds]
      BY <1>0, <1>c, <2>1, TreeChanged
    <2>3. cache' = Purge(u)
      BY <1>4, <1>6
    <2> HIDE DEF u
    <2> QED
      BY <1>1, <1>2, <1>3, <1>5, <2>2, <2>3, PurgeRight DEF RemovingFewer
  <1>7. CASE section = "rmdir"
    <2>1. tree' \in Rmdir(t) /\ ~Purges(section)
      BY <1>7 DEF Purges, Change
    <2>2. tree' \in [Paths -> Kinds]
      BY <1>0, <1>c, <2>1, TreeChanged
    <2>3. cache' = cache /\ excused' = excused \cup Outdated(u, tree')
      BY <1>4, <2>1
    <2>4. Removing(u)
      BY <1>0, <1>7 DEF Removing
    <2>5. ASSUME NEW v \in Urls, cache'[v].uses > 0 PROVE OldEntry(v)
      <3>1. Cached(v) /\ cache'[v].kind = cache[v].kind
        BY <2>3, <2>5 DEF Cached
      <3>2. v = u => v \in excused'
        BY <2>3, <2>4, <3>1 DEF CacheOK, ForgottenFirst
      <3> QED
        BY <1>2, <1>5, <3>1, <3>2 DEF OldEntry, RemovingFewer
    <2>6. CacheTypeOK'
      BY <1>c, <2>2, <2>3 DEF CacheTypeOK
    <2> QED
      BY <1>1, <2>5, <2>6, EntriesKeepRight
  <1>8. CASE section \in {"mkdir", "mkdirp"}
    <2> DEFINE p == PathOf[u]
    <2>1. ~Purges(section) /\ tree' \in {a.tree : a \in Answers(MkdirCode(p), With(p, "dir"))}
      BY <1>8 DEF Purges, Change, Mkdir
    <2>2. cache' = cache /\ excused' = excused \cup Outdated(u, tree')
      BY <1>4, <2>1
    <2>3. MkdirCode(p) = "OK" => ~Exists(p)
      BY DEF MkdirCode
    <2> HIDE DEF p
    <2>p. p \in Paths /\ "dir" \in Kinds
      BY <1>3 DEF p, Kinds
    <2>4. /\ tree' \in [Paths -> Kinds]
          /\ \A q \in Paths : tree'[q] = tree[q] \/ tree[q] = "absent"
      BY <1>c, <2>1, <2>3, <2>p, TreeMade
    <2>5. ASSUME NEW v \in Urls, cache'[v].uses > 0 PROVE OldEntry(v)
      <3>1. Cached(v) /\ cache'[v].kind = cache[v].kind
        BY <2>2, <2>5 DEF Cached
      <3>2. PathOf[v] \in Paths
        BY SrmNamesAssumption
      <3>3. v \notin excused' => v \notin excused
        BY <2>2
      <3> QED
        BY <1>2, <2>4, <3>1, <3>2, <3>3 DEF OldEntry, RemovingFewer
    <2>6. CacheTypeOK'
      BY <1>c, <2>2, <2>4 DEF CacheTypeOK
    <2> QED
      BY <1>1, <2>5, <2>6, EntriesKeepRight
  <1>9. CASE ~Purges(section) /\ section \notin {"rmdir", "mkdir", "mkdirp"}
    BY <1>9 DEF Purges, Change
  <1> QED
    BY <1>6, <1>7, <1>8, <1>9

\* gfal_srm_rmdirG forgets the directory before it is removed.
LEMMA ForgetRight ==
    ASSUME CacheOK, SrmTypeOK, UrlsUsed, NEW t \in Threads, call[t].at = "ls",
           call[t].section = "rmdir", call' = [call EXCEPT ![t].at = "change"],
           cache' = Purge(call[t].url), excused' = excused \ {call[t].url}, UNCHANGED tree
    PROVE  /\ CacheOK'
           /\ \A s \in Threads : call'[s].at # "idle" => call'[s].url \in Urls
  <1> DEFINE u == call[t].url
  <1>1. u \in Urls
    BY DEF UrlsUsed
  <1>2. DOMAIN call[t] = {"at", "section", "rest", "url", "ep"} /\ DOMAIN call = Threads
    BY DEF SrmTypeOK
  <1>3. call'[t].url = u /\ \A s \in Threads : s # t => call'[s] = call[s]
    BY <1>2
  <1>4. \A v \in Urls : Removing(v)' => Removing(v) \/ v = u
    BY <1>3 DEF Removing
  <1>5. tree' \in [Paths -> Kinds]
    BY DEF CacheOK, CacheTypeOK
  <1> HIDE DEF u
  <1>6. cache' = Purge(u) /\ excused' = excused \ {u}
    BY DEF u
  <1>7. CacheOK'
    BY <1>1, <1>4, <1>5, <1>6, PurgeRight
  <1> QED
    BY <1>1, <1>3, <1>7 DEF UrlsUsed

UrlsStay == \A s \in Threads : call'[s].at # "idle" => call'[s].url \in Urls

\* A step that neither uses the cache nor changes the tree
LEMMA QuietStep ==
    ASSUME CacheOK, SrmTypeOK, UrlsUsed, NEW t \in Threads, Onward(t) \/ call' = call,
           UNCHANGED <<cache, excused, tree>>
    PROVE  CacheOK' /\ UrlsStay
  <1>1. RemovingFewer /\ UrlsStay
    BY OnwardRight DEF UrlsStay
  <1>2. tree' \in [Paths -> Kinds]
    BY DEF CacheOK, CacheTypeOK
  <1> QED
    BY <1>1, <1>2, SameRight

\* A call is made: stat may be answered by the cache.
LEMMA CallRight ==
    ASSUME CacheOK, SrmTypeOK, UrlsUsed, NEW t \in Threads, NEW op, NEW u, Call(t, op, u)
    PROVE  CacheOK' /\ UrlsStay
  <1>1. u \in Urls
    <2>1. <<op, u>> \in menu[t] /\ menu \in Menus
      BY DEF Call, UrlsUsed
    <2>2. \A e \in menu[t] : e[2] \in Urls
      BY <2>1, SrmNamesAssumption
    <2> QED
      BY <2>1, <2>2
  <1>2. CASE op = "stat" /\ Cached(u)
    <2>1. CacheTake(u) /\ call' = call /\ UNCHANGED tree
      BY <1>2 DEF Call, server
    <2>2. RemovingFewer /\ UrlsStay
      BY <2>1, OnwardRight DEF UrlsStay
    <2> QED
      BY <1>1, <1>2, <2>1, <2>2, TakeRight
  <1>3. CASE ~(op = "stat" /\ Cached(u))
    <2>1. UNCHANGED <<cache, excused, tree>>
      BY <1>3 DEF Call, server
    <2>2. PICK s \in SectionsOf(op) :
            call' = [call EXCEPT ![t] = [at |-> "context", section |-> Head(s),
                                         rest |-> Tail(s), url |-> u, ep |-> ""]]
      BY <1>3 DEF Call
    <2> DEFINE c == [at |-> "context", section |-> Head(s), rest |-> Tail(s), url |-> u,
                     ep |-> ""]
    <2>3. c.at = "context" /\ c.url = u /\ call' = [call EXCEPT ![t] = c]
      BY <2>2
    <2> HIDE DEF c
    <2>4. Onward(t)
      BY <1>1, <2>3 DEF Onward
    <2> QED
      BY <2>1, <2>4, QuietStep
  <1> QED
    BY <1>2, <1>3

\* The context is got: what comes next is a request.
LEMMA ContextRight ==
    ASSUME CacheOK, SrmTypeOK, UrlsUsed, NEW t \in Threads, GetContext(t), UNCHANGED server
    PROVE  CacheOK' /\ UrlsStay
  <1>1. call[t].at = "context" /\ UNCHANGED <<cache, excused, tree>>
    BY DEF GetContext, server
  <1>2. PICK ep : call' = [call EXCEPT ![t].at = FirstRequest(call[t].section), ![t].ep = ep]
    BY DEF GetContext
  <1> DEFINE c == [call[t] EXCEPT !.at = FirstRequest(call[t].section), !.ep = ep]
  <1>3. DOMAIN call = Threads /\ DOMAIN call[t] = {"at", "section", "rest", "url", "ep"}
    BY <1>1 DEF SrmTypeOK
  <1>4. call' = [call EXCEPT ![t] = c]
    BY <1>2, <1>3
  <1>5. /\ c.at = FirstRequest(call[t].section)
        /\ c.section = call[t].section /\ c.url = call[t].url
    BY <1>3
  <1>6. call[t].url \in Urls
    BY <1>1 DEF UrlsUsed
  <1>7. ~(c.at = "change" /\ c.section = "rmdir")
    BY <1>5 DEF FirstRequest
  <1> HIDE DEF c
  <1>8. Onward(t)
    BY <1>4, <1>5, <1>6, <1>7 DEF Onward
  <1> QED
    BY <1>1, <1>8, QuietStep

\* There is no endpoint: the call ends or goes on.
LEMMA FailsRight ==
    ASSUME CacheOK, SrmTypeOK, UrlsUsed, NEW t \in Threads, EndpointFails(t), UNCHANGED server
    PROVE  CacheOK' /\ UrlsStay
  <1>1. call[t].at = "context" /\ UNCHANGED <<cache, excused, tree>>
    BY DEF EndpointFails, server
  <1>2. call[t].rest \in Seq(Following) /\ <<>> \in Seq(Following)
    BY <1>1 DEF SrmTypeOK
  <1>3. PICK sections \in Seq(Following) : call' = [call EXCEPT ![t] = Follow(t, sections)]
    BY <1>2 DEF EndpointFails, Release
  <1>4. Onward(t)
    BY <1>1, <1>3, FollowOnward
  <1> QED
    BY <1>1, <1>4, QuietStep

\* srm_ls for stat keeps what was found.
LEMMA LsStatRight ==
    ASSUME CacheOK, SrmTypeOK, UrlsUsed, NEW t \in Threads, LsStat(t)
    PROVE  CacheOK' /\ UrlsStay
  <1> DEFINE u == call[t].url
  <1>1. call[t].at # "idle" /\ Release(t, call[t].rest) /\ UNCHANGED tree
    BY DEF LsStat, server
  <1>2. Onward(t)
    BY <1>1, ReleaseOnward
  <1>3. RemovingFewer /\ UrlsStay
    BY <1>2, OnwardRight DEF UrlsStay
  <1>4. u \in Urls /\ PathOf[u] \in Paths /\ PathOf[u] # Root
    BY <1>1, SrmNamesAssumption DEF UrlsUsed
  <1>5. PICK a \in LsAnswers(PathOf[u]) :
            IF Failed(a) THEN UNCHANGED <<cache, excused>> ELSE CacheAdd(u, a)
    BY DEF LsStat
  <1>6. CASE Failed(a)
    BY <1>1, <1>2, <1>5, <1>6, QuietStep
  <1>7. CASE ~Failed(a)
    <2>1. a = tree[PathOf[u]] /\ a # "absent"
      BY <1>4, <1>7 DEF LsAnswers, Failed, Exists
    <2>2. a \in Kinds \ {"absent"}
      BY <1>4, <2>1 DEF CacheOK, CacheTypeOK
    <2>3. CacheAdd(u, a)
      BY <1>5, <1>7
    <2> HIDE DEF u
    <2> QED
      BY <1>1, <1>3, <1>4, <2>2, <2>3, AddRight
  <1> QED
    BY <1>6, <1>7

\* The status may come from the cache, under the short name.
LEMMA LsStatusRight ==
    ASSUME CacheOK, SrmTypeOK, UrlsUsed, NEW t \in Threads, LsStatus(t)
    PROVE  CacheOK' /\ UrlsStay
  <1> DEFINE p == PathOf[call[t].url]
  <1>1. call[t].at # "idle" /\ UNCHANGED tree
    BY DEF LsStatus, server
  <1>2. Release(t, call[t].rest) \/ Release(t, <<>>)
    BY DEF LsStatus
  <1>3. Onward(t)
    BY <1>1, <1>2, ReleaseOnward
  <1>4. RemovingFewer /\ UrlsStay
    BY <1>3, OnwardRight DEF UrlsStay
  <1>5. p \in Urls
    BY <1>1, SrmNamesAssumption DEF UrlsUsed
  <1>6. (Cached(p) /\ CacheTake(p)) \/ UNCHANGED <<cache, excused>>
    BY DEF LsStatus
  <1> HIDE DEF p
  <1>7. CASE Cached(p) /\ CacheTake(p)
    BY <1>1, <1>4, <1>5, <1>7, TakeRight
  <1>8. CASE UNCHANGED <<cache, excused>>
    BY <1>1, <1>3, <1>8, QuietStep
  <1> QED
    BY <1>6, <1>7, <1>8

\* srm_ls for rmdir
LEMMA LsRmdirRight ==
    ASSUME CacheOK, SrmTypeOK, UrlsUsed, NEW t \in Threads, LsRmdir(t)
    PROVE  CacheOK' /\ UrlsStay
  <1>1. call[t].at = "ls" /\ call[t].section = "rmdir" /\ UNCHANGED tree
    BY DEF LsRmdir, server
  <1>2. \/ /\ call' = [call EXCEPT ![t].at = "change"]
           /\ cache' = Purge(call[t].url) /\ excused' = excused \ {call[t].url}
        \/ Release(t, <<>>) /\ UNCHANGED <<cache, excused>>
    BY DEF LsRmdir
  <1>3. CASE Release(t, <<>>) /\ UNCHANGED <<cache, excused>>
    <2>1. Onward(t)
      BY <1>1, <1>3, ReleaseOnward
    <2> QED
      BY <1>1, <1>3, <2>1, QuietStep
  <1>4. CASE /\ call' = [call EXCEPT ![t].at = "change"]
             /\ cache' = Purge(call[t].url) /\ excused' = excused \ {call[t].url}
    BY <1>1, <1>4, ForgetRight DEF UrlsStay
  <1> QED
    BY <1>2, <1>3, <1>4

\* srm_ls for mkdir
LEMMA LsMkdirRight ==
    ASSUME CacheOK, SrmTypeOK, UrlsUsed, NEW t \in Threads, LsMkdir(t)
    PROVE  CacheOK' /\ UrlsStay
  <1>1. call[t].at = "ls" /\ call[t].section # "rmdir" /\ UNCHANGED <<cache, excused, tree>>
    BY DEF LsMkdir, server
  <1>2. call' = [call EXCEPT ![t].at = "change"] \/ Release(t, <<>>)
    BY DEF LsMkdir
  <1>3. CASE Release(t, <<>>)
    BY <1>1, <1>3, ReleaseOnward, QuietStep
  <1>4. CASE call' = [call EXCEPT ![t].at = "change"]
    <2> DEFINE c == [call[t] EXCEPT !.at = "change"]
    <2>1. DOMAIN call = Threads /\ DOMAIN call[t] = {"at", "section", "rest", "url", "ep"}
      BY <1>1 DEF SrmTypeOK
    <2>2. call' = [call EXCEPT ![t] = c]
      BY <1>4, <2>1
    <2>3. c.section = call[t].section /\ c.url = call[t].url
      BY <2>1
    <2>4. call[t].url \in Urls
      BY <1>1 DEF UrlsUsed
    <2> HIDE DEF c
    <2>5. Onward(t)
      BY <1>1, <2>2, <2>3, <2>4 DEF Onward
    <2> QED
      BY <1>1, <2>5, QuietStep
  <1> QED
    BY <1>2, <1>3, <1>4

\* putdone makes a file that was not there.
LEMMA PutDoneRight ==
    ASSUME CacheOK, SrmTypeOK, UrlsUsed, NEW t \in Threads, PutDone(t)
    PROVE  CacheOK' /\ UrlsStay
  <1> DEFINE p == PathOf[call[t].url]
             code == IF MkdirCode(p) = "OK" THEN "OK" ELSE "EINVAL"
  <1>1. call[t].at # "idle" /\ Release(t, <<>>) /\ UNCHANGED <<cache, excused>>
    BY DEF PutDone
  <1>2. RemovingFewer /\ UrlsStay
    BY <1>1, ReleaseOnward, OnwardRight DEF UrlsStay
  <1>3. p \in Paths /\ "file" \in Kinds
    BY <1>1, SrmNamesAssumption DEF UrlsUsed, Kinds
  <1>4. tree' \in {a.tree : a \in Answers(code, With(p, "file"))}
    BY DEF PutDone
  <1>5. code = "OK" => ~Exists(p)
    BY DEF MkdirCode
  <1> HIDE DEF p, code
  <1>c. CacheTypeOK
    BY DEF CacheOK
  <1>6. /\ tree' \in [Paths -> Kinds]
        /\ \A q \in Paths : tree'[q] = tree[q] \/ tree[q] = "absent"
    BY <1>c, <1>3, <1>4, <1>5, TreeMade
  <1>7. \A u \in Urls : PathOf[u] \in Paths
    BY SrmNamesAssumption
  <1> QED
    BY <1>1, <1>2, <1>6, <1>7, SameRight

\* The other steps of a call neither use the cache nor change the tree.
LEMMA OtherRight ==
    ASSUME CacheOK, SrmTypeOK, UrlsUsed, NEW t \in Threads,
           \/ LsSum(t) \/ LsOpendir(t) \/ Access(t) \/ Space(t) \/ EndpointType(t) \/ IsCastor(t)
           \/ Closedir(t) \/ GetTurl(t) \/ PutTurl(t) \/ InnerOpen(t) \/ Close(t)
           \/ InnerClose(t) \/ ReleaseFile(t)
    PROVE  CacheOK' /\ UrlsStay
  <1>1. UNCHANGED <<cache, excused, tree>>
    BY DEF LsSum, LsOpendir, Access, Space, EndpointType, IsCastor, Closedir, GetTurl, PutTurl,
           InnerOpen, Close, InnerClose, ReleaseFile, Answered, server
  <1>2. CASE LsSum(t) \/ ReleaseFile(t) \/ Access(t) \/ Space(t) \/ IsCastor(t) \/ GetTurl(t)
             \/ PutTurl(t)
    <2>1. call[t].at # "idle"
      BY <1>2 DEF LsSum, ReleaseFile, Access, Space, IsCastor, GetTurl, PutTurl, Asked
    <2>2. Release(t, call[t].rest) \/ Release(t, <<>>)
      BY <1>2 DEF LsSum, ReleaseFile, Access, Space, IsCastor, GetTurl, PutTurl, Answered
    <2> QED
      BY <1>1, <2>1, <2>2, ReleaseOnward, QuietStep
  <1>3. CASE LsOpendir(t)
    <2>1. call' = [call EXCEPT ![t] = Idle]
      BY <1>3 DEF LsOpendir, Leak
    <2> QED
      BY <1>1, <2>1, IdleOnward, QuietStep
  <1>4. CASE EndpointType(t)
    <2>1. call[t].at # "idle"
      BY <1>4 DEF EndpointType, Asked
    <2>2. Release(t, call[t].rest) \/ call' = [call EXCEPT ![t] = Idle]
      BY <1>4 DEF EndpointType, Answered, Leak
    <2> QED
      BY <1>1, <2>1, <2>2, ReleaseOnward, IdleOnward, QuietStep
  <1>5. CASE Closedir(t)
    BY <1>1, <1>5, QuietStep DEF Closedir
  <1>6. CASE InnerOpen(t)
    <2>1. call' = [call EXCEPT ![t] = Idle]
      BY <1>6 DEF InnerOpen
    <2> QED
      BY <1>1, <2>1, IdleOnward, QuietStep
  <1>7. CASE Close(t)
    <2> DEFINE c == [at |-> "inner", section |-> "inner close", url |-> file[t].url, ep |-> "",
                     rest |-> <<IF file[t].put THEN "putdone" ELSE "release">>]
    <2>1. call' = [call EXCEPT ![t] = c] /\ file[t].open
      BY <1>7 DEF Close
    <2>2. c.at = "inner" /\ c.url = file[t].url
      OBVIOUS
    <2>3. file[t].url \in Urls
      BY <2>1 DEF UrlsUsed
    <2> HIDE DEF c
    <2>4. Onward(t)
      BY <2>1, <2>2, <2>3 DEF Onward
    <2> QED
      BY <1>1, <2>4, QuietStep
  <1>8. CASE InnerClose(t)
    <2>1. call[t].at # "idle"
      BY <1>8 DEF InnerClose
    <2>2. call[t].rest \in Seq(Following)
      BY <2>1 DEF SrmTypeOK
    <2>3. \/ call' = [call EXCEPT ![t] = Follow(t, call[t].rest)]
          \/ call' = [call EXCEPT ![t] = Idle]
      BY <1>8 DEF InnerClose
    <2>4. Onward(t)
      BY <2>1, <2>2, <2>3, FollowOnward, IdleOnward
    <2> QED
      BY <1>1, <2>4, QuietStep
  <1> QED
    BY <1>2, <1>3, <1>4, <1>5, <1>6, <1>7, <1>8

\* readdir caches only what the server says of entries.
LEMMA ReaddirCaches ==
    ASSUME CacheOK, SrmTypeOK, UrlsUsed, ListingsRight, NEW t \in Threads, Readdir(t)
    PROVE  CacheOK' /\ UrlsStay
  <1>1. call' = call /\ UNCHANGED tree
    BY DEF Readdir, server, session
  <1>2. RemovingFewer /\ UrlsStay
    BY <1>1, OnwardRight DEF UrlsStay
  <1>c. CacheTypeOK
    BY DEF CacheOK
  <1>3. \/ UNCHANGED <<cache, excused>>
        \/ \E e \in PageEntries : CacheAdd(e.path, e.kind)
    BY <1>c, ReaddirRight
  <1>4. CASE UNCHANGED <<cache, excused>>
    BY <1>1, <1>4, QuietStep
  <1>5. CASE \E e \in PageEntries : CacheAdd(e.path, e.kind)
    <2>1. PICK e \in PageEntries : CacheAdd(e.path, e.kind)
      BY <1>5
    <2> DEFINE u == e.path
               kind == e.kind
    <2>2. u \in Names /\ kind \in Kinds \ {"absent"}
      BY <2>1 DEF PageEntries
    <2>3. u \in Urls
      BY <2>2, SrmNamesAssumption DEF Names
    <2> HIDE DEF u, kind
    <2>4. CacheAdd(u, kind)
      BY <2>1 DEF u, kind
    <2> QED
      BY <1>1, <1>2, <2>2, <2>3, <2>4, AddRight
  <1> QED
    BY <1>3, <1>4, <1>5

\* Another process changes the tree: what was cached of it is excused.
LEMMA MeddleRight ==
    ASSUME CacheOK, SrmTypeOK, UrlsUsed, NEW p \in Contested["srm"], SrmMeddle(p)
    PROVE  CacheOK' /\ UrlsStay
  <1>1. p \in Paths
    BY SrmNamesAssumption
  <1>2. tree \in [Paths -> Kinds]
    BY DEF CacheOK, CacheTypeOK
  <1>3. call' = call /\ cache' = cache
        /\ excused' = excused \cup {u \in Urls : Cached(u) /\ tree'[PathOf[u]] # tree[PathOf[u]]}
    BY DEF SrmMeddle, session
  <1>4. tree' \in [Paths -> Kinds]
    <2>1. tree' \in Meddled(p)
      BY DEF SrmMeddle, Meddle
    <2>2. \E k \in {"dir", "file", "absent"} : tree' = [tree EXCEPT ![p] = k]
      BY <2>1 DEF Meddled, With, Without
    <2> QED
      BY <1>1, <1>2, <2>2 DEF Kinds
  <1>5. CacheTypeOK'
    BY <1>3, <1>4 DEF CacheOK, CacheTypeOK
  <1>6. ASSUME NEW v \in Urls, cache'[v].uses > 0 PROVE OldEntry(v)
    <2>1. Cached(v) /\ cache'[v].kind = cache[v].kind
      BY <1>3, <1>6 DEF Cached
    <2>2. Removing(v)' => Removing(v)
      BY <1>3 DEF Removing
    <2>3. v \notin excused' => v \notin excused /\ tree'[PathOf[v]] = tree[PathOf[v]]
      BY <1>3, <2>1
    <2> QED
      BY <2>1, <2>2, <2>3 DEF OldEntry
  <1>7. UrlsStay
    BY <1>3 DEF UrlsStay, UrlsUsed
  <1> QED
    BY <1>5, <1>6, <1>7, EntriesKeepRight

\* All steps of a thread
LEMMA ThreadCaches ==
    ASSUME CacheOK, SrmTypeOK, UrlsUsed, ListingsRight, NEW t \in Threads, SrmOf(t)
    PROVE  CacheOK' /\ UrlsStay
  <1>1. CASE \E m \in menu[t] : Call(t, m[1], m[2]) \/ Open(t, m[1], m[2])
    <2>1. PICK m \in menu[t] : Call(t, m[1], m[2])
      BY <1>1 DEF Open
    <2> QED
      BY <2>1, CallRight
  <1>2. CASE GetContext(t) /\ UNCHANGED server
    BY <1>2, ContextRight
  <1>3. CASE EndpointFails(t) /\ UNCHANGED server
    BY <1>3, FailsRight
  <1>4. CASE LsStat(t)
    BY <1>4, LsStatRight
  <1>5. CASE LsStatus(t)
    BY <1>5, LsStatusRight
  <1>6. CASE LsRmdir(t)
    BY <1>6, LsRmdirRight
  <1>7. CASE LsMkdir(t)
    BY <1>7, LsMkdirRight
  <1>8. CASE Change(t)
    BY <1>8, ChangeRight, OnwardRight DEF UrlsStay
  <1>9. CASE Readdir(t)
    BY <1>9, ReaddirCaches
  <1>10. CASE PutDone(t)
    BY <1>10, PutDoneRight
  <1>11. CASE \/ LsSum(t) \/ LsOpendir(t) \/ Access(t) \/ Space(t) \/ EndpointType(t) \/ IsCastor(t)
              \/ Closedir(t) \/ GetTurl(t) \/ PutTurl(t) \/ InnerOpen(t) \/ Close(t)
              \/ InnerClose(t) \/ ReleaseFile(t)
    BY <1>11, OtherRight
  <1> QED
    BY <1>1, <1>2, <1>3, <1>4, <1>5, <1>6, <1>7, <1>8, <1>9, <1>10, <1>11 DEF SrmOf

\* What a lost context changes of an open directory is not what is listed.
Marked(l, m) ==
    /\ DOMAIN m = DOMAIN l
    /\ m.open = l.open /\ m.path = l.path /\ m.offset = l.offset /\ m.chunk = l.chunk
    /\ m.chunked = l.chunked /\ m.loaded = l.loaded /\ m.page = l.page /\ m.index = l.index
    /\ m.start = l.start /\ m.given = l.given /\ m.ended = l.ended

\* A directory that has lost its context is in step as before.
LEMMA MarkedRight ==
    ASSUME NEW l, NEW m, ListingTypeOK(l), Marked(l, m)
    PROVE  /\ SameDirectory(l, m)
           /\ \A all : InStep(l, all) => InStep(m, all)
  <1>1. SameDirectory(l, m)
    BY DEF Marked, SameDirectory, ListingTypeOK
  <1>2. ASSUME NEW all, InStep(l, all) PROVE InStep(m, all)
    <2>1. l.loaded => Slice(m, all)
      BY <1>2 DEF InStep, Marked, Slice
    <2>2. GivenSoFar(m, all)
      BY <1>2 DEF InStep, Marked, GivenSoFar
    <2> QED
      BY <1>2, <2>1, <2>2 DEF InStep, Marked
  <1> QED
    BY <1>1, <1>2

\* A directory just opened is in step with whatever there is.
LEMMA OpenedRight ==
    ASSUME NEW u, NEW w \in Windows
    PROVE  /\ ListingTypeOK(OpenListing(u, w))
           /\ \A all : InStep(OpenListing(u, w), all)
  <1> DEFINE l == OpenListing(u, w)
  <1>1. /\ l.offset = w[1] /\ l.chunk = w[2] /\ l.chunked = (w # <<0, 0>>) /\ l.loaded = FALSE
        /\ l.page = <<>> /\ l.index = 0 /\ l.start = w[1] /\ l.given = <<>> /\ l.ended = FALSE
        /\ DOMAIN l = {"open", "live", "exposed", "path", "ep", "offset", "chunk", "chunked",
                       "loaded", "page", "index", "start", "given", "ended"}
    BY DEF OpenListing
  <1>2. w = <<0, 0>> \/ (w[1] \in Nat /\ w[2] \in Nat \ {0})
    BY SrmNamesAssumption
  <1>3. w[1] \in Nat /\ w[2] \in Nat /\ (w = <<0, 0>> => w[1] = 0)
    BY <1>2
  <1>4. <<>> \in Seq(PageEntries) /\ <<>> \in Seq(Names) /\ Len(<<>>) = 0
    OBVIOUS
  <1> HIDE DEF l
  <1>5. ListingTypeOK(l)
    BY <1>1, <1>3, <1>4 DEF ListingTypeOK
  <1>6. ASSUME NEW all PROVE InStep(l, all)
    <2>1. GivenSoFar(l, all)
      <3>1. (IF l.loaded THEN l.offset + l.index ELSE l.offset) - l.start = 0
        BY <1>1, <1>3
      <3> QED
        BY <1>1, <1>4, <3>1 DEF GivenSoFar
    <2>2. IF l.chunked THEN l.chunk >= 1 ELSE l.offset = 0 /\ l.start = 0
      <3>1. CASE w = <<0, 0>>
        <4>1. ~l.chunked
          BY <1>1, <3>1
        <4> QED
          BY <1>1, <1>3, <3>1, <4>1
      <3>2. CASE w # <<0, 0>>
        <4>1. l.chunked
          BY <1>1, <3>2
        <4>2. w[2] \in Nat \ {0}
          BY <1>2, <3>2
        <4> QED
          BY <1>1, <4>1, <4>2
      <3> QED
        BY <3>1, <3>2
    <2> QED
      BY <1>1, <2>1, <2>2 DEF InStep
  <1> QED
    BY <1>5, <1>6 DEF l

\* Kept(t): the directory of t is as it was for what is listed; see ListingsKeepRight.
Kept(t) ==
    /\ listing[t].open /\ SameDirectory(listing[t], listing'[t])
    /\ t \notin changed => InStep(listing'[t], InOrder(Content(listing[t].path)))

\* What is not touched is kept.
LEMMA KeptSame ==
    ASSUME ListingsRight, NEW t \in Threads, listing[t].open,
           listing'[t] = listing[t] \/ Marked(listing[t], listing'[t])
    PROVE  Kept(t)
  <1>1. ListingTypeOK(listing[t])
        /\ (t \notin changed => InStep(listing[t], InOrder(Content(listing[t].path))))
    BY DEF ListingsRight
  <1>2. CASE listing'[t] = listing[t]
    BY <1>1, <1>2 DEF Kept, SameDirectory
  <1>3. CASE Marked(listing[t], listing'[t])
    BY <1>1, <1>3, MarkedRight DEF Kept
  <1> QED
    BY <1>2, <1>3

\* Directories that stay as they are
LEMMA ListingsStay ==
    ASSUME ListingsRight, changed' = Changed,
           \A s \in Threads : listing'[s].open =>
              listing[s].open /\ (listing'[s] = listing[s] \/ Marked(listing[s], listing'[s]))
    PROVE  ListingsRight'
  <1>1. \A s \in Threads : listing'[s].open => Kept(s)
    BY KeptSame
  <1> QED
    BY <1>1, ListingsKeepRight DEF Kept

\* Only the directory of t changes.
LEMMA ListingOfOne ==
    ASSUME ListingsRight, changed' = Changed, SrmTypeOK, NEW t \in Threads, NEW m,
           listing' = [listing EXCEPT ![t] = m],
           \/ ~m.open
           \/ /\ listing[t].open /\ SameDirectory(listing[t], m)
              /\ t \notin changed => InStep(m, InOrder(Content(listing[t].path)))
           \/ ListingTypeOK(m) /\ \A all : InStep(m, all)
    PROVE  ListingsRight'
  <1>1. DOMAIN listing = Threads
    BY DEF SrmTypeOK
  <1>2. listing'[t] = m /\ \A s \in Threads : s # t => listing'[s] = listing[s]
    BY <1>1
  <1>3. \A s \in Threads : s # t /\ listing'[s].open => Kept(s)
    BY <1>2, KeptSame
  <1>4. listing'[t].open => \/ Kept(t)
                            \/ ListingTypeOK(listing'[t]) /\ \A all : InStep(listing'[t], all)
    BY <1>2 DEF Kept
  <1> QED
    BY <1>3, <1>4, ListingsKeepRight DEF Kept

\* The directories after any step of a thread.
LEMMA ThreadLists ==
    ASSUME CacheOK, SrmTypeOK, ListingsRight, changed' = Changed, NEW t \in Threads, SrmOf(t)
    PROVE  ListingsRight'
  <1>1. CASE listing' = listing
    BY <1>1, ListingsStay
  <1>d. DOMAIN listing = Threads
    BY DEF SrmTypeOK
  <1>2. CASE GetContext(t)
    <2>1. PICK same \in BOOLEAN :
            listing' = [s \in Threads |-> IF listing[s].open /\ ~same
                            THEN [listing[s] EXCEPT !.live = FALSE, !.exposed = @ \/ s = t]
                            ELSE listing[s]]
      BY <1>2 DEF GetContext
    <2>2. ASSUME NEW s \in Threads, listing'[s].open
          PROVE  /\ listing[s].open
                 /\ listing'[s] = listing[s] \/ Marked(listing[s], listing'[s])
      <3> DEFINE m == [listing[s] EXCEPT !.live = FALSE, !.exposed = @ \/ s = t]
      <3>1. CASE listing[s].open /\ ~same
        <4>1. listing'[s] = m
          BY <2>1, <3>1
        <4>2. ListingTypeOK(listing[s])
          BY <3>1 DEF ListingsRight
        <4>3. Marked(listing[s], m)
          BY <4>2 DEF ListingTypeOK, Marked
        <4> QED
          BY <3>1, <4>1, <4>3
      <3>2. CASE ~(listing[s].open /\ ~same)
        BY <2>1, <2>2, <3>2
      <3> QED
        BY <3>1, <3>2
    <2> QED
      BY <2>2, ListingsStay
  <1>3. CASE EndpointFails(t) /\ listing' # listing
    <2>1. listing' = [listing EXCEPT ![t].exposed = TRUE] /\ listing[t].open
      BY <1>3 DEF EndpointFails
    <2> DEFINE m == [listing[t] EXCEPT !.exposed = TRUE]
    <2>2. listing'[t] = m /\ \A s \in Threads : s # t => listing'[s] = listing[s]
      BY <1>d, <2>1
    <2>3. ListingTypeOK(listing[t])
      BY <2>1 DEF ListingsRight
    <2>4. Marked(listing[t], m)
      BY <2>3 DEF ListingTypeOK, Marked
    <2> HIDE DEF m
    <2>5. \A s \in Threads : listing'[s].open =>
            listing[s].open /\ (listing'[s] = listing[s] \/ Marked(listing[s], listing'[s]))
      BY <2>1, <2>2, <2>4
    <2> QED
      BY <2>5, ListingsStay
  <1>4. CASE LsOpendir(t) /\ listing' # listing
    <2>1. PICK w \in Windows : listing' = [listing EXCEPT ![t] = OpenListing(call[t].url, w)]
      BY <1>4 DEF LsOpendir
    <2> DEFINE m == OpenListing(call[t].url, w)
    <2>2. ListingTypeOK(m) /\ \A all : InStep(m, all)
      BY OpenedRight
    <2> HIDE DEF m
    <2>3. listing' = [listing EXCEPT ![t] = m]
      BY <2>1 DEF m
    <2> QED
      BY <2>2, <2>3, ListingOfOne
  <1>5. CASE Readdir(t)
    <2>c. CacheTypeOK
      BY DEF CacheOK
    <2>1. PICK m : /\ \/ listing' = [listing EXCEPT ![t] = m]
                      \/ listing' = listing /\ m = listing[t]
                   /\ SameDirectory(listing[t], m)
                   /\ t \notin changed => InStep(m, InOrder(Content(listing[t].path)))
      BY <1>5, <2>c, ReaddirRight
    <2>2. listing[t].open
      BY <1>5 DEF Readdir
    <2>3. CASE listing' = [listing EXCEPT ![t] = m]
      BY <2>1, <2>2, <2>3, ListingOfOne
    <2> QED
      BY <1>1, <2>1, <2>3
  <1>6. CASE Closedir(t)
    <2>1. listing' = [listing EXCEPT ![t] = NoListing] /\ ~NoListing.open
      BY <1>6 DEF Closedir, NoListing
    <2> QED
      BY <2>1, ListingOfOne
  <1>7. CASE \E m \in menu[t] : Call(t, m[1], m[2]) \/ Open(t, m[1], m[2])
    BY <1>1, <1>7 DEF Call, Open
  <1>8. CASE \/ LsStat(t) \/ LsStatus(t) \/ LsSum(t) \/ LsRmdir(t) \/ LsMkdir(t) \/ Access(t)
             \/ Space(t) \/ EndpointType(t) \/ IsCastor(t) \/ Change(t) \/ GetTurl(t) \/ PutTurl(t)
             \/ InnerOpen(t) \/ Close(t) \/ InnerClose(t) \/ PutDone(t) \/ ReleaseFile(t)
    BY <1>1, <1>8 DEF LsStat, LsStatus, LsSum, LsRmdir, LsMkdir, Access, Space, EndpointType,
           IsCastor, Change, GetTurl, PutTurl, InnerOpen, Close, InnerClose, PutDone, ReleaseFile,
           Answered
  <1> QED
    BY <1>1, <1>2, <1>3, <1>4, <1>5, <1>6, <1>7, <1>8 DEF SrmOf

\* What files are opened by: a URL of the application.
LEMMA FilesStay ==
    ASSUME UrlsUsed, NEW t \in Threads, SrmOf(t)
    PROVE  /\ menu' = menu /\ DOMAIN file' = Threads
           /\ \A s \in Threads : file'[s].open => file'[s].url \in Urls
  <1> DEFINE Goal == /\ menu' = menu /\ DOMAIN file' = Threads
                     /\ \A s \in Threads : file'[s].open => file'[s].url \in Urls
  <1>0. DOMAIN file = Threads /\ \A s \in Threads : file[s].open => file[s].url \in Urls
    BY DEF UrlsUsed
  <1>1. CASE file' = file
    <2>1. menu' = menu
      BY <1>1 DEF SrmOf, Call, Open, GetContext, EndpointFails, LsStat, LsStatus, LsSum, LsRmdir,
                  LsMkdir, LsOpendir, Access, Space, EndpointType, IsCastor, Answered, Change,
                  Readdir, Closedir, GetTurl, PutTurl, InnerOpen, Close, InnerClose, PutDone,
                  ReleaseFile
    <2> QED
      BY <1>0, <1>1, <2>1
  <1>2. ASSUME NEW f, menu' = menu, file' = [file EXCEPT ![t] = f], f.open => f.url \in Urls
        PROVE  Goal
    BY <1>0, <1>2
  <1>3. CASE InnerOpen(t) /\ file' # file
    <2> DEFINE f == [open |-> TRUE, url |-> call[t].url, put |-> call[t].section = "open put"]
    <2>1. menu' = menu /\ file' = [file EXCEPT ![t] = f] /\ call[t].at # "idle"
      BY <1>3 DEF InnerOpen
    <2>2. f.url \in Urls
      BY <2>1 DEF UrlsUsed
    <2> HIDE DEF f
    <2> QED
      BY <1>2, <2>1, <2>2
  <1>4. CASE PutDone(t) \/ ReleaseFile(t)
    <2>1. menu' = menu /\ file' = [file EXCEPT ![t] = NoFile] /\ ~NoFile.open
      BY <1>4 DEF PutDone, ReleaseFile, NoFile
    <2> HIDE DEF Goal
    <2>2. Goal
      BY <1>2, <2>1
    <2> QED
      BY <2>2 DEF Goal
  <1>5. file' = file \/ InnerOpen(t) \/ PutDone(t) \/ ReleaseFile(t)
    BY DEF SrmOf, Open, GetTurl, PutTurl, Close, InnerClose
  <1> QED
    BY <1>1, <1>3, <1>4, <1>5

SrmEntries == UrlsUsed /\ ListingsRight /\ CacheOK

\* One step of the SRM plugin or of the other process.
LEMMA SrmEntriesRight ==
    ASSUME SrmTypeOK, SrmEntries, SrmNext
    PROVE  SrmEntries'
  <1>0. UrlsUsed /\ ListingsRight /\ CacheOK /\ changed' = Changed
    BY DEF SrmEntries, SrmNext
  <1>1. ASSUME NEW t \in Threads, SrmOf(t) PROVE SrmEntries'
    <2>1. CacheOK' /\ UrlsStay
      BY <1>0, <1>1, ThreadCaches
    <2>2. ListingsRight'
      BY <1>0, <1>1, ThreadLists
    <2>3. /\ menu' = menu /\ DOMAIN file' = Threads
          /\ \A s \in Threads : file'[s].open => file'[s].url \in Urls
      BY <1>0, <1>1, FilesStay
    <2>4. UrlsUsed'
      BY <1>0, <2>1, <2>3 DEF UrlsUsed, UrlsStay
    <2> QED
      BY <2>1, <2>2, <2>4 DEF SrmEntries
  <1>2. ASSUME NEW p \in Contested["srm"], SrmMeddle(p) PROVE SrmEntries'
    <2>1. CacheOK' /\ UrlsStay
      BY <1>0, <1>2, MeddleRight
    <2>2. listing' = listing /\ menu' = menu /\ file' = file
      BY <1>2 DEF SrmMeddle
    <2>3. ListingsRight'
      BY <1>0, <2>2, ListingsStay
    <2>4. UrlsUsed'
      BY <1>0, <2>1, <2>2 DEF UrlsUsed, UrlsStay
    <2> QED
      BY <2>1, <2>3, <2>4 DEF SrmEntries
  <1> QED
    BY <1>1, <1>2 DEF SrmNext

\* The entries of EntriesInv, in these words
LEMMA EntriesByPart ==
    EntriesInv <=> /\ plugin = "srm" => SrmEntries
                   /\ plugin # "srm" => /\ \A u \in Urls : ~Cached(u)
                                        /\ \A t \in Threads : ~listing[t].open
  BY DEF EntriesInv, SrmEntries, CacheOK

\* Nothing is cached or open at first.
LEMMA EntriesInitially == Init => EntriesInv
  <1> SUFFICES ASSUME Init PROVE EntriesInv
    OBVIOUS
  <1>1. SessionInit /\ FilesInit /\ NsInit
    BY DEF Init
  <1>2. /\ \A t \in Threads : call[t].at = "idle" /\ ~listing[t].open
        /\ \A u \in Urls : cache[u] = NoEntry
        /\ DOMAIN file = Threads
        /\ \A t \in Threads : ~file[t].open
    BY <1>1 DEF SessionInit, FilesInit, Idle, NoListing, NoFile
  <1>3. \A u \in Urls : ~Cached(u)
    BY <1>2 DEF Cached, NoEntry
  <1>4. ASSUME plugin = "srm" PROVE SrmEntries
    <2>1. menu \in Menus
      BY <1>1, <1>4 DEF SessionInit, PickFor
    <2>2. UrlsUsed
      BY <1>2, <2>1 DEF UrlsUsed
    <2>3. ListingsRight
      BY <1>2 DEF ListingsRight
    <2>4. tree \in [Paths -> Kinds]
      BY <1>1, <1>4, SrmNamesAssumption DEF NsInit
    <2>5. NoEntry \in [kind : Kinds \cup {"none"}, uses : Nat]
      BY DEF NoEntry
    <2>6. CacheTypeOK
      BY <1>1, <2>4, <2>5 DEF CacheTypeOK, SessionInit
    <2>7. CachedThere /\ ForgottenFirst /\ NoStaleEntry
      BY <1>3 DEF CachedThere, ForgottenFirst, NoStaleEntry
    <2> QED
      BY <2>2, <2>3, <2>6, <2>7 DEF SrmEntries, CacheOK
  <1> QED
    BY <1>2, <1>3, <1>4, EntriesByPart

\* Other plugins leave the state of the SRM plugin alone.
LEMMA EntriesPreserved == SrmInv /\ EntriesInv /\ [Next]_vars => EntriesInv'
  <1> SUFFICES ASSUME SrmInv, EntriesInv, [Next]_vars PROVE EntriesInv'
    OBVIOUS
  <1>0. plugin' = plugin
    BY DEF Next, vars
  <1>e. EntriesInv' <=> /\ plugin' = "srm" => SrmEntries'
                        /\ plugin' # "srm" => /\ \A u \in Urls : ~Cached(u)'
                                              /\ \A t \in Threads : ~listing'[t].open
    BY DEF EntriesInv, SrmEntries, CacheOK
  <1>1. CASE plugin = "srm" /\ Next
    <2>1. SrmNext
      BY <1>1 DEF Next
    <2>2. SrmTypeOK /\ SrmEntries
      BY <1>1, EntriesByPart DEF SrmInv
    <2>3. SrmEntries'
      BY <2>1, <2>2, SrmEntriesRight
    <2> QED
      BY <1>0, <1>1, <1>e, <2>3
  <1>2. CASE plugin # "srm"
    <2>1. cache' = cache /\ listing' = listing
      BY <1>2 DEF Next, vars, srmState, srm
    <2>2. (\A u \in Urls : ~Cached(u)) /\ (\A t \in Threads : ~listing[t].open)
      BY <1>2 DEF EntriesInv
    <2>3. (\A u \in Urls : ~Cached(u)') /\ (\A t \in Threads : ~listing'[t].open)
      BY <2>1, <2>2 DEF Cached
    <2> QED
      BY <1>0, <1>2, <1>e, <2>3
  <1>3. CASE plugin = "srm" /\ UNCHANGED vars
    <2>1. /\ UNCHANGED <<tree, menu, call, file, listing, cache, excused, changed>>
      BY <1>3 DEF vars, server, srmState, srm, session
    <2>2. SrmEntries
      BY <1>3, EntriesByPart
    <2>3. \A p : Content(p)' = Content(p)
      BY <2>1 DEF Content, Exists
    <2>4. ListingsRight'
      <3> SUFFICES ASSUME NEW t \in Threads, listing'[t].open
                   PROVE  /\ ListingTypeOK(listing'[t])
                          /\ t \notin changed' =>
                                InStep(listing'[t], InOrder(Content(listing[t].path)'))
        BY DEF ListingsRight
      <3>1. /\ ListingTypeOK(listing[t])
            /\ t \notin changed => InStep(listing[t], InOrder(Content(listing[t].path)))
        BY <2>1, <2>2 DEF SrmEntries, ListingsRight
      <3>2. Content(listing[t].path)' = Content(listing[t].path)
        BY <2>1 DEF Content, Exists
      <3> QED
        BY <2>1, <3>1, <3>2
    <2>5. UrlsUsed'
      BY <2>1, <2>2 DEF SrmEntries, UrlsUsed
    <2>6. CacheOK'
      BY <2>1, <2>2
         DEF SrmEntries, CacheOK, CacheTypeOK, CachedThere, Cached, ForgottenFirst, Removing,
             NoStaleEntry
    <2>7. SrmEntries'
      BY <2>4, <2>5, <2>6 DEF SrmEntries
    <2> QED
      BY <1>0, <1>3, <1>e, <2>7
  <1> QED
    BY <1>1, <1>2, <1>3

\* For any threads, URLs, menus of calls and size of the cache: what the stat cache
\* of the SRM plugin has is what stat would find, but for the entries that the
\* plugin cannot know to be out of date.
THEOREM NoEntryStale == Spec => []NoStaleEntry
  <1>1. EntriesInv => NoStaleEntry
    BY DEF EntriesInv, NoStaleEntry
  <1> QED
    BY <1>1, SrmInitially, SrmPreserved, EntriesInitially, EntriesPreserved, PTL DEF Spec

\* What a directory that is listed to its end has given
LEMMA ListedFully ==
    ASSUME NEW l, NEW all, ListingTypeOK(l), all \in Seq(Names), InStep(l, all), l.ended
    PROVE  l.given = SubSeq(all, l.start + 1, Len(all))
  <1> DEFINE n == Len(all)
             part == SubSeq(all, l.start + 1, n)
             left == IF n > l.offset THEN n - l.offset ELSE 0
  <1>1. n \in Nat /\ n <= n
    OBVIOUS
  <1>2. /\ l.offset \in Nat /\ l.chunk \in Nat /\ l.index \in Nat /\ l.start \in Nat
        /\ l.given \in Seq(Names)
    BY DEF ListingTypeOK
  <1>3. part \in Seq(Names) /\ IsPart(part, all, l.start, n)
    BY <1>1, <1>2, PartOf
  <1>4. l.loaded /\ l.index = Len(l.page) /\ Slice(l, all) /\ GivenSoFar(l, all)
    BY DEF InStep
  <1>5. l.offset = l.start \/ (l.start < l.offset /\ l.offset <= n)
    BY DEF InStep
  <1>6. Len(l.page) = IF l.chunked /\ l.chunk < left THEN l.chunk ELSE left
    BY <1>4 DEF Slice
  <1>7. l.chunked => l.index < l.chunk
    BY <1>4 DEF Slice
  <1>8. /\ Len(l.given) = (l.offset + l.index) - l.start
        /\ \A i \in 1 .. Len(l.given) : l.given[i] = all[l.start + i]
    BY <1>4 DEF GivenSoFar
  <1> HIDE DEF part, n
  <1>9. left \in Nat /\ l.index = left
    BY <1>1, <1>2, <1>4, <1>6, <1>7
  <1>10. Len(l.given) = IF n > l.start THEN n - l.start ELSE 0
    BY <1>1, <1>2, <1>5, <1>8, <1>9
  <1>11. /\ Len(part) = IF n > l.start THEN n - l.start ELSE 0
         /\ \A i \in 1 .. Len(part) : part[i] = all[l.start + i]
    BY <1>3 DEF IsPart
  <1>12. l.given = part
    BY <1>2, <1>3, <1>8, <1>10, <1>11, SeqEqual
  <1> QED
    BY <1>12 DEF part, n

\* Whatever the server, the order in which it lists, its limit, the size of a chunk
\* and the window that is asked for: a directory that stays as it is, is listed
\* completely and each entry once.
THEOREM DirectoriesListedOnce == Spec => []ListedOnce
  <1>1. EntriesInv => ListedOnce
    <2> SUFFICES ASSUME EntriesInv, NEW t \in Threads, listing[t].open, listing[t].ended,
                        t \notin changed
                 PROVE  listing[t].given
                            = SubSeq(InOrder(Content(listing[t].path)), listing[t].start + 1,
                                     Len(InOrder(Content(listing[t].path))))
      BY DEF ListedOnce
    <2> DEFINE all == InOrder(Content(listing[t].path))
    <2>p. plugin = "srm"
      BY DEF EntriesInv
    <2>1. ListingTypeOK(listing[t]) /\ InStep(listing[t], all) /\ tree \in [Paths -> Kinds]
      BY <2>p DEF EntriesInv, ListingsRight, CacheTypeOK
    <2>2. all \in Seq(Names)
      BY <2>1, EntriesRight
    <2> HIDE DEF all
    <2>3. listing[t].given = SubSeq(all, listing[t].start + 1, Len(all))
      BY <2>1, <2>2, ListedFully
    <2> QED
      BY <2>3 DEF all
  <1> QED
    BY <1>1, SrmInitially, SrmPreserved, EntriesInitially, EntriesPreserved, PTL DEF Spec
=============================================================================
