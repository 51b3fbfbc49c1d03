--------------------------- MODULE LocalCopyProofs --------------------------
(***************************************************************************)
(* Proofs about the copy streamed through the client, for files of any     *)
(* length, any timeout and any number of changes by another process.       *)
(***************************************************************************)
EXTENDS LocalCopy, TLAPS

USE SizesOK, TimeoutOK, MeddlingOK, StrictModesOK

\* The files the copy or another process may put at the destination.
LEMMA FileTypes ==
    /\ NoFile \in Files /\ ForeignFile \in Files
    /\ \A b \in BOOLEAN : OldFile(b) \in Files
    /\ [NoFile EXCEPT !.exists = TRUE, !.mine = TRUE, !.held = TRUE] \in Files
    /\ \A f \in Files : [f EXCEPT !.held = TRUE] \in Files
<1>1. <<>> \in Seq(Int) /\ <<Foreign>> \in Seq(Int)
  BY DEF Foreign
<1>2. [i \in 1 .. OldLen |-> Old] \in Seq(Int)
  BY DEF Old
<1> QED
  BY <1>1, <1>2 DEF Files, NoFile, ForeignFile, OldFile

\* Writing a chunk changes the content of the file behind the handle only; it
\* overwrites the chunk at the cursor or appends it.
LEMMA WrittenFile ==
    ASSUME dst \in Files, cursor \in 0 .. MaxLen, NoGap, NEW v \in Int
    PROVE  /\ Written(v) \in Files
           /\ Written(v).exists = dst.exists
           /\ Written(v).special = dst.special
           /\ Written(v).mine = dst.mine
           /\ Written(v).held = dst.held
           /\ dst.held /\ ~dst.special =>
                 (IF cursor < MaxLen THEN cursor + 1 ELSE cursor) <= Len(Written(v).data)
<1>1. CASE ~dst.held \/ dst.special \/ cursor >= MaxLen
  BY <1>1 DEF Written, NoGap
<1>2. CASE ~(~dst.held \/ dst.special \/ cursor >= MaxLen)
  <2> DEFINE n == IF Len(dst.data) > cursor THEN Len(dst.data) ELSE cursor + 1
             d == [i \in 1 .. n |-> IF i = cursor + 1 THEN v ELSE dst.data[i]]
  <2>1. dst.data \in Seq(Int) /\ Len(dst.data) \in Nat
    BY DEF Files
  <2>2. n \in Nat /\ cursor + 1 <= n
    BY <2>1
  <2>3. \A i \in 1 .. n : i = cursor + 1 \/ i \in 1 .. Len(dst.data)
    BY <1>2, <2>1 DEF NoGap
  <2>4. \A i \in 1 .. n : (IF i = cursor + 1 THEN v ELSE dst.data[i]) \in Int
    BY <2>1, <2>3
  <2>5. d \in Seq(Int) /\ Len(d) = n
    <3> HIDE DEF n
    <3> QED BY <2>2, <2>4
  <2>6. Written(v) = [dst EXCEPT !.data = d]
    BY <1>2 DEF Written
  <2> HIDE DEF d, n
  <2>7. Written(v) \in Files /\ Written(v).data = d
    BY <2>5, <2>6 DEF Files
  <2>8. /\ Written(v).exists = dst.exists /\ Written(v).special = dst.special
        /\ Written(v).mine = dst.mine /\ Written(v).held = dst.held
    BY <2>6 DEF Files
  <2> QED
    BY <1>2, <2>2, <2>5, <2>7, <2>8
<1> QED
  BY <1>1, <1>2

\* The next chunk after a prefix of the source makes a longer prefix.
LEMMA WrittenPrefix ==
    ASSUME dst \in Files, cursor \in Nat, cursor < MaxLen,
           dst.held, ~dst.special, dst.data = [i \in 1 .. cursor |-> i]
    PROVE  Written(cursor + 1).data = [i \in 1 .. cursor + 1 |-> i]
<1>1. Len(dst.data) = cursor
  BY DEF Files
<1> DEFINE d == [i \in 1 .. cursor + 1 |->
                    IF i = cursor + 1 THEN cursor + 1 ELSE dst.data[i]]
<1>2. Written(cursor + 1) = [dst EXCEPT !.data = d]
  <2> DEFINE n == IF Len(dst.data) > cursor THEN Len(dst.data) ELSE cursor + 1
  <2>1. Written(cursor + 1) =
           [dst EXCEPT !.data = [i \in 1 .. n |->
                                    IF i = cursor + 1 THEN cursor + 1 ELSE dst.data[i]]]
    BY DEF Written
  <2>2. n = cursor + 1
    BY <1>1
  <2> HIDE DEF n
  <2> QED
    BY <2>1, <2>2
<1>3. d = [i \in 1 .. cursor + 1 |-> i]
  OBVIOUS
<1> HIDE DEF d
<1> QED
  BY <1>2, <1>3 DEF Files

\* The initial states satisfy the invariant.
LEMMA InitIInv == Init => IInv
<1> SUFFICES ASSUME Init PROVE IInv
  OBVIOUS
<1>1. TypeOK
  <2>1. /\ endless \in BOOLEAN /\ parent \in BOOLEAN /\ canceled \in BOOLEAN
        /\ torn \in BOOLEAN /\ clobbered \in BOOLEAN
    BY Zenon DEF Init
  <2>2. dst \in Files
    BY FileTypes DEF Init
  <2> QED
    BY <2>1, <2>2 DEF Init, TypeOK, Before, Codes
<1>2. NoGap
  BY FileTypes DEF Init, NoGap, Files, NoFile, OldFile
<1>3. OwnDestination /\ PrefixWritten /\ EndMet
  BY DEF Init, OwnDestination, PrefixWritten, EndMet, Streamed, Succeeded, Streaming
<1>4. SourceSummed /\ Compared /\ KeepExisting
  BY DEF Init, SourceSummed, Compared, KeepExisting, Succeeded
<1> QED
  BY <1>1, <1>2, <1>3, <1>4 DEF IInv
\* Every step preserves the invariant.
LEMMA StepIInv == IInv /\ [Next]_vars => IInv'
<1> SUFFICES ASSUME IInv, [Next]_vars PROVE IInv'
  OBVIOUS
<1>0. TypeOK /\ NoGap /\ dst \in Files
  BY DEF IInv, TypeOK
<1>r. /\ read \in 0 .. SrcLen /\ cursor \in 0 .. MaxLen
      /\ clock \in 0 .. Timeout /\ meddled \in 0 .. MaxMeddling
  BY <1>0 DEF TypeOK
<1> USE DEF IInv, input, fileVars, envVars, Fail, GoTo, ScopedFails, Before, Streaming,
            Streamed, Succeeded
<1>1. CASE SourceChecksum
  <2>1. TypeOK'
    BY <1>1 DEF SourceChecksum, TypeOK, Codes
  <2>2. NoGap'
    BY <1>1 DEF SourceChecksum, NoGap, TypeOK
  <2>3. OwnDestination'
    BY <1>1 DEF SourceChecksum, OwnDestination, TypeOK, ExistingFile
  <2>4. PrefixWritten'
    BY <1>1 DEF SourceChecksum, PrefixWritten, TypeOK
  <2>5. EndMet'
    BY <1>1 DEF SourceChecksum, EndMet, TypeOK
  <2>6. SourceSummed' /\ Compared'
    BY <1>1 DEF SourceChecksum, SourceSummed, Compared, TypeOK, checksum_mode, user_checksum, compare_against
  <2>7. KeepExisting'
    BY <1>1 DEF SourceChecksum, KeepExisting, TypeOK
  <2> QED
    BY <2>1, <2>2, <2>3, <2>4, <2>5, <2>6, <2>7
<1>2. CASE StatParent
  <2>1. TypeOK'
    BY <1>2, ZenonT(30) DEF StatParent, TypeOK, Codes
  <2>2. NoGap'
    BY <1>2 DEF StatParent, NoGap, TypeOK
  <2>3. OwnDestination'
    BY <1>2 DEF StatParent, OwnDestination, TypeOK, ExistingFile
  <2>4. PrefixWritten'
    BY <1>2 DEF StatParent, PrefixWritten, TypeOK
  <2>5. EndMet'
    BY <1>2 DEF StatParent, EndMet, TypeOK
  <2>6. SourceSummed' /\ Compared'
    BY <1>2 DEF StatParent, SourceSummed, Compared, TypeOK, checksum_mode, user_checksum, compare_against
  <2>7. KeepExisting'
    BY <1>2 DEF StatParent, KeepExisting, TypeOK
  <2> QED
    BY <2>1, <2>2, <2>3, <2>4, <2>5, <2>6, <2>7
<1>3. CASE MakeParent
  <2>1. TypeOK'
    BY <1>3 DEF MakeParent, TypeOK, Codes
  <2>2. NoGap'
    BY <1>3 DEF MakeParent, NoGap, TypeOK
  <2>3. OwnDestination'
    BY <1>3 DEF MakeParent, OwnDestination, TypeOK, ExistingFile
  <2>4. PrefixWritten'
    BY <1>3 DEF MakeParent, PrefixWritten, TypeOK
  <2>5. EndMet'
    BY <1>3 DEF MakeParent, EndMet, TypeOK
  <2>6. SourceSummed' /\ Compared'
    BY <1>3 DEF MakeParent, SourceSummed, Compared, TypeOK, checksum_mode, user_checksum, compare_against
  <2>7. KeepExisting'
    BY <1>3 DEF MakeParent, KeepExisting, TypeOK
  <2> QED
    BY <2>1, <2>2, <2>3, <2>4, <2>5, <2>6, <2>7
<1>4. CASE StatDestination
  <2>1. TypeOK'
    <3>1. pc' \in Before \cup Streaming \cup {"done"} /\ err' \in Codes
      BY <1>4 DEF StatDestination, TypeOK, Codes
    <3> QED
      BY <1>4, <3>1 DEF StatDestination, TypeOK
  <2>2. NoGap'
    BY <1>4 DEF StatDestination, NoGap, TypeOK
  <2>3. OwnDestination'
    BY <1>4 DEF StatDestination, OwnDestination, TypeOK, ExistingFile
  <2>4. PrefixWritten'
    BY <1>4 DEF StatDestination, PrefixWritten, TypeOK
  <2>5. EndMet'
    BY <1>4 DEF StatDestination, EndMet, TypeOK
  <2>6. SourceSummed' /\ Compared'
    BY <1>4 DEF StatDestination, SourceSummed, Compared, TypeOK, checksum_mode, user_checksum, compare_against
  <2>7. KeepExisting'
    BY <1>4 DEF StatDestination, KeepExisting, TypeOK
  <2> QED
    BY <2>1, <2>2, <2>3, <2>4, <2>5, <2>6, <2>7
<1>5. CASE UnlinkDestination
  <2>a. dst' \in {dst, NoFile} /\ dst' \in Files
    BY <1>0, <1>5, FileTypes DEF UnlinkDestination
  <2>b. NoFile.exists = FALSE /\ NoFile.held = FALSE /\ NoFile.special = FALSE
    BY DEF NoFile
  <2>1. TypeOK'
    <3>1. pc' \in Before \cup Streaming \cup {"done"} /\ err' \in Codes
      BY <1>5 DEF UnlinkDestination, TypeOK, Codes
    <3>2. clobbered' \in BOOLEAN
      BY <1>5, <1>0, Zenon DEF UnlinkDestination, TypeOK
    <3> QED
      BY <1>5, <2>a, <3>1, <3>2 DEF UnlinkDestination, TypeOK
  <2>2. NoGap'
    BY <1>5, <2>a, <2>b DEF UnlinkDestination, NoGap, TypeOK
  <2>3. OwnDestination'
    BY <1>5, <2>a, <2>b DEF UnlinkDestination, OwnDestination, TypeOK, ExistingFile
  <2>4. PrefixWritten'
    BY <1>5 DEF UnlinkDestination, PrefixWritten, TypeOK
  <2>5. EndMet'
    BY <1>5 DEF UnlinkDestination, EndMet, TypeOK
  <2>6. SourceSummed' /\ Compared'
    BY <1>5 DEF UnlinkDestination, SourceSummed, Compared, TypeOK, checksum_mode, user_checksum, compare_against
  <2>7. KeepExisting'
    BY <1>5 DEF UnlinkDestination, OwnDestination, KeepExisting, TypeOK
  <2> QED
    BY <2>1, <2>2, <2>3, <2>4, <2>5, <2>6, <2>7
<1>6. CASE OpenSource
  <2>1. TypeOK'
    BY <1>6, ZenonT(30) DEF OpenSource, TypeOK, Codes
  <2>2. NoGap'
    BY <1>6 DEF OpenSource, NoGap, TypeOK
  <2>3. OwnDestination'
    BY <1>6 DEF OpenSource, OwnDestination, TypeOK, ExistingFile
  <2>4. PrefixWritten'
    BY <1>6 DEF OpenSource, PrefixWritten, TypeOK
  <2>5. EndMet'
    BY <1>6 DEF OpenSource, EndMet, TypeOK
  <2>6. SourceSummed' /\ Compared'
    BY <1>6 DEF OpenSource, SourceSummed, Compared, TypeOK, checksum_mode, user_checksum, compare_against
  <2>7. KeepExisting'
    BY <1>6 DEF OpenSource, KeepExisting, TypeOK
  <2> QED
    BY <2>1, <2>2, <2>3, <2>4, <2>5, <2>6, <2>7
<1>7. CASE OpenDestination
  <2>a. \/ dst' = dst /\ pc' = "done" /\ err' = "EIO"
        \/ /\ pc' = "copy" /\ UNCHANGED err
           /\ dst'.exists /\ dst'.held
           /\ IF dst.exists THEN dst' = [dst EXCEPT !.held = TRUE]
              ELSE dst'.mine /\ ~dst'.special /\ dst'.data = <<>>
    BY <1>0, <1>7 DEF OpenDestination, Files, NoFile
  <2>b. dst' \in Files
    BY <1>0, <1>7, FileTypes DEF OpenDestination
  <2>c. UNCHANGED <<par, endless, cursor, read, got, meddled, torn>>
    BY <1>7 DEF OpenDestination
  <2>d. cursor = 0 /\ read = 0
    BY <1>7 DEF OpenDestination, PrefixWritten
  <2>1. TypeOK'
    <3>1. pc' \in Before \cup Streaming \cup {"done"} /\ err' \in Codes
      BY <2>a DEF TypeOK, Codes
    <3>2. open' \subseteq {"source", "destination"}
      BY <1>7 DEF OpenDestination, TypeOK
    <3> QED
      BY <1>7, <2>b, <3>1, <3>2 DEF OpenDestination, TypeOK
  <2>2. NoGap'
    BY <2>b, <2>c, <2>d DEF NoGap, Files
  <2>3. OwnDestination'
    BY <1>7, <2>a, <2>c, <1>0 DEF OpenDestination, OwnDestination, ExistingFile, Files
  <2>4. PrefixWritten'
    <3>1. <<>> = [i \in 1 .. 0 |-> i]
      OBVIOUS
    <3>2. ASSUME dst.exists, ~par.strict, meddled = 0 PROVE dst.special
      BY <1>7, <3>2 DEF OpenDestination, OwnDestination, ExistingFile
    <3>3. dst.exists /\ dst' = [dst EXCEPT !.held = TRUE] => dst'.special = dst.special
      BY <1>0 DEF Files
    <3> QED
      BY <2>a, <2>c, <2>d, <3>1, <3>2, <3>3 DEF PrefixWritten
  <2>5. EndMet'
    BY <1>7 DEF OpenDestination, EndMet, TypeOK
  <2>6. SourceSummed' /\ Compared'
    BY <1>7 DEF OpenDestination, SourceSummed, Compared, TypeOK, checksum_mode, user_checksum, compare_against
  <2>7. KeepExisting'
    BY <1>7 DEF OpenDestination, KeepExisting, TypeOK
  <2> QED
    BY <2>1, <2>2, <2>3, <2>4, <2>5, <2>6, <2>7
<1>8. CASE CopyChunk
  <2>a. \/ dst' = dst /\ cursor' = cursor
        \/ /\ dst' = Written(read + 1) \/ dst' = Written(Torn)
           /\ cursor' = IF cursor < MaxLen THEN cursor + 1 ELSE cursor
    BY <1>8 DEF CopyChunk
  <2>e. clobbered' => clobbered \/ (dst.held /\ ~dst.mine /\ ~dst.special)
    BY <1>8 DEF CopyChunk
  <2>f. torn => torn'
    BY <1>8 DEF CopyChunk
  <2>b. read \in Nat /\ cursor \in 0 .. MaxLen /\ read + 1 \in Int /\ Torn \in Int
    BY <1>r DEF Torn
  <2>c. /\ dst' \in Files
        /\ dst'.exists = dst.exists /\ dst'.special = dst.special
        /\ dst'.mine = dst.mine /\ dst'.held = dst.held
        /\ dst.held /\ ~dst.special => cursor' <= Len(dst'.data)
    BY <1>0, <2>a, <2>b, WrittenFile DEF NoGap
  <2>d. pc = "copy" /\ pc' = "check" /\ UNCHANGED <<par, endless, meddled>>
    BY <1>8 DEF CopyChunk
  <2>1. TypeOK'
    <3>1. torn' \in BOOLEAN /\ clobbered' \in BOOLEAN
      BY <1>0, <1>8, Zenon DEF CopyChunk, TypeOK
    <3>2. got' \in {"data", "eof", "error"} /\ err' \in Codes
      BY <1>0, <1>8 DEF CopyChunk, TypeOK, Codes
    <3>3. read' \in 0 .. SrcLen
      BY <1>0, <1>8 DEF CopyChunk, TypeOK, AtEnd
    <3>4. cursor' \in 0 .. MaxLen
      BY <2>a, <2>b
    <3> QED
      BY <1>0, <1>8, <2>c, <3>1, <3>2, <3>3, <3>4 DEF CopyChunk, TypeOK
  <2>2. NoGap'
    BY <2>c DEF NoGap
  <2>3. OwnDestination'
    BY <2>c, <2>d DEF OwnDestination
  <2>4. PrefixWritten'
    <3> SUFFICES ASSUME err' = "none", ~endless, ~par.strict, meddled = 0,
                        ~dst.special, ~torn'
                 PROVE  cursor' = read' /\ dst'.data = [i \in 1 .. cursor' |-> i]
      BY <2>c, <2>d DEF PrefixWritten
    <3>1. err = "none" /\ ~torn
      BY <1>8, <2>f DEF CopyChunk
    <3>2. cursor = read /\ dst.data = [i \in 1 .. cursor |-> i] /\ dst.held
      BY <2>d, <3>1 DEF PrefixWritten, OwnDestination
    <3>3. CASE AtEnd
      BY <1>8, <3>2, <3>3 DEF CopyChunk
    <3>4. CASE ~AtEnd
      <4>1. read < SrcLen /\ cursor < MaxLen
        BY <1>r, <3>2, <3>4 DEF AtEnd
      <4>2. /\ read' = read + 1 /\ cursor' = cursor + 1
            /\ dst' = Written(cursor + 1)
        BY <1>8, <3>1, <3>2, <3>4, <4>1 DEF CopyChunk
      <4>3. dst'.data = [i \in 1 .. cursor + 1 |-> i]
        BY <1>0, <2>b, <3>2, <4>1, <4>2, WrittenPrefix
      <4> QED
        BY <3>2, <4>2, <4>3
    <3> QED
      BY <3>3, <3>4
  <2>5. EndMet'
    BY <1>0, <1>8 DEF CopyChunk, EndMet, AtEnd, TypeOK
  <2>6. SourceSummed' /\ Compared'
    BY <1>8 DEF CopyChunk, SourceSummed, Compared, TypeOK, checksum_mode, user_checksum, compare_against
  <2>7. KeepExisting'
    BY <2>e, <2>d DEF OwnDestination, KeepExisting
  <2> QED
    BY <2>1, <2>2, <2>3, <2>4, <2>5, <2>6, <2>7
<1>9. CASE CheckRound
  <2>1. TypeOK'
    BY <1>9 DEF CheckRound, TypeOK, Codes
  <2>2. NoGap'
    BY <1>9 DEF CheckRound, NoGap, TypeOK
  <2>3. OwnDestination'
    BY <1>9 DEF CheckRound, OwnDestination, TypeOK, ExistingFile
  <2>4. PrefixWritten'
    BY <1>9 DEF CheckRound, PrefixWritten, TypeOK
  <2>5. EndMet'
    BY <1>9 DEF CheckRound, EndMet, TypeOK
  <2>6. SourceSummed' /\ Compared'
    BY <1>9 DEF CheckRound, SourceSummed, Compared, TypeOK, checksum_mode, user_checksum, compare_against
  <2>7. KeepExisting'
    BY <1>9 DEF CheckRound, KeepExisting, TypeOK
  <2> QED
    BY <2>1, <2>2, <2>3, <2>4, <2>5, <2>6, <2>7
<1>10. CASE CloseFiles
  <2>1. TypeOK'
    BY <1>10 DEF CloseFiles, TypeOK, Codes
  <2>2. NoGap'
    BY <1>10 DEF CloseFiles, NoGap, TypeOK
  <2>3. OwnDestination'
    BY <1>10 DEF CloseFiles, OwnDestination, TypeOK, ExistingFile
  <2>4. PrefixWritten'
    BY <1>10 DEF CloseFiles, PrefixWritten, TypeOK
  <2>5. EndMet'
    BY <1>10 DEF CloseFiles, EndMet, TypeOK
  <2>6. SourceSummed' /\ Compared'
    BY <1>10 DEF CloseFiles, SourceSummed, Compared, TypeOK, checksum_mode, user_checksum, compare_against
  <2>7. KeepExisting'
    BY <1>10 DEF CloseFiles, KeepExisting, TypeOK
  <2> QED
    BY <2>1, <2>2, <2>3, <2>4, <2>5, <2>6, <2>7
<1>11. CASE TargetChecksum
  <2>1. TypeOK'
    BY <1>11 DEF TargetChecksum, TypeOK, Codes
  <2>2. NoGap'
    BY <1>11 DEF TargetChecksum, NoGap, TypeOK
  <2>3. OwnDestination'
    BY <1>11 DEF TargetChecksum, OwnDestination, TypeOK, ExistingFile
  <2>4. PrefixWritten'
    BY <1>11 DEF TargetChecksum, PrefixWritten, TypeOK
  <2>5. EndMet'
    BY <1>11 DEF TargetChecksum, EndMet, TypeOK
  <2>6. SourceSummed' /\ Compared'
    BY <1>11 DEF TargetChecksum, SourceSummed, Compared, TypeOK, checksum_mode, user_checksum, compare_against
  <2>7. KeepExisting'
    BY <1>11 DEF TargetChecksum, KeepExisting, TypeOK
  <2> QED
    BY <2>1, <2>2, <2>3, <2>4, <2>5, <2>6, <2>7
<1>12. CASE CancelCopy
  <2>1. TypeOK'
    <3>1. canceled' \in BOOLEAN
      BY <1>12, Zenon DEF CancelCopy
    <3> QED
      BY <1>0, <1>12, <3>1 DEF CancelCopy, TypeOK
  <2>2. NoGap'
    BY <1>12 DEF CancelCopy, NoGap, TypeOK
  <2>3. OwnDestination'
    BY <1>12 DEF CancelCopy, OwnDestination, TypeOK, ExistingFile
  <2>4. PrefixWritten'
    BY <1>12 DEF CancelCopy, PrefixWritten, TypeOK
  <2>5. EndMet'
    BY <1>12 DEF CancelCopy, EndMet, TypeOK
  <2>6. SourceSummed' /\ Compared'
    BY <1>12 DEF CancelCopy, SourceSummed, Compared, TypeOK, checksum_mode, user_checksum, compare_against
  <2>7. KeepExisting'
    BY <1>12 DEF CancelCopy, KeepExisting, TypeOK
  <2> QED
    BY <2>1, <2>2, <2>3, <2>4, <2>5, <2>6, <2>7
<1>13. CASE Tick
  <2>1. TypeOK'
    <3>1. clock' \in 0 .. Timeout
      BY <1>r, <1>13 DEF Tick
    <3> QED
      BY <1>0, <1>13, <3>1, ZenonT(30) DEF Tick, TypeOK
  <2>2. NoGap'
    BY <1>13 DEF Tick, NoGap, TypeOK
  <2>3. OwnDestination'
    BY <1>13 DEF Tick, OwnDestination, TypeOK, ExistingFile
  <2>4. PrefixWritten'
    BY <1>13 DEF Tick, PrefixWritten, TypeOK
  <2>5. EndMet'
    BY <1>13 DEF Tick, EndMet, TypeOK
  <2>6. SourceSummed' /\ Compared'
    BY <1>13 DEF Tick, SourceSummed, Compared, TypeOK, checksum_mode, user_checksum, compare_against
  <2>7. KeepExisting'
    BY <1>13 DEF Tick, KeepExisting, TypeOK
  <2> QED
    BY <2>1, <2>2, <2>3, <2>4, <2>5, <2>6, <2>7
<1>14. CASE Meddle
  <2>a. dst' \in Files /\ ~dst'.held
    <3>1. dst' \in {NoFile, ForeignFile}
      BY <1>14 DEF Meddle
    <3>2. ~NoFile.held /\ ~ForeignFile.held
      BY DEF NoFile, ForeignFile
    <3> QED
      BY <3>1, <3>2, FileTypes
  <2>b. meddled' \in 0 .. MaxMeddling /\ meddled' # 0 /\ pc' = pc /\ pc # "done"
    BY <1>r, <1>14 DEF Meddle
  <2>1. TypeOK'
    BY <1>0, <1>14, <2>a, <2>b, ZenonT(30) DEF Meddle, TypeOK
  <2>2. NoGap'
    BY <2>a DEF NoGap
  <2>3. OwnDestination'
    BY <1>14, <2>b DEF Meddle, OwnDestination
  <2>4. PrefixWritten'
    BY <1>14, <2>b DEF Meddle, PrefixWritten
  <2>5. EndMet'
    BY <1>14 DEF Meddle, EndMet, TypeOK
  <2>6. SourceSummed' /\ Compared'
    BY <1>14 DEF Meddle, SourceSummed, Compared, TypeOK, checksum_mode, user_checksum, compare_against
  <2>7. KeepExisting'
    BY <2>b DEF KeepExisting
  <2> QED
    BY <2>1, <2>2, <2>3, <2>4, <2>5, <2>6, <2>7
<1>15. CASE UNCHANGED vars
  <2>1. TypeOK'
    BY <1>15, ZenonT(30) DEF vars, TypeOK
  <2>2. OwnDestination' /\ KeepExisting'
    BY <1>15 DEF vars, OwnDestination, KeepExisting, ExistingFile
  <2>3. NoGap' /\ PrefixWritten' /\ EndMet'
    BY <1>15 DEF vars, NoGap, PrefixWritten, EndMet
  <2>4. SourceSummed' /\ Compared'
    BY <1>15 DEF vars, SourceSummed, Compared, checksum_mode, user_checksum,
       compare_against
  <2> QED
    BY <2>1, <2>2, <2>3, <2>4
<1> QED
  BY <1>1, <1>2, <1>3, <1>4, <1>5, <1>6, <1>7, <1>8, <1>9, <1>10, <1>11, <1>12, <1>13, <1>14, <1>15
  DEF Next, CopyStep

\* The inductive invariant holds in every state of a copy.
THEOREM InvariantHolds == Spec => []IInv
BY InitIInv, StepIInv, PTL DEF Spec

\* Without replace, and outside strict mode, a file that was at the destination
\* is neither modified nor deleted by perform_local_copy, on any path.
THEOREM ExistingKept == Spec => []KeepExisting
<1>1. IInv => KeepExisting
  BY DEF IInv
<1> QED
  BY <1>1, InvariantHolds, PTL

\* A copy of a file of any length that succeeds has the content of the source,
\* over whatever older file there was: if it was compared end to end, or if no
\* write was short.
THEOREM SuccessExact == Spec => []CopyExact
<1>1. IInv => CopyExact
  <2> SUFFICES ASSUME IInv, Succeeded, ~par.strict, meddled = 0, ~dst.special,
                      ~torn \/ checksum_mode = "both"
               PROVE  dst.exists /\ dst.data = Src
    BY DEF CopyExact
  <2>1. CASE checksum_mode = "both"
    BY <2>1 DEF IInv, Compared
  <2>2. CASE ~torn
    <3>1. ~endless /\ read = SrcLen
      BY DEF IInv, EndMet, Succeeded
    <3> QED
      BY <2>2, <3>1 DEF IInv, OwnDestination, PrefixWritten, Streamed, Succeeded, Src
  <2> QED
    BY <2>1, <2>2
<1> QED
  BY <1>1, InvariantHolds, PTL
=============================================================================
