-------------------------- MODULE PluginCopyProofs --------------------------
(***************************************************************************)
(* Proofs about the copies of the GridFTP, HTTP and SRM plugins, for every *)
(* set of plugins and of modes and any number of changes by another        *)
(* process.                                                                *)
(***************************************************************************)
EXTENDS PluginCopy, TLAPS

\* The initial states satisfy the invariant.
LEMMA InitIInv == Init => IInv
<1> SUFFICES ASSUME Init PROVE IInv
  OBVIOUS
<1>1. TypeOK
  <2>1. /\ parent \in BOOLEAN /\ clobbered \in BOOLEAN /\ unclean \in BOOLEAN
        /\ finished \in BOOLEAN /\ cancel \in BOOLEAN
    BY Zenon DEF Init, CopyInit, SrmInit
  <2>2. fallback \in BOOLEAN
    BY DEF Init, HttpInit
  <2> QED
    BY <2>1, <2>2, BoundsOK DEF Init, CopyInit, HttpInit, SrmInit, TypeOK, Contents
<1>2. PartialCleaned /\ HttpOverwrites /\ GridFtpSummed /\ ExistingSurvives
  BY DEF Init, CopyInit, PartialCleaned, HttpOverwrites, GridFtpSummed, ExistingSurvives
<1>3. PutRequest /\ RolledBack
  BY DEF Init, CopyInit, SrmInit, PutRequest, RolledBack, Mine
<1> QED
  BY <1>1, <1>2, <1>3 DEF IInv

\* A step of GridFTPModule::filecopy preserves the invariant.
LEMMA GridFtpStep == IInv /\ GridFtp => IInv'
<1> SUFFICES ASSUME IInv, GridFtp PROVE IInv'
  OBVIOUS
<1>0. par.plugin = "gridftp" /\ TypeOK /\ UNCHANGED <<httpVars, srmVars>>
  BY DEF GridFtp, IInv
<1> USE DEF IInv, GoTo, Final, Contents, Mine, NotMine, httpVars, srmVars
<1>1. CASE SourceChecksum
  <2>1. TypeOK'
    BY <1>0, <1>1 DEF TypeOK, SourceChecksum, Stop
  <2>2. PartialCleaned'
    BY <1>0, <1>1 DEF TypeOK, PartialCleaned, SourceChecksum, Stop
  <2>3. HttpOverwrites' /\ ExistingSurvives'
    BY <1>0, <1>1 DEF TypeOK, HttpOverwrites, ExistingSurvives, SourceChecksum, Stop
  <2>4. GridFtpSummed'
    BY <1>0, <1>1 DEF TypeOK, GridFtpSummed, checksum_mode, SourceChecksum, Stop
  <2> QED
    BY <1>0, <1>1, <2>1, <2>2, <2>3, <2>4 DEF SourceChecksum
<1>2. CASE CheckExisting
  <2>1. TypeOK'
    BY <1>0, <1>2 DEF TypeOK, CheckExisting, ThrowCore, Stop
  <2>2. PartialCleaned'
    BY <1>0, <1>2 DEF TypeOK, PartialCleaned, CheckExisting, ThrowCore, Stop
  <2>3. HttpOverwrites' /\ ExistingSurvives'
    BY <1>0, <1>2 DEF TypeOK, HttpOverwrites, ExistingSurvives, CheckExisting, ThrowCore, Stop
  <2>4. GridFtpSummed'
    BY <1>0, <1>2 DEF TypeOK, GridFtpSummed, checksum_mode, CheckExisting, ThrowCore, Stop
  <2> QED
    BY <1>0, <1>2, <2>1, <2>2, <2>3, <2>4 DEF CheckExisting
<1>3. CASE DeleteExisting
  <2>1. TypeOK'
    <3>1. clobbered' \in BOOLEAN
      BY <1>0, <1>3, Zenon DEF TypeOK, DeleteExisting, ThrowCore, Overwrite
    <3> QED
      BY <1>0, <1>3, <3>1 DEF TypeOK, DeleteExisting, ThrowCore, Overwrite
  <2>2. PartialCleaned'
    BY <1>0, <1>3 DEF TypeOK, PartialCleaned, DeleteExisting, ThrowCore, Overwrite
  <2>3. HttpOverwrites' /\ ExistingSurvives'
    BY <1>0, <1>3 DEF TypeOK, HttpOverwrites, ExistingSurvives, DeleteExisting, ThrowCore, Overwrite
  <2>4. GridFtpSummed'
    BY <1>0, <1>3 DEF TypeOK, GridFtpSummed, checksum_mode, DeleteExisting, ThrowCore, Overwrite
  <2> QED
    BY <1>0, <1>3, <2>1, <2>2, <2>3, <2>4 DEF DeleteExisting
<1>4. CASE CreateParent
  <2>1. TypeOK'
    <3>1. parent' \in BOOLEAN
      BY <1>0, <1>4, Zenon DEF TypeOK, CreateParent, ThrowCore, Stop
    <3> QED
      BY <1>0, <1>4, <3>1 DEF TypeOK, CreateParent, ThrowCore, Stop
  <2>2. PartialCleaned'
    BY <1>0, <1>4 DEF TypeOK, PartialCleaned, CreateParent, ThrowCore, Stop
  <2>3. HttpOverwrites' /\ ExistingSurvives'
    BY <1>0, <1>4 DEF TypeOK, HttpOverwrites, ExistingSurvives, CreateParent, ThrowCore, Stop
  <2>4. GridFtpSummed'
    BY <1>0, <1>4 DEF TypeOK, GridFtpSummed, checksum_mode, CreateParent, ThrowCore, Stop
  <2> QED
    BY <1>0, <1>4, <2>1, <2>2, <2>3, <2>4 DEF CreateParent
<1>5. CASE Transfer
  <2>1. TypeOK'
    BY <1>0, <1>5 DEF TypeOK, Transfer, ThrowCore, Overwrite
  <2>2. PartialCleaned'
    BY <1>0, <1>5 DEF TypeOK, PartialCleaned, Transfer, ThrowCore, Overwrite
  <2>3. HttpOverwrites' /\ ExistingSurvives'
    BY <1>0, <1>5 DEF TypeOK, HttpOverwrites, ExistingSurvives, Transfer, ThrowCore, Overwrite
  <2>4. GridFtpSummed'
    BY <1>0, <1>5 DEF TypeOK, GridFtpSummed, checksum_mode, Transfer, ThrowCore, Overwrite
  <2> QED
    BY <1>0, <1>5, <2>1, <2>2, <2>3, <2>4 DEF Transfer
<1>6. CASE CleanUp
  <2>1. TypeOK'
    <3>1. clobbered' \in BOOLEAN /\ unclean' \in BOOLEAN
      BY <1>0, <1>6, Zenon DEF TypeOK, CleanUp, TryDelete, Overwrite
    <3> QED
      BY <1>0, <1>6, <3>1 DEF TypeOK, CleanUp, TryDelete, Overwrite
  <2>2. PartialCleaned'
    BY <1>0, <1>6 DEF TypeOK, PartialCleaned, CleanUp, TryDelete, Overwrite
  <2>3. HttpOverwrites' /\ ExistingSurvives'
    BY <1>0, <1>6 DEF TypeOK, HttpOverwrites, ExistingSurvives, CleanUp, TryDelete, Overwrite
  <2>4. GridFtpSummed'
    BY <1>0, <1>6 DEF TypeOK, GridFtpSummed, checksum_mode, CleanUp, TryDelete, Overwrite
  <2> QED
    BY <1>0, <1>6, <2>1, <2>2, <2>3, <2>4 DEF CleanUp
<1>7. CASE TargetChecksum
  <2>1. TypeOK'
    BY <1>0, <1>7 DEF TypeOK, TargetChecksum, Stop, Expected
  <2>2. PartialCleaned'
    BY <1>0, <1>7 DEF TypeOK, PartialCleaned, TargetChecksum, Stop, Expected
  <2>3. HttpOverwrites' /\ ExistingSurvives'
    BY <1>0, <1>7 DEF TypeOK, HttpOverwrites, ExistingSurvives, TargetChecksum, Stop, Expected
  <2>4. GridFtpSummed'
    BY <1>0, <1>7 DEF TypeOK, GridFtpSummed, checksum_mode, TargetChecksum, Stop, Expected
  <2> QED
    BY <1>0, <1>7, <2>1, <2>2, <2>3, <2>4 DEF TargetChecksum
<1> QED
  BY <1>1, <1>2, <1>3, <1>4, <1>5, <1>6, <1>7 DEF GridFtp, GridFtpNext

\* A step of gfal_http_copy preserves the invariant.
LEMMA HttpStep == IInv /\ Http => IInv'
<1> SUFFICES ASSUME IInv, Http PROVE IInv'
  OBVIOUS
<1>0. par.plugin = "http" /\ TypeOK /\ UNCHANGED srmVars
  BY DEF Http, IInv
<1> USE DEF IInv, GoTo, Final, Contents, Mine, NotMine, httpVars, srmVars
<1>1. CASE HttpSourceChecksum
  <2>1. TypeOK'
    BY <1>0, <1>1 DEF TypeOK, HttpSourceChecksum, Stop
  <2>2. PartialCleaned'
    BY <1>0, <1>1 DEF TypeOK, PartialCleaned, HttpSourceChecksum, Stop
  <2>3. HttpOverwrites' /\ ExistingSurvives'
    BY <1>0, <1>1 DEF TypeOK, HttpOverwrites, ExistingSurvives, HttpSourceChecksum, Stop
  <2>4. GridFtpSummed'
    BY <1>0, <1>1 DEF TypeOK, GridFtpSummed, HttpSourceChecksum, Stop
  <2> QED
    BY <1>0, <1>1, <2>1, <2>2, <2>3, <2>4 DEF HttpSourceChecksum
<1>2. CASE HttpExists
  <2>1. TypeOK'
    BY <1>0, <1>2 DEF TypeOK, HttpExists, Stop
  <2>2. PartialCleaned'
    BY <1>0, <1>2 DEF TypeOK, PartialCleaned, HttpExists, Stop
  <2>3. HttpOverwrites' /\ ExistingSurvives'
    BY <1>0, <1>2 DEF TypeOK, HttpOverwrites, ExistingSurvives, HttpExists, Stop
  <2>4. GridFtpSummed'
    BY <1>0, <1>2 DEF TypeOK, GridFtpSummed, HttpExists, Stop
  <2> QED
    BY <1>0, <1>2, <2>1, <2>2, <2>3, <2>4 DEF HttpExists
<1>3. CASE HttpDeleteExisting
  <2>1. TypeOK'
    <3>1. clobbered' \in BOOLEAN
      BY <1>0, <1>3, Zenon DEF TypeOK, HttpDeleteExisting, Stop, Overwrite
    <3> QED
      BY <1>0, <1>3, <3>1 DEF TypeOK, HttpDeleteExisting, Stop, Overwrite
  <2>2. PartialCleaned'
    BY <1>0, <1>3 DEF TypeOK, PartialCleaned, HttpDeleteExisting, Stop, Overwrite
  <2>3. HttpOverwrites' /\ ExistingSurvives'
    BY <1>0, <1>3 DEF TypeOK, HttpOverwrites, ExistingSurvives, HttpDeleteExisting, Stop, Overwrite
  <2>4. GridFtpSummed'
    BY <1>0, <1>3 DEF TypeOK, GridFtpSummed, HttpDeleteExisting, Stop, Overwrite
  <2> QED
    BY <1>0, <1>3, <2>1, <2>2, <2>3, <2>4 DEF HttpDeleteExisting
<1>4. CASE HttpMakeParent
  <2>1. TypeOK'
    <3>1. parent' \in BOOLEAN
      BY <1>0, <1>4, Zenon DEF TypeOK, HttpMakeParent, Stop
    <3> QED
      BY <1>0, <1>4, <3>1 DEF TypeOK, HttpMakeParent, Stop
  <2>2. PartialCleaned'
    BY <1>0, <1>4 DEF TypeOK, PartialCleaned, HttpMakeParent, Stop
  <2>3. HttpOverwrites' /\ ExistingSurvives'
    BY <1>0, <1>4 DEF TypeOK, HttpOverwrites, ExistingSurvives, HttpMakeParent, Stop
  <2>4. GridFtpSummed'
    BY <1>0, <1>4 DEF TypeOK, GridFtpSummed, HttpMakeParent, Stop
  <2> QED
    BY <1>0, <1>4, <2>1, <2>2, <2>3, <2>4 DEF HttpMakeParent
<1>5. CASE ConstructCopyMode
  <2>1. TypeOK'
    <3>1. fallback' \in BOOLEAN
      BY <1>0, <1>5, Zenon DEF TypeOK, ConstructCopyMode
    <3> QED
      BY <1>0, <1>5, <3>1 DEF TypeOK, ConstructCopyMode, HttpOptions
  <2>2. PartialCleaned'
    BY <1>0, <1>5 DEF TypeOK, PartialCleaned, ConstructCopyMode
  <2>3. HttpOverwrites' /\ ExistingSurvives'
    BY <1>0, <1>5 DEF TypeOK, HttpOverwrites, ExistingSurvives, ConstructCopyMode
  <2>4. GridFtpSummed'
    BY <1>0, <1>5 DEF TypeOK, GridFtpSummed, ConstructCopyMode
  <2> QED
    BY <1>0, <1>5, <2>1, <2>2, <2>3, <2>4 DEF ConstructCopyMode
<1>6. CASE Attempt
  <2>1. TypeOK'
    BY <1>0, <1>6 DEF TypeOK, Attempt, Stop, AttemptFails, Overwrite, isStreamingEnabled
  <2>2. PartialCleaned'
    BY <1>0, <1>6 DEF TypeOK, PartialCleaned, Attempt, Stop, AttemptFails, Overwrite, isStreamingEnabled
  <2>3. HttpOverwrites' /\ ExistingSurvives'
    BY <1>0, <1>6 DEF TypeOK, HttpOverwrites, ExistingSurvives, Attempt, Stop, AttemptFails, Overwrite, isStreamingEnabled
  <2>4. GridFtpSummed'
    BY <1>0, <1>6 DEF TypeOK, GridFtpSummed, Attempt, Stop, AttemptFails, Overwrite, isStreamingEnabled
  <2> QED
    BY <1>0, <1>6, <2>1, <2>2, <2>3, <2>4 DEF Attempt
<1>7. CASE HttpCleanUp
  <2>1. TypeOK'
    BY <1>0, <1>7, ZenonT(30) DEF TypeOK, HttpCleanUp, Fallback, NextMode, isStreamingEnabled, TryDelete, Overwrite
  <2>2. PartialCleaned'
    BY <1>0, <1>7 DEF TypeOK, PartialCleaned, HttpCleanUp, Fallback, NextMode, isStreamingEnabled, TryDelete, Overwrite
  <2>3. HttpOverwrites' /\ ExistingSurvives'
    BY <1>0, <1>7 DEF TypeOK, HttpOverwrites, ExistingSurvives, HttpCleanUp, Fallback, NextMode, isStreamingEnabled, TryDelete, Overwrite
  <2>4. GridFtpSummed'
    BY <1>0, <1>7 DEF TypeOK, GridFtpSummed, HttpCleanUp, Fallback, NextMode, isStreamingEnabled, TryDelete, Overwrite
  <2> QED
    BY <1>0, <1>7, <2>1, <2>2, <2>3, <2>4 DEF HttpCleanUp
<1>8. CASE HttpTargetChecksum
  <2>1. TypeOK'
    BY <1>0, <1>8 DEF TypeOK, HttpTargetChecksum, Stop, HttpExpected
  <2>2. PartialCleaned'
    BY <1>0, <1>8 DEF TypeOK, PartialCleaned, HttpTargetChecksum, Stop, HttpExpected
  <2>3. HttpOverwrites' /\ ExistingSurvives'
    BY <1>0, <1>8 DEF TypeOK, HttpOverwrites, ExistingSurvives, HttpTargetChecksum, Stop, HttpExpected
  <2>4. GridFtpSummed'
    BY <1>0, <1>8 DEF TypeOK, GridFtpSummed, HttpTargetChecksum, Stop, HttpExpected
  <2> QED
    BY <1>0, <1>8, <2>1, <2>2, <2>3, <2>4 DEF HttpTargetChecksum
<1>9. CASE Evict
  <2>1. TypeOK'
    BY <1>0, <1>9 DEF TypeOK, Evict
  <2>2. PartialCleaned'
    BY <1>0, <1>9 DEF TypeOK, PartialCleaned, Evict
  <2>3. HttpOverwrites' /\ ExistingSurvives'
    BY <1>0, <1>9 DEF TypeOK, HttpOverwrites, ExistingSurvives, Evict
  <2>4. GridFtpSummed'
    BY <1>0, <1>9 DEF TypeOK, GridFtpSummed, Evict
  <2> QED
    BY <1>0, <1>9, <2>1, <2>2, <2>3, <2>4 DEF Evict
<1> QED
  BY <1>1, <1>2, <1>3, <1>4, <1>5, <1>6, <1>7, <1>8, <1>9 DEF Http, HttpNext

\* A step of srm_plugin_filecopy, or a cancel, preserves the invariant.
LEMMA SrmStep == IInv /\ Srm => IInv'
<1> SUFFICES ASSUME IInv, Srm PROVE IInv'
  OBVIOUS
<1>0. par.plugin = "srm" /\ TypeOK /\ UNCHANGED httpVars
  BY DEF Srm, IInv
<1> USE DEF IInv, GoTo, Final, Contents, Mine, NotMine, httpVars, srmVars
<1>1. CASE SrmSourceChecksum
  <2>1. TypeOK'
    BY <1>0, <1>1 DEF TypeOK, SrmSourceChecksum, Fail
  <2>2. PartialCleaned'
    BY <1>0, <1>1 DEF TypeOK, PartialCleaned, PutRequest, SrmSourceChecksum, Fail
  <2>3. PutRequest'
    BY <1>0, <1>1 DEF TypeOK, PutRequest, RolledBack, SrmSourceChecksum, Fail
  <2>4. RolledBack'
    BY <1>0, <1>1 DEF TypeOK, RolledBack, PutRequest, SrmSourceChecksum, Fail
  <2>5. HttpOverwrites' /\ GridFtpSummed'
    BY <1>0, <1>1 DEF TypeOK, HttpOverwrites, GridFtpSummed, SrmSourceChecksum, Fail
  <2>6. ExistingSurvives'
    BY <1>0, <1>1 DEF TypeOK, ExistingSurvives, PutRequest, SrmSourceChecksum, Fail
  <2> QED
    BY <1>0, <1>1, <2>1, <2>2, <2>3, <2>4, <2>5, <2>6 DEF SrmSourceChecksum
<1>2. CASE SrmGet
  <2>1. TypeOK'
    BY <1>0, <1>2 DEF TypeOK, SrmGet, Fail
  <2>2. PartialCleaned'
    BY <1>0, <1>2 DEF TypeOK, PartialCleaned, PutRequest, SrmGet, Fail
  <2>3. PutRequest'
    BY <1>0, <1>2 DEF TypeOK, PutRequest, RolledBack, SrmGet, Fail
  <2>4. RolledBack'
    BY <1>0, <1>2 DEF TypeOK, RolledBack, PutRequest, SrmGet, Fail
  <2>5. HttpOverwrites' /\ GridFtpSummed'
    BY <1>0, <1>2 DEF TypeOK, HttpOverwrites, GridFtpSummed, SrmGet, Fail
  <2>6. ExistingSurvives'
    BY <1>0, <1>2 DEF TypeOK, ExistingSurvives, PutRequest, SrmGet, Fail
  <2> QED
    BY <1>0, <1>2, <2>1, <2>2, <2>3, <2>4, <2>5, <2>6 DEF SrmGet
<1>3. CASE SrmDeleteExisting
  <2>1. TypeOK'
    <3>1. clobbered' \in BOOLEAN
      BY <1>0, <1>3, Zenon DEF TypeOK, SrmDeleteExisting, Fail, Overwrite
    <3> QED
      BY <1>0, <1>3, <3>1 DEF TypeOK, SrmDeleteExisting, Fail, Overwrite
  <2>2. PartialCleaned'
    BY <1>0, <1>3 DEF TypeOK, PartialCleaned, PutRequest, SrmDeleteExisting, Fail, Overwrite
  <2>3. PutRequest'
    BY <1>0, <1>3 DEF TypeOK, PutRequest, RolledBack, SrmDeleteExisting, Fail, Overwrite
  <2>4. RolledBack'
    BY <1>0, <1>3 DEF TypeOK, RolledBack, PutRequest, SrmDeleteExisting, Fail, Overwrite
  <2>5. HttpOverwrites' /\ GridFtpSummed'
    BY <1>0, <1>3 DEF TypeOK, HttpOverwrites, GridFtpSummed, SrmDeleteExisting, Fail, Overwrite
  <2>6. ExistingSurvives'
    BY <1>0, <1>3 DEF TypeOK, ExistingSurvives, PutRequest, SrmDeleteExisting, Fail, Overwrite
  <2> QED
    BY <1>0, <1>3, <2>1, <2>2, <2>3, <2>4, <2>5, <2>6 DEF SrmDeleteExisting
<1>4. CASE SrmMakeParent
  <2>1. TypeOK'
    <3>1. parent' \in BOOLEAN
      BY <1>0, <1>4, Zenon DEF TypeOK, SrmMakeParent, Fail
    <3> QED
      BY <1>0, <1>4, <3>1 DEF TypeOK, SrmMakeParent, Fail
  <2>2. PartialCleaned'
    BY <1>0, <1>4 DEF TypeOK, PartialCleaned, PutRequest, SrmMakeParent, Fail
  <2>3. PutRequest'
    BY <1>0, <1>4 DEF TypeOK, PutRequest, RolledBack, SrmMakeParent, Fail
  <2>4. RolledBack'
    BY <1>0, <1>4 DEF TypeOK, RolledBack, PutRequest, SrmMakeParent, Fail
  <2>5. HttpOverwrites' /\ GridFtpSummed'
    BY <1>0, <1>4 DEF TypeOK, HttpOverwrites, GridFtpSummed, SrmMakeParent, Fail
  <2>6. ExistingSurvives'
    BY <1>0, <1>4 DEF TypeOK, ExistingSurvives, PutRequest, SrmMakeParent, Fail
  <2> QED
    BY <1>0, <1>4, <2>1, <2>2, <2>3, <2>4, <2>5, <2>6 DEF SrmMakeParent
<1>5. CASE SrmPut
  <2>1. TypeOK'
    BY <1>0, <1>5 DEF TypeOK, SrmPut, Fail
  <2>2. PartialCleaned'
    BY <1>0, <1>5 DEF TypeOK, PartialCleaned, PutRequest, SrmPut, Fail
  <2>3. PutRequest'
    BY <1>0, <1>5 DEF TypeOK, PutRequest, RolledBack, SrmPut, Fail
  <2>4. RolledBack'
    BY <1>0, <1>5 DEF TypeOK, RolledBack, PutRequest, SrmPut, Fail
  <2>5. HttpOverwrites' /\ GridFtpSummed'
    BY <1>0, <1>5 DEF TypeOK, HttpOverwrites, GridFtpSummed, SrmPut, Fail
  <2>6. ExistingSurvives'
    BY <1>0, <1>5 DEF TypeOK, ExistingSurvives, PutRequest, SrmPut, Fail
  <2> QED
    BY <1>0, <1>5, <2>1, <2>2, <2>3, <2>4, <2>5, <2>6 DEF SrmPut
<1>6. CASE SrmTransfer
  <2>1. TypeOK'
    <3>1. clobbered' \in BOOLEAN /\ parent' \in BOOLEAN
      BY <1>0, <1>6, Zenon DEF TypeOK, SrmTransfer, Fail, Nested, Overwrite
    <3> QED
      BY <1>0, <1>6, <3>1 DEF TypeOK, SrmTransfer, Fail, Nested, Overwrite
  <2>2. PartialCleaned'
    BY <1>0, <1>6 DEF TypeOK, PartialCleaned, PutRequest, SrmTransfer, Fail, Nested, Overwrite
  <2>3. PutRequest'
    BY <1>0, <1>6 DEF TypeOK, PutRequest, RolledBack, SrmTransfer, Fail, Nested, Overwrite
  <2>4. RolledBack'
    BY <1>0, <1>6 DEF TypeOK, RolledBack, PutRequest, SrmTransfer, Fail, Nested, Overwrite
  <2>5. HttpOverwrites' /\ GridFtpSummed'
    BY <1>0, <1>6 DEF TypeOK, HttpOverwrites, GridFtpSummed, SrmTransfer, Fail, Nested, Overwrite
  <2>6. ExistingSurvives'
    BY <1>0, <1>6 DEF TypeOK, ExistingSurvives, PutRequest, SrmTransfer, Fail, Nested, Overwrite
  <2> QED
    BY <1>0, <1>6, <2>1, <2>2, <2>3, <2>4, <2>5, <2>6 DEF SrmTransfer
<1>7. CASE SrmPutDone
  <2>1. TypeOK'
    <3>1. finished' \in BOOLEAN
      BY <1>0, <1>7, Zenon DEF TypeOK, SrmPutDone, Fail
    <3> QED
      BY <1>0, <1>7, <3>1 DEF TypeOK, SrmPutDone, Fail
  <2>2. PartialCleaned'
    BY <1>0, <1>7 DEF TypeOK, PartialCleaned, PutRequest, SrmPutDone, Fail
  <2>3. PutRequest'
    BY <1>0, <1>7 DEF TypeOK, PutRequest, RolledBack, SrmPutDone, Fail
  <2>4. RolledBack'
    BY <1>0, <1>7 DEF TypeOK, RolledBack, PutRequest, SrmPutDone, Fail
  <2>5. HttpOverwrites' /\ GridFtpSummed'
    BY <1>0, <1>7 DEF TypeOK, HttpOverwrites, GridFtpSummed, SrmPutDone, Fail
  <2>6. ExistingSurvives'
    BY <1>0, <1>7 DEF TypeOK, ExistingSurvives, PutRequest, SrmPutDone, Fail
  <2> QED
    BY <1>0, <1>7, <2>1, <2>2, <2>3, <2>4, <2>5, <2>6 DEF SrmPutDone
<1>8. CASE SrmTargetChecksum
  <2>1. TypeOK'
    BY <1>0, <1>8 DEF TypeOK, SrmTargetChecksum, Fail, SrmMatches
  <2>2. PartialCleaned'
    BY <1>0, <1>8 DEF TypeOK, PartialCleaned, PutRequest, SrmTargetChecksum, Fail, SrmMatches
  <2>3. PutRequest'
    BY <1>0, <1>8 DEF TypeOK, PutRequest, RolledBack, SrmTargetChecksum, Fail, SrmMatches
  <2>4. RolledBack'
    BY <1>0, <1>8 DEF TypeOK, RolledBack, PutRequest, SrmTargetChecksum, Fail, SrmMatches
  <2>5. HttpOverwrites' /\ GridFtpSummed'
    BY <1>0, <1>8 DEF TypeOK, HttpOverwrites, GridFtpSummed, SrmTargetChecksum, Fail, SrmMatches
  <2>6. ExistingSurvives'
    BY <1>0, <1>8 DEF TypeOK, ExistingSurvives, PutRequest, SrmTargetChecksum, Fail, SrmMatches
  <2> QED
    BY <1>0, <1>8, <2>1, <2>2, <2>3, <2>4, <2>5, <2>6 DEF SrmTargetChecksum
<1>9. CASE SrmFinalize
  <2>1. TypeOK'
    <3>1. clobbered' \in BOOLEAN /\ unclean' \in BOOLEAN
      BY <1>0, <1>9, Zenon DEF TypeOK, SrmFinalize, Rollback, TryDelete, Overwrite
    <3> QED
      BY <1>0, <1>9, <3>1 DEF TypeOK, SrmFinalize, Rollback, TryDelete, Overwrite
  <2>2. PartialCleaned'
    BY <1>0, <1>9 DEF TypeOK, PartialCleaned, PutRequest, SrmFinalize, Rollback, TryDelete, Overwrite
  <2>3. PutRequest'
    BY <1>0, <1>9 DEF TypeOK, PutRequest, RolledBack, SrmFinalize, Rollback, TryDelete, Overwrite
  <2>4. RolledBack'
    BY <1>0, <1>9 DEF TypeOK, RolledBack, PutRequest, SrmFinalize, Rollback, TryDelete, Overwrite
  <2>5. HttpOverwrites' /\ GridFtpSummed'
    BY <1>0, <1>9 DEF TypeOK, HttpOverwrites, GridFtpSummed, SrmFinalize, Rollback, TryDelete, Overwrite
  <2>6. ExistingSurvives'
    BY <1>0, <1>9 DEF TypeOK, ExistingSurvives, PutRequest, SrmFinalize, Rollback, TryDelete, Overwrite
  <2> QED
    BY <1>0, <1>9, <2>1, <2>2, <2>3, <2>4, <2>5, <2>6 DEF SrmFinalize
<1>10. CASE SrmRelease
  <2>1. TypeOK'
    BY <1>0, <1>10 DEF TypeOK, SrmRelease
  <2>2. PartialCleaned'
    BY <1>0, <1>10 DEF TypeOK, PartialCleaned, PutRequest, SrmRelease
  <2>3. PutRequest'
    BY <1>0, <1>10 DEF TypeOK, PutRequest, RolledBack, SrmRelease
  <2>4. RolledBack'
    BY <1>0, <1>10 DEF TypeOK, RolledBack, PutRequest, SrmRelease
  <2>5. HttpOverwrites' /\ GridFtpSummed'
    BY <1>0, <1>10 DEF TypeOK, HttpOverwrites, GridFtpSummed, SrmRelease
  <2>6. ExistingSurvives'
    BY <1>0, <1>10 DEF TypeOK, ExistingSurvives, PutRequest, SrmRelease
  <2> QED
    BY <1>0, <1>10, <2>1, <2>2, <2>3, <2>4, <2>5, <2>6 DEF SrmRelease
<1>11. CASE Cancel
  <2>1. TypeOK'
    BY <1>0, <1>11 DEF TypeOK, Cancel, copyVars
  <2>2. PartialCleaned'
    BY <1>0, <1>11 DEF TypeOK, PartialCleaned, PutRequest, Cancel, copyVars
  <2>3. PutRequest'
    BY <1>0, <1>11 DEF TypeOK, PutRequest, RolledBack, Cancel, copyVars
  <2>4. RolledBack'
    BY <1>0, <1>11 DEF TypeOK, RolledBack, PutRequest, Cancel, copyVars
  <2>5. HttpOverwrites' /\ GridFtpSummed'
    BY <1>0, <1>11 DEF TypeOK, HttpOverwrites, GridFtpSummed, Cancel, copyVars
  <2>6. ExistingSurvives'
    BY <1>0, <1>11 DEF TypeOK, ExistingSurvives, PutRequest, Cancel, copyVars
  <2> QED
    BY <1>0, <1>11, <2>1, <2>2, <2>3, <2>4, <2>5, <2>6 DEF Cancel, copyVars
<1> QED
  BY <1>1, <1>2, <1>3, <1>4, <1>5, <1>6, <1>7, <1>8, <1>9, <1>10, <1>11 DEF Srm, SrmNext

\* Another process at the destination does not break the invariant: what it
\* puts there is not the copy's.
LEMMA OthersStep == IInv /\ Others => IInv'
<1> SUFFICES ASSUME IInv, Others PROVE IInv'
  OBVIOUS
<1>0. /\ TypeOK
      /\ UNCHANGED <<par, opt, pc, err, sum, parent, clobbered, unclean, copyMode,
                     fallback, get, put, finished, cancel>>
  BY DEF IInv, Others, Meddle, httpVars, srmVars
<1>1. dst' \in {"absent", "foreign"} /\ meddled' \in 1 .. MaxMeddling
  BY <1>0, BoundsOK DEF Others, Meddle, TypeOK
<1>2. TypeOK'
  BY <1>0, <1>1 DEF TypeOK, Contents
<1>3. PartialCleaned' /\ HttpOverwrites' /\ ExistingSurvives'
  BY <1>0, <1>1 DEF IInv, PartialCleaned, HttpOverwrites, ExistingSurvives
<1>4. GridFtpSummed'
  BY <1>0 DEF IInv, GridFtpSummed, checksum_mode
<1>5. ASSUME par.plugin = "srm" PROVE PutRequest' /\ RolledBack'
  BY <1>0, <1>1, <1>5 DEF IInv, PutRequest, RolledBack, Mine
<1> QED
  BY <1>0, <1>2, <1>3, <1>4, <1>5 DEF IInv

\* Every step preserves the invariant.
LEMMA StepIInv == IInv /\ [Next]_vars => IInv'
<1>1. IInv /\ UNCHANGED vars => IInv'
  <2> SUFFICES ASSUME IInv, UNCHANGED vars PROVE IInv'
    OBVIOUS
  <2>0. UNCHANGED <<par, opt, pc, err, sum, parent, dst, meddled, clobbered, unclean,
                    copyMode, fallback, get, put, finished, cancel>>
    BY DEF vars, copyVars, httpVars, srmVars
  <2>1. TypeOK' /\ PartialCleaned' /\ HttpOverwrites'
    BY <2>0 DEF IInv, TypeOK, PartialCleaned, HttpOverwrites, NotMine
  <2>2. GridFtpSummed' /\ ExistingSurvives'
    BY <2>0 DEF IInv, GridFtpSummed, checksum_mode, ExistingSurvives
  <2>3. ASSUME par.plugin = "srm" PROVE PutRequest' /\ RolledBack'
    BY <2>0, <2>3 DEF IInv, PutRequest, RolledBack, NotMine
  <2> QED
    BY <2>0, <2>1, <2>2, <2>3 DEF IInv
<1> QED
  BY <1>1, GridFtpStep, HttpStep, SrmStep, OthersStep DEF Next

\* The inductive invariant holds in every state of a copy.
THEOREM InvariantHolds == Spec => []IInv
BY InitIInv, StepIInv, PTL DEF Spec

\* A copy that cleans up leaves no part of the file and, for SRM, no file that
\* was rejected after PutDone and no request open but one that the server
\* refused to end or whose token was thrown away.
THEOREM CopyLeavesNothing == Spec => []NothingLeft
<1>1. IInv => NothingLeft
  BY DEF IInv, NothingLeft, PartialCleaned, RolledBack, OpenRequest
<1> QED
  BY <1>1, InvariantHolds, PTL

\* Without replace an undisturbed HTTP copy, or SRM copy to an SRM, neither
\* overwrites nor deletes the file that was there.
THEOREM ExistingFileSurvives == Spec => []ExistingSurvives
<1>1. IInv => ExistingSurvives
  BY DEF IInv
<1> QED
  BY <1>1, InvariantHolds, PTL

\* A destination that passes the comparison of checksums has the content of
\* the source, for each of the three plugins.
THEOREM VerifiedIsExact == Spec => VerifiedExact
<1> DEFINE A == (/\ pc = "verify" /\ pc' # "verify" /\ err' = "none"
                 /\ "TARGET" \in EffectiveMode
                 /\ par.plugin = "gridftp" \/ sum # "none" \/ par.user # "none")
                => dst = "source"
<1>1. IInv /\ [Next]_vars => [A]_vars
  <2> SUFFICES ASSUME IInv, Next, pc = "verify", pc' # "verify", err' = "none",
                      "TARGET" \in EffectiveMode,
                      par.plugin = "gridftp" \/ sum # "none" \/ par.user # "none"
               PROVE  dst = "source"
    OBVIOUS
  <2>0. /\ dst \in Contents /\ sum \in {"none", "source"}
        /\ par.user \in {"none", "source", "wrong"}
    BY DEF IInv, TypeOK, Params
  <2>1. CASE GridFtp
    <3>1. TargetChecksum /\ "TARGET" \in checksum_mode
      BY <2>1 DEF GridFtp, GridFtpNext, SourceChecksum, CheckExisting, DeleteExisting,
         CreateParent, Transfer, CleanUp, EffectiveMode
    <3>2. dst # "absent" /\ dst = Expected
      BY <3>1 DEF TargetChecksum, Stop
    <3>3. "SOURCE" \in checksum_mode => sum = "source"
      BY <2>1 DEF IInv, GridFtp, GridFtpSummed
    <3> QED
      BY <2>0, <3>2, <3>3 DEF Expected, Contents
  <2>2. CASE Http
    <3>1. HttpTargetChecksum /\ "TARGET" \in HttpMode
      BY <2>2 DEF Http, HttpNext, HttpSourceChecksum, HttpExists, HttpDeleteExisting,
         HttpMakeParent, ConstructCopyMode, Attempt, HttpCleanUp, Evict, EffectiveMode
    <3>2. dst # "absent" /\ dst = HttpExpected
      BY <3>1 DEF HttpTargetChecksum, Stop
    <3> QED
      BY <2>0, <2>2, <3>2 DEF Http, HttpExpected, Contents
  <2>3. CASE Srm
    <3>1. SrmTargetChecksum /\ "TARGET" \in SrmMode
      BY <2>3 DEF Srm, SrmNext, SrmSourceChecksum, SrmGet, SrmDeleteExisting,
         SrmMakeParent, SrmPut, SrmTransfer, SrmPutDone, SrmFinalize, SrmRelease,
         Cancel, copyVars, EffectiveMode
    <3>2. SrmMatches
      BY <3>1 DEF SrmTargetChecksum, Fail
    <3> QED
      BY <2>0, <2>3, <3>2 DEF Srm, SrmMatches, Contents
  <2>4. CASE Others
    BY <2>4 DEF Others, Meddle
  <2> QED
    BY <2>1, <2>2, <2>3, <2>4 DEF Next
<1> QED
  BY <1>1, InvariantHolds, PTL DEF Spec, VerifiedExact
=============================================================================
