-------------------------- MODULE FlashDownloadProofs --------------------------
(***************************************************************************)
(* Proofs about FlashDownload, for every file, block size and number of    *)
(* tries.  The inductive invariant adds to the three properties what links *)
(* the two cursors, the block being tried, the attempts and bRet.          *)
(***************************************************************************)
EXTENDS FlashDownload, TLAPS

\* The flash address and the read pointer move together; nothing is skipped.
CursorInv == offset + dateLen = fileLen /\ tmp_buf = offset

\* A block that is being tried, or will be tried again, is one of the file's.
BlockInv ==
    (pc = "upgrade" \/ (pc = "loop" /\ repeat_flag = 1)) =>
        tmp_size > 0 /\ tmp_size <= dateLen

\* try_count is one behind the attempts, and a new block has had none.
AttemptInv ==
    /\ pc = "upgrade" => attempts = try_count + 1 /\ try_count <= MaxTries
    /\ pc = "loop" => /\ repeat_flag = 1 => attempts = try_count + 1 /\ try_count <= MaxTries
                      /\ repeat_flag = 0 => attempts = 0

\* bRet is true between blocks, once there was one.
ResultInv ==
    /\ pc = "loop" => /\ bRet = TRUE => repeat_flag = 0 /\ offset > 0
                      /\ repeat_flag = 0 /\ offset > 0 => bRet = TRUE
    /\ pc = "true" => dateLen = 0 /\ fileLen > 0

IInv == TypeOK /\ CursorInv /\ BlockInv /\ AttemptInv /\ ResultInv
        /\ OneBlockAtRisk /\ ElevenAttempts

\* The invariant holds before the first call.
LEMMA InitIInv == Init => IInv
<1> SUFFICES ASSUME Init PROVE IInv
  OBVIOUS
<1> USE SizesAssumption DEF SizesAssumption
<1>1. TypeOK
  <2>1. flag_abort \in BOOLEAN /\ bRet \in BOOLEAN
    BY DEF Init
  <2>2. flash \in [Area -> {Old, Torn} \cup 0..MaxLen]
    BY DEF Init
  <2> QED
    BY <2>1, <2>2 DEF Init, TypeOK, Returned
<1>2. OneBlockAtRisk
  BY DEF Init, OneBlockAtRisk
<1>3. CursorInv /\ BlockInv /\ AttemptInv /\ ResultInv /\ ElevenAttempts
  BY DEF Init, CursorInv, BlockInv, AttemptInv, ResultInv, ElevenAttempts
<1> QED
  BY <1>1, <1>2, <1>3 DEF IInv

\* A successful block lands at its own addresses, after the blocks before it.
LEMMA UpgradeSucceedsKeeps == IInv /\ UpgradeSucceeds => IInv'
<1> SUFFICES ASSUME IInv, UpgradeSucceeds PROVE IInv'
  OBVIOUS
<1> USE SizesAssumption DEF SizesAssumption
<1>1. /\ tmp_size \in Nat /\ tmp_size > 0 /\ tmp_size <= dateLen /\ tmp_size <= nLoadSize
      /\ offset \in Nat /\ dateLen \in Nat /\ fileLen \in Nat /\ fileLen <= MaxLen
      /\ offset + dateLen = fileLen /\ tmp_buf = offset
  BY DEF IInv, TypeOK, CursorInv, BlockInv, UpgradeSucceeds
<1>2. /\ offset' = offset + tmp_size /\ tmp_buf' = tmp_buf + tmp_size
      /\ dateLen' = dateLen - tmp_size /\ fileLen' = fileLen
  BY DEF UpgradeSucceeds
<1>3. flash' = [a \in Area |-> IF a >= offset /\ a < offset + tmp_size THEN a ELSE flash[a]]
  <2>1. \A a \in Area : tmp_buf + (a - offset) = a
    BY <1>1 DEF Area
  <2> QED
    BY <2>1 DEF UpgradeSucceeds, Writes, BlockBytes
<1>4. TypeOK'
  <2>1. flash' \in [Area -> {Old, Torn} \cup 0..MaxLen]
    BY <1>1, <1>3 DEF IInv, TypeOK, Area
  <2> QED
    BY <1>1, <1>2, <2>1 DEF IInv, TypeOK, UpgradeSucceeds, Returned
<1>5. OneBlockAtRisk'
  <2>1. \A a \in 0..offset' - 1 : flash'[a] = a
    BY <1>1, <1>2, <1>3 DEF IInv, OneBlockAtRisk, Area
  <2>2. ASSUME NEW a \in Area, a >= offset' + nLoadSize \/ a >= fileLen'
        PROVE  flash'[a] = Old
    BY <1>1, <1>2, <1>3, <2>2 DEF IInv, OneBlockAtRisk, Area
  <2> QED
    BY <2>1, <2>2 DEF OneBlockAtRisk
<1>6. CursorInv' /\ BlockInv'
  BY <1>1, <1>2 DEF CursorInv, BlockInv, UpgradeSucceeds
<1>7. AttemptInv' /\ ResultInv' /\ ElevenAttempts'
  BY <1>1, <1>2 DEF AttemptInv, ResultInv, ElevenAttempts, UpgradeSucceeds
<1> QED
  BY <1>4, <1>5, <1>6, <1>7 DEF IInv

\* A failed block touches its own place at most.
LEMMA UpgradeFailsKeeps == IInv /\ UpgradeFails => IInv'
<1> SUFFICES ASSUME IInv, UpgradeFails PROVE IInv'
  OBVIOUS
<1> USE SizesAssumption DEF SizesAssumption
<1>1. /\ tmp_size \in Nat /\ tmp_size > 0 /\ tmp_size <= dateLen /\ tmp_size <= nLoadSize
      /\ offset \in Nat /\ dateLen \in Nat /\ fileLen \in Nat /\ fileLen <= MaxLen
      /\ offset + dateLen = fileLen /\ tmp_buf = offset
  BY DEF IInv, TypeOK, CursorInv, BlockInv, UpgradeFails
<1>2. UNCHANGED <<fileLen, dateLen, offset, tmp_buf, tmp_size, try_count, attempts>>
  BY DEF UpgradeFails, counters
<1>3. /\ flash' \in [Area -> {Old, Torn} \cup 0..MaxLen]
      /\ \A a \in Area : (a < offset \/ a >= offset + tmp_size) => flash'[a] = flash[a]
  <2>1. CASE Writes(BlockBytes)
    <3>1. \A a \in Area : tmp_buf + (a - offset) = a
      BY <1>1 DEF Area
    <3>2. flash' = [a \in Area |-> IF a >= offset /\ a < offset + tmp_size
                                     THEN a ELSE flash[a]]
      BY <2>1, <3>1 DEF Writes, BlockBytes
    <3> QED
      BY <1>1, <3>2 DEF IInv, TypeOK, Area
  <2>2. CASE Writes(TornBytes)
    <3>1. flash' = [a \in Area |-> IF a >= offset /\ a < offset + tmp_size
                                     THEN Torn ELSE flash[a]]
      BY <2>2 DEF Writes, TornBytes
    <3> QED
      BY <1>1, <3>1 DEF IInv, TypeOK, Area
  <2>3. CASE UNCHANGED flash
    BY <2>3 DEF IInv, TypeOK
  <2> QED
    BY <2>1, <2>2, <2>3 DEF UpgradeFails
<1>4. TypeOK'
  BY <1>2, <1>3 DEF IInv, TypeOK, UpgradeFails, Returned
<1>5. OneBlockAtRisk'
  BY <1>1, <1>2, <1>3 DEF IInv, OneBlockAtRisk, Area
<1>6. CursorInv' /\ BlockInv'
  BY <1>1, <1>2 DEF IInv, CursorInv, BlockInv, UpgradeFails
<1>7. AttemptInv' /\ ResultInv' /\ ElevenAttempts'
  BY <1>1, <1>2 DEF IInv, AttemptInv, ResultInv, ElevenAttempts, UpgradeFails
<1> QED
  BY <1>4, <1>5, <1>6, <1>7 DEF IInv

\* The steps between the calls of UpgradeProcess touch the flash only to begin.
LEMMA NextIInv == IInv /\ [Next]_vars => IInv'
<1> SUFFICES ASSUME IInv, [Next]_vars PROVE IInv'
  OBVIOUS
<1> USE SizesAssumption DEF SizesAssumption
<1>1. CASE Call
  <2>1. TypeOK'
    <3>1. flag_abort' \in BOOLEAN /\ bRet' \in BOOLEAN
      BY <1>1 DEF Call, IInv, TypeOK
    <3>2. flash' \in [Area -> {Old, Torn} \cup 0..MaxLen]
      BY <1>1 DEF Call
    <3> QED
      BY <1>1, <3>1, <3>2 DEF Call, IInv, TypeOK, Returned
  <2>2. OneBlockAtRisk'
    BY <1>1 DEF Call, OneBlockAtRisk
  <2>3. CursorInv' /\ BlockInv' /\ AttemptInv' /\ ResultInv' /\ ElevenAttempts'
    <3>1. CursorInv'
      <4>1. fileLen' \in 0..MaxLen /\ dateLen' = fileLen' /\ offset' = 0 /\ tmp_buf' = 0
        BY <1>1 DEF Call
      <4>2. fileLen' \in Nat
        BY <4>1
      <4>3. \A x \in Nat : 0 + x = x
        OBVIOUS
      <4> QED
        BY <4>1, <4>2, <4>3 DEF CursorInv
    <3>2. BlockInv' /\ AttemptInv' /\ ResultInv'
      BY <1>1 DEF Call, BlockInv, AttemptInv, ResultInv
    <3>3. ElevenAttempts'
      BY <1>1 DEF Call, ElevenAttempts
    <3> QED
      BY <3>1, <3>2, <3>3
  <2> QED
    BY <2>1, <2>2, <2>3 DEF IInv
<1>2. CASE Done
  BY <1>2 DEF Done, Return, counters, tries, IInv, TypeOK, CursorInv, BlockInv, AttemptInv,
              ResultInv, OneBlockAtRisk, ElevenAttempts, Returned
<1>3. CASE AbortSeen
  BY <1>3 DEF AbortSeen, Return, counters, tries, IInv, TypeOK, CursorInv, BlockInv,
              AttemptInv, ResultInv, OneBlockAtRisk, ElevenAttempts, Returned
<1>4. CASE GiveUp
  <2>1. /\ pc = "loop" /\ pc' = "false" /\ repeat_flag = 1 /\ try_count = MaxTries
        /\ try_count' = MaxTries + 1 /\ bRet' = FALSE /\ attempts = MaxTries + 1
    BY <1>4 DEF GiveUp, NextTry, Return, IInv, TypeOK, AttemptInv
  <2>2. UNCHANGED <<flag_abort, fileLen, counters, tmp_size, flash, attempts, repeat_flag>>
    BY <1>4 DEF GiveUp, Return
  <2>3. TypeOK'
    <3>1. bRet' \in BOOLEAN
      BY <2>1
    <3> QED
      BY <2>1, <2>2, <3>1 DEF IInv, TypeOK, counters, Returned
  <2>4. OneBlockAtRisk' /\ CursorInv'
    BY <2>2 DEF IInv, OneBlockAtRisk, CursorInv, counters
  <2>5. BlockInv' /\ AttemptInv' /\ ResultInv'
    BY <2>1 DEF BlockInv, AttemptInv, ResultInv
  <2>6. ElevenAttempts'
    BY <2>1, <2>2 DEF ElevenAttempts
  <2> QED
    BY <2>3, <2>4, <2>5, <2>6 DEF IInv
<1>5. CASE Upgrade
  BY <1>5 DEF Upgrade, NextTry, CountAttempt, counters, IInv, TypeOK, CursorInv, BlockInv,
              AttemptInv, ResultInv, OneBlockAtRisk, ElevenAttempts, Returned
<1>6. CASE UpgradeSucceeds
  BY <1>6, UpgradeSucceedsKeeps
<1>7. CASE UpgradeFails
  BY <1>7, UpgradeFailsKeeps
<1>8. CASE AbortClicked
  BY <1>8 DEF AbortClicked, counters, tries, IInv, TypeOK, CursorInv, BlockInv, AttemptInv,
              ResultInv, OneBlockAtRisk, ElevenAttempts, Returned
<1>9. CASE UNCHANGED vars
  BY <1>9 DEF vars, counters, tries, IInv, TypeOK, CursorInv, BlockInv, AttemptInv,
              ResultInv, OneBlockAtRisk, ElevenAttempts
<1> QED
  BY <1>1, <1>2, <1>3, <1>4, <1>5, <1>6, <1>7, <1>8, <1>9 DEF Next, Download

\* The inductive invariant of downLoadFlashFile's loop.
THEOREM Invariance == Spec => []IInv
  BY InitIInv, NextIInv, PTL DEF Spec

\* The variables keep their types; dateLen never becomes negative.
THEOREM TypeCorrect == Spec => []TypeOK
<1>1. IInv => TypeOK
  BY DEF IInv
<1> QED
  BY <1>1, Invariance, PTL

\* Success of downLoadFlashFile means the whole file is in its place.
THEOREM TrueMeansInPlaceHolds == Spec => []TrueMeansInPlace
<1>1. IInv => TrueMeansInPlace
  BY DEF IInv, TypeOK, CursorInv, ResultInv, OneBlockAtRisk, TrueMeansInPlace
<1> QED
  BY <1>1, Invariance, PTL

\* One block at most is at risk, and nothing outside the file's place.
THEOREM OneBlockAtRiskHolds == Spec => []OneBlockAtRisk
<1>1. IInv => OneBlockAtRisk
  BY DEF IInv
<1> QED
  BY <1>1, Invariance, PTL

\* Every block has its own MaxTries + 1 attempts.
THEOREM ElevenAttemptsHolds == Spec => []ElevenAttempts
<1>1. IInv => ElevenAttempts
  BY DEF IInv
<1> QED
  BY <1>1, Invariance, PTL

-------------------------------------------------------------------------------
(* The call keeps the promise of FileDownload. *)

\* Nothing is ever written outside the file's place.
LEMMA PlaceIs ==
    ASSUME IInv
    PROVE  place \in {"old", "torn", "file"}
<1>1. Confined
  BY DEF IInv, OneBlockAtRisk, Confined
<1> QED
  BY <1>1 DEF place

\* A block that is written is not what was there before.
LEMMA WrittenIsNotOld ==
    ASSUME IInv, pc = "upgrade", Writes(BlockBytes) \/ Writes(TornBytes)
    PROVE  ~Untouched'
<1> USE SizesAssumption DEF SizesAssumption
<1>1. /\ tmp_size \in Nat /\ tmp_size > 0 /\ tmp_size <= dateLen
      /\ offset \in Nat /\ dateLen \in Nat /\ fileLen \in Nat /\ fileLen <= MaxLen
      /\ offset + dateLen = fileLen /\ tmp_buf = offset
  BY DEF IInv, TypeOK, CursorInv, BlockInv
<1>2. offset \in Area /\ offset < offset + tmp_size
  BY <1>1 DEF Area
<1>3. flash'[offset] # Old
  <2>1. CASE Writes(BlockBytes)
    <3>1. flash'[offset] = tmp_buf + (offset - offset)
      BY <1>1, <1>2, <2>1 DEF Writes, BlockBytes
    <3> QED
      BY <1>1, <3>1 DEF Old
  <2>2. CASE Writes(TornBytes)
    <3>1. flash'[offset] = Torn
      BY <1>1, <1>2, <2>2 DEF Writes, TornBytes
    <3> QED
      BY <3>1 DEF Old, Torn
  <2> QED
    BY <2>1, <2>2
<1> QED
  BY <1>2, <1>3 DEF Untouched

\* The end of a call of UpgradeProcess writes inside the file's place or nothing.
LEMMA BlockKeepsPromise ==
    ASSUME IInv, IInv', UpgradeSucceeds \/ UpgradeFails
    PROVE  Promise!Write
<1>1. /\ pc = "upgrade" /\ pc' = "loop" /\ flag_abort' = flag_abort /\ fileLen' = fileLen
      /\ Writes(BlockBytes) \/ Writes(TornBytes) \/ UNCHANGED flash
  BY DEF UpgradeSucceeds, UpgradeFails
<1>2. call = "running" /\ call' = call
  BY <1>1 DEF call
<1>3. ~over
  BY <1>1 DEF over, Returned
<1>4. over' \in {TRUE, flag_abort}
  <2>1. flag_abort \in BOOLEAN
    BY DEF IInv, TypeOK
  <2> QED
    BY <1>1, <2>1 DEF over, Returned
<1>5. place' \in {place, "torn", "file"}
  <2>1. CASE Writes(BlockBytes) \/ Writes(TornBytes)
    <3>1. ~Untouched'
      BY <1>1, <2>1, WrittenIsNotOld
    <3>2. Confined'
      BY DEF IInv, OneBlockAtRisk, Confined
    <3> QED
      BY <3>1, <3>2 DEF place
  <2>2. CASE UNCHANGED flash
    BY <1>1, <2>2 DEF place, Untouched, InPlace, Confined, Area
  <2> QED
    BY <1>1, <2>1, <2>2
<1> QED
  BY <1>1, <1>2, <1>3, <1>4, <1>5 DEF Promise!Write

\* true is returned with the file in its place.
LEMMA DoneKeepsPromise ==
    ASSUME IInv, Done
    PROVE  Promise!Succeed \/ Promise!Fail
<1> USE SizesAssumption DEF SizesAssumption
<1>1. /\ pc = "loop" /\ dateLen = 0 /\ pc' = IF bRet THEN "true" ELSE "false"
      /\ UNCHANGED <<flag_abort, fileLen, flash>>
  BY DEF Done, Return
<1>2. call = "running" /\ call' = (IF bRet THEN "true" ELSE "false") /\ over' = TRUE
  BY <1>1 DEF call, over, Returned
<1>3. place' = place
  BY <1>1 DEF place, Untouched, InPlace, Confined
<1>4. CASE ~bRet
  BY <1>1, <1>2, <1>3, <1>4 DEF Promise!Fail
<1>5. CASE bRet
  <2>1. /\ offset > 0 /\ offset = fileLen /\ fileLen \in Nat /\ fileLen <= MaxLen
    BY <1>1, <1>5 DEF IInv, TypeOK, ResultInv, CursorInv
  <2>2. InPlace
    BY <2>1 DEF IInv, OneBlockAtRisk, InPlace, Area
  <2>3. ~Untouched
    <3>1. 0 \in Area /\ 0 \in 0..offset - 1
      BY <2>1 DEF Area
    <3>2. flash[0] = 0
      BY <3>1 DEF IInv, OneBlockAtRisk
    <3> QED
      BY <3>1, <3>2 DEF Untouched, Old
  <2>4. place = "file"
    BY <2>2, <2>3 DEF place
  <2> QED
    BY <1>1, <1>2, <1>3, <1>5, <2>4 DEF Promise!Succeed
<1> QED
  BY <1>4, <1>5

LEMMA StepKeepsPromise ==
    ASSUME IInv, [Next]_vars
    PROVE  Promise!Next \/ UNCHANGED Promise!vars
<1> USE SizesAssumption DEF SizesAssumption
<1>1. IInv'
  BY NextIInv
<1>2. flag_abort \in BOOLEAN /\ dateLen \in Nat
  BY DEF IInv, TypeOK
<1>3. ASSUME UNCHANGED <<flash, fileLen>> PROVE place' = place
  BY <1>3 DEF place, Untouched, InPlace, Confined
<1>4. CASE Call
  <2>1. call # "running" /\ call' = "running"
    BY <1>4 DEF Call, call, Returned
  <2>2. place' = "old"
    BY <1>4 DEF Call, place, Untouched
  <2>3. flag_abort' \in {flag_abort, FALSE}
    BY <1>4 DEF Call
  <2>4. over' \in {TRUE, flag_abort'}
    BY <1>2, <1>4, <2>3 DEF Call, over, Returned
  <2> QED
    BY <2>1, <2>2, <2>3, <2>4 DEF Promise!Next, Promise!Begin
<1>5. CASE Done
  BY <1>5, DoneKeepsPromise DEF Promise!Next
<1>6. CASE AbortSeen \/ GiveUp
  <2>1. pc = "loop" /\ pc' = "false" /\ UNCHANGED <<flag_abort, fileLen, flash>>
    BY <1>6 DEF AbortSeen, GiveUp, Return
  <2>2. call = "running" /\ call' = "false" /\ over' = TRUE
    BY <2>1 DEF call, over, Returned
  <2> QED
    BY <1>3, <2>1, <2>2 DEF Promise!Next, Promise!Fail
<1>7. CASE Upgrade
  <2>1. /\ pc = "loop" /\ pc' = "upgrade" /\ ~flag_abort /\ dateLen > 0
        /\ UNCHANGED <<flag_abort, fileLen, flash>>
    BY <1>7 DEF Upgrade
  <2>2. call' = call /\ over = FALSE /\ over' = FALSE
    BY <1>2, <2>1 DEF call, over, Returned
  <2> QED
    BY <1>3, <2>1, <2>2 DEF Promise!vars
<1>8. CASE UpgradeSucceeds \/ UpgradeFails
  BY <1>1, <1>8, BlockKeepsPromise DEF Promise!Next
<1>9. CASE AbortClicked
  <2>1. /\ pc = "upgrade" \/ pc \in Returned
        /\ ~flag_abort /\ flag_abort' = TRUE /\ UNCHANGED <<pc, fileLen, flash>>
    BY <1>9 DEF AbortClicked
  <2>2. call' = call /\ over' = over
    BY <2>1 DEF call, over, Returned
  <2> QED
    BY <1>3, <2>1, <2>2 DEF Promise!Next, Promise!Abort
<1>10. CASE UNCHANGED vars
  <2>1. UNCHANGED <<pc, flag_abort, fileLen, flash, dateLen>>
    BY <1>10 DEF vars, counters
  <2>2. call' = call /\ over' = over
    BY <2>1 DEF call, over
  <2> QED
    BY <1>3, <2>1, <2>2 DEF Promise!vars
<1> QED
  BY <1>4, <1>5, <1>6, <1>7, <1>8, <1>9, <1>10 DEF Next, Download

\* downLoadFlashFile is what the partition sequences take it for: it reports true only
\* of a file in its place, leaves every other place alone, and obeys an abort with the
\* block in progress.
THEOREM ImplementsFileDownloadHolds == Spec => ImplementsFileDownload
<1>1. Init => Promise!Init
  <2> SUFFICES ASSUME Init PROVE Promise!Init
    OBVIOUS
  <2>1. pc = "idle" /\ flag_abort = FALSE /\ flash = [a \in Area |-> Old]
    BY DEF Init
  <2>2. call = "none" /\ over = TRUE
    BY <2>1 DEF call, over, Returned
  <2>3. place = "old"
    BY <2>1 DEF place, Untouched
  <2> QED
    BY <2>1, <2>2, <2>3 DEF Promise!Init
<1>2. IInv /\ [Next]_vars => [Promise!Next]_(Promise!vars)
  BY StepKeepsPromise
<1> QED
  BY <1>1, <1>2, Invariance, PTL DEF Spec, ImplementsFileDownload, Promise!Spec

===============================================================================
