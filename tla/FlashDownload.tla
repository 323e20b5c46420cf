----------------------------- MODULE FlashDownload -----------------------------
(***************************************************************************)
(* HG_UpgradeFunc::downLoadFlashFile: a file is cut into blocks of         *)
(* nLoadSize bytes, each given to UpgradeProcess with its flash address    *)
(* and tried again when that fails.                                        *)
(*                                                                         *)
(* A call of UpgradeProcess is two steps here, with a wait between them in *)
(* which the Abort buttons work.  Its outcome is what BlockTransfer        *)
(* promises when no frame went unanswered: success means that the block is *)
(* in the flash; a failure may leave the block's place as it was, torn, or *)
(* complete (when only the last answer was lost).                          *)
(*                                                                         *)
(* Flash addresses are relative to dwFlashAddr.  The flash maps an address *)
(* to the offset in the file of the byte it holds, or to Old or Torn.      *)
(***************************************************************************)
EXTENDS Integers

CONSTANTS
    MaxLen,      \* bound: the longest file
    nLoadSize,   \* 1572864
    MaxTries     \* 10: what try_count may not exceed

ASSUME SizesAssumption == MaxLen \in Nat /\ nLoadSize \in Nat \ {0} /\ MaxTries \in Nat

VARIABLES
    pc,            \* "idle", "loop", "upgrade", or what the call returned
    flag_abort,
    fileLen,       \* the argument dateLen
    dateLen,       \* what is left of it
    offset,
    tmp_buf,       \* as an offset from data
    tmp_size,
    repeat_flag,
    try_count,
    bRet,
    flash,
    attempts       \* history: calls of UpgradeProcess for the block at offset, up to
                   \* the bound MaxTries + 2

counters == <<dateLen, offset, tmp_buf>>
tries    == <<repeat_flag, try_count, bRet>>
vars     == <<pc, flag_abort, fileLen, counters, tmp_size, tries, flash, attempts>>

Old  == -1   \* what was there before the call
Torn == -2   \* neither that nor a byte of the file

\* The file's place in the flash and what follows it.
Area == 0..MaxLen + nLoadSize

Returned == {"idle", "true", "false"}

TypeOK ==
    /\ pc \in Returned \cup {"loop", "upgrade"}
    /\ flag_abort \in BOOLEAN
    /\ fileLen \in 0..MaxLen
    /\ dateLen \in 0..fileLen /\ offset \in 0..fileLen /\ tmp_buf \in 0..fileLen
    /\ tmp_size \in 0..nLoadSize
    /\ repeat_flag \in {0, 1} /\ try_count \in 0..MaxTries + 1 /\ bRet \in BOOLEAN
    /\ flash \in [Area -> {Old, Torn} \cup 0..MaxLen]
    /\ attempts \in 0..MaxTries + 2

-------------------------------------------------------------------------------

(* A definition whose name ends in _Bug is a wrong variant of the one after it: *)
(* no action uses it, it is there to see that a property notices the mistake.   *)

\* A new call.  flag_abort is as the last call left it or cleared by a Start button.
Call ==
    /\ pc \in Returned
    /\ flag_abort' \in {flag_abort, FALSE}
    /\ fileLen' \in 0..MaxLen
    /\ dateLen' = fileLen'
    /\ offset' = 0 /\ tmp_buf' = 0
    /\ repeat_flag' = 0 /\ try_count' = 0 /\ bRet' = FALSE
    /\ flash' = [a \in Area |-> Old]
    /\ attempts' = 0
    /\ pc' = "loop"
    /\ UNCHANGED tmp_size

\* The rest of a call that returns ret.
Return(ret) ==
    /\ pc' = IF ret THEN "true" ELSE "false"
    /\ UNCHANGED <<flag_abort, fileLen, counters, tmp_size, flash, attempts>>

\* dateLen > 0 fails.  An empty file is a failure.
Done ==
    /\ pc = "loop"
    /\ dateLen = 0
    /\ Return(bRet)
    /\ UNCHANGED tries

AbortSeen_Bug ==   \* return true
    /\ pc = "loop"
    /\ dateLen > 0
    /\ flag_abort
    /\ Return(TRUE)
    /\ UNCHANGED tries

AbortSeen ==
    /\ pc = "loop"
    /\ dateLen > 0
    /\ flag_abort
    /\ Return(FALSE)
    /\ UNCHANGED tries

NextTry_Bug ==   \* try_count is not set back for a new block
    IF repeat_flag = 1 \/ offset > 0 THEN try_count + 1 ELSE 0

\* try_count of this round.
NextTry == IF repeat_flag = 1 THEN try_count + 1 ELSE 0

GiveUp ==
    /\ pc = "loop"
    /\ dateLen > 0
    /\ ~flag_abort
    /\ NextTry > MaxTries
    /\ try_count' = NextTry
    /\ bRet' = FALSE
    /\ Return(FALSE)
    /\ UNCHANGED repeat_flag

CountAttempt ==
    attempts' = IF attempts < MaxTries + 2 THEN attempts + 1 ELSE attempts

Upgrade_Bug ==   \* the last block as long as the others
    /\ pc = "loop"
    /\ dateLen > 0
    /\ ~flag_abort
    /\ NextTry <= MaxTries
    /\ try_count' = NextTry
    /\ tmp_size' = nLoadSize
    /\ CountAttempt
    /\ pc' = "upgrade"
    /\ UNCHANGED <<flag_abort, fileLen, counters, repeat_flag, bRet, flash>>

\* The call of UpgradeProcess.
Upgrade ==
    /\ pc = "loop"
    /\ dateLen > 0
    /\ ~flag_abort
    /\ NextTry <= MaxTries
    /\ try_count' = NextTry
    /\ tmp_size' = IF repeat_flag = 1 THEN tmp_size
                   ELSE IF dateLen > nLoadSize THEN nLoadSize ELSE dateLen
    /\ CountAttempt
    /\ pc' = "upgrade"
    /\ UNCHANGED <<flag_abort, fileLen, counters, repeat_flag, bRet, flash>>

\* UpgradeProcess leaves content[a] at each address a of the block's place.
Writes(content) ==
    flash' = [a \in Area |-> IF a >= offset /\ a < offset + tmp_size THEN content[a]
                                                                    ELSE flash[a]]

BlockBytes == [a \in Area |-> tmp_buf + (a - offset)]
TornBytes  == [a \in Area |-> Torn]

UpgradeSucceeds_Bug ==   \* tmp_buf stays at the first block
    /\ pc = "upgrade"
    /\ Writes(BlockBytes)
    /\ bRet' = TRUE
    /\ offset' = offset + tmp_size
    /\ dateLen' = dateLen - tmp_size
    /\ repeat_flag' = 0
    /\ attempts' = 0
    /\ pc' = "loop"
    /\ UNCHANGED <<flag_abort, fileLen, tmp_buf, tmp_size, try_count>>

UpgradeSucceeds ==
    /\ pc = "upgrade"
    /\ Writes(BlockBytes)
    /\ bRet' = TRUE
    /\ tmp_buf' = tmp_buf + tmp_size
    /\ offset' = offset + tmp_size
    /\ dateLen' = dateLen - tmp_size
    /\ repeat_flag' = 0
    /\ attempts' = 0
    /\ pc' = "loop"
    /\ UNCHANGED <<flag_abort, fileLen, tmp_size, try_count>>

UpgradeFails_Bug ==   \* repeat_flag is not set
    /\ pc = "upgrade"
    /\ Writes(BlockBytes) \/ Writes(TornBytes) \/ UNCHANGED flash
    /\ bRet' = FALSE
    /\ pc' = "loop"
    /\ UNCHANGED <<flag_abort, fileLen, counters, tmp_size, repeat_flag, try_count, attempts>>

UpgradeFails ==
    /\ pc = "upgrade"
    /\ Writes(BlockBytes) \/ Writes(TornBytes) \/ UNCHANGED flash
    /\ bRet' = FALSE
    /\ repeat_flag' = 1
    /\ pc' = "loop"
    /\ UNCHANGED <<flag_abort, fileLen, counters, tmp_size, try_count, attempts>>

\* In the waits of UpgradeProcess or between two calls.
AbortClicked ==
    /\ pc = "upgrade" \/ pc \in Returned
    /\ ~flag_abort
    /\ flag_abort' = TRUE
    /\ UNCHANGED <<pc, fileLen, counters, tmp_size, tries, flash, attempts>>

Init ==
    /\ pc = "idle" /\ flag_abort = FALSE
    /\ fileLen = 0 /\ dateLen = 0 /\ offset = 0 /\ tmp_buf = 0 /\ tmp_size = 0
    /\ repeat_flag = 0 /\ try_count = 0 /\ bRet = FALSE
    /\ flash = [a \in Area |-> Old]
    /\ attempts = 0

Download == Done \/ AbortSeen \/ GiveUp \/ Upgrade \/ UpgradeSucceeds \/ UpgradeFails

Next == Call \/ Download \/ AbortClicked

\* UpgradeProcess returns (UpgradeProcess!ReturnsUnlessRestartedForever says when).
Spec == Init /\ [][Next]_vars /\ WF_vars(Download)

-------------------------------------------------------------------------------
(* Properties. *)

\* true is returned only with the whole file in its place, each byte at its own
\* address, whatever the failed attempts in between had left there.
TrueMeansInPlace ==
    pc = "true" => fileLen > 0 /\ \A a \in 0..fileLen - 1 : flash[a] = a

\* A partial failure: up to offset the flash holds the file, after the block that
\* was being tried it holds what it held before, and nothing beyond the file's end
\* is ever touched, by a retry or an aborted block either.
OneBlockAtRisk ==
    /\ \A a \in 0..offset - 1 : flash[a] = a
    /\ \A a \in Area : (a >= offset + nLoadSize \/ a >= fileLen) => flash[a] = Old

\* Every block has MaxTries + 1 attempts of its own, whatever the blocks before it
\* used up, and the call gives up neither earlier nor later.
ElevenAttempts ==
    /\ attempts <= MaxTries + 1
    /\ (pc = "false" /\ ~flag_abort /\ fileLen > 0) => attempts = MaxTries + 1

\* The call as the partition sequences see it is FileDownload, whatever blocks, tries
\* and failures it is made of: it reports true only of a file that lies in its place,
\* leaves every other place alone, and obeys an abort with the block in progress.
call == CASE pc = "idle"  -> "none"
          [] pc = "true"  -> "true"
          [] pc = "false" -> "false"
          [] OTHER        -> "running"

Untouched == \A a \in Area : flash[a] = Old
InPlace   == \A a \in Area : flash[a] = IF a < fileLen THEN a ELSE Old
Confined  == \A a \in Area : a >= fileLen => flash[a] = Old

place == IF Untouched THEN "old"
         ELSE IF InPlace THEN "file"
         ELSE IF Confined THEN "torn" ELSE "spilled"

over == pc \in Returned \/ (pc = "loop" /\ (flag_abort \/ dateLen = 0))

Promise == INSTANCE FileDownload WITH told <- flag_abort
ImplementsFileDownload == Promise!Spec

\* The call returns if its calls of UpgradeProcess do: no file, no sequence of
\* failures and no click keeps it going.
Returns == pc = "loop" ~> pc \in Returned

===============================================================================
