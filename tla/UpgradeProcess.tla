---------------------------- MODULE UpgradeProcess ----------------------------
(***************************************************************************)
(* HG_UpgradeFunc::UpgradeProcess, the host's side of the upgrade of one   *)
(* block of a file: shake hands with the boot rom, then send CONNECT,      *)
(* START_DATA, the data in frames of TX_PKG_MAX_SIZE bytes, and EXEC_DATA, *)
(* each frame waiting for its answer before the next one.                  *)
(*                                                                         *)
(* The function runs on the GUI thread.  While it waits (hg_msleep) the    *)
(* event loop runs the slots showResponse, processError and processTimeout *)
(* and the Abort buttons.  Between two waits it is one step.  What the     *)
(* serial port answers is left open: any reply, an error or a timeout.     *)
(* The worker thread behind the port is modelled in MasterThread, the      *)
(* board in Transfer.                                                      *)
(***************************************************************************)
EXTENDS Integers, Frames

CONSTANTS
    NRdSize,         \* nRdSize: bytes of the block
    TxPkgMaxSize,    \* TX_PKG_MAX_SIZE, 8 or 32 KiB by baud rate
    HandshakeTries,  \* 500: handshakes before giving up
    SendTries,       \* 50: rounds of the send loop before giving up
    NackCntMax,      \* TRANS_NACK_CNT_MAX
    Replies          \* the byte arrays the port may deliver

ASSUME SizesAssumption ==
    /\ NRdSize \in Nat \ {0}
    /\ TxPkgMaxSize \in Nat \ {0}
ASSUME BoundsAssumption ==
    /\ SendTries \in Nat \ {0}
    /\ HandshakeTries \in Nat /\ HandshakeTries > SendTries
    /\ NackCntMax \in Nat /\ NackCntMax > SendTries
ASSUME RepliesAssumption == Replies \subseteq Reply

VARIABLES
    pc,                    \* where the call stands
    flag_abort,            \* set by the Abort buttons
    tryCount,
    loop_state,            \* local copy of m_upgrade_status, drives the switch
    buff_r,                \* offset of the next byte to send
    left_size,             \* bytes not sent yet
    last_dlen,             \* size of the last data frame
    m_upgrade_status,
    m_send_complete_flag,
    m_repeat_send_flag,
    m_send_total_byte,
    m_nFileSize,
    m_nack_count,
    m_sendBuf,             \* the frame last handed to the worker
    responseStatus,        \* -1 waiting, 0 useless answer, 1 answer in serialBuff
    timeoutStatus,
    serialBuff

members == <<m_send_complete_flag, m_repeat_send_flag, m_send_total_byte,
             m_nFileSize, m_nack_count>>
status  == <<m_upgrade_status, loop_state>>
cursor  == <<buff_r, left_size, last_dlen>>
answer  == <<responseStatus, timeoutStatus, serialBuff>>
vars    == <<pc, flag_abort, tryCount, members, status, cursor, m_sendBuf, answer>>

-------------------------------------------------------------------------------

\* UPGRADE_STATUS_E
Status == {"START", "GOT_VERSION", "CONNECTED", "START_DATA", "MIDST_DATA",
           "END_DATA", "EXEC_DATA"}

\* The call has returned, or was not made yet.
Returned == {"idle", "success", "aborted", "noBoard", "gaveUp"}
PC       == Returned \cup {"handshake", "handshakeWait", "send", "sendWait"}

DataCmd  == {"MIDST_DATA", "END_DATA"}
FrameCmd == DataCmd \cup {"NONE", "HANDSHAKE", "CONNECT", "START_DATA", "EXEC_DATA"}

\* A frame of the host: its command and, for data, the bytes from..from+len-1.
Frame(cmd, from, len) == [cmd |-> cmd, from |-> from, len |-> len]
Control(cmd)          == Frame(cmd, 0, 0)

IsData(frame) == frame.cmd \in DataCmd

TypeOK ==
    /\ pc \in PC
    /\ flag_abort \in BOOLEAN
    /\ tryCount \in Nat
    /\ loop_state \in Status /\ m_upgrade_status \in Status
    /\ buff_r \in Nat /\ left_size \in Nat /\ last_dlen \in Nat
    /\ m_send_complete_flag \in {0, 1} /\ m_repeat_send_flag \in {0, 1}
    /\ m_send_total_byte \in Nat /\ m_nFileSize \in Nat /\ m_nack_count \in Nat
    /\ m_sendBuf \in [cmd : FrameCmd, from : Nat, len : Nat]
    /\ responseStatus \in {-1, 0, 1} /\ timeoutStatus \in BOOLEAN
    /\ serialBuff \in Replies \cup {NoReply}

-------------------------------------------------------------------------------

(* A definition whose name ends in _Bug is a wrong variant of the one after it: *)
(* no action uses it, it is there to see that a property notices the mistake.   *)

reset_global_variable_Bug ==   \* m_send_complete_flag survives a restart
    /\ m_repeat_send_flag' = 0
    /\ m_upgrade_status' = "START"
    /\ m_send_total_byte' = 0
    /\ m_nFileSize' = 0
    /\ m_nack_count' = 0
    /\ UNCHANGED m_send_complete_flag

reset_global_variable ==
    /\ m_send_complete_flag' = 0
    /\ m_repeat_send_flag' = 0
    /\ m_upgrade_status' = "START"
    /\ m_send_total_byte' = 0
    /\ m_nFileSize' = 0
    /\ m_nack_count' = 0

StartAgain_Bug ==   \* the label after the line that resets buff_r
    /\ reset_global_variable
    /\ left_size' = NRdSize
    /\ pc' = "handshake"
    /\ UNCHANGED buff_r

\* The code at the label start_again.
StartAgain ==
    /\ reset_global_variable
    /\ buff_r' = 0
    /\ left_size' = NRdSize
    /\ pc' = "handshake"

\* responseStatus = -1; timeoutStatus = false, before the request is handed over.
ArmAnswer ==
    /\ responseStatus' = -1
    /\ timeoutStatus' = FALSE

(* A new call: by downLoadFlashFile, which has just seen flag_abort false, or  *)
(* by downProgramFile, which does not look.  The Start buttons clear the flag. *)
Call ==
    /\ pc \in Returned
    /\ flag_abort' \in {flag_abort, FALSE}
    /\ tryCount' = 0
    /\ last_dlen' = 0
    /\ loop_state' = "START"
    /\ StartAgain
    /\ UNCHANGED <<m_sendBuf, answer>>

-------------------------------------------------------------------------------
(* The handshake loop. *)

HandshakeAbort ==
    /\ pc = "handshake"
    /\ flag_abort
    /\ pc' = "aborted"
    /\ UNCHANGED <<flag_abort, tryCount, members, status, cursor, m_sendBuf, answer>>

HandshakeGiveUp ==
    /\ pc = "handshake"
    /\ ~flag_abort
    /\ tryCount + 1 > HandshakeTries
    /\ tryCount' = tryCount + 1
    /\ pc' = "noBoard"
    /\ UNCHANGED <<flag_abort, members, status, cursor, m_sendBuf, answer>>

\* One byte, 0x7E, in mode 1.
HandshakeSend ==
    /\ pc = "handshake"
    /\ ~flag_abort
    /\ tryCount + 1 <= HandshakeTries
    /\ tryCount' = tryCount + 1
    /\ m_sendBuf' = Control("HANDSHAKE")
    /\ ArmAnswer
    /\ pc' = "handshakeWait"
    /\ UNCHANGED <<flag_abort, members, status, cursor, serialBuff>>

\* The wait is over and no version was got: continue.
HandshakeRetry ==
    /\ pc = "handshakeWait"
    /\ \/ timeoutStatus
       \/ responseStatus = 0
       \/ responseStatus = 1 /\ FALSE \in parse_version(serialBuff, VERSION_LEN)
    /\ pc' = "handshake"
    /\ UNCHANGED <<flag_abort, tryCount, members, status, cursor, m_sendBuf, answer>>

HandshakeDone ==
    /\ pc = "handshakeWait"
    /\ ~timeoutStatus
    /\ responseStatus = 1
    /\ TRUE \in parse_version(serialBuff, VERSION_LEN)
    /\ m_upgrade_status' = "GOT_VERSION"
    /\ loop_state' = "GOT_VERSION"
    /\ m_nFileSize' = NRdSize
    /\ left_size' = NRdSize
    /\ tryCount' = 0
    /\ pc' = "send"
    /\ UNCHANGED <<flag_abort, m_send_complete_flag, m_repeat_send_flag,
                   m_send_total_byte, m_nack_count, buff_r, last_dlen, m_sendBuf, answer>>

-------------------------------------------------------------------------------
(* The send loop.  Every round tests flag_abort, counts itself, builds the     *)
(* frame of the current state and waits for the answer.                        *)

SendAbort ==
    /\ pc = "send"
    /\ flag_abort
    /\ pc' = "aborted"
    /\ UNCHANGED <<flag_abort, tryCount, members, status, cursor, m_sendBuf, answer>>

SendGiveUp ==
    /\ pc = "send"
    /\ ~flag_abort
    /\ tryCount + 1 > SendTries
    /\ tryCount' = tryCount + 1
    /\ pc' = "gaveUp"
    /\ UNCHANGED <<flag_abort, members, status, cursor, m_sendBuf, answer>>

RoundNack_Bug ==   \* a frame sent again does not count
    /\ pc = "send"
    /\ ~flag_abort
    /\ tryCount + 1 <= SendTries
    /\ tryCount' = IF m_repeat_send_flag = 1 THEN tryCount ELSE tryCount + 1

RoundOk_Bug ==   \* only rounds after a failure count
    /\ pc = "send"
    /\ ~flag_abort
    /\ tryCount + 1 <= SendTries
    /\ tryCount' = IF responseStatus = 1 THEN tryCount ELSE tryCount + 1

RoundNone_Bug ==   \* the counter is forgotten
    /\ pc = "send"
    /\ ~flag_abort
    /\ UNCHANGED tryCount

\* A round that passes both tests.
Round ==
    /\ pc = "send"
    /\ ~flag_abort
    /\ tryCount + 1 <= SendTries
    /\ tryCount' = tryCount + 1

Transact_Bug(frame) ==   \* only data frames drop the repeat flag
    /\ m_repeat_send_flag' = IF IsData(frame) THEN 0 ELSE m_repeat_send_flag
    /\ ArmAnswer
    /\ serialBuff' = NoReply
    /\ m_sendBuf' = frame
    /\ pc' = "sendWait"

\* The round's end: the repeat flag is dropped and the frame goes to the worker.
Transact(frame) ==
    /\ m_repeat_send_flag' = 0
    /\ ArmAnswer
    /\ serialBuff' = NoReply
    /\ m_sendBuf' = frame
    /\ pc' = "sendWait"

SendControl(state, cmd) ==
    /\ Round
    /\ loop_state = state
    /\ Transact(Control(cmd))
    /\ UNCHANGED <<flag_abort, m_send_complete_flag, m_send_total_byte, m_nFileSize,
                   m_nack_count, status, cursor>>

SendConnect   == SendControl("GOT_VERSION", "CONNECT")
SendStartData == SendControl("CONNECTED", "START_DATA")
SendExec      == SendControl("END_DATA", "EXEC_DATA")

Rewind_Bug == 0   \* a refused frame is not sent again

RewindTimeout_Bug ==   \* an unanswered frame is, without sequence numbers
    IF m_repeat_send_flag = 1 \/ timeoutStatus THEN last_dlen ELSE 0

\* Bytes to step back by: the last frame when a NACK asked for it again.
Rewind == IF m_repeat_send_flag = 1 THEN last_dlen ELSE 0

SendData ==
    LET from == buff_r - Rewind
        left == left_size + Rewind
        size == IF left >= TxPkgMaxSize THEN TxPkgMaxSize ELSE left
        end  == size = left
    IN  /\ Round
        /\ loop_state \in {"START_DATA", "MIDST_DATA"}
        /\ m_send_complete_flag' = IF end THEN 1
                                   ELSE IF m_repeat_send_flag = 1 THEN 0
                                   ELSE m_send_complete_flag
        /\ buff_r' = from + size
        /\ left_size' = left - size
        /\ m_send_total_byte' = m_send_total_byte - Rewind + size
        /\ last_dlen' = size
        /\ Transact(Frame(IF end THEN "END_DATA" ELSE "MIDST_DATA", from, size))
        /\ UNCHANGED <<flag_abort, m_nFileSize, m_nack_count, status>>

Complete ==
    /\ Round
    /\ loop_state = "EXEC_DATA"
    /\ m_sendBuf' = Control("NONE")   \* the memset of every round
    /\ pc' = "success"
    /\ UNCHANGED <<flag_abort, members, status, cursor, answer>>

-------------------------------------------------------------------------------
(* The answer to a frame of the send loop. *)

\* What parse_frame may make of the answer, once the wait is over.
Parsed ==
    IF ~timeoutStatus /\ responseStatus = 1 THEN parse_frame(serialBuff, FRAME_LEN) ELSE {}

SendRetry_Bug ==   \* a port error ends no wait
    /\ pc = "sendWait"
    /\ timeoutStatus \/ Rejected \in Parsed
    /\ pc' = "send"
    /\ UNCHANGED <<flag_abort, tryCount, members, status, cursor, m_sendBuf, answer>>

\* A timeout, an error, a short or a rejected answer: continue.
SendRetry ==
    /\ pc = "sendWait"
    /\ timeoutStatus \/ responseStatus = 0 \/ Rejected \in Parsed
    /\ pc' = "send"
    /\ UNCHANGED <<flag_abort, tryCount, members, status, cursor, m_sendBuf, answer>>

\* state_parse on an ACK: the state after the current one.
AckedStatus ==
    CASE m_upgrade_status = "GOT_VERSION" -> "CONNECTED"
      [] m_upgrade_status = "CONNECTED"   -> "START_DATA"
      [] m_upgrade_status \in {"START_DATA", "MIDST_DATA"} ->
             IF m_send_complete_flag = 1 THEN "END_DATA" ELSE "MIDST_DATA"
      [] m_upgrade_status = "END_DATA"    -> "EXEC_DATA"
      [] OTHER                            -> m_upgrade_status

StateParseAck ==
    /\ pc = "sendWait"
    /\ \E ret \in Parsed : ret.cmd = "ACK"
    /\ m_upgrade_status' = AckedStatus
    /\ loop_state' = AckedStatus
    /\ pc' = "send"
    /\ UNCHANGED <<flag_abort, tryCount, members, cursor, m_sendBuf, answer>>

\* A NACK that ends the link: NACK_RESET, or too many of them.
Fatal(ret) == m_nack_count + 1 >= NackCntMax \/ ret.err = "RESET"

StateParseNack ==
    /\ pc = "sendWait"
    /\ \E ret \in Parsed : ret.cmd = "NACK" /\ ~Fatal(ret)
    /\ m_nack_count' = m_nack_count + 1
    /\ m_repeat_send_flag' = 1
    /\ loop_state' = m_upgrade_status
    /\ pc' = "send"
    /\ UNCHANGED <<flag_abort, tryCount, m_send_complete_flag, m_send_total_byte,
                   m_nFileSize, m_upgrade_status, cursor, m_sendBuf, answer>>

\* A fatal NACK, an ERR or any command state_parse does not know: start_again.
\* tryCount and last_dlen keep their values.
StateParseRestart ==
    /\ pc = "sendWait"
    /\ \E ret \in Parsed : \/ ret.cmd = "NACK" /\ Fatal(ret)
                           \/ ret.cmd \in Cmd \ {"ACK", "NACK"}
    /\ loop_state' = "START"
    /\ StartAgain
    /\ UNCHANGED <<flag_abort, tryCount, last_dlen, m_sendBuf, answer>>

-------------------------------------------------------------------------------
(* What the event loop runs during a wait. *)

Waiting ==
    /\ pc \in {"handshakeWait", "sendWait"}
    /\ responseStatus = -1 /\ ~timeoutStatus

\* The shortest answer showResponse accepts, by the request's mode.
MinSize == IF pc = "handshakeWait" THEN VERSION_LEN ELSE FRAME_LEN

showResponse(r) ==
    /\ Waiting
    /\ responseStatus' = IF r.size < MinSize THEN 0 ELSE 1
    /\ serialBuff' = IF r.size < MinSize THEN NoReply ELSE r
    /\ UNCHANGED <<pc, flag_abort, tryCount, members, status, cursor, m_sendBuf, timeoutStatus>>

processError ==
    /\ Waiting
    /\ responseStatus' = 0
    /\ UNCHANGED <<pc, flag_abort, tryCount, members, status, cursor, m_sendBuf,
                   timeoutStatus, serialBuff>>

processTimeout ==
    /\ Waiting
    /\ responseStatus' = 0
    /\ timeoutStatus' = TRUE
    /\ UNCHANGED <<pc, flag_abort, tryCount, members, status, cursor, m_sendBuf, serialBuff>>

\* on_SYS_BURN_ABORT_clicked, on_BBFW_BURN_ABORT_clicked.
AbortClicked ==
    /\ pc \in {"handshakeWait", "sendWait"} \cup Returned
    /\ ~flag_abort
    /\ flag_abort' = TRUE
    /\ UNCHANGED <<pc, tryCount, members, status, cursor, m_sendBuf, answer>>

-------------------------------------------------------------------------------

Init ==
    /\ pc = "idle"
    /\ flag_abort = FALSE
    /\ tryCount = 0
    /\ loop_state = "START" /\ m_upgrade_status = "START"
    /\ buff_r = 0 /\ left_size = 0 /\ last_dlen = 0
    /\ m_send_complete_flag = 0 /\ m_repeat_send_flag = 0
    /\ m_send_total_byte = 0 /\ m_nFileSize = 0 /\ m_nack_count = 0
    /\ m_sendBuf = Control("NONE")
    /\ responseStatus = -1 /\ timeoutStatus = FALSE /\ serialBuff = NoReply

Handshake == HandshakeAbort \/ HandshakeGiveUp \/ HandshakeSend
             \/ HandshakeRetry \/ HandshakeDone

Send == SendAbort \/ SendGiveUp \/ SendConnect \/ SendStartData \/ SendData \/ SendExec
        \/ Complete \/ SendRetry \/ StateParseAck \/ StateParseNack \/ StateParseRestart

Answer == (\E r \in Replies : showResponse(r)) \/ processError \/ processTimeout

Host == Handshake \/ Send

Next == Call \/ Host \/ Answer \/ AbortClicked

(* The GUI thread keeps running and every request is answered, at the latest   *)
(* by the worker's timeout.  No fairness on Call and AbortClicked: the user    *)
(* need not click.                                                             *)
Spec == Init /\ [][Next]_vars /\ WF_vars(Host) /\ WF_vars(Answer)

-------------------------------------------------------------------------------
(* Properties. *)

\* get_progress_pos, emitted to the progress bar in every round.
get_progress_pos ==
    IF m_nFileSize = 0 THEN 0 ELSE (m_send_total_byte * 100) \div m_nFileSize

\* The bytes counted as sent and the bytes left always add up to the block, the
\* read cursor agrees with the count, and so the progress shown stays in 0..100
\* (processBar_updata refuses more): through every NACK, rewind, restart and the
\* empty END_DATA frames that follow a timeout of the last one.
BytesConserved ==
    pc \in {"send", "sendWait"} =>
        /\ m_send_total_byte + left_size = NRdSize
        /\ buff_r = m_send_total_byte
        /\ get_progress_pos \in 0..100

\* A data frame after a NACK is the frame that was refused, byte for byte; any
\* other data frame starts where the last one ended.  A frame that was not
\* answered is therefore never sent again: the host skips on.
FrameOrder ==
    [][(pc = "send" /\ pc' = "sendWait" /\ IsData(m_sendBuf')) =>
          IF m_repeat_send_flag = 1
            THEN m_sendBuf' = m_sendBuf
            ELSE m_sendBuf'.from = IF IsData(m_sendBuf) THEN m_sendBuf.from + m_sendBuf.len
                                                        ELSE 0]_vars

\* EXEC_DATA burns what the board has got: it is sent only after an ACK to an
\* END_DATA frame that ends where the block ends, that is with every byte handed
\* over in this attempt.  That frame may be the empty one that follows a last frame
\* nobody answered, so the last byte itself may never have been acknowledged.
ExecAfterBlockSent ==
    [][/\ (m_upgrade_status' = "END_DATA" /\ m_upgrade_status # "END_DATA") =>
             /\ m_sendBuf.cmd = "END_DATA"
             /\ m_sendBuf.from + m_sendBuf.len = NRdSize
       /\ (m_sendBuf'.cmd = "EXEC_DATA" /\ m_sendBuf # m_sendBuf') =>
             m_upgrade_status = "END_DATA"]_vars

\* TRANS_NACK_CNT_MAX never ends the link: the send loop runs out of rounds
\* first, so the restart on too many NACKs is dead code.
NackLimitUnreachable ==
    pc = "sendWait" => m_nack_count + 1 < NackCntMax

\* The loop counts rounds and not failures: CONNECT, START_DATA, EXEC_DATA and
\* the final round take four of them, so a block of more than SendTries - 4
\* frames cannot succeed however good the line is (1.5 MB in 32 KiB frames).
SuccessNeedsRounds ==
    pc = "success" => /\ tryCount <= SendTries
                      /\ NRdSize <= (tryCount - 4) * TxPkgMaxSize

\* Every call returns, unless the board makes the host start again for ever.
ReturnsUnlessRestartedForever ==
    []<>(pc \in Returned) \/ []<><<StateParseRestart>>_vars

\* The Abort button ends the call, also out of endless restarts, as long as the
\* worker answers every request.
AbortReturns == flag_abort ~> pc \in Returned

\* hg_upgradefunc.cpp:414: "only try 400 times, if failed return false".
GivesUpOnlyAfter400Tries == pc = "gaveUp" => tryCount > 400

===============================================================================
