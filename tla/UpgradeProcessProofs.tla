------------------------- MODULE UpgradeProcessProofs -------------------------
(***************************************************************************)
(* Proofs about UpgradeProcess, for every block size, frame size and set   *)
(* of answers.  TypeOK is not inductive (a rewind must not step back       *)
(* before the block), nor is any of the other invariants: IInv is.         *)
(***************************************************************************)
EXTENDS UpgradeProcess, TLAPS

InHandshake == pc \in {"handshake", "handshakeWait"}
InSend      == pc \in {"send", "sendWait"}
InData      == InSend /\ m_upgrade_status \in {"START_DATA", "MIDST_DATA"}

\* A handshake starts from the values of reset_global_variable.
FreshInv ==
    InHandshake => /\ buff_r = 0 /\ m_send_total_byte = 0 /\ m_nack_count = 0
                   /\ m_send_complete_flag = 0 /\ m_repeat_send_flag = 0
                   /\ pc = "handshakeWait" => m_sendBuf.cmd = "HANDSHAKE"

\* The cursor, the count and the rest agree; loop_state copies m_upgrade_status.
CursorInv ==
    InSend => /\ loop_state = m_upgrade_status /\ m_upgrade_status # "START"
              /\ m_nFileSize = NRdSize
              /\ buff_r = m_send_total_byte
              /\ m_send_total_byte + left_size = NRdSize
              /\ pc = "sendWait" => m_repeat_send_flag = 0

\* Every NACK has cost a round.
CountInv ==
    InSend => /\ tryCount <= SendTries
              /\ m_nack_count <= tryCount
              /\ pc = "sendWait" => m_nack_count < tryCount

\* The frame last sent, by the state of the link.
StageInv ==
    InSend =>
        /\ m_upgrade_status \in {"GOT_VERSION", "CONNECTED"} =>
             m_send_total_byte = 0 /\ m_send_complete_flag = 0
        /\ m_upgrade_status = "GOT_VERSION" =>
             /\ m_sendBuf.cmd \in {"HANDSHAKE", "CONNECT"}
             /\ pc = "sendWait" => m_sendBuf.cmd = "CONNECT"
        /\ m_upgrade_status = "CONNECTED" =>
             /\ m_sendBuf.cmd \in {"CONNECT", "START_DATA"}
             /\ pc = "sendWait" => m_sendBuf.cmd = "START_DATA"
        /\ m_upgrade_status = "START_DATA" =>
             \/ IsData(m_sendBuf)
             \/ /\ m_sendBuf.cmd = "START_DATA"
                /\ pc = "send" /\ m_repeat_send_flag = 0
                /\ m_send_total_byte = 0 /\ m_send_complete_flag = 0
        /\ m_upgrade_status = "MIDST_DATA" => IsData(m_sendBuf)
        /\ m_upgrade_status \in {"END_DATA", "EXEC_DATA"} => left_size = 0
        /\ m_upgrade_status = "EXEC_DATA" => pc = "send"

\* The last data frame ends at the cursor and is the one a NACK asks for again.
LastFrameInv ==
    (InData /\ IsData(m_sendBuf)) =>
        /\ m_sendBuf.from + m_sendBuf.len = buff_r
        /\ m_sendBuf.len = last_dlen
        /\ m_sendBuf.cmd = "MIDST_DATA" =>
              m_send_complete_flag = 0 /\ last_dlen = TxPkgMaxSize /\ left_size > 0
        /\ m_sendBuf.cmd = "END_DATA" =>
              m_send_complete_flag = 1 /\ last_dlen <= TxPkgMaxSize /\ left_size = 0

\* The most bytes that n rounds of data frames carry.
Paid(n) == n * TxPkgMaxSize

\* Bytes sent are paid for in rounds.
RoundsInv ==
    /\ InSend =>
         /\ pc = "sendWait" => tryCount >= 1
         /\ m_upgrade_status = "CONNECTED" =>
              tryCount >= 1 /\ (pc = "sendWait" => tryCount >= 2)
         /\ InData => /\ tryCount >= 2
                      /\ m_send_total_byte <= Paid(tryCount - 2)
         /\ m_upgrade_status = "END_DATA" =>
              /\ NRdSize <= Paid(tryCount - 2)
              /\ pc = "sendWait" => NRdSize <= Paid(tryCount - 3)
         /\ m_upgrade_status = "EXEC_DATA" => NRdSize <= Paid(tryCount - 3)
    /\ SuccessNeedsRounds

IInv == /\ TypeOK /\ FreshInv /\ CursorInv /\ CountInv /\ StageInv
        /\ LastFrameInv /\ RoundsInv

-------------------------------------------------------------------------------

LEMMA InitInv == Init => IInv
<1> SUFFICES ASSUME Init PROVE IInv
  OBVIOUS
<1>1. TypeOK
  BY DEF Init, TypeOK, PC, Returned, Status, FrameCmd, Frame, Control
<1>2. FreshInv /\ CursorInv /\ CountInv /\ StageInv /\ LastFrameInv /\ RoundsInv
  BY DEF Init, FreshInv, CursorInv, CountInv, StageInv, LastFrameInv, RoundsInv,
         SuccessNeedsRounds, InHandshake, InSend, InData
<1> QED
  BY <1>1, <1>2 DEF IInv

LEMMA PaidStep ==
    ASSUME NEW n \in Int
    PROVE  /\ Paid(n) \in Int
           /\ Paid(n + 1) = Paid(n) + TxPkgMaxSize
           /\ n >= 0 => Paid(n) >= 0
<1>1. Paid(n) \in Int /\ (n >= 0 => Paid(n) >= 0)
  BY SizesAssumption DEF Paid
<1>2. Paid(n + 1) = Paid(n) + TxPkgMaxSize
  BY SizesAssumption DEF Paid
<1> QED
  BY <1>1, <1>2

-------------------------------------------------------------------------------
(* Every action preserves IInv. *)

USE SizesAssumption, BoundsAssumption
USE DEF InHandshake, InSend, InData, IsData, members, status, cursor, answer

LEMMA CallInv == IInv /\ Call => IInv'
<1> SUFFICES ASSUME IInv, Call PROVE IInv'
  OBVIOUS
<1> USE DEF Call, StartAgain, reset_global_variable
<1>1. flag_abort' \in BOOLEAN
  BY DEF IInv, TypeOK
<1>2. TypeOK'
  BY <1>1 DEF IInv, TypeOK, PC, Status
<1>3. FreshInv' /\ CursorInv' /\ CountInv' /\ StageInv' /\ LastFrameInv' /\ RoundsInv'
  BY DEF FreshInv, CursorInv, CountInv, StageInv, LastFrameInv, RoundsInv, SuccessNeedsRounds
<1> QED
  BY <1>2, <1>3 DEF IInv

LEMMA HandshakeInv == IInv /\ Handshake => IInv'
<1> SUFFICES ASSUME IInv, Handshake PROVE IInv'
  OBVIOUS
<1> USE DEF IInv, TypeOK, FreshInv, CursorInv, CountInv, StageInv, LastFrameInv,
            RoundsInv, SuccessNeedsRounds, PC, Returned, Status
<1>1. CASE HandshakeAbort
  BY <1>1 DEF HandshakeAbort
<1>2. CASE HandshakeGiveUp
  BY <1>2 DEF HandshakeGiveUp
<1>3. CASE HandshakeSend
  <2> USE <1>3 DEF HandshakeSend, ArmAnswer, Control, Frame
  <2>1. m_sendBuf' \in [cmd : FrameCmd, from : Nat, len : Nat]
    BY DEF FrameCmd
  <2>2. timeoutStatus' \in BOOLEAN /\ flag_abort' \in BOOLEAN
    OBVIOUS
  <2>3. TypeOK'
    BY <2>1, <2>2
  <2> QED
    BY <2>3
<1>4. CASE HandshakeRetry
  BY <1>4 DEF HandshakeRetry
<1>5. CASE HandshakeDone
  BY <1>5 DEF HandshakeDone
<1> QED
  BY <1>1, <1>2, <1>3, <1>4, <1>5 DEF Handshake

LEMMA ReturnInv == IInv /\ (SendAbort \/ SendGiveUp \/ Complete) => IInv'
<1> SUFFICES ASSUME IInv, SendAbort \/ SendGiveUp \/ Complete PROVE IInv'
  OBVIOUS
<1> USE DEF IInv, TypeOK, FreshInv, CursorInv, CountInv, StageInv, LastFrameInv,
            RoundsInv, SuccessNeedsRounds, PC, Returned, Status
<1>1. CASE SendAbort
  BY <1>1 DEF SendAbort
<1>2. CASE SendGiveUp
  BY <1>2 DEF SendGiveUp
<1>3. CASE Complete
  BY <1>3 DEF Complete, Round, Paid, Control, Frame, FrameCmd
<1> QED
  BY <1>1, <1>2, <1>3

LEMMA SendControlInv == IInv /\ (SendConnect \/ SendStartData \/ SendExec) => IInv'
<1> SUFFICES ASSUME IInv,
                    NEW state \in {"GOT_VERSION", "CONNECTED", "END_DATA"},
                    NEW cmd \in {"CONNECT", "START_DATA", "EXEC_DATA"},
                    SendControl(state, cmd),
                    state = "GOT_VERSION" => cmd = "CONNECT",
                    state = "CONNECTED" => cmd = "START_DATA"
             PROVE  IInv'
  BY DEF SendConnect, SendStartData, SendExec
<1> USE DEF SendControl, Round, Transact, ArmAnswer, Control, Frame
<1>1. TypeOK'
  <2>1. m_sendBuf' \in [cmd : FrameCmd, from : Nat, len : Nat]
    BY DEF FrameCmd
  <2>2. timeoutStatus' \in BOOLEAN /\ flag_abort' \in BOOLEAN
    BY DEF IInv, TypeOK
  <2> QED
    BY <2>1, <2>2 DEF IInv, TypeOK, PC
<1>2. FreshInv' /\ CursorInv' /\ CountInv'
  BY DEF IInv, TypeOK, FreshInv, CursorInv, CountInv
<1>3. StageInv'
  BY DEF IInv, CursorInv, StageInv
<1>4. LastFrameInv'
  BY DEF IInv, CursorInv, LastFrameInv, DataCmd
<1>5. RoundsInv'
  <2>1. /\ tryCount \in Nat /\ tryCount' = tryCount + 1
        /\ pc = "send" /\ pc' = "sendWait"
        /\ m_upgrade_status' = m_upgrade_status /\ m_upgrade_status = state
    BY DEF IInv, TypeOK, CursorInv
  <2>2. tryCount' - 3 = tryCount - 2 /\ tryCount' - 2 = (tryCount - 2) + 1
    BY <2>1
  <2>3. Paid(tryCount' - 3) = Paid(tryCount - 2)
    BY <2>2
  <2>4. Paid(tryCount - 2) \in Int /\ Paid(tryCount' - 2) = Paid(tryCount - 2) + TxPkgMaxSize
    BY <2>1, <2>2, PaidStep
  <2> QED
    BY <2>1, <2>3, <2>4 DEF IInv, RoundsInv, SuccessNeedsRounds
<1> QED
  BY <1>1, <1>2, <1>3, <1>4, <1>5 DEF IInv

LEMMA SendDataInv == IInv /\ SendData => IInv'
<1> SUFFICES ASSUME IInv, SendData PROVE IInv'
  OBVIOUS
<1> DEFINE from == buff_r - Rewind
           left == left_size + Rewind
           size == IF left >= TxPkgMaxSize THEN TxPkgMaxSize ELSE left
<1>1. /\ pc = "send" /\ pc' = "sendWait"
      /\ m_upgrade_status \in {"START_DATA", "MIDST_DATA"}
      /\ m_upgrade_status' = m_upgrade_status /\ loop_state' = loop_state
      /\ tryCount' = tryCount + 1 /\ tryCount + 1 <= SendTries
      /\ m_repeat_send_flag' = 0
  BY DEF SendData, Round, Transact, IInv, CursorInv
\* A rewind steps back over the last data frame, which lies inside the block.
<1>2. /\ from \in Nat /\ left \in Nat /\ from + left = NRdSize
      /\ m_send_total_byte - Rewind = from
      /\ Rewind \in Nat
  BY <1>1 DEF Rewind, IInv, TypeOK, CursorInv, StageInv, LastFrameInv
<1>3. size \in Nat /\ size <= left /\ size <= TxPkgMaxSize
  BY <1>2
<1> HIDE DEF from, left
<1>4. /\ buff_r' = from + size /\ left_size' = left - size
      /\ m_send_total_byte' = from + size /\ last_dlen' = size
      /\ m_sendBuf' = Frame(IF size = left THEN "END_DATA" ELSE "MIDST_DATA", from, size)
      /\ UNCHANGED <<flag_abort, m_nFileSize, m_nack_count>>
      /\ responseStatus' = -1 /\ timeoutStatus' = FALSE /\ serialBuff' = NoReply
  BY <1>2 DEF SendData, Transact, ArmAnswer, from, left
<1>5. /\ m_send_complete_flag' \in {0, 1}
      /\ size = left => m_send_complete_flag' = 1
      /\ size # left => m_send_complete_flag' = 0
  <2>1. m_send_complete_flag = 1 /\ m_repeat_send_flag = 0 => left = 0
    BY <1>1, <1>2 DEF left, Rewind, IInv, TypeOK, StageInv, LastFrameInv, DataCmd
  <2>2. m_send_complete_flag' = IF size = left THEN 1
                                ELSE IF m_repeat_send_flag = 1 THEN 0
                                ELSE m_send_complete_flag
    BY DEF SendData, left
  <2> QED
    BY <1>2, <2>1, <2>2 DEF IInv, TypeOK
<1>6. TypeOK'
  <2>1. m_sendBuf' \in [cmd : FrameCmd, from : Nat, len : Nat]
    BY <1>2, <1>3, <1>4 DEF Frame, FrameCmd, DataCmd
  <2>2. timeoutStatus' \in BOOLEAN /\ flag_abort' \in BOOLEAN
    BY <1>4 DEF IInv, TypeOK
  <2> QED
    BY <1>1, <1>2, <1>3, <1>4, <1>5, <2>1, <2>2 DEF IInv, TypeOK, PC
<1>7. FreshInv' /\ CursorInv' /\ CountInv'
  BY <1>1, <1>2, <1>3, <1>4 DEF IInv, TypeOK, FreshInv, CursorInv, CountInv
<1>8. StageInv'
  BY <1>1, <1>4 DEF StageInv, Frame, DataCmd
<1>9. LastFrameInv'
  BY <1>1, <1>2, <1>3, <1>4, <1>5 DEF LastFrameInv, Frame
<1>10. RoundsInv'
  <2>1. /\ tryCount - 2 \in Int
        /\ tryCount' - 2 = (tryCount - 2) + 1
        /\ tryCount >= 2 /\ m_send_total_byte <= Paid(tryCount - 2)
    BY <1>1 DEF IInv, TypeOK, RoundsInv
  <2>2. from <= m_send_total_byte
    BY <1>2 DEF IInv, TypeOK
  <2>3. m_send_total_byte' <= Paid(tryCount' - 2)
    BY <1>2, <1>3, <1>4, <2>1, <2>2, PaidStep DEF IInv, TypeOK
  <2> QED
    BY <1>1, <2>1, <2>3 DEF RoundsInv, SuccessNeedsRounds, IInv, TypeOK
<1> QED
  BY <1>6, <1>7, <1>8, <1>9, <1>10 DEF IInv

LEMMA SendRetryInv == IInv /\ SendRetry => IInv'
<1> SUFFICES ASSUME IInv, SendRetry PROVE IInv'
  OBVIOUS
<1>1. /\ pc = "sendWait" /\ pc' = "send"
      /\ UNCHANGED <<flag_abort, tryCount, members, status, cursor, m_sendBuf, answer>>
  BY DEF SendRetry
<1>2. TypeOK' /\ FreshInv' /\ CursorInv' /\ CountInv' /\ StageInv' /\ LastFrameInv'
  BY <1>1 DEF IInv, TypeOK, PC, FreshInv, CursorInv, CountInv, StageInv, LastFrameInv
<1>3. RoundsInv'
  BY <1>1 DEF IInv, RoundsInv, SuccessNeedsRounds
<1> QED
  BY <1>2, <1>3 DEF IInv

LEMMA StateParseAckInv == IInv /\ StateParseAck => IInv'
<1> SUFFICES ASSUME IInv, StateParseAck PROVE IInv'
  OBVIOUS
<1>1. /\ pc = "sendWait" /\ pc' = "send"
      /\ m_upgrade_status' = AckedStatus /\ loop_state' = AckedStatus
      /\ UNCHANGED <<flag_abort, tryCount, members, cursor, m_sendBuf, answer>>
  BY DEF StateParseAck
<1>2. m_upgrade_status \in {"GOT_VERSION", "CONNECTED", "START_DATA", "MIDST_DATA", "END_DATA"}
  BY <1>1 DEF IInv, TypeOK, Status, CursorInv, StageInv
\* All bytes are out when the state moves to END_DATA.
<1>3. /\ m_upgrade_status = "GOT_VERSION" => AckedStatus = "CONNECTED"
      /\ m_upgrade_status = "CONNECTED" => AckedStatus = "START_DATA"
      /\ InData => \/ AckedStatus = "MIDST_DATA"
                   \/ AckedStatus = "END_DATA" /\ left_size = 0
      /\ m_upgrade_status = "END_DATA" => AckedStatus = "EXEC_DATA"
  BY <1>1 DEF AckedStatus, IInv, StageInv, LastFrameInv, DataCmd
<1>4. TypeOK'
  BY <1>1, <1>2, <1>3 DEF IInv, TypeOK, PC, Status
<1>5. FreshInv' /\ CursorInv' /\ CountInv'
  BY <1>1, <1>2, <1>3 DEF IInv, FreshInv, CursorInv, CountInv
<1>6. StageInv'
  BY <1>1, <1>2, <1>3 DEF IInv, CursorInv, StageInv
<1>7. LastFrameInv'
  <2>1. CASE m_upgrade_status = "CONNECTED"
    BY <1>1, <1>3, <2>1 DEF IInv, StageInv, LastFrameInv, DataCmd
  <2>2. CASE InData
    BY <1>1, <1>3, <2>2 DEF IInv, LastFrameInv
  <2> QED
    BY <1>1, <1>2, <1>3, <2>1, <2>2 DEF LastFrameInv
<1>8. RoundsInv'
  <2>1. CASE m_upgrade_status = "GOT_VERSION"
    BY <1>1, <1>3, <2>1 DEF IInv, TypeOK, RoundsInv, SuccessNeedsRounds
  <2>2. CASE m_upgrade_status = "CONNECTED"
    <3>1. m_send_total_byte = 0 /\ tryCount >= 2 /\ tryCount \in Int
      BY <1>1, <2>2 DEF IInv, TypeOK, StageInv, RoundsInv
    <3>2. Paid(tryCount - 2) >= 0
      BY <3>1, PaidStep
    <3> QED
      BY <1>1, <1>3, <2>2, <3>1, <3>2 DEF RoundsInv, SuccessNeedsRounds
  <2>3. CASE InData
    <3>1. left_size = 0 => m_send_total_byte = NRdSize
      BY <2>3 DEF IInv, TypeOK, CursorInv
    <3> QED
      BY <1>1, <1>3, <2>3, <3>1 DEF IInv, RoundsInv, SuccessNeedsRounds
  <2>4. CASE m_upgrade_status = "END_DATA"
    BY <1>1, <1>3, <2>4 DEF IInv, RoundsInv, SuccessNeedsRounds
  <2> QED
    BY <1>1, <1>2, <2>1, <2>2, <2>3, <2>4
<1> QED
  BY <1>4, <1>5, <1>6, <1>7, <1>8 DEF IInv

LEMMA StateParseNackInv == IInv /\ StateParseNack => IInv'
<1> SUFFICES ASSUME IInv, StateParseNack PROVE IInv'
  OBVIOUS
<1>1. /\ pc = "sendWait" /\ pc' = "send"
      /\ m_nack_count' = m_nack_count + 1 /\ m_repeat_send_flag' = 1
      /\ loop_state' = m_upgrade_status
      /\ UNCHANGED <<flag_abort, tryCount, m_send_complete_flag, m_send_total_byte,
                     m_nFileSize, m_upgrade_status, cursor, m_sendBuf, answer>>
  BY DEF StateParseNack
<1>2. TypeOK'
  BY <1>1 DEF IInv, TypeOK, PC, CursorInv
<1>3. FreshInv' /\ CursorInv' /\ CountInv'
  BY <1>1 DEF IInv, TypeOK, FreshInv, CursorInv, CountInv
<1>4. StageInv' /\ LastFrameInv'
  BY <1>1 DEF IInv, StageInv, LastFrameInv
<1>5. RoundsInv'
  BY <1>1 DEF IInv, RoundsInv, SuccessNeedsRounds
<1> QED
  BY <1>2, <1>3, <1>4, <1>5 DEF IInv

LEMMA StateParseRestartInv == IInv /\ StateParseRestart => IInv'
<1> SUFFICES ASSUME IInv, StateParseRestart PROVE IInv'
  OBVIOUS
<1> USE DEF StateParseRestart, StartAgain, reset_global_variable
<1>1. TypeOK'
  BY DEF IInv, TypeOK, PC, Status
<1>2. FreshInv' /\ CursorInv' /\ CountInv' /\ StageInv' /\ LastFrameInv' /\ RoundsInv'
  BY DEF FreshInv, CursorInv, CountInv, StageInv, LastFrameInv, RoundsInv, SuccessNeedsRounds
<1> QED
  BY <1>1, <1>2 DEF IInv

\* The slots and the Abort button touch nothing but the answer and flag_abort.
LEMMA EventInv == IInv /\ (Answer \/ AbortClicked) => IInv'
<1> SUFFICES ASSUME IInv, Answer \/ AbortClicked PROVE IInv'
  OBVIOUS
<1>1. UNCHANGED <<pc, tryCount, members, status, cursor, m_sendBuf>>
  BY DEF Answer, showResponse, processError, processTimeout, AbortClicked
<1>2. responseStatus' \in {-1, 0, 1}
  BY DEF Answer, showResponse, processError, processTimeout, AbortClicked, IInv, TypeOK
<1>3. timeoutStatus' \in BOOLEAN /\ flag_abort' \in BOOLEAN
  BY DEF Answer, showResponse, processError, processTimeout, AbortClicked, IInv, TypeOK
<1>4. serialBuff' \in Replies \cup {NoReply}
  BY DEF Answer, showResponse, processError, processTimeout, AbortClicked, IInv, TypeOK
<1>5. TypeOK'
  BY <1>1, <1>2, <1>3, <1>4 DEF IInv, TypeOK
<1>6. FreshInv' /\ CursorInv' /\ CountInv' /\ StageInv' /\ LastFrameInv' /\ RoundsInv'
  BY <1>1 DEF IInv, FreshInv, CursorInv, CountInv, StageInv, LastFrameInv, RoundsInv,
              SuccessNeedsRounds
<1> QED
  BY <1>5, <1>6 DEF IInv

LEMMA NextInv == IInv /\ [Next]_vars => IInv'
<1> SUFFICES ASSUME IInv, [Next]_vars PROVE IInv'
  OBVIOUS
<1>1. CASE Next
  BY <1>1, CallInv, HandshakeInv, ReturnInv, SendControlInv, SendDataInv, SendRetryInv,
     StateParseAckInv, StateParseNackInv, StateParseRestartInv, EventInv
  DEF Next, Host, Send
<1>2. CASE UNCHANGED vars
  BY <1>2 DEF vars, IInv, TypeOK, FreshInv, CursorInv, CountInv, StageInv, LastFrameInv,
              RoundsInv, SuccessNeedsRounds
<1> QED
  BY <1>1, <1>2

-------------------------------------------------------------------------------
(* Theorems. *)

\* IInv holds in every state of every behaviour.
THEOREM Invariance == Spec => []IInv
<1>1. Init => IInv
  BY InitInv
<1>2. IInv /\ [Next]_vars => IInv'
  BY NextInv
<1> QED
  BY <1>1, <1>2, PTL DEF Spec

\* Types, among them that no rewind steps back before the block.
THEOREM TypeCorrect == Spec => []TypeOK
<1>1. IInv => TypeOK
  BY DEF IInv
<1> QED
  BY <1>1, Invariance, PTL

\* The host counts every byte of the block once: sent and left add up, the read
\* cursor agrees, and the progress shown stays between 0 and 100.
THEOREM BytesConservedHolds == Spec => []BytesConserved
<1>1. IInv => BytesConserved
  <2> SUFFICES ASSUME IInv, InSend PROVE BytesConserved
    BY DEF BytesConserved
  <2>1. /\ m_send_total_byte \in 0..NRdSize /\ m_nFileSize = NRdSize
        /\ m_send_total_byte + left_size = NRdSize /\ buff_r = m_send_total_byte
    BY DEF IInv, TypeOK, CursorInv
  <2>2. ASSUME NEW n \in Nat \ {0}, NEW t \in 0..n
        PROVE  (t * 100) \div n \in 0..100
    <3>1. t * 100 \in Nat /\ t * 100 <= n * 100
      OBVIOUS
    <3> DEFINE q == (t * 100) \div n
    <3>2. q \in Int /\ n * q <= t * 100 /\ t * 100 < n * (q + 1)
      BY <3>1
    <3>3. n * q <= n * 100 /\ 0 < n * (q + 1)
      BY <3>1, <3>2
    <3> QED
      BY <3>2, <3>3
  <2>3. get_progress_pos \in 0..100
    BY <2>1, <2>2 DEF get_progress_pos
  <2> QED
    BY <2>1, <2>3 DEF BytesConserved
<1> QED
  BY <1>1, Invariance, PTL

\* The restart on too many NACKs can never be taken: a NACK costs a round.
THEOREM NackLimitUnreachableHolds == Spec => []NackLimitUnreachable
<1>1. IInv => NackLimitUnreachable
  BY DEF IInv, TypeOK, CountInv, NackLimitUnreachable
<1> QED
  BY <1>1, Invariance, PTL

\* A block of more than SendTries - 4 frames cannot succeed, whatever the board
\* answers: with the code's 50 rounds, nothing above 46 frames.
THEOREM SuccessNeedsRoundsHolds == Spec => []SuccessNeedsRounds
<1>1. IInv => SuccessNeedsRounds
  BY DEF IInv, RoundsInv
<1> QED
  BY <1>1, Invariance, PTL

\* A data frame is the refused one again after a NACK, and the next one otherwise.
THEOREM FrameOrderHolds == Spec => FrameOrder
<1> DEFINE A == (pc = "send" /\ pc' = "sendWait" /\ IsData(m_sendBuf')) =>
                  IF m_repeat_send_flag = 1
                    THEN m_sendBuf' = m_sendBuf
                    ELSE m_sendBuf'.from = IF IsData(m_sendBuf)
                                             THEN m_sendBuf.from + m_sendBuf.len ELSE 0
<1>1. IInv /\ [Next]_vars => [A]_vars
  <2> SUFFICES ASSUME IInv, Next, pc = "send", pc' = "sendWait", IsData(m_sendBuf')
               PROVE  IF m_repeat_send_flag = 1
                        THEN m_sendBuf' = m_sendBuf
                        ELSE m_sendBuf'.from = IF IsData(m_sendBuf)
                                                 THEN m_sendBuf.from + m_sendBuf.len ELSE 0
    OBVIOUS
  <2>1. SendData
    <3>1. ~(SendConnect \/ SendStartData \/ SendExec)
      BY DEF SendConnect, SendStartData, SendExec, SendControl, Transact, Control, Frame, DataCmd
    <3> QED
      BY <3>1 DEF Next, Host, Send, Handshake, Call, StartAgain, HandshakeAbort,
         HandshakeGiveUp, HandshakeSend, HandshakeRetry, HandshakeDone, SendAbort, SendGiveUp,
         Complete, SendRetry, StateParseAck, StateParseNack, StateParseRestart, Answer,
         showResponse, processError, processTimeout, AbortClicked
  <2>2. /\ m_upgrade_status \in {"START_DATA", "MIDST_DATA"}
        /\ m_sendBuf \in [cmd : FrameCmd, from : Nat, len : Nat]
    BY <2>1 DEF SendData, IInv, TypeOK, CursorInv
  <2>3. CASE m_repeat_send_flag = 1
    <3>1. /\ IsData(m_sendBuf) /\ Rewind = last_dlen
          /\ m_sendBuf.from = buff_r - Rewind /\ m_sendBuf.len = last_dlen
          /\ last_dlen \in Nat /\ left_size \in Nat
      BY <2>2, <2>3 DEF IInv, TypeOK, StageInv, LastFrameInv, Rewind
    <3>2. CASE m_sendBuf.cmd = "MIDST_DATA"
      <4>1. last_dlen = TxPkgMaxSize /\ left_size > 0
        BY <2>2, <3>1, <3>2 DEF IInv, LastFrameInv
      <4>2. m_sendBuf' = Frame("MIDST_DATA", m_sendBuf.from, m_sendBuf.len)
        BY <2>1, <3>1, <4>1 DEF SendData, Transact
      <4> QED
        BY <2>2, <2>3, <3>2, <4>2 DEF Frame
    <3>3. CASE m_sendBuf.cmd = "END_DATA"
      <4>1. last_dlen <= TxPkgMaxSize /\ left_size = 0
        BY <2>2, <3>1, <3>3 DEF IInv, LastFrameInv
      <4>2. m_sendBuf' = Frame("END_DATA", m_sendBuf.from, m_sendBuf.len)
        BY <2>1, <3>1, <4>1 DEF SendData, Transact
      <4> QED
        BY <2>2, <2>3, <3>3, <4>2 DEF Frame
    <3> QED
      BY <3>1, <3>2, <3>3 DEF DataCmd
  <2>4. CASE m_repeat_send_flag # 1
    <3>1. m_sendBuf'.from = buff_r
      BY <2>1, <2>4 DEF SendData, Transact, Frame, Rewind, IInv, TypeOK
    <3>2. buff_r = IF IsData(m_sendBuf) THEN m_sendBuf.from + m_sendBuf.len ELSE 0
      BY <2>2, <2>1 DEF SendData, Round, IInv, CursorInv, StageInv, LastFrameInv
    <3> QED
      BY <2>4, <3>1, <3>2
  <2> QED
    BY <2>3, <2>4
<1> QED
  BY <1>1, Invariance, PTL DEF Spec, FrameOrder

\* ExecAfterBlockSent: the board is told to burn only after an ACK to an END_DATA frame
\* that ends where the block ends, when every byte of the block has been handed over.
\* (Not: after the last byte was acknowledged.  The frame may be the empty one.)
THEOREM ExecAfterBlockSentHolds == Spec => ExecAfterBlockSent
<1> DEFINE A == /\ (m_upgrade_status' = "END_DATA" /\ m_upgrade_status # "END_DATA") =>
                      /\ m_sendBuf.cmd = "END_DATA"
                      /\ m_sendBuf.from + m_sendBuf.len = NRdSize
                /\ (m_sendBuf'.cmd = "EXEC_DATA" /\ m_sendBuf # m_sendBuf') =>
                      m_upgrade_status = "END_DATA"
<1>1. IInv /\ [Next]_vars => [A]_vars
  <2> SUFFICES ASSUME IInv, Next PROVE A
    OBVIOUS
  <2>1. ASSUME m_upgrade_status' = "END_DATA", m_upgrade_status # "END_DATA"
        PROVE  m_sendBuf.cmd = "END_DATA" /\ m_sendBuf.from + m_sendBuf.len = NRdSize
    <3>1. StateParseAck
      BY <2>1 DEF Next, Host, Send, Handshake, Call, StartAgain, reset_global_variable,
         HandshakeAbort, HandshakeGiveUp, HandshakeSend, HandshakeRetry, HandshakeDone,
         SendAbort, SendGiveUp, SendConnect, SendStartData, SendExec, SendControl, SendData,
         Complete, SendRetry, StateParseNack, StateParseRestart, Answer, showResponse,
         processError, processTimeout, AbortClicked
    <3>2. InData /\ m_send_complete_flag = 1 /\ IsData(m_sendBuf)
      BY <2>1, <3>1 DEF StateParseAck, AckedStatus, IInv, StageInv
    <3>3. left_size = 0 /\ m_sendBuf.cmd = "END_DATA"
      BY <3>2 DEF IInv, LastFrameInv, DataCmd
    <3> QED
      BY <3>2, <3>3 DEF IInv, TypeOK, CursorInv, LastFrameInv
  <2>2. ASSUME m_sendBuf'.cmd = "EXEC_DATA", m_sendBuf # m_sendBuf'
        PROVE  m_upgrade_status = "END_DATA"
    <3>1. ~SendData /\ ~SendConnect /\ ~SendStartData /\ ~HandshakeSend /\ ~Complete
      BY <2>2 DEF SendData, SendConnect, SendStartData, SendControl, HandshakeSend,
         Transact, Complete, Control, Frame
    <3>2. SendExec
      BY <2>2, <3>1 DEF Next, Host, Send, Handshake, Call, HandshakeAbort, HandshakeGiveUp,
         HandshakeRetry, HandshakeDone, SendAbort, SendGiveUp, SendRetry,
         StateParseAck, StateParseNack, StateParseRestart, Answer, showResponse,
         processError, processTimeout, AbortClicked
    <3> QED
      BY <3>2 DEF SendExec, SendControl, Round, IInv, CursorInv
  <2> QED
    BY <2>1, <2>2
<1> QED
  BY <1>1, Invariance, PTL DEF Spec, ExecAfterBlockSent

===============================================================================
