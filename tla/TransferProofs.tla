---------------------------- MODULE TransferProofs ----------------------------
(***************************************************************************)
(* Proofs about Transfer, for every size of block and frame, every bound   *)
(* and every line, one that damages, loses and delays included: what the   *)
(* board keeps, and that a call keeps the promise of BlockTransfer.        *)
(***************************************************************************)
EXTENDS Transfer, UpgradeProcessProofs, SequenceTheorems

-------------------------------------------------------------------------------
(* The invariant. *)

Fits(frame) == IsData(frame) => frame.from + frame.len <= NRdSize

\* What the host does, whatever comes: the frame sent after the data is EXEC_DATA, and
\* it repeats a frame, or succeeds, by an answer.
HostInv ==
    /\ Fits(m_sendBuf)
    /\ (pc = "sendWait" /\ m_upgrade_status = "END_DATA") => m_sendBuf.cmd = "EXEC_DATA"
    /\ ((InSend /\ m_upgrade_status = "EXEC_DATA") \/ pc = "success") => responseStatus = 1
    /\ (pc = "send" /\ m_repeat_send_flag = 1) => responseStatus = 1

FrameSet == [cmd : FrameCmd, from : Nat, len : Nat]

TypeInv ==
    /\ wire \in Seq(FrameSet) /\ \A i \in 1..Len(wire) : Fits(wire[i])
    /\ answers \in Seq(Sent)
    /\ stored \in Seq(0..NRdSize - 1) /\ burned \in Seq(0..NRdSize - 1)
    /\ missed \in BOOLEAN /\ stale \in BOOLEAN

IdleInv == pc = "idle" => wire = <<>>

\* Without late answers the line is empty unless the host waits.
PunctualInv ==
    "late" \notin Faults => ~stale /\ (wire # <<>> \/ answers # <<>> => Waiting)

\* The one frame or answer on its way is the last frame sent or its answer.
SyncInv ==
    /\ wire # <<>> => wire = <<m_sendBuf>> /\ answers = <<>>
    /\ answers # <<>> => Len(answers) = 1
    /\ wire # <<>> \/ answers # <<>> => responseStatus # 1

\* An answer to the frame in m_sendBuf is on its way or has been read.
Around(cmd) ==
    /\ pc = "sendWait"
    /\ \/ answers # <<>> /\ answers[1].cmd = cmd
       \/ responseStatus = 1 /\ serialBuff.cmd = cmd

Ascends(bytes) == \A i, j \in 1..Len(bytes) : i < j => bytes[i] < bytes[j]
Kept(bytes)    == bytes \in Seq(0..NRdSize - 1) /\ Ascends(bytes)

\* The board keeps bytes before k, all of them if no frame was given up.
Below(bytes, k) == \A i \in 1..Len(bytes) : bytes[i] < k
Upto(k) == Below(stored, k) /\ (~missed => stored = Bytes(0, k))

\* The board has kept the frame in m_sendBuf: it answered so.
Acked == Around("ACK") \/ (pc = "send" /\ m_repeat_send_flag = 0)

\* It has not: the frame is on its way, or was refused.
Nacked == wire # <<>> \/ Around("NACK") \/ (pc = "send" /\ m_repeat_send_flag = 1)

KeptInv ==
    InData => /\ Acked  => Upto(buff_r)
              /\ Nacked => Upto(m_sendBuf.from)
              /\ Below(stored, buff_r)

\* The frame on its way, also one whose wait or whose call is over.
FlightInv ==
    wire # <<>> =>
        /\ IsData(m_sendBuf) => Below(stored, m_sendBuf.from)
        /\ m_sendBuf.cmd = "EXEC_DATA" =>
              burned = <<>> \/ (~missed => stored = Block)
        /\ InData => IsData(m_sendBuf)
        /\ (InSend /\ m_upgrade_status = "END_DATA") => m_sendBuf.cmd = "EXEC_DATA"

\* Before the data the board forgets what it had.
StartInv == (m_sendBuf.cmd = "START_DATA" /\ Around("ACK")) => stored = <<>>

\* After the data it burns what it has.
DoneInv ==
    /\ (InSend /\ m_upgrade_status = "END_DATA") =>
          /\ ~missed => stored = Block
          /\ Around("ACK") => burned = stored
    /\ ((InSend /\ m_upgrade_status = "EXEC_DATA") \/ pc = "success") =>
          (~missed => burned = Block)

BoardInv == Ascends(stored) /\ KeptInv /\ FlightInv /\ StartInv /\ DoneInv

TInv == /\ IInv /\ HostInv /\ TypeInv /\ IdleInv /\ PunctualInv
        /\ ~stale => SyncInv /\ BoardInv

-------------------------------------------------------------------------------
(* Sequences of bytes. *)

Place == 0..NRdSize - 1

LEMMA BytesHold ==
    ASSUME NEW k \in Nat, NEW n \in Nat, k + n <= NRdSize
    PROVE  /\ Bytes(k, n) \in Seq(Place)
           /\ Len(Bytes(k, n)) = n
           /\ \A i \in 1..n : Bytes(k, n)[i] = k + i - 1
<1>1. NRdSize \in Nat
  BY SizesAssumption
<1>2. \A i \in 1..n : k + i - 1 \in Place
  BY <1>1 DEF Place
<1>3. \A i \in 1..n : Bytes(k, n)[i] = k + i - 1
  BY DEF Bytes
<1>4. Bytes(k, n) \in Seq(Place) /\ Len(Bytes(k, n)) = n
  BY <1>2 DEF Bytes
<1> QED
  BY <1>3, <1>4

LEMMA BlockHolds == Block \in Seq(Place) /\ Block # <<>>
<1>1. NRdSize \in Nat /\ NRdSize # 0 /\ 0 \in Nat /\ 0 + NRdSize <= NRdSize
  BY SizesAssumption
<1>2. Block \in Seq(Place) /\ Len(Block) = NRdSize
  BY <1>1, BytesHold DEF Block
<1> QED
  BY <1>1, <1>2

\* A frame's bytes behind what lies before it.
LEMMA AppendBytes ==
    ASSUME NEW bytes, Kept(bytes), NEW k \in Nat, NEW n \in Nat,
           Below(bytes, k), k + n <= NRdSize
    PROVE  /\ Kept(bytes \o Bytes(k, n))
           /\ Below(bytes \o Bytes(k, n), k + n)
           /\ bytes = Bytes(0, k) => bytes \o Bytes(k, n) = Bytes(0, k + n)
<1>1. PICK new : new = Bytes(k, n)
  OBVIOUS
<1>2. PICK both : both = bytes \o new
  OBVIOUS
<1>3. PICK m : m = Len(bytes)
  OBVIOUS
<1>4. /\ NRdSize \in Nat /\ bytes \in Seq(Place) /\ m \in Nat
      /\ \A i \in 1..m : bytes[i] \in Place /\ bytes[i] < k
      /\ \A i, j \in 1..m : i < j => bytes[i] < bytes[j]
  BY <1>3, SizesAssumption DEF Kept, Ascends, Below, Place
<1>5. /\ new \in Seq(Place) /\ Len(new) = n
      /\ \A i \in 1..n : new[i] = k + i - 1
  BY <1>1, BytesHold
<1>6. /\ both \in Seq(Place) /\ Len(both) = m + n
      /\ \A i \in 1..m + n : both[i] = IF i <= m THEN bytes[i] ELSE new[i - m]
  BY <1>2, <1>3, <1>4, <1>5, ConcatProperties
<1>7. \A i \in 1..m + n : IF i <= m THEN both[i] = bytes[i] ELSE both[i] = k + (i - m) - 1
  BY <1>4, <1>5, <1>6
<1>8. \A i \in 1..m + n : both[i] < k + n
  BY <1>4, <1>7 DEF Place
<1>9. \A i, j \in 1..m + n : i < j => both[i] < both[j]
  BY <1>4, <1>7 DEF Place
<1>10. ASSUME bytes = Bytes(0, k) PROVE both = Bytes(0, k + n)
  <2>1. 0 \in Nat /\ k + n \in Nat /\ 0 + k <= NRdSize /\ 0 + (k + n) <= NRdSize
    BY <1>4
  <2>2. m = k /\ \A i \in 1..m : bytes[i] = i - 1
    <3>1. /\ Bytes(0, k) \in Seq(Place) /\ Len(Bytes(0, k)) = k
          /\ \A i \in 1..k : Bytes(0, k)[i] = 0 + i - 1
      BY <2>1, BytesHold
    <3> QED
      BY <1>3, <1>10, <3>1
  <2>3. \A i \in 1..k + n : both[i] = i - 1
    BY <1>4, <1>7, <2>2
  <2>4. /\ Bytes(0, k + n) \in Seq(Place) /\ Len(Bytes(0, k + n)) = k + n
        /\ \A i \in 1..k + n : Bytes(0, k + n)[i] = 0 + i - 1
    BY <2>1, BytesHold
  <2> QED
    BY <1>6, <2>2, <2>3, <2>4, SeqEqual
<1> QED
  BY <1>1, <1>2, <1>6, <1>8, <1>9, <1>10 DEF Kept, Ascends, Below, Place

-------------------------------------------------------------------------------
(* What the steps of the host do to the line. *)

\* While it waits the host's loops stand still.
LEMMA HostNotWaiting ==
    ASSUME IInv, Call \/ Host
    PROVE  ~Waiting
<1>1. CASE Call
  BY <1>1 DEF Call, Returned, Waiting
<1>2. CASE Handshake
  <2>1. CASE pc = "handshake"
    BY <2>1 DEF Waiting
  <2>2. CASE HandshakeRetry
    <3>1. -1 # 0 /\ -1 # 1
      OBVIOUS
    <3> QED
      BY <2>2, <3>1, Zenon DEF HandshakeRetry, Waiting
  <2>3. CASE HandshakeDone
    BY <2>3 DEF HandshakeDone, Waiting
  <2> QED
    BY <1>2, <2>1, <2>2, <2>3 DEF Handshake, HandshakeAbort, HandshakeGiveUp, HandshakeSend
<1>3. CASE Send
  BY <1>3 DEF Send, SendAbort, SendGiveUp, SendConnect, SendStartData, SendExec, SendControl,
              SendData, Round, Complete, SendRetry, StateParseAck, StateParseNack,
              StateParseRestart, Parsed, Waiting
<1> QED
  BY <1>1, <1>2, <1>3 DEF Host

\* What it sends it waits for; otherwise the frame it sent last stays, unless the block
\* is complete.
LEMMA SendsWaits ==
    ASSUME Call \/ Host
    PROVE  /\ Sends => Waiting'
           /\ ~Sends => responseStatus' = responseStatus
           /\ ~Sends => Complete \/ m_sendBuf' = m_sendBuf
<1>1. CASE Call
  BY <1>1 DEF Sends, Call, StartAgain, answer
<1>2. CASE Handshake
  BY <1>2 DEF Sends, Handshake, HandshakeAbort, HandshakeGiveUp, HandshakeSend,
              HandshakeRetry, HandshakeDone, ArmAnswer, Waiting, answer
<1>3. CASE Send
  BY <1>3 DEF Sends, Send, SendAbort, SendGiveUp, SendConnect, SendStartData, SendExec,
              SendControl, SendData, Round, Complete, SendRetry, StateParseAck, StateParseNack,
              StateParseRestart, StartAgain, Transact, ArmAnswer, Waiting, answer
<1> QED
  BY <1>1, <1>2, <1>3 DEF Host

\* The Abort button touches only flag_abort.
LEMMA AbortEffects ==
    ASSUME TypeInv, HostStep, AbortClicked
    PROVE  /\ UNCHANGED <<line, board, missed, stale>>
           /\ UNCHANGED <<pc, members, status, cursor, m_sendBuf, answer>>
<1>1. UNCHANGED <<pc, members, status, cursor, m_sendBuf, answer>>
  BY DEF AbortClicked
<1>2. pc # "handshake" /\ ~Sends /\ ~GivesUp
  BY <1>1 DEF AbortClicked, Returned, Sends, GivesUp, SendRetry
<1>3. /\ IF Sends THEN Transmit ELSE UNCHANGED <<line, stale>>
      /\ stored' = stored
      /\ burned' = IF pc \in Returned /\ pc' \notin Returned THEN <<>> ELSE burned
      /\ missed' = IF pc' = "handshake" /\ pc # "handshakeWait" THEN FALSE
                   ELSE missed \/ GivesUp
  BY Zenon DEF HostStep
<1>4. UNCHANGED <<line, stale>> /\ stored' = stored /\ burned' = burned
  BY <1>1, <1>2, <1>3
<1>5. missed' = missed
  <2>1. missed \in BOOLEAN
    BY DEF TypeInv
  <2>2. missed' = (missed \/ GivesUp)
    BY <1>1, <1>2, <1>3, Zenon
  <2> QED
    BY <1>2, <2>1, <2>2, Zenon
<1> QED
  BY <1>1, <1>4, <1>5 DEF board

\* Every step is one of UpgradeProcess, or none of its variables change.
LEMMA StepIsNext ==
    ASSUME answers \in Seq(Sent), TransferNext
    PROVE  [Next]_vars
<1>1. ASSUME HostStep PROVE Next
  BY <1>1 DEF HostStep, Next
<1>2. ASSUME Receive PROVE Next
  <2>1. Head(answers) \in Sent
    BY <1>2, HeadTailProperties DEF Receive
  <2>2. Head(answers) \in Replies
    BY <2>1, SentAssumption
  <2> QED
    BY <1>2, <2>2, Zenon DEF Receive, Next, Answer
<1>3. ASSUME NoAnswer PROVE Next
  BY <1>3, Zenon DEF NoAnswer, Next, Answer
<1>4. ASSUME Line PROVE UNCHANGED vars
  BY <1>4, Zenon DEF Line, BoardHandles, BoardRefuses, LoseFrame, LoseAnswer
<1> QED
  BY <1>1, <1>2, <1>3, <1>4, Zenon DEF TransferNext

\* A data frame ends inside the block.
LEMMA SendDataFits ==
    ASSUME IInv, SendData
    PROVE  Fits(m_sendBuf)'
<1> DEFINE from == buff_r - Rewind
           left == left_size + Rewind
           size == IF left >= TxPkgMaxSize THEN TxPkgMaxSize ELSE left
<1>1. m_sendBuf'.from = from /\ m_sendBuf'.len = size /\ pc = "send"
  BY DEF SendData, Transact, Frame, Round
<1>2. /\ buff_r \in Nat /\ left_size \in Nat /\ last_dlen \in Nat /\ buff_r + left_size = NRdSize
      /\ TxPkgMaxSize \in Nat /\ NRdSize \in Nat
  BY <1>1, SizesAssumption DEF IInv, TypeOK, CursorInv, InSend
<1>3. Rewind \in Nat
  BY <1>2 DEF Rewind
<1>4. from + size <= NRdSize
  BY <1>2, <1>3
<1> QED
  BY <1>1, <1>4 DEF Fits

LEMMA HostInvNext ==
    ASSUME IInv, HostInv, Next
    PROVE  HostInv'
<1>1. CASE Call
  BY <1>1 DEF HostInv, InSend, Call, StartAgain
<1>2. CASE Handshake
  <2>1. CASE HandshakeSend
    <3>1. Fits(m_sendBuf)' /\ pc' = "handshakeWait"
      BY <2>1 DEF HandshakeSend, Control, Frame, Fits, IsData, DataCmd
    <3> QED
      BY <3>1 DEF HostInv, InSend
  <2>2. CASE HandshakeDone
    BY <2>2 DEF HostInv, InSend, HandshakeDone, IInv, FreshInv, InHandshake
  <2>3. CASE HandshakeAbort \/ HandshakeGiveUp \/ HandshakeRetry
    BY <2>3 DEF HostInv, InSend, HandshakeAbort, HandshakeGiveUp, HandshakeRetry
  <2> QED
    BY <1>2, <2>1, <2>2, <2>3 DEF Handshake
<1>3. CASE SendAbort \/ SendGiveUp \/ StateParseRestart
  BY <1>3 DEF HostInv, InSend, SendAbort, SendGiveUp, StateParseRestart, StartAgain
<1>4. CASE SendConnect \/ SendStartData \/ SendExec
  <2>1. loop_state = m_upgrade_status
    BY <1>4 DEF SendConnect, SendStartData, SendExec, SendControl, Round, IInv, CursorInv, InSend
  <2> QED
    BY <1>4, <2>1 DEF HostInv, InSend, Fits, IsData, DataCmd, SendConnect, SendStartData,
                      SendExec, SendControl, Transact, Control, Frame, status
<1>5. CASE SendData
  <2>1. loop_state = m_upgrade_status
    BY <1>5 DEF SendData, Round, IInv, CursorInv, InSend
  <2>2. /\ pc' = "sendWait" /\ m_upgrade_status' = m_upgrade_status
        /\ loop_state \in {"START_DATA", "MIDST_DATA"}
    BY <1>5 DEF SendData, Transact, status
  <2> QED
    BY <1>5, <2>1, <2>2, SendDataFits DEF HostInv, InSend
<1>6. CASE Complete
  <2>1. m_upgrade_status = "EXEC_DATA"
    BY <1>6 DEF Complete, Round, IInv, CursorInv, InSend
  <2> QED
    BY <1>6, <2>1 DEF HostInv, InSend, Complete, Round, answer, Fits, IsData, DataCmd,
                      Control, Frame
<1>7. CASE SendRetry
  BY <1>7 DEF HostInv, InSend, SendRetry, status, members, IInv, StageInv, CursorInv
<1>8. CASE StateParseAck \/ StateParseNack
  <2>1. pc = "sendWait" /\ pc' = "send" /\ responseStatus' = 1 /\ m_sendBuf' = m_sendBuf
    BY <1>8 DEF StateParseAck, StateParseNack, Parsed, answer
  <2> QED
    BY <2>1 DEF HostInv, InSend
<1>9. CASE Answer
  BY <1>9 DEF HostInv, InSend, Answer, showResponse, processError, processTimeout, Waiting,
              status, members, IInv, StageInv
<1>10. CASE AbortClicked
  BY <1>10 DEF HostInv, InSend, AbortClicked, status, answer, members
<1> QED
  BY <1>1, <1>2, <1>3, <1>4, <1>5, <1>6, <1>7, <1>8, <1>9, <1>10 DEF Next, Host, Send

-------------------------------------------------------------------------------
(* What the steps do to the line. *)

LEMMA TransmitEffects ==
    ASSUME TypeInv, Transmit, m_sendBuf' \in FrameSet, Fits(m_sendBuf)'
    PROVE  /\ wire' \in Seq(FrameSet) /\ \A i \in 1..Len(wire') : Fits(wire'[i])
           /\ answers' \in Seq(Sent)
           /\ stale' \in BOOLEAN
           /\ ~stale' => ~stale /\ wire = <<>> /\ wire' = <<m_sendBuf'>> /\ answers' = <<>>
           /\ ("late" \notin Faults /\ ~stale /\ wire = <<>>) => ~stale'
<1>1. PICK arrived \in 0..Len(answers) :
        /\ arrived < Len(answers) => "late" \in Faults
        /\ serial_clear(arrived)
        /\ stale' = (stale \/ wire # <<>> \/ arrived < Len(answers))
  BY Zenon DEF Transmit
<1>2. wire \in Seq(FrameSet) /\ (\A i \in 1..Len(wire) : Fits(wire[i])) /\ answers \in Seq(Sent)
  BY DEF TypeInv
<1>3. wire' = Append(wire, m_sendBuf')
  BY DEF Transmit
<1>4. wire' \in Seq(FrameSet)
  BY <1>2, <1>3
<1>5. ASSUME NEW i \in 1..Len(wire') PROVE Fits(wire'[i])
  <2>1. i \in 1..Len(wire) \/ wire'[i] = m_sendBuf'
    BY <1>2, <1>3
  <2>2. i \in 1..Len(wire) => wire'[i] = wire[i]
    BY <1>2, <1>3
  <2> QED
    BY <1>2, <2>1, <2>2 DEF Fits
<1>6. Len(answers) \in Nat /\ arrived \in Nat /\ arrived <= Len(answers)
  BY <1>1, <1>2
<1>7. answers' \in Seq(Sent)
  BY <1>1, <1>2, <1>6 DEF serial_clear
<1>8. stale \in BOOLEAN
  BY DEF TypeInv
<1>9. stale' \in BOOLEAN
  BY <1>1, Zenon
<1>10. ASSUME ~stale'
       PROVE  ~stale /\ wire = <<>> /\ wire' = <<m_sendBuf'>> /\ answers' = <<>>
  <2>1. ~stale /\ wire = <<>> /\ ~(arrived < Len(answers))
    BY <1>1, <1>10, Zenon
  <2>2. arrived = Len(answers)
    BY <1>6, <2>1
  <2>3. answers' = <<>>
    BY <1>1, <1>2, <2>2 DEF serial_clear
  <2>4. wire' = <<m_sendBuf'>>
    BY <1>3, <2>1
  <2> QED
    BY <2>1, <2>3, <2>4
<1>11. ("late" \notin Faults /\ ~stale /\ wire = <<>>) => ~stale'
  BY <1>1, Zenon
<1> QED
  BY <1>4, <1>5, <1>7, <1>9, <1>10, <1>11

LEMMA HostEffects ==
    ASSUME TInv, HostStep, Call \/ Host
    PROVE  /\ stored' = stored
           /\ burned' = IF pc \in Returned /\ pc' \notin Returned THEN <<>> ELSE burned
           /\ missed' \in BOOLEAN
           /\ (pc' # "handshake" /\ ~missed') => ~missed
<1>1. /\ stored' = stored
      /\ burned' = IF pc \in Returned /\ pc' \notin Returned THEN <<>> ELSE burned
      /\ missed' = IF pc' = "handshake" /\ pc # "handshakeWait" THEN FALSE
                   ELSE missed \/ GivesUp
  BY Zenon DEF HostStep
<1>2. missed' \in BOOLEAN
  <2>1. CASE pc' = "handshake" /\ pc # "handshakeWait"
    BY <1>1, <2>1, Zenon
  <2>2. CASE ~(pc' = "handshake" /\ pc # "handshakeWait")
    BY <1>1, <2>2, Zenon
  <2> QED
    BY <2>1, <2>2, Zenon
<1>3. (pc' # "handshake" /\ ~missed') => ~missed
  BY <1>1, Zenon
<1> QED
  BY <1>1, <1>2, <1>3, Zenon

\* Without an excuse the host sends over an empty line.
LEMMA HostLine ==
    ASSUME TInv, HostStep, Call \/ Host
    PROVE  /\ wire' \in Seq(FrameSet) /\ \A i \in 1..Len(wire') : Fits(wire'[i])
           /\ answers' \in Seq(Sent) /\ stale' \in BOOLEAN
           /\ ~stale' => /\ ~stale
                         /\ Sends => wire = <<>> /\ wire' = <<m_sendBuf'>> /\ answers' = <<>>
           /\ ~Sends => UNCHANGED <<wire, answers, stale>>
           /\ ("late" \notin Faults /\ ~stale /\ wire = <<>>) => ~stale'
<1>1. TypeInv
  BY DEF TInv
<1>2. m_sendBuf' \in FrameSet /\ Fits(m_sendBuf)'
  <2>1. Next
    BY DEF Next
  <2>2. IInv' /\ HostInv'
    BY <2>1, NextInv, HostInvNext DEF TInv
  <2> QED
    BY <2>2 DEF IInv, TypeOK, FrameSet, HostInv
<1>3. IF Sends THEN Transmit ELSE UNCHANGED <<line, stale>>
  BY Zenon DEF HostStep
<1>4. CASE Sends
  BY <1>1, <1>2, <1>3, <1>4, TransmitEffects
<1>5. CASE ~Sends
  <2>1. UNCHANGED <<wire, answers, stale>>
    BY <1>3, <1>5 DEF line
  <2> QED
    BY <1>1, <1>5, <2>1 DEF TypeInv
<1> QED
  BY <1>4, <1>5

\* What a wait, the board and the history have in common with the host's state.
Rest == <<pc, members, status, cursor, m_sendBuf>>

LEMMA ReceiveEffects ==
    ASSUME TInv, Receive
    PROVE  /\ wire' = wire /\ answers # <<>> /\ answers' \in Seq(Sent)
           /\ ~stale => wire = <<>> /\ answers' = <<>>
           /\ responseStatus' \in {0, 1}
           /\ responseStatus' = 1 => serialBuff' = answers[1]
           /\ UNCHANGED <<board, missed, stale, Rest>>
<1>1. answers # <<>> /\ answers \in Seq(Sent) /\ (~stale => wire = <<>> /\ Len(answers) = 1)
  BY DEF TInv, TypeInv, SyncInv, Receive
<1>2. answers' \in {<<>>, Tail(answers)}
  BY DEF Receive
<1>3. answers' \in Seq(Sent)
  <2>1. Tail(answers) \in Seq(Sent)
    BY <1>1, HeadTailProperties
  <2>2. <<>> \in Seq(Sent)
    OBVIOUS
  <2> QED
    BY <1>2, <2>1, <2>2
<1>4. Len(answers) = 1 => answers' = <<>>
  BY <1>1, <1>2
<1>5. Head(answers) = answers[1]
  BY <1>1
<1>6. showResponse(answers[1])
  BY <1>5 DEF Receive
<1>7. responseStatus' \in {0, 1} /\ (responseStatus' = 1 => serialBuff' = answers[1])
  BY <1>6 DEF showResponse
<1>8. UNCHANGED <<board, missed, stale, Rest>> /\ wire' = wire
  BY <1>6 DEF showResponse, Receive, Rest
<1> QED
  BY <1>1, <1>3, <1>4, <1>7, <1>8

LEMMA NoAnswerEffects ==
    ASSUME NoAnswer
    PROVE  /\ responseStatus' = 0
           /\ UNCHANGED <<line, board, missed, stale, Rest>>
           /\ "late" \in Faults \/ (wire = <<>> /\ answers = <<>>)
<1>1. UNCHANGED <<line, board, missed, stale>>
  BY DEF NoAnswer
<1>2. processTimeout \/ processError
  BY DEF NoAnswer
<1>3. responseStatus' = 0 /\ UNCHANGED Rest
  BY <1>2 DEF processTimeout, processError, Rest
<1> QED
  BY <1>1, <1>3 DEF NoAnswer

\* The front of the line, and what is left of it.
LEMMA FrontOfLine ==
    ASSUME TypeInv, wire # <<>>
    PROVE  /\ Head(wire) \in FrameSet /\ Fits(Head(wire))
           /\ Tail(wire) \in Seq(FrameSet)
           /\ \A i \in 1..Len(Tail(wire)) : Fits(Tail(wire)[i])
           /\ wire = <<m_sendBuf>> => Head(wire) = m_sendBuf /\ Tail(wire) = <<>>
<1>1. wire \in Seq(FrameSet) /\ \A i \in 1..Len(wire) : Fits(wire[i])
  BY DEF TypeInv
<1>2. Head(wire) = wire[1] /\ Head(wire) \in FrameSet /\ Len(wire) \in Nat /\ Len(wire) >= 1
  BY <1>1
<1>3. /\ Tail(wire) \in Seq(FrameSet) /\ Len(Tail(wire)) = Len(wire) - 1
      /\ \A i \in 1..Len(wire) - 1 : Tail(wire)[i] = wire[i + 1]
  BY <1>1
<1>4. \A i \in 1..Len(Tail(wire)) : Fits(Tail(wire)[i])
  <2>1. \A i \in 1..Len(wire) - 1 : i + 1 \in 1..Len(wire)
    BY <1>2
  <2> QED
    BY <1>1, <1>3, <2>1
<1>5. wire = <<m_sendBuf>> => Head(wire) = m_sendBuf /\ Tail(wire) = <<>>
  OBVIOUS
<1>6. Fits(Head(wire))
  BY <1>1, <1>2
<1> QED
  BY <1>2, <1>3, <1>4, <1>5, <1>6

\* The frame at the front is answered.
LEMMA ReplyEffects ==
    ASSUME TInv, wire # <<>>, NEW reply \in Sent, Answers(reply), UNCHANGED vars
    PROVE  /\ answers' \in Seq(Sent) /\ answers' # <<>>
           /\ ~stale => /\ wire = <<m_sendBuf>> /\ answers = <<>> /\ responseStatus # 1
           /\ answers = <<>> => Len(answers') = 1 /\ answers'[1] = reply
           /\ UNCHANGED <<Rest, responseStatus, serialBuff>>
           /\ Waiting' <=> Waiting
<1>1. answers \in Seq(Sent)
  BY DEF TInv, TypeInv
<1>2. ~stale => wire = <<m_sendBuf>> /\ answers = <<>> /\ responseStatus # 1
  BY DEF TInv, SyncInv
<1>3. answers' \in Seq(Sent) /\ answers' # <<>>
  BY <1>1 DEF Answers
<1>4. answers = <<>> => Len(answers') = 1 /\ answers'[1] = reply
  BY DEF Answers
<1>5. UNCHANGED Rest
  BY DEF vars, Rest
<1>6. UNCHANGED <<pc, responseStatus, serialBuff>> /\ timeoutStatus' = timeoutStatus
  BY DEF vars, answer
<1>7. Waiting' <=> Waiting
  BY <1>6, Zenon DEF Waiting
<1> QED
  BY <1>2, <1>3, <1>4, <1>5, <1>6, <1>7

LEMMA HandlesReply ==
    ASSUME BoardHandles
    PROVE  \E reply \in Sent :
             /\ Answers(reply)
             /\ reply.cmd = IF Head(wire).cmd = "HANDSHAKE" THEN "VERSION" ELSE "ACK"
<1> DEFINE reply == IF Head(wire).cmd = "HANDSHAKE" THEN Good(VERSION_LEN, "VERSION")
                                                    ELSE Good(FRAME_LEN, "ACK")
<1>1. reply \in Sent /\ Answers(reply)
  BY DEF BoardHandles, Sent
<1>2. reply.cmd = IF Head(wire).cmd = "HANDSHAKE" THEN "VERSION" ELSE "ACK"
  BY DEF Good
<1> QED
  BY <1>1, <1>2

LEMMA RefusesReply ==
    ASSUME BoardRefuses
    PROVE  \E reply \in Sent : Answers(reply) /\ reply.cmd = "NACK"
  BY RefusalsAssumption DEF BoardRefuses, Sent

\* What the board does with a frame.
LEMMA HandlesEffects ==
    ASSUME BoardHandles
    PROVE  /\ stored' = CASE Head(wire).cmd = "START_DATA" -> <<>>
                          [] IsData(Head(wire)) ->
                               stored \o Bytes(Head(wire).from, Head(wire).len)
                          [] OTHER -> stored
           /\ burned' = IF Head(wire).cmd = "EXEC_DATA" THEN stored ELSE burned
           /\ stale' = IF Head(wire).cmd = "START_DATA" /\ InSync THEN FALSE ELSE stale
           /\ wire # <<>> /\ wire' = Tail(wire) /\ missed' = missed /\ UNCHANGED vars
  BY DEF BoardHandles

-------------------------------------------------------------------------------
(* Types, the line without late answers, and the line without an excuse. *)

LEMMA TypeStep ==
    ASSUME TInv, TransferNext
    PROVE  TypeInv'
<1>1. TypeInv /\ <<>> \in Seq(0..NRdSize - 1)
  BY DEF TInv
<1>2. ASSUME HostStep, Call \/ Host PROVE TypeInv'
  <2>1. /\ wire' \in Seq(FrameSet) /\ \A i \in 1..Len(wire') : Fits(wire'[i])
        /\ answers' \in Seq(Sent) /\ stale' \in BOOLEAN
    BY <1>2, HostLine
  <2>2. stored' = stored /\ burned' \in {<<>>, burned} /\ missed' \in BOOLEAN
    BY <1>2, HostEffects
  <2> QED
    BY <1>1, <2>1, <2>2 DEF TypeInv, Fits
<1>3. ASSUME HostStep, AbortClicked PROVE TypeInv'
  <2>1. UNCHANGED <<line, board, missed, stale>>
    BY <1>1, <1>3, AbortEffects
  <2> QED
    BY <1>1, <2>1 DEF TypeInv, line, board, Fits
<1>4. ASSUME Receive PROVE TypeInv'
  BY <1>1, <1>4, ReceiveEffects DEF TypeInv, board, Fits
<1>5. ASSUME NoAnswer PROVE TypeInv'
  BY <1>1, <1>5, NoAnswerEffects DEF TypeInv, line, board, Fits
<1>6. ASSUME BoardHandles PROVE TypeInv'
  <2>1. PICK frame : frame = Head(wire)
    OBVIOUS
  <2>2. /\ stored' = CASE frame.cmd = "START_DATA" -> <<>>
                       [] IsData(frame) -> stored \o Bytes(frame.from, frame.len)
                       [] OTHER -> stored
        /\ burned' = IF frame.cmd = "EXEC_DATA" THEN stored ELSE burned
        /\ stale' = IF frame.cmd = "START_DATA" /\ InSync THEN FALSE ELSE stale
        /\ wire # <<>> /\ wire' = Tail(wire) /\ missed' = missed /\ UNCHANGED vars
    BY <1>6, <2>1, HandlesEffects
  <2>3. /\ frame \in FrameSet /\ Fits(frame) /\ wire' \in Seq(FrameSet)
        /\ \A i \in 1..Len(wire') : Fits(wire'[i])
    BY <1>1, <2>1, <2>2, FrontOfLine
  <2>4. answers' \in Seq(Sent)
    <3>1. PICK reply \in Sent : Answers(reply)
      BY <1>6, HandlesReply
    <3> QED
      BY <2>2, <3>1, ReplyEffects
  <2>5. stored' \in Seq(0..NRdSize - 1)
    <3>1. stored \in Seq(0..NRdSize - 1)
      BY <1>1 DEF TypeInv
    <3>2. CASE IsData(frame) /\ frame.cmd # "START_DATA"
      <4>1. frame.from \in Nat /\ frame.len \in Nat /\ frame.from + frame.len <= NRdSize
        BY <2>3, <3>2 DEF FrameSet, Fits
      <4>2. PICK new : new = Bytes(frame.from, frame.len)
        OBVIOUS
      <4>3. new \in Seq(0..NRdSize - 1)
        BY <4>1, <4>2, BytesHold DEF Place
      <4>4. stored' = stored \o new
        BY <2>2, <3>2, <4>2
      <4> QED
        BY <3>1, <4>3, <4>4
    <3>3. CASE ~(IsData(frame) /\ frame.cmd # "START_DATA")
      <4>1. CASE frame.cmd = "START_DATA"
        BY <1>1, <2>2, <4>1 DEF IsData, DataCmd
      <4>2. CASE frame.cmd # "START_DATA"
        <5>1. stored' = stored
          BY <2>2, <3>3, <4>2
        <5> QED
          BY <3>1, <5>1
      <4> QED
        BY <4>1, <4>2
    <3> QED
      BY <3>2, <3>3
  <2>6. burned' \in Seq(0..NRdSize - 1)
    BY <1>1, <2>2 DEF TypeInv
  <2>7. stale' \in BOOLEAN /\ missed' \in BOOLEAN
    <3>1. stale \in BOOLEAN /\ missed \in BOOLEAN
      BY <1>1 DEF TypeInv
    <3> QED
      BY <2>2, <3>1, Zenon
  <2> QED
    BY <2>3, <2>4, <2>5, <2>6, <2>7 DEF TypeInv, Fits
<1>7. ASSUME BoardRefuses PROVE TypeInv'
  <2>1. wire # <<>> /\ wire' = Tail(wire) /\ UNCHANGED <<vars, board, missed, stale>>
    BY <1>7 DEF BoardRefuses
  <2>2. PICK reply \in Sent : Answers(reply)
    BY <1>7, RefusesReply
  <2>3. answers' \in Seq(Sent)
    BY <2>1, <2>2, ReplyEffects
  <2>4. wire' \in Seq(FrameSet) /\ \A i \in 1..Len(wire') : Fits(wire'[i])
    BY <1>1, <2>1, FrontOfLine
  <2> QED
    BY <1>1, <2>1, <2>3, <2>4 DEF TypeInv, board, Fits
<1>8. ASSUME LoseFrame PROVE TypeInv'
  <2>1. wire # <<>> /\ wire' = Tail(wire) /\ UNCHANGED <<answers, board, missed, stale>>
    BY <1>8 DEF LoseFrame
  <2>2. wire' \in Seq(FrameSet) /\ \A i \in 1..Len(wire') : Fits(wire'[i])
    BY <1>1, <2>1, FrontOfLine
  <2> QED
    BY <1>1, <2>1, <2>2 DEF TypeInv, board, Fits
<1>9. ASSUME LoseAnswer PROVE TypeInv'
  <2>1. answers # <<>> /\ answers' = Tail(answers) /\ UNCHANGED <<wire, board, missed, stale>>
    BY <1>9 DEF LoseAnswer
  <2>2. answers' \in Seq(Sent)
    BY <1>1, <2>1 DEF TypeInv
  <2> QED
    BY <1>1, <2>1, <2>2 DEF TypeInv, board, Fits
<1> QED
  BY <1>2, <1>3, <1>4, <1>5, <1>6, <1>7, <1>8, <1>9 DEF TransferNext, HostStep, Line

LEMMA PunctualStep ==
    ASSUME TInv, TransferNext
    PROVE  PunctualInv'
<1> SUFFICES ASSUME "late" \notin Faults
             PROVE  ~stale' /\ ((wire' # <<>> \/ answers' # <<>>) => Waiting')
  BY DEF PunctualInv
<1>1. ~stale /\ (wire # <<>> \/ answers # <<>> => Waiting) /\ SyncInv
  BY DEF TInv, PunctualInv
<1>2. ASSUME HostStep, Call \/ Host PROVE ~stale' /\ (wire' # <<>> \/ answers' # <<>> => Waiting')
  <2>1. wire = <<>> /\ answers = <<>>
    BY <1>1, <1>2, HostNotWaiting DEF TInv
  <2>2. ~stale'
    BY <1>1, <1>2, <2>1, HostLine
  <2>3. Sends => Waiting'
    BY <1>2, SendsWaits
  <2>4. ~Sends => wire' = wire /\ answers' = answers
    BY <1>2, HostLine
  <2> QED
    BY <2>1, <2>2, <2>3, <2>4
<1>3. ASSUME HostStep, AbortClicked
      PROVE  ~stale' /\ (wire' # <<>> \/ answers' # <<>> => Waiting')
  <2>1. UNCHANGED <<line, stale>> /\ UNCHANGED <<pc, answer>>
    BY <1>3, AbortEffects DEF TInv
  <2> QED
    BY <1>1, <2>1 DEF line, answer, Waiting
<1>4. ASSUME Receive PROVE ~stale' /\ (wire' # <<>> \/ answers' # <<>> => Waiting')
  BY <1>1, <1>4, ReceiveEffects
<1>5. ASSUME NoAnswer PROVE ~stale' /\ (wire' # <<>> \/ answers' # <<>> => Waiting')
  BY <1>1, <1>5, NoAnswerEffects DEF line
<1>6. ASSUME BoardHandles PROVE ~stale' /\ (wire' # <<>> \/ answers' # <<>> => Waiting')
  <2>1. wire # <<>> /\ UNCHANGED vars
    BY <1>6, HandlesEffects
  <2>2. ~stale'
    BY <1>1, <1>6, HandlesEffects
  <2>3. PICK reply \in Sent : Answers(reply)
    BY <1>6, HandlesReply
  <2>4. Waiting'
    BY <1>1, <2>1, <2>3, ReplyEffects
  <2> QED
    BY <2>2, <2>4
<1>7. ASSUME BoardRefuses PROVE ~stale' /\ (wire' # <<>> \/ answers' # <<>> => Waiting')
  <2>1. wire # <<>> /\ UNCHANGED vars /\ stale' = stale
    BY <1>7 DEF BoardRefuses
  <2>2. PICK reply \in Sent : Answers(reply)
    BY <1>7, RefusesReply
  <2>3. Waiting'
    BY <1>1, <2>1, <2>2, ReplyEffects
  <2> QED
    BY <1>1, <2>1, <2>3
<1>8. ASSUME LoseFrame \/ LoseAnswer
      PROVE  ~stale' /\ (wire' # <<>> \/ answers' # <<>> => Waiting')
  <2>1. (wire # <<>> \/ answers # <<>>) /\ UNCHANGED vars /\ stale' = stale
    BY <1>8 DEF LoseFrame, LoseAnswer
  <2>2. UNCHANGED pc /\ UNCHANGED answer
    BY <2>1 DEF vars
  <2>3. Waiting'
    BY <1>1, <2>1, <2>2 DEF Waiting, answer
  <2> QED
    BY <1>1, <2>1, <2>3
<1> QED
  BY <1>2, <1>3, <1>4, <1>5, <1>6, <1>7, <1>8 DEF TransferNext, HostStep, Line

\* Host and board start data together: the excuse is over.
Resumes == BoardHandles /\ Head(wire).cmd = "START_DATA" /\ InSync

LEMMA ResumesEffects ==
    ASSUME TInv, Resumes
    PROVE  /\ wire = <<m_sendBuf>> /\ m_sendBuf.cmd = "START_DATA"
           /\ wire' = <<>> /\ Len(answers') = 1 /\ answers'[1].cmd = "ACK"
           /\ stored' = <<>> /\ responseStatus = -1
           /\ UNCHANGED <<Rest, responseStatus, serialBuff>>
<1>1. wire = <<m_sendBuf>> /\ answers = <<>> /\ Waiting /\ wire # <<>>
  BY DEF Resumes, InSync, BoardHandles
<1>2. Head(wire) = m_sendBuf /\ Tail(wire) = <<>> /\ m_sendBuf.cmd = "START_DATA"
  BY <1>1, FrontOfLine DEF TInv, Resumes
<1>3. wire' = <<>> /\ stored' = <<>> /\ UNCHANGED vars
  BY <1>2, HandlesEffects DEF Resumes, IsData, DataCmd
<1>4. PICK reply \in Sent :
        Answers(reply) /\ reply.cmd = IF Head(wire).cmd = "HANDSHAKE" THEN "VERSION" ELSE "ACK"
  BY HandlesReply DEF Resumes
<1>5. reply.cmd = "ACK"
  BY <1>2, <1>4
<1>6. Len(answers') = 1 /\ answers'[1] = reply /\ UNCHANGED <<Rest, responseStatus, serialBuff>>
  BY <1>1, <1>3, <1>4, ReplyEffects
<1> QED
  BY <1>1, <1>2, <1>3, <1>5, <1>6 DEF Waiting

LEMMA SyncStep ==
    ASSUME TInv, TransferNext, ~stale', ~Resumes
    PROVE  ~stale /\ SyncInv'
<1>1. ASSUME HostStep, Call \/ Host PROVE ~stale /\ SyncInv'
  <2>1. ~stale /\ SyncInv
    BY <1>1, HostLine DEF TInv
  <2>2. CASE Sends
    <3>1. wire' = <<m_sendBuf'>> /\ answers' = <<>>
      BY <1>1, <2>2, HostLine
    <3>2. responseStatus' # 1
      BY <1>1, <2>2, SendsWaits DEF Waiting
    <3> QED
      BY <2>1, <3>1, <3>2 DEF SyncInv
  <2>3. CASE ~Sends
    <3>1. UNCHANGED <<wire, answers>>
      BY <1>1, <2>3, HostLine
    <3>2. responseStatus' = responseStatus /\ (Complete \/ m_sendBuf' = m_sendBuf)
      BY <1>1, <2>3, SendsWaits
    <3>3. CASE Complete
      <4>1. responseStatus = 1
        BY <3>3 DEF Complete, Round, TInv, IInv, CursorInv, HostInv, InSend
      <4> QED
        BY <2>1, <3>1, <3>2, <4>1 DEF SyncInv
    <3> QED
      BY <2>1, <3>1, <3>2, <3>3 DEF SyncInv
  <2> QED
    BY <2>2, <2>3
<1>2. ASSUME HostStep, AbortClicked PROVE ~stale /\ SyncInv'
  <2>1. UNCHANGED <<line, stale>> /\ UNCHANGED <<m_sendBuf, answer>>
    BY <1>2, AbortEffects DEF TInv
  <2> QED
    BY <2>1 DEF TInv, SyncInv, line, answer
<1>3. ASSUME Receive PROVE ~stale /\ SyncInv'
  <2>1. ~stale
    BY <1>3, ReceiveEffects
  <2>2. wire' = <<>> /\ answers' = <<>>
    BY <1>3, <2>1, ReceiveEffects
  <2> QED
    BY <2>1, <2>2 DEF SyncInv
<1>4. ASSUME NoAnswer PROVE ~stale /\ SyncInv'
  <2>1. responseStatus' # 1 /\ UNCHANGED <<line, stale>> /\ m_sendBuf' = m_sendBuf
    BY <1>4, NoAnswerEffects DEF Rest
  <2> QED
    BY <2>1 DEF TInv, SyncInv, line
<1>5. ASSUME BoardHandles PROVE ~stale /\ SyncInv'
  <2>1. stale' = IF Head(wire).cmd = "START_DATA" /\ InSync THEN FALSE ELSE stale
    BY <1>5, HandlesEffects
  <2>2. ~stale
    BY <1>5, <2>1 DEF Resumes
  <2>3. wire # <<>> /\ wire' = Tail(wire) /\ UNCHANGED vars
    BY <1>5, HandlesEffects
  <2>4. PICK reply \in Sent : Answers(reply)
    BY <1>5, HandlesReply
  <2>5. /\ wire = <<m_sendBuf>> /\ responseStatus # 1 /\ responseStatus' = responseStatus
        /\ Len(answers') = 1
    BY <2>2, <2>3, <2>4, ReplyEffects
  <2>6. wire' = <<>>
    BY <2>3, <2>5, FrontOfLine DEF TInv
  <2> QED
    BY <2>2, <2>5, <2>6 DEF SyncInv
<1>6. ASSUME BoardRefuses PROVE ~stale /\ SyncInv'
  <2>1. wire # <<>> /\ wire' = Tail(wire) /\ UNCHANGED vars /\ stale' = stale
    BY <1>6 DEF BoardRefuses
  <2>2. PICK reply \in Sent : Answers(reply)
    BY <1>6, RefusesReply
  <2>3. /\ wire = <<m_sendBuf>> /\ responseStatus # 1 /\ responseStatus' = responseStatus
        /\ Len(answers') = 1
    BY <2>1, <2>2, ReplyEffects
  <2>4. wire' = <<>>
    BY <2>1, <2>3, FrontOfLine DEF TInv
  <2> QED
    BY <2>1, <2>3, <2>4 DEF SyncInv
<1>7. ASSUME LoseFrame PROVE ~stale /\ SyncInv'
  <2>1. wire # <<>> /\ wire' = Tail(wire) /\ answers' = answers /\ stale' = stale /\ UNCHANGED vars
    BY <1>7 DEF LoseFrame
  <2>2. ~stale /\ wire = <<m_sendBuf>> /\ answers = <<>>
    BY <2>1 DEF TInv, SyncInv
  <2>3. wire' = <<>>
    BY <2>1, <2>2, FrontOfLine DEF TInv
  <2> QED
    BY <2>1, <2>2, <2>3 DEF SyncInv
<1>8. ASSUME LoseAnswer PROVE ~stale /\ SyncInv'
  <2>1. /\ answers # <<>> /\ answers' = Tail(answers) /\ wire' = wire /\ stale' = stale
        /\ UNCHANGED vars
    BY <1>8 DEF LoseAnswer
  <2>2. ~stale /\ wire = <<>> /\ Len(answers) = 1 /\ answers \in Seq(Sent)
    BY <2>1 DEF TInv, TypeInv, SyncInv
  <2>3. answers' = <<>>
    BY <2>1, <2>2
  <2> QED
    BY <2>1, <2>2, <2>3 DEF SyncInv
<1> QED
  BY <1>1, <1>2, <1>3, <1>4, <1>5, <1>6, <1>7, <1>8 DEF TransferNext, HostStep, Line

-------------------------------------------------------------------------------
(* The steps of the host preserve what is known of the board. *)

\* Without an excuse the board is as before, and so is the line between two sends.
LEMMA HostBoard ==
    ASSUME TInv, HostStep, Call \/ Host, ~stale'
    PROVE  /\ SyncInv /\ BoardInv
           /\ stored' = stored /\ Ascends(stored)'
           /\ burned' = IF pc \in Returned /\ pc' \notin Returned THEN <<>> ELSE burned
           /\ (pc' # "handshake" /\ ~missed') => ~missed
           /\ Sends => wire' = <<m_sendBuf'>> /\ answers' = <<>> /\ responseStatus' = -1
           /\ ~Sends => UNCHANGED <<wire, answers, responseStatus>>
           /\ ~Sends => Complete \/ m_sendBuf' = m_sendBuf
<1>1. ~stale /\ (Sends => wire' = <<m_sendBuf'>> /\ answers' = <<>>)
             /\ (~Sends => UNCHANGED <<wire, answers>>)
  BY HostLine
<1>2. /\ Sends => responseStatus' = -1
      /\ ~Sends => responseStatus' = responseStatus
      /\ ~Sends => Complete \/ m_sendBuf' = m_sendBuf
  BY SendsWaits DEF Waiting
<1>3. /\ stored' = stored /\ ((pc' # "handshake" /\ ~missed') => ~missed)
      /\ burned' = IF pc \in Returned /\ pc' \notin Returned THEN <<>> ELSE burned
  BY HostEffects
<1>4. SyncInv /\ BoardInv
  BY <1>1 DEF TInv
<1>5. Ascends(stored)'
  BY <1>3, <1>4 DEF BoardInv, Ascends
<1> QED
  BY <1>1, <1>2, <1>3, <1>4, <1>5

\* Outside the data phase and what follows it only the frame on its way matters.
LEMMA Elsewhere ==
    ASSUME Ascends(stored)', FlightInv', pc' \notin {"sendWait", "success"},
           pc' = "send" => m_upgrade_status' = "GOT_VERSION"
    PROVE  BoardInv'
<1>1. KeptInv' /\ StartInv' /\ DoneInv'
  BY DEF KeptInv, StartInv, DoneInv, InData, InSend, Around
<1> QED
  BY <1>1 DEF BoardInv

LEMMA LeaveBoard ==
    ASSUME TInv, HostStep, ~stale',
           Call \/ Handshake \/ SendAbort \/ SendGiveUp \/ StateParseRestart
    PROVE  BoardInv'
<1>1. Call \/ Host
  BY DEF Host, Send
<1>2. SyncInv /\ BoardInv /\ stored' = stored /\ Ascends(stored)'
  BY <1>1, HostBoard
<1>3. /\ pc' \notin {"sendWait", "success"}
      /\ pc' = "send" => m_upgrade_status' = "GOT_VERSION"
  BY DEF Call, Handshake, HandshakeAbort, HandshakeGiveUp, HandshakeSend, HandshakeRetry,
         HandshakeDone, SendAbort, SendGiveUp, StateParseRestart, StartAgain
<1>4. FlightInv'
  <2>1. CASE Sends
    <3>1. HandshakeSend
      BY <1>1, <2>1 DEF Sends, Call, Handshake, HandshakeAbort, HandshakeGiveUp, HandshakeRetry,
             HandshakeDone, SendAbort, SendGiveUp, StateParseRestart, StartAgain
    <3>2. m_sendBuf'.cmd = "HANDSHAKE" /\ pc' = "handshakeWait"
      BY <3>1 DEF HandshakeSend, Control, Frame
    <3> QED
      BY <3>2 DEF FlightInv, IsData, DataCmd, InData, InSend
  <2>2. CASE ~Sends
    <3>1. UNCHANGED <<wire, m_sendBuf>>
      BY <1>1, <1>3, <2>2, HostBoard DEF Complete
    <3>2. CASE wire = <<>>
      BY <3>1, <3>2 DEF FlightInv
    <3>3. CASE wire # <<>>
      <4>1. IsData(m_sendBuf) => Below(stored, m_sendBuf.from)
        BY <1>2, <3>3 DEF BoardInv, FlightInv
      <4>2. m_sendBuf.cmd = "EXEC_DATA" => (burned = <<>> \/ (~missed => stored = Block))
        BY <1>2, <3>3 DEF BoardInv, FlightInv
      <4>3. responseStatus # 1
        BY <1>2, <3>3 DEF SyncInv
      <4>4. ~StateParseRestart /\ ~HandshakeDone
        BY <4>3 DEF StateParseRestart, Parsed, HandshakeDone
      <4>5. pc' \notin {"send", "sendWait"}
        BY <1>3, <4>4 DEF Call, Handshake, HandshakeAbort, HandshakeGiveUp, HandshakeSend,
               HandshakeRetry, SendAbort, SendGiveUp, StartAgain
      <4>6. m_sendBuf.cmd = "EXEC_DATA" =>
               (burned' = <<>> \/ (~missed' => stored = Block))
        <5>1. CASE Call
          <6>1. burned' = <<>>
            BY <1>1, <5>1, HostBoard DEF Call, StartAgain, Returned
          <6> QED
            BY <6>1
        <5>2. CASE HandshakeRetry
          BY <5>2 DEF HandshakeRetry, TInv, IInv, FreshInv, InHandshake
        <5>3. CASE HandshakeAbort \/ HandshakeGiveUp \/ SendAbort \/ SendGiveUp
          <6>1. pc \in {"handshake", "send"} /\ pc' # "handshake"
            BY <5>3 DEF HandshakeAbort, HandshakeGiveUp, SendAbort, SendGiveUp
          <6>2. burned' = burned /\ (~missed' => ~missed)
            BY <1>1, <6>1, HostBoard DEF Returned
          <6> QED
            BY <4>2, <6>2
        <5>4. CASE HandshakeSend
          BY <2>2, <5>4 DEF HandshakeSend, Sends
        <5> QED
          BY <4>4, <5>1, <5>2, <5>3, <5>4 DEF Handshake
      <4> QED
        BY <1>2, <3>1, <4>1, <4>5, <4>6 DEF FlightInv, Below, InData, InSend
    <3> QED
      BY <3>2, <3>3
  <2> QED
    BY <2>1, <2>2
<1> QED
  BY <1>2, <1>3, <1>4, Elsewhere

\* A frame that has just been sent has no answer yet.
LEMMA NoneAround ==
    ASSUME answers' = <<>>, responseStatus' = -1
    PROVE  ~Around("ACK")' /\ ~Around("NACK")'
  BY DEF Around

LEMMA SendControlBoard ==
    ASSUME TInv, HostStep, ~stale', SendConnect \/ SendStartData \/ SendExec
    PROVE  BoardInv'
<1>1. Call \/ Host
  BY DEF Host, Send
<1>2. /\ pc = "send" /\ pc' = "sendWait"
      /\ m_upgrade_status' = m_upgrade_status
      /\ m_sendBuf'.cmd \notin DataCmd
      /\ \/ loop_state \in {"GOT_VERSION", "CONNECTED"} /\ m_sendBuf'.cmd # "EXEC_DATA"
         \/ loop_state = "END_DATA" /\ m_sendBuf'.cmd = "EXEC_DATA"
  BY DEF SendConnect, SendStartData, SendExec, SendControl, Round, Transact,
         Control, Frame, status, DataCmd
<1>3. /\ SyncInv /\ BoardInv /\ stored' = stored /\ Ascends(stored)'
      /\ ~missed' => ~missed
  BY <1>1, <1>2, HostBoard
<1>4. answers' = <<>> /\ responseStatus' = -1
  BY <1>1, <1>2, HostBoard DEF Sends
<1>5. loop_state = m_upgrade_status
  BY <1>2 DEF TInv, IInv, CursorInv, InSend
<1>6. ~Around("ACK")' /\ ~Around("NACK")'
  BY <1>4, NoneAround
<1>7. m_upgrade_status = "END_DATA" => (~missed => stored = Block)
  BY <1>2, <1>3 DEF BoardInv, DoneInv, InSend
<1>8. KeptInv' /\ StartInv'
  BY <1>2, <1>5, <1>6 DEF KeptInv, StartInv, InData, InSend
<1>9. FlightInv'
  <2>1. ~IsData(m_sendBuf)' /\ ~InData'
    BY <1>2, <1>5 DEF IsData, InData
  <2>2. m_sendBuf'.cmd = "EXEC_DATA" => (~missed' => stored' = Block)
    BY <1>2, <1>3, <1>5, <1>7
  <2>3. m_upgrade_status' = "END_DATA" => m_sendBuf'.cmd = "EXEC_DATA"
    BY <1>2, <1>5
  <2>4. Block' = Block
    BY DEF Block, Bytes
  <2> QED
    BY <2>1, <2>2, <2>3, <2>4 DEF FlightInv
<1>10. DoneInv'
  BY <1>2, <1>3, <1>5, <1>6, <1>7 DEF DoneInv, InSend
<1> QED
  BY <1>3, <1>8, <1>9, <1>10 DEF BoardInv

\* A data frame: the refused one again, or the next.
LEMMA SendDataBoard ==
    ASSUME TInv, HostStep, ~stale', SendData
    PROVE  BoardInv'
<1> DEFINE from == buff_r - Rewind
           left == left_size + Rewind
           size == IF left >= TxPkgMaxSize THEN TxPkgMaxSize ELSE left
<1>1. Call \/ Host
  BY DEF Host, Send
<1>2. /\ pc = "send" /\ pc' = "sendWait"
      /\ m_upgrade_status' = m_upgrade_status
      /\ loop_state \in {"START_DATA", "MIDST_DATA"}
      /\ m_sendBuf'.cmd \in {"END_DATA", "MIDST_DATA"}
      /\ m_sendBuf'.from = from /\ buff_r' = from + size
  BY DEF SendData, Round, Transact, Frame, status
<1>3. /\ SyncInv /\ BoardInv /\ stored' = stored /\ Ascends(stored)'
      /\ ~missed' => ~missed
  BY <1>1, <1>2, HostBoard
<1>31. answers' = <<>> /\ responseStatus' = -1
  BY <1>1, <1>2, HostBoard DEF Sends
<1>4. InData /\ InSend /\ m_upgrade_status \in {"START_DATA", "MIDST_DATA"}
  BY <1>2 DEF TInv, IInv, CursorInv, InSend, InData
<1>5. ~Around("ACK")' /\ ~Around("NACK")'
  BY <1>31, NoneAround
\* What the board has ends where the frame begins.
<1>7. Upto(from) /\ from \in Nat /\ size \in Nat
  <2>1. CASE m_repeat_send_flag = 1
    <3>1. IsData(m_sendBuf)
      BY <1>2, <1>4, <2>1 DEF TInv, IInv, StageInv
    <3>2. m_sendBuf.from + m_sendBuf.len = buff_r /\ m_sendBuf.len = last_dlen
      BY <1>4, <3>1 DEF TInv, IInv, LastFrameInv
    <3>3. /\ m_sendBuf.from \in Nat /\ last_dlen \in Nat /\ left_size \in Nat /\ TxPkgMaxSize \in Nat
      BY SizesAssumption DEF TInv, IInv, TypeOK
    <3>4. from = m_sendBuf.from
      BY <2>1, <3>2, <3>3 DEF Rewind
    <3>5. Upto(m_sendBuf.from)
      BY <1>2, <1>3, <1>4, <2>1 DEF BoardInv, KeptInv, Nacked
    <3>6. size \in Nat
      BY <2>1, <3>3 DEF Rewind
    <3> QED
      BY <3>3, <3>4, <3>5, <3>6
  <2>2. CASE m_repeat_send_flag = 0
    <3>1. buff_r \in Nat /\ left_size \in Nat /\ TxPkgMaxSize \in Nat
      BY SizesAssumption DEF TInv, IInv, TypeOK
    <3>2. from = buff_r /\ size \in Nat
      BY <2>2, <3>1 DEF Rewind
    <3>3. Upto(buff_r)
      BY <1>2, <1>3, <1>4, <2>2 DEF BoardInv, KeptInv, Acked
    <3> QED
      BY <3>1, <3>2, <3>3
  <2> QED
    BY <2>1, <2>2 DEF TInv, IInv, TypeOK
<1> HIDE DEF from, size
<1>8. Upto(m_sendBuf.from)' /\ Below(stored, buff_r)'
  <2>1. stored \in Seq(Place)
    BY DEF TInv, TypeInv, Place
  <2>2. \A i \in 1..Len(stored) : stored[i] \in Int
    BY <2>1, SizesAssumption DEF Place
  <2> QED
    BY <1>2, <1>3, <1>7, <2>2 DEF Upto, Below
<1>9. KeptInv'
  BY <1>2, <1>5, <1>8 DEF KeptInv, Acked
<1>10. StartInv' /\ DoneInv'
  BY <1>2, <1>4, <1>5 DEF StartInv, DoneInv
<1>11. FlightInv'
  <2>1. IsData(m_sendBuf)' /\ m_sendBuf'.cmd # "EXEC_DATA" /\ m_upgrade_status' # "END_DATA"
    BY <1>2, <1>4 DEF IsData, DataCmd
  <2> QED
    BY <1>8, <2>1 DEF FlightInv, Upto
<1> QED
  BY <1>3, <1>9, <1>10, <1>11 DEF BoardInv

LEMMA CompleteBoard ==
    ASSUME TInv, HostStep, ~stale', Complete
    PROVE  BoardInv'
<1>1. Call \/ Host
  BY DEF Host, Send
<1>2. /\ pc = "send" /\ pc' = "success" /\ loop_state = "EXEC_DATA"
  BY DEF Complete, Round
<1>3. /\ SyncInv /\ BoardInv /\ Ascends(stored)' /\ burned' = burned /\ (~missed' => ~missed)
      /\ wire' = wire
  BY <1>1, <1>2, HostBoard DEF Returned, Sends
<1>4. m_upgrade_status = "EXEC_DATA"
  BY <1>2 DEF TInv, IInv, CursorInv, InSend
<1>5. (~missed => burned = Block) /\ wire = <<>>
  BY <1>2, <1>3, <1>4 DEF TInv, HostInv, SyncInv, BoardInv, DoneInv, InSend
<1>6. KeptInv' /\ StartInv' /\ DoneInv' /\ FlightInv'
  BY <1>2, <1>3, <1>5 DEF KeptInv, StartInv, DoneInv, FlightInv, InData, InSend, Around
<1> QED
  BY <1>3, <1>6 DEF BoardInv

\* A data frame is given up.
LEMMA RetryMisses ==
    ASSUME HostStep, SendRetry, IsData(m_sendBuf)
    PROVE  missed' = TRUE
<1>1. GivesUp /\ pc' # "handshake"
  BY DEF GivesUp, SendRetry
<1>2. missed' = IF pc' = "handshake" /\ pc # "handshakeWait" THEN FALSE ELSE missed \/ GivesUp
  BY Zenon DEF HostStep
<1> QED
  BY <1>1, <1>2, Zenon

\* The frame may still be on its way, and its answer too.
LEMMA SendRetryBoard ==
    ASSUME TInv, HostStep, ~stale', SendRetry
    PROVE  BoardInv'
<1>1. Call \/ Host
  BY DEF Host, Send
<1>2. /\ pc = "sendWait" /\ pc' = "send"
      /\ UNCHANGED <<m_upgrade_status, buff_r, m_sendBuf>>
  BY DEF SendRetry, status, cursor
<1>3. /\ SyncInv /\ BoardInv /\ stored' = stored /\ Ascends(stored)'
      /\ burned' = burned /\ (~missed' => ~missed) /\ wire' = wire
  BY <1>1, <1>2, HostBoard DEF Returned, Sends
<1>4. m_repeat_send_flag' = 0
  BY <1>2 DEF SendRetry, members, TInv, IInv, CursorInv, InSend
<1>5. KeptInv'
  <2>1. ASSUME InData'
        PROVE  Upto(buff_r)' /\ Below(stored, buff_r)' /\ (Nacked' => Upto(m_sendBuf.from)')
    <3>1. InData
      BY <1>2, <2>1 DEF InData, InSend
    <3>2. IsData(m_sendBuf)
      BY <1>2, <3>1 DEF TInv, IInv, StageInv, InData
    <3>3. missed' = TRUE
      BY <3>2, RetryMisses
    <3>4. Below(stored, buff_r)'
      BY <1>2, <1>3, <3>1 DEF BoardInv, KeptInv, Below
    <3>5. Nacked' => Nacked
      BY <1>2, <1>3, <1>4 DEF Nacked, Around
    <3>6. Nacked => Upto(m_sendBuf.from)
      BY <1>3, <3>1 DEF BoardInv, KeptInv
    <3> QED
      BY <1>2, <1>3, <3>3, <3>4, <3>5, <3>6 DEF Upto, Below
  <2> QED
    BY <2>1 DEF KeptInv
<1>6. StartInv'
  BY <1>2 DEF StartInv, Around
<1>7. DoneInv'
  BY <1>2, <1>3 DEF TInv, IInv, StageInv, BoardInv, DoneInv, InSend, Around, Block, Bytes
<1>8. FlightInv'
  <2>1. InSend /\ (InData' <=> InData) /\ InSend'
    BY <1>2 DEF InData, InSend
  <2> QED
    BY <1>2, <1>3, <2>1 DEF BoardInv, FlightInv, Below, Block, Bytes
<1> QED
  BY <1>3, <1>5, <1>6, <1>7, <1>8 DEF BoardInv

\* An ACK or a NACK is read as what it is.
LEMMA ParsedIs ==
    ASSUME NEW ret \in Parsed, ret.cmd \in {"ACK", "NACK"}
    PROVE  responseStatus = 1 /\ serialBuff.cmd = ret.cmd
<1>1. responseStatus = 1 /\ ret \in parse_frame(serialBuff, FRAME_LEN)
  BY DEF Parsed
<1>2. ret \in {Rejected, RetFFFF, [cmd |-> serialBuff.cmd, err |-> serialBuff.err]}
  BY <1>1 DEF parse_frame
<1>3. ret # Rejected /\ ret # RetFFFF
  BY DEF Rejected, RetFFFF
<1>4. ret = [cmd |-> serialBuff.cmd, err |-> serialBuff.err]
  BY <1>2, <1>3
<1> QED
  BY <1>1, <1>4

LEMMA AckBoard ==
    ASSUME TInv, HostStep, ~stale', StateParseAck
    PROVE  BoardInv'
<1>1. Call \/ Host
  BY DEF Host, Send
<1>2. /\ pc = "sendWait" /\ pc' = "send"
      /\ m_upgrade_status' = AckedStatus
      /\ UNCHANGED <<m_sendBuf, buff_r, left_size, m_repeat_send_flag>>
  BY DEF StateParseAck, cursor, members
<1>3. /\ SyncInv /\ BoardInv /\ stored' = stored /\ Ascends(stored)'
      /\ burned' = burned /\ (~missed' => ~missed) /\ wire' = wire
  BY <1>1, <1>2, HostBoard DEF Returned, Sends
<1>4. m_repeat_send_flag' = 0 /\ buff_r \in Nat /\ left_size \in Nat /\ NRdSize \in Nat
  BY <1>2, SizesAssumption DEF TInv, IInv, CursorInv, TypeOK, InSend
<1>5. responseStatus = 1 /\ serialBuff.cmd = "ACK"
  <2>1. PICK ret \in Parsed : ret.cmd = "ACK"
    BY DEF StateParseAck
  <2> QED
    BY <2>1, ParsedIs
<1>6. Around("ACK") /\ wire' = <<>>
  BY <1>2, <1>3, <1>5 DEF Around, SyncInv
<1>7. InSend /\ m_upgrade_status \in {"GOT_VERSION", "CONNECTED", "START_DATA", "MIDST_DATA", "END_DATA"}
  BY <1>2 DEF TInv, IInv, TypeOK, Status, CursorInv, StageInv, InSend
<1>8. ~Nacked' /\ ~Around("ACK")' /\ FlightInv'
  BY <1>2, <1>4, <1>6 DEF Nacked, Around, FlightInv
<1>9. ASSUME InData PROVE Upto(buff_r) /\ Below(stored, buff_r)
  BY <1>3, <1>6, <1>9 DEF BoardInv, KeptInv, Acked
<1>10. StartInv'
  BY <1>8 DEF StartInv
<1>11. CASE m_upgrade_status = "GOT_VERSION"
  <2>1. m_upgrade_status' = "CONNECTED"
    BY <1>2, <1>11 DEF AckedStatus
  <2> QED
    BY <1>2, <1>3, <1>8, <1>10, <2>1 DEF BoardInv, KeptInv, DoneInv, InData
\* START_DATA is acknowledged: the board has forgotten what it had.
<1>12. CASE m_upgrade_status = "CONNECTED"
  <2>1. m_upgrade_status' = "START_DATA"
    BY <1>2, <1>12 DEF AckedStatus
  <2>2. m_sendBuf.cmd = "START_DATA" /\ m_send_total_byte = 0
    BY <1>2, <1>7, <1>12 DEF TInv, IInv, StageInv
  <2>3. stored = <<>> /\ buff_r = 0
    BY <1>3, <1>6, <1>7, <2>2 DEF TInv, IInv, CursorInv, BoardInv, StartInv
  <2>4. Bytes(0, 0) = <<>>
    BY DEF Bytes
  <2>5. Upto(buff_r)' /\ Below(stored, buff_r)'
    BY <1>2, <1>3, <2>3, <2>4 DEF Upto, Below
  <2>6. KeptInv'
    BY <1>8, <2>5 DEF KeptInv
  <2> QED
    BY <1>2, <1>3, <1>8, <1>10, <2>1, <2>6 DEF BoardInv, DoneInv
<1>13. CASE m_upgrade_status \in {"START_DATA", "MIDST_DATA"}
  <2>1. InData
    BY <1>7, <1>13 DEF InData
  <2>2. Upto(buff_r)' /\ Below(stored, buff_r)'
    BY <1>2, <1>3, <1>9, <2>1 DEF Upto, Below
  <2>3. KeptInv'
    BY <1>8, <2>2 DEF KeptInv
  <2>4. m_upgrade_status' = "MIDST_DATA" \/ (m_upgrade_status' = "END_DATA" /\ left_size = 0)
    <3>1. IsData(m_sendBuf)
      BY <1>2, <1>7, <1>13 DEF TInv, IInv, StageInv
    <3>2. m_send_complete_flag = 1 => left_size = 0
      BY <2>1, <3>1 DEF TInv, IInv, LastFrameInv, IsData, DataCmd
    <3> QED
      BY <1>2, <1>13, <3>2 DEF AckedStatus
  <2>5. left_size = 0 => buff_r = NRdSize
    BY <1>4, <1>7 DEF TInv, IInv, TypeOK, CursorInv
  <2>6. left_size = 0 => (~missed' => stored' = Block)
    BY <1>3, <1>9, <2>1, <2>5 DEF Upto, Block
  <2>7. DoneInv'
    BY <1>2, <1>8, <2>4, <2>6 DEF DoneInv, Block, Bytes
  <2> QED
    BY <1>3, <1>8, <1>10, <2>3, <2>7 DEF BoardInv
\* EXEC_DATA is acknowledged: the board has burned what it has.
<1>14. CASE m_upgrade_status = "END_DATA"
  <2>1. m_upgrade_status' = "EXEC_DATA"
    BY <1>2, <1>14 DEF AckedStatus
  <2>2. burned = stored /\ (~missed => stored = Block)
    BY <1>3, <1>6, <1>7, <1>14 DEF BoardInv, DoneInv
  <2> QED
    BY <1>2, <1>3, <1>8, <1>10, <2>1, <2>2 DEF BoardInv, KeptInv, DoneInv, InData
<1> QED
  BY <1>7, <1>11, <1>12, <1>13, <1>14

LEMMA NackBoard ==
    ASSUME TInv, HostStep, ~stale', StateParseNack
    PROVE  BoardInv'
<1>1. Call \/ Host
  BY DEF Host, Send
<1>2. /\ pc = "sendWait" /\ pc' = "send"
      /\ m_repeat_send_flag' = 1
      /\ UNCHANGED <<m_sendBuf, buff_r, m_upgrade_status>>
  BY DEF StateParseNack, cursor
<1>3. /\ SyncInv /\ BoardInv /\ stored' = stored /\ Ascends(stored)'
      /\ burned' = burned /\ (~missed' => ~missed) /\ wire' = wire
  BY <1>1, <1>2, HostBoard DEF Returned, Sends
<1>4. responseStatus = 1 /\ serialBuff.cmd = "NACK"
  <2>1. PICK ret \in Parsed : ret.cmd = "NACK"
    BY DEF StateParseNack
  <2> QED
    BY <2>1, ParsedIs
<1>5. Around("NACK") /\ wire' = <<>> /\ FlightInv'
  BY <1>2, <1>3, <1>4 DEF Around, SyncInv, FlightInv
<1>6. ~Acked' /\ ~Around("ACK")'
  BY <1>2 DEF Acked, Around
<1>7. KeptInv'
  <2>1. ASSUME InData' PROVE Upto(m_sendBuf.from)' /\ Below(stored, buff_r)'
    <3>1. InData
      BY <1>2, <2>1 DEF InData, InSend
    <3>2. Upto(m_sendBuf.from) /\ Below(stored, buff_r)
      BY <1>3, <1>5, <3>1 DEF BoardInv, KeptInv, Nacked
    <3> QED
      BY <1>2, <1>3, <3>2 DEF Upto, Below
  <2> QED
    BY <1>6, <2>1 DEF KeptInv
<1>8. StartInv'
  BY <1>6 DEF StartInv
<1>9. DoneInv'
  BY <1>2, <1>3, <1>6 DEF TInv, IInv, StageInv, BoardInv, DoneInv, InSend, Block, Bytes
<1> QED
  BY <1>3, <1>5, <1>7, <1>8, <1>9 DEF BoardInv

-------------------------------------------------------------------------------
(* The steps of the line and the slots preserve it. *)

\* A step that leaves host, board and history alone, and brings no new answer.
LEMMA Fades ==
    ASSUME BoardInv, UNCHANGED <<board, missed, Rest>>, wire' # <<>> => wire # <<>>,
           Around("ACK")' => Around("ACK"), Nacked' => Nacked
    PROVE  BoardInv'
<1>1. /\ stored' = stored /\ burned' = burned /\ missed' = missed
      /\ UNCHANGED <<pc, m_upgrade_status, buff_r, m_sendBuf, m_repeat_send_flag>>
  BY DEF board, Rest, members, status, cursor
<1>2. Ascends(stored)'
  BY <1>1 DEF BoardInv, Ascends
<1>3. /\ Upto(buff_r)' <=> Upto(buff_r)
      /\ Upto(m_sendBuf.from)' <=> Upto(m_sendBuf.from)
      /\ Below(stored, buff_r)' <=> Below(stored, buff_r)
      /\ Below(stored, m_sendBuf.from)' <=> Below(stored, m_sendBuf.from)
  BY <1>1 DEF Upto, Below
<1>4. (InData' <=> InData) /\ (InSend' <=> InSend) /\ (Acked' => Acked)
  BY <1>1 DEF InData, InSend, Acked
<1>5. KeptInv'
  BY <1>3, <1>4 DEF BoardInv, KeptInv
<1>6. StartInv'
  BY <1>1 DEF BoardInv, StartInv
<1>7. DoneInv'
  BY <1>1, <1>4 DEF BoardInv, DoneInv, Block, Bytes
<1>8. FlightInv'
  BY <1>1, <1>3, <1>4 DEF BoardInv, FlightInv, Block, Bytes
<1> QED
  BY <1>2, <1>5, <1>6, <1>7, <1>8 DEF BoardInv

LEMMA AbortBoard ==
    ASSUME TInv, HostStep, AbortClicked, ~stale'
    PROVE  BoardInv'
<1>1. /\ UNCHANGED <<line, board, missed, stale>>
      /\ UNCHANGED <<pc, members, status, cursor, m_sendBuf, answer>>
  BY AbortEffects DEF TInv
<1>2. UNCHANGED <<board, missed, Rest>> /\ BoardInv
  BY <1>1 DEF Rest, TInv
<1>3. UNCHANGED <<wire, answers, pc, m_repeat_send_flag, responseStatus, serialBuff>>
  BY <1>1 DEF line, answer, members
<1>4. (Around("ACK")' => Around("ACK")) /\ (Nacked' => Nacked) /\ (wire' # <<>> => wire # <<>>)
  BY <1>3 DEF Around, Nacked
<1> QED
  BY <1>2, <1>4, Fades

LEMMA ReceiveBoard ==
    ASSUME TInv, Receive, ~stale'
    PROVE  BoardInv'
<1>1. wire' = wire /\ UNCHANGED <<board, missed, stale, Rest>>
  BY ReceiveEffects
<1>2. wire' = <<>> /\ answers' = <<>> /\ BoardInv
  BY <1>1, ReceiveEffects DEF TInv
<1>3. UNCHANGED <<pc, m_repeat_send_flag>> /\ answers # <<>>
      /\ (responseStatus' = 1 => serialBuff' = answers[1])
  BY <1>1, ReceiveEffects DEF Rest, members
<1>4. (Around("ACK")' => Around("ACK")) /\ (Nacked' => Nacked)
  BY <1>2, <1>3 DEF Around, Nacked
<1> QED
  BY <1>1, <1>2, <1>4, Fades

LEMMA NoAnswerBoard ==
    ASSUME TInv, NoAnswer, ~stale'
    PROVE  BoardInv'
<1>1. responseStatus' = 0 /\ UNCHANGED <<line, board, missed, stale, Rest>>
  BY NoAnswerEffects
<1>2. UNCHANGED <<wire, answers, pc, m_repeat_send_flag>> /\ BoardInv
  BY <1>1 DEF line, Rest, members, TInv
<1>3. (Around("ACK")' => Around("ACK")) /\ (Nacked' => Nacked)
  BY <1>1, <1>2 DEF Around, Nacked
<1> QED
  BY <1>1, <1>2, <1>3, Fades

LEMMA LoseBoard ==
    ASSUME TInv, LoseFrame \/ LoseAnswer, ~stale'
    PROVE  BoardInv'
<1>1. /\ UNCHANGED <<board, missed, Rest>> /\ stale' = stale
      /\ UNCHANGED <<pc, m_repeat_send_flag, responseStatus, serialBuff>>
  BY DEF LoseFrame, LoseAnswer, vars, Rest, members, answer
<1>2. SyncInv /\ BoardInv
  BY <1>1 DEF TInv
<1>3. (wire' = <<>> \/ wire' = wire) /\ (answers' = <<>> \/ answers' = answers)
  <2>1. CASE LoseFrame
    <3>1. wire # <<>> /\ wire' = Tail(wire) /\ answers' = answers /\ wire = <<m_sendBuf>>
      BY <1>2, <2>1 DEF LoseFrame, SyncInv
    <3> QED
      BY <3>1, FrontOfLine DEF TInv
  <2>2. CASE LoseAnswer
    <3>1. answers \in Seq(Sent) /\ Len(answers) = 1 /\ answers' = Tail(answers) /\ wire' = wire
      BY <1>2, <2>2 DEF LoseAnswer, TInv, TypeInv, SyncInv
    <3>2. answers' = <<>>
      BY <3>1
    <3> QED
      BY <3>1, <3>2
  <2> QED
    BY <2>1, <2>2
<1>4. (Around("ACK")' => Around("ACK")) /\ (Nacked' => Nacked) /\ (wire' # <<>> => wire # <<>>)
  BY <1>1, <1>3 DEF Around, Nacked
<1> QED
  BY <1>1, <1>2, <1>4, Fades

LEMMA RefusesBoard ==
    ASSUME TInv, BoardRefuses, ~stale'
    PROVE  BoardInv'
<1>1. wire # <<>> /\ UNCHANGED vars /\ UNCHANGED <<board, missed, stale>>
  BY DEF BoardRefuses
<1>2. PICK reply \in Sent : Answers(reply) /\ reply.cmd = "NACK"
  BY RefusesReply
<1>3. /\ answers = <<>> /\ responseStatus # 1
      /\ UNCHANGED <<Rest, responseStatus, serialBuff>>
  BY <1>1, <1>2, ReplyEffects
<1>4. answers'[1] = reply
  BY <1>1, <1>2, <1>3, ReplyEffects
<1>5. ~Around("ACK")' /\ Nacked
  BY <1>1, <1>2, <1>3, <1>4 DEF Around, Nacked
<1>6. BoardInv
  BY <1>1 DEF TInv
<1> QED
  BY <1>1, <1>3, <1>5, <1>6, Fades

\* The bytes kept ascend again after what the board does with a frame behind them.
LEMMA KeepsAscending ==
    ASSUME TypeInv, Ascends(stored), NEW frame \in FrameSet, Fits(frame),
           IsData(frame), Below(stored, frame.from), frame.cmd # "START_DATA",
           stored' = CASE frame.cmd = "START_DATA" -> <<>>
                       [] IsData(frame) -> stored \o Bytes(frame.from, frame.len)
                       [] OTHER -> stored
    PROVE  /\ Ascends(stored') /\ Below(stored', frame.from + frame.len)
           /\ stored = Bytes(0, frame.from) => stored' = Bytes(0, frame.from + frame.len)
<1>1. frame.from \in Nat /\ frame.len \in Nat /\ frame.from + frame.len <= NRdSize
  BY DEF FrameSet, Fits
<1>2. Kept(stored)
  BY DEF Kept, TypeInv
<1>3. stored' = stored \o Bytes(frame.from, frame.len)
  OBVIOUS
<1>4. /\ Kept(stored \o Bytes(frame.from, frame.len))
      /\ Below(stored \o Bytes(frame.from, frame.len), frame.from + frame.len)
      /\ stored = Bytes(0, frame.from) =>
            stored \o Bytes(frame.from, frame.len) = Bytes(0, frame.from + frame.len)
  BY <1>1, <1>2, AppendBytes
<1> QED
  BY <1>3, <1>4 DEF Kept

\* The board handles the last frame sent.
LEMMA HandlesBoard ==
    ASSUME TInv, BoardHandles, ~stale', ~Resumes
    PROVE  BoardInv'
<1>1. /\ wire # <<>> /\ wire' = Tail(wire) /\ UNCHANGED vars /\ missed' = missed
      /\ stale' = IF Head(wire).cmd = "START_DATA" /\ InSync THEN FALSE ELSE stale
  BY HandlesEffects
<1>2. ~stale
  BY <1>1 DEF Resumes
<1>3. PICK reply \in Sent :
        /\ Answers(reply)
        /\ reply.cmd = IF Head(wire).cmd = "HANDSHAKE" THEN "VERSION" ELSE "ACK"
  BY HandlesReply
<1>4. wire = <<m_sendBuf>> /\ answers = <<>> /\ responseStatus # 1
  BY <1>1, <1>2, <1>3, ReplyEffects
<1>5. answers'[1] = reply /\ answers' # <<>> /\ UNCHANGED <<Rest, responseStatus, serialBuff>>
  BY <1>1, <1>3, <1>4, ReplyEffects
<1>6. UNCHANGED <<pc, m_upgrade_status, buff_r, m_sendBuf, m_repeat_send_flag>>
  BY <1>5 DEF Rest, members, status, cursor
<1>7. Head(wire) = m_sendBuf /\ wire' = <<>>
  BY <1>1, <1>4, FrontOfLine DEF TInv
<1>8. /\ stored' = CASE m_sendBuf.cmd = "START_DATA" -> <<>>
                     [] IsData(m_sendBuf) -> stored \o Bytes(m_sendBuf.from, m_sendBuf.len)
                     [] OTHER -> stored
      /\ burned' = IF m_sendBuf.cmd = "EXEC_DATA" THEN stored ELSE burned
  BY <1>7, HandlesEffects
<1>9. BoardInv /\ Ascends(stored) /\ TypeInv
  BY <1>2 DEF TInv, BoardInv
<1>10. m_sendBuf \in FrameSet /\ Fits(m_sendBuf)
  BY DEF TInv, IInv, TypeOK, FrameSet, HostInv
<1>11. FlightInv'
  BY <1>7 DEF FlightInv
<1>12. ~Nacked'
  <2>1. ~(pc = "send" /\ m_repeat_send_flag = 1)
    BY <1>4 DEF TInv, HostInv
  <2> QED
    BY <1>3, <1>4, <1>5, <1>6, <1>7, <2>1 DEF Nacked, Around
<1>13. CASE IsData(m_sendBuf)
  <2>1. m_sendBuf.cmd \notin {"START_DATA", "EXEC_DATA"}
    BY <1>13 DEF IsData, DataCmd
  <2>2. Below(stored, m_sendBuf.from)
    BY <1>1, <1>9, <1>13 DEF BoardInv, FlightInv
  <2>3. /\ Ascends(stored') /\ Below(stored', m_sendBuf.from + m_sendBuf.len)
        /\ stored = Bytes(0, m_sendBuf.from) =>
              stored' = Bytes(0, m_sendBuf.from + m_sendBuf.len)
    BY <1>8, <1>9, <1>10, <1>13, <2>1, <2>2, KeepsAscending
  <2>4. Ascends(stored)'
    BY <2>3 DEF Ascends
  <2>5. KeptInv'
    <3>1. ASSUME InData' PROVE Upto(buff_r)' /\ Below(stored, buff_r)'
      <4>1. InData
        BY <1>6, <3>1 DEF InData, InSend
      <4>2. m_sendBuf.from + m_sendBuf.len = buff_r
        BY <1>13, <4>1 DEF TInv, IInv, LastFrameInv
      <4>3. Upto(m_sendBuf.from)
        BY <1>1, <1>9, <4>1 DEF BoardInv, KeptInv, Nacked
      <4> QED
        BY <1>1, <1>6, <2>3, <4>2, <4>3 DEF Upto, Below, Bytes
    <3> QED
      BY <1>12, <3>1 DEF KeptInv
  <2>6. StartInv'
    BY <1>6, <2>1 DEF StartInv
  <2>7. DoneInv'
    <3>1. ~(InSend /\ m_upgrade_status = "END_DATA")
      BY <1>1, <1>9, <2>1 DEF BoardInv, FlightInv
    <3>2. ~((InSend /\ m_upgrade_status = "EXEC_DATA") \/ pc = "success")
      BY <1>4 DEF TInv, HostInv
    <3> QED
      BY <1>6, <3>1, <3>2 DEF DoneInv, InSend
  <2> QED
    BY <1>11, <2>4, <2>5, <2>6, <2>7 DEF BoardInv
<1>14. CASE ~IsData(m_sendBuf)
  <2>1. /\ m_sendBuf.cmd = "START_DATA" => stored' = <<>>
        /\ m_sendBuf.cmd # "START_DATA" => stored' = stored
    BY <1>8, <1>14
  <2>2. Ascends(stored)'
    BY <1>9, <2>1 DEF Ascends
  <2>3. ~InData
    BY <1>1, <1>9, <1>14 DEF BoardInv, FlightInv
  <2>4. KeptInv' /\ StartInv'
    BY <1>6, <2>1, <2>3 DEF KeptInv, StartInv, InData, InSend
  <2>5. DoneInv'
    <3>1. ~((InSend /\ m_upgrade_status = "EXEC_DATA") \/ pc = "success")
      BY <1>4 DEF TInv, HostInv
    <3>2. ASSUME InSend, m_upgrade_status = "END_DATA"
          PROVE  /\ ~missed' => stored' = Block
                 /\ burned' = stored'
      <4>1. m_sendBuf.cmd = "EXEC_DATA"
        BY <1>1, <1>9, <3>2 DEF BoardInv, FlightInv
      <4>2. stored' = stored /\ burned' = stored
        BY <1>8, <2>1, <4>1
      <4>3. ~missed => stored = Block
        BY <1>9, <3>2 DEF BoardInv, DoneInv
      <4> QED
        BY <1>1, <4>2, <4>3
    <3> QED
      BY <1>6, <3>1, <3>2 DEF DoneInv, InSend, Block, Bytes
  <2> QED
    BY <1>11, <2>2, <2>4, <2>5 DEF BoardInv
<1> QED
  BY <1>13, <1>14

\* The board forgets what it had, and the line is as it should be.
LEMMA ResumesBoard ==
    ASSUME TInv, Resumes
    PROVE  SyncInv' /\ BoardInv'
<1>1. /\ m_sendBuf.cmd = "START_DATA"
      /\ wire' = <<>> /\ Len(answers') = 1 /\ answers'[1].cmd = "ACK"
      /\ stored' = <<>> /\ responseStatus' = -1
      /\ UNCHANGED <<pc, m_upgrade_status, m_sendBuf, m_repeat_send_flag>>
  BY ResumesEffects DEF Rest, members, status
<1>2. pc = "sendWait"
  BY <1>1 DEF Resumes, InSync, Waiting, TInv, IInv, FreshInv, InHandshake
<1>3. m_upgrade_status \in {"GOT_VERSION", "CONNECTED"}
  BY <1>1, <1>2 DEF TInv, HostInv, IInv, TypeOK, Status, CursorInv, StageInv, InSend,
                    IsData, DataCmd
<1>4. SyncInv'
  BY <1>1 DEF SyncInv
<1>5. Ascends(stored)'
  BY <1>1 DEF Ascends
<1>6. KeptInv' /\ FlightInv' /\ StartInv' /\ DoneInv'
  BY <1>1, <1>2, <1>3 DEF KeptInv, FlightInv, StartInv, DoneInv, InData, InSend
<1> QED
  BY <1>4, <1>5, <1>6 DEF BoardInv

-------------------------------------------------------------------------------

LEMMA TransferInitInv == TransferInit => TInv
<1> SUFFICES ASSUME TransferInit PROVE TInv
  OBVIOUS
<1>1. IInv
  BY InitInv DEF TransferInit
<1>2. /\ pc = "idle" /\ wire = <<>> /\ answers = <<>> /\ m_sendBuf.cmd = "NONE"
      /\ stored = <<>> /\ burned = <<>> /\ missed = FALSE /\ stale = FALSE
  BY DEF TransferInit, Init, Control, Frame
<1>3. HostInv /\ IdleInv /\ PunctualInv /\ SyncInv
  BY <1>2 DEF HostInv, IdleInv, PunctualInv, SyncInv, Fits, IsData, DataCmd, InSend
<1>4. TypeInv
  <2>1. wire \in Seq(FrameSet) /\ Len(wire) = 0
    BY <1>2
  <2>2. \A i \in 1..Len(wire) : Fits(wire[i])
    <3>1. 1..Len(wire) = {}
      BY <2>1
    <3> QED
      BY <3>1
  <2>3. answers \in Seq(Sent)
    BY <1>2
  <2>4. stored \in Seq(0..NRdSize - 1) /\ burned \in Seq(0..NRdSize - 1)
    BY <1>2
  <2> QED
    BY <1>2, <2>1, <2>2, <2>3, <2>4 DEF TypeInv
<1>5. BoardInv
  BY <1>2 DEF BoardInv, Ascends, KeptInv, FlightInv, StartInv, DoneInv, InData, InSend, Around
<1> QED
  BY <1>1, <1>3, <1>4, <1>5 DEF TInv

\* Nothing is sent before the first call.
LEMMA IdleStep ==
    ASSUME TInv, TransferNext
    PROVE  IdleInv'
<1>1. ASSUME HostStep, Call \/ Host PROVE IdleInv'
  <2>1. pc' # "idle"
    BY <1>1 DEF Call, StartAgain, Host, Handshake, HandshakeAbort, HandshakeGiveUp, HandshakeSend,
                HandshakeRetry, HandshakeDone, Send, SendAbort, SendGiveUp, SendConnect,
                SendStartData, SendExec, SendControl, SendData, Transact, Complete, SendRetry,
                StateParseAck, StateParseNack, StateParseRestart
  <2> QED
    BY <2>1 DEF IdleInv
<1>2. ASSUME HostStep, AbortClicked PROVE IdleInv'
  BY <1>2, AbortEffects DEF TInv, IdleInv, line
<1>3. ASSUME Receive \/ NoAnswer PROVE IdleInv'
  <2>1. UNCHANGED <<wire, pc>>
    BY <1>3, ReceiveEffects, NoAnswerEffects DEF line, Rest
  <2> QED
    BY <2>1 DEF TInv, IdleInv
<1>4. ASSUME Line PROVE IdleInv'
  <2>1. pc' = pc /\ (wire # <<>> \/ wire' = wire)
    BY <1>4 DEF Line, BoardHandles, BoardRefuses, LoseFrame, LoseAnswer, vars
  <2> QED
    BY <2>1 DEF TInv, IdleInv
<1> QED
  BY <1>1, <1>2, <1>3, <1>4 DEF TransferNext, HostStep

LEMMA BoardStep ==
    ASSUME TInv, TransferNext, ~stale', ~Resumes
    PROVE  BoardInv'
<1>1. ASSUME HostStep PROVE BoardInv'
  <2>1. CASE AbortClicked
    BY <1>1, <2>1, AbortBoard
  <2>2. CASE Call \/ Handshake \/ SendAbort \/ SendGiveUp \/ StateParseRestart
    BY <1>1, <2>2, LeaveBoard
  <2>3. CASE SendConnect \/ SendStartData \/ SendExec
    BY <1>1, <2>3, SendControlBoard
  <2>4. CASE SendData
    BY <1>1, <2>4, SendDataBoard
  <2>5. CASE Complete
    BY <1>1, <2>5, CompleteBoard
  <2>6. CASE SendRetry
    BY <1>1, <2>6, SendRetryBoard
  <2>7. CASE StateParseAck
    BY <1>1, <2>7, AckBoard
  <2>8. CASE StateParseNack
    BY <1>1, <2>8, NackBoard
  <2>9. Call \/ Host \/ AbortClicked
    BY <1>1 DEF HostStep
  <2> QED
    BY <2>1, <2>2, <2>3, <2>4, <2>5, <2>6, <2>7, <2>8, <2>9 DEF Host, Send
<1>2. ASSUME Line PROVE BoardInv'
  BY <1>2, HandlesBoard, RefusesBoard, LoseBoard DEF Line
<1> QED
  BY <1>1, <1>2, ReceiveBoard, NoAnswerBoard DEF TransferNext

LEMMA TransferNextInv ==
    ASSUME TInv, [TransferNext]_transfer
    PROVE  TInv'
<1>1. CASE TransferNext
  <2>1. [Next]_vars
    BY <1>1, StepIsNext DEF TInv, TypeInv
  <2>2. IInv'
    BY <2>1, NextInv DEF TInv
  <2>3. HostInv'
    <3>1. CASE Next
      BY <3>1, HostInvNext DEF TInv
    <3>2. CASE UNCHANGED vars
      <4>1. UNCHANGED <<pc, m_upgrade_status, m_sendBuf, responseStatus, m_repeat_send_flag>>
        BY <3>2 DEF vars, status, answer, members
      <4> QED
        BY <4>1 DEF TInv, HostInv, Fits, InSend
    <3> QED
      BY <2>1, <3>1, <3>2
  <2>4. ~stale' => SyncInv' /\ BoardInv'
    BY <1>1, SyncStep, BoardStep, ResumesBoard
  <2> QED
    BY <1>1, <2>2, <2>3, <2>4, TypeStep, IdleStep, PunctualStep DEF TInv
<1>2. CASE UNCHANGED transfer
  <2>1. UNCHANGED vars /\ UNCHANGED <<line, board, missed, stale>>
    BY <1>2 DEF transfer
  <2>2. IInv'
    BY <2>1, NextInv DEF TInv
  <2>3. UNCHANGED <<pc, m_repeat_send_flag, m_upgrade_status, responseStatus, serialBuff,
                    m_sendBuf, wire, answers>>
    BY <2>1 DEF vars, answer, members, status, line
  <2>4. timeoutStatus' = timeoutStatus
    BY <2>1 DEF vars, answer
  <2>5. Waiting' <=> Waiting
    BY <2>3, <2>4, Zenon DEF Waiting
  <2>6. HostInv' /\ IdleInv' /\ PunctualInv'
    BY <2>1, <2>3, <2>5 DEF TInv, HostInv, Fits, InSend, IdleInv, PunctualInv
  <2>7. TypeInv'
    BY <2>1, <2>3 DEF TInv, TypeInv, board, Fits
  <2>8. UNCHANGED <<board, missed, Rest>>
    BY <2>1 DEF vars, Rest
  <2>9. (Around("ACK")' => Around("ACK")) /\ (Nacked' => Nacked)
    BY <2>3 DEF Around, Nacked
  <2>10. ~stale' => SyncInv' /\ BoardInv'
    BY <2>1, <2>3, <2>8, <2>9, Fades DEF TInv, SyncInv
  <2> QED
    BY <2>2, <2>6, <2>7, <2>10 DEF TInv
<1> QED
  BY <1>1, <1>2

-------------------------------------------------------------------------------

\* The invariant holds of every behaviour, whatever the line does.
THEOREM TransferInvariance == TransferSpec => []TInv
<1>1. TransferInit => TInv
  BY TransferInitInv
<1>2. TInv /\ [TransferNext]_transfer => TInv'
  BY TransferNextInv
<1> QED
  BY <1>1, <1>2, PTL DEF TransferSpec

\* Host, line and board never leave their types.
THEOREM TransferTypeCorrect == TransferSpec => []TransferTypeOK
<1>1. TInv => TransferTypeOK
  BY DEF TInv, IInv, TypeInv, FrameSet, TransferTypeOK
<1> QED
  BY <1>1, TransferInvariance, PTL

\* The board keeps no byte twice and none out of order, through every NACK,
\* lost frame, abort and restart of the call, unless a late answer has been left
\* behind, and again from the next START_DATA that finds the line empty.
THEOREM StoredInOrderHolds == TransferSpec => []StoredInOrder
<1>1. TInv => StoredInOrder
  BY DEF TInv, BoardInv, Ascends, StoredInOrder
<1> QED
  BY <1>1, TransferInvariance, PTL

\* When every data frame got its answer, and none got another frame's, success means
\* the board has burned the block, all of it and nothing else.
THEOREM SuccessIfAllAnsweredHolds == TransferSpec => []SuccessIfAllAnswered
<1>1. TInv => SuccessIfAllAnswered
  BY DEF TInv, BoardInv, DoneInv, SuccessIfAllAnswered
<1> QED
  BY <1>1, TransferInvariance, PTL

\* Only a late answer is ever left behind: losses and damage alone never make the
\* host send over a frame or an answer that is still on its way.
THEOREM NeverStaleHolds ==
    ASSUME "late" \notin Faults
    PROVE  TransferSpec => []~stale
<1>1. TInv => ~stale
  BY DEF TInv, PunctualInv
<1> QED
  BY <1>1, TransferInvariance, PTL

-------------------------------------------------------------------------------
(* The call keeps the promise of BlockTransfer. *)

\* A step of the host that sends nothing marks the history only where it gives up a frame.
LEMMA ExcusesStay ==
    ASSUME TInv, HostStep, Call \/ Host, ~Sends, ~SendRetry, pc' # "handshake"
    PROVE  missed' = missed /\ stale' = stale
<1>1. missed \in BOOLEAN
  BY DEF TInv, TypeInv
<1>2. missed' = IF pc' = "handshake" /\ pc # "handshakeWait" THEN FALSE ELSE missed \/ GivesUp
  BY Zenon DEF HostStep
<1>3. missed' = (missed \/ GivesUp)
  BY <1>2, Zenon
<1>4. ~GivesUp
  BY Zenon DEF GivesUp
<1>5. missed' = missed
  BY <1>1, <1>3, <1>4, Zenon
<1>6. stale' = stale
  BY HostLine
<1> QED
  BY <1>5, <1>6

LEMMA HostKeepsPromise ==
    ASSUME TInv, HostStep, Call \/ Host
    PROVE  Promise!Next \/ UNCHANGED Promise!vars
<1>1. /\ burned' = IF pc \in Returned /\ pc' \notin Returned THEN <<>> ELSE burned
      /\ missed \in BOOLEAN /\ missed' \in BOOLEAN /\ stale \in BOOLEAN /\ stale' \in BOOLEAN
  BY HostEffects, HostLine DEF TInv, TypeInv
<1>2. CASE Call
  <2>1. pc \in Returned /\ pc' = "handshake"
    BY <1>2 DEF Call, StartAgain
  <2>2. call # "running" /\ call' = "running"
    BY <2>1 DEF call, Returned
  <2>3. burned' = <<>>
    BY <1>1, <2>1 DEF Returned
  <2>4. (burned' = Block) = FALSE
    BY <2>3, BlockHolds
  <2>5. missed' = FALSE
    BY <2>1, Zenon DEF HostStep, Returned
  <2>6. stale' = stale
    BY <2>1, HostLine DEF Sends
  <2>7. (missed' \/ stale') \in {FALSE, missed \/ stale}
    BY <1>1, <2>5, <2>6
  <2>8. Promise!Begin
    BY <2>2, <2>4, <2>7 DEF Promise!Begin, Block, Bytes
  <2> QED
    BY <2>8 DEF Promise!Next
<1>3. CASE HandshakeAbort \/ HandshakeGiveUp \/ SendAbort \/ SendGiveUp
  <2>1. pc \in {"handshake", "send"} /\ pc' \in {"aborted", "noBoard", "gaveUp"}
    BY <1>3 DEF HandshakeAbort, HandshakeGiveUp, SendAbort, SendGiveUp
  <2>2. call = "running" /\ call' = "failure"
    BY <2>1 DEF call
  <2>3. burned' = burned
    BY <1>1, <2>1 DEF Returned
  <2>4. ~SendRetry /\ pc' # "handshake" /\ ~Sends
    BY <2>1 DEF SendRetry, Sends
  <2>5. missed' = missed /\ stale' = stale
    BY <2>4, ExcusesStay
  <2>6. Promise!Fail
    BY <2>2, <2>3, <2>5 DEF Promise!Fail, Block, Bytes
  <2> QED
    BY <2>6 DEF Promise!Next
<1>4. CASE Complete
  <2>1. pc = "send" /\ pc' = "success" /\ loop_state = "EXEC_DATA"
    BY <1>4 DEF Complete, Round
  <2>2. call = "running" /\ call' = "success"
    BY <2>1 DEF call
  <2>3. burned' = burned
    BY <1>1, <2>1 DEF Returned
  <2>4. ~SendRetry /\ pc' # "handshake" /\ ~Sends
    BY <2>1 DEF SendRetry, Sends
  <2>5. missed' = missed /\ stale' = stale
    BY <2>4, ExcusesStay
  <2>6. burned = Block \/ (missed \/ stale)
    BY <2>1 DEF TInv, IInv, CursorInv, InSend, BoardInv, DoneInv
  <2>7. Promise!Succeed
    BY <2>2, <2>3, <2>5, <2>6 DEF Promise!Succeed, Block, Bytes
  <2> QED
    BY <2>7 DEF Promise!Next
\* Every other step stays inside the call and may only mark the history.
<1>5. CASE \/ HandshakeSend \/ HandshakeRetry \/ HandshakeDone
           \/ SendConnect \/ SendStartData \/ SendData \/ SendExec
           \/ SendRetry \/ StateParseAck \/ StateParseNack \/ StateParseRestart
  <2>1. /\ pc \in {"handshake", "handshakeWait", "send", "sendWait"}
        /\ pc' \in {"handshake", "handshakeWait", "send", "sendWait"}
    BY <1>5 DEF HandshakeSend, HandshakeRetry, HandshakeDone, SendConnect, SendStartData,
                SendExec, SendControl, SendData, Round, Transact, SendRetry, StateParseAck,
                StateParseNack, StateParseRestart, StartAgain
  <2>2. call = "running" /\ call' = "running"
    BY <2>1 DEF call
  <2>3. burned' = burned
    BY <1>1, <2>1 DEF Returned
  <2>4. Promise!Excuse
    BY <1>1, <2>2, <2>3 DEF Promise!Excuse, Block, Bytes
  <2> QED
    BY <2>4 DEF Promise!Next
<1> QED
  BY <1>2, <1>3, <1>4, <1>5 DEF Host, Handshake, Send

\* The board burns the block, or something else with an excuse; with START_DATA the
\* excuse of a late answer is over.
LEMMA BoardKeepsPromise ==
    ASSUME TInv, BoardHandles
    PROVE  Promise!Next \/ UNCHANGED Promise!vars
<1>1. /\ wire # <<>> /\ UNCHANGED vars /\ missed' = missed
      /\ burned' = IF Head(wire).cmd = "EXEC_DATA" THEN stored ELSE burned
      /\ stale' = IF Head(wire).cmd = "START_DATA" /\ InSync THEN FALSE ELSE stale
  BY HandlesEffects
<1>2. missed \in BOOLEAN /\ stale \in BOOLEAN
  BY DEF TInv, TypeInv
<1>3. call' = call
  BY <1>1 DEF vars, call
<1>4. CASE Resumes
  <2>1. call = "running"
    BY <1>4 DEF Resumes, InSync, Waiting, call
  <2>2. burned' = burned
    BY <1>1, <1>4 DEF Resumes
  <2>3. (missed' \/ stale') \in BOOLEAN
    OBVIOUS
  <2>4. Promise!Excuse
    BY <1>3, <2>1, <2>2, <2>3 DEF Promise!Excuse, Block, Bytes
  <2> QED
    BY <2>4 DEF Promise!Next
<1>5. CASE ~Resumes
  <2>1. (missed' \/ stale') = (missed \/ stale)
    BY <1>1, <1>5 DEF Resumes
  <2>2. CASE Head(wire).cmd = "EXEC_DATA"
    <3>1. burned' = stored
      BY <1>1, <2>2
    <3>2. call # "none"
      BY <1>1 DEF TInv, IdleInv, call
    <3>3. CASE stored = Block \/ missed \/ stale
      <4>1. Promise!Burn
        BY <1>3, <2>1, <3>1, <3>2, <3>3 DEF Promise!Burn, Block, Bytes
      <4> QED
        BY <4>1 DEF Promise!Next
    <3>4. CASE stored # Block /\ ~missed /\ ~stale
      <4>1. wire = <<m_sendBuf>>
        BY <1>1, <3>4 DEF TInv, SyncInv
      <4>2. m_sendBuf.cmd = "EXEC_DATA"
        BY <1>1, <2>2, <4>1, FrontOfLine DEF TInv
      <4>3. burned = <<>>
        BY <1>1, <3>4, <4>2 DEF TInv, BoardInv, FlightInv
      <4>4. (burned = Block) = FALSE /\ (burned' = Block) = FALSE
        BY <3>1, <3>4, <4>3, BlockHolds
      <4> QED
        BY <1>3, <2>1, <4>4 DEF Promise!vars, Block, Bytes
    <3> QED
      BY <3>3, <3>4
  <2>3. CASE Head(wire).cmd # "EXEC_DATA"
    <3>1. burned' = burned
      BY <1>1, <2>3
    <3> QED
      BY <1>3, <2>1, <3>1 DEF Promise!vars, Block, Bytes
  <2> QED
    BY <2>2, <2>3
<1> QED
  BY <1>4, <1>5

LEMMA StepKeepsPromise ==
    ASSUME TInv, [TransferNext]_transfer
    PROVE  Promise!Next \/ UNCHANGED Promise!vars
<1> DEFINE Apart == Receive \/ NoAnswer \/ BoardRefuses \/ LoseFrame \/ LoseAnswer
<1>1. ASSUME UNCHANGED <<pc, burned, missed, stale>> PROVE UNCHANGED Promise!vars
  BY <1>1 DEF Promise!vars, call, Block, Bytes
<1>2. CASE UNCHANGED transfer
  BY <1>1, <1>2 DEF transfer, board, vars
<1>3. CASE HostStep
  <2>1. CASE Call \/ Host
    BY <1>3, <2>1, HostKeepsPromise
  <2>2. CASE AbortClicked
    BY <1>1, <1>3, <2>2, AbortEffects DEF board, TInv
  <2> QED
    BY <1>3, <2>1, <2>2 DEF HostStep
<1>4. CASE BoardHandles
  BY <1>4, BoardKeepsPromise
<1>5. CASE Apart
  <2>1. UNCHANGED <<pc, burned, missed, stale>>
    <3>1. CASE Receive \/ NoAnswer
      BY <3>1 DEF Receive, NoAnswer, showResponse, processTimeout, processError, board
    <3>2. CASE BoardRefuses \/ LoseFrame \/ LoseAnswer
      BY <3>2 DEF BoardRefuses, LoseFrame, LoseAnswer, board, vars
    <3> QED
      BY <1>5, <3>1, <3>2
  <2> QED
    BY <1>1, <2>1
<1> QED
  BY <1>2, <1>3, <1>4, <1>5 DEF TransferNext, Line

\* The call as its caller sees it is BlockTransfer: it ends once, and reports success
\* only of a block the board has burned, but for frames given up and answers left behind.
THEOREM ImplementsBlockTransferHolds == TransferSpec => ImplementsBlockTransfer
<1>1. TransferInit => Promise!Init
  <2> SUFFICES ASSUME TransferInit PROVE Promise!Init
    OBVIOUS
  <2>1. pc = "idle" /\ burned = <<>> /\ missed = FALSE /\ stale = FALSE
    BY DEF TransferInit, Init
  <2>2. (burned = Block) = FALSE
    BY <2>1, BlockHolds
  <2> QED
    BY <2>1, <2>2 DEF Promise!Init, call
<1>2. TInv /\ [TransferNext]_transfer => [Promise!Next]_(Promise!vars)
  BY StepKeepsPromise
<1> QED
  BY <1>1, <1>2, TransferInvariance, PTL DEF TransferSpec, ImplementsBlockTransfer, Promise!Spec

===============================================================================
