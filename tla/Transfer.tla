------------------------------- MODULE Transfer -------------------------------
(***************************************************************************)
(* UpgradeProcess with the board at the other end of the line.  The boot   *)
(* rom is not part of the source: it is modelled from how UpgradeProcess   *)
(* uses it.  It answers every intact frame, keeps the data of the frames   *)
(* after START_DATA in the order they come, refuses a damaged frame with a *)
(* NACK, and on EXEC_DATA burns what it keeps.                             *)
(*                                                                         *)
(* Faults of the line: "corrupt" (a frame arrives damaged), "lost" (a      *)
(* frame or an answer does not arrive) and "late" (a frame is handled, or  *)
(* an answer comes, after the host's timeout).  Frames and answers come in *)
(* the order they were sent; nothing in them says which answer belongs to  *)
(* which frame.                                                            *)
(***************************************************************************)
EXTENDS UpgradeProcess, Sequences

CONSTANTS
    Faults,     \* the faults of the line
    Refusals,   \* the board's answers to a damaged frame
    MaxLate,    \* bound: frames and answers the host may overtake
    MaxStored   \* bound: bytes the board keeps

ASSUME FaultsAssumption == Faults \subseteq {"corrupt", "lost", "late"}
ASSUME LateAssumption == MaxLate \in Nat
ASSUME StoredAssumption == MaxStored \in Nat /\ MaxStored >= NRdSize

VARIABLES
    wire,       \* frames on their way to the board
    answers,    \* answers on their way to the host
    stored,     \* the offsets of the bytes the board keeps, in order
    burned,     \* what it burned last, since the call began
    missed,     \* history: a data frame of this attempt was given up
    stale       \* history: the host has sent a frame while an earlier one or its answer was
                \* on its way, and START_DATA has not found the line empty since

board    == <<stored, burned>>
line     == <<wire, answers>>
transfer == <<vars, line, board, missed, stale>>

\* The bytes of a data frame, and of the whole block.
Bytes(from, len) == [i \in 1..len |-> from + i - 1]
Block == Bytes(0, NRdSize)

Good(size, cmd) ==
    [size |-> size, declares |-> size, cmd |-> cmd, err |-> "PLAIN", crc |-> TRUE]

\* What the board may send.
Sent == {Good(VERSION_LEN, "VERSION"), Good(FRAME_LEN, "ACK")} \cup Refusals

ASSUME SentAssumption == Sent \subseteq Replies
ASSUME RefusalsAssumption == \A reply \in Refusals : reply.cmd = "NACK"

TransferTypeOK ==
    /\ TypeOK
    /\ wire \in Seq([cmd : FrameCmd, from : Nat, len : Nat])
    /\ answers \in Seq(Sent)
    /\ stored \in Seq(0..NRdSize - 1) /\ burned \in Seq(0..NRdSize - 1)
    /\ missed \in BOOLEAN /\ stale \in BOOLEAN

-------------------------------------------------------------------------------
(* The host. *)

Sends == pc' \in {"handshakeWait", "sendWait"} /\ pc \notin {"handshakeWait", "sendWait"}

\* A data frame given up: the wait for its answer ends with continue.
GivesUp == SendRetry /\ IsData(m_sendBuf)

serial_clear_Bug(arrived) == answers' = answers   \* it is not called

\* serial.clear() discards what has arrived, and nothing that is yet to come.
serial_clear(arrived) == answers' = SubSeq(answers, arrived + 1, Len(answers))

\* The worker clears the port and writes the frame.  What it overtakes, frames the
\* board has not handled and answers that have not arrived, is left on the line.
Transmit ==
    /\ wire' = Append(wire, m_sendBuf')
    /\ \E arrived \in 0..Len(answers) :
          /\ arrived < Len(answers) => "late" \in Faults
          /\ Len(wire) + Len(answers) - arrived <= MaxLate
          /\ serial_clear(arrived)
          /\ stale' = (stale \/ wire # <<>> \/ arrived < Len(answers))

\* A step of UpgradeProcess.
HostStep ==
    /\ Call \/ Host \/ AbortClicked
    /\ IF Sends THEN Transmit ELSE UNCHANGED <<line, stale>>
    /\ burned' = IF pc \in Returned /\ pc' \notin Returned THEN <<>> ELSE burned
    /\ missed' = IF pc' = "handshake" /\ pc # "handshakeWait" THEN FALSE
                 ELSE missed \/ GivesUp
    /\ UNCHANGED stored

\* The port reads what has come; of two answers in a row the first is parsed.
Receive ==
    /\ answers # <<>>
    /\ showResponse(Head(answers))
    /\ answers' \in {<<>>, Tail(answers)}
    /\ UNCHANGED <<wire, board, missed, stale>>

\* The worker gives up waiting, or the port fails: nothing will come, or too late.
NoAnswer ==
    /\ (wire = <<>> /\ answers = <<>>) \/ "late" \in Faults
    /\ processTimeout \/ processError
    /\ UNCHANGED <<line, board, missed, stale>>

-------------------------------------------------------------------------------
(* The board and the line. *)

Answers(reply) == answers' = Append(answers, reply)

\* Nothing is on its way but the frame whose answer the host waits for.
InSync == wire = <<m_sendBuf>> /\ answers = <<>> /\ Waiting

\* An intact frame.
BoardHandles ==
    /\ wire # <<>>
    /\ LET frame == Head(wire)
       IN  /\ Answers(IF frame.cmd = "HANDSHAKE" THEN Good(VERSION_LEN, "VERSION")
                                                 ELSE Good(FRAME_LEN, "ACK"))
           /\ stored' = CASE frame.cmd = "START_DATA" -> <<>>
                          [] IsData(frame)            -> stored \o Bytes(frame.from, frame.len)
                          [] OTHER                    -> stored
           /\ burned' = IF frame.cmd = "EXEC_DATA" THEN stored ELSE burned
           /\ stale'  = IF frame.cmd = "START_DATA" /\ InSync THEN FALSE ELSE stale
    /\ Len(stored') <= MaxStored
    /\ wire' = Tail(wire)
    /\ UNCHANGED <<vars, missed>>

\* A damaged frame.  The single byte of a handshake has nothing to check.
BoardRefuses ==
    /\ "corrupt" \in Faults
    /\ wire # <<>> /\ Head(wire).cmd # "HANDSHAKE"
    /\ wire' = Tail(wire)
    /\ \E reply \in Refusals : Answers(reply)
    /\ UNCHANGED <<vars, board, missed, stale>>

LoseFrame ==
    /\ "lost" \in Faults
    /\ wire # <<>>
    /\ wire' = Tail(wire)
    /\ UNCHANGED <<vars, answers, board, missed, stale>>

LoseAnswer ==
    /\ "lost" \in Faults
    /\ answers # <<>>
    /\ answers' = Tail(answers)
    /\ UNCHANGED <<vars, wire, board, missed, stale>>

-------------------------------------------------------------------------------

TransferInit ==
    /\ Init
    /\ wire = <<>> /\ answers = <<>>
    /\ stored = <<>> /\ burned = <<>>
    /\ missed = FALSE /\ stale = FALSE

Line == BoardHandles \/ BoardRefuses \/ LoseFrame \/ LoseAnswer

TransferNext == HostStep \/ Receive \/ NoAnswer \/ Line

TransferSpec == TransferInit /\ [][TransferNext]_transfer

-------------------------------------------------------------------------------
(* Properties. *)

\* The board keeps no byte twice and none out of order: NACKs are the only cause
\* of a repeated frame, and a refused frame was not kept.  A late answer does no harm
\* when it has arrived by the next write, which serial.clear() precedes; one that comes
\* after that is taken for the answer to the next frame, and with it all is lost until
\* START_DATA finds the line empty again.
StoredInOrder == ~stale => \A i, j \in 1..Len(stored) : i < j => stored[i] < stored[j]

\* With every data frame answered, and no answer taken for that to another frame,
\* success means the board burned the block.
SuccessIfAllAnswered == pc = "success" /\ ~missed /\ ~stale => burned = Block

\* The call keeps the promise of BlockTransfer: the board may still burn after the
\* call has returned, but never anything but the block without an excuse.
call == CASE pc = "idle"    -> "none"
          [] pc = "success" -> "success"
          [] pc \in {"aborted", "noBoard", "gaveUp"} -> "failure"
          [] OTHER          -> "running"

Promise == INSTANCE BlockTransfer
             WITH burned <- (burned = Block), excused <- (missed \/ stale)
ImplementsBlockTransfer == Promise!Spec

\* hg_upgradefunc.cpp:252: "Down Load Program File Success".
SuccessMeansBurned == pc = "success" => burned = Block

===============================================================================
