--------------------------- MODULE MCUpgradeProcess ---------------------------
(* Small instances of UpgradeProcess: the answers the port may deliver. *)
EXTENDS UpgradeProcess

Answered(size, cmd, err, crc) ==
    [size |-> size, declares |-> size, cmd |-> cmd, err |-> err, crc |-> crc]

Version == Answered(VERSION_LEN, "VERSION", "PLAIN", TRUE)
Ack     == Answered(FRAME_LEN, "ACK", "PLAIN", TRUE)

\* A board and a line that do everything right.
GoodReplies == {Version, Ack}

\* Every kind of answer the tool tells apart.
AllReplies == GoodReplies \cup
    { Answered(VERSION_LEN, "VERSION", "PLAIN", FALSE),
      Answered(FRAME_LEN, "ACK", "PLAIN", FALSE),
      Answered(FRAME_LEN, "NACK", "PLAIN", TRUE),
      Answered(FRAME_LEN, "NACK", "RESET", TRUE),
      Answered(FRAME_LEN, "ERR", "PLAIN", TRUE),
      Answered(4, "ACK", "PLAIN", TRUE),                        \* too short
      [Ack EXCEPT !.size = 2 * FRAME_LEN],                      \* two answers read as one
      [Ack EXCEPT !.size = VERSION_LEN, !.declares = 0] }       \* noise

===============================================================================
