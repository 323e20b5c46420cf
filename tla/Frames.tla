-------------------------------- MODULE Frames --------------------------------
(***************************************************************************)
(* The serial frames of the upgrade protocol and how the tool reads them   *)
(* (hg_upgradefunc.h, HG_UpgradeFunc::parse_frame and parse_version).      *)
(*                                                                         *)
(* A frame is 0x7E, error number, command, two length bytes, payload, four *)
(* CRC bytes, 0x7E: ten bytes around the payload.  Of a byte array read    *)
(* from the port the model keeps what the parser can tell apart:           *)
(*                                                                         *)
(*   size      how many bytes were read;                                   *)
(*   declares  the whole frame's length according to its header, when the  *)
(*             first byte and the byte at that length are both 0x7E, and 0 *)
(*             when they are not;                                          *)
(*   cmd, err  the command and the error number of the header;             *)
(*   crc       whether the four CRC bytes match the bytes before them.     *)
(***************************************************************************)
EXTENDS Naturals

FRAME_LEN   == 10   \* a frame without payload: PACKAGE_HEADER_LEN + PACKAGE_TAIL_LEN
VERSION_LEN == 64   \* the version answer

\* Commands of UPGRADE_CMD_TYPE_E the tool distinguishes in an answer.  OTHER
\* stands for the ones it never expects there; INVALID is above CMD_TYPE_E_ERR.
Cmd == {"ACK", "NACK", "VERSION", "ERR", "OTHER", "INVALID"}

\* Error numbers of NACK_TYPE: state_parse tells NACK_RESET from all the others.
ErrNo == {"RESET", "PLAIN"}

Reply == [size : Nat, declares : Nat, cmd : Cmd, err : ErrNo, crc : BOOLEAN]

\* What serialBuff holds after clear().
NoReply == [size |-> 0, declares |-> 0, cmd |-> "INVALID", err |-> "PLAIN", crc |-> FALSE]

-------------------------------------------------------------------------------

\* What parse_frame leaves in *ret on success, and any non-zero PARSE_RESULT_E.
Ret      == [cmd : Cmd, err : ErrNo]
Rejected == [cmd |-> "REJECTED", err |-> "PLAIN"]
RetFFFF  == [cmd |-> "INVALID", err |-> "PLAIN"]   \* *ret is still 0xFFFF

(* The results of parse_frame(buff, len) for the bytes r.  With a wrong CRC    *)
(* control reaches the end of a non-void function without a return: an         *)
(* optimising build takes the only returning path and accepts the frame, a     *)
(* debug build returns what the register holds, zero (PARSE_RESULT_E_OK, with  *)
(* *ret untouched) or not.                                                     *)
parse_frame(r, len) ==
    IF r.declares # len \/ r.cmd = "INVALID"
      THEN {Rejected}
      ELSE IF r.crc THEN {[cmd |-> r.cmd, err |-> r.err]}
                    ELSE {[cmd |-> r.cmd, err |-> r.err], RetFFFF, Rejected}

\* The results of parse_version(buff, len).
parse_version(r, len) ==
    {ret.cmd = "VERSION" : ret \in parse_frame(r, len)}

===============================================================================
