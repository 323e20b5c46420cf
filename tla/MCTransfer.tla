------------------------------ MODULE MCTransfer ------------------------------
(* Small instances of Transfer. *)
EXTENDS Transfer

Nacks   == {Good(FRAME_LEN, "NACK"), [Good(FRAME_LEN, "NACK") EXCEPT !.err = "RESET"]}
AllSent == {Good(VERSION_LEN, "VERSION"), Good(FRAME_LEN, "ACK")} \cup Nacks

===============================================================================
