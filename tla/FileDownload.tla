----------------------------- MODULE FileDownload -----------------------------
(***************************************************************************)
(* What downLoadFlashFile promises the partition sequences that call it:   *)
(* true means that the file is in its place; false, or an abort, may leave *)
(* the place torn or even complete, but never touches another; a call made *)
(* after an abort writes nothing, and one told to stop writes at most the  *)
(* block in progress.  SystemBurn and UpgradeTool take a download for this.*)
(***************************************************************************)
VARIABLES
    call,    \* "none", "running", "true" or "false"
    place,   \* the file's place since the call began: "old", "torn" or "file"
    told,    \* flag_abort
    over     \* nothing more is written

vars == <<call, place, told, over>>

Init == call = "none" /\ place = "old" /\ told = FALSE /\ over = TRUE

Begin ==
    /\ call # "running"
    /\ call' = "running"
    /\ place' = "old"
    /\ told' \in {told, FALSE}
    /\ over' \in {TRUE, told'}

\* A block is written, or a part of it, or nothing.
Write ==
    /\ call = "running"
    /\ ~over
    /\ place' \in {place, "torn", "file"}
    /\ over' \in {TRUE, told}
    /\ UNCHANGED <<call, told>>

Abort ==
    /\ ~told
    /\ told' = TRUE
    /\ UNCHANGED <<call, place, over>>

Succeed ==
    /\ call = "running"
    /\ place = "file"
    /\ call' = "true"
    /\ over' = TRUE
    /\ UNCHANGED <<place, told>>

Fail ==
    /\ call = "running"
    /\ call' = "false"
    /\ over' = TRUE
    /\ UNCHANGED <<place, told>>

Next == Begin \/ Write \/ Abort \/ Succeed \/ Fail
Spec == Init /\ [][Next]_vars
===============================================================================
