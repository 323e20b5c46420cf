----------------------------- MODULE BlockTransfer -----------------------------
(***************************************************************************)
(* What the upgrade of one block promises its caller: the call ends once,  *)
(* and when it reports success the board has burned the block, all of it   *)
(* and nothing else, since the call began.  The excuses are a data frame   *)
(* that got no answer, and an answer that came too late to tell which      *)
(* frame it answers.                                                       *)
(***************************************************************************)
VARIABLES
    call,     \* "none", "running", "success" or "failure"
    burned,   \* the whole block is in the flash since the call began
    excused   \* an answer to a frame of this attempt is missing, or may be another frame's

vars == <<call, burned, excused>>

Init == call = "none" /\ burned = FALSE /\ excused = FALSE

Begin ==
    /\ call # "running"
    /\ call' = "running"
    /\ burned' = FALSE
    /\ excused' \in {FALSE, excused}

\* The board burns something: the block, or whatever a faulty attempt left it.
Burn ==
    /\ call # "none"
    /\ burned' \in BOOLEAN
    /\ ~burned' => excused
    /\ UNCHANGED <<call, excused>>

Excuse ==
    /\ call = "running"
    /\ excused' \in BOOLEAN
    /\ UNCHANGED <<call, burned>>

Succeed ==
    /\ call = "running"
    /\ burned \/ excused
    /\ call' = "success"
    /\ UNCHANGED <<burned, excused>>

Fail ==
    /\ call = "running"
    /\ call' = "failure"
    /\ UNCHANGED <<burned, excused>>

Next == Begin \/ Burn \/ Excuse \/ Succeed \/ Fail
Spec == Init /\ [][Next]_vars
===============================================================================
