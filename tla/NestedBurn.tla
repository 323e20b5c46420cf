------------------------------ MODULE NestedBurn ------------------------------
(***************************************************************************)
(* UpgradeProcess called inside itself: while the burn of one panel waits  *)
(* in hg_msleep for an answer, the event loop handles a click on the other *)
(* panel's Start, and that burn's calls run to their ends before the wait  *)
(* goes on.  A call has locals of its own; the members of HG_UpgradeFunc   *)
(* are the same for both.  The two blocks have the same size here.         *)
(***************************************************************************)
EXTENDS UpgradeProcess, Sequences

VARIABLE outer   \* locals of the call that waits below the running one, <<>> if none

Locals == [pc |-> pc, tryCount |-> tryCount, loop_state |-> loop_state,
           buff_r |-> buff_r, left_size |-> left_size, last_dlen |-> last_dlen]

\* Start clears flag_abort.  The two panels allow one burn inside another, no more.
NestedCall ==
    /\ pc \in {"handshakeWait", "sendWait"}
    /\ outer = <<>>
    /\ outer' = <<Locals>>
    /\ flag_abort' = FALSE
    /\ tryCount' = 0 /\ last_dlen' = 0 /\ loop_state' = "START"
    /\ StartAgain
    /\ UNCHANGED <<m_sendBuf, answer>>

\* The burn inside is over: its handler returns to the wait it interrupted, which finds
\* m_upgrade_status, the flags, the counts and the answer as the inner calls left them.
Resume ==
    /\ outer # <<>>
    /\ pc \in Returned
    /\ outer' = <<>>
    /\ LET call == outer[1]
       IN  /\ pc' = call.pc
           /\ tryCount' = call.tryCount
           /\ loop_state' = call.loop_state
           /\ buff_r' = call.buff_r
           /\ left_size' = call.left_size
           /\ last_dlen' = call.last_dlen
    /\ UNCHANGED <<flag_abort, members, m_upgrade_status, m_sendBuf, answer>>

NestedInit == Init /\ outer = <<>>

NestedNext == (Next /\ UNCHANGED outer) \/ NestedCall \/ Resume

NestedSpec == NestedInit /\ [][NestedNext]_<<vars, outer>>

-------------------------------------------------------------------------------

\* upgrade_tool.cpp:295, "Flash file burn OK.", shown when every call has returned true:
\* a call that returns true has sent its block to the last byte.
SuccessMeansSent == pc = "success" => left_size = 0

===============================================================================
