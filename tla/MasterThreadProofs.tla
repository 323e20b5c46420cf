-------------------------- MODULE MasterThreadProofs --------------------------
(***************************************************************************)
(* Proofs about MasterThread, for any set of ports and any nesting of      *)
(* burns.  The argument is one sentence: outside an outstanding request    *)
(* the worker is at a place from which it emits nothing.                   *)
(***************************************************************************)
EXTENDS MasterThread, TLAPS

\* No request is outstanding, or its answer is already in the queue.
NoneDue == caller # "wait" \/ answered \/ posted = 1

\* run() will emit nothing before it is handed a request.
Quiet == \/ worker \in {"none", "lock", "locked", "sleep", "close", "ending"}
         \/ m_quit /\ worker \in {"woken", "wokenLocked", "loop"}

HandoverInv ==
    /\ posted <= 1
    /\ posted = 1 => caller = "wait" /\ ~answered
    /\ caller = "locking" => ~answered
    /\ NoneDue => Quiet

BurnInv == burns = IF caller = "idle" THEN 0 ELSE 1

\* The states of run() after the port name was copied and checked.
Named == {"loop", "open", "io", "lock", "locked", "sleep", "woken", "wokenLocked", "close"}

\* After Close there is no worker, and no burn that could start one.
ClosedInv ==
    ~serialStatusFlag => /\ worker = "none" /\ caller # "locking"
                         /\ caller = "idle" \/ flag_abort

PortInv ==
    /\ worker # "none" => m_portName = portName
    /\ worker \in Named => currentPortName = portName /\ portName # NoPort
    /\ serialOpen => worker \in Named
    /\ worker = "loop" => serialOpen \/ currentPortNameChanged
    /\ worker \in {"io", "lock", "locked", "sleep", "woken", "wokenLocked"} => serialOpen

IInv == /\ TypeOK /\ ClosedInv /\ PortInv
        /\ closing # "no" => caller \in {"idle", "wait"}
        /\ closing = "terminate" => m_quit
        /\ caller # "idle" => burns > 0
        /\ LeakNeedsCloseOrNoPort
        /\ overlapped \/ (BurnInv /\ HandoverInv)

-------------------------------------------------------------------------------

USE BurnsAssumption, NamesAssumption
USE DEF gui, buttons, signals, thread, request, port

LEMMA InitInv == Init => IInv
<1> SUFFICES ASSUME Init PROVE IInv
  OBVIOUS
<1>1. TypeOK
  <2>1. /\ overlapped \in BOOLEAN /\ flag_abort \in BOOLEAN /\ serialStatusFlag \in BOOLEAN
        /\ answered \in BOOLEAN /\ m_quit \in BOOLEAN /\ serialOpen \in BOOLEAN
        /\ currentPortNameChanged \in BOOLEAN
    BY DEF Init
  <2> QED
    BY <2>1 DEF Init, TypeOK, Names, WorkerPC
<1>2. BurnInv /\ HandoverInv
  BY DEF Init, BurnInv, HandoverInv, NoneDue, Quiet
<1> QED
  BY <1>1, <1>2 DEF Init, IInv, ClosedInv, PortInv, Named, LeakNeedsCloseOrNoPort

LEMMA NextType == IInv /\ [Next]_vars => TypeOK'
<1> SUFFICES ASSUME IInv, [Next]_vars PROVE TypeOK'
  OBVIOUS
<1> USE DEF IInv, TypeOK, PortInv, Named, Names, WorkerPC
<1>1. CASE Request
  <2>1. answered' \in BOOLEAN
    BY <1>1 DEF Request
  <2> QED
    BY <1>1, <2>1 DEF Request
<1>2. CASE transaction
  BY <1>2 DEF transaction, Woken
<1>3. CASE WaitOver
  BY <1>3 DEF WaitOver
<1>4. CASE BurnReturn
  BY <1>4 DEF BurnReturn
<1>5. CASE Deliver
  BY <1>5 DEF Deliver
<1>6. CASE SerialCloseQuit
  BY <1>6 DEF SerialCloseQuit, Woken
<1>7. CASE SerialCloseTerminate
  <2>1. serialOpen' \in BOOLEAN /\ serialStatusFlag' \in BOOLEAN /\ flag_abort' \in BOOLEAN
    BY <1>7 DEF SerialCloseTerminate
  <2> QED
    BY <1>7, <2>1 DEF SerialCloseTerminate
<1>8. CASE StartClicked
  <2>1. overlapped' \in BOOLEAN /\ flag_abort' \in BOOLEAN
    BY <1>8 DEF StartClicked
  <2> QED
    BY <1>8, <2>1 DEF StartClicked
<1>9. CASE AbortClicked
  BY <1>9 DEF AbortClicked
<1>10. CASE OpenClicked
  BY <1>10 DEF OpenClicked
<1>11. CASE CloseClicked
  BY <1>11 DEF CloseClicked
<1>12. CASE RunLock
  BY <1>12 DEF RunLock
<1>13. CASE RunEnter
  <2>1. currentPortNameChanged' \in BOOLEAN
    BY <1>13 DEF RunEnter
  <2> QED
    BY <1>13, <2>1 DEF RunEnter
<1>14. CASE LoopTest
  BY <1>14 DEF LoopTest
<1>15. CASE OpenPort
  BY <1>15 DEF OpenPort
<1>16. CASE OpenFails
  <2>1. serialOpen' \in BOOLEAN
    BY <1>16 DEF OpenFails
  <2> QED
    BY <1>16, <2>1 DEF OpenFails
<1>17. CASE WriteRead
  BY <1>17 DEF WriteRead
<1>18. CASE LockForWait
  BY <1>18 DEF LockForWait
<1>19. CASE CondWait
  BY <1>19 DEF CondWait
<1>20. CASE RelockAfterWait
  BY <1>20 DEF RelockAfterWait
<1>21. CASE RefreshSettings
  BY <1>21 DEF RefreshSettings
<1>22. CASE SerialPortClose
  <2>1. serialOpen' \in BOOLEAN
    BY <1>22 DEF SerialPortClose
  <2> QED
    BY <1>22, <2>1 DEF SerialPortClose
<1>23. CASE Finish
  BY <1>23 DEF Finish
<1>24. CASE UNCHANGED vars
  BY <1>24 DEF vars
<1> QED
  BY <1>1, <1>2, <1>3, <1>4, <1>5, <1>6, <1>7, <1>8, <1>9, <1>10, <1>11, <1>12,
     <1>13, <1>14, <1>15, <1>16, <1>17, <1>18, <1>19, <1>20, <1>21, <1>22, <1>23, <1>24 DEF Next, Burn, Click, Worker

\* Close ends the worker and makes the burn return.
LEMMA NextClosed == IInv /\ [Next]_vars => ClosedInv'
<1> SUFFICES ASSUME IInv, [Next]_vars PROVE ClosedInv'
  OBVIOUS
<1> USE DEF IInv, TypeOK, ClosedInv
<1>1. CASE Burn
  BY <1>1 DEF Burn, Request, transaction, WaitOver, BurnReturn, Deliver,
     SerialCloseQuit, SerialCloseTerminate, Woken
<1>2. CASE Click
  BY <1>2 DEF Click, StartClicked, AbortClicked, OpenClicked, CloseClicked, InEventLoop
<1>3. CASE Worker
  BY <1>3 DEF Worker, RunLock, RunEnter, LoopTest, OpenPort, OpenFails, WriteRead,
     LockForWait, CondWait, RelockAfterWait, RefreshSettings, SerialPortClose, Finish
<1>4. CASE UNCHANGED vars
  BY <1>4 DEF vars
<1> QED
  BY <1>1, <1>2, <1>3, <1>4 DEF Next

\* The port can only be chosen anew while there is no worker.
LEMMA NextPort == IInv /\ [Next]_vars => PortInv'
<1> SUFFICES ASSUME IInv, [Next]_vars PROVE PortInv'
  OBVIOUS
<1> USE DEF IInv, TypeOK, ClosedInv, PortInv, Named
<1>1. CASE Burn
  BY <1>1 DEF Burn, Request, transaction, WaitOver, BurnReturn, Deliver,
     SerialCloseQuit, SerialCloseTerminate, Woken
<1>2. CASE Click
  BY <1>2 DEF Click, StartClicked, AbortClicked, OpenClicked, CloseClicked, InEventLoop
<1>3. CASE Worker
  BY <1>3 DEF Worker, RunLock, RunEnter, LoopTest, OpenPort, OpenFails, WriteRead,
     LockForWait, CondWait, RelockAfterWait, RefreshSettings, SerialPortClose, Finish
<1>4. CASE UNCHANGED vars
  BY <1>4 DEF vars
<1> QED
  BY <1>1, <1>2, <1>3, <1>4 DEF Next

\* The mutex leaks in RunEnter and SerialCloseTerminate only.
LEMMA NextLeak == IInv /\ [Next]_vars => (LeakNeedsCloseOrNoPort /\ (closing = "terminate" => m_quit))'
<1> SUFFICES ASSUME IInv, [Next]_vars PROVE (LeakNeedsCloseOrNoPort /\ (closing = "terminate" => m_quit))'
  OBVIOUS
<1> USE DEF IInv, TypeOK, LeakNeedsCloseOrNoPort
<1>1. CASE Burn
  BY <1>1 DEF Burn, Request, transaction, WaitOver, BurnReturn, Deliver,
     SerialCloseQuit, SerialCloseTerminate, Woken
<1>2. CASE Click
  BY <1>2 DEF Click, StartClicked, AbortClicked, OpenClicked, CloseClicked, InEventLoop
<1>3. CASE Worker
  BY <1>3 DEF Worker, RunLock, RunEnter, LoopTest, OpenPort, OpenFails, WriteRead,
     LockForWait, CondWait, RelockAfterWait, RefreshSettings, SerialPortClose, Finish
<1>4. CASE UNCHANGED vars
  BY <1>4 DEF vars
<1> QED
  BY <1>1, <1>2, <1>3, <1>4 DEF Next

\* Buttons are clicked in the event loop only.
LEMMA NextCaller == IInv /\ [Next]_vars => ((closing # "no" => caller \in {"idle", "wait"})
                                       /\ (caller # "idle" => burns > 0))'
<1> SUFFICES ASSUME IInv, [Next]_vars PROVE ((closing # "no" => caller \in {"idle", "wait"})
                                       /\ (caller # "idle" => burns > 0))'
  OBVIOUS
<1> USE DEF IInv, TypeOK
<1>1. CASE Burn
  BY <1>1 DEF Burn, Request, transaction, WaitOver, BurnReturn, Deliver,
     SerialCloseQuit, SerialCloseTerminate, Woken
<1>2. CASE Click
  BY <1>2 DEF Click, StartClicked, AbortClicked, OpenClicked, CloseClicked, InEventLoop
<1>3. CASE Worker
  BY <1>3 DEF Worker, RunLock, RunEnter, LoopTest, OpenPort, OpenFails, WriteRead,
     LockForWait, CondWait, RelockAfterWait, RefreshSettings, SerialPortClose, Finish
<1>4. CASE UNCHANGED vars
  BY <1>4 DEF vars
<1> QED
  BY <1>1, <1>2, <1>3, <1>4 DEF Next

\* One request, one signal.
LEMMA NextHandover == IInv /\ [Next]_vars => (overlapped \/ (BurnInv /\ HandoverInv))'
<1> SUFFICES ASSUME IInv, [Next]_vars PROVE (overlapped \/ (BurnInv /\ HandoverInv))'
  OBVIOUS
<1> USE DEF IInv, TypeOK, BurnInv, HandoverInv, NoneDue, Quiet
<1>1. CASE Burn
  BY <1>1 DEF Burn, Request, transaction, WaitOver, BurnReturn, Deliver,
     SerialCloseQuit, SerialCloseTerminate, Woken
<1>2. CASE Click
  BY <1>2 DEF Click, StartClicked, AbortClicked, OpenClicked, CloseClicked, InEventLoop
<1>3. CASE Worker
  BY <1>3 DEF Worker, RunLock, RunEnter, LoopTest, OpenPort, OpenFails, WriteRead,
     LockForWait, CondWait, RelockAfterWait, RefreshSettings, SerialPortClose, Finish
<1>4. CASE UNCHANGED vars
  BY <1>4 DEF vars
<1> QED
  BY <1>1, <1>2, <1>3, <1>4 DEF Next

-------------------------------------------------------------------------------
(* Theorems. *)

\* IInv holds in every state of every behaviour.
THEOREM Invariance == Spec => []IInv
<1>1. Init => IInv
  BY InitInv
<1>2. IInv /\ [Next]_vars => IInv'
  BY NextType, NextClosed, NextPort, NextLeak, NextCaller, NextHandover DEF IInv
<1> QED
  BY <1>1, <1>2, PTL DEF Spec

\* Types, among them that only a port with a name is ever left open.
THEOREM TypeCorrect == Spec => []TypeOK
<1>1. IInv => TypeOK
  BY DEF IInv
<1> QED
  BY <1>1, Invariance, PTL

\* One signal per request, while the GUI waits for it, unless burns overlap.
THEOREM OneAnswerHolds == Spec => []OneAnswer
<1>1. IInv => OneAnswer
  BY DEF IInv, HandoverInv, OneAnswer
<1> QED
  BY <1>1, Invariance, PTL

\* The request's fields, read without the mutex, are stable while they are read.
THEOREM NoRaceHolds == Spec => []NoRace
<1>1. IInv => NoRace
  BY DEF IInv, HandoverInv, NoneDue, Quiet, NoRace
<1> QED
  BY <1>1, Invariance, PTL

\* Only a Close click or a missing port name leaves the mutex locked for ever.
THEOREM LeakNeedsCloseOrNoPortHolds == Spec => []LeakNeedsCloseOrNoPort
<1>1. IInv => LeakNeedsCloseOrNoPort
  BY DEF IInv
<1> QED
  BY <1>1, Invariance, PTL

\* Requests go to the port chosen with Open, and it is open.
THEOREM RightPortHolds == Spec => []RightPort
<1>1. IInv => RightPort
  BY DEF IInv, PortInv, Named, RightPort
<1> QED
  BY <1>1, Invariance, PTL

\* No step, of the worker or of a button, ends a wait that is hung.
THEOREM HangIsPermanentHolds == Spec => HangIsPermanent
<1>1. IInv /\ [Next]_vars => [Hung /\ ~overlapped' => Hung']_vars
  <2> SUFFICES ASSUME IInv, Next, Hung, ~overlapped' PROVE Hung'
    OBVIOUS
  <2> USE DEF IInv, Hung
  <2>1. CASE Burn
    BY <2>1 DEF Burn, Request, transaction, WaitOver, BurnReturn, Deliver,
       SerialCloseQuit, SerialCloseTerminate, Woken
  <2>2. CASE Click
    <3>1. burns > 0
      OBVIOUS
    <3>2. ~StartClicked
      BY <3>1 DEF StartClicked
    <3> QED
      BY <2>2, <3>2 DEF Click, AbortClicked, OpenClicked, CloseClicked
  <2>3. CASE Worker
    BY <2>3 DEF Worker, RunLock, RunEnter, LoopTest, OpenPort, OpenFails, WriteRead,
       LockForWait, CondWait, RelockAfterWait, RefreshSettings, SerialPortClose, Finish
  <2> QED
    BY <2>1, <2>2, <2>3 DEF Next
<1> QED
  BY <1>1, Invariance, PTL DEF Spec, HangIsPermanent

===============================================================================
