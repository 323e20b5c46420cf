----------------------------- MODULE MasterThread -----------------------------
(***************************************************************************)
(* The serial port's worker thread (masterthread.cpp) and the GUI thread   *)
(* that uses it: transaction() hands a request over, run() opens the port, *)
(* writes, reads and emits one signal, and sleeps on m_cond until the next *)
(* request; serialClose() sets m_quit and terminates the thread.           *)
(*                                                                         *)
(* The GUI thread is followed only as far as it touches the worker: a burn *)
(* is a sequence of requests, each followed by a wait that runs the event  *)
(* loop (hg_msleep), where answers are delivered and buttons clicked.  The *)
(* Start button of the panel that is not burning stays enabled, so a burn  *)
(* can start inside the wait of another one.                               *)
(***************************************************************************)
EXTENDS Naturals

CONSTANTS
    PortNames,   \* the serial ports of the machine
    NoPort,      \* the empty name: no port in the combo box
    MaxBurns,    \* bound: burns nested in each other's waits
    MaxPosted    \* bound: with so many answers queued no inner burn is started

ASSUME NamesAssumption  == NoPort \notin PortNames
ASSUME BurnsAssumption  == MaxBurns \in Nat \ {0} /\ MaxPosted \in Nat

(* A definition whose name ends in _Bug is a wrong variant of the one after it: *)
(* no action uses it, it is there to see that a property notices the mistake.   *)

VARIABLES
    caller,           \* the innermost burn: "idle", "burn", "locking" or "wait"
    burns,            \* burns on the GUI thread's stack
    overlapped,       \* history: a burn was started inside another one
    closing,          \* where serialClose stands: "no", "lock" or "terminate"
    flag_abort,
    serialStatusFlag,
    portName,         \* the port chosen with Open
    answered,         \* responseStatus # -1
    posted,           \* signals in the GUI thread's event queue
    worker,           \* where run() stands, "none" when isRunning() is false
    m_mutex,          \* "free", "worker", or "leaked": its holder is gone
    m_quit,
    m_portName,
    currentPortName,
    currentPortNameChanged,
    serialOpen,       \* run()'s QSerialPort is open
    heldPorts         \* handles left open by a terminated run()

gui     == <<caller, burns, overlapped, closing>>
buttons == <<flag_abort, serialStatusFlag, portName>>
signals == <<answered, posted>>
thread  == <<worker, m_mutex>>
request == <<m_quit, m_portName>>
port    == <<currentPortName, currentPortNameChanged, serialOpen, heldPorts>>
vars    == <<gui, buttons, signals, thread, request, port>>

Names == PortNames \cup {NoPort}

\* The lines of run(): lock, copy and unlock; the loop's test; opening the port;
\* write and read; lock again; wait; after it, with the mutex; closing the port.
WorkerPC == {"none", "entry", "entryLocked", "loop", "open", "io", "lock", "locked",
             "sleep", "woken", "wokenLocked", "close", "ending"}

TypeOK ==
    /\ caller \in {"idle", "burn", "locking", "wait"}
    /\ burns \in 0..MaxBurns /\ overlapped \in BOOLEAN
    /\ closing \in {"no", "lock", "terminate"}
    /\ flag_abort \in BOOLEAN /\ serialStatusFlag \in BOOLEAN
    /\ portName \in Names
    /\ answered \in BOOLEAN /\ posted \in Nat
    /\ worker \in WorkerPC
    /\ m_mutex \in {"free", "worker", "leaked"}
    /\ m_quit \in BOOLEAN /\ m_portName \in Names
    /\ currentPortName \in Names /\ currentPortNameChanged \in BOOLEAN
    /\ serialOpen \in BOOLEAN
    /\ heldPorts \subseteq PortNames

-------------------------------------------------------------------------------
(* The GUI thread: requests. *)

\* m_cond.wakeOne(): a thread that does not wait yet is not woken.
Woken(w) == IF w = "sleep" THEN "woken" ELSE w

\* UpgradeProcess has seen flag_abort false, fills m_sendBuf and arms the answer.
Request ==
    /\ caller = "burn"
    /\ ~flag_abort
    /\ answered' = FALSE
    /\ caller' = "locking"
    /\ UNCHANGED <<burns, overlapped, closing, buttons, posted, thread, request, port>>

transaction_Bug ==   \* without the QMutexLocker
    /\ caller = "locking"
    /\ m_portName' = portName
    /\ worker' = IF worker = "none" THEN "entry" ELSE Woken(worker)
    /\ caller' = "wait"
    /\ UNCHANGED <<burns, overlapped, closing, buttons, signals, m_mutex, m_quit, port>>

\* transaction().
transaction ==
    /\ caller = "locking"
    /\ m_mutex = "free"
    /\ m_portName' = portName
    /\ worker' = IF worker = "none" THEN "entry" ELSE Woken(worker)
    /\ caller' = "wait"
    /\ UNCHANGED <<burns, overlapped, closing, buttons, signals, m_mutex, m_quit, port>>

WaitOver_Bug ==   \* a wait that times out by itself
    /\ caller = "wait" /\ closing = "no"
    /\ caller' = "burn"
    /\ UNCHANGED <<burns, overlapped, closing, buttons, signals, thread, request, port>>

\* while (responseStatus == -1 && timeoutStatus == false) hg_msleep(): the only way on.
WaitOver ==
    /\ caller = "wait" /\ closing = "no"
    /\ answered
    /\ caller' = "burn"
    /\ UNCHANGED <<burns, overlapped, closing, buttons, signals, thread, request, port>>

\* The burn is done, has given up or was aborted.  An outer burn goes on waiting.
BurnReturn ==
    /\ caller = "burn"
    /\ burns' = burns - 1
    /\ caller' = IF burns = 1 THEN "idle" ELSE "wait"
    /\ UNCHANGED <<overlapped, closing, buttons, signals, thread, request, port>>

-------------------------------------------------------------------------------
(* The GUI thread: what its event loop runs. *)

InEventLoop == caller \in {"idle", "wait"} /\ closing = "no"

\* showResponse, processError, processTimeout.
Deliver ==
    /\ InEventLoop
    /\ posted > 0
    /\ posted' = posted - 1
    /\ answered' = TRUE
    /\ UNCHANGED <<gui, buttons, thread, request, port>>

StartClicked ==
    /\ InEventLoop
    /\ serialStatusFlag
    /\ burns < MaxBurns
    /\ burns > 0 => posted < MaxPosted
    /\ burns' = burns + 1
    /\ overlapped' = (overlapped \/ burns > 0)
    /\ flag_abort' = FALSE
    /\ caller' = "burn"
    /\ UNCHANGED <<closing, serialStatusFlag, portName, signals, thread, request, port>>

AbortClicked ==
    /\ InEventLoop
    /\ flag_abort' = TRUE
    /\ UNCHANGED <<gui, serialStatusFlag, portName, signals, thread, request, port>>

\* on_COM_SET_OPEN_clicked, by serialStatusFlag.
OpenClicked ==
    /\ InEventLoop
    /\ ~serialStatusFlag
    /\ serialStatusFlag' = TRUE
    /\ portName' \in Names
    /\ UNCHANGED <<gui, flag_abort, signals, thread, request, port>>

CloseClicked ==
    /\ InEventLoop
    /\ serialStatusFlag
    /\ closing' = "lock"
    /\ UNCHANGED <<caller, burns, overlapped, buttons, signals, thread, request, port>>

SerialCloseQuit_Bug ==   \* serialClose without m_quit = true
    /\ closing = "lock"
    /\ m_mutex = "free"
    /\ worker' = Woken(worker)
    /\ closing' = "terminate"
    /\ UNCHANGED <<caller, burns, overlapped, buttons, signals, m_mutex, request, port>>

\* serialClose up to m_mutex.unlock().
SerialCloseQuit ==
    /\ closing = "lock"
    /\ m_mutex = "free"
    /\ m_quit' = TRUE
    /\ worker' = Woken(worker)
    /\ closing' = "terminate"
    /\ UNCHANGED <<caller, burns, overlapped, buttons, signals, m_mutex, m_portName, port>>

\* terminate() stops run() wherever it is: what it holds stays held.  Then the
\* rest of on_COM_SET_OPEN_clicked.
SerialCloseTerminate ==
    /\ closing = "terminate"
    /\ worker' = "none"
    /\ m_mutex' = IF m_mutex = "worker" THEN "leaked" ELSE m_mutex
    /\ heldPorts' = IF serialOpen THEN heldPorts \cup {currentPortName} ELSE heldPorts
    /\ serialOpen' = FALSE
    /\ closing' = "no"
    /\ serialStatusFlag' = FALSE
    /\ flag_abort' = TRUE
    /\ UNCHANGED <<caller, burns, overlapped, portName, signals, request,
                   currentPortName, currentPortNameChanged>>

-------------------------------------------------------------------------------
(* The worker thread, run(). *)

RunLock ==
    /\ worker = "entry"
    /\ m_mutex = "free"
    /\ m_mutex' = "worker"
    /\ worker' = "entryLocked"
    /\ UNCHANGED <<gui, buttons, signals, request, port>>

RunEnterUnchanged_Bug ==   \* currentPortNameChanged keeps its first value
    /\ worker = "entryLocked"
    /\ \/ /\ m_portName = NoPort
          /\ posted' = posted + 1
          /\ worker' = "ending"
          /\ m_mutex' = "leaked"
          /\ UNCHANGED port
       \/ /\ m_portName # NoPort
          /\ currentPortName' = m_portName
          /\ currentPortNameChanged' = FALSE
          /\ m_mutex' = "free"
          /\ worker' = "loop"
          /\ UNCHANGED <<posted, serialOpen, heldPorts>>
    /\ UNCHANGED <<gui, buttons, answered, request>>

RunEnterNoCheck_Bug ==   \* the name is not checked
    /\ worker = "entryLocked"
    /\ currentPortName' = m_portName
    /\ currentPortNameChanged' = TRUE
    /\ m_mutex' = "free"
    /\ worker' = "loop"
    /\ UNCHANGED <<gui, buttons, signals, request, serialOpen, heldPorts>>

\* Without a port name run() emits error and returns, m_mutex still locked.
RunEnter ==
    /\ worker = "entryLocked"
    /\ \/ /\ m_portName = NoPort
          /\ posted' = posted + 1
          /\ worker' = "ending"
          /\ m_mutex' = "leaked"
          /\ UNCHANGED port
       \/ /\ m_portName # NoPort
          /\ currentPortName' = m_portName
          /\ currentPortNameChanged' = TRUE
          /\ m_mutex' = "free"
          /\ worker' = "loop"
          /\ UNCHANGED <<posted, serialOpen, heldPorts>>
    /\ UNCHANGED <<gui, buttons, answered, request>>

LoopTest_Bug ==   \* while (true)
    /\ worker = "loop"
    /\ worker' = IF currentPortNameChanged THEN "open" ELSE "io"
    /\ UNCHANGED <<gui, buttons, signals, m_mutex, request, port>>

\* while (!m_quit), read without the mutex.
LoopTest ==
    /\ worker = "loop"
    /\ worker' = IF m_quit THEN "close"
                 ELSE IF currentPortNameChanged THEN "open" ELSE "io"
    /\ UNCHANGED <<gui, buttons, signals, m_mutex, request, port>>

\* A port that is open elsewhere, also by this process, does not open again.
OpenPort ==
    /\ worker = "open"
    /\ currentPortName \notin heldPorts
    /\ serialOpen' = TRUE
    /\ worker' = "io"
    /\ UNCHANGED <<gui, buttons, signals, m_mutex, request,
                   currentPortName, currentPortNameChanged, heldPorts>>

\* emit error and return.
OpenFails ==
    /\ worker = "open"
    /\ posted' = posted + 1
    /\ serialOpen' = FALSE
    /\ worker' = "ending"
    /\ UNCHANGED <<gui, buttons, answered, m_mutex, request,
                   currentPortName, currentPortNameChanged, heldPorts>>

WriteRead_Bug ==   \* no m_cond.wait before the next round
    /\ worker = "io"
    /\ posted' = posted + 1
    /\ worker' = "loop"
    /\ UNCHANGED <<gui, buttons, answered, m_mutex, request, port>>

\* Write the request, read the answer, emit response or timeout: one signal.
WriteRead ==
    /\ worker = "io"
    /\ posted' = posted + 1
    /\ worker' = "lock"
    /\ UNCHANGED <<gui, buttons, answered, m_mutex, request, port>>

LockForWait ==
    /\ worker = "lock"
    /\ m_mutex = "free"
    /\ m_mutex' = "worker"
    /\ worker' = "locked"
    /\ UNCHANGED <<gui, buttons, signals, request, port>>

\* m_cond.wait: no predicate is tested, before or after.
CondWait ==
    /\ worker = "locked"
    /\ m_mutex' = "free"
    /\ worker' = "sleep"
    /\ UNCHANGED <<gui, buttons, signals, request, port>>

RelockAfterWait ==
    /\ worker = "woken"
    /\ m_mutex = "free"
    /\ m_mutex' = "worker"
    /\ worker' = "wokenLocked"
    /\ UNCHANGED <<gui, buttons, signals, request, port>>

RefreshSettings ==
    /\ worker = "wokenLocked"
    /\ currentPortNameChanged' = (currentPortName # m_portName)
    /\ currentPortName' = m_portName
    /\ m_mutex' = "free"
    /\ worker' = "loop"
    /\ UNCHANGED <<gui, buttons, signals, request, serialOpen, heldPorts>>

SerialPortClose ==
    /\ worker = "close"
    /\ serialOpen' = FALSE
    /\ worker' = "ending"
    /\ UNCHANGED <<gui, buttons, signals, m_mutex, request,
                   currentPortName, currentPortNameChanged, heldPorts>>

\* run() has returned; from here on isRunning() is false.
Finish ==
    /\ worker = "ending"
    /\ worker' = "none"
    /\ UNCHANGED <<gui, buttons, signals, m_mutex, request, port>>

-------------------------------------------------------------------------------

Init ==
    /\ caller = "idle" /\ burns = 0 /\ overlapped = FALSE /\ closing = "no"
    /\ flag_abort = FALSE /\ serialStatusFlag = FALSE /\ portName = NoPort
    /\ answered = FALSE /\ posted = 0
    /\ worker = "none" /\ m_mutex = "free"
    /\ m_quit = FALSE /\ m_portName = NoPort
    /\ currentPortName = NoPort /\ currentPortNameChanged = FALSE
    /\ serialOpen = FALSE /\ heldPorts = {}

Burn    == Request \/ transaction \/ WaitOver \/ BurnReturn \/ Deliver
           \/ SerialCloseQuit \/ SerialCloseTerminate
Click   == StartClicked \/ AbortClicked \/ OpenClicked \/ CloseClicked
Worker  == RunLock \/ RunEnter \/ LoopTest \/ OpenPort \/ OpenFails \/ WriteRead
           \/ LockForWait \/ CondWait \/ RelockAfterWait \/ RefreshSettings
           \/ SerialPortClose \/ Finish

Next == Burn \/ Click \/ Worker

(* Both threads are scheduled, and a port operation ends (every wait on the    *)
(* port has a timeout).  Nothing forces a click.  Strong fairness where clicks *)
(* come in between: the event queue is served in order, and the wait loop's    *)
(* condition is read whenever processEvents returns.                           *)
Spec == Init /\ [][Next]_vars /\ WF_vars(Burn) /\ WF_vars(Worker)
             /\ SF_vars(Deliver) /\ SF_vars(WaitOver)

-------------------------------------------------------------------------------
(* Properties. *)

\* Every signal in the queue answers the request the GUI is waiting for: none is
\* emitted twice, early, or for a request that was given up (no overlapped burns:
\* they share responseStatus).
OneAnswer ==
    ~overlapped => /\ posted <= 1
                   /\ posted = 1 => caller = "wait" /\ ~answered

\* run() reads the request, m_sendBuf and m_portName without m_mutex (lines 161 to
\* 208).  The GUI never writes them meanwhile, unless burns overlap.
NoRace ==
    (worker \in {"open", "io"} /\ ~overlapped) => caller \notin {"burn", "locking"}

\* The mutex is left locked, and the next transaction() blocks the GUI for ever,
\* only by a Close click or a request without a port name.
LeakNeedsCloseOrNoPort ==
    m_mutex = "leaked" => m_quit \/ m_portName = NoPort

\* A request is written to an open port, and to the one chosen with Open: the port
\* cannot change under a living worker, whose test for a new name never succeeds.
RightPort ==
    /\ worker = "io" => serialOpen /\ currentPortName = portName
    /\ worker = "wokenLocked" => currentPortName = m_portName

\* Nothing will answer the request: the worker sleeps or is on its way to, it has
\* returned, or it will see m_quit.
Hung ==
    /\ caller = "wait" /\ ~answered /\ posted = 0
    /\ \/ worker \in {"none", "lock", "locked", "sleep", "close", "ending"}
       \/ m_quit /\ worker \in {"woken", "wokenLocked", "loop"}

\* A hung wait hangs for ever: neither Abort nor Close nor Open ends it.
HangIsPermanent == [][Hung /\ ~overlapped' => Hung']_vars

\* serialClose blocks the GUI thread on a mutex nobody will unlock.
Frozen == closing = "lock" /\ m_mutex = "leaked"

\* Every wait ends, is hung or is frozen: there is no other way to make no progress.
AnsweredOrHung == caller = "wait" ~> (caller # "wait" \/ Hung \/ Frozen \/ overlapped)

\* masterthread.cpp:100, "Serial transfer Begin.Thread wake.": a request handed to
\* a running thread is served.
ThreadWakes ==
    caller = "wait" ~> (caller # "wait" \/ m_quit \/ m_mutex = "leaked" \/ overlapped)

\* upgrade_tool.h:55, serialStatusFlag: "false means close".
FalseMeansClose == ~serialStatusFlag => ~serialOpen /\ heldPorts = {}

===============================================================================
