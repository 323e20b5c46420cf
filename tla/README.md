# Verification of the CSHG018 upgrade tool

The tool (Qt 5, C++) burns firmware into a board over a serial port: a GUI
chooses files and a port, a protocol engine cuts the files into blocks and
frames, and a worker thread talks to the port. The boot rom at the other end is
not part of the repository.

Contents: [inventory](#1-inventory), [modules](#2-modules-and-how-they-correspond-to-the-code),
[runs](#3-runs), [fairness](#4-fairness), [proofs](#5-proofs),
[what the checks found](#6-what-the-checks-found), [limits](#7-what-is-not-modelled),
[plan](#8-plan).

## 1. Inventory

| Component | State | Operations | Correct when |
|---|---|---|---|
| `HG_UpgradeFunc::UpgradeProcess`, `state_parse`, `parse_frame`, `parse_version`, frame constructors (`hg_upgradefunc.*`) | `m_upgrade_status`, `loop_state`, read cursor, counters and flags, `m_sendBuf`, `responseStatus`, `timeoutStatus`, `serialBuff` | handshake loop, send loop, slots `showResponse`, `processError`, `processTimeout` | the bytes of a block go out once and in order, EXEC_DATA only when all have been handed over, every call ends |
| `HG_UpgradeFunc::downLoadFlashFile` | block cursor, `try_count`, `repeat_flag`, `flag_abort` | one call of `UpgradeProcess` per block and try | success means the file is in its place, a failure does not reach further than one block |
| `MasterThread` (`masterthread.*`) | request fields, `m_mutex`, `m_cond`, `m_quit`, the port | `transaction`, `serialClose`, `run` (`recieve` is never called) | each request gets exactly one answer; no race; no deadlock |
| `HG_UpgradeFile` (`hg_upgradefile.*`) | static `mbr_dbuf`, the file contents | `get_flash_mbr`, `doLoadFlashFile` in three boot modes | each partition gets its own file, whole, at its own address, and no other loses its own |
| `upgrade_tool` (`upgrade_tool.*`) | `serialStatusFlag`, `bbBinfile`, `bbBurnfile`, buttons | Open/Close, two Start and two Abort buttons, `bb_flash_file_create`, the burn processes | what is burned is what was chosen, what is reported is what happened |
| `hg_aux.*` | none | `CRC_32`, `crc16`, `hg_msleep` (runs the event loop) | a checksum is the one the board computes |
| `main.cpp`, `hg_ff_hdr.*` | none | log handler; an empty class | |

Interaction. All of the tool but `MasterThread::run` runs on the GUI thread.
`UpgradeProcess` hands a request to the worker (`transaction`), then spins on
`responseStatus`/`timeoutStatus` in `hg_msleep`, which runs the event loop:
there the worker's queued signals are delivered to the slots, and buttons are
clicked, Abort, Close and the *other* panel's Start included. The worker
signals `response`, `error` or `timeout` once per request and sleeps on `m_cond`.

What is hard here: a condition variable without a predicate, a thread ended by
`terminate()`, fields read outside the mutex, re-entrant event loops, a protocol
without sequence numbers whose unanswered frames are not resent, restarts by
`goto` that keep part of the state, counters whose limits do not fit together.
`PROJECT.json` lists each hazard with its line and the property that covers it.

## 2. Modules and how they correspond to the code

| Module | Models | Extends / uses |
|---|---|---|
| `Frames` | answers as the parser sees them; `parse_frame`, `parse_version` | |
| `UpgradeProcess` | one call after the other of `UpgradeProcess`, with its slots and the Abort buttons | `Frames` |
| `UpgradeProcessProofs` | inductive invariant and theorems | `UpgradeProcess`, `TLAPS` |
| `MasterThread` | `transaction`, `run`, `serialClose` and the GUI thread around them | |
| `MasterThreadProofs` | inductive invariant and theorems | `MasterThread`, `TLAPS` |
| `BlockTransfer` | abstract: what a call of `UpgradeProcess` promises | |
| `Transfer` | `UpgradeProcess` with board and line | `UpgradeProcess`; refines `BlockTransfer` |
| `TransferProofs` | inductive invariant and theorems, the refinement among them | `Transfer`, `UpgradeProcessProofs` |
| `NestedBurn` | `UpgradeProcess` called inside the wait of another call of it | `UpgradeProcess` |
| `FlashDownload` | `downLoadFlashFile`, calling what `BlockTransfer` promises | refines `FileDownload` |
| `FileDownload` | abstract: what a call of `downLoadFlashFile` promises | |
| `FlashDownloadProofs` | inductive invariant and theorems, the refinement among them | `FlashDownload`, `TLAPS` |
| `MbrTable` | entries of the partition table, `mbr_addr_valid`, `get_flash_mbr` | |
| `SystemBurn` | `doLoadFlashFile` in its three boot modes, `sys_burn_process` around it | `MbrTable` |
| `SystemBurnProofs` | inductive invariant and theorems | `SystemBurn`, `TLAPS` |
| `Crc` | `CRC_32` and `crc16`, and the polynomial divisions they stand for | |
| `BurnImage` | `bb_flash_file_create` and what it appends to | `Crc` |
| `CrcProofs` | both checksums are polynomial divisions, for every message | `Crc`, `TLAPS` |
| `BurnImageProofs` | length, contents and checksums of the image, for every file | `BurnImage`, `CrcProofs` |
| `UpgradeTool` | the window: port, two Start and two Abort buttons, nested burns, messages | `BurnImage` |
| `UpgradeToolProofs` | inductive invariant and theorems | `UpgradeTool`, `BurnImageProofs` |
| `MCUpgradeProcess`, `MCTransfer`, `MCNestedBurn`, `MCSystemBurn`, `MCUpgradeTool` | answers, tables and files of the small instances | |

**Frames.** An answer is a record of what the parser tells apart: size, the
length the header declares between two 0x7E, command, error number, whether the
CRC matches. `parse_frame` returns a *set* of results: with a wrong CRC the
function ends without `return`, which is undefined. The outcomes kept are those a
build can produce: the frame is accepted (an optimiser keeps the only returning
path), accepted as 0xFFFF, or rejected.

**UpgradeProcess.** Between two waits the GUI thread is one step, because
nothing else touches its variables then. `pc` says which loop the call is in and
whether it waits; each early `return` and `continue` is an action of its own
(`HandshakeAbort`, `HandshakeGiveUp`, `HandshakeRetry`, `SendAbort`,
`SendGiveUp`, `SendRetry`), each `case` of the switch builds one frame
(`SendConnect`, `SendStartData`, `SendData`, `SendExec`, `Complete`), and
`state_parse` is `StateParseAck`, `StateParseNack`, `StateParseRestart`. The
variables have the names of the code. A frame is its command and the range of
bytes it carries; byte values do not matter to the protocol. `m_reset_link_flag`
and `m_version_got_flag` are written and never read and are left out. The port
may answer anything in `Replies`, report an error, or time out.

**MasterThread.** `worker` walks through `run()` in the steps the mutex and the
unlocked reads separate: locking, copying the name, the test of `m_quit`, opening,
write-and-read with its one signal, locking again, `m_cond.wait`, waking, refreshing.
`m_mutex` is `"leaked"` when its holder is gone: `run` returned at line 136, or
`terminate()` hit it. `terminate()` is a step of its own (`SerialCloseTerminate`),
so the worker can move between `m_mutex.unlock()` and it. On the platform of the
project file (MinGW, Windows) a terminated thread runs no destructor: an open port
stays open (`heldPorts`), and opening it again fails. `OpenFails` is always possible:
ports vanish. The GUI thread is reduced to: request, wait, event loop.
`overlapped` records that a burn was started inside the wait of another; the two
then share `responseStatus`, and the properties that need exclusive use say so.
Lock and wait of the caller are separate, so that a leaked mutex blocks it.

**Transfer.** The board is modelled from how the host uses it: it answers an
intact frame with ACK (VERSION for the handshake byte), appends the data of
MIDST_DATA and END_DATA frames, drops what it has at START_DATA, burns at
EXEC_DATA, and refuses a damaged frame with a NACK. `Sent` is all the board may send, a
subset of the `Replies` the port may deliver. `Faults` chooses what the line does: damage,
lose, or be late. Frames (`wire`) and answers (`answers`) are queues; with "late" the host's
wait may end while its frame or its answer is still on the way. Before the worker writes it
calls `serial.clear()`, which discards the answers that have arrived and none of those to come
(`Transmit`); the port reads what has come, and of two answers in a row the first is parsed
(`Receive`). Two history variables: `missed`, a data frame of this attempt was given up, and
`stale`, the host has sent a frame while an earlier one or its answer was on the way, and
START_DATA has not found the line empty since. `MaxLate` bounds what the host overtakes,
`MaxStored` the bytes the board keeps.

**NestedBurn.** The other panel's Start is enabled while a burn waits, so a second call
of `UpgradeProcess` runs inside `hg_msleep` of the first. The locals of the waiting call
(`pc`, `tryCount`, `loop_state`, the cursor) are saved in `outer` by `NestedCall` and come
back with `Resume`; `m_upgrade_status`, the flags and counts, `m_sendBuf` and the answer are
members of the one `HG_UpgradeFunc` and come back as the inner call left them. A Start
button is disabled while its own burn runs, so there are at most two.

**FlashDownload.** A call of `UpgradeProcess` is two steps (`Upgrade`, then
`UpgradeSucceeds` or `UpgradeFails`) with the Abort buttons in between; what it
leaves in the flash is what `BlockTransfer` promises for a transfer without
unanswered frames, and after a failure anything in the block's place: nothing, all, or
torn. `flash` maps addresses relative to `dwFlashAddr` to file offsets and reaches
one block beyond the longest file, so that writing too far is seen.

**MbrTable, SystemBurn.** A table is a sequence of entries; of an entry's flags and CRC it is
kept whether they are right, and addresses are added as u32. A boot mode is a list of
partitions, each with the file burned into it and the files without which it is left out: one
pass over the list stands for the repeated `if` chains of the code. `mbr_dbuf` is static and
lives through all burns. `downLoadFlashFile` is refused (nothing to burn, or aborted), or it is
two steps with the Abort buttons in between, and fails or succeeds with one of the outcomes of
`FileDownload`; either way the next partition follows. Copying `MBR_SIZE` bytes out of a shorter
file gives any table. A file is the name of its contents and has a `Size`; a byte of the flash
is a file's name and an offset in it, or `Old`, or `Torn`. A download (`Leave`) writes as many
bytes as the file has from the partition's address on, whatever the entry says of the size,
because that is what `downLoadFlashFile` does: what is longer than its partition runs into what
lies behind, out of the flash too (`Places` reaches `MaxSize` bytes beyond it), and entries may
overlap. A failed download leaves the first bytes of the file, then some that may be anything,
then what was there. The GUI calls `SecureEncryptionMode` only; the other modes are public
operations of `HG_UpgradeFile` and are in the passing run (`UsedModes`) because they share
`mbr_dbuf` and `flag_abort` with it.

**Crc, BurnImage.** A machine word is the set of the positions of its one bits, so that
exclusive or is a symmetric difference; `CRC_32` is the nibble loop over the table of the
source and `crc16` its byte loop, each beside the bitwise polynomial division it has to
agree with. An image is a sequence of bytes. The header keeps the fields that vary (magic,
size, crc16), one byte for the first two, so `HdrSize` is 4 and stands for the 512 of the
code. `resize` fills with `Garbage`: `QByteArray::resize` leaves new bytes uninitialised.
`bbBurnfile` is appended to and never cleared, as in the code.

**UpgradeTool.** `burns` is the stack of the handlers that have begun, the innermost last.
Only the innermost runs; `eventLoop` says whether it waits, which is when clicks are handled.
`BBStart` reads the file, clears `flag_abort`, makes the image and begins its download as one
step, because nothing else runs until the first wait; a file that cannot be opened leaves
`bbBinfile` as it was and only shows a message. `SysStart` begins the list of partitions:
`SysDownload` and `SysRefuse` reach the next one that has a file and an entry,
`SysDownloadEnds` returns from it, `SysEnd` shows the message. What a download leaves in the
flash is abstracted to the promise of `FileDownload`, or to anything when another burn ran
inside it (`overlapped`). `Hang` is the wait that nobody ends (`MasterThread`,
`HangIsPermanent`). `wanted`, `creates`, `aborted` and `overlapped` are history.

Definitions whose names end in `_Bug` are wrong variants, used by no action: each
property is also run with one of them in place of the definition that follows it,
and has to fail. `PROJECT.json` pairs them.

## 3. Runs

| Run (cfg) | Asks | Instance | Result |
|---|---|---|---|
| `UpgradeProcess.cfg` | 8 properties of the protocol loop | 5 bytes in frames of 2, 9 rounds, 10 handshakes, NACK limit 10, 10 kinds of answers | passes, 25,763 states |
| `FullBlock.cfg` | "only try 400 times" | 48 frames, 50 rounds, 500 handshakes, limit 200: the code's numbers; good answers | violated |
| `MasterThread.cfg` | 7 properties of the threads | 2 ports and no port, burns nested 2 deep | passes, 15,891 states |
| `ThreadWakes.cfg` | "Thread wake." | 1 port, 1 burn | violated |
| `FalseMeansClose.cfg` | "false means close" | 1 port, 1 burn | violated |
| `Transfer.cfg` | 3 invariants and the refinement of `BlockTransfer` | 3 bytes in frames of 2, 7 rounds; frames damaged, frames and answers lost and late, one overtaken at a time, 4 bytes kept | passes, 7,909,219 states |
| `SuccessMeansBurned.cfg` | "Down Load Program File Success" | 5 bytes in frames of 2, losses only | violated |
| `FlashDownload.cfg` | 5 properties of the block loop and the refinement of `FileDownload` | files of 0 to 5 bytes, blocks of 2, 3 tries | passes, 578 states |
| `SystemBurn.cfg` | 6 properties of a system burn | flash of 8 bytes, MBR and loader of 2, other files of 1; 4 tables, one with partitions too small, one invalid in five ways; all choices of files; all modes; 2 failures in a burn | passes, 170,766 states |
| `BurnOk.cfg` | "Flash File Burn Ok!" | as above, the mode of the GUI | violated |
| `UpgradeTool.cfg` | 6 properties of the window and the image | pages of 16 bytes; files of 10, 20 and 0 bytes and none; 4 partitions | passes, 50,061 states |
| `NestedBurn.cfg` | "Flash file burn OK." | 3 bytes in frames of 2, a perfect board and line | violated |

What the properties say, module by module:

* `UpgradeProcess`. `BytesConserved`: sent plus left is the block and the cursor
  agrees, through NACKs, restarts and the empty END_DATA frames after an unanswered
  last one; progress stays in 0..100. `FrameOrder`: a data frame is the refused one
  again or the next one, so an unanswered frame is skipped for good.
  `ExecAfterBlockSent`: burning needs an ACK to an END_DATA frame that ends where the block
  ends, that is with every byte handed over in this attempt. It does not say that the last
  byte was acknowledged: after a last frame that nobody answered an empty END_DATA follows, and
  its ACK is enough. What that does to the block is the question of `Transfer`
  (`SuccessIfAllAnswered`, and `SuccessMeansBurned`, which fails).
  `NackLimitUnreachable`: the limit of 200 NACKs is dead code.
  `SuccessNeedsRounds`: n frames need n + 4 of the 50 rounds, so no block over 46
  frames (8 KiB frames: 368 KiB) can succeed. `ReturnsUnlessRestartedForever` and
  `AbortReturns`: every call ends unless the board restarts it for ever, and Abort
  ends even that.
* `MasterThread`. `OneAnswer`: an answer in the queue belongs to the pending
  request. `NoRace`: without nested burns the unlocked reads are harmless, because
  the GUI waits. `RightPort`: requests reach the open port chosen with Open.
  `LeakNeedsCloseOrNoPort`: the two ways the mutex leaks. `HangIsPermanent` and
  `AnsweredOrHung`: a request is answered, or nothing will ever end its wait.
* `Transfer`. `StoredInOrder`: the board keeps no byte twice and none out of order, unless an
  answer was left behind (`stale`). An answer that is late but has arrived by the next write
  does no harm: `serial.clear()` discards it, and without that call both invariants fail.
  `SuccessIfAllAnswered` and `ImplementsBlockTransfer`: success means the block is burned, if
  every data frame was answered and no answer left behind; what is burned is the whole block or
  the call is excused. A new call may start with the excuse of the one before, because what that
  one left on the line is still there, and loses it when START_DATA finds the line empty.
* `FlashDownload`. `TrueMeansInPlace`, `OneBlockAtRisk` (a partial failure),
  `ElevenAttempts` (neither fewer nor more), `Returns`. `ImplementsFileDownload`: seen from its
  callers, who know neither blocks nor tries, the call returns true only with the file in its
  place, never touches another place, and writes after an abort at most the block in progress.
* `SystemBurn`. `OnlyOwnPlaces`: whatever fails, a byte that changes lies no further from the
  start of a partition of the *new* table than its own file is long, and is that file's
  byte or torn. It does not lie inside the partition if the file is too long, and not inside the
  flash either; inside the flash lies what belongs to a file that fits (`Fits`).
  `CompleteUnlessFailed`: a burn without a failure or an abort leaves every partition with its
  file byte for byte, backups included, except the bytes that a file burned later reaches,
  because that one is too long or its entry overlaps. In the instance both happen, and
  without the exceptions both properties fail. Both are stated for a full MBR file in the
  GUI's mode. `AbortStops`: after an abort at most one partition, the one in progress, is
  still written to. `MbrAgrees`: in every mode the MBR in the flash is the table the partitions
  were looked up in, and lies where it says. In the compatibility mode this is a matter of two
  burns: the new MBR is copied only when the table of the burn before is valid, and otherwise
  must not be burned. It is silent where no MBR is burned, and of an MBR file that is too short;
  the modes that nothing calls are in the run for its sake.
  `BurnEnds`.
* `UpgradeTool`. `OkMeansBurned`: the message of success of the baseband panel means that
  the image is in its place, and the first image made is the chosen file's (the later ones
  are not, see section 6). `ImageChecksOut`: every image made, those later ones too, carries
  a header CRC and a suffix CRC that agree with polynomial division, though the suffix lies
  over the padding or the file's tail and is chained over two calls of `CRC_32`.
  `AbortObeyed`: a burn told to stop begins no further partition unless a later Start
  clears the flag. `RightBar`: progress is shown in the panel whose burn it is, unless another
  burn took the routing over. `StartComesBack`: a Start button that is disabled is enabled
  again, unless a wait hangs or the board restarts the protocol for ever (the latter is hidden
  in the fairness, see section 4).
* `NestedBurn`. `SuccessMeansSent`, violated: see section 6.

Why the bounds are enough. In `UpgradeProcess` 5 bytes in frames of 2 make a first, a middle and
a short last frame; 9 rounds are the 7 a perfect transfer needs and 2 faults, for instance a
NACK and the timeout of the frame that follows. The handshake and NACK limits only have to
exceed the rounds, as in the code (`BoundsAssumption`); the theorems hold for all values.
`Transfer` has with late answers far more states and makes do with 3 bytes: a first and a short
last frame, and 7 rounds, one more than a perfect transfer needs. One overtaken answer
(`MaxLate`) is enough to shift every answer after it by one frame, which is all that more of
them do; `MaxStored` leaves room for a byte kept twice. What a middle frame adds is in
`TransferProofs`, which holds for any block, frames and bounds. Two ports let the port change
between burns; the third burn in a nest would do to the second what the second does to the
first. Three blocks with a short last one and three tries give `FlashDownload` a first, middle
and last block, each with first, middle and last tries. `MaxPosted` bounds the answers queued
when an inner burn starts; without nested burns there is at most one (`OneAnswer`). Two good
tables that give one address to different partitions make a stale table visible. In the
first every file has room in the GUI's mode, while in the compatibility mode the AP entry overlaps
the loader; in the second the loaders are longer than their partitions and run over the authcode
burned before them and the firmware burned after, and the firmware's backup lies in the MBR. The
third has a wrong
CRC before a good entry of the same name, a size of zero, an end address at the limit, one that
wraps and lets a file out of the flash, and an end mark before its last entry. Two bytes are
enough for a file to have a first byte in place and a second one elsewhere. Two failures are the
primary and the backup of one partition. `attempts` is counted up to MaxTries + 2, one more than
allowed.

The files of `UpgradeTool` are one whose last bytes lie under the suffix, one of two pages, and
an empty one, in pages of 16 bytes (twice the suffix, as small as leaves room for data). Two
images (`MaxCreates`) are enough to append to what an earlier burn left, and `bbBurnfile`
then has the values it can have: cut to the chosen file's length, it depends on the first
image and the file alone. `Garbage` is all zeros or all ones. The four partitions are one with
each kind of bar: its own, the loader's, none (a backup), and the system panel's firmware bar,
which shares `BB_File` with the other panel. `NestedBurn` needs three bytes so that the
outer call has data left when it is interrupted; the shortest trace is 29 states.

`MasterThread` is checked with `CHECK_DEADLOCK FALSE`: with the mutex leaked, the GUI
thread blocked and the worker gone, the program does stop. Where it stops is the
subject of `AnsweredOrHung`. All other runs that pass check deadlock.

## 4. Fairness

* `UpgradeProcess`: weak fairness of the host's steps (the GUI thread runs) and of
  the answers (every wait of `run()` on the port has a timeout, so a request that is
  served gets a signal). That requests are served is the question of `MasterThread`,
  and there the answer is "not always": liveness of `UpgradeProcess` is
  conditional on it. No fairness of clicks or calls.
* `MasterThread`: weak fairness of each thread; strong fairness of `Deliver` and
  `WaitOver`, which clicks may disable again and again: the event queue is served in
  order, and the wait loop reads its condition each time `processEvents` returns.
* `FlashDownload`: weak fairness of the loop and of the end of `UpgradeProcess`.
* `SystemBurn`: weak fairness of the burn; that each download returns is `FlashDownload`'s
  `Returns`, if the board does not restart the protocol for ever. No fairness of clicks or
  burns.
* `UpgradeTool`: weak fairness of the steps of a system burn between two downloads; strong
  fairness of the ends of downloads. A download ends by `FlashDownload`'s `Returns`, if the board
  does not restart the protocol for ever (`ReturnsUnlessRestartedForever`: this excuse is in the
  fairness and not in the formula), and one that
  others interrupt gets on between them: `hg_msleep` returns when its time is over and the loop
  around it reads its condition. That a wait may hang is no matter of fairness but the step
  `Hang`, and `StartComesBack` names it as an excuse. No fairness of clicks.
* `Transfer` and `NestedBurn` state safety only.

## 5. Proofs

`tlapm` checks eight modules from nothing; but for `CrcProofs` and `BurnImageProofs`, which are
about operators, each proves an inductive invariant and takes the properties from it, for all
values of the constants under the named assumptions of the component's module.

* `UpgradeProcessProofs`: sizes positive, `HandshakeTries` and `NackCntMax` above
  `SendTries`, any set of replies. `IInv` adds to the types: a fresh attempt has
  nothing sent (`FreshInv`); cursor, bytes left and bytes sent agree (`CursorInv`);
  NACKs never exceed rounds (`CountInv`, why the NACK limit is dead); the flag
  `m_send_complete_flag` and the state say where the cursor is (`StageInv`); the
  last frame handed over is the one before the cursor (`LastFrameInv`, needed for
  rewinding); the bytes sent are paid for with rounds (`RoundsInv`). Proved:
  `TypeOK`, `BytesConserved`, `NackLimitUnreachable`, `SuccessNeedsRounds`,
  `FrameOrder`, `ExecAfterBlockSent`.
* `MasterThreadProofs`: any ports, any nesting. Proved: `TypeOK`, `OneAnswer`,
  `NoRace`, `LeakNeedsCloseOrNoPort`, `RightPort`, `HangIsPermanent`. The invariant
  says for each line of `run()` what the GUI can be doing: an answer is
  outstanding exactly while the worker is on its way to its signal.
* `FlashDownloadProofs`: any file, block size and tries. `IInv` adds that address and
  read pointer move together, that a block being retried lies in the file, that
  `try_count` is one behind the attempts, and when `bRet` is true. Proved: `TypeOK`,
  `TrueMeansInPlace`, `OneBlockAtRisk`, `ElevenAttempts`, and that `Spec` implements
  `FileDownload`: a block that ends is a `Write` (what it wrote is never what was there before,
  `WrittenIsNotOld`), the return of `bRet` is `Succeed` or `Fail`, and the start of a block
  changes nothing that a caller sees.

* `TransferProofs`: any block, frames, limits and set of NACKs, and a line with any of the
  faults, late answers included. `TInv` adds to `IInv` of `UpgradeProcessProofs` (every step of
  `Transfer` is one of `UpgradeProcess` or leaves its variables alone, `StepIsNext`): what the
  host does whatever comes, for instance that it repeats a frame or succeeds only by an answer
  (`HostInv`); types of line and board, and that each data frame on the wire ends inside the
  block (`TypeInv`); that nothing is sent before the first call (`IdleInv`); and that a line
  without late answers is empty unless the host waits, and never stale (`PunctualInv`). The rest
  holds while not `stale`: the one thing on its way is the last frame sent or its
  answer (`SyncInv`); the bytes kept ascend; once a frame is acknowledged the board has what
  lies before the cursor, and while it is on its way or refused, what lies before the frame
  (`KeptInv`, the heart: it ties the host's rewinding to the board's memory); a frame whose wait
  or whose call is over still continues what the board has, and an EXEC_DATA among them still
  burns the block (`FlightInv`, what late answers made necessary: the board may handle
  it before the next write); a START_DATA acknowledged has emptied the board
  (`StartInv`); after END_DATA the board has the block unless a frame was given up (`DoneInv`).
  That `stale` ends is a lemma of its own (`ResumesBoard`): a START_DATA that the board handles
  on an otherwise empty line restores all of it. Proved: `TransferTypeOK`, `StoredInOrder`,
  `SuccessIfAllAnswered`, that without late answers the excuse never applies (`NeverStaleHolds`),
  and that `TransferSpec` implements `BlockTransfer` (initial states, and each step a step or a
  stutter).
* `SystemBurnProofs`: any flash size, tables, files of any length, number of failures and modes.
  Lemmas of `MbrTable`: what `get_flash_mbr` finds begins inside the flash, and ends there unless
  its end wraps. `IInv` adds that the table looked up is the chosen file's (`TableInv`, why a
  stale table does no harm), what was checked before a download (`DownloadInv`), that what an
  abort left is one partition (`AbortInv`), and what the partitions already passed hold where
  none passed later has reached (`PassedInv`). Proved: `TypeOK`, `OnlyOwnPlaces`,
  `CompleteUnlessFailed`, `AbortStops`, `MbrAgrees` (with `CompatInv`: once the MBR can be found,
  it is the chosen file's), and `FilesComplete`: where every file fits its partition and no two
  partitions overlap, nothing is lost in a burn without a failure or an abort.
* `CrcProofs`: any message, from the start value 0 and, by chaining, in several calls. A step of
  the division is linear over exclusive or, a byte can be laid over the word before or after the
  shifts, four shifts of a nibble are its entry of the table, eight shifts of a byte the masks
  of `crc16`. The induction over the message is on the set of the lengths for which the claim
  holds, because the theorems of the library that take an operator cannot be instantiated.
  Proved: `CRC_32Holds`, `CRC_32Chains` (a second call continues the first), `Crc16Holds`.
* `BurnImageProofs`: any page size of at least the suffix and any file. `ImageHolds`: the image is
  a byte array of header and planned size; the one made from an empty `bbBurnfile` is that
  of its file; the suffix verifies against what lies before it, and the header verifies when
  the `bbBurnfile` appended to was empty or began with a header that did (`Headed`).
* `UpgradeToolProofs`: any files, page size and list of partitions. The invariant says that the
  stack has each panel at most once and has one burn if none was nested (`SoloInv`), that a burn
  which still owns the routing has its panel's mode (`RouteInv`), that `flag_abort` is set
  while a burn is told to stop (`AbortInv`), and what `bbBurnfile` and `flash` hold when an
  image is made and when it is reported burned (`ImageInv`, with `Headed`, and `FlashInv`).
  Proved: `TypeOK`, `RightBar`, `OkMeansBurned`, `AbortObeyed`, `ImageChecksOut`.

The inductive invariants were checked by TLC before they were proved.

Model-checked only: the six liveness properties (`ReturnsUnlessRestartedForever`, `AbortReturns`,
`AnsweredOrHung`, `Returns`, `BurnEnds`, `StartComesBack`), which are out of the prover's reach.
Every other property of a passing run is a theorem.

## 6. What the checks found

1. **A data frame without an answer is lost for good** (`hg_upgradefunc.cpp:502-510`,
   run `success_means_burned`): the cursor has moved, `m_repeat_send_flag` is not set,
   the block is burned with a gap and success is reported.
2. **A lost wake-up hangs the burn** (`masterthread.cpp:102`, run `thread_wakes`),
   and neither Abort nor Close ends the wait (`HangIsPermanent`).
3. **Close leaves the port open** (`masterthread.cpp:79`, run `false_means_close`).
4. **A full block cannot succeed** (`hg_upgradefunc.cpp:416`, run `full_block`): the
   comment says 400 tries, the code counts 50 rounds; 1.5 MB needs 52.
5. **A failed burn is reported as done** (`hg_upgradefile.cpp:201`,
   `upgrade_tool.cpp:409`, run `burn_ok`): the result of every download is ignored.

6. **A burn inside another makes the outer one report success for nothing**
   (`upgrade_tool.cpp:362`, run `nested_burn`): the inner call leaves `m_upgrade_status` at
   EXEC_DATA and its last ACK in `serialBuff`, the outer call copies both and returns true
   without having sent its data.

Also seen, with no line of the repository against it. The second baseband image of a session has
the new file's length and the first file's header and contents, with a suffix CRC that is right
for them (`creates = 1` in `OkMeansBurned` is needed). The suffix overwrites the file's tail
when its size modulo 256 is 0 or above 248, and the padding before it is not initialised. The
address the user types (`FLASH_BURN_ADDR`) is read and ignored: the image goes to 0xc0000. An
answer that comes after the host's timeout and after the next `serial.clear()` is taken for the
answer to the next frame; every later answer is then one frame off, and the block may be burned
with a gap or with bytes twice and reported as a success. This is what `stale` excuses in the
properties of `Transfer`; the theorems show that it is the only harm a late answer does, and
that it lasts until a START_DATA finds the line empty. A backup partition is overwritten even
when its primary has just failed, so two failures leave no good copy. `CompatibilityMode`, which
nothing calls, replaces the table only if the one of an earlier burn is valid, and burns the AP
partitions with the BB file. The length of a file is never compared with the size of its
partition, nor the entries with one another: a file that is too long overwrites its neighbour,
also one burned before it in the same burn, and nothing is reported; an entry whose end wraps at
2^32 passes the check and may lead its file out of the flash.

## 7. What is not modelled

* In the protocol modules byte values, payload layout, timeouts in milliseconds and progress
  messages: the properties do not depend on them. The CRC of an answer is a Boolean there; its
  computation is in `Crc`, where the burn image needs it.
* `recieve()`, `doLoadUpgrade()`, `downProgramFile` beyond its one call: no caller
  in the GUI. The destructors, at program exit.
* Nested burns in `UpgradeProcess`, `Transfer` and `FlashDownload`: these are one burn, and
  `flag_abort` can there only be cleared between calls. What nesting does is in `NestedBurn`
  (the shared members), `MasterThread` (the worker) and `UpgradeTool` (the window).
* The boot rom beyond its answers; a board that reboots in the middle of a block.
* An MBR file of more than `MBR_SIZE` bytes: `SecureEncryptionMode` takes its first `MBR_SIZE`
  bytes, `CompatibilityMode` burns all of it.
* The log handler and start-up (`main.cpp`) and `hg_ff_hdr.*`: output, and an empty class.
* File dialogs, the list of ports and the settings of the port: inputs of the modules.

## 8. Plan

Done, in the order planned: the protocol loop, the worker thread, the transfer with board and
line, the block loop, the partition table and system burn, the checksums and the burn image,
the window with nested burns; proofs about each of them, up to the refinement of
`BlockTransfer` and `FileDownload`.

Left, in order of what they would add:

1. A whole system burn as an abstract specification over `FileDownload` calls, with
   `SystemBurn` refined against it. Today `Transfer` implements `BlockTransfer` and
   `FlashDownload` implements `FileDownload`, and each layer above takes the outcomes of that
   promise as its steps; that it takes no others is a matter of reading.
2. `NestedBurn` with `MasterThread`: the answers that nested calls take from each other, request
   by request.
