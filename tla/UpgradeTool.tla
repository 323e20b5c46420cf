------------------------------ MODULE UpgradeTool ------------------------------
(***************************************************************************)
(* The window of the tool (upgrade_tool.cpp): the port, the panel that     *)
(* burns a baseband file ("bb") and the panel that burns a whole system    *)
(* ("sys").                                                                *)
(*                                                                         *)
(* A burn runs inside the handler of its Start button.  When it waits for  *)
(* the board it runs the event loop, where the other panel's Start is      *)
(* enabled: burns nest, and the outer one goes on only when the inner one  *)
(* has returned.  They share flag_abort, the members that route progress,  *)
(* and HG_UpgradeFunc (what comes of that is in NestedBurn).               *)
(*                                                                         *)
(* A download is FlashDownload's, on a line that loses no data frame: it   *)
(* ends true or false, or never when its request is not served, which      *)
(* MasterThread shows to happen.                                           *)
(***************************************************************************)
EXTENDS BurnImage

CONSTANTS
    BinFiles,     \* contents of the files the user may choose for "bb", by name
    SysParts,     \* the partitions of a system burn, in order (FileIndex)
    MaxCreates    \* bound: counting of the images made

Panels    == {"bb", "sys"}
FileIndex == {"MBR_File", "AuthcodeFile", "BL_File", "BL_BK_File", "BB_File", "BB_BK_File"}
BootMode  == {"CompatibilityMode", "SecureEncryptionMode"}

\* A path that is empty, or does not open (the message for that differs in wording).
NoFile == "none"

BurnOk     == "Flash file burn OK."
BurnFailed == "Flash file burn failed."
SysBurnOk  == "Flash File Burn Ok!"
Message    == {"none", "Serial port is not opened.", "Flash file not sellected.",
               "Bin file is empty.", BurnOk, BurnFailed, SysBurnOk}

Bytes == Seq(0..255)

ASSUME FilesAssumption ==
    /\ BinFiles \in [DOMAIN BinFiles -> Bytes]
    /\ NoFile \notin DOMAIN BinFiles
ASSUME PartsAssumption ==
    /\ SysParts \in Seq(FileIndex)
    /\ MaxCreates \in Nat /\ MaxCreates >= 2

VARIABLES
    serialStatusFlag,
    flag_abort,
    burns,            \* the burns that have begun, the innermost last
    hung,             \* panels whose burn waits for an answer that nobody will send
    eventLoop,        \* the event loop runs: clicks are handled, slots are called
    startEnabled,     \* BBFW_BURN_START and SYS_BURN_START
    current_mode,
    current_file,
    bbBinfile,
    bbBurnfile,
    flash,            \* what the image's place holds, <<>> when that is unknown
    message,          \* the last message box
    wanted,           \* history: contents of the file chosen for the last "bb" burn
    creates,          \* history: images made, up to MaxCreates
    aborted,          \* history: panels whose burn was told to stop
    overlapped        \* history: the last burn that began did so inside another

routing == <<current_mode, current_file>>
image   == <<bbBinfile, bbBurnfile, wanted, creates>>
vars    == <<serialStatusFlag, flag_abort, burns, hung, eventLoop, startEnabled, routing,
             image, flash, message, aborted, overlapped>>

-------------------------------------------------------------------------------

\* part: index of the partition in SysParts, 0 before the first and for "bb"; mine:
\* current_mode and current_file are what this burn has set for that partition.
Burn(panel, part, mine) == [panel |-> panel, part |-> part, mine |-> mine]

Running(p) == \E i \in DOMAIN burns : burns[i].panel = p
Inner      == burns[Len(burns)]
IsInner(p) == burns # <<>> /\ Inner.panel = p

\* No panel's burn runs twice, and its Start is enabled exactly when none does.
TypeOK ==
    /\ serialStatusFlag \in BOOLEAN /\ flag_abort \in BOOLEAN /\ eventLoop \in BOOLEAN
    /\ burns \in Seq([panel : Panels, part : 0..Len(SysParts), mine : BOOLEAN])
    /\ \A i, j \in DOMAIN burns : i # j => burns[i].panel # burns[j].panel
    /\ startEnabled = [p \in Panels |-> ~Running(p)]
    /\ current_mode \in BootMode /\ current_file \in FileIndex
    /\ bbBinfile \in Bytes /\ bbBurnfile \in Bytes /\ wanted \in Bytes /\ flash \in Bytes
    /\ message \in Message
    /\ creates \in 0..MaxCreates
    /\ aborted \subseteq Panels /\ hung \subseteq {p \in Panels : Running(p)}
    /\ overlapped \in BOOLEAN

-------------------------------------------------------------------------------
(* The port and the Abort buttons. *)

OpenClicked ==
    /\ eventLoop
    /\ ~serialStatusFlag
    /\ serialStatusFlag' = TRUE
    /\ UNCHANGED <<flag_abort, burns, hung, eventLoop, startEnabled, routing, image, flash,
                   message, aborted, overlapped>>

ToldToStop == aborted' = {p \in Panels : Running(p)}

CloseClicked_Bug ==   \* the burn that runs is not aborted
    /\ eventLoop
    /\ serialStatusFlag
    /\ serialStatusFlag' = FALSE
    /\ ToldToStop
    /\ UNCHANGED <<flag_abort, burns, hung, eventLoop, startEnabled, routing, image, flash,
                   message, overlapped>>

CloseClicked ==
    /\ eventLoop
    /\ serialStatusFlag
    /\ serialStatusFlag' = FALSE
    /\ flag_abort' = TRUE
    /\ ToldToStop
    /\ UNCHANGED <<burns, hung, eventLoop, startEnabled, routing, image, flash, message, overlapped>>

\* on_SYS_BURN_ABORT_clicked and on_BBFW_BURN_ABORT_clicked: one flag for both.
AbortClicked ==
    /\ eventLoop
    /\ flag_abort' = TRUE
    /\ ToldToStop
    /\ UNCHANGED <<serialStatusFlag, burns, hung, eventLoop, startEnabled, routing, image, flash,
                   message, overlapped>>

-------------------------------------------------------------------------------
(* Beginning and ending a burn. *)

Clickable(p) == eventLoop /\ startEnabled[p]

StartRefused(p) ==
    /\ Clickable(p)
    /\ ~serialStatusFlag
    /\ message' = "Serial port is not opened."
    /\ UNCHANGED <<serialStatusFlag, flag_abort, burns, hung, eventLoop, startEnabled, routing,
                   image, flash, aborted, overlapped>>

currentUpgradeProcess(mode, file) ==
    /\ current_mode' = mode
    /\ current_file' = file

\* The burns that wait below the innermost one, which takes the progress from them.
Outer == [i \in 1..Len(burns) - 1 |-> burns[i]]
Taken(bs) == [i \in DOMAIN bs |-> [bs[i] EXCEPT !.mine = FALSE]]

Enable(p)  == startEnabled' = [startEnabled EXCEPT ![p] = TRUE]
Disable_Bug(p) == UNCHANGED startEnabled

Disable(p) == startEnabled' = [startEnabled EXCEPT ![p] = FALSE]

\* Every Start clears the flag, also for a burn that has been told to stop.
ClearAbort == flag_abort' = FALSE /\ aborted' = {}

\* Its result is not looked at, and its message stays unless another one comes.
get_data_from_sellect_file(path) ==
    /\ bbBinfile' = IF path = NoFile THEN bbBinfile ELSE BinFiles[path]
    /\ wanted' = IF path = NoFile THEN <<>> ELSE BinFiles[path]

\* Nothing was ever read, or the file is empty.  The flag has been cleared.
BBStartEmpty(path) ==
    /\ Clickable("bb")
    /\ serialStatusFlag
    /\ get_data_from_sellect_file(path)
    /\ ClearAbort
    /\ bbBinfile' = <<>>
    /\ message' = "Bin file is empty."
    /\ UNCHANGED <<serialStatusFlag, burns, hung, eventLoop, startEnabled, routing, bbBurnfile,
                   creates, flash, overlapped>>

BBRoute_Bug == currentUpgradeProcess("SecureEncryptionMode", "BB_File")

BBRoute == currentUpgradeProcess("CompatibilityMode", "BB_File")

\* The image is made and its download has begun.
BBStart(path) ==
    /\ Clickable("bb")
    /\ serialStatusFlag
    /\ get_data_from_sellect_file(path)
    /\ ClearAbort
    /\ bbBinfile' # <<>>
    /\ Disable("bb")
    /\ \E g \in Garbage : bbBurnfile' = bb_flash_file_create(bbBurnfile, bbBinfile', g)
    /\ creates' = IF creates < MaxCreates THEN creates + 1 ELSE creates
    /\ message' = IF path = NoFile THEN "Flash file not sellected." ELSE message
    /\ BBRoute
    /\ burns' = Append(Taken(burns), Burn("bb", 0, TRUE))
    /\ overlapped' = (burns # <<>>)
    /\ UNCHANGED <<serialStatusFlag, hung, eventLoop, flash>>

\* What a download that fails may leave; so may one that says true after another burn
\* has run inside it.
AnyFlash == {flash, bbBurnfile, <<>>}

\* The wait of the innermost burn has no way out but an answer.
Hang(p) ==
    /\ eventLoop /\ IsInner(p)
    /\ hung' = hung \cup {p}
    /\ UNCHANGED <<serialStatusFlag, flag_abort, burns, eventLoop, startEnabled, routing,
                   image, flash, message, aborted, overlapped>>

\* An answer this burn has got is taken for one by the burn that waits below it, too.
Returns(p) ==
    /\ burns' = Outer
    /\ hung' \in {hung, {}}
    /\ aborted' = aborted \ {p}

BBSucceeds ==
    /\ eventLoop /\ IsInner("bb") /\ "bb" \notin hung
    /\ flash' \in (IF overlapped THEN AnyFlash ELSE {bbBurnfile})
    /\ message' = BurnOk
    /\ Enable("bb")
    /\ Returns("bb")
    /\ UNCHANGED <<serialStatusFlag, flag_abort, eventLoop, routing, image, overlapped>>

BBFails_Bug ==   \* returns before the buttons are enabled
    /\ eventLoop /\ IsInner("bb") /\ "bb" \notin hung
    /\ flash' \in AnyFlash
    /\ message' = BurnFailed
    /\ Returns("bb")
    /\ UNCHANGED <<serialStatusFlag, flag_abort, eventLoop, startEnabled, routing, image,
                   overlapped>>

BBFails ==
    /\ eventLoop /\ IsInner("bb") /\ "bb" \notin hung
    /\ flash' \in AnyFlash
    /\ message' = BurnFailed
    /\ Enable("bb")
    /\ Returns("bb")
    /\ UNCHANGED <<serialStatusFlag, flag_abort, eventLoop, routing, image, overlapped>>

-------------------------------------------------------------------------------
(* The system burn, partition by partition (see SystemBurn for what it burns). *)

SysStart ==
    /\ Clickable("sys")
    /\ serialStatusFlag
    /\ ClearAbort
    /\ Disable("sys")
    /\ burns' = Append(burns, Burn("sys", 0, FALSE))
    /\ overlapped' = (burns # <<>>)
    /\ eventLoop' = FALSE
    /\ UNCHANGED <<serialStatusFlag, hung, routing, image, flash, message>>

Between == ~eventLoop /\ IsInner("sys")

\* Partition k is next, those before it have no file or no entry.
Reach(k) ==
    /\ k \in Inner.part + 1..Len(SysParts)
    /\ currentUpgradeProcess("SecureEncryptionMode", SysParts[k])
    /\ burns' = Append(Taken(Outer), Burn("sys", k, TRUE))
    /\ UNCHANGED <<serialStatusFlag, flag_abort, hung, startEnabled, image, flash, message,
                   aborted, overlapped>>

SysDownload ==
    /\ Between
    /\ ~flag_abort
    /\ \E k \in DOMAIN SysParts : Reach(k)
    /\ eventLoop' = TRUE

\* downLoadFlashFile sees the abort and returns.
SysRefuse ==
    /\ Between
    /\ flag_abort
    /\ \E k \in DOMAIN SysParts : Reach(k)
    /\ UNCHANGED eventLoop

\* It may have burned something where the image is.
SysDownloadEnds ==
    /\ eventLoop /\ IsInner("sys") /\ "sys" \notin hung
    /\ eventLoop' = FALSE
    /\ flash' \in {flash, <<>>}
    /\ UNCHANGED <<serialStatusFlag, flag_abort, burns, hung, startEnabled, routing, image,
                   message, aborted, overlapped>>

SysEnd ==
    /\ Between
    /\ message' = SysBurnOk
    /\ Enable("sys")
    /\ Returns("sys")
    /\ eventLoop' = TRUE
    /\ UNCHANGED <<serialStatusFlag, flag_abort, routing, image, flash, overlapped>>

-------------------------------------------------------------------------------

Init ==
    /\ serialStatusFlag = FALSE /\ flag_abort = FALSE
    /\ burns = <<>> /\ hung = {} /\ eventLoop = TRUE
    /\ startEnabled = [p \in Panels |-> TRUE]
    /\ current_mode \in BootMode /\ current_file \in FileIndex
    /\ bbBinfile = <<>> /\ bbBurnfile = <<>> /\ flash = <<>>
    /\ message = "none"
    /\ wanted = <<>> /\ creates = 0
    /\ aborted = {} /\ overlapped = FALSE

Paths == DOMAIN BinFiles \cup {NoFile}

Click == OpenClicked \/ CloseClicked \/ AbortClicked \/ SysStart
         \/ (\E p \in Panels : StartRefused(p))
         \/ (\E path \in Paths : BBStartEmpty(path) \/ BBStart(path))

SysStep   == SysDownload \/ SysRefuse \/ SysEnd
BBEnds    == BBSucceeds \/ BBFails

Next == Click \/ SysStep \/ SysDownloadEnds \/ BBEnds \/ (\E p \in Panels : Hang(p))

(* The GUI thread runs, and a download whose requests are served ends (unless  *)
(* the board restarts it for ever, see UpgradeProcess).  One inside whose wait *)
(* the user begins burn after burn gets on between them: hg_msleep returns     *)
(* when its time is over, and the loop that calls it looks for its answer.     *)
Spec == Init /\ [][Next]_vars
        /\ WF_vars(SysStep) /\ SF_vars(SysDownloadEnds) /\ SF_vars(BBEnds)

-------------------------------------------------------------------------------
(* Properties. *)

\* Every image made carries checksums the board computes too, also when it is made of
\* what an earlier burn left in bbBurnfile: of the header, and of everything behind
\* the header by chaining CRC_32 over data and chipid.
ImageChecksOut ==
    [][bbBurnfile' # bbBurnfile => HeaderVerifies(bbBurnfile') /\ SuffixVerifies(bbBurnfile')]_vars

\* "Flash file burn OK." means the image is in its place, if no burn ran inside
\* another; and the image is the chosen file's, for the first image made.  The later
\* ones have the length of the chosen file's image and the contents of the first.
OkMeansBurned ==
    (message = BurnOk /\ burns = <<>> /\ ~overlapped) =>
        /\ flash = bbBurnfile
        /\ Len(flash) = HdrSize + Planned(Len(bbBinfile))
        /\ creates = 1 => IsImageOf(flash, wanted)

\* A burn that was told to stop, by Abort or Close, begins no further partition, with
\* one way out: a later Start of the other panel, even one that finds nothing to burn.
AbortObeyed ==
    [][(~eventLoop /\ eventLoop' /\ Len(burns') = Len(burns)) => Inner.panel \notin aborted]_vars

\* dumpProgressPos: the bar that shows the progress.
dumpProgressPos ==
    IF current_mode # "SecureEncryptionMode" THEN "BBFW_BURN_PROBAR"
    ELSE CASE current_file = "MBR_File"     -> "SYS_BURN_MBR_PROBAR"
           [] current_file = "AuthcodeFile" -> "SYS_BURN_AC_PROBAR"
           [] current_file = "BL_File"      -> "SYS_BURN_BL_PROBAR"
           [] current_file = "BB_File"      -> "SYS_BURN_BB_PROBAR"
           [] OTHER                         -> "none"

\* What a burn shows is shown in its own panel, unless another burn has run inside the
\* download that is being shown.
RightBar ==
    (eventLoop /\ burns # <<>> /\ Inner.mine) =>
        (dumpProgressPos = "BBFW_BURN_PROBAR" <=> IsInner("bb"))

\* Every burn ends and gives its Start button back, also one that others interrupt,
\* unless a wait hangs.  A board that restarts the protocol for ever keeps a button
\* disabled too: that is excused by the fairness of the ends of downloads in Spec.
StartComesBack == \A p \in Panels : ~startEnabled[p] ~> (startEnabled[p] \/ hung # {})

===============================================================================
