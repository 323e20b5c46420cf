------------------------------ MODULE SystemBurn ------------------------------
(***************************************************************************)
(* HG_UpgradeFile::doLoadFlashFile, the burn of a whole system, partition  *)
(* by partition, in its three boot modes, and upgrade_tool's               *)
(* sys_burn_process around it (which uses SecureEncryptionMode only).      *)
(*                                                                         *)
(* The partition table is looked up in mbr_dbuf, a static buffer that      *)
(* keeps its contents from one burn to the next.  A partition is burned by *)
(* downLoadFlashFile (see FlashDownload), whose result is not looked at.   *)
(*                                                                         *)
(* A file is the name of its contents.  The flash is told byte by byte: a  *)
(* byte is a file's name and an offset in it.  A download writes as many   *)
(* bytes as its file has from the address where the partition begins, and  *)
(* compares that with nothing: what is longer than its partition runs on   *)
(* into what lies behind, and entries may overlap.                         *)
(***************************************************************************)
EXTENDS MbrTable, FiniteSets

CONSTANTS
    Tables,        \* contents mbr_dbuf may have, "zeros" before the first burn
    Entries,       \* the entries of each
    Images,        \* for each other file, the contents it may have
    MBR_SIZE,
    Size,          \* of each contents: how many bytes it has
    MaxSize,       \* bound: bytes of a file
    MaxFailures,   \* bound: failed downloads in one burn
    UsedModes      \* the modes a caller uses; upgrade_tool's is SecureEncryption

Files == {"mbr", "auth", "bl", "bb", "ap"}
Empty == "empty"
Short == "short"    \* an MBR file of less than MBR_SIZE bytes

BurnOk == "Flash File Burn Ok!"

ASSUME TablesAssumption ==
    /\ "zeros" \in Tables /\ Tables \cap {Empty, Short} = {}
    /\ Entries \in [Tables -> Seq(Entry)] /\ Entries["zeros"] = <<>>
ASSUME ImagesAssumption ==
    /\ DOMAIN Images = Files \ {"mbr"}
    /\ MaxFailures \in Nat

ImageNames == UNION {Images[f] : f \in DOMAIN Images}

ASSUME ContentsAssumption == Tables \cap ({"old", "torn"} \cup ImageNames) = {}
ASSUME SizeAssumption ==
    /\ MaxSize \in Nat
    /\ Size \in [Tables \cup {Short} \cup ImageNames -> 1..MaxSize]
    /\ \A t \in Tables : Size[t] = MBR_SIZE
    /\ Size[Short] < MBR_SIZE

VARIABLES
    pc,            \* "idle", "next" or "download"
    mode,
    step,          \* the next partition of the mode's list
    mbr_dbuf,
    files,         \* mbrByteArray, authcodeByteArray, ...
    flag_abort,
    flash,         \* the byte at each address
    failures,      \* history: downloads of this burn that failed
    refused,       \* history: one was refused because of an abort
    afterAbort,    \* history: partitions whose download wrote after flag_abort was set
    message        \* the last message box

burn    == <<mode, step>>
history == <<failures, refused, afterAbort>>
vars    == <<pc, burn, mbr_dbuf, files, flag_abort, flash, history, message>>

\* Offsets to SPIFLASH_D_BASE, also those behind the flash that a download reaches.
Places == 0..FLASH_ADDR_LIMITED_SIZE + MaxSize

Byte(contents, offset) == [of |-> contents, at |-> offset]
Old  == Byte("old", 0)     \* from before the burn
Torn == Byte("torn", 0)    \* a failed download may have left anything

-------------------------------------------------------------------------------
(* The partitions of each mode, in order. *)

\* needs: the files without which the partition is skipped.
Part(name, file, needs) == [name |-> name, file |-> file, needs |-> needs]

Firmware == << Part("bb.firmware", "bb", {"bb"}), Part("bb.firmware-bk", "bb", {}) >>

(* A definition whose name ends in _Bug is a wrong variant of the one after it: *)
(* no action uses it, it is there to see that a property notices the mistake.   *)

Loaders_Bug == << Part("ramloader", "bl", {"bl"}) >>   \* no backup

Loaders == << Part("ramloader", "bl", {"bl"}), Part("ramloader-bk", "bl", {}) >>

\* FastBootMode burns at the flash's first address and looks nothing up.
FastBoot == << Part("base", "bl", {"bl"}) >>

SecureEncryption ==
    << Part("mbr(self)", "mbr_dbuf", {}), Part("auth.code", "auth", {"auth"}) >>
    \o Loaders \o Firmware

\* The AP partitions are burned with the BB file.
Compatibility ==
    << Part("mbr(self)", "mbr", {}) >> \o Loaders \o Firmware
    \o << Part("ap.firmware", "bb", {"ap"}), Part("ap.firmware-bk", "bb", {}) >>

Modes == {"FastBoot", "SecureEncryption", "Compatibility"}

ASSUME ModesAssumption == UsedModes \subseteq Modes

Parts(m) == CASE m = "FastBoot"         -> FastBoot
              [] m = "SecureEncryption" -> SecureEncryption
              [] m = "Compatibility"    -> Compatibility

\* What the user may choose; a file that does not open is empty.
Chosen == [mbr : Tables \cup {Empty, Short}, auth : Images.auth \cup {Empty},
           bl : Images.bl \cup {Empty}, bb : Images.bb \cup {Empty},
           ap : Images.ap \cup {Empty}]

Bytes == [of : {"old", "torn", Short} \cup Tables \cup ImageNames, at : 0..MaxSize]

TypeOK ==
    /\ pc \in {"idle", "next", "download"}
    /\ mode \in Modes /\ step \in 1..Len(Parts(mode)) + 1
    /\ mbr_dbuf \in Tables
    /\ files \in Chosen
    /\ flag_abort \in BOOLEAN
    /\ flash \in [Places -> Bytes]
    /\ failures \in 0..MaxFailures /\ refused \in BOOLEAN
    /\ afterAbort \subseteq 1..Len(Parts(mode))
    /\ message \in {"none", BurnOk}

-------------------------------------------------------------------------------

\* What get_flash_mbr finds, by the table in mbr_dbuf and the name of the partition.
Lookup == [t \in Tables |-> [n \in PartitionNames |-> get_flash_mbr(Entries[t], n)]]

is_mbr_cfg_valid == Lookup[mbr_dbuf]["mbr(self)"].found

LoadTable_Bug(m, file) ==   \* a table that is valid already is kept
    IF m = "SecureEncryption" /\ ~is_mbr_cfg_valid
      THEN mbr_dbuf' \in (IF file \in Tables THEN {file} ELSE Tables)
      ELSE UNCHANGED mbr_dbuf

\* What the mode does to mbr_dbuf before the first partition.  A memcpy of MBR_SIZE
\* bytes from a shorter file reads on behind the array: any table may come of it.
LoadTable(m, file) ==
    IF m = "SecureEncryption" \/ (m = "Compatibility" /\ file # Empty /\ is_mbr_cfg_valid)
      THEN mbr_dbuf' \in (IF file \in Tables THEN {file} ELSE Tables)
      ELSE UNCHANGED mbr_dbuf

\* The files are read and the burn begins.  Only sys_burn_process clears flag_abort,
\* and it reads no AP file.
Start(m) ==
    /\ pc = "idle"
    /\ files' \in Chosen
    /\ m = "SecureEncryption" => files'.ap = Empty
    /\ flag_abort' = (m # "SecureEncryption" /\ flag_abort)
    /\ LoadTable(m, files'.mbr)
    /\ mode' = m /\ step' = 1
    /\ flash' = [a \in Places |-> Old]
    /\ failures' = 0 /\ refused' = FALSE /\ afterAbort' = {}
    /\ message' = "none"
    /\ pc' = "next"

-------------------------------------------------------------------------------
(* One partition. *)

part == Parts(mode)[step]
data == IF part.file = "mbr_dbuf" THEN mbr_dbuf ELSE files[part.file]

place == IF part.name = "base" THEN [found |-> TRUE, addr |-> 0, size |-> 1]
                               ELSE Lookup[mbr_dbuf][part.name]

\* downLoadFlashFile is called for the partition.
Wanted ==
    /\ \A f \in part.needs : files[f] # Empty
    /\ place.found
    /\ place.size # 0

AtPart == pc = "next" /\ step <= Len(Parts(mode))

Skip_Bug ==   \* a partition that is left out takes the one after it along
    /\ AtPart
    /\ ~Wanted
    /\ step' = step + 2
    /\ UNCHANGED <<pc, mode, mbr_dbuf, files, flag_abort, flash, history, message>>

Skip ==
    /\ AtPart
    /\ ~Wanted
    /\ step' = step + 1
    /\ UNCHANGED <<pc, mode, mbr_dbuf, files, flag_abort, flash, history, message>>

\* downLoadFlashFile returns false at once: nothing to burn, or flag_abort is set.
Refuse ==
    /\ AtPart
    /\ Wanted
    /\ data = Empty \/ flag_abort
    /\ refused' = (refused \/ flag_abort)
    /\ step' = step + 1
    /\ UNCHANGED <<pc, mode, mbr_dbuf, files, flag_abort, flash, failures, afterAbort, message>>

Download_Bug ==   \* flag_abort is not looked at
    /\ AtPart
    /\ Wanted
    /\ data # Empty
    /\ pc' = "download"
    /\ UNCHANGED <<burn, mbr_dbuf, files, flag_abort, flash, history, message>>

Download ==
    /\ AtPart
    /\ Wanted
    /\ data # Empty /\ ~flag_abort
    /\ pc' = "download"
    /\ UNCHANGED <<burn, mbr_dbuf, files, flag_abort, flash, history, message>>

\* A download that has ended: the first bytes of the file are in place, then come
\* some that may be anything; the rest of its extent and all else are as they were.
Leave(inPlace, torn) ==
    /\ flash' = [a \in Places |->
          IF a \in place.addr..place.addr + inPlace - 1 THEN Byte(data, a - place.addr)
          ELSE IF a \in place.addr + inPlace..place.addr + inPlace + torn - 1 THEN Torn
          ELSE flash[a]]
    /\ afterAbort' = IF flag_abort THEN afterAbort \cup {step} ELSE afterAbort

DownloadSucceeds ==
    /\ pc = "download"
    /\ Leave(Size[data], 0)
    /\ step' = step + 1
    /\ pc' = "next"
    /\ UNCHANGED <<mode, mbr_dbuf, files, flag_abort, failures, refused, message>>

DownloadFails_Bug ==   \* the same partition again, for ever
    /\ pc = "download"
    /\ \E inPlace \in 0..Size[data] : \E torn \in 0..Size[data] - inPlace : Leave(inPlace, torn)
    /\ pc' = "next"
    /\ UNCHANGED <<burn, mbr_dbuf, files, flag_abort, failures, refused, message>>

\* It returns false after its tries or an abort; the next partition follows.
DownloadFails ==
    /\ pc = "download"
    /\ failures < MaxFailures
    /\ failures' = failures + 1
    /\ \E inPlace \in 0..Size[data] : \E torn \in 0..Size[data] - inPlace : Leave(inPlace, torn)
    /\ step' = step + 1
    /\ pc' = "next"
    /\ UNCHANGED <<mode, mbr_dbuf, files, flag_abort, refused, message>>

\* sys_burn_process shows its message, whatever happened.
Finish ==
    /\ pc = "next"
    /\ step > Len(Parts(mode))
    /\ message' = IF mode = "SecureEncryption" THEN BurnOk ELSE message
    /\ pc' = "idle"
    /\ UNCHANGED <<burn, mbr_dbuf, files, flag_abort, flash, history>>

AbortClicked ==
    /\ pc \in {"idle", "download"}
    /\ ~flag_abort
    /\ flag_abort' = TRUE
    /\ UNCHANGED <<pc, burn, mbr_dbuf, files, flash, history, message>>

-------------------------------------------------------------------------------

Init ==
    /\ pc = "idle" /\ mode = "SecureEncryption" /\ step = 1
    /\ mbr_dbuf = "zeros"
    /\ files = [f \in Files |-> Empty]
    /\ flag_abort = FALSE
    /\ flash = [a \in Places |-> Old]
    /\ failures = 0 /\ refused = FALSE /\ afterAbort = {}
    /\ message = "none"

Burn == Skip \/ Refuse \/ Download \/ DownloadSucceeds \/ DownloadFails \/ Finish

Next == (\E m \in UsedModes : Start(m)) \/ Burn \/ AbortClicked

\* downLoadFlashFile returns (FlashDownload!Returns), if the board does not restart the
\* protocol for ever.
Spec == Init /\ [][Next]_vars /\ WF_vars(Burn)

-------------------------------------------------------------------------------
(* Properties. *)

\* The file a partition is for, by its name.
OwnFile == [n \in PartitionNames |->
    CASE n = "mbr(self)"                            -> "mbr"
      [] n = "auth.code"                            -> "auth"
      [] n \in {"ramloader", "ramloader-bk"}        -> "bl"
      [] n \in {"bb.firmware", "bb.firmware-bk"}    -> "bb"
      [] n \in {"ap.firmware", "ap.firmware-bk"}    -> "ap"]

\* What a burn that runs through should leave of the named partitions, by the table
\* of the MBR file chosen for it.
Intended(n) == Lookup[files.mbr][n]
Burnable    == {n \in PartitionNames : /\ Intended(n).found /\ Intended(n).size # 0
                                       /\ files[OwnFile[n]] # Empty}

\* The bytes its file takes from there, which the size in its entry does not limit.
Extent(n)     == Intended(n).addr..Intended(n).addr + Size[files[OwnFile[n]]] - 1
OwnByte(n, a) == Byte(files[OwnFile[n]], a - Intended(n).addr)

\* The file is no longer than its partition, whose end does not wrap at 2^32.
Fits(n) == /\ Size[files[OwnFile[n]]] <= Intended(n).size
           /\ Intended(n).addr + Intended(n).size < WordSize

\* A secure burn with an MBR file of full size: mbr_dbuf has the file's table and
\* none of an earlier burn.
SecureBurn == mode = "SecureEncryption" /\ files.mbr \in Tables

\* Whatever fails and whenever it is aborted, a byte that is touched belongs to a
\* partition of the new table: it lies no further from the partition's start than
\* its own file is long, and is that file's byte for this address, or torn.  A file
\* that is longer than its partition does run over its neighbour, and out of the
\* flash; one that fits stays inside the flash, if the entry's end does not wrap.
OnlyOwnPlaces ==
    SecureBurn => \A a \in Places : flash[a] # Old =>
        \E n \in Burnable : /\ a \in Extent(n)
                            /\ flash[a] \in {Torn, OwnByte(n, a)}
                            /\ Fits(n) => a < FLASH_ADDR_LIMITED_SIZE

\* k comes after n in the list of a secure burn.
After(k, n) == \E i, j \in DOMAIN SecureEncryption :
    i < j /\ SecureEncryption[i].name = n /\ SecureEncryption[j].name = k

\* A secure burn without a failure or an abort leaves every partition that has a file
\* and a valid entry, the backups too, with that file, byte for byte.  The exception
\* are bytes that a file burned later reaches: an entry that overlaps, or a file longer
\* than its partition, takes them over, and the burn does not notice.
CompleteUnlessFailed ==
    (pc = "idle" /\ message = BurnOk /\ SecureBurn /\ failures = 0 /\ ~refused) =>
        \A n \in Burnable : \A a \in Extent(n) :
            (\A k \in Burnable : After(k, n) => a \notin Extent(k)) => flash[a] = OwnByte(n, a)

\* An abort in the middle of a burn reaches the partition in progress and every one
\* after it: from then on at most one partition is written to.
AbortStops == Cardinality(afterAbort) <= 1

\* In every mode a byte of an MBR in the flash is of the table the burn looks its
\* partitions up in, and lies where that table says: a table left by an earlier burn is
\* never used beside the MBR of the chosen file, nor the other way round.  (Nothing is
\* said where the MBR is not burned, as in CompatibilityMode while mbr_dbuf holds no
\* valid table, nor of an MBR file of less than MBR_SIZE bytes.)
MbrAgrees ==
    \A a \in Places : flash[a].of \in Tables =>
        /\ flash[a].of = mbr_dbuf
        /\ is_mbr_cfg_valid
        /\ a = Lookup[mbr_dbuf]["mbr(self)"].addr + flash[a].at

\* A burn ends, with each partition tried once.
BurnEnds == pc # "idle" ~> pc = "idle"

\* upgrade_tool.cpp:409: "Flash File Burn Ok!".
BurnOkMeansBurned == message = BurnOk => failures = 0

===============================================================================
