------------------------------- MODULE BurnImage -------------------------------
(***************************************************************************)
(* upgrade_tool::bb_flash_file_create: the image that is burned for a      *)
(* baseband file, made of a header, the file padded to whole pages, and a  *)
(* suffix with a checksum, the suffix over the padding's last bytes.       *)
(*                                                                         *)
(* Of the header's fields three vary or are looked at: magic, size and     *)
(* crc16; a byte stands for each of the first two.                         *)
(***************************************************************************)
EXTENDS Crc

CONSTANTS
    FF_PAGE_ALIGN_SIZE,   \* 256
    Garbage               \* what a byte not initialised may be

HdrSize == 4   \* stands for the BL2FW_HDR_SIZE = 512 bytes
SufSize == 8   \* sizeof(FF_SUF_T): chipid and crc32

ASSUME PageAssumption ==
    /\ FF_PAGE_ALIGN_SIZE \in Nat /\ FF_PAGE_ALIGN_SIZE >= SufSize
    /\ Garbage \subseteq 0..255 /\ Garbage # {}

-------------------------------------------------------------------------------

\* plan_size: whole pages.  A file that fills its last page gets no room for a suffix.
Planned(size) ==
    ((size + FF_PAGE_ALIGN_SIZE - 1) \div FF_PAGE_ALIGN_SIZE) * FF_PAGE_ALIGN_SIZE

FW_MAGIC == 119   \* 0x77

Header(plan_size) ==
    LET size == plan_size % 256
        crc  == crc16(<<FW_MAGIC, size>>)
    IN  <<FW_MAGIC, size, Byte(crc, 0), Byte(crc, 1)>>

\* QByteArray::resize: cut off, or made longer by bytes that are not initialised.
resize(bytes, size, garbage) ==
    [i \in 1..size |-> IF i <= Len(bytes) THEN bytes[i] ELSE garbage]

Suffix_Bug(data) ==   \* the checksum ends before chipid
    LET crc32 == CRC_32({}, data)
    IN  <<0, 0, 0, 0>> \o [i \in 1..4 |-> Byte(crc32, i - 1)]

\* chipid is zero; its checksum goes on where that of the data ends.
Suffix(data) ==
    LET crc32 == CRC_32(CRC_32({}, data), <<0, 0, 0, 0>>)
    IN  <<0, 0, 0, 0>> \o [i \in 1..4 |-> Byte(crc32, i - 1)]

WithSuffix(image, plan_size) ==
    LET body == HdrSize + plan_size - SufSize
    IN  SubSeq(image, 1, body) \o Suffix(SubSeq(image, HdrSize + 1, body))

Appended_Bug(bbBurnfile, bbBinfile, plan_size) ==   \* the file before the header
    bbBurnfile \o bbBinfile \o Header(plan_size)

\* bbBurnfile is never cleared: header and file go behind what it has.
Appended(bbBurnfile, bbBinfile, plan_size) ==
    bbBurnfile \o Header(plan_size) \o bbBinfile

\* What bb_flash_file_create makes of bbBurnfile.
bb_flash_file_create(bbBurnfile, bbBinfile, garbage) ==
    LET plan_size == Planned(Len(bbBinfile))
    IN  WithSuffix(resize(Appended(bbBurnfile, bbBinfile, plan_size),
                          HdrSize + plan_size, garbage),
                   plan_size)

-------------------------------------------------------------------------------
(* What the board can check, and what the image is made for. *)

\* The checksum covers everything from the header's end to itself.
SuffixVerifies(image) ==
    LET n == Len(image)
    IN  SubSeq(image, n - 3, n) =
            [i \in 1..4 |-> Byte(Crc32ByDivision(SubSeq(image, HdrSize + 1, n - 4)), i - 1)]

HeaderVerifies(image) ==
    LET crc == Crc16ByDivision(SubSeq(image, 1, HdrSize - 2))
    IN  /\ image[1] = FW_MAGIC
        /\ <<image[3], image[4]>> = <<Byte(crc, 0), Byte(crc, 1)>>

\* The image of the file, but for the bytes of its last page the suffix takes.
IsImageOf(image, file) ==
    /\ Len(image) = HdrSize + Planned(Len(file))
    /\ image[2] = Planned(Len(file)) % 256
    /\ \A i \in 1..Len(file) :
           HdrSize + i <= Len(image) - SufSize => image[HdrSize + i] = file[i]

===============================================================================
