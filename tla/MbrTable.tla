------------------------------- MODULE MbrTable -------------------------------
(***************************************************************************)
(* The partition table of a flash image (hg_upgradefile.cpp): at most      *)
(* MBR_SIZE / sizeof(fls_fmt_data) entries, ended by one whose name is all *)
(* 0xff.  A table is a sequence of entries; of an entry's flags and CRC    *)
(* the model keeps whether the valid bit is set and whether the CRC        *)
(* matches.                                                                *)
(***************************************************************************)
EXTENDS Naturals, Sequences

CONSTANTS
    WordSize,                  \* 2^32: u32 arithmetic wraps here
    FLASH_ADDR_LIMITED_SIZE    \* 16 MB

ASSUME WordAssumption ==
    /\ WordSize \in Nat /\ FLASH_ADDR_LIMITED_SIZE \in Nat
    /\ 0 < FLASH_ADDR_LIMITED_SIZE /\ FLASH_ADDR_LIMITED_SIZE < WordSize

PartitionNames == {"mbr(self)", "auth.code", "ramloader", "ramloader-bk",
                   "bb.firmware", "bb.firmware-bk", "ap.firmware", "ap.firmware-bk"}

\* "end" is the name of sixteen 0xff, "other" any name the tool does not look up.
Entry == [name : PartitionNames \cup {"end", "other"},
          fl_addr : 0..WordSize - 1, fl_size : 0..WordSize - 1,
          valid : BOOLEAN, crc16 : BOOLEAN]

mbr_addr_valid(e) ==
    /\ e.fl_addr < FLASH_ADDR_LIMITED_SIZE
    /\ (e.fl_addr + e.fl_size) % WordSize < FLASH_ADDR_LIMITED_SIZE

NotFound == [found |-> FALSE, addr |-> 0, size |-> 0]

\* The entries of that name before the table's end.
Hits(table, name) ==
    {i \in DOMAIN table : /\ table[i].name = name
                          /\ \A j \in 1..i : table[j].name # "end"}

First(table, name) == {i \in Hits(table, name) : \A j \in Hits(table, name) : i <= j}

\* The first entry of that name decides, a valid one behind it is not looked at.
get_flash_mbr(table, name) ==
    IF First(table, name) = {} THEN NotFound
    ELSE LET e == table[CHOOSE i \in First(table, name) : TRUE]
         IN  IF mbr_addr_valid(e) /\ e.valid /\ e.crc16
               THEN [found |-> TRUE, addr |-> e.fl_addr, size |-> e.fl_size]
               ELSE NotFound

===============================================================================
