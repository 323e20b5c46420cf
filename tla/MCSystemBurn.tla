----------------------------- MODULE MCSystemBurn -----------------------------
(* A small instance of SystemBurn. *)
EXTENDS SystemBurn

At(name, addr, size) ==
    [name |-> name, fl_addr |-> addr, fl_size |-> size, valid |-> TRUE, crc16 |-> TRUE]

\* In "first" every file has room, but the AP entry overlaps the loader.  The loaders of
\* "second" are smaller than "bl1", which runs over the authcode burned before and the
\* firmware burned after them, and its firmware backup lies in the MBR; its loader is where
\* "first" has the firmware.  "bad" has an MBR entry whose CRC is wrong before one that is
\* right, a loader of size zero, a loader backup whose end wraps and which "bl1" leads out
\* of the flash, an end at the limit, and an end mark before the firmware.
MCEntries ==
    [zeros  |-> <<>>,
     first  |-> << At("mbr(self)", 0, 2), At("bb.firmware", 2, 1), At("ramloader", 3, 2),
                   At("ramloader-bk", 5, 2), At("ap.firmware", 4, 1) >>,
     second |-> << At("mbr(self)", 0, 2), At("ramloader", 2, 1), At("auth.code", 3, 1),
                   At("ramloader-bk", 4, 1), At("other", 6, 1), At("bb.firmware", 5, 1),
                   At("bb.firmware-bk", 1, 1) >>,
     bad    |-> << [At("mbr(self)", 0, 2) EXCEPT !.crc16 = FALSE], At("mbr(self)", 5, 2),
                   At("ramloader", 3, 0),
                   At("ramloader-bk", FLASH_ADDR_LIMITED_SIZE - 1, WordSize - 3),
                   At("auth.code", 1, FLASH_ADDR_LIMITED_SIZE - 1), At("end", 0, 0),
                   At("bb.firmware", 2, 2) >>]

MCTables == DOMAIN MCEntries
MCImages == [auth |-> {"auth1"}, bl |-> {"bl1"}, bb |-> {"bb1"}, ap |-> {"ap1"}]

MCSize == [c \in MCTables \cup {Short} \cup ImageNames |->
    IF c \in MCTables THEN MBR_SIZE ELSE IF c = "bl1" THEN 2 ELSE 1]

===============================================================================
