--------------------------- MODULE SystemBurnProofs ---------------------------
(***************************************************************************)
(* Proofs about SystemBurn, for every flash size, set of tables and files, *)
(* number of failures, and boot modes used.  The inductive invariant says  *)
(* what mbr_dbuf holds in a secure burn, what has been checked before a    *)
(* download, and what the partitions already passed have come to.          *)
(***************************************************************************)
EXTENDS SystemBurn, FiniteSetTheorems, TLAPS

\* sys_burn_process reads no AP file.
FilesInv == mode = "SecureEncryption" => files["ap"] = Empty

\* The table looked up is the one of the chosen file, not one of an earlier burn.
TableInv == SecureBurn => mbr_dbuf = files["mbr"]

\* What was looked at before the download began.
DownloadInv == pc = "download" => step <= Len(Parts(mode)) /\ Wanted /\ data # Empty

\* The message is shown at the end of the list.
MessageInv == message = BurnOk => pc = "idle" /\ step > Len(Parts(mode))

\* After an abort nothing is begun, so one partition can change and no other.
AbortInv ==
    \/ afterAbort = {}
    \/ pc # "download" /\ flag_abort /\ \E i \in 1..Len(Parts(mode)) : afterAbort = {i}

\* So it is in CompatibilityMode, once the MBR can be found: it was copied only then.
CompatInv ==
    (mode = "Compatibility" /\ is_mbr_cfg_valid /\ files["mbr"] \in Tables) =>
        mbr_dbuf = files["mbr"]

Passed(n) == \E i \in 1..step - 1 : SecureEncryption[i].name = n

\* No partition passed after n has taken the byte over.
Kept(n, a) == \A k \in Burnable : Passed(k) /\ After(k, n) => a \notin Extent(k)

\* Partitions that the list has passed without a failure have their files.
PassedInv ==
    (SecureBurn /\ failures = 0 /\ ~refused) =>
        \A n \in Burnable : Passed(n) =>
            \A a \in Extent(n) : Kept(n, a) => flash[a] = OwnByte(n, a)

IInv == TypeOK /\ FilesInv /\ TableInv /\ DownloadInv /\ MessageInv /\ AbortInv
        /\ PassedInv /\ OnlyOwnPlaces /\ CompatInv /\ MbrAgrees

-------------------------------------------------------------------------------

\* The list of a secure burn, written out.
LEMMA SecureList ==
    /\ Len(SecureEncryption) = 6 /\ DOMAIN SecureEncryption = 1..6
    /\ SecureEncryption[1] = Part("mbr(self)", "mbr_dbuf", {})
    /\ SecureEncryption[2] = Part("auth.code", "auth", {"auth"})
    /\ SecureEncryption[3] = Part("ramloader", "bl", {"bl"})
    /\ SecureEncryption[4] = Part("ramloader-bk", "bl", {})
    /\ SecureEncryption[5] = Part("bb.firmware", "bb", {"bb"})
    /\ SecureEncryption[6] = Part("bb.firmware-bk", "bb", {})
BY DEF SecureEncryption, Loaders, Firmware

\* The list of the mode that burns AP partitions too, written out.
LEMMA CompatibilityList ==
    /\ Len(Compatibility) = 7
    /\ Compatibility[1] = Part("mbr(self)", "mbr", {})
    /\ Compatibility[2] = Part("ramloader", "bl", {"bl"})
    /\ Compatibility[3] = Part("ramloader-bk", "bl", {})
    /\ Compatibility[4] = Part("bb.firmware", "bb", {"bb"})
    /\ Compatibility[5] = Part("bb.firmware-bk", "bb", {})
    /\ Compatibility[6] = Part("ap.firmware", "bb", {"ap"})
    /\ Compatibility[7] = Part("ap.firmware-bk", "bb", {})
BY DEF Compatibility, Loaders, Firmware

\* Every list is made of partitions with a name, and a file that was chosen or mbr_dbuf.
LEMMA Lists ==
    ASSUME NEW m \in Modes
    PROVE  /\ Len(Parts(m)) \in Nat
           /\ \A i \in 1..Len(Parts(m)) :
                 /\ Parts(m)[i].name \in PartitionNames \cup {"base"}
                 /\ Parts(m)[i].file \in Files \cup {"mbr_dbuf"}
<1>1. CASE m = "FastBoot"
  BY <1>1 DEF Parts, FastBoot, Part, PartitionNames, Files
<1>2. CASE m = "SecureEncryption"
  <2>1. Parts(m) = SecureEncryption
    BY <1>2 DEF Parts
  <2> QED
    BY <2>1, SecureList DEF Part, PartitionNames, Files
<1>3. CASE m = "Compatibility"
  <2>1. Parts(m) = Compatibility
    BY <1>3 DEF Parts
  <2> QED
    BY <2>1, CompatibilityList DEF Part, PartitionNames, Files
<1> QED
  BY <1>1, <1>2, <1>3 DEF Modes

\* The tables among them: only one mode burns the MBR file as it is, all burn a table
\* as the partition "mbr(self)".
LEMMA TableParts ==
    ASSUME NEW m \in Modes, NEW i \in 1..Len(Parts(m))
    PROVE  /\ Parts(m)[i].file \in {"mbr", "mbr_dbuf"} => Parts(m)[i].name = "mbr(self)"
           /\ Parts(m)[i].file = "mbr" => m = "Compatibility"
<1>1. CASE m = "FastBoot"
  BY <1>1 DEF Parts, FastBoot, Part
<1>2. CASE m = "SecureEncryption"
  <2>1. Parts(m) = SecureEncryption /\ i \in 1..6
    BY <1>2, SecureList DEF Parts
  <2> QED
    BY <2>1, SecureList DEF Part
<1>3. CASE m = "Compatibility"
  <2>1. Parts(m) = Compatibility /\ i \in 1..7
    BY <1>3, CompatibilityList DEF Parts
  <2> QED
    BY <1>3, <2>1, CompatibilityList DEF Part
<1> QED
  BY <1>1, <1>2, <1>3 DEF Modes

\* A sum below 2^32 does not wrap.
LEMMA NoWrap == ASSUME NEW x \in Nat, NEW w \in Nat, x < w PROVE x % w = x
OBVIOUS

\* An entry that get_flash_mbr accepts begins inside the flash, and ends there unless
\* its end wraps.
LEMMA FoundInFlash ==
    ASSUME NEW table \in Seq(Entry), NEW name,
           get_flash_mbr(table, name).found
    PROVE  /\ get_flash_mbr(table, name).addr \in 0..FLASH_ADDR_LIMITED_SIZE - 1
           /\ get_flash_mbr(table, name).size \in Nat
           /\ get_flash_mbr(table, name).addr + get_flash_mbr(table, name).size < WordSize =>
                get_flash_mbr(table, name).addr + get_flash_mbr(table, name).size
                  < FLASH_ADDR_LIMITED_SIZE
<1> DEFINE e == table[CHOOSE i \in First(table, name) : TRUE]
<1>1. First(table, name) # {} /\ mbr_addr_valid(e) /\ e.valid /\ e.crc16
  BY DEF get_flash_mbr, NotFound
<1>2. e \in Entry
  <2>1. (CHOOSE i \in First(table, name) : TRUE) \in DOMAIN table
    BY <1>1 DEF First, Hits
  <2> QED
    BY <2>1
<1>3. get_flash_mbr(table, name) = [found |-> TRUE, addr |-> e.fl_addr, size |-> e.fl_size]
  BY <1>1 DEF get_flash_mbr
<1>4. e.fl_addr \in Nat /\ e.fl_size \in Nat
  BY <1>2, WordAssumption DEF WordAssumption, Entry
<1> HIDE DEF e
<1>5. e.fl_addr < FLASH_ADDR_LIMITED_SIZE
  BY <1>1 DEF mbr_addr_valid
<1>6. ASSUME e.fl_addr + e.fl_size < WordSize
      PROVE  e.fl_addr + e.fl_size < FLASH_ADDR_LIMITED_SIZE
  <2>1. (e.fl_addr + e.fl_size) % WordSize = e.fl_addr + e.fl_size
    BY <1>4, <1>6, WordAssumption, NoWrap DEF WordAssumption
  <2> QED
    BY <1>1, <2>1 DEF mbr_addr_valid
<1> QED
  BY <1>3, <1>4, <1>5, <1>6, WordAssumption DEF WordAssumption

\* So does what is looked up in mbr_dbuf or in the MBR file chosen.
LEMMA LookupInFlash ==
    ASSUME NEW t \in Tables, NEW n \in PartitionNames, Lookup[t][n].found
    PROVE  /\ Lookup[t][n].addr \in 0..FLASH_ADDR_LIMITED_SIZE - 1
           /\ Lookup[t][n].size \in Nat
           /\ Lookup[t][n].addr + Lookup[t][n].size < WordSize =>
                Lookup[t][n].addr + Lookup[t][n].size < FLASH_ADDR_LIMITED_SIZE
<1>1. Lookup[t][n] = get_flash_mbr(Entries[t], n)
  BY DEF Lookup
<1>2. Entries[t] \in Seq(Entry)
  BY TablesAssumption DEF TablesAssumption
<1> QED
  BY <1>1, <1>2, FoundInFlash

-------------------------------------------------------------------------------

\* The partition in turn: its place begins in the flash, and its file, whose size is
\* known, is written inside Places.
LEMMA PartInTurn ==
    ASSUME TypeOK, step <= Len(Parts(mode)), Wanted, data # Empty
    PROVE  /\ place.addr \in 0..FLASH_ADDR_LIMITED_SIZE - 1
           /\ data \in Tables \cup {Short} \cup ImageNames
           /\ Size[data] \in 1..MaxSize
<1> USE DEF TypeOK
<1>1. /\ part.name \in PartitionNames \cup {"base"}
      /\ part.file \in Files \cup {"mbr_dbuf"}
  BY Lists DEF part
<1>2. place.addr \in 0..FLASH_ADDR_LIMITED_SIZE - 1
  <2>1. CASE part.name = "base"
    <3>1. place.addr = 0
      BY <2>1 DEF place
    <3> QED
      BY <3>1, WordAssumption DEF WordAssumption
  <2>2. CASE part.name # "base"
    <3>1. place = Lookup[mbr_dbuf][part.name] /\ part.name \in PartitionNames
      BY <1>1, <2>2 DEF place
    <3> QED
      BY <3>1, LookupInFlash DEF Wanted
  <2> QED
    BY <2>1, <2>2
<1>3. data \in Tables \cup {Short} \cup ImageNames
  <2>1. CASE part.file = "mbr_dbuf"
    BY <2>1 DEF data
  <2>2. CASE part.file # "mbr_dbuf"
    <3>1. part.file \in Files /\ data = files[part.file]
      BY <1>1, <2>2 DEF data
    <3>2. CASE part.file = "mbr"
      BY <3>1, <3>2 DEF Chosen
    <3>3. CASE part.file # "mbr"
      <4>1. data \in Images[part.file]
        BY <3>1, <3>3 DEF Chosen, Files
      <4>2. part.file \in DOMAIN Images
        BY <3>1, <3>3, ImagesAssumption DEF ImagesAssumption
      <4> QED
        BY <4>1, <4>2 DEF ImageNames
    <3> QED
      BY <3>2, <3>3
  <2> QED
    BY <2>1, <2>2
<1> QED
  BY <1>2, <1>3, SizeAssumption DEF SizeAssumption

\* A partition that is to be burned: its place in the flash and the size of its file.
LEMMA BurnableExtent ==
    ASSUME TypeOK, SecureBurn, NEW n \in Burnable
    PROVE  /\ Intended(n).addr \in 0..FLASH_ADDR_LIMITED_SIZE - 1
           /\ Intended(n).size \in Nat
           /\ Size[files[OwnFile[n]]] \in 1..MaxSize
           /\ Extent(n) \subseteq Places
           /\ Fits(n) => Extent(n) \subseteq 0..FLASH_ADDR_LIMITED_SIZE - 1
           /\ Fits(n) => Extent(n) \subseteq
                           Intended(n).addr..Intended(n).addr + Intended(n).size - 1
<1>1. n \in PartitionNames /\ files["mbr"] \in Tables /\ Lookup[files["mbr"]][n].found
  BY DEF Burnable, SecureBurn, Intended
<1>2. /\ Intended(n).addr \in 0..FLASH_ADDR_LIMITED_SIZE - 1
      /\ Intended(n).size \in Nat
      /\ Intended(n).addr + Intended(n).size < WordSize =>
           Intended(n).addr + Intended(n).size < FLASH_ADDR_LIMITED_SIZE
  BY <1>1, LookupInFlash DEF Intended
<1>3. files[OwnFile[n]] \in Tables \cup {Short} \cup ImageNames
  <2>1. OwnFile[n] \in Files /\ files[OwnFile[n]] # Empty
    BY DEF Burnable, OwnFile, PartitionNames, Files
  <2>2. CASE OwnFile[n] = "mbr"
    BY <1>1, <2>2
  <2>3. CASE OwnFile[n] # "mbr"
    <3>1. files[OwnFile[n]] \in Images[OwnFile[n]]
      BY <2>1, <2>3 DEF TypeOK, Chosen, Files
    <3>2. OwnFile[n] \in DOMAIN Images
      BY <2>1, <2>3, ImagesAssumption DEF ImagesAssumption
    <3> QED
      BY <3>1, <3>2 DEF ImageNames
  <2> QED
    BY <2>2, <2>3
<1>4. Size[files[OwnFile[n]]] \in 1..MaxSize /\ MaxSize \in Nat
  BY <1>3, SizeAssumption DEF SizeAssumption
<1>5. Extent(n) \subseteq Places
  BY <1>2, <1>4, WordAssumption DEF WordAssumption, Extent, Places
<1>6. ASSUME Fits(n)
      PROVE  /\ Extent(n) \subseteq 0..FLASH_ADDR_LIMITED_SIZE - 1
             /\ Extent(n) \subseteq Intended(n).addr..Intended(n).addr + Intended(n).size - 1
  BY <1>2, <1>4, <1>6, WordAssumption DEF WordAssumption, Extent, Fits
<1> QED
  BY <1>2, <1>4, <1>5, <1>6

\* In a secure burn the partition in turn has its own file and the place the new table
\* gives it, and it is burned if and only if it is to be.
LEMMA SecurePart ==
    ASSUME TypeOK, FilesInv, TableInv, SecureBurn, step <= Len(Parts(mode))
    PROVE  /\ step \in 1..6
           /\ part = SecureEncryption[step]
           /\ part.name \in PartitionNames
           /\ data = files[OwnFile[part.name]]
           /\ place = Intended(part.name)
           /\ part.name \in Burnable <=> Wanted /\ data # Empty
<1>1. Parts(mode) = SecureEncryption
  BY DEF SecureBurn, Parts
<1>2. step \in 1..6 /\ part = SecureEncryption[step]
  BY <1>1, SecureList DEF TypeOK, part
<1>3. mbr_dbuf = files["mbr"]
  BY DEF TableInv
<1>4. \E f \in {"mbr", "auth", "bl", "bb"} :
         /\ part.name \in PartitionNames
         /\ OwnFile[part.name] = f
         /\ data = files[f]
         /\ part.needs \in {{}, {f}}
  BY <1>2, <1>3, SecureList DEF Part, PartitionNames, OwnFile, data
<1>5. place = Intended(part.name)
  BY <1>3, <1>4 DEF place, Intended, PartitionNames
<1>6. part.name \in Burnable <=> Wanted /\ data # Empty
  BY <1>4, <1>5 DEF Burnable, Wanted
<1> QED
  BY <1>2, <1>4, <1>5, <1>6

\* When a table is burned it is the one looked things up in, at the place it gives itself.
LEMMA TableInTurn ==
    ASSUME TypeOK, CompatInv, step <= Len(Parts(mode)), Wanted, data \in Tables
    PROVE  /\ data = mbr_dbuf
           /\ is_mbr_cfg_valid
           /\ Lookup[mbr_dbuf]["mbr(self)"].addr = place.addr
<1>1. /\ part.file \in Files \cup {"mbr_dbuf"}
      /\ part.file \in {"mbr", "mbr_dbuf"} => part.name = "mbr(self)"
      /\ part.file = "mbr" => mode = "Compatibility"
  <2>1. mode \in Modes /\ step \in 1..Len(Parts(mode))
    BY Lists DEF TypeOK
  <2>2. part.file \in Files \cup {"mbr_dbuf"}
    BY <2>1, Lists DEF part
  <2> QED
    BY <2>1, <2>2, TableParts DEF part
<1>2. part.file \in {"mbr", "mbr_dbuf"}
  <2> SUFFICES ASSUME part.file \in Files \ {"mbr"} PROVE FALSE
    BY <1>1
  <2>1. data = files[part.file] /\ data # Empty
    BY TablesAssumption DEF TablesAssumption, data, Files
  <2>2. data \in Images[part.file]
    BY <2>1 DEF TypeOK, Chosen, Files
  <2>3. part.file \in DOMAIN Images
    BY ImagesAssumption DEF ImagesAssumption
  <2>4. data \in ImageNames
    BY <2>2, <2>3 DEF ImageNames
  <2> QED
    BY <2>4, ContentsAssumption DEF ContentsAssumption
<1>3. place = Lookup[mbr_dbuf]["mbr(self)"] /\ is_mbr_cfg_valid
  BY <1>1, <1>2 DEF place, Wanted, is_mbr_cfg_valid
<1>4. data = mbr_dbuf
  BY <1>1, <1>2, <1>3 DEF data, CompatInv
<1> QED
  BY <1>3, <1>4

\* Names occur once in the list.
LEMMA NamesDiffer ==
    \A i, j \in 1..6 : SecureEncryption[i].name = SecureEncryption[j].name => i = j
BY SecureList DEF Part

-------------------------------------------------------------------------------

\* The bytes that are of no file.
LEMMA OldByte == /\ Old \in Bytes /\ Torn \in Bytes
                 /\ Old.of \notin Tables /\ Torn.of \notin Tables
  BY SizeAssumption, ContentsAssumption
     DEF SizeAssumption, ContentsAssumption, Old, Torn, Byte, Bytes

\* The invariant holds before the first burn.
LEMMA InitIInv == Init => IInv
<1> SUFFICES ASSUME Init PROVE IInv
  OBVIOUS
<1> USE DEF Init
<1>1. TypeOK
  <2>1. files \in Chosen
    BY DEF Files, Chosen
  <2>2. step \in 1..Len(Parts(mode)) + 1 /\ mode \in Modes
    BY Lists DEF Modes
  <2>3. mbr_dbuf \in Tables /\ flash \in [Places -> Bytes]
    BY TablesAssumption, OldByte DEF TablesAssumption
  <2>4. failures \in 0..MaxFailures
    BY ImagesAssumption DEF ImagesAssumption
  <2>5. flag_abort \in BOOLEAN /\ refused \in BOOLEAN
    OBVIOUS
  <2> QED
    BY <2>1, <2>2, <2>3, <2>4, <2>5 DEF TypeOK
<1>2. FilesInv /\ OnlyOwnPlaces
  BY DEF FilesInv, Files, OnlyOwnPlaces
<1>5. CompatInv /\ MbrAgrees
  BY OldByte DEF CompatInv, MbrAgrees
<1>3. ~SecureBurn
  BY TablesAssumption DEF TablesAssumption, SecureBurn, Files
<1>4. TableInv /\ DownloadInv /\ MessageInv /\ AbortInv /\ PassedInv
  BY <1>3 DEF TableInv, DownloadInv, MessageInv, AbortInv, PassedInv, BurnOk
<1> QED
  BY <1>1, <1>2, <1>4, <1>5 DEF IInv

\* A burn begins: nothing has been touched or passed, and a secure one has its table.
LEMMA StartKeeps == ASSUME IInv, NEW m \in UsedModes, Start(m) PROVE IInv'
<1> USE DEF Start
<1>1. m \in Modes
  BY ModesAssumption DEF ModesAssumption
<1>2. TypeOK'
  <2>1. mbr_dbuf' \in Tables
    BY DEF IInv, TypeOK, LoadTable
  <2>2. step' \in 1..Len(Parts(mode')) + 1
    BY <1>1, Lists
  <2>3. flash' \in [Places -> Bytes]
    BY OldByte
  <2>4. flag_abort' \in BOOLEAN /\ refused' \in BOOLEAN
    OBVIOUS
  <2>5. failures' \in 0..MaxFailures
    BY ImagesAssumption DEF ImagesAssumption
  <2> QED
    BY <1>1, <2>1, <2>2, <2>3, <2>4, <2>5 DEF TypeOK
<1>3. FilesInv'
  BY DEF FilesInv
<1>4. TableInv'
  BY DEF TableInv, SecureBurn, LoadTable
<1>5. DownloadInv' /\ MessageInv' /\ AbortInv' /\ OnlyOwnPlaces'
  BY DEF DownloadInv, MessageInv, AbortInv, OnlyOwnPlaces, BurnOk
<1>6. PassedInv'
  <2>1. 1..step' - 1 = {}
    OBVIOUS
  <2> QED
    BY <2>1 DEF PassedInv, Passed
<1>7. CompatInv'
  <2> SUFFICES ASSUME m = "Compatibility", is_mbr_cfg_valid', files'["mbr"] \in Tables
               PROVE  mbr_dbuf' = files'["mbr"]
    BY DEF CompatInv
  <2>1. CASE is_mbr_cfg_valid
    BY <2>1, TablesAssumption DEF TablesAssumption, LoadTable
  <2>2. CASE ~is_mbr_cfg_valid
    <3>1. mbr_dbuf' = mbr_dbuf
      BY <2>2 DEF LoadTable
    <3> QED
      BY <2>2, <3>1 DEF is_mbr_cfg_valid
  <2> QED
    BY <2>1, <2>2
<1>8. MbrAgrees'
  BY OldByte DEF MbrAgrees
<1> QED
  BY <1>2, <1>3, <1>4, <1>5, <1>6, <1>7, <1>8 DEF IInv

\* What only looks at files, tables, mode and flash stays when they do.
LEMMA SameFlash ==
    ASSUME UNCHANGED <<mode, mbr_dbuf, files, flash>>, FilesInv, TableInv, OnlyOwnPlaces,
           CompatInv, MbrAgrees
    PROVE  /\ FilesInv' /\ TableInv' /\ OnlyOwnPlaces' /\ CompatInv' /\ MbrAgrees'
           /\ SecureBurn' <=> SecureBurn
           /\ Burnable' = Burnable
           /\ \A n : Intended(n)' = Intended(n)
           /\ \A n : Extent(n)' = Extent(n)
           /\ \A n, a : OwnByte(n, a)' = OwnByte(n, a)
<1>1. \A n : Intended(n)' = Intended(n)
  BY DEF Intended
<1>2. Burnable' = Burnable
  BY <1>1 DEF Burnable
<1>3. SecureBurn' <=> SecureBurn
  BY DEF SecureBurn
<1>5. /\ \A n : Extent(n)' = Extent(n)
      /\ \A n, a : OwnByte(n, a)' = OwnByte(n, a)
      /\ \A n : Fits(n)' <=> Fits(n)
  BY <1>1 DEF Extent, OwnByte, Fits
<1>4. FilesInv' /\ TableInv' /\ OnlyOwnPlaces'
  BY <1>1, <1>2, <1>3, <1>5 DEF FilesInv, TableInv, OnlyOwnPlaces
<1>6. CompatInv' /\ MbrAgrees'
  BY DEF CompatInv, MbrAgrees, is_mbr_cfg_valid
<1> QED
  BY <1>1, <1>2, <1>3, <1>4, <1>5, <1>6

\* A partition that is not burned, by Skip or Refuse, is passed.
LEMMA PassOver ==
    ASSUME IInv, AtPart, UNCHANGED <<pc, mode, mbr_dbuf, files, flag_abort, flash, failures,
                                     afterAbort, message>>,
           step' = step + 1, refused' \in BOOLEAN, refused => refused',
           ~refused' => ~(Wanted /\ data # Empty)
    PROVE  IInv'
<1> USE DEF IInv, AtPart
<1>1. TypeOK'
  <2>1. step' \in 1..Len(Parts(mode')) + 1
    BY Lists DEF TypeOK
  <2> QED
    BY <2>1 DEF TypeOK
<1>2. FilesInv' /\ TableInv' /\ OnlyOwnPlaces' /\ CompatInv' /\ MbrAgrees'
  BY SameFlash
<1>3. DownloadInv' /\ MessageInv' /\ AbortInv'
  BY DEF DownloadInv, MessageInv, AbortInv
<1>4. PassedInv'
  <2> SUFFICES ASSUME SecureBurn', failures' = 0, ~refused',
                      NEW n \in Burnable', Passed(n)', NEW a \in Extent(n)', Kept(n, a)'
               PROVE  flash'[a] = OwnByte(n, a)'
    BY DEF PassedInv
  <2>1. /\ SecureBurn /\ failures = 0 /\ ~refused /\ n \in Burnable
        /\ Burnable' = Burnable
        /\ a \in Extent(n) /\ OwnByte(n, a)' = OwnByte(n, a)
        /\ \A k : Extent(k)' = Extent(k)
    BY SameFlash
  <2>2. step \in 1..6 /\ part = SecureEncryption[step] /\ part.name \notin Burnable
    BY <2>1, SecurePart
  <2>3. \A k \in Burnable : Passed(k)' <=> Passed(k)
    BY <2>2 DEF Passed
  <2>4. Passed(n) /\ Kept(n, a)
    BY <2>1, <2>3 DEF Kept, After
  <2> QED
    BY <2>1, <2>4 DEF PassedInv
<1> QED
  BY <1>1, <1>2, <1>3, <1>4

\* Skip and Refuse.
LEMMA SkipKeeps == IInv /\ (Skip \/ Refuse) => IInv'
<1>1. IInv /\ Skip => IInv'
  BY PassOver DEF Skip, IInv, TypeOK, history
<1>2. IInv /\ Refuse => IInv'
  BY PassOver DEF Refuse, IInv, TypeOK
<1> QED
  BY <1>1, <1>2

\* A download begins only without an abort, so none has been written to after one.
LEMMA DownloadKeeps == IInv /\ Download => IInv'
<1> SUFFICES ASSUME IInv, Download PROVE IInv'
  OBVIOUS
<1> USE DEF IInv, Download, AtPart, burn, history
<1>1. TypeOK'
  BY DEF TypeOK
<1>2. FilesInv' /\ TableInv' /\ OnlyOwnPlaces' /\ CompatInv' /\ MbrAgrees'
  BY SameFlash
<1>3. DownloadInv'
  BY DEF DownloadInv, Wanted, data, place, part
<1>4. MessageInv' /\ AbortInv'
  BY DEF MessageInv, AbortInv
<1>5. PassedInv'
  BY SameFlash DEF PassedInv, Passed, Kept, After
<1> QED
  BY <1>1, <1>2, <1>3, <1>4, <1>5

\* A download ends: only the bytes its file takes from its own place on change.
LEMMA LeaveKeeps ==
    ASSUME IInv, pc = "download", pc' = "next", step' = step + 1,
           NEW inPlace \in Nat, NEW torn \in Nat, inPlace + torn <= Size[data],
           Leave(inPlace, torn),
           failures' \in 0..MaxFailures,
           failures' = 0 => failures = 0 /\ inPlace = Size[data],
           UNCHANGED <<mode, mbr_dbuf, files, flag_abort, refused, message>>
    PROVE  IInv'
<1> USE DEF IInv
<1>0. PICK own : own = part.name
  OBVIOUS
<1> DEFINE written == place.addr..place.addr + Size[data] - 1
<1>1. /\ step <= Len(Parts(mode)) /\ Wanted /\ data # Empty
      /\ place.addr \in 0..FLASH_ADDR_LIMITED_SIZE - 1 /\ Size[data] \in 1..MaxSize
      /\ data \in Tables \cup {Short} \cup ImageNames
  BY PartInTurn DEF DownloadInv
<1>2. /\ flash' \in [Places -> Bytes]
      /\ \A a \in Places : \/ flash'[a] = flash[a]
                           \/ a \in written /\ flash'[a] \in {Torn, Byte(data, a - place.addr)}
  <2> DEFINE new(a) ==
        IF a \in place.addr..place.addr + inPlace - 1 THEN Byte(data, a - place.addr)
        ELSE IF a \in place.addr + inPlace..place.addr + inPlace + torn - 1 THEN Torn
        ELSE flash[a]
  <2>1. flash' = [a \in Places |-> new(a)]
    BY DEF Leave
  <2>2. ASSUME NEW a \in Places
        PROVE  /\ \/ new(a) = flash[a]
                  \/ a \in written /\ new(a) \in {Torn, Byte(data, a - place.addr)}
               /\ a \in written => Byte(data, a - place.addr) \in Bytes
    <3>1. a \in Nat /\ MaxSize \in Nat
      BY SizeAssumption DEF SizeAssumption, Places
    <3>2. a \in written => Byte(data, a - place.addr) \in Bytes
      BY <1>1, <3>1 DEF Byte, Bytes
    <3>3. CASE a \in place.addr..place.addr + inPlace - 1
      <4>1. new(a) = Byte(data, a - place.addr)
        BY <3>3
      <4>2. a \in written
        BY <1>1, <3>1, <3>3
      <4> QED
        BY <3>2, <4>1, <4>2
    <3>4. CASE /\ a \notin place.addr..place.addr + inPlace - 1
               /\ a \in place.addr + inPlace..place.addr + inPlace + torn - 1
      <4>1. new(a) = Torn
        BY <3>4
      <4>2. a \in written
        BY <1>1, <3>1, <3>4
      <4> QED
        BY <3>2, <4>1, <4>2
    <3>5. CASE /\ a \notin place.addr..place.addr + inPlace - 1
               /\ a \notin place.addr + inPlace..place.addr + inPlace + torn - 1
      BY <3>2, <3>5
    <3> QED
      BY <3>3, <3>4, <3>5
  <2>3. \A a \in Places : new(a) \in Bytes
    BY <2>2, OldByte DEF TypeOK
  <2> HIDE DEF new, written
  <2> QED
    BY <2>1, <2>2, <2>3
<1>3. inPlace = Size[data] =>
        \A a \in Places : flash'[a] = IF a \in written THEN Byte(data, a - place.addr)
                                                      ELSE flash[a]
  BY <1>1, <1>2 DEF Leave
<1> HIDE DEF written
<1>4. TypeOK'
  <2>1. step \in 1..Len(Parts(mode)) /\ step' \in 1..Len(Parts(mode')) + 1
    BY <1>1, Lists DEF TypeOK
  <2>2. afterAbort' \subseteq 1..Len(Parts(mode'))
    BY <2>1 DEF Leave, TypeOK
  <2> QED
    BY <1>2, <2>1, <2>2 DEF TypeOK
<1>5. FilesInv' /\ TableInv' /\ DownloadInv' /\ MessageInv'
  BY DEF FilesInv, TableInv, SecureBurn, DownloadInv, MessageInv
<1>6. AbortInv'
  <2>1. step \in 1..Len(Parts(mode))
    BY <1>1, Lists DEF TypeOK
  <2> QED
    BY <2>1 DEF AbortInv, Leave
<1>7. /\ SecureBurn' <=> SecureBurn
      /\ Burnable' = Burnable
      /\ \A n : Extent(n)' = Extent(n) /\ (Fits(n)' <=> Fits(n))
      /\ \A n, a : OwnByte(n, a)' = OwnByte(n, a)
  BY DEF SecureBurn, Burnable, Intended, Extent, Fits, OwnByte
<1>8. SecureBurn => /\ step \in 1..6
                    /\ SecureEncryption[step].name = own
                    /\ own \in Burnable
                    /\ written = Extent(own)
                    /\ \A a : Byte(data, a - place.addr) = OwnByte(own, a)
  BY <1>0, <1>1, SecurePart DEF written, Extent, OwnByte
<1>9. OnlyOwnPlaces'
  <2> SUFFICES ASSUME SecureBurn, NEW a \in Places, flash'[a] # Old
               PROVE  \E n \in Burnable : /\ a \in Extent(n)
                                          /\ flash'[a] \in {Torn, OwnByte(n, a)}
                                          /\ Fits(n) => a < FLASH_ADDR_LIMITED_SIZE
    BY <1>7 DEF OnlyOwnPlaces
  <2>1. CASE flash'[a] = flash[a]
    BY <2>1 DEF OnlyOwnPlaces
  <2>2. CASE flash'[a] # flash[a]
    <3>1. own \in Burnable /\ a \in Extent(own)
          /\ flash'[a] \in {Torn, OwnByte(own, a)}
      BY <1>2, <1>8, <2>2
    <3>2. Fits(own) => a \in 0..FLASH_ADDR_LIMITED_SIZE - 1
      BY <3>1, BurnableExtent
    <3> QED
      BY <3>1, <3>2, WordAssumption DEF WordAssumption
  <2> QED
    BY <2>1, <2>2
<1>10. PassedInv'
  <2> SUFFICES ASSUME SecureBurn, failures' = 0, ~refused,
                      NEW n \in Burnable, Passed(n)', NEW a \in Extent(n), Kept(n, a)'
               PROVE  flash'[a] = OwnByte(n, a)
    BY <1>7 DEF PassedInv
  <2>1. a \in Places
    BY BurnableExtent
  <2>2. flash'[a] = IF a \in Extent(own) THEN OwnByte(own, a) ELSE flash[a]
    BY <1>3, <1>8, <2>1
  <2>3. PICK i \in 1..step' - 1 : SecureEncryption[i].name = n
    BY DEF Passed
  <2>4. i \in 1..step /\ step \in 1..6 /\ SecureEncryption[step].name = own
    BY <1>8, <2>3
  <2>5. CASE i = step
    BY <2>2, <2>3, <2>4, <2>5
  <2>6. CASE i # step
    <3>1. i \in 1..step - 1 /\ i < step
      BY <2>4, <2>6
    <3>2. Passed(n) /\ Passed(own)'
      <4>1. step \in 1..step' - 1
        BY <2>4
      <4> QED
        BY <2>3, <2>4, <3>1, <4>1 DEF Passed
    <3>3. After(own, n)
      BY <2>3, <2>4, <3>1, SecureList DEF After
    <3>4. a \notin Extent(own)
      BY <1>7, <1>8, <3>2, <3>3 DEF Kept, After
    <3>5. Kept(n, a)
      <4>1. \A k : Passed(k) => Passed(k)'
        BY <2>4 DEF Passed
      <4> QED
        BY <1>7, <4>1 DEF Kept, After
    <3> QED
      BY <2>2, <3>2, <3>4, <3>5 DEF PassedInv
  <2> QED
    BY <2>5, <2>6
<1>11. CompatInv'
  BY DEF CompatInv, is_mbr_cfg_valid
<1>12. MbrAgrees'
  <2> SUFFICES ASSUME NEW a \in Places, flash'[a].of \in Tables
               PROVE  /\ flash'[a].of = mbr_dbuf
                      /\ is_mbr_cfg_valid
                      /\ a = Lookup[mbr_dbuf]["mbr(self)"].addr + flash'[a].at
    BY DEF MbrAgrees, is_mbr_cfg_valid
  <2>1. CASE flash'[a] = flash[a]
    BY <2>1 DEF MbrAgrees
  <2>2. CASE flash'[a] # flash[a]
    <3>1. flash'[a] = Byte(data, a - place.addr)
      BY <1>2, <2>2, OldByte
    <3>2. flash'[a].of = data /\ flash'[a].at = a - place.addr
      BY <3>1 DEF Byte
    <3>3. a = place.addr + (a - place.addr)
      BY <1>1 DEF Places
    <3> QED
      BY <1>1, <3>2, <3>3, TableInTurn
  <2> QED
    BY <2>1, <2>2
<1> QED
  BY <1>4, <1>5, <1>6, <1>9, <1>10, <1>11, <1>12

\* Both ends of a download.
LEMMA DownloadEndsKeeps == IInv /\ (DownloadSucceeds \/ DownloadFails) => IInv'
<1>1. ASSUME IInv, pc = "download" PROVE Size[data] \in Nat
  BY <1>1, PartInTurn DEF IInv, DownloadInv
<1>2. ASSUME IInv, DownloadSucceeds PROVE IInv'
  <2>1. failures' \in 0..MaxFailures
    BY <1>2 DEF DownloadSucceeds, IInv, TypeOK
  <2>2. Size[data] \in Nat /\ Size[data] + 0 <= Size[data]
    BY <1>1, <1>2 DEF DownloadSucceeds
  <2> QED
    BY <1>2, <2>1, <2>2, LeaveKeeps DEF DownloadSucceeds
<1>3. ASSUME IInv, DownloadFails PROVE IInv'
  <2>0. PICK inPlace \in 0..Size[data] : \E torn \in 0..Size[data] - inPlace : Leave(inPlace, torn)
    BY <1>3 DEF DownloadFails
  <2>1. PICK torn \in 0..Size[data] - inPlace : Leave(inPlace, torn)
    BY <2>0
  <2>2. inPlace \in Nat /\ torn \in Nat /\ inPlace + torn <= Size[data]
    BY <1>1, <1>3, <2>1 DEF DownloadFails
  <2>3. failures' \in 0..MaxFailures /\ failures' # 0
    BY <1>3, ImagesAssumption DEF ImagesAssumption, DownloadFails, IInv, TypeOK
  <2> QED
    BY <1>3, <2>1, <2>2, <2>3, LeaveKeeps DEF DownloadFails
<1> QED
  BY <1>2, <1>3

\* The end of a burn, the Abort button, and steps that change nothing.
LEMMA OtherKeeps == IInv /\ (Finish \/ AbortClicked \/ UNCHANGED vars) => IInv'
<1> SUFFICES ASSUME IInv, Finish \/ AbortClicked \/ UNCHANGED vars PROVE IInv'
  OBVIOUS
<1> USE DEF IInv, Finish, AbortClicked, vars, burn, history
<1>1. UNCHANGED <<mode, step, mbr_dbuf, files, flash, failures, refused, afterAbort>>
  OBVIOUS
<1>2. TypeOK'
  <2>1. flag_abort' \in BOOLEAN /\ pc' \in {"idle", "next", "download"}
    BY DEF TypeOK
  <2>2. message' \in {"none", BurnOk}
    BY DEF TypeOK
  <2> QED
    BY <1>1, <2>1, <2>2 DEF TypeOK
<1>3. FilesInv' /\ TableInv' /\ OnlyOwnPlaces' /\ CompatInv' /\ MbrAgrees'
  BY <1>1, SameFlash
<1>4. DownloadInv'
  BY <1>1 DEF DownloadInv, Wanted, data, place, part
<1>5. MessageInv' /\ AbortInv'
  BY <1>1 DEF MessageInv, AbortInv
<1>6. PassedInv'
  BY <1>1, SameFlash DEF PassedInv, Passed, Kept, After
<1> QED
  BY <1>2, <1>3, <1>4, <1>5, <1>6

-------------------------------------------------------------------------------

\* The inductive invariant holds in every reachable state.
THEOREM Invariance == Spec => []IInv
<1>1. IInv /\ [Next]_vars => IInv'
  BY StartKeeps, SkipKeeps, DownloadKeeps, DownloadEndsKeeps, OtherKeeps DEF Next, Burn
<1> QED
  BY <1>1, InitIInv, PTL DEF Spec

\* TypeOK: the types of the burn's state; what the flash holds is bytes of files, each
\* within the file's length.
THEOREM TypeCorrect == Spec => []TypeOK
<1>1. IInv => TypeOK
  BY DEF IInv
<1> QED
  BY <1>1, Invariance, PTL

\* OnlyOwnPlaces: whatever fails, a secure burn writes each file from the start of its own
\* partitions on and as far as the file goes, and a file that fits never leaves the flash.
THEOREM OnlyOwnPlacesHolds == Spec => []OnlyOwnPlaces
<1>1. IInv => OnlyOwnPlaces
  BY DEF IInv
<1> QED
  BY <1>1, Invariance, PTL

\* CompleteUnlessFailed: a secure burn without failure or abort burns all it is to burn,
\* but for what a later file runs over.
THEOREM CompleteUnlessFailedHolds == Spec => []CompleteUnlessFailed
<1>1. IInv => CompleteUnlessFailed
  <2> SUFFICES ASSUME IInv, message = BurnOk, SecureBurn, failures = 0, ~refused,
                      NEW n \in Burnable, NEW a \in Extent(n),
                      \A k \in Burnable : After(k, n) => a \notin Extent(k)
               PROVE  flash[a] = OwnByte(n, a)
    BY DEF CompleteUnlessFailed
  <2>1. step > 6
    BY SecureList DEF IInv, MessageInv, SecureBurn, Parts
  <2>2. n \in {"mbr(self)", "auth.code", "ramloader", "ramloader-bk",
               "bb.firmware", "bb.firmware-bk"}
    BY DEF IInv, FilesInv, SecureBurn, Burnable, PartitionNames, OwnFile
  <2>3. \E i \in 1..6 : SecureEncryption[i].name = n
    BY <2>2, SecureList DEF Part
  <2>4. Passed(n) /\ Kept(n, a)
    BY <2>1, <2>3 DEF Passed, Kept, IInv, TypeOK
  <2> QED
    BY <2>4 DEF IInv, PassedInv
<1> QED
  BY <1>1, Invariance, PTL

\* Every file fits its partition, and no two partitions that are burned overlap.
Room ==
    \A n \in Burnable : Fits(n) /\ \A k \in Burnable \ {n} :
        (Intended(n).addr..Intended(n).addr + Intended(n).size - 1)
          \cap (Intended(k).addr..Intended(k).addr + Intended(k).size - 1) = {}

\* Files that have room are complete when a burn without failure or abort is over: what
\* the code never compares is the only thing that can spoil such a burn.
FilesComplete ==
    (pc = "idle" /\ message = BurnOk /\ SecureBurn /\ failures = 0 /\ ~refused /\ Room) =>
        \A n \in Burnable : \A a \in Extent(n) : flash[a] = OwnByte(n, a)

\* FilesComplete, from CompleteUnlessFailed: where there is room no file reaches another.
THEOREM FilesCompleteHolds == Spec => []FilesComplete
<1>1. TypeOK /\ CompleteUnlessFailed => FilesComplete
  <2> SUFFICES ASSUME TypeOK, CompleteUnlessFailed, pc = "idle", message = BurnOk, SecureBurn,
                      failures = 0, ~refused, Room, NEW n \in Burnable, NEW a \in Extent(n)
               PROVE  flash[a] = OwnByte(n, a)
    BY DEF FilesComplete
  <2>1. ASSUME NEW k \in Burnable, After(k, n) PROVE a \notin Extent(k)
    <3>1. k # n
      BY <2>1, NamesDiffer, SecureList DEF After
    <3>2. /\ Extent(n) \subseteq Intended(n).addr..Intended(n).addr + Intended(n).size - 1
          /\ Extent(k) \subseteq Intended(k).addr..Intended(k).addr + Intended(k).size - 1
      BY <2>1, BurnableExtent DEF Room
    <3> QED
      BY <2>1, <3>1, <3>2 DEF Room
  <2> QED
    BY <2>1 DEF CompleteUnlessFailed
<1> QED
  BY <1>1, TypeCorrect, CompleteUnlessFailedHolds, PTL

\* MbrAgrees: a burn places its partitions by the MBR it burns, in every mode.
THEOREM MbrAgreesHolds == Spec => []MbrAgrees
<1>1. IInv => MbrAgrees
  BY DEF IInv
<1> QED
  BY <1>1, Invariance, PTL

\* AbortStops: after an abort at most one partition is written to.
THEOREM AbortStopsHolds == Spec => []AbortStops
<1>1. AbortInv => AbortStops
  <2>1. CASE afterAbort = {}
    <3>1. Cardinality(afterAbort) = 0
      BY <2>1, FS_EmptySet
    <3> QED
      BY <3>1 DEF AbortStops
  <2>2. ASSUME NEW i, afterAbort = {i} PROVE AbortStops
    <3>1. Cardinality({i}) = 1
      BY FS_Singleton
    <3> QED
      BY <2>2, <3>1 DEF AbortStops
  <2> QED
    BY <2>1, <2>2 DEF AbortInv
<1>2. IInv => AbortInv
  BY DEF IInv
<1> QED
  BY <1>1, <1>2, Invariance, PTL

===============================================================================
