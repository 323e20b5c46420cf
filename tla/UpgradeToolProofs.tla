--------------------------- MODULE UpgradeToolProofs ---------------------------
(***************************************************************************)
(* Proofs about UpgradeTool, for every page size, choice of files and list *)
(* of partitions: types, where progress is shown, what the "Flash file     *)
(* burn OK." message means, and that an abort is obeyed.                   *)
(***************************************************************************)
EXTENDS UpgradeTool, BurnImageProofs

BurnSet == [panel : Panels, part : 0..Len(SysParts), mine : BOOLEAN]

\* Operators of the module for any sequence of burns.
Runs(bs, p)  == \E i \in DOMAIN bs : bs[i].panel = p
Distinct(bs) == \A i, j \in DOMAIN bs : i # j => bs[i].panel # bs[j].panel
Front(bs)    == [i \in 1..Len(bs) - 1 |-> bs[i]]

\* What a burn that has set the mode and the file can rely on.
RoutedFor(bs, mode) ==
    \A i \in DOMAIN bs : bs[i].mine => (mode = "CompatibilityMode" <=> bs[i].panel = "bb")

-------------------------------------------------------------------------------
(* Sequences of burns. *)

\* Taking the progress from all the burns changes nothing else of them.
LEMMA TakenHolds ==
    ASSUME NEW bs \in Seq(BurnSet)
    PROVE  /\ Taken(bs) \in Seq(BurnSet)
           /\ Len(Taken(bs)) = Len(bs)
           /\ \A i \in DOMAIN bs : Taken(bs)[i].panel = bs[i].panel /\ ~Taken(bs)[i].mine
<1>1. DOMAIN bs = 1..Len(bs) /\ Len(bs) \in Nat
  OBVIOUS
<1>2. \A b \in BurnSet : /\ [b EXCEPT !.mine = FALSE] \in BurnSet
                         /\ [b EXCEPT !.mine = FALSE].panel = b.panel
                         /\ ~[b EXCEPT !.mine = FALSE].mine
  BY DEF BurnSet
<1>3. \A i \in DOMAIN bs : bs[i] \in BurnSet
  OBVIOUS
<1>4. Taken(bs) \in [1..Len(bs) -> BurnSet]
  BY <1>1, <1>2, <1>3 DEF Taken
<1>5. Taken(bs) \in Seq(BurnSet) /\ Len(Taken(bs)) = Len(bs)
  BY <1>1, <1>4
<1>6. \A i \in DOMAIN bs : Taken(bs)[i] = [bs[i] EXCEPT !.mine = FALSE]
  BY DEF Taken
<1> QED
  BY <1>2, <1>3, <1>5, <1>6

\* All the burns but the innermost.
LEMMA FrontHolds ==
    ASSUME NEW bs \in Seq(BurnSet), bs # <<>>
    PROVE  /\ Front(bs) \in Seq(BurnSet)
           /\ Len(Front(bs)) = Len(bs) - 1
           /\ \A i \in DOMAIN Front(bs) : i \in DOMAIN bs /\ Front(bs)[i] = bs[i]
<1>1. Len(bs) \in Nat \ {0}
  BY EmptySeq
<1>2. Front(bs) \in [1..Len(bs) - 1 -> BurnSet]
  BY <1>1 DEF Front
<1> QED
  BY <1>1, <1>2 DEF Front

\* A burn that begins.
LEMMA PushHolds ==
    ASSUME NEW bs \in Seq(BurnSet), Distinct(bs), NEW b \in BurnSet, ~Runs(bs, b.panel)
    PROVE  /\ Append(bs, b) \in Seq(BurnSet) /\ Append(bs, b) # <<>>
           /\ Len(Append(bs, b)) = Len(bs) + 1
           /\ Append(bs, b)[Len(bs) + 1] = b /\ \A i \in DOMAIN bs : Append(bs, b)[i] = bs[i]
           /\ Distinct(Append(bs, b))
           /\ \A p \in Panels : Runs(Append(bs, b), p) <=> (Runs(bs, p) \/ p = b.panel)
<1> DEFINE n == Len(bs)
           new == Append(bs, b)
<1>1. n \in Nat /\ DOMAIN bs = 1..n
  OBVIOUS
<1>2. /\ new \in Seq(BurnSet) /\ Len(new) = n + 1 /\ DOMAIN new = 1..n + 1
      /\ new[n + 1] = b /\ \A i \in 1..n : new[i] = bs[i]
  OBVIOUS
<1> HIDE DEF new
<1>3. new # <<>>
  BY <1>1, <1>2
<1>4. Distinct(new)
  BY <1>1, <1>2 DEF Distinct, Runs
<1>5. \A p \in Panels : Runs(new, p) <=> (Runs(bs, p) \/ p = b.panel)
  BY <1>1, <1>2 DEF Runs
<1> QED
  BY <1>1, <1>2, <1>3, <1>4, <1>5 DEF new

\* The innermost burn returns: it does not run any longer, the others do.
LEMMA PopHolds ==
    ASSUME NEW bs \in Seq(BurnSet), bs # <<>>, Distinct(bs)
    PROVE  /\ Distinct(Front(bs))
           /\ bs[Len(bs)].panel \in Panels
           /\ ~Runs(Front(bs), bs[Len(bs)].panel)
           /\ \A p \in Panels : Runs(bs, p) <=> (Runs(Front(bs), p) \/ p = bs[Len(bs)].panel)
<1> DEFINE n == Len(bs)
           old == Front(bs)
<1>1. n \in Nat \ {0} /\ DOMAIN bs = 1..n
  BY EmptySeq
<1>2. /\ old \in Seq(BurnSet) /\ Len(old) = n - 1 /\ DOMAIN old = 1..n - 1
      /\ \A i \in 1..n - 1 : old[i] = bs[i]
  <2>1. /\ old \in Seq(BurnSet) /\ Len(old) = n - 1
        /\ \A i \in DOMAIN old : old[i] = bs[i]
    BY FrontHolds
  <2> HIDE DEF old
  <2> QED
    BY <1>1, <2>1
<1>3. bs[n] \in BurnSet
  <2>1. \A i \in DOMAIN bs : bs[i] \in BurnSet
    OBVIOUS
  <2> QED
    BY <1>1, <2>1
<1> HIDE DEF old
<1>4. Distinct(old)
  BY <1>1, <1>2 DEF Distinct
<1>6. ~Runs(old, bs[n].panel)
  BY <1>1, <1>2 DEF Distinct, Runs
<1>7. bs[n].panel \in Panels
  BY <1>3 DEF BurnSet
<1>5. \A p \in Panels : Runs(bs, p) <=> (Runs(old, p) \/ p = bs[n].panel)
  BY <1>1, <1>2 DEF Runs
<1> QED
  BY <1>4, <1>5, <1>6, <1>7 DEF old

\* Taking the progress from them changes neither which panels run nor their order.
LEMMA TakenRuns ==
    ASSUME NEW bs \in Seq(BurnSet), Distinct(bs)
    PROVE  Distinct(Taken(bs)) /\ \A p \in Panels : Runs(Taken(bs), p) <=> Runs(bs, p)
<1>1. DOMAIN Taken(bs) = DOMAIN bs
  BY TakenHolds
<1> QED
  BY <1>1, TakenHolds DEF Distinct, Runs

-------------------------------------------------------------------------------
(* What the steps do to the burns. *)

BurnsOK ==
    /\ burns \in Seq(BurnSet) /\ Distinct(burns)
    /\ startEnabled = [p \in Panels |-> ~Running(p)]

LEMMA BurnsOKHolds == TypeOK => BurnsOK /\ \A p : Running(p) <=> Runs(burns, p)
BY DEF TypeOK, BurnsOK, BurnSet, Distinct, Running, Runs

\* A Start.
LEMMA Begins ==
    ASSUME BurnsOK, NEW p \in Panels, startEnabled[p], NEW mine \in BOOLEAN,
           \/ burns' = Append(burns, Burn(p, 0, mine))
           \/ burns' = Append(Taken(burns), Burn(p, 0, mine)),
           Disable(p)
    PROVE  /\ BurnsOK' /\ burns' # <<>> /\ Len(burns') = Len(burns) + 1
           /\ burns'[Len(burns) + 1] = Burn(p, 0, mine)
           /\ \A q \in Panels : Running(q)' <=> (Running(q) \/ q = p)
<1> DEFINE b == Burn(p, 0, mine)
<1>1. b \in BurnSet /\ b.panel = p
  <2>1. 0 \in 0..Len(SysParts)
    BY PartsAssumption DEF PartsAssumption
  <2> QED
    BY <2>1 DEF Burn, BurnSet
<1>2. burns \in Seq(BurnSet) /\ Distinct(burns) /\ ~Runs(burns, p)
  BY DEF BurnsOK, Running, Runs
<1>3. PICK base \in {burns, Taken(burns)} : burns' = Append(base, b)
  OBVIOUS
<1>4. /\ base \in Seq(BurnSet) /\ Distinct(base) /\ Len(base) = Len(burns)
      /\ \A q \in Panels : Runs(base, q) <=> Runs(burns, q)
  BY <1>2, TakenHolds, TakenRuns
<1> HIDE DEF b
<1>5. /\ burns' \in Seq(BurnSet) /\ burns' # <<>> /\ Len(burns') = Len(burns) + 1
      /\ burns'[Len(burns) + 1] = b /\ Distinct(burns')
      /\ \A q \in Panels : Runs(burns', q) <=> (Runs(burns, q) \/ q = p)
  <2>1. ~Runs(base, b.panel)
    BY <1>1, <1>2, <1>4
  <2> QED
    BY <1>1, <1>3, <1>4, <2>1, PushHolds
<1>6. \A q \in Panels : Running(q)' <=> (Running(q) \/ q = p)
  BY <1>5 DEF Running, Runs
<1>7. startEnabled' = [q \in Panels |-> ~Running(q)']
  BY <1>6 DEF BurnsOK, Disable
<1> QED
  BY <1>5, <1>6, <1>7 DEF BurnsOK, b

\* The return of the innermost burn.
LEMMA Ends ==
    ASSUME BurnsOK, NEW p \in Panels, IsInner(p), burns' = Outer, Enable(p)
    PROVE  /\ BurnsOK' /\ burns # <<>> /\ Running(p) /\ Len(burns') = Len(burns) - 1
           /\ \A i \in DOMAIN burns' : i \in DOMAIN burns /\ burns'[i] = burns[i]
           /\ ~Running(p)' /\ \A q \in Panels : q # p => (Running(q)' <=> Running(q))
<1>1. /\ burns \in Seq(BurnSet) /\ Distinct(burns) /\ burns # <<>>
      /\ burns[Len(burns)].panel = p /\ burns' = Front(burns)
  BY DEF BurnsOK, IsInner, Inner, Outer, Front
<1>2. /\ burns' \in Seq(BurnSet) /\ Len(burns') = Len(burns) - 1
      /\ \A i \in DOMAIN burns' : i \in DOMAIN burns /\ burns'[i] = burns[i]
  BY <1>1, FrontHolds
<1>3. /\ Distinct(burns') /\ ~Runs(burns', p)
      /\ \A q \in Panels : Runs(burns, q) <=> (Runs(burns', q) \/ q = p)
  BY <1>1, PopHolds
<1>4. /\ Running(p) /\ ~Running(p)'
      /\ \A q \in Panels : q # p => (Running(q)' <=> Running(q))
  BY <1>3 DEF Running, Runs
<1>5. startEnabled' = [q \in Panels |-> ~Running(q)']
  BY <1>4 DEF BurnsOK, Enable
<1> QED
  BY <1>1, <1>2, <1>3, <1>4, <1>5 DEF BurnsOK

\* A system burn gets to a partition.
LEMMA Moves ==
    ASSUME BurnsOK, NEW k \in DOMAIN SysParts, IsInner("sys"),
           NEW base, base = Taken(Outer),
           burns' = Append(base, Burn("sys", k, TRUE)), UNCHANGED startEnabled
    PROVE  /\ BurnsOK' /\ burns' # <<>> /\ Len(burns') = Len(burns)
           /\ \A q \in Panels : Running(q)' <=> Running(q)
           /\ RoutedFor(burns', "SecureEncryptionMode")
<1> DEFINE b == Burn("sys", k, TRUE)
<1>1. b \in BurnSet /\ b.panel = "sys"
  <2>1. k \in 0..Len(SysParts)
    BY PartsAssumption DEF PartsAssumption
  <2> QED
    BY <2>1 DEF Burn, BurnSet, Panels
<1>2. /\ burns \in Seq(BurnSet) /\ Distinct(burns) /\ burns # <<>>
      /\ burns[Len(burns)].panel = "sys" /\ base = Taken(Front(burns)) /\ burns' = Append(base, b)
  BY DEF BurnsOK, IsInner, Inner, Outer, Front
<1> HIDE DEF b
<1>3. /\ Front(burns) \in Seq(BurnSet) /\ Len(Front(burns)) = Len(burns) - 1
      /\ Distinct(Front(burns)) /\ ~Runs(Front(burns), "sys")
      /\ \A q \in Panels : Runs(burns, q) <=> (Runs(Front(burns), q) \/ q = "sys")
  BY <1>2, FrontHolds, PopHolds
<1>4. /\ base \in Seq(BurnSet) /\ Distinct(base) /\ Len(base) = Len(burns) - 1
      /\ \A i \in DOMAIN Front(burns) : ~base[i].mine
      /\ \A q \in Panels : Runs(base, q) <=> Runs(Front(burns), q)
  BY <1>2, <1>3, TakenHolds, TakenRuns
<1>5. \A i \in DOMAIN base : ~base[i].mine
  <2>1. DOMAIN base = DOMAIN Front(burns)
    BY <1>2 DEF Taken, Front
  <2> QED
    BY <1>2, <1>4, <2>1
<1>6. /\ burns' \in Seq(BurnSet) /\ burns' # <<>> /\ Len(burns') = Len(base) + 1
      /\ burns'[Len(base) + 1] = b /\ Distinct(burns')
      /\ \A i \in DOMAIN base : burns'[i] = base[i]
      /\ \A q \in Panels : Runs(burns', q) <=> (Runs(base, q) \/ q = "sys")
  <2>1. ~Runs(base, b.panel)
    BY <1>1, <1>3, <1>4 DEF Panels
  <2>2. base \in Seq(BurnSet) /\ Distinct(base) /\ b \in BurnSet /\ b.panel = "sys"
    BY <1>1, <1>4
  <2>3. burns' = Append(base, b)
    BY <1>2
  <2> QED
    <3>1. /\ Append(base, b) \in Seq(BurnSet) /\ Append(base, b) # <<>>
          /\ Len(Append(base, b)) = Len(base) + 1 /\ Append(base, b)[Len(base) + 1] = b
          /\ \A i \in DOMAIN base : Append(base, b)[i] = base[i]
          /\ Distinct(Append(base, b))
          /\ \A q \in Panels : Runs(Append(base, b), q) <=> (Runs(base, q) \/ q = b.panel)
      BY <2>1, <2>2, PushHolds
    <3> QED
      BY <2>2, <2>3, <3>1, Zenon
<1>7. \A q \in Panels : Running(q)' <=> Running(q)
  BY <1>3, <1>4, <1>6 DEF Running, Runs
<1>8. startEnabled' = [q \in Panels |-> ~Running(q)']
  BY <1>7 DEF BurnsOK
<1>9. Len(burns') = Len(burns)
  BY <1>2, <1>4, <1>6
<1>10. RoutedFor(burns', "SecureEncryptionMode")
  <2>1. \A i \in DOMAIN burns' : i \in DOMAIN base \/ i = Len(base) + 1
    BY <1>4, <1>6
  <2>2. \A i \in DOMAIN base : burns'[i] = base[i]
    BY <1>6
  <2>3. \A i \in DOMAIN burns' : burns'[i].mine => burns'[i].panel = "sys"
    BY <1>1, <1>5, <1>6, <2>1, <2>2
  <2> QED
    BY <2>3 DEF RoutedFor
<1> QED
  BY <1>6, <1>7, <1>8, <1>9, <1>10 DEF BurnsOK

-------------------------------------------------------------------------------
(* The invariant. *)

\* Only what routes the progress of the burn in the foreground is believed.
RouteInv == RoutedFor(burns, current_mode)

\* A burn is told to stop through the flag.
AbortInv == aborted # {} => flag_abort

\* Two burns run only if the last that began was inside another.
SoloInv == ~overlapped => Len(burns) <= 1

\* There is an image, or has been one since the last message; what bbBurnfile begins with
\* is a header that verifies, as each image keeps the one that was there before it.
Made == Running("bb") \/ message = BurnOk

ImageInv ==
    /\ creates = 0 => bbBinfile = <<>> /\ bbBurnfile = <<>> /\ ~Made
    /\ Made => /\ Len(bbBurnfile) = HdrSize + Planned(Len(bbBinfile))
               /\ creates = 1 => IsImageOf(bbBurnfile, wanted)
    /\ Headed(bbBurnfile)

FlashInv == (message = BurnOk /\ burns = <<>> /\ ~overlapped) => flash = bbBurnfile

\* Only a burn that runs hangs, and between partitions a system burn waits for nothing.
HungInv ==
    /\ hung \subseteq {p \in Panels : Running(p)}
    /\ ~eventLoop => "sys" \notin hung

IInv == TypeOK /\ HungInv /\ RouteInv /\ AbortInv /\ SoloInv /\ ImageInv /\ FlashInv

\* At the beginning.
LEMMA InitHolds == Init => IInv
<1> SUFFICES ASSUME Init PROVE IInv
  OBVIOUS
<1>1. ~Running("bb") /\ ~Running("sys")
  BY DEF Init, Running
<1>2. /\ <<>> \in Seq(0..255)
      /\ <<>> \in Seq([panel : Panels, part : 0..Len(SysParts), mine : BOOLEAN])
  OBVIOUS
<1>3. startEnabled = [p \in Panels |-> ~Running(p)]
  BY <1>1 DEF Init, Panels
<1>4. creates \in 0..MaxCreates
  BY PartsAssumption DEF PartsAssumption, Init
<1>5. TypeOK
  <2>1. burns \in Seq([panel : Panels, part : 0..Len(SysParts), mine : BOOLEAN])
    BY <1>2 DEF Init
  <2>2. \A i, j \in DOMAIN burns : i # j => burns[i].panel # burns[j].panel
    BY DEF Init
  <2>3. bbBinfile \in Bytes /\ bbBurnfile \in Bytes /\ wanted \in Bytes /\ flash \in Bytes
    BY <1>2 DEF Init, Bytes
  <2> QED
    BY <1>3, <1>4, <2>1, <2>2, <2>3 DEF Init, TypeOK, Message
<1>6. RouteInv /\ AbortInv /\ SoloInv /\ FlashInv
  BY DEF Init, RouteInv, RoutedFor, AbortInv, SoloInv, FlashInv, BurnOk
<1>8. HungInv
  BY DEF Init, HungInv
<1>7. ImageInv
  BY <1>1 DEF Init, ImageInv, Made, BurnOk, Headed
<1> QED
  BY <1>5, <1>6, <1>7, <1>8 DEF IInv

\* The file that is read, or what the last one left, is made of bytes.
LEMMA ReadHolds ==
    ASSUME TypeOK, NEW path \in Paths, get_data_from_sellect_file(path)
    PROVE  bbBinfile' \in Bytes /\ wanted' \in Bytes /\ (path = NoFile \/ wanted' = bbBinfile')
<1>1. <<>> \in Bytes
  BY DEF Bytes
<1>2. path # NoFile => BinFiles[path] \in Bytes
  BY FilesAssumption DEF FilesAssumption, Paths
<1> QED
  BY <1>1, <1>2 DEF TypeOK, get_data_from_sellect_file

\* The Start of a baseband burn, in one place.
LEMMA BBStartHolds ==
    ASSUME TypeOK, Headed(bbBurnfile), NEW path \in Paths, BBStart(path)
    PROVE  /\ BurnsOK' /\ burns' # <<>> /\ Len(burns') = Len(burns) + 1
           /\ \A q \in Panels : Running(q)' <=> (Running(q) \/ q = "bb")
           /\ RoutedFor(burns', "CompatibilityMode")
           /\ bbBurnfile' \in Bytes
           /\ Len(bbBurnfile') = HdrSize + Planned(Len(bbBinfile'))
           /\ bbBurnfile = <<>> => IsImageOf(bbBurnfile', bbBinfile')
           /\ HeaderVerifies(bbBurnfile') /\ SuffixVerifies(bbBurnfile')
           /\ Headed(bbBurnfile')
<1>1. BurnsOK /\ burns \in Seq(BurnSet)
  BY BurnsOKHolds DEF BurnsOK
<1>2. /\ startEnabled["bb"] /\ Disable("bb") /\ "bb" \in Panels
      /\ burns' = Append(Taken(burns), Burn("bb", 0, TRUE))
  BY DEF BBStart, Clickable, Panels
<1>3. /\ BurnsOK' /\ burns' # <<>> /\ Len(burns') = Len(burns) + 1
      /\ burns'[Len(burns) + 1] = Burn("bb", 0, TRUE)
      /\ \A q \in Panels : Running(q)' <=> (Running(q) \/ q = "bb")
  BY <1>1, <1>2, Begins
<1>4. RoutedFor(burns', "CompatibilityMode")
  <2>1. Taken(burns) \in Seq(BurnSet) /\ DOMAIN Taken(burns) = DOMAIN burns
        /\ \A i \in DOMAIN burns : ~Taken(burns)[i].mine
    BY <1>1, TakenHolds
  <2>2. DOMAIN burns' = 1..Len(burns) + 1 /\ DOMAIN burns = 1..Len(burns) /\ Len(burns) \in Nat
    BY <1>1, <1>3 DEF BurnsOK
  <2>3. PICK b : b = Burn("bb", 0, TRUE)
    OBVIOUS
  <2>4. PICK base : base = Taken(burns)
    OBVIOUS
  <2>5. burns' = Append(base, b)
    BY <1>2, <2>3, <2>4
  <2>6. \A i \in DOMAIN burns : burns'[i] = base[i]
    <3>1. base \in Seq(BurnSet) /\ DOMAIN base = DOMAIN burns
      BY <2>1, <2>4
    <3>2. \A i \in DOMAIN base : Append(base, b)[i] = base[i]
      BY <3>1
    <3> QED
      BY <2>5, <3>1, <3>2, Zenon
  <2>7. \A i \in DOMAIN burns' : i \in DOMAIN burns \/ i = Len(burns) + 1
    BY <2>2
  <2>8. Burn("bb", 0, TRUE).panel = "bb"
    BY DEF Burn
  <2>9. \A i \in DOMAIN burns' : burns'[i].mine => burns'[i].panel = "bb"
    BY <1>3, <2>1, <2>4, <2>6, <2>7, <2>8, Zenon
  <2> QED
    BY <2>9 DEF RoutedFor
<1>5. PICK g \in Garbage : bbBurnfile' = bb_flash_file_create(bbBurnfile, bbBinfile', g)
  BY DEF BBStart
<1>6. /\ bbBinfile' \in Seq(Octet) /\ bbBinfile' # <<>> /\ bbBurnfile \in Seq(Octet)
  BY ReadHolds DEF BBStart, TypeOK, Bytes, Octet
<1>7. /\ bb_flash_file_create(bbBurnfile, bbBinfile', g) \in Seq(Octet)
      /\ Len(bb_flash_file_create(bbBurnfile, bbBinfile', g)) = HdrSize + Planned(Len(bbBinfile'))
      /\ bbBurnfile = <<>> =>
            IsImageOf(bb_flash_file_create(bbBurnfile, bbBinfile', g), bbBinfile')
      /\ HeaderVerifies(bb_flash_file_create(bbBurnfile, bbBinfile', g))
      /\ SuffixVerifies(bb_flash_file_create(bbBurnfile, bbBinfile', g))
  BY <1>6, ImageHolds
<1>8. bbBurnfile' \in Bytes
  BY <1>5, <1>7 DEF Bytes, Octet
<1>9. HeaderVerifies(bbBurnfile') /\ SuffixVerifies(bbBurnfile')
  BY <1>5, <1>7, Zenon
<1>10. Headed(bbBurnfile')
  <2>1. Len(bbBinfile') \in Nat
    BY <1>6
  <2>2. Planned(Len(bbBinfile')) \in Nat
    BY <2>1, PlannedHolds
  <2>3. Len(bbBurnfile') >= HdrSize
    BY <1>5, <1>7, <2>2 DEF HdrSize
  <2> QED
    BY <1>9, <2>3 DEF Headed
<1> QED
  BY <1>3, <1>4, <1>5, <1>7, <1>8, <1>9, <1>10

-------------------------------------------------------------------------------
(* Every step preserves it. *)

\* Types but for those of BurnsOK and HungInv.
OthersOK ==
    /\ serialStatusFlag \in BOOLEAN /\ flag_abort \in BOOLEAN /\ eventLoop \in BOOLEAN
    /\ current_mode \in BootMode /\ current_file \in FileIndex
    /\ bbBinfile \in Bytes /\ bbBurnfile \in Bytes /\ wanted \in Bytes /\ flash \in Bytes
    /\ message \in Message
    /\ creates \in 0..MaxCreates
    /\ aborted \subseteq Panels
    /\ overlapped \in BOOLEAN

LEMMA TypeParts == TypeOK => BurnsOK /\ OthersOK
BY DEF TypeOK, BurnsOK, OthersOK, BurnSet, Distinct

LEMMA TypePartsAfter == BurnsOK' /\ OthersOK' /\ HungInv' => TypeOK'
BY DEF TypeOK, BurnsOK, OthersOK, HungInv, BurnSet, Distinct

\* A step that leaves the burns alone.
LEMMA Stays ==
    ASSUME BurnsOK, UNCHANGED <<burns, startEnabled>>
    PROVE  BurnsOK' /\ \A p : Running(p)' <=> Running(p)
BY DEF BurnsOK, Distinct, Running

\* Steps that touch neither burns nor images: the clicks on the port and on Abort.
LEMMA PortStep ==
    ASSUME IInv, OpenClicked \/ CloseClicked \/ AbortClicked
    PROVE  IInv'
<1>1. BurnsOK /\ OthersOK
  BY TypeParts DEF IInv
<1>2. UNCHANGED <<burns, hung, eventLoop, startEnabled, current_mode, current_file,
                  bbBinfile, bbBurnfile, wanted, creates, flash, message, overlapped>>
  BY DEF OpenClicked, CloseClicked, AbortClicked, routing, image
<1>3. BurnsOK' /\ \A p : Running(p)' <=> Running(p)
  BY <1>1, <1>2, Stays
<1>hung. HungInv'
  BY <1>2, <1>3 DEF IInv, HungInv
<1>4. /\ serialStatusFlag' \in BOOLEAN /\ flag_abort' \in BOOLEAN /\ aborted' \subseteq Panels
      /\ AbortInv'
  BY <1>1 DEF OthersOK, IInv, AbortInv, OpenClicked, CloseClicked, AbortClicked, ToldToStop
<1>5. TypeOK'
  <2>1. OthersOK'
    BY <1>1, <1>2, <1>4 DEF OthersOK
  <2> QED
    BY <1>3, <2>1, <1>hung, TypePartsAfter
<1>6. RouteInv' /\ SoloInv' /\ FlashInv'
  BY <1>2 DEF IInv, RouteInv, RoutedFor, SoloInv, FlashInv
<1>7. ImageInv'
  BY <1>2, <1>3 DEF IInv, ImageInv, Made
<1> QED
  BY <1>4, <1>5, <1>6, <1>7, <1>hung DEF IInv

\* A Start that is refused: the port is closed.
LEMMA RefusedStep ==
    ASSUME IInv, NEW p \in Panels, StartRefused(p)
    PROVE  IInv'
<1>1. BurnsOK /\ OthersOK
  BY TypeParts DEF IInv
<1>2. /\ UNCHANGED <<serialStatusFlag, flag_abort, burns, hung, eventLoop, startEnabled,
                     current_mode, current_file, bbBinfile, bbBurnfile, wanted, creates,
                     flash, aborted, overlapped>>
      /\ message' = "Serial port is not opened."
  BY DEF StartRefused, routing, image
<1>3. BurnsOK' /\ \A q : Running(q)' <=> Running(q)
  BY <1>1, <1>2, Stays
<1>hung. HungInv'
  BY <1>2, <1>3 DEF IInv, HungInv
<1>4. message' \in Message /\ message' # BurnOk
  BY <1>2 DEF Message, BurnOk
<1>5. TypeOK'
  <2>1. OthersOK'
    BY <1>1, <1>2, <1>4 DEF OthersOK
  <2> QED
    BY <1>3, <2>1, <1>hung, TypePartsAfter
<1>6. RouteInv' /\ AbortInv' /\ SoloInv' /\ FlashInv'
  BY <1>2, <1>4 DEF IInv, RouteInv, RoutedFor, AbortInv, SoloInv, FlashInv
<1>7. ImageInv'
  BY <1>2, <1>3, <1>4 DEF IInv, ImageInv, Made
<1> QED
  BY <1>5, <1>6, <1>7, <1>hung DEF IInv

\* A Start that finds nothing to burn.
LEMMA EmptyStep ==
    ASSUME IInv, NEW path \in Paths, BBStartEmpty(path)
    PROVE  IInv'
<1>1. TypeOK /\ BurnsOK /\ OthersOK
  BY TypeParts DEF IInv
<1>2. /\ UNCHANGED <<serialStatusFlag, burns, hung, eventLoop, startEnabled, current_mode,
                     current_file, bbBurnfile, creates, flash, overlapped>>
      /\ message' = "Bin file is empty." /\ bbBinfile' = <<>> /\ flag_abort' = FALSE
      /\ aborted' = {} /\ startEnabled["bb"] /\ get_data_from_sellect_file(path)
  BY DEF BBStartEmpty, ClearAbort, Clickable, routing
<1>3. BurnsOK' /\ \A q : Running(q)' <=> Running(q)
  BY <1>1, <1>2, Stays
<1>hung. HungInv'
  BY <1>2, <1>3 DEF IInv, HungInv
<1>4. message' \in Message /\ message' # BurnOk
  BY <1>2 DEF Message, BurnOk
<1>5. TypeOK'
  <2>1. bbBinfile' \in Bytes /\ wanted' \in Bytes
    BY <1>1, <1>2, ReadHolds
  <2>2. OthersOK'
    BY <1>1, <1>2, <1>4, <2>1 DEF OthersOK
  <2> QED
    BY <1>3, <2>2, <1>hung, TypePartsAfter
<1>6. RouteInv' /\ AbortInv' /\ SoloInv' /\ FlashInv'
  BY <1>2, <1>4 DEF IInv, RouteInv, RoutedFor, AbortInv, SoloInv, FlashInv
<1>7. ImageInv'
  <2>1. ~Running("bb")
    BY <1>1, <1>2 DEF BurnsOK, Panels
  <2>2. ~Made'
    BY <1>3, <1>4, <2>1 DEF Made
  <2> QED
    BY <1>2, <2>2 DEF IInv, ImageInv
<1> QED
  BY <1>5, <1>6, <1>7, <1>hung DEF IInv

\* The Start of a baseband burn.
LEMMA BBStartStep ==
    ASSUME IInv, NEW path \in Paths, BBStart(path)
    PROVE  IInv'
<1>1. TypeOK /\ BurnsOK /\ OthersOK
  BY TypeParts DEF IInv
<1>2. /\ UNCHANGED <<serialStatusFlag, hung, eventLoop, flash>>
      /\ flag_abort' = FALSE /\ aborted' = {} /\ overlapped' = (burns # <<>>)
      /\ current_mode' = "CompatibilityMode" /\ current_file' = "BB_File"
      /\ creates' = (IF creates < MaxCreates THEN creates + 1 ELSE creates)
      /\ bbBinfile' # <<>> /\ get_data_from_sellect_file(path)
  BY DEF BBStart, ClearAbort, BBRoute, currentUpgradeProcess
<1>3. /\ BurnsOK' /\ burns' # <<>> /\ Len(burns') = Len(burns) + 1
      /\ \A q \in Panels : Running(q)' <=> (Running(q) \/ q = "bb")
      /\ RoutedFor(burns', "CompatibilityMode")
      /\ bbBurnfile' \in Bytes
      /\ Len(bbBurnfile') = HdrSize + Planned(Len(bbBinfile'))
      /\ bbBurnfile = <<>> => IsImageOf(bbBurnfile', bbBinfile')
      /\ Headed(bbBurnfile')
  BY <1>1, BBStartHolds DEF IInv, ImageInv
<1>hung. HungInv'
  BY <1>2, <1>3 DEF IInv, HungInv
<1>4. bbBinfile' \in Bytes /\ wanted' \in Bytes /\ (path = NoFile \/ wanted' = bbBinfile')
  BY <1>1, <1>2, ReadHolds
<1>5. creates \in Nat /\ creates' \in 1..MaxCreates /\ (creates' = 1 => creates = 0)
  BY <1>1, <1>2, PartsAssumption DEF OthersOK, PartsAssumption
<1>6. TypeOK'
  <2>1. current_mode' \in BootMode /\ current_file' \in FileIndex /\ creates' \in 0..MaxCreates
    BY <1>2, <1>5 DEF BootMode, FileIndex
  <2>2. OthersOK'
    <3>1. message' \in Message
      BY <1>1 DEF BBStart, OthersOK, Message
    <3> QED
      BY <1>1, <1>2, <1>3, <1>4, <2>1, <3>1 DEF OthersOK
  <2> QED
    BY <1>3, <2>2, <1>hung, TypePartsAfter
<1>7. RouteInv' /\ AbortInv'
  BY <1>2, <1>3 DEF RouteInv, AbortInv, RoutedFor
<1>8. SoloInv'
  <2>1. overlapped' \/ burns = <<>>
    BY <1>2, Zenon
  <2>2. burns = <<>> => Len(burns') <= 1
    BY <1>3
  <2> QED
    BY <2>1, <2>2, Zenon DEF SoloInv
<1>9. ImageInv'
  <2>1. creates' # 0
    BY <1>5
  <2>2. ASSUME creates' = 1 PROVE IsImageOf(bbBurnfile', wanted')
    <3>1. creates = 0 /\ bbBinfile = <<>> /\ bbBurnfile = <<>>
      BY <1>5, <2>2 DEF IInv, ImageInv
    <3>2. path # NoFile
      BY <1>2, <3>1 DEF get_data_from_sellect_file
    <3> QED
      BY <1>3, <1>4, <3>1, <3>2
  <2> QED
    BY <1>3, <2>1, <2>2 DEF ImageInv
<1>10. FlashInv'
  BY <1>3 DEF FlashInv
<1> QED
  BY <1>6, <1>7, <1>8, <1>9, <1>10, <1>hung DEF IInv

\* The end of a baseband burn.
LEMMA BBEndsStep ==
    ASSUME IInv, BBEnds
    PROVE  IInv'
<1>1. TypeOK /\ BurnsOK /\ OthersOK
  BY TypeParts DEF IInv
<1>2. /\ UNCHANGED <<serialStatusFlag, flag_abort, eventLoop, current_mode, current_file,
                     bbBinfile, bbBurnfile, wanted, creates, overlapped>>
      /\ IsInner("bb") /\ Enable("bb") /\ burns' = Outer /\ aborted' = aborted \ {"bb"}
      /\ hung' \in {hung, {}} /\ "bb" \notin hung
      /\ flash' \in AnyFlash
      /\ \/ message' = BurnFailed
         \/ message' = BurnOk /\ (overlapped \/ flash' = bbBurnfile)
  BY DEF BBEnds, BBSucceeds, BBFails, Returns, routing, image, AnyFlash
<1>3. "bb" \in Panels
  BY DEF Panels
<1>4. /\ BurnsOK' /\ burns # <<>> /\ Running("bb") /\ Len(burns') = Len(burns) - 1
      /\ \A i \in DOMAIN burns' : i \in DOMAIN burns /\ burns'[i] = burns[i]
      /\ ~Running("bb")' /\ \A q \in Panels : q # "bb" => (Running(q)' <=> Running(q))
  BY <1>1, <1>2, <1>3, Ends
<1>hung. HungInv'
  BY <1>2, <1>4 DEF IInv, HungInv
<1>5. TypeOK'
  <2>1. <<>> \in Bytes
    BY DEF Bytes
  <2>2. flash' \in Bytes
    BY <1>1, <1>2, <2>1 DEF OthersOK, AnyFlash
  <2>3. message' \in Message
    BY <1>2 DEF Message
  <2>4. OthersOK'
    BY <1>1, <1>2, <2>2, <2>3 DEF OthersOK
  <2> QED
    BY <1>4, <2>4, <1>hung, TypePartsAfter
<1>6. RouteInv'
  BY <1>2, <1>4 DEF IInv, RouteInv, RoutedFor
<1>7. AbortInv'
  BY <1>2 DEF IInv, AbortInv
<1>8. SoloInv'
  <2>1. Len(burns) \in Nat
    BY <1>1 DEF BurnsOK
  <2> QED
    BY <1>2, <1>4, <2>1 DEF IInv, SoloInv
<1>9. ImageInv'
  <2>1. Made
    BY <1>4 DEF Made
  <2> QED
    BY <1>2, <2>1 DEF IInv, ImageInv
<1>10. FlashInv'
  BY <1>2 DEF FlashInv, BurnOk, BurnFailed
<1> QED
  BY <1>5, <1>6, <1>7, <1>8, <1>9, <1>10, <1>hung DEF IInv

\* The Start of a system burn.
LEMMA SysStartStep ==
    ASSUME IInv, SysStart
    PROVE  IInv'
<1>1. TypeOK /\ BurnsOK /\ OthersOK
  BY TypeParts DEF IInv
<1>2. /\ UNCHANGED <<serialStatusFlag, hung, current_mode, current_file, bbBinfile,
                     bbBurnfile, wanted, creates, flash, message>>
      /\ flag_abort' = FALSE /\ aborted' = {} /\ eventLoop' = FALSE
      /\ overlapped' = (burns # <<>>)
      /\ startEnabled["sys"] /\ Disable("sys") /\ burns' = Append(burns, Burn("sys", 0, FALSE))
  BY DEF SysStart, ClearAbort, Clickable, routing, image
<1>3. /\ BurnsOK' /\ burns' # <<>> /\ Len(burns') = Len(burns) + 1
      /\ burns'[Len(burns) + 1] = Burn("sys", 0, FALSE)
      /\ \A q \in Panels : Running(q)' <=> (Running(q) \/ q = "sys")
  <2>1. "sys" \in Panels /\ FALSE \in BOOLEAN
    BY DEF Panels
  <2> QED
    BY <1>1, <1>2, <2>1, Begins
<1>hung. HungInv'
  <2>1. ~Running("sys")
    BY <1>1, <1>2 DEF BurnsOK, Panels
  <2> QED
    BY <1>2, <1>3, <2>1 DEF IInv, HungInv
<1>4. overlapped' \in BOOLEAN /\ (overlapped' \/ burns = <<>>)
  BY <1>2, Zenon
<1>5. TypeOK'
  <2>1. OthersOK'
    BY <1>1, <1>2, <1>4 DEF OthersOK
  <2> QED
    BY <1>3, <2>1, <1>hung, TypePartsAfter
<1>6. RouteInv'
  <2>1. burns \in Seq(BurnSet) /\ DOMAIN burns = 1..Len(burns) /\ Len(burns) \in Nat
    BY <1>1 DEF BurnsOK
  <2>2. DOMAIN burns' = 1..Len(burns) + 1
    BY <1>3 DEF BurnsOK
  <2>3. PICK b : b = Burn("sys", 0, FALSE)
    OBVIOUS
  <2>4. \A i \in DOMAIN burns : burns'[i] = burns[i]
    <3>1. burns' = Append(burns, b)
      BY <1>2, <2>3
    <3> QED
      BY <2>1, <3>1
  <2>5. ~burns'[Len(burns) + 1].mine
    BY <1>3 DEF Burn
  <2>6. \A i \in DOMAIN burns' : i \in DOMAIN burns \/ i = Len(burns) + 1
    BY <2>1, <2>2
  <2> QED
    BY <1>2, <2>4, <2>5, <2>6, Zenon DEF IInv, RouteInv, RoutedFor
<1>7. AbortInv' /\ FlashInv'
  BY <1>2, <1>3 DEF AbortInv, FlashInv
<1>8. SoloInv'
  <2>1. burns = <<>> => Len(burns') <= 1
    BY <1>3
  <2> QED
    BY <1>4, <2>1, Zenon DEF SoloInv
<1>9. ImageInv'
  <2>1. Made' <=> Made
    BY <1>2, <1>3 DEF Made, Panels
  <2> QED
    BY <1>2, <2>1 DEF IInv, ImageInv
<1> QED
  BY <1>5, <1>6, <1>7, <1>8, <1>9, <1>hung DEF IInv

\* A system burn gets to its next partition, to download it or to refuse it.
LEMMA ReachStep ==
    ASSUME IInv, SysDownload \/ SysRefuse
    PROVE  IInv'
<1>1. TypeOK /\ BurnsOK /\ OthersOK
  BY TypeParts DEF IInv
<1>2. PICK k \in DOMAIN SysParts : Reach(k)
  BY DEF SysDownload, SysRefuse
<1>3. /\ UNCHANGED <<serialStatusFlag, flag_abort, hung, startEnabled, bbBinfile,
                     bbBurnfile, wanted, creates, flash, message, aborted, overlapped>>
      /\ ~eventLoop /\ eventLoop' \in BOOLEAN
      /\ current_mode' = "SecureEncryptionMode" /\ current_file' = SysParts[k]
      /\ burns' = Append(Taken(Outer), Burn("sys", k, TRUE))
      /\ IsInner("sys")
  BY <1>1, <1>2 DEF SysDownload, SysRefuse, Between, Reach, currentUpgradeProcess, image, OthersOK
<1>4. /\ BurnsOK' /\ burns' # <<>> /\ Len(burns') = Len(burns)
      /\ \A q \in Panels : Running(q)' <=> Running(q)
      /\ RoutedFor(burns', "SecureEncryptionMode")
  BY <1>1, <1>3, Moves
<1>hung. HungInv'
  BY <1>3, <1>4 DEF IInv, HungInv
<1>5. TypeOK'
  <2>1. current_mode' \in BootMode
    BY <1>3 DEF BootMode
  <2>2. current_file' \in FileIndex
    BY <1>3, PartsAssumption DEF PartsAssumption
  <2>3. OthersOK'
    BY <1>1, <1>3, <2>1, <2>2 DEF OthersOK
  <2> QED
    BY <1>4, <2>3, <1>hung, TypePartsAfter
<1>6. RouteInv' /\ AbortInv' /\ SoloInv' /\ FlashInv'
  BY <1>3, <1>4 DEF IInv, RouteInv, RoutedFor, AbortInv, SoloInv, FlashInv
<1>7. ImageInv'
  <2>1. Made' <=> Made
    BY <1>3, <1>4 DEF Made, Panels
  <2> QED
    BY <1>3, <2>1 DEF IInv, ImageInv
<1> QED
  BY <1>5, <1>6, <1>7, <1>hung DEF IInv

\* The download of a partition ends.
LEMMA DownloadEndsStep ==
    ASSUME IInv, SysDownloadEnds
    PROVE  IInv'
<1>1. TypeOK /\ BurnsOK /\ OthersOK
  BY TypeParts DEF IInv
<1>2. /\ UNCHANGED <<serialStatusFlag, flag_abort, burns, hung, startEnabled, current_mode,
                     current_file, bbBinfile, bbBurnfile, wanted, creates, message, aborted,
                     overlapped>>
      /\ eventLoop' = FALSE /\ flash' \in {flash, <<>>} /\ burns # <<>>
      /\ "sys" \notin hung
  BY DEF SysDownloadEnds, IsInner, routing, image
<1>3. BurnsOK' /\ \A q : Running(q)' <=> Running(q)
  BY <1>1, <1>2, Stays
<1>hung. HungInv'
  BY <1>2, <1>3 DEF IInv, HungInv
<1>4. TypeOK'
  <2>1. flash' \in Bytes
    <3>1. <<>> \in Bytes
      BY DEF Bytes
    <3> QED
      BY <1>1, <1>2, <3>1 DEF OthersOK
  <2>2. OthersOK'
    BY <1>1, <1>2, <2>1 DEF OthersOK
  <2> QED
    BY <1>3, <2>2, <1>hung, TypePartsAfter
<1>5. RouteInv' /\ AbortInv' /\ SoloInv' /\ FlashInv'
  BY <1>2 DEF IInv, RouteInv, RoutedFor, AbortInv, SoloInv, FlashInv
<1>6. ImageInv'
  BY <1>2, <1>3 DEF IInv, ImageInv, Made
<1> QED
  BY <1>4, <1>5, <1>6, <1>hung DEF IInv

\* The end of a system burn.
LEMMA SysEndStep ==
    ASSUME IInv, SysEnd
    PROVE  /\ IInv'
           /\ Len(burns') # Len(burns)
<1>1. TypeOK /\ BurnsOK /\ OthersOK
  BY TypeParts DEF IInv
<1>2. /\ UNCHANGED <<serialStatusFlag, flag_abort, current_mode, current_file, bbBinfile,
                     bbBurnfile, wanted, creates, flash, overlapped>>
      /\ IsInner("sys") /\ Enable("sys") /\ burns' = Outer /\ aborted' = aborted \ {"sys"}
      /\ ~eventLoop /\ hung' \in {hung, {}}
      /\ eventLoop' = TRUE /\ message' = SysBurnOk
  BY DEF SysEnd, Between, Returns, routing, image
<1>3. "sys" \in Panels /\ "bb" \in Panels
  BY DEF Panels
<1>4. /\ BurnsOK' /\ burns # <<>> /\ Len(burns') = Len(burns) - 1
      /\ \A i \in DOMAIN burns' : i \in DOMAIN burns /\ burns'[i] = burns[i]
      /\ ~Running("sys")' /\ (Running("bb")' <=> Running("bb"))
  BY <1>1, <1>2, <1>3, Ends
<1>hung. HungInv'
  BY <1>2, <1>4 DEF IInv, HungInv, Panels
<1>5. Len(burns) \in Nat
  BY <1>1 DEF BurnsOK
<1>6. message' \in Message /\ message' # BurnOk
  BY <1>2 DEF Message, BurnOk, SysBurnOk
<1>7. TypeOK'
  <2>1. OthersOK'
    BY <1>1, <1>2, <1>6 DEF OthersOK
  <2> QED
    BY <1>4, <2>1, <1>hung, TypePartsAfter
<1>8. RouteInv'
  BY <1>2, <1>4 DEF IInv, RouteInv, RoutedFor
<1>9. AbortInv' /\ FlashInv'
  BY <1>2, <1>6 DEF IInv, AbortInv, FlashInv
<1>10. SoloInv'
  BY <1>2, <1>4, <1>5 DEF IInv, SoloInv
<1>11. ImageInv'
  BY <1>2, <1>4, <1>6 DEF IInv, ImageInv, Made
<1> QED
  BY <1>4, <1>5, <1>7, <1>8, <1>9, <1>10, <1>11, <1>hung DEF IInv

\* A request that nobody will serve.
LEMMA HangStep ==
    ASSUME IInv, NEW p \in Panels, Hang(p)
    PROVE  IInv'
<1>1. BurnsOK /\ OthersOK
  BY TypeParts DEF IInv
<1>2. /\ UNCHANGED <<serialStatusFlag, flag_abort, burns, eventLoop, startEnabled,
                     current_mode, current_file, bbBinfile, bbBurnfile, wanted, creates,
                     flash, message, aborted, overlapped>>
      /\ eventLoop /\ IsInner(p) /\ hung' = hung \cup {p}
  BY DEF Hang, routing, image
<1>3. BurnsOK' /\ \A q : Running(q)' <=> Running(q)
  BY <1>1, <1>2, Stays
<1>4. HungInv'
  <2>1. Running(p)
    <3>1. burns \in Seq(BurnSet) /\ burns # <<>> /\ burns[Len(burns)].panel = p
      BY <1>1, <1>2 DEF BurnsOK, IsInner, Inner
    <3>2. Len(burns) \in DOMAIN burns
      BY <3>1, EmptySeq
    <3> QED
      BY <3>1, <3>2 DEF Running
  <2> QED
    BY <1>2, <1>3, <2>1 DEF IInv, HungInv
<1>5. TypeOK'
  <2>1. OthersOK'
    BY <1>1, <1>2 DEF OthersOK
  <2> QED
    BY <1>3, <1>4, <2>1, TypePartsAfter
<1>6. RouteInv' /\ AbortInv' /\ SoloInv' /\ FlashInv'
  BY <1>2 DEF IInv, RouteInv, RoutedFor, AbortInv, SoloInv, FlashInv
<1>7. ImageInv'
  BY <1>2, <1>3 DEF IInv, ImageInv, Made
<1> QED
  BY <1>4, <1>5, <1>6, <1>7 DEF IInv

\* Every step.
LEMMA NextHolds == IInv /\ [Next]_vars => IInv'
<1> SUFFICES ASSUME IInv, [Next]_vars PROVE IInv'
  OBVIOUS
<1>1. CASE OpenClicked \/ CloseClicked \/ AbortClicked
  BY <1>1, PortStep
<1>2. CASE \E p \in Panels : StartRefused(p)
  BY <1>2, RefusedStep
<1>3. CASE \E path \in Paths : BBStartEmpty(path)
  BY <1>3, EmptyStep
<1>4. CASE \E path \in Paths : BBStart(path)
  BY <1>4, BBStartStep
<1>5. CASE SysStart
  BY <1>5, SysStartStep
<1>6. CASE BBEnds
  BY <1>6, BBEndsStep
<1>7. CASE SysDownload \/ SysRefuse
  BY <1>7, ReachStep
<1>8. CASE SysDownloadEnds
  BY <1>8, DownloadEndsStep
<1>9. CASE SysEnd
  BY <1>9, SysEndStep
<1>10. CASE UNCHANGED vars
  <2>1. UNCHANGED <<serialStatusFlag, flag_abort, burns, hung, eventLoop, startEnabled,
                    current_mode, current_file, bbBinfile, bbBurnfile, wanted, creates,
                    flash, message, aborted, overlapped>>
    BY <1>10 DEF vars, routing, image
  <2>2. BurnsOK /\ OthersOK
    BY TypeParts DEF IInv
  <2>3. BurnsOK' /\ \A q : Running(q)' <=> Running(q)
    BY <2>1, <2>2, Stays
  <2>hung. HungInv'
    BY <2>1, <2>3 DEF IInv, HungInv
  <2>4. TypeOK'
    <3>1. OthersOK'
      BY <2>1, <2>2 DEF OthersOK
    <3> QED
      BY <2>3, <2>hung, <3>1, TypePartsAfter
  <2>5. RouteInv' /\ AbortInv' /\ SoloInv' /\ FlashInv'
    BY <2>1 DEF IInv, RouteInv, RoutedFor, AbortInv, SoloInv, FlashInv
  <2>6. ImageInv'
    BY <2>1, <2>3 DEF IInv, ImageInv, Made
  <2> QED
    BY <2>4, <2>5, <2>6, <2>hung DEF IInv
<1>11. CASE \E p \in Panels : Hang(p)
  BY <1>11, HangStep
<1> QED
  BY <1>1, <1>2, <1>3, <1>4, <1>5, <1>6, <1>7, <1>8, <1>9, <1>10, <1>11 DEF Next, Click, SysStep

-------------------------------------------------------------------------------
(* The theorems. *)

\* The invariant holds of every behaviour of the window.
THEOREM Invariance == Spec => []IInv
<1> QED
  BY InitHolds, NextHolds, PTL DEF Spec

\* Every variable has its type; no panel's burn runs twice at a time, and a panel's Start
\* is enabled exactly when its burn does not run.
THEOREM TypeCorrect == Spec => []TypeOK
<1>1. IInv => TypeOK
  BY DEF IInv
<1> QED
  BY <1>1, Invariance, PTL

\* What a burn shows is shown in its own panel, if no other has run inside the download it
\* shows: currentUpgradeProcess and dumpProgressPos agree.
THEOREM RightBarHolds == Spec => []RightBar
<1>1. IInv => RightBar
  <2> SUFFICES ASSUME IInv, eventLoop, burns # <<>>, Inner.mine
               PROVE  dumpProgressPos = "BBFW_BURN_PROBAR" <=> IsInner("bb")
    BY DEF RightBar
  <2>1. burns \in Seq(BurnSet) /\ current_mode \in BootMode /\ current_file \in FileIndex
    BY TypeParts DEF IInv, BurnsOK, OthersOK
  <2>2. Len(burns) \in DOMAIN burns
    BY <2>1, EmptySeq
  <2>3. current_mode = "CompatibilityMode" <=> Inner.panel = "bb"
    BY <2>2 DEF IInv, RouteInv, RoutedFor, Inner
  <2>4. dumpProgressPos = "BBFW_BURN_PROBAR" <=> current_mode = "CompatibilityMode"
    BY <2>1 DEF dumpProgressPos, BootMode, FileIndex
  <2> QED
    BY <2>3, <2>4 DEF IsInner
<1> QED
  BY <1>1, Invariance, PTL

\* After "Flash file burn OK." of a burn that no other was inside of, the image is in its
\* place, with the length the file needs; the first image made is the chosen file's.
THEOREM OkMeansBurnedHolds == Spec => []OkMeansBurned
<1>1. IInv => OkMeansBurned
  BY DEF IInv, ImageInv, FlashInv, Made, OkMeansBurned
<1> QED
  BY <1>1, Invariance, PTL

\* A burn that was told to stop begins no further partition, unless a Start has cleared
\* the flag.
THEOREM AbortObeyedHolds == Spec => AbortObeyed
<1>1. IInv /\ [Next]_vars =>
        [(~eventLoop /\ eventLoop' /\ Len(burns') = Len(burns)) => Inner.panel \notin aborted]_vars
  <2> SUFFICES ASSUME IInv, [Next]_vars, ~eventLoop, eventLoop', Len(burns') = Len(burns)
               PROVE  Inner.panel \notin aborted
    OBVIOUS
  <2>1. SysDownload \/ SysEnd
    BY DEF Next, Click, OpenClicked, CloseClicked, AbortClicked, SysStart, StartRefused,
           BBStartEmpty, BBStart, Clickable, SysStep, SysRefuse, Between, SysDownloadEnds,
           BBEnds, BBSucceeds, BBFails, Hang, vars
  <2>2. ~SysEnd
    BY SysEndStep
  <2>3. ~flag_abort
    BY <2>1, <2>2 DEF SysDownload
  <2> QED
    BY <2>3 DEF IInv, AbortInv
<1> QED
  BY <1>1, Invariance, PTL DEF Spec, AbortObeyed

\* Only the Start of a baseband burn changes bbBurnfile, and it leaves an image in it whose
\* two checksums are right, however often an image has been made: every image begins with
\* the header that was made first, and ends with a checksum of what is between.
THEOREM ImageChecksOutHolds == Spec => ImageChecksOut
<1>1. IInv /\ [Next]_vars =>
        [bbBurnfile' # bbBurnfile => HeaderVerifies(bbBurnfile') /\ SuffixVerifies(bbBurnfile')]_vars
  <2> SUFFICES ASSUME IInv, [Next]_vars, bbBurnfile' # bbBurnfile
               PROVE  HeaderVerifies(bbBurnfile') /\ SuffixVerifies(bbBurnfile')
    OBVIOUS
  <2>1. Next
    BY DEF vars, image
  <2>2. ~(OpenClicked \/ CloseClicked \/ AbortClicked \/ SysStart)
    BY DEF OpenClicked, CloseClicked, AbortClicked, SysStart, image
  <2>3. ~(SysStep \/ SysDownloadEnds)
    BY DEF SysStep, SysDownload, SysRefuse, Reach, SysEnd, SysDownloadEnds, image
  <2>4. ~BBEnds
    BY DEF BBEnds, BBSucceeds, BBFails, image
  <2>5. ASSUME NEW p \in Panels PROVE ~StartRefused(p) /\ ~Hang(p)
    BY DEF StartRefused, Hang, image
  <2>6. ASSUME NEW path \in Paths PROVE ~BBStartEmpty(path)
    BY DEF BBStartEmpty
  <2>7. PICK path \in Paths : BBStart(path)
    BY <2>1, <2>2, <2>3, <2>4, <2>5, <2>6 DEF Next, Click
  <2>8. TypeOK /\ Headed(bbBurnfile)
    BY DEF IInv, ImageInv
  <2> QED
    BY <2>7, <2>8, BBStartHolds
<1> QED
  BY <1>1, Invariance, PTL DEF Spec, ImageChecksOut

===============================================================================
