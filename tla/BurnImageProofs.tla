---------------------------- MODULE BurnImageProofs ----------------------------
(***************************************************************************)
(* Proofs about BurnImage, for every page size and file: how long the      *)
(* image is, that it consists of bytes, that the first image made is that  *)
(* of the file, and that both checksums of every image are right.          *)
(***************************************************************************)
EXTENDS BurnImage, CrcProofs

\* Whole pages that hold the file, at least one if it has a byte.
LEMMA PlannedHolds ==
    ASSUME NEW size \in Nat
    PROVE  /\ Planned(size) \in Nat
           /\ size <= Planned(size)
           /\ size > 0 => SufSize <= Planned(size)
<1> DEFINE pages == (size + FF_PAGE_ALIGN_SIZE - 1) \div FF_PAGE_ALIGN_SIZE
<1>1. FF_PAGE_ALIGN_SIZE \in Nat /\ FF_PAGE_ALIGN_SIZE >= 8 /\ SufSize = 8
  BY PageAssumption DEF PageAssumption, SufSize
<1>2. /\ pages \in Nat
      /\ pages * FF_PAGE_ALIGN_SIZE <= size + FF_PAGE_ALIGN_SIZE - 1
      /\ size + FF_PAGE_ALIGN_SIZE - 1 < pages * FF_PAGE_ALIGN_SIZE + FF_PAGE_ALIGN_SIZE
  BY <1>1
<1>3. Planned(size) = pages * FF_PAGE_ALIGN_SIZE /\ Planned(size) \in Nat
  BY <1>1, <1>2 DEF Planned
<1>4. size <= Planned(size)
  BY <1>1, <1>2, <1>3
<1>5. ASSUME size > 0 PROVE 8 <= Planned(size)
  <2>1. pages # 0
    BY <1>1, <1>2, <1>5
  <2>2. pages >= 1
    BY <1>2, <2>1
  <2>3. pages * FF_PAGE_ALIGN_SIZE >= FF_PAGE_ALIGN_SIZE
    BY <1>1, <1>2, <2>2
  <2> QED
    BY <1>1, <1>3, <2>3
<1> QED
  BY <1>1, <1>3, <1>4, <1>5

\* A byte of a word is a byte.
LEMMA ByteHolds == \A word, i : Byte(word, i) \in Octet
BY DEF Byte, Number, Octet

\* The header: four bytes, the magic first and the size next.
LEMMA HeaderHolds ==
    ASSUME NEW plan_size \in Nat
    PROVE  /\ Header(plan_size) \in Seq(Octet)
           /\ Len(Header(plan_size)) = HdrSize
           /\ Header(plan_size)[2] = plan_size % 256
<1> DEFINE crc == crc16(<<FW_MAGIC, plan_size % 256>>)
<1>1. Header(plan_size) = <<FW_MAGIC, plan_size % 256, Byte(crc, 0), Byte(crc, 1)>>
  BY DEF Header
<1>2. FW_MAGIC \in Octet /\ plan_size % 256 \in Octet
  BY DEF FW_MAGIC, Octet
<1>3. Byte(crc, 0) \in Octet /\ Byte(crc, 1) \in Octet
  BY ByteHolds
<1>4. \A a, b, c, d \in Octet : <<a, b, c, d>> \in Seq(Octet)
  OBVIOUS
<1>5. \A a, b, c, d : Len(<<a, b, c, d>>) = 4 /\ <<a, b, c, d>>[2] = b
  OBVIOUS
<1> HIDE DEF crc
<1>6. Header(plan_size) \in Seq(Octet)
  BY <1>1, <1>2, <1>3, <1>4
<1> QED
  BY <1>1, <1>5, <1>6 DEF HdrSize

\* The suffix: eight bytes.
LEMMA SuffixHolds ==
    \A bytes : Suffix(bytes) \in Seq(Octet) /\ Len(Suffix(bytes)) = SufSize
<1> SUFFICES ASSUME NEW bytes
             PROVE  Suffix(bytes) \in Seq(Octet) /\ Len(Suffix(bytes)) = SufSize
  OBVIOUS
<1> DEFINE crc32 == CRC_32(CRC_32({}, bytes), <<0, 0, 0, 0>>)
           last  == [i \in 1..4 |-> Byte(crc32, i - 1)]
<1>1. Suffix(bytes) = <<0, 0, 0, 0>> \o last
  BY DEF Suffix
<1>2. last \in Seq(Octet) /\ Len(last) = 4
  BY ByteHolds
<1>3. <<0, 0, 0, 0>> \in Seq(Octet) /\ Len(<<0, 0, 0, 0>>) = 4
  BY DEF Octet
<1> DEFINE zeros == <<0, 0, 0, 0>>
<1> HIDE DEF crc32, last, zeros
<1>4. zeros \in Seq(Octet) /\ Len(zeros) = 4
  BY <1>3 DEF zeros
<1>5. zeros \o last \in Seq(Octet) /\ Len(zeros \o last) = Len(zeros) + Len(last)
  BY <1>2, <1>4, ConcatProperties
<1> QED
  BY <1>1, <1>2, <1>4, <1>5 DEF SufSize, zeros

\* Header and file, behind what was there.
LEMMA AppendedHolds ==
    ASSUME NEW burnfile \in Seq(Octet), NEW bin \in Seq(Octet), NEW plan_size \in Nat
    PROVE  /\ Appended(burnfile, bin, plan_size) \in Seq(Octet)
           /\ burnfile = <<>> =>
                 /\ Len(Appended(burnfile, bin, plan_size)) = HdrSize + Len(bin)
                 /\ Appended(burnfile, bin, plan_size)[2] = plan_size % 256
                 /\ \A i \in 1..Len(bin) :
                       Appended(burnfile, bin, plan_size)[HdrSize + i] = bin[i]
<1> DEFINE header == Header(plan_size)
           start  == burnfile \o header
<1>1. header \in Seq(Octet) /\ Len(header) = 4 /\ header[2] = plan_size % 256 /\ HdrSize = 4
  BY HeaderHolds DEF HdrSize
<1>2. Appended(burnfile, bin, plan_size) = start \o bin
  BY DEF Appended
<1> HIDE DEF header
<1>3. start \in Seq(Octet)
  BY <1>1, ConcatProperties
<1>4. burnfile = <<>> => start = header
  BY <1>1, ConcatEmptySeq
<1>5. Len(bin) \in Nat
  OBVIOUS
<1> HIDE DEF start
<1>6. /\ start \o bin \in Seq(Octet)
      /\ Len(start \o bin) = Len(start) + Len(bin)
      /\ \A i \in 1..Len(start) + Len(bin) :
            (start \o bin)[i] = IF i <= Len(start) THEN start[i] ELSE bin[i - Len(start)]
  BY <1>3, ConcatProperties
<1> DEFINE joined == start \o bin
<1>7. Appended(burnfile, bin, plan_size) = joined
  BY <1>2
<1> HIDE DEF joined
<1>8. joined \in Seq(Octet)
  BY <1>6 DEF joined
<1>9. ASSUME burnfile = <<>>
      PROVE  /\ Len(joined) = HdrSize + Len(bin)
             /\ joined[2] = plan_size % 256
             /\ \A i \in 1..Len(bin) : joined[HdrSize + i] = bin[i]
  <2>1. Len(start) = 4 /\ start[2] = plan_size % 256
    BY <1>1, <1>4, <1>9
  <2>2. \A i \in 1..4 + Len(bin) : joined[i] = IF i <= 4 THEN start[i] ELSE bin[i - 4]
    BY <1>6, <2>1 DEF joined
  <2>3. Len(joined) = 4 + Len(bin)
    BY <1>6, <2>1 DEF joined
  <2>4. joined[2] = start[2]
    BY <1>5, <2>2
  <2>5. ASSUME NEW i \in 1..Len(bin) PROVE joined[4 + i] = bin[i]
    BY <1>5, <2>2
  <2> QED
    BY <1>1, <2>1, <2>3, <2>4, <2>5
<1> QED
  BY <1>7, <1>8, <1>9

\* Cut off, or made longer.
LEMMA ResizeHolds ==
    ASSUME NEW bytes \in Seq(Octet), NEW size \in Nat, NEW garbage \in Octet
    PROVE  /\ resize(bytes, size, garbage) \in Seq(Octet)
           /\ Len(resize(bytes, size, garbage)) = size
           /\ \A i \in 1..size : i <= Len(bytes) => resize(bytes, size, garbage)[i] = bytes[i]
<1>1. \A i \in 1..size : (IF i <= Len(bytes) THEN bytes[i] ELSE garbage) \in Octet
  OBVIOUS
<1>2. resize(bytes, size, garbage) \in [1..size -> Octet]
  BY <1>1 DEF resize
<1> QED
  BY <1>2 DEF resize

\* The suffix takes the place of the last bytes and leaves the others alone.
LEMMA WithSuffixHolds ==
    ASSUME NEW image \in Seq(Octet), NEW plan_size \in Nat, SufSize <= plan_size,
           Len(image) = HdrSize + plan_size
    PROVE  /\ WithSuffix(image, plan_size) \in Seq(Octet)
           /\ Len(WithSuffix(image, plan_size)) = HdrSize + plan_size
           /\ \A i \in 1..HdrSize + plan_size - SufSize :
                 WithSuffix(image, plan_size)[i] = image[i]
<1> DEFINE body == HdrSize + plan_size - SufSize
           head == SubSeq(image, 1, body)
           tail == Suffix(SubSeq(image, HdrSize + 1, body))
<1>1. HdrSize = 4 /\ SufSize = 8 /\ body \in Nat /\ body <= Len(image)
  BY DEF HdrSize, SufSize
<1>2. head \in Seq(Octet) /\ Len(head) = body /\ \A i \in 1..body : head[i] = image[i]
  <2> HIDE DEF body
  <2>1. \A i \in 1..body : image[i] \in Octet
    BY <1>1
  <2>2. /\ SubSeq(image, 1, body) \in Seq(Octet)
        /\ Len(SubSeq(image, 1, body)) = IF 1 <= body THEN body - 1 + 1 ELSE 0
        /\ \A i \in 1..body - 1 + 1 : SubSeq(image, 1, body)[i] = image[1 + i - 1]
    BY <1>1, <2>1, SubSeqProperties
  <2> QED
    BY <1>1, <2>2
<1>3. tail \in Seq(Octet) /\ Len(tail) = 8
  BY <1>1, SuffixHolds
<1>4. WithSuffix(image, plan_size) = head \o tail
  BY DEF WithSuffix
<1> HIDE DEF head, tail
<1>5. /\ head \o tail \in Seq(Octet)
      /\ Len(head \o tail) = Len(head) + Len(tail)
      /\ \A i \in 1..Len(head) + Len(tail) :
            (head \o tail)[i] = IF i <= Len(head) THEN head[i] ELSE tail[i - Len(head)]
  BY <1>2, <1>3, ConcatProperties
<1> QED
  BY <1>1, <1>2, <1>3, <1>4, <1>5

\* The checksum of the suffix is that of everything between the header and itself: it is
\* computed in two pieces, over the data and from there over the chipid.
LEMMA SuffixVerified ==
    ASSUME NEW image \in Seq(Octet), NEW plan_size \in Nat, SufSize <= plan_size,
           Len(image) = HdrSize + plan_size
    PROVE  SuffixVerifies(WithSuffix(image, plan_size))
<1> DEFINE body  == HdrSize + plan_size - SufSize
           head  == SubSeq(image, 1, body)
           data  == SubSeq(image, HdrSize + 1, body)
           zeros == <<0, 0, 0, 0>>
           crc32 == CRC_32(CRC_32({}, data), zeros)
           last  == [i \in 1..4 |-> Byte(crc32, i - 1)]
           tail  == zeros \o last
           out   == head \o tail
           n     == Len(out)
           told  == SubSeq(out, HdrSize + 1, n - 4)
<1>1. HdrSize = 4 /\ SufSize = 8 /\ body \in Nat /\ body >= 4 /\ body <= Len(image)
  BY DEF HdrSize, SufSize
<1>2. WithSuffix(image, plan_size) = out
  BY DEF WithSuffix, Suffix
<1>3. zeros \in Seq(Octet) /\ Len(zeros) = 4
  BY DEF Octet
<1>4. last \in Seq(Octet) /\ Len(last) = 4 /\ \A i \in 1..4 : last[i] = Byte(crc32, i - 1)
  BY ByteHolds
<1> HIDE DEF body, zeros, crc32, last
<1>5. head \in Seq(Octet) /\ Len(head) = body /\ \A i \in 1..body : head[i] = image[i]
  <2>1. \A i \in 1..body : image[i] \in Octet
    BY <1>1
  <2>2. /\ head \in Seq(Octet) /\ Len(head) = IF 1 <= body THEN body - 1 + 1 ELSE 0
        /\ \A i \in 1..body - 1 + 1 : head[i] = image[1 + i - 1]
    BY <1>1, <2>1, SubSeqProperties
  <2> HIDE DEF head
  <2> QED
    BY <1>1, <2>2
<1>6. data \in Seq(Octet) /\ Len(data) = body - 4 /\ \A i \in 1..body - 4 : data[i] = image[4 + i]
  <2>1. \A i \in HdrSize + 1..body : image[i] \in Octet
    BY <1>1
  <2>2. /\ data \in Seq(Octet)
        /\ Len(data) = IF HdrSize + 1 <= body THEN body - (HdrSize + 1) + 1 ELSE 0
        /\ \A i \in 1..body - (HdrSize + 1) + 1 : data[i] = image[HdrSize + 1 + i - 1]
    BY <1>1, <2>1, SubSeqProperties
  <2> HIDE DEF data
  <2> QED
    BY <1>1, <2>2
<1>7. /\ tail \in Seq(Octet) /\ Len(tail) = 8
      /\ \A i \in 1..8 : tail[i] = IF i <= 4 THEN zeros[i] ELSE last[i - 4]
  <2>1. /\ tail \in Seq(Octet) /\ Len(tail) = Len(zeros) + Len(last)
        /\ \A i \in 1..Len(zeros) + Len(last) :
              tail[i] = IF i <= Len(zeros) THEN zeros[i] ELSE last[i - Len(zeros)]
    BY <1>3, <1>4, ConcatProperties
  <2> HIDE DEF tail
  <2> QED
    BY <1>3, <1>4, <2>1
<1> HIDE DEF head, data, tail
<1>8. /\ out \in Seq(Octet) /\ n = body + 8
      /\ \A i \in 1..body + 8 : out[i] = IF i <= body THEN head[i] ELSE tail[i - body]
  <2>1. /\ out \in Seq(Octet) /\ Len(out) = Len(head) + Len(tail)
        /\ \A i \in 1..Len(head) + Len(tail) :
              out[i] = IF i <= Len(head) THEN head[i] ELSE tail[i - Len(head)]
    BY <1>5, <1>7, ConcatProperties
  <2> HIDE DEF out
  <2> QED
    BY <1>1, <1>5, <1>7, <2>1
<1> HIDE DEF out
<1>9. told = data \o zeros
  <2>1. \A i \in HdrSize + 1..n - 4 : out[i] \in Octet
    BY <1>1, <1>8
  <2>2. /\ told \in Seq(Octet)
        /\ Len(told) = IF HdrSize + 1 <= n - 4 THEN n - 4 - (HdrSize + 1) + 1 ELSE 0
        /\ \A i \in 1..n - 4 - (HdrSize + 1) + 1 : told[i] = out[HdrSize + 1 + i - 1]
    BY <1>1, <1>8, <2>1, SubSeqProperties
  <2> DEFINE both == data \o zeros
  <2>3. /\ both \in Seq(Octet) /\ Len(both) = Len(data) + Len(zeros)
        /\ \A i \in 1..Len(data) + Len(zeros) :
              both[i] = IF i <= Len(data) THEN data[i] ELSE zeros[i - Len(data)]
    BY <1>3, <1>6, ConcatProperties
  <2> HIDE DEF told, both
  <2>4. Len(told) = body /\ Len(both) = body /\ \A i \in 1..body : told[i] = out[4 + i]
    BY <1>1, <1>3, <1>6, <1>8, <2>2, <2>3
  <2>5. ASSUME NEW i \in 1..body PROVE told[i] = both[i]
    <3>1. CASE i <= body - 4
      <4>1. 4 + i \in 1..body /\ i \in 1..body - 4 /\ 4 + i \in 1..body + 8
        BY <1>1, <3>1
      <4>2. told[i] = image[4 + i]
        BY <1>5, <1>8, <2>4, <4>1
      <4> QED
        BY <1>3, <1>6, <2>3, <3>1, <4>1, <4>2
    <3>2. CASE i > body - 4
      <4> DEFINE k == i - (body - 4)
      <4>1. /\ k \in 1..8 /\ k <= 4 /\ 4 + i - body = k /\ 4 + i \in 1..body + 8
            /\ ~(4 + i <= body) /\ ~(i <= body - 4)
        BY <1>1, <3>2
      <4>2. told[i] = tail[k]
        BY <1>8, <2>4, <4>1
      <4>3. told[i] = zeros[k]
        BY <1>7, <4>1, <4>2
      <4>4. both[i] = zeros[k]
        BY <1>1, <1>3, <1>6, <2>3, <4>1
      <4> QED
        BY <4>3, <4>4
    <3> QED
      BY <1>1, <3>1, <3>2
  <2> QED
    BY <2>2, <2>3, <2>4, <2>5, SeqEqual DEF both
<1>10. crc32 = Crc32ByDivision(told)
  <2>1. {} \in Word(32)
    BY DEF Word
  <2>2. crc32 = CRC_32({}, data \o zeros)
    BY <1>3, <1>6, <2>1, CRC_32Chains DEF crc32
  <2>3. data \o zeros \in Seq(Octet)
    BY <1>3, <1>6, ConcatProperties
  <2> QED
    BY <1>9, <2>2, <2>3, CRC_32Holds
<1>11. SubSeq(out, n - 3, n) = last
  <2>1. \A i \in n - 3..n : out[i] \in Octet
    BY <1>1, <1>8
  <2> DEFINE end == SubSeq(out, n - 3, n)
  <2>2. /\ end \in Seq(Octet) /\ Len(end) = IF n - 3 <= n THEN n - (n - 3) + 1 ELSE 0
        /\ \A i \in 1..n - (n - 3) + 1 : end[i] = out[n - 3 + i - 1]
    BY <1>1, <1>8, <2>1, SubSeqProperties
  <2> HIDE DEF end
  <2>3. Len(end) = 4 /\ \A i \in 1..4 : end[i] = out[n - 4 + i]
    BY <1>1, <1>8, <2>2
  <2>4. ASSUME NEW i \in 1..4 PROVE end[i] = last[i]
    <3> DEFINE k == body + (4 + i)
    <3>1. /\ n - 4 + i = k /\ k \in 1..body + 8 /\ ~(k <= body) /\ k - body = 4 + i
          /\ 4 + i \in 1..8 /\ ~(4 + i <= 4) /\ 4 + i - 4 = i
      BY <1>1, <1>8
    <3> HIDE DEF k
    <3>2. end[i] = out[k]
      BY <2>3, <3>1
    <3>3. out[k] = tail[k - body]
      BY <1>8, <3>1
    <3> QED
      BY <1>7, <3>1, <3>2, <3>3
  <2> QED
    BY <1>4, <2>2, <2>3, <2>4, SeqEqual DEF end
<1> HIDE DEF told, n
<1>12. SubSeq(out, n - 3, n) = [i \in 1..4 |-> Byte(Crc32ByDivision(told), i - 1)]
  BY <1>10, <1>11 DEF last
<1> QED
  BY <1>2, <1>12 DEF SuffixVerifies, told, n

\* A header that was just made verifies.
LEMMA HeaderVerified == \A plan_size \in Nat : HeaderVerifies(Header(plan_size))
<1> SUFFICES ASSUME NEW plan_size \in Nat PROVE HeaderVerifies(Header(plan_size))
  OBVIOUS
<1> DEFINE size   == plan_size % 256
           fields == <<FW_MAGIC, size>>
           crc    == crc16(fields)
           header == Header(plan_size)
<1>1. header = <<FW_MAGIC, size, Byte(crc, 0), Byte(crc, 1)>>
  BY DEF Header
<1>2. FW_MAGIC \in Octet /\ size \in Octet
  BY DEF FW_MAGIC, Octet
<1> HIDE DEF size
<1>3. crc = Crc16ByDivision(fields)
  <2>1. fields \in Seq(Octet)
    BY <1>2
  <2> HIDE DEF fields
  <2> QED
    BY <2>1, Crc16Holds
<1> HIDE DEF crc, header
<1>4. /\ header[1] = FW_MAGIC /\ header[2] = size
      /\ header[3] = Byte(crc, 0) /\ header[4] = Byte(crc, 1)
  BY <1>1
<1>5. SubSeq(header, 1, HdrSize - 2) = fields
  <2>1. HdrSize - 2 = 2
    BY DEF HdrSize
  <2>2. \A i \in 1..2 : header[i] \in Octet
    BY <1>2, <1>4
  <2> DEFINE start == SubSeq(header, 1, 2)
  <2>3. start \in Seq(Octet) /\ Len(start) = 2 /\ \A i \in 1..2 : start[i] = header[i]
    <3>1. /\ start \in Seq(Octet) /\ Len(start) = IF 1 <= 2 THEN 2 - 1 + 1 ELSE 0
          /\ \A i \in 1..2 - 1 + 1 : start[i] = header[1 + i - 1]
      BY <2>2, SubSeqProperties
    <3> HIDE DEF start
    <3> QED
      BY <3>1
  <2>4. fields \in Seq(Octet) /\ Len(fields) = 2 /\ fields[1] = FW_MAGIC /\ fields[2] = size
    BY <1>2
  <2> HIDE DEF start, fields
  <2>5. start = fields
    BY <1>4, <2>3, <2>4, SeqEqual
  <2> QED
    BY <2>1, <2>5 DEF start
<1> QED
  BY <1>3, <1>4, <1>5 DEF HeaderVerifies, header

\* Whether the header verifies is up to its own bytes.
LEMMA HeaderKept ==
    ASSUME NEW one, NEW other, \A i \in 1..HdrSize : one[i] = other[i] /\ one[i] \in Octet,
           HeaderVerifies(one)
    PROVE  HeaderVerifies(other)
<1>1. HdrSize = 4 /\ HdrSize - 2 = 2
  BY DEF HdrSize
<1> DEFINE first  == SubSeq(one, 1, 2)
           second == SubSeq(other, 1, 2)
<1>2. \A i \in 1..2 : one[i] = other[i] /\ one[i] \in Octet /\ other[i] \in Octet
  BY <1>1
<1>3. /\ first \in Seq(Octet) /\ Len(first) = IF 1 <= 2 THEN 2 - 1 + 1 ELSE 0
      /\ \A i \in 1..2 - 1 + 1 : first[i] = one[1 + i - 1]
  BY <1>2, SubSeqProperties
<1>4. /\ second \in Seq(Octet) /\ Len(second) = IF 1 <= 2 THEN 2 - 1 + 1 ELSE 0
      /\ \A i \in 1..2 - 1 + 1 : second[i] = other[1 + i - 1]
  BY <1>2, SubSeqProperties
<1> HIDE DEF first, second
<1>5. first = second
  BY <1>2, <1>3, <1>4, SeqEqual
<1>6. SubSeq(one, 1, HdrSize - 2) = SubSeq(other, 1, HdrSize - 2)
  BY <1>1, <1>5 DEF first, second
<1>7. one[1] = other[1] /\ one[3] = other[3] /\ one[4] = other[4]
  BY <1>1
<1> QED
  BY <1>6, <1>7 DEF HeaderVerifies

\* Nothing yet, or what begins with a header that verifies.
Headed(bytes) == bytes = <<>> \/ (Len(bytes) >= HdrSize /\ HeaderVerifies(bytes))

\* What is appended does not change how the whole begins.
LEMMA AppendedVerified ==
    ASSUME NEW burnfile \in Seq(Octet), Headed(burnfile),
           NEW bin \in Seq(Octet), NEW plan_size \in Nat
    PROVE  /\ Len(Appended(burnfile, bin, plan_size)) >= HdrSize
           /\ HeaderVerifies(Appended(burnfile, bin, plan_size))
<1> DEFINE header == Header(plan_size)
           start  == burnfile \o header
           joined == start \o bin
           first  == IF burnfile = <<>> THEN header ELSE burnfile
<1>1. header \in Seq(Octet) /\ Len(header) = 4 /\ HeaderVerifies(header) /\ HdrSize = 4
  BY HeaderHolds, HeaderVerified DEF HdrSize
<1> HIDE DEF header
<1>2. /\ start \in Seq(Octet) /\ Len(start) = Len(burnfile) + 4
      /\ \A i \in 1..Len(burnfile) + 4 :
            start[i] = IF i <= Len(burnfile) THEN burnfile[i] ELSE header[i - Len(burnfile)]
  <2>1. /\ start \in Seq(Octet) /\ Len(start) = Len(burnfile) + Len(header)
        /\ \A i \in 1..Len(burnfile) + Len(header) :
              start[i] = IF i <= Len(burnfile) THEN burnfile[i] ELSE header[i - Len(burnfile)]
    BY <1>1, ConcatProperties
  <2> HIDE DEF start
  <2> QED
    BY <1>1, <2>1
<1>3. Len(burnfile) \in Nat /\ Len(bin) \in Nat /\ (burnfile = <<>> => Len(burnfile) = 0)
  OBVIOUS
<1> HIDE DEF start
<1>4. /\ joined \in Seq(Octet) /\ Len(joined) = Len(start) + Len(bin)
      /\ \A i \in 1..Len(start) + Len(bin) :
            joined[i] = IF i <= Len(start) THEN start[i] ELSE bin[i - Len(start)]
  <2>1. start \in Seq(Octet)
    BY <1>2
  <2> QED
    BY <2>1, ConcatProperties
<1>5. Appended(burnfile, bin, plan_size) = joined
  BY DEF Appended, joined, start, header
<1> HIDE DEF joined
<1>6. Len(joined) >= HdrSize
  BY <1>1, <1>2, <1>3, <1>4
<1>7. \A i \in 1..4 : joined[i] = start[i]
  BY <1>2, <1>3, <1>4
<1>8. /\ first \in Seq(Octet) /\ HeaderVerifies(first) /\ Len(first) >= 4
      /\ \A i \in 1..4 : start[i] = first[i]
  <2>1. CASE burnfile = <<>>
    <3>1. \A i \in 1..4 : start[i] = header[i]
      BY <1>2, <1>3, <2>1
    <3>2. first = header
      BY <2>1
    <3>3. Len(header) >= 4
      BY <1>1
    <3> HIDE DEF first
    <3> QED
      BY <1>1, <3>1, <3>2, <3>3, Zenon
  <2>2. CASE burnfile # <<>>
    <3>1. Len(burnfile) >= 4 /\ HeaderVerifies(burnfile)
      BY <1>1, <2>2 DEF Headed
    <3>2. \A i \in 1..4 : start[i] = burnfile[i]
      BY <1>2, <1>3, <3>1
    <3> QED
      BY <2>2, <3>1, <3>2
  <2> QED
    BY <2>1, <2>2
<1> HIDE DEF first
<1>9. \A i \in 1..HdrSize : first[i] = joined[i] /\ first[i] \in Octet
  BY <1>1, <1>7, <1>8
<1>10. HeaderVerifies(joined)
  BY <1>8, <1>9, HeaderKept
<1> QED
  BY <1>5, <1>6, <1>10

\* Any image made of a file that is not empty is made of bytes, as many as the header and
\* whole pages take; the first one, when nothing was in bbBurnfile, is the file's own.  Its
\* checksums are right, that of the header when bbBurnfile's was.
LEMMA ImageHolds ==
    ASSUME NEW burnfile \in Seq(Octet), NEW bin \in Seq(Octet), bin # <<>>,
           NEW garbage \in Garbage
    PROVE  /\ bb_flash_file_create(burnfile, bin, garbage) \in Seq(Octet)
           /\ Len(bb_flash_file_create(burnfile, bin, garbage)) = HdrSize + Planned(Len(bin))
           /\ burnfile = <<>> => IsImageOf(bb_flash_file_create(burnfile, bin, garbage), bin)
           /\ SuffixVerifies(bb_flash_file_create(burnfile, bin, garbage))
           /\ Headed(burnfile) => HeaderVerifies(bb_flash_file_create(burnfile, bin, garbage))
<1> DEFINE plan   == Planned(Len(bin))
           joined == Appended(burnfile, bin, plan)
           full   == resize(joined, HdrSize + plan, garbage)
           image  == bb_flash_file_create(burnfile, bin, garbage)
<1>1. Len(bin) \in Nat /\ Len(bin) > 0 /\ HdrSize = 4 /\ SufSize = 8
  BY EmptySeq DEF HdrSize, SufSize
<1>2. plan \in Nat /\ SufSize <= plan /\ Len(bin) <= plan
  BY <1>1, PlannedHolds
<1>3. image = WithSuffix(full, plan)
  BY DEF bb_flash_file_create
<1> HIDE DEF plan
<1>4. joined \in Seq(Octet)
  BY <1>2, AppendedHolds
<1>5. burnfile = <<>> => /\ Len(joined) = HdrSize + Len(bin)
                         /\ joined[2] = plan % 256
                         /\ \A i \in 1..Len(bin) : joined[HdrSize + i] = bin[i]
  BY <1>2, AppendedHolds, Zenon
<1>6. garbage \in Octet
  BY PageAssumption DEF PageAssumption, Octet
<1> HIDE DEF joined
<1>7. /\ full \in Seq(Octet) /\ Len(full) = HdrSize + plan
      /\ \A i \in 1..HdrSize + plan : i <= Len(joined) => full[i] = joined[i]
  <2>1. HdrSize + plan \in Nat
    BY <1>1, <1>2
  <2> QED
    BY <1>4, <1>6, <2>1, ResizeHolds
<1> HIDE DEF full, image
<1>8. /\ image \in Seq(Octet) /\ Len(image) = HdrSize + plan
      /\ \A i \in 1..HdrSize + plan - SufSize : image[i] = full[i]
  BY <1>2, <1>3, <1>7, WithSuffixHolds
<1>9. ASSUME burnfile = <<>> PROVE IsImageOf(image, bin)
  <2>1. image[2] = plan % 256
    BY <1>1, <1>2, <1>5, <1>7, <1>8, <1>9
  <2>2. \A i \in 1..Len(bin) : HdrSize + i <= Len(image) - SufSize => image[HdrSize + i] = bin[i]
    BY <1>1, <1>2, <1>5, <1>7, <1>8, <1>9
  <2> QED
    BY <1>8, <2>1, <2>2 DEF IsImageOf, plan
<1>10. SuffixVerifies(image)
  BY <1>2, <1>3, <1>7, SuffixVerified
<1>11. ASSUME Headed(burnfile) PROVE HeaderVerifies(image)
  <2>1. Len(joined) >= HdrSize /\ HeaderVerifies(joined)
    BY <1>2, <1>11, AppendedVerified DEF joined
  <2>2. \A i \in 1..HdrSize : joined[i] = image[i] /\ joined[i] \in Octet
    BY <1>1, <1>2, <1>4, <1>7, <1>8, <2>1
  <2> QED
    BY <2>1, <2>2, HeaderKept
<1> QED
  BY <1>8, <1>9, <1>10, <1>11 DEF plan, image

===============================================================================
