---------------------------------- MODULE Crc ----------------------------------
(***************************************************************************)
(* The two checksums of hg_aux.cpp.  A machine word is the set of the      *)
(* positions of its one bits: exclusive or is the symmetric difference, a  *)
(* shift moves the positions.  A byte array is a sequence of numbers.      *)
(***************************************************************************)
EXTENDS Naturals, Sequences

Xor(a, b)      == (a \ b) \cup (b \ a)
ShiftRight(a, n)   == {i - n : i \in {j \in a : j >= n}}
ShiftLeft(a, n, width) == {i + n : i \in a} \cap 0..width - 1

Bits(n)        == {i \in 0..7 : (n \div 2^i) % 2 = 1}
Number(a)      ==
    LET bit(i, value) == IF i \in a THEN value ELSE 0
    IN  bit(0, 1) + bit(1, 2) + bit(2, 4) + bit(3, 8)
        + bit(4, 16) + bit(5, 32) + bit(6, 64) + bit(7, 128)
Byte(word, i)  == Number(ShiftRight(word, 8 * i) \cap 0..7)

\* A 32-bit word by its hexadecimal digits.
Hex(digits) == {i \in 0..31 : i % 4 \in Bits(digits[8 - (i \div 4)])}

Ones == 0..31   \* 0xffffffff

-------------------------------------------------------------------------------

crc32table_le ==
    << Hex(<< 0,  0,  0,  0,  0,  0,  0,  0>>), Hex(<< 1, 13, 11,  7,  1,  0,  6,  4>>),
       Hex(<< 3, 11,  6, 14,  2,  0, 12,  8>>), Hex(<< 2,  6, 13,  9,  3,  0, 10, 12>>),
       Hex(<< 7,  6, 13, 12,  4,  1,  9,  0>>), Hex(<< 6, 11,  6, 11,  5,  1, 15,  4>>),
       Hex(<< 4, 13, 11,  2,  6,  1,  5,  8>>), Hex(<< 5,  0,  0,  5,  7,  1,  3, 12>>),
       Hex(<<14, 13, 11,  8,  8,  3,  2,  0>>), Hex(<<15,  0,  0, 15,  9,  3,  4,  4>>),
       Hex(<<13,  6, 13,  6, 10,  3, 14,  8>>), Hex(<<12, 11,  6,  1, 11,  3,  8, 12>>),
       Hex(<< 9, 11,  6,  4, 12,  2, 11,  0>>), Hex(<< 8,  6, 13,  3, 13,  2, 13,  4>>),
       Hex(<<10,  0,  0, 10, 14,  2,  7,  8>>), Hex(<<11, 13, 11, 13, 15,  2,  1, 12>>) >>

\* Functions, not operators: TLC evaluates an argument of a function once.
Word(width) == SUBSET (0..width - 1)

\* Half a byte: the low four bits choose the table's entry.
Nibble == [crc \in Word(32) |->
              Xor(ShiftRight(crc, 4), crc32table_le[1 + Number(crc \cap 0..3)])]

\* The remainder after the whole of p, where step takes it over one byte.
Along(step, first, p) ==
    LET rest[i \in 0..Len(p)] == IF i = 0 THEN first ELSE step[rest[i - 1]][Bits(p[i])]
    IN  rest[Len(p)]

crc32_no_comp(crc, p) ==
    Along([c \in Word(32) |-> [b \in Word(8) |-> Nibble[Nibble[Xor(c, b)]]]], crc, p)

CRC_32(crc, buff) == Xor(crc32_no_comp(Xor(crc, Ones), buff), Ones)

\* s and t are u8, cksum is u16.
crc16(buf) ==
    LET mix == [cksum \in Word(16) |-> [s \in Word(8) |->
                   LET t == Xor(s, ShiftRight(s, 4))
                   IN  Xor(Xor(ShiftLeft(cksum, 8, 16), t),
                           Xor(ShiftLeft(t, 5, 16), ShiftLeft(t, 12, 16)))]]
    IN  Along([cksum \in Word(16) |-> [b \in Word(8) |->
                   mix[cksum][Xor(b, ShiftRight(cksum, 8))]]],
              {}, buf)

-------------------------------------------------------------------------------
(* What they are: remainders of a polynomial division, one bit at a time.      *)

\* Eight bits of the message, the first of them bit order[1] of the byte.
BitByBit(bit, c, b, order) ==
    LET rest[i \in 0..8] == IF i = 0 THEN c ELSE bit[rest[i - 1]][order[i] \in b]
    IN  rest[8]

\* CRC-32, least significant bit first, polynomial 0xedb88320.
Crc32ByDivision(message) ==
    LET poly == Hex(<<14, 13, 11, 8, 8, 3, 2, 0>>)
        bit  == [c \in Word(32) |-> [one \in BOOLEAN |->
                    Xor(ShiftRight(c, 1), IF (0 \in c) # one THEN poly ELSE {})]]
        byte == [c \in Word(32) |-> [b \in Word(8) |->
                    BitByBit(bit, c, b, [i \in 1..8 |-> i - 1])]]
    IN  Xor(Along(byte, Ones, message), Ones)

\* CRC-16 of CCITT, most significant bit first, polynomial 0x1021, from zero.
Crc16ByDivision(message) ==
    LET bit  == [c \in Word(16) |-> [one \in BOOLEAN |->
                    Xor(ShiftLeft(c, 1, 16), IF (15 \in c) # one THEN {0, 5, 12} ELSE {})]]
        byte == [c \in Word(16) |-> [b \in Word(8) |->
                    BitByBit(bit, c, b, [i \in 1..8 |-> 8 - i])]]
    IN  Along(byte, {}, message)

===============================================================================
