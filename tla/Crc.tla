-------------------------------- MODULE Crc --------------------------------
(***************************************************************************)
(* The check sum of partition_manager.cpp over a sequence of bytes, as the *)
(* kernel computes it.                                                     *)
(***************************************************************************)
EXTENDS Integers, Sequences, Bitwise

(* crc32, bit by bit; a 32-bit word is <<high half, low half>>.            *)
Xor4 == [a \in 0..15 |-> [b \in 0..15 |-> a ^^ b]]
Nibble(a, k) == (a \div 16^k) % 16
XorHalf(a, b) ==
    LET x(k) == Xor4[Nibble(a, k)][Nibble(b, k)] * 16^k IN x(0) + x(1) + x(2) + x(3)
XorWord(a, b) == <<XorHalf(a[1], b[1]), XorHalf(a[2], b[2])>>
Shifted(a) == <<a[1] \div 2, (a[2] \div 2) + 32768 * (a[1] % 2)>>
CrcBit(crc) == IF crc[2] % 2 = 1 THEN XorWord(Shifted(crc), <<60856, 33568>>) ELSE Shifted(crc)
(* The value of each step is bound, so that it is computed once. *)
CrcByte(crc, byte) ==
    LET after[j \in 0..8] ==
            IF j = 0 THEN XorWord(crc, <<0, byte>>)
            ELSE CHOOSE w \in {CrcBit(v) : v \in {after[j - 1]}} : TRUE
    IN after[8]
crc32(bytes) ==
    LET after[i \in 0..Len(bytes)] ==
            IF i = 0 THEN <<65535, 65535>>
            ELSE CHOOSE w \in {CrcByte(v, bytes[i]) : v \in {after[i - 1]}} : TRUE
    IN XorWord(after[Len(bytes)], <<65535, 65535>>)

============================================================================
