--------------------------------- MODULE Crc ---------------------------------
(***************************************************************************)
(* The checksums of src/crc/crc.c, with which the mailbox protects the     *)
(* length and the body of a message when it is built with USE_CRC.  A word *)
(* is the set of the positions of its ones, bit 0 the lowest.              *)
(***************************************************************************)
EXTENDS Integers, Sequences

CONSTANTS BYTE, WIDTH, POLYNOMIAL     \* 8, 8 * sizeof(crc); POLYNOMIAL as a word
ASSUME CrcAssumption == /\ BYTE \in Nat \ {0} /\ WIDTH \in Nat /\ WIDTH >= BYTE
                        /\ POLYNOMIAL \subseteq 0 .. WIDTH - 1

TOPBIT == WIDTH - 1
INITIAL_REMAINDER == 0 .. WIDTH - 1
FINAL_XOR_VALUE == 0 .. WIDTH - 1
Bytes == SUBSET (0 .. BYTE - 1)

Xor(a, b) == (a \ b) \cup (b \ a)
ShiftLeft(r, n) == {b + n : b \in r} \cap 0 .. WIDTH - 1
ShiftRight(r, n) == {b - n : b \in r} \cap 0 .. WIDTH - 1

reflect(data, nBits) == {nBits - 1 - b : b \in data}

\* The modulo-2 division of a remainder by one bit, and by the bits of a byte.
DivideBit(r) ==
  IF TOPBIT \in r THEN Xor(ShiftLeft(r, 1), POLYNOMIAL) ELSE ShiftLeft(r, 1)
DivideByte(r) ==
  LET After[bits \in 0 .. BYTE] == IF bits = 0 THEN r ELSE DivideBit(After[bits - 1])
  IN After[BYTE]

crcSlow(message) ==
  LET remainder[n \in 0 .. Len(message)] ==
        IF n = 0 THEN INITIAL_REMAINDER
        ELSE DivideByte(Xor(remainder[n - 1],
                            ShiftLeft(reflect(message[n], BYTE), WIDTH - BYTE)))
  IN Xor(reflect(remainder[Len(message)], WIDTH), FINAL_XOR_VALUE)

\* What crcInit fills in: the remainder of every byte.
crcTable == [dividend \in Bytes |-> DivideByte(ShiftLeft(dividend, WIDTH - BYTE))]

crcFast(message) ==
  LET remainder[n \in 0 .. Len(message)] ==
        IF n = 0 THEN INITIAL_REMAINDER
        ELSE LET data == Xor(reflect(message[n], BYTE),
                             ShiftRight(remainder[n - 1], WIDTH - BYTE))
             IN Xor(crcTable[data], ShiftLeft(remainder[n - 1], BYTE))
  IN Xor(reflect(remainder[Len(message)], WIDTH), FINAL_XOR_VALUE)
=============================================================================
