---------------------------- MODULE EuiUtilities ----------------------------
(* The pure helpers of eui_utilities.c: the checksum step and the alignment of *)
(* a requested slice of a variable.  Arithmetic keeps the C widths: a value    *)
(* stored in a uint16_t is reduced modulo 2^16.                                *)
EXTENDS EuiTypes

\* bitwise exclusive or, put together from the bits: of weight w, of four bits, of
\* eight bits, of two 16 bit words
XorBit(a, b, w) == IF (a \div w) % 2 = (b \div w) % 2 THEN 0 ELSE w
XorNibble(a, b) == XorBit(a, b, 1) + XorBit(a, b, 2) + XorBit(a, b, 4) + XorBit(a, b, 8)
XorByte(a, b)   == XorNibble(a % 16, b % 16) + 16 * XorNibble(a \div 16, b \div 16)
Xor[p \in Word \X Word] ==
    XorByte(p[1] % 256, p[2] % 256) + 256 * XorByte(p[1] \div 256, p[2] \div 256)

\* crc16(data, &crc): the five assignments, in order
Crc16(data, crc) ==
    LET swapped == crc \div 256 + (crc % 256) * 256
        mixed   == Xor[<<swapped, data>>]
        nibble  == Xor[<<mixed, (mixed % 256) \div 16>>]
        high    == Xor[<<nibble, (nibble * 4096) % 65536>>]
    IN  Xor[<<high, (high % 256) * 32>>]

\* bytes per element of a type; single byte types and customs are 1
TypeSize(type) ==
    CASE type \in {TYPE_INT16, TYPE_UINT16}              -> 2
      [] type \in {TYPE_INT32, TYPE_UINT32, TYPE_FLOAT}  -> 4
      [] type = TYPE_DOUBLE                              -> 8
      [] OTHER                                           -> 1

\* a slip in the next definition: an aligned address is rounded up as well
AlignPast(addr, type) == (((addr + TypeSize(type)) \div TypeSize(type)) * TypeSize(type)) % 65536

\* an address rounded up to a multiple of the element size, stored in a uint16_t
AlignUp(addr, type) ==
    (((addr + (TypeSize(type) - 1)) \div TypeSize(type)) * TypeSize(type)) % 65536

\* a slip in the next definition: the end is not held against the size
ValidateOffsetRangeUnbounded(base, offset, type, size) ==
    LET end   == IF offset = 0 THEN size ELSE AlignUp(offset, type)
        start == IF AlignUp(base, type) >= end
                 THEN (end - TypeSize(type)) % 65536
                 ELSE AlignUp(base, type)
    IN  [start |-> start, end |-> end]

\* validate_offset_range(base, offset, type, size, &start, &end)
ValidateOffsetRange(base, offset, type, size) ==
    LET end   == IF offset > size \/ offset = 0 THEN size ELSE AlignUp(offset, type)
        start == IF AlignUp(base, type) >= end
                 THEN (end - TypeSize(type)) % 65536
                 ELSE AlignUp(base, type)
    IN  [start |-> start, end |-> end]
=============================================================================
