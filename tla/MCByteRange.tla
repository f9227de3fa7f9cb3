----------------------------- MODULE MCByteRange ----------------------------
(***************************************************************************)
(* ByteRange with object lengths and header numbers small enough for TLC   *)
(* and on both sides of each other: ranges end before, at and beyond the   *)
(* last byte, and the empty object is among them.                          *)
(***************************************************************************)
EXTENDS ByteRange

CONSTANTS MaxLength, MaxOffset

MCLengths == 0 .. MaxLength
MCOffsets == 0 .. MaxOffset
=============================================================================
