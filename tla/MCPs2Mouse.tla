----------------------------- MODULE MCPs2Mouse -----------------------------
(* Ps2Mouse for TLC: a ring of three slots and a handful of byte values.   *)
EXTENDS Ps2Mouse

\* 0x81 has no first-byte mark and is below zero as a signed char; 0x08 and
\* 0x09 are first bytes with the left button up and down; 0x18 is a first
\* byte with the sign of x.
MCInBytes == {129, 8, 9, 24}

=============================================================================
