---------------------------- MODULE MCVesaDriver ----------------------------
(***************************************************************************)
(* VesaDriver for TLC: pages of four bytes, a virtual address space of     *)
(* four pages, frame buffers of no, one and several pages, and mode        *)
(* numbers below and above 2^15.                                           *)
(***************************************************************************)
EXTENDS VesaDriver

MCModes == {280, 16664, 49432}      \* 0x118, 0x4118, 0xC118

MCPhysAddrs == {8, 16}

MCSizes == {0, 1, 4, 5, 9}

=============================================================================
