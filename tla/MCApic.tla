------------------------------- MODULE MCApic -------------------------------
(* Apic for the model checker: two devices, two error conditions and       *)
(* three unit ids, one of them above 15.                                   *)
EXTENDS Apic

CONSTANTS SendIllVect, RecvIllVect

MCDeviceVectors == {1, 2}
MCErrorBits     == {SendIllVect, RecvIllVect}
MCUnitIds       == {0, 2^24, 17 * 2^24}

=============================================================================
