------------------------------ MODULE ReacMode ------------------------------
(***************************************************************************)
(* The geometry of a REAC frame that the rest of the program takes from    *)
(* libreac's struct reac_mode (an external library).                       *)
(***************************************************************************)
EXTENDS Integers

CONSTANT SamplesPerPkt   \* samples of one channel in a frame (12)

ASSUME ModeAssumption == SamplesPerPkt \in Nat \ {0}
=============================================================================
