------------------------------ MODULE MCGpioIsr ------------------------------
(* Two pins of the HAL and one of the HDF driver. *)
EXTENDS GpioIsr, TLC

CONSTANTS h1, h2, d1

MCHalPins == {h1, h2}
MCHdfPins == {d1}

HalSymmetry == Permutations(MCHalPins)
=============================================================================
