--------------------------- MODULE MCDeviceMirror ---------------------------
(***************************************************************************)
(* DeviceMirror for TLC.  Devices and targets differ only by name.         *)
(***************************************************************************)
EXTENDS DeviceMirror

MCSymmetry == Permutations(Devices) \cup Permutations(Targets)

=============================================================================
