---------------------------- MODULE MCDeviceFlow ----------------------------
(***************************************************************************)
(* TLC instances of DeviceFlow.                                            *)
(***************************************************************************)
EXTENDS DeviceFlow, TLC

\* Requests are alike.
Symmetry == Permutations(Workers)
=============================================================================
