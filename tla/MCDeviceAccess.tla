---------------------------- MODULE MCDeviceAccess ----------------------------
(***************************************************************************)
(* A small instance of DeviceAccess for TLC.                               *)
(***************************************************************************)
EXTENDS DeviceAccess, TLC

\* Devices are ordered, the other sets are not.
MCSymmetry ==
  Permutations(Requests) \cup Permutations(Children) \cup Permutations(Codes)
    \cup Permutations(Tokens)

=============================================================================
