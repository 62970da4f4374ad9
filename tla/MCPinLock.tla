------------------------------ MODULE MCPinLock ------------------------------
(***************************************************************************)
(* A small instance of PinLock for TLC.                                    *)
(***************************************************************************)
EXTENDS PinLock, TLC

CONSTANTS d1, d2, c1

\* One child with a PIN, on the first device.
MCDevices == {d1, d2}
MCChildPins == {<<d1, c1>>}

MCSymmetry == Permutations(Requests)
=============================================================================
