------------------------------ MODULE Keystones ------------------------------
(***************************************************************************)
(* Keystone arithmetic (src/pop/keystone_util.cpp).                         *)
(*                                                                          *)
(* Every ki-th block of a protected chain is a keystone; fork resolution    *)
(* only compares keystones.  Heights are non-negative 32-bit integers in    *)
(* the code; the bounds used by the callers stay far below the width, so    *)
(* the operators are plain integer arithmetic.                              *)
(***************************************************************************)
EXTENDS Integers

isCrossedKeystoneBoundary(bottom, top, ki) == bottom \div ki < top \div ki

=============================================================================
