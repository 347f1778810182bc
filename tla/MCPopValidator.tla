---------------------------- MODULE MCPopValidator ----------------------------
(***************************************************************************)
(* A valid PopData, one with a duplicate, two with an invalid payload and   *)
(* one that is too large.                                                   *)
(***************************************************************************)
EXTENDS PopValidator

CONSTANTS P, Q, X

SmallBodies == {<<P, Q>>, <<P, P>>, <<X, P>>, <<P, X>>, <<P, Q, P>>}
=============================================================================
