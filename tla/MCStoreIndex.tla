------------------------------ MODULE MCStoreIndex ------------------------------
(***************************************************************************)
(* Instances of StoreIndex for TLC: a record and a control of one unit, or *)
(* a record alone.                                                         *)
(***************************************************************************)
EXTENDS StoreIndex, TLC

CONSTANTS r1, k1, u1

OneUnitOf == (r1 :> u1) @@ (k1 :> u1)

PlainUnitOf == r1 :> u1

=============================================================================
