------------------------------- MODULE MCApi -------------------------------
(***************************************************************************)
(* Api with a request, its repeat, one that reuses its key with another    *)
(* body, and one with another key.                                         *)
(***************************************************************************)
EXTENDS Api

CONSTANTS r1, r2, r3, r4, k1, k2, b1, b2

MCKeyOf == [r \in Requests |-> IF r = r4 THEN k2 ELSE k1]
MCBodyOf == [r \in Requests |-> IF r = r3 THEN b2 ELSE b1]
=============================================================================
