---------------------------- MODULE MCOtaSession ----------------------------
(***************************************************************************)
(* Three images of three chunks: one that differs from the factory's in    *)
(* two chunks (a delta) and one that differs in all (a full update).       *)
(***************************************************************************)
EXTENDS OtaSession

Image(a, b, c) == [i \in 0..2 |-> <<a, b, c>>[i + 1]]
MCFactory == Image(1, 1, 1)
MCImages  == {Image(1, 2, 2), Image(3, 3, 3)}
=============================================================================
