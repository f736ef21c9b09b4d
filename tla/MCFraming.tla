----------------------------- MODULE MCFraming ------------------------------
(***************************************************************************)
(* A small instance of Framing: bytes 0 to 2, lengths of two bytes, values *)
(* of one and two bytes, and one that is too long.                         *)
(***************************************************************************)
EXTENDS Framing

MCValues == {<<1>>, <<0, 2>>, <<1, 0, 1>>}
=============================================================================
