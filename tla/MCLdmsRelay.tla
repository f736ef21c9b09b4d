---------------------------- MODULE MCLdmsRelay -----------------------------
(* Small instances of LdmsRelay. *)
EXTENDS LdmsRelay

Msg(cbor, json, id, ts) == [cbor |-> cbor, json |-> json, id |-> id, ts |-> ts]

(* Two producers, one of them with an id and a timestamp of the wrong      *)
(* type, which are no errors, and one whose id is the text that stands for *)
(* such ids; a message that is no CBOR, and one without a field the daemon *)
(* needs.                                                                  *)
MCInputs ==
  {Msg(TRUE, TRUE, "fslat/v2", 2), Msg(TRUE, TRUE, Other, Other),
   Msg(TRUE, TRUE, "invalid id field", 2),
   Msg(FALSE, FALSE, Null, Null), Msg(TRUE, TRUE, "other", Null)}

MCGoodAndBad == {Msg(TRUE, TRUE, "fslat/v2", 2), Msg(FALSE, TRUE, Null, Null)}

(* A boot that the clock puts before the epoch, and an ordinary one.       *)
MCTimeOffsets == {-1, 5}
MCOffset == {5}
=============================================================================
