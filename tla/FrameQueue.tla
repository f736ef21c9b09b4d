----------------------------- MODULE FrameQueue -----------------------------
(***************************************************************************)
(* What a writer and a reader of minicbor-io promise together: the values  *)
(* whose frames were written arrive once and in order, until the stream    *)
(* breaks.                                                                 *)
(***************************************************************************)
EXTENDS Naturals, Sequences

CONSTANTS Values

VARIABLES sent, received, broken

vars == <<sent, received, broken>>

Init == sent = <<>> /\ received = <<>> /\ broken = FALSE

Send(v) ==
  /\ sent' = Append(sent, v)
  /\ UNCHANGED <<received, broken>>

Receive ==
  /\ ~ broken
  /\ Len(received) < Len(sent)
  /\ received' = Append(received, sent[Len(received) + 1])
  /\ UNCHANGED <<sent, broken>>

(* The stream breaks: nothing is promised any more.                        *)
Break == broken' = TRUE

Next == (\E v \in Values : Send(v)) \/ Receive \/ Break

Spec == Init /\ [][Next]_vars /\ WF_vars(Receive)
=============================================================================
