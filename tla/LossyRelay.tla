----------------------------- MODULE LossyRelay -----------------------------
(***************************************************************************)
(* What the shared ring and the daemon promise together to a reader of the *)
(* LDMS stream: messages are numbered as the producers submit them; any of *)
(* them may be lost (the ring is full, the message is malformed or over    *)
(* its rate, LDMS refuses it, the daemon stops), but none is delivered     *)
(* twice, none out of order, none that was not submitted.                  *)
(***************************************************************************)
EXTENDS Integers, Sequences

VARIABLES sent,       \* how many messages were submitted
          pending,    \* the numbers of the messages on their way, oldest first
          delivered   \* the numbers of the messages published, oldest first

vars == <<sent, pending, delivered>>

Init ==
  /\ sent = 0
  /\ pending = <<>>
  /\ delivered = <<>>

Send ==
  /\ sent' = sent + 1
  /\ pending' = Append(pending, sent')
  /\ UNCHANGED delivered

SendLost ==
  /\ sent' = sent + 1
  /\ UNCHANGED <<pending, delivered>>

Deliver ==
  /\ pending # <<>>
  /\ delivered' = Append(delivered, Head(pending))
  /\ pending' = Tail(pending)
  /\ UNCHANGED sent

Lose ==
  /\ pending # <<>>
  /\ pending' = Tail(pending)
  /\ UNCHANGED <<sent, delivered>>

(* The relay stops, perhaps right after a last delivery.                   *)
Stop ==
  /\ pending' = <<>>
  /\ \/ UNCHANGED delivered
     \/ /\ pending # <<>>
        /\ delivered' = Append(delivered, Head(pending))
  /\ UNCHANGED sent

Next == Send \/ SendLost \/ Deliver \/ Lose \/ Stop

Spec == Init /\ [][Next]_vars

-----------------------------------------------------------------------------
Increasing(s) == \A i, j \in DOMAIN s : i < j => s[i] < s[j]

(* Deliveries are in submission order and without repetition, and whatever *)
(* is still on its way comes after all that was delivered.                 *)
Ordered ==
  /\ Increasing(delivered)
  /\ Increasing(pending)
  /\ \A i \in DOMAIN delivered, j \in DOMAIN pending : delivered[i] < pending[j]
  /\ \A j \in DOMAIN pending : pending[j] <= sent
  /\ \A i \in DOMAIN delivered : delivered[i] <= sent
=============================================================================
