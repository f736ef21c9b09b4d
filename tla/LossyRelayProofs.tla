-------------------------- MODULE LossyRelayProofs --------------------------
(* What LossyRelay promises: deliveries are in order and never repeated. *)
EXTENDS LossyRelay, TLAPS

Types ==
  /\ sent \in Nat
  /\ pending \in Seq(Nat)
  /\ delivered \in Seq(Nat)

Inv == Types /\ Ordered

(* Every action of the relay keeps the types and the order of the numbers. *)
LEMMA StepKeepsInv == Inv /\ [Next]_vars => Inv'
<1>. SUFFICES ASSUME Inv, [Next]_vars PROVE Inv'
  OBVIOUS
<1>. USE DEF Inv, Types
<1>1. CASE Send
  <2>1. pending' = Append(pending, sent + 1) /\ sent' = sent + 1
    BY <1>1 DEF Send
  <2>2. Types'
    BY <1>1, <2>1 DEF Send
  <2>3. /\ delivered' = delivered
        /\ DOMAIN pending' = 1 .. (Len(pending) + 1)
        /\ \A j \in DOMAIN pending' :
             \/ j \in DOMAIN pending /\ pending'[j] = pending[j]
             \/ j = Len(pending) + 1 /\ pending'[j] = sent + 1
    BY <1>1, <2>1 DEF Send
  <2>4. \A j \in DOMAIN pending : pending[j] \in Nat /\ pending[j] < sent + 1
    BY DEF Ordered
  <2>5. Increasing(pending)'
    <3>. SUFFICES ASSUME NEW i \in DOMAIN pending', NEW j \in DOMAIN pending', i < j
                  PROVE  pending'[i] < pending'[j]
      BY DEF Increasing
    <3>1. i \in DOMAIN pending /\ pending'[i] = pending[i]
      BY <2>3
    <3>2. CASE j \in DOMAIN pending /\ pending'[j] = pending[j]
      BY <3>1, <3>2 DEF Ordered, Increasing
    <3>3. CASE pending'[j] = sent + 1
      BY <3>1, <3>3, <2>4
    <3>. QED  BY <2>3, <3>2, <3>3
  <2>6. \A i \in DOMAIN delivered : delivered[i] \in Nat /\ delivered[i] < sent + 1
    BY DEF Ordered
  <2>7. \A i \in DOMAIN delivered', j \in DOMAIN pending' : delivered'[i] < pending'[j]
    BY <2>3, <2>6 DEF Ordered
  <2>8. \A j \in DOMAIN pending' : pending'[j] <= sent'
    BY <2>1, <2>3, <2>4
  <2>9. Increasing(delivered)' /\ \A i \in DOMAIN delivered' : delivered'[i] <= sent'
    BY <2>1, <2>3, <2>6 DEF Ordered, Increasing
  <2>. QED  BY <2>2, <2>5, <2>7, <2>8, <2>9 DEF Ordered
<1>2. CASE SendLost
  BY <1>2 DEF SendLost, Ordered, Increasing
<1>. DEFINE Taken(p) == /\ p \in Seq(Nat)
                        /\ Len(p) = Len(pending) - 1
                        /\ \A i \in DOMAIN p : p[i] = pending[i + 1] /\ i + 1 \in DOMAIN pending
<1>3. pending # <<>> =>
        /\ Taken(Tail(pending))
        /\ Head(pending) = pending[1] /\ pending[1] \in Nat
        /\ 1 \in DOMAIN pending
        /\ Len(Append(delivered, Head(pending))) = Len(delivered) + 1
  OBVIOUS
<1>4. ASSUME pending # <<>>, delivered' = Append(delivered, Head(pending)), sent' = sent
      PROVE  /\ delivered' \in Seq(Nat)
             /\ Increasing(delivered)'
             /\ \A i \in DOMAIN delivered' : delivered'[i] <= pending[1]
             /\ \A i \in DOMAIN delivered' : delivered'[i] <= sent'
  <2>1. /\ delivered' \in Seq(Nat)
        /\ DOMAIN delivered' = 1 .. (Len(delivered) + 1)
        /\ DOMAIN delivered = 1 .. Len(delivered)
        /\ \A i \in DOMAIN delivered' :
             \/ i \in DOMAIN delivered /\ delivered'[i] = delivered[i]
             \/ i = Len(delivered) + 1 /\ delivered'[i] = pending[1]
    BY <1>3, <1>4
  <2>2. /\ pending[1] \in Nat /\ pending[1] <= sent
        /\ \A i \in DOMAIN delivered : delivered[i] \in Nat /\ delivered[i] < pending[1]
    BY <1>3, <1>4 DEF Ordered
  <2>3. Increasing(delivered)'
    <3>. SUFFICES ASSUME NEW i \in DOMAIN delivered', NEW j \in DOMAIN delivered', i < j
                  PROVE  delivered'[i] < delivered'[j]
      BY DEF Increasing
    <3>1. i \in DOMAIN delivered /\ delivered'[i] = delivered[i]
      BY <2>1
    <3>. QED  BY <2>1, <2>2, <3>1 DEF Ordered, Increasing
  <2>4. ASSUME NEW i \in DOMAIN delivered' PROVE delivered'[i] <= pending[1]
    <3>1. CASE i \in DOMAIN delivered /\ delivered'[i] = delivered[i]
      BY <2>2, <3>1
    <3>2. CASE delivered'[i] = pending[1]
      BY <2>2, <3>2
    <3>. QED  BY <2>1, <3>1, <3>2
  <2>5. \A i \in DOMAIN delivered' : delivered'[i] <= sent'
    BY <2>1, <2>2, <1>4 DEF Ordered
  <2>. QED  BY <2>1, <2>3, <2>4, <2>5
<1>5. CASE Deliver
  <2>1. pending' = Tail(pending) /\ sent' = sent /\ pending # <<>>
    BY <1>5 DEF Deliver
  <2>. HIDE DEF Taken
  <2>2. Taken(pending') /\ pending' \in Seq(Nat)
    BY <2>1, <1>3 DEF Taken
  <2>3. Increasing(pending)'
    BY <2>2 DEF Ordered, Increasing, Taken
  <2>5. ASSUME NEW j \in DOMAIN pending' PROVE pending[1] < pending'[j]
    <3>1. j \in 1..Len(pending')
      BY <2>2
    <3>2. pending'[j] = pending[j + 1] /\ j + 1 \in DOMAIN pending /\ 1 < j + 1
      BY <2>2, <3>1 DEF Taken
    <3>3. 1 \in DOMAIN pending
      BY <2>1, <1>3
    <3>. QED  BY <3>2, <3>3 DEF Ordered, Increasing
  <2>6. \A i \in DOMAIN delivered', j \in DOMAIN pending' : delivered'[i] < pending'[j]
    <3>. SUFFICES ASSUME NEW i \in DOMAIN delivered', NEW j \in DOMAIN pending'
                  PROVE  delivered'[i] < pending'[j]
      OBVIOUS
    <3>3. delivered' = Append(delivered, Head(pending))
      BY <1>5 DEF Deliver
    <3>4. /\ delivered' \in Seq(Nat)
          /\ \A k \in DOMAIN delivered' : delivered'[k] <= pending[1]
      BY <1>4, <2>1, <3>3
    <3>1. delivered'[i] <= pending[1] /\ delivered'[i] \in Nat
      BY <3>4
    <3>2. pending[1] < pending'[j] /\ pending[1] \in Nat /\ pending'[j] \in Nat
      BY <2>1, <2>2, <2>5, <1>3 DEF Taken
    <3>. QED  BY <3>1, <3>2
  <2>4. \A j \in DOMAIN pending' : pending'[j] <= sent'
    BY <2>1, <2>2 DEF Ordered, Taken
  <2>7. /\ delivered' \in Seq(Nat) /\ Increasing(delivered)'
        /\ \A i \in DOMAIN delivered' : delivered'[i] <= sent'
    BY <2>1, <1>4, <1>5 DEF Deliver
  <2>. QED  BY <2>1, <2>2, <2>3, <2>4, <2>6, <2>7 DEF Ordered
<1>6. CASE Lose
  <2>1. pending' = Tail(pending) /\ sent' = sent /\ delivered' = delivered /\ pending # <<>>
    BY <1>6 DEF Lose
  <2>. HIDE DEF Taken
  <2>2. Taken(pending') /\ pending' \in Seq(Nat)
    BY <2>1, <1>3 DEF Taken
  <2>. QED  BY <2>1, <2>2 DEF Ordered, Increasing, Taken
<1>7. CASE Stop
  <2>1. pending' = <<>> /\ sent' = sent /\ pending' \in Seq(Nat) /\ DOMAIN pending' = {}
    BY <1>7 DEF Stop
  <2>2. CASE UNCHANGED delivered
    BY <2>1, <2>2 DEF Ordered, Increasing
  <2>3. CASE pending # <<>> /\ delivered' = Append(delivered, Head(pending))
    BY <2>1, <2>3, <1>4 DEF Ordered, Increasing
  <2>. QED  BY <1>7, <2>2, <2>3 DEF Stop
<1>8. CASE UNCHANGED vars
  BY <1>8 DEF vars, Ordered, Increasing
<1>. QED  BY <1>1, <1>2, <1>5, <1>6, <1>7, <1>8 DEF Next

(* No message is delivered twice or before one submitted earlier, and none *)
(* that was not submitted.                                                 *)
THEOREM RelayOrdered == Spec => []Ordered
<1>1. Init => Inv
  BY DEF Init, Inv, Types, Ordered, Increasing
<1>2. Inv => Ordered
  BY DEF Inv
<1>. QED  BY <1>1, <1>2, StepKeepsInv, PTL DEF Spec
=============================================================================
