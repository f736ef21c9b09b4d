--------------------------- MODULE LdmsRelayProofs --------------------------
(***************************************************************************)
(* The daemon keeps its types, implements LossyRelay, and keeps every      *)
(* producer to its own rate.                                               *)
(***************************************************************************)
EXTENDS LdmsRelay, SequenceTheorems, FiniteSetTheorems, TLAPS

(***************************************************************************)
(* A body or a publish is always about the oldest record, which only the   *)
(* loop removes; and the loop only runs while main waits, so that what     *)
(* LossyRelay has pending is the ring whenever the loop takes a step.      *)
(***************************************************************************)
Working ==
  /\ task \in {"body", "publish"} => ring # <<>>
  /\ task = "publish" => ring[1].msg.ts # Null
  /\ task \in {"init", "poll", "next", "body", "publish"} => proc = "waiting"

Inv == TypeOK /\ Working

(* Rolling a limiter forward keeps its type. *)
LEMMA RollType ==
  ASSUME TypeOK, NEW t \in TokensType
  PROVE  Roll(t) \in TokensType
<1>. DEFINE w == (clock - t.start) \div interval
<1>1. w \in Int
  BY DEF TypeOK, TokensType
<1>. QED  BY <1>1 DEF Roll, TokensType

(* The limiter of an id, new or not, has its type. *)
LEMMA TokensOfType ==
  ASSUME TypeOK, NEW id
  PROVE  TokensOf(id) \in TokensType
<1>1. FreshTokens \in TokensType
  BY DEF FreshTokens, TokensType, TypeOK
<1>2. id \in DOMAIN producer_tokens => producer_tokens[id] \in TokensType
  BY DEF TypeOK
<1>. QED  BY <1>1, <1>2, RollType DEF TokensOf

(* Storing a limiter keeps the table's type. *)
LEMMA SetTokensType ==
  ASSUME TypeOK, NEW id, NEW t \in TokensType, SetTokens(id, t)
  PROVE  \A i \in DOMAIN producer_tokens' : producer_tokens'[i] \in TokensType
BY DEF SetTokens, TypeOK

(* The oldest record of a ring that is not empty. *)
LEMMA OldestRecord ==
  ASSUME TypeOK, ring # <<>>
  PROVE  /\ ring[1] \in RingRecord
         /\ Head(ring) = ring[1]
         /\ Tail(ring) \in Seq(RingRecord)
         /\ 1 \in DOMAIN ring
BY DEF TypeOK

(* What a publish adds to the history has its type. *)
LEMMA PublishType ==
  ASSUME TypeOK, ring # <<>>, ring[1].msg.ts # Null, Publish
  PROVE  published' \in Seq(Published)
<1>1. ring[1] \in RingRecord
  BY OldestRecord
<1>2. ring[1].msg \in Inputs /\ ring[1].n \in Nat
  BY <1>1 DEF RingRecord
<1>3. ring[1].msg.ts \in Nat \union {Other}
  BY <1>2, ConstantsAssumption
<1>4. Timestamp(ring[1].msg) \in Int
  BY <1>3 DEF Timestamp, TypeOK
<1>5. [n |-> ring[1].n, id |-> ring[1].msg.id, at |-> clock,
       timestamp |-> Timestamp(ring[1].msg)] \in Published
  BY <1>2, <1>4 DEF Published, TypeOK
<1>. QED  BY <1>5, AppendProperties DEF Publish, TypeOK

(* The initial state satisfies the invariant: parse_ratelimit leaves       *)
(* neither limit 0.                                                        *)
LEMMA InitInv == Init => Inv
<1>. SUFFICES ASSUME Init PROVE Inv
  OBVIOUS
<1>1. msglimit \in Nat \ {0} /\ interval \in Nat \ {0}
  BY ConstantsAssumption DEF Init, parse_ratelimit
<1>2. \A id \in DOMAIN producer_tokens : producer_tokens[id] \in TokensType
  BY DEF Init
<1>. QED  BY <1>1, <1>2, EmptySeq DEF Init, Inv, TypeOK, Working

(* What a producer does to the ring keeps its oldest record's message. *)
LEMMA ProducerKeepsInv ==
  ASSUME Inv, \/ \E msg \in Inputs : Reserve(msg)
              \/ ReserveFails
              \/ \E i \in DOMAIN ring : Submit(i)
  PROVE  Inv'
<1>. USE DEF Inv
<1>1. ASSUME NEW msg \in Inputs, Reserve(msg) PROVE Inv'
  <2>. DEFINE rec == [n |-> produced', msg |-> msg, busy |-> TRUE]
  <2>1. rec \in RingRecord /\ ring' = Append(ring, rec) /\ produced' \in Nat
    BY <1>1 DEF Reserve, RingRecord, TypeOK
  <2>. HIDE DEF rec
  <2>2. ring' \in Seq(RingRecord) /\ ring' # <<>> /\ (ring # <<>> => ring'[1] = ring[1])
    BY <2>1, AppendProperties DEF TypeOK
  <2>3. TypeOK'
    BY <1>1, <2>1, <2>2 DEF Reserve, TypeOK, config
  <2>. QED  BY <1>1, <2>2, <2>3 DEF Reserve, Working, config
<1>2. CASE ReserveFails
  BY <1>2 DEF ReserveFails, TypeOK, Working, config
<1>3. ASSUME NEW i \in DOMAIN ring, Submit(i) PROVE Inv'
  <2>1. ring' = [ring EXCEPT ![i] = [ring[i] EXCEPT !.busy = FALSE]]
    BY <1>3 DEF Submit
  <2>2. ring[i] \in RingRecord
    BY DEF TypeOK
  <2>3. /\ [ring[i] EXCEPT !.busy = FALSE] \in RingRecord
        /\ [ring[i] EXCEPT !.busy = FALSE].msg = ring[i].msg
    BY <2>2 DEF RingRecord
  <2>4. ring' \in Seq(RingRecord) /\ ring' # <<>> /\ ring'[1].msg = ring[1].msg
    BY <2>1, <2>3 DEF TypeOK
  <2>5. TypeOK'
    BY <1>3, <2>4 DEF Submit, TypeOK, config
  <2>. QED  BY <1>3, <2>4, <2>5 DEF Submit, Working, config
<1>. QED  BY <1>1, <1>2, <1>3

(* A step of ring_loop that drops the record at hand keeps the invariant. *)
LEMMA LoopKeepsInv == ASSUME Inv, RingLoop PROVE Inv'
<1>. USE DEF Inv
<1>1. CASE StartLoop \/ StartLoopErr
  <2>1. time_offset' \in Int
    BY <1>1, ConstantsAssumption DEF StartLoop, StartLoopErr
  <2>. QED  BY <1>1, <2>1 DEF StartLoop, StartLoopErr, TypeOK, Working
<1>2. CASE Readable
  BY <1>2 DEF Readable, TypeOK, Working, config
<1>3. CASE NextItem
  BY <1>3 DEF NextItem, TypeOK, Working, config
<1>4. CASE Skip
  <2>1. ring' \in Seq(RingRecord)
    BY <1>4, OldestRecord DEF Skip, DropItem, Working
  <2>. QED  BY <1>4, <2>1 DEF Skip, TypeOK, Working, config
<1>5. CASE RateLimited
  <2>1. ring' \in Seq(RingRecord)
    BY <1>5, OldestRecord DEF RateLimited, DropItem, Working
  <2>2. \A i \in DOMAIN producer_tokens' : producer_tokens'[i] \in TokensType
    BY <1>5, TokensOfType, SetTokensType DEF RateLimited
  <2>. QED  BY <1>5, <2>1, <2>2 DEF RateLimited, TypeOK, Working, config
<1>6. CASE StartPublish
  <2>. DEFINE id == ProducerId(ring[1].msg)
              t  == [TokensOf(id) EXCEPT !.cur = @ + 1]
  <2>1. t \in TokensType
    BY TokensOfType DEF TokensType
  <2>2. SetTokens(id, t)
    BY <1>6 DEF StartPublish
  <2>. HIDE DEF id, t
  <2>3. \A i \in DOMAIN producer_tokens' : producer_tokens'[i] \in TokensType
    BY <2>1, <2>2, SetTokensType
  <2>. QED  BY <1>6, <2>3 DEF StartPublish, Relayable, TypeOK, Working, config
<1>7. CASE PublishOk
  <2>1. ring' \in Seq(RingRecord)
    BY <1>7, OldestRecord DEF PublishOk, DropItem, Working
  <2>2. published' \in Seq(Published)
    BY <1>7, PublishType DEF PublishOk, Working
  <2>. QED  BY <1>7, <2>1, <2>2 DEF PublishOk, TypeOK, Working, config
<1>8. CASE PublishErr
  <2>1. ring' \in Seq(RingRecord)
    BY <1>8, OldestRecord DEF PublishErr, DropItem, Working
  <2>. QED  BY <1>8, <2>1 DEF PublishErr, TypeOK, Working, config
<1>. QED  BY <1>1, <1>2, <1>3, <1>4, <1>5, <1>6, <1>7, <1>8 DEF RingLoop

(* Every step of the daemon and of the producers keeps the invariant. *)
LEMMA StepInv == Inv /\ [Next]_vars => Inv'
<1>. SUFFICES ASSUME Inv, [Next]_vars PROVE Inv'
  OBVIOUS
<1>1. CASE Tick \/ NewStream \/ Connect \/ SpawnRingLoop \/ StartFails
  BY <1>1 DEF Inv, Tick, NewStream, Connect, SpawnRingLoop, StartFails, TypeOK, Working, config
<1>2. CASE Exit
  <2>1. published' \in Seq(Published)
    BY <1>2, PublishType DEF Exit, Inv, TypeOK, Working
  <2>. QED  BY <1>2, <2>1 DEF Exit, Inv, TypeOK, Working, config
<1>3. CASE UNCHANGED vars
  BY <1>3 DEF vars, Inv, TypeOK, Working, config
<1>. QED  BY <1>1, <1>2, <1>3, ProducerKeepsInv, LoopKeepsInv DEF Next

(* The daemon keeps its types: in particular, though the command line says *)
(* 0, the limiter never divides by an interval of 0 (of up to 30 years:    *)
(* interval * 1000 is a u64, which wraps for absurd ones).                 *)
THEOREM TypeCorrect == Spec => []TypeOK
<1>1. Inv => TypeOK
  BY DEF Inv
<1>. QED  BY <1>1, InitInv, StepInv, PTL DEF Spec

-----------------------------------------------------------------------------
(* The refinement: what happens to the numbers of the records. *)

(* The numbers of a sequence of records that grows at its end. *)
LEMMA NumbersAppend ==
  ASSUME NEW S, NEW s \in Seq(S), NEW r
  PROVE  Numbers(Append(s, r)) = Append(Numbers(s), r.n)
<1>. DEFINE T == S \union {r}
            a == Append(s, r)
            b == Append(Numbers(s), r.n)
<1>1. s \in Seq(T) /\ r \in T
  OBVIOUS
<1>2. /\ a \in Seq(T) /\ Len(a) = Len(s) + 1
      /\ \A i \in 1..Len(s) : a[i] = s[i]
      /\ a[Len(s) + 1] = r
  BY <1>1, AppendProperties
<1>3. Numbers(s) \in Seq({t.n : t \in T}) /\ Len(Numbers(s)) = Len(s) /\ r.n \in {t.n : t \in T}
  BY <1>1 DEF Numbers
<1>4. /\ b \in Seq({t.n : t \in T}) /\ Len(b) = Len(s) + 1
      /\ \A i \in 1..Len(s) : b[i] = s[i].n
      /\ b[Len(s) + 1] = r.n
  BY <1>1, <1>3, AppendProperties DEF Numbers
<1>. HIDE DEF a, b, T
<1>5. \A i \in 1..(Len(s) + 1) : a[i].n = b[i]
  BY <1>1, <1>2, <1>4
<1>6. DOMAIN a = 1..(Len(s) + 1) /\ DOMAIN b = 1..(Len(s) + 1)
  BY <1>1, <1>2, <1>4
<1>7. b = [i \in 1..(Len(s) + 1) |-> b[i]]
  BY <1>4, <1>6
<1>8. Numbers(a) = b
  BY <1>5, <1>6, <1>7 DEF Numbers
<1>. QED  BY <1>8 DEF a, b

(* The numbers of a sequence of records that loses its first one. *)
LEMMA NumbersTail ==
  ASSUME NEW S, NEW s \in Seq(S), s # <<>>
  PROVE  /\ Numbers(Tail(s)) = Tail(Numbers(s))
         /\ Head(Numbers(s)) = s[1].n
         /\ Numbers(s) # <<>>
<1>. DEFINE N == {t.n : t \in S}
<1>1. Numbers(s) \in Seq(N) /\ Len(Numbers(s)) = Len(s) /\ Len(s) > 0
  BY DEF Numbers
<1>2. Tail(s) \in Seq(S) /\ Tail(Numbers(s)) \in Seq(N)
  BY <1>1, HeadTailProperties
<1>3. DOMAIN Tail(s) = 1..(Len(s) - 1) /\ DOMAIN Tail(Numbers(s)) = 1..(Len(s) - 1)
  BY <1>1, <1>2, HeadTailProperties
<1>4. \A i \in 1..(Len(s) - 1) : Tail(s)[i] = s[i + 1] /\ Tail(Numbers(s))[i] = s[i + 1].n
  BY <1>1 DEF Numbers
<1>5. ASSUME NEW t \in Seq(N) PROVE t = [i \in DOMAIN t |-> t[i]]
  OBVIOUS
<1>6. Numbers(Tail(s)) = Tail(Numbers(s))
  <2>. DEFINE t == Tail(Numbers(s))
  <2>1. t = [i \in DOMAIN t |-> t[i]]
    BY <1>2, <1>5
  <2>. QED  BY <1>3, <1>4, <2>1 DEF Numbers
<1>7. Head(Numbers(s)) = s[1].n
  BY <1>1 DEF Numbers
<1>. QED  BY <1>1, <1>6, <1>7

(* A publish adds the number of the oldest record. *)
LEMMA PublishNumbers ==
  ASSUME TypeOK, Publish
  PROVE  Numbers(published') = Append(Numbers(published), ring[1].n)
<1>. DEFINE rec == [n |-> ring[1].n, id |-> ring[1].msg.id, at |-> clock,
                    timestamp |-> Timestamp(ring[1].msg)]
<1>1. published' = Append(published, rec) /\ rec.n = ring[1].n
  BY DEF Publish
<1>2. published \in Seq(Published)
  BY DEF TypeOK
<1>. HIDE DEF rec
<1>. QED  BY <1>1, <1>2, NumbersAppend

(* The initial state is one of LossyRelay. *)
LEMMA InitRefines == Init => Relay!Init
BY DEF Init, Relay!Init, Numbers

(* What a producer does is a Send, a SendLost (without room, or with no    *)
(* daemon left to read the ring) or nothing.                               *)
LEMMA ProducerRefines ==
  ASSUME Inv, \/ \E msg \in Inputs : Reserve(msg)
              \/ ReserveFails
              \/ \E i \in DOMAIN ring : Submit(i)
  PROVE  [Relay!Next]_(Relay!vars)
<1>. USE DEF Inv, Relay!vars
<1>1. ASSUME NEW msg \in Inputs, Reserve(msg) PROVE [Relay!Next]_(Relay!vars)
  <2>. DEFINE rec == [n |-> produced', msg |-> msg, busy |-> TRUE]
  <2>1. ring' = Append(ring, rec) /\ rec.n = produced'
    BY <1>1 DEF Reserve
  <2>. HIDE DEF rec
  <2>2. Numbers(ring') = Append(Numbers(ring), produced')
    BY <2>1, NumbersAppend DEF TypeOK
  <2>3. CASE proc = "exited"
    BY <1>1, <2>3 DEF Reserve, Relay!Next, Relay!SendLost, Numbers
  <2>4. CASE proc # "exited"
    BY <1>1, <2>2, <2>4 DEF Reserve, Relay!Next, Relay!Send, Numbers
  <2>. QED  BY <2>3, <2>4
<1>2. CASE ReserveFails
  BY <1>2 DEF ReserveFails, Relay!Next, Relay!SendLost
<1>3. ASSUME NEW i \in DOMAIN ring, Submit(i) PROVE [Relay!Next]_(Relay!vars)
  <2>1. ring' = [ring EXCEPT ![i] = [ring[i] EXCEPT !.busy = FALSE]]
    BY <1>3 DEF Submit
  <2>2. ring[i] \in RingRecord
    BY DEF TypeOK
  <2>3. [ring[i] EXCEPT !.busy = FALSE].n = ring[i].n
    BY <2>2 DEF RingRecord
  <2>4. Numbers(ring') = Numbers(ring)
    BY <2>1, <2>3 DEF Numbers
  <2>. QED  BY <1>3, <2>4 DEF Submit
<1>. QED  BY <1>1, <1>2, <1>3

(* A step of ring_loop delivers or loses the oldest message, or does       *)
(* nothing to the ring.                                                    *)
LEMMA LoopRefines == ASSUME Inv, RingLoop PROVE [Relay!Next]_(Relay!vars)
<1>. USE DEF Inv, Relay!vars
<1>1. CASE StartLoop \/ StartLoopErr \/ Readable \/ NextItem \/ StartPublish
  BY <1>1 DEF StartLoop, StartLoopErr, Readable, NextItem, StartPublish
<1>2. ASSUME ring # <<>>, DropItem
      PROVE  /\ Numbers(ring') = Tail(Numbers(ring))
             /\ Head(Numbers(ring)) = ring[1].n
             /\ Numbers(ring) # <<>>
  BY <1>2, NumbersTail DEF DropItem, TypeOK
<1>3. CASE Skip \/ RateLimited \/ PublishErr
  <2>1. /\ proc = "waiting" /\ proc' = "waiting"
        /\ ring # <<>> /\ DropItem
        /\ published' = published /\ produced' = produced
    BY <1>3 DEF Skip, RateLimited, PublishErr, Working
  <2>. QED  BY <1>2, <2>1 DEF Relay!Next, Relay!Lose
<1>4. CASE PublishOk
  <2>1. /\ proc = "waiting" /\ proc' = "waiting"
        /\ ring # <<>> /\ DropItem
        /\ Publish /\ produced' = produced
    BY <1>4 DEF PublishOk, Working
  <2>2. Numbers(published') = Append(Numbers(published), ring[1].n)
    BY <2>1, PublishNumbers
  <2>. QED  BY <1>2, <2>1, <2>2 DEF Relay!Next, Relay!Deliver
<1>. QED  BY <1>1, <1>3, <1>4 DEF RingLoop

(* Every step of the program is a step of LossyRelay or leaves it alone.   *)
LEMMA StepRefines == Inv /\ [Next]_vars => [Relay!Next]_(Relay!vars)
<1>. SUFFICES ASSUME Inv, [Next]_vars PROVE [Relay!Next]_(Relay!vars)
  OBVIOUS
<1>. USE DEF Inv, Relay!vars
<1>1. CASE Tick \/ NewStream \/ Connect \/ SpawnRingLoop
  BY <1>1 DEF Tick, NewStream, Connect, SpawnRingLoop
<1>2. CASE StartFails
  BY <1>2 DEF StartFails, Relay!Next, Relay!Stop
<1>3. CASE Exit
  <2>1. CASE UNCHANGED published
    BY <1>3, <2>1 DEF Exit, Relay!Next, Relay!Stop
  <2>2. CASE task = "publish" /\ Publish
    <3>1. ring # <<>>
      BY <2>2 DEF Working
    <3>2. Numbers(published') = Append(Numbers(published), ring[1].n)
      BY <2>2, PublishNumbers
    <3>3. Head(Numbers(ring)) = ring[1].n /\ Numbers(ring) # <<>>
      BY <3>1, NumbersTail DEF TypeOK
    <3>. QED  BY <1>3, <3>2, <3>3 DEF Exit, Relay!Next, Relay!Stop
  <2>. QED  BY <1>3, <2>1, <2>2 DEF Exit
<1>4. CASE UNCHANGED vars
  BY <1>4 DEF vars
<1>. QED  BY <1>1, <1>2, <1>3, <1>4, ProducerRefines, LoopRefines DEF Next

(* The daemon implements LossyRelay: whatever the producers, the limiter,  *)
(* LDMS and the end of the process do, for any ring size and any limits.   *)
THEOREM DaemonImplementsRelay == Spec => RelaySpec
BY InitInv, StepInv, InitRefines, StepRefines, PTL DEF Spec, RelaySpec, Relay!Spec

-----------------------------------------------------------------------------
(* The order of what LDMS gets follows from the theorem about LossyRelay.  *)
Abstract == INSTANCE LossyRelayProofs
              WITH sent      <- produced,
                   pending   <- IF proc = "exited" THEN <<>> ELSE Numbers(ring),
                   delivered <- Numbers(published)

(* LDMS gets each message at most once and in the order of submission.     *)
PublishedInOrder ==
  \A i, j \in DOMAIN published : i < j => published[i].n < published[j].n

(* The daemon never publishes a message twice, nor after one that was      *)
(* submitted later.                                                        *)
THEOREM AtMostOnceInOrder == Spec => []PublishedInOrder
<1>1. RelaySpec => Abstract!Spec
  <2>1. Relay!Init => Abstract!Init
    BY DEF Relay!Init, Abstract!Init
  <2>2. [Relay!Next]_(Relay!vars) => [Abstract!Next]_(Abstract!vars)
    BY DEF Relay!Next, Relay!Send, Relay!SendLost, Relay!Deliver, Relay!Lose, Relay!Stop,
           Relay!vars, Abstract!Next, Abstract!Send, Abstract!SendLost, Abstract!Deliver,
           Abstract!Lose, Abstract!Stop, Abstract!vars
  <2>. QED  BY <2>1, <2>2, PTL DEF RelaySpec, Relay!Spec, Abstract!Spec
<1>2. Abstract!Ordered => PublishedInOrder
  BY DEF Abstract!Ordered, Abstract!Increasing, PublishedInOrder, Numbers
<1>. QED  BY <1>1, <1>2, DaemonImplementsRelay, Abstract!RelayOrdered, PTL

-----------------------------------------------------------------------------
(* The rate limit.  First what divisions and multiples of an interval are. *)
LEMMA DivBounds ==
  ASSUME NEW n \in Nat, NEW d \in Nat \ {0}
  PROVE  /\ n \div d \in Nat
         /\ (n \div d) * d <= n
         /\ n < (n \div d) * d + d
         /\ n = (n \div d) * d + (n % d)
         /\ n % d \in 0 .. (d - 1)
OBVIOUS

LEMMA TimesGap ==
  ASSUME NEW x \in Nat, NEW y \in Nat, NEW d \in Nat
  PROVE  /\ x * d \in Nat
         /\ x < y => x * d + d <= y * d
         /\ x <= y => x * d <= y * d
<1>1. ASSUME x < y PROVE x * d + d <= y * d
  <2>1. PICK z \in Nat : y = x + 1 + z
    <3>1. y - x - 1 \in Nat /\ y = x + 1 + (y - x - 1)
      BY <1>1
    <3>. QED  BY <3>1
  <2>2. y * d = x * d + d + z * d /\ z * d \in Nat
    BY <2>1
  <2>. QED  BY <2>2
<1>2. x * d \in Nat /\ y * d \in Nat
  OBVIOUS
<1>. QED  BY <1>1, <1>2

(***************************************************************************)
(* What a limiter t of the key K knows of what was published, and of f     *)
(* messages more, 0 or 1, that it has accepted and LDMS not yet: its       *)
(* counts are no larger than what was published in its windows, and what   *)
(* followed a message was accepted within the limit of each window.        *)
(***************************************************************************)
KeyOf(id) == IF id = Other THEN "invalid id field" ELSE id

Sent(pub, K, i)  == {k \in (i + 1) .. Len(pub) : KeyOf(pub[k].id) = K}
Since(pub, K, c) == {k \in 1 .. Len(pub) : KeyOf(pub[k].id) = K /\ pub[k].at >= c}

Begin(t, n, I) == t.start + n * I      \* when window n of t begins

Covered(pub, K, t, f, I) ==
  /\ t.cur <= Cardinality(Since(pub, K, Begin(t, t.window, I))) + f
  /\ t.prev + t.cur <= Cardinality(Since(pub, K, Begin(t, t.window, I) - I)) + f

Capped(pub, K, t, f, M, I) ==
  \A i \in 1 .. Len(pub) : KeyOf(pub[i].id) = K =>
    /\ t.start <= pub[i].at
    /\ \A a \in Nat :
         Begin(t, a, I) <= pub[i].at /\ pub[i].at < Begin(t, a, I) + I =>
           /\ t.window < a => Cardinality(Sent(pub, K, i)) + f = 0
           /\ a <= t.window =>
                Cardinality(Sent(pub, K, i)) + f <= M * (t.window - a) + t.cur

(* Keys are equal exactly for ids that share a limit. *)
LEMMA SameKey == \A a, b : SameProducer(a, b) <=> KeyOf(a) = KeyOf(b)
BY DEF SameProducer, KeyOf

(* The counts are numbers. *)
LEMMA CountsType ==
  ASSUME NEW pub \in Seq(Published), NEW K
  PROVE  /\ \A i \in Nat : /\ IsFiniteSet(Sent(pub, K, i))
                           /\ Cardinality(Sent(pub, K, i)) \in Nat
         /\ \A c : /\ IsFiniteSet(Since(pub, K, c))
                   /\ Cardinality(Since(pub, K, c)) \in Nat
<1>1. Len(pub) \in Nat
  OBVIOUS
<1>2. IsFiniteSet(1 .. Len(pub))
  BY <1>1, FS_Interval
<1>3. \A i \in Nat : Sent(pub, K, i) \subseteq 1 .. Len(pub)
  BY <1>1 DEF Sent
<1>4. \A c : Since(pub, K, c) \subseteq 1 .. Len(pub)
  BY DEF Since
<1>. QED  BY <1>2, <1>3, <1>4, FS_Subset, FS_CardinalityType

(* What one more message does to the counts. *)
LEMMA CountsAppend ==
  ASSUME NEW pub \in Seq(Published), NEW r \in Published, NEW K
  PROVE  /\ Sent(Append(pub, r), K, Len(pub) + 1) = {}
         /\ KeyOf(r.id) = K =>
              /\ \A i \in 1 .. Len(pub) :
                   Cardinality(Sent(Append(pub, r), K, i)) = Cardinality(Sent(pub, K, i)) + 1
              /\ \A c \in Int : c <= r.at =>
                   Cardinality(Since(Append(pub, r), K, c))
                     = Cardinality(Since(pub, K, c)) + 1
         /\ KeyOf(r.id) # K =>
              /\ \A i \in 1 .. Len(pub) :
                   Cardinality(Sent(Append(pub, r), K, i)) = Cardinality(Sent(pub, K, i))
              /\ \A c \in Int :
                   Cardinality(Since(Append(pub, r), K, c)) = Cardinality(Since(pub, K, c))
<1>. DEFINE pub2 == Append(pub, r)
            n    == Len(pub) + 1
<1>1. /\ Len(pub) \in Nat /\ Len(pub2) = n
      /\ \A k \in 1 .. Len(pub) : pub2[k] = pub[k]
      /\ pub2[n] = r
      /\ r.at \in Nat
  BY AppendProperties, LenProperties DEF Published
<1>. HIDE DEF pub2
<1>2. Sent(pub2, K, Len(pub) + 1) = {}
  BY <1>1 DEF Sent
<1>3. ASSUME NEW i \in 1 .. Len(pub), KeyOf(r.id) = K
      PROVE  Cardinality(Sent(pub2, K, i)) = Cardinality(Sent(pub, K, i)) + 1
  <2>1. Sent(pub2, K, i) = Sent(pub, K, i) \union {n} /\ n \notin Sent(pub, K, i)
    BY <1>1, <1>3 DEF Sent
  <2>2. IsFiniteSet(Sent(pub, K, i))
    BY <1>1, CountsType
  <2>. QED  BY <2>1, <2>2, FS_AddElement
<1>4. ASSUME NEW i \in 1 .. Len(pub), KeyOf(r.id) # K
      PROVE  Cardinality(Sent(pub2, K, i)) = Cardinality(Sent(pub, K, i))
  <2>1. Sent(pub2, K, i) = Sent(pub, K, i)
    BY <1>1, <1>4 DEF Sent
  <2>. QED  BY <2>1, Zenon
<1>5. ASSUME NEW c \in Int, c <= r.at, KeyOf(r.id) = K
      PROVE  Cardinality(Since(pub2, K, c)) = Cardinality(Since(pub, K, c)) + 1
  <2>1. Since(pub2, K, c) = Since(pub, K, c) \union {n} /\ n \notin Since(pub, K, c)
    BY <1>1, <1>5 DEF Since
  <2>. QED  BY <2>1, CountsType, FS_AddElement
<1>6. ASSUME NEW c \in Int, KeyOf(r.id) # K
      PROVE  Cardinality(Since(pub2, K, c)) = Cardinality(Since(pub, K, c))
  <2>1. Since(pub2, K, c) = Since(pub, K, c)
    BY <1>1, <1>6 DEF Since
  <2>. QED  BY <2>1, Zenon
<1>. QED  BY <1>2, <1>3, <1>4, <1>5, <1>6 DEF pub2

(* A later window leaves room for what an earlier one accepted.            *)
LEMMA LaterWindow ==
  ASSUME NEW n \in Nat, NEW M \in Nat, NEW v \in Nat, NEW w \in Nat, NEW a \in Nat,
         NEW cur \in Nat, cur <= M, v < w,
         v < a => n = 0,
         a <= v => n <= M * (v - a) + cur
  PROVE  /\ w < a => n = 0
         /\ a <= w => n <= M * (w - a)
<1>1. ASSUME v < a, a <= w PROVE n <= M * (w - a)
  <2>1. M * (w - a) \in Nat
    BY <1>1
  <2>. QED  BY <1>1, <2>1
<1>2. ASSUME a <= v PROVE n <= M * (w - a)
  <2>1. PICK x \in Nat : x = v - a
    BY <1>2
  <2>2. PICK y \in Nat : y = w - a
    BY <1>2
  <2>3. x < y
    BY <2>1, <2>2
  <2>4. x * M + M <= y * M /\ x * M \in Nat /\ y * M \in Nat
    BY <2>3, TimesGap
  <2>5. M * x = x * M /\ M * y = y * M
    OBVIOUS
  <2>6. n <= M * x + cur
    BY <1>2, <2>1
  <2>. QED  BY <2>2, <2>4, <2>5, <2>6
<1>. QED  BY <1>1, <1>2

(* A limiter that rolls on to a later window keeps what it knows. *)
LEMMA RollKeeps ==
  ASSUME NEW pub \in Seq(Published), NEW K, NEW t \in TokensType, NEW u \in TokensType,
         NEW M \in Nat, NEW I \in Nat \ {0},
         t.window \in Nat, u.window \in Nat, t.cur <= M,
         u.start = t.start, t.window < u.window, u.cur = 0,
         u.prev = IF u.window = t.window + 1 THEN t.cur ELSE 0
  PROVE  /\ Covered(pub, K, t, 0, I) => Covered(pub, K, u, 0, I)
         /\ Capped(pub, K, t, 0, M, I) => Capped(pub, K, u, 0, M, I)
<1>0. /\ t.start \in Nat /\ t.prev \in Nat /\ t.cur \in Nat
      /\ u.start \in Nat /\ u.prev \in Nat /\ u.cur \in Nat
  BY DEF TokensType
<1>1. \A c : Cardinality(Since(pub, K, c)) \in Nat
  BY CountsType
<1>2. ASSUME Covered(pub, K, t, 0, I) PROVE Covered(pub, K, u, 0, I)
  <2>1. u.cur <= Cardinality(Since(pub, K, Begin(u, u.window, I))) + 0
    BY <1>1
  <2>2. CASE u.window = t.window + 1
    <3>1. Begin(u, u.window, I) - I = Begin(t, t.window, I)
      <4>1. (t.window + 1) * I = t.window * I + I /\ t.window * I \in Nat
        OBVIOUS
      <4>. QED  BY <1>0, <2>2, <4>1 DEF Begin
    <3>. QED  BY <1>0, <1>1, <1>2, <2>1, <2>2, <3>1 DEF Covered
  <2>3. CASE u.window # t.window + 1
    BY <1>0, <1>1, <2>1, <2>3 DEF Covered
  <2>. QED  BY <2>2, <2>3
<1>3. ASSUME Capped(pub, K, t, 0, M, I) PROVE Capped(pub, K, u, 0, M, I)
  <2>. SUFFICES ASSUME NEW i \in 1 .. Len(pub), KeyOf(pub[i].id) = K,
                       NEW a \in Nat,
                       Begin(t, a, I) <= pub[i].at, pub[i].at < Begin(t, a, I) + I
                PROVE  /\ u.window < a => Cardinality(Sent(pub, K, i)) + 0 = 0
                       /\ a <= u.window =>
                            Cardinality(Sent(pub, K, i)) + 0 <= M * (u.window - a) + u.cur
    BY <1>3 DEF Capped, Begin
  <2>1. Cardinality(Sent(pub, K, i)) \in Nat
    <3>1. i \in Nat
      BY LenProperties
    <3>. QED  BY <3>1, CountsType
  <2>2. PICK n \in Nat : n = Cardinality(Sent(pub, K, i))
    BY <2>1
  <2>3. /\ t.window < a => n + 0 = 0
        /\ a <= t.window => n + 0 <= M * (t.window - a) + t.cur
    BY <1>3, <2>2 DEF Capped
  <2>4. /\ t.window < a => n = 0
        /\ a <= t.window => n <= M * (t.window - a) + t.cur
    BY <2>3
  <2>5. /\ u.window < a => n = 0
        /\ a <= u.window => n <= M * (u.window - a)
    BY <1>0, <2>4, LaterWindow
  <2>6. a <= u.window => M * (u.window - a) \in Nat
    OBVIOUS
  <2>. QED  BY <2>2, <2>5, <2>6
<1>. QED  BY <1>2, <1>3

(* The window of a moment is the last that has begun. *)
LEMMA NotLater ==
  ASSUME NEW t \in TokensType, NEW I \in Nat \ {0}, NEW a \in Nat, NEW w \in Nat,
         NEW x \in Nat, NEW y \in Nat, x <= y,
         Begin(t, a, I) <= x, y < Begin(t, w, I) + I
  PROVE  a <= w
<1>1. t.start \in Nat
  BY DEF TokensType
<1>2. w < a => w * I + I <= a * I
  BY TimesGap
<1>3. w * I \in Nat /\ a * I \in Nat
  BY TimesGap
<1>. QED  BY <1>1, <1>2, <1>3 DEF Begin

(* A limiter that accepts a message knows of one that is not yet published. *)
LEMMA AcceptKeeps ==
  ASSUME NEW pub \in Seq(Published), NEW K, NEW t \in TokensType, NEW u \in TokensType,
         NEW M \in Nat, NEW I \in Nat \ {0}, NEW c \in Nat,
         t.window \in Nat, c < Begin(t, t.window, I) + I,
         \A i \in 1 .. Len(pub) : pub[i].at <= c,
         u = [t EXCEPT !.cur = @ + 1]
  PROVE  /\ Covered(pub, K, t, 0, I) => Covered(pub, K, u, 1, I)
         /\ Capped(pub, K, t, 0, M, I) => Capped(pub, K, u, 1, M, I)
<1>0. /\ t.start \in Nat /\ t.prev \in Nat /\ t.cur \in Nat
      /\ u.start = t.start /\ u.prev = t.prev /\ u.cur = t.cur + 1 /\ u.window = t.window
  BY DEF TokensType
<1>1. \A x : Cardinality(Since(pub, K, x)) \in Nat
  BY CountsType
<1>2. \A a : Begin(u, a, I) = Begin(t, a, I)
  BY <1>0 DEF Begin
<1>3. ASSUME Covered(pub, K, t, 0, I) PROVE Covered(pub, K, u, 1, I)
  <2>. DEFINE x == Cardinality(Since(pub, K, Begin(t, t.window, I)))
              y == Cardinality(Since(pub, K, Begin(t, t.window, I) - I))
  <2>1. x \in Nat /\ y \in Nat
    BY <1>1
  <2>2. t.cur <= x + 0 /\ t.prev + t.cur <= y + 0
    BY <1>3 DEF Covered
  <2>. HIDE DEF x, y
  <2>3. u.cur <= x + 1 /\ u.prev + u.cur <= y + 1
    BY <1>0, <2>1, <2>2, SMTT(30)
  <2>. QED  BY <1>0, <1>2, <2>3 DEF Covered, x, y
<1>4. ASSUME Capped(pub, K, t, 0, M, I) PROVE Capped(pub, K, u, 1, M, I)
  <2>. SUFFICES ASSUME NEW i \in 1 .. Len(pub), KeyOf(pub[i].id) = K,
                       NEW a \in Nat,
                       Begin(t, a, I) <= pub[i].at, pub[i].at < Begin(t, a, I) + I
                PROVE  /\ ~ (t.window < a)
                       /\ Cardinality(Sent(pub, K, i)) + 1
                            <= M * (t.window - a) + (t.cur + 1)
    BY <1>0, <1>2, <1>4 DEF Capped
  <2>1. Cardinality(Sent(pub, K, i)) \in Nat /\ pub[i].at \in Nat
    <3>1. i \in Nat /\ pub[i] \in Published
      BY LenProperties, ElementOfSeq
    <3>. QED  BY <3>1, CountsType DEF Published
  <2>2. a <= t.window
    BY <2>1, NotLater
  <2>3. PICK n \in Nat : n = Cardinality(Sent(pub, K, i))
    BY <2>1
  <2>4. n + 0 <= M * (t.window - a) + t.cur
    BY <1>4, <2>2, <2>3 DEF Capped
  <2>5. PICK m \in Int : m = M * (t.window - a)
    OBVIOUS
  <2>6. n + 0 <= m + t.cur
    BY <2>4, <2>5
  <2>7. PICK x \in Nat : x = t.cur
    BY <1>0
  <2>8. n + 1 <= m + (x + 1)
    BY <2>6, <2>7
  <2>. QED  BY <2>2, <2>3, <2>5, <2>7, <2>8
<1>. QED  BY <1>3, <1>4

(* A message that was accepted is published: what the limiter knew of one  *)
(* message on its way it knows of a published one.                         *)
LEMMA PublishKeeps ==
  ASSUME NEW pub \in Seq(Published), NEW K, NEW t \in TokensType,
         NEW M \in Nat, NEW I \in Nat \ {0}, NEW r \in Published, NEW f \in {0, 1},
         t.window \in Nat, Begin(t, t.window, I) <= r.at,
         f = IF KeyOf(r.id) = K THEN 1 ELSE 0
  PROVE  /\ Covered(pub, K, t, f, I) => Covered(Append(pub, r), K, t, 0, I)
         /\ Capped(pub, K, t, f, M, I) => Capped(Append(pub, r), K, t, 0, M, I)
<1>. DEFINE pub2 == Append(pub, r)
<1>0. /\ t.start \in Nat /\ t.prev \in Nat /\ t.cur \in Nat /\ r.at \in Nat
      /\ t.window * I \in Nat
  BY TimesGap DEF TokensType, Published
<1>1. /\ Len(pub) \in Nat /\ pub2 \in Seq(Published) /\ Len(pub2) = Len(pub) + 1
      /\ \A i \in 1 .. Len(pub) : pub2[i] = pub[i]
      /\ pub2[Len(pub) + 1] = r
  BY AppendProperties, LenProperties
<1>2. /\ \A i \in 1 .. Len(pub) :
           Cardinality(Sent(pub2, K, i)) = Cardinality(Sent(pub, K, i)) + f
      /\ Sent(pub2, K, Len(pub) + 1) = {}
      /\ \A c \in Int : c <= r.at =>
           Cardinality(Since(pub2, K, c)) = Cardinality(Since(pub, K, c)) + f
  <2>1. CASE KeyOf(r.id) = K
    <3>1. f = 1
      BY <2>1
    <3>. QED  BY <2>1, <3>1, CountsAppend
  <2>2. CASE KeyOf(r.id) # K
    <3>1. f = 0
      BY <2>2
    <3>2. \A i \in 1 .. Len(pub) :
            Cardinality(Sent(pub2, K, i)) = Cardinality(Sent(pub, K, i))
      BY <2>2, CountsAppend, ZenonT(30)
    <3>3. \A c \in Int : Cardinality(Since(pub2, K, c)) = Cardinality(Since(pub, K, c))
      BY <2>2, CountsAppend, ZenonT(30)
    <3>4. Sent(pub2, K, Len(pub) + 1) = {}
      BY CountsAppend
    <3>5. \A i \in 1 .. Len(pub) : Cardinality(Sent(pub, K, i)) \in Nat
      BY <1>1, CountsType
    <3>6. \A c \in Int : Cardinality(Since(pub, K, c)) \in Nat
      BY CountsType
    <3>. HIDE DEF pub2
    <3>7. \A i \in 1 .. Len(pub) :
            Cardinality(Sent(pub2, K, i)) = Cardinality(Sent(pub, K, i)) + f
      BY <3>1, <3>2, <3>5
    <3>8. \A c \in Int :
            Cardinality(Since(pub2, K, c)) = Cardinality(Since(pub, K, c)) + f
      BY <3>1, <3>3, <3>6
    <3>. QED  BY <3>4, <3>7, <3>8
  <2>. QED  BY <2>1, <2>2
<1>3. \A c : Cardinality(Since(pub, K, c)) \in Nat /\ Cardinality(Since(pub2, K, c)) \in Nat
  BY <1>1, CountsType
<1>4. \A i \in Nat : /\ Cardinality(Sent(pub, K, i)) \in Nat
                      /\ Cardinality(Sent(pub2, K, i)) \in Nat
  BY <1>1, CountsType
<1>. HIDE DEF pub2
<1>5. ASSUME Covered(pub, K, t, f, I) PROVE Covered(pub2, K, t, 0, I)
  <2>. DEFINE c == Begin(t, t.window, I)
              x == Cardinality(Since(pub2, K, c))
              y == Cardinality(Since(pub2, K, c - I))
  <2>1. c \in Int /\ c - I \in Int /\ c <= r.at /\ c - I <= r.at
    BY <1>0, SMTT(30) DEF Begin
  <2>. HIDE DEF c
  <2>2. t.cur <= x /\ t.prev + t.cur <= y
    BY <1>2, <1>5, <2>1 DEF Covered, c
  <2>3. x \in Nat /\ y \in Nat
    BY <1>3
  <2>. HIDE DEF x, y
  <2>4. t.cur <= x + 0 /\ t.prev + t.cur <= y + 0
    BY <2>2, <2>3
  <2>. QED  BY <2>4 DEF Covered, c, x, y
<1>6. ASSUME Capped(pub, K, t, f, M, I) PROVE Capped(pub2, K, t, 0, M, I)
  <2>. SUFFICES ASSUME NEW i \in 1 .. Len(pub2), KeyOf(pub2[i].id) = K
                PROVE  /\ t.start <= pub2[i].at
                       /\ \A a \in Nat :
                            Begin(t, a, I) <= pub2[i].at
                              /\ pub2[i].at < Begin(t, a, I) + I =>
                              /\ t.window < a => Cardinality(Sent(pub2, K, i)) + 0 = 0
                              /\ a <= t.window =>
                                   Cardinality(Sent(pub2, K, i)) + 0
                                     <= M * (t.window - a) + t.cur
    BY DEF Capped
  <2>1. CASE i \in 1 .. Len(pub)
    <3>1. PICK n \in Nat : n = Cardinality(Sent(pub2, K, i))
      BY <1>4, <2>1
    <3>2. n + 0 = Cardinality(Sent(pub, K, i)) + f
      BY <1>2, <2>1, <3>1
    <3>. QED  BY <1>1, <1>6, <2>1, <3>1, <3>2 DEF Capped
  <2>2. CASE i = Len(pub) + 1
    <3>1. pub2[i] = r /\ Cardinality(Sent(pub2, K, i)) = 0
      BY <1>1, <1>2, <2>2, FS_EmptySet
    <3>2. t.start <= r.at
      BY <1>0, SMTT(30) DEF Begin
    <3>3. \A a \in Nat : a <= t.window => 0 <= M * (t.window - a) + t.cur
      <4>. SUFFICES ASSUME NEW a \in Nat, a <= t.window
                    PROVE  0 <= M * (t.window - a) + t.cur
        OBVIOUS
      <4>1. M * (t.window - a) \in Nat
        OBVIOUS
      <4>. QED  BY <1>0, <4>1, SMTT(30)
    <3>. QED  BY <3>1, <3>2, <3>3
  <2>. QED  BY <1>1, <2>1, <2>2
<1>. QED  BY <1>5, <1>6 DEF pub2

(* How much a limiter may let through in a span of time: the windows that  *)
(* the span can touch, each with the limit.                                *)
LEMMA SpanBound ==
  ASSUME NEW M \in Nat, NEW I \in Nat \ {0}, NEW n \in Nat, NEW at \in Nat, NEW c \in Nat,
         NEW s \in Nat, NEW w \in Nat, NEW a \in Nat, NEW cur \in Nat,
         at <= c, s + w * I <= c, at < s + a * I + I, cur <= M,
         w < a => n = 0,
         a <= w => n <= M * (w - a) + cur
  PROVE  n <= M * ((c - at + I - 1) \div I + 1)
<1>. DEFINE q == (c - at + I - 1) \div I
<1>1. q \in Nat /\ c - at + I - 1 < q * I + I
  <2>1. c - at + I - 1 \in Nat
    OBVIOUS
  <2>. QED  BY <2>1, DivBounds
<1>. HIDE DEF q
<1>2. M * (q + 1) = q * M + M /\ q * M \in Nat /\ q * I \in Nat
  BY <1>1, TimesGap
<1>3. CASE w < a
  BY <1>2, <1>3 DEF q
<1>4. CASE a <= w
  <2>1. PICK x \in Nat : x = w - a
    BY <1>4
  <2>2. w * I = x * I + a * I /\ x * I \in Nat /\ a * I \in Nat
    BY <2>1, TimesGap
  <2>3. x * I < q * I + I
    BY <1>1, <1>2, <2>2
  <2>4. q < x => q * I + I <= x * I
    BY <1>1, TimesGap
  <2>5. x <= q
    BY <1>1, <1>2, <2>2, <2>3, <2>4
  <2>6. x * M <= q * M /\ x * M \in Nat /\ M * x = x * M
    BY <1>1, <2>5, TimesGap
  <2>7. n <= M * x + cur
    BY <1>4, <2>1
  <2>8. n <= q * M + M
    BY <1>2, <2>6, <2>7
  <2>. QED  BY <1>2, <2>8 DEF q
<1>. QED  BY <1>3, <1>4

(* How much a limiter may let through from a published message on.         *)
LEMMA CappedBound ==
  ASSUME NEW pub \in Seq(Published), NEW K, NEW t \in TokensType,
         NEW M \in Nat, NEW I \in Nat \ {0}, NEW f \in {0, 1}, NEW c \in Nat,
         t.window \in Nat, Begin(t, t.window, I) <= c, t.cur <= M,
         Capped(pub, K, t, f, M, I),
         NEW i \in 1 .. Len(pub), KeyOf(pub[i].id) = K, pub[i].at <= c
  PROVE  Cardinality(Sent(pub, K, i)) + f <= M * ((c - pub[i].at + I - 1) \div I + 1)
<1>0. /\ t.start \in Nat /\ t.cur \in Nat /\ pub[i].at \in Nat
      /\ Cardinality(Sent(pub, K, i)) \in Nat
  <2>1. i \in Nat /\ pub[i] \in Published
    BY LenProperties, ElementOfSeq
  <2>. QED  BY <2>1, CountsType DEF TokensType, Published
<1>1. PICK n \in Nat : n = Cardinality(Sent(pub, K, i)) + f
  BY <1>0
<1>2. t.start <= pub[i].at
  BY DEF Capped
<1>3. PICK a \in Nat : t.start + a * I <= pub[i].at /\ pub[i].at < t.start + a * I + I
  <2>1. PICK d \in Nat : d = pub[i].at - t.start
    BY <1>0, <1>2
  <2>2. d \div I \in Nat /\ (d \div I) * I <= d /\ d < (d \div I) * I + I
    BY DivBounds
  <2>3. PICK a \in Nat : a * I <= d /\ d < a * I + I
    BY <2>2
  <2>4. PICK p \in Nat : p = a * I
    BY TimesGap
  <2>5. p <= d /\ d < p + I
    BY <2>3, <2>4
  <2>6. PICK s \in Nat, at \in Nat : s = t.start /\ at = pub[i].at
    BY <1>0
  <2>7. d = at - s
    BY <2>1, <2>6
  <2>8. s + p <= at /\ at < s + p + I
    BY <2>5, <2>7
  <2>. QED  BY <2>4, <2>6, <2>8
<1>4. /\ t.window < a => n = 0
      /\ a <= t.window => n <= M * (t.window - a) + t.cur
  BY <1>1, <1>3 DEF Capped, Begin
<1>5. t.start + t.window * I <= c
  BY DEF Begin
<1>. QED  BY <1>0, <1>1, <1>3, <1>4, <1>5, SpanBound

(***************************************************************************)
(* The invariant of the limiters.  While ring_loop runs, the message of a  *)
(* publish that has begun is the one that was accepted and is not yet      *)
(* published; when the loop has died or the process is gone, the limiters  *)
(* may count a message that LDMS never got, but they are not used again.   *)
(***************************************************************************)
Flight(K) == IF task = "publish" /\ KeyOf(ring[1].msg.id) = K THEN 1 ELSE 0

Limiter(K) ==
  /\ producer_tokens[K].window \in Nat
  /\ Begin(producer_tokens[K], producer_tokens[K].window, interval) <= clock
  /\ producer_tokens[K].cur <= msglimit
  /\ task \notin {"dead", "dropped"} =>
       Covered(published, K, producer_tokens[K], Flight(K), interval)
  /\ Capped(published, K, producer_tokens[K], Flight(K), msglimit, interval)

LimitInv ==
  /\ \A i \in 1 .. Len(published) : /\ published[i].at <= clock
                                    /\ KeyOf(published[i].id) \in DOMAIN producer_tokens
  /\ task = "publish" => KeyOf(ring[1].msg.id) \in DOMAIN producer_tokens
  /\ \A K \in DOMAIN producer_tokens : Limiter(K)

(* ring_loop begins once: before main has spawned it there is no task. *)
Unstarted == proc \in {"start", "created", "connected"} => task = "none"

LEMMA StepUnstarted == ASSUME Inv, Unstarted, [Next]_vars PROVE Unstarted'
<1>1. CASE RingLoop
  BY <1>1 DEF RingLoop, StartLoop, StartLoopErr, Readable, NextItem, Skip, RateLimited,
              StartPublish, PublishOk, PublishErr, Inv, Working, Unstarted, config
<1>. QED  BY <1>1 DEF Next, vars, Unstarted, Tick, Reserve, ReserveFails, Submit, NewStream,
              Connect, SpawnRingLoop, StartFails, Exit

(* What was published has its type. *)
LEMMA PublishedType ==
  ASSUME Inv, NEW i \in 1 .. Len(published)
  PROVE  published[i] \in Published /\ published[i].at \in Nat
<1>1. published \in Seq(Published)
  BY DEF Inv, TypeOK
<1>2. published[i] \in Published
  BY <1>1, ElementOfSeq
<1>. QED  BY <1>2 DEF Published

(* A step that does nothing to the limiters, to what was published or to   *)
(* the publish under way keeps the invariant.                              *)
LEMMA FrameKeepsLimits ==
  ASSUME Inv, LimitInv,
         UNCHANGED <<producer_tokens, published, msglimit, interval>>,
         clock' \in Nat, clock <= clock',
         task = "publish" <=> task' = "publish",
         task = "publish" => ring'[1].msg = ring[1].msg,
         task \in {"dead", "dropped"} => task' \in {"dead", "dropped"}
  PROVE  LimitInv'
<1>1. \A i \in 1 .. Len(published) : published[i].at \in Nat
  BY PublishedType
<1>2. \A i \in 1 .. Len(published) : published[i].at <= clock'
  BY <1>1 DEF LimitInv, Inv, TypeOK
<1>3. ASSUME NEW K \in DOMAIN producer_tokens PROVE Limiter(K)'
  <2>1. Limiter(K)
    BY DEF LimitInv
  <2>2. Flight(K)' = Flight(K)
    BY DEF Flight
  <2>3. producer_tokens[K] \in TokensType
    BY DEF Inv, TypeOK
  <2>4. Begin(producer_tokens[K], producer_tokens[K].window, interval) \in Int
    BY <2>3 DEF Begin, TokensType, Inv, TypeOK
  <2>5. Begin(producer_tokens[K], producer_tokens[K].window, interval) <= clock'
    BY <2>1, <2>4 DEF Limiter, Inv, TypeOK
  <2>. QED  BY <2>1, <2>2, <2>5 DEF Limiter
<1>. QED  BY <1>2, <1>3 DEF LimitInv

(* A message that is given up: what the limiter knew of what follows still *)
(* holds.                                                                  *)
LEMMA CappedWeaker ==
  ASSUME NEW pub \in Seq(Published), NEW K, NEW t \in TokensType,
         NEW M \in Nat, NEW I \in Nat \ {0}, NEW f \in {0, 1}, t.window \in Nat,
         Capped(pub, K, t, f, M, I)
  PROVE  Capped(pub, K, t, 0, M, I)
<1>. SUFFICES ASSUME NEW i \in 1 .. Len(pub), KeyOf(pub[i].id) = K, NEW a \in Nat,
                     Begin(t, a, I) <= pub[i].at, pub[i].at < Begin(t, a, I) + I
              PROVE  /\ t.window < a => Cardinality(Sent(pub, K, i)) + 0 = 0
                     /\ a <= t.window =>
                          Cardinality(Sent(pub, K, i)) + 0 <= M * (t.window - a) + t.cur
  BY DEF Capped
<1>1. i \in Nat
  BY LenProperties
<1>2. PICK n \in Nat : n = Cardinality(Sent(pub, K, i))
  BY <1>1, CountsType
<1>3. /\ t.window < a => n + f = 0
      /\ a <= t.window => n + f <= M * (t.window - a) + t.cur
  BY <1>2 DEF Capped
<1>4. PICK m \in Int : m = M * (t.window - a) + t.cur
  BY DEF TokensType
<1>5. /\ t.window < a => n + 0 = 0
      /\ a <= t.window => n + 0 <= m
  BY <1>3, <1>4
<1>. QED  BY <1>2, <1>4, <1>5

(* When ring_loop dies or the process ends without publishing, nothing is  *)
(* published any more, and what was still keeps to the limits.             *)
LEMMA DeathKeepsLimits ==
  ASSUME Inv, LimitInv,
         UNCHANGED <<clock, producer_tokens, published, msglimit, interval>>,
         task' \in {"dead", "dropped"}
  PROVE  LimitInv'
<1>1. ASSUME NEW K \in DOMAIN producer_tokens PROVE Limiter(K)'
  <2>1. Limiter(K) /\ producer_tokens[K] \in TokensType
    BY DEF LimitInv, Inv, TypeOK
  <2>2. Flight(K)' = 0 /\ Flight(K) \in {0, 1}
    BY DEF Flight
  <2>3. Capped(published, K, producer_tokens[K], 0, msglimit, interval)
    BY <2>1, <2>2, CappedWeaker DEF Limiter, Inv, TypeOK
  <2>. QED  BY <2>1, <2>2, <2>3 DEF Limiter
<1>. QED  BY <1>1 DEF LimitInv

(* The limiter that a message meets: rolled on to the window of the        *)
(* moment, it knows what was published.                                    *)
Rolled(K, u) ==
  /\ u \in TokensType
  /\ u.window \in Nat
  /\ Begin(u, u.window, interval) <= clock
  /\ clock < Begin(u, u.window, interval) + interval
  /\ u.cur <= msglimit
  /\ Covered(published, K, u, 0, interval)
  /\ Capped(published, K, u, 0, msglimit, interval)

(* The limiter of a producer's first message. *)
LEMMA FreshRolled ==
  ASSUME Inv, LimitInv, NEW K, K \notin DOMAIN producer_tokens
  PROVE  Rolled(K, TokensOf(K))
<1>. DEFINE u == FreshTokens
<1>0. clock \in Nat /\ msglimit \in Nat /\ interval \in Nat \ {0} /\ published \in Seq(Published)
  BY DEF Inv, TypeOK
<1>1. u.start = clock /\ u.window = 0 /\ u.prev = 0 /\ u.cur = 0 /\ u \in TokensType
  BY <1>0 DEF FreshTokens, TokensType
<1>. HIDE DEF u
<1>2. (clock - u.start) \div interval = 0
  BY <1>0, <1>1
<1>3. TokensOf(K) = u
  BY <1>1, <1>2 DEF TokensOf, Roll, u
<1>4. Begin(u, u.window, interval) = clock
  BY <1>0, <1>1 DEF Begin
<1>5. \A i \in 1 .. Len(published) : KeyOf(published[i].id) # K
  BY DEF LimitInv
<1>6. Capped(published, K, u, 0, msglimit, interval)
  BY <1>5 DEF Capped
<1>7. \A c : Cardinality(Since(published, K, c)) \in Nat
  BY <1>0, CountsType
<1>8. Covered(published, K, u, 0, interval)
  BY <1>1, <1>7 DEF Covered
<1>. QED  BY <1>0, <1>1, <1>3, <1>4, <1>6, <1>8 DEF Rolled

(* The limiter of a message is one that knows what was published. *)
LEMMA TokensRolled ==
  ASSUME Inv, LimitInv, task = "body", NEW K
  PROVE  Rolled(K, TokensOf(K))
<1>0. /\ clock \in Nat /\ msglimit \in Nat /\ interval \in Nat \ {0}
      /\ published \in Seq(Published)
  BY DEF Inv, TypeOK
<1>1. CASE K \in DOMAIN producer_tokens
  <2>. DEFINE t == producer_tokens[K]
  <2>1. /\ t \in TokensType /\ t.window \in Nat /\ t.cur <= msglimit
        /\ Begin(t, t.window, interval) <= clock
        /\ Covered(published, K, t, 0, interval)
        /\ Capped(published, K, t, 0, msglimit, interval)
    <3>1. Flight(K) = 0
      BY DEF Flight
    <3>. QED  BY <1>1, <3>1 DEF LimitInv, Limiter, Inv, TypeOK
  <2>2. TokensOf(K) = Roll(t)
    BY <1>1 DEF TokensOf
  <2>. HIDE DEF t
  <2>3. t.start \in Nat /\ t.start <= clock
    <3>1. t.start \in Nat /\ t.window * interval \in Nat
      BY <1>0, <2>1, TimesGap DEF TokensType
    <3>. QED  BY <1>0, <2>1, <3>1 DEF Begin
  <2>4. PICK d \in Nat : d = clock - t.start
    BY <1>0, <2>3
  <2>5. PICK w \in Nat : /\ w = (clock - t.start) \div interval
                         /\ w * interval <= d /\ d < w * interval + interval
    BY <1>0, <2>4, DivBounds
  <2>6. Begin(t, w, interval) <= clock /\ clock < Begin(t, w, interval) + interval
    <3>1. PICK p \in Nat : p = w * interval
      BY <1>0, TimesGap
    <3>2. PICK b \in Nat : b = t.start
      BY <2>3
    <3>3. p <= d /\ d < p + interval /\ d = clock - b
      BY <2>4, <2>5, <3>1, <3>2
    <3>4. b + p <= clock /\ clock < b + p + interval
      BY <1>0, <3>3
    <3>. QED  BY <3>1, <3>2, <3>4 DEF Begin
  <2>7. t.window <= w
    BY <1>0, <2>1, <2>6, NotLater
  <2>8. CASE w = t.window
    BY <2>1, <2>2, <2>5, <2>6, <2>8 DEF Roll, Rolled
  <2>9. CASE w # t.window
    <3>. DEFINE u == Roll(t)
    <3>1. /\ u \in TokensType /\ u.start = t.start /\ u.window = w /\ u.cur = 0
          /\ u.prev = IF w = t.window + 1 THEN t.cur ELSE 0
      BY <2>1, <2>5, <2>9, RollType DEF Roll, Inv
    <3>. HIDE DEF u
    <3>2. t.window < w
      BY <2>1, <2>7, <2>9
    <3>3. /\ Covered(published, K, u, 0, interval)
          /\ Capped(published, K, u, 0, msglimit, interval)
      BY <1>0, <2>1, <3>1, <3>2, RollKeeps
    <3>4. Begin(u, u.window, interval) = Begin(t, w, interval)
      BY <3>1 DEF Begin
    <3>5. Rolled(K, u)
      BY <1>0, <2>6, <3>1, <3>3, <3>4 DEF Rolled
    <3>. QED  BY <2>2, <3>5 DEF u
  <2>. QED  BY <2>8, <2>9
<1>. QED  BY <1>1, FreshRolled

(* Storing the limiter of the message at hand, rolled on and with the      *)
(* message counted if it is to be published, keeps the invariant.          *)
LEMMA StoreKeepsLimits ==
  ASSUME Inv, LimitInv, task = "body", NEW K, NEW u \in TokensType, NEW f \in {0, 1},
         SetTokens(K, u),
         UNCHANGED <<clock, published, msglimit, interval>>,
         task' \in {"next", "publish"},
         f = IF task' = "publish" THEN 1 ELSE 0,
         task' = "publish" => KeyOf(ring'[1].msg.id) = K,
         u.window \in Nat,
         Begin(u, u.window, interval) <= clock,
         u.cur <= msglimit,
         Covered(published, K, u, f, interval),
         Capped(published, K, u, f, msglimit, interval)
  PROVE  LimitInv'
<1>1. /\ DOMAIN producer_tokens' = DOMAIN producer_tokens \union {K}
      /\ producer_tokens'[K] = u
      /\ \A J \in DOMAIN producer_tokens : J # K => producer_tokens'[J] = producer_tokens[J]
  BY DEF SetTokens
<1>2. Limiter(K)'
  <2>1. Flight(K)' = f
    BY DEF Flight
  <2>. QED  BY <1>1, <2>1 DEF Limiter
<1>3. ASSUME NEW J \in DOMAIN producer_tokens, J # K PROVE Limiter(J)'
  <2>1. Flight(J)' = 0 /\ Flight(J) = 0
    BY <1>3 DEF Flight
  <2>2. Limiter(J)
    BY DEF LimitInv
  <2>. QED  BY <1>1, <1>3, <2>1, <2>2 DEF Limiter
<1>4. \A J \in DOMAIN producer_tokens' : Limiter(J)'
  BY <1>1, <1>2, <1>3
<1>. QED  BY <1>1, <1>4 DEF LimitInv

(* A message over its rate leaves the limiter rolled on. *)
LEMMA RateLimitedKeepsLimits == ASSUME Inv, LimitInv, RateLimited PROVE LimitInv'
<1>. DEFINE K == ProducerId(ring[1].msg)
<1>1. /\ task = "body" /\ SetTokens(K, TokensOf(K)) /\ task' = "next"
      /\ UNCHANGED <<clock, published, msglimit, interval>>
  BY DEF RateLimited, config
<1>. HIDE DEF K
<1>2. Rolled(K, TokensOf(K))
  BY <1>1, TokensRolled
<1>. QED  BY <1>1, <1>2, StoreKeepsLimits DEF Rolled

(* A limiter that has a token has not yet accepted its limit. *)
LEMMA TokenLeft ==
  ASSUME Inv, NEW K, HasToken(K), TokensOf(K) \in TokensType
  PROVE  TokensOf(K).cur + 1 <= msglimit
<1>. DEFINE t == TokensOf(K)
            covered == interval - ((clock - t.start) % interval)
<1>1. clock \in Nat /\ msglimit \in Nat /\ interval \in Nat \ {0}
  BY DEF Inv, TypeOK
<1>2. t.start \in Nat /\ t.prev \in Nat /\ t.cur \in Nat
  BY DEF TokensType
<1>3. covered \in Nat
  BY <1>1, <1>2
<1>4. t.prev * covered + t.cur * interval < msglimit * interval
  BY DEF HasToken
<1>. HIDE DEF t, covered
<1>5. PICK x \in Nat : x = t.prev * covered
  BY <1>2, <1>3, TimesGap
<1>6. PICK y \in Nat : y = t.cur * interval
  BY <1>1, <1>2, TimesGap
<1>7. PICK z \in Nat : z = msglimit * interval
  BY <1>1, TimesGap
<1>8. y < z
  BY <1>4, <1>5, <1>6, <1>7
<1>9. msglimit <= t.cur => z <= y
  BY <1>1, <1>2, <1>6, <1>7, TimesGap
<1>10. t.cur < msglimit
  BY <1>1, <1>2, <1>8, <1>9
<1>. QED  BY <1>1, <1>2, <1>10 DEF t

(* A message within its rate is counted before it is published. *)
LEMMA StartPublishKeepsLimits == ASSUME Inv, LimitInv, StartPublish PROVE LimitInv'
<1>. DEFINE K == ProducerId(ring[1].msg)
            t == TokensOf(K)
            u == [t EXCEPT !.cur = @ + 1]
<1>1. /\ task = "body" /\ HasToken(K) /\ SetTokens(K, u) /\ task' = "publish"
      /\ UNCHANGED <<clock, published, msglimit, interval, ring>>
  BY DEF StartPublish, config
<1>2. KeyOf(ring[1].msg.id) = K
  BY DEF KeyOf, ProducerId
<1>. HIDE DEF K
<1>3. Rolled(K, t)
  BY <1>1, TokensRolled
<1>4. t.cur + 1 <= msglimit
  BY <1>1, <1>3, TokenLeft DEF Rolled
<1>. HIDE DEF t
<1>5. /\ u \in TokensType /\ u.window = t.window /\ u.start = t.start /\ u.cur = t.cur + 1
      /\ t \in TokensType
  BY <1>3 DEF Rolled, TokensType
<1>6. Begin(u, u.window, interval) = Begin(t, t.window, interval)
  BY <1>5 DEF Begin
<1>7. /\ clock \in Nat /\ msglimit \in Nat /\ interval \in Nat \ {0}
      /\ published \in Seq(Published)
  BY DEF Inv, TypeOK
<1>8. \A i \in 1 .. Len(published) : published[i].at <= clock
  BY DEF LimitInv
<1>9. /\ Covered(published, K, u, 1, interval)
      /\ Capped(published, K, u, 1, msglimit, interval)
  BY <1>3, <1>5, <1>7, <1>8, AcceptKeeps DEF Rolled
<1>10. u.cur <= msglimit /\ Begin(u, u.window, interval) <= clock /\ u.window \in Nat
  BY <1>3, <1>4, <1>5, <1>6 DEF Rolled
<1>. HIDE DEF u
<1>11. KeyOf(ring'[1].msg.id) = K
  BY <1>1, <1>2
<1>12. SetTokens(K, u) /\ u \in TokensType
  BY <1>1, <1>5
<1>. QED  BY <1>1, <1>9, <1>10, <1>11, <1>12, StoreKeepsLimits

(* A publish that gets through turns the message on its way into a         *)
(* published one.                                                          *)
LEMMA PublishKeepsLimits ==
  ASSUME Inv, LimitInv, task = "publish", Publish,
         UNCHANGED <<clock, producer_tokens, msglimit, interval>>, task' # "publish"
  PROVE  LimitInv'
<1>. DEFINE r == [n |-> ring[1].n, id |-> ring[1].msg.id, at |-> clock,
                  timestamp |-> Timestamp(ring[1].msg)]
<1>0. /\ clock \in Nat /\ msglimit \in Nat /\ interval \in Nat \ {0}
      /\ published \in Seq(Published) /\ Len(published) \in Nat
  BY LenProperties DEF Inv, TypeOK
<1>1. published' = Append(published, r) /\ r.id = ring[1].msg.id /\ r.at = clock
  BY DEF Publish
<1>2. published' \in Seq(Published)
  BY PublishType DEF Inv, Working
<1>. HIDE DEF r
<1>3. /\ Len(published') = Len(published) + 1
      /\ \A i \in 1 .. Len(published) : published'[i] = published[i]
      /\ published'[Len(published) + 1] = r
  BY <1>0, <1>1
<1>4. r \in Published
  BY <1>0, <1>2, <1>3, ElementOfSeq
<1>5. \A i \in 1 .. Len(published') :
        published'[i].at <= clock /\ KeyOf(published'[i].id) \in DOMAIN producer_tokens
  <2>. SUFFICES ASSUME NEW i \in 1 .. Len(published')
                PROVE  /\ published'[i].at <= clock
                       /\ KeyOf(published'[i].id) \in DOMAIN producer_tokens
    OBVIOUS
  <2>1. CASE i \in 1 .. Len(published)
    BY <1>3, <2>1 DEF LimitInv
  <2>2. CASE i = Len(published) + 1
    BY <1>0, <1>1, <1>3, <2>2 DEF LimitInv
  <2>. QED  BY <1>0, <1>3, <2>1, <2>2
<1>6. ASSUME NEW K \in DOMAIN producer_tokens PROVE Limiter(K)'
  <2>1. Limiter(K) /\ producer_tokens[K] \in TokensType
    BY DEF LimitInv, Inv, TypeOK
  <2>2. Flight(K)' = 0 /\ Flight(K) \in {0, 1}
        /\ Flight(K) = IF KeyOf(r.id) = K THEN 1 ELSE 0
    BY <1>1 DEF Flight
  <2>3. /\ Covered(published, K, producer_tokens[K], Flight(K), interval)
        /\ Capped(published, K, producer_tokens[K], Flight(K), msglimit, interval)
        /\ producer_tokens[K].window \in Nat
        /\ Begin(producer_tokens[K], producer_tokens[K].window, interval) <= r.at
    BY <1>1, <2>1 DEF Limiter
  <2>4. /\ Covered(Append(published, r), K, producer_tokens[K], 0, interval)
        /\ Capped(Append(published, r), K, producer_tokens[K], 0, msglimit, interval)
    BY <1>0, <1>4, <2>1, <2>2, <2>3, PublishKeeps
  <2>5. /\ Covered(published', K, producer_tokens[K], 0, interval)
        /\ Capped(published', K, producer_tokens[K], 0, msglimit, interval)
    BY <1>1, <2>4
  <2>. QED  BY <2>1, <2>2, <2>5 DEF Limiter
<1>. QED  BY <1>5, <1>6 DEF LimitInv

(* Every step keeps the invariant of the limiters. *)
LEMMA StepLimits == ASSUME Inv, LimitInv, Unstarted, [Next]_vars PROVE LimitInv'
<1>1. CASE Tick
  BY <1>1, FrameKeepsLimits DEF Tick, Inv, TypeOK, config
<1>2. ASSUME NEW msg \in Inputs, Reserve(msg) PROVE LimitInv'
  <2>1. task = "publish" => ring'[1] = ring[1]
    <3>1. ring \in Seq(RingRecord) /\ (task = "publish" => ring # <<>>)
      BY DEF Inv, TypeOK, Working
    <3>. QED  BY <1>2, <3>1 DEF Reserve
  <2>. QED  BY <1>2, <2>1, FrameKeepsLimits DEF Reserve, Inv, TypeOK, config
<1>3. CASE ReserveFails \/ NewStream \/ Connect \/ StartFails
  BY <1>3, FrameKeepsLimits
  DEF ReserveFails, NewStream, Connect, StartFails, Inv, TypeOK, config
<1>4. ASSUME NEW i \in DOMAIN ring, Submit(i) PROVE LimitInv'
  <2>1. ring'[1].msg = ring[1].msg
    <3>1. ring[i] \in RingRecord /\ ring \in Seq(RingRecord)
      BY DEF Inv, TypeOK
    <3>2. ring' = [ring EXCEPT ![i] = [ring[i] EXCEPT !.busy = FALSE]]
      BY <1>4 DEF Submit
    <3>3. [ring[i] EXCEPT !.busy = FALSE].msg = ring[i].msg
      BY <3>1 DEF RingRecord
    <3>. QED  BY <3>1, <3>2, <3>3
  <2>. QED  BY <1>4, <2>1, FrameKeepsLimits DEF Submit, Inv, TypeOK, config
<1>5. CASE SpawnRingLoop
  <2>1. task = "none" /\ task' = "init"
    BY <1>5 DEF SpawnRingLoop, Unstarted
  <2>. QED  BY <1>5, <2>1, FrameKeepsLimits DEF SpawnRingLoop, Inv, TypeOK, config
<1>6. CASE StartLoop \/ Readable \/ NextItem \/ Skip
  BY <1>6, FrameKeepsLimits DEF StartLoop, Readable, NextItem, Skip, Inv, TypeOK, config
<1>7. CASE StartLoopErr \/ PublishErr
  BY <1>7, DeathKeepsLimits DEF StartLoopErr, PublishErr, config
<1>8. CASE PublishOk
  BY <1>8, PublishKeepsLimits DEF PublishOk, config
<1>9. CASE Exit
  <2>1. CASE UNCHANGED published
    BY <1>9, <2>1, DeathKeepsLimits DEF Exit, config
  <2>2. CASE task = "publish" /\ Publish
    BY <1>9, <2>2, PublishKeepsLimits DEF Exit, config
  <2>. QED  BY <1>9, <2>1, <2>2 DEF Exit
<1>10. CASE UNCHANGED vars
  BY <1>10, FrameKeepsLimits DEF vars, Inv, TypeOK, config
<1>. QED  BY <1>1, <1>2, <1>3, <1>4, <1>5, <1>6, <1>7, <1>8, <1>9, <1>10,
             RateLimitedKeepsLimits, StartPublishKeepsLimits DEF Next, RingLoop

(***************************************************************************)
(* The bound on the rate: of a pair of messages, the last one published is *)
(* the later one, or the pair was there before.                            *)
(***************************************************************************)
Between(pub, i, j) == {k \in (i + 1) .. j : KeyOf(pub[k].id) = KeyOf(pub[i].id)}

RateOf(pub, M, I) ==
  \A i, j \in 1 .. Len(pub) : i <= j =>
    Cardinality(Between(pub, i, j)) <= M * ((pub[j].at - pub[i].at + I - 1) \div I + 1)

(* The bound in terms of keys. *)
LEMMA RateByKey ==
  ASSUME NEW pub \in Seq(Published), NEW M, NEW I
  PROVE  RateOf(pub, M, I) <=>
           \A i, j \in DOMAIN pub : i <= j =>
             Cardinality({k \in (i + 1) .. j : SameProducer(pub[k].id, pub[i].id)})
               <= M * ((pub[j].at - pub[i].at + I - 1) \div I + 1)
<1>1. ASSUME NEW i, NEW j
      PROVE  {k \in (i + 1) .. j : SameProducer(pub[k].id, pub[i].id)} = Between(pub, i, j)
  BY SameKey DEF Between
<1>2. DOMAIN pub = 1 .. Len(pub)
  BY LenProperties
<1>. QED  BY <1>1, <1>2, Zenon DEF RateOf

(* A new message keeps the bound. *)
LEMMA RateAppend ==
  ASSUME NEW pub \in Seq(Published), NEW r \in Published, NEW M \in Nat,
         NEW I \in Nat \ {0}, RateOf(pub, M, I),
         \A i \in 1 .. (Len(pub) + 1) :
           Cardinality(Sent(Append(pub, r), KeyOf(Append(pub, r)[i].id), i))
             <= M * ((r.at - Append(pub, r)[i].at + I - 1) \div I + 1)
  PROVE  RateOf(Append(pub, r), M, I)
<1>. DEFINE pub2 == Append(pub, r)
<1>1. /\ Len(pub) \in Nat /\ Len(pub2) = Len(pub) + 1
      /\ \A k \in 1 .. Len(pub) : pub2[k] = pub[k]
      /\ pub2[Len(pub) + 1] = r
  BY AppendProperties, LenProperties
<1>2. \A i \in 1 .. Len(pub2) :
        Cardinality(Sent(pub2, KeyOf(pub2[i].id), i))
          <= M * ((r.at - pub2[i].at + I - 1) \div I + 1)
  BY <1>1
<1>. HIDE DEF pub2
<1>3. ASSUME NEW i \in 1 .. Len(pub2), NEW j \in 1 .. Len(pub2), i <= j
      PROVE  Cardinality(Between(pub2, i, j))
               <= M * ((pub2[j].at - pub2[i].at + I - 1) \div I + 1)
  <2>1. CASE j = Len(pub2)
    <3>1. Between(pub2, i, j) = Sent(pub2, KeyOf(pub2[i].id), i)
      BY <2>1 DEF Between, Sent
    <3>2. pub2[j] = r
      BY <1>1, <2>1
    <3>3. Cardinality(Sent(pub2, KeyOf(pub2[i].id), i))
            <= M * ((pub2[j].at - pub2[i].at + I - 1) \div I + 1)
      BY <1>2, <3>2
    <3>. QED  BY <3>1, <3>3, Zenon
  <2>2. CASE j # Len(pub2)
    <3>1. i \in 1 .. Len(pub) /\ j \in 1 .. Len(pub)
      BY <1>1, <1>3, <2>2
    <3>2. pub2[i] = pub[i] /\ pub2[j] = pub[j]
      BY <1>1, <3>1
    <3>3. \A k \in (i + 1) .. j : pub2[k] = pub[k]
      BY <1>1, <3>1
    <3>4. Between(pub2, i, j) = Between(pub, i, j)
      BY <3>2, <3>3 DEF Between
    <3>5. Cardinality(Between(pub, i, j))
            <= M * ((pub[j].at - pub[i].at + I - 1) \div I + 1)
      BY <1>3, <3>1 DEF RateOf
    <3>. QED  BY <3>2, <3>4, <3>5, Zenon
  <2>. QED  BY <2>1, <2>2
<1>. QED  BY <1>3 DEF RateOf, pub2

(* A publish keeps the bound. *)
LEMMA PublishKeepsRate ==
  ASSUME Inv, LimitInv, Inv', LimitInv', RateBound, Publish,
         UNCHANGED <<clock, producer_tokens, msglimit, interval>>, task' # "publish"
  PROVE  RateBound'
<1>. DEFINE r == [n |-> ring[1].n, id |-> ring[1].msg.id, at |-> clock,
                  timestamp |-> Timestamp(ring[1].msg)]
<1>0. /\ clock \in Nat /\ msglimit \in Nat /\ interval \in Nat \ {0}
      /\ published \in Seq(Published) /\ Len(published) \in Nat
      /\ published' \in Seq(Published)
  BY LenProperties DEF Inv, TypeOK
<1>1. published' = Append(published, r) /\ r.at = clock
  BY DEF Publish
<1>. HIDE DEF r
<1>2. Len(published') = Len(published) + 1 /\ published'[Len(published) + 1] = r
  BY <1>0, <1>1
<1>3. r \in Published
  BY <1>0, <1>2, ElementOfSeq
<1>4. ASSUME NEW i \in 1 .. (Len(published) + 1)
      PROVE  Cardinality(Sent(published', KeyOf(published'[i].id), i))
               <= msglimit * ((clock - published'[i].at + interval - 1) \div interval + 1)
  <2>0. SUFFICES ASSUME NEW K, K = KeyOf(published'[i].id)
                PROVE  Cardinality(Sent(published', K, i))
                         <= msglimit * ((clock - published'[i].at + interval - 1)
                                          \div interval + 1)
    OBVIOUS
  <2>. DEFINE t == producer_tokens[K]
  <2>1. /\ i \in 1 .. Len(published') /\ i \in Nat
        /\ published'[i].at <= clock /\ K \in DOMAIN producer_tokens
    BY <1>0, <1>2, <2>0 DEF LimitInv
  <2>2. t \in TokensType
    BY <2>1 DEF Inv, TypeOK
  <2>3. Limiter(K)' /\ Flight(K)' = 0
    BY <2>1 DEF LimitInv, Flight
  <2>4. /\ t.window \in Nat /\ Begin(t, t.window, interval) <= clock /\ t.cur <= msglimit
        /\ Capped(published', K, t, 0, msglimit, interval)
    BY <2>3 DEF Limiter
  <2>. HIDE DEF t
  <2>5. Cardinality(Sent(published', K, i)) + 0
          <= msglimit * ((clock - published'[i].at + interval - 1) \div interval + 1)
    BY <1>0, <2>0, <2>1, <2>2, <2>4, CappedBound
  <2>6. Cardinality(Sent(published', K, i)) \in Nat
    BY <1>0, <2>1, CountsType
  <2>. QED  BY <2>5, <2>6
<1>5. RateOf(published, msglimit, interval)
  BY <1>0, RateByKey DEF RateBound, WindowsTouched
<1>6. RateOf(Append(published, r), msglimit, interval)
  BY <1>0, <1>1, <1>3, <1>4, <1>5, RateAppend
<1>7. RateOf(published', msglimit', interval')
  BY <1>1, <1>6
<1>. QED  BY <1>0, <1>7, RateByKey DEF RateBound, WindowsTouched

(***************************************************************************)
(* Who is refused: only a producer of whom LDMS got its limit.             *)
(***************************************************************************)
UsedUp(pub, id, c) ==
  {k \in DOMAIN pub : SameProducer(pub[k].id, id) /\ pub[k].at > c}

(* What was published stays published. *)
LEMMA UsedUpGrows ==
  ASSUME NEW pub \in Seq(Published), NEW r \in Published, NEW id, NEW c
  PROVE  /\ Cardinality(UsedUp(pub, id, c)) \in Nat
         /\ Cardinality(UsedUp(Append(pub, r), id, c)) \in Nat
         /\ Cardinality(UsedUp(pub, id, c)) <= Cardinality(UsedUp(Append(pub, r), id, c))
<1>. DEFINE pub2 == Append(pub, r)
<1>1. /\ Len(pub) \in Nat /\ Len(pub2) = Len(pub) + 1
      /\ DOMAIN pub = 1 .. Len(pub) /\ DOMAIN pub2 = 1 .. (Len(pub) + 1)
      /\ \A k \in 1 .. Len(pub) : pub2[k] = pub[k]
  BY AppendProperties, LenProperties
<1>. HIDE DEF pub2
<1>2. UsedUp(pub, id, c) \subseteq UsedUp(pub2, id, c)
  BY <1>1 DEF UsedUp
<1>3. UsedUp(pub2, id, c) \subseteq 1 .. (Len(pub) + 1)
  BY <1>1 DEF UsedUp
<1>4. IsFiniteSet(1 .. (Len(pub) + 1))
  BY <1>1, FS_Interval
<1>5. IsFiniteSet(UsedUp(pub2, id, c))
  BY <1>3, <1>4, FS_Subset
<1>. QED  BY <1>2, <1>5, FS_Subset, FS_CardinalityType DEF pub2

(* A limiter without a token has counted its limit in its two windows. *)
LEMMA NoTokenLeft ==
  ASSUME Inv, NEW K, ~ HasToken(K), TokensOf(K) \in TokensType
  PROVE  msglimit <= TokensOf(K).prev + TokensOf(K).cur
<1>. DEFINE t == TokensOf(K)
            covered == interval - ((clock - t.start) % interval)
<1>1. clock \in Nat /\ msglimit \in Nat /\ interval \in Nat \ {0}
  BY DEF Inv, TypeOK
<1>2. t.start \in Nat /\ t.prev \in Nat /\ t.cur \in Nat
  BY DEF TokensType
<1>3. covered \in Nat /\ covered <= interval
  BY <1>1, <1>2
<1>4. ~ (t.prev * covered + t.cur * interval < msglimit * interval)
  BY DEF HasToken
<1>. HIDE DEF t, covered
<1>5. PICK x \in Nat : x = t.prev * covered
  BY <1>2, <1>3, TimesGap
<1>6. PICK p \in Nat : p = t.prev * interval
  BY <1>1, <1>2, TimesGap
<1>7. PICK y \in Nat : y = t.cur * interval
  BY <1>1, <1>2, TimesGap
<1>8. PICK z \in Nat : z = msglimit * interval
  BY <1>1, TimesGap
<1>9. x <= p
  <2>1. covered * t.prev <= interval * t.prev
    BY <1>1, <1>2, <1>3, TimesGap
  <2>2. covered * t.prev = t.prev * covered /\ interval * t.prev = t.prev * interval
    BY <1>1, <1>2, <1>3
  <2>. QED  BY <1>5, <1>6, <2>1, <2>2
<1>10. z <= p + y
  BY <1>4, <1>5, <1>7, <1>8, <1>9
<1>11. PICK n \in Nat : n = t.prev + t.cur
  BY <1>2
<1>12. n * interval = p + y
  <2>1. (t.prev + t.cur) * interval = t.prev * interval + t.cur * interval
    BY <1>1, <1>2
  <2>. QED  BY <1>6, <1>7, <1>11, <2>1
<1>13. n < msglimit => n * interval + interval <= z
  BY <1>1, <1>8, TimesGap
<1>14. msglimit <= n
  BY <1>1, <1>10, <1>12, <1>13
<1>. QED  BY <1>11, <1>14 DEF t

(* The message at hand is refused for its own producer's messages. *)
LEMMA RefusedFairly == ASSUME Inv, LimitInv, RateLimited PROVE RefusedOnlyOverLimit'
<1>. DEFINE id == ring[1].msg.id
            K  == ProducerId(ring[1].msg)
            t  == TokensOf(K)
            A  == Since(published, K, Begin(t, t.window, interval) - interval)
            B  == UsedUp(published, id, clock - 2 * interval)
<1>0. /\ clock \in Nat /\ msglimit \in Nat /\ interval \in Nat \ {0}
      /\ published \in Seq(Published)
  BY DEF Inv, TypeOK
<1>1. /\ task = "body" /\ ~ HasToken(K) /\ refused' = [id |-> id, at |-> clock]
      /\ UNCHANGED <<published, msglimit, interval>>
  BY DEF RateLimited, config
<1>2. KeyOf(id) = K
  BY DEF KeyOf, ProducerId
<1>3. Rolled(K, t)
  BY <1>1, TokensRolled
<1>. HIDE DEF id, K
<1>4. msglimit <= t.prev + t.cur
  BY <1>1, <1>3, NoTokenLeft DEF Rolled
<1>. HIDE DEF t
<1>5. PICK b \in Nat : b = Begin(t, t.window, interval)
  BY <1>0, <1>3, TimesGap DEF Rolled, Begin, TokensType
<1>6. clock < b + interval
  BY <1>3, <1>5 DEF Rolled
<1>7. \A k \in 1 .. Len(published) : published[k].at \in Nat
  BY PublishedType
<1>8. A \subseteq B
  <2>1. \A k \in 1 .. Len(published) :
          published[k].at >= b - interval => published[k].at > clock - 2 * interval
    BY <1>0, <1>6, <1>7
  <2>2. \A k \in 1 .. Len(published) :
          KeyOf(published[k].id) = K => SameProducer(published[k].id, id)
    BY <1>2, SameKey
  <2>3. DOMAIN published = 1 .. Len(published)
    BY <1>0, LenProperties
  <2>. QED  BY <1>5, <2>1, <2>2, <2>3 DEF Since, UsedUp
<1>9. IsFiniteSet(B)
  <2>1. B \subseteq 1 .. Len(published) /\ Len(published) \in Nat
    BY <1>0, LenProperties DEF UsedUp
  <2>2. IsFiniteSet(1 .. Len(published))
    BY <2>1, FS_Interval
  <2>. HIDE DEF B
  <2>. QED  BY <2>1, <2>2, FS_Subset
<1>10. /\ Cardinality(A) \in Nat /\ Cardinality(B) \in Nat
       /\ Cardinality(A) <= Cardinality(B)
  BY <1>8, <1>9, FS_Subset, FS_CardinalityType
<1>11. t.prev + t.cur <= Cardinality(A) + 0
  BY <1>3 DEF Rolled, Covered
<1>12. t.prev \in Nat /\ t.cur \in Nat
  BY <1>3 DEF Rolled, TokensType
<1>. HIDE DEF A
<1>13. msglimit <= Cardinality(B)
  <2>. HIDE DEF B
  <2>. QED  BY <1>0, <1>4, <1>10, <1>11, <1>12
<1>14. refused'.id = id /\ refused'.at = clock
  BY <1>1
<1>. HIDE DEF B
<1>15. Cardinality(B) >= msglimit
  BY <1>0, <1>10, <1>13
<1>16. Cardinality(UsedUp(published', refused'.id, refused'.at - 2 * interval')) >= msglimit'
  BY <1>1, <1>14, <1>15 DEF B
<1>. QED  BY <1>16 DEF RefusedOnlyOverLimit, UsedUp

(* Another step refuses no message, and takes nothing from LDMS. *)
LEMMA RefusedStays ==
  ASSUME Inv, RefusedOnlyOverLimit, UNCHANGED <<msglimit, interval, refused>>,
         NEW r \in Published,
         published' = published \/ published' = Append(published, r)
  PROVE  RefusedOnlyOverLimit'
<1>. DEFINE c == refused.at - 2 * interval
<1>0. published \in Seq(Published) /\ msglimit \in Nat
  BY DEF Inv, TypeOK
<1>1. ASSUME refused # Null PROVE Cardinality(UsedUp(published', refused.id, c)) >= msglimit
  <2>1. Cardinality(UsedUp(published, refused.id, c)) >= msglimit
    BY <1>1 DEF RefusedOnlyOverLimit, UsedUp
  <2>. HIDE DEF c
  <2>2. CASE published' = published
    BY <2>1, <2>2
  <2>3. CASE published' = Append(published, r)
    BY <1>0, <2>1, <2>3, UsedUpGrows
  <2>. QED  BY <2>2, <2>3
<1>. QED  BY <1>1 DEF RefusedOnlyOverLimit, UsedUp

(* Every step keeps the limits, the bound on the rate and the fairness of  *)
(* refusals.                                                               *)
RateInv == Inv /\ Unstarted /\ LimitInv /\ RateBound /\ RefusedOnlyOverLimit

LEMMA InitRate == Init => RateInv
<1>. SUFFICES ASSUME Init PROVE RateInv
  OBVIOUS
<1>1. Inv
  BY InitInv
<1>2. Unstarted /\ RefusedOnlyOverLimit
  BY DEF Init, Unstarted, RefusedOnlyOverLimit
<1>3. /\ published = <<>> /\ Len(published) = 0 /\ DOMAIN published = {}
      /\ task = "none" /\ DOMAIN producer_tokens = {}
  BY DEF Init
<1>4. LimitInv /\ RateBound
  BY <1>3 DEF LimitInv, RateBound
<1>. QED  BY <1>1, <1>2, <1>4 DEF RateInv

LEMMA StepRate == RateInv /\ [Next]_vars => RateInv'
<1>. SUFFICES ASSUME RateInv, [Next]_vars PROVE RateInv'
  OBVIOUS
<1>1. Inv /\ Unstarted /\ LimitInv /\ RateBound /\ RefusedOnlyOverLimit
  BY DEF RateInv
<1>2. Inv' /\ Unstarted' /\ LimitInv'
  BY <1>1, StepInv, StepUnstarted, StepLimits
<1>3. UNCHANGED <<msglimit, interval>>
  BY DEF Next, vars, config, Tick, Reserve, ReserveFails, Submit, NewStream, Connect,
         SpawnRingLoop, StartFails, RingLoop, StartLoop, StartLoopErr, Readable, NextItem,
         Skip, RateLimited, StartPublish, PublishOk, PublishErr, Exit
<1>4. \/ UNCHANGED published
      \/ /\ task = "publish" /\ Publish /\ task' # "publish"
         /\ UNCHANGED <<clock, producer_tokens, msglimit, interval, refused>>
  BY DEF Next, vars, config, Tick, Reserve, ReserveFails, Submit, NewStream, Connect,
         SpawnRingLoop, StartFails, RingLoop, StartLoop, StartLoopErr, Readable, NextItem,
         Skip, RateLimited, StartPublish, PublishOk, PublishErr, Exit
<1>5. UNCHANGED refused \/ RateLimited
  BY DEF Next, vars, config, Tick, Reserve, ReserveFails, Submit, NewStream, Connect,
         SpawnRingLoop, StartFails, RingLoop, StartLoop, StartLoopErr, Readable, NextItem,
         Skip, RateLimited, StartPublish, PublishOk, PublishErr, Exit
<1>6. RateBound'
  <2>1. CASE UNCHANGED published
    BY <1>1, <1>3, <2>1 DEF RateBound, WindowsTouched
  <2>. QED  BY <1>1, <1>2, <1>4, <2>1, PublishKeepsRate
<1>7. RefusedOnlyOverLimit'
  <2>1. CASE RateLimited
    BY <1>1, <2>1, RefusedFairly
  <2>2. CASE UNCHANGED refused /\ UNCHANGED published
    BY <1>1, <1>3, <2>2 DEF RefusedOnlyOverLimit
  <2>3. CASE UNCHANGED refused /\ Publish
    <3>. DEFINE r == [n |-> ring[1].n, id |-> ring[1].msg.id, at |-> clock,
                      timestamp |-> Timestamp(ring[1].msg)]
    <3>1. published' = Append(published, r)
      BY <2>3 DEF Publish
    <3>2. published \in Seq(Published) /\ published' \in Seq(Published)
      BY <1>1, <1>2 DEF Inv, TypeOK
    <3>. HIDE DEF r
    <3>3. /\ Len(published) \in Nat /\ Len(published') = Len(published) + 1
          /\ published'[Len(published) + 1] = r
      BY <3>1, <3>2
    <3>4. r \in Published
      BY <3>2, <3>3, ElementOfSeq
    <3>. QED  BY <1>1, <1>3, <2>3, <3>1, <3>4, RefusedStays
  <2>. QED  BY <1>4, <1>5, <2>1, <2>2, <2>3
<1>. QED  BY <1>2, <1>6, <1>7 DEF RateInv

(* With any limit, any interval and any messages, however long a publish   *)
(* takes: LDMS never gets more of a producer than its limit in each window *)
(* that a span of time can touch.                                          *)
THEOREM NoProducerOverRate == Spec => []RateBound
<1>1. RateInv => RateBound
  BY DEF RateInv
<1>. QED  BY <1>1, InitRate, StepRate, PTL DEF Spec

(* A message is over its rate only because of what LDMS got of its own     *)
(* producer in the two windows before: no producer can starve another.     *)
THEOREM RefusedForOwnMessages == Spec => []RefusedOnlyOverLimit
<1>1. RateInv => RefusedOnlyOverLimit
  BY DEF RateInv
<1>. QED  BY <1>1, InitRate, StepRate, PTL DEF Spec
=============================================================================
