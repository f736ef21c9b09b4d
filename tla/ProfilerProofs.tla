--------------------------- MODULE ProfilerProofs ---------------------------
(***************************************************************************)
(* The handlers stay inside the PROF_* maps, and their unlocked increments *)
(* never make a count larger than what was stored, for any number of CPUs, *)
(* histograms and buckets.                                                 *)
(* Without races a bucket has exactly the values that belong under the     *)
(* number the profiler prints for it, and a reset leaves none that is      *)
(* older.                                                                  *)
(***************************************************************************)
EXTENDS Profiler, FiniteSetTheorems, WellFoundedInduction, TLAPS

(* A bucket number is natural: there are at most Bits leading zeros.       *)
LEMMA BucketType == ASSUME NEW h, NEW v \in Values PROVE BucketOf(h, v) \in Nat
<1> DEFINE lz == {i \in 0 .. (Bits - 1) : v < 2 ^ i}
<1>1. Bits \in Nat /\ v \in Nat
  BY ConstantsAssumption
<1>2. IsFiniteSet(0 .. (Bits - 1)) /\ Cardinality(0 .. (Bits - 1)) = Bits
  BY <1>1, FS_Interval
<1>3. Cardinality(lz) \in Nat /\ Cardinality(lz) <= Bits
  BY <1>2, FS_Subset, FS_CardinalityType
<1> QED
  BY <1>1, <1>3 DEF BucketOf, log2_bucket, leading_zeros

(* The histogram of a round of the reset loop is one of the histograms.    *)
LEMMA RoundType ==
  ASSUME NEW n \in Nat, n < ResetRounds
  PROVE  ResetHist(n) \in Hists /\ ResetBucket(n) \in Nat
<1>1. Len(ResetHists) \in Nat /\ Len(ResetHists) # 0 /\ Bits \in Nat
  <2>1. Len(ResetHists) \in Nat /\ Bits \in Nat
    BY ConstantsAssumption
  <2>2. Len(ResetHists) # 0
    BY <2>1 DEF ResetRounds
  <2> QED BY <2>1, <2>2
<1>2. (n % Len(ResetHists)) + 1 \in 1 .. Len(ResetHists)
  BY <1>1
<1>3. n \div Len(ResetHists) \in Nat
  BY <1>1
<1> QED
  BY <1>2, <1>3, ConstantsAssumption DEF ResetHist, ResetBucket, Hists

LEMMA RoundsType == ResetRounds \in Nat
BY ConstantsAssumption DEF ResetRounds

(* The elements of a histogram.                                            *)
Slot == [key : Nat \union {NoKey}, count : Nat]

LEMMA SlotFree ==
  ASSUME NEW r \in Slot
  PROVE  [r EXCEPT !.key = NoKey] \in Slot /\ [r EXCEPT !.key = NoKey].count = r.count
BY DEF Slot

LEMMA SlotStore ==
  ASSUME NEW r \in Slot, NEW n \in Nat
  PROVE  [r EXCEPT !.count = n] \in Slot /\ [r EXCEPT !.count = n].count = n
BY DEF Slot

LEMMA HistType == ASSUME TypeOK PROVE hist \in [Hists -> [Elem -> Slot]]
BY DEF TypeOK, Slot

IInv == TypeOK /\ CountBacked /\ LoadBacked

LEMMA InitIInv == Init => IInv
<1> SUFFICES ASSUME Init PROVE IInv
  OBVIOUS
<1>1. 0 \in 0 .. ResetRounds /\ 1 \in Elem
  BY RoundsType, ConstantsAssumption DEF Elem
<1>2. <<>> \in Seq(Hists)
  OBVIOUS
<1> QED
  BY <1>1, <1>2 DEF Init, IInv, TypeOK, CountBacked, LoadBacked, FreeElem, Stamp, Counting,
                    NoKey

LEMMA StartProbeIInv ==
  ASSUME IInv, NEW c \in Cpus, NEW hists \in {EntryHists, ExitHists, <<>>},
         StartProbe(c, hists)
  PROVE  IInv'
<1>0. <<>> \in Seq(Hists)
  OBVIOUS
<1>1. hists \in Seq(Hists)
  BY <1>0, ConstantsAssumption
<1>2. TypeOK'
  BY <1>1 DEF IInv, TypeOK, StartProbe, Goto, Proceed, Counting
<1>3. CountBacked' /\ LoadBacked'
  BY <1>1 DEF IInv, TypeOK, StartProbe, Goto, Proceed, CountBacked, LoadBacked
<1> QED BY <1>2, <1>3 DEF IInv

LEMMA ResetRemoveIInv ==
  ASSUME IInv, NEW c \in Cpus, ResetRemove(c)
  PROVE  IInv'
<1> DEFINE h == ResetHist(step[c])
           k == ResetBucket(step[c])
<1>1. step[c] \in Nat /\ step[c] < ResetRounds
  BY RoundsType DEF IInv, TypeOK, ResetRemove
<1>2. h \in Hists
  BY <1>1, RoundType
<1>3. hist' = [hist EXCEPT ![h] = [e \in Elem |->
                 IF hist[h][e].key = k THEN [hist[h][e] EXCEPT !.key = NoKey]
                                       ELSE hist[h][e]]]
  BY <1>2 DEF ResetRemove, IInv, TypeOK
<1> HIDE DEF h, k
<1>4. \A g \in Hists : \A e \in Elem :
        hist'[g][e] \in Slot /\ hist'[g][e].count = hist[g][e].count
  <2> TAKE g \in Hists
  <2> TAKE e \in Elem
  <2>1. hist[g][e] \in Slot
    BY HistType DEF IInv
  <2>2. hist'[g][e] = hist[g][e] \/ hist'[g][e] = [hist[g][e] EXCEPT !.key = NoKey]
    BY <1>2, <1>3, HistType DEF IInv
  <2> QED BY <2>1, <2>2, SlotFree
<1>5. hist' \in [Hists -> [Elem -> [key : Nat \union {NoKey}, count : Nat]]]
  <2>1. \A g \in Hists : hist'[g] \in [Elem -> Slot]
    BY <1>2, <1>3, <1>4, HistType DEF IInv
  <2> QED BY <1>3, <2>1, HistType DEF IInv, Slot
<1>6. step' \in [Cpus -> 0 .. ResetRounds]
  BY <1>1, RoundsType DEF IInv, TypeOK, ResetRemove
<1>7. /\ UNCHANGED <<PROF_CTRL, pc, todo, bucket, ptr, reg, stored>>
  BY DEF ResetRemove
<1>8. TypeOK'
  BY <1>5, <1>6, <1>7 DEF IInv, TypeOK
<1>9. CountBacked' /\ LoadBacked'
  BY <1>4, <1>7 DEF IInv, CountBacked, LoadBacked
<1> QED BY <1>8, <1>9 DEF IInv

LEMMA ResetStampIInv ==
  ASSUME IInv, NEW c \in Cpus, ResetStamp(c)
  PROVE  IInv'
<1>1. 0 \in 0 .. ResetRounds
  BY RoundsType
<1>2. TypeOK'
  BY <1>1 DEF IInv, TypeOK, ResetStamp, Goto, Proceed, history, Counting, Stamp
<1>3. CountBacked' /\ LoadBacked'
  BY DEF IInv, TypeOK, ResetStamp, Goto, Proceed, history, CountBacked, LoadBacked
<1> QED BY <1>2, <1>3 DEF IInv

LEMMA LookupIInv ==
  ASSUME IInv, NEW c \in Cpus, NEW v \in Values, Lookup(c, v)
  PROVE  IInv'
<1> DEFINE es == ElemsOf(Head(todo[c]), BucketOf(Head(todo[c]), v))
<1>1. es # {} => (CHOOSE e \in es : TRUE) \in Elem
  BY DEF ElemsOf
<1>2. BucketOf(Head(todo[c]), v) \in Nat
  BY BucketType
<1>3. /\ ptr' = [ptr EXCEPT ![c] = IF es # {} THEN CHOOSE e \in es : TRUE ELSE @]
      /\ pc' = [pc EXCEPT ![c] = IF es # {} THEN "load" ELSE "insert"]
      /\ bucket' = [bucket EXCEPT ![c] = BucketOf(Head(todo[c]), v)]
      /\ pc[c] = "next"
      /\ UNCHANGED <<PROF_CTRL, hist, todo, step, reg, stored>>
  BY DEF Lookup, Goto
<1> HIDE DEF es
<1>4. TypeOK'
  BY <1>1, <1>2, <1>3 DEF IInv, TypeOK, Counting
<1>5. CountBacked' /\ LoadBacked'
  BY <1>1, <1>3 DEF IInv, TypeOK, CountBacked, LoadBacked
<1> QED BY <1>4, <1>5 DEF IInv

(* The histogram a handler counts in.                                      *)
LEMMA HeadType ==
  ASSUME TypeOK, NEW c \in Cpus, pc[c] \in Counting
  PROVE  Head(todo[c]) \in Hists /\ Tail(todo[c]) \in Seq(Hists)
BY DEF TypeOK

LEMMA LoadIInv ==
  ASSUME IInv, NEW c \in Cpus, Load(c)
  PROVE  IInv'
<1>1. Head(todo[c]) \in Hists
  BY HeadType DEF IInv, Load, Counting
<1>2. TypeOK'
  BY <1>1 DEF IInv, TypeOK, Load, Goto, history, Counting
<1>3. CountBacked'
  BY DEF IInv, CountBacked, Load, history
<1>4. LoadBacked'
  BY <1>1 DEF IInv, TypeOK, CountBacked, LoadBacked, Load, Goto, history
<1> QED BY <1>2, <1>3, <1>4 DEF IInv

(* What hist_increment leaves behind, after either of its branches.        *)
LEMMA LeaveIInv ==
  ASSUME IInv, NEW c \in Cpus, pc[c] \in Counting, Leave(c),
         hist' \in [Hists -> [Elem -> [key : Nat \union {NoKey}, count : Nat]]],
         stored' \in [Hists -> [Elem -> Nat]],
         \A h \in Hists : \A e \in Elem : stored[h][e] <= stored'[h][e],
         CountBacked'
  PROVE  IInv'
<1>1. Tail(todo[c]) \in Seq(Hists) /\ 1 \in Elem
  BY HeadType, ConstantsAssumption DEF IInv, Elem
<1>2. TypeOK'
  BY <1>1 DEF IInv, TypeOK, Leave, Goto, Proceed, Counting
<1>3. LoadBacked'
  <2> SUFFICES ASSUME NEW d \in Cpus, pc'[d] = "store"
               PROVE  reg'[d] <= stored'[Head(todo'[d])][ptr'[d]]
    BY DEF LoadBacked
  <2>1. d # c /\ pc[d] = "store" /\ reg'[d] = reg[d] /\ todo'[d] = todo[d] /\ ptr'[d] = ptr[d]
    BY DEF Leave, Goto, Proceed, IInv, TypeOK
  <2>2. Head(todo[d]) \in Hists
    BY <2>1, HeadType DEF IInv, Counting
  <2>3. ptr[d] \in Elem /\ reg[d] \in Nat
    BY DEF IInv, TypeOK
  <2>4. reg[d] <= stored[Head(todo[d])][ptr[d]]
    BY <2>1 DEF IInv, LoadBacked
  <2>5. stored[Head(todo[d])][ptr[d]] \in Nat /\ stored'[Head(todo[d])][ptr[d]] \in Nat
    BY <2>2, <2>3 DEF IInv, TypeOK
  <2>6. stored[Head(todo[d])][ptr[d]] <= stored'[Head(todo[d])][ptr[d]]
    BY <2>2, <2>3
  <2> QED BY <2>1, <2>3, <2>4, <2>5, <2>6
<1> QED BY <1>2, <1>3 DEF IInv

LEMMA StoreIInv ==
  ASSUME IInv, NEW c \in Cpus, Store(c)
  PROVE  IInv'
<1> DEFINE h == Head(todo[c])
           e == ptr[c]
<1>1. h \in Hists /\ e \in Elem /\ reg[c] \in Nat
  BY HeadType DEF IInv, Store, Counting, TypeOK
<1>2. reg[c] <= stored[h][e]
  BY DEF IInv, LoadBacked, Store
<1>3. /\ hist' = [hist EXCEPT ![h][e].count = reg[c] + 1]
      /\ stored' = [stored EXCEPT ![h][e] = @ + 1]
      /\ pc[c] \in Counting
      /\ Leave(c)
  BY DEF Store, Counting
<1> HIDE DEF h, e
<1>4. hist[h] \in [Elem -> Slot] /\ hist[h][e] \in Slot
  BY <1>1, HistType DEF IInv
<1> DEFINE new == [hist[h][e] EXCEPT !.count = reg[c] + 1]
<1>40. new \in Slot /\ new.count = reg[c] + 1
  <2>1. reg[c] + 1 \in Nat
    BY <1>1
  <2> QED BY <1>4, <2>1, SlotStore, Zenon
<1>41. hist' = [hist EXCEPT ![h] = [hist[h] EXCEPT ![e] = new]]
  BY <1>1, <1>3, <1>4, HistType DEF IInv
<1> HIDE DEF new
<1>44. hist' \in [Hists -> [Elem -> [key : Nat \union {NoKey}, count : Nat]]]
  BY <1>1, <1>4, <1>40, <1>41, HistType DEF IInv, Slot
<1>5. stored' \in [Hists -> [Elem -> Nat]]
  <2>1. stored \in [Hists -> [Elem -> Nat]]
    BY DEF IInv, TypeOK
  <2>2. stored[h][e] + 1 \in Nat
    BY <1>1, <2>1
  <2>3. [stored[h] EXCEPT ![e] = stored[h][e] + 1] \in [Elem -> Nat]
    BY <1>1, <2>1, <2>2
  <2> QED BY <1>1, <1>3, <2>1, <2>3
<1>6. \A g \in Hists : \A f \in Elem :
        /\ stored'[g][f] = IF g = h /\ f = e THEN stored[g][f] + 1 ELSE stored[g][f]
        /\ stored[g][f] \in Nat
  BY <1>1, <1>3 DEF IInv, TypeOK
<1>66. hist'[h][e].count = reg[c] + 1
  BY <1>1, <1>4, <1>40, <1>41, HistType DEF IInv
<1>67. \A g \in Hists : \A f \in Elem : ~ (g = h /\ f = e) => hist'[g][f] = hist[g][f]
  BY <1>1, <1>4, <1>41, HistType DEF IInv
<1>7. CountBacked'
  <2> SUFFICES ASSUME NEW g \in Hists, NEW f \in Elem
               PROVE  hist'[g][f].count <= stored'[g][f]
    BY DEF CountBacked
  <2>1. CASE g = h /\ f = e
    BY <2>1, <1>1, <1>2, <1>6, <1>66
  <2>2. CASE ~ (g = h /\ f = e)
    BY <2>2, <1>6, <1>67 DEF IInv, CountBacked
  <2> QED BY <2>1, <2>2
<1>8. \A g \in Hists : \A f \in Elem : stored[g][f] <= stored'[g][f]
  BY <1>6
<1> QED BY <1>3, <1>44, <1>5, <1>7, <1>8, LeaveIInv

LEMMA InsertIInv ==
  ASSUME IInv, NEW c \in Cpus, Insert(c)
  PROVE  IInv'
<1> DEFINE h == Head(todo[c])
           k == bucket[c]
<1>1. h \in Hists /\ k \in Nat
  BY HeadType DEF IInv, Insert, Counting, TypeOK
<1>2. pc[c] \in Counting /\ Leave(c)
  BY DEF Insert, Counting
<1>3. CASE UNCHANGED <<hist, stored>>
  <2>1. CountBacked'
    BY <1>3 DEF IInv, CountBacked
  <2>2. \A g \in Hists : \A f \in Elem : stored[g][f] <= stored'[g][f]
    BY <1>3 DEF IInv, TypeOK
  <2> QED BY <1>2, <1>3, <2>1, <2>2, LeaveIInv DEF IInv, TypeOK
<1>4. ASSUME NEW new \in ElemsOf(h, NoKey),
             hist' = [hist EXCEPT ![h] = [e \in Elem |->
                 IF e = new THEN [key |-> k, count |-> 1]
                 ELSE IF hist[h][e].key = k THEN [hist[h][e] EXCEPT !.key = NoKey]
                                            ELSE hist[h][e]]],
             stored' = [stored EXCEPT ![h][new] = @ + 1]
      PROVE  IInv'
  <2>1. new \in Elem
    BY DEF ElemsOf
  <2> HIDE DEF h, k
  <2>2. \A g \in Hists : \A f \in Elem :
          /\ hist'[g][f] \in Slot
          /\ hist'[g][f].count = IF g = h /\ f = new THEN 1 ELSE hist[g][f].count
    <3> TAKE g \in Hists
    <3> TAKE f \in Elem
    <3>1. hist[g][f] \in Slot
      BY HistType DEF IInv
    <3>2. CASE g = h /\ f = new
      <4>1. hist'[g][f] = [key |-> k, count |-> 1]
        BY <1>1, <1>4, <2>1, <3>2, HistType DEF IInv
      <4> QED BY <1>1, <3>2, <4>1 DEF Slot
    <3>3. CASE ~ (g = h /\ f = new)
      <4>1. hist'[g][f] = hist[g][f] \/ hist'[g][f] = [hist[g][f] EXCEPT !.key = NoKey]
        BY <1>1, <1>4, <3>3, HistType DEF IInv
      <4> QED BY <3>1, <3>3, <4>1, SlotFree
    <3> QED BY <3>2, <3>3
  <2>3. hist' \in [Hists -> [Elem -> [key : Nat \union {NoKey}, count : Nat]]]
    <3>1. \A g \in Hists : hist'[g] \in [Elem -> Slot]
      BY <1>1, <1>4, <2>2, HistType DEF IInv
    <3> QED BY <1>4, <3>1, HistType DEF IInv, Slot
  <2>4. stored' \in [Hists -> [Elem -> Nat]]
    <3>1. stored \in [Hists -> [Elem -> Nat]]
      BY DEF IInv, TypeOK
    <3>2. stored[h][new] + 1 \in Nat
      BY <1>1, <2>1, <3>1
    <3>3. [stored[h] EXCEPT ![new] = stored[h][new] + 1] \in [Elem -> Nat]
      BY <2>1, <1>1, <3>1, <3>2
    <3> QED BY <1>1, <1>4, <3>1, <3>3
  <2>5. \A g \in Hists : \A f \in Elem :
          /\ stored'[g][f] = IF g = h /\ f = new THEN stored[g][f] + 1 ELSE stored[g][f]
          /\ stored[g][f] \in Nat
    BY <1>1, <1>4, <2>1 DEF IInv, TypeOK
  <2>6. CountBacked'
    BY <2>2, <2>5 DEF IInv, CountBacked
  <2>7. \A g \in Hists : \A f \in Elem : stored[g][f] <= stored'[g][f]
    BY <2>5
  <2> QED BY <1>2, <2>3, <2>4, <2>6, <2>7, LeaveIInv
<1> QED
  BY <1>1, <1>3, <1>4 DEF Insert, IInv, TypeOK

LEMMA ResetMapsIInv == ASSUME IInv, ResetMaps PROVE IInv'
BY DEF IInv, TypeOK, CountBacked, LoadBacked, ResetMaps

LEMMA NextIInv == IInv /\ [Next]_vars => IInv'
<1> SUFFICES ASSUME IInv, [Next]_vars PROVE IInv'
  OBVIOUS
<1>1. CASE UNCHANGED vars
  BY <1>1 DEF IInv, TypeOK, CountBacked, LoadBacked, vars, history
<1>2. ASSUME NEW c \in Cpus, ProbeStep(c) PROVE IInv'
  BY <1>2, StartProbeIInv, ResetRemoveIInv, ResetStampIInv, LookupIInv, LoadIInv, StoreIInv,
     InsertIInv DEF ProbeStep
<1>3. CASE ResetMaps
  BY <1>3, ResetMapsIInv
<1> QED
  BY <1>1, <1>2, <1>3 DEF Next

LEMMA SpecIInv == Spec => []IInv
BY InitIInv, NextIInv, PTL DEF Spec

(* The handlers' pointers, bucket numbers and loop counters stay in range  *)
(* (lib.rs, hist_increment and check_prof_reset), on any number of CPUs.   *)
THEOREM TypeCorrect == Spec => []TypeOK
<1>1. IInv => TypeOK
  BY DEF IInv
<1> QED BY <1>1, SpecIInv, PTL

(* Unlocked increments racing with each other and with resets lose counts  *)
(* or misplace them, but no count of any histogram ever exceeds what the   *)
(* handlers stored there.                                                  *)
THEOREM CountsBacked == Spec => []CountBacked
<1>1. IInv => CountBacked
  BY DEF IInv
<1> QED BY <1>1, SpecIInv, PTL

-----------------------------------------------------------------------------
(***************************************************************************)
(* Exactness without races.  A handler that has a histogram to itself      *)
(* finds at each step what it left at the one before.                      *)
(***************************************************************************)
GhostType ==
  /\ counted \in [Hists -> [Buckets -> Nat]]
  /\ fresh \in [Hists -> [Buckets -> Nat]]
  /\ val \in [Cpus -> Nat]

InHist(c, h) == pc[c] \in Counting /\ Head(todo[c]) = h

ValueKept ==
  \A c \in Cpus : \A h \in Hists :
    InHist(c, h) => val[c] \in Values /\ bucket[c] = BucketOf(h, val[c])

Apart ==
  \A h \in Hists \ overlap : \A c, d \in Cpus : InHist(c, h) /\ InHist(d, h) => c = d

Undisturbed ==
  \A h \in Hists \ overlap : \A c \in Cpus : InHist(c, h) =>
    /\ pc[c] \in {"load", "store"} => ptr[c] \in ElemsOf(h, bucket[c])
    /\ pc[c] = "store" => reg[c] = hist[h][ptr[c]].count
    /\ pc[c] = "insert" => ElemsOf(h, bucket[c]) = {}

XInv == IInv /\ GhostType /\ ValueKept /\ Apart /\ Undisturbed /\ Exact

(***************************************************************************)
(* What a reset that nobody absorbed has got through holds no more than    *)
(* was counted since it was asked for.                                     *)
(***************************************************************************)
Renewed(h, k) == counted[h][k] <= fresh[h][k]

StepsCleared == \A c \in Cpus : pc[c] # "reset" => step[c] = 0

LastEmpty == \A h \in Hists : counted[h][Bits] = 0

RoundsDone ==
  ~ absorbed => \A c \in Cpus : pc[c] = "reset" =>
                  \A n \in 0 .. (step[c] - 1) : Renewed(ResetHist(n), ResetBucket(n))

AllRenewed == PROF_CTRL = Stamp /\ ~ absorbed => \A h \in Hists : \A k \in Buckets : Renewed(h, k)

RInv == StepsCleared /\ LastEmpty /\ RoundsDone /\ AllRenewed

-----------------------------------------------------------------------------
(* A set of natural numbers has a least element.                           *)
LEMMA NatLeast ==
  ASSUME NEW T, T \subseteq Nat, T # {}
  PROVE  \E x \in T : \A y \in T : x <= y
<1> DEFINE R == OpToRel(<, Nat)
<1>1. IsWellFoundedOn(R, Nat)
  BY NatLessThanWellFounded, Zenon
<1>2. \A a, b \in Nat : a < b => <<a, b>> \in R
  BY DEF OpToRel
<1> HIDE DEF R
<1>3. PICK x \in T : \A y \in T : ~ (<<y, x>> \in R)
  BY <1>1, WFMin, Zenon
<1>4. \A y \in T : ~ (y < x)
  BY <1>2, <1>3, Zenon
<1> QED BY <1>4

(* The powers of two are natural and grow: 2^n is the number of subsets of *)
(* 1 .. n.                                                                 *)
LEMMA PowersGrow ==
  ASSUME NEW n \in Nat, NEW m \in Nat
  PROVE  2 ^ n \in Nat /\ (n < m => 2 ^ n < 2 ^ m)
<1>1. ASSUME NEW i \in Nat
      PROVE  /\ IsFiniteSet(SUBSET (1 .. i)) /\ Cardinality(SUBSET (1 .. i)) = 2 ^ i
             /\ 2 ^ i \in Nat
  <2>1. IsFiniteSet(1 .. i) /\ Cardinality(1 .. i) = i
    BY FS_Interval
  <2>2. IsFiniteSet(SUBSET (1 .. i)) /\ Cardinality(SUBSET (1 .. i)) = 2 ^ i
    <3>1. Cardinality(SUBSET (1 .. i)) = 2 ^ Cardinality(1 .. i)
      BY <2>1, FS_SUBSET, Zenon
    <3>2. IsFiniteSet(SUBSET (1 .. i))
      BY <2>1, FS_SUBSET, Zenon
    <3> QED BY <2>1, <3>1, <3>2
  <2> QED BY <2>2, FS_CardinalityType
<1>2. ASSUME n < m PROVE 2 ^ n < 2 ^ m
  <2>1. SUBSET (1 .. n) \subseteq SUBSET (1 .. m)
    BY <1>2
  <2>2. (1 .. m) \in SUBSET (1 .. m) /\ (1 .. m) \notin SUBSET (1 .. n)
    <3>1. m \in 1 .. m /\ m \notin 1 .. n
      BY <1>2
    <3> QED BY <3>1
  <2>3. IsFiniteSet(SUBSET (1 .. m)) /\ IsFiniteSet(SUBSET (1 .. n))
    BY <1>1
  <2>4. /\ Cardinality(SUBSET (1 .. n)) <= Cardinality(SUBSET (1 .. m))
        /\ Cardinality(SUBSET (1 .. n)) # Cardinality(SUBSET (1 .. m))
    BY <2>1, <2>2, <2>3, FS_Subset
  <2> QED BY <1>1, <2>4
<1> QED BY <1>1, <1>2

(* log2_bucket finds the range between two powers of two that a value is   *)
(* in.                                                                     *)
LEMMA Log2Bucket ==
  ASSUME NEW v \in Values, v # 0
  PROVE  \E j \in 1 .. Bits : 2 ^ (j - 1) <= v /\ v < 2 ^ j /\ log2_bucket(v) = j
<1>1. v \in Nat /\ Bits \in Nat /\ v < 2 ^ Bits
  BY ConstantsAssumption, ValuesAssumption
<1> DEFINE T == {i \in Nat : v < 2 ^ i}
<1>2. PICK j \in T : \A i \in T : j <= i
  <2>1. Bits \in T
    BY <1>1
  <2>2. T \subseteq Nat /\ T # {}
    BY <2>1
  <2> HIDE DEF T
  <2> QED BY <2>2, NatLeast
<1>3. j \in 1 .. Bits
  <2>1. 2 ^ 0 = 1
    OBVIOUS
  <2>2. ASSUME j = 0 PROVE FALSE
    <3>1. v < 2 ^ 0
      BY <1>2, <2>2, Zenon
    <3> QED BY <1>1, <2>1, <3>1
  <2>3. j <= Bits
    BY <1>1, <1>2
  <2> QED BY <1>1, <2>2, <2>3
<1>4. \A i \in Nat : 2 ^ i \in Nat
  BY PowersGrow
<1>5. 2 ^ (j - 1) <= v
  <2>1. j - 1 \in Nat /\ j - 1 \notin T
    BY <1>2, <1>3
  <2> QED BY <1>1, <1>4, <2>1
<1>6. {i \in 0 .. (Bits - 1) : v < 2 ^ i} = j .. (Bits - 1)
  <2>1. ASSUME NEW i \in 0 .. (Bits - 1) PROVE v < 2 ^ i <=> j <= i
    <3>1. i \in Nat /\ j \in Nat /\ 2 ^ i \in Nat /\ 2 ^ j \in Nat /\ v < 2 ^ j
      BY <1>1, <1>4
    <3>2. v < 2 ^ i => j <= i
      BY <1>2, <3>1
    <3>3. j < i => 2 ^ j < 2 ^ i
      BY <3>1, PowersGrow
    <3>4. j <= i => v < 2 ^ i
      BY <1>1, <3>1, <3>3
    <3> QED BY <3>2, <3>4
  <2> QED BY <1>1, <1>3, <2>1
<1>7. Cardinality(j .. (Bits - 1)) = Bits - j
  BY <1>1, <1>3, FS_Interval
<1>8. log2_bucket(v) = j
  <2>1. leading_zeros(v) = Bits - j
    BY <1>6, <1>7, Zenon DEF leading_zeros
  <2> QED BY <1>1, <1>3, <2>1 DEF log2_bucket
<1> QED BY <1>3, <1>5, <1>8

(* The bar of the profiler that a value belongs under is the bucket that   *)
(* hist_increment counts it in.                                            *)
LEMMA BucketRight ==
  ASSUME NEW h, NEW k \in Buckets, NEW v \in Values
  PROVE  Belongs(h, k, v) <=> k = BucketOf(h, v)
<1>1. v \in Nat /\ Bits \in Nat /\ k \in Nat /\ k <= Bits
  BY ConstantsAssumption DEF Buckets
<1>2. CASE h \in LinearHists
  BY <1>2 DEF Belongs, Label, BucketOf
<1>3. \A i \in Nat : 2 ^ i \in Nat /\ 2 ^ i # 0
  <2> SUFFICES ASSUME NEW i \in Nat PROVE 2 ^ i \in Nat /\ 2 ^ i > 0
    OBVIOUS
  <2>1. 2 ^ 0 = 1
    OBVIOUS
  <2>2. CASE i = 0
    BY <2>1, <2>2
  <2>3. CASE i # 0
    <3>1. 0 \in Nat /\ 0 < i
      BY <2>3
    <3>2. 2 ^ 0 < 2 ^ i /\ 2 ^ 0 \in Nat /\ 2 ^ i \in Nat
      BY <3>1, PowersGrow
    <3> QED BY <3>2
  <2> QED BY <2>2, <2>3
<1>4. CASE h \notin LinearHists /\ v = 0
  <2>1. Belongs(h, k, v) <=> Label(h, k) = 0
    BY <1>4 DEF Belongs
  <2>2. Label(h, k) = 0 <=> k = 0
    BY <1>1, <1>3, <1>4 DEF Label
  <2>3. BucketOf(h, v) = 0
    BY <1>4 DEF BucketOf, log2_bucket
  <2> QED BY <2>1, <2>2, <2>3
<1>5. CASE h \notin LinearHists /\ v # 0
  <2>1. PICK j \in 1 .. Bits : 2 ^ (j - 1) <= v /\ v < 2 ^ j /\ log2_bucket(v) = j
    BY <1>5, Log2Bucket
  <2>2. BucketOf(h, v) = j
    BY <1>5, <2>1 DEF BucketOf
  <2>3. j \in Nat /\ j # 0 /\ j - 1 \in Nat /\ j \in Buckets
    BY <1>1, <2>1 DEF Buckets
  <2>4. Label(h, 0) = 0 /\ \A i \in Buckets : i # 0 => Label(h, i) = 2 ^ i
    BY <1>5 DEF Label
  <2>5. ASSUME NEW i \in Buckets, v < Label(h, i) PROVE i # 0 /\ j <= i
    <3>1. i \in Nat
      BY <1>1 DEF Buckets
    <3>2. i # 0
      BY <1>1, <2>4, <2>5
    <3>3. v < 2 ^ i
      BY <2>4, <2>5, <3>2
    <3>4. 2 ^ i \in Nat /\ 2 ^ (j - 1) \in Nat
      BY <1>3, <2>3, <3>1
    <3>5. i < j - 1 => 2 ^ i < 2 ^ (j - 1)
      BY <2>3, <3>1, PowersGrow
    <3>6. i # j - 1
      BY <1>1, <2>1, <3>3, <3>4
    <3> QED BY <1>1, <2>1, <2>3, <3>1, <3>2, <3>3, <3>4, <3>5, <3>6
  <2>6. ASSUME NEW i \in Buckets, v < Label(h, i), i # j PROVE Label(h, j) < Label(h, i)
    <3>1. i # 0 /\ j <= i /\ i \in Nat
      BY <1>1, <2>5, <2>6 DEF Buckets
    <3>2. 2 ^ j < 2 ^ i
      <4>1. j < i
        BY <2>3, <2>6, <3>1
      <4> QED BY <2>3, <3>1, <4>1, PowersGrow
    <3> QED BY <2>3, <2>4, <3>1, <3>2
  <2>7. v < Label(h, j)
    BY <2>1, <2>3, <2>4
  <2>8. \A i \in Buckets : Label(h, i) \in Nat
    BY <1>3, <2>4 DEF Buckets
  <2>9. Belongs(h, k, v) <=>
          v < Label(h, k) /\ \A i \in Buckets : v < Label(h, i) => Label(h, k) <= Label(h, i)
    BY <1>5 DEF Belongs
  <2>10. k = j => Belongs(h, k, v)
    <3> SUFFICES ASSUME k = j PROVE \A i \in Buckets : v < Label(h, i) => Label(h, j) <= Label(h, i)
      BY <2>7, <2>9
    <3> QED BY <2>3, <2>6, <2>8
  <2>11. Belongs(h, k, v) => k = j
    <3> SUFFICES ASSUME v < Label(h, k), Label(h, k) <= Label(h, j), k # j PROVE FALSE
      BY <2>3, <2>7, <2>9
    <3>1. Label(h, j) < Label(h, k)
      BY <2>6
    <3> QED BY <2>3, <2>8, <3>1
  <2> QED BY <2>2, <2>10, <2>11
<1> QED BY <1>2, <1>4, <1>5

(* What the invariants say of one histogram depends on its elements only.  *)
LEMMA SameElems ==
  ASSUME NEW h, NEW k, hist'[h] = hist[h]
  PROVE  /\ ElemsOf(h, k)' = ElemsOf(h, k)
         /\ \A n : Holds(h, k, n) => Holds(h, k, n)'
<1>1. ElemsOf(h, k)' = ElemsOf(h, k)
  BY DEF ElemsOf
<1> QED BY <1>1 DEF Holds

(* A step that touches no histogram and no local of hist_increment.        *)
LEMMA QuietStep ==
  ASSUME XInv, IInv', UNCHANGED <<hist, bucket, ptr, reg, val, overlap, counted>>,
         fresh' \in [Hists -> [Buckets -> Nat]],
         \A d \in Cpus : pc'[d] \in Counting => pc'[d] = pc[d] /\ todo'[d] = todo[d]
  PROVE  XInv'
<1>1. \A d \in Cpus : \A h : InHist(d, h)' => InHist(d, h) /\ pc'[d] = pc[d]
  BY DEF InHist
<1>2. GhostType' /\ ValueKept'
  BY <1>1 DEF XInv, GhostType, ValueKept
<1>3. Apart'
  BY <1>1 DEF XInv, Apart
<1>4. \A h, k : ElemsOf(h, k)' = ElemsOf(h, k)
  BY DEF ElemsOf
<1>5. Undisturbed'
  <2> SUFFICES ASSUME NEW h \in Hists \ overlap', NEW d \in Cpus, InHist(d, h)'
               PROVE  /\ pc'[d] \in {"load", "store"} => ptr'[d] \in ElemsOf(h, bucket'[d])
                      /\ pc'[d] = "store" => reg'[d] = hist'[h][ptr'[d]].count
                      /\ pc'[d] = "insert" => ElemsOf(h, bucket'[d]) = {}
    BY <1>4 DEF Undisturbed
  <2>1. h \in Hists \ overlap /\ InHist(d, h) /\ pc'[d] = pc[d]
    BY <1>1
  <2> QED BY <2>1 DEF XInv, Undisturbed
<1>6. Exact'
  BY <1>4 DEF XInv, Exact, Holds
<1> QED BY <1>2, <1>3, <1>5, <1>6 DEF XInv

LEMMA InitXInv == Init => XInv
<1> SUFFICES ASSUME Init PROVE XInv
  OBVIOUS
<1>1. IInv
  BY InitIInv
<1>2. \A c \in Cpus : \A h : ~ InHist(c, h)
  BY DEF Init, InHist, Counting
<1>3. GhostType
  <2>1. /\ counted = [h \in Hists |-> [k \in Buckets |-> 0]]
        /\ fresh = [h \in Hists |-> [k \in Buckets |-> 0]]
        /\ val = [c \in Cpus |-> 0]
    BY DEF Init
  <2>2. [k \in Buckets |-> 0] \in [Buckets -> Nat]
    OBVIOUS
  <2> QED BY <2>1, <2>2 DEF GhostType
<1>5. ValueKept /\ Apart /\ Undisturbed
  BY <1>2 DEF ValueKept, Apart, Undisturbed
<1>4. Exact
  <2> SUFFICES ASSUME NEW h \in Hists, NEW k \in Buckets PROVE Holds(h, k, counted[h][k])
    BY DEF Exact
  <2>1. counted[h][k] = 0
    BY DEF Init
  <2>2. k # NoKey
    BY ConstantsAssumption DEF Buckets, NoKey
  <2>3. \A e \in Elem : hist[h][e].key = NoKey
    BY DEF Init, FreeElem
  <2>4. ElemsOf(h, k) = {}
    BY <2>2, <2>3 DEF ElemsOf
  <2> QED BY <2>1, <2>4 DEF Holds
<1> QED BY <1>1, <1>3, <1>4, <1>5 DEF XInv

LEMMA BucketNumber == ASSUME NEW k \in Buckets PROVE k \in Nat /\ k # NoKey
BY ConstantsAssumption DEF Buckets, NoKey

LEMMA StartProbeXInv ==
  ASSUME XInv, NEW c \in Cpus, NEW hists \in {EntryHists, ExitHists, <<>>},
         StartProbe(c, hists)
  PROVE  XInv'
<1>1. IInv'
  BY StartProbeIInv DEF XInv
<1>2. \A d \in Cpus : pc'[d] \in Counting => pc'[d] = pc[d] /\ todo'[d] = todo[d]
  BY DEF StartProbe, Goto, Proceed, Counting, XInv, IInv, TypeOK
<1>3. UNCHANGED <<hist, bucket, ptr, reg, val, overlap, counted, fresh>>
  BY DEF StartProbe
<1> QED BY <1>1, <1>2, <1>3, QuietStep DEF XInv, GhostType

LEMMA ResetStampXInv ==
  ASSUME XInv, NEW c \in Cpus, ResetStamp(c)
  PROVE  XInv'
<1>1. IInv'
  BY ResetStampIInv DEF XInv
<1>2. \A d \in Cpus : pc'[d] \in Counting => pc'[d] = pc[d] /\ todo'[d] = todo[d]
  BY DEF ResetStamp, Goto, Proceed, Counting, XInv, IInv, TypeOK
<1>3. UNCHANGED <<hist, bucket, ptr, reg, val, overlap, counted, fresh>>
  BY DEF ResetStamp, history
<1> QED BY <1>1, <1>2, <1>3, QuietStep DEF XInv, GhostType

LEMMA ResetMapsXInv ==
  ASSUME XInv, ResetMaps
  PROVE  XInv'
<1>1. IInv'
  BY ResetMapsIInv DEF XInv
<1>2. UNCHANGED <<hist, bucket, ptr, reg, val, overlap, counted, pc, todo>>
  BY DEF ResetMaps
<1>3. fresh' \in [Hists -> [Buckets -> Nat]]
  BY DEF ResetMaps
<1> QED BY <1>1, <1>2, <1>3, QuietStep

(* Another handler in the histogram: then the two have met.                *)
LEMMA OthersIn ==
  ASSUME NEW c \in Cpus, NEW h, Others(c, h) = {}, NEW d \in Cpus, InHist(d, h)
  PROVE  d = c
BY DEF Others, InHist

LEMMA LookupXInv ==
  ASSUME XInv, NEW c \in Cpus, NEW v \in Values, Lookup(c, v)
  PROVE  XInv'
<1> DEFINE g == Head(todo[c])
           es == ElemsOf(g, BucketOf(g, v))
<1>1. IInv'
  BY LookupIInv DEF XInv
<1>2. /\ pc[c] = "next"
      /\ bucket' = [bucket EXCEPT ![c] = BucketOf(g, v)]
      /\ val' = [val EXCEPT ![c] = v]
      /\ ptr' = [ptr EXCEPT ![c] = IF es # {} THEN CHOOSE e \in es : TRUE ELSE ptr[c]]
      /\ pc' = [pc EXCEPT ![c] = IF es # {} THEN "load" ELSE "insert"]
      /\ overlap' = IF Others(c, g) # {} THEN overlap \union {g} ELSE overlap
      /\ UNCHANGED <<hist, todo, reg, counted, fresh>>
  BY DEF Lookup, Goto
<1>3. es # {} => (CHOOSE e \in es : TRUE) \in es
  OBVIOUS
<1>4. \A h, k : ElemsOf(h, k)' = ElemsOf(h, k)
  BY <1>2 DEF ElemsOf
<1>5. \A d \in Cpus \ {c} :
        /\ bucket'[d] = bucket[d] /\ ptr'[d] = ptr[d] /\ reg'[d] = reg[d]
        /\ pc'[d] = pc[d] /\ todo'[d] = todo[d]
  BY <1>2 DEF XInv, IInv, TypeOK
<1>50. bucket'[c] = BucketOf(g, v) /\ pc'[c] = IF es # {} THEN "load" ELSE "insert"
  BY <1>2 DEF XInv, IInv, TypeOK
<1>51. es # {} => ptr'[c] \in es
  BY <1>2, <1>3 DEF XInv, IInv, TypeOK
<1>52. DOMAIN val' = DOMAIN val /\ \A d \in Cpus \ {c} : val'[d] = val[d]
  BY <1>2
<1>53. todo'[c] = todo[c]
  BY <1>2
<1> HIDE DEF es
<1>6. \A d \in Cpus \ {c} : \A h : InHist(d, h)' <=> InHist(d, h)
  BY <1>5 DEF InHist
<1>7. \A h : InHist(c, h)' => h = g
  BY <1>53 DEF InHist
<1> HIDE DEF g
<1>70. overlap \subseteq overlap'
  BY <1>2
<1>8. ValueKept'
  <2> SUFFICES ASSUME NEW d \in Cpus, NEW h \in Hists, InHist(d, h)'
               PROVE  val'[d] \in Values /\ bucket'[d] = BucketOf(h, val'[d])
    BY DEF ValueKept
  <2>1. CASE d = c
    <3>0. val'[c] = v
      BY <1>2 DEF XInv, GhostType
    <3> QED BY <2>1, <3>0, <1>7, <1>50
  <2>2. CASE d # c
    BY <2>2, <1>5, <1>52, <1>6 DEF XInv, ValueKept
  <2> QED BY <2>1, <2>2
<1>9. Apart'
  <2> SUFFICES ASSUME NEW h \in Hists \ overlap', NEW d \in Cpus, NEW f \in Cpus,
                      InHist(d, h)', InHist(f, h)'
               PROVE  d = f
    BY DEF Apart
  <2>1. ASSUME NEW x \in Cpus, x # c, InHist(x, h)', h = g PROVE FALSE
    <3>1. InHist(x, h)
      BY <2>1, <1>6
    <3>2. Others(c, g) = {}
      BY <1>2, <2>1
    <3> QED BY <2>1, <3>1, <3>2, OthersIn
  <2>2. CASE d # c /\ f # c
    BY <2>2, <1>6, <1>70 DEF XInv, Apart
  <2> QED BY <2>1, <2>2, <1>7
<1>10. Undisturbed'
  <2> SUFFICES ASSUME NEW h \in Hists \ overlap', NEW d \in Cpus, InHist(d, h)'
               PROVE  /\ pc'[d] \in {"load", "store"} => ptr'[d] \in ElemsOf(h, bucket'[d])
                      /\ pc'[d] = "store" => reg'[d] = hist[h][ptr'[d]].count
                      /\ pc'[d] = "insert" => ElemsOf(h, bucket'[d]) = {}
    BY <1>2, <1>4 DEF Undisturbed
  <2>1. CASE d = c
    BY <2>1, <1>7, <1>50, <1>51 DEF es
  <2>2. CASE d # c
    <3>1. h \in Hists \ overlap /\ InHist(d, h)
      BY <2>2, <1>6, <1>70
    <3> QED BY <2>2, <3>1, <1>5 DEF XInv, Undisturbed
  <2> QED BY <2>1, <2>2
<1>11. Exact'
  BY <1>2, <1>4, <1>70 DEF XInv, Exact, Holds
<1>12. GhostType'
  BY <1>2, ConstantsAssumption DEF XInv, GhostType
<1> QED BY <1>1, <1>8, <1>9, <1>10, <1>11, <1>12 DEF XInv

LEMMA LoadXInv ==
  ASSUME XInv, NEW c \in Cpus, Load(c)
  PROVE  XInv'
<1> DEFINE g == Head(todo[c])
<1>1. IInv'
  BY LoadIInv DEF XInv
<1>2. /\ pc[c] = "load"
      /\ reg' = [reg EXCEPT ![c] = hist[g][ptr[c]].count]
      /\ pc' = [pc EXCEPT ![c] = "store"]
      /\ UNCHANGED <<hist, todo, bucket, ptr, counted, fresh, val, overlap>>
  BY DEF Load, Goto, history
<1>3. reg'[c] = hist[g][ptr[c]].count /\ pc'[c] = "store"
  BY <1>2 DEF XInv, IInv, TypeOK
<1>4. \A d \in Cpus \ {c} : reg'[d] = reg[d] /\ pc'[d] = pc[d]
  BY <1>2 DEF XInv, IInv, TypeOK
<1>5. \A d \in Cpus : \A h : InHist(d, h)' <=> InHist(d, h)
  <2> SUFFICES ASSUME NEW d \in Cpus, NEW h PROVE InHist(d, h)' <=> InHist(d, h)
    OBVIOUS
  <2>1. CASE d = c
    BY <2>1, <1>2, <1>3 DEF InHist, Counting
  <2>2. CASE d # c
    BY <2>2, <1>2, <1>4 DEF InHist
  <2> QED BY <2>1, <2>2
<1>6. \A h, k : ElemsOf(h, k)' = ElemsOf(h, k)
  BY <1>2 DEF ElemsOf
<1>7. GhostType' /\ ValueKept' /\ Apart'
  BY <1>2, <1>5 DEF XInv, GhostType, ValueKept, Apart
<1>8. Undisturbed'
  <2> SUFFICES ASSUME NEW h \in Hists \ overlap, NEW d \in Cpus, InHist(d, h)
               PROVE  /\ pc'[d] \in {"load", "store"} => ptr[d] \in ElemsOf(h, bucket[d])
                      /\ pc'[d] = "store" => reg'[d] = hist[h][ptr[d]].count
                      /\ pc'[d] = "insert" => ElemsOf(h, bucket[d]) = {}
    BY <1>2, <1>5, <1>6 DEF Undisturbed
  <2>1. CASE d = c
    <3>1. h = g
      BY <2>1 DEF InHist
    <3>2. ptr[c] \in ElemsOf(h, bucket[c])
      BY <2>1, <1>2 DEF XInv, Undisturbed
    <3> QED BY <2>1, <3>1, <3>2, <1>3
  <2>2. CASE d # c
    BY <2>2, <1>4 DEF XInv, Undisturbed
  <2> QED BY <2>1, <2>2
<1>9. Exact'
  BY <1>2, <1>6 DEF XInv, Exact, Holds
<1> QED BY <1>1, <1>7, <1>8, <1>9 DEF XInv

LEMMA ResetRemoveXInv ==
  ASSUME XInv, NEW c \in Cpus, ResetRemove(c)
  PROVE  XInv'
<1>1. IInv'
  BY ResetRemoveIInv DEF XInv
<1>2. step[c] \in Nat /\ step[c] < ResetRounds
  BY RoundsType DEF XInv, IInv, TypeOK, ResetRemove
<1>20. ResetHist(step[c]) \in Hists /\ ResetBucket(step[c]) \in Nat
  BY <1>2, RoundType
<1>21. PICK g \in Hists : g = ResetHist(step[c])
  BY <1>20
<1>22. PICK b \in Nat : b = ResetBucket(step[c])
  BY <1>20
<1>3. g \in Hists /\ b \in Nat
  OBVIOUS
<1>4. /\ hist' = [hist EXCEPT ![g] = [e \in Elem |->
                 IF hist[g][e].key = b THEN [hist[g][e] EXCEPT !.key = NoKey]
                                       ELSE hist[g][e]]]
      /\ counted' = [counted EXCEPT ![g][b] = 0]
      /\ overlap' = IF Others(c, g) # {} THEN overlap \union {g} ELSE overlap
      /\ pc[c] = "reset"
      /\ UNCHANGED <<pc, todo, bucket, ptr, reg, fresh, val>>
  BY <1>21, <1>22 DEF ResetRemove, XInv, IInv, TypeOK
<1>5. \A h \in Hists \ {g} : hist'[h] = hist[h] /\ counted'[h] = counted[h]
  BY <1>3, <1>4 DEF XInv, IInv, TypeOK, GhostType
<1>6. \A d \in Cpus : \A h : InHist(d, h)' <=> InHist(d, h)
  BY <1>4 DEF InHist
<1>7. overlap \subseteq overlap'
  BY <1>4
<1>8. g \notin overlap' => \A d \in Cpus : ~ InHist(d, g)
  BY <1>4, OthersIn DEF InHist, Counting
<1>9. GhostType'
  <2>1. counted \in [Hists -> [Buckets -> Nat]]
    BY DEF XInv, GhostType
  <2>2. counted' = [counted EXCEPT ![g] = [counted[g] EXCEPT ![b] = 0]]
    BY <1>4
  <2>3. [counted[g] EXCEPT ![b] = 0] \in [Buckets -> Nat]
    BY <1>3, <2>1
  <2>4. counted' \in [Hists -> [Buckets -> Nat]]
    BY <1>3, <2>1, <2>2, <2>3
  <2> QED BY <1>4, <2>4 DEF XInv, GhostType
<1>10. ValueKept' /\ Apart'
  BY <1>4, <1>6, <1>7 DEF XInv, ValueKept, Apart
<1>11. Undisturbed'
  <2> SUFFICES ASSUME NEW h \in Hists \ overlap', NEW d \in Cpus, InHist(d, h)'
               PROVE  (/\ pc[d] \in {"load", "store"} => ptr[d] \in ElemsOf(h, bucket[d])
                       /\ pc[d] = "store" => reg[d] = hist[h][ptr[d]].count
                       /\ pc[d] = "insert" => ElemsOf(h, bucket[d]) = {})'
    BY DEF Undisturbed
  <2>1. h # g /\ InHist(d, h)
    BY <1>6, <1>8
  <2>2. hist'[h] = hist[h]
    BY <2>1, <1>5
  <2>3. h \in Hists \ overlap
    BY <1>7
  <2> QED BY <1>4, <2>1, <2>2, <2>3 DEF XInv, Undisturbed, ElemsOf
<1>12. Exact'
  <2> SUFFICES ASSUME NEW h \in Hists \ overlap', NEW k \in Buckets
               PROVE  Holds(h, k, counted[h][k])'
    BY DEF Exact
  <2>0. Holds(h, k, counted[h][k])
    BY <1>7 DEF XInv, Exact
  <2>1. CASE h # g
    <3>1. hist'[h] = hist[h] /\ counted'[h] = counted[h]
      BY <2>1, <1>5
    <3> QED BY <2>0, <3>1, SameElems DEF Holds, ElemsOf
  <2>2. CASE h = g
    <3>0. \A e \in Elem : hist[g][e] \in Slot
      BY <1>3, HistType DEF XInv, IInv
    <3>1. \A e \in Elem : hist'[g][e] = IF hist[g][e].key = b
                                        THEN [hist[g][e] EXCEPT !.key = NoKey] ELSE hist[g][e]
      BY <1>3, <1>4 DEF XInv, IInv, TypeOK
    <3>2. \A e \in Elem : /\ hist'[g][e].count = hist[g][e].count
                          /\ hist'[g][e].key = IF hist[g][e].key = b THEN NoKey ELSE hist[g][e].key
      BY <3>0, <3>1 DEF Slot
    <3>3. k # NoKey
      BY BucketNumber
    <3>4. CASE k = b
      <4>1. ElemsOf(g, k)' = {}
        BY <3>2, <3>3, <3>4 DEF ElemsOf
      <4>2. counted'[g][k] = 0
        BY <1>3, <1>4, <3>4 DEF XInv, GhostType
      <4> QED BY <2>2, <4>1, <4>2 DEF Holds
    <3>5. CASE k # b
      <4>1. ElemsOf(g, k)' = ElemsOf(g, k)
        BY <3>2, <3>3, <3>5 DEF ElemsOf
      <4>2. counted'[g][k] = counted[g][k]
        BY <1>3, <1>4, <3>5 DEF XInv, GhostType
      <4> QED BY <2>0, <2>2, <4>1, <4>2, <3>2 DEF Holds
    <3> QED BY <3>4, <3>5
  <2> QED BY <2>1, <2>2
<1> QED BY <1>1, <1>9, <1>10, <1>11, <1>12 DEF XInv

(* What a count adds to the history: one in the bucket of the value.       *)
LEMMA OneMoreRight ==
  ASSUME NEW f \in [Hists -> [Buckets -> Nat]], NEW h \in Hists, NEW v \in Values
  PROVE  /\ OneMore(f, h, v) \in [Hists -> [Buckets -> Nat]]
         /\ \A g \in Hists \ {h} : OneMore(f, h, v)[g] = f[g]
         /\ \A k \in Buckets : OneMore(f, h, v)[h][k] =
                                IF k = BucketOf(h, v) THEN f[h][k] + 1 ELSE f[h][k]
<1> DEFINE new == [k \in Buckets |-> IF Belongs(h, k, v) THEN f[h][k] + 1 ELSE f[h][k]]
<1>1. OneMore(f, h, v) = [f EXCEPT ![h] = new]
  BY DEF OneMore
<1>2. new \in [Buckets -> Nat]
  OBVIOUS
<1>3. \A k \in Buckets : new[k] = IF k = BucketOf(h, v) THEN f[h][k] + 1 ELSE f[h][k]
  BY BucketRight
<1> HIDE DEF new
<1> QED BY <1>1, <1>2, <1>3

(* The end of hist_increment in histogram g.                               *)
LEMMA LeaveXInv ==
  ASSUME XInv, IInv', NEW c \in Cpus, NEW g \in Hists, InHist(c, g), Leave(c),
         counted' \in [Hists -> [Buckets -> Nat]], fresh' \in [Hists -> [Buckets -> Nat]],
         \A h \in Hists \ {g} : hist'[h] = hist[h] /\ counted'[h] = counted[h],
         g \notin overlap => \A k \in Buckets : Holds(g, k, counted[g][k])'
  PROVE  XInv'
<1>1. /\ overlap' = overlap
      /\ bucket' = [bucket EXCEPT ![c] = 0]
      /\ ptr' = [ptr EXCEPT ![c] = 1]
      /\ reg' = [reg EXCEPT ![c] = 0]
      /\ val' = [val EXCEPT ![c] = 0]
      /\ todo' = [todo EXCEPT ![c] = Tail(todo[c])]
      /\ pc' = [pc EXCEPT ![c] = IF Tail(todo[c]) = <<>> THEN "idle" ELSE "next"]
  BY DEF Leave, Proceed, Goto
<1>2. \A d \in Cpus \ {c} :
        /\ bucket'[d] = bucket[d] /\ ptr'[d] = ptr[d] /\ reg'[d] = reg[d]
        /\ pc'[d] = pc[d] /\ todo'[d] = todo[d] /\ val'[d] = val[d]
  BY <1>1 DEF XInv, IInv, TypeOK, GhostType
<1>3. pc'[c] \notin Counting
  BY <1>1 DEF XInv, IInv, TypeOK, Counting
<1>4. \A d \in Cpus : \A h : InHist(d, h)' => d # c /\ InHist(d, h)
  BY <1>2, <1>3 DEF InHist
<1>5. GhostType'
  BY <1>1 DEF XInv, GhostType
<1>6. ValueKept'
  BY <1>2, <1>4 DEF XInv, ValueKept
<1>7. Apart'
  BY <1>1, <1>4 DEF XInv, Apart
<1>8. Undisturbed'
  <2> SUFFICES ASSUME NEW h \in Hists \ overlap', NEW d \in Cpus, InHist(d, h)'
               PROVE  (/\ pc[d] \in {"load", "store"} => ptr[d] \in ElemsOf(h, bucket[d])
                       /\ pc[d] = "store" => reg[d] = hist[h][ptr[d]].count
                       /\ pc[d] = "insert" => ElemsOf(h, bucket[d]) = {})'
    BY DEF Undisturbed
  <2>1. d # c /\ InHist(d, h) /\ h \in Hists \ overlap
    BY <1>1, <1>4
  <2>2. h # g
    BY <2>1 DEF XInv, Apart
  <2>3. hist'[h] = hist[h]
    BY <2>2
  <2> QED BY <1>2, <2>1, <2>3 DEF XInv, Undisturbed, ElemsOf
<1>9. Exact'
  <2> SUFFICES ASSUME NEW h \in Hists \ overlap', NEW k \in Buckets
               PROVE  Holds(h, k, counted[h][k])'
    BY DEF Exact
  <2>1. CASE h = g
    BY <1>1, <2>1
  <2>2. CASE h # g
    <3>1. hist'[h] = hist[h] /\ counted'[h] = counted[h] /\ h \in Hists \ overlap
      BY <1>1, <2>2
    <3>2. Holds(h, k, counted[h][k])
      BY <3>1 DEF XInv, Exact
    <3> QED BY <3>1, <3>2 DEF Holds, ElemsOf
  <2> QED BY <2>1, <2>2
<1> QED BY <1>5, <1>6, <1>7, <1>8, <1>9 DEF XInv

LEMMA StoreXInv ==
  ASSUME XInv, NEW c \in Cpus, Store(c)
  PROVE  XInv'
<1>1. IInv'
  BY StoreIInv DEF XInv
<1>2. pc[c] = "store" /\ pc[c] \in Counting /\ Leave(c) /\ Counted(c)
  BY DEF Store, Counting
<1>3. PICK g \in Hists : g = Head(todo[c])
  BY <1>2, HeadType DEF XInv, IInv
<1>4. PICK e \in Elem : e = ptr[c]
  BY DEF XInv, IInv, TypeOK
<1>5. PICK v \in Values : v = val[c] /\ bucket[c] = BucketOf(g, v)
  BY <1>2, <1>3 DEF XInv, ValueKept, InHist
<1>6. reg[c] \in Nat /\ hist \in [Hists -> [Elem -> Slot]]
  BY HistType DEF XInv, IInv, TypeOK
<1>7. hist' = [hist EXCEPT ![g] = [hist[g] EXCEPT ![e] = [hist[g][e] EXCEPT !.count = reg[c] + 1]]]
  BY <1>3, <1>4 DEF Store
<1>8. \A h \in Hists \ {g} : hist'[h] = hist[h]
  BY <1>6, <1>7
<1>9. \A f \in Elem : /\ hist'[g][f].key = hist[g][f].key
                      /\ hist'[g][f].count = IF f = e THEN reg[c] + 1 ELSE hist[g][f].count
  <2> SUFFICES ASSUME NEW f \in Elem
               PROVE  /\ hist'[g][f].key = hist[g][f].key
                      /\ hist'[g][f].count = IF f = e THEN reg[c] + 1 ELSE hist[g][f].count
    OBVIOUS
  <2>1. hist[g][f] \in Slot
    BY <1>6
  <2>2. hist'[g][f] = IF f = e THEN [hist[g][f] EXCEPT !.count = reg[c] + 1] ELSE hist[g][f]
    BY <1>6, <1>7
  <2> QED BY <1>6, <2>1, <2>2 DEF Slot
<1>10. /\ counted' = OneMore(counted, g, v) /\ fresh' = OneMore(fresh, g, v)
       /\ counted \in [Hists -> [Buckets -> Nat]] /\ fresh \in [Hists -> [Buckets -> Nat]]
  BY <1>2, <1>3, <1>5 DEF Counted, XInv, GhostType
<1>11. /\ counted' \in [Hists -> [Buckets -> Nat]] /\ fresh' \in [Hists -> [Buckets -> Nat]]
       /\ \A h \in Hists \ {g} : counted'[h] = counted[h]
       /\ \A k \in Buckets : counted'[g][k] =
                              IF k = BucketOf(g, v) THEN counted[g][k] + 1 ELSE counted[g][k]
  BY <1>10, OneMoreRight
<1>12. ASSUME g \notin overlap, NEW k \in Buckets PROVE Holds(g, k, counted[g][k])'
  <2>1. e \in ElemsOf(g, BucketOf(g, v)) /\ reg[c] = hist[g][e].count
    BY <1>2, <1>3, <1>4, <1>5, <1>12 DEF XInv, Undisturbed, InHist
  <2>2. ElemsOf(g, k)' = ElemsOf(g, k)
    BY <1>9 DEF ElemsOf
  <2>3. Holds(g, k, counted[g][k])
    BY <1>12 DEF XInv, Exact
  <2>4. counted[g][k] \in Nat
    BY <1>10
  <2>5. CASE k = BucketOf(g, v)
    <3>1. e \in ElemsOf(g, k)
      BY <2>1, <2>5
    <3>2. ElemsOf(g, k) = {e} /\ hist[g][e].count = counted[g][k]
      BY <2>3, <3>1 DEF Holds
    <3>3. counted'[g][k] = counted[g][k] + 1 /\ hist'[g][e].count = counted[g][k] + 1
      BY <1>9, <1>11, <2>1, <2>5, <3>2
    <3> QED BY <2>2, <2>4, <3>2, <3>3 DEF Holds
  <2>6. CASE k # BucketOf(g, v)
    <3>1. e \notin ElemsOf(g, k)
      BY <2>1, <2>6 DEF ElemsOf
    <3>2. counted'[g][k] = counted[g][k]
      BY <1>11, <2>6
    <3> QED BY <1>9, <2>2, <2>3, <3>1, <3>2 DEF Holds
  <2> QED BY <2>5, <2>6
<1>13. InHist(c, g)
  BY <1>2, <1>3 DEF InHist
<1> QED BY <1>1, <1>2, <1>8, <1>11, <1>12, <1>13, LeaveXInv

LEMMA InsertXInv ==
  ASSUME XInv, NEW c \in Cpus, Insert(c)
  PROVE  XInv'
<1>1. IInv'
  BY InsertIInv DEF XInv
<1>2. pc[c] = "insert" /\ pc[c] \in Counting /\ Leave(c)
  BY DEF Insert, Counting
<1>3. PICK g \in Hists : g = Head(todo[c])
  BY <1>2, HeadType DEF XInv, IInv
<1>5. PICK v \in Values : v = val[c] /\ bucket[c] = BucketOf(g, v)
  BY <1>2, <1>3 DEF XInv, ValueKept, InHist
<1>6. PICK b \in Nat : b = bucket[c]
  BY DEF XInv, IInv, TypeOK
<1>7. InHist(c, g)
  BY <1>2, <1>3 DEF InHist
<1>8. counted \in [Hists -> [Buckets -> Nat]] /\ fresh \in [Hists -> [Buckets -> Nat]]
  BY DEF XInv, GhostType
<1>9. CASE UNCHANGED <<hist, stored, counted, fresh>>
  <2>1. ASSUME g \notin overlap, NEW k \in Buckets PROVE Holds(g, k, counted[g][k])'
    <3>1. Holds(g, k, counted[g][k])
      BY <2>1 DEF XInv, Exact
    <3> QED BY <1>9, <3>1 DEF Holds, ElemsOf
  <2> QED BY <1>1, <1>2, <1>7, <1>8, <1>9, <2>1, LeaveXInv
<1>10. ASSUME NEW new \in ElemsOf(g, NoKey), Counted(c),
              hist' = [hist EXCEPT ![g] = [e \in Elem |->
                  IF e = new THEN [key |-> b, count |-> 1]
                  ELSE IF hist[g][e].key = b THEN [hist[g][e] EXCEPT !.key = NoKey]
                                             ELSE hist[g][e]]]
       PROVE  XInv'
  <2>0. new \in Elem /\ hist[g][new].key = NoKey
    BY DEF ElemsOf
  <2>1. hist \in [Hists -> [Elem -> Slot]]
    BY HistType DEF XInv, IInv
  <2>2. \A h \in Hists \ {g} : hist'[h] = hist[h]
    BY <1>10, <2>1
  <2>3. /\ counted' = OneMore(counted, g, v) /\ fresh' = OneMore(fresh, g, v)
    BY <1>10, <1>3, <1>5 DEF Counted
  <2>4. /\ counted' \in [Hists -> [Buckets -> Nat]] /\ fresh' \in [Hists -> [Buckets -> Nat]]
        /\ \A h \in Hists \ {g} : counted'[h] = counted[h]
        /\ \A k \in Buckets : counted'[g][k] =
                               IF k = BucketOf(g, v) THEN counted[g][k] + 1 ELSE counted[g][k]
    BY <1>8, <2>3, OneMoreRight
  <2>5. ASSUME g \notin overlap, NEW k \in Buckets PROVE Holds(g, k, counted[g][k])'
    <3>1. ElemsOf(g, b) = {}
      BY <1>2, <1>3, <1>6, <1>7, <2>5 DEF XInv, Undisturbed
    <3>2. \A e \in Elem : hist'[g][e] = IF e = new THEN [key |-> b, count |-> 1] ELSE hist[g][e]
      BY <1>10, <2>1, <3>1 DEF ElemsOf
    <3>3. Holds(g, k, counted[g][k])
      BY <2>5 DEF XInv, Exact
    <3>4. k # NoKey /\ b = BucketOf(g, v)
      BY BucketNumber, <1>5, <1>6
    <3>5. CASE k = b
      <4>1. ElemsOf(g, k)' = {new}
        BY <2>0, <3>1, <3>2, <3>5 DEF ElemsOf
      <4>2. counted[g][k] = 0
        BY <3>1, <3>3, <3>5 DEF Holds
      <4>3. counted'[g][k] = 1 /\ hist'[g][new].count = 1
        BY <2>0, <2>4, <3>2, <3>4, <3>5, <4>2
      <4> QED BY <2>0, <4>1, <4>3 DEF Holds
    <3>6. CASE k # b
      <4>1. ElemsOf(g, k)' = ElemsOf(g, k) /\ new \notin ElemsOf(g, k)
        <5>1. \A e \in Elem : hist'[g][e].key = k <=> hist[g][e].key = k
          BY <2>0, <3>2, <3>4, <3>6
        <5> QED BY <2>0, <3>4, <5>1 DEF ElemsOf
      <4>2. counted'[g][k] = counted[g][k]
        BY <2>4, <3>4, <3>6
      <4> QED BY <3>2, <3>3, <4>1, <4>2 DEF Holds
    <3> QED BY <3>5, <3>6
  <2> QED BY <1>1, <1>2, <1>7, <2>2, <2>4, <2>5, LeaveXInv
<1>11. \/ UNCHANGED <<hist, stored, counted, fresh>>
       \/ \E new \in ElemsOf(g, NoKey) :
            /\ hist' = [hist EXCEPT ![g] = [e \in Elem |->
                  IF e = new THEN [key |-> b, count |-> 1]
                  ELSE IF hist[g][e].key = b THEN [hist[g][e] EXCEPT !.key = NoKey]
                                             ELSE hist[g][e]]]
            /\ Counted(c)
  BY <1>3, <1>6 DEF Insert, XInv, IInv, TypeOK
<1> QED BY <1>9, <1>10, <1>11

LEMMA NextXInv == XInv /\ [Next]_vars => XInv'
<1> SUFFICES ASSUME XInv, [Next]_vars PROVE XInv'
  OBVIOUS
<1>1. CASE UNCHANGED vars
  <2>1. IInv'
    BY <1>1, NextIInv DEF XInv
  <2>2. UNCHANGED <<hist, bucket, ptr, reg, val, overlap, counted, fresh, pc, todo>>
    BY <1>1 DEF vars, history
  <2> QED BY <2>1, <2>2, QuietStep DEF XInv, GhostType
<1>2. ASSUME NEW c \in Cpus, ProbeStep(c) PROVE XInv'
  BY <1>2, StartProbeXInv, ResetRemoveXInv, ResetStampXInv, LookupXInv, LoadXInv, StoreXInv,
     InsertXInv DEF ProbeStep
<1>3. CASE ResetMaps
  BY <1>3, ResetMapsXInv
<1> QED
  BY <1>1, <1>2, <1>3 DEF Next

LEMMA SpecXInv == Spec => []XInv
BY InitXInv, NextXInv, PTL DEF Spec

(* Whatever the handlers do elsewhere, a histogram on which no two of them *)
(* met holds the values measured since each bucket was removed, each under *)
(* the number that vfslatency-profiler.py prints for it (the value, 0, or  *)
(* the least printed power of two above it): hist_increment and            *)
(* log2_bucket for every width, number of CPUs and map size.               *)
THEOREM ExactWithoutRaces == Spec => []Exact
<1>1. XInv => Exact
  BY DEF XInv
<1> QED BY <1>1, SpecXInv, PTL

-----------------------------------------------------------------------------
(* Division with a remainder is unique.                                    *)
LEMMA DivMod ==
  ASSUME NEW l \in Nat, NEW k \in Nat, NEW j \in 0 .. (l - 1)
  PROVE  (k * l + j) \div l = k /\ (k * l + j) % l = j
<1> DEFINE n == k * l + j
           q == n \div l
           r == n % l
<1>1. n \in Nat /\ q \in Nat /\ r \in 0 .. (l - 1) /\ n = l * q + r
  <2>1. k * l \in Nat
    OBVIOUS
  <2>2. n \in Nat /\ l > 0
    BY <2>1
  <2> HIDE DEF n
  <2> QED BY <2>2
<1> HIDE DEF q, r
<1>2. k * l + j = q * l + r
  BY <1>1 DEF n
<1>3. ASSUME NEW a \in Nat, NEW d \in Nat, NEW x \in 0 .. (l - 1), NEW y \in 0 .. (l - 1),
             a * l + x = d * l + y
      PROVE  ~ (a < d)
  <2> SUFFICES ASSUME a < d PROVE FALSE
    OBVIOUS
  <2>1. PICK m \in Nat : d = a + 1 + m
    <3>1. d - a - 1 \in Nat /\ d = a + 1 + (d - a - 1)
      OBVIOUS
    <3> QED BY <3>1
  <2>2. d * l = a * l + l + m * l
    BY <2>1
  <2>3. m * l \in Nat /\ a * l \in Nat
    OBVIOUS
  <2> QED BY <1>3, <2>2, <2>3
<1>4. k = q
  <2>1. ~ (k < q) /\ ~ (q < k)
    BY <1>1, <1>2, <1>3
  <2> QED BY <1>1, <2>1
<1>5. j = r
  <2>1. k * l \in Nat
    OBVIOUS
  <2> QED BY <1>1, <1>2, <1>4, <2>1
<1> QED BY <1>4, <1>5 DEF q, r

(* The reset loop removes every bucket but the last of every histogram ... *)
LEMMA EveryRound ==
  ASSUME NEW h \in Hists, NEW k \in 0 .. (Bits - 1)
  PROVE  \E n \in 0 .. (ResetRounds - 1) : ResetHist(n) = h /\ ResetBucket(n) = k
<1>1. Len(ResetHists) \in Nat /\ Bits \in Nat /\ DOMAIN ResetHists = 1 .. Len(ResetHists)
  BY ConstantsAssumption
<1>2. PICK i \in 1 .. Len(ResetHists) : h = ResetHists[i]
  BY <1>1 DEF Hists
<1>3. PICK l \in Nat : l = Len(ResetHists)
  BY <1>1
<1>4. PICK j \in 0 .. (l - 1) : j = i - 1
  BY <1>2, <1>3
<1> DEFINE n == k * l + j
<1>5. n \div l = k /\ n % l = j
  BY <1>1, DivMod
<1>6. n \in 0 .. (ResetRounds - 1)
  <2>1. PICK m \in Nat : Bits = k + 1 + m
    <3>1. Bits - k - 1 \in Nat /\ Bits = k + 1 + (Bits - k - 1)
      BY <1>1
    <3> QED BY <3>1
  <2>2. Bits * l = k * l + l + m * l
    BY <1>1, <2>1
  <2>3. m * l \in Nat /\ k * l \in Nat
    BY <1>1
  <2> QED BY <1>1, <1>3, <2>2, <2>3 DEF ResetRounds
<1> HIDE DEF n
<1>7. ResetHist(n) = h /\ ResetBucket(n) = k
  BY <1>2, <1>3, <1>4, <1>5 DEF ResetHist, ResetBucket
<1> QED BY <1>6, <1>7

(* ... and no other.                                                       *)
LEMMA RoundLabel ==
  ASSUME NEW n \in Nat, n < ResetRounds
  PROVE  ResetHist(n) \in Hists /\ ResetBucket(n) \in Buckets
<1>1. ResetHist(n) \in Hists /\ ResetBucket(n) \in Nat
  BY RoundType
<1>2. PICK l \in Nat : l = Len(ResetHists)
  BY ConstantsAssumption
<1>3. Bits \in Nat /\ n < Bits * l
  BY <1>2, ConstantsAssumption DEF ResetRounds
<1>4. l > 0
  BY <1>3
<1>5. PICK q \in Nat : q = n \div l
  BY <1>1, <1>2 DEF ResetBucket
<1>6. q * l <= n
  <2>1. n = l * (n \div l) + (n % l) /\ (n % l) \in 0 .. (l - 1)
    BY <1>4
  <2> QED BY <1>5, <2>1
<1>7. ASSUME Bits < q PROVE FALSE
  <2>1. PICK m \in Nat : q = Bits + m
    <3>1. q - Bits \in Nat /\ q = Bits + (q - Bits)
      BY <1>3, <1>7
    <3> QED BY <3>1
  <2>2. q * l = Bits * l + m * l
    BY <1>3, <2>1
  <2>3. m * l \in Nat /\ Bits * l \in Nat
    BY <1>3
  <2> QED BY <1>3, <1>6, <2>2, <2>3
<1> QED BY <1>1, <1>2, <1>3, <1>5, <1>7 DEF Buckets, ResetBucket

LEMMA InitRInv == Init => RInv
<1> SUFFICES ASSUME Init PROVE RInv
  OBVIOUS
<1>1. StepsCleared /\ RoundsDone /\ AllRenewed
  BY DEF Init, StepsCleared, RoundsDone, AllRenewed, Stamp
<1>2. Bits \in Buckets
  BY ConstantsAssumption DEF Buckets
<1>3. LastEmpty
  BY <1>2 DEF Init, LastEmpty
<1> QED BY <1>1, <1>3 DEF RInv

(* A step of a handler that is neither a round of a reset nor its end:     *)
(* what was renewed stays so.                                              *)
LEMMA RenewedKept ==
  ASSUME XInv, RInv, UNCHANGED absorbed,
         PROF_CTRL' = Stamp => PROF_CTRL = Stamp,
         \A d \in Cpus : /\ pc'[d] # "reset" => step'[d] = 0
                         /\ pc'[d] = "reset" => step'[d] = step[d]
                         /\ pc'[d] = "reset" => pc[d] = "reset" \/ step[d] = 0,
         \A h \in Hists : counted'[h][Bits] = 0,
         \A h \in Hists : \A k \in Buckets : Renewed(h, k) => Renewed(h, k)'
  PROVE  RInv'
<1>1. StepsCleared' /\ LastEmpty' /\ AllRenewed'
  BY DEF RInv, StepsCleared, LastEmpty, AllRenewed
<1>2. RoundsDone'
  <2> SUFFICES ASSUME ~ absorbed', NEW d \in Cpus, pc'[d] = "reset", NEW n \in 0 .. (step'[d] - 1)
               PROVE  Renewed(ResetHist(n), ResetBucket(n))'
    BY DEF RoundsDone
  <2>1. step'[d] = step[d] /\ step[d] \in 0 .. ResetRounds /\ ResetRounds \in Nat
    BY RoundsType DEF XInv, IInv, TypeOK
  <2>2. n \in Nat /\ n < ResetRounds /\ n \in 0 .. (step[d] - 1)
    BY <2>1
  <2>3. pc[d] = "reset"
    BY <2>1, <2>2
  <2>4. Renewed(ResetHist(n), ResetBucket(n))
    BY <2>2, <2>3 DEF RInv, RoundsDone
  <2>5. ResetHist(n) \in Hists /\ ResetBucket(n) \in Buckets
    BY <2>2, RoundLabel
  <2> QED BY <2>4, <2>5
<1> QED BY <1>1, <1>2 DEF RInv

LEMMA StartProbeRInv ==
  ASSUME XInv, RInv, NEW c \in Cpus, NEW hists \in {EntryHists, ExitHists, <<>>},
         StartProbe(c, hists)
  PROVE  RInv'
<1>1. UNCHANGED <<PROF_CTRL, step, counted, fresh, absorbed>>
  BY DEF StartProbe
<1>2. \A d \in Cpus : pc'[d] = pc[d] \/ d = c
  BY DEF StartProbe, Goto, Proceed, XInv, IInv, TypeOK
<1>3. pc[c] = "idle" /\ step[c] = 0
  BY DEF StartProbe, RInv, StepsCleared
<1>4. \A d \in Cpus : /\ pc'[d] # "reset" => step'[d] = 0
                      /\ pc'[d] = "reset" => pc[d] = "reset" \/ step[d] = 0
  BY <1>1, <1>2, <1>3 DEF RInv, StepsCleared
<1>5. \A h \in Hists : counted'[h][Bits] = 0
  BY <1>1 DEF RInv, LastEmpty
<1>6. \A h \in Hists : \A k \in Buckets : Renewed(h, k) => Renewed(h, k)'
  BY <1>1 DEF Renewed
<1> QED BY <1>1, <1>4, <1>5, <1>6, RenewedKept

(* A step inside hist_increment.                                           *)
LEMMA CountingRInv ==
  ASSUME XInv, RInv, NEW c \in Cpus, pc[c] # "reset", pc'[c] # "reset",
         \A d \in Cpus \ {c} : pc'[d] = pc[d], UNCHANGED <<step, absorbed, PROF_CTRL>>,
         \/ UNCHANGED <<counted, fresh>>
         \/ \E h \in Hists : \E v \in Values :
              counted' = OneMore(counted, h, v) /\ fresh' = OneMore(fresh, h, v)
  PROVE  RInv'
<1>1. \A d \in Cpus : /\ pc'[d] # "reset" => step'[d] = 0
                      /\ pc'[d] = "reset" => pc[d] = "reset" /\ step'[d] = step[d]
  BY DEF RInv, StepsCleared
<1>2. Bits \in Buckets /\ Bits \in Nat
  BY ConstantsAssumption DEF Buckets
<1>3. /\ \A h \in Hists : counted'[h][Bits] = 0
      /\ \A h \in Hists : \A k \in Buckets : Renewed(h, k) => Renewed(h, k)'
  <2>1. CASE UNCHANGED <<counted, fresh>>
    BY <2>1 DEF RInv, LastEmpty, Renewed
  <2>2. ASSUME NEW g \in Hists, NEW v \in Values,
               counted' = OneMore(counted, g, v), fresh' = OneMore(fresh, g, v)
        PROVE  /\ \A h \in Hists : counted'[h][Bits] = 0
               /\ \A h \in Hists : \A k \in Buckets : Renewed(h, k) => Renewed(h, k)'
    <3>1. counted \in [Hists -> [Buckets -> Nat]] /\ fresh \in [Hists -> [Buckets -> Nat]]
      BY DEF XInv, GhostType
    <3>2. BucketOf(g, v) \in Nat /\ BucketOf(g, v) < Bits
      BY BucketType, ValuesAssumption
    <3>31. /\ \A h \in Hists \ {g} : counted'[h] = counted[h]
           /\ \A k \in Buckets :
                counted'[g][k] = IF k = BucketOf(g, v) THEN counted[g][k] + 1 ELSE counted[g][k]
      BY <2>2, <3>1, OneMoreRight
    <3>32. /\ \A h \in Hists \ {g} : fresh'[h] = fresh[h]
           /\ \A k \in Buckets :
                fresh'[g][k] = IF k = BucketOf(g, v) THEN fresh[g][k] + 1 ELSE fresh[g][k]
      BY <2>2, <3>1, OneMoreRight
    <3>3. /\ \A h \in Hists \ {g} : counted'[h] = counted[h] /\ fresh'[h] = fresh[h]
          /\ \A k \in Buckets :
               /\ counted'[g][k] = IF k = BucketOf(g, v) THEN counted[g][k] + 1 ELSE counted[g][k]
               /\ fresh'[g][k] = IF k = BucketOf(g, v) THEN fresh[g][k] + 1 ELSE fresh[g][k]
      BY <3>31, <3>32, Zenon
    <3>4. ASSUME NEW h \in Hists PROVE counted'[h][Bits] = 0
      <4>1. counted[h][Bits] = 0
        BY DEF RInv, LastEmpty
      <4> QED BY <1>2, <3>2, <3>3, <4>1
    <3>5. ASSUME NEW h \in Hists, NEW k \in Buckets, Renewed(h, k) PROVE Renewed(h, k)'
      <4>1. counted[h][k] \in Nat /\ fresh[h][k] \in Nat /\ counted[h][k] <= fresh[h][k]
        BY <3>1, <3>5 DEF Renewed
      <4>2. CASE h = g
        BY <3>3, <4>1, <4>2 DEF Renewed
      <4>3. CASE h # g
        BY <3>3, <4>1, <4>3 DEF Renewed
      <4> QED BY <4>2, <4>3
    <3> QED BY <3>4, <3>5
  <2> QED BY <2>1, <2>2
<1> QED BY <1>1, <1>3, RenewedKept

LEMMA HandlerRInv ==
  ASSUME XInv, RInv, NEW c \in Cpus,
         (\E v \in Values : Lookup(c, v)) \/ Load(c) \/ Store(c) \/ Insert(c)
  PROVE  RInv'
<1>1. CASE (\E v \in Values : Lookup(c, v)) \/ Load(c)
  <2>1. /\ pc[c] # "reset" /\ pc'[c] # "reset" /\ \A d \in Cpus \ {c} : pc'[d] = pc[d]
        /\ UNCHANGED <<step, absorbed, PROF_CTRL, counted, fresh>>
    BY <1>1 DEF Lookup, Load, Goto, history, XInv, IInv, TypeOK
  <2> QED BY <2>1, CountingRInv
<1>2. CASE Store(c) \/ Insert(c)
  <2>1. pc[c] \in Counting /\ Leave(c)
    BY <1>2 DEF Store, Insert, Counting
  <2>2. /\ pc[c] # "reset" /\ pc'[c] # "reset" /\ \A d \in Cpus \ {c} : pc'[d] = pc[d]
        /\ UNCHANGED <<step, absorbed, PROF_CTRL>>
    BY <2>1 DEF Leave, Proceed, Goto, Counting, XInv, IInv, TypeOK
  <2>3. Head(todo[c]) \in Hists
    BY <2>1, HeadType DEF XInv, IInv
  <2>4. val[c] \in Values
    BY <2>1, <2>3 DEF XInv, ValueKept, InHist
  <2>5. UNCHANGED <<counted, fresh>> \/ Counted(c)
    BY <1>2 DEF Store, Insert
  <2>6. \/ UNCHANGED <<counted, fresh>>
        \/ \E h \in Hists : \E v \in Values :
             counted' = OneMore(counted, h, v) /\ fresh' = OneMore(fresh, h, v)
    BY <2>3, <2>4, <2>5 DEF Counted
  <2> QED BY <2>2, <2>6, CountingRInv
<1> QED BY <1>1, <1>2

LEMMA ResetRemoveRInv ==
  ASSUME XInv, RInv, NEW c \in Cpus, ResetRemove(c)
  PROVE  RInv'
<1>1. step[c] \in Nat /\ step[c] < ResetRounds /\ ResetRounds \in Nat
  BY RoundsType DEF XInv, IInv, TypeOK, ResetRemove
<1>2. PICK i \in Nat : i = step[c]
  BY <1>1
<1>3. PICK g \in Hists : g = ResetHist(i)
  BY <1>1, <1>2, RoundLabel
<1>4. PICK b \in Buckets : b = ResetBucket(i)
  BY <1>1, <1>2, RoundLabel
<1>5. /\ counted' = [counted EXCEPT ![g][b] = 0]
      /\ pc[c] = "reset"
      /\ step' = [step EXCEPT ![c] = step[c] + 1]
      /\ UNCHANGED <<PROF_CTRL, pc, fresh, absorbed>>
  BY <1>2, <1>3, <1>4 DEF ResetRemove
<1>6. counted \in [Hists -> [Buckets -> Nat]] /\ fresh \in [Hists -> [Buckets -> Nat]]
  BY DEF XInv, GhostType
<1>7. \A h \in Hists : \A k \in Buckets :
        counted'[h][k] = IF h = g /\ k = b THEN 0 ELSE counted[h][k]
  BY <1>5, <1>6
<1>8. \A h \in Hists : \A k \in Buckets : Renewed(h, k) => Renewed(h, k)'
  BY <1>5, <1>6, <1>7 DEF Renewed
<1>9. Renewed(g, b)'
  BY <1>5, <1>6, <1>7 DEF Renewed
<1>10. Bits \in Buckets
  BY ConstantsAssumption DEF Buckets
<1>11. LastEmpty'
  BY <1>7, <1>10 DEF RInv, LastEmpty
<1>12. AllRenewed'
  BY <1>5, <1>8 DEF RInv, AllRenewed
<1>13. StepsCleared'
  BY <1>5 DEF RInv, StepsCleared, XInv, IInv, TypeOK
<1>14. RoundsDone'
  <2> SUFFICES ASSUME ~ absorbed', NEW d \in Cpus, pc'[d] = "reset", NEW n \in 0 .. (step'[d] - 1)
               PROVE  Renewed(ResetHist(n), ResetBucket(n))'
    BY DEF RoundsDone
  <2>1. step[d] \in 0 .. ResetRounds /\ step'[d] = IF d = c THEN step[d] + 1 ELSE step[d]
    BY <1>5 DEF XInv, IInv, TypeOK
  <2>2. CASE d = c /\ n = i
    BY <2>2, <1>3, <1>4, <1>9
  <2>3. CASE ~ (d = c /\ n = i)
    <3>1. n \in 0 .. (step[d] - 1) /\ n \in Nat /\ n < ResetRounds
      BY <2>1, <2>3, <1>1, <1>2
    <3>2. Renewed(ResetHist(n), ResetBucket(n))
      BY <3>1, <1>5 DEF RInv, RoundsDone
    <3>3. ResetHist(n) \in Hists /\ ResetBucket(n) \in Buckets
      BY <3>1, RoundLabel
    <3> QED BY <3>2, <3>3, <1>8
  <2> QED BY <2>2, <2>3
<1> QED BY <1>11, <1>12, <1>13, <1>14 DEF RInv

LEMMA ResetStampRInv ==
  ASSUME XInv, RInv, NEW c \in Cpus, ResetStamp(c)
  PROVE  RInv'
<1>1. /\ pc[c] = "reset" /\ step[c] >= ResetRounds
      /\ step' = [step EXCEPT ![c] = 0]
      /\ pc' = [pc EXCEPT ![c] = IF todo[c] = <<>> THEN "idle" ELSE "next"]
      /\ UNCHANGED <<counted, fresh, absorbed>>
  BY DEF ResetStamp, Proceed, Goto, history
<1>2. \A h \in Hists : \A k \in Buckets : Renewed(h, k)' <=> Renewed(h, k)
  BY <1>1 DEF Renewed
<1>3. \A d \in Cpus : /\ pc'[d] = "reset" => d # c /\ pc[d] = "reset" /\ step'[d] = step[d]
                      /\ pc'[d] # "reset" => step'[d] = 0
  BY <1>1 DEF XInv, IInv, TypeOK, RInv, StepsCleared
<1>4. StepsCleared' /\ LastEmpty'
  BY <1>1, <1>3 DEF RInv, StepsCleared, LastEmpty
<1>5. RoundsDone'
  <2> SUFFICES ASSUME ~ absorbed', NEW d \in Cpus, pc'[d] = "reset", NEW n \in 0 .. (step'[d] - 1)
               PROVE  Renewed(ResetHist(n), ResetBucket(n))'
    BY DEF RoundsDone
  <2>1. step[d] \in 0 .. ResetRounds /\ ResetRounds \in Nat
    BY RoundsType DEF XInv, IInv, TypeOK
  <2>2. n \in 0 .. (step[d] - 1) /\ n \in Nat /\ n < ResetRounds
    BY <1>3, <2>1
  <2>3. Renewed(ResetHist(n), ResetBucket(n))
    BY <1>1, <1>3, <2>2 DEF RInv, RoundsDone
  <2>4. ResetHist(n) \in Hists /\ ResetBucket(n) \in Buckets
    BY <2>2, RoundLabel
  <2> QED BY <2>3, <2>4, <1>2
<1>6. AllRenewed'
  <2> SUFFICES ASSUME ~ absorbed, NEW h \in Hists, NEW k \in Buckets PROVE Renewed(h, k)
    BY <1>1, <1>2 DEF AllRenewed
  <2>1. CASE k = Bits
    BY <2>1 DEF Renewed, RInv, LastEmpty, XInv, GhostType
  <2>2. CASE k # Bits
    <3>1. k \in 0 .. (Bits - 1)
      BY <2>2, ConstantsAssumption DEF Buckets
    <3>2. PICK n \in 0 .. (ResetRounds - 1) : ResetHist(n) = h /\ ResetBucket(n) = k
      BY <3>1, EveryRound
    <3>3. n \in 0 .. (step[c] - 1)
      BY <1>1, RoundsType DEF XInv, IInv, TypeOK
    <3>4. Renewed(ResetHist(n), ResetBucket(n))
      BY <1>1, <3>3 DEF RInv, RoundsDone
    <3> QED BY <3>2, <3>4
  <2> QED BY <2>1, <2>2
<1> QED BY <1>4, <1>5, <1>6 DEF RInv

(* A request that finds a reset under way is absorbed by it.               *)
LEMMA ResetMapsRInv == ASSUME RInv, ResetMaps PROVE RInv'
<1>1. PROF_CTRL' = 1 /\ UNCHANGED <<pc, step, counted>>
  BY DEF ResetMaps
<1>2. ~ absorbed' => \A c \in Cpus : pc[c] # "reset"
  BY DEF ResetMaps
<1> QED BY <1>1, <1>2 DEF RInv, StepsCleared, LastEmpty, RoundsDone, AllRenewed, Stamp

LEMMA NextRInv == XInv /\ RInv /\ [Next]_vars => RInv'
<1> SUFFICES ASSUME XInv, RInv, [Next]_vars PROVE RInv'
  OBVIOUS
<1>1. CASE UNCHANGED vars
  BY <1>1 DEF vars, history, RInv, StepsCleared, LastEmpty, RoundsDone, AllRenewed, Renewed
<1>2. ASSUME NEW c \in Cpus, ProbeStep(c) PROVE RInv'
  BY <1>2, StartProbeRInv, ResetRemoveRInv, ResetStampRInv, HandlerRInv DEF ProbeStep
<1>3. CASE ResetMaps
  BY <1>3, ResetMapsRInv
<1> QED
  BY <1>1, <1>2, <1>3 DEF Next

(* A reset that has left its time in PROF_CTRL leaves nothing from before  *)
(* it was asked for in a histogram on which no two handlers met            *)
(* (check_prof_reset), however many handlers answered the request and      *)
(* whatever was counted meanwhile, unless another reset absorbed it.       *)
THEOREM ResetLeavesNothing == Spec => []ResetForgets
<1>1. XInv /\ RInv => ResetForgets
  <2> SUFFICES ASSUME XInv, RInv, PROF_CTRL = Stamp, ~ absorbed,
                      NEW h \in Hists \ overlap, NEW k \in Buckets
               PROVE  \E n \in 0 .. fresh[h][k] : Holds(h, k, n)
    BY DEF ResetForgets
  <2>1. Holds(h, k, counted[h][k])
    BY DEF XInv, Exact
  <2>2. counted[h][k] \in Nat /\ fresh[h][k] \in Nat
    BY DEF XInv, GhostType
  <2>3. counted[h][k] <= fresh[h][k]
    BY DEF RInv, AllRenewed, Renewed
  <2>4. counted[h][k] \in 0 .. fresh[h][k]
    BY <2>2, <2>3
  <2> QED BY <2>1, <2>4
<1>2. Init => XInv /\ RInv
  BY InitXInv, InitRInv
<1>3. XInv /\ RInv /\ [Next]_vars => XInv' /\ RInv'
  BY NextXInv, NextRInv
<1> QED BY <1>1, <1>2, <1>3, PTL DEF Spec
=============================================================================
