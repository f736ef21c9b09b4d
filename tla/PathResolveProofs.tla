-------------------------- MODULE PathResolveProofs --------------------------
(***************************************************************************)
(* partial_d_path for every tree of directories and mounts and every size  *)
(* of the scratch buffers: its indices stay inside them (WithinBounds),    *)
(* the fragment is that of the file's path (ResolvedExactly), and renames  *)
(* that race with the walk cannot hide where a file system is mounted      *)
(* (MountedRightly).                                                       *)
(***************************************************************************)
EXTENDS PathResolve, SequenceTheorems, WellFoundedInduction, TLAPS

-----------------------------------------------------------------------------
(* Induction with sets, and functions defined by recursion.                *)

(* A set of natural numbers has a least element.                           *)
LEMMA NatLeast ==
  ASSUME NEW T, T \subseteq Nat, T # {}
  PROVE  \E x \in T : \A y \in T : x <= y
<1> DEFINE R == OpToRel(<, Nat)
<1>1. IsWellFoundedOn(R, Nat)
  BY NatLessThanWellFounded, Zenon
<1>2. \A a, b \in Nat : a < b => <<a, b>> \in R
  BY DEF OpToRel
<1> HIDE DEF R
<1>3. PICK x \in T : \A y \in T : ~ (<<y, x>> \in R)
  BY <1>1, WFMin, Zenon
<1>4. \A y \in T : ~ (y < x)
  BY <1>2, <1>3, Zenon
<1> QED BY <1>4

(* Induction, with a set for the predicate.                                *)
LEMMA NatInd ==
  ASSUME NEW T, 0 \in T, \A n \in Nat : n \in T => n + 1 \in T
  PROVE  \A n \in Nat : n \in T
<1> SUFFICES ASSUME ~ (Nat \subseteq T) PROVE FALSE
  OBVIOUS
<1>1. PICK x \in Nat \ T : \A y \in Nat \ T : x <= y
  <2>1. Nat \ T \subseteq Nat /\ Nat \ T # {}
    OBVIOUS
  <2> QED BY <2>1, NatLeast, Zenon
<1>2. x # 0
  OBVIOUS
<1>3. x - 1 \in Nat /\ x - 1 \in T
  BY <1>1, <1>2
<1>4. (x - 1) + 1 \in T
  BY <1>3
<1> QED BY <1>4

(* Primitive recursion: the first n + 1 values of the function that starts *)
(* with a and goes on with the steps G.                                    *)
Rec(g, n, a, G) == g[0] = a /\ \A i \in 0 .. (n - 1) : g[i + 1] = G[i][g[i]]

(* A recursion has one function at most. *)
LEMMA RecUnique ==
  ASSUME NEW a, NEW G, NEW m \in Nat, NEW n \in 0 .. m, NEW g, NEW h,
         Rec(g, n, a, G), Rec(h, m, a, G)
  PROVE  g[n] = h[n]
<1> DEFINE T == {i \in Nat : i <= n => g[i] = h[i]}
<1>1. 0 \in T
  BY DEF Rec
<1>2. \A i \in Nat : i \in T => i + 1 \in T
  BY DEF Rec
<1> HIDE DEF T
<1>3. n \in T
  BY <1>1, <1>2, NatInd
<1> QED BY <1>3 DEF T

(* A recursion has a function. *)
LEMMA RecExists ==
  ASSUME NEW V, NEW a \in V, NEW G \in [Nat -> [V -> V]], NEW n \in Nat
  PROVE  \E g \in [0 .. n -> V] : Rec(g, n, a, G)
<1> DEFINE T == {k \in Nat : \E g \in [0 .. k -> V] : Rec(g, k, a, G)}
<1>1. 0 \in T
  <2> DEFINE g == [i \in 0 .. 0 |-> a]
  <2>1. g \in [0 .. 0 -> V] /\ Rec(g, 0, a, G)
    BY DEF Rec
  <2> QED BY <2>1
<1>2. ASSUME NEW k \in Nat, k \in T PROVE k + 1 \in T
  <2>1. PICK g \in [0 .. k -> V] : Rec(g, k, a, G)
    BY <1>2
  <2> DEFINE h == [i \in 0 .. (k + 1) |-> IF i <= k THEN g[i] ELSE G[k][g[k]]]
  <2>2. G[k][g[k]] \in V
    BY <2>1
  <2>3. h \in [0 .. (k + 1) -> V]
    BY <2>2
  <2>4. Rec(h, k + 1, a, G)
    <3>1. h[0] = a
      BY <2>1 DEF Rec
    <3>2. ASSUME NEW i \in 0 .. ((k + 1) - 1) PROVE h[i + 1] = G[i][h[i]]
      <4>1. CASE i = k
        BY <4>1
      <4>2. CASE i # k
        <5>1. i \in 0 .. (k - 1) /\ i + 1 \in 0 .. k
          BY <4>2
        <5>2. g[i + 1] = G[i][g[i]]
          BY <5>1, <2>1 DEF Rec
        <5> QED BY <5>1, <5>2
      <4> QED BY <4>1, <4>2
    <3> QED BY <3>1, <3>2 DEF Rec
  <2> QED BY <2>3, <2>4
<1> HIDE DEF T
<1>3. n \in T
  BY <1>1, <1>2, NatInd
<1> QED BY <1>3 DEF T

Steps(G, V) == G \in [Nat -> [V -> V]]
Runs(f, V, a, G) ==
  f \in [Nat -> V] /\ f[0] = a /\ \A n \in Nat : f[n + 1] = G[n][f[n]]

(* There is a function that takes the steps. *)
LEMMA PrimRec ==
  ASSUME NEW V, NEW a, NEW G, a \in V, Steps(G, V)
  PROVE  \E f : Runs(f, V, a, G)
<1> DEFINE F(n) == CHOOSE g \in [0 .. n -> V] : Rec(g, n, a, G)
           f == [n \in Nat |-> F(n)[n]]
<1>1. \A n \in Nat : F(n) \in [0 .. n -> V] /\ Rec(F(n), n, a, G)
  <2>1. a \in V /\ G \in [Nat -> [V -> V]]
    BY DEF Steps
  <2> QED BY <2>1, RecExists, Zenon
<1> HIDE DEF F
<1>2. f \in [Nat -> V]
  BY <1>1
<1>3. f[0] = a
  BY <1>1 DEF Rec
<1>4. ASSUME NEW n \in Nat PROVE f[n + 1] = G[n][f[n]]
  <2>1. Rec(F(n), n, a, G) /\ Rec(F(n + 1), n + 1, a, G)
    BY <1>1
  <2>2. n \in 0 .. (n + 1) /\ n + 1 \in Nat
    OBVIOUS
  <2>3. F(n)[n] = F(n + 1)[n]
    <3> DEFINE g == F(n)
               h == F(n + 1)
               m == n + 1
    <3>1. m \in Nat /\ n \in 0 .. m /\ Rec(g, n, a, G) /\ Rec(h, m, a, G)
      BY <2>1, <2>2
    <3> HIDE DEF g, h, m
    <3>2. g[n] = h[n]
      BY <3>1, RecUnique
    <3> QED BY <3>2 DEF g, h
  <2>4. F(n + 1)[n + 1] = G[n][F(n + 1)[n]]
    BY <2>1 DEF Rec
  <2> QED BY <2>3, <2>4
<1> QED BY <1>2, <1>3, <1>4 DEF Runs

(* A path is the sequence of its components' names.                        *)
Paths == Seq(Seq(STRING))

(* One step up is a position. *)
LEMMA UpType ==
  ASSUME NEW par \in [Dentries -> Dentries], NEW p \in Positions
  PROVE  Up(par, p) \in Positions /\ p[2] \in Dentries /\ p[1] \in Mounts
BY ConstantsAssumption DEF Up, Positions

PathStep(rt, par, nm, f) ==
  [n \in Nat |->
     [p \in Positions |->
        IF n = 0 \/ Ends(rt, par, p) THEN <<>>
        ELSE IF Crosses(p) THEN f[n - 1][Up(par, p)]
        ELSE Append(f[n - 1][Up(par, p)], nm[p[2]])]]

(* The reference takes its steps: the components of a path. *)
LEMMA ComponentsSteps ==
  ASSUME NEW rt, NEW par \in [Dentries -> Dentries], NEW nm \in [Dentries -> Seq(STRING)]
  PROVE  Components(rt, par, nm) = PathStep(rt, par, nm, Components(rt, par, nm))
<1> DEFINE V == [Positions -> Paths]
           a == [p \in Positions |-> <<>>]
           G == [n \in Nat |-> [g \in V |-> [p \in Positions |->
                  IF Ends(rt, par, p) THEN <<>>
                  ELSE IF Crosses(p) THEN g[Up(par, p)]
                  ELSE Append(g[Up(par, p)], nm[p[2]])]]]
           Step(f) == PathStep(rt, par, nm, f)
<1>1. a \in V
  BY DEF Paths
<1>2. ASSUME NEW g \in V, NEW p \in Positions
      PROVE  (IF Ends(rt, par, p) THEN <<>>
              ELSE IF Crosses(p) THEN g[Up(par, p)]
              ELSE Append(g[Up(par, p)], nm[p[2]])) \in Paths
  <2>1. g[Up(par, p)] \in Paths /\ nm[p[2]] \in Seq(STRING)
    BY UpType
  <2>2. Append(g[Up(par, p)], nm[p[2]]) \in Paths /\ <<>> \in Paths
    BY <2>1, AppendProperties DEF Paths
  <2> QED BY <2>1, <2>2
<1>3. Steps(G, V)
  BY <1>2 DEF Steps
<1> HIDE DEF V, a, G
<1>4. PICK f : Runs(f, V, a, G)
  BY <1>1, <1>3, PrimRec, Zenon
<1>5. f = Step(f)
  <2>1. ASSUME NEW n \in Nat PROVE f[n] = Step(f)[n]
    <3> USE DEF PathStep
    <3>1. CASE n = 0
      BY <3>1, <1>4 DEF a, Runs
    <3>2. CASE n # 0
      <4>1. n - 1 \in Nat /\ (n - 1) + 1 = n
        BY <3>2
      <4>2. f[n] = G[n - 1][f[n - 1]]
        BY <4>1, <1>4 DEF Runs
      <4>3. f[n - 1] \in V
        BY <4>1, <1>4 DEF Runs
      <4> QED BY <3>2, <4>1, <4>2, <4>3 DEF G
    <3> QED BY <3>1, <3>2
  <2>2. f \in [Nat -> V]
    BY <1>4 DEF Runs
  <2> HIDE DEF Step
  <2>3. DOMAIN Step(f) = Nat /\ f = [n \in Nat |-> f[n]] /\ Step(f) = [n \in Nat |-> Step(f)[n]]
    BY <2>2 DEF Step, PathStep
  <2> QED BY <2>1, <2>3
<1> HIDE DEF Step
<1>6. Components(rt, par, nm) = CHOOSE g : g = Step(g)
  BY DEF Components, Step, PathStep
<1>7. Components(rt, par, nm) = Step(Components(rt, par, nm))
  BY <1>5, <1>6
<1> QED BY <1>7 DEF Step

ReachStep(rt, par, f) ==
  [n \in Nat |-> [p \in Positions |->
     n > 0 /\ (Ends(rt, par, p) \/ f[n - 1][Up(par, p)])]]

(* The same for whether a walk gets to the root. *)
LEMMA ReachesSteps ==
  ASSUME NEW rt, NEW par \in [Dentries -> Dentries]
  PROVE  Reaches(rt, par) = ReachStep(rt, par, Reaches(rt, par))
<1> DEFINE V == [Positions -> BOOLEAN]
           a == [p \in Positions |-> FALSE]
           G == [n \in Nat |-> [g \in V |-> [p \in Positions |->
                  Ends(rt, par, p) \/ g[Up(par, p)]]]]
           Step(f) == ReachStep(rt, par, f)
<1>1. a \in V
  OBVIOUS
<1>3. Steps(G, V)
  <2>1. \A p \in Positions : Ends(rt, par, p) \in BOOLEAN
    BY DEF Ends
  <2>2. \A g \in V : [p \in Positions |-> Ends(rt, par, p) \/ g[Up(par, p)]] \in V
    BY <2>1
  <2> QED BY <2>2 DEF Steps
<1> HIDE DEF V, a, G
<1>4. PICK f : Runs(f, V, a, G)
  BY <1>1, <1>3, PrimRec, Zenon
<1>5. f = Step(f)
  <2>1. ASSUME NEW n \in Nat PROVE f[n] = Step(f)[n]
    <3> USE DEF ReachStep
    <3>1. CASE n = 0
      <4>1. f[n] = [p \in Positions |-> FALSE] /\ ~ (n > 0)
        BY <3>1, <1>4 DEF a, Runs
      <4>2. [p \in Positions |-> FALSE]
            = [p \in Positions |-> n > 0 /\ (Ends(rt, par, p) \/ f[n - 1][Up(par, p)])]
        BY <4>1
      <4> QED BY <4>1, <4>2
    <3>2. CASE n # 0
      <4>1. n - 1 \in Nat /\ (n - 1) + 1 = n /\ n > 0
        BY <3>2
      <4>2. f[n] = G[n - 1][f[n - 1]]
        BY <4>1, <1>4 DEF Runs
      <4>3. f[n - 1] \in V
        BY <4>1, <1>4 DEF Runs
      <4>4. f[n] = [p \in Positions |-> Ends(rt, par, p) \/ f[n - 1][Up(par, p)]]
        BY <4>1, <4>2, <4>3 DEF G
      <4>5. [p \in Positions |-> Ends(rt, par, p) \/ f[n - 1][Up(par, p)]]
            = [p \in Positions |-> n > 0 /\ (Ends(rt, par, p) \/ f[n - 1][Up(par, p)])]
        BY <4>1
      <4> QED BY <4>4, <4>5
    <3> QED BY <3>1, <3>2
  <2>2. f \in [Nat -> V]
    BY <1>4 DEF Runs
  <2> HIDE DEF Step
  <2>3. DOMAIN Step(f) = Nat /\ f = [n \in Nat |-> f[n]] /\ Step(f) = [n \in Nat |-> Step(f)[n]]
    BY <2>2 DEF Step, ReachStep
  <2> QED BY <2>1, <2>3
<1> HIDE DEF Step
<1>6. Reaches(rt, par) = CHOOSE g : g = Step(g)
  BY DEF Reaches, Step, ReachStep
<1>7. Reaches(rt, par) = Step(Reaches(rt, par))
  BY <1>5, <1>6
<1> QED BY <1>7 DEF Step

-----------------------------------------------------------------------------
(* Paths by their steps.                                                   *)

(* The trees of this module: parents and names of the dentries. *)
Tree(par, nm) == par \in [Dentries -> Dentries] /\ nm \in [Dentries -> Seq(STRING)]

(* The path from p in no step, and in one step more. *)
PathSucc(rt, par, nm, f, n, p) ==
  /\ Ends(rt, par, p) => f[n + 1][p] = <<>>
  /\ ~ Ends(rt, par, p) /\ Crosses(p) => f[n + 1][p] = f[n][Up(par, p)]
  /\ ~ Ends(rt, par, p) /\ ~ Crosses(p) => f[n + 1][p] = Append(f[n][Up(par, p)], nm[p[2]])

(* The same, position by position. *)
LEMMA PathSteps ==
  ASSUME NEW rt, NEW par, NEW nm, Tree(par, nm), NEW p \in Positions, NEW n \in Nat
  PROVE  /\ Components(rt, par, nm)[0][p] = <<>>
         /\ PathSucc(rt, par, nm, Components(rt, par, nm), n, p)
<1> DEFINE f == Components(rt, par, nm)
<1>0. par \in [Dentries -> Dentries] /\ nm \in [Dentries -> Seq(STRING)]
  BY DEF Tree
<1>1. f = PathStep(rt, par, nm, f)
  BY <1>0, ComponentsSteps, Zenon
<1> HIDE DEF f
<1>2. \A m \in Nat : f[m] = PathStep(rt, par, nm, f)[m]
  BY <1>1
<1>3. \A m \in Nat :
        f[m][p] = IF m = 0 \/ Ends(rt, par, p) THEN <<>>
                  ELSE IF Crosses(p) THEN f[m - 1][Up(par, p)]
                  ELSE Append(f[m - 1][Up(par, p)], nm[p[2]])
  BY <1>2 DEF PathStep
<1>4. n + 1 \in Nat /\ n + 1 # 0 /\ (n + 1) - 1 = n
  OBVIOUS
<1>5. f[n + 1][p] = IF Ends(rt, par, p) THEN <<>>
                    ELSE IF Crosses(p) THEN f[n][Up(par, p)]
                    ELSE Append(f[n][Up(par, p)], nm[p[2]])
  BY <1>3, <1>4
<1>6. f[0][p] = <<>>
  BY <1>3
<1> QED BY <1>5, <1>6 DEF f, PathSucc

(* In no step there is no component. *)
LEMMA PathZero ==
  ASSUME NEW rt, NEW par, NEW nm, Tree(par, nm), NEW p \in Positions
  PROVE  Components(rt, par, nm)[0][p] = <<>>
<1>1. 0 \in Nat
  OBVIOUS
<1> QED BY <1>1, PathSteps, Zenon

(* A path is a sequence of names. *)
LEMMA PathType ==
  ASSUME NEW rt, NEW par, NEW nm, Tree(par, nm)
  PROVE  \A n \in Nat : \A p \in Positions : Components(rt, par, nm)[n][p] \in Paths
<1> DEFINE f == Components(rt, par, nm)
           T == {n \in Nat : \A p \in Positions : f[n][p] \in Paths}
<1>0. <<>> \in Paths
  BY DEF Paths
<1>1. 0 \in T
  BY <1>0, PathZero, Zenon
<1>2. ASSUME NEW n \in Nat, n \in T PROVE n + 1 \in T
  <2>1. ASSUME NEW p \in Positions PROVE f[n + 1][p] \in Paths
    <3>1. f[n][Up(par, p)] \in Paths /\ nm[p[2]] \in Seq(STRING)
      BY <1>2, UpType DEF Tree
    <3>2. Append(f[n][Up(par, p)], nm[p[2]]) \in Paths
      BY <3>1, AppendProperties DEF Paths
    <3>3. PathSucc(rt, par, nm, f, n, p)
      BY PathSteps, Zenon
    <3> HIDE DEF f
    <3> QED BY <1>0, <3>1, <3>2, <3>3 DEF PathSucc
  <2> QED BY <2>1
<1> HIDE DEF T
<1>3. \A n \in Nat : n \in T
  BY <1>1, <1>2, NatInd
<1> QED BY <1>3 DEF T

(* The components of a path are proper names. *)
LEMMA PathProper ==
  ASSUME NEW rt, NEW par, NEW nm, Tree(par, nm),
         \A d \in Dentries : par[d] # d => ProperName(nm[d])
  PROVE  \A n \in Nat : \A p \in Positions :
           \A i \in 1 .. Len(Components(rt, par, nm)[n][p]) :
             ProperName(Components(rt, par, nm)[n][p][i])
<1> DEFINE f == Components(rt, par, nm)
           Ok(c) == \A i \in 1 .. Len(c) : ProperName(c[i])
           T == {n \in Nat : \A p \in Positions : Ok(f[n][p])}
<1>0. Ok(<<>>)
  OBVIOUS
<1>1. 0 \in T
  <2>1. \A p \in Positions : f[0][p] = <<>>
    BY PathZero, Zenon
  <2> HIDE DEF f, Ok
  <2> QED BY <1>0, <2>1
<1>2. ASSUME NEW n \in Nat, n \in T PROVE n + 1 \in T
  <2>1. ASSUME NEW p \in Positions PROVE Ok(f[n + 1][p])
    <3> HIDE DEF f
    <3>4. PathSucc(rt, par, nm, f, n, p)
      BY PathSteps, Zenon DEF f
    <3>5. Up(par, p) \in Positions /\ p[2] \in Dentries
      BY UpType DEF Tree
    <3>6. f[n][Up(par, p)] \in Paths
      BY <3>5, PathType, Zenon DEF f
    <3>7. ~ Ends(rt, par, p) /\ ~ Crosses(p) => ProperName(nm[p[2]])
      BY <3>5 DEF Ends
    <3>8. Ok(f[n][Up(par, p)])
      BY <1>2, <3>5
    <3>9. ASSUME NEW s \in Paths, NEW e \in Seq(STRING), Ok(s), ProperName(e)
          PROVE  Ok(Append(s, e))
      <4>1. /\ Len(Append(s, e)) = Len(s) + 1
            /\ \A i \in 1 .. Len(s) : Append(s, e)[i] = s[i]
            /\ Append(s, e)[Len(s) + 1] = e
        BY AppendProperties DEF Paths
      <4>2. Len(s) \in Nat
        BY DEF Paths
      <4> QED BY <3>9, <4>1, <4>2
    <3>10. nm[p[2]] \in Seq(STRING)
      BY <3>5 DEF Tree
    <3> HIDE DEF Ok
    <3>11. Ends(rt, par, p) => Ok(f[n + 1][p])
      BY <3>4, <1>0 DEF PathSucc
    <3>12. ~ Ends(rt, par, p) /\ Crosses(p) => Ok(f[n + 1][p])
      BY <3>4, <3>8 DEF PathSucc
    <3>13. ~ Ends(rt, par, p) /\ ~ Crosses(p) => Ok(f[n + 1][p])
      BY <3>4, <3>6, <3>7, <3>8, <3>9, <3>10 DEF PathSucc
    <3> QED BY <3>11, <3>12, <3>13
  <2> HIDE DEF Ok
  <2> QED BY <2>1
<1> HIDE DEF T
<1>3. \A n \in Nat : n \in T
  BY <1>1, <1>2, NatInd
<1> QED BY <1>3 DEF T

(* The positions from which the walk meets only directories in ds. *)
Above(ds, p) == p \in Positions /\ (Crosses(p) \/ p[2] \in ds)

Mountings(ds) ==
  /\ ds \in SUBSET Dentries
  /\ Settled(ds)
  /\ \A mt \in Mounts : (IF MntParent[mt] # mt THEN Mountpoint[mt] ELSE MntRoot[mt]) \in ds

(* A step up stays there. *)
LEMMA AboveUp ==
  ASSUME NEW ds, Mountings(ds), NEW par \in [Dentries -> Dentries],
         \A d \in ds : par[d] = Parent0[d], NEW p, Above(ds, p)
  PROVE  Above(ds, Up(par, p))
<1>1. p \in Positions /\ p[1] \in Mounts /\ p[2] \in Dentries /\ Up(par, p) \in Positions
  BY UpType DEF Above
<1>2. CASE Crosses(p)
  <2>1. Up(par, p)[2] = Mountpoint[p[1]] /\ MntParent[p[1]] # p[1]
    BY <1>2 DEF Up, Crosses
  <2> QED BY <1>1, <2>1 DEF Above, Mountings
<1>3. CASE ~ Crosses(p)
  <2>1. Up(par, p)[2] = par[p[2]] /\ p[2] \in ds
    BY <1>3 DEF Up, Above
  <2> QED BY <1>1, <2>1 DEF Above, Mountings, Settled
<1> QED BY <1>2, <1>3

(* A path through directories that are not renamed is kept by renames. *)
LEMMA PathKept ==
  ASSUME NEW rt, NEW ds, Mountings(ds),
         NEW par, NEW nm, Tree(par, nm), NEW par2, NEW nm2, Tree(par2, nm2),
         \A d \in ds : par[d] = Parent0[d] /\ par2[d] = Parent0[d] /\ nm2[d] = nm[d]
  PROVE  \A n \in Nat : \A p : Above(ds, p) =>
           Components(rt, par, nm)[n][p] = Components(rt, par2, nm2)[n][p]
<1> DEFINE f == Components(rt, par, nm)
           g == Components(rt, par2, nm2)
           T == {n \in Nat : \A p : Above(ds, p) => f[n][p] = g[n][p]}
<1>1. 0 \in T
  <2>1. \A p : Above(ds, p) => f[0][p] = <<>> /\ g[0][p] = <<>>
    <3>1. ASSUME NEW p \in Positions PROVE f[0][p] = <<>>
      BY PathZero
    <3>2. ASSUME NEW p \in Positions PROVE g[0][p] = <<>>
      BY PathZero
    <3> QED BY <3>1, <3>2, Zenon DEF Above
  <2> QED BY <2>1
<1>2. ASSUME NEW n \in Nat, n \in T PROVE n + 1 \in T
  <2>1. ASSUME NEW p, Above(ds, p) PROVE f[n + 1][p] = g[n + 1][p]
    <3> HIDE DEF f, g
    <3>1. p \in Positions
      BY <2>1 DEF Above
    <3>2. PathSucc(rt, par, nm, f, n, p)
      BY <3>1, PathSteps, Zenon DEF f
    <3>3. PathSucc(rt, par2, nm2, g, n, p)
      BY <3>1, PathSteps, Zenon DEF g
    <3>4. Ends(rt, par, p) <=> Ends(rt, par2, p)
      BY <2>1 DEF Ends, Above
    <3>5. Up(par, p) = Up(par2, p)
      BY <2>1 DEF Up, Above
    <3>6. ~ Crosses(p) => nm[p[2]] = nm2[p[2]]
      BY <2>1 DEF Above
    <3>7. Above(ds, Up(par, p))
      BY <2>1, AboveUp DEF Tree
    <3>8. f[n][Up(par, p)] = g[n][Up(par, p)]
      BY <1>2, <3>7
    <3> QED BY <3>2, <3>3, <3>4, <3>5, <3>6, <3>8 DEF PathSucc
  <2> QED BY <2>1
<1> HIDE DEF T
<1>3. \A n \in Nat : n \in T
  BY <1>1, <1>2, NatInd
<1> QED BY <1>3 DEF T

(* Whether a walk gets to the root. *)
LEMMA ReachSteps ==
  ASSUME NEW rt, NEW par \in [Dentries -> Dentries], NEW p \in Positions, NEW n \in Nat
  PROVE  /\ n = 0 => ~ Reaches(rt, par)[n][p]
         /\ n # 0 /\ Ends(rt, par, p) => Reaches(rt, par)[n][p]
         /\ n # 0 /\ ~ Ends(rt, par, p) =>
              (Reaches(rt, par)[n][p] <=> Reaches(rt, par)[n - 1][Up(par, p)])
<1> DEFINE f == Reaches(rt, par)
<1>1. f = ReachStep(rt, par, f)
  BY ReachesSteps, Zenon
<1> HIDE DEF f
<1>2. f[n] = ReachStep(rt, par, f)[n]
  BY <1>1
<1>3. f[n][p] = (n > 0 /\ (Ends(rt, par, p) \/ f[n - 1][Up(par, p)]))
  BY <1>2, Zenon DEF ReachStep
<1>4. (n > 0) <=> n # 0
  OBVIOUS
<1> QED BY <1>3, <1>4, Zenon DEF f

-----------------------------------------------------------------------------
(* The ring of components.                                                 *)

(* Arithmetic modulo NUM_COMP stays in the ring of components. *)
LEMMA ModRange == ASSUME NEW n \in Int PROVE Mod(n) \in 0 .. (NumComp - 1)
BY ConstantsAssumption DEF Mod

(* Two indices of the ring are the same only a multiple of NUM_COMP apart. *)
LEMMA Multiple ==
  ASSUME NEW n \in Nat \ {0}, NEW q \in Int, NEW r \in Int, q * n = r, r < n, - r < n
  PROVE  q = 0
<1>1. CASE q >= 1
  <2>1. q * n >= n
    BY <1>1
  <2> QED BY <2>1
<1>2. CASE q <= -1
  <2>1. q * n <= - n
    BY <1>2
  <2> QED BY <2>1
<1> QED BY <1>1, <1>2

(* Components less than NUM_COMP apart have elements of their own. *)
LEMMA ModApart ==
  ASSUME NEW a \in Int, NEW b \in Int, a < b, b - a < NumComp
  PROVE  Mod(a) # Mod(b)
<1> DEFINE qa == a \div NumComp
           qb == b \div NumComp
<1>1. qa \in Int /\ qb \in Int /\ NumComp \in Nat \ {0}
  BY ConstantsAssumption
<1>2. a = NumComp * qa + Mod(a) /\ b = NumComp * qb + Mod(b) /\ Mod(a) \in Int /\ Mod(b) \in Int
  BY ConstantsAssumption DEF Mod
<1> HIDE DEF qa, qb
<1> SUFFICES ASSUME Mod(a) = Mod(b) PROVE FALSE
  OBVIOUS
<1>3. b - a = NumComp * qb - NumComp * qa
  BY <1>1, <1>2
<1>4. (qb - qa) * NumComp = b - a
  BY <1>1, <1>3
<1>5. qb - qa = 0
  BY <1>1, <1>4, Multiple
<1> QED BY <1>1, <1>4, <1>5

(* ModNumC: a sum may be reduced before or after. *)
LEMMA ModShift ==
  ASSUME NEW a \in Int, NEW b \in Int
  PROVE  Mod(Mod(a) + b) = Mod(a + b)
<1> DEFINE c == Mod(a) + b
           d == a + b
           qa == a \div NumComp
           qc == c \div NumComp
           qd == d \div NumComp
<1>0. Mod(a) \in Int /\ c \in Int /\ d \in Int
  BY ModRange
<1>1. qa \in Int /\ qc \in Int /\ qd \in Int /\ NumComp \in Nat \ {0}
  BY <1>0, ConstantsAssumption
<1>2. a = NumComp * qa + Mod(a)
  BY ConstantsAssumption DEF Mod
<1>3. c = NumComp * qc + Mod(c) /\ Mod(c) \in 0 .. (NumComp - 1)
  <2> HIDE DEF c
  <2> QED BY <1>0, ConstantsAssumption DEF Mod
<1>4. d = NumComp * qd + Mod(d) /\ Mod(d) \in 0 .. (NumComp - 1)
  <2> HIDE DEF d
  <2> QED BY <1>0, ConstantsAssumption DEF Mod
<1>5. d - c = NumComp * qa
  <2> HIDE DEF qa, qc, qd
  <2> QED BY <1>0, <1>1, <1>2
<1> HIDE DEF c, d, qa, qc, qd
<1>6. (qa + qc - qd) * NumComp = Mod(d) - Mod(c)
  <2>1. NumComp * qa + NumComp * qc - NumComp * qd = Mod(d) - Mod(c)
    BY <1>0, <1>1, <1>3, <1>4, <1>5
  <2>2. (qa + qc - qd) * NumComp = NumComp * qa + NumComp * qc - NumComp * qd
    BY <1>1
  <2> QED BY <2>1, <2>2
<1>7. qa + qc - qd = 0
  <2>1. /\ qa + qc - qd \in Int /\ Mod(d) - Mod(c) \in Int
        /\ Mod(d) - Mod(c) < NumComp /\ - (Mod(d) - Mod(c)) < NumComp
    BY <1>1, <1>3, <1>4
  <2> QED BY <1>1, <1>6, <2>1, Multiple
<1>8. Mod(d) = Mod(c)
  <2>1. 0 * NumComp = 0
    BY <1>1
  <2> QED BY <1>3, <1>4, <1>6, <1>7, <2>1
<1> QED BY <1>8 DEF c, d

(* The component that path_walk_step makes of a name. *)
Comp(s) == [len |-> Len(ReadStr(s)), pathcomp |-> ReadStr(s)]

(* Of the k components read so far, the last ones are those of the path P  *)
(* behind its first components r, as far as the ring still holds them.     *)
Read(P, r, ring, k) ==
  /\ Len(r) <= Len(P) /\ Len(P) - Len(r) <= k
  /\ \A i \in 1 .. Len(r) : r[i] = P[i]
  /\ \A j \in 1 .. (Len(P) - Len(r)) : j <= NumComp => ring[Mod(k - j)] = Comp(P[Len(r) + j])

(* Nothing is read yet. *)
LEMMA ReadStart ==
  ASSUME NEW P \in Paths, NEW ring, NEW k \in Nat
  PROVE  Read(P, P, ring, k)
BY DEF Read, Paths

(* path_walk_step reads the next name. *)
LEMMA ReadNext ==
  ASSUME NEW P \in Paths, NEW r \in Paths, NEW s \in Seq(STRING), NEW k \in Nat,
         NEW ring, DOMAIN ring = 0 .. (NumComp - 1), Read(P, Append(r, s), ring, k)
  PROVE  Read(P, r, [ring EXCEPT ![Mod(k)] = Comp(s)], k + 1)
<1> DEFINE t == Append(r, s)
           new == [ring EXCEPT ![Mod(k)] = Comp(s)]
<1>1. Len(t) = Len(r) + 1 /\ (\A i \in 1 .. Len(r) : t[i] = r[i]) /\ t[Len(r) + 1] = s
  BY AppendProperties DEF Paths
<1>2. Len(r) \in Nat /\ Len(P) \in Nat
  BY DEF Paths
<1> HIDE DEF t
<1>3. Read(P, t, ring, k)
  BY DEF t
<1>4. Mod(k) \in 0 .. (NumComp - 1)
  BY ModRange
<1>5. ASSUME NEW j \in 1 .. (Len(P) - Len(r)), j <= NumComp
      PROVE  new[Mod((k + 1) - j)] = Comp(P[Len(r) + j])
  <2>1. CASE j = 1
    <3>1. (k + 1) - j = k
      BY <2>1
    <3>2. P[Len(r) + 1] = s
      BY <1>1, <1>2, <1>3 DEF Read
    <3> QED BY <1>4, <2>1, <3>1, <3>2
  <2>2. CASE j # 1
    <3> DEFINE i == j - 1
    <3>1. i \in 1 .. (Len(P) - Len(t)) /\ i <= NumComp /\ i < NumComp /\ (k + 1) - j = k - i
      BY <1>1, <1>2, <1>5, <2>2, ConstantsAssumption
    <3> HIDE DEF i
    <3>2. ring[Mod(k - i)] = Comp(P[Len(t) + i])
      BY <3>1, <1>3 DEF Read
    <3>7. k - i \in Int /\ k \in Int /\ k - i < k /\ k - (k - i) < NumComp
      BY <1>2, <3>1, ConstantsAssumption
    <3>3. Mod(k - i) # Mod(k)
      BY <3>7, ModApart
    <3>4. Mod(k - i) \in 0 .. (NumComp - 1)
      BY <3>7, ModRange
    <3>5. new[Mod(k - i)] = ring[Mod(k - i)]
      BY <3>3, <3>4
    <3>6. Len(t) + i = Len(r) + j
      BY <1>1, <1>2 DEF i
    <3> QED BY <3>1, <3>2, <3>5, <3>6
  <2> QED BY <2>1, <2>2
<1>6. /\ Len(r) <= Len(P) /\ Len(P) - Len(r) <= k + 1
      /\ \A i \in 1 .. Len(r) : r[i] = P[i]
  BY <1>1, <1>2, <1>3 DEF Read
<1> QED BY <1>5, <1>6 DEF Read

-----------------------------------------------------------------------------
(* The characters of a path, laid out.                                     *)

(* The components of P laid out in C: component i begins with its "/"      *)
(* behind off[i - 1] characters.                                           *)
Laid(P, C, off) ==
  /\ off \in [0 .. Len(P) -> Nat] /\ off[0] = 0
  /\ \A i \in 1 .. Len(P) :
       /\ off[i] = off[i - 1] + 1 + Len(P[i])
       /\ C[off[i - 1] + 1] = "/"
       /\ \A x \in 1 .. Len(P[i]) : C[off[i - 1] + 1 + x] = P[i][x]
  /\ Len(C) = IF Len(P) = 0 THEN 1 ELSE off[Len(P)]
  /\ Len(P) = 0 => C[1] = "/"

(* The characters of a path. *)
Chars == STRING \union {"/"}
Pieces(E) == E \in [Nat -> Seq(Chars)]

(* A name consists of characters. *)
LEMMA NameChars ==
  ASSUME NEW s \in Seq(STRING)
  PROVE  s \in Seq(Chars)
<1>1. STRING \subseteq Chars
  BY DEF Chars
<1>2. s \in [1 .. Len(s) -> STRING] /\ Len(s) \in Nat
  BY LenProperties
<1>3. \A i \in 1 .. Len(s) : s[i] \in Chars
  BY <1>1, <1>2
<1>4. s = [i \in 1 .. Len(s) |-> s[i]]
  BY <1>2
<1> QED BY <1>2, <1>3, <1>4

(* Prefixes of a text put together piece by piece. *)
Joined(g, E) ==
  /\ g \in [Nat -> Seq(Chars)] /\ g[0] = <<>>
  /\ \A n \in Nat : g[n + 1] = g[n] \o E[n]

(* Pieces can be joined. *)
LEMMA JoinExists ==
  ASSUME NEW E, Pieces(E)
  PROVE  \E g : Joined(g, E)
<1> DEFINE V == Seq(Chars)
           a == <<>>
           G == [n \in Nat |-> [v \in V |-> v \o E[n]]]
<1>1. a \in V
  OBVIOUS
<1>2. Steps(G, V)
  <2>1. \A n \in Nat : \A v \in V : v \o E[n] \in V
    BY DEF Pieces
  <2> HIDE DEF V
  <2> QED BY <2>1 DEF Steps
<1> HIDE DEF a, V, G
<1>3. PICK g : Runs(g, V, a, G)
  BY <1>1, <1>2, PrimRec, Zenon
<1>4. g \in [Nat -> V] /\ g[0] = a /\ \A n \in Nat : g[n + 1] = G[n][g[n]]
  BY <1>3 DEF Runs
<1>5. \A n \in Nat : g[n + 1] = g[n] \o E[n]
  BY <1>4 DEF G
<1> QED BY <1>4, <1>5 DEF Joined, a, V

(* What is joined first stays in front. *)
InFront(g, i, m) == Len(g[i]) <= Len(g[m]) /\ \A x \in 1 .. Len(g[i]) : g[m][x] = g[i][x]

(* By induction on what is joined. *)
LEMMA JoinPrefix ==
  ASSUME NEW E, Pieces(E), NEW g, Joined(g, E), NEW i \in Nat
  PROVE  \A m \in Nat : i <= m => InFront(g, i, m)
<1> DEFINE Kept(m) == Len(g[i]) <= Len(g[m]) /\ \A x \in 1 .. Len(g[i]) : g[m][x] = g[i][x]
           T == {m \in Nat : i <= m => Kept(m)}
<1>00. \A m \in Nat : g[m] \in Seq(Chars)
  BY DEF Joined
<1>0. \A m \in Nat : g[m] \in Seq(Chars) /\ Len(g[m]) \in Nat
  BY <1>00, LenProperties
<1>1. 0 \in T
  <2>1. i <= 0 => i = 0
    OBVIOUS
  <2>2. i = 0 => Kept(0)
    BY <1>0
  <2> QED BY <2>1, <2>2
<1>2. ASSUME NEW m \in Nat, m \in T PROVE m + 1 \in T
  <2> SUFFICES ASSUME i <= m + 1 PROVE Kept(m + 1)
    OBVIOUS
  <2>1. CASE i = m + 1
    BY <1>0, <2>1
  <2>2. CASE i <= m
    <3>1. g[m + 1] = g[m] \o E[m]
      BY DEF Joined
    <3>2. g[m] \in Seq(Chars) /\ E[m] \in Seq(Chars)
      BY <1>0 DEF Pieces
    <3>3. /\ Len(g[m + 1]) = Len(g[m]) + Len(E[m])
          /\ \A x \in 1 .. Len(g[m]) : g[m + 1][x] = g[m][x]
      <4>1. \A a, b \in Seq(Chars) :
              /\ Len(a \o b) = Len(a) + Len(b)
              /\ \A x \in 1 .. (Len(a) + Len(b)) :
                   (a \o b)[x] = IF x <= Len(a) THEN a[x] ELSE b[x - Len(a)]
        BY ConcatProperties
      <4>2. \A a, b \in Seq(Chars) : \A x \in 1 .. Len(a) : (a \o b)[x] = a[x]
        <5>1. \A a, b \in Seq(Chars) : \A x \in 1 .. Len(a) : x \in 1 .. (Len(a) + Len(b)) /\ x <= Len(a)
          BY LenProperties
        <5> QED BY <4>1, <5>1
      <4>3. Len(g[m] \o E[m]) = Len(g[m]) + Len(E[m])
        BY <3>2, <4>1, Zenon
      <4>4. \A x \in 1 .. Len(g[m]) : (g[m] \o E[m])[x] = g[m][x]
        BY <3>2, <4>2, Zenon
      <4> QED BY <3>1, <4>3, <4>4, Zenon
    <3>4. Kept(m) /\ Len(E[m]) \in Nat /\ Len(g[m]) \in Nat /\ Len(g[i]) \in Nat
      BY <1>0, <1>2, <2>2, <3>2
    <3> HIDE DEF Kept
    <3>5. Kept(m + 1)
      <4>1. Len(g[i]) <= Len(g[m]) /\ \A x \in 1 .. Len(g[i]) : g[m][x] = g[i][x]
        BY <3>4 DEF Kept
      <4>0. \A a, b, c \in Nat : a <= b => a <= b + c /\ \A x \in 1 .. a : x \in 1 .. b
        OBVIOUS
      <4>2. Len(g[i]) <= Len(g[m + 1])
        BY <3>3, <3>4, <4>0, <4>1, Zenon
      <4>3. \A x \in 1 .. Len(g[i]) : x \in 1 .. Len(g[m])
        BY <3>4, <4>0, <4>1, Zenon
      <4>4. \A x \in 1 .. Len(g[i]) : g[m + 1][x] = g[i][x]
        BY <3>3, <4>1, <4>3
      <4> QED BY <4>2, <4>4 DEF Kept
    <3> QED BY <3>5
  <2> QED BY <2>1, <2>2
<1> HIDE DEF T
<1>3. \A m \in Nat : m \in T
  BY <1>1, <1>2, NatInd
<1> QED BY <1>3 DEF T, InFront

(* What FlattenSeq joins. *)
LEMMA FlattenJoins ==
  ASSUME NEW N \in Nat \ {0}, NEW E, Pieces(E), NEW g, Joined(g, E)
  PROVE  FlattenSeq([i \in 1 .. N |-> E[i - 1]]) = g[N]
<1> DEFINE seqs == [i \in 1 .. N |-> E[i - 1]]
           Step(f) == [i \in 1 .. N |-> IF i = 1 THEN seqs[i] ELSE f[i - 1] \o seqs[i]]
           h == [i \in 1 .. N |-> g[i]]
<1>1. Len(seqs) = N /\ \A i \in 1 .. N : seqs[i] = E[i - 1]
  OBVIOUS
<1>2. \A i \in 1 .. N : g[i] = IF i = 1 THEN seqs[i] ELSE g[i - 1] \o seqs[i]
  <2>1. ASSUME NEW i \in 1 .. N
        PROVE  g[i] = IF i = 1 THEN seqs[i] ELSE g[i - 1] \o seqs[i]
    <3>1. i - 1 \in Nat /\ (i - 1) + 1 = i
      OBVIOUS
    <3>2. g[i] = g[i - 1] \o E[i - 1]
      BY <3>1 DEF Joined
    <3>3. g[0] = <<>> /\ E[0] \in Seq(Chars)
      BY DEF Joined, Pieces
    <3>4. <<>> \o E[0] = E[0]
      BY <3>3
    <3>5. CASE i = 1
      <4>1. i - 1 = 0
        BY <3>5
      <4>2. g[i] = E[0] /\ seqs[i] = E[0]
        BY <1>1, <3>2, <3>3, <3>4, <4>1
      <4> QED BY <3>5, <4>2
    <3>6. CASE i # 1
      BY <3>2, <3>6
    <3> QED BY <3>5, <3>6
  <2> QED BY <2>1
<1> HIDE DEF seqs
<1>3. h = Step(h)
  <2>1. ASSUME NEW i \in 1 .. N PROVE h[i] = Step(h)[i]
    <3>1. CASE i = 1
      BY <1>2, <3>1
    <3>2. CASE i # 1
      <4>1. i - 1 \in 1 .. N
        BY <3>2
      <4> QED BY <1>2, <3>2, <4>1
    <3> QED BY <3>1, <3>2
  <2> QED BY <2>1
<1> DEFINE fl == CHOOSE f : f = Step(f)
<1>4. fl = Step(fl)
  <2> HIDE DEF h, Step
  <2> QED BY <1>3
<1>5. FlattenSeq(seqs) = fl[N]
  BY <1>1 DEF FlattenSeq
<1> HIDE DEF fl, h
<1>6. \A i \in 1 .. N : fl[i] = IF i = 1 THEN seqs[i] ELSE fl[i - 1] \o seqs[i]
  BY <1>4
<1> DEFINE T == {n \in Nat : n + 1 <= N => fl[n + 1] = g[n + 1]}
<1>7. 0 \in T
  BY <1>2, <1>6
<1>8. ASSUME NEW n \in Nat, n \in T PROVE n + 1 \in T
  <2>0. SUFFICES ASSUME (n + 1) + 1 <= N PROVE fl[(n + 1) + 1] = g[(n + 1) + 1]
    OBVIOUS
  <2>1. fl[n + 1] = g[n + 1]
    BY <1>8, <2>0
  <2>2. (n + 1) + 1 \in 1 .. N /\ (n + 1) + 1 # 1 /\ ((n + 1) + 1) - 1 = n + 1
    BY <2>0
  <2>3. fl[(n + 1) + 1] = fl[n + 1] \o seqs[(n + 1) + 1]
    BY <1>6, <2>2
  <2>4. g[(n + 1) + 1] = g[n + 1] \o seqs[(n + 1) + 1]
    BY <1>2, <2>2
  <2> QED BY <2>1, <2>3, <2>4
<1> HIDE DEF T
<1>9. N - 1 \in T
  <2>1. \A n \in Nat : n \in T
    BY <1>7, <1>8, NatInd
  <2>2. N - 1 \in Nat
    OBVIOUS
  <2> QED BY <2>1, <2>2
<1>10. fl[N] = g[N]
  <2>1. N - 1 \in Nat /\ (N - 1) + 1 = N
    OBVIOUS
  <2> QED BY <1>9, <2>1 DEF T
<1> QED BY <1>5, <1>10 DEF seqs

(* Every path has a layout. *)
LEMMA Layout ==
  ASSUME NEW P \in Paths
  PROVE  \E off : Laid(P, Characters(P), off)
<1> DEFINE N == Len(P)
           C == Characters(P)
           E == [n \in Nat |-> IF n + 1 <= N THEN <<"/">> \o P[n + 1] ELSE <<>>]
<1>0. N \in Nat /\ \A i \in 1 .. N : P[i] \in Seq(STRING) /\ Len(P[i]) \in Nat
  BY DEF Paths
<1>1. ASSUME NEW s \in Seq(STRING)
      PROVE  /\ <<"/">> \o s \in Seq(Chars) /\ Len(<<"/">> \o s) = 1 + Len(s)
             /\ (<<"/">> \o s)[1] = "/" /\ \A x \in 1 .. Len(s) : (<<"/">> \o s)[1 + x] = s[x]
  <2>1. <<"/">> \in Seq(Chars) /\ Len(<<"/">>) = 1 /\ <<"/">>[1] = "/"
    <3>1. "/" \in Chars
      BY DEF Chars
    <3> QED BY <3>1
  <2>2. Len(s) \in Nat /\ s \in Seq(Chars)
    BY NameChars, LenProperties
  <2> DEFINE a == <<"/">>
  <2> HIDE DEF a
  <2>3. /\ a \o s \in Seq(Chars) /\ Len(a \o s) = Len(a) + Len(s)
        /\ \A x \in 1 .. Len(a) + Len(s) :
             (a \o s)[x] = IF x <= Len(a) THEN a[x] ELSE s[x - Len(a)]
    BY <2>1, <2>2, ConcatProperties DEF a
  <2>4. Len(a) = 1 /\ a[1] = "/"
    BY <2>1 DEF a
  <2>5. (a \o s)[1] = "/"
    BY <2>2, <2>3, <2>4
  <2>6. \A x \in 1 .. Len(s) : (a \o s)[1 + x] = s[x]
    BY <2>2, <2>3, <2>4
  <2> QED BY <2>2, <2>3, <2>4, <2>5, <2>6 DEF a
<1>2. Pieces(E)
  <2>1. ASSUME NEW n \in Nat PROVE (IF n + 1 <= N THEN <<"/">> \o P[n + 1] ELSE <<>>) \in Seq(Chars)
    <3>1. n + 1 <= N => n + 1 \in 1 .. N
      BY <1>0
    <3>2. n + 1 <= N => <<"/">> \o P[n + 1] \in Seq(Chars)
      <4> HIDE DEF N
      <4> QED BY <1>0, <1>1, <3>1
    <3>3. <<>> \in Seq(Chars)
      OBVIOUS
    <3> QED BY <3>2, <3>3
  <2> QED BY <2>1 DEF Pieces
<1>3. \A i \in 1 .. N : E[i - 1] = <<"/">> \o P[i]
  BY <1>0
<1>4. PICK g : Joined(g, E)
  <2> HIDE DEF E
  <2> QED BY <1>2, JoinExists
<1> DEFINE off == [i \in 0 .. N |-> Len(g[i])]
<1>5. \A i \in 0 .. N : g[i] \in Seq(Chars) /\ Len(g[i]) \in Nat /\ off[i] = Len(g[i])
  BY <1>0, <1>4 DEF Joined
<1>6. off \in [0 .. N -> Nat] /\ off[0] = 0
  BY <1>0, <1>4, <1>5 DEF Joined
<1>7. CASE P = <<>>
  <2>1. N = 0 /\ C = <<"/">>
    BY <1>7 DEF Characters
  <2> HIDE DEF C, off
  <2>2. Len(C) = 1 /\ C[1] = "/"
    BY <2>1
  <2> QED BY <1>6, <2>1, <2>2 DEF Laid, C
<1>8. CASE P # <<>>
  <2>1. N \in Nat \ {0}
    BY <1>0, <1>8, EmptySeq DEF Paths
  <2>2. C = g[N]
    <3>1. [i \in DOMAIN P |-> <<"/">> \o P[i]] = [i \in 1 .. N |-> E[i - 1]]
      <4>1. DOMAIN P = 1 .. N
        BY DEF Paths
      <4> HIDE DEF E
      <4> QED BY <1>3, <4>1
    <3> HIDE DEF E
    <3>2. FlattenSeq([i \in 1 .. N |-> E[i - 1]]) = g[N]
      <4> HIDE DEF N
      <4> QED BY <1>2, <1>4, <2>1, FlattenJoins
    <3> QED BY <1>8, <3>1, <3>2 DEF Characters
  <2>3. ASSUME NEW i \in 1 .. N
        PROVE  /\ off[i] = off[i - 1] + 1 + Len(P[i])
               /\ C[off[i - 1] + 1] = "/"
               /\ \A x \in 1 .. Len(P[i]) : C[off[i - 1] + 1 + x] = P[i][x]
    <3> HIDE DEF E, C
    <3> DEFINE e == <<"/">> \o P[i]
               o == Len(g[i - 1])
    <3>1. i - 1 \in Nat /\ (i - 1) + 1 = i /\ i - 1 \in 0 .. N /\ i \in 0 .. N
      BY <1>0
    <3>2. g[i] = g[i - 1] \o E[i - 1]
      BY <3>1, <1>4 DEF Joined
    <3>3. g[i] = g[i - 1] \o e
      BY <3>2, <1>3
    <3>4. /\ e \in Seq(Chars) /\ Len(e) = 1 + Len(P[i]) /\ e[1] = "/"
          /\ \A x \in 1 .. Len(P[i]) : e[1 + x] = P[i][x]
      BY <1>0, <1>1
    <3>5. g[i - 1] \in Seq(Chars) /\ o \in Nat /\ Len(P[i]) \in Nat
      BY <3>1, <1>5, <1>0
    <3> HIDE DEF e
    <3>6. Len(g[i]) = o + Len(e) /\ \A x \in 1 .. Len(e) : g[i][o + x] = e[x]
      <4>1. /\ Len(g[i - 1] \o e) = o + Len(e)
            /\ \A x \in 1 .. (o + Len(e)) :
                 (g[i - 1] \o e)[x] = IF x <= o THEN g[i - 1][x] ELSE e[x - o]
        <5>1. \A a, b \in Seq(Chars) :
                /\ Len(a \o b) = Len(a) + Len(b)
                /\ \A x \in 1 .. (Len(a) + Len(b)) :
                     (a \o b)[x] = IF x <= Len(a) THEN a[x] ELSE b[x - Len(a)]
          BY ConcatProperties
        <5> QED BY <3>4, <3>5, <5>1, Zenon
      <4>2. ASSUME NEW x \in 1 .. Len(e) PROVE (g[i - 1] \o e)[o + x] = e[x]
        <5> HIDE DEF o
        <5>1. /\ o + x \in 1 .. (o + Len(e)) /\ ~ (o + x <= o) /\ (o + x) - o = x
          BY <3>4, <3>5
        <5> QED BY <4>1, <5>1
      <4> QED BY <3>3, <4>1, <4>2
    <3>7. \A x \in 1 .. Len(g[i]) : C[x] = g[i][x]
      <4>1. i \in Nat /\ i <= N /\ N \in Nat
        BY <1>0
      <4> HIDE DEF N, off, o
      <4>2. \A m \in Nat : i <= m =>
              Len(g[i]) <= Len(g[m]) /\ \A x \in 1 .. Len(g[i]) : g[m][x] = g[i][x]
        <5>1. PICK n \in Nat : n = i
          BY <4>1
        <5>2. \A m \in Nat : n <= m => InFront(g, n, m)
          BY <1>2, <1>4, JoinPrefix
        <5> QED BY <5>1, <5>2 DEF InFront
      <4> QED BY <4>1, <4>2, <2>2
    <3>8. off[i] = Len(g[i]) /\ off[i - 1] = o
      BY <3>1, <1>5
    <3> HIDE DEF o, off, N
    <3>9. off[i] = off[i - 1] + 1 + Len(P[i])
      <4>1. Len(g[i]) = o + (1 + Len(P[i]))
        BY <3>4, <3>6
      <4>2. \A a, b \in Nat : a + (1 + b) = a + 1 + b
        OBVIOUS
      <4> QED BY <3>5, <3>8, <4>1, <4>2, Zenon
    <3>10. \A x \in 1 .. Len(e) : C[o + x] = e[x]
      BY <3>4, <3>5, <3>6, <3>7
    <3>11. C[o + 1] = "/"
      BY <3>4, <3>5, <3>10
    <3>12. ASSUME NEW x \in 1 .. Len(P[i]) PROVE C[o + 1 + x] = P[i][x]
      <4>1. 1 + x \in 1 .. Len(e) /\ o + (1 + x) = o + 1 + x
        BY <3>4, <3>5
      <4> QED BY <4>1, <3>4, <3>10
    <3> QED BY <3>8, <3>9, <3>11, <3>12
  <2>4. Len(C) = off[N]
    BY <2>1, <2>2, <1>5
  <2> HIDE DEF C, off
  <2> QED BY <1>6, <2>1, <2>3, <2>4 DEF Laid, C
<1> QED BY <1>7, <1>8

(* A layout's offsets grow: by two or more where no name is empty. *)
LEMMA LayoutGrows ==
  ASSUME NEW P \in Paths, NEW C, NEW off, Laid(P, C, off),
         \A i \in 1 .. Len(P) : ProperName(P[i])
  PROVE  /\ \A i \in 0 .. Len(P) : off[i] >= 2 * i /\ off[i] <= off[Len(P)]
<1>00. Len(P) \in Nat
  BY LenProperties DEF Paths
<1>0. Len(P) \in Nat /\ off[0] = 0 /\ \A i \in 0 .. Len(P) : off[i] \in Nat
  BY <1>00 DEF Laid
<1>1. ASSUME NEW i \in 1 .. Len(P)
      PROVE  off[i] >= off[i - 1] + 2 /\ off[i - 1] \in Nat /\ off[i] \in Nat
  <2>1. P[i] \in Seq(STRING) /\ P[i] # <<>>
    BY DEF Paths, ProperName
  <2>2. Len(P[i]) \in Nat \ {0}
    BY <2>1, EmptySeq
  <2>3. i - 1 \in 0 .. Len(P) /\ i \in 0 .. Len(P)
    BY <1>0
  <2>4. off[i] = off[i - 1] + 1 + Len(P[i])
    BY DEF Laid
  <2> QED BY <1>0, <2>2, <2>3, <2>4
<1> DEFINE A == {n \in Nat : n <= Len(P) => off[n] >= 2 * n}
           B == {n \in Nat : n <= Len(P) => off[Len(P) - n] <= off[Len(P)]}
<1>2. \A n \in Nat : n \in A
  <2>1. 0 \in A
    BY <1>0
  <2>2. ASSUME NEW n \in Nat, n \in A PROVE n + 1 \in A
    <3> SUFFICES ASSUME n + 1 <= Len(P) PROVE off[n + 1] >= 2 * (n + 1)
      OBVIOUS
    <3>1. n + 1 \in 1 .. Len(P) /\ (n + 1) - 1 = n /\ n <= Len(P)
      BY <1>0
    <3>2. off[n + 1] >= off[n] + 2 /\ off[n] \in Nat /\ off[n + 1] \in Nat
      BY <1>1, <3>1
    <3>3. off[n] >= 2 * n
      BY <2>2, <3>1
    <3> QED BY <3>2, <3>3
  <2> HIDE DEF A
  <2> QED BY <2>1, <2>2, NatInd
<1>3. \A n \in Nat : n \in B
  <2>1. 0 \in B
    BY <1>0
  <2>2. ASSUME NEW n \in Nat, n \in B PROVE n + 1 \in B
    <3> SUFFICES ASSUME n + 1 <= Len(P) PROVE off[Len(P) - (n + 1)] <= off[Len(P)]
      OBVIOUS
    <3>1. Len(P) - n \in 1 .. Len(P) /\ (Len(P) - n) - 1 = Len(P) - (n + 1) /\ n <= Len(P)
      BY <1>0
    <3>2. /\ off[Len(P) - n] >= off[Len(P) - (n + 1)] + 2
          /\ off[Len(P) - n] \in Nat /\ off[Len(P) - (n + 1)] \in Nat
      BY <1>1, <3>1
    <3>3. off[Len(P) - n] <= off[Len(P)] /\ off[Len(P)] \in Nat
      BY <1>0, <2>2, <3>1
    <3> QED BY <3>2, <3>3
  <2> HIDE DEF B
  <2> QED BY <2>1, <2>2, NatInd
<1>4. ASSUME NEW i \in 0 .. Len(P) PROVE off[i] >= 2 * i /\ off[i] <= off[Len(P)]
  <2>1. i \in Nat /\ i <= Len(P) /\ Len(P) - i \in Nat /\ Len(P) - i <= Len(P)
        /\ Len(P) - (Len(P) - i) = i
    BY <1>0
  <2>2. i \in A /\ Len(P) - i \in B
    BY <1>2, <1>3, <2>1
  <2> QED BY <2>1, <2>2
<1> QED BY <1>4

-----------------------------------------------------------------------------
(* The assembly of a fragment.                                             *)

(* A write through the dynptr, character by character. *)
Written(w, buf, o, data, x) ==
  w[x] = IF o + Len(data) <= PathFragLen /\ o < x /\ x <= o + Len(data)
         THEN data[x - o] ELSE buf[x]

(* What DynptrWrite leaves at x. *)
LEMMA WriteAt ==
  ASSUME NEW buf, DOMAIN buf = 1 .. PathFragLen, NEW o \in Nat, NEW data, Len(data) \in Nat,
         NEW x \in 1 .. PathFragLen
  PROVE  Written(DynptrWrite(buf, o, data), buf, o, data, x)
<1>1. x \in (o + 1) .. (o + Len(data)) <=> o < x /\ x <= o + Len(data)
  BY ConstantsAssumption
<1>2. CASE o + Len(data) > PathFragLen
  BY <1>2, ConstantsAssumption DEF DynptrWrite, Written
<1>3. CASE ~ (o + Len(data) > PathFragLen)
  <2>1. o + Len(data) <= PathFragLen
    BY <1>3, ConstantsAssumption
  <2>2. DynptrWrite(buf, o, data)[x] =
          IF x \in (o + 1) .. (o + Len(data)) THEN data[x - o] ELSE buf[x]
    BY <1>3 DEF DynptrWrite
  <2> QED BY <1>1, <2>1, <2>2 DEF Written
<1> QED BY <1>2, <1>3

(* A write through the dynptr never changes the size of the buffer. *)
LEMMA WriteKeepsSize ==
  ASSUME NEW buf, NEW off, NEW data, DOMAIN buf = 1 .. PathFragLen
  PROVE  DOMAIN DynptrWrite(buf, off, data) = 1 .. PathFragLen
BY DEF DynptrWrite

(* What assemble_pathfrag does to the buffer: n characters of the name s,  *)
(* and a "/" where the name of len characters ends.                        *)
Assembled(buf, cp, s, n, len, it, num) ==
  LET b == DynptrWrite(buf, cp, SubSeq(s, 1, n))
  IN  IF it >= num - 1 THEN b ELSE DynptrWrite(b, cp + len, <<"/">>)

Stepped(new, buf, cp, s, n, len, it, num, x) ==
  new[x] = IF x <= cp THEN buf[x]
           ELSE IF x <= cp + n THEN s[x - cp]
           ELSE IF ~ (it >= num - 1) /\ x = cp + len + 1 THEN "/" ELSE buf[x]

(* What assemble_pathfrag leaves at x. *)
LEMMA AssembledAt ==
  ASSUME NEW buf, DOMAIN buf = 1 .. PathFragLen, NEW cp \in Nat, NEW s \in Seq(STRING),
         NEW n \in Nat, n <= Len(s), cp + n <= PathFragLen, NEW len \in Nat, n <= len,
         NEW it \in Nat, NEW num \in Nat, NEW x \in 1 .. PathFragLen
  PROVE  Stepped(Assembled(buf, cp, s, n, len, it, num), buf, cp, s, n, len, it, num, x)
<1> DEFINE data == SubSeq(s, 1, n)
           b == DynptrWrite(buf, cp, data)
<1>1. Len(data) = n /\ \A y \in 1 .. n : data[y] = s[y]
  BY SubSeqProperties
<1> HIDE DEF data
<1>2. b[x] = IF cp < x /\ x <= cp + n THEN data[x - cp] ELSE buf[x]
  <2>1. Len(data) \in Nat
    BY <1>1
  <2>2. Written(b, buf, cp, data, x)
    BY <2>1, WriteAt
  <2> QED BY <1>1, <2>2 DEF Written
<1>3. cp < x /\ x <= cp + n => x - cp \in 1 .. n
  OBVIOUS
<1>4. b[x] = IF x <= cp THEN buf[x] ELSE IF x <= cp + n THEN s[x - cp] ELSE buf[x]
  BY <1>1, <1>2, <1>3
<1>5. DOMAIN b = 1 .. PathFragLen
  BY WriteKeepsSize
<1> HIDE DEF b
<1>6. CASE it >= num - 1
  <2>1. Assembled(buf, cp, s, n, len, it, num) = b
    BY <1>6 DEF Assembled, b, data
  <2> QED BY <1>4, <1>6, <2>1 DEF Stepped
<1>7. CASE ~ (it >= num - 1)
  <2> DEFINE sl == <<"/">>
  <2>1. Assembled(buf, cp, s, n, len, it, num) = DynptrWrite(b, cp + len, sl)
    BY <1>7 DEF Assembled, b, data
  <2>2. Len(sl) = 1 /\ sl[1] = "/"
    OBVIOUS
  <2> HIDE DEF sl
  <2>3. DynptrWrite(b, cp + len, sl)[x] =
          IF cp + len + Len(sl) <= PathFragLen /\ cp + len < x /\ x <= cp + len + Len(sl)
          THEN sl[x - (cp + len)] ELSE b[x]
    <3>1. PICK o \in Nat : o = cp + len
      OBVIOUS
    <3>2. Len(sl) \in Nat
      BY <2>2
    <3>3. Written(DynptrWrite(b, o, sl), b, o, sl, x)
      BY <1>5, <3>2, WriteAt
    <3> QED BY <3>1, <3>3 DEF Written
  <2>4. CASE x = cp + len + 1
    <3>1. x - (cp + len) = 1 /\ cp + len + 1 <= PathFragLen /\ cp + len < x /\ x <= cp + len + 1
          /\ ~ (x <= cp) /\ ~ (x <= cp + n)
      BY <2>4, ConstantsAssumption
    <3> QED
      <4>1. cp + len + Len(sl) <= PathFragLen /\ cp + len < x /\ x <= cp + len + Len(sl)
        BY <2>2, <3>1
      <4>2. DynptrWrite(b, cp + len, sl)[x] = sl[x - (cp + len)]
        BY <2>3, <4>1, Zenon
      <4>3. Assembled(buf, cp, s, n, len, it, num)[x] = "/"
        BY <2>1, <2>2, <3>1, <4>2
      <4> QED BY <1>7, <2>4, <3>1, <4>3, Zenon DEF Stepped
  <2>5. CASE x # cp + len + 1
    <3>1. ~ (cp + len < x /\ x <= cp + len + 1)
      BY <2>5
    <3>2. DynptrWrite(b, cp + len, sl)[x] = b[x]
      BY <2>2, <2>3, <3>1
    <3>3. Assembled(buf, cp, s, n, len, it, num)[x] = b[x]
      BY <2>1, <3>2
    <3>4. ~ (~ (it >= num - 1) /\ x = cp + len + 1)
      BY <2>5
    <3> QED BY <1>4, <3>3, <3>4, Zenon DEF Stepped
  <2> QED BY <2>4, <2>5
<1> QED BY <1>6, <1>7

(* Components of P that are still to be put into the fragment. *)
Pending(P, ring, k, it) ==
  \A j \in 1 .. Len(P) : it < j /\ j <= NumComp => ring[Mod(k - j)] = Comp(P[j])

(* The fragment holds C up to cp; it holds what fits of C; nothing more.   *)
Shows(C, buf, cp) == \A x \in 1 .. PathFragLen : buf[x] = IF x <= cp THEN C[x] ELSE ""
Matches(C, buf) == \A x \in 1 .. PathFragLen : x <= Len(C) => buf[x] = C[x]
Blank(C, buf) == \A x \in 1 .. PathFragLen : x > Len(C) => buf[x] = ""

(* The fragment holds a first part of C that ends before component it + 1, *)
(* the "/" of which is written.                                            *)
Partial(P, C, off, buf, cp, it) ==
  /\ it < Len(P) /\ cp = off[it] + 1 /\ cp <= PathFragLen
  /\ Shows(C, buf, cp)

(* The fragment holds all of C that fits. *)
Whole(C, buf, cp) ==
  /\ cp >= PathFragLen \/ cp >= Len(C)
  /\ Matches(C, buf)

(* ... and nothing else, and nothing will be added. *)
Closed(C, buf, it, num) ==
  /\ it >= num \/ Len(C) >= PathFragLen
  /\ Blank(C, buf)

(* The state of the assembly of the path P, of which the k components read *)
(* are the last ones. *)
Assembly(P, buf, cp, it, ring, k, num) ==
  /\ Pending(P, ring, k, it) /\ Len(P) <= k /\ num = Least(NumComp, k)
  /\ \E off : /\ Laid(P, Characters(P), off)
              /\ \/ Partial(P, Characters(P), off, buf, cp, it)
                 \/ /\ Whole(Characters(P), buf, cp)
                    /\ Len(P) = k => Closed(Characters(P), buf, it, num)

(* The fragment of a path that is assembled. *)
LEMMA AssemblyDone ==
  ASSUME NEW P \in Paths, \A i \in 1 .. Len(P) : ProperName(P[i]),
         NEW buf, DOMAIN buf = 1 .. PathFragLen, NEW cp \in 0 .. (PathFragLen + 1),
         NEW it \in Nat, NEW ring, NEW k \in Nat, NEW num \in Nat,
         Assembly(P, buf, cp, it, ring, k, num), it >= num \/ cp \notin 0 .. PathFragLen
  PROVE  /\ Matches(Characters(P), buf)
         /\ Len(P) = k => Blank(Characters(P), buf)
<1> DEFINE C == Characters(P)
<1>1. PICK off : /\ Laid(P, C, off)
                 /\ \/ Partial(P, C, off, buf, cp, it)
                    \/ Whole(C, buf, cp) /\ (Len(P) = k => Closed(C, buf, it, num))
  BY DEF Assembly
<1> HIDE DEF C
<1>2. ASSUME Partial(P, C, off, buf, cp, it) PROVE FALSE
  <2>1. Len(P) \in Nat /\ Len(P) <= k /\ num = Least(NumComp, k)
    BY LenProperties DEF Assembly, Paths
  <2>2. it < Len(P) /\ cp = off[it] + 1 /\ cp <= PathFragLen
    BY <1>2 DEF Partial
  <2>3. it >= NumComp
    BY <2>1, <2>2, ConstantsAssumption DEF Least
  <2>4. \A i \in 0 .. Len(P) : off[i] >= 2 * i
    BY <1>1, LayoutGrows
  <2>5. off[it] \in Nat /\ off[it] >= 2 * it
    BY <1>1, <2>1, <2>2, <2>4 DEF Laid
  <2> QED BY <2>2, <2>3, <2>5, ConstantsAssumption, SizesAssumption
<1>3. Whole(C, buf, cp) /\ (Len(P) = k => Closed(C, buf, it, num))
  BY <1>1, <1>2
<1> QED BY <1>3 DEF Whole, Closed, Matches, Blank, C

(* partial_d_path starts the assembly of an absolute path with its "/". *)
LEMMA AssemblyStart ==
  ASSUME NEW P \in Paths, NEW buf, buf = DynptrWrite(ZeroBuf, 0, <<"/">>),
         NEW ring, NEW k \in Nat, Read(P, <<>>, ring, k)
  PROVE  Assembly(P, buf, 1, 0, ring, k, Least(NumComp, k))
<1> DEFINE C == Characters(P)
           sl == <<"/">>
<1>1. PICK off : Laid(P, C, off)
  BY Layout
<1>2. Len(P) \in Nat /\ Len(<<>>) = 0
  BY LenProperties DEF Paths
<1>3. Pending(P, ring, k, 0) /\ Len(P) <= k
  BY <1>2 DEF Pending, Read
<1>4. Len(sl) = 1 /\ sl[1] = "/"
  OBVIOUS
<1> HIDE DEF sl, C
<1>5. ASSUME NEW x \in 1 .. PathFragLen PROVE buf[x] = IF x <= 1 THEN "/" ELSE ""
  <2>1. DOMAIN ZeroBuf = 1 .. PathFragLen /\ ZeroBuf[x] = ""
    BY DEF ZeroBuf
  <2>2. buf[x] = IF 0 + Len(sl) <= PathFragLen /\ 0 < x /\ x <= 0 + Len(sl)
                 THEN sl[x - 0] ELSE ZeroBuf[x]
    <3>1. PICK o \in Nat : o = 0
      OBVIOUS
    <3>2. Len(sl) \in Nat /\ buf = DynptrWrite(ZeroBuf, o, sl)
      BY <1>4, <3>1 DEF sl
    <3>3. Written(DynptrWrite(ZeroBuf, o, sl), ZeroBuf, o, sl, x)
      BY <2>1, <3>2, WriteAt
    <3> QED BY <3>1, <3>2, <3>3 DEF Written
  <2>3. CASE x = 1
    <3>1. 0 + Len(sl) <= PathFragLen /\ 0 < x /\ x <= 0 + Len(sl) /\ x - 0 = 1
      BY <1>4, <2>3, ConstantsAssumption
    <3>2. buf[x] = "/"
      BY <1>4, <2>2, <3>1
    <3> QED BY <2>3, <3>2
  <2>4. CASE x # 1
    <3>1. ~ (x <= 0 + Len(sl)) /\ ~ (x <= 1)
      BY <1>4, <2>4
    <3>2. buf[x] = ""
      BY <2>1, <2>2, <3>1
    <3> QED BY <3>1, <3>2
  <2> QED BY <2>3, <2>4
<1>6. CASE Len(P) = 0
  <2>1. Len(C) = 1 /\ C[1] = "/"
    BY <1>1, <1>6 DEF Laid
  <2>2. Whole(C, buf, 1)
    <3>1. ASSUME NEW x \in 1 .. PathFragLen, x <= Len(C) PROVE buf[x] = C[x]
      <4>1. x = 1
        BY <2>1, <3>1
      <4>2. buf[x] = IF x <= 1 THEN "/" ELSE ""
        BY <1>5, Zenon
      <4>3. x <= 1
        BY <4>1
      <4> QED BY <2>1, <4>1, <4>2, <4>3
    <3> QED BY <2>1, <3>1 DEF Whole, Matches
  <2>3. Len(P) = k => Closed(C, buf, 0, Least(NumComp, k))
    <3>1. ASSUME NEW x \in 1 .. PathFragLen, x > Len(C) PROVE buf[x] = ""
      <4>1. ~ (x <= 1)
        BY <2>1, <3>1
      <4> QED BY <1>5, <4>1
    <3>2. Len(P) = k => 0 >= Least(NumComp, k)
      <4>1. k = 0 => Least(NumComp, k) = 0
        BY ConstantsAssumption DEF Least
      <4> QED BY <1>6, <4>1
    <3> QED BY <3>1, <3>2 DEF Closed, Blank
  <2> QED BY <1>1, <1>3, <2>2, <2>3 DEF Assembly, C
<1>7. CASE Len(P) # 0
  <2>1. off[0] = 0 /\ 1 \in 1 .. Len(P) /\ 1 - 1 = 0
    BY <1>1, <1>2, <1>7 DEF Laid
  <2>2. C[off[1 - 1] + 1] = "/"
    BY <1>1, <2>1 DEF Laid
  <2>3. C[1] = "/"
    BY <2>1, <2>2
  <2>4. Partial(P, C, off, buf, 1, 0)
    <3>1. ASSUME NEW x \in 1 .. PathFragLen PROVE buf[x] = IF x <= 1 THEN C[x] ELSE ""
      <4>1. x <= 1 => x = 1
        OBVIOUS
      <4> QED BY <1>5, <2>3, <4>1
    <3>2. 0 < Len(P) /\ 1 = off[0] + 1 /\ 1 <= PathFragLen
      BY <1>2, <1>7, <2>1, ConstantsAssumption
    <3> QED BY <3>1, <3>2 DEF Partial, Shows
  <2> QED BY <1>1, <1>3, <2>4 DEF Assembly, C
<1> QED BY <1>6, <1>7

-----------------------------------------------------------------------------
(* A step of assemble_pathfrag.                                            *)

RingOK(comps) ==
  /\ comps \in [0 .. (NumComp - 1) -> Component]
  /\ \A i \in 0 .. (NumComp - 1) : /\ Len(comps[i].pathcomp) < PathCompLen
                                   /\ comps[i].len <= Len(comps[i].pathcomp)

(* What the sizes are assumed to be. *)
LEMMA Sizes ==
  /\ PathFragLen \in Nat /\ PathFragLen >= 1 /\ PathCompLen \in Nat /\ NumComp \in Nat
  /\ NumComp >= 1 /\ PathCompLen >= 2 /\ PathCompLen >= PathFragLen
  /\ 2 * NumComp >= PathFragLen /\ MaxParent \in Nat /\ MaxParentLoop \in Nat
BY ConstantsAssumption, SizesAssumption

(* How much of a name of q characters is copied. *)
CopiedOf(q, cp, cl, len, n) ==
  /\ q > PathFragLen - cp => n = PathFragLen - cp
  /\ ~ (q > PathFragLen - cp) => len = q /\ n = q
  /\ cl \in Nat /\ cl <= q /\ n <= cl

(* The two minima of assemble_pathfrag: all of the name, or all of the room. *)
LEMMA Copying ==
  ASSUME NEW cp \in 1 .. PathFragLen, NEW q \in Nat, NEW cl, NEW len, NEW n,
         cl = Least(q, PathCompLen - 1), len = Least(cl, PathFragLen),
         n = Least(len, PathFragLen - cp)
  PROVE  CopiedOf(q, cp, cl, len, n)
BY Sizes DEF Least, CopiedOf

(* What is used of a name that path_walk_step read. *)
LEMMA CompOf ==
  ASSUME NEW s \in Seq(STRING)
  PROVE  /\ Comp(s).len = Least(Len(s), PathCompLen - 1) /\ Comp(s).len \in Nat
         /\ Comp(s).pathcomp \in Seq(STRING) /\ Len(Comp(s).pathcomp) = Comp(s).len
         /\ \A y \in 1 .. Comp(s).len : Comp(s).pathcomp[y] = s[y]
<1> DEFINE n == Least(Len(s), PathCompLen - 1)
<1>1. n \in Nat /\ n <= Len(s)
  BY Sizes DEF Least
<1> HIDE DEF n
<1>2. SubSeq(s, 1, n) \in Seq(STRING) /\ Len(SubSeq(s, 1, n)) = n
      /\ \A y \in 1 .. n : SubSeq(s, 1, n)[y] = s[y]
  BY <1>1, SubSeqProperties
<1>3. Comp(s) = [len |-> Len(SubSeq(s, 1, n)), pathcomp |-> SubSeq(s, 1, n)]
  BY DEF Comp, ReadStr, n
<1> QED BY <1>1, <1>2, <1>3 DEF n

(* The components that are to follow are not touched. *)
LEMMA PendingKept ==
  ASSUME NEW P \in Paths, NEW ring, RingOK(ring), NEW k \in Nat, NEW it \in Nat,
         Pending(P, ring, k, it), NEW elem, elem = Mod(k - (it + 1)), NEW c, it < NumComp
  PROVE  Pending(P, [ring EXCEPT ![elem] = c], k, it + 1)
<1> SUFFICES ASSUME NEW j \in 1 .. Len(P), it + 1 < j, j <= NumComp
             PROVE  [ring EXCEPT ![elem] = c][Mod(k - j)] = Comp(P[j])
  BY DEF Pending
<1>0. Len(P) \in Nat
  BY LenProperties DEF Paths
<1>1. k - j \in Int /\ k - (it + 1) \in Int /\ k - j < k - (it + 1)
      /\ (k - (it + 1)) - (k - j) < NumComp /\ it < j
  BY <1>0, Sizes
<1>2. Mod(k - j) # elem
  BY <1>1, ModApart
<1>3. Mod(k - j) \in 0 .. (NumComp - 1)
  BY <1>1, ModRange
<1>4. ring[Mod(k - j)] = Comp(P[j])
  BY <1>1 DEF Pending
<1>5. DOMAIN ring = 0 .. (NumComp - 1)
  BY DEF RingOK
<1> QED BY <1>2, <1>3, <1>4, <1>5

(* A step behind the path leaves it alone. *)
LEMMA WholeKept ==
  ASSUME NEW C, Len(C) \in Nat, NEW buf, DOMAIN buf = 1 .. PathFragLen, NEW cp \in Nat,
         NEW s \in Seq(STRING), NEW n \in Nat, n <= Len(s), cp + n <= PathFragLen,
         NEW len \in Nat, n <= len, NEW it \in Nat, NEW num \in Nat, Whole(C, buf, cp),
         NEW cp2 \in Nat, cp <= cp2
  PROVE  Whole(C, Assembled(buf, cp, s, n, len, it, num), cp2)
<1>1. cp2 >= PathFragLen \/ cp2 >= Len(C)
  BY Sizes DEF Whole
<1>2. ASSUME NEW x \in 1 .. PathFragLen, x <= Len(C)
      PROVE  Assembled(buf, cp, s, n, len, it, num)[x] = C[x]
  <2>1. x <= cp
    BY <1>2, Sizes DEF Whole
  <2>2. Stepped(Assembled(buf, cp, s, n, len, it, num), buf, cp, s, n, len, it, num, x)
    BY AssembledAt
  <2>3. Assembled(buf, cp, s, n, len, it, num)[x] = buf[x]
    BY <2>1, <2>2, Zenon DEF Stepped
  <2> QED BY <1>2, <2>3 DEF Whole, Matches
<1> QED BY <1>1, <1>2 DEF Whole, Matches

(* What the next name is in the layout: numbers and text. *)
NameSize(P, C, off, it) ==
  /\ P[it + 1] \in Seq(STRING) /\ Len(P[it + 1]) \in Nat
  /\ off[it] \in Nat /\ off[it + 1] \in Nat /\ off[it + 1] = off[it] + 1 + Len(P[it + 1])
  /\ Len(C) \in Nat /\ Len(C) >= off[it + 1]
  /\ it + 1 = Len(P) => Len(C) = off[it + 1]
  /\ off[it + 1] >= 2 * (it + 1)

NameText(P, C, off, it) ==
  /\ \A x \in 1 .. Len(P[it + 1]) : C[off[it] + 1 + x] = P[it + 1][x]
  /\ it + 1 < Len(P) => C[off[it + 1] + 1] = "/"

(* A layout has both for the next name. *)
LEMMA NextName ==
  ASSUME NEW P \in Paths, NEW C, NEW off, Laid(P, C, off),
         \A i \in 1 .. Len(P) : ProperName(P[i]),
         NEW it \in Nat, it < Len(P)
  PROVE  NameSize(P, C, off, it) /\ NameText(P, C, off, it)
<1>1. Len(P) \in Nat /\ it + 1 \in 1 .. Len(P) /\ it + 1 \in 0 .. Len(P)
      /\ it \in 0 .. Len(P) /\ (it + 1) - 1 = it
  BY LenProperties DEF Paths
<1>2. P[it + 1] \in Seq(STRING) /\ Len(P[it + 1]) \in Nat
  BY <1>1, LenProperties DEF Paths
<1>3. /\ off[it + 1] = off[(it + 1) - 1] + 1 + Len(P[it + 1])
      /\ \A x \in 1 .. Len(P[it + 1]) : C[off[(it + 1) - 1] + 1 + x] = P[it + 1][x]
  BY <1>1, Zenon DEF Laid
<1>4. \A i \in 0 .. Len(P) : off[i] >= 2 * i /\ off[i] <= off[Len(P)]
  BY LayoutGrows
<1>5. off \in [0 .. Len(P) -> Nat] /\ Len(C) = off[Len(P)]
  BY <1>1 DEF Laid
<1>6. off[it] \in Nat /\ off[it + 1] \in Nat /\ off[Len(P)] \in Nat
  BY <1>1, <1>5
<1>7. it + 1 < Len(P) => C[off[it + 1] + 1] = "/"
  <2> SUFFICES ASSUME it + 1 < Len(P) PROVE C[off[it + 1] + 1] = "/"
    OBVIOUS
  <2>1. (it + 1) + 1 \in 1 .. Len(P) /\ ((it + 1) + 1) - 1 = it + 1
    BY <1>1
  <2>2. C[off[((it + 1) + 1) - 1] + 1] = "/"
    BY <2>1, Zenon DEF Laid
  <2> QED BY <2>1, <2>2
<1>8. off[it + 1] >= 2 * (it + 1) /\ off[it + 1] <= off[Len(P)]
  BY <1>1, <1>4
<1>9. NameSize(P, C, off, it)
  BY <1>1, <1>2, <1>3, <1>5, <1>6, <1>8 DEF NameSize
<1>10. NameText(P, C, off, it)
  BY <1>1, <1>3, <1>7 DEF NameText
<1> QED BY <1>9, <1>10

(* The lengths of assemble_pathfrag: of the name, of what it copies, and   *)
(* where it writes next.                                                   *)
Lengths(ls, cl, cp, len, n) ==
  /\ len \in Nat /\ n \in Nat /\ n <= len /\ n <= ls /\ n <= cl /\ cp + n <= PathFragLen
  /\ len <= cl /\ (len = cl \/ len = PathFragLen)
  /\ (n = len \/ n = PathFragLen - cp)
  /\ cl > 0 /\ cp = 0 => n >= 1

(* The minima give them. *)
LEMMA StepSizes ==
  ASSUME NEW ls \in Nat, NEW cl \in Nat, cl <= ls, NEW cp \in 0 .. PathFragLen,
         NEW len, len = Least(cl, PathFragLen), NEW n, n = Least(len, PathFragLen - cp)
  PROVE  Lengths(ls, cl, cp, len, n)
BY Sizes DEF Least, Lengths

Advances(cp, n, cp2, last) ==
  /\ cp2 \in Nat /\ cp + n <= cp2
  /\ last => cp2 = cp + n
  /\ ~ last => cp2 = cp + n + 1

(* copied moves on. *)
LEMMA StepAdvances ==
  ASSUME NEW cp \in Nat, NEW n \in Nat, NEW last, NEW cp2, cp2 = cp + n + (IF last THEN 0 ELSE 1)
  PROVE  Advances(cp, n, cp2, last)
BY DEF Advances

(* Where a character is: in what is copied, the "/" behind it, or further. *)
Places(x, cp, n, len, cp2) ==
  /\ x <= cp + n => x <= cp2
  /\ x = cp + n + 1 => x <= cp2 /\ ~ (x <= cp) /\ ~ (x <= cp + n) /\ x = cp + len + 1
  /\ x > cp + n + 1 => ~ (x <= cp2) /\ ~ (x <= cp) /\ ~ (x <= cp + n) /\ x # cp + len + 1
  /\ x <= cp + n \/ x = cp + n + 1 \/ x > cp + n + 1

(* One of the three. *)
LEMMA PlaceOf ==
  ASSUME NEW x \in Nat, NEW cp \in Nat, NEW n \in Nat, NEW len, len = n,
         NEW cp2, cp2 = cp + n + 1
  PROVE  Places(x, cp, n, len, cp2)
BY DEF Places

(* assemble_pathfrag keeps the assembly. *)
LEMMA AssemblyStep ==
  ASSUME NEW P \in Paths, \A i \in 1 .. Len(P) : ProperName(P[i]),
         NEW buf, DOMAIN buf = 1 .. PathFragLen, NEW cp \in 0 .. PathFragLen,
         NEW it \in Nat, NEW ring, RingOK(ring), NEW k \in Nat, NEW num \in Nat,
         Assembly(P, buf, cp, it, ring, k, num), it < num,
         NEW elem, elem = Mod(k - (it + 1)), NEW comp, comp = ring[elem],
         NEW len, len = Least(comp.len, PathFragLen), NEW n, n = Least(len, PathFragLen - cp),
         NEW c
  PROVE  Assembly(P, Assembled(buf, cp, comp.pathcomp, n, len, it, num),
                  cp + n + (IF it >= num - 1 THEN 0 ELSE 1), it + 1, [ring EXCEPT ![elem] = c], k, num)
<1> USE Sizes
<1> DEFINE C == Characters(P)
           s == comp.pathcomp
           new == Assembled(buf, cp, s, n, len, it, num)
           cp2 == cp + n + (IF it >= num - 1 THEN 0 ELSE 1)
<1>1. PICK off : /\ Laid(P, C, off)
                 /\ \/ Partial(P, C, off, buf, cp, it)
                    \/ Whole(C, buf, cp) /\ (Len(P) = k => Closed(C, buf, it, num))
  BY DEF Assembly
<1>2. Len(P) \in Nat /\ Len(P) <= k /\ num = Least(NumComp, k) /\ Pending(P, ring, k, it)
  BY LenProperties DEF Assembly, Paths
<1>3. it < NumComp /\ num <= NumComp /\ num <= k /\ (num = NumComp \/ num = k)
  BY <1>2, Sizes DEF Least
<1>4. Pending(P, [ring EXCEPT ![elem] = c], k, it + 1)
  BY <1>2, <1>3, PendingKept
<1>5. elem \in 0 .. (NumComp - 1)
  BY ModRange
<1>6. s \in Seq(STRING) /\ Len(s) \in Nat /\ comp.len \in Nat /\ comp.len <= Len(s)
  BY <1>5, LenProperties DEF RingOK, Component
<1>7. /\ len \in Nat /\ n \in Nat /\ n <= len /\ n <= Len(s) /\ cp + n <= PathFragLen
      /\ len <= comp.len /\ (len = comp.len \/ len = PathFragLen)
      /\ (n = len \/ n = PathFragLen - cp)
  <2>1. Lengths(Len(s), comp.len, cp, len, n)
    BY <1>6, StepSizes, Zenon
  <2> QED BY <2>1, Zenon DEF Lengths
<1>8. cp2 \in Nat /\ cp + n <= cp2 /\ (it >= num - 1 => cp2 = cp + n) /\ (~ (it >= num - 1) => cp2 = cp + n + 1)
  <2>1. cp \in Nat /\ n \in Nat
    BY <1>7
  <2>2. Advances(cp, n, cp2, it >= num - 1)
    BY <2>1, StepAdvances, Zenon
  <2> QED BY <2>2, Zenon DEF Advances
<1>9. ASSUME NEW x \in 1 .. PathFragLen
      PROVE  Stepped(new, buf, cp, s, n, len, it, num, x)
  <2>1. cp \in Nat
    OBVIOUS
  <2> HIDE DEF s
  <2> QED BY <1>6, <1>7, <2>1, AssembledAt
<1>10. Len(C) \in Nat
  BY <1>1, <1>2 DEF Laid
<1>11. SUFFICES \/ Partial(P, C, off, new, cp2, it + 1)
                \/ /\ Whole(C, new, cp2)
                   /\ Len(P) = k => Closed(C, new, it + 1, num)
  BY <1>1, <1>2, <1>4 DEF Assembly
<1> HIDE DEF C, s, cp2
<1>12. CASE Whole(C, buf, cp) /\ (Len(P) = k => Closed(C, buf, it, num))
  <2>1. cp \in Nat /\ cp <= cp2
    BY <1>7, <1>8
  <2>2. Whole(C, new, cp2)
    BY <1>6, <1>7, <1>8, <1>10, <1>12, <2>1, WholeKept
  <2>3. Len(P) = k => Len(C) >= PathFragLen
    BY <1>12, Sizes DEF Closed
  <2>4. Len(C) >= PathFragLen => Blank(C, new)
    <3>1. Len(C) >= PathFragLen => \A x \in 1 .. PathFragLen : ~ (x > Len(C))
      BY <1>10
    <3> QED BY <3>1, Zenon DEF Blank
  <2>5. Len(P) = k => Closed(C, new, it + 1, num)
    BY <2>3, <2>4 DEF Closed
  <2> QED BY <2>2, <2>5
<1> HIDE DEF new
<1>13. CASE Partial(P, C, off, buf, cp, it)
  <2> DEFINE Q == P[it + 1]
             q == Len(Q)
  <2>1. /\ it < Len(P) /\ cp = off[it] + 1 /\ cp <= PathFragLen
        /\ Shows(C, buf, cp)
    BY <1>13 DEF Partial
  <2>0. NameSize(P, C, off, it) /\ NameText(P, C, off, it)
    BY <1>1, <2>1, NextName
  <2>2. /\ Q \in Seq(STRING) /\ q \in Nat /\ off[it] \in Nat /\ off[it + 1] \in Nat
        /\ off[it + 1] = off[it] + 1 + q
        /\ Len(C) >= off[it + 1]
        /\ it + 1 = Len(P) => Len(C) = off[it + 1]
        /\ off[it + 1] >= 2 * (it + 1)
    BY <2>0, Zenon DEF NameSize
  <2>t. /\ \A x \in 1 .. q : C[off[it] + 1 + x] = Q[x]
        /\ it + 1 < Len(P) => C[off[it + 1] + 1] = "/"
    BY <2>0, Zenon DEF NameText
  <2> HIDE DEF Q
  <2>3. comp = Comp(Q)
    <3>1. it + 1 \in 1 .. Len(P) /\ it < it + 1 /\ it + 1 <= NumComp
      <4>1. PICK l \in Nat : l = Len(P)
        BY <1>2
      <4>2. NumComp \in Nat /\ it < NumComp /\ it < l
        BY <1>3, <2>1, <4>1
      <4>3. it + 1 \in 1 .. l /\ it < it + 1 /\ it + 1 <= NumComp
        BY <4>2
      <4> QED BY <4>1, <4>3, Zenon
    <3>2. PICK j \in 1 .. Len(P) : j = it + 1
      BY <3>1
    <3>3. ring[Mod(k - j)] = Comp(P[j])
      BY <1>2, <3>1, <3>2, Zenon DEF Pending
    <3> QED BY <3>2, <3>3, Zenon DEF Q
  <2>4. /\ comp.len = Least(q, PathCompLen - 1) /\ Len(s) = comp.len
    BY <2>2, <2>3, CompOf DEF s
  <2>s. \A y \in 1 .. comp.len : s[y] = Q[y]
    <3>1. \A y \in 1 .. Comp(Q).len : Comp(Q).pathcomp[y] = Q[y]
      BY <2>2, CompOf
    <3> QED BY <2>3, <3>1 DEF s
  <2> HIDE DEF q
  <2>m. PICK o1 \in Nat : o1 = off[it]
    BY <2>2
  <2>n. cp = o1 + 1 /\ cp <= PathFragLen
    BY <2>1, <2>m, Zenon
  <2>12. cp \in 1 .. PathFragLen /\ cp \in Nat /\ cp >= 1
    BY <2>n
  <2>l. PICK cl : cl = comp.len
    OBVIOUS
  <2>11. /\ q > PathFragLen - cp => n = PathFragLen - cp
         /\ ~ (q > PathFragLen - cp) => len = q /\ n = q
         /\ comp.len \in Nat /\ comp.len <= q /\ n <= comp.len
    <3>1. q \in Nat /\ cl = Least(q, PathCompLen - 1) /\ len = Least(cl, PathFragLen)
      BY <2>2, <2>4, <2>l
    <3>2. /\ q > PathFragLen - cp => n = PathFragLen - cp
          /\ ~ (q > PathFragLen - cp) => len = q /\ n = q
          /\ cl \in Nat /\ cl <= q /\ n <= cl
      <4>1. cp \in 1 .. PathFragLen
        BY <2>12
      <4>2. CopiedOf(q, cp, cl, len, n)
        BY <3>1, <4>1, Copying, Zenon
      <4> QED BY <4>2 DEF CopiedOf
    <3> QED BY <3>2, <2>l
  <2>5. \A y \in 1 .. n : s[y] = C[cp + y]
    <3>1. comp.len <= q
      BY <2>11
    <3>2. ASSUME NEW y \in 1 .. n PROVE s[y] = C[cp + y]
      <4>1. y \in 1 .. comp.len /\ y \in 1 .. q
        <5>1. cl \in Nat /\ cl <= q /\ n <= cl /\ q \in Nat /\ n \in Nat
          BY <1>7, <2>11, <2>l, <2>2
        <5>2. y \in 1 .. cl /\ y \in 1 .. q
          BY <5>1
        <5> QED BY <5>2, <2>l
      <4> QED BY <2>1, <2>t, <2>s, <4>1
    <3> QED BY <3>2
  <2>6. \A x \in 1 .. PathFragLen : x <= cp + n => new[x] = C[x]
    <3>1. ASSUME NEW x \in 1 .. PathFragLen, x <= cp + n PROVE new[x] = C[x]
      <4>1. CASE x <= cp
        <5>1. new[x] = buf[x]
          BY <1>9, <4>1, Zenon DEF Stepped
        <5> QED BY <2>1, <4>1, <5>1 DEF Shows
      <4>2. CASE ~ (x <= cp)
        <5>1. x - cp \in 1 .. n /\ cp + (x - cp) = x
          BY <1>7, <3>1, <4>2
        <5>2. new[x] = s[x - cp]
          BY <1>9, <3>1, <4>2, Zenon DEF Stepped
        <5> QED BY <2>5, <5>1, <5>2
      <4> QED BY <4>1, <4>2
    <3> QED BY <3>1
  <2>p. PICK o2 \in Nat : o2 = off[it + 1]
    BY <2>2
  <2>7. o2 = cp + q /\ Len(C) >= cp + q /\ o2 >= 2 * (it + 1) /\ q \in Nat
    <3>1. o2 = o1 + 1 + q /\ Len(C) >= o2 /\ o2 >= 2 * (it + 1) /\ q \in Nat
      BY <2>2, <2>m, <2>p, Zenon
    <3> QED BY <2>n, <3>1
  <2>8. ASSUME cp + n = PathFragLen, Len(C) >= PathFragLen
        PROVE  Whole(C, new, cp2) /\ Closed(C, new, it + 1, num)
    <3>1. cp2 >= PathFragLen
      BY <1>7, <1>8, <2>8, Sizes
    <3>2. Whole(C, new, cp2)
      BY <2>6, <2>8, <3>1 DEF Whole, Matches
    <3>4. Blank(C, new)
      <4>1. \A x \in 1 .. PathFragLen : ~ (x > Len(C))
        BY <1>10, <2>8
      <4> QED BY <4>1, Zenon DEF Blank
    <3>3. Closed(C, new, it + 1, num)
      BY <2>8, <3>4 DEF Closed
    <3> QED BY <3>2, <3>3
  <2>9. CASE q > PathFragLen - cp
    <3>2. n = PathFragLen - cp
      BY <2>9, <2>11
    <3>3. cp + n = PathFragLen /\ Len(C) >= PathFragLen
      BY <1>10, <2>7, <2>9, <2>12, <3>2
    <3> QED BY <2>8, <3>3
  <2>10. CASE ~ (q > PathFragLen - cp)
    <3>2. len = q /\ n = q
      BY <2>10, <2>11
    <3>3. CASE it + 1 = Len(P)
      <4>1. Len(C) = cp + n
        BY <2>2, <2>7, <2>p, <3>2, <3>3
      <4>2. Whole(C, new, cp2)
        BY <1>8, <2>6, <4>1 DEF Whole, Matches
      <4>3. ASSUME Len(P) = k PROVE Closed(C, new, it + 1, num)
        <5>1. it + 1 >= num /\ it >= num - 1
          BY <1>2, <1>3, <3>3, <4>3
        <5>2. ASSUME NEW x \in 1 .. PathFragLen, x > Len(C) PROVE new[x] = ""
          <6>1. ~ (x <= cp) /\ ~ (x <= cp + n)
            <7>1. PICK y \in Nat : y = x
              OBVIOUS
            <7>2. y > cp + n /\ cp \in Nat /\ n \in Nat
              BY <1>7, <2>12, <4>1, <5>2, <7>1, Zenon
            <7>3. ~ (y <= cp) /\ ~ (y <= cp + n)
              BY <7>2
            <7> QED BY <7>1, <7>3, Zenon
          <6>2. new[x] = buf[x]
            BY <1>9, <5>1, <6>1, Zenon DEF Stepped
          <6> QED BY <2>1, <6>1, <6>2 DEF Shows
        <5> QED BY <5>1, <5>2 DEF Closed, Blank
      <4> QED BY <4>2, <4>3
    <3>4. CASE it + 1 < Len(P) /\ it >= num - 1
      <4>1. it + 1 = NumComp
        BY <1>2, <1>3, <3>4, Sizes
      <4>2. cp + n = PathFragLen /\ Len(C) >= PathFragLen
        <5>1. cp + n <= PathFragLen /\ o2 = cp + n /\ Len(C) >= cp + n /\ o2 >= 2 * NumComp
          BY <1>7, <2>7, <3>2, <4>1, Zenon
        <5>2. cp + n >= 2 * NumComp /\ cp + n \in Nat
          BY <1>7, <2>12, <5>1
        <5>3. cp + n = PathFragLen
          BY <5>1, <5>2, Sizes
        <5> QED BY <5>1, <5>3, Zenon
      <4> QED BY <2>8, <4>2
    <3>5. CASE it + 1 < Len(P) /\ ~ (it >= num - 1)
      <4>1. CASE cp + n = PathFragLen
        <5>1. Len(C) >= PathFragLen
          BY <2>7, <3>2, <4>1
        <5> QED BY <2>8, <4>1, <5>1
      <4>2. CASE cp + n # PathFragLen
        <5>0. cp2 = o2 + 1 /\ cp2 <= PathFragLen /\ cp2 = cp + n + 1
          <6>1. cp2 = cp + n + 1
            BY <1>8, <3>5, Zenon
          <6>2. n = q /\ n \in Nat /\ cp + n <= PathFragLen
            BY <1>7, <3>2
          <6>3. o2 = cp + q /\ cp \in Nat
            BY <2>7, <2>12
          <6>4. o2 = cp + n
            BY <6>2, <6>3
          <6>5. cp + n + 1 <= PathFragLen
            BY <4>2, <6>2, <6>3
          <6> QED BY <6>1, <6>4, <6>5
        <5>1. cp2 = off[it + 1] + 1 /\ cp2 <= PathFragLen /\ cp2 = cp + n + 1
          BY <5>0, <2>p, Zenon
        <5>5. cp2 = cp + n + 1 /\ cp \in Nat /\ n \in Nat /\ len = n
          BY <1>7, <2>12, <3>2, <5>0, Zenon
        <5>2. ASSUME NEW x \in 1 .. PathFragLen PROVE new[x] = IF x <= cp2 THEN C[x] ELSE ""
          <6>0. x \in Nat
            OBVIOUS
          <6>p. Places(x, cp, n, len, cp2)
            BY <5>5, <6>0, PlaceOf, Zenon
          <6>1. CASE x <= cp + n
            <7>1. x <= cp2
              BY <6>p, <6>1, Zenon DEF Places
            <7> QED BY <2>6, <6>1, <7>1, Zenon
          <6>2. CASE x = cp + n + 1
            <7>1. x <= cp2 /\ ~ (x <= cp) /\ ~ (x <= cp + n) /\ x = cp + len + 1
              BY <6>p, <6>2, Zenon DEF Places
            <7>2. new[x] = "/"
              BY <1>9, <3>5, <7>1, Zenon DEF Stepped
            <7>3. x = off[it + 1] + 1
              BY <5>1, <6>2, Zenon
            <7>4. C[x] = "/"
              BY <2>t, <3>5, <7>3, Zenon
            <7> QED BY <7>1, <7>2, <7>4, Zenon
          <6>3. CASE x > cp + n + 1
            <7>1. ~ (x <= cp2) /\ ~ (x <= cp) /\ ~ (x <= cp + n) /\ x # cp + len + 1
              BY <6>p, <6>3, Zenon DEF Places
            <7>2. new[x] = buf[x] /\ buf[x] = ""
              <8>1. new[x] = buf[x]
                BY <1>9, <7>1, Zenon DEF Stepped
              <8> QED BY <2>1, <7>1, <8>1, Zenon DEF Shows
            <7> QED BY <7>1, <7>2, Zenon
          <6>4. x <= cp + n \/ x = cp + n + 1 \/ x > cp + n + 1
            BY <6>p, Zenon DEF Places
          <6> QED BY <6>1, <6>2, <6>3, <6>4, Zenon
        <5>3. Partial(P, C, off, new, cp2, it + 1)
          BY <3>5, <5>1, <5>2 DEF Partial, Shows
        <5> QED BY <5>3
      <4> QED BY <4>1, <4>2
    <3> QED BY <1>2, <2>1, <3>3, <3>4, <3>5
  <2> QED BY <2>9, <2>10
<1> QED BY <1>1, <1>12, <1>13

-----------------------------------------------------------------------------
(* The bounds.                                                             *)

(***************************************************************************)
(* What TypeOK needs to be inductive: the walk goes on only while it has   *)
(* not used up MAX_PARENT components.                                      *)
(***************************************************************************)
Inv ==
  /\ TypeOK
  /\ pc \in {"walk", "name"} => loop_ctr <= MaxParent

(* A name read into a component leaves room for its NUL. *)
LEMMA ReadStrFits ==
  ASSUME NEW s \in Seq(STRING)
  PROVE  ReadStr(s) \in Seq(STRING) /\ Len(ReadStr(s)) < PathCompLen
<1>. DEFINE n == Least(Len(s), PathCompLen - 1)
<1>1. n \in Nat /\ n <= Len(s) /\ n < PathCompLen
  BY ConstantsAssumption DEF Least
<1>. HIDE DEF n
<1>2. SubSeq(s, 1, n) \in Seq(STRING) /\ Len(SubSeq(s, 1, n)) = n
  BY <1>1, SubSeqProperties
<1>. QED  BY <1>1, <1>2 DEF ReadStr, n

(* Replacing one component by another that fits keeps the ring. *)
LEMMA RingUpdate ==
  ASSUME NEW comps, RingOK(comps), NEW i \in 0 .. (NumComp - 1), NEW c \in Component,
         Len(c.pathcomp) < PathCompLen, c.len <= Len(c.pathcomp)
  PROVE  RingOK([comps EXCEPT ![i] = c])
BY DEF RingOK

(* The initial state is within the bounds. *)
LEMMA InitInv == Init => Inv
<1>. SUFFICES ASSUME Init PROVE Inv
  OBVIOUS
<1>1. PATHBUFTMP \in [0 .. (NumComp - 1) -> Component]
  BY DEF Init, Component
<1>2. \A i \in 0 .. (NumComp - 1) : PATHBUFTMP[i].len = 0 /\ PATHBUFTMP[i].pathcomp = <<>>
  BY DEF Init
<1>3. root[1] \in Mounts /\ root[2] \in Dentries
  BY ConstantsAssumption DEF Init
<1>4. DOMAIN PATHBUF = 1 .. PathFragLen
  BY DEF Init, ZeroBuf
<1>5. \A i \in 0 .. (NumComp - 1) : /\ Len(PATHBUFTMP[i].pathcomp) < PathCompLen
                                    /\ PATHBUFTMP[i].len <= Len(PATHBUFTMP[i].pathcomp)
  BY <1>2, EmptySeq, ConstantsAssumption
<1>6. /\ dentry \in Dentries /\ parent \in Dentries /\ mnt \in Mounts
      /\ d_name \in [Dentries -> Seq(STRING)] /\ d_parent \in [Dentries -> Dentries]
  BY <1>3, ConstantsAssumption DEF Init
<1>7. /\ 0 \in 0 .. (NumComp - 1) /\ 0 \in 0 .. (MaxParent + 1) /\ 0 \in 0 .. (PathFragLen + 1)
  BY ConstantsAssumption
<1>. QED  BY <1>1, <1>4, <1>5, <1>6, <1>7 DEF Init, Inv, TypeOK

(* The steps of the walk stay within the bounds. *)
LEMMA WalkKeepsInv ==
  ASSUME Inv, \/ \E f \in Files : Enter(f)
              \/ WalkRoot \/ WalkMount \/ WalkParent \/ WalkOut \/ WalkName
  PROVE  Inv'
<1>. USE DEF Inv, tree, walk, bufs, assem
<1>1. ASSUME NEW f \in Files, Enter(f) PROVE Inv'
  <2>1. f[1] \in Mounts /\ f[2] \in Dentries
    BY ConstantsAssumption
  <2>2. /\ 0 \in 0 .. (NumComp - 1) /\ 0 \in 0 .. (MaxParent + 1) /\ 0 <= MaxParent
    BY ConstantsAssumption
  <2>. QED  BY <1>1, <2>1, <2>2 DEF Enter, TypeOK
<1>2. CASE WalkRoot \/ WalkOut
  BY <1>2 DEF WalkRoot, WalkOut, TypeOK
<1>3. CASE WalkMount
  BY <1>3, ConstantsAssumption DEF WalkMount, TypeOK
<1>4. CASE WalkParent
  BY <1>4 DEF WalkParent, TypeOK
<1>5. CASE WalkName
  <2>. DEFINE str == ReadStr(d_name[dentry])
  <2>1. d_name[dentry] \in Seq(STRING)
    BY DEF TypeOK
  <2>2. str \in Seq(STRING) /\ Len(str) < PathCompLen /\ Len(str) \in Nat
    BY <2>1, ReadStrFits
  <2>. HIDE DEF str
  <2>3. PATHBUFTMP' = [PATHBUFTMP EXCEPT ![mod_ctr] = [len |-> Len(str), pathcomp |-> str]]
    BY <1>5 DEF WalkName, str
  <2>. DEFINE c == [len |-> Len(str), pathcomp |-> str]
  <2>7. c \in Component /\ Len(c.pathcomp) < PathCompLen /\ c.len <= Len(c.pathcomp)
    BY <2>2 DEF Component
  <2>8. RingOK(PATHBUFTMP) /\ mod_ctr \in 0 .. (NumComp - 1)
    BY DEF RingOK, TypeOK
  <2>. HIDE DEF c
  <2>9. RingOK([PATHBUFTMP EXCEPT ![mod_ctr] = c])
    BY <2>7, <2>8, RingUpdate
  <2>4. RingOK(PATHBUFTMP')
    BY <2>3, <2>9 DEF c
  <2>5. mod_ctr' \in 0 .. (NumComp - 1)
    BY <1>5, ModRange DEF WalkName, TypeOK
  <2>6. /\ loop_ctr' \in 0 .. (MaxParent + 1)
        /\ pc' \in {"walk", "name"} => loop_ctr' <= MaxParent
    BY <1>5, ConstantsAssumption DEF WalkName, TypeOK
  <2>. QED  BY <1>5, <2>4, <2>5, <2>6 DEF WalkName, TypeOK, RingOK
<1>. QED  BY <1>1, <1>2, <1>3, <1>4, <1>5

(* The steps of the assembly, and renames, stay within the bounds. *)
LEMMA AssemblyKeepsInv ==
  ASSUME Inv, \/ StartAssembly \/ AssembleStep \/ Finish
              \/ \E m \in Moves : Rename(m)
  PROVE  Inv'
<1>. USE DEF Inv, tree, walk, bufs, assem
<1>1. CASE StartAssembly
  <2>1. start' \in 0 .. (NumComp - 1)
    BY <1>1, ModRange DEF StartAssembly, StartIndex, TypeOK
  <2>2. DOMAIN PATHBUF' = 1 .. PathFragLen
    BY <1>1, WriteKeepsSize DEF StartAssembly, TypeOK
  <2>. QED  BY <1>1, <2>1, <2>2, ConstantsAssumption DEF StartAssembly, TypeOK
<1>2. CASE AssembleStep
  <2>. DEFINE elem == Mod(start - iter)
              comp == PATHBUFTMP[elem]
              len  == Least(comp.len, PathFragLen)
              n    == Least(len, PathFragLen - copied)
  <2>9. start - iter \in Int
    BY DEF TypeOK
  <2>1. elem \in 0 .. (NumComp - 1)
    BY <2>9, ModRange
  <2>. HIDE DEF elem
  <2>2. comp \in Component /\ len \in Nat /\ copied \in 0 .. PathFragLen
    BY <1>2, <2>1, ConstantsAssumption DEF TypeOK, Component, Least, AssembleStep
  <2>3. n \in 0 .. (PathFragLen - copied)
    BY <2>2, ConstantsAssumption DEF Least
  <2>. HIDE DEF n, len
  <2>4. copied' \in {copied + n, copied + n + 1}
    BY <1>2, <2>2, <2>3 DEF AssembleStep, n, len, elem
  <2>5. copied' \in 0 .. (PathFragLen + 1)
    BY <2>2, <2>3, <2>4, ConstantsAssumption
  <2>6. DOMAIN PATHBUF' = 1 .. PathFragLen
    BY <1>2, WriteKeepsSize DEF AssembleStep, TypeOK
  <2>7. PATHBUFTMP' = [PATHBUFTMP EXCEPT ![elem] = [comp EXCEPT !.len = 0]]
    BY <1>2 DEF AssembleStep, elem
  <2>. DEFINE c == [comp EXCEPT !.len = 0]
  <2>10. RingOK(PATHBUFTMP)
    BY DEF RingOK, TypeOK
  <2>11. c \in Component /\ Len(c.pathcomp) < PathCompLen /\ c.len <= Len(c.pathcomp)
    BY <2>1, <2>2, <2>10 DEF Component, RingOK
  <2>. HIDE DEF c
  <2>12. RingOK([PATHBUFTMP EXCEPT ![elem] = c])
    BY <2>1, <2>10, <2>11, RingUpdate
  <2>8. RingOK(PATHBUFTMP')
    BY <2>7, <2>12 DEF c
  <2>. QED  BY <1>2, <2>5, <2>6, <2>8 DEF AssembleStep, TypeOK, RingOK
<1>3. CASE Finish
  BY <1>3 DEF Finish, Clear, ZeroBuf, TypeOK
<1>4. ASSUME NEW m \in Moves, Rename(m) PROVE Inv'
  <2>1. m[1] \in Dentries /\ m[2] \in Dentries /\ m[3] \in Seq(STRING)
    BY ConstantsAssumption
  <2>. QED  BY <1>4, <2>1 DEF Rename, TypeOK
<1>. QED  BY <1>1, <1>2, <1>3, <1>4

(* For every tree, every rename and every size of the buffers, no index    *)
(* leaves PATHBUFTMP, no write changes the size of PATHBUF, and the walk   *)
(* stops after MAX_PARENT + 1 components.                                  *)
THEOREM WithinBounds == Spec => []TypeOK
<1>1. Inv /\ [Next]_vars => Inv'
  <2>. SUFFICES ASSUME Inv, [Next]_vars PROVE Inv'
    OBVIOUS
  <2>1. CASE UNCHANGED vars
    BY <2>1 DEF vars, Inv, TypeOK, tree, walk, bufs, assem
  <2>. QED  BY <2>1, WalkKeepsInv, AssemblyKeepsInv DEF Next
<1>2. Inv => TypeOK
  BY DEF Inv
<1>. QED  BY <1>1, <1>2, InitInv, PTL DEF Spec

-----------------------------------------------------------------------------
(* The inductive invariant, and the steps that keep it.                    *)

(* Directories that are not renamed, and what a mount holds (MountsAssumption). *)
Fixed == CHOOSE ds \in SUBSET Dentries :
           /\ Settled(ds)
           /\ \A mt \in Mounts :
                (IF MntParent[mt] # mt THEN Mountpoint[mt] ELSE MntRoot[mt]) \in ds
Held(mt) == CHOOSE ds \in SUBSET Dentries : Holds(mt, ds)

Here == <<mnt, dentry>>
PathIn(n, p) == Components(root, d_parent, d_name)[n][p]
RootIn(n, p) == Reaches(root, d_parent)[n][p]
Mounted == file[1] # root[1]
MountPath == PathOf(<<file[1], MntRoot[file[1]]>>)

(* Renames keep names proper, and keep to the mounts. *)
TreeInv ==
  /\ root \in Positions
  /\ \A d \in Dentries : d_parent[d] # d => ProperName(d_name[d])
  /\ \A d \in Fixed : d_parent[d] = Parent0[d]
  /\ \A mt \in Mounts : \A d \in Held(mt) \ {MntRoot[mt]} :
       d_parent[d] \in Held(mt) /\ d_parent[d] # d

(* The component read last. *)
Sane(c) == c.len = Len(c.pathcomp) /\ c.len > 0 /\ c.pathcomp[1] # "/"

(* A buffer of the map is just its characters. *)
IsBuf(b) == b = [x \in 1 .. PathFragLen |-> b[x]]

CallInv ==
  /\ pc # "idle" \/ entryrec # <<>> => file \in Files
  /\ mod_ctr = Mod(loop_ctr)
  /\ IsBuf(PATHBUF) /\ renames \in Nat
  /\ pc # "assemble" => PATHBUF = ZeroBuf
  /\ pc \in {"walk", "name"} => iter <= MaxParentLoop /\ ~ is_absolute
  /\ pc = "name" => /\ iter < MaxParentLoop
                    /\ Here # root /\ ~ Crosses(Here) /\ parent # dentry
                    /\ ProperName(d_name[dentry])
                    /\ renames = 0 \/ dentry \in Fixed => parent = d_parent[dentry]
  /\ pc \in {"walk", "name", "walked"} /\ loop_ctr > 0 =>
       Sane(PATHBUFTMP[Mod(loop_ctr - 1)])
  /\ pc = "assemble" => /\ num_components = Least(NumComp, loop_ctr)
                        /\ loop_ctr > 0 => start = Mod(loop_ctr - 1)

(* With nobody renaming, the walk has read the end of the file's path.     *)
WalkExact ==
  pc \in {"walk", "name"} /\ renames = 0 =>
    /\ Read(PathOf(file), PathIn(MaxParentLoop - iter, Here), PATHBUFTMP, loop_ctr)
    /\ Len(PathOf(file)) = Len(PathIn(MaxParentLoop - iter, Here)) + loop_ctr
    /\ RootIn(MaxParentLoop, file) <=> RootIn(MaxParentLoop - iter, Here)

WalkedExact ==
  pc = "walked" /\ renames = 0 =>
    /\ is_absolute <=> InReach(file)
    /\ is_absolute => /\ Read(PathOf(file), <<>>, PATHBUFTMP, loop_ctr)
                      /\ Len(PathOf(file)) = loop_ctr

AssemblyExact ==
  pc = "assemble" /\ renames = 0 =>
    /\ is_absolute <=> InReach(file)
    /\ is_absolute => /\ Assembly(PathOf(file), PATHBUF, copied, iter, PATHBUFTMP, loop_ctr,
                                  num_components)
                      /\ Len(PathOf(file)) = loop_ctr

(* The walk is below the file system's root, or it came through it and has *)
(* read the end of the path where the file system is mounted.              *)
Inside ==
  /\ mnt = file[1] /\ dentry \in Held(file[1]) \ {MntRoot[file[1]]}
  /\ pc = "name" => parent \in Held(file[1])

Outside ==
  /\ Above(Fixed, Here)
  /\ \E e \in 0 .. iter :
       Read(MountPath, PathIn(MaxParentLoop - e, Here), PATHBUFTMP, loop_ctr)

WalkMounted == pc \in {"walk", "name"} /\ Mounted => Inside \/ Outside

WalkedMounted ==
  pc = "walked" /\ Mounted /\ is_absolute => Read(MountPath, <<>>, PATHBUFTMP, loop_ctr)

AssemblyMounted ==
  pc = "assemble" /\ Mounted /\ is_absolute =>
    Assembly(MountPath, PATHBUF, copied, iter, PATHBUFTMP, loop_ctr, num_components)

(* A fragment that is not absolute begins with a name. *)
Relative ==
  pc = "assemble" /\ ~ is_absolute =>
    \/ /\ copied = 0 /\ iter = 0 /\ PATHBUF = ZeroBuf
       /\ loop_ctr > 0 => Sane(PATHBUFTMP[Mod(loop_ctr - 1)])
    \/ copied >= 1 /\ PATHBUF[1] # "/"

PInv ==
  /\ Inv /\ TreeInv /\ CallInv
  /\ WalkExact /\ WalkedExact /\ AssemblyExact /\ ResolvedExact
  /\ WalkMounted /\ WalkedMounted /\ AssemblyMounted /\ Relative /\ MountedRight

(* There are such directories. *)
LEMMA FixedOK == Mountings(Fixed)
BY MountsAssumption DEF Fixed, Mountings

(* Every mount has such a set. *)
LEMMA HeldOK ==
  ASSUME NEW mt \in Mounts
  PROVE  Held(mt) \in SUBSET Dentries /\ Holds(mt, Held(mt))
BY MountsAssumption DEF Held

(* What TypeOK says of the tree. *)
LEMMA TreeType ==
  ASSUME Inv
  PROVE  Tree(d_parent, d_name)
BY DEF Inv, TypeOK, Tree

(* The walk starts at the front of the ring. *)
LEMMA ModZero == Mod(0) = 0
<1>1. \A n \in Nat \ {0} : 0 % n = 0
  OBVIOUS
<1> QED BY <1>1, ConstantsAssumption DEF Mod

(* A file is a position. *)
LEMMA FileType ==
  ASSUME NEW f \in Files
  PROVE  f \in Positions /\ f[1] \in Mounts /\ f[2] \in Dentries /\ f = <<f[1], f[2]>>
BY ConstantsAssumption DEF Positions

(* Only settled directories are above the root of a mount. *)
LEMMA MountRootType ==
  ASSUME NEW mt \in Mounts
  PROVE  <<mt, MntRoot[mt]>> \in Positions /\ Above(Fixed, <<mt, MntRoot[mt]>>)
<1>1. <<mt, MntRoot[mt]>> \in Positions
  BY ConstantsAssumption DEF Positions
<1>2. Mountings(Fixed)
  BY FixedOK
<1>3. CASE MntParent[mt] # mt
  BY <1>1, <1>3 DEF Above, Crosses
<1>4. CASE MntParent[mt] = mt
  BY <1>1, <1>2, <1>4 DEF Above, Mountings
<1> QED BY <1>3, <1>4

(* The paths of this state. *)
LEMMA PathInType ==
  ASSUME Inv, NEW n \in Nat, NEW p \in Positions
  PROVE  PathIn(n, p) \in Paths /\ Len(PathIn(n, p)) \in Nat
<1>1. PathIn(n, p) \in Paths
  BY TreeType, PathType, Zenon DEF PathIn
<1> QED BY <1>1, LenProperties DEF Paths

(* partial_d_path starts. *)
LEMMA EnterKeeps ==
  ASSUME PInv, NEW f \in Files, Enter(f)
  PROVE  /\ TreeInv' /\ CallInv'
         /\ WalkExact' /\ WalkedExact' /\ AssemblyExact' /\ ResolvedExact'
         /\ WalkMounted' /\ WalkedMounted' /\ AssemblyMounted' /\ Relative' /\ MountedRight'
<1>0. /\ pc = "idle" /\ pc' = "walk" /\ file' = f /\ mnt' = f[1] /\ dentry' = f[2]
      /\ iter' = 0 /\ loop_ctr' = 0 /\ mod_ctr' = 0 /\ is_absolute' = FALSE
      /\ entryrec' = <<>> /\ d_name' = d_name /\ d_parent' = d_parent /\ root' = root
      /\ PATHBUF' = PATHBUF /\ PATHBUFTMP' = PATHBUFTMP /\ renames' = renames
  BY DEF Enter, tree, bufs, assem
<1>1. TreeInv'
  BY <1>0 DEF PInv, TreeInv
<1>2. CallInv'
  <2>1. PATHBUF' = ZeroBuf /\ IsBuf(PATHBUF') /\ renames' \in Nat
    BY <1>0 DEF PInv, CallInv
  <2>2. mod_ctr' = Mod(loop_ctr')
    BY <1>0, ModZero
  <2>3. iter' <= MaxParentLoop
    BY <1>0, Sizes
  <2> QED BY <1>0, <2>1, <2>2, <2>3 DEF CallInv
<1>3. WalkedExact' /\ AssemblyExact' /\ ResolvedExact' /\ WalkedMounted' /\ AssemblyMounted'
      /\ Relative' /\ MountedRight'
  BY <1>0 DEF WalkedExact, AssemblyExact, ResolvedExact, WalkedMounted, AssemblyMounted,
              Relative, MountedRight, Resolved
<1>4. /\ f \in Positions /\ f[1] \in Mounts /\ f[2] \in Dentries /\ Here' = f
      /\ MaxParentLoop - iter' = MaxParentLoop /\ MaxParentLoop \in Nat
  BY <1>0, FileType, Sizes DEF Here
<1>5. WalkExact'
  <2>1. PICK P : P = PathIn(MaxParentLoop, f)
    OBVIOUS
  <2>2. P \in Paths /\ Len(P) \in Nat
    BY <1>4, <2>1, PathInType DEF PInv
  <2>3. (PathOf(file))' = P /\ (PathIn(MaxParentLoop - iter, Here))' = P
    BY <1>0, <1>4, <2>1 DEF PathOf, PathIn
  <2>4. Read(P, P, PATHBUFTMP', loop_ctr')
    BY <1>0, <2>2, ReadStart
  <2>5. (RootIn(MaxParentLoop, file))' <=> (RootIn(MaxParentLoop - iter, Here))'
    BY <1>0, <1>4 DEF RootIn
  <2>6. Len(P) = Len(P) + loop_ctr'
    BY <1>0, <2>2
  <2> QED BY <2>3, <2>4, <2>5, <2>6 DEF WalkExact
<1>6. WalkMounted'
  <2>1. f[2] \in Held(f[1])
    BY <1>4, HeldOK DEF Holds
  <2>2. CASE f[2] # MntRoot[f[1]]
    <3>1. Inside'
      BY <1>0, <2>1, <2>2 DEF Inside
    <3> QED BY <3>1 DEF WalkMounted
  <2>3. CASE f[2] = MntRoot[f[1]]
    <3>0. f = <<f[1], MntRoot[f[1]]>>
      BY <2>3, FileType
    <3>1. PICK P : P = PathIn(MaxParentLoop, f)
      OBVIOUS
    <3>2. P \in Paths
      BY <1>4, <3>1, PathInType DEF PInv
    <3>3. MountPath' = P /\ (PathIn(MaxParentLoop - 0, Here))' = P
      BY <1>0, <1>4, <3>0, <3>1 DEF MountPath, PathOf, PathIn
    <3>4. Read(P, P, PATHBUFTMP', loop_ctr')
      BY <1>0, <3>2, ReadStart
    <3>5. Above(Fixed, Here')
      BY <1>4, <3>0, MountRootType
    <3>6. 0 \in 0 .. iter'
      BY <1>0
    <3>7. Outside'
      BY <3>3, <3>4, <3>5, <3>6 DEF Outside
    <3> QED BY <3>7 DEF WalkMounted
  <2> QED BY <2>2, <2>3
<1> QED BY <1>1, <1>2, <1>3, <1>5, <1>6

(* The tests of path_walk_step are those of the reference. *)
LEMMA Tests ==
  ASSUME PInv, pc \in {"walk", "name"}
  PROVE  /\ Here \in Positions /\ Here[1] = mnt /\ Here[2] = dentry
         /\ file \in Positions /\ file[1] \in Mounts /\ file \in Files
         /\ AtRoot <=> Here = root
         /\ AtMountRoot <=> Crosses(Here)
         /\ Ends(root, d_parent, Here) <=> AtRoot \/ (~ AtMountRoot /\ dentry = d_parent[dentry])
<1>1. mnt \in Mounts /\ dentry \in Dentries /\ Here \in Positions /\ Here[1] = mnt /\ Here[2] = dentry
  BY DEF PInv, Inv, TypeOK, Here, Positions
<1>2. file \in Files
  BY DEF PInv, CallInv
<1>3. root = <<root[1], root[2]>>
  BY DEF PInv, TreeInv, Positions
<1>4. AtRoot <=> Here = root
  BY <1>3 DEF AtRoot, Here
<1>5. AtMountRoot <=> Crosses(Here)
  BY <1>1 DEF AtMountRoot, Crosses
<1>6. Ends(root, d_parent, Here) <=> AtRoot \/ (~ AtMountRoot /\ dentry = d_parent[dentry])
  BY <1>1, <1>4, <1>5 DEF Ends
<1> QED BY <1>1, <1>2, <1>4, <1>5, <1>6, FileType

(* At the root a path has no components. *)
LEMMA EndPath ==
  ASSUME Inv, NEW p \in Positions, Ends(root, d_parent, p), NEW n \in Nat
  PROVE  /\ PathIn(n, p) = <<>>
         /\ n # 0 => RootIn(n, p)
<1>1. Tree(d_parent, d_name) /\ d_parent \in [Dentries -> Dentries]
  BY TreeType DEF Tree
<1>2. CASE n = 0
  <2>1. Components(root, d_parent, d_name)[0][p] = <<>>
    BY <1>1, PathZero, Zenon
  <2> QED BY <1>2, <2>1 DEF PathIn
<1>3. CASE n # 0
  <2>1. PICK m \in Nat : m + 1 = n
    <3>1. n - 1 \in Nat /\ (n - 1) + 1 = n
      BY <1>3
    <3> QED BY <3>1
  <2>2. PathSucc(root, d_parent, d_name, Components(root, d_parent, d_name), m, p)
    BY <1>1, PathSteps, Zenon
  <2>3. PathIn(m + 1, p) = <<>>
    BY <2>2, Zenon DEF PathSucc, PathIn
  <2>4. RootIn(n, p)
    BY <1>1, <1>3, ReachSteps DEF RootIn
  <2> QED BY <2>1, <2>3, <2>4
<1> QED BY <1>2, <1>3

(* One step up takes a component off, unless it leaves a mount. *)
LEMMA UpPath ==
  ASSUME Inv, NEW p \in Positions, ~ Ends(root, d_parent, p), NEW n \in Nat
  PROVE  /\ Crosses(p) => PathIn(n + 1, p) = PathIn(n, Up(d_parent, p))
         /\ ~ Crosses(p) => PathIn(n + 1, p) = Append(PathIn(n, Up(d_parent, p)), d_name[p[2]])
         /\ RootIn(n + 1, p) <=> RootIn(n, Up(d_parent, p))
         /\ Up(d_parent, p) \in Positions
<1>1. Tree(d_parent, d_name) /\ d_parent \in [Dentries -> Dentries]
  BY TreeType DEF Tree
<1>2. PathSucc(root, d_parent, d_name, Components(root, d_parent, d_name), n, p)
  BY <1>1, PathSteps, Zenon
<1>3. RootIn(n + 1, p) <=> RootIn(n, Up(d_parent, p))
  <2>1. n + 1 \in Nat /\ n + 1 # 0 /\ (n + 1) - 1 = n
    OBVIOUS
  <2>2. RootIn(n + 1, p) <=> RootIn((n + 1) - 1, Up(d_parent, p))
    BY <1>1, <2>1, ReachSteps DEF RootIn
  <2> QED BY <2>1, <2>2
<1>4. Up(d_parent, p) \in Positions
  BY <1>1, UpType
<1> QED BY <1>2, <1>3, <1>4 DEF PathSucc, PathIn

(* The steps that are left to the walk. *)
LEMMA StepsLeft ==
  ASSUME NEW e \in Nat, e < MaxParentLoop
  PROVE  \E n \in Nat : n + 1 = MaxParentLoop - e /\ n = MaxParentLoop - (e + 1)
<1>1. (MaxParentLoop - (e + 1)) + 1 = MaxParentLoop - e /\ MaxParentLoop - (e + 1) \in Nat
  BY Sizes
<1> QED BY <1>1

(* A walk that is below the root of its file system goes on. *)
LEMMA InsideGoesOn ==
  ASSUME PInv, pc \in {"walk", "name"}, Mounted, Inside
  PROVE  /\ mnt = file[1] /\ ~ AtRoot /\ ~ AtMountRoot /\ dentry # d_parent[dentry]
         /\ d_parent[dentry] \in Held(file[1])
<1>1. file[1] \in Mounts
  BY Tests
<1>2. ~ AtRoot /\ ~ AtMountRoot
  BY DEF Inside, Mounted, AtRoot, AtMountRoot
<1>3. dentry # d_parent[dentry] /\ d_parent[dentry] \in Held(file[1])
  BY <1>1 DEF PInv, TreeInv, Inside
<1> QED BY <1>2, <1>3 DEF Inside

(* The walk is at the root. *)
LEMMA WalkRootKeeps ==
  ASSUME PInv, WalkRoot
  PROVE  /\ TreeInv' /\ CallInv'
         /\ WalkExact' /\ WalkedExact' /\ AssemblyExact' /\ ResolvedExact'
         /\ WalkMounted' /\ WalkedMounted' /\ AssemblyMounted' /\ Relative' /\ MountedRight'
<1>0. /\ pc = "walk" /\ pc' = "walked" /\ is_absolute' = TRUE /\ iter < MaxParentLoop
      /\ AtRoot \/ (~ AtMountRoot /\ dentry = d_parent[dentry])
      /\ file' = file /\ mnt' = mnt /\ dentry' = dentry /\ parent' = parent
      /\ iter' = iter /\ loop_ctr' = loop_ctr /\ mod_ctr' = mod_ctr
      /\ entryrec' = entryrec /\ d_name' = d_name /\ d_parent' = d_parent /\ root' = root
      /\ PATHBUF' = PATHBUF /\ PATHBUFTMP' = PATHBUFTMP /\ renames' = renames
  BY DEF WalkRoot, tree, bufs, assem
<1>1. TreeInv'
  BY <1>0 DEF PInv, TreeInv
<1>2. CallInv'
  BY <1>0 DEF PInv, CallInv
<1>3. WalkExact' /\ AssemblyExact' /\ ResolvedExact' /\ WalkMounted' /\ AssemblyMounted'
      /\ Relative' /\ MountedRight'
  BY <1>0 DEF WalkExact, AssemblyExact, ResolvedExact, WalkMounted, AssemblyMounted,
              Relative, MountedRight, Resolved
<1>4. Here \in Positions /\ Ends(root, d_parent, Here) /\ Inv
  BY <1>0, Tests DEF PInv
<1>5. iter \in Nat /\ loop_ctr \in Nat /\ loop_ctr <= MaxParent
  BY <1>0, Sizes DEF PInv, Inv, TypeOK
<1>6. WalkedExact'
  <2> SUFFICES ASSUME renames = 0
               PROVE  /\ InReach(file)
                      /\ Read(PathOf(file), <<>>, PATHBUFTMP, loop_ctr)
                      /\ Len(PathOf(file)) = loop_ctr
    BY <1>0 DEF WalkedExact, InReach, PathOf
  <2>1. PICK n \in Nat : n = MaxParentLoop - iter /\ n # 0
    BY <1>0, <1>5, Sizes
  <2>2. PathIn(n, Here) = <<>> /\ RootIn(n, Here)
    BY <1>4, <2>1, EndPath
  <2>3. /\ Read(PathOf(file), <<>>, PATHBUFTMP, loop_ctr)
        /\ Len(PathOf(file)) = Len(<<>>) + loop_ctr
        /\ RootIn(MaxParentLoop, file)
    BY <1>0, <2>1, <2>2 DEF PInv, WalkExact
  <2>4. Len(PathOf(file)) = loop_ctr
    BY <1>5, <2>3
  <2>5. InReach(file)
    BY <1>5, <2>3, <2>4 DEF InReach, RootIn
  <2> QED BY <2>3, <2>4, <2>5
<1>7. WalkedMounted'
  <2> SUFFICES ASSUME Mounted
               PROVE  Read(MountPath, <<>>, PATHBUFTMP, loop_ctr)
    BY <1>0 DEF WalkedMounted, Mounted, MountPath, PathOf
  <2>1. ~ Inside
    BY <1>0, InsideGoesOn
  <2>2. Outside
    BY <1>0, <2>1 DEF PInv, WalkMounted
  <2>3. PICK e \in 0 .. iter :
          Read(MountPath, PathIn(MaxParentLoop - e, Here), PATHBUFTMP, loop_ctr)
    BY <2>2 DEF Outside
  <2>4. PICK n \in Nat : n = MaxParentLoop - e
    BY <1>0, <1>5, Sizes
  <2>5. PathIn(n, Here) = <<>>
    BY <1>4, EndPath
  <2> QED BY <2>3, <2>4, <2>5
<1> QED BY <1>1, <1>2, <1>3, <1>6, <1>7

(* bpf_loop ran out of iterations. *)
LEMMA WalkOutKeeps ==
  ASSUME PInv, WalkOut
  PROVE  /\ TreeInv' /\ CallInv'
         /\ WalkExact' /\ WalkedExact' /\ AssemblyExact' /\ ResolvedExact'
         /\ WalkMounted' /\ WalkedMounted' /\ AssemblyMounted' /\ Relative' /\ MountedRight'
<1>0. /\ pc = "walk" /\ pc' = "walked" /\ is_absolute' = is_absolute /\ iter >= MaxParentLoop
      /\ file' = file /\ mnt' = mnt /\ dentry' = dentry /\ parent' = parent
      /\ iter' = iter /\ loop_ctr' = loop_ctr /\ mod_ctr' = mod_ctr
      /\ entryrec' = entryrec /\ d_name' = d_name /\ d_parent' = d_parent /\ root' = root
      /\ PATHBUF' = PATHBUF /\ PATHBUFTMP' = PATHBUFTMP /\ renames' = renames
  BY DEF WalkOut, tree, bufs, assem, walk
<1>1. TreeInv'
  BY <1>0 DEF PInv, TreeInv
<1>2. CallInv'
  BY <1>0 DEF PInv, CallInv
<1>3. WalkExact' /\ AssemblyExact' /\ ResolvedExact' /\ WalkMounted' /\ AssemblyMounted'
      /\ Relative' /\ MountedRight'
  BY <1>0 DEF WalkExact, AssemblyExact, ResolvedExact, WalkMounted, AssemblyMounted,
              Relative, MountedRight, Resolved
<1>4. ~ is_absolute /\ iter <= MaxParentLoop /\ iter \in Nat
  BY <1>0 DEF PInv, CallInv, Inv, TypeOK
<1>5. WalkedMounted'
  BY <1>0, <1>4 DEF WalkedMounted
<1>6. WalkedExact'
  <2> SUFFICES ASSUME renames = 0 PROVE ~ InReach(file)
    BY <1>0, <1>4 DEF WalkedExact, InReach, PathOf
  <2>1. MaxParentLoop - iter = 0 /\ 0 \in Nat
    BY <1>0, <1>4, Sizes
  <2>2. d_parent \in [Dentries -> Dentries] /\ Here \in Positions
    BY <1>0, Tests DEF PInv, Inv, TypeOK
  <2>3. ~ RootIn(0, Here)
    BY <2>1, <2>2, ReachSteps DEF RootIn
  <2>4. RootIn(MaxParentLoop, file) <=> RootIn(MaxParentLoop - iter, Here)
    BY <1>0 DEF PInv, WalkExact
  <2> QED BY <2>1, <2>3, <2>4 DEF InReach, RootIn
<1> QED BY <1>1, <1>2, <1>3, <1>5, <1>6

(* The walk goes through a mount point. *)
LEMMA WalkMountKeeps ==
  ASSUME PInv, WalkMount
  PROVE  /\ TreeInv' /\ CallInv'
         /\ WalkExact' /\ WalkedExact' /\ AssemblyExact' /\ ResolvedExact'
         /\ WalkMounted' /\ WalkedMounted' /\ AssemblyMounted' /\ Relative' /\ MountedRight'
<1>0. /\ pc = "walk" /\ pc' = "walk" /\ is_absolute' = is_absolute /\ iter < MaxParentLoop
      /\ ~ AtRoot /\ AtMountRoot
      /\ file' = file /\ mnt' = MntParent[mnt] /\ dentry' = Mountpoint[mnt] /\ parent' = parent
      /\ iter' = iter + 1 /\ loop_ctr' = loop_ctr /\ mod_ctr' = mod_ctr
      /\ entryrec' = entryrec /\ d_name' = d_name /\ d_parent' = d_parent /\ root' = root
      /\ PATHBUF' = PATHBUF /\ PATHBUFTMP' = PATHBUFTMP /\ renames' = renames
  BY DEF WalkMount, tree, bufs, assem
<1>1. TreeInv'
  BY <1>0 DEF PInv, TreeInv
<1>2. iter \in Nat /\ iter' <= MaxParentLoop
  BY <1>0, Sizes DEF PInv, Inv, TypeOK
<1>3. CallInv'
  BY <1>0, <1>2 DEF PInv, CallInv
<1>4. WalkedExact' /\ AssemblyExact' /\ ResolvedExact' /\ WalkedMounted' /\ AssemblyMounted'
      /\ Relative' /\ MountedRight'
  BY <1>0 DEF WalkedExact, AssemblyExact, ResolvedExact, WalkedMounted, AssemblyMounted,
              Relative, MountedRight, Resolved
<1>5. /\ Here \in Positions /\ Inv /\ Crosses(Here) /\ ~ Ends(root, d_parent, Here)
      /\ Here[1] = mnt /\ Here[2] = dentry
  BY <1>0, Tests DEF PInv
<1>6. Here' = Up(d_parent, Here)
  BY <1>0, <1>5 DEF Up, Here
<1>7. WalkExact'
  <2> SUFFICES ASSUME renames = 0
               PROVE  /\ Read(PathOf(file), PathIn(MaxParentLoop - (iter + 1), Here'), PATHBUFTMP, loop_ctr)
                      /\ Len(PathOf(file)) = Len(PathIn(MaxParentLoop - (iter + 1), Here')) + loop_ctr
                      /\ RootIn(MaxParentLoop, file) <=> RootIn(MaxParentLoop - (iter + 1), Here')
    BY <1>0 DEF WalkExact, PathOf, PathIn, RootIn
  <2>1. PICK n \in Nat : n + 1 = MaxParentLoop - iter /\ n = MaxParentLoop - (iter + 1)
    BY <1>0, <1>2, StepsLeft
  <2>2. PathIn(n + 1, Here) = PathIn(n, Here') /\ (RootIn(n + 1, Here) <=> RootIn(n, Here'))
    BY <1>5, <1>6, UpPath
  <2>3. /\ Read(PathOf(file), PathIn(n + 1, Here), PATHBUFTMP, loop_ctr)
        /\ Len(PathOf(file)) = Len(PathIn(n + 1, Here)) + loop_ctr
        /\ RootIn(MaxParentLoop, file) <=> RootIn(n + 1, Here)
    BY <1>0, <2>1 DEF PInv, WalkExact
  <2> QED BY <2>1, <2>2, <2>3
<1>8. WalkMounted'
  <2> SUFFICES ASSUME Mounted PROVE Outside'
    BY <1>0 DEF WalkMounted, Mounted
  <2>1. ~ Inside
    BY <1>0, InsideGoesOn
  <2>2. Above(Fixed, Here)
    BY <1>0, <2>1 DEF PInv, WalkMounted, Outside
  <2>3. PICK e \in 0 .. iter :
          Read(MountPath, PathIn(MaxParentLoop - e, Here), PATHBUFTMP, loop_ctr)
    BY <1>0, <2>1 DEF PInv, WalkMounted, Outside
  <2>4. e \in Nat /\ e < MaxParentLoop /\ e + 1 \in 0 .. (iter + 1)
    BY <1>0, <1>2, Sizes
  <2>5. PICK n \in Nat : n + 1 = MaxParentLoop - e /\ n = MaxParentLoop - (e + 1)
    BY <2>4, StepsLeft
  <2>6. PathIn(n + 1, Here) = PathIn(n, Here')
    BY <1>5, <1>6, UpPath
  <2>7. Read(MountPath, PathIn(MaxParentLoop - (e + 1), Here'), PATHBUFTMP, loop_ctr)
    BY <2>3, <2>5, <2>6
  <2>8. Above(Fixed, Here')
    <3>1. d_parent \in [Dentries -> Dentries] /\ \A d \in Fixed : d_parent[d] = Parent0[d]
      BY DEF PInv, TreeInv, Inv, TypeOK
    <3> QED BY <1>6, <2>2, <3>1, FixedOK, AboveUp
  <2> QED BY <1>0, <2>4, <2>7, <2>8 DEF Outside, MountPath, PathOf, PathIn
<1> QED BY <1>1, <1>3, <1>4, <1>7, <1>8

(* d_parent is read. *)
LEMMA WalkParentKeeps ==
  ASSUME PInv, WalkParent
  PROVE  /\ TreeInv' /\ CallInv'
         /\ WalkExact' /\ WalkedExact' /\ AssemblyExact' /\ ResolvedExact'
         /\ WalkMounted' /\ WalkedMounted' /\ AssemblyMounted' /\ Relative' /\ MountedRight'
<1>0. /\ pc = "walk" /\ pc' = "name" /\ is_absolute' = is_absolute /\ iter < MaxParentLoop
      /\ ~ AtRoot /\ ~ AtMountRoot /\ dentry # d_parent[dentry]
      /\ file' = file /\ mnt' = mnt /\ dentry' = dentry /\ parent' = d_parent[dentry]
      /\ iter' = iter /\ loop_ctr' = loop_ctr /\ mod_ctr' = mod_ctr
      /\ entryrec' = entryrec /\ d_name' = d_name /\ d_parent' = d_parent /\ root' = root
      /\ PATHBUF' = PATHBUF /\ PATHBUFTMP' = PATHBUFTMP /\ renames' = renames
  BY DEF WalkParent, tree, bufs, assem
<1>1. TreeInv'
  BY <1>0 DEF PInv, TreeInv
<1>2. Here' = Here /\ dentry \in Dentries
  BY <1>0 DEF Here, PInv, Inv, TypeOK
<1>3. Here # root /\ ~ Crosses(Here) /\ ProperName(d_name[dentry])
  BY <1>0, <1>2, Tests DEF PInv, TreeInv
<1>4. CallInv'
  BY <1>0, <1>2, <1>3 DEF PInv, CallInv
<1>5. WalkedExact' /\ AssemblyExact' /\ ResolvedExact' /\ WalkedMounted' /\ AssemblyMounted'
      /\ Relative' /\ MountedRight'
  BY <1>0 DEF WalkedExact, AssemblyExact, ResolvedExact, WalkedMounted, AssemblyMounted,
              Relative, MountedRight, Resolved
<1>6. WalkExact'
  BY <1>0, <1>2 DEF PInv, WalkExact, PathOf, PathIn, RootIn
<1>7. WalkMounted'
  <2> SUFFICES ASSUME Mounted PROVE Inside' \/ Outside'
    BY <1>0 DEF WalkMounted, Mounted
  <2>1. CASE Inside
    <3>1. d_parent[dentry] \in Held(file[1])
      BY <1>0, <2>1, InsideGoesOn
    <3> QED BY <1>0, <2>1, <3>1 DEF Inside
  <2>2. CASE Outside
    BY <1>0, <1>2, <2>2 DEF Outside, MountPath, PathOf, PathIn
  <2> QED BY <1>0, <2>1, <2>2 DEF PInv, WalkMounted
<1> QED BY <1>1, <1>4, <1>5, <1>6, <1>7

(* A proper name is read as one. *)
LEMMA SaneComp ==
  ASSUME NEW s \in Seq(STRING), ProperName(s)
  PROVE  Sane(Comp(s))
<1>1. Len(s) \in Nat /\ Len(s) >= 1
  BY EmptySeq, LenProperties DEF ProperName
<1>2. Comp(s).len = Least(Len(s), PathCompLen - 1)
  BY CompOf
<1>3. Comp(s).len > 0 /\ 1 \in 1 .. Comp(s).len
  BY <1>1, <1>2, Sizes DEF Least
<1>4. Comp(s).pathcomp[1] = s[1] /\ Len(Comp(s).pathcomp) = Comp(s).len
  BY <1>3, CompOf
<1> QED BY <1>3, <1>4 DEF Sane, ProperName

(* The walk goes up where the directory is not being renamed. *)
LEMMA NameUp ==
  ASSUME PInv, pc = "name", renames = 0 \/ dentry \in Fixed
  PROVE  /\ parent = d_parent[dentry] /\ Here \in Positions
         /\ ~ Crosses(Here) /\ ~ Ends(root, d_parent, Here)
         /\ Up(d_parent, Here) = <<mnt, parent>>
<1>1. parent = d_parent[dentry] /\ parent # dentry /\ Here # root /\ ~ Crosses(Here)
  BY DEF PInv, CallInv
<1>2. Here[1] = mnt /\ Here[2] = dentry /\ Here \in Positions
  BY Tests
<1>3. ~ Ends(root, d_parent, Here)
  BY <1>1, <1>2 DEF Ends
<1>4. Up(d_parent, Here) = <<mnt, parent>>
  BY <1>1, <1>2 DEF Up
<1> QED BY <1>1, <1>2, <1>3, <1>4

(* path_walk_step reads the next component of a path from Here. *)
LEMMA NameRead ==
  ASSUME PInv, pc = "name", renames = 0 \/ dentry \in Fixed, NEW n \in Nat, NEW P \in Paths,
         Read(P, PathIn(n + 1, Here), PATHBUFTMP, loop_ctr)
  PROVE  /\ Read(P, PathIn(n, <<mnt, parent>>),
                 [PATHBUFTMP EXCEPT ![Mod(loop_ctr)] = Comp(d_name[dentry])], loop_ctr + 1)
         /\ Len(PathIn(n + 1, Here)) = Len(PathIn(n, <<mnt, parent>>)) + 1
         /\ Len(PathIn(n, <<mnt, parent>>)) \in Nat
         /\ RootIn(n + 1, Here) <=> RootIn(n, <<mnt, parent>>)
<1>1. Inv /\ Here[2] = dentry /\ dentry \in Dentries
  BY Tests DEF PInv, Inv, TypeOK
<1>2. /\ PathIn(n + 1, Here) = Append(PathIn(n, <<mnt, parent>>), d_name[dentry])
      /\ RootIn(n + 1, Here) <=> RootIn(n, <<mnt, parent>>)
      /\ <<mnt, parent>> \in Positions
  BY <1>1, NameUp, UpPath
<1>3. PICK r : r = PathIn(n, <<mnt, parent>>)
  OBVIOUS
<1>4. r \in Paths /\ Len(r) \in Nat
  BY <1>1, <1>2, <1>3, PathInType
<1>5. d_name[dentry] \in Seq(STRING) /\ loop_ctr \in Nat
  BY <1>1, Sizes DEF Inv, TypeOK
<1>6. DOMAIN PATHBUFTMP = 0 .. (NumComp - 1)
  BY <1>1 DEF Inv, TypeOK
<1>7. Read(P, Append(r, d_name[dentry]), PATHBUFTMP, loop_ctr)
  BY <1>2, <1>3
<1>8. Read(P, r, [PATHBUFTMP EXCEPT ![Mod(loop_ctr)] = Comp(d_name[dentry])], loop_ctr + 1)
  BY <1>4, <1>5, <1>6, <1>7, ReadNext
<1>9. Len(Append(r, d_name[dentry])) = Len(r) + 1
  BY <1>4, <1>5 DEF Paths
<1> QED BY <1>2, <1>3, <1>4, <1>8, <1>9

(* The name is read and the walk goes up. *)
LEMMA WalkNameKeeps ==
  ASSUME PInv, WalkName
  PROVE  /\ TreeInv' /\ CallInv'
         /\ WalkExact' /\ WalkedExact' /\ AssemblyExact' /\ ResolvedExact'
         /\ WalkMounted' /\ WalkedMounted' /\ AssemblyMounted' /\ Relative' /\ MountedRight'
<1>0. /\ pc = "name" /\ is_absolute' = is_absolute
      /\ loop_ctr' = loop_ctr + 1 /\ mod_ctr' = Mod(mod_ctr + 1) /\ iter' = iter + 1
      /\ pc' = IF loop_ctr' > MaxParent THEN "walked" ELSE "walk"
      /\ file' = file /\ mnt' = mnt /\ dentry' = parent /\ parent' = parent
      /\ entryrec' = entryrec /\ d_name' = d_name /\ d_parent' = d_parent /\ root' = root
      /\ PATHBUF' = PATHBUF /\ renames' = renames
  BY DEF WalkName, tree, assem
<1>1. TreeInv'
  BY <1>0 DEF PInv, TreeInv
<1>2. /\ iter \in Nat /\ iter < MaxParentLoop /\ loop_ctr \in Nat /\ loop_ctr <= MaxParent
      /\ mod_ctr = Mod(loop_ctr) /\ ~ is_absolute /\ ProperName(d_name[dentry])
      /\ d_name[dentry] \in Seq(STRING) /\ Inv /\ file \in Positions /\ file \in Files
  <2>1. iter < MaxParentLoop /\ mod_ctr = Mod(loop_ctr) /\ ~ is_absolute /\ ProperName(d_name[dentry])
    BY <1>0 DEF PInv, CallInv
  <2>2. iter \in Nat /\ loop_ctr \in Nat /\ loop_ctr <= MaxParent
    BY <1>0, Sizes DEF PInv, Inv, TypeOK
  <2>3. d_name[dentry] \in Seq(STRING) /\ Inv
    BY DEF PInv, Inv, TypeOK
  <2> QED BY <1>0, <2>1, <2>2, <2>3, Tests
<1>3. PICK ring : ring = [PATHBUFTMP EXCEPT ![Mod(loop_ctr)] = Comp(d_name[dentry])]
  OBVIOUS
<1>4. PATHBUFTMP' = ring
  BY <1>2, <1>3 DEF WalkName, Comp
<1>5. mod_ctr' = Mod(loop_ctr')
  <2>1. Mod(Mod(loop_ctr) + 1) = Mod(loop_ctr + 1)
    BY <1>2, ModShift
  <2> QED BY <1>0, <1>2, <2>1
<1>6. Sane(PATHBUFTMP'[Mod(loop_ctr' - 1)])
  <2>1. loop_ctr' - 1 = loop_ctr /\ loop_ctr \in Int
    BY <1>0, <1>2
  <2>2. Mod(loop_ctr) \in DOMAIN PATHBUFTMP
    BY <1>2, <2>1, ModRange DEF Inv, TypeOK
  <2>3. ring[Mod(loop_ctr)] = Comp(d_name[dentry])
    BY <1>3, <2>2
  <2> QED BY <1>2, <1>4, <2>1, <2>3, SaneComp
<1>7. pc' \in {"walk", "walked"} /\ iter' <= MaxParentLoop
  BY <1>0, <1>2, Sizes
<1>8. CallInv'
  BY <1>0, <1>2, <1>5, <1>6, <1>7 DEF PInv, CallInv
<1>9. AssemblyExact' /\ ResolvedExact' /\ WalkedMounted' /\ AssemblyMounted'
      /\ Relative' /\ MountedRight'
  BY <1>0, <1>2, <1>7 DEF AssemblyExact, ResolvedExact, WalkedMounted, AssemblyMounted,
              Relative, MountedRight, Resolved
<1>10. Here' = <<mnt, parent>>
  BY <1>0 DEF Here
<1>11. ASSUME renames = 0
       PROVE  /\ Read(PathOf(file), PathIn(MaxParentLoop - (iter + 1), <<mnt, parent>>), ring, loop_ctr + 1)
              /\ Len(PathOf(file)) = Len(PathIn(MaxParentLoop - (iter + 1), <<mnt, parent>>)) + (loop_ctr + 1)
              /\ Len(PathIn(MaxParentLoop - (iter + 1), <<mnt, parent>>)) \in Nat
              /\ RootIn(MaxParentLoop, file) <=> RootIn(MaxParentLoop - (iter + 1), <<mnt, parent>>)
  <2>1. PICK n \in Nat : n + 1 = MaxParentLoop - iter /\ n = MaxParentLoop - (iter + 1)
    BY <1>2, StepsLeft
  <2>2. /\ Read(PathOf(file), PathIn(n + 1, Here), PATHBUFTMP, loop_ctr)
        /\ Len(PathOf(file)) = Len(PathIn(n + 1, Here)) + loop_ctr
        /\ RootIn(MaxParentLoop, file) <=> RootIn(n + 1, Here)
    BY <1>0, <1>11, <2>1 DEF PInv, WalkExact
  <2>3. PathOf(file) \in Paths
    BY <1>2, PathInType, Sizes DEF PathOf, PathIn
  <2>4. /\ Read(PathOf(file), PathIn(n, <<mnt, parent>>), ring, loop_ctr + 1)
        /\ Len(PathIn(n + 1, Here)) = Len(PathIn(n, <<mnt, parent>>)) + 1
        /\ Len(PathIn(n, <<mnt, parent>>)) \in Nat
        /\ RootIn(n + 1, Here) <=> RootIn(n, <<mnt, parent>>)
    BY <1>0, <1>3, <1>11, <2>2, <2>3, NameRead
  <2>5. Len(PathOf(file)) = Len(PathIn(n, <<mnt, parent>>)) + (loop_ctr + 1)
    BY <1>2, <2>2, <2>4
  <2> QED BY <2>1, <2>2, <2>4, <2>5
<1>12. WalkExact'
  BY <1>0, <1>4, <1>10, <1>11 DEF WalkExact, PathOf, PathIn, RootIn
<1>13. WalkedExact'
  <2> SUFFICES ASSUME renames = 0, pc' = "walked" PROVE ~ InReach(file)
    BY <1>0, <1>2 DEF WalkedExact, InReach, PathOf
  <2>1. loop_ctr + 1 > MaxParent
    BY <1>0
  <2>2. ~ (Len(PathOf(file)) <= MaxParent)
    BY <1>2, <1>11, <2>1, Sizes
  <2> QED BY <2>2 DEF InReach
<1>14. WalkMounted'
  <2> SUFFICES ASSUME Mounted, pc' = "walk" PROVE Inside' \/ Outside'
    BY <1>0, <1>7 DEF WalkMounted, Mounted
  <2>1. CASE Inside
    <3>1. mnt = file[1] /\ parent \in Held(file[1])
      BY <1>0, <2>1 DEF Inside
    <3>2. CASE parent # MntRoot[file[1]]
      BY <1>0, <3>1, <3>2 DEF Inside
    <3>3. CASE parent = MntRoot[file[1]]
      <4>1. file[1] \in Mounts
        BY <1>2, FileType
      <4>2. <<mnt, parent>> = <<file[1], MntRoot[file[1]]>>
        BY <3>1, <3>3
      <4>3. Above(Fixed, <<mnt, parent>>) /\ <<mnt, parent>> \in Positions
        BY <4>1, <4>2, MountRootType
      <4>4. PICK P : P = PathIn(MaxParentLoop, <<mnt, parent>>)
        OBVIOUS
      <4>5. P \in Paths
        BY <1>2, <4>3, <4>4, PathInType, Sizes
      <4>6. MountPath' = P /\ (PathIn(MaxParentLoop - 0, Here))' = P
        BY <1>0, <1>10, <4>2, <4>4, Sizes DEF MountPath, PathOf, PathIn
      <4>7. Read(P, P, PATHBUFTMP', loop_ctr')
        BY <1>0, <1>2, <4>5, ReadStart
      <4>8. 0 \in 0 .. iter'
        BY <1>0, <1>2
      <4> QED BY <1>10, <4>3, <4>6, <4>7, <4>8 DEF Outside
    <3> QED BY <3>2, <3>3
  <2>2. CASE Outside
    <3>1. Above(Fixed, Here) /\ Here \in Positions /\ Here[2] = dentry
      BY <1>0, <2>2, Tests DEF Outside
    <3>2. dentry \in Fixed
      BY <1>0, <3>1 DEF PInv, CallInv, Above
    <3>3. Up(d_parent, Here) = <<mnt, parent>>
      BY <1>0, <3>2, NameUp
    <3>4. Above(Fixed, <<mnt, parent>>)
      <4>1. d_parent \in [Dentries -> Dentries] /\ \A d \in Fixed : d_parent[d] = Parent0[d]
        BY DEF PInv, TreeInv, Inv, TypeOK
      <4> QED BY <3>1, <3>3, <4>1, FixedOK, AboveUp
    <3>5. PICK e \in 0 .. iter :
            Read(MountPath, PathIn(MaxParentLoop - e, Here), PATHBUFTMP, loop_ctr)
      BY <2>2 DEF Outside
    <3>6. e \in Nat /\ e < MaxParentLoop /\ e + 1 \in 0 .. (iter + 1)
      BY <1>2, Sizes
    <3>7. PICK n \in Nat : n + 1 = MaxParentLoop - e /\ n = MaxParentLoop - (e + 1)
      BY <3>6, StepsLeft
    <3>8. MountPath \in Paths
      <4>1. file[1] \in Mounts
        BY <1>2, FileType
      <4> QED BY <1>2, <4>1, MountRootType, PathInType, Sizes DEF MountPath, PathOf, PathIn
    <3>9. Read(MountPath, PathIn(n + 1, Here), PATHBUFTMP, loop_ctr)
      BY <3>5, <3>7
    <3>10. Read(MountPath, PathIn(n, <<mnt, parent>>), ring, loop_ctr + 1)
      BY <1>0, <1>3, <3>2, <3>8, <3>9, NameRead
    <3>11. Read(MountPath, PathIn(MaxParentLoop - (e + 1), <<mnt, parent>>), ring, loop_ctr + 1)
      BY <3>7, <3>10
    <3> QED BY <1>0, <1>4, <1>10, <3>4, <3>6, <3>11 DEF Outside, MountPath, PathOf, PathIn
  <2> QED BY <1>0, <2>1, <2>2 DEF PInv, WalkMounted
<1> QED BY <1>1, <1>8, <1>9, <1>12, <1>13, <1>14

(* A write through the dynptr leaves a buffer. *)
LEMMA WriteIsBuf ==
  ASSUME NEW buf, IsBuf(buf), NEW o, NEW data
  PROVE  IsBuf(DynptrWrite(buf, o, data))
<1>1. DOMAIN buf = 1 .. PathFragLen
  BY DEF IsBuf
<1>2. CASE o + Len(data) > PathFragLen
  BY <1>2 DEF DynptrWrite
<1>3. CASE ~ (o + Len(data) > PathFragLen)
  <2>1. DynptrWrite(buf, o, data) =
          [i \in 1 .. PathFragLen |-> IF i \in (o + 1) .. (o + Len(data))
                                      THEN data[i - o] ELSE buf[i]]
    BY <1>1, <1>3 DEF DynptrWrite
  <2>2. PICK g : g = [i \in 1 .. PathFragLen |-> IF i \in (o + 1) .. (o + Len(data))
                                      THEN data[i - o] ELSE buf[i]]
    OBVIOUS
  <2>3. g = [i \in 1 .. PathFragLen |-> g[i]]
    BY <2>2, Zenon
  <2> QED BY <2>1, <2>2, <2>3 DEF IsBuf
<1> QED BY <1>2, <1>3

(* So is the empty buffer. *)
LEMMA ZeroIsBuf == IsBuf(ZeroBuf) /\ DOMAIN ZeroBuf = 1 .. PathFragLen
<1>1. PICK g : g = [i \in 1 .. PathFragLen |-> ""]
  OBVIOUS
<1>2. g = [i \in 1 .. PathFragLen |-> g[i]] /\ DOMAIN g = 1 .. PathFragLen
  BY <1>1, Zenon
<1> QED BY <1>1, <1>2 DEF IsBuf, ZeroBuf

(* The paths the invariant is about. *)
LEMMA FilePath ==
  ASSUME PInv, file \in Files
  PROVE  /\ PathOf(file) \in Paths /\ \A i \in 1 .. Len(PathOf(file)) : ProperName(PathOf(file)[i])
         /\ MountPath \in Paths /\ \A i \in 1 .. Len(MountPath) : ProperName(MountPath[i])
<1>1. /\ file \in Positions /\ <<file[1], MntRoot[file[1]]>> \in Positions /\ Inv
  BY FileType, MountRootType DEF PInv
<1>2. MaxParentLoop \in Nat
  BY Sizes
<1>3. PathOf(file) \in Paths /\ MountPath \in Paths
  BY <1>1, <1>2, PathInType DEF PathOf, PathIn, MountPath
<1>4. Tree(d_parent, d_name) /\ \A d \in Dentries : d_parent[d] # d => ProperName(d_name[d])
  BY <1>1, TreeType DEF PInv, TreeInv
<1>5. \A n \in Nat : \A p \in Positions :
           \A i \in 1 .. Len(Components(root, d_parent, d_name)[n][p]) :
             ProperName(Components(root, d_parent, d_name)[n][p][i])
  BY <1>4, PathProper, Zenon
<1> QED BY <1>1, <1>2, <1>3, <1>5 DEF PathOf, MountPath

(* partial_d_path between its loops. *)
LEMMA StartAssemblyKeeps ==
  ASSUME PInv, StartAssembly
  PROVE  /\ TreeInv' /\ CallInv'
         /\ WalkExact' /\ WalkedExact' /\ AssemblyExact' /\ ResolvedExact'
         /\ WalkMounted' /\ WalkedMounted' /\ AssemblyMounted' /\ Relative' /\ MountedRight'
<1>0. /\ pc = "walked" /\ pc' = "assemble" /\ is_absolute' = is_absolute
      /\ loop_ctr' = loop_ctr /\ mod_ctr' = mod_ctr /\ iter' = 0
      /\ file' = file /\ mnt' = mnt /\ dentry' = dentry /\ parent' = parent
      /\ entryrec' = entryrec /\ d_name' = d_name /\ d_parent' = d_parent /\ root' = root
      /\ PATHBUFTMP' = PATHBUFTMP /\ renames' = renames
      /\ num_components' = Least(NumComp, loop_ctr)
      /\ copied' = IF is_absolute THEN 1 ELSE 0
      /\ start' = StartIndex
      /\ PATHBUF' = IF is_absolute THEN DynptrWrite(PATHBUF, 0, <<"/">>) ELSE PATHBUF
  BY DEF StartAssembly, tree, walk
<1>1. TreeInv'
  BY <1>0 DEF PInv, TreeInv
<1>2. /\ PATHBUF = ZeroBuf /\ mod_ctr = Mod(loop_ctr) /\ file \in Files /\ loop_ctr \in Nat
      /\ loop_ctr > 0 => Sane(PATHBUFTMP[Mod(loop_ctr - 1)])
  <2>1. loop_ctr \in Nat
    BY Sizes DEF PInv, Inv, TypeOK
  <2> QED BY <1>0, <2>1 DEF PInv, CallInv
<1>3. start' = Mod(loop_ctr - 1)
  <2>1. Mod(Mod(loop_ctr) + (- 1)) = Mod(loop_ctr + (- 1)) /\ Mod(loop_ctr) \in Int
    BY <1>2, ModShift, ModRange
  <2>2. Mod(loop_ctr) + (- 1) = Mod(loop_ctr) - 1 /\ loop_ctr + (- 1) = loop_ctr - 1
    BY <1>2, <2>1
  <2> QED BY <1>0, <1>2, <2>1, <2>2 DEF StartIndex
<1>4. IsBuf(PATHBUF')
  BY <1>0, <1>2, WriteIsBuf, ZeroIsBuf
<1>5. CallInv'
  BY <1>0, <1>2, <1>3, <1>4 DEF PInv, CallInv
<1>6. WalkExact' /\ WalkedExact' /\ ResolvedExact' /\ WalkMounted' /\ WalkedMounted' /\ MountedRight'
  BY <1>0 DEF WalkExact, WalkedExact, ResolvedExact, WalkMounted, WalkedMounted, MountedRight, Resolved
<1>7. Relative'
  BY <1>0, <1>2 DEF Relative
<1>8. ASSUME is_absolute, NEW P \in Paths, Read(P, <<>>, PATHBUFTMP, loop_ctr)
      PROVE  Assembly(P, PATHBUF', copied', iter', PATHBUFTMP', loop_ctr', num_components')
  <2>1. PATHBUF' = DynptrWrite(ZeroBuf, 0, <<"/">>) /\ copied' = 1
    BY <1>0, <1>2, <1>8
  <2>2. PICK buf : buf = DynptrWrite(ZeroBuf, 0, <<"/">>)
    OBVIOUS
  <2>3. Assembly(P, buf, 1, 0, PATHBUFTMP, loop_ctr, Least(NumComp, loop_ctr))
    BY <1>2, <1>8, <2>2, AssemblyStart
  <2> QED BY <1>0, <2>1, <2>2, <2>3
<1>9. AssemblyExact'
  <2> SUFFICES ASSUME renames = 0
               PROVE  /\ is_absolute <=> InReach(file)
                      /\ is_absolute =>
                           /\ Assembly(PathOf(file), PATHBUF', copied', iter', PATHBUFTMP', loop_ctr', num_components')
                           /\ Len(PathOf(file)) = loop_ctr
    BY <1>0 DEF AssemblyExact, InReach, PathOf
  <2>1. /\ is_absolute <=> InReach(file)
        /\ is_absolute => /\ Read(PathOf(file), <<>>, PATHBUFTMP, loop_ctr)
                          /\ Len(PathOf(file)) = loop_ctr
    BY <1>0 DEF PInv, WalkedExact
  <2> QED BY <1>2, <1>8, <2>1, FilePath
<1>10. AssemblyMounted'
  <2> SUFFICES ASSUME Mounted, is_absolute
               PROVE  Assembly(MountPath, PATHBUF', copied', iter', PATHBUFTMP', loop_ctr', num_components')
    BY <1>0 DEF AssemblyMounted, Mounted, MountPath, PathOf
  <2>1. Read(MountPath, <<>>, PATHBUFTMP, loop_ctr)
    BY <1>0 DEF PInv, WalkedMounted
  <2> QED BY <1>2, <1>8, <2>1, FilePath
<1> QED BY <1>1, <1>5, <1>6, <1>7, <1>9, <1>10

(* assemble_pathfrag puts a component into the fragment. *)
LEMMA AssembleStepKeeps ==
  ASSUME PInv, AssembleStep
  PROVE  /\ TreeInv' /\ CallInv'
         /\ WalkExact' /\ WalkedExact' /\ AssemblyExact' /\ ResolvedExact'
         /\ WalkMounted' /\ WalkedMounted' /\ AssemblyMounted' /\ Relative' /\ MountedRight'
<1>1. PICK elem : elem = Mod(start - iter)
  OBVIOUS
<1>2. PICK comp : comp = PATHBUFTMP[elem]
  OBVIOUS
<1>3. PICK len : len = Least(comp.len, PathFragLen)
  OBVIOUS
<1>4. PICK n : n = Least(len, PathFragLen - copied)
  OBVIOUS
<1>5. PICK c : c = [comp EXCEPT !.len = 0]
  OBVIOUS
<1>0. /\ pc = "assemble" /\ pc' = "assemble" /\ is_absolute' = is_absolute
      /\ iter < num_components /\ copied \in 0 .. PathFragLen
      /\ loop_ctr' = loop_ctr /\ mod_ctr' = mod_ctr /\ iter' = iter + 1
      /\ file' = file /\ mnt' = mnt /\ dentry' = dentry /\ parent' = parent
      /\ entryrec' = entryrec /\ d_name' = d_name /\ d_parent' = d_parent /\ root' = root
      /\ renames' = renames /\ num_components' = num_components /\ start' = start
  BY DEF AssembleStep, tree, walk
<1>6. PATHBUF' = Assembled(PATHBUF, copied, comp.pathcomp, n, len, iter, num_components)
  BY <1>1, <1>2, <1>3, <1>4 DEF AssembleStep, Assembled
<1>7. copied' = copied + n + (IF iter >= num_components - 1 THEN 0 ELSE 1)
  BY <1>1, <1>2, <1>3, <1>4 DEF AssembleStep
<1>8. PATHBUFTMP' = [PATHBUFTMP EXCEPT ![elem] = c]
  BY <1>1, <1>2, <1>5 DEF AssembleStep
<1>9. /\ iter \in Nat /\ loop_ctr \in Nat /\ num_components = Least(NumComp, loop_ctr)
      /\ file \in Files /\ IsBuf(PATHBUF) /\ (loop_ctr > 0 => start = Mod(loop_ctr - 1))
  <2>1. loop_ctr \in Nat /\ iter \in Nat
    BY Sizes DEF PInv, Inv, TypeOK
  <2> QED BY <1>0, <2>1 DEF PInv, CallInv
<1>10. num_components \in Nat /\ loop_ctr > 0
  BY <1>0, <1>9, Sizes DEF Least
<1>11. elem = Mod(loop_ctr - (iter + 1)) /\ elem \in 0 .. (NumComp - 1)
  <2>1. start = Mod(loop_ctr - 1)
    BY <1>9, <1>10
  <2>2. PICK a \in Int : a = loop_ctr - 1
    BY <1>9
  <2>3. PICK b \in Int : b = - iter
    BY <1>9
  <2>4. Mod(a) \in Int
    BY ModRange
  <2>5. Mod(Mod(a) + b) = Mod(a + b) /\ Mod(a + b) \in 0 .. (NumComp - 1)
    BY ModShift, ModRange
  <2>6. Mod(a) + b = Mod(a) - iter /\ a + b = loop_ctr - (iter + 1)
    BY <1>9, <2>2, <2>3, <2>4
  <2> QED BY <1>1, <2>1, <2>2, <2>5, <2>6
<1>12. RingOK(PATHBUFTMP) /\ DOMAIN PATHBUF = 1 .. PathFragLen
  BY DEF PInv, Inv, TypeOK, RingOK
<1>13. comp.len \in Nat /\ comp.pathcomp \in Seq(STRING) /\ comp.len <= Len(comp.pathcomp)
  BY <1>2, <1>11, <1>12 DEF RingOK, Component
<1>14. /\ len \in Nat /\ n \in Nat /\ n <= comp.len /\ n <= len /\ copied + n <= PathFragLen
       /\ comp.len > 0 /\ copied = 0 => n >= 1
  <2>1. Len(comp.pathcomp) \in Nat
    BY <1>13, LenProperties
  <2>2. Lengths(Len(comp.pathcomp), comp.len, copied, len, n)
    BY <1>0, <1>3, <1>4, <1>13, <2>1, StepSizes, Zenon
  <2> QED BY <2>2, Zenon DEF Lengths
<1>15. n <= Len(comp.pathcomp)
  BY <1>13, <1>14, LenProperties
<1>20. TreeInv'
  BY <1>0 DEF PInv, TreeInv
<1>21. IsBuf(PATHBUF')
  BY <1>6, <1>9, WriteIsBuf, Zenon DEF Assembled
<1>22. CallInv'
  BY <1>0, <1>9, <1>21 DEF PInv, CallInv
<1>23. WalkExact' /\ WalkedExact' /\ ResolvedExact' /\ WalkMounted' /\ WalkedMounted' /\ MountedRight'
  BY <1>0 DEF WalkExact, WalkedExact, ResolvedExact, WalkMounted, WalkedMounted, MountedRight, Resolved
<1>24. ASSUME NEW P \in Paths, \A i \in 1 .. Len(P) : ProperName(P[i]),
              Assembly(P, PATHBUF, copied, iter, PATHBUFTMP, loop_ctr, num_components)
       PROVE  Assembly(P, PATHBUF', copied', iter', PATHBUFTMP', loop_ctr', num_components')
  <2>1. Assembly(P, Assembled(PATHBUF, copied, comp.pathcomp, n, len, iter, num_components),
                 copied + n + (IF iter >= num_components - 1 THEN 0 ELSE 1), iter + 1,
                 [PATHBUFTMP EXCEPT ![elem] = c], loop_ctr, num_components)
    BY <1>0, <1>2, <1>3, <1>4, <1>9, <1>10, <1>11, <1>12, <1>24, AssemblyStep
  <2> QED BY <1>0, <1>6, <1>7, <1>8, <2>1
<1>25. AssemblyExact'
  <2> SUFFICES ASSUME renames = 0
               PROVE  /\ is_absolute <=> InReach(file)
                      /\ is_absolute =>
                           /\ Assembly(PathOf(file), PATHBUF', copied', iter', PATHBUFTMP', loop_ctr', num_components')
                           /\ Len(PathOf(file)) = loop_ctr
    BY <1>0 DEF AssemblyExact, InReach, PathOf
  <2>1. /\ is_absolute <=> InReach(file)
        /\ is_absolute =>
             /\ Assembly(PathOf(file), PATHBUF, copied, iter, PATHBUFTMP, loop_ctr, num_components)
             /\ Len(PathOf(file)) = loop_ctr
    BY <1>0 DEF PInv, AssemblyExact
  <2> QED BY <1>9, <1>24, <2>1, FilePath
<1>26. AssemblyMounted'
  <2> SUFFICES ASSUME Mounted, is_absolute
               PROVE  Assembly(MountPath, PATHBUF', copied', iter', PATHBUFTMP', loop_ctr', num_components')
    BY <1>0 DEF AssemblyMounted, Mounted, MountPath, PathOf
  <2>1. Assembly(MountPath, PATHBUF, copied, iter, PATHBUFTMP, loop_ctr, num_components)
    BY <1>0 DEF PInv, AssemblyMounted
  <2> QED BY <1>9, <1>24, <2>1, FilePath
<1>27. Relative'
  <2> SUFFICES ASSUME ~ is_absolute PROVE copied' >= 1 /\ PATHBUF'[1] # "/"
    BY <1>0 DEF Relative
  <2>1. 1 \in 1 .. PathFragLen /\ copied \in Nat
    BY <1>0, Sizes
  <2>2. Stepped(PATHBUF', PATHBUF, copied, comp.pathcomp, n, len, iter, num_components, 1)
    BY <1>6, <1>9, <1>10, <1>12, <1>13, <1>14, <1>15, <2>1, AssembledAt
  <2>3. copied' >= copied + n
    BY <1>7, <1>14, <2>1
  <2>4. CASE copied >= 1 /\ PATHBUF[1] # "/"
    <3>1. PATHBUF'[1] = PATHBUF[1]
      BY <2>2, <2>4 DEF Stepped
    <3>2. copied >= 1
      BY <2>4
    <3>3. copied' >= 1
      BY <1>14, <1>7, <2>1, <3>2
    <3> QED BY <2>4, <3>1, <3>3
  <2>5. CASE copied = 0 /\ iter = 0 /\ (loop_ctr > 0 => Sane(PATHBUFTMP[Mod(loop_ctr - 1)]))
    <3>1. loop_ctr - (iter + 1) = loop_ctr - 1
      BY <1>9, <2>5
    <3>2. Sane(comp)
      BY <1>2, <1>10, <1>11, <2>5, <3>1
    <3>3. n >= 1 /\ comp.pathcomp[1] # "/"
      BY <1>14, <2>5, <3>2 DEF Sane
    <3>4. ~ (1 <= copied) /\ 1 <= copied + n /\ 1 - copied = 1
      BY <1>14, <2>1, <2>5, <3>3
    <3>5. PATHBUF'[1] = comp.pathcomp[1 - copied]
      BY <2>2, <3>4 DEF Stepped
    <3>6. copied' >= 1
      BY <1>14, <1>7, <2>1, <2>5, <3>3
    <3> QED BY <3>3, <3>4, <3>5, <3>6
  <2> QED BY <1>0, <2>4, <2>5 DEF PInv, Relative
<1> QED BY <1>20, <1>22, <1>23, <1>25, <1>26, <1>27

(* The fragment of the record is what was assembled. *)
LEMMA FragmentAt ==
  ASSUME NEW P \in Paths, NEW x \in 1 .. PathFragLen
  PROVE  Fragment(P)[x] = IF x <= Len(Characters(P)) THEN Characters(P)[x] ELSE ""
BY Zenon DEF Fragment

(* A fragment is a buffer. *)
LEMMA FragmentDomain ==
  ASSUME NEW P
  PROVE  /\ Fragment(P) = [x \in 1 .. PathFragLen |-> Fragment(P)[x]]
         /\ DOMAIN Fragment(P) = 1 .. PathFragLen
<1>1. PICK g : g = Fragment(P)
  OBVIOUS
<1>2. g = [x \in 1 .. PathFragLen |-> IF x <= Len(Characters(P)) THEN Characters(P)[x] ELSE ""]
  BY <1>1 DEF Fragment
<1>3. g = [x \in 1 .. PathFragLen |-> g[x]] /\ DOMAIN g = 1 .. PathFragLen
  BY <1>2, Zenon
<1> QED BY <1>1, <1>3

(* A buffer with the characters of a path that fit is its fragment. *)
LEMMA FragmentIs ==
  ASSUME NEW P \in Paths, NEW buf, IsBuf(buf), Matches(Characters(P), buf),
         Blank(Characters(P), buf)
  PROVE  buf = Fragment(P)
<1>1. PICK l \in Nat : l = Len(Characters(P))
  <2>1. PICK off : Laid(P, Characters(P), off)
    BY Layout
  <2>2. Len(P) \in Nat
    BY LenProperties DEF Paths
  <2>3. Len(Characters(P)) \in Nat
    BY <2>1, <2>2 DEF Laid
  <2> QED BY <2>3
<1>2. ASSUME NEW x \in 1 .. PathFragLen PROVE buf[x] = Fragment(P)[x]
  <2>1. x <= l \/ x > l
    BY Sizes
  <2>2. CASE x <= l
    BY <1>1, <2>2, FragmentAt DEF Matches
  <2>3. CASE x > l
    <3>1. ~ (x <= l)
      BY <2>3, Sizes
    <3> QED BY <1>1, <2>3, <3>1, FragmentAt DEF Blank
  <2> QED BY <2>1, <2>2, <2>3
<1>3. [x \in 1 .. PathFragLen |-> buf[x]] = [x \in 1 .. PathFragLen |-> Fragment(P)[x]]
  BY <1>2
<1>4. Fragment(P) = [x \in 1 .. PathFragLen |-> Fragment(P)[x]]
  BY FragmentDomain
<1> QED BY <1>3, <1>4 DEF IsBuf

(* The fragment is the record's. *)
LEMMA FinishKeeps ==
  ASSUME PInv, Finish
  PROVE  /\ TreeInv' /\ CallInv'
         /\ WalkExact' /\ WalkedExact' /\ AssemblyExact' /\ ResolvedExact'
         /\ WalkMounted' /\ WalkedMounted' /\ AssemblyMounted' /\ Relative' /\ MountedRight'
<1>0. /\ pc = "assemble" /\ pc' = "idle" /\ is_absolute' = is_absolute
      /\ iter >= num_components \/ copied \notin 0 .. PathFragLen
      /\ loop_ctr' = loop_ctr /\ mod_ctr' = mod_ctr
      /\ file' = file /\ mnt' = mnt /\ dentry' = dentry /\ parent' = parent
      /\ entryrec' = PATHBUF /\ d_name' = d_name /\ d_parent' = d_parent /\ root' = root
      /\ renames' = renames /\ PATHBUF' = ZeroBuf
  BY DEF Finish, tree, walk, Clear
<1>1. /\ iter \in Nat /\ loop_ctr \in Nat /\ num_components = Least(NumComp, loop_ctr)
      /\ file \in Files /\ IsBuf(PATHBUF)
  <2>1. loop_ctr \in Nat /\ iter \in Nat
    BY Sizes DEF PInv, Inv, TypeOK
  <2> QED BY <1>0, <2>1 DEF PInv, CallInv
<1>2. num_components \in Nat
  BY <1>1, Sizes DEF Least
<1>3. DOMAIN PATHBUF = 1 .. PathFragLen /\ copied \in 0 .. (PathFragLen + 1)
  BY DEF PInv, Inv, TypeOK
<1>4. TreeInv'
  BY <1>0 DEF PInv, TreeInv
<1>5. CallInv'
  BY <1>0, <1>1, ZeroIsBuf DEF PInv, CallInv
<1>6. WalkExact' /\ WalkedExact' /\ AssemblyExact' /\ WalkMounted' /\ WalkedMounted' /\ AssemblyMounted'
      /\ Relative'
  BY <1>0 DEF WalkExact, WalkedExact, AssemblyExact, WalkMounted, WalkedMounted, AssemblyMounted, Relative
<1>7. ASSUME NEW P \in Paths, \A i \in 1 .. Len(P) : ProperName(P[i]),
             Assembly(P, PATHBUF, copied, iter, PATHBUFTMP, loop_ctr, num_components)
      PROVE  /\ Matches(Characters(P), PATHBUF)
             /\ Len(P) = loop_ctr => Blank(Characters(P), PATHBUF)
  BY <1>0, <1>1, <1>2, <1>3, <1>7, AssemblyDone
<1>8. ~ is_absolute => PATHBUF[1] # "/"
  <2> SUFFICES ASSUME ~ is_absolute PROVE PATHBUF[1] # "/"
    OBVIOUS
  <2>1. CASE copied >= 1 /\ PATHBUF[1] # "/"
    BY <2>1
  <2>2. CASE PATHBUF = ZeroBuf
    <3>1. 1 \in 1 .. PathFragLen
      BY Sizes
    <3>2. ZeroBuf[1] = ""
      BY <3>1 DEF ZeroBuf
    <3> QED BY <2>2, <3>2
  <2> QED BY <1>0, <2>1, <2>2 DEF PInv, Relative
<1>9. ResolvedExact'
  <2> SUFFICES ASSUME renames = 0
               PROVE  IF InReach(file) THEN PATHBUF = Fragment(PathOf(file)) ELSE PATHBUF[1] # "/"
    BY <1>0 DEF ResolvedExact, InReach, PathOf
  <2>1. /\ is_absolute <=> InReach(file)
        /\ is_absolute =>
             /\ Assembly(PathOf(file), PATHBUF, copied, iter, PATHBUFTMP, loop_ctr, num_components)
             /\ Len(PathOf(file)) = loop_ctr
    BY <1>0 DEF PInv, AssemblyExact
  <2>2. CASE InReach(file)
    <3>1. PICK P : P = PathOf(file)
      OBVIOUS
    <3>2. P \in Paths /\ \A i \in 1 .. Len(P) : ProperName(P[i])
      BY <1>1, <3>1, FilePath
    <3>3. /\ Assembly(P, PATHBUF, copied, iter, PATHBUFTMP, loop_ctr, num_components)
          /\ Len(P) = loop_ctr
      BY <2>1, <2>2, <3>1
    <3>4. Matches(Characters(P), PATHBUF) /\ Blank(Characters(P), PATHBUF)
      BY <1>7, <3>2, <3>3
    <3>5. PATHBUF = Fragment(P)
      BY <1>1, <3>2, <3>4, FragmentIs
    <3> QED BY <2>2, <3>1, <3>5
  <2>3. CASE ~ InReach(file)
    BY <1>8, <2>1, <2>3
  <2> QED BY <2>2, <2>3
<1>10. MountedRight'
  <2> SUFFICES ASSUME Mounted, PATHBUF[1] = "/"
               PROVE  \A i \in DOMAIN Fragment(MountPath) :
                        Fragment(MountPath)[i] # "" => PATHBUF[i] = Fragment(MountPath)[i]
    BY <1>0 DEF MountedRight, Mounted, MountPath, PathOf
  <2>1. PICK P : P = MountPath
    OBVIOUS
  <2>2. P \in Paths /\ \A i \in 1 .. Len(P) : ProperName(P[i])
    BY <1>1, <2>1, FilePath
  <2>3. is_absolute
    BY <1>8
  <2>4. Assembly(P, PATHBUF, copied, iter, PATHBUFTMP, loop_ctr, num_components)
    BY <1>0, <2>1, <2>3 DEF PInv, AssemblyMounted
  <2>5. Matches(Characters(P), PATHBUF)
    BY <1>7, <2>2, <2>4
  <2>6. ASSUME NEW i \in 1 .. PathFragLen, Fragment(P)[i] # "" PROVE PATHBUF[i] = Fragment(P)[i]
    BY <2>2, <2>5, <2>6, FragmentAt DEF Matches
  <2> QED BY <2>1, <2>6, FragmentDomain
<1> QED BY <1>4, <1>5, <1>6, <1>9, <1>10

(* A rename keeps the paths through directories that are not renamed. *)
LEMMA RenameKeepsPaths ==
  ASSUME PInv, NEW m \in Moves, Rename(m)
  PROVE  /\ TreeInv'
         /\ \A n \in Nat : \A p : Above(Fixed, p) => (PathIn(n, p))' = PathIn(n, p)
<1>0. /\ d_parent' = [d_parent EXCEPT ![m[1]] = m[2]]
      /\ d_name' = [d_name EXCEPT ![m[1]] = m[3]] /\ root' = root
  BY DEF Rename
<1>1. m[1] \in Dentries /\ m[2] \in Dentries /\ m[3] \in Seq(STRING) /\ ProperName(m[3])
  BY ConstantsAssumption, NamesAssumption
<1>2. Tree(d_parent, d_name)
  BY TreeType DEF PInv
<1>3. Tree(d_parent', d_name')
  BY <1>0, <1>1, <1>2 DEF Tree
<1>4. m[1] \notin Fixed /\ Fixed \in SUBSET Dentries
  BY FixedOK DEF Mountings, Settled
<1>5. /\ \A d \in Dentries \ {m[1]} : d_parent'[d] = d_parent[d] /\ d_name'[d] = d_name[d]
      /\ d_parent'[m[1]] = m[2] /\ d_name'[m[1]] = m[3]
  BY <1>0, <1>1, <1>2 DEF Tree
<1>6. \A d \in Fixed : d_parent[d] = Parent0[d] /\ d_parent'[d] = Parent0[d] /\ d_name'[d] = d_name[d]
  BY <1>4, <1>5 DEF PInv, TreeInv
<1>7. ASSUME NEW d \in Dentries, d_parent'[d] # d PROVE ProperName(d_name'[d])
  BY <1>1, <1>5, <1>7 DEF PInv, TreeInv
<1>8. ASSUME NEW mt \in Mounts, NEW d \in Held(mt) \ {MntRoot[mt]}
      PROVE  d_parent'[d] \in Held(mt) /\ d_parent'[d] # d
  <2>1. Holds(mt, Held(mt)) /\ Held(mt) \in SUBSET Dentries
    BY HeldOK
  <2>2. d_parent[d] \in Held(mt) /\ d_parent[d] # d /\ d \in Dentries
    BY <1>8, <2>1 DEF PInv, TreeInv
  <2>3. CASE d = m[1]
    BY <1>5, <1>8, <2>1, <2>3 DEF Holds
  <2>4. CASE d # m[1]
    BY <1>5, <2>2, <2>4
  <2> QED BY <2>3, <2>4
<1>9. TreeInv'
  BY <1>0, <1>6, <1>7, <1>8 DEF PInv, TreeInv
<1>10. PICK par2 : par2 = d_parent'
  OBVIOUS
<1>11. PICK nm2 : nm2 = d_name'
  OBVIOUS
<1>12. \A n \in Nat : \A p : Above(Fixed, p) =>
           Components(root, d_parent, d_name)[n][p] = Components(root, par2, nm2)[n][p]
  <2>1. Tree(par2, nm2) /\ \A d \in Fixed :
          d_parent[d] = Parent0[d] /\ par2[d] = Parent0[d] /\ nm2[d] = d_name[d]
    BY <1>3, <1>6, <1>10, <1>11
  <2>2. Mountings(Fixed)
    BY FixedOK
  <2> QED BY <1>2, <2>1, <2>2, PathKept
<1>13. \A n \in Nat : \A p : Above(Fixed, p) => (PathIn(n, p))' = PathIn(n, p)
  BY <1>0, <1>10, <1>11, <1>12 DEF PathIn
<1> QED BY <1>9, <1>13

(* A rename, anywhere in the walk. *)
LEMMA RenameKeeps ==
  ASSUME PInv, NEW m \in Moves, Rename(m)
  PROVE  /\ TreeInv' /\ CallInv'
         /\ WalkExact' /\ WalkedExact' /\ AssemblyExact' /\ ResolvedExact'
         /\ WalkMounted' /\ WalkedMounted' /\ AssemblyMounted' /\ Relative' /\ MountedRight'
<1>0. /\ pc' = pc /\ is_absolute' = is_absolute /\ renames' = renames + 1
      /\ loop_ctr' = loop_ctr /\ mod_ctr' = mod_ctr /\ iter' = iter
      /\ file' = file /\ mnt' = mnt /\ dentry' = dentry /\ parent' = parent
      /\ entryrec' = entryrec /\ root' = root /\ PATHBUF' = PATHBUF /\ PATHBUFTMP' = PATHBUFTMP
      /\ start' = start /\ copied' = copied /\ num_components' = num_components
      /\ d_parent' = [d_parent EXCEPT ![m[1]] = m[2]]
      /\ d_name' = [d_name EXCEPT ![m[1]] = m[3]]
  BY DEF Rename, walk, bufs, assem
<1>1. renames' \in Nat /\ ~ (renames' = 0)
  <2>1. renames \in Nat
    BY DEF PInv, CallInv
  <2> QED BY <1>0, <2>1
<1>2. TreeInv' /\ \A n \in Nat : \A p : Above(Fixed, p) => (PathIn(n, p))' = PathIn(n, p)
  BY RenameKeepsPaths
<1>3. WalkExact' /\ WalkedExact' /\ AssemblyExact' /\ ResolvedExact' /\ Relative'
  BY <1>0, <1>1 DEF PInv, WalkExact, WalkedExact, AssemblyExact, ResolvedExact, Relative
<1>4. CallInv'
  <2>1. /\ m[1] \notin Fixed /\ ProperName(m[3]) /\ dentry \in Dentries
        /\ d_parent \in [Dentries -> Dentries] /\ d_name \in [Dentries -> Seq(STRING)]
    BY FixedOK, NamesAssumption DEF Mountings, Settled, PInv, Inv, TypeOK
  <2>2. dentry \in Fixed => d_parent'[dentry] = d_parent[dentry]
    BY <1>0, <2>1
  <2>3. ProperName(d_name[dentry]) => ProperName(d_name'[dentry])
    BY <1>0, <2>1
  <2>4. Here' = Here
    BY <1>0 DEF Here
  <2> QED BY <1>0, <1>1, <2>2, <2>3, <2>4 DEF PInv, CallInv
<1>5. ASSUME file \in Files PROVE MountPath' = MountPath
  <2>1. Above(Fixed, <<file[1], MntRoot[file[1]]>>)
    BY <1>5, FileType, MountRootType
  <2>2. PICK p : p = <<file[1], MntRoot[file[1]]>>
    OBVIOUS
  <2>3. MaxParentLoop \in Nat
    BY Sizes
  <2>4. (PathIn(MaxParentLoop, p))' = PathIn(MaxParentLoop, p)
    BY <1>2, <2>1, <2>2, <2>3
  <2> QED BY <1>0, <2>2, <2>4 DEF MountPath, PathOf, PathIn
<1>6. pc # "idle" \/ entryrec # <<>> => file \in Files
  BY DEF PInv, CallInv
<1>7. WalkedMounted' /\ AssemblyMounted'
  BY <1>0, <1>5, <1>6 DEF PInv, WalkedMounted, AssemblyMounted, Mounted
<1>8. MountedRight'
  <2>1. MountedRight <=> (Resolved /\ entryrec[1] = "/" /\ Mounted =>
          \A i \in DOMAIN Fragment(MountPath) :
            Fragment(MountPath)[i] # "" => entryrec[i] = Fragment(MountPath)[i])
    BY DEF MountedRight, MountPath, Mounted
  <2>2. MountedRight' <=> (Resolved' /\ entryrec'[1] = "/" /\ Mounted' =>
          \A i \in DOMAIN Fragment(MountPath') :
            Fragment(MountPath')[i] # "" => entryrec'[i] = Fragment(MountPath')[i])
    BY DEF MountedRight, MountPath, Mounted
  <2>3. (Resolved' <=> Resolved) /\ (Mounted' <=> Mounted) /\ entryrec' = entryrec
    BY <1>0 DEF Resolved, Mounted
  <2>4. Resolved => MountPath' = MountPath
    BY <1>5, <1>6 DEF Resolved
  <2>5. MountedRight
    BY DEF PInv
  <2> QED BY <2>1, <2>2, <2>3, <2>4, <2>5
<1>9. WalkMounted'
  <2> SUFFICES ASSUME Mounted, pc \in {"walk", "name"} PROVE Inside' \/ Outside'
    BY <1>0 DEF WalkMounted, Mounted
  <2>1. CASE Inside
    BY <1>0, <2>1 DEF Inside
  <2>2. CASE Outside
    <3>1. Here' = Here /\ MountPath' = MountPath /\ iter \in Nat /\ iter <= MaxParentLoop
      BY <1>0, <1>5, <1>6 DEF Here, PInv, CallInv, Inv, TypeOK
    <3>2. PICK h : h = Here
      OBVIOUS
    <3>3. PICK e \in 0 .. iter :
            Read(MountPath, PathIn(MaxParentLoop - e, h), PATHBUFTMP, loop_ctr)
      BY <2>2, <3>2 DEF Outside
    <3>4. MaxParentLoop - e \in Nat
      BY <3>1, Sizes
    <3>5. (PathIn(MaxParentLoop - e, h))' = PathIn(MaxParentLoop - e, h)
      BY <1>2, <2>2, <3>2, <3>4 DEF Outside
    <3>6. (PathIn(MaxParentLoop - e, Here))' = (PathIn(MaxParentLoop - e, h))'
      BY <3>1, <3>2 DEF PathIn
    <3>7. Read(MountPath', (PathIn(MaxParentLoop - e, Here))', PATHBUFTMP', loop_ctr')
      BY <1>0, <3>1, <3>3, <3>5, <3>6
    <3>8. e \in 0 .. iter' /\ Above(Fixed, Here')
      BY <1>0, <2>2, <3>1 DEF Outside
    <3> QED BY <3>7, <3>8 DEF Outside
  <2> QED BY <2>1, <2>2 DEF PInv, WalkMounted
<1> QED BY <1>2, <1>3, <1>4, <1>7, <1>8, <1>9

(* The first state. *)
LEMMA InitPInv == Init => PInv
<1> SUFFICES ASSUME Init PROVE PInv
  OBVIOUS
<1>1. Inv
  BY InitInv
<1>2. /\ pc = "idle" /\ entryrec = <<>> /\ loop_ctr = 0 /\ mod_ctr = 0 /\ PATHBUF = ZeroBuf
      /\ renames = 0 /\ root \in Roots /\ d_parent = Parent0 /\ d_name \in Namings
  BY DEF Init
<1>3. TreeInv
  <2>1. root \in Positions
    BY <1>2, ConstantsAssumption DEF Positions
  <2>2. \A d \in Dentries : d_parent[d] # d => ProperName(d_name[d])
    BY <1>2, NamesAssumption
  <2>3. \A mt \in Mounts : \A d \in Held(mt) \ {MntRoot[mt]} :
          d_parent[d] \in Held(mt) /\ d_parent[d] # d
    BY <1>2, HeldOK DEF Holds
  <2> QED BY <1>2, <2>1, <2>2, <2>3 DEF TreeInv
<1>4. CallInv
  BY <1>2, ModZero, ZeroIsBuf DEF CallInv
<1>5. /\ WalkExact /\ WalkedExact /\ AssemblyExact /\ ResolvedExact
      /\ WalkMounted /\ WalkedMounted /\ AssemblyMounted /\ Relative /\ MountedRight
  BY <1>2 DEF WalkExact, WalkedExact, AssemblyExact, ResolvedExact, WalkMounted, WalkedMounted,
              AssemblyMounted, Relative, MountedRight, Resolved
<1> QED BY <1>1, <1>3, <1>4, <1>5 DEF PInv

(* Every step keeps the invariant. *)
LEMMA NextPInv == PInv /\ [Next]_vars => PInv'
<1> SUFFICES ASSUME PInv, [Next]_vars PROVE PInv'
  OBVIOUS
<1>1. CASE UNCHANGED vars
  <2>1. /\ d_name' = d_name /\ d_parent' = d_parent /\ root' = root /\ pc' = pc /\ file' = file
        /\ dentry' = dentry /\ mnt' = mnt /\ parent' = parent /\ iter' = iter
        /\ loop_ctr' = loop_ctr /\ mod_ctr' = mod_ctr /\ is_absolute' = is_absolute
        /\ PATHBUFTMP' = PATHBUFTMP /\ PATHBUF' = PATHBUF /\ start' = start /\ copied' = copied
        /\ num_components' = num_components /\ entryrec' = entryrec /\ renames' = renames
    BY <1>1 DEF vars, tree, walk, bufs, assem
  <2>2. Inv'
    BY <2>1 DEF PInv, Inv, TypeOK
  <2>3. TreeInv'
    BY <2>1 DEF PInv, TreeInv
  <2>4. CallInv'
    BY <2>1 DEF PInv, CallInv, Here
  <2>5. WalkExact' /\ WalkedExact' /\ AssemblyExact'
    BY <2>1 DEF PInv, WalkExact, WalkedExact, AssemblyExact, PathOf, PathIn, RootIn, InReach, Here
  <2>6. ResolvedExact' /\ MountedRight' /\ Relative'
    BY <2>1 DEF PInv, ResolvedExact, MountedRight, Relative, Resolved, InReach, PathOf
  <2>7. WalkMounted' /\ WalkedMounted' /\ AssemblyMounted'
    BY <2>1 DEF PInv, WalkMounted, WalkedMounted, AssemblyMounted, Mounted, MountPath, PathOf,
                PathIn, Here, Inside, Outside
  <2> QED BY <2>2, <2>3, <2>4, <2>5, <2>6, <2>7 DEF PInv
<1>2. CASE Next
  <2>1. Inv'
    BY <1>2, WalkKeepsInv, AssemblyKeepsInv DEF PInv, Next
  <2>2. /\ TreeInv' /\ CallInv'
        /\ WalkExact' /\ WalkedExact' /\ AssemblyExact' /\ ResolvedExact'
        /\ WalkMounted' /\ WalkedMounted' /\ AssemblyMounted' /\ Relative' /\ MountedRight'
    <3>1. CASE \E f \in Files : Enter(f)
      BY <3>1, EnterKeeps
    <3>2. CASE WalkRoot
      BY <3>2, WalkRootKeeps
    <3>3. CASE WalkMount
      BY <3>3, WalkMountKeeps
    <3>4. CASE WalkParent
      BY <3>4, WalkParentKeeps
    <3>5. CASE WalkOut
      BY <3>5, WalkOutKeeps
    <3>6. CASE WalkName
      BY <3>6, WalkNameKeeps
    <3>7. CASE StartAssembly
      BY <3>7, StartAssemblyKeeps
    <3>8. CASE AssembleStep
      BY <3>8, AssembleStepKeeps
    <3>9. CASE Finish
      BY <3>9, FinishKeeps
    <3>10. CASE \E m \in Moves : Rename(m)
      BY <3>10, RenameKeeps
    <3> QED BY <1>2, <3>1, <3>2, <3>3, <3>4, <3>5, <3>6, <3>7, <3>8, <3>9, <3>10 DEF Next
  <2> QED BY <2>1, <2>2 DEF PInv
<1> QED BY <1>1, <1>2

(* For every tree of directories and mounts, every root of the process,    *)
(* every sequence of calls and the buffers they leave behind, and buffers  *)
(* of any size in the proportions of SizesAssumption: while nobody renames,*)
(* partial_d_path writes exactly the first characters of the path when the *)
(* walk reaches the root, and otherwise a fragment without a leading "/".  *)
THEOREM ResolvedExactly == Spec => []ResolvedExact
<1>1. PInv => ResolvedExact
  BY DEF PInv
<1> QED BY <1>1, InitPInv, NextPInv, PTL DEF Spec

(* However renames interleave with the walk, an absolute fragment of a     *)
(* file outside the file system of the process's root starts with the path *)
(* where the file's file system is mounted: path_walk_step crosses from    *)
(* the mount's root to its mount point and on, whatever it read before.    *)
THEOREM MountedRightly == Spec => []MountedRight
<1>1. PInv => MountedRight
  BY DEF PInv
<1> QED BY <1>1, InitPInv, NextPInv, PTL DEF Spec
=============================================================================
