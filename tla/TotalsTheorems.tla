---------------------------- MODULE TotalsTheorems ----------------------------
(***************************************************************************)
(* What deposits, withdrawals and new entries do to the sum of a ledger.   *)
(***************************************************************************)
EXTENDS Totals, FiniteSetTheorems, FunctionTheorems, TLAPS

(* An unit of f is a key and a number up to what f holds under the key.    *)
LEMMA UnitsMember ==
    ASSUME NEW S, NEW f \in [S -> Nat], NEW x, NEW i
    PROVE  <<x, i>> \in Units(f) <=> x \in S /\ i \in 1 .. f[x]
BY DEF Units

(* The units of f are pairs.                                               *)
LEMMA UnitsPairs ==
    ASSUME NEW S, NEW f \in [S -> Nat], NEW u \in Units(f)
    PROVE  \E x \in S : \E i \in 1 .. f[x] : u = <<x, i>>
BY DEF Units

(* An empty ledger sums to nothing.                                        *)
LEMMA TotalZero ==
    ASSUME NEW S, NEW f \in [S -> Nat], \A x \in S : f[x] = 0
    PROVE  IsFiniteSet(Units(f)) /\ Total(f) = 0
<1>1. Units(f) = {}
  <2> SUFFICES ASSUME NEW u \in Units(f) PROVE FALSE
    OBVIOUS
  <2>1. PICK x \in S : \E i \in 1 .. f[x] : u = <<x, i>>
    BY UnitsPairs
  <2>2. 1 .. f[x] = {}
    OBVIOUS
  <2> QED
    BY <2>1, <2>2
<1> QED
  BY <1>1, FS_EmptySet DEF Total

(* The n units numbered k + 1 to k + n under key x.                        *)
Run(x, k, n) == {x} \X (k + 1 .. k + n)

(* A run of n units has n elements.                                        *)
LEMMA RunOfUnits ==
    ASSUME NEW x, NEW k \in Nat, NEW n \in Nat
    PROVE  IsFiniteSet(Run(x, k, n)) /\ Cardinality(Run(x, k, n)) = n
<1>1. /\ IsFiniteSet(k + 1 .. k + n)
      /\ Cardinality(k + 1 .. k + n) = n
  BY FS_Interval, k + 1 \in Int, k + n \in Int
<1>2. IsFiniteSet({x}) /\ Cardinality({x}) = 1
  BY FS_Singleton
<1>3. /\ IsFiniteSet({x} \X (k + 1 .. k + n))
      /\ Cardinality({x} \X (k + 1 .. k + n))
            = Cardinality({x}) * Cardinality(k + 1 .. k + n)
  BY <1>1, <1>2, FS_Product
<1> QED
  BY <1>1, <1>2, <1>3 DEF Run

(* Crediting n under key x, which may be new, adds n to the sum.           *)
LEMMA TotalCredit ==
    ASSUME NEW S, NEW T, NEW f \in [S -> Nat], NEW g \in [T -> Nat],
           NEW x \in T, NEW n \in Nat,
           T = S \union {x},
           \A y \in S : y # x => g[y] = f[y],
           g[x] = (IF x \in S THEN f[x] ELSE 0) + n,
           IsFiniteSet(Units(f))
    PROVE  IsFiniteSet(Units(g)) /\ Total(g) = Total(f) + n
<1> DEFINE k == IF x \in S THEN f[x] ELSE 0
           New == Run(x, k, n)
<1>1. k \in Nat /\ g[x] = k + n
  OBVIOUS
<1>2. IsFiniteSet(New) /\ Cardinality(New) = n
  BY <1>1, RunOfUnits
<1>3. Units(g) = Units(f) \union New
  <2>1. ASSUME NEW u \in Units(g) PROVE u \in Units(f) \union New
    <3>1. PICK y \in T : \E i \in 1 .. g[y] : u = <<y, i>>
      BY <2>1, UnitsPairs
    <3>2. PICK i \in 1 .. g[y] : u = <<y, i>>
      BY <3>1
    <3>3. CASE y # x
      <4>1. y \in S /\ i \in 1 .. f[y]
        BY <3>2, <3>3
      <4> QED
        BY <4>1, <3>2, UnitsMember
    <3>4. CASE y = x /\ i <= k
      <4>1. x \in S /\ i \in 1 .. f[x]
        BY <3>2, <3>4, <1>1
      <4> QED
        BY <4>1, <3>2, <3>4, UnitsMember
    <3>5. CASE y = x /\ ~(i <= k)
      <4>1. i \in k + 1 .. k + n
        BY <3>2, <3>5, <1>1
      <4> QED
        BY <4>1, <3>2, <3>5 DEF Run
    <3> QED
      BY <3>3, <3>4, <3>5
  <2>2. ASSUME NEW u \in Units(f) PROVE u \in Units(g)
    <3>1. PICK y \in S : \E i \in 1 .. f[y] : u = <<y, i>>
      BY <2>2, UnitsPairs
    <3>2. PICK i \in 1 .. f[y] : u = <<y, i>>
      BY <3>1
    <3>3. y \in T /\ i \in 1 .. g[y]
      BY <3>2, <1>1
    <3> QED
      BY <3>2, <3>3, UnitsMember
  <2>3. ASSUME NEW u \in New PROVE u \in Units(g)
    <3>1. PICK i \in k + 1 .. k + n : u = <<x, i>>
      BY <2>3 DEF Run
    <3>2. i \in 1 .. g[x]
      BY <3>1, <1>1
    <3> QED
      BY <3>1, <3>2, UnitsMember
  <2> QED
    BY <2>1, <2>2, <2>3
<1>4. Units(f) \intersect New = {}
  <2> SUFFICES ASSUME NEW u \in Units(f), u \in New PROVE FALSE
    OBVIOUS
  <2>1. PICK i \in k + 1 .. k + n : u = <<x, i>>
    BY DEF Run
  <2>2. x \in S /\ i \in 1 .. f[x]
    BY <2>1, UnitsMember
  <2> QED
    BY <2>1, <2>2, <1>1
<1> HIDE DEF New
<1>5. /\ IsFiniteSet(Units(f) \union New)
      /\ Cardinality(Units(f) \union New)
            = Cardinality(Units(f)) + n - Cardinality(Units(f) \intersect New)
  BY <1>2, FS_Union
<1>6. Cardinality(Units(f)) \in Nat
  BY FS_CardinalityType
<1> QED
  BY <1>3, <1>4, <1>5, <1>6, FS_EmptySet DEF Total

(* Crediting n under an existing key.                                      *)
LEMMA TotalDeposit ==
    ASSUME NEW S, NEW f \in [S -> Nat], NEW g \in [S -> Nat],
           NEW x \in S, NEW n \in Nat,
           \A y \in S : y # x => g[y] = f[y],
           g[x] = f[x] + n,
           IsFiniteSet(Units(f))
    PROVE  IsFiniteSet(Units(g)) /\ Total(g) = Total(f) + n
<1>1. S = S \union {x} /\ g[x] = (IF x \in S THEN f[x] ELSE 0) + n
  OBVIOUS
<1> QED
  BY <1>1, TotalCredit

(* A new entry of n under the key x.                                       *)
LEMMA TotalNew ==
    ASSUME NEW S, NEW T, NEW f, NEW g, NEW x, NEW n,
           f \in [S -> Nat], g \in [T -> Nat], x \in T, x \notin S, n \in Nat,
           T = S \union {x},
           \A y \in S : g[y] = f[y],
           g[x] = n,
           IsFiniteSet(Units(f))
    PROVE  IsFiniteSet(Units(g)) /\ Total(g) = Total(f) + n
<1>1. \A y \in S : y # x => g[y] = f[y]
  OBVIOUS
<1>2. g[x] = (IF x \in S THEN f[x] ELSE 0) + n
  OBVIOUS
<1> QED
  BY <1>1, <1>2, TotalCredit

(* A new entry of n under the key that follows 1 .. k.                     *)
LEMMA TotalAppend ==
    ASSUME NEW k \in Nat, NEW f \in [1 .. k -> Nat], NEW g \in [1 .. k + 1 -> Nat],
           NEW n \in Nat,
           \A i \in 1 .. k : g[i] = f[i],
           g[k + 1] = n,
           IsFiniteSet(Units(f))
    PROVE  IsFiniteSet(Units(g)) /\ Total(g) = Total(f) + n
<1> SUFFICES ASSUME NEW S, NEW T, NEW x, S = 1 .. k, T = 1 .. k + 1, x = k + 1
             PROVE  IsFiniteSet(Units(g)) /\ Total(g) = Total(f) + n
  OBVIOUS
<1>1. f \in [S -> Nat]
  OBVIOUS
<1>2. g \in [T -> Nat]
  OBVIOUS
<1>3. x \in T
  OBVIOUS
<1>4. x \notin S
  OBVIOUS
<1>5. T = S \union {x}
  OBVIOUS
<1>6. \A y \in S : g[y] = f[y]
  OBVIOUS
<1>7. g[x] = n
  OBVIOUS
<1> QED
  BY ONLY n \in Nat, IsFiniteSet(Units(f)), <1>1, <1>2, <1>3, <1>4, <1>5, <1>6, <1>7, TotalNew

(* Debiting n <= f[x] under key x takes n from the sum.                    *)
LEMMA TotalWithdraw ==
    ASSUME NEW S, NEW f \in [S -> Nat], NEW g \in [S -> Nat],
           NEW x \in S, NEW n \in Nat,
           \A y \in S : y # x => g[y] = f[y],
           n <= f[x], g[x] = f[x] - n,
           IsFiniteSet(Units(f))
    PROVE  IsFiniteSet(Units(g)) /\ Total(g) = Total(f) - n
<1>1. Units(g) \subseteq Units(f)
  <2> SUFFICES ASSUME NEW u \in Units(g) PROVE u \in Units(f)
    OBVIOUS
  <2>1. PICK y \in S : \E i \in 1 .. g[y] : u = <<y, i>>
    BY UnitsPairs
  <2>2. PICK i \in 1 .. g[y] : u = <<y, i>>
    BY <2>1
  <2>3. i \in 1 .. f[y]
    BY <2>2
  <2> QED
    BY <2>2, <2>3, UnitsMember
<1>2. IsFiniteSet(Units(g))
  BY <1>1, FS_Subset
<1>3. S = S \union {x} /\ f[x] = (IF x \in S THEN g[x] ELSE 0) + n
  OBVIOUS
<1>4. Total(f) = Total(g) + n
  BY <1>2, <1>3, TotalCredit
<1>5. Total(f) \in Nat /\ Total(g) \in Nat
  BY <1>2, FS_CardinalityType DEF Total
<1> QED
  BY <1>2, <1>4, <1>5

(* The sum of a finite ledger is a natural number.                         *)
LEMMA TotalNat ==
    ASSUME NEW f, IsFiniteSet(Units(f))
    PROVE  Total(f) \in Nat
BY FS_CardinalityType DEF Total

(* The units under some of the keys.                                       *)
UnitsOver(f, S) == Units([x \in S |-> f[x]])

(* An unit over S is one of a key in S.                                    *)
LEMMA UnitsOverMember ==
    ASSUME NEW D, NEW f \in [D -> Nat], NEW S \in SUBSET D, NEW x, NEW i
    PROVE  <<x, i>> \in UnitsOver(f, S) <=> x \in S /\ i \in 1 .. f[x]
<1> DEFINE g == [y \in S |-> f[y]]
<1>1. g \in [S -> Nat] /\ \A y \in S : g[y] = f[y]
  OBVIOUS
<1> HIDE DEF g
<1>2. <<x, i>> \in Units(g) <=> x \in S /\ i \in 1 .. g[x]
  BY <1>1, UnitsMember
<1> QED
  BY <1>1, <1>2 DEF UnitsOver, g

(* The units over S are pairs.                                             *)
LEMMA UnitsOverPairs ==
    ASSUME NEW D, NEW f \in [D -> Nat], NEW S \in SUBSET D, NEW u \in UnitsOver(f, S)
    PROVE  \E x \in S : \E i \in 1 .. f[x] : u = <<x, i>>
<1> DEFINE g == [y \in S |-> f[y]]
<1>1. g \in [S -> Nat] /\ \A y \in S : g[y] = f[y]
  OBVIOUS
<1>2. u \in Units(g)
  BY DEF UnitsOver
<1> HIDE DEF g
<1>3. \E x \in S : \E i \in 1 .. g[x] : u = <<x, i>>
  BY <1>1, <1>2, UnitsPairs
<1> QED
  BY <1>1, <1>3

(* The sum over S counts the units over S.                                 *)
LEMMA OverUnits ==
    ASSUME NEW f, NEW S
    PROVE  TotalOver(f, S) = Cardinality(UnitsOver(f, S))
BY DEF TotalOver, Total, UnitsOver

(* A sum over finitely many keys that hold at most k each.                 *)
LEMMA OverBound ==
    ASSUME NEW D, NEW f \in [D -> Nat], NEW S \in SUBSET D, IsFiniteSet(S),
           NEW k \in Nat, \A x \in S : f[x] <= k
    PROVE  /\ IsFiniteSet(UnitsOver(f, S))
           /\ TotalOver(f, S) \in Nat
           /\ TotalOver(f, S) <= Cardinality(S) * k
<1>1. IsFiniteSet(1 .. k) /\ Cardinality(1 .. k) = k
  BY FS_Interval, 1 \in Int, k \in Int
<1>2. /\ IsFiniteSet(S \X (1 .. k))
      /\ Cardinality(S \X (1 .. k)) = Cardinality(S) * k
  BY <1>1, FS_Product
<1>3. UnitsOver(f, S) \subseteq S \X (1 .. k)
  <2> SUFFICES ASSUME NEW u \in UnitsOver(f, S) PROVE u \in S \X (1 .. k)
    OBVIOUS
  <2>1. PICK x \in S : \E i \in 1 .. f[x] : u = <<x, i>>
    BY UnitsOverPairs
  <2>2. PICK i \in 1 .. f[x] : u = <<x, i>>
    BY <2>1
  <2>3. i \in 1 .. k
    BY <2>2
  <2> QED
    BY <2>2, <2>3
<1>4. /\ IsFiniteSet(UnitsOver(f, S))
      /\ Cardinality(UnitsOver(f, S)) <= Cardinality(S \X (1 .. k))
  BY <1>2, <1>3, FS_Subset
<1> QED
  BY <1>2, <1>4, FS_CardinalityType, OverUnits

(* A sum over two sets of keys without a common one.                       *)
LEMMA OverUnion ==
    ASSUME NEW D, NEW f \in [D -> Nat], NEW S \in SUBSET D, NEW T \in SUBSET D,
           S \intersect T = {},
           IsFiniteSet(UnitsOver(f, S)), IsFiniteSet(UnitsOver(f, T))
    PROVE  TotalOver(f, S \union T) = TotalOver(f, S) + TotalOver(f, T)
<1> S \union T \in SUBSET D
  OBVIOUS
<1>1. UnitsOver(f, S \union T) = UnitsOver(f, S) \union UnitsOver(f, T)
  <2>1. ASSUME NEW u \in UnitsOver(f, S \union T)
        PROVE  u \in UnitsOver(f, S) \union UnitsOver(f, T)
    <3>1. PICK x \in S \union T : \E i \in 1 .. f[x] : u = <<x, i>>
      BY UnitsOverPairs
    <3>2. PICK i \in 1 .. f[x] : u = <<x, i>>
      BY <3>1
    <3>3. CASE x \in S
      BY <3>2, <3>3, UnitsOverMember
    <3>4. CASE x \in T
      BY <3>2, <3>4, UnitsOverMember
    <3> QED
      BY <3>3, <3>4
  <2>2. ASSUME NEW u \in UnitsOver(f, S) PROVE u \in UnitsOver(f, S \union T)
    <3>1. PICK x \in S : \E i \in 1 .. f[x] : u = <<x, i>>
      BY UnitsOverPairs
    <3> QED
      BY <3>1, UnitsOverMember
  <2>3. ASSUME NEW u \in UnitsOver(f, T) PROVE u \in UnitsOver(f, S \union T)
    <3>1. PICK x \in T : \E i \in 1 .. f[x] : u = <<x, i>>
      BY UnitsOverPairs
    <3> QED
      BY <3>1, UnitsOverMember
  <2> QED
    BY <2>1, <2>2, <2>3
<1>2. UnitsOver(f, S) \intersect UnitsOver(f, T) = {}
  <2> SUFFICES ASSUME NEW u \in UnitsOver(f, S), u \in UnitsOver(f, T) PROVE FALSE
    OBVIOUS
  <2>1. PICK x \in S : \E i \in 1 .. f[x] : u = <<x, i>>
    BY UnitsOverPairs
  <2>2. x \in T
    BY <2>1, UnitsOverMember
  <2> QED
    BY <2>2
<1>3. Cardinality(UnitsOver(f, S) \union UnitsOver(f, T))
         = Cardinality(UnitsOver(f, S)) + Cardinality(UnitsOver(f, T)) - 0
  BY <1>2, FS_Union, FS_EmptySet
<1>4. Cardinality(UnitsOver(f, S)) \in Nat /\ Cardinality(UnitsOver(f, T)) \in Nat
  BY FS_CardinalityType
<1>5. /\ TotalOver(f, S \union T) = Cardinality(UnitsOver(f, S \union T))
      /\ TotalOver(f, S) = Cardinality(UnitsOver(f, S))
      /\ TotalOver(f, T) = Cardinality(UnitsOver(f, T))
  BY OverUnits
<1>6. TotalOver(f, S \union T)
         = Cardinality(UnitsOver(f, S)) + Cardinality(UnitsOver(f, T)) - 0
  BY ONLY <1>1, <1>3, <1>5
<1> QED
  BY ONLY <1>4, <1>5, <1>6

(* The sum over one key.                                                   *)
LEMMA OverOne ==
    ASSUME NEW D, NEW f \in [D -> Nat], NEW x \in D
    PROVE  TotalOver(f, {x}) = f[x] /\ IsFiniteSet(UnitsOver(f, {x}))
<1>1. UnitsOver(f, {x}) = Run(x, 0, f[x])
  <2>1. ASSUME NEW u \in UnitsOver(f, {x}) PROVE u \in Run(x, 0, f[x])
    <3>1. PICK y \in {x} : \E i \in 1 .. f[y] : u = <<y, i>>
      BY UnitsOverPairs, {x} \in SUBSET D
    <3> QED
      BY <3>1 DEF Run
  <2>2. ASSUME NEW u \in Run(x, 0, f[x]) PROVE u \in UnitsOver(f, {x})
    <3>1. PICK i \in 0 + 1 .. 0 + f[x] : u = <<x, i>>
      BY <2>2 DEF Run
    <3>2. i \in 1 .. f[x] /\ x \in {x} /\ {x} \in SUBSET D
      BY <3>1
    <3> QED
      BY <3>1, <3>2, UnitsOverMember
  <2> QED
    BY <2>1, <2>2
<1>2. IsFiniteSet(Run(x, 0, f[x])) /\ Cardinality(Run(x, 0, f[x])) = f[x]
  BY RunOfUnits
<1> QED
  BY <1>1, <1>2, OverUnits

(* The sum depends on the keys it is taken over.                           *)
LEMMA OverSame ==
    ASSUME NEW f, NEW g, NEW S, \A x \in S : f[x] = g[x]
    PROVE  TotalOver(f, S) = TotalOver(g, S)
<1>1. [x \in S |-> f[x]] = [x \in S |-> g[x]]
  OBVIOUS
<1> QED
  BY <1>1 DEF TotalOver

(* Sums of what two ledgers hold together.                                 *)
LEMMA OverAdd ==
    ASSUME NEW D, NEW f \in [D -> Nat], NEW g \in [D -> Nat], NEW h \in [D -> Nat],
           NEW S \in SUBSET D, \A x \in S : h[x] = f[x] + g[x],
           IsFiniteSet(UnitsOver(f, S)), IsFiniteSet(UnitsOver(g, S))
    PROVE  TotalOver(h, S) = TotalOver(f, S) + TotalOver(g, S)
<1> DEFINE Upper == {u \in UnitsOver(h, S) : u \notin UnitsOver(f, S)}
           Shift == [u \in UnitsOver(g, S) |-> <<u[1], f[u[1]] + u[2]>>]
<1>1. ASSUME NEW x \in S, NEW i \in 1 .. g[x]
      PROVE  /\ <<x, i>> \in UnitsOver(g, S)
             /\ Shift[<<x, i>>] = <<x, f[x] + i>>
  BY UnitsOverMember
<1>2. ASSUME NEW x \in S, NEW i \in 1 .. g[x]
      PROVE  <<x, f[x] + i>> \in Upper
  <2>1. f[x] + i \in 1 .. h[x] /\ f[x] + i \notin 1 .. f[x]
    OBVIOUS
  <2> QED
    BY <2>1, UnitsOverMember
<1>3. ASSUME NEW u \in Upper
      PROVE  \E x \in S : \E i \in 1 .. g[x] : u = <<x, f[x] + i>>
  <2>1. PICK x \in S : \E k \in 1 .. h[x] : u = <<x, k>>
    BY UnitsOverPairs
  <2>2. PICK k \in 1 .. h[x] : u = <<x, k>>
    BY <2>1
  <2>3. k \notin 1 .. f[x]
    BY <2>2, UnitsOverMember
  <2>4. k - f[x] \in 1 .. g[x] /\ k = f[x] + (k - f[x])
    BY <2>3
  <2> QED
    BY <2>2, <2>4
<1>4. ASSUME NEW u \in UnitsOver(g, S)
      PROVE  \E x \in S : \E i \in 1 .. g[x] : u = <<x, i>>
  BY UnitsOverPairs
<1>5. Shift \in Bijection(UnitsOver(g, S), Upper)
  <2>1. Shift \in [UnitsOver(g, S) -> Upper]
    <3> SUFFICES ASSUME NEW u \in UnitsOver(g, S) PROVE Shift[u] \in Upper
      OBVIOUS
    <3>1. PICK x \in S : \E i \in 1 .. g[x] : u = <<x, i>>
      BY <1>4
    <3>2. PICK i \in 1 .. g[x] : u = <<x, i>>
      BY <3>1
    <3> HIDE DEF Shift, Upper
    <3> QED
      BY <3>2, <1>1, <1>2
  <2>2. ASSUME NEW u \in UnitsOver(g, S), NEW v \in UnitsOver(g, S), Shift[u] = Shift[v]
        PROVE  u = v
    <3>1. PICK x \in S : \E i \in 1 .. g[x] : u = <<x, i>>
      BY <1>4
    <3>2. PICK i \in 1 .. g[x] : u = <<x, i>>
      BY <3>1
    <3>3. PICK y \in S : \E k \in 1 .. g[y] : v = <<y, k>>
      BY <1>4
    <3>4. PICK k \in 1 .. g[y] : v = <<y, k>>
      BY <3>3
    <3>5. Shift[u] = <<x, f[x] + i>> /\ Shift[v] = <<y, f[y] + k>>
      <4> HIDE DEF Shift
      <4> QED
        BY <3>2, <3>4, <1>1
    <3> HIDE DEF Shift
    <3>6. x = y /\ f[x] + i = f[y] + k
      BY <3>5, <2>2
    <3>7. i = k
      BY <3>6
    <3> QED
      BY <3>2, <3>4, <3>6, <3>7
  <2>3. ASSUME NEW t \in Upper PROVE \E u \in UnitsOver(g, S) : Shift[u] = t
    <3>1. PICK x \in S : \E i \in 1 .. g[x] : t = <<x, f[x] + i>>
      BY <2>3, <1>3
    <3>2. PICK i \in 1 .. g[x] : t = <<x, f[x] + i>>
      BY <3>1
    <3> HIDE DEF Shift
    <3> QED
      BY <3>2, <1>1
  <2> HIDE DEF Shift, Upper
  <2> QED
    BY <2>1, <2>2, <2>3, Fun_IsBij
<1>6. UnitsOver(h, S) = UnitsOver(f, S) \union Upper
  <2>1. ASSUME NEW u \in UnitsOver(f, S) PROVE u \in UnitsOver(h, S)
    <3>1. PICK x \in S : \E i \in 1 .. f[x] : u = <<x, i>>
      BY UnitsOverPairs
    <3>2. PICK i \in 1 .. f[x] : u = <<x, i>>
      BY <3>1
    <3>3. i \in 1 .. h[x]
      BY <3>2
    <3> QED
      BY <3>2, <3>3, UnitsOverMember
  <2> QED
    BY <2>1
<1>7. UnitsOver(f, S) \intersect Upper = {}
  OBVIOUS
<1> HIDE DEF Upper, Shift
<1>8. ExistsBijection(UnitsOver(g, S), Upper)
  BY <1>5, Fun_ExistsBij
<1>9. IsFiniteSet(Upper) /\ Cardinality(Upper) = Cardinality(UnitsOver(g, S))
  BY <1>8, FS_Bijection
<1>10. Cardinality(UnitsOver(f, S) \union Upper)
          = Cardinality(UnitsOver(f, S)) + Cardinality(Upper) - 0
  BY <1>7, <1>9, FS_Union, FS_EmptySet
<1>11. Cardinality(UnitsOver(f, S)) \in Nat /\ Cardinality(UnitsOver(g, S)) \in Nat
  BY FS_CardinalityType
<1>12. /\ TotalOver(h, S) = Cardinality(UnitsOver(h, S))
       /\ TotalOver(f, S) = Cardinality(UnitsOver(f, S))
       /\ TotalOver(g, S) = Cardinality(UnitsOver(g, S))
  BY OverUnits
<1> QED
  BY <1>6, <1>9, <1>10, <1>11, <1>12

(* A sum over finitely many keys that hold k each.                         *)
LEMMA OverConstant ==
    ASSUME NEW D, NEW f \in [D -> Nat], NEW S \in SUBSET D, IsFiniteSet(S),
           NEW k \in Nat, \A x \in S : f[x] = k
    PROVE  TotalOver(f, S) = Cardinality(S) * k
<1>1. IsFiniteSet(1 .. k) /\ Cardinality(1 .. k) = k
  BY FS_Interval, 1 \in Int, k \in Int
<1>2. Cardinality(S \X (1 .. k)) = Cardinality(S) * k
  BY <1>1, FS_Product
<1>3. UnitsOver(f, S) = S \X (1 .. k)
  <2>1. ASSUME NEW u \in UnitsOver(f, S) PROVE u \in S \X (1 .. k)
    <3>1. PICK x \in S : \E i \in 1 .. f[x] : u = <<x, i>>
      BY UnitsOverPairs
    <3> QED
      BY <3>1
  <2>2. ASSUME NEW u \in S \X (1 .. k) PROVE u \in UnitsOver(f, S)
    <3>1. PICK x \in S, i \in 1 .. k : u = <<x, i>>
      OBVIOUS
    <3> QED
      BY <3>1, UnitsOverMember
  <2> QED
    BY <2>1, <2>2
<1> QED
  BY <1>2, <1>3, OverUnits

===============================================================================
