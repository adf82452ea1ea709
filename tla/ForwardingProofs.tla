--------------------------- MODULE ForwardingProofs ---------------------------
(***************************************************************************)
(* The balancer keeps the turns in proportion to the weights, for any      *)
(* providers and weights, however circuits open and close.  A bound on     *)
(* each weight alone is not inductive; one on the sum over every set of    *)
(* providers is.  Sums are of natural numbers, so the weights are raised   *)
(* by a constant.                                                          *)
(***************************************************************************)
EXTENDS Forwarding, TotalsTheorems

Count == Cardinality(Provider)

Base == 2 * (MaxWeight * Count)

(* The most that k providers can be ahead together.                        *)
Ahead(k) == k * (MaxWeight * (Count - k))

(* Raised weights whose sum never changes, and of which no k providers     *)
(* hold too much.                                                          *)
Balanced(lifted) ==
    /\ lifted \in [Provider -> Nat]
    /\ TotalOver(lifted, Provider) = Count * Base
    /\ \A S \in SUBSET Provider :
          TotalOver(lifted, S) <= Ahead(Cardinality(S)) + Cardinality(S) * Base

-------------------------------------------------------------------------------

(* Sets of providers are finite.                                           *)
LEMMA ProviderSets ==
    /\ Count \in Nat /\ MaxWeight \in Nat /\ Base \in Nat
    /\ MaxWeight * Count \in Nat
    /\ \A S \in SUBSET Provider :
          /\ IsFiniteSet(S)
          /\ Cardinality(S) \in Nat /\ Cardinality(S) <= Count
<1>1. Count \in Nat
  BY BalancerAssumption, FS_CardinalityType DEF Count
<1>2. MaxWeight \in Nat
  BY BalancerAssumption
<1>3. MaxWeight * Count \in Nat
  BY <1>1, <1>2
<1>4. Base \in Nat
  BY <1>3 DEF Base
<1>5. ASSUME NEW S \in SUBSET Provider
      PROVE  /\ IsFiniteSet(S)
             /\ Cardinality(S) \in Nat /\ Cardinality(S) <= Count
  BY BalancerAssumption, FS_Subset, FS_CardinalityType DEF Count
<1> QED
  BY <1>1, <1>2, <1>3, <1>4, <1>5

(* No provider's weight is too high.                                       *)
LEMMA BalancedUpper ==
    ASSUME NEW lifted, Balanced(lifted), NEW p \in Provider
    PROVE  lifted[p] <= Base + MaxWeight * (Count - 1)
<1>1. lifted \in [Provider -> Nat]
  BY DEF Balanced
<1>2. Cardinality({p}) = 1
  BY FS_Singleton
<1>3. TotalOver(lifted, {p}) = lifted[p]
  BY <1>1, OverOne
<1>4. TotalOver(lifted, {p}) <= Ahead(1) + 1 * Base
  BY <1>2 DEF Balanced
<1>5. Ahead(1) = MaxWeight * (Count - 1)
  BY ProviderSets DEF Ahead
<1> QED
  BY <1>1, <1>3, <1>4, <1>5, ProviderSets

(* So the sum over any providers is one over finitely many units.          *)
LEMMA BalancedFinite ==
    ASSUME NEW lifted, Balanced(lifted), NEW S \in SUBSET Provider
    PROVE  IsFiniteSet(UnitsOver(lifted, S)) /\ TotalOver(lifted, S) \in Nat
<1> DEFINE k == Base + MaxWeight * Count
<1>1. lifted \in [Provider -> Nat]
  BY DEF Balanced
<1>2. k \in Nat
  BY ProviderSets
<1>3. ASSUME NEW p \in S PROVE lifted[p] <= k
  <2>1. lifted[p] <= Base + MaxWeight * (Count - 1) /\ lifted[p] \in Nat
    BY <1>1, BalancedUpper
  <2>2. MaxWeight * (Count - 1) = MaxWeight * Count - MaxWeight
    BY ProviderSets
  <2> QED
    BY <2>1, <2>2, ProviderSets
<1> HIDE DEF k
<1> QED
  BY <1>1, <1>2, <1>3, ProviderSets, OverBound

(* All providers but n and what they can hold.                             *)
LEMMA AllButOne ==
    ASSUME NEW n \in Nat, NEW m \in Nat, NEW b \in Nat, NEW one \in Nat, NEW others \in Nat,
           one + others = n * b,
           others <= (n - 1) * (m * (n - (n - 1))) + (n - 1) * b
    PROVE  one >= b - m * (n - 1)
<1>1. (n - 1) * (m * (n - (n - 1))) = m * (n - 1)
  OBVIOUS
<1>2. (n - 1) * b = n * b - b
  OBVIOUS
<1>3. m * (n - 1) \in Int /\ n * b \in Int
  OBVIOUS
<1> QED
  BY <1>1, <1>2, <1>3

(* No provider's weight is too low: the others cannot hold so much more.   *)
LEMMA BalancedLower ==
    ASSUME NEW lifted, Balanced(lifted), NEW p \in Provider
    PROVE  lifted[p] >= Base - MaxWeight * (Count - 1)
<1> DEFINE Others == Provider \ {p}
<1>1. lifted \in [Provider -> Nat]
  BY DEF Balanced
<1>2. Cardinality(Others) = Count - 1
  BY BalancerAssumption, FS_RemoveElement DEF Count
<1>3. TotalOver(lifted, {p}) = lifted[p] /\ lifted[p] \in Nat
  BY <1>1, OverOne
<1>4. Others \in SUBSET Provider /\ {p} \in SUBSET Provider
  OBVIOUS
<1>5. /\ IsFiniteSet(UnitsOver(lifted, Others)) /\ TotalOver(lifted, Others) \in Nat
      /\ IsFiniteSet(UnitsOver(lifted, {p}))
  BY <1>4, BalancedFinite
<1>6. {p} \intersect Others = {} /\ {p} \union Others = Provider
  OBVIOUS
<1>7. TotalOver(lifted, Others) <= Ahead(Count - 1) + (Count - 1) * Base
  BY <1>2, <1>4 DEF Balanced
<1> HIDE DEF Others
<1>8. TotalOver(lifted, Provider) = TotalOver(lifted, {p}) + TotalOver(lifted, Others)
  BY <1>1, <1>4, <1>5, <1>6, OverUnion
<1>9. lifted[p] + TotalOver(lifted, Others) = Count * Base
  BY <1>3, <1>8 DEF Balanced
<1>10. TotalOver(lifted, Others)
          <= (Count - 1) * (MaxWeight * (Count - (Count - 1))) + (Count - 1) * Base
  BY <1>7 DEF Ahead
<1> QED
  BY <1>3, <1>5, <1>9, <1>10, ProviderSets, AllButOne

-------------------------------------------------------------------------------

(* A product of a larger factor is larger.                                 *)
LEMMA Times ==
    ASSUME NEW j \in Nat, NEW a \in Int, NEW b \in Int, a <= b
    PROVE  j * a <= j * b
<1>1. j * (b - a) >= 0
  <2>1. b - a \in Nat
    OBVIOUS
  <2> QED
    BY <2>1
<1>2. j * (b - a) = j * b - j * a
  OBVIOUS
<1> QED
  BY <1>1, <1>2

(* A positive factor on both sides may be left out.                        *)
LEMMA Cancel ==
    ASSUME NEW j \in Nat, NEW a \in Int, NEW b \in Int, (j + 1) * a <= (j + 1) * b
    PROVE  a <= b
<1> SUFFICES ASSUME b + 1 <= a PROVE FALSE
  OBVIOUS
<1>1. (j + 1) * (b + 1) <= (j + 1) * a
  BY Times, j + 1 \in Nat
<1>2. (j + 1) * (b + 1) = (j + 1) * b + j + 1
  OBVIOUS
<1>3. (j + 1) * a \in Int /\ (j + 1) * b \in Int
  OBVIOUS
<1> QED
  BY <1>1, <1>2, <1>3

(* Of n providers, j are candidates and b are not.  The candidates hold x  *)
(* together, none of them more than y; so held the one that is taken, and  *)
(* with it they held u and were raised by v.  The others hold z.           *)
LEMMA Crowding ==
    ASSUME NEW n \in Nat, NEW m \in Nat, NEW k \in Nat, NEW j \in Nat, NEW b \in Nat,
           NEW x \in Nat, NEW y \in Nat, NEW z \in Nat, NEW u \in Nat, NEW v \in Nat,
           x <= j * y,
           x + y = u + v,
           v <= (j + 1) * m,
           z <= b * (m * (n - b)) + b * k,
           z + u <= (j + b + 1) * (m * (n - (j + b + 1))) + (j + b + 1) * k
    PROVE  x + z <= (j + b) * (m * (n - (j + b))) + (j + b) * k
<1> DEFINE one == b * (m * (n - b)) + b * k
           more == (j + b + 1) * (m * (n - (j + b + 1))) + (j + b + 1) * k
           bound == (j + b) * (m * (n - (j + b))) + (j + b) * k
<1>1. one \in Int /\ more \in Int /\ bound \in Int
  OBVIOUS
<1>2. one + j * more + j * ((j + 1) * m) = (j + 1) * bound
  OBVIOUS
<1>3. j * (z + u) <= j * more
  BY Times
<1>4. j * v <= j * ((j + 1) * m)
  BY Times
<1>5. z <= one
  OBVIOUS
<1> HIDE DEF one, more, bound
<1>6. (j + 1) * (x + z) = x + z + j * x + j * z
  OBVIOUS
<1>7. j * (x + y) = j * x + j * y /\ j * (u + v) = j * u + j * v
      /\ j * (z + u) = j * z + j * u
  OBVIOUS
<1>8. j * (x + y) = j * (u + v)
  OBVIOUS
<1>9. /\ j * x \in Int /\ j * y \in Int /\ j * u \in Int /\ j * v \in Int /\ j * z \in Int
      /\ j * more \in Int /\ j * ((j + 1) * m) \in Int /\ (j + 1) * bound \in Int
      /\ j * (x + y) \in Int /\ j * (u + v) \in Int /\ j * (z + u) \in Int
      /\ (j + 1) * (x + z) \in Int
  BY <1>1
<1>10. (j + 1) * (x + z) <= (j + 1) * bound
  BY <1>1, <1>2, <1>3, <1>4, <1>5, <1>6, <1>7, <1>8, <1>9
<1>11. x + z <= bound
  BY <1>1, <1>10, Cancel, x + z \in Int
<1> QED
  BY <1>11 DEF bound

-------------------------------------------------------------------------------

(* What a turn adds to each weight.                                        *)
Share(C) == [p \in Provider |-> IF p \in C THEN Weight[p] ELSE 0]

LEMMA ShareType ==
    ASSUME NEW C \in SUBSET Provider
    PROVE  /\ Share(C) \in [Provider -> Nat] /\ Weight \in [Provider -> Nat]
           /\ \A p \in Provider : /\ Share(C)[p] = IF p \in C THEN Weight[p] ELSE 0
                                  /\ Share(C)[p] <= MaxWeight
                                  /\ Weight[p] <= MaxWeight
BY BalancerAssumption DEF Share

(* What a turn adds to some providers is bounded.                          *)
LEMMA ShareBound ==
    ASSUME NEW C \in SUBSET Provider, NEW S \in SUBSET Provider
    PROVE  /\ IsFiniteSet(UnitsOver(Share(C), S))
           /\ TotalOver(Share(C), S) \in Nat
           /\ TotalOver(Share(C), S) <= Cardinality(S) * MaxWeight
BY ShareType, ProviderSets, OverBound

(* And nothing is added to those that are not candidates.                  *)
LEMMA ShareOutside ==
    ASSUME NEW C \in SUBSET Provider, NEW S \in SUBSET Provider, S \intersect C = {}
    PROVE  TotalOver(Share(C), S) = 0
<1>1. \A p \in S : Share(C)[p] = 0
  BY ShareType
<1>2. TotalOver(Share(C), S) = Cardinality(S) * 0
  BY <1>1, ShareType, ProviderSets, OverConstant, 0 \in Nat
<1> QED
  BY <1>2, ProviderSets

(* The candidates get their weights, other sets no more than that.         *)
LEMMA ShareTotal ==
    ASSUME NEW C \in SUBSET Provider, NEW S \in SUBSET Provider
    PROVE  /\ TotalOver(Share(C), C) = TotalOver(Weight, C)
           /\ TotalOver(Share(C), S) <= TotalOver(Weight, C)
           /\ TotalOver(Share(C), Provider) = TotalOver(Weight, C)
           /\ TotalOver(Weight, C) \in Nat
           /\ TotalOver(Weight, C) <= Count * MaxWeight
<1>0. Share(C) \in [Provider -> Nat]
  BY ShareType
<1>1. TotalOver(Share(C), C) = TotalOver(Weight, C)
  <2>1. \A p \in C : Share(C)[p] = Weight[p]
    BY ShareType
  <2> QED
    BY <2>1, OverSame
<1>2. ASSUME NEW T \in SUBSET Provider
      PROVE  TotalOver(Share(C), T) = TotalOver(Share(C), T \intersect C)
  <2> DEFINE In == T \intersect C
             Out == T \ C
  <2>1. /\ In \in SUBSET Provider /\ Out \in SUBSET Provider
        /\ In \intersect Out = {} /\ In \union Out = T /\ Out \intersect C = {}
    OBVIOUS
  <2> HIDE DEF In, Out
  <2>2. IsFiniteSet(UnitsOver(Share(C), In)) /\ IsFiniteSet(UnitsOver(Share(C), Out))
    BY <2>1, ShareBound
  <2>3. TotalOver(Share(C), T) = TotalOver(Share(C), In) + TotalOver(Share(C), Out)
    BY ONLY <1>0, <2>1, <2>2, OverUnion
  <2>4. TotalOver(Share(C), Out) = 0 /\ TotalOver(Share(C), In) \in Nat
    BY <2>1, ShareOutside, ShareBound
  <2> QED
    BY <2>3, <2>4 DEF In
<1>3. TotalOver(Share(C), S \intersect C) <= TotalOver(Share(C), C)
  <2> DEFINE In == S \intersect C
             Out == C \ S
  <2>1. /\ In \in SUBSET Provider /\ Out \in SUBSET Provider
        /\ In \intersect Out = {} /\ In \union Out = C
    OBVIOUS
  <2> HIDE DEF In, Out
  <2>2. /\ IsFiniteSet(UnitsOver(Share(C), In)) /\ IsFiniteSet(UnitsOver(Share(C), Out))
        /\ TotalOver(Share(C), Out) \in Nat /\ TotalOver(Share(C), In) \in Nat
    BY <2>1, ShareBound
  <2>3. TotalOver(Share(C), C) = TotalOver(Share(C), In) + TotalOver(Share(C), Out)
    BY ONLY <1>0, <2>1, <2>2, OverUnion
  <2>4. TotalOver(Share(C), In) <= TotalOver(Share(C), C)
    BY <2>2, <2>3
  <2> QED
    BY <2>4 DEF In
<1>4. Provider \intersect C = C /\ Provider \in SUBSET Provider
  OBVIOUS
<1>5. TotalOver(Share(C), C) <= Count * MaxWeight
  <2>1. TotalOver(Share(C), Provider) <= Cardinality(Provider) * MaxWeight
    BY <1>4, ShareBound
  <2> QED
    BY <2>1, <1>2, <1>4 DEF Count
<1> QED
  BY <1>1, <1>2, <1>3, <1>4, <1>5, ShareBound

-------------------------------------------------------------------------------

(* The weights once those of the candidates C are raised.                  *)
IsRaised(lifted, C, raised) ==
    /\ raised \in [Provider -> Nat]
    /\ \A p \in Provider : raised[p] = lifted[p] + Share(C)[p]

(* Raising adds to a sum what it adds to its weights.                      *)
LEMMA RaisedSum ==
    ASSUME NEW lifted, Balanced(lifted), NEW C \in SUBSET Provider,
           NEW raised, IsRaised(lifted, C, raised), NEW S \in SUBSET Provider
    PROVE  /\ TotalOver(raised, S) = TotalOver(lifted, S) + TotalOver(Share(C), S)
           /\ IsFiniteSet(UnitsOver(raised, S))
           /\ TotalOver(raised, S) \in Nat
<1> DEFINE k == Base + MaxWeight * Count + MaxWeight
<1>1. lifted \in [Provider -> Nat]
  BY DEF Balanced
<1>2. Share(C) \in [Provider -> Nat]
  BY ShareType
<1>3. raised \in [Provider -> Nat] /\ \A p \in S : raised[p] = lifted[p] + Share(C)[p]
  BY DEF IsRaised
<1>4. IsFiniteSet(UnitsOver(lifted, S)) /\ IsFiniteSet(UnitsOver(Share(C), S))
  BY BalancedFinite, ShareBound
<1>5. TotalOver(raised, S) = TotalOver(lifted, S) + TotalOver(Share(C), S)
  BY ONLY <1>1, <1>2, <1>3, <1>4, S \in SUBSET Provider, OverAdd
<1>6. k \in Nat
  BY ProviderSets
<1>7. ASSUME NEW p \in S PROVE raised[p] <= k
  <2>1. lifted[p] <= Base + MaxWeight * (Count - 1) /\ lifted[p] \in Nat
    BY <1>1, BalancedUpper
  <2>2. MaxWeight * (Count - 1) = MaxWeight * Count - MaxWeight
    BY ProviderSets
  <2>3. Share(C)[p] <= MaxWeight /\ Share(C)[p] \in Nat
    BY ShareType
  <2>4. raised[p] = lifted[p] + Share(C)[p]
    BY <1>3
  <2> QED
    BY <2>1, <2>2, <2>3, <2>4, ProviderSets
<1> HIDE DEF k
<1>8. IsFiniteSet(UnitsOver(raised, S)) /\ TotalOver(raised, S) \in Nat
  BY <1>3, <1>6, <1>7, ProviderSets, OverBound
<1> QED
  BY <1>5, <1>8

(* Taking x out of the providers of a sum.                                 *)
LEMMA TakenOut ==
    ASSUME NEW f \in [Provider -> Nat], NEW S \in SUBSET Provider, NEW x \in S,
           IsFiniteSet(UnitsOver(f, S \ {x}))
    PROVE  TotalOver(f, S) = TotalOver(f, S \ {x}) + f[x]
<1> DEFINE Rest == S \ {x}
<1>1. /\ Rest \in SUBSET Provider /\ {x} \in SUBSET Provider
      /\ Rest \intersect {x} = {} /\ Rest \union {x} = S
  OBVIOUS
<1>2. IsFiniteSet(UnitsOver(f, Rest))
  OBVIOUS
<1>3. TotalOver(f, {x}) = f[x] /\ IsFiniteSet(UnitsOver(f, {x}))
  BY <1>1, OverOne
<1> HIDE DEF Rest
<1>4. TotalOver(f, S) = TotalOver(f, Rest) + f[x]
  BY <1>1, <1>2, <1>3, OverUnion
<1> QED
  BY <1>4 DEF Rest

(* The candidates of S, with the one that is taken, held more together     *)
(* than S is left with: sets without the one taken stay below the bound.   *)
LEMMA CrowdBelow ==
    ASSUME NEW lifted, Balanced(lifted), NEW C \in SUBSET Provider,
           NEW raised, IsRaised(lifted, C, raised),
           NEW c \in C, \A p \in C : raised[p] <= raised[c],
           NEW S \in SUBSET Provider, c \notin S
    PROVE  TotalOver(raised, S) <= Ahead(Cardinality(S)) + Cardinality(S) * Base
<1> DEFINE A == S \intersect C
           B == S \ C
           D == A \union {c}
<1>1. /\ A \in SUBSET Provider /\ B \in SUBSET Provider /\ D \in SUBSET Provider
      /\ A \intersect B = {} /\ A \union B = S /\ B \intersect D = {}
      /\ B \union D = S \union {c} /\ S \union {c} \in SUBSET Provider
      /\ B \intersect C = {} /\ D \ {c} = A /\ c \in D /\ c \notin A
      /\ D = A \union {c} /\ A \subseteq C /\ c \in Provider
  OBVIOUS
<1> HIDE DEF A, B, D
<1> DEFINE j == Cardinality(A)
           b == Cardinality(B)
<1>2. j \in Nat /\ b \in Nat /\ IsFiniteSet(A) /\ IsFiniteSet(B) /\ IsFiniteSet(S)
  BY <1>1, ProviderSets
<1>3. Cardinality(S) = j + b
  <2>1. Cardinality(A \union B) = j + b - Cardinality(A \intersect B)
    BY <1>2, FS_Union
  <2>2. Cardinality(A \intersect B) = 0
    BY <1>1, FS_EmptySet
  <2>3. Cardinality(S) = j + b - 0
    BY ONLY <1>1, <2>1, <2>2
  <2> HIDE DEF j, b
  <2> QED
    BY ONLY <1>2, <2>3
<1>4. Cardinality(D) = j + 1
  BY <1>1, <1>2, FS_AddElement
<1>5. Cardinality(S \union {c}) = j + b + 1
  BY <1>2, <1>3, FS_AddElement
<1>6. lifted \in [Provider -> Nat] /\ raised \in [Provider -> Nat]
  BY DEF Balanced, IsRaised
<1>7. /\ IsFiniteSet(UnitsOver(raised, A)) /\ TotalOver(raised, A) \in Nat
      /\ IsFiniteSet(UnitsOver(raised, B)) /\ TotalOver(raised, B) \in Nat
      /\ IsFiniteSet(UnitsOver(lifted, B)) /\ TotalOver(lifted, B) \in Nat
      /\ IsFiniteSet(UnitsOver(lifted, D)) /\ TotalOver(lifted, D) \in Nat
      /\ TotalOver(Share(C), D) \in Nat
  BY <1>1, RaisedSum, BalancedFinite, ShareBound
<1>8. TotalOver(raised, S) = TotalOver(raised, A) + TotalOver(raised, B)
  BY ONLY <1>1, <1>6, <1>7, OverUnion
<1>9. TotalOver(raised, B) = TotalOver(lifted, B)
  <2>1. TotalOver(Share(C), B) = 0
    BY <1>1, ShareOutside
  <2>2. TotalOver(raised, B) = TotalOver(lifted, B) + TotalOver(Share(C), B)
    BY <1>1, RaisedSum
  <2> QED
    BY <1>7, <2>1, <2>2
<1>10. raised[c] \in Nat /\ TotalOver(raised, A) <= j * raised[c]
  BY <1>1, <1>2, <1>6, OverBound
<1>11. TotalOver(raised, A) + raised[c] = TotalOver(lifted, D) + TotalOver(Share(C), D)
  <2>1. TotalOver(raised, D) = TotalOver(raised, A) + raised[c]
    BY <1>1, <1>6, <1>7, TakenOut
  <2>2. TotalOver(raised, D) = TotalOver(lifted, D) + TotalOver(Share(C), D)
    BY <1>1, RaisedSum
  <2> QED
    BY <2>1, <2>2
<1>12. TotalOver(Share(C), D) <= (j + 1) * MaxWeight
  BY <1>1, <1>4, ShareBound
<1>13. TotalOver(lifted, B) <= b * (MaxWeight * (Count - b)) + b * Base
  BY <1>1 DEF Balanced, Ahead
<1>14. TotalOver(lifted, B) + TotalOver(lifted, D)
          <= (j + b + 1) * (MaxWeight * (Count - (j + b + 1))) + (j + b + 1) * Base
  <2>1. TotalOver(lifted, B \union D) = TotalOver(lifted, B) + TotalOver(lifted, D)
    BY ONLY <1>1, <1>6, <1>7, OverUnion
  <2>2. TotalOver(lifted, S \union {c})
           <= Ahead(Cardinality(S \union {c})) + Cardinality(S \union {c}) * Base
    BY <1>1 DEF Balanced
  <2> QED
    BY <1>1, <1>5, <2>1, <2>2 DEF Ahead
<1>15. TotalOver(raised, A) + TotalOver(lifted, B)
          <= (j + b) * (MaxWeight * (Count - (j + b))) + (j + b) * Base
  <2> HIDE DEF j, b
  <2> QED
    BY <1>2, <1>7, <1>10, <1>11, <1>12, <1>13, <1>14, ProviderSets, Crowding
<1> QED
  BY <1>3, <1>8, <1>9, <1>15 DEF Ahead

(* The base is high enough for what a turn lowers.                         *)
LEMMA BaseSuffices ==
    ASSUME NEW y \in Nat, NEW w \in Nat,
           y >= Base - MaxWeight * (Count - 1), w <= Count * MaxWeight
    PROVE  w <= y
<1>1. MaxWeight * (Count - 1) = MaxWeight * Count - MaxWeight
  BY ProviderSets
<1>2. Count * MaxWeight = MaxWeight * Count
  BY ProviderSets
<1>3. Base = MaxWeight * Count + MaxWeight * Count
  BY ProviderSets DEF Base
<1> QED
  BY <1>1, <1>2, <1>3, ProviderSets

(* A turn of pickWeighted keeps the weights balanced.                      *)
LEMMA BalancedTurn ==
    ASSUME NEW lifted, Balanced(lifted), NEW C \in SUBSET Provider,
           NEW raised, IsRaised(lifted, C, raised),
           NEW c \in C, \A p \in C : raised[p] <= raised[c],
           NEW next, next = [raised EXCEPT ![c] = raised[c] - TotalOver(Weight, C)]
    PROVE  Balanced(next)
<1> DEFINE W == TotalOver(Weight, C)
<1>1. lifted \in [Provider -> Nat] /\ raised \in [Provider -> Nat] /\ c \in Provider
  BY DEF Balanced, IsRaised
<1>2. W \in Nat /\ W <= Count * MaxWeight
  BY ShareTotal
<1>3. next = [raised EXCEPT ![c] = raised[c] - W]
  OBVIOUS
<1> HIDE DEF W
<1>4. W <= raised[c]
  <2>1. lifted[c] \in Nat /\ W <= lifted[c]
    BY <1>1, <1>2, BalancedLower, BaseSuffices
  <2>2. raised[c] = lifted[c] + Share(C)[c]
    BY <1>1 DEF IsRaised
  <2>3. Share(C)[c] \in Nat
    BY <1>1, ShareType
  <2> QED
    BY ONLY <1>2, <2>1, <2>2, <2>3
<1>5. /\ next \in [Provider -> Nat]
      /\ next[c] = raised[c] - W
      /\ \A p \in Provider : p # c => next[p] = raised[p]
  BY <1>1, <1>2, <1>3, <1>4
<1>6. ASSUME NEW S \in SUBSET Provider, c \in S
      PROVE  TotalOver(next, S) = TotalOver(raised, S) - W
  <2> DEFINE Rest == S \ {c}
  <2>1. Rest \in SUBSET Provider /\ \A p \in Rest : next[p] = raised[p]
    BY <1>5
  <2>2. TotalOver(next, Rest) = TotalOver(raised, Rest)
    <3> HIDE DEF Rest
    <3> QED
      BY ONLY <2>1, OverSame
  <2>3. UnitsOver(next, Rest) = UnitsOver(raised, Rest)
    <3>1. [p \in Rest |-> next[p]] = [p \in Rest |-> raised[p]]
      BY <2>1
    <3> QED
      BY <3>1 DEF UnitsOver
  <2>4. IsFiniteSet(UnitsOver(raised, Rest)) /\ TotalOver(raised, Rest) \in Nat
    BY <2>1, RaisedSum
  <2>5. TotalOver(raised, S) = TotalOver(raised, Rest) + raised[c]
    BY <1>1, <1>6, <2>4, TakenOut
  <2>6. TotalOver(next, S) = TotalOver(next, Rest) + next[c]
    BY <1>5, <1>6, <2>3, <2>4, TakenOut
  <2> HIDE DEF Rest
  <2> QED
    BY <1>1, <1>2, <1>5, <2>2, <2>4, <2>5, <2>6
<1>7. TotalOver(next, Provider) = Count * Base
  <2>1. TotalOver(next, Provider) = TotalOver(raised, Provider) - W
    BY <1>1, <1>6
  <2>2. TotalOver(raised, Provider)
           = TotalOver(lifted, Provider) + TotalOver(Share(C), Provider)
    BY RaisedSum
  <2>3. TotalOver(Share(C), Provider) = W
    BY ShareTotal DEF W
  <2>4. TotalOver(lifted, Provider) = Count * Base /\ TotalOver(lifted, Provider) \in Nat
    BY BalancedFinite DEF Balanced
  <2> QED
    BY <1>2, <2>1, <2>2, <2>3, <2>4
<1>8. ASSUME NEW S \in SUBSET Provider
      PROVE  TotalOver(next, S) <= Ahead(Cardinality(S)) + Cardinality(S) * Base
  <2>1. CASE c \in S
    <3>1. TotalOver(raised, S) = TotalOver(lifted, S) + TotalOver(Share(C), S)
      BY RaisedSum
    <3>2. TotalOver(next, S) = TotalOver(raised, S) - W
      BY <1>6, <2>1
    <3>3. TotalOver(next, S) = (TotalOver(lifted, S) + TotalOver(Share(C), S)) - W
      BY ONLY <3>1, <3>2
    <3>4. TotalOver(Share(C), S) <= W /\ TotalOver(Share(C), S) \in Nat
      BY ShareTotal, ShareBound DEF W
    <3>5. TotalOver(lifted, S) \in Nat
      BY BalancedFinite
    <3>6. TotalOver(lifted, S) <= Ahead(Cardinality(S)) + Cardinality(S) * Base
      BY DEF Balanced
    <3>7. TotalOver(next, S) <= TotalOver(lifted, S) /\ TotalOver(next, S) \in Int
      BY ONLY <1>2, <3>3, <3>4, <3>5
    <3>8. Ahead(Cardinality(S)) + Cardinality(S) * Base \in Int
      BY ProviderSets DEF Ahead
    <3> QED
      BY ONLY <3>5, <3>6, <3>7, <3>8
  <2>2. CASE c \notin S
    <3>1. \A p \in S : next[p] = raised[p]
      BY <1>5, <2>2
    <3>2. TotalOver(next, S) = TotalOver(raised, S)
      BY ONLY <3>1, OverSame
    <3> QED
      BY <2>2, <3>2, CrowdBelow
  <2> QED
    BY <2>1, <2>2
<1> QED
  BY <1>5, <1>7, <1>8 DEF Balanced

-------------------------------------------------------------------------------

(* The running weights, raised so that none is negative.                   *)
Lifted == [p \in Provider |-> running[p] + Base]

SpreadInv == running \in [Provider -> Int] /\ Balanced(Lifted)

(* Initially every weight is at the base.                                  *)
LEMMA InitSpread == Init => SpreadInv
<1> SUFFICES ASSUME Init PROVE SpreadInv
  OBVIOUS
<1>1. running \in [Provider -> Int] /\ \A p \in Provider : running[p] = 0
  BY DEF Init, BalancerInit
<1>2. Lifted \in [Provider -> Nat] /\ \A p \in Provider : Lifted[p] = Base
  BY <1>1, ProviderSets DEF Lifted
<1>3. ASSUME NEW S \in SUBSET Provider
      PROVE  TotalOver(Lifted, S) = Cardinality(S) * Base
  BY <1>2, ProviderSets, OverConstant
<1>4. ASSUME NEW S \in SUBSET Provider
      PROVE  Ahead(Cardinality(S)) >= 0 /\ Ahead(Cardinality(S)) \in Int
  <2> DEFINE k == Cardinality(S)
  <2>1. k \in Nat /\ Count - k \in Nat
    BY ProviderSets
  <2>2. MaxWeight * (Count - k) \in Nat
    BY <2>1, ProviderSets
  <2>3. k * (MaxWeight * (Count - k)) \in Nat
    BY <2>1, <2>2
  <2> QED
    BY <2>3 DEF Ahead
<1>5. ASSUME NEW S \in SUBSET Provider
      PROVE  TotalOver(Lifted, S) <= Ahead(Cardinality(S)) + Cardinality(S) * Base
  BY <1>3, <1>4, ProviderSets
<1>6. TotalOver(Lifted, Provider) = Count * Base
  BY <1>3 DEF Count
<1> QED
  BY <1>1, <1>2, <1>5, <1>6 DEF SpreadInv, Balanced

(* A choice of pickWeighted between any candidates is a turn.              *)
LEMMA PickSpread ==
    ASSUME SpreadInv, NEW C \in SUBSET Provider, NEW c, pickWeighted(C, c)
    PROVE  SpreadInv'
<1> DEFINE W == TotalOver(Weight, C)
           raised == [p \in Provider |-> Lifted[p] + Share(C)[p]]
<1>1. running \in [Provider -> Int] /\ Balanced(Lifted)
  BY DEF SpreadInv
<1>2. Lifted \in [Provider -> Nat] /\ \A p \in Provider : Lifted[p] = running[p] + Base
  BY <1>1 DEF Balanced, Lifted
<1>3. W \in Nat
  BY ShareTotal
<1>4. IsRaised(Lifted, C, raised)
  BY <1>2, ShareType DEF IsRaised
<1>5. \A p \in Provider : Raised(C)[p] \in Int /\ raised[p] = Raised(C)[p] + Base
  BY <1>1, <1>2, ShareType, ProviderSets DEF Raised
<1>6. c \in C /\ \A p \in C : Raised(C)[p] <= Raised(C)[c]
  BY <1>5 DEF pickWeighted, FirstOfHighest
<1>7. \A p \in C : raised[p] <= raised[c]
  BY <1>5, <1>6, ProviderSets
<1>8. running' = [Raised(C) EXCEPT ![c] = Raised(C)[c] - W]
  BY DEF pickWeighted
<1>9. running' \in [Provider -> Int]
  <2>1. Raised(C) \in [Provider -> Int] /\ Raised(C)[c] - W \in Int
    BY <1>3, <1>5, <1>6 DEF Raised
  <2> QED
    BY ONLY <1>8, <2>1
<1>10. Lifted' = [raised EXCEPT ![c] = raised[c] - W]
  BY <1>3, <1>5, <1>6, <1>8, ProviderSets DEF Lifted, Raised
<1> HIDE DEF raised
<1>11. Balanced(Lifted')
  BY <1>1, <1>4, <1>6, <1>7, <1>10, BalancedTurn
<1> QED
  BY <1>9, <1>11 DEF SpreadInv, Balanced

(* What leaves the weights alone leaves them balanced.                     *)
LEMMA FrameSpread == SpreadInv /\ UNCHANGED running => SpreadInv'
BY DEF SpreadInv, Lifted, Balanced

(* A selection turns the weights or leaves them alone.                     *)
LEMMA SelectSpread ==
    ASSUME SpreadInv, NEW c, selectRoute(c)
    PROVE  SpreadInv'
<1>1. CASE pickWeighted(Available, c)
  BY <1>1, PickSpread DEF Available
<1>2. CASE UNCHANGED running
  BY <1>2, FrameSpread
<1> QED
  BY <1>1, <1>2 DEF selectRoute, pickLeastLatency

(* Every step of the gateway keeps the weights balanced.                   *)
LEMMA NextSpread == SpreadInv /\ [Next]_vars => SpreadInv'
<1> SUFFICES ASSUME SpreadInv, [Next]_vars PROVE SpreadInv'
  OBVIOUS
<1>1. CASE Unpaid
  BY <1>1, SelectSpread DEF Unpaid
<1>2. ASSUME NEW s \in Slot, Paid(s) PROVE SpreadInv'
  BY <1>2, SelectSpread DEF Paid
<1>3. ASSUME NEW s \in Slot, Forward(s) \/ Block(s) \/ DrainOrClose(s) PROVE SpreadInv'
  <2>1. UNCHANGED running
    BY <1>3 DEF Forward, FastFail, LetThrough, Retry, GiveUp, Answered, ReadOk, ReadFails,
                Throws, Block, DrainOrClose, record, balancer
  <2> QED
    BY <2>1, FrameSpread
<1>4. CASE Tick \/ UNCHANGED vars
  <2>1. UNCHANGED running
    BY <1>4 DEF Tick, BalancerTick, vars, balancer
  <2> QED
    BY <2>1, FrameSpread
<1> QED
  BY <1>1, <1>2, <1>3, <1>4 DEF Next

(* The turns stay in proportion to the weights, for any number of          *)
(* providers and whichever of their circuits open and close                *)
(* (LoadBalancerService.pickWeighted).                                     *)
THEOREM SpreadEvenlyAlways == Spec => []SpreadEvenly
<1>1. SpreadInv => SpreadEvenly
  <2> SUFFICES ASSUME SpreadInv, NEW p \in Provider
               PROVE  /\ -(MaxWeight * (Count - 1)) <= running[p]
                      /\ running[p] <= MaxWeight * (Count - 1)
    BY DEF SpreadEvenly, Count
  <2>1. running[p] \in Int /\ Lifted[p] = running[p] + Base /\ Balanced(Lifted)
    BY DEF SpreadInv, Lifted
  <2>2. /\ Lifted[p] <= Base + MaxWeight * (Count - 1)
        /\ Lifted[p] >= Base - MaxWeight * (Count - 1)
    BY <2>1, BalancedUpper, BalancedLower
  <2>3. MaxWeight * (Count - 1) \in Int
    BY ProviderSets
  <2> QED
    BY <2>1, <2>2, <2>3, ProviderSets
<1> QED
  BY <1>1, InitSpread, NextSpread, PTL DEF Spec

===============================================================================
