----------------------------- MODULE Pit_proofs -----------------------------
(***************************************************************************)
(* Proofs about the controllers of a pit, for every configuration that       *)
(* keeps to PitAssumption: any number of pumps in one or two groups.         *)
(***************************************************************************)
EXTENDS Pit, FiniteSetTheorems, TLAPS

-----------------------------------------------------------------------------
(* Small facts about numbers and sets.                                      *)
LEMMA MaxOfTwo ==
  ASSUME NEW a \in Int, NEW b \in Int
  PROVE  Max({a, b}) = IF a >= b THEN a ELSE b
<1> DEFINE m == IF a >= b THEN a ELSE b
<1>1. m \in {a, b} /\ \A y \in {a, b} : m >= y
  OBVIOUS
<1>2. \A x \in {a, b} : (\A y \in {a, b} : x >= y) => x = m
  OBVIOUS
<1> HIDE DEF m
<1>3. (CHOOSE x \in {a, b} : \A y \in {a, b} : x >= y) = m
  BY <1>1, <1>2
<1> QED
  BY <1>3 DEF Max, m

LEMMA MinOfTwo ==
  ASSUME NEW a \in Int, NEW b \in Int
  PROVE  Min({a, b}) = IF a <= b THEN a ELSE b
<1> DEFINE m == IF a <= b THEN a ELSE b
<1>1. m \in {a, b} /\ \A y \in {a, b} : m =< y
  OBVIOUS
<1>2. \A x \in {a, b} : (\A y \in {a, b} : x =< y) => x = m
  OBVIOUS
<1> HIDE DEF m
<1>3. (CHOOSE x \in {a, b} : \A y \in {a, b} : x =< y) = m
  BY <1>1, <1>2
<1> QED
  BY <1>3 DEF Min, m

(* How many of n are left when at most k are taken.                         *)
Cut(k, n) == IF k <= 0 THEN 0 ELSE IF k <= n THEN k ELSE n

(* FirstBy takes as many as it is told, if there are as many: the places of *)
(* the pumps of S within S are the numbers from 1 to their number.          *)
LEMMA FirstByCount ==
  ASSUME NEW S, IsFiniteSet(S), NEW place, NEW k \in Int,
         \A p \in S : place[p] \in Int,
         \A p, q \in S : place[p] = place[q] => p = q
  PROVE  /\ FirstBy(place, S, k) \subseteq S
         /\ Cardinality(FirstBy(place, S, k)) = Cut(k, Cardinality(S))
<1> DEFINE NotAfter(p) == {q \in S : place[q] <= place[p]}
           n == Cardinality(S)
           r == [p \in S |-> Cardinality(NotAfter(p))]
           F == FirstBy(place, S, k)
<1>1. n \in Nat
  BY FS_CardinalityType
<1>2. \A p \in S : IsFiniteSet(NotAfter(p)) /\ Cardinality(NotAfter(p)) \in 1 .. n
  <2>1. TAKE p \in S
  <2>2. NotAfter(p) \in SUBSET S /\ p \in NotAfter(p)
    OBVIOUS
  <2>3. IsFiniteSet(NotAfter(p)) /\ Cardinality(NotAfter(p)) <= n
    BY <2>2, FS_Subset
  <2>4. Cardinality(NotAfter(p)) \in Nat /\ Cardinality(NotAfter(p)) # 0
    BY <2>2, <2>3, FS_CardinalityType, FS_EmptySet
  <2> QED
    BY <1>1, <2>3, <2>4
<1>3. \A p, q \in S : place[p] < place[q] => Cardinality(NotAfter(p)) < Cardinality(NotAfter(q))
  <2>1. SUFFICES ASSUME NEW p \in S, NEW q \in S, place[p] < place[q]
                 PROVE  Cardinality(NotAfter(p)) < Cardinality(NotAfter(q))
    OBVIOUS
  <2>2. NotAfter(p) \in SUBSET NotAfter(q) /\ q \in NotAfter(q) /\ q \notin NotAfter(p)
    BY <2>1
  <2>3. IsFiniteSet(NotAfter(q)) /\ Cardinality(NotAfter(p)) \in Nat /\ Cardinality(NotAfter(q)) \in Nat
    BY <1>1, <1>2
  <2> HIDE DEF NotAfter
  <2>4. Cardinality(NotAfter(p)) <= Cardinality(NotAfter(q)) /\ Cardinality(NotAfter(p)) # Cardinality(NotAfter(q))
    BY <2>2, <2>3, FS_Subset
  <2> QED
    BY <2>3, <2>4
<1>4. r \in [S -> 1 .. n] /\ \A p, q \in S : r[p] = r[q] => p = q
  <2>1. r \in [S -> 1 .. n]
    BY <1>2
  <2>2. ASSUME NEW p \in S, NEW q \in S, r[p] = r[q], p # q
        PROVE  FALSE
    <3>1. place[p] < place[q] \/ place[q] < place[p]
      BY <2>2
    <3>2. Cardinality(NotAfter(p)) = Cardinality(NotAfter(q))
      BY <2>2
    <3>3. Cardinality(NotAfter(p)) < Cardinality(NotAfter(q)) \/ Cardinality(NotAfter(q)) < Cardinality(NotAfter(p))
      BY <1>3, <3>1
    <3>4. Cardinality(NotAfter(p)) \in Int /\ Cardinality(NotAfter(q)) \in Int
      BY <1>1, <1>2
    <3> HIDE DEF NotAfter
    <3> QED
      BY <3>2, <3>3, <3>4
  <2> QED
    BY <2>1, <2>2
<1>5. IsFiniteSet(1 .. n) /\ Cardinality(1 .. n) = n
  BY <1>1, FS_Interval
<1>9. F = {p \in S : r[p] <= k}
  BY DEF FirstBy
<1>6. r \in Injection(S, 1 .. n)
  <2> HIDE DEF r
  <2> QED
    BY <1>4 DEF Injection, IsInjective
<1>7. r \in Surjection(S, 1 .. n)
  BY <1>5, <1>6, FS_Injection
<1>8. \A i \in 1 .. n : \E p \in S : r[p] = i
  BY <1>7 DEF Surjection
<1> HIDE DEF r, F, n
<1>10. F \subseteq S
  BY <1>9
<1>11. k <= 0 => Cardinality(F) = Cut(k, n)
  <2>1. SUFFICES ASSUME k <= 0 PROVE Cardinality(F) = Cut(k, n)
    OBVIOUS
  <2>2. F = {}
    BY <1>4, <1>9, <2>1
  <2>3. Cardinality(F) = 0
    BY <2>2, FS_EmptySet
  <2> QED
    BY <2>1, <2>3 DEF Cut
<1>12. k > 0 => Cardinality(F) = Cut(k, n)
  <2> SUFFICES ASSUME k > 0 PROVE Cardinality(F) = Cut(k, n)
    OBVIOUS
  <2> DEFINE s == [p \in F |-> r[p]]
  <2>1. PICK m \in Nat : m <= n /\ m <= k /\ m = Cut(k, n) /\ \A i \in 1 .. n : i <= k <=> i <= m
    <3>1. CASE k <= n
      BY <1>1, <3>1 DEF Cut
    <3>2. CASE ~(k <= n)
      BY <1>1, <3>2 DEF Cut
    <3> QED
      BY <3>1, <3>2
  <2>2. IsFiniteSet(1 .. m) /\ Cardinality(1 .. m) = m
    BY <2>1, FS_Interval
  <2>3. s \in [F -> 1 .. m] /\ \A p, q \in F : s[p] = s[q] => p = q
    BY <1>4, <1>9, <2>1
  <2>4. \A i \in 1 .. m : \E p \in F : s[p] = i
    <3>1. TAKE i \in 1 .. m
    <3>2. i \in 1 .. n
      BY <1>1, <2>1
    <3>3. PICK p \in S : r[p] = i
      BY <1>8, <3>2
    <3>4. p \in F
      BY <1>9, <2>1, <3>2, <3>3
    <3> QED
      BY <3>3, <3>4
  <2> HIDE DEF s
  <2>5. s \in Bijection(F, 1 .. m)
    BY <2>3, <2>4 DEF Bijection, Injection, Surjection, IsInjective
  <2>6. IsFiniteSet(F)
    BY <1>10, FS_Subset
  <2>7. Cardinality(F) = m
    BY <2>2, <2>5, <2>6, FS_Bijection DEF ExistsBijection
  <2> QED
    BY <2>1, <2>7
<1> QED
  BY <1>10, <1>11, <1>12 DEF F, n

-----------------------------------------------------------------------------
(* The configuration, and the sets of pumps.                                *)
LEMMA ConfigFacts ==
  ASSUME config \in Configs
  PROVE  /\ config.pumps \in Nat \ {0}
         /\ \A g \in 1 .. 2 : /\ config.min[g] \in 1 .. config.pumps
                              /\ config.max[g] \in 1 .. config.pumps
                              /\ config.min[g] <= config.max[g]
         /\ config.total[1] \in 1 .. config.pumps /\ config.total[2] \in 1 .. config.pumps
         /\ config.total[1] <= config.total[2]
<1>1. /\ config.pumps \in Nat \ {0}
      /\ {config.min, config.max, config.total} \subseteq [1 .. 2 -> 1 .. config.pumps]
      /\ \A g \in 1 .. 2 : config.min[g] <= config.max[g]
      /\ config.total[1] <= config.total[2]
  BY PitAssumption
<1>2. 1 \in 1 .. 2 /\ 2 \in 1 .. 2
  OBVIOUS
<1> QED
  BY <1>1, <1>2

LEMMA PumpSets ==
  ASSUME config \in Configs
  PROVE  /\ IsFiniteSet(Pumps) /\ Cardinality(Pumps) = config.pumps
         /\ \A S \in SUBSET Pumps : IsFiniteSet(S) /\ Cardinality(S) \in Nat
<1>1. IsFiniteSet(Pumps) /\ Cardinality(Pumps) = config.pumps
  <2> DEFINE n == config.pumps
  <2>1. n \in Nat \ {0}
    BY ConfigFacts
  <2> HIDE DEF n
  <2>2. 1 \in Int /\ n \in Int /\ ~(1 > n) /\ n - 1 + 1 = n
    BY <2>1
  <2>3. IsFiniteSet(1 .. n) /\ Cardinality(1 .. n) = IF 1 > n THEN 0 ELSE n - 1 + 1
    BY <2>2, FS_Interval
  <2>4. IsFiniteSet(1 .. n) /\ Cardinality(1 .. n) = n
    BY <2>2, <2>3
  <2> QED
    BY <2>4 DEF Pumps, n
<1> QED
  BY <1>1, FS_Subset, FS_CardinalityType

LEMMA GroupSets ==
  ASSUME config \in Configs
  PROVE  /\ Groups = {1} \/ Groups = {1, 2}
         /\ Group(1) \subseteq Pumps /\ Group(2) \subseteq Pumps
         /\ Group(1) \cap Group(2) = {} /\ Group(1) \cup Group(2) = Pumps
         /\ 2 \notin Groups => Group(1) = Pumps
  BY DEF Groups, Group, GroupOf

(* The number of a union and of a difference.                               *)
LEMMA Joined ==
  ASSUME NEW S, IsFiniteSet(S), NEW T, IsFiniteSet(T), S \cap T = {}
  PROVE  /\ Cardinality(S) \in Nat /\ Cardinality(T) \in Nat
         /\ Cardinality(S \cup T) = Cardinality(S) + Cardinality(T)
<1>1. Cardinality(S) \in Nat /\ Cardinality(T) \in Nat
  BY FS_CardinalityType
<1>2. Cardinality(S \cap T) = 0
  BY FS_EmptySet
<1>3. Cardinality(S \cup T) = Cardinality(S) + Cardinality(T) - Cardinality(S \cap T)
  BY FS_Union
<1> QED
  BY <1>1, <1>2, <1>3

LEMMA Removed ==
  ASSUME NEW S, IsFiniteSet(S), NEW T, T \subseteq S
  PROVE  /\ IsFiniteSet(T) /\ Cardinality(S) \in Nat /\ Cardinality(T) \in Nat
         /\ Cardinality(S \ T) = Cardinality(S) - Cardinality(T)
         /\ Cardinality(T) <= Cardinality(S)
<1>1. IsFiniteSet(T) /\ Cardinality(T) <= Cardinality(S)
  BY FS_Subset
<1>2. Cardinality(S) \in Nat /\ Cardinality(T) \in Nat
  BY <1>1, FS_CardinalityType
<1>3. S \cap T = T
  OBVIOUS
<1>4. Cardinality(S \ T) = Cardinality(S) - Cardinality(S \cap T)
  BY FS_Difference
<1> QED
  BY <1>1, <1>2, <1>3, <1>4

(* The four ways to take some of the pumps.                                 *)
LEMMA Taking ==
  ASSUME config \in Configs, byTime \in [Pumps -> Pumps],
         \A p, q \in Pumps : byTime[p] = byTime[q] => p = q,
         NEW S \in SUBSET Pumps, NEW k \in Int
  PROVE  /\ Lowest(S, k) \subseteq S /\ Cardinality(Lowest(S, k)) = Cut(k, Cardinality(S))
         /\ Highest(S, k) \subseteq S /\ Cardinality(Highest(S, k)) = Cut(k, Cardinality(S))
         /\ Oldest(S, k) \subseteq S /\ Cardinality(Oldest(S, k)) = Cut(k, Cardinality(S))
         /\ Latest(S, k) \subseteq S /\ Cardinality(Latest(S, k)) = Cut(k, Cardinality(S))
<1>1. IsFiniteSet(S) /\ Pumps \subseteq Int
  BY PumpSets DEF Pumps
<1>2. /\ FirstBy([p \in Pumps |-> p], S, k) \subseteq S
      /\ Cardinality(FirstBy([p \in Pumps |-> p], S, k)) = Cut(k, Cardinality(S))
  <2> DEFINE place == [p \in Pumps |-> p]
  <2>1. (\A p \in S : place[p] \in Int) /\ \A p, q \in S : place[p] = place[q] => p = q
    BY <1>1
  <2> HIDE DEF place
  <2> QED
    BY <1>1, <2>1, FirstByCount DEF place
<1>3. /\ FirstBy([p \in Pumps |-> -p], S, k) \subseteq S
      /\ Cardinality(FirstBy([p \in Pumps |-> -p], S, k)) = Cut(k, Cardinality(S))
  <2> DEFINE place == [p \in Pumps |-> -p]
  <2>1. (\A p \in S : place[p] \in Int) /\ \A p, q \in S : place[p] = place[q] => p = q
    BY <1>1
  <2> HIDE DEF place
  <2> QED
    BY <1>1, <2>1, FirstByCount DEF place
<1>4. FirstBy(byTime, S, k) \subseteq S /\ Cardinality(FirstBy(byTime, S, k)) = Cut(k, Cardinality(S))
  <2>1. (\A p \in S : byTime[p] \in Int) /\ \A p, q \in S : byTime[p] = byTime[q] => p = q
    BY <1>1
  <2> QED
    BY <1>1, <2>1, FirstByCount
<1>5. /\ FirstBy([p \in Pumps |-> -byTime[p]], S, k) \subseteq S
      /\ Cardinality(FirstBy([p \in Pumps |-> -byTime[p]], S, k)) = Cut(k, Cardinality(S))
  <2> DEFINE place == [p \in Pumps |-> -byTime[p]]
  <2>1. (\A p \in S : place[p] \in Int) /\ \A p, q \in S : place[p] = place[q] => p = q
    <3>1. \A p \in S : place[p] = -byTime[p] /\ byTime[p] \in Int /\ p \in Pumps
      BY <1>1
    <3>2. \A a, b \in Int : -a = -b => a = b
      OBVIOUS
    <3> HIDE DEF place
    <3> QED
      BY <3>1, <3>2
  <2> HIDE DEF place
  <2> QED
    BY <1>1, <2>1, FirstByCount DEF place
<1> QED
  BY <1>2, <1>3, <1>4, <1>5 DEF Lowest, Highest, Oldest, Latest

-----------------------------------------------------------------------------
(* One group.                                                               *)
LEMMA TypeFacts ==
  ASSUME TypeOK
  PROVE  /\ ref \subseteq Pumps /\ anti \subseteq Pumps /\ on \subseteq Pumps
         /\ ready \subseteq Pumps /\ started \subseteq Pumps
         /\ foamDrainRef \subseteq Pumps
         /\ Manual \subseteq Pumps /\ Manual \cap ready = {}
         /\ byTime \in [Pumps -> Pumps] /\ \A p, q \in Pumps : byTime[p] = byTime[q] => p = q
  BY DEF TypeOK, PumpTypeOK, Manual

(* How many pumps of a group are wanted.                                    *)
LEMMA WishFacts ==
  ASSUME config \in Configs, TypeOK, NEW S \in SUBSET Pumps, NEW g \in 1 .. 2
  PROVE  /\ Wish(S, g) \in Nat
         /\ config.alternate[g] =>
              LET room == config.max[g] - Cardinality(Manual \cap Group(g))
                  some == Cardinality(S \cap Group(g))
              IN Wish(S, g) = IF some <= room THEN some ELSE IF room >= 0 THEN room ELSE 0
         /\ ~config.alternate[g] => Wish(S, g) = Cardinality(S \cap Group(g) \cap ready)
<1> DEFINE some == Cardinality(S \cap Group(g))
           room == config.max[g] - Cardinality(Manual \cap Group(g))
<1>1. some \in Nat /\ Cardinality(Manual \cap Group(g)) \in Nat
      /\ Cardinality(S \cap Group(g) \cap ready) \in Nat
  BY PumpSets, TypeFacts
<1>2. room \in Int
  BY <1>1, ConfigFacts
<1>3. CASE ~config.alternate[g]
  BY <1>1, <1>3 DEF Wish
<1>4. CASE config.alternate[g]
  <2> DEFINE lesser == IF some <= room THEN some ELSE room
  <2>1. Wish(S, g) = Max({0, Min({some, room})})
    BY <1>4 DEF Wish
  <2> HIDE DEF some, room
  <2>2. Min({some, room}) = lesser /\ lesser \in Int
    BY <1>1, <1>2, MinOfTwo
  <2>3. Max({0, lesser}) = IF 0 >= lesser THEN 0 ELSE lesser
    BY <2>2, MaxOfTwo
  <2>4. Wish(S, g) = IF some <= room THEN some ELSE IF room >= 0 THEN room ELSE 0
    BY <1>1, <1>2, <2>1, <2>2, <2>3
  <2>5. Wish(S, g) \in Nat
    BY <1>1, <1>2, <2>4
  <2> QED
    BY <1>4, <2>4, <2>5 DEF some, room
<1> QED
  BY <1>3, <1>4

Choice(S, g, temp) ==
  IF config.alternate[g] THEN Alternated(S, g, temp) ELSE Reduced(S, g, temp)

(* With alternation a group gets the pumps that go on and the ones that     *)
(* fill up: the wished number, or all that can.                             *)
GoOnAndFill(S, g, temp) ==
  LET wish == IF temp.call = "stop" THEN 0 ELSE Wish(S, g)
      kept == (S \ Group(g)) \cup (IF temp.call = "resume" THEN {temp.pump} ELSE {})
      left == IF temp.call = "resume" THEN wish - 1 ELSE wish
      can  == ready \cap Group(g)
  IN \E goOn, fill \in SUBSET can :
       /\ Alternated(S, g, temp) = kept \cup goOn \cup fill
       /\ goOn \subseteq started
       /\ goOn \cap fill = {}
       /\ Cardinality(goOn) + Cardinality(fill) <= left
       /\ fill # {} => goOn = can \cap started
       /\ kept \cap can = {} => Cardinality(goOn) + Cardinality(fill) = Cut(left, Cardinality(can))

LEMMA AlternatedParts ==
  ASSUME config \in Configs, TypeOK, NEW S \in SUBSET Pumps, NEW g \in 1 .. 2, NEW temp,
         temp.call = "resume" => temp.pump \in ready /\ Wish(S, g) = 1
  PROVE  GoOnAndFill(S, g, temp)
<1> DEFINE wish == IF temp.call = "stop" THEN 0 ELSE Wish(S, g)
           kept == (S \ Group(g)) \cup (IF temp.call = "resume" THEN {temp.pump} ELSE {})
           left == IF temp.call = "resume" THEN wish - 1 ELSE wish
           can  == ready \cap Group(g)
           goOn == Latest(can \cap started, left)
           rest == can \ (kept \cup goOn)
           fill == Oldest(rest, left - Cardinality(goOn))
<1>1. left \in Nat
  <2>1. Wish(S, g) \in Nat
    BY WishFacts
  <2> QED
    BY <2>1
<1>2. Alternated(S, g, temp) = kept \cup goOn \cup fill
  BY DEF Alternated
<1> HIDE DEF wish, left
<1>3. can \subseteq Pumps /\ can \cap started \subseteq Pumps
  BY TypeFacts
<1>4. goOn \subseteq can \cap started /\ Cardinality(goOn) = Cut(left, Cardinality(can \cap started))
  <2>1. left \in Int
    BY <1>1
  <2> QED
    BY <1>3, <2>1, Taking, TypeFacts
<1> HIDE DEF goOn, can
<1>5. Cardinality(goOn) \in Nat /\ Cardinality(can \cap started) \in Nat /\ Cardinality(can) \in Nat
      /\ IsFiniteSet(can) /\ IsFiniteSet(can \cap started)
  BY <1>3, <1>4, PumpSets
<1>6. rest \in SUBSET Pumps /\ rest \subseteq can
  BY <1>3
<1>7. fill \subseteq rest /\ Cardinality(fill) = Cut(left - Cardinality(goOn), Cardinality(rest))
  <2>1. left - Cardinality(goOn) \in Int
    BY <1>1, <1>5
  <2> HIDE DEF rest
  <2> QED
    BY <1>6, <2>1, Taking, TypeFacts
<1>8. Cardinality(rest) \in Nat /\ Cardinality(goOn) <= left
      /\ Cardinality(goOn) <= Cardinality(can \cap started)
  BY <1>1, <1>4, <1>5, <1>6, PumpSets DEF Cut
<1>9. fill \subseteq can /\ goOn \cap fill = {} /\ goOn \subseteq can /\ goOn \subseteq started
  BY <1>4, <1>7
<1> HIDE DEF fill, rest
<1>10. Cardinality(goOn) + Cardinality(fill) <= left
  BY <1>1, <1>5, <1>7, <1>8 DEF Cut
<1>11. fill # {} => goOn = can \cap started
  <2>1. SUFFICES ASSUME fill # {} PROVE goOn = can \cap started
    OBVIOUS
  <2>2. Cardinality(fill) # 0
    BY <1>3, <1>9, <2>1, PumpSets, FS_EmptySet
  <2>3. Cardinality(goOn) < left
    BY <1>1, <1>5, <1>7, <1>8, <2>2 DEF Cut
  <2>4. Cardinality(goOn) = Cardinality(can \cap started)
    BY <1>1, <1>4, <1>5, <2>3 DEF Cut
  <2> QED
    BY <1>4, <1>5, <2>4, FS_Subset
<1>12. kept \cap can = {} => Cardinality(goOn) + Cardinality(fill) = Cut(left, Cardinality(can))
  <2>1. SUFFICES ASSUME kept \cap can = {}
                 PROVE  Cardinality(goOn) + Cardinality(fill) = Cut(left, Cardinality(can))
    OBVIOUS
  <2>2. rest = can \ goOn
    BY <2>1 DEF rest
  <2>3. Cardinality(rest) = Cardinality(can) - Cardinality(goOn) /\ Cardinality(goOn) <= Cardinality(can)
    BY <1>5, <1>9, <2>2, Removed
  <2> QED
    BY <1>1, <1>5, <1>7, <1>8, <2>3 DEF Cut
<1> HIDE DEF kept
<1> QED
  BY <1>2, <1>9, <1>10, <1>11, <1>12 DEF kept, can, left, wish, GoOnAndFill

(* Without alternation, the pumps asked for that are ready, cut down to the *)
(* maximum.                                                                 *)
LEMMA ReducedParts ==
  ASSUME config \in Configs, TypeOK, NEW S \in SUBSET Pumps, NEW g \in 1 .. 2, NEW temp,
         ~config.alternate[g]
  PROVE  LET rest   == (S \ (Group(g) \ ready)) \ (IF temp.call = "stop" THEN {temp.pump} ELSE {})
             manual == Cardinality(Manual \cap Group(g))
             above  == Wish(S, g) + manual - config.max[g]
             R      == Reduced(S, g, temp)
         IN /\ R \subseteq rest /\ rest \ R \subseteq Group(g)
            /\ Cardinality(rest \cap Group(g)) <= Wish(S, g)
            /\ Cardinality(R \cap Group(g))
                 = Cardinality(rest \cap Group(g)) - Cut(above, Cardinality(rest \cap Group(g)))
<1> DEFINE rest   == (S \ (Group(g) \ ready)) \ (IF temp.call = "stop" THEN {temp.pump} ELSE {})
           manual == Cardinality(Manual \cap Group(g))
           above  == Wish(S, g) + manual - config.max[g]
           R      == Reduced(S, g, temp)
           some   == rest \cap Group(g)
           cut    == Highest(some, above)
<1>1. R = rest \ cut
  BY DEF Reduced
<1>2. above \in Int
  <2>1. manual \in Nat
    BY TypeFacts, PumpSets
  <2>2. Wish(S, g) \in Nat
    BY WishFacts
  <2>3. config.max[g] \in Int
    BY ConfigFacts
  <2> QED
    BY <2>1, <2>2, <2>3
<1>3. some \in SUBSET Pumps /\ some \subseteq S \cap Group(g) \cap ready
  OBVIOUS
<1> HIDE DEF rest, above, R
<1>4. cut \subseteq some /\ Cardinality(cut) = Cut(above, Cardinality(some))
  <2> HIDE DEF some
  <2> QED
    BY <1>2, <1>3, Taking, TypeFacts
<1>5. Cardinality(some) <= Wish(S, g)
  <2>1. IsFiniteSet(S \cap Group(g) \cap ready)
    BY PumpSets
  <2>2. Wish(S, g) = Cardinality(S \cap Group(g) \cap ready)
    BY WishFacts
  <2> HIDE DEF some
  <2> QED
    BY <1>3, <2>1, <2>2, FS_Subset
<1> HIDE DEF cut
<1>6. R \cap Group(g) = some \ cut
  BY <1>1, <1>4
<1>7. Cardinality(some \ cut) = Cardinality(some) - Cardinality(cut)
  BY <1>3, <1>4, PumpSets, Removed
<1>8. R \subseteq rest /\ rest \ R \subseteq Group(g)
  BY <1>1, <1>4
<1> QED
  BY <1>4, <1>5, <1>6, <1>7, <1>8 DEF R, rest, above, some

(* The choice for a group keeps to its maximum, and to the ready pumps.     *)
LEMMA ChoiceFits ==
  ASSUME config \in Configs, TypeOK, NEW S \in SUBSET Pumps, NEW g \in 1 .. 2, NEW temp,
         temp.call = "resume" => temp.pump \in ready /\ Wish(S, g) = 1
  PROVE  LET C == Choice(S, g, temp)
         IN /\ C \subseteq Pumps /\ C \cap Group(g) \subseteq ready
            /\ C \cap Group(g) # {} =>
                 Cardinality(C \cap Group(g)) + Cardinality(Manual \cap Group(g)) <= config.max[g]
            /\ temp.call = "ignore" => C \ Group(g) = S \ Group(g)
            /\ temp.call = "ignore" /\ S \cap Group(g) = {} => C \subseteq S
<1> DEFINE C == Choice(S, g, temp)
           here == C \cap Group(g)
           manual == Cardinality(Manual \cap Group(g))
           size == Cardinality(here)
<1>1. manual \in Nat /\ config.max[g] \in Nat
  BY TypeFacts, PumpSets, ConfigFacts
<1>2. Wish(S, g) \in Nat
  BY WishFacts
<1>3. S \cap Group(g) = {} => Wish(S, g) = 0
  <2>1. SUFFICES ASSUME S \cap Group(g) = {} PROVE Wish(S, g) = 0
    OBVIOUS
  <2>2. Cardinality(S \cap Group(g)) = 0 /\ Cardinality(S \cap Group(g) \cap ready) = 0
    BY <2>1, FS_EmptySet
  <2> QED
    BY <1>1, <2>2, WishFacts
<1>4. CASE config.alternate[g]
  <2> DEFINE wish == IF temp.call = "stop" THEN 0 ELSE Wish(S, g)
             kept == (S \ Group(g)) \cup (IF temp.call = "resume" THEN {temp.pump} ELSE {})
             left == IF temp.call = "resume" THEN wish - 1 ELSE wish
             can  == ready \cap Group(g)
  <2>1. PICK goOn \in SUBSET can, fill \in SUBSET can :
               /\ C = kept \cup goOn \cup fill
               /\ goOn \cap fill = {}
               /\ Cardinality(goOn) + Cardinality(fill) <= left
    BY <1>4, AlternatedParts DEF Choice, GoOnAndFill
  <2>2. C \subseteq Pumps /\ here \subseteq ready
    BY <2>1, TypeFacts
  <2>3. temp.call = "ignore" => C \ Group(g) = S \ Group(g)
    BY <2>1
  <2>4. /\ IsFiniteSet(goOn) /\ IsFiniteSet(fill)
        /\ Cardinality(goOn) \in Nat /\ Cardinality(fill) \in Nat
        /\ IsFiniteSet(goOn \cup fill) /\ Cardinality(goOn \cup fill) = Cardinality(goOn) + Cardinality(fill)
    <3>1. goOn \in SUBSET Pumps /\ fill \in SUBSET Pumps /\ goOn \cup fill \in SUBSET Pumps
      BY TypeFacts
    <3> QED
      BY <2>1, <3>1, PumpSets, Joined
  <2>5. size <= Wish(S, g) /\ size \in Nat
    <3>1. CASE temp.call = "resume"
      <4>1. Cardinality(goOn \cup fill) = 0
        BY <2>1, <2>4, <3>1
      <4>2. goOn \cup fill = {}
        BY <2>4, <4>1, FS_EmptySet
      <4>3. here \subseteq {temp.pump}
        BY <2>1, <3>1, <4>2
      <4>4. IsFiniteSet({temp.pump}) /\ Cardinality({temp.pump}) = 1
        BY FS_Singleton
      <4>5. size <= 1 /\ size \in Nat
        BY <4>3, <4>4, FS_Subset, FS_CardinalityType
      <4> QED
        BY <3>1, <4>5
    <3>2. CASE temp.call # "resume"
      <4>1. here \subseteq goOn \cup fill
        BY <2>1, <3>2
      <4>2. size <= Cardinality(goOn \cup fill) /\ size \in Nat
        BY <2>4, <4>1, FS_Subset, FS_CardinalityType
      <4>3. Cardinality(goOn) + Cardinality(fill) <= Wish(S, g)
        BY <1>2, <2>1, <2>4, <3>2
      <4> QED
        BY <1>2, <2>4, <4>2, <4>3
    <3> QED
      BY <3>1, <3>2
  <2>6. here # {} => size + manual <= config.max[g]
    <3>1. SUFFICES ASSUME here # {} PROVE size + manual <= config.max[g]
      OBVIOUS
    <3>2. size # 0
      BY <2>2, <3>1, PumpSets, FS_EmptySet
    <3>3. Wish(S, g) <= config.max[g] - manual \/ Wish(S, g) = 0
      <4>1. Cardinality(S \cap Group(g)) \in Nat
        BY PumpSets
      <4>2. Wish(S, g) = IF Cardinality(S \cap Group(g)) <= config.max[g] - manual
                         THEN Cardinality(S \cap Group(g))
                         ELSE IF config.max[g] - manual >= 0 THEN config.max[g] - manual ELSE 0
        BY <1>4, WishFacts
      <4> QED
        BY <1>1, <4>1, <4>2
    <3> HIDE DEF size, here, manual
    <3> QED
      BY <1>1, <1>2, <2>5, <3>2, <3>3
  <2>7. temp.call = "ignore" /\ S \cap Group(g) = {} => C \subseteq S
    <3>1. SUFFICES ASSUME temp.call = "ignore", S \cap Group(g) = {} PROVE C \subseteq S
      OBVIOUS
    <3>2. Cardinality(goOn \cup fill) = 0
      BY <1>3, <2>1, <2>4, <3>1
    <3>3. goOn \cup fill = {}
      BY <2>4, <3>2, FS_EmptySet
    <3> QED
      BY <2>1, <3>1, <3>3
  <2> QED
    BY <2>2, <2>3, <2>6, <2>7
<1>5. CASE ~config.alternate[g]
  <2> DEFINE rest  == (S \ (Group(g) \ ready)) \ (IF temp.call = "stop" THEN {temp.pump} ELSE {})
             above == Wish(S, g) + manual - config.max[g]
             some  == Cardinality(rest \cap Group(g))
  <2>1. /\ C \subseteq rest /\ rest \ C \subseteq Group(g)
        /\ some <= Wish(S, g)
        /\ size = some - Cut(above, some)
    BY <1>5, ReducedParts DEF Choice
  <2>2. C \subseteq S /\ here \subseteq ready
    BY <2>1
  <2>3. temp.call = "ignore" => C \ Group(g) = S \ Group(g)
    BY <2>1
  <2>4. some \in Nat
    BY PumpSets
  <2>5. here # {} => size # 0
    BY <2>2, PumpSets, FS_EmptySet
  <2>6. here # {} => size + manual <= config.max[g]
    <3> HIDE DEF size, here, manual, some
    <3> QED
      BY <1>1, <1>2, <2>1, <2>4, <2>5 DEF Cut
  <2> QED
    BY <2>2, <2>3, <2>6
<1> QED
  BY <1>4, <1>5

(* Anti-seizing adds ready pumps of the group, up to its maximum.           *)
LEMMA AntiSeizingFits ==
  ASSUME config \in Configs, TypeOK, NEW S \in SUBSET Pumps, NEW g \in 1 .. 2
  PROVE  LET A == AntiSeizing(S, g)
             running == Cardinality(S \cap Group(g)) + Cardinality(Manual \cap Group(g))
         IN /\ A \subseteq (anti \cap Group(g) \cap ready) \ S
            /\ IF running >= config.max[g] THEN A = {} ELSE Cardinality(A) + running <= config.max[g]
<1> DEFINE A == AntiSeizing(S, g)
           running == Cardinality(S \cap Group(g)) + Cardinality(Manual \cap Group(g))
           lack == config.min[g] - running
           k == IF running >= config.max[g] THEN 0 ELSE Max({1, lack})
           some == (anti \cap Group(g) \cap ready) \ S
<1>1. /\ Cardinality(S \cap Group(g)) \in Nat /\ Cardinality(Manual \cap Group(g)) \in Nat
      /\ config.max[g] \in Nat /\ config.min[g] \in Nat /\ config.min[g] <= config.max[g]
  BY PumpSets, TypeFacts, ConfigFacts
<1>2. running \in Nat /\ lack \in Int
  BY <1>1
<1>3. A = Lowest(some, k)
  BY DEF AntiSeizing
<1> HIDE DEF running, lack
<1>4. Max({1, lack}) = IF 1 >= lack THEN 1 ELSE lack
  BY <1>2, MaxOfTwo
<1>5. k \in Int
  BY <1>2, <1>4
<1>6. some \in SUBSET Pumps
  BY TypeFacts
<1> HIDE DEF A, some, k
<1>7. A \subseteq some /\ Cardinality(A) = Cut(k, Cardinality(some))
  BY <1>3, <1>5, <1>6, Taking, TypeFacts
<1>8. A \in SUBSET Pumps /\ Cardinality(some) \in Nat
  BY <1>6, <1>7, PumpSets
<1>9. running >= config.max[g] => A = {}
  <2>1. SUFFICES ASSUME running >= config.max[g] PROVE A = {}
    OBVIOUS
  <2>2. Cardinality(A) = 0
    BY <1>7, <2>1 DEF Cut, k
  <2> QED
    BY <1>8, <2>2, PumpSets, FS_EmptySet
<1>10. ~(running >= config.max[g]) => Cardinality(A) + running <= config.max[g]
  <2>1. SUFFICES ASSUME ~(running >= config.max[g]) PROVE Cardinality(A) + running <= config.max[g]
    OBVIOUS
  <2>2. k <= config.max[g] - running /\ k > 0
    BY <1>1, <1>2, <1>4, <2>1 DEF k, lack
  <2>3. Cardinality(A) <= k
    BY <1>5, <1>7, <1>8, <2>2 DEF Cut
  <2>4. Cardinality(A) \in Nat
    BY <1>8, PumpSets
  <2> QED
    BY <1>1, <1>2, <1>5, <2>2, <2>3, <2>4
<1> QED
  BY <1>7, <1>9, <1>10 DEF A, running, some

(* One turn of the loop over the groups.                                    *)
LEMMA TurnFits ==
  ASSUME config \in Configs, TypeOK, NEW r, r.pumps \subseteq Pumps, NEW g \in 1 .. 2, NEW temp,
         temp.call = "resume" => temp.pump \in ready /\ Wish(r.pumps, g) = 1
  PROVE  LET D == GroupDone(r, g, temp)
             some == Cardinality(D.pumps \cap Group(g)) + Cardinality(Manual \cap Group(g))
         IN /\ D.pumps \subseteq Pumps /\ D.pumps \cap Group(g) \subseteq ready
            /\ D.pumps \cap Group(g) # {} => some >= config.min[g] /\ some <= config.max[g]
            /\ temp.call = "ignore" => D.pumps \ Group(g) = r.pumps \ Group(g)
            /\ temp.call = "ignore" /\ r.pumps \cap Group(g) = {} => D.pumps \subseteq r.pumps \cup anti
            /\ D.anti \subseteq r.anti \cup (anti \cap ready)
<1> DEFINE D == GroupDone(r, g, temp)
           chosen == Choice(r.pumps, g, temp)
           A == AntiSeizing(chosen, g)
           all == chosen \cup A
           manual == Cardinality(Manual \cap Group(g))
           enough == Cardinality(all \cap Group(g)) + manual >= config.min[g]
<1>1. D = [pumps |-> IF enough THEN all ELSE all \ Group(g), anti |-> r.anti \cup A]
  BY DEF GroupDone, Choice
<1>2. /\ chosen \subseteq Pumps /\ chosen \cap Group(g) \subseteq ready
      /\ chosen \cap Group(g) # {} => Cardinality(chosen \cap Group(g)) + manual <= config.max[g]
      /\ temp.call = "ignore" => chosen \ Group(g) = r.pumps \ Group(g)
      /\ temp.call = "ignore" /\ r.pumps \cap Group(g) = {} => chosen \subseteq r.pumps
  BY ChoiceFits
<1> HIDE DEF chosen
<1>3. /\ A \subseteq (anti \cap Group(g) \cap ready) \ chosen
      /\ IF Cardinality(chosen \cap Group(g)) + manual >= config.max[g]
         THEN A = {} ELSE Cardinality(A) + Cardinality(chosen \cap Group(g)) + manual <= config.max[g]
  <2>1. /\ A \subseteq (anti \cap Group(g) \cap ready) \ chosen
        /\ IF Cardinality(chosen \cap Group(g)) + manual >= config.max[g]
           THEN A = {} ELSE Cardinality(A) + (Cardinality(chosen \cap Group(g)) + manual) <= config.max[g]
    BY <1>2, AntiSeizingFits
  <2>2. Cardinality(A) \in Nat /\ Cardinality(chosen \cap Group(g)) \in Nat /\ manual \in Nat
    BY <1>2, <2>1, PumpSets, TypeFacts
  <2> QED
    BY <2>1, <2>2
<1> HIDE DEF A, enough
<1>4. all \subseteq Pumps /\ all \cap Group(g) \subseteq ready /\ all \cap Group(g) = (chosen \cap Group(g)) \cup A
  BY <1>2, <1>3, TypeFacts
<1>5. all \cap Group(g) # {} => Cardinality(all \cap Group(g)) + manual <= config.max[g]
  <2>1. /\ Cardinality(chosen \cap Group(g)) \in Nat /\ Cardinality(A) \in Nat
        /\ Cardinality(all \cap Group(g)) = Cardinality(chosen \cap Group(g)) + Cardinality(A)
    <3>1. IsFiniteSet(chosen \cap Group(g)) /\ IsFiniteSet(A)
      BY <1>2, <1>3, PumpSets, TypeFacts
    <3> QED
      BY <1>3, <1>4, <3>1, Joined
  <2>2. manual \in Nat /\ config.max[g] \in Nat
    BY PumpSets, TypeFacts, ConfigFacts
  <2>3. CASE Cardinality(chosen \cap Group(g)) + manual >= config.max[g]
    <3>1. A = {} /\ all \cap Group(g) = chosen \cap Group(g)
      BY <1>3, <1>4, <2>3
    <3> QED
      BY <1>2, <3>1
  <2>4. CASE ~(Cardinality(chosen \cap Group(g)) + manual >= config.max[g])
    BY <1>3, <2>1, <2>2, <2>4
  <2> QED
    BY <2>3, <2>4
<1> HIDE DEF all, manual
<1>6. D.pumps = (IF enough THEN all ELSE all \ Group(g)) /\ D.anti = r.anti \cup A
  BY <1>1
<1> HIDE DEF D
<1>7. D.pumps \subseteq Pumps /\ D.pumps \cap Group(g) \subseteq ready
  BY <1>4, <1>6
<1>8. D.pumps \cap Group(g) # {} =>
        /\ Cardinality(D.pumps \cap Group(g)) + manual >= config.min[g]
        /\ Cardinality(D.pumps \cap Group(g)) + manual <= config.max[g]
  BY <1>5, <1>6 DEF enough
<1>9. temp.call = "ignore" => D.pumps \ Group(g) = r.pumps \ Group(g)
  BY <1>2, <1>3, <1>6 DEF all
<1>10. temp.call = "ignore" /\ r.pumps \cap Group(g) = {} => D.pumps \subseteq r.pumps \cup anti
  BY <1>2, <1>3, <1>6 DEF all
<1>11. D.anti \subseteq r.anti \cup (anti \cap ready)
  BY <1>3, <1>6
<1> QED
  BY <1>7, <1>8, <1>9, <1>10, <1>11 DEF D, manual

(* The limits of the pit.                                                   *)
LEMMA TotalFits ==
  ASSUME config \in Configs, TypeOK, NEW S \in SUBSET Pumps, NEW by
  PROVE  LET T == InTotal(S, by)
             all == Cardinality(T) + Cardinality(Manual)
         IN /\ T \subseteq S
            /\ T # {} => /\ all >= config.total[1] /\ all <= config.total[2]
                         /\ T = S \/ all = config.total[2]
<1> DEFINE T == InTotal(S, by)
           manual == Cardinality(Manual)
           some == IF Cardinality(S) + manual < config.total[1] THEN {} ELSE S
           above == Cardinality(some) + manual - config.total[2]
           cut1 == Highest(some \cap by, above)
           rest == some \ cut1
           above2 == above - (Cardinality(some) - Cardinality(rest))
           cut2 == Highest(rest, above2)
<1>1. T = rest \ cut2
  BY DEF InTotal
<1>2. manual \in Nat /\ Cardinality(S) \in Nat
  BY PumpSets, TypeFacts
<1>3. config.total[1] \in Nat /\ config.total[2] \in Nat /\ config.total[1] <= config.total[2]
  BY ConfigFacts
<1> HIDE DEF T, manual
<1>4. some \in SUBSET S /\ Cardinality(some) \in Nat /\ IsFiniteSet(some)
  BY PumpSets
<1>5. some # {} => some = S /\ Cardinality(some) + manual >= config.total[1]
  BY <1>2, <1>3
<1> HIDE DEF some
<1>6. above \in Int
  BY <1>2, <1>3, <1>4
<1> HIDE DEF above
<1>7. cut1 \subseteq some \cap by /\ Cardinality(cut1) = Cut(above, Cardinality(some \cap by))
  <2>1. some \cap by \in SUBSET Pumps
    BY <1>4
  <2> QED
    BY <1>6, <2>1, Taking, TypeFacts
<1>8. Cardinality(some \cap by) \in Nat
  BY <1>4, PumpSets
<1> HIDE DEF cut1
<1>9. Cardinality(cut1) \in Nat /\ Cardinality(rest) = Cardinality(some) - Cardinality(cut1)
      /\ rest \in SUBSET Pumps /\ Cardinality(rest) \in Nat /\ IsFiniteSet(rest)
  BY <1>4, <1>7, PumpSets, Removed
<1>10. above2 = above - Cardinality(cut1)
  BY <1>4, <1>6, <1>9
<1> HIDE DEF above2
<1>11. cut2 \subseteq rest /\ Cardinality(cut2) = Cut(above2, Cardinality(rest))
  <2>1. above2 \in Int
    BY <1>6, <1>9, <1>10
  <2> HIDE DEF rest
  <2> QED
    BY <1>9, <2>1, Taking, TypeFacts
<1> HIDE DEF cut2
<1>12. T \subseteq rest /\ Cardinality(T) = Cardinality(rest) - Cardinality(cut2) /\ Cardinality(cut2) \in Nat
       /\ T \in SUBSET Pumps
  <2> HIDE DEF rest
  <2> QED
    BY <1>1, <1>9, <1>11, Removed
<1>13. rest \subseteq some
  OBVIOUS
<1>14. CASE above <= 0
  <2>1. Cardinality(cut1) = 0
    BY <1>7, <1>14 DEF Cut
  <2>2. Cardinality(cut2) = 0
    BY <1>6, <1>10, <1>11, <1>14, <2>1 DEF Cut
  <2>3. cut1 = {} /\ cut2 = {}
    BY <1>4, <1>7, <1>9, <1>11, <2>1, <2>2, PumpSets, FS_EmptySet
  <2>4. T = some
    BY <1>1, <2>3
  <2>5. Cardinality(T) + manual <= config.total[2]
    BY <1>2, <1>3, <1>4, <1>14, <2>4 DEF above
  <2> QED
    BY <1>4, <1>5, <2>4, <2>5 DEF T, manual
<1>15. CASE above > 0
  <2>1. above2 >= 0 /\ above2 \in Int
    BY <1>6, <1>7, <1>8, <1>10, <1>15 DEF Cut
  <2>2. T # {} => Cardinality(T) # 0
    BY <1>12, PumpSets, FS_EmptySet
  <2>3. Cardinality(T) # 0 => Cardinality(cut2) = above2
    BY <1>9, <1>11, <1>12, <2>1 DEF Cut
  <2> HIDE DEF rest
  <2>4. Cardinality(T) # 0 => Cardinality(T) + manual = config.total[2]
    BY <1>2, <1>3, <1>4, <1>6, <1>9, <1>10, <1>12, <2>3 DEF above
  <2>5. Cardinality(T) # 0 => Cardinality(T) + manual >= config.total[1]
                              /\ Cardinality(T) + manual <= config.total[2]
    BY <1>3, <2>4
  <2> QED
    BY <1>4, <1>12, <1>13, <2>2, <2>4, <2>5 DEF T, manual
<1> QED
  BY <1>6, <1>14, <1>15

-----------------------------------------------------------------------------
(* The parts of one run of PumpCtrl.                                        *)
Asks == Shifted(WithFoam(WithDaily(ref)))
Temp == CheckTempStop(Wish(Asks, 1), Cardinality(Manual \cap Group(1)))
One  == GroupDone([pumps |-> Asks, anti |-> {}], 1, Temp)
Two  == GroupDone(One, 2, [call |-> "ignore", pump |-> NoPump])
Result == IF 2 \in Groups THEN InTotal(Apart(Two), Two.anti) ELSE One.pumps

LEMMA PumpCtrlStep ==
  ASSUME RunPumpCtrl
  PROVE  /\ on' = IF interlocked \/ ~startUpTimeout THEN {} ELSE Result
         /\ asked' = asked \ {"pump"}
         /\ foamDrainRef' = (IF foam /\ ref # {} THEN ref ELSE foamDrainRef)
         /\ startGroup' = StartGroup(Result)
         /\ tempStopAllowed' = Temp.allowed /\ pumpInTempStop' = Temp.stopped
         /\ startUpTimeout' = startUpTimeout
  BY DEF RunPumpCtrl, Result, Two, One, Temp, Asks

LEMMA AsksFacts ==
  ASSUME config \in Configs, TypeOK
  PROVE  /\ Asks \subseteq Pumps
         /\ ref = Pumps /\ Groups = {1} => Asks = Pumps
         /\ ref = {} /\ ~foam /\ ~daily => Asks = {}
<1>1. WithDaily(ref) \subseteq Pumps
  <2> DEFINE k == Max({config.total[1], config.min[2]})
  <2>1. k \in Int
    <3>1. config.total[1] \in Int /\ config.min[2] \in Int
      BY ConfigFacts
    <3> QED
      BY <3>1, MaxOfTwo
  <2> HIDE DEF k
  <2>2. Lowest(Pumps, k) \subseteq Pumps
    BY <2>1, Taking, TypeFacts
  <2> QED
    BY <2>2, TypeFacts DEF WithDaily, k
<1>2. WithFoam(WithDaily(ref)) \subseteq Pumps
  BY <1>1, TypeFacts DEF WithFoam
<1>3. Asks \subseteq Pumps
  BY <1>2 DEF Asks, Shifted
<1>4. ref = Pumps /\ Groups = {1} => Asks = Pumps
  <2>1. SUFFICES ASSUME ref = Pumps, Groups = {1} PROVE Asks = Pumps
    OBVIOUS
  <2>2. config.group2 = 0 /\ Pumps # {}
    <3>1. 1 \in Pumps
      BY ConfigFacts DEF Pumps
    <3>2. 2 \notin Groups
      BY <2>1
    <3> QED
      BY <3>1, <3>2 DEF Groups
  <2>3. WithFoam(WithDaily(ref)) = Pumps
    BY <2>1, <2>2 DEF WithFoam, WithDaily
  <2> QED
    BY <2>2, <2>3 DEF Asks, Shifted
<1>5. ref = {} /\ ~foam /\ ~daily => Asks = {}
  BY DEF Asks, Shifted, WithFoam, WithDaily
<1> QED
  BY <1>3, <1>4, <1>5

LEMMA TempFacts ==
  ASSUME config \in Configs, NEW wish, NEW manual
  PROVE  LET temp == CheckTempStop(wish, manual)
         IN /\ temp.call = "resume" => wish = 1 /\ temp.pump \in ready /\ temp.pump = pumpInTempStop
            /\ high \/ wish = 0 => temp.call = "ignore"
            /\ temp.allowed \in BOOLEAN
            /\ temp.stopped \in {NoPump, pumpInTempStop} \cup Pumps
<1> DEFINE invalid == wish > 1 \/ manual > 0 \/ high
           allowed == ~invalid /\ (wish = 0 \/ tempStopAllowed)
           pump    == IF invalid THEN NoPump ELSE pumpInTempStop
           Answer(call, stopped, p) ==
             [call |-> call, allowed |-> allowed, stopped |-> stopped, pump |-> p]
           temp == CheckTempStop(wish, manual)
           resume == allowed /\ wish = 1 /\ tempStop = Resume
           stop == allowed /\ wish = 1 /\ tempStop \in Pumps \cap ready
<1>1. temp = CASE stop -> Answer("stop", tempStop, tempStop)
               [] resume /\ pump \in ready -> Answer("resume", NoPump, pump)
               [] resume /\ pump \notin ready -> Answer("ignore", NoPump, NoPump)
               [] OTHER -> Answer("ignore", pump, NoPump)
  BY DEF CheckTempStop
<1>2. allowed \in BOOLEAN /\ (allowed => ~high /\ pump = pumpInTempStop)
  OBVIOUS
<1>3. ~(stop /\ resume)
  BY ConfigFacts DEF Resume, Pumps
<1>4. pump \in {NoPump, pumpInTempStop}
  OBVIOUS
<1> HIDE DEF pump, allowed
<1>5. \/ stop /\ temp = Answer("stop", tempStop, tempStop)
      \/ ~stop /\ resume /\ pump \in ready /\ temp = Answer("resume", NoPump, pump)
      \/ ~stop /\ resume /\ pump \notin ready /\ temp = Answer("ignore", NoPump, NoPump)
      \/ ~stop /\ ~resume /\ temp = Answer("ignore", pump, NoPump)
  BY <1>1, <1>3
<1> HIDE DEF temp
<1> QED
  BY <1>2, <1>4, <1>5 DEF temp

(* What the limits say of a choice.                                         *)
Limited(S) ==
  LET all == Cardinality(S) + Cardinality(Manual)
  IN /\ S \subseteq ready
     /\ \A g \in Groups : S \cap Group(g) # {} =>
          LET some == Cardinality(S \cap Group(g)) + Cardinality(Manual \cap Group(g))
          IN /\ some <= config.max[g]
             /\ some >= config.min[g] \/ (2 \in Groups /\ all = config.total[2])
     /\ 2 \in Groups /\ S # {} => all >= config.total[1] /\ all <= config.total[2]
     /\ 2 \in Groups /\ ~config.together =>
          \/ S \cap Group(1) = {}
          \/ (S \cup Manual) \cap Group(2) = {}

(* The pumps after the turns of both groups.                                *)
LEMMA OneFits ==
  ASSUME config \in Configs, TypeOK
  PROVE  LET some == Cardinality(One.pumps \cap Group(1)) + Cardinality(Manual \cap Group(1))
         IN /\ One.pumps \subseteq Pumps /\ One.pumps \cap Group(1) \subseteq ready
            /\ One.pumps \cap Group(1) # {} => some >= config.min[1] /\ some <= config.max[1]
            /\ One.anti \subseteq anti \cap ready
            /\ ref = {} /\ ~foam /\ ~daily => One.pumps \subseteq anti \cap Group(1)
<1> DEFINE r == [pumps |-> Asks, anti |-> {}]
<1>1. Asks \in SUBSET Pumps /\ 1 \in 1 .. 2
  BY AsksFacts
<1>2. Temp.call = "resume" => Temp.pump \in ready /\ Wish(Asks, 1) = 1
  BY TempFacts DEF Temp
<1>3. r.pumps = Asks /\ r.anti = {} /\ One = GroupDone(r, 1, Temp)
  BY DEF One
<1> HIDE DEF r
<1>4. LET some == Cardinality(One.pumps \cap Group(1)) + Cardinality(Manual \cap Group(1))
      IN /\ One.pumps \subseteq Pumps /\ One.pumps \cap Group(1) \subseteq ready
         /\ One.pumps \cap Group(1) # {} => some >= config.min[1] /\ some <= config.max[1]
         /\ One.anti \subseteq r.anti \cup (anti \cap ready)
         /\ Temp.call = "ignore" => One.pumps \ Group(1) = r.pumps \ Group(1)
         /\ Temp.call = "ignore" /\ r.pumps \cap Group(1) = {} => One.pumps \subseteq r.pumps \cup anti
  BY <1>1, <1>2, <1>3, TurnFits
<1>5. ref = {} /\ ~foam /\ ~daily => One.pumps \subseteq anti \cap Group(1)
  <2>1. SUFFICES ASSUME ref = {}, ~foam, ~daily PROVE One.pumps \subseteq anti \cap Group(1)
    OBVIOUS
  <2>2. Asks = {}
    BY <2>1, AsksFacts
  <2>3. Wish(Asks, 1) = 0
    <3>1. Cardinality(Asks \cap Group(1)) = 0 /\ Cardinality(Asks \cap Group(1) \cap ready) = 0
      BY <2>2, FS_EmptySet
    <3>2. config.max[1] \in Nat /\ Cardinality(Manual \cap Group(1)) \in Nat
      BY ConfigFacts, PumpSets, TypeFacts
    <3>3. /\ config.alternate[1] =>
              LET room == config.max[1] - Cardinality(Manual \cap Group(1))
                  some == Cardinality(Asks \cap Group(1))
              IN Wish(Asks, 1) = IF some <= room THEN some ELSE IF room >= 0 THEN room ELSE 0
          /\ ~config.alternate[1] => Wish(Asks, 1) = Cardinality(Asks \cap Group(1) \cap ready)
      BY <1>1, WishFacts
    <3> QED
      BY <3>1, <3>2, <3>3
  <2>4. Temp.call = "ignore"
    BY <2>3, TempFacts DEF Temp
  <2> QED
    BY <1>3, <1>4, <2>2, <2>4
<1> QED
  BY <1>3, <1>4, <1>5

LEMMA TwoFits ==
  ASSUME config \in Configs, TypeOK
  PROVE  LET some == Cardinality(Two.pumps \cap Group(2)) + Cardinality(Manual \cap Group(2))
         IN /\ Two.pumps \subseteq Pumps /\ Two.pumps \cap Group(2) \subseteq ready
            /\ Two.pumps \cap Group(2) # {} => some >= config.min[2] /\ some <= config.max[2]
            /\ Two.pumps \cap Group(1) = One.pumps \cap Group(1)
            /\ Two.anti \subseteq anti \cap ready
            /\ ref = {} /\ ~foam /\ ~daily => Two.pumps \subseteq anti
<1> DEFINE temp == [call |-> "ignore", pump |-> NoPump]
<1>1. One.pumps \subseteq Pumps /\ One.anti \subseteq anti \cap ready
      /\ 2 \in 1 .. 2
  BY OneFits
<1>2. temp.call = "ignore" /\ Two = GroupDone(One, 2, temp)
  BY DEF Two
<1> HIDE DEF temp
<1>3. LET some == Cardinality(Two.pumps \cap Group(2)) + Cardinality(Manual \cap Group(2))
      IN /\ Two.pumps \subseteq Pumps /\ Two.pumps \cap Group(2) \subseteq ready
         /\ Two.pumps \cap Group(2) # {} => some >= config.min[2] /\ some <= config.max[2]
         /\ Two.pumps \ Group(2) = One.pumps \ Group(2)
         /\ One.pumps \cap Group(2) = {} => Two.pumps \subseteq One.pumps \cup anti
         /\ Two.anti \subseteq One.anti \cup (anti \cap ready)
  BY <1>1, <1>2, TurnFits
<1>4. Two.pumps \cap Group(1) = One.pumps \cap Group(1)
  BY <1>1, <1>3, GroupSets
<1>5. ref = {} /\ ~foam /\ ~daily => Two.pumps \subseteq anti
  <2>1. ref = {} /\ ~foam /\ ~daily => One.pumps \subseteq anti \cap Group(1)
    BY OneFits
  <2> QED
    BY <1>3, <2>1, GroupSets
<1> QED
  BY <1>1, <1>3, <1>4, <1>5

(* What Apart leaves: of each group all or nothing.                         *)
LEMMA ApartFits ==
  ASSUME config \in Configs, TypeOK, NEW r, r.pumps \subseteq Pumps, r.anti \cap Manual = {}
  PROVE  LET S == Apart(r)
         IN /\ S \subseteq r.pumps
            /\ \A g \in 1 .. 2 : S \cap Group(g) \in {{}, r.pumps \cap Group(g)}
            /\ ~config.together => S \cap Group(1) = {} \/ (S \cup Manual) \cap Group(2) = {}
<1> DEFINE S == Apart(r)
           free == \E g \in 1 .. 2 : (r.pumps \cup Manual) \cap Group(g) = {}
<1>1. Group(1) \cap Group(2) = {}
  BY GroupSets
<1>2. CASE config.together \/ free
  <2>1. S = r.pumps
    BY <1>2 DEF Apart
  <2>2. free => (r.pumps \cup Manual) \cap Group(1) = {} \/ (r.pumps \cup Manual) \cap Group(2) = {}
    OBVIOUS
  <2>3. ~config.together => S \cap Group(1) = {} \/ (S \cup Manual) \cap Group(2) = {}
    BY <1>2, <2>1, <2>2
  <2> QED
    BY <2>1, <2>3
<1>3. CASE ~(config.together \/ free) /\ (r.pumps \cup Manual) \cap Group(2) \subseteq r.anti
  <2>1. S = r.pumps \ Group(2)
    BY <1>3 DEF Apart
  <2>2. (S \cup Manual) \cap Group(2) = {}
    BY <1>3, <2>1
  <2>3. \A g \in 1 .. 2 : S \cap Group(g) \in {{}, r.pumps \cap Group(g)}
    BY <1>1, <2>1
  <2> QED
    BY <2>1, <2>2, <2>3
<1>4. CASE ~(config.together \/ free) /\ ~((r.pumps \cup Manual) \cap Group(2) \subseteq r.anti)
  <2>1. S = r.pumps \ Group(1)
    BY <1>4 DEF Apart
  <2>2. \A g \in 1 .. 2 : S \cap Group(g) \in {{}, r.pumps \cap Group(g)}
    BY <1>1, <2>1
  <2> QED
    BY <2>1, <2>2
<1> QED
  BY <1>2, <1>3, <1>4

(* What PumpCtrl chooses keeps to the limits, and in a dry pit it chooses   *)
(* only what is anti-seizing.                                               *)
LEMMA ResultFits ==
  ASSUME config \in Configs, TypeOK
  PROVE  /\ Result \subseteq Pumps /\ Limited(Result)
         /\ ref = {} /\ ~foam /\ ~daily => Result \subseteq anti
<1>1. CASE 2 \notin Groups
  <2>1. Result = One.pumps /\ Groups = {1} /\ Group(1) = Pumps
    BY <1>1, GroupSets DEF Result
  <2>2. /\ One.pumps \subseteq Pumps /\ One.pumps \cap Group(1) \subseteq ready
        /\ One.pumps \cap Group(1) # {} =>
              LET some == Cardinality(One.pumps \cap Group(1)) + Cardinality(Manual \cap Group(1))
              IN some >= config.min[1] /\ some <= config.max[1]
        /\ ref = {} /\ ~foam /\ ~daily => One.pumps \subseteq anti
    BY OneFits
  <2>3. Result \subseteq ready
    BY <2>1, <2>2
  <2>4. ASSUME NEW g \in Groups, Result \cap Group(g) # {}
        PROVE  LET some == Cardinality(Result \cap Group(g)) + Cardinality(Manual \cap Group(g))
               IN some >= config.min[g] /\ some <= config.max[g]
    BY <2>1, <2>2, <2>4
  <2>5. Limited(Result)
    BY <1>1, <2>3, <2>4 DEF Limited
  <2> QED
    BY <2>1, <2>2, <2>5
<1>2. CASE 2 \in Groups
  <2> DEFINE S == Apart(Two)
             all == Cardinality(Result) + Cardinality(Manual)
             In(P, g) == LET some == Cardinality(P \cap Group(g)) + Cardinality(Manual \cap Group(g))
                         IN some >= config.min[g] /\ some <= config.max[g]
  <2>1. Result = InTotal(S, Two.anti) /\ Groups = {1, 2} /\ Group(1) \cup Group(2) = Pumps
    BY <1>2, GroupSets DEF Result
  <2>2. /\ Two.pumps \subseteq Pumps
        /\ Two.pumps \cap Group(1) \subseteq ready /\ Two.pumps \cap Group(2) \subseteq ready
        /\ Two.pumps \cap Group(1) # {} => In(Two.pumps, 1)
        /\ Two.pumps \cap Group(2) # {} => In(Two.pumps, 2)
        /\ Two.anti \subseteq ready
        /\ ref = {} /\ ~foam /\ ~daily => Two.pumps \subseteq anti
    <3>1. Two.pumps \cap Group(1) = One.pumps \cap Group(1)
      BY TwoFits
    <3>2. One.pumps \cap Group(1) \subseteq ready /\ (One.pumps \cap Group(1) # {} => In(One.pumps, 1))
      BY OneFits
    <3> QED
      BY <3>1, <3>2, TwoFits
  <2>3. Two.anti \cap Manual = {}
    BY <2>2, TypeFacts
  <2>4. /\ S \subseteq Two.pumps
        /\ \A g \in 1 .. 2 : S \cap Group(g) \in {{}, Two.pumps \cap Group(g)}
        /\ ~config.together => S \cap Group(1) = {} \/ (S \cup Manual) \cap Group(2) = {}
    BY <2>2, <2>3, ApartFits
  <2>5. S \in SUBSET Pumps
    BY <2>2, <2>4
  <2> HIDE DEF S
  <2>6. /\ Result \subseteq S
        /\ Result # {} => /\ all >= config.total[1] /\ all <= config.total[2]
                          /\ Result = S \/ all = config.total[2]
    BY <2>1, <2>5, TotalFits
  <2>7. Result \subseteq Pumps /\ Result \subseteq ready
    BY <2>1, <2>2, <2>4, <2>6
  <2>8. \A g \in 1 .. 2 : S \cap Group(g) # {} => In(S, g)
    <3>1. SUFFICES ASSUME NEW g \in 1 .. 2, S \cap Group(g) # {} PROVE In(S, g)
      OBVIOUS
    <3>2. S \cap Group(g) = Two.pumps \cap Group(g)
      BY <2>4, <3>1
    <3>3. In(Two.pumps, g)
      <4>1. Two.pumps \cap Group(g) # {} /\ (g = 1 \/ g = 2)
        BY <3>1, <3>2
      <4> HIDE DEF In
      <4> QED
        BY <2>2, <4>1
    <3> QED
      BY <3>2, <3>3
  <2>9. ASSUME NEW g \in 1 .. 2, Result \cap Group(g) # {}
        PROVE  LET some == Cardinality(Result \cap Group(g)) + Cardinality(Manual \cap Group(g))
               IN some <= config.max[g] /\ (some >= config.min[g] \/ all = config.total[2])
    <3>1. S \cap Group(g) # {} /\ Result # {}
      BY <2>6, <2>9
    <3>2. In(S, g)
      BY <2>8, <3>1
    <3>3. Cardinality(Result \cap Group(g)) <= Cardinality(S \cap Group(g))
      <4>1. IsFiniteSet(S \cap Group(g)) /\ Result \cap Group(g) \in SUBSET (S \cap Group(g))
        BY <2>5, <2>6, PumpSets
      <4> QED
        BY <4>1, FS_Subset
    <3>4. /\ Cardinality(Result \cap Group(g)) \in Nat /\ Cardinality(S \cap Group(g)) \in Nat
          /\ Cardinality(Manual \cap Group(g)) \in Nat /\ config.max[g] \in Nat
      BY <2>5, <2>7, PumpSets, TypeFacts, ConfigFacts
    <3>5. Cardinality(Result \cap Group(g)) + Cardinality(Manual \cap Group(g)) <= config.max[g]
      BY <3>2, <3>3, <3>4
    <3> QED
      BY <2>6, <3>1, <3>2, <3>5
  <2>10. ~config.together => Result \cap Group(1) = {} \/ (Result \cup Manual) \cap Group(2) = {}
    BY <2>4, <2>6
  <2>11. Limited(Result)
    BY <1>2, <2>1, <2>6, <2>7, <2>9, <2>10 DEF Limited
  <2> QED
    BY <2>2, <2>4, <2>6, <2>7, <2>11
<1> QED
  BY <1>1, <1>2

(* At high level, in a pit of one group, as many as may.                    *)
Most == Min({config.max[1] - Cardinality(Manual), Cardinality(ready)})

LEMMA MostFacts ==
  ASSUME config \in Configs, TypeOK
  PROVE  LET room == config.max[1] - Cardinality(Manual)
         IN /\ Cardinality(Manual) \in Nat /\ Cardinality(ready) \in Nat /\ room \in Int
            /\ config.max[1] \in Nat /\ config.max[1] <= Cardinality(Pumps) /\ Cardinality(Pumps) \in Nat
            /\ Most = IF room <= Cardinality(ready) THEN room ELSE Cardinality(ready)
<1>1. /\ Cardinality(Manual) \in Nat /\ Cardinality(ready) \in Nat /\ Cardinality(Pumps) \in Nat
      /\ config.max[1] \in Nat /\ config.max[1] <= Cardinality(Pumps)
  BY PumpSets, TypeFacts, ConfigFacts
<1>2. config.max[1] - Cardinality(Manual) \in Int
  BY <1>1
<1> QED
  BY <1>1, <1>2, MinOfTwo DEF Most

LEMMA ChoiceAtHighLevel ==
  ASSUME config \in Configs, TypeOK, Groups = {1}, NEW temp, temp.call = "ignore"
  PROVE  LET C == Choice(Pumps, 1, temp)
         IN C \subseteq ready /\ Cardinality(C) = IF Most >= 0 THEN Most ELSE 0
<1> DEFINE C == Choice(Pumps, 1, temp)
           room == config.max[1] - Cardinality(Manual)
           n == Cardinality(ready)
<1>1. /\ Group(1) = Pumps /\ Pumps \cap Group(1) = Pumps /\ Manual \cap Group(1) = Manual
      /\ ready \cap Group(1) = ready /\ Pumps \cap Group(1) \cap ready = ready
      /\ 1 \in 1 .. 2 /\ Pumps \in SUBSET Pumps
  BY GroupSets, TypeFacts
<1>2. /\ Cardinality(Manual) \in Nat /\ n \in Nat /\ room \in Int
      /\ config.max[1] <= Cardinality(Pumps) /\ config.max[1] \in Nat /\ Cardinality(Pumps) \in Nat
      /\ Most = IF room <= n THEN room ELSE n
  BY MostFacts
<1>3. C \subseteq ready
  <2>1. C \subseteq Pumps /\ C \cap Group(1) \subseteq ready
    BY <1>1, ChoiceFits
  <2> QED
    BY <1>1, <2>1
<1>4. CASE config.alternate[1]
  <2>1. Wish(Pumps, 1) = IF room >= 0 THEN room ELSE 0
    <3>1. Wish(Pumps, 1) = IF Cardinality(Pumps) <= room THEN Cardinality(Pumps)
                           ELSE IF room >= 0 THEN room ELSE 0
      BY <1>1, <1>4, WishFacts
    <3> QED
      BY <1>2, <3>1
  <2>2. PICK goOn \in SUBSET ready, fill \in SUBSET ready :
          /\ C = goOn \cup fill /\ goOn \cap fill = {}
          /\ Cardinality(goOn) + Cardinality(fill) = Cut(Wish(Pumps, 1), n)
    <3>1. \E goOn, fill \in SUBSET ready :
            /\ Alternated(Pumps, 1, temp) = {} \cup goOn \cup fill
            /\ goOn \cap fill = {}
            /\ {} \cap ready = {} => Cardinality(goOn) + Cardinality(fill) = Cut(Wish(Pumps, 1), n)
      <4>1. GoOnAndFill(Pumps, 1, temp)
        BY <1>1, AlternatedParts
      <4>2. (Pumps \ Group(1)) \cup (IF temp.call = "resume" THEN {temp.pump} ELSE {}) = {}
        BY <1>1
      <4>3. ready \cap Group(1) = ready
        BY <1>1
      <4> QED
        BY <4>1, <4>2, <4>3 DEF GoOnAndFill
    <3>2. C = Alternated(Pumps, 1, temp)
      BY <1>4 DEF Choice
    <3> HIDE DEF C, n
    <3> QED
      BY <3>1, <3>2
  <2>3. Cardinality(C) = Cardinality(goOn) + Cardinality(fill)
    <3>1. IsFiniteSet(goOn) /\ IsFiniteSet(fill)
      BY <2>2, PumpSets, TypeFacts
    <3> HIDE DEF C
    <3> QED
      BY <2>2, <3>1, Joined
  <2> HIDE DEF C, n, room
  <2>4. Cardinality(C) = IF Most >= 0 THEN Most ELSE 0
    BY <1>2, <2>1, <2>2, <2>3 DEF Cut
  <2> QED
    BY <1>3, <2>4 DEF C
<1>5. CASE ~config.alternate[1]
  <2>1. Wish(Pumps, 1) = n
    BY <1>1, <1>5, WishFacts
  <2>2. (Pumps \ (Group(1) \ ready)) \ (IF temp.call = "stop" THEN {temp.pump} ELSE {}) = ready
    BY <1>1, TypeFacts
  <2>3. C = Reduced(Pumps, 1, temp)
    BY <1>5 DEF Choice
  <2>4. Cardinality(C \cap Group(1)) = n - Cut(n + Cardinality(Manual) - config.max[1], n)
    <3>1. LET rest   == (Pumps \ (Group(1) \ ready)) \ (IF temp.call = "stop" THEN {temp.pump} ELSE {})
              manual == Cardinality(Manual \cap Group(1))
              above  == Wish(Pumps, 1) + manual - config.max[1]
          IN Cardinality(Reduced(Pumps, 1, temp) \cap Group(1))
               = Cardinality(rest \cap Group(1)) - Cut(above, Cardinality(rest \cap Group(1)))
      BY <1>1, <1>5, ReducedParts
    <3> QED
      BY <1>1, <2>1, <2>2, <2>3, <3>1
  <2>5. C \cap Group(1) = C
    BY <1>1, <1>3, TypeFacts
  <2> HIDE DEF C, n
  <2>6. n + Cardinality(Manual) - config.max[1] = n - room
    BY <1>2
  <2>7. Cardinality(C) = n - Cut(n - room, n)
    BY <2>4, <2>5, <2>6
  <2> HIDE DEF room
  <2>8. Cardinality(C) = IF Most >= 0 THEN Most ELSE 0
    BY <1>2, <2>7 DEF Cut
  <2> QED
    BY <1>3, <2>8 DEF C
<1> QED
  BY <1>4, <1>5

LEMMA ResultAtHighLevel ==
  ASSUME config \in Configs, TypeOK, Groups = {1}, high, ref = Pumps
  PROVE  \/ Cardinality(Result) = Most
         \/ Most <= 0 /\ Result = {}
         \/ Most + Cardinality(Manual) < config.min[1] /\ Result = {}
<1> DEFINE chosen == Choice(Pumps, 1, Temp)
           A == AntiSeizing(chosen, 1)
           all == chosen \cup A
           running == Cardinality(chosen \cap Group(1)) + Cardinality(Manual \cap Group(1))
<1>1. /\ Group(1) = Pumps /\ Manual \cap Group(1) = Manual
      /\ 1 \in 1 .. 2 /\ Pumps \in SUBSET Pumps /\ ready \subseteq Pumps
  BY GroupSets, TypeFacts
<1>2. Asks = Pumps /\ Temp.call = "ignore"
  BY AsksFacts, TempFacts DEF Temp
<1>3. chosen \subseteq ready /\ Cardinality(chosen) = IF Most >= 0 THEN Most ELSE 0
  BY <1>2, ChoiceAtHighLevel
<1>4. Result = IF Cardinality(all \cap Group(1)) + Cardinality(Manual \cap Group(1)) >= config.min[1]
               THEN all ELSE all \ Group(1)
  <2>1. Result = One.pumps
    BY DEF Result
  <2> QED
    BY <1>2, <2>1 DEF One, GroupDone, Choice
<1> HIDE DEF chosen
<1>5. chosen \subseteq Pumps /\ chosen \cap Group(1) = chosen
  BY <1>1, <1>3
<1>6. LET room == config.max[1] - Cardinality(Manual)
      IN /\ Cardinality(Manual) \in Nat /\ Cardinality(ready) \in Nat /\ room \in Int
         /\ config.max[1] \in Nat
         /\ Most = IF room <= Cardinality(ready) THEN room ELSE Cardinality(ready)
  BY MostFacts
<1>7. A = {}
  <2>1. A \subseteq (anti \cap Group(1) \cap ready) \ chosen
        /\ (running >= config.max[1] => A = {})
    BY <1>1, <1>5, AntiSeizingFits
  <2>2. running = Cardinality(chosen) + Cardinality(Manual)
    BY <1>1, <1>5
  <2>3. ~(running >= config.max[1]) => Cardinality(chosen) = Cardinality(ready)
    BY <1>3, <1>6, <2>2
  <2>4. IsFiniteSet(ready)
    BY <1>1, PumpSets
  <2>5. ~(running >= config.max[1]) => chosen = ready
    BY <1>3, <2>3, <2>4, FS_Subset
  <2> QED
    BY <2>1, <2>5
<1> HIDE DEF A
<1>8. all \cap Group(1) = chosen /\ all = chosen /\ all \ Group(1) = {}
  BY <1>1, <1>5, <1>7
<1>9. Result = IF Cardinality(chosen) + Cardinality(Manual) >= config.min[1] THEN chosen ELSE {}
  BY <1>1, <1>4, <1>8
<1>10. Most < 0 => chosen = {}
  <2>1. SUFFICES ASSUME Most < 0 PROVE chosen = {}
    OBVIOUS
  <2>2. Cardinality(chosen) = 0
    BY <1>3, <1>6, <2>1
  <2> QED
    BY <1>5, <2>2, PumpSets, FS_EmptySet
<1>11. Most \in Int /\ config.min[1] \in Nat
  BY <1>6, ConfigFacts
<1>12. CASE Most < 0
  BY <1>9, <1>10, <1>11, <1>12
<1>13. CASE ~(Most < 0)
  <2>1. Cardinality(chosen) = Most
    BY <1>3, <1>11, <1>13
  <2> QED
    BY <1>6, <1>9, <1>11, <2>1
<1> QED
  BY <1>12, <1>13

(* Alternation: a pump that does not run yet is chosen only when all that   *)
(* run and are ready go on.                                                 *)
LEMMA TurnIsKept ==
  ASSUME config \in Configs, TypeOK, NEW r, r.pumps \subseteq Pumps, NEW g \in 1 .. 2, NEW temp,
         temp.call = "resume" => temp.pump \in ready /\ Wish(r.pumps, g) = 1,
         config.alternate[g],
         NEW p \in started \cap ready \cap Group(g),
         NEW q \in Group(g), q \notin started \cup anti, temp.call = "resume" => q # temp.pump,
         q \in GroupDone(r, g, temp).pumps
  PROVE  p \in GroupDone(r, g, temp).pumps
<1> DEFINE chosen == Alternated(r.pumps, g, temp)
           A == AntiSeizing(chosen, g)
           all == chosen \cup A
           enough == Cardinality(all \cap Group(g)) + Cardinality(Manual \cap Group(g)) >= config.min[g]
<1>1. GroupDone(r, g, temp).pumps = IF enough THEN all ELSE all \ Group(g)
  BY DEF GroupDone
<1>2. GoOnAndFill(r.pumps, g, temp)
  BY AlternatedParts
<1>3. PICK goOn \in SUBSET (ready \cap Group(g)), fill \in SUBSET (ready \cap Group(g)) :
        /\ chosen = (r.pumps \ Group(g)) \cup (IF temp.call = "resume" THEN {temp.pump} ELSE {})
                    \cup goOn \cup fill
        /\ goOn \subseteq started
        /\ fill # {} => goOn = (ready \cap Group(g)) \cap started
  BY <1>2 DEF GoOnAndFill
<1>4. A \subseteq anti
  <2>1. Choice(r.pumps, g, temp) \subseteq Pumps
    BY ChoiceFits
  <2>2. chosen \in SUBSET Pumps
    BY <2>1 DEF Choice
  <2> HIDE DEF chosen
  <2> QED
    BY <2>2, AntiSeizingFits
<1> HIDE DEF chosen, A, enough
<1>5. enough /\ q \in chosen
  BY <1>1, <1>4
<1>6. q \in fill
  BY <1>3, <1>5
<1>7. p \in goOn
  BY <1>3, <1>6
<1> QED
  BY <1>1, <1>3, <1>5, <1>7

LEMMA ResultKeepsTurn ==
  ASSUME config \in Configs, TypeOK, NEW g \in Groups, config.alternate[g],
         NEW p \in started \cap ready \cap Group(g),
         NEW q \in Result \cap Group(g), q \notin started \cup anti, q # pumpInTempStop
  PROVE  p \in Result \/ (2 \in Groups /\ Cardinality(Result) + Cardinality(Manual) = config.total[2])
<1> DEFINE r == [pumps |-> Asks, anti |-> {}]
           temp == [call |-> "ignore", pump |-> NoPump]
<1>1. r.pumps = Asks /\ r.pumps \subseteq Pumps /\ One = GroupDone(r, 1, Temp)
  BY AsksFacts DEF One
<1>2. Temp.call = "resume" => /\ Temp.pump \in ready /\ Wish(Asks, 1) = 1
                              /\ Temp.pump = pumpInTempStop
  BY TempFacts DEF Temp
<1>3. One.pumps \subseteq Pumps /\ temp.call = "ignore" /\ Two = GroupDone(One, 2, temp)
      /\ 1 \in 1 .. 2 /\ 2 \in 1 .. 2
  BY OneFits DEF Two
<1> HIDE DEF r, temp
<1>4. g = 1 /\ q \in One.pumps => p \in One.pumps
  <2>1. SUFFICES ASSUME g = 1, q \in One.pumps PROVE p \in One.pumps
    OBVIOUS
  <2>2. /\ p \in started \cap ready \cap Group(1) /\ q \in Group(1) /\ config.alternate[1]
        /\ Temp.call = "resume" => q # Temp.pump
    BY <1>2, <2>1
  <2>3. Temp.call = "resume" => Temp.pump \in ready /\ Wish(r.pumps, 1) = 1
    BY <1>1, <1>2
  <2> QED
    BY <1>1, <1>3, <2>1, <2>2, <2>3, TurnIsKept
<1>5. g = 2 /\ q \in Two.pumps => p \in Two.pumps
  <2>1. SUFFICES ASSUME g = 2, q \in Two.pumps PROVE p \in Two.pumps
    OBVIOUS
  <2>2. p \in started \cap ready \cap Group(2) /\ q \in Group(2) /\ config.alternate[2]
    BY <2>1
  <2>3. temp.call # "resume"
    BY <1>3
  <2> QED
    BY <1>3, <2>1, <2>2, <2>3, TurnIsKept
<1>6. CASE 2 \notin Groups
  BY <1>4, <1>6, GroupSets DEF Result
<1>7. CASE 2 \in Groups
  <2> DEFINE S == Apart(Two)
             all == Cardinality(Result) + Cardinality(Manual)
  <2>1. Result = InTotal(S, Two.anti) /\ g \in 1 .. 2
    BY <1>7, GroupSets DEF Result
  <2>2. Two.pumps \subseteq Pumps /\ Two.pumps \cap Group(1) = One.pumps \cap Group(1)
        /\ Two.anti \subseteq ready
    BY TwoFits
  <2>3. Two.anti \cap Manual = {}
    BY <2>2, TypeFacts
  <2>4. S \subseteq Two.pumps /\ S \cap Group(g) \in {{}, Two.pumps \cap Group(g)}
    BY <2>1, <2>2, <2>3, ApartFits
  <2>5. S \in SUBSET Pumps
    BY <2>2, <2>4
  <2> HIDE DEF S
  <2>6. Result \subseteq S /\ (Result = S \/ all = config.total[2])
    <3>1. Result \subseteq S /\ (Result # {} => Result = S \/ all = config.total[2])
      BY <2>1, <2>5, TotalFits
    <3> QED
      BY <3>1
  <2>7. q \in Two.pumps /\ q \in S
    BY <2>4, <2>6
  <2>8. p \in Two.pumps
    <3>1. CASE g = 1
      BY <1>4, <2>2, <2>7, <3>1
    <3>2. CASE g = 2
      BY <1>5, <2>7, <3>2
    <3> QED
      BY <2>1, <3>1, <3>2
  <2>9. p \in S
    BY <2>4, <2>7, <2>8
  <2> QED
    BY <1>7, <2>6, <2>9
<1> QED
  BY <1>6, <1>7

-----------------------------------------------------------------------------
(* Types.  The places of the pumps stay an order: no two share one.         *)
LEMMA PlacesStay ==
  ASSUME config \in Configs, TypeOK, NEW p \in Pumps
  PROVE  /\ RunsLast(p) \in [Pumps -> Pumps]
         /\ \A q, r \in Pumps : RunsLast(p)[q] = RunsLast(p)[r] => q = r
<1>1. /\ config.pumps \in Nat /\ Pumps = 1 .. config.pumps
      /\ byTime \in [Pumps -> Pumps] /\ \A q, r \in Pumps : byTime[q] = byTime[r] => q = r
  BY ConfigFacts, TypeFacts DEF Pumps
<1>2. \A q \in Pumps : /\ byTime[q] \in 1 .. config.pumps
                        /\ RunsLast(p)[q] = IF q = p THEN config.pumps
                                            ELSE IF byTime[q] > byTime[p] THEN byTime[q] - 1
                                            ELSE byTime[q]
  <2>1. \A q \in Pumps : byTime[q] > byTime[p] => q # p
    BY <1>1
  <2> QED
    BY <1>1, <2>1 DEF RunsLast
<1>3. ASSUME NEW q \in Pumps PROVE RunsLast(p)[q] \in 1 .. config.pumps
  <2>1. byTime[p] \in 1 .. config.pumps /\ byTime[q] \in 1 .. config.pumps
    BY <1>2
  <2>2. RunsLast(p)[q] = IF q = p THEN config.pumps
                         ELSE IF byTime[q] > byTime[p] THEN byTime[q] - 1 ELSE byTime[q]
    BY <1>2
  <2>3. 1 <= config.pumps /\ config.pumps \in Nat
    BY <1>1
  <2> HIDE DEF RunsLast
  <2> QED
    BY <2>1, <2>2, <2>3
<1>4. RunsLast(p) \in [Pumps -> Pumps]
  BY <1>1, <1>3 DEF RunsLast
<1>5. ASSUME NEW q \in Pumps, NEW r \in Pumps, RunsLast(p)[q] = RunsLast(p)[r] PROVE q = r
  <2>1. byTime[q] = byTime[r] => q = r
    BY <1>1
  <2>2. byTime[q] = byTime[p] => q = p
    BY <1>1
  <2>3. byTime[r] = byTime[p] => r = p
    BY <1>1
  <2>4. /\ byTime[p] \in 1 .. config.pumps /\ byTime[q] \in 1 .. config.pumps
        /\ byTime[r] \in 1 .. config.pumps /\ config.pumps \in Nat
    BY <1>1, <1>2
  <2>5. /\ RunsLast(p)[q] = IF q = p THEN config.pumps
                            ELSE IF byTime[q] > byTime[p] THEN byTime[q] - 1 ELSE byTime[q]
        /\ RunsLast(p)[r] = IF r = p THEN config.pumps
                            ELSE IF byTime[r] > byTime[p] THEN byTime[r] - 1 ELSE byTime[r]
    BY <1>2
  <2> DEFINE n == config.pumps  a == byTime[p]  b == byTime[q]  c == byTime[r]
             x == RunsLast(p)[q]  y == RunsLast(p)[r]
  <2>6. /\ n \in Nat /\ a \in 1 .. n /\ b \in 1 .. n /\ c \in 1 .. n /\ x = y
        /\ x = IF q = p THEN n ELSE IF b > a THEN b - 1 ELSE b
        /\ y = IF r = p THEN n ELSE IF c > a THEN c - 1 ELSE c
    BY <1>5, <2>4, <2>5
  <2> HIDE DEF n, a, b, c, x, y
  <2>7. (q = p <=> r = p) /\ (q # p /\ r # p => b = c)
    <3>1. b = a => q = p
      BY <2>2 DEF a, b
    <3>2. c = a => r = p
      BY <2>3 DEF a, c
    <3>3. n \in Int /\ a \in Int /\ b \in Int /\ c \in Int /\ a <= n /\ b <= n /\ c <= n
      BY <2>6
    <3>4. CASE q = p /\ r # p
      <4>1. x = n /\ c # a /\ y = IF c > a THEN c - 1 ELSE c
        BY <2>6, <3>2, <3>4
      <4>2. y # n
        BY <3>3, <4>1
      <4> QED
        BY <2>6, <4>1, <4>2
    <3>5. CASE q # p /\ r = p
      <4>1. y = n /\ b # a /\ x = IF b > a THEN b - 1 ELSE b
        BY <2>6, <3>1, <3>5
      <4>2. x # n
        BY <3>3, <4>1
      <4> QED
        BY <2>6, <4>1, <4>2
    <3>6. CASE q # p /\ r # p
      <4>1. /\ b # a /\ x = IF b > a THEN b - 1 ELSE b
            /\ c # a /\ y = IF c > a THEN c - 1 ELSE c
        BY <2>6, <3>1, <3>2, <3>6
      <4>2. (IF b > a THEN b - 1 ELSE b) = (IF c > a THEN c - 1 ELSE c)
        BY <2>6, <4>1
      <4>3. b = c
        BY <3>3, <4>1, <4>2
      <4> QED
        BY <3>6, <4>3
    <3> QED
      BY <3>4, <3>5, <3>6
  <2> QED
    BY <2>1, <2>7 DEF b, c
<1> QED
  BY <1>4, <1>5

LEMMA Frame ==
  ASSUME config' = config
  PROVE  Pumps' = Pumps /\ Groups' = Groups /\ Resume' = Resume /\ \A g : Group(g)' = Group(g)
  BY DEF Pumps, Groups, Resume, Group, GroupOf

LEMMA TypeStep ==
  ASSUME config \in Configs, TypeOK, [Next]_vars
  PROVE  config' = config /\ TypeOK'
<1> USE DEF TypeOK, LevelTypeOK, DailyTypeOK, FoamTypeOK, PumpTypeOK, NoPump, Tasks, If
<1>1. CASE LevelTask
  <2> USE DEF dailyVars, foamVars, pumpVars
  <2>1. config' = config
    BY <1>1 DEF LevelTask
  <2>2. Pumps' = Pumps /\ Resume' = Resume
    BY <2>1, Frame
  <2>3. /\ UNCHANGED <<config, daily, foam, anti, interlocked, tempStop, on, ready, started, byTime, counts>>
        /\ DailyTypeOK' /\ FoamTypeOK' /\ PumpTypeOK'
    <3>1. DailyTypeOK'
      <4>1. HearsUnder
        BY <1>1 DEF LevelTask
      <4> QED
        BY <4>1 DEF HearsUnder
    <3> QED
      BY <1>1, <2>2, <3>1 DEF LevelTask
  <2>4. ASSUME NEW l \in Level, NEW q \in Qualities, NEW f \in SUBSET config.switches, Sense(l, q, f)
        PROVE  TypeOK'
    BY <2>2, <2>3, <2>4 DEF Sense, Qualities
  <2>5. CASE Evaluate
    <3>1. Found \in [{"high", "dry", "use"} -> BOOLEAN]
      <4>1. Found.high \in BOOLEAN /\ Found.dry \in BOOLEAN /\ Found.use \in BOOLEAN
        BY DEF Found, HighSwitch, DrySwitch, Sensor
      <4> QED
        BY <4>1 DEF Found
    <3> QED
      BY <2>2, <2>3, <2>5, <3>1 DEF Evaluate
  <2>6. CASE Detect
    <3>1. 1 \in Pumps
      BY ConfigFacts DEF Pumps
    <3> QED
      BY <2>2, <2>3, <2>6, <3>1 DEF Detect, Branch, AfterRun
  <2>7. CASE Steer
    <3>1. next' \in Pumps
      BY <2>7, ConfigFacts DEF Steer, Pumps
    <3> QED
      BY <2>2, <2>3, <2>7, <3>1 DEF Steer
  <2>8. CASE AfterRunEnds
    BY <2>2, <2>3, <2>8 DEF AfterRunEnds
  <2>9. ASSUME NEW f \in {"sensor", "conflict"}, AlarmChanges(f)
        PROVE  TypeOK'
    BY <2>2, <2>3, <2>9 DEF AlarmChanges
  <2> QED
    BY <1>1, <2>1, <2>4, <2>5, <2>6, <2>7, <2>8, <2>9 DEF LevelTask, LevelCtrl
<1>2. CASE DailyTask
  <2> USE DEF levelVars, foamVars, pumpVars
  <2>1. config' = config
    BY <1>2 DEF DailyTask
  <2>2. Pumps' = Pumps /\ Resume' = Resume
    BY <2>1, Frame
  <2>3. DailyTypeOK' /\ asked' \subseteq Tasks /\ daily' \in BOOLEAN
    <3>1. DailyRequested \in BOOLEAN /\ MaxTimer \in BOOLEAN
      BY DEF DailyRequested, MaxTimer
    <3> QED
      BY <1>2, <3>1 DEF DailyTask, RunDailyEmptyingCtrl, MaxTimeOut, TimeOfDay, EnableDaily
  <2> QED
    BY <1>2, <2>1, <2>2, <2>3 DEF DailyTask
<1>3. CASE FoamTask
  <2> USE DEF levelVars, dailyVars, pumpVars
  <2>1. config' = config
    BY <1>3 DEF FoamTask
  <2>2. Pumps' = Pumps /\ Resume' = Resume
    BY <2>1, Frame
  <2>3. FoamTypeOK' /\ asked' \subseteq Tasks /\ foam' \in BOOLEAN
    <3>1. CASE RunFoamDrain
      <4>1. NextState \in {"idle", "waitStart", "waitLevel", "waitTimeOut"} /\ Reached \in BOOLEAN
        <5>1. Begun \in {"idle", "waitStart", "waitLevel", "waitTimeOut"}
          BY DEF Begun
        <5>2. Running \in {"idle", "waitStart", "waitLevel", "waitTimeOut"}
          BY <5>1 DEF Running
        <5>3. Reached \in BOOLEAN
          BY DEF Reached
        <5>4. Reached => state # "waitTimeOut"
          BY DEF Reached, Running, Begun
        <5> QED
          BY <5>2, <5>3, <5>4 DEF NextState, Drained
      <4>2. CASE quality = "notReady"
        BY <3>1, <4>2 DEF RunFoamDrain, foamVars
      <4>3. CASE quality # "notReady"
        <5>1. /\ state' = NextState /\ foam' = Drains(state')
              /\ intervalOut' = (intervalOut /\ ~(underKnown /\ state = "idle"))
              /\ foamTimer' = (underKnown /\ (Reached \/ (foamTimer /\ state # "idle")))
              /\ foamTimeOut' = (foamTimeOut /\ underKnown /\ ~Reached)
              /\ asked' = (asked \ {"foam"}) \cup If(foam' # foam, {"pump"})
          BY <3>1, <4>3 DEF RunFoamDrain
        <5>2. foam' \in BOOLEAN
          BY <5>1 DEF Drains
        <5>3. intervalOut' \in BOOLEAN /\ foamTimer' \in BOOLEAN /\ foamTimeOut' \in BOOLEAN
          BY <5>1
        <5>4. state' \in {"idle", "waitStart", "waitLevel", "waitTimeOut"}
          BY <4>1, <5>1
        <5>5. asked' \subseteq Tasks
          BY <5>1
        <5> QED
          BY <5>2, <5>3, <5>4, <5>5
      <4> QED
        BY <4>2, <4>3
    <3>2. CASE FoamTimeOut
      BY <3>2 DEF FoamTimeOut
    <3>3. CASE FoamInterval
      BY <3>3 DEF FoamInterval
    <3> QED
      BY <1>3, <3>1, <3>2, <3>3 DEF FoamTask
  <2> QED
    BY <1>3, <2>1, <2>2, <2>3 DEF FoamTask
<1>4. CASE PumpTask
  <2> USE DEF levelVars, dailyVars, foamVars
  <2>1. config' = config
    BY <1>4 DEF PumpTask
  <2>2. Pumps' = Pumps /\ Resume' = Resume
    BY <2>1, Frame
  <2>3. PumpTypeOK' /\ asked' \subseteq Tasks /\ on' \subseteq Pumps
    <3>1. CASE RunPumpCtrl
      <4>1. Result \subseteq Pumps
        BY ResultFits
      <4>2. Temp.allowed \in BOOLEAN /\ Temp.stopped \in {NoPump, pumpInTempStop} \cup Pumps
        BY TempFacts DEF Temp
      <4>3. StartGroup(Result) \in 1 .. 2
        BY DEF StartGroup
      <4> QED
        BY <2>2, <3>1, <4>1, <4>2, <4>3, PumpCtrlStep
    <3>2. CASE StartUpEnds
      BY <2>2, <3>2 DEF StartUpEnds
    <3> QED
      BY <1>4, <3>1, <3>2 DEF PumpTask
  <2> QED
    BY <1>4, <2>1, <2>2, <2>3 DEF PumpTask
<1>5. ASSUME NEW p \in Pumps,
             \/ PumpStarts(p) \/ PumpStops(p) \/ ReadyChanges(p)
             \/ AntiSeizingRequest(p) \/ TempStop(p)
      PROVE  config' = config /\ TypeOK'
  <2> USE DEF others, levelVars, dailyVars, foamVars, pumpVars
  <2>1. config' = config
    BY <1>5 DEF PumpStarts, PumpStops, ReadyChanges, AntiSeizingRequest, TempStop
  <2>2. Pumps' = Pumps /\ Resume' = Resume
    BY <2>1, Frame
  <2>3. CASE PumpStarts(p)
    BY <2>1, <2>2, <2>3 DEF PumpStarts
  <2>4. CASE PumpStops(p)
    BY <2>1, <2>2, <2>4 DEF PumpStops
  <2>5. CASE ReadyChanges(p)
    BY <2>1, <2>2, <2>5 DEF ReadyChanges
  <2>6. CASE AntiSeizingRequest(p)
    BY <2>1, <2>2, <2>6 DEF AntiSeizingRequest
  <2>7. CASE TempStop(p)
    BY <2>1, <2>2, <2>7 DEF TempStop
  <2> QED
    BY <1>5, <2>3, <2>4, <2>5, <2>6, <2>7
<1>6. ASSUME NEW p \in Pumps, CountStart(p)
      PROVE  config' = config /\ TypeOK'
  <2> USE DEF others, levelVars, dailyVars, foamVars, pumpVars
  <2>1. config' = config
    BY <1>6 DEF CountStart
  <2>2. Pumps' = Pumps /\ Resume' = Resume
    BY <2>1, Frame
  <2>3. byTime' \in [Pumps -> Pumps] /\ \A q, r \in Pumps : byTime'[q] = byTime'[r] => q = r
    BY <1>6, PlacesStay DEF CountStart
  <2> QED
    BY <1>6, <2>1, <2>2, <2>3 DEF CountStart
<1>7. CASE Interlock
  <2> USE DEF others, levelVars, dailyVars, foamVars, pumpVars
  <2>1. config' = config
    BY <1>7 DEF Interlock
  <2>2. Pumps' = Pumps /\ Resume' = Resume
    BY <2>1, Frame
  <2> QED
    BY <1>7, <2>1, <2>2 DEF Interlock
<1>8. CASE UNCHANGED vars
  <2> USE DEF vars, dataPoints, levelVars, dailyVars, foamVars, pumpVars
  <2>1. config' = config
    BY <1>8
  <2>2. Pumps' = Pumps /\ Resume' = Resume
    BY <2>1, Frame
  <2> QED
    BY <1>8, <2>1, <2>2
<1> QED
  BY <1>1, <1>2, <1>3, <1>4, <1>5, <1>6, <1>7, <1>8 DEF Next

-----------------------------------------------------------------------------
(* The inductive invariant.                                                 *)

(* RefInv: what a pass of LevelCtrl has established about the reference.    *)
(* Between two loops it is the one that high level, the after run or a dry  *)
(* pit ask for; within a loop that holds of the pumps already steered.      *)
Loop    == {"on", "off", "dry", "level"}
Steered == 1 .. next - 1

RefInv ==
  /\ oldHigh => high
  /\ pc \notin Loop /\ high => ref = Pumps
  /\ pc \notin Loop /\ afterRun => ref = Pumps
  /\ pc \in {"idle", "sensed"} /\ now.dry /\ ~now.high => ref = {}
  /\ pc \in Loop =>
       /\ high = now.high
       /\ pc = "dry" <=> (now.dry /\ ~now.high)
       /\ high => pc = "on"
       /\ pc = "on" => Steered \subseteq ref
       /\ pc = "off" => ~afterRun
       /\ pc = "level" /\ afterRun => ref = Pumps
       /\ pc = "dry" => ref \cap Steered = {}

FoamInv == quality = "notReady" => ~foam

(* What PumpCtrl has made of the data points when it has seen them all.     *)
HighInv ==
  Chosen /\ high /\ ref = Pumps /\ Groups = {1} /\ ~interlocked /\ startUpTimeout =>
    \/ Cardinality(on) = Most
    \/ Most <= 0 /\ on = {}
    \/ Most + Cardinality(Manual) < config.min[1] /\ on = {}

(* Daily emptying has a timer; and while it goes on under the lowest stop    *)
(* level, DailyEmptyingCtrl is still to hear of that.                       *)
DailyInv ==
  /\ daily => maxTimer \/ maxTimeOut
  /\ daily /\ under => "daily" \in asked /\ "under" \in news

DryInv == Chosen /\ ref = {} /\ ~foam /\ ~daily => on \subseteq anti

PitInv ==
  /\ config \in Configs /\ TypeOK /\ RefInv /\ FoamInv /\ HighInv /\ DryInv
  /\ WithinLimits /\ FoamNeedsSensor /\ DailyInv

LEMMA RefStep ==
  ASSUME config \in Configs, TypeOK, RefInv, [Next]_vars
  PROVE  RefInv'
<1> DEFINE same == UNCHANGED <<config, ref, high, levelVars>>
<1>1. config' = config /\ Pumps' = Pumps
  BY TypeStep, Frame
<1>2. /\ next \in 1 .. config.pumps /\ config.pumps \in Nat \ {0} /\ Pumps = 1 .. config.pumps
      /\ now \in [{"high", "dry", "use"} -> BOOLEAN]
      /\ {high, oldHigh, afterRun} \subseteq BOOLEAN /\ ref \subseteq Pumps
      /\ pc \in {"idle", "sensed", "evaluated", "on", "off", "dry", "level"}
  BY ConfigFacts DEF TypeOK, LevelTypeOK, Pumps
<1>3. CASE LevelTask
  <2>1. ASSUME NEW l, NEW q, NEW f, Sense(l, q, f) PROVE RefInv'
    BY <1>1, <2>1 DEF RefInv, Sense, Steered, Loop
  <2>2. CASE Evaluate
    BY <1>1, <2>2 DEF RefInv, Evaluate, Steered, Loop
  <2>3. CASE Detect
    <3>1. /\ pc = "evaluated" /\ afterRun' = AfterRun /\ oldHigh' = now.high /\ high' = now.high
          /\ pc' = Branch /\ next' = 1 /\ now' = now /\ ref' = ref
      BY <2>3 DEF Detect
    <3>2. Steered' = {}
      BY <3>1 DEF Steered
    <3>3. afterRun => ref = Pumps
      BY <3>1 DEF RefInv, Loop
    <3>4. /\ pc' \in Loop
          /\ pc' = "dry" <=> (now.dry /\ ~now.high)
          /\ now.high => pc' = "on"
          /\ pc' = "off" => ~afterRun'
          /\ pc' = "level" => now.use
      BY <3>1 DEF Branch, Loop
    <3>5. pc' = "level" /\ afterRun' => ref' = Pumps
      BY <3>1, <3>3, <3>4 DEF AfterRun
    <3>6. pc' \notin {"idle", "sensed"}
      BY <3>4 DEF Loop
    <3> QED
      BY <1>1, <3>1, <3>2, <3>4, <3>5, <3>6 DEF RefInv, Loop
  <2>4. CASE Steer
    <3> DEFINE new  == (ref \ {next}) \cup {p \in {next} : Wanted(p)}
               last == next = config.pumps
    <3>1. /\ pc \in Loop /\ ref' = new /\ next' = (IF last THEN 1 ELSE next + 1)
          /\ pc' = (IF last THEN "idle" ELSE pc)
          /\ afterRun' = (afterRun /\ ~(last /\ pc = "dry"))
          /\ high' = high /\ now' = now /\ oldHigh' = oldHigh
      BY <2>4 DEF Steer, Loop
    <3>2. /\ oldHigh => high
          /\ high = now.high
          /\ pc = "dry" <=> (now.dry /\ ~now.high)
          /\ high => pc = "on"
          /\ pc = "on" => Steered \subseteq ref
          /\ pc = "off" => ~afterRun
          /\ pc = "level" /\ afterRun => ref = Pumps
          /\ pc = "dry" => ref \cap Steered = {}
      BY <3>1 DEF RefInv
    <3>3. pc = "on" => Steered \cup {next} \subseteq new
      BY <3>2 DEF Wanted
    <3>4. pc = "dry" => new \cap (Steered \cup {next}) = {}
      BY <3>2 DEF Wanted
    <3>5. pc = "level" /\ afterRun => new = Pumps
      BY <1>2, <3>2 DEF Wanted
    <3>6. Steered \cup {next} = 1 .. next
      BY <1>2 DEF Steered
    <3>7. new \subseteq Pumps
      BY <1>2
    <3> HIDE DEF new
    <3>8. CASE last
      <4>1. pc' = "idle" /\ Steered \cup {next} = Pumps
        BY <1>2, <3>1, <3>6, <3>8
      <4>2. pc = "on" => ref' = Pumps
        BY <3>1, <3>3, <3>7, <4>1
      <4>3. pc = "dry" => ref' = {}
        BY <3>1, <3>4, <3>7, <4>1
      <4>4. afterRun' => ref' = Pumps
        BY <3>1, <3>2, <3>5, <3>8, <4>2 DEF Loop
      <4> QED
        BY <1>1, <3>1, <3>2, <4>1, <4>2, <4>3, <4>4 DEF RefInv, Loop
    <3>9. CASE ~last
      <4>1. pc' = pc /\ Steered' = 1 .. next /\ afterRun' = afterRun
        BY <1>2, <3>1, <3>9 DEF Steered
      <4> QED
        BY <1>1, <3>1, <3>2, <3>3, <3>4, <3>5, <3>6, <4>1 DEF RefInv, Loop
    <3> QED
      BY <3>8, <3>9
  <2>5. CASE AfterRunEnds
    BY <1>1, <2>5 DEF RefInv, AfterRunEnds, Steered, Loop
  <2>6. ASSUME NEW f, AlarmChanges(f) PROVE RefInv'
    BY <1>1, <2>6 DEF RefInv, AlarmChanges, Steered, Loop
  <2> QED
    BY <1>3, <2>1, <2>2, <2>3, <2>4, <2>5, <2>6 DEF LevelTask, LevelCtrl
<1>4. CASE same
  BY <1>1, <1>4 DEF RefInv, Steered, Loop, levelVars
<1>5. DailyTask \/ FoamTask \/ PumpTask => same
  BY DEF DailyTask, FoamTask, PumpTask
<1>6. ASSUME NEW p \in Pumps,
             \/ PumpStarts(p) \/ PumpStops(p) \/ ReadyChanges(p)
             \/ AntiSeizingRequest(p) \/ CountStart(p) \/ TempStop(p)
      PROVE  same
  BY <1>6 DEF PumpStarts, PumpStops, ReadyChanges, AntiSeizingRequest, CountStart, TempStop, others
<1>7. Interlock \/ UNCHANGED vars => same
  BY DEF Interlock, others, vars, dataPoints
<1> QED
  BY <1>3, <1>4, <1>5, <1>6, <1>7 DEF Next

(* The sensor, the foam drain and the daily emptying.                       *)
LEMMA EndsStep ==
  ASSUME config \in Configs, TypeOK, FoamInv, FoamNeedsSensor, DailyInv, [Next]_vars
  PROVE  FoamInv' /\ FoamNeedsSensor' /\ DailyInv'
<1> USE DEF FoamInv, FoamNeedsSensor, DailyInv, If, Quiet
<1> DEFINE same == /\ UNCHANGED <<quality, foam, underKnown, daily, under, news, maxTimer, maxTimeOut>>
                   /\ "foam" \notin asked' => "foam" \notin asked
                   /\ "daily" \in asked => "daily" \in asked'
<1>1. CASE LevelTask
  <2>1. /\ UNCHANGED <<foam, daily, maxTimer, maxTimeOut>>
        /\ news \subseteq news'
        /\ <<under', underKnown'>> # <<under, underKnown>> => "under" \in news'
    BY <1>1 DEF LevelTask, HearsUnder
  <2>2. ASSUME NEW l, NEW q \in Qualities, NEW f, Sense(l, q, f)
        PROVE  FoamInv' /\ FoamNeedsSensor' /\ DailyInv'
    <3>1. q # "notReady" /\ quality' = q /\ UNCHANGED <<under, underKnown>> /\ asked = {}
      BY <2>2 DEF Sense, Qualities
    <3> QED
      BY <2>1, <3>1
  <2>3. CASE Evaluate
    <3>1. /\ quality' = quality /\ underKnown' = Found.use /\ asked = {}
          /\ "foam" \notin asked' => Found.use = underKnown
          /\ under' # under => "daily" \in asked'
      BY <2>3 DEF Evaluate
    <3> QED
      BY <2>1, <3>1
  <2>4. CASE Detect
    BY <2>1, <2>4 DEF Detect
  <2>5. CASE Steer
    BY <2>1, <2>5 DEF Steer
  <2>6. CASE AfterRunEnds
    BY <2>1, <2>6 DEF AfterRunEnds
  <2>7. ASSUME NEW f, AlarmChanges(f)
        PROVE  FoamInv' /\ FoamNeedsSensor' /\ DailyInv'
    BY <2>1, <2>7 DEF AlarmChanges
  <2> QED
    BY <1>1, <2>2, <2>3, <2>4, <2>5, <2>6, <2>7 DEF LevelTask, LevelCtrl
<1>2. CASE DailyTask
  <2>1. UNCHANGED <<quality, foam, under, underKnown>>
    BY <1>2 DEF DailyTask
  <2>2. CASE RunDailyEmptyingCtrl
    <3>1. "foam" \notin asked' => "foam" \notin asked
      BY <2>2 DEF RunDailyEmptyingCtrl
    <3>2. daily' => maxTimer'
      BY <2>2 DEF RunDailyEmptyingCtrl, DailyRequested, MaxTimer
    <3>3. ~(daily' /\ under')
      <4>1. under' = under /\ daily' = DailyRequested
        BY <1>2, <2>2 DEF DailyTask, RunDailyEmptyingCtrl
      <4> QED
        BY <4>1 DEF DailyRequested
    <3> QED
      BY <2>1, <3>1, <3>2, <3>3
  <2>3. CASE MaxTimeOut
    BY <2>1, <2>3 DEF MaxTimeOut
  <2>4. CASE TimeOfDay
    BY <2>1, <2>4 DEF TimeOfDay
  <2>5. CASE EnableDaily
    BY <2>1, <2>5 DEF EnableDaily
  <2> QED
    BY <1>2, <2>2, <2>3, <2>4, <2>5 DEF DailyTask
<1>3. CASE FoamTask
  <2>1. UNCHANGED <<quality, under, underKnown, daily, news, maxTimer, maxTimeOut>>
    BY <1>3 DEF FoamTask, dailyVars
  <2>2. CASE RunFoamDrain
    <3>1. CASE quality = "notReady"
      BY <2>1, <2>2, <3>1 DEF RunFoamDrain
    <3>2. CASE quality # "notReady"
      <4>1. foam' => underKnown
        BY <2>2, <3>2 DEF RunFoamDrain, Drains, NextState
      <4>2. "daily" \in asked => "daily" \in asked'
        BY <2>2, <3>2 DEF RunFoamDrain
      <4>3. DailyInv'
        BY <2>1, <4>2
      <4> QED
        BY <2>1, <3>2, <4>1, <4>3
    <3> QED
      BY <3>1, <3>2
  <2>3. CASE FoamTimeOut
    BY <2>1, <2>3 DEF FoamTimeOut
  <2>4. CASE FoamInterval
    BY <2>1, <2>4 DEF FoamInterval
  <2> QED
    BY <1>3, <2>2, <2>3, <2>4 DEF FoamTask
<1>4. PumpTask => same
  BY DEF PumpTask, RunPumpCtrl, StartUpEnds, dailyVars
<1>5. ASSUME NEW p \in Pumps,
             \/ PumpStarts(p) \/ PumpStops(p) \/ ReadyChanges(p)
             \/ AntiSeizingRequest(p) \/ CountStart(p) \/ TempStop(p)
      PROVE  same
  BY <1>5 DEF PumpStarts, PumpStops, ReadyChanges, AntiSeizingRequest, CountStart, TempStop,
              others, dailyVars
<1>6. Interlock \/ UNCHANGED vars => same
  BY DEF Interlock, others, vars, dataPoints, dailyVars
<1>7. CASE same
  BY <1>7
<1> QED
  BY <1>1, <1>2, <1>3, <1>4, <1>5, <1>6, <1>7 DEF Next

(* Nothing that PumpCtrl reads changes unless it is asked to run.           *)
chooses == <<config, ref, high, foam, daily, anti, interlocked, on, ready, started, startUpTimeout>>

LEMMA NothingIsMissed ==
  ASSUME [Next]_vars, ~(PumpTask /\ RunPumpCtrl), Chosen'
  PROVE  Chosen /\ UNCHANGED chooses
<1> USE DEF Chosen, Quiet, If, chooses
<1>1. CASE LevelTask
  <2>1. UNCHANGED <<config, daily, foam, anti, interlocked, on, ready, started, startUpTimeout>>
    BY <1>1 DEF LevelTask, pumpVars
  <2>2. Chosen /\ UNCHANGED <<ref, high>>
    BY <1>1 DEF LevelTask, LevelCtrl, Sense, Evaluate, Detect, Steer, AfterRunEnds, AlarmChanges
  <2> QED
    BY <2>1, <2>2
<1>2. CASE DailyTask
  <2>1. UNCHANGED <<config, ref, high, foam, anti, interlocked, on, ready, started, startUpTimeout>>
    BY <1>2 DEF DailyTask, pumpVars
  <2>2. Chosen /\ UNCHANGED daily
    BY <1>2 DEF DailyTask, RunDailyEmptyingCtrl, MaxTimeOut, TimeOfDay, EnableDaily
  <2> QED
    BY <2>1, <2>2
<1>3. CASE FoamTask
  <2>1. UNCHANGED <<config, ref, high, daily, anti, interlocked, on, ready, started, startUpTimeout>>
    BY <1>3 DEF FoamTask, pumpVars
  <2>2. Chosen /\ UNCHANGED foam
    BY <1>3 DEF FoamTask, RunFoamDrain, FoamTimeOut, FoamInterval
  <2> QED
    BY <2>1, <2>2
<1>4. ~PumpTask
  BY DEF PumpTask, StartUpEnds
<1>5. ASSUME NEW p \in Pumps,
             \/ PumpStarts(p) \/ PumpStops(p) \/ ReadyChanges(p)
             \/ AntiSeizingRequest(p) \/ TempStop(p)
      PROVE  FALSE
  BY <1>5 DEF PumpStarts, PumpStops, ReadyChanges, AntiSeizingRequest, TempStop
<1>6. ASSUME NEW p \in Pumps, CountStart(p)
      PROVE  Chosen /\ UNCHANGED chooses
  BY <1>6 DEF CountStart, others, pumpVars
<1>7. ~Interlock
  BY DEF Interlock
<1>8. CASE UNCHANGED vars
  BY <1>8 DEF vars, dataPoints, pumpVars
<1> QED
  BY <1>1, <1>2, <1>3, <1>4, <1>5, <1>6, <1>7, <1>8 DEF Next

(* WithinLimits is the same of the next choice as of this one.              *)
LEMMA LimitsNow ==
  ASSUME config \in Configs, TypeOK, WithinLimits, Chosen
  PROVE  Limited(on)
<1>1. config.total[1] \in Nat /\ config.total[2] \in Nat
      /\ Cardinality(on) \in Nat /\ Cardinality(Manual) \in Nat
  BY ConfigFacts, PumpSets, TypeFacts
<1> QED
  BY <1>1 DEF WithinLimits, InGroup, GroupsApart, Limited

LEMMA LimitsNext ==
  ASSUME config \in Configs, TypeOK, config' = config, ready' = ready, started' = started,
         on' \subseteq Pumps, Limited(on')
  PROVE  WithinLimits'
<1>1. Groups' = Groups /\ Manual' = Manual /\ \A g : Group(g)' = Group(g)
  BY Frame DEF Manual
<1>2. config.total[1] \in Nat /\ config.total[2] \in Nat
      /\ Cardinality(on') \in Nat /\ Cardinality(Manual) \in Nat
  BY ConfigFacts, PumpSets, TypeFacts
<1> QED
  BY <1>1, <1>2 DEF WithinLimits, InGroup, GroupsApart, Limited

LEMMA ChoiceStep ==
  ASSUME config \in Configs, TypeOK, WithinLimits, HighInv, DryInv, [Next]_vars
  PROVE  WithinLimits' /\ HighInv' /\ DryInv'
<1>1. config' = config /\ Pumps' = Pumps /\ Groups' = Groups /\ on' \subseteq Pumps
  BY TypeStep, Frame, TypeFacts DEF TypeOK
<1>2. ready' = ready /\ started' = started => Most' = Most /\ Manual' = Manual
  BY <1>1 DEF Most, Manual
<1>3. CASE PumpTask /\ RunPumpCtrl
  <2>1. /\ UNCHANGED <<config, ref, high, foam, daily, anti, interlocked, ready, started>>
        /\ startUpTimeout' = startUpTimeout
        /\ on' = IF interlocked \/ ~startUpTimeout THEN {} ELSE Result
    BY <1>3, PumpCtrlStep DEF PumpTask
  <2>2. /\ Result \subseteq Pumps /\ Limited(Result)
        /\ ref = {} /\ ~foam /\ ~daily => Result \subseteq anti
    BY ResultFits
  <2>3. WithinLimits'
    <3>1. Limited({})
      BY GroupSets DEF Limited
    <3> QED
      BY <1>1, <2>1, <2>2, <3>1, LimitsNext
  <2>4. HighInv'
    <3>1. SUFFICES ASSUME high, ref = Pumps, Groups = {1}, ~interlocked, startUpTimeout
                   PROVE  \/ Cardinality(on') = Most
                          \/ Most <= 0 /\ on' = {}
                          \/ Most + Cardinality(Manual) < config.min[1] /\ on' = {}
      BY <1>1, <1>2, <2>1 DEF HighInv
    <3>2. on' = Result
      BY <2>1, <3>1
    <3> QED
      BY <3>1, <3>2, ResultAtHighLevel
  <2>5. DryInv'
    BY <2>1, <2>2 DEF DryInv
  <2> QED
    BY <2>3, <2>4, <2>5
<1>4. CASE ~(PumpTask /\ RunPumpCtrl)
  <2>1. SUFFICES ASSUME Chosen' PROVE WithinLimits' /\ HighInv' /\ DryInv'
    BY DEF WithinLimits, HighInv, DryInv
  <2>2. Chosen /\ UNCHANGED chooses
    BY <1>4, <2>1, NothingIsMissed
  <2>3. Limited(on) /\ on' = on
    BY <2>2, LimitsNow DEF chooses
  <2>4. WithinLimits'
    BY <1>1, <2>2, <2>3, LimitsNext DEF chooses
  <2>5. HighInv'
    BY <1>1, <1>2, <2>2 DEF HighInv, chooses
  <2>6. DryInv'
    BY <2>2 DEF DryInv, chooses
  <2> QED
    BY <2>4, <2>5, <2>6
<1> QED
  BY <1>3, <1>4

(* Every step keeps the invariant, and it holds at the start.               *)
LEMMA PitStep ==
  ASSUME PitInv, [Next]_vars
  PROVE  PitInv'
<1>1. config \in Configs /\ TypeOK
  BY DEF PitInv
<1>2. config' \in Configs /\ TypeOK'
  BY <1>1, TypeStep
<1>3. RefInv'
  BY <1>1, RefStep DEF PitInv
<1>4. FoamInv' /\ FoamNeedsSensor' /\ DailyInv'
  BY <1>1, EndsStep DEF PitInv
<1>5. WithinLimits' /\ HighInv' /\ DryInv'
  BY <1>1, ChoiceStep DEF PitInv
<1> QED
  BY <1>2, <1>3, <1>4, <1>5 DEF PitInv

LEMMA PitStart ==
  ASSUME Init
  PROVE  PitInv
<1> USE DEF Init
<1>1. config \in Configs /\ config.pumps \in Nat \ {0}
  BY ConfigFacts
<1>2. TypeOK
  <2>1. 1 \in Pumps /\ Pumps = 1 .. config.pumps
    BY <1>1 DEF Pumps
  <2>2. TopLevel \div 2 \in Level
    BY PitAssumption DEF Level
  <2>3. byTime \in [Pumps -> Pumps] /\ \A p, q \in Pumps : byTime[p] = byTime[q] => p = q
    OBVIOUS
  <2>4. LevelTypeOK /\ DailyTypeOK /\ FoamTypeOK /\ PumpTypeOK
    <3>1. LevelTypeOK
      <4>1. LevelInit
        OBVIOUS
      <4> HIDE DEF Init
      <4>2. now \in [{"high", "dry", "use"} -> BOOLEAN]
        <5>1. now = [high |-> FALSE, dry |-> FALSE, use |-> FALSE]
          BY <4>1 DEF LevelInit
        <5>2. now.high \in BOOLEAN /\ now.dry \in BOOLEAN /\ now.use \in BOOLEAN
          BY <5>1
        <5> QED
          BY <5>1, <5>2
      <4> QED
        BY <2>1, <4>1, <4>2 DEF LevelInit, LevelTypeOK
    <3>2. DailyTypeOK /\ FoamTypeOK
      BY DEF DailyInit, FoamInit, DailyTypeOK, FoamTypeOK
    <3>3. PumpTypeOK
      <4>1. PumpInit
        OBVIOUS
      <4> HIDE DEF Init
      <4> QED
        <5>1. tempStopAllowed \in BOOLEAN /\ startUpTimeout \in BOOLEAN
          BY <4>1, Zenon DEF PumpInit
        <5>2. pumpInTempStop = NoPump /\ foamDrainRef = {} /\ startGroup = 1
          BY <4>1 DEF PumpInit
        <5>3. startGroup \in 1 .. 2
          BY <5>2
        <5> QED
          BY <5>1, <5>2, <5>3, Zenon DEF PumpTypeOK
    <3> QED
      BY <3>1, <3>2, <3>3
  <2> QED
    BY <2>2, <2>3, <2>4 DEF TypeOK, Tasks, NoPump
<1>3. RefInv
  BY DEF RefInv, LevelInit, Loop
<1>4. FoamInv /\ FoamNeedsSensor /\ DailyInv
  BY DEF FoamInv, FoamNeedsSensor, DailyInv
<1>5. ~Chosen
  BY DEF Chosen
<1> QED
  BY <1>1, <1>2, <1>3, <1>4, <1>5 DEF PitInv, HighInv, DryInv, WithinLimits

(* The invariant holds of every state of the pit.                           *)
THEOREM PitInvariant == Spec => []PitInv
<1>1. Init => PitInv
  BY PitStart
<1>2. PitInv /\ [Next]_vars => PitInv'
  BY PitStep
<1> QED
  BY <1>1, <1>2, PTL DEF Spec

-----------------------------------------------------------------------------
(* The variables keep their types; the order of the last runs stays one.    *)
THEOREM TypeCorrect == Spec => []TypeOK
<1>1. PitInv => TypeOK
  BY DEF PitInv
<1> QED
  BY <1>1, PitInvariant, PTL

(* Whatever pumps fail, are run by hand or are asked for, those that are    *)
(* ordered are ready and keep to the limits of their group and of the pit.  *)
THEOREM LimitsAreKept == Spec => []WithinLimits
<1>1. PitInv => WithinLimits
  BY DEF PitInv
<1> QED
  BY <1>1, PitInvariant, PTL

(* At high level, and in the after run of it, all pumps are asked for, and  *)
(* in a pit of one group as many are ordered as may run.                    *)
THEOREM HighLevelIsAnswered == Spec => []HighLevelPumps
<1>1. PitInv => HighLevelPumps
  <2>1. SUFFICES ASSUME PitInv PROVE HighLevelPumps
    OBVIOUS
  <2>2. AfterRunPumps
    BY <2>1 DEF PitInv, RefInv, Loop, AfterRunPumps
  <2>3. pc = "idle" /\ high => ref = Pumps
    BY <2>1 DEF PitInv, RefInv, Loop
  <2> QED
    BY <2>1, <2>2, <2>3 DEF PitInv, HighInv, HighLevelPumps, Most
<1> QED
  BY <1>1, PitInvariant, PTL

(* A pit that is dry is left alone, but for anti-seizing; foam draining     *)
(* goes on no longer than the sensor, and daily emptying has a timer and is *)
(* over when DailyEmptyingCtrl has seen the level under the lowest stop.    *)
THEOREM DryPitsAreLeft == Spec => []DryPitIsLeft
<1>1. PitInv => DryPitIsLeft
  <2>1. SUFFICES ASSUME PitInv PROVE DryPitIsLeft
    OBVIOUS
  <2>2. pc = "idle" /\ now.dry /\ ~now.high => ref = {}
    BY <2>1 DEF PitInv, RefInv
  <2> QED
    BY <2>1, <2>2 DEF PitInv, DryInv, DailyInv, DryPitIsLeft, DailyEnds, Quiet
<1> QED
  BY <1>1, PitInvariant, PTL

(* Only PumpCtrl orders pumps.                                              *)
LEMMA OnlyPumpCtrlOrders ==
  ASSUME [Next]_vars, ~(PumpTask /\ RunPumpCtrl)
  PROVE  on' = on
<1>1. LevelTask \/ DailyTask \/ FoamTask => on' = on
  BY DEF LevelTask, DailyTask, FoamTask
<1>2. PumpTask => on' = on
  BY DEF PumpTask, StartUpEnds
<1>3. ASSUME NEW p \in Pumps,
             \/ PumpStarts(p) \/ PumpStops(p) \/ ReadyChanges(p)
             \/ AntiSeizingRequest(p) \/ CountStart(p) \/ TempStop(p)
      PROVE  on' = on
  BY <1>3 DEF PumpStarts, PumpStops, ReadyChanges, AntiSeizingRequest, CountStart, TempStop, others
<1>4. Interlock \/ UNCHANGED vars => on' = on
  BY DEF Interlock, others, vars, dataPoints
<1> QED
  BY <1>1, <1>2, <1>3, <1>4 DEF Next

(* Alternation does not change pumps that run, but for the reasons that     *)
(* NoNeedlessChange names: another pump that runs too, one that resumes or  *)
(* is anti-seizing, or the maximum of the pit.                              *)
THEOREM TurnsAreKept == Spec => NoNeedlessChange
<1> DEFINE Kept ==
      \A g \in Groups : config.alternate[g] =>
        \A p \in on \cap started \cap ready \cap Group(g), q \in (on' \ on) \cap Group(g) :
          \/ p \in on' \/ q \in started \cup anti \/ q = pumpInTempStop
          \/ 2 \in Groups /\ Cardinality(on') + Cardinality(Manual) = config.total[2]
<1>1. PitInv /\ [Next]_vars => [Kept]_vars
  <2>1. SUFFICES ASSUME PitInv, [Next]_vars PROVE Kept
    OBVIOUS
  <2>2. SUFFICES ASSUME NEW g \in Groups, config.alternate[g],
                        NEW p \in on \cap started \cap ready \cap Group(g),
                        NEW q \in (on' \ on) \cap Group(g),
                        q \notin started \cup anti, q # pumpInTempStop
                 PROVE  p \in on' \/ (2 \in Groups /\ Cardinality(on') + Cardinality(Manual) = config.total[2])
    OBVIOUS
  <2>3. PumpTask /\ RunPumpCtrl
    BY <2>1, <2>2, OnlyPumpCtrlOrders
  <2>4. on' = Result
    BY <2>2, <2>3, PumpCtrlStep
  <2> QED
    BY <2>1, <2>2, <2>4, ResultKeepsTurn DEF PitInv
<1> QED
  BY <1>1, PitInvariant, PTL DEF Spec, NoNeedlessChange

=============================================================================
