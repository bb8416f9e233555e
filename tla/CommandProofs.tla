------------------------------ MODULE CommandProofs ------------------------------
(***************************************************************************)
(* Theorems about a command: its parameters and the labels of 'image       *)
(* build', for every set of parameters, every command line, environment    *)
(* and containerfile; the retry loop around a call of an external tool,    *)
(* for every set of options and replies that meets RetryerAssumption; and  *)
(* one execution, for every pipe capacity, every amount of output and      *)
(* every set of exit statuses.                                             *)
(*                                                                         *)
(* What a recursive function computes is shown by descent: a set of        *)
(* numbers at which it could go wrong has a least one.  LabelsInv says     *)
(* which results the build has after each phase.  RetryInv relates the     *)
(* loop variable to the number of executions and sleeps, and ties the      *)
(* effect in the outside world to the reply at hand; NextWait says which   *)
(* delay of the schedule is next.  ExecInv ties the drains to what the     *)
(* child has written and to the phase of the caller.                       *)
(***************************************************************************)
EXTENDS BuildLabels, Retryer, Executor, Integers, WellFoundedInduction, SequenceTheorems, TLAPS

--------------------------------------------------------------------------------
(* Induction and recursion.                                                *)

(* A set of natural numbers that is not empty has a least element. *)
LEMMA LeastElement ==
    ASSUME NEW T, T \subseteq Nat, T # {}
    PROVE  \E x \in T : \A y \in T : x <= y
<1> DEFINE R == OpToRel(<, Nat)
<1>1. IsWellFoundedOn(R, Nat)
  BY NatLessThanWellFounded
<1>2. \A x, y \in Nat : <<y, x>> \in R <=> y < x
  BY DEF OpToRel
<1> HIDE DEF R
<1>3. PICK x \in T : \A y \in T : ~(<<y, x>> \in R)
  BY <1>1, WFMin
<1>4. ASSUME NEW y \in T PROVE x <= y
  <2>1. x \in Nat /\ y \in Nat
    OBVIOUS
  <2>2. ~(y < x)
    BY <1>2, <1>3, <2>1
  <2> QED
    BY <2>1, <2>2
<1> QED
  BY <1>4

(* Induction, as a statement about the set of numbers a claim holds for. *)
LEMMA UpTo ==
    ASSUME NEW n \in Nat, NEW W, 0 \in W, \A k \in 0..(n - 1) : k \in W => k + 1 \in W
    PROVE  \A k \in 0..n : k \in W
<1> DEFINE T == {k \in 0..n : k \notin W}
<1>1. SUFFICES ASSUME T # {} PROVE FALSE
  OBVIOUS
<1>2. PICK k \in T : \A m \in T : k <= m
  <2>1. T \subseteq Nat
    OBVIOUS
  <2>2. QED
    BY <1>1, <2>1, LeastElement
<1>3. k \in 0..n /\ k # 0 /\ k \notin W
  BY <1>2
<1>4. k - 1 \in 0..(n - 1) /\ k - 1 \in 0..n /\ ~(k <= k - 1) /\ (k - 1) + 1 = k
  BY <1>3
<1>5. QED
  BY <1>2, <1>3, <1>4

(* prev gives the number that a value at i is computed from, i itself if   *)
(* from none.                                                              *)
Descends(n, D, prev) == /\ n \in Nat /\ D \subseteq 0..n /\ prev \in [D -> D]
                        /\ \A i \in D : prev[i] <= i

Recurs(f, D, S, prev, base, next) ==
    /\ f \in [D -> S]
    /\ \A i \in D : f[i] = IF prev[i] = i THEN base[i] ELSE next[i][f[prev[i]]]

Preserves(g, D, S, prev) == /\ \A i \in D : prev[i] = i => g[i] \in S
                            /\ \A i \in D : prev[i] # i /\ g[prev[i]] \in S => g[i] \in S

(* A function that is defined by recursion from smaller numbers exists.    *)
LEMMA RecursionExists ==
    ASSUME NEW n, NEW D, NEW prev, Descends(n, D, prev), NEW S,
           NEW base \in [D -> S], NEW next \in [D -> [S -> S]]
    PROVE  \E f : Recurs(f, D, S, prev, base, next)
<1> USE DEF Descends
<1> DEFINE Below(k) == {i \in D : i <= k}
           Solves(f, k) == \A i \in Below(k) : f[i] = IF prev[i] = i THEN base[i] ELSE next[i][f[prev[i]]]
           W == {k \in 0..n : \E f \in [Below(k) -> S] : Solves(f, k)}
<1>0. \A i \in D : i \in 0..n /\ i \in Int /\ prev[i] \in D /\ prev[i] \in Int /\ prev[i] >= 0
  <2>1. \A i \in D : i \in 0..n
    OBVIOUS
  <2>2. \A i \in 0..n : i \in Int /\ i >= 0
    OBVIOUS
  <2>3. \A i \in D : prev[i] \in D
    OBVIOUS
  <2>4. QED
    BY <2>1, <2>2, <2>3
<1>1. 0 \in W
  <2> DEFINE f == [i \in Below(0) |-> base[i]]
  <2>1. \A i \in Below(0) : i = 0 /\ prev[i] = i
    <3>1. ASSUME NEW i \in D, i <= 0 PROVE i = 0 /\ prev[i] = i
      BY <1>0, <3>1
    <3>2. QED
      BY <3>1
  <2>2. f \in [Below(0) -> S] /\ Solves(f, 0)
    BY <2>1
  <2>3. 0 \in 0..n
    OBVIOUS
  <2> HIDE DEF f
  <2>4. QED
    BY <2>2, <2>3
<1>2. ASSUME NEW k \in 0..(n - 1), k \in W
      PROVE  k + 1 \in W
  <2>1. PICK f \in [Below(k) -> S] : Solves(f, k)
    BY <1>2
  <2> DEFINE j == k + 1
             g == [i \in Below(j) |-> IF i \in Below(k) THEN f[i]
                                      ELSE IF prev[i] = i THEN base[i] ELSE next[i][f[prev[i]]]]
  <2>2. j \in 0..n /\ \A i \in D : i <= j <=> i <= k \/ i = j
    BY <1>0
  <2>3. ASSUME NEW i \in Below(j)
        PROVE  /\ prev[i] = i \/ prev[i] \in Below(k)
               /\ i \notin Below(k) => i = j
    <3>1. i \in Int /\ prev[i] \in D /\ prev[i] \in Int /\ prev[i] <= i
      BY <1>0
    <3>2. QED
      BY <2>2, <3>1
  <2>4. g \in [Below(j) -> S]
    <3>1. ASSUME NEW i \in Below(j) PROVE g[i] \in S
      <4>1. i \in D /\ base[i] \in S /\ next[i] \in [S -> S]
        OBVIOUS
      <4>2. prev[i] \in Below(k) => f[prev[i]] \in S
        OBVIOUS
      <4>3. CASE i \in Below(k)
        BY <4>3
      <4>4. CASE i \notin Below(k) /\ prev[i] = i
        BY <4>1, <4>4
      <4>5. CASE i \notin Below(k) /\ prev[i] # i
        <5>1. f[prev[i]] \in S
          BY <2>3, <4>2, <4>5
        <5>2. next[i][f[prev[i]]] \in S
          BY <4>1, <5>1
        <5>3. QED
          BY <4>5, <5>2
      <4>6. QED
        BY <4>3, <4>4, <4>5
    <3>2. QED
      BY <3>1
  <2>5. \A i \in Below(k) : i \in Below(j) /\ g[i] = f[i]
    BY <2>2
  <2>6. ASSUME NEW i \in Below(j)
        PROVE  g[i] = IF prev[i] = i THEN base[i] ELSE next[i][g[prev[i]]]
    <3>1. prev[i] # i => g[prev[i]] = f[prev[i]]
      BY <2>3, <2>5
    <3>2. CASE i \in Below(k)
      BY <2>1, <2>5, <3>1, <3>2
    <3>3. CASE i \notin Below(k)
      BY <3>1, <3>3
    <3>4. QED
      BY <3>2, <3>3
  <2> HIDE DEF g
  <2>7. QED
    BY <2>2, <2>4, <2>6
<1> HIDE DEF W
<1>3. n \in W
  BY <1>1, <1>2, UpTo
<1>4. Below(n) = D
  <2>1. \A i \in D : i <= n
    BY <1>0
  <2>2. QED
    BY <2>1
<1>5. QED
  BY <1>3, <1>4 DEF W, Recurs

(* Whatever satisfies such an equation has its values in the same set.     *)
LEMMA RecursionTyped ==
    ASSUME NEW n, NEW D, NEW prev, Descends(n, D, prev), NEW S, NEW g, Preserves(g, D, S, prev)
    PROVE  \A i \in D : g[i] \in S
<1> USE DEF Descends, Preserves
<1> DEFINE T == {i \in D : g[i] \notin S}
<1>1. SUFFICES ASSUME T # {} PROVE FALSE
  OBVIOUS
<1>2. PICK i \in T : \A m \in T : i <= m
  <2>1. T \subseteq Nat
    <3>1. \A i \in 0..n : i \in Nat
      OBVIOUS
    <3>2. QED
      BY <3>1
  <2>2. QED
    BY <1>1, <2>1, LeastElement
<1>3. i \in D /\ prev[i] \in D /\ i \in 0..n /\ prev[i] \in 0..n
  OBVIOUS
<1>4. prev[i] # i /\ prev[i] \in T
  BY <1>3
<1>5. QED
  BY <1>2, <1>3, <1>4

--------------------------------------------------------------------------------
(* The maps of labels.                                                     *)

IsLast(s, key, i) == /\ i \in DOMAIN s /\ s[i].key = key
                     /\ \A j \in DOMAIN s : s[j].key = key => j <= i

(* There is one last label of a key. *)
LEMMA LastLabel ==
    ASSUME NEW S, NEW s \in Seq(S), NEW key
    PROVE  /\ key \in Keys(s) => IsLast(s, key, LastOf(s, key))
           /\ \A i : IsLast(s, key, i) => key \in Keys(s) /\ LastOf(s, key) = i
<1>0. DOMAIN s = 1..Len(s) /\ Len(s) \in Nat
  OBVIOUS
<1>1. ASSUME key \in Keys(s)
      PROVE  \E i : IsLast(s, key, i)
  <2> DEFINE T == {k \in 0..Len(s) : \E i \in DOMAIN s : s[i].key = key /\ k = Len(s) - i}
  <2>1. T # {}
    <3>1. PICK i \in DOMAIN s : s[i].key = key
      BY <1>1 DEF Keys
    <3>2. Len(s) - i \in 0..Len(s)
      BY <1>0
    <3>3. QED
      BY <3>1, <3>2
  <2>2. T \subseteq Nat
    BY <1>0
  <2>3. PICK k \in T : \A m \in T : k <= m
    BY <2>1, <2>2, LeastElement
  <2>4. PICK i \in DOMAIN s : s[i].key = key /\ k = Len(s) - i
    BY <2>3
  <2>5. ASSUME NEW j \in DOMAIN s, s[j].key = key
        PROVE  j <= i
    <3>1. Len(s) - j \in 0..Len(s)
      BY <1>0
    <3>2. Len(s) - j \in T
      BY <2>5, <3>1
    <3>3. Len(s) - i <= Len(s) - j
      BY <2>3, <2>4, <3>2
    <3>4. i \in Int /\ j \in Int
      BY <1>0
    <3> HIDE DEF T
    <3>5. QED
      BY <1>0, <3>3, <3>4
  <2>6. QED
    BY <2>4, <2>5 DEF IsLast
<1>2. ASSUME NEW i, NEW j, IsLast(s, key, i), IsLast(s, key, j)
      PROVE  i = j
  <2>1. i \in 1..Len(s) /\ j \in 1..Len(s) /\ i <= j /\ j <= i
    BY <1>0, <1>2 DEF IsLast
  <2>2. QED
    BY <1>0, <2>1
<1>3. ASSUME NEW i, IsLast(s, key, i)
      PROVE  IsLast(s, key, LastOf(s, key)) /\ LastOf(s, key) = i
  <2>1. IsLast(s, key, LastOf(s, key))
    BY <1>3 DEF IsLast, LastOf
  <2>2. QED
    BY <1>2, <1>3, <2>1
<1>4. \A i : IsLast(s, key, i) => key \in Keys(s)
  BY DEF IsLast, Keys
<1>5. QED
  BY <1>1, <1>3, <1>4

(* Filling a map with two sequences is filling it with the first and then  *)
(* copying what the second gives over it.                                  *)
LEMMA MapOfConcat ==
    ASSUME NEW S, NEW s \in Seq(S), NEW t \in Seq(S)
    PROVE  AsMap(s \o t) = Over(AsMap(t), AsMap(s))
<1> DEFINE u == s \o t
<1>0. /\ DOMAIN s = 1..Len(s) /\ Len(s) \in Nat
      /\ DOMAIN t = 1..Len(t) /\ Len(t) \in Nat
      /\ u \in Seq(S) /\ DOMAIN u = 1..(Len(s) + Len(t))
  OBVIOUS
<1>1. /\ \A i \in DOMAIN s : i \in DOMAIN u /\ u[i] = s[i]
      /\ \A i \in DOMAIN t : Len(s) + i \in DOMAIN u /\ u[Len(s) + i] = t[i]
  <2>1. ASSUME NEW i \in DOMAIN s PROVE i \in DOMAIN u /\ u[i] = s[i]
    BY <1>0
  <2>2. ASSUME NEW i \in DOMAIN t PROVE Len(s) + i \in DOMAIN u /\ u[Len(s) + i] = t[i]
    BY <1>0
  <2>3. QED
    BY <2>1, <2>2
<1>2. \A i \in DOMAIN u : i \in DOMAIN s \/ \E j \in DOMAIN t : i = Len(s) + j
  <2>1. SUFFICES ASSUME NEW i \in DOMAIN u, i \notin DOMAIN s
                 PROVE  \E j \in DOMAIN t : i = Len(s) + j
    OBVIOUS
  <2>2. i - Len(s) \in DOMAIN t /\ i = Len(s) + (i - Len(s))
    BY <1>0, <2>1
  <2>3. QED
    BY <2>2
<1> HIDE DEF u
<1>3. Keys(u) = Keys(s) \union Keys(t)
  <2>1. ASSUME NEW k \in Keys(u) PROVE k \in Keys(s) \union Keys(t)
    <3>1. PICK i \in DOMAIN u : k = u[i].key
      BY DEF Keys
    <3>2. CASE i \in DOMAIN s
      BY <1>1, <3>1, <3>2 DEF Keys
    <3>3. CASE \E j \in DOMAIN t : i = Len(s) + j
      BY <1>1, <3>1, <3>3 DEF Keys
    <3>4. QED
      BY <1>2, <3>2, <3>3
  <2>2. \A k \in Keys(s) : k \in Keys(u)
    BY <1>1 DEF Keys
  <2>3. \A k \in Keys(t) : k \in Keys(u)
    BY <1>1 DEF Keys
  <2>4. QED
    BY <2>1, <2>2, <2>3
<1>4. ASSUME NEW k \in Keys(t)
      PROVE  AsMap(u)[k] = AsMap(t)[k]
  <2> DEFINE i == LastOf(t, k)
  <2>1. IsLast(t, k, i)
    BY LastLabel
  <2> HIDE DEF i
  <2>2. ASSUME NEW j \in DOMAIN u, u[j].key = k
        PROVE  j <= Len(s) + i
    <3>1. i \in 1..Len(t)
      BY <1>0, <2>1 DEF IsLast
    <3>2. CASE j \in DOMAIN s
      BY <1>0, <3>1, <3>2
    <3>3. CASE \E m \in DOMAIN t : j = Len(s) + m
      <4>1. PICK m \in DOMAIN t : j = Len(s) + m
        BY <3>3
      <4>2. m <= i
        BY <1>1, <2>1, <2>2, <4>1 DEF IsLast
      <4>3. m \in Int /\ i \in Int /\ Len(s) \in Int
        BY <1>0, <3>1
      <4>4. QED
        BY <4>1, <4>2, <4>3
    <3>4. QED
      BY <1>2, <3>2, <3>3
  <2>3. IsLast(u, k, Len(s) + i)
    BY <1>1, <2>1, <2>2 DEF IsLast
  <2>4. LastOf(u, k) = Len(s) + i
    BY <1>0, <2>3, LastLabel
  <2>5. k \in Keys(u)
    BY <1>3
  <2>6. AsMap(u)[k] = u[Len(s) + i].value
    BY <2>4, <2>5 DEF AsMap
  <2>7. QED
    BY <1>1, <2>1, <2>6 DEF AsMap, IsLast, i
<1>5. ASSUME NEW k \in Keys(s), k \notin Keys(t)
      PROVE  AsMap(u)[k] = AsMap(s)[k]
  <2> DEFINE i == LastOf(s, k)
  <2>1. IsLast(s, k, i)
    BY LastLabel
  <2> HIDE DEF i
  <2>2. ASSUME NEW j \in DOMAIN u, u[j].key = k
        PROVE  j <= i
    <3>1. CASE j \in DOMAIN s
      BY <1>1, <2>1, <2>2, <3>1 DEF IsLast
    <3>2. CASE \E m \in DOMAIN t : j = Len(s) + m
      BY <1>1, <1>5, <2>2, <3>2 DEF Keys
    <3>3. QED
      BY <1>2, <3>1, <3>2
  <2>3. IsLast(u, k, i)
    BY <1>1, <2>1, <2>2 DEF IsLast
  <2>4. LastOf(u, k) = i
    BY <1>0, <2>3, LastLabel
  <2>5. k \in Keys(u)
    BY <1>3
  <2>6. AsMap(u)[k] = u[i].value
    BY <2>4, <2>5 DEF AsMap
  <2>7. QED
    BY <1>1, <2>1, <2>6 DEF AsMap, IsLast, i
<1>6. /\ DOMAIN AsMap(u) = Keys(u) /\ DOMAIN AsMap(s) = Keys(s) /\ DOMAIN AsMap(t) = Keys(t)
      /\ AsMap(u) = [k \in Keys(u) |-> AsMap(u)[k]]
  BY DEF AsMap
<1> DEFINE a == AsMap(u)
           b == AsMap(s)
           c == AsMap(t)
<1>7. Over(c, b) = [k \in Keys(u) |-> IF k \in Keys(t) THEN c[k] ELSE b[k]]
  BY <1>3, <1>6 DEF Over
<1>8. \A k \in Keys(u) : a[k] = IF k \in Keys(t) THEN c[k] ELSE b[k]
  BY <1>3, <1>4, <1>5
<1>9. a = Over(c, b)
  <2>1. a = [k \in Keys(u) |-> a[k]]
    BY <1>6
  <2> HIDE DEF a, b, c
  <2>2. QED
    BY <1>7, <1>8, <2>1
<1>10. QED
  BY <1>9 DEF u

(* Copying over a map is associative, and the empty map changes nothing. *)
LEMMA OverMaps ==
    /\ \A a, b, c : Over(a, Over(b, c)) = Over(Over(a, b), c)
    /\ \A m : m = [k \in DOMAIN m |-> m[k]] => Over(m, <<>>) = m /\ Over(<<>>, m) = m
<1>1. ASSUME NEW a, NEW b, NEW c
      PROVE  Over(a, Over(b, c)) = Over(Over(a, b), c)
  BY DEF Over
<1>2. ASSUME NEW m, m = [k \in DOMAIN m |-> m[k]]
      PROVE  Over(m, <<>>) = m /\ Over(<<>>, m) = m
  <2>1. DOMAIN <<>> = {}
    OBVIOUS
  <2>2. QED
    BY <1>2, <2>1 DEF Over
<1>3. QED
  BY <1>1, <1>2

(* No labels, no map. *)
LEMMA NoLabels == AsMap(<<>>) = <<>>
  BY DEF AsMap, Keys

--------------------------------------------------------------------------------
(* The stages of a containerfile.                                          *)

(* The stage that i is built FROM, i itself if from none. *)
FromStage(stages) == [i \in DOMAIN stages |-> IF stages[i].from = "stage" THEN stages[i].stage ELSE i]

(* FROM leads to earlier stages. *)
LEMMA StagesEarlier ==
    ASSUME NEW stages, IsContainerfile(stages)
    PROVE  /\ Len(stages) \in Nat /\ DOMAIN stages = 1..Len(stages) /\ Len(stages) \in DOMAIN stages
           /\ DOMAIN stages \subseteq 0..Len(stages)
           /\ FromStage(stages) \in [DOMAIN stages -> DOMAIN stages]
           /\ \A i \in DOMAIN stages :
                 /\ FromStage(stages)[i] <= i
                 /\ FromStage(stages)[i] = i <=> stages[i].from # "stage"
                 /\ stages[i].from = "stage" => FromStage(stages)[i] = stages[i].stage
                 /\ stages[i].labels \in Seq(LabelType)
                 /\ stages[i].from = "image" => BaseLabels[stages[i].image].labels \in Seq(LabelType)
<1> DEFINE T == [from: {"scratch", "image", "stage"}, stage: Nat, image: STRING, labels: Seq(LabelType)]
<1>1. stages \in Seq(T) /\ stages # <<>>
  BY DEF IsContainerfile
<1>2. \A i \in DOMAIN stages : stages[i] \in T
  <2> HIDE DEF T
  <2>1. QED
    BY <1>1
<1>3. \A i \in DOMAIN stages : stages[i].labels \in Seq(LabelType)
  BY <1>2
<1> HIDE DEF T
<1>4. Len(stages) \in Nat /\ DOMAIN stages = 1..Len(stages) /\ Len(stages) # 0
  BY <1>1
<1>5. Len(stages) \in DOMAIN stages /\ DOMAIN stages \subseteq 0..Len(stages)
  BY <1>4
<1>6. ASSUME NEW i \in DOMAIN stages
      PROVE  /\ FromStage(stages)[i] \in DOMAIN stages
             /\ FromStage(stages)[i] <= i
             /\ FromStage(stages)[i] = i <=> stages[i].from # "stage"
             /\ stages[i].from = "stage" => FromStage(stages)[i] = stages[i].stage
  <2>1. i \in 1..Len(stages)
    BY <1>4
  <2>2. CASE stages[i].from = "stage"
    <3>1. FromStage(stages)[i] = stages[i].stage
      BY <2>2 DEF FromStage
    <3>2. stages[i].stage \in 1..(i - 1)
      BY <2>2 DEF IsContainerfile
    <3>3. stages[i].stage \in 1..Len(stages) /\ stages[i].stage <= i /\ stages[i].stage # i
      BY <1>4, <2>1, <3>2
    <3>4. QED
      BY <1>4, <2>2, <3>1, <3>3
  <2>3. CASE stages[i].from # "stage"
    BY <1>4, <2>1, <2>3 DEF FromStage
  <2>4. QED
    BY <2>2, <2>3
<1>7. FromStage(stages) \in [DOMAIN stages -> DOMAIN stages]
  BY <1>6 DEF FromStage
<1>8. \A i \in DOMAIN stages : stages[i].from = "image" => BaseLabels[stages[i].image].labels \in Seq(LabelType)
  BY BuildLabelsAssumption DEF IsContainerfile
<1>9. QED
  BY <1>3, <1>4, <1>5, <1>6, <1>7, <1>8

(* What BaseStage computes. *)
LEMMA BaseFollows ==
    ASSUME NEW stages, IsContainerfile(stages)
    PROVE  \E b : /\ \A i \in DOMAIN stages : /\ b[i] \in DOMAIN stages
                                              /\ stages[i].from = "stage" => b[i] = b[stages[i].stage]
                                              /\ stages[i].from # "stage" => b[i] = i
                  /\ BaseStage(stages) = stages[b[Len(stages)]]
<1> DEFINE D == DOMAIN stages
           prev == FromStage(stages)
           Eq(h) == h = [i \in D |-> IF stages[i].from = "stage" THEN h[stages[i].stage] ELSE i]
           b == CHOOSE h : Eq(h)
           base == [i \in D |-> i]
           next == [i \in D |-> [x \in D |-> x]]
<1>1. BaseStage(stages) = stages[b[Len(stages)]]
  BY DEF BaseStage
<1>2. /\ Len(stages) \in Nat /\ D \subseteq 0..Len(stages)
      /\ prev \in [D -> D]
      /\ \A i \in D : prev[i] <= i
      /\ \A i \in D : prev[i] = i <=> stages[i].from # "stage"
      /\ \A i \in D : stages[i].from = "stage" => prev[i] = stages[i].stage
  BY StagesEarlier
<1> HIDE DEF prev
<1>3. base \in [D -> D] /\ next \in [D -> [D -> D]]
  OBVIOUS
<1> HIDE DEF base, next
<1>4. PICK f : Recurs(f, D, D, prev, base, next)
  <2> HIDE DEF D
  <2>1. Descends(Len(stages), D, prev)
    BY <1>2 DEF Descends
  <2>2. QED
    BY <1>3, <2>1, RecursionExists
<1>5. ASSUME NEW i \in D
      PROVE  f[i] = IF stages[i].from = "stage" THEN f[stages[i].stage] ELSE i
  <2>1. CASE stages[i].from = "stage"
    <3>1. stages[i].stage \in D /\ f[stages[i].stage] \in D
      BY <1>2, <1>4, <2>1 DEF Recurs
    <3>2. f[i] = next[i][f[stages[i].stage]]
      BY <1>2, <1>4, <2>1 DEF Recurs
    <3>3. QED
      BY <2>1, <3>1, <3>2 DEF next
  <2>2. CASE stages[i].from # "stage"
    BY <1>2, <1>4, <2>2 DEF base, Recurs
  <2>3. QED
    BY <2>1, <2>2
<1>6. Eq(f)
  BY <1>4, <1>5 DEF Recurs
<1>7. Eq(b)
  BY <1>6
<1> HIDE DEF b
<1>8. \A i \in D : b[i] = IF stages[i].from = "stage" THEN b[stages[i].stage] ELSE i
  BY <1>7
<1>9. \A i \in D : b[i] \in D
  <2>1. \A i \in D : prev[i] = i => b[i] \in D
    BY <1>2, <1>8
  <2>2. \A i \in D : prev[i] # i /\ b[prev[i]] \in D => b[i] \in D
    BY <1>2, <1>8
  <2> HIDE DEF D
  <2>3. Descends(Len(stages), D, prev) /\ Preserves(b, D, D, prev)
    BY <1>2, <2>1, <2>2 DEF Descends, Preserves
  <2>4. QED
    BY <2>3, RecursionTyped
<1>10. QED
  BY <1>1, <1>8, <1>9

(* What ContainerfileLabels computes. *)
LEMMA ChainFollows ==
    ASSUME NEW stages, IsContainerfile(stages)
    PROVE  \E c : /\ \A i \in DOMAIN stages :
                        /\ c[i] \in Seq(LabelType)
                        /\ stages[i].from = "stage" => c[i] = c[stages[i].stage] \o stages[i].labels
                        /\ stages[i].from # "stage" => c[i] = stages[i].labels
                  /\ ContainerfileLabels(stages) = c[Len(stages)]
<1> DEFINE D == DOMAIN stages
           S == Seq(LabelType)
           prev == FromStage(stages)
           Eq(h) == h = [i \in D |-> IF stages[i].from = "stage" THEN h[stages[i].stage] \o stages[i].labels
                                     ELSE stages[i].labels]
           c == CHOOSE h : Eq(h)
           base == [i \in D |-> stages[i].labels]
           next == [i \in D |-> [x \in S |-> x \o stages[i].labels]]
<1>1. ContainerfileLabels(stages) = c[Len(stages)]
  BY DEF ContainerfileLabels
<1>2. /\ Len(stages) \in Nat /\ D \subseteq 0..Len(stages)
      /\ prev \in [D -> D]
      /\ \A i \in D : prev[i] <= i
      /\ \A i \in D : prev[i] = i <=> stages[i].from # "stage"
      /\ \A i \in D : stages[i].from = "stage" => prev[i] = stages[i].stage
      /\ \A i \in D : stages[i].labels \in S
  BY StagesEarlier
<1> HIDE DEF prev
<1>3. base \in [D -> S] /\ next \in [D -> [S -> S]]
  <2>1. \A x \in S, i \in D : x \o stages[i].labels \in S
    BY <1>2
  <2> HIDE DEF S
  <2>2. QED
    BY <1>2, <2>1
<1> HIDE DEF base, next, S
<1>4. PICK f : Recurs(f, D, S, prev, base, next)
  <2> HIDE DEF D
  <2>1. Descends(Len(stages), D, prev)
    BY <1>2 DEF Descends
  <2>2. QED
    BY <1>3, <2>1, RecursionExists
<1>5. ASSUME NEW i \in D
      PROVE  f[i] = IF stages[i].from = "stage" THEN f[stages[i].stage] \o stages[i].labels ELSE stages[i].labels
  <2>1. CASE stages[i].from = "stage"
    <3>1. stages[i].stage \in D /\ f[stages[i].stage] \in S
      BY <1>2, <1>4, <2>1 DEF Recurs
    <3>2. f[i] = next[i][f[stages[i].stage]]
      BY <1>2, <1>4, <2>1 DEF Recurs
    <3>3. QED
      BY <2>1, <3>1, <3>2 DEF next
  <2>2. CASE stages[i].from # "stage"
    BY <1>2, <1>4, <2>2 DEF base, Recurs
  <2>3. QED
    BY <2>1, <2>2
<1>6. Eq(f)
  BY <1>4, <1>5 DEF Recurs
<1>7. Eq(c)
  BY <1>6
<1> HIDE DEF c
<1>8. \A i \in D : c[i] = IF stages[i].from = "stage" THEN c[stages[i].stage] \o stages[i].labels ELSE stages[i].labels
  BY <1>7
<1>9. \A i \in D : c[i] \in S
  <2>1. \A i \in D : prev[i] = i => c[i] \in S
    BY <1>2, <1>8
  <2>2. \A i \in D : prev[i] # i /\ c[prev[i]] \in S => c[i] \in S
    <3>1. ASSUME NEW i \in D, prev[i] # i, c[prev[i]] \in S PROVE c[i] \in S
      <4>1. c[i] = c[prev[i]] \o stages[i].labels /\ stages[i].labels \in S
        BY <1>2, <1>8, <3>1
      <4>2. QED
        BY <3>1, <4>1 DEF S
    <3>2. QED
      BY <3>1
  <2> HIDE DEF D
  <2>3. Descends(Len(stages), D, prev) /\ Preserves(c, D, S, prev)
    BY <1>2, <2>1, <2>2 DEF Descends, Preserves
  <2>4. QED
    BY <2>3, RecursionTyped
<1>10. QED
  BY <1>1, <1>8, <1>9 DEF S

(* The labels of a base image as buildah sees them. *)
BaseMap(stage) == IF stage.from = "image" THEN AsMap(BaseLabels[stage.image].labels) ELSE <<>>

(* A map is a function. *)
LEMMA MapAlone == \A labels : /\ Over(AsMap(labels), <<>>) = AsMap(labels)
                              /\ Over(<<>>, AsMap(labels)) = AsMap(labels)
<1>1. ASSUME NEW labels
      PROVE  AsMap(labels) = [k \in DOMAIN AsMap(labels) |-> AsMap(labels)[k]]
  BY DEF AsMap
<1>2. QED
  BY <1>1, OverMaps

(* The labels of the final stage as buildah builds it: what the chain of   *)
(* stages says, the later the stronger, over what the base image has.      *)
LEMMA BuiltLabels ==
    ASSUME NEW stages, IsContainerfile(stages), NEW inherit
    PROVE  /\ ~inherit => StageLabelsOf(stages, Len(stages), inherit) = AsMap(stages[Len(stages)].labels)
           /\ inherit => StageLabelsOf(stages, Len(stages), inherit)
                           = Over(AsMap(ContainerfileLabels(stages)), BaseMap(BaseStage(stages)))
           /\ ContainerfileLabels(stages) \in Seq(LabelType)
           /\ \E i \in DOMAIN stages : BaseStage(stages) = stages[i] /\ stages[i].from # "stage"
<1> DEFINE D == DOMAIN stages
           prev == FromStage(stages)
           From(h, i) == IF ~inherit THEN <<>>
                         ELSE IF stages[i].from = "stage" THEN h[stages[i].stage]
                         ELSE IF stages[i].from = "image" THEN AsMap(BaseLabels[stages[i].image].labels) ELSE <<>>
           Eq(h) == h = [i \in D |-> Over(AsMap(stages[i].labels), From(h, i))]
           g == CHOOSE h : Eq(h)
<1>1. StageLabelsOf(stages, Len(stages), inherit) = g[Len(stages)]
  BY DEF StageLabelsOf
<1>2. /\ Len(stages) \in Nat /\ Len(stages) \in D /\ D \subseteq 0..Len(stages)
      /\ prev \in [D -> D]
      /\ \A i \in D : prev[i] <= i
      /\ \A i \in D : prev[i] = i <=> stages[i].from # "stage"
      /\ \A i \in D : stages[i].from = "stage" => prev[i] = stages[i].stage
      /\ \A i \in D : stages[i].labels \in Seq(LabelType)
  BY StagesEarlier
<1> HIDE DEF prev
<1>3. PICK b : /\ \A i \in D : /\ b[i] \in D
                               /\ stages[i].from = "stage" => b[i] = b[stages[i].stage]
                               /\ stages[i].from # "stage" => b[i] = i
               /\ BaseStage(stages) = stages[b[Len(stages)]]
  BY BaseFollows
<1>4. PICK c : /\ \A i \in D : /\ c[i] \in Seq(LabelType)
                               /\ stages[i].from = "stage" => c[i] = c[stages[i].stage] \o stages[i].labels
                               /\ stages[i].from # "stage" => c[i] = stages[i].labels
               /\ ContainerfileLabels(stages) = c[Len(stages)]
  BY ChainFollows
<1> DEFINE known == [i \in D |-> IF ~inherit THEN AsMap(stages[i].labels)
                                  ELSE Over(AsMap(c[i]), BaseMap(stages[b[i]]))]
<1>5. ASSUME NEW i \in D
      PROVE  known[i] = Over(AsMap(stages[i].labels), From(known, i))
  <2>1. CASE ~inherit
    <3>1. known[i] = AsMap(stages[i].labels) /\ From(known, i) = <<>>
      BY <2>1
    <3> HIDE DEF known
    <3>2. QED
      BY <3>1, MapAlone
  <2>2. CASE inherit /\ stages[i].from = "stage"
    <3> DEFINE j == stages[i].stage
    <3>1. j \in D /\ b[i] = b[j] /\ c[i] = c[j] \o stages[i].labels
      <4>1. j = prev[i] /\ prev[i] \in D
        BY <1>2, <2>2
      <4>2. b[i] = b[stages[i].stage] /\ c[i] = c[stages[i].stage] \o stages[i].labels
        BY <1>3, <1>4, <2>2, Zenon
      <4>3. QED
        BY <4>1, <4>2
    <3>2. AsMap(c[i]) = Over(AsMap(stages[i].labels), AsMap(c[j]))
      BY <1>2, <1>4, <3>1, MapOfConcat
    <3>3. known[i] = Over(AsMap(c[i]), BaseMap(stages[b[i]])) /\ known[j] = Over(AsMap(c[j]), BaseMap(stages[b[j]]))
      BY <2>2, <3>1
    <3>4. From(known, i) = known[j]
      BY <2>2
    <3> HIDE DEF known, j
    <3>5. QED
      BY <3>1, <3>2, <3>3, <3>4, OverMaps
  <2>3. CASE inherit /\ stages[i].from # "stage"
    <3>1. b[i] = i /\ c[i] = stages[i].labels
      BY <1>3, <1>4, <2>3
    <3>2. known[i] = Over(AsMap(stages[i].labels), BaseMap(stages[i]))
      BY <2>3, <3>1
    <3>3. From(known, i) = BaseMap(stages[i])
      BY <2>3 DEF BaseMap
    <3> HIDE DEF known
    <3>4. QED
      BY <3>2, <3>3
  <2>4. QED
    BY <2>1, <2>2, <2>3
<1>6. Eq(known)
  <2>1. known = [i \in D |-> known[i]]
    OBVIOUS
  <2> HIDE DEF known
  <2>2. QED
    BY <1>5, <2>1
<1> HIDE DEF known
<1>7. Eq(g)
  BY <1>6
<1> HIDE DEF g
<1>8. \A i \in D : g[i] = known[i]
  <2> DEFINE same == [i \in D |-> IF g[i] = known[i] THEN 0 ELSE 1]
  <2>1. \A i \in D : g[i] = Over(AsMap(stages[i].labels), From(g, i))
    BY <1>7
  <2>2. ASSUME NEW i \in D, prev[i] = i PROVE g[i] = known[i]
    <3>1. From(g, i) = From(known, i)
      BY <1>2, <2>2
    <3>2. QED
      BY <1>5, <2>1, <3>1
  <2>3. ASSUME NEW i \in D, prev[i] # i, g[prev[i]] = known[prev[i]] PROVE g[i] = known[i]
    <3>1. From(g, i) = From(known, i)
      BY <1>2, <2>3
    <3>2. QED
      BY <1>5, <2>1, <3>1
  <2>4. \A i \in D : same[i] \in {0} <=> g[i] = known[i]
    OBVIOUS
  <2> HIDE DEF same, D
  <2>5. Preserves(same, D, {0}, prev)
    BY <1>2, <2>2, <2>3, <2>4 DEF Preserves
  <2>6. Descends(Len(stages), D, prev)
    BY <1>2 DEF Descends
  <2>7. \A i \in D : same[i] \in {0}
    BY <2>5, <2>6, RecursionTyped
  <2>8. QED
    BY <2>4, <2>7
<1>9. StageLabelsOf(stages, Len(stages), inherit) = known[Len(stages)]
  BY <1>1, <1>2, <1>8
<1>10. ~inherit => known[Len(stages)] = AsMap(stages[Len(stages)].labels)
  BY <1>2 DEF known
<1>11. inherit => known[Len(stages)] = Over(AsMap(ContainerfileLabels(stages)), BaseMap(BaseStage(stages)))
  BY <1>2, <1>3, <1>4 DEF known
<1>12. \E i \in D : BaseStage(stages) = stages[i] /\ stages[i].from # "stage"
  <2> DEFINE ends == [i \in D |-> IF stages[b[i]].from = "stage" THEN 1 ELSE 0]
  <2>1. \A i \in D : ends[i] \in {0} <=> stages[b[i]].from # "stage"
    OBVIOUS
  <2> HIDE DEF ends
  <2>2. \A i \in D : prev[i] = i => ends[i] \in {0}
    BY <1>2, <1>3, <2>1
  <2>3. \A i \in D : prev[i] # i /\ ends[prev[i]] \in {0} => ends[i] \in {0}
    <3>1. ASSUME NEW i \in D, prev[i] # i, ends[prev[i]] \in {0} PROVE ends[i] \in {0}
      <4>1. stages[i].from = "stage" /\ prev[i] = stages[i].stage /\ prev[i] \in D
        BY <1>2, <3>1
      <4>2. b[i] = b[stages[i].stage]
        BY <1>3, <4>1, Zenon
      <4>3. QED
        BY <2>1, <3>1, <4>1, <4>2
    <3>2. QED
      BY <3>1
  <2> HIDE DEF D
  <2>4. Preserves(ends, D, {0}, prev) /\ Descends(Len(stages), D, prev)
    BY <1>2, <2>2, <2>3 DEF Preserves, Descends
  <2>5. \A i \in D : ends[i] \in {0}
    BY <2>4, RecursionTyped
  <2>6. QED
    BY <1>2, <1>3, <2>1, <2>5
<1>13. QED
  BY <1>2, <1>4, <1>9, <1>10, <1>11, <1>12

(* The texts of the inputs, and those of the code itself. *)
AnyText == STRING \union {"", "a flag", "true", "created", "source", "revision", "build-date", "architecture",
                          "arch", "vcs-url", "vcs-ref", "vcs-type", "git", "quay.expires-after", "expires",
                          "io.buildah.version", "version"}
AnyLabel == [key: AnyText, value: AnyText] \union {LabelOf[t] : t \in AnyText}

Within(a, b) == \A k \in DOMAIN a : k \in DOMAIN b /\ b[k] = a[k]

(* What is copied over a larger map gives a larger map. *)
LEMMA OverWithin == /\ \A a, b : Within(a, Over(a, b))
                    /\ \A a, b, c : Within(a, b) => Within(Over(c, a), Over(c, b))
<1>1. ASSUME NEW a, NEW b
      PROVE  Within(a, Over(a, b))
  BY DEF Within, Over
<1>2. ASSUME NEW a, NEW b, NEW c, Within(a, b)
      PROVE  Within(Over(c, a), Over(c, b))
  BY <1>2 DEF Within, Over
<1>3. QED
  BY <1>1, <1>2

(* Labels of the code and of the user are labels. *)
LEMMA SomeLabels == Seq(LabelType) \subseteq Seq(AnyLabel)
<1>1. LabelType \subseteq AnyLabel
  <2>1. STRING \subseteq AnyText
    BY DEF AnyText
  <2>2. QED
    BY <2>1 DEF AnyLabel, LabelType
<1>2. ASSUME NEW s \in Seq(LabelType)
      PROVE  s \in Seq(AnyLabel)
  <2> HIDE DEF LabelType, AnyLabel
  <2>1. QED
    BY <1>1
<1>3. QED
  BY <1>2

(* labels.json against the labels that buildah gives the image of the last *)
(* stage before it adds those of --stage-labels.                           *)
LEMMA LabelsForetold ==
    ASSUME NEW stages, IsContainerfile(stages), NEW o, NEW user \in Seq(AnyLabel)
    PROVE  LET json == DetermineFinalLabels(stages, o, user)
               labels == Over(AsMap(VersionLabel(o)),
                              Over(AsMap(user), StageLabelsOf(stages, Len(stages), o.inherit)))
           IN  \/ json = labels
               \/ /\ o.inherit /\ BaseStage(stages).from = "image" /\ ~Pullable(BaseStage(stages))
                  /\ Within(json, labels)
<1> DEFINE L == Seq(AnyLabel)
           last == BaseStage(stages)
           chain == ContainerfileLabels(stages)
           first == IF o.inherit THEN BaseImageLabels(last) \o chain ELSE stages[Len(stages)].labels
           version == VersionLabel(o)
           over(m) == Over(AsMap(version), Over(AsMap(user), m))
<1>1. chain \in L /\ stages[Len(stages)].labels \in L
  BY BuiltLabels, StagesEarlier, SomeLabels
<1>2. PICK i \in DOMAIN stages : last = stages[i] /\ stages[i].from # "stage"
  BY BuiltLabels
<1>3. BaseImageLabels(last) \in L
  <2>1. last.from = "image" => BaseLabels[last.image].labels \in L
    BY <1>2, StagesEarlier, SomeLabels
  <2>2. <<>> \in L
    OBVIOUS
  <2>3. QED
    BY <2>1, <2>2 DEF BaseImageLabels, Pullable, If
<1>4. version \in L
  <2>1. Label("io.buildah.version", "version") \in AnyLabel
    BY DEF Label, AnyLabel, AnyText
  <2>2. <<>> \in L /\ <<Label("io.buildah.version", "version")>> \in L
    BY <2>1
  <2>3. QED
    BY <2>2 DEF VersionLabel, If
<1>5. first \in L
  BY <1>1, <1>3
<1>6. DetermineFinalLabels(stages, o, user) = over(AsMap(first))
  <2>1. DetermineFinalLabels(stages, o, user) = AsMap((first \o user) \o version)
    BY DEF DetermineFinalLabels
  <2> HIDE DEF first, version
  <2>2. first \o user \in L
    BY <1>5
  <2>3. AsMap((first \o user) \o version) = Over(AsMap(version), AsMap(first \o user))
    BY <1>4, <2>2, MapOfConcat
  <2>4. AsMap(first \o user) = Over(AsMap(user), AsMap(first))
    BY <1>5, MapOfConcat
  <2>5. QED
    BY <2>1, <2>3, <2>4
<1>7. Over(AsMap(VersionLabel(o)), Over(AsMap(user), StageLabelsOf(stages, Len(stages), o.inherit)))
         = over(StageLabelsOf(stages, Len(stages), o.inherit))
  OBVIOUS
<1>8. CASE ~o.inherit
  <2>1. AsMap(first) = StageLabelsOf(stages, Len(stages), o.inherit)
    BY <1>8, BuiltLabels
  <2> HIDE DEF first, version
  <2>2. QED
    BY <1>6, <1>7, <2>1
<1>9. CASE o.inherit
  <2>1. StageLabelsOf(stages, Len(stages), o.inherit) = Over(AsMap(chain), BaseMap(last))
    BY <1>9, BuiltLabels
  <2>2. AsMap(first) = Over(AsMap(chain), AsMap(BaseImageLabels(last)))
    BY <1>1, <1>3, <1>9, MapOfConcat
  <2>3. CASE last.from = "image" /\ ~Pullable(last)
    <3>1. BaseImageLabels(last) = <<>>
      BY <2>3 DEF BaseImageLabels, If
    <3>2. AsMap(first) = AsMap(chain)
      BY <2>2, <3>1, NoLabels, MapAlone
    <3> HIDE DEF first, version, chain
    <3>3. Within(AsMap(first), StageLabelsOf(stages, Len(stages), o.inherit))
      BY <2>1, <3>2, OverWithin
    <3>4. Within(over(AsMap(first)), over(StageLabelsOf(stages, Len(stages), o.inherit)))
      BY <3>3, OverWithin
    <3>5. QED
      BY <1>6, <1>7, <1>9, <2>3, <3>4
  <2>4. CASE ~(last.from = "image" /\ ~Pullable(last))
    <3>1. AsMap(BaseImageLabels(last)) = BaseMap(last)
      BY <2>4, NoLabels DEF BaseImageLabels, BaseMap, If, Pullable
    <3> HIDE DEF first, version, chain
    <3>2. QED
      BY <1>6, <1>7, <2>1, <2>2, <3>1
  <2>5. QED
    BY <2>3, <2>4
<1>10. QED
  BY <1>8, <1>9

(* Labels added on top of a map change it at their own keys only. *)
LEMMA OverElsewhere ==
    ASSUME NEW added, NEW given
    PROVE  /\ DOMAIN Over(added, given) \ DOMAIN added = DOMAIN given \ DOMAIN added
           /\ \A k \in DOMAIN given \ DOMAIN added : Over(added, given)[k] = given[k]
BY DEF Over

--------------------------------------------------------------------------------
(* The command line.                                                       *)

Folds(f, len, S, first, next) == /\ f \in [0..len -> S] /\ f[0] = first
                                 /\ \A n \in 1..len : f[n] = next[n][f[n - 1]]

(* A loop over 1..len has a state after each round. *)
LEMMA FoldExists ==
    ASSUME NEW len \in Nat, NEW S, NEW first \in S, NEW next \in [1..len -> [S -> S]]
    PROVE  \E f : Folds(f, len, S, first, next)
<1> DEFINE D == 0..len
           prev == [n \in D |-> IF n = 0 THEN 0 ELSE n - 1]
           base == [n \in D |-> first]
           more == [n \in D |-> IF n = 0 THEN [x \in S |-> x] ELSE next[n]]
<1>1. \A n \in D : n # 0 => n \in 1..len /\ n - 1 \in D /\ n - 1 # n /\ n - 1 <= n
  OBVIOUS
<1>2. 0 \in D /\ \A n \in 1..len : n \in D /\ n # 0
  OBVIOUS
<1>3. Descends(len, D, prev)
  BY <1>1, <1>2 DEF Descends
<1>4. base \in [D -> S] /\ more \in [D -> [S -> S]]
  BY <1>1
<1>5. /\ \A n \in D : prev[n] = IF n = 0 THEN 0 ELSE n - 1
      /\ \A n \in D : base[n] = first
      /\ \A n \in D : n # 0 => more[n] = next[n]
  OBVIOUS
<1> HIDE DEF D, prev, base, more
<1>6. PICK f : Recurs(f, D, S, prev, base, more)
  BY <1>3, <1>4, RecursionExists
<1>7. f \in [D -> S] /\ f[0] = first
  BY <1>2, <1>5, <1>6 DEF Recurs
<1>8. ASSUME NEW n \in 1..len PROVE f[n] = next[n][f[n - 1]]
  BY <1>1, <1>2, <1>5, <1>6 DEF Recurs
<1>9. QED
  BY <1>7, <1>8 DEF Folds, D

(* What holds of the first state and is kept by each round holds after     *)
(* each.                                                                   *)
LEMMA FoldTyped ==
    ASSUME NEW len \in Nat, NEW S, NEW g, g[0] \in S, \A n \in 1..len : g[n - 1] \in S => g[n] \in S
    PROVE  \A n \in 0..len : g[n] \in S
<1> DEFINE W == {k \in 0..len : g[k] \in S}
<1>1. 0 \in W
  OBVIOUS
<1>2. ASSUME NEW k \in 0..(len - 1), k \in W
      PROVE  k + 1 \in W
  <2>1. k + 1 \in 1..len /\ (k + 1) - 1 = k /\ k + 1 \in 0..len
    OBVIOUS
  <2>2. g[k + 1] \in S
    BY <1>2, <2>1
  <2>3. QED
    BY <2>1, <2>2
<1>3. \A k \in 0..len : k \in W
  <2> HIDE DEF W
  <2>1. QED
    BY <1>1, <1>2, UpTo
<1>4. QED
  BY <1>3

AnyToken == [kind: {"word", "flag", "flag=", "--"}, flag: AnyText, text: AnyText]
ExpandState == [out: Seq(AnyToken), flag: AnyText, stopped: BOOLEAN]
ParseState == [error: BOOLEAN, flags: [Names -> Seq(AnyText)], args: Seq(AnyText),
               pending: AnyText, stopped: BOOLEAN]

(* The types of one round of each of the two loops. *)
LEMMA RoundTypes ==
    /\ NothingExpanded \in ExpandState /\ NothingParsed \in ParseState /\ ParseError \in ParseState
    /\ ParseError.error
    /\ \A arrays : \A s \in ExpandState, arg \in AnyToken : ExpandToken(s, arg, arrays) \in ExpandState
    /\ \A r \in ParseState, arg \in AnyToken : ParseToken(r, arg) \in ParseState
<1>1. "" \in AnyText /\ "a flag" \in AnyText /\ "true" \in AnyText
  BY DEF AnyText
<1> HIDE DEF AnyText
<1>2. <<>> \in Seq(AnyToken) /\ <<>> \in Seq(AnyText)
  OBVIOUS
<1>3. NothingExpanded \in ExpandState
  BY <1>1, <1>2 DEF NothingExpanded, ExpandState
<1>4. NothingParsed \in ParseState /\ ParseError \in ParseState /\ ParseError.error
  BY <1>1, <1>2 DEF NothingParsed, ParseState, ParseError
<1>5. ASSUME NEW s \in ExpandState, NEW arg \in AnyToken, NEW arrays
      PROVE  ExpandToken(s, arg, arrays) \in ExpandState
  <2>1. s.out \in Seq(AnyToken) /\ s.flag \in AnyText /\ s.stopped \in BOOLEAN
    BY DEF ExpandState
  <2>2. arg.flag \in AnyText /\ arg.text \in AnyText /\ Word(arg.text) \in AnyToken
    BY <1>1 DEF AnyToken, Word
  <2>3. \A f \in AnyText, w \in AnyToken : Repeat(f, w) \in Seq(AnyToken)
    <3>1. \A f \in AnyText : Flag(f) \in AnyToken
      BY <1>1 DEF AnyToken, Flag
    <3> HIDE DEF AnyToken
    <3>2. ASSUME NEW f \in AnyText, NEW w \in AnyToken
          PROVE  Repeat(f, w) \in Seq(AnyToken)
      <4>1. Flag(f) \in AnyToken
        BY <3>1
      <4>2. <<w>> \in Seq(AnyToken) /\ <<Flag(f), w>> \in Seq(AnyToken)
        BY <4>1
      <4>3. QED
        BY <4>2 DEF Repeat
    <3>3. QED
      BY <3>2
  <2> HIDE DEF AnyToken
  <2>4. /\ Append(s.out, arg) \in Seq(AnyToken) /\ s.out \o Repeat(s.flag, arg) \in Seq(AnyToken)
        /\ s.out \o Repeat(arg.flag, Word(arg.text)) \in Seq(AnyToken)
    BY <2>1, <2>2, <2>3
  <2>5. \A o \in Seq(AnyToken), f \in AnyText :
           /\ [s EXCEPT !.out = o] \in ExpandState /\ [s EXCEPT !.flag = f] \in ExpandState
           /\ [s EXCEPT !.out = o, !.flag = f] \in ExpandState
           /\ [out |-> o, flag |-> f, stopped |-> TRUE] \in ExpandState
    BY DEF ExpandState
  <2>6. QED
    BY <1>1, <2>2, <2>4, <2>5 DEF ExpandToken
<1>6. ASSUME NEW r \in ParseState, NEW flag, NEW text \in AnyText
      PROVE  Set(r, flag, text) \in ParseState
  <2>1. ASSUME flag \in Names
        PROVE  [r EXCEPT !.flags[flag] = Append(@, text), !.pending = ""] \in ParseState
    <3>1. r.flags \in [Names -> Seq(AnyText)] /\ r.flags[flag] \in Seq(AnyText)
      BY <2>1 DEF ParseState
    <3>2. Append(r.flags[flag], text) \in Seq(AnyText)
      BY <3>1
    <3>3. [r.flags EXCEPT ![flag] = Append(@, text)] \in [Names -> Seq(AnyText)]
      BY <3>1, <3>2
    <3>4. QED
      BY <1>1, <3>3 DEF ParseState
  <2>2. QED
    BY <1>4, <2>1 DEF Set
<1>7. ASSUME NEW r \in ParseState, NEW arg \in AnyToken
      PROVE  ParseToken(r, arg) \in ParseState
  <2>1. arg.flag \in AnyText /\ arg.text \in AnyText
    BY DEF AnyToken
  <2>2. Append(r.args, arg.text) \in Seq(AnyText)
    BY <2>1 DEF ParseState
  <2>3. [r EXCEPT !.args = Append(@, arg.text)] \in ParseState
    BY <2>2 DEF ParseState
  <2>4. [r EXCEPT !.stopped = TRUE] \in ParseState /\ [r EXCEPT !.pending = arg.flag] \in ParseState
    BY <2>1 DEF ParseState
  <2>5. QED
    BY <1>1, <1>6, <2>1, <2>3, <2>4 DEF ParseToken
<1>8. QED
  BY <1>3, <1>4, <1>5, <1>7

(* What Expand computes. *)
LEMMA ExpandFollows ==
    ASSUME NEW line \in Seq(AnyToken), NEW arrays
    PROVE  \E x : /\ \A n \in 0..Len(line) : x[n] \in ExpandState
                  /\ x[0] = NothingExpanded
                  /\ \A n \in 1..Len(line) : x[n] = ExpandToken(x[n - 1], line[n], arrays)
                  /\ Expand(line, arrays) = x[Len(line)].out
<1> DEFINE len == Len(line)
           S == ExpandState
           Eq(h) == h = [n \in 0..len |-> IF n = 0 THEN NothingExpanded ELSE ExpandToken(h[n - 1], line[n], arrays)]
           x == CHOOSE h : Eq(h)
           next == [n \in 1..len |-> [s \in S |-> ExpandToken(s, line[n], arrays)]]
<1>1. Expand(line, arrays) = x[len].out
  BY DEF Expand
<1>2. len \in Nat /\ \A n \in 1..len : line[n] \in AnyToken
  <2> HIDE DEF AnyToken
  <2>1. QED
    OBVIOUS
<1> HIDE DEF S
<1>3. NothingExpanded \in S /\ \A n \in 1..len : \A s \in S : ExpandToken(s, line[n], arrays) \in S
  BY <1>2, RoundTypes DEF S
<1> HIDE DEF len
<1>4. next \in [1..len -> [S -> S]]
  BY <1>3
<1>5. \A n \in 1..len : \A s \in S : next[n][s] = ExpandToken(s, line[n], arrays)
  OBVIOUS
<1> HIDE DEF next
<1>6. PICK f : Folds(f, len, S, NothingExpanded, next)
  BY <1>2, <1>3, <1>4, FoldExists
<1>7. ASSUME NEW n \in 0..len
      PROVE  f[n] = IF n = 0 THEN NothingExpanded ELSE ExpandToken(f[n - 1], line[n], arrays)
  <2>1. CASE n = 0
    BY <1>6, <2>1 DEF Folds
  <2>2. CASE n # 0
    <3>1. n \in 1..len /\ n - 1 \in 0..len
      BY <1>2, <2>2
    <3>2. f[n] = next[n][f[n - 1]] /\ f[n - 1] \in S
      BY <1>6, <3>1 DEF Folds
    <3>3. QED
      BY <1>5, <2>2, <3>1, <3>2
  <2>3. QED
    BY <2>1, <2>2
<1>8. Eq(f)
  <2>1. f = [n \in 0..len |-> f[n]]
    BY <1>6 DEF Folds
  <2>2. QED
    BY <1>7, <2>1
<1>9. Eq(x)
  BY <1>8
<1> HIDE DEF x
<1>10. x[0] = NothingExpanded /\ \A n \in 1..len : x[n] = ExpandToken(x[n - 1], line[n], arrays)
  <2>1. 0 \in 0..len /\ \A n \in 1..len : n \in 0..len /\ n # 0
    BY <1>2
  <2>2. QED
    BY <1>9, <2>1
<1>11. \A n \in 0..len : x[n] \in S
  BY <1>2, <1>3, <1>10, FoldTyped
<1>12. QED
  BY <1>1, <1>10, <1>11 DEF S, len

(* What Parsing computes. *)
LEMMA ParsingFollows ==
    ASSUME NEW tokens \in Seq(AnyToken)
    PROVE  \E r : /\ \A n \in 0..Len(tokens) : r[n] \in ParseState
                  /\ r[0] = NothingParsed
                  /\ \A n \in 1..Len(tokens) : r[n] = ParseToken(r[n - 1], tokens[n])
                  /\ Parsing(tokens) = r[Len(tokens)]
<1> DEFINE len == Len(tokens)
           S == ParseState
           Eq(h) == h = [n \in 0..len |-> IF n = 0 THEN NothingParsed ELSE ParseToken(h[n - 1], tokens[n])]
           x == CHOOSE h : Eq(h)
           next == [n \in 1..len |-> [s \in S |-> ParseToken(s, tokens[n])]]
<1>1. Parsing(tokens) = x[len]
  BY DEF Parsing
<1>2. len \in Nat /\ \A n \in 1..len : tokens[n] \in AnyToken
  <2> HIDE DEF AnyToken
  <2>1. QED
    OBVIOUS
<1> HIDE DEF S
<1>3. NothingParsed \in S /\ \A n \in 1..len : \A s \in S : ParseToken(s, tokens[n]) \in S
  BY <1>2, RoundTypes DEF S
<1> HIDE DEF len
<1>4. next \in [1..len -> [S -> S]]
  BY <1>3
<1>5. \A n \in 1..len : \A s \in S : next[n][s] = ParseToken(s, tokens[n])
  OBVIOUS
<1> HIDE DEF next
<1>6. PICK f : Folds(f, len, S, NothingParsed, next)
  BY <1>2, <1>3, <1>4, FoldExists
<1>7. ASSUME NEW n \in 0..len
      PROVE  f[n] = IF n = 0 THEN NothingParsed ELSE ParseToken(f[n - 1], tokens[n])
  <2>1. CASE n = 0
    BY <1>6, <2>1 DEF Folds
  <2>2. CASE n # 0
    <3>1. n \in 1..len /\ n - 1 \in 0..len
      BY <1>2, <2>2
    <3>2. f[n] = next[n][f[n - 1]] /\ f[n - 1] \in S
      BY <1>6, <3>1 DEF Folds
    <3>3. QED
      BY <1>5, <2>2, <3>1, <3>2
  <2>3. QED
    BY <2>1, <2>2
<1>8. Eq(f)
  <2>1. f = [n \in 0..len |-> f[n]]
    BY <1>6 DEF Folds
  <2>2. QED
    BY <1>7, <2>1
<1>9. Eq(x)
  BY <1>8
<1> HIDE DEF x
<1>10. x[0] = NothingParsed /\ \A n \in 1..len : x[n] = ParseToken(x[n - 1], tokens[n])
  <2>1. 0 \in 0..len /\ \A n \in 1..len : n \in 0..len /\ n # 0
    BY <1>2
  <2>2. QED
    BY <1>9, <2>1
<1>11. \A n \in 0..len : x[n] \in S
  BY <1>2, <1>3, <1>10, FoldTyped
<1>12. QED
  BY <1>1, <1>10, <1>11 DEF S, len

(* Parsing one more token. *)
LEMMA ParseOneMore ==
    /\ Parsing(<<>>) = NothingParsed
    /\ \A tokens \in Seq(AnyToken) :
          /\ Parsing(tokens) \in ParseState
          /\ \A arg \in AnyToken : Parsing(Append(tokens, arg)) = ParseToken(Parsing(tokens), arg)
<1> HIDE DEF AnyToken
<1>1. <<>> \in Seq(AnyToken) /\ Len(<<>>) = 0
  OBVIOUS
<1>2. Parsing(<<>>) = NothingParsed
  BY <1>1, ParsingFollows
<1>3. ASSUME NEW tokens \in Seq(AnyToken)
      PROVE  Parsing(tokens) \in ParseState
  <2>1. Len(tokens) \in 0..Len(tokens)
    OBVIOUS
  <2>2. QED
    BY <2>1, ParsingFollows
<1>4. ASSUME NEW tokens \in Seq(AnyToken), NEW arg \in AnyToken
      PROVE  Parsing(Append(tokens, arg)) = ParseToken(Parsing(tokens), arg)
  <2> DEFINE more == Append(tokens, arg)
             len == Len(tokens)
  <2>1. /\ more \in Seq(AnyToken) /\ Len(more) = len + 1 /\ len \in Nat
        /\ more[len + 1] = arg
        /\ \A n \in 1..len : more[n] = tokens[n]
    OBVIOUS
  <2> HIDE DEF more
  <2>2. PICK r : /\ \A n \in 0..len : r[n] \in ParseState
                 /\ r[0] = NothingParsed
                 /\ \A n \in 1..len : r[n] = ParseToken(r[n - 1], tokens[n])
                 /\ Parsing(tokens) = r[len]
    BY ParsingFollows
  <2>3. PICK q : /\ q[0] = NothingParsed
                 /\ \A n \in 1..(len + 1) : q[n] = ParseToken(q[n - 1], more[n])
                 /\ Parsing(more) = q[len + 1]
    BY <2>1, ParsingFollows
  <2> HIDE DEF len
  <2>4. \A n \in 1..len : n \in 1..(len + 1)
    BY <2>1
  <2>5. \A n \in 0..len : q[n] = r[n]
    <3> DEFINE same == [n \in 0..len |-> IF q[n] = r[n] THEN 0 ELSE 1]
           Z == {0}
    <3>1. \A n \in 0..len : same[n] \in Z <=> q[n] = r[n]
      OBVIOUS
    <3>2. 0 \in 0..len /\ \A n \in 1..len : n \in 0..len /\ n - 1 \in 0..len
      BY <2>1
    <3> HIDE DEF same, Z
    <3>3. same[0] \in Z
      BY <2>2, <2>3, <3>1, <3>2
    <3>4. ASSUME NEW n \in 1..len, same[n - 1] \in Z
          PROVE  same[n] \in Z
      <4>1. q[n - 1] = r[n - 1]
        BY <3>1, <3>2, <3>4
      <4>2. q[n] = r[n]
        BY <2>1, <2>2, <2>3, <2>4, <4>1
      <4>3. QED
        BY <3>1, <3>2, <4>2
    <3>5. \A n \in 0..len : same[n] \in Z
      BY <2>1, <3>3, <3>4, FoldTyped
    <3>6. QED
      BY <3>1, <3>5
  <2>6. q[len + 1] = ParseToken(q[(len + 1) - 1], more[len + 1]) /\ (len + 1) - 1 = len /\ len \in 0..len
    <3>1. len + 1 \in 1..(len + 1) /\ (len + 1) - 1 = len /\ len \in 0..len
      BY <2>1
    <3>2. QED
      BY <2>3, <3>1
  <2>7. QED
    BY <2>1, <2>2, <2>3, <2>5, <2>6 DEF more
<1>5. QED
  BY <1>2, <1>3, <1>4

TextsSoFar(line, P, t) ==
    /\ \A n \in 0..Len(line) : t[n] \in Seq(AnyText)
    /\ t[0] = <<>>
    /\ \A n \in 1..Len(line) : t[n] = IF n \in P THEN Append(t[n - 1], TextAt(line, n)) ELSE t[n - 1]
    /\ TextsAt(line, P) = t[Len(line)]

(* What TextsAt computes: a text for each position of S, in their order. *)
LEMMA TextsFollow ==
    ASSUME NEW line \in Seq(AnyToken), NEW P
    PROVE  \E t : TextsSoFar(line, P, t)
<1> DEFINE len == Len(line)
           S == Seq(AnyText)
           Step(s, n) == IF n \in P THEN Append(s, TextAt(line, n)) ELSE s
           Eq(h) == h = [n \in 0..len |-> IF n = 0 THEN <<>>
                                          ELSE IF n \in P THEN Append(h[n - 1], TextAt(line, n)) ELSE h[n - 1]]
           x == CHOOSE h : Eq(h)
           next == [n \in 1..len |-> [s \in S |-> Step(s, n)]]
<1>1. TextsAt(line, P) = x[len]
  BY DEF TextsAt
<1>2. len \in Nat /\ \A n \in 1..len : line[n] \in AnyToken
  <2> HIDE DEF AnyToken
  <2>1. QED
    OBVIOUS
<1>3. \A n \in 1..len : TextAt(line, n) \in AnyText
  <2>1. \A a \in AnyToken : a.text \in AnyText
    BY DEF AnyToken
  <2>2. "true" \in AnyText
    BY DEF AnyText
  <2>3. QED
    BY <1>2, <2>1, <2>2 DEF TextAt
<1>4. <<>> \in S /\ \A n \in 1..len : \A s \in S : Step(s, n) \in S
  <2>1. ASSUME NEW n \in 1..len, NEW s \in S PROVE Append(s, TextAt(line, n)) \in S
    <3>1. TextAt(line, n) \in AnyText
      BY <1>3
    <3> HIDE DEF AnyText
    <3>2. QED
      BY <3>1
  <2>2. <<>> \in S
    OBVIOUS
  <2> HIDE DEF S
  <2>3. QED
    BY <2>1, <2>2
<1> HIDE DEF len, S
<1>5. next \in [1..len -> [S -> S]]
  <2> HIDE DEF Step
  <2>1. QED
    BY <1>4
<1>6. \A n \in 1..len : \A s \in S : next[n][s] = Step(s, n)
  <2> HIDE DEF Step
  <2>1. QED
    OBVIOUS
<1> HIDE DEF next
<1>7. PICK f : Folds(f, len, S, <<>>, next)
  BY <1>2, <1>4, <1>5, FoldExists
<1>8. ASSUME NEW n \in 0..len
      PROVE  f[n] = IF n = 0 THEN <<>> ELSE Step(f[n - 1], n)
  <2> HIDE DEF Step
  <2>1. CASE n = 0
    BY <1>7, <2>1 DEF Folds
  <2>2. CASE n # 0
    <3>1. n \in 1..len /\ n - 1 \in 0..len
      BY <1>2, <2>2
    <3>2. f[n] = next[n][f[n - 1]] /\ f[n - 1] \in S
      BY <1>7, <3>1 DEF Folds
    <3>3. QED
      BY <1>6, <2>2, <3>1, <3>2
  <2>3. QED
    BY <2>1, <2>2
<1>9. Eq(f)
  <2>1. f = [n \in 0..len |-> f[n]]
    BY <1>7 DEF Folds
  <2>2. QED
    BY <1>8, <2>1
<1>10. Eq(x)
  BY <1>9
<1> HIDE DEF x
<1>11. x[0] = <<>> /\ \A n \in 1..len : x[n] = Step(x[n - 1], n)
  <2>1. 0 \in 0..len /\ \A n \in 1..len : n \in 0..len /\ n # 0
    BY <1>2
  <2>2. QED
    BY <1>10, <2>1
<1>12. \A n \in 0..len : x[n] \in S
  <2> HIDE DEF Step
  <2>1. \A n \in 1..len : x[n - 1] \in S => x[n] \in S
    BY <1>4, <1>11
  <2>2. QED
    BY <1>2, <1>4, <1>11, <2>1, FoldTyped
<1>13. QED
  BY <1>1, <1>11, <1>12 DEF S, len, TextsSoFar

Lists(line, P, t, n) == /\ Len(t) <= n
                        /\ \A j \in 1..n : j \in P => \E k \in 1..Len(t) : t[k] = TextAt(line, j)

(* Each position of P has its text in the list. *)
LEMMA TextsListed ==
    ASSUME NEW line \in Seq(AnyToken), NEW P
    PROVE  Lists(line, P, TextsAt(line, P), Len(line))
<1> DEFINE len == Len(line)
<1>0. len \in Nat
  OBVIOUS
<1>a. PICK t : TextsSoFar(line, P, t)
  BY TextsFollow
<1>1. /\ \A n \in 0..len : t[n] \in Seq(AnyText)
      /\ t[0] = <<>>
      /\ \A n \in 1..len : t[n] = IF n \in P THEN Append(t[n - 1], TextAt(line, n)) ELSE t[n - 1]
      /\ TextsAt(line, P) = t[len]
  BY <1>a DEF TextsSoFar
<1> HIDE DEF len
<1> DEFINE W == {n \in 0..len : Lists(line, P, t[n], n)}
<1>2. 0 \in W
  <2>1. Len(t[0]) = 0 /\ 0 \in 0..len /\ \A j \in 1..0 : FALSE
    BY <1>0, <1>1
  <2>2. QED
    BY <2>1 DEF Lists
<1>3. ASSUME NEW m \in 0..(len - 1), m \in W
      PROVE  m + 1 \in W
  <2> DEFINE n == m + 1
             s == t[m]
             txt == TextAt(line, n)
  <2>1. n \in 1..len /\ n \in 0..len /\ n - 1 = m /\ m \in 0..len /\ m \in Nat
    BY <1>0
  <2>2. s \in Seq(AnyText) /\ t[n] \in Seq(AnyText)
    BY <1>1, <2>1
  <2>3. Lists(line, P, s, m)
    BY <1>3
  <2>4. \A j \in 1..n : j \in 1..m \/ j = n
    BY <2>1
  <2>5. CASE n \in P
    <3>1. t[n] = Append(s, txt)
      BY <1>1, <2>1, <2>5
    <3> HIDE DEF n, s, txt
    <3>2. Len(t[n]) = Len(s) + 1 /\ t[n][Len(s) + 1] = txt /\ \A k \in 1..Len(s) : t[n][k] = s[k]
      BY <2>2, <3>1
    <3>3. Len(s) \in Nat /\ Len(s) <= m
      BY <2>2, <2>3 DEF Lists
    <3>4. Len(s) + 1 \in 1..Len(t[n]) /\ \A k \in 1..Len(s) : k \in 1..Len(t[n])
      BY <3>2, <3>3
    <3>5. Len(t[n]) <= n
      BY <2>1, <3>2, <3>3 DEF n
    <3>6. ASSUME NEW j \in 1..n, j \in P
          PROVE  \E k \in 1..Len(t[n]) : t[n][k] = TextAt(line, j)
      <4>1. CASE j = n
        BY <3>2, <3>4, <4>1 DEF txt
      <4>2. CASE j \in 1..m
        <5>1. PICK k \in 1..Len(s) : s[k] = TextAt(line, j)
          BY <2>3, <3>6, <4>2 DEF Lists
        <5>2. QED
          BY <3>2, <3>4, <5>1
      <4>3. QED
        BY <2>4, <4>1, <4>2
    <3>7. QED
      BY <2>1, <3>5, <3>6 DEF Lists, n
  <2>6. CASE n \notin P
    <3>1. t[n] = s
      BY <1>1, <2>1, <2>6
    <3>2. Len(s) \in Nat /\ Len(s) <= n
      BY <2>1, <2>2, <2>3 DEF Lists
    <3>3. Lists(line, P, s, n)
      BY <2>3, <2>4, <2>6, <3>2 DEF Lists
    <3>4. QED
      BY <2>1, <3>1, <3>3
  <2>7. QED
    BY <2>5, <2>6
<1>4. \A n \in 0..len : n \in W
  <2> HIDE DEF W
  <2>1. QED
    BY <1>0, <1>2, <1>3, UpTo
<1>5. len \in 0..len
  BY <1>0
<1>6. QED
  BY <1>1, <1>4, <1>5 DEF len

Slices == {p \in Names : Parameters[p].kind = "slice"}

(* On a command line that names the command first, its array flags are     *)
(* known.                                                                  *)
LEMMA CommandFound ==
    ASSUME NEW line \in Seq(AnyToken), WellFormed(line)
    PROVE  ArrayFlags(CommandPath(line)) = Slices
<1> DEFINE Leads(n) == /\ \A i \in 1..n : line[i].kind = "word"
                       /\ n < Len(line) => line[n + 1].kind # "word"
           m == CHOOSE n \in 0..Len(line) : Leads(n)
<1>1. Len(line) \in Nat /\ Len(line) # 0
  BY DEF WellFormed
<1>2. line[1].kind = "word" /\ line[1].text = "build" /\ (Len(line) > 1 => line[2].kind # "word")
  <2>1. line[1] = Word("build") /\ (Len(line) > 1 => line[2].kind # "word")
    BY DEF WellFormed
  <2>2. Word("build").kind = "word" /\ Word("build").text = "build"
    BY DEF Word
  <2>3. QED
    BY <2>1, <2>2
<1>3. 1 \in 0..Len(line) /\ Leads(1)
  <2>1. 1 \in 0..Len(line) /\ \A i \in 1..1 : i = 1
    BY <1>1
  <2>2. 1 < Len(line) => line[1 + 1].kind # "word"
    BY <1>1, <1>2
  <2>3. QED
    BY <1>2, <2>1, <2>2
<1>4. m \in 0..Len(line) /\ Leads(m)
  BY <1>3
<1>5. CommandPath(line) = [i \in 1..m |-> line[i].text]
  BY DEF CommandPath
<1> HIDE DEF m
<1>6. m = 1
  <2>1. m # 0
    <3>1. ASSUME m = 0 PROVE FALSE
      <4>1. 0 < Len(line) /\ 0 + 1 = 1
        BY <1>1
      <4>2. QED
        BY <1>2, <1>4, <3>1, <4>1
    <3>2. QED
      BY <3>1
  <2>2. ASSUME m > 1 PROVE FALSE
    <3>1. 2 \in 1..m /\ Len(line) > 1
      BY <1>1, <1>4, <2>2
    <3>2. QED
      BY <1>2, <1>4, <3>1
  <2>3. QED
    BY <1>1, <1>4, <2>1, <2>2
<1>7. CommandPath(line) = <<"build">>
  <2>1. [i \in 1..1 |-> line[i].text] = <<line[1].text>>
    OBVIOUS
  <2>2. QED
    BY <1>2, <1>5, <1>6, <2>1
<1>8. QED
  BY <1>7 DEF ArrayFlags, Slices

(* Does the flag at position n wait for its value? *)
TakesNext(line, n) == /\ n > 0 /\ BeforeDashes(line, n) /\ line[n].kind = "flag"
                      /\ Parameters[line[n].flag].kind \in {"string", "int"}

(* flag is the array flag in force after position n. *)
InForce(line, n, flag) ==
    \/ flag = "" /\ \A i \in 1..n : line[i].kind = "word"
    \/ \E i \in 1..n : /\ Precedes(line, i, n + 1)
                       /\ flag = IF Parameters[line[i].flag].kind = "slice" THEN line[i].flag ELSE ""

(* Facts about single positions. *)
LEMMA LineFacts ==
    ASSUME NEW line \in Seq(AnyToken), WellFormed(line), NEW n \in 1..Len(line)
    PROVE  /\ line[n].kind \in {"word", "flag", "flag=", "--"}
           /\ BeforeDashes(line, n) <=> BeforeDashes(line, n - 1) /\ line[n].kind # "--"
           /\ line[n].kind # "word" /\ BeforeDashes(line, n) =>
                 /\ line[n].flag \in Names /\ line[n].flag # ""
                 /\ Parameters[line[n].flag].kind \in {"string", "bool", "int", "slice"}
           /\ TakesNext(line, n) => n < Len(line) /\ line[n + 1].kind = "word"
           /\ TakesNext(line, n - 1) => line[n].kind = "word"
<1>1. n \in Nat /\ n > 0 /\ Len(line) \in Nat /\ DOMAIN line = 1..Len(line)
  OBVIOUS
<1>2. line[n].kind \in {"word", "flag", "flag=", "--"}
  <2>1. line[n] \in AnyToken
    <3> HIDE DEF AnyToken
    <3>1. QED
      OBVIOUS
  <2>2. QED
    BY <2>1 DEF AnyToken
<1>3. BeforeDashes(line, n) <=> BeforeDashes(line, n - 1) /\ line[n].kind # "--"
  <2>1. \A i \in 1..n : i \in 1..(n - 1) \/ i = n
    BY <1>1
  <2>2. n \in 1..n /\ \A i \in 1..(n - 1) : i \in 1..n
    BY <1>1
  <2>3. QED
    BY <2>1, <2>2 DEF BeforeDashes
<1>4. line[n].kind # "word" /\ BeforeDashes(line, n) =>
         /\ line[n].flag \in Names /\ line[n].flag # ""
         /\ Parameters[line[n].flag].kind \in {"string", "bool", "int", "slice"}
  <2>1. line[n].kind # "word" /\ BeforeDashes(line, n) => line[n].flag \in Names
    BY <1>1 DEF WellFormed
  <2>2. QED
    BY <2>1, CommandLineAssumption
<1>5. ASSUME NEW i \in 1..Len(line), TakesNext(line, i)
      PROVE  i < Len(line) /\ line[i + 1].kind = "word"
  BY <1>1, <1>5 DEF WellFormed, TakesNext
<1>6. ASSUME TakesNext(line, n - 1) PROVE line[n].kind = "word"
  <2>1. n - 1 \in 1..Len(line) /\ (n - 1) + 1 = n
    BY <1>1, <1>6 DEF TakesNext
  <2>2. QED
    BY <1>5, <1>6, <2>1
<1>7. QED
  BY <1>2, <1>3, <1>4, <1>5, <1>6

(* Who owns a word, in terms of the array flag in force and of a flag that *)
(* waits.                                                                  *)
LEMMA OwnerKnown ==
    ASSUME NEW line \in Seq(AnyToken), WellFormed(line), NEW n \in 1..Len(line),
           BeforeDashes(line, n), line[n].kind = "word", NEW flag, InForce(line, n - 1, flag)
    PROVE  /\ flag # "" =>
                 /\ flag \in Slices /\ ~TakesNext(line, n - 1)
                 /\ \E i \in 1..(n - 1) : Owns(line, i, n)
                 /\ \A i \in 1..(n - 1) : Owns(line, i, n) => line[i].flag = flag
           /\ flag = "" /\ TakesNext(line, n - 1) =>
                 /\ \E i \in 1..(n - 1) : Owns(line, i, n)
                 /\ \A i \in 1..(n - 1) : Owns(line, i, n) => line[i].flag = line[n - 1].flag
           /\ flag = "" /\ ~TakesNext(line, n - 1) => ~\E i \in 1..(n - 1) : Owns(line, i, n)
<1>1. n \in Nat /\ n > 0 /\ Len(line) \in Nat /\ (n - 1) + 1 = n
  OBVIOUS
<1>2. ASSUME NEW i \in 1..(n - 1)
      PROVE  i \in 1..Len(line) /\ BeforeDashes(line, i) /\ i \in Nat
  <2>1. i \in 1..Len(line) /\ i \in Nat /\ \A k \in 1..i : k \in 1..n
    BY <1>1
  <2>2. QED
    BY <2>1 DEF BeforeDashes
<1>3. ASSUME \A i \in 1..(n - 1) : line[i].kind = "word"
      PROVE  /\ ~\E i \in 1..(n - 1) : Owns(line, i, n)
             /\ ~TakesNext(line, n - 1)
  <2>1. ~\E i \in 1..(n - 1) : Owns(line, i, n)
    BY <1>3 DEF Owns, Precedes
  <2>2. ~TakesNext(line, n - 1)
    <3>1. n - 1 > 0 => n - 1 \in 1..(n - 1)
      BY <1>1
    <3>2. QED
      BY <1>3, <3>1 DEF TakesNext
  <2>3. QED
    BY <2>1, <2>2
<1>4. ASSUME NEW i \in 1..(n - 1), Precedes(line, i, n)
      PROVE  /\ \A k \in 1..(n - 1) : Precedes(line, k, n) => k = i
             /\ TakesNext(line, n - 1) => i = n - 1
  <2>1. ASSUME NEW k \in 1..(n - 1), Precedes(line, k, n) PROVE k = i
    <3>1. k < i => i \in (k + 1)..(n - 1)
      BY <1>1
    <3>2. i < k => k \in (i + 1)..(n - 1)
      BY <1>1
    <3>3. ~(k < i) /\ ~(i < k)
      BY <1>4, <2>1, <3>1, <3>2 DEF Precedes
    <3>4. i \in Int /\ k \in Int
      BY <1>1
    <3>5. QED
      BY <3>3, <3>4
  <2>2. ASSUME TakesNext(line, n - 1) PROVE i = n - 1
    <3>1. i # n - 1 => n - 1 \in (i + 1)..(n - 1)
      BY <1>1
    <3>2. QED
      BY <1>4, <2>2, <3>1 DEF Precedes, TakesNext
  <2>3. QED
    BY <2>1, <2>2
<1>5. CASE \A i \in 1..(n - 1) : line[i].kind = "word"
  <2>1. flag = ""
    BY <1>5 DEF InForce, Precedes
  <2>2. QED
    BY <1>3, <1>5, <2>1
<1>6. CASE ~\A i \in 1..(n - 1) : line[i].kind = "word"
  <2>1. PICK i \in 1..(n - 1) : /\ Precedes(line, i, n)
                                /\ flag = IF Parameters[line[i].flag].kind = "slice" THEN line[i].flag ELSE ""
    BY <1>1, <1>6 DEF InForce
  <2>2. /\ line[i].kind # "word" /\ line[i].flag \in Names /\ line[i].flag # ""
        /\ Parameters[line[i].flag].kind \in {"string", "bool", "int", "slice"}
    BY <1>2, <2>1, LineFacts DEF Precedes
  <2>3. \A k \in 1..(n - 1) : Owns(line, k, n) => k = i
    BY <1>4, <2>1 DEF Owns
  <2>4. CASE flag # ""
    <3>1. flag = line[i].flag /\ Parameters[line[i].flag].kind = "slice"
      BY <2>1, <2>4
    <3>2. Owns(line, i, n)
      BY <2>1, <3>1 DEF Owns
    <3>3. ~TakesNext(line, n - 1)
      BY <1>4, <2>1, <3>1 DEF TakesNext
    <3>4. QED
      BY <2>2, <2>3, <2>4, <3>1, <3>2, <3>3 DEF Slices
  <2>5. CASE flag = "" /\ TakesNext(line, n - 1)
    <3>1. i = n - 1
      BY <1>4, <2>1, <2>5
    <3>2. n = i + 1
      BY <1>1, <3>1
    <3>3. Owns(line, i, n)
      BY <2>1, <2>5, <3>1, <3>2 DEF Owns, TakesNext
    <3>4. QED
      BY <2>3, <2>5, <3>1, <3>3
  <2>6. CASE flag = "" /\ ~TakesNext(line, n - 1)
    <3>1. Parameters[line[i].flag].kind # "slice"
      BY <2>1, <2>2, <2>6
    <3>2. ASSUME Owns(line, i, n) PROVE FALSE
      <4>1. n = i + 1 /\ line[i].kind = "flag" /\ Parameters[line[i].flag].kind \in {"string", "int"}
        BY <3>1, <3>2 DEF Owns
      <4>2. i = n - 1 /\ n - 1 > 0
        BY <1>1, <4>1
      <4>3. TakesNext(line, n - 1)
        BY <1>2, <4>1, <4>2 DEF TakesNext
      <4>4. QED
        BY <2>6, <4>3
    <3>3. QED
      BY <2>3, <2>6, <3>2
  <2>7. QED
    BY <2>4, <2>5, <2>6
<1>7. QED
  BY <1>5, <1>6

(* The state of the expansion after one more token. *)
LEMMA ExpandRound ==
    ASSUME NEW line \in Seq(AnyToken), WellFormed(line), NEW n \in 1..Len(line),
           NEW s \in ExpandState, s.stopped <=> ~BeforeDashes(line, n - 1),
           ~s.stopped => InForce(line, n - 1, s.flag)
    PROVE  LET t == ExpandToken(s, line[n], Slices)
           IN  /\ t.stopped <=> ~BeforeDashes(line, n)
               /\ ~t.stopped => InForce(line, n, t.flag)
<1> DEFINE t == ExpandToken(s, line[n], Slices)
           arg == line[n]
<1>1. /\ n \in Nat /\ (n - 1) + 1 = n /\ n \in 1..n
      /\ \A k \in (n + 1)..((n + 1) - 1) : FALSE
  OBVIOUS
<1>2. /\ arg.kind \in {"word", "flag", "flag=", "--"}
      /\ BeforeDashes(line, n) <=> BeforeDashes(line, n - 1) /\ arg.kind # "--"
      /\ arg.kind # "word" /\ BeforeDashes(line, n) =>
            /\ arg.flag \in Names /\ arg.flag # ""
            /\ Parameters[arg.flag].kind \in {"string", "bool", "int", "slice"}
  BY LineFacts
<1>3. s.stopped \in BOOLEAN /\ s = [out |-> s.out, flag |-> s.flag, stopped |-> s.stopped]
  BY DEF ExpandState
<1> HIDE DEF arg
<1>4. CASE s.stopped \/ arg.kind = "--"
  <2>1. t = [out |-> Append(s.out, arg), flag |-> "", stopped |-> TRUE]
    BY <1>4 DEF ExpandToken, arg
  <2> HIDE DEF t
  <2>2. t.stopped = TRUE
    BY <2>1
  <2>3. QED
    BY <1>2, <1>4, <2>2, Zenon DEF t
<1>5. CASE ~(s.stopped \/ arg.kind = "--") /\ arg.kind = "word"
  <2>1. t = [s EXCEPT !.out = @ \o Repeat(s.flag, arg)]
    BY <1>5 DEF ExpandToken, arg
  <2>2. t.flag = s.flag /\ t.stopped = s.stopped
    BY <1>3, <2>1
  <2>3. InForce(line, n - 1, s.flag)
    BY <1>5
  <2>4. InForce(line, n, s.flag)
    <3>1. CASE s.flag = "" /\ \A i \in 1..(n - 1) : line[i].kind = "word"
      <4>1. \A i \in 1..n : i \in 1..(n - 1) \/ i = n
        BY <1>1
      <4>2. QED
        BY <1>5, <3>1, <4>1 DEF InForce, arg
    <3>2. CASE \E i \in 1..(n - 1) :
                  /\ Precedes(line, i, (n - 1) + 1)
                  /\ s.flag = IF Parameters[line[i].flag].kind = "slice" THEN line[i].flag ELSE ""
      <4>1. PICK i \in 1..(n - 1) :
                  /\ Precedes(line, i, n)
                  /\ s.flag = IF Parameters[line[i].flag].kind = "slice" THEN line[i].flag ELSE ""
        BY <1>1, <3>2
      <4>2. i \in 1..n /\ \A k \in (i + 1)..((n + 1) - 1) : k \in (i + 1)..(n - 1) \/ k = n
        BY <1>1
      <4>3. Precedes(line, i, n + 1)
        BY <1>5, <4>1, <4>2 DEF Precedes, arg
      <4>4. QED
        BY <4>1, <4>2, <4>3 DEF InForce
    <3>3. QED
      BY <2>3, <3>1, <3>2 DEF InForce
  <2> HIDE DEF t
  <2>5. ~t.stopped /\ BeforeDashes(line, n) /\ InForce(line, n, t.flag)
    BY <1>2, <1>5, <2>2, <2>4, Zenon
  <2>6. QED
    BY <2>5, Zenon DEF t
<1>6. CASE ~(s.stopped \/ arg.kind = "--") /\ arg.kind # "word"
  <2>1. /\ t.stopped = s.stopped
        /\ t.flag = IF arg.flag \in Slices THEN arg.flag ELSE ""
    BY <1>3, <1>6 DEF ExpandToken, arg
  <2>2. BeforeDashes(line, n)
    BY <1>2, <1>6
  <2>3. arg.flag \in Slices <=> Parameters[arg.flag].kind = "slice"
    BY <1>2, <1>6, <2>2 DEF Slices
  <2>4. Precedes(line, n, n + 1)
    BY <1>1, <1>6 DEF Precedes, arg
  <2> HIDE DEF t
  <2>5. InForce(line, n, t.flag)
    BY <1>1, <2>1, <2>3, <2>4 DEF InForce, arg
  <2>6. ~t.stopped
    BY <1>6, <2>1, Zenon
  <2>7. QED
    BY <2>2, <2>5, <2>6, Zenon DEF t
<1>7. QED
  BY <1>4, <1>5, <1>6

GivesNothing(line, n) == \A q \in Names : ~Gives(line, n, q)
Sets(line, n, r, new) == \E p \in Names : /\ new = Set(r, p, TextAt(line, n)) /\ ~IsArgument(line, n)
                                          /\ \A q \in Names : Gives(line, n, q) <=> q = p
Adds(line, n, r, new) == /\ new = [r EXCEPT !.args = Append(@, TextAt(line, n))]
                         /\ GivesNothing(line, n) /\ IsArgument(line, n)
Skips(line, n, r, new) == /\ new.flags = r.flags /\ new.args = r.args /\ ~new.error
                          /\ GivesNothing(line, n) /\ ~IsArgument(line, n)

Waiting(line, n) == IF TakesNext(line, n) THEN line[n].flag ELSE ""

(* Setting a flag ends the wait for its value. *)
LEMMA SetEnds ==
    ASSUME NEW r \in ParseState, NEW p \in Names, NEW text, ~r.error
    PROVE  LET q == Set(r, p, text)
           IN  /\ q.error <=> Parameters[p].kind \in DOMAIN Parses /\ text \notin Parses[Parameters[p].kind]
               /\ ~q.error => /\ q.pending = "" /\ q.stopped = r.stopped /\ q.args = r.args
                              /\ q.flags = [r.flags EXCEPT ![p] = Append(@, text)]
<1> DEFINE ok == [r EXCEPT !.flags[p] = Append(@, text), !.pending = ""]
<1>1. r = [error |-> r.error, flags |-> r.flags, args |-> r.args, pending |-> r.pending, stopped |-> r.stopped]
  BY DEF ParseState
<1>2. /\ ok.error = r.error /\ ok.pending = "" /\ ok.stopped = r.stopped /\ ok.args = r.args
      /\ ok.flags = [r.flags EXCEPT ![p] = Append(@, text)]
  BY <1>1
<1>4. ParseError.error
  BY RoundTypes
<1> HIDE DEF ok
<1>5. CASE Parameters[p].kind \in DOMAIN Parses /\ text \notin Parses[Parameters[p].kind]
  <2>1. Set(r, p, text) = ParseError
    BY <1>5 DEF Set
  <2>2. QED
    BY <1>4, <1>5, <2>1
<1>6. CASE ~(Parameters[p].kind \in DOMAIN Parses /\ text \notin Parses[Parameters[p].kind])
  <2>1. Set(r, p, text) = ok
    BY <1>6 DEF Set, ok
  <2>3. ~ok.error
    BY <1>2, Zenon
  <2>5. ~Set(r, p, text).error
    BY <2>1, <2>3
  <2>6. /\ Set(r, p, text).pending = "" /\ Set(r, p, text).stopped = r.stopped /\ Set(r, p, text).args = r.args
        /\ Set(r, p, text).flags = [r.flags EXCEPT ![p] = Append(@, text)]
    BY <1>2, <2>1
  <2>7. QED
    BY <1>6, <2>5, <2>6, Zenon
<1>7. QED
  BY <1>5, <1>6

(* It does not matter which flag waited. *)
LEMMA PendingForgotten ==
    ASSUME NEW r \in ParseState, NEW p \in Names, NEW text, NEW g
    PROVE  Set([r EXCEPT !.pending = g], p, text) = Set(r, p, text)
<1>1. r = [error |-> r.error, flags |-> r.flags, args |-> r.args, pending |-> r.pending, stopped |-> r.stopped]
  BY DEF ParseState
<1>2. [[r EXCEPT !.pending = g] EXCEPT !.flags[p] = Append(@, text), !.pending = ""]
        = [r EXCEPT !.flags[p] = Append(@, text), !.pending = ""]
  BY <1>1
<1>3. QED
  BY <1>2 DEF Set

(* Two tokens appended are appended one after the other. *)
LEMMA AppendTwo ==
    ASSUME NEW out \in Seq(AnyToken), NEW a \in AnyToken, NEW b \in AnyToken
    PROVE  Append(out, a) \in Seq(AnyToken) /\ out \o <<a, b>> = Append(Append(out, a), b)
<1> HIDE DEF AnyToken
<1>1. Append(out, a) \in Seq(AnyToken) /\ Append(out, a) = out \o <<a>>
  OBVIOUS
<1>2. Append(Append(out, a), b) = Append(out, a) \o <<b>>
  BY <1>1
<1>3. QED
  BY <1>1, <1>2

(* A value of an array flag, after expansion: the flag and the value.      *)
LEMMA ArrayValue ==
    ASSUME NEW out \in Seq(AnyToken), NEW f \in Slices, NEW w \in AnyToken, NEW r, r = Parsing(out),
           ~r.error, ~r.stopped, r.pending = ""
    PROVE  Parsing(out \o Repeat(f, w)) = Set(r, f, w.text)
<1>1. f \in Names /\ f # "" /\ Parameters[f].kind = "slice"
  BY CommandLineAssumption DEF Slices
<1>2. Flag(f) \in AnyToken /\ Flag(f).kind = "flag" /\ Flag(f).flag = f
  BY <1>1, CommandLineAssumption DEF AnyToken, Flag, AnyText
<1>3. r \in ParseState
  BY ParseOneMore
<1>4. ParseToken(r, Flag(f)) = [r EXCEPT !.pending = f]
  BY <1>1, <1>2 DEF ParseToken
<1> DEFINE q == [r EXCEPT !.pending = f]
<1>5. q.pending = f /\ q.error = r.error
  BY <1>3 DEF ParseState
<1>6. Set(q, f, w.text) = Set(r, f, w.text)
  BY <1>1, <1>3, PendingForgotten, ZenonT(60)
<1> HIDE DEF q
<1>7. ~q.error
  BY <1>5, Zenon
<1>8. ParseToken(q, w) = Set(q, f, w.text)
  BY <1>1, <1>5, <1>7 DEF ParseToken
<1>9. out \o Repeat(f, w) = Append(Append(out, Flag(f)), w) /\ Append(out, Flag(f)) \in Seq(AnyToken)
  <2>1. Repeat(f, w) = <<Flag(f), w>>
    BY <1>1 DEF Repeat
  <2> HIDE DEF AnyToken
  <2>2. Append(out, Flag(f)) \in Seq(AnyToken) /\ out \o <<Flag(f), w>> = Append(Append(out, Flag(f)), w)
    BY <1>2, AppendTwo
  <2>3. QED
    BY <2>1, <2>2
<1>10. Parsing(Append(out, Flag(f))) = q
  BY <1>2, <1>4, ParseOneMore DEF q
<1>11. QED
  BY <1>6, <1>8, <1>9, <1>10, ParseOneMore

(* What a word gives: to the flag that owns it, if any. *)
LEMMA WordGives ==
    ASSUME NEW line \in Seq(AnyToken), NEW n \in 1..Len(line), BeforeDashes(line, n), line[n].kind = "word"
    PROVE  /\ TextAt(line, n) = line[n].text /\ Waiting(line, n) = ""
           /\ IsArgument(line, n) <=> ~\E i \in 1..(n - 1) : Owns(line, i, n)
           /\ \A q \in Names : Gives(line, n, q) <=> \E i \in 1..(n - 1) : Owns(line, i, n) /\ line[i].flag = q
<1>1. "word" # "flag" /\ "word" # "flag="
  OBVIOUS
<1>2. QED
  BY <1>1 DEF TextAt, Waiting, TakesNext, IsArgument, Gives

Outcome(line, n, r, new) == \/ Sets(line, n, r, new) \/ Adds(line, n, r, new) \/ Skips(line, n, r, new)

(* After new, parsing agrees with the expansion t about "--" and about the *)
(* flag that waits.                                                        *)
InStep(line, n, new, t) == ~new.error => (new.stopped <=> t.stopped) /\ new.pending = Waiting(line, n)

(* After n - 1 tokens: the expansion s and its parse r know of "--" and of *)
(* the flags in force.                                                     *)
Ready(line, n, s, r) ==
    /\ s.stopped <=> ~BeforeDashes(line, n - 1)
    /\ ~s.stopped => InForce(line, n - 1, s.flag)
    /\ r = Parsing(s.out) /\ ~r.error /\ (r.stopped <=> s.stopped)
    /\ r.pending = Waiting(line, n - 1)

(* What the cases of the next lemmas need. *)
LEMMA ReadyFacts ==
    ASSUME NEW line \in Seq(AnyToken), WellFormed(line), NEW n \in 1..Len(line), NEW s \in ExpandState,
           NEW r, Ready(line, n, s, r)
    PROVE  /\ line[n] \in AnyToken /\ s.out \in Seq(AnyToken) /\ r \in ParseState
           /\ \A arg \in AnyToken : Parsing(Append(s.out, arg)) = ParseToken(r, arg)
           /\ line[n].kind # "word" => r.pending = ""
<1>1. s.out \in Seq(AnyToken)
  BY DEF ExpandState
<1>2. line[n] \in AnyToken
  <2> HIDE DEF AnyToken
  <2>1. QED
    OBVIOUS
<1>3. r = Parsing(s.out) /\ r.pending = Waiting(line, n - 1)
  BY DEF Ready
<1>4. r \in ParseState /\ \A arg \in AnyToken : Parsing(Append(s.out, arg)) = ParseToken(r, arg)
  BY <1>1, <1>3, ParseOneMore
<1>5. TakesNext(line, n - 1) => line[n].kind = "word"
  BY LineFacts
<1>6. line[n].kind # "word" => r.pending = ""
  BY <1>3, <1>5 DEF Waiting
<1>7. QED
  BY <1>1, <1>2, <1>4, <1>6

(* One more token, after "--" or the first "--" itself. *)
LEMMA DashesToken ==
    ASSUME NEW line \in Seq(AnyToken), WellFormed(line), NEW n \in 1..Len(line), NEW s \in ExpandState,
           NEW r, Ready(line, n, s, r), NEW t, t = ExpandToken(s, line[n], Slices), ~BeforeDashes(line, n)
    PROVE  Outcome(line, n, r, Parsing(t.out)) /\ InStep(line, n, Parsing(t.out), t)
<1> DEFINE arg == line[n]
           new == Parsing(t.out)
<1>1. BeforeDashes(line, n) <=> BeforeDashes(line, n - 1) /\ arg.kind # "--"
  BY LineFacts, ZenonT(60)
<1>2. /\ arg \in AnyToken /\ s.out \in Seq(AnyToken) /\ r \in ParseState
      /\ Parsing(Append(s.out, arg)) = ParseToken(r, arg)
      /\ arg.kind # "word" => r.pending = ""
  BY ReadyFacts
<1>3. /\ s.stopped <=> ~BeforeDashes(line, n - 1)
      /\ ~r.error /\ (r.stopped <=> s.stopped) /\ r.pending = Waiting(line, n - 1)
  BY Zenon DEF Ready
<1> HIDE DEF arg
<1>4. s.stopped \/ arg.kind = "--"
  BY <1>1, <1>3, Zenon
<1>5. t = [out |-> Append(s.out, arg), flag |-> "", stopped |-> TRUE]
  BY <1>4 DEF ExpandToken, arg
<1>6. t.stopped = TRUE /\ t.out = Append(s.out, arg)
  <2> DEFINE e == [out |-> Append(s.out, arg), flag |-> "", stopped |-> TRUE]
  <2>1. e.stopped = TRUE /\ e.out = Append(s.out, arg)
    OBVIOUS
  <2>2. t = e
    BY <1>5
  <2> HIDE DEF e
  <2>3. QED
    BY <2>1, <2>2, Zenon
<1>7. new = ParseToken(r, arg)
  BY <1>2, <1>6
<1>8. r.pending = ""
  <2>1. CASE s.stopped
    <3>1. ~TakesNext(line, n - 1)
      BY <1>3, <2>1, Zenon DEF TakesNext
    <3>2. QED
      BY <1>3, <3>1 DEF Waiting
  <2>2. CASE ~s.stopped
    BY <1>2, <1>4, <2>2
  <2>3. QED
    BY <2>1, <2>2
<1>9. GivesNothing(line, n) /\ TextAt(line, n) = arg.text /\ Waiting(line, n) = ""
  BY DEF GivesNothing, Gives, TextAt, Waiting, TakesNext, arg
<1> HIDE DEF new
<1>10. CASE s.stopped
  <2>1. new = [r EXCEPT !.args = Append(@, arg.text)]
    BY <1>3, <1>7, <1>8, <1>10 DEF ParseToken
  <2>2. IsArgument(line, n)
    BY <1>3, <1>10 DEF IsArgument
  <2>3. Adds(line, n, r, new)
    BY <1>9, <2>1, <2>2 DEF Adds
  <2>4. new.stopped = r.stopped /\ new.pending = r.pending
    BY <1>2, <2>1 DEF ParseState
  <2>5. QED
    BY <1>3, <1>6, <1>8, <1>9, <1>10, <2>3, <2>4, Zenon DEF Outcome, InStep, new
<1>11. CASE ~s.stopped
  <2>1. new = [r EXCEPT !.stopped = TRUE]
    BY <1>3, <1>4, <1>7, <1>8, <1>11 DEF ParseToken
  <2>2. ~IsArgument(line, n)
    BY <1>3, <1>11 DEF IsArgument
  <2>3. /\ new.flags = r.flags /\ new.args = r.args /\ new.error = r.error
        /\ new.stopped = TRUE /\ new.pending = r.pending
    BY <1>2, <2>1 DEF ParseState
  <2>4. ~new.error
    BY <1>3, <2>3, Zenon
  <2>5. Skips(line, n, r, new)
    BY <1>9, <2>2, <2>3, <2>4, Zenon DEF Skips
  <2>6. QED
    BY <1>6, <1>8, <1>9, <2>3, <2>5, Zenon DEF Outcome, InStep, new
<1>12. QED
  BY <1>10, <1>11

(* One more word before "--". *)
LEMMA WordToken ==
    ASSUME NEW line \in Seq(AnyToken), WellFormed(line), NEW n \in 1..Len(line), NEW s \in ExpandState,
           NEW r, Ready(line, n, s, r), NEW t, t = ExpandToken(s, line[n], Slices),
           BeforeDashes(line, n), line[n].kind = "word"
    PROVE  Outcome(line, n, r, Parsing(t.out)) /\ InStep(line, n, Parsing(t.out), t)
<1> DEFINE arg == line[n]
           new == Parsing(t.out)
           flag == s.flag
<1>1. BeforeDashes(line, n - 1)
  BY LineFacts
<1>2. /\ arg \in AnyToken /\ s.out \in Seq(AnyToken) /\ r \in ParseState
      /\ Parsing(Append(s.out, arg)) = ParseToken(r, arg)
  BY ReadyFacts, ZenonT(60)
<1>3. /\ ~s.stopped /\ r = Parsing(s.out) /\ ~r.error /\ ~r.stopped /\ r.pending = Waiting(line, n - 1)
      /\ InForce(line, n - 1, flag)
  BY <1>1, Zenon DEF Ready
<1>4. /\ TextAt(line, n) = arg.text /\ Waiting(line, n) = ""
      /\ IsArgument(line, n) <=> ~\E i \in 1..(n - 1) : Owns(line, i, n)
      /\ \A q \in Names : Gives(line, n, q) <=> \E i \in 1..(n - 1) : Owns(line, i, n) /\ line[i].flag = q
  BY WordGives
<1>5. /\ flag # "" =>
            /\ flag \in Slices /\ ~TakesNext(line, n - 1)
            /\ \E i \in 1..(n - 1) : Owns(line, i, n)
            /\ \A i \in 1..(n - 1) : Owns(line, i, n) => line[i].flag = flag
      /\ flag = "" /\ TakesNext(line, n - 1) =>
            /\ \E i \in 1..(n - 1) : Owns(line, i, n)
            /\ \A i \in 1..(n - 1) : Owns(line, i, n) => line[i].flag = line[n - 1].flag
      /\ flag = "" /\ ~TakesNext(line, n - 1) => ~\E i \in 1..(n - 1) : Owns(line, i, n)
  BY <1>3, OwnerKnown
<1>6. t.out = s.out \o Repeat(flag, arg) /\ t.stopped = s.stopped
  <2>1. arg.kind = "word" /\ arg.kind # "--"
    OBVIOUS
  <2>2. t = [s EXCEPT !.out = @ \o Repeat(s.flag, arg)]
    BY <1>3, <2>1 DEF ExpandToken
  <2> HIDE DEF arg
  <2>3. QED
    BY <2>2 DEF ExpandState
<1>7. arg.kind = "word"
  OBVIOUS
<1> HIDE DEF arg, new, flag
<1>8. ASSUME NEW p \in Names, new = Set(r, p, arg.text),
             \E i \in 1..(n - 1) : Owns(line, i, n),
             \A i \in 1..(n - 1) : Owns(line, i, n) => line[i].flag = p
      PROVE  Outcome(line, n, r, new) /\ InStep(line, n, new, t)
  <2>1. ~IsArgument(line, n) /\ \A q \in Names : Gives(line, n, q) <=> q = p
    BY <1>4, <1>8, Zenon
  <2>2. Sets(line, n, r, new)
    BY <1>4, <1>8, <2>1, Zenon DEF Sets
  <2>3. ~new.error => new.pending = "" /\ new.stopped = r.stopped
    BY <1>2, <1>3, <1>8, SetEnds, Zenon
  <2>4. QED
    BY <1>3, <1>4, <1>6, <2>2, <2>3, Zenon DEF Outcome, InStep
<1>9. CASE flag # ""
  <2>1. flag \in Slices /\ r.pending = ""
    BY <1>3, <1>5, <1>9 DEF Waiting
  <2>2. new = Set(r, flag, arg.text)
    BY <1>2, <1>3, <1>6, <2>1, ArrayValue DEF new
  <2>3. flag \in Names
    BY <2>1 DEF Slices
  <2>4. QED
    BY <1>5, <1>8, <1>9, <2>2, <2>3, Zenon DEF new
<1>10. ASSUME flag = "" PROVE new = ParseToken(r, arg)
  <2>1. t.out = Append(s.out, arg)
    <3>1. t.out = s.out \o <<arg>>
      BY <1>6, <1>10 DEF Repeat
    <3> HIDE DEF AnyToken
    <3>2. Append(s.out, arg) = s.out \o <<arg>>
      BY <1>2, AppendIsConcat
    <3>3. QED
      BY <3>1, <3>2
  <2>2. QED
    BY <1>2, <2>1 DEF new
<1>11. CASE flag = "" /\ TakesNext(line, n - 1)
  <2> DEFINE p == line[n - 1].flag
  <2>1. p \in Names /\ p # ""
    <3>0. n - 1 > 0 /\ line[n - 1].kind = "flag"
      BY <1>11 DEF TakesNext
    <3>1. n - 1 \in 1..Len(line)
      BY <3>0
    <3>2. QED
      BY <1>1, <3>0, <3>1, LineFacts
  <2>2. r.pending = p
    BY <1>3, <1>11 DEF Waiting
  <2> HIDE DEF p
  <2>3. new = Set(r, p, arg.text)
    BY <1>3, <1>10, <1>11, <2>1, <2>2 DEF ParseToken
  <2>4. QED
    BY <1>5, <1>8, <1>11, <2>1, <2>3, Zenon DEF new, p
<1>12. CASE flag = "" /\ ~TakesNext(line, n - 1)
  <2>1. r.pending = ""
    BY <1>3, <1>12 DEF Waiting
  <2>2. new = [r EXCEPT !.args = Append(@, arg.text)]
    BY <1>3, <1>7, <1>10, <1>12, <2>1 DEF ParseToken
  <2>3. GivesNothing(line, n) /\ IsArgument(line, n)
    BY <1>4, <1>5, <1>12, Zenon DEF GivesNothing
  <2>4. Adds(line, n, r, new)
    BY <1>4, <2>2, <2>3 DEF Adds
  <2>5. new.stopped = r.stopped /\ new.pending = r.pending
    BY <1>2, <2>2 DEF ParseState
  <2>6. QED
    BY <1>3, <1>4, <1>6, <2>1, <2>4, <2>5, Zenon DEF Outcome, InStep, new
<1>13. QED
  BY <1>9, <1>11, <1>12 DEF new

(* One more flag before "--". *)
LEMMA FlagToken ==
    ASSUME NEW line \in Seq(AnyToken), WellFormed(line), NEW n \in 1..Len(line), NEW s \in ExpandState,
           NEW r, Ready(line, n, s, r), NEW t, t = ExpandToken(s, line[n], Slices),
           BeforeDashes(line, n), line[n].kind # "word"
    PROVE  Outcome(line, n, r, Parsing(t.out)) /\ InStep(line, n, Parsing(t.out), t)
<1> DEFINE arg == line[n]
           new == Parsing(t.out)
           p == arg.flag
           kind == Parameters[p].kind
<1>1. /\ BeforeDashes(line, n - 1) /\ p \in Names /\ p # "" /\ kind \in {"string", "bool", "int", "slice"}
      /\ arg.kind \in {"flag", "flag="}
  BY LineFacts
<1>2. /\ arg \in AnyToken /\ s.out \in Seq(AnyToken) /\ r \in ParseState /\ r.pending = ""
      /\ Parsing(Append(s.out, arg)) = ParseToken(r, arg)
  BY ReadyFacts, ZenonT(60)
<1>3. ~s.stopped /\ r = Parsing(s.out) /\ ~r.error /\ ~r.stopped
  BY <1>1, Zenon DEF Ready
<1>4. ~IsArgument(line, n)
  BY DEF IsArgument
<1>5. \A q \in Names : Gives(line, n, q) <=> q = p /\ (arg.kind = "flag=" \/ kind = "bool")
  BY <1>1 DEF Gives
<1>6. TextAt(line, n) = IF arg.kind = "flag" THEN "true" ELSE arg.text
  BY DEF TextAt
<1>7. Waiting(line, n) = IF arg.kind = "flag" /\ kind \in {"string", "int"} THEN p ELSE ""
  <2>1. n > 0
    OBVIOUS
  <2>2. QED
    BY <2>1 DEF Waiting, TakesNext
<1>8. p \in Slices <=> kind = "slice"
  BY <1>1 DEF Slices
<1>9. /\ p \notin Slices => t = [s EXCEPT !.out = Append(@, arg), !.flag = ""]
      /\ p \in Slices /\ arg.kind = "flag" => t = [s EXCEPT !.flag = p]
      /\ p \in Slices /\ arg.kind = "flag=" =>
            t = [s EXCEPT !.out = @ \o Repeat(p, Word(arg.text)), !.flag = p]
  BY <1>1, <1>3 DEF ExpandToken
<1> HIDE DEF arg, kind, p
<1>10. /\ t.stopped = s.stopped
       /\ p \notin Slices => t.out = Append(s.out, arg)
       /\ p \in Slices /\ arg.kind = "flag" => t.out = s.out
       /\ p \in Slices /\ arg.kind = "flag=" => t.out = s.out \o Repeat(p, Word(arg.text))
  BY <1>1, <1>9 DEF ExpandState
<1> HIDE DEF new
<1>11. ASSUME new = Set(r, p, TextAt(line, n)), arg.kind = "flag=" \/ kind = "bool"
       PROVE  Outcome(line, n, r, new) /\ InStep(line, n, new, t)
  <2>1. Sets(line, n, r, new)
    BY <1>1, <1>4, <1>5, <1>11, Zenon DEF Sets
  <2>2. ~new.error => new.pending = "" /\ new.stopped = r.stopped
    BY <1>1, <1>2, <1>3, <1>11, SetEnds, Zenon
  <2>3. Waiting(line, n) = ""
    BY <1>7, <1>11
  <2>4. QED
    BY <1>3, <1>10, <2>1, <2>2, <2>3, Zenon DEF Outcome, InStep
<1>12. ASSUME new.flags = r.flags, new.args = r.args, new.error = r.error, new.stopped = r.stopped,
              new.pending = Waiting(line, n), arg.kind # "flag=", kind # "bool"
       PROVE  Outcome(line, n, r, new) /\ InStep(line, n, new, t)
  <2>1. GivesNothing(line, n)
    BY <1>5, <1>12, Zenon DEF GivesNothing
  <2>2. Skips(line, n, r, new)
    BY <1>3, <1>4, <1>12, <2>1, Zenon DEF Skips
  <2>3. QED
    BY <1>3, <1>10, <1>12, <2>2, Zenon DEF Outcome, InStep
<1>13. CASE p \notin Slices
  <2>1. new = ParseToken(r, arg)
    BY <1>2, <1>10, <1>13 DEF new
  <2>2. CASE arg.kind = "flag="
    <3>1. new = Set(r, p, TextAt(line, n))
      BY <1>2, <1>3, <1>6, <2>1, <2>2 DEF ParseToken, p
    <3>2. QED
      BY <1>11, <2>2, <3>1, Zenon DEF new
  <2>3. CASE arg.kind = "flag" /\ kind = "bool"
    <3>1. new = Set(r, p, TextAt(line, n))
      BY <1>1, <1>2, <1>3, <1>6, <2>1, <2>3 DEF ParseToken, p, kind
    <3>2. QED
      BY <1>11, <2>3, <3>1, Zenon DEF new
  <2>4. CASE arg.kind = "flag" /\ kind # "bool"
    <3>1. new = [r EXCEPT !.pending = p]
      BY <1>1, <1>2, <1>3, <2>1, <2>4 DEF ParseToken, p, kind
    <3>2. /\ new.flags = r.flags /\ new.args = r.args /\ new.error = r.error /\ new.stopped = r.stopped
          /\ new.pending = p
      BY <1>2, <3>1 DEF ParseState
    <3>3. Waiting(line, n) = p
      BY <1>1, <1>7, <1>8, <1>13, <2>4
    <3>4. arg.kind # "flag="
      BY <2>4
    <3>5. QED
      BY <1>12, <2>4, <3>2, <3>3, <3>4, Zenon DEF new
  <2>5. QED
    BY <1>1, <2>2, <2>3, <2>4
<1>14. CASE p \in Slices /\ arg.kind = "flag"
  <2>1. new = r
    BY <1>3, <1>10, <1>14 DEF new
  <2>2. Waiting(line, n) = "" /\ kind # "bool" /\ arg.kind # "flag="
    BY <1>7, <1>8, <1>14
  <2>3. QED
    BY <1>2, <1>12, <2>1, <2>2, Zenon DEF new
<1>15. CASE p \in Slices /\ arg.kind = "flag="
  <2> DEFINE w == Word(arg.text)
  <2>1. w \in AnyToken /\ w.text = arg.text
    BY <1>2 DEF AnyToken, Word, AnyText
  <2>2. TextAt(line, n) = arg.text /\ p \in Slices
    BY <1>6, <1>15
  <2>3. t.out = s.out \o Repeat(p, w)
    BY <1>10, <1>15
  <2> HIDE DEF w
  <2>4. Parsing(s.out \o Repeat(p, w)) = Set(r, p, w.text)
    <3>1. s.out \in Seq(AnyToken) /\ p \in Slices /\ w \in AnyToken /\ r.pending = ""
      BY <1>2, <2>1, <2>2
    <3>2. r = Parsing(s.out) /\ ~r.error /\ ~r.stopped
      BY <1>3, Zenon
    <3>3. QED
      BY <3>1, <3>2, ArrayValue, ZenonT(60)
  <2>5. new = Set(r, p, TextAt(line, n))
    BY <2>1, <2>2, <2>3, <2>4 DEF new
  <2>6. QED
    BY <1>11, <1>15, <2>5, Zenon DEF new
<1>16. QED
  BY <1>1, <1>13, <1>14, <1>15 DEF new

(* One more token. *)
LEMMA OneToken ==
    ASSUME NEW line \in Seq(AnyToken), WellFormed(line), NEW n \in 1..Len(line), NEW s \in ExpandState,
           NEW r, Ready(line, n, s, r), NEW t, t = ExpandToken(s, line[n], Slices)
    PROVE  Outcome(line, n, r, Parsing(t.out)) /\ InStep(line, n, Parsing(t.out), t)
<1>1. CASE ~BeforeDashes(line, n)
  BY <1>1, DashesToken
<1>2. CASE BeforeDashes(line, n) /\ line[n].kind = "word"
  BY <1>2, WordToken
<1>3. CASE BeforeDashes(line, n) /\ line[n].kind # "word"
  BY <1>3, FlagToken
<1>4. QED
  BY <1>1, <1>2, <1>3

(* An error remains. *)
LEMMA ErrorRemains ==
    ASSUME NEW s \in ExpandState, NEW arg \in AnyToken, Parsing(s.out).error, NEW t, t = ExpandToken(s, arg, Slices)
    PROVE  Parsing(t.out).error
<1>1. s.out \in Seq(AnyToken)
  BY DEF ExpandState
<1>2. ASSUME NEW out \in Seq(AnyToken), NEW w \in AnyToken, Parsing(out).error
      PROVE  Append(out, w) \in Seq(AnyToken) /\ Parsing(Append(out, w)).error
  <2>1. Parsing(Append(out, w)) = ParseToken(Parsing(out), w)
    BY ParseOneMore
  <2>2. ParseToken(Parsing(out), w) = Parsing(out)
    BY <1>2 DEF ParseToken
  <2>3. Append(out, w) \in Seq(AnyToken)
    BY AppendTwo
  <2>4. QED
    BY <1>2, <2>1, <2>2, <2>3, Zenon
<1>3. ASSUME NEW f \in AnyText, NEW w \in AnyToken
      PROVE  Parsing(s.out \o Repeat(f, w)).error
  <2>1. Flag(f) \in AnyToken
    BY DEF AnyToken, Flag, AnyText
  <2>2. CASE f = ""
    <3>1. s.out \o Repeat(f, w) = Append(s.out, w)
      <4>1. Repeat(f, w) = <<w>>
        BY <2>2 DEF Repeat
      <4>2. QED
        BY <1>1, <4>1, AppendIsConcat
    <3>2. Parsing(Append(s.out, w)).error
      BY <1>1, <1>2, Zenon
    <3>3. QED
      BY <3>1, <3>2, Zenon
  <2>3. CASE f # ""
    <3>1. s.out \o Repeat(f, w) = Append(Append(s.out, Flag(f)), w)
      <4>1. Repeat(f, w) = <<Flag(f), w>>
        BY <2>3 DEF Repeat
      <4>2. s.out \o <<Flag(f), w>> = Append(Append(s.out, Flag(f)), w)
        BY <1>1, <2>1, AppendTwo
      <4>3. QED
        BY <4>1, <4>2
    <3>2. Append(s.out, Flag(f)) \in Seq(AnyToken) /\ Parsing(Append(s.out, Flag(f))).error
      BY <1>1, <1>2, <2>1, Zenon
    <3>3. Parsing(Append(Append(s.out, Flag(f)), w)).error
      BY <1>2, <3>2, Zenon
    <3>4. QED
      BY <3>1, <3>3, Zenon
  <2>4. QED
    BY <2>2, <2>3
<1>4. \/ t.out = Append(s.out, arg) \/ t.out = s.out \o Repeat(s.flag, arg)
      \/ t.out = s.out \/ t.out = s.out \o Repeat(arg.flag, Word(arg.text))
  BY DEF ExpandToken, ExpandState
<1>5. s.flag \in AnyText /\ arg.flag \in AnyText /\ Word(arg.text) \in AnyToken
  BY DEF ExpandState, AnyToken, Word, AnyText
<1>6. Parsing(Append(s.out, arg)).error
  BY <1>1, <1>2, Zenon
<1>7. Parsing(s.out \o Repeat(s.flag, arg)).error /\ Parsing(s.out \o Repeat(arg.flag, Word(arg.text))).error
  BY <1>3, <1>5, Zenon
<1>8. QED
  BY <1>4, <1>6, <1>7, Zenon

(* The expansion after each token knows of "--" and of the array flag in   *)
(* force.                                                                  *)
LEMMA ExpandedSoFar ==
    ASSUME NEW line \in Seq(AnyToken), WellFormed(line), NEW x,
           \A n \in 0..Len(line) : x[n] \in ExpandState, x[0] = NothingExpanded,
           \A n \in 1..Len(line) : x[n] = ExpandToken(x[n - 1], line[n], Slices)
    PROVE  \A n \in 0..Len(line) : /\ x[n].stopped <=> ~BeforeDashes(line, n)
                                   /\ ~x[n].stopped => InForce(line, n, x[n].flag)
<1> DEFINE Knows(n) == /\ x[n].stopped <=> ~BeforeDashes(line, n)
                       /\ ~x[n].stopped => InForce(line, n, x[n].flag)
           W == {n \in 0..Len(line) : Knows(n)}
<1>1. Len(line) \in Nat
  OBVIOUS
<1>2. Knows(0)
  <2>1. \A i \in 1..0 : FALSE
    OBVIOUS
  <2>2. x[0].stopped = FALSE /\ x[0].flag = ""
    <3>1. NothingExpanded.stopped = FALSE /\ NothingExpanded.flag = ""
      BY DEF NothingExpanded
    <3>2. QED
      BY <3>1, Zenon
  <2>3. BeforeDashes(line, 0) /\ InForce(line, 0, "")
    BY <2>1 DEF BeforeDashes, InForce
  <2>4. QED
    BY <2>2, <2>3, Zenon
<1>3. ASSUME NEW k \in 0..(Len(line) - 1), Knows(k)
      PROVE  Knows(k + 1)
  <2>1. k + 1 \in 1..Len(line) /\ (k + 1) - 1 = k /\ k \in 0..Len(line)
    BY <1>1
  <2> DEFINE n == k + 1
             s == x[k]
  <2>2. x[n] = ExpandToken(s, line[n], Slices) /\ s \in ExpandState
    BY <2>1
  <2>3. s.stopped <=> ~BeforeDashes(line, n - 1)
    BY <1>3, <2>1
  <2>4. ~s.stopped => InForce(line, n - 1, s.flag)
    BY <1>3, <2>1
  <2>5. n \in 1..Len(line)
    BY <2>1
  <2> HIDE DEF n, s
  <2>6. /\ ExpandToken(s, line[n], Slices).stopped <=> ~BeforeDashes(line, n)
        /\ ~ExpandToken(s, line[n], Slices).stopped => InForce(line, n, ExpandToken(s, line[n], Slices).flag)
    BY <2>2, <2>3, <2>4, <2>5, ExpandRound, Zenon
  <2>7. Knows(n)
    BY <2>2, <2>6, Zenon
  <2>8. QED
    BY <2>7 DEF n
<1> HIDE DEF Knows
<1>4. 0 \in W /\ \A k \in 0..(Len(line) - 1) : k \in W => k + 1 \in W
  <2>1. 0 \in 0..Len(line) /\ \A k \in 0..(Len(line) - 1) : k + 1 \in 0..Len(line)
    BY <1>1
  <2>2. QED
    BY <1>2, <1>3, <2>1
<1>5. \A k \in 0..Len(line) : k \in W
  <2> HIDE DEF W
  <2>1. QED
    BY <1>1, <1>4, UpTo
<1>6. QED
  BY <1>5 DEF Knows

(* The parse after each token, until there is an error: the token set a    *)
(* flag, was an argument, or changed neither.                              *)
LEMMA ParsedSoFar ==
    ASSUME NEW line \in Seq(AnyToken), WellFormed(line)
    PROVE  \E r : /\ \A n \in 0..Len(line) : r[n] \in ParseState
                  /\ r[0] = NothingParsed
                  /\ \A n \in 1..Len(line) : \/ r[n - 1].error /\ r[n].error
                                             \/ ~r[n - 1].error /\ Outcome(line, n, r[n - 1], r[n])
                  /\ Parsing(ExpandArrayParameters(line)) = r[Len(line)]
                  /\ ~r[Len(line)].error => r[Len(line)].pending = ""
<1>1. Len(line) \in Nat /\ Len(line) # 0
  BY DEF WellFormed
<1>2. PICK x : /\ \A n \in 0..Len(line) : x[n] \in ExpandState
               /\ x[0] = NothingExpanded
               /\ \A n \in 1..Len(line) : x[n] = ExpandToken(x[n - 1], line[n], Slices)
               /\ Expand(line, Slices) = x[Len(line)].out
  BY ExpandFollows
<1>3. \A n \in 0..Len(line) : /\ x[n].stopped <=> ~BeforeDashes(line, n)
                              /\ ~x[n].stopped => InForce(line, n, x[n].flag)
  BY <1>2, ExpandedSoFar, Zenon
<1> DEFINE r == [n \in 0..Len(line) |-> Parsing(x[n].out)]
           len == Len(line)
           Agrees(n) == InStep(line, n, r[n], x[n])
           W == {n \in 0..len : Agrees(n)}
           Steps(n) == \/ r[n - 1].error /\ r[n].error
                       \/ ~r[n - 1].error /\ Outcome(line, n, r[n - 1], r[n])
<1>4. \A n \in 0..len : r[n] = Parsing(x[n].out)
  OBVIOUS
<1> HIDE DEF r
<1>5. \A n \in 0..len : r[n] \in ParseState
  <2>1. \A n \in 0..len : x[n].out \in Seq(AnyToken)
    BY <1>2 DEF ExpandState
  <2>2. QED
    BY <1>4, <2>1, ParseOneMore
<1>6. r[0] = NothingParsed /\ Agrees(0)
  <2>1. 0 \in 0..len /\ x[0].out = <<>> /\ x[0].stopped = FALSE
    <3>1. NothingExpanded.out = <<>> /\ NothingExpanded.stopped = FALSE
      BY DEF NothingExpanded
    <3>2. 0 \in 0..len
      BY <1>1
    <3>3. QED
      BY <1>2, <3>1, <3>2, Zenon
  <2>2. r[0] = NothingParsed
    BY <1>4, <2>1, ParseOneMore
  <2>3. NothingParsed.stopped = FALSE /\ NothingParsed.pending = ""
    BY DEF NothingParsed
  <2>4. Waiting(line, 0) = ""
    BY DEF Waiting, TakesNext
  <2>5. QED
    BY <2>1, <2>2, <2>3, <2>4, Zenon DEF InStep
<1>7. ASSUME NEW k \in 0..(len - 1), Agrees(k)
      PROVE  Steps(k + 1) /\ Agrees(k + 1)
  <2> DEFINE n == k + 1
  <2>1. n \in 1..len /\ n - 1 = k /\ k \in 0..len /\ n \in 0..len
    BY <1>1
  <2>2. x[n] = ExpandToken(x[k], line[n], Slices) /\ x[k] \in ExpandState
    BY <1>2, <2>1
  <2>3. r[k] = Parsing(x[k].out) /\ r[n] = Parsing(x[n].out)
    BY <1>4, <2>1
  <2>4. line[n] \in AnyToken
    <3> HIDE DEF AnyToken, n
    <3>1. QED
      BY <2>1
  <2>5. /\ x[k].stopped <=> ~BeforeDashes(line, k)
        /\ ~x[k].stopped => InForce(line, k, x[k].flag)
    BY <1>3, <2>1, Zenon
  <2> HIDE DEF n
  <2>6. CASE r[k].error
    <3>1. r[n].error
      BY <2>2, <2>3, <2>4, <2>6, ErrorRemains, Zenon
    <3>2. InStep(line, n, r[n], x[n])
      BY <3>1, Zenon DEF InStep
    <3>3. r[n - 1] = r[k]
      BY <2>1
    <3>4. r[n - 1].error
      BY <2>6, <3>3, Zenon
    <3>5. Steps(n) /\ Agrees(n)
      BY <3>1, <3>2, <3>4, Zenon
    <3>6. QED
      BY <3>5 DEF n
  <2>7. CASE ~r[k].error
    <3>1. (r[k].stopped <=> x[k].stopped) /\ r[k].pending = Waiting(line, k)
      BY <1>7, <2>7, Zenon DEF InStep
    <3>2. Ready(line, n, x[k], r[k])
      BY <2>1, <2>3, <2>5, <2>7, <3>1, Zenon DEF Ready
    <3>3. Outcome(line, n, r[k], r[n]) /\ InStep(line, n, r[n], x[n])
      BY <2>1, <2>2, <2>3, <3>2, OneToken, Zenon
    <3>4. QED
      BY <2>1, <2>7, <3>3, Zenon DEF n
  <2>8. QED
    BY <2>6, <2>7
<1> HIDE DEF Agrees, Steps, len
<1>8. \A n \in 0..len : Agrees(n)
  <2>1. 0 \in 0..len /\ len \in Nat /\ \A k \in 0..(len - 1) : k + 1 \in 0..len
    BY <1>1 DEF len
  <2>2. 0 \in W /\ \A k \in 0..(len - 1) : k \in W => k + 1 \in W
    BY <1>6, <1>7, <2>1
  <2>3. \A k \in 0..len : k \in W
    <3> HIDE DEF W
    <3>1. QED
      BY <2>1, <2>2, UpTo
  <2>4. QED
    BY <2>3
<1>9. \A n \in 1..len : Steps(n)
  <2>1. ASSUME NEW n \in 1..len PROVE Steps(n)
    <3>1. n - 1 \in 0..(len - 1) /\ n - 1 \in 0..len /\ (n - 1) + 1 = n
      BY <1>1 DEF len
    <3>2. QED
      BY <1>7, <1>8, <3>1
  <2>2. QED
    BY <2>1
<1>10. Parsing(ExpandArrayParameters(line)) = r[len]
  <2>1. ExpandArrayParameters(line) = x[len].out
    BY <1>2, CommandFound DEF ExpandArrayParameters, len
  <2>2. len \in 0..len
    BY <1>1 DEF len
  <2>3. QED
    BY <1>4, <2>1, <2>2
<1>11. ~r[len].error => r[len].pending = ""
  <2>1. len \in 0..len /\ len \in 1..Len(line) /\ ~(len < Len(line))
    BY <1>1 DEF len
  <2>2. ~TakesNext(line, len)
    BY <2>1, LineFacts
  <2>3. Waiting(line, len) = ""
    BY <2>2 DEF Waiting
  <2>4. InStep(line, len, r[len], x[len])
    BY <1>8, <2>1 DEF Agrees
  <2>5. QED
    BY <2>3, <2>4, Zenon DEF InStep
<1>12. QED
  BY <1>5, <1>6, <1>9, <1>10, <1>11, Zenon DEF Steps, len

(* The text is none that the parameter can be converted from. *)
BadText(p, text) == Parameters[p].kind \in DOMAIN Parses /\ text \notin Parses[Parameters[p].kind]

(* What a token leaves of the flags and the arguments. *)
LEMMA OutcomeFacts ==
    ASSUME NEW line \in Seq(AnyToken), NEW n \in 1..Len(line), NEW r \in ParseState, NEW new,
           ~r.error, Outcome(line, n, r, new)
    PROVE  /\ new.error => \E p \in Names : Gives(line, n, p) /\ BadText(p, TextAt(line, n))
           /\ ~new.error =>
                 /\ new.args = IF IsArgument(line, n) THEN Append(r.args, TextAt(line, n)) ELSE r.args
                 /\ \A p \in Names : new.flags[p] = IF Gives(line, n, p) THEN Append(r.flags[p], TextAt(line, n))
                                                    ELSE r.flags[p]
<1> DEFINE txt == TextAt(line, n)
<1>1. r.flags \in [Names -> Seq(AnyText)]
  BY DEF ParseState
<1>2. CASE Sets(line, n, r, new)
  <2>1. PICK p \in Names : /\ new = Set(r, p, txt) /\ ~IsArgument(line, n)
                           /\ \A q \in Names : Gives(line, n, q) <=> q = p
    BY <1>2, Zenon DEF Sets
  <2> HIDE DEF txt
  <2>2. /\ new.error <=> BadText(p, txt)
        /\ ~new.error => new.args = r.args /\ new.flags = [r.flags EXCEPT ![p] = Append(@, txt)]
    BY <2>1, SetEnds, Zenon DEF BadText
  <2>3. new.error => \E q \in Names : Gives(line, n, q) /\ BadText(q, txt)
    BY <2>1, <2>2, Zenon
  <2>4. ASSUME ~new.error
        PROVE  /\ new.args = r.args
               /\ \A q \in Names : new.flags[q] = IF Gives(line, n, q) THEN Append(r.flags[q], txt) ELSE r.flags[q]
    <3>1. new.args = r.args /\ new.flags = [r.flags EXCEPT ![p] = Append(@, txt)]
      BY <2>2, <2>4, Zenon
    <3>2. \A q \in Names : new.flags[q] = IF q = p THEN Append(r.flags[q], txt) ELSE r.flags[q]
      BY <1>1, <3>1
    <3>3. QED
      BY <2>1, <3>1, <3>2, Zenon
  <2>5. QED
    BY <2>1, <2>3, <2>4, Zenon DEF txt
<1>3. CASE Adds(line, n, r, new)
  <2>1. new = [r EXCEPT !.args = Append(@, txt)] /\ GivesNothing(line, n) /\ IsArgument(line, n)
    BY <1>3 DEF Adds
  <2> HIDE DEF txt
  <2>2. new.error = r.error /\ new.flags = r.flags /\ new.args = Append(r.args, txt)
    BY <2>1 DEF ParseState
  <2>3. ~new.error
    BY <2>2, Zenon
  <2>4. \A p \in Names : new.flags[p] = IF Gives(line, n, p) THEN Append(r.flags[p], txt) ELSE r.flags[p]
    BY <2>1, <2>2 DEF GivesNothing
  <2>5. new.args = IF IsArgument(line, n) THEN Append(r.args, txt) ELSE r.args
    BY <2>1, <2>2
  <2>6. QED
    BY <2>3, <2>4, <2>5, Zenon DEF txt
<1>4. CASE Skips(line, n, r, new)
  BY <1>4, Zenon DEF Skips, GivesNothing
<1>5. QED
  BY <1>2, <1>3, <1>4 DEF Outcome

(* Nothing comes first but the command. *)
LEMMA CommandIsFirst ==
    ASSUME NEW line \in Seq(AnyToken), WellFormed(line), NEW t,
           \A n \in 0..Len(line) : t[n] \in Seq(AnyText), t[0] = <<>>,
           \A n \in 1..Len(line) : t[n] = IF IsArgument(line, n) THEN Append(t[n - 1], TextAt(line, n)) ELSE t[n - 1]
    PROVE  t[Len(line)] # <<>> /\ Head(t[Len(line)]) = "build"
<1> DEFINE len == Len(line)
           Starts(n) == n > 0 => t[n] # <<>> /\ Head(t[n]) = "build"
           W == {n \in 0..len : Starts(n)}
<1>1. len \in Nat /\ len # 0
  BY DEF WellFormed
<1>2. IsArgument(line, 1) /\ TextAt(line, 1) = "build"
  <2>1. line[1] = Word("build")
    BY DEF WellFormed
  <2>2. line[1].kind = "word" /\ line[1].text = "build"
    <3>1. Word("build").kind = "word" /\ Word("build").text = "build"
      BY DEF Word
    <3>2. QED
      BY <2>1, <3>1
  <2>3. BeforeDashes(line, 1)
    <3>1. \A i \in 1..1 : i = 1
      OBVIOUS
    <3>2. QED
      BY <2>2, <3>1 DEF BeforeDashes
  <2>4. \A i \in 1..(1 - 1) : FALSE
    OBVIOUS
  <2>5. QED
    BY <2>2, <2>3, <2>4 DEF IsArgument, TextAt
<1>3. ASSUME NEW k \in 0..(len - 1), Starts(k)
      PROVE  Starts(k + 1)
  <2> DEFINE n == k + 1
  <2>1. n \in 1..len /\ n - 1 = k /\ k \in 0..len /\ (k # 0 => k > 0)
    BY <1>1
  <2>2. t[k] \in Seq(AnyText) /\ t[n] = IF IsArgument(line, n) THEN Append(t[k], TextAt(line, n)) ELSE t[k]
    BY <2>1
  <2> HIDE DEF n
  <2>3. CASE k = 0
    <3>1. n = 1 /\ t[k] = <<>>
      BY <2>3 DEF n
    <3>2. t[n] = Append(<<>>, "build")
      BY <1>2, <2>2, <3>1
    <3>3. t[n] = <<"build">>
      BY <3>2
    <3>4. QED
      BY <3>3 DEF n
  <2>4. CASE k # 0
    <3>1. t[k] # <<>> /\ Head(t[k]) = "build"
      BY <1>3, <2>1, <2>4
    <3> DEFINE s == t[k]
               txt == TextAt(line, n)
    <3> HIDE DEF s, txt
    <3>2. Append(s, txt) # <<>> /\ Head(Append(s, txt)) = Head(s)
      <4> HIDE DEF AnyText
      <4>1. s \in Seq(AnyText) /\ s # <<>>
        BY <2>2, <3>1 DEF s
      <4>2. QED
        BY <4>1
    <3>3. t[n] # <<>> /\ Head(t[n]) = "build"
      BY <2>2, <3>1, <3>2 DEF s, txt
    <3>4. QED
      BY <3>3 DEF n
  <2>5. QED
    BY <2>3, <2>4
<1> HIDE DEF len, Starts
<1>4. \A k \in 0..len : k \in W
  <2>1. Starts(0)
    BY DEF Starts
  <2>2. 0 \in W /\ \A k \in 0..(len - 1) : k \in W => k + 1 \in W
    <3>1. 0 \in 0..len /\ \A k \in 0..(len - 1) : k + 1 \in 0..len
      BY <1>1
    <3>2. QED
      BY <1>3, <2>1, <3>1
  <2> HIDE DEF W
  <2>3. QED
    BY <1>1, <2>2, UpTo
<1>5. len \in 0..len /\ len > 0
  BY <1>1
<1>6. QED
  BY <1>4, <1>5 DEF Starts, len

Runs(line, r) == /\ \A n \in 0..Len(line) : r[n] \in ParseState
                 /\ r[0] = NothingParsed
                 /\ \A n \in 1..Len(line) : \/ r[n - 1].error /\ r[n].error
                                            \/ ~r[n - 1].error /\ Outcome(line, n, r[n - 1], r[n])

(* Until there is an error, a loop that follows the parse has its flags    *)
(* and its arguments.                                                      *)
LEMMA ParseListed ==
    ASSUME NEW line \in Seq(AnyToken), NEW r, Runs(line, r)
    PROVE  /\ r[Len(line)].error => \E j \in 1..Len(line), p \in Names : Gives(line, j, p) /\ BadText(p, TextAt(line, j))
           /\ ~r[Len(line)].error => /\ r[Len(line)].args = Arguments(line)
                                     /\ \A p \in Names : r[Len(line)].flags[p] = Given(line, p)
<1> DEFINE len == Len(line)
           As == {j \in DOMAIN line : IsArgument(line, j)}
           Gs(p) == {j \in DOMAIN line : Gives(line, j, p)}
           Blamed(n) == r[n].error => \E j \in 1..n, p \in Names : Gives(line, j, p) /\ BadText(p, TextAt(line, j))
<1>1. len \in Nat /\ DOMAIN line = 1..len
  OBVIOUS
<1>2. r[0].error = FALSE /\ r[0].args = <<>> /\ \A p \in Names : r[0].flags[p] = <<>>
  <2>1. NothingParsed.error = FALSE /\ NothingParsed.args = <<>> /\ \A p \in Names : NothingParsed.flags[p] = <<>>
    BY DEF NothingParsed
  <2>2. r[0] = NothingParsed
    BY Zenon DEF Runs
  <2>3. QED
    BY <2>1, <2>2, Zenon
<1>3. \A n \in 1..len : (n \in As <=> IsArgument(line, n)) /\ \A p \in Names : n \in Gs(p) <=> Gives(line, n, p)
  BY <1>1
<1>4. TextsAt(line, As) = Arguments(line) /\ \A p \in Names : TextsAt(line, Gs(p)) = Given(line, p)
  BY DEF Arguments, Given
<1> HIDE DEF len, As, Gs
<1>5. ASSUME NEW k \in 0..(len - 1)
      PROVE  /\ k + 1 \in 1..len /\ (k + 1) - 1 = k /\ k \in 0..len /\ k + 1 \in 0..len
             /\ r[k] \in ParseState
             /\ \/ r[k].error /\ r[k + 1].error
                \/ ~r[k].error /\ Outcome(line, k + 1, r[k], r[k + 1])
  <2>1. k + 1 \in 1..len /\ (k + 1) - 1 = k /\ k \in 0..len /\ k + 1 \in 0..len
    BY <1>1
  <2>2. \/ r[(k + 1) - 1].error /\ r[k + 1].error
        \/ ~r[(k + 1) - 1].error /\ Outcome(line, k + 1, r[(k + 1) - 1], r[k + 1])
    BY <2>1, Zenon DEF len, Runs
  <2>3. r[k] \in ParseState
    BY <2>1, Zenon DEF len, Runs
  <2>4. QED
    BY <2>1, <2>2, <2>3
<1>6. ASSUME NEW k \in 0..(len - 1), ~r[k + 1].error
      PROVE  /\ ~r[k].error
             /\ r[k + 1].args = IF k + 1 \in As THEN Append(r[k].args, TextAt(line, k + 1)) ELSE r[k].args
             /\ \A p \in Names : r[k + 1].flags[p] = IF k + 1 \in Gs(p) THEN Append(r[k].flags[p], TextAt(line, k + 1))
                                                     ELSE r[k].flags[p]
  <2> DEFINE n == k + 1
  <2>1. n \in 1..Len(line) /\ n \in 1..len
    BY <1>5 DEF len
  <2>2. ~r[k].error /\ Outcome(line, n, r[k], r[n]) /\ r[k] \in ParseState
    BY <1>5, <1>6, Zenon
  <2>3. n \in As <=> IsArgument(line, n)
    BY <1>3, <2>1
  <2>4. \A p \in Names : n \in Gs(p) <=> Gives(line, n, p)
    BY <1>3, <2>1
  <2>5. ~r[n].error
    BY <1>6
  <2> HIDE DEF n
  <2>6. /\ r[n].args = IF IsArgument(line, n) THEN Append(r[k].args, TextAt(line, n)) ELSE r[k].args
        /\ \A p \in Names : r[n].flags[p] = IF Gives(line, n, p) THEN Append(r[k].flags[p], TextAt(line, n))
                                            ELSE r[k].flags[p]
    <3> DEFINE a == r[k]
               b == r[n]
    <3>1. ~a.error /\ Outcome(line, n, a, b) /\ a \in ParseState /\ ~b.error
      BY <2>2, <2>5, Zenon
    <3> HIDE DEF a, b
    <3>2. /\ b.args = IF IsArgument(line, n) THEN Append(a.args, TextAt(line, n)) ELSE a.args
          /\ \A p \in Names : b.flags[p] = IF Gives(line, n, p) THEN Append(a.flags[p], TextAt(line, n))
                                            ELSE a.flags[p]
      BY <2>1, <3>1, OutcomeFacts
    <3>3. QED
      BY <3>2, Zenon DEF a, b
  <2>7. r[n].args = IF n \in As THEN Append(r[k].args, TextAt(line, n)) ELSE r[k].args
    BY <2>3, <2>6
  <2>8. \A p \in Names : r[n].flags[p] = IF n \in Gs(p) THEN Append(r[k].flags[p], TextAt(line, n)) ELSE r[k].flags[p]
    BY <2>4, <2>6
  <2>9. QED
    BY <2>2, <2>7, <2>8, Zenon DEF n
<1>7. Blamed(len)
  <2> DEFINE W == {n \in 0..len : Blamed(n)}
  <2>1. Blamed(0)
    BY <1>2, Zenon
  <2>2. ASSUME NEW k \in 0..(len - 1), Blamed(k) PROVE Blamed(k + 1)
    <3>1. \A j \in 1..k : j \in 1..(k + 1)
      BY <1>1
    <3>2. k + 1 \in 1..(k + 1) /\ k + 1 \in 1..Len(line)
      BY <1>1, <1>5 DEF len
    <3>3. CASE r[k].error
      BY <2>2, <3>1, <3>3, Zenon
    <3>4. CASE ~r[k].error
      <4>1. Outcome(line, k + 1, r[k], r[k + 1]) /\ r[k] \in ParseState
        BY <1>5, <3>4, Zenon
      <4>2. r[k + 1].error => \E p \in Names : Gives(line, k + 1, p) /\ BadText(p, TextAt(line, k + 1))
        <5> DEFINE a == r[k]
                   b == r[k + 1]
                   n == k + 1
        <5>1. ~a.error /\ Outcome(line, n, a, b) /\ a \in ParseState /\ n \in 1..Len(line)
          BY <3>2, <3>4, <4>1, Zenon
        <5> HIDE DEF a, b, n
        <5>2. b.error => \E p \in Names : Gives(line, n, p) /\ BadText(p, TextAt(line, n))
          BY <5>1, OutcomeFacts
        <5>3. QED
          BY <5>2, Zenon DEF a, b, n
      <4>3. QED
        BY <3>2, <4>2, Zenon
    <3>5. QED
      BY <3>3, <3>4
  <2> HIDE DEF Blamed
  <2>3. 0 \in W /\ \A k \in 0..(len - 1) : k \in W => k + 1 \in W
    <3>1. 0 \in 0..len
      BY <1>1
    <3>2. QED
      BY <1>5, <2>1, <2>2, <3>1
  <2>4. \A k \in 0..len : k \in W
    <3> HIDE DEF W
    <3>1. QED
      BY <1>1, <2>3, UpTo
  <2>5. len \in 0..len
    BY <1>1
  <2>6. QED
    BY <2>4, <2>5
<1>8. ASSUME ~r[len].error PROVE r[len].args = Arguments(line)
  <2>a. PICK t : TextsSoFar(line, As, t)
    BY TextsFollow
  <2>1. /\ t[0] = <<>>
        /\ \A n \in 1..len : t[n] = IF n \in As THEN Append(t[n - 1], TextAt(line, n)) ELSE t[n - 1]
        /\ TextsAt(line, As) = t[len]
    BY <2>a DEF TextsSoFar, len
  <2> DEFINE Same(n) == ~r[n].error => r[n].args = t[n]
             W == {n \in 0..len : Same(n)}
  <2>2. Same(0)
    BY <1>2, <2>1
  <2>3. ASSUME NEW k \in 0..(len - 1), Same(k) PROVE Same(k + 1)
    <3>1. ASSUME ~r[k + 1].error PROVE r[k + 1].args = t[k + 1]
      <4>1. r[k].args = t[k]
        BY <1>6, <2>3, <3>1, Zenon
      <4>2. r[k + 1].args = IF k + 1 \in As THEN Append(r[k].args, TextAt(line, k + 1)) ELSE r[k].args
        BY <1>6, <3>1, Zenon
      <4>3. t[k + 1] = IF k + 1 \in As THEN Append(t[k], TextAt(line, k + 1)) ELSE t[k]
        BY <1>5, <2>1
      <4>4. QED
        BY <4>1, <4>2, <4>3
    <3>2. QED
      BY <3>1
  <2> HIDE DEF Same
  <2>4. 0 \in W /\ \A k \in 0..(len - 1) : k \in W => k + 1 \in W
    <3>1. 0 \in 0..len
      BY <1>1
    <3>2. QED
      BY <1>5, <2>2, <2>3, <3>1
  <2>5. \A k \in 0..len : k \in W
    <3> HIDE DEF W
    <3>1. QED
      BY <1>1, <2>4, UpTo
  <2>6. len \in 0..len
    BY <1>1
  <2>7. Same(len)
    BY <2>5, <2>6
  <2>8. QED
    BY <1>4, <1>8, <2>1, <2>7 DEF Same
<1>9. ASSUME ~r[len].error, NEW p \in Names PROVE r[len].flags[p] = Given(line, p)
  <2> DEFINE P == Gs(p)
  <2>a. PICK t : TextsSoFar(line, P, t)
    BY TextsFollow
  <2>1. /\ t[0] = <<>>
        /\ \A n \in 1..len : t[n] = IF n \in P THEN Append(t[n - 1], TextAt(line, n)) ELSE t[n - 1]
        /\ TextsAt(line, P) = t[len]
    BY <2>a DEF TextsSoFar, len
  <2> DEFINE Same(n) == ~r[n].error => r[n].flags[p] = t[n]
             W == {n \in 0..len : Same(n)}
  <2>2. Same(0)
    BY <1>2, <2>1
  <2>3. ASSUME NEW k \in 0..(len - 1), Same(k) PROVE Same(k + 1)
    <3>1. ASSUME ~r[k + 1].error PROVE r[k + 1].flags[p] = t[k + 1]
      <4>1. r[k].flags[p] = t[k]
        BY <1>6, <2>3, <3>1, Zenon
      <4>2. r[k + 1].flags[p] = IF k + 1 \in P THEN Append(r[k].flags[p], TextAt(line, k + 1)) ELSE r[k].flags[p]
        BY <1>6, <3>1, Zenon
      <4>3. t[k + 1] = IF k + 1 \in P THEN Append(t[k], TextAt(line, k + 1)) ELSE t[k]
        BY <1>5, <2>1
      <4>4. QED
        BY <4>1, <4>2, <4>3
    <3>2. QED
      BY <3>1
  <2> HIDE DEF Same
  <2>4. 0 \in W /\ \A k \in 0..(len - 1) : k \in W => k + 1 \in W
    <3>1. 0 \in 0..len
      BY <1>1
    <3>2. QED
      BY <1>5, <2>2, <2>3, <3>1
  <2>5. \A k \in 0..len : k \in W
    <3> HIDE DEF W
    <3>1. QED
      BY <1>1, <2>4, UpTo
  <2>6. len \in 0..len
    BY <1>1
  <2>7. Same(len)
    BY <2>5, <2>6
  <2>8. QED
    BY <1>4, <1>9, <2>1, <2>7 DEF Same
<1>10. QED
  BY <1>7, <1>8, <1>9, Zenon DEF len

(* What cobra is given is what the command line says. *)
LEMMA ParsedAsWritten ==
    ASSUME NEW line \in Seq(AnyToken), WellFormed(line), NEW q, q = ParseFlags(ExpandArrayParameters(line))
    PROVE  /\ q.error => \E p \in Names, k \in 1..Len(line) :
                 k \in DOMAIN Given(line, p) /\ BadText(p, Given(line, p)[k])
           /\ ~q.error => /\ q.args = Arguments(line) /\ q.args # <<>> /\ Head(q.args) = "build"
                          /\ \A p \in Names : q.flags[p] = Given(line, p)
<1>1. PICK r : /\ Runs(line, r)
               /\ Parsing(ExpandArrayParameters(line)) = r[Len(line)]
               /\ ~r[Len(line)].error => r[Len(line)].pending = ""
  BY ParsedSoFar, Zenon DEF Runs
<1> DEFINE a == r[Len(line)]
<1>2. /\ a.error => \E j \in 1..Len(line), p \in Names : Gives(line, j, p) /\ BadText(p, TextAt(line, j))
      /\ ~a.error => /\ a.args = Arguments(line)
                     /\ \A p \in Names : a.flags[p] = Given(line, p)
  BY <1>1, ParseListed, Zenon
<1>3. Parsing(ExpandArrayParameters(line)) = a /\ (~a.error => a.pending = "")
  BY <1>1, Zenon
<1> HIDE DEF a
<1>4. (q.error <=> a.error) /\ (~a.error => q = a)
  <2>1. q = IF a.pending = "" THEN a ELSE ParseError
    BY <1>3 DEF ParseFlags
  <2>2. ParseError.error
    BY RoundTypes
  <2>3. CASE a.pending = ""
    <3>1. q = a
      BY <2>1, <2>3
    <3>2. QED
      BY <3>1, Zenon
  <2>4. CASE a.pending # ""
    <3>1. q = ParseError /\ a.error
      BY <1>3, <2>1, <2>4, Zenon
    <3>2. QED
      BY <2>2, <3>1, Zenon
  <2>5. QED
    BY <2>3, <2>4
<1>5. ASSUME q.error
      PROVE  \E p \in Names, k \in 1..Len(line) : k \in DOMAIN Given(line, p) /\ BadText(p, Given(line, p)[k])
  <2>1. PICK j \in 1..Len(line), p \in Names : Gives(line, j, p) /\ BadText(p, TextAt(line, j))
    BY <1>2, <1>4, <1>5, Zenon
  <2> DEFINE P == {i \in DOMAIN line : Gives(line, i, p)}
             t == Given(line, p)
  <2>2. j \in P /\ t = TextsAt(line, P)
    BY <2>1 DEF Given
  <2> HIDE DEF P, t
  <2>3. Lists(line, P, t, Len(line))
    BY <2>2, TextsListed
  <2>4. PICK k \in 1..Len(t) : t[k] = TextAt(line, j)
    BY <2>2, <2>3 DEF Lists
  <2>5. t \in Seq(AnyText)
    <3>1. PICK u : TextsSoFar(line, P, u)
      BY TextsFollow
    <3>2. Len(line) \in 0..Len(line)
      OBVIOUS
    <3>3. QED
      BY <2>2, <3>1, <3>2 DEF TextsSoFar
  <2>6. Len(t) <= Len(line)
    BY <2>3 DEF Lists
  <2>7. k \in DOMAIN t /\ k \in 1..Len(line)
    <3>1. Len(t) \in Nat /\ Len(line) \in Nat /\ DOMAIN t = 1..Len(t)
      BY <2>5
    <3>2. QED
      BY <2>6, <3>1
  <2>8. QED
    BY <2>1, <2>4, <2>7, Zenon DEF t
<1>6. Arguments(line) # <<>> /\ Head(Arguments(line)) = "build"
  <2> DEFINE P == {i \in DOMAIN line : IsArgument(line, i)}
  <2>1. Arguments(line) = TextsAt(line, P) /\ \A n \in 1..Len(line) : n \in P <=> IsArgument(line, n)
    BY DEF Arguments
  <2> HIDE DEF P
  <2>a. PICK t : TextsSoFar(line, P, t)
    BY TextsFollow
  <2>2. /\ \A n \in 0..Len(line) : t[n] \in Seq(AnyText)
        /\ t[0] = <<>>
        /\ \A n \in 1..Len(line) : t[n] = IF n \in P THEN Append(t[n - 1], TextAt(line, n)) ELSE t[n - 1]
        /\ TextsAt(line, P) = t[Len(line)]
    BY <2>a DEF TextsSoFar
  <2>3. \A n \in 1..Len(line) : t[n] = IF IsArgument(line, n) THEN Append(t[n - 1], TextAt(line, n)) ELSE t[n - 1]
    BY <2>1, <2>2
  <2>4. t[Len(line)] # <<>> /\ Head(t[Len(line)]) = "build"
    BY <2>2, <2>3, CommandIsFirst, Zenon
  <2>5. QED
    BY <2>1, <2>2, <2>4
<1>7. ASSUME ~q.error
      PROVE  /\ q.args = Arguments(line) /\ q.args # <<>> /\ Head(q.args) = "build"
             /\ \A p \in Names : q.flags[p] = Given(line, p)
  <2>1. q = a /\ ~a.error
    BY <1>4, <1>7, Zenon
  <2>2. a.args = Arguments(line) /\ \A p \in Names : a.flags[p] = Given(line, p)
    BY <1>2, <2>1, Zenon
  <2>3. QED
    BY <1>6, <2>1, <2>2, Zenon
<1>8. QED
  BY <1>5, <1>7, Zenon

--------------------------------------------------------------------------------
(* The build.                                                              *)

(* Facts about sequences of texts. *)
LEMMA SomeTexts ==
    /\ \A S, T : S \subseteq T => Seq(S) \subseteq Seq(T)
    /\ \A S : <<>> \in Seq(S) /\ \A x \in S : <<x>> \in Seq(S)
    /\ \A S : \A s \in Seq(S) : s # <<>> => s[Len(s)] \in S /\ Tail(s) \in Seq(S)
<1>1. ASSUME NEW S, NEW T, S \subseteq T, NEW s \in Seq(S) PROVE s \in Seq(T)
  BY <1>1
<1>2. ASSUME NEW S PROVE <<>> \in Seq(S) /\ \A x \in S : <<x>> \in Seq(S)
  OBVIOUS
<1>3. ASSUME NEW S, NEW s \in Seq(S), s # <<>> PROVE s[Len(s)] \in S /\ Tail(s) \in Seq(S)
  BY <1>3
<1>4. QED
  BY <1>1, <1>2, <1>3

(* The result of ParseParameter, and the same in terms of what was meant. *)
LEMMA ParameterTyped ==
    ASSUME NEW p \in Names, NEW given \in Seq(AnyText), NEW e, e[p] \in AnyText,
           e[p] # "" /\ Parameters[p].kind = "slice" => Fields[e[p]] \in Seq(AnyText)
    PROVE  ParseParameter(p, given, e).value \in Seq(AnyText)
<1>1. /\ Parameters[p].kind \in {"string", "bool", "int", "slice"}
      /\ Parameters[p].default \in Seq(STRING)
  BY CommandLineAssumption
<1>2. Parameters[p].default \in Seq(AnyText)
  <2>1. STRING \subseteq AnyText
    BY DEF AnyText
  <2>2. QED
    BY <1>1, <2>1, SomeTexts, Zenon
<1> HIDE DEF AnyText
<1>3. Missing.value = <<>> /\ \A v : Value(v).value = v
  BY DEF Value, Missing
<1>4. <<e[p]>> \in Seq(AnyText) /\ <<>> \in Seq(AnyText) /\ (given # <<>> => <<given[Len(given)]>> \in Seq(AnyText))
  BY SomeTexts, Zenon
<1>5. CASE given # <<>>
  BY <1>3, <1>4, <1>5 DEF ParseParameter
<1>6. CASE given = <<>> /\ e[p] # ""
  <2>1. ParseParameter(p, given, e) = FromEnv(p, e[p])
    BY <1>6 DEF ParseParameter
  <2>2. FromEnv(p, e[p]) \in {Value(Fields[e[p]]), Value(<<e[p]>>), Missing}
    BY <1>1 DEF FromEnv
  <2>3. FromEnv(p, e[p]) = Value(Fields[e[p]]) => FromEnv(p, e[p]).value \in Seq(AnyText)
    <3>1. CASE Parameters[p].kind = "slice"
      BY <1>3, <1>6, <3>1
    <3>2. CASE Parameters[p].kind # "slice"
      <4>1. FromEnv(p, e[p]) \in {Value(<<e[p]>>), Missing}
        BY <1>1, <3>2 DEF FromEnv
      <4>2. QED
        BY <1>3, <1>4, <4>1
    <3>3. QED
      BY <3>1, <3>2
  <2>4. QED
    BY <1>3, <1>4, <2>1, <2>2, <2>3
<1>7. CASE given = <<>> /\ e[p] = ""
  <2>1. ParseParameter(p, given, e) \in {Missing, Value(Parameters[p].default)}
    BY <1>7 DEF ParseParameter
  <2>2. QED
    BY <1>2, <1>3, <1>4, <2>1
<1>8. QED
  BY <1>5, <1>6, <1>7

(* Parsing a parameter gives what was meant. *)
LEMMA ParameterMeant ==
    ASSUME NEW p \in Names PROVE ParseParameter(p, Given(argv, p), env) = Meant(p)
<1> DEFINE given == Given(argv, p)
           text == env[p]
           kind == Parameters[p].kind
           convertible == kind \in DOMAIN Parses => text \in Parses[kind]
<1>1. kind \in {"string", "bool", "int", "slice"} /\ Parameters[p].required \in BOOLEAN /\ DOMAIN Parses = {"bool", "int"}
  BY CommandLineAssumption
<1>2. Meant(p) = CASE given # <<>> /\ kind = "slice" -> Value(given)
                   [] given # <<>> /\ kind # "slice" -> Value(<<given[Len(given)]>>)
                   [] given = <<>> /\ text = "" /\ ~Parameters[p].required -> Value(Parameters[p].default)
                   [] given = <<>> /\ text # "" /\ kind = "slice" -> Value(Fields[text])
                   [] given = <<>> /\ text # "" /\ kind # "slice" /\ convertible -> Value(<<text>>)
                   [] OTHER -> Missing
  BY Zenon DEF Meant
<1>3. ParseParameter(p, given, env)
        = IF given # <<>> THEN Value(IF kind = "slice" THEN given ELSE <<given[Len(given)]>>)
          ELSE IF text # "" THEN FromEnv(p, text)
          ELSE IF Parameters[p].required THEN Missing
          ELSE Value(Parameters[p].default)
  BY DEF ParseParameter
<1>4. FromEnv(p, text) = CASE kind = "slice" -> Value(Fields[text])
                           [] kind = "string" -> Value(<<text>>)
                           [] OTHER -> IF text \in Parses[kind] THEN Value(<<text>>) ELSE Missing
  BY DEF FromEnv
<1> HIDE DEF given, text, kind
<1>5. FromEnv(p, text) = IF kind = "slice" THEN Value(Fields[text])
                         ELSE IF convertible THEN Value(<<text>>) ELSE Missing
  BY <1>1, <1>4
<1> HIDE DEF convertible
<1>6. CASE given # <<>>
  BY <1>2, <1>3, <1>6 DEF given
<1>7. CASE given = <<>> /\ text # ""
  <2>1. Meant(p) = IF kind = "slice" THEN Value(Fields[text])
                   ELSE IF convertible THEN Value(<<text>>) ELSE Missing
    BY <1>2, <1>7
  <2>2. QED
    BY <1>3, <1>5, <1>7, <2>1 DEF given
<1>8. CASE given = <<>> /\ text = ""
  BY <1>1, <1>2, <1>3, <1>8 DEF given
<1>9. QED
  BY <1>6, <1>7, <1>8

(* The inputs, as the cases give them. *)
InputsTyped ==
    /\ argv \in Seq(AnyToken)
    /\ \A p \in Names : /\ env[p] \in AnyText
                        /\ env[p] # "" /\ Parameters[p].kind = "slice" => Fields[env[p]] \in Seq(AnyText)
    /\ options.time \in AnyText /\ options.annotationsFile \in Seq(AnyLabel)
    /\ IsContainerfile(df)

Parameter(p) == ParseParameter(p, parsed.flags[p], env)

(* What pflag made of the command line. *)
LineParsed ==
    /\ parsed \in ParseState
    /\ phase = "usage" /\ WellFormed(argv) =>
          \E p \in Names, k \in 1..Len(argv) : k \in DOMAIN Given(argv, p) /\ BadText(p, Given(argv, p)[k])
    /\ phase \notin {"expand", "usage"} /\ WellFormed(argv) =>
          /\ parsed.args = Tail(Arguments(argv))
          /\ \A p \in Names : parsed.flags[p] = Given(argv, p)

(* The parameters that were visited have their values. *)
ParamsKnown ==
    /\ params \in [Names -> Seq(AnyText)] /\ todo \subseteq Names
    /\ phase = "expand" => todo = Names
    /\ phase \in {"labels", "inject", "build", "built", "failed"} => todo = {}
    /\ phase \in {"parameters", "labels", "inject", "build", "built", "failed"} =>
          \A p \in Names \ todo : params[p] = Parameter(p).value /\ ~Parameter(p).error
    /\ phase = "error" => \E p \in Names : Parameter(p).error

(* What was made of them. *)
LabelsMerged ==
    phase \in {"inject", "build", "built"} =>
        /\ mergedLabels = Merge(DefaultLabels, <<>>, FromTexts(params["labels"]))
        /\ mergedAnnotations = Merge(OciLabels, options.annotationsFile, FromTexts(params["annotations"]))

LabelsWritten ==
    phase \in {"build", "built"} /\ Injects(options) =>
        labelsJson = DetermineFinalLabels(df, options, mergedLabels)

ImageBuilt ==
    phase = "built" => image = [labels      |-> ImageLabels(df, options, mergedLabels),
                                annotations |-> AsMap(mergedAnnotations)]

LabelPhases == {"expand", "usage", "parameters", "error", "labels", "inject", "build", "built", "failed"}

LabelsInv == /\ phase \in LabelPhases /\ InputsTyped /\ LineParsed /\ ParamsKnown
             /\ LabelsMerged /\ LabelsWritten /\ ImageBuilt

(* Before the command line is expanded there is no result. *)
LEMMA LabelsInitInv == LabelsInit => LabelsInv
<1>1. SUFFICES ASSUME LabelsInit PROVE LabelsInv
  OBVIOUS
<1>2. PICK case \in DOMAIN Cases : /\ argv \in Cases[case].argvs
                                   /\ env \in Cases[case].envs
                                   /\ options \in Cases[case].options
                                   /\ df \in Cases[case].containerfiles
  BY <1>1 DEF LabelsInit
<1>3. /\ argv \in Seq(Token) /\ IsContainerfile(df)
      /\ \A p \in Names : /\ env[p] \in STRING
                          /\ env[p] # "" /\ Parameters[p].kind = "slice" => Fields[env[p]] \in Seq(STRING)
      /\ options.time \in STRING /\ options.annotationsFile \in Seq(LabelType)
  BY <1>2, BuildLabelsAssumption
<1>4. STRING \subseteq AnyText /\ Token \subseteq AnyToken
  <2>1. STRING \subseteq AnyText
    BY DEF AnyText
  <2> HIDE DEF AnyText
  <2>2. QED
    BY <2>1 DEF Token, AnyToken
<1>5. Seq(STRING) \subseteq Seq(AnyText) /\ Seq(Token) \subseteq Seq(AnyToken) /\ Seq(LabelType) \subseteq Seq(AnyLabel)
  BY <1>4, SomeTexts, SomeLabels, Zenon
<1>6. InputsTyped
  <2>1. argv \in Seq(AnyToken) /\ options.annotationsFile \in Seq(AnyLabel)
    BY <1>3, <1>5, Zenon
  <2>2. options.time \in AnyText /\ IsContainerfile(df)
    BY <1>3, <1>4, Zenon
  <2>3. \A p \in Names : /\ env[p] \in AnyText
                         /\ env[p] # "" /\ Parameters[p].kind = "slice" => Fields[env[p]] \in Seq(AnyText)
    BY <1>3, <1>4, <1>5, Zenon
  <2>4. QED
    BY <2>1, <2>2, <2>3 DEF InputsTyped
<1>7. phase = "expand" /\ parsed = NothingParsed /\ todo = Names /\ params = [p \in Names |-> <<>>]
  BY <1>1 DEF LabelsInit
<1>8. LineParsed
  BY <1>7, RoundTypes DEF LineParsed
<1>9. ParamsKnown
  <2>1. params \in [Names -> Seq(AnyText)]
    <3>1. <<>> \in Seq(AnyText)
      BY SomeTexts
    <3>2. QED
      BY <1>7, <3>1
  <2>2. QED
    BY <1>7, <2>1 DEF ParamsKnown
<1>10. QED
  BY <1>6, <1>7, <1>8, <1>9 DEF LabelsInv, LabelPhases, LabelsMerged, LabelsWritten, ImageBuilt

(* Parsing the command line. *)
LEMMA ExecuteInv == LabelsInv /\ Execute => LabelsInv'
<1>1. SUFFICES ASSUME LabelsInv, Execute PROVE LabelsInv'
  OBVIOUS
<1> DEFINE answer == ParseFlags(ExpandArrayParameters(argv))
           fails == answer.error \/ answer.args = <<>> \/ Head(answer.args) # "build"
<1>2. /\ phase = "expand" /\ argv' = argv /\ env' = env /\ options' = options /\ df' = df
      /\ todo' = todo /\ params' = params
      /\ \/ fails /\ phase' = "usage" /\ parsed' = parsed
         \/ ~fails /\ phase' = "parameters" /\ parsed' = [answer EXCEPT !.args = Tail(@)]
  BY <1>1 DEF Execute, inputs
<1>3. argv \in Seq(AnyToken) /\ InputsTyped /\ LineParsed /\ ParamsKnown
  BY <1>1 DEF LabelsInv, InputsTyped
<1>4. InputsTyped'
  BY <1>2, <1>3 DEF InputsTyped
<1>5. answer \in ParseState
  <2>1. ExpandArrayParameters(argv) \in Seq(AnyToken)
    <3>1. PICK x : /\ \A n \in 0..Len(argv) : x[n] \in ExpandState
                   /\ Expand(argv, ArrayFlags(CommandPath(argv))) = x[Len(argv)].out
      BY <1>3, ExpandFollows
    <3>2. Len(argv) \in 0..Len(argv)
      BY <1>3
    <3>3. QED
      BY <3>1, <3>2 DEF ExpandArrayParameters, ExpandState
  <2>2. QED
    BY <2>1, ParseOneMore, RoundTypes DEF ParseFlags
<1>6. WellFormed(argv) =>
         /\ answer.error => \E p \in Names, k \in 1..Len(argv) :
                 k \in DOMAIN Given(argv, p) /\ BadText(p, Given(argv, p)[k])
         /\ ~answer.error => /\ answer.args = Arguments(argv) /\ answer.args # <<>> /\ Head(answer.args) = "build"
                             /\ \A p \in Names : answer.flags[p] = Given(argv, p)
  BY <1>3, ParsedAsWritten, Zenon
<1> HIDE DEF answer
<1>7. CASE fails /\ phase' = "usage" /\ parsed' = parsed
  <2>1. WellFormed(argv) => \E p \in Names, k \in 1..Len(argv) :
           k \in DOMAIN Given(argv, p) /\ BadText(p, Given(argv, p)[k])
    BY <1>6, <1>7, Zenon
  <2>2. LineParsed'
    <3>1. parsed' \in ParseState /\ phase' = "usage" /\ argv' = argv
      BY <1>2, <1>3, <1>7 DEF LineParsed
    <3>2. QED
      BY <2>1, <3>1 DEF LineParsed
  <2>3. ParamsKnown'
    BY <1>2, <1>3, <1>7 DEF ParamsKnown
  <2>4. QED
    BY <1>4, <1>7, <2>2, <2>3 DEF LabelsInv, LabelPhases, LabelsMerged, LabelsWritten, ImageBuilt
<1>8. CASE ~fails /\ phase' = "parameters" /\ parsed' = [answer EXCEPT !.args = Tail(@)]
  <2>1. answer.args # <<>> /\ ~answer.error
    BY <1>8, Zenon
  <2>2. Tail(answer.args) \in Seq(AnyText)
    <3>1. answer.args \in Seq(AnyText)
      BY <1>5 DEF ParseState
    <3>2. QED
      BY <2>1, <3>1, SomeTexts, Zenon
  <2>3. parsed' \in ParseState /\ parsed'.args = Tail(answer.args) /\ parsed'.flags = answer.flags
    BY <1>5, <1>8, <2>2 DEF ParseState
  <2>4. WellFormed(argv) => parsed'.args = Tail(Arguments(argv)) /\ \A p \in Names : parsed'.flags[p] = Given(argv, p)
    BY <1>6, <2>1, <2>3, Zenon
  <2>5. LineParsed'
    <3>1. phase' = "parameters" /\ argv' = argv
      BY <1>2, <1>8
    <3>2. QED
      BY <2>3, <2>4, <3>1 DEF LineParsed
  <2>6. ParamsKnown'
    <3>1. todo' = Names /\ params' \in [Names -> Seq(AnyText)] /\ phase' = "parameters"
      BY <1>2, <1>3, <1>8 DEF ParamsKnown
    <3>2. QED
      BY <3>1 DEF ParamsKnown
  <2>7. QED
    BY <1>4, <1>8, <2>5, <2>6 DEF LabelsInv, LabelPhases, LabelsMerged, LabelsWritten, ImageBuilt
<1>9. QED
  BY <1>2, <1>7, <1>8

(* One more parameter. *)
LEMMA ParseParametersInv == ASSUME NEW p \in Names PROVE LabelsInv /\ ParseParameters(p) => LabelsInv'
<1>1. SUFFICES ASSUME LabelsInv, ParseParameters(p) PROVE LabelsInv'
  OBVIOUS
<1> DEFINE answer == Parameter(p)
<1>2. /\ phase = "parameters" /\ p \in todo /\ todo' = todo \ {p}
      /\ argv' = argv /\ env' = env /\ options' = options /\ df' = df /\ parsed' = parsed
      /\ \/ answer.error /\ phase' = "error" /\ params' = params
         \/ ~answer.error /\ params' = [params EXCEPT ![p] = answer.value]
            /\ phase' = IF todo' = {} THEN "labels" ELSE phase
  BY <1>1 DEF ParseParameters, Parameter, inputs
<1>3. InputsTyped /\ LineParsed /\ ParamsKnown
  BY <1>1 DEF LabelsInv
<1>4. phase' \in {"parameters", "error", "labels"}
  BY <1>2
<1>5. InputsTyped'
  BY <1>2, <1>3 DEF InputsTyped
<1>6. LineParsed'
  BY <1>2, <1>3, <1>4 DEF LineParsed
<1>7. \A q \in Names : Parameter(q)' = Parameter(q)
  BY <1>2 DEF Parameter
<1>8. answer.value \in Seq(AnyText)
  <2>1. parsed.flags[p] \in Seq(AnyText)
    BY <1>3 DEF LineParsed, ParseState
  <2>2. env[p] \in AnyText /\ (env[p] # "" /\ Parameters[p].kind = "slice" => Fields[env[p]] \in Seq(AnyText))
    BY <1>3 DEF InputsTyped
  <2>3. QED
    BY <2>1, <2>2, ParameterTyped DEF Parameter
<1>9. /\ params \in [Names -> Seq(AnyText)] /\ todo \subseteq Names
      /\ \A q \in Names \ todo : params[q] = Parameter(q).value /\ ~Parameter(q).error
  BY <1>2, <1>3, Zenon DEF ParamsKnown
<1> HIDE DEF answer
<1>10. ParamsKnown'
  <2>1. CASE answer.error /\ phase' = "error" /\ params' = params
    <3>1. Parameter(p)'.error
      BY <1>7, <2>1, Zenon DEF answer
    <3>2. params' \in [Names -> Seq(AnyText)] /\ todo' \subseteq Names /\ phase' = "error"
      BY <1>2, <1>9, <2>1
    <3>3. QED
      BY <3>1, <3>2 DEF ParamsKnown
  <2>2. CASE ~answer.error /\ params' = [params EXCEPT ![p] = answer.value]
             /\ phase' = IF todo' = {} THEN "labels" ELSE phase
    <3>1. params' \in [Names -> Seq(AnyText)] /\ todo' \subseteq Names
      BY <1>2, <1>8, <1>9, <2>2
    <3>2. \A q \in Names \ todo' : q \in Names \ todo \/ q = p
      BY <1>2
    <3>3. \A q \in Names \ todo' : params'[q] = Parameter(q).value
      BY <1>9, <2>2, <3>2 DEF answer
    <3>4. \A q \in Names \ todo' : ~Parameter(q).error
      BY <1>9, <2>2, <3>2, Zenon DEF answer
    <3>5. \A q \in Names \ todo' : params'[q] = Parameter(q)'.value /\ ~Parameter(q)'.error
      <4>1. \A q \in Names \ todo' : q \in Names
        OBVIOUS
      <4>2. QED
        BY <1>7, <3>3, <3>4, <4>1, Zenon
    <3>6. phase' \in {"parameters", "labels"} /\ (phase' = "labels" => todo' = {})
      BY <1>2, <2>2
    <3>7. QED
      BY <3>1, <3>5, <3>6 DEF ParamsKnown
  <2>3. QED
    BY <1>2, <2>1, <2>2
<1>11. QED
  BY <1>4, <1>5, <1>6, <1>10 DEF LabelsInv, LabelPhases, LabelsMerged, LabelsWritten, ImageBuilt

(* A step that leaves the inputs and the parameters alone, and does not go *)
(* back, keeps what is known of them.                                      *)
LEMMA KnownRemains ==
    ASSUME LabelsInv, UNCHANGED <<inputs, parsed, todo, params>>,
           phase \in {"labels", "inject", "build"},
           phase' \in {"inject", "build", "built", "failed"}
    PROVE  InputsTyped' /\ LineParsed' /\ ParamsKnown' /\ phase' \in LabelPhases
<1>1. /\ argv' = argv /\ env' = env /\ options' = options /\ df' = df /\ parsed' = parsed
      /\ todo' = todo /\ params' = params
  BY DEF inputs
<1>2. InputsTyped /\ LineParsed /\ ParamsKnown
  BY DEF LabelsInv
<1>3. InputsTyped'
  BY <1>1, <1>2 DEF InputsTyped
<1>4. LineParsed'
  BY <1>1, <1>2 DEF LineParsed
<1>5. \A q \in Names : Parameter(q)' = Parameter(q)
  BY <1>1 DEF Parameter
<1>6. /\ params \in [Names -> Seq(AnyText)] /\ todo \subseteq Names /\ todo = {}
      /\ \A q \in Names \ todo : params[q] = Parameter(q).value /\ ~Parameter(q).error
  BY <1>2, Zenon DEF ParamsKnown
<1>7. \A q \in Names \ todo' : params'[q] = Parameter(q)'.value /\ ~Parameter(q)'.error
  BY <1>1, <1>5, <1>6, Zenon
<1>8. ParamsKnown'
  BY <1>1, <1>6, <1>7 DEF ParamsKnown
<1>9. QED
  BY <1>3, <1>4, <1>8 DEF LabelPhases

(* The other steps. *)
LEMMA LabelsNextInv == LabelsInv /\ [LabelsNext]_labelVars => LabelsInv'
<1>1. SUFFICES ASSUME LabelsInv, [LabelsNext]_labelVars PROVE LabelsInv'
  OBVIOUS
<1>2. CASE Execute
  BY <1>1, <1>2, ExecuteInv
<1>3. ASSUME NEW p \in Names, ParseParameters(p) PROVE LabelsInv'
  BY <1>1, <1>3, ParseParametersInv
<1>4. CASE ProcessLabelsAndAnnotations
  <2>1. /\ UNCHANGED <<inputs, parsed, todo, params>> /\ phase = "labels"
        /\ \/ phase' = "failed"
           \/ /\ phase' = "inject"
              /\ mergedLabels' = Merge(DefaultLabels, <<>>, FromTexts(params["labels"]))
              /\ mergedAnnotations' = Merge(OciLabels, options.annotationsFile, FromTexts(params["annotations"]))
    BY <1>4 DEF ProcessLabelsAndAnnotations
  <2>2. InputsTyped' /\ LineParsed' /\ ParamsKnown' /\ phase' \in LabelPhases
    BY <1>1, <2>1, KnownRemains
  <2>3. LabelsMerged'
    <3>1. DefaultLabels' = DefaultLabels /\ OciLabels' = OciLabels /\ options' = options /\ params' = params
      BY <2>1 DEF inputs, DefaultLabels, OciLabels, LegacyLabels
    <3>2. QED
      BY <2>1, <3>1 DEF LabelsMerged
  <2>4. QED
    BY <2>1, <2>2, <2>3 DEF LabelsInv, LabelsWritten, ImageBuilt
<1>5. ASSUME UNCHANGED <<inputs, params, merged>>, phase \in {"inject", "build", "built"} PROVE LabelsMerged'
  <2>1. /\ DefaultLabels' = DefaultLabels /\ OciLabels' = OciLabels /\ options' = options /\ params' = params
        /\ mergedLabels' = mergedLabels /\ mergedAnnotations' = mergedAnnotations
    BY <1>5 DEF inputs, merged, DefaultLabels, OciLabels, LegacyLabels
  <2>2. LabelsMerged
    BY <1>1 DEF LabelsInv
  <2>3. QED
    BY <1>5, <2>1, <2>2 DEF LabelsMerged
<1>6. CASE InjectBuildinfo
  <2>1. /\ UNCHANGED <<inputs, parsed, todo, params, merged>> /\ phase = "inject" /\ phase' \in {"build", "failed"}
        /\ phase' = "build" /\ Injects(options) => labelsJson' = DetermineFinalLabels(df, options, mergedLabels)
        /\ df' = df /\ options' = options /\ mergedLabels' = mergedLabels
    BY <1>6 DEF InjectBuildinfo, inputs, merged
  <2>2. InputsTyped' /\ LineParsed' /\ ParamsKnown' /\ phase' \in LabelPhases
    BY <1>1, <2>1, KnownRemains
  <2>3. LabelsMerged'
    BY <1>5, <2>1
  <2>4. LabelsWritten'
    BY <2>1 DEF LabelsWritten
  <2>5. QED
    BY <2>1, <2>2, <2>3, <2>4 DEF LabelsInv, ImageBuilt
<1>7. CASE BuildImage
  <2>1. /\ UNCHANGED <<inputs, parsed, todo, params, merged>> /\ phase = "build" /\ phase' \in {"built", "failed"}
        /\ phase' = "built" =>
              image' = [labels |-> ImageLabels(df, options, mergedLabels), annotations |-> AsMap(mergedAnnotations)]
        /\ df' = df /\ options' = options /\ mergedLabels' = mergedLabels
        /\ mergedAnnotations' = mergedAnnotations /\ labelsJson' = labelsJson
    BY <1>7 DEF BuildImage, inputs, merged
  <2>2. InputsTyped' /\ LineParsed' /\ ParamsKnown' /\ phase' \in LabelPhases
    BY <1>1, <2>1, KnownRemains
  <2>3. LabelsMerged'
    BY <1>5, <2>1
  <2>4. LabelsWritten'
    BY <1>1, <2>1 DEF LabelsInv, LabelsWritten
  <2>5. ImageBuilt'
    BY <2>1 DEF ImageBuilt
  <2>6. QED
    BY <2>2, <2>3, <2>4, <2>5 DEF LabelsInv
<1>8. CASE UNCHANGED labelVars
  <2>1. /\ argv' = argv /\ env' = env /\ options' = options /\ df' = df /\ phase' = phase /\ parsed' = parsed
        /\ todo' = todo /\ params' = params /\ mergedLabels' = mergedLabels /\ mergedAnnotations' = mergedAnnotations
        /\ labelsJson' = labelsJson /\ image' = image
    BY <1>8 DEF labelVars, inputs, merged
  <2>2. InputsTyped' /\ LineParsed'
    BY <1>1, <2>1 DEF LabelsInv, InputsTyped, LineParsed
  <2>3. ParamsKnown'
    BY <1>1, <2>1 DEF LabelsInv, ParamsKnown, Parameter
  <2>4. LabelsMerged' /\ LabelsWritten' /\ ImageBuilt'
    BY <1>1, <2>1 DEF LabelsInv, LabelsMerged, LabelsWritten, ImageBuilt, DefaultLabels, OciLabels, LegacyLabels
  <2>5. QED
    BY <1>1, <2>1, <2>2, <2>3, <2>4 DEF LabelsInv
<1>9. QED
  BY <1>1, <1>2, <1>3, <1>4, <1>6, <1>7, <1>8 DEF LabelsNext, LabelsTerminated

(* LabelsInv holds in every phase. *)
LEMMA LabelsInvariant == LabelsSpec => []LabelsInv
  BY LabelsInitInv, LabelsNextInv, PTL DEF LabelsSpec

(* The labels that the code adds, and those of the user. *)
LEMMA MergedTyped ==
    ASSUME InputsTyped
    PROVE  /\ OciLabels \in Seq(AnyLabel) /\ DefaultLabels \in Seq(AnyLabel)
           /\ \A texts \in Seq(AnyText) : FromTexts(texts) \in Seq(AnyLabel)
<1>1. options.time \in AnyText
  BY DEF InputsTyped
<1>2. \A k, v \in AnyText : Label(k, v) \in AnyLabel
  BY DEF AnyLabel, Label
<1>3. ASSUME NEW s \in Seq(AnyLabel), NEW cond PROVE If(cond, s) \in Seq(AnyLabel)
  BY SomeTexts DEF If
<1>4. /\ Label("created", options.time) \in AnyLabel /\ Label("source", "source") \in AnyLabel
      /\ Label("revision", "revision") \in AnyLabel /\ Label("build-date", options.time) \in AnyLabel
      /\ Label("architecture", "arch") \in AnyLabel /\ Label("vcs-url", "source") \in AnyLabel
      /\ Label("vcs-ref", "revision") \in AnyLabel /\ Label("vcs-type", "git") \in AnyLabel
      /\ Label("quay.expires-after", "expires") \in AnyLabel
  <2>1. /\ "created" \in AnyText /\ "source" \in AnyText /\ "revision" \in AnyText /\ "build-date" \in AnyText
        /\ "architecture" \in AnyText /\ "arch" \in AnyText /\ "vcs-url" \in AnyText /\ "vcs-ref" \in AnyText
        /\ "vcs-type" \in AnyText /\ "git" \in AnyText /\ "quay.expires-after" \in AnyText /\ "expires" \in AnyText
    BY DEF AnyText
  <2>2. QED
    BY <1>1, <1>2, <2>1, Zenon
<1>5. \A s, t \in Seq(AnyLabel) : s \o t \in Seq(AnyLabel)
  <2> HIDE DEF AnyLabel
  <2>1. QED
    OBVIOUS
<1>6. /\ \A a \in AnyLabel : <<a>> \in Seq(AnyLabel)
      /\ \A a, b \in AnyLabel : <<a, b>> \in Seq(AnyLabel)
  <2> HIDE DEF AnyLabel
  <2>1. QED
    OBVIOUS
<1>7. OciLabels \in Seq(AnyLabel)
  <2>1. /\ <<Label("created", options.time)>> \in Seq(AnyLabel)
        /\ If(options.source, <<Label("source", "source")>>) \in Seq(AnyLabel)
        /\ If(options.revision, <<Label("revision", "revision")>>) \in Seq(AnyLabel)
    BY <1>3, <1>4, <1>6
  <2>2. QED
    BY <1>5, <2>1 DEF OciLabels
<1>8. LegacyLabels \in Seq(AnyLabel)
  <2>1. /\ <<Label("build-date", options.time), Label("architecture", "arch")>> \in Seq(AnyLabel)
        /\ If(options.source, <<Label("vcs-url", "source")>>) \in Seq(AnyLabel)
        /\ If(options.revision, <<Label("vcs-ref", "revision")>>) \in Seq(AnyLabel)
        /\ If(options.source \/ options.revision, <<Label("vcs-type", "git")>>) \in Seq(AnyLabel)
    BY <1>3, <1>4, <1>6
  <2>2. QED
    BY <1>5, <2>1 DEF LegacyLabels
<1>9. DefaultLabels \in Seq(AnyLabel)
  <2>1. /\ If(options.expires, <<Label("quay.expires-after", "expires")>>) \in Seq(AnyLabel)
        /\ If(options.legacyLabels, LegacyLabels) \in Seq(AnyLabel)
    BY <1>3, <1>4, <1>6, <1>8
  <2>2. QED
    BY <1>5, <1>7, <2>1 DEF DefaultLabels
<1>10. ASSUME NEW texts \in Seq(AnyText) PROVE FromTexts(texts) \in Seq(AnyLabel)
  <2>1. Len(texts) \in Nat /\ DOMAIN texts = 1..Len(texts) /\ \A i \in DOMAIN texts : texts[i] \in AnyText
    <3> HIDE DEF AnyText
    <3>1. QED
      OBVIOUS
  <2>2. \A i \in 1..Len(texts) : LabelOf[texts[i]] \in AnyLabel
    BY <2>1 DEF AnyLabel
  <2> HIDE DEF AnyLabel, AnyText
  <2>3. [i \in 1..Len(texts) |-> LabelOf[texts[i]]] \in Seq(AnyLabel)
    BY <2>1, <2>2
  <2>4. QED
    BY <2>1, <2>3 DEF FromTexts
<1>11. QED
  BY <1>7, <1>9, <1>10

(* The labels of a map filled last are those of the map. *)
LEMMA LastWins ==
    ASSUME NEW s \in Seq(AnyLabel), NEW t \in Seq(AnyLabel), NEW k \in DOMAIN AsMap(t)
    PROVE  k \in DOMAIN AsMap(s \o t) /\ AsMap(s \o t)[k] = AsMap(t)[k]
<1> HIDE DEF AnyLabel
<1>1. AsMap(s \o t) = Over(AsMap(t), AsMap(s))
  BY MapOfConcat
<1>2. QED
  BY <1>1 DEF Over

(* However array parameters, other flags, arguments and "--" follow each   *)
(* other on a command line, and in whatever order ParseParameters visits   *)
(* the parameters: every parameter has the values that the command line,   *)
(* the environment or the default gives it.                                *)
THEOREM ParametersAsMeant == LabelsSpec => []ParamsAsMeant
<1>1. LabelsInv => ParamsAsMeant
  <2>1. SUFFICES ASSUME LabelsInv, WellFormed(argv)
        PROVE  /\ phase = "usage" => \E p \in Names, k \in 1..Len(argv) :
                     /\ k \in DOMAIN Given(argv, p) /\ Parameters[p].kind \in DOMAIN Parses
                     /\ Given(argv, p)[k] \notin Parses[Parameters[p].kind]
               /\ phase \notin {"expand", "usage"} => parsed.args = Tail(Arguments(argv))
               /\ phase = "error" => \E p \in Names : Meant(p).error
               /\ phase \in {"labels", "inject", "build", "built", "failed"} =>
                     \A p \in Names : params[p] = Meant(p).value /\ ~Meant(p).error
    BY Zenon DEF ParamsAsMeant
  <2>2. LineParsed /\ ParamsKnown
    BY <2>1 DEF LabelsInv
  <2>3. phase = "usage" => \E p \in Names, k \in 1..Len(argv) :
           /\ k \in DOMAIN Given(argv, p) /\ Parameters[p].kind \in DOMAIN Parses
           /\ Given(argv, p)[k] \notin Parses[Parameters[p].kind]
    BY <2>1, <2>2, Zenon DEF LineParsed, BadText
  <2>4. phase \notin {"expand", "usage"} =>
           parsed.args = Tail(Arguments(argv)) /\ \A p \in Names : Parameter(p) = Meant(p)
    <3>1. phase \notin {"expand", "usage"} =>
             parsed.args = Tail(Arguments(argv)) /\ \A p \in Names : parsed.flags[p] = Given(argv, p)
      BY <2>1, <2>2, Zenon DEF LineParsed
    <3>2. \A p \in Names : parsed.flags[p] = Given(argv, p) => Parameter(p) = Meant(p)
      BY ParameterMeant DEF Parameter
    <3>3. QED
      BY <3>1, <3>2, Zenon
  <2>5. phase = "error" => \E p \in Names : Meant(p).error
    <3>1. phase = "error" => \E p \in Names : Parameter(p).error
      BY <2>2, Zenon DEF ParamsKnown
    <3>2. phase = "error" => phase \notin {"expand", "usage"}
      OBVIOUS
    <3>3. QED
      BY <2>4, <3>1, <3>2, Zenon
  <2>6. phase \in {"labels", "inject", "build", "built", "failed"} =>
           \A p \in Names : params[p] = Meant(p).value /\ ~Meant(p).error
    <3>1. ASSUME phase \in {"labels", "inject", "build", "built", "failed"}, NEW p \in Names
          PROVE  params[p] = Meant(p).value /\ ~Meant(p).error
      <4>1. phase \notin {"expand", "usage"} /\ p \in Names \ todo
        BY <2>2, <3>1 DEF ParamsKnown
      <4>2. params[p] = Parameter(p).value /\ ~Parameter(p).error
        BY <2>2, <3>1, <4>1, Zenon DEF ParamsKnown
      <4>3. Parameter(p) = Meant(p)
        BY <2>4, <4>1, Zenon
      <4>4. QED
        BY <4>2, <4>3, Zenon
    <3>2. QED
      BY <3>1
  <2>7. QED
    BY <2>3, <2>4, <2>5, <2>6, Zenon
<1>2. QED
  BY <1>1, LabelsInvariant, PTL

(* labels.json of determineFinalLabels foretells the labels that buildah   *)
(* gives the image, whatever the stages and the options, except the        *)
(* inherited labels of a base image that cannot be inspected and those     *)
(* that --stage-labels adds.                                               *)
THEOREM LabelsOfImageForetold == LabelsSpec => []LabelsDescribeImage
<1>1. LabelsInv => LabelsDescribeImage
  <2> DEFINE base == BaseStage(df)
             hidden == StageLabelKeys(options)
             given == Over(AsMap(VersionLabel(options)),
                           Over(AsMap(mergedLabels), StageLabelsOf(df, Len(df), options.inherit)))
             excepted == options.inherit /\ base.from = "image" /\ ~Pullable(base)
  <2>1. SUFFICES ASSUME LabelsInv, phase = "built", Injects(options)
        PROVE  /\ DOMAIN labelsJson \ hidden \subseteq DOMAIN image.labels \ hidden
               /\ \A k \in DOMAIN labelsJson \ hidden : labelsJson[k] = image.labels[k]
               /\ DOMAIN labelsJson \ hidden = DOMAIN image.labels \ hidden \/ excepted
    BY Zenon DEF LabelsDescribeImage
  <2>2. InputsTyped /\ IsContainerfile(df) /\ ParamsKnown
    BY <2>1 DEF LabelsInv, InputsTyped
  <2>3. /\ mergedLabels = Merge(DefaultLabels, <<>>, FromTexts(params["labels"]))
        /\ labelsJson = DetermineFinalLabels(df, options, mergedLabels)
        /\ image.labels = ImageLabels(df, options, mergedLabels)
    BY <2>1 DEF LabelsInv, LabelsMerged, LabelsWritten, ImageBuilt
  <2>4. mergedLabels \in Seq(AnyLabel)
    <3>1. params["labels"] \in Seq(AnyText)
      BY <2>2, BuildLabelsAssumption DEF ParamsKnown
    <3>2. DefaultLabels \in Seq(AnyLabel) /\ FromTexts(params["labels"]) \in Seq(AnyLabel)
      BY <2>2, <3>1, MergedTyped
    <3> HIDE DEF AnyLabel
    <3>3. QED
      BY <2>3, <3>2 DEF Merge
  <2>5. \/ labelsJson = given
        \/ excepted /\ Within(labelsJson, given)
    BY <2>2, <2>3, <2>4, LabelsForetold
  <2>6. /\ DOMAIN image.labels \ hidden = DOMAIN given \ hidden
        /\ \A k \in DOMAIN given \ hidden : image.labels[k] = given[k]
    <3>1. TargetStage(df, options) = Len(df)
      BY <2>1 DEF Injects, TargetStage
    <3>2. image.labels = IF options.scanBuilders THEN Over(StageInfo(df[Len(df)]), given) ELSE given
      BY <2>3, <3>1 DEF ImageLabels
    <3>3. options.scanBuilders => hidden = DOMAIN StageInfo(df[Len(df)])
      BY DEF StageLabelKeys, StageInfo
    <3> HIDE DEF given, hidden
    <3>4. QED
      BY <3>2, <3>3, OverElsewhere
  <2> HIDE DEF given, hidden, excepted
  <2>7. QED
    BY <2>5, <2>6 DEF Within
<1>2. QED
  BY <1>1, LabelsInvariant, PTL

(* The image has the last value the user gave to a key: options before the *)
(* annotations file, that before the defaults, all before the containerfile *)
(* and the base image, as processLabelsAndAnnotations merges them.         *)
THEOREM UserLabelsWin == LabelsSpec => []UserValuesWin
<1>1. LabelsInv /\ ParamsAsMeant => UserValuesWin
  <2> DEFINE userLabels == FromTexts(Meant("labels").value)
             texts == FromTexts(Meant("annotations").value)
             file == options.annotationsFile
  <2>1. SUFFICES ASSUME LabelsInv, ParamsAsMeant, phase = "built", WellFormed(argv)
        PROVE  /\ \A k \in DOMAIN AsMap(userLabels) :
                     k \notin {"io.buildah.version"} \union StageLabelKeys(options) =>
                         image.labels[k] = AsMap(userLabels)[k]
               /\ \A k \in DOMAIN AsMap(file \o texts) :
                     image.annotations[k] = AsMap(file \o texts)[k]
    BY Zenon DEF UserValuesWin
  <2>2. InputsTyped /\ ParamsKnown /\ file \in Seq(AnyLabel)
    BY <2>1 DEF LabelsInv, InputsTyped
  <2>3. {"labels", "annotations"} \subseteq Names
    BY BuildLabelsAssumption
  <2>4. params["labels"] = Meant("labels").value /\ params["annotations"] = Meant("annotations").value
    BY <2>1, <2>3 DEF ParamsAsMeant
  <2>5. /\ mergedLabels = Merge(DefaultLabels, <<>>, userLabels)
        /\ mergedAnnotations = Merge(OciLabels, file, texts)
        /\ image.labels = ImageLabels(df, options, mergedLabels)
        /\ image.annotations = AsMap(mergedAnnotations)
    BY <2>1, <2>4 DEF LabelsInv, LabelsMerged, ImageBuilt
  <2>6. /\ userLabels \in Seq(AnyLabel) /\ texts \in Seq(AnyLabel)
        /\ DefaultLabels \in Seq(AnyLabel) /\ OciLabels \in Seq(AnyLabel)
    <3>1. params["labels"] \in Seq(AnyText) /\ params["annotations"] \in Seq(AnyText)
      BY <2>2, <2>3 DEF ParamsKnown
    <3>2. QED
      BY <2>2, <2>4, <3>1, MergedTyped
  <2> HIDE DEF userLabels, texts, file
  <2>7. mergedLabels = DefaultLabels \o userLabels
    <3> HIDE DEF AnyLabel
    <3>1. DefaultLabels \o <<>> = DefaultLabels
      BY <2>6, ConcatEmptySeq
    <3>2. QED
      BY <2>5, <3>1 DEF Merge
  <2>8. mergedAnnotations = OciLabels \o (file \o texts) /\ file \o texts \in Seq(AnyLabel)
    <3> HIDE DEF AnyLabel
    <3>1. (OciLabels \o file) \o texts = OciLabels \o (file \o texts)
      BY <2>2, <2>6, ConcatAssociative, SMTT(40)
    <3>2. file \o texts \in Seq(AnyLabel)
      BY <2>2, <2>6
    <3>3. QED
      BY <2>5, <3>1, <3>2 DEF Merge
  <2>9. ASSUME NEW k \in DOMAIN AsMap(userLabels), k \notin {"io.buildah.version"} \union StageLabelKeys(options)
        PROVE  image.labels[k] = AsMap(userLabels)[k]
    <3>1. k \in DOMAIN AsMap(mergedLabels) /\ AsMap(mergedLabels)[k] = AsMap(userLabels)[k]
      BY <2>6, <2>7, LastWins
    <3>2. k \notin DOMAIN AsMap(VersionLabel(options))
      <4>1. DOMAIN AsMap(VersionLabel(options)) = Keys(VersionLabel(options))
        BY DEF AsMap
      <4>2. VersionLabel(options) \in {<<>>, <<Label("io.buildah.version", "version")>>}
        BY DEF VersionLabel, If
      <4>3. Keys(<<>>) = {} /\ Keys(<<Label("io.buildah.version", "version")>>) = {"io.buildah.version"}
        BY DEF Keys, Label
      <4>4. QED
        BY <2>9, <4>1, <4>2, <4>3
    <3> DEFINE target == TargetStage(df, options)
               given == Over(AsMap(VersionLabel(options)),
                             Over(AsMap(mergedLabels), StageLabelsOf(df, target, options.inherit)))
    <3>3. k \in DOMAIN given /\ given[k] = AsMap(mergedLabels)[k]
      BY <3>1, <3>2 DEF Over
    <3>4. options.scanBuilders => k \notin DOMAIN StageInfo(df[target])
      BY <2>9 DEF StageInfo, StageLabelKeys
    <3>5. ImageLabels(df, options, mergedLabels) =
             IF options.scanBuilders THEN Over(StageInfo(df[target]), given) ELSE given
      BY DEF ImageLabels
    <3> HIDE DEF given, target
    <3>6. ImageLabels(df, options, mergedLabels)[k] = given[k]
      BY <3>3, <3>4, <3>5, OverElsewhere
    <3>7. QED
      BY <2>5, <3>1, <3>3, <3>6
  <2>10. ASSUME NEW k \in DOMAIN AsMap(file \o texts)
         PROVE  image.annotations[k] = AsMap(file \o texts)[k]
    <3>1. AsMap(OciLabels \o (file \o texts))[k] = AsMap(file \o texts)[k]
      BY <2>6, <2>8, LastWins
    <3>2. QED
      BY <2>5, <2>8, <3>1
  <2>11. QED
    BY <2>9, <2>10
<1>2. QED
  BY <1>1, LabelsInvariant, ParametersAsMeant, PTL

--------------------------------------------------------------------------------
(* The retry loop.                                                         *)

USE RetryerAssumption

(* The next delay is a natural number, is not smaller than the current one *)
(* unless the cap cuts it, and respects a positive cap.                    *)
LEMMA NextDelayBounds ==
    ASSUME NEW o \in Retryers, NEW d \in Nat
    PROVE  /\ NextDelay(o, d) \in Nat
           /\ o.maxDelay > 0 => NextDelay(o, d) <= o.maxDelay
           /\ o.maxDelay = 0 => NextDelay(o, d) = d * o.delayFactor
<1>1. /\ o.delayFactor \in Nat \ {0} /\ o.maxDelay \in Nat
  BY DEF Retryers
<1>2. d * o.delayFactor \in Nat
  BY <1>1
<1>3. QED
  BY <1>1, <1>2 DEF NextDelay

--------------------------------------------------------------------------------
(* Every variable of the retry loop keeps its type. *)
THEOREM TypeCorrect == Spec => []TypeOK
<1>1. ASSUME Init
      PROVE  TypeOK
  <2>1. opts \in Retryers /\ opts.baseDelay \in Nat
    BY <1>1 DEF Init, Retryers, RetryerAssumption
  <2>2. waits \in Seq(Nat)
    BY <1>1 DEF Init
  <2>3. effect \in BOOLEAN /\ reply \in Replies \union {NoReply}
    BY <1>1, Zenon DEF Init
  <2>4. opts \in Options /\ pc \in {"call"} /\ attempt \in Nat \ {0} /\ calls \in Nat
    BY <1>1 DEF Init
  <2>5. delay \in Nat
    BY <1>1, <2>1 DEF Init
  <2>6. QED
    BY <2>2, <2>3, <2>4, <2>5, Zenon DEF TypeOK
<1>2. ASSUME TypeOK, [Next \/ Terminated]_vars
      PROVE  TypeOK'
  <2> USE <1>2 DEF TypeOK
  <2>1. CASE Call
    BY <2>1 DEF Call, ReplySet
  <2>2. CASE Return
    BY <2>2 DEF Return
  <2>3. CASE Fail
    BY <2>3 DEF Fail
  <2>4. CASE Sleep
    <3>1. opts \in Retryers
      OBVIOUS
    <3>2. delay' \in Nat
      BY <2>4, <3>1, NextDelayBounds DEF Sleep
    <3>3. waits' \in Seq(Nat)
      BY <2>4 DEF Sleep
    <3>4. QED
      BY <2>4, <3>2, <3>3 DEF Sleep
  <2>5. CASE Terminated \/ UNCHANGED vars
    BY <2>5 DEF Terminated, vars
  <2>6. QED
    BY <1>2, <2>1, <2>2, <2>3, <2>4, <2>5 DEF Next
<1>3. QED
  BY <1>1, <1>2, PTL DEF Spec

--------------------------------------------------------------------------------
(* The loop variable counts executions and sleeps; the reply at hand, when *)
(* it reports success, comes from an execution that took effect.           *)
LoopCounts == /\ attempt <= opts.maxAttempts
              /\ Len(waits) = attempt - 1
              /\ calls = IF pc = "call" THEN attempt - 1 ELSE attempt
              /\ pc = "sleep" => attempt < opts.maxAttempts

EffectKnown == pc # "call" => reply \in Replies /\ (~reply.err => effect)

Retrying == pc \in {"call", "sleep"} /\ calls > 0 =>
                reply.err /\ ~StopConditionMet(opts, reply)

RetryInv == LoopCounts /\ EffectKnown /\ Retrying

LEMMA RetryInvInductive == Spec => []RetryInv
<1>1. Init => RetryInv
  BY DEF Init, RetryInv, LoopCounts, EffectKnown, Retrying, Retryers
<1>2. ASSUME TypeOK, RetryInv, [Next \/ Terminated]_vars
      PROVE  RetryInv'
  <2> USE <1>2 DEF TypeOK, RetryInv, LoopCounts, EffectKnown, Retrying
  <2>0. opts \in Retryers /\ opts.maxAttempts \in Nat \ {0} /\ Len(waits) \in Nat
    BY DEF Retryers
  <2>1. CASE Call
    BY <2>0, <2>1 DEF Call, ReplySet
  <2>2. CASE Return
    BY <2>0, <2>2 DEF Return
  <2>3. CASE Fail
    BY <2>0, <2>3 DEF Fail, MustReturn
  <2>4. CASE Sleep
    <3>1. Len(waits') = Len(waits) + 1
      BY <2>4 DEF Sleep
    <3>2. QED
      BY <2>0, <2>4, <3>1 DEF Sleep
  <2>5. CASE Terminated \/ UNCHANGED vars
    BY <2>5 DEF Terminated, vars
  <2>6. QED
    BY <1>2, <2>1, <2>2, <2>3, <2>4, <2>5 DEF Next
<1>3. QED
  BY <1>1, <1>2, TypeCorrect, PTL DEF Spec

(* Run never executes the command more than MaxAttempts times and never    *)
(* sleeps after the last execution.                                        *)
THEOREM WorkIsBounded == Spec => []BoundedWork
<1>1. TypeOK /\ RetryInv => BoundedWork
  BY DEF TypeOK, RetryInv, LoopCounts, BoundedWork, Retryers
<1>2. QED
  BY <1>1, TypeCorrect, RetryInvInductive, PTL

(* A reply that succeeded or met a stop condition is the one Run returns,  *)
(* and the command is not executed again.                                  *)
THEOREM FinalReplyReturned == Spec => FinalReplyIsReturned
<1>1. ASSUME TypeOK, RetryInv, [Next \/ Terminated]_vars
      PROVE  [FinalReply => calls' = calls /\ reply' = reply]_vars
  BY <1>1 DEF TypeOK, RetryInv, LoopCounts, Retrying, FinalReply, MustReturn,
              StopConditionMet, Next, Call, Return, Fail, Sleep, Terminated, vars
<1>2. QED
  BY <1>1, TypeCorrect, RetryInvInductive, PTL DEF Spec, FinalReplyIsReturned

--------------------------------------------------------------------------------
(* With a positive MaxDelay that is not below BaseDelay, no sleep of Run   *)
(* is longer than MaxDelay.                                                *)
SleepsCapped == 0 < opts.maxDelay /\ opts.baseDelay <= opts.maxDelay =>
                    /\ delay <= opts.maxDelay
                    /\ \A i \in DOMAIN waits : waits[i] <= opts.maxDelay

(* The loop cuts every delay before it sleeps: SleepsCapped always holds. *)
THEOREM SleepsAreCapped == Spec => []SleepsCapped
<1>1. Init => SleepsCapped
  BY DEF Init, SleepsCapped
<1>2. ASSUME TypeOK, SleepsCapped, [Next \/ Terminated]_vars
      PROVE  SleepsCapped'
  <2> USE <1>2 DEF TypeOK, SleepsCapped
  <2>1. CASE Sleep
    <3>1. opts \in Retryers /\ opts.maxDelay \in Nat
      BY DEF Retryers
    <3>2. 0 < opts.maxDelay => delay' <= opts.maxDelay
      BY <2>1, <3>1, NextDelayBounds DEF Sleep
    <3>3. \A i \in DOMAIN waits' : (i \in DOMAIN waits /\ waits'[i] = waits[i])
                                   \/ waits'[i] = delay
      BY <2>1 DEF Sleep
    <3>4. QED
      BY <2>1, <3>2, <3>3 DEF Sleep
  <2>2. CASE ~Sleep
    BY <2>2 DEF Next, Call, Return, Fail, Terminated, vars
  <2>3. QED
    BY <2>1, <2>2
<1>3. QED
  BY <1>1, <1>2, TypeCorrect, PTL DEF Spec

--------------------------------------------------------------------------------
(* The schedule of the sleeps.  What the recursive Raised computes is shown*)
(* by descent: a set of attempts at which it could go wrong has a first.   *)

Growing(o, f, n) == f = [i \in 1 .. n |-> IF i = 1 THEN o.baseDelay ELSE f[i - 1] * o.delayFactor]

(* There is a schedule for any number of attempts.                         *)
LEMMA GrowingExists ==
    ASSUME NEW o \in Retryers, NEW len \in Nat
    PROVE  \E f : Growing(o, f, len)
<1> DEFINE T == {n \in Nat : ~\E f : Growing(o, f, n)}
<1>1. SUFFICES ASSUME T # {} PROVE FALSE
  OBVIOUS
<1>2. T \subseteq Nat
  OBVIOUS
<1>3. PICK n \in T : \A m \in T : n <= m
  BY <1>1, <1>2, LeastElement
<1>4. n \in Nat /\ ~\E f : Growing(o, f, n)
  BY <1>3
<1>5. CASE n = 0
  <2> DEFINE g == [i \in 1 .. 0 |-> 0]
  <2>1. Growing(o, g, 0)
    <3>1. \A i \in 1 .. 0 : FALSE
      OBVIOUS
    <3> QED
      BY <3>1 DEF Growing
  <2> QED
    BY <1>4, <1>5, <2>1
<1>6. CASE n # 0
  <2>1. n - 1 \in Nat /\ n - 1 \notin T
    BY <1>3, <1>4, <1>6
  <2>2. PICK f : Growing(o, f, n - 1)
    BY <2>1
  <2> DEFINE Step(h, i) == IF i = 1 THEN o.baseDelay ELSE h[i - 1] * o.delayFactor
             g == [i \in 1 .. n |-> Step(f, i)]
  <2>3. ASSUME NEW i \in 1 .. n PROVE Step(g, i) = Step(f, i)
    <3>1. CASE i = 1
      BY <3>1
    <3>2. CASE i # 1
      <4>1. i - 1 \in 1 .. (n - 1) /\ i - 1 \in 1 .. n
        BY <1>4, <3>2
      <4>2. f[i - 1] = Step(f, i - 1)
        BY <2>2, <4>1 DEF Growing
      <4>3. g[i - 1] = f[i - 1]
        BY <4>1, <4>2
      <4> HIDE DEF g
      <4> QED
        BY <4>3, <3>2
    <3> QED
      BY <3>1, <3>2
  <2>4. g = [i \in 1 .. n |-> Step(g, i)]
    BY <2>3
  <2> HIDE DEF g
  <2>5. Growing(o, g, n)
    BY <2>4 DEF Growing
  <2> QED
    BY <1>4, <2>5
<1> QED
  BY <1>5, <1>6

(* So Raised starts at BaseDelay and grows by the factor at each attempt.  *)
LEMMA RaisedGrows ==
    ASSUME NEW o \in Retryers
    PROVE  /\ Raised(o)[1] = o.baseDelay
           /\ \A i \in 2 .. o.maxAttempts : Raised(o)[i] = Raised(o)[i - 1] * o.delayFactor
           /\ \A i \in 1 .. o.maxAttempts : Raised(o)[i] \in Nat
<1> DEFINE f == CHOOSE h : Growing(o, h, o.maxAttempts)
<1>1. /\ o.maxAttempts \in Nat \ {0} /\ o.baseDelay \in Nat /\ o.delayFactor \in Nat
  BY DEF Retryers
<1>2. Growing(o, f, o.maxAttempts)
  BY <1>1, GrowingExists
<1>3. Raised(o) = f
  BY DEF Raised, Growing
<1> HIDE DEF f
<1>4. \A i \in 1 .. o.maxAttempts : f[i] = IF i = 1 THEN o.baseDelay ELSE f[i - 1] * o.delayFactor
  BY <1>2 DEF Growing
<1>5. f[1] = o.baseDelay
  BY <1>1, <1>4
<1>6. ASSUME NEW i \in 2 .. o.maxAttempts PROVE f[i] = f[i - 1] * o.delayFactor
  <2>1. i \in 1 .. o.maxAttempts /\ i # 1
    BY <1>1
  <2> QED
    BY <1>4, <2>1
<1> DEFINE T == {i \in 1 .. o.maxAttempts : f[i] \notin Nat}
<1>7. T = {}
  <2> SUFFICES ASSUME T # {} PROVE FALSE
    OBVIOUS
  <2>1. T \subseteq Nat
    BY <1>1
  <2>2. PICK i \in T : \A j \in T : i <= j
    BY <2>1, LeastElement
  <2>3. i \in 1 .. o.maxAttempts /\ f[i] \notin Nat
    BY <2>2
  <2>4. i # 1
    BY <1>1, <1>5, <2>3
  <2>5. i \in 2 .. o.maxAttempts /\ i - 1 \in 1 .. o.maxAttempts /\ ~(i <= i - 1)
    BY <1>1, <2>3, <2>4
  <2>6. f[i - 1] \in Nat
    BY <2>2, <2>5
  <2>7. f[i - 1] * o.delayFactor \in Nat
    BY <1>1, <2>6
  <2> QED
    BY <1>6, <2>3, <2>5, <2>7
<1>8. \A i \in 1 .. o.maxAttempts : f[i] \in Nat
  BY <1>7
<1> QED
  BY <1>3, <1>5, <1>6, <1>8

(* A product with a positive factor is not smaller.                        *)
LEMMA FactorRaises ==
    ASSUME NEW x \in Nat, NEW f \in Nat \ {0}
    PROVE  x <= x * f /\ x * f \in Nat
<1>1. PICK g \in Nat : f = g + 1
  OBVIOUS
<1>2. x * g \in Nat
  OBVIOUS
<1>3. x * (g + 1) = x * g + x
  OBVIOUS
<1> QED
  BY <1>1, <1>2, <1>3

(* Cutting before the multiplication, as the loop does, changes nothing.   *)
LEMMA CapCommutes ==
    ASSUME NEW o \in Retryers, NEW x \in Nat
    PROVE  NextDelay(o, Capped(o, x)) = Capped(o, x * o.delayFactor)
<1>1. o.maxDelay \in Nat /\ o.delayFactor \in Nat \ {0}
  BY DEF Retryers
<1> DEFINE cap == o.maxDelay
           f == o.delayFactor
<1>2. cap <= cap * f /\ x <= x * f /\ cap * f \in Nat /\ x * f \in Nat
  BY <1>1, FactorRaises
<1>3. CASE cap > 0 /\ x > cap
  <2>1. Capped(o, x) = cap
    BY <1>3 DEF Capped
  <2>2. NextDelay(o, cap) = cap
    BY <1>1, <1>2, <1>3 DEF NextDelay
  <2>3. Capped(o, x * f) = cap
    BY <1>1, <1>2, <1>3 DEF Capped
  <2> QED
    BY <2>1, <2>2, <2>3
<1>4. CASE ~(cap > 0 /\ x > cap)
  BY <1>4 DEF Capped, NextDelay
<1> QED
  BY <1>3, <1>4

(* The delay that is slept next.                                           *)
NextWait == delay = IF attempt = 1 THEN opts.baseDelay ELSE Capped(opts, Raised(opts)[attempt])

(* The sleeps of Run are those of the documented schedule, for every       *)
(* Retryer: capping at each step, as the loop does, is exponential growth  *)
(* that is capped once.                                                    *)
THEOREM SleepsFollowSchedule == Spec => []BackoffSchedule
<1>1. Init => NextWait /\ BackoffSchedule
  BY DEF Init, NextWait, BackoffSchedule
<1>2. ASSUME TypeOK, RetryInv, NextWait, BackoffSchedule, [Next \/ Terminated]_vars
      PROVE  NextWait' /\ BackoffSchedule'
  <2>1. opts \in Retryers /\ attempt \in Nat \ {0} /\ delay \in Nat /\ waits \in Seq(Nat)
    BY <1>2 DEF TypeOK
  <2>2. CASE Sleep
    <3>1. /\ opts' = opts /\ delay' = NextDelay(opts, delay) /\ attempt' = attempt + 1
          /\ waits' = Append(waits, delay)
      BY <2>2 DEF Sleep
    <3>2. attempt < opts.maxAttempts /\ Len(waits) = attempt - 1 /\ opts.maxAttempts \in Nat
      BY <1>2, <2>1, <2>2 DEF Sleep, RetryInv, LoopCounts, Retryers
    <3>3. attempt \in 1 .. opts.maxAttempts /\ attempt + 1 \in 2 .. opts.maxAttempts
      BY <2>1, <3>2
    <3> DEFINE x == Raised(opts)[attempt]
    <3>4. x \in Nat /\ Raised(opts)[attempt + 1] = x * opts.delayFactor
      BY <2>1, <3>3, RaisedGrows
    <3>5. NextDelay(opts, delay) = Capped(opts, x * opts.delayFactor)
      <4>1. CASE attempt = 1
        <5>1. x = opts.baseDelay /\ delay = x
          BY <1>2, <2>1, <4>1, RaisedGrows DEF NextWait
        <5> QED
          BY <5>1 DEF NextDelay, Capped
      <4>2. CASE attempt # 1
        <5>1. delay = Capped(opts, x)
          BY <1>2, <4>2 DEF NextWait
        <5> QED
          BY <2>1, <3>4, <5>1, CapCommutes
      <4> QED
        BY <4>1, <4>2
    <3>6. NextWait'
      <4>1. attempt' # 1
        BY <2>1, <3>1
      <4> QED
        BY <3>1, <3>4, <3>5, <4>1 DEF NextWait
    <3>7. BackoffSchedule'
      <4>1. ASSUME NEW i \in DOMAIN waits'
            PROVE  \/ i \in DOMAIN waits /\ waits'[i] = waits[i]
                   \/ i = attempt /\ waits'[i] = delay
        BY <2>1, <3>1, <3>2
      <4> QED
        BY <1>2, <3>1, <4>1 DEF BackoffSchedule, NextWait
    <3> QED
      BY <3>6, <3>7
  <2>3. CASE ~Sleep
    BY <1>2, <2>3 DEF Next, Call, Return, Fail, Terminated, vars, NextWait, BackoffSchedule
  <2> QED
    BY <2>2, <2>3
<1> QED
  BY <1>1, <1>2, TypeCorrect, RetryInvInductive, PTL DEF Spec

--------------------------------------------------------------------------------
(* The retry loop implements RetriedCall: its callers may reason about one *)
(* call that answers "ok" only when the command took effect.               *)
THEOREM ImplementsRetriedCall == Spec => KeepsRetriedCallPromise
<1>1. Init => RC!Init
  BY DEF Init, RC!Init
<1>2. ASSUME TypeOK, RetryInv, [Next \/ Terminated]_vars
      PROVE  [RC!Next]_(RC!cvars)
  <2> USE <1>2 DEF TypeOK, RC!Next, RC!cvars
  <2>1. CASE Call
    BY <2>1 DEF Call, RC!Execute, ReplySet
  <2>2. CASE Return
    BY <2>2 DEF Return, RC!ReturnOk, RC!ReturnError, RetryInv, EffectKnown, ReplySet
  <2>3. CASE Fail \/ Sleep
    BY <2>3 DEF Fail, Sleep
  <2>4. CASE Terminated \/ UNCHANGED vars
    BY <2>4 DEF Terminated, vars
  <2>5. QED
    BY <1>2, <2>1, <2>2, <2>3, <2>4 DEF Next
<1>3. QED
  BY <1>1, <1>2, TypeCorrect, RetryInvInductive, PTL
     DEF Spec, KeepsRetriedCallPromise, RC!Spec

--------------------------------------------------------------------------------
(* Executor. *)

USE ExecutorAssumption

(* Taking the head of the pipe to the end of the buffer keeps their        *)
(* concatenation: a read loses nothing and repeats nothing.                *)
LEMMA MoveHead ==
    \A b, p \in Seq(Chunks) : p # <<>> => Append(b, Head(p)) \o Tail(p) = b \o p
<1> SUFFICES ASSUME NEW b \in Seq(Chunks), NEW p \in Seq(Chunks), p # <<>>
             PROVE  Append(b, Head(p)) \o Tail(p) = b \o p
  OBVIOUS
<1>1. /\ Append(b, Head(p)) \in Seq(Chunks) /\ Tail(p) \in Seq(Chunks)
      /\ Len(Append(b, Head(p))) = Len(b) + 1 /\ Len(Tail(p)) = Len(p) - 1
      /\ Len(p) \in Nat \ {0} /\ Len(b) \in Nat
  OBVIOUS
<1> DEFINE l == Append(b, Head(p)) \o Tail(p)
           r == b \o p
<1>2. l \in Seq(Chunks) /\ r \in Seq(Chunks) /\ Len(l) = Len(r)
  BY <1>1
<1>3. ASSUME NEW i \in 1..Len(r)
      PROVE  l[i] = r[i]
  <2>1. CASE i <= Len(b)
    BY <1>1, <2>1
  <2>2. CASE i = Len(b) + 1
    BY <1>1, <2>2
  <2>3. CASE i > Len(b) + 1
    BY <1>1, <2>3
  <2>4. QED
    BY <1>1, <2>1, <2>2, <2>3
<1>4. QED
  BY <1>2, <1>3, SeqEqual

(* Appending to the pipe appends to the concatenation. *)
LEMMA ConcatAppend ==
    ASSUME NEW S, NEW b \in Seq(S), NEW p \in Seq(S), NEW e \in S
    PROVE  b \o Append(p, e) = Append(b \o p, e)
  BY AppendIsConcat, ConcatAssociative

--------------------------------------------------------------------------------
(* The caller, the child, the pipes and the drains keep their types. *)
THEOREM ExecTypeCorrect == ExecSpec => []ExecTypeOK
<1>1. ASSUME ExecInit
      PROVE  ExecTypeOK
  <2>1. <<>> \in Seq(Chunks) /\ writing \in Streams \X Chunks
    BY <1>1 DEF ExecInit, NoWrite, Streams, Chunks
  <2>2. /\ written \in [Streams -> Seq(Chunks)] /\ pipe \in [Streams -> Seq(Chunks)]
        /\ buf \in [Streams -> Seq(Chunks)]
    BY <1>1, <2>1 DEF ExecInit
  <2>3. logOutput \in BOOLEAN /\ closed \in BOOLEAN
    BY <1>1, Zenon DEF ExecInit
  <2>4. failed \in [Streams -> BOOLEAN]
    BY <1>1 DEF ExecInit
  <2>5. result \in [exitCode: Int, err: BOOLEAN]
    BY <1>1 DEF ExecInit, NoResult
  <2>6. QED
    BY <1>1, <2>1, <2>2, <2>3, <2>4, <2>5 DEF ExecInit, ExecTypeOK
<1>2. ASSUME ExecTypeOK, [ExecNext]_execVars
      PROVE  ExecTypeOK'
  <2> USE <1>2 DEF ExecTypeOK
  <2>1. CASE SetupFails
    BY <2>1 DEF SetupFails, childVars
  <2>2. CASE Start
    BY <2>2 DEF Start
  <2>3. CASE Join
    BY <2>3 DEF Join, childVars
  <2>4. CASE Wait
    BY <2>4 DEF Wait, ExitCodeFromError, childVars
  <2>5. ASSUME NEW s \in Streams, Read(s)
        PROVE  ExecTypeOK'
    <3>1. /\ Head(pipe[s]) \in Chunks /\ Tail(pipe[s]) \in Seq(Chunks)
          /\ Append(buf[s], Head(pipe[s])) \in Seq(Chunks)
      BY <2>5 DEF Read
    <3>2. QED
      BY <2>5, <3>1 DEF Read, childVars
  <2>6. ASSUME NEW s \in Streams, ReadEOF(s)
        PROVE  ExecTypeOK'
    BY <2>6 DEF ReadEOF, childVars
  <2>7. ASSUME NEW s \in Streams, ReadError(s)
        PROVE  ExecTypeOK'
    BY <2>7 DEF ReadError, childVars
  <2>8. ASSUME NEW s \in Streams, NEW c \in Chunks, BeginWrite(s, c)
        PROVE  ExecTypeOK'
    BY <2>8 DEF BeginWrite
  <2>9. CASE EndWrite
    <3>1. writing[1] \in Streams /\ writing[2] \in Chunks
      OBVIOUS
    <3>2. QED
      BY <2>9, <3>1 DEF EndWrite, NoWrite, Streams, Chunks
  <2>10. ASSUME NEW st \in ExitStatuses, Exit(st)
         PROVE  ExecTypeOK'
    BY <2>10 DEF Exit
  <2>11. CASE UNCHANGED execVars
    BY <2>11 DEF execVars, childVars
  <2>12. QED
    BY <1>2, <2>1, <2>2, <2>3, <2>4, <2>5, <2>6, <2>7, <2>8, <2>9, <2>10, <2>11
       DEF ExecNext, Caller, Drain, Child
<1>3. QED
  BY <1>1, <1>2, PTL DEF ExecSpec

--------------------------------------------------------------------------------
(* A drain that finished without an error left an empty pipe and a child   *)
(* that can write no more; until the pipes are closed nothing is missing;  *)
(* after that, both drains have finished.                                  *)
DrainEnds == \A s \in Streams :
                 /\ reader[s] = "finished" => failed[s] \/ (pipe[s] = <<>> /\ child = "exited")
                 /\ failed[s] => reader[s] = "finished"

Phases == /\ caller = "setup" => child = "none" /\ joined = 0
          /\ child = "none" => \A s \in Streams : reader[s] = "none"
          /\ caller = "join" => logOutput /\ joined < 2
          /\ caller = "wait" => ~logOutput \/ \A s \in Streams : reader[s] = "finished"
          /\ closed => caller = "done" /\ child = "exited"
                       /\ \A s \in Streams : reader[s] = "finished"

Returned == /\ caller = "done" /\ child = "none" => result = [exitCode |-> -1, err |-> TRUE]
            /\ caller = "done" /\ child # "none" =>
                 /\ closed
                 /\ result = ExitCodeFromError(status, \E s \in Streams : failed[s])
                 /\ \A s \in Streams : failed[s] \/ buf[s] = written[s]

ExecInv == NoGap /\ DrainEnds /\ Phases /\ Returned

LEMMA ExecInvInductive == ExecSpec => []ExecInv
<1>1. ExecInit => ExecInv
  BY DEF ExecInit, ExecInv, NoGap, DrainEnds, Phases, Returned
<1>2. ASSUME ExecTypeOK, ExecInv, [ExecNext]_execVars
      PROVE  ExecInv'
  <2> USE <1>2 DEF ExecTypeOK, ExecInv
  <2>1. CASE SetupFails
    BY <2>1 DEF SetupFails, childVars, NoGap, DrainEnds, Phases, Returned
  <2>2. CASE Start
    BY <2>2 DEF Start, NoGap, DrainEnds, Phases, Returned
  <2>3. CASE Join
    BY <2>3, SMTT(40) DEF Join, childVars, NoGap, DrainEnds, Phases, Returned
  <2>4. CASE Wait
    <3>1. \A s \in Streams : reader[s] = "finished"
      BY <2>4 DEF Wait, Phases
    <3>2. ~closed
      BY <2>4 DEF Wait, Phases
    <3>3. \A s \in Streams : failed[s] \/ buf[s] = written[s]
      <4>1. ASSUME NEW s \in Streams, ~failed[s]
            PROVE  buf[s] = written[s]
        <5>1. pipe[s] = <<>> /\ written[s] = buf[s] \o pipe[s]
          BY <3>1, <3>2, <4>1 DEF NoGap, DrainEnds
        <5>2. buf[s] \o <<>> = buf[s]
          BY ConcatEmptySeq
        <5>3. QED
          BY <5>1, <5>2
      <4>2. QED
        BY <4>1
    <3>4. QED
      BY <2>4, <3>1, <3>3 DEF Wait, childVars, NoGap, DrainEnds, Phases, Returned
  <2>5. ASSUME NEW s \in Streams, Read(s)
        PROVE  ExecInv'
    <3>1. buf'[s] \o pipe'[s] = buf[s] \o pipe[s]
      <4>1. /\ pipe[s] \in Seq(Chunks) /\ buf[s] \in Seq(Chunks) /\ pipe[s] # <<>>
            /\ buf'[s] = Append(buf[s], Head(pipe[s])) /\ pipe'[s] = Tail(pipe[s])
        BY <2>5 DEF Read
      <4>2. Append(buf[s], Head(pipe[s])) \o Tail(pipe[s]) = buf[s] \o pipe[s]
        BY <4>1, MoveHead
      <4>3. QED
        BY <4>1, <4>2
    <3>2. NoGap'
      BY <2>5, <3>1 DEF Read, childVars, NoGap
    <3>3. DrainEnds' /\ Phases' /\ Returned'
      BY <2>5 DEF Read, childVars, DrainEnds, Phases, Returned
    <3>4. QED
      BY <3>2, <3>3
  <2>6. ASSUME NEW s \in Streams, ReadEOF(s)
        PROVE  ExecInv'
    BY <2>6 DEF ReadEOF, childVars, NoGap, DrainEnds, Phases, Returned
  <2>7. ASSUME NEW s \in Streams, ReadError(s)
        PROVE  ExecInv'
    <3>1. ~closed /\ caller # "setup" /\ (caller = "done" => child = "none")
      BY <2>7 DEF ReadError, Phases, Returned
    <3>2. child # "none"
      BY <2>7 DEF ReadError, Phases
    <3>3. NoGap'
      BY <2>7 DEF ReadError, childVars, NoGap
    <3>6. DrainEnds'
      <4>1. /\ reader[s] = "copy" => failed'[s]
            /\ reader[s] # "copy" => ~failed'[s] /\ reader'[s] # "finished"
            /\ reader[s] = "copy" => reader'[s] = "finished"
        BY <2>7 DEF ReadError
      <4>2. \A t \in Streams \ {s} : failed'[t] = failed[t] /\ reader'[t] = reader[t]
        BY <2>7 DEF ReadError
      <4>3. pipe' = pipe /\ child' = child
        BY <2>7 DEF ReadError, childVars
      <4>4. ASSUME NEW t \in Streams
            PROVE  /\ reader'[t] = "finished" => failed'[t] \/ (pipe[t] = <<>> /\ child = "exited")
                   /\ failed'[t] => reader'[t] = "finished"
        <5>1. CASE t = s
          BY <4>1, <5>1, Zenon
        <5>2. CASE t # s
          <6>1. failed'[t] = failed[t] /\ reader'[t] = reader[t]
            BY <4>2, <5>2
          <6>2. QED
            BY <6>1, Zenon DEF DrainEnds
        <5>3. QED
          BY <5>1, <5>2
      <4>5. QED
        BY <4>3, <4>4, Zenon DEF DrainEnds
    <3>4. Phases' /\ Returned'
      BY <2>7, <3>1, <3>2 DEF ReadError, childVars, Phases, Returned
    <3>5. QED
      BY <3>3, <3>4, <3>6
  <2>8. ASSUME NEW s \in Streams, NEW c \in Chunks, BeginWrite(s, c)
        PROVE  ExecInv'
    BY <2>8 DEF BeginWrite, NoGap, DrainEnds, Phases, Returned
  <2>9. CASE EndWrite
    <3> DEFINE s == writing[1]
    <3>1. s \in Streams /\ writing[2] \in Chunks
      OBVIOUS
    <3>2. buf[s] \o Append(pipe[s], writing[2]) = Append(buf[s] \o pipe[s], writing[2])
      BY <3>1, ConcatAppend
    <3>3. NoGap'
      BY <2>9, <3>1, <3>2 DEF EndWrite, NoGap
    <3>4. DrainEnds' /\ Phases' /\ Returned'
      BY <2>9, <3>1 DEF EndWrite, DrainEnds, Phases, Returned
    <3>5. QED
      BY <3>3, <3>4
  <2>10. ASSUME NEW st \in ExitStatuses, Exit(st)
         PROVE  ExecInv'
    BY <2>10 DEF Exit, NoGap, DrainEnds, Phases, Returned
  <2>11. CASE UNCHANGED execVars
    BY <2>11 DEF execVars, childVars, NoGap, DrainEnds, Phases, Returned
  <2>12. QED
    BY <1>2, <2>1, <2>2, <2>3, <2>4, <2>5, <2>6, <2>7, <2>8, <2>9, <2>10, <2>11
       DEF ExecNext, Caller, Drain, Child
<1>3. QED
  BY <1>1, <1>2, ExecTypeCorrect, PTL DEF ExecSpec

--------------------------------------------------------------------------------
(* readStream never loses, repeats or reorders a chunk, through the switch *)
(* from the line scanner to io.Copy.                                       *)
THEOREM ReadsHaveNoGap == ExecSpec => []NoGap
  BY ExecInvInductive, PTL DEF ExecInv

(* Execute returns complete output whenever no read failed, and never      *)
(* reports a success with output missing.                                  *)
THEOREM OutputIsComplete == ExecSpec => []CompleteOutput
<1>1. ExecTypeOK /\ ExecInv => CompleteOutput
  BY DEF ExecTypeOK, ExecInv, Returned, CompleteOutput, ExitCodeFromError
<1>2. QED
  BY <1>1, ExecTypeCorrect, ExecInvInductive, PTL

(* cmd.Wait closes the pipes only after both drains are finished. *)
THEOREM PipesAreClosedLast == ExecSpec => []PipesOutliveDrains
<1>1. ExecInv => PipesOutliveDrains
  BY DEF ExecInv, Phases, PipesOutliveDrains
<1>2. QED
  BY <1>1, ExecInvInductive, PTL

(* The exit code that decides on a retry is the child's own status, and a  *)
(* success is reported only for a child that was started and exited with   *)
(* 0, whatever reads failed.                                               *)
THEOREM ExitCodeIsHonest == ExecSpec => []HonestExitCode
<1>1. ASSUME ExecTypeOK, ExecInv, caller = "done"
      PROVE  HonestExitCode
  <2>1. CASE child = "none"
    BY <1>1, <2>1 DEF ExecInv, Returned, HonestExitCode
  <2>2. CASE child # "none"
    <3>1. child = "exited" /\ result = ExitCodeFromError(status, \E s \in Streams : failed[s])
      BY <1>1, <2>2 DEF ExecInv, Phases, Returned
    <3>2. QED
      BY <1>1, <3>1 DEF ExecTypeOK, HonestExitCode, ExitCodeFromError
  <2>3. QED
    BY <2>1, <2>2
<1>2. ExecTypeOK /\ ExecInv => HonestExitCode
  BY <1>1 DEF HonestExitCode
<1>3. QED
  BY <1>2, ExecTypeCorrect, ExecInvInductive, PTL
================================================================================
