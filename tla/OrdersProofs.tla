----------------------------- MODULE OrdersProofs -----------------------------
(* What a sequence in order is (each element once, and no other sequence), *)
(* and what is in a sequence.                                              *)
EXTENDS Orders, Sequences, FiniteSetTheorems, WellFoundedInduction, TLAPS

(* A set of numbers that has any has a least one.                          *)
LEMMA LeastNumber ==
  ASSUME NEW S \in SUBSET Nat, S # {}
  PROVE  \E m \in S : \A n \in S : m <= n
<1> DEFINE R == OpToRel(<, Nat)
<1>1. \A m, n \in Nat : n < m => <<n, m>> \in R
  BY DEF OpToRel
<1>2. IsWellFoundedOn(R, Nat)
  BY NatLessThanWellFounded
<1> HIDE DEF R
<1>3. PICK m \in S : \A n \in S : ~(<<n, m>> \in R)
  BY <1>2, WFMin, Zenon
<1>4. \A n \in S : ~(n < m)
  BY <1>1, <1>3
<1> QED BY <1>4

(* And a nonempty set of numbers up to n has a greatest one.                *)
LEMMA GreatestNumber ==
  ASSUME NEW n \in Nat, NEW S \in SUBSET (0 .. n), S # {}
  PROVE  \E m \in S : \A k \in S : k <= m
<1> DEFINE Bounds == {k \in Nat : \A x \in S : x <= k}
<1>1. n \in Bounds /\ Bounds \in SUBSET Nat
  OBVIOUS
<1>2. PICK m \in Bounds : \A k \in Bounds : m <= k
  <2> HIDE DEF Bounds
  <2> QED BY <1>1, LeastNumber
<1>3. m \in Nat /\ \A x \in S : x \in Nat /\ x <= m
  OBVIOUS
<1>4. ASSUME m \notin S
      PROVE  FALSE
  <2>1. \A x \in S : x < m
    BY <1>3, <1>4
  <2>2. PICK x \in S : x \in Nat /\ x < m
    BY <1>3, <2>1
  <2>3. m - 1 \in Nat
    BY <1>3, <2>2
  <2>4. ASSUME NEW y \in S
        PROVE  y <= m - 1
    BY <1>3, <2>1
  <2> HIDE DEF Bounds
  <2>5. m - 1 \in Bounds
    BY <2>3, <2>4 DEF Bounds
  <2> QED BY <1>2, <1>3, <2>5
<1> QED BY <1>3, <1>4

(* An injection from a finite set to one no larger reaches all of it.      *)
LEMMA InjectionCovers ==
  ASSUME NEW S, NEW T, IsFiniteSet(S), IsFiniteSet(T), Cardinality(S) = Cardinality(T),
         NEW f \in [S -> T], \A x, y \in S : f[x] = f[y] => x = y
  PROVE  \A z \in T : \E x \in S : f[x] = z
<1>1. f \in Injection(S, T)
  BY DEF Injection, IsInjective
<1>2. f \in Surjection(S, T)
  BY <1>1, FS_Injection
<1> QED BY <1>2 DEF Surjection

(* 1..n has n elements.                                                    *)
LEMMA FirstNumbers ==
  ASSUME NEW n \in Nat
  PROVE  IsFiniteSet(1 .. n) /\ Cardinality(1 .. n) = n
  BY FS_Interval

(* A sequence without repetitions, as long as a set of its elements has    *)
(* elements, has them all.                                                 *)
LEMMA SequenceCovers ==
  ASSUME NEW S, IsFiniteSet(S), NEW n \in Nat, Cardinality(S) = n,
         NEW seq \in [1 .. n -> S], \A i, j \in 1 .. n : seq[i] = seq[j] => i = j
  PROVE  \A x \in S : \E i \in 1 .. n : seq[i] = x
<1>1. IsFiniteSet(1 .. n) /\ Cardinality(1 .. n) = Cardinality(S)
  BY FirstNumbers
<1> QED BY <1>1, InjectionCovers

(* The sequence of a finite set in a strict order exists.                  *)
LEMMA OrderExists ==
  ASSUME NEW S, IsFiniteSet(S), NEW Order, StrictlyOrders(Order, S)
  PROVE  \E seq \in [1 .. Cardinality(S) -> S] : IsInOrder(seq, Order)
<1> DEFINE n == Cardinality(S)
           Below(x) == {y \in S : <<y, x>> \in Order}
           rank == [x \in S |-> Cardinality(Below(x)) + 1]
<1>1. n \in Nat
  BY FS_CardinalityType
<1>2. ASSUME NEW x \in S
      PROVE  IsFiniteSet(Below(x)) /\ Cardinality(Below(x)) \in 0 .. n - 1
  <2>1. Below(x) \in SUBSET S /\ Below(x) # S
    BY DEF StrictlyOrders
  <2> HIDE DEF Below
  <2>2. IsFiniteSet(Below(x)) /\ Cardinality(Below(x)) <= n /\ Cardinality(Below(x)) # n
    BY <2>1, FS_Subset
  <2>3. Cardinality(Below(x)) \in Nat
    BY <2>2, FS_CardinalityType
  <2> QED BY <1>1, <2>2, <2>3
<1>3. ASSUME NEW x \in S, NEW y \in S, <<x, y>> \in Order
      PROVE  Cardinality(Below(x)) < Cardinality(Below(y))
  <2>1. Below(x) \in SUBSET Below(y) /\ Below(x) # Below(y)
    BY <1>3 DEF StrictlyOrders
  <2>2. IsFiniteSet(Below(y)) /\ Cardinality(Below(x)) \in Nat /\ Cardinality(Below(y)) \in Nat
    BY <1>1, <1>2
  <2> HIDE DEF Below
  <2>3. /\ Cardinality(Below(x)) <= Cardinality(Below(y))
        /\ Cardinality(Below(x)) # Cardinality(Below(y))
    BY <2>1, <2>2, FS_Subset
  <2> QED BY <2>2, <2>3
<1> HIDE DEF Below
<1>4. \A x \in S : rank[x] \in 1 .. n
  BY <1>1, <1>2
<1>5. \A x, y \in S : <<x, y>> \in Order => rank[x] < rank[y]
  BY <1>1, <1>2, <1>3
<1>a. rank \in [S -> 1 .. n]
  BY <1>4
<1> HIDE DEF rank
<1>6. \A x, y \in S : rank[x] = rank[y] => x = y
  <2> SUFFICES ASSUME NEW x \in S, NEW y \in S, x # y PROVE rank[x] # rank[y]
    OBVIOUS
  <2>1. rank[x] < rank[y] \/ rank[y] < rank[x]
    BY <1>5 DEF StrictlyOrders
  <2> QED BY <1>1, <1>4, <2>1
<1>7. \A i \in 1 .. n : \E x \in S : rank[x] = i
  <2> DEFINE T == 1 .. n
  <2>1. IsFiniteSet(T) /\ Cardinality(T) = Cardinality(S) /\ rank \in [S -> T]
    BY <1>1, <1>a, FirstNumbers
  <2> HIDE DEF T
  <2>2. \A i \in T : \E x \in S : rank[x] = i
    BY <1>6, <2>1, InjectionCovers
  <2> QED BY <2>2 DEF T
<1> DEFINE seq == [i \in 1 .. n |-> CHOOSE x \in S : rank[x] = i]
<1>8. \A i \in 1 .. n : seq[i] \in S /\ rank[seq[i]] = i
  BY <1>7
<1>9. seq \in [1 .. n -> S]
  BY <1>8
<1> HIDE DEF seq
<1>10. IsInOrder(seq, Order)
  <2> SUFFICES ASSUME NEW i \in 1 .. n, NEW j \in 1 .. n, i < j
               PROVE  <<seq[i], seq[j]>> \in Order
    BY <1>9 DEF IsInOrder
  <2>1. seq[i] # seq[j] /\ ~(rank[seq[j]] < rank[seq[i]])
    BY <1>1, <1>8
  <2> QED BY <1>5, <1>8, <2>1 DEF StrictlyOrders
<1> QED BY <1>9, <1>10

(* In order, every element of the set comes once.                          *)
LEMMA InOrderEnumerates ==
  ASSUME NEW S, IsFiniteSet(S), NEW Order, StrictlyOrders(Order, S),
         NEW seq \in [1 .. Cardinality(S) -> S], IsInOrder(seq, Order)
  PROVE  /\ \A i, j \in 1 .. Cardinality(S) : seq[i] = seq[j] => i = j
         /\ \A x \in S : \E i \in 1 .. Cardinality(S) : seq[i] = x
<1> DEFINE n == Cardinality(S)
<1>1. n \in Nat
  BY FS_CardinalityType
<1> HIDE DEF n
<1>a. seq \in [1 .. n -> S] /\ Cardinality(S) = n
  BY DEF n
<1>2. \A i, j \in 1 .. n : seq[i] = seq[j] => i = j
  <2> SUFFICES ASSUME NEW i \in 1 .. n, NEW j \in 1 .. n, i # j PROVE seq[i] # seq[j]
    OBVIOUS
  <2>1. i < j \/ j < i
    BY <1>1
  <2>2. <<seq[i], seq[j]>> \in Order \/ <<seq[j], seq[i]>> \in Order
    BY <1>a, <2>1 DEF IsInOrder
  <2> QED BY <1>a, <2>2 DEF StrictlyOrders
<1>3. \A x \in S : \E i \in 1 .. n : seq[i] = x
  BY <1>1, <1>a, <1>2, SequenceCovers
<1> QED BY <1>2, <1>3 DEF n

(* InOrder is that sequence.                                               *)
LEMMA InOrderIs ==
  ASSUME NEW S, IsFiniteSet(S), NEW Order, StrictlyOrders(Order, S)
  PROVE  /\ Cardinality(S) \in Nat
         /\ InOrder(S, Order) \in [1 .. Cardinality(S) -> S]
         /\ IsInOrder(InOrder(S, Order), Order)
<1>1. \E seq \in [1 .. Cardinality(S) -> S] : IsInOrder(seq, Order)
  BY OrderExists
<1> QED BY <1>1, FS_CardinalityType DEF InOrder

(* There is only one sequence of a set in an order.                        *)
LEMMA InOrderUnique ==
  ASSUME NEW S, IsFiniteSet(S), NEW Order, StrictlyOrders(Order, S),
         NEW seq \in [1 .. Cardinality(S) -> S], IsInOrder(seq, Order)
  PROVE  InOrder(S, Order) = seq
<1> DEFINE n == Cardinality(S)
           other == InOrder(S, Order)
<1>1. n \in Nat /\ other \in [1 .. n -> S] /\ IsInOrder(other, Order)
  BY InOrderIs
<1>2. /\ \A i, j \in 1 .. n : seq[i] = seq[j] => i = j
      /\ \A x \in S : \E i \in 1 .. n : seq[i] = x
  BY <1>1, InOrderEnumerates, SMTT(30)
<1>3. /\ \A i, j \in 1 .. n : other[i] = other[j] => i = j
      /\ \A x \in S : \E i \in 1 .. n : other[i] = x
  BY <1>1, InOrderEnumerates
<1>4. seq \in [1 .. n -> S]
  OBVIOUS
<1> HIDE DEF n, other
<1> DEFINE Differ == {i \in 1 .. n : other[i] # seq[i]}
<1>5. Differ = {}
  <2> SUFFICES ASSUME Differ # {} PROVE FALSE
    OBVIOUS
  <2>a. Differ \in SUBSET Nat
    BY <1>1
  <2>1. PICK i \in Differ : \A j \in Differ : i <= j
    BY <2>a, LeastNumber
  <2>2. PICK k \in 1 .. n : seq[k] = other[i]
    BY <1>1, <1>2
  <2>3. PICK m \in 1 .. n : other[m] = seq[i]
    BY <1>3, <1>4
  <2>4. i \in 1 .. n /\ other[i] # seq[i] /\ \A j \in 1 .. n : j < i => other[j] = seq[j]
    BY <1>1, <2>1
  <2>5. i < k
    BY <1>1, <1>3, <2>2, <2>4
  <2>6. i < m
    BY <1>1, <1>2, <2>3, <2>4
  <2>7. <<seq[i], other[i]>> \in Order
    BY <1>4, <2>2, <2>4, <2>5 DEF IsInOrder
  <2>8. <<other[i], seq[i]>> \in Order
    BY <1>1, <2>3, <2>4, <2>6 DEF IsInOrder
  <2> QED BY <1>1, <1>4, <2>4, <2>7, <2>8 DEF StrictlyOrders
<1>6. \A i \in 1 .. n : other[i] = seq[i]
  BY <1>5
<1>7. other = seq
  <2>1. other = [i \in 1 .. n |-> other[i]]
    BY <1>1
  <2>2. seq = [i \in 1 .. n |-> seq[i]]
    BY <1>4
  <2> QED BY <1>6, <2>1, <2>2, Zenon
<1> QED BY <1>7 DEF other

(* Numbers are ordered by size.                                            *)
LEMMA LessOrders ==
  ASSUME NEW S \in SUBSET Nat
  PROVE  StrictlyOrders(Less(S), S)
  BY DEF StrictlyOrders, Less

-----------------------------------------------------------------------------
(* Sequences and their elements.                                           *)

(* What is in a sequence is of its type, at some position.                 *)
LEMMA InSequence ==
  ASSUME NEW S, NEW seq \in Seq(S)
  PROVE  /\ Len(seq) \in Nat /\ DOMAIN seq = 1 .. Len(seq)
         /\ Range(seq) \subseteq S
         /\ \A i \in DOMAIN seq : seq[i] \in S /\ seq[i] \in Range(seq)
         /\ \A x : x \in Range(seq) <=> \E i \in DOMAIN seq : seq[i] = x
  BY DEF Range

(* A function on 1..n is a sequence of n elements.                         *)
LEMMA FunctionIsSequence ==
  ASSUME NEW S, NEW n \in Nat, NEW f \in [1 .. n -> S]
  PROVE  f \in Seq(S) /\ Len(f) = n /\ DOMAIN f = 1 .. n
  OBVIOUS

(* A sequence has finitely many elements, as many as it is long when none  *)
(* comes twice.                                                            *)
LEMMA FiniteRange ==
  ASSUME NEW S, NEW seq \in Seq(S)
  PROVE  /\ IsFiniteSet(Range(seq))
         /\ Cardinality(Range(seq)) \in Nat
         /\ Cardinality(Range(seq)) = Len(seq) <=> IsInjective(seq)
<1> DEFINE D == 1 .. Len(seq)
           R == Range(seq)
<1>1. IsFiniteSet(D) /\ Cardinality(D) = Len(seq)
  BY FirstNumbers
<1>2. seq \in Surjection(D, R) /\ (IsInjective(seq) <=> seq \in Injection(D, R))
  BY DEF Surjection, Injection, IsInjective, Range
<1> HIDE DEF D, R
<1>3. IsFiniteSet(R) /\ (Cardinality(R) = Cardinality(D) <=> seq \in Injection(D, R))
  BY <1>1, <1>2, FS_Surjection
<1>4. Cardinality(R) \in Nat
  BY <1>3, FS_CardinalityType
<1> QED BY <1>1, <1>2, <1>3, <1>4 DEF R

(* Two sequences one after the other.                                      *)
LEMMA Appended ==
  ASSUME NEW S, NEW first \in Seq(S), NEW n \in Nat, NEW second \in [1 .. n -> S]
  PROVE  /\ first \o second \in Seq(S)
         /\ Len(first \o second) = Len(first) + n
         /\ \A i \in 1 .. Len(first) : (first \o second)[i] = first[i]
         /\ \A i \in 1 .. n : (first \o second)[Len(first) + i] = second[i]
         /\ Range(first \o second) = Range(first) \cup Range(second)
<1>1. second \in Seq(S) /\ Len(second) = n
  OBVIOUS
<1>2. /\ first \o second \in Seq(S)
      /\ Len(first \o second) = Len(first) + n
      /\ \A i \in 1 .. Len(first) : (first \o second)[i] = first[i]
      /\ \A i \in 1 .. n : (first \o second)[Len(first) + i] = second[i]
  BY <1>1
<1>3. ASSUME NEW x
      PROVE  x \in Range(first \o second) <=> x \in Range(first) \/ x \in Range(second)
  <2> DEFINE both == first \o second
  <2>a. both \in Seq(S) /\ DOMAIN both = 1 .. Len(first) + n
    BY <1>2
  <2> HIDE DEF both
  <2>b. x \in Range(both) <=> \E i \in 1 .. Len(first) + n : both[i] = x
    BY <2>a DEF Range
  <2>c. x \in Range(first) <=> \E i \in 1 .. Len(first) : first[i] = x
    BY DEF Range
  <2>d. x \in Range(second) <=> \E i \in 1 .. n : second[i] = x
    BY DEF Range
  <2>e. /\ \A i \in 1 .. Len(first) : both[i] = first[i]
        /\ \A i \in 1 .. n : both[Len(first) + i] = second[i]
    BY <1>2 DEF both
  <2>f. Len(first) \in Nat
    OBVIOUS
  <2>2. ASSUME NEW i \in 1 .. Len(first) + n
        PROVE  \/ i \in 1 .. Len(first)
               \/ \E j \in 1 .. n : i = Len(first) + j
    <3>1. i \in 1 .. Len(first) \/ (i - Len(first) \in 1 .. n /\ i = Len(first) + (i - Len(first)))
      OBVIOUS
    <3> QED BY <3>1
  <2>3. /\ \A i \in 1 .. Len(first) : i \in 1 .. Len(first) + n
        /\ \A i \in 1 .. n : Len(first) + i \in 1 .. Len(first) + n
    OBVIOUS
  <2>4. ASSUME NEW i \in 1 .. Len(first) + n, both[i] = x
        PROVE  x \in Range(first) \/ x \in Range(second)
    BY <2>2, <2>4, <2>c, <2>d, <2>e
  <2>5. ASSUME NEW i \in 1 .. Len(first), first[i] = x
        PROVE  x \in Range(both)
    BY <2>3, <2>5, <2>b, <2>e
  <2>6. ASSUME NEW i \in 1 .. n, second[i] = x
        PROVE  x \in Range(both)
    BY <2>3, <2>6, <2>b, <2>e
  <2> QED BY <2>b, <2>c, <2>d, <2>4, <2>5, <2>6 DEF both
<1> QED BY <1>2, <1>3

-----------------------------------------------------------------------------
(* Sets of numbers in ascending order.                                     *)

(* Ascending gives each element of a finite set of numbers once, smaller   *)
(* ones first.                                                             *)
LEMMA AscendingIs ==
  ASSUME NEW S \in SUBSET Nat, IsFiniteSet(S)
  PROVE  LET seq == Ascending(S) IN
         /\ Cardinality(S) \in Nat
         /\ seq \in [1 .. Cardinality(S) -> S] /\ seq \in Seq(S) /\ Len(seq) = Cardinality(S)
         /\ \A i, j \in 1 .. Len(seq) : i < j => seq[i] < seq[j]
         /\ \A x \in S : \E i \in 1 .. Len(seq) : seq[i] = x
         /\ Range(seq) = S
         /\ IsInjective(seq)
<1> DEFINE seq == Ascending(S)
           n == Cardinality(S)
<1>1. StrictlyOrders(Less(S), S)
  BY LessOrders
<1>2. n \in Nat /\ seq \in [1 .. n -> S] /\ IsInOrder(seq, Less(S))
  BY <1>1, InOrderIs DEF Ascending
<1>3. /\ \A i, j \in 1 .. n : seq[i] = seq[j] => i = j
      /\ \A x \in S : \E i \in 1 .. n : seq[i] = x
  BY <1>1, <1>2, InOrderEnumerates
<1> HIDE DEF seq, n
<1>4. seq \in Seq(S) /\ Len(seq) = n /\ DOMAIN seq = 1 .. n
  BY <1>2, FunctionIsSequence
<1>5. \A i, j \in 1 .. n : i < j => seq[i] < seq[j]
  <2>1. \A i, j \in 1 .. n : i < j => <<seq[i], seq[j]>> \in Less(S)
    BY <1>2, <1>4 DEF IsInOrder
  <2> QED BY <2>1 DEF Less
<1>6. Range(seq) = S
  <2>1. \A i \in 1 .. n : seq[i] \in S
    BY <1>2
  <2> QED BY <1>3, <1>4, <2>1 DEF Range
<1>7. IsInjective(seq)
  BY <1>3, <1>4 DEF IsInjective
<1> QED BY <1>2, <1>3, <1>4, <1>5, <1>6, <1>7 DEF seq, n

(* It is the only sequence that does.                                      *)
LEMMA AscendingOf ==
  ASSUME NEW S \in SUBSET Nat, NEW n \in Nat, NEW seq \in [1 .. n -> S],
         \A i, j \in 1 .. n : i < j => seq[i] < seq[j],
         \A x \in S : \E i \in 1 .. n : seq[i] = x
  PROVE  IsFiniteSet(S) /\ Cardinality(S) = n /\ Ascending(S) = seq
<1> DEFINE D == 1 .. n
<1>1. IsFiniteSet(D) /\ Cardinality(D) = n
  BY FirstNumbers
<1>2. \A i, j \in 1 .. n : seq[i] = seq[j] => i = j
  <2>1. \A i \in 1 .. n : seq[i] \in Nat
    OBVIOUS
  <2> QED BY <2>1
<1>3. seq \in Surjection(D, S) /\ seq \in Injection(D, S)
  BY <1>2 DEF Surjection, Injection, IsInjective
<1> HIDE DEF D
<1>4. IsFiniteSet(S) /\ Cardinality(S) = n
  BY <1>1, <1>3, FS_Surjection
<1>5. IsInOrder(seq, Less(S))
  BY DEF IsInOrder, Less
<1>6. StrictlyOrders(Less(S), S)
  BY LessOrders
<1>7. seq \in [1 .. Cardinality(S) -> S]
  BY <1>4
<1>8. InOrder(S, Less(S)) = seq
  BY <1>4, <1>5, <1>6, <1>7, InOrderUnique
<1> QED BY <1>4, <1>8 DEF Ascending
===============================================================================
