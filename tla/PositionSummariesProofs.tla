----------------------- MODULE PositionSummariesProofs -----------------------
(***************************************************************************)
(* Proofs about how the legs of an account are shown as trades: however    *)
(* the trades overlap, every leg is shown once, and the risk shown is the  *)
(* most the legs can lose at expiration.                                   *)
(***************************************************************************)
EXTENDS PositionSummaries, FiniteSetTheorems, SequenceTheorems, TLAPS

(* What is built step by step, and lists in order.                         *)

(* What holds of the first number and of the next one each time holds of   *)
(* all.                                                                    *)
LEMMA Steps ==
    ASSUME NEW N \in Nat, NEW Q, 0 \in Q, \A n \in 1..N : n - 1 \in Q => n \in Q
    PROVE  0..N \subseteq Q
<1>. DEFINE Out == {n \in 0..N : n \notin Q}
            Family == {0..n : n \in Out}
            R == StrictSubsetOrdering(0..N)
<1>1. IsWellFoundedOn(R, FiniteSubsetsOf(0..N))
  <2>1. IsFiniteSet(0..N)
    BY FS_Interval, 0 \in Int, N \in Int
  <2>. QED
    BY <2>1, FS_StrictSubsetOrderingWellFounded
<1>2. SUFFICES ASSUME Out # {} PROVE FALSE
  OBVIOUS
<1>3. Family \subseteq FiniteSubsetsOf(0..N) /\ Family # {}
  <2>1. ASSUME NEW n \in Out PROVE 0..n \in FiniteSubsetsOf(0..N)
    BY FS_Interval DEF FiniteSubsetsOf
  <2>. QED
    BY <1>2, <2>1
<1>4. PICK x \in Family : \A y \in Family : ~(<<y, x>> \in R)
  <2>1. Family \in SUBSET FiniteSubsetsOf(0..N) /\ Family # {}
    BY <1>3
  <2>. HIDE DEF Family, R
  <2>2. \E x \in Family : \A y \in Family : ~(<<y, x>> \in R)
    BY <1>1, <2>1, WFMin
  <2>. QED
    BY <2>2
<1>5. PICK n \in Out : x = 0..n
  OBVIOUS
<1>6. n \in 1..N /\ n - 1 \in 0..N
  OBVIOUS
<1>7. n - 1 \in Q
  <2>1. SUFFICES ASSUME n - 1 \in Out PROVE FALSE
    BY <1>6
  <2>2. 0..n - 1 \in Family
    BY <2>1
  <2>3. 0..n - 1 \subseteq x /\ 0..n - 1 # x /\ 0..n - 1 \in SUBSET (0..N) /\ x \in SUBSET (0..N)
    <3>1. n \in 0..n /\ n \notin 0..n - 1
      BY <1>6
    <3>. QED
      BY <1>5, <1>6, <3>1
  <2>4. <<0..n - 1, x>> \in R
    BY <2>3 DEF StrictSubsetOrdering
  <2>. QED
    BY <1>4, <2>2, <2>4
<1>. QED
  BY <1>6, <1>7

(* A function that is defined step by step.                                *)
Stepwise(f, N, base, step) == f[0] = base /\ \A n \in 1..N : f[n] = step[n][f[n - 1]]

(* Such a function exists.                                                 *)
LEMMA Recursion ==
    ASSUME NEW N \in Nat, NEW T, NEW base \in T, NEW step \in [1..N -> [T -> T]]
    PROVE  \E f \in [0..N -> T] : Stepwise(f, N, base, step)
<1>. DEFINE Fits(f, k) == f[0] = base /\ \A n \in 1..k : f[n] = step[n][f[n - 1]]
            Q == {k \in 0..N : \E f \in [0..k -> T] : Fits(f, k)}
<1>1. 0 \in Q
  <2>1. Fits([n \in 0..0 |-> base], 0) /\ [n \in 0..0 |-> base] \in [0..0 -> T]
    <3>1. 1..0 = {} /\ 0 \in 0..0
      OBVIOUS
    <3>. QED
      BY <3>1
  <2>2. \E f \in [0..0 -> T] : Fits(f, 0)
    BY <2>1
  <2>. HIDE DEF Fits
  <2>. QED
    BY <2>2
<1>2. ASSUME NEW k \in 1..N, k - 1 \in Q PROVE k \in Q
  <2>1. PICK f \in [0..k - 1 -> T] : Fits(f, k - 1)
    BY <1>2
  <2>0. k \in Nat /\ k - 1 \in Nat /\ k - 1 \in 0..k - 1 /\ 0 \in 0..k - 1 /\ 0 # k /\ 0 \in 0..k /\ k \in 0..k
    OBVIOUS
  <2>2. f[k - 1] \in T
    BY <2>0, <2>1
  <2>. DEFINE last == step[k][f[k - 1]]
              g == [n \in 0..k |-> IF n = k THEN last ELSE f[n]]
  <2>3. last \in T
    <3>1. step[k] \in [T -> T]
      OBVIOUS
    <3>. QED
      BY <2>2, <3>1
  <2>4. g \in [0..k -> T]
    <3>. HIDE DEF last
    <3>1. ASSUME NEW n \in 0..k, n # k PROVE f[n] \in T
      <4>1. n \in 0..k - 1
        BY <2>0, <3>1
      <4>. QED
        BY <2>1, <4>1
    <3>. QED
      BY <2>3, <3>1
  <2>5. g[0] = base
    BY <2>0, <2>1
  <2>6. ASSUME NEW n \in 1..k PROVE g[n] = step[n][g[n - 1]]
    <3>0. n \in 0..k /\ n - 1 \in 0..k /\ n - 1 # k
      BY <2>0
    <3>1. CASE n = k
      <4>1. g[n - 1] = f[k - 1] /\ g[n] = last
        BY <2>0, <3>0, <3>1
      <4>. QED
        BY <3>1, <4>1
    <3>2. CASE n # k
      <4>1. n \in 1..k - 1
        BY <2>0, <3>2
      <4>2. g[n] = f[n] /\ g[n - 1] = f[n - 1]
        BY <3>0, <3>2
      <4>3. f[n] = step[n][f[n - 1]]
        BY <2>1, <4>1
      <4>. QED
        BY <4>2, <4>3
    <3>. QED
      BY <3>1, <3>2
  <2>7. Fits(g, k)
    BY <2>5, <2>6
  <2>8. \E h \in [0..k -> T] : Fits(h, k)
    <3>. HIDE DEF Fits, g
    <3>. QED
      BY <2>4, <2>7
  <2>9. k \in 0..N
    OBVIOUS
  <2>. QED
    BY <2>8, <2>9
<1>3. N \in Q
  <2>. HIDE DEF Q
  <2>1. 0..N \subseteq Q
    BY <1>1, <1>2, Steps
  <2>. QED
    BY <2>1
<1>4. PICK f \in [0..N -> T] : Fits(f, N)
  BY <1>3
<1>. QED
  BY <1>4 DEF Stepwise

(* A number to each, by how many come before it.                           *)
LEMMA Ranks ==
    ASSUME NEW S, IsFiniteSet(S), NEW before \in [S -> SUBSET S],
           \A i \in S : i \notin before[i],
           \A i, j \in S : i # j => i \in before[j] \/ j \in before[i],
           \A i, j \in S : i \in before[j] => before[i] \subseteq before[j]
    PROVE  /\ Cardinality(S) \in Nat
           /\ \A i \in S : Cardinality(before[i]) \in 0..Cardinality(S) - 1
           /\ \A i, j \in S : i \in before[j] => Cardinality(before[i]) < Cardinality(before[j])
           /\ \A n \in 1..Cardinality(S) : \E i \in S : Cardinality(before[i]) = n - 1
<1>. DEFINE N == Cardinality(S)
            rank == [i \in S |-> Cardinality(before[i])]
<1>1. N \in Nat
  BY FS_CardinalityType
<1>2. ASSUME NEW i \in S PROVE IsFiniteSet(before[i]) /\ rank[i] \in 0..N - 1
  <2>1. before[i] \in SUBSET S /\ before[i] # S
    OBVIOUS
  <2>2. IsFiniteSet(before[i]) /\ Cardinality(before[i]) <= N /\ Cardinality(before[i]) # N
    BY <2>1, FS_Subset
  <2>3. Cardinality(before[i]) \in Nat
    BY <2>2, FS_CardinalityType
  <2>. QED
    BY <1>1, <2>2, <2>3
<1>3. ASSUME NEW i \in S, NEW j \in S, i \in before[j] PROVE rank[i] < rank[j]
  <2>1. before[i] \in SUBSET before[j] /\ before[i] # before[j]
    BY <1>3
  <2>2. Cardinality(before[i]) <= Cardinality(before[j]) /\ Cardinality(before[i]) # Cardinality(before[j])
    BY <1>2, <2>1, FS_Subset
  <2>. QED
    BY <1>2, <2>2
<1>4. ASSUME NEW i \in S, NEW j \in S, i # j PROVE rank[i] # rank[j]
  BY <1>2, <1>3, <1>4
<1>5. ASSUME NEW n \in 1..N PROVE \E i \in S : rank[i] = n - 1
  <2>1. SUFFICES ASSUME \A i \in S : rank[i] # n - 1 PROVE FALSE
    OBVIOUS
  <2>. DEFINE T == (0..N - 1) \ {n - 1}
  <2>2. IsFiniteSet(0..N - 1) /\ Cardinality(0..N - 1) = N
    <3>1. 0 \in Int /\ N - 1 \in Int /\ (0 > N - 1 => N = 0) /\ N - 1 - 0 + 1 = N
      BY <1>1
    <3>. QED
      BY <1>1, <3>1, FS_Interval
  <2>3. IsFiniteSet(T) /\ Cardinality(T) = N - 1
    <3>1. n - 1 \in 0..N - 1
      BY <1>1
    <3>. QED
      <4>. DEFINE Full == 0..N - 1
                  x == n - 1
      <4>. HIDE DEF Full, x
      <4>1. IsFiniteSet(Full \ {x}) /\ Cardinality(Full \ {x}) = Cardinality(Full) - 1
        <5>1. x \in Full /\ IsFiniteSet(Full)
          BY <2>2, <3>1 DEF Full, x
        <5>. QED
          BY <5>1, FS_RemoveElement
      <4>. QED
        BY <2>2, <4>1 DEF Full, x
  <2>4. rank \in [S -> T]
    BY <1>2, <2>1
  <2>5. Cardinality(T) < Cardinality(S)
    BY <1>1, <2>3
  <2>. HIDE DEF T, rank
  <2>. QED
    BY <1>4, <2>3, <2>4, <2>5, FS_PigeonHole
<1>. QED
  BY <1>1, <1>2, <1>3, <1>5

(* Places numbered by a function are listed once each.                     *)
Lists(o, S) ==
    /\ o \in [1..Cardinality(S) -> S]
    /\ \A i \in S : \E n \in 1..Cardinality(S) : o[n] = i
    /\ \A m, n \in 1..Cardinality(S) : o[m] = o[n] => m = n

(* Those who are numbered by how many come before are listed in order.     *)
LEMMA Listing ==
    ASSUME NEW S, IsFiniteSet(S), NEW before \in [S -> SUBSET S],
           \A i \in S : i \notin before[i],
           \A i, j \in S : i # j => i \in before[j] \/ j \in before[i],
           \A i, j \in S : i \in before[j] => before[i] \subseteq before[j],
           NEW o \in [1..Cardinality(S) -> S],
           \A n \in 1..Cardinality(S) : Cardinality(before[o[n]]) = n - 1
    PROVE  /\ Lists(o, S)
           /\ \A m, n \in 1..Cardinality(S) : m < n => o[m] \in before[o[n]]
<1>1. /\ Cardinality(S) \in Nat
      /\ \A i \in S : Cardinality(before[i]) \in 0..Cardinality(S) - 1
      /\ \A i, j \in S : i \in before[j] => Cardinality(before[i]) < Cardinality(before[j])
  BY Ranks
<1>2. ASSUME NEW i \in S PROVE \E n \in 1..Cardinality(S) : o[n] = i
  <2>. DEFINE n == Cardinality(before[i]) + 1
  <2>1. n \in 1..Cardinality(S) /\ n - 1 = Cardinality(before[i])
    BY <1>1
  <2>. HIDE DEF n
  <2>2. o[n] \in S /\ Cardinality(before[o[n]]) = Cardinality(before[i])
    BY <2>1
  <2>3. o[n] = i
    BY <1>1, <2>2
  <2>. QED
    BY <2>1, <2>3
<1>3. ASSUME NEW m \in 1..Cardinality(S), NEW n \in 1..Cardinality(S), o[m] = o[n] PROVE m = n
  <2>1. m - 1 = n - 1
    BY <1>3
  <2>. QED
    BY <1>1, <2>1
<1>4. ASSUME NEW m \in 1..Cardinality(S), NEW n \in 1..Cardinality(S), m < n PROVE o[m] \in before[o[n]]
  <2>1. o[m] \in S /\ o[n] \in S
    OBVIOUS
  <2>2. Cardinality(before[o[m]]) < Cardinality(before[o[n]])
    BY <1>1, <1>4
  <2>3. o[m] # o[n] /\ ~(o[n] \in before[o[m]])
    BY <1>1, <2>1, <2>2
  <2>. QED
    BY <2>1, <2>3
<1>. QED
  BY <1>2, <1>3, <1>4 DEF Lists

(* The places of a set in ascending order.                                 *)
LEMMA InOrderLists ==
    ASSUME NEW S, IsFiniteSet(S), S \subseteq Nat
    PROVE  /\ Cardinality(S) \in Nat
           /\ Lists(InOrder(S), S)
           /\ \A m, n \in 1..Cardinality(S) : m < n => InOrder(S)[m] < InOrder(S)[n]
<1>. DEFINE before == [i \in S |-> {j \in S : j < i}]
            o == InOrder(S)
<1>0. \A i \in S : i \in Nat
  OBVIOUS
<1>1. /\ before \in [S -> SUBSET S]
      /\ \A i \in S : i \notin before[i]
      /\ \A i, j \in S : i # j => i \in before[j] \/ j \in before[i]
      /\ \A i, j \in S : i \in before[j] => before[i] \subseteq before[j]
  <2>1. before \in [S -> SUBSET S]
    OBVIOUS
  <2>2. \A i, j \in S : j \in before[i] <=> j < i
    OBVIOUS
  <2>3. /\ \A i \in S : ~(i < i)
        /\ \A i, j \in S : i # j => i < j \/ j < i
        /\ \A i, j, k \in S : i < j /\ k < i => k < j
    BY <1>0
  <2>. HIDE DEF before
  <2>. QED
    BY <2>1, <2>2, <2>3, Zenon
<1>2. /\ Cardinality(S) \in Nat
      /\ \A n \in 1..Cardinality(S) : \E i \in S : Cardinality(before[i]) = n - 1
  <2>. HIDE DEF before
  <2>. QED
    BY <1>1, Ranks
<1>3. o = [n \in 1..Cardinality(S) |-> CHOOSE i \in S : Cardinality({j \in S : j < i}) = n - 1]
  BY DEF InOrder, Ranked
<1>4. ASSUME NEW n \in 1..Cardinality(S) PROVE o[n] \in S /\ Cardinality(before[o[n]]) = n - 1
  <2>1. \E i \in S : Cardinality({j \in S : j < i}) = n - 1
    BY <1>2
  <2>2. o[n] = CHOOSE i \in S : Cardinality({j \in S : j < i}) = n - 1
    BY <1>3
  <2>3. o[n] \in S /\ Cardinality({j \in S : j < o[n]}) = n - 1
    BY <2>1, <2>2
  <2>. QED
    BY <2>3
<1>5. o \in [1..Cardinality(S) -> S]
  <2>1. o = [n \in 1..Cardinality(S) |-> o[n]]
    BY <1>3
  <2>. HIDE DEF o
  <2>. QED
    BY <1>4, <2>1
<1>6. /\ Lists(o, S)
      /\ \A m, n \in 1..Cardinality(S) : m < n => o[m] \in before[o[n]]
  <2>. HIDE DEF o, before
  <2>. QED
    BY <1>1, <1>4, <1>5, Listing
<1>7. ASSUME NEW m \in 1..Cardinality(S), NEW n \in 1..Cardinality(S), m < n PROVE o[m] < o[n]
  <2>1. o[n] \in S /\ o[m] \in before[o[n]]
    BY <1>4, <1>6, <1>7
  <2>. QED
    BY <2>1
<1>. QED
  BY <1>2, <1>6, <1>7

(* The legs of a summary by strike, as listed where strikes are equal.     *)
LEMMA ByStrikeLists ==
    ASSUME NEW S, IsFiniteSet(S), S \subseteq Nat, \A i \in S : held[i].strike \in Nat
    PROVE  /\ Cardinality(S) \in Nat
           /\ Lists(ByStrike(S), S)
           /\ \A m, n \in 1..Cardinality(S) :
                m < n => held[ByStrike(S)[m]].strike <= held[ByStrike(S)[n]].strike
<1>. DEFINE Before(i, j) == held[i].strike < held[j].strike
                            \/ (held[i].strike = held[j].strike /\ i < j)
            before == [i \in S |-> {j \in S : Before(j, i)}]
            o == ByStrike(S)
<1>0. \A i \in S : i \in Nat
  OBVIOUS
<1>1. /\ before \in [S -> SUBSET S]
      /\ \A i \in S : i \notin before[i]
      /\ \A i, j \in S : i # j => i \in before[j] \/ j \in before[i]
      /\ \A i, j \in S : i \in before[j] => before[i] \subseteq before[j]
  <2>1. before \in [S -> SUBSET S]
    OBVIOUS
  <2>2. \A i, j \in S : j \in before[i] <=> Before(j, i)
    OBVIOUS
  <2>3. /\ \A i \in S : ~Before(i, i)
        /\ \A i, j \in S : i # j => Before(i, j) \/ Before(j, i)
        /\ \A i, j, k \in S : Before(i, j) /\ Before(k, i) => Before(k, j)
    BY <1>0
  <2>. HIDE DEF before, Before
  <2>. QED
    BY <2>1, <2>2, <2>3
<1>2. /\ Cardinality(S) \in Nat
      /\ \A n \in 1..Cardinality(S) : \E i \in S : Cardinality(before[i]) = n - 1
  <2>. HIDE DEF before
  <2>. QED
    BY <1>1, Ranks
<1>3. o = [n \in 1..Cardinality(S) |-> CHOOSE i \in S : Cardinality({j \in S : Before(j, i)}) = n - 1]
  BY DEF ByStrike, Ranked
<1>4. ASSUME NEW n \in 1..Cardinality(S) PROVE o[n] \in S /\ Cardinality(before[o[n]]) = n - 1
  <2>. HIDE DEF Before
  <2>1. \E i \in S : Cardinality({j \in S : Before(j, i)}) = n - 1
    BY <1>2
  <2>2. o[n] = CHOOSE i \in S : Cardinality({j \in S : Before(j, i)}) = n - 1
    BY <1>3
  <2>3. o[n] \in S /\ Cardinality({j \in S : Before(j, o[n])}) = n - 1
    BY <2>1, <2>2
  <2>. QED
    BY <2>3
<1>5. o \in [1..Cardinality(S) -> S]
  <2>1. o = [n \in 1..Cardinality(S) |-> o[n]]
    <3>. HIDE DEF Before
    <3>. QED
      BY <1>3
  <2>. HIDE DEF o
  <2>. QED
    BY <1>4, <2>1
<1>6. /\ Lists(o, S)
      /\ \A m, n \in 1..Cardinality(S) : m < n => o[m] \in before[o[n]]
  <2>. HIDE DEF o, before
  <2>. QED
    BY <1>1, <1>4, <1>5, Listing
<1>7. ASSUME NEW m \in 1..Cardinality(S), NEW n \in 1..Cardinality(S), m < n
      PROVE  held[o[m]].strike <= held[o[n]].strike
  <2>1. o[m] \in S /\ o[n] \in S /\ o[m] \in before[o[n]]
    BY <1>4, <1>6, <1>7
  <2>2. Before(o[m], o[n])
    BY <2>1
  <2>. QED
    BY <2>1, <2>2
<1>. QED
  BY <1>2, <1>6, <1>7

-----------------------------------------------------------------------------
(* What the broker holds.                                                  *)

(* What the type invariant says of the legs.                               *)
BookFits(legs) ==
    /\ legs \in Seq(Lots)
    /\ \A i \in DOMAIN legs : /\ legs[i].strike \in StrikesTraded
                              /\ \A j \in DOMAIN legs : SameContract(legs[i], legs[j]) => i = j

(* The fields of a leg.                                                    *)
LEMMA LotFields ==
    ASSUME NEW leg \in Lots
    PROVE  /\ leg.action \in {"BUY", "SELL"} /\ leg.kind \in {"CALL", "PUT"}
           /\ leg.strike \in Nat /\ leg.quantity \in Nat \ {0} /\ leg.expiry \in Nat
           /\ Signed(leg) \in Int
BY DEF Lots, Signed

(* Netting a leg into those held keeps one position per contract.          *)
LEMMA NettedFits ==
    ASSUME NEW legs, BookFits(legs), NEW leg \in Lots, leg.strike \in StrikesTraded
    PROVE  BookFits(Netted(legs, leg))
<1>. DEFINE same == {i \in DOMAIN legs : SameContract(legs[i], leg)}
            N == Len(legs)
<1>0. legs \in Seq(Lots) /\ N \in Nat /\ DOMAIN legs = 1..N /\ \A i \in 1..N : legs[i] \in Lots
  BY DEF BookFits
<1>1. CASE same = {}
  <2>1. Netted(legs, leg) = Append(legs, leg)
    BY <1>1 DEF Netted
  <2>2. /\ Append(legs, leg) \in Seq(Lots) /\ DOMAIN Append(legs, leg) = 1..N + 1
        /\ \A i \in 1..N : Append(legs, leg)[i] = legs[i]
        /\ Append(legs, leg)[N + 1] = leg
    BY <1>0
  <2>3. \A i \in 1..N : ~SameContract(legs[i], leg) /\ ~SameContract(leg, legs[i])
    BY <1>0, <1>1 DEF SameContract
  <2>4. \A i \in 1..N + 1 : i \in 1..N \/ i = N + 1
    BY <1>0
  <2>5. \A i, j \in 1..N + 1 : SameContract(Append(legs, leg)[i], Append(legs, leg)[j]) => i = j
    BY <1>0, <2>2, <2>3, <2>4 DEF BookFits
  <2>. QED
    BY <1>0, <2>1, <2>2, <2>4, <2>5 DEF BookFits
<1>2. CASE same # {}
  <2>. DEFINE i == CHOOSE i \in same : TRUE
              net == Signed(legs[i]) + Signed(leg)
  <2>1. i \in 1..N /\ legs[i] \in Lots
    BY <1>0, <1>2
  <2>2. net \in Int
    BY <2>1, LotFields
  <2>3. CASE net = 0
    <3>. DEFINE cut == RemoveAt(legs, i)
    <3>1. Netted(legs, leg) = cut
      BY <1>2, <2>3 DEF Netted
    <3>. HIDE DEF i
    <3>2. /\ cut \in Seq(Lots) /\ Len(cut) = N - 1
          /\ \A k \in 1..N - 1 : cut[k] = legs[IF k < i THEN k ELSE k + 1]
      <4>. DEFINE a == SubSeq(legs, 1, i - 1)
                  b == SubSeq(legs, i + 1, N)
      <4>1. a \in Seq(Lots) /\ Len(a) = i - 1 /\ \A k \in 1..i - 1 : a[k] = legs[k]
        BY <1>0, <2>1
      <4>2. b \in Seq(Lots) /\ Len(b) = N - i /\ \A k \in 1..N - i : b[k] = legs[i + k]
        <5>1. \A k \in i + 1..N : legs[k] \in Lots
          BY <1>0, <2>1
        <5>2. b \in Seq(Lots) /\ Len(b) = IF i + 1 <= N THEN N - (i + 1) + 1 ELSE 0
          BY <1>0, <2>1, <5>1, SubSeqProperties
        <5>3. \A k \in 1..N - i : b[k] = legs[(i + 1) + k - 1] /\ (i + 1) + k - 1 = i + k
          BY <1>0, <2>1, <5>2, SubSeqProperties
        <5>4. N - (i + 1) + 1 = N - i /\ (~(i + 1 <= N) => N - i = 0)
          <6>1. i \in Int /\ N \in Int /\ i <= N
            BY <1>0, <2>1
          <6>. HIDE DEF N
          <6>. QED
            BY <6>1
        <5>5. Len(b) = N - i
          BY <5>2, <5>4
        <5>6. \A k \in 1..N - i : b[k] = legs[i + k]
          BY <5>3
        <5>. QED
          BY <5>2, <5>5, <5>6
      <4>3. cut = a \o b
        BY DEF RemoveAt
      <4>. HIDE DEF a, b, cut
      <4>4. cut \in Seq(Lots) /\ Len(cut) = N - 1
        <5>1. cut \in Seq(Lots)
          BY <4>1, <4>2, <4>3
        <5>2. Len(cut) = Len(a) + Len(b)
          BY <4>1, <4>2, <4>3, ConcatProperties
        <5>. QED
          BY <1>0, <2>1, <4>1, <4>2, <5>1, <5>2
      <4>5. ASSUME NEW k \in 1..N - 1 PROVE cut[k] = legs[IF k < i THEN k ELSE k + 1]
        <5>1. CASE k < i
          <6>1. k \in 1..i - 1
            BY <2>1, <5>1
          <6>2. cut[k] = a[k]
            BY <4>1, <4>2, <4>3, <6>1
          <6>. QED
            BY <4>1, <5>1, <6>1, <6>2
        <5>2. CASE ~(k < i)
          <6>1. k - (i - 1) \in 1..N - i /\ k \in 1..(i - 1) + (N - i) /\ ~(k <= i - 1)
            BY <1>0, <2>1, <5>2
          <6>2. cut[k] = b[k - (i - 1)]
            BY <4>1, <4>2, <4>3, <6>1
          <6>3. i + (k - (i - 1)) = k + 1
            BY <2>1
          <6>. QED
            BY <4>2, <5>2, <6>1, <6>2, <6>3
        <5>. QED
          BY <5>1, <5>2
      <4>. QED
        BY <4>4, <4>5
    <3>. HIDE DEF cut
    <3>3. DOMAIN cut = 1..N - 1
      BY <3>2
    <3>4. \A k \in 1..N - 1 : (IF k < i THEN k ELSE k + 1) \in 1..N
      BY <1>0, <2>1
    <3>5. \A k, m \in 1..N - 1 : (IF k < i THEN k ELSE k + 1) = (IF m < i THEN m ELSE m + 1) => k = m
      BY <1>0, <2>1
    <3>6. \A k \in 1..N - 1 : cut[k].strike \in StrikesTraded
      BY <1>0, <3>2, <3>4 DEF BookFits
    <3>7. ASSUME NEW k \in 1..N - 1, NEW m \in 1..N - 1, SameContract(cut[k], cut[m]) PROVE k = m
      <4>1. PICK x \in 1..N : x = (IF k < i THEN k ELSE k + 1) /\ cut[k] = legs[x]
        BY <3>2, <3>4
      <4>2. PICK y \in 1..N : y = (IF m < i THEN m ELSE m + 1) /\ cut[m] = legs[y]
        BY <3>2, <3>4
      <4>3. x = y
        BY <1>0, <3>7, <4>1, <4>2 DEF BookFits
      <4>. QED
        BY <3>5, <4>1, <4>2, <4>3
    <3>. QED
      BY <3>1, <3>2, <3>3, <3>6, <3>7 DEF BookFits
  <2>4. CASE net # 0
    <3>. DEFINE new == Resized(legs[i], net)
                book == [legs EXCEPT ![i] = new]
    <3>1. Netted(legs, leg) = book
      BY <1>2, <2>4 DEF Netted
    <3>. HIDE DEF i
    <3>2. new \in Lots /\ SameContract(new, legs[i]) /\ SameContract(legs[i], new) /\ new.strike = legs[i].strike
      <4>. DEFINE amount == IF net > 0 THEN net ELSE -net
                  side == IF net > 0 THEN "BUY" ELSE "SELL"
      <4>1. amount \in Nat \ {0} /\ side \in {"BUY", "SELL"}
        BY <2>2, <2>4
      <4>2. new = [legs[i] EXCEPT !.quantity = amount, !.action = side]
        BY DEF Resized
      <4>. HIDE DEF amount, side, net, new
      <4>. QED
        BY <2>1, <4>1, <4>2 DEF Lots, SameContract
    <3>3. DOMAIN book = 1..N /\ book[i] = new /\ \A k \in 1..N : k # i => book[k] = legs[k]
      BY <1>0, <2>1
    <3>4. book \in Seq(Lots)
      <4>. HIDE DEF new
      <4>1. book = [k \in 1..N |-> IF k = i THEN new ELSE legs[k]]
        <5>1. book = [k \in DOMAIN book |-> book[k]]
          BY <1>0
        <5>. HIDE DEF book
        <5>. QED
          BY <3>3, <5>1
      <4>. HIDE DEF book
      <4>. QED
        BY <1>0, <3>2, <4>1
    <3>. HIDE DEF new, book
    <3>5. \A k \in 1..N : book[k].strike = legs[k].strike
      BY <3>2, <3>3
    <3>6. \A k, m \in 1..N : SameContract(book[k], book[m]) <=> SameContract(legs[k], legs[m])
      BY <3>2, <3>3 DEF SameContract
    <3>. QED
      BY <1>0, <3>1, <3>3, <3>4, <3>5, <3>6 DEF BookFits
  <2>. QED
    BY <2>3, <2>4
<1>. QED
  BY <1>1, <1>2

(* So does booking the legs of a trade one after the other.                *)
LEMMA BookedFits ==
    ASSUME NEW legs, BookFits(legs), NEW trade \in Deals
    PROVE  BookFits(Booked(legs, trade))
<1>. DEFINE book(b, n) == IF n <= Len(trade) THEN Netted(b, trade[n]) ELSE b
<1>1. trade \in Seq(Lots) /\ Len(trade) \in 1..4
  BY BookAssumption
<1>2. ASSUME NEW b, BookFits(b), NEW n \in 1..4 PROVE BookFits(book(b, n))
  <2>1. CASE n <= Len(trade)
    <3>1. n \in DOMAIN trade /\ trade[n] \in Lots
      BY <1>1, <2>1
    <3>2. trade[n].strike \in StrikesTraded
      BY <3>1 DEF StrikesTraded
    <3>. QED
      BY <1>2, <2>1, <3>1, <3>2, NettedFits
  <2>. QED
    BY <1>2, <2>1
<1>3. Booked(legs, trade) = book(book(book(book(legs, 1), 2), 3), 4)
  BY DEF Booked
<1>. HIDE DEF book
<1>4. BookFits(book(legs, 1))
  BY <1>2
<1>5. BookFits(book(book(legs, 1), 2))
  BY <1>2, <1>4
<1>6. BookFits(book(book(book(legs, 1), 2), 3))
  BY <1>2, <1>5
<1>. QED
  BY <1>2, <1>3, <1>6

(* The broker keeps one position per contract, of the strikes traded,      *)
(* whatever trades are opened on the same legs.                            *)
THEOREM BookTypeHolds == BookSpec => []BookTypeOK
<1>0. MaxDeals \in Nat
  BY BookAssumption, Zenon
<1>1. BookInit => BookTypeOK
  <2>1. <<>> \in Seq(Lots) /\ DOMAIN <<>> = {} /\ 0 \in 0..MaxDeals
    BY <1>0
  <2>. QED
    BY <2>1, Zenon DEF BookInit, BookTypeOK
<1>2. BookTypeOK /\ [BookNext]_bookVars => BookTypeOK'
  <2>. SUFFICES ASSUME BookTypeOK, [BookNext]_bookVars PROVE BookTypeOK'
    OBVIOUS
  <2>1. CASE UNCHANGED bookVars
    BY <2>1 DEF bookVars, BookTypeOK
  <2>2. CASE OpenTrade
    <3>1. BookFits(held)
      BY DEF BookTypeOK, BookFits
    <3>2. BookFits(held')
      BY <2>2, <3>1, BookedFits DEF OpenTrade
    <3>3. opened' \in 0..MaxDeals
      BY <1>0, <2>2 DEF OpenTrade, BookTypeOK
    <3>. QED
      BY <3>2, <3>3 DEF BookTypeOK, BookFits
  <2>. QED
    BY <2>1, <2>2 DEF BookNext
<1>. QED
  BY <1>1, <1>2, PTL DEF BookSpec

-----------------------------------------------------------------------------
(* Each leg in one summary.                                                *)

(* The places of legs are finitely many, and their legs are lots.          *)
LEMMA PlacesFit ==
    ASSUME BookTypeOK, NEW S \in SUBSET DOMAIN held
    PROVE  /\ IsFiniteSet(S) /\ S \subseteq Nat
           /\ \A i \in S : held[i] \in Lots /\ held[i].strike \in Nat /\ held[i].quantity \in Nat \ {0}
           /\ \A i \in S : held[i].kind \in {"CALL", "PUT"} /\ held[i].action \in {"BUY", "SELL"}
           /\ \A i \in S : held[i].strike \in StrikesTraded
<1>1. held \in Seq(Lots) /\ Len(held) \in Nat /\ DOMAIN held = 1..Len(held)
  BY DEF BookTypeOK
<1>2. IsFiniteSet(DOMAIN held)
  BY <1>1, FS_Interval
<1>3. IsFiniteSet(S) /\ S \subseteq Nat
  BY <1>1, <1>2, FS_Subset
<1>4. \A i \in S : held[i] \in Lots
  BY <1>1
<1>. QED
  BY <1>3, <1>4, LotFields DEF BookTypeOK

(* The nearest long leg is one of those that are free.                     *)
LEMMA NearestIsFree ==
    ASSUME BookTypeOK, NEW longs \in SUBSET DOMAIN held, longs # {}, NEW s \in DOMAIN held
    PROVE  NearestLong(s, longs) \in longs
<1>. DEFINE near(i) == Distance(held[i].strike, held[s].strike)
            Before(j, i) == near(j) < near(i) \/ (near(j) = near(i) /\ j < i)
            before == [i \in longs |-> {j \in longs : Before(j, i)}]
<1>1. \A i \in longs : near(i) \in Int /\ i \in Int
  <2>1. \A a, b \in Nat : Distance(a, b) \in Int
    BY DEF Distance
  <2>2. \A i \in longs : held[i].strike \in Nat /\ i \in Nat
    BY PlacesFit
  <2>3. held[s].strike \in Nat
    BY PlacesFit
  <2>. QED
    BY <2>1, <2>2, <2>3
<1>2. /\ \A i \in longs : ~Before(i, i)
      /\ \A i, j \in longs : i # j => Before(i, j) \/ Before(j, i)
      /\ \A i, j, k \in longs : Before(i, j) /\ Before(k, i) => Before(k, j)
      /\ \A i, j \in longs : ~Before(j, i) => near(i) < near(j) \/ (near(i) = near(j) /\ i <= j)
  <2>. HIDE DEF near
  <2>. QED
    BY <1>1
<1>3. before \in [longs -> SUBSET longs] /\ \A i, j \in longs : j \in before[i] <=> Before(j, i)
  OBVIOUS
<1>4. IsFiniteSet(longs)
  BY PlacesFit
<1>5. Cardinality(longs) \in Nat \ {0}
  BY <1>4, FS_CardinalityType, FS_EmptySet
<1>6. \A n \in 1..Cardinality(longs) : \E i \in longs : Cardinality(before[i]) = n - 1
  <2>. HIDE DEF before, Before
  <2>1. /\ \A i \in longs : i \notin before[i]
        /\ \A i, j \in longs : i # j => i \in before[j] \/ j \in before[i]
        /\ \A i, j \in longs : i \in before[j] => before[i] \subseteq before[j]
    BY <1>2, <1>3, Zenon
  <2>. QED
    BY <1>3, <1>4, <2>1, Ranks
<1>7. PICK l \in longs : Cardinality(before[l]) = 0
  <2>1. 1 \in 1..Cardinality(longs) /\ 1 - 1 = 0
    BY <1>5
  <2>. HIDE DEF before
  <2>. QED
    BY <1>6, <2>1
<1>8. before[l] = {}
  <2>1. IsFiniteSet(before[l])
    BY <1>3, <1>4, FS_Subset
  <2>. HIDE DEF before
  <2>. QED
    BY <1>7, <2>1, FS_EmptySet
<1>9. \A k \in longs : near(l) < near(k) \/ (near(l) = near(k) /\ l <= k)
  <2>. HIDE DEF before, Before, near
  <2>. QED
    BY <1>2, <1>3, <1>8
<1>. QED
  BY <1>9 DEF NearestLong

(* The sets of a collection have no element in common.                     *)
Apart(V) == \A A, B \in V : A \cap B # {} => A = B

(* No leg is in two verticals, and each has a short and a long leg of its  *)
(* kind.                                                                   *)
LEMMA VerticalsApart ==
    ASSUME BookTypeOK, NEW S \in SUBSET DOMAIN held, NEW kind
    PROVE  /\ VerticalSummaries(S, kind) \subseteq SUBSET S
           /\ Apart(VerticalSummaries(S, kind))
           /\ \A A \in VerticalSummaries(S, kind) :
                \E s \in Legs(S, kind, "SELL"), l \in Legs(S, kind, "BUY") : A = {s, l}
<1>. DEFINE shorts == Legs(S, kind, "SELL")
            N == Cardinality(shorts)
            o == ByStrike(shorts)
            T == SUBSET SUBSET S
            step == [n \in 1..N |-> [t \in T |-> WithVertical(t, o[n], S, kind)]]
            taken == CHOOSE f : f = [n \in 0..N |-> IF n = 0 THEN {}
                                                    ELSE WithVertical(f[n - 1], o[n], S, kind)]
<1>1. shorts \subseteq S /\ shorts \in SUBSET DOMAIN held /\ Legs(S, kind, "BUY") \in SUBSET DOMAIN held
  BY DEF Legs
<1>2. N \in Nat /\ Lists(o, shorts)
  <2>1. IsFiniteSet(shorts) /\ shorts \subseteq Nat /\ \A i \in shorts : held[i].strike \in Nat
    BY <1>1, PlacesFit
  <2>. QED
    BY <2>1, ByStrikeLists
<1>3. ASSUME NEW t \in T, NEW s \in shorts
      PROVE  /\ WithVertical(t, s, S, kind) = t
                \/ \E l \in Legs(S, kind, "BUY") \ UNION t : WithVertical(t, s, S, kind) = t \cup {{s, l}}
             /\ WithVertical(t, s, S, kind) \in T
  <2>. DEFINE longs == Legs(S, kind, "BUY") \ UNION t
  <2>1. longs \in SUBSET DOMAIN held /\ longs \subseteq S /\ s \in DOMAIN held
    BY <1>1 DEF Legs
  <2>2. CASE longs = {}
    BY <2>2 DEF WithVertical
  <2>3. CASE longs # {}
    <3>1. NearestLong(s, longs) \in longs
      BY <2>1, <2>3, NearestIsFree
    <3>2. WithVertical(t, s, S, kind) = t \cup {{s, NearestLong(s, longs)}}
      BY <2>3 DEF WithVertical
    <3>3. {s, NearestLong(s, longs)} \subseteq S
      BY <1>1, <2>1, <3>1
    <3>. QED
      BY <3>1, <3>2, <3>3
  <2>. QED
    BY <2>2, <2>3
<1>4. /\ taken[0] = {}
      /\ \A n \in 1..N : taken[n] = WithVertical(taken[n - 1], o[n], S, kind)
  <2>1. step \in [1..N -> [T -> T]]
    <3>1. \A n \in 1..N : o[n] \in shorts
      BY <1>2 DEF Lists
    <3>2. \A n \in 1..N : \A t \in T : WithVertical(t, o[n], S, kind) \in T
      BY <1>3, <3>1
    <3>3. \A n \in 1..N : [t \in T |-> WithVertical(t, o[n], S, kind)] \in [T -> T]
      BY <3>2
    <3>. QED
      BY <3>3
  <2>9. PICK f \in [0..N -> T] : Stepwise(f, N, {}, step)
    <3>. HIDE DEF step, T, N
    <3>1. {} \in T
      BY DEF T
    <3>. QED
      BY <1>2, <2>1, <3>1, Recursion
  <2>2. f[0] = {} /\ \A n \in 1..N : f[n] = step[n][f[n - 1]]
    BY <2>9 DEF Stepwise
  <2>3. ASSUME NEW n \in 0..N
        PROVE  f[n] = IF n = 0 THEN {} ELSE WithVertical(f[n - 1], o[n], S, kind)
    <3>1. CASE n # 0
      <4>1. n \in 1..N /\ f[n - 1] \in T
        BY <1>2, <3>1
      <4>. QED
        BY <2>2, <3>1, <4>1
    <3>. QED
      BY <2>2, <3>1
  <2>4. f = [n \in 0..N |-> IF n = 0 THEN {} ELSE WithVertical(f[n - 1], o[n], S, kind)]
    <3>1. f = [n \in 0..N |-> f[n]]
      OBVIOUS
    <3>. HIDE DEF o, N, T
    <3>. QED
      BY <2>3, <3>1
  <2>5. taken = [n \in 0..N |-> IF n = 0 THEN {} ELSE WithVertical(taken[n - 1], o[n], S, kind)]
    BY <2>4, Zenon
  <2>. HIDE DEF taken, o, N
  <2>6. \A n \in 1..N : n \in 0..N /\ n # 0
    BY <1>2
  <2>7. 0 \in 0..N
    BY <1>2
  <2>. QED
    BY <2>5, <2>6, <2>7
<1>5. VerticalSummaries(S, kind) = taken[N]
  BY Zenon DEF VerticalSummaries
<1>. DEFINE Placed(n) == /\ taken[n] \in T /\ Apart(taken[n])
                         /\ \A A \in taken[n] : \E k \in 1..n, l \in Legs(S, kind, "BUY") : A = {o[k], l}
            Q == {n \in 0..N : Placed(n)}
<1>6. 0 \in Q
  <2>1. 0 \in 0..N
    BY <1>2
  <2>. HIDE DEF taken, N
  <2>. QED
    BY <1>4, <2>1 DEF Apart
<1>7. ASSUME NEW n \in 1..N, n - 1 \in Q PROVE n \in Q
  <2>. DEFINE t == taken[n - 1]
  <2>0. Placed(n - 1) /\ n \in 0..N /\ n - 1 \in Nat /\ n \in Nat /\ N \in Nat
    BY <1>2, <1>7
  <2>1. o[n] \in shorts
    BY <1>2 DEF Lists
  <2>2. taken[n] = WithVertical(t, o[n], S, kind)
    BY <1>4
  <2>. HIDE DEF taken
  <2>3. t \in T /\ taken[n] \in T
    BY <1>3, <2>0, <2>1, <2>2
  <2>4. \A k \in 1..n - 1 : k \in 1..n /\ k \in 1..N /\ o[k] # o[n]
    BY <1>2, <2>0 DEF Lists
  <2>5. CASE taken[n] = t
    BY <2>0, <2>3, <2>4, <2>5
  <2>6. CASE \E l \in Legs(S, kind, "BUY") \ UNION t : taken[n] = t \cup {{o[n], l}}
    <3>1. PICK l \in Legs(S, kind, "BUY") \ UNION t : taken[n] = t \cup {{o[n], l}}
      BY <2>6
    <3>2. \A k \in Legs(S, kind, "BUY") : k # o[n]
      BY <2>1 DEF Legs
    <3>3. o[n] \notin UNION t
      BY <2>0, <2>4, <3>2
    <3>4. Apart(taken[n])
      <4>1. l \notin UNION t
        BY <3>1
      <4>2. \A A \in t : A \cap {o[n], l} = {}
        BY <3>3, <4>1
      <4>3. Apart(t)
        BY <2>0
      <4>. HIDE DEF t, o
      <4>. QED
        BY <3>1, <4>2, <4>3 DEF Apart
    <3>5. n \in 1..n
      BY <2>0
    <3>6. \A A \in taken[n] : \E k \in 1..n, m \in Legs(S, kind, "BUY") : A = {o[k], m}
      BY <2>0, <2>4, <3>1, <3>5
    <3>. QED
      BY <2>0, <2>3, <3>4, <3>6
  <2>. QED
    BY <1>3, <2>1, <2>2, <2>3, <2>5, <2>6
<1>8. Placed(N)
  <2>1. 0..N \subseteq Q
    <3>. HIDE DEF Q, N
    <3>. QED
      BY <1>2, <1>6, <1>7, Steps
  <2>2. N \in 0..N
    BY <1>2
  <2>. QED
    BY <2>1, <2>2
<1>9. \A k \in 1..N : o[k] \in shorts
  BY <1>2 DEF Lists
<1>. HIDE DEF taken, o, N
<1>. QED
  BY <1>5, <1>8, <1>9

(* No leg is in two debit combinations of an expiration.                   *)
LEMMA DebitsApart ==
    ASSUME BookTypeOK, NEW S \in SUBSET DOMAIN held
    PROVE  /\ DebitSummaries(S) \subseteq SUBSET S
           /\ Apart(DebitSummaries(S))
           /\ \A A \in DebitSummaries(S) : IsCombination(A)
<1>. DEFINE shorts == Legs(S, "CALL", "SELL")
            N == Cardinality(shorts)
            o == InOrder(shorts)
            T == SUBSET SUBSET S
            step == [n \in 1..N |-> [t \in T |-> WithButterfly(t, o[n], S)]]
            taken == CHOOSE f : f = [n \in 0..N |-> IF n = 0 THEN {}
                                                    ELSE WithButterfly(f[n - 1], o[n], S)]
<1>1. shorts \subseteq S /\ shorts \in SUBSET DOMAIN held /\ Legs(S, "CALL", "BUY") \subseteq S
  BY DEF Legs
<1>2. N \in Nat /\ Lists(o, shorts)
  <2>1. IsFiniteSet(shorts) /\ shorts \subseteq Nat
    BY <1>1, PlacesFit
  <2>. QED
    BY <2>1, InOrderLists
<1>3. ASSUME NEW t \in T, NEW m \in shorts
      PROVE  /\ WithButterfly(t, m, S) = t
                \/ \E B \in SUBSET S : /\ IsDebit("butterfly", B) /\ B \cap UNION t = {}
                                       /\ WithButterfly(t, m, S) = t \cup {B}
             /\ WithButterfly(t, m, S) \in T
  <2>. DEFINE around == ButterfliesAround(m, S, t)
  <2>1. around \subseteq SUBSET S /\ \A B \in around : IsDebit("butterfly", B) /\ B \cap UNION t = {}
    BY <1>1 DEF ButterfliesAround
  <2>2. IsFiniteSet(around)
    <3>1. IsFiniteSet(S)
      BY PlacesFit
    <3>2. IsFiniteSet(SUBSET S)
      BY <3>1, FS_SUBSET
    <3>. HIDE DEF around
    <3>. QED
      BY <2>1, <3>2, FS_Subset
  <2>3. CASE Cardinality(around) = 1
    <3>1. PICK B : around = {B}
      BY <2>2, <2>3, FS_Singleton
    <3>2. WithButterfly(t, m, S) = t \cup around
      BY <2>3 DEF WithButterfly
    <3>. QED
      BY <2>1, <3>1, <3>2
  <2>4. CASE Cardinality(around) # 1
    BY <2>4 DEF WithButterfly
  <2>. QED
    BY <2>3, <2>4
<1>4. /\ taken[0] = {}
      /\ \A n \in 1..N : taken[n] = WithButterfly(taken[n - 1], o[n], S)
  <2>1. step \in [1..N -> [T -> T]]
    <3>1. \A n \in 1..N : o[n] \in shorts
      BY <1>2 DEF Lists
    <3>2. \A n \in 1..N : \A t \in T : WithButterfly(t, o[n], S) \in T
      BY <1>3, <3>1
    <3>3. \A n \in 1..N : [t \in T |-> WithButterfly(t, o[n], S)] \in [T -> T]
      BY <3>2
    <3>. QED
      BY <3>3
  <2>2. PICK f \in [0..N -> T] : Stepwise(f, N, {}, step)
    <3>. HIDE DEF step, T, N
    <3>1. {} \in T
      BY DEF T
    <3>. QED
      BY <1>2, <2>1, <3>1, Recursion
  <2>3. f[0] = {} /\ \A n \in 1..N : f[n] = step[n][f[n - 1]]
    BY <2>2 DEF Stepwise
  <2>4. ASSUME NEW n \in 0..N
        PROVE  f[n] = IF n = 0 THEN {} ELSE WithButterfly(f[n - 1], o[n], S)
    <3>1. CASE n # 0
      <4>1. n \in 1..N /\ f[n - 1] \in T
        BY <1>2, <3>1
      <4>. QED
        BY <2>3, <3>1, <4>1
    <3>. QED
      BY <2>3, <3>1
  <2>5. f = [n \in 0..N |-> IF n = 0 THEN {} ELSE WithButterfly(f[n - 1], o[n], S)]
    <3>1. f = [n \in 0..N |-> f[n]]
      OBVIOUS
    <3>. HIDE DEF o, N, T
    <3>. QED
      BY <2>4, <3>1
  <2>6. taken = [n \in 0..N |-> IF n = 0 THEN {} ELSE WithButterfly(taken[n - 1], o[n], S)]
    BY <2>5, Zenon
  <2>. HIDE DEF taken, o, N
  <2>7. \A n \in 1..N : n \in 0..N /\ n # 0
    BY <1>2
  <2>8. 0 \in 0..N
    BY <1>2
  <2>. QED
    BY <2>6, <2>7, <2>8
<1>5. DebitSummaries(S) = IF IsCombination(S) THEN {S} ELSE taken[N]
  BY Zenon DEF DebitSummaries
<1>. DEFINE Placed(n) == /\ taken[n] \in T /\ Apart(taken[n])
                         /\ \A A \in taken[n] : IsDebit("butterfly", A)
            Q == {n \in 0..N : Placed(n)}
<1>6. 0 \in Q
  <2>1. 0 \in 0..N
    BY <1>2
  <2>. HIDE DEF taken, N
  <2>. QED
    BY <1>4, <2>1 DEF Apart
<1>7. ASSUME NEW n \in 1..N, n - 1 \in Q PROVE n \in Q
  <2>. DEFINE t == taken[n - 1]
  <2>0. Placed(n - 1) /\ n \in 0..N
    BY <1>2, <1>7
  <2>1. o[n] \in shorts
    BY <1>2 DEF Lists
  <2>2. taken[n] = WithButterfly(t, o[n], S)
    BY <1>4
  <2>. HIDE DEF taken
  <2>3. t \in T /\ taken[n] \in T
    BY <1>3, <2>0, <2>1, <2>2
  <2>5. CASE taken[n] = t
    BY <2>0, <2>5
  <2>6. CASE \E B \in SUBSET S : IsDebit("butterfly", B) /\ B \cap UNION t = {} /\ taken[n] = t \cup {B}
    <3>1. PICK B \in SUBSET S : IsDebit("butterfly", B) /\ B \cap UNION t = {} /\ taken[n] = t \cup {B}
      BY <2>6
    <3>2. Apart(taken[n])
      <4>1. Apart(t)
        BY <2>0
      <4>2. \A A \in t : A \cap B = {} /\ B \cap A = {}
        BY <3>1
      <4>. HIDE DEF t
      <4>. QED
        BY <3>1, <4>1, <4>2 DEF Apart
    <3>. QED
      BY <2>0, <2>3, <3>1, <3>2
  <2>. QED
    BY <1>3, <2>1, <2>2, <2>3, <2>5, <2>6
<1>8. Placed(N)
  <2>1. 0..N \subseteq Q
    <3>. HIDE DEF Q, N
    <3>. QED
      BY <1>2, <1>6, <1>7, Steps
  <2>2. N \in 0..N
    BY <1>2
  <2>. QED
    BY <2>1, <2>2
<1>. HIDE DEF taken, o, N
<1>9. Apart({S})
  BY DEF Apart
<1>. QED
  BY <1>5, <1>8, <1>9 DEF IsCombination

(* Four by four as listed, every leg is in one four.                       *)
LEMMA FoursApart ==
    ASSUME BookTypeOK, NEW S \in SUBSET DOMAIN held, WholeCondors(S)
    PROVE  UNION Fours(S) = S /\ Apart(Fours(S))
<1>. DEFINE N == Cardinality(S)
            o == InOrder(S)
            Four(b) == {o[4 * b + n] : n \in 1..4}
<1>1. N \in Nat /\ Lists(o, S) /\ N > 0 /\ N % 4 = 0
  BY PlacesFit, InOrderLists DEF WholeCondors
<1>2. N \div 4 \in Nat /\ N = 4 * (N \div 4)
  <2>. HIDE DEF N
  <2>. QED
    BY <1>1
<1>3. Fours(S) = {Four(b) : b \in 0..(N \div 4) - 1}
  BY DEF Fours
<1>4. ASSUME NEW b \in 0..(N \div 4) - 1, NEW n \in 1..4 PROVE 4 * b + n \in 1..N
  <2>. DEFINE q == N \div 4
  <2>1. q \in Nat /\ N = 4 * q /\ b \in 0..q - 1
    BY <1>2
  <2>. HIDE DEF q, N
  <2>. QED
    BY <2>1
<1>5. ASSUME NEW i \in S PROVE \E b \in 0..(N \div 4) - 1 : i \in Four(b)
  <2>1. PICK m \in 1..N : o[m] = i
    BY <1>1 DEF Lists
  <2>. DEFINE b == (m - 1) \div 4
              n == m - 4 * b
              q == N \div 4
  <2>2. b \in 0..q - 1 /\ n \in 1..4 /\ 4 * b + n = m
    <3>1. q \in Nat /\ N = 4 * q
      BY <1>2
    <3>. HIDE DEF q, N
    <3>. QED
      BY <3>1
  <2>. HIDE DEF b, n
  <2>. QED
    BY <2>1, <2>2
<1>6. ASSUME NEW b \in 0..(N \div 4) - 1, NEW c \in 0..(N \div 4) - 1, Four(b) \cap Four(c) # {}
      PROVE  b = c
  <2>1. PICK n \in 1..4, m \in 1..4 : o[4 * b + n] = o[4 * c + m]
    BY <1>6
  <2>2. 4 * b + n = 4 * c + m
    BY <1>1, <1>4, <2>1 DEF Lists
  <2>3. b \in Int /\ c \in Int
    BY <1>2
  <2>. QED
    BY <2>2, <2>3
<1>7. \A b \in 0..(N \div 4) - 1 : Four(b) \subseteq S
  <2>. SUFFICES ASSUME NEW b \in 0..(N \div 4) - 1, NEW n \in 1..4 PROVE o[4 * b + n] \in S
    OBVIOUS
  <2>1. 4 * b + n \in 1..N
    BY <1>4
  <2>2. o \in [1..N -> S]
    BY <1>1 DEF Lists
  <2>. HIDE DEF o, N
  <2>. QED
    BY <2>1, <2>2
<1>8. UNION Fours(S) = S
  BY <1>3, <1>5, <1>7
<1>9. Apart(Fours(S))
  <2>. SUFFICES ASSUME NEW A \in Fours(S), NEW B \in Fours(S), A \cap B # {} PROVE A = B
    BY DEF Apart
  <2>1. PICK b \in 0..(N \div 4) - 1, c \in 0..(N \div 4) - 1 : A = Four(b) /\ B = Four(c)
    BY <1>3
  <2>. QED
    BY <1>6, <2>1
<1>. QED
  BY <1>8, <1>9

(* Legs of one expiration and one quantity.                                *)
LegsAlike(S) == \A i, j \in S : held[i].quantity = held[j].quantity /\ held[i].expiry = held[j].expiry

(* The forms of a summary.                                                 *)
IsPair(A) == \E kind \in {"PUT", "CALL"} :
                 \E s \in Legs(A, kind, "SELL"), l \in Legs(A, kind, "BUY") : A = {s, l}
IsShape(A) ==
    \/ IsCombination(A)
    \/ LegsAlike(A) /\ (IsCondor(A) \/ IsPair(A))
    \/ \E i \in A : A = {i}

(* The union of two collections.                                           *)
LEMMA UnionOfBoth ==
    ASSUME NEW X, NEW Y
    PROVE  UNION (X \cup Y) = (UNION X) \cup (UNION Y)
<1>1. ASSUME NEW i \in UNION (X \cup Y) PROVE i \in (UNION X) \cup (UNION Y)
  <2>1. PICK A \in X \cup Y : i \in A
    OBVIOUS
  <2>2. i \in UNION X \/ i \in UNION Y
    BY <2>1
  <2>. QED
    BY <2>2
<1>2. ASSUME NEW i \in (UNION X) \cup (UNION Y) PROVE i \in UNION (X \cup Y)
  <2>1. CASE i \in UNION X
    BY <2>1
  <2>2. CASE i \in UNION Y
    BY <2>2
  <2>. QED
    BY <2>1, <2>2
<1>. DEFINE L == UNION (X \cup Y)
            R == (UNION X) \cup (UNION Y)
<1>3. L \subseteq R /\ R \subseteq L
  BY <1>1, <1>2
<1>. HIDE DEF L, R
<1>4. L = R
  BY <1>3
<1>. QED
  BY <1>4 DEF L, R

(* Part of such legs are such legs.                                        *)
LEMMA LegsWithin ==
    ASSUME NEW S, NEW A \in SUBSET S, LegsAlike(S)
    PROVE  LegsAlike(A)
BY DEF LegsAlike

(* The legs of one expiration and quantity, each in one summary.           *)
LEMMA GroupCovered ==
    ASSUME BookTypeOK, NEW S \in SUBSET DOMAIN held, LegsAlike(S)
    PROVE  /\ UNION GroupSummaries(S) = S
           /\ Apart(GroupSummaries(S))
           /\ \A A \in GroupSummaries(S) : A \in SUBSET S /\ IsShape(A)
<1>1. CASE WholeCondors(S)
  <2>1. GroupSummaries(S) = Fours(S) /\ UNION Fours(S) = S /\ Apart(Fours(S))
    BY <1>1, FoursApart DEF GroupSummaries
  <2>2. ASSUME NEW A \in Fours(S) PROVE A \in SUBSET S /\ IsShape(A)
    <3>1. A \in SUBSET S
      BY <2>1
    <3>2. IsDebit("reverse_iron_condor", A) \/ IsCondor(A)
      BY <1>1 DEF WholeCondors
    <3>. QED
      BY <3>1, <3>2, LegsWithin DEF IsShape, IsCombination
  <2>. QED
    BY <2>1, <2>2
<1>2. CASE ~WholeCondors(S)
  <2>. DEFINE puts == VerticalSummaries(S, "PUT")
              calls == VerticalSummaries(S, "CALL")
              pairs == puts \cup calls
              singles == {{i} : i \in S \ UNION pairs}
  <2>1. GroupSummaries(S) = pairs \cup singles
    BY <1>2 DEF GroupSummaries
  <2>2. /\ puts \subseteq SUBSET S /\ Apart(puts)
        /\ \A A \in puts : \E s \in Legs(S, "PUT", "SELL"), l \in Legs(S, "PUT", "BUY") : A = {s, l}
    BY VerticalsApart
  <2>3. /\ calls \subseteq SUBSET S /\ Apart(calls)
        /\ \A A \in calls : \E s \in Legs(S, "CALL", "SELL"), l \in Legs(S, "CALL", "BUY") : A = {s, l}
    BY VerticalsApart
  <2>. HIDE DEF puts, calls
  <2>4. \A A \in puts : \A i \in A : held[i].kind = "PUT"
    BY <2>2 DEF Legs
  <2>5. \A A \in calls : \A i \in A : held[i].kind = "CALL"
    BY <2>3 DEF Legs
  <2>6. \A A \in puts, B \in calls : A \cap B = {} /\ B \cap A = {}
    BY <2>4, <2>5
  <2>7. Apart(pairs)
    BY <2>2, <2>3, <2>6 DEF Apart
  <2>8. UNION (pairs \cup singles) = S
    <3>1. UNION pairs \subseteq S
      BY <2>2, <2>3
    <3>2. UNION singles = S \ UNION pairs
      OBVIOUS
    <3>3. UNION (pairs \cup singles) = (UNION pairs) \cup (UNION singles)
      BY UnionOfBoth
    <3>. HIDE DEF pairs, singles
    <3>. QED
      BY <3>1, <3>2, <3>3
  <2>9. Apart(pairs \cup singles)
    <3>1. \A A \in pairs, B \in singles : A \cap B = {} /\ B \cap A = {}
      OBVIOUS
    <3>2. Apart(singles)
      <4>. SUFFICES ASSUME NEW A \in singles, NEW B \in singles, A \cap B # {} PROVE A = B
        BY DEF Apart
      <4>1. PICK i, j : A = {i} /\ B = {j}
        OBVIOUS
      <4>2. i = j
        BY <4>1
      <4>. QED
        BY <4>1, <4>2
    <3>. HIDE DEF pairs, singles
    <3>. QED
      BY <2>7, <3>1, <3>2 DEF Apart
  <2>10. ASSUME NEW A \in pairs PROVE A \in SUBSET S /\ IsShape(A)
    <3>1. A \in SUBSET S
      BY <2>2, <2>3
    <3>2. IsPair(A)
      <4>0. PICK kind \in {"PUT", "CALL"} :
                \E s \in Legs(S, kind, "SELL"), l \in Legs(S, kind, "BUY") : A = {s, l}
        BY <2>2, <2>3
      <4>1. PICK s \in Legs(S, kind, "SELL"), l \in Legs(S, kind, "BUY") : A = {s, l}
        BY <4>0
      <4>2. s \in Legs(A, kind, "SELL") /\ l \in Legs(A, kind, "BUY")
        BY <4>1 DEF Legs
      <4>. QED
        BY <4>1, <4>2 DEF IsPair
    <3>. QED
      BY <3>1, <3>2, LegsWithin DEF IsShape
  <2>11. ASSUME NEW A \in singles PROVE A \in SUBSET S /\ IsShape(A)
    BY DEF IsShape
  <2>. HIDE DEF pairs, singles
  <2>. QED
    BY <2>1, <2>8, <2>9, <2>10, <2>11
<1>. QED
  BY <1>1, <1>2

(* Every leg is in one summary, and a summary has one of the forms.        *)
LEMMA SummariesCover ==
    ASSUME BookTypeOK
    PROVE  /\ UNION Summaries = DOMAIN held
           /\ Apart(Summaries)
           /\ \A A \in Summaries : A \in SUBSET DOMAIN held /\ IsShape(A)
<1>. DEFINE D == DOMAIN held
            Expiring(e) == {i \in D : held[i].expiry = e}
            debits == UNION {DebitSummaries(Expiring(e)) : e \in {held[i].expiry : i \in D}}
            rest == D \ UNION debits
            Group(e, q) == {i \in rest : held[i].expiry = e /\ held[i].quantity = q}
            groups == {GroupSummaries(Group(held[i].expiry, held[i].quantity)) : i \in rest}
<1>1. Summaries = debits \cup UNION groups
  BY DEF Summaries
<1>2. \A A \in debits : \E e \in {held[i].expiry : i \in D} : A \in DebitSummaries(Expiring(e))
  OBVIOUS
<1>3. ASSUME NEW e
      PROVE  /\ DebitSummaries(Expiring(e)) \subseteq SUBSET Expiring(e)
             /\ Apart(DebitSummaries(Expiring(e)))
             /\ \A A \in DebitSummaries(Expiring(e)) : IsCombination(A)
  <2>1. Expiring(e) \in SUBSET DOMAIN held
    OBVIOUS
  <2>. HIDE DEF Expiring
  <2>. QED
    BY <2>1, DebitsApart
<1>4. /\ debits \subseteq SUBSET D /\ \A A \in debits : IsShape(A)
      /\ \A A, B \in debits : A \cap B # {} => A = B
  <2>1. ASSUME NEW A \in debits PROVE A \in SUBSET D /\ IsShape(A)
    <3>1. PICK e : A \in DebitSummaries(Expiring(e))
      BY <1>2
    <3>2. A \subseteq Expiring(e) /\ IsCombination(A)
      <4>. HIDE DEF Expiring
      <4>. QED
        BY <1>3, <3>1
    <3>. QED
      BY <3>2 DEF IsShape
  <2>2. ASSUME NEW A \in debits, NEW B \in debits, A \cap B # {} PROVE A = B
    <3>1. PICK e : A \in DebitSummaries(Expiring(e))
      BY <1>2
    <3>2. PICK f : B \in DebitSummaries(Expiring(f))
      BY <1>2
    <3>3. A \subseteq Expiring(e) /\ B \subseteq Expiring(f)
      <4>. HIDE DEF Expiring
      <4>. QED
        BY <1>3, <3>1, <3>2
    <3>4. e = f
      BY <2>2, <3>3
    <3>. HIDE DEF Expiring
    <3>. QED
      BY <1>3, <2>2, <3>1, <3>2, <3>4 DEF Apart
  <2>. HIDE DEF debits
  <2>. QED
    BY <2>1, <2>2
<1>. HIDE DEF debits
<1>5. ASSUME NEW e, NEW q
      PROVE  /\ UNION GroupSummaries(Group(e, q)) = Group(e, q)
             /\ Apart(GroupSummaries(Group(e, q)))
             /\ \A A \in GroupSummaries(Group(e, q)) : A \in SUBSET Group(e, q) /\ IsShape(A)
  <2>1. Group(e, q) \in SUBSET DOMAIN held /\ LegsAlike(Group(e, q))
    BY DEF LegsAlike
  <2>. HIDE DEF Group
  <2>. QED
    BY <2>1, GroupCovered
<1>6. \A A \in UNION groups : \E i \in rest : A \in GroupSummaries(Group(held[i].expiry, held[i].quantity))
  <2>. HIDE DEF Group, rest
  <2>. QED
    OBVIOUS
<1>7. \A i \in rest : i \in UNION UNION groups
  <2>1. ASSUME NEW i \in rest PROVE \E A \in UNION groups : i \in A
    <3>. DEFINE V == GroupSummaries(Group(held[i].expiry, held[i].quantity))
    <3>1. i \in Group(held[i].expiry, held[i].quantity)
      OBVIOUS
    <3>2. i \in UNION V
      <4>. HIDE DEF Group
      <4>. QED
        BY <1>5, <3>1
    <3>3. V \in groups
      OBVIOUS
    <3>. HIDE DEF V, groups
    <3>. QED
      BY <3>2, <3>3
  <2>. QED
    BY <2>1
<1>8. ASSUME NEW A \in UNION groups PROVE A \in SUBSET rest /\ IsShape(A)
  <2>1. PICK i \in rest : A \in GroupSummaries(Group(held[i].expiry, held[i].quantity))
    BY <1>6
  <2>2. IsShape(A) /\ A \subseteq Group(held[i].expiry, held[i].quantity)
    <3>. HIDE DEF Group
    <3>. QED
      BY <1>5, <2>1
  <2>. QED
    BY <2>2
<1>9. ASSUME NEW A \in UNION groups, NEW B \in UNION groups, A \cap B # {} PROVE A = B
  <2>1. PICK i \in rest : A \in GroupSummaries(Group(held[i].expiry, held[i].quantity))
    BY <1>6
  <2>2. PICK j \in rest : B \in GroupSummaries(Group(held[j].expiry, held[j].quantity))
    BY <1>6
  <2>3. A \subseteq Group(held[i].expiry, held[i].quantity) /\ B \subseteq Group(held[j].expiry, held[j].quantity)
    <3>. HIDE DEF Group
    <3>. QED
      BY <1>5, <2>1, <2>2
  <2>4. held[i].expiry = held[j].expiry /\ held[i].quantity = held[j].quantity
    BY <1>9, <2>3
  <2>. HIDE DEF Group
  <2>. QED
    BY <1>5, <1>9, <2>1, <2>2, <2>4 DEF Apart
<1>10. \A A \in debits, B \in UNION groups : A \cap B = {} /\ B \cap A = {}
  <2>. HIDE DEF groups
  <2>. QED
    BY <1>8
<1>11. UNION Summaries = DOMAIN held
  <2>1. \A i \in D : i \in UNION debits \/ i \in UNION UNION groups
    <3>. HIDE DEF groups
    <3>. QED
      BY <1>7
  <2>2. UNION UNION groups \subseteq D /\ UNION debits \subseteq D
    <3>. HIDE DEF groups
    <3>. QED
      BY <1>4, <1>8
  <2>. HIDE DEF groups, D
  <2>3. UNION Summaries = (UNION debits) \cup (UNION UNION groups)
    BY <1>1, UnionOfBoth
  <2>4. UNION Summaries = D
    <3>. DEFINE L == UNION debits
                R == UNION UNION groups
    <3>1. L \subseteq D /\ R \subseteq D /\ \A i \in D : i \in L \/ i \in R
      BY <2>1, <2>2
    <3>. HIDE DEF L, R
    <3>2. L \cup R = D
      BY <3>1
    <3>3. UNION Summaries = L \cup R
      BY <2>3, Zenon DEF L, R
    <3>. QED
      BY <3>2, <3>3
  <2>. QED
    BY <2>4 DEF D
<1>12. Apart(Summaries)
  <2>. HIDE DEF groups
  <2>. QED
    BY <1>1, <1>4, <1>9, <1>10 DEF Apart
<1>. HIDE DEF groups
<1>. QED
  BY <1>1, <1>4, <1>8, <1>11, <1>12

-----------------------------------------------------------------------------
(* The risk of a summary.                                                  *)

(* The greatest of numbers that has been found is the greatest.            *)
LEMMA MaxIs ==
    ASSUME NEW S, S \subseteq Int, NEW v \in S, \A d \in S : d <= v
    PROVE  Max(S) = v
<1>1. \E x \in S : \A y \in S : x >= y
  OBVIOUS
<1>2. Max(S) \in S /\ \A y \in S : Max(S) >= y
  BY <1>1, Zenon DEF Max
<1>. HIDE DEF Max
<1>3. Max(S) \in Int /\ Max(S) >= v /\ Max(S) <= v
  BY <1>2
<1>. QED
  BY <1>3

(* Some numbers have a least one.                                          *)
LEMMA Least ==
    ASSUME NEW S, S \subseteq Nat, S # {}
    PROVE  Min(S) \in S /\ \A d \in S : Min(S) <= d
<1>1. \E m \in S : \A d \in S : m <= d
  <2>. SUFFICES ASSUME \A m \in S : \E d \in S : ~(m <= d) PROVE FALSE
    OBVIOUS
  <2>1. PICK t \in S : TRUE
    OBVIOUS
  <2>. DEFINE Below == {n \in 0..t : \A d \in S : n <= d}
  <2>2. 0 \in Below
    OBVIOUS
  <2>3. ASSUME NEW n \in 1..t, n - 1 \in Below PROVE n \in Below
    <3>1. ASSUME NEW d \in S PROVE n <= d
      <4>1. n - 1 <= d /\ d \in Nat /\ n \in Nat
        BY <2>3
      <4>2. n - 1 # d
        BY <2>3
      <4>. QED
        BY <4>1, <4>2
    <3>. QED
      BY <3>1
  <2>4. t \in Nat
    OBVIOUS
  <2>5. 0..t \subseteq Below
    <3>. HIDE DEF Below
    <3>. QED
      BY <2>2, <2>3, <2>4, Steps
  <2>6. t \in Below
    BY <2>4, <2>5
  <2>. QED
    BY <2>6
<1>2. Min(S) \in S /\ \A d \in S : Min(S) <= d
  BY <1>1, Zenon DEF Min
<1>. QED
  BY <1>2

(* The share of one unit in one, two or a negative number of contracts.    *)
LEMMA Quotients ==
    ASSUME NEW q \in Nat \ {0}
    PROVE  q \div q = 1 /\ (-q) \div q = -1 /\ (-(2 * q)) \div q = -2
<1>1. ASSUME NEW a \in Int, NEW c \in Int, a = q * c PROVE a \div q = c
  <2>. DEFINE d == a \div q
  <2>1. d \in Int /\ q * d <= a /\ a < q * d + q
    OBVIOUS
  <2>. HIDE DEF d
  <2>2. ASSUME d < c PROVE FALSE
    <3>1. d + 1 <= c
      BY <2>1, <2>2
    <3>2. q * (d + 1) <= q * c
      BY <2>1, <3>1
    <3>3. q * (d + 1) = q * d + q
      BY <2>1
    <3>. QED
      BY <1>1, <2>1, <3>2, <3>3
  <2>3. ASSUME d > c PROVE FALSE
    <3>1. c + 1 <= d
      BY <2>1, <2>3
    <3>2. q * (c + 1) <= q * d
      BY <2>1, <3>1
    <3>3. q * (c + 1) = q * c + q
      BY <2>1
    <3>. QED
      BY <1>1, <2>1, <3>2, <3>3
  <2>4. d = c
    BY <2>1, <2>2, <2>3
  <2>. QED
    BY <2>4 DEF d
<1>2. q \in Int /\ -q \in Int /\ -(2 * q) \in Int
  OBVIOUS
<1>3. q = q * 1 /\ -q = q * (-1) /\ -(2 * q) = q * (-2)
  OBVIOUS
<1>. QED
  BY <1>1, <1>2, <1>3

(* A number of contracts keeps the order of two amounts.                   *)
LEMMA Multiplied ==
    ASSUME NEW q \in Nat, NEW a \in Int, NEW b \in Int, a <= b
    PROVE  q * a \in Int /\ q * b \in Int /\ q * a <= q * b
OBVIOUS

(* The legs of a summary by strike, and the fewest contracts of one.       *)
LEMMA SummaryFits ==
    ASSUME BookTypeOK, NEW S \in SUBSET DOMAIN held, S # {}
    PROVE  /\ Cardinality(S) \in Nat \ {0}
           /\ Lists(ByStrike(S), S)
           /\ \A n \in 1..Cardinality(S) :
                /\ ByStrike(S)[n] \in S
                /\ Sorted(S)[n] = held[ByStrike(S)[n]]
                /\ Sorted(S)[n] \in Lots
                /\ Sorted(S)[n].strike \in Nat
                /\ Sorted(S)[n].kind \in {"CALL", "PUT"}
                /\ Price(Sorted(S)[n]) \in Nat
           /\ \A m, n \in 1..Cardinality(S) : m < n => Sorted(S)[m].strike <= Sorted(S)[n].strike
           /\ DOMAIN Sorted(S) = 1..Cardinality(S)
           /\ Fewest(S) \in Nat \ {0}
           /\ \E i \in S : Fewest(S) = held[i].quantity
<1>. DEFINE N == Cardinality(S)
            o == ByStrike(S)
<1>1. IsFiniteSet(S) /\ S \subseteq Nat /\ \A i \in S : held[i].strike \in Nat
  BY PlacesFit
<1>2. N \in Nat \ {0}
  BY <1>1, FS_CardinalityType, FS_EmptySet
<1>3. /\ Lists(o, S)
      /\ \A m, n \in 1..N : m < n => held[o[m]].strike <= held[o[n]].strike
  BY <1>1, ByStrikeLists
<1>4. Sorted(S) = [n \in 1..N |-> held[o[n]]]
  BY DEF Sorted
<1>5. ASSUME NEW n \in 1..N
      PROVE  /\ o[n] \in S /\ Sorted(S)[n] = held[o[n]] /\ Sorted(S)[n] \in Lots
             /\ Sorted(S)[n].strike \in Nat /\ Sorted(S)[n].kind \in {"CALL", "PUT"}
             /\ Price(Sorted(S)[n]) \in Nat
  <2>1. o[n] \in S
    BY <1>3 DEF Lists
  <2>2. Sorted(S)[n] = held[o[n]]
    BY <1>4
  <2>. HIDE DEF o, N
  <2>3. /\ held[o[n]] \in Lots /\ held[o[n]].strike \in Nat /\ held[o[n]].kind \in {"CALL", "PUT"}
        /\ held[o[n]].strike \in StrikesTraded
    BY <2>1, PlacesFit
  <2>4. Price(held[o[n]]) \in Nat
    <3>1. \A k \in StrikesTraded : Premium["CALL", k] \in Nat /\ Premium["PUT", k] \in Nat
      BY BookAssumption, Zenon
    <3>. QED
      BY <2>3, <3>1 DEF Price
  <2>. QED
    BY <2>1, <2>2, <2>3, <2>4
<1>6. ASSUME NEW m \in 1..N, NEW n \in 1..N, m < n PROVE Sorted(S)[m].strike <= Sorted(S)[n].strike
  BY <1>3, <1>5, <1>6
<1>7. Fewest(S) \in {held[i].quantity : i \in S} /\ Fewest(S) \in Nat \ {0}
  <2>. DEFINE Q == {held[i].quantity : i \in S}
  <2>1. \A i \in S : held[i].quantity \in Nat \ {0}
    BY PlacesFit
  <2>2. Q \subseteq Nat \ {0} /\ Q # {} /\ Fewest(S) = Min(Q)
    BY <2>1 DEF Fewest
  <2>. HIDE DEF Q
  <2>3. Min(Q) \in Q
    BY <2>2, Least
  <2>. QED
    BY <2>2, <2>3 DEF Q
<1>8. DOMAIN Sorted(S) = 1..N
  BY <1>4
<1>. HIDE DEF N, o
<1>. QED
  BY <1>2, <1>3, <1>5, <1>6, <1>7, <1>8 DEF N, o

(* What one unit of a summary pays at a settlement, in points.             *)
Share(S, n) == Signed(Sorted(S)[n]) \div Fewest(S)
PaysAt(S, n, x) == Intrinsic(Sorted(S)[n].kind, Sorted(S)[n].strike, x)
UnitPayoff(S, x) == Added([n \in 1..Cardinality(S) |-> Share(S, n) * PaysAt(S, n, x)])

(* Legs of whole units.                                                    *)
InUnits(S) ==
    /\ Cardinality(S) \in 1..4
    /\ \A n \in 1..Cardinality(S) : Share(S, n) \in Int /\ Signed(Sorted(S)[n]) = Fewest(S) * Share(S, n)

(* The sum over the legs, for each number of legs.                         *)
LEMMA AddedParts ==
    ASSUME NEW N \in 1..4, NEW f
    PROVE  /\ N = 1 => Added([n \in 1..N |-> f[n]]) = f[1] + 0 + 0 + 0
           /\ N = 2 => Added([n \in 1..N |-> f[n]]) = f[1] + f[2] + 0 + 0
           /\ N = 3 => Added([n \in 1..N |-> f[n]]) = f[1] + f[2] + f[3] + 0
           /\ N = 4 => Added([n \in 1..N |-> f[n]]) = f[1] + f[2] + f[3] + f[4]
<1>. DEFINE g == [n \in 1..N |-> f[n]]
<1>1. Len(g) = N /\ \A n \in 1..N : g[n] = f[n]
  OBVIOUS
<1>. HIDE DEF g
<1>2. Added(g) = (IF 1 <= N THEN g[1] ELSE 0) + (IF 2 <= N THEN g[2] ELSE 0)
                 + (IF 3 <= N THEN g[3] ELSE 0) + (IF 4 <= N THEN g[4] ELSE 0)
  BY <1>1 DEF Added
<1>. QED
  BY <1>1, <1>2 DEF g

(* The outcome of a summary is that of one unit, as often as there are     *)
(* units.                                                                  *)
LEMMA OutcomeOf ==
    ASSUME BookTypeOK, NEW S \in SUBSET DOMAIN held, S # {}, InUnits(S), NEW x \in Nat
    PROVE  /\ UnitPayoff(S, x) \in Int /\ Received(S) \in Int /\ Fewest(S) \in Nat \ {0}
           /\ Outcome(S, x) = Fewest(S) * (UnitPayoff(S, x) * TicksPerPoint + Received(S))
<1>. DEFINE N == Cardinality(S)
            q == Fewest(S)
            c(n) == Share(S, n)
            p(n) == Price(Sorted(S)[n])
            v(n) == PaysAt(S, n, x)
            T == TicksPerPoint
            pays == [n \in 1..4 |-> c(n) * v(n)]
            paid == [n \in 1..4 |-> -c(n) * p(n)]
            out == [n \in 1..4 |-> Result(Sorted(S)[n], x)]
<1>1. N \in 1..4 /\ q \in Nat \ {0} /\ T \in Int
  <2>1. T \in Int
    BY ConstructionAssumption
  <2>. QED
    BY <2>1, SummaryFits DEF InUnits
<1>2. ASSUME NEW n \in 1..N
      PROVE  /\ c(n) \in Int /\ p(n) \in Int /\ v(n) \in Int
             /\ out[n] = (q * c(n)) * (v(n) * T - p(n)) /\ pays[n] = c(n) * v(n) /\ paid[n] = -c(n) * p(n)
  <2>1. Sorted(S)[n].strike \in Nat /\ p(n) \in Nat
    BY SummaryFits
  <2>2. v(n) \in Int
    BY <2>1 DEF PaysAt, Intrinsic
  <2>3. n \in 1..4
    BY <1>1
  <2>4. c(n) \in Int /\ Signed(Sorted(S)[n]) = q * c(n)
    BY DEF InUnits
  <2>5. Result(Sorted(S)[n], x) = (q * c(n)) * (v(n) * T - p(n))
    BY <2>4 DEF Result, PaysAt
  <2>. QED
    BY <2>1, <2>2, <2>3, <2>4, <2>5
<1>3. /\ UnitPayoff(S, x) = Added([n \in 1..N |-> pays[n]])
      /\ Received(S) = Added([n \in 1..N |-> paid[n]])
      /\ Outcome(S, x) = Added([n \in 1..N |-> out[n]])
  <2>1. [n \in 1..N |-> c(n) * v(n)] = [n \in 1..N |-> pays[n]]
    BY <1>1
  <2>2. [n \in 1..N |-> -c(n) * p(n)] = [n \in 1..N |-> paid[n]]
    BY <1>1
  <2>3. [n \in 1..N |-> Result(Sorted(S)[n], x)] = [n \in 1..N |-> out[n]]
    BY <1>1
  <2>4. UnitPayoff(S, x) = Added([n \in 1..N |-> c(n) * v(n)])
    BY DEF UnitPayoff
  <2>5. Received(S) = Added([n \in 1..N |-> -c(n) * p(n)])
    BY DEF Received, Share
  <2>6. Outcome(S, x) = Added([n \in 1..N |-> Result(Sorted(S)[n], x)])
    BY DEF Outcome
  <2>. HIDE DEF c, p, v, pays, paid, out, N
  <2>. QED
    BY <2>1, <2>2, <2>3, <2>4, <2>5, <2>6
<1>. HIDE DEF N, q, c, p, v, T, pays, paid, out
<1>. SUFFICES /\ UnitPayoff(S, x) \in Int /\ Received(S) \in Int
              /\ Outcome(S, x) = q * (UnitPayoff(S, x) * T + Received(S))
  BY <1>1 DEF q, T
<1>4. CASE N = 1
  <2>1. 1 \in 1..N
    BY <1>4
  <2>2. /\ UnitPayoff(S, x) = pays[1] + 0 + 0 + 0 /\ Received(S) = paid[1] + 0 + 0 + 0
        /\ Outcome(S, x) = out[1] + 0 + 0 + 0
    BY <1>1, <1>3, <1>4, AddedParts
  <2>. QED
    BY <1>1, <1>2, <2>1, <2>2
<1>5. CASE N = 2
  <2>1. 1 \in 1..N /\ 2 \in 1..N
    BY <1>5
  <2>2. /\ UnitPayoff(S, x) = pays[1] + pays[2] + 0 + 0 /\ Received(S) = paid[1] + paid[2] + 0 + 0
        /\ Outcome(S, x) = out[1] + out[2] + 0 + 0
    BY <1>1, <1>3, <1>5, AddedParts
  <2>. QED
    BY <1>1, <1>2, <2>1, <2>2
<1>6. CASE N = 3
  <2>1. 1 \in 1..N /\ 2 \in 1..N /\ 3 \in 1..N
    BY <1>6
  <2>2. /\ UnitPayoff(S, x) = pays[1] + pays[2] + pays[3] + 0
        /\ Received(S) = paid[1] + paid[2] + paid[3] + 0
        /\ Outcome(S, x) = out[1] + out[2] + out[3] + 0
    BY <1>1, <1>3, <1>6, AddedParts
  <2>. QED
    BY <1>1, <1>2, <2>1, <2>2
<1>7. CASE N = 4
  <2>1. 1 \in 1..N /\ 2 \in 1..N /\ 3 \in 1..N /\ 4 \in 1..N
    BY <1>7
  <2>2. /\ UnitPayoff(S, x) = pays[1] + pays[2] + pays[3] + pays[4]
        /\ Received(S) = paid[1] + paid[2] + paid[3] + paid[4]
        /\ Outcome(S, x) = out[1] + out[2] + out[3] + out[4]
    BY <1>1, <1>3, <1>7, AddedParts
  <2>. QED
    BY <1>1, <1>2, <2>1, <2>2
<1>. QED
  BY <1>1, <1>4, <1>5, <1>6, <1>7

(* The risk of a summary is the outcome where one unit pays the least.     *)
LEMMA RiskIsWorst ==
    ASSUME BookTypeOK, NEW S \in SUBSET DOMAIN held, S # {}, InUnits(S),
           NEW low \in Int, \A x \in Nat : low <= UnitPayoff(S, x),
           NEW y \in BookSettlements, UnitPayoff(S, y) = low,
           Risk(S) = Fewest(S) * (-(low * TicksPerPoint) - Received(S))
    PROVE  Risk(S) = Max({-Outcome(S, x) : x \in BookSettlements})
<1>. DEFINE q == Fewest(S)
            T == TicksPerPoint
            worst == -(low * T) - Received(S)
            Losses == {-Outcome(S, x) : x \in BookSettlements}
<1>1. BookSettlements \subseteq Nat
  <2>1. DOMAIN held \in SUBSET DOMAIN held
    OBVIOUS
  <2>2. \A i \in DOMAIN held : held[i].strike \in Nat
    BY <2>1, PlacesFit
  <2>. QED
    BY <2>2 DEF BookSettlements
<1>2. T \in Nat
  BY ConstructionAssumption
<1>3. ASSUME NEW x \in BookSettlements
      PROVE  /\ q \in Nat /\ UnitPayoff(S, x) \in Int /\ Received(S) \in Int
             /\ Outcome(S, x) = q * (UnitPayoff(S, x) * T + Received(S))
  BY <1>1, OutcomeOf
<1>4. q \in Nat /\ Received(S) \in Int /\ worst \in Int
  BY <1>2, <1>3
<1>5. ASSUME NEW x \in BookSettlements
      PROVE  -Outcome(S, x) \in Int /\ -Outcome(S, x) <= q * worst
  <2>. DEFINE u == UnitPayoff(S, x)
              r == Received(S)
              other == -(u * T) - r
  <2>1. u \in Int /\ low <= u /\ r \in Int /\ Outcome(S, x) = q * (u * T + r)
    BY <1>1, <1>3
  <2>. HIDE DEF u, r, q, T
  <2>2. low * T <= u * T /\ low * T \in Int /\ u * T \in Int
    BY <1>2, <2>1, Multiplied
  <2>3. other \in Int /\ other <= -(low * T) - r /\ -(low * T) - r \in Int
    BY <2>1, <2>2
  <2>4. -Outcome(S, x) = q * other
    BY <1>2, <1>4, <2>1, <2>2
  <2>5. q * other \in Int /\ q * other <= q * (-(low * T) - r)
    <3>. HIDE DEF other
    <3>. QED
      BY <1>4, <2>3, Multiplied
  <2>. QED
    BY <2>4, <2>5 DEF r
<1>6. q * worst \in Losses
  <2>1. -Outcome(S, y) = q * worst
    <3>. DEFINE r == Received(S)
    <3>1. Outcome(S, y) = q * (low * T + r) /\ r \in Int /\ low * T \in Int
      BY <1>2, <1>3
    <3>. HIDE DEF r, q, T
    <3>2. -(q * (low * T + r)) = q * (-(low * T) - r)
      BY <1>2, <1>4, <3>1
    <3>. QED
      BY <3>1, <3>2 DEF r
  <2>. QED
    BY <2>1
<1>7. Losses \subseteq Int /\ \A d \in Losses : d <= q * worst
  <2>. HIDE DEF worst, q
  <2>. QED
    BY <1>5
<1>8. Max(Losses) = q * worst
  <2>. HIDE DEF Losses, worst, q
  <2>. QED
    BY <1>6, <1>7, MaxIs
<1>. QED
  BY <1>8

(* The parts of a unit, leg by leg.                                        *)
LEMMA UnitParts ==
    ASSUME NEW S, Cardinality(S) \in 1..4, NEW x
    PROVE  LET N == Cardinality(S)
               pays(n) == Share(S, n) * PaysAt(S, n, x)
               paid(n) == -Share(S, n) * Price(Sorted(S)[n])
           IN  /\ N = 1 => /\ UnitPayoff(S, x) = pays(1) + 0 + 0 + 0
                           /\ Received(S) = paid(1) + 0 + 0 + 0
               /\ N = 2 => /\ UnitPayoff(S, x) = pays(1) + pays(2) + 0 + 0
                           /\ Received(S) = paid(1) + paid(2) + 0 + 0
               /\ N = 3 => /\ UnitPayoff(S, x) = pays(1) + pays(2) + pays(3) + 0
                           /\ Received(S) = paid(1) + paid(2) + paid(3) + 0
               /\ N = 4 => /\ UnitPayoff(S, x) = pays(1) + pays(2) + pays(3) + pays(4)
                           /\ Received(S) = paid(1) + paid(2) + paid(3) + paid(4)
<1>. DEFINE N == Cardinality(S)
            pays(n) == Share(S, n) * PaysAt(S, n, x)
            paid(n) == -Share(S, n) * Price(Sorted(S)[n])
            f == [n \in 1..4 |-> pays(n)]
            g == [n \in 1..4 |-> paid(n)]
<1>1. \A n \in 1..4 : f[n] = pays(n) /\ g[n] = paid(n)
  OBVIOUS
<1>2. UnitPayoff(S, x) = Added([n \in 1..N |-> f[n]]) /\ Received(S) = Added([n \in 1..N |-> g[n]])
  <2>1. [n \in 1..N |-> pays(n)] = [n \in 1..N |-> f[n]]
    OBVIOUS
  <2>2. [n \in 1..N |-> paid(n)] = [n \in 1..N |-> g[n]]
    OBVIOUS
  <2>3. UnitPayoff(S, x) = Added([n \in 1..N |-> pays(n)])
    BY DEF UnitPayoff
  <2>4. Received(S) = Added([n \in 1..N |-> paid(n)])
    BY DEF Received, Share
  <2>. HIDE DEF pays, paid, f, g, N
  <2>. QED
    BY <2>1, <2>2, <2>3, <2>4
<1>. HIDE DEF pays, paid, f, g, N
<1>3. N \in 1..4
  BY DEF N
<1>4. /\ N = 1 => Added([n \in 1..N |-> f[n]]) = f[1] + 0 + 0 + 0
      /\ N = 2 => Added([n \in 1..N |-> f[n]]) = f[1] + f[2] + 0 + 0
      /\ N = 3 => Added([n \in 1..N |-> f[n]]) = f[1] + f[2] + f[3] + 0
      /\ N = 4 => Added([n \in 1..N |-> f[n]]) = f[1] + f[2] + f[3] + f[4]
  BY <1>3, AddedParts
<1>5. /\ N = 1 => Added([n \in 1..N |-> g[n]]) = g[1] + 0 + 0 + 0
      /\ N = 2 => Added([n \in 1..N |-> g[n]]) = g[1] + g[2] + 0 + 0
      /\ N = 3 => Added([n \in 1..N |-> g[n]]) = g[1] + g[2] + g[3] + 0
      /\ N = 4 => Added([n \in 1..N |-> g[n]]) = g[1] + g[2] + g[3] + g[4]
  BY <1>3, AddedParts
<1>6. /\ f[1] = pays(1) /\ f[2] = pays(2) /\ f[3] = pays(3) /\ f[4] = pays(4)
      /\ g[1] = paid(1) /\ g[2] = paid(2) /\ g[3] = paid(3) /\ g[4] = paid(4)
  BY <1>1
<1>7. /\ N = 1 => /\ UnitPayoff(S, x) = pays(1) + 0 + 0 + 0
                  /\ Received(S) = paid(1) + 0 + 0 + 0
      /\ N = 2 => /\ UnitPayoff(S, x) = pays(1) + pays(2) + 0 + 0
                  /\ Received(S) = paid(1) + paid(2) + 0 + 0
      /\ N = 3 => /\ UnitPayoff(S, x) = pays(1) + pays(2) + pays(3) + 0
                  /\ Received(S) = paid(1) + paid(2) + paid(3) + 0
      /\ N = 4 => /\ UnitPayoff(S, x) = pays(1) + pays(2) + pays(3) + pays(4)
                  /\ Received(S) = paid(1) + paid(2) + paid(3) + paid(4)
  BY <1>2, <1>4, <1>5, <1>6
<1>. QED
  BY <1>7 DEF pays, paid, N

(* A lone long option loses its price at worst.                            *)
LEMMA SingleRisk ==
    ASSUME BookTypeOK, NEW i \in DOMAIN held, held[i].action = "BUY"
    PROVE  Risk({i}) = Max({-Outcome({i}, x) : x \in BookSettlements})
<1>. DEFINE S == {i}
            leg == held[i]
            q == leg.quantity
            T == TicksPerPoint
            y == IF leg.kind = "CALL" THEN 0 ELSE 2 * leg.strike
<1>0. S \in SUBSET DOMAIN held /\ S # {} /\ \A j \in S : j = i
  OBVIOUS
<1>1. Cardinality(S) = 1
  BY FS_Singleton
<1>. HIDE DEF S
<1>2. /\ Sorted(S)[1] = leg /\ leg \in Lots /\ leg.strike \in Nat /\ leg.kind \in {"CALL", "PUT"}
      /\ Price(leg) \in Nat /\ Fewest(S) = q /\ q \in Nat \ {0}
  <2>1. 1 \in 1..Cardinality(S)
    BY <1>1
  <2>2. ByStrike(S)[1] = i
    BY <1>0, <2>1, SummaryFits
  <2>. QED
    BY <1>0, <2>1, <2>2, SummaryFits
<1>3. Share(S, 1) = 1 /\ InUnits(S)
  <2>1. Signed(Sorted(S)[1]) = q
    BY <1>2 DEF Signed
  <2>2. Share(S, 1) = 1
    BY <1>2, <2>1, Quotients DEF Share
  <2>3. \A n \in 1..Cardinality(S) : n = 1
    BY <1>1
  <2>. HIDE DEF q, leg
  <2>. QED
    BY <1>1, <1>2, <2>1, <2>2, <2>3 DEF InUnits
<1>4. T \in Nat
  BY ConstructionAssumption
<1>5. /\ Received(S) = -Price(leg)
      /\ \A x : UnitPayoff(S, x) = 1 * Intrinsic(leg.kind, leg.strike, x) + 0 + 0 + 0
  <2>. HIDE DEF leg
  <2>1. Received(S) = -1 * Price(leg) + 0 + 0 + 0
    BY <1>1, <1>2, <1>3, UnitParts
  <2>2. \A x : UnitPayoff(S, x) = 1 * Intrinsic(leg.kind, leg.strike, x) + 0 + 0 + 0
    BY <1>1, <1>2, <1>3, UnitParts DEF PaysAt
  <2>. QED
    BY <1>2, <2>1, <2>2
<1>6. /\ \A x \in Nat : 0 <= UnitPayoff(S, x)
      /\ y \in BookSettlements /\ UnitPayoff(S, y) = 0
  <2>1. \A x \in Nat : UnitPayoff(S, x) = Intrinsic(leg.kind, leg.strike, x) /\ 0 <= UnitPayoff(S, x)
    BY <1>2, <1>5 DEF Intrinsic
  <2>2. y \in BookSettlements
    BY <1>2 DEF BookSettlements
  <2>3. y \in Nat /\ Intrinsic(leg.kind, leg.strike, y) = 0
    BY <1>2 DEF Intrinsic
  <2>. QED
    BY <2>1, <2>2, <2>3
<1>7. Risk(S) = Fewest(S) * (-(0 * T) - Received(S))
  <2>. DEFINE width == Max({Distance(held[j].strike, held[k].strike) : j, k \in S})
              wings == Max({WingOf(S, "PUT"), WingOf(S, "CALL")}) * T
              r == Received(S)
  <2>1. width = 0
    <3>1. Distance(leg.strike, leg.strike) = 0
      BY <1>2 DEF Distance
    <3>. DEFINE D == {Distance(held[j].strike, held[k].strike) : j, k \in S}
    <3>2. D = {0}
      BY <1>0, <3>1
    <3>. HIDE DEF D
    <3>3. Max(D) = 0
      BY <3>2, MaxIs
    <3>. QED
      BY <3>3 DEF D
  <2>2. ~IsCondor(S)
    BY <1>1 DEF IsCondor
  <2>3. Risk(S) = Fewest(S) * (CASE IsCondor(S) -> wings - r
                                 [] ~IsCondor(S) /\ r < 0 -> -r
                                 [] OTHER -> Positive(width * T - r))
    BY DEF Risk
  <2>. HIDE DEF width, wings, r, T
  <2>4. r \in Int /\ r <= 0
    BY <1>2, <1>5 DEF r
  <2>5. Risk(S) = Fewest(S) * (0 - r)
    <3>1. CASE r < 0
      <4>1. Risk(S) = Fewest(S) * (-r)
        BY <2>2, <2>3, <3>1
      <4>2. -r = 0 - r
        BY <2>4
      <4>. QED
        BY <4>1, <4>2
    <3>2. CASE r = 0
      <4>0. width * T = 0
        BY <1>4, <2>1
      <4>1. width * T - r = 0 /\ ~(r < 0) /\ 0 - r = 0
        BY <3>2, <4>0
      <4>2. Risk(S) = Fewest(S) * Positive(width * T - r)
        BY <2>2, <2>3, <4>1
      <4>. QED
        BY <4>1, <4>2 DEF Positive
    <3>. QED
      BY <2>4, <3>1, <3>2
  <2>6. -(0 * T) - r = 0 - r
    BY <1>4, <2>4
  <2>. QED
    BY <2>5, <2>6 DEF r, T
<1>8. Risk(S) = Max({-Outcome(S, x) : x \in BookSettlements})
  <2>. HIDE DEF y, T
  <2>. QED
    BY <1>0, <1>3, <1>6, <1>7, RiskIsWorst DEF T
<1>. QED
  BY <1>8 DEF S

(* What was paid for legs that can pay nothing is the risk.                *)
LEMMA PaidRisk ==
    ASSUME BookTypeOK, NEW S \in SUBSET DOMAIN held, S # {}, InUnits(S), ~IsCondor(S),
           Received(S) \in Int, Received(S) < 0, \A x \in Nat : 0 <= UnitPayoff(S, x),
           NEW y \in BookSettlements, UnitPayoff(S, y) = 0
    PROVE  Risk(S) = Max({-Outcome(S, x) : x \in BookSettlements})
<1>. DEFINE T == TicksPerPoint
            r == Received(S)
            width == Max({Distance(held[i].strike, held[j].strike) : i, j \in S}) * T
            wings == Max({WingOf(S, "PUT"), WingOf(S, "CALL")}) * T
<1>1. Risk(S) = Fewest(S) * (CASE IsCondor(S) -> wings - r
                               [] ~IsCondor(S) /\ r < 0 -> -r
                               [] OTHER -> Positive(width - r))
  BY DEF Risk
<1>. HIDE DEF width, wings, r
<1>2. r \in Int /\ r < 0
  BY DEF r
<1>3. Risk(S) = Fewest(S) * (-r)
  BY <1>1, <1>2
<1>4. -r = -(0 * TicksPerPoint) - r
  <2>1. TicksPerPoint \in Int
    BY ConstructionAssumption
  <2>. QED
    BY <1>2, <2>1
<1>5. Risk(S) = Fewest(S) * (-(0 * TicksPerPoint) - Received(S))
  BY <1>3, <1>4 DEF r
<1>. QED
  BY <1>5, RiskIsWorst

(* Where the strikes of a summary are among the settlements.               *)
LEMMA StrikeSettles ==
    ASSUME BookTypeOK, NEW S \in SUBSET DOMAIN held, S # {}, NEW n \in 1..Cardinality(S)
    PROVE  Sorted(S)[n].strike \in BookSettlements
BY SummaryFits DEF BookSettlements

(* The legs of a debit combination, and its price.                         *)
LEMMA DebitFields ==
    ASSUME BookTypeOK, NEW S \in SUBSET DOMAIN held, NEW strategy \in {"butterfly", "reverse_iron_condor"},
           IsDebit(strategy, S)
    PROVE  LET N == Len(Pattern[strategy])
               legs == Sorted(S)
           IN  /\ S # {} /\ Cardinality(S) = N /\ N \in {3, 4}
               /\ \A n \in 1..N :
                    /\ legs[n].action = Pattern[strategy][n].action
                    /\ legs[n].kind = Pattern[strategy][n].kind
                    /\ legs[n].quantity = Pattern[strategy][n].ratio * Fewest(S)
                    /\ legs[n].strike \in Nat
               /\ \A n \in 1..N - 1 : legs[n].strike < legs[n + 1].strike
               /\ legs[2].strike - legs[1].strike = legs[N].strike - legs[N - 1].strike
               /\ Fewest(S) \in Nat \ {0}
               /\ Weighed(Pattern[strategy], [n \in 1..N |-> Price(legs[n])]) > 0
<1>. DEFINE N == Len(Pattern[strategy])
            legs == Sorted(S)
            strikes == [n \in DOMAIN legs |-> legs[n].strike]
            mids == [n \in DOMAIN legs |-> Premium[legs[n].kind, legs[n].strike]]
<1>1. N \in {3, 4}
  BY DEF Pattern
<1>2. Cardinality(S) = N /\ S # {}
  <2>1. Cardinality(S) = N
    BY DEF IsDebit
  <2>. HIDE DEF N
  <2>. QED
    BY <1>1, <2>1, FS_EmptySet
<1>3. DOMAIN legs = 1..N /\ \A n \in 1..N : legs[n].strike \in Nat /\ Price(legs[n]) \in Nat
  BY <1>2, SummaryFits
<1>4. /\ \A n \in 1..N :
           /\ legs[n].action = Pattern[strategy][n].action
           /\ legs[n].kind = Pattern[strategy][n].kind
           /\ legs[n].quantity = Pattern[strategy][n].ratio * Fewest(S)
      /\ WellShaped(strategy, strikes)
      /\ DebitQualifies(strategy, strikes, mids)
  <2>1. /\ \A n \in DOMAIN legs :
             /\ legs[n].action = Pattern[strategy][n].action
             /\ legs[n].kind = Pattern[strategy][n].kind
             /\ legs[n].quantity = Pattern[strategy][n].ratio * Fewest(S)
        /\ WellShaped(strategy, strikes)
        /\ DebitQualifies(strategy, strikes, mids)
    BY Zenon DEF IsDebit
  <2>. HIDE DEF legs, N, strikes, mids
  <2>. QED
    BY <1>3, <2>1
<1>5. Len(strikes) = N /\ \A n \in 1..N : strikes[n] = legs[n].strike
  BY <1>1, <1>3
<1>6. /\ \A n \in 1..N - 1 : legs[n].strike < legs[n + 1].strike
      /\ legs[2].strike - legs[1].strike = legs[N].strike - legs[N - 1].strike
  <2>1. /\ \A n \in 1..N - 1 : strikes[n] < strikes[n + 1]
        /\ strikes[2] - strikes[1] = strikes[N] - strikes[N - 1]
    <3>. HIDE DEF strikes, N
    <3>. QED
      BY <1>4, <1>5 DEF WellShaped, Ascending
  <2>2. \A n \in 1..N - 1 : n \in 1..N /\ n + 1 \in 1..N
    <3>. HIDE DEF N
    <3>. QED
      BY <1>1
  <2>3. 1 \in 1..N /\ 2 \in 1..N /\ N - 1 \in 1..N /\ N \in 1..N
    <3>. HIDE DEF N
    <3>. QED
      BY <1>1
  <2>. HIDE DEF strikes, N, legs
  <2>. QED
    BY <1>5, <2>1, <2>2, <2>3
<1>7. Weighed(Pattern[strategy], mids) > 0
  <2>1. Weighed(Pattern[strategy], mids) \in 1..TradeWidth(strikes) * TicksPerPoint - 1
    BY <1>4 DEF DebitQualifies, Cost
  <2>. DEFINE cost == Weighed(Pattern[strategy], mids)
              top == TradeWidth(strikes) * TicksPerPoint - 1
  <2>. HIDE DEF cost, top
  <2>2. cost \in 1..top
    BY <2>1 DEF cost, top
  <2>3. cost > 0
    BY <2>2
  <2>. QED
    BY <2>3 DEF cost
<1>8. mids = [n \in 1..N |-> Price(legs[n])]
  <2>. HIDE DEF legs, N
  <2>. QED
    BY <1>3 DEF Price
<1>9. Fewest(S) \in Nat \ {0}
  BY <1>2, SummaryFits
<1>. HIDE DEF mids, strikes
<1>10. Weighed(Pattern[strategy], [n \in 1..N |-> Price(legs[n])]) > 0
  BY <1>7, <1>8
<1>. HIDE DEF legs, N
<1>. QED
  BY <1>1, <1>2, <1>3, <1>4, <1>6, <1>9, <1>10 DEF legs, N

(* A butterfly pays nothing at its lowest strike, and never less.          *)
LEMMA ButterflyRisk ==
    ASSUME BookTypeOK, NEW S \in SUBSET DOMAIN held, IsDebit("butterfly", S)
    PROVE  Risk(S) = Max({-Outcome(S, x) : x \in BookSettlements})
<1>. DEFINE L == Sorted(S)
            q == Fewest(S)
            k(n) == L[n].strike
            p(n) == Price(L[n])
<1>1. Pattern["butterfly"] = <<Leg("BUY", "CALL", 1), Leg("SELL", "CALL", 2), Leg("BUY", "CALL", 1)>>
  BY DEF Pattern
<1>2. /\ S # {} /\ Cardinality(S) = 3
      /\ \A n \in 1..3 : /\ L[n].action = Pattern["butterfly"][n].action
                         /\ L[n].kind = Pattern["butterfly"][n].kind
                         /\ L[n].quantity = Pattern["butterfly"][n].ratio * q
                         /\ L[n].strike \in Nat
      /\ \A n \in 1..2 : L[n].strike < L[n + 1].strike
      /\ L[2].strike - L[1].strike = L[3].strike - L[2].strike
      /\ q \in Nat \ {0}
      /\ Weighed(Pattern["butterfly"], [n \in 1..3 |-> Price(L[n])]) > 0
  <2>1. Len(Pattern["butterfly"]) = 3
    BY <1>1
  <2>. DEFINE N == Len(Pattern["butterfly"])
  <2>2. /\ S # {} /\ Cardinality(S) = N
        /\ \A n \in 1..N : /\ L[n].action = Pattern["butterfly"][n].action
                           /\ L[n].kind = Pattern["butterfly"][n].kind
                           /\ L[n].quantity = Pattern["butterfly"][n].ratio * q
                           /\ L[n].strike \in Nat
        /\ \A n \in 1..N - 1 : L[n].strike < L[n + 1].strike
        /\ L[2].strike - L[1].strike = L[N].strike - L[N - 1].strike
        /\ q \in Nat \ {0}
        /\ Weighed(Pattern["butterfly"], [n \in 1..N |-> Price(L[n])]) > 0
    BY DebitFields
  <2>3. N = 3 /\ 3 - 1 = 2
    BY <2>1
  <2>. HIDE DEF L, q, N
  <2>. QED
    BY <2>2, <2>3
<1>3. /\ L[1].action = "BUY" /\ L[2].action = "SELL" /\ L[3].action = "BUY"
      /\ L[1].kind = "CALL" /\ L[2].kind = "CALL" /\ L[3].kind = "CALL"
      /\ L[1].quantity = q /\ L[2].quantity = 2 * q /\ L[3].quantity = q
      /\ k(1) \in Nat /\ k(2) \in Nat /\ k(3) \in Nat
      /\ k(1) < k(2) /\ k(2) < k(3) /\ k(2) - k(1) = k(3) - k(2)
  <2>1. /\ Pattern["butterfly"][1] = Leg("BUY", "CALL", 1) /\ Pattern["butterfly"][2] = Leg("SELL", "CALL", 2)
        /\ Pattern["butterfly"][3] = Leg("BUY", "CALL", 1)
    BY <1>1
  <2>. HIDE DEF L, q
  <2>. QED
    BY <1>2, <2>1 DEF Leg
<1>4. p(1) \in Nat /\ p(2) \in Nat /\ p(3) \in Nat
  BY <1>2, SummaryFits
<1>5. p(1) - 2 * p(2) + p(3) > 0
  <2>. DEFINE v == [n \in 1..3 |-> p(n)]
  <2>1. v[1] = p(1) /\ v[2] = p(2) /\ v[3] = p(3)
    OBVIOUS
  <2>2. Weighed(Pattern["butterfly"], v) > 0
    BY <1>2
  <2>. HIDE DEF v, p
  <2>3. Weighed(Pattern["butterfly"], v) = 1 * v[1] + -2 * v[2] + 1 * v[3] + 0
    BY <1>1, <1>4, <2>1 DEF Weighed, Sign, Leg
  <2>. QED
    BY <1>4, <2>1, <2>2, <2>3
<1>6. Share(S, 1) = 1 /\ Share(S, 2) = -2 /\ Share(S, 3) = 1 /\ InUnits(S)
  <2>1. Signed(L[1]) = q /\ Signed(L[2]) = -(2 * q) /\ Signed(L[3]) = q
    BY <1>3 DEF Signed
  <2>2. Share(S, 1) = 1 /\ Share(S, 2) = -2 /\ Share(S, 3) = 1
    <3>. HIDE DEF q, L
    <3>. QED
      BY <1>2, <2>1, Quotients DEF Share, q, L
  <2>3. q = q * 1 /\ -(2 * q) = q * (-2)
    BY <1>2
  <2>4. \A n \in 1..Cardinality(S) : n \in {1, 2, 3}
    BY <1>2
  <2>5. Cardinality(S) \in 1..4
    BY <1>2
  <2>. HIDE DEF q, L
  <2>. QED
    BY <2>1, <2>2, <2>3, <2>4, <2>5 DEF InUnits, q, L
<1>7. Received(S) \in Int /\ Received(S) < 0
  <2>1. Received(S) = -1 * p(1) + -(-2) * p(2) + -1 * p(3) + 0
    BY <1>2, <1>6, UnitParts
  <2>. HIDE DEF p
  <2>. QED
    BY <1>4, <1>5, <2>1
<1>8. ASSUME NEW x
      PROVE  UnitPayoff(S, x) = 1 * Intrinsic("CALL", k(1), x) + (-2) * Intrinsic("CALL", k(2), x)
                                + 1 * Intrinsic("CALL", k(3), x) + 0
  <2>1. /\ PaysAt(S, 1, x) = Intrinsic("CALL", k(1), x) /\ PaysAt(S, 2, x) = Intrinsic("CALL", k(2), x)
        /\ PaysAt(S, 3, x) = Intrinsic("CALL", k(3), x)
    BY <1>3 DEF PaysAt
  <2>2. UnitPayoff(S, x) = Share(S, 1) * PaysAt(S, 1, x) + Share(S, 2) * PaysAt(S, 2, x)
                           + Share(S, 3) * PaysAt(S, 3, x) + 0
    BY <1>2, UnitParts
  <2>. HIDE DEF k
  <2>. QED
    BY <1>6, <2>1, <2>2
<1>9. /\ \A x \in Nat : 0 <= UnitPayoff(S, x)
      /\ k(1) \in BookSettlements /\ UnitPayoff(S, k(1)) = 0
  <2>1. k(1) \in BookSettlements
    BY <1>2, StrikeSettles
  <2>. HIDE DEF k
  <2>2. ASSUME NEW x \in Nat PROVE 0 <= UnitPayoff(S, x) /\ (x = k(1) => UnitPayoff(S, x) = 0)
    BY <1>3, <1>8 DEF Intrinsic
  <2>. QED
    BY <1>3, <2>1, <2>2
<1>10. ~IsCondor(S)
  BY <1>2 DEF IsCondor
<1>. HIDE DEF k
<1>. QED
  BY <1>2, <1>6, <1>7, <1>9, <1>10, PaidRisk

(* A reverse iron condor pays nothing between its long strikes, and never  *)
(* less.                                                                   *)
LEMMA ReverseCondorRisk ==
    ASSUME BookTypeOK, NEW S \in SUBSET DOMAIN held, IsDebit("reverse_iron_condor", S)
    PROVE  Risk(S) = Max({-Outcome(S, x) : x \in BookSettlements})
<1>. DEFINE L == Sorted(S)
            q == Fewest(S)
            k(n) == L[n].strike
            p(n) == Price(L[n])
            pattern == Pattern["reverse_iron_condor"]
<1>1. pattern = <<Leg("SELL", "PUT", 1), Leg("BUY", "PUT", 1), Leg("BUY", "CALL", 1), Leg("SELL", "CALL", 1)>>
  BY DEF Pattern
<1>2. /\ S # {} /\ Cardinality(S) = 4
      /\ \A n \in 1..4 : /\ L[n].action = pattern[n].action
                         /\ L[n].kind = pattern[n].kind
                         /\ L[n].quantity = pattern[n].ratio * q
                         /\ L[n].strike \in Nat
      /\ \A n \in 1..3 : L[n].strike < L[n + 1].strike
      /\ L[2].strike - L[1].strike = L[4].strike - L[3].strike
      /\ q \in Nat \ {0}
      /\ Weighed(pattern, [n \in 1..4 |-> Price(L[n])]) > 0
  <2>1. Len(pattern) = 4
    BY <1>1
  <2>. DEFINE N == Len(pattern)
  <2>2. /\ S # {} /\ Cardinality(S) = N
        /\ \A n \in 1..N : /\ L[n].action = pattern[n].action
                           /\ L[n].kind = pattern[n].kind
                           /\ L[n].quantity = pattern[n].ratio * q
                           /\ L[n].strike \in Nat
        /\ \A n \in 1..N - 1 : L[n].strike < L[n + 1].strike
        /\ L[2].strike - L[1].strike = L[N].strike - L[N - 1].strike
        /\ q \in Nat \ {0}
        /\ Weighed(pattern, [n \in 1..N |-> Price(L[n])]) > 0
    BY DebitFields
  <2>3. N = 4 /\ 4 - 1 = 3
    BY <2>1
  <2>. HIDE DEF L, q, N
  <2>. QED
    BY <2>2, <2>3
<1>3. /\ L[1].action = "SELL" /\ L[2].action = "BUY" /\ L[3].action = "BUY" /\ L[4].action = "SELL"
      /\ L[1].kind = "PUT" /\ L[2].kind = "PUT" /\ L[3].kind = "CALL" /\ L[4].kind = "CALL"
      /\ L[1].quantity = q /\ L[2].quantity = q /\ L[3].quantity = q /\ L[4].quantity = q
      /\ k(1) \in Nat /\ k(2) \in Nat /\ k(3) \in Nat /\ k(4) \in Nat
      /\ k(1) < k(2) /\ k(2) < k(3) /\ k(3) < k(4)
  <2>1. /\ pattern[1] = Leg("SELL", "PUT", 1) /\ pattern[2] = Leg("BUY", "PUT", 1)
        /\ pattern[3] = Leg("BUY", "CALL", 1) /\ pattern[4] = Leg("SELL", "CALL", 1)
    BY <1>1
  <2>. HIDE DEF L, q, pattern
  <2>. QED
    BY <1>2, <2>1 DEF Leg
<1>. HIDE DEF pattern
<1>4. p(1) \in Nat /\ p(2) \in Nat /\ p(3) \in Nat /\ p(4) \in Nat
  BY <1>2, SummaryFits
<1>5. p(2) + p(3) - p(1) - p(4) > 0
  <2>. DEFINE v == [n \in 1..4 |-> p(n)]
  <2>1. v[1] = p(1) /\ v[2] = p(2) /\ v[3] = p(3) /\ v[4] = p(4)
    OBVIOUS
  <2>2. Weighed(pattern, v) > 0
    BY <1>2
  <2>. HIDE DEF v, p
  <2>3. Weighed(pattern, v) = -1 * v[1] + 1 * v[2] + 1 * v[3] + -1 * v[4]
    BY <1>1, <1>4, <2>1 DEF Weighed, Sign, Leg
  <2>. QED
    BY <1>4, <2>1, <2>2, <2>3
<1>6. Share(S, 1) = -1 /\ Share(S, 2) = 1 /\ Share(S, 3) = 1 /\ Share(S, 4) = -1 /\ InUnits(S)
  <2>1. Signed(L[1]) = -q /\ Signed(L[2]) = q /\ Signed(L[3]) = q /\ Signed(L[4]) = -q
    BY <1>3 DEF Signed
  <2>2. Share(S, 1) = -1 /\ Share(S, 2) = 1 /\ Share(S, 3) = 1 /\ Share(S, 4) = -1
    <3>. HIDE DEF q, L
    <3>. QED
      BY <1>2, <2>1, Quotients DEF Share, q, L
  <2>3. q = q * 1 /\ -q = q * (-1)
    BY <1>2
  <2>4. \A n \in 1..Cardinality(S) : n \in {1, 2, 3, 4}
    BY <1>2
  <2>5. Cardinality(S) \in 1..4
    BY <1>2
  <2>. HIDE DEF q, L
  <2>. QED
    BY <2>1, <2>2, <2>3, <2>4, <2>5 DEF InUnits, q, L
<1>7. Received(S) \in Int /\ Received(S) < 0
  <2>1. Received(S) = -(-1) * p(1) + -1 * p(2) + -1 * p(3) + -(-1) * p(4)
    BY <1>2, <1>6, UnitParts
  <2>. HIDE DEF p
  <2>. QED
    BY <1>4, <1>5, <2>1
<1>8. ASSUME NEW x
      PROVE  UnitPayoff(S, x) = (-1) * Intrinsic("PUT", k(1), x) + 1 * Intrinsic("PUT", k(2), x)
                                + 1 * Intrinsic("CALL", k(3), x) + (-1) * Intrinsic("CALL", k(4), x)
  <2>1. /\ PaysAt(S, 1, x) = Intrinsic("PUT", k(1), x) /\ PaysAt(S, 2, x) = Intrinsic("PUT", k(2), x)
        /\ PaysAt(S, 3, x) = Intrinsic("CALL", k(3), x) /\ PaysAt(S, 4, x) = Intrinsic("CALL", k(4), x)
    BY <1>3 DEF PaysAt
  <2>2. UnitPayoff(S, x) = Share(S, 1) * PaysAt(S, 1, x) + Share(S, 2) * PaysAt(S, 2, x)
                           + Share(S, 3) * PaysAt(S, 3, x) + Share(S, 4) * PaysAt(S, 4, x)
    BY <1>2, UnitParts
  <2>. HIDE DEF k
  <2>. QED
    BY <1>6, <2>1, <2>2
<1>9. /\ \A x \in Nat : 0 <= UnitPayoff(S, x)
      /\ k(2) \in BookSettlements /\ UnitPayoff(S, k(2)) = 0
  <2>1. k(2) \in BookSettlements
    BY <1>2, StrikeSettles
  <2>. HIDE DEF k
  <2>2. ASSUME NEW x \in Nat PROVE 0 <= UnitPayoff(S, x) /\ (x = k(2) => UnitPayoff(S, x) = 0)
    BY <1>3, <1>8 DEF Intrinsic
  <2>. QED
    BY <1>3, <2>1, <2>2
<1>10. ~IsCondor(S)
  <2>. SUFFICES ASSUME NEW lp \in Legs(S, "PUT", "BUY"), NEW sp \in Legs(S, "PUT", "SELL"),
                       held[lp].strike < held[sp].strike
                PROVE  FALSE
    BY DEF IsCondor
  <2>1. \A i \in S : \E n \in 1..4 : held[i] = L[n]
    <3>1. Lists(ByStrike(S), S) /\ \A n \in 1..4 : L[n] = held[ByStrike(S)[n]]
      BY <1>2, SummaryFits
    <3>2. \A i \in S : \E n \in 1..4 : ByStrike(S)[n] = i
      BY <1>2, <3>1 DEF Lists
    <3>. HIDE DEF L
    <3>. QED
      BY <3>1, <3>2
  <2>2. held[lp] = L[2] /\ held[sp] = L[1]
    <3>1. PICK n \in 1..4 : held[lp] = L[n]
      BY <2>1 DEF Legs
    <3>2. PICK m \in 1..4 : held[sp] = L[m]
      BY <2>1 DEF Legs
    <3>3. L[n].kind = "PUT" /\ L[n].action = "BUY" /\ L[m].kind = "PUT" /\ L[m].action = "SELL"
      BY <3>1, <3>2 DEF Legs
    <3>4. n \in {1, 2, 3, 4} /\ m \in {1, 2, 3, 4}
      OBVIOUS
    <3>. HIDE DEF L
    <3>5. n = 2 /\ m = 1
      BY <1>3, <3>3, <3>4
    <3>. QED
      BY <3>1, <3>2, <3>5
  <2>. QED
    BY <1>3, <2>2
<1>. HIDE DEF k
<1>. QED
  BY <1>2, <1>6, <1>7, <1>9, <1>10, PaidRisk

(* The quantity that legs of one quantity have in common.                  *)
LEMMA AlikeFewest ==
    ASSUME BookTypeOK, NEW S \in SUBSET DOMAIN held, S # {}, LegsAlike(S)
    PROVE  \A i \in S : held[i].quantity = Fewest(S)
BY SummaryFits DEF LegsAlike

(* The wing of one long and one short leg.                                 *)
LEMMA WingIs ==
    ASSUME NEW S, NEW kind, NEW l, NEW s, NEW v \in Int,
           Legs(S, kind, "BUY") = {l}, Legs(S, kind, "SELL") = {s},
           Distance(held[l].strike, held[s].strike) = v
    PROVE  WingOf(S, kind) = v
<1>. DEFINE D == {Distance(held[i].strike, held[j].strike) :
                     i \in Legs(S, kind, "BUY"), j \in Legs(S, kind, "SELL")}
<1>1. D = {v}
  OBVIOUS
<1>2. WingOf(S, kind) = Max(D)
  BY DEF WingOf
<1>. HIDE DEF D
<1>3. Max(D) = v
  BY <1>1, MaxIs
<1>. QED
  BY <1>2, <1>3

(* An iron condor loses the wider of its wings, less what was received.    *)
LEMMA CondorRisk ==
    ASSUME BookTypeOK, NEW S \in SUBSET DOMAIN held, LegsAlike(S), IsCondor(S)
    PROVE  Risk(S) = Max({-Outcome(S, x) : x \in BookSettlements})
<1>. DEFINE L == Sorted(S)
            o == ByStrike(S)
            q == Fewest(S)
            k(n) == L[n].strike
            T == TicksPerPoint
<1>1. PICK lp \in Legs(S, "PUT", "BUY"), sp \in Legs(S, "PUT", "SELL"),
           sc \in Legs(S, "CALL", "SELL"), lc \in Legs(S, "CALL", "BUY") :
             /\ held[lp].strike < held[sp].strike /\ held[sp].strike < held[sc].strike
             /\ held[sc].strike < held[lc].strike
  BY DEF IsCondor
<1>2. Cardinality(S) = 4 /\ S # {}
  BY <1>1 DEF IsCondor, Legs
<1>3. /\ Lists(o, S) /\ q \in Nat \ {0}
      /\ \A n \in 1..4 : /\ o[n] \in S /\ L[n] = held[o[n]] /\ L[n].strike \in Nat
                         /\ Price(L[n]) \in Nat
      /\ \A m, n \in 1..4 : m < n => L[m].strike <= L[n].strike
  BY <1>2, SummaryFits
<1>4. o[1] = lp /\ o[2] = sp /\ o[3] = sc /\ o[4] = lc
  <2>1. lp \in S /\ sp \in S /\ sc \in S /\ lc \in S
    BY DEF Legs
  <2>2. \A i \in S : \E n \in 1..4 : o[n] = i
    BY <1>2, <1>3 DEF Lists
  <2>3. PICK a \in 1..4, b \in 1..4, c \in 1..4, d \in 1..4 : o[a] = lp /\ o[b] = sp /\ o[c] = sc /\ o[d] = lc
    BY <2>1, <2>2
  <2>4. k(a) < k(b) /\ k(b) < k(c) /\ k(c) < k(d)
    BY <1>1, <1>3, <2>3
  <2>. HIDE DEF o, L
  <2>5. a < b /\ b < c /\ c < d
    BY <1>3, <2>4
  <2>6. a = 1 /\ b = 2 /\ c = 3 /\ d = 4
    BY <2>5
  <2>. QED
    BY <2>3, <2>6
<1>5. /\ L[1] = held[lp] /\ L[2] = held[sp] /\ L[3] = held[sc] /\ L[4] = held[lc]
      /\ L[1].action = "BUY" /\ L[2].action = "SELL" /\ L[3].action = "SELL" /\ L[4].action = "BUY"
      /\ L[1].kind = "PUT" /\ L[2].kind = "PUT" /\ L[3].kind = "CALL" /\ L[4].kind = "CALL"
      /\ L[1].quantity = q /\ L[2].quantity = q /\ L[3].quantity = q /\ L[4].quantity = q
  <2>1. L[1] = held[lp] /\ L[2] = held[sp] /\ L[3] = held[sc] /\ L[4] = held[lc]
    BY <1>3, <1>4
  <2>2. \A i \in S : held[i].quantity = q
    BY <1>2, AlikeFewest
  <2>. HIDE DEF L, q
  <2>. QED
    BY <2>1, <2>2 DEF Legs
<1>6. /\ k(1) \in Nat /\ k(2) \in Nat /\ k(3) \in Nat /\ k(4) \in Nat
      /\ k(1) < k(2) /\ k(2) < k(3) /\ k(3) < k(4)
  BY <1>1, <1>3, <1>5
<1>7. Share(S, 1) = 1 /\ Share(S, 2) = -1 /\ Share(S, 3) = -1 /\ Share(S, 4) = 1 /\ InUnits(S)
  <2>1. Signed(L[1]) = q /\ Signed(L[2]) = -q /\ Signed(L[3]) = -q /\ Signed(L[4]) = q
    BY <1>5 DEF Signed
  <2>2. Share(S, 1) = 1 /\ Share(S, 2) = -1 /\ Share(S, 3) = -1 /\ Share(S, 4) = 1
    <3>. HIDE DEF q, L
    <3>. QED
      BY <1>3, <2>1, Quotients DEF Share, q, L
  <2>3. q = q * 1 /\ -q = q * (-1)
    BY <1>3
  <2>4. \A n \in 1..Cardinality(S) : n \in {1, 2, 3, 4}
    BY <1>2
  <2>5. Cardinality(S) \in 1..4
    BY <1>2
  <2>. HIDE DEF q, L
  <2>. QED
    BY <2>1, <2>2, <2>3, <2>4, <2>5 DEF InUnits, q, L
<1>8. ASSUME NEW x
      PROVE  UnitPayoff(S, x) = 1 * Intrinsic("PUT", k(1), x) + (-1) * Intrinsic("PUT", k(2), x)
                                + (-1) * Intrinsic("CALL", k(3), x) + 1 * Intrinsic("CALL", k(4), x)
  <2>1. /\ PaysAt(S, 1, x) = Intrinsic("PUT", k(1), x) /\ PaysAt(S, 2, x) = Intrinsic("PUT", k(2), x)
        /\ PaysAt(S, 3, x) = Intrinsic("CALL", k(3), x) /\ PaysAt(S, 4, x) = Intrinsic("CALL", k(4), x)
    BY <1>5 DEF PaysAt
  <2>2. UnitPayoff(S, x) = Share(S, 1) * PaysAt(S, 1, x) + Share(S, 2) * PaysAt(S, 2, x)
                           + Share(S, 3) * PaysAt(S, 3, x) + Share(S, 4) * PaysAt(S, 4, x)
    BY <1>2, UnitParts
  <2>. HIDE DEF k
  <2>. QED
    BY <1>7, <2>1, <2>2
<1>. DEFINE lower == k(2) - k(1)
            upper == k(4) - k(3)
            wide == IF lower > upper THEN lower ELSE upper
            y == IF lower > upper THEN k(1) ELSE k(4)
<1>9. /\ \A x \in Nat : -wide <= UnitPayoff(S, x)
      /\ y \in BookSettlements /\ UnitPayoff(S, y) = -wide /\ wide \in Nat
  <2>1. k(1) \in BookSettlements /\ k(4) \in BookSettlements
    BY <1>2, StrikeSettles
  <2>. HIDE DEF k
  <2>2. ASSUME NEW x \in Nat
        PROVE  /\ -wide <= UnitPayoff(S, x)
               /\ x = k(1) => UnitPayoff(S, x) = -lower
               /\ x = k(4) => UnitPayoff(S, x) = -upper
    BY <1>6, <1>8 DEF Intrinsic
  <2>. QED
    BY <1>6, <2>1, <2>2
<1>10. WingOf(S, "PUT") = lower /\ WingOf(S, "CALL") = upper
  <2>1. \A i \in S : i \in {lp, sp, sc, lc}
    <3>1. \A i \in S : \E n \in {1, 2, 3, 4} : o[n] = i
      BY <1>2, <1>3 DEF Lists
    <3>. HIDE DEF o
    <3>. QED
      BY <1>4, <3>1
  <2>2. /\ Legs(S, "PUT", "BUY") = {lp} /\ Legs(S, "PUT", "SELL") = {sp}
        /\ Legs(S, "CALL", "BUY") = {lc} /\ Legs(S, "CALL", "SELL") = {sc}
    BY <2>1 DEF Legs
  <2>3. Distance(held[lp].strike, held[sp].strike) = lower /\ Distance(held[lc].strike, held[sc].strike) = upper
    BY <1>5, <1>6 DEF Distance
  <2>4. lower \in Int /\ upper \in Int
    BY <1>6
  <2>. HIDE DEF lower, upper
  <2>. QED
    BY <2>2, <2>3, <2>4, WingIs
<1>11. Max({WingOf(S, "PUT"), WingOf(S, "CALL")}) = wide
  <2>1. lower \in Int /\ upper \in Int
    BY <1>6
  <2>. HIDE DEF lower, upper
  <2>. DEFINE W == {lower, upper}
  <2>2. W \subseteq Int /\ wide \in W /\ \A d \in W : d <= wide
    BY <2>1
  <2>. HIDE DEF wide, W
  <2>3. Max(W) = wide
    BY <2>2, MaxIs
  <2>. QED
    BY <1>10, <2>3 DEF W
<1>12. Risk(S) = q * (-((-wide) * T) - Received(S))
  <2>. DEFINE r == Received(S)
              wings == Max({WingOf(S, "PUT"), WingOf(S, "CALL")}) * T
              width == Max({Distance(held[i].strike, held[j].strike) : i, j \in S}) * T
  <2>1. Risk(S) = q * (CASE IsCondor(S) -> wings - r
                         [] ~IsCondor(S) /\ r < 0 -> -r
                         [] OTHER -> Positive(width - r))
    BY DEF Risk
  <2>. HIDE DEF width, r, q
  <2>2. Risk(S) = q * (wings - r)
    <3>. HIDE DEF wings
    <3>. QED
      BY <2>1
  <2>3. T \in Int /\ wide \in Int
    BY <1>9, ConstructionAssumption
  <2>. HIDE DEF wide, T
  <2>4. wings = wide * T /\ -((-wide) * T) = wide * T
    BY <1>11, <2>3
  <2>. QED
    BY <2>2, <2>4 DEF r
<1>13. Risk(S) = Max({-Outcome(S, x) : x \in BookSettlements})
  <2>. DEFINE low == -wide
  <2>1. /\ low \in Int /\ \A x \in Nat : low <= UnitPayoff(S, x)
        /\ y \in BookSettlements /\ UnitPayoff(S, y) = low
    BY <1>9
  <2>2. Risk(S) = q * (-(low * T) - Received(S))
    BY <1>12
  <2>. HIDE DEF low, y, T
  <2>. QED
    BY <1>2, <1>7, <2>1, <2>2, RiskIsWorst DEF T
<1>. QED
  BY <1>13

(* A pair, what one unit of it is sold for, and what it pays.              *)
PairOf(S, kind, s, l) == s \in Legs(S, kind, "SELL") /\ l \in Legs(S, kind, "BUY") /\ S = {s, l}
Worth(kind, k) == Premium[kind, k]
PairFits(S, kind, ks, kl) ==
    /\ S # {} /\ Cardinality(S) = 2 /\ InUnits(S)
    /\ ks \in Nat /\ kl \in Nat /\ ks # kl
    /\ ks \in StrikesTraded /\ kl \in StrikesTraded
    /\ kl \in BookSettlements
    /\ Received(S) = Worth(kind, ks) - Worth(kind, kl)
    /\ Worth(kind, ks) \in Nat /\ Worth(kind, kl) \in Nat
    /\ \A x \in Nat : UnitPayoff(S, x) = Intrinsic(kind, kl, x) - Intrinsic(kind, ks, x)

(* The legs of a pair are of different strikes, one contract being one     *)
(* position.                                                               *)
LEMMA PairFields ==
    ASSUME BookTypeOK, NEW kind \in {"PUT", "CALL"}, NEW S \in SUBSET DOMAIN held, LegsAlike(S),
           NEW s, NEW l, PairOf(S, kind, s, l)
    PROVE  PairFits(S, kind, held[s].strike, held[l].strike)
<1>. DEFINE L == Sorted(S)
            o == ByStrike(S)
            q == Fewest(S)
            ks == held[s].strike
            kl == held[l].strike
<1>1. /\ s \in DOMAIN held /\ l \in DOMAIN held /\ s \in S /\ l \in S /\ s # l
      /\ held[s].kind = kind /\ held[l].kind = kind /\ held[s].action = "SELL" /\ held[l].action = "BUY"
  BY DEF Legs, PairOf
<1>2. Cardinality(S) = 2
  <2>1. IsFiniteSet({s}) /\ Cardinality({s}) = 1
    BY FS_Singleton
  <2>2. Cardinality({s} \cup {l}) = Cardinality({s}) + 1
    BY <1>1, <2>1, FS_AddElement
  <2>3. S = {s} \cup {l}
    BY DEF PairOf
  <2>. QED
    BY <2>1, <2>2, <2>3
<1>3. /\ Lists(o, S) /\ q \in Nat \ {0}
      /\ \A n \in 1..2 : /\ o[n] \in S /\ L[n] = held[o[n]] /\ Price(L[n]) \in Nat
  BY <1>1, <1>2, SummaryFits
<1>4. (o[1] = s /\ o[2] = l) \/ (o[1] = l /\ o[2] = s)
  <2>1. o[1] \in {s, l} /\ o[2] \in {s, l} /\ o[1] # o[2]
    BY <1>2, <1>3 DEF Lists, PairOf
  <2>. HIDE DEF o
  <2>. QED
    BY <2>1
<1>5. ks \in Nat /\ kl \in Nat /\ ks \in StrikesTraded /\ kl \in StrikesTraded
  BY <1>1, PlacesFit
<1>6. ks # kl
  <2>1. held[s].expiry = held[l].expiry
    BY <1>1 DEF LegsAlike
  <2>2. ~SameContract(held[s], held[l])
    BY <1>1 DEF BookTypeOK
  <2>. QED
    BY <1>1, <2>1, <2>2 DEF SameContract
<1>7. kl \in BookSettlements
  BY <1>1 DEF BookSettlements
<1>8. Signed(held[s]) = -q /\ Signed(held[l]) = q
  <2>1. held[s].quantity = q /\ held[l].quantity = q
    BY <1>1, AlikeFewest
  <2>. QED
    BY <1>1, <2>1 DEF Signed
<1>9. /\ o[1] = s => Share(S, 1) = -1 /\ Signed(L[1]) = -q
      /\ o[2] = s => Share(S, 2) = -1 /\ Signed(L[2]) = -q
      /\ o[1] = l => Share(S, 1) = 1 /\ Signed(L[1]) = q
      /\ o[2] = l => Share(S, 2) = 1 /\ Signed(L[2]) = q
  <2>1. 1 \in 1..2 /\ 2 \in 1..2
    OBVIOUS
  <2>2. \A n \in 1..2 : L[n] = held[o[n]]
    BY <1>3
  <2>3. q \div q = 1 /\ (-q) \div q = -1
    BY <1>3, Quotients
  <2>. HIDE DEF o, q, L
  <2>. QED
    BY <1>8, <2>1, <2>2, <2>3 DEF Share, q, L
<1>10. InUnits(S)
  <2>1. \A n \in 1..Cardinality(S) : n \in {1, 2}
    BY <1>2
  <2>2. Cardinality(S) \in 1..4
    BY <1>2
  <2>3. q = q * 1 /\ -q = q * (-1)
    BY <1>3
  <2>4. \A n \in {1, 2} : Share(S, n) \in Int /\ Signed(L[n]) = q * Share(S, n)
    <3>. HIDE DEF o, q, L
    <3>. QED
      BY <1>4, <1>9, <2>3
  <2>. HIDE DEF q, L
  <2>. QED
    BY <2>1, <2>2, <2>4 DEF InUnits, q, L
<1>11. /\ Worth(kind, ks) \in Nat /\ Worth(kind, kl) \in Nat
       /\ Price(held[s]) = Worth(kind, ks) /\ Price(held[l]) = Worth(kind, kl)
  <2>1. Price(held[s]) = Worth(kind, ks) /\ Price(held[l]) = Worth(kind, kl)
    BY <1>1, Zenon DEF Price, Worth
  <2>2. Price(held[s]) \in Nat /\ Price(held[l]) \in Nat
    <3>. HIDE DEF o, L
    <3>. QED
      BY <1>3, <1>4
  <2>. QED
    BY <2>1, <2>2
<1>12. Received(S) = Worth(kind, ks) - Worth(kind, kl)
  <2>1. Received(S) = -Share(S, 1) * Price(L[1]) + -Share(S, 2) * Price(L[2]) + 0 + 0
    BY <1>2, UnitParts
  <2>2. L[1] = held[o[1]] /\ L[2] = held[o[2]]
    BY <1>3
  <2>. DEFINE a == Worth(kind, ks)
              b == Worth(kind, kl)
  <2>3. a \in Nat /\ b \in Nat /\ Price(held[s]) = a /\ Price(held[l]) = b
    BY <1>11
  <2>. HIDE DEF a, b, o, L
  <2>4. Received(S) = a - b
    BY <1>4, <1>9, <2>1, <2>2, <2>3
  <2>. QED
    BY <2>4 DEF a, b
<1>13. ASSUME NEW x \in Nat PROVE UnitPayoff(S, x) = Intrinsic(kind, kl, x) - Intrinsic(kind, ks, x)
  <2>1. UnitPayoff(S, x) = Share(S, 1) * PaysAt(S, 1, x) + Share(S, 2) * PaysAt(S, 2, x) + 0 + 0
    BY <1>2, UnitParts
  <2>2. L[1] = held[o[1]] /\ L[2] = held[o[2]]
    BY <1>3
  <2>. DEFINE a == Intrinsic(kind, kl, x)
              b == Intrinsic(kind, ks, x)
  <2>3. a \in Int /\ b \in Int
    BY <1>5 DEF Intrinsic
  <2>. HIDE DEF o
  <2>4. /\ o[1] = s => PaysAt(S, 1, x) = b
        /\ o[2] = s => PaysAt(S, 2, x) = b
        /\ o[1] = l => PaysAt(S, 1, x) = a
        /\ o[2] = l => PaysAt(S, 2, x) = a
    BY <1>1, <2>2 DEF PaysAt
  <2>. HIDE DEF a, b, L
  <2>5. UnitPayoff(S, x) = a - b
    BY <1>4, <1>9, <2>1, <2>3, <2>4
  <2>. QED
    BY <2>5 DEF a, b
<1>. HIDE DEF ks, kl
<1>. QED
  BY <1>1, <1>2, <1>5, <1>6, <1>7, <1>10, <1>11, <1>12, <1>13 DEF ks, kl, PairFits

(* The prices of two strikes are apart, by no more than the strikes are.   *)
LEMMA PricesApart ==
    ASSUME NEW a \in StrikesTraded, NEW b \in StrikesTraded, a < b
    PROVE  /\ Worth("CALL", a) - Worth("CALL", b) \in 1..(b - a) * TicksPerPoint
           /\ Worth("PUT", b) - Worth("PUT", a) \in 1..(b - a) * TicksPerPoint
<1>1. \A c, d \in StrikesTraded : c < d =>
          /\ Premium["CALL", c] - Premium["CALL", d] \in 1..(d - c) * TicksPerPoint
          /\ Premium["PUT", d] - Premium["PUT", c] \in 1..(d - c) * TicksPerPoint
  BY BookAssumption, Zenon
<1>. QED
  BY <1>1, Zenon DEF Worth

(* A pair sold for more than it costs can lose the rest of its width.      *)
LEMMA SoldRisk ==
    ASSUME BookTypeOK, NEW S \in SUBSET DOMAIN held, S # {}, InUnits(S), ~IsCondor(S),
           NEW w \in Nat, Max({Distance(held[i].strike, held[j].strike) : i, j \in S}) = w,
           Received(S) \in 0..w * TicksPerPoint, \A x \in Nat : -w <= UnitPayoff(S, x),
           NEW y \in BookSettlements, UnitPayoff(S, y) = -w
    PROVE  Risk(S) = Max({-Outcome(S, x) : x \in BookSettlements})
<1>. DEFINE T == TicksPerPoint
            r == Received(S)
            width == Max({Distance(held[i].strike, held[j].strike) : i, j \in S}) * T
            wings == Max({WingOf(S, "PUT"), WingOf(S, "CALL")}) * T
            low == -w
<1>1. Risk(S) = Fewest(S) * (CASE IsCondor(S) -> wings - r
                               [] ~IsCondor(S) /\ r < 0 -> -r
                               [] OTHER -> Positive(width - r))
  BY DEF Risk
<1>2. T \in Nat /\ width = w * T
  BY ConstructionAssumption
<1>. HIDE DEF width, wings, r, T
<1>3. r \in Int /\ ~(r < 0) /\ w * T \in Int /\ r <= w * T
  BY <1>2 DEF r, T
<1>4. Risk(S) = Fewest(S) * Positive(width - r)
  BY <1>1, <1>3
<1>5. Positive(width - r) = w * T - r
  <2>1. width - r \in Int /\ 0 <= width - r /\ width - r = w * T - r
    BY <1>2, <1>3
  <2>. DEFINE d == width - r
  <2>. HIDE DEF d
  <2>2. d \in Int /\ 0 <= d => Positive(d) = d
    BY DEF Positive
  <2>. QED
    BY <2>1, <2>2 DEF d
<1>6. -(low * T) - r = w * T - r
  BY <1>2, <1>3
<1>7. Risk(S) = Fewest(S) * (-(low * TicksPerPoint) - Received(S))
  BY <1>4, <1>5, <1>6 DEF r, T
<1>8. low \in Int /\ \A x \in Nat : low <= UnitPayoff(S, x)
  OBVIOUS
<1>9. UnitPayoff(S, y) = low
  OBVIOUS
<1>. HIDE DEF low
<1>. QED
  BY <1>7, <1>8, <1>9, RiskIsWorst

(* A vertical can lose what was paid for it, or the rest of its width.     *)
LEMMA PairRisk ==
    ASSUME BookTypeOK, NEW kind \in {"PUT", "CALL"}, NEW S \in SUBSET DOMAIN held, LegsAlike(S),
           NEW s, NEW l, PairOf(S, kind, s, l)
    PROVE  Risk(S) = Max({-Outcome(S, x) : x \in BookSettlements})
<1>. DEFINE ks == held[s].strike
            kl == held[l].strike
            w == Distance(kl, ks)
            T == TicksPerPoint
            a == Worth(kind, ks)
            b == Worth(kind, kl)
<1>1. /\ S # {} /\ Cardinality(S) = 2 /\ InUnits(S)
      /\ ks \in Nat /\ kl \in Nat /\ ks # kl
      /\ ks \in StrikesTraded /\ kl \in StrikesTraded
      /\ kl \in BookSettlements
      /\ Received(S) = a - b
      /\ a \in Nat /\ b \in Nat
      /\ \A x \in Nat : UnitPayoff(S, x) = Intrinsic(kind, kl, x) - Intrinsic(kind, ks, x)
  <2>1. PairFits(S, kind, ks, kl)
    BY PairFields
  <2>. HIDE DEF ks, kl
  <2>. QED
    BY <2>1 DEF PairFits
<1>2. ~IsCondor(S)
  <2>1. Cardinality(S) # 4
    BY <1>1
  <2>. QED
    BY <2>1, Zenon DEF IsCondor
<1>3. w = IF kl > ks THEN kl - ks ELSE ks - kl
  BY DEF Distance
<1>4. Distance(ks, kl) = w /\ Distance(ks, ks) = 0 /\ Distance(kl, kl) = 0 /\ w \in Nat
  <2>. HIDE DEF ks, kl
  <2>. QED
    BY <1>1 DEF Distance
<1>5. w \in Nat /\ Max({Distance(held[i].strike, held[j].strike) : i, j \in S}) = w
  <2>. DEFINE D == {Distance(held[i].strike, held[j].strike) : i, j \in S}
  <2>1. w \in Nat /\ Distance(ks, kl) = w /\ Distance(ks, ks) = 0 /\ Distance(kl, kl) = 0
    BY <1>4
  <2>2. s \in S /\ l \in S
    BY DEF PairOf
  <2>3. w \in D /\ D \subseteq {0, w}
    <3>1. w \in D
      BY <2>2
    <3>2. ASSUME NEW i \in S, NEW j \in S PROVE Distance(held[i].strike, held[j].strike) \in {0, w}
      <4>1. (i = s \/ i = l) /\ (j = s \/ j = l)
        BY DEF PairOf
      <4>. QED
        BY <2>1, <4>1
    <3>. HIDE DEF w
    <3>. QED
      BY <3>1, <3>2
  <2>. HIDE DEF D, w
  <2>4. D \subseteq Int /\ \A d \in D : d <= w
    BY <2>1, <2>3
  <2>5. Max(D) = w
    BY <2>3, <2>4, MaxIs
  <2>. QED
    BY <2>1, <2>5 DEF D
<1>6. T \in Nat
  BY ConstructionAssumption
<1>. HIDE DEF ks, kl, w
<1>7. CASE (kind = "CALL" /\ kl < ks) \/ (kind = "PUT" /\ ks < kl)
  <2>1. Received(S) \in Int /\ Received(S) < 0
    <3>1. CASE kind = "CALL" /\ kl < ks
      <4>. DEFINE top == (ks - kl) * T
      <4>1. b - a \in 1..top
        BY <1>1, <3>1, PricesApart
      <4>. HIDE DEF a, b, top
      <4>2. b - a >= 1
        BY <4>1
      <4>. QED
        BY <1>1, <4>2
    <3>2. CASE kind = "PUT" /\ ks < kl
      <4>. DEFINE top == (kl - ks) * T
      <4>1. b - a \in 1..top
        BY <1>1, <3>2, PricesApart
      <4>. HIDE DEF a, b, top
      <4>2. b - a >= 1
        BY <4>1
      <4>. QED
        BY <1>1, <4>2
    <3>. QED
      BY <1>7, <3>1, <3>2
  <2>2. ASSUME NEW x \in Nat PROVE 0 <= UnitPayoff(S, x) /\ (x = kl => UnitPayoff(S, x) = 0)
    <3>1. ks \in Nat /\ kl \in Nat /\ UnitPayoff(S, x) = Intrinsic(kind, kl, x) - Intrinsic(kind, ks, x)
      BY <1>1
    <3>. QED
      BY <1>7, <3>1 DEF Intrinsic
  <2>3. UnitPayoff(S, kl) = 0
    BY <1>1, <2>2
  <2>. QED
    BY <1>1, <1>2, <2>1, <2>2, <2>3, PaidRisk
<1>8. CASE (kind = "CALL" /\ ks < kl) \/ (kind = "PUT" /\ kl < ks)
  <2>1. Received(S) \in 0..w * T
    <3>1. CASE kind = "CALL" /\ ks < kl
      <4>. DEFINE d == kl - ks
      <4>1. a - b \in 1..d * T
        BY <1>1, <3>1, PricesApart
      <4>2. w = d
        BY <1>1, <1>3, <3>1
      <4>. HIDE DEF a, b, d, w, T
      <4>3. w * T \in Int
        BY <1>5, <1>6
      <4>. QED
        BY <1>1, <4>1, <4>2, <4>3
    <3>2. CASE kind = "PUT" /\ kl < ks
      <4>. DEFINE d == ks - kl
      <4>1. a - b \in 1..d * T
        BY <1>1, <3>2, PricesApart
      <4>2. w = d
        BY <1>1, <1>3, <3>2
      <4>. HIDE DEF a, b, d, w, T
      <4>3. w * T \in Int
        BY <1>5, <1>6
      <4>. QED
        BY <1>1, <4>1, <4>2, <4>3
    <3>. QED
      BY <1>8, <3>1, <3>2
  <2>2. ASSUME NEW x \in Nat PROVE -w <= UnitPayoff(S, x) /\ (x = kl => UnitPayoff(S, x) = -w)
    <3>1. ks \in Nat /\ kl \in Nat /\ UnitPayoff(S, x) = Intrinsic(kind, kl, x) - Intrinsic(kind, ks, x)
      BY <1>1
    <3>. QED
      BY <1>8, <1>3, <3>1 DEF Intrinsic
  <2>3. UnitPayoff(S, kl) = -w
    BY <1>1, <2>2
  <2>. QED
    BY <1>1, <1>2, <1>5, <2>1, <2>2, <2>3, SoldRisk
<1>9. ks < kl \/ kl < ks
  BY <1>1
<1>. QED
  BY <1>7, <1>8, <1>9

(* The risk shown for a summary of any form is the worst of its outcomes.  *)
LEMMA ShapeRisk ==
    ASSUME BookTypeOK, NEW A \in SUBSET DOMAIN held, IsShape(A), RiskShown(A)
    PROVE  Risk(A) = Max({-Outcome(A, x) : x \in BookSettlements})
<1>1. CASE IsCombination(A)
  BY <1>1, ButterflyRisk, ReverseCondorRisk DEF IsCombination
<1>2. CASE LegsAlike(A) /\ IsCondor(A)
  BY <1>2, CondorRisk
<1>3. CASE LegsAlike(A) /\ IsPair(A)
  <2>1. PICK kind \in {"PUT", "CALL"} : \E s \in Legs(A, kind, "SELL"), l \in Legs(A, kind, "BUY") : A = {s, l}
    BY <1>3 DEF IsPair
  <2>2. PICK s \in Legs(A, kind, "SELL"), l \in Legs(A, kind, "BUY") : A = {s, l}
    BY <2>1
  <2>. QED
    BY <1>3, <2>2, PairRisk DEF PairOf
<1>4. CASE \E i \in A : A = {i}
  <2>1. PICK i \in A : A = {i}
    BY <1>4
  <2>2. Cardinality({i}) = 1
    BY FS_Singleton
  <2>3. held[i].action = "BUY" /\ i \in DOMAIN held
    BY <2>1, <2>2 DEF RiskShown
  <2>4. Risk({i}) = Max({-Outcome({i}, x) : x \in BookSettlements})
    BY <2>3, SingleRisk
  <2>. QED
    BY <2>1, <2>4
<1>. QED
  BY <1>1, <1>2, <1>3, <1>4 DEF IsShape

(* However the trades of an account overlap, every leg is shown in one     *)
(* summary and only one, and the risk a summary shows is the most its legs *)
(* can lose at expiration.                                                 *)
THEOREM BookShownHolds == BookSpec => []BookShownWhole
<1>1. BookTypeOK => BookShownWhole
  <2>. SUFFICES ASSUME BookTypeOK PROVE BookShownWhole
    OBVIOUS
  <2>1. /\ UNION Summaries = DOMAIN held
        /\ Apart(Summaries)
        /\ \A A \in Summaries : A \in SUBSET DOMAIN held /\ IsShape(A)
    BY SummariesCover
  <2>2. ASSUME NEW A \in Summaries, RiskShown(A)
        PROVE  Risk(A) = Max({-Outcome(A, x) : x \in BookSettlements})
    BY <2>1, <2>2, ShapeRisk
  <2>. QED
    BY <2>1, <2>2 DEF BookShownWhole, Apart
<1>. QED
  BY <1>1, BookTypeHolds, PTL
=============================================================================
