---------------------------- MODULE TradeProofs ----------------------------
(***************************************************************************)
(* A trade, where it is planned and where it is carried out: theorems      *)
(* about LandedTrade, for any pools, prices, fees, tips and moves of       *)
(* others (that its promise is kept is shown bin by bin, the quote beside  *)
(* the swap), and about the program that executes it (TwoHopExecutor), for *)
(* every width of the amounts.                                             *)
(***************************************************************************)
EXTENDS LandedTrade, TwoHopExecutor, FiniteSetTheorems, TLAPS
-----------------------------------------------------------------------------
(* Numbers. *)

(* Some natural numbers have a least one. *)
LEMMA LeastOf ==
  ASSUME NEW S, S \subseteq Nat, S # {}
  PROVE  \E m \in S : \A n \in S : m <= n
<1>1. PICK m \in S : \A n \in S : ~(<<n, m>> \in OpToRel(<, Nat))
  BY NatLessThanWellFounded, WFMin
<1>2. \A n \in S : ~(n < m)
  BY <1>1 DEF OpToRel
<1> QED
  BY <1>2

(* What holds at 0 and is handed on holds up to the end. *)
LEMMA UpTo ==
  ASSUME NEW N \in Nat, NEW G, 0 \in G, \A n \in 1..N : n - 1 \in G => n \in G
  PROVE  \A n \in 0..N : n \in G
<1> DEFINE bad == {n \in 0..N : n \notin G}
<1> SUFFICES ASSUME bad # {} PROVE FALSE
  OBVIOUS
<1>1. bad \subseteq Nat
  OBVIOUS
<1>2. PICK m \in bad : \A n \in bad : m <= n
  <2> HIDE DEF bad
  <2> QED
    BY <1>1, LeastOf
<1>3. m \in 1..N /\ m - 1 \in 0..N /\ ~(m <= m - 1)
  BY <1>2
<1>4. m - 1 \in G
  BY <1>2, <1>3
<1> QED
  BY <1>2, <1>3, <1>4

(* Steps taken one after the other are a function of the number of them. *)
Follows(w, N, S, first, step) ==
    w \in [0..N -> S] /\ w[0] = first /\ \A n \in 1..N : w[n] = step[n][w[n - 1]]

LEMMA Iterated ==
  ASSUME NEW N \in Nat, NEW S, NEW first \in S, NEW step \in [1..N -> [S -> S]]
  PROVE  \E w : Follows(w, N, S, first, step)
<1> DEFINE Taken(n, w) == w[0] = first /\ \A m \in 1..n : w[m] = step[m][w[m - 1]]
           G == {n \in 0..N : \E w \in [0..n -> S] : Taken(n, w)}
<1>1. 0 \in G
  <2> DEFINE v == [n \in 0..0 |-> first]
  <2>1. v \in [0..0 -> S] /\ Taken(0, v)
    OBVIOUS
  <2> HIDE DEF v
  <2> QED
    BY <2>1
<1>2. ASSUME NEW n \in 1..N, n - 1 \in G
      PROVE  n \in G
  <2>1. PICK w \in [0..n - 1 -> S] : Taken(n - 1, w)
    BY <1>2
  <2> DEFINE v == [m \in 0..n |-> IF m = n THEN step[n][w[n - 1]] ELSE w[m]]
  <2>2. n - 1 \in 0..n - 1 /\ w[n - 1] \in S
    BY <2>1
  <2>3. step[n][w[n - 1]] \in S
    BY <2>2
  <2>4. \A m \in 0..n : v[m] \in S
    BY <2>1, <2>3
  <2>5. v \in [0..n -> S]
    BY <2>4
  <2>6. v[0] = first
    BY <2>1
  <2>7. ASSUME NEW m \in 1..n PROVE v[m] = step[m][v[m - 1]]
    <3>1. m - 1 \in 0..n /\ m - 1 # n /\ v[m - 1] = w[m - 1]
      OBVIOUS
    <3>2. CASE m = n
      BY <3>1, <3>2
    <3>3. CASE m # n
      <4>1. m \in 1..n - 1 /\ v[m] = w[m]
        BY <3>3
      <4> QED
        BY <4>1, <3>1, <2>1
    <3> QED
      BY <3>2, <3>3
  <2>8. Taken(n, v)
    BY <2>6, <2>7
  <2> HIDE DEF v
  <2> QED
    BY <2>5, <2>8
<1>3. \A n \in 0..N : n \in G
  <2> HIDE DEF G
  <2> QED
    BY <1>1, <1>2, UpTo
<1>4. N \in G
  BY <1>3
<1> QED
  BY <1>4 DEF Follows

LEMMA Division ==
  ASSUME NEW m \in Int, NEW n \in Nat \ {0}
  PROVE  m \div n \in Int /\ CeilDiv(m, n) \in Int /\ (m >= 0 => m \div n >= 0)
<1>1. m \div n \in Int
  OBVIOUS
<1>2. m + n - 1 \in Int
  OBVIOUS
<1>3. (m + n - 1) \div n \in Int
  BY <1>2
<1>4. m >= 0 => m \div n >= 0
  OBVIOUS
<1> QED
  BY <1>1, <1>3, <1>4 DEF CeilDiv

LEMMA Extremes ==
  ASSUME NEW m \in Int, NEW n \in Int
  PROVE  /\ Least(m, n) \in Int /\ Most(m, n) \in Int /\ AtLeast1(m) \in Int
         /\ Most(m, n) >= m /\ Most(m, n) >= n /\ AtLeast1(m) >= 1 /\ AtLeast1(m) >= m
         /\ (m >= 0 /\ n >= 0 => Least(m, n) >= 0)
  BY DEF Least, Most, AtLeast1

LEMMA Percents ==
  ASSUME NEW m \in Int, NEW p \in Int
  PROVE  Percent(m, p) \in Int
<1>1. m * p \in Int
  OBVIOUS
<1> QED
  BY <1>1 DEF Percent

(* What a bin takes, and the fee of it, are whole numbers. *)
LEMMA Fees ==
  ASSUME NEW n \in Int
  PROVE  FeeFromGross(n) \in Int /\ FeeForNet(n) \in Int
<1>1. n * FeeNum \in Int /\ FeeDen \in Nat \ {0} /\ FeeDen - FeeNum \in Nat \ {0}
  BY BinAssumption
<1> QED
  BY <1>1, Division DEF FeeFromGross, FeeForNet

LEMMA TakesInt ==
  ASSUME NEW depth \in [Bins -> Int], NEW b \in Bins
  PROVE  Takes(depth, b) \in Int
<1>1. depth[b] * Unit \in Int /\ Price[b] \in Nat \ {0}
  BY BinAssumption DEF Bins
<1>2. CeilDiv(depth[b] * Unit, Price[b]) \in Int
  BY <1>1, Division
<1> QED
  BY <1>2, Fees DEF Takes

-----------------------------------------------------------------------------
(* The quote goes from bin to bin, and touches only arrays that are held.   *)
WalkStates(view) == [left : Int, out : Int, touched : SUBSET view.held, bins : Int]

Walks(w, view, amount) ==
    /\ w \in [0..LastBin + 1 -> WalkStates(view)]
    /\ w[0] = [left |-> amount, out |-> 0, touched |-> {}, bins |-> 0]
    /\ \A n \in 1..LastBin + 1 : w[n] = Walked(view, w[n - 1], n - 1)
    /\ w[LastBin + 1] = Walk(view, amount)

LEMMA WalkSteps ==
  ASSUME NEW view, view.depth \in [Bins -> Int], NEW amount \in Int
  PROVE  \E w : Walks(w, view, amount)
<1> DEFINE S == [left : Int, out : Int, touched : SUBSET view.held, bins : Int]
           first == [left |-> amount, out |-> 0, touched |-> {}, bins |-> 0]
           N == LastBin + 1
<1>1. N \in Nat /\ LastBin \in Nat /\ first \in S
  BY BinAssumption
<1>2. ASSUME NEW s \in S, NEW n \in 1..N
      PROVE  Walked(view, s, n - 1) \in S
  <2>1. CASE s.left > 0 /\ Quotable(view, n - 1)
    <3> DEFINE b == n - 1
               paid == Least(s.left, Takes(view.depth, b))
    <3>1. b \in Bins /\ ArrayOf(b) \in view.held
      BY <2>1, <1>1 DEF Bins, Quotable
    <3>2. paid \in Int /\ FeeFromGross(paid) \in Int
      BY <3>1, TakesInt, Extremes, Fees
    <3>3. Price[b] \in Int
      BY <3>1, BinAssumption DEF Bins
    <3>4. Filled(view, s, b) = [left |-> s.left - paid,
                                out |-> s.out + (paid - FeeFromGross(paid)) * Price[b],
                                touched |-> s.touched \cup {ArrayOf(b)}, bins |-> s.bins + 1]
      BY DEF Filled
    <3> HIDE DEF paid, b
    <3>5. (paid - FeeFromGross(paid)) * Price[b] \in Int
      BY <3>2, <3>3
    <3>6. s.touched \cup {ArrayOf(b)} \in SUBSET view.held
      BY <3>1
    <3>7. Filled(view, s, b) \in S
      BY <3>2, <3>4, <3>5, <3>6
    <3> QED
      BY <3>7, <2>1 DEF Walked, b
  <2>2. CASE ~(s.left > 0 /\ Quotable(view, n - 1))
    BY <2>2 DEF Walked
  <2> QED
    BY <2>1, <2>2
<1> DEFINE step == [n \in 1..N |-> [s \in S |-> Walked(view, s, n - 1)]]
<1>3. step \in [1..N -> [S -> S]] /\ \A s \in S, n \in 1..N : step[n][s] = Walked(view, s, n - 1)
  <2> HIDE DEF S, N
  <2> QED
    BY <1>2
<1>4. PICK w : Follows(w, N, S, first, step)
  <2> HIDE DEF S, N, first, step
  <2>1. N \in Nat /\ first \in S /\ step \in [1..N -> [S -> S]]
    BY <1>1, <1>3
  <2> QED
    BY <2>1, Iterated
<1>5. \A n \in 1..N : w[n - 1] \in S /\ w[n] = Walked(view, w[n - 1], n - 1)
  <2> SUFFICES ASSUME NEW n \in 1..N PROVE w[n - 1] \in S /\ w[n] = Walked(view, w[n - 1], n - 1)
    OBVIOUS
  <2>1. n - 1 \in 0..N
    BY <1>1
  <2> HIDE DEF S, N, first, step
  <2> QED
    BY <2>1, <1>3, <1>4 DEF Follows
<1> DEFINE walked[n \in 0..N] == IF n = 0 THEN first ELSE Walked(view, walked[n - 1], n - 1)
<1>6. walked = [n \in 0..N |-> IF n = 0 THEN first ELSE Walked(view, walked[n - 1], n - 1)]
  <2>1. w = [n \in 0..N |-> IF n = 0 THEN first ELSE Walked(view, w[n - 1], n - 1)]
    <3>1. \A n \in 0..N : n # 0 => n \in 1..N
      BY <1>1
    <3> HIDE DEF S, N, first, step
    <3> QED
      BY <1>4, <1>5, <3>1 DEF Follows
  <2> HIDE DEF S, N, first, step
  <2> QED
    BY <2>1 DEF walked
<1>7. Walk(view, amount) = walked[N]
  BY DEF Walk
<1> DEFINE G == {n \in 0..N : walked[n] \in S}
<1>8. 0 \in G /\ \A n \in 1..N : n - 1 \in G => n \in G
  <2>1. 0 \in 0..N /\ \A n \in 1..N : n \in 0..N /\ n # 0 /\ n - 1 \in 0..N
    BY <1>1
  <2> HIDE DEF S, N, first, step, walked
  <2>2. walked[0] = first /\ \A n \in 1..N : walked[n] = Walked(view, walked[n - 1], n - 1)
    BY <1>6, <2>1
  <2> QED
    BY <1>1, <1>2, <2>1, <2>2
<1>9. \A n \in 0..N : n \in G
  <2> HIDE DEF S, N, G
  <2> QED
    BY <1>1, <1>8, UpTo
<1>10. walked[0] = first /\ \A n \in 1..N : walked[n] = Walked(view, walked[n - 1], n - 1)
  <2>1. 0 \in 0..N /\ \A n \in 1..N : n \in 0..N /\ n # 0
    BY <1>1
  <2> HIDE DEF S, N, first, step, walked
  <2> QED
    BY <1>6, <2>1
<1>11. walked \in [0..N -> S]
  <2> HIDE DEF S, N, first, step
  <2>1. \A n \in 0..N : walked[n] \in S
    <3> HIDE DEF walked
    <3> QED
      BY <1>9
  <2> DEFINE value(n) == IF n = 0 THEN first ELSE Walked(view, walked[n - 1], n - 1)
  <2>2. walked = [n \in 0..N |-> value(n)]
    BY <1>6
  <2> HIDE DEF walked, value
  <2> QED
    BY <2>1, <2>2
<1>12. Walks(walked, view, amount)
  <2> HIDE DEF walked
  <2> QED
    BY <1>7, <1>10, <1>11 DEF Walks, WalkStates
<1> QED
  BY <1>12

LEMMA WalkFacts ==
  ASSUME NEW view, view.depth \in [Bins -> Int], NEW amount \in Int
  PROVE  Walk(view, amount) \in WalkStates(view)
<1>1. PICK w : Walks(w, view, amount)
  BY WalkSteps
<1>2. LastBin + 1 \in 0..LastBin + 1
  BY BinAssumption
<1> QED
  BY <1>1, <1>2 DEF Walks

(* The swap misses only arrays whose accounts it was not sent with. *)
SwapStates == [left : Int, out : Int, missing : SUBSET (Arrays \ window), strange : Int]

Swaps(w, amount) ==
    /\ w \in [0..LastBin + 1 -> SwapStates]
    /\ w[0] = [left |-> amount, out |-> 0, missing |-> {}, strange |-> 0]
    /\ \A n \in 1..LastBin + 1 : w[n] = SwapStep(w[n - 1], n - 1)
    /\ w[LastBin + 1] = Swapped(amount)

LEMMA SwapSteps ==
  ASSUME chain.depth \in [Bins -> Int], NEW amount \in Int
  PROVE  \E w : Swaps(w, amount)
<1> DEFINE S == [left : Int, out : Int, missing : SUBSET (Arrays \ window), strange : Int]
           first == [left |-> amount, out |-> 0, missing |-> {}, strange |-> 0]
           N == LastBin + 1
<1>1. N \in Nat /\ LastBin \in Nat /\ first \in S
  BY BinAssumption
<1>2. ASSUME NEW s \in S, NEW n \in 1..N
      PROVE  SwapStep(s, n - 1) \in S
  <2> DEFINE b == n - 1
             paid == Least(s.left, Takes(chain.depth, b))
             net == paid - FeeFromGross(paid)
             paidOut == Least(chain.depth[b], (net * Price[b]) \div Unit)
             more == IF ArrayOf(b) \in copy.held THEN 0 ELSE 1
  <2>1. b \in Bins /\ ArrayOf(b) \in Arrays
    BY <1>1 DEF Bins, Arrays
  <2>2. paid \in Int /\ net \in Int
    <3>1. Takes(chain.depth, b) \in Int
      BY <2>1, TakesInt
    <3>2. paid \in Int
      BY <3>1, Extremes
    <3> HIDE DEF paid
    <3>3. FeeFromGross(paid) \in Int
      BY <3>2, Fees
    <3> QED
      BY <3>2, <3>3
  <2>3. chain.depth[b] \in Int /\ Price[b] \in Int /\ Unit \in Nat \ {0}
    <3> HIDE DEF b
    <3>1. chain.depth[b] \in Int
      BY <2>1
    <3>2. Price[b] \in Int /\ Unit \in Nat \ {0}
      BY <2>1, BinAssumption DEF Bins
    <3> QED
      BY <3>1, <3>2
  <2>4. paidOut \in Int
    <3> HIDE DEF net, paid, b
    <3>1. net * Price[b] \in Int
      BY <2>2, <2>3
    <3>2. (net * Price[b]) \div Unit \in Int
      BY <3>1, <2>3, Division
    <3> QED
      BY <3>2, <2>3, Extremes
  <2>5. \/ SwapStep(s, b) = s
        \/ ArrayOf(b) \notin window /\ SwapStep(s, b) = [s EXCEPT !.missing = {ArrayOf(b)}]
        \/ SwapStep(s, b) = [s EXCEPT !.left = @ - paid, !.out = @ + paidOut, !.strange = @ + more]
    BY DEF SwapStep
  <2>0. more \in Int
    OBVIOUS
  <2> HIDE DEF b, paid, paidOut, more
  <2>6. SwapStep(s, b) \in S
    <3>1. CASE ArrayOf(b) \notin window /\ SwapStep(s, b) = [s EXCEPT !.missing = {ArrayOf(b)}]
      <4>1. {ArrayOf(b)} \in SUBSET (Arrays \ window)
        BY <2>1, <3>1
      <4> QED
        BY <4>1, <3>1
    <3>2. CASE SwapStep(s, b) = [s EXCEPT !.left = @ - paid, !.out = @ + paidOut,
                                          !.strange = @ + more]
      <4>1. SwapStep(s, b) = [left |-> s.left - paid, out |-> s.out + paidOut,
                              missing |-> s.missing, strange |-> s.strange + more]
        BY <3>2
      <4>2. s.left - paid \in Int /\ s.out + paidOut \in Int /\ s.strange + more \in Int
        BY <2>0, <2>2, <2>4
      <4> QED
        BY <4>1, <4>2
    <3> QED
      BY <2>5, <3>1, <3>2
  <2> QED
    BY <2>6 DEF b
<1> DEFINE step == [n \in 1..N |-> [s \in S |-> SwapStep(s, n - 1)]]
<1>3. step \in [1..N -> [S -> S]] /\ \A s \in S, n \in 1..N : step[n][s] = SwapStep(s, n - 1)
  <2> HIDE DEF S, N
  <2> QED
    BY <1>2
<1>4. PICK w : Follows(w, N, S, first, step)
  <2> HIDE DEF S, N, first, step
  <2>1. N \in Nat /\ first \in S /\ step \in [1..N -> [S -> S]]
    BY <1>1, <1>3
  <2> QED
    BY <2>1, Iterated
<1>5. \A n \in 1..N : w[n - 1] \in S /\ w[n] = SwapStep(w[n - 1], n - 1)
  <2> SUFFICES ASSUME NEW n \in 1..N PROVE w[n - 1] \in S /\ w[n] = SwapStep(w[n - 1], n - 1)
    OBVIOUS
  <2>1. n - 1 \in 0..N
    BY <1>1
  <2> HIDE DEF S, N, first, step
  <2> QED
    BY <2>1, <1>3, <1>4 DEF Follows
<1> DEFINE swapped[n \in 0..N] == IF n = 0 THEN first ELSE SwapStep(swapped[n - 1], n - 1)
<1>6. swapped = [n \in 0..N |-> IF n = 0 THEN first ELSE SwapStep(swapped[n - 1], n - 1)]
  <2>1. w = [n \in 0..N |-> IF n = 0 THEN first ELSE SwapStep(w[n - 1], n - 1)]
    <3>1. \A n \in 0..N : n # 0 => n \in 1..N
      BY <1>1
    <3> HIDE DEF S, N, first, step
    <3> QED
      BY <1>4, <1>5, <3>1 DEF Follows
  <2> HIDE DEF S, N, first, step
  <2> QED
    BY <2>1 DEF swapped
<1>7. Swapped(amount) = swapped[N]
  BY DEF Swapped
<1> DEFINE G == {n \in 0..N : swapped[n] \in S}
<1>8. 0 \in G /\ \A n \in 1..N : n - 1 \in G => n \in G
  <2>1. 0 \in 0..N /\ \A n \in 1..N : n \in 0..N /\ n # 0 /\ n - 1 \in 0..N
    BY <1>1
  <2> HIDE DEF S, N, first, step, swapped
  <2>2. swapped[0] = first /\ \A n \in 1..N : swapped[n] = SwapStep(swapped[n - 1], n - 1)
    BY <1>6, <2>1
  <2> QED
    BY <1>1, <1>2, <2>1, <2>2
<1>9. \A n \in 0..N : n \in G
  <2> HIDE DEF S, N, G
  <2> QED
    BY <1>1, <1>8, UpTo
<1>10. swapped[0] = first /\ \A n \in 1..N : swapped[n] = SwapStep(swapped[n - 1], n - 1)
  <2>1. 0 \in 0..N /\ \A n \in 1..N : n \in 0..N /\ n # 0
    BY <1>1
  <2> HIDE DEF S, N, first, step, swapped
  <2> QED
    BY <1>6, <2>1
<1>11. swapped \in [0..N -> S]
  <2> HIDE DEF S, N, first, step
  <2>1. \A n \in 0..N : swapped[n] \in S
    <3> HIDE DEF swapped
    <3> QED
      BY <1>9
  <2> DEFINE value(n) == IF n = 0 THEN first ELSE SwapStep(swapped[n - 1], n - 1)
  <2>2. swapped = [n \in 0..N |-> value(n)]
    BY <1>6
  <2> HIDE DEF swapped, value
  <2> QED
    BY <2>1, <2>2
<1>12. Swaps(swapped, amount)
  <2> HIDE DEF swapped
  <2> QED
    BY <1>7, <1>10, <1>11 DEF Swaps, SwapStates
<1> QED
  BY <1>12

LEMMA SwappedFacts ==
  ASSUME chain.depth \in [Bins -> Int], NEW amount \in Int
  PROVE  Swapped(amount) \in SwapStates
<1>1. PICK w : Swaps(w, amount)
  BY SwapSteps
<1>2. LastBin + 1 \in 0..LastBin + 1
  BY BinAssumption
<1> QED
  BY <1>1, <1>2 DEF Swaps

-----------------------------------------------------------------------------
(* The accounts of the swap. *)

LEMMA ArraysFinite == IsFiniteSet(Arrays) /\ Arrays \subseteq Nat
<1>1. IsFiniteSet(Bins) /\ Bins \subseteq Nat
  BY BinAssumption, FS_Interval DEF Bins
<1>2. IsFiniteSet(Arrays)
  <2> DEFINE f == [b \in Bins |-> ArrayOf(b)]
  <2>1. f \in Surjection(Bins, Arrays)
    BY DEF Surjection, Arrays
  <2> HIDE DEF f
  <2> QED
    BY <1>1, <2>1, FS_Surjection
<1>3. ASSUME NEW b \in Bins PROVE ArrayOf(b) \in Nat
  <2>1. b \in Nat /\ b >= 0 /\ BinsPerArray \in Nat \ {0}
    BY <1>1, BinAssumption
  <2>2. b \div BinsPerArray \in Int /\ b \div BinsPerArray >= 0
    BY <2>1, Division
  <2> QED
    BY <2>2 DEF ArrayOf
<1> QED
  BY <1>2, <1>3 DEF Arrays

(* A list joins as a whole, or until there is no room. *)
LEMMA JoinedFacts ==
  ASSUME NEW w, IsFiniteSet(w), NEW more, IsFiniteSet(more), more \subseteq Nat
  PROVE  /\ w \subseteq Joined(w, more) /\ Joined(w, more) \subseteq w \cup more
         /\ IsFiniteSet(Joined(w, more))
         /\ more \subseteq Joined(w, more) \/ Cardinality(Joined(w, more)) >= WindowSize
<1> DEFINE absent == more \ w
           before(a) == {x \in absent : x < a}
           j == w \cup {a \in absent : Cardinality(w) + Cardinality(before(a)) < WindowSize}
<1>1. Joined(w, more) = j
  BY DEF Joined
<1>2. w \subseteq j /\ j \subseteq w \cup more /\ IsFiniteSet(w \cup more)
  BY FS_Union
<1>3. IsFiniteSet(j)
  <2> HIDE DEF j
  <2> QED
    BY <1>2, FS_Subset
<1>4. ASSUME ~(more \subseteq j)
      PROVE  Cardinality(j) >= WindowSize
  <2> DEFINE out == {a \in absent : a \notin j}
  <2>1. out # {} /\ out \subseteq Nat
    BY <1>2, <1>4
  <2>2. PICK a \in out : \A x \in out : a <= x
    <3> HIDE DEF out
    <3> QED
      BY <2>1, LeastOf
  <2> DEFINE B == before(a)
  <2>3. Cardinality(w) \in Nat /\ WindowSize \in Nat
    BY BinAssumption, FS_CardinalityType
  <2>4. IsFiniteSet(B) /\ B \cap w = {} /\ B \subseteq absent
    <3>1. B \subseteq more /\ B \cap w = {} /\ B \subseteq absent
      OBVIOUS
    <3> HIDE DEF B
    <3> QED
      BY <3>1, FS_Subset
  <2>5. Cardinality(B) \in Nat
    <3> HIDE DEF B
    <3> QED
      BY <2>4, FS_CardinalityType
  <2>6. ~(Cardinality(w) + Cardinality(B) < WindowSize)
    BY <2>2
  <2>7. B \subseteq j
    <3> SUFFICES ASSUME NEW x \in B, x \notin j PROVE FALSE
      OBVIOUS
    <3>1. x \in out /\ x < a /\ x \in Nat /\ a \in Nat
      BY <2>1, <2>2
    <3>2. a <= x
      BY <2>2, <3>1
    <3> QED
      BY <3>1, <3>2
  <2>8. w \cup B \subseteq j
    BY <1>2, <2>7
  <2>9. Cardinality(w \cup B) = Cardinality(w) + Cardinality(B)
    <3> HIDE DEF B
    <3>1. Cardinality(w \cup B) = Cardinality(w) + Cardinality(B) - Cardinality(w \cap B)
      BY <2>4, FS_Union
    <3>2. w \cap B = {}
      BY <2>4
    <3> QED
      BY <3>1, <3>2, <2>3, <2>5, FS_EmptySet
  <2> HIDE DEF j, B
  <2>10. Cardinality(w \cup B) <= Cardinality(j) /\ Cardinality(j) \in Nat
    BY <1>3, <2>8, FS_Subset, FS_CardinalityType
  <2> QED
    BY <2>3, <2>5, <2>6, <2>9, <2>10
<1> HIDE DEF j
<1> QED
  BY <1>1, <1>2, <1>3, <1>4

(* Whatever is known here of a pool is among the accounts, or there was no *)
(* room for it.                                                            *)
LEMMA WindowForFacts ==
  ASSUME NEW view, NEW made, made \subseteq Arrays, view.active \in Bins,
         view.held \subseteq made, view.bitmap \subseteq made
  PROVE  /\ WindowFor(view, made) \subseteq made
         /\ \/ AnyLiquidity(view) \cup Marked(view) \subseteq WindowFor(view, made)
            \/ Cardinality(WindowFor(view, made)) >= WindowSize
<1> DEFINE r == Relevant(view)
           l == AnyLiquidity(view)
           m == Marked(view)
           d == Derived(view)
<1>1. r \subseteq made /\ l \subseteq made /\ m \subseteq made /\ d \subseteq Nat
  <2>1. Current(view) \in Nat
    BY ArraysFinite DEF Current, Arrays
  <2> QED
    BY <2>1 DEF Relevant, AnyLiquidity, Marked, Derived
<1>2. /\ IsFiniteSet(made) /\ made \subseteq Nat /\ IsFiniteSet(r) /\ IsFiniteSet(l)
      /\ IsFiniteSet(m) /\ IsFiniteSet(d)
  <2>1. IsFiniteSet(made) /\ made \subseteq Nat
    BY ArraysFinite, FS_Subset
  <2>2. IsFiniteSet(d)
    <3>1. Current(view) \in Nat /\ Current(view) + WindowSize - 1 \in Int
      <4>1. Current(view) \in Arrays
        BY DEF Current, Arrays
      <4>2. Arrays \subseteq Nat /\ WindowSize \in Int
        BY ArraysFinite, BinAssumption
      <4> DEFINE c == Current(view)
      <4> HIDE DEF c
      <4>3. c \in Nat
        BY <4>1, <4>2 DEF c
      <4>4. c + WindowSize - 1 \in Int
        BY <4>2, <4>3
      <4> QED
        BY <4>3, <4>4 DEF c
    <3> QED
      BY <3>1, FS_Interval DEF Derived
  <2> HIDE DEF r, l, m, d
  <2> QED
    BY <1>1, <2>1, <2>2, FS_Subset
<1> HIDE DEF r, l, m, d
<1> DEFINE j1 == Joined({}, r)
           j2 == Joined(j1, l)
           j3 == Joined(j2, m)
           j4 == Joined(j3, d)
<1>3. IsFiniteSet(j1) /\ j1 \subseteq made
  <2>1. IsFiniteSet({}) /\ r \subseteq Nat
    BY <1>1, <1>2, FS_EmptySet
  <2>2. IsFiniteSet(j1) /\ j1 \subseteq {} \cup r
    BY <2>1, <1>2, JoinedFacts
  <2> QED
    BY <2>2, <1>1
<1> HIDE DEF j1
<1>4. /\ IsFiniteSet(j2) /\ j2 \subseteq made /\ j1 \subseteq j2
      /\ l \subseteq j2 \/ Cardinality(j2) >= WindowSize
  <2>1. l \subseteq Nat
    BY <1>1, <1>2
  <2> QED
    BY <2>1, <1>1, <1>2, <1>3, JoinedFacts
<1> HIDE DEF j2
<1>5. /\ IsFiniteSet(j3) /\ j3 \subseteq made /\ j2 \subseteq j3
      /\ m \subseteq j3 \/ Cardinality(j3) >= WindowSize
  <2>1. m \subseteq Nat
    BY <1>1, <1>2
  <2> QED
    BY <2>1, <1>1, <1>2, <1>4, JoinedFacts
<1> HIDE DEF j3
<1>6. IsFiniteSet(j4) /\ j3 \subseteq j4
  BY <1>1, <1>2, <1>5, JoinedFacts
<1>7. WindowFor(view, made) = j4 \cap made
  BY DEF WindowFor, Retained, r, l, m, d, j1, j2, j3
<1> HIDE DEF j4
<1>8. j3 \subseteq j4 \cap made /\ IsFiniteSet(j4 \cap made)
  <2>1. j4 \cap made \subseteq j4
    OBVIOUS
  <2> QED
    BY <2>1, <1>5, <1>6, FS_Subset
<1>9. Cardinality(j2) <= Cardinality(j3) /\ Cardinality(j3) <= Cardinality(j4 \cap made)
  BY <1>5, <1>8, FS_Subset
<1>10. /\ Cardinality(j2) \in Nat /\ Cardinality(j3) \in Nat /\ Cardinality(j4 \cap made) \in Nat
       /\ WindowSize \in Nat
  BY <1>4, <1>5, <1>8, FS_CardinalityType, BinAssumption
<1>11. l \cup m \subseteq j4 \cap made \/ Cardinality(j4 \cap made) >= WindowSize
  <2>1. CASE Cardinality(j2) >= WindowSize \/ Cardinality(j3) >= WindowSize
    BY <2>1, <1>9, <1>10
  <2>2. CASE l \subseteq j2 /\ m \subseteq j3
    BY <2>2, <1>5, <1>8
  <2> QED
    BY <2>1, <2>2, <1>4, <1>5
<1> QED
  BY <1>7, <1>11 DEF l, m

LEMMA WindowFacts ==
  ASSUME NEW view, NEW quote, NEW made, made \subseteq Arrays, view.active \in Bins,
         view.held \subseteq made, view.bitmap \subseteq made,
         NEW w, w = WindowForInput(view, quote, made)
  PROVE  /\ w \subseteq made
         /\ \/ w = Unbuildable
            \/ AnyLiquidity(view) \cup Marked(view) \subseteq w
            \/ Cardinality(w) >= WindowSize
<1> DEFINE exact == Retained(ExactArrays(view, quote), made)
           all == WindowFor(view, made)
           known == AnyLiquidity(view) \cup Marked(view)
<1>1. all \subseteq made /\ (known \subseteq all \/ Cardinality(all) >= WindowSize)
  BY WindowForFacts
<1>2. exact \subseteq made
  BY DEF Retained
<1>3. w = Unbuildable \/ w = all \/ w = Joined(exact, all)
  BY DEF WindowForInput
<1>4. Unbuildable \subseteq made
  BY DEF Unbuildable
<1>5. IsFiniteSet(made) /\ made \subseteq Nat
  BY ArraysFinite, FS_Subset
<1> HIDE DEF exact, all, known
<1>6. IsFiniteSet(exact) /\ IsFiniteSet(all) /\ all \subseteq Nat
  BY <1>1, <1>2, <1>5, FS_Subset
<1> DEFINE j == Joined(exact, all)
<1>7. /\ exact \subseteq j /\ j \subseteq exact \cup all /\ IsFiniteSet(j)
      /\ all \subseteq j \/ Cardinality(j) >= WindowSize
  BY <1>6, JoinedFacts
<1> HIDE DEF j
<1>8. all \subseteq j => Cardinality(all) <= Cardinality(j)
  BY <1>7, FS_Subset
<1>9. Cardinality(all) \in Nat /\ Cardinality(j) \in Nat /\ WindowSize \in Nat
  BY <1>6, <1>7, FS_CardinalityType, BinAssumption
<1>10. known \subseteq j \/ Cardinality(j) >= WindowSize
  BY <1>1, <1>7, <1>8, <1>9
<1>11. j \subseteq made
  BY <1>1, <1>2, <1>7
<1> QED
  BY <1>1, <1>3, <1>4, <1>10, <1>11 DEF j, known

-----------------------------------------------------------------------------
(* Amounts of the PumpSwap pool. *)

LEMMA Products ==
  ASSUME NEW m \in Nat \ {0}, NEW n \in Nat \ {0}
  PROVE  m * n \in Nat \ {0}
  OBVIOUS

LEMMA PumpFacts ==
  ASSUME NEW rate \in Rates, NEW n \in Int
  PROVE  PumpBuys(n, rate) \in Int /\ PumpCosts(n, rate) \in Int /\ PumpSells(n, rate) \in Int
<1>1. rate \in Nat \ {0} /\ 100 - PumpFee \in Nat \ {0}
  BY TradeAssumption
<1>2. rate * (100 - PumpFee) \in Nat \ {0} /\ 100 * rate \in Nat \ {0}
  BY <1>1, Products
<1>3. n * rate \in Int /\ n * 100 \in Int /\ n * (100 - PumpFee) \in Int
  BY <1>1
<1>4. PumpBuys(n, rate) \in Int
  BY <1>1, <1>3, Percents DEF PumpBuys
<1>5. PumpCosts(n, rate) \in Int
  BY <1>2, <1>3, Division DEF PumpCosts
<1>6. PumpSells(n, rate) \in Int
  BY <1>2, <1>3, Division DEF PumpSells
<1> QED
  BY <1>4, <1>5, <1>6

(* A size is paid at least, and buys something. *)
LEMMA QuoteInFacts ==
  ASSUME NEW size \in Sizes, copy.rate \in Rates
  PROVE  TokensSafe(size) \in Nat \ {0} /\ QuoteIn(size) \in Nat \ {0}
<1>1. size \in Nat \ {0} /\ size \in Int /\ BuySlip \in Int /\ 100 - BuySlip \in Int /\ 100 + BuySlip \in Int
  BY TradeAssumption
<1>2. Percent(PumpBuys(size, copy.rate), 100 - BuySlip) \in Int
  BY <1>1, PumpFacts, Percents
<1>3. TokensSafe(size) \in Int /\ TokensSafe(size) >= 1
  BY <1>2, Extremes DEF TokensSafe
<1> DEFINE required == AtLeast1(PumpCosts(TokensSafe(size), copy.rate))
           raised == CeilDiv(required * (100 + BuySlip), 100)
<1>4. required \in Int
  BY <1>3, PumpFacts, Extremes
<1>5. QuoteIn(size) = Most(Most(size, required), raised)
  BY DEF QuoteIn
<1> HIDE DEF required
<1>6. required * (100 + BuySlip) \in Int
  BY <1>1, <1>4
<1>7. raised \in Int
  BY <1>6, Division
<1> HIDE DEF raised
<1>8. Most(size, required) \in Int /\ Most(size, required) >= size
  BY <1>1, <1>4, Extremes
<1>9. QuoteIn(size) \in Int /\ QuoteIn(size) >= Most(size, required)
  BY <1>5, <1>7, <1>8, Extremes
<1> QED
  BY <1>1, <1>3, <1>8, <1>9

LEMMA QuoteFacts ==
  ASSUME NEW view, view.depth \in [Bins -> Int], NEW amount \in Int, NEW quote,
         quote = QuoteDetail(view, amount), quote # NoQuote
  PROVE  quote.out \in Int /\ quote.touched \subseteq view.held
<1> DEFINE w == Walk(view, amount)
<1>1. w \in [left : Int, out : Int, touched : SUBSET view.held, bins : Int]
  BY WalkFacts DEF WalkStates
<1>2. quote = [out |-> Conservative(w.out), touched |-> w.touched, bins |-> w.bins]
  BY DEF QuoteDetail
<1> HIDE DEF w
<1>3. 10000 * Unit \in Nat \ {0} /\ w.out * 9990 \in Int
  BY <1>1, BinAssumption
<1>4. Conservative(w.out) \in Int
  <2> DEFINE m == w.out * 9990
             n == 10000 * Unit
  <2> HIDE DEF m, n
  <2>2. m \in Int /\ n \in Nat \ {0}
    BY <1>3 DEF m, n
  <2>1. m \div n \in Int
    BY <2>2, Division
  <2> QED
    BY <2>1 DEF Conservative, m, n
<1> QED
  BY <1>1, <1>2, <1>4

LEMMA PromisedInt ==
  ASSUME NEW quote, quote.out \in Int
  PROVE  Promised(quote) \in Int
<1>1. SellSlippage(quote) \in Int /\ 100 - SellSlippage(quote) \in Int
  BY TradeAssumption DEF SellSlippage
<1>2. Percent(AtLeast1(quote.out), 100 - SellSlippage(quote)) \in Int
  BY <1>1, Extremes, Percents
<1> QED
  BY <1>2, Extremes DEF Promised

(* A planned tip is not negative. *)
LEMMA TipFacts ==
  ASSUME NEW gross \in Int, NEW paid \in Nat \ {0}
  PROVE  PlannedTip(gross, paid) \in Nat
<1>1. gross * 100 \in Int /\ MaxShare - MinShare \in Int /\ FullSharePct \in Nat \ {0}
      /\ MinShare \in Int /\ FullSharePct \in Int
  BY TradeAssumption
<1> DEFINE part == Least((gross * 100) \div paid, FullSharePct)
<1>2. part \in Int
  <2>1. (gross * 100) \div paid \in Int
    BY <1>1, Division
  <2> QED
    BY <1>1, <2>1, Extremes
<1>3. Share(gross, paid) = MinShare + ((MaxShare - MinShare) * part) \div FullSharePct
  BY DEF Share
<1> HIDE DEF part
<1>4. (MaxShare - MinShare) * part \in Int
  BY <1>1, <1>2
<1>5. ((MaxShare - MinShare) * part) \div FullSharePct \in Int
  BY <1>1, <1>4, Division
<1>6. Percent(gross, Share(gross, paid)) \in Int
  BY <1>1, <1>3, <1>5, Percents
<1>7. MinTip \in Nat /\ MaxTip \in Nat /\ ConfiguredTip \in Nat
  BY TradeAssumption
<1> DEFINE p == Percent(gross, Share(gross, paid))
<1>8. Least(Most(p, MinTip), MaxTip) \in Nat
  <2>1. p \in Int /\ MinTip \in Int /\ MaxTip \in Int
    BY <1>6, <1>7
  <2> HIDE DEF p
  <2> DEFINE q == Most(p, MinTip)
  <2>2. q \in Int /\ q >= MinTip
    BY <2>1, Extremes
  <2> HIDE DEF q
  <2>3. q >= 0 /\ MaxTip >= 0
    BY <1>7, <2>2
  <2>4. Least(q, MaxTip) \in Int /\ Least(q, MaxTip) >= 0
    BY <2>1, <2>2, <2>3, Extremes
  <2> QED
    BY <2>4 DEF q
<1> QED
  BY <1>7, <1>8 DEF PlannedTip, DynamicTip

-----------------------------------------------------------------------------
(* What a quote prices, and what a swap pays. *)

(* Factors, quotients, and quotients rounded up. *)
LEMMA Monotone ==
  ASSUME NEW k \in Nat, NEW m \in Int, NEW n \in Int, m <= n
  PROVE  k * m \in Int /\ k * n \in Int /\ k * m <= k * n
<1>1. n - m \in Nat
  OBVIOUS
<1>2. k * (n - m) \in Nat
  BY <1>1
<1>3. k * (n - m) = k * n - k * m /\ k * m \in Int /\ k * n \in Int
  OBVIOUS
<1> QED
  BY <1>2, <1>3

LEMMA DivBounds ==
  ASSUME NEW m \in Int, NEW n \in Nat \ {0}
  PROVE  /\ n * (m \div n) <= m /\ m < n * (m \div n) + n
  OBVIOUS

LEMMA CeilBounds ==
  ASSUME NEW m \in Int, NEW n \in Nat \ {0}
  PROVE  /\ CeilDiv(m, n) \in Int /\ n * CeilDiv(m, n) >= m /\ n * CeilDiv(m, n) <= m + n - 1
<1> DEFINE k == m + n - 1
           c == k \div n
<1>1. k \in Int /\ c \in Int
  BY Division
<1>2. n * c <= k /\ k < n * c + n
  BY <1>1, DivBounds
<1>3. CeilDiv(m, n) = c
  BY DEF CeilDiv
<1> HIDE DEF c
<1>4. n * c \in Int
  BY <1>1
<1> QED
  BY <1>1, <1>2, <1>3, <1>4

(* The part of the payment that is not a fee. *)
Kept == FeeDen - FeeNum
Net(x) == x - FeeFromGross(x)

(* A fee is rounded up: by less than one. *)
LEMMA NetBounds ==
  ASSUME NEW x \in Int
  PROVE  /\ Net(x) \in Int
         /\ FeeDen * Net(x) <= Kept * x
         /\ FeeDen * Net(x) >= Kept * x - FeeDen + 1
<1>1. FeeDen \in Nat \ {0} /\ FeeNum \in Nat /\ Kept \in Nat \ {0}
  BY BinAssumption DEF Kept
<1> DEFINE fee == CeilDiv(x * FeeNum, FeeDen)
<1>2. x * FeeNum \in Int
  BY <1>1
<1>3. fee \in Int /\ FeeDen * fee >= x * FeeNum /\ FeeDen * fee <= x * FeeNum + FeeDen - 1
  BY <1>1, <1>2, CeilBounds
<1>4. Net(x) = x - fee
  BY DEF Net, FeeFromGross
<1> HIDE DEF fee
<1>5. FeeDen * Net(x) = FeeDen * x - FeeDen * fee /\ Kept * x = FeeDen * x - x * FeeNum
  BY <1>1, <1>3, <1>4 DEF Kept
<1>6. FeeDen * x \in Int /\ FeeDen * fee \in Int
  BY <1>1, <1>3
<1> QED
  BY <1>1, <1>2, <1>3, <1>4, <1>5, <1>6

(* What buys all a bin holds, before the fee. *)
Clears(depth, b) == CeilDiv(depth[b] * Unit, Price[b])

(* What a bin takes clears it with the fee on top, rounded up twice. *)
LEMMA TakesBounds ==
  ASSUME NEW depth \in [Bins -> Int], NEW b \in Bins, depth[b] > 0
  PROVE  /\ Clears(depth, b) \in Nat \ {0}
         /\ Clears(depth, b) * Price[b] >= depth[b] * Unit
         /\ Clears(depth, b) * Price[b] <= depth[b] * Unit + Price[b] - 1
         /\ Takes(depth, b) \in Nat \ {0}
         /\ Kept * Takes(depth, b) >= FeeDen * Clears(depth, b)
         /\ Kept * Takes(depth, b) <= FeeDen * Clears(depth, b) + Kept - 1
<1>1. /\ FeeDen \in Nat \ {0} /\ FeeNum \in Nat /\ Kept \in Nat \ {0} /\ FeeDen - FeeNum = Kept
      /\ Price[b] \in Nat \ {0} /\ Unit \in Nat \ {0} /\ depth[b] \in Nat \ {0}
  BY BinAssumption DEF Kept, Bins
<1> DEFINE p == Price[b]
           held == depth[b] * Unit
           net == CeilDiv(held, p)
           fee == CeilDiv(net * FeeNum, Kept)
<1>2. held \in Nat \ {0}
  BY <1>1, Products
<1>3. Clears(depth, b) = net /\ Takes(depth, b) = net + fee
  BY <1>1 DEF Clears, Takes, FeeForNet
<1>0. p \in Nat \ {0}
  BY <1>1
<1> HIDE DEF held, p
<1>4. net \in Int /\ p * net >= held /\ p * net <= held + p - 1
  BY <1>0, <1>2, CeilBounds
<1> HIDE DEF net
<1>5. net \in Nat \ {0}
  <2>1. ASSUME net <= 0 PROVE FALSE
    <3>1. p * net <= p * 0
      BY <1>0, <1>4, <2>1, Monotone
    <3> QED
      BY <1>0, <1>2, <1>4, <3>1
  <2> QED
    BY <1>4, <2>1
<1>6. net * FeeNum \in Nat
  BY <1>1, <1>5
<1>7. fee \in Int /\ Kept * fee >= net * FeeNum /\ Kept * fee <= net * FeeNum + Kept - 1
  BY <1>1, <1>6, CeilBounds
<1> HIDE DEF fee
<1>8. fee \in Nat
  <2>1. ASSUME fee < 0 PROVE FALSE
    <3>1. Kept * fee <= Kept * (-1)
      BY <1>1, <1>7, <2>1, Monotone
    <3>2. Kept * (-1) = -Kept /\ Kept * fee \in Int
      BY <1>1, <1>7
    <3>3. Kept * fee < 0
      BY <1>1, <3>1, <3>2
    <3> HIDE DEF Kept
    <3> QED
      BY <1>6, <1>7, <3>2, <3>3
  <2> QED
    BY <1>7, <2>1
<1>9. Kept * (net + fee) = Kept * net + Kept * fee /\ FeeDen * net = Kept * net + net * FeeNum
  BY <1>1, <1>5, <1>8 DEF Kept
<1>10. Kept * net \in Int /\ Kept * fee \in Int /\ FeeDen * net \in Int
  BY <1>1, <1>5, <1>8
<1>11. /\ Kept * (net + fee) >= FeeDen * net
       /\ Kept * (net + fee) <= FeeDen * net + Kept - 1
  BY <1>1, <1>6, <1>7, <1>9, <1>10
<1>12. net * p = p * net
  BY <1>0, <1>5
<1> QED
  BY <1>1, <1>3, <1>4, <1>5, <1>8, <1>11, <1>12 DEF held, p

(* What one unit buys at the best price, and no bin after the first pays   *)
(* more.                                                                   *)
Worth == Unit * CeilDiv(Price[0], Unit)

(* Prices fall from bin to bin, so that none is above the first. *)
LEMMA WorthFacts ==
  /\ Worth \in Nat \ {0} /\ Worth >= Unit
  /\ \A b \in Bins : Price[b] \in Nat \ {0} /\ Price[b] <= Worth
<1>1. /\ LastBin \in Nat /\ Unit \in Nat \ {0} /\ \A b \in Bins : Price[b] \in Nat \ {0}
      /\ \A b \in 0..LastBin - 1 : Price[b + 1] <= Price[b]
  BY BinAssumption DEF Bins
<1>2. Price[0] \in Nat \ {0}
  BY <1>1 DEF Bins
<1> DEFINE one == CeilDiv(Price[0], Unit)
<1>3. one \in Int /\ Unit * one >= Price[0]
  BY <1>1, <1>2, CeilBounds
<1> HIDE DEF one
<1>4. one >= 1
  <2>1. ASSUME one <= 0 PROVE FALSE
    <3>1. Unit * one <= Unit * 0
      BY <1>1, <1>3, <2>1, Monotone
    <3> QED
      BY <1>1, <1>2, <1>3, <3>1
  <2> QED
    BY <1>3, <2>1
<1>5. Worth = Unit * one
  BY DEF Worth, one
<1>6. Unit * 1 <= Unit * one /\ Unit * one \in Int
  BY <1>1, <1>3, <1>4, Monotone
<1>7. Worth \in Nat \ {0} /\ Worth >= Unit /\ Worth >= Price[0]
  BY <1>1, <1>3, <1>5, <1>6
<1> DEFINE G == {n \in 0..LastBin : Price[n] <= Price[0]}
<1>8. 0 \in G /\ \A n \in 1..LastBin : n - 1 \in G => n \in G
  <2>1. 0 \in G
    BY <1>1, <1>2
  <2>2. ASSUME NEW n \in 1..LastBin, n - 1 \in G PROVE n \in G
    <3>1. n - 1 \in 0..LastBin - 1 /\ n \in 0..LastBin /\ n - 1 \in 0..LastBin /\ (n - 1) + 1 = n
      BY <1>1
    <3>2. Price[n] <= Price[n - 1] /\ Price[n - 1] <= Price[0]
      BY <1>1, <2>2, <3>1
    <3>3. Price[n] \in Int /\ Price[n - 1] \in Int /\ Price[0] \in Int
      BY <1>1, <1>2, <3>1 DEF Bins
    <3> QED
      BY <3>1, <3>2, <3>3
  <2> QED
    BY <2>1, <2>2
<1>9. \A n \in 0..LastBin : n \in G
  <2> HIDE DEF G
  <2> QED
    BY <1>1, <1>8, UpTo
<1>10. \A b \in Bins : Price[b] <= Worth
  <2> SUFFICES ASSUME NEW b \in Bins PROVE Price[b] <= Worth
    OBVIOUS
  <2>1. Price[b] <= Price[0] /\ Price[b] \in Int
    BY <1>1, <1>9 DEF Bins
  <2> QED
    BY <1>2, <1>7, <2>1
<1> QED
  BY <1>1, <1>7, <1>10

(* What a bin pays for x: no less than the net of any smaller payment is   *)
(* quoted at, up to one unit; and no less than the payment without its fee *)
(* is worth, up to two.                                                    *)
Pays(b, x) == Least(chain.depth[b], (Net(x) * Price[b]) \div Unit)

(* Who pays more has no less left after the fee. *)
LEMMA NetGrows ==
  ASSUME NEW x \in Nat, NEW y \in Nat, y <= x
  PROVE  Net(x) \in Nat /\ Net(y) \in Nat /\ Net(y) <= Net(x)
<1>1. FeeDen \in Nat \ {0} /\ Kept \in Nat \ {0}
  BY BinAssumption DEF Kept
<1>2. ASSUME NEW u \in Nat, NEW v \in Nat, v <= u PROVE Net(v) <= Net(u)
  <2>1. /\ Net(u) \in Int /\ Net(v) \in Int
        /\ FeeDen * Net(v) <= Kept * v
        /\ FeeDen * Net(u) >= Kept * u - FeeDen + 1
    BY NetBounds
  <2>2. Kept * v <= Kept * u /\ Kept * v \in Int /\ Kept * u \in Int
    BY <1>1, <1>2, Monotone
  <2>3. ASSUME Net(u) < Net(v) PROVE FALSE
    <3>1. FeeDen * (Net(u) + 1) <= FeeDen * Net(v) /\ FeeDen * Net(v) \in Int
      BY <1>1, <2>1, <2>3, Monotone
    <3>2. FeeDen * (Net(u) + 1) = FeeDen * Net(u) + FeeDen /\ FeeDen * Net(u) \in Int
      BY <1>1, <2>1
    <3> HIDE DEF Net
    <3> QED
      BY <1>1, <2>1, <2>2, <3>1, <3>2
  <2> QED
    BY <2>1, <2>3
<1>3. Net(0) = 0
  <2>1. FeeDen * Net(0) <= Kept * 0 /\ FeeDen * Net(0) >= Kept * 0 - FeeDen + 1 /\ Net(0) \in Int
    BY NetBounds
  <2>2. FeeDen * Net(0) <= 0 /\ FeeDen * Net(0) > -FeeDen
    BY <1>1, <2>1
  <2> HIDE DEF Net
  <2>3. ASSUME Net(0) >= 1 PROVE FALSE
    <3>1. FeeDen * 1 <= FeeDen * Net(0)
      BY <1>1, <2>1, <2>3, Monotone
    <3> QED
      BY <1>1, <2>1, <2>2, <3>1
  <2>4. ASSUME Net(0) <= -1 PROVE FALSE
    <3>1. FeeDen * Net(0) <= FeeDen * (-1) /\ FeeDen * (-1) = -FeeDen /\ FeeDen * Net(0) \in Int
      BY <1>1, <2>1, <2>4, Monotone
    <3> QED
      BY <1>1, <2>2, <3>1
  <2> QED
    BY <2>1, <2>3, <2>4
<1>4. Net(0) <= Net(x) /\ Net(0) <= Net(y) /\ Net(y) <= Net(x)
  BY <1>2
<1>5. Net(x) \in Int /\ Net(y) \in Int
  BY NetBounds
<1> QED
  BY <1>3, <1>4, <1>5

(* The net of what a bin takes is what clears it. *)
LEMMA NetOfTakes ==
  ASSUME NEW depth \in [Bins -> Int], NEW b \in Bins, depth[b] > 0
  PROVE  Net(Takes(depth, b)) <= Clears(depth, b)
<1> DEFINE T == Takes(depth, b)
           c == Clears(depth, b)
<1>1. FeeDen \in Nat \ {0} /\ Kept \in Nat \ {0} /\ Kept <= FeeDen
  BY BinAssumption DEF Kept
<1>2. T \in Nat \ {0} /\ c \in Nat \ {0} /\ Kept * T <= FeeDen * c + Kept - 1
  BY TakesBounds
<1> HIDE DEF T, c
<1>3. Net(T) \in Int /\ FeeDen * Net(T) <= Kept * T
  BY <1>2, NetBounds
<1>4. ASSUME Net(T) > c PROVE FALSE
  <2>1. FeeDen * (c + 1) <= FeeDen * Net(T)
    BY <1>1, <1>2, <1>3, <1>4, Monotone
  <2>2. FeeDen * (c + 1) = FeeDen * c + FeeDen /\ FeeDen * c \in Int /\ FeeDen * Net(T) \in Int
        /\ Kept * T \in Int
    BY <1>1, <1>2, <1>3
  <2> HIDE DEF Net
  <2> QED
    BY <1>1, <1>2, <1>3, <2>1, <2>2
<1> QED
  BY <1>2, <1>3, <1>4 DEF T, c

(* A bin that is paid x pays no less than any y up to x is quoted at, up to *)
(* what one unit buys.                                                      *)
LEMMA PaysBounds ==
  ASSUME chain.depth \in [Bins -> Int], NEW b \in Bins, chain.depth[b] > 0,
         NEW x \in Nat, x <= Takes(chain.depth, b), NEW y \in Nat, y <= x
  PROVE  /\ Pays(b, x) \in Nat
         /\ Unit * Pays(b, x) + Worth >= Net(y) * Price[b]
<1> DEFINE d == chain.depth[b]
           p == Price[b]
           T == Takes(chain.depth, b)
           c == Clears(chain.depth, b)
           m == Net(x)
           q == (m * p) \div Unit
<1>1. /\ d \in Nat \ {0} /\ p \in Nat \ {0} /\ Unit \in Nat \ {0} /\ Worth \in Nat
      /\ p <= Worth /\ Unit <= Worth
  BY WorthFacts, BinAssumption
<1>2. c \in Nat \ {0} /\ c * p <= d * Unit + p - 1 /\ T \in Nat \ {0}
  BY TakesBounds
<1>3. m \in Nat /\ m <= c
  <2>1. Net(T) <= c
    BY NetOfTakes
  <2>2. Net(x) \in Nat /\ Net(T) \in Nat /\ Net(x) <= Net(T)
    BY <1>2, NetGrows
  <2> QED
    BY <1>2, <2>1, <2>2
<1>4. Net(y) \in Nat /\ Net(y) <= m
  BY NetGrows
<1>5. Pays(b, x) = Least(d, q)
  BY DEF Pays
<1> HIDE DEF d, p, T, c, m
<1>6. m * p \in Nat
  BY <1>1, <1>3
<1>7. q \in Nat /\ Unit * q <= m * p /\ m * p < Unit * q + Unit
  <2> DEFINE n == m * p
  <2>1. n \in Nat
    BY <1>6
  <2> HIDE DEF n
  <2>2. n \div Unit \in Nat
    <3>1. n \in Int /\ n >= 0
      BY <2>1
    <3> DEFINE r == n \div Unit
    <3>2. r \in Int /\ (n >= 0 => r >= 0)
      BY <1>1, <3>1, Division, Zenon
    <3> HIDE DEF r
    <3>3. r \in Nat
      BY <3>1, <3>2
    <3> QED
      BY <3>3 DEF r
  <2>3. Unit * (n \div Unit) <= n /\ n < Unit * (n \div Unit) + Unit
    BY <1>1, <2>1, DivBounds
  <2> QED
    BY <2>2, <2>3 DEF n
<1> HIDE DEF q
<1>8. Pays(b, x) \in Nat /\ (Pays(b, x) = d \/ Pays(b, x) = q)
  BY <1>1, <1>5, <1>7 DEF Least
<1>9. Net(y) * p <= m * p /\ m * p <= c * p
  <2>1. p * Net(y) <= p * m /\ p * m <= p * c
    BY <1>1, <1>2, <1>3, <1>4, Monotone
  <2> HIDE DEF Net
  <2>2. p * Net(y) = Net(y) * p /\ p * m = m * p /\ p * c = c * p
    BY <1>1, <1>2, <1>3, <1>4
  <2> QED
    BY <2>1, <2>2
<1> HIDE DEF Pays
<1> DEFINE o == Pays(b, x)
           e == Net(y) * p
<1>10. e \in Int /\ c * p \in Int
  <2> HIDE DEF Net
  <2> QED
    BY <1>1, <1>2, <1>4
<1> HIDE DEF Net, e
<1>11. CASE o = d
  <2>1. Unit * o = d * Unit
    BY <1>1, <1>11
  <2>2. d * Unit \in Int
    BY <1>1
  <2>3. e <= m * p
    BY <1>9 DEF e
  <2>4. Unit * o + Worth >= e
    BY <1>1, <1>2, <1>6, <1>9, <1>10, <2>1, <2>2, <2>3
  <2> QED
    BY <1>8, <2>4 DEF e, p
<1>12. CASE o = q
  <2>1. Unit * q \in Int /\ e <= m * p
    BY <1>1, <1>7, <1>9 DEF e
  <2>2. Unit * o + Worth >= e
    BY <1>1, <1>6, <1>7, <1>10, <1>12, <2>1
  <2> QED
    BY <1>8, <2>2 DEF e, p
<1> QED
  BY <1>8, <1>11, <1>12

(* Times the denominator of the fee: no quote exceeds what is left of the  *)
(* payment, and no bin pays much less.                                     *)
LEMMA QuotedWorth ==
  ASSUME NEW b \in Bins, NEW y \in Nat
  PROVE  FeeDen * (Net(y) * Price[b]) <= Kept * (y * Price[b])
<1> DEFINE p == Price[b]
<1>1. FeeDen \in Nat \ {0} /\ Kept \in Nat \ {0} /\ p \in Nat \ {0}
  BY WorthFacts, BinAssumption DEF Kept
<1>2. Net(y) \in Int /\ FeeDen * Net(y) <= Kept * y
  BY NetBounds
<1> HIDE DEF p, Net, Kept
<1>3. FeeDen * Net(y) \in Int /\ Kept * y \in Int
  BY <1>1, <1>2
<1>4. p * (FeeDen * Net(y)) <= p * (Kept * y)
  BY <1>1, <1>2, <1>3, Monotone
<1>5. p * (FeeDen * Net(y)) = FeeDen * (Net(y) * p) /\ p * (Kept * y) = Kept * (y * p)
  BY <1>1, <1>2
<1> QED
  BY <1>4, <1>5 DEF p

(* A bin pays what its payment is worth, up to two units. *)
LEMMA PaidWorth ==
  ASSUME chain.depth \in [Bins -> Int], NEW b \in Bins, chain.depth[b] > 0,
         NEW x \in Nat, x <= Takes(chain.depth, b)
  PROVE  FeeDen * (Unit * Pays(b, x) + 2 * Worth) >= Kept * (x * Price[b])
<1> DEFINE p == Price[b]
           o == Unit * Pays(b, x)
           e == Net(x) * p
<1>1. /\ FeeDen \in Nat \ {0} /\ Kept \in Nat \ {0} /\ p \in Nat \ {0} /\ Unit \in Nat
      /\ Worth \in Nat /\ p <= Worth
  BY WorthFacts, BinAssumption DEF Kept
<1>2. Net(x) \in Int /\ FeeDen * Net(x) >= Kept * x - FeeDen + 1
  BY NetBounds
<1>3. Pays(b, x) \in Nat /\ o + Worth >= e
  BY PaysBounds
<1> HIDE DEF p, Net, Kept, Pays, Worth
<1>4. o \in Int /\ e \in Int
  BY <1>1, <1>2, <1>3
<1>5. FeeDen * e <= FeeDen * (o + Worth)
  <2> HIDE DEF o, e
  <2>1. o + Worth \in Int
    BY <1>1, <1>4
  <2> QED
    BY <1>1, <1>3, <1>4, <2>1, Monotone
<1>6. p * (Kept * x - FeeDen + 1) <= p * (FeeDen * Net(x))
  <2>1. Kept * x - FeeDen + 1 \in Int /\ FeeDen * Net(x) \in Int
    BY <1>1, <1>2
  <2> QED
    BY <1>1, <1>2, <2>1, Monotone
<1>7. /\ p * (FeeDen * Net(x)) = FeeDen * e
      /\ p * (Kept * x - FeeDen + 1) = Kept * (x * p) - FeeDen * p + p
  BY <1>1, <1>2
<1>8. FeeDen * p <= FeeDen * Worth
  BY <1>1, Monotone
<1>9. FeeDen * (o + Worth) = FeeDen * o + FeeDen * Worth
      /\ FeeDen * (o + 2 * Worth) = FeeDen * o + 2 * (FeeDen * Worth)
  <2> HIDE DEF o, e
  <2> QED
    BY <1>1, <1>4
<1>10. /\ FeeDen * e \in Int /\ FeeDen * o \in Int /\ FeeDen * Worth \in Int /\ FeeDen * p \in Int
       /\ Kept * (x * p) \in Int
  <2> HIDE DEF o, e
  <2> QED
    BY <1>1, <1>4
<1> HIDE DEF o, e
<1>11. FeeDen * (o + 2 * Worth) >= Kept * (x * p)
  BY <1>1, <1>5, <1>6, <1>7, <1>8, <1>9, <1>10
<1> QED
  BY <1>11 DEF o, p

(* The pools are as the copy has them: price, place, and the bins of the   *)
(* arrays that are held.                                                   *)
SamePool == /\ copy.active = chain.active
            /\ \A b \in Bins : ArrayOf(b) \in copy.held => copy.depth[b] = chain.depth[b]

(* A bin that the swap fills when it gets there, and the quote when the    *)
(* bin's array is held.                                                    *)
Open(b)   == b >= chain.active /\ chain.depth[b] > 0
Strange(b) == ArrayOf(b) \notin copy.held
Fill(left, b) == Least(left, Takes(chain.depth, b))

(* A bin is filled, or takes all that is left. *)
LEMMA FillFacts ==
  ASSUME chain.depth \in [Bins -> Int], NEW b \in Bins, Open(b), NEW left \in Nat
  PROVE  /\ Fill(left, b) \in Nat /\ Fill(left, b) <= left
         /\ Fill(left, b) <= Takes(chain.depth, b)
         /\ Takes(chain.depth, b) \in Nat \ {0}
         /\ Fill(left, b) = left \/ Fill(left, b) = Takes(chain.depth, b)
<1>1. Takes(chain.depth, b) \in Nat \ {0}
  BY TakesBounds DEF Open
<1> QED
  BY <1>1 DEF Fill, Least

(* A step of the quote. *)
LEMMA WalkEffect ==
  ASSUME SamePool, NEW q \in WalkStates(copy), NEW b \in Bins
  PROVE  LET r == Walked(copy, q, b)
             y == Fill(q.left, b)
         IN  /\ Open(b) /\ ~Strange(b) /\ q.left > 0 =>
                   /\ r.left = q.left - y /\ r.out = q.out + Net(y) * Price[b]
                   /\ r.bins = q.bins + 1
             /\ ~(Open(b) /\ ~Strange(b) /\ q.left > 0) => r = q
<1> DEFINE y == Fill(q.left, b)
<1>1. ArrayOf(b) \in copy.held => copy.depth[b] = chain.depth[b] /\ Takes(copy.depth, b) = Takes(chain.depth, b)
  BY DEF SamePool, Takes
<1>2. Quotable(copy, b) <=> Open(b) /\ ~Strange(b)
  BY <1>1 DEF Quotable, Open, Strange, SamePool
<1>3. CASE Open(b) /\ ~Strange(b) /\ q.left > 0
  <2>1. Walked(copy, q, b) = Filled(copy, q, b)
    BY <1>2, <1>3 DEF Walked
  <2>2. Least(q.left, Takes(copy.depth, b)) = y
    BY <1>1, <1>3 DEF Strange, Fill
  <2>3. Filled(copy, q, b) = [left |-> q.left - y, out |-> q.out + (y - FeeFromGross(y)) * Price[b],
                              touched |-> q.touched \cup {ArrayOf(b)}, bins |-> q.bins + 1]
    BY <2>2 DEF Filled
  <2> HIDE DEF y
  <2> QED
    BY <1>3, <2>1, <2>3 DEF Net, y
<1>4. CASE ~(Open(b) /\ ~Strange(b) /\ q.left > 0)
  BY <1>2, <1>4 DEF Walked
<1> QED
  BY <1>3, <1>4

(* A step of the swap, when it misses no array. *)
LEMMA SwapEffect ==
  ASSUME chain.active \in Bins, chain.depth \in [Bins -> Int], NEW c \in SwapStates,
         NEW b \in Bins, c.left \in Nat, SwapStep(c, b).missing = {}
  PROVE  LET r == SwapStep(c, b)
             x == Fill(c.left, b)
         IN  /\ c.missing = {}
             /\ Open(b) /\ c.left > 0 =>
                   /\ r.left = c.left - x /\ r.out = c.out + Pays(b, x)
                   /\ r.strange = c.strange + (IF Strange(b) THEN 1 ELSE 0)
             /\ ~(Open(b) /\ c.left > 0) => r = c
<1> DEFINE x == Fill(c.left, b)
           a == ArrayOf(b)
<1>0. b \in Int /\ chain.active \in Int /\ chain.depth[b] \in Int
  BY BinAssumption DEF Bins
<1>1. c.missing = {}
  <2>1. c.missing # {} => SwapStep(c, b) = c
    BY DEF SwapStep
  <2> QED
    BY <2>1
<1>2. Open(b) => a \in Holding(chain.depth)
  BY DEF Open, Holding
<1>3. CASE Open(b) /\ c.left > 0
  <2>1. ~(b < chain.active \/ c.left = 0 \/ c.missing # {} \/ a \notin Holding(chain.depth))
    <3>1. b >= chain.active => ~(b < chain.active)
      BY <1>0
    <3> QED
      BY <1>1, <1>2, <1>3, <3>1 DEF Open
  <2>2. a \in window
    <3>1. ASSUME a \notin window PROVE FALSE
      <4>1. SwapStep(c, b) = [c EXCEPT !.missing = {a}]
        BY <2>1, <3>1 DEF SwapStep
      <4>2. SwapStep(c, b).missing = {a}
        BY <4>1 DEF SwapStates
      <4> QED
        BY <4>2
    <3> QED
      BY <3>1
  <2>3. SwapStep(c, b) = [c EXCEPT !.left = @ - x,
                                   !.out = @ + Least(chain.depth[b], ((x - FeeFromGross(x)) * Price[b]) \div Unit),
                                   !.strange = @ + (IF a \in copy.held THEN 0 ELSE 1)]
    BY <1>3, <2>1, <2>2 DEF SwapStep, Fill, Open
  <2>4. Least(chain.depth[b], ((x - FeeFromGross(x)) * Price[b]) \div Unit) = Pays(b, x)
    BY DEF Pays, Net
  <2> HIDE DEF x
  <2>5. /\ SwapStep(c, b).left = c.left - x /\ SwapStep(c, b).out = c.out + Pays(b, x)
        /\ SwapStep(c, b).strange = c.strange + (IF Strange(b) THEN 1 ELSE 0)
    BY <2>3, <2>4 DEF SwapStates, Strange
  <2> QED
    BY <1>1, <1>3, <2>5 DEF x
<1>4. CASE ~(Open(b) /\ c.left > 0)
  <2>1. \/ SwapStep(c, b) = c
        \/ SwapStep(c, b) = [c EXCEPT !.missing = {a}]
    <3>1. c.left > 0 \/ c.left = 0
      OBVIOUS
    <3>2. CASE c.left = 0
      BY <3>2 DEF SwapStep
    <3>3. CASE ~Open(b)
      <4>1. b < chain.active \/ chain.depth[b] <= 0
        BY <1>0, <3>3 DEF Open
      <4> QED
        BY <4>1 DEF SwapStep
    <3> QED
      BY <1>4, <3>1, <3>2, <3>3
  <2>2. CASE SwapStep(c, b) = [c EXCEPT !.missing = {a}]
    <3>1. SwapStep(c, b).missing = {a}
      BY <2>2 DEF SwapStates
    <3> QED
      BY <3>1
  <2> QED
    BY <1>1, <1>4, <2>1, <2>2
<1> QED
  BY <1>3, <1>4

(* What tokens are worth at a price, the fee taken off. *)
Value(tokens, price) == Kept * (tokens * price)

(* Worth is additive, and falls with the price. *)
LEMMA ValueFacts ==
  ASSUME NEW m \in Int, NEW n \in Int, NEW p \in Nat
  PROVE  /\ Value(m, p) \in Int
         /\ Value(m + n, p) = Value(m, p) + Value(n, p)
         /\ Value(m - n, p) = Value(m, p) - Value(n, p)
         /\ m >= 0 => Value(m, p) >= 0
         /\ m >= n => Value(m, p) >= Value(n, p)
         /\ m >= 0 => \A r \in Nat : r <= p => Value(m, r) <= Value(m, p)
<1>1. Kept \in Nat \ {0}
  BY BinAssumption DEF Kept
<1> HIDE DEF Kept
<1>2. m * p \in Int /\ n * p \in Int
  OBVIOUS
<1>3. Value(m + n, p) = Value(m, p) + Value(n, p) /\ Value(m - n, p) = Value(m, p) - Value(n, p)
  BY <1>1 DEF Value
<1>4. ASSUME NEW k \in Int, k >= 0 PROVE Value(k, p) >= 0
  <2>1. p * 0 <= p * k
    BY <1>4, Monotone
  <2>2. k * p \in Nat
    BY <1>4, <2>1
  <2>3. Kept * 0 <= Kept * (k * p)
    BY <1>1, <2>2, Monotone
  <2> QED
    BY <1>1, <2>3 DEF Value
<1>5. m >= n => Value(m, p) >= Value(n, p)
  <2>1. m - n \in Int /\ (m >= n => m - n >= 0)
    OBVIOUS
  <2>2. m >= n => Value(m - n, p) >= 0
    BY <1>4, <2>1
  <2>3. Value(m, p) \in Int /\ Value(n, p) \in Int
    BY <1>1, <1>2 DEF Value
  <2> QED
    BY <1>3, <2>2, <2>3
<1>6. ASSUME m >= 0, NEW r \in Nat, r <= p PROVE Value(m, r) <= Value(m, p)
  <2>1. m * r <= m * p
    BY <1>6, Monotone
  <2>2. m * r \in Int
    OBVIOUS
  <2>3. Kept * (m * r) <= Kept * (m * p)
    BY <1>1, <1>2, <2>1, <2>2, Monotone
  <2> QED
    BY <2>3 DEF Value
<1>7. Value(m, p) \in Int
  BY <1>1, <1>2 DEF Value
<1> QED
  BY <1>3, <1>4, <1>5, <1>6, <1>7

LEMMA ValueSums ==
  \A m \in Int, n \in Int, p \in Nat :
     Value(m + n, p) = Value(m, p) + Value(n, p) /\ Value(m - n, p) = Value(m, p) - Value(n, p)
  BY ValueFacts

(* Sums of what is paid and what is quoted, times the denominator. *)
LEMMA Balance ==
  ASSUME NEW a \in Int, NEW o \in Int, NEW q \in Int, NEW g \in Int, NEW r \in Int, NEW s \in Int,
         FeeDen * a >= FeeDen * q + r, FeeDen * o >= FeeDen * g + s
  PROVE  FeeDen * (a + o) >= FeeDen * (q + g) + (r + s)
<1>1. FeeDen \in Nat \ {0}
  BY BinAssumption
<1>2. /\ FeeDen * (a + o) = FeeDen * a + FeeDen * o /\ FeeDen * (q + g) = FeeDen * q + FeeDen * g
      /\ FeeDen * a \in Int /\ FeeDen * o \in Int /\ FeeDen * q \in Int /\ FeeDen * g \in Int
  BY <1>1
<1> QED
  BY <1>2

(* A sum paid settles a sum quoted once nothing else is owed. *)
LEMMA Cancel ==
  ASSUME NEW a \in Int, NEW q \in Int, NEW r \in Int, r >= 0, FeeDen * a >= FeeDen * q + r
  PROVE  a >= q
<1>1. FeeDen \in Nat \ {0}
  BY BinAssumption
<1>2. ASSUME a < q PROVE FALSE
  <2>1. FeeDen * (a + 1) <= FeeDen * q
    BY <1>1, <1>2, Monotone
  <2>2. FeeDen * (a + 1) = FeeDen * a + FeeDen /\ FeeDen * a \in Int /\ FeeDen * q \in Int
    BY <1>1
  <2> QED
    BY <1>1, <2>1, <2>2
<1> QED
  BY <1>2

(* More paid settles as much. *)
LEMMA More ==
  ASSUME NEW a \in Int, NEW o \in Int, a <= o, NEW q \in Int, NEW r \in Int,
         FeeDen * a >= FeeDen * q + r
  PROVE  FeeDen * o >= FeeDen * q + r
<1>1. FeeDen \in Nat \ {0}
  BY BinAssumption
<1>2. FeeDen * a <= FeeDen * o
  BY <1>1, Monotone
<1>3. FeeDen * a \in Int /\ FeeDen * o \in Int /\ FeeDen * q \in Int
  BY <1>1
<1> QED
  BY <1>2, <1>3

-----------------------------------------------------------------------------
(* What the swap has paid out so far, with j units for each strange bin and *)
(* one for each bin quoted.                                                *)
Paid(q, c, j) == Unit * c.out + Worth * (q.bins + j * c.strange)

(* How much more the swap has put in than the quote. *)
Ahead(q, c, amount, given) == (given - c.left) - (amount - q.left)

(* While both go on the swap is ahead only by what strange bins took, at   *)
(* no less than the price reached; when the swap is done, what it was      *)
(* ahead pays for the rest of the quote.                                   *)
Matches(q, c, amount, given, price) ==
    /\ q.left \in Nat /\ c.left \in Nat /\ q.bins \in Nat /\ c.out \in Nat /\ c.strange \in Nat
    /\ q.out \in Int
    /\ q.out # 0 => q.bins >= 1
    /\ q.left = 0 => Paid(q, c, 3) >= q.out
    /\ q.left > 0 /\ c.left > 0 =>
          /\ Ahead(q, c, amount, given) >= 0
          /\ c.strange = 0 => Ahead(q, c, amount, given) = 0
          /\ FeeDen * Paid(q, c, 2) >= FeeDen * q.out + Value(Ahead(q, c, amount, given), price)
    /\ q.left > 0 /\ c.left = 0 =>
          FeeDen * Paid(q, c, 3) >= FeeDen * q.out + Value(Ahead(q, c, amount, given), price)

(* Paid grows by what a bin pays and the units it is given. *)
LEMMA PaidFacts ==
  ASSUME NEW q, NEW c, NEW r, NEW s, NEW j \in {2, 3}, NEW pay \in Nat, NEW m \in {0, 1}, NEW n \in {0, 1},
         q.bins \in Nat, c.out \in Nat, c.strange \in Nat,
         s.out = c.out + pay, s.strange = c.strange + m, r.bins = q.bins + n
  PROVE  /\ Paid(q, c, j) \in Int
         /\ Paid(q, c, 3) = Paid(q, c, 2) + Worth * c.strange
         /\ Worth * c.strange \in Nat /\ (c.strange >= 1 => Worth * c.strange >= Worth)
         /\ Paid(r, s, j) = Paid(q, c, j) + Unit * pay + n * Worth + m * (j * Worth)
         /\ Unit * pay \in Nat
<1>1. Unit \in Nat /\ Worth \in Nat
  BY BinAssumption, WorthFacts
<1> HIDE DEF Worth
<1>2. Paid(q, c, j) \in Int
  BY <1>1 DEF Paid
<1>3. Paid(q, c, 3) = Paid(q, c, 2) + Worth * c.strange
  BY <1>1 DEF Paid
<1>4. Worth * c.strange \in Nat /\ (c.strange >= 1 => Worth * c.strange >= Worth)
  <2>1. c.strange >= 1 => Worth * 1 <= Worth * c.strange
    BY <1>1, Monotone
  <2> QED
    BY <1>1, <2>1
<1>5. Paid(r, s, j) = Paid(q, c, j) + Unit * pay + n * Worth + m * (j * Worth)
  <2>1. Unit * s.out = Unit * c.out + Unit * pay
    BY <1>1
  <2>2. Worth * (r.bins + j * s.strange) = Worth * (q.bins + j * c.strange) + n * Worth + m * (j * Worth)
    BY <1>1
  <2> QED
    BY <1>1, <2>1, <2>2 DEF Paid
<1> QED
  BY <1>1, <1>2, <1>3, <1>4, <1>5

(* What it grows by in a bin that the quote does not know. *)
GrowsStrange(q, c, s, pay) ==
    /\ Paid(q, c, 2) \in Int /\ Paid(q, c, 3) = Paid(q, c, 2) + Worth * c.strange
    /\ Worth * c.strange \in Nat /\ Unit * pay \in Nat
    /\ Paid(q, s, 2) = Paid(q, c, 2) + Unit * pay + 0 * Worth + 1 * (2 * Worth)
    /\ Paid(q, s, 3) = Paid(q, c, 3) + Unit * pay + 0 * Worth + 1 * (3 * Worth)

LEMMA PaidStrange ==
  \A q, c, s, pay :
     /\ q.bins \in Nat /\ c.out \in Nat /\ c.strange \in Nat /\ pay \in Nat
     /\ s.out = c.out + pay /\ s.strange = c.strange + 1
     => GrowsStrange(q, c, s, pay)
<1> SUFFICES ASSUME NEW q, NEW c, NEW s, NEW pay \in Nat,
                    q.bins \in Nat, c.out \in Nat, c.strange \in Nat,
                    s.out = c.out + pay, s.strange = c.strange + 1
             PROVE  GrowsStrange(q, c, s, pay)
  OBVIOUS
<1>1. 2 \in {2, 3} /\ 3 \in {2, 3} /\ 0 \in {0, 1} /\ 1 \in {0, 1} /\ q.bins = q.bins + 0
  OBVIOUS
<1> QED
  BY <1>1, PaidFacts DEF GrowsStrange

(* A step without a bin to fill: nothing is paid or quoted. *)
LEMMA MatchesIdle ==
  ASSUME NEW q, NEW c, NEW amount \in Nat, NEW given \in Nat, amount <= given,
         NEW prev \in Nat, NEW p \in Nat, p <= prev, Matches(q, c, amount, given, prev)
  PROVE  Matches(q, c, amount, given, p)
<1> DEFINE d == Ahead(q, c, amount, given)
<1>1. q.left \in Nat /\ c.left \in Nat
  BY DEF Matches
<1>2. d \in Int /\ (c.left = 0 => d >= 0)
  BY <1>1 DEF Ahead
<1>3. q.left > 0 /\ c.left > 0 => d >= 0
  BY DEF Matches
<1> HIDE DEF d
<1>4. d >= 0 => Value(d, p) <= Value(d, prev) /\ Value(d, p) \in Int /\ Value(d, prev) \in Int
  BY <1>2, ValueFacts
<1>5. /\ q.out # 0 => q.bins >= 1
      /\ q.bins \in Nat /\ c.out \in Nat /\ c.strange \in Nat /\ q.out \in Int
      /\ q.left = 0 => Paid(q, c, 3) >= q.out
      /\ q.left > 0 /\ c.left > 0 =>
            /\ d >= 0 /\ (c.strange = 0 => d = 0)
            /\ FeeDen * Paid(q, c, 2) >= FeeDen * q.out + Value(d, prev)
      /\ q.left > 0 /\ c.left = 0 => FeeDen * Paid(q, c, 3) >= FeeDen * q.out + Value(d, prev)
  BY DEF Matches, d
<1>6. FeeDen \in Nat /\ Unit \in Nat /\ Worth \in Nat
  BY BinAssumption, WorthFacts
<1> HIDE DEF Worth
<1>7. FeeDen * q.out \in Int /\ FeeDen * Paid(q, c, 2) \in Int /\ FeeDen * Paid(q, c, 3) \in Int
  <2>1. Paid(q, c, 2) \in Int /\ Paid(q, c, 3) \in Int
    BY <1>5, <1>6 DEF Paid
  <2> HIDE DEF Paid
  <2> QED
    BY <1>5, <1>6, <2>1
<1> HIDE DEF Paid, Value
<1>8. q.left > 0 /\ c.left > 0 => FeeDen * Paid(q, c, 2) >= FeeDen * q.out + Value(d, p)
  BY <1>4, <1>5, <1>7
<1>9. q.left > 0 /\ c.left = 0 => FeeDen * Paid(q, c, 3) >= FeeDen * q.out + Value(d, p)
  BY <1>2, <1>4, <1>5, <1>7
<1> QED
  BY <1>1, <1>5, <1>8, <1>9 DEF Matches, d

(* The quote is complete: whatever the swap still pays comes on top. *)
LEMMA MatchesAfter ==
  ASSUME NEW q, NEW c, NEW s, NEW amount, NEW given, NEW prev, NEW p,
         Matches(q, c, amount, given, prev), q.left = 0, NEW pay \in Nat, NEW m \in {0, 1},
         s.left \in Nat, s.out = c.out + pay, s.strange = c.strange + m
  PROVE  Matches(q, s, amount, given, p)
<1>1. /\ q.left \in Nat /\ q.bins \in Nat /\ c.out \in Nat /\ c.strange \in Nat /\ q.out \in Int
      /\ Paid(q, c, 3) >= q.out /\ (q.out # 0 => q.bins >= 1)
  BY DEF Matches
<1>2. Worth \in Nat
  BY WorthFacts
<1>3. q.bins = q.bins + 0
  BY <1>1
<1> HIDE DEF Worth
<1>4. /\ Paid(q, c, 3) \in Int /\ Unit * pay \in Nat
      /\ Paid(q, s, 3) = Paid(q, c, 3) + Unit * pay + 0 * Worth + m * (3 * Worth)
  <2>1. 3 \in {2, 3} /\ 0 \in {0, 1}
    OBVIOUS
  <2> QED
    BY <1>1, <1>3, <2>1, PaidFacts
<1>5. Paid(q, s, 3) >= q.out
  <2> HIDE DEF Paid
  <2>1. m = 0 \/ m = 1
    OBVIOUS
  <2> QED
    BY <1>1, <1>2, <1>4, <2>1
<1>6. s.out \in Nat /\ s.strange \in Nat /\ ~(q.left > 0)
  BY <1>1
<1> QED
  BY <1>1, <1>5, <1>6 DEF Matches

(* The swap fills a bin that the quote does not know. *)
LEMMA MatchesStrange ==
  ASSUME chain.depth \in [Bins -> Int], NEW b \in Bins, Open(b),
         NEW q, NEW c, NEW s, NEW amount \in Nat, NEW given \in Nat, amount <= given,
         Matches(q, c, amount, given, Price[b]), q.left > 0, c.left > 0,
         NEW x \in Nat, x <= c.left, x <= Takes(chain.depth, b), s.left = c.left - x, s.out = c.out + Pays(b, x),
         s.strange = c.strange + 1
  PROVE  Matches(q, s, amount, given, Price[b])
<1> DEFINE p == Price[b]
           d == Ahead(q, c, amount, given)
           e == Ahead(q, s, amount, given)
           pay == Pays(b, x)
           more == Unit * pay + 2 * Worth
           paid == Paid(q, c, 2)
<1>1. /\ q.left \in Nat /\ c.left \in Nat /\ q.bins \in Nat /\ c.out \in Nat /\ c.strange \in Nat
      /\ q.out \in Int /\ (q.out # 0 => q.bins >= 1) /\ d >= 0 /\ FeeDen * paid >= FeeDen * q.out + Value(d, p)
  BY DEF Matches
<1>2. FeeDen \in Nat \ {0} /\ Unit \in Nat \ {0} /\ Worth \in Nat /\ p \in Nat
  BY BinAssumption, WorthFacts
<1>3. x <= c.left /\ x <= Takes(chain.depth, b) /\ s.left \in Nat
  BY <1>1
<1>4. pay \in Nat /\ FeeDen * more >= Value(x, p)
  <2>1. chain.depth[b] > 0
    BY DEF Open
  <2>2. pay \in Nat
    <3>1. x <= x
      OBVIOUS
    <3> HIDE DEF Pays, Worth
    <3> QED
      BY <1>3, <2>1, <3>1, PaysBounds
  <2>3. FeeDen * more >= Kept * (x * p)
    <3> HIDE DEF Pays, Worth, Kept
    <3> QED
      BY <1>3, <2>1, PaidWorth
  <2> QED
    BY <2>2, <2>3 DEF Value
<1> HIDE DEF p, pay, Worth
<1>5. d \in Int /\ e = d + x /\ e >= 0 /\ e \in Int
  BY <1>1, <1>3 DEF Ahead
<1> HIDE DEF d, e
<1>6. Value(e, p) = Value(d, p) + Value(x, p) /\ Value(d, p) \in Int /\ Value(x, p) \in Int
  <2>1. Value(d + x, p) = Value(d, p) + Value(x, p) /\ Value(d, p) \in Int /\ Value(x, p) \in Int
    <3>1. x \in Int
      OBVIOUS
    <3>2. Value(d, p) \in Int /\ Value(x, p) \in Int
      BY <1>2, <1>5, <3>1, ValueFacts
    <3>3. Value(d + x, p) = Value(d, p) + Value(x, p)
      BY <1>2, <1>5, <3>1, ValueSums
    <3> QED
      BY <3>2, <3>3
  <2> QED
    BY <1>5, <2>1
<1> HIDE DEF Value
<1>7. /\ Paid(q, c, 2) \in Int /\ Paid(q, c, 3) = Paid(q, c, 2) + Worth * c.strange
      /\ Worth * c.strange \in Nat /\ Unit * pay \in Nat
      /\ Paid(q, s, 2) = Paid(q, c, 2) + Unit * pay + 0 * Worth + 1 * (2 * Worth)
      /\ Paid(q, s, 3) = Paid(q, c, 3) + Unit * pay + 0 * Worth + 1 * (3 * Worth)
  <2>1. s.out = c.out + pay /\ s.strange = c.strange + 1
    BY DEF pay
  <2>2. /\ q.bins \in Nat /\ c.out \in Nat /\ c.strange \in Nat /\ pay \in Nat
    BY <1>1, <1>4
  <2>3. GrowsStrange(q, c, s, pay)
    BY <2>1, <2>2, PaidStrange, Zenon
  <2> QED
    BY <2>3 DEF GrowsStrange
<1>8. Paid(q, s, 2) = paid + more /\ paid \in Int /\ more \in Int /\ Paid(q, s, 2) <= Paid(q, s, 3)
      /\ Paid(q, s, 2) \in Int /\ Paid(q, s, 3) \in Int
  <2> HIDE DEF Paid
  <2> QED
    BY <1>2, <1>7
<1> HIDE DEF Paid, more, paid
<1>9. FeeDen * Paid(q, s, 2) >= FeeDen * q.out + Value(e, p)
  <2>1. 0 \in Int /\ FeeDen * more >= FeeDen * 0 + Value(x, p)
    BY <1>2, <1>4, <1>6
  <2>2. FeeDen * (paid + more) >= FeeDen * (q.out + 0) + (Value(d, p) + Value(x, p))
    BY <1>1, <1>6, <1>8, <2>1, Balance
  <2>3. q.out + 0 = q.out
    BY <1>1
  <2> QED
    BY <1>6, <1>8, <2>2, <2>3
<1>10. FeeDen * Paid(q, s, 3) >= FeeDen * q.out + Value(e, p)
  <2>1. Value(e, p) \in Int
    BY <1>6
  <2> QED
    BY <1>1, <1>8, <1>9, <2>1, More
<1>11. s.out \in Nat /\ s.strange \in Nat /\ s.strange # 0 /\ q.left # 0
  BY <1>1, <1>4 DEF pay
<1> QED
  BY <1>1, <1>3, <1>5, <1>9, <1>10, <1>11 DEF Matches, e, p

(* A bin that is quoted is paid for: by what the swap puts into it, or, as *)
(* far as the swap is short of payment there, by what it is ahead.         *)
LEMMA MatchesShared ==
  ASSUME chain.depth \in [Bins -> Int], NEW b \in Bins, Open(b),
         NEW q, NEW c, NEW r, NEW s, NEW amount \in Nat, NEW given \in Nat, amount <= given,
         Matches(q, c, amount, given, Price[b]), q.left > 0, c.left > 0,
         NEW x \in Nat, x <= c.left, x <= Takes(chain.depth, b),
         x = c.left \/ x = Takes(chain.depth, b),
         NEW y \in Nat, y <= q.left, y <= Takes(chain.depth, b),
         y = q.left \/ y = Takes(chain.depth, b),
         r.left = q.left - y, r.out = q.out + Net(y) * Price[b], r.bins = q.bins + 1,
         s.left = c.left - x, s.out = c.out + Pays(b, x), s.strange = c.strange
  PROVE  Matches(r, s, amount, given, Price[b])
<1> DEFINE p == Price[b]
           d == Ahead(q, c, amount, given)
           e == Ahead(r, s, amount, given)
           pay == Pays(b, x)
           quoted == Net(y) * p
           paid == Paid(q, c, 2)
           one == Unit * pay + Worth
           two == Unit * pay + 2 * Worth
           T == Takes(chain.depth, b)
<1>1. /\ q.left \in Nat /\ c.left \in Nat /\ q.bins \in Nat /\ c.out \in Nat /\ c.strange \in Nat
      /\ q.out \in Int /\ d >= 0 /\ FeeDen * paid >= FeeDen * q.out + Value(d, p)
      /\ c.strange = 0 => d = 0
  BY DEF Matches
<1>2. FeeDen \in Nat \ {0} /\ Unit \in Nat \ {0} /\ Worth \in Nat /\ p \in Nat
  BY BinAssumption, WorthFacts
<1>3. /\ x <= c.left /\ x <= T /\ (x = c.left \/ x = T) /\ y <= q.left /\ y <= T
      /\ (y = q.left \/ y = T) /\ T \in Nat
  BY TakesBounds DEF Open
<1>4. s.left \in Nat /\ r.left \in Nat
  BY <1>1, <1>3
<1>5. pay \in Nat /\ quoted \in Int
  <2>1. chain.depth[b] > 0 /\ x <= x
    BY DEF Open
  <2>2. pay \in Nat
    <3> HIDE DEF Pays, Worth
    <3> QED
      BY <1>3, <2>1, PaysBounds
  <2>3. Net(y) \in Int
    BY NetBounds
  <2> HIDE DEF Net, p
  <2>4. quoted \in Int
    BY <1>2, <2>3
  <2> QED
    BY <2>2, <2>4
<1>6. y <= x => one >= quoted
  <2>1. chain.depth[b] > 0
    BY DEF Open
  <2> HIDE DEF Pays, Worth, Net
  <2> QED
    BY <1>3, <2>1, PaysBounds
<1>7. FeeDen * two >= Value(x, p) /\ FeeDen * quoted <= Value(y, p)
  <2>1. chain.depth[b] > 0
    BY DEF Open
  <2> HIDE DEF Pays, Worth, Kept, Net
  <2>2. FeeDen * two >= Kept * (x * p)
    BY <1>3, <2>1, PaidWorth
  <2>3. FeeDen * quoted <= Kept * (y * p)
    BY QuotedWorth
  <2> QED
    BY <2>2, <2>3 DEF Value
<1>8. r.out = q.out + quoted /\ s.out = c.out + pay
  OBVIOUS
<1> HIDE DEF p, pay, Worth, quoted, T
<1>9. d \in Int /\ e \in Int /\ e = d + x - y /\ (s.left = 0 => e >= 0)
      /\ (x < y => d > 0)
  <2>1. d = (given - c.left) - (amount - q.left) /\ e = (given - s.left) - (amount - r.left)
    BY DEF Ahead
  <2>2. x < y => x = c.left /\ y <= q.left
    BY <1>1, <1>3
  <2> QED
    BY <1>1, <1>4, <2>1, <2>2
<1> HIDE DEF d, e
<1>10. /\ Value(d, p) \in Int /\ Value(x, p) \in Int /\ Value(y, p) \in Int /\ Value(e, p) \in Int
       /\ Value(e, p) = Value(d, p) + (Value(x, p) - Value(y, p))
       /\ Value(d, p) >= 0 /\ (e >= 0 => Value(e, p) >= 0)
  <2>1. x \in Int /\ y \in Int /\ x - y \in Int /\ e = d + (x - y)
    BY <1>9
  <2> HIDE DEF Value
  <2>2. Value(x - y, p) = Value(x, p) - Value(y, p)
    BY <1>2, <2>1, ValueSums, Zenon
  <2>5. Value(d + (x - y), p) = Value(d, p) + Value(x - y, p)
    <3> DEFINE z == x - y
    <3>1. d \in Int /\ p \in Nat /\ z \in Int
      BY <1>2, <1>9, <2>1
    <3> HIDE DEF z
    <3>2. Value(d + z, p) = Value(d, p) + Value(z, p)
      BY <3>1, ValueSums, Zenon
    <3> QED
      BY <3>2 DEF z
  <2>3. Value(x, p) \in Int /\ Value(y, p) \in Int /\ Value(d, p) \in Int
    BY <1>2, <1>9, <2>1, ValueFacts
  <2>4. Value(e, p) \in Int /\ (e >= 0 => Value(e, p) >= 0) /\ Value(d, p) >= 0
    BY <1>1, <1>2, <1>9, ValueFacts
  <2> QED
    BY <2>1, <2>2, <2>3, <2>4, <2>5
<1> HIDE DEF Value
<1>11. /\ paid \in Int /\ Paid(q, c, 3) = paid + Worth * c.strange
       /\ Worth * c.strange \in Nat /\ (c.strange >= 1 => Worth * c.strange >= Worth)
       /\ Unit * pay \in Nat
       /\ Paid(r, s, 2) = paid + Unit * pay + Worth
       /\ Paid(r, s, 3) = Paid(q, c, 3) + Unit * pay + Worth
  <2>1. /\ Paid(q, c, 2) \in Int /\ Worth * c.strange \in Nat
        /\ Paid(q, c, 3) = Paid(q, c, 2) + Worth * c.strange
    BY <1>1, <1>2 DEF Paid
  <2>2. c.strange >= 1 => Worth * c.strange >= Worth
    <3>1. c.strange \in Int /\ 1 \in Int /\ Worth \in Nat
      BY <1>1, <1>2
    <3>2. c.strange >= 1 => Worth * 1 <= Worth * c.strange
      BY <3>1, Monotone
    <3>3. Worth * 1 = Worth
      BY <3>1
    <3> QED
      BY <3>2, <3>3
  <2>3. Unit * s.out = Unit * c.out + Unit * pay /\ Unit * pay \in Nat
    BY <1>1, <1>2, <1>5, <1>8
  <2>4. /\ Worth * (r.bins + 2 * s.strange) = Worth * (q.bins + 2 * c.strange) + Worth
        /\ Worth * (r.bins + 3 * s.strange) = Worth * (q.bins + 3 * c.strange) + Worth
    BY <1>1, <1>2
  <2>5. Paid(r, s, 2) = paid + Unit * pay + Worth
    BY <1>1, <1>2, <2>3, <2>4 DEF Paid
  <2>6. Paid(r, s, 3) = Paid(q, c, 3) + Unit * pay + Worth
    BY <1>1, <1>2, <2>3, <2>4 DEF Paid
  <2> QED
    BY <2>1, <2>2, <2>3, <2>5, <2>6
<1>12. /\ one \in Int /\ two \in Int /\ Paid(r, s, 2) = paid + one /\ Paid(r, s, 3) \in Int
       /\ Paid(r, s, 2) <= Paid(r, s, 3) /\ Paid(r, s, 2) \in Int
       /\ c.strange >= 1 => paid + two <= Paid(r, s, 3)
  <2> HIDE DEF Paid
  <2> QED
    BY <1>2, <1>11
<1>13. s.out \in Nat /\ s.strange \in Nat /\ r.bins \in Nat /\ r.bins >= 1 /\ r.out \in Int
  BY <1>1, <1>5, <1>8
<1> HIDE DEF Paid, one, two, paid
<1>14. CASE y <= x
  <2>1. FeeDen * one >= FeeDen * quoted + 0
    <3>1. FeeDen * quoted <= FeeDen * one
      BY <1>2, <1>5, <1>6, <1>12, <1>14, Monotone
    <3> QED
      BY <1>2, <1>5, <1>12, <3>1
  <2>2. FeeDen * Paid(r, s, 2) >= FeeDen * r.out + Value(d, p)
    <3>1. FeeDen * (paid + one) >= FeeDen * (q.out + quoted) + (Value(d, p) + 0)
      <4>1. 0 \in Int /\ q.out \in Int /\ quoted \in Int /\ paid \in Int /\ one \in Int
            /\ Value(d, p) \in Int
        BY <1>1, <1>5, <1>10, <1>11, <1>12
      <4>2. FeeDen * paid >= FeeDen * q.out + Value(d, p)
        BY <1>1
      <4> QED
        BY <2>1, <4>1, <4>2, Balance, Zenon
    <3> QED
      BY <1>8, <1>10, <1>12, <3>1
  <2>3. FeeDen * Paid(r, s, 3) >= FeeDen * r.out + Value(d, p)
    BY <1>10, <1>12, <1>13, <2>2, More
  <2>4. Paid(r, s, 3) >= r.out
    BY <1>10, <1>12, <1>13, <2>3, Cancel
  <2>5. r.left > 0 => x = y /\ e = d
    BY <1>1, <1>3, <1>9, <1>14
  <2> QED
    BY <1>1, <1>4, <1>13, <2>2, <2>3, <2>4, <2>5 DEF Matches, e, p
<1>15. CASE x < y
  <2>1. c.strange >= 1 /\ s.left = 0 /\ e >= 0
    <3>1. x = c.left
      BY <1>3, <1>15
    <3> QED
      BY <1>1, <1>9, <1>15, <3>1
  <2>2. FeeDen * two >= FeeDen * quoted + (Value(x, p) - Value(y, p))
    <3>1. FeeDen * two \in Int /\ FeeDen * quoted \in Int
      BY <1>2, <1>5, <1>12
    <3> QED
      BY <1>7, <1>10, <3>1
  <2>3. FeeDen * (paid + two) >= FeeDen * r.out + Value(e, p)
    <3>1. Value(x, p) - Value(y, p) \in Int
      BY <1>10
    <3>2. FeeDen * (paid + two) >= FeeDen * (q.out + quoted) + (Value(d, p) + (Value(x, p) - Value(y, p)))
      BY <1>1, <1>5, <1>10, <1>11, <1>12, <2>2, <3>1, Balance
    <3> QED
      BY <1>8, <1>10, <3>2
  <2>4. FeeDen * Paid(r, s, 3) >= FeeDen * r.out + Value(e, p)
    <3>1. paid + two <= Paid(r, s, 3) /\ paid + two \in Int
      BY <1>11, <1>12, <2>1
    <3> QED
      BY <1>10, <1>12, <1>13, <2>3, <3>1, More
  <2>5. Paid(r, s, 3) >= r.out
    BY <1>10, <1>12, <1>13, <2>1, <2>4, Cancel
  <2>6. ~(s.left > 0)
    BY <2>1
  <2> QED
    BY <1>4, <1>13, <2>4, <2>5, <2>6 DEF Matches, e, p
<1> QED
  BY <1>3, <1>14, <1>15

(* The quote goes on where the swap has paid all: what it was ahead pays.  *)
LEMMA MatchesBehind ==
  ASSUME NEW b \in Bins, Open(b), chain.depth \in [Bins -> Int],
         NEW q, NEW c, NEW r, NEW amount \in Nat, NEW given \in Nat, amount <= given,
         Matches(q, c, amount, given, Price[b]), q.left > 0, c.left = 0,
         NEW y \in Nat, y <= q.left,
         r.left = q.left - y, r.out = q.out + Net(y) * Price[b], r.bins = q.bins + 1
  PROVE  Matches(r, c, amount, given, Price[b])
<1> DEFINE p == Price[b]
           d == Ahead(q, c, amount, given)
           e == Ahead(r, c, amount, given)
           quoted == Net(y) * p
           paid == Paid(q, c, 3)
<1>1. /\ q.left \in Nat /\ c.left \in Nat /\ q.bins \in Nat /\ c.out \in Nat /\ c.strange \in Nat
      /\ q.out \in Int /\ FeeDen * paid >= FeeDen * q.out + Value(d, p)
  BY DEF Matches
<1>2. FeeDen \in Nat \ {0} /\ Unit \in Nat \ {0} /\ Worth \in Nat /\ p \in Nat
  BY BinAssumption, WorthFacts
<1>3. y <= q.left /\ r.left \in Nat
  BY <1>1
<1>4. quoted \in Int
  <2>1. Net(y) \in Int
    BY NetBounds
  <2> HIDE DEF Net, p
  <2> QED
    BY <1>2, <2>1
<1>5. FeeDen * quoted <= Value(y, p)
  <2> HIDE DEF Kept, Net
  <2> QED
    BY QuotedWorth DEF Value
<1>6. r.out = q.out + quoted
  OBVIOUS
<1> HIDE DEF p, Worth, quoted
<1>7. d \in Int /\ e \in Int /\ e = d - y /\ e >= 0
  BY <1>1, <1>3 DEF Ahead
<1> HIDE DEF d, e
<1>8. /\ Value(d, p) \in Int /\ Value(y, p) \in Int /\ Value(e, p) \in Int
      /\ Value(e, p) = Value(d, p) - Value(y, p) /\ Value(e, p) >= 0
  <2>1. y \in Int
    OBVIOUS
  <2> HIDE DEF Value
  <2>2. Value(d - y, p) = Value(d, p) - Value(y, p)
    <3>1. d \in Int /\ p \in Nat
      BY <1>2, <1>7
    <3> QED
      BY <2>1, <3>1, ValueSums, Zenon
  <2>4. Value(y, p) \in Int /\ Value(d, p) \in Int
    BY <1>2, <1>7, <2>1, ValueFacts
  <2>3. Value(e, p) \in Int /\ Value(e, p) >= 0
    BY <1>2, <1>7, ValueFacts
  <2> QED
    BY <1>7, <2>2, <2>3, <2>4
<1> HIDE DEF Value
<1>9. paid \in Int /\ Paid(r, c, 3) = paid + Unit * 0 + 1 * Worth + 0 * (3 * Worth)
  <2>1. 3 \in {2, 3} /\ 0 \in {0, 1} /\ 1 \in {0, 1} /\ 0 \in Nat /\ c.out = c.out + 0
        /\ c.strange = c.strange + 0
    BY <1>1
  <2> QED
    BY <1>1, <2>1, PaidFacts
<1>10. Paid(r, c, 3) = paid + Worth /\ Paid(r, c, 3) \in Int
  <2> HIDE DEF Paid
  <2> QED
    BY <1>2, <1>9
<1>11. r.bins \in Nat /\ r.bins >= 1 /\ r.out \in Int
  BY <1>1, <1>4, <1>6
<1> HIDE DEF Paid, paid
<1>12. FeeDen * Paid(r, c, 3) >= FeeDen * r.out + Value(e, p)
  <2>1. FeeDen * Worth >= FeeDen * quoted + (-Value(y, p))
    <3>1. FeeDen * Worth \in Nat /\ FeeDen * quoted \in Int
      BY <1>2, <1>4
    <3> QED
      BY <1>5, <1>8, <3>1
  <2>2. FeeDen * (paid + Worth) >= FeeDen * (q.out + quoted) + (Value(d, p) + (-Value(y, p)))
    <3>1. -Value(y, p) \in Int /\ Worth \in Int
      BY <1>2, <1>8
    <3> QED
      BY <1>1, <1>4, <1>8, <1>9, <2>1, <3>1, Balance
  <2> QED
    BY <1>6, <1>8, <1>10, <2>2
<1>13. Paid(r, c, 3) >= r.out
  BY <1>8, <1>10, <1>11, <1>12, Cancel
<1>14. ~(c.left > 0)
  OBVIOUS
<1> QED
  BY <1>1, <1>3, <1>11, <1>12, <1>13, <1>14 DEF Matches, e, p

(* Bin by bin, the swap matches the quote. *)
LEMMA MatchesStep ==
  ASSUME chain.active \in Bins, chain.depth \in [Bins -> Int], SamePool, NEW b \in Bins,
         NEW q \in WalkStates(copy), NEW c \in SwapStates,
         NEW amount \in Nat, NEW given \in Nat, amount <= given,
         NEW prev \in Nat, Price[b] <= prev, Matches(q, c, amount, given, prev),
         SwapStep(c, b).missing = {}
  PROVE  Matches(Walked(copy, q, b), SwapStep(c, b), amount, given, Price[b])
<1> DEFINE p == Price[b]
           r == Walked(copy, q, b)
           s == SwapStep(c, b)
           x == Fill(c.left, b)
           y == Fill(q.left, b)
           T == Takes(chain.depth, b)
<1>1. q.left \in Nat /\ c.left \in Nat /\ c.strange \in Nat /\ c.out \in Nat
  BY DEF Matches
<1>2. Matches(q, c, amount, given, p)
  <2>1. p \in Nat /\ p <= prev
    BY WorthFacts
  <2> HIDE DEF p
  <2> QED
    BY <2>1, MatchesIdle
<1>3. /\ Open(b) /\ ~Strange(b) /\ q.left > 0 =>
            r.left = q.left - y /\ r.out = q.out + Net(y) * p /\ r.bins = q.bins + 1
      /\ ~(Open(b) /\ ~Strange(b) /\ q.left > 0) => r = q
  BY WalkEffect
<1>4. /\ Open(b) /\ c.left > 0 =>
            /\ s.left = c.left - x /\ s.out = c.out + Pays(b, x)
            /\ s.strange = c.strange + (IF Strange(b) THEN 1 ELSE 0)
      /\ ~(Open(b) /\ c.left > 0) => s = c
  BY <1>1, SwapEffect
<1>5. Open(b) => /\ x \in Nat /\ x <= c.left /\ x <= T /\ (x = c.left \/ x = T)
                 /\ y \in Nat /\ y <= q.left /\ y <= T /\ (y = q.left \/ y = T)
  <2> SUFFICES ASSUME Open(b)
               PROVE  /\ x \in Nat /\ x <= c.left /\ x <= T /\ (x = c.left \/ x = T)
                      /\ y \in Nat /\ y <= q.left /\ y <= T /\ (y = q.left \/ y = T)
    OBVIOUS
  <2> QED
    BY <1>1, FillFacts
<1> HIDE DEF r, s, x, y, T
<1>6. CASE q.left = 0
  <2>0. r = q
    BY <1>3, <1>6
  <2>1. CASE Open(b) /\ c.left > 0
    <3> DEFINE pay == Pays(b, x)
               m == IF Strange(b) THEN 1 ELSE 0
    <3>1. pay \in Nat
      <4>1. chain.depth[b] > 0 /\ x <= T /\ x \in Nat /\ x <= x
        BY <1>5, <2>1 DEF Open
      <4> HIDE DEF Pays
      <4> QED
        BY <4>1, PaysBounds DEF T
    <3>2. m \in {0, 1} /\ s.left \in Nat /\ s.out = c.out + pay /\ s.strange = c.strange + m
      BY <1>1, <1>4, <1>5, <2>1
    <3> HIDE DEF pay, m, p
    <3>3. Matches(q, s, amount, given, p)
      BY <1>2, <1>6, <3>1, <3>2, MatchesAfter
    <3> QED
      BY <2>0, <3>3 DEF r, s, p
  <2>2. CASE ~(Open(b) /\ c.left > 0)
    BY <1>2, <1>4, <2>0, <2>2 DEF r, s
  <2> QED
    BY <2>1, <2>2
<1>7. CASE q.left > 0 /\ Open(b) /\ Strange(b) /\ c.left > 0
  <2>0. r = q
    BY <1>3, <1>7
  <2>1. /\ s.left = c.left - x /\ s.out = c.out + Pays(b, x) /\ s.strange = c.strange + 1
        /\ x \in Nat /\ x <= c.left /\ x <= Takes(chain.depth, b)
    BY <1>4, <1>5, <1>7 DEF T
  <2>2. Matches(q, s, amount, given, Price[b])
    BY <1>2, <1>7, <2>1, MatchesStrange
  <2> QED
    BY <2>0, <2>2 DEF r, s
<1>8. CASE q.left > 0 /\ Open(b) /\ ~Strange(b) /\ c.left > 0
  <2>1. /\ s.left = c.left - x /\ s.out = c.out + Pays(b, x) /\ s.strange = c.strange
        /\ x \in Nat /\ x <= c.left /\ x <= Takes(chain.depth, b)
        /\ x = c.left \/ x = Takes(chain.depth, b)
    BY <1>1, <1>4, <1>5, <1>8 DEF T
  <2>2. /\ r.left = q.left - y /\ r.out = q.out + Net(y) * Price[b] /\ r.bins = q.bins + 1
        /\ y \in Nat /\ y <= q.left /\ y <= Takes(chain.depth, b)
        /\ y = q.left \/ y = Takes(chain.depth, b)
    BY <1>3, <1>5, <1>8 DEF T
  <2>3. Matches(r, s, amount, given, Price[b])
    BY <1>2, <1>8, <2>1, <2>2, MatchesShared
  <2> QED
    BY <2>3 DEF r, s
<1>9. CASE q.left > 0 /\ Open(b) /\ ~Strange(b) /\ c.left = 0
  <2>1. s = c
    BY <1>4, <1>9
  <2>2. /\ r.left = q.left - y /\ r.out = q.out + Net(y) * Price[b] /\ r.bins = q.bins + 1
        /\ y \in Nat /\ y <= q.left
    BY <1>3, <1>5, <1>9
  <2>3. Matches(r, c, amount, given, Price[b])
    BY <1>2, <1>9, <2>2, MatchesBehind
  <2> QED
    BY <2>1, <2>3 DEF r, s
<1>10. CASE q.left > 0 /\ (~Open(b) \/ (Strange(b) /\ c.left = 0))
  <2>1. r = q /\ s = c
    BY <1>3, <1>4, <1>10
  <2> QED
    BY <1>2, <2>1 DEF r, s
<1> QED
  BY <1>1, <1>6, <1>7, <1>8, <1>9, <1>10

(* The whole of it: a swap of no less than was quoted, that misses no      *)
(* array and does not run dry, pays what the quote priced, up to one unit  *)
(* for a bin quoted and three for a strange one.                           *)
LEMMA SwapMatchesWalk ==
  ASSUME chain.active \in Bins, chain.depth \in [Bins -> Int], copy.depth \in [Bins -> Int],
         SamePool, NEW amount \in Nat, NEW given \in Nat, amount <= given,
         ~(Walk(copy, amount).left > 0), Swapped(given).missing = {}
  PROVE  /\ Paid(Walk(copy, amount), Swapped(given), 3) >= Walk(copy, amount).out
         /\ Walk(copy, amount).bins \in Nat /\ Walk(copy, amount).out \in Int
         /\ Walk(copy, amount).out # 0 => Walk(copy, amount).bins >= 1
         /\ Swapped(given).out \in Nat
         /\ Swapped(given).strange \in Nat
<1> DEFINE N == LastBin + 1
<1>1. /\ LastBin \in Nat /\ N \in Nat /\ Price[0] \in Nat /\ Bins = 0..LastBin
      /\ \A b \in 0..LastBin - 1 : Price[b + 1] <= Price[b]
      /\ \A b \in Bins : Price[b] \in Nat
  <2>1. LastBin \in Nat /\ \A b \in 0..LastBin : Price[b] \in Nat
    BY BinAssumption
  <2>2. \A b \in 0..LastBin - 1 : Price[b + 1] <= Price[b]
    BY BinAssumption
  <2>3. N \in Nat /\ 0 \in 0..LastBin
    BY <2>1
  <2>4. Bins = 0..LastBin
    BY DEF Bins
  <2> HIDE DEF N
  <2> QED
    BY <2>1, <2>2, <2>3, <2>4, Zenon
<1>0. amount \in Int /\ given \in Int
  OBVIOUS
<1>2. PICK w : Walks(w, copy, amount)
  BY <1>0, WalkSteps, Zenon
<1>3. PICK v : Swaps(v, given)
  BY <1>0, SwapSteps, Zenon
<1> DEFINE Reached(n) == IF n = 0 THEN Price[0] ELSE Price[n - 1]
           G == {n \in 0..N : v[n].missing = {} => Matches(w[n], v[n], amount, given, Reached(n))}
<1>4. 0 \in G
  <2> DEFINE q == [left |-> amount, out |-> 0, touched |-> {}, bins |-> 0]
             c == [left |-> given, out |-> 0, missing |-> {}, strange |-> 0]
             d == Ahead(q, c, amount, given)
  <2>1. w[0] = q /\ v[0] = c
    BY <1>2, <1>3 DEF Walks, Swaps
  <2>2. d = 0
    BY DEF Ahead
  <2>3. Paid(q, c, 2) = 0 /\ Paid(q, c, 3) = 0
    <3>1. Unit \in Nat /\ Worth \in Nat
      BY BinAssumption, WorthFacts
    <3> HIDE DEF Worth
    <3> QED
      BY <3>1 DEF Paid
  <2>4. Value(0, Price[0]) = 0
    <3>1. Kept \in Nat
      BY BinAssumption DEF Kept
    <3> HIDE DEF Kept
    <3> QED
      BY <1>1, <3>1 DEF Value
  <2>5. /\ q.left = amount /\ q.out = 0 /\ q.bins = 0
        /\ c.left = given /\ c.out = 0 /\ c.strange = 0
    OBVIOUS
  <2> HIDE DEF q, c, d, Paid, Value
  <2>6. FeeDen * 0 >= FeeDen * 0 + 0
    BY BinAssumption
  <2>7. ~(q.left > 0 /\ c.left = 0) /\ ~(q.out # 0)
    BY <2>5
  <2>8. Matches(q, c, amount, given, Price[0])
    BY <2>2, <2>3, <2>4, <2>5, <2>6, <2>7 DEF Matches, d
  <2> QED
    BY <1>1, <2>1, <2>8
<1>5. ASSUME NEW n \in 1..N, n - 1 \in G PROVE n \in G
  <2> DEFINE b == n - 1
             prev == Reached(b)
             q == w[b]
             c == v[b]
  <2>1. b \in Bins /\ b \in 0..N /\ n \in 0..N /\ n # 0
    BY <1>1
  <2>2. prev \in Nat /\ Price[b] <= prev
    <3>1. CASE b = 0
      BY <1>1, <3>1
    <3>2. CASE b # 0
      <4> DEFINE a == b - 1
      <4>1. a \in 0..LastBin - 1 /\ a \in Bins /\ a + 1 = b
        BY <1>1, <2>1, <3>2
      <4>2. prev = Price[a]
        BY <3>2
      <4> HIDE DEF a, prev
      <4> QED
        BY <1>1, <4>1, <4>2
    <3> QED
      BY <3>1, <3>2
  <2>3. q \in WalkStates(copy) /\ w[n] = Walked(copy, q, b)
    BY <1>2, <2>1 DEF Walks
  <2>4. c \in SwapStates /\ v[n] = SwapStep(c, b)
    BY <1>3, <2>1 DEF Swaps
  <2>5. c.missing = {} => Matches(q, c, amount, given, prev)
    BY <1>5
  <2>6. Reached(n) = Price[b]
    BY <2>1
  <2> HIDE DEF b, prev, q, c, G, Reached
  <2>7. ASSUME v[n].missing = {} PROVE Matches(w[n], v[n], amount, given, Price[b])
    <3>1. c.missing = {}
      <4>1. c.missing # {} => SwapStep(c, b) = c
        BY DEF SwapStep
      <4> QED
        BY <2>4, <2>7, <4>1
    <3>2. SwapStep(c, b).missing = {}
      BY <2>4, <2>7
    <3>3. Matches(Walked(copy, q, b), SwapStep(c, b), amount, given, Price[b])
      BY <2>1, <2>2, <2>3, <2>4, <2>5, <3>1, <3>2, MatchesStep
    <3> QED
      BY <2>3, <2>4, <3>3
  <2> QED
    BY <2>1, <2>6, <2>7 DEF G
<1>6. \A n \in 0..N : n \in G
  <2> HIDE DEF G, N
  <2> QED
    BY <1>1, <1>4, <1>5, UpTo
<1>7. w[N] = Walk(copy, amount) /\ v[N] = Swapped(given) /\ N \in 0..N
  BY <1>1, <1>2, <1>3 DEF Walks, Swaps
<1>8. Matches(Walk(copy, amount), Swapped(given), amount, given, Reached(N))
  <2> HIDE DEF N, Reached
  <2> QED
    BY <1>6, <1>7
<1>9. Walk(copy, amount).left = 0
  <2> DEFINE left == Walk(copy, amount).left
  <2>1. left \in Nat
    BY <1>8 DEF Matches
  <2> HIDE DEF left
  <2>2. ~(left > 0)
    BY DEF left
  <2>3. left = 0
    BY <2>1, <2>2
  <2> QED
    BY <2>3 DEF left
<1> QED
  BY <1>8, <1>9 DEF Matches

(* No quote says more than the bins were priced at, nor a promise more     *)
(* than the quote.                                                         *)
LEMMA ConservativeBounds ==
  ASSUME NEW out \in Int
  PROVE  Conservative(out) \in Int /\ (out >= 0 => Unit * Conservative(out) <= out)
         /\ (out < 0 => Conservative(out) <= 0)
<1> DEFINE n == 10000 * Unit
           m == out * 9990
           k == m \div n
<1>1. n \in Nat \ {0} /\ m \in Int /\ Unit \in Nat \ {0}
  BY BinAssumption
<1>2. Conservative(out) = k
  BY DEF Conservative
<1>3. m = 9990 * out /\ n = 10000 * Unit
  OBVIOUS
<1> HIDE DEF m, n
<1>4. k \in Int /\ n * k <= m
  BY <1>1, Division, DivBounds
<1> HIDE DEF k
<1>5. n * k = 10000 * (Unit * k) /\ Unit * k \in Int
  BY <1>1, <1>3, <1>4
<1>6. out >= 0 => Unit * k <= out
  BY <1>1, <1>3, <1>4, <1>5
<1>7. ASSUME out < 0, k >= 1 PROVE FALSE
  <2>1. Unit * 1 <= Unit * k
    BY <1>1, <1>4, <1>7, Monotone
  <2> QED
    BY <1>1, <1>3, <1>4, <1>5, <1>7, <2>1
<1> QED
  BY <1>2, <1>4, <1>6, <1>7

LEMMA PromisedBounds ==
  ASSUME NEW quote, quote.out \in Int
  PROVE  Promised(quote) \in Int /\ Promised(quote) <= AtLeast1(quote.out)
<1> DEFINE n == AtLeast1(quote.out)
           p == 100 - SellSlippage(quote)
           k == (n * p) \div 100
<1>1. n \in Int /\ n >= 1
  BY Extremes
<1>2. p \in Int /\ p <= 100
  BY TradeAssumption DEF SellSlippage
<1>3. Promised(quote) = AtLeast1(k)
  BY DEF Promised, Percent
<1> HIDE DEF n, p
<1>4. n * p \in Int /\ n * p <= n * 100
  <2>1. n \in Nat
    BY <1>1
  <2> QED
    BY <1>2, <2>1, Monotone
<1>5. k \in Int /\ 100 * k <= n * p
  <2> DEFINE m == n * p
  <2>1. m \in Int /\ 100 \in Nat \ {0}
    BY <1>4
  <2> HIDE DEF m
  <2>2. m \div 100 \in Int /\ 100 * (m \div 100) <= m
    BY <2>1
  <2> QED
    BY <2>2 DEF m
<1> HIDE DEF k
<1>6. k <= n
  BY <1>1, <1>4, <1>5
<1>7. AtLeast1(k) \in Int /\ (AtLeast1(k) = k \/ AtLeast1(k) = 1)
  BY <1>5, Extremes DEF AtLeast1, Most
<1> QED
  BY <1>1, <1>3, <1>6, <1>7 DEF n

(* What a quote says is paid by a swap of as much.                         *)
LEMMA QuoteKept ==
  ASSUME chain.active \in Bins, chain.depth \in [Bins -> Int], copy.depth \in [Bins -> Int],
         SamePool, NEW amount \in Nat, NEW given \in Nat, amount <= given,
         NEW quote, quote = QuoteDetail(copy, amount), quote # NoQuote,
         NEW swap, swap = Swapped(given), swap.missing = {}
  PROVE  /\ swap.out + (quote.bins + 3 * swap.strange) * CeilDiv(Price[0], Unit) \in Int
         /\ swap.out + (quote.bins + 3 * swap.strange) * CeilDiv(Price[0], Unit)
              >= AtLeast1(quote.out)
<1> DEFINE w == Walk(copy, amount)
           one == CeilDiv(Price[0], Unit)
           rounds == quote.bins + 3 * swap.strange
           total == swap.out + rounds * one
<1>1. ~(w.left > 0) /\ w.out # 0 /\ quote = [out |-> Conservative(w.out), touched |-> w.touched, bins |-> w.bins]
  BY DEF QuoteDetail
<1>2. /\ Paid(w, swap, 3) >= w.out /\ w.bins \in Nat /\ w.out \in Int
      /\ w.out # 0 => w.bins >= 1
      /\ swap.out \in Nat /\ swap.strange \in Nat
  BY <1>1, SwapMatchesWalk
<1>3. quote.bins = w.bins /\ quote.out = Conservative(w.out)
  BY <1>1
<1>4. one \in Int /\ Unit \in Nat \ {0} /\ one >= 1 /\ Worth = Unit * one
  <2>1. Unit \in Nat \ {0} /\ Price[0] \in Int
    BY BinAssumption
  <2>2. one \in Int
    BY <2>1, CeilBounds
  <2>3. Worth = Unit * one /\ Worth \in Nat \ {0}
    BY WorthFacts DEF Worth
  <2> HIDE DEF one
  <2>4. ASSUME one <= 0 PROVE FALSE
    <3>1. Unit * one <= Unit * 0
      BY <2>1, <2>2, <2>4, Monotone
    <3> QED
      BY <2>1, <2>2, <2>3, <3>1
  <2> QED
    BY <2>1, <2>2, <2>3, <2>4
<1>5. Paid(w, swap, 3) = Unit * swap.out + Worth * (w.bins + 3 * swap.strange)
  BY DEF Paid
<1> HIDE DEF w, one
<1>6. rounds \in Nat /\ rounds >= 1 /\ rounds = w.bins + 3 * swap.strange
  BY <1>1, <1>2, <1>3
<1> HIDE DEF rounds
<1>7. total \in Int /\ Unit * total = Paid(w, swap, 3) /\ total >= 1
  <2>1. rounds * one \in Int /\ swap.out + rounds * one \in Int
    BY <1>2, <1>4, <1>6
  <2>2. Unit * (swap.out + rounds * one) = Unit * swap.out + (Unit * one) * rounds
    BY <1>2, <1>4, <1>6
  <2>3. rounds * 1 <= rounds * one
    BY <1>4, <1>6, Monotone
  <2>4. swap.out + rounds * one >= 1
    BY <1>2, <1>6, <2>1, <2>3
  <2> QED
    BY <1>4, <1>5, <1>6, <2>1, <2>2, <2>4
<1> HIDE DEF total, Paid
<1>8. /\ quote.out \in Int
      /\ w.out >= 0 => Unit * quote.out <= w.out
      /\ w.out < 0 => quote.out <= 0
  BY <1>2, <1>3, ConservativeBounds
<1>9. quote.out <= total
  <2>1. ASSUME w.out >= 0, total < quote.out PROVE FALSE
    <3>1. Unit * (total + 1) <= Unit * quote.out /\ Unit * quote.out \in Int
      BY <1>4, <1>7, <1>8, <2>1, Monotone
    <3>2. Unit * (total + 1) = Unit * total + Unit /\ Unit * total \in Int
      BY <1>4, <1>7
    <3> QED
      BY <1>2, <1>4, <1>7, <1>8, <2>1, <3>1, <3>2
  <2> QED
    BY <1>2, <1>7, <1>8, <2>1
<1>10. AtLeast1(quote.out) <= total
  BY <1>7, <1>8, <1>9 DEF AtLeast1, Most
<1> QED
  BY <1>7, <1>10 DEF total, rounds, one

(* What is paid buys what was counted on, at the rate of the quote.        *)
LEMMA PaidBuys ==
  ASSUME NEW rate \in Rates, NEW tokens \in Nat, NEW paid \in Int,
         paid >= PumpCosts(tokens, rate)
  PROVE  PumpBuys(paid, rate) \in Int /\ PumpBuys(paid, rate) >= tokens
<1> DEFINE f == 100 - PumpFee
           n == rate * f
           m == (paid * rate) * f
           cost == PumpCosts(tokens, rate)
<1>1. rate \in Nat \ {0} /\ f \in Nat \ {0}
  BY TradeAssumption
<1> HIDE DEF f
<1>2. n \in Nat \ {0}
  BY <1>1, Products
<1>3. cost = CeilDiv(tokens * 100, n) /\ PumpBuys(paid, rate) = m \div 100
  BY DEF PumpCosts, PumpBuys, Percent, f
<1>4. m = n * paid /\ m \in Int
  BY <1>1
<1> HIDE DEF n, m
<1>5. cost \in Int /\ n * cost >= tokens * 100
  <2>1. tokens * 100 \in Int
    OBVIOUS
  <2> QED
    BY <1>2, <1>3, <2>1, CeilBounds
<1>6. paid >= cost
  OBVIOUS
<1> HIDE DEF cost
<1>7. n * cost <= n * paid /\ n * cost \in Int /\ n * paid \in Int
  BY <1>2, <1>5, <1>6, Monotone
<1>8. m >= tokens * 100
  BY <1>4, <1>5, <1>7
<1>9. m \div 100 \in Int /\ m \div 100 >= tokens
  BY <1>4, <1>8
<1> QED
  BY <1>3, <1>9

(* What a quote pays first buys the tokens it counts on. *)
LEMMA QuoteInBuys ==
  ASSUME NEW size \in Sizes, copy.rate \in Rates
  PROVE  PumpBuys(QuoteIn(size), copy.rate) >= TokensSafe(size)
<1> DEFINE tokens == TokensSafe(size)
           cost == PumpCosts(tokens, copy.rate)
           required == AtLeast1(cost)
           raised == CeilDiv(required * (100 + BuySlip), 100)
<1>1. tokens \in Nat \ {0} /\ QuoteIn(size) \in Nat \ {0}
  BY QuoteInFacts
<1>2. QuoteIn(size) = Most(Most(size, required), raised)
  BY DEF QuoteIn
<1> HIDE DEF tokens
<1>3. cost \in Int
  BY <1>1, PumpFacts
<1>4. size \in Int /\ 100 + BuySlip \in Int
  BY TradeAssumption
<1> HIDE DEF cost
<1>5. required \in Int /\ required >= cost
  BY <1>3, Extremes
<1> HIDE DEF required
<1>6. raised \in Int
  <2>1. required * (100 + BuySlip) \in Int
    BY <1>4, <1>5
  <2> QED
    BY <2>1, Division
<1> HIDE DEF raised
<1>7. Most(size, required) \in Int /\ Most(size, required) >= required
  BY <1>4, <1>5, Extremes
<1>8. Most(Most(size, required), raised) >= Most(size, required)
  BY <1>6, <1>7, Extremes
<1>9. QuoteIn(size) >= cost
  BY <1>1, <1>2, <1>3, <1>5, <1>7, <1>8
<1>10. QuoteIn(size) >= PumpCosts(tokens, copy.rate)
  BY <1>9 DEF cost
<1>11. PumpBuys(QuoteIn(size), copy.rate) >= tokens
  BY <1>1, <1>10, PaidBuys
<1> QED
  BY <1>11 DEF tokens

-----------------------------------------------------------------------------
(* The state. *)

Shape ==
    /\ chain \in [active : Bins, depth : [Bins -> Int], made : SUBSET Arrays, rate : Rates]
    /\ copy \in [active : Bins, depth : [Bins -> Int], held : SUBSET Arrays,
                 bitmap : SUBSET Arrays, rate : Rates]

(* What is offered and planned are amounts; the least profit covers tip    *)
(* and signatures.                                                         *)
Planned ==
    /\ at # "idle" => /\ offer.paid \in Nat \ {0} /\ offer.gross \in Int
                      /\ offer.amount \in Nat \ {0}
    /\ at \in {"built", "done"} => /\ terms.tip \in Nat /\ terms.minProfit = MinProfit(terms.tip)

(* The accounts are those of all that is known, or as many as may be; what *)
(* a swap misses is not among them.                                        *)
Accounted ==
    /\ at \in {"built", "done"} =>
          \/ AnyLiquidity(copy) \cup Marked(copy) \subseteq window
          \/ Cardinality(window) >= WindowSize
    /\ at = "done" => result.missing \cap window = {}

TradeInv == TypeOK /\ Shape /\ Planned /\ Accounted /\ LandedPays

(* The least profit is a number, and covers the signature of one           *)
(* transaction, or of two and the tip.                                     *)
LEMMA MinProfitFacts ==
  ASSUME NEW tip \in Nat
  PROVE  /\ MinProfit(tip) \in Int /\ MinProfit(tip) >= 1 /\ MinProfit(tip) >= SignatureFee
         /\ tip > 0 => MinProfit(tip) >= tip + 2 * SignatureFee
<1>1. SignatureFee \in Nat \ {0}
  BY TradeAssumption
<1>2. BaseFee(tip) = IF tip > 0 THEN 2 * SignatureFee ELSE SignatureFee
  BY <1>1 DEF BaseFee
<1>3. BaseFee(tip) \in Nat
  BY <1>1, <1>2
<1>4. MinProfit(tip) \in Int /\ MinProfit(tip) >= 1 /\ MinProfit(tip) >= tip + BaseFee(tip)
  <2>1. tip + BaseFee(tip) \in Int
    BY <1>3
  <2> QED
    BY <2>1, Extremes DEF MinProfit
<1> QED
  BY <1>1, <1>2, <1>3, <1>4

LEMMA InitHolds == Init => TradeInv
<1> SUFFICES ASSUME Init PROVE TradeInv
  OBVIOUS
<1>1. PICK depth \in Depths, active \in Bins, rate \in Rates :
        chain = [active |-> active, depth |-> depth, made |-> Holding(depth), rate |-> rate]
  BY DEF Init
<1>2. PICK held \in SUBSET chain.made :
        copy = [active |-> chain.active, depth |-> chain.depth, held |-> held,
                bitmap |-> chain.made, rate |-> chain.rate]
  BY DEF Init
<1>3. depth \in [Bins -> Int] /\ Holding(depth) \subseteq Arrays
  BY TradeAssumption DEF Holding, Arrays
<1>4. Shape
  BY <1>1, <1>2, <1>3 DEF Shape
<1>5. /\ direction \in Directions /\ free \in BOOLEAN /\ guarded \in BOOLEAN
      /\ tipping \in Tips /\ transport \in Transports /\ at = "idle" /\ drift = 0
      /\ result = NoResult
  BY DEF Init
<1>6. 0 \in 0..MaxDrift
  BY TradeAssumption
<1>7. TypeOK
  BY <1>1, <1>2, <1>3, <1>5, <1>6 DEF TypeOK
<1> QED
  BY <1>4, <1>5, <1>7 DEF TradeInv, Planned, Accounted, LandedPays

(* A quote is taken. *)
LEMMA QuotedHolds ==
  ASSUME TradeInv, NEW paid \in Nat \ {0}, NEW amount \in Nat \ {0}, NEW quote, NEW promise,
         NEW gross \in Int, NEW net, Quoted(paid, amount, quote, promise, gross, net),
         quote.touched \subseteq copy.held
  PROVE  TradeInv'
<1> USE DEF TradeInv
<1>1. /\ offer' = [paid |-> paid, amount |-> amount, quote |-> quote, promise |-> promise,
                   gross |-> gross]
      /\ at = "idle" /\ at' = "quoted"
      /\ UNCHANGED <<config, chain, copy, drift, terms, window, result>>
  BY DEF Quoted
<1>2. Shape'
  BY <1>1 DEF Shape
<1>3. Planned'
  BY <1>1 DEF Planned
<1>4. paid > 0 /\ amount > 0
  OBVIOUS
<1>5. TypeOK'
  BY <1>1, <1>4 DEF TypeOK, config, Holding
<1> QED
  BY <1>1, <1>2, <1>3, <1>5 DEF Accounted, LandedPays

LEMMA QuotesHold ==
  ASSUME TradeInv, NEW size \in Sizes, QuotePumpFirst(size) \/ QuoteMeteoraFirst(size)
  PROVE  TradeInv'
<1>1. copy.depth \in [Bins -> Int] /\ copy.rate \in Rates
  BY DEF TradeInv, Shape
<1>2. size \in Nat \ {0}
  BY TradeAssumption
<1>3. CASE QuotePumpFirst(size)
  <2> DEFINE amount == TokensSafe(size)
             paid   == QuoteIn(size)
             quote  == QuoteDetail(copy, amount)
             back   == Promised(quote)
             net    == NetOfPumpFirst(paid, back, DynamicTip(Gross(back, paid), paid))
  <2>1. Quoted(paid, amount, quote, back, Gross(back, paid), net)
    BY <1>3 DEF QuotePumpFirst
  <2>2. amount \in Nat \ {0} /\ paid \in Nat \ {0}
    BY <1>1, QuoteInFacts
  <2> HIDE DEF amount, paid, net
  <2>3. quote # NoQuote
    BY <2>1 DEF Quoted
  <2>4. quote.out \in Int /\ quote.touched \subseteq copy.held
    BY <1>1, <2>2, <2>3, QuoteFacts
  <2> HIDE DEF quote
  <2>5. back \in Int
    BY <2>4, PromisedInt
  <2> HIDE DEF back
  <2>6. Gross(back, paid) \in Int
    BY <2>2, <2>5 DEF Gross
  <2> QED
    BY <2>1, <2>2, <2>4, <2>6, QuotedHolds
<1>4. CASE QuoteMeteoraFirst(size)
  <2> DEFINE quote  == QuoteDetail(copy, size)
             back   == PumpSells(quote.out, copy.rate)
             net    == NetOfMeteoraFirst(size, back)
  <2>1. Quoted(size, size, quote, quote.out, Gross(back, size), net)
    BY <1>4 DEF QuoteMeteoraFirst
  <2> HIDE DEF net
  <2>3. quote # NoQuote
    BY <2>1 DEF Quoted
  <2>4. quote.out \in Int /\ quote.touched \subseteq copy.held
    BY <1>1, <1>2, <2>3, QuoteFacts
  <2> HIDE DEF quote
  <2>5. back \in Int
    BY <1>1, <2>4, PumpFacts
  <2> HIDE DEF back
  <2>6. Gross(back, size) \in Int
    BY <1>2, <2>5 DEF Gross
  <2> QED
    BY <1>2, <2>1, <2>4, <2>6, QuotedHolds
<1> QED
  BY <1>3, <1>4

(* A transaction is built. *)
LEMMA BuiltHolds ==
  ASSUME TradeInv, NEW firstMin, NEW secondMin, Built(firstMin, secondMin)
  PROVE  TradeInv'
<1> USE DEF TradeInv
<1> DEFINE accounts == WindowForInput(copy, offer.quote, chain.made)
           tip == PlannedTip(offer.gross, offer.paid)
<1>1. /\ at = "quoted" /\ accounts # Unbuildable /\ window' = accounts
      /\ terms' = Wrapped(firstMin, secondMin, tip) /\ at' = "built"
      /\ UNCHANGED <<config, chain, copy, drift, offer, result>>
  BY DEF Built
<1>2. /\ accounts \subseteq chain.made
      /\ AnyLiquidity(copy) \cup Marked(copy) \subseteq accounts \/ Cardinality(accounts) >= WindowSize
  <2>1. /\ chain.made \subseteq Arrays /\ copy.active \in Bins /\ copy.held \subseteq chain.made
        /\ copy.bitmap \subseteq chain.made
    BY DEF TypeOK
  <2> QED
    BY <1>1, <2>1, WindowFacts
<1>3. tip \in Nat
  BY <1>1, TipFacts DEF Planned
<1> HIDE DEF accounts, tip
<1>4. terms'.tip = tip /\ terms'.minProfit = MinProfit(tip) /\ MinProfit(tip) >= 1
  BY <1>1, <1>3, MinProfitFacts DEF Wrapped
<1>5. Shape'
  BY <1>1 DEF Shape
<1>6. Planned'
  BY <1>1, <1>3, <1>4 DEF Planned
<1>7. Accounted'
  <2>1. (AnyLiquidity(copy) \cup Marked(copy))' = AnyLiquidity(copy) \cup Marked(copy)
    BY <1>1 DEF AnyLiquidity, Marked, Current
  <2> QED
    BY <1>1, <1>2, <2>1 DEF Accounted
<1>8. TypeOK'
  BY <1>1, <1>2, <1>4 DEF TypeOK, config, Holding
<1> QED
  BY <1>1, <1>5, <1>6, <1>7, <1>8 DEF LandedPays

(* A transaction lands, or fails on chain: what it gains is at least the   *)
(* least profit, and what it misses was not among its accounts.            *)
LEMMA LandHolds ==
  ASSUME TradeInv, NEW split \in BOOLEAN, Land(split)
  PROVE  TradeInv'
<1> USE DEF TradeInv
<1> DEFINE n == IF split THEN 2 ELSE 1
           bought == PumpBuys(offer.paid, chain.rate)
           swap   == Swapped(IF PumpFirst THEN bought ELSE offer.paid)
           back   == IF PumpFirst THEN swap.out ELSE PumpSells(swap.out, chain.rate)
<1>1. /\ at = "built" /\ at' = "done" /\ (split => transport = "jito")
      /\ result' = Executed(n, TipPaid(terms.tip))
      /\ UNCHANGED <<config, chain, copy, drift, offer, terms, window>>
  BY DEF Land
<1>2. /\ offer.paid \in Nat \ {0} /\ terms.tip \in Nat /\ terms.minProfit = MinProfit(terms.tip)
      /\ chain.rate \in Rates /\ chain.depth \in [Bins -> Int]
  BY <1>1 DEF Planned, Shape
<1>3. bought \in Int
  BY <1>2, PumpFacts
<1> HIDE DEF bought
<1>4. swap \in [left : Int, out : Int, missing : SUBSET (Arrays \ window), strange : Int]
  BY <1>2, <1>3, SwappedFacts DEF SwapStates
<1>5. /\ result'.missing = swap.missing /\ result'.gain = back - offer.paid
      /\ result'.cost = TipPaid(terms.tip) + n * SignatureFee
      /\ result'.kind # "none"
      /\ result'.kind = "landed" => ~(back - offer.paid < terms.minProfit)
  BY <1>1 DEF Executed, bought
<1> HIDE DEF swap
<1>6. back \in Int
  BY <1>2, <1>4, PumpFacts
<1> HIDE DEF back
<1>7. ASSUME result'.kind = "landed", terms.tip > 0 \/ transport = "rpc"
      PROVE  result'.gain >= result'.cost
  <2> DEFINE least == MinProfit(terms.tip)
  <2>1. /\ least \in Int /\ least >= SignatureFee
        /\ terms.tip > 0 => least >= terms.tip + 2 * SignatureFee
    BY <1>2, MinProfitFacts
  <2>2. SignatureFee \in Nat
    BY TradeAssumption
  <2> HIDE DEF least
  <2>3. result'.gain \in Int /\ result'.gain >= least
    <3>1. ~(back - offer.paid < least)
      BY <1>2, <1>5, <1>7 DEF least
    <3>2. back - offer.paid \in Int
      BY <1>2, <1>6
    <3> QED
      BY <1>5, <2>1, <3>1, <3>2
  <2>4. CASE transport = "rpc"
    <3>1. n = 1 /\ TipPaid(terms.tip) = 0
      BY <1>1, <2>4 DEF TipPaid
    <3>2. result'.cost = SignatureFee
      BY <1>5, <2>2, <3>1
    <3> QED
      BY <2>1, <2>2, <2>3, <3>2
  <2>5. CASE transport # "rpc" /\ terms.tip > 0
    <3>1. TipPaid(terms.tip) = terms.tip
      BY <1>2, <2>5 DEF TipPaid
    <3>2. result'.cost = terms.tip + SignatureFee \/ result'.cost = terms.tip + 2 * SignatureFee
      BY <1>5, <2>2, <3>1
    <3> QED
      BY <1>2, <2>1, <2>2, <2>3, <2>5, <3>2
  <2> QED
    BY <1>7, <2>4, <2>5
<1> HIDE DEF n
<1>8. LandedPays'
  BY <1>1, <1>7 DEF LandedPays, config
<1>9. Shape' /\ Planned'
  BY <1>1 DEF Shape, Planned
<1>10. Accounted'
  <2>1. swap.missing \cap window = {}
    BY <1>4
  <2>2. (AnyLiquidity(copy) \cup Marked(copy))' = AnyLiquidity(copy) \cup Marked(copy)
    BY <1>1 DEF AnyLiquidity, Marked, Current
  <2> QED
    BY <1>1, <1>5, <2>1, <2>2 DEF Accounted
<1>11. result' # NoResult
  BY <1>5 DEF NoResult
<1>12. TypeOK'
  BY <1>1, <1>11 DEF TypeOK, config, Holding
<1> QED
  BY <1>8, <1>9, <1>10, <1>12

(* Others move the pools: arrays are made, and none is taken away.         *)
LEMMA MovedHolds ==
  ASSUME TradeInv, NEW new, Moved(new),
         new \in [active : Bins, depth : [Bins -> Int], made : SUBSET Arrays, rate : Rates],
         chain.made \subseteq new.made, Holding(new.depth) \subseteq new.made
  PROVE  TradeInv'
<1> USE DEF TradeInv
<1>1. /\ at # "done" /\ drift < MaxDrift /\ drift' = drift + 1 /\ chain' = new
      /\ UNCHANGED <<config, copy, at, offer, terms, window, result>>
  BY DEF Moved
<1>2. drift' \in 0..MaxDrift
  BY <1>1, TradeAssumption DEF TypeOK
<1>3. Shape' /\ Planned'
  BY <1>1 DEF Shape, Planned
<1>4. Accounted'
  BY <1>1 DEF Accounted, AnyLiquidity, Marked, Current
<1>5. Holding(chain.depth)' = Holding(new.depth)
  BY <1>1 DEF Holding
<1>6. TypeOK'
  BY <1>1, <1>2, <1>5 DEF TypeOK, config
<1> QED
  BY <1>1, <1>3, <1>4, <1>6 DEF LandedPays

(* The arrays that hold anything, when one bin is changed. *)
LEMMA HoldingAfter ==
  ASSUME NEW depth \in [Bins -> Int], NEW b \in Bins, NEW n \in Int
  PROVE  /\ [depth EXCEPT ![b] = n] \in [Bins -> Int]
         /\ Holding([depth EXCEPT ![b] = n]) \subseteq Holding(depth) \cup {ArrayOf(b)}
         /\ n = 0 \/ depth[b] # 0 => Holding([depth EXCEPT ![b] = n]) \subseteq Holding(depth)
  BY DEF Holding

LEMMA DriftHolds ==
  ASSUME TradeInv,
         \/ SwapAlong \/ SwapAgainst
         \/ \E b \in Bins : Provide(b) \/ Withdraw(b)
         \/ \E rate \in Rates : PumpMoves(rate)
  PROVE  TradeInv'
<1>1. /\ chain \in [active : Bins, depth : [Bins -> Int], made : SUBSET Arrays, rate : Rates]
      /\ Holding(chain.depth) \subseteq chain.made
  BY DEF TradeInv, Shape, TypeOK
<1>2. chain.active \in Bins /\ chain.depth \in [Bins -> Int]
  BY <1>1
<1>3. Deep \in Nat \ {0} /\ LastBin \in Nat /\ Bins = 0..LastBin
  BY TradeAssumption, BinAssumption DEF Bins
<1>4. \A b \in Bins : ArrayOf(b) \in Arrays
  BY DEF Arrays
<1>5. CASE SwapAlong
  <2> DEFINE depth == [chain.depth EXCEPT ![chain.active] = -Deep]
             new == [chain EXCEPT !.active = @ + 1, !.depth[chain.active] = -Deep,
                                  !.made = @ \cup {ArrayOf(chain.active)}]
  <2>1. Moved(new) /\ chain.active < LastBin
    BY <1>5 DEF SwapAlong
  <2>2. /\ depth \in [Bins -> Int]
        /\ Holding(depth) \subseteq Holding(chain.depth) \cup {ArrayOf(chain.active)}
    <3>1. -Deep \in Int
      BY <1>3
    <3> QED
      BY <1>2, <3>1, HoldingAfter
  <2>3. /\ new.active = chain.active + 1 /\ new.depth = depth /\ new.rate = chain.rate
        /\ new.made = chain.made \cup {ArrayOf(chain.active)}
        /\ new = [active |-> chain.active + 1, depth |-> depth, rate |-> chain.rate,
                  made |-> chain.made \cup {ArrayOf(chain.active)}]
    <3>1. DOMAIN new = {"active", "depth", "made", "rate"}
      BY <1>1
    <3>2. new.active = chain.active + 1 /\ new.rate = chain.rate /\ new.made = chain.made \cup {ArrayOf(chain.active)}
      BY <1>1
    <3>3. new.depth = depth
      BY <1>1
    <3>4. new = [f \in DOMAIN new |-> new[f]]
      BY <1>1
    <3> HIDE DEF new, depth
    <3> QED
      BY <3>1, <3>2, <3>3, <3>4
  <2> HIDE DEF new, depth
  <2>4. chain.active + 1 \in Bins
    BY <1>2, <1>3, <2>1
  <2>5. new \in [active : Bins, depth : [Bins -> Int], made : SUBSET Arrays, rate : Rates]
    BY <1>1, <1>2, <1>4, <2>2, <2>3, <2>4
  <2> QED
    BY <1>1, <2>1, <2>2, <2>3, <2>5, MovedHolds
<1>6. CASE SwapAgainst
  <2> DEFINE b == chain.active - 1
             n == IF chain.depth[b] < 0 THEN Deep ELSE chain.depth[b]
             depth == [chain.depth EXCEPT ![b] = n]
             new == [chain EXCEPT !.active = @ - 1,
                                  !.depth[chain.active - 1] = IF @ < 0 THEN Deep ELSE @]
  <2>1. Moved(new) /\ b \in Bins
    BY <1>2, <1>3, <1>6 DEF SwapAgainst
  <2>2. /\ new.active = b /\ new.depth = depth /\ new.rate = chain.rate /\ new.made = chain.made
        /\ new = [active |-> b, depth |-> depth, rate |-> chain.rate, made |-> chain.made]
    <3>1. DOMAIN new = {"active", "depth", "made", "rate"}
      BY <1>1
    <3>2. new.active = b /\ new.rate = chain.rate /\ new.made = chain.made
      BY <1>1
    <3>3. new.depth = depth
      BY <1>1
    <3>4. new = [f \in DOMAIN new |-> new[f]]
      BY <1>1
    <3> HIDE DEF new, depth
    <3> QED
      BY <3>1, <3>2, <3>3, <3>4
  <2> HIDE DEF new, b
  <2>3. n \in Int /\ (n = 0 \/ chain.depth[b] # 0)
    BY <1>2, <1>3, <2>1
  <2> HIDE DEF n
  <2>4. depth \in [Bins -> Int] /\ Holding(depth) \subseteq Holding(chain.depth)
    BY <1>2, <2>1, <2>3, HoldingAfter
  <2> HIDE DEF depth
  <2>5. new \in [active : Bins, depth : [Bins -> Int], made : SUBSET Arrays, rate : Rates]
    BY <1>1, <2>1, <2>2, <2>4
  <2> QED
    BY <1>1, <2>1, <2>2, <2>4, <2>5, MovedHolds
<1>7. ASSUME NEW b \in Bins, Provide(b) PROVE TradeInv'
  <2> DEFINE n == IF b < chain.active THEN -Deep ELSE Deep
             depth == [chain.depth EXCEPT ![b] = n]
             new == [chain EXCEPT !.depth[b] = IF b < chain.active THEN -Deep ELSE Deep,
                                  !.made = @ \cup {ArrayOf(b)}]
  <2>1. Moved(new)
    BY <1>7 DEF Provide
  <2>2. /\ new.active = chain.active /\ new.depth = depth /\ new.rate = chain.rate
        /\ new.made = chain.made \cup {ArrayOf(b)}
        /\ new = [active |-> chain.active, depth |-> depth, rate |-> chain.rate,
                  made |-> chain.made \cup {ArrayOf(b)}]
    <3>1. DOMAIN new = {"active", "depth", "made", "rate"}
      BY <1>1
    <3>2. new.active = chain.active /\ new.rate = chain.rate /\ new.made = chain.made \cup {ArrayOf(b)}
      BY <1>1
    <3>3. new.depth = depth
      BY <1>1
    <3>4. new = [f \in DOMAIN new |-> new[f]]
      BY <1>1
    <3> HIDE DEF new, depth
    <3> QED
      BY <3>1, <3>2, <3>3, <3>4
  <2> HIDE DEF new
  <2>3. n \in Int
    BY <1>3
  <2> HIDE DEF n
  <2>4. depth \in [Bins -> Int] /\ Holding(depth) \subseteq Holding(chain.depth) \cup {ArrayOf(b)}
    BY <1>2, <1>7, <2>3, HoldingAfter
  <2> HIDE DEF depth
  <2>5. new \in [active : Bins, depth : [Bins -> Int], made : SUBSET Arrays, rate : Rates]
    BY <1>1, <1>4, <1>7, <2>2, <2>4
  <2> QED
    BY <1>1, <2>1, <2>2, <2>4, <2>5, MovedHolds
<1>8. ASSUME NEW b \in Bins, Withdraw(b) PROVE TradeInv'
  <2> DEFINE depth == [chain.depth EXCEPT ![b] = 0]
             new == [chain EXCEPT !.depth[b] = 0]
  <2>1. Moved(new)
    BY <1>8 DEF Withdraw
  <2>2. /\ new.active = chain.active /\ new.depth = depth /\ new.rate = chain.rate
        /\ new.made = chain.made
        /\ new = [active |-> chain.active, depth |-> depth, rate |-> chain.rate,
                  made |-> chain.made]
    <3>1. DOMAIN new = {"active", "depth", "made", "rate"}
      BY <1>1
    <3>2. new.active = chain.active /\ new.rate = chain.rate /\ new.made = chain.made
      BY <1>1
    <3>3. new.depth = depth
      BY <1>1
    <3>4. new = [f \in DOMAIN new |-> new[f]]
      BY <1>1
    <3> HIDE DEF new, depth
    <3> QED
      BY <3>1, <3>2, <3>3, <3>4
  <2> HIDE DEF new
  <2>4. depth \in [Bins -> Int] /\ Holding(depth) \subseteq Holding(chain.depth)
    BY <1>2, <1>8, HoldingAfter
  <2> HIDE DEF depth
  <2>5. new \in [active : Bins, depth : [Bins -> Int], made : SUBSET Arrays, rate : Rates]
    BY <1>1, <2>2, <2>4
  <2> QED
    BY <1>1, <2>1, <2>2, <2>4, <2>5, MovedHolds
<1>9. ASSUME NEW rate \in Rates, PumpMoves(rate) PROVE TradeInv'
  <2> DEFINE new == [chain EXCEPT !.rate = rate]
  <2>1. Moved(new)
    BY <1>9 DEF PumpMoves
  <2>2. new.depth = chain.depth /\ new.made = chain.made
        /\ new \in [active : Bins, depth : [Bins -> Int], made : SUBSET Arrays, rate : Rates]
    BY <1>1, <1>9
  <2> HIDE DEF new
  <2> QED
    BY <1>1, <2>1, <2>2, MovedHolds
<1> QED
  BY <1>5, <1>6, <1>7, <1>8, <1>9

(* What is known here changes between trades, account by account. *)
LEMMA UpdatedHolds ==
  ASSUME TradeInv, NEW new, Updated(new),
         new \in [active : Bins, depth : [Bins -> Int], held : SUBSET Arrays,
                  bitmap : SUBSET Arrays, rate : Rates],
         new.held = copy.held, new.bitmap \subseteq chain.made
  PROVE  TradeInv'
<1> USE DEF TradeInv
<1>1. /\ at = "idle" /\ copy' = new
      /\ UNCHANGED <<config, chain, drift, at, offer, terms, window, result>>
  BY DEF Updated
<1>2. Shape' /\ Planned' /\ Accounted' /\ LandedPays'
  BY <1>1 DEF Shape, Planned, Accounted, LandedPays, config
<1>3. Holding(chain.depth)' = Holding(chain.depth)
  BY <1>1 DEF Holding
<1>4. TypeOK'
  BY <1>1, <1>3 DEF TypeOK, config
<1> QED
  BY <1>2, <1>4

LEMMA UpdatesHold ==
  ASSUME TradeInv, UpdatePool \/ UpdatePump \/ \E a \in Arrays : UpdateArray(a)
  PROVE  TradeInv'
<1>1. /\ chain \in [active : Bins, depth : [Bins -> Int], made : SUBSET Arrays, rate : Rates]
      /\ copy \in [active : Bins, depth : [Bins -> Int], held : SUBSET Arrays,
                   bitmap : SUBSET Arrays, rate : Rates]
      /\ Holding(chain.depth) \subseteq chain.made /\ copy.bitmap \subseteq chain.made
  BY DEF TradeInv, Shape, TypeOK
<1>2. CASE UpdatePool
  <2> DEFINE new == [copy EXCEPT !.active = chain.active, !.bitmap = Holding(chain.depth)]
  <2>1. Updated(new)
    BY <1>2 DEF UpdatePool
  <2>2. Holding(chain.depth) \in SUBSET Arrays
    BY <1>1
  <2>3. /\ new.held = copy.held /\ new.bitmap \subseteq chain.made
        /\ new \in [active : Bins, depth : [Bins -> Int], held : SUBSET Arrays,
                    bitmap : SUBSET Arrays, rate : Rates]
    BY <1>1, <2>2
  <2> HIDE DEF new
  <2> QED
    BY <2>1, <2>3, UpdatedHolds
<1>3. CASE UpdatePump
  <2> DEFINE new == [copy EXCEPT !.rate = chain.rate]
  <2>1. Updated(new)
    BY <1>3 DEF UpdatePump
  <2>2. /\ new.held = copy.held /\ new.bitmap \subseteq chain.made
        /\ new \in [active : Bins, depth : [Bins -> Int], held : SUBSET Arrays,
                    bitmap : SUBSET Arrays, rate : Rates]
    BY <1>1
  <2> HIDE DEF new
  <2> QED
    BY <2>1, <2>2, UpdatedHolds
<1>4. ASSUME NEW a \in Arrays, UpdateArray(a) PROVE TradeInv'
  <2> DEFINE depth == [b \in Bins |-> IF ArrayOf(b) = a THEN chain.depth[b] ELSE copy.depth[b]]
             new == [copy EXCEPT !.depth = depth]
  <2>1. Updated(new)
    BY <1>4 DEF UpdateArray
  <2>2. depth \in [Bins -> Int]
    BY <1>1
  <2> HIDE DEF depth
  <2>3. /\ new.held = copy.held /\ new.bitmap \subseteq chain.made
        /\ new \in [active : Bins, depth : [Bins -> Int], held : SUBSET Arrays,
                    bitmap : SUBSET Arrays, rate : Rates]
    BY <1>1, <2>2
  <2> HIDE DEF new
  <2> QED
    BY <2>1, <2>3, UpdatedHolds
<1> QED
  BY <1>2, <1>3, <1>4

LEMMA TradeStep ==
  ASSUME TradeInv, [Next]_vars
  PROVE  TradeInv'
<1>1. CASE \E size \in Sizes : QuotePumpFirst(size) \/ QuoteMeteoraFirst(size)
  BY <1>1, QuotesHold
<1>2. CASE BuildPumpFirst \/ BuildMeteoraFirst
  BY <1>2, BuiltHolds DEF BuildPumpFirst, BuildMeteoraFirst
<1>3. CASE \E split \in BOOLEAN : Land(split)
  BY <1>3, LandHolds
<1>4. CASE \/ SwapAlong \/ SwapAgainst
           \/ \E b \in Bins : Provide(b) \/ Withdraw(b)
           \/ \E rate \in Rates : PumpMoves(rate)
  BY <1>4, DriftHolds
<1>5. CASE UpdatePool \/ UpdatePump \/ \E a \in Arrays : UpdateArray(a)
  BY <1>5, UpdatesHold
<1>6. CASE UNCHANGED vars
  <2>1. /\ Holding(chain.depth)' = Holding(chain.depth)
        /\ (AnyLiquidity(copy) \cup Marked(copy))' = AnyLiquidity(copy) \cup Marked(copy)
    BY <1>6 DEF vars, Holding, AnyLiquidity, Marked, Current
  <2>2. Shape' /\ Planned' /\ LandedPays'
    BY <1>6 DEF vars, config, TradeInv, Shape, Planned, LandedPays
  <2>3. Accounted'
    BY <1>6, <2>1 DEF vars, TradeInv, Accounted
  <2>4. TypeOK'
    BY <1>6, <2>1 DEF vars, config, TradeInv, TypeOK
  <2> QED
    BY <2>2, <2>3, <2>4 DEF TradeInv
<1> QED
  BY <1>1, <1>2, <1>3, <1>4, <1>5, <1>6 DEF Next

LEMMA TradeInvariant == Spec => []TradeInv
<1>1. TradeInv /\ [Next]_vars => TradeInv'
  BY TradeStep
<1> QED
  BY InitHolds, <1>1, PTL DEF Spec

(* Type correctness: amounts are whole and positive, and only arrays that  *)
(* exist are known, touched or among the accounts.                         *)
THEOREM TradeTypesHold == Spec => []TypeOK
<1>1. TradeInv => TypeOK
  BY DEF TradeInv
<1> QED
  BY <1>1, TradeInvariant, PTL

(* A swap fails for a missing array only where nothing known here spoke of *)
(* the array when it was built, or its accounts were as many as may be.    *)
THEOREM MissesOnlyTheNew == Spec => []MissingOnlyIfNew
<1>1. TradeInv => MissingOnlyIfNew
  <2> SUFFICES ASSUME TradeInv, at = "done", ~(Cardinality(window) >= WindowSize)
               PROVE  result.missing \cap (AnyLiquidity(copy) \cup Marked(copy)) = {}
    BY DEF MissingOnlyIfNew
  <2>1. AnyLiquidity(copy) \cup Marked(copy) \subseteq window /\ result.missing \cap window = {}
    BY DEF TradeInv, Accounted
  <2> QED
    BY <2>1
<1> QED
  BY <1>1, TradeInvariant, PTL

(* A trade that lands gains at least what its tip and signatures cost, for *)
(* any prices, fees, slippages and moves of the pools in between: unless   *)
(* it went as a bundle and no tip was planned, when the bundle carries the *)
(* least tip and nothing has asked the trade to gain it.                   *)
THEOREM LandedTradesPay == Spec => []LandedPays
<1>1. TradeInv => LandedPays
  BY DEF TradeInv
<1> QED
  BY <1>1, TradeInvariant, PTL

-----------------------------------------------------------------------------
(* The promise, from the quote to the chain.                               *)

(* The quote is that of what is known here, which does not change until    *)
(* the trade is done; what is paid first buys what was quoted; the first   *)
(* swap asks for no more than that.                                        *)
Backed ==
    /\ at # "idle" =>
          /\ offer.quote # NoQuote /\ offer.quote = QuoteDetail(copy, offer.amount)
          /\ PumpFirst => /\ PumpBuys(offer.paid, copy.rate) >= offer.amount
                          /\ offer.promise = Promised(offer.quote)
          /\ ~PumpFirst => offer.paid = offer.amount /\ offer.promise = offer.quote.out
    /\ at \in {"built", "done"} /\ PumpFirst =>
          terms.firstMin \in Int /\ terms.firstMin <= offer.amount

(* What lands, or fails at one of the swaps only for its least output,     *)
(* paid what was promised.                                                 *)
LEMMA LandKeepsPromise ==
  ASSUME TradeInv, Backed, NEW split \in BOOLEAN, Land(split)
  PROVE  PromiseKept'
<1> DEFINE n == IF split THEN 2 ELSE 1
           bought == PumpBuys(offer.paid, chain.rate)
           given  == IF PumpFirst THEN bought ELSE offer.paid
           swap   == Swapped(given)
           one    == CeilDiv(Price[0], Unit)
           quote  == offer.quote
<1>1. /\ at = "built" /\ at' = "done"
      /\ result' = Executed(n, TipPaid(terms.tip))
      /\ UNCHANGED <<config, chain, copy, drift, offer, terms, window>>
  BY DEF Land
<1>2. /\ result'.out = swap.out /\ result'.strange = swap.strange
      /\ result'.kind \notin {"missing", "dry"} /\ ~(PumpFirst /\ bought < terms.firstMin)
            => swap.missing = {}
  BY <1>1 DEF Executed
<1> HIDE DEF n
<1>3. /\ chain.rate \in Rates /\ chain.active \in Bins /\ chain.depth \in [Bins -> Int]
      /\ copy.depth \in [Bins -> Int] /\ copy.rate \in Rates
      /\ offer.paid \in Nat \ {0} /\ offer.amount \in Nat \ {0}
  BY <1>1 DEF TradeInv, Shape, Planned
<1>4. /\ quote # NoQuote /\ quote = QuoteDetail(copy, offer.amount)
      /\ PumpFirst => /\ PumpBuys(offer.paid, copy.rate) >= offer.amount
                      /\ offer.promise = Promised(quote)
                      /\ terms.firstMin \in Int /\ terms.firstMin <= offer.amount
      /\ ~PumpFirst => offer.paid = offer.amount /\ offer.promise = quote.out
  BY <1>1 DEF Backed
<1>5. quote.out \in Int
  <2> HIDE DEF quote
  <2> QED
    BY <1>3, <1>4, QuoteFacts
<1>6. offer.promise <= AtLeast1(quote.out)
  <2> HIDE DEF quote
  <2>1. Promised(quote) <= AtLeast1(quote.out)
    BY <1>5, PromisedBounds
  <2>2. quote.out <= AtLeast1(quote.out)
    BY <1>5, Extremes
  <2> QED
    BY <1>4, <2>1, <2>2
<1>7. offer.promise \in Int /\ AtLeast1(quote.out) \in Int
  <2> HIDE DEF quote
  <2>1. Promised(quote) \in Int /\ AtLeast1(quote.out) \in Int
    BY <1>5, PromisedBounds, Extremes
  <2> QED
    BY <1>4, <1>5, <2>1
<1>8. ASSUME Seen, result'.kind \notin {"missing", "dry"}
      PROVE  swap.out + (quote.bins + 3 * swap.strange) * one >= offer.promise
  <2>1. SamePool /\ copy.rate = chain.rate
    BY <1>8 DEF Seen, SamePool
  <2>2. bought \in Int /\ (PumpFirst => bought >= offer.amount)
    BY <1>3, <1>4, <2>1, PumpFacts
  <2>3. ~(PumpFirst /\ bought < terms.firstMin)
    <3> HIDE DEF bought
    <3> QED
      BY <1>3, <1>4, <2>2
  <2>4. swap.missing = {}
    BY <1>2, <1>8, <2>3
  <2>5. given \in Nat /\ offer.amount <= given /\ offer.amount \in Nat
    <3> HIDE DEF bought
    <3> QED
      BY <1>3, <1>4, <2>2
  <2> HIDE DEF given, quote, one
  <2>6. /\ swap.out + (quote.bins + 3 * swap.strange) * one \in Int
        /\ swap.out + (quote.bins + 3 * swap.strange) * one >= AtLeast1(quote.out)
    <3> DEFINE total == swap.out + (quote.bins + 3 * swap.strange) * CeilDiv(Price[0], Unit)
    <3>1. total \in Int /\ total >= AtLeast1(quote.out)
      BY <1>3, <1>4, <2>1, <2>4, <2>5, QuoteKept
    <3> QED
      BY <3>1 DEF one
  <2> QED
    BY <1>6, <1>7, <2>6
<1>9. Seen' <=> Seen
  BY <1>1 DEF Seen
<1>10. Seen' /\ result'.kind \notin {"missing", "dry"} =>
          result'.out + (offer'.quote.bins + 3 * result'.strange) * one >= offer'.promise
  <2> HIDE DEF swap, one
  <2> QED
    BY <1>1, <1>2, <1>8, <1>9 DEF quote
<1> QED
  BY <1>10 DEF PromiseKept, one

(* Every step keeps what backs the promise, and the promise. *)
LEMMA KeptStep ==
  ASSUME TradeInv, Backed, PromiseKept, [Next]_vars
  PROVE  Backed' /\ PromiseKept'
<1>1. CASE \E size \in Sizes : QuotePumpFirst(size) \/ QuoteMeteoraFirst(size)
  <2>1. PICK size \in Sizes : QuotePumpFirst(size) \/ QuoteMeteoraFirst(size)
    BY <1>1
  <2>2. copy.rate \in Rates
    BY DEF TradeInv, Shape
  <2>3. CASE QuotePumpFirst(size)
    <3> DEFINE amount == TokensSafe(size)
               paid   == QuoteIn(size)
               quote  == QuoteDetail(copy, amount)
    <3>1. /\ PumpFirst /\ quote # NoQuote /\ at' = "quoted"
          /\ offer'.paid = paid /\ offer'.amount = amount /\ offer'.quote = quote
          /\ offer'.promise = Promised(quote)
          /\ UNCHANGED <<config, copy>>
      BY <2>3 DEF QuotePumpFirst, Quoted
    <3>2. PumpBuys(paid, copy.rate) >= amount
      BY <2>2, QuoteInBuys
    <3>3. copy' = copy /\ PumpFirst'
      BY <3>1 DEF PumpFirst, config
    <3> HIDE DEF amount, paid
    <3> QED
      BY <3>1, <3>2, <3>3 DEF Backed, PromiseKept
  <2>4. CASE QuoteMeteoraFirst(size)
    <3> DEFINE quote == QuoteDetail(copy, size)
    <3>1. /\ ~PumpFirst /\ quote # NoQuote /\ at' = "quoted"
          /\ offer'.paid = size /\ offer'.amount = size /\ offer'.quote = quote
          /\ offer'.promise = quote.out
          /\ UNCHANGED <<config, copy>>
      BY <2>4 DEF QuoteMeteoraFirst, Quoted
    <3>2. copy' = copy /\ ~PumpFirst'
      BY <3>1 DEF PumpFirst, config
    <3> QED
      BY <3>1, <3>2 DEF Backed, PromiseKept
  <2> QED
    BY <2>1, <2>3, <2>4
<1>2. CASE BuildPumpFirst \/ BuildMeteoraFirst
  <2>1. /\ at = "quoted" /\ at' = "built" /\ UNCHANGED <<config, copy, offer>>
    BY <1>2 DEF BuildPumpFirst, BuildMeteoraFirst, Built
  <2>2. PumpFirst' <=> PumpFirst
    BY <2>1 DEF PumpFirst, config
  <2>3. PumpFirst => terms'.firstMin \in Int /\ terms'.firstMin <= offer.amount
    <3>1. SUFFICES ASSUME PumpFirst
                   PROVE  terms'.firstMin \in Int /\ terms'.firstMin <= offer.amount
      OBVIOUS
    <3>2. terms'.firstMin = QuotedMin(offer.amount, 1)
      BY <1>2, <3>1 DEF BuildPumpFirst, BuildMeteoraFirst, Built, Wrapped
    <3>3. offer.amount \in Nat \ {0}
      BY <2>1 DEF TradeInv, Planned
    <3>4. QuotedMin(offer.amount, 1) \in Int /\ QuotedMin(offer.amount, 1) <= offer.amount
      BY <3>3 DEF QuotedMin, Most
    <3> QED
      BY <3>2, <3>4
  <2> QED
    BY <2>1, <2>2, <2>3 DEF Backed, PromiseKept
<1>3. CASE \E split \in BOOLEAN : Land(split)
  <2>1. PICK split \in BOOLEAN : Land(split)
    BY <1>3
  <2>2. PromiseKept'
    BY <2>1, LandKeepsPromise
  <2>3. at = "built" /\ at' = "done" /\ UNCHANGED <<config, copy, offer, terms>>
    BY <2>1 DEF Land
  <2> QED
    BY <2>2, <2>3 DEF Backed, PumpFirst, config
<1>4. CASE \/ SwapAlong \/ SwapAgainst
           \/ \E b \in Bins : Provide(b) \/ Withdraw(b)
           \/ \E rate \in Rates : PumpMoves(rate)
  <2>1. at # "done" /\ UNCHANGED <<config, copy, at, offer, terms>>
    BY <1>4 DEF SwapAlong, SwapAgainst, Provide, Withdraw, PumpMoves, Moved
  <2> QED
    BY <2>1 DEF Backed, PromiseKept, PumpFirst, config
<1>5. CASE UpdatePool \/ UpdatePump \/ \E a \in Arrays : UpdateArray(a)
  <2>1. at = "idle" /\ at' = "idle"
    BY <1>5 DEF UpdatePool, UpdatePump, UpdateArray, Updated
  <2> QED
    BY <2>1 DEF Backed, PromiseKept
<1>6. CASE UNCHANGED vars
  BY <1>6 DEF vars, config, Backed, PromiseKept, PumpFirst, Seen
<1> QED
  BY <1>1, <1>2, <1>3, <1>4, <1>5, <1>6 DEF Next

(* What a quote promises of Meteora is paid when the pools are as they     *)
(* were known: whatever the bins hold, the prices and the fees are, up to  *)
(* what one unit buys in each bin quoted and three in each bin of an array *)
(* that was not held here.                                                 *)
THEOREM PromisesAreKept == Spec => []PromiseKept
<1>1. Init => Backed /\ PromiseKept
  BY DEF Init, Backed, PromiseKept
<1>2. TradeInv /\ Backed /\ PromiseKept /\ [Next]_vars => Backed' /\ PromiseKept'
  BY KeptStep
<1> QED
  BY <1>1, <1>2, TradeInvariant, PTL DEF Spec

-----------------------------------------------------------------------------
(* The program that executes a trade. *)

(* The account that is measured is the one the second swap sells from.     *)
LEMMA ObservedIsSource ==
  ASSUME ExecTypeOK
  PROVE  /\ Observed = ins.source
         /\ ins.source \in Accounts \ {"quote"}
         /\ ins.minProfit \in Amounts
  BY DEF ExecTypeOK, Observed, Instruction, Accounts

(* The balances are natural numbers up to the largest amount. *)
LEMMA BalanceFacts ==
  ASSUME ExecTypeOK
  PROVE  /\ \A a \in Accounts : bal[a] \in Nat /\ bal[a] <= MaxAmount
         /\ \A a \in Accounts : start[a] \in Nat /\ start[a] <= MaxAmount
         /\ MaxAmount \in Nat
         /\ ins.minProfit \in Nat
         /\ amountIn \in Nat
  BY AmountAssumption, ObservedIsSource DEF ExecTypeOK, Amounts

(* Once a gain is measured, the adjusted amount is the whole gain, and the *)
(* source holds it.                                                        *)
LEMMA AdjustedIsBought ==
  ASSUME ExecTypeOK, Gained
  PROVE  /\ Adjusted(Bought) = bal[ins.source] - start[ins.source]
         /\ Adjusted(Bought) \in Amounts
         /\ Adjusted(Bought) <= bal[ins.source]
<1>1. bal[ins.source] \in Nat /\ start[ins.source] \in Nat /\ bal[ins.source] <= MaxAmount
      /\ bal[ins.source] > start[ins.source] /\ MaxAmount \in Nat
  BY ObservedIsSource, BalanceFacts DEF Gained
<1>2. Bought = bal[ins.source] - start[ins.source]
  BY ObservedIsSource DEF Bought
<1>3. Bought \in Nat /\ Bought <= bal[ins.source]
  BY <1>1, <1>2
<1>4. Adjusted(Bought) = Bought
  BY <1>1, <1>3 DEF Adjusted, Lower
<1> QED
  BY <1>1, <1>2, <1>3, <1>4 DEF Amounts

(* Type correctness: no balance and no injected amount leaves u64. *)
THEOREM ExecTypesHold == ExecSpec => []ExecTypeOK
<1>1. ExecInit => ExecTypeOK
  BY AmountAssumption DEF ExecInit, ExecTypeOK, Amounts
<1>2. ExecTypeOK /\ [ExecNext]_execVars => ExecTypeOK'
  <2> SUFFICES ASSUME ExecTypeOK, [ExecNext]_execVars PROVE ExecTypeOK'
    OBVIOUS
  <2>1. CASE Begin
    BY <2>1 DEF Begin, ExecTypeOK
  <2>2. CASE Refuse
    BY <2>2 DEF Refuse, Fail, ExecTypeOK, InvalidInstruction, NotEnoughAccounts,
       InvalidTokenAccount
  <2>3. CASE FirstLeg
    <3>1. PICK paid \in 0..bal["quote"], a \in Accounts \ {"quote"}, v \in Amounts :
             bal' = [bal EXCEPT !["quote"] = @ - paid, ![a] = v]
      BY <2>3 DEF FirstLeg
    <3>2. bal["quote"] - paid \in Amounts
      BY <3>1, BalanceFacts DEF Amounts, Accounts
    <3>3. bal' \in [Accounts -> Amounts]
      BY <3>1, <3>2 DEF ExecTypeOK
    <3> QED
      BY <2>3, <3>3 DEF FirstLeg, ExecTypeOK
  <2>4. CASE LegFails
    BY <2>4 DEF LegFails, Fail, ExecTypeOK, CpiFailed
  <2>5. CASE NoGain
    BY <2>5 DEF NoGain, Fail, ExecTypeOK, NothingBought
  <2>6. CASE BadOffset
    BY <2>6 DEF BadOffset, Fail, ExecTypeOK, InvalidAmountOffset
  <2>7. CASE Inject
    BY <2>7, AdjustedIsBought DEF Inject, ExecTypeOK
  <2>8. CASE SecondLeg
    <3>1. PICK sold \in 0..Lower(amountIn, bal[ins.source]), v \in bal["quote"]..MaxAmount :
             bal' = [bal EXCEPT ![ins.source] = @ - sold, !["quote"] = v]
      BY <2>8 DEF SecondLeg
    <3>2. ins.source \in Accounts /\ "quote" \in Accounts
      BY ObservedIsSource DEF Accounts
    <3>3. bal[ins.source] - sold \in Amounts /\ v \in Amounts
      BY <3>1, <3>2, BalanceFacts DEF Amounts, Lower
    <3>4. bal' \in [Accounts -> Amounts]
      BY <3>1, <3>3 DEF ExecTypeOK
    <3> QED
      BY <2>8, <3>4 DEF SecondLeg, ExecTypeOK
  <2>9. CASE Reject
    BY <2>9 DEF Reject, Fail, ExecTypeOK, ProfitBelowThreshold
  <2>10. CASE Commit
    BY <2>10 DEF Commit, ExecTypeOK
  <2>11. CASE Return
    BY <2>11 DEF Return, ExecTypeOK
  <2>12. CASE UNCHANGED execVars
    BY <2>12 DEF execVars, ExecTypeOK
  <2> QED
    BY <2>1, <2>2, <2>3, <2>4, <2>5, <2>6, <2>7, <2>8, <2>9, <2>10, <2>11, <2>12
       DEF ExecNext
<1> QED
  BY <1>1, <1>2, PTL DEF ExecSpec

-----------------------------------------------------------------------------
(* What holds at each stage of an instruction; the stages after the second *)
(* swap inherit it from the stage before.                                  *)
StageInv ==
    /\ AllBoughtIsOffered
    /\ OnlyBoughtIsSold
    /\ pc = "second" => bal[ins.source] >= start[ins.source]
    /\ pc = "done" => ~Shortfall

(* Every step keeps what holds at each stage. *)
LEMMA StageStep ==
  ASSUME ExecTypeOK, ExecTypeOK', StageInv, [ExecNext]_execVars
  PROVE  StageInv'
<1> USE DEF StageInv
<1>1. CASE Begin
  BY <1>1 DEF Begin, AllBoughtIsOffered, OnlyBoughtIsSold
<1>2. CASE Refuse \/ LegFails \/ NoGain \/ BadOffset \/ Reject
  <2>1. pc' = "idle"
    BY <1>2 DEF Refuse, LegFails, NoGain, BadOffset, Reject, Fail
  <2> QED
    BY <2>1 DEF AllBoughtIsOffered, OnlyBoughtIsSold
<1>3. CASE FirstLeg
  BY <1>3 DEF FirstLeg, AllBoughtIsOffered, OnlyBoughtIsSold
<1>4. CASE Inject
  <2>1. /\ Gained /\ amountIn' = Adjusted(Bought)
        /\ UNCHANGED <<bal, start, ins>> /\ pc' = "second"
    BY <1>4 DEF Inject
  <2>2. /\ amountIn' = bal[ins.source] - start[ins.source]
        /\ amountIn' <= bal[ins.source]
    BY <2>1, AdjustedIsBought
  <2>3. Bought' = bal[ins.source] - start[ins.source]
    BY <2>1, ObservedIsSource DEF Bought, Observed
  <2>4. bal[ins.source] >= start[ins.source]
    BY <2>1, ObservedIsSource, BalanceFacts DEF Gained
  <2> QED
    BY <2>1, <2>2, <2>3, <2>4 DEF AllBoughtIsOffered, OnlyBoughtIsSold
<1>5. CASE SecondLeg
  <2>1. PICK sold \in 0..Lower(amountIn, bal[ins.source]), v \in bal["quote"]..MaxAmount :
           bal' = [bal EXCEPT ![ins.source] = @ - sold, !["quote"] = v]
    BY <1>5 DEF SecondLeg
  <2>2. pc = "second" /\ pc' = "settle" /\ UNCHANGED <<start, ins>>
    BY <1>5 DEF SecondLeg
  <2>3. amountIn = bal[ins.source] - start[ins.source]
    BY <2>2, ObservedIsSource DEF AllBoughtIsOffered, Bought
  <2>4. bal'[ins.source] = bal[ins.source] - sold
    BY <2>1, ObservedIsSource DEF ExecTypeOK
  <2>5. bal[ins.source] \in Nat /\ start[ins.source] \in Nat /\ amountIn \in Nat
    BY ObservedIsSource, BalanceFacts
  <2>6. sold \in Nat /\ sold <= amountIn
    BY <2>1, <2>5 DEF Lower
  <2>7. bal'[ins.source] >= start[ins.source]
    BY <2>3, <2>4, <2>5, <2>6
  <2> QED
    BY <2>2, <2>7 DEF AllBoughtIsOffered, OnlyBoughtIsSold
<1>6. CASE Commit
  BY <1>6 DEF Commit, AllBoughtIsOffered, OnlyBoughtIsSold, Shortfall
<1>7. CASE Return
  BY <1>7 DEF Return, AllBoughtIsOffered, OnlyBoughtIsSold
<1>8. CASE UNCHANGED execVars
  BY <1>8 DEF execVars, AllBoughtIsOffered, OnlyBoughtIsSold, Bought, Observed, Shortfall
<1> QED
  BY <1>1, <1>2, <1>3, <1>4, <1>5, <1>6, <1>7, <1>8 DEF ExecNext

(* The stages of an instruction, for every width of the amounts. *)
THEOREM StagesHold == ExecSpec => []StageInv
<1>1. ExecInit => StageInv
  BY DEF ExecInit, StageInv, AllBoughtIsOffered, OnlyBoughtIsSold
<1>2. ExecTypeOK /\ ExecTypeOK' /\ StageInv /\ [ExecNext]_execVars => StageInv'
  BY StageStep
<1> QED
  BY <1>1, <1>2, ExecTypesHold, PTL DEF ExecSpec

(* No transaction with a minimum profit commits at a loss, and it commits  *)
(* below its minimum only if the quote account is full.                    *)
THEOREM CommitsOnlyProfit == ExecSpec => []ProfitKept
<1>1. ExecTypeOK /\ StageInv => ProfitKept
  <2> SUFFICES ASSUME ExecTypeOK, StageInv, pc = "done", ins.minProfit # 0
               PROVE  /\ bal["quote"] >= start["quote"]
                      /\ bal["quote"] - start["quote"] >= ins.minProfit \/ bal["quote"] = MaxAmount
    BY DEF ProfitKept
  <2>1. ~(bal["quote"] < SaturatingAdd(start["quote"], ins.minProfit))
    BY DEF StageInv, Shortfall
  <2>2. /\ bal["quote"] \in Nat /\ start["quote"] \in Nat /\ ins.minProfit \in Nat
        /\ MaxAmount \in Nat /\ bal["quote"] <= MaxAmount /\ start["quote"] <= MaxAmount
    BY BalanceFacts DEF Accounts
  <2> QED
    BY <2>1, <2>2 DEF SaturatingAdd, Lower
<1> QED
  BY <1>1, ExecTypesHold, StagesHold, PTL

(* The tokens the wallet held before the first swap are not sold by the    *)
(* second one.                                                             *)
THEOREM SellsOnlyBought == ExecSpec => []OnlyBoughtIsSold
<1>1. StageInv => OnlyBoughtIsSold
  BY DEF StageInv
<1> QED
  BY <1>1, StagesHold, PTL

(* Reducing the amount to the balance of the source never has an effect.   *)
THEOREM OffersAllBought == ExecSpec => []AllBoughtIsOffered
<1>1. StageInv => AllBoughtIsOffered
  BY DEF StageInv
<1> QED
  BY <1>1, StagesHold, PTL

=============================================================================
