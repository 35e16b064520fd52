-------------------------- MODULE ScanRoundProofs --------------------------
(* Proofs about ScanRound for any tokens, paths, offers, limits and number *)
(* of scans.                                                               *)
EXTENDS ScanRound, FiniteSetTheorems, FunctionTheorems, TLAPS

-----------------------------------------------------------------------------
(* Finite sets with an order, which is given as a set of pairs.            *)

IsOrder(R, S) ==
    /\ \A x \in S : <<x, x>> \notin R
    /\ \A x, y, z \in S : <<x, y>> \in R /\ <<y, z>> \in R => <<x, z>> \in R
    /\ \A x, y \in S : x = y \/ <<x, y>> \in R \/ <<y, x>> \in R

(* They can be listed: the number of those before an element is its place. *)
LEMMA Listable ==
  ASSUME NEW S, IsFiniteSet(S), NEW R, IsOrder(R, S)
  PROVE  \E s \in [1..Cardinality(S) -> S] :
            /\ \A x \in S : \E i \in 1..Cardinality(S) : s[i] = x
            /\ \A i, j \in 1..Cardinality(S) : i < j => <<s[i], s[j]>> \in R
<1> DEFINE n == Cardinality(S)
           below(x) == {y \in S : <<y, x>> \in R}
           place == [x \in S |-> Cardinality(below(x))]
<1>1. n \in Nat
  BY FS_CardinalityType
<1>2. ASSUME NEW x \in S
      PROVE  place[x] \in 0..(n - 1)
  <2>1. below(x) \subseteq S \ {x}
    BY DEF IsOrder
  <2>2. IsFiniteSet(S \ {x}) /\ Cardinality(S \ {x}) = n - 1
    BY FS_RemoveElement
  <2>3. IsFiniteSet(below(x)) /\ Cardinality(below(x)) <= n - 1
    <3> DEFINE before == below(x)
               others == S \ {x}
    <3>1. IsFiniteSet(others) /\ before \in SUBSET others /\ Cardinality(others) = n - 1
      BY <2>1, <2>2
    <3> HIDE DEF before, others, n
    <3>2. IsFiniteSet(before) /\ Cardinality(before) <= Cardinality(others)
      BY <3>1, FS_Subset
    <3> QED
      BY <3>1, <3>2 DEF before
  <2>4. Cardinality(below(x)) \in Nat
    BY <2>3, FS_CardinalityType
  <2> QED
    BY <1>1, <2>3, <2>4
<1>3. ASSUME NEW x \in S, NEW y \in S, <<x, y>> \in R
      PROVE  place[x] < place[y]
  <2>1. below(x) \cup {x} \subseteq below(y) /\ x \notin below(x)
    BY <1>3 DEF IsOrder
  <2>2. IsFiniteSet(below(x)) /\ IsFiniteSet(below(y))
    BY FS_Subset
  <2>3. Cardinality(below(x) \cup {x}) = Cardinality(below(x)) + 1
    BY <2>1, <2>2, FS_AddElement
  <2>4. Cardinality(below(x) \cup {x}) <= Cardinality(below(y))
    BY <2>1, <2>2, FS_Subset
  <2>5. Cardinality(below(x)) \in Nat /\ Cardinality(below(y)) \in Nat
    BY <2>2, FS_CardinalityType
  <2> QED
    BY <2>3, <2>4, <2>5
<1>4. place \in [S -> 0..(n - 1)]
  BY <1>2
<1> HIDE DEF place
<1>5. \A x, y \in S : place[x] = place[y] => x = y
  <2> SUFFICES ASSUME NEW x \in S, NEW y \in S, place[x] = place[y]
               PROVE  x = y
    OBVIOUS
  <2>1. ~(place[x] < place[y]) /\ ~(place[y] < place[x])
    BY <1>4
  <2>2. <<x, y>> \notin R /\ <<y, x>> \notin R
    BY <1>3, <2>1
  <2> QED
    BY <2>2 DEF IsOrder
<1>6. \A k \in 0..(n - 1) : \E x \in S : place[x] = k
  <2>1. place \in Injection(S, 0..(n - 1))
    BY <1>4, <1>5, Fun_IsInj
  <2>2. IsFiniteSet(0..(n - 1)) /\ Cardinality(0..(n - 1)) = n
    BY <1>1, FS_Interval
  <2>3. place \in Surjection(S, 0..(n - 1))
    BY <2>1, <2>2, FS_Injection
  <2> QED
    BY <2>3 DEF Surjection
<1> DEFINE s == [i \in 1..n |-> CHOOSE x \in S : place[x] = i - 1]
<1>7. \A i \in 1..n : s[i] \in S /\ place[s[i]] = i - 1
  <2> SUFFICES ASSUME NEW i \in 1..n PROVE s[i] \in S /\ place[s[i]] = i - 1
    OBVIOUS
  <2>1. i - 1 \in 0..(n - 1)
    BY <1>1
  <2> QED
    BY <1>6, <2>1
<1>8. s \in [1..n -> S]
  BY <1>7
<1> HIDE DEF s, n
<1>9. \A x \in S : \E i \in 1..n : s[i] = x
  <2> SUFFICES ASSUME NEW x \in S PROVE \E i \in 1..n : s[i] = x
    OBVIOUS
  <2>1. place[x] + 1 \in 1..n /\ (place[x] + 1) - 1 = place[x]
    BY <1>1, <1>4
  <2> QED
    BY <1>5, <1>7, <2>1
<1>10. \A i, j \in 1..n : i < j => <<s[i], s[j]>> \in R
  <2> SUFFICES ASSUME NEW i \in 1..n, NEW j \in 1..n, i < j
               PROVE  <<s[i], s[j]>> \in R
    OBVIOUS
  <2>1. s[i] \in S /\ s[j] \in S /\ place[s[i]] = i - 1 /\ place[s[j]] = j - 1
    BY <1>7
  <2>2. s[i] # s[j]
    BY <2>1
  <2>3. ~(<<s[j], s[i]>> \in R)
    BY <1>3, <2>1
  <2> QED
    BY <2>1, <2>2, <2>3 DEF IsOrder
<1> QED
  BY <1>8, <1>9, <1>10 DEF n

(* One of them is the first. *)
LEMMA First ==
  ASSUME NEW S, IsFiniteSet(S), S # {}, NEW R, IsOrder(R, S)
  PROVE  \E m \in S : \A x \in S \ {m} : <<m, x>> \in R
<1> DEFINE n == Cardinality(S)
<1>1. n \in Nat /\ n # 0
  BY FS_CardinalityType, FS_EmptySet
<1>2. PICK s \in [1..n -> S] :
        /\ \A x \in S : \E i \in 1..n : s[i] = x
        /\ \A i, j \in 1..n : i < j => <<s[i], s[j]>> \in R
  BY Listable
<1> HIDE DEF n
<1>3. 1 \in 1..n /\ s[1] \in S /\ \A i \in 1..n : i # 1 => 1 < i
  BY <1>1
<1>4. ASSUME NEW x \in S \ {s[1]}
      PROVE  <<s[1], x>> \in R
  BY <1>2, <1>3
<1> QED
  BY <1>3, <1>4

LEMMA FirstOf ==
  \A S, R : IsFiniteSet(S) /\ S # {} /\ IsOrder(R, S)
               => \E m \in S : \A x \in S \ {m} : <<m, x>> \in R
  BY First

(* The greatest of finitely many numbers, and the greatest value with the  *)
(* least number, as the sizes are chosen.                                  *)
LEMMA Greatest ==
  ASSUME NEW S, S \subseteq Nat, IsFiniteSet(S), S # {}
  PROVE  \E m \in S : \A u \in S : u <= m
<1>1. PICK R : \A x, y : <<x, y>> \in R <=> x \in S /\ y \in S /\ y < x
  <2> DEFINE Q == {z \in S \X S : z[2] < z[1]}
  <2>1. \A x, y : <<x, y>> \in Q <=> x \in S /\ y \in S /\ y < x
    OBVIOUS
  <2> HIDE DEF Q
  <2> QED
    BY <2>1
<1>2. \A x \in S : x \in Int
  OBVIOUS
<1>3. IsOrder(R, S)
  <2>1. \A x \in S : <<x, x>> \notin R
    BY <1>1, <1>2
  <2>2. \A x, y, z \in S : <<x, y>> \in R /\ <<y, z>> \in R => <<x, z>> \in R
    BY <1>1, <1>2
  <2>3. ASSUME NEW x \in S, NEW y \in S
        PROVE  x = y \/ <<x, y>> \in R \/ <<y, x>> \in R
    <3>1. x = y \/ x < y \/ y < x
      BY <1>2
    <3> QED
      BY <1>1, <3>1
  <2> QED
    BY <2>1, <2>2, <2>3 DEF IsOrder
<1>4. PICK m \in S : \A x \in S \ {m} : <<m, x>> \in R
  <2>1. IsFiniteSet(S) /\ S # {}
    OBVIOUS
  <2> QED
    BY <1>3, <2>1, FirstOf, Zenon
<1>5. ASSUME NEW u \in S
      PROVE  u <= m
  <2>1. CASE u = m
    BY <1>2, <2>1
  <2>2. CASE u # m
    <3>1. <<m, u>> \in R
      BY <1>4, <2>2
    <3> QED
      BY <1>1, <1>2, <3>1
  <2> QED
    BY <2>1, <2>2
<1> QED
  BY <1>5

(* The order of the sizes S by their values v, and the first under it.      *)
Ranks(R, S, v) ==
    \A x, y : <<x, y>> \in R
        <=> x \in S /\ y \in S /\ (v[y] < v[x] \/ (v[y] = v[x] /\ x < y))

Leads(m, S, v) == \A u \in S : u = m \/ v[u] < v[m] \/ (v[u] = v[m] /\ m < u)

LEMMA BySize ==
  ASSUME NEW S, S \subseteq Nat, NEW v, \A u \in S : v[u] \in Int
  PROVE  \E R : IsOrder(R, S) /\ Ranks(R, S, v)
<1>1. PICK R : \A x, y : <<x, y>> \in R
                  <=> x \in S /\ y \in S /\ (v[y] < v[x] \/ (v[y] = v[x] /\ x < y))
  <2> DEFINE Q == {z \in S \X S : v[z[2]] < v[z[1]] \/ (v[z[2]] = v[z[1]] /\ z[1] < z[2])}
  <2>1. \A x, y : <<x, y>> \in Q
           <=> x \in S /\ y \in S /\ (v[y] < v[x] \/ (v[y] = v[x] /\ x < y))
    OBVIOUS
  <2> HIDE DEF Q
  <2> QED
    BY <2>1
<1>2. \A x \in S : v[x] \in Int /\ x \in Int
  OBVIOUS
<1>3. IsOrder(R, S)
  <2>1. \A x \in S : <<x, x>> \notin R
    BY <1>1, <1>2
  <2>2. \A x, y, z \in S : <<x, y>> \in R /\ <<y, z>> \in R => <<x, z>> \in R
    BY <1>1, <1>2
  <2>3. ASSUME NEW x \in S, NEW y \in S
        PROVE  x = y \/ <<x, y>> \in R \/ <<y, x>> \in R
    <3>1. x = y \/ v[y] < v[x] \/ v[x] < v[y] \/ (v[x] = v[y] /\ (x < y \/ y < x))
      BY <1>2
    <3> QED
      BY <1>1, <3>1
  <2> QED
    BY <2>1, <2>2, <2>3 DEF IsOrder
<1> QED
  BY <1>1, <1>3 DEF Ranks

LEMMA FirstBySize ==
  ASSUME NEW S, IsFiniteSet(S), S # {}, NEW v, \E R : IsOrder(R, S) /\ Ranks(R, S, v)
  PROVE  \E m \in S : Leads(m, S, v)
<1>1. PICK R : IsOrder(R, S) /\ Ranks(R, S, v)
  OBVIOUS
<1>2. PICK m \in S : \A x \in S \ {m} : <<m, x>> \in R
  BY <1>1, FirstOf, Zenon
<1>3. ASSUME NEW u \in S
      PROVE  u = m \/ v[u] < v[m] \/ (v[u] = v[m] /\ m < u)
  BY <1>1, <1>2 DEF Ranks
<1> QED
  BY <1>3 DEF Leads

LEMMA BestSize ==
  ASSUME NEW S, S \subseteq Nat, IsFiniteSet(S), S # {}, NEW v, \A u \in S : v[u] \in Int
  PROVE  \E m \in S : \A u \in S : v[u] < v[m] \/ (v[u] = v[m] /\ m <= u)
<1>1. \E R : IsOrder(R, S) /\ Ranks(R, S, v)
  BY BySize
<1>2. PICK m \in S : Leads(m, S, v)
  BY <1>1, FirstBySize
<1>3. \A u \in S : v[u] \in Int /\ u \in Int
  OBVIOUS
<1> QED
  BY <1>2, <1>3 DEF Leads

-----------------------------------------------------------------------------
(* Candidates. *)

LEMMA PreferredFacts ==
  ASSUME NEW o, o.spot \in [Sizes -> Int]
  PROVE  Preferred(o) \in Sizes
<1>1. \E m \in Sizes : \A u \in Sizes : o.spot[u] < o.spot[m] \/ (o.spot[u] = o.spot[m] /\ m <= u)
  BY ScanAssumption, BestSize
<1> QED
  BY <1>1 DEF Preferred

LEMMA ResizedFacts ==
  ASSUME NEW p, NEW o, o.spot \in [Sizes -> Int], NEW f
  PROVE  Resized(p, o, f) \in Sizes
<1> DEFINE less == {s \in Searched(Preferred(o)) : s <= f}
<1>1. less \subseteq Sizes
  BY DEF Searched
<1>2. CASE Payable(p, Preferred(o), f) \/ less = {}
  BY <1>2, PreferredFacts DEF Resized
<1>3. CASE ~(Payable(p, Preferred(o), f) \/ less = {})
  <2>1. IsFiniteSet(less) /\ less \in SUBSET Nat
    BY <1>1, ScanAssumption, FS_Subset
  <2>2. \E m \in less : \A u \in less : u <= m
    BY <1>3, <2>1, Greatest
  <2> HIDE DEF less
  <2>3. (CHOOSE s \in less : \A u \in less : u <= s) \in less
    BY <2>2
  <2>4. Resized(p, o, f) = CHOOSE s \in less : \A u \in less : u <= s
    BY <1>3 DEF Resized, less
  <2> QED
    BY <1>1, <2>3, <2>4
<1> QED
  BY <1>2, <1>3

(* A refined path keeps its name and types; an exact quote is payable. *)
LEMMA RefinedFacts ==
  ASSUME NEW p \in Paths, NEW o \in Offers[p], NEW f
  PROVE  LET c == Refined(p, o, f)
         IN  /\ c \in [path : {p}, exact : BOOLEAN, size : Sizes, net : Int]
             /\ c.exact => Payable(p, c.size, f)
<1> DEFINE quoted == Quoted(p, o, f)
           best == CHOOSE s \in quoted : \A u \in quoted :
                      u * o.exact[u] < s * o.exact[s] \/ (u * o.exact[u] = s * o.exact[s] /\ s <= u)
           spot == Resized(p, o, f)
<1>1. /\ o.spot \in [Sizes -> Int] /\ DOMAIN o.exact \subseteq Sizes
      /\ \A s \in DOMAIN o.exact : o.exact[s] \in Int
  BY ScanAssumption
<1>2. spot \in Sizes
  BY <1>1, ResizedFacts
<1>3. quoted \subseteq Sizes \cap DOMAIN o.exact /\ \A s \in quoted : Payable(p, s, f)
  BY DEF Quoted, Searched
<1>4. quoted # {} => best \in quoted
  <2> SUFFICES ASSUME quoted # {} PROVE best \in quoted
    OBVIOUS
  <2> DEFINE v == [s \in quoted |-> s * o.exact[s]]
  <2>1. quoted \in SUBSET Nat /\ IsFiniteSet(quoted)
    BY <1>3, ScanAssumption, FS_Subset
  <2>2. v \in [quoted -> Int]
    BY <1>1, <1>3, <2>1
  <2> HIDE DEF quoted
  <2>3. \E m \in quoted : \A u \in quoted : v[u] < v[m] \/ (v[u] = v[m] /\ m <= u)
    <3> HIDE DEF v
    <3> QED
      BY <2>1, <2>2, BestSize
  <2>4. \E m \in quoted : \A u \in quoted :
           u * o.exact[u] < m * o.exact[m] \/ (u * o.exact[u] = m * o.exact[m] /\ m <= u)
    BY <2>3
  <2> QED
    BY <2>4
<1>5. Refined(p, o, f) =
        IF quoted # {} THEN [path |-> p, exact |-> TRUE, size |-> best, net |-> o.exact[best]]
        ELSE [path |-> p, exact |-> FALSE, size |-> spot, net |-> o.spot[spot]]
  BY DEF Refined
<1> HIDE DEF quoted, best, spot
<1> QED
  BY <1>1, <1>2, <1>3, <1>4, <1>5

LEMMA LessonFacts ==
  ASSUME NEW b \in Feedbacks
  PROVE  Lesson(b) \in Int
<1>1. /\ b.missed \in Int /\ b.good \in BOOLEAN /\ b.evals \in Int /\ b.best \in Int
      /\ b.selected \in Int /\ b.near \in Int
  BY ScanAssumption DEF Feedbacks
<1>2. AtMost(b.selected, SelectedMost) \in Int
  BY <1>1, ScanAssumption DEF AtMost
<1> QED
  BY <1>2 DEF Lesson

LEMMA AdjustmentFacts ==
  ASSUME NEW b \in Feedbacks, now \in Int
  PROVE  Adjustment(b) \in Int /\ Adjustment(b) >= -(MaxAdjust * Ttl)
<1>1. b.seen \in Int /\ Lesson(b) \in Int /\ Ttl \in Nat /\ MaxAdjust \in Nat
  BY ScanAssumption, LessonFacts DEF Feedbacks
<1>2. MaxAdjust * Ttl \in Nat
  BY <1>1
<1>3. Lesson(b) * (Ttl - (now - b.seen)) \in Int
  BY <1>1
<1>4. \A a \in Int, m \in Nat : Clamped(a, m) \in Int /\ Clamped(a, m) >= -m
  BY DEF Clamped
<1>5. CASE b.evals = 0 \/ now - b.seen >= Ttl
  <2>1. Adjustment(b) = 0
    BY <1>5 DEF Adjustment
  <2> QED
    BY <1>2, <2>1
<1>6. CASE ~(b.evals = 0 \/ now - b.seen >= Ttl)
  <2>1. Adjustment(b) = Clamped(Lesson(b) * (Ttl - (now - b.seen)), MaxAdjust * Ttl)
    BY <1>6 DEF Adjustment
  <2> DEFINE a == Lesson(b) * (Ttl - (now - b.seen))
             m == MaxAdjust * Ttl
  <2>2. a \in Int /\ m \in Nat /\ Adjustment(b) = Clamped(a, m)
    BY <1>2, <1>3, <2>1
  <2> HIDE DEF a, m
  <2>3. Adjustment(b) \in Int /\ Adjustment(b) >= -m
    BY <1>4, <2>2
  <2> QED
    BY <2>3 DEF m
<1> QED
  BY <1>5, <1>6

(* What a scan may find with a balance of f. *)
Candidate == [path : Paths, exact : BOOLEAN, size : Sizes, net : Int, gate : Int]
WellMade(cands, f) ==
    /\ \A c \in cands : /\ c \in Candidate
                        /\ c.exact => Payable(c.path, c.size, f)
                        /\ c.gate <= (c.net - Base) * Ttl + MaxAdjust * Ttl
    /\ \A c, d \in cands : c.path = d.path => c = d

LEMMA GatedFacts ==
  ASSUME NEW p, p \in Paths, NEW o, o \in Offers[p], NEW f,
         feedback \in [Paths -> Feedbacks], now \in Int
  PROVE  LET c == Gated(Refined(p, o, f))
         IN  /\ c \in Candidate /\ c.path = p
             /\ c.exact => Payable(c.path, c.size, f)
             /\ c.gate <= (c.net - Base) * Ttl + MaxAdjust * Ttl
<1> DEFINE r == Refined(p, o, f)
           a == Adjustment(feedback[p])
<1>1. r \in [path : {p}, exact : BOOLEAN, size : Sizes, net : Int] /\ (r.exact => Payable(p, r.size, f))
  BY RefinedFacts
<1>2. a \in Int /\ a >= -(MaxAdjust * Ttl)
  BY AdjustmentFacts
<1>3. Base \in Int /\ Ttl \in Int /\ MaxAdjust \in Int
  BY ScanAssumption
<1>4. r.path = p /\ r.net \in Int
  BY <1>1
<1>5. Gated(r) = [path |-> r.path, exact |-> r.exact, size |-> r.size, net |-> r.net,
                  gate |-> (r.net - Base) * Ttl - a]
  BY <1>4 DEF Gated
<1> HIDE DEF r, a
<1>6. (r.net - Base) * Ttl \in Int /\ MaxAdjust * Ttl \in Int
  BY <1>3, <1>4
<1>7. Gated(r) \in Candidate /\ Gated(r).path = p /\ (Gated(r).exact => Payable(p, Gated(r).size, f))
  BY <1>1, <1>2, <1>4, <1>5, <1>6 DEF Candidate
<1>8. Gated(r).gate <= (Gated(r).net - Base) * Ttl + MaxAdjust * Ttl
  <2> DEFINE w == (r.net - Base) * Ttl
             m == MaxAdjust * Ttl
  <2>1. Gated(r).gate = w - a /\ w \in Int /\ m \in Int /\ a >= -m
    BY <1>2, <1>5, <1>6
  <2>2. Gated(r).net = r.net
    BY <1>5
  <2> HIDE DEF w, m
  <2>3. w - a <= w + m
    BY <1>2, <2>1
  <2> QED
    BY <2>1, <2>2, <2>3 DEF w, m
<1> QED
  BY <1>7, <1>8 DEF r

LEMMA CandidateFacts ==
  ASSUME NEW tokens, NEW offer, NEW f,
         \A p \in Paths : offer[p] \in Offers[p] \cup {NoOffer},
         feedback \in [Paths -> Feedbacks], now \in Int
  PROVE  /\ WellMade(Candidates(tokens, offer, f), f)
         /\ \A c \in Candidates(tokens, offer, f) : TokenOf[c.path] \in tokens
<1>1. ASSUME NEW c, c \in Candidates(tokens, offer, f)
      PROVE  /\ c \in Candidate
             /\ c.exact => Payable(c.path, c.size, f)
             /\ c.gate <= (c.net - Base) * Ttl + MaxAdjust * Ttl
             /\ c = Gated(Refined(c.path, offer[c.path], f))
             /\ TokenOf[c.path] \in tokens
  <2>1. PICK p \in Paths : /\ TokenOf[p] \in tokens /\ offer[p] # NoOffer
                           /\ c = Gated(Refined(p, offer[p], f))
    BY <1>1 DEF Candidates
  <2>2. offer[p] \in Offers[p]
    BY <2>1
  <2> QED
    BY <2>1, <2>2, GatedFacts
<1>2. \A c, d \in Candidates(tokens, offer, f) : c.path = d.path => c = d
  BY <1>1
<1> QED
  BY <1>1, <1>2 DEF WellMade

(* The paths looked at do not depend on the tokens: only the choice does. *)
LEMMA FewerTokens ==
  ASSUME NEW tokens, NEW offer, NEW f, NEW c,
         \A p \in Paths : offer[p] \in Offers[p] \cup {NoOffer},
         feedback \in [Paths -> Feedbacks], now \in Int,
         NEW others, c \in Candidates(others, offer, f), TokenOf[c.path] \in tokens
  PROVE  c \in Candidates(tokens, offer, f)
<1>1. PICK p \in Paths \cap Enabled :
           /\ TokenOf[p] \in others /\ offer[p] # NoOffer
           /\ c = Gated(Refined(p, offer[p], f)) /\ Watched(c, f)
  BY DEF Candidates
<1>2. c.path = p
  BY <1>1, GatedFacts
<1> QED
  BY <1>1, <1>2 DEF Candidates

-----------------------------------------------------------------------------
(* The list. *)

LEMMA FewCandidates ==
  ASSUME NEW S, NEW f, WellMade(S, f)
  PROVE  IsFiniteSet(S)
<1> DEFINE path == [c \in S |-> c.path]
<1>1. path \in [S -> Paths] /\ \A c, d \in S : path[c] = path[d] => c = d
  BY DEF WellMade, Candidate
<1>2. path \in Injection(S, Paths)
  <2> HIDE DEF path
  <2> QED
    BY <1>1, Fun_IsInj
<1>3. IsFiniteSet(Paths)
  BY ScanAssumption
<1> QED
  BY <1>2, <1>3, FS_Injection

LEMMA CandidateTypes ==
  ASSUME NEW S, NEW f, WellMade(S, f)
  PROVE  \A c \in S : /\ c.path \in Paths /\ c.path \in Int /\ c.exact \in BOOLEAN
                       /\ c.net \in Int /\ c.gate \in Int
<1> SUFFICES ASSUME NEW c, c \in S
             PROVE  /\ c.path \in Paths /\ c.path \in Int /\ c.exact \in BOOLEAN
                    /\ c.net \in Int /\ c.gate \in Int
  OBVIOUS
<1>1. c \in Candidate
  BY DEF WellMade
<1>2. c.path \in Paths /\ c.exact \in BOOLEAN /\ c.net \in Int /\ c.gate \in Int
  BY <1>1 DEF Candidate
<1>3. \A p \in Paths : p \in Int
  BY ScanAssumption
<1> QED
  BY <1>2, <1>3

(* Before is a linear order on what a scan finds. *)
LEMMA BeforeOrder ==
  ASSUME NEW S, NEW f, WellMade(S, f),
         NEW R, \A c, d : <<c, d>> \in R <=> c \in S /\ d \in S /\ Before(c, d)
  PROVE  IsOrder(R, S)
<1>1. \A c \in S : c.exact \in BOOLEAN /\ c.gate \in Int /\ c.path \in Int
  BY CandidateTypes
<1>2. \A c \in S : <<c, c>> \notin R
  BY <1>1 DEF Before
<1>3. ASSUME NEW x \in S, NEW y \in S, NEW z \in S, Before(x, y), Before(y, z)
      PROVE  Before(x, z)
  BY <1>1, <1>3 DEF Before
<1>4. ASSUME NEW x \in S, NEW y \in S, x # y
      PROVE  Before(x, y) \/ Before(y, x)
  <2>1. x.path # y.path
    BY <1>4 DEF WellMade
  <2> QED
    BY <1>1, <2>1 DEF Before
<1>5. \A x, y, z \in S : <<x, y>> \in R /\ <<y, z>> \in R => <<x, z>> \in R
  BY <1>3
<1>6. \A x, y \in S : x = y \/ <<x, y>> \in R \/ <<y, x>> \in R
  BY <1>4
<1> QED
  BY <1>2, <1>5, <1>6 DEF IsOrder

LEMMA RankedFacts ==
  ASSUME NEW S, NEW f, WellMade(S, f)
  PROVE  /\ Ranked(S) \in [1..Cardinality(S) -> S]
         /\ \A d \in S : \E j \in 1..Cardinality(S) : Ranked(S)[j] = d
         /\ \A i, j \in 1..Cardinality(S) : i < j => Before(Ranked(S)[i], Ranked(S)[j])
<1> DEFINE n == Cardinality(S)
<1>1. IsFiniteSet(S)
  BY FewCandidates
<1>2. PICK R : \A c, d : <<c, d>> \in R <=> c \in S /\ d \in S /\ Before(c, d)
  <2> DEFINE Q == {z \in S \X S : Before(z[1], z[2])}
  <2>1. \A c, d : <<c, d>> \in Q <=> c \in S /\ d \in S /\ Before(c, d)
    OBVIOUS
  <2> HIDE DEF Q
  <2> QED
    BY <2>1
<1>3. IsOrder(R, S)
  BY <1>2, BeforeOrder
<1>4. PICK s \in [1..n -> S] :
           /\ \A x \in S : \E i \in 1..n : s[i] = x
           /\ \A i, j \in 1..n : i < j => <<s[i], s[j]>> \in R
  BY <1>1, <1>3, Listable
<1>5. \A t \in [1..n -> S] : DOMAIN t = 1..n /\ ToSet(t) = {t[i] : i \in 1..n}
  BY DEF ToSet
<1>6. ToSet(s) = S /\ \A i, j \in DOMAIN s : i < j => Before(s[i], s[j])
  <2>1. {s[i] : i \in 1..n} = S
    BY <1>4
  <2> QED
    BY <1>2, <1>4, <1>5, <2>1
<1>7. /\ Ranked(S) \in [1..n -> S] /\ ToSet(Ranked(S)) = S
      /\ \A i, j \in DOMAIN Ranked(S) : i < j => Before(Ranked(S)[i], Ranked(S)[j])
  BY <1>6 DEF Ranked
<1> QED
  BY <1>5, <1>7

(* The list holds candidates only, and a candidate better than one of them *)
(* stands earlier.                                                         *)
Ordered(L, S) ==
    /\ L \in Seq(S)
    /\ \A i \in 1..Len(L) : \A d \in S : Before(d, L[i]) => \E j \in 1..(i - 1) : L[j] = d

LEMMA ListedFacts ==
  ASSUME NEW S, NEW f, WellMade(S, f)
  PROVE  Ordered(Listed(S), S)
<1> DEFINE n == Cardinality(S)
           r == Ranked(S)
           L == Listed(S)
<1>1. n \in Nat
  BY FewCandidates, FS_CardinalityType
<1>2. /\ r \in [1..n -> S]
      /\ \A d \in S : \E j \in 1..n : r[j] = d
      /\ \A i, j \in 1..n : i < j => Before(r[i], r[j])
  BY RankedFacts
<1> HIDE DEF r, n
<1>3. \A c, d \in S : ~(Before(c, d) /\ Before(d, c)) /\ ~Before(c, c)
  BY CandidateTypes DEF Before
<1>4. ASSUME NEW i \in 1..n, NEW d \in S, Before(d, r[i])
      PROVE  \E j \in 1..(i - 1) : r[j] = d
  <2>1. PICK j \in 1..n : r[j] = d
    BY <1>2
  <2>2. ~(i < j) /\ i # j
    BY <1>2, <1>3, <1>4, <2>1
  <2>3. j \in 1..(i - 1)
    BY <1>1, <2>2
  <2> QED
    BY <2>1, <2>3
<1>5. r \in Seq(S) /\ Len(r) = n
  BY <1>1, <1>2
<1>6. CASE MaxScan = 0 \/ n <= MaxScan
  <2>1. L = r
    BY <1>5, <1>6 DEF Listed, Limited, r
  <2> HIDE DEF L
  <2> QED
    BY <1>4, <1>5, <2>1 DEF Ordered, L
<1>7. CASE ~(MaxScan = 0 \/ n <= MaxScan)
  <2>1. MaxScan \in 1..n
    BY <1>1, <1>7, ScanAssumption
  <2>2. L = SubSeq(r, 1, MaxScan)
    BY <1>5, <1>7 DEF Listed, Limited, r
  <2> HIDE DEF L
  <2>3. L \in Seq(S) /\ Len(L) = MaxScan /\ \A i \in 1..MaxScan : L[i] = r[i]
    BY <1>5, <2>1, <2>2
  <2>4. ASSUME NEW i \in 1..MaxScan, NEW d \in S, Before(d, L[i])
        PROVE  \E j \in 1..(i - 1) : L[j] = d
    <3>1. i \in 1..n /\ L[i] = r[i]
      BY <1>1, <2>1, <2>3
    <3>2. PICK j \in 1..(i - 1) : r[j] = d
      BY <1>4, <2>4, <3>1
    <3>3. j \in 1..MaxScan
      BY <2>1, <1>1
    <3> QED
      BY <2>3, <3>2, <3>3
  <2> QED
    BY <2>3, <2>4 DEF Ordered, L
<1> QED
  BY <1>6, <1>7

(* Who is sent passes the gate, and so does everyone who passes and stands *)
(* before one who is sent.                                                 *)
LEMMA ChosenFacts ==
  ASSUME NEW S, NEW f, WellMade(S, f), NEW L, Ordered(L, S)
  PROVE  /\ Chosen(L) \subseteq Paths
         /\ \A c \in S : c.path \in Chosen(L) => Passes(c)
         /\ \A c, d \in S : c.path \in Chosen(L) /\ Passes(d) /\ Before(d, c) => d.path \in Chosen(L)
<1> DEFINE few(k) == MaxSend = 0 \/ Cardinality(Passing(L, k)) <= MaxSend
<1>1. L \in Seq(S) /\ DOMAIN L = 1..Len(L) /\ Len(L) \in Nat /\ \A i \in 1..Len(L) : L[i] \in S
  BY DEF Ordered
<1>2. \A q : q \in Chosen(L) <=> \E i \in 1..Len(L) : Passes(L[i]) /\ few(i) /\ q = L[i].path
  BY <1>1 DEF Chosen
<1>3. \A k \in Nat : IsFiniteSet(Passing(L, k)) /\ Cardinality(Passing(L, k)) \in Nat
  <2> SUFFICES ASSUME NEW k \in Nat
               PROVE  IsFiniteSet(Passing(L, k)) /\ Cardinality(Passing(L, k)) \in Nat
    OBVIOUS
  <2>1. Passing(L, k) \subseteq 1..k
    BY DEF Passing
  <2>2. IsFiniteSet(1..k)
    BY FS_Interval
  <2> QED
    BY <2>1, <2>2, FS_Subset, FS_CardinalityType
<1>4. ASSUME NEW i \in 1..Len(L), NEW j \in 1..(i - 1), few(i)
      PROVE  few(j)
  <2>1. Passing(L, j) \subseteq Passing(L, i)
    BY <1>1 DEF Passing
  <2>2. i \in Nat /\ j \in Nat
    BY <1>1
  <2>3. Cardinality(Passing(L, j)) <= Cardinality(Passing(L, i))
    BY <1>3, <2>1, <2>2, FS_Subset
  <2>4. MaxSend \in Nat
    BY ScanAssumption
  <2> QED
    BY <1>3, <1>4, <2>2, <2>3, <2>4
<1> HIDE DEF few
<1>5. ASSUME NEW c \in S, c.path \in Chosen(L)
      PROVE  \E i \in 1..Len(L) : L[i] = c /\ Passes(c) /\ few(i)
  <2>1. PICK i \in 1..Len(L) : Passes(L[i]) /\ few(i) /\ c.path = L[i].path
    BY <1>2, <1>5
  <2>2. L[i] = c
    BY <1>1, <2>1 DEF WellMade
  <2> QED
    BY <2>1, <2>2
<1>6. ASSUME NEW c \in S, NEW d \in S, c.path \in Chosen(L), Passes(d), Before(d, c)
      PROVE  d.path \in Chosen(L)
  <2>1. PICK i \in 1..Len(L) : L[i] = c /\ few(i)
    BY <1>5, <1>6
  <2>2. PICK j \in 1..(i - 1) : L[j] = d
    BY <1>6, <2>1 DEF Ordered
  <2>3. few(j) /\ j \in 1..Len(L)
    BY <1>1, <1>4, <2>1
  <2> QED
    BY <1>2, <1>6, <2>2, <2>3
<1>7. Chosen(L) \subseteq Paths
  BY <1>1, <1>2, CandidateTypes
<1> QED
  BY <1>5, <1>6, <1>7

-----------------------------------------------------------------------------
(* The inductive invariant.  What a scan finds is well made for the        *)
(* balance it has read; either all of it belongs to tokens that were kept  *)
(* or none; of the list the first entries have been taken, and those of    *)
(* them that are chosen have been sent.                                    *)
Taken(L, k) ==
    /\ Len(list) = Len(L) - k
    /\ \A i \in 1..(Len(L) - k) : list[i] = L[k + i]
    /\ sent = {L[i] : i \in {j \in 1..k : L[j].path \in chosen}}

Sending == at = "send" => \E L : /\ Ordered(L, found) /\ chosen = Chosen(L)
                                 /\ \E k \in 0..Len(L) : Taken(L, k)
Waiting == at # "send" => found = {} /\ sent = {}

KeptOrOthers ==
    \/ \A d \in found : TokenOf[d.path] \in kept
    \/ \A d \in found : TokenOf[d.path] \notin kept

IInv == /\ TypeOK
        /\ list \in Seq(found)
        /\ WellMade(found, funds)
        /\ \A p \in Paths : feedback[p].evals = 0 => feedback[p].near = 0
        /\ at = "funds" => filter = Narrowed(kept)
        /\ KeptOrOthers
        /\ Waiting
        /\ Sending

(* What a candidate that was looked at leaves in the record of its path. *)
LEMMA EvaluatedFacts ==
  ASSUME NEW b, b \in Feedbacks, NEW c, c.gate \in Int, c.exact \in BOOLEAN, now \in 0..MaxTime
  PROVE  LET e == Evaluated(b, c)
         IN  /\ e \in Feedbacks /\ e.evals # 0 /\ e.near = b.near /\ e.selected = b.selected
             /\ e.good = (b.good \/ c.exact)
             /\ e.best = IF b.evals = 0 \/ c.gate > b.best THEN c.gate ELSE b.best
<1> DEFINE e == Evaluated(b, c)
           ee == AtMost(b.evals + 1, PoorAfter)
           mm == AtMost(b.missed + (IF c.exact THEN 0 ELSE 1), MissedAfter)
           gg == b.good \/ c.exact
           bb == IF b.evals = 0 \/ c.gate > b.best THEN c.gate ELSE b.best
<1>1. PoorAfter \in Nat \ {0} /\ MissedAfter \in Nat
  BY ScanAssumption
<1>2. \A n, m \in Nat : AtMost(n, m) \in 0..m /\ (n # 0 /\ m # 0 => AtMost(n, m) # 0)
  BY DEF AtMost
<1>3. /\ b.evals + 1 \in Nat \ {0} /\ b.missed + (IF c.exact THEN 0 ELSE 1) \in Nat
      /\ b.best \in Int /\ b.good \in BOOLEAN
  BY DEF Feedbacks
<1>4. ee \in 0..PoorAfter /\ ee # 0
  BY <1>1, <1>2, <1>3
<1>5. mm \in 0..MissedAfter
  BY <1>1, <1>2, <1>3
<1>6. gg \in BOOLEAN /\ bb \in Int
  BY <1>3
<1>7. e = [b EXCEPT !.seen = now, !.evals = ee, !.good = gg, !.missed = mm, !.best = bb]
  BY DEF Evaluated
<1> HIDE DEF e, ee, mm, gg, bb
<1>8. e \in Feedbacks
  BY <1>4, <1>5, <1>6, <1>7 DEF Feedbacks
<1>9. e.evals = ee /\ e.near = b.near /\ e.selected = b.selected /\ e.good = gg /\ e.best = bb
  BY <1>7 DEF Feedbacks
<1> QED
  BY <1>4, <1>8, <1>9 DEF e, gg, bb

LEMMA AfterFacts ==
  ASSUME NEW b, b \in Feedbacks, NEW c, c.gate \in Int, c.net \in Int, c.exact \in BOOLEAN,
         now \in 0..MaxTime
  PROVE  After(b, c) \in Feedbacks /\ After(b, c).evals # 0
<1> DEFINE e == Evaluated(b, c)
<1>1. NearAfter \in Nat /\ SelectedMost \in Nat
  BY ScanAssumption
<1>2. \A n, m \in Nat : AtMost(n, m) \in 0..m
  BY DEF AtMost
<1>3. e \in Feedbacks /\ e.evals # 0
  BY EvaluatedFacts
<1> HIDE DEF e
<1>4. e.near + 1 \in Nat /\ e.selected + 1 \in Nat
  BY <1>3 DEF Feedbacks
<1>5. Near(e) \in Feedbacks /\ Near(e).evals # 0
  <2>1. AtMost(e.near + 1, NearAfter) \in 0..NearAfter
    BY <1>1, <1>2, <1>4
  <2> QED
    BY <1>3, <2>1 DEF Near, Feedbacks
<1>6. Profits(e) \in Feedbacks /\ Profits(e).evals # 0
  <2>1. AtMost(e.selected + 1, SelectedMost) \in 0..SelectedMost
    BY <1>1, <1>2, <1>4
  <2> QED
    BY <1>3, <2>1 DEF Profits, Feedbacks
<1> QED
  BY <1>3, <1>5, <1>6 DEF After, e

-----------------------------------------------------------------------------
LEMMA EmptyFacts ==
  /\ \A f : WellMade({}, f)
  /\ \A s : s \in Seq({}) => s = <<>> /\ ToSet(s) = {}
<1>1. \A f : WellMade({}, f)
  BY DEF WellMade
<1>2. ASSUME NEW s, s \in Seq({})
      PROVE  s = <<>> /\ ToSet(s) = {}
  <2>1. Len(s) = 0
    BY <1>2
  <2> QED
    BY <1>2, <2>1 DEF ToSet
<1> QED
  BY <1>1, <1>2

LEMMA SeqRange ==
  ASSUME NEW S, NEW s, s \in Seq(S)
  PROVE  ToSet(s) \subseteq S
BY DEF ToSet

LEMMA NarrowedFacts ==
  ASSUME NEW w, w \subseteq Routeable
  PROVE  Narrowed(w) \subseteq Routeable
BY DEF Narrowed

LEMMA InitInvariant == Init => IInv
<1> SUFFICES ASSUME Init PROVE IInv
  OBVIOUS
<1>1. NoFeedback \in Feedbacks /\ NoFeedback.near = 0
  BY ScanAssumption DEF NoFeedback, Feedbacks
<1>2. list \in Seq(found) /\ ToSet(list) \subseteq found
  <2>1. <<>> \in Seq({})
    OBVIOUS
  <2> QED
    BY <2>1, EmptyFacts DEF Init
<1>3. TypeOK
  BY <1>1, <1>2, ScanAssumption DEF Init, TypeOK
<1>4. WellMade(found, funds)
  BY EmptyFacts DEF Init
<1> QED
  BY <1>1, <1>2, <1>3, <1>4 DEF Init, IInv, KeptOrOthers, Waiting, Sending

(* What Begin makes of the marked tokens. *)
LEMMA BeginInvariant ==
  ASSUME IInv, Begin
  PROVE  IInv'
<1>1. kept' \subseteq Routeable
  BY DEF Begin, Selected
<1>2. filter' \subseteq Routeable /\ filter' = Narrowed(kept')
  BY <1>1, NarrowedFacts DEF Begin
<1>3. found = {} /\ found' = {} /\ sent' = {} /\ list' = list /\ at' = "funds"
  BY DEF Begin, IInv, Waiting
<1>4. list' \in Seq(found') /\ ToSet(list') \subseteq found'
  BY <1>3, EmptyFacts DEF IInv
<1>5. TypeOK'
  <2>1. /\ rounds < MaxRounds /\ rounds' = rounds + 1 /\ funds' = Unknown
        /\ UNCHANGED <<free, now, feedback, chosen>>
    BY DEF Begin
  <2>2. rounds' \in 0..MaxRounds
    BY <2>1, ScanAssumption DEF IInv, TypeOK
  <2> QED
    BY <1>1, <1>2, <1>3, <1>4, <2>1, <2>2 DEF IInv, TypeOK
<1>6. WellMade(found', funds')
  BY <1>3, EmptyFacts
<1>7. \A p \in Paths : feedback'[p].evals = 0 => feedback'[p].near = 0
  BY DEF Begin, IInv
<1>8. KeptOrOthers' /\ Waiting' /\ Sending'
  BY <1>3 DEF KeptOrOthers, Waiting, Sending
<1> QED
  BY <1>2, <1>4, <1>5, <1>6, <1>7, <1>8 DEF IInv

(* What Look finds is of the kept tokens, or nothing of it is. *)
LEMMA LookedFacts ==
  ASSUME NEW offer, NEW f, \A p \in Paths : offer[p] \in Offers[p] \cup {NoOffer},
         TypeOK, filter = Narrowed(kept)
  PROVE  LET cands == Looked(offer, f)
         IN  /\ WellMade(cands, f)
             /\ \/ \A d \in cands : TokenOf[d.path] \in kept
                \/ \A d \in cands : TokenOf[d.path] \notin kept
<1> DEFINE narrow == Candidates(filter, offer, f)
           wide == Candidates(Routeable, offer, f)
           cands == Looked(offer, f)
<1>1. feedback \in [Paths -> Feedbacks] /\ now \in Int
  BY DEF TypeOK
<1>2. /\ WellMade(narrow, f) /\ WellMade(wide, f)
      /\ \A d \in narrow : TokenOf[d.path] \in filter
  BY <1>1, CandidateFacts
<1>3. cands = wide \/ cands = narrow
  BY DEF Looked
<1>4. CASE kept = {}
  BY <1>2, <1>3, <1>4
<1>5. CASE kept # {} /\ (narrow # {} \/ filter = Routeable)
  <2>1. cands = narrow /\ filter = kept
    BY <1>5 DEF Looked, Narrowed
  <2> QED
    BY <1>2, <2>1
<1>6. CASE kept # {} /\ narrow = {} /\ filter # Routeable
  <2>1. cands = wide /\ filter = kept
    BY <1>6 DEF Looked, Narrowed
  <2>2. \A d \in wide : TokenOf[d.path] \in filter => d \in narrow
    BY <1>1, FewerTokens
  <2> QED
    BY <1>2, <1>6, <2>1, <2>2
<1> QED
  BY <1>4, <1>5, <1>6

LEMMA LookInvariant ==
  ASSUME IInv, Look
  PROVE  IInv'
<1>1. PICK f \in Wealth \cup {Unknown},
           offer \in [Paths -> UNION {Offers[p] : p \in Paths} \cup {NoOffer}] :
        /\ \A p \in Paths : offer[p] \in Offers[p] \cup {NoOffer}
        /\ found' = Looked(offer, f) /\ funds' = f
        /\ list' = Listed(Looked(offer, f)) /\ chosen' = Chosen(Listed(Looked(offer, f)))
        /\ at' = IF Looked(offer, f) = {} THEN "idle" ELSE "send"
  BY DEF Look
<1>2. TypeOK /\ at = "funds" /\ filter = Narrowed(kept) /\ sent = {}
  BY DEF Look, IInv, Waiting
<1>3. UNCHANGED <<free, now, feedback, rounds, filter, kept, sent>>
  BY DEF Look
<1>4. WellMade(found', f) /\ KeptOrOthers'
  BY <1>1, <1>2, <1>3, LookedFacts DEF KeptOrOthers
<1>5. PICK L : L = Listed(found')
  OBVIOUS
<1>6. Ordered(L, found') /\ list' = L /\ chosen' = Chosen(L)
  BY <1>1, <1>4, <1>5, ListedFacts
<1>7. list' \in Seq(found') /\ ToSet(list') \subseteq found' /\ Len(L) \in Nat
  BY <1>6, SeqRange DEF Ordered
<1>8. chosen' \subseteq Paths
  BY <1>4, <1>6, ChosenFacts
<1>9. TypeOK'
  BY <1>1, <1>2, <1>3, <1>7, <1>8 DEF TypeOK
<1>10. Taken(L, 0)'
  <2>1. sent' = {L[i] : i \in {j \in 1..0 : L[j].path \in chosen'}}
    BY <1>2, <1>3
  <2>2. Len(list') = Len(L) - 0 /\ \A i \in 1..(Len(L) - 0) : list'[i] = L[0 + i]
    BY <1>6, <1>7
  <2> QED
    BY <2>1, <2>2 DEF Taken
<1>11. Sending'
  <2>1. Chosen(L)' = Chosen(L)
    BY <1>3 DEF Chosen, Passing, Passes
  <2>2. 0 \in 0..Len(L)
    BY <1>7
  <2> QED
    BY <1>6, <1>10, <2>1, <2>2 DEF Sending
<1>12. Waiting'
  BY <1>1, <1>2, <1>3 DEF Waiting
<1>13. at' # "funds"
  BY <1>1
<1> QED
  BY <1>1, <1>3, <1>4, <1>7, <1>9, <1>11, <1>12, <1>13 DEF IInv

LEMMA TakeInvariant ==
  ASSUME IInv, Take
  PROVE  IInv'
<1> DEFINE c == Head(list)
           old == feedback[c.path]
<1>1. /\ at = "send" /\ list # <<>> /\ list \in Seq(found) /\ WellMade(found, funds) /\ TypeOK
      /\ KeptOrOthers /\ Sending /\ \A p \in Paths : feedback[p].evals = 0 => feedback[p].near = 0
  BY DEF Take, IInv
<1>2. /\ feedback' = [feedback EXCEPT ![c.path] = After(old, c)]
      /\ sent' = IF c.path \in chosen THEN sent \cup {c} ELSE sent
      /\ list' = Tail(list)
      /\ UNCHANGED <<free, now, rounds, at, filter, chosen, kept, found, funds>>
  BY DEF Take
<1>3. c \in found /\ list' \in Seq(found) /\ Len(list) \in Nat \ {0}
      /\ Len(list') = Len(list) - 1 /\ c = list[1]
      /\ \A i \in 1..(Len(list) - 1) : list'[i] = list[i + 1]
  BY <1>1, <1>2
<1>4. /\ c.path \in Paths /\ c.exact \in BOOLEAN /\ c.gate \in Int /\ c.net \in Int
  BY <1>1, <1>3, CandidateTypes
<1>5. now \in 0..MaxTime /\ old \in Feedbacks
  BY <1>1, <1>4 DEF TypeOK
<1> HIDE DEF c, old
<1>6. After(old, c) \in Feedbacks /\ After(old, c).evals # 0
  BY <1>4, <1>5, AfterFacts
<1>7. /\ feedback' \in [Paths -> Feedbacks]
      /\ \A p \in Paths : feedback'[p].evals = 0 => feedback'[p].near = 0
  BY <1>1, <1>2, <1>4, <1>6 DEF TypeOK
<1>8. list' \in Seq(found') /\ ToSet(list') \subseteq found'
  BY <1>2, <1>3, SeqRange
<1>9. TypeOK'
  BY <1>1, <1>2, <1>3, <1>7, <1>8 DEF TypeOK
<1>10. Sending'
  <2>1. PICK L : /\ Ordered(L, found) /\ chosen = Chosen(L)
                 /\ \E k \in 0..Len(L) : Taken(L, k)
    BY <1>1 DEF Sending
  <2>2. PICK k \in 0..Len(L) : Taken(L, k)
    BY <2>1
  <2>3. Len(L) \in Nat
    BY <2>1 DEF Ordered
  <2>4. /\ Len(list) = Len(L) - k /\ \A i \in 1..(Len(L) - k) : list[i] = L[k + i]
        /\ sent = {L[i] : i \in {j \in 1..k : L[j].path \in chosen}}
    BY <2>2 DEF Taken
  <2>5. k + 1 \in 0..Len(L) /\ c = L[k + 1]
    BY <1>3, <2>3, <2>4
  <2>6. Len(list') = Len(L) - (k + 1)
    BY <1>3, <2>3, <2>4
  <2>7. ASSUME NEW i \in 1..(Len(L) - (k + 1))
        PROVE  list'[i] = L[(k + 1) + i]
    <3>1. i \in 1..(Len(list) - 1) /\ i + 1 \in 1..(Len(L) - k) /\ k + (i + 1) = (k + 1) + i
      BY <2>3, <2>4
    <3> QED
      BY <1>3, <2>4, <3>1
  <2>8. sent' = {L[i] : i \in {j \in 1..(k + 1) : L[j].path \in chosen'}}
    <3>1. \A j : j \in 1..(k + 1) <=> j \in 1..k \/ j = k + 1
      BY <2>3
    <3> QED
      BY <1>2, <2>4, <2>5, <3>1
  <2>9. Taken(L, k + 1)'
    BY <2>6, <2>7, <2>8 DEF Taken
  <2>10. Chosen(L)' = Chosen(L)
    BY <1>2 DEF Chosen, Passing, Passes
  <2> QED
    BY <1>2, <2>1, <2>5, <2>9, <2>10 DEF Sending
<1>11. Waiting' /\ KeptOrOthers' /\ WellMade(found', funds') /\ at' # "funds"
  BY <1>1, <1>2 DEF Waiting, KeptOrOthers
<1> QED
  BY <1>7, <1>8, <1>9, <1>10, <1>11 DEF IInv

LEMMA ReturnInvariant ==
  ASSUME IInv, Return
  PROVE  IInv'
<1>1. /\ list' = <<>> /\ at' = "idle" /\ filter' = {} /\ chosen' = {}
      /\ kept' = {} /\ found' = {} /\ sent' = {} /\ funds' = Unknown
      /\ UNCHANGED <<free, now, feedback, rounds>>
  BY DEF Return
<1>2. list' \in Seq(found') /\ ToSet(list') \subseteq found'
  <2>1. <<>> \in Seq({})
    OBVIOUS
  <2> QED
    BY <1>1, <2>1, EmptyFacts
<1>3. TypeOK'
  BY <1>1, <1>2 DEF IInv, TypeOK
<1>4. WellMade(found', funds')
  BY <1>1, EmptyFacts
<1> QED
  BY <1>1, <1>2, <1>3, <1>4 DEF IInv, Waiting, KeptOrOthers, Sending

(* Forget and Tick leave the scan alone. *)
LEMMA RestInvariant ==
  ASSUME IInv, UNCHANGED <<free, rounds, at, round, history>>, now' \in 0..MaxTime,
         feedback' \in [Paths -> Feedbacks],
         \A p \in Paths : feedback'[p].evals = 0 => feedback'[p].near = 0
  PROVE  IInv'
<1>1. UNCHANGED <<free, rounds, at, filter, list, chosen, kept, found, funds, sent>>
  BY DEF round, history
<1>2. TypeOK'
  BY <1>1 DEF IInv, TypeOK
<1>3. KeptOrOthers' /\ Waiting'
  BY <1>1 DEF IInv, KeptOrOthers, Waiting
<1>4. Sending'
  <2> SUFFICES ASSUME at' = "send" PROVE Sending'
    BY DEF Sending
  <2>1. PICK L : Ordered(L, found) /\ chosen = Chosen(L) /\ \E k \in 0..Len(L) : Taken(L, k)
    BY <1>1 DEF IInv, Sending
  <2>2. PICK k \in 0..Len(L) : Taken(L, k)
    BY <2>1
  <2>3. Taken(L, k)'
    BY <1>1, <2>2 DEF Taken
  <2>4. Chosen(L)' = Chosen(L)
    BY <1>1 DEF Chosen, Passing, Passes
  <2> QED
    BY <1>1, <2>1, <2>2, <2>3, <2>4 DEF Sending
<1> QED
  BY <1>1, <1>2, <1>3, <1>4 DEF IInv

LEMMA StepInvariant == IInv /\ [Next]_vars => IInv'
<1> SUFFICES ASSUME IInv, [Next]_vars PROVE IInv'
  OBVIOUS
<1>1. CASE Begin
  BY <1>1, BeginInvariant
<1>2. CASE Look
  BY <1>2, LookInvariant
<1>3. CASE Take
  BY <1>3, TakeInvariant
<1>4. CASE Return
  BY <1>4, ReturnInvariant
<1>5. CASE Forget
  <2>1. NoFeedback \in Feedbacks /\ NoFeedback.near = 0
    BY ScanAssumption DEF NoFeedback, Feedbacks
  <2>2. feedback' \in [Paths -> Feedbacks]
    BY <1>5, <2>1 DEF Forget, IInv, TypeOK
  <2>3. \A p \in Paths : feedback'[p].evals = 0 => feedback'[p].near = 0
    BY <1>5, <2>1 DEF Forget, IInv
  <2> QED
    BY <1>5, <2>2, <2>3, RestInvariant DEF Forget, IInv, TypeOK
<1>6. CASE Tick
  <2>1. now' \in 0..MaxTime
    BY <1>6, ScanAssumption DEF Tick, IInv, TypeOK
  <2> QED
    BY <1>6, <2>1, RestInvariant DEF Tick, IInv, TypeOK
<1>7. CASE UNCHANGED vars
  BY <1>7, RestInvariant DEF vars, IInv, TypeOK
<1> QED
  BY <1>1, <1>2, <1>3, <1>4, <1>5, <1>6, <1>7 DEF Next

-----------------------------------------------------------------------------
(* The types of all state, in every reachable state. *)
THEOREM TypesHold == Spec => []TypeOK
<1>1. Spec => []IInv
  BY InitInvariant, StepInvariant, PTL DEF Spec
<1>2. IInv => TypeOK
  BY DEF IInv
<1> QED
  BY <1>1, <1>2, PTL

LEMMA ChosenPass ==
  ASSUME IInv, at = "send"
  PROVE  \A c \in found : c.path \in chosen => Passes(c)
<1>1. PICK L : Ordered(L, found) /\ chosen = Chosen(L)
  BY DEF IInv, Sending
<1> QED
  BY <1>1, ChosenFacts DEF IInv

(* What is sent while the list is worked off. *)
LEMMA SentFacts ==
  ASSUME IInv
  PROVE  /\ \A c \in sent : c \in found /\ c.path \in chosen /\ Passes(c)
         /\ \A c \in sent : \A d \in found : Passes(d) /\ Before(d, c) => d \in sent
<1>1. CASE at # "send"
  BY <1>1 DEF IInv, Waiting
<1>2. CASE at = "send"
  <2>1. PICK L : Ordered(L, found) /\ chosen = Chosen(L) /\ \E k \in 0..Len(L) : Taken(L, k)
    BY <1>2 DEF IInv, Sending
  <2>2. PICK k \in 0..Len(L) : Taken(L, k)
    BY <2>1
  <2>3. sent = {L[i] : i \in {j \in 1..k : L[j].path \in chosen}}
    BY <2>2 DEF Taken
  <2>4. L \in Seq(found) /\ Len(L) \in Nat /\ WellMade(found, funds)
    BY <2>1 DEF Ordered, IInv
  <2>5. \A c \in sent : c \in found /\ c.path \in chosen /\ Passes(c)
    BY <2>1, <2>3, <2>4, ChosenFacts
  <2>6. ASSUME NEW c, c \in sent, NEW d, d \in found, Passes(d), Before(d, c)
        PROVE  d \in sent
    <3>1. d.path \in chosen
      BY <2>1, <2>4, <2>5, <2>6, ChosenFacts
    <3>2. PICK i \in 1..k : L[i] = c
      BY <2>3, <2>6
    <3>3. i \in 1..Len(L)
      BY <2>4
    <3>4. PICK j \in 1..(i - 1) : L[j] = d
      BY <2>1, <2>6, <3>2, <3>3 DEF Ordered
    <3>5. j \in 1..k
      BY <2>4
    <3> QED
      BY <2>3, <3>1, <3>4, <3>5
  <2> QED
    BY <2>5, <2>6
<1> QED
  BY <1>1, <1>2

(* The limits on the list and on the sends cut off only what ranks below   *)
(* everything sent, whatever the scan finds and however far it is.         *)
THEOREM TheBestAreSent == Spec => []BestFirst
<1>1. Spec => []IInv
  BY InitInvariant, StepInvariant, PTL DEF Spec
<1>2. IInv => BestFirst
  BY SentFacts DEF BestFirst
<1> QED
  BY <1>1, <1>2, PTL

LEMMA Positive ==
  ASSUME NEW x \in Int, NEW t \in Nat \ {0}, x * t >= 0
  PROVE  x >= 0
<1> SUFFICES ASSUME x <= -1 PROVE FALSE
  OBVIOUS
<1>1. x * t <= -t
  OBVIOUS
<1> QED
  BY <1>1

(* With local checks in force every send is exact, profitable, paid for by *)
(* the balance the scan has read, and misses the base threshold by no more *)
(* than the limit of the adjustment.                                       *)
THEOREM EverySendPays == Spec => []SendsPay
<1>1. Spec => []IInv
  BY InitInvariant, StepInvariant, PTL DEF Spec
<1>2. IInv => SendsPay
  <2> SUFFICES ASSUME IInv, free, NEW c, c \in sent
               PROVE  /\ c.exact /\ c.net > 0
                      /\ c.net >= Base - MaxAdjust
                      /\ Payable(c.path, c.size, funds)
    BY DEF SendsPay
  <2>1. c \in found /\ c.exact /\ c.net > 0 /\ c.gate >= 0
    BY SentFacts DEF Passes
  <2>2. WellMade(found, funds)
    BY DEF IInv
  <2>3. /\ c.exact => Payable(c.path, c.size, funds)
        /\ c.gate <= (c.net - Base) * Ttl + MaxAdjust * Ttl
    BY <2>1, <2>2 DEF WellMade
  <2>4. c.net \in Int /\ c.gate \in Int
    BY <2>1, <2>2, CandidateTypes
  <2>5. Base \in Int /\ MaxAdjust \in Int /\ Ttl \in Nat \ {0}
    BY ScanAssumption
  <2>6. (c.net - Base) * Ttl + MaxAdjust * Ttl = ((c.net - Base) + MaxAdjust) * Ttl
    BY <2>4, <2>5
  <2>7. ((c.net - Base) + MaxAdjust) * Ttl >= 0
    BY <2>1, <2>3, <2>4, <2>5, <2>6
  <2>8. (c.net - Base) + MaxAdjust >= 0
    BY <2>4, <2>5, <2>7, Positive
  <2> QED
    BY <2>1, <2>3, <2>4, <2>5, <2>8
<1> QED
  BY <1>1, <1>2, PTL

(* A token that is not kept is sent only if no kept one had a candidate. *)
THEOREM OthersAreAFallback == Spec => []OthersOnlyAsFallback
<1>1. Spec => []IInv
  BY InitInvariant, StepInvariant, PTL DEF Spec
<1>2. IInv => OthersOnlyAsFallback
  BY SentFacts DEF IInv, KeptOrOthers, OthersOnlyAsFallback
<1> QED
  BY <1>1, <1>2, PTL

(* A record that a send has touched asks for no more than before. *)
LEMMA ProfitsEncourage ==
  ASSUME NEW b, b \in Feedbacks, b.evals = 0 => b.near = 0,
         NEW c, c.exact = TRUE, c.gate \in Int, c.gate >= 0, now \in 0..MaxTime
  PROVE  Lesson(Profits(Evaluated(b, c))) <= Lesson(b)
<1> DEFINE e == Evaluated(b, c)
           q == Profits(e)
<1>1. /\ e \in Feedbacks /\ e.evals # 0 /\ e.near = b.near /\ e.selected = b.selected
      /\ e.good = (b.good \/ c.exact)
      /\ e.best = IF b.evals = 0 \/ c.gate > b.best THEN c.gate ELSE b.best
  BY EvaluatedFacts
<1> HIDE DEF e
<1>2. /\ q.missed = e.missed /\ q.good = e.good /\ q.evals = e.evals /\ q.best = e.best
      /\ q.near = e.near /\ q.selected = AtMost(e.selected + 1, SelectedMost)
  BY <1>1 DEF Profits, Feedbacks
<1> HIDE DEF q
<1>3. /\ b.best \in Int /\ b.selected \in 0..SelectedMost /\ SelectedMost \in Nat
      /\ NearAfter \in Nat \ {0} /\ b.near \in Nat
  BY ScanAssumption DEF Feedbacks
<1>4. e.best \in Int /\ e.best >= 0 /\ (b.evals # 0 => e.best >= b.best)
  BY <1>1, <1>3
<1>5. PoorBest * Ttl \in Int /\ PoorBest * Ttl < 0
  <2>1. PoorBest \in Int /\ PoorBest <= -1 /\ Ttl \in Nat \ {0}
    BY ScanAssumption
  <2>2. PoorBest * Ttl <= -Ttl
    BY <2>1
  <2> QED
    BY <2>1, <2>2
<1>6. NearBest * Ttl \in Int
  BY ScanAssumption
<1> DEFINE poor == PoorBest * Ttl
           close == NearBest * Ttl
           missed(x) == IF x.missed >= MissedAfter /\ ~x.good THEN 2 ELSE 0
           low(x) == IF x.evals >= PoorAfter /\ x.best < poor THEN 2 ELSE 0
           near(x) == IF x.near >= NearAfter /\ x.best > close THEN 1 ELSE 0
           wins(x) == AtMost(x.selected, SelectedMost)
<1>7. \A x : Lesson(x) = missed(x) + low(x) - wins(x) - near(x)
  BY DEF Lesson
<1>8. missed(q) = 0 /\ missed(b) \in {0, 2}
  BY <1>1, <1>2
<1>9. low(q) = 0 /\ low(b) \in {0, 2}
  BY <1>2, <1>4, <1>5
<1>10. near(q) \in {0, 1} /\ near(b) \in {0, 1} /\ near(q) >= near(b)
  <2>1. CASE b.evals = 0
    BY <1>3, <2>1
  <2>2. CASE b.evals # 0
    <3> HIDE DEF close
    <3>1. close \in Int
      BY <1>6 DEF close
    <3>2. q.near = b.near /\ q.best \in Int /\ q.best >= b.best
      BY <1>1, <1>2, <1>4, <2>2
    <3> QED
      BY <1>3, <3>1, <3>2
  <2> QED
    BY <2>1, <2>2
<1>11. wins(q) \in Int /\ wins(b) \in Int /\ wins(q) >= wins(b)
  BY <1>1, <1>2, <1>3 DEF AtMost
<1> HIDE DEF missed, low, near, wins
<1> QED
  BY <1>7, <1>8, <1>9, <1>10, <1>11 DEF q, e

(* With local checks in force a send never raises the threshold that its   *)
(* path is measured by, whatever the record says: the feedback loop cannot *)
(* switch a path off by using it.                                          *)
THEOREM ASendNeverDiscourages == Spec => SendingEncourages
<1> DEFINE Step == \A p \in Paths : free /\ sent' # sent /\ feedback'[p] # feedback[p]
                       => Lesson(feedback'[p]) <= Lesson(feedback[p])
<1>1. Spec => []IInv
  BY InitInvariant, StepInvariant, PTL DEF Spec
<1>2. IInv /\ [Next]_vars => [Step]_vars
  <2> SUFFICES ASSUME IInv, [Next]_vars, NEW p \in Paths, free, sent' # sent, feedback'[p] # feedback[p]
               PROVE  Lesson(feedback'[p]) <= Lesson(feedback[p])
    OBVIOUS
  <2>1. Take
    BY DEF Next, Begin, Look, Return, Forget, Tick, vars, history
  <2> DEFINE c == Head(list)
  <2>2. /\ c.path \in chosen /\ sent' = sent \cup {c}
        /\ feedback' = [feedback EXCEPT ![c.path] = After(feedback[c.path], c)]
        /\ UNCHANGED <<chosen, found>>
    BY <2>1 DEF Take
  <2>3. c \in found
    BY <2>1 DEF Take, IInv
  <2> HIDE DEF c
  <2>4. p = c.path
    BY <2>2 DEF IInv, TypeOK
  <2>5. feedback'[p] = Profits(Evaluated(feedback[p], c))
    BY <2>2, <2>4 DEF After, IInv, TypeOK
  <2>6. Passes(c)
    BY <2>1, <2>2, <2>3, ChosenPass DEF Take
  <2>7. c.exact = TRUE /\ c.gate >= 0
    BY <2>6 DEF Passes
  <2>8. c.gate \in Int
    BY <2>3, CandidateTypes DEF IInv
  <2>9. /\ feedback[p] \in Feedbacks /\ now \in 0..MaxTime
        /\ feedback[p].evals = 0 => feedback[p].near = 0
    BY DEF IInv, TypeOK
  <2> QED
    BY <2>5, <2>7, <2>8, <2>9, ProfitsEncourage
<1>3. SendingEncourages <=> [][Step]_vars
  BY DEF SendingEncourages
<1> HIDE DEF Step
<1> QED
  BY <1>1, <1>2, <1>3, PTL DEF Spec
=============================================================================
