---------------------------- MODULE SnapshotProofs ----------------------------
(***************************************************************************)
(* The snapshot of pools, from the programs that keep it to the loop that  *)
(* reads it: theorems about PoolRounds, for any pools, readings, limits    *)
(* and programs, and about MainLoop, for any markets, tokens, snapshots,   *)
(* watermarks and number of writes of the snapshot.                        *)
(***************************************************************************)
EXTENDS PoolRounds, FiniteSetTheorems, SequenceTheorems, TLAPS

CONSTANTS Markets, Venue, MinVenues, Tokens, Snapshots, TokenOfMarket, High, Low, MaxRev
VARIABLES file, rev, marker, pending, cooled, tickDue, reloadDue, scanDue, phase, markets,
          hydrated, inbox, dirty, deferred, bootRev, loaded, outcome

Loop == INSTANCE MainLoop WITH TokenOf <- TokenOfMarket


(* The best of some are some. *)
LEMMA BestOfSome ==
  ASSUME NEW B, NEW S, NEW limit, limit \in Nat \ {0}, IsFiniteSet(S), S # {}, B \subseteq S,
         Cardinality(B) = (IF limit < Cardinality(S) THEN limit ELSE Cardinality(S))
  PROVE  B # {}
<1>1. Cardinality(S) \in Nat /\ Cardinality(S) # 0
  BY FS_CardinalityType, FS_EmptySet
<1>2. Cardinality(B) # 0
  BY <1>1
<1> QED
  BY <1>2, FS_EmptySet

VenuesOf(S) == {VenueOf[p] : p \in S}
OfVenue(S, v) == {p \in S : VenueOf[p] = v}
OfToken(S, t) == {p \in S : TokenOf[p] = t}

(* As many pools of each venue as there are, up to the limit. *)
Enough(B, S) == \A v \in Venues :
    Cardinality(OfVenue(B, v)) = IF MostOf[v] < Cardinality(OfVenue(S, v))
                                 THEN MostOf[v] ELSE Cardinality(OfVenue(S, v))

(* A limited choice keeps a pool of every venue there was. *)
LEMMA EveryVenueTaken ==
  ASSUME NEW B, NEW S, S \subseteq Pools, B \subseteq S, Enough(B, S)
  PROVE  VenuesOf(B) = VenuesOf(S)
<1>1. ASSUME NEW p \in S PROVE VenueOf[p] \in VenuesOf(B)
  <2> DEFINE v == VenueOf[p]
  <2>1. v \in Venues /\ MostOf[v] \in Nat \ {0}
    BY RoundsAssumption
  <2>2. Cardinality(OfVenue(B, v)) = (IF MostOf[v] < Cardinality(OfVenue(S, v))
                                      THEN MostOf[v] ELSE Cardinality(OfVenue(S, v)))
    BY <2>1 DEF Enough
  <2>3. IsFiniteSet(OfVenue(S, v)) /\ p \in OfVenue(S, v) /\ OfVenue(B, v) \subseteq OfVenue(S, v)
    BY FS_Subset, RoundsAssumption DEF OfVenue
  <2>4. OfVenue(B, v) # {}
    <3> HIDE DEF v
    <3> QED BY <2>1, <2>2, <2>3, BestOfSome
  <2> QED
    BY <2>4 DEF VenuesOf, OfVenue
<1> QED
  BY <1>1 DEF VenuesOf

-----------------------------------------------------------------------------
(* What a round may select: pools that were read, and for the watcher      *)
(* pools of both its venues.                                               *)
LEMMA ApiFacts ==
  ASSUME NEW v, NEW S, S \in ApiSelections(v) PROVE S \subseteq DOMAIN v
  BY DEF ApiSelections, Selections
LEMMA OnchainFacts ==
  ASSUME NEW v, NEW S, S \in OnchainSelections(v) PROVE S \subseteq DOMAIN v
  BY DEF OnchainSelections, Selections
LEMMA Jd6Facts ==
  ASSUME NEW v, DOMAIN v \subseteq Pools, NEW S, S \in Jd6Selections(v)
  PROVE  /\ S \subseteq DOMAIN v
         /\ \A t \in TokensOf(S) : {"pumpswap", "meteora"} \subseteq VenuesOf(OfToken(S, t))
<1> DEFINE usable == {p \in DOMAIN v : VenueOf[p] \in {"pumpswap", "meteora"}}
<1>1. S \subseteq usable
  BY DEF Jd6Selections, Selections
<1>2. ASSUME NEW t \in TokensOf(S)
      PROVE  BothVenues(OfToken(usable, t)) /\ Enough(OfToken(S, t), OfToken(usable, t))
  BY DEF Jd6Selections, Selections, OfToken, Enough, IsLimited, OfVenue, IsBest
<1>3. ASSUME NEW t \in TokensOf(S)
      PROVE  {"pumpswap", "meteora"} \subseteq VenuesOf(OfToken(S, t))
  <2>1. OfToken(S, t) \subseteq OfToken(usable, t) /\ OfToken(usable, t) \subseteq Pools
    BY <1>1 DEF OfToken
  <2>2. VenuesOf(OfToken(S, t)) = VenuesOf(OfToken(usable, t))
    BY <2>1, <1>2, EveryVenueTaken
  <2> QED
    BY <2>2, <1>2 DEF BothVenues, VenuesOf
<1> QED
  BY <1>1, <1>3

(* The partner of a pool: another venue's pool of its token, not missed    *)
(* more often.                                                             *)
Partnered(pools) ==
    \A p \in DOMAIN pools : \E q \in DOMAIN pools :
        TokenOf[q] = TokenOf[p] /\ VenueOf[q] # VenueOf[p] /\ pools[q].misses <= pools[p].misses

(* A view reads what pools may say. *)
LEMMA ViewFacts ==
  ASSUME NEW v \in Views
  PROVE  DOMAIN v \subseteq Pools /\ \A p \in DOMAIN v : v[p].liquidity \in Nat /\ v[p].trades \in Nat
<1>1. PICK seen \in SUBSET Pools : v \in [seen -> UNION {Readings[p] : p \in Pools}]
                                   /\ \A p \in seen : v[p] \in Readings[p]
  BY DEF Views
<1> QED
  BY <1>1, RoundsAssumption

(* Entries as a round makes them: not missed yet. *)
Fresh(f) == /\ DOMAIN f \subseteq Pools
            /\ \A p \in DOMAIN f : f[p] \in Entries /\ f[p].misses = 0

LEMMA SelectedFacts ==
  ASSUME NEW s \in Programs, NEW f, f \in Selected[s]
  PROVE  Fresh(f) /\ (s = "jd6" => Partnered(f))
<1>0. MaxMisses \in Nat \ {0} /\ 0 \in 0..(MaxMisses - 1) /\ s \in {"api", "onchain", "jd6"}
  BY RoundsAssumption
<1>1. PICK v \in Views : f \in
        CASE s = "api"     -> {[p \in S |-> ApiPool(v[p])]     : S \in ApiSelections(v)}
          [] s = "onchain" -> {[p \in S |-> OnchainPool(v[p])] : S \in OnchainSelections(v)}
          [] s = "jd6"     -> {[p \in S |-> Jd6Pool(v[p])]     : S \in Jd6Selections(v)}
  BY DEF Selected
<1>2. CASE s = "api"
  <2>1. PICK S \in ApiSelections(v) : f = [p \in S |-> ApiPool(v[p])]
    BY <1>1, <1>2
  <2>2. S \subseteq DOMAIN v
    BY ApiFacts
  <2>3. \A p \in S : v[p].trades \div 3 \in Nat
    BY <2>2, ViewFacts
  <2>4. \A p \in S : ApiPool(v[p]) \in Entries /\ ApiPool(v[p]).misses = 0
    BY <1>0, <2>2, <2>3, ViewFacts DEF ApiPool, Entries
  <2> QED
    BY <2>1, <2>2, <2>4, <1>2, ViewFacts DEF Fresh
<1>3. CASE s = "onchain"
  <2>1. PICK S \in OnchainSelections(v) : f = [p \in S |-> OnchainPool(v[p])]
    BY <1>1, <1>3
  <2>2. S \subseteq DOMAIN v
    BY OnchainFacts
  <2>3. \A p \in S : OnchainPool(v[p]) \in Entries /\ OnchainPool(v[p]).misses = 0
    BY <1>0, <2>2, ViewFacts DEF OnchainPool, Entries
  <2> QED
    BY <2>1, <2>2, <2>3, <1>3, ViewFacts DEF Fresh
<1>4. CASE s = "jd6"
  <2>1. PICK S \in Jd6Selections(v) : f = [p \in S |-> Jd6Pool(v[p])]
    BY <1>1, <1>4
  <2>2. S \subseteq DOMAIN v /\ \A t \in TokensOf(S) : {"pumpswap", "meteora"} \subseteq VenuesOf(OfToken(S, t))
    BY Jd6Facts, ViewFacts
  <2>3. \A p \in S : Jd6Pool(v[p]) \in Entries /\ Jd6Pool(v[p]).misses = 0
    BY <1>0, <2>2 DEF Jd6Pool, Entries
  <2>4. Fresh(f)
    BY <2>1, <2>2, <2>3, ViewFacts DEF Fresh
  <2>5. ASSUME NEW p \in S
        PROVE  \E q \in S : TokenOf[q] = TokenOf[p] /\ VenueOf[q] # VenueOf[p]
    <3>1. TokenOf[p] \in TokensOf(S)
      BY DEF TokensOf
    <3>2. \E q \in S : TokenOf[q] = TokenOf[p] /\ VenueOf[q] = "pumpswap"
      BY <2>2, <3>1 DEF VenuesOf, OfToken
    <3>3. \E q \in S : TokenOf[q] = TokenOf[p] /\ VenueOf[q] = "meteora"
      BY <2>2, <3>1 DEF VenuesOf, OfToken
    <3> QED
      BY <3>2, <3>3
  <2>6. Partnered(f)
    <3>1. DOMAIN f = S /\ \A p \in S : f[p].misses = 0
      BY <2>1, <2>3
    <3> QED
      BY <3>1, <2>5 DEF Partnered
  <2> QED
    BY <2>4, <2>6
<1> QED
  BY <1>0, <1>2, <1>3, <1>4

-----------------------------------------------------------------------------
(* What a merge keeps. *)
LEMMA MergedFacts ==
  ASSUME NEW pools, NEW f, NEW missed \in {0, 1}, NEW m, m = Merged(pools, f, missed)
  PROVE  /\ DOMAIN m \subseteq DOMAIN pools \cup DOMAIN f
         /\ \A p \in DOMAIN m : m[p].misses < MaxMisses
         /\ \A p \in DOMAIN m :
              IF p \in DOMAIN f THEN m[p] = f[p]
              ELSE m[p] = [pools[p] EXCEPT !.misses = @ + missed]
         /\ \A p \in DOMAIN f : f[p].misses < MaxMisses => p \in DOMAIN m
         /\ \A p \in DOMAIN pools \ DOMAIN f :
              [pools[p] EXCEPT !.misses = @ + missed].misses < MaxMisses => p \in DOMAIN m
<1> DEFINE all == [p \in DOMAIN pools \cup DOMAIN f |->
                     IF p \in DOMAIN f THEN f[p] ELSE [pools[p] EXCEPT !.misses = @ + missed]]
           keep == {p \in DOMAIN all : all[p].misses < MaxMisses}
<1>1. m = [p \in keep |-> all[p]]
  BY DEF Merged, Restrict
<1>2. DOMAIN m = keep /\ \A p \in keep : m[p] = all[p]
  BY <1>1
<1>3. DOMAIN all = DOMAIN pools \cup DOMAIN f
  OBVIOUS
<1>4. \A p \in DOMAIN all : all[p] = IF p \in DOMAIN f THEN f[p] ELSE [pools[p] EXCEPT !.misses = @ + missed]
  OBVIOUS
<1> HIDE DEF all
<1> QED
  BY <1>2, <1>3, <1>4

(* The entries of a map of pools. *)
Typed(pools) == DOMAIN pools \subseteq Pools /\ \A p \in DOMAIN pools : pools[p] \in Entries

(* Missed once more, an entry is one less away from being dropped. *)
LEMMA MissedOnceMore ==
  ASSUME NEW e \in Entries, NEW missed \in {0, 1}
  PROVE  /\ [e EXCEPT !.misses = @ + missed].misses = e.misses + missed
         /\ e.misses + missed < MaxMisses => [e EXCEPT !.misses = @ + missed] \in Entries
  BY RoundsAssumption DEF Entries

(* A merge keeps the types. *)
LEMMA MergedTyped ==
  ASSUME NEW pools, Typed(pools), NEW f, Fresh(f), NEW missed \in {0, 1}
  PROVE  Typed(Merged(pools, f, missed))
<1> DEFINE m == Merged(pools, f, missed)
<1>1. DOMAIN m \subseteq Pools
  BY MergedFacts DEF Typed, Fresh
<1>2. ASSUME NEW p \in DOMAIN m PROVE m[p] \in Entries
  <2>1. CASE p \in DOMAIN f
    BY <2>1, MergedFacts DEF Fresh
  <2>2. CASE p \notin DOMAIN f
    <3>1. p \in DOMAIN pools /\ m[p] = [pools[p] EXCEPT !.misses = @ + missed] /\ m[p].misses < MaxMisses
      BY <2>2, MergedFacts
    <3>2. pools[p] \in Entries
      BY <3>1 DEF Typed
    <3> HIDE DEF m
    <3> QED
      BY <3>1, <3>2, MissedOnceMore
  <2> QED
    BY <2>1, <2>2
<1> QED
  BY <1>1, <1>2 DEF Typed

(* Partners are missed together: the watcher keeps no pool alone. *)
LEMMA MergedPartnered ==
  ASSUME NEW pools, Typed(pools), Partnered(pools),
         NEW f, Fresh(f), Partnered(f), NEW missed \in {0, 1}
  PROVE  Partnered(Merged(pools, f, missed))
<1> DEFINE m == Merged(pools, f, missed)
<1>0. \A p \in DOMAIN f : p \in DOMAIN m /\ m[p] = f[p] /\ m[p].misses = 0
  BY MergedFacts, RoundsAssumption DEF Fresh
<1>1. \A p \in DOMAIN pools \ DOMAIN f :
        /\ p \in DOMAIN m <=> pools[p].misses + missed < MaxMisses
        /\ p \in DOMAIN m => m[p].misses = pools[p].misses + missed
  <2> SUFFICES ASSUME NEW p \in DOMAIN pools \ DOMAIN f
               PROVE  /\ p \in DOMAIN m <=> pools[p].misses + missed < MaxMisses
                      /\ p \in DOMAIN m => m[p].misses = pools[p].misses + missed
    OBVIOUS
  <2>1. [pools[p] EXCEPT !.misses = @ + missed].misses = pools[p].misses + missed
    BY MissedOnceMore DEF Typed
  <2>2. p \in DOMAIN m => m[p] = [pools[p] EXCEPT !.misses = @ + missed] /\ m[p].misses < MaxMisses
    BY MergedFacts
  <2>3. [pools[p] EXCEPT !.misses = @ + missed].misses < MaxMisses => p \in DOMAIN m
    BY MergedFacts
  <2> HIDE DEF m
  <2> QED
    BY <2>1, <2>2, <2>3
<1>2. DOMAIN m \subseteq DOMAIN pools \cup DOMAIN f
  BY MergedFacts
<1> HIDE DEF m
<1>3. ASSUME NEW p \in DOMAIN m
      PROVE  \E q \in DOMAIN m : TokenOf[q] = TokenOf[p] /\ VenueOf[q] # VenueOf[p]
                                 /\ m[q].misses <= m[p].misses
  <2>1. CASE p \in DOMAIN f
    <3>1. PICK q \in DOMAIN f : TokenOf[q] = TokenOf[p] /\ VenueOf[q] # VenueOf[p]
      BY <2>1 DEF Partnered
    <3> QED
      BY <2>1, <3>1, <1>0
  <2>2. CASE p \notin DOMAIN f
    <3>1. p \in DOMAIN pools \ DOMAIN f
      BY <1>2, <2>2
    <3>2. PICK q \in DOMAIN pools : TokenOf[q] = TokenOf[p] /\ VenueOf[q] # VenueOf[p]
                                    /\ pools[q].misses <= pools[p].misses
      BY <3>1 DEF Partnered
    <3>3. pools[p].misses \in Nat /\ pools[q].misses \in Nat /\ MaxMisses \in Nat
      BY <3>1, <3>2, RoundsAssumption DEF Typed, Entries
    <3>4. m[p].misses = pools[p].misses + missed /\ pools[p].misses + missed < MaxMisses
      BY <3>1, <1>1
    <3>5. CASE q \in DOMAIN f
      BY <3>5, <3>2, <3>3, <3>4, <1>0
    <3>6. CASE q \notin DOMAIN f
      <4>1. q \in DOMAIN m /\ m[q].misses = pools[q].misses + missed
        BY <3>2, <3>3, <3>4, <3>6, <1>1
      <4> QED
        BY <4>1, <3>2, <3>3, <3>4
    <3> QED
      BY <3>5, <3>6
  <2> QED
    BY <2>1, <2>2
<1> QED
  BY <1>3 DEF Partnered, m

-----------------------------------------------------------------------------
(* A token of these pools has two venues among them. *)
InPairs(pools) == \A t \in TokensOf(DOMAIN pools) : Cardinality(VenuesOf(OfToken(DOMAIN pools, t))) >= 2

(* There are four venues. *)
LEMMA VenuesFinite == ASSUME NEW S, S \subseteq Pools PROVE IsFiniteSet(VenuesOf(S))
<1>1. IsFiniteSet({"pumpswap", "meteora"} \cup {"raydium", "whirlpool"})
  <2>1. IsFiniteSet({"pumpswap"} \cup {"meteora"}) /\ IsFiniteSet({"raydium"} \cup {"whirlpool"})
    BY FS_Singleton, FS_AddElement
  <2>2. {"pumpswap"} \cup {"meteora"} = {"pumpswap", "meteora"}
    OBVIOUS
  <2>3. {"raydium"} \cup {"whirlpool"} = {"raydium", "whirlpool"}
    OBVIOUS
  <2> QED
    BY <2>1, <2>2, <2>3, FS_Union
<1>2. VenuesOf(S) \subseteq {"pumpswap", "meteora"} \cup {"raydium", "whirlpool"}
  BY RoundsAssumption DEF VenuesOf, Venues
<1> QED
  BY <1>1, <1>2, FS_Subset

(* Two different values are two. *)
LEMMA TwoOf ==
  ASSUME NEW a, NEW b, a # b
  PROVE  IsFiniteSet({a, b}) /\ Cardinality({a, b}) = 2
<1> DEFINE one == {a}
<1>1. IsFiniteSet(one) /\ Cardinality(one) = 1 /\ b \notin one
  BY FS_Singleton
<1>2. {a, b} = one \cup {b}
  OBVIOUS
<1> HIDE DEF one
<1>3. IsFiniteSet(one \cup {b}) /\ Cardinality(one \cup {b}) = Cardinality(one) + 1
  BY <1>1, FS_AddElement
<1> QED
  BY <1>1, <1>2, <1>3

(* Pools with partners are in pairs. *)
LEMMA PartnersPair ==
  ASSUME NEW pools, DOMAIN pools \subseteq Pools, Partnered(pools)
  PROVE  InPairs(pools)
<1> SUFFICES ASSUME NEW t \in TokensOf(DOMAIN pools)
             PROVE  Cardinality(VenuesOf(OfToken(DOMAIN pools, t))) >= 2
  BY DEF InPairs
<1>1. PICK p \in DOMAIN pools : TokenOf[p] = t
  BY DEF TokensOf
<1>2. PICK q \in DOMAIN pools : TokenOf[q] = t /\ VenueOf[q] # VenueOf[p]
  BY <1>1 DEF Partnered
<1> DEFINE V == VenuesOf(OfToken(DOMAIN pools, t))
<1>3. VenueOf[p] \in V /\ VenueOf[q] \in V
  BY <1>1, <1>2 DEF VenuesOf, OfToken
<1>4. IsFiniteSet(V)
  BY VenuesFinite DEF OfToken
<1> HIDE DEF V
<1>5. {VenueOf[p], VenueOf[q]} \subseteq V
  BY <1>3
<1>8. IsFiniteSet({VenueOf[p], VenueOf[q]}) /\ Cardinality({VenueOf[p], VenueOf[q]}) = 2
  BY <1>2, TwoOf
<1>9. 2 <= Cardinality(V) /\ Cardinality(V) \in Nat
  BY <1>4, <1>5, <1>8, FS_Subset, FS_CardinalityType
<1> QED
  BY <1>9 DEF V

(* The scanner's filter takes entries as they are, and in pairs: the venues *)
(* it has counted keep a pool each when it limits their number.            *)
LEMMA FilteredFacts ==
  ASSUME NEW entries, DOMAIN entries \subseteq Pools, NEW r, r \in Filtered(entries)
  PROVE  /\ DOMAIN r \subseteq DOMAIN entries
         /\ \A p \in DOMAIN r : r[p] = entries[p]
         /\ InPairs(r)
<1> DEFINE good == {p \in DOMAIN entries : Listable(entries[p])}
<1>1. PICK B \in SUBSET good :
        /\ r = Restrict(entries, B)
        /\ TokensOf(B) = {t \in TokensOf(good) : Paired(OfToken(good, t), entries)}
        /\ \A t \in TokensOf(B) : Enough(OfToken(B, t), OfToken(good, t))
  <2> DEFINE of(t, S) == {p \in S : TokenOf[p] = t}
             tokens   == {t \in TokensOf(good) : Paired(of(t, good), entries)}
             worth(p) == Worth2(entries[p].trades15, entries[p].liquidity)
  <2>1. r \in {Restrict(entries, S) : S \in {B \in SUBSET good :
                  TokensOf(B) = tokens /\ \A t \in tokens : IsLimited(of(t, B), of(t, good), worth)}}
    BY DEF Filtered
  <2>2. PICK B \in SUBSET good : /\ r = Restrict(entries, B)
                                 /\ TokensOf(B) = tokens
                                 /\ \A t \in tokens : IsLimited(of(t, B), of(t, good), worth)
    BY <2>1
  <2>3. \A t \in tokens : Enough(of(t, B), of(t, good))
    BY <2>2 DEF IsLimited, IsBest, Enough, OfVenue
  <2> QED
    BY <2>2, <2>3 DEF OfToken
<1>2. DOMAIN r = B /\ B \subseteq DOMAIN entries /\ \A p \in B : r[p] = entries[p]
  BY <1>1 DEF Restrict
<1>3. ASSUME NEW t \in TokensOf(B)
      PROVE  Cardinality(VenuesOf(OfToken(B, t))) >= 2
  <2> DEFINE G == OfToken(good, t)
             W == {VenueOf[p] : p \in {q \in G : entries[q].liquidity >= MinPair}}
  <2>1. Cardinality(W) >= 2
    BY <1>1 DEF Paired
  <2>2. OfToken(B, t) \subseteq G /\ G \subseteq Pools /\ Enough(OfToken(B, t), G)
    BY <1>1 DEF OfToken
  <2>3. VenuesOf(OfToken(B, t)) = VenuesOf(G)
    BY <2>2, EveryVenueTaken
  <2>4. W \subseteq VenuesOf(G) /\ IsFiniteSet(VenuesOf(G))
    BY <2>2, VenuesFinite DEF VenuesOf
  <2> HIDE DEF W, G
  <2>5. Cardinality(W) <= Cardinality(VenuesOf(G)) /\ Cardinality(W) \in Nat /\ Cardinality(VenuesOf(G)) \in Nat
    BY <2>4, FS_Subset, FS_CardinalityType
  <2> QED
    BY <2>1, <2>3, <2>5
<1> QED
  BY <1>2, <1>3 DEF InPairs

-----------------------------------------------------------------------------
(* What each stage of a round holds.  From the file on, what is about to   *)
(* be written is an update of the file as it still is.                     *)
Stages ==
    /\ at = "idle" => fresh = NoPools
    /\ at # "idle" => fresh \in Selected[program]
    /\ at \in {"idle", "update"} => next = NoPools
    /\ at \in {"list", "state"} => Readable /\ next \in Updates

(* The state file, behind the properties: one of the watcher keeps its     *)
(* pools with their partners, and each entry counts the selections since.  *)
Kept == state.source = "none" => state.pools = NoPools
Company == state.source = "jd6" => Partnered(state.pools)

Shape == /\ program \in Programs /\ at \in {"idle", "update", "list", "state"}
         /\ Typed(state.pools) /\ state.source \in Programs \cup {"none"}
         /\ list \subseteq Pools
         /\ crashes \in 0..MaxCrashes
         /\ lately \in Seq(SUBSET Pools) /\ Len(lately) <= MaxMisses
         /\ found \in [Programs -> SUBSET Pools]

IInv == Shape /\ Stages /\ Kept /\ Company /\ ListedInPairs /\ ListedSeenLately /\ OwnPoolsOnly

(* ListedInPairs speaks of the pools of the state file. *)
LEMMA PairsAreListed == ListedInPairs <=> InPairs(state.pools)
  BY DEF ListedInPairs, InPairs, VenuesOf, OfToken

(* No pools are fine in every respect. *)
LEMMA NothingPartnered == Typed(NoPools) /\ Partnered(NoPools) /\ InPairs(NoPools) /\ Fresh(NoPools)
<1>1. DOMAIN NoPools = {}
  BY DEF NoPools
<1> QED
  BY <1>1 DEF Typed, Partnered, InPairs, TokensOf, Fresh

(* The update of a round, from the file it reads. *)
LEMMA UpdateFacts ==
  ASSUME IInv, at \in {"list", "state"}
  PROVE  /\ Fresh(fresh) /\ Missed \in {0, 1}
         /\ Typed(Previous) /\ Typed(next)
         /\ DOMAIN next \subseteq DOMAIN Previous \cup DOMAIN fresh
         /\ \A p \in DOMAIN next :
              IF p \in DOMAIN fresh THEN next[p] = fresh[p]
              ELSE next[p] = [Previous[p] EXCEPT !.misses = @ + Missed] /\ next[p].misses < MaxMisses
         /\ program = "jd6" => Partnered(next)
         /\ InPairs(next)
<1> DEFINE m == Merged(Previous, fresh, Missed)
<1>1. Fresh(fresh) /\ (program = "jd6" => Partnered(fresh))
  BY SelectedFacts DEF IInv, Stages, Shape
<1>2. Missed \in {0, 1} /\ (program = "jd6" => Missed = 1)
  BY DEF Missed
<1>3. Typed(Previous)
  BY NothingPartnered DEF Previous, IInv, Shape
<1>4. Typed(m)
  BY <1>1, <1>2, <1>3, MergedTyped
<1>5. next \in Updates /\ Readable
  BY DEF IInv, Stages
<1>6. /\ DOMAIN m \subseteq DOMAIN Previous \cup DOMAIN fresh
      /\ \A p \in DOMAIN m :
           IF p \in DOMAIN fresh THEN m[p] = fresh[p]
           ELSE m[p] = [Previous[p] EXCEPT !.misses = @ + Missed] /\ m[p].misses < MaxMisses
  BY <1>2, MergedFacts
<1>7. CASE program = "jd6"
  <2>1. next = m
    BY <1>5, <1>7 DEF Updates
  <2>2. Partnered(Previous)
    BY <1>5, <1>7, NothingPartnered DEF Previous, Readable, IInv, Kept, Company
  <2>3. Partnered(m)
    BY <2>2, <1>1, <1>2, <1>3, <1>7, MergedPartnered
  <2>4. InPairs(m)
    BY <2>3, <1>4, PartnersPair DEF Typed
  <2> HIDE DEF m
  <2> QED
    BY <1>1, <1>2, <1>3, <1>4, <1>6, <2>1, <2>3, <2>4
<1>8. CASE program # "jd6"
  <2>1. next \in Filtered(m)
    BY <1>5, <1>8 DEF Updates
  <2>2. DOMAIN next \subseteq DOMAIN m /\ (\A p \in DOMAIN next : next[p] = m[p]) /\ InPairs(next)
    BY <2>1, <1>4, FilteredFacts DEF Typed
  <2> HIDE DEF m
  <2>3. Typed(next)
    BY <1>4, <2>2 DEF Typed
  <2> QED
    BY <1>1, <1>2, <1>3, <1>6, <1>8, <2>2, <2>3
<1> QED
  BY <1>7, <1>8

(* One put before a sequence that is then cut to length M. *)
LEMMA PutAndCut ==
  ASSUME NEW S, NEW a, a \in S, NEW s, s \in Seq(S), NEW M, M \in Nat \ {0},
         NEW r, r = IF Len(<<a>> \o s) > M THEN SubSeq(<<a>> \o s, 1, M) ELSE <<a>> \o s
  PROVE  /\ r \in Seq(S) /\ Len(r) \in 1..M /\ r[1] = a
         /\ \A i \in 1..Len(s) : i + 1 <= M => i + 1 <= Len(r) /\ r[i + 1] = s[i]
<1> DEFINE one == <<a>>
           now == one \o s
<1>1. one \in Seq(S) /\ Len(one) = 1 /\ one[1] = a
  OBVIOUS
<1>2. r = IF Len(now) > M THEN SubSeq(now, 1, M) ELSE now
  OBVIOUS
<1> HIDE DEF one
<1>3. /\ now \in Seq(S) /\ Len(now) = Len(one) + Len(s)
      /\ \A i \in 1..(Len(one) + Len(s)) :
           now[i] = IF i <= Len(one) THEN one[i] ELSE s[i - Len(one)]
  BY <1>1, ConcatProperties, Zenon
<1> HIDE DEF now
<1>4. /\ now \in Seq(S) /\ Len(now) = Len(s) + 1 /\ now[1] = a
      /\ \A i \in 1..Len(s) : now[i + 1] = s[i]
  <2>1. Len(s) \in Nat
    OBVIOUS
  <2>2. now[1] = a
    BY <1>1, <1>3, <2>1
  <2>3. ASSUME NEW i \in 1..Len(s) PROVE now[i + 1] = s[i]
    <3>1. i + 1 \in 1..(Len(one) + Len(s)) /\ ~(i + 1 <= Len(one)) /\ i + 1 - Len(one) = i
      BY <1>1, <2>1
    <3> QED
      BY <1>3, <3>1
  <2> QED
    BY <1>1, <1>3, <2>1, <2>2, <2>3
<1>5. CASE Len(now) > M
  <2>1. r = SubSeq(now, 1, M)
    BY <1>2, <1>5
  <2> QED
    BY <2>1, <1>4, <1>5
<1>6. CASE ~(Len(now) > M)
  BY <1>2, <1>4, <1>6
<1> QED
  BY <1>5, <1>6

(* The history as it is remembered. *)
LEMMA RememberedFacts ==
  ASSUME IInv, at = "state"
  PROVE  /\ Remembered \in Seq(SUBSET Pools) /\ Len(Remembered) <= MaxMisses
         /\ DOMAIN fresh # {} => Len(Remembered) >= 1 /\ Remembered[1] = DOMAIN fresh
         /\ state.source = program /\ Missed = 1 =>
              \A i \in 1..Len(lately) : i + 1 <= MaxMisses =>
                 i + 1 <= Len(Remembered) /\ Remembered[i + 1] = lately[i]
         /\ Missed = 1 => Len(Remembered) >= 1 /\ Remembered[1] = DOMAIN fresh
         /\ state.source = program /\ Missed = 0 => Remembered = lately
<1> DEFINE own == IF state.source = program THEN lately ELSE <<>>
           now == IF program # "jd6" /\ DOMAIN fresh = {} THEN own ELSE <<DOMAIN fresh>> \o own
<1>1. Remembered = IF Len(now) > MaxMisses THEN SubSeq(now, 1, MaxMisses) ELSE now
  BY DEF Remembered
<1>2. own \in Seq(SUBSET Pools) /\ Len(own) <= MaxMisses /\ MaxMisses \in Nat \ {0}
  BY RoundsAssumption DEF IInv, Shape
<1>3. DOMAIN fresh \in SUBSET Pools
  BY UpdateFacts DEF Fresh
<1>4. CASE Missed = 0
  <2>1. program # "jd6" /\ DOMAIN fresh = {}
    BY <1>4 DEF Missed
  <2>2. now = own
    BY <2>1
  <2> HIDE DEF now
  <2>3. Remembered = own
    BY <1>1, <1>2, <2>2
  <2> QED
    BY <1>2, <1>4, <2>1, <2>3
<1>5. CASE Missed = 1
  <2>1. now = <<DOMAIN fresh>> \o own
    BY <1>5 DEF Missed
  <2>2. Remembered = IF Len(<<DOMAIN fresh>> \o own) > MaxMisses
                     THEN SubSeq(<<DOMAIN fresh>> \o own, 1, MaxMisses) ELSE <<DOMAIN fresh>> \o own
    BY <1>1, <2>1, Zenon
  <2> HIDE DEF own
  <2>3. /\ Remembered \in Seq(SUBSET Pools) /\ Len(Remembered) \in 1..MaxMisses
        /\ Remembered[1] = DOMAIN fresh
        /\ \A i \in 1..Len(own) : i + 1 <= MaxMisses =>
              i + 1 <= Len(Remembered) /\ Remembered[i + 1] = own[i]
    <3> DEFINE P == SUBSET Pools
               chosen == DOMAIN fresh
    <3>1. chosen \in P /\ own \in Seq(P) /\ MaxMisses \in Nat \ {0}
      BY <1>2, <1>3
    <3>2. Remembered = IF Len(<<chosen>> \o own) > MaxMisses
                       THEN SubSeq(<<chosen>> \o own, 1, MaxMisses) ELSE <<chosen>> \o own
      BY <2>2, Zenon
    <3> HIDE DEF P, chosen
    <3>3. /\ Remembered \in Seq(P) /\ Len(Remembered) \in 1..MaxMisses /\ Remembered[1] = chosen
          /\ \A i \in 1..Len(own) : i + 1 <= MaxMisses =>
                i + 1 <= Len(Remembered) /\ Remembered[i + 1] = own[i]
      BY <3>1, <3>2, PutAndCut
    <3> QED
      BY <3>3 DEF P, chosen
  <2>4. state.source = program => own = lately
    BY DEF own
  <2> QED
    BY <1>2, <1>5, <2>3, <2>4
<1>6. Missed \in {0, 1}
  BY DEF Missed
<1> QED
  BY <1>4, <1>5, <1>6

-----------------------------------------------------------------------------
LEMMA InitInvariant == Init => IInv
<1> SUFFICES ASSUME Init PROVE IInv
  OBVIOUS
<1>1. /\ program \in Programs /\ at = "idle" /\ fresh = NoPools /\ next = NoPools /\ list = {}
      /\ state.source = "none" /\ state.pools = NoPools /\ crashes = 0
      /\ lately = <<>> /\ found = [s \in Programs |-> {}]
  BY DEF Init, NoState
<1>2. Shape
  BY <1>1, NothingPartnered, RoundsAssumption DEF Shape
<1>3. Stages /\ Kept /\ Company
  BY <1>1, NothingPartnered DEF Stages, Kept, Company
<1>4. ListedInPairs
  BY <1>1, NothingPartnered, PairsAreListed
<1>5. ListedSeenLately /\ OwnPoolsOnly
  BY <1>1 DEF ListedSeenLately, OwnPoolsOnly, NoPools
<1> QED
  BY <1>2, <1>3, <1>4, <1>5 DEF IInv

(* The file a round leaves behind lists tokens in pairs. *)
LEMMA WrittenPairs ==
  ASSUME IInv, WriteState PROVE Kept' /\ Company' /\ ListedInPairs'
<1>1. at = "state" /\ state'.source = program /\ state'.pools = next /\ program \in Programs
  BY DEF WriteState, IInv, Shape
<1>2. (program = "jd6" => Partnered(next)) /\ InPairs(next)
  BY <1>1, UpdateFacts
<1>3. program # "none"
  BY <1>1, RoundsAssumption
<1>4. InPairs(state.pools)'
  BY <1>1, <1>2 DEF InPairs, TokensOf, VenuesOf, OfToken
<1>5. ListedInPairs'
  BY <1>4 DEF ListedInPairs, InPairs, VenuesOf, OfToken
<1>6. Company'
  BY <1>1, <1>2 DEF Company, Partnered
<1> QED
  BY <1>1, <1>3, <1>5, <1>6 DEF Kept

(* It holds what its source has found before, or finds now. *)
LEMMA WrittenOwn ==
  ASSUME IInv, WriteState PROVE OwnPoolsOnly'
<1>1. /\ at = "state" /\ state'.source = program /\ state'.pools = next /\ program \in Programs
      /\ found \in [Programs -> SUBSET Pools]
      /\ found' = [found EXCEPT ![program] = found[program] \cup DOMAIN fresh]
  BY DEF WriteState, IInv, Shape
<1>2. found'[program] = found[program] \cup DOMAIN fresh
  BY <1>1
<1>3. DOMAIN next \subseteq DOMAIN Previous \cup DOMAIN fresh
  BY <1>1, UpdateFacts
<1>4. DOMAIN Previous \subseteq found[program]
  <2>1. CASE state.source = program
    <3>1. Previous = state.pools /\ state.source # "none"
      BY <2>1, <1>1, RoundsAssumption DEF Previous
    <3> QED
      BY <3>1, <2>1 DEF IInv, OwnPoolsOnly
  <2>2. CASE state.source # program
    <3>1. Previous = NoPools
      BY <2>2, <1>1 DEF Previous, IInv, Stages, Readable, Kept
    <3> QED
      BY <3>1 DEF NoPools
  <2> QED
    BY <2>1, <2>2
<1> QED
  BY <1>1, <1>2, <1>3, <1>4 DEF OwnPoolsOnly

(* A pool selected now is at the front of the history; one that was missed *)
(* moves back with it by one place, and by none when nothing is counted.   *)
LEMMA WrittenLately ==
  ASSUME IInv, WriteState PROVE ListedSeenLately'
<1>1. at = "state" /\ state'.pools = next /\ lately' = Remembered
  BY DEF WriteState
<1> SUFFICES ASSUME NEW p \in DOMAIN next
             PROVE  \E i \in 1..Len(Remembered) :
                       /\ p \in Remembered[i] /\ next[p].misses = i - 1
                       /\ \A j \in 1..(i - 1) : p \notin Remembered[j]
  BY <1>1 DEF ListedSeenLately
<1>2. CASE p \in DOMAIN fresh
  <2>1. next[p] = fresh[p] /\ fresh[p].misses = 0
    BY <1>1, <1>2, UpdateFacts DEF Fresh
  <2>2. Len(Remembered) >= 1 /\ Remembered[1] = DOMAIN fresh /\ Len(Remembered) \in Nat
    BY <1>1, <1>2, RememberedFacts
  <2>3. 1 \in 1..Len(Remembered)
    BY <2>2
  <2> QED
    BY <1>2, <2>1, <2>2, <2>3
<1>3. CASE p \notin DOMAIN fresh
  <2>1. p \in DOMAIN Previous /\ next[p] = [Previous[p] EXCEPT !.misses = @ + Missed]
        /\ next[p].misses < MaxMisses /\ Typed(Previous) /\ Missed \in {0, 1}
    BY <1>1, <1>3, UpdateFacts
  <2>2. next[p].misses = Previous[p].misses + Missed
    BY <2>1, MissedOnceMore DEF Typed
  <2>3. state.source = program /\ Previous = state.pools
    <3>1. Previous # NoPools
      BY <2>1 DEF NoPools
    <3>2. state.source # "none"
      BY <3>1 DEF Previous, IInv, Kept
    <3> QED
      BY <3>1, <3>2, <1>1 DEF Previous, IInv, Stages, Readable
  <2>4. PICK i \in 1..Len(lately) :
           /\ p \in lately[i] /\ Previous[p].misses = i - 1
           /\ \A j \in 1..(i - 1) : p \notin lately[j]
    BY <2>1, <2>3 DEF IInv, ListedSeenLately
  <2>5. lately \in Seq(SUBSET Pools) /\ Len(lately) \in Nat /\ MaxMisses \in Nat
    BY RoundsAssumption DEF IInv, Shape
  <2>6. CASE Missed = 0
    <3>1. Remembered = lately
      BY <1>1, <2>3, <2>6, RememberedFacts
    <3> QED
      BY <3>1, <2>2, <2>4, <2>5, <2>6
  <2>7. CASE Missed = 1
    <3>1. /\ Remembered[1] = DOMAIN fresh
          /\ \A k \in 1..Len(lately) : k + 1 <= MaxMisses =>
                k + 1 <= Len(Remembered) /\ Remembered[k + 1] = lately[k]
          /\ Len(Remembered) \in Nat
      BY <1>1, <2>3, <2>7, RememberedFacts
    <3>2. next[p].misses = i /\ i < MaxMisses
      BY <2>1, <2>2, <2>4, <2>5, <2>7
    <3>3. i + 1 \in 1..Len(Remembered) /\ p \in Remembered[i + 1]
      BY <3>1, <3>2, <2>4, <2>5
    <3>4. ASSUME NEW j \in 1..i PROVE p \notin Remembered[j]
      <4>1. CASE j = 1
        BY <4>1, <3>1, <1>3
      <4>2. CASE j # 1
        <5>1. j - 1 \in 1..(i - 1) /\ j - 1 \in 1..Len(lately) /\ (j - 1) + 1 = j /\ j <= MaxMisses
          BY <4>2, <2>4, <2>5, <3>2
        <5>2. Remembered[(j - 1) + 1] = lately[j - 1]
          BY <5>1, <3>1
        <5> QED
          BY <5>1, <5>2, <2>4
      <4> QED
        BY <4>1, <4>2
    <3>5. (i + 1) - 1 = i
      BY <2>4
    <3> QED
      BY <3>2, <3>3, <3>4, <3>5
  <2> QED
    BY <2>1, <2>6, <2>7
<1> QED
  BY <1>2, <1>3

(* Writing the file ends the round. *)
LEMMA WrittenShape ==
  ASSUME IInv, WriteState PROVE Shape' /\ Stages'
<1>1. at = "state"
  BY DEF WriteState
<1>2. /\ at' = "idle" /\ fresh' = NoPools /\ next' = NoPools /\ program' = program /\ list' = list
      /\ crashes' = crashes /\ lately' = Remembered /\ state'.source = program /\ state'.pools = next
      /\ found' = [found EXCEPT ![program] = found[program] \cup DOMAIN fresh]
  BY DEF WriteState
<1>3. Stages'
  BY <1>2 DEF Stages
<1>4. found' \in [Programs -> SUBSET Pools]
  <2>1. DOMAIN fresh \subseteq Pools
    BY <1>1, UpdateFacts DEF Fresh
  <2> QED
    BY <2>1, <1>2 DEF IInv, Shape
<1>5. Typed(state.pools)'
  <2>1. Typed(next)
    BY <1>1, UpdateFacts
  <2> QED
    BY <2>1, <1>2 DEF Typed
<1>6. lately' \in Seq(SUBSET Pools) /\ Len(lately') <= MaxMisses
  BY <1>1, <1>2, RememberedFacts
<1> QED
  BY <1>2, <1>3, <1>4, <1>5, <1>6 DEF IInv, Shape

(* A step that leaves the file and its history alone. *)
LEMMA FileKept ==
  ASSUME IInv, UNCHANGED <<state, lately, found>>
  PROVE  /\ Kept' /\ Company' /\ ListedInPairs' /\ ListedSeenLately' /\ OwnPoolsOnly'
         /\ Typed(state.pools)'
  BY DEF IInv, Shape, Kept, Company, Partnered, ListedInPairs, TokensOf, ListedSeenLately, OwnPoolsOnly, Typed

(* Only WriteState touches the file; the other steps are about the round. *)
LEMMA StepInvariant == IInv /\ [Next]_vars => IInv'
<1> SUFFICES ASSUME IInv, [Next]_vars PROVE IInv'
  OBVIOUS
<1> DEFINE File == Kept /\ Company /\ ListedInPairs /\ ListedSeenLately /\ OwnPoolsOnly
<1>1. CASE Fetch
  <2>1. File' /\ Typed(state.pools)'
    BY <1>1, FileKept DEF Fetch
  <2>2. Shape' /\ Stages'
    BY <1>1, <2>1 DEF Fetch, IInv, Shape, Stages
  <2> QED
    BY <2>1, <2>2 DEF IInv
<1>2. CASE Update
  <2>1. File' /\ Typed(state.pools)'
    BY <1>2, FileKept DEF Update
  <2>2. Shape'
    BY <1>2, <2>1 DEF Update, IInv, Shape
  <2>3. Readable' /\ next' \in Updates'
    BY <1>2 DEF Update, Readable, Updates, Previous, Missed
  <2>4. Stages'
    BY <1>2, <2>3 DEF Update, IInv, Stages
  <2> QED
    BY <2>1, <2>2, <2>4 DEF IInv
<1>3. CASE WriteList
  <2>1. File' /\ Typed(state.pools)'
    BY <1>3, FileKept DEF WriteList
  <2>2. DOMAIN next \subseteq Pools
    BY <1>3, UpdateFacts DEF WriteList, Typed
  <2>3. Shape'
    BY <1>3, <2>1, <2>2 DEF WriteList, IInv, Shape
  <2>4. Readable' /\ next' \in Updates'
    BY <1>3 DEF WriteList, IInv, Stages, Readable, Updates, Previous, Missed
  <2>5. Stages'
    BY <1>3, <2>4 DEF WriteList, IInv, Stages
  <2> QED
    BY <2>1, <2>3, <2>5 DEF IInv
<1>4. CASE WriteState
  BY <1>4, WrittenPairs, WrittenOwn, WrittenLately, WrittenShape DEF IInv
<1>5. CASE RoundFails \/ Restart
  <2>1. File' /\ Typed(state.pools)'
    BY <1>5, FileKept DEF RoundFails, Restart
  <2>2. at' = "idle" /\ fresh' = NoPools /\ next' = NoPools /\ program' \in Programs
        /\ crashes' \in 0..MaxCrashes /\ UNCHANGED <<list, state, lately, found>>
    BY <1>5, RoundsAssumption DEF RoundFails, Restart, IInv, Shape
  <2>3. Shape' /\ Stages'
    BY <2>1, <2>2 DEF IInv, Shape, Stages
  <2> QED
    BY <2>1, <2>3 DEF IInv
<1>6. CASE UNCHANGED vars
  <2>1. File' /\ Typed(state.pools)'
    BY <1>6, FileKept DEF vars
  <2>2. Readable' = Readable /\ Updates' = Updates
    BY <1>6 DEF vars, Readable, Updates, Previous, Missed
  <2>3. Shape' /\ Stages'
    BY <1>6, <2>1, <2>2 DEF vars, IInv, Shape, Stages
  <2> QED
    BY <2>1, <2>3 DEF IInv
<1> QED
  BY <1>1, <1>2, <1>3, <1>4, <1>5, <1>6 DEF Next

LEMMA Invariant == Spec => []IInv
  BY InitInvariant, StepInvariant, PTL DEF Spec

(* Entries, files and history keep their types, whichever programs run and *)
(* wherever their rounds are cut off.                                      *)
THEOREM TypesHold == Spec => []TypeOK
<1>1. IInv => TypeOK
  <2> SUFFICES ASSUME IInv PROVE TypeOK
    OBVIOUS
  <2>1. Typed(fresh)
    <3>1. CASE at = "idle"
      BY <3>1, NothingPartnered DEF IInv, Stages
    <3>2. CASE at # "idle"
      BY <3>2, SelectedFacts DEF IInv, Stages, Shape, Fresh, Typed
    <3> QED
      BY <3>1, <3>2
  <2>2. Typed(next)
    <3>1. CASE at \in {"idle", "update"}
      BY <3>1, NothingPartnered DEF IInv, Stages
    <3>2. CASE at \in {"list", "state"}
      BY <3>2, UpdateFacts
    <3> QED
      BY <3>1, <3>2 DEF IInv, Shape
  <2>3. Typed(state.pools)
    BY DEF IInv, Shape
  <2>4. \A i \in DOMAIN lately : lately[i] \subseteq Pools
    BY DEF IInv, Shape
  <2> QED
    BY <2>1, <2>2, <2>3, <2>4 DEF TypeOK, Typed, IInv, Shape
<1> QED
  BY <1>1, Invariant, PTL

(* A token in the snapshot has pools of two venues: limits per venue, pools *)
(* missed and dropped one by one, and changes of the program that keeps    *)
(* the file leave none with one side.                                      *)
THEOREM FileListsPairs == Spec => []ListedInPairs
<1>1. IInv => ListedInPairs
  BY DEF IInv
<1> QED
  BY <1>1, Invariant, PTL

(* A pool's count of misses is how many selections ago it was last chosen, *)
(* so none outlives MaxMisses of them.                                     *)
THEOREM FileForgets == Spec => []ListedSeenLately
<1>1. IInv => ListedSeenLately
  BY DEF IInv
<1> QED
  BY <1>1, Invariant, PTL

(* A file never passes on as its own what another program has found.       *)
THEOREM FileIsOfItsSource == Spec => []OwnPoolsOnly
<1>1. IInv => OwnPoolsOnly
  BY DEF IInv
<1> QED
  BY <1>1, Invariant, PTL
-----------------------------------------------------------------------------
(* The loop that reads the snapshot.                                       *)
(* The fingerprint is the revision, wherever it is read. *)
USE DEF Loop!Fingerprint

(* A routeable token is the token of one of the markets. *)
LEMMA RouteableTokens ==
  ASSUME Loop!LoopAssumption, NEW S
  PROVE  /\ Loop!Routeable(S) \subseteq Tokens
         /\ Loop!Routeable(S) \subseteq {TokenOfMarket[m] : m \in S}
<1> SUFFICES ASSUME NEW t \in Loop!Routeable(S) PROVE t \in {TokenOfMarket[m] : m \in S}
  BY DEF Loop!Routeable
<1> DEFINE venues == {Venue[m] : m \in {n \in S : TokenOfMarket[n] = t}}
<1>1. Cardinality(venues) >= MinVenues /\ MinVenues \in Nat \ {0, 1}
  <2>1. Loop!Cardinality(venues) = Cardinality(venues)
    BY DEF Loop!Cardinality, Cardinality
  <2> HIDE DEF venues
  <2> QED
    BY <2>1 DEF Loop!Routeable, Loop!LoopAssumption, venues
<1>2. venues # {}
  <2> SUFFICES ASSUME venues = {} PROVE FALSE
    OBVIOUS
  <2>1. Cardinality(venues) = 0
    BY FS_EmptySet
  <2> HIDE DEF venues
  <2> QED
    BY <1>1, <2>1
<1> QED
  BY <1>2

(***************************************************************************)
(* The flags are Boolean, whatever the step.                               *)
(***************************************************************************)
LEMMA FlagsStep == Loop!FlagsOK /\ [Loop!Next]_(Loop!vars) => Loop!FlagsOK'
<1> SUFFICES ASSUME Loop!FlagsOK, [Loop!Next]_(Loop!vars) PROVE Loop!FlagsOK'
  OBVIOUS
<1>1. CASE Loop!ReadMarker
  BY <1>1, Zenon DEF Loop!FlagsOK, Loop!ReadMarker, Loop!timers
<1>2. CASE Loop!WriteSnapshot
  BY <1>2, Zenon DEF Loop!FlagsOK, Loop!WriteSnapshot, Loop!timers
<1>3. CASE Loop!Elapse
  BY <1>3, Zenon DEF Loop!FlagsOK, Loop!Elapse, Loop!TickPasses, Loop!ReloadPasses, Loop!IntervalPasses,
     Loop!ScanTimePasses, Loop!Untimed
<1>4. CASE Loop!TakeUpdates
  BY <1>4, Zenon DEF Loop!FlagsOK, Loop!TakeUpdates, Loop!timers
<1>5. CASE Loop!TakeTick
  BY <1>5, Zenon DEF Loop!FlagsOK, Loop!TakeTick
<1>6. CASE Loop!TakeReloadTick
  <2>1. pending' \in BOOLEAN
    BY <1>6, Zenon DEF Loop!TakeReloadTick, Loop!PendingAfter
  <2> QED
    BY <1>6, <2>1, Zenon DEF Loop!FlagsOK, Loop!TakeReloadTick
<1>7. CASE Loop!BuildFails
  BY <1>7, Zenon DEF Loop!FlagsOK, Loop!BuildFails, Loop!timers
<1>8. ASSUME NEW S \in SUBSET Markets, Loop!BuildIgnored(S) PROVE Loop!FlagsOK'
  BY <1>8, Zenon DEF Loop!FlagsOK, Loop!BuildIgnored, Loop!BuildEnds
<1>9. ASSUME NEW S \in SUBSET Markets, Loop!Reload(S) PROVE Loop!FlagsOK'
  BY <1>9, Zenon DEF Loop!FlagsOK, Loop!Reload, Loop!BuildEnds
<1>10. CASE Loop!Scan \/ Loop!SkipScan
  <2>1. deferred' \in BOOLEAN
    BY <1>10, Zenon DEF Loop!FlagsOK, Loop!Scan, Loop!SkipScan, Loop!DeferredAfter
  <2> QED
    BY <1>10, <2>1, Zenon DEF Loop!FlagsOK, Loop!Scan, Loop!SkipScan, Loop!timers
<1>11. CASE \E m \in Markets : Loop!Deliver(m)
  BY <1>11, Zenon DEF Loop!FlagsOK, Loop!Deliver, Loop!timers
<1>12. CASE UNCHANGED Loop!vars
  BY <1>12, Zenon DEF Loop!FlagsOK, Loop!vars, Loop!timers
<1> QED
  BY <1>1, <1>2, <1>3, <1>4, <1>5, <1>6, <1>7, <1>8, <1>9, <1>10, <1>11, <1>12
     DEF Loop!Next, Loop!Selects, Loop!Builds

(***************************************************************************)
(* Every variable keeps its type: in particular the marker and what was    *)
(* loaded are never ahead of the snapshot.                                 *)
(***************************************************************************)
THEOREM LoopTypesHold ==
  ASSUME Loop!LoopAssumption
  PROVE  Loop!Spec => []Loop!TypeOK
<1> USE DEF Loop!LoopAssumption
<1>1. Loop!Init => Loop!TypeOK
  <2> SUFFICES ASSUME Loop!Init PROVE Loop!TypeOK
    OBVIOUS
  <2>1. file \subseteq Markets /\ markets \subseteq file /\ hydrated \subseteq markets
    BY DEF Loop!Init
  <2>2. dirty \subseteq Tokens
    BY RouteableTokens DEF Loop!Init
  <2>3. Loop!FlagsOK
    BY Zenon DEF Loop!Init, Loop!FlagsOK
  <2> QED
    BY <2>1, <2>2, <2>3 DEF Loop!Init, Loop!TypeOK
<1>2. Loop!TypeOK /\ [Loop!Next]_(Loop!vars) => Loop!TypeOK'
  <2> SUFFICES ASSUME Loop!TypeOK, [Loop!Next]_(Loop!vars) PROVE Loop!TypeOK'
    OBVIOUS
  <2>0. Loop!FlagsOK'
    BY FlagsStep DEF Loop!TypeOK
  <2> USE <2>0
  <2>1. CASE Loop!ReadMarker
    BY <2>1 DEF Loop!TypeOK, Loop!ReadMarker, Loop!universe, Loop!snapshot
  <2>2. CASE Loop!WriteSnapshot
    BY <2>2 DEF Loop!TypeOK, Loop!WriteSnapshot, Loop!universe, Loop!history
  <2>3. CASE Loop!Elapse
    BY <2>3 DEF Loop!TypeOK, Loop!Elapse, Loop!TickPasses, Loop!ReloadPasses, Loop!IntervalPasses,
                Loop!ScanTimePasses, Loop!Untimed, Loop!universe, Loop!snapshot, Loop!history
  <2>4. CASE Loop!TakeUpdates
    BY <2>4 DEF Loop!TypeOK, Loop!TakeUpdates, Loop!snapshot, Loop!history
  <2>5. CASE Loop!TakeTick
    BY <2>5 DEF Loop!TypeOK, Loop!TakeTick, Loop!universe, Loop!snapshot, Loop!history
  <2>6. CASE Loop!TakeReloadTick
    BY <2>6 DEF Loop!TypeOK, Loop!TakeReloadTick, Loop!universe, Loop!snapshot, Loop!history
  <2>7. CASE Loop!BuildFails
    BY <2>7 DEF Loop!TypeOK, Loop!BuildFails, Loop!universe, Loop!snapshot
  <2>8. ASSUME NEW S \in SUBSET Markets, Loop!BuildIgnored(S) PROVE Loop!TypeOK'
    BY <2>8 DEF Loop!TypeOK, Loop!BuildIgnored, Loop!BuildEnds, Loop!universe, Loop!snapshot
  <2>9. ASSUME NEW S \in SUBSET Markets, Loop!Reload(S) PROVE Loop!TypeOK'
    <3>1. PICK indexed \in SUBSET hydrated' : dirty' = Loop!Routeable(indexed)
      BY <2>9 DEF Loop!Reload, Loop!Reset
    <3>2. dirty' \subseteq Tokens
      BY <3>1, RouteableTokens
    <3>3. hydrated' \subseteq S
      BY <2>9 DEF Loop!Reload, Loop!Reset
    <3>4. markets' \subseteq Markets /\ hydrated' \subseteq Markets /\ inbox' \subseteq Markets
      BY <2>9, <3>3 DEF Loop!Reload, Loop!Reset
    <3> QED
      BY <2>9, <3>2, <3>4 DEF Loop!TypeOK, Loop!Reload, Loop!BuildEnds, Loop!snapshot
  <2>10. CASE Loop!Scan \/ Loop!SkipScan
    BY <2>10 DEF Loop!TypeOK, Loop!Scan, Loop!SkipScan, Loop!TakeMarks, Loop!universe, Loop!snapshot, Loop!history
  <2>11. CASE \E m \in Markets : Loop!Deliver(m)
    BY <2>11 DEF Loop!TypeOK, Loop!Deliver, Loop!snapshot, Loop!history
  <2>12. CASE UNCHANGED Loop!vars
    BY <2>12 DEF Loop!TypeOK, Loop!vars, Loop!universe, Loop!snapshot, Loop!history
  <2> QED
    BY <2>1, <2>2, <2>3, <2>4, <2>5, <2>6, <2>7, <2>8, <2>9, <2>10, <2>11, <2>12
       DEF Loop!Next, Loop!Selects, Loop!Builds
<1> QED
  BY <1>1, <1>2, PTL DEF Loop!Spec

(***************************************************************************)
(* A reload keeps or replaces the markets, and whatever it keeps is two-   *)
(* sided: the guard Worth is what the induction rests on.                  *)
(***************************************************************************)
THEOREM TwoSidedAlways ==
  ASSUME Loop!LoopAssumption
  PROVE  Loop!Spec => []Loop!StaysTwoSided
<1>1. Loop!Init => Loop!StaysTwoSided
  BY DEF Loop!Init, Loop!StaysTwoSided
<1>2. Loop!StaysTwoSided /\ [Loop!Next]_(Loop!vars) => Loop!StaysTwoSided'
  <2> SUFFICES ASSUME Loop!StaysTwoSided, [Loop!Next]_(Loop!vars) PROVE Loop!StaysTwoSided'
    OBVIOUS
  <2>1. ASSUME NEW S \in SUBSET Markets, Loop!Reload(S) PROVE Loop!StaysTwoSided'
    BY <2>1 DEF Loop!Reload, Loop!Reset, Loop!Worth, Loop!StaysTwoSided, Loop!TwoSided
  <2>2. CASE UNCHANGED markets
    BY <2>2 DEF Loop!StaysTwoSided, Loop!TwoSided
  <2>3. markets' = markets \/ \E S \in SUBSET Markets : Loop!Reload(S)
    BY DEF Loop!Next, Loop!Selects, Loop!Builds, Loop!Elapse, Loop!ReadMarker, Loop!WriteSnapshot, Loop!TickPasses,
       Loop!ReloadPasses, Loop!IntervalPasses, Loop!ScanTimePasses, Loop!Untimed, Loop!TakeUpdates, Loop!TakeTick,
       Loop!TakeReloadTick, Loop!BuildFails, Loop!BuildIgnored, Loop!Scan, Loop!SkipScan, Loop!Deliver, Loop!vars, Loop!universe
  <2> QED
    BY <2>1, <2>2, <2>3
<1> QED
  BY <1>1, <1>2, PTL DEF Loop!Spec

(***************************************************************************)
(* Nothing of a dropped market survives the reload that dropped it.        *)
(***************************************************************************)
THEOREM OnlyCurrent ==
  ASSUME Loop!LoopAssumption
  PROVE  Loop!Spec => []Loop!OnlyCurrentMarkets
<1>1. Loop!Init => Loop!OnlyCurrentMarkets
  <2> SUFFICES ASSUME Loop!Init PROVE Loop!OnlyCurrentMarkets
    OBVIOUS
  <2>1. PICK indexed \in SUBSET hydrated : dirty = Loop!Routeable(indexed)
    BY DEF Loop!Init
  <2>2. dirty \subseteq {TokenOfMarket[m] : m \in hydrated} /\ hydrated \subseteq markets
    BY <2>1, RouteableTokens DEF Loop!Init
  <2> QED
    BY <2>2 DEF Loop!Init, Loop!OnlyCurrentMarkets
<1>2. Loop!OnlyCurrentMarkets /\ [Loop!Next]_(Loop!vars) => Loop!OnlyCurrentMarkets'
  <2> SUFFICES ASSUME Loop!OnlyCurrentMarkets, [Loop!Next]_(Loop!vars) PROVE Loop!OnlyCurrentMarkets'
    OBVIOUS
  <2>1. CASE Loop!TakeUpdates
    BY <2>1 DEF Loop!TakeUpdates, Loop!OnlyCurrentMarkets
  <2>2. ASSUME NEW S \in SUBSET Markets, Loop!Reload(S) PROVE Loop!OnlyCurrentMarkets'
    <3>1. markets' = S /\ hydrated' \subseteq S /\ inbox' = {}
      BY <2>2 DEF Loop!Reload, Loop!Reset
    <3>2. PICK indexed \in SUBSET hydrated' : dirty' = Loop!Routeable(indexed)
      BY <2>2 DEF Loop!Reload, Loop!Reset
    <3>3. dirty' \subseteq {TokenOfMarket[m] : m \in hydrated'}
      BY <3>2, RouteableTokens
    <3> QED
      BY <3>1, <3>3 DEF Loop!OnlyCurrentMarkets
  <2>3. CASE Loop!Scan
    BY <2>3 DEF Loop!Scan, Loop!TakeMarks, Loop!OnlyCurrentMarkets
  <2>4. CASE \E m \in Markets : Loop!Deliver(m)
    BY <2>4 DEF Loop!Deliver, Loop!OnlyCurrentMarkets
  <2>5. CASE UNCHANGED Loop!universe
    BY <2>5 DEF Loop!OnlyCurrentMarkets, Loop!universe
  <2>6. CASE Loop!ReadMarker \/ Loop!WriteSnapshot \/ Loop!Elapse \/ Loop!TakeTick \/ Loop!TakeReloadTick
               \/ Loop!BuildFails \/ Loop!SkipScan \/ UNCHANGED Loop!vars
    <3>1. UNCHANGED Loop!universe
      BY <2>6 DEF Loop!ReadMarker, Loop!WriteSnapshot, Loop!Elapse, Loop!TickPasses, Loop!ReloadPasses,
         Loop!IntervalPasses, Loop!ScanTimePasses, Loop!Untimed, Loop!TakeTick, Loop!TakeReloadTick, Loop!BuildFails,
         Loop!SkipScan, Loop!vars
    <3> QED
      BY <3>1, <2>5
  <2>7. ASSUME NEW S \in SUBSET Markets, Loop!BuildIgnored(S) PROVE Loop!OnlyCurrentMarkets'
    BY <2>7, <2>5 DEF Loop!BuildIgnored
  <2> QED
    BY <2>1, <2>2, <2>3, <2>4, <2>6, <2>7 DEF Loop!Next, Loop!Selects, Loop!Builds
<1> QED
  BY <1>1, <1>2, PTL DEF Loop!Spec

(***************************************************************************)
(* The merging of reload requests within the minimum interval loses none   *)
(* of the changes the marker has noted.  The types are needed: what a      *)
(* build loads is at least as new as the marker.                           *)
(***************************************************************************)
THEOREM ChangesKept ==
  ASSUME Loop!LoopAssumption
  PROVE  Loop!Spec => []Loop!NoChangeForgotten
<1>1. Loop!Init => Loop!NoChangeForgotten
  BY DEF Loop!Init, Loop!NoChangeForgotten
<1>2. Loop!TypeOK /\ Loop!NoChangeForgotten /\ [Loop!Next]_(Loop!vars) => Loop!NoChangeForgotten'
  <2> SUFFICES ASSUME Loop!TypeOK, Loop!NoChangeForgotten, [Loop!Next]_(Loop!vars) PROVE Loop!NoChangeForgotten'
    OBVIOUS
  <2>0. rev \in Nat /\ marker \in Nat /\ loaded \in Nat /\ bootRev \in Nat
        /\ marker <= rev /\ loaded <= rev
    BY DEF Loop!LoopAssumption, Loop!TypeOK
  <2>1. CASE Loop!ReadMarker
    BY <2>1 DEF Loop!ReadMarker, Loop!NoChangeForgotten
  <2>2. CASE Loop!TakeReloadTick
    <3>1. marker' = rev /\ loaded' = loaded /\ bootRev' = bootRev
      BY <2>2 DEF Loop!TakeReloadTick, Loop!history
    <3>2. CASE pending \/ marker # rev
      <4>1. pending' \/ phase' = "reload"
        BY <2>2, <3>2 DEF Loop!TakeReloadTick, Loop!PendingAfter
      <4> QED
        BY <4>1 DEF Loop!NoChangeForgotten
    <3>3. CASE ~pending /\ marker = rev
      <4>1. phase = "select" /\ phase # "boot" /\ phase # "reload"
        BY <2>2 DEF Loop!TakeReloadTick
      <4>2. loaded < marker => marker = bootRev
        BY <3>3, <4>1 DEF Loop!NoChangeForgotten
      <4> QED
        BY <3>1, <3>3, <4>2 DEF Loop!NoChangeForgotten
    <3> QED
      BY <3>2, <3>3
  <2>3. CASE Loop!BuildFails \/ \E S \in SUBSET Markets : Loop!BuildIgnored(S) \/ Loop!Reload(S)
    <3>1. loaded' = rev /\ marker' = marker
      BY <2>3 DEF Loop!BuildFails, Loop!BuildIgnored, Loop!Reload, Loop!BuildEnds
    <3> QED
      BY <2>0, <3>1 DEF Loop!NoChangeForgotten
  <2>4. CASE Loop!WriteSnapshot \/ Loop!Elapse \/ \E m \in Markets : Loop!Deliver(m)
    <3>1. UNCHANGED <<phase, loaded, marker, bootRev, pending>>
      BY <2>4 DEF Loop!WriteSnapshot, Loop!Elapse, Loop!TickPasses, Loop!ReloadPasses, Loop!IntervalPasses,
         Loop!ScanTimePasses, Loop!Untimed, Loop!Deliver, Loop!history
    <3> QED
      BY <3>1 DEF Loop!NoChangeForgotten
  <2>5. CASE Loop!TakeUpdates \/ Loop!TakeTick \/ Loop!Scan \/ Loop!SkipScan
    <3>1. UNCHANGED <<loaded, marker, bootRev, pending>> /\ phase \in {"select", "scan"}
      BY <2>5 DEF Loop!TakeUpdates, Loop!TakeTick, Loop!Scan, Loop!SkipScan, Loop!history
    <3> QED
      BY <3>1 DEF Loop!NoChangeForgotten
  <2>6. CASE UNCHANGED Loop!vars
    BY <2>6 DEF Loop!NoChangeForgotten, Loop!vars, Loop!history
  <2> QED
    BY <2>1, <2>2, <2>3, <2>4, <2>5, <2>6 DEF Loop!Next, Loop!Selects, Loop!Builds
<1> QED
  BY <1>1, <1>2, LoopTypesHold, PTL DEF Loop!Spec

=============================================================================
