------------------------- MODULE MarketStateProofs -------------------------
(* Proofs about MarketState for every set of pools, every choice of their  *)
(* venues, every limit and every number of writes.                         *)
EXTENDS MarketState, FiniteSetTheorems, TLAPS

LEMMA VersionFacts ==
  /\ Versions \subseteq Nat /\ IsFiniteSet(Versions)
  /\ 0 \in Versions
  /\ \A k \in {"pool", "vault"}, n \in Nat : n <= MaxVersion[k] => n \in Versions
<1>1. MaxVersion["pool"] \in Nat /\ MaxVersion["vault"] \in Nat
  BY MarketAssumption
<1>2. Versions = (0..MaxVersion["pool"]) \cup (0..MaxVersion["vault"])
  BY DEF Versions
<1>3. IsFiniteSet(0..MaxVersion["pool"]) /\ IsFiniteSet(0..MaxVersion["vault"])
  <2>1. \A n \in Nat : IsFiniteSet(0..n)
    BY FS_Interval
  <2> QED
    BY <1>1, <2>1
<1>4. IsFiniteSet(Versions)
  BY <1>2, <1>3, FS_Union
<1> QED
  BY <1>1, <1>2, <1>4

LEMMA Keys ==
  /\ \A p \in Pools : <<"pool", p>> \in Accounts /\ <<"vault", p>> \in Accounts
  /\ \A k \in Accounts : k[1] \in {"pool", "vault"} /\ k[2] \in Pools /\ k = <<k[1], k[2]>>
  BY DEF Accounts

(* An account below its bound has a next version. *)
LEMMA NextVersion ==
  ASSUME NEW k \in Accounts, chain[k] \in Versions, chain[k] < MaxVersion[k[1]]
  PROVE  chain[k] + 1 \in Versions
<1>1. MaxVersion[k[1]] \in Nat
  BY Keys, MarketAssumption
<1> QED
  BY <1>1, VersionFacts, Keys

(* What a read of the RPC returns is no newer than the chain. *)
LEMMA ReadingFacts ==
  ASSUME NEW kind, NEW P, NEW seen \in Readings(kind, P)
  PROVE  /\ DOMAIN seen = P
         /\ \A p \in P : seen[p] \in Versions /\ seen[p] \in 0..chain[<<kind, p>>]
  BY DEF Readings, Readable

-----------------------------------------------------------------------------
(* Type correctness. *)

LEMMA InitType == Init => TypeOK
<1> SUFFICES ASSUME Init PROVE TypeOK
  OBVIOUS
<1>1. /\ chain \in [Accounts -> Versions] /\ base \in [Accounts -> Versions]
      /\ box \in [Accounts -> Versions] /\ taken \in [Accounts -> Versions]
  BY VersionFacts DEF Init
<1>2. \A k \in Accounts : taken[k] <= box[k] /\ box[k] <= chain[k]
  BY DEF Init
<1>3. held \in [Accounts -> Versions \cup {None}]
  BY DEF Init
<1>4. DOMAIN batch = {}
  BY DEF Init
<1> QED
  BY <1>1, <1>2, <1>3, <1>4 DEF Init, TypeOK

LEMMA WriteType ==
  ASSUME TypeOK, NEW k \in Accounts, Write(k)
  PROVE  TypeOK'
<1>1. chain[k] + 1 \in Versions
  BY NextVersion DEF Write, TypeOK
<1>2. chain' \in [Accounts -> Versions] /\ box' \in [Accounts -> Versions]
  BY <1>1 DEF Write, TypeOK
<1>3. \A j \in Accounts : taken'[j] <= box'[j] /\ box'[j] <= chain'[j]
  <2> SUFFICES ASSUME NEW j \in Accounts PROVE taken'[j] <= box'[j] /\ box'[j] <= chain'[j]
    OBVIOUS
  <2>1. taken[j] \in Nat /\ box[j] \in Nat /\ chain[j] \in Nat
    BY VersionFacts DEF TypeOK
  <2>2. taken[j] <= box[j] /\ box[j] <= chain[j]
    BY DEF TypeOK
  <2> QED
    BY <2>1, <2>2 DEF Write, TypeOK
<1> QED
  BY <1>2, <1>3 DEF Write, TypeOK, fixed, maps, rpc

LEMMA LoadType ==
  ASSUME TypeOK,
         \/ \E S \in (SUBSET Pools) \ {{}} : \E found \in SUBSET S :
                \E seen \in Readings("pool", found) : LoadPools(S, seen)
         \/ \E V \in SUBSET vaultMap, A \in SUBSET tracked :
                \E seen \in Readings("vault", V) : LoadSupport(seen, A)
         \/ Subscribe \/ Reload
  PROVE  TypeOK'
<1>1. ASSUME NEW S \in (SUBSET Pools) \ {{}}, NEW found \in SUBSET S,
             NEW seen \in Readings("pool", found), LoadPools(S, seen)
      PROVE  TypeOK'
  <2>1. DOMAIN seen = found /\ \A p \in found : seen[p] \in Versions
    BY ReadingFacts
  <2>2. held' = [k \in Accounts |->
                   IF k[1] = "pool" /\ k[2] \in found THEN seen[k[2]] ELSE None]
    BY <1>1, <2>1 DEF LoadPools
  <2>3. held' \in [Accounts -> Versions \cup {None}]
    BY <2>1, <2>2
  <2>4. index' \subseteq Pools /\ vaultMap' \subseteq Pools
    BY <1>1, <2>1 DEF LoadPools, VaultsOf
  <2>5. tracked' \subseteq Places
    <3>1. tracked' = {<<p, seen[p]>> : p \in {q \in found : HasArrays(q)}}
      BY <1>1, <2>1 DEF LoadPools
    <3>2. \A p \in {q \in found : HasArrays(q)} : <<p, seen[p]>> \in Places
      BY <2>1 DEF Places
    <3> QED
      BY <3>1, <3>2
  <2>6. atLoad' \subseteq listed' /\ listed' \subseteq Pools
    BY <1>1 DEF LoadPools
  <2> QED
    BY <1>1, <2>3, <2>4, <2>5, <2>6 DEF LoadPools, TypeOK, channel
<1>2. ASSUME NEW V \in SUBSET vaultMap, NEW A \in SUBSET tracked,
             NEW seen \in Readings("vault", V), LoadSupport(seen, A)
      PROVE  TypeOK'
  <2>1. DOMAIN seen = V /\ \A p \in V : seen[p] \in Versions
    BY ReadingFacts
  <2>2. held' = [k \in Accounts |->
                   IF k[1] = "vault" /\ k[2] \in V THEN seen[k[2]] ELSE held[k]]
    BY <1>2, <2>1 DEF LoadSupport
  <2>3. held' \in [Accounts -> Versions \cup {None}]
    BY <2>1, <2>2 DEF TypeOK
  <2> QED
    BY <1>2, <2>3 DEF LoadSupport, TypeOK, fixed, maps, channel, rpc
<1>3. CASE Subscribe
  <2>1. \A k \in Accounts : chain[k] \in Nat
    BY VersionFacts DEF TypeOK
  <2>2. followed' \subseteq Accounts
    BY <1>3 DEF Subscribe, TypeOK, Accounts
  <2>3. dirty' \in BOOLEAN
    BY <1>3 DEF Subscribe, Route
  <2> QED
    BY <1>3, <2>1, <2>2, <2>3 DEF Subscribe, NewChannel, TypeOK, maps, rpc
<1>4. CASE Reload
  BY <1>4 DEF Reload, TypeOK, fixed, maps, channel, rpc
<1> QED
  BY <1>1, <1>2, <1>3, <1>4

LEMMA RoundType ==
  ASSUME TypeOK,
         \/ \E D \in SUBSET Pending : Drain(D)
         \/ \E x \in arrayBox : ArrayUpdate(x)
         \/ BatchDone \/ Scan
         \/ \E x \in arraysFollowed : WriteArray(x)
  PROVE  TypeOK'
<1>1. ASSUME NEW D \in SUBSET Pending, Drain(D)
      PROVE  TypeOK'
  <2>1. D \subseteq Accounts
    BY DEF Pending
  <2>2. batch' \in [D -> Versions]
    BY <1>1 DEF Drain
  <2>3. taken' \in [Accounts -> Versions]
    BY <1>1, <2>1, <2>2 DEF Drain, TypeOK
  <2>4. \A k \in Accounts : taken'[k] <= box[k]
    BY <1>1 DEF Drain, TypeOK
  <2> QED
    BY <1>1, <2>1, <2>2, <2>3, <2>4 DEF Drain, TypeOK, fixed, maps, rpc
<1>2. ASSUME NEW x \in arrayBox, ArrayUpdate(x)
      PROVE  TypeOK'
  BY <1>2 DEF ArrayUpdate, TypeOK, fixed, maps, rpc
<1>3. CASE BatchDone \/ Scan
  BY <1>3 DEF BatchDone, Scan, TypeOK, fixed, maps, channel, rpc
<1>4. ASSUME NEW x \in arraysFollowed, WriteArray(x)
      PROVE  TypeOK'
  BY <1>4 DEF WriteArray, TypeOK, fixed, maps, rpc
<1> QED
  BY <1>1, <1>2, <1>3, <1>4

(* What is left of the batch after one of its updates. *)
LEMMA ProcessType ==
  ASSUME TypeOK, NEW k, Process(k)
  PROVE  /\ k \in Accounts /\ batch[k] \in Versions
         /\ DOMAIN batch' = DOMAIN batch \ {k}
         /\ \A j \in DOMAIN batch' : batch'[j] = batch[j]
         /\ DOMAIN batch' \subseteq Accounts
         /\ \A j \in DOMAIN batch' : batch'[j] \in Versions
  BY DEF Process, TypeOK

LEMMA UpdateType ==
  ASSUME TypeOK, NEW p \in Pools, PoolUpdate(p) \/ VaultUpdate(p)
  PROVE  TypeOK'
<1>1. CASE PoolUpdate(p)
  <2> DEFINE k == <<"pool", p>>
  <2>1. Process(k)
    BY <1>1 DEF PoolUpdate
  <2> HIDE DEF k
  <2>2. /\ k \in Accounts /\ batch[k] \in Versions
        /\ DOMAIN batch' \subseteq Accounts
        /\ \A j \in DOMAIN batch' : batch'[j] \in Versions
    BY <2>1, ProcessType
  <2>3. /\ held' = [held EXCEPT ![k] = batch[k]]
        /\ index' \in {index \cup {p}, index \ {p}}
        /\ vaultMap' = vaultMap \cup VaultsOf({p})
        /\ tracked' = Track(p, batch[k])
        /\ dirty' = TRUE
        /\ \/ /\ \E H \in Limited(index') : todo' = H \ done
              /\ phase' = IF todo' = {} THEN "batch" ELSE "hydrate"
           \/ UNCHANGED <<todo, phase>>
        /\ UNCHANGED <<fixed, chain, arrays, channel, done, answer, overtaken>>
    BY <1>1 DEF PoolUpdate, k
  <2>4. held' \in [Accounts -> Versions \cup {None}]
    BY <2>2, <2>3 DEF TypeOK
  <2>5. index' \subseteq Pools
    BY <2>3 DEF TypeOK
  <2>6. vaultMap' \subseteq Pools
    BY <2>3 DEF TypeOK, VaultsOf
  <2>7. tracked' \subseteq Places
    <3>1. <<p, batch[k]>> \in Places
      BY <2>2 DEF Places
    <3> QED
      BY <2>3, <3>1 DEF Track, TypeOK
  <2>8. todo' \subseteq Pools /\ phase' \in {phase, "batch", "hydrate"}
    <3>1. \A H \in Limited(index') : H \subseteq Pools
      BY <2>5 DEF Limited
    <3> QED
      BY <2>3, <3>1 DEF TypeOK
  <2> QED
    BY <2>2, <2>3, <2>4, <2>5, <2>6, <2>7, <2>8 DEF TypeOK, fixed, channel
<1>2. CASE VaultUpdate(p)
  <2> DEFINE k == <<"vault", p>>
  <2>1. Process(k)
    BY <1>2 DEF VaultUpdate
  <2> HIDE DEF k
  <2>2. /\ k \in Accounts /\ batch[k] \in Versions
        /\ DOMAIN batch' \subseteq Accounts
        /\ \A j \in DOMAIN batch' : batch'[j] \in Versions
    BY <2>1, ProcessType
  <2>3. /\ held' \in {held, [held EXCEPT ![k] = batch[k]]}
        /\ dirty' \in {dirty, TRUE}
        /\ overtaken' \in {overtaken, overtaken \ {p}}
        /\ UNCHANGED <<fixed, chain, phase, maps, arrays, channel, done, todo, answer>>
    BY <1>2 DEF VaultUpdate, Mark, k
  <2>4. held' \in [Accounts -> Versions \cup {None}]
    BY <2>2, <2>3 DEF TypeOK
  <2> QED
    BY <2>2, <2>3, <2>4 DEF TypeOK, fixed, maps, channel, rpc
<1> QED
  BY <1>1, <1>2

LEMMA AskType ==
  ASSUME TypeOK,
         \/ \E p \in todo : Ask(p)
         \/ \E A \in SUBSET tracked : Answer(A)
         \/ AnswerFails
  PROVE  TypeOK'
<1>1. ASSUME NEW p \in todo, Ask(p)
      PROVE  TypeOK'
  <2>1. p \in Pools /\ <<"vault", p>> \in Accounts
    BY Keys DEF TypeOK
  <2>2. \A v \in Readable(<<"vault", p>>) : v \in Versions
    <3>1. chain[<<"vault", p>>] \in Versions
      BY <2>1 DEF TypeOK
    <3> QED
      BY <3>1, MarketAssumption DEF Readable, Versions
  <2>3. answer' \in [pool : Pools, reserve : Versions]
    BY <1>1, <2>1, <2>2 DEF Ask
  <2> QED
    BY <1>1, <2>3 DEF Ask, TypeOK, fixed, maps, channel
<1>2. ASSUME NEW A \in SUBSET tracked, Answer(A)
      PROVE  TypeOK'
  <2>1. answer.pool \in Pools /\ answer.reserve \in Versions
    BY <1>2 DEF Answer, TypeOK
  <2>2. <<"vault", answer.pool>> \in Accounts
    BY <2>1, Keys
  <2>3. held' \in [Accounts -> Versions \cup {None}] /\ overtaken' \subseteq Pools
    BY <1>2, <2>1, <2>2 DEF Answer, TypeOK
  <2> QED
    BY <1>2, <2>3 DEF Answer, Hydrated, TypeOK, fixed, maps, channel
<1>3. CASE AnswerFails
  BY <1>3 DEF AnswerFails, Hydrated, TypeOK, fixed, maps, channel
<1> QED
  BY <1>1, <1>2, <1>3

LEMMA TypeStep == TypeOK /\ [Next]_vars => TypeOK'
<1> SUFFICES ASSUME TypeOK, [Next]_vars PROVE TypeOK'
  OBVIOUS
<1>1. CASE Loads
  BY <1>1, LoadType DEF Loads
<1>2. CASE Updates
  BY <1>2, RoundType, UpdateType DEF Updates
<1>3. CASE Asks
  BY <1>3, AskType DEF Asks
<1>4. CASE \E k \in Accounts : Write(k)
  BY <1>4, WriteType
<1>5. CASE \E x \in arraysFollowed : WriteArray(x)
  BY <1>5, RoundType
<1>6. CASE UNCHANGED vars
  BY <1>6 DEF vars, fixed, maps, channel, rpc, TypeOK
<1> QED
  BY <1>1, <1>2, <1>3, <1>4, <1>5, <1>6 DEF Next

-----------------------------------------------------------------------------
(* The indexes.  IndexesAgree is inductive over the types: what follows    *)
(* shows it conjunct by conjunct.                                          *)

Loading == phase \in {"load", "support", "subscribe"}

MapsOfKnown ==
    /\ index \subseteq {p \in Pools : Known(p)}
    /\ vaultMap = {p \in Pools : Known(p) /\ HasVault(p)}
    /\ \A x \in tracked : Known(x[1]) /\ HasArrays(x[1])
    /\ arrays \subseteq tracked

FollowedAreMapped ==
    ~Loading => /\ \A p \in Pools : <<"vault", p>> \in followed => p \in vaultMap
                /\ arraysFollowed \subseteq tracked

Own(p) == {x \in tracked : x[1] = p}

WithinCaps == \A p \in Pools : Capped(p) => Cardinality(Own(p)) <= MaxTracked

LEMMA IndexParts == IndexesAgree <=> MapsOfKnown /\ FollowedAreMapped /\ WithinCaps
  BY DEF IndexesAgree, MapsOfKnown, FollowedAreMapped, WithinCaps, Own, Loading

(* A pool tracks finitely many positions. *)
LEMMA OwnFinite ==
  ASSUME TypeOK, NEW p \in Pools
  PROVE  IsFiniteSet(Own(p))
<1>1. IsFiniteSet({p} \X Versions)
  BY VersionFacts, FS_Singleton, FS_Product
<1>2. Own(p) \in SUBSET ({p} \X Versions)
  BY DEF Own, TypeOK, Places
<1> QED
  BY <1>1, <1>2, FS_Subset

(* Tracking one position more stays within the cap of every pool: the      *)
(* position is added only below it.                                        *)
LEMMA TrackWithinCap ==
  ASSUME TypeOK, WithinCaps, NEW p \in Pools, NEW v,
         tracked' = Track(p, v), venue' = venue
  PROVE  WithinCaps'
<1> SUFFICES ASSUME NEW q \in Pools, Capped(q)
             PROVE  Cardinality(Own(q)') <= MaxTracked
  BY DEF WithinCaps, Capped
<1>1. Cardinality(Own(q)) <= MaxTracked
  BY DEF WithinCaps
<1>2. CASE Own(q)' = Own(q)
  BY <1>1, <1>2
<1>3. CASE Own(q)' # Own(q)
  <2>1. tracked' = tracked \cup {<<p, v>>} /\ (Capped(p) => Cardinality(Own(p)) < MaxTracked)
    BY <1>3 DEF Track, Own
  <2>2. q = p
    BY <1>3, <2>1 DEF Own
  <2>3. Own(q)' = Own(q) \cup {<<p, v>>}
    BY <2>1, <2>2 DEF Own
  <2>4. IsFiniteSet(Own(q))
    BY OwnFinite
  <2>5. Cardinality(Own(q)) \in Nat
    BY <2>4, FS_CardinalityType
  <2>6. Cardinality(Own(q)') \in {Cardinality(Own(q)), Cardinality(Own(q)) + 1}
    BY <2>3, <2>4, FS_AddElement
  <2>7. MaxTracked \in Nat
    BY MarketAssumption
  <2> QED
    BY <2>1, <2>2, <2>5, <2>6, <2>7
<1> QED
  BY <1>2, <1>3

LEMMA InitIndexes == Init => IndexesAgree
<1> SUFFICES ASSUME Init PROVE IndexesAgree
  OBVIOUS
<1>1. \A p \in Pools : ~Known(p)
  BY Keys DEF Init, Known
<1>2. \A p \in Pools : Own(p) = {}
  BY DEF Init, Own
<1>3. WithinCaps
  BY <1>2, FS_EmptySet, MarketAssumption DEF WithinCaps
<1>4. MapsOfKnown /\ FollowedAreMapped
  BY <1>1 DEF Init, MapsOfKnown, FollowedAreMapped, Loading
<1> QED
  BY <1>3, <1>4, IndexParts

LEMMA LoadIndexes ==
  ASSUME TypeOK, IndexesAgree,
         NEW S \in (SUBSET Pools) \ {{}}, NEW found \in SUBSET S,
             NEW seen \in Readings("pool", found), LoadPools(S, seen)
  PROVE  IndexesAgree'
<1>1. DOMAIN seen = found /\ \A p \in found : seen[p] \in Versions
  BY ReadingFacts
<1>2. \A p \in Pools : Known(p)' <=> p \in found
  <2> SUFFICES ASSUME NEW p \in Pools PROVE Known(p)' <=> p \in found
    OBVIOUS
  <2>1. <<"pool", p>> \in Accounts
    BY Keys
  <2>2. held'[<<"pool", p>>] = IF p \in found THEN seen[p] ELSE None
    BY <1>1, <2>1 DEF LoadPools
  <2> QED
    BY <2>2, <1>1, MarketAssumption DEF Known
<1>3. venue' = venue /\ phase' = "support"
  BY DEF LoadPools
<1>4. \A x \in tracked' :
         x[1] \in found /\ HasArrays(x[1]) /\ x = <<x[1], seen[x[1]]>>
  <2> DEFINE Q == {q \in found : HasArrays(q)}
  <2>1. tracked' = {<<p, seen[p]>> : p \in Q}
    BY <1>1 DEF LoadPools
  <2> SUFFICES ASSUME NEW x \in tracked'
               PROVE  x[1] \in Q /\ x = <<x[1], seen[x[1]]>>
    OBVIOUS
  <2> HIDE DEF Q
  <2>2. PICK p \in Q : x = <<p, seen[p]>>
    BY <2>1
  <2>3. x[1] = p
    BY <2>2
  <2> QED
    BY <2>2, <2>3
<1>5. MapsOfKnown'
  <2>1. index' \subseteq found /\ vaultMap' = {p \in found : HasVault(p)} /\ arrays' = {}
    BY <1>1 DEF LoadPools, VaultsOf
  <2>2. \A x \in tracked' : x[1] \in found /\ HasArrays(x[1])
    BY <1>4
  <2> QED
    BY <1>2, <1>3, <2>1, <2>2 DEF MapsOfKnown, HasVault, HasArrays
<1>6. FollowedAreMapped'
  BY <1>3 DEF FollowedAreMapped, Loading
<1>7. WithinCaps'
  <2> SUFFICES ASSUME NEW p \in Pools PROVE Cardinality(Own(p)') <= MaxTracked
    BY DEF WithinCaps
  <2> DEFINE one == {<<p, seen[p]>>}
  <2>1. Own(p)' \in SUBSET one
    <3>1. \A x \in Own(p)' : x \in tracked' /\ x[1] = p
      BY DEF Own
    <3>2. \A x \in Own(p)' : x = <<p, seen[p]>>
      BY <1>4, <3>1
    <3> QED
      BY <3>2
  <2>2. IsFiniteSet(one) /\ Cardinality(one) = 1
    BY FS_Singleton
  <2> HIDE DEF one
  <2>3. Cardinality(Own(p)') <= 1
    BY <2>1, <2>2, FS_Subset
  <2>4. IsFiniteSet(Own(p)')
    BY <2>1, <2>2, FS_Subset
  <2>5. Cardinality(Own(p)') \in Nat
    BY <2>4, FS_CardinalityType
  <2> QED
    BY <2>3, <2>5, MarketAssumption
<1> QED
  BY <1>5, <1>6, <1>7, IndexParts, PTL

(* An action that makes no pool known or unknown and leaves the indexes.   *)
LEMMA SameIndexes ==
  ASSUME TypeOK, IndexesAgree, UNCHANGED <<venue, maps>>, arrays' \subseteq tracked,
         \A p \in Pools : held'[<<"pool", p>>] = held[<<"pool", p>>],
         FollowedAreMapped'
  PROVE  IndexesAgree'
<1>1. MapsOfKnown' /\ WithinCaps'
  <2>1. MapsOfKnown /\ WithinCaps
    BY IndexParts
  <2>2. \A p \in Pools : Known(p)' <=> Known(p)
    BY DEF Known
  <2>3. venue' = venue /\ index' = index /\ vaultMap' = vaultMap /\ tracked' = tracked
    BY DEF maps
  <2>4. MapsOfKnown'
    <3>1. \A x \in tracked' : Known(x[1])' /\ HasArrays(x[1])'
      <4> SUFFICES ASSUME NEW x \in tracked' PROVE Known(x[1])' /\ HasArrays(x[1])'
        OBVIOUS
      <4>1. x \in tracked /\ x[1] \in Pools
        BY <2>3 DEF TypeOK, Places
      <4>2. Known(x[1]) /\ HasArrays(x[1])
        BY <2>1, <4>1 DEF MapsOfKnown
      <4> QED
        BY <2>2, <2>3, <4>1, <4>2 DEF HasArrays
    <3> QED
      BY <2>1, <2>2, <2>3, <3>1 DEF MapsOfKnown, HasVault
  <2>5. WithinCaps'
    BY <2>1, <2>3 DEF WithinCaps, Own, Capped
  <2> QED
    BY <2>4, <2>5
<1> QED
  BY <1>1, IndexParts, PTL

(* Asking changes nothing but what is asked for. *)
LEMMA AskKeeps ==
  ASSUME NEW p, Ask(p)
  PROVE  /\ phase = "hydrate"
         /\ UNCHANGED <<fixed, chain, phase, held, maps, arrays, channel, batch,
                        overtaken, dirty>>
  BY DEF Ask

LEMMA SameFollowed ==
  ASSUME IndexesAgree, UNCHANGED <<followed, arraysFollowed, vaultMap, tracked>>,
         Loading' = Loading
  PROVE  FollowedAreMapped'
  BY IndexParts DEF FollowedAreMapped

LEMMA OtherIndexes ==
  ASSUME TypeOK, IndexesAgree,
         \/ \E V \in SUBSET vaultMap, A \in SUBSET tracked :
                \E seen \in Readings("vault", V) : LoadSupport(seen, A)
         \/ Subscribe \/ Reload
         \/ \E D \in SUBSET Pending : Drain(D)
         \/ \E p \in Pools : VaultUpdate(p)
         \/ \E x \in arrayBox : ArrayUpdate(x)
         \/ BatchDone \/ Scan
         \/ \E p \in todo : Ask(p)
         \/ \E A \in SUBSET tracked : Answer(A)
         \/ AnswerFails
         \/ \E k \in Accounts : Write(k)
         \/ \E x \in arraysFollowed : WriteArray(x)
         \/ UNCHANGED vars
  PROVE  IndexesAgree'
<1> USE DEF fixed, maps, channel, rpc
<1>a. arrays \subseteq tracked /\ vaultMap \subseteq Pools /\ tracked \subseteq Places
  BY DEF IndexesAgree, TypeOK
<1>b. held \in [Accounts -> Versions \cup {None}]
  BY DEF TypeOK
<1>1. CASE \E V \in SUBSET vaultMap, A \in SUBSET tracked :
                \E seen \in Readings("vault", V) : LoadSupport(seen, A)
  <2>1. \A p \in Pools : held'[<<"pool", p>>] = held[<<"pool", p>>]
    BY <1>1, Keys DEF LoadSupport
  <2>2. FollowedAreMapped' /\ UNCHANGED <<venue, maps>> /\ arrays' \subseteq tracked
    BY <1>1 DEF LoadSupport, FollowedAreMapped, Loading
  <2> QED
    BY <2>1, <2>2, SameIndexes
<1>2. CASE Subscribe
  <2>1. FollowedAreMapped'
    <3>1. /\ followed' = ({"pool"} \X listed) \cup ({"vault"} \X vaultMap)
          /\ arraysFollowed' = tracked /\ UNCHANGED maps
      BY <1>2 DEF Subscribe
    <3>2. \A p : <<"vault", p>> \in followed' => p \in vaultMap
      BY <3>1
    <3> QED
      BY <3>1, <3>2 DEF FollowedAreMapped
  <2>2. UNCHANGED <<venue, maps, held, arrays>>
    BY <1>2 DEF Subscribe
  <2> QED
    BY <1>a, <2>1, <2>2, SameIndexes
<1>3. CASE Reload
  <2>1. FollowedAreMapped' /\ UNCHANGED <<venue, maps, held, arrays>>
    BY <1>3 DEF Reload, FollowedAreMapped, Loading
  <2> QED
    BY <1>a, <2>1, SameIndexes
<1>4. CASE \/ \E D \in SUBSET Pending : Drain(D)
           \/ BatchDone \/ Scan
           \/ \E p \in todo : Ask(p)
           \/ AnswerFails
           \/ \E k \in Accounts : Write(k)
           \/ \E x \in arraysFollowed : WriteArray(x)
           \/ UNCHANGED vars
  <2>1. UNCHANGED <<venue, maps, held, arrays, followed, arraysFollowed>> /\ Loading' = Loading
    BY <1>4, AskKeeps DEF Drain, BatchDone, Scan, AnswerFails, Hydrated, Write, WriteArray, vars, Loading
  <2> QED
    BY <1>a, <2>1, SameFollowed, SameIndexes
<1>5. ASSUME NEW p \in Pools, VaultUpdate(p)
      PROVE  IndexesAgree'
  <2>1. UNCHANGED <<venue, maps, arrays, followed, arraysFollowed, phase>>
    BY <1>5 DEF VaultUpdate
  <2>2. held' \in {held, [held EXCEPT ![<<"vault", p>>] = batch[<<"vault", p>>]]}
    BY <1>5 DEF VaultUpdate
  <2>3. \A q \in Pools : held'[<<"pool", q>>] = held[<<"pool", q>>]
    BY <1>b, <2>2, Keys
  <2> QED
    BY <1>a, <2>1, <2>3, SameFollowed, SameIndexes DEF Loading
<1>6. ASSUME NEW x \in arrayBox, ArrayUpdate(x)
      PROVE  IndexesAgree'
  <2>1. UNCHANGED <<venue, maps, held, followed, arraysFollowed, phase>>
    BY <1>6 DEF ArrayUpdate
  <2>2. x \in tracked
    BY <1>6 DEF ArrayUpdate, TypeOK, IndexesAgree
  <2>3. arrays' \subseteq tracked
    BY <1>a, <1>6, <2>2 DEF ArrayUpdate
  <2> QED
    BY <2>1, <2>3, SameFollowed, SameIndexes DEF Loading
<1>7. ASSUME NEW A \in SUBSET tracked, Answer(A)
      PROVE  IndexesAgree'
  <2>1. UNCHANGED <<venue, maps, followed, arraysFollowed>> /\ Loading' = Loading
    BY <1>7 DEF Answer, Hydrated, Loading
  <2>2. held' \in {held, [held EXCEPT ![<<"vault", answer.pool>>] = answer.reserve]}
    BY <1>7 DEF Answer
  <2>3. \A q \in Pools : held'[<<"pool", q>>] = held[<<"pool", q>>]
    BY <1>b, <2>2, Keys
  <2>4. arrays' \subseteq tracked
    BY <1>a, <1>7 DEF Answer
  <2> QED
    BY <2>1, <2>3, <2>4, SameFollowed, SameIndexes
<1> QED
  BY <1>1, <1>2, <1>3, <1>4, <1>5, <1>6, <1>7

(* The update of a pool makes it known and enters it everywhere. *)
LEMMA PoolUpdateIndexes ==
  ASSUME TypeOK, IndexesAgree, NEW p \in Pools, PoolUpdate(p)
  PROVE  IndexesAgree'
<1> DEFINE k == <<"pool", p>>
           v == batch[k]
<1>1. k \in Accounts /\ v \in Versions /\ v # None
  <2>1. Process(k)
    BY DEF PoolUpdate
  <2> HIDE DEF k
  <2> QED
    BY <2>1, ProcessType, MarketAssumption
<1>2. /\ held' = [held EXCEPT ![k] = v]
      /\ index' \in {index \cup {p}, index \ {p}}
      /\ vaultMap' = vaultMap \cup VaultsOf({p})
      /\ tracked' = Track(p, v)
      /\ UNCHANGED <<venue, followed, arraysFollowed, arrays>>
  BY DEF PoolUpdate, fixed
<1>3. Loading' = Loading
  BY DEF PoolUpdate, Process, Loading
<1> HIDE DEF v
<1>4. \A q \in Pools : Known(q)' <=> Known(q) \/ q = p
  <2> SUFFICES ASSUME NEW q \in Pools PROVE Known(q)' <=> Known(q) \/ q = p
    OBVIOUS
  <2>1. <<"pool", q>> \in Accounts
    BY Keys
  <2>2. held'[<<"pool", q>>] = IF q = p THEN v ELSE held[<<"pool", q>>]
    BY <1>2, <2>1 DEF TypeOK
  <2> QED
    BY <1>1, <2>2 DEF Known
<1>5. tracked \subseteq tracked' /\ \A x \in tracked' : x \in tracked \/ (x = <<p, v>> /\ HasArrays(p))
  BY <1>2 DEF Track
<1>6. MapsOfKnown'
  <2>1. MapsOfKnown
    BY IndexParts
  <2>2. \A x \in tracked' : x[1] \in Pools /\ Known(x[1])' /\ HasArrays(x[1])'
    <3> SUFFICES ASSUME NEW x \in tracked'
                 PROVE  x[1] \in Pools /\ Known(x[1])' /\ HasArrays(x[1])'
      OBVIOUS
    <3>1. CASE x \in tracked
      <4>1. x[1] \in Pools
        BY <3>1 DEF TypeOK, Places
      <4> QED
        BY <1>2, <1>4, <2>1, <3>1, <4>1 DEF MapsOfKnown, HasArrays
    <3>2. CASE x = <<p, v>> /\ HasArrays(p)
      BY <1>2, <1>4, <3>2 DEF HasArrays
    <3> QED
      BY <1>5, <3>1, <3>2
  <2>3. VaultsOf({p}) = {q \in {p} : HasVault(q)} /\ \A q : HasVault(q)' <=> HasVault(q)
    BY <1>2 DEF VaultsOf, HasVault
  <2>4. vaultMap' = {q \in Pools : Known(q)' /\ HasVault(q)'}
    BY <1>2, <1>4, <2>1, <2>3 DEF MapsOfKnown
  <2>5. index' \subseteq {q \in Pools : Known(q)'}
    BY <1>2, <1>4, <2>1 DEF MapsOfKnown
  <2>6. arrays' \subseteq tracked'
    BY <1>2, <1>5, <2>1 DEF MapsOfKnown
  <2> QED
    BY <2>2, <2>4, <2>5, <2>6 DEF MapsOfKnown
<1>7. FollowedAreMapped'
  BY <1>2, <1>3, <1>5, IndexParts DEF FollowedAreMapped
<1>8. WithinCaps'
  BY <1>2, TrackWithinCap, IndexParts
<1> QED
  BY <1>6, <1>7, <1>8, IndexParts, PTL

LEMMA IndexStep == TypeOK /\ IndexesAgree /\ [Next]_vars => IndexesAgree'
<1> SUFFICES ASSUME TypeOK, IndexesAgree, [Next]_vars PROVE IndexesAgree'
  OBVIOUS
<1>1. CASE Loads
  BY <1>1, LoadIndexes, OtherIndexes DEF Loads
<1>2. CASE Updates
  BY <1>2, PoolUpdateIndexes, OtherIndexes DEF Updates
<1>3. CASE Asks
  BY <1>3, OtherIndexes DEF Asks
<1>4. CASE ~(Loads \/ Updates \/ Asks)
  BY <1>4, OtherIndexes DEF Next
<1> QED
  BY <1>1, <1>2, <1>3, <1>4

(* Types hold of every reachable state of the market, whatever the chain,  *)
(* the stream and the RPC do in between.                                   *)
THEOREM TypesHold == Spec => []TypeOK
  BY InitType, TypeStep, PTL DEF Spec

(* The indexes of hydrate_initial_state, of the stream and of the first    *)
(* sights agree with the known pools, and no pool tracks more arrays than  *)
(* its cap: the pools of a reload replace those before it entirely, and    *)
(* nothing enters an index but with its pool.                              *)
THEOREM IndexesStayInStep == Spec => []IndexesAgree
<1>1. Init => TypeOK /\ IndexesAgree
  BY InitType, InitIndexes
<1>2. (TypeOK /\ IndexesAgree) /\ [Next]_vars => (TypeOK /\ IndexesAgree)'
  BY TypeStep, IndexStep
<1> QED
  BY <1>1, <1>2, PTL DEF Spec

-----------------------------------------------------------------------------
(* The reserves.  A followed account's newest delivered version is the one *)
(* on chain; a drained batch holds the newest taken; and an answer of the  *)
(* RPC is no newer than the chain.                                         *)

Rounds ==
    /\ phase \notin {"batch", "hydrate"} => DOMAIN batch = {}
    /\ phase # "hydrate" => answer = None
    /\ \A k \in followed : box[k] = chain[k]
    /\ \A k \in DOMAIN batch : batch[k] = taken[k]
    /\ answer # None => answer.reserve <= chain[<<"vault", answer.pool>>]

LEMMA InitRounds == Init => Rounds /\ CurrentWhenDrained
  BY DEF Init, Rounds, CurrentWhenDrained, Drained

LEMMA RoundsStep ==
  ASSUME TypeOK, Rounds, [Next]_vars
  PROVE  Rounds'
<1> USE DEF fixed, maps, channel, rpc
<1>a. \A k \in Accounts : taken[k] \in Nat /\ box[k] \in Nat /\ chain[k] \in Nat
  BY VersionFacts DEF TypeOK
<1>b. followed \subseteq Accounts /\ DOMAIN batch \subseteq Accounts
  BY DEF TypeOK
<1>1. ASSUME NEW S \in (SUBSET Pools) \ {{}}, NEW found \in SUBSET S,
             NEW seen \in Readings("pool", found), LoadPools(S, seen)
      PROVE  Rounds'
  BY <1>1 DEF LoadPools, Rounds
<1>2. CASE \/ \E V \in SUBSET vaultMap, A \in SUBSET tracked :
                \E seen \in Readings("vault", V) : LoadSupport(seen, A)
           \/ Reload \/ BatchDone \/ Scan
           \/ \E x \in arraysFollowed : WriteArray(x)
           \/ \E x \in arrayBox : ArrayUpdate(x)
           \/ AnswerFails
           \/ \E A \in SUBSET tracked : Answer(A)
           \/ UNCHANGED vars
  <2>1. UNCHANGED <<followed, box, chain, taken, batch>> /\ answer' \in {answer, None}
    BY <1>2 DEF LoadSupport, Reload, BatchDone, Scan, WriteArray, ArrayUpdate, AnswerFails, Answer,
                Hydrated, vars
  <2>2. phase' # "hydrate" => answer' = None
    BY <1>2 DEF LoadSupport, Reload, BatchDone, Scan, WriteArray, ArrayUpdate, AnswerFails, Answer,
                Hydrated, vars, Rounds
  <2>3. phase' \notin {"batch", "hydrate"} => DOMAIN batch = {}
    BY <1>2 DEF LoadSupport, Reload, BatchDone, Scan, WriteArray, ArrayUpdate, AnswerFails, Answer,
                Hydrated, vars, Rounds
  <2> QED
    BY <2>1, <2>2, <2>3 DEF Rounds
<1>3. CASE Subscribe
  <2>1. /\ box' = chain /\ taken' = chain /\ chain' = chain
        /\ phase' = "select" /\ batch' = batch /\ answer' = answer
        /\ phase = "subscribe"
    BY <1>3 DEF Subscribe, NewChannel
  <2>2. DOMAIN batch = {} /\ answer = None
    BY <2>1 DEF Rounds
  <2> QED
    BY <2>1, <2>2 DEF Rounds
<1>4. ASSUME NEW D \in SUBSET Pending, Drain(D)
      PROVE  Rounds'
  <2>1. /\ batch' \in [D -> Versions] /\ D \subseteq Accounts
        /\ taken' = [k \in Accounts |-> IF k \in D THEN batch'[k] ELSE taken[k]]
        /\ phase = "select" /\ phase' = "batch"
        /\ UNCHANGED <<followed, box, chain, answer>>
    BY <1>4 DEF Drain, Pending
  <2>2. \A k \in DOMAIN batch' : batch'[k] = taken'[k]
    BY <2>1
  <2>3. answer = None
    BY <2>1 DEF Rounds
  <2> QED
    BY <2>1, <2>2, <2>3 DEF Rounds
<1>5. ASSUME NEW p \in Pools, PoolUpdate(p) \/ VaultUpdate(p)
      PROVE  Rounds'
  <2>1. PICK k : Process(k)
    BY <1>5 DEF PoolUpdate, VaultUpdate
  <2>2. /\ UNCHANGED <<followed, box, chain, taken, answer>>
        /\ phase = "batch" /\ phase' \in {"batch", "hydrate"}
    BY <1>5 DEF PoolUpdate, VaultUpdate, Process
  <2>3. \A j \in DOMAIN batch' : j \in DOMAIN batch /\ batch'[j] = batch[j]
    BY <2>1, ProcessType
  <2>4. answer = None
    BY <2>2 DEF Rounds
  <2> QED
    BY <2>2, <2>3, <2>4 DEF Rounds
<1>6. ASSUME NEW p \in todo, Ask(p)
      PROVE  Rounds'
  <2>1. /\ UNCHANGED <<followed, box, chain, taken, batch, phase>>
        /\ phase = "hydrate"
    BY <1>6 DEF Ask
  <2>2. PICK v \in Readable(<<"vault", p>>) : answer' = [pool |-> p, reserve |-> v]
    BY <1>6 DEF Ask
  <2>3. v <= chain[<<"vault", p>>]
    BY <2>2 DEF Readable
  <2> QED
    BY <2>1, <2>2, <2>3 DEF Rounds
<1>7. ASSUME NEW k \in Accounts, Write(k)
      PROVE  Rounds'
  <2>1. /\ UNCHANGED <<followed, taken, batch, phase, answer>>
        /\ chain' = [chain EXCEPT ![k] = @ + 1]
        /\ box' = IF k \in followed THEN [box EXCEPT ![k] = chain[k] + 1] ELSE box
    BY <1>7 DEF Write
  <2>2. \A j \in followed : box'[j] = chain'[j]
    BY <1>b, <2>1 DEF TypeOK, Rounds
  <2>3. answer # None => answer'.reserve <= chain'[<<"vault", answer'.pool>>]
    <3> SUFFICES ASSUME answer # None
                 PROVE  answer.reserve <= chain'[<<"vault", answer.pool>>]
      BY <2>1
    <3> DEFINE j == <<"vault", answer.pool>>
    <3>1. answer.reserve \in Nat /\ j \in Accounts
      BY Keys, VersionFacts DEF TypeOK
    <3>2. answer.reserve <= chain[j]
      BY DEF Rounds
    <3> HIDE DEF j
    <3>3. chain'[j] \in {chain[j], chain[j] + 1}
      BY <2>1, <3>1 DEF TypeOK
    <3>4. answer.reserve <= chain'[j]
      BY <1>a, <3>1, <3>2, <3>3
    <3> QED
      BY <3>4 DEF j
  <2> QED
    BY <2>1, <2>2, <2>3 DEF Rounds
<1> QED
  BY <1>1, <1>2, <1>3, <1>4, <1>5, <1>6, <1>7 DEF Next, Loads, Updates, Asks

LEMMA CurrentStep ==
  ASSUME TypeOK, IndexesAgree, Rounds, CurrentWhenDrained, [Next]_vars
  PROVE  CurrentWhenDrained'
<1> USE DEF fixed, maps, channel, rpc
<1> SUFFICES ASSUME NEW p \in Pools, Drained(p)', p \notin overtaken'
             PROVE  held'[<<"vault", p>>] = box'[<<"vault", p>>]
  BY DEF CurrentWhenDrained
<1> DEFINE k == <<"vault", p>>
<1>a. k \in Accounts
  BY Keys
<1>b. /\ taken[k] \in Nat /\ box[k] \in Nat /\ chain[k] \in Nat /\ base[k] \in Nat
      /\ taken[k] <= box[k]
  BY <1>a, VersionFacts DEF TypeOK
<1>c. Drained(p) /\ p \notin overtaken => held[k] = box[k]
  BY DEF CurrentWhenDrained
<1>d. /\ k \in followed' /\ box'[k] > base'[k] /\ taken'[k] = box'[k]
      /\ k \notin DOMAIN batch' /\ ~Loading'
  BY DEF Drained, Loading
<1>e. ASSUME UNCHANGED <<followed, base, box, taken, batch>>, Loading' = Loading, held'[k] = held[k],
             overtaken \subseteq overtaken'
      PROVE  held'[k] = box'[k]
  BY <1>c, <1>d, <1>e DEF Drained, Loading
<1>1. CASE \/ \E S \in (SUBSET Pools) \ {{}} : \E found \in SUBSET S :
                \E seen \in Readings("pool", found) : LoadPools(S, seen)
           \/ \E V \in SUBSET vaultMap, A \in SUBSET tracked :
                \E seen \in Readings("vault", V) : LoadSupport(seen, A)
           \/ Reload
  <2>1. Loading'
    BY <1>1 DEF LoadPools, LoadSupport, Reload, Loading
  <2> QED
    BY <1>d, <2>1
<1>2. CASE Subscribe
  <2>1. box' = chain /\ base' = chain
    BY <1>2 DEF Subscribe, NewChannel
  <2> QED
    BY <1>b, <1>d, <2>1
<1>3. CASE \/ BatchDone \/ Scan \/ AnswerFails
           \/ \E x \in arraysFollowed : WriteArray(x)
           \/ \E x \in arrayBox : ArrayUpdate(x)
           \/ \E q \in todo : Ask(q)
           \/ UNCHANGED vars
  <2>1. UNCHANGED <<followed, base, box, taken, batch, held, overtaken>> /\ Loading' = Loading
    BY <1>3, AskKeeps DEF BatchDone, Scan, AnswerFails, Hydrated, WriteArray, ArrayUpdate, vars,
                          Loading
  <2> QED
    BY <1>e, <2>1
<1>4. ASSUME NEW D \in SUBSET Pending, Drain(D)
      PROVE  held'[k] = box'[k]
  <2>1. /\ DOMAIN batch' = D /\ D \subseteq Accounts
        /\ taken' = [j \in Accounts |-> IF j \in D THEN batch'[j] ELSE taken[j]]
        /\ phase = "select" /\ phase' = "batch"
        /\ UNCHANGED <<followed, box, base, held, overtaken>>
    BY <1>4 DEF Drain, Pending
  <2>2. taken'[k] = taken[k]
    BY <1>a, <1>d, <2>1
  <2>3. DOMAIN batch = {}
    BY <2>1 DEF Rounds
  <2>4. Drained(p)
    BY <1>d, <2>1, <2>2, <2>3 DEF Drained, Loading
  <2> QED
    BY <1>c, <2>1, <2>4
<1>5. ASSUME NEW q \in Pools, PoolUpdate(q)
      PROVE  held'[k] = box'[k]
  <2>1. Process(<<"pool", q>>)
    BY <1>5 DEF PoolUpdate
  <2>2. DOMAIN batch' = DOMAIN batch \ {<<"pool", q>>}
    BY <2>1 DEF Process
  <2>3. UNCHANGED <<followed, base, box, taken, overtaken>> /\ Loading' = Loading
    BY <1>5 DEF PoolUpdate, Process, Loading
  <2>4. held' = [held EXCEPT ![<<"pool", q>>] = batch[<<"pool", q>>]]
    BY <1>5 DEF PoolUpdate
  <2>5. held'[k] = held[k]
    BY <1>a, <2>4 DEF TypeOK
  <2>6. Drained(p)
    BY <1>d, <2>2, <2>3 DEF Drained, Loading
  <2> QED
    BY <1>c, <2>3, <2>5, <2>6
<1>6. ASSUME NEW q \in Pools, VaultUpdate(q)
      PROVE  held'[k] = box'[k]
  <2>1. Process(<<"vault", q>>)
    BY <1>6 DEF VaultUpdate
  <2>2. DOMAIN batch' = DOMAIN batch \ {<<"vault", q>>}
    BY <2>1 DEF Process
  <2>3. UNCHANGED <<followed, base, box, taken>> /\ Loading' = Loading
    BY <1>6 DEF VaultUpdate, Process, Loading
  <2>4. CASE q = p
    <3>1. p \in vaultMap /\ Known(p)
      <4>1. ~Loading
        BY <1>d, <2>3
      <4>2. p \in vaultMap
        BY <1>d, <2>3, <4>1, IndexParts DEF FollowedAreMapped
      <4> QED
        BY <4>2, IndexParts DEF MapsOfKnown
    <3>2. held' = [held EXCEPT ![k] = batch[k]]
      BY <1>6, <2>4, <3>1 DEF VaultUpdate
    <3>3. batch[k] = taken[k]
      BY <2>1, <2>4 DEF Process, Rounds
    <3> QED
      BY <1>a, <1>d, <2>3, <3>2, <3>3 DEF TypeOK
  <2>5. CASE q # p
    <3>1. held' \in {held, [held EXCEPT ![<<"vault", q>>] = batch[<<"vault", q>>]]}
      BY <1>6 DEF VaultUpdate
    <3>2. held'[k] = held[k]
      BY <1>a, <2>5, <3>1 DEF TypeOK
    <3>3. Drained(p) /\ p \notin overtaken
      <4>1. overtaken' \in {overtaken, overtaken \ {q}}
        BY <1>6 DEF VaultUpdate
      <4> QED
        BY <1>d, <2>2, <2>3, <2>5, <4>1 DEF Drained, Loading
    <3> QED
      BY <1>c, <2>3, <3>2, <3>3
  <2> QED
    BY <2>4, <2>5
<1>7. ASSUME NEW A \in SUBSET tracked, Answer(A)
      PROVE  held'[k] = box'[k]
  <2>1. UNCHANGED <<followed, base, box, taken, batch>> /\ Loading' = Loading /\ answer # None
    BY <1>7 DEF Answer, Hydrated, Loading
  <2>2. CASE answer.pool = p /\ HasVault(p)
    <3>1. /\ held' = [held EXCEPT ![k] = answer.reserve]
          /\ overtaken' = IF held[k] # None /\ answer.reserve < held[k]
                            THEN overtaken \cup {p} ELSE overtaken
      BY <1>7, <2>2 DEF Answer
    <3>2. p \notin overtaken /\ ~(held[k] # None /\ answer.reserve < held[k])
      BY <3>1
    <3>3. held[k] = box[k]
      BY <1>c, <1>d, <2>1, <3>2 DEF Drained, Loading
    <3>4. box[k] = chain[k] /\ answer.reserve <= chain[k] /\ answer.reserve \in Nat
      BY <1>d, <2>1, <2>2, VersionFacts DEF Rounds, TypeOK
    <3>5. held[k] # None
      BY <1>a, <3>3, MarketAssumption DEF TypeOK
    <3>6. answer.reserve = box[k]
      BY <1>b, <3>2, <3>3, <3>4, <3>5
    <3> QED
      BY <1>a, <2>1, <3>1, <3>6 DEF TypeOK
  <2>3. CASE ~(answer.pool = p /\ HasVault(p))
    <3>1. answer.pool \in Pools
      BY <2>1 DEF TypeOK
    <3>2. held'[k] = held[k]
      BY <1>7, <1>a, <2>3, <3>1 DEF Answer, TypeOK
    <3>3. overtaken \subseteq overtaken'
      BY <1>7 DEF Answer
    <3> QED
      BY <1>e, <2>1, <3>2, <3>3
  <2> QED
    BY <2>2, <2>3
<1>8. ASSUME NEW j \in Accounts, Write(j)
      PROVE  held'[k] = box'[k]
  <2>1. /\ UNCHANGED <<followed, base, taken, batch, held, overtaken>> /\ Loading' = Loading
        /\ box' = IF j \in followed THEN [box EXCEPT ![j] = chain[j] + 1] ELSE box
    BY <1>8 DEF Write, Loading
  <2>2. box[k] = chain[k]
    BY <1>d, <2>1 DEF Rounds
  <2>3. box'[k] \in {box[k], box[k] + 1}
    BY <1>a, <2>1, <2>2 DEF TypeOK
  <2>4. box'[k] = box[k]
    BY <1>b, <1>d, <2>1, <2>3
  <2>5. Drained(p)
    BY <1>d, <2>1, <2>4 DEF Drained, Loading
  <2> QED
    BY <1>c, <2>1, <2>4, <2>5
<1> QED
  BY <1>1, <1>2, <1>3, <1>4, <1>5, <1>6, <1>7, <1>8 DEF Next, Loads, Updates, Asks

(* Once every delivered update of a followed vault is processed, the pool  *)
(* holds the newest reserve delivered, unless the answer of a               *)
(* hydrate_*_pool_supporting_accounts, which overwrites the state without   *)
(* comparing slots, was older than what it replaced and no update has come  *)
(* since: of the ways in which the RPC and the stream can cross it is the   *)
(* only one that leaves an older reserve, for the loop drains nothing while *)
(* it waits and applies what it has drained after the answer.               *)
THEOREM DrainedIsCurrent == Spec => []CurrentWhenDrained
<1> DEFINE Inv == TypeOK /\ IndexesAgree /\ Rounds /\ CurrentWhenDrained
<1>1. Init => Inv
  BY InitType, InitIndexes, InitRounds
<1>2. Inv /\ [Next]_vars => Inv'
  BY TypeStep, IndexStep, RoundsStep, CurrentStep
<1> QED
  BY <1>1, <1>2, PTL DEF Spec

-----------------------------------------------------------------------------
(* The mark.  Between the first sight of a pool and the answers of the RPC *)
(* the loop does not scan, so the mark that PoolUpdate set is still there  *)
(* when an answer changes a reserve.                                       *)

MarkedWhileHydrating == phase = "hydrate" => dirty = TRUE

LEMMA MarkedStep ==
  ASSUME MarkedWhileHydrating, [Next]_vars
  PROVE  MarkedWhileHydrating'
<1> USE DEF MarkedWhileHydrating, fixed, maps, channel, rpc
<1>1. CASE Loads
  BY <1>1 DEF Loads, LoadPools, LoadSupport, Subscribe, Reload
<1>2. CASE Updates
  <2>1. ASSUME NEW D \in SUBSET Pending, Drain(D) PROVE MarkedWhileHydrating'
    BY <2>1 DEF Drain
  <2>2. ASSUME NEW p \in Pools, PoolUpdate(p) PROVE MarkedWhileHydrating'
    <3>1. dirty' = TRUE
      BY <2>2 DEF PoolUpdate
    <3> QED
      BY <3>1
  <2>3. ASSUME NEW p \in Pools, VaultUpdate(p) PROVE MarkedWhileHydrating'
    <3>1. phase' = phase /\ phase = "batch"
      BY <2>3 DEF VaultUpdate, Process
    <3> QED
      BY <3>1
  <2>4. ASSUME NEW x \in arrayBox, ArrayUpdate(x) PROVE MarkedWhileHydrating'
    BY <2>4 DEF ArrayUpdate
  <2>5. CASE BatchDone \/ Scan
    BY <2>5 DEF BatchDone, Scan
  <2> QED
    BY <1>2, <2>1, <2>2, <2>3, <2>4, <2>5 DEF Updates
<1>3. CASE Asks
  BY <1>3 DEF Asks, Ask, Answer, AnswerFails, Hydrated
<1>4. CASE UNCHANGED vars
  BY <1>4 DEF vars
<1>5. ASSUME NEW k \in Accounts, Write(k) PROVE MarkedWhileHydrating'
  BY <1>5 DEF Write
<1>6. ASSUME NEW x \in arraysFollowed, WriteArray(x) PROVE MarkedWhileHydrating'
  BY <1>6 DEF WriteArray
<1> QED
  BY <1>1, <1>2, <1>3, <1>4, <1>5, <1>6 DEF Next

(* Whatever changes a known position or reserve outside a reload leaves    *)
(* the token marked for a scan: an update of the stream marks it itself,   *)
(* an answer of the RPC, which marks nothing, comes before the scan that   *)
(* would have cleared the mark of the pool's first sight.                  *)
THEOREM ChangesMark == Spec => ChangesAreMarked
<1> DEFINE Marks == phase \notin {"load", "support"} =>
                       \A k \in Accounts : held'[k] # held[k] => dirty'
<1>1. Init => MarkedWhileHydrating
  BY DEF Init, MarkedWhileHydrating
<1>2. MarkedWhileHydrating /\ [Next]_vars => MarkedWhileHydrating'
  BY MarkedStep
<1>3. MarkedWhileHydrating /\ [Next]_vars => [Marks]_vars
  <2> SUFFICES ASSUME MarkedWhileHydrating, Next,
                      phase \notin {"load", "support"},
                      NEW k \in Accounts, held'[k] # held[k]
               PROVE  dirty' = TRUE
    OBVIOUS
  <2> USE DEF fixed, maps, channel, rpc
  <2>1. CASE Loads
    BY <2>1 DEF Loads, LoadPools, LoadSupport, Subscribe, Reload
  <2>2. CASE Updates
    <3>1. ASSUME NEW p \in Pools, PoolUpdate(p) \/ VaultUpdate(p)
          PROVE  dirty' = TRUE
      BY <3>1 DEF PoolUpdate, VaultUpdate, Mark
    <3>2. CASE \/ \E D \in SUBSET Pending : Drain(D)
               \/ \E x \in arrayBox : ArrayUpdate(x)
               \/ BatchDone \/ Scan
      BY <3>2 DEF Drain, ArrayUpdate, BatchDone, Scan
    <3> QED
      BY <2>2, <3>1, <3>2 DEF Updates
  <2>3. CASE Asks
    BY <2>3 DEF Asks, Ask, Answer, AnswerFails, Hydrated, MarkedWhileHydrating
  <2>4. CASE \/ \E j \in Accounts : Write(j)
             \/ \E x \in arraysFollowed : WriteArray(x)
    BY <2>4 DEF Write, WriteArray
  <2> QED
    BY <2>1, <2>2, <2>3, <2>4 DEF Next
<1> QED
  BY <1>1, <1>2, <1>3, PTL DEF Spec, ChangesAreMarked

-----------------------------------------------------------------------------
(* The supporting accounts of a routed token.  The limit of a venue is     *)
(* filled at the first sight that gives the token its route, and again at  *)
(* every first sight after it.  Nothing else lets a pool of a venue with   *)
(* supporting accounts into the path graph, nor gives the token a route: a *)
(* completed pump curve cannot come back, since the loop never reads an    *)
(* older version of a pool than it holds.                                  *)

AskedOrLoaded == done \cup todo \cup atLoad

(* A known pool that is active is in the path graph, and the updates still *)
(* to come of a pool are newer than what is known of it.                   *)
ReadInOrder ==
    /\ \A k \in Accounts : chain[k] <= MaxVersion[k[1]]
    /\ \A p \in Pools : Known(p) =>
          LET k == <<"pool", p>>
          IN  /\ held[k] <= chain[k]
              /\ phase \notin {"support", "subscribe"} => held[k] <= taken[k]
              /\ k \in DOMAIN batch => held[k] < batch[k]
              /\ Active(p, held[k]) => p \in index

LimitsFilled ==
    Route(index) =>
        \A v \in Venues \ {"pump"} :
            Cardinality(OfVenue(index \cap AskedOrLoaded, v))
               >= AtMost(PerVenue, Cardinality(OfVenue(index, v)))

NothingToAsk == phase # "hydrate" => todo = {}

LEMMA PoolSets ==
  ASSUME NEW S \in SUBSET Pools
  PROVE  /\ IsFiniteSet(S) /\ Cardinality(S) \in Nat
         /\ \A T \in SUBSET S : /\ Cardinality(T) \in Nat
                                /\ Cardinality(T) <= Cardinality(S)
<1>1. \A U \in SUBSET Pools : IsFiniteSet(U) /\ Cardinality(U) \in Nat
  BY MarketAssumption, FS_Subset, FS_CardinalityType
<1>2. \A T \in SUBSET S : Cardinality(T) <= Cardinality(S)
  BY <1>1, FS_Subset
<1> QED
  BY <1>1, <1>2

(* A token keeps its route when pools are added. *)
LEMMA RouteGrows ==
  ASSUME TypeOK, NEW S \in SUBSET Pools, NEW T \in SUBSET S, Route(T)
  PROVE  Route(S)
<1> DEFINE VS == {venue[p] : p \in S}
           VT == {venue[p] : p \in T}
<1>1. venue \in [Pools -> Venues]
  BY MarketAssumption DEF TypeOK
<1>2. IsFiniteSet(Venues)
  <2>1. Venues = {"pump"} \cup {"pumpswap"} \cup {"raydium"} \cup {"meteora"}
                   \cup {"whirlpool"}
    BY DEF Venues
  <2>2. IsFiniteSet({"pump"} \cup {"pumpswap"})
    BY FS_Singleton, FS_AddElement
  <2>3. IsFiniteSet({"pump"} \cup {"pumpswap"} \cup {"raydium"})
    BY <2>2, FS_AddElement
  <2>4. IsFiniteSet({"pump"} \cup {"pumpswap"} \cup {"raydium"} \cup {"meteora"})
    BY <2>3, FS_AddElement
  <2> QED
    BY <2>1, <2>4, FS_AddElement
<1>3. VS \in SUBSET Venues /\ VT \in SUBSET VS
  BY <1>1
<1>4. IsFiniteSet(VS)
  BY <1>2, <1>3, FS_Subset
<1>5. Cardinality(VT) <= Cardinality(VS) /\ Cardinality(VS) \in Nat
      /\ Cardinality(VT) \in Nat
  BY <1>3, <1>4, FS_Subset, FS_CardinalityType
<1>6. Cardinality(VT) >= MinVenues
  BY DEF Route
<1> HIDE DEF VS, VT
<1>7. Cardinality(VS) >= MinVenues
  BY <1>5, <1>6, MarketAssumption
<1> QED
  BY <1>7 DEF Route, VS

LEMMA PoolUpdateInOrder ==
  ASSUME TypeOK, Rounds, ReadInOrder, NEW p \in Pools, PoolUpdate(p)
  PROVE  /\ ReadInOrder'
         /\ Known(p) => index' \in SUBSET index
         /\ UNCHANGED <<chain, venue>>
<1> DEFINE k == <<"pool", p>>
<1>1. /\ Process(k) /\ held' = [held EXCEPT ![k] = batch[k]]
      /\ index' = IF Active(p, batch[k]) THEN index \cup {p} ELSE index \ {p}
      /\ UNCHANGED <<venue, chain, taken>>
      /\ phase = "batch" /\ phase' \in {"batch", "hydrate"}
  BY DEF PoolUpdate, Process, fixed, channel
<1>2. /\ k \in Accounts /\ batch[k] \in Versions /\ k \in DOMAIN batch
      /\ DOMAIN batch' = DOMAIN batch \ {k}
      /\ \A j \in DOMAIN batch' : batch'[j] = batch[j]
  BY <1>1, ProcessType DEF Process
<1>3. batch[k] = taken[k]
  BY <1>2 DEF Rounds
<1>4. taken[k] <= chain[k] /\ chain[k] \in Nat /\ taken[k] \in Nat
  <2>1. taken[k] \in Nat /\ box[k] \in Nat /\ chain[k] \in Nat
    BY <1>2, VersionFacts DEF TypeOK
  <2>2. taken[k] <= box[k] /\ box[k] <= chain[k]
    BY <1>2 DEF TypeOK
  <2> QED
    BY <2>1, <2>2
<1>5. Known(p) => index' \in SUBSET index
  <2> SUFFICES ASSUME Known(p), Active(p, batch[k]) PROVE p \in index
    BY <1>1
  <2>1. held[k] < batch[k] /\ (Active(p, held[k]) => p \in index)
    BY <1>2 DEF ReadInOrder
  <2>2. held[k] \in Nat /\ batch[k] \in Nat /\ MaxVersion["pool"] \in Nat
    BY <1>2, VersionFacts, MarketAssumption DEF TypeOK, Known
  <2>3. Active(p, held[k])
    BY <2>1, <2>2 DEF Active
  <2> QED
    BY <2>1, <2>3
<1>6. ReadInOrder'
  <2>1. \A j \in Accounts : chain'[j] <= MaxVersion[j[1]]
    BY <1>1 DEF ReadInOrder
  <2>2. ASSUME NEW q \in Pools, Known(q)', q # p
        PROVE  /\ held'[<<"pool", q>>] = held[<<"pool", q>>] /\ Known(q)
               /\ q \in index => q \in index'
               /\ <<"pool", q>> \in DOMAIN batch'
                    => /\ <<"pool", q>> \in DOMAIN batch
                       /\ batch'[<<"pool", q>>] = batch[<<"pool", q>>]
    <3>1. <<"pool", q>> # k /\ <<"pool", q>> \in Accounts
      BY <2>2, Keys
    <3>2. held'[<<"pool", q>>] = held[<<"pool", q>>]
      BY <1>1, <3>1 DEF TypeOK
    <3> QED
      BY <1>1, <1>2, <2>2, <3>2 DEF Known
  <2>3. held'[k] = batch[k]
    BY <1>1, <1>2 DEF TypeOK
  <2>4. k \notin DOMAIN batch'
    BY <1>2
  <2>5. Active(p, batch[k]) => p \in index'
    BY <1>1
  <2>7. ASSUME NEW q \in Pools, Known(q)'
        PROVE  LET j == <<"pool", q>>
               IN  /\ held'[j] <= chain'[j]
                   /\ phase' \notin {"support", "subscribe"} => held'[j] <= taken'[j]
                   /\ j \in DOMAIN batch' => held'[j] < batch'[j]
                   /\ Active(q, held'[j]) => q \in index'
    <3>1. CASE q = p
      <4>1. held'[k] <= chain[k] /\ held'[k] <= taken[k]
        BY <1>3, <1>4, <2>3
      <4> QED
        BY <1>1, <2>3, <2>4, <2>5, <3>1, <4>1
    <3>2. CASE q # p
      BY <1>1, <2>2, <2>7, <3>2 DEF ReadInOrder
    <3> QED
      BY <3>1, <3>2
  <2> QED
    BY <1>1, <2>1, <2>7 DEF ReadInOrder, Active
<1> QED
  BY <1>1, <1>5, <1>6

LEMMA ReadInOrderStep ==
  ASSUME TypeOK, Rounds, ReadInOrder, [Next]_vars
  PROVE  ReadInOrder'
<1> USE DEF fixed, maps, channel, rpc
<1>a. \A k \in Accounts : taken[k] \in Nat /\ box[k] \in Nat /\ chain[k] \in Nat
  BY VersionFacts DEF TypeOK
<1>b. \A p \in Pools : Known(p) => held[<<"pool", p>>] \in Nat
  BY Keys, VersionFacts DEF TypeOK, Known
<1>1. ASSUME NEW S \in (SUBSET Pools) \ {{}}, NEW found \in SUBSET S,
             NEW seen \in Readings("pool", found), LoadPools(S, seen)
      PROVE  ReadInOrder'
  <2>1. /\ DOMAIN seen = found
        /\ \A p \in found : seen[p] \in Versions /\ seen[p] <= chain[<<"pool", p>>]
    BY ReadingFacts
  <2>2. /\ phase = "load" /\ phase' = "support"
        /\ held' = [k \in Accounts |->
                     IF k[1] = "pool" /\ k[2] \in found THEN seen[k[2]] ELSE None]
        /\ index' = {p \in found : Active(p, seen[p])}
        /\ UNCHANGED <<venue, chain, taken, batch>>
    BY <1>1, <2>1 DEF LoadPools
  <2>3. DOMAIN batch = {}
    BY <2>2 DEF Rounds
  <2>4. ASSUME NEW p \in Pools, Known(p)'
        PROVE  held'[<<"pool", p>>] = seen[p] /\ p \in found
    BY <2>2, <2>4, Keys DEF Known
  <2>5. ASSUME NEW p \in Pools, Known(p)'
        PROVE  LET k == <<"pool", p>>
               IN  /\ held'[k] <= chain'[k]
                   /\ phase' \in {"support", "subscribe"}
                   /\ k \notin DOMAIN batch'
                   /\ Active(p, held'[k]) => p \in index'
    BY <2>1, <2>2, <2>3, <2>4, <2>5
  <2>6. \A k \in Accounts : chain'[k] <= MaxVersion[k[1]]
    BY <2>2 DEF ReadInOrder
  <2> QED
    BY <2>2, <2>5, <2>6 DEF ReadInOrder, Active
<1>2. ASSUME NEW V \in SUBSET vaultMap, NEW A \in SUBSET tracked,
             NEW seen \in Readings("vault", V), LoadSupport(seen, A)
      PROVE  ReadInOrder'
  <2>1. /\ phase = "support" /\ phase' = "subscribe"
        /\ UNCHANGED <<venue, index, chain, taken, batch>>
        /\ \A p \in Pools : held'[<<"pool", p>>] = held[<<"pool", p>>]
    BY <1>2, Keys DEF LoadSupport
  <2> QED
    BY <2>1 DEF ReadInOrder, Known, Active
<1>3. CASE Subscribe
  <2>1. /\ taken' = chain /\ phase = "subscribe"
        /\ UNCHANGED <<venue, index, chain, held, batch>>
    BY <1>3 DEF Subscribe, NewChannel
  <2> QED
    BY <2>1 DEF ReadInOrder, Known, Active
<1>4. ASSUME NEW D \in SUBSET Pending, Drain(D)
      PROVE  ReadInOrder'
  <2>1. /\ batch' \in [D -> Versions] /\ D \subseteq Accounts
        /\ \A k \in D : taken[k] < batch'[k]
        /\ taken' = [k \in Accounts |-> IF k \in D THEN batch'[k] ELSE taken[k]]
        /\ phase = "select" /\ phase' = "batch"
        /\ UNCHANGED <<venue, index, chain, held>>
    BY <1>4 DEF Drain, Pending
  <2>2. \A k \in D : batch'[k] \in Nat
    BY <2>1, VersionFacts
  <2>3. ASSUME NEW p \in Pools, Known(p)'
        PROVE  LET k == <<"pool", p>>
               IN  held[k] <= taken'[k] /\ (k \in DOMAIN batch' => held[k] < batch'[k])
    <3> DEFINE k == <<"pool", p>>
    <3>1. Known(p)
      BY <2>1, <2>3 DEF Known
    <3>2. held[k] <= taken[k] /\ held[k] \in Nat /\ k \in Accounts /\ taken[k] \in Nat
      BY <1>a, <1>b, <2>1, <3>1, Keys DEF ReadInOrder
    <3> HIDE DEF k
    <3>3. CASE k \in D
      <4>1. held[k] < batch'[k]
        BY <2>1, <2>2, <3>2, <3>3
      <4> QED
        BY <2>1, <2>2, <3>2, <3>3, <4>1 DEF k
    <3>4. CASE k \notin D
      BY <2>1, <3>2, <3>4 DEF k
    <3> QED
      BY <3>3, <3>4
  <2> QED
    BY <2>1, <2>3 DEF ReadInOrder, Known, Active
<1>5. ASSUME NEW p \in Pools, VaultUpdate(p)
      PROVE  ReadInOrder'
  <2>1. /\ Process(<<"vault", p>>)
        /\ UNCHANGED <<venue, index, chain, taken, phase>>
        /\ held' \in {held, [held EXCEPT ![<<"vault", p>>] = batch[<<"vault", p>>]]}
    BY <1>5 DEF VaultUpdate
  <2>2. \A q \in Pools : held'[<<"pool", q>>] = held[<<"pool", q>>]
    BY <2>1, Keys DEF TypeOK
  <2>3. \A j \in DOMAIN batch' : j \in DOMAIN batch /\ batch'[j] = batch[j]
    BY <2>1, ProcessType
  <2> QED
    BY <2>1, <2>2, <2>3 DEF ReadInOrder, Known, Active
<1>6. ASSUME NEW A \in SUBSET tracked, Answer(A)
      PROVE  ReadInOrder'
  <2>1. /\ UNCHANGED <<venue, index, chain, taken, batch>>
        /\ phase = "hydrate" /\ phase' \in {"batch", "hydrate"}
        /\ held' \in {held, [held EXCEPT ![<<"vault", answer.pool>>] = answer.reserve]}
    BY <1>6 DEF Answer, Hydrated
  <2>2. \A q \in Pools : held'[<<"pool", q>>] = held[<<"pool", q>>]
    BY <2>1, Keys DEF TypeOK
  <2> QED
    BY <2>1, <2>2 DEF ReadInOrder, Known, Active
<1>7. CASE \/ Reload \/ BatchDone \/ Scan \/ AnswerFails
           \/ \E p \in todo : Ask(p)
           \/ \E x \in arrayBox : ArrayUpdate(x)
           \/ \E x \in arraysFollowed : WriteArray(x)
           \/ UNCHANGED vars
  <2>1. /\ UNCHANGED <<venue, index, chain, held, taken, batch>>
        /\ phase' \in {"support", "subscribe"} => phase' = phase
    BY <1>7 DEF Reload, BatchDone, Scan, AnswerFails, Hydrated, Ask, ArrayUpdate,
                WriteArray, vars
  <2>2. phase \in {"support", "subscribe"} => phase' = phase
    BY <1>7 DEF Reload, BatchDone, Scan, AnswerFails, Hydrated, Ask, ArrayUpdate,
                WriteArray, vars
  <2> QED
    BY <2>1, <2>2 DEF ReadInOrder, Known, Active
<1>8. ASSUME NEW k \in Accounts, Write(k)
      PROVE  ReadInOrder'
  <2>1. /\ UNCHANGED <<venue, index, held, taken, batch, phase>>
        /\ chain' = [chain EXCEPT ![k] = @ + 1] /\ chain[k] < MaxVersion[k[1]]
    BY <1>8 DEF Write
  <2>2. \A j \in Accounts : chain[j] <= chain'[j] /\ chain'[j] \in Nat
    BY <1>a, <2>1 DEF TypeOK
  <2>3. MaxVersion[k[1]] \in Nat
    BY Keys, MarketAssumption
  <2>4. \A j \in Accounts : chain'[j] <= MaxVersion[j[1]]
    BY <1>a, <2>1, <2>3 DEF TypeOK, ReadInOrder
  <2>5. \A p \in Pools : Known(p) => held[<<"pool", p>>] <= chain'[<<"pool", p>>]
    <3> SUFFICES ASSUME NEW p \in Pools, Known(p)
                 PROVE  held[<<"pool", p>>] <= chain'[<<"pool", p>>]
      OBVIOUS
    <3> DEFINE j == <<"pool", p>>
    <3>1. held[j] <= chain[j] /\ held[j] \in Nat /\ j \in Accounts
      BY <1>b, Keys DEF ReadInOrder
    <3>2. chain[j] <= chain'[j] /\ chain[j] \in Nat /\ chain'[j] \in Nat
      BY <1>a, <2>2, <3>1
    <3> HIDE DEF j
    <3>3. held[j] <= chain'[j]
      BY <3>1, <3>2
    <3> QED
      BY <3>3 DEF j
  <2> QED
    BY <2>1, <2>4, <2>5 DEF ReadInOrder, Known, Active
<1>9. ASSUME NEW p \in Pools, PoolUpdate(p)
      PROVE  ReadInOrder'
  BY <1>9, PoolUpdateInOrder
<1> QED
  BY <1>1, <1>2, <1>3, <1>4, <1>5, <1>6, <1>7, <1>8, <1>9 DEF Next, Loads, Updates, Asks

(* More pools asked for, and no pool of the venues with supporting         *)
(* accounts added: the limits stay filled.                                 *)
LEMMA StaysFilled ==
  ASSUME TypeOK, TypeOK', LimitsFilled, UNCHANGED venue,
         index' \in SUBSET index,
         \A p \in index : venue[p] # "pump" => p \in index',
         AskedOrLoaded \subseteq AskedOrLoaded'
  PROVE  LimitsFilled'
<1> SUFFICES ASSUME Route(index)', NEW v \in Venues \ {"pump"}
             PROVE  Cardinality(OfVenue(index \cap AskedOrLoaded, v)')
                       >= AtMost(PerVenue, Cardinality(OfVenue(index, v)'))
  BY DEF LimitsFilled, AtMost
<1> DEFINE all == OfVenue(index, v)
           asked == OfVenue(index \cap AskedOrLoaded, v)
<1>1. Route(index)
  <2>1. Route(index')
    BY DEF Route
  <2> QED
    BY <2>1, RouteGrows DEF TypeOK
<1>2. Cardinality(asked) >= AtMost(PerVenue, Cardinality(all))
  BY <1>1 DEF LimitsFilled
<1>3. all' = all
  BY DEF OfVenue
<1>4. asked \in SUBSET asked' /\ asked' \in SUBSET Pools
  BY DEF OfVenue, TypeOK
<1>5. /\ Cardinality(asked) \in Nat /\ Cardinality(asked') \in Nat
      /\ Cardinality(asked) <= Cardinality(asked')
  BY <1>4, PoolSets
<1>6. all \in SUBSET Pools
  BY DEF OfVenue, TypeOK
<1>7. Cardinality(all) \in Nat
  BY <1>6, PoolSets
<1> HIDE DEF all, asked
<1>8. Cardinality(asked') >= AtMost(PerVenue, Cardinality(all))
  BY <1>2, <1>5, <1>7, MarketAssumption DEF AtMost
<1> QED
  BY <1>3, <1>8 DEF asked, all

(* A load lists in the graph only pools it has found. *)
LEMMA LoadFills ==
  ASSUME TypeOK', index' \subseteq atLoad'
  PROVE  LimitsFilled'
<1> SUFFICES ASSUME NEW v \in Venues
             PROVE  Cardinality(OfVenue(index \cap AskedOrLoaded, v)')
                       >= AtMost(PerVenue, Cardinality(OfVenue(index, v)'))
  BY DEF LimitsFilled, AtMost
<1>1. (index \cap AskedOrLoaded)' = index'
  BY DEF AskedOrLoaded
<1>2. OfVenue(index \cap AskedOrLoaded, v)' = OfVenue(index, v)'
  BY <1>1 DEF OfVenue
<1>3. OfVenue(index, v)' \in SUBSET Pools
  BY DEF OfVenue, TypeOK
<1>4. Cardinality(OfVenue(index, v)') \in Nat
  BY <1>3, PoolSets
<1> QED
  BY <1>2, <1>4, MarketAssumption DEF AtMost

(* A first sight with a route asks for what limited_token_pools chooses of *)
(* the graph it leaves behind.                                             *)
LEMMA FirstSightFills ==
  ASSUME TypeOK, TypeOK', UNCHANGED venue,
         NEW H \in Limited(index'), H \subseteq AskedOrLoaded'
  PROVE  LimitsFilled'
<1> SUFFICES ASSUME NEW v \in Venues \ {"pump"}
             PROVE  Cardinality(OfVenue(index \cap AskedOrLoaded, v)')
                       >= AtMost(PerVenue, Cardinality(OfVenue(index, v)'))
  BY DEF LimitsFilled, AtMost
<1> DEFINE all == OfVenue(index', v)
           asked == OfVenue(index' \cap AskedOrLoaded', v)
           chosen == OfVenue(H, v)
<1>1. OfVenue(index, v)' = all /\ OfVenue(index \cap AskedOrLoaded, v)' = asked
  BY DEF OfVenue
<1>2. Cardinality(chosen) = AtMost(PerVenue, Cardinality(all)) /\ H \subseteq index'
  BY DEF Limited
<1>3. chosen \in SUBSET asked /\ asked \in SUBSET Pools
  BY <1>2 DEF OfVenue, TypeOK
<1>4. Cardinality(chosen) <= Cardinality(asked)
  BY <1>3, PoolSets
<1> HIDE DEF all, asked, chosen
<1> QED
  BY <1>1, <1>2, <1>4

LEMMA PoolUpdateFills ==
  ASSUME TypeOK, TypeOK', IndexesAgree, Rounds, ReadInOrder, NothingToAsk,
         LimitsFilled, NEW p \in Pools, PoolUpdate(p)
  PROVE  NothingToAsk' /\ LimitsFilled'
<1> DEFINE v == batch[<<"pool", p>>]
<1>1. /\ phase = "batch" /\ UNCHANGED <<venue, done, atLoad>>
      /\ index' = IF Active(p, v) THEN index \cup {p} ELSE index \ {p}
  BY DEF PoolUpdate, Process, fixed
<1>2. todo = {}
  BY <1>1 DEF NothingToAsk
<1>3. CASE FirstSeen(p) /\ Route(index')
  <2>1. PICK H \in Limited(index') : todo' = H \ done
    BY <1>3 DEF PoolUpdate
  <2>2. phase' = IF todo' = {} THEN "batch" ELSE "hydrate"
    BY <1>3 DEF PoolUpdate
  <2>3. H \subseteq AskedOrLoaded'
    BY <1>1, <2>1 DEF AskedOrLoaded
  <2> QED
    BY <1>1, <2>2, <2>3, FirstSightFills DEF NothingToAsk
<1>4. CASE ~(FirstSeen(p) /\ Route(index'))
  <2>1. UNCHANGED <<todo, phase>>
    BY <1>4 DEF PoolUpdate
  <2>2. CASE ~Route(index')
    <3>1. ~Route(index)'
      BY <1>1, <2>2 DEF Route
    <3> QED
      BY <2>1, <3>1 DEF LimitsFilled, NothingToAsk
  <2>3. CASE ~FirstSeen(p)
    <3>1. index' \in SUBSET index
      BY <2>3, PoolUpdateInOrder DEF FirstSeen
    <3>2. \A q \in index : venue[q] # "pump" => q \in index'
      BY <1>1 DEF Active
    <3>3. AskedOrLoaded' = AskedOrLoaded
      BY <1>1, <2>1 DEF AskedOrLoaded
    <3> QED
      BY <1>1, <2>1, <3>1, <3>2, <3>3, StaysFilled DEF NothingToAsk
  <2> QED
    BY <1>4, <2>2, <2>3
<1> QED
  BY <1>3, <1>4

LEMMA LimitsStep ==
  ASSUME TypeOK, TypeOK', IndexesAgree, Rounds, ReadInOrder, NothingToAsk,
         LimitsFilled, [Next]_vars
  PROVE  NothingToAsk' /\ LimitsFilled'
<1> USE DEF fixed, maps, channel, rpc
<1>1. ASSUME NEW S \in (SUBSET Pools) \ {{}}, NEW found \in SUBSET S,
             NEW seen \in Readings("pool", found), LoadPools(S, seen)
      PROVE  NothingToAsk' /\ LimitsFilled'
  <2>1. index' \subseteq atLoad'
    BY <1>1 DEF LoadPools
  <2>2. phase = "load" /\ phase' = "support" /\ todo' = todo
    BY <1>1 DEF LoadPools
  <2> QED
    BY <2>1, <2>2, LoadFills DEF NothingToAsk
<1>2. ASSUME NEW p \in Pools, PoolUpdate(p)
      PROVE  NothingToAsk' /\ LimitsFilled'
  BY <1>2, PoolUpdateFills
<1>3. ASSUME NEW p \in todo, Ask(p)
      PROVE  NothingToAsk' /\ LimitsFilled'
  <2>1. /\ UNCHANGED <<venue, index, atLoad, phase>> /\ phase = "hydrate"
        /\ done' = done \cup {p} /\ todo' = todo \ {p}
    BY <1>3 DEF Ask
  <2>2. AskedOrLoaded' = AskedOrLoaded
    BY <2>1 DEF AskedOrLoaded
  <2> QED
    BY <2>1, <2>2, StaysFilled DEF NothingToAsk
<1>4. CASE \/ \E V \in SUBSET vaultMap, A \in SUBSET tracked :
                \E seen \in Readings("vault", V) : LoadSupport(seen, A)
           \/ Subscribe \/ Reload
           \/ \E D \in SUBSET Pending : Drain(D)
           \/ \E p \in Pools : VaultUpdate(p)
           \/ \E x \in arrayBox : ArrayUpdate(x)
           \/ BatchDone \/ Scan \/ AnswerFails
           \/ \E A \in SUBSET tracked : Answer(A)
           \/ \E k \in Accounts : Write(k)
           \/ \E x \in arraysFollowed : WriteArray(x)
           \/ UNCHANGED vars
  <2>1. UNCHANGED <<venue, index, atLoad, done, todo>>
    BY <1>4 DEF LoadSupport, Subscribe, Reload, Drain, VaultUpdate, ArrayUpdate, BatchDone,
                Scan, AnswerFails, Answer, Hydrated, Write, WriteArray, vars
  <2>2. NothingToAsk'
    BY <1>4 DEF NothingToAsk, LoadSupport, Subscribe, Reload, Drain, VaultUpdate, Process,
                ArrayUpdate, BatchDone, Scan, AnswerFails, Answer, Hydrated, Write,
                WriteArray, vars
  <2>3. AskedOrLoaded' = AskedOrLoaded
    BY <2>1 DEF AskedOrLoaded
  <2> QED
    BY <2>1, <2>2, <2>3, StaysFilled
<1> QED
  BY <1>1, <1>2, <1>3, <1>4 DEF Next, Loads, Updates, Asks

(* When the token is scanned and has a route, each venue with supporting   *)
(* accounts has as many pools asked for, or found by the load, as its      *)
(* limit allows: whichever pool is seen last, and though the accounts are  *)
(* asked for only at a first sight and only once per pool.                 *)
THEOREM RoutedAreHydrated == Spec => []RoutedPoolsHydrated
<1> DEFINE Inv == /\ TypeOK /\ IndexesAgree /\ Rounds
                  /\ ReadInOrder /\ NothingToAsk /\ LimitsFilled
<1>1. Init => Inv
  <2> SUFFICES ASSUME Init PROVE Inv
    OBVIOUS
  <2>1. TypeOK /\ IndexesAgree /\ Rounds
    BY InitType, InitIndexes, InitRounds
  <2>2. \A p \in Pools : ~Known(p)
    BY Keys DEF Init, Known
  <2>3. \A k \in Accounts : chain[k] <= MaxVersion[k[1]]
    BY Keys, MarketAssumption DEF Init
  <2>4. index = {} /\ todo = {}
    BY DEF Init
  <2>5. Cardinality({venue[p] : p \in {}}) = 0
    BY FS_EmptySet
  <2>6. ~Route(index)
    BY <2>4, <2>5, MarketAssumption DEF Route
  <2> QED
    BY <2>1, <2>2, <2>3, <2>4, <2>6 DEF ReadInOrder, NothingToAsk, LimitsFilled
<1>2. Inv /\ [Next]_vars => Inv'
  BY TypeStep, IndexStep, RoundsStep, ReadInOrderStep, LimitsStep
<1>3. Inv => RoutedPoolsHydrated
  <2> SUFFICES ASSUME Inv, phase = "scan", Route(index), NEW v \in Venues \ {"pump"}
               PROVE  Cardinality(OfVenue(index \cap (done \cup atLoad), v))
                         >= AtMost(PerVenue, Cardinality(OfVenue(index, v)))
    BY DEF RoutedPoolsHydrated
  <2>1. AskedOrLoaded = done \cup atLoad
    BY DEF NothingToAsk, AskedOrLoaded
  <2> QED
    BY <2>1 DEF LimitsFilled
<1> QED
  BY <1>1, <1>2, <1>3, PTL DEF Spec

=============================================================================
