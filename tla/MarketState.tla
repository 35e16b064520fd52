---------------------------- MODULE MarketState ----------------------------
(***************************************************************************)
(* The market state of the main loop (src/src/main.rs): which pools are    *)
(* known, their reserves, the indexes that lead from a vault or a tick or  *)
(* bin array to its pool, how all of it is loaded by RPC, followed by the  *)
(* stream, and completed by RPC when a pool is first seen.                 *)
(*                                                                         *)
(* The pools here are those of one token.  A pool has one account of       *)
(* reserves (of two vaults one stands for both: they are handled alike)    *)
(* and one array around its position.  Contents are versions: the content  *)
(* of a pool is its position, that of a vault its reserve.  The stream is  *)
(* what LatestMailbox allows while it stays up: newest versions, some in   *)
(* between skipped.  It begins with the writes after the subscription, so  *)
(* it is never behind what the load read; the answers of the RPC may be    *)
(* behind it by any number of writes.  Listed accounts parse, since        *)
(* build_subscription_accounts has classified them by their content.       *)
(***************************************************************************)
EXTENDS Naturals, FiniteSets

CONSTANTS
    Pools,
    VenueChoices,  \* the venues of the pools: a set of functions
    PerVenue,      \* per_venue_limit, meteora_limit
    MinVenues,     \* min_routeable_dex_count.max(2)
    MaxTracked,    \* max_*_tracked_*_arrays_per_pool
    MaxVersion,    \* bound: the writes of a pool account, and of a vault
    None

Venues == {"pump", "pumpswap", "raydium", "meteora", "whirlpool"}
Versions == UNION {0..MaxVersion[k] : k \in {"pool", "vault"}}

ASSUME MarketAssumption ==
    /\ IsFiniteSet(Pools)
    /\ VenueChoices \subseteq [Pools -> Venues]
    /\ PerVenue \in Nat \ {0} /\ MaxTracked \in Nat \ {0}
    /\ MinVenues \in Nat \ {0, 1}
    /\ MaxVersion \in [{"pool", "vault"} -> Nat]
    /\ None \notin Versions

Accounts == {"pool", "vault"} \X Pools

VARIABLES
    venue,      \* the venue of each pool
    chain,      \* the version of each account on chain
    phase,      \* where the main loop is
    listed,     \* the pools the snapshot lists
    held,       \* *_state: the version known of each account
    index,      \* *_by_token: the pools of the path graph
    vaultMap,   \* *_vault_to_pool: the pools whose vault is known
    tracked,    \* *_array_to_pool: pairs of a pool and a position
    arrays,     \* the arrays whose content is known
    followed,   \* the accounts of the subscription
    arraysFollowed,
    box,        \* the newest version the stream has delivered
    taken,      \* the newest version taken out of the channel
    arrayBox,   \* the arrays with an update in the channel
    batch,      \* drained updates not yet processed
    done,       \* hydrated_supporting_pools
    todo,       \* pools the current first sight has still to hydrate
    answer,     \* what the RPC has read for a pool and not yet returned
    overtaken,  \* history: pools whose reserve an older answer has replaced
    dirty,      \* the token is marked for a scan
    atLoad,     \* history: the pools the last load has found
    base        \* history: the chain when the subscription began

channel == <<box, taken, arrayBox>>
maps    == <<index, vaultMap, tracked>>
fixed   == <<venue, listed, followed, arraysFollowed, atLoad, base>>
rpc     == <<done, todo, answer, overtaken>>
vars == <<fixed, chain, phase, held, maps, arrays, channel, batch, rpc, dirty>>

HasVault(p)  == venue[p] \in {"pumpswap", "raydium", "meteora"}
HasArrays(p) == venue[p] \in {"raydium", "meteora", "whirlpool"}
Capped(p)    == venue[p] \in {"raydium", "meteora"}
Known(p)     == held[<<"pool", p>>] # None

(* pump_curve_is_active: a pump curve ends at its last position. *)
Active(p, v) == venue[p] = "pump" => v < MaxVersion["pool"]

(* token_has_program_pair_route *)
Route(S) == Cardinality({venue[p] : p \in S}) >= MinVenues

AtMost(m, n) == IF m <= n THEN m ELSE n
OfVenue(S, v) == {p \in S : venue[p] = v}

(* limited_token_pools, for every venue with supporting accounts.          *)
Limited(S) ==
    {H \in SUBSET {p \in S : venue[p] # "pump"} :
        \A v \in Venues \ {"pump"} :
            Cardinality(OfVenue(H, v)) = AtMost(PerVenue, Cardinality(OfVenue(S, v)))}

(* The arrays near a position are added, up to the pool's cap: none is     *)
(* ever removed.                                                           *)
Track(p, v) ==
    IF HasArrays(p) /\ (Capped(p) =>
            Cardinality({x \in tracked : x[1] = p}) < MaxTracked)
      THEN tracked \cup {<<p, v>>} ELSE tracked

-----------------------------------------------------------------------------
Init == /\ venue \in VenueChoices
        /\ chain = [k \in Accounts |-> 0]
        /\ phase = "load"
        /\ listed = {} /\ index = {} /\ vaultMap = {} /\ tracked = {}
        /\ held = [k \in Accounts |-> None]
        /\ arrays = {} /\ followed = {} /\ arraysFollowed = {}
        /\ box = chain /\ taken = chain /\ arrayBox = {}
        /\ batch = <<>>
        /\ done = {} /\ todo = {} /\ answer = None /\ overtaken = {}
        /\ dirty = FALSE
        /\ atLoad = {} /\ base = chain

-----------------------------------------------------------------------------
(* The chain and the stream. *)

Exists(k) == k[1] = "vault" => HasVault(k[2])

Write(k) == /\ Exists(k) /\ chain[k] < MaxVersion[k[1]]
            /\ chain' = [chain EXCEPT ![k] = @ + 1]
            /\ box' = IF k \in followed THEN [box EXCEPT ![k] = chain[k] + 1] ELSE box
            /\ UNCHANGED <<fixed, phase, held, maps, arrays, taken, arrayBox, batch,
                           rpc, dirty>>

WriteArray(x) == /\ x \in arraysFollowed \ arrayBox
                 /\ arrayBox' = arrayBox \cup {x}
                 /\ UNCHANGED <<fixed, chain, phase, held, maps, arrays, box, taken,
                                batch, rpc, dirty>>

-----------------------------------------------------------------------------
(* The RPC is a node of its own, asked at "processed": it answers with the *)
(* chain as it knows it, which may be behind what the stream delivers, and *)
(* no slot is compared.                                                    *)

Readable(k) == 0..chain[k]
Readings(kind, P) == {seen \in [P -> Versions] :
                         \A p \in P : seen[p] \in Readable(<<kind, p>>)}

(* hydrate_initial_state, at the start and in a reload: all maps are       *)
(* cleared, then the listed accounts are read, then what hangs on them.    *)
(* Each read may fail or leave accounts out: `seen' is what it returns.    *)

Mutant_VaultsOf(found) == vaultMap \cup {p \in found : HasVault(p)}
VaultsOf(found) == {p \in found : HasVault(p)}

LoadPools(S, seen) ==
    LET found == DOMAIN seen
    IN  /\ phase = "load"
        /\ found \subseteq S
        /\ listed' = S /\ atLoad' = found
        /\ held' = [k \in Accounts |->
                       IF k[1] = "pool" /\ k[2] \in found THEN seen[k[2]] ELSE None]
        /\ index' = {p \in found : Active(p, seen[p])}
        /\ vaultMap' = VaultsOf(found)
        /\ tracked' = {<<p, seen[p]>> : p \in {q \in found : HasArrays(q)}}
        /\ arrays' = {}
        /\ done' = {} /\ overtaken' = {}
        /\ phase' = "support"
        /\ UNCHANGED <<venue, chain, followed, arraysFollowed, base, channel, batch, todo,
                       answer, dirty>>

LoadSupport(seen, A) ==
    /\ phase = "support"
    /\ A \subseteq tracked
    /\ held' = [k \in Accounts |->
                   IF k[1] = "vault" /\ k[2] \in DOMAIN seen THEN seen[k[2]] ELSE held[k]]
    /\ arrays' = A
    /\ phase' = "subscribe"
    /\ UNCHANGED <<fixed, chain, maps, channel, batch, rpc, dirty>>

(* subscribe_current_accounts: a new channel, over the listed pools and    *)
(* what the maps hold now; nothing is replayed.                            *)
Mutant_NewChannel == /\ box' = chain /\ taken' = chain /\ base' = chain
                     /\ UNCHANGED arrayBox
NewChannel == /\ box' = chain /\ taken' = chain /\ base' = chain
              /\ arrayBox' = {}

Subscribe ==
    /\ phase = "subscribe"
    /\ followed' = ({"pool"} \X listed) \cup ({"vault"} \X vaultMap)
    /\ arraysFollowed' = tracked
    /\ NewChannel
    /\ dirty' = Route(index)
    /\ phase' = "select"
    /\ UNCHANGED <<venue, listed, atLoad, chain, held, maps, arrays, batch, rpc>>

Reload == /\ phase = "select"
          /\ phase' = "load"
          /\ UNCHANGED <<fixed, chain, held, maps, arrays, channel, batch, rpc, dirty>>

-----------------------------------------------------------------------------
(* A round of the loop: drain, process each update, scan. *)

Pending == {k \in Accounts : taken[k] < box[k]}

Drain(D) ==
    /\ phase = "select"
    /\ D \subseteq Pending
    /\ D # {} \/ arrayBox # {}
    /\ batch' \in [D -> Versions]
    /\ \A k \in D : taken[k] < batch'[k] /\ batch'[k] <= box[k]
    /\ taken' = [k \in Accounts |-> IF k \in D THEN batch'[k] ELSE taken[k]]
    /\ phase' = "batch"
    /\ UNCHANGED <<fixed, chain, held, maps, arrays, box, arrayBox, rpc, dirty>>

Process(k) == /\ phase = "batch" /\ k \in DOMAIN batch
              /\ batch' = [j \in DOMAIN batch \ {k} |-> batch[j]]

Mutant_FirstSeen(p) == held[<<"pool", p>>] # None
FirstSeen(p) == ~Known(p)

(* A pool account; on its first sight, if its token has a route, the       *)
(* supporting accounts of the token's pools are hydrated.                  *)
PoolUpdate(p) ==
    LET k == <<"pool", p>>
        v == batch[k]
    IN  /\ Process(k)
        /\ held' = [held EXCEPT ![k] = v]
        /\ index' = IF Active(p, v) THEN index \cup {p} ELSE index \ {p}
        /\ vaultMap' = vaultMap \cup VaultsOf({p})
        /\ tracked' = Track(p, v)
        /\ dirty' = TRUE
        /\ IF FirstSeen(p) /\ Route(index')
             THEN /\ \E H \in Limited(index') : todo' = H \ done
                  /\ phase' = IF todo' = {} THEN "batch" ELSE "hydrate"
             ELSE UNCHANGED <<todo, phase>>
        /\ UNCHANGED <<fixed, chain, arrays, channel, done, answer, overtaken>>

(* A vault leads to its pool, whose reserve it sets. *)
Mutant_Mark == UNCHANGED dirty
Mark == dirty' = TRUE

VaultUpdate(p) ==
    LET k == <<"vault", p>>
    IN  /\ Process(k)
        /\ IF p \in vaultMap /\ Known(p)
             THEN /\ held' = [held EXCEPT ![k] = batch[k]]
                  /\ overtaken' = overtaken \ {p}
                  /\ Mark
             ELSE UNCHANGED <<held, overtaken, dirty>>
        /\ UNCHANGED <<fixed, chain, phase, maps, arrays, channel, done, todo, answer>>

(* An array is stored; it marks no token. *)
ArrayUpdate(x) ==
    /\ phase = "batch" /\ x \in arrayBox
    /\ arrays' = arrays \cup {x}
    /\ arrayBox' = arrayBox \ {x}
    /\ UNCHANGED <<fixed, chain, phase, held, maps, box, taken, batch, rpc, dirty>>

BatchDone == /\ phase = "batch" /\ DOMAIN batch = {}
             /\ phase' = "scan"
             /\ UNCHANGED <<fixed, chain, held, maps, arrays, channel, batch, rpc, dirty>>

Scan == /\ phase = "scan"
        /\ dirty' = FALSE
        /\ phase' = "select"
        /\ UNCHANGED <<fixed, chain, held, maps, arrays, channel, batch, rpc>>

-----------------------------------------------------------------------------
(* hydrate_*_pool_supporting_accounts: the pool counts as hydrated before  *)
(* the RPC is asked, and whatever it answers.  The loop waits; the chain   *)
(* and the stream do not.                                                  *)

Ask(p) == /\ phase = "hydrate" /\ answer = None /\ p \in todo
          /\ done' = done \cup {p}
          /\ todo' = todo \ {p}
          /\ \E v \in Readable(<<"vault", p>>) : answer' = [pool |-> p, reserve |-> v]
          /\ UNCHANGED <<fixed, chain, phase, held, maps, arrays, channel, batch,
                         overtaken, dirty>>

Mutant_Hydrated == /\ answer' = None
                   /\ phase' = IF todo = {} THEN "batch" ELSE "hydrate"
                   /\ batch' = [k \in DOMAIN batch \ {<<"vault", answer.pool>>} |-> batch[k]]
                   /\ UNCHANGED <<fixed, chain, maps, channel, done, todo, dirty>>
Hydrated == /\ answer' = None
            /\ phase' = IF todo = {} THEN "batch" ELSE "hydrate"
            /\ UNCHANGED <<fixed, chain, maps, channel, batch, done, todo, dirty>>

(* The answer replaces the reserve, whatever it was. *)
Answer(A) ==
    LET p == answer.pool
        k == <<"vault", p>>
    IN  /\ phase = "hydrate" /\ answer # None
        /\ A \subseteq {x \in tracked : x[1] = p}
        /\ IF HasVault(p)
             THEN /\ held' = [held EXCEPT ![k] = answer.reserve]
                  /\ overtaken' = IF held[k] # None /\ answer.reserve < held[k]
                                     THEN overtaken \cup {p} ELSE overtaken
             ELSE UNCHANGED <<held, overtaken>>
        /\ arrays' = arrays \cup A
        /\ Hydrated

AnswerFails == /\ phase = "hydrate" /\ answer # None
               /\ Hydrated
               /\ UNCHANGED <<held, arrays, overtaken>>

-----------------------------------------------------------------------------
Loads   == \/ \E S \in (SUBSET Pools) \ {{}} : \E found \in SUBSET S :
                \E seen \in Readings("pool", found) : LoadPools(S, seen)
           \/ \E V \in SUBSET vaultMap, A \in SUBSET tracked :
                \E seen \in Readings("vault", V) : LoadSupport(seen, A)
           \/ Subscribe \/ Reload
Updates == \/ \E D \in SUBSET Pending : Drain(D)
           \/ \E p \in Pools : PoolUpdate(p) \/ VaultUpdate(p)
           \/ \E x \in arrayBox : ArrayUpdate(x)
           \/ BatchDone \/ Scan
Asks    == \/ \E p \in todo : Ask(p)
           \/ \E A \in SUBSET tracked : Answer(A)
           \/ AnswerFails

Next == \/ Loads \/ Updates \/ Asks
        \/ \E k \in Accounts : Write(k)
        \/ \E x \in arraysFollowed : WriteArray(x)

Spec == Init /\ [][Next]_vars

-----------------------------------------------------------------------------
Places == Pools \X Versions

TypeOK ==
    /\ venue \in VenueChoices
    /\ chain \in [Accounts -> Versions] /\ base \in [Accounts -> Versions]
    /\ phase \in {"load", "support", "subscribe", "select", "batch", "hydrate", "scan"}
    /\ held \in [Accounts -> Versions \cup {None}]
    /\ listed \subseteq Pools /\ atLoad \subseteq listed /\ index \subseteq Pools
    /\ vaultMap \subseteq Pools /\ done \subseteq Pools /\ todo \subseteq Pools
    /\ overtaken \subseteq Pools
    /\ tracked \subseteq Places /\ arrays \subseteq Places
    /\ followed \subseteq Accounts
    /\ arraysFollowed \subseteq Places /\ arrayBox \subseteq arraysFollowed
    /\ box \in [Accounts -> Versions] /\ taken \in [Accounts -> Versions]
    /\ \A k \in Accounts : taken[k] <= box[k] /\ box[k] <= chain[k]
    /\ DOMAIN batch \subseteq Accounts /\ \A k \in DOMAIN batch : batch[k] \in Versions
    /\ answer = None \/ answer \in [pool : Pools, reserve : Versions]
    /\ dirty \in BOOLEAN

(* The maps speak of the known pools and of nothing else: no vault update  *)
(* of the subscription misses its pool, nothing of a pool a reload dropped *)
(* is left, and no pool tracks more arrays than it may.                    *)
IndexesAgree ==
    /\ index \subseteq {p \in Pools : Known(p)}
    /\ vaultMap = {p \in Pools : Known(p) /\ HasVault(p)}
    /\ \A x \in tracked : Known(x[1]) /\ HasArrays(x[1])
    /\ arrays \subseteq tracked
    /\ phase \notin {"load", "support", "subscribe"} =>
          /\ \A p \in Pools : <<"vault", p>> \in followed => p \in vaultMap
          /\ arraysFollowed \subseteq tracked
    /\ \A p \in Pools : Capped(p) =>
          Cardinality({x \in tracked : x[1] = p}) <= MaxTracked

(* Whatever changes a known position or reserve outside a reload leaves    *)
(* the token marked, the answers of the RPC included, which mark nothing   *)
(* themselves.                                                             *)
ChangesAreMarked ==
    [][ phase \notin {"load", "support"} =>
          \A k \in Accounts : held'[k] # held[k] => dirty' ]_vars

(* When the token is scanned and has a route, each of its venues has as    *)
(* many pools as the limit allows whose supporting accounts were asked     *)
(* for: by the load that found the pool, or at a first sight.              *)
RoutedPoolsHydrated ==
    phase = "scan" /\ Route(index) =>
        \A v \in Venues \ {"pump"} :
            Cardinality(OfVenue(index \cap (done \cup atLoad), v))
               >= AtMost(PerVenue, Cardinality(OfVenue(index, v)))

(* All delivered updates of a followed vault are processed, and at least   *)
(* one came since the subscription began.                                  *)
Drained(p) ==
    LET k == <<"vault", p>>
    IN  /\ phase \notin {"load", "support", "subscribe"}
        /\ k \in followed /\ box[k] > base[k]
        /\ taken[k] = box[k] /\ k \notin DOMAIN batch

(* Of the ways in which RPC answers and updates can cross, only one leaves *)
(* a drained reserve stale: an answer older than the state it replaced,    *)
(* and only until the pool's next update.  An answer in the midst of a     *)
(* batch, one newer than a queued update that then replaces it, one that   *)
(* fails, and updates drained before the answer and processed after it, do *)
(* no harm: the pool has the newest delivered reserve.                     *)
CurrentWhenDrained ==
    \A p \in Pools : Drained(p) /\ p \notin overtaken =>
        held[<<"vault", p>>] = box[<<"vault", p>>]

-----------------------------------------------------------------------------
(* What the documentation promises and the code does not keep.             *)

(* A pool of the path graph has its reserves subscribed. *)
RoutedPoolsFollowed ==
    phase = "scan" => \A p \in index : HasVault(p) => <<"vault", p>> \in followed

(* A drained reserve is the newest delivered one.  An older answer of the  *)
(* RPC replaces it and stays until the next update of the vault.           *)
AlwaysCurrent ==
    \A p \in Pools : Drained(p) => held[<<"vault", p>>] = box[<<"vault", p>>]

=============================================================================
