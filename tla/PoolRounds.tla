------------------------------ MODULE PoolRounds ------------------------------
(***************************************************************************)
(* The programs that poll for pools and keep the snapshot file the bot     *)
(* reads: pool_scanner with the sources "api" and "onchain"                *)
(* (src/src/bin/pool_scanner.rs) and the wallet watcher "jd6"              *)
(* (src/src/bin/jd6_pool_watcher.rs).  By default they share their two     *)
(* files.  A round fetches what it can, merges it with the state file of   *)
(* the round before, and replaces both files, one after the other; it may  *)
(* fail or be cut off anywhere, and the operator may then start another    *)
(* program.                                                                *)
(***************************************************************************)
EXTENDS Integers, FiniteSets, SequencesExt

CONSTANTS
    Programs,               \* those the operator runs: of "api", "onchain", "jd6"
    Pools, TokenOf, VenueOf,
    Readings,               \* Readings[p]: what a round may read of a pool
    MinLiquidity, MinPair,  \* min_quote_liquidity_usdc, min_pair_liquidity_usdc
    MinTrades,              \* min_token_recent_trades_15m
    ApiMinTrades,           \* api_min_m15_trades
    MostOf,                 \* MostOf[v]: pools of a venue a token may have
    MaxTokens, MaxMisses,
    MaxCrashes              \* bound: rounds cut off

Venues == {"pumpswap", "meteora", "raydium", "whirlpool"}

ASSUME RoundsAssumption ==
    /\ Programs \subseteq {"api", "onchain", "jd6"} /\ IsFiniteSet(Pools)
    /\ VenueOf \in [Pools -> Venues]
    /\ \A p \in Pools : \A r \in Readings[p] : r.liquidity \in Nat /\ r.trades \in Nat
    /\ MinLiquidity \in Nat /\ MinPair \in Nat \ {0} /\ MinTrades \in Nat /\ ApiMinTrades \in Nat
    /\ MostOf \in [Venues -> Nat \ {0}]
    /\ MaxTokens \in Nat \ {0} /\ MaxMisses \in Nat \ {0} /\ MaxCrashes \in Nat

VARIABLES
    program,    \* the program running
    at,         \* where its round is: "idle", "update", "list", "state"
    fresh,      \* the pools this round has selected, with their readings
    next,       \* the pools it is about to write
    list,       \* the .jsonl file
    state,      \* the .snapshot file: source and entries, or none
    crashes,
    lately,     \* history: what the last rounds behind the state file selected, latest first
    found       \* history: found[s]: all that the program s has selected

vars == <<program, at, fresh, next, list, state, crashes, lately, found>>

NoPools == [p \in {} |-> 0]
NoState == [source |-> "none", pools |-> NoPools]  \* the file does not exist
TokensOf(pools) == {TokenOf[p] : p \in pools}

-----------------------------------------------------------------------------
(* The limit best of a set; what ties is taken in the order of a hash map. *)
IsBest(B, S, limit, Worth(_)) ==
    /\ Cardinality(B) = IF limit < Cardinality(S) THEN limit ELSE Cardinality(S)
    /\ \A b \in B, s \in S \ B : Worth(s) <= Worth(b)

(* A token's pools, the best of each venue.                                *)
IsLimited(B, pools, Worth(_)) ==
    \A v \in Venues : IsBest({p \in B : VenueOf[p] = v}, {p \in pools : VenueOf[p] = v}, MostOf[v], Worth)

Sum(S, f(_)) == SumFunctionOnSet([s \in S |-> f(s)], S)
Most(S, f(_)) == CHOOSE m \in {f(s) : s \in S} : \A s \in S : f(s) <= m
Worth2(a, b) == 1000 * a + b  \* ordered by a, then by b

TwoPools(pools) == Cardinality(pools) >= 2
BothVenues(pools) == {"pumpswap", "meteora"} \subseteq {VenueOf[p] : p \in pools}

(* What each program makes of a pool it has read.                          *)
ApiPool(r)     == [liquidity |-> r.liquidity, trades5 |-> r.trades \div 3, trades15 |-> r.trades, misses |-> 0]
OnchainPool(r) == [liquidity |-> r.liquidity, trades5 |-> 1 \div 3, trades15 |-> 1, misses |-> 0]
Jd6Pool(r)     == [liquidity |-> 0, trades5 |-> 0, trades15 |-> 0, misses |-> 0]

(* The selections a round may make of the usable pools.                    *)
Selections(usable, IsPaired(_), TokenWorth(_), PoolWorth(_)) ==
    LET of(t, S) == {p \in S : TokenOf[p] = t}
        tokens   == {t \in TokensOf(usable) : IsPaired(of(t, usable))}
    IN {S \in SUBSET usable :
           /\ IsBest(TokensOf(S), tokens, MaxTokens, TokenWorth) /\ TokensOf(S) \subseteq tokens
           /\ \A t \in TokensOf(S) : IsLimited(of(t, S), of(t, usable), PoolWorth)}

ApiSelections(view) ==
    LET usable == {p \in DOMAIN view : view[p].liquidity >= MinLiquidity /\ view[p].trades >= ApiMinTrades}
        pools(t) == {p \in usable : TokenOf[p] = t}
    IN Selections(usable, BothVenues,
           LAMBDA t : Worth2(Most(pools(t), LAMBDA p : view[p].liquidity), Sum(pools(t), LAMBDA p : view[p].trades)),
           LAMBDA p : Worth2(view[p].liquidity, view[p].trades))

OnchainSelections(view) ==
    LET usable == {p \in DOMAIN view : view[p].liquidity >= MinLiquidity /\ view[p].trades > 0}
        pools(t) == {p \in usable : TokenOf[p] = t}
    IN Selections(usable, TwoPools,
           LAMBDA t : Most(pools(t), LAMBDA p : view[p].liquidity), LAMBDA p : view[p].liquidity)

(* Ordered by the slots of the wallet's transactions, which may be any.    *)
Jd6Selections(view) ==
    LET usable == {p \in DOMAIN view : VenueOf[p] \in {"pumpswap", "meteora"}}
    IN Selections(usable, BothVenues, LAMBDA t : 0, LAMBDA p : 0)

(* What a round may select.  Sources that fail count as empty, so that it  *)
(* may see any part of what is there.                                      *)
Views == UNION {{v \in [seen -> UNION {Readings[p] : p \in Pools}] : \A p \in seen : v[p] \in Readings[p]} :
                   seen \in SUBSET Pools}
Selected == [s \in Programs |-> UNION {
    CASE s = "api"     -> {[p \in S |-> ApiPool(v[p])]     : S \in ApiSelections(v)}
      [] s = "onchain" -> {[p \in S |-> OnchainPool(v[p])] : S \in OnchainSelections(v)}
      [] s = "jd6"     -> {[p \in S |-> Jd6Pool(v[p])]     : S \in Jd6Selections(v)} : v \in Views}]

-----------------------------------------------------------------------------
(* update_state.  Fresh pools replace their entries; the others have been  *)
(* missed once more, and go when that is too often.                        *)
Merged(pools, f, missed) ==
    LET all == [p \in DOMAIN pools \cup DOMAIN f |->
                   IF p \in DOMAIN f THEN f[p] ELSE [pools[p] EXCEPT !.misses = @ + missed]]
    IN Restrict(all, {p \in DOMAIN all : all[p].misses < MaxMisses})

(* filter_snapshot_state_pools, for the scanner: entries that are liquid   *)
(* and traded, of tokens with two such venues.                             *)
Listable(e) == e.liquidity >= MinLiquidity /\ e.trades5 >= 1
               /\ e.trades15 >= (IF MinTrades > 1 THEN MinTrades ELSE 1)

Mutant_Paired(pools, entries) == Cardinality({p \in pools : entries[p].liquidity >= MinPair}) >= 2
Paired(pools, entries) ==
    Cardinality({VenueOf[p] : p \in {q \in pools : entries[q].liquidity >= MinPair}}) >= 2

Filtered(entries) ==
    LET of(t, S) == {p \in S : TokenOf[p] = t}
        good     == {p \in DOMAIN entries : Listable(entries[p])}
        tokens   == {t \in TokensOf(good) : Paired(of(t, good), entries)}
        worth(p) == Worth2(entries[p].trades15, entries[p].liquidity)
    IN {Restrict(entries, S) : S \in {B \in SUBSET good :
           TokensOf(B) = tokens /\ \A t \in tokens : IsLimited(of(t, B), of(t, good), worth)}}

(* The state file as the program reads it: the scanner starts anew from a  *)
(* file of another source; the watcher takes any it can parse, and cannot  *)
(* parse one without the wallet only it writes.                            *)
Mutant_Previous == state.pools
Previous == IF program = "jd6" \/ state.source = program THEN state.pools ELSE NoPools
Readable == program = "jd6" => state.source \in {"jd6", "none"}

Mutant_Missed == 1
Missed == IF program # "jd6" /\ DOMAIN fresh = {} THEN 0 ELSE 1
Updates == IF program = "jd6" THEN {Merged(Previous, fresh, Missed)}
           ELSE Filtered(Merged(Previous, fresh, Missed))

-----------------------------------------------------------------------------
Init == /\ program \in Programs /\ at = "idle" /\ fresh = NoPools /\ next = NoPools
        /\ list = {} /\ state = NoState /\ crashes = 0
        /\ lately = <<>> /\ found = [s \in Programs |-> {}]

(* Everything up to the selection.                                         *)
Fetch ==
    /\ at = "idle"
    /\ fresh' \in Selected[program]
    /\ at' = "update"
    /\ UNCHANGED <<program, next, list, state, crashes, lately, found>>

Update == /\ at = "update" /\ Readable
          /\ next' \in Updates
          /\ at' = "list"
          /\ UNCHANGED <<program, fresh, list, state, crashes, lately, found>>

WriteList == /\ at = "list"
             /\ list' = DOMAIN next
             /\ at' = "state"
             /\ UNCHANGED <<program, fresh, next, state, crashes, lately, found>>

Remembered == LET own == IF state.source = program THEN lately ELSE <<>>
                  now == IF program # "jd6" /\ DOMAIN fresh = {} THEN own ELSE <<DOMAIN fresh>> \o own
              IN IF Len(now) > MaxMisses THEN SubSeq(now, 1, MaxMisses) ELSE now

WriteState == /\ at = "state"
              /\ state' = [source |-> program, pools |-> next]
              /\ lately' = Remembered
              /\ found' = [found EXCEPT ![program] = @ \cup DOMAIN fresh]
              /\ at' = "idle" /\ fresh' = NoPools /\ next' = NoPools
              /\ UNCHANGED <<program, list, crashes>>

(* An error ends the round, anywhere before a file has been replaced.      *)
RoundFails == /\ \/ at \in {"update", "list"} /\ crashes < MaxCrashes /\ crashes' = crashes + 1
                 \/ at = "update" /\ ~Readable /\ crashes' = crashes
              /\ at' = "idle" /\ fresh' = NoPools /\ next' = NoPools
              /\ UNCHANGED <<program, list, state, lately, found>>

(* The operator stops the program and starts this or another one.          *)
Restart == /\ crashes < MaxCrashes /\ crashes' = crashes + 1
           /\ program' \in Programs
           /\ at' = "idle" /\ fresh' = NoPools /\ next' = NoPools
           /\ UNCHANGED <<list, state, lately, found>>

Next == Fetch \/ Update \/ WriteList \/ WriteState \/ RoundFails \/ Restart
Spec == Init /\ [][Next]_vars

-----------------------------------------------------------------------------
Entries == [liquidity : Nat, trades5 : Nat, trades15 : Nat, misses : 0..MaxMisses - 1]

TypeOK ==
    /\ program \in Programs /\ at \in {"idle", "update", "list", "state"}
    /\ \A f \in {fresh, next, state.pools} :
          DOMAIN f \subseteq Pools /\ \A p \in DOMAIN f : f[p] \in Entries
    /\ list \subseteq Pools /\ state.source \in Programs \cup {"none"}
    /\ crashes \in 0..MaxCrashes
    /\ Len(lately) <= MaxMisses /\ \A i \in DOMAIN lately : lately[i] \subseteq Pools
    /\ found \in [Programs -> SUBSET Pools]

(* A token in the snapshot can be traded: it has pools of two venues,      *)
(* although its pools are missed and dropped one by one, and although the  *)
(* watcher does not check this of what it keeps.                           *)
ListedInPairs ==
    \A t \in TokensOf(DOMAIN state.pools) :
        Cardinality({VenueOf[p] : p \in {q \in DOMAIN state.pools : TokenOf[q] = t}}) >= 2

(* A pool stays in the snapshot for at most MaxMisses rounds after it has  *)
(* last been selected; rounds cut off before the state file is replaced do *)
(* not count, nor, for the scanner, rounds that select nothing.            *)
ListedSeenLately ==
    \A p \in DOMAIN state.pools : \E i \in 1..Len(lately) :
        p \in lately[i] /\ state.pools[p].misses = i - 1
                        /\ \A j \in 1..(i - 1) : p \notin lately[j]

(* What a file says its source has found, that program has found, whoever  *)
(* has written the file before.                                            *)
OwnPoolsOnly == state.source # "none" => DOMAIN state.pools \subseteq found[state.source]

(* README:43 has pool_scanner fill the snapshot with POOL_SCAN_SOURCE set  *)
(* to onchain: a round that selects pools lists some.                      *)
OnchainLists ==
    [][at = "state" /\ at' = "idle" /\ state' # state /\ program = "onchain" /\ DOMAIN fresh # {}
           => DOMAIN state'.pools # {}]_vars
=============================================================================
