------------------------------ MODULE PoolScanner ------------------------------
(***************************************************************************)
(* pool_scanner with its default source "grpc" (run_grpc_scanner in        *)
(* src/src/bin/pool_scanner.rs): a set of known pools, read once at the    *)
(* start, kept by a stream of account and transaction updates, completed   *)
(* by looking up the accounts of transactions, and from time to time       *)
(* validated against the chain and written to the snapshot.  One task does *)
(* it all; while it waits for a node, messages queue up.  The RPC node is  *)
(* another than the one that streams, and may be behind it: it answers     *)
(* with the accounts as it knows them, and no slot is compared.            *)
(***************************************************************************)
EXTENDS Integers, FiniteSets, Sequences, Functions

CONSTANTS
    Accounts, TokenOf, VenueOf,  \* accounts that transactions name; pools of these tokens and venues
    Excluded,                    \* excluded_market_addresses
    Prices,                      \* what a pool account may say; 0: a price that is none
    Start,                       \* the chain at the start
    MostOf,                      \* MostOf[v]: pools of a venue a token may have
    MaxTokens,
    DirtyFlush, LookupBatch,     \* GRPC_DIRTY_FLUSH_UPDATES, GRPC_TX_LOOKUP_BATCH
    MaxStream, MaxTrades,        \* bounds: messages in flight, trades among them
    MaxWrites, MaxFaults         \* bounds: writes to the chain, faults

Venues == {"pumpswap", "meteora", "raydium", "whirlpool"}
Closed == [open |-> FALSE, price |-> 0, liquid |-> FALSE]
States == {Closed} \cup [open : {TRUE}, price : Prices, liquid : BOOLEAN]

ASSUME ScannerAssumption ==
    /\ IsFiniteSet(Accounts)
    /\ VenueOf \in [Accounts -> Venues] /\ Excluded \subseteq Accounts
    /\ Prices \subseteq Nat /\ Start \in [Accounts -> States]
    /\ MostOf \in [Venues -> Nat \ {0}] /\ MaxTokens \in Nat \ {0}
    /\ DirtyFlush \in Nat \ {0} /\ LookupBatch \in Nat \ {0}
    /\ MaxStream \in Nat \ {0} /\ MaxTrades \in Nat \ {0}
    /\ MaxWrites \in Nat /\ MaxFaults \in Nat

VARIABLES
    chain,      \* the accounts, and for pools whether their vaults hold enough
    node,       \* the accounts as the RPC node knows them
    stream,     \* messages the other node has sent
    at,         \* the task: "down", "read", "lookup", "flush", "list", "state"
    known,      \* known_pools: prices by account
    pending,    \* pending_lookup_accounts
    dirty,      \* dirty_updates
    due,        \* intervals that have run out: of "flush", "lookup"
    next,       \* the pools about to be written
    list,       \* the pools in the .jsonl file
    state,      \* the pools in the .snapshot file
    writes, faults,
    missed      \* history: pools the task has not been told the last change of,
                \* or been told again what they were before it

task == <<at, known, pending, dirty, due, next>>
files == <<list, state>>
vars == <<chain, node, stream, task, files, writes, faults, missed>>

Account(p, a) == [kind |-> "account", of |-> p, data |-> a]
Trade(p)      == [kind |-> "trade", of |-> p]
UnderWay      == {stream[i].of : i \in {j \in DOMAIN stream : stream[j].kind = "account"}}

-----------------------------------------------------------------------------
(* What the four parsers accept: of a concentrated pool the account holds  *)
(* the price, and must hold one.                                           *)
Concentrated(p) == VenueOf[p] \in {"raydium", "whirlpool"}
Mutant_Parses(p, a) == p \notin Excluded /\ (Concentrated(p) => a.price > 0)
Parses(p, a)    == a.open /\ p \notin Excluded /\ (Concentrated(p) => a.price > 0)

Without(f, p)   == Restrict(f, DOMAIN f \ {p})
Mutant_Upserted(pools, p, price) ==
    [q \in DOMAIN pools \cup {p} |-> IF q = p /\ p \notin DOMAIN pools THEN price ELSE pools[q]]
Upserted(pools, p, price) == [q \in DOMAIN pools \cup {p} |-> IF q = p THEN price ELSE pools[q]]

(* process_grpc_known_pools: what is liquid when it is read (c), by token  *)
(* the pair with the widest spread, of them the tokens with the widest,    *)
(* and of each venue no more than it may have.  A PumpSwap pool's price is *)
(* that of its vaults.  Ties are settled by trades and by the order of a   *)
(* hash map.                                                               *)
PriceOf(c, p) == IF VenueOf[p] = "pumpswap" THEN c[p].price ELSE known[p]

Pairs(c) == {bs \in (DOMAIN known) \X (DOMAIN known) :
                /\ TokenOf[bs[1]] = TokenOf[bs[2]]
                /\ c[bs[1]].liquid /\ c[bs[2]].liquid
                /\ 0 < PriceOf(c, bs[1]) /\ PriceOf(c, bs[1]) < PriceOf(c, bs[2])}
Wider(c, x, y) == (PriceOf(c, x[2]) - PriceOf(c, x[1])) * PriceOf(c, y[1])
                     > (PriceOf(c, y[2]) - PriceOf(c, y[1])) * PriceOf(c, x[1])

PairSets(c) ==
    {S \in SUBSET Pairs(c) :
        /\ Cardinality(S) <= MaxTokens
        /\ \A x, y \in S : TokenOf[x[1]] = TokenOf[y[1]] => x = y
        /\ \A x \in S, y \in Pairs(c) : TokenOf[x[1]] = TokenOf[y[1]] => ~Wider(c, y, x)
        /\ Cardinality(S) < MaxTokens =>
              \A y \in Pairs(c) : \E x \in S : TokenOf[x[1]] = TokenOf[y[1]]
        /\ \A y \in Pairs(c) : (\A x \in S : TokenOf[x[1]] # TokenOf[y[1]]) =>
              \A x \in S : ~Wider(c, y, x)}

Kept(bs) == IF VenueOf[bs[1]] = VenueOf[bs[2]] /\ MostOf[VenueOf[bs[1]]] = 1
            THEN {{bs[1]}, {bs[2]}} ELSE {{bs[1], bs[2]}}

Selections(c) ==
    UNION {{UNION {pick[x] : x \in S} :
               pick \in {f \in [S -> SUBSET Accounts] : \A x \in S : f[x] \in Kept(x)}}
           : S \in PairSets(c)}

-----------------------------------------------------------------------------
(* bootstrap_grpc_known_pools, of each program all pools or, if the node   *)
(* does not answer, none.                                                  *)
Bootstrapped == {[p \in {q \in Accounts : VenueOf[q] \in V /\ Parses(q, node[q])} |-> node[p].price] :
                    V \in SUBSET Venues}

Init == /\ chain = Start /\ node = Start /\ stream = <<>> /\ at = "down"
        /\ known \in Bootstrapped
        /\ pending = {} /\ dirty = 0 /\ due = {} /\ next = {}
        /\ list = {} /\ state = {}
        /\ writes = 0 /\ faults = 0 /\ missed = {}

(* The chain.  A pool that is closed no longer matches the filters of the  *)
(* subscription, so that the node may tell of it or not; the vaults, which *)
(* make a PumpSwap pool's price, are not subscribed.                       *)
Send(m) == stream' = IF at = "down" THEN stream ELSE Append(stream, m)

Write(p) ==
    /\ writes < MaxWrites /\ writes' = writes + 1
    /\ Len(stream) < MaxStream
    /\ \E a \in States \ {chain[p]} :
         /\ chain[p].open /\ chain' = [chain EXCEPT ![p] = a]
         /\ \/ Send(Account(p, a)) /\ missed' = IF at = "down" THEN missed \cup {p} ELSE missed \ {p}
            \/ /\ ~a.open \/ VenueOf[p] = "pumpswap"
               /\ missed' = missed \cup {p} /\ UNCHANGED stream
    /\ UNCHANGED <<node, task, files, faults>>

(* The RPC node comes to know what it has not yet. *)
CatchUp == \E p \in Accounts :
    /\ node[p] # chain[p] /\ node' = [node EXCEPT ![p] = chain[p]]
    /\ UNCHANGED <<chain, stream, task, files, writes, faults, missed>>

Behind == {p \in Accounts : node[p] # chain[p]}

SendTrade == /\ at # "down" /\ Len(stream) < MaxStream
             /\ Cardinality({i \in DOMAIN stream : stream[i].kind = "trade"}) < MaxTrades
             /\ \E p \in Accounts : Send(Trade(p))
             /\ UNCHANGED <<chain, node, task, files, writes, faults, missed>>

Connect == /\ at = "down" /\ at' = "read"
           /\ pending' = {} /\ dirty' = 0 /\ due' = {}
           /\ UNCHANGED <<chain, node, stream, known, next, files, writes, faults, missed>>

(* An error, the end of the stream, or a minute without a message.  What   *)
(* has been sent is lost, and so are the counters and the accounts to look *)
(* up; the known pools stay.                                               *)
Break == /\ faults < MaxFaults /\ faults' = faults + 1
         /\ at' = "down" /\ stream' = <<>>
Fail == /\ Break
        /\ missed' = missed \cup UnderWay

StreamLost  == at = "read" /\ Fail /\ UNCHANGED <<chain, node, known, pending, dirty, due, next, files, writes>>
LookupFails == at = "lookup" /\ Fail /\ pending' = {}
               /\ UNCHANGED <<chain, node, known, dirty, due, next, files, writes>>
FlushFails  == at \in {"flush", "list", "state"} /\ Fail
               /\ UNCHANGED <<chain, node, known, pending, dirty, due, next, files, writes>>
Restart     == /\ Break /\ known' \in Bootstrapped
               /\ pending' = {} /\ dirty' = 0 /\ due' = {} /\ next' = {} /\ missed' = Behind
               /\ UNCHANGED <<chain, node, files, writes>>

Expire(interval) == /\ at # "down" /\ interval \notin due
                    /\ due' = due \cup {interval}
                    /\ UNCHANGED <<chain, node, stream, at, known, pending, dirty, next, files, writes, faults, missed>>

-----------------------------------------------------------------------------
(* What the loop does after a message: look up, then flush.                *)
Counted(n)      == IF dirty + n > DirtyFlush THEN DirtyFlush ELSE dirty + n
Mutant_FlushNow(n) == IF n >= DirtyFlush \/ ("flush" \in due /\ n > 0) THEN "flush" ELSE "read"
FlushNow(n)     == IF n >= DirtyFlush \/ "flush" \in due THEN "flush" ELSE "read"
LookupNow(S)    == S # {} /\ (Cardinality(S) >= LookupBatch \/ "lookup" \in due)
AfterMessage(S, n) == IF LookupNow(S) THEN "lookup" ELSE FlushNow(n)

ReadAccount ==
    /\ at = "read" /\ stream # <<>>
    /\ LET m == Head(stream)
       IN /\ m.kind = "account"
          /\ IF Parses(m.of, m.data)
             THEN \E startup \in BOOLEAN :
                  /\ known' = Upserted(known, m.of, m.data.price)
                  /\ dirty' = Counted(IF startup THEN 1 ELSE 2)
                  /\ at' = AfterMessage(pending, dirty')
             ELSE /\ known' = Without(known, m.of)
                  /\ UNCHANGED <<dirty, at>>
    /\ stream' = Tail(stream)
    /\ UNCHANGED <<chain, node, pending, due, next, files, writes, faults, missed>>

ToLookUp(p) == IF p \in Excluded THEN {} ELSE {p}

ReadTrade ==
    /\ at = "read" /\ stream # <<>> /\ Head(stream).kind = "trade"
    /\ LET p == Head(stream).of
       IN IF p \in DOMAIN known
          THEN dirty' = Counted(1) /\ UNCHANGED pending
          ELSE pending' = pending \cup ToLookUp(p) /\ UNCHANGED dirty
    /\ at' = AfterMessage(pending', dirty')
    /\ stream' = Tail(stream)
    /\ UNCHANGED <<chain, node, known, due, next, files, writes, faults, missed>>

(* hydrate_pending_grpc_pool_accounts: what the RPC node answers replaces  *)
(* what is known.                                                          *)
Found == {p \in pending : Parses(p, node[p])}
Mutant_Hydrated == [p \in DOMAIN known |-> IF p \in Found THEN node[p].price ELSE known[p]]
Hydrated == [p \in DOMAIN known \cup Found |-> IF p \in Found THEN node[p].price ELSE known[p]]

Lookup == /\ at = "lookup"
          /\ known' = Hydrated
          /\ dirty' = Counted(Cardinality(Found))
          /\ pending' = {} /\ due' = due \ {"lookup"}
          /\ missed' = (missed \ (Found \ UnderWay)) \cup ((Found \ UnderWay) \cap Behind)
          /\ at' = FlushNow(dirty')
          /\ UNCHANGED <<chain, node, stream, next, files, writes, faults>>

Flushed == dirty' = 0 /\ due' = due \ {"flush"} /\ at' = "read" /\ next' = {}

FlushNothing == /\ at = "flush" /\ DOMAIN known = {} /\ Flushed
                /\ UNCHANGED <<chain, node, stream, known, pending, files, writes, faults, missed>>

Flush == /\ at = "flush" /\ DOMAIN known # {}
         /\ next' \in Selections(node)
         /\ at' = "list"
         /\ UNCHANGED <<chain, node, stream, known, pending, dirty, due, files, writes, faults, missed>>

WriteList == /\ at = "list" /\ list' = next /\ at' = "state"
             /\ UNCHANGED <<chain, node, stream, known, pending, dirty, due, next, state, writes, faults, missed>>

WriteState == /\ at = "state" /\ state' = next /\ Flushed
              /\ UNCHANGED <<chain, node, stream, known, pending, list, writes, faults, missed>>

Read == ReadAccount \/ ReadTrade
Finish == Lookup \/ FlushNothing \/ Flush \/ WriteList \/ WriteState
Next == \/ \E p \in Accounts : Write(p)
        \/ CatchUp \/ SendTrade \/ Connect \/ StreamLost \/ LookupFails \/ FlushFails \/ Restart
        \/ \E interval \in {"flush", "lookup"} : Expire(interval)
        \/ Read \/ Finish

(* The task is always ready to run; some monitored program always trades;  *)
(* the RPC node comes to know every change.                                *)
Spec == Init /\ [][Next]_vars /\ WF_vars(Connect) /\ WF_vars(Read) /\ WF_vars(Finish)
        /\ WF_vars(SendTrade) /\ WF_vars(CatchUp)
        /\ \A interval \in {"flush", "lookup"} : WF_vars(Expire(interval))

-----------------------------------------------------------------------------
Messages == {Trade(p) : p \in Accounts} \cup {Account(p, a) : p \in Accounts, a \in States}

TypeOK ==
    /\ chain \in [Accounts -> States] /\ node \in [Accounts -> States]
    /\ stream \in Seq(Messages) /\ Len(stream) <= MaxStream
    /\ at \in {"down", "read", "lookup", "flush", "list", "state"}
    /\ DOMAIN known \subseteq Accounts \ Excluded
    /\ \A p \in DOMAIN known : known[p] \in Prices /\ (Concentrated(p) => known[p] > 0)
    /\ pending \subseteq Accounts \ Excluded
    /\ dirty \in 0..DirtyFlush /\ due \subseteq {"flush", "lookup"}
    /\ next \subseteq Accounts /\ list \subseteq Accounts /\ state \subseteq Accounts
    /\ writes \in 0..MaxWrites /\ faults \in 0..MaxFaults /\ missed \subseteq Accounts

(* Pools arrive by three ways, start, stream and lookup, which overtake    *)
(* each other, and the answers of the RPC node may be older than what they *)
(* replace.  A known pool with no message under way is as it is on the     *)
(* chain, unless its last change was made while the stream was down, or    *)
(* lost with it, or closed the pool unannounced, or an older answer came   *)
(* when no message about the pool was left: one that overtakes messages is *)
(* put right by them, and one that comes later stays until the next.       *)
KnownIsCurrent ==
    \A p \in DOMAIN known \ missed :
        (\A i \in DOMAIN stream : stream[i] # Account(p, chain[p])) =>
            Parses(p, chain[p]) /\ known[p] = chain[p].price

(* Once faults and changes have stopped the snapshot settles to what the   *)
(* known pools make: no change stays unwritten because it came with too    *)
(* few others, or before a reconnect that has reset the counters.  (Unless *)
(* no pool is known: then nothing is written, see pool_scanner.rs:1366.)   *)
SnapshotSettles == <>[](DOMAIN known = {} \/ at # "read" \/ state \in Selections(chain))

(* An account that keeps trading and is a pool is known in the end,        *)
(* although lookups fail and what was to be looked up is lost.             *)
Traded(p) == at = "read" /\ stream # <<>> /\ Head(stream) = Trade(p)
TradedIsKnown == \A p \in Accounts :
    []<>Traded(p) => []<>(p \in DOMAIN known \/ ~Parses(p, chain[p]))
=============================================================================
