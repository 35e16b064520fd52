---------------------------- MODULE PlanFunding ----------------------------
(***************************************************************************)
(* The setup of a direct plan (src/src/main.rs): which token accounts it   *)
(* creates, how much sol it wraps and whether it initializes the bitmap    *)
(* extension, decided from cached readings while transactions sent before  *)
(* are still in the air and may land at any moment.  The quote is wrapped  *)
(* sol; plans against USDC are neither capped nor funded.  The wallet is   *)
(* used by the bot alone and nothing closes an account of it.              *)
(***************************************************************************)
EXTENDS Integers, Sequences, SequencesExt

CONSTANTS
    Families,          \* which builders are in use
    Inputs,            \* amounts quoted as input
    Gains,             \* what a trade brings beyond what it pays
    Cap,               \* the largest input of the trade size
    RaiseBps,          \* PUMPSWAP_RAYDIUM_PUMP_BUY_MAX_QUOTE_BPS above 10000
    ProfitPct,         \* pumpswap_meteora_enforced_profit_pct
    SlippagePct,       \* of execution_min_output
    Cost,              \* gas and configured tip, in sol
    AllowInit,         \* ALLOW_METEORA_BITMAP_EXTENSION_INIT
    Balances,          \* balances at the start
    MaxBalance,        \* bound: no plan is begun above it
    MaxFlights         \* bound: transactions in the air

Builders == {"PumpMeteora", "PumpToMeteoraCalibrated", "MeteoraToPumpCalibrated",
             "MeteoraRaydium", "RaydiumWhirlpool", "PumpToClmm", "ClmmToPump",
             "MeteoraWhirlpool", "MeteoraMeteora"}

ASSUME FundingAssumption ==
    /\ Families \subseteq Builders
    /\ Inputs \subseteq Nat \ {0} /\ Gains \subseteq Int /\ Cap \in Nat
    /\ RaiseBps \in Nat /\ ProfitPct \in Nat /\ SlippagePct \in 0..99 /\ Cost \in Nat
    /\ AllowInit \in BOOLEAN /\ Balances \subseteq Nat
    /\ MaxBalance \in Nat /\ MaxFlights \in Nat \ {0}

VARIABLES
    exists,     \* the wallet's token accounts on the chain
    balance,    \* what the quote account holds there
    extended,   \* the pool's bitmap extension is initialized
    listed,     \* ATA_EXISTENCE_CACHE
    amount,     \* TOKEN_ACCOUNT_BALANCE_CACHE of the quote account
    bitmap,     \* METEORA_BITMAP_EXTENSION_CACHE
    at,         \* "idle", "building", "built", "ready"
    draft,      \* the SimulationInstructionPlan, as far as it is built
    held,       \* the setup the caller sends with
    flights     \* sent and not decided

chain == <<exists, balance, extended>>
caches == <<listed, amount, bitmap>>
fundingVars == <<chain, caches, at, draft, held, flights>>

Accounts == {"quote", "token"}
Unread == -2
NoAccount == -1
Most(a, b) == IF a >= b THEN a ELSE b
CeilDiv(a, b) == (a + b - 1) \div b

-----------------------------------------------------------------------------
(* What each builder does, in its order.                                   *)
PumpMeteora == <<"balance", "create", "wrap", "bitmap">>
PumpMeteoraCalibrated(last) == <<"balance", "create", "wrap", "bitmap", last>>
MeteoraRaydium == <<"accounts", "balance", "wrap", "bitmap">>
RaydiumWhirlpool == <<"accounts", "balance", "wrap">>
PumpClmm == <<"balance", "accounts", "wrap">>
MeteoraWhirlpool == <<"accounts", "balance", "require">>
MeteoraMeteora == <<"accounts", "balance", "require">>

StepsOf(family) ==
    CASE family = "PumpMeteora" -> PumpMeteora
      [] family = "PumpToMeteoraCalibrated" -> PumpMeteoraCalibrated("calibrate_sell")
      [] family = "MeteoraToPumpCalibrated" -> PumpMeteoraCalibrated("calibrate_pump")
      [] family = "MeteoraRaydium" -> MeteoraRaydium
      [] family = "RaydiumWhirlpool" -> RaydiumWhirlpool
      [] family \in {"PumpToClmm", "ClmmToPump"} -> PumpClmm
      [] family = "MeteoraWhirlpool" -> MeteoraWhirlpool
      [] family = "MeteoraMeteora" -> MeteoraMeteora

Calibrated(family) == family \in {"PumpToMeteoraCalibrated", "MeteoraToPumpCalibrated"}
OfPair(family) == family = "PumpMeteora" \/ Calibrated(family)

(* PumpSwap to CLMM buys an exact amount and may pay a raised quote for it; *)
(* what comes back is bounded below by the instructions of these two.      *)
Raised(input) == CeilDiv(input * (10000 + RaiseBps), 10000)
Mutant_PumpToClmmTerms(input) == [need |-> Raised(input), least |-> 1]
PumpToClmmTerms(input) == [need |-> Raised(input), least |-> Raised(input) + Cost + 1]
ClmmToPumpTerms(input) == [need |-> input, least |-> input + Cost + 1]
TermsOf(family, input) ==
    CASE family = "PumpToClmm" -> PumpToClmmTerms(input)
      [] family = "ClmmToPump" -> ClmmToPumpTerms(input)
      [] OTHER -> [need |-> input, least |-> 1]

LegMin(n) == Most((Most(n, 1) * (100 - SlippagePct)) \div 100, 1)
AboveInput(n) == IF ProfitPct = 0 THEN 1 ELSE Most(CeilDiv(n * (100 + ProfitPct), 100), n + 1)

-----------------------------------------------------------------------------
(* Instructions and what the chain makes of them.                          *)
Create(account) == [op |-> "create", what |-> account]
Transfer(n) == [op |-> "transfer", n |-> n]
Sync == [op |-> "sync"]
InitExtension == [op |-> "init"]
TwoHop == [op |-> "two_hop"]
TradeOf(family) ==
    IF family = "PumpToClmm" THEN <<[op |-> "buy"], [op |-> "sell"]>> ELSE <<TwoHop>>
IsSetup(i) == i.op \in {"create", "transfer", "sync", "init"}

Run(s, i) ==
    IF s.failed # "none" \/ ~IsSetup(i) THEN s
    ELSE IF i.op \in {"transfer", "sync"} /\ "quote" \notin s.exists
         THEN [s EXCEPT !.failed = "missing"]
    ELSE CASE i.op = "create"   -> [s EXCEPT !.exists = @ \cup {i.what}]
           [] i.op = "init"     -> IF s.extended THEN [s EXCEPT !.failed = "init"]
                                                 ELSE [s EXCEPT !.extended = TRUE]
           [] i.op = "transfer" -> [s EXCEPT !.loose = @ + i.n]
           [] i.op = "sync"     -> [s EXCEPT !.balance = @ + s.loose, !.loose = 0]

Now == [exists |-> exists, balance |-> balance, extended |-> extended, loose |-> 0, failed |-> "none"]
After(instructions) ==
    LET after[k \in 0..Len(instructions)] ==
            IF k = 0 THEN Now ELSE Run(after[k - 1], instructions[k])
    IN after[Len(instructions)]

(* What the trade itself needs of the chain as the setup leaves it.        *)
Ready(s, flight) ==
    /\ s.exists = Accounts /\ s.balance >= flight.need
    /\ flight.extension => s.extended

(* The executor keeps a trade that gains its least profit of at least one; *)
(* PumpSwap to CLMM is sent without it, and only its last leg checks.      *)
Kept(flight, paid, gain) ==
    /\ Contains(flight.ops, TwoHop) => gain >= 1
    /\ paid + gain >= flight.least

-----------------------------------------------------------------------------
NoPlan == [family |-> "none"]
Begin(family, input, round) ==
    [family |-> family, input |-> input, round |-> round, todo |-> StepsOf(family),
     start |-> 0, setup |-> <<>>, terms |-> TermsOf(family, input), extension |-> FALSE,
     out |-> 0, seen |-> 0]

FundingInit ==
    /\ exists \in SUBSET Accounts /\ extended \in BOOLEAN
    /\ balance \in IF "quote" \in exists THEN Balances ELSE {0}
    /\ listed = {} /\ amount = Unread /\ bitmap = "unread"
    /\ at = "idle" /\ draft = NoPlan /\ held = <<>> /\ flights = <<>>

Start(family, input) ==
    /\ at = "idle" /\ balance <= MaxBalance
    /\ draft' = Begin(family, input, 0) /\ at' = "building"
    /\ UNCHANGED <<chain, caches, held, flights>>

(* A step of the builder, with its plan afterwards.                        *)
Step(name, new) ==
    /\ at = "building" /\ Head(draft.todo) = name
    /\ draft' = [new EXCEPT !.todo = Tail(@)]
    /\ at' = IF Len(draft.todo) = 1 THEN "built" ELSE "building"
    /\ held' = IF Len(draft.todo) = 1 /\ draft.round # 1 THEN new.setup ELSE held
    /\ UNCHANGED <<chain, flights>>

(* cached_token_account_amounts: an answer is kept whatever it says.       *)
Mutant_OnChain == balance
OnChain == IF "quote" \in exists THEN balance ELSE NoAccount
Amount == IF amount = Unread THEN OnChain ELSE amount
Value(read) == IF read = NoAccount THEN 0 ELSE read

ReadBalance ==
    /\ Step("balance", [draft EXCEPT !.start = Value(Amount)])
    /\ amount' = Amount /\ UNCHANGED <<listed, bitmap>>

(* push_ata_setup: nothing is created for an account known to exist.       *)
CreateFor(known) ==
    (IF "quote" \in known THEN <<>> ELSE <<Create("quote")>>) \o
    (IF "token" \in known THEN <<>> ELSE <<Create("token")>>)

CreateBoth == /\ Step("create", [draft EXCEPT !.setup = @ \o CreateFor({})])
              /\ UNCHANGED caches

(* existing_associated_token_accounts: only what exists is remembered; one *)
(* switch has every account created again.                                 *)
ReadAccounts ==
    \/ /\ Step("accounts", [draft EXCEPT !.setup = @ \o CreateFor(listed \cup exists)])
       /\ listed' = listed \cup exists /\ UNCHANGED <<amount, bitmap>>
    \/ /\ Step("accounts", [draft EXCEPT !.setup = @ \o CreateFor({})]) /\ UNCHANGED caches

(* prepare_wrapped_sol_input: the shortfall of a cached balance.           *)
Mutant_Shortfall(need, known) == IF known = 0 THEN need ELSE 0
Shortfall(need, known) == Most(need - known, 0)
Funding(need) ==
    LET short == Shortfall(need, Value(Amount))
    IN (IF short > 0 THEN <<Transfer(short)>> ELSE <<>>) \o <<Sync>>

Wrap == /\ draft # NoPlan /\ draft.terms.need <= Cap
        /\ Step("wrap", [draft EXCEPT !.setup = @ \o Funding(draft.terms.need)])
        /\ amount' = Amount /\ UNCHANGED <<listed, bitmap>>

(* ensure_existing_associated_token_account_balance.                       *)
Require == /\ draft # NoPlan /\ draft.terms.need <= Cap
           /\ Amount # NoAccount /\ Value(Amount) >= draft.terms.need
           /\ Step("require", draft)
           /\ amount' = Amount /\ UNCHANGED <<listed, bitmap>>

(* maybe_prepare_meteora_bitmap_extension_setup: only a cached yes spares  *)
(* the reading.                                                            *)
PrepareBitmap ==
    LET known == bitmap = "yes" \/ extended
    IN /\ Step("bitmap", [draft EXCEPT !.extension = known \/ AllowInit,
                          !.setup = @ \o IF ~known /\ AllowInit THEN <<InitExtension>> ELSE <<>>])
       /\ bitmap' = (IF known THEN "yes" ELSE "no") /\ UNCHANGED <<listed, amount>>

(* simulated_second_leg_quote_output_from_atomic_delta.                    *)
SeenOutput(post) == post - draft.start + draft.terms.need

(* The setup and both legs are simulated; back is what the second leg gave *)
(* there.                                                                  *)
Simulated(name, gain, new(_)) ==
    LET s == After(draft.setup)
        post == s.balance + gain
        seen == SeenOutput(post)
    IN /\ draft # NoPlan /\ s.failed = "none" /\ Ready(s, [need |-> draft.terms.need, extension |-> draft.extension])
       /\ draft.terms.need + gain > 0
       /\ Step(name, [new(seen) EXCEPT !.out = draft.terms.need + gain, !.seen = seen])
       /\ UNCHANGED caches

(* PumpSwap to Meteora: the least output is the quote's; the plan is       *)
(* dropped when the simulated output is below it.                          *)
CalibrateSell(gain, promised) ==
    LET least == Most(promised, AboveInput(draft.terms.need))
    IN /\ draft # NoPlan /\ SeenOutput(After(draft.setup).balance + gain) >= least
       /\ Simulated("calibrate_sell", gain, LAMBDA seen : [draft EXCEPT !.terms.least = least])

(* Meteora to PumpSwap: the least output follows the simulated one.        *)
CalibratePump(gain) ==
    Simulated("calibrate_pump", gain, LAMBDA seen :
        [draft EXCEPT !.terms.least = Most(LegMin(seen), AboveInput(draft.terms.need))])

(* A reading, a route or a simulation fails, or a bound is not met.        *)
BuildFails == /\ at = "building" /\ at' = "idle" /\ draft' = NoPlan /\ held' = <<>>
              /\ UNCHANGED <<chain, caches, flights>>

-----------------------------------------------------------------------------
(* Wrapping and sending.                                                   *)
Wrapped == draft.setup \o TradeOf(draft.family)
Flight(ops) == [ops |-> ops, input |-> draft.input,
                need |-> draft.terms.need, least |-> draft.terms.least,
                extension |-> draft.extension]

Simulate(gain) ==
    /\ at = "built"
    /\ LET s == After(draft.setup)
       IN s.failed = "none" /\ Ready(s, Flight(Wrapped)) /\ Kept(Flight(Wrapped), draft.terms.need, gain)
    /\ at' = "ready" /\ UNCHANGED <<chain, caches, draft, held, flights>>

SkipSimulation == /\ at = "built" /\ ~Calibrated(draft.family) /\ at' = "ready"
                  /\ UNCHANGED <<chain, caches, draft, held, flights>>

(* A pair's simulation fails for want of arrays: it is built once more, and *)
(* the setup of the first plan stays in the caller's hands.                *)
BuildAgain == /\ at = "built" /\ Calibrated(draft.family) /\ draft.round = 0
              /\ draft' = Begin(draft.family, draft.input, 1) /\ at' = "building"
              /\ UNCHANGED <<chain, caches, held, flights>>

(* The send fails for want of arrays: built again, sent with its own setup. *)
RebuildAfterSend == /\ at = "ready" /\ OfPair(draft.family) /\ draft.round < 2
                    /\ draft' = Begin(draft.family, draft.input, 2) /\ at' = "building"
                    /\ UNCHANGED <<chain, caches, held, flights>>

Dropped == /\ at = "built" /\ at' = "idle" /\ draft' = NoPlan /\ held' = <<>>
           /\ UNCHANGED <<chain, caches, flights>>

Sent(ops) == /\ at = "ready" /\ Len(flights) < MaxFlights
             /\ flights' = Append(flights, Flight(ops))
             /\ at' = "idle" /\ draft' = NoPlan /\ held' = <<>>
             /\ UNCHANGED <<chain, caches>>

SendSingle == at = "ready" /\ Sent(Wrapped)

(* send_wrapped_instructions_as_jito_bundle_split: the setup held, then    *)
(* what follows as many instructions of the plan; one bundle, all or none. *)
Mutant_CanSplit(setup) == setup # <<>>
CanSplit(setup) == setup # <<>> /\ Len(Wrapped) > Len(setup)
SplitOf(setup) == setup \o SubSeq(Wrapped, Len(setup) + 1, Len(Wrapped))
SendSplit == at = "ready" /\ CanSplit(held) /\ Sent(SplitOf(held))

-----------------------------------------------------------------------------
(* The chain.                                                              *)
Land(k, gain) ==
    LET flight == flights[k]
        s == After(flight.ops)
    IN /\ s.failed = "none" /\ Ready(s, flight)
       /\ \E paid \in flight.input..flight.need : Kept(flight, paid, gain)
       /\ exists' = s.exists /\ extended' = s.extended /\ balance' = s.balance + gain
       /\ flights' = RemoveAt(flights, k)
       /\ UNCHANGED <<caches, at, draft, held>>

(* It fails as a whole, or is never taken.                                 *)
Vanish(k) == flights' = RemoveAt(flights, k) /\ UNCHANGED <<chain, caches, at, draft, held>>

ExpireAmount == amount # Unread /\ amount' = Unread
                /\ UNCHANGED <<chain, listed, bitmap, at, draft, held, flights>>
ExpireListed(a) == a \in listed /\ listed' = listed \ {a}
                   /\ UNCHANGED <<chain, amount, bitmap, at, draft, held, flights>>
ExpireExtension == bitmap # "unread" /\ bitmap' = "unread"
                   /\ UNCHANGED <<chain, listed, amount, at, draft, held, flights>>

FundingNext ==
    \/ \E family \in Families, input \in Inputs : Start(family, input)
    \/ ReadBalance \/ CreateBoth \/ ReadAccounts \/ Wrap \/ Require \/ PrepareBitmap
    \/ \E gain \in Gains : \/ CalibratePump(gain) \/ Simulate(gain)
                           \/ \E more \in Gains : CalibrateSell(gain, draft.input + more)
    \/ BuildFails \/ SkipSimulation \/ BuildAgain \/ RebuildAfterSend \/ Dropped
    \/ SendSingle \/ SendSplit
    \/ \E k \in 1..Len(flights) : Vanish(k) \/ \E gain \in Gains : Land(k, gain)
    \/ ExpireAmount \/ ExpireExtension \/ \E a \in Accounts : ExpireListed(a)

FundingSpec == FundingInit /\ [][FundingNext]_fundingVars

-----------------------------------------------------------------------------
(* Every variable has its type; the caches say nothing the chain does not  *)
(* have, and of amounts nothing above it.                                  *)
FundingTypeOK ==
    /\ exists \subseteq Accounts /\ balance \in Nat /\ extended \in BOOLEAN
    /\ ("quote" \notin exists => balance = 0)
    /\ listed \subseteq exists
    /\ amount \in Nat \cup {Unread, NoAccount}
    /\ amount >= 0 => "quote" \in exists /\ amount <= balance
    /\ bitmap \in {"unread", "no", "yes"} /\ (bitmap = "yes" => extended)
    /\ at \in {"idle", "building", "built", "ready"}
    /\ (at = "idle") = (draft = NoPlan)
    /\ at # "idle" => draft.family \in Families /\ draft.round \in 0..2 /\ draft.start \in Nat
    /\ at # "idle" => (at # "building") = (draft.todo = <<>>)
    /\ Len(flights) <= MaxFlights

(* Whenever a transaction in the air lands, it finds its accounts and its  *)
(* input, though all of it was decided from cached readings, with others   *)
(* in the air: no other trade leaves the account with less than it had.    *)
InputFunded ==
    \A k \in 1..Len(flights) :
        LET s == After(flights[k].ops)
        IN s.failed # "missing" /\ (s.failed = "none" => Ready(s, flights[k]))

(* Every transaction carries the whole trade, once and after its setup,    *)
(* also one split by the length of the setup of an earlier plan.           *)
TradeWhole ==
    \A k \in 1..Len(flights) :
        \E family \in Families :
            LET ops == flights[k].ops
                setup == Len(ops) - Len(TradeOf(family))
            IN /\ setup >= 0 /\ SubSeq(ops, setup + 1, Len(ops)) = TradeOf(family)
               /\ \A i \in 1..setup : IsSetup(ops[i])

(* No trade takes from the quote account, the one sent without the         *)
(* executor included.                                                      *)
BalanceNeverFalls == [][balance' >= balance]_fundingVars

(* The output of the second leg read out of a simulation is what the leg   *)
(* gave there (test simulated_second_leg_quote_output_recovers_output_from_atomic_net_delta). *)
OutputRecovered == at # "idle" => draft.seen = draft.out

=============================================================================
