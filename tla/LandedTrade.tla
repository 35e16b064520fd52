---------------------------- MODULE LandedTrade ----------------------------
(***************************************************************************)
(* One trade between a PumpSwap pool and a Meteora DLMM pool, from the     *)
(* quote to the chain (src/src/main.rs): what the quote promises, the tip  *)
(* and the least profit planned from it, the accounts and least outputs it *)
(* is built with, and what the chain makes of it, when the pools have      *)
(* moved since the quote was taken or were known in part.  Sol is counted  *)
(* in small units; the price of the PumpSwap pool is linear.               *)
(***************************************************************************)
EXTENDS BinQuote

CONSTANTS
    Directions,            \* of MeteoraPumpSwapDirection
    Sizes,                 \* trade sizes
    Rates, PumpFee,        \* tokens the PumpSwap pool gives for a unit; its fee in percent
    BuySlip, SellSlip, SellSlipWide, Slip,  \* slippages, percent
    MaxTouched,            \* pumpswap_meteora_max_touched_bin_arrays
    Costs,                 \* fixed costs a quote accounts for
    ProfitPerMille,        \* pumpswap_meteora_enforced_profit_pct
    ConfiguredTip, MinTip, MaxTip, DefaultTip,
    MinShare, MaxShare, FullSharePct,       \* percent
    SignatureFee,          \* BASE_SIGNATURE_FEE_LAMPORTS
    Depths, Deep,          \* depths at the start; what a provider adds to a bin
    MaxDrift               \* bound: steps of others

Tips == {"configured", "dynamic"}
Transports == {"jito", "rpc"}

ASSUME TradeAssumption ==
    /\ Directions \subseteq {"PumpSwapToMeteora", "MeteoraToPumpSwap"}
    /\ Sizes \subseteq Nat \ {0} /\ Rates \subseteq Nat \ {0} /\ PumpFee \in 0..99
    /\ BuySlip \in 0..99 /\ SellSlip \in 0..99 /\ SellSlipWide \in 0..99 /\ Slip \in 0..99
    /\ SellSlip <= SellSlipWide /\ MaxTouched \in Nat /\ Costs \in Nat /\ ProfitPerMille \in 1..5
    /\ ConfiguredTip \in Nat /\ MinTip \in Nat /\ MaxTip \in Nat /\ MinTip <= MaxTip
    /\ DefaultTip \in Nat \ {0} /\ (MinTip > 0 => DefaultTip = MinTip)
    /\ MinShare <= MaxShare /\ MaxShare <= 100 /\ MinShare \in Nat /\ MaxShare \in Nat
    /\ FullSharePct \in Nat \ {0} /\ SignatureFee \in Nat \ {0}
    /\ Depths \subseteq [Bins -> Int] /\ Deep \in Nat \ {0} /\ MaxDrift \in Nat

VARIABLES
    direction,  \* of the trade
    free,       \* DISABLE_LOCAL_PROFIT_CHECKS
    guarded,    \* live_send_min_profit_pct is above zero
    tipping,    \* JITO_DYNAMIC_TIP_ENABLED
    transport,  \* how transactions are sent
    chain,      \* the pools: active, depth, made, rate
    copy,       \* what is known of them: active, depth, held, bitmap, rate
    drift,      \* bound: steps of others so far
    at,         \* "idle", "quoted", "built", "done"
    offer,      \* the quote
    terms,      \* least outputs, tip and least profit
    window,     \* the bin arrays the swap is sent with
    result      \* what became of it

config == <<direction, free, guarded, tipping, transport>>
vars == <<config, chain, copy, drift, at, offer, terms, window, result>>

Percent(n, p) == (n * p) \div 100
NoOffer == [paid |-> 0]
NoTerms == [tip |-> 0]
PumpFirst == direction = "PumpSwapToMeteora"

-----------------------------------------------------------------------------
(* Quotes.  PumpSwap to Meteora: the bought tokens are discounted by the   *)
(* slippage, and so is what Meteora pays for them; the payment is raised.  *)
AtLeast1(n) == Most(n, 1)

PumpBuys(paid, rate) == Percent(paid * rate, 100 - PumpFee)
PumpCosts(tokens, rate) == CeilDiv(tokens * 100, rate * (100 - PumpFee))
PumpSells(tokens, rate) == (tokens * (100 - PumpFee)) \div (100 * rate)

TokensSafe(size) == AtLeast1(Percent(PumpBuys(size, copy.rate), 100 - BuySlip))
QuoteIn(size) ==
    LET required == AtLeast1(PumpCosts(TokensSafe(size), copy.rate))
    IN Most(Most(size, required), CeilDiv(required * (100 + BuySlip), 100))

SellSlippage(quote) == IF Cardinality(quote.touched) > 2 THEN SellSlipWide ELSE SellSlip
Promised(quote) == AtLeast1(Percent(AtLeast1(quote.out), 100 - SellSlippage(quote)))

(* The fee of the PumpSwap pool is part of what is paid; the net profit    *)
(* adds it back.                                                           *)
PumpFeeOf(paid) == CeilDiv(paid * PumpFee, 100)
NetOfPumpFirst(paid, back, tip) == back - (paid - PumpFeeOf(paid)) - tip - Costs
NetOfMeteoraFirst(paid, back) == back - paid - Costs

-----------------------------------------------------------------------------
(* The tip, and the least profit the executor program is given.            *)
Gross(back, paid) == back - paid

Share(gross, paid) ==
    MinShare + ((MaxShare - MinShare) * Least((gross * 100) \div paid, FullSharePct)) \div FullSharePct

DynamicTip(gross, paid) ==
    IF tipping = "configured" THEN ConfiguredTip
    ELSE IF gross <= 0 THEN MinTip
    ELSE Least(Most(Percent(gross, Share(gross, paid)), MinTip), MaxTip)

PlannedTip(gross, paid) ==
    IF ~free THEN DynamicTip(gross, paid)
    ELSE IF ConfiguredTip = 0 THEN MinTip ELSE ConfiguredTip

Mutant_BaseFee(tip) == 0
BaseFee(tip) == SignatureFee * (IF tip > 0 THEN 2 ELSE 1)

MinProfit(tip) == AtLeast1(tip + BaseFee(tip))

Allowed(quote, net) == free \/ (net > 0 /\ Cardinality(quote.touched) <= MaxTouched)

-----------------------------------------------------------------------------
(* Least outputs of the two swaps.                                         *)
FinalGuardOnly == free \/ ~guarded
AboveInput(paid) == Most(CeilDiv(paid * (1000 + ProfitPerMille), 1000), paid + 1)
QuotedMin(quoted, least) == IF FinalGuardOnly THEN 1 ELSE Most(Most(quoted, least), 1)
LegMin(quoted) == IF FinalGuardOnly THEN 1 ELSE AtLeast1(Percent(quoted, 100 - Slip))

-----------------------------------------------------------------------------
(* The pools on chain.  A swap fills bins from the active one on, needs    *)
(* every array that holds anything where it passes, and pays no more than  *)
(* a bin holds.  strange: the bins filled in arrays unknown here.          *)
Holding(depth) == {ArrayOf(b) : b \in {x \in Bins : depth[x] # 0}}

SwapStep(s, b) ==
    LET paid == Least(s.left, Takes(chain.depth, b))
        net == paid - FeeFromGross(paid)
    IN IF b < chain.active \/ s.left = 0 \/ s.missing # {} \/ ArrayOf(b) \notin Holding(chain.depth) THEN s
       ELSE IF ArrayOf(b) \notin window THEN [s EXCEPT !.missing = {ArrayOf(b)}]
       ELSE IF chain.depth[b] <= 0 THEN s
       ELSE [s EXCEPT !.left = @ - paid,
                      !.out = @ + Least(chain.depth[b], (net * Price[b]) \div Unit),
                      !.strange = @ + (IF ArrayOf(b) \in copy.held THEN 0 ELSE 1)]

Swapped(amount) ==
    LET swapped[n \in 0..LastBin + 1] ==
            IF n = 0 THEN [left |-> amount, out |-> 0, missing |-> {}, strange |-> 0]
            ELSE SwapStep(swapped[n - 1], n - 1)
    IN swapped[LastBin + 1]

Seen == copy.active = chain.active /\ copy.rate = chain.rate
        /\ \A b \in Bins : ArrayOf(b) \in copy.held => copy.depth[b] = chain.depth[b]

NoResult == [kind |-> "none"]

(* The executor program: the first swap, the second with all it bought,    *)
(* and the profit.  cost: the tip and the fees of the signatures.          *)
Executed(signatures, tip) ==
    LET bought == PumpBuys(offer.paid, chain.rate)
        swap   == Swapped(IF PumpFirst THEN bought ELSE offer.paid)
        first  == IF PumpFirst THEN bought ELSE swap.out
        back   == IF PumpFirst THEN swap.out ELSE PumpSells(swap.out, chain.rate)
    IN [out |-> swap.out, missing |-> swap.missing, strange |-> swap.strange,
        gain |-> back - offer.paid, cost |-> tip + signatures * SignatureFee,
        kind |-> IF PumpFirst /\ first < terms.firstMin THEN "below_minimum"
                 ELSE IF swap.missing # {} THEN "missing"
                 ELSE IF swap.left > 0 THEN "dry"
                 ELSE IF first < terms.firstMin \/ back < terms.secondMin THEN "below_minimum"
                 ELSE IF back - offer.paid < terms.minProfit THEN "unprofitable"
                 ELSE "landed"]

-----------------------------------------------------------------------------
Init ==
    /\ direction \in Directions /\ free \in BOOLEAN /\ guarded \in BOOLEAN
    /\ tipping \in Tips /\ transport \in Transports
    /\ \E depth \in Depths, active \in Bins, rate \in Rates :
          /\ \A b \in Bins : (b < active => depth[b] <= 0) /\ (b > active => depth[b] >= 0)
          /\ depth[active] > 0
          /\ chain = [active |-> active, depth |-> depth, made |-> Holding(depth), rate |-> rate]
    /\ \E held \in SUBSET chain.made :
          copy = [active |-> chain.active, depth |-> chain.depth, held |-> held,
                  bitmap |-> chain.made, rate |-> chain.rate]
    /\ drift = 0 /\ at = "idle" /\ offer = NoOffer /\ terms = NoTerms /\ window = {} /\ result = NoResult

(* A quote that may be sent: what is paid, what is put into Meteora, and   *)
(* what Meteora is to pay for that.                                        *)
Quoted(paid, amount, quote, promise, gross, net) ==
    /\ at = "idle" /\ quote # NoQuote /\ Allowed(quote, net)
    /\ offer' = [paid |-> paid, amount |-> amount, quote |-> quote, promise |-> promise,
                 gross |-> gross]
    /\ at' = "quoted"
    /\ UNCHANGED <<config, chain, copy, drift, terms, window, result>>

QuotePumpFirst(size) ==
    LET amount == TokensSafe(size)
        paid   == QuoteIn(size)
        quote  == QuoteDetail(copy, amount)
        back   == Promised(quote)
    IN /\ PumpFirst
       /\ Quoted(paid, amount, quote, back, Gross(back, paid),
                 NetOfPumpFirst(paid, back, DynamicTip(Gross(back, paid), paid)))

QuoteMeteoraFirst(size) ==
    LET quote == QuoteDetail(copy, size)
        back  == PumpSells(quote.out, copy.rate)
    IN /\ ~PumpFirst /\ back > 0
       /\ Quoted(size, size, quote, quote.out, Gross(back, size), NetOfMeteoraFirst(size, back))

(* The plan: accounts, least outputs, tip and least profit.                *)
Wrapped(firstMin, secondMin, tip) ==
    [firstMin |-> firstMin, secondMin |-> secondMin, tip |-> tip, minProfit |-> MinProfit(tip)]

Built(firstMin, secondMin) ==
    LET accounts == WindowForInput(copy, offer.quote, chain.made)
    IN /\ at = "quoted" /\ accounts # Unbuildable
       /\ window' = accounts
       /\ terms' = Wrapped(firstMin, secondMin, PlannedTip(offer.gross, offer.paid))
       /\ at' = "built"
       /\ UNCHANGED <<config, chain, copy, drift, offer, result>>

BuildPumpFirst ==
    PumpFirst /\ Built(QuotedMin(offer.amount, 1), QuotedMin(offer.promise, AboveInput(offer.paid)))
BuildMeteoraFirst ==
    ~PumpFirst /\ Built(LegMin(offer.promise), QuotedMin(1, AboveInput(offer.paid)))

(* Only a bundle carries a tip; one not given is raised.  split: the setup *)
(* in a transaction of its own.                                            *)
TipPaid(tip) == IF transport = "rpc" THEN 0 ELSE IF tip = 0 THEN DefaultTip ELSE tip

Land(split) ==
    /\ at = "built" /\ (split => transport = "jito")
    /\ result' = Executed(IF split THEN 2 ELSE 1, TipPaid(terms.tip))
    /\ at' = "done"
    /\ UNCHANGED <<config, chain, copy, drift, offer, terms, window>>

-----------------------------------------------------------------------------
(* Others, while the trade is under way.                                   *)
Moved(new) == /\ at # "done" /\ drift < MaxDrift /\ drift' = drift + 1
              /\ chain' = new
              /\ UNCHANGED <<config, copy, at, offer, terms, window, result>>

SwapAlong == /\ chain.active < LastBin
             /\ Moved([chain EXCEPT !.active = @ + 1, !.depth[chain.active] = -Deep,
                                    !.made = @ \cup {ArrayOf(chain.active)}])
SwapAgainst == /\ chain.active > 0
               /\ Moved([chain EXCEPT !.active = @ - 1, !.depth[chain.active - 1] =
                             IF @ < 0 THEN Deep ELSE @])
Provide(b) == Moved([chain EXCEPT !.depth[b] = IF b < chain.active THEN -Deep ELSE Deep,
                                  !.made = @ \cup {ArrayOf(b)}])
Withdraw(b) == chain.depth[b] # 0 /\ Moved([chain EXCEPT !.depth[b] = 0])
PumpMoves(rate) == rate # chain.rate /\ Moved([chain EXCEPT !.rate = rate])

(* Updates arrive account by account, between trades.                      *)
Updated(new) == /\ at = "idle" /\ new # copy /\ copy' = new
                /\ UNCHANGED <<config, chain, drift, at, offer, terms, window, result>>
UpdatePool == Updated([copy EXCEPT !.active = chain.active, !.bitmap = Holding(chain.depth)])
UpdateArray(a) == a \in copy.held /\ Updated([copy EXCEPT !.depth =
                      [b \in Bins |-> IF ArrayOf(b) = a THEN chain.depth[b] ELSE @[b]]])
UpdatePump == Updated([copy EXCEPT !.rate = chain.rate])

Next ==
    \/ \E size \in Sizes : QuotePumpFirst(size) \/ QuoteMeteoraFirst(size)
    \/ BuildPumpFirst \/ BuildMeteoraFirst
    \/ \E split \in BOOLEAN : Land(split)
    \/ SwapAlong \/ SwapAgainst
    \/ \E b \in Bins : Provide(b) \/ Withdraw(b)
    \/ \E rate \in Rates : PumpMoves(rate)
    \/ UpdatePool \/ UpdatePump
    \/ \E a \in Arrays : UpdateArray(a)

Spec == Init /\ [][Next]_vars

-----------------------------------------------------------------------------
(* Every variable has its type.                                            *)
TypeOK ==
    /\ direction \in Directions /\ free \in BOOLEAN /\ guarded \in BOOLEAN
    /\ tipping \in Tips /\ transport \in Transports
    /\ chain.active \in Bins /\ chain.depth \in [Bins -> Int]
    /\ Holding(chain.depth) \subseteq chain.made /\ chain.made \subseteq Arrays
    /\ copy.active \in Bins /\ copy.depth \in [Bins -> Int]
    /\ copy.held \subseteq chain.made /\ copy.bitmap \subseteq chain.made
    /\ at \in {"idle", "quoted", "built", "done"} /\ drift \in 0..MaxDrift
    /\ at # "idle" => offer.paid > 0 /\ offer.amount > 0 /\ offer.quote.touched \subseteq copy.held
    /\ at \in {"built", "done"} => terms.minProfit >= 1 /\ window \subseteq chain.made
    /\ (at = "done") = (result # NoResult)

(* What the quote promises of Meteora is paid when the pools are as the    *)
(* copy had them at the quote: up to what one unit buys in each bin quoted, *)
(* and three in each bin of an array that was not held here.  Such an      *)
(* array pays no less for what it takes, but rounds in every bin.          *)
PromiseKept ==
    at = "done" /\ Seen /\ result.kind \notin {"missing", "dry"} =>
        result.out + (offer.quote.bins + 3 * result.strange) * CeilDiv(Price[0], Unit)
            >= offer.promise

(* A swap lacks the account of an array only if nothing known here when it *)
(* was built spoke of the array, or the accounts were as many as they may. *)
MissingOnlyIfNew ==
    at = "done" /\ result.kind = "missing" =>
        \/ result.missing \cap (AnyLiquidity(copy) \cup Marked(copy)) = {}
        \/ Cardinality(window) >= WindowSize

(* A trade that lands gains what its tip and its signatures cost, unless   *)
(* no tip was planned and the bundle carries the least one all the same.   *)
LandedPays ==
    at = "done" /\ result.kind = "landed" /\ (terms.tip > 0 \/ transport = "rpc") =>
        result.gain >= result.cost
=============================================================================
