--------------------------- MODULE TwoHopExecutor ---------------------------
(***************************************************************************)
(* The on-chain program (src/programs/two_hop_executor/src/lib.rs): it     *)
(* swaps quote for an intermediate token, measures what arrived, writes    *)
(* that amount into the second swap, and fails the transaction when the    *)
(* quote balance did not grow by the minimum profit.                       *)
(*                                                                         *)
(* The two swaps are other programs (CPI): they move balances within what  *)
(* a swap may do.  A failed instruction fails its transaction, and the     *)
(* runtime restores every balance.  Amounts are u64: 0..MaxAmount.         *)
(***************************************************************************)
EXTENDS Naturals

CONSTANT MaxAmount      \* u64::MAX

ASSUME AmountAssumption == MaxAmount \in Nat \ {0}

VARIABLES
    pc,       \* where the instruction is
    bal,      \* the balances of the wallet's token accounts
    start,    \* the balances when the transaction started
    ins,      \* the instruction: its arguments and accounts
    amountIn, \* second_leg_amount_in
    error     \* the custom error code of the last transaction, 0 = none

execVars == <<pc, bal, start, ins, amountIn, error>>

Amounts  == 0..MaxAmount
Accounts == {"quote", "intermediate", "source"}

(* source is the account the second swap sells from.  The client builds an *)
(* instruction for another venue only if that account is the intermediate  *)
(* account (second_leg_input_observed_account); for Raydium CLMM the       *)
(* program looks for itself.                                               *)
Instruction ==
    {i \in [raydium : BOOLEAN, source : {"intermediate", "source"},
            minProfit : Amounts, offsetOk : BOOLEAN] :
        i.raydium \/ i.source = "intermediate"}

Lower(m, n) == IF m <= n THEN m ELSE n

InvalidInstruction    == 2     \* TwoHopExecutorError + 1
NotEnoughAccounts     == 3
InvalidAmountOffset   == 4
InvalidTokenAccount   == 5
NothingBought         == 6     \* FirstLegDidNotIncreaseIntermediateBalance
ProfitBelowThreshold  == 7
CpiFailed             == 8     \* an error of the other program

-----------------------------------------------------------------------------
ExecInit ==
    /\ pc = "idle"
    /\ bal \in [Accounts -> Amounts]
    /\ start = bal
    /\ ins \in Instruction
    /\ amountIn = 0
    /\ error = 0

Mutant_Observed == "intermediate"
Observed == IF ins.raydium THEN ins.source ELSE "intermediate"

(* The runtime undoes the transaction. *)
Fail(code) == /\ pc' = "idle"
              /\ bal' = start
              /\ error' = code
              /\ UNCHANGED <<start, ins, amountIn>>

(* A transaction arrives; quote_before and intermediate_before are read.   *)
Begin == /\ pc = "idle"
         /\ ins' \in Instruction
         /\ start' = bal
         /\ pc' = "first"
         /\ error' = 0
         /\ UNCHANGED <<bal, amountIn>>

(* Arguments that do not unpack, too few accounts, no token account. *)
Refuse == /\ pc = "first"
          /\ \E code \in {InvalidInstruction, NotEnoughAccounts, InvalidTokenAccount} :
                Fail(code)

-----------------------------------------------------------------------------
(* The first swap takes quote and changes one of the other accounts.       *)
FirstLeg == /\ pc = "first"
            /\ \E paid \in 0..bal["quote"], a \in Accounts \ {"quote"}, v \in Amounts :
                  bal' = [bal EXCEPT !["quote"] = @ - paid, ![a] = v]
            /\ pc' = "measure"
            /\ UNCHANGED <<start, ins, amountIn, error>>

LegFails == /\ pc \in {"first", "second"}
            /\ Fail(CpiFailed)

-----------------------------------------------------------------------------
(* The amount bought is what the observed account gained.                  *)
Mutant_Bought == start[Observed] - bal[Observed]
Bought == bal[Observed] - start[Observed]

(* adjusted_second_leg_amount_in: never more than Raydium's source holds.  *)
Mutant_Adjusted(bought) == bal[ins.source]
Adjusted(bought) == IF ins.raydium THEN Lower(bought, bal[ins.source]) ELSE bought

Gained == bal[Observed] > start[Observed] /\ Adjusted(Bought) # 0

NoGain == /\ pc = "measure"
          /\ ~Gained
          /\ Fail(NothingBought)

BadOffset == /\ pc = "measure"
             /\ Gained
             /\ ~ins.offsetOk
             /\ Fail(InvalidAmountOffset)

Inject == /\ pc = "measure"
          /\ Gained
          /\ ins.offsetOk
          /\ amountIn' = Adjusted(Bought)
          /\ pc' = "second"
          /\ UNCHANGED <<bal, start, ins, error>>

(* The second swap sells at most the injected amount, for quote. *)
SecondLeg == /\ pc = "second"
             /\ \E sold \in 0..Lower(amountIn, bal[ins.source]), v \in bal["quote"]..MaxAmount :
                   bal' = [bal EXCEPT ![ins.source] = @ - sold, !["quote"] = v]
             /\ pc' = "settle"
             /\ UNCHANGED <<start, ins, amountIn, error>>

-----------------------------------------------------------------------------
(* profit_threshold_shortfall: no minimum, no check. *)
SaturatingAdd(m, n) == Lower(m + n, MaxAmount)
Mutant_Shortfall == /\ ins.minProfit # 0
                    /\ bal["quote"] < (start["quote"] + ins.minProfit) % (MaxAmount + 1)
Shortfall == /\ ins.minProfit # 0
             /\ bal["quote"] < SaturatingAdd(start["quote"], ins.minProfit)

Reject == /\ pc = "settle"
          /\ Shortfall
          /\ Fail(ProfitBelowThreshold)

Commit == /\ pc = "settle"
          /\ ~Shortfall
          /\ pc' = "done"
          /\ UNCHANGED <<bal, start, ins, amountIn, error>>

(* The wallet goes on to its next transaction. *)
Return == /\ pc = "done"
          /\ pc' = "idle"
          /\ UNCHANGED <<bal, start, ins, amountIn, error>>

-----------------------------------------------------------------------------
ExecNext ==
    \/ Begin \/ Refuse \/ FirstLeg \/ LegFails
    \/ NoGain \/ BadOffset \/ Inject
    \/ SecondLeg \/ Reject \/ Commit \/ Return

ExecSpec == ExecInit /\ [][ExecNext]_execVars

-----------------------------------------------------------------------------
ExecTypeOK ==
    /\ pc \in {"idle", "first", "measure", "second", "settle", "done"}
    /\ bal \in [Accounts -> Amounts]
    /\ start \in [Accounts -> Amounts]
    /\ ins \in Instruction
    /\ amountIn \in Amounts
    /\ error \in 0..8

(* A committed transaction with a minimum earned it, or filled the account *)
(* to the largest amount; it never lost quote.                             *)
ProfitKept ==
    pc = "done" /\ ins.minProfit # 0 =>
        /\ bal["quote"] >= start["quote"]
        /\ bal["quote"] - start["quote"] >= ins.minProfit \/ bal["quote"] = MaxAmount

(* The second swap sells no more than the first one bought: a token the    *)
(* wallet already held stays there.                                        *)
OnlyBoughtIsSold == pc \in {"settle", "done"} => bal[ins.source] >= start[ins.source]

(* All that was bought is offered to the second swap: reducing the amount  *)
(* to the source's balance never has an effect, since for Raydium CLMM the *)
(* source is the account that was observed.                                *)
AllBoughtIsOffered == pc = "second" => amountIn = Bought /\ amountIn <= bal[ins.source]

=============================================================================
