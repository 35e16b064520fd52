---------------------------- MODULE WindowSearch ----------------------------
(***************************************************************************)
(* How many arrays of a pool a swap instruction carries (src/src/main.rs). *)
(* For a Meteora pool the bot searches: too few bin arrays and the swap    *)
(* finds no liquidity, too many and the transaction is too large or locks  *)
(* too many accounts.  What it has learned of either bound is kept per     *)
(* pool for the life of the process.  For a Raydium pool it keeps a count. *)
(***************************************************************************)
EXTENDS Naturals

CONSTANTS
    Base,       \* METEORA_EXECUTION_BIN_ARRAY_MIN_COUNT, or the configured count
    MaxWindow,  \* METEORA_EXECUTION_BIN_ARRAY_MAX
    Bump,       \* METEORA_EXECUTION_BIN_ARRAY_BUMP_STEP
    Cut,        \* METEORA_EXECUTION_BIN_ARRAY_REDUCE_STEP
    TickBase,   \* DIRECT_RAYDIUM_REMAINING_TICK_ARRAYS
    MaxTicks    \* upper limit of the Raydium count

ASSUME WindowAssumption ==
    /\ Base \in Nat \ {0} /\ MaxWindow \in Nat /\ Base <= MaxWindow
    /\ Bump \in Nat \ {0} /\ Cut \in Nat \ {0}
    /\ TickBase \in Nat \ {0} /\ MaxTicks \in Nat

Least(a, b)    == IF a <= b THEN a ELSE b
Greatest(a, b) == IF a <= b THEN b ELSE a
Midpoint(a, b) == a + (b - a) \div 2

(* A pool's window, and the bounds learned: 0 stands for None.             *)
Searches == [window : Base..MaxWindow,
             need   : {0} \cup (Base + 1)..(MaxWindow + 1),
             most   : {0} \cup Base..MaxWindow]
NoSearch == [window |-> Base, need |-> 0, most |-> 0]

(* The errors of a build, a simulation or a send, by what is done about    *)
(* them: too large, too many locks; no bin array with liquidity; no bitmap *)
(* extension, too few array accounts; too few or a wrong first tick array; *)
(* expired blockhash; another failure with a cooldown; none; rate limited. *)
Size      == {"large", "locks"}
Liquidity == {"liquidity"}
Shortage  == Liquidity \cup {"bitmap", "keys"}
TickGap   == {"ticks", "firstTick"}
Errors    == Size \cup Shortage \cup TickGap \cup {"blockhash", "failed", "other", "limited"}

Mutant_Reduced(s) ==
    [s EXCEPT !.window = IF @ > Base THEN Greatest(@ - Cut, Base) ELSE @]
Reduced(s) ==
    LET most == IF s.most = 0 THEN s.window - 1 ELSE Least(s.most, s.window - 1)
        need == Greatest(s.need, Base)
        next == IF s.need # 0 THEN Midpoint(need, most) ELSE Greatest(s.window - Cut, Base)
    IN IF s.window <= Base THEN s
       ELSE [s EXCEPT !.most = most,
                      !.window = IF need <= most /\ next < @ THEN next ELSE @]

Widened(s) == [s EXCEPT !.window = Least(@ + Bump, MaxWindow)]

Expanded(s, e) ==
    LET need == Greatest(s.need, s.window + 1)
        low  == Least(need, MaxWindow)
        high == IF s.most = 0 THEN MaxWindow ELSE s.most
        next == IF s.most # 0 THEN Midpoint(low, high)
                ELSE Greatest(Least(s.window + Bump, high), low)
    IN IF e \in Liquidity
       THEN [s EXCEPT !.need = need,
                      !.window = IF low <= high /\ next > @ THEN next ELSE @]
       ELSE Widened(s)

(* maybe_bump_meteora_execution_bin_arrays *)
Adjusted(s, e) == CASE e \in Size     -> Reduced(s)
                    [] e \in Shortage -> Expanded(s, e)
                    [] OTHER          -> s

TickCounts == 1..Greatest(TickBase, MaxTicks)
Mutant_TicksBumped(n, e) == IF e = "ticks" THEN n + 2 ELSE n
TicksBumped(n, e)  == IF e = "ticks" THEN Greatest(n, Least(n + 2, MaxTicks)) ELSE n
TicksReduced(n, e) ==
    IF e \in Size /\ n > 2 THEN Greatest(IF n > 4 THEN n \div 2 ELSE n - 1, 2) ELSE n

-----------------------------------------------------------------------------
(* The window lies between the bounds learned, unless they have come to    *)
(* contradict one another (the market has moved since).                    *)
Highest(s) == IF s.most = 0 THEN MaxWindow ELSE s.most
Between(s) == s.need <= Highest(s) => s.need <= s.window /\ s.window <= Highest(s)
=============================================================================
