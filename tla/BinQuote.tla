------------------------------ MODULE BinQuote ------------------------------
(***************************************************************************)
(* Quoting a swap in a Meteora DLMM pool from the bin arrays held here,    *)
(* and choosing the bin array accounts the swap is sent with               *)
(* (src/src/main.rs, quote_meteora_exact_in_detail and                     *)
(* meteora_swap_remaining_bin_arrays_for_exact_input_execution_async).     *)
(*                                                                         *)
(* Bins are numbered along the direction of the swap: 0 is the farthest    *)
(* behind, prices fall from bin to bin, and a swap fills the bins from the *)
(* active one on.  A bin's depth is the amount it holds of the token that  *)
(* is bought, as a positive number; what it holds of the token that is     *)
(* paid is negative.  A view of a pool has the fields active, depth, held  *)
(* (the arrays whose contents are known) and bitmap (the arrays the pool   *)
(* account marks as holding anything).                                     *)
(***************************************************************************)
EXTENDS Integers, FiniteSets

CONSTANTS
    LastBin, BinsPerArray, \* bins are 0..LastBin
    Price, Unit,        \* one unit paid into bin b buys Price[b] / Unit
    FeeNum, FeeDen,     \* the fee, of what is paid
    Safety,             \* METEORA_EXECUTION_QUOTE_DETAIL_SAFETY_BIN_ARRAYS
    WindowSize,         \* meteora_execution_bin_array_count of the pool
    Strict              \* strict_direct_execution_account_windows

ASSUME BinAssumption ==
    /\ LastBin \in Nat /\ BinsPerArray \in Nat \ {0}
    /\ Price \in [0..LastBin -> Nat \ {0}] /\ Unit \in Nat \ {0}
    /\ \A b \in 0..LastBin - 1 : Price[b + 1] <= Price[b]
    /\ FeeNum \in Nat /\ FeeDen \in Nat /\ FeeNum < FeeDen
    /\ Safety \in Nat /\ WindowSize \in Nat \ {0} /\ Strict \in BOOLEAN

Bins == 0..LastBin
ArrayOf(b) == b \div BinsPerArray
Arrays == {ArrayOf(b) : b \in Bins}

CeilDiv(m, n) == (m + n - 1) \div n
Least(m, n) == IF m < n THEN m ELSE n
Most(m, n) == IF m < n THEN n ELSE m

-----------------------------------------------------------------------------
(* The quote.  A bin takes what buys all it holds, with the fee on top.    *)
(* What was taken is priced, so that a bin may count for more than it      *)
(* holds: by less than what one unit buys.                                 *)
FeeFromGross(gross) == CeilDiv(gross * FeeNum, FeeDen)
FeeForNet(net) == CeilDiv(net * FeeNum, FeeDen - FeeNum)

Takes(depth, b) == LET net == CeilDiv(depth[b] * Unit, Price[b]) IN net + FeeForNet(net)

Mutant_Filled(view, s, b) ==
    LET paid == Least(s.left, Takes(view.depth, b))
    IN [left    |-> s.left - paid,
        out     |-> s.out + paid * Price[b],
        touched |-> s.touched \cup {ArrayOf(b)},
        bins    |-> s.bins + 1]

Filled(view, s, b) ==
    LET paid == Least(s.left, Takes(view.depth, b))
    IN [left    |-> s.left - paid,
        out     |-> s.out + (paid - FeeFromGross(paid)) * Price[b],
        touched |-> s.touched \cup {ArrayOf(b)},
        bins    |-> s.bins + 1]

Quotable(view, b) == b >= view.active /\ ArrayOf(b) \in view.held /\ view.depth[b] > 0

Walked(view, s, b) == IF s.left > 0 /\ Quotable(view, b) THEN Filled(view, s, b) ELSE s

Walk(view, amount) ==
    LET walked[n \in 0..LastBin + 1] ==
            IF n = 0 THEN [left |-> amount, out |-> 0, touched |-> {}, bins |-> 0]
            ELSE Walked(view, walked[n - 1], n - 1)
    IN walked[LastBin + 1]

(* METEORA_LOCAL_QUOTE_SAFETY_BPS is held back.                            *)
Conservative(out) == (out * 9990) \div (10000 * Unit)

NoQuote == [out |-> 0, touched |-> {}, bins |-> 0]
QuoteDetail(view, amount) ==
    LET w == Walk(view, amount)
    IN IF amount = 0 \/ w.left > 0 \/ w.out = 0 THEN NoQuote
       ELSE [out |-> Conservative(w.out), touched |-> w.touched, bins |-> w.bins]

-----------------------------------------------------------------------------
(* The accounts.  made: the arrays that exist.                             *)
Current(view) == ArrayOf(view.active)

Touched(view, quote) == quote.touched \cup {Current(view)}

ExactArrays(view, quote) ==
    LET indices == Touched(view, quote)
        lowest  == CHOOSE a \in indices : \A x \in indices : a <= x
        highest == CHOOSE a \in indices : \A x \in indices : x <= a
    IN indices \cup (lowest - Safety .. lowest - 1) \cup (highest + 1 .. highest + Safety)

BinsOf(a) == {b \in Bins : ArrayOf(b) = a}
Relevant(view) == {a \in view.held : \E b \in BinsOf(a) : view.depth[b] > 0}
AnyLiquidity(view) == {a \in view.held : \E b \in BinsOf(a) : view.depth[b] # 0}
Marked(view) == {a \in view.bitmap : a >= Current(view)}
Derived(view) == Current(view) .. Current(view) + WindowSize - 1

(* The first of the list that are not there yet, as many as have room.     *)
Joined(window, more) ==
    LET absent == more \ window
    IN window \cup {a \in absent :
                       Cardinality(window) + Cardinality({x \in absent : x < a}) < WindowSize}

Mutant_Retained(window, made) == window
Retained(window, made) == window \cap made

WindowFor(view, made) ==
    Retained(Joined(Joined(Joined(Joined({}, Relevant(view)), AnyLiquidity(view)),
                           Marked(view)), Derived(view)), made)

Unbuildable == {}

Mutant_WindowForInput(view, quote, made) == Retained(ExactArrays(view, quote), made)

(* The accounts of a swap whose quote is known; Unbuildable: none.         *)
WindowForInput(view, quote, made) ==
    LET exact == Retained(ExactArrays(view, quote), made)
    IN IF Strict /\ (quote = NoQuote \/ ~(quote.touched \subseteq exact) \/ exact = {})
       THEN Unbuildable
       ELSE IF quote = NoQuote \/ exact = {} THEN WindowFor(view, made)
       ELSE Joined(exact, WindowFor(view, made))
=============================================================================
