------------------------------ MODULE ScanRound ------------------------------
(***************************************************************************)
(* One scan of the marked tokens (src/src/main.rs,                         *)
(* process_program_pair_tokens): which tokens are looked at, which pairs   *)
(* of pools become candidates and at what size, how they are ranked and    *)
(* gated, which of them are sent, and what the scans after it learn from   *)
(* this one.  A path is an ordered pair of pools of one token.  Profits    *)
(* are whole multiples of 0.05 percent.                                    *)
(***************************************************************************)
EXTENDS Integers, FiniteSets, SequencesExt

CONSTANTS
    Tokens, Excluded,         \* all tokens; those never scanned
    VenuesOf,                 \* VenuesOf[t]: the venues with a pool of t
    Profiles,                 \* what the snapshot may say of a token
    MinScore,                 \* token_selection_min_score
    Selecting,                \* token_selection_enabled
    Paths, TokenOf,           \* paths, numbered by the order of their addresses
    Enabled, Supported,       \* those a scan looks at; those a send function exists for
    SolQuoted, Unwatched,     \* those paid in SOL; Raydium CLMM to PumpSwap
    Sizes, Samples,           \* trade sizes; program_pair_best_size_search_samples
    Offers,                   \* Offers[p]: what the pools of a path may quote
    Wealth,                   \* SOL the wallet may have
    Base, MaxAdjust, Margin,  \* threshold, limit of its adjustment, near-profit margin
    SelectedMost, NearAfter, MissedAfter, PoorAfter, NearBest, PoorBest,
    Ttl,                      \* PROGRAM_PAIR_PATH_FEEDBACK_TTL
    MaxScan, MaxSend,         \* candidates of a scan, sends of a scan; 0: no limit
    MaxTime, MaxRounds        \* bounds: the clock, scans

ASSUME ScanAssumption ==
    /\ Excluded \subseteq Tokens /\ VenuesOf \in [Tokens -> SUBSET STRING]
    /\ Paths \subseteq Nat /\ IsFiniteSet(Paths) /\ TokenOf \in [Paths -> Tokens]
    /\ Enabled \subseteq Paths /\ Supported \subseteq Paths
    /\ SolQuoted \subseteq Paths /\ Unwatched \subseteq Paths
    /\ Sizes \subseteq Nat \ {0} /\ IsFiniteSet(Sizes) /\ Sizes # {} /\ Samples \in Nat \ {0}
    /\ \A p \in Paths : \A o \in Offers[p] :
          /\ o.spot \in [Sizes -> Int]
          /\ DOMAIN o.exact \subseteq Sizes /\ \A s \in DOMAIN o.exact : o.exact[s] \in Int
    /\ Selecting \in BOOLEAN /\ Wealth \subseteq Nat
    /\ Base \in Int /\ MaxAdjust \in Nat /\ Margin \in Nat /\ Ttl \in Nat \ {0}
    /\ SelectedMost \in Nat /\ NearAfter \in Nat \ {0} /\ MissedAfter \in Nat \ {0}
    /\ PoorAfter \in Nat \ {0} /\ PoorBest \in Int /\ NearBest \in Int
    /\ PoorBest < NearBest /\ NearBest <= 0
    /\ MaxScan \in Nat /\ MaxSend \in Nat /\ MaxTime \in Nat /\ MaxRounds \in Nat

VARIABLES
    free,       \* DISABLE_LOCAL_PROFIT_CHECKS
    now,        \* the clock
    feedback,   \* program_pair_path_feedback
    rounds,     \* scans so far
    at,         \* where the scan is: "idle", "funds", "send"
    filter,     \* token_filter
    list,       \* candidates still to be looked at, best first
    chosen,     \* selected_send_candidate_keys
    kept,       \* history: the marked tokens the scan is to look at
    found,      \* history: candidates of this scan, cut off ones included
    funds,      \* history: what the wallet was known to have
    sent        \* history: candidates sent by this scan

round   == <<filter, list, chosen>>
history == <<kept, found, funds, sent>>
vars == <<free, now, feedback, rounds, at, round, history>>

NoOffer == [spot |-> <<>>, exact |-> <<>>]
Unknown == 1000000  \* the balance cannot be read: no limit

-----------------------------------------------------------------------------
(* Token selection.  A profile gives classes: trades and volumes by their  *)
(* thresholds (1 is zero), liquidity (1 is below the minimum), age (4 is   *)
(* more than half an hour).                                                *)
Scannable(t) == t \notin Excluded
Routeable    == {t \in Tokens : Scannable(t) /\ Cardinality(VenuesOf[t]) >= 2}

Inactive(d) == d.trades5 = 1 /\ d.trades15 = 1 /\ d.volume5 = 1 /\ d.volume15 = 1
Blocked(t, d) == Cardinality(VenuesOf[t]) < 2 \/ d.liquidity = 1 \/ Inactive(d) \/ d.age = 4

PairPriority(venues) ==
    IF      {"pumpswap", "clmm"} \subseteq venues      THEN 30
    ELSE IF {"pumpswap", "meteora"} \subseteq venues   THEN 20
    ELSE IF {"pumpswap", "whirlpool"} \subseteq venues THEN 15
    ELSE IF {"meteora", "clmm"} \subseteq venues       THEN 12
    ELSE 6
Activity(d) == <<0, 6, 10, 16, 20, 25>>[d.trades15] + <<0, 0, 4, 8, 12, 15>>[d.volume15]
             + <<0, 2, 5, 8, 10>>[d.trades5] + <<0, 0, 2, 5, 8>>[d.volume5]
Score(t, d) == (IF d.sol THEN 25 ELSE 0)
             + <<0, 8, 14, 20>>[Cardinality(VenuesOf[t])]
             + Activity(d) + <<0, 4, 8, 12, 18, 25>>[d.liquidity]
             + PairPriority(VenuesOf[t]) - <<0, 2, 6>>[d.age]

Selected(tokens, profile) ==
    {t \in tokens : ~Blocked(t, profile[t]) /\ Score(t, profile[t]) >= MinScore}

-----------------------------------------------------------------------------
(* Candidates.  At spot prices the size with the best percentage; then the *)
(* sizes around it are quoted exactly, as far as the wallet pays for them, *)
(* and the one with the largest amount wins.                               *)
Preferred(o) == CHOOSE s \in Sizes : \A u \in Sizes :
                    o.spot[u] < o.spot[s] \/ (o.spot[u] = o.spot[s] /\ s <= u)

Distance(s, u) == IF s < u THEN u - s ELSE s - u
Searched(p) == {s \in Sizes : Cardinality({u \in Sizes :
                   \/ Distance(u, p) < Distance(s, p)
                   \/ Distance(u, p) = Distance(s, p) /\ u < s}) < Samples}

Payable(p, s, f) == p \in SolQuoted => s <= f

Resized(p, o, f) ==
    LET size == Preferred(o)
        less == {s \in Searched(size) : s <= f}
    IN IF Payable(p, size, f) \/ less = {} THEN size
       ELSE CHOOSE s \in less : \A u \in less : u <= s

Quoted(p, o, f) == {s \in Searched(Preferred(o)) \cap DOMAIN o.exact : Payable(p, s, f)}

Refined(p, o, f) ==
    LET quoted == Quoted(p, o, f)
        amount(s) == s * o.exact[s]
        best == CHOOSE s \in quoted : \A u \in quoted :
                    amount(u) < amount(s) \/ (amount(u) = amount(s) /\ s <= u)
        spot == Resized(p, o, f)
    IN IF quoted # {} THEN [path |-> p, exact |-> TRUE, size |-> best, net |-> o.exact[best]]
       ELSE [path |-> p, exact |-> FALSE, size |-> spot, net |-> o.spot[spot]]

(* What the scans before have learned of a path moves its threshold, the   *)
(* less the longer it has not been looked at.  Gates and adjustments are   *)
(* in units of 0.05 percent / Ttl.                                         *)
NoFeedback == [seen |-> 0, evals |-> 0, good |-> FALSE, missed |-> 0, near |-> 0,
               selected |-> 0, best |-> 0]
AtMost(n, limit) == IF n > limit THEN limit ELSE n
Clamped(a, limit) == IF a > limit THEN limit ELSE IF a < -limit THEN -limit ELSE a

Lesson(b) ==
    (IF b.missed >= MissedAfter /\ ~b.good THEN 2 ELSE 0)
    + (IF b.evals >= PoorAfter /\ b.best < PoorBest * Ttl THEN 2 ELSE 0)
    - AtMost(b.selected, SelectedMost)
    - (IF b.near >= NearAfter /\ b.best > NearBest * Ttl THEN 1 ELSE 0)

Mutant_Adjustment(b) == IF now - b.seen >= Ttl THEN 0 ELSE Lesson(b) * (Ttl - (now - b.seen))
Adjustment(b) == IF b.evals = 0 \/ now - b.seen >= Ttl THEN 0
                 ELSE Clamped(Lesson(b) * (Ttl - (now - b.seen)), MaxAdjust * Ttl)

Gated(c) == [path |-> c.path, exact |-> c.exact, size |-> c.size, net |-> c.net,
             gate |-> (c.net - Base) * Ttl - Adjustment(feedback[c.path])]

Watched(c, f) == free => c.path \notin Unwatched /\ Payable(c.path, c.size, f)

Candidates(tokens, offer, f) ==
    LET raw == {p \in Paths : TokenOf[p] \in tokens /\ offer[p] # NoOffer}
    IN {c \in {Gated(Refined(p, offer[p], f)) : p \in raw \cap Enabled} : Watched(c, f)}

(* The order of the list, and who of it is sent.                           *)
Before(c, d) ==
    \/ c.exact /\ ~d.exact
    \/ c.exact = d.exact /\ (c.gate > d.gate \/ (c.gate = d.gate /\ c.path < d.path))

Passes(c) == /\ c.path \in Supported
             /\ free => c.exact /\ c.net > 0 /\ c.gate >= 0

Limited(s, limit) == IF limit = 0 \/ Len(s) <= limit THEN s ELSE SubSeq(s, 1, limit)
Mutant_Listed(cands) ==
    SetToSortSeq(ToSet(Limited(SetToSortSeq(cands, LAMBDA c, d : c.path < d.path), MaxScan)), Before)
Ranked(cands) ==
    CHOOSE s \in [1..Cardinality(cands) -> cands] :
        ToSet(s) = cands /\ \A i, j \in DOMAIN s : i < j => Before(s[i], s[j])
Listed(cands) == Limited(Ranked(cands), MaxScan)

Passing(s, i) == {j \in 1..i : Passes(s[j])}
Chosen(s) ==
    {s[i].path : i \in {k \in DOMAIN s : /\ Passes(s[k])
                                         /\ MaxSend = 0 \/ Cardinality(Passing(s, k)) <= MaxSend}}

-----------------------------------------------------------------------------
Init == /\ free \in BOOLEAN
        /\ now = 0 /\ rounds = 0 /\ at = "idle"
        /\ feedback = [p \in Paths |-> NoFeedback]
        /\ filter = {} /\ list = <<>> /\ chosen = {}
        /\ kept = {} /\ found = {} /\ funds = Unknown /\ sent = {}

(* With nothing marked left to look at, every routeable token is.          *)
Narrowed(wanted) == IF wanted = {} THEN Routeable ELSE wanted

Begin ==
    /\ at = "idle" /\ rounds < MaxRounds /\ Routeable # {}
    /\ \E marks \in (SUBSET {t \in Tokens : Scannable(t)}) \ {{}}, profile \in [Tokens -> Profiles] :
         LET asked == marks \cap Routeable
         IN kept' = IF free \/ ~Selecting THEN asked ELSE Selected(asked, profile)
    /\ filter' = Narrowed(kept')
    /\ rounds' = rounds + 1 /\ at' = "funds"
    /\ found' = {} /\ sent' = {} /\ funds' = Unknown
    /\ UNCHANGED <<free, now, feedback, list, chosen>>

Mutant_Looked(offer, f) == Candidates(Routeable, offer, f)
(* Without a candidate among them, again over all.                         *)
Looked(offer, f) ==
    LET narrow == Candidates(filter, offer, f)
    IN IF narrow = {} /\ filter # Routeable THEN Candidates(Routeable, offer, f) ELSE narrow

(* The balance has come, or has not; the rest is done without a pause.     *)
Look ==
    /\ at = "funds"
    /\ \E f \in Wealth \cup {Unknown} : \E offer \in [Paths -> UNION {Offers[p] : p \in Paths} \cup {NoOffer}] :
       /\ \A p \in Paths : offer[p] \in Offers[p] \cup {NoOffer}
       /\ LET cands == Looked(offer, f)
          IN /\ found' = cands /\ funds' = f
             /\ list' = Listed(cands) /\ chosen' = Chosen(Listed(cands))
             /\ at' = IF cands = {} THEN "idle" ELSE "send"
    /\ UNCHANGED <<free, now, feedback, rounds, filter, kept, sent>>

Mutant_Evaluated(b, c) ==
    [b EXCEPT !.seen   = now,
              !.evals  = AtMost(@ + 1, PoorAfter),
              !.good   = @ \/ c.exact,
              !.missed = AtMost(@ + (IF c.exact THEN 0 ELSE 1), MissedAfter),
              !.best   = IF b.evals = 0 \/ c.gate < @ THEN c.gate ELSE @]
Evaluated(b, c) ==
    [b EXCEPT !.seen   = now,
              !.evals  = AtMost(@ + 1, PoorAfter),
              !.good   = @ \/ c.exact,
              !.missed = AtMost(@ + (IF c.exact THEN 0 ELSE 1), MissedAfter),
              !.best   = IF b.evals = 0 \/ c.gate > @ THEN c.gate ELSE @]
Near(b)    == [b EXCEPT !.near = AtMost(@ + 1, NearAfter)]
Profits(b) == [b EXCEPT !.selected = AtMost(@ + 1, SelectedMost)]

(* One candidate: sent, with the awaits that takes, or passed over.        *)
After(b, c) ==
    LET seen == Evaluated(b, c)
    IN IF c.path \in chosen THEN Profits(seen)
       ELSE IF c.net - Base >= -Margin THEN Near(seen) ELSE seen

Take ==
    /\ at = "send" /\ list # <<>>
    /\ LET c == Head(list)
       IN /\ feedback' = [feedback EXCEPT ![c.path] = After(@, c)]
          /\ sent' = IF c.path \in chosen THEN sent \cup {c} ELSE sent
    /\ list' = Tail(list)
    /\ UNCHANGED <<free, now, rounds, at, filter, chosen, kept, found, funds>>

Return == /\ at = "send" /\ list = <<>>
          /\ at' = "idle" /\ filter' = {} /\ chosen' = {}
          /\ kept' = {} /\ found' = {} /\ sent' = {} /\ funds' = Unknown
          /\ UNCHANGED <<free, now, feedback, rounds, list>>

(* prune_runtime_state *)
Forget == /\ at = "idle"
          /\ feedback' = [p \in Paths |-> IF now - feedback[p].seen < Ttl THEN feedback[p]
                                          ELSE NoFeedback]
          /\ UNCHANGED <<free, now, rounds, at, round, history>>

Tick == /\ now < MaxTime /\ now' = now + 1
        /\ UNCHANGED <<free, feedback, rounds, at, round, history>>

Next == Begin \/ Look \/ Take \/ Return \/ Forget \/ Tick
Spec == Init /\ [][Next]_vars

-----------------------------------------------------------------------------
Feedbacks == [seen : 0..MaxTime, evals : 0..PoorAfter, good : BOOLEAN, missed : 0..MissedAfter,
              near : 0..NearAfter, selected : 0..SelectedMost, best : Int]

TypeOK ==
    /\ free \in BOOLEAN /\ now \in 0..MaxTime /\ rounds \in 0..MaxRounds
    /\ feedback \in [Paths -> Feedbacks]
    /\ at \in {"idle", "funds", "send"}
    /\ filter \subseteq Routeable /\ kept \subseteq Routeable /\ chosen \subseteq Paths
    /\ sent \subseteq found /\ ToSet(list) \subseteq found
    /\ funds \in Wealth \cup {Unknown}

(* Limits on the list and on the sends cut the worst: what is sent ranks   *)
(* above everything this scan found, could have sent and did not.          *)
BestFirst == \A c \in sent : \A d \in found : Passes(d) /\ Before(d, c) => d \in sent

(* With local checks in force (DISABLE_LOCAL_PROFIT_CHECKS=true, see       *)
(* main.rs:11375) a send is exact, profitable, paid for by the balance the *)
(* scan has read, and misses the base threshold by no more than the limit  *)
(* of the adjustment, however often the path has encouraged itself.        *)
SendsPay == free => \A c \in sent : /\ c.exact /\ c.net > 0
                                    /\ c.net >= Base - MaxAdjust
                                    /\ Payable(c.path, c.size, funds)

(* A token that was not marked, or that the selection has turned down, is  *)
(* sent only if no kept token had a candidate.                             *)
OthersOnlyAsFallback ==
    (\E c \in sent : TokenOf[c.path] \notin kept)
    => \A d \in found : TokenOf[d.path] \notin kept

(* In the feedback loop sending encourages and never discourages: with     *)
(* local checks in force, whatever a path's record says, a send lowers its *)
(* threshold or leaves it, and so does not flip the path off by itself.    *)
SendingEncourages ==
    [][\A p \in Paths : free /\ sent' # sent /\ feedback'[p] # feedback[p]
           => Lesson(feedback'[p]) <= Lesson(feedback[p])]_vars
=============================================================================
