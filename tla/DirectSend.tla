----------------------------- MODULE DirectSend -----------------------------
(***************************************************************************)
(* What happens to a candidate between the scan and the send path: one     *)
(* function of src/src/main.rs per pair of venues, each a row of gates, a  *)
(* build, for some a simulation, a send, and what it does about a failure: *)
(* cooldowns, other numbers of arrays, a second build and send.  The main  *)
(* loop awaits each call, so there is one at a time.  A family stands for  *)
(* one pair of pools of one token.  Live sending is on (the dispatcher     *)
(* returns otherwise); the send itself is SendPath's.                      *)
(***************************************************************************)
EXTENDS WindowSearch, Sequences

CONSTANTS
    Meets,     \* Meets[w]: errors of the chain when w bin arrays are carried
    Interval,  \* DIRECT_SEND_ATTEMPT_MIN_INTERVAL
    Ttl,       \* EXECUTION_ATTEMPT_TTL
    Short,     \* cooldowns below the attempt's life: 30, 45, 60, 120, 180 s
    Long,      \* the others: 300, 600, 900, 1800 s
    Sizes,     \* bound: trade sizes a probe tries
    MaxTime,   \* bound: the clock
    MaxCalls   \* bound: calls of a behaviour

ASSUME SendAssumption ==
    /\ Meets \in [Base..MaxWindow -> SUBSET Errors]
    /\ Interval \in Nat /\ Ttl \in Nat /\ Short \in Nat /\ Long \in Nat
    /\ Interval <= Ttl
    /\ Sizes \in Nat \ {0} /\ MaxTime \in Nat /\ MaxCalls \in Nat

VARIABLES
    required,   \* require_pre_send_simulation
    probe,      \* METEORA_ACCOUNT_PROBE_ENABLED: the plan is built by simulating
    fast,       \* FAST_PATH_DIRECT_SEND
    free,       \* DISABLE_LOCAL_PROFIT_CHECKS
    noskip,     \* DISABLE_DIRECT_SEND_SKIP
    now,        \* the clock
    cool,       \* direct_path_cooldowns: the end of each
    attempted,  \* execution_attempts of the token
    search,     \* bin arrays of the Meteora pool
    ticks,      \* tick arrays of the Raydium pool
    calls,      \* calls so far
    call,       \* the function that runs, and its locals
    quiet,      \* history: the latest end ever given to each cooldown
    last        \* history: when a call last passed its gates

switches == <<required, probe, fast, free, noskip>>
learned  == <<search, ticks>>
history  == <<quiet, last>>
vars == <<switches, now, cool, attempted, learned, calls, call, history>>

Families == {"rpc_direct", "pumpswap_meteora", "pumpswap_clmm", "meteora_raydium",
             "meteora_whirlpool", "raydium_whirlpool", "meteora_meteora"}
Keys     == Families \cup {"meteora_raydium:*"}
Moments  == [at : 0..MaxTime, is : BOOLEAN]
Never    == [at |-> 0, is |-> FALSE]

(* mode: "probe" tries sizes by simulation, "spot" asks for no exact quote.*)
(* bypass: a retry that skips the attempt interval.  again: whether the    *)
(* plan was built again, after a simulation or after a send.  plan: builds *)
(* of this function.  units: the build the compute units were simulated    *)
(* for, 0 for none.  error: error_text.                                    *)
NoCall == [at |-> "idle", family |-> "rpc_direct", mode |-> "plain", sizes |-> 0,
           bypass |-> FALSE, again |-> "no", plan |-> 0, units |-> 0, error |-> "other"]
Calls  == [at     : {"idle", "gates", "build", "simulate", "send"},
           family : Families, mode : {"plain", "probe", "spot"}, sizes : 0..Sizes,
           bypass : BOOLEAN, again : {"no", "simulated", "sent"},
           plan   : 0..(2 + Sizes), units : 0..(2 + Sizes), error : Errors]

-----------------------------------------------------------------------------
(* Cooldowns.  A new one replaces the old, whichever ends later; they are  *)
(* set, but none counts, while skipping is switched off.                   *)
KeysOf(f)  == IF f = "meteora_raydium" THEN {f, "meteora_raydium:*"} ELSE {f}
Cooling(f) == ~noskip /\ \E k \in KeysOf(f) : cool[k] > now

None          == [k \in Keys |-> 0]
For(k, d)     == [None EXCEPT ![k] = d]
CoolDown(after) ==  \* after: the duration given to each key, 0 where none is
    /\ cool'  = [k \in Keys |-> IF after[k] = 0 THEN cool[k] ELSE now + after[k]]
    /\ quiet' = [k \in Keys |-> IF after[k] = 0 THEN quiet[k]
                                ELSE Greatest(quiet[k], now + after[k])]

Classified(e) == CASE e \in {"other", "limited"} -> 0
                   [] e = "blockhash"            -> Short
                   [] OTHER                      -> Long
Backoff(e)    == IF required THEN 0 ELSE Classified(e)

(* Attempts: one key for the token, whichever family asks.  A retry and    *)
(* either of two switches passes unasked, and unrecorded.                  *)
Unasked == call.bypass \/ free \/ noskip
Spaced  == ~attempted.is \/ now - attempted.at >= Interval
Mutant_Recorded == IF Unasked \/ attempted.is THEN attempted ELSE [at |-> now, is |-> TRUE]
Recorded == IF Unasked THEN attempted ELSE [at |-> now, is |-> TRUE]

(* prune_runtime_state, between two rounds of the loop *)
Prune == /\ call.at = "idle"
         /\ attempted' = IF attempted.is /\ now - attempted.at >= Ttl THEN Never ELSE attempted
         /\ cool' = [k \in Keys |-> IF cool[k] > now THEN cool[k] ELSE 0]
         /\ UNCHANGED <<switches, now, learned, calls, call, history>>

Tick == /\ now < MaxTime
        /\ now' = now + 1
        /\ UNCHANGED <<switches, cool, attempted, learned, calls, call, history>>

-----------------------------------------------------------------------------
(* The gates of each family, in order.  "cooldown" refuses while one runs; *)
(* "stale" refuses by the age of the pools, and cools; "attempt" asks for  *)
(* the interval and records; the others decide by prices and states, and   *)
(* cool for as long as they say.                                           *)
RpcDirectGates        == <<"filter", "attempt", "filter">>
PumpswapMeteoraPools  == <<"filter", "cooldown", "stale", "filter">>
PumpswapMeteoraQuote  == <<"filterLong", "filterShort", "filterMaybe", "attempt">>
PumpswapClmmGates     == <<"filter", "cooldown", "stale", "filter", "attempt", "filter">>
MeteoraRaydiumPools   == <<"cooldown", "stale", "filter">>
MeteoraRaydiumQuote   == <<"filterLong", "filterMaybe">>
MeteoraWhirlpoolGates == <<"cooldown", "stale", "filter", "attempt">>
RaydiumWhirlpoolGates == <<"cooldown", "filter", "stale", "filter", "attempt">>
MeteoraMeteoraPools   == <<"cooldown", "filter", "stale", "filter">>
MeteoraMeteoraQuote   == <<"filter">>

Mutant_Gates(f, m) == <<"filter", "stale", "cooldown", "filter", "attempt">>
Gates(f, m) ==
    CASE f = "rpc_direct"        -> RpcDirectGates
      [] f = "pumpswap_meteora"  -> PumpswapMeteoraPools \o PumpswapMeteoraQuote
      [] f = "pumpswap_clmm"     -> PumpswapClmmGates
      [] f = "meteora_raydium"   -> MeteoraRaydiumPools \o
             (IF m = "plain" THEN MeteoraRaydiumQuote ELSE <<>>) \o <<"attempt">>
      [] f = "meteora_whirlpool" -> MeteoraWhirlpoolGates
      [] f = "raydium_whirlpool" -> RaydiumWhirlpoolGates
      [] f = "meteora_meteora"   -> MeteoraMeteoraPools \o
             (IF m = "plain" THEN MeteoraMeteoraQuote ELSE <<>>) \o <<"attempt">>

(* What sending for a positive spot price may ignore: the reason of a      *)
(* cooldown is not kept here, so it may be one of those.                   *)
Ignores == call.family = "meteora_raydium" /\ free

MayPass(g) ==
    CASE g = "cooldown" -> ~Cooling(call.family) \/ Ignores
      [] g = "attempt"  -> Spaced \/ Unasked
      [] OTHER          -> TRUE
MayRefuse(g) ==
    CASE g = "cooldown"    -> Cooling(call.family)
      [] g = "attempt"     -> ~(Spaced \/ Unasked)
      [] g = "stale"       -> ~required /\ ~free /\ ~noskip
      [] g = "filterShort" -> ~free
      [] g = "filterMaybe" -> ~free /\ ~noskip
      [] OTHER             -> TRUE
Cools(g) == CASE g = "filterLong"               -> {Long}
              [] g \in {"filterShort", "stale"} -> {Short}
              [] g = "filterMaybe"              -> {0, Long}
              [] OTHER                          -> {0}

Modes(f) == CASE f = "meteora_raydium" -> IF fast /\ required THEN {"probe"}
                                          ELSE IF free THEN {"plain", "spot"} ELSE {"plain"}
              [] f = "meteora_meteora" -> IF required THEN {"plain", "probe"} ELSE {"plain"}
              [] OTHER                 -> {"plain"}

Init == /\ required \in BOOLEAN /\ probe \in BOOLEAN /\ fast \in BOOLEAN
        /\ free \in BOOLEAN /\ noskip \in BOOLEAN
        /\ now = 0 /\ calls = 0 /\ call = NoCall
        /\ cool = None /\ quiet = None
        /\ attempted = Never /\ last = Never
        /\ search = NoSearch /\ ticks = TickBase

Started(f, m) == [NoCall EXCEPT !.at = "gates", !.family = f, !.mode = m,
                                !.sizes = IF m = "probe" THEN Sizes ELSE 0]

(* maybe_send_program_pair_candidate: PumpSwap and Meteora go by           *)
(* "rpc_direct"; "pumpswap_meteora" is only entered as its retry.          *)
Dispatch ==
    /\ call.at = "idle" /\ calls < MaxCalls
    /\ calls' = calls + 1
    /\ \E f \in Families \ {"pumpswap_meteora"} : \E m \in Modes(f) : call' = Started(f, m)
    /\ UNCHANGED <<switches, now, cool, attempted, learned, history>>

PassGates ==
    /\ call.at = "gates"
    /\ LET gates == Gates(call.family, call.mode)
       IN \A i \in DOMAIN gates : MayPass(gates[i])
    /\ attempted' = Recorded
    /\ last'  = IF Unasked THEN last ELSE [at |-> now, is |-> TRUE]
    /\ call' = [call EXCEPT !.at = "build"]
    /\ UNCHANGED <<switches, now, cool, learned, calls, quiet>>

Refused ==  \* by the i-th gate
    /\ call.at = "gates"
    /\ LET gates == Gates(call.family, call.mode)
       IN \E i \in DOMAIN gates :
            /\ \A j \in 1..(i - 1) : MayPass(gates[j])
            /\ MayRefuse(gates[i])
            /\ attempted' = IF \E j \in 1..(i - 1) : gates[j] = "attempt"
                            THEN Recorded ELSE attempted
            /\ \E d \in Cools(gates[i]) : CoolDown(For(call.family, d))
    /\ call' = NoCall
    /\ UNCHANGED <<switches, now, learned, calls, last>>

-----------------------------------------------------------------------------
(* What a step of the call leaves behind.                                  *)
Step(next, s, t, after) ==
    /\ call' = next /\ search' = s /\ ticks' = t
    /\ CoolDown(after)
    /\ UNCHANGED <<switches, now, attempted, calls, last>>
Returns(s, t, after) == Step(NoCall, s, t, after)
GoOn(next)           == Step(next, search, ticks, None)

Restarted == [NoCall EXCEPT !.at = "gates", !.family = "pumpswap_meteora", !.bypass = TRUE]
NextSize  == IF call.sizes > 1 THEN [call EXCEPT !.at = "build", !.sizes = @ - 1] ELSE NoCall

Mutant_Rebuilt(when, e) == [call EXCEPT !.at = "build", !.again = when, !.error = e]
Rebuilt(when, e) == [call EXCEPT !.at = "build", !.again = when, !.error = e, !.units = 0]

Window(e)  == e \in Size \cup Shortage
Moves(e)   == Adjusted(search, e).window # search.window
Met        == Meets[search.window] \cup {"blockhash", "failed", "other"}
              \cup (IF call.family \in {"pumpswap_clmm", "meteora_raydium", "raydium_whirlpool"}
                    THEN TickGap ELSE {})

(* Whether the plan is built with a simulation of its legs.                *)
Calibrated == \/ call.family = "rpc_direct" /\ probe
              \/ call.family = "pumpswap_meteora" /\ (required \/ probe)

(* Where a call goes once its plan stands.                                 *)
RpcDirectBuilt        == IF probe /\ call.again # "sent" THEN "simulate" ELSE "send"
PumpswapMeteoraBuilt  == IF Calibrated THEN "simulate" ELSE "send"
PumpswapClmmBuilt     == IF required THEN "idle" ELSE "send"  \* block_unsimulated_direct_send
MeteoraRaydiumBuilt   == IF required THEN "idle" ELSE "send"
MeteoraMeteoraBuilt   == IF required THEN "idle" ELSE "send"
MeteoraWhirlpoolBuilt == IF required THEN "simulate" ELSE "send"
RaydiumWhirlpoolBuilt == IF required THEN "simulate" ELSE "send"

AfterBuild ==
    IF call.mode = "probe" THEN "simulate"
    ELSE CASE call.family = "rpc_direct"        -> RpcDirectBuilt
           [] call.family = "pumpswap_meteora"  -> PumpswapMeteoraBuilt
           [] call.family = "pumpswap_clmm"     -> PumpswapClmmBuilt
           [] call.family = "meteora_raydium"   -> MeteoraRaydiumBuilt
           [] call.family = "meteora_meteora"   -> MeteoraMeteoraBuilt
           [] call.family = "meteora_whirlpool" -> MeteoraWhirlpoolBuilt
           [] call.family = "raydium_whirlpool" -> RaydiumWhirlpoolBuilt

Build == /\ call.at = "build"
         /\ GoOn(IF AfterBuild = "idle" THEN NoCall
                 ELSE [call EXCEPT !.at = AfterBuild, !.plan = @ + 1])

(* What a call does when its send has failed with e, for good or to build  *)
(* and send once more.                                                     *)
RpcDirectSendFailed(e) ==
    IF call.again # "sent" /\ Window(e)
    THEN Step(Rebuilt("sent", e), Adjusted(search, e), ticks, None)
    ELSE Returns(IF call.again = "sent" THEN Adjusted(search, e) ELSE search, ticks, None)

RestartsWithOtherWindow(e) == /\ Moves(e)
                              /\ Step(Restarted, Adjusted(search, e), ticks, None)

PumpswapMeteoraSendFailed(e) ==
    LET met   == Adjusted(search, e)
        large == IF e = "large" THEN Long ELSE 0
    IN IF Moves(e)
       THEN Step(Restarted, met, ticks, For(call.family, large))
       ELSE Returns(Adjusted(met, e), ticks, For(call.family, Greatest(large, Backoff(e))))

PumpswapClmmSendFailed(e) ==
    Returns(search, TicksBumped(ticks, e), For(call.family, Backoff(e)))

(* The tail of the plain send: s as the retry has left the search.         *)
MeteoraRaydiumGivesUp(s, e, retried) ==
    LET fewer   == IF e \in Size THEN Reduced(s) ELSE s
        less    == TicksReduced(ticks, e)
        reduced == fewer.window < s.window \/ less < ticks
        path    == IF reduced THEN 0 ELSE IF e = "large" THEN Long ELSE Backoff(e)
        token   == IF Classified(e) # 0 THEN Short ELSE 0
    IN Returns(IF reduced \/ retried THEN fewer ELSE Adjusted(fewer, e),
               TicksBumped(less, e),
               [None EXCEPT !["meteora_raydium"] = path, !["meteora_raydium:*"] = token])

MeteoraRaydiumSendFailed(e) ==
    CASE call.again = "sent" -> MeteoraRaydiumGivesUp(Adjusted(search, e), e, TRUE)
      [] call.again = "no" /\ Window(e) ->
             Step(Rebuilt("sent", e), Adjusted(search, e), ticks, None)
      [] OTHER -> MeteoraRaydiumGivesUp(search, e, FALSE)

MeteoraRaydiumSpotFailed(e) ==
    IF call.again = "no" /\ Window(e)
    THEN Step(Rebuilt("sent", e), Adjusted(search, e), ticks, None)
    ELSE Returns(IF call.again = "sent" THEN Adjusted(search, e) ELSE search, ticks, None)

MeteoraRaydiumProbeSendFailed(e) ==
    LET fewer   == IF e \in Size THEN Reduced(search) ELSE search
        less    == TicksReduced(ticks, e)
        reduced == fewer.window < search.window \/ less < ticks
        class   == Classified(e)
    IN Returns(IF reduced THEN fewer ELSE Adjusted(fewer, e), less,
               [None EXCEPT !["meteora_raydium"]   = class,
                            !["meteora_raydium:*"] = IF class = 0 THEN 0 ELSE Short])

MeteoraWhirlpoolSendFailed(e) ==
    CASE required -> Returns(search, ticks, None)
      [] ~required /\ call.again = "no" /\ Window(e) ->
             Step(Rebuilt("sent", e), Adjusted(search, e), ticks, None)
      [] OTHER -> Returns(IF call.again = "sent" THEN Adjusted(search, e) ELSE search, ticks,
                          For(call.family, Backoff(e)))

RaydiumWhirlpoolSendFailed(e) ==
    Returns(search, TicksBumped(ticks, e), For(call.family, Backoff(e)))

MeteoraMeteoraSendFailed(e) ==
    Returns(search, ticks, For(call.family, IF call.mode = "probe" THEN 0 ELSE Backoff(e)))

SendFailed(e) ==
    CASE call.family = "rpc_direct"        -> RpcDirectSendFailed(e)
      [] call.family = "pumpswap_meteora"  -> PumpswapMeteoraSendFailed(e)
      [] call.family = "pumpswap_clmm"     -> PumpswapClmmSendFailed(e)
      [] call.family = "meteora_raydium"   ->
             (CASE call.mode = "plain" -> MeteoraRaydiumSendFailed(e)
                [] call.mode = "spot"  -> MeteoraRaydiumSpotFailed(e)
                [] call.mode = "probe" -> MeteoraRaydiumProbeSendFailed(e))
      [] call.family = "meteora_whirlpool" -> MeteoraWhirlpoolSendFailed(e)
      [] call.family = "raydium_whirlpool" -> RaydiumWhirlpoolSendFailed(e)
      [] call.family = "meteora_meteora"   -> MeteoraMeteoraSendFailed(e)

(* The send went out, or the rate limit answered: only the two families    *)
(* with Whirlpool take the limit for an error like others, and no others   *)
(* do anything about it.                                                   *)
SendReturns == /\ call.at = "send"
               /\ Returns(search, ticks, None)
SendFails   == /\ call.at = "send"
               /\ \E e \in Met : SendFailed(e)

-----------------------------------------------------------------------------
(* A build that fails; one refused by the profit guard or by the fee plan  *)
(* is one that fails with "other".                                         *)
SecondBuildFailed ==  \* the tail for the error of the first send
    CASE call.family = "meteora_raydium" /\ call.mode = "plain" ->
             MeteoraRaydiumGivesUp(search, call.error, TRUE)
      [] call.family = "meteora_whirlpool" ->
             Returns(search, ticks, For(call.family, Backoff(call.error)))
      [] OTHER -> Returns(search, ticks, None)

FirstBuildFailed(e) ==
    CASE call.family \in {"rpc_direct", "pumpswap_meteora"} /\ call.again = "no" ->
             \/ RestartsWithOtherWindow(e)
             \/ ~Moves(e) /\ Returns(Adjusted(search, e), ticks, None)
      [] call.family = "raydium_whirlpool" -> Returns(search, TicksBumped(ticks, e), None)
      [] OTHER -> Returns(search, ticks, None)

BuildFailed(e) == IF call.again = "sent" THEN SecondBuildFailed
                  ELSE IF call.mode = "probe" THEN GoOn(NextSize)
                  ELSE FirstBuildFailed(e)

BuildFails == /\ call.at = "build"
              /\ \E e \in IF Calibrated THEN Met ELSE Met \ (Size \cup Shortage) : BuildFailed(e)

-----------------------------------------------------------------------------
(* Simulations before the send.                                            *)
Simulated ==  \* and the simulated profit passes the gate, where there is one
    /\ call.at = "simulate"
    /\ GoOn([call EXCEPT !.at = "send", !.units = call.plan])

SimulationRefused ==
    /\ call.at = "simulate" /\ call.family # "rpc_direct"
    /\ IF call.mode = "probe" THEN GoOn(NextSize)
       ELSE Returns(search, ticks,
                    IF call.family = "pumpswap_meteora" THEN For(call.family, Short) ELSE None)

RpcDirectSimulationFailed(e) ==
    IF call.again = "no" /\ e \in Shortage
    THEN Step(Rebuilt("simulated", e), Adjusted(search, e), ticks, None)
    ELSE Returns(search, ticks, None)

MeteoraRaydiumProbeFailed(e) ==
    Step(IF e \in {"large", "firstTick"} THEN NoCall ELSE NextSize,
         IF e \in Size THEN Reduced(search) ELSE search, TicksReduced(ticks, e), None)

MeteoraMeteoraProbeFailed(e) == GoOn(IF e = "large" THEN NoCall ELSE NextSize)

SimulationFailed(e) ==
    CASE call.family = "rpc_direct"        -> RpcDirectSimulationFailed(e)
      [] call.family = "meteora_raydium"   -> MeteoraRaydiumProbeFailed(e)
      [] call.family = "meteora_meteora"   -> MeteoraMeteoraProbeFailed(e)
      [] call.family = "meteora_whirlpool" -> Returns(Adjusted(search, e), ticks, None)
      [] call.family = "raydium_whirlpool" -> Returns(search, TicksBumped(ticks, e), None)
      [] OTHER                             -> Returns(search, ticks, None)

SimulationFails == /\ call.at = "simulate"
                   /\ \E e \in Met : SimulationFailed(e)

CallStep == \/ PassGates \/ Refused
            \/ Build \/ BuildFails
            \/ Simulated \/ SimulationRefused \/ SimulationFails
            \/ SendReturns \/ SendFails

Next == Dispatch \/ CallStep \/ Prune \/ Tick

Spec == Init /\ [][Next]_vars
(* The loop awaits the call, and every await of it has a timeout.          *)
FairSpec == Spec /\ WF_vars(CallStep)

-----------------------------------------------------------------------------
TypeOK ==
    /\ required \in BOOLEAN /\ probe \in BOOLEAN /\ fast \in BOOLEAN
    /\ free \in BOOLEAN /\ noskip \in BOOLEAN
    /\ now \in 0..MaxTime /\ calls \in 0..MaxCalls
    /\ cool \in [Keys -> Nat] /\ quiet \in [Keys -> Nat]
    /\ attempted \in Moments /\ last \in Moments
    /\ search \in Searches /\ ticks \in TickCounts
    /\ call \in Calls

(* Replacing a cooldown must not shorten it.  While skipping is not        *)
(* switched off, and of each family that reads cooldowns (rpc_direct does  *)
(* not), no call passes the gates before the latest end any earlier        *)
(* failure has asked for, in whatever order failures, stale pools and      *)
(* retries have set them.  Sending for a positive spot price is aside.     *)
CooldownsHold == [][PassGates /\ ~noskip /\ call.family # "rpc_direct" /\ ~Ignores
                    => \A k \in KeysOf(call.family) : quiet[k] <= now]_vars

(* Whatever family asks, and whatever was pruned between: unless one of    *)
(* the two switches is on, two calls for the token get past the gates at   *)
(* least Interval apart, retries aside.                                    *)
AttemptsSpaced == [][PassGates /\ ~Unasked /\ last.is => now - last.at >= Interval]_vars

(* The compute limit of a send was simulated for the very plan it sends,   *)
(* through rebuilds, restarts and sizes; or the send finds its own.        *)
UnitsAreOfThisPlan == call.at = "send" => call.units \in {0, call.plan}

(* src/src/main.rs:27707: the search goes between the liquidity bound and  *)
(* the lock bound.                                                         *)
SearchBetween == Between(search)

(* A retry for a missing bitmap extension or for more keys: the window is  *)
(* widened, even above what was too large, and no bound of it is learned.  *)
WidensBlindly ==
    \E e \in (Shortage \ Liquidity) \cap Met :
        /\ Moves(e)
        /\ \/ call.at = "build" /\ BuildFailed(e)
           \/ call.at = "send" /\ SendFailed(e)

(* The search is what ends the retries of a call: each returns to the      *)
(* loop, which scans for no one meanwhile, whatever a window meets at      *)
(* which try, unless it is widened again and again without a bound.  (Then *)
(* it need not end: SearchConverges.)                                      *)
CallReturns == (call.at # "idle" ~> call.at = "idle") \/ []<><<WidensBlindly>>_vars

(* src/src/main.rs:27707 again, of a call whose retries meet a missing     *)
(* bitmap (retryable by the test at 27676) at a small window and too many  *)
(* locks at a large one: the search converges, so the retries end.         *)
SearchConverges == call.at # "idle" ~> call.at = "idle"
=============================================================================
