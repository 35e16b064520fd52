-------------------------- MODULE DirectSendProofs --------------------------
(* Proofs about the window search and the calls of DirectSend, for every   *)
(* window, step, interval, cooldown and number of calls.                   *)
EXTENDS DirectSend, Integers, TLAPS

-----------------------------------------------------------------------------
(* The search.                                                             *)

(* Reducing after a size error stays in the range of windows, and between  *)
(* the bounds when the window was between them.                            *)
LEMMA ReducedSearch ==
  ASSUME NEW s \in Searches
  PROVE  /\ Reduced(s) \in Searches
         /\ Between(s) => Between(Reduced(s))
<1> USE WindowAssumption DEF Searches, Least, Greatest
<1> DEFINE most == IF s.most = 0 THEN s.window - 1 ELSE Least(s.most, s.window - 1)
           need == Greatest(s.need, Base)
           next == IF s.need # 0 THEN Midpoint(need, most) ELSE Greatest(s.window - Cut, Base)
           to   == IF need <= most /\ next < s.window THEN next ELSE s.window
<1>1. CASE s.window <= Base
  BY <1>1 DEF Reduced
<1>2. CASE s.window > Base
  <2>1. Reduced(s) = [s EXCEPT !.most = most, !.window = to]
    BY <1>2 DEF Reduced
  <2>2. most \in Base..MaxWindow /\ most < s.window /\ need \in Base..(MaxWindow + 1)
    BY <1>2
  <2>3. need <= most => Midpoint(need, most) \in need..most
    BY <2>2 DEF Midpoint
  <2>4. next \in Int
    BY <2>2 DEF Midpoint
  <2>5. to \in Base..MaxWindow
    <3>1. CASE need <= most /\ next < s.window
      BY <3>1, <2>2, <2>3, <1>2
    <3>2. CASE ~(need <= most /\ next < s.window)
      BY <3>2, <1>2
    <3> QED
      BY <3>1, <3>2
  <2>6. Reduced(s).window = to /\ Reduced(s).most = most /\ Reduced(s).need = s.need
    BY <2>1
  <2>7. Reduced(s) \in Searches
    BY <2>1, <2>2, <2>5
  <2>8. ASSUME Between(s) PROVE Between(Reduced(s))
    <3>1. Highest(Reduced(s)) = most
      BY <2>2, <2>6 DEF Highest
    <3>2. SUFFICES ASSUME s.need <= most PROVE s.need <= to /\ to <= most
      BY <2>6, <3>1 DEF Between
    <3>3. need <= most
      BY <3>2, <2>2
    <3>4. CASE s.need # 0
      <4>1. next \in need..most
        BY <3>4, <3>3, <2>3
      <4>2. to = next
        BY <4>1, <3>3, <2>2
      <4> QED
        BY <4>1, <4>2
    <3>5. CASE s.need = 0
      <4>1. need = Base /\ next = Greatest(s.window - Cut, Base) /\ next < s.window
        BY <3>5, <1>2
      <4>2. to = next /\ Base <= to
        BY <4>1, <3>3
      <4>3. to <= most
        <5>1. CASE s.most = 0
          BY <5>1, <4>1, <4>2, <1>2
        <5>2. CASE s.most # 0
          BY <5>2, <4>1, <4>2, <1>2, <2>8 DEF Between, Highest
        <5> QED
          BY <5>1, <5>2
      <4> QED
        BY <4>2, <4>3, <3>5
    <3> QED
      BY <3>4, <3>5
  <2> QED
    BY <2>7, <2>8
<1> QED
  BY <1>1, <1>2

(* Expanding after a liquidity error does the same: the bound it raises is *)
(* the one it then moves above.                                            *)
LEMMA ExpandedSearch ==
  ASSUME NEW s \in Searches, NEW e \in Liquidity
  PROVE  Expanded(s, e) \in Searches /\ Between(Expanded(s, e))
<1> USE WindowAssumption DEF Searches, Least, Greatest
<1> DEFINE need == Greatest(s.need, s.window + 1)
           low  == Least(need, MaxWindow)
           high == IF s.most = 0 THEN MaxWindow ELSE s.most
           next == IF s.most # 0 THEN Midpoint(low, high)
                   ELSE Greatest(Least(s.window + Bump, high), low)
           to   == IF low <= high /\ next > s.window THEN next ELSE s.window
<1>1. Expanded(s, e) = [s EXCEPT !.need = need, !.window = to]
  BY DEF Expanded
<1>2. need \in (Base + 1)..(MaxWindow + 1) /\ low \in Base..MaxWindow /\ high \in Base..MaxWindow
  OBVIOUS
<1>3. low <= high => next \in low..high
  <2>1. CASE s.most # 0
    BY <2>1, <1>2 DEF Midpoint
  <2>2. CASE s.most = 0
    BY <2>2, <1>2
  <2> QED
    BY <2>1, <2>2
<1>4. to \in Base..MaxWindow
  <2>1. CASE low <= high /\ next > s.window
    BY <2>1, <1>2, <1>3
  <2>2. CASE ~(low <= high /\ next > s.window)
    BY <2>2
  <2> QED
    BY <2>1, <2>2
<1>5. Expanded(s, e).need = need /\ Expanded(s, e).window = to /\ Expanded(s, e).most = s.most
  BY <1>1
<1>6. Expanded(s, e) \in Searches
  BY <1>1, <1>2, <1>4
<1>7. Between(Expanded(s, e))
  <2>1. Highest(Expanded(s, e)) = high
    BY <1>5 DEF Highest
  <2>2. SUFFICES ASSUME need <= high PROVE need <= to /\ to <= high
    BY <1>5, <2>1 DEF Between
  <2>3. low = need /\ next \in need..high
    BY <2>2, <1>2, <1>3
  <2>4. to = next
    BY <2>2, <2>3
  <2> QED
    BY <2>3, <2>4
<1> QED
  BY <1>6, <1>7

(* The errors after which the window moves without a bound being learned.  *)
Unbounded == Shortage \ Liquidity
Clean     == \A w \in Base..MaxWindow : Meets[w] \cap Unbounded = {}
Sound(s)  == s \in Searches /\ (Clean => Between(s))

LEMMA AdjustedSearch ==
  ASSUME NEW s, Sound(s), NEW e \in Errors, Clean => e \notin Unbounded
  PROVE  Sound(Adjusted(s, e))
<1>1. CASE e \in Size
  <2>1. Adjusted(s, e) = Reduced(s)
    BY <1>1 DEF Adjusted, Size, Shortage, Liquidity
  <2> QED
    BY <2>1, ReducedSearch DEF Sound
<1>2. CASE e \in Liquidity
  <2>1. Adjusted(s, e) = Expanded(s, e)
    BY <1>2 DEF Adjusted, Size, Shortage, Liquidity
  <2> QED
    BY <2>1, <1>2, ExpandedSearch DEF Sound
<1>3. CASE e \in Unbounded
  <2>1. Adjusted(s, e) = Widened(s)
    BY <1>3 DEF Adjusted, Expanded, Unbounded, Size, Shortage, Liquidity
  <2>2. Widened(s) \in Searches
    BY WindowAssumption DEF Widened, Sound, Searches, Least
  <2> QED
    BY <2>1, <2>2, <1>3 DEF Sound
<1>4. CASE e \notin Size \cup Shortage
  <2>1. e \notin Shortage
    BY <1>4
  <2>2. Adjusted(s, e) = s
    BY <1>4, <2>1 DEF Adjusted
  <2> QED
    BY <2>2
<1> QED
  BY <1>1, <1>2, <1>3, <1>4 DEF Unbounded, Shortage

LEMMA ReducedSound ==
  ASSUME NEW s, Sound(s) PROVE Sound(Reduced(s))
  BY ReducedSearch DEF Sound

(* A call, its counters without bounds.                                    *)
Shapes == [at     : {"idle", "gates", "build", "simulate", "send"},
           family : Families, mode : {"plain", "probe", "spot"}, sizes : Nat,
           bypass : BOOLEAN, again : {"no", "simulated", "sent"},
           plan   : Nat, units : Nat, error : Errors]

(* The last steps of the two ways of sending a Meteora and Raydium plan.   *)
LEMMA GivesUpSound ==
  ASSUME NEW s, Sound(s), NEW e \in Errors, NEW retried \in BOOLEAN,
         ~retried => (Clean => e \notin Unbounded), MeteoraRaydiumGivesUp(s, e, retried)
  PROVE  Sound(search')
<1> DEFINE fewer == IF e \in Size THEN Reduced(s) ELSE s
<1>1. Sound(fewer)
  BY ReducedSound
<1>2. ~retried => Sound(Adjusted(fewer, e))
  BY <1>1, AdjustedSearch
<1>3. search' = fewer \/ (~retried /\ search' = Adjusted(fewer, e))
  BY DEF MeteoraRaydiumGivesUp, Returns, Step
<1> QED
  BY <1>1, <1>2, <1>3

LEMMA ProbeSendSound ==
  ASSUME Sound(search), NEW e \in Errors, Clean => e \notin Unbounded, MeteoraRaydiumProbeSendFailed(e)
  PROVE  Sound(search')
<1> DEFINE fewer == IF e \in Size THEN Reduced(search) ELSE search
<1>1. Sound(fewer)
  BY ReducedSound
<1>2. Sound(Adjusted(fewer, e))
  BY <1>1, AdjustedSearch
<1>3. search' = fewer \/ search' = Adjusted(fewer, e)
  BY DEF MeteoraRaydiumProbeSendFailed, Returns, Step
<1> QED
  BY <1>1, <1>2, <1>3

(* Every way a send fails leaves the search sound. *)
LEMMA SendFailedSound ==
  ASSUME Sound(search), call \in Shapes, NEW e \in Errors, Clean => e \notin Unbounded, SendFailed(e)
  PROVE  Sound(search')
<1> DEFINE met == Adjusted(search, e)
<1>0. call.family \in Families /\ call.mode \in {"plain", "probe", "spot"}
  BY DEF Shapes
<1>1. Sound(met) /\ Sound(Adjusted(met, e))
  BY AdjustedSearch
<1>2. CASE call.family = "rpc_direct"
  <2>1. RpcDirectSendFailed(e)
    BY <1>2 DEF SendFailed
  <2>2. search' \in {search, met}
    BY <2>1 DEF RpcDirectSendFailed, Returns, Step
  <2> QED
    BY <2>2, <1>1
<1>3. CASE call.family = "pumpswap_meteora"
  <2>1. PumpswapMeteoraSendFailed(e)
    BY <1>3 DEF SendFailed
  <2>2. search' \in {met, Adjusted(met, e)}
    BY <2>1 DEF PumpswapMeteoraSendFailed, Returns, Step
  <2> QED
    BY <2>2, <1>1
<1>4. CASE call.family \in {"pumpswap_clmm", "raydium_whirlpool", "meteora_meteora"}
  <2>1. PumpswapClmmSendFailed(e) \/ RaydiumWhirlpoolSendFailed(e) \/ MeteoraMeteoraSendFailed(e)
    BY <1>4 DEF SendFailed
  <2>2. search' = search
    BY <2>1 DEF PumpswapClmmSendFailed, RaydiumWhirlpoolSendFailed, MeteoraMeteoraSendFailed,
       Returns, Step
  <2> QED
    BY <2>2
<1>5. CASE call.family = "meteora_whirlpool"
  <2>1. MeteoraWhirlpoolSendFailed(e)
    BY <1>5 DEF SendFailed
  <2>2. search' \in {search, met}
    BY <2>1 DEF MeteoraWhirlpoolSendFailed, Returns, Step
  <2> QED
    BY <2>2, <1>1
<1>6. CASE call.family = "meteora_raydium" /\ call.mode = "plain"
  <2>1. MeteoraRaydiumSendFailed(e)
    BY <1>6 DEF SendFailed
  <2>2. \/ MeteoraRaydiumGivesUp(met, e, TRUE)
        \/ MeteoraRaydiumGivesUp(search, e, FALSE)
        \/ search' = met
    BY <2>1 DEF MeteoraRaydiumSendFailed, Step
  <2> QED
    BY <2>2, <1>1, GivesUpSound
<1>7. CASE call.family = "meteora_raydium" /\ call.mode = "spot"
  <2>1. MeteoraRaydiumSpotFailed(e)
    BY <1>7 DEF SendFailed
  <2>2. search' \in {search, met}
    BY <2>1 DEF MeteoraRaydiumSpotFailed, Returns, Step
  <2> QED
    BY <2>2, <1>1
<1>8. CASE call.family = "meteora_raydium" /\ call.mode = "probe"
  <2>1. MeteoraRaydiumProbeSendFailed(e)
    BY <1>8 DEF SendFailed
  <2> QED
    BY <2>1, ProbeSendSound
<1> QED
  BY <1>0, <1>2, <1>3, <1>4, <1>5, <1>6, <1>7, <1>8 DEF Families

-----------------------------------------------------------------------------
(* The calls.                                                              *)

(* A call has no units before its send, and then those of its last plan.   *)
Good(c) == /\ c \in Shapes
           /\ c.at # "send" => c.units = 0
           /\ c.at = "send" => c.units \in {0, c.plan}

(* What every step behind the gates does: another state of the call, and   *)
(* cooldowns for the family's own keys, only where the call leaves the     *)
(* part behind the gates, and none by rpc_direct.                          *)
Left == {"idle", "gates"}
Outcome(next, after) ==
    /\ call' = next /\ Good(next)
    /\ next.at \notin Left => next.family = call.family
    /\ after \in [Keys -> Nat]
    /\ \A k \in Keys : after[k] # 0 => /\ k \in KeysOf(call.family) /\ next.at \in Left
                                      /\ call.family # "rpc_direct"
    /\ CoolDown(after)
    /\ UNCHANGED <<switches, now, attempted, calls, last>>
Proceeds == \E next, after : Outcome(next, after)

LEMMA NoneIsNone == None \in [Keys -> Nat] /\ \A k \in Keys : None[k] = 0
  BY DEF None

LEMMA NoCallGood == Good(NoCall) /\ NoCall.at = "idle"
  BY DEF Good, NoCall, Shapes, Families, Errors

LEMMA RestartedGood == Good(Restarted) /\ Restarted.at = "gates"
  BY DEF Restarted, Good, NoCall, Shapes, Families, Errors

LEMMA RebuiltGood ==
  ASSUME Good(call), NEW when \in {"simulated", "sent"}, NEW e \in Errors
  PROVE  Good(Rebuilt(when, e)) /\ Rebuilt(when, e).family = call.family
  BY DEF Rebuilt, Good, Shapes

LEMMA NextSizeGood ==
  ASSUME Good(call), call.at # "send"
  PROVE  Good(NextSize) /\ (NextSize.at \notin Left => NextSize.family = call.family)
<1>1. CASE call.sizes > 1
  <2>1. NextSize = [call EXCEPT !.at = "build", !.sizes = @ - 1] /\ call.sizes - 1 \in Nat
    BY <1>1 DEF NextSize, Good, Shapes
  <2> QED
    BY <2>1 DEF Good, Shapes
<1>2. CASE ~(call.sizes > 1)
  <2>1. NextSize = NoCall
    BY <1>2 DEF NextSize
  <2> QED
    BY <2>1, NoCallGood DEF Left
<1> QED
  BY <1>1, <1>2

(* A step that goes on, returns or starts again without a cooldown.        *)
LEMMA QuietStep ==
  ASSUME NEW next, NEW s, NEW t, Step(next, s, t, None), Good(next),
         next.at \notin Left => next.family = call.family
  PROVE  Proceeds
<1>1. Outcome(next, None)
  BY NoneIsNone DEF Outcome, Step
<1> QED
  BY <1>1 DEF Proceeds

(* A step that returns, or starts again, with cooldowns for its own keys.  *)
LEMMA CoolingStep ==
  ASSUME NEW next \in {NoCall, Restarted}, NEW s, NEW t, NEW after \in [Keys -> Nat],
         Step(next, s, t, after), call.family # "rpc_direct",
         \A k \in Keys : after[k] # 0 => k \in KeysOf(call.family)
  PROVE  Proceeds
<1>1. Good(next) /\ next.at \in Left
  BY NoCallGood, RestartedGood DEF Left
<1>2. Outcome(next, after)
  BY <1>1 DEF Outcome, Step
<1> QED
  BY <1>2 DEF Proceeds

LEMMA ForOwnKey ==
  ASSUME NEW f \in Families, NEW d \in Nat
  PROVE  /\ For(f, d) \in [Keys -> Nat]
         /\ \A k \in Keys : For(f, d)[k] # 0 => k \in KeysOf(f)
  BY NoneIsNone DEF For, Keys, KeysOf

LEMMA Durations ==
  ASSUME NEW e
  PROVE  Classified(e) \in Nat /\ Backoff(e) \in Nat
  BY SendAssumption DEF Classified, Backoff

LEMMA GivesUpProceeds ==
  ASSUME NEW s, NEW e, NEW retried, call.family = "meteora_raydium",
         MeteoraRaydiumGivesUp(s, e, retried)
  PROVE  Proceeds
<1> DEFINE fewer   == IF e \in Size THEN Reduced(s) ELSE s
           less    == TicksReduced(ticks, e)
           reduced == fewer.window < s.window \/ less < ticks
           path    == IF reduced THEN 0 ELSE IF e = "large" THEN Long ELSE Backoff(e)
           token   == IF Classified(e) # 0 THEN Short ELSE 0
           after   == [None EXCEPT !["meteora_raydium"] = path, !["meteora_raydium:*"] = token]
<1>1. path \in Nat /\ token \in Nat
  BY SendAssumption, Durations
<1> HIDE DEF path, token
<1>2. after \in [Keys -> Nat] /\ \A k \in Keys : after[k] # 0 => k \in KeysOf(call.family)
  BY <1>1, NoneIsNone DEF Keys, KeysOf
<1>3. \E u, v : Step(NoCall, u, v, after)
  BY DEF MeteoraRaydiumGivesUp, Returns, path, token
<1> QED
  BY <1>2, <1>3, CoolingStep

LEMMA SendFailedProceeds ==
  ASSUME Good(call), call.at = "send", NEW e \in Errors, SendFailed(e)
  PROVE  Proceeds
<1>0. call.family \in Families /\ call.mode \in {"plain", "probe", "spot"}
  BY DEF Good, Shapes
<1> DEFINE again == Rebuilt("sent", e)
<1>1. Good(again) /\ again.family = call.family
  BY RebuiltGood
<1>2. Good(NoCall) /\ NoCall.at \in Left /\ Good(Restarted) /\ Restarted.at \in Left
  BY NoCallGood, RestartedGood DEF Left
<1> HIDE DEF again
(* Without cooldowns, or with one for the family's key. *)
<1>3. ASSUME NEW s, NEW t, Returns(s, t, None) PROVE Proceeds
  BY <1>2, <1>3, QuietStep DEF Returns
<1>4. ASSUME NEW s, NEW t, Step(again, s, t, None) PROVE Proceeds
  BY <1>1, <1>4, QuietStep
<1>5. ASSUME NEW next \in {NoCall, Restarted}, NEW s, NEW t, NEW d \in Nat,
             call.family # "rpc_direct", Step(next, s, t, For(call.family, d))
      PROVE  Proceeds
  BY <1>0, <1>5, ForOwnKey, CoolingStep
<1>6. ASSUME NEW s, NEW t, NEW d \in Nat, call.family # "rpc_direct",
             Returns(s, t, For(call.family, d))
      PROVE  Proceeds
  BY <1>5, <1>6 DEF Returns
<1>7. Backoff(e) \in Nat /\ Classified(e) \in Nat /\ Long \in Nat /\ Short \in Nat
  BY Durations, SendAssumption
<1>8. CASE call.family = "rpc_direct"
  <2>1. RpcDirectSendFailed(e)
    BY <1>8 DEF SendFailed
  <2>2. \/ \E s : Step(again, s, ticks, None)
        \/ \E s : Returns(s, ticks, None)
    BY <2>1 DEF RpcDirectSendFailed, again
  <2> QED
    BY <2>2, <1>3, <1>4
<1>9. CASE call.family = "pumpswap_meteora"
  <2>1. PumpswapMeteoraSendFailed(e)
    BY <1>9 DEF SendFailed
  <2> DEFINE large == IF e = "large" THEN Long ELSE 0
             met   == Adjusted(search, e)
  <2>2. large \in Nat /\ Greatest(large, Backoff(e)) \in Nat
    BY <1>7 DEF Greatest
  <2>3. \/ Step(Restarted, met, ticks, For(call.family, large))
        \/ Returns(Adjusted(met, e), ticks, For(call.family, Greatest(large, Backoff(e))))
    BY <2>1 DEF PumpswapMeteoraSendFailed
  <2> HIDE DEF large, met
  <2> QED
    BY <2>2, <2>3, <1>5, <1>6, <1>9
<1>10. CASE call.family \in {"pumpswap_clmm", "raydium_whirlpool"}
  <2>1. PumpswapClmmSendFailed(e) \/ RaydiumWhirlpoolSendFailed(e)
    BY <1>10 DEF SendFailed
  <2>2. \E s, t : Returns(s, t, For(call.family, Backoff(e)))
    BY <2>1 DEF PumpswapClmmSendFailed, RaydiumWhirlpoolSendFailed
  <2> QED
    BY <2>2, <1>6, <1>7, <1>10
<1>11. CASE call.family = "meteora_meteora"
  <2>1. MeteoraMeteoraSendFailed(e)
    BY <1>11 DEF SendFailed
  <2>2. \E d \in Nat : Returns(search, ticks, For(call.family, d))
    BY <2>1, <1>7 DEF MeteoraMeteoraSendFailed
  <2> QED
    BY <2>2, <1>6, <1>11
<1>12. CASE call.family = "meteora_whirlpool"
  <2>1. MeteoraWhirlpoolSendFailed(e)
    BY <1>12 DEF SendFailed
  <2>2. \/ \E s : Step(again, s, ticks, None)
        \/ \E s : Returns(s, ticks, None)
        \/ \E s : Returns(s, ticks, For(call.family, Backoff(e)))
    BY <2>1 DEF MeteoraWhirlpoolSendFailed, again
  <2> QED
    BY <2>2, <1>3, <1>4, <1>6, <1>7, <1>12
<1>13. CASE call.family = "meteora_raydium" /\ call.mode = "plain"
  <2>1. MeteoraRaydiumSendFailed(e)
    BY <1>13 DEF SendFailed
  <2>2. \/ \E s, r : MeteoraRaydiumGivesUp(s, e, r)
        \/ \E s : Step(again, s, ticks, None)
    BY <2>1 DEF MeteoraRaydiumSendFailed, again
  <2> QED
    BY <2>2, <1>4, <1>13, GivesUpProceeds
<1>14. CASE call.family = "meteora_raydium" /\ call.mode = "spot"
  <2>1. MeteoraRaydiumSpotFailed(e)
    BY <1>14 DEF SendFailed
  <2>2. \/ \E s : Step(again, s, ticks, None)
        \/ \E s : Returns(s, ticks, None)
    BY <2>1 DEF MeteoraRaydiumSpotFailed, again
  <2> QED
    BY <2>2, <1>3, <1>4
<1>15. CASE call.family = "meteora_raydium" /\ call.mode = "probe"
  <2> DEFINE class == Classified(e)
             token == IF class = 0 THEN 0 ELSE Short
             after == [None EXCEPT !["meteora_raydium"] = class, !["meteora_raydium:*"] = token]
  <2>1. MeteoraRaydiumProbeSendFailed(e)
    BY <1>15 DEF SendFailed
  <2>2. class \in Nat /\ token \in Nat
    BY <1>7
  <2>3. \E s, t : Returns(s, t, after)
    BY <2>1 DEF MeteoraRaydiumProbeSendFailed
  <2> HIDE DEF class, token
  <2>4. after \in [Keys -> Nat] /\ \A k \in Keys : after[k] # 0 => k \in KeysOf(call.family)
    BY <2>2, <1>15, NoneIsNone DEF Keys, KeysOf
  <2> QED
    BY <2>3, <2>4, <1>15, CoolingStep DEF Returns
<1> QED
  BY <1>0, <1>8, <1>9, <1>10, <1>11, <1>12, <1>13, <1>14, <1>15 DEF Families

LEMMA BuildFailedProceeds ==
  ASSUME Good(call), call.at = "build", NEW e \in Errors, BuildFailed(e)
  PROVE  Proceeds
<1>0. call.family \in Families /\ call.error \in Errors
  BY DEF Good, Shapes
<1>1. Good(NoCall) /\ NoCall.at \in Left /\ Good(Restarted) /\ Restarted.at \in Left
  BY NoCallGood, RestartedGood DEF Left
<1>2. ASSUME NEW s, NEW t, Returns(s, t, None) PROVE Proceeds
  BY <1>1, <1>2, QuietStep DEF Returns
<1>3. CASE call.again = "sent" /\ call.family = "meteora_raydium" /\ call.mode = "plain"
  <2>1. MeteoraRaydiumGivesUp(search, call.error, TRUE)
    BY <1>3 DEF BuildFailed, SecondBuildFailed
  <2> QED
    BY <2>1, <1>3, GivesUpProceeds
<1>4. CASE call.again = "sent" /\ call.family = "meteora_whirlpool"
  <2>1. Step(NoCall, search, ticks, For(call.family, Backoff(call.error)))
    BY <1>4 DEF BuildFailed, SecondBuildFailed, Returns
  <2>2. Backoff(call.error) \in Nat
    BY Durations
  <2> QED
    BY <2>1, <2>2, <1>0, <1>4, ForOwnKey, CoolingStep
<1>5. CASE call.again = "sent" /\ ~(call.family = "meteora_raydium" /\ call.mode = "plain")
           /\ call.family # "meteora_whirlpool"
  <2>1. Returns(search, ticks, None)
    BY <1>5 DEF BuildFailed, SecondBuildFailed
  <2> QED
    BY <2>1, <1>2
<1>6. CASE call.again # "sent" /\ call.mode = "probe"
  <2>1. Step(NextSize, search, ticks, None)
    BY <1>6 DEF BuildFailed, GoOn
  <2> QED
    BY <2>1, NextSizeGood, QuietStep
<1>7. CASE call.again # "sent" /\ call.mode # "probe"
  <2>1. \/ RestartsWithOtherWindow(e)
        \/ \E s, t : Returns(s, t, None)
    BY <1>7 DEF BuildFailed, FirstBuildFailed
  <2>2. ASSUME RestartsWithOtherWindow(e) PROVE Proceeds
    BY <2>2, <1>1, QuietStep DEF RestartsWithOtherWindow
  <2> QED
    BY <2>1, <2>2, <1>2
<1> QED
  BY <1>3, <1>4, <1>5, <1>6, <1>7

LEMMA SimulationFailedProceeds ==
  ASSUME Good(call), call.at = "simulate", NEW e \in Errors, SimulationFailed(e)
  PROVE  Proceeds
<1> DEFINE again == Rebuilt("simulated", e)
<1>1. Good(again) /\ again.family = call.family
  BY RebuiltGood
<1>2. Good(NoCall) /\ NoCall.at \in Left
  BY NoCallGood DEF Left
<1> HIDE DEF again
<1>3. \E next \in {NoCall, NextSize, again} : \E s, t : Step(next, s, t, None)
  BY DEF SimulationFailed, RpcDirectSimulationFailed, MeteoraRaydiumProbeFailed,
     MeteoraMeteoraProbeFailed, Returns, GoOn, again
<1> QED
  BY <1>1, <1>2, <1>3, NextSizeGood, QuietStep

(* The steps behind the gates. *)
Behind == \/ Build \/ BuildFails \/ Simulated \/ SimulationRefused \/ SimulationFails
          \/ SendReturns \/ SendFails

LEMMA MetErrors ==
  ASSUME search \in Searches
  PROVE  Met \subseteq Errors
  BY SendAssumption DEF Met, Searches, Errors, TickGap

LEMMA BehindProceeds ==
  ASSUME Good(call), search \in Searches, Behind
  PROVE  Proceeds
<1>0. call.family \in Families /\ call \in Shapes /\ Met \subseteq Errors
  BY MetErrors DEF Good, Shapes
<1>1. Good(NoCall) /\ NoCall.at \in Left
  BY NoCallGood DEF Left
<1>2. ASSUME NEW s, NEW t, Returns(s, t, None) PROVE Proceeds
  BY <1>1, <1>2, QuietStep DEF Returns
<1>3. CASE Build
  <2>1. call.at = "build"
    BY <1>3 DEF Build
  <2>2. CASE AfterBuild = "idle"
    BY <2>2, <1>3, <1>1, QuietStep DEF Build, GoOn
  <2>3. CASE AfterBuild # "idle"
    <3> DEFINE next == [call EXCEPT !.at = AfterBuild, !.plan = @ + 1]
    <3>1. AfterBuild \in {"simulate", "send"}
      BY <2>3, <1>0 DEF AfterBuild, Families, RpcDirectBuilt, PumpswapMeteoraBuilt,
         PumpswapClmmBuilt, MeteoraRaydiumBuilt, MeteoraMeteoraBuilt, MeteoraWhirlpoolBuilt,
         RaydiumWhirlpoolBuilt
    <3>2. call.units = 0 /\ call.plan + 1 \in Nat
      BY <2>1 DEF Good, Shapes
    <3>3. Good(next) /\ next.family = call.family
      BY <1>0, <3>1, <3>2 DEF Good, Shapes
    <3>4. Step(next, search, ticks, None)
      BY <2>3, <1>3 DEF Build, GoOn
    <3> QED
      BY <3>3, <3>4, QuietStep
  <2> QED
    BY <2>2, <2>3
<1>4. CASE BuildFails
  BY <1>4, <1>0, BuildFailedProceeds DEF BuildFails
<1>5. CASE Simulated
  <2> DEFINE next == [call EXCEPT !.at = "send", !.units = call.plan]
  <2>1. Good(next) /\ next.family = call.family
    BY <1>0 DEF Good, Shapes
  <2>2. Step(next, search, ticks, None)
    BY <1>5 DEF Simulated, GoOn
  <2> QED
    BY <2>1, <2>2, QuietStep
<1>6. CASE SimulationRefused
  <2>1. call.at = "simulate" /\ call.family # "rpc_direct"
    BY <1>6 DEF SimulationRefused
  <2>2. \/ Step(NextSize, search, ticks, None)
        \/ Returns(search, ticks, None)
        \/ Step(NoCall, search, ticks, For(call.family, Short))
    BY <1>6 DEF SimulationRefused, GoOn, Returns
  <2>3. ASSUME Step(NoCall, search, ticks, For(call.family, Short)) PROVE Proceeds
    BY <2>1, <2>3, <1>0, ForOwnKey, CoolingStep, SendAssumption
  <2> QED
    BY <2>1, <2>2, <2>3, <1>2, NextSizeGood, QuietStep
<1>7. CASE SimulationFails
  BY <1>7, <1>0, SimulationFailedProceeds DEF SimulationFails
<1>8. CASE SendReturns
  BY <1>8, <1>2 DEF SendReturns
<1>9. CASE SendFails
  BY <1>9, <1>0, SendFailedProceeds DEF SendFails
<1> QED
  BY <1>3, <1>4, <1>5, <1>6, <1>7, <1>8, <1>9 DEF Behind

(* Behind the gates the search stays sound. *)
LEMMA BehindSound ==
  ASSUME Good(call), Sound(search), Behind
  PROVE  Sound(search')
<1>0. Met \subseteq Errors /\ (Clean => Met \cap Unbounded = {}) /\ call \in Shapes /\ call.error \in Errors
  <2>1. search.window \in Base..MaxWindow
    BY DEF Sound, Searches
  <2>2. {"blockhash", "failed", "other"} \cap Unbounded = {} /\ TickGap \cap Unbounded = {}
    BY DEF Unbounded, Shortage, Liquidity, TickGap
  <2> QED
    BY <2>1, <2>2, MetErrors DEF Met, Sound, Good, Shapes, Clean
<1>1. CASE Build \/ Simulated \/ SimulationRefused \/ SendReturns
  <2>1. search' = search
    BY <1>1 DEF Build, Simulated, SimulationRefused, SendReturns, GoOn, Returns, Step
  <2> QED
    BY <2>1
<1>2. CASE SendFails
  BY <1>2, <1>0, SendFailedSound DEF SendFails
<1>3. CASE SimulationFails
  <2>1. PICK e \in Met : SimulationFailed(e)
    BY <1>3 DEF SimulationFails
  <2>2. Sound(Adjusted(search, e)) /\ Sound(Reduced(search))
    BY <1>0, AdjustedSearch, ReducedSound
  <2>3. search' \in {search, Adjusted(search, e), Reduced(search)}
    BY <2>1 DEF SimulationFailed, RpcDirectSimulationFailed, MeteoraRaydiumProbeFailed,
       MeteoraMeteoraProbeFailed, Returns, GoOn, Step
  <2> QED
    BY <2>2, <2>3
<1>4. CASE BuildFails
  <2>1. PICK e \in Met : BuildFailed(e)
    BY <1>4 DEF BuildFails
  <2>2. Sound(Adjusted(search, e))
    BY <2>1, <1>0, AdjustedSearch
  <2>3. \/ MeteoraRaydiumGivesUp(search, call.error, TRUE)
        \/ search' \in {search, Adjusted(search, e)}
    BY <2>1 DEF BuildFailed, SecondBuildFailed, FirstBuildFailed, RestartsWithOtherWindow,
       Returns, GoOn, Step
  <2> QED
    BY <2>2, <2>3, <1>0, GivesUpSound
<1> QED
  BY <1>1, <1>2, <1>3, <1>4 DEF Behind

-----------------------------------------------------------------------------
(* The gates.                                                              *)

GateNames == {"filter", "filterLong", "filterMaybe", "cooldown", "stale"}

LEMMA QuoteNames ==
  /\ MeteoraRaydiumQuote \in Seq(GateNames) /\ MeteoraMeteoraQuote \in Seq(GateNames)
  /\ MeteoraRaydiumPools \in Seq(GateNames) /\ MeteoraMeteoraPools \in Seq(GateNames)
  /\ <<>> \in Seq(GateNames)
<1> USE DEF GateNames
<1>1. MeteoraRaydiumQuote \in Seq(GateNames)
  BY DEF MeteoraRaydiumQuote
<1>2. MeteoraMeteoraQuote \in Seq(GateNames)
  BY DEF MeteoraMeteoraQuote
<1>3. MeteoraRaydiumPools \in Seq(GateNames)
  BY DEF MeteoraRaydiumPools
<1>4. MeteoraMeteoraPools \in Seq(GateNames)
  BY DEF MeteoraMeteoraPools
<1>5. <<>> \in Seq(GateNames)
  OBVIOUS
<1> QED
  BY <1>1, <1>2, <1>3, <1>4, <1>5

(* Every family that reads cooldowns does so before anything that cools.   *)
LEMMA CooldownFirst ==
  ASSUME NEW f \in Families \ {"rpc_direct"}, NEW m
  PROVE  \E i \in DOMAIN Gates(f, m) : /\ Gates(f, m)[i] = "cooldown"
                                       /\ \A j \in 1..i : Cools(Gates(f, m)[j]) = {0}
<1> DEFINE G == Gates(f, m)
<1>0. Cools("filter") = {0} /\ Cools("cooldown") = {0}
  BY DEF Cools
<1>1. CASE f = "pumpswap_clmm"
  <2>1. G = <<"filter", "cooldown", "stale", "filter", "attempt", "filter">>
    BY <1>1 DEF Gates, PumpswapClmmGates
  <2>2. 2 \in DOMAIN G /\ G[2] = "cooldown" /\ \A j \in 1..2 : Cools(G[j]) = {0}
    BY <2>1, <1>0
  <2> QED
    BY <2>2
<1>2. CASE f \in {"meteora_whirlpool", "raydium_whirlpool"}
  <2>1. 1 \in DOMAIN G /\ G[1] = "cooldown"
    BY <1>2 DEF Gates, MeteoraWhirlpoolGates, RaydiumWhirlpoolGates
  <2> QED
    BY <2>1, <1>0
<1>3. CASE f = "pumpswap_meteora"
  <2>1. G = PumpswapMeteoraPools \o PumpswapMeteoraQuote
    BY <1>3 DEF Gates
  <2>2. 2 \in DOMAIN G /\ G[1] = "filter" /\ G[2] = "cooldown"
    BY <2>1 DEF PumpswapMeteoraPools, PumpswapMeteoraQuote
  <2>3. \A j \in 1..2 : Cools(G[j]) = {0}
    BY <2>2, <1>0
  <2> QED
    BY <2>2, <2>3
<1>4. CASE f = "meteora_raydium"
  <2> DEFINE r == IF m = "plain" THEN MeteoraRaydiumQuote ELSE <<>>
  <2>1. G = MeteoraRaydiumPools \o r \o <<"attempt">>
    BY <1>4 DEF Gates
  <2>2. r \in Seq(GateNames)
    BY QuoteNames
  <2> HIDE DEF r
  <2>3. 1 \in DOMAIN G /\ G[1] = "cooldown"
    BY <2>1, <2>2 DEF MeteoraRaydiumPools
  <2> QED
    BY <2>3, <1>0
<1>5. CASE f = "meteora_meteora"
  <2> DEFINE r == IF m = "plain" THEN MeteoraMeteoraQuote ELSE <<>>
  <2>1. G = MeteoraMeteoraPools \o r \o <<"attempt">>
    BY <1>5 DEF Gates
  <2>2. r \in Seq(GateNames)
    BY QuoteNames
  <2> HIDE DEF r
  <2>3. 1 \in DOMAIN G /\ G[1] = "cooldown"
    BY <2>1, <2>2 DEF MeteoraMeteoraPools
  <2> QED
    BY <2>3, <1>0
<1> QED
  BY <1>1, <1>2, <1>3, <1>4, <1>5 DEF Families

LEMMA RpcDirectNeverCools ==
  ASSUME NEW m
  PROVE  \A i \in DOMAIN Gates("rpc_direct", m) : Cools(Gates("rpc_direct", m)[i]) = {0}
<1>1. Gates("rpc_direct", m) = <<"filter", "attempt", "filter">>
  BY DEF Gates, RpcDirectGates
<1>2. Cools("filter") = {0} /\ Cools("attempt") = {0}
  BY DEF Cools
<1> QED
  BY <1>1, <1>2

LEMMA GatesTyped ==
  ASSUME NEW f \in Families, NEW m
  PROVE  DOMAIN Gates(f, m) \subseteq Nat \ {0}
<1>1. CASE f \notin {"pumpswap_meteora", "meteora_raydium", "meteora_meteora"}
  BY <1>1 DEF Gates, Families, RpcDirectGates, PumpswapClmmGates, MeteoraWhirlpoolGates,
     RaydiumWhirlpoolGates
<1>2. CASE f = "pumpswap_meteora"
  BY <1>2 DEF Gates, PumpswapMeteoraPools, PumpswapMeteoraQuote
<1>3. CASE f = "meteora_raydium"
  <2> DEFINE r == IF m = "plain" THEN MeteoraRaydiumQuote ELSE <<>>
  <2>1. Gates(f, m) = MeteoraRaydiumPools \o r \o <<"attempt">>
    BY <1>3 DEF Gates
  <2>2. r \in Seq(GateNames)
    BY QuoteNames
  <2> HIDE DEF r
  <2> QED
    BY <2>1, <2>2 DEF MeteoraRaydiumPools
<1>4. CASE f = "meteora_meteora"
  <2> DEFINE r == IF m = "plain" THEN MeteoraMeteoraQuote ELSE <<>>
  <2>1. Gates(f, m) = MeteoraMeteoraPools \o r \o <<"attempt">>
    BY <1>4 DEF Gates
  <2>2. r \in Seq(GateNames)
    BY QuoteNames
  <2> HIDE DEF r
  <2> QED
    BY <2>1, <2>2 DEF MeteoraMeteoraPools
<1> QED
  BY <1>1, <1>2, <1>3, <1>4

(* And every family asks for the interval. *)
LEMMA AttemptAsked ==
  ASSUME NEW f \in Families, NEW m
  PROVE  \E i \in DOMAIN Gates(f, m) : Gates(f, m)[i] = "attempt"
<1> DEFINE G == Gates(f, m)
<1>1. CASE f = "rpc_direct"
  <2>1. 2 \in DOMAIN G /\ G[2] = "attempt"
    BY <1>1 DEF Gates, RpcDirectGates
  <2> QED
    BY <2>1
<1>2. CASE f = "pumpswap_clmm"
  <2>1. 5 \in DOMAIN G /\ G[5] = "attempt"
    BY <1>2 DEF Gates, PumpswapClmmGates
  <2> QED
    BY <2>1
<1>3. CASE f = "meteora_whirlpool"
  <2>1. 4 \in DOMAIN G /\ G[4] = "attempt"
    BY <1>3 DEF Gates, MeteoraWhirlpoolGates
  <2> QED
    BY <2>1
<1>4. CASE f = "raydium_whirlpool"
  <2>1. 5 \in DOMAIN G /\ G[5] = "attempt"
    BY <1>4 DEF Gates, RaydiumWhirlpoolGates
  <2> QED
    BY <2>1
<1>5. CASE f = "pumpswap_meteora"
  <2>1. G = PumpswapMeteoraPools \o PumpswapMeteoraQuote
    BY <1>5 DEF Gates
  <2>2. 8 \in DOMAIN G /\ G[8] = "attempt"
    BY <2>1 DEF PumpswapMeteoraPools, PumpswapMeteoraQuote
  <2> QED
    BY <2>2
<1>6. CASE f = "meteora_raydium"
  <2> DEFINE r == MeteoraRaydiumPools \o (IF m = "plain" THEN MeteoraRaydiumQuote ELSE <<>>)
  <2>1. G = r \o <<"attempt">>
    BY <1>6 DEF Gates
  <2>2. r \in Seq(GateNames)
    BY QuoteNames
  <2> HIDE DEF r
  <2>3. Len(r) + 1 \in DOMAIN G /\ G[Len(r) + 1] = "attempt"
    BY <2>1, <2>2
  <2> QED
    BY <2>3
<1>7. CASE f = "meteora_meteora"
  <2> DEFINE r == MeteoraMeteoraPools \o (IF m = "plain" THEN MeteoraMeteoraQuote ELSE <<>>)
  <2>1. G = r \o <<"attempt">>
    BY <1>7 DEF Gates
  <2>2. r \in Seq(GateNames)
    BY QuoteNames
  <2> HIDE DEF r
  <2>3. Len(r) + 1 \in DOMAIN G /\ G[Len(r) + 1] = "attempt"
    BY <2>1, <2>2
  <2> QED
    BY <2>3
<1> QED
  BY <1>1, <1>2, <1>3, <1>4, <1>5, <1>6, <1>7 DEF Families

-----------------------------------------------------------------------------
(* The inductive invariants.                                               *)

CallInv == Good(call) /\ Sound(search)

LEMMA CallInvInit == Init => CallInv
<1> SUFFICES ASSUME Init PROVE CallInv
  OBVIOUS
<1>1. Good(call)
  BY NoCallGood DEF Init
<1>2. Sound(search)
  BY WindowAssumption DEF Init, Sound, NoSearch, Searches, Between, Highest
<1> QED
  BY <1>1, <1>2 DEF CallInv

LEMMA StartedGood ==
  ASSUME NEW f \in Families, NEW m \in Modes(f)
  PROVE  Good(Started(f, m)) /\ Started(f, m).at = "gates"
<1>1. m \in {"plain", "probe", "spot"}
  BY DEF Modes
<1>2. (IF m = "probe" THEN Sizes ELSE 0) \in Nat
  BY SendAssumption
<1> QED
  BY <1>1, <1>2 DEF Started, Good, Shapes, NoCall, Errors

LEMMA CallInvStep == CallInv /\ [Next]_vars => CallInv'
<1> SUFFICES ASSUME CallInv, [Next]_vars PROVE Good(call') /\ Sound(search')
  BY DEF CallInv
<1>0. Good(call) /\ Sound(search) /\ search \in Searches
  BY DEF CallInv, Sound
<1>1. CASE Dispatch
  <2>1. search' = search
    BY <1>1 DEF Dispatch, learned
  <2>2. Good(call')
    BY <1>1, StartedGood DEF Dispatch
  <2> QED
    BY <1>0, <2>1, <2>2
<1>2. CASE PassGates
  <2>1. search' = search /\ call.at = "gates" /\ call' = [call EXCEPT !.at = "build"]
    BY <1>2 DEF PassGates, learned
  <2>2. Good(call')
    BY <2>1, <1>0 DEF Good, Shapes
  <2> QED
    BY <1>0, <2>1, <2>2
<1>3. CASE Refused
  BY <1>3, <1>0, NoCallGood DEF Refused, learned
<1>4. CASE Behind
  BY <1>4, <1>0, BehindProceeds, BehindSound DEF Proceeds, Outcome
<1>5. CASE Prune \/ Tick \/ UNCHANGED vars
  BY <1>5, <1>0 DEF Prune, Tick, vars, learned
<1> QED
  BY <1>1, <1>2, <1>3, <1>4, <1>5 DEF Next, CallStep, Behind

(* The clock and what is kept of it. *)
Instants == [at : Nat, is : BOOLEAN]
Times == /\ now \in Nat /\ cool \in [Keys -> Nat] /\ quiet \in [Keys -> Nat]
         /\ attempted \in Instants /\ last \in Instants

LEMMA CoolDownTyped ==
  ASSUME Times, NEW after \in [Keys -> Nat], CoolDown(after)
  PROVE  cool' \in [Keys -> Nat] /\ quiet' \in [Keys -> Nat]
  BY DEF Times, CoolDown, Greatest

LEMMA TimesInit == Init => Times
  BY DEF Init, Times, Never, None, Instants

(* The cooldowns that Refused may set. *)
LEMMA RefusedDurations ==
  ASSUME NEW g, NEW d \in Cools(g) PROVE d \in Nat
  BY SendAssumption DEF Cools

LEMMA RecordedTyped ==
  ASSUME Times PROVE Recorded \in Instants
  BY DEF Times, Recorded, Unasked, Instants

LEMMA TimesStep == CallInv /\ Times /\ [Next]_vars => Times'
<1> SUFFICES ASSUME CallInv, Times, [Next]_vars PROVE Times'
  OBVIOUS
<1>0. call.family \in Families /\ Good(call) /\ search \in Searches
  BY DEF CallInv, Sound, Good, Shapes
<1>1. CASE Dispatch
  BY <1>1 DEF Dispatch, Times, history
<1>2. CASE PassGates
  <2>1. last' \in Instants
    BY <1>2 DEF PassGates, Times, Instants
  <2> QED
    BY <1>2, <2>1, RecordedTyped DEF PassGates, Times
<1>3. CASE Refused
  <2>1. PICK d \in Nat : CoolDown(For(call.family, d))
    BY <1>3, RefusedDurations DEF Refused
  <2>2. cool' \in [Keys -> Nat] /\ quiet' \in [Keys -> Nat]
    BY <2>1, <1>0, ForOwnKey, CoolDownTyped
  <2>3. attempted' \in Instants
    BY <1>3, RecordedTyped DEF Refused, Times
  <2> QED
    BY <1>3, <2>2, <2>3 DEF Refused, Times
<1>4. CASE Behind
  <2>1. PICK next, after : Outcome(next, after)
    BY <1>4, <1>0, BehindProceeds DEF Proceeds
  <2>2. cool' \in [Keys -> Nat] /\ quiet' \in [Keys -> Nat]
    BY <2>1, CoolDownTyped DEF Outcome
  <2> QED
    BY <2>1, <2>2 DEF Outcome, Times
<1>5. CASE Prune
  BY <1>5 DEF Prune, Times, history, Never, Instants
<1>6. CASE Tick
  BY <1>6 DEF Tick, Times, history
<1>7. CASE UNCHANGED vars
  BY <1>7 DEF vars, Times, history
<1> QED
  BY <1>1, <1>2, <1>3, <1>4, <1>5, <1>6, <1>7 DEF Next, CallStep, Behind

-----------------------------------------------------------------------------
(* Through rebuilds, restarts and sizes a plan is sent with the units      *)
(* simulated for it, or with none: src/src/main.rs:12216 and its like      *)
(* clear them.                                                             *)
THEOREM UnitsBelongToPlan == Spec => []UnitsAreOfThisPlan
<1>1. CallInv => UnitsAreOfThisPlan
  BY DEF CallInv, Good, UnitsAreOfThisPlan
<1> QED
  BY <1>1, CallInvInit, CallInvStep, PTL DEF Spec

(* While every error that moves a window sets a bound of the search (none  *)
(* asks for a bitmap extension or for more keys), no order of errors of    *)
(* any calls moves the window out of what was learned.                     *)
THEOREM SearchStaysBetween ==
  ASSUME Clean
  PROVE  Spec => []SearchBetween
<1>1. CallInv => SearchBetween
  BY DEF CallInv, Sound, SearchBetween
<1> QED
  BY <1>1, CallInvInit, CallInvStep, PTL DEF Spec

-----------------------------------------------------------------------------
(* The last call past the gates is remembered by the attempt it recorded,  *)
(* or lies back for as long as the interval.                               *)
AttemptInv ==
    /\ last.is => last.at <= now
    /\ last.is => \/ attempted.is /\ last.at <= attempted.at /\ attempted.at <= now
                  \/ now - last.at >= Interval

LEMMA AttemptInvInit == Init => AttemptInv
  BY DEF Init, AttemptInv, Never

LEMMA AttemptInvStep == CallInv /\ Times /\ AttemptInv /\ [Next]_vars => AttemptInv'
<1> SUFFICES ASSUME CallInv, Times, AttemptInv, [Next]_vars PROVE AttemptInv'
  OBVIOUS
<1>0. /\ Good(call) /\ search \in Searches
      /\ now \in Nat /\ attempted \in Instants /\ last \in Instants
  BY DEF CallInv, Sound, Times
<1>1. CASE Dispatch
  BY <1>1 DEF Dispatch, AttemptInv, history
<1>2. CASE PassGates
  <2>1. CASE Unasked
    BY <1>2, <2>1 DEF PassGates, Recorded, AttemptInv
  <2>2. CASE ~Unasked
    <3>1. attempted' = [at |-> now, is |-> TRUE] /\ last' = attempted' /\ now' = now
      BY <1>2, <2>2 DEF PassGates, Recorded
    <3> QED
      BY <3>1, <1>0 DEF AttemptInv
  <2> QED
    BY <2>1, <2>2
<1>3. CASE Refused
  <2>1. attempted' \in {attempted, [at |-> now, is |-> TRUE]} /\ now' = now /\ last' = last
    BY <1>3 DEF Refused, Recorded
  <2> QED
    BY <2>1, <1>0 DEF AttemptInv, Instants
<1>4. CASE Behind
  BY <1>4, <1>0, BehindProceeds DEF Proceeds, Outcome, AttemptInv
<1>5. CASE Prune
  <2>1. now' = now /\ last' = last
        /\ (attempted' = attempted \/ (attempted.is /\ now - attempted.at >= Ttl))
    BY <1>5 DEF Prune, history
  <2> QED
    BY <2>1, <1>0, SendAssumption DEF AttemptInv, Instants
<1>6. CASE Tick
  <2>1. now' = now + 1 /\ last' = last /\ attempted' = attempted
    BY <1>6 DEF Tick, history
  <2> QED
    BY <2>1, <1>0, SendAssumption DEF AttemptInv, Instants
<1>7. CASE UNCHANGED vars
  BY <1>7 DEF vars, AttemptInv, history
<1> QED
  BY <1>1, <1>2, <1>3, <1>4, <1>5, <1>6, <1>7 DEF Next, CallStep, Behind

(* Unless profit checks or skipping are switched off: whatever families    *)
(* ask and whatever is pruned, calls for one token get past the gates at   *)
(* least the interval apart, retries aside.                                *)
THEOREM AttemptsKeepApart == Spec => AttemptsSpaced
<1> DEFINE Apart == PassGates /\ ~Unasked /\ last.is => now - last.at >= Interval
<1>1. CallInv /\ Times /\ AttemptInv /\ [Next]_vars => [Apart]_vars
  <2> SUFFICES ASSUME CallInv, Times, AttemptInv, PassGates, ~Unasked, last.is
               PROVE  now - last.at >= Interval
    OBVIOUS
  <2>0. call.family \in Families /\ now \in Nat /\ attempted \in Instants /\ last \in Instants
    BY DEF CallInv, Good, Shapes, Times
  <2>1. PICK i \in DOMAIN Gates(call.family, call.mode) : Gates(call.family, call.mode)[i] = "attempt"
    BY <2>0, AttemptAsked
  <2>2. MayPass("attempt")
    BY <2>1 DEF PassGates
  <2>3. Spaced
    BY <2>2 DEF MayPass
  <2> QED
    BY <2>0, <2>3, SendAssumption DEF AttemptInv, Spaced, Instants
<1>2. AttemptsSpaced <=> [][Apart]_vars
  BY DEF AttemptsSpaced
<1> HIDE DEF Apart
<1> QED
  BY <1>1, <1>2, CallInvInit, CallInvStep, TimesInit, TimesStep, AttemptInvInit, AttemptInvStep,
     PTL DEF Spec

-----------------------------------------------------------------------------
(* The families that the property is about; their cooldowns that still run *)
(* end when the longest ever given ends, and behind the gates none runs.   *)
Held(f)   == ~noskip /\ f # "rpc_direct" /\ ~(f = "meteora_raydium" /\ free)
Longest   == \A f \in Families : Held(f) => \A k \in KeysOf(f) : quiet[k] > now => cool[k] = quiet[k]
Rested(f) == Held(f) => \A k \in KeysOf(f) : quiet[k] <= now
CoolInv   == Longest /\ (call.at \notin Left => Rested(call.family))

LEMMA OwnKeys ==
  /\ \A f \in Families : KeysOf(f) \subseteq Keys
  /\ \A f, g \in Families : KeysOf(f) \cap KeysOf(g) # {} => f = g
  BY DEF KeysOf, Families, Keys

(* New cooldowns of a family none of whose keys is cooling. *)
LEMMA LongestKept ==
  ASSUME Times, Longest, NEW after \in [Keys -> Nat], NEW f \in Families,
         CoolDown(after), now' = now, free' = free, noskip' = noskip,
         \A k \in Keys : after[k] # 0 => k \in KeysOf(f) /\ Rested(f)
  PROVE  Longest'
<1> SUFFICES ASSUME NEW g \in Families, Held(g), NEW k \in KeysOf(g), quiet'[k] > now
             PROVE  cool'[k] = quiet'[k]
  BY DEF Longest, Held
<1>1. k \in Keys /\ now \in Nat /\ quiet[k] \in Nat /\ after[k] \in Nat
  BY OwnKeys DEF Times
<1>2. CASE after[k] = 0
  BY <1>1, <1>2 DEF CoolDown, Longest
<1>3. CASE after[k] # 0
  <2>1. f = g
    BY <1>1, <1>3, OwnKeys
  <2>2. quiet[k] <= now
    BY <1>1, <1>3, <2>1 DEF Rested
  <2>3. cool'[k] = now + after[k] /\ quiet'[k] = Greatest(quiet[k], now + after[k])
    BY <1>1, <1>3 DEF CoolDown
  <2> QED
    BY <1>1, <2>2, <2>3 DEF Greatest
<1> QED
  BY <1>2, <1>3

(* Past the gate "cooldown" nothing of the family is cooling. *)
LEMMA PassedRested ==
  ASSUME Times, Longest, call.family \in Families, MayPass("cooldown")
  PROVE  Rested(call.family)
<1> SUFFICES ASSUME Held(call.family), NEW k \in KeysOf(call.family) PROVE quiet[k] <= now
  BY DEF Rested
<1>1. ~noskip /\ ~Cooling(call.family)
  BY DEF MayPass, Held, Ignores
<1>2. k \in Keys /\ now \in Nat /\ quiet[k] \in Nat /\ cool[k] \in Nat /\ ~(cool[k] > now)
  BY <1>1, OwnKeys DEF Cooling, Times
<1>3. quiet[k] > now => cool[k] = quiet[k]
  BY DEF Longest
<1> QED
  BY <1>2, <1>3

LEMMA PassesRested ==
  ASSUME CallInv, Times, Longest, PassGates
  PROVE  Rested(call.family)
<1>0. call.family \in Families
  BY DEF CallInv, Good, Shapes
<1>1. CASE call.family = "rpc_direct"
  BY <1>1 DEF Rested, Held
<1>2. CASE call.family # "rpc_direct"
  <2>1. PICK i \in DOMAIN Gates(call.family, call.mode) : Gates(call.family, call.mode)[i] = "cooldown"
    BY <1>0, <1>2, CooldownFirst
  <2>2. MayPass("cooldown")
    BY <2>1 DEF PassGates
  <2> QED
    BY <1>0, <2>2, PassedRested
<1> QED
  BY <1>1, <1>2

(* A gate that cools has the gate "cooldown" before it. *)
LEMMA RefusedLongest ==
  ASSUME CallInv, Times, Longest, Refused
  PROVE  Longest'
<1> DEFINE G == Gates(call.family, call.mode)
<1>0. call.family \in Families /\ now' = now /\ free' = free /\ noskip' = noskip
  BY DEF CallInv, Good, Shapes, Refused, switches
<1>1. PICK i \in DOMAIN G : /\ \A j \in 1..(i - 1) : MayPass(G[j])
                            /\ \E d \in Cools(G[i]) : CoolDown(For(call.family, d))
  BY DEF Refused
<1>2. PICK d \in Cools(G[i]) : CoolDown(For(call.family, d))
  BY <1>1
<1>3. d \in Nat
  BY RefusedDurations
<1>4. CASE d = 0
  <2>1. \A k \in Keys : For(call.family, d)[k] = 0
    BY <1>4, NoneIsNone DEF For
  <2> QED
    BY <2>1, <1>0, <1>2, <1>3, ForOwnKey, LongestKept
<1>5. CASE d # 0
  <2>1. call.family # "rpc_direct"
    BY <1>5, <1>1, <1>2, RpcDirectNeverCools
  <2>2. PICK c \in DOMAIN G : G[c] = "cooldown" /\ \A j \in 1..c : Cools(G[j]) = {0}
    BY <2>1, <1>0, CooldownFirst
  <2>3. i \in Nat \ {0} /\ c \in Nat \ {0}
    BY <1>0, GatesTyped
  <2>4. ~(i <= c)
    BY <2>2, <2>3, <1>2, <1>5
  <2>5. MayPass("cooldown")
    BY <2>2, <2>3, <2>4, <1>1
  <2>6. Rested(call.family)
    BY <2>5, <1>0, PassedRested
  <2> QED
    BY <2>6, <1>0, <1>2, <1>3, ForOwnKey, LongestKept
<1> QED
  BY <1>4, <1>5, <1>3

LEMMA CoolInvInit == Init => CoolInv
  BY OwnKeys, NoneIsNone DEF Init, CoolInv, Longest, NoCall, Left

LEMMA CoolInvStep == CallInv /\ Times /\ CoolInv /\ [Next]_vars => CoolInv'
<1> SUFFICES ASSUME CallInv, Times, CoolInv, [Next]_vars PROVE CoolInv'
  OBVIOUS
<1>0. /\ Good(call) /\ search \in Searches /\ call.family \in Families
      /\ now \in Nat /\ quiet \in [Keys -> Nat] /\ cool \in [Keys -> Nat]
      /\ Longest
  BY DEF CallInv, Sound, Times, Good, Shapes, CoolInv
<1>1. CASE Dispatch
  <2>1. call'.at = "gates" /\ UNCHANGED <<now, cool, quiet, free, noskip>>
    BY <1>1, StartedGood DEF Dispatch, history, switches
  <2> QED
    BY <2>1 DEF CoolInv, Longest, Held, Left
<1>2. CASE PassGates
  <2>1. Rested(call.family)
    BY <1>2, <1>0, PassesRested
  <2>2. UNCHANGED <<now, cool, quiet, free, noskip>> /\ call'.family = call.family
    BY <1>2, <1>0 DEF PassGates, switches, Good, Shapes
  <2> QED
    BY <2>1, <2>2, <1>0 DEF CoolInv, Longest, Held, Rested
<1>3. CASE Refused
  <2>1. call'.at = "idle"
    BY <1>3, NoCallGood DEF Refused
  <2> QED
    BY <2>1, <1>0, <1>3, RefusedLongest DEF CoolInv, Left
<1>4. CASE Behind
  <2>1. PICK next, after : Outcome(next, after)
    BY <1>4, <1>0, BehindProceeds DEF Proceeds
  <2>2. call.at \notin Left
    BY <1>4 DEF Behind, Left, Build, BuildFails, Simulated, SimulationRefused, SimulationFails,
       SendReturns, SendFails
  <2>3. Rested(call.family)
    BY <2>2 DEF CoolInv
  <2>4. now' = now /\ free' = free /\ noskip' = noskip /\ call' = next
    BY <2>1 DEF Outcome, switches
  <2>5. Longest'
    BY <2>1, <2>3, <2>4, <1>0, LongestKept DEF Outcome
  <2>6. ASSUME next.at \notin Left PROVE Rested(call.family)'
    <3>1. next.family = call.family /\ \A k \in Keys : after[k] = 0
      BY <2>1, <2>6 DEF Outcome
    <3>2. \A k \in Keys : quiet'[k] = quiet[k]
      BY <2>1, <3>1 DEF Outcome, CoolDown
    <3> QED
      BY <2>3, <2>4, <3>1, <3>2, <1>0, OwnKeys DEF Rested, Held
  <2> QED
    BY <2>4, <2>5, <2>6 DEF CoolInv
<1>5. CASE Prune
  <2>1. /\ UNCHANGED <<now, quiet, free, noskip, call>>
        /\ cool' = [k \in Keys |-> IF cool[k] > now THEN cool[k] ELSE 0]
    BY <1>5 DEF Prune, history, switches
  <2>2. \A f \in Families : \A k \in KeysOf(f) : cool[k] > now => cool'[k] = cool[k]
    BY <2>1, OwnKeys
  <2>3. Longest'
    BY <2>1, <2>2, <1>0 DEF Longest, Held
  <2> QED
    BY <2>1, <2>3 DEF CoolInv, Rested, Held
<1>6. CASE Tick
  <2>1. UNCHANGED <<cool, quiet, free, noskip, call>> /\ now' = now + 1
    BY <1>6 DEF Tick, history, switches
  <2>2. \A f \in Families : \A k \in KeysOf(f) : quiet[k] \in Nat
    BY <1>0, OwnKeys
  <2>3. Longest'
    BY <2>1, <2>2, <1>0 DEF Longest, Held
  <2>4. ASSUME Rested(call.family) PROVE Rested(call.family)'
    BY <2>1, <2>2, <2>4, <1>0 DEF Rested, Held
  <2> QED
    BY <2>1, <2>3, <2>4 DEF CoolInv
<1>7. CASE UNCHANGED vars
  BY <1>7 DEF vars, history, switches, CoolInv, Longest, Rested, Held
<1> QED
  BY <1>1, <1>2, <1>3, <1>4, <1>5, <1>6, <1>7 DEF Next, CallStep, Behind

(* A new cooldown replaces the old, yet while skipping is not switched off *)
(* no call of a family that reads cooldowns passes the gates before the    *)
(* latest end ever set has come: the gate stands before all that cools,    *)
(* and no call cools twice.                                                *)
THEOREM CooldownsAreKept == Spec => CooldownsHold
<1> DEFINE Ends == PassGates /\ ~noskip /\ call.family # "rpc_direct" /\ ~Ignores
                     => \A k \in KeysOf(call.family) : quiet[k] <= now
<1>1. CallInv /\ Times /\ CoolInv /\ [Next]_vars => [Ends]_vars
  BY PassesRested DEF CoolInv, Rested, Held, Ignores
<1>2. CooldownsHold <=> [][Ends]_vars
  BY DEF CooldownsHold
<1> HIDE DEF Ends
<1> QED
  BY <1>1, <1>2, CallInvInit, CallInvStep, TimesInit, TimesStep, CoolInvInit, CoolInvStep,
     PTL DEF Spec

-----------------------------------------------------------------------------
(* The types.  What is not immediate is that a call ends its builds: each  *)
(* plan beyond the first answers the failure of the one before, once after *)
(* a simulation and once after a send, or is for another size.             *)
Earlier(c) == CASE c.mode = "probe"                              -> Sizes - c.sizes
                [] c.mode # "probe" /\ c.again = "no"        -> 0
                [] c.mode # "probe" /\ c.again = "simulated" -> 1
                [] c.mode # "probe" /\ c.again = "sent"      -> 2
Counted(c) ==
    /\ c.mode = "probe" => /\ c.family \in {"meteora_raydium", "meteora_meteora"}
                           /\ c.again = "no" /\ c.sizes \in 1..Sizes
    /\ c.mode # "probe" => c.sizes = 0
    /\ c.plan <= Earlier(c) + (IF c.at \in {"simulate", "send"} THEN 1 ELSE 0)

(* Where a step behind the gates leaves the call. *)
Goes ==
    \/ call' \in {NoCall, Restarted, NextSize}
    \/ /\ call.at = "simulate" /\ call.again = "no" /\ call.family = "rpc_direct"
       /\ \E e \in Errors : call' = Rebuilt("simulated", e)
    \/ /\ call.at = "send" /\ call.again # "sent" /\ call.mode # "probe"
       /\ \E e \in Errors : call' = Rebuilt("sent", e)
    \/ call.at = "build" /\ \E at \in {"simulate", "send"} :
                                call' = [call EXCEPT !.at = at, !.plan = @ + 1]
    \/ call.at = "simulate" /\ call' = [call EXCEPT !.at = "send", !.units = call.plan]

(* A send that failed leads to one of the ends of Goes. *)
LEMMA SendFailedGoes ==
  ASSUME Good(call), Counted(call), call.at = "send", NEW e \in Errors, SendFailed(e)
  PROVE  Goes
<1>0. call.family \in Families /\ call.mode \in {"plain", "probe", "spot"}
      /\ call.again \in {"no", "simulated", "sent"}
      /\ (call.family \notin {"meteora_raydium", "meteora_meteora"} => call.mode # "probe")
  BY DEF Good, Shapes, Counted
<1>1. CASE call.family \in {"rpc_direct", "pumpswap_meteora"}
  <2>1. RpcDirectSendFailed(e) \/ PumpswapMeteoraSendFailed(e)
    BY <1>1 DEF SendFailed
  <2>2. call' \in {NoCall, Restarted} \/ (call.again # "sent" /\ call' = Rebuilt("sent", e))
    BY <2>1 DEF RpcDirectSendFailed, PumpswapMeteoraSendFailed, Returns, Step
  <2> QED
    BY <2>2, <1>0, <1>1 DEF Goes
<1>2. CASE call.family \in {"pumpswap_clmm", "raydium_whirlpool", "meteora_meteora"}
  <2>1. PumpswapClmmSendFailed(e) \/ RaydiumWhirlpoolSendFailed(e) \/ MeteoraMeteoraSendFailed(e)
    BY <1>2 DEF SendFailed
  <2> QED
    BY <2>1 DEF PumpswapClmmSendFailed, RaydiumWhirlpoolSendFailed, MeteoraMeteoraSendFailed,
       Returns, Step, Goes
<1>3. CASE call.family = "meteora_whirlpool"
  <2>1. MeteoraWhirlpoolSendFailed(e)
    BY <1>3 DEF SendFailed
  <2>2. call' = NoCall \/ (call.again # "sent" /\ call' = Rebuilt("sent", e))
    BY <2>1 DEF MeteoraWhirlpoolSendFailed, Returns, Step
  <2> QED
    BY <2>2, <1>0, <1>3 DEF Goes
<1>4. CASE call.family = "meteora_raydium" /\ call.mode = "plain"
  <2>1. MeteoraRaydiumSendFailed(e)
    BY <1>4 DEF SendFailed
  <2>2. call' = NoCall \/ (call.again # "sent" /\ call' = Rebuilt("sent", e))
    BY <2>1 DEF MeteoraRaydiumSendFailed, MeteoraRaydiumGivesUp, Returns, Step
  <2> QED
    BY <2>2, <1>4 DEF Goes
<1>5. CASE call.family = "meteora_raydium" /\ call.mode = "spot"
  <2>1. MeteoraRaydiumSpotFailed(e)
    BY <1>5 DEF SendFailed
  <2>2. call' = NoCall \/ (call.again # "sent" /\ call' = Rebuilt("sent", e))
    BY <2>1 DEF MeteoraRaydiumSpotFailed, Returns, Step
  <2> QED
    BY <2>2, <1>5 DEF Goes
<1>6. CASE call.family = "meteora_raydium" /\ call.mode = "probe"
  <2>1. MeteoraRaydiumProbeSendFailed(e)
    BY <1>6 DEF SendFailed
  <2> QED
    BY <2>1 DEF MeteoraRaydiumProbeSendFailed, Returns, Step, Goes
<1> QED
  BY <1>0, <1>1, <1>2, <1>3, <1>4, <1>5, <1>6 DEF Families

(* So does every step behind the gates. *)
LEMMA BehindGoes ==
  ASSUME Good(call), Counted(call), search \in Searches, Behind
  PROVE  Goes
<1>0. call.family \in Families /\ call.error \in Errors /\ Met \subseteq Errors
  BY MetErrors DEF Good, Shapes
<1>1. CASE Build
  <2>1. CASE AfterBuild = "idle"
    BY <2>1, <1>1 DEF Build, GoOn, Step, Goes
  <2>2. CASE AfterBuild # "idle"
    <3>1. AfterBuild \in {"simulate", "send"}
      BY <2>2, <1>0 DEF AfterBuild, Families, RpcDirectBuilt, PumpswapMeteoraBuilt,
         PumpswapClmmBuilt, MeteoraRaydiumBuilt, MeteoraMeteoraBuilt, MeteoraWhirlpoolBuilt,
         RaydiumWhirlpoolBuilt
    <3>2. call.at = "build" /\ call' = [call EXCEPT !.at = AfterBuild, !.plan = @ + 1]
      BY <2>2, <1>1 DEF Build, GoOn, Step
    <3> QED
      BY <3>1, <3>2 DEF Goes
  <2> QED
    BY <2>1, <2>2
<1>2. CASE BuildFails
  <2>1. PICK e \in Errors : BuildFailed(e)
    BY <1>2, <1>0 DEF BuildFails
  <2>2. call' \in {NoCall, Restarted, NextSize}
    BY <2>1 DEF BuildFailed, SecondBuildFailed, FirstBuildFailed, RestartsWithOtherWindow,
       MeteoraRaydiumGivesUp, Returns, GoOn, Step
  <2> QED
    BY <2>2 DEF Goes
<1>3. CASE Simulated
  BY <1>3 DEF Simulated, GoOn, Step, Goes
<1>4. CASE SimulationRefused \/ SendReturns
  BY <1>4 DEF SimulationRefused, SendReturns, Returns, GoOn, Step, Goes
<1>5. CASE SimulationFails
  <2>1. PICK e \in Errors : SimulationFailed(e)
    BY <1>5, <1>0 DEF SimulationFails
  <2>2. CASE call.family = "rpc_direct"
    <3>1. call' = NoCall \/ (call.again = "no" /\ call' = Rebuilt("simulated", e))
      BY <2>1, <2>2 DEF SimulationFailed, RpcDirectSimulationFailed, Returns, Step
    <3> QED
      BY <3>1, <2>2, <1>5 DEF SimulationFails, Goes
  <2>3. CASE call.family # "rpc_direct"
    <3>1. call' \in {NoCall, NextSize}
      BY <2>1, <2>3 DEF SimulationFailed, MeteoraRaydiumProbeFailed, MeteoraMeteoraProbeFailed,
         Returns, GoOn, Step
    <3> QED
      BY <3>1 DEF Goes
  <2> QED
    BY <2>2, <2>3
<1>6. CASE SendFails
  BY <1>6, <1>0, SendFailedGoes DEF SendFails
<1> QED
  BY <1>1, <1>2, <1>3, <1>4, <1>5, <1>6 DEF Behind

(* And the ends of Goes keep the count of plans. *)
LEMMA GoesCounted ==
  ASSUME Good(call), Counted(call), Goes
  PROVE  Counted(call')
<1>0. call \in Shapes /\ Sizes \in Nat \ {0}
  BY SendAssumption DEF Good
<1>1. Counted(NoCall) /\ Counted(Restarted)
  BY DEF NoCall, Restarted, Counted, Earlier
<1>2. CASE call' \in {NoCall, Restarted}
  BY <1>1, <1>2
<1>3. CASE call' = NextSize
  <2>1. CASE call.sizes > 1
    <3>1. call' = [call EXCEPT !.at = "build", !.sizes = @ - 1]
      BY <1>3, <2>1 DEF NextSize
    <3>2. call.mode = "probe" /\ call.sizes \in 1..Sizes /\ call.plan \in Nat
      BY <1>0, <2>1 DEF Counted, Shapes
    <3>3. call.plan <= Sizes - call.sizes + 1
      BY <1>0, <3>2 DEF Counted, Earlier
    <3> QED
      BY <1>0, <3>1, <3>2, <3>3, <2>1 DEF Counted, Earlier, Shapes
  <2>2. CASE ~(call.sizes > 1)
    BY <1>1, <1>3, <2>2 DEF NextSize
  <2> QED
    BY <2>1, <2>2
<1>4. CASE /\ call.at = "simulate" /\ call.again = "no" /\ call.family = "rpc_direct"
           /\ \E e \in Errors : call' = Rebuilt("simulated", e)
  BY <1>0, <1>4 DEF Rebuilt, Counted, Earlier, Shapes
<1>5. CASE /\ call.at = "send" /\ call.again # "sent" /\ call.mode # "probe"
           /\ \E e \in Errors : call' = Rebuilt("sent", e)
  BY <1>0, <1>5 DEF Rebuilt, Counted, Earlier, Shapes
<1>6. CASE call.at = "build" /\ \E at \in {"simulate", "send"} :
                                    call' = [call EXCEPT !.at = at, !.plan = @ + 1]
  BY <1>0, <1>6 DEF Counted, Earlier, Shapes
<1>7. CASE call.at = "simulate" /\ call' = [call EXCEPT !.at = "send", !.units = call.plan]
  BY <1>0, <1>7 DEF Counted, Earlier, Shapes
<1> QED
  BY <1>2, <1>3, <1>4, <1>5, <1>6, <1>7 DEF Goes

(* The count of tick arrays stays in range, for whatever error. *)
LEMMA TicksTyped ==
  ASSUME NEW n \in TickCounts, NEW e
  PROVE  TicksBumped(n, e) \in TickCounts /\ TicksReduced(n, e) \in TickCounts
<1>1. TickBase \in Nat \ {0} /\ MaxTicks \in Nat /\ n \in Nat \ {0}
      /\ n <= Greatest(TickBase, MaxTicks) /\ Greatest(TickBase, MaxTicks) \in Nat
  BY WindowAssumption DEF TickCounts, Greatest
<1>2. TicksBumped(n, e) \in TickCounts
  BY <1>1 DEF TicksBumped, TickCounts, Greatest, Least
<1>3. TicksReduced(n, e) \in 1..n
  <2>1. n \div 2 \in 0..n
    BY <1>1
  <2> QED
    BY <1>1, <2>1 DEF TicksReduced, Greatest
<1> QED
  BY <1>1, <1>2, <1>3 DEF TickCounts

(* A step behind the gates leaves tick counts that are known. *)
LEMMA BehindTicks ==
  ASSUME Good(call), ticks \in TickCounts, Behind
  PROVE  ticks' \in TickCounts
<1>1. \A e : /\ TicksBumped(ticks, e) \in TickCounts /\ TicksReduced(ticks, e) \in TickCounts
             /\ TicksBumped(TicksReduced(ticks, e), e) \in TickCounts
  BY TicksTyped
<1>2. CASE Build \/ Simulated \/ SimulationRefused \/ SendReturns
  BY <1>2 DEF Build, Simulated, SimulationRefused, SendReturns, GoOn, Returns, Step
<1>3. CASE BuildFails
  <2>1. PICK e : BuildFailed(e)
    BY <1>3 DEF BuildFails
  <2>2. ticks' \in {ticks, TicksBumped(ticks, e)}
        \/ ticks' = TicksBumped(TicksReduced(ticks, call.error), call.error)
    BY <2>1 DEF BuildFailed, SecondBuildFailed, FirstBuildFailed, RestartsWithOtherWindow,
       MeteoraRaydiumGivesUp, Returns, GoOn, Step
  <2> QED
    BY <2>2, <1>1
<1>4. CASE SimulationFails
  <2>1. PICK e : SimulationFailed(e)
    BY <1>4 DEF SimulationFails
  <2>2. ticks' \in {ticks, TicksBumped(ticks, e), TicksReduced(ticks, e)}
    BY <2>1 DEF SimulationFailed, RpcDirectSimulationFailed, MeteoraRaydiumProbeFailed,
       MeteoraMeteoraProbeFailed, Returns, GoOn, Step
  <2> QED
    BY <2>2, <1>1
<1>5. CASE SendFails
  <2>1. PICK e : SendFailed(e)
    BY <1>5 DEF SendFails
  <2>2. ticks' \in {ticks, TicksBumped(ticks, e), TicksReduced(ticks, e),
                    TicksBumped(TicksReduced(ticks, e), e)}
    <3>0. call.family \in Families /\ call.mode \in {"plain", "probe", "spot"}
      BY DEF Good, Shapes
    <3>1. \/ RpcDirectSendFailed(e) \/ PumpswapMeteoraSendFailed(e) \/ PumpswapClmmSendFailed(e)
          \/ MeteoraRaydiumSendFailed(e) \/ MeteoraRaydiumSpotFailed(e)
          \/ MeteoraRaydiumProbeSendFailed(e) \/ MeteoraWhirlpoolSendFailed(e)
          \/ RaydiumWhirlpoolSendFailed(e) \/ MeteoraMeteoraSendFailed(e)
      BY <2>1, <3>0 DEF SendFailed, Families
    <3>2. CASE RpcDirectSendFailed(e) \/ PumpswapMeteoraSendFailed(e)
      BY <3>2 DEF RpcDirectSendFailed, PumpswapMeteoraSendFailed, Returns, Step
    <3>3. CASE \/ PumpswapClmmSendFailed(e) \/ RaydiumWhirlpoolSendFailed(e)
               \/ MeteoraMeteoraSendFailed(e)
      BY <3>3 DEF PumpswapClmmSendFailed, RaydiumWhirlpoolSendFailed, MeteoraMeteoraSendFailed,
         Returns, Step
    <3>4. CASE MeteoraWhirlpoolSendFailed(e) \/ MeteoraRaydiumSpotFailed(e)
      BY <3>4 DEF MeteoraWhirlpoolSendFailed, MeteoraRaydiumSpotFailed, Returns, Step
    <3>5. CASE MeteoraRaydiumSendFailed(e)
      BY <3>5 DEF MeteoraRaydiumSendFailed, MeteoraRaydiumGivesUp, Returns, Step
    <3>6. CASE MeteoraRaydiumProbeSendFailed(e)
      BY <3>6 DEF MeteoraRaydiumProbeSendFailed, Returns, Step
    <3> QED
      BY <3>1, <3>2, <3>3, <3>4, <3>5, <3>6
  <2> QED
    BY <2>2, <1>1
<1> QED
  BY <1>2, <1>3, <1>4, <1>5 DEF Behind

(* The bounds: those of the model, and those of a call and of the ticks. *)
Bounded ==
    /\ required \in BOOLEAN /\ probe \in BOOLEAN /\ fast \in BOOLEAN
    /\ free \in BOOLEAN /\ noskip \in BOOLEAN
    /\ now <= MaxTime /\ attempted.at <= MaxTime /\ last.at <= MaxTime
    /\ calls \in 0..MaxCalls /\ ticks \in TickCounts /\ Counted(call)

(* Every step keeps the bounds. *)
LEMMA BoundedStep == CallInv /\ Times /\ Bounded /\ [Next]_vars => Bounded'
<1> SUFFICES ASSUME CallInv, Times, Bounded, [Next]_vars PROVE Bounded'
  OBVIOUS
<1>0. /\ Good(call) /\ Counted(call) /\ search \in Searches
      /\ MaxTime \in Nat /\ MaxCalls \in Nat /\ Sizes \in Nat \ {0}
  BY SendAssumption DEF CallInv, Sound, Bounded
<1>1. CASE Dispatch
  <2>1. PICK f \in Families \ {"pumpswap_meteora"} : \E m \in Modes(f) : call' = Started(f, m)
    BY <1>1 DEF Dispatch
  <2>2. PICK m \in Modes(f) : call' = Started(f, m)
    BY <2>1
  <2>3. m = "probe" => f \in {"meteora_raydium", "meteora_meteora"}
    BY DEF Modes
  <2>4. Counted(call')
    BY <1>0, <2>2, <2>3 DEF Started, NoCall, Counted, Earlier
  <2>5. calls' \in 0..MaxCalls
    BY <1>0, <1>1 DEF Dispatch, Bounded
  <2> QED
    BY <1>1, <2>4, <2>5 DEF Dispatch, Bounded, switches, learned, history
<1>2. CASE PassGates
  <2>1. call.at = "gates" /\ call' = [call EXCEPT !.at = "build"] /\ call \in Shapes
    BY <1>0, <1>2 DEF PassGates, Good
  <2>2. Counted(call')
    BY <1>0, <2>1 DEF Counted, Earlier, Shapes
  <2>3. attempted'.at <= MaxTime /\ last'.at <= MaxTime
    BY <1>2 DEF PassGates, Recorded, Bounded
  <2> QED
    BY <1>2, <2>2, <2>3 DEF PassGates, Bounded, switches, learned
<1>3. CASE Refused
  <2>1. Counted(NoCall)
    BY DEF NoCall, Counted, Earlier
  <2>2. attempted'.at <= MaxTime
    BY <1>3 DEF Refused, Recorded, Bounded
  <2> QED
    BY <1>3, <2>1, <2>2 DEF Refused, Bounded, switches, learned
<1>4. CASE Behind
  <2>1. PICK next, after : Outcome(next, after)
    BY <1>4, <1>0, BehindProceeds DEF Proceeds
  <2>2. Counted(call') /\ ticks' \in TickCounts
    BY <1>0, <1>4, BehindGoes, GoesCounted, BehindTicks DEF Bounded
  <2> QED
    BY <2>1, <2>2 DEF Outcome, Bounded, switches
<1>5. CASE Prune
  <2>1. attempted'.at <= MaxTime
    BY <1>0, <1>5 DEF Prune, Never, Bounded
  <2> QED
    BY <1>5, <2>1 DEF Prune, Bounded, switches, learned, history
<1>6. CASE Tick
  <2>1. now' <= MaxTime
    BY <1>0, <1>6 DEF Tick, Times
  <2> QED
    BY <1>6, <2>1 DEF Tick, Bounded, switches, learned, history
<1>7. CASE UNCHANGED vars
  BY <1>7 DEF vars, Bounded, switches, learned, history
<1> QED
  BY <1>1, <1>2, <1>3, <1>4, <1>5, <1>6, <1>7 DEF Next, CallStep, Behind

(* The variables keep their types for any windows, durations and numbers   *)
(* of sizes and calls; in particular no call builds more plans than it has *)
(* sizes and two more.                                                     *)
THEOREM TypesHold == Spec => []TypeOK
<1>1. Init => Bounded
  <2> SUFFICES ASSUME Init PROVE Bounded
    OBVIOUS
  <2>1. Counted(NoCall)
    BY DEF NoCall, Counted, Earlier
  <2>2. TickBase \in TickCounts
    BY WindowAssumption DEF TickCounts, Greatest
  <2> QED
    BY <2>1, <2>2, SendAssumption DEF Init, Bounded, Never
<1>2. CallInv /\ Times /\ Bounded => TypeOK
  <2> SUFFICES ASSUME CallInv, Times, Bounded PROVE TypeOK
    OBVIOUS
  <2>0. MaxTime \in Nat /\ Sizes \in Nat \ {0}
    BY SendAssumption
  <2>1. attempted \in Moments /\ last \in Moments /\ now \in 0..MaxTime
    BY <2>0 DEF Times, Bounded, Instants, Moments
  <2>2. call \in Shapes /\ Counted(call) /\ search \in Searches
    BY DEF CallInv, Good, Bounded, Sound
  <2>3. call.sizes \in 0..Sizes /\ call.plan \in 0..(2 + Sizes)
    BY <2>0, <2>2 DEF Counted, Earlier, Shapes
  <2>4. call.units \in {0, call.plan}
    BY DEF CallInv, Good
  <2>5. call \in Calls
    BY <2>0, <2>2, <2>3, <2>4 DEF Calls, Shapes
  <2> QED
    BY <2>1, <2>2, <2>5 DEF Times, Bounded, TypeOK
<1> QED
  BY <1>1, <1>2, BoundedStep, CallInvInit, CallInvStep, TimesInit, TimesStep, PTL DEF Spec
=============================================================================
