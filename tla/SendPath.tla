------------------------------ MODULE SendPath ------------------------------
(***************************************************************************)
(* How a candidate becomes a transaction (src/src/main.rs, executor/): the *)
(* first send, the extension of the lookup tables and second send when the *)
(* transaction is too large, the split into a Jito bundle, and the rebuild *)
(* with another window of bin arrays.  The main loop awaits each call, so  *)
(* there is one at a time; the chain, the lookup tables on it, and the     *)
(* extensions an earlier call gave up on go on beside it.                  *)
(*                                                                         *)
(* A plan is the addresses it names, and it fits when at most Slack of     *)
(* them are in no lookup table.                                            *)
(***************************************************************************)
EXTENDS Naturals, Sequences, FiniteSets, SequencesExt

CONSTANTS
    Addresses,  \* accounts the plans name
    Plans,      \* the transactions a call may want to send
    Needs,      \* Needs[p]: the addresses of plan p, in order, each once
    Slack,      \* Slack[p]: how many of them fit without a table
    HasSetup,   \* HasSetup[p]: p has setup instructions to split off
    HasWindow,  \* HasWindow[p]: p is rebuilt with another bin array window
    NTables,    \* configured lookup tables
    Capacity,   \* LOOKUP_TABLE_MAX_ADDRESSES
    ChunkSize,  \* ALT_EXTEND_CHUNK_SIZE
    FirstTable, \* FirstTable[t]: what table t holds at the start
    Forks,      \* whether a status may come from a fork that is dropped
    MaxCalls    \* bound: calls of a behaviour

Tables == 1..NTables
Seqs   == UNION {[1..n -> Addresses] : n \in 0..Capacity}

ASSUME SendPathAssumption ==
    /\ NTables \in Nat /\ Capacity \in Nat /\ MaxCalls \in Nat
    /\ ChunkSize \in Nat \ {0}
    /\ Plans # {} /\ Needs \in [Plans -> Seq(Addresses)]
    /\ Slack \in [Plans -> Nat]
    /\ HasSetup \in [Plans -> BOOLEAN] /\ HasWindow \in [Plans -> BOOLEAN]
    /\ FirstTable \in [Tables -> Seqs]
    /\ Forks \in BOOLEAN

VARIABLES
    live,      \* enabled and not dry_run_only
    jito,      \* whether bundles go through Jito
    calls,     \* calls so far
    plan,      \* the plan of this call
    pc,        \* where the call is
    attempt,   \* 1 = first send, 2 = after an extension, 3 = bundle split
    rebuilt,   \* whether the plan was rebuilt
    error,     \* the error of the last send, "none" when it went out
    sent,      \* fates of this call's transactions that may have gone out
    table,     \* the tables on the chain
    cache,     \* LOOKUP_TABLE_CACHE: what the bot last read of them
    exhausted, \* lookup_table_capacity_exhausted
    todo,      \* todo[t]: what the running extension has yet to add to t
    rest,      \* whether addresses are left over (remaining_missing)
    flight,    \* extension transactions that may still land
    outcome    \* what became of the extension transaction awaited

settings  == <<live, jito, calls>>
call      == <<plan, attempt, rebuilt>>
extension == <<todo, rest, flight, outcome>>
vars == <<settings, call, pc, error, sent, table, cache, exhausted, extension>>

NoCopy   == <<"not cached">>
Errors   == {"none", "tooLarge", "locks", "window", "onchain", "other"}
Fates    == {"flying", "landed", "failed", "expired"}

Init == /\ live \in BOOLEAN /\ jito \in BOOLEAN
        /\ calls = 0
        /\ plan = CHOOSE p \in Plans : TRUE
        /\ attempt = 1 /\ rebuilt = FALSE
        /\ pc = "idle"
        /\ error = "none"
        /\ sent = <<>>
        /\ table = FirstTable
        /\ cache = [t \in Tables |-> NoCopy]
        /\ exhausted = FALSE
        /\ todo = [t \in Tables |-> <<>>] /\ rest = FALSE
        /\ flight = {} /\ outcome = "none"

Call == /\ pc = "idle"
        /\ calls < MaxCalls
        /\ calls' = calls + 1
        /\ plan' \in Plans /\ attempt' = 1 /\ rebuilt' = FALSE
        /\ pc' = "send" /\ error' = "none" /\ sent' = <<>>
        /\ UNCHANGED <<live, jito, table, cache, exhausted, extension>>

-----------------------------------------------------------------------------
(* The lookup tables as the bot sees them; a read fills the cache, table   *)
(* by table.                                                               *)
Seen(t)   == IF cache[t] = NoCopy THEN table[t] ELSE cache[t]
Loaded(n) == [t \in Tables |-> IF t <= n THEN Seen(t) ELSE cache[t]]
Listed    == UNION {ToSet(Seen(t)) : t \in Tables}

Fits(p, listed) == Cardinality(ToSet(Needs[p]) \ listed) <= Slack[p]

CacheExpires(t) ==
    /\ cache[t] # NoCopy
    /\ cache' = [cache EXCEPT ![t] = NoCopy]
    /\ UNCHANGED <<settings, call, pc, error, sent, table, exhausted, extension>>

-----------------------------------------------------------------------------
(* What follows a send that ended with an error: the split into a bundle,  *)
(* then the rebuild, then the end of the call.                             *)
Mutant_Splits(e) == e \in {"tooLarge", "locks"} /\ jito /\ HasSetup[plan]
Splits(e) == attempt # 3 /\ e \in {"tooLarge", "locks"} /\ jito /\ HasSetup[plan]

Mutant_Rebuilds(e) == ~rebuilt /\ HasWindow[plan]
Rebuilds(e) == ~rebuilt /\ e \in {"tooLarge", "locks", "window"} /\ HasWindow[plan]

AfterError(e) ==
    /\ error' = e
    /\ attempt' = IF Splits(e) THEN 3 ELSE attempt
    /\ pc' = IF Splits(e) THEN "send" ELSE IF Rebuilds(e) THEN "rebuild" ELSE "idle"
    /\ UNCHANGED <<plan, rebuilt>>

Returns == pc' = "idle" /\ error' = "none" /\ UNCHANGED call

Mutant_Rebuild == /\ pc = "rebuild"
                  /\ plan' \in Plans
                  /\ rebuilt' = TRUE /\ attempt' = attempt + 1 /\ pc' = "send"
                  /\ UNCHANGED <<settings, error, sent, table, cache, exhausted, extension>>
Rebuild == /\ pc = "rebuild"
           /\ plan' \in Plans
           /\ rebuilt' = TRUE /\ attempt' = 1 /\ pc' = "send"
           /\ UNCHANGED <<settings, error, sent, table, cache, exhausted, extension>>

RebuildFails == /\ pc = "rebuild"
                /\ pc' = "idle"
                /\ UNCHANGED <<settings, call, error, sent, table, cache, exhausted, extension>>

-----------------------------------------------------------------------------
(* Building the transaction.  Without live sending the call ends here; so  *)
(* it does when the blockhash, or a table, cannot be read.  A plan that    *)
(* fits by itself reads no table.  The two groups of a split have their    *)
(* own sizes: either outcome.                                              *)
SendFails ==
    /\ pc = "send"
    /\ \E n \in 0..NTables : /\ n # 0 => live /\ ~Fits(plan, {})
                             /\ cache' = Loaded(n)
    /\ AfterError("other")
    /\ UNCHANGED <<settings, sent, table, exhausted, extension>>

TooLarge ==
    /\ pc = "send" /\ live
    /\ ~Fits(plan, {})
    /\ attempt # 3 => ~Fits(plan, Listed)
    /\ cache' = Loaded(NTables)
    /\ IF attempt = 1
       THEN pc' = "extend" /\ error' = "tooLarge" /\ UNCHANGED call
       ELSE AfterError("tooLarge")
    /\ UNCHANGED <<settings, sent, table, exhausted, extension>>

Mutant_Build ==
    /\ pc = "send"
    /\ attempt # 3 => Fits(plan, Listed)
    /\ cache' \in {IF Fits(plan, {}) THEN cache ELSE Loaded(NTables)}
    /\ pc' = "submit"
    /\ UNCHANGED <<settings, call, error, sent, table, exhausted, extension>>
Build ==
    /\ pc = "send" /\ live
    /\ attempt # 3 => Fits(plan, Listed)
    /\ cache' = IF Fits(plan, {}) THEN cache ELSE Loaded(NTables)
    /\ pc' = "submit"
    /\ UNCHANGED <<settings, call, error, sent, table, exhausted, extension>>

-----------------------------------------------------------------------------
(* Handing it over.  A bundle that was split lands or fails as a whole.    *)
Submitted == sent' = Append(sent, "flying")

Accepted == /\ pc = "submit"
            /\ Submitted
            /\ IF jito THEN Returns ELSE pc' = "confirm" /\ UNCHANGED <<call, error>>
            /\ UNCHANGED <<settings, table, cache, exhausted, extension>>

AnswerLost == /\ pc = "submit"
              /\ Submitted
              /\ AfterError("other")
              /\ UNCHANGED <<settings, table, cache, exhausted, extension>>

Refused == /\ pc = "submit"
           /\ \E e \in {"locks", "window", "other"} : AfterError(e)
           /\ UNCHANGED <<settings, sent, table, cache, exhausted, extension>>

(* confirm_submitted_signature, without Jito: no status within a second is *)
(* a success to be confirmed in the background; a status that cannot be    *)
(* read, or that tells of a failed transaction, is an error.               *)
Fate == sent[Len(sent)]

Confirmed == /\ pc = "confirm"
             /\ Fate = "landed"
             /\ Returns
             /\ UNCHANGED <<settings, sent, table, cache, exhausted, extension>>

NoStatus == /\ pc = "confirm"
            /\ Returns
            /\ UNCHANGED <<settings, sent, table, cache, exhausted, extension>>

StatusUnreadable == /\ pc = "confirm"
                    /\ AfterError("other")
                    /\ UNCHANGED <<settings, sent, table, cache, exhausted, extension>>

FailedOnChain ==
    /\ pc = "confirm"
    /\ Fate = "failed"
    /\ \E e \in {"window", "onchain"} : AfterError(e)
    /\ UNCHANGED <<settings, sent, table, cache, exhausted, extension>>

-----------------------------------------------------------------------------
(* extend_lookup_tables: what the plan needs and no table lists goes into  *)
(* the free places of the tables, first table first, a chunk at a time;    *)
(* each chunk is awaited.                                                  *)
Missing ==
    LET missing[k \in 0..Len(Needs[plan])] ==
            IF k = 0 THEN <<>>
            ELSE IF Needs[plan][k] \in Listed THEN missing[k - 1]
            ELSE Append(missing[k - 1], Needs[plan][k])
    IN  missing[Len(Needs[plan])]

Free(t) == Capacity - Len(Seen(t))

(* The free places of tables 1 to t. *)
Room[t \in 0..NTables] == IF t = 0 THEN 0 ELSE Room[t - 1] + Free(t)

Upto(m, n) == IF m <= n THEN m ELSE n

Share(t) == SubSeq(Missing, Room[t - 1] + 1, Upto(Room[t], Len(Missing)))

Nothing == [t \in Tables |-> <<>>]

(* The extension added nothing: the first error stands. *)
NoExtension == /\ AfterError("tooLarge")
               /\ todo' = Nothing /\ rest' = FALSE /\ outcome' = "none"

NotAgain == /\ pc = "extend"
            /\ exhausted \/ NTables = 0
            /\ NoExtension
            /\ UNCHANGED <<settings, sent, table, cache, exhausted, flight>>

TablesUnreadable ==
    /\ pc = "extend" /\ ~exhausted
    /\ \E n \in 0..(NTables - 1) : cache' = Loaded(n)
    /\ NoExtension
    /\ UNCHANGED <<settings, sent, table, exhausted, flight>>

NoRoom ==
    /\ pc = "extend" /\ ~exhausted /\ NTables # 0
    /\ \A t \in Tables : Share(t) = <<>>
    /\ cache' = Loaded(NTables)
    /\ exhausted' = (Missing # <<>>)
    /\ NoExtension
    /\ UNCHANGED <<settings, sent, table, flight>>

PlanExtension ==
    /\ pc = "extend" /\ ~exhausted
    /\ \E t \in Tables : Share(t) # <<>>
    /\ cache' = Loaded(NTables)
    /\ todo' = [t \in Tables |-> Share(t)]
    /\ rest' = (Room[NTables] < Len(Missing))
    /\ pc' = "chunk"
    /\ UNCHANGED <<settings, call, error, sent, table, exhausted, flight, outcome>>

(* The table being extended and the chunk it gets next. *)
Target == CHOOSE t \in Tables : todo[t] # <<>> /\ \A u \in 1..(t - 1) : todo[u] = <<>>

Chunk == SubSeq(todo[Target], 1, Upto(ChunkSize, Len(todo[Target])))

(* The number of this pass over the sends: one or two to a call. *)
Round == 2 * calls + (IF rebuilt THEN 1 ELSE 0)

ChunkSent == flight' = flight \cup {[round |-> Round, table |-> Target, adds |-> Chunk]}

(* The chunk's transaction is sent, and its answer arrives or not; or it   *)
(* is not sent: no blockhash, or refused.                                  *)
SubmitChunk == /\ pc = "chunk"
               /\ ChunkSent
               /\ pc' = "await" /\ outcome' = "none"
               /\ UNCHANGED <<settings, call, error, sent, table, cache, exhausted, todo, rest>>

ChunkAnswerLost == /\ pc = "chunk"
                   /\ ChunkSent
                   /\ NoExtension
                   /\ UNCHANGED <<settings, sent, table, cache, exhausted>>

ChunkNotSent == /\ pc = "chunk"
                /\ NoExtension
                /\ UNCHANGED <<settings, sent, table, cache, exhausted, flight>>

(* The table's copy in the cache goes when its last chunk is confirmed. *)
Mutant_Forget(t, left) == cache
Forget(t, left) == IF left = <<>> THEN [cache EXCEPT ![t] = NoCopy] ELSE cache

ChunkConfirmed ==
    /\ pc = "await"
    /\ outcome = "landed"
    /\ LET t    == Target
           left == SubSeq(todo[t], Len(Chunk) + 1, Len(todo[t]))
       IN  /\ todo' = [todo EXCEPT ![t] = left]
           /\ cache' = Forget(t, left)
           /\ pc' = IF left = <<>> /\ \A u \in Tables \ {t} : todo[u] = <<>>
                    THEN "warm" ELSE "chunk"
    /\ UNCHANGED <<settings, call, error, sent, table, exhausted, rest, flight, outcome>>

(* Failed on the chain, no status for 30 seconds, or no answer: the rest   *)
(* of the extension is given up, and the copy of this table kept.          *)
ChunkFails == /\ pc = "await"
              /\ NoExtension
              /\ UNCHANGED <<settings, sent, table, cache, exhausted, flight>>

(* wait_for_lookup_table_warmup, then the second send. *)
Mutant_Warmed == /\ pc = "warm"
                 /\ pc' = "send" /\ attempt' = 2
                 /\ exhausted' = TRUE
                 /\ rest' = FALSE /\ outcome' = "none"
                 /\ UNCHANGED <<settings, plan, rebuilt, error, sent, table, cache, todo, flight>>
Warmed == /\ pc = "warm"
          /\ pc' = "send" /\ attempt' = 2
          /\ exhausted' = (exhausted \/ rest)
          /\ rest' = FALSE /\ outcome' = "none"
          /\ UNCHANGED <<settings, plan, rebuilt, error, sent, table, cache, todo, flight>>

WarmupFails == /\ pc = "warm"
               /\ NoExtension
               /\ UNCHANGED <<settings, sent, table, cache, exhausted, flight>>

-----------------------------------------------------------------------------
(* The chain.  An extension that does not fit its table fails; one that is *)
(* not included in time is gone.                                           *)
Awaited(x) == pc = "await" /\ x.round = Round

Extended(x) ==
    /\ x \in flight
    /\ flight' = flight \ {x}
    /\ IF Len(table[x.table]) + Len(x.adds) <= Capacity
       THEN /\ table' = [table EXCEPT ![x.table] = @ \o x.adds]
            /\ outcome' = IF Awaited(x) THEN "landed" ELSE outcome
       ELSE /\ outcome' = IF Awaited(x) THEN "failed" ELSE outcome
            /\ UNCHANGED table
    /\ UNCHANGED <<settings, call, pc, error, sent, cache, exhausted, todo, rest>>

NotExtended(x) ==
    /\ x \in flight
    /\ flight' = flight \ {x}
    /\ UNCHANGED <<settings, call, pc, error, sent, table, cache, exhausted, todo, rest, outcome>>

(* A transaction lands, fails, or is never included.  With Forks a failure *)
(* may have been seen on a fork that is dropped, after which the           *)
(* transaction is as good as new.                                          *)
Execute(i) ==
    /\ \/ sent[i] = "flying" /\ \E f \in {"landed", "failed", "expired"} : sent' = [sent EXCEPT ![i] = f]
       \/ Forks /\ sent[i] = "failed" /\ sent' = [sent EXCEPT ![i] = "flying"]
    /\ UNCHANGED <<settings, call, pc, error, table, cache, exhausted, extension>>

-----------------------------------------------------------------------------
Bot == \/ Call \/ SendFails \/ TooLarge \/ Build
       \/ Accepted \/ AnswerLost \/ Refused
       \/ Confirmed \/ NoStatus \/ StatusUnreadable \/ FailedOnChain
       \/ Rebuild \/ RebuildFails
       \/ NotAgain \/ TablesUnreadable \/ NoRoom \/ PlanExtension
       \/ SubmitChunk \/ ChunkAnswerLost \/ ChunkNotSent \/ ChunkConfirmed \/ ChunkFails
       \/ Warmed \/ WarmupFails

Next == \/ Bot
        \/ \E t \in Tables : CacheExpires(t)
        \/ \E x \in flight : Extended(x) \/ NotExtended(x)
        \/ \E i \in DOMAIN sent : Execute(i)

Spec == Init /\ [][Next]_vars

(* The main loop runs on: every wait of a call is a bounded poll or a      *)
(* request that is answered or fails.                                      *)
FairSpec == Spec /\ WF_vars(Bot)

-----------------------------------------------------------------------------
TypeOK ==
    /\ live \in BOOLEAN /\ jito \in BOOLEAN
    /\ calls \in 0..MaxCalls
    /\ plan \in Plans /\ attempt \in 1..3 /\ rebuilt \in BOOLEAN
    /\ pc \in {"idle", "send", "submit", "confirm", "rebuild", "extend", "chunk", "await", "warm"}
    /\ error \in Errors
    /\ sent \in Seq(Fates)
    /\ table \in [Tables -> Seqs]
    /\ cache \in [Tables -> Seqs \cup {NoCopy}]
    /\ exhausted \in BOOLEAN
    /\ todo \in [Tables -> Seq(Addresses)] /\ rest \in BOOLEAN
    /\ \A x \in flight : x.round \in 2..(2 * MaxCalls + 1) /\ x.table \in Tables
    /\ outcome \in {"none", "landed", "failed"}

(* Of all a call sends, retries, split and rebuild included, at most one   *)
(* transaction can move funds: a later one goes out only when each earlier *)
(* one never went out or has failed.                                       *)
OneCanLand == Cardinality({i \in DOMAIN sent : sent[i] \in {"flying", "landed"}}) <= 1

(* With live sending off nothing is sent: no trade, and no extension, which *)
(* costs rent (README: enabled = false pauses).                            *)
PausedMeansSilent == ~live => sent = <<>> /\ flight = {} /\ pc \in {"idle", "send", "rebuild"}

(* Extending is switched off for the rest of the process only when every   *)
(* table really is full.                                                   *)
ExhaustedMeansFull == exhausted => \A t \in Tables : Len(table[t]) = Capacity

(* After an extension that added its addresses the second send fits,       *)
(* unless the tables ran out: what is built reads the tables as extended.  *)
SecondSendFits == [][attempt = 2 /\ TooLarge => exhausted]_vars

(* A call ends: extension, split and rebuild are each tried once.          *)
CallEnds == pc # "idle" ~> pc = "idle"

(* A transaction booked as failed on the chain does not move funds later.  *)
BookedFailureIsFinal ==
    pc = "idle" /\ error = "onchain" => Fate \notin {"flying", "landed"}

=============================================================================
