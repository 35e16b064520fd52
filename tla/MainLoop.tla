------------------------------ MODULE MainLoop ------------------------------
(***************************************************************************)
(* The main loop of the bot (src/src/main.rs, fn main): a biased select    *)
(* over the account updates, a 100 ms tick and the snapshot reload tick;   *)
(* the hot reload of the validated pool snapshot, with its marker, its     *)
(* pending flag and its minimum interval; the set of tokens to scan; and   *)
(* the scan, which is put off while the update queue is long.              *)
(*                                                                         *)
(* The snapshot file is written by another process, the indexer, at any    *)
(* moment.  Its revision stands for its fingerprint (mtime and length).    *)
(* What a subscription does with the updates is AccountStream; here the    *)
(* channel is the set of markets with a queued update.                     *)
(***************************************************************************)
EXTENDS Naturals, FiniteSets

CONSTANTS
    Markets,    \* the addresses a snapshot may list
    Venue,      \* the venue of a market
    MinVenues,  \* min_routeable_dex_count.max(2)
    Tokens,     \* the target mints
    Snapshots,  \* the contents the indexer may write
    TokenOf,    \* the target mint of a market
    High, Low,  \* the backlog watermarks
    MaxRev      \* bound: the number of times the indexer writes the file

Venues == {"pump", "pumpswap", "raydium", "meteora", "whirlpool"}

ASSUME LoopAssumption ==
    /\ Venue \in [Markets -> Venues]
    /\ MinVenues \in Nat \ {0, 1}
    /\ Snapshots \subseteq SUBSET Markets
    /\ TokenOf \in [Markets -> Tokens]
    /\ High \in Nat \ {0} /\ Low \in 1..High
    /\ MaxRev \in Nat

VARIABLES
    file,       \* the snapshot: the markets it lists
    rev,        \* the revision of the snapshot
    marker,     \* validated_snapshot_marker
    pending,    \* validated_market_reload_pending
    cooled,     \* the minimum interval since the last reload has passed
    tickDue,    \* main_loop_tick is ready
    reloadDue,  \* validated_market_reload_tick is ready
    scanDue,    \* PROGRAM_PAIR_SCAN_INTERVAL since the last scan has passed
    phase,      \* where the loop is
    markets,    \* market_address_set
    hydrated,   \* the markets with a state (the *_state maps)
    inbox,      \* the markets with an update in the channel
    dirty,      \* dirty_direct_tokens
    deferred,   \* direct_processing_deferred
    bootRev,    \* history: the revision of the first marker
    loaded,     \* history: the revision the last build read
    outcome     \* history: how the last build ended

timers   == <<tickDue, reloadDue, cooled, scanDue>>
snapshot == <<file, rev>>
universe == <<markets, hydrated, inbox, dirty>>
history  == <<bootRev, loaded, outcome>>
vars == <<snapshot, marker, pending, timers, phase, universe, deferred, history>>

PumpSide    == {m \in Markets : Venue[m] \in {"pump", "pumpswap"}}
TwoSided(S) == S \cap PumpSide # {} /\ S \ PumpSide # {}

(* Tokens in the indexes of enough venues.                                 *)
Routeable(S) ==
    {t \in Tokens : Cardinality({Venue[m] : m \in {n \in S : TokenOf[n] = t}}) >= MinVenues}

(* The mtime and length of the file. *)
Mutant_Fingerprint == marker + 1
Fingerprint == rev

-----------------------------------------------------------------------------
(* Start: the snapshot is loaded and its markets hydrated before the       *)
(* marker is read.                                                         *)
Init == /\ file \in Snapshots
        /\ rev = 0 /\ marker = 0 /\ bootRev = 0 /\ loaded = 0
        /\ outcome = "ok"
        /\ pending = FALSE
        /\ tickDue = FALSE /\ reloadDue = TRUE
        /\ cooled = FALSE /\ scanDue = TRUE
        /\ phase = "boot"
        /\ markets \in SUBSET file /\ TwoSided(markets)
        /\ hydrated \in SUBSET markets
        /\ inbox = {}
        /\ \E indexed \in SUBSET hydrated : dirty = Routeable(indexed)
        /\ deferred = FALSE

ReadMarker == /\ phase = "boot"
              /\ marker' = Fingerprint /\ bootRev' = Fingerprint
              /\ phase' = "select"
              /\ UNCHANGED <<snapshot, pending, timers, universe, deferred, loaded,
                             outcome>>

-----------------------------------------------------------------------------
(* The surroundings: the indexer, the stream and the clock. *)

WriteSnapshot == /\ rev < MaxRev
                 /\ file' \in Snapshots
                 /\ rev' = rev + 1
                 /\ UNCHANGED <<marker, pending, timers, phase, universe, deferred,
                                history>>

Deliver(m) == /\ m \in markets \ inbox /\ phase # "boot"
              /\ inbox' = inbox \cup {m}
              /\ UNCHANGED <<snapshot, marker, pending, timers, phase, markets,
                             hydrated, dirty, deferred, history>>

Untimed == UNCHANGED <<snapshot, marker, pending, phase, universe, deferred, history>>

TickPasses     == /\ ~tickDue /\ tickDue' = TRUE
                  /\ UNCHANGED <<reloadDue, cooled, scanDue>> /\ Untimed
ReloadPasses   == /\ ~reloadDue /\ reloadDue' = TRUE
                  /\ UNCHANGED <<tickDue, cooled, scanDue>> /\ Untimed
IntervalPasses == /\ ~cooled /\ cooled' = TRUE
                  /\ UNCHANGED <<tickDue, reloadDue, scanDue>> /\ Untimed
ScanTimePasses == /\ ~scanDue /\ scanDue' = TRUE
                  /\ UNCHANGED <<tickDue, reloadDue, cooled>> /\ Untimed

-----------------------------------------------------------------------------
(* The select: an update goes first, then the tick, then the reload tick.  *)

(* The queue is drained and every update processed: where it parses, its   *)
(* market has a state and its token is marked (process_account_update,     *)
(* mark_token_for_scan).                                                   *)
TakeUpdates == /\ phase = "select"
               /\ inbox # {}
               /\ \E parsed \in SUBSET inbox :
                     /\ hydrated' = hydrated \cup parsed
                     /\ dirty' = dirty \cup {TokenOf[m] : m \in parsed}
               /\ inbox' = {}
               /\ phase' = "scan"
               /\ UNCHANGED <<snapshot, marker, pending, timers, markets, deferred,
                              history>>

TakeTick == /\ phase = "select"
            /\ inbox = {} /\ tickDue
            /\ tickDue' = FALSE
            /\ phase' = "scan"
            /\ UNCHANGED <<snapshot, marker, pending, reloadDue, cooled, scanDue,
                           universe, deferred, history>>

(* A change seen before the interval has passed stays pending.             *)
Mutant_PendingAfter(changed) == IF changed THEN ~cooled ELSE FALSE
PendingAfter(changed) == (pending \/ changed) /\ ~cooled

TakeReloadTick == /\ phase = "select"
                  /\ inbox = {} /\ ~tickDue /\ reloadDue
                  /\ reloadDue' = FALSE
                  /\ marker' = Fingerprint
                  /\ pending' = PendingAfter(marker # Fingerprint)
                  /\ phase' = IF (pending \/ marker # Fingerprint) /\ cooled
                                THEN "reload" ELSE "scan"
                  /\ UNCHANGED <<snapshot, tickDue, cooled, scanDue, universe,
                                 deferred, history>>

-----------------------------------------------------------------------------
(* The reload: build_subscription_accounts reads the snapshot and the      *)
(* chain, and lists the markets it could confirm.  It fails when the       *)
(* snapshot does not parse or the RPC does not answer.                     *)

BuildFails == /\ phase = "reload"
              /\ loaded' = rev
              /\ outcome' = "failed"
              /\ phase' = "scan"
              /\ UNCHANGED <<snapshot, marker, pending, timers, universe, deferred,
                             bootRev>>

BuildEnds(S) == /\ phase = "reload"
                /\ S \subseteq file
                /\ loaded' = rev
                /\ outcome' = "ok"
                /\ cooled' = FALSE
                /\ phase' = "scan"

Mutant_Worth(S) == S # markets
Worth(S) == S # markets /\ TwoSided(S)

(* The same markets, or none on one side: the old ones stay.               *)
BuildIgnored(S) == /\ BuildEnds(S)
                   /\ ~Worth(S)
                   /\ UNCHANGED <<snapshot, marker, pending, tickDue, reloadDue,
                                  scanDue, universe, deferred, bootRev>>

(* Everything known of the old markets is dropped, with their receiver;    *)
(* the RPC hydrates what it can of the new ones, and those that trade are  *)
(* indexed.                                                                *)
Mutant_Reset(S) == /\ markets' = S
                   /\ hydrated' \in SUBSET S
                   /\ \E indexed \in SUBSET hydrated' : dirty' = dirty \cup Routeable(indexed)
                   /\ inbox' = {}
Reset(S) == /\ markets' = S
            /\ hydrated' \in SUBSET S
            /\ \E indexed \in SUBSET hydrated' : dirty' = Routeable(indexed)
            /\ inbox' = {}

Reload(S) == /\ BuildEnds(S)
             /\ Worth(S)
             /\ Reset(S)
             /\ scanDue' = TRUE
             /\ deferred' = FALSE
             /\ UNCHANGED <<snapshot, marker, pending, tickDue, reloadDue, bootRev>>

-----------------------------------------------------------------------------
(* The rest of the round: scan, unless the queue is long. *)

Backlog == Cardinality(inbox)

DeferredAfter == IF Backlog >= High /\ ~deferred THEN TRUE
                 ELSE IF deferred /\ Backlog <= Low THEN FALSE
                 ELSE deferred

ScanNow == Backlog < High /\ scanDue /\ dirty # {}

(* process_program_pair_tokens takes the whole set. *)
Mutant_TakeMarks == UNCHANGED dirty
TakeMarks == dirty' = {}

Scan == /\ phase = "scan"
        /\ ScanNow
        /\ TakeMarks
        /\ scanDue' = FALSE
        /\ deferred' = DeferredAfter
        /\ phase' = "select"
        /\ UNCHANGED <<snapshot, marker, pending, tickDue, reloadDue, cooled, markets,
                       hydrated, inbox, history>>

SkipScan == /\ phase = "scan"
            /\ ~ScanNow
            /\ deferred' = DeferredAfter
            /\ phase' = "select"
            /\ UNCHANGED <<snapshot, marker, pending, timers, universe, history>>

-----------------------------------------------------------------------------
Builds  == BuildFails \/ \E S \in SUBSET Markets : BuildIgnored(S) \/ Reload(S)
Elapse  == TickPasses \/ ReloadPasses \/ IntervalPasses \/ ScanTimePasses
Selects == TakeUpdates \/ TakeTick \/ TakeReloadTick

Next == \/ ReadMarker \/ WriteSnapshot \/ Elapse
        \/ Selects \/ Builds \/ Scan \/ SkipScan
        \/ \E m \in Markets : Deliver(m)

Spec == Init /\ [][Next]_vars

(* The loop is scheduled and the clock runs.  The select is biased, so     *)
(* that neither an update nor the tick is ready again and again, and that  *)
(* the backlog is found short again and again, are assumptions about the   *)
(* load.                                                                   *)
Fairness == /\ WF_vars(ReadMarker)
            /\ WF_vars(Selects) /\ WF_vars(Builds)
            /\ WF_vars(Scan \/ SkipScan)
            /\ WF_vars(TickPasses) /\ WF_vars(ReloadPasses)
            /\ WF_vars(IntervalPasses) /\ WF_vars(ScanTimePasses)
            /\ SF_vars(TakeReloadTick)
            /\ []<>(phase = "select" /\ inbox = {} /\ ~tickDue)
            /\ SF_vars(Scan)

FairSpec == Spec /\ Fairness

-----------------------------------------------------------------------------
FlagsOK == /\ pending \in BOOLEAN /\ deferred \in BOOLEAN
           /\ cooled \in BOOLEAN /\ tickDue \in BOOLEAN
           /\ reloadDue \in BOOLEAN /\ scanDue \in BOOLEAN
TypeOK == /\ file \in Snapshots
          /\ rev \in 0..MaxRev /\ marker \in 0..rev
          /\ bootRev \in 0..marker /\ loaded \in 0..rev
          /\ outcome \in {"ok", "failed"}
          /\ FlagsOK
          /\ phase \in {"boot", "select", "reload", "scan"}
          /\ markets \subseteq Markets /\ hydrated \subseteq Markets
          /\ inbox \subseteq Markets /\ dirty \subseteq Tokens

(* Nothing of the markets a reload dropped is left: no state, no queued    *)
(* update, no token to scan.                                               *)
OnlyCurrentMarkets == /\ hydrated \subseteq markets
                      /\ inbox \subseteq markets
                      /\ dirty \subseteq {TokenOf[m] : m \in markets}

(* A bad snapshot never leaves the running bot without one of its sides.   *)
StaysTwoSided == TwoSided(markets)

(* A change the marker has taken note of since the start is pending until  *)
(* a build has read a revision at least as new.                            *)
NoChangeForgotten ==
    phase # "boot" /\ loaded < marker =>
        pending \/ phase = "reload" \/ marker = bootRev

(* Every snapshot written after the first marker is read by a build, or a  *)
(* newer one is.                                                           *)
LaterChangesRead ==
    \A r \in 1..MaxRev : (rev = r /\ phase # "boot" /\ bootRev < r) ~> (loaded >= r)

(* A marked token is scanned or dropped with its market.                   *)
MarksAreScanned == \A t \in Tokens : (t \in dirty) ~> (t \notin dirty)

-----------------------------------------------------------------------------
(* What the documentation promises and the code does not keep.             *)

(* Every snapshot written after the first load is read by a build. *)
ChangesSinceLoadRead == \A r \in 1..MaxRev : (rev = r) ~> (loaded >= r)

(* After a build that failed another one is tried.                         *)
FailedBuildRepeated == (outcome = "failed") ~> (phase = "reload")

(* Once put off, scans wait for the backlog to fall to the low watermark.  *)
PausedUntilLow == [][deferred /\ Backlog > Low => ~(dirty # {} /\ dirty' = {} /\ markets' = markets)]_vars

=============================================================================
