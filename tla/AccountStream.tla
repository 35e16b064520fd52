---------------------------- MODULE AccountStream ----------------------------
(***************************************************************************)
(* One account subscription of the bot: the Yellowstone task               *)
(* (src/src/grpc/subscribe.rs), the bounded channel, the task's overflow   *)
(* buffer that keeps the newest update of an account while the channel is  *)
(* full, its reconnect loop with backoff, and the main loop's side of the  *)
(* channel (recv, drain_latest_updates, one process_account_update per     *)
(* drained update).  The two sides run on different threads, so each       *)
(* try_send and each try_recv is a step of its own.                        *)
(*                                                                         *)
(* An update is [key, ver]; ver counts the writes of the account on chain. *)
(* A message is created by the step that reads it: what waits in the       *)
(* network is a write that has not been made yet.                          *)
(***************************************************************************)
EXTENDS Naturals, Sequences, FiniteSets

CONSTANTS Accounts,      \* the subscribed accounts (account_kind_by_pubkey)
          Capacity,      \* the channel's capacity
          FlushBatch,    \* OVERFLOW_FLUSH_BATCH_SIZE
          DrainMax,      \* MAX_DRAINED_UPDATES_PER_BATCH
          BackoffInit,   \* reconnect_initial_ms
          BackoffMax,    \* reconnect_max_ms
          MaxVersion     \* bound: the versions of an account told apart

ASSUME StreamAssumption ==
    /\ IsFiniteSet(Accounts)
    /\ Capacity \in Nat \ {0}
    /\ FlushBatch \in Nat \ {0}
    /\ DrainMax \in Nat
    /\ BackoffInit \in Nat \ {0}
    /\ BackoffMax \in Nat \ {0}
    /\ MaxVersion \in Nat

VARIABLES
    chain,      \* the version of each account on chain
    task,       \* where the Yellowstone task is
    gotAny,     \* stats.received grew in the current attempt
    backoff,    \* the next sleep before a reconnect
    overflow,   \* overflow_updates: account -> newest update not yet sent
    flushKeys,  \* the keys flush_overflow_updates has still to send
    queue,      \* the channel's content
    rxOpen,     \* the main loop still holds this receiver
    reader,     \* where the main loop is
    batch,      \* latest_updates: drained and not yet processed
    drained,    \* the number of try_recv of the current drain
    applied     \* the version of each account the main loop has processed

streamVars == <<chain, task, gotAny, backoff, overflow, flushKeys>>
readerVars == <<reader, batch, drained, applied>>
vars == <<streamVars, queue, rxOpen, readerVars>>

Versions == 0..MaxVersion
Update   == [key : Accounts, ver : Versions]

AtMost(m, n) == IF m <= n THEN m ELSE n

NoOverflow == [a \in {} |-> 0]

(* The mutants of this module are plausible mistakes in the operator that  *)
(* follows them; no action uses one.                                       *)

Mutant_HasRoom == Len(queue) <= Capacity
HasRoom == Len(queue) < Capacity

(* An update goes straight to the channel only when none waits before it.  *)
Mutant_GoesStraight == TRUE
GoesStraight == DOMAIN overflow = {}

-----------------------------------------------------------------------------
Init == /\ chain = [a \in Accounts |-> 0]
        /\ task = "loop"
        /\ gotAny = FALSE
        /\ backoff = BackoffInit
        /\ overflow = NoOverflow
        /\ flushKeys = {}
        /\ queue = <<>>
        /\ rxOpen = TRUE
        /\ reader = "waiting"
        /\ batch = <<>>
        /\ drained = 0
        /\ applied = [a \in Accounts |-> 0]

-----------------------------------------------------------------------------
(* The reconnect loop, run_subscription_loop. *)

LoopTop == /\ task = "loop"
           /\ task' = IF rxOpen THEN "connecting" ELSE "stopped"
           /\ gotAny' = FALSE
           /\ UNCHANGED <<chain, backoff, overflow, flushKeys, queue, rxOpen,
                          readerVars>>

(* subscribe_once returned, with Ok or Err: its overflow buffer is a local *)
(* and goes with it.                                                       *)
Mutant_EndAttempt_Ends ==
    /\ task' = "stopped"
    /\ overflow' = NoOverflow
    /\ flushKeys' = {}
    /\ UNCHANGED <<backoff, gotAny>>
Mutant_EndAttempt_KeepsBackoff ==
    /\ task' = IF rxOpen THEN "sleeping" ELSE "stopped"
    /\ overflow' = NoOverflow
    /\ flushKeys' = {}
    /\ UNCHANGED <<backoff, gotAny>>
EndAttempt ==
    /\ IF rxOpen
         THEN /\ task' = "sleeping"
              /\ backoff' = IF gotAny THEN BackoffInit ELSE backoff
         ELSE /\ task' = "stopped"
              /\ UNCHANGED backoff
    /\ overflow' = NoOverflow
    /\ flushKeys' = {}
    /\ UNCHANGED gotAny

ConnectFails == /\ task = "connecting"
                /\ EndAttempt
                /\ UNCHANGED <<chain, queue, rxOpen, readerVars>>

Connect == /\ task = "connecting"
           /\ task' = "reading"
           /\ UNCHANGED <<chain, gotAny, backoff, overflow, flushKeys, queue,
                          rxOpen, readerVars>>

(* The stream ends, reports an error, or is silent for idle_timeout. *)
StreamLost == /\ task = "reading"
              /\ EndAttempt
              /\ UNCHANGED <<chain, queue, rxOpen, readerVars>>

Wake == /\ task = "sleeping"
        /\ task' = "loop"
        /\ backoff' = AtMost(2 * backoff, BackoffMax)
        /\ UNCHANGED <<chain, gotAny, overflow, flushKeys, queue, rxOpen,
                       readerVars>>

-----------------------------------------------------------------------------
(* The message loop, subscribe_once. *)

(* The top of the loop with overflow buffer ovf: flush_overflow_updates    *)
(* takes at most FlushBatch of its keys, in the order of a hash map.       *)
LoopAgain(ovf) ==
    /\ overflow' = ovf
    /\ IF DOMAIN ovf = {}
         THEN task' = "reading" /\ flushKeys' = {}
         ELSE /\ task' = "flushing"
              /\ flushKeys' \in
                   {K \in SUBSET DOMAIN ovf :
                      Cardinality(K) = AtMost(FlushBatch, Cardinality(DOMAIN ovf))}

(* The version after a write. Writes go on beyond the bound, where their   *)
(* versions are no longer told apart: the load of a stream need not end.   *)
Written(a) == AtMost(chain[a] + 1, MaxVersion)

(* A write is read from the stream. *)
Receive(a) == /\ task = "reading"
              /\ chain' = [chain EXCEPT ![a] = Written(a)]
              /\ gotAny' = TRUE

ReadSend(a) ==
    /\ Receive(a)
    /\ rxOpen /\ GoesStraight /\ HasRoom
    /\ queue' = Append(queue, [key |-> a, ver |-> Written(a)])
    /\ UNCHANGED <<task, backoff, overflow, flushKeys, rxOpen, readerVars>>

ReadBuffer(a) ==
    /\ Receive(a)
    /\ ~GoesStraight \/ (rxOpen /\ ~HasRoom)
    /\ LoopAgain([k \in DOMAIN overflow \cup {a} |->
                     IF k = a THEN Written(a) ELSE overflow[k]])
    /\ UNCHANGED <<backoff, queue, rxOpen, readerVars>>

ReadClosed(a) ==
    /\ Receive(a)
    /\ ~rxOpen /\ GoesStraight
    /\ task' = "stopped"
    /\ UNCHANGED <<backoff, overflow, flushKeys, queue, rxOpen, readerVars>>

(* A ping, or another message without an account: back to the flush. *)
Mutant_ReadPing == task = "reading" /\ UNCHANGED vars
ReadPing == /\ task = "reading"
            /\ LoopAgain(overflow)
            /\ UNCHANGED <<chain, gotAny, backoff, queue, rxOpen, readerVars>>

(* An account nobody subscribed to: counted as received, then ignored. *)
ReadForeign == /\ task = "reading"
               /\ gotAny' = TRUE
               /\ LoopAgain(overflow)
               /\ UNCHANGED <<chain, backoff, queue, rxOpen, readerVars>>

(* A write while no stream is up: nothing is replayed on reconnect. *)
WriteUnseen(a) == /\ task \notin {"reading", "flushing"}
                  /\ chain[a] < MaxVersion
                  /\ chain' = [chain EXCEPT ![a] = @ + 1]
                  /\ UNCHANGED <<task, gotAny, backoff, overflow, flushKeys, queue,
                                 rxOpen, readerVars>>

-----------------------------------------------------------------------------
(* flush_overflow_updates: one try_send. *)

Flush(k) ==
    /\ task = "flushing" /\ k \in flushKeys
    /\ rxOpen /\ HasRoom
    /\ queue' = Append(queue, [key |-> k, ver |-> overflow[k]])
    /\ overflow' = [a \in DOMAIN overflow \ {k} |-> overflow[a]]
    /\ flushKeys' = flushKeys \ {k}
    /\ task' = IF flushKeys' = {} THEN "reading" ELSE "flushing"
    /\ UNCHANGED <<chain, gotAny, backoff, rxOpen, readerVars>>

(* The channel is full: the update goes back, the rest of the batch waits. *)
Mutant_FlushFull ==
    /\ task = "flushing"
    /\ rxOpen /\ ~HasRoom
    /\ task' = "reading"
    /\ \E k \in flushKeys :
          overflow' = [a \in DOMAIN overflow \ {k} |-> overflow[a]]
    /\ flushKeys' = {}
    /\ UNCHANGED <<chain, gotAny, backoff, queue, rxOpen, readerVars>>
FlushFull ==
    /\ task = "flushing"
    /\ rxOpen /\ ~HasRoom
    /\ task' = "reading"
    /\ flushKeys' = {}
    /\ UNCHANGED <<chain, gotAny, backoff, overflow, queue, rxOpen, readerVars>>

Mutant_FlushClosed ==
    /\ task = "flushing"
    /\ ~rxOpen
    /\ task' = "reading"
    /\ flushKeys' = {}
    /\ UNCHANGED <<chain, gotAny, backoff, overflow, queue, rxOpen, readerVars>>
FlushClosed ==
    /\ task = "flushing"
    /\ ~rxOpen
    /\ EndAttempt
    /\ UNCHANGED <<chain, queue, rxOpen, readerVars>>

-----------------------------------------------------------------------------
(* The main loop: recv, drain_latest_updates, process_account_update. *)

(* latest_updates with u in the place of an earlier update of its account. *)
Coalesce(b, u) ==
    IF \E i \in DOMAIN b : b[i].key = u.key
      THEN [i \in DOMAIN b |-> IF b[i].key = u.key THEN u ELSE b[i]]
      ELSE Append(b, u)

Recv == /\ reader = "waiting" /\ queue # <<>>
        /\ batch' = <<Head(queue)>>
        /\ queue' = Tail(queue)
        /\ drained' = 0
        /\ reader' = "draining"
        /\ UNCHANGED <<streamVars, rxOpen, applied>>

TryRecv == /\ reader = "draining" /\ queue # <<>> /\ drained < DrainMax
           /\ batch' = Coalesce(batch, Head(queue))
           /\ queue' = Tail(queue)
           /\ drained' = drained + 1
           /\ UNCHANGED <<streamVars, rxOpen, reader, applied>>

DrainDone == /\ reader = "draining" /\ (queue = <<>> \/ drained = DrainMax)
             /\ reader' = "applying"
             /\ UNCHANGED <<streamVars, queue, rxOpen, batch, drained, applied>>

(* process_account_update compares no slots: the update replaces the state. *)
Apply == /\ reader = "applying" /\ batch # <<>>
         /\ applied' = [applied EXCEPT ![Head(batch).key] = Head(batch).ver]
         /\ batch' = Tail(batch)
         /\ reader' = IF Len(batch) = 1 THEN "waiting" ELSE "applying"
         /\ UNCHANGED <<streamVars, queue, rxOpen, drained>>

(* A market reload replaces the receiver and drops this one. *)
CloseReceiver ==
    /\ reader = "waiting" /\ rxOpen
    /\ rxOpen' = FALSE
    /\ queue' = <<>>
    /\ reader' = "gone"
    /\ UNCHANGED <<streamVars, batch, drained, applied>>

-----------------------------------------------------------------------------
Attempt == LoopTop \/ ConnectFails \/ Connect \/ StreamLost \/ Wake
Read    == ReadPing \/ ReadForeign
              \/ \E a \in Accounts : ReadSend(a) \/ ReadBuffer(a) \/ ReadClosed(a)
Flushes == FlushFull \/ FlushClosed \/ \E k \in Accounts : Flush(k)
Reads   == Recv \/ TryRecv \/ DrainDone \/ Apply

Next == \/ Attempt \/ Read \/ Flushes \/ Reads \/ CloseReceiver
        \/ \E a \in Accounts : WriteUnseen(a)

Spec == Init /\ [][Next]_vars

(* The task and the main loop are scheduled, and the server keeps the      *)
(* stream alive with pings; nothing else is promised of the server.        *)
Fairness == /\ WF_vars(Flushes)
            /\ WF_vars(Reads)
            /\ WF_vars(ReadPing)
            /\ WF_vars(LoopTop) /\ WF_vars(Wake)
            /\ WF_vars(ConnectFails \/ Connect)

FairSpec == Spec /\ Fairness

-----------------------------------------------------------------------------
TypeOK ==
    /\ chain \in [Accounts -> Versions]
    /\ applied \in [Accounts -> Versions]
    /\ task \in {"loop", "connecting", "reading", "flushing", "sleeping", "stopped"}
    /\ reader \in {"waiting", "draining", "applying", "gone"}
    /\ gotAny \in BOOLEAN /\ rxOpen \in BOOLEAN
    /\ backoff \in Nat \ {0}
    /\ DOMAIN overflow \subseteq Accounts
    /\ overflow \in [DOMAIN overflow -> Versions]
    /\ flushKeys \subseteq DOMAIN overflow
    /\ queue \in Seq(Update) /\ Len(queue) <= Capacity
    /\ batch \in Seq(Update)
    /\ drained \in 0..DrainMax

(* Along the way from the chain to the main loop the versions of an        *)
(* account never go back: what is applied is no newer than what is         *)
(* drained, that no newer than what is queued, and so on up to the chain.  *)
(* A batch holds an account once (drain_latest_updates, positions).        *)
OneUpdatePerAccount ==
    \A i, j \in DOMAIN batch : batch[i].key = batch[j].key => i = j
AppliedBeforeBatch ==
    \A i \in DOMAIN batch : applied[batch[i].key] <= batch[i].ver
AppliedBeforeQueue ==
    \A i \in DOMAIN queue : applied[queue[i].key] <= queue[i].ver
BatchBeforeQueue ==
    \A i \in DOMAIN batch, j \in DOMAIN queue :
        batch[i].key = queue[j].key => batch[i].ver <= queue[j].ver
QueueSorted ==
    \A i, j \in DOMAIN queue :
        i < j /\ queue[i].key = queue[j].key => queue[i].ver <= queue[j].ver
AllBeforeOverflow ==
    \A a \in DOMAIN overflow :
        /\ applied[a] <= overflow[a]
        /\ \A i \in DOMAIN batch : batch[i].key = a => batch[i].ver <= overflow[a]
        /\ \A i \in DOMAIN queue : queue[i].key = a => queue[i].ver <= overflow[a]
AllBeforeChain ==
    /\ \A a \in Accounts : applied[a] <= chain[a]
    /\ \A i \in DOMAIN batch : batch[i].ver <= chain[batch[i].key]
    /\ \A i \in DOMAIN queue : queue[i].ver <= chain[queue[i].key]
    /\ \A a \in DOMAIN overflow : overflow[a] <= chain[a]

InOrder == /\ OneUpdatePerAccount /\ AppliedBeforeBatch /\ AppliedBeforeQueue
           /\ BatchBeforeQueue /\ QueueSorted /\ AllBeforeOverflow /\ AllBeforeChain

(* The main loop never replaces an account's state by an older one,        *)
(* though process_account_update compares no slots and the overflow buffer *)
(* is flushed in the order of a hash map.                                  *)
NeverBack == [][\A a \in Accounts : applied[a] <= applied'[a]]_vars

(* The versions of account a that are held somewhere, and the newest.      *)
Held(a) == {applied[a]}
             \cup {overflow[k] : k \in DOMAIN overflow \cap {a}}
             \cup {queue[i].ver : i \in {j \in DOMAIN queue : queue[j].key = a}}
             \cup {batch[i].ver : i \in {j \in DOMAIN batch : batch[j].key = a}}
Newest(a) == CHOOSE v \in Held(a) : \A w \in Held(a) : w <= v

(* While a stream is up and its receiver in use, an update that was read   *)
(* is kept until it is applied or a newer one of its account replaces it:  *)
(* a full channel loses nothing.                                           *)
Up == task \in {"reading", "flushing"} /\ rxOpen
NothingLostWhileUp ==
    [][ Up /\ Up' => \A a \in Accounts :
            /\ Newest(a) <= Newest(a)'
            /\ chain'[a] # chain[a] => Newest(a)' = chain'[a] ]_vars

(* The subscription is a mailbox of latest versions: only the end of a     *)
(* stream or of the receiver makes it forget.                              *)
Mailbox == INSTANCE LatestMailbox WITH box <- [a \in Accounts |-> Newest(a)]
IsMailbox == Mailbox!Spec

(* The task ends only after its receiver is gone: rx.recv() in the main    *)
(* loop never yields None.                                                 *)
TaskOutlivesReceiver == task = "stopped" => ~rxOpen

(* A stream that carried traffic is reconnected after the initial delay,   *)
(* whatever the delays of the failures before it.                          *)
FreshBackoffAfterTraffic == task = "sleeping" /\ gotAny => backoff = BackoffInit

(* An update that waits in the overflow buffer is applied, or replaced by  *)
(* a newer one that is, unless its stream or its receiver ends first.      *)
BufferedArrives(a) ==
    \A v \in Versions :
        (a \in DOMAIN overflow /\ overflow[a] = v) ~> (applied[a] >= v \/ ~Up)
BufferedAlways == \A a \in Accounts : BufferedArrives(a)

(* The code keeps that promise under any load of the account itself, and   *)
(* once others leave the buffer alone.  As long as they come into it again *)
(* and again it does not (BufferedAlways fails): a flush takes some of the *)
(* keys, and not those that have waited longest.                           *)
BufferedReachesReader ==
    \A a \in Accounts :
        \/ BufferedArrives(a)
        \/ []<><<\E b \in Accounts \ {a} : ReadBuffer(b)>>_vars

(* A task whose receiver is gone and which still reads updates stops.      *)
BufferedTaskStops == (~rxOpen /\ task = "flushing") ~> (task = "stopped")

(* A dropped receiver ends its subscription. *)
DroppedReceiverStopsTask == ~rxOpen ~> (task = "stopped")

=============================================================================
