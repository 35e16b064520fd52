------------------------- MODULE AccountStreamProofs -------------------------
(* Proofs about AccountStream for any set of accounts, capacity, batch     *)
(* sizes and number of writes.                                             *)
EXTENDS AccountStream, WellFoundedInduction, TLAPS

-----------------------------------------------------------------------------
(* Sequences. *)

(* The empty sequence, as the channel starts and as a dropped one ends.    *)
LEMMA EmptyFacts ==
  ASSUME NEW S
  PROVE  << >> \in Seq(S) /\ Len(<< >>) = 0 /\ DOMAIN << >> = {}
  OBVIOUS

(* What Append does to length and elements. *)
LEMMA AppendFacts ==
  ASSUME NEW S, NEW s \in Seq(S), NEW e \in S
  PROVE  /\ Append(s, e) \in Seq(S)
         /\ Len(Append(s, e)) = Len(s) + 1
         /\ DOMAIN Append(s, e) = 1..(Len(s) + 1)
         /\ DOMAIN s = 1..Len(s)
         /\ \A i \in DOMAIN s : Append(s, e)[i] = s[i]
         /\ Append(s, e)[Len(s) + 1] = e
         /\ \A i \in DOMAIN Append(s, e) :
               (i \in DOMAIN s /\ Append(s, e)[i] = s[i])
                 \/ (i = Len(s) + 1 /\ Append(s, e)[i] = e)
  OBVIOUS

(* What Head and Tail do to a sequence that is not empty. *)
LEMMA TailFacts ==
  ASSUME NEW S, NEW s \in Seq(S), s # <<>>
  PROVE  /\ Tail(s) \in Seq(S)
         /\ Len(s) \in Nat \ {0}
         /\ Len(Tail(s)) = Len(s) - 1
         /\ DOMAIN s = 1..Len(s)
         /\ DOMAIN Tail(s) = 1..(Len(s) - 1)
         /\ 1 \in DOMAIN s
         /\ Head(s) = s[1] /\ Head(s) \in S
         /\ \A i \in DOMAIN Tail(s) : i + 1 \in DOMAIN s /\ Tail(s)[i] = s[i + 1]
  OBVIOUS

(* drain_latest_updates keeps one update of an account, the last one.      *)
LEMMA CoalesceFacts ==
  ASSUME NEW b \in Seq(Update), NEW u \in Update,
         \A i, j \in DOMAIN b : b[i].key = b[j].key => i = j
  PROVE  /\ Coalesce(b, u) \in Seq(Update)
         /\ \A i \in DOMAIN Coalesce(b, u) :
               \/ Coalesce(b, u)[i] = u
               \/ i \in DOMAIN b /\ Coalesce(b, u)[i] = b[i] /\ b[i].key # u.key
         /\ \A i, j \in DOMAIN Coalesce(b, u) :
               Coalesce(b, u)[i].key = Coalesce(b, u)[j].key => i = j
<1>1. CASE \E i \in DOMAIN b : b[i].key = u.key
  <2>1. Coalesce(b, u) = [i \in DOMAIN b |-> IF b[i].key = u.key THEN u ELSE b[i]]
    BY <1>1 DEF Coalesce
  <2>2. DOMAIN b = 1..Len(b) /\ Len(b) \in Nat /\ \A i \in DOMAIN b : b[i] \in Update
    OBVIOUS
  <2>3. Coalesce(b, u) \in [1..Len(b) -> Update]
    BY <2>1, <2>2
  <2>4. Coalesce(b, u) \in Seq(Update)
    BY <2>2, <2>3
  <2>5. DOMAIN Coalesce(b, u) = DOMAIN b
    BY <2>1
  <2>6. \A i \in DOMAIN b : Coalesce(b, u)[i] = IF b[i].key = u.key THEN u ELSE b[i]
    BY <2>1
  <2>7. \A i \in DOMAIN b : Coalesce(b, u)[i].key = b[i].key
    BY <2>6
  <2> QED
    BY <2>4, <2>5, <2>6, <2>7
<1>2. CASE ~ \E i \in DOMAIN b : b[i].key = u.key
  <2>1. Coalesce(b, u) = Append(b, u)
    BY <1>2 DEF Coalesce
  <2>2. \A i \in DOMAIN b : b[i].key # u.key
    BY <1>2
  <2> QED
    BY <2>1, <2>2, AppendFacts
<1> QED
  BY <1>1, <1>2

-----------------------------------------------------------------------------
(* The shape of the state. *)

(* A write makes no account's version older. *)
LEMMA WrittenFacts ==
  ASSUME TypeOK, NEW a \in Accounts
  PROVE  /\ chain[a] \in Nat /\ Written(a) \in Nat /\ Written(a) \in Versions
         /\ chain[a] <= Written(a)
  BY StreamAssumption DEF TypeOK, Versions, Written, AtMost

(* What the top of the message loop leaves behind is well formed. *)
LEMMA LoopAgainFacts ==
  ASSUME NEW ovf, DOMAIN ovf \subseteq Accounts,
         ovf \in [DOMAIN ovf -> Versions], LoopAgain(ovf)
  PROVE  /\ overflow' = ovf
         /\ DOMAIN overflow' \subseteq Accounts
         /\ overflow' \in [DOMAIN overflow' -> Versions]
         /\ flushKeys' \subseteq DOMAIN overflow'
         /\ task' \in {"reading", "flushing"}
  BY DEF LoopAgain

(* The end of an attempt leaves no overflow. *)
LEMMA EndAttemptFacts ==
  ASSUME TypeOK, EndAttempt
  PROVE  /\ overflow' = NoOverflow
         /\ DOMAIN overflow' = {}
         /\ overflow' \in [DOMAIN overflow' -> Versions]
         /\ flushKeys' = {}
         /\ task' \in {"sleeping", "stopped"}
         /\ backoff' \in Nat \ {0}
         /\ gotAny' = gotAny
  BY StreamAssumption DEF EndAttempt, NoOverflow, TypeOK

(* Type correctness of the whole subscription: the queue stays within the  *)
(* channel's capacity and the overflow buffer within the subscribed        *)
(* accounts, whatever the interleaving.                                    *)
THEOREM TypeCorrect == Spec => []TypeOK
<1>1. Init => TypeOK
  <2> SUFFICES ASSUME Init PROVE TypeOK
    OBVIOUS
  <2>1. 0 \in Versions /\ 0 \in 0..DrainMax
    BY StreamAssumption DEF Versions
  <2>2. /\ DOMAIN overflow = {} /\ overflow \in [DOMAIN overflow -> Versions]
        /\ flushKeys \subseteq DOMAIN overflow
    BY DEF Init, NoOverflow
  <2>3. /\ queue \in Seq(Update) /\ Len(queue) <= Capacity
        /\ batch \in Seq(Update)
    BY StreamAssumption, EmptyFacts DEF Init
  <2> QED
    BY <2>1, <2>2, <2>3, StreamAssumption DEF Init, TypeOK
<1>2. TypeOK /\ [Next]_vars => TypeOK'
  <2> SUFFICES ASSUME TypeOK, [Next]_vars PROVE TypeOK'
    OBVIOUS
  <2> USE StreamAssumption
  <2>1. CASE LoopTop
    BY <2>1 DEF LoopTop, TypeOK, readerVars
  <2>2. CASE ConnectFails
    BY <2>2, EndAttemptFacts DEF ConnectFails, TypeOK, readerVars
  <2>3. CASE Connect
    BY <2>3 DEF Connect, TypeOK, readerVars
  <2>4. CASE StreamLost
    BY <2>4, EndAttemptFacts DEF StreamLost, TypeOK, readerVars
  <2>5. CASE Wake
    BY <2>5 DEF Wake, TypeOK, AtMost, readerVars
  <2>6. CASE ReadPing
    BY <2>6, LoopAgainFacts DEF ReadPing, TypeOK, readerVars
  <2>7. CASE ReadForeign
    BY <2>7, LoopAgainFacts DEF ReadForeign, TypeOK, readerVars
  <2>8. ASSUME NEW a \in Accounts, ReadSend(a) PROVE TypeOK'
    <3>1. Written(a) \in Versions /\ chain' \in [Accounts -> Versions]
      BY <2>8, WrittenFacts DEF ReadSend, Receive, TypeOK
    <3>2. queue' \in Seq(Update) /\ Len(queue') <= Capacity
      BY <2>8, <3>1, AppendFacts DEF ReadSend, HasRoom, TypeOK, Update
    <3> QED
      BY <2>8, <3>1, <3>2 DEF ReadSend, Receive, TypeOK, readerVars
  <2>9. ASSUME NEW a \in Accounts, ReadBuffer(a) PROVE TypeOK'
    <3>1. Written(a) \in Versions /\ chain' \in [Accounts -> Versions]
      BY <2>9, WrittenFacts DEF ReadBuffer, Receive, TypeOK
    <3> DEFINE ovf == [k \in DOMAIN overflow \cup {a} |->
                          IF k = a THEN Written(a) ELSE overflow[k]]
    <3>2. DOMAIN ovf \subseteq Accounts /\ ovf \in [DOMAIN ovf -> Versions]
      BY <3>1 DEF TypeOK
    <3>3. LoopAgain(ovf)
      BY <2>9 DEF ReadBuffer
    <3>4. /\ DOMAIN overflow' \subseteq Accounts
          /\ overflow' \in [DOMAIN overflow' -> Versions]
          /\ flushKeys' \subseteq DOMAIN overflow'
          /\ task' \in {"reading", "flushing"}
      <4> HIDE DEF ovf
      <4> QED BY <3>2, <3>3, LoopAgainFacts
    <3> QED
      BY <2>9, <3>1, <3>4 DEF ReadBuffer, Receive, TypeOK, readerVars
  <2>10. ASSUME NEW a \in Accounts, ReadClosed(a) PROVE TypeOK'
    <3>1. chain' \in [Accounts -> Versions]
      BY <2>10, WrittenFacts DEF ReadClosed, Receive, TypeOK
    <3> QED
      BY <2>10, <3>1 DEF ReadClosed, Receive, TypeOK, readerVars
  <2>11. ASSUME NEW a \in Accounts, WriteUnseen(a) PROVE TypeOK'
    BY <2>11 DEF WriteUnseen, TypeOK, Versions, readerVars
  <2>12. ASSUME NEW k \in Accounts, Flush(k) PROVE TypeOK'
    <3>1. k \in DOMAIN overflow /\ overflow[k] \in Versions
      BY <2>12 DEF Flush, TypeOK
    <3>2. queue' \in Seq(Update) /\ Len(queue') <= Capacity
      BY <2>12, <3>1, AppendFacts DEF Flush, HasRoom, TypeOK, Update
    <3>3. /\ DOMAIN overflow' \subseteq Accounts
          /\ overflow' \in [DOMAIN overflow' -> Versions]
          /\ flushKeys' \subseteq DOMAIN overflow'
      BY <2>12 DEF Flush, TypeOK
    <3> QED
      BY <2>12, <3>2, <3>3 DEF Flush, TypeOK, readerVars
  <2>13. CASE FlushFull
    BY <2>13 DEF FlushFull, TypeOK, readerVars
  <2>14. CASE FlushClosed
    BY <2>14, EndAttemptFacts DEF FlushClosed, TypeOK, readerVars
  <2>15. CASE Recv
    <3>1. queue' \in Seq(Update) /\ Len(queue') <= Capacity /\ Head(queue) \in Update
      BY <2>15, TailFacts DEF Recv, TypeOK
    <3> QED
      BY <2>15, <3>1 DEF Recv, TypeOK, streamVars
  <2>16. CASE TryRecv
    <3>1. queue' \in Seq(Update) /\ Len(queue') <= Capacity /\ Head(queue) \in Update
      BY <2>16, TailFacts DEF TryRecv, TypeOK
    <3>2. batch' \in Seq(Update)
      <4>1. CASE \E i \in DOMAIN batch : batch[i].key = Head(queue).key
        <5>1. batch' = [i \in DOMAIN batch |->
                          IF batch[i].key = Head(queue).key THEN Head(queue) ELSE batch[i]]
          BY <2>16, <4>1 DEF TryRecv, Coalesce
        <5>2. DOMAIN batch = 1..Len(batch) /\ Len(batch) \in Nat
              /\ \A i \in DOMAIN batch : batch[i] \in Update
          BY DEF TypeOK
        <5>3. batch' \in [1..Len(batch) -> Update]
          BY <5>1, <5>2, <3>1
        <5> QED BY <5>2, <5>3
      <4>2. CASE ~ \E i \in DOMAIN batch : batch[i].key = Head(queue).key
        BY <2>16, <4>2, <3>1, AppendFacts DEF TryRecv, Coalesce, TypeOK
      <4> QED BY <4>1, <4>2
    <3>3. drained' \in 0..DrainMax /\ UNCHANGED <<streamVars, rxOpen, reader, applied>>
      BY <2>16, StreamAssumption DEF TryRecv, TypeOK
    <3> QED
      BY <3>1, <3>2, <3>3 DEF TypeOK, streamVars
  <2>17. CASE DrainDone
    BY <2>17 DEF DrainDone, TypeOK, streamVars
  <2>18. CASE Apply
    <3>1. batch' \in Seq(Update) /\ Head(batch) \in Update
      BY <2>18, TailFacts DEF Apply, TypeOK
    <3> QED
      BY <2>18, <3>1 DEF Apply, TypeOK, Update, streamVars
  <2>19. CASE CloseReceiver
    <3>1. queue' \in Seq(Update) /\ Len(queue') <= Capacity
      BY <2>19, EmptyFacts DEF CloseReceiver
    <3> QED
      BY <2>19, <3>1 DEF CloseReceiver, TypeOK, streamVars
  <2>20. CASE UNCHANGED vars
    BY <2>20 DEF TypeOK, vars, streamVars, readerVars
  <2> QED
    BY <2>1, <2>2, <2>3, <2>4, <2>5, <2>6, <2>7, <2>8, <2>9, <2>10, <2>11, <2>12,
       <2>13, <2>14, <2>15, <2>16, <2>17, <2>18, <2>19, <2>20
       DEF Next, Attempt, Read, Flushes, Reads
<1> QED
  BY <1>1, <1>2, PTL DEF Spec

-----------------------------------------------------------------------------
(* The order of versions. *)

(* The accounts and versions of the updates on their way. *)
LEMMA HeldTypes ==
  ASSUME TypeOK
  PROVE  /\ \A i \in DOMAIN batch : batch[i].key \in Accounts /\ batch[i].ver \in Nat
         /\ \A i \in DOMAIN queue : queue[i].key \in Accounts /\ queue[i].ver \in Nat
         /\ \A a \in DOMAIN overflow : a \in Accounts /\ overflow[a] \in Nat
<1>1. /\ \A i \in DOMAIN batch : batch[i] \in Update
      /\ \A i \in DOMAIN queue : queue[i] \in Update
  BY DEF TypeOK
<1>2. \A u \in Update : u.key \in Accounts /\ u.ver \in Nat
  BY StreamAssumption DEF Update, Versions
<1>3. \A a \in DOMAIN overflow : a \in Accounts /\ overflow[a] \in Nat
  BY StreamAssumption DEF TypeOK, Versions
<1> QED
  BY <1>1, <1>2, <1>3

(* A step that moves no update keeps the order, even if the chain moves on *)
(* or the overflow buffer is thrown away.                                  *)
LEMMA FrameKeepsOrder ==
  ASSUME TypeOK, TypeOK', InOrder,
         UNCHANGED <<queue, batch, applied>>,
         \A a \in Accounts : chain[a] <= chain'[a],
         overflow' = overflow \/ DOMAIN overflow' = {}
  PROVE  InOrder'
<1>1. /\ OneUpdatePerAccount' /\ AppliedBeforeBatch' /\ AppliedBeforeQueue'
      /\ BatchBeforeQueue' /\ QueueSorted'
  BY DEF InOrder, OneUpdatePerAccount, AppliedBeforeBatch, AppliedBeforeQueue,
         BatchBeforeQueue, QueueSorted
<1>2. AllBeforeOverflow'
  BY DEF InOrder, AllBeforeOverflow
<1>3. \A i \in DOMAIN batch : batch[i].key \in Accounts /\ batch[i].ver \in Nat
  BY HeldTypes
<1>4. \A i \in DOMAIN queue : queue[i].key \in Accounts /\ queue[i].ver \in Nat
  BY HeldTypes
<1>5. \A a \in Accounts : chain[a] \in Nat /\ chain'[a] \in Nat /\ applied[a] \in Nat
  BY StreamAssumption DEF TypeOK, Versions
<1>6. \A a \in DOMAIN overflow : a \in Accounts /\ overflow[a] \in Nat
  BY StreamAssumption DEF TypeOK, Versions
<1>7. AllBeforeChain'
  BY <1>3, <1>4, <1>5, <1>6 DEF InOrder, AllBeforeChain
<1> QED
  BY <1>1, <1>2, <1>7 DEF InOrder

(* An update at least as new as every held one of its account goes to the  *)
(* end of the queue, by a first try_send or by a flush.                    *)
LEMMA AppendKeepsOrder ==
  ASSUME TypeOK, TypeOK', InOrder,
         NEW u \in Update,
         queue' = Append(queue, u),
         UNCHANGED <<batch, applied>>,
         \A a \in Accounts : chain[a] <= chain'[a],
         u.ver <= chain'[u.key],
         applied[u.key] <= u.ver,
         \A i \in DOMAIN batch : batch[i].key = u.key => batch[i].ver <= u.ver,
         \A i \in DOMAIN queue : queue[i].key = u.key => queue[i].ver <= u.ver,
         DOMAIN overflow' \subseteq DOMAIN overflow \ {u.key},
         \A a \in DOMAIN overflow' : overflow'[a] = overflow[a]
  PROVE  InOrder'
<1>0. /\ \A i \in DOMAIN queue' : (i \in DOMAIN queue /\ queue'[i] = queue[i])
                                      \/ (i = Len(queue) + 1 /\ queue'[i] = u)
      /\ DOMAIN queue = 1..Len(queue) /\ Len(queue) \in Nat
  BY AppendFacts DEF TypeOK
<1>1. OneUpdatePerAccount' /\ AppliedBeforeBatch'
  BY DEF InOrder, OneUpdatePerAccount, AppliedBeforeBatch
<1>2. AppliedBeforeQueue'
  BY <1>0 DEF InOrder, AppliedBeforeQueue
<1>3. BatchBeforeQueue'
  BY <1>0 DEF InOrder, BatchBeforeQueue
<1>4. QueueSorted'
  <2> SUFFICES ASSUME NEW i \in DOMAIN queue', NEW j \in DOMAIN queue',
                      i < j, queue'[i].key = queue'[j].key
               PROVE  queue'[i].ver <= queue'[j].ver
    BY DEF QueueSorted
  <2>1. i \in DOMAIN queue /\ queue'[i] = queue[i]
    <3>1. i \in Nat /\ j \in Nat /\ j <= Len(queue) + 1
      BY <1>0
    <3> QED BY <1>0, <3>1
  <2>2. CASE j \in DOMAIN queue /\ queue'[j] = queue[j]
    BY <2>1, <2>2 DEF InOrder, QueueSorted
  <2>3. CASE j = Len(queue) + 1 /\ queue'[j] = u
    BY <2>1, <2>3
  <2> QED BY <1>0, <2>2, <2>3
<1>5. AllBeforeOverflow'
  <2> SUFFICES ASSUME NEW a \in DOMAIN overflow'
               PROVE  /\ applied'[a] <= overflow'[a]
                      /\ \A i \in DOMAIN batch' : batch'[i].key = a => batch'[i].ver <= overflow'[a]
                      /\ \A i \in DOMAIN queue' : queue'[i].key = a => queue'[i].ver <= overflow'[a]
    BY DEF AllBeforeOverflow
  <2>1. a \in DOMAIN overflow /\ a # u.key /\ overflow'[a] = overflow[a]
    OBVIOUS
  <2> QED BY <1>0, <2>1 DEF InOrder, AllBeforeOverflow
<1>6. \A i \in DOMAIN batch : batch[i].key \in Accounts /\ batch[i].ver \in Nat
  BY HeldTypes
<1>7. \A i \in DOMAIN queue : queue[i].key \in Accounts /\ queue[i].ver \in Nat
  BY HeldTypes
<1>8. \A a \in Accounts : chain[a] \in Nat /\ chain'[a] \in Nat /\ applied[a] \in Nat
  BY StreamAssumption DEF TypeOK, Versions
<1>9. \A a \in DOMAIN overflow : a \in Accounts /\ overflow[a] \in Nat
  BY StreamAssumption DEF TypeOK, Versions
<1>10. AllBeforeChain'
  <2>1. \A a \in Accounts : applied'[a] <= chain'[a]
    BY <1>8 DEF InOrder, AllBeforeChain
  <2>2. \A i \in DOMAIN batch' : batch'[i].ver <= chain'[batch'[i].key]
    BY <1>6, <1>8 DEF InOrder, AllBeforeChain
  <2>3. \A i \in DOMAIN queue' : queue'[i].ver <= chain'[queue'[i].key]
    BY <1>0, <1>7, <1>8 DEF InOrder, AllBeforeChain
  <2>4. \A a \in DOMAIN overflow' : overflow'[a] <= chain'[a]
    BY <1>8, <1>9 DEF InOrder, AllBeforeChain
  <2> QED BY <2>1, <2>2, <2>3, <2>4 DEF AllBeforeChain
<1> QED
  BY <1>1, <1>2, <1>3, <1>4, <1>5, <1>10 DEF InOrder

(* A new version of a goes to the overflow buffer, in place of an older one. *)
LEMMA BufferKeepsOrder ==
  ASSUME TypeOK, TypeOK', InOrder, NEW a \in Accounts, ReadBuffer(a)
  PROVE  InOrder'
<1>1. /\ UNCHANGED <<queue, batch, applied>>
      /\ chain' = [chain EXCEPT ![a] = Written(a)]
      /\ overflow' = [k \in DOMAIN overflow \cup {a} |->
                         IF k = a THEN Written(a) ELSE overflow[k]]
  BY DEF ReadBuffer, Receive, LoopAgain, readerVars
<1>2. /\ OneUpdatePerAccount' /\ AppliedBeforeBatch' /\ AppliedBeforeQueue'
      /\ BatchBeforeQueue' /\ QueueSorted'
  <2>0. UNCHANGED <<queue, batch, applied>>
    BY <1>1
  <2>1. OneUpdatePerAccount' /\ AppliedBeforeBatch'
    BY <2>0 DEF InOrder, OneUpdatePerAccount, AppliedBeforeBatch
  <2>2. AppliedBeforeQueue' /\ BatchBeforeQueue'
    BY <2>0 DEF InOrder, AppliedBeforeQueue, BatchBeforeQueue
  <2>3. QueueSorted'
    BY <2>0 DEF InOrder, QueueSorted
  <2> QED
    BY <2>1, <2>2, <2>3
<1>3. \A k \in Accounts : chain[k] \in Nat /\ applied[k] \in Nat
                            /\ chain'[k] = (IF k = a THEN Written(a) ELSE chain[k])
                            /\ chain'[k] \in Nat /\ chain[k] <= chain'[k]
  <2>1. chain \in [Accounts -> Versions] /\ applied \in [Accounts -> Versions]
        /\ Versions \subseteq Nat
    BY StreamAssumption DEF TypeOK, Versions
  <2>2. Written(a) \in Nat /\ chain[a] <= Written(a)
    BY WrittenFacts
  <2>3. ASSUME NEW k \in Accounts PROVE chain'[k] = (IF k = a THEN Written(a) ELSE chain[k])
    BY <1>1, <2>1
  <2>4. ASSUME NEW k \in Accounts PROVE chain[k] \in Nat /\ applied[k] \in Nat
    BY <2>1
  <2> QED
    BY <2>2, <2>3, <2>4
<1>4. /\ \A i \in DOMAIN batch : batch[i].key \in Accounts /\ batch[i].ver \in Nat
      /\ \A i \in DOMAIN queue : queue[i].key \in Accounts /\ queue[i].ver \in Nat
      /\ \A k \in DOMAIN overflow : k \in Accounts /\ overflow[k] \in Nat
  BY HeldTypes
<1>5. /\ DOMAIN overflow' = DOMAIN overflow \cup {a}
      /\ overflow'[a] = Written(a)
      /\ \A k \in DOMAIN overflow : k # a => overflow'[k] = overflow[k]
  BY <1>1
<1>6. AllBeforeOverflow'
  <2> SUFFICES ASSUME NEW k \in DOMAIN overflow'
               PROVE  /\ applied[k] <= overflow'[k]
                      /\ \A i \in DOMAIN batch : batch[i].key = k => batch[i].ver <= overflow'[k]
                      /\ \A i \in DOMAIN queue : queue[i].key = k => queue[i].ver <= overflow'[k]
    BY <1>1 DEF AllBeforeOverflow
  <2>1. CASE k = a
    <3>1. overflow'[k] \in Nat /\ chain[k] <= overflow'[k]
      BY <1>5, <2>1, WrittenFacts
    <3>2. applied[k] <= overflow'[k]
      BY <1>3, <2>1, <3>1 DEF InOrder, AllBeforeChain
    <3>3. \A i \in DOMAIN batch : batch[i].key = k => batch[i].ver <= overflow'[k]
      BY <1>3, <1>4, <2>1, <3>1 DEF InOrder, AllBeforeChain
    <3>4. \A i \in DOMAIN queue : queue[i].key = k => queue[i].ver <= overflow'[k]
      BY <1>3, <1>4, <2>1, <3>1 DEF InOrder, AllBeforeChain
    <3> QED BY <3>2, <3>3, <3>4
  <2>2. CASE k # a
    BY <1>5, <2>2 DEF InOrder, AllBeforeOverflow
  <2> QED BY <2>1, <2>2
<1>7. AllBeforeChain'
  <2>1. \A k \in Accounts : applied'[k] <= chain'[k]
    BY <1>1, <1>3 DEF InOrder, AllBeforeChain
  <2>2. \A i \in DOMAIN batch' : batch'[i].ver <= chain'[batch'[i].key]
    BY <1>1, <1>3, <1>4 DEF InOrder, AllBeforeChain
  <2>3. \A i \in DOMAIN queue' : queue'[i].ver <= chain'[queue'[i].key]
    BY <1>1, <1>3, <1>4 DEF InOrder, AllBeforeChain
  <2>4. \A k \in DOMAIN overflow' : overflow'[k] <= chain'[k]
    BY <1>3, <1>4, <1>5 DEF InOrder, AllBeforeChain
  <2> QED BY <2>1, <2>2, <2>3, <2>4 DEF AllBeforeChain
<1> QED
  BY <1>2, <1>6, <1>7 DEF InOrder

(* The head of the queue moves to a batch b of updates that were held.     *)
LEMMA TakeKeepsOrder ==
  ASSUME TypeOK, InOrder,
         queue # << >>, queue' = Tail(queue),
         UNCHANGED <<chain, overflow, applied>>,
         batch' \in Seq(Update), OneUpdatePerAccount',
         \A i \in DOMAIN batch' :
            \/ batch'[i] = Head(queue)
            \/ /\ i \in DOMAIN batch /\ batch'[i] = batch[i]
               /\ batch[i].key # Head(queue).key
  PROVE  InOrder'
<1>1. /\ Head(queue) = queue[1] /\ 1 \in DOMAIN queue /\ DOMAIN queue = 1..Len(queue)
      /\ \A i \in DOMAIN queue' : i + 1 \in DOMAIN queue /\ queue'[i] = queue[i + 1]
      /\ DOMAIN queue' = 1..(Len(queue) - 1) /\ Len(queue) \in Nat
  BY TailFacts DEF TypeOK
<1>2. AppliedBeforeBatch'
  BY <1>1 DEF InOrder, AppliedBeforeBatch, AppliedBeforeQueue
<1>3. AppliedBeforeQueue'
  BY <1>1 DEF InOrder, AppliedBeforeQueue
<1>4. BatchBeforeQueue'
  <2> SUFFICES ASSUME NEW i \in DOMAIN batch', NEW j \in DOMAIN queue',
                      batch'[i].key = queue'[j].key
               PROVE  batch'[i].ver <= queue'[j].ver
    BY DEF BatchBeforeQueue
  <2>1. j + 1 \in DOMAIN queue /\ queue'[j] = queue[j + 1] /\ 1 < j + 1
    BY <1>1
  <2>2. CASE batch'[i] = Head(queue)
    BY <1>1, <2>1, <2>2 DEF InOrder, QueueSorted
  <2>3. CASE i \in DOMAIN batch /\ batch'[i] = batch[i]
    BY <2>1, <2>3 DEF InOrder, BatchBeforeQueue
  <2> QED BY <2>2, <2>3
<1>5. QueueSorted'
  <2> SUFFICES ASSUME NEW i \in DOMAIN queue', NEW j \in DOMAIN queue',
                      i < j, queue'[i].key = queue'[j].key
               PROVE  queue'[i].ver <= queue'[j].ver
    BY DEF QueueSorted
  <2>1. i + 1 < j + 1
    BY <1>1
  <2> QED BY <1>1, <2>1 DEF InOrder, QueueSorted
<1>6. AllBeforeOverflow'
  BY <1>1 DEF InOrder, AllBeforeOverflow
<1>7. AllBeforeChain'
  BY <1>1 DEF InOrder, AllBeforeChain
<1> QED
  BY <1>2, <1>3, <1>4, <1>5, <1>6, <1>7 DEF InOrder

(* The first update of the batch is applied: no other of its account is in *)
(* the batch, and all behind it are as new.                                *)
LEMMA ApplyKeepsOrder ==
  ASSUME TypeOK, InOrder, Apply
  PROVE  InOrder' /\ \A a \in Accounts : applied[a] <= applied'[a]
<1>1. /\ batch # << >> /\ batch' = Tail(batch)
      /\ applied' = [applied EXCEPT ![Head(batch).key] = Head(batch).ver]
      /\ UNCHANGED <<chain, overflow, queue>>
  BY DEF Apply, streamVars
<1>2. /\ Head(batch) = batch[1] /\ 1 \in DOMAIN batch /\ DOMAIN batch = 1..Len(batch)
      /\ \A i \in DOMAIN batch' : i + 1 \in DOMAIN batch /\ batch'[i] = batch[i + 1]
      /\ DOMAIN batch' = 1..(Len(batch) - 1) /\ Len(batch) \in Nat
      /\ batch[1] \in Update
  BY <1>1, TailFacts DEF TypeOK
<1>3. /\ applied \in [Accounts -> Nat]
      /\ batch[1].key \in Accounts /\ batch[1].ver \in Nat
  BY <1>2, StreamAssumption DEF TypeOK, Update, Versions
<1>4. /\ applied'[batch[1].key] = batch[1].ver
      /\ \A a \in Accounts : a # batch[1].key => applied'[a] = applied[a]
  BY <1>1, <1>2, <1>3
<1>5. \A a \in Accounts : applied[a] <= applied'[a]
  BY <1>2, <1>3, <1>4 DEF InOrder, AppliedBeforeBatch
<1>6. OneUpdatePerAccount'
  BY <1>2 DEF InOrder, OneUpdatePerAccount
<1>7. \A i \in DOMAIN batch' : batch'[i].key # batch[1].key /\ batch'[i] \in Update
  <2> SUFFICES ASSUME NEW i \in DOMAIN batch'
               PROVE  batch[i + 1].key # batch[1].key /\ batch[i + 1] \in Update
    BY <1>2
  <2>1. i + 1 \in DOMAIN batch /\ i + 1 # 1
    BY <1>2
  <2> QED BY <1>2, <2>1 DEF InOrder, OneUpdatePerAccount, TypeOK
<1>8. AppliedBeforeBatch'
  BY <1>2, <1>4, <1>7 DEF InOrder, AppliedBeforeBatch, Update
<1>9. \A i \in DOMAIN queue : queue[i].key \in Accounts
  BY HeldTypes
<1>10. AppliedBeforeQueue'
  BY <1>1, <1>2, <1>4, <1>9 DEF InOrder, AppliedBeforeQueue, BatchBeforeQueue
<1>11. BatchBeforeQueue'
  BY <1>1, <1>2 DEF InOrder, BatchBeforeQueue
<1>12. QueueSorted'
  BY <1>1 DEF InOrder, QueueSorted
<1>13. \A a \in DOMAIN overflow : a \in Accounts
  BY DEF TypeOK
<1>14. AllBeforeOverflow'
  BY <1>1, <1>2, <1>4, <1>13 DEF InOrder, AllBeforeOverflow
<1>15. AllBeforeChain'
  BY <1>1, <1>2, <1>4 DEF InOrder, AllBeforeChain
<1> QED
  BY <1>5, <1>6, <1>8, <1>10, <1>11, <1>12, <1>14, <1>15 DEF InOrder

(* Every step keeps the order and lets no applied version go back.         *)
LEMMA StepKeepsOrder ==
  ASSUME TypeOK, TypeOK', InOrder, [Next]_vars
  PROVE  InOrder' /\ \A a \in Accounts : applied[a] <= applied'[a]
<1>0. \A a \in Accounts : applied[a] <= applied[a] /\ chain[a] <= chain[a]
                           /\ chain[a] \in Nat /\ applied[a] \in Nat
  <2>1. Versions \subseteq Nat
    BY StreamAssumption DEF Versions
  <2>2. \A a \in Accounts : chain[a] \in Nat /\ applied[a] \in Nat
    BY <2>1 DEF TypeOK
  <2>3. \A n \in Nat : n <= n
    OBVIOUS
  <2> QED
    BY <2>2, <2>3
<1>1. CASE LoopTop
  BY <1>0, <1>1, FrameKeepsOrder DEF LoopTop, readerVars
<1>2. CASE ConnectFails
  BY <1>0, <1>2, FrameKeepsOrder, EndAttemptFacts DEF ConnectFails, readerVars
<1>3. CASE Connect
  BY <1>0, <1>3, FrameKeepsOrder DEF Connect, readerVars
<1>4. CASE StreamLost
  BY <1>0, <1>4, FrameKeepsOrder, EndAttemptFacts DEF StreamLost, readerVars
<1>5. CASE Wake
  BY <1>0, <1>5, FrameKeepsOrder DEF Wake, readerVars
<1>6. CASE ReadPing
  BY <1>0, <1>6, FrameKeepsOrder DEF ReadPing, LoopAgain, readerVars
<1>7. CASE ReadForeign
  BY <1>0, <1>7, FrameKeepsOrder DEF ReadForeign, LoopAgain, readerVars
<1>8. ASSUME NEW a \in Accounts, ReadSend(a)
      PROVE  InOrder' /\ \A k \in Accounts : applied[k] <= applied'[k]
  <2> DEFINE u == [key |-> a, ver |-> Written(a)]
  <2>1. /\ u \in Update /\ u.key = a /\ u.ver = Written(a)
        /\ chain' = [chain EXCEPT ![a] = Written(a)]
        /\ queue' = Append(queue, u)
        /\ UNCHANGED <<batch, applied, overflow>> /\ DOMAIN overflow = {}
    BY <1>8, <1>0, WrittenFacts
       DEF ReadSend, GoesStraight, Receive, readerVars, Update
  <2>2. \A k \in Accounts : chain[k] <= chain'[k]
    BY <1>0, <2>1, WrittenFacts DEF TypeOK
  <2>3. u.ver <= chain'[u.key]
    BY <1>0, <2>1, WrittenFacts DEF TypeOK
  <2>4. /\ applied[a] <= u.ver
        /\ \A i \in DOMAIN batch : batch[i].key = a => batch[i].ver <= u.ver
        /\ \A i \in DOMAIN queue : queue[i].key = a => queue[i].ver <= u.ver
    BY <1>0, <2>1, HeldTypes, WrittenFacts DEF InOrder, AllBeforeChain, TypeOK
  <2>5. InOrder'
    <3> HIDE DEF u
    <3> QED BY <1>0, <2>1, <2>2, <2>3, <2>4, AppendKeepsOrder
  <2> QED
    BY <1>0, <2>1, <2>5
<1>9. ASSUME NEW a \in Accounts, ReadBuffer(a)
      PROVE  InOrder' /\ \A k \in Accounts : applied[k] <= applied'[k]
  BY <1>0, <1>9, BufferKeepsOrder DEF ReadBuffer, readerVars
<1>10. ASSUME NEW a \in Accounts, ReadClosed(a)
       PROVE  InOrder' /\ \A k \in Accounts : applied[k] <= applied'[k]
  <2>1. \A k \in Accounts : chain[k] <= chain'[k]
    BY <1>0, <1>10, WrittenFacts DEF ReadClosed, Receive, TypeOK
  <2> QED
    BY <1>0, <1>10, <2>1, FrameKeepsOrder DEF ReadClosed, readerVars
<1>11. ASSUME NEW a \in Accounts, WriteUnseen(a)
       PROVE  InOrder' /\ \A k \in Accounts : applied[k] <= applied'[k]
  <2>1. \A k \in Accounts : chain[k] <= chain'[k]
    BY <1>0, <1>11 DEF WriteUnseen, TypeOK
  <2> QED
    BY <1>0, <1>11, <2>1, FrameKeepsOrder DEF WriteUnseen, readerVars
<1>12. ASSUME NEW k \in Accounts, Flush(k)
       PROVE  InOrder' /\ \A a \in Accounts : applied[a] <= applied'[a]
  <2> DEFINE u == [key |-> k, ver |-> overflow[k]]
  <2>1. /\ k \in DOMAIN overflow
        /\ u.key = k /\ u.ver = overflow[k] /\ u \in Update
        /\ queue' = Append(queue, u)
        /\ UNCHANGED <<batch, applied, chain>>
        /\ overflow' = [a \in DOMAIN overflow \ {k} |-> overflow[a]]
    BY <1>12 DEF Flush, TypeOK, readerVars, Update
  <2>2. /\ applied[k] <= u.ver /\ u.ver <= chain'[k]
        /\ \A i \in DOMAIN batch : batch[i].key = k => batch[i].ver <= u.ver
        /\ \A i \in DOMAIN queue : queue[i].key = k => queue[i].ver <= u.ver
    BY <2>1 DEF InOrder, AllBeforeOverflow, AllBeforeChain
  <2>3. /\ DOMAIN overflow' \subseteq DOMAIN overflow \ {u.key}
        /\ \A a \in DOMAIN overflow' : overflow'[a] = overflow[a]
    BY <2>1
  <2>4. InOrder'
    <3> HIDE DEF u
    <3> QED BY <1>0, <2>1, <2>2, <2>3, AppendKeepsOrder
  <2> QED
    BY <1>0, <2>1, <2>4
<1>13. CASE FlushFull
  BY <1>0, <1>13, FrameKeepsOrder DEF FlushFull, readerVars
<1>14. CASE FlushClosed
  BY <1>0, <1>14, FrameKeepsOrder, EndAttemptFacts DEF FlushClosed, readerVars
<1>15. CASE Recv
  <2>1. /\ queue # << >> /\ queue' = Tail(queue) /\ batch' = <<Head(queue)>>
        /\ UNCHANGED <<chain, overflow, applied>>
    BY <1>15 DEF Recv, streamVars
  <2>2. /\ batch' \in Seq(Update) /\ DOMAIN batch' = {1} /\ batch'[1] = Head(queue)
    BY <2>1, TailFacts DEF TypeOK
  <2>3. OneUpdatePerAccount'
    BY <2>2 DEF OneUpdatePerAccount
  <2> QED
    BY <1>0, <2>1, <2>2, <2>3, TakeKeepsOrder
<1>16. CASE TryRecv
  <2>1. /\ queue # << >> /\ queue' = Tail(queue)
        /\ batch' = Coalesce(batch, Head(queue))
        /\ UNCHANGED <<chain, overflow, applied>>
    BY <1>16 DEF TryRecv, streamVars
  <2>2. Head(queue) \in Update /\ batch \in Seq(Update)
    BY <2>1, TailFacts DEF TypeOK
  <2>3. \A i, j \in DOMAIN batch : batch[i].key = batch[j].key => i = j
    BY DEF InOrder, OneUpdatePerAccount
  <2>4. /\ batch' \in Seq(Update)
        /\ \A i \in DOMAIN batch' :
              \/ batch'[i] = Head(queue)
              \/ /\ i \in DOMAIN batch /\ batch'[i] = batch[i]
                 /\ batch[i].key # Head(queue).key
        /\ OneUpdatePerAccount'
    BY <2>1, <2>2, <2>3, CoalesceFacts DEF OneUpdatePerAccount
  <2> QED
    BY <1>0, <2>1, <2>4, TakeKeepsOrder
<1>17. CASE DrainDone
  BY <1>0, <1>17, FrameKeepsOrder DEF DrainDone, streamVars
<1>18. CASE Apply
  BY <1>18, ApplyKeepsOrder
<1>19. CASE CloseReceiver
  <2>1. /\ UNCHANGED <<chain, overflow, batch, applied>> /\ DOMAIN queue' = {}
    BY <1>19, EmptyFacts DEF CloseReceiver, streamVars
  <2>2. /\ OneUpdatePerAccount' /\ AppliedBeforeBatch' /\ AppliedBeforeQueue'
        /\ BatchBeforeQueue' /\ QueueSorted' /\ AllBeforeOverflow' /\ AllBeforeChain'
    BY <2>1 DEF InOrder, OneUpdatePerAccount, AppliedBeforeBatch, AppliedBeforeQueue,
                BatchBeforeQueue, QueueSorted, AllBeforeOverflow, AllBeforeChain
  <2> QED
    BY <1>0, <2>1, <2>2 DEF InOrder
<1>20. CASE UNCHANGED vars
  BY <1>0, <1>20, FrameKeepsOrder DEF vars, streamVars, readerVars
<1> QED
  BY <1>1, <1>2, <1>3, <1>4, <1>5, <1>6, <1>7, <1>8, <1>9, <1>10, <1>11, <1>12,
     <1>13, <1>14, <1>15, <1>16, <1>17, <1>18, <1>19, <1>20
     DEF Next, Attempt, Read, Flushes, Reads

(* The versions of an account stay in order from the main loop's state     *)
(* over the drained batch, the channel and the overflow buffer to the      *)
(* chain, for any capacity and batch sizes, across reconnects and flushes. *)
THEOREM Ordered == Spec => []InOrder
<1>1. Init => InOrder
  <2> SUFFICES ASSUME Init PROVE InOrder
    OBVIOUS
  <2>1. DOMAIN queue = {} /\ DOMAIN batch = {} /\ DOMAIN overflow = {}
    BY EmptyFacts DEF Init, NoOverflow
  <2>2. \A a \in Accounts : applied[a] <= chain[a]
    BY DEF Init
  <2> QED
    BY <2>1, <2>2 DEF InOrder, OneUpdatePerAccount, AppliedBeforeBatch,
       AppliedBeforeQueue, BatchBeforeQueue, QueueSorted, AllBeforeOverflow, AllBeforeChain
<1>2. TypeOK /\ TypeOK' /\ InOrder /\ [Next]_vars => InOrder'
  BY StepKeepsOrder
<1> QED
  BY <1>1, <1>2, TypeCorrect, PTL DEF Spec

(* The main loop never replaces the state of an account by an older one.   *)
THEOREM NeverGoesBack == Spec => NeverBack
<1>1. TypeOK /\ TypeOK' /\ InOrder /\ [Next]_vars
        => [\A a \in Accounts : applied[a] <= applied'[a]]_vars
  BY StepKeepsOrder
<1> QED
  BY <1>1, TypeCorrect, Ordered, PTL DEF Spec, NeverBack

-----------------------------------------------------------------------------
(* The mailbox. *)

(* A set of natural numbers with a bound has a greatest element: the least *)
(* of its bounds.                                                          *)
LEMMA GreatestExists ==
  ASSUME NEW S \in SUBSET Nat, S # {}, NEW b \in Nat, \A v \in S : v <= b
  PROVE  \E m \in S : \A v \in S : v <= m
<1> DEFINE B == {n \in Nat : \A v \in S : v <= n}
<1>1. \E m \in B : \A n \in B : ~(<<n, m>> \in OpToRel(<, Nat))
  <2>1. B \subseteq Nat /\ B # {}
    OBVIOUS
  <2> HIDE DEF B
  <2> QED
    BY <2>1, NatLessThanWellFounded, WFMin
<1>2. PICK m \in B : \A n \in B : ~(n < m)
  BY <1>1 DEF OpToRel
<1>3. m \in S
  <2> SUFFICES ASSUME m \notin S PROVE FALSE
    OBVIOUS
  <2>1. m \in Nat /\ \A v \in S : v \in Nat /\ v < m
    OBVIOUS
  <2>2. m - 1 \in Nat /\ \A v \in S : v <= m - 1
    <3>1. PICK w \in S : TRUE
      OBVIOUS
    <3>2. w \in Nat /\ w < m
      BY <2>1
    <3>3. \A v, n \in Nat : v < n => v <= n - 1
      OBVIOUS
    <3> QED
      BY <2>1, <3>2, <3>3
  <2> QED
    BY <1>2, <2>1, <2>2
<1> QED
  BY <1>3

LEMMA HeldMembers ==
  \A a, v :
     v \in Held(a) <=>
        \/ v = applied[a]
        \/ a \in DOMAIN overflow /\ v = overflow[a]
        \/ \E i \in DOMAIN queue : queue[i].key = a /\ v = queue[i].ver
        \/ \E i \in DOMAIN batch : batch[i].key = a /\ v = batch[i].ver
  BY DEF Held

(* What is held of an account are versions the chain has had. *)
LEMMA HeldBounded ==
  TypeOK /\ InOrder =>
     \A a \in Accounts : Held(a) \subseteq Versions /\ \A v \in Held(a) : v <= chain[a]
<1> SUFFICES ASSUME TypeOK, InOrder, NEW a \in Accounts, NEW v \in Held(a)
             PROVE  v \in Versions /\ v <= chain[a]
  OBVIOUS
<1>1. /\ \A i \in DOMAIN batch : batch[i] \in Update
      /\ \A i \in DOMAIN queue : queue[i] \in Update
  BY DEF TypeOK
<1>2. v \in Versions
  BY <1>1, HeldMembers DEF TypeOK, Update
<1>3. v <= chain[a]
  BY HeldMembers DEF InOrder, AllBeforeChain
<1> QED
  BY <1>2, <1>3

(* Newest(a) is the greatest version held. *)
IsNewest(a, v) == v \in Held(a) /\ \A w \in Held(a) : w <= v

LEMMA NewestIsGreatest ==
  TypeOK /\ InOrder =>
     \A a \in Accounts :
        /\ IsNewest(a, Newest(a))
        /\ Newest(a) \in Versions /\ Newest(a) <= chain[a]
        /\ \A v : IsNewest(a, v) => v = Newest(a)
<1> SUFFICES ASSUME TypeOK, InOrder, NEW a \in Accounts
             PROVE  /\ IsNewest(a, Newest(a))
                    /\ Newest(a) \in Versions /\ Newest(a) <= chain[a]
                    /\ \A v : IsNewest(a, v) => v = Newest(a)
  OBVIOUS
<1>1. /\ Held(a) \subseteq Nat /\ Held(a) # {}
      /\ chain[a] \in Nat /\ \A v \in Held(a) : v <= chain[a]
  <2>1. Versions \subseteq Nat
    BY StreamAssumption DEF Versions
  <2>2. Held(a) \subseteq Versions /\ \A v \in Held(a) : v <= chain[a]
    BY HeldBounded
  <2>3. applied[a] \in Held(a)
    BY HeldMembers
  <2> QED
    BY <2>1, <2>2, <2>3 DEF TypeOK
<1>2. \E m \in Held(a) : \A v \in Held(a) : v <= m
  BY <1>1, GreatestExists
<1>3. IsNewest(a, Newest(a))
  BY <1>2 DEF IsNewest, Newest
<1>4. \A v : IsNewest(a, v) => v = Newest(a)
  BY <1>1, <1>3 DEF IsNewest
<1> QED
  BY <1>3, <1>4, HeldBounded DEF IsNewest

(* The same for the state after a step, where the next lemmas need it. *)
LEMMA NewestAfter ==
  TypeOK' /\ InOrder' =>
     \A a \in Accounts :
        /\ IsNewest(a, Newest(a))'
        /\ Newest(a)' \in Versions /\ Newest(a)' <= chain'[a]
        /\ \A v : (v \in Held(a)' /\ \A w \in Held(a)' : w <= v) => v = Newest(a)'
<1>1. (TypeOK /\ InOrder =>
         \A a \in Accounts :
            /\ IsNewest(a, Newest(a))
            /\ Newest(a) \in Versions /\ Newest(a) <= chain[a]
            /\ \A v : IsNewest(a, v) => v = Newest(a))'
  BY NewestIsGreatest, PTL
<1> QED
  BY <1>1 DEF IsNewest

(* The version of every account held after a step; what the steps do to it *)
(* follows from what they do to the sets of held versions.                 *)
LEMMA HeldAfter ==
  \A a, v :
     v \in Held(a)' <=>
        \/ v = applied'[a]
        \/ a \in DOMAIN overflow' /\ v = overflow'[a]
        \/ \E i \in DOMAIN queue' : queue'[i].key = a /\ v = queue'[i].ver
        \/ \E i \in DOMAIN batch' : batch'[i].key = a /\ v = batch'[i].ver
<1>1. (\A a, v :
     v \in Held(a) <=>
        \/ v = applied[a]
        \/ a \in DOMAIN overflow /\ v = overflow[a]
        \/ \E i \in DOMAIN queue : queue[i].key = a /\ v = queue[i].ver
        \/ \E i \in DOMAIN batch : batch[i].key = a /\ v = batch[i].ver)'
  BY HeldMembers, PTL
<1> QED
  BY <1>1

LEMMA BoundedAfter ==
  TypeOK' /\ InOrder' => \A a \in Accounts : \A v \in Held(a)' : v <= chain'[a]
<1>1. (TypeOK /\ InOrder =>
         \A a \in Accounts : Held(a) \subseteq Versions /\ \A v \in Held(a) : v <= chain[a])'
  BY HeldBounded, PTL
<1> QED
  BY <1>1

(* The same by the place where a version is held. *)
InOverflow(a, v) == a \in DOMAIN overflow /\ v = overflow[a]
InQueue(a, v) == \E i \in DOMAIN queue : queue[i].key = a /\ v = queue[i].ver
InBatch(a, v) == \E i \in DOMAIN batch : batch[i].key = a /\ v = batch[i].ver

LEMMA HeldPlaces ==
  \A a, v :
     /\ v \in Held(a) <=> v = applied[a] \/ InOverflow(a, v) \/ InQueue(a, v) \/ InBatch(a, v)
     /\ v \in Held(a)' <=>
           v = applied'[a] \/ InOverflow(a, v)' \/ InQueue(a, v)' \/ InBatch(a, v)'
  BY HeldMembers, HeldAfter DEF InOverflow, InQueue, InBatch

(* Nothing is accepted: the newest version held does not rise. *)
LEMMA NothingAccepted ==
  ASSUME TypeOK, InOrder, TypeOK', InOrder', NEW a \in Accounts,
         Held(a)' \subseteq Held(a)
  PROVE  Newest(a)' <= Newest(a)
<1>1. IsNewest(a, Newest(a)) /\ IsNewest(a, Newest(a))'
  BY NewestIsGreatest, NewestAfter
<1> QED
  BY <1>1 DEF IsNewest

(* And nothing is lost but what a newer version replaces: it stays.        *)
LEMMA NothingLost ==
  ASSUME TypeOK, InOrder, TypeOK', InOrder', NEW a \in Accounts,
         Held(a)' \subseteq Held(a),
         \A w \in Held(a) : \E v \in Held(a)' : w <= v
  PROVE  Newest(a)' = Newest(a)
<1>1. IsNewest(a, Newest(a)) /\ Newest(a) \in Nat
  BY NewestIsGreatest, StreamAssumption DEF Versions
<1>2. IsNewest(a, Newest(a))' /\ Newest(a)' \in Nat
  BY NewestAfter, StreamAssumption DEF Versions
<1>3. Newest(a)' <= Newest(a)
  BY NothingAccepted
<1>4. PICK v \in Held(a)' : Newest(a) <= v
  BY <1>1 DEF IsNewest
<1>5. v <= Newest(a)' /\ v \in Held(a)
  BY <1>2 DEF IsNewest
<1>6. v = Newest(a)
  <2>1. v <= Newest(a) /\ v \in Nat
    BY <1>1, <1>5, HeldBounded, StreamAssumption DEF IsNewest, Versions
  <2> QED
    BY <1>1, <1>4, <2>1
<1> QED
  BY <1>1, <1>2, <1>3, <1>5, <1>6

(* A write that is read: the new version is held and newer than all        *)
(* before, and other accounts are not touched.                             *)
LEMMA ReadAccepts ==
  ASSUME TypeOK, InOrder, TypeOK', InOrder', NEW a \in Accounts,
         ReadSend(a) \/ ReadBuffer(a)
  PROVE  /\ chain' = [chain EXCEPT ![a] = Written(a)] /\ applied' = applied
         /\ Newest(a)' = Written(a)
         /\ \A b \in Accounts \ {a} : Newest(b)' = Newest(b)
<1>1. chain' = [chain EXCEPT ![a] = Written(a)] /\ applied' = applied /\ batch' = batch
  BY DEF ReadSend, ReadBuffer, Receive, readerVars
<1>2. chain'[a] = Written(a)
  BY <1>1 DEF TypeOK
<1>3. Written(a) \in Held(a)' /\ \A b \in Accounts \ {a} : Held(b)' = Held(b)
  <2>1. CASE ReadSend(a)
    <3> DEFINE u == [key |-> a, ver |-> Written(a)]
    <3>1. queue' = Append(queue, u) /\ overflow' = overflow
      BY <2>1 DEF ReadSend
    <3>2. u \in Update /\ u.key = a /\ u.ver = Written(a)
      BY <2>1, WrittenFacts DEF ReadSend, Update
    <3> HIDE DEF u
    <3>3. /\ Len(queue) + 1 \in DOMAIN queue' /\ queue'[Len(queue) + 1] = u
          /\ \A i \in DOMAIN queue' : (i \in DOMAIN queue /\ queue'[i] = queue[i]) \/ queue'[i] = u
          /\ \A i \in DOMAIN queue : i \in DOMAIN queue' /\ queue'[i] = queue[i]
      BY <3>1, <3>2, AppendFacts DEF TypeOK
    <3>4. Written(a) \in Held(a)'
      BY <3>2, <3>3, HeldAfter
    <3>5. ASSUME NEW b \in Accounts \ {a} PROVE Held(b)' = Held(b)
      <4>1. \A v \in Held(b)' : v \in Held(b)
        BY <1>1, <3>1, <3>2, <3>3, HeldMembers, HeldAfter
      <4>2. \A v \in Held(b) : v \in Held(b)'
        BY <1>1, <3>1, <3>2, <3>3, HeldMembers, HeldAfter
      <4> QED
        BY <4>1, <4>2
    <3> QED
      BY <3>4, <3>5
  <2>2. CASE ReadBuffer(a)
    <3>1. /\ overflow' = [k \in DOMAIN overflow \cup {a} |->
                             IF k = a THEN Written(a) ELSE overflow[k]]
          /\ queue' = queue
      BY <2>2 DEF ReadBuffer, LoopAgain
    <3>2. /\ a \in DOMAIN overflow' /\ overflow'[a] = Written(a)
          /\ \A b : b # a => (b \in DOMAIN overflow' <=> b \in DOMAIN overflow)
          /\ \A b \in DOMAIN overflow : b # a => overflow'[b] = overflow[b]
      BY <3>1
    <3>3. Written(a) \in Held(a)'
      BY <3>2, HeldAfter
    <3>4. ASSUME NEW b \in Accounts \ {a} PROVE Held(b)' = Held(b)
      <4>1. \A v : InOverflow(b, v)' <=> InOverflow(b, v)
        BY <3>2 DEF InOverflow
      <4>2. \A v : InQueue(b, v)' <=> InQueue(b, v)
        BY <3>1 DEF InQueue
      <4>3. \A v : InBatch(b, v)' <=> InBatch(b, v)
        BY <1>1 DEF InBatch
      <4> QED
        BY <1>1, <4>1, <4>2, <4>3, HeldPlaces
    <3> QED
      BY <3>3, <3>4
  <2> QED
    BY <2>1, <2>2
<1>4. Newest(a)' = Written(a)
  <2>1. \A w \in Held(a)' : w <= Written(a)
    BY <1>2, BoundedAfter
  <2> QED
    BY <1>3, <2>1, NewestAfter
<1>5. \A b \in Accounts \ {a} : Newest(b)' = Newest(b)
  BY <1>3 DEF Newest
<1> QED
  BY <1>1, <1>4, <1>5

(* The end of a stream or of the receiver: what was held may be lost.      *)
Loses == ConnectFails \/ StreamLost \/ FlushClosed \/ CloseReceiver

LEMMA LosesOnly ==
  ASSUME TypeOK, Loses
  PROVE  /\ chain' = chain /\ applied' = applied
         /\ \A a \in Accounts : Held(a)' \subseteq Held(a)
         /\ ~(Up /\ Up')
<1>1. CASE ConnectFails \/ StreamLost \/ FlushClosed
  <2>1. /\ UNCHANGED <<chain, queue, batch, applied>> /\ DOMAIN overflow' = {}
        /\ task' \in {"sleeping", "stopped"}
    BY <1>1, EndAttemptFacts DEF ConnectFails, StreamLost, FlushClosed, readerVars
  <2>2. \A a \in Accounts : \A v : v \in Held(a)' => v \in Held(a)
    BY <2>1, HeldMembers, HeldAfter
  <2> QED
    BY <2>1, <2>2 DEF Up
<1>2. CASE CloseReceiver
  <2>1. /\ UNCHANGED <<chain, overflow, batch, applied>> /\ DOMAIN queue' = {} /\ ~rxOpen'
    BY <1>2, EmptyFacts DEF CloseReceiver, streamVars
  <2>2. \A a \in Accounts : \A v : v \in Held(a)' => v \in Held(a)
    BY <2>1, HeldMembers, HeldAfter
  <2> QED
    BY <2>1, <2>2 DEF Up
<1> QED
  BY <1>1, <1>2 DEF Loses

(* Between two reads the main loop holds no batch, so that recv replaces   *)
(* none.                                                                   *)
NoBatch == reader \in {"waiting", "gone"} => batch = <<>>

LEMMA NoBatchStep ==
  ASSUME TypeOK, NoBatch, [Next]_vars
  PROVE  NoBatch'
<1> USE DEF NoBatch
<1>1. CASE Reads
  <2>1. CASE Recv \/ TryRecv \/ DrainDone
    BY <1>1, <2>1 DEF Recv, TryRecv, DrainDone
  <2>2. CASE Apply
    <3>1. batch \in Seq(Update) /\ batch # <<>> /\ batch' = Tail(batch)
          /\ reader' = IF Len(batch) = 1 THEN "waiting" ELSE "applying"
      BY <2>2 DEF Apply, TypeOK
    <3>2. Len(batch) = 1 => Tail(batch) = <<>>
      BY <3>1
    <3> QED
      BY <3>1, <3>2
  <2> QED
    BY <1>1, <2>1, <2>2 DEF Reads
<1>2. CASE CloseReceiver
  BY <1>2 DEF CloseReceiver
<1>3. CASE UNCHANGED readerVars
  BY <1>3 DEF readerVars
<1>4. [Next]_vars => Reads \/ CloseReceiver \/ UNCHANGED readerVars
  BY DEF Next, Attempt, LoopTop, ConnectFails, Connect, StreamLost, Wake,
         Read, ReadPing, ReadForeign, ReadSend, ReadBuffer, ReadClosed,
         Flushes, FlushFull, FlushClosed, Flush, WriteUnseen, vars
<1> QED
  BY <1>1, <1>2, <1>3, <1>4

(* Updates that only move on: from the overflow buffer to the channel,     *)
(* from there to the batch, and from there to the state.                   *)
Moves == Recv \/ TryRecv \/ Apply \/ \E k \in Accounts : Flush(k)

LEMMA MovesKeep ==
  ASSUME TypeOK, InOrder, TypeOK', InOrder', NoBatch, Moves
  PROVE  chain' = chain /\ \A a \in Accounts : Newest(a)' = Newest(a)
<1>1. ASSUME NEW k \in Accounts, Flush(k)
      PROVE  chain' = chain /\ \A a \in Accounts : Newest(a)' = Newest(a)
  <2> DEFINE u == [key |-> k, ver |-> overflow[k]]
  <2>1. /\ k \in DOMAIN overflow /\ u \in Update
        /\ queue' = Append(queue, u) /\ UNCHANGED <<chain, batch, applied>>
        /\ overflow' = [a \in DOMAIN overflow \ {k} |-> overflow[a]]
    BY <1>1 DEF Flush, TypeOK, readerVars, Update
  <2>2. /\ Len(queue) + 1 \in DOMAIN queue' /\ queue'[Len(queue) + 1] = u
        /\ \A i \in DOMAIN queue' : (i \in DOMAIN queue /\ queue'[i] = queue[i]) \/ queue'[i] = u
        /\ \A i \in DOMAIN queue : i \in DOMAIN queue' /\ queue'[i] = queue[i]
    <3> HIDE DEF u
    <3> QED
      BY <2>1, AppendFacts DEF TypeOK
  <2>3. u.key = k /\ u.ver = overflow[k]
    OBVIOUS
  <2> HIDE DEF u
  <2>5. ASSUME NEW a \in Accounts PROVE Held(a)' = Held(a)
    <3>1. \A v : InBatch(a, v)' <=> InBatch(a, v)
      BY <2>1 DEF InBatch
    <3>2. \A v : InQueue(a, v)' <=> InQueue(a, v) \/ (a = k /\ v = overflow[k])
      <4>1. \A v : InQueue(a, v)' => InQueue(a, v) \/ (a = k /\ v = overflow[k])
        BY <2>2, <2>3 DEF InQueue
      <4>2. \A v : InQueue(a, v) => InQueue(a, v)'
        BY <2>2 DEF InQueue
      <4>3. \A v : a = k /\ v = overflow[k] => InQueue(a, v)'
        BY <2>2, <2>3 DEF InQueue
      <4> QED
        BY <4>1, <4>2, <4>3
    <3>3. \A v : InOverflow(a, v)' <=> InOverflow(a, v) /\ a # k
      BY <2>1 DEF InOverflow
    <3>4. \A v : a = k => (InOverflow(a, v) <=> v = overflow[k])
      BY <2>1 DEF InOverflow
    <3>5. applied' = applied
      BY <2>1
    <3>6. \A v : v \in Held(a)' <=> v \in Held(a)
      BY <3>1, <3>2, <3>3, <3>4, <3>5, HeldPlaces
    <3> QED
      BY <3>6
  <2> QED
    BY <2>1, <2>5 DEF Newest
<1>2. CASE Recv
  <2>1. /\ queue # << >> /\ queue' = Tail(queue) /\ batch = << >> /\ batch' = <<Head(queue)>>
        /\ UNCHANGED <<chain, overflow, applied>>
    BY <1>2 DEF Recv, streamVars, NoBatch
  <2>2. /\ DOMAIN batch = {} /\ DOMAIN batch' = {1} /\ batch'[1] = queue[1]
        /\ 1 \in DOMAIN queue
        /\ \A i \in DOMAIN queue' : i + 1 \in DOMAIN queue /\ queue'[i] = queue[i + 1]
        /\ \A i \in DOMAIN queue : i = 1 \/ (i - 1 \in DOMAIN queue' /\ queue'[i - 1] = queue[i])
    <3>1. DOMAIN batch = {} /\ DOMAIN batch' = {1} /\ batch'[1] = Head(queue)
      BY <2>1
    <3>2. /\ DOMAIN queue = 1..Len(queue) /\ DOMAIN queue' = 1..(Len(queue) - 1)
          /\ Len(queue) \in Nat \ {0} /\ Head(queue) = queue[1]
          /\ \A i \in DOMAIN queue' : i + 1 \in DOMAIN queue /\ queue'[i] = queue[i + 1]
      BY <2>1, TailFacts DEF TypeOK
    <3>3. \A i \in DOMAIN queue : i = 1 \/ (i - 1 \in DOMAIN queue' /\ (i - 1) + 1 = i)
      <4> DEFINE n == Len(queue)
      <4>1. n \in Nat \ {0} /\ DOMAIN queue = 1..n /\ DOMAIN queue' = 1..(n - 1)
        BY <3>2
      <4> HIDE DEF n
      <4> QED
        BY <4>1
    <3> QED
      BY <3>1, <3>2, <3>3
  <2>3. ASSUME NEW a \in Accounts PROVE \A v : v \in Held(a)' <=> v \in Held(a)
    <3>1. \A v : InOverflow(a, v)' <=> InOverflow(a, v)
      BY <2>1 DEF InOverflow
    <3>2. \A v : ~InBatch(a, v)
      BY <2>2 DEF InBatch
    <3>3. \A v : InBatch(a, v)' <=> queue[1].key = a /\ v = queue[1].ver
      BY <2>2 DEF InBatch
    <3>4. \A v : InQueue(a, v) => InQueue(a, v)' \/ (queue[1].key = a /\ v = queue[1].ver)
      BY <2>2 DEF InQueue
    <3>5. \A v : InQueue(a, v)' => InQueue(a, v)
      BY <2>2 DEF InQueue
    <3>6. queue[1].key = a => InQueue(a, queue[1].ver)
      BY <2>2 DEF InQueue
    <3>7. applied' = applied
      BY <2>1
    <3> QED
      BY <3>1, <3>2, <3>3, <3>4, <3>5, <3>6, <3>7, HeldPlaces
  <2>4. \A a \in Accounts : Held(a)' = Held(a)
    BY <2>3
  <2> QED
    BY <2>1, <2>4 DEF Newest
<1>3. CASE TryRecv
  <2> DEFINE u == Head(queue)
  <2>1. /\ queue # << >> /\ queue' = Tail(queue) /\ batch' = Coalesce(batch, u)
        /\ UNCHANGED <<chain, overflow, applied>>
    BY <1>3 DEF TryRecv, streamVars
  <2>2. /\ DOMAIN queue = 1..Len(queue) /\ DOMAIN queue' = 1..(Len(queue) - 1)
        /\ Len(queue) \in Nat \ {0} /\ u = queue[1] /\ 1 \in DOMAIN queue /\ u \in Update
        /\ \A i \in DOMAIN queue' : i + 1 \in DOMAIN queue /\ queue'[i] = queue[i + 1]
    BY <2>1, TailFacts DEF TypeOK
  <2>3. \A i \in DOMAIN queue : i = 1 \/ (i - 1 \in DOMAIN queue' /\ queue'[i - 1] = queue[i])
    <3>1. \A i \in DOMAIN queue : i = 1 \/ (i - 1 \in DOMAIN queue' /\ (i - 1) + 1 = i)
      BY <2>2
    <3> QED
      BY <2>2, <3>1
  <2>4. /\ \A i, j \in DOMAIN batch : batch[i].key = batch[j].key => i = j
        /\ \A i \in DOMAIN batch : batch[i].key = u.key => batch[i].ver <= u.ver
    BY <2>2 DEF InOrder, OneUpdatePerAccount, BatchBeforeQueue
  <2> HIDE DEF u
  <2>5. /\ \A i \in DOMAIN batch' : batch'[i] = u \/ (i \in DOMAIN batch /\ batch'[i] = batch[i])
        /\ \E j \in DOMAIN batch' : batch'[j] = u
        /\ \A i \in DOMAIN batch : batch[i].key # u.key =>
              i \in DOMAIN batch' /\ batch'[i] = batch[i]
    <3>1. CASE \E i \in DOMAIN batch : batch[i].key = u.key
      <4>1. batch' = [i \in DOMAIN batch |-> IF batch[i].key = u.key THEN u ELSE batch[i]]
        BY <2>1, <3>1 DEF Coalesce
      <4> QED
        BY <3>1, <4>1
    <3>2. CASE ~ \E i \in DOMAIN batch : batch[i].key = u.key
      <4>1. batch' = Append(batch, u)
        BY <2>1, <3>2 DEF Coalesce
      <4>2. batch \in Seq(Update)
        BY DEF TypeOK
      <4> QED
        BY <2>2, <4>1, <4>2, AppendFacts
    <3> QED
      BY <3>1, <3>2
  <2>6. ASSUME NEW a \in Accounts PROVE Newest(a)' = Newest(a)
    <3>1. \A v : v \in Held(a)' => v \in Held(a)
      BY <2>1, <2>2, <2>5, HeldMembers, HeldAfter
    <3>2. u.key = a => u.ver \in Held(a)'
      BY <2>5, HeldAfter
    <3>3. \A w \in Held(a) : w \in Held(a)' \/ (u.key = a /\ w <= u.ver)
      <4> SUFFICES ASSUME NEW w \in Held(a), w \notin Held(a)'
                   PROVE  u.key = a /\ w <= u.ver
        OBVIOUS
      <4>1. w # applied[a] /\ ~(a \in DOMAIN overflow /\ w = overflow[a])
        BY <2>1, HeldAfter
      <4>2. ~ \E i \in DOMAIN queue : queue[i].key = a /\ w = queue[i].ver
        <5> SUFFICES ASSUME NEW i \in DOMAIN queue, queue[i].key = a, w = queue[i].ver
                     PROVE  FALSE
          OBVIOUS
        <5>1. CASE i = 1
          BY <2>2, <3>2, <5>1
        <5>2. CASE i # 1
          BY <2>3, <5>2, HeldAfter
        <5> QED
          BY <5>1, <5>2
      <4>3. PICK i \in DOMAIN batch : batch[i].key = a /\ w = batch[i].ver
        BY <4>1, <4>2, HeldMembers
      <4>4. batch[i].key = u.key
        BY <2>5, <4>3, HeldAfter
      <4> QED
        BY <2>4, <4>3, <4>4
    <3>4. \A w \in Held(a) : w \in Nat
      BY HeldBounded, StreamAssumption DEF Versions
    <3>5. \A w \in Held(a) : \E v \in Held(a)' : w <= v
      BY <3>2, <3>3, <3>4
    <3> QED
      BY <3>1, <3>5, NothingLost
  <2> QED
    BY <2>1, <2>6
<1>4. CASE Apply
  <2> DEFINE u == Head(batch)
  <2>1. /\ batch # << >> /\ batch' = Tail(batch)
        /\ applied' = [applied EXCEPT ![u.key] = u.ver]
        /\ UNCHANGED <<chain, overflow, queue>>
    BY <1>4 DEF Apply, streamVars
  <2>2. /\ DOMAIN batch = 1..Len(batch) /\ DOMAIN batch' = 1..(Len(batch) - 1)
        /\ Len(batch) \in Nat \ {0} /\ u = batch[1] /\ 1 \in DOMAIN batch /\ u \in Update
        /\ \A i \in DOMAIN batch' : i + 1 \in DOMAIN batch /\ batch'[i] = batch[i + 1]
    BY <2>1, TailFacts DEF TypeOK
  <2>3. \A i \in DOMAIN batch : i = 1 \/ (i - 1 \in DOMAIN batch' /\ batch'[i - 1] = batch[i])
    <3>1. \A i \in DOMAIN batch : i = 1 \/ (i - 1 \in DOMAIN batch' /\ (i - 1) + 1 = i)
      BY <2>2
    <3> QED
      BY <2>2, <3>1
  <2>4. applied[u.key] <= u.ver /\ u.key \in Accounts
    BY <2>2 DEF InOrder, AppliedBeforeBatch, Update
  <2> HIDE DEF u
  <2>5. applied'[u.key] = u.ver /\ \A a \in Accounts : a # u.key => applied'[a] = applied[a]
    BY <2>1, <2>4 DEF TypeOK
  <2>6. ASSUME NEW a \in Accounts PROVE Newest(a)' = Newest(a)
    <3>1. \A v : v \in Held(a)' => v \in Held(a)
      BY <2>1, <2>2, <2>5, HeldMembers, HeldAfter
    <3>2. u.key = a => u.ver \in Held(a)'
      BY <2>5, HeldAfter
    <3>3. \A w \in Held(a) : w \in Held(a)' \/ (u.key = a /\ w <= u.ver)
      <4> SUFFICES ASSUME NEW w \in Held(a), w \notin Held(a)'
                   PROVE  u.key = a /\ w <= u.ver
        OBVIOUS
      <4>1. /\ ~(a \in DOMAIN overflow /\ w = overflow[a])
            /\ ~ \E i \in DOMAIN queue : queue[i].key = a /\ w = queue[i].ver
        BY <2>1, HeldAfter
      <4>2. ~ \E i \in DOMAIN batch : batch[i].key = a /\ w = batch[i].ver
        <5> SUFFICES ASSUME NEW i \in DOMAIN batch, batch[i].key = a, w = batch[i].ver
                     PROVE  FALSE
          OBVIOUS
        <5>1. CASE i = 1
          BY <2>2, <3>2, <5>1
        <5>2. CASE i # 1
          BY <2>3, <5>2, HeldAfter
        <5> QED
          BY <5>1, <5>2
      <4>3. w = applied[a]
        BY <4>1, <4>2, HeldMembers
      <4>4. a = u.key
        BY <2>5, <4>3, HeldAfter
      <4> QED
        BY <2>4, <4>3, <4>4
    <3>4. \A w \in Held(a) : w \in Nat
      BY HeldBounded, StreamAssumption DEF Versions
    <3>5. \A w \in Held(a) : \E v \in Held(a)' : w <= v
      BY <3>2, <3>3, <3>4
    <3> QED
      BY <3>1, <3>5, NothingLost
  <2> QED
    BY <2>1, <2>6
<1> QED
  BY <1>1, <1>2, <1>3, <1>4 DEF Moves

(* Everything else leaves what is held, and the state, alone.              *)
LEMMA StepKinds ==
  ASSUME TypeOK, [Next]_vars
  PROVE  \/ \E a \in Accounts : ReadSend(a) \/ ReadBuffer(a)
         \/ Loses \/ Moves
         \/ /\ UNCHANGED <<overflow, queue, batch, applied>>
            /\ Up /\ Up' => chain' = chain
<1>1. CASE LoopTop \/ Connect \/ Wake \/ DrainDone
  BY <1>1 DEF LoopTop, Connect, Wake, DrainDone, readerVars, streamVars
<1>2. CASE ReadPing \/ ReadForeign
  BY <1>2 DEF ReadPing, ReadForeign, LoopAgain, readerVars
<1>3. CASE FlushFull
  BY <1>3 DEF FlushFull, readerVars
<1>4. CASE \E a \in Accounts : ReadClosed(a) \/ WriteUnseen(a)
  BY <1>4 DEF ReadClosed, WriteUnseen, Up, readerVars
<1>5. CASE UNCHANGED vars
  BY <1>5 DEF vars, streamVars, readerVars
<1> QED
  BY <1>1, <1>2, <1>3, <1>4, <1>5
     DEF Next, Attempt, Read, Flushes, Reads, Loses, Moves

-----------------------------------------------------------------------------
(* Everything the two theorems below need of a step. *)
StreamInv == TypeOK /\ InOrder /\ NoBatch

LEMMA StreamInvHolds == Spec => []StreamInv
<1>1. Init => NoBatch
  BY DEF Init, NoBatch
<1>2. TypeOK /\ NoBatch /\ [Next]_vars => NoBatch'
  BY NoBatchStep
<1> QED
  BY <1>1, <1>2, TypeCorrect, Ordered, PTL DEF Spec, StreamInv

(* What is held, and so the newest of it, depends on these four alone.     *)
LEMMA SameHeld ==
  ASSUME UNCHANGED <<overflow, queue, batch, applied>>
  PROVE  \A a : Newest(a)' = Newest(a)
<1>1. \A a : Held(a)' = Held(a)
  BY DEF Held
<1> QED
  BY <1>1 DEF Newest

(* Outside the end of a stream or of the receiver, a full channel, partial *)
(* flushes and coalescing lose no update but to a newer one of its         *)
(* account.                                                                *)
THEOREM LosesNothing == Spec => NothingLostWhileUp
<1> DEFINE Kept == Up /\ Up' => \A a \in Accounts :
                      /\ Newest(a) <= Newest(a)'
                      /\ chain'[a] # chain[a] => Newest(a)' = chain'[a]
<1>1. StreamInv /\ StreamInv' /\ [Next]_vars => Kept
  <2> SUFFICES ASSUME TypeOK, InOrder, NoBatch, TypeOK', InOrder', [Next]_vars, Up, Up',
                      NEW a \in Accounts
               PROVE  /\ Newest(a) <= Newest(a)'
                      /\ chain'[a] # chain[a] => Newest(a)' = chain'[a]
    BY DEF StreamInv
  <2>1. Newest(a) \in Nat /\ chain[a] \in Nat /\ Newest(a) <= chain[a]
    <3>1. Versions \subseteq Nat
      BY StreamAssumption DEF Versions
    <3>2. Newest(a) \in Versions /\ Newest(a) <= chain[a]
      BY NewestIsGreatest
    <3>3. chain[a] \in Versions
      BY DEF TypeOK
    <3> QED
      BY <3>1, <3>2, <3>3
  <2>2. ASSUME NEW b \in Accounts, ReadSend(b) \/ ReadBuffer(b)
        PROVE  /\ Newest(a) <= Newest(a)'
               /\ chain'[a] # chain[a] => Newest(a)' = chain'[a]
    <3>1. /\ chain' = [chain EXCEPT ![b] = Written(b)] /\ Newest(b)' = Written(b)
          /\ \A c \in Accounts \ {b} : Newest(c)' = Newest(c)
      BY <2>2, ReadAccepts
    <3>2. CASE a = b
      BY <2>1, <3>1, <3>2, WrittenFacts DEF TypeOK
    <3>3. CASE a # b
      BY <2>1, <3>1, <3>3 DEF TypeOK
    <3> QED
      BY <3>2, <3>3
  <2>3. CASE Loses
    BY <2>3, LosesOnly
  <2>4. CASE Moves
    BY <2>1, <2>4, MovesKeep
  <2>5. CASE UNCHANGED <<overflow, queue, batch, applied>> /\ chain' = chain
    BY <2>1, <2>5, SameHeld
  <2> QED
    BY <2>2, <2>3, <2>4, <2>5, StepKinds
<1> QED
  BY <1>1, StreamInvHolds, PTL DEF Spec, NothingLostWhileUp

(* The subscription implements LatestMailbox, the box of an account        *)
(* holding the newest version that waits for the main loop or has reached  *)
(* it: a read puts, an applied update takes, the end of a stream or of the *)
(* receiver forgets, and every other step, of the flush, the drain or the  *)
(* backoff, is invisible.                                                  *)
THEOREM StreamIsMailbox == Spec => IsMailbox
<1> DEFINE boxes == [a \in Accounts |-> Newest(a)]
<1>1. Init => Mailbox!Init
  <2> SUFFICES ASSUME Init PROVE Mailbox!Init
    OBVIOUS
  <2>1. DOMAIN queue = {} /\ DOMAIN batch = {} /\ DOMAIN overflow = {}
    BY EmptyFacts DEF Init, NoOverflow
  <2>2. ASSUME NEW a \in Accounts PROVE Held(a) = {0}
    <3>1. \A v : v \in Held(a) <=> v = 0
      BY <2>1, HeldMembers DEF Init
    <3> QED
      BY <3>1
  <2>3. ASSUME NEW a \in Accounts PROVE Newest(a) = 0
    <3>1. \E v \in Held(a) : \A w \in Held(a) : w <= v
      BY <2>2
    <3> QED
      BY <2>2, <3>1 DEF Newest
  <2> QED
    BY <2>3 DEF Init, Mailbox!Init
<1>2. StreamInv /\ StreamInv' /\ [Next]_vars => [Mailbox!Next]_(Mailbox!vars)
  <2> SUFFICES ASSUME TypeOK, InOrder, NoBatch, TypeOK', InOrder', [Next]_vars
               PROVE  [Mailbox!Next]_(Mailbox!vars)
    BY DEF StreamInv
  <2>1. /\ \A a \in Accounts : Newest(a) \in Versions /\ Newest(a) \in Nat /\ Newest(a) <= chain[a]
        /\ \A a \in Accounts : applied[a] \in Nat /\ applied[a] <= Newest(a)
    <3>1. Versions \subseteq Nat
      BY StreamAssumption DEF Versions
    <3>2. \A a \in Accounts : /\ Newest(a) \in Versions /\ Newest(a) <= chain[a]
                             /\ \A w \in Held(a) : w <= Newest(a)
      BY NewestIsGreatest DEF IsNewest
    <3>3. \A a \in Accounts : applied[a] \in Held(a) /\ applied[a] \in Versions
      BY HeldMembers DEF TypeOK
    <3> QED
      BY <3>1, <3>2, <3>3
  <2>2. /\ \A a \in Accounts : Newest(a)' \in Versions
        /\ \A a \in Accounts : applied'[a] \in Versions /\ applied'[a] <= Newest(a)'
    BY NewestAfter, HeldAfter DEF TypeOK, IsNewest
  <2>3. ASSUME NEW a \in Accounts, ReadSend(a) \/ ReadBuffer(a)
        PROVE  [Mailbox!Put(a)]_(Mailbox!vars)
    <3>1. /\ chain' = [chain EXCEPT ![a] = Written(a)] /\ applied' = applied
          /\ Newest(a)' = Written(a)
          /\ \A c \in Accounts \ {a} : Newest(c)' = Newest(c)
      BY <2>3, ReadAccepts
    <3>2. Newest(a)' >= Newest(a) /\ Newest(a) \in Nat /\ Newest(a)' \in Nat
      BY <2>1, <3>1, WrittenFacts
    <3>3. boxes' = [boxes EXCEPT ![a] = Newest(a)']
      BY <3>1
    <3>4. CASE Newest(a)' = Newest(a)
      <4>1. boxes' = boxes
        BY <3>1, <3>4
      <4> QED
        BY <3>1, <4>1 DEF Mailbox!vars
    <3>5. CASE Newest(a)' # Newest(a)
      <4>1. Newest(a)' > Newest(a)
        BY <3>2, <3>5
      <4> QED
        BY <2>2, <3>1, <3>3, <4>1 DEF Mailbox!Put
    <3> QED
      BY <3>4, <3>5
  <2>4. CASE Loses
    <3>1. applied' = applied /\ \A a \in Accounts : Held(a)' \subseteq Held(a)
      BY <2>4, LosesOnly
    <3>2. \A a \in Accounts : Newest(a)' <= Newest(a)
      BY <3>1, NothingAccepted
    <3>3. Mailbox!Forget
      BY <2>2, <3>1, <3>2 DEF Mailbox!Forget
    <3> QED
      BY <3>3 DEF Mailbox!Next
  <2>5. CASE Moves
    <3>1. boxes' = boxes
      BY <2>5, MovesKeep
    <3>2. CASE Apply
      <4> DEFINE u == Head(batch)
      <4>1. u \in Update /\ applied' = [applied EXCEPT ![u.key] = u.ver]
        BY <3>2, TailFacts DEF Apply, TypeOK
      <4>2. u.key \in Accounts /\ u.ver \in Versions
        BY <4>1 DEF Update
      <4> HIDE DEF u
      <4>3. applied'[u.key] = u.ver
        BY <4>1, <4>2 DEF TypeOK
      <4>4. applied[u.key] <= applied'[u.key]
        BY <4>2, StepKeepsOrder
      <4>5. applied'[u.key] <= Newest(u.key)
        BY <2>2, <3>1, <4>2
      <4>6. Mailbox!Take(u.key)
        BY <3>1, <4>1, <4>2, <4>3, <4>4, <4>5 DEF Mailbox!Take
      <4> QED
        BY <4>2, <4>6 DEF Mailbox!Next
    <3>3. CASE Recv \/ TryRecv \/ \E k \in Accounts : Flush(k)
      <4>1. applied' = applied
        BY <3>3 DEF Recv, TryRecv, Flush, readerVars
      <4> QED
        BY <3>1, <4>1 DEF Mailbox!vars
    <3> QED
      BY <2>5, <3>2, <3>3 DEF Moves
  <2>6. CASE UNCHANGED <<overflow, queue, batch, applied>>
    <3>1. boxes' = boxes
      BY <2>6, SameHeld
    <3> QED
      BY <2>6, <3>1 DEF Mailbox!vars
  <2> QED
    BY <2>3, <2>4, <2>5, <2>6, StepKinds DEF Mailbox!Next
<1> QED
  BY <1>1, <1>2, StreamInvHolds, PTL DEF Spec, IsMailbox, Mailbox!Spec

(***************************************************************************)
(* The end of the task and its reconnect delay.                            *)
(***************************************************************************)

(* The task of a subscription ends only after its receiver is gone, by     *)
(* whichever of its exits (the loop's top, the end of an attempt, a closed *)
(* channel met by try_send): rx.recv() in the main loop never yields None. *)
THEOREM OutlivesReceiver == Spec => []TaskOutlivesReceiver
<1>1. Init => TaskOutlivesReceiver
  BY DEF Init, TaskOutlivesReceiver
<1>2. TaskOutlivesReceiver /\ [Next]_vars => TaskOutlivesReceiver'
  <2> SUFFICES ASSUME TaskOutlivesReceiver, [Next]_vars
               PROVE  TaskOutlivesReceiver'
    OBVIOUS
  <2> USE DEF TaskOutlivesReceiver
  <2>1. CASE Attempt
    BY <2>1 DEF Attempt, LoopTop, ConnectFails, Connect, StreamLost, Wake,
                EndAttempt
  <2>2. CASE Read
    <3>1. ASSUME NEW a \in Accounts, ReadSend(a) \/ ReadBuffer(a)
          PROVE  task' # "stopped"
      BY <3>1 DEF ReadSend, ReadBuffer, Receive, LoopAgain
    <3>2. ASSUME NEW a \in Accounts, ReadClosed(a)
          PROVE  ~rxOpen'
      BY <3>2 DEF ReadClosed
    <3>3. CASE ReadPing \/ ReadForeign
      BY <3>3 DEF ReadPing, ReadForeign, LoopAgain
    <3> QED
      BY <2>2, <3>1, <3>2, <3>3 DEF Read
  <2>3. CASE Flushes
    BY <2>3 DEF Flushes, FlushFull, FlushClosed, Flush, EndAttempt
  <2>4. CASE Reads
    BY <2>4 DEF Reads, Recv, TryRecv, DrainDone, Apply, streamVars
  <2>5. CASE CloseReceiver
    BY <2>5 DEF CloseReceiver
  <2>6. CASE \E a \in Accounts : WriteUnseen(a)
    BY <2>6 DEF WriteUnseen
  <2>7. CASE UNCHANGED vars
    BY <2>7 DEF vars, streamVars
  <2> QED
    BY <2>1, <2>2, <2>3, <2>4, <2>5, <2>6, <2>7 DEF Next
<1> QED
  BY <1>1, <1>2, PTL DEF Spec

(* A stream that carried traffic sleeps the initial delay before it        *)
(* connects again, whatever delays the failures before it built up: the    *)
(* doubling in Wake and the flag cleared at the loop's top never combine   *)
(* to a long sleep after a good attempt.                                   *)
THEOREM FreshAfterTraffic == Spec => []FreshBackoffAfterTraffic
<1>1. Init => FreshBackoffAfterTraffic
  BY DEF Init, FreshBackoffAfterTraffic
<1>2. FreshBackoffAfterTraffic /\ [Next]_vars => FreshBackoffAfterTraffic'
  <2> SUFFICES ASSUME FreshBackoffAfterTraffic, [Next]_vars
               PROVE  FreshBackoffAfterTraffic'
    OBVIOUS
  <2> USE DEF FreshBackoffAfterTraffic
  <2>1. CASE Attempt
    BY <2>1 DEF Attempt, LoopTop, ConnectFails, Connect, StreamLost, Wake,
                EndAttempt
  <2>2. CASE Read
    <3>1. ASSUME NEW a \in Accounts,
                 ReadSend(a) \/ ReadBuffer(a) \/ ReadClosed(a)
          PROVE  task' # "sleeping"
      BY <3>1 DEF ReadSend, ReadBuffer, ReadClosed, Receive, LoopAgain
    <3>2. CASE ReadPing \/ ReadForeign
      BY <3>2 DEF ReadPing, ReadForeign, LoopAgain
    <3> QED
      BY <2>2, <3>1, <3>2 DEF Read
  <2>3. CASE Flushes
    BY <2>3 DEF Flushes, FlushFull, FlushClosed, Flush, EndAttempt
  <2>4. CASE Reads
    BY <2>4 DEF Reads, Recv, TryRecv, DrainDone, Apply, streamVars
  <2>5. CASE CloseReceiver
    BY <2>5 DEF CloseReceiver, streamVars
  <2>6. CASE \E a \in Accounts : WriteUnseen(a)
    BY <2>6 DEF WriteUnseen
  <2>7. CASE UNCHANGED vars
    BY <2>7 DEF vars, streamVars
  <2> QED
    BY <2>1, <2>2, <2>3, <2>4, <2>5, <2>6, <2>7 DEF Next
<1> QED
  BY <1>1, <1>2, PTL DEF Spec

=============================================================================
