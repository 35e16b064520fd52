------------------------- MODULE PoolScannerProofs -------------------------
(* Proofs about PoolScanner for any accounts, venues and prices, any       *)
(* length of the stream and any number of writes and faults.               *)
EXTENDS PoolScanner, FiniteSetTheorems, TLAPS

-----------------------------------------------------------------------------
(* Types. *)

LEMMA MessageFacts ==
  /\ \A p \in Accounts, a \in States :
        /\ Account(p, a) \in Messages
        /\ Account(p, a).kind = "account" /\ Account(p, a).of = p /\ Account(p, a).data = a
  /\ \A p \in Accounts : Trade(p) \in Messages /\ Trade(p).kind = "trade" /\ Trade(p).of = p
  /\ \A m \in Messages :
        /\ m.of \in Accounts /\ m.kind \in {"account", "trade"}
        /\ m.kind = "account" => m.data \in States /\ m = Account(m.of, m.data)
<1>1. \A p \in Accounts, a \in States : Account(p, a) \in Messages
  BY DEF Messages
<1>2. \A p, a : Account(p, a).kind = "account" /\ Account(p, a).of = p /\ Account(p, a).data = a
  BY DEF Account
<1>3. \A p \in Accounts : Trade(p) \in Messages /\ Trade(p).kind = "trade" /\ Trade(p).of = p
  BY DEF Messages, Trade
<1>4. ASSUME NEW m \in Messages
      PROVE  /\ m.of \in Accounts /\ m.kind \in {"account", "trade"}
             /\ m.kind = "account" => m.data \in States /\ m = Account(m.of, m.data)
  <2>1. CASE \E p \in Accounts : m = Trade(p)
    BY <2>1, <1>3
  <2>2. CASE \E p \in Accounts, a \in States : m = Account(p, a)
    BY <2>2, <1>2
  <2> QED
    BY <2>1, <2>2 DEF Messages
<1> QED
  BY <1>1, <1>2, <1>3, <1>4

(* Only an open account parses, and then its price is one of Prices. *)
LEMMA ParsedFacts ==
  ASSUME NEW p \in Accounts, NEW a \in States, Parses(p, a)
  PROVE  /\ p \in Accounts \ Excluded /\ a.price \in Prices
         /\ Concentrated(p) => a.price > 0
<1>1. a # Closed
  BY DEF Parses, Closed
<1>2. a \in [open : {TRUE}, price : Prices, liquid : BOOLEAN]
  BY <1>1 DEF States
<1> QED
  BY <1>2 DEF Parses

LEMMA CountedFacts ==
  ASSUME NEW n \in Nat, dirty \in 0..DirtyFlush
  PROVE  Counted(n) \in 0..DirtyFlush
  BY ScannerAssumption DEF Counted

LEMMA AfterFacts ==
  \A S, n : AfterMessage(S, n) \in {"read", "lookup", "flush"} /\ FlushNow(n) \in {"read", "flush"}
  BY DEF AfterMessage, FlushNow

LEMMA UnderWayFacts ==
  ASSUME stream \in Seq(Messages)
  PROVE  UnderWay \subseteq Accounts
  BY MessageFacts DEF UnderWay

(* A bootstrap knows what the RPC node does, and of some venues nothing. *)
LEMMA BootstrapFacts ==
  ASSUME node \in [Accounts -> States], NEW f \in Bootstrapped
  PROVE  /\ DOMAIN f \subseteq Accounts \ Excluded
         /\ \A p \in DOMAIN f : /\ f[p] \in Prices /\ (Concentrated(p) => f[p] > 0)
                                /\ Parses(p, node[p]) /\ f[p] = node[p].price
<1>1. PICK V \in SUBSET Venues :
        f = [p \in {q \in Accounts : VenueOf[q] \in V /\ Parses(q, node[q])} |-> node[p].price]
  BY DEF Bootstrapped
<1>2. DOMAIN f = {q \in Accounts : VenueOf[q] \in V /\ Parses(q, node[q])}
      /\ \A p \in DOMAIN f : f[p] = node[p].price
  BY <1>1
<1> QED
  BY <1>2, ParsedFacts

LEMMA SelectionFacts == \A S \in Selections(node) : S \subseteq Accounts
<1> SUFFICES ASSUME NEW S \in Selections(node) PROVE S \subseteq Accounts
  OBVIOUS
<1>1. PICK P \in PairSets(node) :
        \E pick \in {f \in [P -> SUBSET Accounts] : \A x \in P : f[x] \in Kept(x)} :
           S = UNION {pick[x] : x \in P}
  BY DEF Selections
<1>2. PICK pick \in [P -> SUBSET Accounts] : S = UNION {pick[x] : x \in P}
  BY <1>1
<1> QED
  BY <1>2

LEMMA InitTypes == Init => TypeOK
<1> SUFFICES ASSUME Init PROVE TypeOK
  OBVIOUS
<1>1. chain \in [Accounts -> States] /\ node \in [Accounts -> States]
  BY ScannerAssumption DEF Init
<1> QED
  BY <1>1, BootstrapFacts, ScannerAssumption DEF Init, TypeOK

LEMMA WriteTypes ==
  ASSUME TypeOK, NEW p \in Accounts, Write(p)
  PROVE  TypeOK'
<1>1. PICK a \in States :
        /\ chain' = [chain EXCEPT ![p] = a]
        /\ \/ Send(Account(p, a)) /\ missed' = IF at = "down" THEN missed \cup {p} ELSE missed \ {p}
           \/ missed' = missed \cup {p} /\ UNCHANGED stream
  BY DEF Write
<1>2. stream' \in Seq(Messages) /\ Len(stream') <= MaxStream
  <2>1. a \in States /\ Account(p, a) \in Messages
    BY <1>1, MessageFacts
  <2>2. stream' = stream \/ stream' = Append(stream, Account(p, a))
    BY <1>1 DEF Send
  <2>3. stream \in Seq(Messages) /\ Len(stream) < MaxStream /\ MaxStream \in Nat
    BY ScannerAssumption DEF Write, TypeOK
  <2> QED
    BY <2>1, <2>2, <2>3
<1>3. chain' \in [Accounts -> States] /\ missed' \subseteq Accounts
  BY <1>1 DEF TypeOK
<1>4. writes' \in 0..MaxWrites
  BY ScannerAssumption DEF Write, TypeOK
<1> QED
  BY <1>2, <1>3, <1>4 DEF Write, TypeOK, task, files

LEMMA SendTradeTypes ==
  ASSUME TypeOK, SendTrade
  PROVE  TypeOK'
<1>1. stream' \in Seq(Messages) /\ Len(stream') <= MaxStream
  BY MessageFacts, ScannerAssumption DEF SendTrade, Send, TypeOK
<1> QED
  BY <1>1 DEF SendTrade, TypeOK, task, files

LEMMA FaultTypes ==
  ASSUME TypeOK, StreamLost \/ LookupFails \/ FlushFails \/ Restart
  PROVE  TypeOK'
<1>1. Break /\ chain' = chain
  BY DEF StreamLost, LookupFails, FlushFails, Restart, Fail
<1>2. faults' \in 0..MaxFaults /\ at' = "down" /\ stream' = <<>> /\ stream' \in Seq(Messages)
      /\ Len(stream') <= MaxStream
  BY <1>1, ScannerAssumption DEF Break, TypeOK
<1>3. missed' \subseteq Accounts
  BY UnderWayFacts DEF Behind, StreamLost, LookupFails, FlushFails, Restart, Fail, TypeOK
<1>4. CASE Restart
  <2>1. DOMAIN known' \subseteq Accounts \ Excluded
        /\ \A p \in DOMAIN known' : known'[p] \in Prices /\ (Concentrated(p) => known'[p] > 0)
    BY <1>4, BootstrapFacts DEF Restart, TypeOK
  <2> QED
    BY <1>1, <1>2, <1>3, <1>4, <2>1, ScannerAssumption DEF Restart, TypeOK, files
<1>5. CASE StreamLost \/ LookupFails \/ FlushFails
  BY <1>1, <1>2, <1>3, <1>5 DEF StreamLost, LookupFails, FlushFails, TypeOK, files
<1> QED
  BY <1>4, <1>5

LEMMA TailTypes ==
  ASSUME TypeOK, stream # <<>>, stream' = Tail(stream)
  PROVE  /\ Head(stream) \in Messages
         /\ stream' \in Seq(Messages) /\ Len(stream') <= MaxStream
  BY ScannerAssumption DEF TypeOK

LEMMA ReadTypes ==
  ASSUME TypeOK, Read
  PROVE  TypeOK'
<1>1. CASE ReadAccount
  <2> DEFINE m == Head(stream)
  <2>1. m \in Messages /\ stream' \in Seq(Messages) /\ Len(stream') <= MaxStream
    BY <1>1, TailTypes DEF ReadAccount
  <2>2. m.of \in Accounts /\ m.data \in States
    BY <1>1, <2>1, MessageFacts DEF ReadAccount
  <2>3. CASE Parses(m.of, m.data)
    <3>1. PICK startup \in BOOLEAN :
            /\ known' = Upserted(known, m.of, m.data.price)
            /\ dirty' = Counted(IF startup THEN 1 ELSE 2)
            /\ at' = AfterMessage(pending, dirty')
      BY <1>1, <2>3 DEF ReadAccount
    <3>2. DOMAIN known' \subseteq Accounts \ Excluded
          /\ \A p \in DOMAIN known' : known'[p] \in Prices /\ (Concentrated(p) => known'[p] > 0)
      BY <2>2, <2>3, <3>1, ParsedFacts DEF Upserted, TypeOK
    <3>3. dirty' \in 0..DirtyFlush /\ at' \in {"read", "lookup", "flush"}
      BY <3>1, CountedFacts, AfterFacts DEF TypeOK
    <3> QED
      BY <1>1, <2>1, <3>2, <3>3 DEF ReadAccount, TypeOK, files
  <2>4. CASE ~Parses(m.of, m.data)
    <3>1. known' = Without(known, m.of) /\ UNCHANGED <<dirty, at>>
      BY <1>1, <2>4 DEF ReadAccount
    <3>2. DOMAIN known' \subseteq Accounts \ Excluded
          /\ \A p \in DOMAIN known' : known'[p] \in Prices /\ (Concentrated(p) => known'[p] > 0)
      BY <3>1 DEF Without, Restrict, TypeOK
    <3> QED
      BY <1>1, <2>1, <3>1, <3>2 DEF ReadAccount, TypeOK, files
  <2> QED
    BY <2>3, <2>4
<1>2. CASE ReadTrade
  <2>1. Head(stream) \in Messages /\ stream' \in Seq(Messages) /\ Len(stream') <= MaxStream
    BY <1>2, TailTypes DEF ReadTrade
  <2>2. pending' \subseteq Accounts \ Excluded
    BY <1>2, <2>1, MessageFacts DEF ReadTrade, ToLookUp, TypeOK
  <2>3. dirty' \in 0..DirtyFlush
    BY <1>2, CountedFacts DEF ReadTrade, TypeOK
  <2>4. at' \in {"read", "lookup", "flush"}
    BY <1>2, AfterFacts DEF ReadTrade
  <2> QED
    BY <1>2, <2>1, <2>2, <2>3, <2>4 DEF ReadTrade, TypeOK, files
<1> QED
  BY <1>1, <1>2 DEF Read

LEMMA FinishTypes ==
  ASSUME TypeOK, Finish
  PROVE  TypeOK'
<1>1. CASE Lookup
  <2>1. Found \in SUBSET Accounts /\ Cardinality(Found) \in Nat
    <3>1. Found \subseteq Accounts /\ IsFiniteSet(Found)
      BY ScannerAssumption, FS_Subset DEF Found, TypeOK
    <3> QED
      BY <3>1, FS_CardinalityType
  <2>2. dirty' \in 0..DirtyFlush
    BY <1>1, <2>1, CountedFacts DEF Lookup, TypeOK
  <2>3. DOMAIN known' \subseteq Accounts \ Excluded
        /\ \A p \in DOMAIN known' : known'[p] \in Prices /\ (Concentrated(p) => known'[p] > 0)
    BY <1>1, ParsedFacts DEF Lookup, Hydrated, Found, TypeOK
  <2>4. at' \in {"read", "flush"}
    BY <1>1, AfterFacts DEF Lookup
  <2>5. missed' \subseteq Accounts
    BY <1>1, <2>1 DEF Lookup, TypeOK
  <2> QED
    BY <1>1, <2>2, <2>3, <2>4, <2>5 DEF Lookup, TypeOK, files
<1>2. CASE FlushNothing
  BY <1>2, ScannerAssumption DEF FlushNothing, Flushed, TypeOK, files
<1>3. CASE Flush
  BY <1>3, SelectionFacts DEF Flush, TypeOK, files
<1>4. CASE WriteList
  BY <1>4 DEF WriteList, TypeOK
<1>5. CASE WriteState
  BY <1>5, ScannerAssumption DEF WriteState, Flushed, TypeOK
<1> QED
  BY <1>1, <1>2, <1>3, <1>4, <1>5 DEF Finish

LEMMA StepTypes ==
  ASSUME TypeOK, [Next]_vars
  PROVE  TypeOK'
<1>1. CASE Connect
  BY <1>1, ScannerAssumption DEF Connect, TypeOK, files
<1>2. ASSUME NEW interval \in {"flush", "lookup"}, Expire(interval)
      PROVE  TypeOK'
  BY <1>2 DEF Expire, TypeOK, files
<1>3. CASE CatchUp
  BY <1>3 DEF CatchUp, TypeOK, task, files
<1>4. CASE UNCHANGED vars
  BY <1>4 DEF vars, TypeOK, task, files
<1> QED
  BY <1>1, <1>2, <1>3, <1>4, WriteTypes, SendTradeTypes, FaultTypes, ReadTypes, FinishTypes DEF Next

(* Every reachable state of the scanner is well typed: what it knows is    *)
(* never an excluded account nor a pool without a price.                   *)
THEOREM TypesHold == Spec => []TypeOK
<1> QED
  BY InitTypes, StepTypes, PTL DEF Spec

-----------------------------------------------------------------------------
(* What is known.  Of a pool that is not missed the last message under way *)
(* tells what the chain holds; and if none is under way, what is known is  *)
(* what the chain holds.                                                   *)

About(p) == {i \in DOMAIN stream : stream[i].kind = "account" /\ stream[i].of = p}

LastIsCurrent ==
    \A p \in Accounts \ missed : About(p) # {} =>
        \E i \in About(p) : /\ \A j \in About(p) : j <= i
                            /\ stream[i] = Account(p, chain[p])

Settled ==
    \A p \in DOMAIN known \ missed : About(p) = {} =>
        Parses(p, chain[p]) /\ known[p] = chain[p].price

LEMMA AboutFacts == \A p : p \in UnderWay <=> About(p) # {}
  BY DEF UnderWay, About

(* The claim of the property, from its two halves. *)
LEMMA HalvesSuffice ==
  ASSUME TypeOK, LastIsCurrent, Settled
  PROVE  KnownIsCurrent
<1> SUFFICES ASSUME NEW p \in DOMAIN known \ missed,
                    \A i \in DOMAIN stream : stream[i] # Account(p, chain[p])
             PROVE  Parses(p, chain[p]) /\ known[p] = chain[p].price
  BY DEF KnownIsCurrent
<1>1. p \in Accounts
  BY DEF TypeOK
<1>2. About(p) = {}
  BY <1>1 DEF LastIsCurrent, About
<1> QED
  BY <1>2 DEF Settled

(* A message that arrives is the last one about its account, and none      *)
(* about any other.                                                        *)
LEMMA Arrives ==
  ASSUME stream \in Seq(Messages), NEW m \in Messages, stream' = Append(stream, m)
  PROVE  /\ \A p : ~(m.kind = "account" /\ m.of = p) => About(p)' = About(p)
         /\ \A p : m.kind = "account" /\ m.of = p => About(p)' = About(p) \cup {Len(stream) + 1}
         /\ \A i \in DOMAIN stream : stream'[i] = stream[i]
         /\ stream'[Len(stream) + 1] = m
         /\ DOMAIN stream = 1..Len(stream) /\ Len(stream) \in Nat
<1>1. /\ DOMAIN stream = 1..Len(stream) /\ Len(stream) \in Nat
      /\ DOMAIN stream' = DOMAIN stream \cup {Len(stream) + 1}
      /\ \A i \in DOMAIN stream : stream'[i] = stream[i]
      /\ stream'[Len(stream) + 1] = m
  OBVIOUS
<1> QED
  BY <1>1 DEF About

(* One that is read moves the others up by a place. *)
LEMMA Departs ==
  ASSUME stream \in Seq(Messages), stream # <<>>, stream' = Tail(stream)
  PROVE  /\ \A p : \A i \in About(p)' :
               i \in Nat \ {0} /\ i + 1 \in About(p) /\ stream'[i] = stream[i + 1]
         /\ \A p : \A i \in About(p) : i # 1 =>
               i - 1 \in About(p)' /\ stream'[i - 1] = stream[i] /\ i \in Nat
         /\ \A p : 1 \in About(p) <=> Head(stream).kind = "account" /\ Head(stream).of = p
<1>1. /\ Len(stream) \in Nat \ {0} /\ DOMAIN stream = 1..Len(stream)
      /\ DOMAIN stream' = 1..(Len(stream) - 1)
      /\ \A i \in DOMAIN stream' : stream'[i] = stream[i + 1]
      /\ Head(stream) = stream[1]
  OBVIOUS
<1>2. ASSUME NEW p, NEW i \in About(p)'
      PROVE  i \in Nat \ {0} /\ i + 1 \in About(p) /\ stream'[i] = stream[i + 1]
  BY <1>1, <1>2 DEF About
<1>3. ASSUME NEW p, NEW i \in About(p), i # 1
      PROVE  i - 1 \in About(p)' /\ stream'[i - 1] = stream[i] /\ i \in Nat
  <2>1. i - 1 \in DOMAIN stream' /\ (i - 1) + 1 = i /\ i \in Nat
    BY <1>1, <1>3 DEF About
  <2>2. stream'[i - 1] = stream[i]
    BY <1>1, <2>1
  <2> QED
    BY <2>1, <2>2, <1>3 DEF About
<1>4. \A p : 1 \in About(p) <=> Head(stream).kind = "account" /\ Head(stream).of = p
  BY <1>1 DEF About
<1> QED
  BY <1>2, <1>3, <1>4

(* After a read the last message about a pool is still the last, or it was *)
(* the one read and none is left.                                          *)
LEMMA DepartureKeepsLast ==
  ASSUME TypeOK, LastIsCurrent, stream # <<>>, stream' = Tail(stream),
         chain' = chain, missed' = missed
  PROVE  /\ LastIsCurrent'
         /\ \A p \in Accounts \ missed : 1 \in About(p) /\ About(p)' = {} =>
               Head(stream) = Account(p, chain[p])
         /\ \A p : 1 \notin About(p) /\ About(p)' = {} => About(p) = {}
<1>0. stream \in Seq(Messages) /\ Head(stream) = stream[1]
  BY DEF TypeOK
<1>1. ASSUME NEW p \in Accounts \ missed, About(p)' # {}
      PROVE  \E i \in About(p)' : /\ \A j \in About(p)' : j <= i
                                  /\ stream'[i] = Account(p, chain[p])
  <2>1. About(p) # {}
    BY <1>0, <1>1, Departs
  <2>2. PICK i \in About(p) : (\A j \in About(p) : j <= i) /\ stream[i] = Account(p, chain[p])
    BY <2>1 DEF LastIsCurrent
  <2>3. PICK k \in About(p)' : TRUE
    BY <1>1
  <2>4. k \in Nat \ {0} /\ k + 1 <= i
    BY <1>0, <2>2, <2>3, Departs
  <2>5. i # 1 /\ i \in Nat
    BY <2>4, <2>2, <1>0 DEF About
  <2>6. i - 1 \in About(p)' /\ stream'[i - 1] = stream[i]
    BY <1>0, <2>5, <2>2, Departs
  <2>7. \A j \in About(p)' : j <= i - 1
    <3> SUFFICES ASSUME NEW j \in About(p)' PROVE j <= i - 1
      OBVIOUS
    <3>1. j \in Nat /\ j + 1 <= i
      BY <1>0, <2>2, Departs
    <3> QED
      BY <3>1, <2>5
  <2> QED
    BY <2>2, <2>6, <2>7
<1>2. ASSUME NEW p \in Accounts \ missed, 1 \in About(p), About(p)' = {}
      PROVE  Head(stream) = Account(p, chain[p])
  <2>1. PICK i \in About(p) : stream[i] = Account(p, chain[p])
    BY <1>2 DEF LastIsCurrent
  <2>2. i = 1
    BY <1>0, <1>2, <2>1, Departs
  <2> QED
    BY <1>0, <2>1, <2>2
<1>3. \A p : 1 \notin About(p) /\ About(p)' = {} => About(p) = {}
  <2> SUFFICES ASSUME NEW p, 1 \notin About(p), About(p)' = {}, NEW i \in About(p)
               PROVE  FALSE
    OBVIOUS
  <2>1. i # 1
    OBVIOUS
  <2> QED
    BY <1>0, <2>1, Departs
<1> QED
  BY <1>1, <1>2, <1>3 DEF LastIsCurrent

-----------------------------------------------------------------------------
Current == LastIsCurrent /\ Settled

LEMMA InitCurrent == Init => Current
<1> SUFFICES ASSUME Init PROVE Current
  OBVIOUS
<1>1. \A p : About(p) = {}
  BY DEF Init, About
<1>2. node \in [Accounts -> States] /\ node = chain
  BY ScannerAssumption DEF Init
<1>3. \A p \in DOMAIN known : Parses(p, chain[p]) /\ known[p] = chain[p].price
  BY <1>2, BootstrapFacts DEF Init
<1> QED
  BY <1>1, <1>3 DEF Current, LastIsCurrent, Settled

(* A write that is announced is the last message; any other is missed.     *)
LEMMA WriteCurrent ==
  ASSUME TypeOK, Current, NEW p \in Accounts, Write(p)
  PROVE  Current'
<1>0. known' = known /\ stream \in Seq(Messages)
  BY DEF Write, TypeOK, task
<1>1. PICK a \in States :
        /\ chain' = [chain EXCEPT ![p] = a]
        /\ \/ Send(Account(p, a)) /\ missed' = IF at = "down" THEN missed \cup {p} ELSE missed \ {p}
           \/ missed' = missed \cup {p} /\ UNCHANGED stream
  BY DEF Write
<1>2. chain'[p] = a /\ \A q \in Accounts \ {p} : chain'[q] = chain[q]
  BY <1>1 DEF TypeOK
<1>3. CASE stream' = stream /\ missed' = missed \cup {p}
  <2>1. \A q : About(q)' = About(q)
    BY <1>3 DEF About
  <2>2. DOMAIN known \subseteq Accounts
    BY DEF TypeOK
  <2>3. LastIsCurrent'
    BY <1>2, <1>3, <2>1 DEF Current, LastIsCurrent
  <2>4. Settled'
    BY <1>0, <1>2, <1>3, <2>1, <2>2 DEF Current, Settled
  <2> QED
    BY <2>3, <2>4 DEF Current
<1>4. CASE stream' = Append(stream, Account(p, a)) /\ missed' = missed \ {p}
  <2> DEFINE m == Account(p, a)
             n == Len(stream) + 1
  <2>1. m \in Messages /\ m.kind = "account" /\ m.of = p
    BY MessageFacts
  <2> HIDE DEF m
  <2>2. /\ \A q : q # p => About(q)' = About(q)
        /\ About(p)' = About(p) \cup {n}
        /\ \A i \in DOMAIN stream : stream'[i] = stream[i]
        /\ stream'[n] = m
        /\ DOMAIN stream = 1..Len(stream) /\ Len(stream) \in Nat
    BY <1>0, <1>4, <2>1, Arrives DEF m
  <2>3. \A q : About(q) \subseteq DOMAIN stream
    BY DEF About
  <2>4. n \in About(p)' /\ (\A j \in About(p)' : j <= n) /\ stream'[n] = Account(p, chain'[p])
    BY <1>2, <2>2, <2>3 DEF m
  <2>5. ASSUME NEW q \in Accounts \ missed', About(q)' # {}
        PROVE  \E i \in About(q)' : (\A j \in About(q)' : j <= i) /\ stream'[i] = Account(q, chain'[q])
    <3>1. CASE q = p
      BY <3>1, <2>4
    <3>2. CASE q # p
      <4>1. q \in Accounts \ missed /\ About(q)' = About(q) /\ chain'[q] = chain[q]
        BY <3>2, <2>5, <2>2, <1>2, <1>4
      <4>2. PICK i \in About(q) : (\A j \in About(q) : j <= i) /\ stream[i] = Account(q, chain[q])
        BY <4>1, <2>5 DEF Current, LastIsCurrent
      <4> QED
        BY <4>1, <4>2, <2>2, <2>3
    <3> QED
      BY <3>1, <3>2
  <2>6. ASSUME NEW q \in DOMAIN known' \ missed', About(q)' = {}
        PROVE  Parses(q, chain'[q]) /\ known'[q] = chain'[q].price
    <3>1. q # p
      BY <2>4, <2>6
    <3>2. q \in DOMAIN known \ missed /\ About(q) = {} /\ q \in Accounts /\ chain'[q] = chain[q]
      BY <3>1, <2>6, <2>2, <1>0, <1>2, <1>4 DEF TypeOK
    <3> QED
      BY <3>2, <1>0 DEF Current, Settled
  <2> QED
    BY <2>5, <2>6 DEF Current, LastIsCurrent, Settled
<1> QED
  BY <1>1, <1>3, <1>4 DEF Send

LEMMA SendTradeCurrent ==
  ASSUME TypeOK, Current, SendTrade
  PROVE  Current'
<1>1. PICK p \in Accounts : stream' = Append(stream, Trade(p))
  BY DEF SendTrade, Send
<1>2. Trade(p) \in Messages /\ Trade(p).kind = "trade" /\ stream \in Seq(Messages)
  BY MessageFacts DEF TypeOK
<1>3. /\ \A q : About(q)' = About(q)
      /\ \A i \in DOMAIN stream : stream'[i] = stream[i]
  BY <1>1, <1>2, Arrives
<1>4. \A q : About(q) \subseteq DOMAIN stream
  BY DEF About
<1>5. known' = known /\ chain' = chain /\ missed' = missed
  BY DEF SendTrade, task
<1>6. LastIsCurrent'
  BY <1>3, <1>4, <1>5 DEF Current, LastIsCurrent
<1> QED
  BY <1>3, <1>5, <1>6 DEF Current, Settled

(* What is under way when the stream breaks is missed. *)
LEMMA FaultCurrent ==
  ASSUME TypeOK, Current, StreamLost \/ LookupFails \/ FlushFails \/ Restart
  PROVE  Current'
<1>1. stream' = <<>> /\ chain' = chain
  BY DEF StreamLost, LookupFails, FlushFails, Restart, Fail, Break
<1>2. \A p : About(p)' = {}
  BY <1>1 DEF About
<1>3. CASE Restart
  <2>1. \A p \in DOMAIN known' : p \in Accounts /\ Parses(p, node[p]) /\ known'[p] = node[p].price
    BY <1>3, BootstrapFacts DEF Restart, TypeOK
  <2>2. \A p \in Accounts \ missed' : node[p] = chain[p]
    BY <1>3 DEF Restart, Behind
  <2> QED
    BY <1>1, <1>2, <2>1, <2>2 DEF Current, LastIsCurrent, Settled
<1>4. CASE StreamLost \/ LookupFails \/ FlushFails
  <2>1. known' = known /\ missed' = missed \cup UnderWay
    BY <1>4 DEF StreamLost, LookupFails, FlushFails, Fail
  <2>2. \A p \in DOMAIN known' \ missed' : p \in DOMAIN known \ missed /\ About(p) = {}
    BY <2>1, AboutFacts
  <2> QED
    BY <1>1, <1>2, <2>1, <2>2 DEF Current, LastIsCurrent, Settled
<1> QED
  BY <1>3, <1>4

(* The last message about a pool makes it known as it is, or unknown.      *)
LEMMA ReadAccountCurrent ==
  ASSUME TypeOK, Current, ReadAccount
  PROVE  Current'
<1> DEFINE m == Head(stream)
<1>1. stream # <<>> /\ stream' = Tail(stream) /\ chain' = chain /\ missed' = missed
      /\ m.kind = "account"
  BY DEF ReadAccount
<1>2. m \in Messages /\ m.of \in Accounts /\ m.data \in States /\ m = Account(m.of, m.data)
  BY <1>1, TailTypes, MessageFacts
<1>3. \A p : 1 \in About(p) <=> m.of = p
  BY <1>1, Departs DEF TypeOK
<1>4. LastIsCurrent'
  BY <1>1, DepartureKeepsLast DEF Current
<1>5. ASSUME NEW p \in DOMAIN known' \ missed', About(p)' = {}
      PROVE  Parses(p, chain'[p]) /\ known'[p] = chain'[p].price
  <2>1. CASE p = m.of
    <3>1. p \in Accounts \ missed
      BY <1>1, <1>2, <1>5, <2>1
    <3>2. m = Account(p, chain[p])
      BY <3>1, <1>1, <1>3, <1>5, <2>1, DepartureKeepsLast DEF Current
    <3>3. m.data = chain[p]
      BY <3>2 DEF Account
    <3>4. Parses(p, m.data)
      <4> SUFFICES ASSUME ~Parses(p, m.data) PROVE FALSE
        OBVIOUS
      <4>1. known' = Without(known, p)
        BY <2>1 DEF ReadAccount
      <4> QED
        BY <4>1, <1>5 DEF Without, Restrict
    <3>5. known' = Upserted(known, p, m.data.price)
      BY <2>1, <3>4 DEF ReadAccount
    <3> QED
      BY <1>1, <1>5, <3>3, <3>4, <3>5 DEF Upserted
  <2>2. CASE p # m.of
    <3>1. known' = Upserted(known, m.of, m.data.price) \/ known' = Without(known, m.of)
      BY DEF ReadAccount
    <3>2. p \in DOMAIN known \ missed /\ known'[p] = known[p]
      BY <1>1, <1>5, <2>2, <3>1 DEF Upserted, Without, Restrict
    <3>3. About(p) = {}
      BY <1>1, <1>3, <1>5, <2>2, DepartureKeepsLast DEF Current
    <3> QED
      BY <1>1, <3>2, <3>3 DEF Current, Settled
  <2> QED
    BY <2>1, <2>2
<1> QED
  BY <1>4, <1>5 DEF Current, Settled

LEMMA ReadTradeCurrent ==
  ASSUME TypeOK, Current, ReadTrade
  PROVE  Current'
<1>1. stream # <<>> /\ stream' = Tail(stream) /\ chain' = chain /\ missed' = missed
      /\ known' = known /\ Head(stream).kind = "trade"
  BY DEF ReadTrade
<1>2. \A p : 1 \notin About(p)
  BY <1>1, Departs DEF TypeOK
<1>3. LastIsCurrent' /\ \A p : About(p)' = {} => About(p) = {}
  BY <1>1, <1>2, DepartureKeepsLast DEF Current
<1> QED
  BY <1>1, <1>3 DEF Current, Settled

(* A lookup overtakes the messages under way, which put right what it      *)
(* undoes.  Where there are none, it tells of the pool or it is missed.    *)
LEMMA LookupCurrent ==
  ASSUME TypeOK, Current, Lookup
  PROVE  Current'
<1>1. /\ stream' = stream /\ chain' = chain /\ known' = Hydrated
      /\ missed' = (missed \ (Found \ UnderWay)) \cup ((Found \ UnderWay) \cap Behind)
  BY DEF Lookup
<1>2. \A p : About(p)' = About(p)
  BY <1>1 DEF About
<1>3. \A p : p \notin missed' =>
             \/ p \notin missed /\ (p \in Found => About(p) # {})
             \/ p \in Found /\ About(p) = {} /\ p \notin Behind
  BY <1>1, AboutFacts
<1>4. LastIsCurrent'
  BY <1>1, <1>2, <1>3 DEF Current, LastIsCurrent
<1>5. \A p \in DOMAIN known' : IF p \in Found THEN known'[p] = node[p].price /\ Parses(p, node[p])
                               ELSE p \in DOMAIN known /\ known'[p] = known[p]
  BY <1>1 DEF Hydrated, Found
<1>6. \A p \in Found : p \notin Behind => node[p] = chain[p]
  BY DEF Found, Behind, TypeOK
<1>7. Settled'
  BY <1>1, <1>2, <1>3, <1>5, <1>6 DEF Current, Settled
<1> QED
  BY <1>4, <1>7 DEF Current

LEMMA StepCurrent ==
  ASSUME TypeOK, Current, [Next]_vars
  PROVE  Current'
<1>1. ASSUME UNCHANGED <<chain, stream, known, missed>>
      PROVE  Current'
  BY <1>1 DEF Current, LastIsCurrent, Settled, About
<1>2. CASE FlushNothing \/ Flush \/ WriteList \/ WriteState
  BY <1>1, <1>2 DEF FlushNothing, Flush, WriteList, WriteState
<1>3. CASE Connect \/ CatchUp \/ (\E interval \in {"flush", "lookup"} : Expire(interval))
  BY <1>1, <1>3 DEF Connect, CatchUp, Expire, task
<1>4. CASE UNCHANGED vars
  BY <1>1, <1>4 DEF vars, task
<1> QED
  BY <1>2, <1>3, <1>4, WriteCurrent, SendTradeCurrent, FaultCurrent, ReadAccountCurrent,
     ReadTradeCurrent, LookupCurrent DEF Next, Read, Finish

(* However start, stream and lookups overtake each other, and however far  *)
(* the RPC node is behind the one that streams, a known pool with no       *)
(* message under way is as it is on the chain, unless its last change was  *)
(* lost with the stream or never announced, or an older answer of the RPC  *)
(* came when no message about the pool was left: whatever the length of    *)
(* the stream and the number of faults.                                    *)
THEOREM KnownStaysCurrent == Spec => []KnownIsCurrent
<1>1. Init => TypeOK /\ Current
  BY InitTypes, InitCurrent
<1>2. TypeOK /\ Current /\ [Next]_vars => (TypeOK /\ Current)'
  BY StepTypes, StepCurrent
<1>3. TypeOK /\ Current => KnownIsCurrent
  BY HalvesSuffice DEF Current
<1> QED
  BY <1>1, <1>2, <1>3, PTL DEF Spec
=============================================================================
