----------------------------- MODULE PlanProofs -----------------------------
(***************************************************************************)
(* Proofs about a plan on its way: that its setup pays for the trade       *)
(* (PlanFunding, second part) and what sending it may do (SendPath, first  *)
(* part), for every number of tables and calls and every set of plans, and *)
(* for any builders, amounts, balances and bounds.                         *)
(*                                                                         *)
(* Of the first part, SendInv follows the transactions of a call and       *)
(* ExtensionInv the chunks an extension of the lookup tables has landed.   *)
(*                                                                         *)
(* The two parts share no definition.  The second rests on FundingInv: on  *)
(* the chain as it is, every setup that is held or sent leaves both        *)
(* accounts there, the quote account with what the trade needs, and the    *)
(* extension initialized if the trade relies on it (Provided).  That is    *)
(* kept because the chain only grows: no account is closed, and a trade    *)
(* that lands brings the quote account more than it took (ChainGrows).     *)
(***************************************************************************)
EXTENDS SendPath, PlanFunding, SequenceTheorems, FiniteSetTheorems, TLAPS

-----------------------------------------------------------------------------
(* With live sending off, no transaction of any kind leaves the bot: each  *)
(* action that sends needs a transaction that was built, and building one  *)
(* reads the switch.                                                       *)
THEOREM PausedNeverSends == Spec => []PausedMeansSilent
<1>1. Init => PausedMeansSilent
  BY DEF Init, PausedMeansSilent
<1>2. PausedMeansSilent /\ [Next]_vars => PausedMeansSilent'
  <2> SUFFICES ASSUME PausedMeansSilent, [Next]_vars PROVE PausedMeansSilent'
    OBVIOUS
  <2> USE DEF PausedMeansSilent, settings, call, extension
  <2>1. CASE Call
    BY <2>1 DEF Call
  <2>2. CASE SendFails
    BY <2>2 DEF SendFails, AfterError
  <2>3. CASE TooLarge \/ Build
    BY <2>3 DEF TooLarge, Build, AfterError
  <2>4. CASE Rebuild \/ RebuildFails
    BY <2>4 DEF Rebuild, RebuildFails
  <2>5. CASE Accepted \/ AnswerLost \/ Refused
    BY <2>5 DEF Accepted, AnswerLost, Refused
  <2>6. CASE Confirmed \/ NoStatus \/ StatusUnreadable \/ FailedOnChain
    BY <2>6 DEF Confirmed, NoStatus, StatusUnreadable, FailedOnChain
  <2>7. CASE NotAgain \/ TablesUnreadable \/ NoRoom \/ PlanExtension
    BY <2>7 DEF NotAgain, TablesUnreadable, NoRoom, PlanExtension
  <2>8. CASE SubmitChunk \/ ChunkAnswerLost \/ ChunkNotSent \/ ChunkConfirmed \/ ChunkFails
    BY <2>8 DEF SubmitChunk, ChunkAnswerLost, ChunkNotSent, ChunkConfirmed, ChunkFails
  <2>9. CASE Warmed \/ WarmupFails
    BY <2>9 DEF Warmed, WarmupFails
  <2>10. CASE \E t \in Tables : CacheExpires(t)
    BY <2>10 DEF CacheExpires
  <2>11. CASE \E x \in flight : Extended(x) \/ NotExtended(x)
    <3>1. PICK x \in flight : Extended(x) \/ NotExtended(x)
      BY <2>11
    <3>2. CASE Extended(x)
      <4>1. UNCHANGED settings
        BY <3>2 DEF Extended
      <4> QED
        BY <3>1, <4>1
    <3>3. CASE NotExtended(x)
      BY <3>1, <3>3 DEF NotExtended
    <3> QED
      BY <3>1, <3>2, <3>3
  <2>12. CASE \E i \in DOMAIN sent : Execute(i)
    BY <2>12 DEF Execute
  <2>13. CASE UNCHANGED vars
    BY <2>13 DEF vars
  <2> QED
    BY <2>1, <2>2, <2>3, <2>4, <2>5, <2>6, <2>7, <2>8, <2>9, <2>10, <2>11, <2>12, <2>13
       DEF Next, Bot
<1> QED
  BY <1>1, <1>2, PTL DEF Spec

-----------------------------------------------------------------------------
(* A transaction that can still move funds, or has. *)
Alive(i) == sent[i] \in {"flying", "landed"}

(* The states from which the call may send (again). *)
MaySend == {"send", "submit", "rebuild", "extend", "chunk", "await", "warm"}

(* OneCanLand, made inductive: where the call may send again no            *)
(* transaction of it is alive, and the one that is confirmed is the last.  *)
SendInv ==
    /\ sent \in Seq(Fates)
    /\ pc \in MaySend => \A i \in DOMAIN sent : ~Alive(i)
    /\ pc = "confirm" => sent # <<>> /\ \A i \in DOMAIN sent : Alive(i) => i = Len(sent)
    /\ \A i, j \in DOMAIN sent : Alive(i) /\ Alive(j) => i = j

(* An error that says nothing of the transaction's fate ends the call. *)
LEMMA OtherErrorsEnd ==
  ASSUME NEW e \in {"other", "onchain"}, AfterError(e)
  PROVE  pc' = "idle"
  BY DEF AfterError, Splits, Rebuilds

(* One transaction is added where none is alive: it is the only one. *)
LEMMA FirstAlive ==
  ASSUME SendInv, pc = "submit", Submitted
  PROVE  /\ sent' \in Seq(Fates)
         /\ sent' # <<>>
         /\ \A i \in DOMAIN sent' : Alive(i)' => i = Len(sent')
         /\ \A i, j \in DOMAIN sent' : Alive(i)' /\ Alive(j)' => i = j
<1>1. sent \in Seq(Fates) /\ \A i \in DOMAIN sent : sent[i] \notin {"flying", "landed"}
  BY DEF SendInv, MaySend, Alive
<1>2. sent' = Append(sent, "flying") /\ "flying" \in Fates
  BY DEF Submitted, Fates
<1>3. sent' \in Seq(Fates) /\ Len(sent') = Len(sent) + 1 /\ Len(sent) \in Nat
  BY <1>1, <1>2
<1>4. \A i \in DOMAIN sent' : i # Len(sent') => i \in DOMAIN sent /\ sent'[i] = sent[i]
  BY <1>1, <1>2, <1>3
<1>5. \A i \in DOMAIN sent' : Alive(i)' => i = Len(sent')
  BY <1>1, <1>4 DEF Alive
<1> QED
  BY <1>3, <1>5

(* A step that adds no transaction keeps the invariant when it ends the    *)
(* call, stays where it is, or goes on from where nothing is alive.        *)
LEMMA SendInvKept ==
  ASSUME SendInv, sent' = sent, pc' # "confirm" \/ pc' = pc,
         pc' = "idle" \/ pc' = pc \/ pc \in MaySend
  PROVE  SendInv'
  BY DEF SendInv, Alive, MaySend

(* An error ends the call, splits its plan or builds it again. *)
LEMMA AfterErrorPlaces ==
  ASSUME NEW e, AfterError(e)
  PROVE  pc' \in {"idle", "send", "rebuild"}
  BY DEF AfterError

(* Nothing has been sent at the start. *)
LEMMA SendInvInit == Init => SendInv
<1> SUFFICES ASSUME Init PROVE SendInv
  OBVIOUS
<1>1. sent = <<>> /\ pc = "idle"
  BY DEF Init
<1> QED
  BY <1>1 DEF SendInv, MaySend, Alive

(* No step makes a second transaction able to land: one case for each      *)
(* group of actions.                                                       *)
LEMMA SendInvStep == ~Forks /\ SendInv /\ [Next]_vars => SendInv'
<1> SUFFICES ASSUME ~Forks, SendInv, [Next]_vars PROVE SendInv'
  OBVIOUS
<1> USE DEF settings, call, extension
<1>1. CASE Call
  <2>1. sent' = <<>> /\ pc' = "send"
    BY <1>1 DEF Call
  <2> QED
    BY <2>1 DEF SendInv, Alive, MaySend
<1>2. CASE SendFails \/ TooLarge \/ Build \/ Refused \/ Rebuild \/ RebuildFails
  <2>1. sent' = sent /\ pc \in MaySend
    BY <1>2 DEF SendFails, TooLarge, Build, Refused, Rebuild, RebuildFails, MaySend
  <2>2. pc' # "confirm"
    BY <1>2, AfterErrorPlaces DEF SendFails, TooLarge, Build, Refused, Rebuild, RebuildFails
  <2> QED
    BY <2>1, <2>2, SendInvKept
<1>3. CASE NotAgain \/ TablesUnreadable \/ NoRoom \/ PlanExtension
  <2>1. sent' = sent /\ pc \in MaySend
    BY <1>3 DEF NotAgain, TablesUnreadable, NoRoom, PlanExtension, MaySend
  <2>2. pc' # "confirm"
    BY <1>3, AfterErrorPlaces DEF NotAgain, TablesUnreadable, NoRoom, PlanExtension, NoExtension
  <2> QED
    BY <2>1, <2>2, SendInvKept
<1>4. CASE SubmitChunk \/ ChunkAnswerLost \/ ChunkNotSent \/ ChunkConfirmed \/ ChunkFails
           \/ Warmed \/ WarmupFails
  <2>1. sent' = sent /\ pc \in MaySend
    BY <1>4 DEF SubmitChunk, ChunkAnswerLost, ChunkNotSent, ChunkConfirmed, ChunkFails,
       Warmed, WarmupFails, MaySend
  <2>2. pc' # "confirm"
    BY <1>4, AfterErrorPlaces DEF SubmitChunk, ChunkAnswerLost, ChunkNotSent, ChunkConfirmed,
       ChunkFails, Warmed, WarmupFails, NoExtension
  <2> QED
    BY <2>1, <2>2, SendInvKept
<1>5. CASE Accepted
  <2>1. pc = "submit" /\ Submitted /\ pc' \in {"idle", "confirm"}
    BY <1>5 DEF Accepted, Returns
  <2> QED
    BY <2>1, FirstAlive DEF SendInv, MaySend
<1>6. CASE AnswerLost
  <2>1. pc = "submit" /\ Submitted /\ AfterError("other")
    BY <1>6 DEF AnswerLost
  <2>2. pc' = "idle"
    BY <2>1, OtherErrorsEnd
  <2> QED
    BY <2>1, <2>2, FirstAlive DEF SendInv, MaySend
<1>7. CASE Confirmed \/ NoStatus \/ StatusUnreadable
  <2>1. sent' = sent
    BY <1>7 DEF Confirmed, NoStatus, StatusUnreadable
  <2>2. pc' = "idle"
    BY <1>7, OtherErrorsEnd DEF Confirmed, NoStatus, StatusUnreadable, Returns
  <2> QED
    BY <2>1, <2>2, SendInvKept
<1>8. CASE FailedOnChain
  <2>1. pc = "confirm" /\ sent' = sent /\ sent[Len(sent)] = "failed"
    BY <1>8 DEF FailedOnChain, Fate
  <2>2. pc' \in {"idle", "send", "rebuild"}
    BY <1>8, AfterErrorPlaces DEF FailedOnChain
  <2>3. \A i \in DOMAIN sent : ~Alive(i)
    BY <2>1 DEF SendInv, Alive
  <2> QED
    BY <2>1, <2>2, <2>3 DEF SendInv, Alive, MaySend
<1>9. CASE \E i \in DOMAIN sent : Execute(i)
  <2>1. PICK i \in DOMAIN sent, f \in {"landed", "failed", "expired"} :
           sent[i] = "flying" /\ sent' = [sent EXCEPT ![i] = f] /\ pc' = pc
    BY <1>9 DEF Execute
  <2>2. sent' \in Seq(Fates) /\ Len(sent') = Len(sent) /\ DOMAIN sent' = DOMAIN sent
        /\ (sent # <<>> => sent' # <<>>)
    BY <2>1 DEF SendInv, Fates
  <2>3. \A j \in DOMAIN sent : Alive(j)' => Alive(j)
    BY <2>1 DEF Alive, SendInv
  <2> QED
    BY <2>1, <2>2, <2>3 DEF SendInv, MaySend
<1>10. CASE (\E t \in Tables : CacheExpires(t)) \/ (\E x \in flight : Extended(x) \/ NotExtended(x))
            \/ UNCHANGED vars
  <2>1. sent' = sent /\ pc' = pc
    BY <1>10 DEF CacheExpires, Extended, NotExtended, vars
  <2> QED
    BY <2>1, SendInvKept
<1> QED
  BY <1>1, <1>2, <1>3, <1>4, <1>5, <1>6, <1>7, <1>8, <1>9, <1>10 DEF Next, Bot

(* Two that are alive are the same. *)
LEMMA SendInvImpliesOne == SendInv => OneCanLand
<1> SUFFICES ASSUME SendInv PROVE OneCanLand
  OBVIOUS
<1> DEFINE A == {i \in DOMAIN sent : sent[i] \in {"flying", "landed"}}
<1>1. CASE A = {}
  BY <1>1, FS_EmptySet DEF OneCanLand
<1>2. CASE A # {}
  <2>1. PICK i : i \in A
    BY <1>2
  <2>2. A = {i}
    BY <2>1 DEF SendInv, Alive
  <2>3. Cardinality(A) = 1
    BY <2>2, FS_Singleton
  <2> QED
    BY <2>3 DEF OneCanLand
<1> QED
  BY <1>1, <1>2

(* Where a failure on the chain is final, at most one of a call's          *)
(* transactions moves funds, retries, split and rebuild included.          *)
THEOREM OneTransactionLands ==
  ASSUME ~Forks
  PROVE  Spec => []OneCanLand
<1>1. SendInv /\ [Next]_vars => SendInv'
  BY SendInvStep
<1>2. Init => SendInv
  BY SendInvInit
<1>3. SendInv => OneCanLand
  BY SendInvImpliesOne
<1> QED
  BY <1>1, <1>2, <1>3, PTL DEF Spec

-----------------------------------------------------------------------------
(* Steps one after the other. *)

(* Some natural numbers have a least one. *)
LEMMA LeastOf ==
  ASSUME NEW S, S \subseteq Nat, S # {}
  PROVE  \E m \in S : \A n \in S : m <= n
<1>1. PICK m \in S : \A n \in S : ~(<<n, m>> \in OpToRel(<, Nat))
  BY NatLessThanWellFounded, WFMin
<1>2. \A n \in S : ~(n < m)
  BY <1>1 DEF OpToRel
<1> QED
  BY <1>2

(* What holds at 0 and is handed on holds up to the end. *)
LEMMA UpTo ==
  ASSUME NEW N \in Nat, NEW G, 0 \in G, \A n \in 1..N : n - 1 \in G => n \in G
  PROVE  \A n \in 0..N : n \in G
<1> DEFINE bad == {n \in 0..N : n \notin G}
<1> SUFFICES ASSUME bad # {} PROVE FALSE
  OBVIOUS
<1>1. bad \subseteq Nat
  OBVIOUS
<1>2. PICK m \in bad : \A n \in bad : m <= n
  <2> HIDE DEF bad
  <2> QED
    BY <1>1, LeastOf
<1>3. m \in 1..N /\ m - 1 \in 0..N /\ ~(m <= m - 1)
  BY <1>2
<1>4. m - 1 \in G
  BY <1>2, <1>3
<1> QED
  BY <1>2, <1>3, <1>4

(* Steps taken one after the other are a function of the number of them. *)
Follows(w, N, S, first, step) ==
    w \in [0..N -> S] /\ w[0] = first /\ \A n \in 1..N : w[n] = step[n][w[n - 1]]

(* A recursive function over 0..N has the value its steps lead to. *)
LEMMA Iterated ==
  ASSUME NEW N \in Nat, NEW S, NEW first \in S, NEW step \in [1..N -> [S -> S]]
  PROVE  \E w : Follows(w, N, S, first, step)
<1> DEFINE Taken(n, w) == w[0] = first /\ \A m \in 1..n : w[m] = step[m][w[m - 1]]
           G == {n \in 0..N : \E w \in [0..n -> S] : Taken(n, w)}
<1>1. 0 \in G
  <2> DEFINE v == [n \in 0..0 |-> first]
  <2>1. v \in [0..0 -> S] /\ Taken(0, v)
    OBVIOUS
  <2> HIDE DEF v
  <2> QED
    BY <2>1
<1>2. ASSUME NEW n \in 1..N, n - 1 \in G
      PROVE  n \in G
  <2>1. PICK w \in [0..n - 1 -> S] : Taken(n - 1, w)
    BY <1>2
  <2> DEFINE v == [m \in 0..n |-> IF m = n THEN step[n][w[n - 1]] ELSE w[m]]
  <2>2. n - 1 \in 0..n - 1 /\ w[n - 1] \in S
    BY <2>1
  <2>3. step[n][w[n - 1]] \in S
    BY <2>2
  <2>4. \A m \in 0..n : v[m] \in S
    BY <2>1, <2>3
  <2>5. v \in [0..n -> S]
    BY <2>4
  <2>6. v[0] = first
    BY <2>1
  <2>7. ASSUME NEW m \in 1..n PROVE v[m] = step[m][v[m - 1]]
    <3>1. m - 1 \in 0..n /\ m - 1 # n /\ v[m - 1] = w[m - 1]
      OBVIOUS
    <3>2. CASE m = n
      BY <3>1, <3>2
    <3>3. CASE m # n
      <4>1. m \in 1..n - 1 /\ v[m] = w[m]
        BY <3>3
      <4> QED
        BY <4>1, <3>1, <2>1
    <3> QED
      BY <3>2, <3>3
  <2>8. Taken(n, v)
    BY <2>6, <2>7
  <2> HIDE DEF v
  <2> QED
    BY <2>5, <2>8
<1>3. \A n \in 0..N : n \in G
  <2> HIDE DEF G
  <2> QED
    BY <1>1, <1>2, UpTo
<1>4. N \in G
  BY <1>3
<1> QED
  BY <1>4 DEF Follows

-----------------------------------------------------------------------------
(* Types of the send path: what the tables hold and what is added to them. *)

(* The sequences that fit a table are those no longer than it. *)
LEMMA FittingSeqs ==
  ASSUME NEW s
  PROVE  s \in Seqs <=> s \in Seq(Addresses) /\ Len(s) <= Capacity
<1>0. Capacity \in Nat
  BY SendPathAssumption
<1>1. ASSUME s \in Seqs PROVE s \in Seq(Addresses) /\ Len(s) <= Capacity
  <2>1. PICK n \in 0..Capacity : s \in [1..n -> Addresses]
    BY <1>1 DEF Seqs
  <2>2. s \in Seq(Addresses) /\ Len(s) = n
    BY <1>0, <2>1
  <2> QED
    BY <1>0, <2>2
<1>2. ASSUME s \in Seq(Addresses), Len(s) <= Capacity PROVE s \in Seqs
  <2>1. Len(s) \in 0..Capacity /\ s \in [1..Len(s) -> Addresses]
    BY <1>0, <1>2
  <2> QED
    BY <2>1 DEF Seqs
<1> QED
  BY <1>1, <1>2

(* The tables, as they are and as they were read, are sequences that fit. *)
TablesTyped == table \in [Tables -> Seqs] /\ cache \in [Tables -> Seqs \cup {NoCopy}]

(* So is what the bot sees of one, which leaves it free places or none. *)
LEMMA SeenFits ==
  ASSUME TablesTyped, NEW t \in Tables
  PROVE  Seen(t) \in Seqs /\ Free(t) \in Nat
<1>0. Capacity \in Nat
  BY SendPathAssumption
<1>1. Seen(t) \in Seqs
  BY DEF TablesTyped, Seen
<1>2. Seen(t) \in Seq(Addresses) /\ Len(Seen(t)) <= Capacity
  BY <1>1, FittingSeqs
<1>3. Len(Seen(t)) \in Nat
  BY <1>2
<1> QED
  BY <1>0, <1>1, <1>2, <1>3 DEF Free

(* Reading tables fills the cache with what fits. *)
LEMMA LoadedFits ==
  ASSUME TablesTyped, NEW n
  PROVE  Loaded(n) \in [Tables -> Seqs \cup {NoCopy}]
<1>1. \A t \in Tables : Seen(t) \in Seqs /\ cache[t] \in Seqs \cup {NoCopy}
  BY SeenFits DEF TablesTyped
<1> HIDE DEF Seen
<1> QED
  BY <1>1 DEF Loaded

(* Missing passes over the plan's addresses, keeping those no table lists. *)
LEMMA MissingPasses ==
  ASSUME plan \in Plans
  PROVE  /\ Len(Needs[plan]) \in Nat /\ \A k \in 1..Len(Needs[plan]) : Needs[plan][k] \in Addresses
         /\ \E w \in [0..Len(Needs[plan]) -> Seq(Addresses)] :
               /\ w[0] = <<>> /\ Missing = w[Len(Needs[plan])]
               /\ \A k \in 1..Len(Needs[plan]) :
                     w[k] = IF Needs[plan][k] \in Listed THEN w[k - 1]
                            ELSE Append(w[k - 1], Needs[plan][k])
<1> DEFINE N == Len(Needs[plan])
           need(k) == Needs[plan][k]
           S == Seq(Addresses)
           pass == [k \in 1..N |-> [s \in S |-> IF need(k) \in Listed THEN s ELSE Append(s, need(k))]]
<1>1. N \in Nat /\ \A k \in 1..N : need(k) \in Addresses
  BY SendPathAssumption
<1>2. pass \in [1..N -> [S -> S]] /\ <<>> \in S
      /\ \A k \in 1..N, s \in S :
            pass[k][s] = IF need(k) \in Listed THEN s ELSE Append(s, need(k))
  <2>1. \A k \in 1..N, s \in S : Append(s, need(k)) \in S
    <3> HIDE DEF N, need
    <3> QED
      BY <1>1
  <2>2. <<>> \in S
    OBVIOUS
  <2> HIDE DEF N, need, S
  <2> QED
    BY <2>1, <2>2
<1>3. PICK w : Follows(w, N, S, <<>>, pass)
  <2> HIDE DEF N, S, pass
  <2> QED
    BY <1>1, <1>2, Iterated
<1>4. /\ w \in [0..N -> S] /\ w[0] = <<>>
      /\ \A k \in 1..N : w[k] = IF need(k) \in Listed THEN w[k - 1] ELSE Append(w[k - 1], need(k))
  <2>1. \A k \in 1..N : k - 1 \in 0..N
    BY <1>1
  <2> HIDE DEF N, S, need, pass
  <2> QED
    BY <2>1, <1>2, <1>3 DEF Follows
<1> DEFINE missing[k \in 0..N] ==
               IF k = 0 THEN <<>>
               ELSE IF Needs[plan][k] \in Listed THEN missing[k - 1]
               ELSE Append(missing[k - 1], Needs[plan][k])
<1>5. missing = [k \in 0..N |-> IF k = 0 THEN <<>>
                                ELSE IF need(k) \in Listed THEN missing[k - 1]
                                ELSE Append(missing[k - 1], need(k))]
  <2>1. w = [k \in 0..N |-> IF k = 0 THEN <<>>
                            ELSE IF Needs[plan][k] \in Listed THEN w[k - 1]
                            ELSE Append(w[k - 1], Needs[plan][k])]
    <3>1. \A k \in 0..N : k # 0 => k \in 1..N
      BY <1>1
    <3> HIDE DEF N, S, pass
    <3> QED
      BY <1>4, <3>1
  <2> HIDE DEF N, S, pass
  <2> QED
    BY <2>1 DEF missing
<1>6. Missing = missing[N]
  BY DEF Missing
<1> DEFINE G == {k \in 0..N : missing[k] = w[k]}
<1>7. 0 \in G /\ \A k \in 1..N : k - 1 \in G => k \in G
  <2>1. 0 \in 0..N /\ \A k \in 1..N : k \in 0..N /\ k # 0 /\ k - 1 \in 0..N
    BY <1>1
  <2> HIDE DEF N, S, pass, need, missing
  <2>2. missing[0] = <<>>
        /\ \A k \in 1..N : missing[k] = IF need(k) \in Listed THEN missing[k - 1]
                                        ELSE Append(missing[k - 1], need(k))
    BY <1>5, <2>1
  <2> QED
    BY <1>4, <2>1, <2>2
<1>8. N \in G /\ N \in 0..N
  <2>1. N \in 0..N
    BY <1>1
  <2> HIDE DEF N, G
  <2> QED
    BY <1>1, <1>7, <2>1, UpTo
<1>9. Missing = w[N]
  BY <1>6, <1>8
<1> HIDE DEF missing, pass
<1> QED
  BY <1>1, <1>4, <1>9

(* What it keeps is a sequence of addresses, and all of them but those     *)
(* some table lists.                                                       *)
LEMMA MissingTyped ==
  ASSUME plan \in Plans
  PROVE  /\ Missing \in Seq(Addresses)
         /\ ToSet(Needs[plan]) \subseteq Listed \cup ToSet(Missing)
<1> DEFINE N == Len(Needs[plan])
           need(k) == Needs[plan][k]
<1>1. N \in Nat /\ \A k \in 1..N : need(k) \in Addresses
  BY MissingPasses
<1>2. PICK w \in [0..N -> Seq(Addresses)] :
         /\ w[0] = <<>> /\ Missing = w[N]
         /\ \A k \in 1..N : w[k] = IF need(k) \in Listed THEN w[k - 1] ELSE Append(w[k - 1], need(k))
  BY MissingPasses
<1> DEFINE G == {n \in 0..N : \A k \in 1..n : need(k) \in Listed \/ need(k) \in ToSet(w[n])}
<1> HIDE DEF N, need
<1>3. 0 \in G
  BY <1>1
<1>4. ASSUME NEW n \in 1..N, n - 1 \in G
      PROVE  n \in G
  <2>1. n \in 0..N /\ n - 1 \in 0..N /\ w[n - 1] \in Seq(Addresses) /\ need(n) \in Addresses
    BY <1>1, <1>2
  <2>2. \A k \in 1..(n - 1) : need(k) \in Listed \/ need(k) \in ToSet(w[n - 1])
    BY <1>4
  <2>3. ToSet(w[n - 1]) \subseteq ToSet(w[n]) /\ (need(n) \in Listed \/ need(n) \in ToSet(w[n]))
    <3>1. CASE need(n) \in Listed
      BY <1>2, <3>1
    <3>2. CASE need(n) \notin Listed
      <4> DEFINE v == w[n - 1]
      <4>1. w[n] = Append(v, need(n)) /\ v \in Seq(Addresses)
        BY <1>2, <2>1, <3>2
      <4> HIDE DEF v
      <4>2. /\ Len(Append(v, need(n))) = Len(v) + 1 /\ Len(v) \in Nat
            /\ Append(v, need(n))[Len(v) + 1] = need(n)
            /\ \A i \in 1..Len(v) : Append(v, need(n))[i] = v[i]
            /\ DOMAIN v = 1..Len(v) /\ DOMAIN Append(v, need(n)) = 1..(Len(v) + 1)
        BY <2>1, <4>1
      <4>3. ToSet(v) \subseteq ToSet(Append(v, need(n))) /\ need(n) \in ToSet(Append(v, need(n)))
        BY <4>2 DEF ToSet
      <4> QED
        BY <4>1, <4>3 DEF v
    <3> QED
      BY <3>1, <3>2
  <2>4. \A k \in 1..n : k = n \/ k \in 1..(n - 1)
    BY <1>1
  <2> QED
    BY <2>1, <2>2, <2>3, <2>4
<1>5. N \in G
  <2> HIDE DEF G
  <2>1. \A n \in 0..N : n \in G
    BY <1>1, <1>3, <1>4, UpTo
  <2> QED
    BY <1>1, <2>1
<1>6. ToSet(Needs[plan]) \subseteq Listed \cup ToSet(Missing)
  <2>1. \A u \in ToSet(Needs[plan]) : \E k \in 1..N : u = need(k)
    <3>1. Needs[plan] \in Seq(Addresses)
      BY SendPathAssumption
    <3> QED
      BY <3>1 DEF ToSet, N, need
  <2> QED
    BY <1>2, <1>5, <2>1
<1>7. Missing \in Seq(Addresses)
  BY <1>1, <1>2
<1> QED
  BY <1>6, <1>7

(* The free places of the first tables are a number, growing with each. *)
LEMMA RoomTyped ==
  ASSUME TablesTyped
  PROVE  /\ Room[0] = 0
         /\ \A t \in Tables : Room[t] = Room[t - 1] + Free(t)
         /\ \A t \in 0..NTables : Room[t] \in Nat
<1> DEFINE plus == [t \in 1..NTables |-> [n \in Nat |-> n + Free(t)]]
<1>1. NTables \in Nat /\ \A t \in 1..NTables : Free(t) \in Nat
  BY SendPathAssumption, SeenFits DEF Tables
<1>2. plus \in [1..NTables -> [Nat -> Nat]] /\ 0 \in Nat
      /\ \A t \in 1..NTables, n \in Nat : plus[t][n] = n + Free(t)
  <2>1. \A t \in 1..NTables, n \in Nat : n + Free(t) \in Nat
    BY <1>1
  <2> QED
    BY <2>1
<1>3. PICK w : Follows(w, NTables, Nat, 0, plus)
  <2> HIDE DEF plus
  <2> QED
    BY <1>1, <1>2, Iterated
<1>4. w \in [0..NTables -> Nat] /\ w[0] = 0 /\ \A t \in 1..NTables : w[t] = w[t - 1] + Free(t)
  <2>1. \A t \in 1..NTables : t - 1 \in 0..NTables
    BY <1>1
  <2> HIDE DEF plus
  <2> QED
    BY <2>1, <1>2, <1>3 DEF Follows
<1>5. Room = [t \in 0..NTables |-> IF t = 0 THEN 0 ELSE Room[t - 1] + Free(t)]
  <2>1. w = [t \in 0..NTables |-> IF t = 0 THEN 0 ELSE w[t - 1] + Free(t)]
    <3>1. \A t \in 0..NTables : t # 0 => t \in 1..NTables
      BY <1>1
    <3> HIDE DEF plus
    <3> QED
      BY <1>4, <3>1
  <2> HIDE DEF plus
  <2> QED
    BY <2>1 DEF Room
<1>6. Room[0] = 0 /\ \A t \in 1..NTables : Room[t] = Room[t - 1] + Free(t)
  <2>1. 0 \in 0..NTables /\ \A t \in 1..NTables : t \in 0..NTables /\ t # 0
    BY <1>1
  <2> HIDE DEF plus
  <2> QED
    BY <1>5, <2>1
<1> DEFINE G == {t \in 0..NTables : Room[t] \in Nat}
<1>7. 0 \in G /\ \A t \in 1..NTables : t - 1 \in G => t \in G
  <2>1. 0 \in 0..NTables /\ \A t \in 1..NTables : t \in 0..NTables
    BY <1>1
  <2>2. ASSUME NEW t \in 1..NTables, Room[t - 1] \in Nat PROVE Room[t] \in Nat
    BY <1>1, <1>6, <2>2
  <2> QED
    BY <1>6, <2>1, <2>2
<1>8. \A t \in 0..NTables : t \in G
  <2> HIDE DEF G
  <2> QED
    BY <1>1, <1>7, UpTo
<1> QED
  BY <1>6, <1>8 DEF Tables

(* What each table is given of them is a sequence of addresses too. *)
LEMMA ShareTyped ==
  ASSUME TablesTyped, plan \in Plans, NEW t \in Tables
  PROVE  Share(t) \in Seq(Addresses)
<1>1. Missing \in Seq(Addresses) /\ Len(Missing) \in Nat
  BY MissingTyped
<1>2. t - 1 \in 0..NTables /\ t \in 0..NTables
  BY SendPathAssumption DEF Tables
<1>3. Room[t - 1] \in Nat /\ Room[t] \in Nat
  BY <1>2, RoomTyped
<1>4. Upto(Room[t], Len(Missing)) \in Nat /\ Upto(Room[t], Len(Missing)) <= Len(Missing)
  BY <1>1, <1>3 DEF Upto
<1> DEFINE from == Room[t - 1] + 1
           to == Upto(Room[t], Len(Missing))
<1>5. from \in Nat \ {0} /\ to \in Nat /\ to <= Len(Missing)
  BY <1>3, <1>4
<1>6. SubSeq(Missing, from, to) \in Seq(Addresses)
  <2> HIDE DEF from, to
  <2>1. \A i \in from..to : Missing[i] \in Addresses
    BY <1>1, <1>5
  <2> QED
    BY <1>1, <1>5, <2>1
<1> QED
  BY <1>6 DEF Share

(* An extension that is under way has something to add: its table is one   *)
(* of the tables, and the chunk and what is left are sequences.            *)
Adding == todo \in [Tables -> Seq(Addresses)] /\ \E t \in Tables : todo[t] # <<>>

LEMMA TargetFacts ==
  ASSUME Adding
  PROVE  /\ Target \in Tables /\ todo[Target] # <<>>
         /\ Chunk \in Seq(Addresses)
         /\ SubSeq(todo[Target], Len(Chunk) + 1, Len(todo[Target])) \in Seq(Addresses)
<1> DEFINE S == {t \in Tables : todo[t] # <<>>}
<1>0. NTables \in Nat
  BY SendPathAssumption
<1>1. S \subseteq Nat /\ S # {}
  <2>1. Tables \subseteq Nat
    BY <1>0 DEF Tables
  <2>2. PICK t \in Tables : todo[t] # <<>>
    BY DEF Adding
  <2>3. t \in S
    BY <2>2
  <2> QED
    BY <2>1, <2>3
<1>2. PICK m \in S : \A n \in S : m <= n
  <2> HIDE DEF S
  <2> QED
    BY <1>1, LeastOf
<1>3. \A u \in 1..(m - 1) : u \in Tables /\ ~(m <= u)
  BY <1>2, SendPathAssumption DEF Tables
<1>4. m \in Tables /\ todo[m] # <<>> /\ \A u \in 1..(m - 1) : todo[u] = <<>>
  BY <1>2, <1>3
<1>5. Target \in Tables /\ todo[Target] # <<>>
  BY <1>4 DEF Target
<1> DEFINE s == todo[Target]
           n == Upto(ChunkSize, Len(s))
<1>6. s \in Seq(Addresses) /\ Len(s) \in Nat
  BY <1>5 DEF Adding
<1>7. n \in 0..Len(s)
  BY <1>6, SendPathAssumption DEF Upto
<1> HIDE DEF s, n
<1>8. SubSeq(s, 1, n) \in Seq(Addresses) /\ Len(SubSeq(s, 1, n)) = n
  BY <1>6, <1>7
<1>9. SubSeq(s, n + 1, Len(s)) \in Seq(Addresses)
  BY <1>6, <1>7
<1> QED
  BY <1>5, <1>8, <1>9 DEF Chunk, s, n

(* The settings, and where a call is. *)
PlaceTyped ==
    /\ live \in BOOLEAN /\ jito \in BOOLEAN
    /\ calls \in 0..MaxCalls
    /\ plan \in Plans /\ attempt \in 1..3 /\ rebuilt \in BOOLEAN
    /\ pc \in {"idle", "send", "submit", "confirm", "rebuild", "extend", "chunk", "await", "warm"}
    /\ error \in Errors
    /\ sent \in Seq(Fates)
    /\ exhausted \in BOOLEAN /\ rest \in BOOLEAN
    /\ outcome \in {"none", "landed", "failed"}

(* TypeOK, made inductive: behind the gate a call is counted, while chunks *)
(* are sent some are left, and what flies to a table is addresses.         *)
SendTypes ==
    /\ PlaceTyped
    /\ TablesTyped
    /\ todo \in [Tables -> Seq(Addresses)]
    /\ pc # "idle" => calls >= 1
    /\ pc \in {"chunk", "await"} => \E t \in Tables : todo[t] # <<>>
    /\ \A x \in flight : /\ x.round \in 2..(2 * MaxCalls + 1) /\ x.table \in Tables
                         /\ x.adds \in Seq(Addresses)

LEMMA SendTypesInit == Init => SendTypes
<1> SUFFICES ASSUME Init PROVE SendTypes
  OBVIOUS
<1>1. <<>> \in Seq(Addresses) /\ <<>> \in Seq(Fates)
  OBVIOUS
<1>2. plan \in Plans
  BY SendPathAssumption DEF Init
<1>3. PlaceTyped
  <2>1. /\ live \in BOOLEAN /\ jito \in BOOLEAN /\ rebuilt \in BOOLEAN
        /\ exhausted \in BOOLEAN /\ rest \in BOOLEAN
    BY DEF Init
  <2>2. calls \in 0..MaxCalls /\ attempt \in 1..3
    BY SendPathAssumption DEF Init
  <2>3. sent \in Seq(Fates)
    BY <1>1 DEF Init
  <2> QED
    BY <1>2, <2>1, <2>2, <2>3 DEF Init, PlaceTyped, Errors
<1>4. TablesTyped
  BY SendPathAssumption DEF Init, TablesTyped
<1>5. todo \in [Tables -> Seq(Addresses)] /\ flight = {} /\ pc = "idle"
  BY <1>1 DEF Init
<1> QED
  BY <1>3, <1>4, <1>5 DEF SendTypes

(* What follows an error is typed, and is not the middle of an extension. *)
LEMMA AfterErrorTyped ==
  ASSUME PlaceTyped, NEW e \in Errors, AfterError(e)
  PROVE  /\ pc' \in {"idle", "send", "rebuild"} /\ error' \in Errors
         /\ plan' = plan /\ attempt' \in 1..3 /\ rebuilt' = rebuilt
  BY DEF PlaceTyped, AfterError

(* Nor is what follows an extension that added nothing. *)
LEMMA NoExtensionTyped ==
  ASSUME PlaceTyped, NoExtension
  PROVE  /\ pc' \in {"idle", "send", "rebuild"} /\ error' \in Errors
         /\ plan' = plan /\ attempt' \in 1..3 /\ rebuilt' = rebuilt
         /\ todo' \in [Tables -> Seq(Addresses)] /\ rest' \in BOOLEAN
         /\ outcome' \in {"none", "landed", "failed"}
<1>1. "tooLarge" \in Errors /\ AfterError("tooLarge")
  BY DEF NoExtension, Errors
<1>2. <<>> \in Seq(Addresses)
  OBVIOUS
<1> QED
  BY <1>1, <1>2, AfterErrorTyped DEF NoExtension, Nothing

LEMMA PlaceStep == PlaceTyped /\ [Next]_vars => PlaceTyped'
<1> SUFFICES ASSUME PlaceTyped, [Next]_vars PROVE PlaceTyped'
  OBVIOUS
<1> USE DEF settings, call, extension
<1>0. {"none", "tooLarge", "locks", "window", "onchain", "other"} \subseteq Errors
  BY DEF Errors
<1>1. CASE Call
  <2>1. <<>> \in Seq(Fates) /\ calls + 1 \in 0..MaxCalls
    BY <1>1, SendPathAssumption DEF Call, PlaceTyped
  <2>2. sent' \in Seq(Fates) /\ rebuilt' \in BOOLEAN
    BY <1>1, <2>1 DEF Call
  <2> QED
    BY <1>0, <1>1, <2>1, <2>2 DEF Call, PlaceTyped
<1>2. CASE SendFails
  BY <1>0, <1>2, AfterErrorTyped DEF SendFails, PlaceTyped
<1>3. CASE TooLarge
  BY <1>0, <1>3, AfterErrorTyped DEF TooLarge, PlaceTyped
<1>4. CASE Build \/ Rebuild \/ RebuildFails
  <2>1. rebuilt' \in BOOLEAN
    BY <1>4 DEF Build, Rebuild, RebuildFails, PlaceTyped
  <2> QED
    BY <1>4, <2>1 DEF Build, Rebuild, RebuildFails, PlaceTyped
<1>5. CASE Accepted \/ AnswerLost
  <2>1. sent' \in Seq(Fates)
    BY <1>5 DEF Accepted, AnswerLost, Submitted, PlaceTyped, Fates
  <2>2. CASE Accepted
    BY <1>0, <2>1, <2>2 DEF Accepted, Returns, PlaceTyped
  <2>3. CASE AnswerLost
    BY <1>0, <2>1, <2>3, AfterErrorTyped DEF AnswerLost, PlaceTyped
  <2> QED
    BY <1>5, <2>2, <2>3
<1>6. CASE Refused
  <2>1. PICK e \in Errors : AfterError(e)
    BY <1>0, <1>6 DEF Refused
  <2> QED
    BY <1>6, <2>1, AfterErrorTyped DEF Refused, PlaceTyped
<1>7. CASE Confirmed \/ NoStatus
  BY <1>0, <1>7 DEF Confirmed, NoStatus, Returns, PlaceTyped
<1>8. CASE StatusUnreadable \/ FailedOnChain
  <2>1. PICK e \in Errors : AfterError(e)
    BY <1>0, <1>8 DEF StatusUnreadable, FailedOnChain
  <2> QED
    BY <1>8, <2>1, AfterErrorTyped DEF StatusUnreadable, FailedOnChain, PlaceTyped
<1>9. CASE NotAgain \/ TablesUnreadable \/ NoRoom
  <2>1. NoExtension
    BY <1>9 DEF NotAgain, TablesUnreadable, NoRoom
  <2>2. exhausted' \in BOOLEAN
    BY <1>9 DEF NotAgain, TablesUnreadable, NoRoom, PlaceTyped
  <2> QED
    BY <1>9, <2>1, <2>2, NoExtensionTyped DEF NotAgain, TablesUnreadable, NoRoom, PlaceTyped
<1>10. CASE PlanExtension
  <2>1. rest' \in BOOLEAN
    BY <1>10 DEF PlanExtension
  <2> QED
    BY <1>10, <2>1 DEF PlanExtension, PlaceTyped
<1>11. CASE SubmitChunk \/ ChunkConfirmed
  BY <1>11 DEF SubmitChunk, ChunkConfirmed, PlaceTyped
<1>12. CASE ChunkAnswerLost \/ ChunkNotSent \/ ChunkFails \/ WarmupFails
  BY <1>12, NoExtensionTyped DEF ChunkAnswerLost, ChunkNotSent, ChunkFails, WarmupFails, PlaceTyped
<1>13. CASE Warmed
  <2>1. exhausted' \in BOOLEAN /\ rest' \in BOOLEAN
    BY <1>13 DEF Warmed
  <2> QED
    BY <1>13, <2>1 DEF Warmed, PlaceTyped
<1>14. CASE \E t \in Tables : CacheExpires(t)
  BY <1>14 DEF CacheExpires, PlaceTyped
<1>15. CASE \E x \in flight : Extended(x) \/ NotExtended(x)
  <2>1. UNCHANGED <<live, jito, calls, plan, attempt, rebuilt, pc, error, sent, exhausted, rest>>
    BY <1>15 DEF Extended, NotExtended, settings, call
  <2>2. outcome' \in {outcome, "landed", "failed"}
    BY <1>15 DEF Extended, NotExtended
  <2> QED
    BY <2>1, <2>2 DEF PlaceTyped
<1>16. CASE \E i \in DOMAIN sent : Execute(i)
  <2>1. PICK i \in DOMAIN sent, f \in {"landed", "failed", "expired", "flying"} :
           sent' = [sent EXCEPT ![i] = f]
    BY <1>16 DEF Execute
  <2>2. sent' \in Seq(Fates)
    BY <2>1 DEF PlaceTyped, Fates
  <2> QED
    BY <1>16, <2>2 DEF Execute, PlaceTyped
<1>17. CASE UNCHANGED vars
  BY <1>17 DEF vars, PlaceTyped
<1> QED
  BY <1>1, <1>2, <1>3, <1>4, <1>5, <1>6, <1>7, <1>8, <1>9, <1>10, <1>11, <1>12, <1>13, <1>14,
     <1>15, <1>16, <1>17 DEF Next, Bot

(* An extension's transaction that lands fits its table or changes none. *)
LEMMA ExtendedTyped ==
  ASSUME SendTypes, NEW x \in flight, Extended(x)
  PROVE  table' \in [Tables -> Seqs]
<1>1. x.table \in Tables /\ x.adds \in Seq(Addresses)
  BY DEF SendTypes
<1> DEFINE s == table[x.table]
           joined == s \o x.adds
<1>2. s \in Seqs
  BY <1>1 DEF SendTypes, TablesTyped
<1>3. s \in Seq(Addresses)
  BY <1>2, FittingSeqs
<1>4. joined \in Seq(Addresses) /\ Len(joined) = Len(s) + Len(x.adds)
  <2> HIDE DEF s
  <2> QED
    BY <1>1, <1>3
<1>5. CASE Len(s) + Len(x.adds) <= Capacity
  <2>1. table' = [table EXCEPT ![x.table] = joined]
    BY <1>5 DEF Extended
  <2>2. joined \in Seqs
    <3> HIDE DEF joined
    <3> QED
      BY <1>4, <1>5, FittingSeqs
  <2> HIDE DEF joined
  <2> QED
    BY <2>1, <2>2 DEF SendTypes, TablesTyped
<1>6. CASE ~(Len(s) + Len(x.adds) <= Capacity)
  BY <1>6 DEF Extended, SendTypes, TablesTyped
<1> QED
  BY <1>5, <1>6

(* A chunk that is sent adds addresses to one of the tables. *)
LEMMA ChunkTyped ==
  ASSUME SendTypes, pc = "chunk", ChunkSent
  PROVE  \A x \in flight' : /\ x.round \in 2..(2 * MaxCalls + 1) /\ x.table \in Tables
                            /\ x.adds \in Seq(Addresses)
<1>1. Target \in Tables /\ Chunk \in Seq(Addresses)
  BY TargetFacts DEF SendTypes, Adding
<1>2. Round \in 2..(2 * MaxCalls + 1)
  <2>1. calls \in 1..MaxCalls /\ MaxCalls \in Nat
    BY SendPathAssumption DEF SendTypes, PlaceTyped
  <2> QED
    BY <2>1 DEF Round
<1> HIDE DEF Target, Chunk, Round
<1> QED
  BY <1>1, <1>2 DEF SendTypes, ChunkSent

(* After a chunk is confirmed the extension goes on where some is left. *)
LEMMA ChunkConfirmedTyped ==
  ASSUME SendTypes, ChunkConfirmed
  PROVE  /\ todo' \in [Tables -> Seq(Addresses)] /\ TablesTyped'
         /\ pc' = "warm" \/ (pc' = "chunk" /\ \E t \in Tables : todo'[t] # <<>>)
<1> DEFINE t == Target
           left == SubSeq(todo[t], Len(Chunk) + 1, Len(todo[t]))
<1>1. t \in Tables /\ left \in Seq(Addresses)
  BY TargetFacts DEF SendTypes, Adding, ChunkConfirmed
<1>2. /\ todo' = [todo EXCEPT ![t] = left]
      /\ cache' = Forget(t, left) /\ table' = table
      /\ pc' = IF left = <<>> /\ \A u \in Tables \ {t} : todo[u] = <<>> THEN "warm" ELSE "chunk"
  BY DEF ChunkConfirmed
<1> HIDE DEF t, left
<1>3. todo \in [Tables -> Seq(Addresses)] /\ TablesTyped
  BY DEF SendTypes
<1>4. todo' \in [Tables -> Seq(Addresses)]
  BY <1>1, <1>2, <1>3
<1>5. TablesTyped'
  BY <1>2, <1>3 DEF TablesTyped, Forget
<1>6. CASE left = <<>> /\ \A u \in Tables \ {t} : todo[u] = <<>>
  BY <1>2, <1>4, <1>5, <1>6
<1>7. CASE left # <<>>
  <2>1. todo'[t] # <<>>
    BY <1>1, <1>2, <1>3, <1>7
  <2> QED
    BY <1>1, <1>2, <1>4, <1>5, <1>7, <2>1
<1>8. CASE \E u \in Tables \ {t} : todo[u] # <<>>
  <2>1. PICK u \in Tables \ {t} : todo[u] # <<>>
    BY <1>8
  <2>2. todo'[u] # <<>>
    BY <1>2, <1>3, <2>1
  <2> QED
    BY <1>2, <1>4, <1>5, <1>8, <2>1, <2>2
<1> QED
  BY <1>6, <1>7, <1>8

(* A step that leaves tables, extension and flight alone, and does not     *)
(* enter an extension.                                                     *)
LEMMA ExtensionKept ==
  ASSUME SendTypes, PlaceTyped', TablesTyped',
         todo' \in [Tables -> Seq(Addresses)],
         flight' \subseteq flight,
         pc' \notin {"chunk", "await"},
         pc' # "idle" => calls' >= 1
  PROVE  SendTypes'
  BY DEF SendTypes

(* Every step keeps the types: one case for each group of actions. *)
LEMMA SendTypesStep == SendTypes /\ [Next]_vars => SendTypes'
<1> SUFFICES ASSUME SendTypes, [Next]_vars PROVE SendTypes'
  OBVIOUS
<1> USE DEF settings, call, extension
<1>0. /\ PlaceTyped /\ PlaceTyped' /\ TablesTyped
      /\ todo \in [Tables -> Seq(Addresses)]
      /\ pc # "idle" => calls >= 1
      /\ calls \in Nat
  <2>1. PlaceTyped /\ calls \in Nat
    BY SendPathAssumption DEF SendTypes, PlaceTyped
  <2> QED
    BY <2>1, PlaceStep DEF SendTypes
<1>1. \A n : Loaded(n) \in [Tables -> Seqs \cup {NoCopy}]
  BY <1>0, LoadedFits
<1>2. CASE Call
  <2>1. TablesTyped' /\ calls' >= 1
    BY <1>0, <1>2 DEF Call, TablesTyped
  <2> QED
    BY <1>0, <1>2, <2>1, ExtensionKept DEF Call
<1>3. CASE SendFails \/ TooLarge \/ Build
  <2>1. cache' \in [Tables -> Seqs \cup {NoCopy}]
    BY <1>0, <1>1, <1>3 DEF SendFails, TooLarge, Build, TablesTyped
  <2>2. TablesTyped'
    BY <1>0, <1>3, <2>1 DEF SendFails, TooLarge, Build, TablesTyped
  <2>3. pc' \notin {"chunk", "await"} /\ calls' >= 1
    BY <1>0, <1>3 DEF SendFails, TooLarge, Build, AfterError
  <2> QED
    BY <1>0, <1>3, <2>2, <2>3, ExtensionKept DEF SendFails, TooLarge, Build
<1>4. CASE Accepted \/ AnswerLost \/ Refused \/ Confirmed \/ NoStatus \/ StatusUnreadable
           \/ FailedOnChain \/ Rebuild \/ RebuildFails
  <2>1. TablesTyped' /\ UNCHANGED <<todo, flight>>
    BY <1>0, <1>4 DEF Accepted, AnswerLost, Refused, Confirmed, NoStatus, StatusUnreadable,
       FailedOnChain, Rebuild, RebuildFails, TablesTyped
  <2>2. pc' \notin {"chunk", "await"} /\ calls' >= 1
    BY <1>0, <1>4 DEF Accepted, AnswerLost, Refused, Confirmed, NoStatus, StatusUnreadable,
       FailedOnChain, Rebuild, RebuildFails, AfterError, Returns
  <2> QED
    BY <1>0, <2>1, <2>2, ExtensionKept
<1>5. CASE NotAgain \/ TablesUnreadable \/ NoRoom \/ ChunkNotSent \/ ChunkFails \/ WarmupFails
  <2>1. NoExtension /\ UNCHANGED <<calls, flight, table>>
    BY <1>5 DEF NotAgain, TablesUnreadable, NoRoom, ChunkNotSent, ChunkFails, WarmupFails
  <2>2. cache' \in [Tables -> Seqs \cup {NoCopy}]
    BY <1>0, <1>1, <1>5 DEF NotAgain, TablesUnreadable, NoRoom, ChunkNotSent, ChunkFails,
       WarmupFails, TablesTyped
  <2>3. TablesTyped'
    BY <1>0, <2>1, <2>2 DEF TablesTyped
  <2>4. pc' \notin {"chunk", "await"} /\ todo' \in [Tables -> Seq(Addresses)]
    BY <1>0, <2>1, NoExtensionTyped
  <2>5. calls' >= 1
    BY <1>0, <1>5, <2>1 DEF NotAgain, TablesUnreadable, NoRoom, ChunkNotSent, ChunkFails,
       WarmupFails
  <2> QED
    BY <1>0, <2>1, <2>3, <2>4, <2>5, ExtensionKept
<1>6. CASE PlanExtension
  <2>1. \A t \in Tables : Share(t) \in Seq(Addresses)
    BY <1>0, ShareTyped DEF PlaceTyped
  <2>2. /\ pc = "extend" /\ pc' = "chunk" /\ UNCHANGED <<calls, flight, table>>
        /\ cache' = Loaded(NTables) /\ todo' = [t \in Tables |-> Share(t)]
        /\ \E t \in Tables : Share(t) # <<>>
    BY <1>6 DEF PlanExtension
  <2> HIDE DEF Share
  <2>3. todo' \in [Tables -> Seq(Addresses)] /\ \E t \in Tables : todo'[t] # <<>>
    BY <2>1, <2>2
  <2>4. TablesTyped'
    BY <1>0, <1>1, <2>2 DEF TablesTyped
  <2> QED
    BY <1>0, <2>2, <2>3, <2>4 DEF SendTypes
<1>7. CASE SubmitChunk
  <2>1. /\ pc = "chunk" /\ ChunkSent /\ UNCHANGED <<calls, todo, table, cache>>
    BY <1>7 DEF SubmitChunk
  <2>2. TablesTyped'
    BY <1>0, <2>1 DEF TablesTyped
  <2> QED
    BY <1>0, <2>1, <2>2, ChunkTyped DEF SendTypes
<1>8. CASE ChunkAnswerLost
  <2>1. /\ pc = "chunk" /\ ChunkSent /\ NoExtension /\ UNCHANGED <<calls, table, cache>>
    BY <1>8 DEF ChunkAnswerLost
  <2>2. TablesTyped'
    BY <1>0, <2>1 DEF TablesTyped
  <2>3. pc' \notin {"chunk", "await"} /\ todo' \in [Tables -> Seq(Addresses)]
    BY <1>0, <2>1, NoExtensionTyped
  <2> QED
    BY <1>0, <2>1, <2>2, <2>3, ChunkTyped DEF SendTypes
<1>9. CASE ChunkConfirmed
  <2>1. pc = "await" /\ UNCHANGED <<calls, flight>>
    BY <1>9 DEF ChunkConfirmed
  <2> QED
    BY <1>0, <1>9, <2>1, ChunkConfirmedTyped DEF SendTypes
<1>10. CASE Warmed
  <2>1. pc = "warm" /\ pc' = "send" /\ UNCHANGED <<calls, table, cache, todo, flight>>
    BY <1>10 DEF Warmed
  <2>2. TablesTyped'
    BY <1>0, <2>1 DEF TablesTyped
  <2> QED
    BY <1>0, <2>1, <2>2, ExtensionKept
<1>11. CASE \E t \in Tables : CacheExpires(t)
  <2>1. PICK t \in Tables : CacheExpires(t)
    BY <1>11
  <2>2. /\ cache' = [cache EXCEPT ![t] = NoCopy]
        /\ UNCHANGED <<pc, calls, table, todo, flight>>
    BY <2>1 DEF CacheExpires
  <2>3. TablesTyped'
    BY <1>0, <2>2 DEF TablesTyped
  <2> QED
    BY <1>0, <2>2, <2>3 DEF SendTypes
<1>12. CASE \E x \in flight : Extended(x) \/ NotExtended(x)
  <2>1. PICK x \in flight : Extended(x) \/ NotExtended(x)
    BY <1>12
  <2>2. flight' \subseteq flight /\ UNCHANGED <<pc, calls, cache, todo>>
    BY <2>1 DEF Extended, NotExtended
  <2>3. table' \in [Tables -> Seqs]
    BY <1>0, <2>1, ExtendedTyped DEF NotExtended, TablesTyped
  <2>4. TablesTyped'
    BY <1>0, <2>2, <2>3 DEF TablesTyped
  <2> QED
    BY <1>0, <2>2, <2>4 DEF SendTypes
<1>13. CASE (\E i \in DOMAIN sent : Execute(i)) \/ UNCHANGED vars
  <2>1. UNCHANGED <<pc, calls, table, cache, todo, flight>>
    BY <1>13 DEF Execute, vars
  <2>2. TablesTyped'
    BY <1>0, <2>1 DEF TablesTyped
  <2> QED
    BY <1>0, <2>1, <2>2 DEF SendTypes
<1> QED
  BY <1>2, <1>3, <1>4, <1>5, <1>6, <1>7, <1>8, <1>9, <1>10, <1>11, <1>12, <1>13 DEF Next, Bot

(* The variables keep their types for any plans, tables, capacities and    *)
(* chunks; in particular an extension that goes on always has a table with *)
(* something left to add, and what it adds are addresses, however many     *)
(* calls before gave theirs up.                                            *)
THEOREM SendTypesHold == Spec => []TypeOK
<1>1. SendTypes => TypeOK
  BY DEF SendTypes, PlaceTyped, TablesTyped, TypeOK
<1> QED
  BY <1>1, SendTypesInit, SendTypesStep, PTL DEF Spec

-----------------------------------------------------------------------------
(* What an extension has added: the chunks that have landed. *)

(* Each table gets of the missing addresses what fits its free places, in *)
(* order: when they run out of room it is filled, and no address is left  *)
(* over otherwise.                                                         *)
LEMMA RoomGrows ==
  ASSUME TablesTyped
  PROVE  \A t \in 0..NTables : Room[t] <= Room[NTables]
<1> DEFINE G == {n \in 0..NTables : \A t \in 0..n : Room[t] <= Room[n]}
<1>1. NTables \in Nat /\ \A t \in 0..NTables : Room[t] \in Nat
  BY SendPathAssumption, RoomTyped
<1>2. \A t \in 1..NTables : Room[t - 1] <= Room[t]
  <2>1. ASSUME NEW t \in 1..NTables
        PROVE  Room[t - 1] <= Room[t]
    <3>1. t \in Tables /\ t - 1 \in 0..NTables /\ Room[t] = Room[t - 1] + Free(t) /\ Free(t) \in Nat
      BY <1>1, RoomTyped, SeenFits DEF Tables
    <3>2. Room[t - 1] \in Nat
      BY <1>1, <3>1
    <3> QED
      BY <3>1, <3>2
  <2> QED
    BY <2>1
<1>3. 0 \in G
  BY <1>1
<1>4. ASSUME NEW n \in 1..NTables, n - 1 \in G
      PROVE  n \in G
  <2>1. n \in 0..NTables /\ n - 1 \in 0..NTables /\ \A t \in 0..n : t = n \/ t \in 0..(n - 1)
    BY <1>1
  <2>2. \A t \in 0..n : t \in 0..NTables /\ Room[t] \in Nat
    BY <1>1
  <2>3. Room[n - 1] <= Room[n] /\ Room[n - 1] \in Nat /\ Room[n] \in Nat
    BY <1>1, <1>2, <2>1
  <2>4. \A t \in 0..(n - 1) : Room[t] <= Room[n - 1]
    BY <1>4
  <2>5. \A t \in 0..n : Room[t] <= Room[n]
    BY <2>1, <2>2, <2>3, <2>4
  <2> QED
    BY <2>1, <2>5
<1>5. NTables \in G
  <2> HIDE DEF G
  <2>1. \A n \in 0..NTables : n \in G
    BY <1>1, <1>3, <1>4, UpTo
  <2> QED
    BY <1>1, <2>1
<1> QED
  BY <1>5

(* A share is the part of Missing between the rooms of two tables. *)
LEMMA ShareFacts ==
  ASSUME TablesTyped, plan \in Plans, NEW t \in Tables
  PROVE  /\ t \in 1..NTables /\ t - 1 \in 0..NTables
         /\ Room[t - 1] \in Nat /\ Room[t] = Room[t - 1] + Free(t) /\ Free(t) \in Nat
         /\ Len(Missing) \in Nat
         /\ Len(Share(t)) = IF Upto(Room[t], Len(Missing)) <= Room[t - 1] THEN 0
                            ELSE Upto(Room[t], Len(Missing)) - Room[t - 1]
         /\ \A i \in 1..Len(Missing) :
               Room[t - 1] < i /\ i <= Room[t] => Missing[i] \in ToSet(Share(t))
<1>1. Missing \in Seq(Addresses) /\ Len(Missing) \in Nat
  BY MissingTyped
<1>2. /\ t \in 1..NTables /\ t - 1 \in 0..NTables
      /\ Room[t - 1] \in Nat /\ Room[t] = Room[t - 1] + Free(t) /\ Free(t) \in Nat
  BY SendPathAssumption, RoomTyped, SeenFits DEF Tables
<1> DEFINE from == Room[t - 1]
           to == Upto(Room[t], Len(Missing))
           s == Missing
<1>3. from \in Nat /\ to \in Nat /\ to <= Len(s) /\ \A i \in 1..Len(s) : i <= Room[t] => i <= to
  BY <1>1, <1>2 DEF Upto
<1>4. Share(t) = SubSeq(s, from + 1, to)
  BY DEF Share
<1> HIDE DEF from, to, s
<1>5. s \in Seq(Addresses) /\ \A i \in from + 1..to : i \in 1..Len(s)
  BY <1>1, <1>3 DEF s
<1>6. /\ Len(SubSeq(s, from + 1, to)) = IF to <= from THEN 0 ELSE to - from
      /\ \A i \in 1..(to - from) : SubSeq(s, from + 1, to)[i] = s[from + i]
  BY <1>3, <1>5
<1>7. ASSUME NEW i \in 1..Len(s), from < i, i <= to
      PROVE  s[i] \in ToSet(SubSeq(s, from + 1, to))
  <2>1. i - from \in 1..(to - from) /\ from + (i - from) = i /\ ~(to <= from) /\ i \in Nat
    BY <1>3, <1>5, <1>7
  <2>2. SubSeq(s, from + 1, to)[i - from] = s[i]
    BY <1>6, <2>1
  <2>3. DOMAIN SubSeq(s, from + 1, to) = 1..Len(SubSeq(s, from + 1, to))
    BY <1>3, <1>5
  <2>4. i - from \in DOMAIN SubSeq(s, from + 1, to)
    BY <1>6, <2>1, <2>3
  <2> QED
    BY <2>2, <2>4 DEF ToSet
<1> QED
  BY <1>1, <1>2, <1>3, <1>4, <1>6, <1>7 DEF from, to, s

(* When addresses are left over, each table's share fills it. *)
LEMMA SharesFill ==
  ASSUME TablesTyped, plan \in Plans, Room[NTables] < Len(Missing), NEW t \in Tables
  PROVE  Len(Share(t)) = Free(t)
<1>1. /\ Room[t - 1] \in Nat /\ Room[t] = Room[t - 1] + Free(t) /\ Free(t) \in Nat
      /\ Len(Missing) \in Nat /\ t \in 0..NTables
      /\ Len(Share(t)) = IF Upto(Room[t], Len(Missing)) <= Room[t - 1] THEN 0
                         ELSE Upto(Room[t], Len(Missing)) - Room[t - 1]
  BY ShareFacts
<1>2. Room[t] <= Room[NTables] /\ Room[NTables] \in Nat
  BY <1>1, RoomGrows, RoomTyped, SendPathAssumption
<1>3. Upto(Room[t], Len(Missing)) = Room[t]
  BY <1>1, <1>2 DEF Upto
<1> HIDE DEF Missing, Share, Free
<1> QED
  BY <1>1, <1>3

(* When there are addresses and no table gets a share, none has a place. *)
LEMMA NoSharesFull ==
  ASSUME TablesTyped, plan \in Plans, Missing # <<>>, \A t \in Tables : Share(t) = <<>>
  PROVE  \A t \in Tables : Free(t) = 0
<1> DEFINE G == {n \in 0..NTables : Room[n] = 0}
<1>0. NTables \in Nat /\ Room[0] = 0
  BY SendPathAssumption, RoomTyped
<1>1. Len(Missing) >= 1
  BY MissingTyped
<1>2. ASSUME NEW n \in 1..NTables, n - 1 \in G
      PROVE  n \in G /\ Free(n) = 0
  <2>1. n \in Tables /\ Room[n - 1] = 0 /\ n \in 0..NTables
    BY <1>2 DEF Tables
  <2>2. /\ Room[n] = Room[n - 1] + Free(n) /\ Free(n) \in Nat /\ Len(Missing) \in Nat
        /\ Len(Share(n)) = IF Upto(Room[n], Len(Missing)) <= Room[n - 1] THEN 0
                           ELSE Upto(Room[n], Len(Missing)) - Room[n - 1]
    BY <2>1, ShareFacts
  <2>3. Len(Share(n)) = 0
    BY <2>1
  <2>4. Free(n) = 0
    BY <1>1, <2>1, <2>2, <2>3 DEF Upto
  <2> QED
    BY <2>1, <2>2, <2>4
<1>3. \A n \in 0..NTables : n \in G
  <2>1. 0 \in G
    BY <1>0
  <2> HIDE DEF G
  <2> QED
    BY <1>0, <1>2, <2>1, UpTo
<1> QED
  BY <1>0, <1>2, <1>3 DEF Tables

(* When none are left over, each address is in some table's share. *)
LEMMA SharesComplete ==
  ASSUME TablesTyped, plan \in Plans, ~(Room[NTables] < Len(Missing)), NEW u \in ToSet(Missing)
  PROVE  \E t \in Tables : u \in ToSet(Share(t))
<1>1. PICK i \in 1..Len(Missing) : u = Missing[i]
  BY MissingTyped DEF ToSet
<1>2. /\ NTables \in Nat /\ \A t \in 0..NTables : Room[t] \in Nat
      /\ Room[0] = 0 /\ Len(Missing) \in Nat
  BY SendPathAssumption, RoomTyped, MissingTyped
<1> DEFINE S == {t \in 0..NTables : i <= Room[t]}
<1>3. NTables \in S /\ S \subseteq Nat
  BY <1>2
<1>4. PICK m \in S : \A n \in S : m <= n
  <2> HIDE DEF S
  <2> QED
    BY <1>3, LeastOf
<1>5. m \in 1..NTables /\ m - 1 \in 0..NTables /\ ~(m <= m - 1) /\ i <= Room[m]
  BY <1>2, <1>4
<1>6. m \in Tables /\ Room[m - 1] < i
  BY <1>2, <1>4, <1>5 DEF Tables
<1> QED
  BY <1>1, <1>5, <1>6, ShareFacts

(* A copy in the cache is no more than its table: tables only grow. *)
Grown ==
    \A t \in Tables : cache[t] # NoCopy =>
        Len(cache[t]) <= Len(table[t]) /\ ToSet(cache[t]) \subseteq ToSet(table[t])

(* What a table holds stays. *)
LEMMA TablesGrow ==
  ASSUME SendTypes, [Next]_vars, NEW t \in Tables
  PROVE  /\ table[t] \in Seq(Addresses) /\ table'[t] \in Seq(Addresses)
         /\ Len(table[t]) <= Len(table'[t]) /\ ToSet(table[t]) \subseteq ToSet(table'[t])
<1>1. table[t] \in Seqs /\ table'[t] \in Seqs
  BY SendTypesStep DEF SendTypes, TablesTyped
<1>2. table[t] \in Seq(Addresses) /\ table'[t] \in Seq(Addresses)
  BY <1>1, FittingSeqs
<1>3. table'[t] = table[t] \/ \E s \in Seq(Addresses) : table'[t] = table[t] \o s
  <2>1. CASE \E x \in flight : Extended(x)
    <3>1. PICK x \in flight : Extended(x)
      BY <2>1
    <3>2. x.adds \in Seq(Addresses) /\ table \in [Tables -> Seqs]
      BY DEF SendTypes, TablesTyped
    <3>3. table' = table \/ table' = [table EXCEPT ![x.table] = table[x.table] \o x.adds]
      BY <3>1 DEF Extended
    <3>4. CASE t = x.table
      BY <3>2, <3>3, <3>4
    <3>5. CASE t # x.table
      BY <3>2, <3>3, <3>5
    <3> QED
      BY <3>4, <3>5
  <2>2. CASE ~ \E x \in flight : Extended(x)
    <3>1. table' = table
      BY <2>2 DEF Next, Bot, Call, SendFails, TooLarge, Build, Accepted, AnswerLost, Refused,
         Confirmed, NoStatus, StatusUnreadable, FailedOnChain, Rebuild, RebuildFails, NotAgain,
         TablesUnreadable, NoRoom, PlanExtension, SubmitChunk, ChunkAnswerLost, ChunkNotSent,
         ChunkConfirmed, ChunkFails, Warmed, WarmupFails, CacheExpires, NotExtended, Execute, vars
    <3> QED
      BY <3>1
  <2> QED
    BY <2>1, <2>2
<1>4. CASE table'[t] = table[t]
  BY <1>2, <1>4
<1>5. ASSUME NEW s \in Seq(Addresses), table'[t] = table[t] \o s
      PROVE  Len(table[t]) <= Len(table'[t]) /\ ToSet(table[t]) \subseteq ToSet(table'[t])
  <2> DEFINE old == table[t]
  <2>1. old \in Seq(Addresses)
    BY <1>2
  <2> HIDE DEF old
  <2>2. /\ Len(old \o s) = Len(old) + Len(s) /\ Len(old) \in Nat /\ Len(s) \in Nat
        /\ \A i \in DOMAIN old : i \in DOMAIN (old \o s) /\ (old \o s)[i] = old[i]
    BY <2>1
  <2>3. Len(old) <= Len(old \o s) /\ ToSet(old) \subseteq ToSet(old \o s)
    BY <2>2 DEF ToSet
  <2> QED
    BY <1>5, <2>3 DEF old
<1> QED
  BY <1>2, <1>3, <1>4, <1>5

(* A copy of a table is kept, made by a reading, or forgotten. *)
LEMMA CacheMoves ==
  ASSUME SendTypes, [Next]_vars, NEW t \in Tables
  PROVE  cache'[t] \in {cache[t], Seen(t), NoCopy}
<1>1. cache \in [Tables -> Seqs \cup {NoCopy}]
  BY DEF SendTypes, TablesTyped
<1>2. \A n : Loaded(n)[t] \in {cache[t], Seen(t), NoCopy}
  BY DEF Loaded
<1>3. CASE \E n : cache' = Loaded(n)
  BY <1>2, <1>3
<1>4. CASE \E u, left : cache' = Forget(u, left)
  <2> QED
    BY <1>1, <1>4 DEF Forget
<1>5. CASE \E u \in Tables : CacheExpires(u)
  BY <1>1, <1>5 DEF CacheExpires
<1>6. CASE cache' = cache
  BY <1>6
<1>7. \/ \E n : cache' = Loaded(n)
      \/ \E u, left : cache' = Forget(u, left)
      \/ \E u \in Tables : CacheExpires(u)
      \/ cache' = cache
  <2>1. CASE SendFails \/ TooLarge \/ Build \/ TablesUnreadable \/ NoRoom \/ PlanExtension
    BY <2>1 DEF SendFails, TooLarge, Build, TablesUnreadable, NoRoom, PlanExtension
  <2>2. CASE ChunkConfirmed
    BY <2>2 DEF ChunkConfirmed
  <2>3. CASE \E u \in Tables : CacheExpires(u)
    BY <2>3
  <2>4. CASE ~ (SendFails \/ TooLarge \/ Build \/ TablesUnreadable \/ NoRoom \/ PlanExtension
                \/ ChunkConfirmed \/ \E u \in Tables : CacheExpires(u))
    BY <2>4 DEF Next, Bot, Call, Accepted, AnswerLost, Refused,
         Confirmed, NoStatus, StatusUnreadable, FailedOnChain, Rebuild, RebuildFails, NotAgain,
         SubmitChunk, ChunkAnswerLost, ChunkNotSent,
         ChunkFails, Warmed, WarmupFails, Extended, NotExtended, Execute, vars
  <2> QED
    BY <2>1, <2>2, <2>3, <2>4
<1> QED
  BY <1>3, <1>4, <1>5, <1>6, <1>7

(* So what the bot sees of the tables only grows. *)
LEMMA GrownStep ==
  ASSUME SendTypes, [Next]_vars, Grown
  PROVE  /\ Grown'
         /\ \A t \in Tables : ToSet(Seen(t)) \subseteq ToSet(Seen(t)')
         /\ Listed \subseteq Listed'
<1>1. ASSUME NEW t \in Tables
      PROVE  /\ cache'[t] # NoCopy =>
                  Len(cache'[t]) <= Len(table'[t]) /\ ToSet(cache'[t]) \subseteq ToSet(table'[t])
             /\ ToSet(Seen(t)) \subseteq ToSet(Seen(t)')
  <2>1. /\ Len(table[t]) \in Nat /\ Len(table'[t]) \in Nat
        /\ Len(table[t]) <= Len(table'[t]) /\ ToSet(table[t]) \subseteq ToSet(table'[t])
    BY TablesGrow
  <2>2. Seen(t)' = IF cache'[t] = NoCopy THEN table'[t] ELSE cache'[t]
    BY DEF Seen
  <2>3. Len(Seen(t)) \in Nat /\ (cache[t] # NoCopy => cache[t] = Seen(t))
    <3>1. Seen(t) \in Seqs
      BY SeenFits DEF SendTypes
    <3>2. Seen(t) \in Seq(Addresses)
      BY <3>1, FittingSeqs
    <3> QED
      BY <3>2 DEF Seen
  <2>4. Len(Seen(t)) <= Len(table[t]) /\ ToSet(Seen(t)) \subseteq ToSet(table[t])
    BY <2>1 DEF Grown, Seen
  <2>5. cache'[t] = NoCopy \/ cache'[t] = Seen(t) \/ (cache'[t] = cache[t] /\ cache[t] # NoCopy)
    BY CacheMoves
  <2>6. CASE cache'[t] = NoCopy
    BY <2>1, <2>2, <2>4, <2>6
  <2>7. CASE cache'[t] # NoCopy
    <3>1. cache'[t] = Seen(t)
      BY <2>3, <2>5, <2>7
    <3> QED
      BY <2>1, <2>2, <2>3, <2>4, <2>7, <3>1
  <2> QED
    BY <2>6, <2>7
<1>2. Grown'
  BY <1>1 DEF Grown
<1>3. Listed \subseteq Listed'
  <2>1. Listed' = UNION {ToSet(Seen(t)') : t \in Tables}
    BY DEF Listed
  <2> QED
    BY <1>1, <2>1 DEF Listed
<1> QED
  BY <1>1, <1>2, <1>3

(* An extension under way, and the transactions of this pass that fly.     *)
Extending == {"chunk", "await", "warm"}
Own == {w \in flight : w.round = Round}
Awaits == [round |-> Round, table |-> Target, adds |-> Chunk]

(* A pass extends once, so that the transaction it awaits is the only one  *)
(* of its own that flies, and nothing once that has landed or failed.      *)
SentOnce ==
    /\ \A w \in flight : w.round <= Round
    /\ pc = "rebuild" => ~rebuilt
    /\ pc = "send" /\ attempt = 1 => Own = {}
    /\ pc \in {"extend", "chunk"} => Own = {}
    /\ pc = "await" => \A w \in Own : w = Awaits
    /\ pc = "await" /\ outcome # "none" => Own = {}

(* Steps beside the call. *)
Beside == \/ \E t \in Tables : CacheExpires(t)
          \/ \E x \in flight : Extended(x) \/ NotExtended(x)
          \/ \E i \in DOMAIN sent : Execute(i)
          \/ UNCHANGED vars

LEMMA BesideKeeps ==
  ASSUME Beside
  PROVE  /\ UNCHANGED <<settings, call, pc, exhausted, todo, rest>>
         /\ flight' \subseteq flight
  BY DEF Beside, CacheExpires, Extended, NotExtended, Execute, vars, settings, call, extension

(* Of the steps of a call these are the ones an extension is made of; after *)
(* the others none is under way.                                           *)
LEMMA StepKinds ==
  ASSUME [Next]_vars
  PROVE  \/ Beside \/ PlanExtension \/ SubmitChunk \/ ChunkConfirmed \/ Warmed \/ NoRoom
         \/ /\ pc' \notin Extending /\ exhausted' = exhausted
            /\ pc' = "send" => attempt' # 2
<1>0. ASSUME NEW e, AfterError(e)
      PROVE  pc' \in {"idle", "send", "rebuild"} /\ (pc' = "send" => attempt' # 2)
  BY <1>0 DEF AfterError
<1>1. CASE SendFails \/ TooLarge \/ AnswerLost \/ Refused \/ StatusUnreadable \/ FailedOnChain
  BY <1>0, <1>1 DEF SendFails, TooLarge, AnswerLost, Refused, StatusUnreadable, FailedOnChain, Extending
<1>2. CASE NotAgain \/ TablesUnreadable \/ ChunkAnswerLost \/ ChunkNotSent \/ ChunkFails \/ WarmupFails
  BY <1>0, <1>2 DEF NotAgain, TablesUnreadable, ChunkAnswerLost, ChunkNotSent, ChunkFails,
     WarmupFails, NoExtension, Extending
<1>3. CASE Call \/ Build \/ Accepted \/ Confirmed \/ NoStatus \/ Rebuild \/ RebuildFails
  BY <1>3 DEF Call, Build, Accepted, Confirmed, NoStatus, Rebuild, RebuildFails, Returns, Extending
<1> QED
  BY <1>1, <1>2, <1>3 DEF Next, Bot, Beside

(* Passes are numbered, the first of a call by twice its number. *)
LEMMA RoundTyped ==
  ASSUME SendTypes
  PROVE  /\ Round \in Nat /\ (~rebuilt => Round = 2 * calls) /\ Round <= 2 * calls + 1
         /\ \A w \in flight : w.round \in Nat
<1>1. calls \in Nat /\ \A w \in flight : w.round \in 2..(2 * MaxCalls + 1)
  BY SendPathAssumption DEF SendTypes, PlaceTyped
<1> QED
  BY <1>1, SendPathAssumption DEF Round

(* A step that sends no chunk in this pass, and does not begin one. *)
LEMMA OnceKept ==
  ASSUME SentOnce, flight' \subseteq flight, UNCHANGED <<calls, rebuilt>>,
         pc' \in {"idle", "send", "submit", "confirm", "rebuild"},
         pc' = "rebuild" => ~rebuilt,
         pc' = "send" => attempt' # 1
  PROVE  SentOnce'
<1>1. Round' = Round
  BY DEF Round
<1> HIDE DEF Round
<1> QED
  BY <1>1 DEF SentOnce

(* A pass is new at every call and rebuild, and sends a chunk at a time. *)
LEMMA SentOnceStep ==
  ASSUME SendTypes, [Next]_vars, SentOnce
  PROVE  SentOnce'
<1>0. /\ Round \in Nat /\ (~rebuilt => Round = 2 * calls) /\ Round <= 2 * calls + 1
      /\ \A w \in flight : w.round \in Nat
      /\ \A w \in flight : w.round <= Round
      /\ calls \in Nat
  <2>1. calls \in Nat
    BY SendPathAssumption DEF SendTypes, PlaceTyped
  <2> QED
    BY <2>1, RoundTyped DEF SentOnce
<1> USE DEF settings, call, extension
<1>e. ASSUME NEW e, AfterError(e)
      PROVE  /\ pc' \in {"idle", "send", "rebuild"} /\ (pc' = "send" => attempt' # 1)
             /\ rebuilt' = rebuilt /\ (pc' = "rebuild" => ~rebuilt)
  BY <1>e DEF AfterError, Rebuilds
<1>1. CASE Call \/ Rebuild
  <2>1. Round' > Round /\ flight' = flight /\ pc' = "send"
    <3>1. CASE Call
      <4>1. calls' = calls + 1 /\ rebuilt' = FALSE /\ flight' = flight /\ pc' = "send"
        BY <3>1 DEF Call
      <4>2. Round' = 2 * (calls + 1)
        BY <4>1, <1>0 DEF Round
      <4> QED
        BY <1>0, <4>1, <4>2
    <3>2. CASE Rebuild
      <4>1. calls' = calls /\ rebuilt' = TRUE /\ ~rebuilt /\ flight' = flight /\ pc' = "send"
        BY <3>2 DEF Rebuild, SentOnce
      <4>2. Round' = 2 * calls + 1
        BY <4>1, <1>0 DEF Round
      <4> QED
        BY <1>0, <4>1, <4>2
    <3> QED
      BY <1>1, <3>1, <3>2
  <2>2. Round' \in Nat
    BY <1>0, <1>1 DEF Call, Rebuild, Round
  <2> HIDE DEF Round
  <2>3. \A w \in flight' : w.round <= Round' /\ w.round # Round'
    BY <1>0, <2>1, <2>2
  <2>4. Own' = {}
    BY <2>3 DEF Own
  <2> QED
    BY <2>1, <2>3, <2>4 DEF SentOnce
<1>2. CASE SendFails \/ AnswerLost \/ Refused \/ StatusUnreadable \/ FailedOnChain
  <2>1. flight' = flight /\ calls' = calls /\ \E e : AfterError(e)
    BY <1>2 DEF SendFails, AnswerLost, Refused, StatusUnreadable, FailedOnChain
  <2> QED
    BY <1>e, <2>1, OnceKept
<1>3. CASE Build \/ Accepted \/ Confirmed \/ NoStatus \/ RebuildFails
  <2>1. flight' = flight /\ UNCHANGED <<calls, rebuilt>> /\ pc' \in {"idle", "submit", "confirm"}
    BY <1>3 DEF Build, Accepted, Confirmed, NoStatus, RebuildFails, Returns
  <2> QED
    BY <2>1, OnceKept
<1>4. CASE TooLarge
  <2>1. flight' = flight /\ calls' = calls /\ pc = "send"
    BY <1>4 DEF TooLarge
  <2>2. CASE attempt = 1
    <3>1. pc' = "extend" /\ UNCHANGED <<rebuilt, attempt>>
      BY <1>4, <2>2 DEF TooLarge
    <3>2. Own = {} /\ Own' = Own /\ Round' = Round
      BY <2>1, <2>2, <3>1 DEF SentOnce, Own, Round
    <3> HIDE DEF Round
    <3> QED
      BY <2>1, <3>1, <3>2 DEF SentOnce
  <2>3. CASE attempt # 1
    <3>1. AfterError("tooLarge")
      BY <1>4, <2>3 DEF TooLarge
    <3> QED
      BY <1>e, <2>1, <3>1, OnceKept
  <2> QED
    BY <2>2, <2>3
<1>5. CASE NotAgain \/ TablesUnreadable \/ NoRoom \/ ChunkNotSent \/ ChunkFails \/ WarmupFails
  <2>1. flight' = flight /\ calls' = calls /\ AfterError("tooLarge")
    BY <1>5 DEF NotAgain, TablesUnreadable, NoRoom, ChunkNotSent, ChunkFails, WarmupFails, NoExtension
  <2> QED
    BY <1>e, <2>1, OnceKept
<1>6. CASE PlanExtension
  <2>1. flight' = flight /\ UNCHANGED <<calls, rebuilt>> /\ pc = "extend" /\ pc' = "chunk"
    BY <1>6 DEF PlanExtension
  <2>2. Own = {} /\ Own' = Own /\ Round' = Round
    BY <2>1 DEF SentOnce, Own, Round
  <2> HIDE DEF Round
  <2> QED
    BY <2>1, <2>2 DEF SentOnce
<1>7. CASE SubmitChunk
  <2>1. /\ ChunkSent /\ UNCHANGED <<calls, rebuilt, todo>> /\ pc = "chunk" /\ pc' = "await"
        /\ outcome' = "none"
    BY <1>7 DEF SubmitChunk
  <2>2. Own = {} /\ Round' = Round /\ Awaits' = Awaits
    BY <2>1 DEF SentOnce, Round, Target, Chunk, Awaits
  <2> HIDE DEF Round, Target, Chunk
  <2>3. Awaits.round = Round /\ \A w \in flight' : w \in flight \/ w = Awaits
    BY <2>1 DEF ChunkSent, Awaits
  <2>4. \A w \in flight' : w.round <= Round
    BY <1>0, <2>3
  <2>5. \A w \in Own' : w = Awaits
    BY <2>2, <2>3 DEF Own
  <2> QED
    BY <2>1, <2>2, <2>4, <2>5 DEF SentOnce
<1>8. CASE ChunkAnswerLost
  <2>1. ChunkSent /\ calls' = calls /\ AfterError("tooLarge")
    BY <1>8 DEF ChunkAnswerLost, NoExtension
  <2>2. Round' = Round
    BY <1>e, <2>1 DEF Round
  <2> HIDE DEF Round
  <2>3. \A w \in flight' : w.round <= Round
    BY <1>0, <2>1 DEF ChunkSent
  <2> QED
    BY <1>e, <2>1, <2>2, <2>3 DEF SentOnce
<1>9. CASE ChunkConfirmed
  <2>1. /\ flight' = flight /\ UNCHANGED <<calls, rebuilt>> /\ pc = "await" /\ outcome = "landed"
        /\ pc' \in {"warm", "chunk"}
    BY <1>9 DEF ChunkConfirmed
  <2>2. Own = {} /\ Own' = Own /\ Round' = Round
    BY <2>1 DEF SentOnce, Own, Round
  <2> HIDE DEF Round
  <2> QED
    BY <2>1, <2>2 DEF SentOnce
<1>10. CASE Warmed
  <2>1. flight' = flight /\ UNCHANGED <<calls, rebuilt>> /\ pc' = "send" /\ attempt' = 2
    BY <1>10 DEF Warmed
  <2> QED
    BY <2>1, OnceKept
<1>11. CASE Beside
  <2>1. /\ UNCHANGED <<calls, rebuilt, pc, attempt, todo>> /\ flight' \subseteq flight
    BY <1>11, BesideKeeps
  <2>2. Round' = Round /\ Awaits' = Awaits
    BY <2>1 DEF Round, Target, Chunk, Awaits
  <2>3. Own' \subseteq Own
    BY <2>1, <2>2 DEF Own
  <2>4. pc = "await" /\ outcome' # "none" => Own' = {}
    <3>1. SUFFICES ASSUME pc = "await", outcome' # "none" PROVE Own' = {}
      OBVIOUS
    <3>2. CASE outcome # "none"
      BY <2>3, <3>1, <3>2 DEF SentOnce
    <3>3. CASE outcome = "none"
      <4>1. PICK x \in flight : Extended(x) /\ outcome' # outcome
        BY <1>11, <3>1, <3>3 DEF Beside, CacheExpires, Extended, NotExtended, Execute, vars
      <4>2. x.round = Round /\ flight' = flight \ {x}
        BY <4>1 DEF Extended, Awaited
      <4> QED
        <5> HIDE DEF Round, Target, Chunk
        <5>1. \A w \in Own : w = Awaits
          BY <3>1 DEF SentOnce
        <5>2. x \in Own
          BY <4>1, <4>2 DEF Own
        <5>3. \A w \in Own : w = x
          BY <5>1, <5>2
        <5> QED
          BY <2>2, <4>2, <5>3 DEF Own
    <3> QED
      BY <3>2, <3>3
  <2> HIDE DEF Round, Target, Chunk
  <2> QED
    BY <2>1, <2>2, <2>3, <2>4 DEF SentOnce
<1> QED
  BY <1>1, <1>2, <1>3, <1>4, <1>5, <1>6, <1>7, <1>8, <1>9, <1>10, <1>11 DEF Next, Bot, Beside

(* Where the chunk awaited has landed, its table holds it before the list  *)
(* of what is left is cut.                                                 *)
Landed == pc = "await" /\ outcome = "landed"
Added(t) == IF Landed /\ t = Target THEN Len(Chunk) ELSE 0

(* A chunk and what is left after it make up what there was. *)
LEMMA ChunkParts ==
  ASSUME Adding
  PROVE  LET s == todo[Target]
             left == SubSeq(s, Len(Chunk) + 1, Len(s))
         IN /\ Len(Chunk) \in Nat /\ Len(left) \in Nat /\ Len(s) = Len(Chunk) + Len(left)
            /\ ToSet(s) \subseteq ToSet(Chunk) \cup ToSet(left)
<1> DEFINE s == todo[Target]
           n == Upto(ChunkSize, Len(s))
           one == SubSeq(s, 1, n)
           left == SubSeq(s, n + 1, Len(s))
<1>1. s \in Seq(Addresses) /\ Len(s) \in Nat
  BY TargetFacts DEF Adding
<1>2. n \in 0..Len(s)
  BY <1>1, SendPathAssumption DEF Upto
<1>3. Chunk = one
  BY DEF Chunk
<1> HIDE DEF s, n
<1>4. /\ Len(one) = n /\ Len(left) = Len(s) - n /\ DOMAIN s = 1..Len(s)
      /\ DOMAIN one = 1..n /\ DOMAIN left = 1..(Len(s) - n)
      /\ \A i \in 1..n : one[i] = s[i]
      /\ \A i \in 1..(Len(s) - n) : left[i] = s[n + i]
  BY <1>1, <1>2
<1> HIDE DEF one, left
<1>5. ASSUME NEW i \in 1..Len(s)
      PROVE  s[i] \in ToSet(one) \cup ToSet(left)
  <2>1. CASE i <= n
    <3>1. i \in 1..n
      BY <1>2, <2>1
    <3> QED
      BY <1>4, <3>1 DEF ToSet
  <2>2. CASE ~(i <= n)
    <3>1. i - n \in 1..(Len(s) - n) /\ n + (i - n) = i
      BY <1>1, <1>2, <2>2
    <3>2. left[i - n] = s[i]
      BY <1>4, <3>1
    <3> QED
      BY <1>4, <3>1, <3>2 DEF ToSet
  <2> QED
    BY <2>1, <2>2
<1>6. ToSet(s) \subseteq ToSet(one) \cup ToSet(left)
  BY <1>4, <1>5 DEF ToSet
<1>7. Len(one) \in Nat /\ Len(left) \in Nat /\ Len(s) = Len(one) + Len(left)
  BY <1>1, <1>2, <1>4
<1> QED
  BY <1>3, <1>4, <1>6, <1>7 DEF s, left

(* What lands while the call awaits it is its own chunk. *)
LEMMA LandsOwn ==
  ASSUME SendTypes, SentOnce, Beside, ~Landed, Landed'
  PROVE  /\ pc = "await" /\ Target \in Tables
         /\ table' = [table EXCEPT ![Target] = table[Target] \o Chunk]
<1>1. pc = "await" /\ outcome # "landed" /\ outcome' = "landed"
  BY BesideKeeps DEF Landed
<1>2. PICK x \in flight : Extended(x)
  BY <1>1 DEF Beside, CacheExpires, NotExtended, Execute, vars, extension
<1>3. x.round = Round /\ table' = [table EXCEPT ![x.table] = table[x.table] \o x.adds]
  BY <1>1, <1>2 DEF Extended, Awaited
<1>4. x = Awaits
  BY <1>1, <1>3 DEF SentOnce, Own
<1>5. Awaits.table = Target /\ Awaits.adds = Chunk
  BY DEF Awaits
<1>6. Target \in Tables
  BY <1>1, TargetFacts DEF SendTypes, Adding
<1> QED
  BY <1>1, <1>3, <1>4, <1>5, <1>6

(* While an extension is under way that leaves addresses over, each table  *)
(* holds, with what is left for it, as much as it can.                     *)
Filling ==
    /\ pc \in Extending /\ rest =>
          \A t \in Tables : Len(table[t]) + Len(todo[t]) >= Capacity + Added(t)
    /\ pc = "warm" => todo = Nothing
    /\ ExhaustedMeansFull

(* The lengths in question are numbers, and tables fit. *)
LEMMA Lengths ==
  ASSUME SendTypes, NEW t \in Tables
  PROVE  /\ Capacity \in Nat /\ Len(table[t]) \in Nat /\ Len(table[t]) <= Capacity
         /\ Len(todo[t]) \in Nat
<1>1. table[t] \in Seqs /\ todo[t] \in Seq(Addresses) /\ Capacity \in Nat
  BY SendPathAssumption DEF SendTypes, TablesTyped
<1>2. table[t] \in Seq(Addresses) /\ Len(table[t]) <= Capacity
  BY <1>1, FittingSeqs
<1> QED
  BY <1>1, <1>2

(* So is the length of a chunk that has landed. *)
LEMMA AddedTyped ==
  ASSUME SendTypes, NEW t
  PROVE  Added(t) \in Nat
<1>1. Landed => Len(Chunk) \in Nat
  BY ChunkParts DEF Landed, SendTypes, Adding
<1> QED
  BY <1>1 DEF Added

(* What a table has room for, as the bot sees it, is at least what it has. *)
LEMMA FreeIsRoom ==
  ASSUME SendTypes, Grown, NEW t \in Tables
  PROVE  /\ Len(Seen(t)) \in Nat /\ Len(Seen(t)) <= Len(table[t])
         /\ Len(Seen(t)) + Free(t) = Capacity /\ Free(t) \in Nat
<1>1. Seen(t) \in Seqs /\ Free(t) \in Nat /\ Capacity \in Nat
  BY SeenFits, SendPathAssumption DEF SendTypes
<1>2. Seen(t) \in Seq(Addresses) /\ Len(Seen(t)) <= Capacity
  BY <1>1, FittingSeqs
<1>3. Len(Seen(t)) \in Nat
  BY <1>2
<1>4. Len(Seen(t)) <= Len(table[t])
  BY Lengths DEF Seen, Grown
<1> QED
  BY <1>1, <1>2, <1>3, <1>4 DEF Free

(* Full tables stay full. *)
LEMMA FullStays ==
  ASSUME SendTypes, [Next]_vars, exhausted' => \A t \in Tables : Len(table[t]) >= Capacity
  PROVE  ExhaustedMeansFull'
<1>1. SendTypes'
  BY SendTypesStep
<1>2. ASSUME NEW t \in Tables, Len(table[t]) >= Capacity
      PROVE  Len(table'[t]) = Capacity
  <2>1. Len(table'[t]) \in Nat /\ Len(table'[t]) <= Capacity /\ Capacity \in Nat
    <3>1. table'[t] \in Seqs /\ Capacity \in Nat
      BY <1>1, SendPathAssumption DEF SendTypes, TablesTyped
    <3>2. table'[t] \in Seq(Addresses) /\ Len(table'[t]) <= Capacity
      BY <3>1, FittingSeqs
    <3> QED
      BY <3>1, <3>2
  <2>2. Len(table[t]) \in Nat /\ Len(table[t]) <= Len(table'[t])
    BY TablesGrow, Lengths
  <2> QED
    BY <1>2, <2>1, <2>2
<1> QED
  BY <1>2 DEF ExhaustedMeansFull

(* Arithmetic: what a table holds more covers what is counted more. *)
LEMMA StillEnough ==
  \A has, left, all, added, holds, adds \in Nat :
     has + left >= all + added /\ adds + has <= added + holds => holds + left >= all + adds
  OBVIOUS

(* Each step of an extension adds to a table what it takes off its list. *)
LEMMA FillingStep ==
  ASSUME SendTypes, [Next]_vars, Grown, SentOnce, Filling
  PROVE  Filling'
<1>0. /\ Capacity \in Nat
      /\ \A t \in Tables : /\ Len(table[t]) \in Nat /\ Len(table[t]) <= Capacity
                           /\ Len(todo[t]) \in Nat /\ Added(t) \in Nat
                           /\ (exhausted => Len(table[t]) >= Capacity)
  BY Lengths, AddedTyped, SendPathAssumption DEF Filling, ExhaustedMeansFull
<1>1. ASSUME pc' \notin Extending, exhausted' = exhausted
      PROVE  Filling'
  <2>1. ExhaustedMeansFull'
    BY <1>0, <1>1, FullStays
  <2> QED
    BY <1>1, <2>1 DEF Filling, Extending
<1>2. CASE PlanExtension
  <2>1. /\ pc' = "chunk" /\ exhausted' = exhausted /\ table' = table
        /\ todo' = [t \in Tables |-> Share(t)] /\ rest' = (Room[NTables] < Len(Missing))
    BY <1>2 DEF PlanExtension
  <2>2. ExhaustedMeansFull'
    BY <1>0, <2>1, FullStays
  <2>3. ASSUME rest', NEW t \in Tables
        PROVE  Len(table'[t]) + Len(todo'[t]) >= Capacity + Added(t)'
    <3>1. Added(t)' = 0
      BY <2>1 DEF Added, Landed
    <3>2. Len(Share(t)) = Free(t)
      BY <2>1, <2>3, SharesFill DEF SendTypes, PlaceTyped
    <3>3. /\ Len(Seen(t)) \in Nat /\ Len(Seen(t)) <= Len(table[t])
          /\ Len(Seen(t)) + Free(t) = Capacity /\ Free(t) \in Nat
      BY FreeIsRoom
    <3> HIDE DEF Share, Free, Added
    <3>4. Len(todo'[t]) = Free(t)
      BY <2>1, <3>2
    <3> QED
      BY <1>0, <2>1, <3>1, <3>3, <3>4
  <2> QED
    BY <2>1, <2>2, <2>3 DEF Filling
<1>3. CASE SubmitChunk
  <2>1. /\ pc = "chunk" /\ pc' = "await" /\ outcome' = "none"
        /\ UNCHANGED <<exhausted, table, todo, rest>>
    BY <1>3 DEF SubmitChunk
  <2>2. ExhaustedMeansFull'
    BY <1>0, <2>1, FullStays
  <2>3. \A t : Added(t)' = 0 /\ Added(t) = 0
    BY <2>1 DEF Added, Landed
  <2> HIDE DEF Added
  <2> QED
    BY <2>1, <2>2, <2>3 DEF Filling, Extending
<1>4. CASE ChunkConfirmed
  <2> DEFINE left == SubSeq(todo[Target], Len(Chunk) + 1, Len(todo[Target]))
  <2>1. /\ pc = "await" /\ outcome = "landed" /\ UNCHANGED <<exhausted, table, rest>>
        /\ todo' = [todo EXCEPT ![Target] = left]
        /\ pc' = IF left = <<>> /\ \A u \in Tables \ {Target} : todo[u] = <<>> THEN "warm" ELSE "chunk"
    BY <1>4 DEF ChunkConfirmed
  <2>2. /\ Target \in Tables /\ todo \in [Tables -> Seq(Addresses)]
        /\ Len(Chunk) \in Nat /\ Len(left) \in Nat /\ Len(todo[Target]) = Len(Chunk) + Len(left)
    BY <2>1, TargetFacts, ChunkParts DEF SendTypes, Adding
  <2>3. ExhaustedMeansFull'
    BY <1>0, <2>1, FullStays
  <2>4. \A t : Added(t)' = 0 /\ Added(t) = IF t = Target THEN Len(Chunk) ELSE 0
    BY <2>1 DEF Added, Landed
  <2> HIDE DEF Added, left, Target, Chunk
  <2>5. ASSUME rest', NEW t \in Tables
        PROVE  Len(table'[t]) + Len(todo'[t]) >= Capacity + Added(t)'
    <3>1. Len(table[t]) + Len(todo[t]) >= Capacity + Added(t)
      BY <2>1, <2>5 DEF Filling, Extending
    <3>2. CASE t = Target
      <4>1. Len(todo'[t]) = Len(left)
        BY <2>1, <2>2, <3>2
      <4> QED
        BY <1>0, <2>1, <2>2, <2>4, <3>1, <3>2, <4>1
    <3>3. CASE t # Target
      <4>1. todo'[t] = todo[t]
        BY <2>1, <2>2, <3>3
      <4> QED
        BY <1>0, <2>1, <2>4, <3>1, <3>3, <4>1
    <3> QED
      BY <3>2, <3>3
  <2>6. pc' = "warm" => todo' = Nothing
    BY <2>1, <2>2 DEF Nothing
  <2> QED
    BY <2>3, <2>5, <2>6 DEF Filling
<1>5. CASE Warmed
  <2>1. pc = "warm" /\ pc' = "send" /\ exhausted' = (exhausted \/ rest)
    BY <1>5 DEF Warmed
  <2>2. ASSUME rest, NEW t \in Tables
        PROVE  Len(table[t]) >= Capacity
    <3>1. Len(table[t]) + Len(todo[t]) >= Capacity + Added(t)
      BY <2>1, <2>2 DEF Filling, Extending
    <3>2. Len(todo[t]) = 0
      BY <2>1 DEF Filling, Nothing
    <3> QED
      BY <1>0, <3>1, <3>2
  <2>3. ExhaustedMeansFull'
    BY <1>0, <2>1, <2>2, FullStays
  <2> QED
    BY <2>1, <2>3 DEF Filling, Extending
<1>6. CASE NoRoom
  <2>1. /\ \A t \in Tables : Share(t) = <<>>
        /\ exhausted' = (Missing # <<>>) /\ pc' \notin Extending
    BY <1>6 DEF NoRoom, NoExtension, AfterError, Extending
  <2>2. ASSUME exhausted', NEW t \in Tables
        PROVE  Len(table[t]) >= Capacity
    <3>1. Free(t) = 0
      BY <2>1, <2>2, NoSharesFull DEF SendTypes, PlaceTyped
    <3> HIDE DEF Free
    <3> QED
      BY <1>0, <3>1, FreeIsRoom
  <2>3. ExhaustedMeansFull'
    BY <2>2, FullStays
  <2> QED
    BY <2>1, <2>3 DEF Filling, Extending
<1>7. CASE Beside
  <2>1. UNCHANGED <<pc, exhausted, todo, rest>> /\ Target' = Target /\ Chunk' = Chunk
    BY <1>7, BesideKeeps DEF Target, Chunk
  <2>2. ExhaustedMeansFull'
    BY <1>0, <2>1, FullStays
  <2>3. ASSUME pc \in Extending, rest, NEW t \in Tables
        PROVE  Len(table'[t]) + Len(todo[t]) >= Capacity + Added(t)'
    <3>1. Len(table[t]) + Len(todo[t]) >= Capacity + Added(t)
      BY <2>3 DEF Filling
    <3>2. Len(table[t]) <= Len(table'[t]) /\ Len(table'[t]) \in Nat
      BY TablesGrow
    <3>0. /\ Capacity \in Nat /\ Len(table[t]) \in Nat /\ Len(todo[t]) \in Nat /\ Added(t) \in Nat
      BY <1>0
    <3>3. Added(t)' \in Nat /\ Added(t)' + Len(table[t]) <= Added(t) + Len(table'[t])
      <4>1. CASE ~Landed' \/ t # Target
        <5>1. Added(t)' = 0
          BY <2>1, <4>1 DEF Added
        <5> QED
          BY <3>0, <3>2, <5>1
      <4>2. CASE Landed /\ Landed'
        <5>1. Added(t)' = Added(t)
          BY <2>1, <4>2 DEF Added
        <5> QED
          BY <3>0, <3>2, <5>1
      <4>3. CASE ~Landed /\ Landed' /\ t = Target
        <5>1. table' = [table EXCEPT ![t] = table[t] \o Chunk] /\ pc = "await"
          BY <1>7, <4>3, LandsOwn
        <5>2. table \in [Tables -> Seqs] /\ Chunk \in Seq(Addresses) /\ table[t] \in Seq(Addresses)
          BY <5>1, TargetFacts, TablesGrow DEF SendTypes, TablesTyped, Adding
        <5>3. Added(t)' = Len(Chunk) /\ Added(t) = 0
          BY <2>1, <4>3 DEF Added
        <5> HIDE DEF Chunk
        <5>4. Len(table'[t]) = Len(table[t]) + Len(Chunk) /\ Len(Chunk) \in Nat
          BY <5>1, <5>2
        <5> QED
          BY <3>0, <5>3, <5>4
      <4> QED
        BY <4>1, <4>2, <4>3
    <3> QED
      BY <3>0, <3>1, <3>2, <3>3, StillEnough, Zenon
  <2> QED
    BY <2>1, <2>2, <2>3 DEF Filling
<1> QED
  BY <1>1, <1>2, <1>3, <1>4, <1>5, <1>6, <1>7, StepKinds

(* An extension that leaves none over provides for each address the plan   *)
(* needs: a table is seen to list it, or it is on the way to one that will *)
(* be read anew.  So the second send finds them all.                       *)
OnTheWay(u, t) == todo[t] # <<>> /\ u \in ToSet(table[t]) \cup ToSet(todo[t])
Covered(u) == u \in Listed \/ \E t \in Tables : OnTheWay(u, t)

Covering ==
    /\ pc \in Extending /\ ~rest => \A u \in ToSet(Needs[plan]) : Covered(u)
    /\ Landed => ToSet(Chunk) \subseteq ToSet(table[Target])
    /\ pc = "send" /\ attempt = 2 /\ ~exhausted => ToSet(Needs[plan]) \subseteq Listed

(* An address that is provided for stays so while no list is cut. *)
LEMMA CoveredStays ==
  ASSUME SendTypes, [Next]_vars, Grown, todo' = todo, NEW u, Covered(u)
  PROVE  Covered(u)'
<1>1. CASE u \in Listed
  BY <1>1, GrownStep DEF Covered
<1>2. ASSUME NEW t \in Tables, OnTheWay(u, t)
      PROVE  Covered(u)'
  <2>1. OnTheWay(u, t)'
    BY <1>2, TablesGrow DEF OnTheWay
  <2> QED
    BY <2>1 DEF Covered
<1> QED
  BY <1>1, <1>2 DEF Covered

(* A list is cut by what its table holds, which is read anew at its end. *)
LEMMA CoveringStep ==
  ASSUME SendTypes, [Next]_vars, Grown, SentOnce, Filling, Covering
  PROVE  Covering'
<1>0. Listed \subseteq Listed'
  BY GrownStep
<1>1. ASSUME pc' \notin Extending, pc' = "send" => attempt' # 2
      PROVE  Covering'
  BY <1>1 DEF Covering, Extending, Landed
<1>2. CASE PlanExtension
  <2>1. /\ pc' = "chunk" /\ plan' = plan /\ table' = table
        /\ todo' = [t \in Tables |-> Share(t)] /\ rest' = (Room[NTables] < Len(Missing))
    BY <1>2 DEF PlanExtension, call
  <2>2. ASSUME ~rest', NEW u \in ToSet(Needs[plan])
        PROVE  Covered(u)'
    <3>1. CASE u \in Listed
      BY <1>0, <3>1 DEF Covered
    <3>2. CASE u \notin Listed
      <4>1. u \in ToSet(Missing)
        BY <3>2, MissingTyped DEF SendTypes, PlaceTyped
      <4>2. PICK t \in Tables : u \in ToSet(Share(t))
        BY <2>1, <2>2, <4>1, SharesComplete DEF SendTypes, PlaceTyped
      <4> HIDE DEF Share
      <4>3. u \in ToSet(todo'[t])
        BY <2>1, <4>2
      <4>4. OnTheWay(u, t)'
        BY <4>3 DEF OnTheWay, ToSet
      <4> QED
        BY <4>4 DEF Covered
    <3> QED
      BY <3>1, <3>2
  <2> QED
    BY <2>1, <2>2 DEF Covering, Landed
<1>3. CASE SubmitChunk
  <2>1. /\ pc = "chunk" /\ pc' = "await" /\ outcome' = "none" /\ UNCHANGED <<plan, todo, rest>>
    BY <1>3 DEF SubmitChunk, call
  <2>2. \A u : Covered(u) => Covered(u)'
    BY <2>1, CoveredStays
  <2> QED
    BY <2>1, <2>2 DEF Covering, Landed, Extending
<1>4. CASE ChunkConfirmed
  <2> DEFINE left == SubSeq(todo[Target], Len(Chunk) + 1, Len(todo[Target]))
  <2>1. /\ pc = "await" /\ outcome = "landed" /\ UNCHANGED <<plan, table, rest>>
        /\ todo' = [todo EXCEPT ![Target] = left] /\ cache' = Forget(Target, left)
        /\ pc' \in {"warm", "chunk"}
    BY <1>4 DEF ChunkConfirmed, call
  <2>2. /\ Target \in Tables /\ todo \in [Tables -> Seq(Addresses)]
        /\ ToSet(todo[Target]) \subseteq ToSet(Chunk) \cup ToSet(left)
        /\ cache \in [Tables -> Seqs \cup {NoCopy}]
    BY <2>1, TargetFacts, ChunkParts DEF SendTypes, Adding, TablesTyped
  <2>3. ToSet(Chunk) \subseteq ToSet(table[Target])
    BY <2>1 DEF Covering, Landed
  <2> HIDE DEF left, Target, Chunk
  <2>4. ASSUME NEW u, Covered(u)
        PROVE  Covered(u)'
    <3>1. CASE u \in Listed
      BY <1>0, <3>1 DEF Covered
    <3>2. ASSUME NEW t \in Tables, OnTheWay(u, t), t # Target
          PROVE  Covered(u)'
      <4>1. todo'[t] = todo[t] /\ table'[t] = table[t]
        BY <2>1, <2>2, <3>2
      <4>2. OnTheWay(u, t)'
        BY <3>2, <4>1 DEF OnTheWay
      <4> QED
        BY <4>2 DEF Covered
    <3>3. ASSUME OnTheWay(u, Target)
          PROVE  Covered(u)'
      <4>1. u \in ToSet(table[Target]) \cup ToSet(left)
        BY <2>2, <2>3, <3>3 DEF OnTheWay
      <4>2. todo'[Target] = left
        BY <2>1, <2>2
      <4>3. CASE left # <<>>
        <5>1. todo'[Target] # <<>> /\ u \in ToSet(table'[Target]) \cup ToSet(todo'[Target])
          BY <2>1, <4>1, <4>2, <4>3
        <5>2. \E t \in Tables : OnTheWay(u, t)'
          BY <2>2, <5>1 DEF OnTheWay
        <5> QED
          BY <5>2 DEF Covered
      <4>4. CASE left = <<>>
        <5>1. cache'[Target] = NoCopy /\ u \in ToSet(table'[Target])
          BY <2>1, <2>2, <4>1, <4>4 DEF Forget, ToSet
        <5>2. \E t \in Tables : u \in ToSet(IF cache'[t] = NoCopy THEN table'[t] ELSE cache'[t])
          BY <2>2, <5>1
        <5>3. u \in Listed'
          BY <5>2 DEF Listed, Seen
        <5> QED
          BY <5>3 DEF Covered
      <4> QED
        BY <4>3, <4>4
    <3> QED
      BY <2>4, <3>1, <3>2, <3>3 DEF Covered
  <2> QED
    BY <2>1, <2>4 DEF Covering, Landed, Extending
<1>5. CASE Warmed
  <2>1. /\ pc = "warm" /\ pc' = "send" /\ exhausted' = (exhausted \/ rest) /\ plan' = plan
    BY <1>5 DEF Warmed
  <2>2. todo = Nothing
    BY <2>1 DEF Filling
  <2>3. ASSUME ~rest
        PROVE  ToSet(Needs[plan]) \subseteq Listed
    <3>1. \A u \in ToSet(Needs[plan]) : Covered(u)
      BY <2>1, <2>3 DEF Covering, Extending
    <3> QED
      BY <2>2, <3>1 DEF Covered, OnTheWay, Nothing
  <2> QED
    BY <1>0, <2>1, <2>3 DEF Covering, Extending, Landed
<1>6. CASE NoRoom
  BY <1>1, <1>6 DEF NoRoom, NoExtension, AfterError, Extending
<1>7. CASE Beside
  <2>1. UNCHANGED <<pc, plan, attempt, exhausted, todo, rest>> /\ Target' = Target /\ Chunk' = Chunk
    BY <1>7, BesideKeeps DEF Target, Chunk, call
  <2>2. \A u : Covered(u) => Covered(u)'
    BY <2>1, CoveredStays
  <2>3. ASSUME Landed'
        PROVE  ToSet(Chunk) \subseteq ToSet(table'[Target])
    <3>1. Target \in Tables /\ Chunk \in Seq(Addresses)
      BY <2>1, <2>3, TargetFacts DEF Landed, SendTypes, Adding
    <3>2. CASE Landed
      <4>1. ToSet(Chunk) \subseteq ToSet(table[Target])
        BY <3>2 DEF Covering
      <4>2. ToSet(table[Target]) \subseteq ToSet(table'[Target])
        BY <3>1, TablesGrow
      <4> QED
        BY <4>1, <4>2
    <3>3. CASE ~Landed
      <4>1. table' = [table EXCEPT ![Target] = table[Target] \o Chunk]
        BY <1>7, <2>3, <3>3, LandsOwn
      <4>2. table \in [Tables -> Seqs] /\ table[Target] \in Seq(Addresses)
        BY <3>1, TablesGrow DEF SendTypes, TablesTyped
      <4> DEFINE s == table[Target]
                 c == Chunk
      <4>3. s \in Seq(Addresses) /\ c \in Seq(Addresses)
        BY <3>1, <4>2
      <4> HIDE DEF s, c
      <4>4. /\ \A i \in 1..Len(c) : Len(s) + i \in DOMAIN (s \o c) /\ (s \o c)[Len(s) + i] = c[i]
            /\ DOMAIN c = 1..Len(c)
        BY <4>3
      <4>5. ToSet(c) \subseteq ToSet(s \o c)
        BY <4>4 DEF ToSet
      <4> QED
        BY <3>1, <4>1, <4>2, <4>5 DEF s, c
    <3> QED
      BY <3>2, <3>3
  <2> QED
    BY <1>0, <2>1, <2>2, <2>3 DEF Covering
<1> QED
  BY <1>1, <1>2, <1>3, <1>4, <1>5, <1>6, <1>7, StepKinds

(* The inductive invariant: types, copies, passes, places and addresses. *)
ExtensionInv == SendTypes /\ Grown /\ SentOnce /\ Filling /\ Covering

LEMMA ExtensionInvInit == Init => ExtensionInv
<1> SUFFICES ASSUME Init PROVE ExtensionInv
  OBVIOUS
<1>1. /\ pc = "idle" /\ flight = {} /\ exhausted = FALSE /\ cache = [t \in Tables |-> NoCopy]
  BY DEF Init
<1>2. SendTypes
  BY SendTypesInit
<1>3. Grown
  BY <1>1 DEF Grown
<1>4. SentOnce
  BY <1>1 DEF SentOnce, Own
<1>5. Filling /\ Covering
  BY <1>1 DEF Filling, Covering, Landed, Extending, ExhaustedMeansFull
<1> QED
  BY <1>2, <1>3, <1>4, <1>5 DEF ExtensionInv

LEMMA ExtensionInvStep == ExtensionInv /\ [Next]_vars => ExtensionInv'
  BY SendTypesStep, GrownStep, SentOnceStep, FillingStep, CoveringStep DEF ExtensionInv

(* Extending is given up for good only when every table is full on the     *)
(* chain, whatever the copies of the tables were when that was decided,    *)
(* and whatever extensions of earlier calls, given up or not, land when.   *)
THEOREM GivenUpWhenFull == Spec => []ExhaustedMeansFull
<1>1. ExtensionInv => ExhaustedMeansFull
  BY DEF ExtensionInv, Filling
<1> QED
  BY <1>1, ExtensionInvInit, ExtensionInvStep, PTL DEF Spec

(* The send that follows an extension fits, unless the tables ran out: it  *)
(* sees every address the extension was made for, for any chunks, tables   *)
(* and capacities.                                                         *)
THEOREM TheSecondSendFits == Spec => SecondSendFits
<1>1. ExtensionInv /\ attempt = 2 /\ TooLarge => exhausted
  <2> SUFFICES ASSUME ExtensionInv, attempt = 2, TooLarge, ~exhausted PROVE FALSE
    OBVIOUS
  <2>1. pc = "send" /\ ~Fits(plan, Listed)
    BY DEF TooLarge
  <2>2. ToSet(Needs[plan]) \ Listed = {}
    BY <2>1 DEF ExtensionInv, Covering
  <2>3. Slack[plan] \in Nat
    BY SendPathAssumption DEF ExtensionInv, SendTypes, PlaceTyped
  <2>4. Fits(plan, Listed)
    BY <2>2, <2>3, FS_EmptySet DEF Fits
  <2> QED
    BY <2>1, <2>4
<1>2. ExtensionInv /\ [Next]_vars => [attempt = 2 /\ TooLarge => exhausted]_vars
  BY <1>1
<1> QED
  BY <1>2, ExtensionInvInit, ExtensionInvStep, PTL DEF Spec, SecondSendFits

-----------------------------------------------------------------------------
(* What a setup and a plan under construction are made of. *)
Names == {"balance", "create", "accounts", "wrap", "require", "bitmap",
          "calibrate_sell", "calibrate_pump"}
SetupOps == [op : {"create"}, what : Accounts] \cup [op : {"transfer"}, n : Nat]
            \cup [op : {"sync", "init"}]
Ops == SetupOps \cup [op : {"two_hop", "buy", "sell"}]
TermSet == [need : Nat, least : Int]
Drafts == [family : Families, input : Inputs, round : 0..2, todo : Seq(Names), start : Nat,
           setup : Seq(SetupOps), terms : TermSet, extension : BOOLEAN, out : Int, seen : Int]
Flights == [ops : Seq(Ops), input : Nat, need : Nat, least : Int, extension : BOOLEAN]

(* What a list of instructions finds or makes on a chain with these        *)
(* accounts, this balance and this answer about the extension.             *)
Quoted(accounts, ops) ==
    \A i \in 1..Len(ops) : ops[i].op \in {"transfer", "sync"} =>
        "quote" \in accounts \/ \E j \in 1..i - 1 : ops[j] = Create("quote")
Both(accounts, ops) ==
    \A a \in Accounts : a \in accounts \/ \E i \in 1..Len(ops) : ops[i] = Create(a)
Funded(holding, ops, need) ==
    \/ holding >= need
    \/ \E j \in 1..Len(ops) : \E i \in 1..j - 1 :
           ops[i].op = "transfer" /\ ops[j].op = "sync" /\ holding + ops[i].n >= need
Inits(ops) == \E i \in 1..Len(ops) : ops[i] = InitExtension
Provided(accounts, holding, open, ops, need, extending) ==
    /\ Quoted(accounts, ops) /\ Both(accounts, ops) /\ Funded(holding, ops, need)
    /\ extending => open \/ Inits(ops)

-----------------------------------------------------------------------------
(* Lists of instructions. *)

(* Setup instructions are told from the trade by their op. *)
LEMMA OpFields ==
  ASSUME NEW x \in Ops
  PROVE  /\ x.op \in {"create", "transfer", "sync", "init", "two_hop", "buy", "sell"}
         /\ IsSetup(x) <=> x \in SetupOps
         /\ x.op = "create" => x.what \in Accounts /\ x = Create(x.what)
         /\ x.op = "transfer" => x.n \in Nat
         /\ x.op = "init" <=> x = InitExtension
         /\ x.op = "two_hop" <=> x = TwoHop
  BY DEF Ops, SetupOps, IsSetup, Create, InitExtension, TwoHop

(* What the builders make are instructions. *)
LEMMA OpsMade ==
  /\ \A a \in Accounts : Create(a) \in SetupOps /\ Create(a).op = "create" /\ Create(a).what = a
  /\ \A n \in Nat : Transfer(n) \in SetupOps /\ Transfer(n).op = "transfer" /\ Transfer(n).n = n
  /\ Sync \in SetupOps /\ Sync.op = "sync"
  /\ InitExtension \in SetupOps /\ InitExtension.op = "init"
  /\ TwoHop \in Ops /\ TwoHop.op = "two_hop"
  /\ SetupOps \subseteq Ops
  BY DEF Ops, SetupOps, Create, Transfer, Sync, InitExtension, TwoHop

(* The places of the first list and of the second in the two together. *)
LEMMA Places ==
  ASSUME NEW S, NEW s \in Seq(S), NEW t \in Seq(S)
  PROVE  /\ s \o t \in Seq(S) /\ Len(s \o t) = Len(s) + Len(t)
         /\ \A i \in 1..Len(s) : i \in 1..Len(s \o t) /\ (s \o t)[i] = s[i]
         /\ \A i \in 1..Len(t) : Len(s) + i \in 1..Len(s \o t) /\ (s \o t)[Len(s) + i] = t[i]
         /\ \A i \in 1..Len(s \o t) : i \notin 1..Len(s) => i - Len(s) \in 1..Len(t)
                                      /\ (s \o t)[i] = t[i - Len(s)]
<1>1. Len(s) \in Nat /\ Len(t) \in Nat
  OBVIOUS
<1>2. /\ s \o t \in Seq(S) /\ Len(s \o t) = Len(s) + Len(t)
      /\ \A i \in 1..Len(s) + Len(t) : (s \o t)[i] = IF i <= Len(s) THEN s[i] ELSE t[i - Len(s)]
  BY ConcatProperties, Zenon
<1> DEFINE u == s \o t
<1> HIDE DEF u
<1>3. /\ u \in Seq(S) /\ Len(u) = Len(s) + Len(t)
      /\ \A i \in 1..Len(s) + Len(t) : u[i] = IF i <= Len(s) THEN s[i] ELSE t[i - Len(s)]
  BY <1>2 DEF u
<1>4. \A i \in 1..Len(t) : Len(s) + i - Len(s) = i
  BY <1>1
<1>5. /\ \A i \in 1..Len(s) : i \in 1..Len(u) /\ u[i] = s[i]
      /\ \A i \in 1..Len(t) : Len(s) + i \in 1..Len(u) /\ u[Len(s) + i] = t[i]
      /\ \A i \in 1..Len(u) : i \notin 1..Len(s) => i - Len(s) \in 1..Len(t) /\ u[i] = t[i - Len(s)]
  BY <1>1, <1>3, <1>4
<1> QED
  BY <1>3, <1>5 DEF u

(* What moves sol finds the quote account, in two lists one after the      *)
(* other.                                                                  *)
LEMMA QuotedTogether ==
  ASSUME NEW accounts, NEW s \in Seq(Ops), NEW t \in Seq(Ops), Quoted(accounts, s),
         \/ "quote" \in accounts
         \/ \E j \in 1..Len(s) : s[j] = Create("quote")
         \/ \A i \in 1..Len(t) : t[i].op \notin {"transfer", "sync"}
  PROVE  Quoted(accounts, s \o t)
<1> DEFINE u == s \o t
<1>1. Len(s) \in Nat /\ Len(t) \in Nat
  OBVIOUS
<1>2. /\ Len(u) = Len(s) + Len(t)
      /\ \A i \in 1..Len(s) : u[i] = s[i]
      /\ \A i \in 1..Len(u) : i \notin 1..Len(s) => i - Len(s) \in 1..Len(t) /\ u[i] = t[i - Len(s)]
  BY Places
<1> HIDE DEF u
<1> SUFFICES ASSUME NEW i \in 1..Len(u), u[i].op \in {"transfer", "sync"}, "quote" \notin accounts
             PROVE  \E j \in 1..i - 1 : u[j] = Create("quote")
  BY DEF Quoted, u
<1>3. CASE i \in 1..Len(s)
  <2>1. PICK j \in 1..i - 1 : s[j] = Create("quote")
    BY <1>2, <1>3 DEF Quoted
  <2>2. j \in 1..Len(s)
    BY <1>1, <1>3, <2>1
  <2> QED
    BY <1>2, <2>1, <2>2
<1>4. CASE i \notin 1..Len(s)
  <2>1. i > Len(s) /\ u[i] = t[i - Len(s)] /\ i - Len(s) \in 1..Len(t)
    BY <1>1, <1>2, <1>4
  <2>2. PICK j \in 1..Len(s) : s[j] = Create("quote")
    BY <2>1
  <2>3. j \in 1..i - 1
    BY <1>1, <2>1
  <2> QED
    BY <1>2, <2>2, <2>3
<1> QED
  BY <1>3, <1>4

(* Both accounts exist once either list has created what is lacking. *)
LEMMA BothTogether ==
  ASSUME NEW accounts, NEW s \in Seq(Ops), NEW t \in Seq(Ops),
         Both(accounts, s) \/ Both(accounts, t)
  PROVE  Both(accounts, s \o t)
<1> DEFINE u == s \o t
<1>1. /\ \A i \in 1..Len(s) : i \in 1..Len(u) /\ u[i] = s[i]
      /\ \A i \in 1..Len(t) : Len(s) + i \in 1..Len(u) /\ u[Len(s) + i] = t[i]
  BY Places
<1> HIDE DEF u
<1>2. Both(accounts, u)
  BY <1>1 DEF Both
<1> QED
  BY <1>2 DEF u

(* The input is wrapped in either list. *)
LEMMA FundedTogether ==
  ASSUME NEW holding \in Nat, NEW need \in Nat, NEW s \in Seq(Ops), NEW t \in Seq(Ops),
         Funded(holding, s, need) \/ Funded(holding, t, need)
  PROVE  Funded(holding, s \o t, need)
<1> DEFINE u == s \o t
<1>1. Len(s) \in Nat /\ Len(t) \in Nat
  OBVIOUS
<1>2. /\ Len(u) = Len(s) + Len(t)
      /\ \A i \in 1..Len(s) : i \in 1..Len(u) /\ u[i] = s[i]
      /\ \A i \in 1..Len(t) : Len(s) + i \in 1..Len(u) /\ u[Len(s) + i] = t[i]
  BY Places
<1> HIDE DEF u
<1>3. CASE holding >= need
  BY <1>3 DEF Funded, u
<1>4. CASE Funded(holding, s, need) /\ ~(holding >= need)
  <2>0. PICK j \in 1..Len(s) : \E i \in 1..j - 1 :
           s[i].op = "transfer" /\ s[j].op = "sync" /\ holding + s[i].n >= need
    BY <1>4 DEF Funded
  <2>1. PICK i \in 1..j - 1 :
           s[i].op = "transfer" /\ s[j].op = "sync" /\ holding + s[i].n >= need
    BY <2>0
  <2>2. i \in 1..Len(s) /\ j \in 1..Len(u)
    BY <1>1, <1>2, <2>1
  <2> QED
    BY <1>2, <2>1, <2>2 DEF Funded, u
<1>5. CASE Funded(holding, t, need) /\ ~(holding >= need)
  <2>0. PICK j \in 1..Len(t) : \E i \in 1..j - 1 :
           t[i].op = "transfer" /\ t[j].op = "sync" /\ holding + t[i].n >= need
    BY <1>5 DEF Funded
  <2>1. PICK i \in 1..j - 1 :
           t[i].op = "transfer" /\ t[j].op = "sync" /\ holding + t[i].n >= need
    BY <2>0
  <2>2. i \in 1..Len(t) /\ Len(s) + j \in 1..Len(u) /\ Len(s) + i \in 1..(Len(s) + j) - 1
    BY <1>1, <1>2, <2>1
  <2> QED
    BY <1>2, <2>1, <2>2 DEF Funded, u
<1> QED
  BY <1>3, <1>4, <1>5

(* Two lists initialize the extension if one of them does. *)
LEMMA InitsTogether ==
  ASSUME NEW s \in Seq(Ops), NEW t \in Seq(Ops)
  PROVE  Inits(s \o t) <=> Inits(s) \/ Inits(t)
<1> DEFINE u == s \o t
<1>1. /\ \A i \in 1..Len(s) : i \in 1..Len(u) /\ u[i] = s[i]
      /\ \A i \in 1..Len(t) : Len(s) + i \in 1..Len(u) /\ u[Len(s) + i] = t[i]
      /\ \A i \in 1..Len(u) : i \notin 1..Len(s) => i - Len(s) \in 1..Len(t) /\ u[i] = t[i - Len(s)]
  BY Places
<1> HIDE DEF u
<1>2. Inits(u) <=> Inits(s) \/ Inits(t)
  BY <1>1 DEF Inits
<1> QED
  BY <1>2 DEF u

(* A chain that grows still provides. *)
LEMMA ProvidedLater ==
  ASSUME NEW before, NEW after, before \subseteq after,
         NEW holding \in Nat, NEW more \in Nat, more >= holding,
         NEW open \in BOOLEAN, NEW later \in BOOLEAN, open => later,
         NEW ops \in Seq(Ops), NEW need \in Nat
  PROVE  /\ Quoted(before, ops) => Quoted(after, ops)
         /\ Both(before, ops) => Both(after, ops)
         /\ Funded(holding, ops, need) => Funded(more, ops, need)
         /\ \A extending : Provided(before, holding, open, ops, need, extending)
                           => Provided(after, more, later, ops, need, extending)
<1>1. Quoted(before, ops) => Quoted(after, ops)
  BY DEF Quoted
<1>2. Both(before, ops) => Both(after, ops)
  BY DEF Both
<1>3. Funded(holding, ops, need) => Funded(more, ops, need)
  <2>1. CASE holding >= need
    BY <2>1 DEF Funded
  <2>2. ASSUME Funded(holding, ops, need), ~(holding >= need)
        PROVE  Funded(more, ops, need)
    <3>0. PICK j \in 1..Len(ops) : \E i \in 1..j - 1 :
             ops[i].op = "transfer" /\ ops[j].op = "sync" /\ holding + ops[i].n >= need
      BY <2>2 DEF Funded
    <3>1. PICK i \in 1..j - 1 :
             ops[i].op = "transfer" /\ ops[j].op = "sync" /\ holding + ops[i].n >= need
      BY <3>0
    <3>2. i \in 1..Len(ops)
      BY <3>1
    <3>3. ops[i].n \in Nat
      BY <3>1, <3>2, OpFields
    <3>4. more + ops[i].n >= need
      BY <3>1, <3>3
    <3> QED
      BY <3>1, <3>4 DEF Funded
  <2> QED
    BY <2>1, <2>2
<1> QED
  BY <1>1, <1>2, <1>3 DEF Provided

-----------------------------------------------------------------------------
(* What the chain makes of a list of instructions. *)
States == [exists : SUBSET Accounts, balance : Nat, extended : BOOLEAN, loose : Nat,
           failed : {"none", "missing", "init"}]

(* An instruction by its kind. *)
LEMMA RunCases ==
  ASSUME NEW s \in States, NEW x \in Ops
  PROVE  \/ Run(s, x) = s /\ (s.failed # "none" \/ ~IsSetup(x))
         \/ /\ s.failed = "none" /\ x.op = "create" /\ x.what \in Accounts
            /\ Run(s, x) = [exists |-> s.exists \cup {x.what}, balance |-> s.balance,
                            extended |-> s.extended, loose |-> s.loose, failed |-> "none"]
         \/ /\ s.failed = "none" /\ x.op = "init" /\ s.extended
            /\ Run(s, x) = [exists |-> s.exists, balance |-> s.balance,
                            extended |-> s.extended, loose |-> s.loose, failed |-> "init"]
         \/ /\ s.failed = "none" /\ x.op = "init" /\ ~s.extended
            /\ Run(s, x) = [exists |-> s.exists, balance |-> s.balance,
                            extended |-> TRUE, loose |-> s.loose, failed |-> "none"]
         \/ /\ s.failed = "none" /\ x.op \in {"transfer", "sync"} /\ "quote" \notin s.exists
            /\ Run(s, x) = [exists |-> s.exists, balance |-> s.balance,
                            extended |-> s.extended, loose |-> s.loose, failed |-> "missing"]
         \/ /\ s.failed = "none" /\ x.op = "transfer" /\ "quote" \in s.exists /\ x.n \in Nat
            /\ Run(s, x) = [exists |-> s.exists, balance |-> s.balance,
                            extended |-> s.extended, loose |-> s.loose + x.n, failed |-> "none"]
         \/ /\ s.failed = "none" /\ x.op = "sync" /\ "quote" \in s.exists
            /\ Run(s, x) = [exists |-> s.exists, balance |-> s.balance + s.loose,
                            extended |-> s.extended, loose |-> 0, failed |-> "none"]
<1>0. /\ s = [exists |-> s.exists, balance |-> s.balance, extended |-> s.extended,
              loose |-> s.loose, failed |-> s.failed]
      /\ x.op = "create" => x.what \in Accounts
      /\ x.op = "transfer" => x.n \in Nat
  BY OpFields DEF States
<1>1. CASE s.failed # "none" \/ ~IsSetup(x)
  BY <1>1 DEF Run
<1>2. CASE s.failed = "none" /\ x.op = "create"
  <2>1. Run(s, x) = [s EXCEPT !.exists = @ \cup {x.what}]
    BY <1>2 DEF Run, IsSetup
  <2> QED
    BY <1>0, <1>2, <2>1
<1>3. CASE s.failed = "none" /\ x.op = "init"
  <2>1. Run(s, x) = IF s.extended THEN [s EXCEPT !.failed = "init"] ELSE [s EXCEPT !.extended = TRUE]
    BY <1>3 DEF Run, IsSetup
  <2> QED
    BY <1>0, <1>3, <2>1
<1>4. CASE s.failed = "none" /\ x.op \in {"transfer", "sync"} /\ "quote" \notin s.exists
  <2>1. Run(s, x) = [s EXCEPT !.failed = "missing"]
    BY <1>4 DEF Run, IsSetup
  <2> QED
    BY <1>0, <1>4, <2>1
<1>5. CASE s.failed = "none" /\ x.op = "transfer" /\ "quote" \in s.exists
  <2>1. Run(s, x) = [s EXCEPT !.loose = @ + x.n]
    BY <1>5 DEF Run, IsSetup
  <2> QED
    BY <1>0, <1>5, <2>1
<1>6. CASE s.failed = "none" /\ x.op = "sync" /\ "quote" \in s.exists
  <2>1. Run(s, x) = [s EXCEPT !.balance = @ + s.loose, !.loose = 0]
    BY <1>6 DEF Run, IsSetup
  <2> QED
    BY <1>0, <1>6, <2>1
<1> QED
  BY <1>1, <1>2, <1>3, <1>4, <1>5, <1>6 DEF IsSetup

(* The chain keeps its types. *)
LEMMA RunTyped ==
  ASSUME NEW s \in States, NEW x \in Ops
  PROVE  Run(s, x) \in States
<1>1. /\ s.exists \subseteq Accounts /\ s.balance \in Nat /\ s.extended \in BOOLEAN
      /\ s.loose \in Nat /\ s.failed \in {"none", "missing", "init"}
  BY DEF States
<1>2. s.balance + s.loose \in Nat /\ (x.n \in Nat => s.loose + x.n \in Nat)
  BY <1>1 DEF States
<1>3. x.what \in Accounts => s.exists \cup {x.what} \subseteq Accounts
  BY <1>1
<1>4. /\ Run(s, x).exists \subseteq Accounts
      /\ Run(s, x).balance \in Nat /\ Run(s, x).loose \in Nat /\ Run(s, x).extended \in BOOLEAN
      /\ Run(s, x).failed \in {"none", "missing", "init"}
  <2>1. Run(s, x).exists = s.exists
        \/ (x.what \in Accounts /\ Run(s, x).exists = s.exists \cup {x.what})
    BY RunCases
  <2>2. Run(s, x).exists \subseteq Accounts
    BY <1>1, <2>1
  <2>3. Run(s, x).balance \in Nat /\ Run(s, x).loose \in Nat
    BY <1>1, <1>2, RunCases
  <2>4. Run(s, x).extended \in BOOLEAN
    <3>1. Run(s, x).extended = s.extended \/ Run(s, x).extended = TRUE
      BY RunCases
    <3> QED
      BY <1>1, <3>1, Zenon
  <2>5. Run(s, x).failed \in {"none", "missing", "init"}
    BY <1>1, RunCases
  <2> QED
    BY <2>2, <2>3, <2>4, <2>5
<1>5. Run(s, x) = [exists |-> Run(s, x).exists, balance |-> Run(s, x).balance,
                   extended |-> Run(s, x).extended, loose |-> Run(s, x).loose,
                   failed |-> Run(s, x).failed]
  BY RunCases DEF States
<1> HIDE DEF Run
<1> QED
  BY <1>4, <1>5 DEF States

(* What an instruction leaves as it was, and what it brings about. *)
LEMMA RunEffect ==
  ASSUME NEW s \in States, NEW x \in Ops, Run(s, x).failed = "none"
  PROVE  /\ s.failed = "none"
         /\ s.exists \subseteq Run(s, x).exists
         /\ x.op = "create" => x.what \in Run(s, x).exists
         /\ s.balance <= Run(s, x).balance
         /\ s.balance + s.loose <= Run(s, x).balance + Run(s, x).loose
         /\ x.op = "transfer" => Run(s, x).balance + Run(s, x).loose = s.balance + s.loose + x.n
         /\ x.op = "sync" => Run(s, x).balance = s.balance + s.loose
         /\ s.extended => Run(s, x).extended
         /\ x.op = "init" => Run(s, x).extended
<1>1. s.balance \in Nat /\ s.loose \in Nat
  BY DEF States
<1>2. CASE Run(s, x) = s /\ (s.failed # "none" \/ ~IsSetup(x))
  BY <1>1, <1>2 DEF IsSetup
<1>3. CASE Run(s, x) # s \/ (s.failed = "none" /\ IsSetup(x))
  <2>1. CASE x.op = "create"
    BY <1>1, <1>3, <2>1, RunCases
  <2>2. CASE x.op = "init"
    BY <1>1, <1>3, <2>2, RunCases
  <2>3. CASE x.op = "transfer"
    BY <1>1, <1>3, <2>3, RunCases
  <2>4. CASE x.op = "sync"
    BY <1>1, <1>3, <2>4, RunCases
  <2> QED
    BY <1>3, <2>1, <2>2, <2>3, <2>4, RunCases
<1> QED
  BY <1>2, <1>3

(* It lacks an account only if it moves sol without the quote account. *)
LEMMA RunMisses ==
  ASSUME NEW s \in States, NEW x \in Ops, s.failed # "missing",
         x.op \in {"transfer", "sync"} /\ s.failed = "none" => "quote" \in s.exists
  PROVE  /\ Run(s, x).failed # "missing"
         /\ Run(s, x).failed = "none" => s.failed = "none"
<1>0. s = [exists |-> s.exists, balance |-> s.balance, extended |-> s.extended,
           loose |-> s.loose, failed |-> s.failed]
  BY DEF States
<1>1. CASE s.failed # "none" \/ ~IsSetup(x)
  BY <1>1 DEF Run
<1>2. CASE s.failed = "none" /\ IsSetup(x) /\ x.op = "create"
  BY <1>0, <1>2 DEF Run
<1>3. CASE s.failed = "none" /\ IsSetup(x) /\ x.op = "init"
  BY <1>0, <1>3 DEF Run
<1>4. CASE s.failed = "none" /\ IsSetup(x) /\ x.op \in {"transfer", "sync"}
  BY <1>0, <1>4 DEF Run
<1> QED
  BY <1>1, <1>2, <1>3, <1>4 DEF IsSetup

ChainTyped == exists \subseteq Accounts /\ balance \in Nat /\ extended \in BOOLEAN

(* The chain takes the instructions one by one. *)
LEMMA Taken ==
  ASSUME ChainTyped, NEW ops \in Seq(Ops)
  PROVE  \E w : /\ w \in [0..Len(ops) -> States] /\ w[0] = Now /\ w[Len(ops)] = After(ops)
                /\ \A k \in 1..Len(ops) : w[k] = Run(w[k - 1], ops[k])
<1> DEFINE N == Len(ops)
           step == [k \in 1..N |-> [s \in States |-> Run(s, ops[k])]]
<1>1. N \in Nat /\ \A k \in 1..N : ops[k] \in Ops
  OBVIOUS
<1>2. Now \in States
  BY DEF Now, States, ChainTyped
<1>3. step \in [1..N -> [States -> States]] /\ \A s \in States, k \in 1..N : step[k][s] = Run(s, ops[k])
  <2> HIDE DEF N
  <2> QED
    BY <1>1, RunTyped
<1>4. PICK w : Follows(w, N, States, Now, step)
  <2> HIDE DEF N, step
  <2> QED
    BY <1>1, <1>2, <1>3, Iterated
<1>5. w \in [0..N -> States] /\ w[0] = Now /\ \A k \in 1..N : w[k] = Run(w[k - 1], ops[k])
  <2>1. \A k \in 1..N : k - 1 \in 0..N
    BY <1>1
  <2> HIDE DEF N, step
  <2> QED
    BY <2>1, <1>3, <1>4 DEF Follows
<1> DEFINE after[k \in 0..N] == IF k = 0 THEN Now ELSE Run(after[k - 1], ops[k])
<1>6. after = [k \in 0..N |-> IF k = 0 THEN Now ELSE Run(after[k - 1], ops[k])]
  <2>1. w = [k \in 0..N |-> IF k = 0 THEN Now ELSE Run(w[k - 1], ops[k])]
    <3>1. \A k \in 0..N : k # 0 => k \in 1..N
      BY <1>1
    <3> HIDE DEF N, step
    <3> QED
      BY <1>5, <3>1
  <2> HIDE DEF N, step
  <2> QED
    BY <2>1 DEF after
<1>7. After(ops) = after[N]
  BY DEF After
<1> DEFINE G == {k \in 0..N : after[k] = w[k]}
<1>8. 0 \in G /\ \A k \in 1..N : k - 1 \in G => k \in G
  <2>1. 0 \in 0..N /\ \A k \in 1..N : k \in 0..N /\ k # 0 /\ k - 1 \in 0..N
    BY <1>1
  <2> HIDE DEF N, step, after
  <2>2. after[0] = Now /\ \A k \in 1..N : after[k] = Run(after[k - 1], ops[k])
    BY <1>6, <2>1
  <2> QED
    BY <1>5, <2>1, <2>2
<1>9. N \in G
  <2>1. N \in 0..N
    BY <1>1
  <2> HIDE DEF N, G
  <2> QED
    BY <1>1, <1>8, <2>1, UpTo
<1> QED
  BY <1>5, <1>7, <1>9

(* After k instructions that did not fail the chain holds what these have  *)
(* created, moved and initialized, and lost nothing.                       *)
Holds(s, ops, k) ==
    /\ exists \subseteq s.exists /\ s.balance >= balance /\ s.balance + s.loose >= balance
    /\ extended => s.extended
    /\ \A j \in 1..k : ops[j].op = "create" => ops[j].what \in s.exists
    /\ \A j \in 1..k : ops[j].op = "init" => s.extended
    /\ \A j \in 1..k : ops[j].op = "transfer" => s.balance + s.loose >= balance + ops[j].n
    /\ \A j \in 1..k : \A i \in 1..j - 1 :
           ops[i].op = "transfer" /\ ops[j].op = "sync" => s.balance >= balance + ops[i].n

(* One more instruction of a list that is provided for. *)
LEMMA HoldsStep ==
  ASSUME ChainTyped, NEW ops \in Seq(Ops), NEW k \in 1..Len(ops), NEW s \in States,
         Holds(s, ops, k - 1), Run(s, ops[k]).failed = "none"
  PROVE  Holds(Run(s, ops[k]), ops, k)
<1> DEFINE x == ops[k]
           r == Run(s, x)
<1>1. x \in Ops /\ r \in States
  BY RunTyped
<1>2. /\ s.exists \subseteq r.exists
      /\ x.op = "create" => x.what \in r.exists
      /\ s.balance <= r.balance
      /\ s.balance + s.loose <= r.balance + r.loose
      /\ x.op = "transfer" => r.balance + r.loose = s.balance + s.loose + x.n
      /\ x.op = "sync" => r.balance = s.balance + s.loose
      /\ s.extended => r.extended
      /\ x.op = "init" => r.extended
  BY <1>1, RunEffect
<1>3. /\ s.balance \in Nat /\ s.loose \in Nat /\ r.balance \in Nat /\ r.loose \in Nat /\ balance \in Nat
      /\ \A j \in 1..Len(ops) : ops[j].op = "transfer" => ops[j].n \in Nat
  <2>1. \A j \in 1..Len(ops) : ops[j] \in Ops
    OBVIOUS
  <2>2. s.balance \in Nat /\ s.loose \in Nat
    BY DEF States
  <2>3. r.balance \in Nat /\ r.loose \in Nat
    <3> HIDE DEF r
    <3> QED
      BY <1>1 DEF States
  <2> QED
    BY <2>1, <2>2, <2>3, OpFields DEF ChainTyped
<1>4. \A j \in 1..k : j = k \/ j \in 1..k - 1
  OBVIOUS
<1>k. Len(ops) \in Nat /\ \A j \in 1..k : j \in 1..Len(ops)
  OBVIOUS
<1> HIDE DEF r
<1>5. exists \subseteq r.exists /\ r.balance >= balance /\ r.balance + r.loose >= balance
      /\ (extended => r.extended)
  BY <1>2, <1>3 DEF Holds
<1>6. \A j \in 1..k : ops[j].op = "create" => ops[j].what \in r.exists
  BY <1>2, <1>4 DEF Holds
<1>7. \A j \in 1..k : ops[j].op = "init" => r.extended
  BY <1>2, <1>4 DEF Holds
<1>8. \A j \in 1..k : ops[j].op = "transfer" => r.balance + r.loose >= balance + ops[j].n
  <2> SUFFICES ASSUME NEW j \in 1..k, ops[j].op = "transfer"
               PROVE  r.balance + r.loose >= balance + ops[j].n
    OBVIOUS
  <2>1. ops[j].n \in Nat
    BY <1>3, <1>k
  <2>2. CASE j = k
    <3>1. r.balance + r.loose = s.balance + s.loose + ops[j].n /\ s.balance + s.loose >= balance
      BY <1>2, <2>2 DEF Holds
    <3> QED
      BY <1>3, <2>1, <3>1
  <2>3. CASE j \in 1..k - 1
    <3>1. s.balance + s.loose >= balance + ops[j].n
      BY <2>3 DEF Holds
    <3>2. s.balance + s.loose <= r.balance + r.loose
      BY <1>2
    <3>3. s.balance + s.loose \in Int
      BY <1>3
    <3>4. r.balance + r.loose \in Int
      BY <1>3
    <3>5. balance + ops[j].n \in Int
      BY <1>3, <2>1
    <3> QED
      BY <3>1, <3>2, <3>3, <3>4, <3>5
  <2> QED
    BY <1>4, <2>2, <2>3
<1>9. \A j \in 1..k : \A i \in 1..j - 1 :
          ops[i].op = "transfer" /\ ops[j].op = "sync" => r.balance >= balance + ops[i].n
  <2> SUFFICES ASSUME NEW j \in 1..k, NEW i \in 1..j - 1,
                      ops[i].op = "transfer", ops[j].op = "sync"
               PROVE  r.balance >= balance + ops[i].n
    OBVIOUS
  <2>1. i \in 1..k - 1 /\ i \in 1..Len(ops) /\ ops[i].n \in Nat
    BY <1>3, <1>k
  <2>2. CASE j = k
    <3>1. r.balance = s.balance + s.loose /\ s.balance + s.loose >= balance + ops[i].n
      BY <1>2, <2>1, <2>2 DEF Holds
    <3> QED
      BY <3>1
  <2>3. CASE j \in 1..k - 1
    <3>1. s.balance >= balance + ops[i].n
      BY <2>3 DEF Holds
    <3>2. s.balance <= r.balance
      BY <1>2
    <3>3. s.balance \in Int /\ r.balance \in Int /\ balance + ops[i].n \in Int
      BY <1>3, <2>1
    <3> QED
      BY <3>1, <3>2, <3>3
  <2> QED
    BY <1>4, <2>2, <2>3
<1> QED
  BY <1>5, <1>6, <1>7, <1>8, <1>9 DEF Holds, r

(* A transaction that is provided for finds what it needs when it lands,   *)
(* and the quote account has then at least what it had.                    *)
LEMMA LandsFunded ==
  ASSUME ChainTyped, NEW ops \in Seq(Ops), NEW need \in Nat, NEW extending \in BOOLEAN,
         Provided(exists, balance, extended, ops, need, extending)
  PROVE  /\ After(ops) \in States
         /\ After(ops).failed # "missing"
         /\ After(ops).failed = "none" =>
                /\ After(ops).exists = Accounts
                /\ After(ops).balance >= need /\ After(ops).balance >= balance
                /\ extending => After(ops).extended
                /\ extended => After(ops).extended
<1> DEFINE N == Len(ops)
<1>1. N \in Nat /\ \A k \in 1..N : ops[k] \in Ops /\ k - 1 \in 0..N /\ k \in 0..N
  OBVIOUS
<1>2. PICK w : /\ w \in [0..N -> States] /\ w[0] = Now /\ w[N] = After(ops)
               /\ \A k \in 1..N : w[k] = Run(w[k - 1], ops[k])
  BY Taken
<1> DEFINE G == {k \in 0..N : w[k].failed # "missing" /\ (w[k].failed = "none" => Holds(w[k], ops, k))}
<1>3. 0 \in G
  <2>1. /\ Now.failed = "none" /\ Now.exists = exists /\ Now.balance = balance
        /\ Now.loose = 0 /\ Now.extended = extended
    BY DEF Now
  <2>2. Holds(Now, ops, 0)
    BY <2>1 DEF Holds, ChainTyped
  <2>3. w[0].failed # "missing" /\ Holds(w[0], ops, 0)
    BY <1>2, <2>1, <2>2
  <2> QED
    BY <1>1, <2>3
<1>4. ASSUME NEW k \in 1..N, k - 1 \in G PROVE k \in G
  <2>1. w[k - 1] \in States /\ w[k] = Run(w[k - 1], ops[k]) /\ ops[k] \in Ops
        /\ w[k - 1].failed # "missing" /\ (w[k - 1].failed = "none" => Holds(w[k - 1], ops, k - 1))
    BY <1>1, <1>2, <1>4
  <2>2. ASSUME ops[k].op \in {"transfer", "sync"}, w[k - 1].failed = "none"
        PROVE  "quote" \in w[k - 1].exists
    <3>1. exists \subseteq w[k - 1].exists
          /\ \A j \in 1..k - 1 : ops[j].op = "create" => ops[j].what \in w[k - 1].exists
      BY <2>1, <2>2 DEF Holds
    <3>2. "quote" \in exists \/ \E j \in 1..k - 1 : ops[j] = Create("quote")
      BY <2>2 DEF Provided, Quoted
    <3>3. Create("quote").op = "create" /\ Create("quote").what = "quote"
      BY OpsMade DEF Accounts
    <3> QED
      BY <3>1, <3>2, <3>3
  <2> DEFINE before == w[k - 1]
  <2>3. before \in States /\ before.failed # "missing"
        /\ (ops[k].op \in {"transfer", "sync"} /\ before.failed = "none" => "quote" \in before.exists)
    BY <2>1, <2>2
  <2>4. Run(before, ops[k]).failed # "missing"
        /\ (Run(before, ops[k]).failed = "none" => before.failed = "none")
    <3> HIDE DEF before
    <3> QED
      BY <2>1, <2>3, RunMisses
  <2>5. ASSUME w[k].failed = "none" PROVE Holds(w[k], ops, k)
    <3>1. Holds(before, ops, k - 1) /\ Run(before, ops[k]).failed = "none"
      BY <2>1, <2>4, <2>5
    <3>2. Holds(Run(before, ops[k]), ops, k)
      <4> HIDE DEF before
      <4> QED
        BY <2>3, <3>1, HoldsStep
    <3> QED
      BY <2>1, <3>2
  <2> QED
    BY <1>1, <2>1, <2>4, <2>5
<1>5. N \in G
  <2>1. N \in 0..N
    BY <1>1
  <2> HIDE DEF N, G
  <2> QED
    BY <1>1, <1>3, <1>4, <2>1, UpTo
<1> DEFINE s == After(ops)
<1>6. s \in States /\ s.failed # "missing" /\ (s.failed = "none" => Holds(s, ops, N))
  BY <1>1, <1>2, <1>5
<1> HIDE DEF s
<1>7. ASSUME s.failed = "none"
      PROVE  s.exists = Accounts /\ s.balance >= need /\ s.balance >= balance
             /\ (extending => s.extended) /\ (extended => s.extended)
  <2>1. /\ exists \subseteq s.exists /\ s.balance >= balance
        /\ extended => s.extended
        /\ \A j \in 1..N : ops[j].op = "create" => ops[j].what \in s.exists
        /\ \A j \in 1..N : ops[j].op = "init" => s.extended
        /\ \A j \in 1..N : \A i \in 1..j - 1 :
               ops[i].op = "transfer" /\ ops[j].op = "sync" => s.balance >= balance + ops[i].n
    BY <1>6, <1>7 DEF Holds
  <2>2. s.exists = Accounts
    <3>1. s.exists \subseteq Accounts
      BY <1>6 DEF States
    <3>2. \A a \in Accounts : Create(a).op = "create" /\ Create(a).what = a
      BY OpsMade
    <3>3. \A a \in Accounts : a \in exists \/ \E i \in 1..N : ops[i] = Create(a)
      BY DEF Provided, Both
    <3>4. ASSUME NEW a \in Accounts PROVE a \in s.exists
      <4>1. CASE a \in exists
        BY <2>1, <4>1
      <4>2. CASE \E i \in 1..N : ops[i] = Create(a)
        <5>1. PICK i \in 1..N : ops[i] = Create(a)
          BY <4>2
        <5>2. ops[i].op = "create" /\ ops[i].what = a
          BY <3>2, <5>1
        <5> QED
          BY <2>1, <5>2
      <4> QED
        BY <3>3, <4>1, <4>2
    <3> QED
      BY <3>1, <3>4
  <2>3. s.balance >= need
    <3>1. CASE balance >= need
      BY <1>6, <2>1, <3>1 DEF States, ChainTyped
    <3>2. CASE \E j \in 1..N : \E i \in 1..j - 1 :
                   ops[i].op = "transfer" /\ ops[j].op = "sync" /\ balance + ops[i].n >= need
      <4>1. PICK j \in 1..N : \E i \in 1..j - 1 :
                     ops[i].op = "transfer" /\ ops[j].op = "sync" /\ balance + ops[i].n >= need
        BY <3>2
      <4>2. PICK i \in 1..j - 1 :
                     ops[i].op = "transfer" /\ ops[j].op = "sync" /\ balance + ops[i].n >= need
        BY <4>1
      <4>3. i \in 1..N
        BY <1>1, <4>1, <4>2
      <4>4. ops[i].n \in Nat
        BY <1>1, <4>2, <4>3, OpFields
      <4>5. s.balance >= balance + ops[i].n
        BY <2>1, <4>2
      <4>6. s.balance \in Nat
        BY <1>6 DEF States
      <4> QED
        BY <4>2, <4>4, <4>5, <4>6 DEF ChainTyped
    <3> QED
      BY <3>1, <3>2 DEF Provided, Funded
  <2>4. extending => s.extended
    <3>1. InitExtension.op = "init"
      BY OpsMade
    <3> QED
      BY <2>1, <3>1 DEF Provided, Inits
  <2> QED
    BY <2>1, <2>2, <2>3, <2>4
<1> QED
  BY <1>6, <1>7 DEF s

(* What a transaction leaves of the chain has its types. *)
LEMMA AfterTyped ==
  ASSUME ChainTyped, NEW ops \in Seq(Ops)
  PROVE  After(ops) \in States
<1>1. PICK w : w \in [0..Len(ops) -> States] /\ w[Len(ops)] = After(ops)
  BY Taken
<1>2. Len(ops) \in 0..Len(ops)
  OBVIOUS
<1> QED
  BY <1>1, <1>2

-----------------------------------------------------------------------------
(* What the steps of a builder put into the setup. *)

(* Two lists of at most one instruction, one after the other. *)
LEMMA PairOf ==
  ASSUME NEW x, NEW y
  PROVE  /\ <<x>> \o <<y>> = <<x, y>>
         /\ <<x>> \o <<>> = <<x>> /\ <<>> \o <<x>> = <<x>> /\ <<>> \o <<>> = <<>>
<1> DEFINE S == {x, y}
           s == <<x>>
           t == <<y>>
           u == s \o t
           v == <<x, y>>
<1>1. s \in Seq(S) /\ t \in Seq(S) /\ Len(s) = 1 /\ Len(t) = 1 /\ s[1] = x /\ t[1] = y
  OBVIOUS
<1>2. v \in Seq(S) /\ Len(v) = 2 /\ v[1] = x /\ v[2] = y
  OBVIOUS
<1>3. u \in Seq(S) /\ Len(u) = 2 /\ u[1] = x /\ u[2] = y
  <2> HIDE DEF S, s, t
  <2>1. /\ u \in Seq(S) /\ Len(u) = Len(s) + Len(t)
        /\ \A i \in 1..Len(s) + Len(t) : u[i] = IF i <= Len(s) THEN s[i] ELSE t[i - Len(s)]
    BY <1>1, ConcatProperties, Zenon
  <2> HIDE DEF u
  <2>2. 1 \in 1..Len(s) + Len(t) /\ 2 \in 1..Len(s) + Len(t) /\ 2 - Len(s) = 1
    BY <1>1
  <2> QED
    BY <1>1, <2>1, <2>2
<1>4. u = v
  <2> HIDE DEF S, u, v
  <2>1. \A i \in 1..Len(u) : u[i] = v[i]
    BY <1>2, <1>3
  <2> QED
    BY <1>2, <1>3, <2>1, SeqEqual
<1> QED
  BY <1>4

(* Accounts known to exist are left out, the others created. *)
LEMMA CreateForFacts ==
  ASSUME NEW accounts, NEW known, known \subseteq accounts
  PROVE  /\ CreateFor(known) \in Seq(SetupOps)
         /\ Both(accounts, CreateFor(known)) /\ ~Inits(CreateFor(known))
         /\ \A i \in 1..Len(CreateFor(known)) : CreateFor(known)[i].op \notin {"transfer", "sync"}
<1>1. Create("quote") \in SetupOps /\ Create("token") \in SetupOps
      /\ Create("quote").op = "create" /\ Create("token").op = "create"
      /\ InitExtension.op = "init"
  BY OpsMade DEF Accounts
<1> DEFINE made == CreateFor(known)
<1>2. \/ made = <<>> /\ "quote" \in known /\ "token" \in known
      \/ made = <<Create("quote")>> /\ "token" \in known
      \/ made = <<Create("token")>> /\ "quote" \in known
      \/ made = <<Create("quote"), Create("token")>>
  <2>1. /\ <<Create("quote")>> \o <<Create("token")>> = <<Create("quote"), Create("token")>>
        /\ <<Create("quote")>> \o <<>> = <<Create("quote")>>
        /\ <<>> \o <<Create("token")>> = <<Create("token")>> /\ <<>> \o <<>> = <<>>
    BY PairOf
  <2> QED
    BY <2>1 DEF CreateFor
<1> HIDE DEF made
<1>3. CASE made = <<>> /\ "quote" \in known /\ "token" \in known
  BY <1>1, <1>3 DEF Both, Inits, Accounts, made
<1>4. CASE made = <<Create("quote")>> /\ "token" \in known
  <2>1. made \in Seq(SetupOps) /\ Len(made) = 1 /\ made[1] = Create("quote")
    BY <1>1, <1>4
  <2>2. 1 \in 1..Len(made) /\ \A i \in 1..Len(made) : i = 1
    BY <2>1
  <2> QED
    BY <1>1, <1>4, <2>1, <2>2 DEF Both, Inits, Accounts, made
<1>5. CASE made = <<Create("token")>> /\ "quote" \in known
  <2>1. made \in Seq(SetupOps) /\ Len(made) = 1 /\ made[1] = Create("token")
    BY <1>1, <1>5
  <2>2. 1 \in 1..Len(made) /\ \A i \in 1..Len(made) : i = 1
    BY <2>1
  <2> QED
    BY <1>1, <1>5, <2>1, <2>2 DEF Both, Inits, Accounts, made
<1>6. CASE made = <<Create("quote"), Create("token")>>
  <2>1. made \in Seq(SetupOps) /\ Len(made) = 2
        /\ made[1] = Create("quote") /\ made[2] = Create("token")
    BY <1>1, <1>6
  <2>2. 1 \in 1..Len(made) /\ 2 \in 1..Len(made) /\ \A i \in 1..Len(made) : i = 1 \/ i = 2
    BY <2>1
  <2> QED
    BY <1>1, <2>1, <2>2 DEF Both, Inits, Accounts, made
<1> QED
  BY <1>2, <1>3, <1>4, <1>5, <1>6

(* The amount read is never above what the account holds. *)
LEMMA FundingFacts ==
  ASSUME balance \in Nat, NEW need \in Nat, Value(Amount) \in Nat, Value(Amount) <= balance
  PROVE  /\ Funding(need) \in Seq(SetupOps)
         /\ Funded(balance, Funding(need), need) /\ ~Inits(Funding(need))
<1> DEFINE short == Shortfall(need, Value(Amount))
<1>1. short = IF need >= Value(Amount) THEN need - Value(Amount) ELSE 0
  BY DEF Shortfall, Most
<1>2. short \in Nat /\ (short > 0 => balance + short >= need) /\ (~(short > 0) => balance >= need)
  BY <1>1
<1>3. Funding(need) = (IF short > 0 THEN <<Transfer(short)>> ELSE <<>>) \o <<Sync>>
  BY DEF Funding
<1> HIDE DEF short
<1>4. Transfer(short) \in SetupOps /\ Transfer(short).op = "transfer" /\ Transfer(short).n = short
      /\ Sync \in SetupOps /\ Sync.op = "sync" /\ InitExtension.op = "init"
  BY <1>2, OpsMade
<1> DEFINE made == Funding(need)
<1>5. CASE short > 0
  <2>1. made = <<Transfer(short), Sync>>
    BY <1>3, <1>5, PairOf
  <2> HIDE DEF made
  <2>2. made \in Seq(SetupOps) /\ Len(made) = 2 /\ made[1] = Transfer(short) /\ made[2] = Sync
    BY <1>4, <2>1
  <2>3. 1 \in 1..Len(made) /\ 2 \in 1..Len(made) /\ 1 \in 1..2 - 1 /\ \A i \in 1..Len(made) : i = 1 \/ i = 2
    BY <2>2
  <2>4. Funded(balance, made, need)
    BY <1>2, <1>4, <1>5, <2>2, <2>3 DEF Funded
  <2>5. ~Inits(made)
    BY <1>4, <2>2, <2>3 DEF Inits
  <2> QED
    BY <2>2, <2>4, <2>5 DEF made
<1>6. CASE ~(short > 0)
  <2>1. made = <<Sync>>
    BY <1>3, <1>6
  <2> HIDE DEF made
  <2>2. made \in Seq(SetupOps) /\ Len(made) = 1 /\ made[1] = Sync
    BY <1>4, <2>1
  <2>3. \A i \in 1..Len(made) : i = 1
    BY <2>2
  <2>4. Funded(balance, made, need) /\ ~Inits(made)
    BY <1>2, <1>4, <1>6, <2>2, <2>3 DEF Funded, Inits
  <2> QED
    BY <2>2, <2>4 DEF made
<1> QED
  BY <1>5, <1>6

-----------------------------------------------------------------------------
(* The invariant.  A setup is what the steps taken so far owe it; nothing  *)
(* is wrapped or required before the accounts are taken care of.           *)
ToDo(d, names) == \E i \in 1..Len(d.todo) : d.todo[i] \in names

Made(accounts, holding, open, d) ==
    /\ Quoted(accounts, d.setup)
    /\ ToDo(d, {"create", "accounts"}) \/ Both(accounts, d.setup)
    /\ ToDo(d, {"wrap", "require"}) \/ Funded(holding, d.setup, d.terms.need)
    /\ d.extension => open \/ Inits(d.setup)
    /\ Inits(d.setup) => AllowInit
    /\ Calibrated(d.family) /\ AllowInit => ToDo(d, {"bitmap"}) \/ d.extension
Ordered(d) ==
    /\ \A i, j \in 1..Len(d.todo) :
          i < j /\ d.todo[i] \in {"wrap", "require"} => d.todo[j] \notin {"create", "accounts"}
    /\ ToDo(d, {"calibrate_sell", "calibrate_pump"}) => Calibrated(d.family)
TermsKept(d) ==
    /\ d.terms.need = TermsOf(d.family, d.input).need
    /\ d.family = "PumpToClmm" => d.terms = TermsOf(d.family, d.input)
(* The setup held is that of the plan, except that a pair's plan built     *)
(* again after its simulation goes with the setup of the plan before: it   *)
(* serves too, and initializes whatever the new one may rely on.           *)
Serves(accounts, holding, open, place, h, d) ==
    /\ d.round = 1 => /\ Calibrated(d.family)
                      /\ Provided(accounts, holding, open, h, d.terms.need, AllowInit)
    /\ place \in {"built", "ready"} /\ d.round # 1 => h = d.setup

ChainOK == ChainTyped /\ ("quote" \notin exists => balance = 0)
CachesOK ==
    /\ listed \subseteq exists
    /\ amount \in Nat \cup {Unread, NoAccount}
    /\ amount >= 0 => "quote" \in exists /\ amount <= balance
    /\ bitmap \in {"unread", "no", "yes"} /\ (bitmap = "yes" => extended)
DraftOK ==
    /\ at \in {"idle", "building", "built", "ready"} /\ held \in Seq(SetupOps)
    /\ at = "idle" => draft = NoPlan
    /\ at # "idle" => /\ draft \in Drafts /\ (at # "building") = (draft.todo = <<>>)
                      /\ Made(exists, balance, extended, draft)
                      /\ Ordered(draft) /\ TermsKept(draft)
                      /\ Serves(exists, balance, extended, at, held, draft)

EndsIn(ops, family) ==
    LET setup == Len(ops) - Len(TradeOf(family))
    IN /\ setup >= 0 /\ SubSeq(ops, setup + 1, Len(ops)) = TradeOf(family)
       /\ \A i \in 1..setup : IsSetup(ops[i])
Flies(accounts, holding, open, tx) ==
    /\ Provided(accounts, holding, open, tx.ops, tx.need, tx.extension)
    /\ \E family \in Families : EndsIn(tx.ops, family)
    /\ Contains(tx.ops, TwoHop) \/ tx.least > tx.need
FlightsOK ==
    /\ flights \in Seq(Flights) /\ Len(flights) <= MaxFlights
    /\ \A k \in 1..Len(flights) : Flies(exists, balance, extended, flights[k])

FundingInv == ChainOK /\ CachesOK /\ DraftOK /\ FlightsOK

-----------------------------------------------------------------------------
(* Plans. *)

(* The steps of every builder, and that there are some. *)
LEMMA StepsMade ==
  ASSUME NEW family \in Builders
  PROVE  \/ family = "PumpMeteora" /\ StepsOf(family) = <<"balance", "create", "wrap", "bitmap">>
         \/ /\ family = "PumpToMeteoraCalibrated"
            /\ StepsOf(family) = <<"balance", "create", "wrap", "bitmap", "calibrate_sell">>
         \/ /\ family = "MeteoraToPumpCalibrated"
            /\ StepsOf(family) = <<"balance", "create", "wrap", "bitmap", "calibrate_pump">>
         \/ family = "MeteoraRaydium" /\ StepsOf(family) = <<"accounts", "balance", "wrap", "bitmap">>
         \/ family = "RaydiumWhirlpool" /\ StepsOf(family) = <<"accounts", "balance", "wrap">>
         \/ /\ family \in {"PumpToClmm", "ClmmToPump"}
            /\ StepsOf(family) = <<"balance", "accounts", "wrap">>
         \/ /\ family \in {"MeteoraWhirlpool", "MeteoraMeteora"}
            /\ StepsOf(family) = <<"accounts", "balance", "require">>
  BY DEF Builders, StepsOf, PumpMeteora, PumpMeteoraCalibrated, MeteoraRaydium,
         RaydiumWhirlpool, PumpClmm, MeteoraWhirlpool, MeteoraMeteora

(* No builder wraps or requires an amount before its accounts are taken    *)
(* care of; every pair prepares the extension.                             *)
LEMMA StepsOrdered ==
  ASSUME NEW family \in Builders
  PROVE  LET s == StepsOf(family)
         IN /\ s \in Seq(Names) /\ s # <<>>
            /\ \E i \in 1..Len(s) : s[i] \in {"create", "accounts"}
            /\ \E i \in 1..Len(s) : s[i] \in {"wrap", "require"}
            /\ Calibrated(family) => \E i \in 1..Len(s) : s[i] = "bitmap"
            /\ \A i, j \in 1..Len(s) :
                   i < j /\ s[i] \in {"wrap", "require"} => s[j] \notin {"create", "accounts"}
            /\ \A i \in 1..Len(s) : s[i] \in {"calibrate_sell", "calibrate_pump"} => Calibrated(family)
<1> DEFINE s == StepsOf(family)
<1>0. 1..3 = {1, 2, 3} /\ 1..4 = {1, 2, 3, 4} /\ 1..5 = {1, 2, 3, 4, 5}
  OBVIOUS
<1>1. CASE s = <<"balance", "create", "wrap", "bitmap">> /\ family = "PumpMeteora"
  <2> HIDE DEF s
  <2>1. s \in Seq(Names) /\ Len(s) = 4 /\ s[1] = "balance" /\ s[2] = "create" /\ s[3] = "wrap"
        /\ s[4] = "bitmap" /\ s # <<>>
    BY <1>1 DEF Names
  <2>2. ~Calibrated(family)
    BY <1>1 DEF Calibrated
  <2> QED
    BY <1>0, <2>1, <2>2 DEF s
<1>2. CASE s = <<"balance", "create", "wrap", "bitmap", "calibrate_sell">>
           /\ family = "PumpToMeteoraCalibrated"
  <2> HIDE DEF s
  <2>1. s \in Seq(Names) /\ Len(s) = 5 /\ s[1] = "balance" /\ s[2] = "create" /\ s[3] = "wrap"
        /\ s[4] = "bitmap" /\ s[5] = "calibrate_sell" /\ s # <<>>
    BY <1>2 DEF Names
  <2>2. Calibrated(family)
    BY <1>2 DEF Calibrated
  <2> QED
    BY <1>0, <2>1, <2>2 DEF s
<1>3. CASE s = <<"balance", "create", "wrap", "bitmap", "calibrate_pump">>
           /\ family = "MeteoraToPumpCalibrated"
  <2> HIDE DEF s
  <2>1. s \in Seq(Names) /\ Len(s) = 5 /\ s[1] = "balance" /\ s[2] = "create" /\ s[3] = "wrap"
        /\ s[4] = "bitmap" /\ s[5] = "calibrate_pump" /\ s # <<>>
    BY <1>3 DEF Names
  <2>2. Calibrated(family)
    BY <1>3 DEF Calibrated
  <2> QED
    BY <1>0, <2>1, <2>2 DEF s
<1>4. CASE s = <<"accounts", "balance", "wrap", "bitmap">> /\ family = "MeteoraRaydium"
  <2> HIDE DEF s
  <2>1. s \in Seq(Names) /\ Len(s) = 4 /\ s[1] = "accounts" /\ s[2] = "balance" /\ s[3] = "wrap"
        /\ s[4] = "bitmap" /\ s # <<>>
    BY <1>4 DEF Names
  <2>2. ~Calibrated(family)
    BY <1>4 DEF Calibrated
  <2> QED
    BY <1>0, <2>1, <2>2 DEF s
<1>5. CASE ~Calibrated(family)
           /\ s \in {<<"accounts", "balance", "wrap">>, <<"balance", "accounts", "wrap">>,
                     <<"accounts", "balance", "require">>}
  <2> HIDE DEF s
  <2>1. s \in Seq(Names) /\ Len(s) = 3 /\ s[3] \in {"wrap", "require"} /\ s # <<>>
    <3>1. CASE s = <<"accounts", "balance", "wrap">>
      BY <3>1 DEF Names
    <3>2. CASE s = <<"balance", "accounts", "wrap">>
      BY <3>2 DEF Names
    <3>3. CASE s = <<"accounts", "balance", "require">>
      BY <3>3 DEF Names
    <3> QED
      BY <1>5, <3>1, <3>2, <3>3
  <2>2. \/ s[1] = "accounts" /\ s[2] = "balance"
        \/ s[1] = "balance" /\ s[2] = "accounts"
    BY <1>5
  <2> QED
    BY <1>0, <1>5, <2>1, <2>2 DEF s
<1> QED
  BY <1>1, <1>2, <1>3, <1>4, <1>5, StepsMade DEF Calibrated

(* The terms of every family: what it needs is an amount, and PumpSwap to  *)
(* CLMM has to bring back more.                                            *)
LEMMA TermsTyped ==
  ASSUME NEW family \in Families, NEW input \in Inputs
  PROVE  /\ TermsOf(family, input) \in TermSet /\ input \in Nat
         /\ family = "PumpToClmm" => TermsOf(family, input).least > TermsOf(family, input).need
<1>1. input \in Nat /\ RaiseBps \in Nat /\ Cost \in Nat
  BY FundingAssumption
<1>2. Raised(input) \in Nat
  <2>1. input * (10000 + RaiseBps) \in Nat
    BY <1>1
  <2> DEFINE raised == input * (10000 + RaiseBps)
  <2> HIDE DEF raised
  <2>2. (raised + 10000 - 1) \div 10000 \in Nat
    BY <2>1 DEF raised
  <2> QED
    BY <2>2 DEF Raised, CeilDiv, raised
<1>3. /\ [need |-> Raised(input), least |-> Raised(input) + Cost + 1] \in TermSet
      /\ [need |-> input, least |-> input + Cost + 1] \in TermSet
      /\ [need |-> input, least |-> 1] \in TermSet
      /\ Raised(input) + Cost + 1 > Raised(input)
  <2> DEFINE raised == Raised(input)
  <2> HIDE DEF raised
  <2>1. raised \in Nat
    BY <1>2 DEF raised
  <2>2. raised + Cost + 1 \in Int /\ input + Cost + 1 \in Int /\ raised + Cost + 1 > raised
    BY <1>1, <2>1
  <2> QED
    BY <1>1, <2>1, <2>2 DEF TermSet, raised
<1>4. CASE family = "PumpToClmm"
  <2>1. TermsOf(family, input) = [need |-> Raised(input), least |-> Raised(input) + Cost + 1]
    BY <1>4 DEF TermsOf, PumpToClmmTerms
  <2> QED
    BY <1>1, <1>3, <2>1
<1>5. CASE family = "ClmmToPump"
  <2>1. TermsOf(family, input) = [need |-> input, least |-> input + Cost + 1]
    BY <1>5 DEF TermsOf, ClmmToPumpTerms
  <2> QED
    BY <1>1, <1>3, <1>5, <2>1
<1>6. CASE family # "PumpToClmm" /\ family # "ClmmToPump"
  <2>1. TermsOf(family, input) = [need |-> input, least |-> 1]
    BY <1>6 DEF TermsOf
  <2> QED
    BY <1>1, <1>3, <1>6, <2>1
<1> QED
  BY <1>4, <1>5, <1>6

(* A plan as it is begun. *)
LEMMA Begun ==
  ASSUME NEW family \in Families, NEW input \in Inputs, NEW round \in 0..2,
         NEW accounts, NEW holding, NEW open
  PROVE  LET d == Begin(family, input, round)
         IN /\ d \in Drafts /\ d.todo # <<>> /\ d.round = round /\ d.family = family
            /\ d.terms.need = TermsOf(family, input).need
            /\ Made(accounts, holding, open, d) /\ Ordered(d) /\ TermsKept(d)
<1> DEFINE d == Begin(family, input, round)
<1>1. family \in Builders
  BY FundingAssumption
<1> DEFINE s == StepsOf(family)
<1>2. /\ s \in Seq(Names) /\ s # <<>>
      /\ \E i \in 1..Len(s) : s[i] \in {"create", "accounts"}
      /\ \E i \in 1..Len(s) : s[i] \in {"wrap", "require"}
      /\ Calibrated(family) => \E i \in 1..Len(s) : s[i] = "bitmap"
      /\ \A i, j \in 1..Len(s) :
             i < j /\ s[i] \in {"wrap", "require"} => s[j] \notin {"create", "accounts"}
      /\ \A i \in 1..Len(s) : s[i] \in {"calibrate_sell", "calibrate_pump"} => Calibrated(family)
  BY <1>1, StepsOrdered
<1> HIDE DEF s
<1>3. TermsOf(family, input) \in TermSet
  BY TermsTyped
<1>4. d = [family |-> family, input |-> input, round |-> round, todo |-> s,
           start |-> 0, setup |-> <<>>, terms |-> TermsOf(family, input), extension |-> FALSE,
           out |-> 0, seen |-> 0]
  BY DEF Begin, s
<1>5. <<>> \in Seq(SetupOps) /\ Len(<<>>) = 0
  OBVIOUS
<1>6. d \in Drafts
  BY <1>2, <1>3, <1>4, <1>5 DEF Drafts
<1> HIDE DEF d
<1>7. /\ d.family = family /\ d.input = input /\ d.round = round /\ d.todo = s /\ d.setup = <<>>
      /\ d.terms = TermsOf(family, input) /\ d.extension = FALSE
  BY <1>4
<1>8. Quoted(accounts, <<>>) /\ ~Inits(<<>>)
  BY <1>5 DEF Quoted, Inits
<1>9. Made(accounts, holding, open, d)
  BY <1>2, <1>7, <1>8 DEF Made, ToDo
<1>10. Ordered(d)
  BY <1>2, <1>7 DEF Ordered, ToDo
<1>11. TermsKept(d)
  BY <1>7 DEF TermsKept
<1> QED
  BY <1>2, <1>6, <1>7, <1>9, <1>10, <1>11 DEF d

(* The plan with its next step done. *)
Done(d) == [d EXCEPT !.todo = Tail(@)]

(* A plan with its next step done differs in what is left to do. *)
LEMMA DoneFacts ==
  ASSUME NEW d \in Drafts, d.todo # <<>>, NEW name, Head(d.todo) = name
  PROVE  /\ Done(d) \in Drafts /\ Done(d).todo = Tail(d.todo)
         /\ Done(d).family = d.family /\ Done(d).input = d.input /\ Done(d).round = d.round
         /\ Done(d).setup = d.setup /\ Done(d).terms = d.terms /\ Done(d).extension = d.extension
         /\ (Len(d.todo) = 1) = (Done(d).todo = <<>>)
         /\ \A names : ToDo(d, names) => name \in names \/ ToDo(Done(d), names)
         /\ \A names : ToDo(Done(d), names) => ToDo(d, names)
         /\ \A names : name \in names => ToDo(d, names)
         /\ Ordered(d) => Ordered(Done(d))
         /\ Ordered(d) /\ name \in {"wrap", "require"} => ~ToDo(Done(d), {"create", "accounts"})
         /\ Ordered(d) /\ name \in {"calibrate_sell", "calibrate_pump"} => Calibrated(d.family)
<1> DEFINE s == d.todo
           t == Tail(d.todo)
           e == Done(d)
<1>1. s \in Seq(Names) /\ s # <<>>
  BY DEF Drafts
<1>2. /\ t \in Seq(Names) /\ Len(t) = Len(s) - 1 /\ Len(s) \in Nat \ {0}
      /\ \A i \in 1..Len(t) : t[i] = s[i + 1]
      /\ s[1] = name
  BY <1>1, HeadTailProperties
<1>3. /\ e.todo = t /\ e.family = d.family /\ e.input = d.input /\ e.round = d.round
      /\ e.setup = d.setup /\ e.terms = d.terms /\ e.extension = d.extension
      /\ e \in Drafts
  BY <1>2 DEF Done, Drafts
<1> HIDE DEF s, t, e
<1>4. (Len(s) = 1) = (t = <<>>)
  BY <1>2
<1>5. \A i \in 1..Len(s) : i = 1 \/ (i - 1 \in 1..Len(t) /\ t[i - 1] = s[i])
  <2> SUFFICES ASSUME NEW i \in 1..Len(s), i # 1 PROVE i - 1 \in 1..Len(t) /\ t[i - 1] = s[i]
    OBVIOUS
  <2>1. i - 1 \in 1..Len(t) /\ (i - 1) + 1 = i
    BY <1>2
  <2> QED
    BY <1>2, <2>1
<1>6. \A i \in 1..Len(t) : i + 1 \in 1..Len(s) /\ t[i] = s[i + 1]
  BY <1>2
<1>7. 1 \in 1..Len(s)
  BY <1>2
<1>8. \A names : ToDo(d, names) => name \in names \/ ToDo(e, names)
  BY <1>2, <1>3, <1>5 DEF ToDo, s
<1>9. \A names : ToDo(e, names) => ToDo(d, names)
  BY <1>3, <1>6 DEF ToDo, s
<1>10. \A names : name \in names => ToDo(d, names)
  BY <1>2, <1>7 DEF ToDo, s
<1>11. ASSUME Ordered(d) PROVE Ordered(e)
  <2>1. ASSUME NEW i \in 1..Len(t), NEW j \in 1..Len(t), i < j, t[i] \in {"wrap", "require"}
        PROVE  t[j] \notin {"create", "accounts"}
    <3>1. i + 1 \in 1..Len(s) /\ j + 1 \in 1..Len(s) /\ i + 1 < j + 1
          /\ t[i] = s[i + 1] /\ t[j] = s[j + 1]
      BY <1>2, <1>6, <2>1
    <3> QED
      BY <1>11, <2>1, <3>1 DEF Ordered, s
  <2> QED
    BY <1>3, <1>9, <1>11, <2>1 DEF Ordered
<1>12. ASSUME Ordered(d), name \in {"wrap", "require"} PROVE ~ToDo(e, {"create", "accounts"})
  <2> SUFFICES ASSUME NEW i \in 1..Len(t) PROVE t[i] \notin {"create", "accounts"}
    BY <1>3 DEF ToDo
  <2>1. i + 1 \in 1..Len(s) /\ 1 < i + 1 /\ t[i] = s[i + 1]
    BY <1>2, <1>6
  <2> QED
    BY <1>2, <1>7, <1>12, <2>1 DEF Ordered, s
<1>13. ASSUME Ordered(d), name \in {"calibrate_sell", "calibrate_pump"} PROVE Calibrated(d.family)
  BY <1>10, <1>13 DEF Ordered
<1> QED
  BY <1>3, <1>4, <1>8, <1>9, <1>10, <1>11, <1>12, <1>13 DEF s, t, e

(* A step of the builder: what it must do to the setup when it is the one  *)
(* that owes it, and must not undo when it is another.                     *)
LEMMA StepMakes ==
  ASSUME NEW accounts, NEW holding, NEW open, NEW d \in Drafts, NEW new \in Drafts, NEW name,
         d.todo # <<>>, Head(d.todo) = name, Made(accounts, holding, open, d), Ordered(d), TermsKept(d),
         new.todo = d.todo, new.family = d.family, new.input = d.input, new.terms.need = d.terms.need,
         new.terms = d.terms \/ Calibrated(d.family),
         Quoted(accounts, new.setup),
         Both(accounts, d.setup) \/ name \in {"create", "accounts"} => Both(accounts, new.setup),
         Funded(holding, d.setup, d.terms.need) \/ name \in {"wrap", "require"}
             => Funded(holding, new.setup, d.terms.need),
         new.extension => open \/ Inits(new.setup),
         Inits(new.setup) => AllowInit,
         Calibrated(d.family) /\ AllowInit /\ (name = "bitmap" \/ d.extension) => new.extension
  PROVE  Made(accounts, holding, open, Done(new)) /\ Ordered(Done(new)) /\ TermsKept(Done(new))
<1> DEFINE e == Done(new)
<1>1. /\ e.family = d.family /\ e.input = d.input /\ e.setup = new.setup /\ e.terms = new.terms
      /\ e.extension = new.extension
      /\ \A names : ToDo(new, names) => name \in names \/ ToDo(e, names)
      /\ Ordered(new) => Ordered(e)
  BY DoneFacts
<1>2. \A names : ToDo(new, names) <=> ToDo(d, names)
  BY DEF ToDo
<1>3. Ordered(new)
  BY <1>2 DEF Ordered
<1> HIDE DEF e
<1>4. Made(accounts, holding, open, e)
  <2>1. ToDo(e, {"create", "accounts"}) \/ Both(accounts, e.setup)
    BY <1>1, <1>2 DEF Made
  <2>2. ToDo(e, {"wrap", "require"}) \/ Funded(holding, e.setup, e.terms.need)
    BY <1>1, <1>2 DEF Made
  <2>3. Calibrated(e.family) /\ AllowInit => ToDo(e, {"bitmap"}) \/ e.extension
    BY <1>1, <1>2 DEF Made
  <2> QED
    BY <1>1, <2>1, <2>2, <2>3 DEF Made
<1>5. TermsKept(e)
  <2>1. ~(Calibrated(d.family) /\ d.family = "PumpToClmm")
    BY DEF Calibrated
  <2> QED
    BY <1>1, <2>1 DEF TermsKept
<1> QED
  BY <1>1, <1>3, <1>4, <1>5 DEF e

-----------------------------------------------------------------------------
(* The steps of the builder. *)

(* A chain that grew owes a plan no more than before. *)
LEMMA MadeLater ==
  ASSUME NEW before, NEW after, before \subseteq after,
         NEW holding \in Nat, NEW more \in Nat, more >= holding,
         NEW open \in BOOLEAN, NEW later \in BOOLEAN, open => later,
         NEW d \in Drafts, NEW h \in Seq(SetupOps), NEW place
  PROVE  /\ Made(before, holding, open, d) => Made(after, more, later, d)
         /\ Serves(before, holding, open, place, h, d) => Serves(after, more, later, place, h, d)
<1>1. d.setup \in Seq(Ops) /\ h \in Seq(Ops) /\ d.terms.need \in Nat /\ AllowInit \in BOOLEAN
  <2>1. d.setup \in Seq(SetupOps) /\ d.terms \in TermSet
    BY DEF Drafts
  <2>2. \A s \in Seq(SetupOps) : s \in Seq(Ops)
    BY OpsMade
  <2> QED
    BY <2>1, <2>2, FundingAssumption DEF TermSet
<1>2. Made(before, holding, open, d) => Made(after, more, later, d)
  <2> DEFINE s == d.setup
             n == d.terms.need
  <2>1. s \in Seq(Ops) /\ n \in Nat
    BY <1>1
  <2> HIDE DEF s, n
  <2>2. /\ Quoted(before, s) => Quoted(after, s)
        /\ Both(before, s) => Both(after, s)
        /\ Funded(holding, s, n) => Funded(more, s, n)
    BY <2>1, ProvidedLater, Zenon
  <2> QED
    BY <2>2 DEF Made, s, n
<1>3. Provided(before, holding, open, h, d.terms.need, AllowInit)
      => Provided(after, more, later, h, d.terms.need, AllowInit)
  BY <1>1, ProvidedLater
<1> QED
  BY <1>2, <1>3 DEF Serves

(* The chain only grows, so plan and flights keep what they rely on. *)
ChainGrows == exists \subseteq exists' /\ balance' >= balance /\ (extended => extended')

(* A plan under construction is sound on a chain that grew. *)
LEMMA DraftLater ==
  ASSUME ChainOK, ChainOK', ChainGrows, DraftOK, UNCHANGED <<at, draft, held>>
  PROVE  DraftOK'
<1>1. CASE at = "idle"
  BY <1>1 DEF DraftOK
<1>2. CASE at # "idle"
  <2>1. /\ exists \subseteq exists' /\ balance \in Nat /\ balance' \in Nat /\ balance' >= balance
        /\ extended \in BOOLEAN /\ extended' \in BOOLEAN /\ (extended => extended')
    BY DEF ChainOK, ChainTyped, ChainGrows
  <2>2. /\ draft \in Drafts /\ held \in Seq(SetupOps)
        /\ Made(exists, balance, extended, draft) /\ Serves(exists, balance, extended, at, held, draft)
    BY <1>2 DEF DraftOK
  <2>3. /\ Made(exists', balance', extended', draft)
        /\ Serves(exists', balance', extended', at, held, draft)
    BY <2>1, <2>2, MadeLater
  <2> QED
    BY <1>2, <2>3 DEF DraftOK
<1> QED
  BY <1>1, <1>2

(* So is a transaction in the air. *)
LEMMA FliesLater ==
  ASSUME ChainOK, ChainOK', ChainGrows, NEW tx \in Flights, Flies(exists, balance, extended, tx)
  PROVE  Flies(exists', balance', extended', tx)
<1>1. /\ exists \subseteq exists' /\ balance \in Nat /\ balance' \in Nat /\ balance' >= balance
      /\ extended \in BOOLEAN /\ extended' \in BOOLEAN /\ (extended => extended')
  BY DEF ChainOK, ChainTyped, ChainGrows
<1>2. tx.ops \in Seq(Ops) /\ tx.need \in Nat
  BY DEF Flights
<1>3. Provided(exists', balance', extended', tx.ops, tx.need, tx.extension)
  BY <1>1, <1>2, ProvidedLater DEF Flies
<1> QED
  BY <1>3 DEF Flies

(* One tx fewer. *)
LEMMA Removed ==
  ASSUME NEW S, NEW s \in Seq(S), NEW k \in 1..Len(s)
  PROVE  /\ RemoveAt(s, k) \in Seq(S) /\ Len(RemoveAt(s, k)) = Len(s) - 1
         /\ \A i \in 1..Len(RemoveAt(s, k)) : \E j \in 1..Len(s) : RemoveAt(s, k)[i] = s[j]
<1> DEFINE a == SubSeq(s, 1, k - 1)
           b == SubSeq(s, k + 1, Len(s))
<1>1. Len(s) \in Nat /\ k - 1 \in Int /\ k + 1 \in Int /\ \A i \in 1..Len(s) : s[i] \in S
  OBVIOUS
<1>2. a \in Seq(S) /\ Len(a) = k - 1 /\ \A i \in 1..k - 1 : a[i] = s[i]
  <2>1. \A i \in 1..k - 1 : s[i] \in S
    BY <1>1
  <2>2. /\ a \in Seq(S) /\ Len(a) = IF 1 <= k - 1 THEN (k - 1) - 1 + 1 ELSE 0
        /\ \A i \in 1..(k - 1) - 1 + 1 : a[i] = s[1 + i - 1]
    BY <1>1, <2>1, SubSeqProperties
  <2> HIDE DEF a
  <2> QED
    BY <1>1, <2>2
<1>3. b \in Seq(S) /\ Len(b) = Len(s) - k /\ \A i \in 1..Len(s) - k : b[i] = s[k + i]
  <2>1. \A i \in k + 1..Len(s) : s[i] \in S
    BY <1>1
  <2>2. /\ b \in Seq(S) /\ Len(b) = IF k + 1 <= Len(s) THEN Len(s) - (k + 1) + 1 ELSE 0
        /\ \A i \in 1..Len(s) - (k + 1) + 1 : b[i] = s[(k + 1) + i - 1]
    BY <1>1, <2>1, SubSeqProperties
  <2> HIDE DEF b
  <2>3. \A i \in 1..Len(s) - k : i \in 1..Len(s) - (k + 1) + 1 /\ (k + 1) + i - 1 = k + i
    BY <1>1
  <2> QED
    BY <1>1, <2>2, <2>3
<1> HIDE DEF a, b
<1>4. /\ a \o b \in Seq(S) /\ Len(a \o b) = Len(a) + Len(b)
      /\ \A i \in 1..Len(a) + Len(b) : (a \o b)[i] = IF i <= Len(a) THEN a[i] ELSE b[i - Len(a)]
  BY <1>2, <1>3, ConcatProperties, Zenon
<1> DEFINE u == a \o b
<1>5. RemoveAt(s, k) = u
  BY DEF RemoveAt, a, b
<1> HIDE DEF u
<1>6. ASSUME NEW i \in 1..Len(u) PROVE \E j \in 1..Len(s) : u[i] = s[j]
  <2>1. CASE i <= Len(a)
    <3>1. u[i] = s[i] /\ i \in 1..Len(s)
      BY <1>1, <1>2, <1>3, <1>4, <1>6, <2>1 DEF u
    <3> QED
      BY <3>1
  <2>2. CASE ~(i <= Len(a))
    <3>1. i - Len(a) \in 1..Len(s) - k /\ i \in 1..Len(a) + Len(b)
      BY <1>1, <1>2, <1>3, <1>4, <1>6, <2>2 DEF u
    <3>2. u[i] = b[i - Len(a)]
      BY <1>4, <2>2, <3>1 DEF u
    <3> DEFINE n == i - Len(a)
    <3>5. n \in 1..Len(s) - k /\ u[i] = b[n]
      BY <3>1, <3>2
    <3> HIDE DEF n
    <3>4. b[n] = s[k + n]
      BY <1>3, <3>5
    <3>6. k + n \in 1..Len(s)
      BY <1>1, <3>5
    <3>3. u[i] = s[k + n] /\ k + n \in 1..Len(s)
      BY <3>4, <3>5, <3>6
    <3> QED
      BY <3>3
  <2> QED
    BY <2>1, <2>2
<1>7. u \in Seq(S) /\ Len(u) = Len(s) - 1
  BY <1>1, <1>2, <1>3, <1>4 DEF u
<1> QED
  BY <1>5, <1>6, <1>7

(* So are all of them. *)
LEMMA FlightsLater ==
  ASSUME ChainOK, ChainOK', ChainGrows, FlightsOK,
         \/ UNCHANGED flights
         \/ \E k \in 1..Len(flights) : flights' = RemoveAt(flights, k)
  PROVE  FlightsOK'
<1>1. flights \in Seq(Flights) /\ Len(flights) <= MaxFlights /\ Len(flights) \in Nat /\ MaxFlights \in Nat
      /\ \A k \in 1..Len(flights) : flights[k] \in Flights /\ Flies(exists, balance, extended, flights[k])
  BY FundingAssumption DEF FlightsOK
<1>2. \A k \in 1..Len(flights) : Flies(exists', balance', extended', flights[k])
  BY <1>1, FliesLater
<1>3. CASE UNCHANGED flights
  BY <1>1, <1>2, <1>3 DEF FlightsOK
<1>4. CASE \E k \in 1..Len(flights) : flights' = RemoveAt(flights, k)
  <2>1. PICK k \in 1..Len(flights) : flights' = RemoveAt(flights, k)
    BY <1>4
  <2>2. /\ flights' \in Seq(Flights) /\ Len(flights') = Len(flights) - 1
        /\ \A i \in 1..Len(flights') : \E j \in 1..Len(flights) : flights'[i] = flights[j]
    BY <1>1, <2>1, Removed
  <2>3. Len(flights') <= MaxFlights
    BY <1>1, <2>2
  <2> QED
    BY <1>2, <2>2, <2>3 DEF FlightsOK
<1> QED
  BY <1>3, <1>4

(* The amount read is what the account holds, or less. *)
LEMMA AmountFacts ==
  ASSUME ChainOK, CachesOK
  PROVE  /\ Amount \in Nat \cup {NoAccount} /\ (Amount >= 0 => "quote" \in exists /\ Amount <= balance)
         /\ Value(Amount) \in Nat /\ Value(Amount) <= balance
  BY DEF ChainOK, ChainTyped, CachesOK, Amount, OnChain, Value, Unread, NoAccount

(* A step of the builder keeps the plan in order when what it makes of the *)
(* setup is right; the chain and the flights are not touched.              *)
LEMMA BuilderStep ==
  ASSUME FundingInv, NEW new \in Drafts, NEW name, Step(name, new),
         new.todo = draft.todo, new.family = draft.family, new.input = draft.input,
         new.round = draft.round, new.terms.need = draft.terms.need,
         new.terms = draft.terms \/ Calibrated(draft.family),
         Quoted(exists, new.setup),
         Both(exists, draft.setup) \/ name \in {"create", "accounts"} => Both(exists, new.setup),
         Funded(balance, draft.setup, draft.terms.need) \/ name \in {"wrap", "require"}
             => Funded(balance, new.setup, draft.terms.need),
         new.extension => extended \/ Inits(new.setup),
         Inits(new.setup) => AllowInit,
         Calibrated(draft.family) /\ AllowInit /\ (name = "bitmap" \/ draft.extension) => new.extension
  PROVE  ChainOK' /\ DraftOK' /\ FlightsOK'
<1>1. /\ at = "building" /\ Head(draft.todo) = name /\ draft' = Done(new)
      /\ at' = IF Len(draft.todo) = 1 THEN "built" ELSE "building"
      /\ held' = IF Len(draft.todo) = 1 /\ draft.round # 1 THEN new.setup ELSE held
      /\ exists' = exists /\ balance' = balance /\ extended' = extended /\ flights' = flights
  BY DEF Step, Done, chain
<1>2. ChainOK' /\ ChainGrows /\ FlightsOK'
  BY <1>1 DEF FundingInv, ChainOK, ChainTyped, ChainGrows, FlightsOK
<1>3. /\ draft \in Drafts /\ draft.todo # <<>> /\ held \in Seq(SetupOps)
      /\ Made(exists, balance, extended, draft) /\ Ordered(draft) /\ TermsKept(draft)
      /\ Serves(exists, balance, extended, at, held, draft)
  BY <1>1 DEF FundingInv, DraftOK
<1>4. /\ Made(exists, balance, extended, Done(new)) /\ Ordered(Done(new)) /\ TermsKept(Done(new))
  BY <1>1, <1>3, StepMakes
<1>5. /\ Done(new) \in Drafts /\ (Len(draft.todo) = 1) = (Done(new).todo = <<>>)
      /\ Done(new).round = draft.round /\ Done(new).family = draft.family
      /\ Done(new).setup = new.setup /\ Done(new).terms.need = draft.terms.need
  BY <1>1, <1>3, DoneFacts
<1>6. new.setup \in Seq(SetupOps)
  BY DEF Drafts
<1>7. Serves(exists, balance, extended, at', held', Done(new))
  BY <1>1, <1>3, <1>5 DEF Serves
<1> QED
  BY <1>1, <1>2, <1>3, <1>4, <1>5, <1>6, <1>7 DEF DraftOK

(* Every step a builder takes. *)
LEMMA Building ==
  ASSUME FundingInv, NEW name, NEW new, Step(name, new)
  PROVE  /\ at = "building" /\ draft \in Drafts /\ draft.todo # <<>> /\ Head(draft.todo) = name
         /\ Made(exists, balance, extended, draft) /\ Ordered(draft) /\ TermsKept(draft)
         /\ draft.setup \in Seq(SetupOps) /\ draft.setup \in Seq(Ops) /\ draft.terms.need \in Nat
         /\ draft.terms \in TermSet /\ draft.start \in Nat
         /\ (name \in {"wrap", "require"} => Both(exists, draft.setup))
         /\ (name \in {"calibrate_sell", "calibrate_pump"} => Calibrated(draft.family))
<1>1. at = "building" /\ Head(draft.todo) = name
  BY DEF Step
<1>2. /\ draft \in Drafts /\ draft.todo # <<>>
      /\ Made(exists, balance, extended, draft) /\ Ordered(draft) /\ TermsKept(draft)
  BY <1>1 DEF FundingInv, DraftOK
<1>3. draft.setup \in Seq(SetupOps) /\ draft.terms \in TermSet /\ draft.start \in Nat
  BY <1>2 DEF Drafts
<1>4. draft.setup \in Seq(Ops) /\ draft.terms.need \in Nat
  BY <1>3, OpsMade DEF TermSet
<1>5. /\ Ordered(draft) /\ name \in {"wrap", "require"} => ~ToDo(Done(draft), {"create", "accounts"})
      /\ Ordered(draft) /\ name \in {"calibrate_sell", "calibrate_pump"} => Calibrated(draft.family)
      /\ \A names : ToDo(draft, names) => name \in names \/ ToDo(Done(draft), names)
  BY <1>1, <1>2, DoneFacts
<1>6. ASSUME name \in {"wrap", "require"} PROVE Both(exists, draft.setup)
  <2>1. ~ToDo(draft, {"create", "accounts"})
    BY <1>2, <1>5, <1>6
  <2> QED
    BY <1>2, <2>1 DEF Made
<1> QED
  BY <1>1, <1>2, <1>3, <1>4, <1>5, <1>6

(* The setup is appended to, by the steps that make one. *)
LEMMA Longer ==
  ASSUME NEW d \in Drafts, NEW made \in Seq(SetupOps)
  PROVE  LET new == [d EXCEPT !.setup = @ \o made]
         IN /\ new \in Drafts /\ new.setup = d.setup \o made
            /\ new.todo = d.todo /\ new.family = d.family /\ new.input = d.input
            /\ new.round = d.round /\ new.terms = d.terms /\ new.extension = d.extension
<1> DEFINE s == d.setup \o made
<1>1. s \in Seq(SetupOps)
  <2>1. d.setup \in Seq(SetupOps)
    BY DEF Drafts
  <2> QED
    BY <2>1, ConcatProperties, Zenon
<1> HIDE DEF s
<1> DEFINE new == [d EXCEPT !.setup = s]
<1>2. /\ new \in Drafts /\ new.setup = s
      /\ new.todo = d.todo /\ new.family = d.family /\ new.input = d.input
      /\ new.round = d.round /\ new.terms = d.terms /\ new.extension = d.extension
  BY <1>1 DEF Drafts
<1>3. [d EXCEPT !.setup = @ \o made] = new
  BY DEF s
<1> HIDE DEF new
<1> QED
  BY <1>2, <1>3 DEF s

(* Reading the balance at the start of a pair. *)
LEMMA ReadBalanceKeeps ==
  ASSUME FundingInv, ReadBalance
  PROVE  FundingInv'
<1> DEFINE new == [draft EXCEPT !.start = Value(Amount)]
<1>1. Step("balance", new) /\ amount' = Amount /\ UNCHANGED <<listed, bitmap>>
  BY DEF ReadBalance
<1>2. /\ at = "building" /\ draft \in Drafts /\ Made(exists, balance, extended, draft)
      /\ draft.todo # <<>> /\ Head(draft.todo) = "balance"
  BY <1>1, Building
<1>3. Value(Amount) \in Nat
  BY AmountFacts DEF FundingInv
<1>4. /\ new \in Drafts /\ new.setup = draft.setup
      /\ new.todo = draft.todo /\ new.family = draft.family /\ new.input = draft.input
      /\ new.round = draft.round /\ new.terms = draft.terms /\ new.extension = draft.extension
  BY <1>2, <1>3 DEF Drafts
<1> HIDE DEF new
<1>5. ~ToDo(draft, {}) /\ (Calibrated(draft.family) /\ AllowInit /\ draft.extension => new.extension)
  BY <1>4 DEF ToDo
<1>6. ChainOK' /\ DraftOK' /\ FlightsOK'
  BY <1>1, <1>2, <1>4, <1>5, BuilderStep DEF Made
<1>7. CachesOK'
  <2>1. exists' = exists /\ balance' = balance /\ extended' = extended
    BY <1>1 DEF Step, chain
  <2> QED
    BY <1>1, <2>1, AmountFacts DEF FundingInv, CachesOK
<1> QED
  BY <1>6, <1>7 DEF FundingInv

(* Accounts are created: both, or those not known to exist. *)
LEMMA CreatesKeep ==
  ASSUME FundingInv, NEW name \in {"create", "accounts"}, NEW known, known \subseteq exists,
         Step(name, [draft EXCEPT !.setup = @ \o CreateFor(known)])
  PROVE  ChainOK' /\ DraftOK' /\ FlightsOK'
<1> DEFINE new == [draft EXCEPT !.setup = @ \o CreateFor(known)]
<1>1. /\ draft \in Drafts /\ Made(exists, balance, extended, draft)
      /\ draft.setup \in Seq(Ops) /\ draft.terms.need \in Nat
  BY Building
<1>2. /\ CreateFor(known) \in Seq(SetupOps) /\ CreateFor(known) \in Seq(Ops)
      /\ Both(exists, CreateFor(known)) /\ ~Inits(CreateFor(known))
      /\ \A i \in 1..Len(CreateFor(known)) : CreateFor(known)[i].op \notin {"transfer", "sync"}
  <2>1. /\ CreateFor(known) \in Seq(SetupOps)
        /\ Both(exists, CreateFor(known)) /\ ~Inits(CreateFor(known))
        /\ \A i \in 1..Len(CreateFor(known)) : CreateFor(known)[i].op \notin {"transfer", "sync"}
    BY CreateForFacts
  <2>2. \A s \in Seq(SetupOps) : s \in Seq(Ops)
    BY OpsMade
  <2> QED
    BY <2>1, <2>2
<1>3. /\ new \in Drafts /\ new.setup = draft.setup \o CreateFor(known)
      /\ new.todo = draft.todo /\ new.family = draft.family /\ new.input = draft.input
      /\ new.round = draft.round /\ new.terms = draft.terms /\ new.extension = draft.extension
  BY <1>1, <1>2, Longer
<1>4. Step(name, new)
  OBVIOUS
<1> HIDE DEF new
<1>5. Quoted(exists, new.setup)
  BY <1>1, <1>2, <1>3, QuotedTogether DEF Made
<1>6. Both(exists, new.setup)
  BY <1>1, <1>2, <1>3, BothTogether
<1>7. balance \in Nat
  BY DEF FundingInv, ChainOK, ChainTyped
<1>8. Funded(balance, draft.setup, draft.terms.need) => Funded(balance, new.setup, draft.terms.need)
  BY <1>1, <1>2, <1>3, <1>7, FundedTogether
<1>9. Inits(new.setup) <=> Inits(draft.setup)
  BY <1>1, <1>2, <1>3, InitsTogether
<1> QED
  BY <1>1, <1>3, <1>4, <1>5, <1>6, <1>8, <1>9, BuilderStep DEF Made

(* Creating the accounts, both or those not known to exist. *)
LEMMA AccountStepsKeep ==
  ASSUME FundingInv, CreateBoth \/ ReadAccounts
  PROVE  FundingInv'
<1>0. listed \subseteq exists
  BY DEF FundingInv, CachesOK
<1>1. \/ CreateBoth
      \/ /\ Step("accounts", [draft EXCEPT !.setup = @ \o CreateFor(listed \cup exists)])
         /\ listed' = listed \cup exists /\ UNCHANGED <<amount, bitmap>>
      \/ /\ Step("accounts", [draft EXCEPT !.setup = @ \o CreateFor({})]) /\ UNCHANGED caches
  BY DEF ReadAccounts
<1>2. CASE CreateBoth
  <2>1. Step("create", [draft EXCEPT !.setup = @ \o CreateFor({})]) /\ UNCHANGED caches
    BY <1>2 DEF CreateBoth
  <2>2. ChainOK' /\ DraftOK' /\ FlightsOK'
    <3> DEFINE none == {}
    <3>1. "create" \in {"create", "accounts"} /\ none \subseteq exists
          /\ Step("create", [draft EXCEPT !.setup = @ \o CreateFor(none)])
      BY <2>1
    <3> HIDE DEF none
    <3> QED
      BY <3>1, CreatesKeep
  <2>3. CachesOK'
    BY <2>1 DEF Step, chain, caches, FundingInv, CachesOK
  <2> QED
    BY <2>2, <2>3 DEF FundingInv
<1>3. CASE /\ Step("accounts", [draft EXCEPT !.setup = @ \o CreateFor(listed \cup exists)])
           /\ listed' = listed \cup exists /\ UNCHANGED <<amount, bitmap>>
  <2>1. ChainOK' /\ DraftOK' /\ FlightsOK'
    BY <1>0, <1>3, CreatesKeep
  <2>2. CachesOK'
    BY <1>0, <1>3 DEF Step, chain, FundingInv, CachesOK
  <2> QED
    BY <2>1, <2>2 DEF FundingInv
<1>4. CASE Step("accounts", [draft EXCEPT !.setup = @ \o CreateFor({})]) /\ UNCHANGED caches
  <2>1. ChainOK' /\ DraftOK' /\ FlightsOK'
    <3> DEFINE none == {}
    <3>1. "accounts" \in {"create", "accounts"} /\ none \subseteq exists
          /\ Step("accounts", [draft EXCEPT !.setup = @ \o CreateFor(none)])
      BY <1>4
    <3> HIDE DEF none
    <3> QED
      BY <3>1, CreatesKeep
  <2>2. CachesOK'
    BY <1>4 DEF Step, chain, caches, FundingInv, CachesOK
  <2> QED
    BY <2>1, <2>2 DEF FundingInv
<1> QED
  BY <1>1, <1>2, <1>3, <1>4

(* The shortfall of a cached amount is wrapped, and the cache never says   *)
(* more than the account holds.                                            *)
LEMMA WrapKeeps ==
  ASSUME FundingInv, Wrap
  PROVE  FundingInv'
<1> DEFINE need == draft.terms.need
           new == [draft EXCEPT !.setup = @ \o Funding(need)]
<1>1. Step("wrap", new) /\ amount' = Amount /\ UNCHANGED <<listed, bitmap>>
  BY DEF Wrap
<1>2. /\ draft \in Drafts /\ Made(exists, balance, extended, draft)
      /\ draft.setup \in Seq(Ops) /\ need \in Nat /\ Both(exists, draft.setup)
  BY <1>1, Building
<1>3. balance \in Nat /\ Value(Amount) \in Nat /\ Value(Amount) <= balance
  BY AmountFacts DEF FundingInv, ChainOK, ChainTyped
<1>4. /\ Funding(need) \in Seq(SetupOps) /\ Funding(need) \in Seq(Ops)
      /\ Funded(balance, Funding(need), need) /\ ~Inits(Funding(need))
  <2> HIDE DEF need
  <2>1. /\ Funding(need) \in Seq(SetupOps)
        /\ Funded(balance, Funding(need), need) /\ ~Inits(Funding(need))
    BY <1>2, <1>3, FundingFacts
  <2>2. \A s \in Seq(SetupOps) : s \in Seq(Ops)
    BY OpsMade
  <2> QED
    BY <2>1, <2>2
<1>5. /\ new \in Drafts /\ new.setup = draft.setup \o Funding(need)
      /\ new.todo = draft.todo /\ new.family = draft.family /\ new.input = draft.input
      /\ new.round = draft.round /\ new.terms = draft.terms /\ new.extension = draft.extension
  BY <1>2, <1>4, Longer
<1> HIDE DEF new
<1>6. Quoted(exists, new.setup)
  <2>1. "quote" \in exists \/ \E j \in 1..Len(draft.setup) : draft.setup[j] = Create("quote")
    BY <1>2 DEF Both, Accounts
  <2> QED
    BY <1>2, <1>4, <1>5, <2>1, QuotedTogether DEF Made
<1>7. Both(exists, new.setup)
  BY <1>2, <1>4, <1>5, BothTogether
<1>8. Funded(balance, new.setup, need)
  BY <1>2, <1>3, <1>4, <1>5, FundedTogether
<1>9. Inits(new.setup) <=> Inits(draft.setup)
  BY <1>2, <1>4, <1>5, InitsTogether
<1>10. ChainOK' /\ DraftOK' /\ FlightsOK'
  BY <1>1, <1>2, <1>5, <1>6, <1>7, <1>8, <1>9, BuilderStep DEF Made
<1>11. CachesOK'
  <2>1. exists' = exists /\ balance' = balance /\ extended' = extended
    BY <1>1 DEF Step, chain
  <2> QED
    BY <1>1, <2>1, AmountFacts DEF FundingInv, CachesOK
<1> QED
  BY <1>10, <1>11 DEF FundingInv

(* The input is there already: nothing is wrapped. *)
LEMMA RequireKeeps ==
  ASSUME FundingInv, Require
  PROVE  FundingInv'
<1>1. /\ Step("require", draft) /\ amount' = Amount /\ UNCHANGED <<listed, bitmap>>
      /\ Value(Amount) >= draft.terms.need
  BY DEF Require
<1>2. /\ draft \in Drafts /\ Made(exists, balance, extended, draft) /\ draft.terms.need \in Nat
      /\ Both(exists, draft.setup)
  BY <1>1, Building
<1>3. balance \in Nat /\ Value(Amount) \in Nat /\ Value(Amount) <= balance
  BY AmountFacts DEF FundingInv, ChainOK, ChainTyped
<1>4. balance >= draft.terms.need
  <2> DEFINE need == draft.terms.need
  <2>1. need \in Nat /\ Value(Amount) >= need
    BY <1>1, <1>2
  <2> HIDE DEF need
  <2>2. balance >= need
    BY <1>3, <2>1
  <2> QED
    BY <2>2 DEF need
<1>5. Funded(balance, draft.setup, draft.terms.need)
  BY <1>4 DEF Funded
<1>6. ChainOK' /\ DraftOK' /\ FlightsOK'
  BY <1>1, <1>2, <1>5, BuilderStep DEF Made
<1>7. CachesOK'
  <2>1. exists' = exists /\ balance' = balance /\ extended' = extended
    BY <1>1 DEF Step, chain
  <2> QED
    BY <1>1, <2>1, AmountFacts DEF FundingInv, CachesOK
<1> QED
  BY <1>6, <1>7 DEF FundingInv

(* Only a cached yes spares the reading, and only a reading of yes is      *)
(* cached; where it is no, the setup initializes, or the plan does without. *)
LEMMA PrepareBitmapKeeps ==
  ASSUME FundingInv, PrepareBitmap
  PROVE  FundingInv'
<1> DEFINE known == bitmap = "yes" \/ extended
           made == IF ~known /\ AllowInit THEN <<InitExtension>> ELSE <<>>
           longer == [draft EXCEPT !.setup = @ \o made]
           new == [draft EXCEPT !.extension = known \/ AllowInit, !.setup = @ \o made]
<1>0. /\ known \in BOOLEAN /\ AllowInit \in BOOLEAN /\ (known <=> extended)
      /\ (known \/ AllowInit) \in BOOLEAN
  BY FundingAssumption DEF FundingInv, CachesOK, ChainOK, ChainTyped
<1>1. /\ Step("bitmap", new) /\ bitmap' = (IF known THEN "yes" ELSE "no")
      /\ UNCHANGED <<listed, amount>>
  BY DEF PrepareBitmap
<1>2. /\ draft \in Drafts /\ Made(exists, balance, extended, draft)
      /\ draft.setup \in Seq(Ops) /\ draft.terms.need \in Nat
  BY <1>1, Building
<1>3. /\ made \in Seq(SetupOps) /\ made \in Seq(Ops)
      /\ Inits(made) <=> ~known /\ AllowInit
      /\ \A i \in 1..Len(made) : made[i].op \notin {"transfer", "sync"}
  <2>0. InitExtension \in SetupOps /\ InitExtension.op = "init"
    BY OpsMade
  <2>1. CASE ~known /\ AllowInit
    <3>1. made = <<InitExtension>>
      BY <2>1
    <3> HIDE DEF made
    <3>2. made \in Seq(SetupOps) /\ Len(made) = 1 /\ made[1] = InitExtension
      BY <2>0, <3>1
    <3>3. 1 \in 1..Len(made) /\ \A i \in 1..Len(made) : i = 1
      BY <3>2
    <3> QED
      BY <2>0, <2>1, <3>2, <3>3, OpsMade DEF Inits
  <2>2. CASE ~(~known /\ AllowInit)
    <3>1. made = <<>>
      BY <2>2
    <3> HIDE DEF made
    <3>2. made \in Seq(SetupOps) /\ made \in Seq(Ops) /\ 1..Len(made) = {}
      BY <3>1
    <3> QED
      BY <2>2, <3>2 DEF Inits
  <2> QED
    BY <2>1, <2>2
<1>4. /\ longer \in Drafts /\ longer.setup = draft.setup \o made
      /\ longer.todo = draft.todo /\ longer.family = draft.family /\ longer.input = draft.input
      /\ longer.round = draft.round /\ longer.terms = draft.terms
  <2> HIDE DEF made
  <2> QED
    BY <1>2, <1>3, Longer
<1>5. /\ new \in Drafts /\ new.setup = draft.setup \o made /\ new.extension = (known \/ AllowInit)
      /\ new.todo = draft.todo /\ new.family = draft.family /\ new.input = draft.input
      /\ new.round = draft.round /\ new.terms = draft.terms
  <2>1. new = [longer EXCEPT !.extension = known \/ AllowInit]
    <3> HIDE DEF made, known
    <3> QED
      BY <1>2 DEF Drafts
  <2> HIDE DEF new, longer, made, known
  <2> QED
    BY <1>0, <1>4, <2>1 DEF Drafts
<1> HIDE DEF new, made, known, longer
<1>6. Quoted(exists, new.setup)
  BY <1>2, <1>3, <1>5, QuotedTogether DEF Made
<1>7. Both(exists, draft.setup) => Both(exists, new.setup)
  BY <1>2, <1>3, <1>5, BothTogether
<1>8. balance \in Nat
  BY DEF FundingInv, ChainOK, ChainTyped
<1>9. Funded(balance, draft.setup, draft.terms.need) => Funded(balance, new.setup, draft.terms.need)
  BY <1>2, <1>3, <1>5, <1>8, FundedTogether
<1>10. Inits(new.setup) <=> Inits(draft.setup) \/ (~known /\ AllowInit)
  BY <1>2, <1>3, <1>5, InitsTogether
<1>11. /\ new.extension => extended \/ Inits(new.setup)
       /\ Inits(new.setup) => AllowInit
       /\ AllowInit => new.extension
  BY <1>0, <1>2, <1>5, <1>10 DEF Made
<1>12. ChainOK' /\ DraftOK' /\ FlightsOK'
  BY <1>1, <1>2, <1>5, <1>6, <1>7, <1>9, <1>11, BuilderStep
<1>13. CachesOK'
  <2>1. exists' = exists /\ balance' = balance /\ extended' = extended
    BY <1>1 DEF Step, chain
  <2>2. (bitmap' = "yes" => extended') /\ bitmap' \in {"unread", "no", "yes"}
    BY <1>0, <1>1, <2>1
  <2> QED
    BY <1>1, <2>1, <2>2 DEF FundingInv, CachesOK
<1> QED
  BY <1>12, <1>13 DEF FundingInv

(* What a calibration changes of a plan. *)
LEMMA Calibrates ==
  ASSUME FundingInv, NEW name \in {"calibrate_sell", "calibrate_pump"},
         NEW least \in Int, NEW out \in Int, NEW seen \in Int,
         Step(name, [draft EXCEPT !.terms.least = least, !.out = out, !.seen = seen]),
         UNCHANGED caches
  PROVE  FundingInv'
<1> DEFINE new == [draft EXCEPT !.terms.least = least, !.out = out, !.seen = seen]
<1>1. Step(name, new)
  OBVIOUS
<1>2. /\ draft \in Drafts /\ Made(exists, balance, extended, draft) /\ Calibrated(draft.family)
      /\ draft.terms \in TermSet
  BY <1>1, Building
<1>3. [draft.terms EXCEPT !.least = least] \in TermSet
      /\ [draft.terms EXCEPT !.least = least].need = draft.terms.need
  BY <1>2 DEF TermSet
<1>4. new = [draft EXCEPT !.terms = [draft.terms EXCEPT !.least = least], !.out = out, !.seen = seen]
  BY <1>2 DEF Drafts
<1>5. /\ new \in Drafts /\ new.setup = draft.setup /\ new.terms.need = draft.terms.need
      /\ new.todo = draft.todo /\ new.family = draft.family /\ new.input = draft.input
      /\ new.round = draft.round /\ new.extension = draft.extension
  <2> DEFINE terms == [draft.terms EXCEPT !.least = least]
  <2>1. terms \in TermSet /\ terms.need = draft.terms.need
    BY <1>3
  <2>2. new = [draft EXCEPT !.terms = terms, !.out = out, !.seen = seen]
    BY <1>4
  <2> HIDE DEF terms, new
  <2> QED
    BY <1>2, <2>1, <2>2 DEF Drafts
<1> HIDE DEF new
<1>6. ChainOK' /\ DraftOK' /\ FlightsOK'
  BY <1>1, <1>2, <1>5, BuilderStep DEF Made
<1>7. CachesOK'
  BY <1>1 DEF Step, chain, caches, FundingInv, CachesOK
<1> QED
  BY <1>6, <1>7 DEF FundingInv

(* The least outputs are integers. *)
LEMMA MinimaInt ==
  ASSUME NEW n \in Int
  PROVE  LegMin(n) \in Int /\ AboveInput(n) \in Int
<1>1. ProfitPct \in Nat /\ SlippagePct \in Int
  BY FundingAssumption
<1>2. \A a, b \in Int : Most(a, b) \in Int
  BY DEF Most
<1>3. LegMin(n) \in Int
  <2> DEFINE x == Most(n, 1) * (100 - SlippagePct)
  <2>1. Most(n, 1) \in Int /\ 100 - SlippagePct \in Int
    BY <1>1, <1>2
  <2>2. x \in Int
    BY <2>1
  <2> HIDE DEF x
  <2>3. x \div 100 \in Int
    BY <2>2
  <2>4. Most(x \div 100, 1) \in Int
    BY <1>2, <2>3
  <2> QED
    BY <2>4 DEF LegMin, x
<1>4. AboveInput(n) \in Int
  <2> DEFINE x == n * (100 + ProfitPct)
  <2>1. x \in Int
    BY <1>1
  <2> HIDE DEF x
  <2>2. CeilDiv(x, 100) \in Int
    BY <2>1 DEF CeilDiv
  <2>3. Most(CeilDiv(x, 100), n + 1) \in Int
    BY <1>2, <2>2
  <2> QED
    BY <2>3 DEF AboveInput, x
<1> QED
  BY <1>3, <1>4

(* So are the amounts read out of a simulation. *)
LEMMA SimulatedAmounts ==
  ASSUME FundingInv, draft \in Drafts, NEW gain \in Int
  PROVE  /\ SeenOutput(After(draft.setup).balance + gain) \in Int
         /\ draft.terms.need + gain \in Int /\ draft.terms.need \in Nat
<1>1. draft.setup \in Seq(SetupOps) /\ draft.start \in Nat /\ draft.terms \in TermSet
  BY DEF Drafts
<1>2. draft.setup \in Seq(Ops) /\ draft.terms.need \in Nat
  BY <1>1, OpsMade DEF TermSet
<1>3. ChainTyped
  BY DEF FundingInv, ChainOK
<1>4. After(draft.setup) \in States
  BY <1>2, <1>3, AfterTyped
<1> DEFINE got == After(draft.setup).balance
           need == draft.terms.need
           start == draft.start
<1>5. got \in Nat /\ need \in Nat /\ start \in Nat
  BY <1>1, <1>2, <1>4 DEF States
<1>6. SeenOutput(got + gain) = (got + gain) - start + need
  BY DEF SeenOutput
<1> HIDE DEF got, need, start
<1>7. (got + gain) - start + need \in Int /\ need + gain \in Int
  BY <1>5
<1> QED
  BY <1>5, <1>6, <1>7 DEF got, need

(* The calibrations change what the trade must bring back, not what it     *)
(* needs.                                                                  *)
LEMMA CalibrateSellKeeps ==
  ASSUME FundingInv, NEW gain \in Gains, NEW promised \in Int, CalibrateSell(gain, promised)
  PROVE  FundingInv'
<1> DEFINE least == Most(promised, AboveInput(draft.terms.need))
           seen == SeenOutput(After(draft.setup).balance + gain)
           out == draft.terms.need + gain
<1>1. /\ Step("calibrate_sell", [[draft EXCEPT !.terms.least = least] EXCEPT !.out = out, !.seen = seen])
      /\ UNCHANGED caches
  BY DEF CalibrateSell, Simulated
<1>2. draft \in Drafts
  BY <1>1, Building
<1>3. gain \in Int
  BY FundingAssumption
<1>4. seen \in Int /\ out \in Int /\ draft.terms.need \in Nat
  BY <1>2, <1>3, SimulatedAmounts
<1>5. least \in Int
  <2>1. AboveInput(draft.terms.need) \in Int
    BY <1>4, MinimaInt
  <2> QED
    BY <2>1 DEF Most
<1> HIDE DEF least, seen, out
<1>6. Step("calibrate_sell", [draft EXCEPT !.terms.least = least, !.out = out, !.seen = seen])
  BY <1>1
<1> QED
  BY <1>1, <1>4, <1>5, <1>6, Calibrates

(* The same the other way round. *)
LEMMA CalibratePumpKeeps ==
  ASSUME FundingInv, NEW gain \in Gains, CalibratePump(gain)
  PROVE  FundingInv'
<1> DEFINE seen == SeenOutput(After(draft.setup).balance + gain)
           least == Most(LegMin(seen), AboveInput(draft.terms.need))
           out == draft.terms.need + gain
<1>1. /\ Step("calibrate_pump", [[draft EXCEPT !.terms.least = least] EXCEPT !.out = out, !.seen = seen])
      /\ UNCHANGED caches
  BY DEF CalibratePump, Simulated
<1>2. draft \in Drafts
  BY <1>1, Building
<1>3. gain \in Int
  BY FundingAssumption
<1>4. seen \in Int /\ out \in Int /\ draft.terms.need \in Nat
  BY <1>2, <1>3, SimulatedAmounts
<1>5. least \in Int
  <2> HIDE DEF seen
  <2>1. AboveInput(draft.terms.need) \in Int /\ LegMin(seen) \in Int
    BY <1>4, MinimaInt
  <2> QED
    BY <2>1 DEF Most
<1> HIDE DEF least, seen, out
<1>6. Step("calibrate_pump", [draft EXCEPT !.terms.least = least, !.out = out, !.seen = seen])
  BY <1>1
<1> QED
  BY <1>1, <1>4, <1>5, <1>6, Calibrates

-----------------------------------------------------------------------------
(* Plans come and go, and are sent. *)

(* A step that leaves the chain alone. *)
LEMMA ChainSame ==
  ASSUME ChainOK, CachesOK, UNCHANGED <<chain, caches>>
  PROVE  ChainOK' /\ CachesOK' /\ ChainGrows
  BY DEF chain, caches, ChainOK, ChainTyped, CachesOK, ChainGrows

(* A plan is begun. *)
LEMMA StartKeeps ==
  ASSUME FundingInv, NEW family \in Families, NEW input \in Inputs, Start(family, input)
  PROVE  FundingInv'
<1>1. /\ at' = "building" /\ draft' = Begin(family, input, 0) /\ UNCHANGED <<chain, caches, held, flights>>
  BY DEF Start
<1>2. ChainOK' /\ CachesOK' /\ ChainGrows /\ FlightsOK'
  BY <1>1, ChainSame, FlightsLater DEF FundingInv
<1>3. held \in Seq(SetupOps)
  BY DEF FundingInv, DraftOK
<1>4. /\ draft' \in Drafts /\ draft'.todo # <<>> /\ draft'.round = 0
      /\ Made(exists', balance', extended', draft') /\ Ordered(draft') /\ TermsKept(draft')
  BY <1>1, Begun
<1>5. Serves(exists', balance', extended', at', held', draft')
  BY <1>1, <1>4 DEF Serves
<1>6. DraftOK'
  BY <1>1, <1>3, <1>4, <1>5 DEF DraftOK
<1> QED
  BY <1>2, <1>6 DEF FundingInv

(* A plan that is complete, with the setup it would be sent with. *)
LEMMA Complete ==
  ASSUME FundingInv, at \in {"built", "ready"}
  PROVE  /\ draft \in Drafts /\ draft.family \in Families /\ draft.input \in Inputs
         /\ draft.setup \in Seq(SetupOps) /\ held \in Seq(SetupOps)
         /\ draft.setup \in Seq(Ops) /\ held \in Seq(Ops)
         /\ draft.terms \in TermSet /\ draft.extension \in BOOLEAN
         /\ Provided(exists, balance, extended, draft.setup, draft.terms.need, draft.extension)
         /\ Inits(draft.setup) => AllowInit
         /\ Calibrated(draft.family) /\ AllowInit => draft.extension
         /\ TermsKept(draft) /\ Serves(exists, balance, extended, at, held, draft)
<1>1. /\ draft \in Drafts /\ draft.todo = <<>> /\ held \in Seq(SetupOps)
      /\ Made(exists, balance, extended, draft) /\ TermsKept(draft)
      /\ Serves(exists, balance, extended, at, held, draft)
  BY DEF FundingInv, DraftOK
<1>2. /\ draft.family \in Families /\ draft.input \in Inputs /\ draft.setup \in Seq(SetupOps)
      /\ draft.terms \in TermSet /\ draft.extension \in BOOLEAN
  BY <1>1 DEF Drafts
<1>3. \A s \in Seq(SetupOps) : s \in Seq(Ops)
  BY OpsMade
<1>4. \A names : ~ToDo(draft, names)
  BY <1>1 DEF ToDo
<1> QED
  BY <1>1, <1>2, <1>3, <1>4 DEF Made, Provided

(* Built again before a send: the setup of the plan before is kept.  That  *)
(* plan relied on the extension, or prepared it, whenever this one could.  *)
LEMMA BuildAgainKeeps ==
  ASSUME FundingInv, BuildAgain
  PROVE  FundingInv'
<1>1. /\ at = "built" /\ Calibrated(draft.family) /\ draft.round = 0
      /\ draft' = Begin(draft.family, draft.input, 1) /\ at' = "building"
      /\ UNCHANGED <<chain, caches, held, flights>>
  BY DEF BuildAgain
<1>2. ChainOK' /\ CachesOK' /\ ChainGrows /\ FlightsOK'
  BY <1>1, ChainSame, FlightsLater DEF FundingInv
<1>3. /\ draft.family \in Families /\ draft.input \in Inputs /\ held \in Seq(SetupOps)
      /\ Provided(exists, balance, extended, draft.setup, draft.terms.need, draft.extension)
      /\ AllowInit => draft.extension
      /\ TermsKept(draft) /\ held = draft.setup
  BY <1>1, Complete DEF Serves
<1>4. Provided(exists, balance, extended, held, draft.terms.need, AllowInit)
  BY <1>3 DEF Provided
<1>5. /\ draft' \in Drafts /\ draft'.todo # <<>> /\ draft'.round = 1
      /\ draft'.family = draft.family /\ draft'.terms.need = draft.terms.need
      /\ Made(exists', balance', extended', draft') /\ Ordered(draft') /\ TermsKept(draft')
  <2> DEFINE family == draft.family
             input == draft.input
  <2>1. family \in Families /\ input \in Inputs /\ 1 \in 0..2 /\ draft' = Begin(family, input, 1)
        /\ draft.terms.need = TermsOf(family, input).need
    BY <1>1, <1>3 DEF TermsKept
  <2> HIDE DEF family, input
  <2>2. /\ draft' \in Drafts /\ draft'.todo # <<>> /\ draft'.round = 1 /\ draft'.family = family
        /\ draft'.terms.need = TermsOf(family, input).need
        /\ Made(exists', balance', extended', draft') /\ Ordered(draft') /\ TermsKept(draft')
    BY <2>1, Begun
  <2> QED
    BY <2>1, <2>2 DEF family
<1>6. Serves(exists', balance', extended', at', held', draft')
  BY <1>1, <1>4, <1>5 DEF Serves, chain
<1>7. DraftOK'
  BY <1>1, <1>3, <1>5, <1>6 DEF DraftOK
<1> QED
  BY <1>2, <1>7 DEF FundingInv

(* Built again after a send: it goes with its own setup. *)
LEMMA RebuildAfterSendKeeps ==
  ASSUME FundingInv, RebuildAfterSend
  PROVE  FundingInv'
<1>1. /\ at = "ready"
      /\ draft' = Begin(draft.family, draft.input, 2) /\ at' = "building"
      /\ UNCHANGED <<chain, caches, held, flights>>
  BY DEF RebuildAfterSend
<1>2. ChainOK' /\ CachesOK' /\ ChainGrows /\ FlightsOK'
  BY <1>1, ChainSame, FlightsLater DEF FundingInv
<1>3. draft.family \in Families /\ draft.input \in Inputs /\ held \in Seq(SetupOps)
  BY <1>1, Complete
<1>4. /\ draft' \in Drafts /\ draft'.todo # <<>> /\ draft'.round = 2
      /\ Made(exists', balance', extended', draft') /\ Ordered(draft') /\ TermsKept(draft')
  <2> DEFINE family == draft.family
             input == draft.input
  <2>1. family \in Families /\ input \in Inputs /\ 2 \in 0..2 /\ draft' = Begin(family, input, 2)
    BY <1>1, <1>3
  <2> HIDE DEF family, input
  <2> QED
    BY <2>1, Begun
<1>5. Serves(exists', balance', extended', at', held', draft')
  BY <1>1, <1>4 DEF Serves
<1>6. DraftOK'
  BY <1>1, <1>3, <1>4, <1>5 DEF DraftOK
<1> QED
  BY <1>2, <1>6 DEF FundingInv

(* A plan that is dropped leaves nothing behind. *)
LEMMA GivenUp ==
  ASSUME FundingInv, BuildFails \/ Dropped
  PROVE  FundingInv'
<1>1. at' = "idle" /\ draft' = NoPlan /\ held' = <<>> /\ UNCHANGED <<chain, caches, flights>>
  BY DEF BuildFails, Dropped
<1>2. ChainOK' /\ CachesOK' /\ ChainGrows /\ FlightsOK'
  BY <1>1, ChainSame, FlightsLater DEF FundingInv
<1>3. DraftOK'
  BY <1>1 DEF DraftOK
<1> QED
  BY <1>2, <1>3 DEF FundingInv

(* A plan that is simulated, or needs no simulation, is ready as it is. *)
LEMMA MadeReady ==
  ASSUME FundingInv, SkipSimulation \/ \E gain \in Gains : Simulate(gain)
  PROVE  FundingInv'
<1>1. at = "built" /\ at' = "ready" /\ UNCHANGED <<chain, caches, draft, held, flights>>
  BY DEF SkipSimulation, Simulate
<1>2. ChainOK' /\ CachesOK' /\ ChainGrows /\ FlightsOK'
  BY <1>1, ChainSame, FlightsLater DEF FundingInv
<1>3. /\ draft \in Drafts /\ draft.todo = <<>> /\ held \in Seq(SetupOps)
      /\ Made(exists, balance, extended, draft) /\ Ordered(draft) /\ TermsKept(draft)
      /\ Serves(exists, balance, extended, at, held, draft)
  BY <1>1 DEF FundingInv, DraftOK
<1>4. Serves(exists, balance, extended, at', held, draft)
  BY <1>1, <1>3 DEF Serves
<1>5. DraftOK'
  BY <1>1, <1>3, <1>4 DEF DraftOK, chain
<1> QED
  BY <1>2, <1>5 DEF FundingInv

(* The trade is one instruction, or two without the executor. *)
LEMMA TradeFacts ==
  ASSUME NEW family \in Families
  PROVE  /\ TradeOf(family) \in Seq(Ops) /\ Len(TradeOf(family)) \in {1, 2}
         /\ \A i \in 1..Len(TradeOf(family)) : TradeOf(family)[i].op \notin {"transfer", "sync"}
         /\ family # "PumpToClmm" => TradeOf(family) = <<TwoHop>>
<1>1. TwoHop \in Ops /\ [op |-> "buy"] \in Ops /\ [op |-> "sell"] \in Ops
      /\ TwoHop.op = "two_hop"
  BY DEF Ops, TwoHop
<1> DEFINE t == TradeOf(family)
<1>2. CASE family = "PumpToClmm"
  <2>1. t = <<[op |-> "buy"], [op |-> "sell"]>>
    BY <1>2 DEF TradeOf
  <2> HIDE DEF t
  <2>2. t \in Seq(Ops) /\ Len(t) = 2 /\ t[1] = [op |-> "buy"] /\ t[2] = [op |-> "sell"]
    BY <1>1, <2>1
  <2>3. \A i \in 1..Len(t) : i = 1 \/ i = 2
    BY <2>2
  <2>4. \A i \in 1..Len(t) : t[i].op \notin {"transfer", "sync"}
    BY <2>2, <2>3
  <2> QED
    BY <1>2, <2>2, <2>4 DEF t
<1>3. CASE family # "PumpToClmm"
  <2>1. t = <<TwoHop>>
    BY <1>3 DEF TradeOf
  <2> HIDE DEF t
  <2>2. t \in Seq(Ops) /\ Len(t) = 1 /\ t[1] = TwoHop
    BY <1>1, <2>1
  <2>3. \A i \in 1..Len(t) : i = 1
    BY <2>2
  <2>4. \A i \in 1..Len(t) : t[i].op \notin {"transfer", "sync"}
    BY <1>1, <2>2, <2>3
  <2> QED
    BY <1>3, <2>1, <2>2, <2>4 DEF t
<1> QED
  BY <1>2, <1>3

(* What is left of two lists after a part of the first. *)
Beyond(s, k) == SubSeq(s, k + 1, Len(s))

(* Two lists without a part of the first. *)
LEMMA RestOf ==
  ASSUME NEW S, NEW s \in Seq(S), NEW t \in Seq(S), NEW k \in 0..Len(s)
  PROVE  /\ Beyond(s, k) \in Seq(S)
         /\ Beyond(s \o t, k) = Beyond(s, k) \o t
         /\ k = Len(s) => Beyond(s \o t, k) = t
<1> DEFINE u == s \o t
           r == SubSeq(s, k + 1, Len(s))
           v == SubSeq(u, k + 1, Len(u))
           w == r \o t
<1>1. Len(s) \in Nat /\ Len(t) \in Nat /\ k \in Nat /\ k <= Len(s)
      /\ \A i \in 1..Len(s) : s[i] \in S
  OBVIOUS
<1>2. /\ u \in Seq(S) /\ Len(u) = Len(s) + Len(t)
      /\ \A i \in 1..Len(s) + Len(t) : u[i] = IF i <= Len(s) THEN s[i] ELSE t[i - Len(s)]
  BY ConcatProperties, Zenon
<1>3. r \in Seq(S) /\ Len(r) = Len(s) - k /\ \A i \in 1..Len(s) - k : r[i] = s[k + i]
  <2>1. \A i \in k + 1..Len(s) : s[i] \in S
    BY <1>1
  <2>2. /\ r \in Seq(S) /\ Len(r) = IF k + 1 <= Len(s) THEN Len(s) - (k + 1) + 1 ELSE 0
        /\ \A i \in 1..Len(s) - (k + 1) + 1 : r[i] = s[(k + 1) + i - 1]
    BY <1>1, <2>1, SubSeqProperties
  <2> HIDE DEF r
  <2>3. \A i \in 1..Len(s) - k : i \in 1..Len(s) - (k + 1) + 1 /\ (k + 1) + i - 1 = k + i
    BY <1>1
  <2> QED
    BY <1>1, <2>2, <2>3
<1> HIDE DEF r
<1>4. /\ w \in Seq(S) /\ Len(w) = Len(r) + Len(t)
      /\ \A i \in 1..Len(r) + Len(t) : w[i] = IF i <= Len(r) THEN r[i] ELSE t[i - Len(r)]
  BY <1>3, ConcatProperties, Zenon
<1> HIDE DEF u, w
<1>5. v \in Seq(S) /\ Len(v) = Len(u) - k /\ \A i \in 1..Len(u) - k : v[i] = u[k + i]
  <2>1. Len(u) \in Nat /\ \A i \in k + 1..Len(u) : u[i] \in S
    BY <1>1, <1>2
  <2>2. /\ v \in Seq(S) /\ Len(v) = IF k + 1 <= Len(u) THEN Len(u) - (k + 1) + 1 ELSE 0
        /\ \A i \in 1..Len(u) - (k + 1) + 1 : v[i] = u[(k + 1) + i - 1]
    BY <1>1, <2>1, SubSeqProperties
  <2> HIDE DEF v
  <2>3. \A i \in 1..Len(u) - k : i \in 1..Len(u) - (k + 1) + 1 /\ (k + 1) + i - 1 = k + i
    BY <1>1, <2>1
  <2> QED
    BY <1>1, <1>2, <2>2, <2>3
<1> HIDE DEF v
<1>6. Len(v) = Len(w)
  BY <1>1, <1>2, <1>3, <1>4, <1>5
<1>7. ASSUME NEW i \in 1..Len(v) PROVE v[i] = w[i]
  <2>1. i \in 1..Len(u) - k /\ k + i \in 1..Len(s) + Len(t) /\ i \in 1..Len(r) + Len(t)
    BY <1>1, <1>2, <1>3, <1>5
  <2>2. v[i] = u[k + i]
    BY <1>5, <2>1
  <2>3. CASE i <= Len(r)
    <3>1. i \in 1..Len(s) - k /\ k + i <= Len(s)
      BY <1>1, <1>3, <2>1, <2>3
    <3>2. u[k + i] = s[k + i] /\ w[i] = r[i] /\ r[i] = s[k + i]
      BY <1>2, <1>3, <1>4, <2>1, <2>3, <3>1
    <3> QED
      BY <2>2, <3>2
  <2>4. CASE ~(i <= Len(r))
    <3>1. ~(k + i <= Len(s)) /\ (k + i) - Len(s) = i - Len(r)
      BY <1>1, <1>3, <2>1, <2>4
    <3>2. u[k + i] = t[(k + i) - Len(s)] /\ w[i] = t[i - Len(r)]
      BY <1>2, <1>4, <2>1, <2>4, <3>1
    <3> QED
      BY <2>2, <3>1, <3>2
  <2> QED
    BY <2>3, <2>4
<1>8. v = w
  BY <1>4, <1>5, <1>6, <1>7, SeqEqual
<1>9. k = Len(s) => w = t
  <2> SUFFICES ASSUME k = Len(s) PROVE w = t
    OBVIOUS
  <2>1. Len(r) = 0
    BY <1>1, <1>3
  <2>2. r = <<>>
    BY <1>3, <2>1
  <2> QED
    BY <2>2, ConcatEmptySeq, Zenon DEF w
<1> QED
  BY <1>3, <1>8, <1>9 DEF r, u, v, w, Beyond


(* A list in place of as much of another; what follows the other stays.    *)
InPlace(h, s) == h \o Beyond(s, Len(h))

(* The part that is replaced lies in the first list: the second stays      *)
(* whole.                                                                  *)
LEMMA InPlaceKeepsRest ==
  ASSUME NEW S, NEW h \in Seq(S), NEW s \in Seq(S), NEW t \in Seq(S), Len(h) <= Len(s)
  PROVE  /\ Beyond(s, Len(h)) \in Seq(S)
         /\ InPlace(h, s \o t) = InPlace(h, s) \o t
<1> DEFINE k == Len(h)
           r == Beyond(s, k)
           v == Beyond(s \o t, k)
<1>1. k \in 0..Len(s)
  OBVIOUS
<1>2. r \in Seq(S) /\ v = r \o t
  <2> HIDE DEF k
  <2> QED
    BY <1>1, RestOf
<1> HIDE DEF r, v
<1>3. (h \o r) \o t = h \o (r \o t)
  BY <1>2, ConcatAssociative
<1>4. h \o v = (h \o r) \o t
  BY <1>2, <1>3
<1> QED
  BY <1>2, <1>4, Zenon DEF r, v, InPlace

(* A setup and the trade after it make one whole transaction.              *)
LEMMA WholeFlight ==
  ASSUME NEW s \in Seq(SetupOps), NEW family \in Families
  PROVE  LET ops == s \o TradeOf(family)
         IN /\ ops \in Seq(Ops) /\ EndsIn(ops, family)
            /\ family # "PumpToClmm" => Contains(ops, TwoHop)
<1> DEFINE t == TradeOf(family)
           ops == s \o t
<1>1. s \in Seq(Ops) /\ t \in Seq(Ops) /\ Len(t) \in {1, 2}
      /\ (family # "PumpToClmm" => t = <<TwoHop>>)
  BY OpsMade, TradeFacts
<1> HIDE DEF t
<1>2. /\ ops \in Seq(Ops) /\ Len(ops) = Len(s) + Len(t)
      /\ \A i \in 1..Len(s) + Len(t) : ops[i] = IF i <= Len(s) THEN s[i] ELSE t[i - Len(s)]
  BY <1>1, ConcatProperties, Zenon
<1>3. Len(s) \in 0..Len(s) /\ Len(s) \in Nat
  OBVIOUS
<1>4. SubSeq(ops, Len(s) + 1, Len(ops)) = t
  BY <1>1, <1>3, RestOf DEF Beyond
<1> HIDE DEF ops
<1>5. Len(ops) - Len(t) = Len(s)
  BY <1>1, <1>2, <1>3
<1>6. ASSUME NEW i \in 1..Len(s) PROVE IsSetup(ops[i])
  <2>1. ops[i] = s[i]
    BY <1>1, <1>2, <1>3
  <2>2. s[i] \in SetupOps /\ s[i] \in Ops
    BY OpsMade
  <2> QED
    BY <2>1, <2>2, OpFields
<1>7. EndsIn(ops, family)
  <2> DEFINE setup == Len(ops) - Len(t)
  <2>1. setup = Len(s)
    BY <1>5
  <2> HIDE DEF setup
  <2>2. /\ setup >= 0 /\ SubSeq(ops, setup + 1, Len(ops)) = t
        /\ \A i \in 1..setup : IsSetup(ops[i])
    BY <1>3, <1>4, <1>6, <2>1
  <2> QED
    BY <2>2 DEF EndsIn, t, setup
<1>8. ASSUME family # "PumpToClmm" PROVE Contains(ops, TwoHop)
  <2>1. Len(t) = 1 /\ t[1] = TwoHop
    BY <1>1, <1>8
  <2>2. Len(s) + 1 \in 1..Len(s) + Len(t) /\ ~(Len(s) + 1 <= Len(s)) /\ (Len(s) + 1) - Len(s) = 1
    BY <1>3, <2>1
  <2>3. ops[Len(s) + 1] = TwoHop /\ Len(s) + 1 \in 1..Len(ops)
    BY <1>2, <2>1, <2>2
  <2> QED
    BY <2>3 DEF Contains
<1> QED
  BY <1>2, <1>7, <1>8 DEF ops, t

(* What is sent with a setup that serves flies well. *)
LEMMA SentWell ==
  ASSUME FundingInv, NEW ops, Sent(ops),
         NEW s \in Seq(SetupOps), ops = s \o TradeOf(draft.family),
         Provided(exists, balance, extended, s, draft.terms.need, draft.extension)
  PROVE  FundingInv'
<1>1. /\ at = "ready" /\ Len(flights) < MaxFlights /\ flights' = Append(flights, Flight(ops))
      /\ at' = "idle" /\ draft' = NoPlan /\ held' = <<>> /\ UNCHANGED <<chain, caches>>
  BY DEF Sent
<1>2. ChainOK' /\ CachesOK'
  BY <1>1, ChainSame DEF FundingInv
<1>3. DraftOK'
  BY <1>1 DEF DraftOK
<1>4. /\ draft \in Drafts /\ draft.family \in Families /\ draft.input \in Inputs
      /\ draft.terms \in TermSet /\ draft.extension \in BOOLEAN /\ TermsKept(draft)
  BY <1>1, Complete
<1> DEFINE family == draft.family
           need == draft.terms.need
           least == draft.terms.least
           t == TradeOf(family)
<1>5. /\ draft.input \in Nat /\ need \in Nat /\ least \in Int
      /\ family = "PumpToClmm" => least > need
  BY <1>4, TermsTyped DEF TermSet, TermsKept
<1>6. /\ t \in Seq(Ops) /\ s \in Seq(Ops)
      /\ \A i \in 1..Len(t) : t[i].op \notin {"transfer", "sync"}
  BY <1>4, TradeFacts, OpsMade
<1>7. /\ ops \in Seq(Ops) /\ EndsIn(ops, family)
      /\ family # "PumpToClmm" => Contains(ops, TwoHop)
  <2>1. family \in Families
    BY <1>4
  <2> HIDE DEF family
  <2> QED
    BY <2>1, WholeFlight DEF family
<1>8. balance \in Nat
  BY DEF FundingInv, ChainOK, ChainTyped
<1> DEFINE extending == draft.extension
<1>9. Provided(exists, balance, extended, ops, need, extending)
  <2>1. ops = s \o t /\ Provided(exists, balance, extended, s, need, extending)
    OBVIOUS
  <2> HIDE DEF t, need, extending
  <2>2. Quoted(exists, s \o t)
    BY <1>6, <2>1, QuotedTogether DEF Provided
  <2>3. Both(exists, s \o t)
    BY <1>6, <2>1, BothTogether DEF Provided
  <2>4. Funded(balance, s \o t, need)
    BY <1>5, <1>6, <1>8, <2>1, FundedTogether DEF Provided
  <2>5. extending => extended \/ Inits(s \o t)
    BY <1>6, <2>1, InitsTogether DEF Provided
  <2> QED
    BY <2>1, <2>2, <2>3, <2>4, <2>5 DEF Provided
<1> DEFINE tx == Flight(ops)
<1>10. tx = [ops |-> ops, input |-> draft.input, need |-> need, least |-> least,
                 extension |-> extending]
  BY DEF Flight
<1>11. tx \in Flights
  BY <1>4, <1>5, <1>7, <1>10 DEF Flights
<1>12. Flies(exists, balance, extended, tx)
  <2>1. tx.ops = ops /\ tx.need = need /\ tx.least = least /\ tx.extension = extending
    BY <1>10
  <2> HIDE DEF tx, need, least, extending
  <2> QED
    BY <1>4, <1>5, <1>7, <1>9, <2>1 DEF Flies
<1> HIDE DEF tx
<1>13. FlightsOK'
  <2>1. /\ flights \in Seq(Flights) /\ Len(flights) \in Nat /\ MaxFlights \in Nat
        /\ \A k \in 1..Len(flights) : Flies(exists, balance, extended, flights[k])
    BY FundingAssumption DEF FundingInv, FlightsOK
  <2>2. /\ flights' \in Seq(Flights) /\ Len(flights') = Len(flights) + 1
        /\ \A k \in 1..Len(flights) : flights'[k] = flights[k]
        /\ flights'[Len(flights) + 1] = tx
    BY <1>1, <1>11, <2>1, AppendProperties DEF tx
  <2>3. \A k \in 1..Len(flights') : k = Len(flights) + 1 \/ k \in 1..Len(flights)
    BY <2>1, <2>2
  <2>4. \A k \in 1..Len(flights') : Flies(exists, balance, extended, flights'[k])
    BY <1>12, <2>1, <2>2, <2>3
  <2>5. Len(flights') <= MaxFlights
    BY <1>1, <2>1, <2>2
  <2> QED
    BY <1>1, <2>2, <2>4, <2>5 DEF FlightsOK, chain
<1> QED
  BY <1>2, <1>3, <1>13 DEF FundingInv

(* Sent in one transaction, with its own setup. *)
LEMMA SendSingleKeeps ==
  ASSUME FundingInv, SendSingle
  PROVE  FundingInv'
<1>1. at = "ready" /\ Sent(Wrapped) /\ Wrapped = draft.setup \o TradeOf(draft.family)
  BY DEF SendSingle, Wrapped
<1>2. /\ draft.setup \in Seq(SetupOps)
      /\ Provided(exists, balance, extended, draft.setup, draft.terms.need, draft.extension)
  BY <1>1, Complete
<1> QED
  BY <1>1, <1>2, SentWell

(* Split by the length of the setup held: its own, and nothing is lost; or *)
(* that of the plan before, followed by what the new one has beyond it and *)
(* by the trade.                                                           *)
LEMMA SendSplitKeeps ==
  ASSUME FundingInv, SendSplit
  PROVE  FundingInv'
<1>1. at = "ready" /\ CanSplit(held) /\ Sent(SplitOf(held))
  BY DEF SendSplit
<1>2. /\ draft \in Drafts /\ draft.family \in Families
      /\ draft.setup \in Seq(SetupOps) /\ held \in Seq(SetupOps)
      /\ draft.setup \in Seq(Ops) /\ held \in Seq(Ops)
      /\ draft.terms \in TermSet /\ draft.extension \in BOOLEAN
      /\ Provided(exists, balance, extended, draft.setup, draft.terms.need, draft.extension)
      /\ Inits(draft.setup) => AllowInit
      /\ Serves(exists, balance, extended, at, held, draft)
  BY <1>1, Complete
<1> DEFINE family == draft.family
           s == draft.setup
           h == held
           t == TradeOf(family)
           need == draft.terms.need
           extending == draft.extension
<1>3. /\ t \in Seq(Ops) /\ Len(t) \in {1, 2} /\ (family # "PumpToClmm" => t = <<TwoHop>>)
  BY <1>2, TradeFacts
<1>4. /\ Len(s \o t) > Len(h)
      /\ SplitOf(held) = InPlace(h, s \o t)
  BY <1>1 DEF CanSplit, SplitOf, Wrapped, Beyond, InPlace
<1>5. /\ Len(h) \in Nat /\ Len(s) \in Nat /\ Len(s \o t) = Len(s) + Len(t)
  BY <1>2, <1>3, ConcatProperties
<1>6. CASE draft.round # 1
  <2>1. h = s
    BY <1>1, <1>2, <1>6 DEF Serves
  <2>2. Len(s) \in 0..Len(s)
    BY <1>5
  <2>3. Beyond(s \o t, Len(s)) = t
    <3>1. s \in Seq(Ops) /\ t \in Seq(Ops)
      BY <1>2, <1>3
    <3> HIDE DEF s, t
    <3> QED
      BY <2>2, <3>1, RestOf
  <2>4. SplitOf(held) = s \o t
    <3> HIDE DEF h, s, t
    <3> QED
      BY <1>4, <2>1, <2>3, Zenon DEF InPlace
  <2> QED
    BY <1>1, <1>2, <2>4, SentWell
<1>7. CASE draft.round = 1
  <2>1. Calibrated(family) /\ Provided(exists, balance, extended, h, need, AllowInit)
    BY <1>2, <1>7 DEF Serves
  <2>2. t = <<TwoHop>> /\ Len(t) = 1
    <3>1. family # "PumpToClmm"
      BY <2>1 DEF Calibrated
    <3> QED
      BY <1>3, <3>1
  <2>3. Len(h) \in 0..Len(s)
    <3> HIDE DEF h, s, t
    <3> QED
      BY <1>4, <1>5, <2>2
  <2> DEFINE r == Beyond(s, Len(h))
             whole == h \o r
  <2>4. r \in Seq(Ops) /\ SplitOf(held) = whole \o t
    <3>1. h \in Seq(Ops) /\ s \in Seq(Ops) /\ t \in Seq(Ops) /\ Len(h) <= Len(s)
      BY <1>2, <1>3, <1>5, <2>3
    <3> HIDE DEF s, t, h
    <3>2. r \in Seq(Ops) /\ InPlace(h, s \o t) = InPlace(h, s) \o t
      BY <3>1, InPlaceKeepsRest
    <3>3. InPlace(h, s) = whole
      BY Zenon DEF InPlace
    <3> QED
      BY <1>4, <3>2, <3>3, Zenon
  <2>5. r \in Seq(SetupOps)
    <3>1. h \in Seq(SetupOps) /\ s \in Seq(SetupOps) /\ Len(h) <= Len(s) /\ <<>> \in Seq(SetupOps)
      BY <1>2, <1>5, <2>3
    <3> HIDE DEF s, h
    <3> QED
      BY <3>1, InPlaceKeepsRest
  <2> HIDE DEF r
  <2>7. whole \in Seq(SetupOps)
    BY <1>2, <2>5, ConcatProperties, Zenon
  <2>8. need \in Nat /\ balance \in Nat /\ AllowInit \in BOOLEAN
    BY <1>2, FundingAssumption DEF TermSet, FundingInv, ChainOK, ChainTyped
  <2>9. extending => extended \/ Inits(h)
    <3>1. extending => extended \/ Inits(s)
      BY <1>2 DEF Provided
    <3>2. AllowInit => extended \/ Inits(h)
      BY <2>1 DEF Provided
    <3> QED
      BY <1>2, <3>1, <3>2
  <2>10. Provided(exists, balance, extended, whole, need, extending)
    <3> DEFINE n == need
               g == h
    <3>1. g \in Seq(Ops) /\ n \in Nat /\ Provided(exists, balance, extended, g, n, AllowInit)
          /\ (extending => extended \/ Inits(g)) /\ whole = g \o r
      BY <1>2, <2>1, <2>8, <2>9
    <3> HIDE DEF n, g, whole, extending
    <3>2. Quoted(exists, g \o r)
      <4>1. "quote" \in exists \/ \E j \in 1..Len(g) : g[j] = Create("quote")
        BY <3>1 DEF Provided, Both, Accounts
      <4> QED
        BY <2>4, <3>1, <4>1, QuotedTogether DEF Provided
    <3>3. Both(exists, g \o r)
      BY <2>4, <3>1, BothTogether DEF Provided
    <3>4. Funded(balance, g \o r, n)
      BY <2>4, <2>8, <3>1, FundedTogether DEF Provided
    <3>5. extending => extended \/ Inits(g \o r)
      BY <2>4, <3>1, InitsTogether
    <3> QED
      BY <3>1, <3>2, <3>3, <3>4, <3>5 DEF Provided, n
  <2> HIDE DEF whole
  <2> QED
    BY <1>1, <2>4, <2>7, <2>10, SentWell
<1> QED
  BY <1>6, <1>7

(* A trade that lands leaves more than it found. *)
LEMMA LandGains ==
  ASSUME FundingInv, NEW k \in 1..Len(flights), NEW gain \in Gains, Land(k, gain)
  PROVE  /\ ChainOK' /\ ChainGrows /\ flights' = RemoveAt(flights, k)
         /\ UNCHANGED <<caches, at, draft, held>>
<1> DEFINE tx == flights[k]
           s == After(tx.ops)
           need == tx.need
           least == tx.least
<1>1. /\ s.failed = "none"
      /\ \E paid \in tx.input..need : Kept(tx, paid, gain)
      /\ exists' = s.exists /\ extended' = s.extended /\ balance' = s.balance + gain
      /\ flights' = RemoveAt(flights, k) /\ UNCHANGED <<caches, at, draft, held>>
  BY DEF Land
<1>2. tx \in Flights /\ Flies(exists, balance, extended, tx)
  BY DEF FundingInv, FlightsOK
<1>3. /\ tx.ops \in Seq(Ops) /\ tx.input \in Nat /\ need \in Nat /\ least \in Int
      /\ tx.extension \in BOOLEAN
  BY <1>2 DEF Flights
<1>4. /\ s \in States /\ s.exists = Accounts /\ s.balance >= balance /\ (extended => s.extended)
  BY <1>1, <1>2, <1>3, LandsFunded DEF FundingInv, ChainOK, Flies
<1>5. gain \in Int /\ balance \in Nat /\ s.balance \in Nat /\ s.extended \in BOOLEAN
      /\ exists \subseteq Accounts
  BY <1>4, FundingAssumption DEF States, FundingInv, ChainOK, ChainTyped
<1>6. gain >= 1
  <2>1. CASE Contains(tx.ops, TwoHop)
    BY <1>1, <2>1 DEF Kept
  <2>2. CASE ~Contains(tx.ops, TwoHop)
    <3>1. least > need
      BY <1>2, <2>2 DEF Flies
    <3>2. PICK paid \in tx.input..need : Kept(tx, paid, gain)
      BY <1>1
    <3>3. paid + gain >= least
      BY <3>2 DEF Kept
    <3>4. paid \in Int /\ paid <= need
      BY <1>3, <3>2
    <3> HIDE DEF need, least, tx, s
    <3> QED
      BY <1>3, <1>5, <3>1, <3>3, <3>4
  <2> QED
    BY <2>1, <2>2
<1> HIDE DEF s, tx, need, least
<1>7. balance' \in Nat /\ balance' >= balance
  BY <1>1, <1>4, <1>5, <1>6
<1>8. exists' = Accounts /\ extended' \in BOOLEAN /\ (extended => extended')
  BY <1>1, <1>4, <1>5
<1>9. "quote" \in exists'
  BY <1>8 DEF Accounts
<1> QED
  BY <1>1, <1>5, <1>7, <1>8, <1>9 DEF ChainOK, ChainTyped, ChainGrows, tx

(* A transaction lands: the chain grows, and everything else still finds   *)
(* what it needs.                                                          *)
LEMMA LandKeeps ==
  ASSUME FundingInv, NEW k \in 1..Len(flights), NEW gain \in Gains, Land(k, gain)
  PROVE  FundingInv'
<1>1. /\ ChainOK' /\ ChainGrows /\ flights' = RemoveAt(flights, k)
      /\ UNCHANGED <<caches, at, draft, held>>
  BY LandGains
<1>2. DraftOK' /\ FlightsOK'
  BY <1>1, DraftLater, FlightsLater DEF FundingInv
<1>3. CachesOK'
  <2>1. /\ exists \subseteq exists' /\ balance' >= balance /\ (extended => extended')
        /\ listed' = listed /\ amount' = amount /\ bitmap' = bitmap
        /\ balance \in Nat /\ balance' \in Nat
    BY <1>1 DEF ChainGrows, caches, FundingInv, ChainOK, ChainTyped
  <2>2. /\ listed \subseteq exists /\ amount \in Nat \cup {Unread, NoAccount}
        /\ (amount >= 0 => "quote" \in exists /\ amount <= balance)
        /\ bitmap \in {"unread", "no", "yes"} /\ (bitmap = "yes" => extended)
    BY DEF FundingInv, CachesOK
  <2>3. amount \in Int
    BY <2>2 DEF Unread, NoAccount
  <2>4. amount >= 0 => "quote" \in exists' /\ amount <= balance'
    BY <2>1, <2>2, <2>3
  <2> QED
    BY <2>1, <2>2, <2>4 DEF CachesOK
<1> QED
  BY <1>1, <1>2, <1>3 DEF FundingInv

(* Transactions vanish and cached readings expire. *)
LEMMA OthersKeep ==
  ASSUME FundingInv,
         \/ \E k \in 1..Len(flights) : Vanish(k)
         \/ ExpireAmount \/ ExpireExtension \/ \E a \in Accounts : ExpireListed(a)
         \/ UNCHANGED fundingVars
  PROVE  FundingInv'
<1>1. /\ UNCHANGED <<chain, at, draft, held>>
      /\ \/ UNCHANGED flights
         \/ \E k \in 1..Len(flights) : flights' = RemoveAt(flights, k)
  BY DEF Vanish, ExpireAmount, ExpireExtension, ExpireListed, fundingVars
<1>2. /\ listed' \subseteq listed /\ amount' \in {amount, Unread} /\ bitmap' \in {bitmap, "unread"}
  BY DEF Vanish, ExpireAmount, ExpireExtension, ExpireListed, fundingVars, caches
<1>3. ChainOK' /\ ChainGrows
  BY <1>1 DEF chain, FundingInv, ChainOK, ChainTyped, ChainGrows
<1>4. DraftOK' /\ FlightsOK'
  BY <1>1, <1>3, DraftLater, FlightsLater DEF FundingInv
<1>5. CachesOK'
  BY <1>1, <1>2 DEF chain, FundingInv, CachesOK, Unread
<1> QED
  BY <1>3, <1>4, <1>5 DEF FundingInv

(* The invariant holds of every behaviour: one case for each group of      *)
(* actions.                                                                *)
LEMMA FundingInvHolds == FundingSpec => []FundingInv
<1>1. FundingInit => FundingInv
  <2> SUFFICES ASSUME FundingInit PROVE FundingInv
    OBVIOUS
  <2>1. ChainOK
    BY FundingAssumption DEF FundingInit, ChainOK, ChainTyped
  <2>2. CachesOK
    BY DEF FundingInit, CachesOK, Unread
  <2>3. DraftOK
    BY DEF FundingInit, DraftOK
  <2>4. FlightsOK
    BY FundingAssumption DEF FundingInit, FlightsOK
  <2> QED
    BY <2>1, <2>2, <2>3, <2>4 DEF FundingInv
<1>2. FundingInv /\ [FundingNext]_fundingVars => FundingInv'
  <2> SUFFICES ASSUME FundingInv, [FundingNext]_fundingVars PROVE FundingInv'
    OBVIOUS
  <2>1. CASE \E family \in Families, input \in Inputs : Start(family, input)
    BY <2>1, StartKeeps
  <2>2. CASE ReadBalance \/ CreateBoth \/ ReadAccounts
    BY <2>2, ReadBalanceKeeps, AccountStepsKeep
  <2>3. CASE Wrap \/ Require \/ PrepareBitmap
    BY <2>3, WrapKeeps, RequireKeeps, PrepareBitmapKeeps
  <2>4. CASE \E gain \in Gains : CalibratePump(gain)
    BY <2>4, CalibratePumpKeeps
  <2>5. CASE \E gain \in Gains : Simulate(gain)
    BY <2>5, MadeReady
  <2>6. CASE \E gain, more \in Gains : CalibrateSell(gain, draft.input + more)
    <3>1. PICK gain \in Gains, more \in Gains : CalibrateSell(gain, draft.input + more)
      BY <2>6
    <3>2. draft \in Drafts
      <4>1. at = "building"
        BY <3>1 DEF CalibrateSell, Simulated, Step
      <4> QED
        BY <4>1 DEF FundingInv, DraftOK
    <3>3. draft.input + more \in Int
      <4>1. draft.input \in Int
        <5>1. draft.input \in Inputs
          BY <3>2 DEF Drafts
        <5>2. Inputs \subseteq Int
          BY FundingAssumption
        <5> QED
          BY <5>1, <5>2
      <4>2. more \in Int
        <5>1. Gains \subseteq Int
          BY FundingAssumption
        <5> QED
          BY <5>1
      <4> QED
        BY <4>1, <4>2
    <3> QED
      BY <3>1, <3>3, CalibrateSellKeeps
  <2>7. CASE BuildFails \/ SkipSimulation \/ BuildAgain \/ RebuildAfterSend \/ Dropped
    BY <2>7, GivenUp, MadeReady, BuildAgainKeeps, RebuildAfterSendKeeps
  <2>8. CASE SendSingle \/ SendSplit
    BY <2>8, SendSingleKeeps, SendSplitKeeps
  <2>9. CASE \E k \in 1..Len(flights) : \E gain \in Gains : Land(k, gain)
    BY <2>9, LandKeeps
  <2>10. CASE \/ \E k \in 1..Len(flights) : Vanish(k)
              \/ ExpireAmount \/ ExpireExtension \/ \E a \in Accounts : ExpireListed(a)
              \/ UNCHANGED fundingVars
    BY <2>10, OthersKeep
  <2> QED
    BY <2>1, <2>2, <2>3, <2>4, <2>5, <2>6, <2>7, <2>8, <2>9, <2>10 DEF FundingNext
<1> QED
  BY <1>1, <1>2, PTL DEF FundingSpec

(* The variables keep their types, and the caches say nothing the chain    *)
(* does not have, for any builders, amounts, balances and bounds.          *)
THEOREM FundingTypesHold == FundingSpec => []FundingTypeOK
<1>1. FundingInv => FundingTypeOK
  <2> SUFFICES ASSUME FundingInv PROVE FundingTypeOK
    OBVIOUS
  <2>1. (at = "idle") = (draft = NoPlan)
    <3>1. NoPlan.family \notin Families
      BY FundingAssumption DEF NoPlan, Builders
    <3>2. at # "idle" => draft.family \in Families
      BY DEF FundingInv, DraftOK, Drafts
    <3>3. at = "idle" => draft = NoPlan
      BY DEF FundingInv, DraftOK
    <3> QED
      BY <3>1, <3>2, <3>3
  <2>2. at # "idle" => draft.family \in Families /\ draft.round \in 0..2 /\ draft.start \in Nat
    BY DEF FundingInv, DraftOK, Drafts
  <2>3. at # "idle" => (at # "building") = (draft.todo = <<>>)
    BY DEF FundingInv, DraftOK
  <2>4. ChainOK /\ CachesOK /\ at \in {"idle", "building", "built", "ready"} /\ Len(flights) <= MaxFlights
    BY DEF FundingInv, DraftOK, FlightsOK
  <2> QED
    BY <2>1, <2>2, <2>3, <2>4 DEF FundingTypeOK, ChainOK, ChainTyped, CachesOK
<1> QED
  BY <1>1, FundingInvHolds, PTL

(* For any builders, amounts and number of transactions in the air: one    *)
(* that lands finds its accounts and its input, whatever landed before it  *)
(* and however old the readings were that it was decided from.             *)
THEOREM InputIsFunded == FundingSpec => []InputFunded
<1>1. FundingInv => InputFunded
  <2> SUFFICES ASSUME FundingInv, NEW k \in 1..Len(flights)
               PROVE  LET s == After(flights[k].ops)
                      IN s.failed # "missing" /\ (s.failed = "none" => Ready(s, flights[k]))
    BY DEF InputFunded
  <2> DEFINE tx == flights[k]
             s == After(tx.ops)
  <2>1. tx \in Flights /\ Flies(exists, balance, extended, tx) /\ ChainTyped
    BY DEF FundingInv, FlightsOK, ChainOK
  <2>2. tx.ops \in Seq(Ops) /\ tx.need \in Nat /\ tx.extension \in BOOLEAN
    BY <2>1 DEF Flights
  <2>3. /\ s.failed # "missing"
        /\ s.failed = "none" => /\ s.exists = Accounts /\ s.balance >= tx.need
                                /\ tx.extension => s.extended
    BY <2>1, <2>2, LandsFunded DEF Flies
  <2> QED
    BY <2>3 DEF Ready
<1> QED
  BY <1>1, FundingInvHolds, PTL

(* Whatever was rebuilt and however it was split, a transaction carries    *)
(* the whole trade after nothing but setup.                                *)
THEOREM TradesAreWhole == FundingSpec => []TradeWhole
<1>1. FundingInv => TradeWhole
  BY DEF FundingInv, FlightsOK, Flies, EndsIn, TradeWhole
<1> QED
  BY <1>1, FundingInvHolds, PTL

(* No step takes from the quote account: what lands brings back more than  *)
(* it paid, through the executor's check or that of its last leg.          *)
THEOREM QuoteNeverFalls == FundingSpec => BalanceNeverFalls
<1>1. FundingInv /\ [FundingNext]_fundingVars => [balance' >= balance]_fundingVars
  <2> SUFFICES ASSUME FundingInv, FundingNext PROVE balance' >= balance
    OBVIOUS
  <2>1. balance \in Nat
    BY DEF FundingInv, ChainOK, ChainTyped
  <2>2. CASE \E k \in 1..Len(flights) : \E gain \in Gains : Land(k, gain)
    BY <2>2, LandGains DEF ChainGrows
  <2>3. CASE UNCHANGED chain
    BY <2>1, <2>3 DEF chain
  <2> QED
    BY <2>2, <2>3
       DEF FundingNext, Start, ReadBalance, CreateBoth, ReadAccounts, Wrap, Require, PrepareBitmap,
           CalibratePump, CalibrateSell, Simulated, Simulate, Step, BuildFails, SkipSimulation,
           BuildAgain, RebuildAfterSend, Dropped, SendSingle, SendSplit, Sent, Vanish,
           ExpireAmount, ExpireExtension, ExpireListed
<1> QED
  BY <1>1, FundingInvHolds, PTL DEF FundingSpec, BalanceNeverFalls

=============================================================================
