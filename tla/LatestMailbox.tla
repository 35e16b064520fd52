---------------------------- MODULE LatestMailbox ----------------------------
(***************************************************************************)
(* What an account subscription promises its reader, with every queue and  *)
(* buffer left out: for each account a box that holds the newest version   *)
(* the subscription has accepted, and the version the reader has applied.  *)
(* Intermediate versions may be skipped, an accepted version may be lost   *)
(* only by an explicit Forget, and the reader never goes back.             *)
(***************************************************************************)
EXTENDS Naturals

CONSTANTS Accounts,   \* the accounts of the subscription
          Versions    \* the versions (slots) of an account, 0 = the initial one

VARIABLES box,        \* the newest version held for an account
          applied     \* the version the reader has applied

vars == <<box, applied>>

Init == /\ box = [a \in Accounts |-> 0]
        /\ applied = [a \in Accounts |-> 0]

(* The subscription accepts a version newer than any it accepted before. *)
Put(a) == /\ \E v \in Versions : v > box[a] /\ box' = [box EXCEPT ![a] = v]
          /\ UNCHANGED applied

(* The reader moves forward to some accepted version. *)
Take(a) == /\ \E v \in Versions : /\ applied[a] <= v /\ v <= box[a]
                                  /\ applied' = [applied EXCEPT ![a] = v]
           /\ UNCHANGED box

(* What is still held is lost for some accounts; what was applied is not. *)
Forget == /\ box' \in [Accounts -> Versions]
          /\ \A a \in Accounts : applied[a] <= box'[a] /\ box'[a] <= box[a]
          /\ UNCHANGED applied

Next == Forget \/ \E a \in Accounts : Put(a) \/ Take(a)

Spec == Init /\ [][Next]_vars
=============================================================================
