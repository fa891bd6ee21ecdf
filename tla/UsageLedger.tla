----------------------------- MODULE UsageLedger -----------------------------
(***************************************************************************)
(* What settlement promises, without queues, batches, nonces, transactions *)
(* or restarts: a prepaid account per user, and units of usage.  A unit is *)
(* billed once.  From then on it is owed, until it is either settled, once *)
(* and for its fee as far as the balance goes, or written off, and then it *)
(* is never charged.                                                       *)
(***************************************************************************)
EXTENDS Integers, Functions

CONSTANTS Users, Usages, UserOf, FeeOf

VARIABLES stage,     \* usage unit -> "unbilled", "owed", "settled" or "writtenOff"
          balance    \* user -> prepaid balance

vars == <<stage, balance>>

Owed == {x \in Usages : stage[x] = "owed"}

Init ==
    /\ stage = [x \in Usages |-> "unbilled"]
    /\ balance \in [Users -> Nat]

Become(S, s) == stage' = [x \in Usages |-> IF x \in S THEN s ELSE stage[x]]

Bill(x) ==
    /\ stage[x] = "unbilled"
    /\ Become({x}, "owed")
    /\ UNCHANGED balance

Fee(u, S) == SumFunctionOnSet(FeeOf, {x \in S : UserOf[x] = u})

\* One transaction: it takes the fees of its units, or all there is.
Settle(S) ==
    /\ Become(S, "settled")
    /\ balance' = [u \in Users |-> IF Fee(u, S) <= balance[u] THEN balance[u] - Fee(u, S) ELSE 0]

WriteOff(S) ==
    /\ Become(S, "writtenOff")
    /\ UNCHANGED balance

\* A user deposits or withdraws.
MoveMoney(u) ==
    /\ balance' \in [Users -> Nat]
    /\ \A w \in Users \ {u} : balance'[w] = balance[w]
    /\ UNCHANGED stage

Next ==
    \/ \E x \in Usages : Bill(x)
    \/ \E S \in SUBSET Owed : Settle(S) \/ WriteOff(S)
    \/ \E u \in Users : MoveMoney(u)

Spec == Init /\ [][Next]_vars
=============================================================================
