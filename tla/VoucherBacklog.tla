--------------------------- MODULE VoucherBacklog ---------------------------
(***************************************************************************)
(* The pure list algorithms of internal/voucher on one provider's backlog: *)
(* the collapse of a settlement batch by sandbox, the split of a user's    *)
(* backlog against a balance, and the operator's user-wide aggregation.    *)
(*                                                                         *)
(* A voucher is a record of its user, its sandbox, the usage units it      *)
(* bills (in the order they were accounted) and the Aggregated flag.  Its  *)
(* total_fee is the sum of its units' fees, so whatever a rewrite does to  *)
(* the fees shows in the units.  One queue is one provider's, so the       *)
(* provider of a voucher is left out.                                      *)
(***************************************************************************)
EXTENDS Integers, SequencesExt

CONSTANT FeeOf         \* the fee of each usage unit

NoSandbox == "none"    \* AggregatedSandboxID, the empty sandbox id

TotalFee(v) == FoldLeft(LAMBDA sum, use : sum + FeeOf[use], 0, v.uses)
FeeOfAll(vs) == FoldLeft(LAMBDA sum, v : sum + TotalFee(v), 0, vs)
Uses(vs) == FoldLeft(LAMBDA out, v : out \o v.uses, <<>>, vs)

\* How often a voucher bills a unit.
Times(use, v) == Cardinality({k \in DOMAIN v.uses : v.uses[k] = use})

IsAggregated(v) == v.agg \/ v.sandbox = NoSandbox

\* Mutant: grouping ignores who pays.
SameSandboxAnyUser(v, w) == v.sandbox = w.sandbox

SameSandbox(v, w) == v.user = w.user /\ v.sandbox = w.sandbox

-----------------------------------------------------------------------------
\* out[i] absorbs v: fees add up, and a merged voucher is flagged.
Absorb(out, i, v) == [out EXCEPT ![i].uses = @ \o v.uses, ![i].agg = TRUE]

MergeInto(out, v) ==
    LET hits == {i \in DOMAIN out : SameSandbox(out[i], v)}
    IN  IF hits = {} THEN Append(out, v)
        ELSE Absorb(out, CHOOSE i \in hits : TRUE, v)

CollapseBySandbox(vs) == FoldLeft(MergeInto, <<>>, vs)

-----------------------------------------------------------------------------
\* SummarizeQueue with minCount 1: who has entries queued.
QueuedUsers(queued) == {queued[i].user : i \in DOMAIN queued}

\* The loops that split a queue by user: entries keep their order.
EntriesOf(queued, users) ==
    FoldLeft(LAMBDA out, v : IF v.user \in users THEN Append(out, v) ELSE out, <<>>, queued)
QueuedOf(queued, user) == EntriesOf(queued, {user})
NotOf(queued, user) == EntriesOf(queued, QueuedUsers(queued) \ {user})

\* Mutant: a cheaper voucher behind the first overflow is taken as covered.
TakeWhileCoveredCherryPick(acc, v, balance) ==
    IF FeeOfAll(acc.covered) + TotalFee(v) <= balance
    THEN [acc EXCEPT !.covered = Append(@, v)]
    ELSE [covered |-> acc.covered, held |-> Append(acc.held, v)]

\* One turn of AggregateCovered's loop: once a voucher overflows the balance,
\* it and everything after it is held.
TakeWhileCovered(acc, v, balance) ==
    IF acc.held = <<>> /\ FeeOfAll(acc.covered) + TotalFee(v) <= balance
    THEN [acc EXCEPT !.covered = Append(@, v)]
    ELSE [acc EXCEPT !.held = Append(@, v)]

SplitBacklog(mine, balance) ==
    FoldLeft(LAMBDA acc, v : TakeWhileCovered(acc, v, balance),
             [covered |-> <<>>, held |-> <<>>], mine)

\* Covered vouchers become one aggregate per sandbox, a lone one included.
GroupCovered(covered) ==
    LET groups == CollapseBySandbox(covered)
    IN  [i \in DOMAIN groups |-> [groups[i] EXCEPT !.agg = TRUE]]

\* Mutant: the debt parked earlier is not read back.
AggregateCoveredForgetHeld(queued, heldOfUser, user, balance) ==
    LET split == SplitBacklog(QueuedOf(queued, user), balance)
    IN  [queue |-> NotOf(queued, user) \o GroupCovered(split.covered),
         held  |-> split.held]

\* The atomic rewrite of queue and held list: other users' entries keep their
\* order and the covered aggregates follow them.
AggregateCovered(queued, heldOfUser, user, balance) ==
    LET split == SplitBacklog(heldOfUser \o QueuedOf(queued, user), balance)
    IN  [queue |-> NotOf(queued, user) \o GroupCovered(split.covered),
         held  |-> split.held]

\* HeldSandboxIDs: the sandboxes the caller stops.
HeldSandboxIDs(held) == {held[i].sandbox : i \in DOMAIN held} \ {NoSandbox}

\* Mutant: the merged entries stay on the queue.
AggregateKeepMerged(queued, user) ==
    LET mine == QueuedOf(queued, user)
    IN  IF mine = <<>> THEN queued
        ELSE Append(queued,
                    [user |-> user, sandbox |-> NoSandbox, uses |-> Uses(mine), agg |-> TRUE])

\* The operator's aggregation (POST /queue/aggregate): one sandbox-less
\* voucher for everything the user has queued, moved to the tail.
Aggregate(queued, user) ==
    LET mine == QueuedOf(queued, user)
    IN  IF mine = <<>> THEN queued
        ELSE Append(NotOf(queued, user),
                    [user |-> user, sandbox |-> NoSandbox, uses |-> Uses(mine), agg |-> TRUE])
=============================================================================
