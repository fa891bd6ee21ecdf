-------------------------- MODULE MCVoucherBacklog --------------------------
(***************************************************************************)
(* Builds every backlog of up to MaxEntries vouchers, and checks what the  *)
(* algorithms of VoucherBacklog return for it against their definitions    *)
(* by specification.                                                       *)
(***************************************************************************)
EXTENDS VoucherBacklog, FiniteSets

CONSTANTS Users, Sandboxes, MaxEntries, MaxBalance

VARIABLES queued, held   \* a queue, and the held list of one user

vars == <<queued, held>>
Total == Len(queued) + Len(held)

\* A voucher for one usage unit: the n-th unit of the run.
NewVoucher(u, s, agg) == [user |-> u, sandbox |-> s, uses |-> <<Total + 1>>, agg |-> agg]
Debtor == CHOOSE u \in Users : TRUE

Init == queued = <<>> /\ held = <<>>

Enqueue(u, s, agg) ==
    /\ Total < MaxEntries
    /\ queued' = Append(queued, NewVoucher(u, s, agg))
    /\ UNCHANGED held

\* Held entries are older than everything queued.
Hold(s) ==
    /\ Total < MaxEntries
    /\ queued = <<>>
    /\ held' = Append(held, NewVoucher(Debtor, s, FALSE))
    /\ UNCHANGED queued

Next == \/ \E u \in Users, s \in Sandboxes, agg \in BOOLEAN : Enqueue(u, s, agg)
        \/ \E s \in Sandboxes : Hold(s)

Spec == Init /\ [][Next]_vars

-----------------------------------------------------------------------------
UnitsOf(vs, u) == ToSet(Uses(QueuedOf(vs, u)))
NoUnitTwice(vs) == Cardinality(ToSet(Uses(vs))) = Len(Uses(vs))

InGroup(w, v) == w.user = v.user /\ w.sandbox = v.sandbox

\* Where the group of v begins in vs, and the entries of it in their order.
FirstOf(vs, v) == CHOOSE i \in DOMAIN vs :
                     InGroup(vs[i], v) /\ \A j \in 1..(i - 1) : ~InGroup(vs[j], v)
GroupOf(vs, v) ==
    FoldLeft(LAMBDA out, w : IF InGroup(w, v) THEN Append(out, w) ELSE out, <<>>, vs)

IsGrouping(out, vs) ==
    /\ \A i, j \in DOMAIN out : i < j => FirstOf(vs, out[i]) < FirstOf(vs, out[j])
    /\ \A i \in DOMAIN vs : \E j \in DOMAIN out : InGroup(out[j], vs[i])
    /\ \A j \in DOMAIN out :
          /\ out[j].uses = Uses(GroupOf(vs, out[j]))
          /\ out[j].agg <=> Len(GroupOf(vs, out[j])) > 1 \/ GroupOf(vs, out[j])[1].agg

\* The collapse is the grouping by (user, sandbox): no two results share a
\* group, every unit is billed once and to the user and sandbox that ran it,
\* groups stand in order of first appearance, and exactly the merged groups
\* are newly flagged as aggregates (CollapseBySandbox).
CollapseIsGrouping == IsGrouping(CollapseBySandbox(queued), queued)

\* The split pays the longest affordable prefix of the debt, oldest first:
\* what settles is a prefix of (held, queued) in that order, it fits the
\* balance, and the next voucher would not (AggregateCovered).
SplitIsLongestPrefix ==
    \A balance \in 0..MaxBalance :
        LET mine  == held \o QueuedOf(queued, Debtor)
            split == SplitBacklog(mine, balance)
        IN  /\ split.covered \o split.held = mine
            /\ FeeOfAll(split.covered) <= balance
            /\ split.held # <<>> =>
                  FeeOfAll(split.covered) + TotalFee(split.held[1]) > balance

\* The rewrite moves money between lists and creates or loses none: each unit
\* of the debtor is either in one aggregate on the queue or in the held list,
\* and the other users' entries are untouched and ahead (AggregateCovered).
RewriteKeepsEveryUnit ==
    \A balance \in 0..MaxBalance :
        LET r == AggregateCovered(queued, held, Debtor, balance)
        IN  /\ NoUnitTwice(r.queue \o r.held)
            /\ ToSet(Uses(r.queue \o r.held)) = ToSet(Uses(queued \o held))
            /\ IsPrefix(NotOf(queued, Debtor), r.queue)
            /\ \A i \in DOMAIN r.held : r.held[i].user = Debtor
            /\ \A u \in Users \ {Debtor} : UnitsOf(r.queue, u) = UnitsOf(queued, u)

\* The operator's aggregation bills the same units to the same user with one
\* voucher and leaves everyone else's order alone (Aggregate).
AggregateKeepsEveryUnit ==
    \A u \in Users :
        LET r == Aggregate(queued, u)
        IN  /\ UnitsOf(r, u) = UnitsOf(queued, u)
            /\ NoUnitTwice(r)
            /\ NotOf(r, u) = NotOf(queued, u)
            /\ Len(QueuedOf(r, u)) <= 1
=============================================================================
