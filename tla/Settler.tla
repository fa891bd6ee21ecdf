------------------------------- MODULE Settler -------------------------------
(***************************************************************************)
(* The settlement pipeline of one provider: the voucher queue, held debt   *)
(* and pending-tx record in Redis, the loop settler.Run with its startup   *)
(* recovery, sweeps and status handling, the nonce counter of              *)
(* billing.Signer, and the chain as the settler sees it.                   *)
(*                                                                         *)
(* A step is a Redis command, an RPC or a Redis transaction together with  *)
(* the local code around it; the process may crash at the points listed in *)
(* CrashPoints.  Time is not modelled: a sweep, a node check or a drain    *)
(* may happen whenever its other conditions hold.  What the environment    *)
(* may do beyond serving requests is listed in Faults:                     *)
(*   "rpc"       a chain read at startup, of the node check or of a tx's   *)
(*               fate fails                                                *)
(*   "sign"      signing fails, or saving the intent                       *)
(*   "peek"      reading the entries behind the popped one fails           *)
(*   "hash"      saving the hash of a broadcast tx fails                   *)
(*   "load"      reading the pending-tx record at startup fails            *)
(*   "submit"    the broadcast fails, nothing was sent                     *)
(*   "lost"      the broadcast reports an error and the tx was sent        *)
(*   "revert"    the tx mines and reverts                                  *)
(*   "replace"   another tx with the same account nonce mines instead      *)
(*   "stale"     one poll misses the receipt of a mined tx                 *)
(*   "ack"       a user acknowledges or revokes                            *)
(*   "withdraw"  a user moves money out of the balance                     *)
(*   "rotate"    the provider key becomes invalid                          *)
(*   "reinstate" an invalid provider key becomes valid again               *)
(*   "compete"   someone else settles with the pair's next nonce           *)
(*   "aggregate" the operator calls POST /queue/aggregate                  *)
(***************************************************************************)
EXTENDS VoucherBacklog

CONSTANTS
    Users, Usages, UserOf, SandboxOf,   \* usage units, who runs them and where
    MaxBatch,            \* maxBatchSize
    BacklogThreshold,    \* backlogSweepThreshold
    Faults, CrashPoints,
    InitBalance,         \* each user's balance at the start
    MaxTx, MaxMishaps, MaxEvents   \* bounds: broadcasts; crashes and failed
                                   \* batches; user and operator events

ASSUME TuningAssumption ==
    MaxBatch \in Nat \ {0} /\ BacklogThreshold \in Nat /\ InitBalance \in Nat
ASSUME UsageAssumption ==
    IsFiniteSet(Users) /\ UserOf \in [Usages -> Users] /\ FeeOf \in [Usages -> Nat]
ASSUME BoundsAssumption == MaxTx \in Nat /\ MaxMishaps \in Nat /\ MaxEvents \in Nat

\* What the accounts rest on: the process dies only where the loop waits, the
\* pending-tx record is read back and takes the hash, a broadcast that reports
\* an error was not sent, and no operator rewrites the queue behind a batch.
SafeEnvironment ==
    /\ Faults \cap {"hash", "load", "lost", "aggregate"} = {}
    /\ CrashPoints \cap {"popped", "intent", "broadcast", "handled"} = {}

\* A voucher the contract turned down without an event would still be turned
\* down when its status is read.
Steady == Faults \cap {"ack", "reinstate"} = {}

VARIABLES
    queue, held, record, counter,            \* Redis
    dlq, stops,                              \* Redis: dead letters; stop orders given
    pc, batch, dropped, nodeActive, lastBal, \* the settler process
    balance, lastNonce, acked, active,       \* the contract and the registry
    fate, txVouchers, events,                \* transactions: 1..MaxTx
    emitted, charged, discarded,             \* history of usage units
    mishaps, happened                        \* spent bounds

redisVars == <<queue, held, record, counter, dlq, stops>>
procVars  == <<pc, batch, dropped, nodeActive, lastBal>>
chainVars == <<balance, lastNonce, acked, active, fate, txVouchers, events>>
histVars  == <<emitted, charged, discarded>>
boundVars == <<mishaps, happened>>
vars == <<redisVars, procVars, chainVars, histVars, boundVars>>

Absent == -1       \* no counter key, no balance memo
NoTx == 0          \* no hash yet
NoRecord == [tx |-> NoTx, vouchers |-> <<>>, first |-> <<>>, consumed |-> 0]
\* recovered: the record was found at startup, not made by this process
Idle == [rec |-> NoRecord, recovered |-> FALSE, broke |-> {}]
TxIds == 1..MaxTx
Recorded == record.consumed > 0

\* Spending the bounds.
Mishap == mishaps < MaxMishaps /\ mishaps' = mishaps + 1
Event == happened < MaxEvents /\ happened' = happened + 1

Init ==
    /\ queue = <<>> /\ held = [u \in Users |-> <<>>]
    /\ record = NoRecord /\ counter = [u \in Users |-> Absent]
    /\ dlq = {} /\ stops = {}
    /\ pc = "start" /\ batch = Idle /\ dropped = 0 /\ nodeActive = "unchecked"
    /\ lastBal = [u \in Users |-> Absent]
    /\ balance = [u \in Users |-> InitBalance]
    /\ lastNonce = [u \in Users |-> 0]
    /\ acked = Users /\ active = TRUE
    /\ fate = [t \in TxIds |-> "unused"]
    /\ txVouchers = [t \in TxIds |-> <<>>]
    /\ events = [t \in TxIds |-> <<>>]
    /\ emitted = {} /\ charged = [x \in Usages |-> 0] /\ discarded = {}
    /\ mishaps = 0 /\ happened = 0

-----------------------------------------------------------------------------
(* Producers. *)

\* Signer.Enqueue: an unsigned voucher for one period goes to the tail.
Enqueue(x) ==
    /\ x \notin emitted
    /\ emitted' = emitted \cup {x}
    /\ queue' = Append(queue, [user |-> UserOf[x], sandbox |-> SandboxOf[x],
                               uses |-> <<x>>, agg |-> FALSE])
    /\ UNCHANGED <<held, record, counter, dlq, stops, procVars, chainVars,
                   charged, discarded, boundVars>>

\* POST /queue/aggregate, an HTTP handler that runs beside the settler.
AdminAggregate(u) ==
    /\ "aggregate" \in Faults /\ Event
    /\ queue' = Aggregate(queue, u)
    /\ UNCHANGED <<held, record, counter, dlq, stops, procVars, chainVars,
                   histVars, mishaps>>

-----------------------------------------------------------------------------
(* The settler: startup. *)

PushFront(v) == queue' = <<v>> \o queue

StartClean ==
    /\ pc = "start"
    /\ ~Recorded \/ "load" \in Faults
    /\ pc' = "loop"
    /\ UNCHANGED <<redisVars, batch, dropped, nodeActive, lastBal, chainVars,
                   histVars, boundVars>>

\* A record with a hash is resolved before the queue is consumed.
StartResolve ==
    /\ pc = "start"
    /\ record.tx # NoTx
    /\ pc' = "inflight" /\ dropped' = 0
    /\ batch' = [Idle EXCEPT !.rec = record, !.recovered = TRUE]
    /\ UNCHANGED <<redisVars, nodeActive, lastBal, chainVars, histVars, boundVars>>

SettledOnChain(v) == lastNonce[v.user] >= v.nonce

\* reconcileIntent: the chain's nonces decide; nothing settled means requeueRaw.
ReconcileIntent ==
    LET settled == {i \in DOMAIN record.vouchers : SettledOnChain(record.vouchers[i])} IN
    /\ pc = "start"
    /\ Recorded /\ record.tx = NoTx
    /\ IF settled = {} THEN PushFront(record.first) ELSE UNCHANGED queue
    /\ record' = NoRecord
    /\ pc' = "loop"
    /\ UNCHANGED <<held, counter, dlq, stops, batch, dropped, nodeActive, lastBal,
                   chainVars, histVars, boundVars>>

\* A nonce read fails: the record is kept and the loop starts all the same.
ReconcileFailed ==
    /\ pc = "start" /\ "rpc" \in Faults
    /\ Recorded /\ record.tx = NoTx
    /\ pc' = "loop"
    /\ UNCHANGED <<redisVars, batch, dropped, nodeActive, lastBal, chainVars,
                   histVars, boundVars>>

-----------------------------------------------------------------------------
(* The settler: sweeps. *)

HeldUsers == {u \in Users : held[u] # <<>>}

\* Mutant: debt is parked and its sandboxes are left running.
SweepOneNoStop(st, u, memoHit) ==
    IF memoHit THEN st
    ELSE LET r == AggregateCovered(st.queue, st.held[u], u, balance[u]) IN
         [queue |-> r.queue, held |-> [st.held EXCEPT ![u] = r.held], stops |-> st.stops]

\* sweepUsersMemo for one user: a memo hit is a user whose split would not change.
SweepOne(st, u, memoHit) ==
    IF memoHit THEN st
    ELSE LET r == AggregateCovered(st.queue, st.held[u], u, balance[u]) IN
         [queue |-> r.queue, held |-> [st.held EXCEPT ![u] = r.held],
          stops |-> st.stops \cup HeldSandboxIDs(r.held)]

\* Users are swept one after the other; those in skip are memo hits.
Sweep(order, skip) ==
    FoldLeft(LAMBDA acc, u : SweepOne(acc, u, u \in skip),
             [queue |-> queue, held |-> held, stops |-> stops], order)

\* In any order; a memo is written for every user that was split.
SweepUsers(users, fromQueue, memo) ==
    LET skip == {u \in users : memo /\ u \notin fromQueue /\ lastBal[u] = balance[u]} IN
    /\ \E order \in SetToSeqs(users) :
          LET st == Sweep(order, skip) IN
          queue' = st.queue /\ held' = st.held /\ stops' = st.stops
    /\ lastBal' = [u \in Users |-> IF memo /\ u \in users \ skip THEN balance[u] ELSE lastBal[u]]

MaybeSweep(force) ==
    LET deep == force \/ Len(queue) > BacklogThreshold
        fromQueue == IF deep THEN QueuedUsers(queue) ELSE {}
    IN  /\ deep \/ HeldUsers # {}
        /\ SweepUsers(fromQueue \cup HeldUsers, fromQueue, TRUE)

PeriodicSweep ==
    /\ pc = "loop"
    /\ MaybeSweep(FALSE)
    /\ UNCHANGED <<record, counter, dlq, pc, batch, dropped, nodeActive, chainVars,
                   histVars, boundVars>>

\* Forced while the rotation gate holds the queue, and after a failed broadcast.
ForcedSweep ==
    /\ pc = "degraded" \/ (pc = "loop" /\ nodeActive = "no")
    /\ MaybeSweep(TRUE)
    /\ pc' = "loop"
    /\ UNCHANGED <<record, counter, dlq, batch, dropped, nodeActive, chainVars,
                   histVars, boundVars>>

\* The forced sweep ran less than an interval ago, or its reads failed.
ForcedSweepThrottled ==
    /\ pc = "degraded"
    /\ pc' = "loop"
    /\ UNCHANGED <<redisVars, batch, dropped, nodeActive, lastBal, chainVars,
                   histVars, boundVars>>

-----------------------------------------------------------------------------
(* The settler: drain, sign, broadcast. *)

NodeState == IF active THEN "yes" ELSE "no"

\* The rotation gate's check; an RPC error counts as active.
CheckProvider ==
    /\ pc = "loop"
    /\ nodeActive' \in {NodeState} \cup (IF "rpc" \in Faults THEN {"yes"} ELSE {})
    /\ UNCHANGED <<redisVars, pc, batch, dropped, lastBal, chainVars, histVars, boundVars>>

BLPop ==
    /\ pc = "loop" /\ nodeActive = "yes"
    /\ queue # <<>>
    /\ batch' = [Idle EXCEPT !.rec.first = Head(queue)]
    /\ queue' = Tail(queue)
    /\ pc' = "popped"
    /\ UNCHANGED <<held, record, counter, dlq, stops, dropped, nodeActive, lastBal,
                   chainVars, histVars, boundVars>>

Smaller(a, b) == IF a < b THEN a ELSE b

\* The popped entry and the peeked ones behind it.
Peeked == SubSeq(queue, 1, Smaller(MaxBatch - 1, Len(queue)))
RawItems(first) == {<<first>> \o Peeked} \cup (IF "peek" \in Faults THEN {<<first>>} ELSE {})

\* Mutant: every nonce is the chain's next one, whatever was signed before.
FirstNonceFromChain(u) == lastNonce[u] + 1

\* IncrNonce: the counter, seeded from the chain when its key is absent.
FirstNonce(u) == IF counter[u] = Absent THEN lastNonce[u] + 1 ELSE counter[u] + 1

\* Sign in order: the i-th voucher of a user gets the i-th fresh nonce.
Sign(vs) ==
    [i \in DOMAIN vs |->
        [user |-> vs[i].user, sandbox |-> vs[i].sandbox, uses |-> vs[i].uses,
         agg |-> vs[i].agg,
         nonce |-> FirstNonce(vs[i].user) +
                     Cardinality({j \in 1..(i - 1) : vs[j].user = vs[i].user})]]

CounterAfter(vs) ==
    [u \in Users |->
        LET n == Cardinality({i \in DOMAIN vs : vs[i].user = u})
        IN  IF n = 0 THEN counter[u] ELSE FirstNonce(u) + n - 1]

\* LRANGE, collapse, sign and save the hashless intent.
SignBatch ==
    /\ pc = "popped"
    /\ \E raws \in RawItems(batch.rec.first) :
          LET vs == CollapseBySandbox(raws) IN
          /\ counter' = CounterAfter(vs)
          /\ record' = [tx |-> NoTx, vouchers |-> Sign(vs), first |-> batch.rec.first,
                        consumed |-> Len(raws)]
    /\ batch' = [Idle EXCEPT !.rec = record']
    /\ pc' = "intent"
    /\ UNCHANGED <<queue, held, dlq, stops, dropped, nodeActive, lastBal, chainVars,
                   histVars, boundVars>>

\* Signing fails after a prefix of the batch, or the intent cannot be saved.
SignFailed ==
    /\ pc = "popped" /\ "sign" \in Faults /\ Mishap
    /\ \E raws \in RawItems(batch.rec.first) :
          LET vs == CollapseBySandbox(raws) IN
          \E k \in 0..Len(vs) : counter' = CounterAfter(SubSeq(vs, 1, k))
    /\ PushFront(batch.rec.first)
    /\ batch' = Idle
    /\ pc' = "loop"
    /\ UNCHANGED <<held, record, dlq, stops, dropped, nodeActive, lastBal, chainVars,
                   histVars, happened>>

Unused == {t \in TxIds : fate[t] = "unused"}
NextTx == CHOOSE t \in Unused : \A s \in Unused : t <= s

Broadcast ==
    /\ Unused # {}
    /\ fate' = [fate EXCEPT ![NextTx] = "pool"]
    /\ txVouchers' = [txVouchers EXCEPT ![NextTx] = batch.rec.vouchers]
    /\ UNCHANGED <<balance, lastNonce, acked, active, events>>

SubmitSettleFees ==
    /\ pc = "intent"
    /\ Broadcast
    /\ batch' = [batch EXCEPT !.rec.tx = NextTx]
    /\ pc' = "broadcast"
    /\ UNCHANGED <<redisVars, dropped, nodeActive, lastBal, histVars, boundVars>>

\* The call returned an error: the intent is cleared and the batch given back.
SubmitFailed ==
    /\ pc = "intent" /\ Mishap
    /\ \/ "submit" \in Faults /\ UNCHANGED chainVars
       \/ "lost" \in Faults /\ Broadcast
    /\ PushFront(batch.rec.first)
    /\ record' = NoRecord
    /\ batch' = Idle
    /\ pc' = "degraded"
    /\ UNCHANGED <<held, counter, dlq, stops, dropped, nodeActive, lastBal, histVars, happened>>

\* Mutant: the record with the hash forgets how many entries the batch took.
BroadcastRecordWithoutConsumed(rec) == [rec EXCEPT !.consumed = Len(rec.vouchers)]

\* pendingTx.broadcast: the intent with the hash filled in.
BroadcastRecord(rec) == rec

SaveTxHash ==
    /\ pc = "broadcast"
    /\ \/ record' = BroadcastRecord(batch.rec)
       \/ "hash" \in Faults /\ UNCHANGED record
    /\ batch' = [batch EXCEPT !.rec = BroadcastRecord(batch.rec)]
    /\ dropped' = 0
    /\ pc' = "inflight"
    /\ UNCHANGED <<queue, held, counter, dlq, stops, nodeActive, lastBal, chainVars,
                   histVars, boundVars>>

-----------------------------------------------------------------------------
(* The settler: the fate of the transaction and its statuses. *)

\* _previewOne and _settleOne of the contract, on a state st of its accounts.
StatusIn(st, v) ==
    IF v.user \notin acked THEN "NOT_ACKNOWLEDGED"
    ELSE IF v.nonce <= st.lastNonce[v.user] THEN "INVALID_NONCE"
    ELSE IF ~active THEN "INVALID_SIGNATURE"
    ELSE IF st.balance[v.user] >= TotalFee(v) THEN "SUCCESS"
    ELSE "INSUFFICIENT_BALANCE"

Now == [balance |-> balance, lastNonce |-> lastNonce]
WithEvent == {"SUCCESS", "INSUFFICIENT_BALANCE"}

\* SettleStatusesFromReceipt: the events, and for vouchers that left none the
\* preview of the contract as it is by now.
Statuses(t) ==
    [i \in DOMAIN txVouchers[t] |->
        IF events[t][i] \in WithEvent THEN events[t][i] ELSE StatusIn(Now, txVouchers[t][i])]

\* Open sessions of a user: every sandbox that has been billed.
SandboxesOf(u) == {SandboxOf[x] : x \in {y \in emitted : UserOf[y] = u}}

\* Mutant: the popped first entry is counted among those still queued.
PoppedQueueOneTooMany(consumed) == SubSeq(queue, consumed + 1, Len(queue))

\* consumed - 1 times LPOP.
PoppedQueue(consumed) == SubSeq(queue, consumed, Len(queue))

StopsFor(v, status) ==
    CASE status = "INSUFFICIENT_BALANCE" ->
            IF IsAggregated(v) THEN SandboxesOf(v.user) ELSE {v.sandbox}
      [] status = "NOT_ACKNOWLEDGED" -> IF IsAggregated(v) THEN {} ELSE {v.sandbox}
      [] OTHER -> {}

\* PushHeld strips nonce and signature.
Unsigned(v) == [user |-> v.user, sandbox |-> v.sandbox, uses |-> v.uses, agg |-> v.agg]

\* A user's unacknowledged vouchers join its held debt in the batch's order.
PushOne(debt, v, status, u) ==
    IF status = "NOT_ACKNOWLEDGED" /\ v.user = u THEN Append(debt, Unsigned(v)) ELSE debt
PushHeld(debt, vs, statuses, u) ==
    FoldLeft(LAMBDA out, i : PushOne(out, vs[i], statuses[i], u), debt, [i \in DOMAIN vs |-> i])

HandleStatuses(vs, statuses, consumed) ==
    LET with(S) == {i \in DOMAIN vs : statuses[i] \in S}
        usesOf(S) == UNION {ToSet(vs[i].uses) : i \in with(S)}
    IN  /\ queue' = PoppedQueue(consumed)
        /\ held' = [u \in Users |-> PushHeld(held[u], vs, statuses, u)]
        /\ dlq' = dlq \cup usesOf({"INVALID_SIGNATURE"})
        /\ discarded' = discarded \cup usesOf({"INVALID_NONCE"})
        /\ counter' = [u \in Users |-> IF \E i \in with({"INVALID_NONCE"}) : vs[i].user = u
                                       THEN Absent ELSE counter[u]]
        /\ stops' = stops \cup UNION {StopsFor(vs[i], statuses[i]) : i \in DOMAIN vs}

Polling(f) == pc = "inflight" /\ fate[batch.rec.tx] = f

\* The fate or the statuses cannot be read: the loop polls again.
PollFailed ==
    /\ pc = "inflight" /\ "rpc" \in Faults
    /\ dropped' = 0
    /\ UNCHANGED <<redisVars, pc, batch, nodeActive, lastBal, chainVars, histVars, boundVars>>

\* TxMined: apply the statuses.  Only users of a batch of this run are swept
\* afterwards.
PollMined ==
    LET t == batch.rec.tx IN
    /\ Polling("mined")
    /\ HandleStatuses(batch.rec.vouchers, Statuses(t), batch.rec.consumed)
    /\ batch' = [batch EXCEPT !.broke =
                    {batch.rec.vouchers[i].user :
                        i \in {j \in DOMAIN Statuses(t) : /\ ~batch.recovered
                                                        /\ Statuses(t)[j] = "INSUFFICIENT_BALANCE"}}]
    /\ pc' = "handled"
    /\ UNCHANGED <<record, dropped, nodeActive, lastBal, chainVars, emitted, charged, boundVars>>

GiveBack ==
    /\ PushFront(batch.rec.first)
    /\ record' = NoRecord
    /\ batch' = Idle
    /\ dropped' = 0
    /\ pc' = "loop"
    /\ UNCHANGED <<held, counter, dlq, stops, nodeActive, lastBal, chainVars, histVars, boundVars>>

PollReverted ==
    /\ Polling("reverted")
    /\ GiveBack

\* No receipt and the account nonce has moved past the tx: true of a replaced
\* tx, and with "stale" seen once of a mined one.
LooksDropped ==
    \/ fate[batch.rec.tx] = "replaced"
    \/ "stale" \in Faults /\ dropped = 0 /\ fate[batch.rec.tx] \in {"mined", "reverted"}

\* Mutant: one observation is enough to give the batch back.
PollDroppedAtOnce ==
    /\ pc = "inflight" /\ LooksDropped
    /\ dropped = 0
    /\ GiveBack

PollDroppedOnce ==
    /\ pc = "inflight" /\ LooksDropped
    /\ dropped = 0
    /\ dropped' = 1
    /\ UNCHANGED <<redisVars, pc, batch, nodeActive, lastBal, chainVars, histVars, boundVars>>

PollDropped ==
    /\ pc = "inflight" /\ LooksDropped
    /\ dropped = 1
    /\ GiveBack

\* Mutant: the record outlives its transaction.
FinishBatchKeepRecord ==
    /\ pc = "handled"
    /\ SweepUsers(batch.broke, {}, FALSE)
    /\ batch' = Idle
    /\ dropped' = 0
    /\ pc' = "loop"
    /\ UNCHANGED <<record, counter, dlq, nodeActive, chainVars, histVars, boundVars>>

\* clearPendingTx, then the targeted sweep of users that ran out of balance.
FinishBatch ==
    /\ pc = "handled"
    /\ record' = NoRecord
    /\ SweepUsers(batch.broke, {}, FALSE)
    /\ batch' = Idle
    /\ dropped' = 0
    /\ pc' = "loop"
    /\ UNCHANGED <<counter, dlq, nodeActive, chainVars, histVars, boundVars>>

\* The process dies and comes back with what Redis holds.
Crash ==
    /\ pc \in CrashPoints /\ Mishap
    /\ pc' = "start" /\ batch' = Idle /\ dropped' = 0 /\ nodeActive' = "unchecked"
    /\ lastBal' = [u \in Users |-> Absent]
    /\ UNCHANGED <<redisVars, chainVars, histVars, happened>>

-----------------------------------------------------------------------------
(* The chain. *)

\* Mutant: a voucher the balance does not cover leaves the balance alone.
SettleOneKeepsRest(st, v) ==
    LET status == StatusIn(st, v)   u == v.user IN
    IF status \notin WithEvent THEN [st EXCEPT !.events = Append(@, status)]
    ELSE [balance |-> [st.balance EXCEPT ![u] =
                         IF status = "SUCCESS" THEN @ - TotalFee(v) ELSE @],
          lastNonce |-> [st.lastNonce EXCEPT ![u] = v.nonce],
          charged |-> [x \in Usages |->
                         st.charged[x] + Times(x, v)],
          events |-> Append(st.events, status)]

\* One turn of settleFeesWithTEE.
SettleOne(st, v) ==
    LET status == StatusIn(st, v)   u == v.user IN
    IF status \notin WithEvent THEN [st EXCEPT !.events = Append(@, status)]
    ELSE [balance |-> [st.balance EXCEPT ![u] =
                         IF status = "SUCCESS" THEN @ - TotalFee(v) ELSE 0],
          lastNonce |-> [st.lastNonce EXCEPT ![u] = v.nonce],
          charged |-> [x \in Usages |->
                         st.charged[x] + Times(x, v)],
          events |-> Append(st.events, status)]

\* Transactions of one account mine in the order of their nonces.
InPool == {t \in TxIds : fate[t] = "pool"}
NextInPool == CHOOSE t \in InPool : \A s \in InPool : t <= s

\* settleFeesWithTEE on the accounts as they are.
Settled(vs) ==
    FoldLeft(SettleOne, [balance |-> balance, lastNonce |-> lastNonce,
                         charged |-> charged, events |-> <<>>], vs)

Mine ==
    LET t == NextInPool
        st == Settled(txVouchers[t])
    IN  /\ InPool # {}
        /\ fate' = [fate EXCEPT ![t] = "mined"]
        /\ events' = [events EXCEPT ![t] = st.events]
        /\ balance' = st.balance /\ lastNonce' = st.lastNonce /\ charged' = st.charged
        /\ UNCHANGED <<redisVars, procVars, acked, active, txVouchers, emitted, discarded,
                       boundVars>>

NotMined ==
    /\ InPool # {} /\ Mishap
    /\ \/ "revert" \in Faults /\ fate' = [fate EXCEPT ![NextInPool] = "reverted"]
       \/ "replace" \in Faults /\ fate' = [fate EXCEPT ![NextInPool] = "replaced"]
    /\ UNCHANGED <<redisVars, procVars, balance, lastNonce, acked, active, txVouchers, events,
                   histVars, happened>>

Deposit(u) ==
    /\ Event
    /\ balance' = [balance EXCEPT ![u] = @ + 1]
    /\ UNCHANGED <<redisVars, procVars, lastNonce, acked, active, fate, txVouchers, events,
                   histVars, mishaps>>

Withdraw(u) ==
    /\ "withdraw" \in Faults /\ Event
    /\ balance[u] > 0
    /\ balance' = [balance EXCEPT ![u] = @ - 1]
    /\ UNCHANGED <<redisVars, procVars, lastNonce, acked, active, fate, txVouchers, events,
                   histVars, mishaps>>

ChangeAck(u) ==
    /\ "ack" \in Faults /\ Event
    /\ acked' = IF u \in acked THEN acked \ {u} ELSE acked \cup {u}
    /\ UNCHANGED <<redisVars, procVars, balance, lastNonce, active, fate, txVouchers, events,
                   histVars, mishaps>>

Rotate ==
    /\ (IF active THEN "rotate" ELSE "reinstate") \in Faults /\ Event
    /\ active' = ~active
    /\ UNCHANGED <<redisVars, procVars, balance, lastNonce, acked, fate, txVouchers, events,
                   histVars, mishaps>>

Compete(u) ==
    /\ "compete" \in Faults /\ Event
    /\ lastNonce' = [lastNonce EXCEPT ![u] = @ + 1]
    /\ UNCHANGED <<redisVars, procVars, balance, acked, active, fate, txVouchers, events,
                   histVars, mishaps>>

-----------------------------------------------------------------------------
SettlerStep ==
    \/ StartClean \/ StartResolve \/ ReconcileIntent \/ ReconcileFailed
    \/ PeriodicSweep \/ ForcedSweep \/ ForcedSweepThrottled
    \/ CheckProvider \/ BLPop \/ SignBatch \/ SignFailed
    \/ SubmitSettleFees \/ SubmitFailed \/ SaveTxHash
    \/ PollFailed \/ PollMined \/ PollReverted \/ PollDroppedOnce \/ PollDropped
    \/ FinishBatch

Environment ==
    \/ \E x \in Usages : Enqueue(x)
    \/ \E u \in Users : Deposit(u) \/ Withdraw(u) \/ ChangeAck(u) \/ Compete(u)
                         \/ AdminAggregate(u)
    \/ Mine \/ NotMined \/ Rotate

Next == SettlerStep \/ Environment \/ Crash

Spec == Init /\ [][Next]_vars

\* The loop is one goroutine that never stops turning: whatever step it can
\* keep taking it takes.  The periodic sweep and the node check have clocks of
\* their own, so the drain keeps neither from happening; the chain mines what
\* is in the pool.  Every conjunct is weak fairness of an action.  For the
\* actions that fold over vouchers the condition under which they change
\* something is written out, where WF_vars would have TLC search for it.
Fairness ==
    /\ WF_vars(StartClean \/ StartResolve \/ ReconcileIntent)
    /\ WF_vars(ForcedSweepThrottled)
    /\ WF_vars(CheckProvider)
    /\ WF_vars(BLPop)
    /\ WF_vars(SubmitSettleFees)
    /\ WF_vars(SaveTxHash)
    /\ WF_vars(PollReverted)
    /\ WF_vars(PollDroppedOnce \/ PollDropped)
    /\ []<>~(pc = "loop" /\ \E u \in HeldUsers : lastBal[u] # balance[u]) \/ []<><<PeriodicSweep>>_vars
    /\ []<>~(pc = "popped") \/ []<><<SignBatch>>_vars
    /\ []<>~(Polling("mined")) \/ []<><<PollMined>>_vars
    /\ []<>~(pc = "handled") \/ []<><<FinishBatch>>_vars
    /\ []<>~(InPool # {}) \/ []<><<Mine>>_vars

FairSpec == Spec /\ Fairness

-----------------------------------------------------------------------------
(* Properties. *)

UnitsIn(vs) == UNION {ToSet(vs[i].uses) : i \in DOMAIN vs}

IsVoucher(v) == v.user \in Users /\ Len(v.uses) > 0 /\ ToSet(v.uses) \subseteq Usages
IsBacklog(vs) == \A i \in DOMAIN vs : IsVoucher(vs[i])

\* Redis, the process and the chain hold what they should: vouchers everywhere a
\* voucher belongs, debt filed under its own user, balances and nonces natural.
TypeOK ==
    /\ IsBacklog(queue)
    /\ \A u \in Users : /\ IsBacklog(held[u])
                       /\ \A i \in DOMAIN held[u] : held[u][i].user = u
    /\ record.tx \in {NoTx} \cup TxIds /\ IsBacklog(record.vouchers)
    /\ record.consumed \in 0..MaxBatch
    /\ counter \in [Users -> Nat \cup {Absent}]
    /\ lastBal \in [Users -> Nat \cup {Absent}]
    /\ dlq \subseteq Usages /\ discarded \subseteq Usages
    /\ dropped \in 0..1
    /\ nodeActive \in {"unchecked", "yes", "no"}
    /\ pc \in {"start", "loop", "popped", "intent", "broadcast", "inflight", "handled",
              "degraded"}
    /\ balance \in [Users -> Nat] /\ lastNonce \in [Users -> Nat]

\* No usage unit is settled twice, whatever the queue, the collapse, the sweeps
\* and the recovery of an in-flight transaction do ("re-signing while the tx
\* may still mine settles the same usage twice", Run).
NoDoubleCharge == \A x \in Usages : charged[x] <= 1

InHand == IF batch.rec.consumed > 0 THEN UnitsIn(batch.rec.vouchers)
          ELSE IF pc = "popped" THEN ToSet(batch.rec.first.uses) ELSE {}

\* Every usage unit billing emitted is still somewhere it can be collected
\* from, or was settled, dead-lettered or discarded on purpose: a batch that
\* fails, reverts, is dropped or survives a restart loses nothing (Run,
\* resolvePendingTx, HandleStatuses, requeueRaw).
NothingLost ==
    \A x \in emitted :
        \/ charged[x] > 0
        \/ x \in UnitsIn(queue) \cup InHand \cup dlq \cup discarded
        \/ \E u \in Users : x \in UnitsIn(held[u])
        \/ Recorded /\ x \in UnitsIn(record.vouchers)

\* The comment on the pops of HandleStatuses: "nothing - not even the sweep -
\* rewrites the queue in between".  While a batch waits for its transaction,
\* the entries it will pop by count are the ones it was built from.
BatchAtHead ==
    pc = "inflight" =>
        UnitsIn(<<batch.rec.first>> \o SubSeq(queue, 1, Smaller(batch.rec.consumed - 1, Len(queue))))
            = UnitsIn(batch.rec.vouchers)

\* Of two vouchers of one user that were ever broadcast, the later one has the
\* larger nonce: nonces survive restarts, failed batches, given-back entries and
\* settlements by someone else (IncrNonce, Sign).  Excepted is an earlier voucher
\* whose transaction was mined and that the contract turned down without an
\* event: it used its nonce up for nobody, and after INVALID_NONCE the counter is
\* seeded from the chain again, which may hand that nonce out once more.
NoncesIncrease ==
    \A s, t \in TxIds : \A i \in DOMAIN txVouchers[s], j \in DOMAIN txVouchers[t] :
        /\ txVouchers[s][i].user = txVouchers[t][j].user
        /\ s < t \/ (s = t /\ i < j)
        => \/ txVouchers[s][i].nonce < txVouchers[t][j].nonce
           \/ s < t /\ fate[s] = "mined" /\ events[s][i] \notin WithEvent

\* Every sandbox that held debt names has been ordered to stop: debt is parked
\* only together with the stop (sweepUsersMemo, HandleStatuses).
HeldIsStopped == \A u \in Users : HeldSandboxIDs(held[u]) \subseteq stops

\* A unit that is billed ends up settled, parked as debt, dead-lettered or
\* discarded for its nonce; no failed, reverted or dropped batch and no restart
\* keeps it waiting for ever (Run, resolvePendingTx).
EveryUnitResolved ==
    \A x \in Usages :
        []<>(x \in emitted => \/ charged[x] > 0 \/ x \in dlq \cup discarded
                             \/ x \in UNION {UnitsIn(held[u]) : u \in Users})

\* A recorded transaction does not stay recorded: its fate becomes known and the
\* record is cleared (resolvePendingTx).
RecordCleared == []<>~Recorded

\* Settlement keeps going: every billed unit is resolved and no recorded
\* transaction blocks the loop for good (Run, resolvePendingTx).
SettlementProgresses == EveryUnitResolved /\ RecordCleared

\* Where a unit stands, for one who does not see the pipeline.
StageOf(x) ==
    IF x \notin emitted THEN "unbilled"
    ELSE IF charged[x] > 0 THEN "settled"
    ELSE IF x \in dlq \cup discarded THEN "writtenOff"
    ELSE "owed"

Ledger == INSTANCE UsageLedger WITH stage <- [x \in Usages |-> StageOf(x)]

\* The pipeline implements the ledger: seen from the accounts, every step of the
\* producers, the settler, the chain and a crash bills a unit, settles owed units
\* for exactly their fees in one transaction, writes owed units off or changes
\* nothing.  In particular what was written off is never charged, and a unit whose
\* user could not pay is settled and takes what was left (Run, HandleStatuses,
\* _settleOne).
ImplementsLedger == Ledger!Spec
=============================================================================
