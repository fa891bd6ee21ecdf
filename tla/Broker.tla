------------------------------- MODULE Broker -------------------------------
(***************************************************************************)
(* The broker: POST and DELETE /api/session, called by the billing proxy   *)
(* with signed requests, the monitor that tops up accounts that run low,   *)
(* and the client of the payment layer, whose deposits land on chain some  *)
(* time later or never.  One user's account with one provider.             *)
(*                                                                         *)
(* A request is a kind, the sandbox it registers or Fund, and its age in   *)
(* ticks: signed requests stay in the network and may be delivered late,   *)
(* twice or not at all.  Two requests of one kind and one age are the same *)
(* request, as in the code, where the key is made of the sandbox and the   *)
(* second.  A request that another key signed, or that fails a guard, is   *)
(* answered with an error and changes nothing.  Prices are one unit per    *)
(* sandbox and voucher interval.  Redis answers; the broker may restart.   *)
(***************************************************************************)
EXTENDS Naturals, FiniteSets, FiniteSetsExt

CONSTANTS
    Sandboxes, Fund,
    Handlers,               \* concurrent POST handlers
    Slots,                  \* deposit requests known to the payment layer
    Window, SeenTTL,        \* freshness of a request, life of an anti-replay key
    FailedBackoff, TimeoutBackoff,  \* monitor intervals without a top-up
    ThresholdIntervals, TopupIntervals, CreateFee,
    MaxStarts, MaxRestarts, \* bounds: sandbox starts, broker restarts
    MaxBalance              \* bound: an account holds no more than this

ASSUME SandboxesAssumption == IsFiniteSet(Sandboxes) /\ Fund \notin Sandboxes
ASSUME HandlersAssumption == IsFiniteSet(Handlers)
ASSUME TimesAssumption ==
    /\ Window \in Nat /\ SeenTTL \in Nat /\ SeenTTL > Window
    /\ FailedBackoff \in Nat /\ TimeoutBackoff \in Nat
ASSUME AmountsAssumption ==
    /\ ThresholdIntervals \in Nat \ {0} /\ TopupIntervals \in Nat /\ CreateFee \in Nat
    /\ TopupIntervals > ThresholdIntervals
ASSUME BoundsAssumption == MaxStarts \in Nat /\ MaxRestarts \in Nat /\ MaxBalance \in Nat

VARIABLES
    balance, service,       \* the chain: the account, is the service registered
    running,                \* sandboxes that are started
    posts, deletes,         \* signed requests of either endpoint that still exist
    session, seen,          \* Redis: broker:session:*, broker:seen:*
    inflight, backoff,      \* Redis: broker:topup:*, a slot or None; ticks left
    deposit,                \* the payment layer's requests, and their pollers
    post,                   \* the POST handlers
    monitor,                \* the monitor's pass
    answered,               \* history: requests answered with 200
    stranded,               \* history: deposits asked for after the service went
    starts, restarts

redisVars == <<session, seen, inflight, backoff>>
chainVars == <<balance, service, running>>
netVars == <<posts, deletes>>
historyVars == <<answered, stranded>>
boundVars == <<starts, restarts>>
vars == <<chainVars, netVars, redisVars, deposit, post, monitor, historyVars, boundVars>>

None == "none"
Kinds == Sandboxes \cup {Fund}
Requests(maxAge) == [kind : Kinds, age : 0..maxAge]
NoDeposit == [state |-> "unused", amount |-> 0, polled |-> FALSE]
Waiting == [pc |-> "idle", req |-> None, amount |-> 0, slot |-> None]
Asleep == [pc |-> "idle", amount |-> 0, slot |-> None]

Init ==
    /\ balance = 0 /\ service = TRUE /\ running = {}
    /\ posts = {} /\ deletes = {}
    /\ session = {} /\ seen = {} /\ inflight = None /\ backoff = 0
    /\ deposit = [s \in Slots |-> NoDeposit]
    /\ post = [h \in Handlers |-> Waiting] /\ monitor = Asleep
    /\ answered = {} /\ stranded = 0
    /\ starts = 0 /\ restarts = 0

-----------------------------------------------------------------------------
(* The billing proxy, brokerClient. *)

\* Before a create that the balance does not cover, a request without a sandbox.
RequestFunding ==
    /\ posts' = posts \cup {[kind |-> Fund, age |-> 0]}
    /\ starts < MaxStarts /\ starts' = starts + 1
    /\ UNCHANGED <<chainVars, deletes, redisVars, deposit, post, monitor, historyVars, restarts>>

\* registerSession, in a goroutine of the create or the start.
StartSandbox(sb) ==
    /\ sb \notin running /\ starts < MaxStarts
    /\ running' = running \cup {sb} /\ starts' = starts + 1
    /\ posts' = posts \cup {[kind |-> sb, age |-> 0]}
    /\ UNCHANGED <<balance, service, deletes, redisVars, deposit, post, monitor, historyVars,
                   restarts>>

\* deregisterSession, in a goroutine of the stop.
StopSandbox(sb) ==
    /\ sb \in running
    /\ running' = running \ {sb}
    /\ deletes' = deletes \cup {[kind |-> sb, age |-> 0]}
    /\ UNCHANGED <<balance, service, posts, redisVars, deposit, post, monitor, historyVars,
                   boundVars>>

-----------------------------------------------------------------------------
(* The payment layer's client. *)

FreeSlots == {s \in Slots : deposit[s] = NoDeposit}
FreeSlot == CHOOSE s \in FreeSlots : TRUE

\* The broker has asked for the deposit and not yet marked it.
Asking(s) == monitor.slot = s \/ \E h \in Handlers : post[h].slot = s

\* RequestDeposit up to the answer with the request's id: the payment layer has
\* taken the request on.
AskForDeposit(s, amount) ==
    /\ s \in FreeSlots /\ s = FreeSlot
    /\ deposit' = [deposit EXCEPT ![s] = [state |-> "pending", amount |-> amount,
                                          polled |-> FALSE]]
    /\ stranded' = IF service THEN stranded ELSE stranded + 1

\* RequestDeposit after the answer: the in-flight key, then the poller.
MarkInflight(s) ==
    /\ inflight' = s
    /\ deposit' = [deposit EXCEPT ![s].polled = TRUE]

\* A deposit that is resolved is kept for as long as the broker follows it.
Resolve(s, state) ==
    deposit' = [deposit EXCEPT ![s] =
        IF @.polled \/ Asking(s) THEN [@ EXCEPT !.state = state] ELSE NoDeposit]

\* The payment layer, external: the deposit reaches the account, or it fails.
Land(s) ==
    /\ deposit[s].state = "pending"
    /\ balance' = Min({balance + deposit[s].amount, MaxBalance})
    /\ Resolve(s, "landed")
    /\ UNCHANGED <<service, running, netVars, redisVars, post, monitor, historyVars, boundVars>>

Fail(s) ==
    /\ deposit[s].state = "pending"
    /\ Resolve(s, "failed")
    /\ UNCHANGED <<chainVars, netVars, redisVars, post, monitor, historyVars, boundVars>>

Unfollowed(d) == IF d.state = "pending" THEN [d EXCEPT !.polled = FALSE] ELSE NoDeposit

\* pollDepositStatus ends: deposited, failed, or out of time.  The key of the
\* account is deleted whichever request it names.
PollEnds(s) ==
    /\ deposit[s].polled
    /\ deposit' = [deposit EXCEPT ![s] = Unfollowed(@)]
    /\ inflight' = None
    /\ \/ deposit[s].state = "landed" /\ UNCHANGED backoff
       \/ deposit[s].state = "failed" /\ backoff' = FailedBackoff
       \/ backoff' = TimeoutBackoff
    /\ UNCHANGED <<chainVars, netVars, session, seen, post, monitor, historyVars, boundVars>>

\* Mutant: the in-flight key has no expiry.
InflightNeverExpires == FALSE

\* The key outlives every poller; only a restart leaves it to its expiry.
InflightExpires == inflight # None /\ ~deposit[inflight].polled

ExpireInflight ==
    /\ InflightExpires
    /\ inflight' = None
    /\ UNCHANGED <<chainVars, netVars, session, seen, backoff, deposit, post, monitor,
                   historyVars, boundVars>>

-----------------------------------------------------------------------------
(* POST /api/session. *)

PostAt(h, pc) == post[h].pc = pc
PostTo(h, pc) == post' = [post EXCEPT ![h].pc = pc]
PostEnds(h) == post' = [post EXCEPT ![h] = Waiting]

Fresh(r) == r.age <= Window

\* For this sandbox alone, with the create fee when there is none yet.
Needed(r) == TopupIntervals + (IF r.kind = Fund THEN CreateFee ELSE 0)

\* The guards up to the anti-replay key, then prices and the balance, from which
\* the deficit is computed.
Accept(h, r) ==
    LET needed == Needed(r) IN
    /\ PostAt(h, "idle") /\ r \in posts
    /\ service /\ Fresh(r) /\ r \notin seen
    /\ post' = [post EXCEPT ![h] =
           [pc |-> IF balance < needed THEN "deficit" ELSE "funded", req |-> r,
            amount |-> IF balance < needed THEN needed - balance ELSE 0,
            slot |-> None]]
    /\ UNCHANGED <<chainVars, netVars, redisVars, deposit, monitor, historyVars, boundVars>>

\* No look at the in-flight key here.
FundDeficit(h, s) ==
    /\ PostAt(h, "deficit")
    /\ AskForDeposit(s, post[h].amount)
    /\ post' = [post EXCEPT ![h].pc = "asked", ![h].slot = s]
    /\ UNCHANGED <<chainVars, netVars, redisVars, monitor, answered, boundVars>>

Marked(h) ==
    /\ PostAt(h, "asked")
    /\ MarkInflight(post[h].slot)
    /\ post' = [post EXCEPT ![h].pc = "waiting", ![h].amount = 0, ![h].slot = None]
    /\ UNCHANGED <<chainVars, netVars, session, seen, backoff, monitor, historyVars, boundVars>>

\* waitForBalance sees the balance.
Confirmed(h) ==
    /\ PostAt(h, "waiting") /\ balance >= Needed(post[h].req)
    /\ PostTo(h, "funded")
    /\ UNCHANGED <<chainVars, netVars, redisVars, deposit, monitor, historyVars, boundVars>>

\* The payment layer refuses, or the deposit does not arrive in time.
GiveUp(h) ==
    /\ post[h].pc \in {"deficit", "waiting"}
    /\ PostEnds(h)
    /\ UNCHANGED <<chainVars, netVars, redisVars, deposit, monitor, historyVars, boundVars>>

\* Mutant: a request that names no sandbox leaves no anti-replay key.
WriteSeenRegistered(r) == seen' = IF r.kind = Fund THEN seen ELSE seen \cup {r}

WriteSeen(r) == seen' = seen \cup {r}

\* Both keys, then 200.
Register(h) ==
    LET r == post[h].req IN
    /\ PostAt(h, "funded")
    /\ WriteSeen(r)
    /\ session' = session \cup ({r.kind} \ {Fund})
    /\ answered' = answered \cup {r}
    /\ PostEnds(h)
    /\ UNCHANGED <<chainVars, netVars, inflight, backoff, deposit, monitor, stranded,
                   boundVars>>

\* The client has gone and the request's context with it: neither or only the
\* first of the two writes is made.
RegisterCancelled(h) ==
    /\ PostAt(h, "funded")
    /\ WriteSeen(post[h].req) \/ UNCHANGED seen
    /\ PostEnds(h)
    /\ UNCHANGED <<chainVars, netVars, session, inflight, backoff, deposit, monitor,
                   historyVars, boundVars>>

-----------------------------------------------------------------------------
(* DELETE /api/session/:id: no anti-replay key, only freshness. *)

Deregister(r) ==
    /\ r \in deletes /\ service /\ Fresh(r) /\ r.kind \in session
    /\ session' = session \ {r.kind}
    /\ UNCHANGED <<chainVars, netVars, seen, inflight, backoff, deposit, post, monitor,
                   historyVars, boundVars>>

-----------------------------------------------------------------------------
(* The monitor. *)

Burn == Cardinality(session)

\* Mutant: the service lookup is left out.
LookUpNothing == TRUE

LookUpService == service

\* One pass of check for the account: sessions, service lookup, balance.
Check ==
    /\ monitor.pc = "idle" /\ session # {} /\ LookUpService
    /\ balance < Burn * ThresholdIntervals
    /\ inflight = None /\ backoff = 0
    /\ monitor' = [pc |-> "low", amount |-> Burn * TopupIntervals - balance, slot |-> None]
    /\ UNCHANGED <<chainVars, netVars, redisVars, deposit, post, historyVars, boundVars>>

TopUp(s) ==
    /\ monitor.pc = "low"
    /\ AskForDeposit(s, monitor.amount)
    /\ monitor' = [monitor EXCEPT !.pc = "asked", !.slot = s]
    /\ UNCHANGED <<chainVars, netVars, redisVars, post, answered, boundVars>>

TopUpMarked ==
    /\ monitor.pc = "asked"
    /\ MarkInflight(monitor.slot)
    /\ monitor' = Asleep
    /\ UNCHANGED <<chainVars, netVars, session, seen, backoff, post, historyVars, boundVars>>

TopUpRefused ==
    /\ monitor.pc = "low"
    /\ monitor' = Asleep
    /\ UNCHANGED <<chainVars, netVars, redisVars, deposit, post, historyVars, boundVars>>

-----------------------------------------------------------------------------
(* The environment. *)

\* A unit of the running sandboxes' fees is settled.
Settle ==
    /\ running # {} /\ balance > 0
    /\ balance' = balance - 1
    /\ UNCHANGED <<service, running, netVars, redisVars, deposit, post, monitor, historyVars,
                   boundVars>>

\* The provider's owner removes the service of a key that has been replaced.
RemoveService ==
    /\ service /\ service' = FALSE
    /\ UNCHANGED <<balance, running, netVars, redisVars, deposit, post, monitor, historyVars,
                   boundVars>>

\* Requests a tick later, without those that have expired.
Aged(requests, maxAge) ==
    {[kind |-> r.kind, age |-> r.age + 1] : r \in {q \in requests : q.age < maxAge}}

\* A tick of the clock; a request older than any key of it is out of the model.
Tick ==
    /\ posts' = Aged(posts, SeenTTL + 1) /\ deletes' = Aged(deletes, Window)
    /\ seen' = Aged(seen, SeenTTL)
    /\ answered' = Aged(answered, SeenTTL + 1)
    /\ backoff' = IF backoff > 0 THEN backoff - 1 ELSE 0
    /\ post' = [h \in Handlers |-> IF PostAt(h, "idle") THEN Waiting
                                   ELSE [post[h] EXCEPT !.req.age = @ + 1]]
    /\ \A h \in {g \in Handlers : ~PostAt(g, "idle")} : post[h].req.age < SeenTTL
    /\ UNCHANGED <<chainVars, session, inflight, deposit, monitor, stranded, boundVars>>

\* The process restarts: handlers, the monitor's pass and every poller are gone.
Restart ==
    /\ restarts < MaxRestarts /\ restarts' = restarts + 1
    /\ post' = [h \in Handlers |-> Waiting] /\ monitor' = Asleep
    /\ deposit' = [s \in Slots |-> Unfollowed(deposit[s])]
    /\ UNCHANGED <<chainVars, netVars, redisVars, historyVars, starts>>

HandlePost(h) ==
    \/ \E r \in posts : Accept(h, r)
    \/ \E s \in Slots : FundDeficit(h, s)
    \/ Marked(h) \/ Confirmed(h) \/ GiveUp(h) \/ Register(h) \/ RegisterCancelled(h)

MonitorStep == Check \/ (\E s \in Slots : TopUp(s)) \/ TopUpMarked

Next ==
    \/ RequestFunding
    \/ \E sb \in Sandboxes : StartSandbox(sb) \/ StopSandbox(sb)
    \/ \E h \in Handlers : HandlePost(h)
    \/ \E r \in deletes : Deregister(r)
    \/ MonitorStep \/ TopUpRefused
    \/ \E s \in Slots : Land(s) \/ Fail(s) \/ PollEnds(s)
    \/ ExpireInflight \/ Settle \/ RemoveService \/ Tick \/ Restart

\* The loops run; the payment layer does not refuse or fail for ever.
Fairness ==
    /\ WF_vars(Tick) /\ WF_vars(ExpireInflight)
    /\ WF_vars(Check) /\ WF_vars(TopUpMarked)
    /\ SF_vars(\E s \in Slots : TopUp(s))
    /\ \A h \in Handlers : WF_vars(HandlePost(h))
    /\ \A s \in Slots : WF_vars(PollEnds(s)) /\ SF_vars(Land(s))

Spec == Init /\ [][Next]_vars /\ Fairness

-----------------------------------------------------------------------------
(* Properties. *)

\* The values the variables may have.
TypeOK ==
    /\ balance \in Nat /\ service \in BOOLEAN /\ running \subseteq Sandboxes
    /\ posts \subseteq Requests(SeenTTL + 1) /\ deletes \subseteq Requests(Window)
    /\ session \subseteq Sandboxes /\ seen \subseteq Requests(SeenTTL)
    /\ inflight \in Slots \cup {None} /\ backoff \in 0..(FailedBackoff + TimeoutBackoff)
    /\ \A s \in Slots :
           /\ deposit[s].state \in {"unused", "pending", "landed", "failed"}
           /\ deposit[s].amount \in Nat /\ deposit[s].polled \in BOOLEAN
    /\ \A h \in Handlers :
           /\ post[h].pc \in {"idle", "deficit", "asked", "waiting", "funded"}
           /\ PostAt(h, "idle") \/ post[h].req \in Requests(SeenTTL)
    /\ monitor.pc \in {"idle", "low", "asked"}
    /\ answered \subseteq Requests(SeenTTL + 1) /\ stranded \in Nat

\* A signed request that was answered with 200 is never taken up again, however
\* late and however often it is delivered: the anti-replay key covers it while it
\* is fresh, and it is no longer fresh when the key expires.
NoReplay ==
    [][\A h \in Handlers :
          PostAt(h, "idle") /\ post'[h].pc # "idle" => post'[h].req \notin answered]_vars

\* Once the owner has removed the service of a replaced key, at most the deposits
\* that were decided on before the removal are still asked for: one per request in
\* progress and one of the monitor.  Nothing can be settled from that account.
BoundedStranding == stranded <= Cardinality(Handlers) + 1

Low == service /\ session # {} /\ balance < Burn * ThresholdIntervals

\* A monitored account that runs low is funded again: no in-flight key, back-off
\* or restart in the middle of a request stops its top-ups for good.
FundedAgain == []<>~Low

=============================================================================
