----------------------------- MODULE CreateGate -----------------------------
(***************************************************************************)
(* The balance gate of handleCreate and handleStart: what a user owes is   *)
(* read from the queue and the held list, the balance from the chain, the  *)
(* cost of the request is added to a counter in Redis that expires, and    *)
(* the request is admitted when the balance covers the debt and the whole  *)
(* counter.  The counter is given back when the request is turned down or  *)
(* when its charge is in the queue.  Beside the requests run the settler,  *)
(* which takes charges out of the queue, and the generator, which adds     *)
(* periods of sandboxes that run already.                                  *)
(*                                                                         *)
(* One user.  A step is one Redis command, chain read or Daytona call.     *)
(* Every request has its own amount; a start is for the one sandbox that   *)
(* exists already.                                                         *)
(***************************************************************************)
EXTENDS Integers, FiniteSets, Functions

CONSTANTS
    Creates, Starts,          \* requests
    CreateCost, StartCost,    \* createFee + intervalCost, intervalCost
    InitialBalance,
    BrokerEnabled,            \* is BROKER_URL set
    MaxDeposits, MaxAccruals, MaxMishaps
                              \* bounds; an accrual is a step of the existing sandbox's
                              \* billing, a mishap a failed call or a crash

Requests == Creates \cup Starts

ASSUME RequestsAssumption == IsFiniteSet(Requests) /\ Creates \cap Starts = {}
ASSUME CostAssumption == CreateCost \in Nat \ {0} /\ StartCost \in Nat \ {0}
ASSUME BrokerAssumption == BrokerEnabled \in BOOLEAN
ASSUME BoundsAssumption ==
    /\ InitialBalance \in Nat
    /\ MaxDeposits \in Nat /\ MaxAccruals \in Nat /\ MaxMishaps \in Nat

VARIABLES
    balance,                  \* the account on chain
    queue, flight, held,      \* charges queued, being settled, parked
    reserved,                 \* Redis: billing:reserved:<user>:<provider>
    session,                  \* is the existing sandbox billed
    req,                      \* the requests
    excuses,                  \* history: "blind", a charge the gate did not see;
                              \* "disturbed", a counter that expired or a failed call
    overdrawn,                \* history: was a request let in beyond the balance
    deposits, accruals, mishaps

chargeVars == <<queue, flight, held>>
boundVars == <<deposits, accruals, mishaps>>
vars == <<balance, chargeVars, reserved, session, req, excuses, overdrawn, boundVars>>

\* need is what the gate asks for, charge what the hook will queue; holds, missed
\* and unseen are history: the request's share of the counter, requests charged
\* since it read the debt, and charges it could not see.
Fresh(r) == [pc |-> "new", need |-> 0, debt |-> 0, funds |-> 0, total |-> 0,
             mine |-> FALSE, holds |-> 0, missed |-> {}, unseen |-> 0]

Init ==
    /\ balance = InitialBalance /\ queue = 0 /\ flight = 0 /\ held = 0 /\ reserved = 0
    /\ session \in BOOLEAN
    /\ req = [r \in Requests |-> Fresh(r)]
    /\ excuses = {} /\ overdrawn = "no"
    /\ deposits = 0 /\ accruals = 0 /\ mishaps = 0

At(r, pc) == req[r].pc = pc

\* The request is over; what it holds of the counter stays on record.
Over(r, holds) == [Fresh(r) EXCEPT !.pc = "done", !.holds = holds]

\* The request is past the gate: what it read does not matter any more.
Past(r, pc) == [Fresh(r) EXCEPT !.pc = pc, !.need = req[r].need, !.mine = req[r].mine,
                                !.holds = req[r].holds]
Ended == {r \in Requests : req[r].pc \in {"new", "done"}}
Mishap == mishaps < MaxMishaps /\ mishaps' = mishaps + 1

Cost(r) == IF r \in Creates THEN CreateCost ELSE StartCost

\* Requests that read the debt and are not yet judged.
Gated(q) == req[q].pc \in {"debt", "funds", "judge", "asked", "rejudge"}

\* Requests that read the debt and have not added to the counter.
Between(q) == req[q].pc \in {"debt", "funds"}

-----------------------------------------------------------------------------
(* The counter. *)

\* reserveScript: INCRBY, EXPIRE, GET.
Reserve(r) == reserved' = reserved + req[r].need

\* Mutant: a release deletes the key.
ReleaseAll(amount) == reserved' = 0

\* releaseScript: DECRBY, and DEL when nothing is left.
Release(amount) == reserved' = IF reserved > amount THEN reserved - amount ELSE 0

\* Mutant: the counter has no expiry.
NoExpiry == FALSE

\* The key expires two intervals after the last Reserve.
Expires == reserved > 0

\* What the counter forgets while a request still counts on it.
Expire ==
    /\ Expires
    /\ reserved' = 0
    /\ excuses' = IF Ended = Requests THEN excuses ELSE excuses \cup {"disturbed"}
    /\ req' = [r \in Requests |-> [req[r] EXCEPT !.holds = 0]]
    /\ UNCHANGED <<balance, chargeVars, session, overdrawn, boundVars>>

-----------------------------------------------------------------------------
(* The gate. *)

\* Policy, snapshot, acknowledgement: an error ends the request before the gate.
Refused(r) ==
    /\ At(r, "new")
    /\ req' = [req EXCEPT ![r].pc = "done"]
    /\ UNCHANGED <<balance, chargeVars, reserved, session, excuses, overdrawn, boundVars>>

\* A start of a sandbox that is billed already passes the gate by.
SkipGate(r) ==
    /\ At(r, "new") /\ r \in Starts /\ session
    /\ req' = [req EXCEPT ![r].pc = "forward"]
    /\ UNCHANGED <<balance, chargeVars, reserved, session, excuses, overdrawn, boundVars>>

\* HeldDebt and QueuedPending: charges the settler holds are in neither.
SeenDebt == queue + held

\* outstandingDebt.  The spec of a start, from Daytona, is nothing when the
\* lookup fails.
ReadDebt(r) ==
    /\ At(r, "new") /\ ~(r \in Starts /\ session)
    /\ \/ /\ UNCHANGED <<excuses, mishaps>>
          /\ req' = [req EXCEPT ![r].pc = "debt", ![r].need = Cost(r),
                                ![r].debt = SeenDebt, ![r].unseen = flight]
       \/ /\ Mishap /\ r \in Starts
          /\ excuses' = excuses \cup {"blind"}
          /\ req' = [req EXCEPT ![r].pc = "debt", ![r].debt = SeenDebt, ![r].unseen = flight]
       \/ /\ Mishap                      \* Redis fails: no debt
          /\ excuses' = excuses \cup {"blind"}
          /\ req' = [req EXCEPT ![r].pc = "debt", ![r].need = Cost(r), ![r].unseen = flight]
    /\ UNCHANGED <<balance, chargeVars, reserved, session, overdrawn, deposits, accruals>>

\* GetBalance; on an error the request ends.
ReadBalance(r) ==
    /\ At(r, "debt")
    /\ \/ /\ req' = [req EXCEPT ![r].pc = "funds", ![r].funds = balance]
          /\ excuses' = IF req[r].unseen > 0 THEN excuses \cup {"blind"} ELSE excuses
          /\ UNCHANGED mishaps
       \/ Mishap /\ req' = [req EXCEPT ![r] = Over(r, 0)] /\ UNCHANGED excuses
    /\ UNCHANGED <<balance, chargeVars, reserved, session, overdrawn, deposits, accruals>>

\* Mutant: the counter is read before it is raised.
TotalBefore(r) == reserved

\* What the script returns: the counter with this request in it.
TotalSeen(r) == reserved + req[r].need

\* Reserve first; without Redis the counter is read as well as can be.
Judge(r) ==
    /\ At(r, "funds")
    /\ \/ /\ Reserve(r)
          /\ req' = [req EXCEPT ![r].pc = "judge", ![r].total = TotalSeen(r), ![r].mine = TRUE,
                                ![r].holds = req[r].need]
          /\ UNCHANGED <<excuses, mishaps>>
       \/ /\ Mishap
          /\ \E seen \in {reserved, 0} :
                req' = [req EXCEPT ![r].pc = "judge", ![r].total = seen + req[r].need]
          /\ excuses' = excuses \cup {"disturbed"}
          /\ UNCHANGED reserved
    /\ UNCHANGED <<balance, chargeVars, session, overdrawn, deposits, accruals>>

Shortfall(r) == req[r].funds - req[r].debt - req[r].total

\* Everything the user is committed to once r is let in.
Admitted(q) == req[q].pc \in {"checks", "forward", "hook"}
ToCharge(r) == {q \in Requests : (Admitted(q) \/ q = r) /\ (q \in Creates \/ ~session)}
Committed(r) ==
    queue + flight + held + SumFunctionOnSet([q \in Requests |-> Cost(q)], ToCharge(r))

RecordAdmission(r) ==
    overdrawn' = CASE Committed(r) <= balance -> overdrawn
                   [] Committed(r) > balance /\ excuses = {} -> "unexcused"
                   [] Committed(r) > balance /\ excuses # {} -> "excused"

Admit(r) ==
    /\ At(r, "judge") /\ Shortfall(r) >= 0
    /\ req' = [req EXCEPT ![r] = Past(r, IF r \in Creates THEN "checks" ELSE "forward")]
    /\ RecordAdmission(r)
    /\ UNCHANGED <<balance, chargeVars, reserved, session, excuses, boundVars>>

\* The broker is asked to fund the account and answers; then only the balance is
\* read again, not the debt.
AskBroker(r) ==
    /\ At(r, "judge") /\ Shortfall(r) < 0 /\ BrokerEnabled
    /\ req' = [req EXCEPT ![r].pc = "asked"]
    /\ UNCHANGED <<balance, chargeVars, reserved, session, excuses, overdrawn, boundVars>>

ReadBalanceAgain(r) ==
    /\ At(r, "asked")
    /\ req' = [req EXCEPT ![r].pc = "rejudge", ![r].funds = balance]
    /\ excuses' = IF req[r].missed # {} \/ queue + flight + held > req[r].debt
                  THEN excuses \cup {"blind"} ELSE excuses
    /\ UNCHANGED <<balance, chargeVars, reserved, session, overdrawn, boundVars>>

AdmitFunded(r) ==
    /\ At(r, "rejudge") /\ Shortfall(r) >= 0
    /\ req' = [req EXCEPT ![r] = Past(r, IF r \in Creates THEN "checks" ELSE "forward")]
    /\ RecordAdmission(r)
    /\ UNCHANGED <<balance, chargeVars, reserved, session, excuses, boundVars>>

\* The end of a request that gives its reservation back, if it has one.
GiveBack(r) ==
    /\ IF req[r].mine THEN Release(req[r].need) ELSE UNCHANGED reserved
    /\ req' = [req EXCEPT ![r] = Over(r, 0)]

\* The end of one that does not: a return without a release, or a release with
\* the context of a client that has gone.
Leak(r) == req' = [req EXCEPT ![r] = Over(r, req[r].holds)] /\ UNCHANGED reserved

\* 402, or 502 when the second look at the balance fails.
TurnDown(r) ==
    /\ \/ At(r, "judge") /\ Shortfall(r) < 0 /\ ~BrokerEnabled
       \/ At(r, "asked")
       \/ At(r, "rejudge") /\ Shortfall(r) < 0
    /\ GiveBack(r) \/ Leak(r)
    /\ UNCHANGED <<balance, chargeVars, session, excuses, overdrawn, boundVars>>

-----------------------------------------------------------------------------
(* After the gate. *)

\* Ports, sealing, image, owner: some errors release, some do not.
ChecksFail(r) ==
    /\ At(r, "checks")
    /\ GiveBack(r) \/ Leak(r)
    /\ UNCHANGED <<balance, chargeVars, session, excuses, overdrawn, boundVars>>

ChecksPass(r) ==
    /\ At(r, "checks")
    /\ req' = [req EXCEPT ![r].pc = "forward"]
    /\ UNCHANGED <<balance, chargeVars, reserved, session, excuses, overdrawn, boundVars>>

\* Daytona answers 2xx and the billing hook runs in a goroutine.
Forwarded(r) ==
    /\ At(r, "forward")
    /\ req' = [req EXCEPT ![r].pc = "hook"]
    /\ UNCHANGED <<balance, chargeVars, reserved, session, excuses, overdrawn, boundVars>>

\* An error, or an answer without an id; a sandbox without its ports is stopped
\* and its reservation left.
ForwardFails(r) ==
    /\ At(r, "forward")
    /\ GiveBack(r) \/ (r \in Creates /\ Leak(r))
    /\ UNCHANGED <<balance, chargeVars, session, excuses, overdrawn, boundVars>>

\* OnStart finds a session and returns.
HookNothingToDo(r) ==
    /\ At(r, "hook") /\ r \in Starts /\ session
    /\ Leak(r)
    /\ UNCHANGED <<balance, chargeVars, session, excuses, overdrawn, boundVars>>

\* A charge goes into the queue where requests between their two reads miss it.
Charge(r) ==
    /\ At(r, "hook") /\ ~(r \in Starts /\ session)
    /\ queue' = queue + Cost(r)
    /\ session' = (session \/ r \in Starts)
    /\ req' = [q \in Requests |->
                 IF q = r THEN [req[r] EXCEPT !.pc = "charged"]
                 ELSE [req[q] EXCEPT !.missed = IF Between(q) THEN @ \cup {r} ELSE @]]
    /\ excuses' = IF req[r].holds < Cost(r) /\ \E q \in Requests : Gated(q)
                  THEN excuses \cup {"blind"} ELSE excuses
    /\ UNCHANGED <<balance, flight, held, reserved, overdrawn, boundVars>>

\* The enqueue fails: OnCreate goes on, OnStart returns.
ChargeFails(r) ==
    /\ At(r, "hook") /\ ~(r \in Starts /\ session) /\ Mishap
    /\ \/ r \in Creates /\ req' = [req EXCEPT ![r].pc = "charged"]
       \/ r \in Starts /\ req' = [req EXCEPT ![r] = Over(r, req[r].holds)]
    /\ UNCHANGED <<balance, chargeVars, reserved, session, excuses, overdrawn, deposits,
                   accruals>>

\* The hook's release: of the whole cost, whatever the request had reserved.
HookRelease(r) ==
    /\ At(r, "charged")
    /\ Release(Cost(r))
    /\ req' = [req EXCEPT ![r] = Over(r, 0)]
    /\ excuses' = excuses
          \cup (IF \E q \in Requests : Between(q) /\ r \in req[q].missed
                THEN {"blind"} ELSE {})
          \cup (IF req[r].holds < Cost(r) THEN {"disturbed"} ELSE {})
    /\ UNCHANGED <<balance, chargeVars, session, overdrawn, boundVars>>

-----------------------------------------------------------------------------
(* The rest of the system. *)

\* The generator queues a period of a sandbox that is already running.
Accrue ==
    /\ accruals < MaxAccruals /\ accruals' = accruals + 1
    /\ queue' = queue + 1
    /\ excuses' = IF \E q \in Requests : Gated(q)
                  THEN excuses \cup {"blind"} ELSE excuses
    /\ UNCHANGED <<balance, flight, held, reserved, session, req, overdrawn, deposits, mishaps>>

\* ensure-billing opens the session of the existing sandbox and queues a period.
EnsureBilling ==
    /\ ~session /\ session' = TRUE
    /\ accruals < MaxAccruals /\ accruals' = accruals + 1
    /\ queue' = queue + StartCost
    /\ excuses' = IF \E q \in Requests : Gated(q) THEN excuses \cup {"blind"} ELSE excuses
    /\ UNCHANGED <<balance, flight, held, reserved, req, overdrawn, deposits, mishaps>>

\* The owner stops the sandbox; a start that found its session open is under way.
CloseSession ==
    /\ session /\ session' = FALSE
    /\ accruals < MaxAccruals /\ accruals' = accruals + 1
    /\ excuses' = IF \E q \in Starts : Admitted(q) /\ ~req[q].mine
                  THEN excuses \cup {"blind"} ELSE excuses
    /\ UNCHANGED <<balance, chargeVars, reserved, req, overdrawn, deposits, mishaps>>

\* The settler takes the queue; the transaction debits the account or, when that
\* does not cover it, the charges are parked.
Pop ==
    /\ queue > 0 /\ flight = 0
    /\ flight' = queue /\ queue' = 0
    /\ UNCHANGED <<balance, held, reserved, session, req, excuses, overdrawn, boundVars>>

Land ==
    /\ flight > 0 /\ flight <= balance
    /\ balance' = balance - flight /\ flight' = 0
    /\ req' = [r \in Requests |-> IF At(r, "debt") THEN [req[r] EXCEPT !.unseen = 0] ELSE req[r]]
    /\ UNCHANGED <<queue, held, reserved, session, excuses, overdrawn, boundVars>>

\* A request that read the held list before stays blind to what is parked now.
Park ==
    /\ flight > balance
    /\ held' = held + flight /\ flight' = 0
    /\ excuses' = IF \E r \in Requests : At(r, "debt") /\ req[r].unseen > 0
                  THEN excuses \cup {"blind"} ELSE excuses
    /\ UNCHANGED <<balance, queue, reserved, session, req, overdrawn, boundVars>>

Deposit ==
    /\ deposits < MaxDeposits /\ deposits' = deposits + 1
    /\ balance' = balance + 1
    /\ UNCHANGED <<chargeVars, reserved, session, req, excuses, overdrawn, accruals, mishaps>>

\* The process dies with its requests and hooks; the counter stays.
Crash ==
    /\ Mishap
    /\ Ended # Requests
    /\ req' = [r \in Requests |-> IF r \in Ended THEN req[r] ELSE Over(r, req[r].holds)]
    /\ UNCHANGED <<balance, chargeVars, reserved, session, excuses, overdrawn, deposits, accruals>>

RequestStep(r) ==
    \/ Refused(r) \/ SkipGate(r) \/ ReadDebt(r) \/ ReadBalance(r) \/ Judge(r)
    \/ Admit(r) \/ AskBroker(r) \/ ReadBalanceAgain(r) \/ AdmitFunded(r) \/ TurnDown(r)
    \/ ChecksFail(r) \/ ChecksPass(r) \/ Forwarded(r) \/ ForwardFails(r)
    \/ HookNothingToDo(r) \/ Charge(r) \/ ChargeFails(r) \/ HookRelease(r)

Next ==
    \/ \E r \in Requests : RequestStep(r)
    \/ Expire \/ Accrue \/ EnsureBilling \/ CloseSession \/ Pop \/ Land \/ Park \/ Deposit \/ Crash

Fairness == WF_vars(Expire) /\ \A r \in Requests : WF_vars(RequestStep(r))

Spec == Init /\ [][Next]_vars /\ Fairness

-----------------------------------------------------------------------------
(* Properties. *)

\* The values the variables may have: no counter is ever negative.
TypeOK ==
    /\ balance \in Nat /\ queue \in Nat /\ flight \in Nat /\ held \in Nat /\ reserved \in Nat
    /\ session \in BOOLEAN /\ overdrawn \in {"no", "excused", "unexcused"}
    /\ excuses \subseteq {"blind", "disturbed"}
    /\ \A r \in Requests :
           req[r].pc \in {"new", "debt", "funds", "judge", "asked", "rejudge", "checks",
                          "forward", "hook", "charged", "done"}

\* A request is let in beyond the balance only for a reason the gate is known not
\* to cover: the debt changed after it was read, charges were with the settler, the
\* counter expired under a slow request, or a call failed.  Concurrent requests
\* alone are never let in together on a balance that covers one of them.
NeverOverdrawnUnexcused == overdrawn # "unexcused"

\* "Under any interleaving, request k sees k x required reserved and judges
\* accordingly": as long as the counter is not disturbed, no request is let in beyond
\* the balance.
SeesEveryReservation == "disturbed" \notin excuses => overdrawn = "no"

\* As long as nothing expired or failed, the counter is the sum of what the
\* requests added to it and have not given back: no request gives back what it
\* did not reserve, or twice.
CounterIsSum ==
    "disturbed" \notin excuses =>
        reserved = SumFunction([r \in Requests |-> req[r].holds])

\* A reservation left behind by a crash or by a return without a release goes away.
Drains == <>[](Ended = Requests) => <>[](reserved = 0)

=============================================================================
