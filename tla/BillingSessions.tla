-------------------------- MODULE BillingSessions --------------------------
(***************************************************************************)
(* Billing sessions: the hash billing:compute:<id> of every sandbox that   *)
(* is metered, the hooks that open and delete it (OnCreate, OnStart,       *)
(* EnsureSession, OnStop, OnArchive, OnDelete), each a goroutine of its    *)
(* own, and the voucher generator, which scans the sessions, asks Daytona  *)
(* which sandboxes exist and bills every period that is due.               *)
(*                                                                         *)
(* A step is one Redis command or one Daytona call.  Time counts seconds.  *)
(* A voucher for a period is recorded in billed, second by second; prices, *)
(* the create fee, which covers no period, and the release of the          *)
(* reservation are left out.                                               *)
(***************************************************************************)
EXTENDS Integers, FiniteSets

CONSTANTS
    Sandboxes,
    Nameless,            \* the id of a session hash that has no sandbox_id
    Interval,            \* voucherIntervalSec
    ChunkIntervals,      \* catchupChunkIntervals
    VouchersPerTick,     \* catchupMaxVouchersPerTick
    SkipsBeforeConfirm,  \* phantomSkipsBeforeConfirm
    Downtime,            \* how long the process was down before time 0
    MaxTime, MaxRequests, MaxMishaps    \* bounds; a mishap is a failed call or a crash

ASSUME IntervalAssumption == Interval \in Nat \ {0}
ASSUME TuningAssumption ==
    ChunkIntervals \in Nat \ {0} /\ VouchersPerTick \in Nat \ {0} /\ SkipsBeforeConfirm \in Nat \ {0}
ASSUME NamelessAssumption == Nameless \notin Sandboxes
ASSUME BoundsAssumption ==
    Downtime \in Nat /\ MaxTime \in Nat /\ MaxRequests \in Nat /\ MaxMishaps \in Nat

VARIABLES
    sandbox,         \* Daytona: the state of each sandbox
    sessions,        \* Redis: [key, id, next, from]; from is history, the opening
    hooks,           \* goroutines: [sb, kind, pc, next, from]
    gen, skips,      \* the generator, and its count of absences per id
    now,
    billed,          \* history: vouchers covering each second, counted up to 2
    reopened,        \* history: sandboxes whose session was opened anew
    raced,           \* history: sandboxes with two opening hooks at the same time
    unrecorded,      \* history: sandboxes with a voucher queued and not recorded
    requests, mishaps    \* spent bounds

boundVars == <<requests, mishaps>>
causes == <<reopened, raced, unrecorded>>
histVars == <<billed, causes>>
vars == <<sandbox, sessions, hooks, gen, skips, now, histVars, boundVars>>

Ids == Sandboxes \cup {Nameless}
Seconds == (-Downtime)..(MaxTime + Interval)
Down == [pc |-> "idle", todo |-> {}, live |-> {}, unknown |-> FALSE, at |-> 0,
         id |-> Nameless, start |-> 0, left |-> 0, count |-> 0]
NoSkips == [k \in Ids |-> 0]

\* The process comes up: sandboxes that run have sessions as old as the downtime.
Init ==
    /\ sandbox \in [Sandboxes -> {"none", "running"}]
    /\ sessions = {[key |-> s, id |-> s, next |-> -Downtime, from |-> -Downtime] :
                     s \in {r \in Sandboxes : sandbox[r] = "running"}}
    /\ hooks = {} /\ gen = Down /\ skips = NoSkips
    /\ now = 0
    /\ billed = [s \in Sandboxes |-> [t \in Seconds |-> 0]]
    /\ reopened = {} /\ raced = {} /\ unrecorded = {}
    /\ requests = 0 /\ mishaps = 0

Failure == mishaps < MaxMishaps /\ mishaps' = mishaps + 1

-----------------------------------------------------------------------------
(* The Redis hash. *)

At(k) == {x \in sessions : x.key = k}
HasSession(k) == At(k) # {}

CreateSession(s, next, from) ==
    sessions' = (sessions \ At(s)) \cup {[key |-> s, id |-> s, next |-> next, from |-> from]}

DeleteSession(k) == sessions' = sessions \ At(k)

\* HSET of one field: on a key that is gone it makes a hash with that field only.
UpdateNextVoucherAt(k, t) ==
    sessions' = (sessions \ At(k)) \cup
                (IF HasSession(k) THEN {[x EXCEPT !.next = t] : x \in At(k)}
                 ELSE {[key |-> k, id |-> Nameless, next |-> t, from |-> t]})

\* One voucher for the seconds from start up to end goes into the queue.
Bill(s, start, end) ==
    billed' = IF s = Nameless THEN billed
              ELSE [billed EXCEPT ![s] =
                      [t \in Seconds |-> IF start <= t /\ t < end /\ @[t] < 2 THEN @[t] + 1 ELSE @[t]]]

-----------------------------------------------------------------------------
(* Requests and their hooks. *)

Request == requests < MaxRequests /\ requests' = requests + 1

Hook(s, kind, pc) == [sb |-> s, kind |-> kind, pc |-> pc, next |-> 0, from |-> IF pc = "emit" THEN now ELSE 0]
Opening(s) == \E h \in hooks : h.sb = s /\ h.kind # "close"

\* The goroutine of a request that was answered.
Spawn(s, kind, pc) ==
    /\ hooks' = hooks \cup {Hook(s, kind, pc)}
    /\ raced' = IF kind # "close" /\ Opening(s) THEN raced \cup {s} ELSE raced
    /\ UNCHANGED <<billed, reopened, unrecorded>>

\* The create answers; or its answer is lost and no hook fires.
Create(s) ==
    /\ Request
    /\ sandbox[s] = "none"
    /\ sandbox' = [sandbox EXCEPT ![s] = "running"]
    /\ \/ Spawn(s, "create", "emit") /\ UNCHANGED mishaps
       \/ Failure /\ UNCHANGED <<hooks, histVars>>
    /\ UNCHANGED <<sessions, gen, skips, now>>

Start(s) ==
    /\ Request
    /\ sandbox[s] \in {"stopped", "archived"}
    /\ sandbox' = [sandbox EXCEPT ![s] = "running"]
    /\ Spawn(s, "start", "check")
    /\ UNCHANGED <<sessions, gen, skips, now, mishaps>>

\* Stop, archive and delete: the hooks of all three delete the session.
TakeDown(s, to) ==
    /\ Request
    /\ sandbox[s] \in (CASE to = "stopped" -> {"running"}
                         [] to = "archived" -> {"stopped"}
                         [] to = "gone" -> {"running", "stopped", "archived"})
    /\ sandbox' = [sandbox EXCEPT ![s] = to]
    /\ Spawn(s, "close", "close")
    /\ UNCHANGED <<sessions, gen, skips, now, mishaps>>

\* A sandbox deleted straight through Daytona: no hook.
Vanish(s) ==
    /\ Request
    /\ sandbox[s] \in {"running", "stopped", "archived"}
    /\ sandbox' = [sandbox EXCEPT ![s] = "gone"]
    /\ UNCHANGED <<sessions, hooks, gen, skips, now, histVars, mishaps>>

\* POST ensure-billing.
Ensure(s) ==
    /\ Request
    /\ sandbox[s] \notin {"none", "gone"}
    /\ Spawn(s, "ensure", "check")
    /\ UNCHANGED <<sandbox, sessions, gen, skips, now, mishaps>>

Done(h) == hooks' = hooks \ {h}
Continue(h, pc, next, from) ==
    hooks' = (hooks \ {h}) \cup {[h EXCEPT !.pc = pc, !.next = next, !.from = from]}

\* OnStart and EnsureSession do nothing when a session exists.
CheckSession(h) ==
    /\ h.pc = "check"
    /\ IF HasSession(h.sb) THEN Done(h) /\ UNCHANGED reopened
       ELSE Continue(h, "emit", 0, now) /\ reopened' = reopened \cup {h.sb}
    /\ UNCHANGED <<sandbox, sessions, gen, skips, now, billed, raced, unrecorded, boundVars>>

\* The first period is charged in advance.
EmitFirst(h) ==
    /\ h.pc = "emit"
    /\ Bill(h.sb, h.from, h.from + Interval)
    /\ Continue(h, "open", h.from + Interval, h.from)
    /\ UNCHANGED <<sandbox, sessions, gen, skips, now, causes, boundVars>>

\* Mutant: the period counts as charged although its voucher was not queued.
NextAfterFailedEmitSkips(h) == h.from + Interval

\* What OnCreate starts from when the voucher could not be queued.
NextAfterFailedEmit(h) == h.from

\* The enqueue fails: OnStart gives up, OnCreate opens the session all the same.
EmitFirstFails(h) ==
    /\ h.pc = "emit" /\ Failure
    /\ IF h.kind = "start" THEN Done(h) ELSE Continue(h, "open", NextAfterFailedEmit(h), h.from)
    /\ UNCHANGED <<sandbox, sessions, gen, skips, now, histVars, requests>>

OpenSession(h) ==
    /\ h.pc = "open"
    /\ \/ CreateSession(h.sb, h.next, h.from) /\ UNCHANGED mishaps
       \/ Failure /\ UNCHANGED sessions
    /\ Done(h)
    /\ UNCHANGED <<sandbox, gen, skips, now, histVars, requests>>

CloseSession(h) ==
    /\ h.pc = "close"
    /\ \/ DeleteSession(h.sb) /\ UNCHANGED mishaps
       \/ Failure /\ UNCHANGED sessions
    /\ Done(h)
    /\ UNCHANGED <<sandbox, gen, skips, now, histVars, requests>>

\* handleCloseSession, the operator's tool for a session left behind.
AdminClose(s) ==
    /\ Request
    /\ HasSession(s)
    /\ DeleteSession(s)
    /\ UNCHANGED <<sandbox, hooks, gen, skips, now, histVars, mishaps>>

-----------------------------------------------------------------------------
(* The generator. *)

GenAt(pc) == gen.pc = pc

ScanAllSessions ==
    /\ GenAt("idle")
    /\ gen' = [Down EXCEPT !.pc = "list", !.todo = sessions]
    /\ UNCHANGED <<sandbox, sessions, hooks, skips, now, histVars, boundVars>>

\* BillableSandboxIDs, and the clock.
Billable == {s \in Sandboxes : sandbox[s] \in {"running", "stopped"}}

ListSandboxes ==
    /\ GenAt("list")
    /\ \/ gen' = [gen EXCEPT !.pc = "visit", !.live = Billable, !.at = now] /\ UNCHANGED mishaps
       \/ Failure /\ gen' = [gen EXCEPT !.pc = "visit", !.unknown = TRUE, !.at = now]
       \* a listing that raced a create
       \/ Failure /\ gen' = [gen EXCEPT !.pc = "visit", !.at = now]
    /\ UNCHANGED <<sandbox, sessions, hooks, skips, now, histVars, requests>>

Visited(x) == [gen EXCEPT !.todo = @ \ {x}]
NextSession == [gen EXCEPT !.pc = "visit", !.id = Nameless, !.start = 0, !.left = 0, !.count = 0]
Due(x) == x.next <= gen.at
Absent(x) == ~gen.unknown /\ x.id \notin gen.live

VisitNotDue(x) ==
    /\ GenAt("visit") /\ ~Due(x)
    /\ gen' = Visited(x)
    /\ UNCHANGED <<sandbox, sessions, hooks, skips, now, histVars, boundVars>>

\* Mutant: the lookup that could prove a sandbox gone is never believed.
ConfirmGoneNever(k) == FALSE

\* A definitive 404.  The lookup of the empty id is the listing, not a 404.
ConfirmGone(k) == k \in Sandboxes /\ sandbox[k] \in {"none", "gone"}

OneMore(n) == IF n < SkipsBeforeConfirm THEN n + 1 ELSE n

ToConfirm(x) == OneMore(skips[x.id]) >= SkipsBeforeConfirm

\* Not in the listing: not billed this tick, and counted.  The lookup, when it is
\* due, finds the sandbox or fails.
VisitAbsent(x) ==
    /\ GenAt("visit") /\ Due(x) /\ Absent(x)
    /\ IF ToConfirm(x) /\ ConfirmGone(x.id) THEN Failure ELSE UNCHANGED mishaps
    /\ skips' = [skips EXCEPT ![x.id] = OneMore(@)]
    /\ gen' = Visited(x)
    /\ UNCHANGED <<sandbox, sessions, hooks, now, histVars, requests>>

\* The sandbox is proved gone.  A failed DEL starts the count again.
ClosePhantom(x) ==
    /\ GenAt("visit") /\ Due(x) /\ Absent(x)
    /\ ToConfirm(x) /\ ConfirmGone(x.id)
    /\ \/ DeleteSession(x.id) /\ UNCHANGED mishaps
       \/ Failure /\ UNCHANGED sessions
    /\ skips' = [skips EXCEPT ![x.id] = 0]
    /\ gen' = Visited(x)
    /\ UNCHANGED <<sandbox, hooks, now, histVars, requests>>

\* Mutant: a period that starts only later counts as overdue.
OverdueOneMore(next) == (gen.at - next) \div Interval + 2

Overdue(next) == (gen.at - next) \div Interval + 1

VisitDue(x) ==
    /\ GenAt("visit") /\ Due(x) /\ ~Absent(x)
    /\ skips' = [skips EXCEPT ![x.id] = 0]
    /\ gen' = [Visited(x) EXCEPT !.pc = "emit", !.id = x.id, !.start = x.next,
                                 !.left = Overdue(x.next), !.count = 0]
    /\ UNCHANGED <<sandbox, sessions, hooks, now, histVars, boundVars>>

Chunk == IF gen.left > ChunkIntervals THEN ChunkIntervals ELSE gen.left
ChunkEnd == gen.start + Interval * Chunk

MoreToEmit == gen.left > 0 /\ gen.count < VouchersPerTick

EmitChunk ==
    /\ GenAt("emit") /\ MoreToEmit
    /\ Bill(gen.id, gen.start, ChunkEnd)
    /\ gen' = [gen EXCEPT !.pc = "update"]
    /\ UNCHANGED <<sandbox, sessions, hooks, skips, now, causes, boundVars>>

\* Mutant: the next chunk starts where this one did.
AfterChunkSameStart == [gen EXCEPT !.pc = "emit", !.left = @ - Chunk, !.count = @ + 1]

AfterChunk == [gen EXCEPT !.pc = "emit", !.start = ChunkEnd, !.left = @ - Chunk, !.count = @ + 1]

RecordChunk ==
    /\ GenAt("update")
    /\ UpdateNextVoucherAt(gen.id, ChunkEnd)
    /\ gen' = AfterChunk
    /\ UNCHANGED <<sandbox, hooks, skips, now, histVars, boundVars>>

\* A voucher that is queued and not recorded in the session is queued again.
LeftUnrecorded ==
    unrecorded' = IF GenAt("update") THEN unrecorded \cup ({gen.id} \ {Nameless}) ELSE unrecorded

\* Queueing or recording fails: the session is left for the next tick.
ChunkFails ==
    /\ (GenAt("emit") /\ MoreToEmit) \/ GenAt("update")
    /\ Failure
    /\ gen' = NextSession
    /\ LeftUnrecorded
    /\ UNCHANGED <<sandbox, sessions, hooks, skips, now, billed, reopened, raced, requests>>

CaughtUp ==
    /\ GenAt("emit") /\ ~MoreToEmit
    /\ gen' = NextSession
    /\ UNCHANGED <<sandbox, sessions, hooks, skips, now, histVars, boundVars>>

EndOfTick ==
    /\ GenAt("visit") /\ gen.todo = {}
    /\ gen' = Down
    /\ UNCHANGED <<sandbox, sessions, hooks, skips, now, histVars, boundVars>>

-----------------------------------------------------------------------------
Tick ==
    /\ now < MaxTime
    /\ now' = now + 1
    /\ UNCHANGED <<sandbox, sessions, hooks, gen, skips, histVars, boundVars>>

\* The process dies with its goroutines.
Crash ==
    /\ Failure
    /\ hooks' = {} /\ gen' = Down /\ skips' = NoSkips
    /\ LeftUnrecorded
    /\ UNCHANGED <<sandbox, sessions, now, billed, reopened, raced, requests>>

GeneratorStep ==
    \/ ScanAllSessions \/ ListSandboxes \/ EmitChunk \/ RecordChunk \/ ChunkFails
    \/ CaughtUp \/ EndOfTick
    \/ \E x \in gen.todo : VisitNotDue(x) \/ VisitAbsent(x) \/ ClosePhantom(x) \/ VisitDue(x)

HookStep ==
    \E h \in hooks : \/ CheckSession(h) \/ EmitFirst(h) \/ EmitFirstFails(h)
                     \/ OpenSession(h) \/ CloseSession(h)

Next ==
    \/ GeneratorStep \/ HookStep \/ Tick \/ Crash
    \/ \E s \in Sandboxes : \/ Create(s) \/ Start(s) \/ Vanish(s) \/ Ensure(s) \/ AdminClose(s)
                            \/ \E to \in {"stopped", "archived", "gone"} : TakeDown(s, to)

Spec == Init /\ [][Next]_vars

\* The generator's loop has a ticker and never ends; time goes on.
FairSpec == Spec /\ WF_vars(GeneratorStep) /\ WF_vars(Tick)

-----------------------------------------------------------------------------
(* Properties. *)

\* The hashes that say whose they are.
Named == {x \in sessions : x.id # Nameless}

\* One hash per key, with an id that is the key's or missing, and a generator
\* that never has more than one tick's work.
TypeOK ==
    /\ \A x \in sessions : x.key \in Ids /\ x.id \in {x.key, Nameless} /\ x.next \in Int
    /\ \A x, y \in sessions : x.key = y.key => x = y
    /\ \A h \in hooks : h.sb \in Sandboxes /\ h.pc \in {"check", "emit", "open", "close"}
    /\ gen.pc \in {"idle", "list", "visit", "emit", "update"}
    /\ gen.left \in Nat /\ gen.count \in 0..VouchersPerTick
    /\ skips \in [Ids -> 0..SkipsBeforeConfirm]

\* Nothing is given away: up to the time a session says its next period starts,
\* every second since it was opened has been billed, whatever failed, crashed
\* or ran at the same time, as long as no two hooks open the session at once
\* (OnCreate, OnStart, runGeneration).
NextIsPaid ==
    \A x \in Named : x.key \notin raced =>
        \A t \in Seconds : x.from <= t /\ t < x.next => billed[x.key][t] > 0

\* A session is never charged more than one interval ahead, also when the
\* generator catches up in chunks (emitPeriodVoucher, runGeneration).
NeverAhead == \A x \in sessions : x.next <= now + Interval

\* No second of a sandbox's first session is billed twice, unless a voucher was
\* queued and could not be recorded (OnCreate, runGeneration).
BilledOnce ==
    \A s \in Sandboxes \ (reopened \cup unrecorded) : \A t \in Seconds : billed[s][t] <= 1

\* A session of a sandbox that is gone does not stay: once it is due and the
\* generator keeps missing it, it is closed (closePhantomSession).  A session
\* that falls due only after the end of the modelled time is not counted.
PhantomClosed ==
    \A s \in Sandboxes :
        (sandbox[s] = "gone" /\ \E x \in Named : x.key = s /\ x.next <= MaxTime)
            ~> ~\E x \in Named : x.key = s /\ x.next <= MaxTime
=============================================================================
