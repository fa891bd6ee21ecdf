--------------------------- MODULE AttestorIdentity --------------------------
(***************************************************************************)
(* The attestor app as the provider knows it: the identity discovered      *)
(* through the local tapp and cached for its lease (cmd/billing/           *)
(* attestor.go, internal/tee/identity.go), the registration instance it is *)
(* authorized under, kept in Redis, and the signed statement of its TLS    *)
(* pins (internal/proxy/attestortls.go).  Two callers resolve the identity *)
(* concurrently and share one lookup: the admin check and the statement's  *)
(* refresh.  Leases are counted down.                                      *)
(***************************************************************************)
EXTENDS Naturals, FiniteSetsExt

CONSTANTS Owners, Signers, None,
          Lease,         \* longest observation of a node, and of a statement
          RefreshAhead, ServeMargin,
          RetryInterval, \* least time between two refreshes
          MaxEpoch,      \* bound on registrations
          MaxMoves,      \* bound on transfers, removals and restarts
          MaxFailures    \* bound on failing calls

VARIABLES instance,      \* the registry: [at, owner] of the attestor app, or None
          epoch,         \* the latest registration time
          setting,       \* ATTESTOR_INSTANCE, or None
          stored,        \* the instance in Redis, or None
          identity,      \* the cached discovery, or None
          lookup,        \* the shared lookup: [running, at, min]
          callers,       \* "admin" and "refresh": where each is in Current
          statement,     \* the signed statement served, or None
          tried,         \* how long ago the last refresh began
          waiting,       \* a request that waits for the running refresh: "no", "yes", "woken"
          moves, failures

registry == <<instance, epoch>>
vars == <<registry, setting, stored, identity, lookup, callers, statement, tried,
          waiting, moves, failures>>

Instances == [at : 1..MaxEpoch, owner : Owners]
Callers == {"admin", "refresh"}
MinLease(c) == IF c = "refresh" THEN RefreshAhead ELSE 0
Idle == [pc |-> "idle", found |-> None, live |-> None]
NoLookup == [running |-> FALSE, at |-> 0, min |-> 0]

Init ==
    /\ instance = None /\ epoch = 0
    /\ setting = None /\ stored = None
    /\ identity = None
    /\ lookup = NoLookup
    /\ callers = [c \in Callers |-> Idle]
    /\ statement = None
    /\ tried = RetryInterval
    /\ waiting = "no"
    /\ moves = 0 /\ failures = 0

-----------------------------------------------------------------------------
(* TappRegistry, the clock and the operator. *)

Register(o) ==
    /\ instance = None /\ epoch < MaxEpoch
    /\ epoch' = epoch + 1
    /\ instance' = [at |-> epoch', owner |-> o]
    /\ UNCHANGED <<setting, stored, identity, lookup, callers, statement, tried, waiting, moves, failures>>

TransferOrRemove ==
    /\ instance # None /\ moves < MaxMoves
    /\ moves' = moves + 1
    /\ instance' \in {[instance EXCEPT !.owner = o] : o \in Owners \ {instance.owner}} \cup {None}
    /\ UNCHANGED <<epoch, setting, stored, identity, lookup, callers, statement, tried, waiting, failures>>

Aged(i) == IF i = None THEN None
           ELSE [i EXCEPT !.left = IF @ > 0 THEN @ - 1 ELSE 0,
                          !.shortest = IF @ > 0 THEN @ - 1 ELSE 0]

Tick ==
    /\ identity' = Aged(identity)
    /\ statement' = Aged(statement)
    /\ callers' = [c \in Callers |-> [callers[c] EXCEPT !.found = Aged(@)]]
    /\ tried' = IF tried < RetryInterval THEN tried + 1 ELSE tried
    /\ UNCHANGED <<registry, setting, stored, lookup, waiting, moves, failures>>

\* A restart with or without ATTESTOR_INSTANCE; storeAuthorized keeps what it names.
Restart(named) ==
    /\ moves < MaxMoves
    /\ moves' = moves + 1
    /\ setting' = named
    /\ stored' = IF named = None THEN stored ELSE named
    /\ identity' = None /\ statement' = None
    /\ lookup' = NoLookup /\ callers' = [c \in Callers |-> Idle]
    /\ tried' = RetryInterval /\ waiting' = "no"
    /\ UNCHANGED <<registry, failures>>

-----------------------------------------------------------------------------
(* attestorIdentity.Current *)

Fails == failures < MaxFailures /\ failures' = failures + 1

CachedFor(c) == identity # None /\ identity.left > MinLease(c)

Judging(i) == [pc |-> "judging", found |-> i, live |-> None]

\* discovered: the cache first.
Discover(c) ==
    /\ callers[c].pc = "asked"
    /\ callers' = [callers EXCEPT ![c] = IF CachedFor(c) THEN Judging(identity) ELSE [@ EXCEPT !.pc = "missed"]]
    /\ UNCHANGED <<registry, setting, stored, identity, lookup, statement, tried, waiting, moves, failures>>

\* The shared lookup, joined or begun.
Join(c) ==
    /\ callers[c].pc = "missed"
    /\ callers' = [callers EXCEPT ![c].pc = "looking"]
    /\ lookup' = IF lookup.running THEN lookup
                 ELSE [running |-> TRUE, at |-> IF instance = None THEN 0 ELSE instance.at, min |-> MinLease(c)]
    /\ UNCHANGED <<registry, setting, stored, identity, statement, tried, waiting, moves, failures>>

\* What tapp may report: per node its signer, if it has one yet, and how long
\* the observation is still valid.
Observations == [signer : Signers \cup {None}, left : 0..Lease]

Ready(nodes) == {n \in nodes : n.signer # None}

\* appIdentityFromResponse
Acceptable(nodes) ==
    /\ \A n \in nodes : n.left > 0
    /\ \E s \in Signers : {n.signer : n \in Ready(nodes)} = {s}
Responses == {nodes \in {{n, m} : n, m \in Observations} : Acceptable(nodes)}

LeaseOfLongest(nodes) == Max({n.left : n \in Ready(nodes)})
LeaseOf(nodes) == Min({n.left : n \in Ready(nodes)})
FromResponse(nodes, at) ==
    [at |-> at, left |-> LeaseOf(nodes), shortest |-> Min({n.left : n \in Ready(nodes)})]

Looking == {c \in Callers : callers[c].pc = "looking"}

Served == identity # None /\ identity.left > lookup.min

\* Everyone who waits for the lookup gets its result.
GiveAll(i) ==
    /\ callers' = [c \in Callers |-> IF c \in Looking THEN Judging(i) ELSE callers[c]]
    /\ lookup' = NoLookup
    /\ UNCHANGED <<registry, setting, stored, statement, tried, waiting, moves, failures>>

\* A lookup that finished since its first caller looked serves this one too.
LookupFindsCached ==
    /\ lookup.running /\ Served
    /\ GiveAll(identity)
    /\ UNCHANGED identity

LookupReturns(nodes) ==
    /\ lookup.running /\ ~Served /\ lookup.at > 0
    /\ identity' = FromResponse(nodes, lookup.at)
    /\ GiveAll(identity')

\* A refresh that ends closes the channel its waiters share, whatever its outcome.
WokenOnSuccess == IF waiting = "yes" /\ statement' # statement THEN "woken" ELSE waiting
Woken == IF waiting = "yes" THEN "woken" ELSE waiting

\* Callers that have their answer.
Dismiss(cs) ==
    /\ callers' = [c \in Callers |-> IF c \in cs THEN Idle ELSE callers[c]]
    /\ waiting' = IF "refresh" \in cs THEN Woken ELSE waiting

LookupFails ==
    /\ lookup.running /\ ~Served
    /\ IF lookup.at = 0 THEN UNCHANGED failures ELSE Fails
    /\ lookup' = NoLookup
    /\ UNCHANGED <<registry, setting, stored, identity, statement, tried, moves>>
    /\ Dismiss(Looking)

\* The caller's own context ends; the lookup goes on without it.
LeaveLookup(c) ==
    /\ callers[c].pc = "looking" /\ Fails
    /\ UNCHANGED <<registry, setting, stored, identity, lookup, statement, tried, moves>>
    /\ Dismiss({c})

SameInstance(i) == instance # None /\ instance.at = i.at

\* GetAppInstance, for the identity that was found.
ReadInstance(c) ==
    /\ callers[c].pc = "judging" /\ SameInstance(callers[c].found)
    /\ callers' = [callers EXCEPT ![c].pc = "pinning", ![c].live = instance]
    /\ UNCHANGED <<registry, setting, stored, identity, lookup, statement, tried, waiting, moves, failures>>

InstanceChanged(c) ==
    /\ callers[c].pc = "judging"
    /\ IF SameInstance(callers[c].found) THEN Fails ELSE UNCHANGED failures
    /\ UNCHANGED <<registry, setting, stored, identity, lookup, statement, tried, moves>>
    /\ Dismiss({c})

\* SETNX, then GET: the first instance verified is the one kept.
KeptLatest(live) == live
Kept(live) == IF stored = None THEN live ELSE stored

Pinned == IF setting # None THEN setting ELSE stored

\* issue: the statement ends with the lease, and after Lease at most.
IssuedFor(i) == Min({i.left, Lease})

Signed(i, live) == [live |-> live, at |-> i.at, left |-> IssuedFor(i), shortest |-> i.shortest]

\* pinned, the expiry, and what the caller does with the identity.
Decide(c) ==
    /\ callers[c].pc = "pinning"
    /\ UNCHANGED <<registry, setting, identity, lookup, tried, moves, failures>>
    /\ LET i == callers[c].found  live == callers[c].live IN
       /\ stored' = IF setting # None THEN stored ELSE Kept(live)
       /\ statement' = IF c = "refresh" /\ Pinned' = live /\ i.left > 0
                       THEN Signed(i, live) ELSE statement
    /\ Dismiss({c})

-----------------------------------------------------------------------------
(* Requests. *)

\* IsAppSigner
AdminCheck ==
    /\ callers["admin"] = Idle
    /\ callers' = [callers EXCEPT !["admin"].pc = "asked"]
    /\ UNCHANGED <<registry, setting, stored, identity, lookup, statement, tried, waiting, moves, failures>>

Refreshing == callers["refresh"] # Idle

\* startRefresh
StartRefresh ==
    IF Refreshing \/ tried < RetryInterval THEN UNCHANGED <<callers, tried>>
    ELSE callers' = [callers EXCEPT !["refresh"].pc = "asked"] /\ tried' = 0

Left == IF statement = None THEN 0 ELSE statement.left

\* GET /api/attestor-tls while the statement has time left: served at once.
Serve ==
    /\ Left > ServeMargin
    /\ IF Left > RefreshAhead THEN UNCHANGED <<callers, tried>> ELSE StartRefresh
    /\ UNCHANGED <<registry, setting, stored, identity, lookup, statement, waiting, moves, failures>>

\* Otherwise the request waits for a running refresh, unless the limiter refuses
\* it, in which case it is answered at once from what there is.
Wait ==
    /\ Left <= ServeMargin /\ waiting = "no"
    /\ StartRefresh
    /\ waiting' \in IF callers'["refresh"] = Idle THEN {"no"} ELSE {"no", "yes"}
    /\ UNCHANGED <<registry, setting, stored, identity, lookup, statement, moves, failures>>

\* The request goes on when it is woken, or when its client leaves.
StopWaiting ==
    /\ waiting = "woken"
    /\ waiting' = "no"
    /\ UNCHANGED <<registry, setting, stored, identity, lookup, callers, statement, tried, moves, failures>>

ClientLeaves ==
    /\ waiting = "yes"
    /\ waiting' = "no"
    /\ UNCHANGED <<registry, setting, stored, identity, lookup, callers, statement, tried, moves, failures>>

Resolving(c) == Discover(c) \/ Join(c) \/ ReadInstance(c) \/ InstanceChanged(c) \/ Decide(c)
Answering ==
    \/ LookupFindsCached \/ LookupFails
    \/ \E nodes \in Responses : LookupReturns(nodes)

Next ==
    \/ TransferOrRemove \/ Tick \/ AdminCheck \/ Serve \/ Wait \/ StopWaiting \/ ClientLeaves
    \/ \E c \in Callers : Resolving(c) \/ LeaveLookup(c)
    \/ Answering
    \/ \E o \in Owners : Register(o)
    \/ \E named \in Instances \cup {None} : Restart(named)

Spec == Init /\ [][Next]_vars
FairSpec ==
    /\ Spec
    /\ \A c \in Callers : WF_vars(Resolving(c))
    /\ WF_vars(Answering) /\ WF_vars(StopWaiting)

-----------------------------------------------------------------------------
Identities == [at : 1..MaxEpoch, left : 0..Lease, shortest : 0..Lease]

TypeOK ==
    /\ instance \in Instances \cup {None} /\ setting \in Instances \cup {None}
    /\ stored \in Instances \cup {None}
    /\ identity \in Identities \cup {None}
    /\ lookup \in [running : BOOLEAN, at : 0..MaxEpoch, min : 0..RefreshAhead]
    /\ callers \in [Callers -> [pc : {"idle", "asked", "missed", "looking", "judging", "pinning"},
                                found : Identities \cup {None}, live : Instances \cup {None}]]
    /\ statement \in [live : Instances, at : 1..MaxEpoch, left : 0..Lease, shortest : 0..Lease] \cup {None}
    /\ tried \in 0..RetryInterval
    /\ waiting \in {"no", "yes", "woken"}

\* The statement served names pins discovered for the authorized registration:
\* neither a transfer nor a new registration under the same name moves the
\* authorization, only ATTESTOR_INSTANCE does (pinned, storeAuthorized, Current).
AuthorizedInstance ==
    statement # None => statement.live = Pinned /\ statement.at = statement.live.at

\* No statement outlives the observation of any node whose pin it names, through
\* the response, the cached identity and the signing (ExpiresAt).
WithinLease == statement # None => statement.left <= statement.shortest

\* A request that waits for a refresh is answered: refreshes end, and end for
\* everyone who waits, whether they succeed or not.
WaiterAnswered == []<>(waiting = "no")
=============================================================================
