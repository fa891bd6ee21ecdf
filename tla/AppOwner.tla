------------------------------- MODULE AppOwner ------------------------------
(***************************************************************************)
(* Who is an admin: the cached resolver of the app's owner in TappRegistry *)
(* (newAppOwnerResolver in cmd/billing) behind Handler.isAdmin.  Requests  *)
(* queue for the resolver's mutex; the one that holds it answers from the  *)
(* cache or asks the chain, which may fail or take up to CallTime.  All    *)
(* times are relative: how long ago, saturating where nothing compares     *)
(* beyond.                                                                 *)
(***************************************************************************)
EXTENDS Naturals

CONSTANTS Wallets, Nobody,
          Static,        \* ADMIN_ADDRESSES
          Ttl,           \* appOwnerTTL
          RetryEvery,    \* appOwnerRetryEvery
          StaleCap,      \* appOwnerStaleCap
          CallTime,      \* isAdmin's timeout of one lookup
          MaxTransfers,  \* bound on changes of the owner
          MaxFailures    \* bound on failing lookups

VARIABLES owner,         \* the registry's owner of the app
          since,         \* how long each wallet has been the owner, or not
          cached, age,   \* the last owner fetched, and how long ago
          failed, tried, \* whether the last lookup failed, and how long ago it ended
          asking,        \* requests: "no", "queued", "fetching"
          call,          \* the lookup under way: [elapsed, read]
          verdict,       \* the answer last given to each wallet
          transfers, failures

vars == <<owner, since, cached, age, failed, tried, asking, call, verdict, transfers, failures>>

Horizon == StaleCap + CallTime + 1
Up(t, cap) == IF t < cap THEN t + 1 ELSE t
NoCall == [elapsed |-> 0, read |-> FALSE, owner |-> Nobody]

Init ==
    /\ owner \in Wallets
    /\ since = [w \in Wallets |-> Horizon]
    /\ cached = Nobody /\ age = StaleCap
    /\ failed = FALSE /\ tried = RetryEvery
    /\ asking = [w \in Wallets |-> "no"]
    /\ call = NoCall
    /\ verdict = [w \in Wallets |-> "none"]
    /\ transfers = 0 /\ failures = 0

Holder(w) == asking[w] = "fetching"
Free == \A w \in Wallets : ~Holder(w)

\* The registry: the app is transferred, or removed (Nobody).
Transfer(o) ==
    /\ o # owner /\ transfers < MaxTransfers
    /\ transfers' = transfers + 1
    /\ since' = [w \in Wallets |-> IF w \in {owner, o} THEN 0 ELSE since[w]]
    /\ owner' = o
    /\ UNCHANGED <<cached, age, failed, tried, asking, call, verdict, failures>>

\* A lookup's context ends after CallTime, so time does not pass beyond it.
Tick ==
    /\ ~Free => call.elapsed < CallTime
    /\ since' = [w \in Wallets |-> Up(since[w], Horizon)]
    /\ age' = Up(age, StaleCap)
    /\ tried' = Up(tried, RetryEvery)
    /\ call' = IF Free THEN call ELSE [call EXCEPT !.elapsed = @ + 1]
    /\ verdict' = [w \in Wallets |-> "none"]
    /\ UNCHANGED <<owner, cached, failed, asking, transfers, failures>>

-----------------------------------------------------------------------------
Ask(w) ==
    /\ asking[w] = "no"
    /\ asking' = [asking EXCEPT ![w] = "queued"]
    /\ verdict' = [verdict EXCEPT ![w] = "none"]
    /\ UNCHANGED <<owner, since, cached, age, failed, tried, call, transfers, failures>>

\* isAdmin: a static admin, or the owner the resolver returned.  An error counts
\* as another owner.
Answer(w, o) ==
    /\ verdict' = [verdict EXCEPT ![w] = IF w \in Static \/ w = o THEN "admin" ELSE "refused"]
    /\ asking' = [asking EXCEPT ![w] = "no"]

FreshUpToCap == cached # Nobody /\ age < StaleCap
Fresh == cached # Nobody /\ age < Ttl
StaleOrNobody == IF cached # Nobody /\ age < StaleCap THEN cached ELSE Nobody

\* The cache answers, or the last failure does for a while (negative caching).
FromCache(w) ==
    /\ asking[w] = "queued" /\ Free
    /\ IF Fresh THEN Answer(w, cached)
       ELSE failed /\ tried < RetryEvery /\ Answer(w, StaleOrNobody)
    /\ UNCHANGED <<owner, since, cached, age, failed, tried, call, transfers, failures>>

BeginLookup(w) ==
    /\ asking[w] = "queued" /\ Free
    /\ ~Fresh
    /\ failed => tried >= RetryEvery
    /\ asking' = [asking EXCEPT ![w] = "fetching"]
    /\ call' = NoCall
    /\ UNCHANGED <<owner, since, cached, age, failed, tried, verdict, transfers, failures>>

\* The node behind the RPC reads the registry at some moment of the call.
NodeReads ==
    /\ ~Free /\ ~call.read
    /\ call' = [call EXCEPT !.read = TRUE, !.owner = owner]
    /\ UNCHANGED <<owner, since, cached, age, failed, tried, asking, verdict, transfers, failures>>

\* An app without an owner is an error to the caller and leaves the cache alone.
LookupReturns(w) ==
    /\ Holder(w) /\ call.read
    /\ tried' = 0 /\ failed' = FALSE
    /\ cached' = IF call.owner = Nobody THEN cached ELSE call.owner
    /\ age' = IF call.owner = Nobody THEN age ELSE 0
    /\ Answer(w, call.owner)
    /\ call' = NoCall
    /\ UNCHANGED <<owner, since, transfers, failures>>

\* The value served while lookups fail.
ServedOnFailureUncapped == cached
ServedOnFailure == StaleOrNobody

LookupFails(w) ==
    /\ Holder(w)
    /\ call.elapsed = CallTime \/ failures < MaxFailures
    /\ failures' = Up(failures, MaxFailures)
    /\ tried' = 0 /\ failed' = TRUE
    /\ Answer(w, ServedOnFailure)
    /\ call' = NoCall
    /\ UNCHANGED <<owner, since, cached, age, transfers>>

Resolving == \E w \in Wallets :
    FromCache(w) \/ BeginLookup(w) \/ LookupReturns(w) \/ LookupFails(w)

Next ==
    \/ Tick \/ NodeReads \/ Resolving
    \/ \E o \in Wallets \cup {Nobody} : Transfer(o)
    \/ \E w \in Wallets : Ask(w)

Spec == Init /\ [][Next]_vars

\* The constants as newAppOwnerResolver has them: a cached owner is served without
\* a lookup for no longer than while lookups fail, and failures are spaced.
Tuning ==
    /\ Nobody \notin Wallets
    /\ Ttl \in Nat /\ StaleCap \in Nat /\ Ttl <= StaleCap
    /\ RetryEvery \in Nat \ {0} /\ CallTime \in Nat

-----------------------------------------------------------------------------
TypeOK ==
    /\ owner \in Wallets \cup {Nobody} /\ cached \in Wallets \cup {Nobody}
    /\ since \in [Wallets -> 0..Horizon]
    /\ age \in 0..StaleCap /\ tried \in 0..RetryEvery
    /\ asking \in [Wallets -> {"no", "queued", "fetching"}]
    /\ call \in [elapsed : 0..CallTime, read : BOOLEAN, owner : Wallets \cup {Nobody}]
    /\ verdict \in [Wallets -> {"none", "admin", "refused"}]

\* A wallet that lost the app is an admin no longer than the stale cap and one
\* lookup, however long the RPC fails (the caps of newAppOwnerResolver).
ExOwnerBounded ==
    \A w \in Wallets \ Static :
        verdict[w] = "admin" /\ w # owner => since[w] <= StaleCap + CallTime

\* The owner is refused only while its ownership is younger than the TTL and one
\* lookup, or while lookups fail (stale over fail-closed, then fail closed).
OwnerNotLockedOut ==
    \A w \in Wallets :
        verdict[w] = "refused" /\ w = owner => since[w] <= Ttl + CallTime \/ failed

\* The owner keeps the administrator's rights through a failing node, and a
\* former owner keeps them for a bounded time only (the stale window).
OwnerWindow == OwnerNotLockedOut /\ ExOwnerBounded
=============================================================================
