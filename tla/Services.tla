------------------------------ MODULE Services ------------------------------
(***************************************************************************)
(* The parts that stand beside the money path: what the processes look up  *)
(* and keep about the chain, the keys and the administrators, and what     *)
(* they tell the operator.  They share no state, so interleaving them      *)
(* would add nothing: a behaviour moves one of them, and the others stay   *)
(* in one of their initial states.                                         *)
(***************************************************************************)
EXTENDS Naturals, FiniteSets

CONSTANTS
    None,
    Wallets, Static, Ttl, RetryEvery, StaleCap, CallTime, MaxTransfers, MaxLookupFailures,
    Signers, Lease, RefreshAhead, ServeMargin, RetryInterval, MaxEpoch, MaxMoves,
    MaxBlocks, MaxIssues,
    Prices, EnvRate, Minute, Kms, Foreign, MaxRestarts, MaxCrashes, MaxCharges,
    Users, Samplers, Findings, DedupWindow, HistoryMaxLen,
    IndexedProviders, Terms, MaxUpdates, MaxIndexMoves,
    MaxFailures             \* bound on failures of the attestor, of alerts and of the index

VARIABLES
    part,                   \* the part that moves
    owner, since, cached, age, failed, tried, asking, call, verdict, transfers, failures,
    instance, epoch, setting, stored, identity, lookup, callers, statement, attestorTried,
    waiting, moves, attestorFailures,
    facts, chain, read, issued,
    source, nodeKey, nodes, services, process, moved, queue, command, reverted, crashes, charges,
    finding, deep, consecutiveOver, due, claims, history, spoken, lost, alertFailures,
    service, member, block, updates, store, cachedRecords, lastBlock, round, todo, upto,
    registration, forgotten, indexMoves, indexFailures, indexRestarts

ownerVars == <<owner, since, cached, age, failed, tried, asking, call, verdict, transfers, failures>>
attestorVars == <<instance, epoch, setting, stored, identity, lookup, callers, statement,
                  attestorTried, waiting, moves, attestorFailures>>
issuerVars == <<facts, chain, read, issued>>
identityVars == <<source, nodeKey, nodes, services, process, moved, queue, command, reverted,
                  crashes, charges>>
alertVars == <<finding, deep, consecutiveOver, due, claims, history, spoken, lost, alertFailures>>
indexVars == <<service, member, block, updates, store, cachedRecords, lastBlock, round, todo, upto,
               registration, forgotten, indexMoves, indexFailures, indexRestarts>>
vars == <<part, ownerVars, attestorVars, issuerVars, identityVars, alertVars, indexVars>>

Owner == INSTANCE AppOwner WITH Nobody <- None, MaxFailures <- MaxLookupFailures

Attestor == INSTANCE AttestorIdentity WITH
    Owners <- Wallets, tried <- attestorTried, failures <- attestorFailures

Issuer == INSTANCE SealIssuer

Identity == INSTANCE ProviderIdentity WITH NoService <- None

Alert == INSTANCE Alerts WITH Nothing <- None, failures <- alertFailures

Index == INSTANCE Indexer WITH
    Providers <- IndexedProviders, NoService <- None,
    MaxBlocks <- MaxUpdates, MaxMoves <- MaxIndexMoves,
    cached <- cachedRecords, read <- registration, moves <- indexMoves,
    failures <- indexFailures, restarts <- indexRestarts

\* Lives and timeouts are times, and nothing is no provider.
ASSUME TimesAssumption == Owner!Tuning /\ Identity!Tuning /\ Lease \in Nat
ASSUME NoneAssumption == None \notin IndexedProviders /\ Wallets # {}
ASSUME BoundsAssumption == MaxEpoch \in Nat /\ MaxFailures \in Nat
\* The history has room for every subject once, and for the repeats that failing
\* claims let through.
ASSUME HistoryAssumption ==
    /\ IsFiniteSet(Alert!Subjects) /\ DedupWindow \in Nat \ {0}
    /\ HistoryMaxLen \in Nat /\ HistoryMaxLen >= Cardinality(Alert!Subjects) + MaxFailures

Parts == {"owner", "attestor", "issuer", "identity", "alert", "index"}

Init ==
    /\ part \in Parts
    /\ Owner!Init /\ (part # "owner" => owner = CHOOSE w \in Wallets : TRUE)
    /\ Attestor!Init
    /\ Issuer!Init
    /\ Identity!Init /\ (part # "identity" => source = "kms")
    /\ Alert!Init /\ (part # "alert" => ~deep)
    /\ Index!Init

OwnerMoves(A) ==
    /\ part = "owner" /\ A
    /\ UNCHANGED <<part, attestorVars, issuerVars, identityVars, alertVars, indexVars>>
AttestorMoves(A) ==
    /\ part = "attestor" /\ A
    /\ UNCHANGED <<part, ownerVars, issuerVars, identityVars, alertVars, indexVars>>
IssuerMoves(A) ==
    /\ part = "issuer" /\ A
    /\ UNCHANGED <<part, ownerVars, attestorVars, identityVars, alertVars, indexVars>>
IdentityMoves(A) ==
    /\ part = "identity" /\ A
    /\ UNCHANGED <<part, ownerVars, attestorVars, issuerVars, alertVars, indexVars>>
AlertMoves(A) ==
    /\ part = "alert" /\ A
    /\ UNCHANGED <<part, ownerVars, attestorVars, issuerVars, identityVars, indexVars>>
IndexMoves(A) ==
    /\ part = "index" /\ A
    /\ UNCHANGED <<part, ownerVars, attestorVars, issuerVars, identityVars, alertVars>>

Next ==
    \/ OwnerMoves(Owner!Next)
    \/ AttestorMoves(Attestor!Next)
    \/ IssuerMoves(Issuer!Next)
    \/ IdentityMoves(Identity!Next)
    \/ AlertMoves(Alert!Next)
    \/ IndexMoves(Index!Next)

\* The fairness each part's own specification states.
Spec ==
    /\ Init /\ [][Next]_vars
    /\ \A c \in Attestor!Callers : WF_vars(AttestorMoves(Attestor!Resolving(c)))
    /\ WF_vars(AttestorMoves(Attestor!Answering)) /\ WF_vars(AttestorMoves(Attestor!StopWaiting))
    /\ WF_vars(IdentityMoves(\E resp \in Identity!AppSigners, priced \in BOOLEAN :
                                Identity!Boot(resp, priced)))
    /\ WF_vars(IdentityMoves(Identity!Settle))
    /\ WF_vars(AlertMoves(Alert!Monitoring))
    /\ WF_vars(IndexMoves(Index!Indexing))

-----------------------------------------------------------------------------
\* The owner of the app keeps the administrator's rights through a failing node, and a former
\* owner keeps them for a bounded time only (AppOwner, the stale window).
OwnerWindow == Owner!OwnerWindow

\* What is certified was authorized: a statement of the attestor is about an authorized instance
\* and outlives no observation of a node it names (AttestorIdentity), and an issuer's
\* authorization is what one block of the chain says (SealIssuer).
VouchedFor == Attestor!AuthorizedInstance /\ Attestor!WithinLease /\ Issuer!OneBlockVouches

\* A process never bills more than its provider published (ProviderIdentity).
NeverDearer == Identity!NeverDearer

\* A change of keys costs the provider nothing: a rotation never leaves the service without its
\* terms, and with a KMS key what is owed outlives every reboot (ProviderIdentity).
KeyChangeSafe == [][Identity!TermsKept]_vars /\ Identity!OwedOutlivesReboot

\* What a monitor or the settler reports reaches the history (Alerts).
Heard == Alert!Heard

\* The index that has caught up holds the registrations (Indexer).
UpToDate == Index!UpToDate

\* No service falls silent: a request that waits for the attestor is answered, a condition that
\* lasts is reported again and again (Alerts), and a provider that stops being active for good
\* leaves the index (Indexer).
NoneFallsSilent == Attestor!WaiterAnswered /\ Alert!KeepsReporting /\ Index!InactiveLeaves
=============================================================================
