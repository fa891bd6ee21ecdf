-------------------------------- MODULE Proxy --------------------------------
(***************************************************************************)
(* The proxy in front of Daytona: the balance gate, the authentication of  *)
(* a request, what becomes of a create body and of a sandbox's labels, the *)
(* images and snapshots a create names, and the lists of vouchers whose    *)
(* fees the gate takes for the user's debt, which the settler's algorithms *)
(* rewrite.  They share no state, so a behaviour moves one of them, and    *)
(* the others stay in an initial state.                                    *)
(***************************************************************************)
EXTENDS CreateGate

CONSTANTS
    None,
    Providers, Resources, Nonces, Window, SignedFor, Unit, Horizon, Handlers, MaxAccepts,
    Clients, Creator, Admins, MaxFields,
    Tags, Digests, Names, Importers, MaxIds, MaxOps,
    FeeOf, Users, Sandboxes, MaxEntries, MaxBalance

VARIABLES
    part,                   \* the part that moves
    clock, strict, address, signed, handling, nonceKey, accepted, straddled,
    body, phase, forwarded, asked, fork, sandbox, requests, opened, shown, told,
    tags, derived, copyMu, imports, promised, snaps, nextId, creating, cleaning, sealing,
    started, exposed, caught, ops,
    queued, heldList

authVars == <<clock, strict, address, signed, handling, nonceKey, accepted, straddled>>
accessVars == <<body, phase, forwarded, asked, fork, sandbox, requests, opened, shown, told>>
imageVars == <<tags, derived, copyMu, imports, promised, snaps, nextId, creating, cleaning,
               sealing, started, exposed, caught, ops>>
backlogVars == <<queued, heldList>>
proxyVars == <<part, vars, authVars, accessVars, imageVars, backlogVars>>

Auth == INSTANCE RequestAuth
Access == INSTANCE SandboxAccess
Image == INSTANCE Images
Backlog == INSTANCE MCVoucherBacklog WITH held <- heldList

ASSUME TimesAssumption == Unit \in Nat \ {0} /\ SignedFor \in Nat
ASSUME ImagesAssumption ==
    MaxIds \in Nat /\ None \notin Importers /\ None \notin Digests /\ None \notin Image!Ids
ASSUME BacklogAssumption ==
    MaxEntries \in Nat /\ MaxBalance \in Nat /\ \A n \in 1..MaxEntries : FeeOf[n] \in Nat

ProxyInit ==
    /\ part \in {"gate", "auth", "access", "image", "backlog"}
    /\ Init /\ (part # "gate" => ~session)
    /\ Auth!Init /\ (part # "auth" => \A p \in Providers : strict[p])
    /\ Access!Init /\ (part # "access" => ~fork)
    /\ Image!Init /\ Backlog!Init

GateMoves(A) ==
    part = "gate" /\ A /\ UNCHANGED <<part, authVars, accessVars, imageVars, backlogVars>>
AuthMoves(A) ==
    part = "auth" /\ A /\ UNCHANGED <<part, vars, accessVars, imageVars, backlogVars>>
AccessMoves(A) ==
    part = "access" /\ A /\ UNCHANGED <<part, vars, authVars, imageVars, backlogVars>>
ImageMoves(A) ==
    part = "image" /\ A /\ UNCHANGED <<part, vars, authVars, accessVars, backlogVars>>
BacklogMoves(A) ==
    part = "backlog" /\ A /\ UNCHANGED <<part, vars, authVars, accessVars, imageVars>>

ProxyNext ==
    \/ GateMoves(Next)
    \/ AuthMoves(Auth!Next)
    \/ AccessMoves(Access!Next)
    \/ ImageMoves(Image!Next)
    \/ BacklogMoves(Backlog!Next)

\* The fairness of the gate's own specification.
ProxySpec ==
    /\ ProxyInit /\ [][ProxyNext]_proxyVars
    /\ WF_proxyVars(GateMoves(Expire))
    /\ \A r \in Requests : WF_proxyVars(GateMoves(RequestStep(r)))

-----------------------------------------------------------------------------
\* The gate (CreateGate): a request gets in beyond the balance only for a named reason, and the
\* counter is the sum of what the requests under way have reserved, so it is never below zero
\* and nobody is turned down for a reservation that was given back.
GateHolds == NeverOverdrawnUnexcused /\ CounterIsSum

\* A signed request is taken at most once: by one provider under every timing of its handlers and
\* the nonce key's expiry, and by one of the strict providers if it names none (RequestAuth).
SignedOnce == Auth!SignedOnce

\* What a create becomes is what was asked and allowed: the proxy and Daytona read the same
\* request in one body, and a sandbox whose public ports Daytona ignored is not handed over
\* (SandboxAccess).
CreateAsAsked == Access!CreateAsAsked

\* Who reaches a sandbox: a sealed one stays closed to its owner and to others whatever becomes
\* of its labels, nobody but the owner and the operator reaches any, and the credentials in
\* Daytona's answers stay with the proxy (SandboxAccess).
Guarded == Access!Guarded

\* An image stays what somebody relies on: an import that reported success left its tag with what
\* it copied, the tag of a snapshot that can still be started is kept, and a sealed sandbox runs
\* the image its certificate names (Images).
ImagesHold == Image!ImagesHold

\* The split pays the longest affordable prefix of the debt (AggregateCovered).
SplitIsLongestPrefix == Backlog!SplitIsLongestPrefix

\* No rewrite of the backlog creates or loses a usage unit: the collapse of a batch is the
\* grouping by user and sandbox (CollapseBySandbox), and the sweep's rewrite (AggregateCovered)
\* and the operator's aggregation (Aggregate) bill the units that were there.
KeepsEveryUnit ==
    Backlog!CollapseIsGrouping /\ Backlog!RewriteKeepsEveryUnit /\ Backlog!AggregateKeepsEveryUnit
=============================================================================
