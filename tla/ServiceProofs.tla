---------------------------- MODULE ServiceProofs ----------------------------
(* Theorems about the parts beside the money path, for every value of their    *)
(* constants.  A step of the composition is a step of one part and leaves the  *)
(* others alone, so each part's invariant is proved of its own steps.          *)
EXTENDS Services, Sequences, FiniteSetTheorems, TLAPS

\* Every step is, for each part, a step of that part or none.
LEMMA OnePartMoves ==
    [Next]_vars => /\ [Owner!Next]_Owner!vars /\ [Attestor!Next]_Attestor!vars
                   /\ [Issuer!Next]_Issuer!vars /\ [Identity!Next]_Identity!vars
                   /\ [Alert!Next]_Alert!vars /\ [Index!Next]_Index!vars
  <1> USE DEF vars, ownerVars, attestorVars, issuerVars, identityVars, alertVars, indexVars,
              Owner!vars, Attestor!vars, Attestor!registry, Issuer!vars, Identity!vars, Alert!vars,
              Index!vars, Index!chain, Index!index
  <1>1. CASE OwnerMoves(Owner!Next)
    BY <1>1 DEF OwnerMoves
  <1>2. CASE AttestorMoves(Attestor!Next)
    BY <1>2 DEF AttestorMoves
  <1>3. CASE IssuerMoves(Issuer!Next)
    BY <1>3 DEF IssuerMoves
  <1>4. CASE IdentityMoves(Identity!Next)
    BY <1>4 DEF IdentityMoves
  <1>5. CASE AlertMoves(Alert!Next)
    BY <1>5 DEF AlertMoves
  <1>6. CASE IndexMoves(Index!Next)
    BY <1>6 DEF IndexMoves
  <1>7. CASE UNCHANGED vars
    BY <1>7
  <1> QED BY <1>1, <1>2, <1>3, <1>4, <1>5, <1>6, <1>7 DEF Next

-----------------------------------------------------------------------------
(* The app's owner (AppOwner). *)

\* The lookup under way.
IsCall(c) ==
    /\ DOMAIN c = {"elapsed", "read", "owner"} /\ c.read \in BOOLEAN
    /\ c.elapsed \in Nat /\ c.elapsed <= CallTime
    /\ c.owner \in Wallets \cup {None}

OwnerTypes ==
    /\ owner \in Wallets \cup {None} /\ cached \in Wallets \cup {None}
    /\ since \in [Wallets -> Nat]
    /\ age \in Nat /\ age <= StaleCap /\ tried \in Nat
    /\ asking \in [Wallets -> {"no", "queued", "fetching"}]
    /\ verdict \in [Wallets -> {"none", "admin", "refused"}]
    /\ IsCall(call)

\* The mutex: one lookup, and none left behind when nobody holds it.
OneLookup ==
    /\ \A v, w \in Wallets : Owner!Holder(v) /\ Owner!Holder(w) => v = w
    /\ call.read => ~Owner!Free

\* What was read at most t ago: whoever gained or lost the app since did so within t.
ReadWithin(o, t) == \A w \in Wallets : ~(w = owner <=> w = o) => since[w] <= t

\* The lookup under way, and the cache while it is served.
Lags ==
    /\ call.read => ReadWithin(call.owner, call.elapsed)
    /\ cached # None /\ age < StaleCap => ReadWithin(cached, age + CallTime)

\* An owner is refused beyond the TTL only by a failure that no lookup can follow
\* before the clock moves, which takes the answers back.
RefusedByFailure ==
    \A w \in Wallets :
        verdict[w] = "refused" /\ w = owner =>
            since[w] <= Ttl + CallTime \/ (failed /\ tried < RetryEvery /\ Owner!Free)

OwnerInv == OwnerTypes /\ OneLookup /\ Lags /\ RefusedByFailure /\ Owner!ExOwnerBounded

\* The invariant holds at the start.
LEMMA OwnerInitially == ASSUME Owner!Tuning, Owner!Init PROVE OwnerInv
  BY DEF Owner!Tuning, Owner!Init, OwnerInv, OwnerTypes, OneLookup, Lags, RefusedByFailure, ReadWithin,
         Owner!ExOwnerBounded, Owner!Holder, Owner!Free, Owner!NoCall, Owner!Horizon, IsCall

\* Every step keeps the types.
LEMMA OwnerTypesKept ==
    ASSUME Owner!Tuning, OwnerTypes, [Owner!Next]_Owner!vars
    PROVE  OwnerTypes'
  <1> USE DEF Owner!Tuning, OwnerTypes
  <1>0. IsCall(Owner!NoCall)
    BY DEF IsCall, Owner!NoCall
  <1>1. CASE Owner!Tick
    BY <1>1 DEF Owner!Tick, Owner!Up, Owner!Horizon, Owner!Free, IsCall
  <1>2. CASE Owner!NodeReads
    BY <1>2 DEF Owner!NodeReads, IsCall
  <1>3. ASSUME NEW o \in Wallets \cup {None}, Owner!Transfer(o) PROVE OwnerTypes'
    BY <1>3 DEF Owner!Transfer
  <1>4. ASSUME NEW w \in Wallets, Owner!Ask(w) PROVE OwnerTypes'
    BY <1>4 DEF Owner!Ask
  <1>5. ASSUME NEW w \in Wallets, Owner!FromCache(w) PROVE OwnerTypes'
    BY <1>5 DEF Owner!FromCache, Owner!Answer
  <1>6. ASSUME NEW w \in Wallets, Owner!BeginLookup(w) PROVE OwnerTypes'
    BY <1>0, <1>6 DEF Owner!BeginLookup
  <1>7. ASSUME NEW w \in Wallets, Owner!LookupReturns(w) PROVE OwnerTypes'
    BY <1>0, <1>7 DEF Owner!LookupReturns, Owner!Answer, IsCall
  <1>8. ASSUME NEW w \in Wallets, Owner!LookupFails(w) PROVE OwnerTypes'
    BY <1>0, <1>8 DEF Owner!LookupFails, Owner!Answer
  <1>9. CASE UNCHANGED Owner!vars
    BY <1>9 DEF Owner!vars
  <1> QED BY <1>1, <1>2, <1>3, <1>4, <1>5, <1>6, <1>7, <1>8, <1>9 DEF Owner!Next, Owner!Resolving

\* Every step keeps the invariant.
LEMMA OwnerKept ==
    ASSUME Owner!Tuning, OwnerInv, OwnerTypes', [Owner!Next]_Owner!vars
    PROVE  OwnerInv'
  <1> USE DEF Owner!Tuning
  <1> USE DEF OwnerInv, OwnerTypes, IsCall, OneLookup, Lags, RefusedByFailure, ReadWithin,
              Owner!ExOwnerBounded, Owner!Holder, Owner!Free
  <1>0. Owner!NoCall.elapsed = 0 /\ Owner!NoCall.read = FALSE /\ Owner!NoCall.owner = None
    BY DEF Owner!NoCall
  <1>1. CASE Owner!Tick
    BY <1>1 DEF Owner!Tick, Owner!Up, Owner!Horizon
  <1>2. CASE Owner!NodeReads
    BY <1>2 DEF Owner!NodeReads
  <1>3. ASSUME NEW o \in Wallets \cup {None}, Owner!Transfer(o) PROVE OwnerInv'
    BY <1>3 DEF Owner!Transfer
  <1>4. ASSUME NEW w \in Wallets, Owner!Ask(w) PROVE OwnerInv'
    BY <1>4 DEF Owner!Ask
  <1>5. ASSUME NEW w \in Wallets, Owner!FromCache(w) PROVE OwnerInv'
    BY <1>5 DEF Owner!FromCache, Owner!Answer, Owner!Fresh, Owner!StaleOrNobody
  <1>6. ASSUME NEW w \in Wallets, Owner!BeginLookup(w) PROVE OwnerInv'
    BY <1>0, <1>6 DEF Owner!BeginLookup
  <1>7. ASSUME NEW w \in Wallets, Owner!LookupReturns(w) PROVE OwnerInv'
    BY <1>0, <1>7 DEF Owner!LookupReturns, Owner!Answer
  <1>8. ASSUME NEW w \in Wallets, Owner!LookupFails(w) PROVE OwnerInv'
    BY <1>0, <1>8 DEF Owner!LookupFails, Owner!Answer, Owner!ServedOnFailure, Owner!StaleOrNobody
  <1>9. CASE UNCHANGED Owner!vars
    BY <1>9 DEF Owner!vars
  <1> QED BY <1>1, <1>2, <1>3, <1>4, <1>5, <1>6, <1>7, <1>8, <1>9 DEF Owner!Next, Owner!Resolving

\* isAdmin over newAppOwnerResolver: through lookups that fail or take their whole
\* time, the owner is refused only while the app is new to it or lookups fail, and
\* a former owner is an admin for the stale cap and one lookup at most.
THEOREM OwnerWindowHolds == Spec => []OwnerWindow
  <1>1. Init => OwnerInv
    BY OwnerInitially, TimesAssumption DEF Init
  <1>2. OwnerInv /\ [Next]_vars => OwnerInv'
    BY OnePartMoves, OwnerTypesKept, OwnerKept, TimesAssumption DEF OwnerInv
  <1>3. OwnerInv => OwnerWindow
    BY DEF OwnerWindow, OwnerInv, RefusedByFailure, Owner!OwnerWindow, Owner!OwnerNotLockedOut
  <1> QED BY <1>1, <1>2, <1>3, PTL DEF Spec

-----------------------------------------------------------------------------
(* The broker's index of providers (Indexer). *)

\* No registration of p after block b.
NoneAfter(p, b) == \A u \in updates : u.provider = p => u.block <= b

\* The index has the registration of p, if there is one to have.
Indexed(p) == service[p] # None => store[p] = service[p] /\ cachedRecords[p] = service[p]

IndexTypes ==
    /\ service \in [IndexedProviders -> Index!Listed] /\ store \in [IndexedProviders -> Index!Listed]
    /\ cachedRecords \in [IndexedProviders -> Index!Listed]
    /\ block \in Nat /\ upto \in Nat /\ lastBlock \in Nat
    /\ upto <= block /\ lastBlock <= block
    /\ round = "refresh" => lastBlock <= upto
    /\ round \in {"waiting", "refresh", "revalidate"}
    /\ registration # Index!NothingRead => round = "refresh" /\ registration.provider \in IndexedProviders /\ registration.terms \in Index!Listed
    /\ \A u \in updates : u.block \in Nat \ {0} /\ u.block <= block

\* A provider without a registration since the last block recorded, and one that
\* this round is done with and that has none since the round began, is indexed;
\* what was read of a provider is its registration unless another came.
Current ==
    \A p \in IndexedProviders \ forgotten :
        /\ NoneAfter(p, lastBlock) => Indexed(p)
        /\ round = "refresh" /\ p \notin todo /\ NoneAfter(p, upto) => Indexed(p)

ReadIsCurrent ==
    registration # Index!NothingRead =>
        (NoneAfter(registration.provider, upto) /\ service[registration.provider] # None =>
            registration.terms = service[registration.provider])

IndexInv == IndexTypes /\ Current /\ ReadIsCurrent

\* sync, revalidate and LoadFromRedis: an index that has caught up holds the
\* registration of every active provider that no failure made it pass over.
THEOREM IndexUpToDate == Spec => []UpToDate
  <1> USE NoneAssumption DEF IndexInv, IndexTypes, Current, ReadIsCurrent, Indexed, NoneAfter, Index!Listed
  <1>1. Init => IndexInv
    BY DEF Init, Index!Init, Index!NothingRead
  <1>2. ASSUME IndexInv, [Index!Next]_Index!vars PROVE IndexInv'
    <2> USE DEF Index!chain, Index!index, Index!Fails, Index!Answers, Index!IsActiveProvider, Index!Stored
    <2>1. ASSUME NEW p \in IndexedProviders, Index!RemoveService(p) PROVE IndexInv'
      BY <1>2, <2>1 DEF Index!RemoveService
    <2>2. ASSUME NEW p \in IndexedProviders, Index!JoinOrLeave(p) PROVE IndexInv'
      BY <1>2, <2>2 DEF Index!JoinOrLeave
    <2>3. ASSUME NEW p \in IndexedProviders, NEW t \in Terms, Index!AddOrUpdateService(p, t) PROVE IndexInv'
      <3> DEFINE e == [provider |-> p, block |-> block + 1]
      <3>1. /\ block' = block + 1 /\ service' = [service EXCEPT ![p] = t] /\ updates' = updates \cup {e}
            /\ UNCHANGED <<store, cachedRecords, lastBlock, round, todo, upto, registration, forgotten>>
        BY <2>3 DEF Index!AddOrUpdateService
      <3>2. e.provider = p /\ e.block = block + 1
        OBVIOUS
      <3> HIDE DEF e
      <3>3. IndexTypes'
        BY <1>2, <3>1, <3>2
      <3>4. Current'
        BY <1>2, <3>1, <3>2
      <3>5. ReadIsCurrent'
        BY <1>2, <3>1, <3>2
      <3> QED BY <3>3, <3>4, <3>5
    <2>4. CASE Index!BeginSync
      BY <1>2, <2>4 DEF Index!BeginSync, Index!Named
    <2>5. CASE Index!EventsFail
      BY <1>2, <2>5 DEF Index!EventsFail
    <2>6. CASE Index!Record
      BY <1>2, <2>6 DEF Index!Record, Index!WriteCache, Index!Visited, Index!NothingRead
    <2>7. CASE Index!RecordUnverified
      BY <1>2, <2>7 DEF Index!RecordUnverified, Index!Visited, Index!NothingRead
    <2>8. CASE Index!DropUpdated
      BY <1>2, <2>8 DEF Index!DropUpdated, Index!RemoveProvider, Index!WriteCache, Index!Visited
    <2>9. CASE Index!EndSync
      BY <1>2, <2>9 DEF Index!EndSync, Index!SavedBlock
    <2>10. CASE Index!EndRound
      BY <1>2, <2>10 DEF Index!EndRound
    <2>11. ASSUME NEW p \in IndexedProviders, Index!ReadService(p) PROVE IndexInv'
      BY <1>2, <2>11 DEF Index!ReadService, Index!NothingRead
    <2>12. ASSUME NEW p \in IndexedProviders, Index!ReadServiceFails(p) PROVE IndexInv'
      BY <1>2, <2>12 DEF Index!ReadServiceFails
    <2>13. ASSUME NEW p \in IndexedProviders, Index!Keep(p) PROVE IndexInv'
      BY <1>2, <2>13 DEF Index!Keep
    <2>14. ASSUME NEW p \in IndexedProviders, Index!Prune(p) PROVE IndexInv'
      BY <1>2, <2>14 DEF Index!Prune, Index!RemoveProvider, Index!WriteCache
    <2>15. CASE Index!Restart
      BY <1>2, <2>15 DEF Index!Restart
    <2>16. CASE UNCHANGED Index!vars
      BY <1>2, <2>16 DEF Index!vars
    <2> QED BY <1>2, <2>1, <2>2, <2>3, <2>4, <2>5, <2>6, <2>7, <2>8, <2>9, <2>10, <2>11, <2>12, <2>13,
               <2>14, <2>15, <2>16 DEF Index!Next, Index!Indexing
  <1>3. IndexInv => UpToDate
    BY DEF UpToDate, Index!UpToDate, Index!IsActiveProvider
  <1>4. IndexInv /\ [Next]_vars => IndexInv'
    BY <1>2, OnePartMoves
  <1> QED BY <1>1, <1>3, <1>4, PTL DEF Spec

-----------------------------------------------------------------------------
(* The provider's keys, prices and service (ProviderIdentity). *)

IsProcess(p) ==
    /\ DOMAIN p = {"up", "node", "provider", "rate", "read"}
    /\ p.up \in BOOLEAN /\ p.read \in BOOLEAN
    /\ p.node \in Identity!NodeKeys /\ p.provider \in Identity!Providers

IsCommand(c) ==
    /\ DOMAIN c = {"name", "step", "old", "provider", "price", "endorser"}
    /\ c.old \in Identity!Providers /\ c.provider \in Identity!Providers
    /\ c.price \in Prices \cup {None}

IdentityTypes ==
    /\ source \in {"kms", "node"} /\ nodeKey \in Identity!NodeKeys
    /\ services \in [Identity!Providers -> Prices \cup {None}]
    /\ IsProcess(process) /\ moved \in BOOLEAN
    /\ IsCommand(command) /\ reverted \in BOOLEAN

\* A process whose provider's price stands bills what it read of it.
BillsWhatItRead ==
    process.up /\ process.read /\ ~moved =>
        process.rate = Identity!RateFor(TRUE, services[process.provider])

\* A rotation that goes on to remove the old service has seen its terms published.
RotatesInOrder ==
    command.name = "rotate" =>
        /\ command.old # command.provider
        /\ command.step = "removing" => reverted \/ services[command.provider] = command.price

IdentityInv == IdentityTypes /\ BillsWhatItRead /\ RotatesInOrder

\* Rounded down, a price per second takes no more than the price in a minute.
LEMMA RoundedDown ==
    ASSUME NEW price \in Nat, NEW minute \in Nat \ {0}, price >= minute
    PROVE  price \div minute # 0 /\ (price \div minute) * minute <= price
  OBVIOUS

\* The invariant holds at the start.
LEMMA IdentityInitially == ASSUME Identity!Tuning, Identity!Init PROVE IdentityInv
  <1>1. IsProcess(Identity!Down) /\ ~Identity!Down.up
    BY DEF Identity!Tuning, IsProcess, Identity!Down, Identity!Providers, Identity!NodeKeys
  <1>2. IsCommand(Identity!NoCommand) /\ Identity!NoCommand.name # "rotate"
    BY DEF IsCommand, Identity!NoCommand, Identity!Providers
  <1>3. nodeKey \in Identity!NodeKeys
    BY DEF Identity!Tuning, Identity!Init, Identity!NodeKeys
  <1> QED BY <1>1, <1>2, <1>3 DEF IdentityInv, IdentityTypes, BillsWhatItRead, RotatesInOrder, Identity!Init

\* Every step keeps the invariant.
LEMMA IdentityKept ==
    ASSUME Identity!Tuning, IdentityInv, [Identity!Next]_Identity!vars PROVE IdentityInv'
  <1> USE DEF Identity!Tuning, IdentityInv, IdentityTypes, BillsWhatItRead, RotatesInOrder
  <1>a. IsProcess(Identity!Down) /\ ~Identity!Down.up
    BY DEF IsProcess, Identity!Down, Identity!Providers, Identity!NodeKeys
  <1>b. IsCommand(Identity!NoCommand) /\ Identity!NoCommand.name # "rotate"
    BY DEF IsCommand, Identity!NoCommand, Identity!Providers
  <1>1. ASSUME NEW resp \in Identity!AppSigners, NEW r \in BOOLEAN, Identity!Boot(resp, r) PROVE IdentityInv'
    <2> DEFINE p == Identity!ProviderKey(resp)
    <2>1. p \in Identity!Providers
      BY <1>1 DEF Identity!ProviderKey, Identity!AppSigners, Identity!AppKey, Identity!Providers
    <2> DEFINE q == [up |-> TRUE, node |-> Identity!AppKey, provider |-> p,
                     rate |-> Identity!RateFor(r, services[p]), read |-> r]
    <2>2. process' = q
      BY <1>1 DEF Identity!Boot
    <2>3. IsProcess(q) /\ q.provider = p /\ q.read = r /\ q.rate = Identity!RateFor(r, services[p])
      BY <2>1 DEF IsProcess, Identity!AppKey
    <2> HIDE DEF p, q
    <2> QED BY <1>1, <2>1, <2>2, <2>3 DEF Identity!Boot
  <1>2. CASE Identity!Crash
    BY <1>a, <1>2 DEF Identity!Crash
  <1>3. CASE Identity!Charge
    BY <1>3 DEF Identity!Charge
  <1>4. CASE Identity!Settle
    BY <1>4 DEF Identity!Settle
  <1>5. CASE Identity!TappRestart
    <2>1. nodeKey' \in Identity!NodeKeys
      BY <1>5 DEF Identity!TappRestart, Identity!NodeKeys
    <2> QED BY <1>5, <2>1 DEF Identity!TappRestart
  <1>6. ASSUME NEW k \in Identity!NodeKeys, Identity!AddOrRemoveNode(k) PROVE IdentityInv'
    BY <1>6 DEF Identity!AddOrRemoveNode
  <1>7. ASSUME NEW price \in Prices, Identity!RunRegister(price) PROVE IdentityInv'
    <2>1. /\ IsCommand(command') /\ command'.name = "register"
          /\ UNCHANGED <<source, nodeKey, services, process, moved, reverted>>
      BY <1>b, <1>7 DEF Identity!RunRegister, Identity!Run, IsCommand, IsProcess, Identity!Providers
    <2> QED BY <2>1
  <1>8. ASSUME NEW p \in Identity!Providers, Identity!RunRemoveService(p) PROVE IdentityInv'
    <2>1. /\ IsCommand(command') /\ command'.name = "remove"
          /\ UNCHANGED <<source, nodeKey, services, process, moved, reverted>>
      BY <1>b, <1>8 DEF Identity!RunRemoveService, Identity!Run, IsCommand
    <2> QED BY <2>1
  <1>9. ASSUME NEW old \in Identity!NodeKeys, NEW new \in Identity!NodeKeys, Identity!RunRotate(old, new)
        PROVE  IdentityInv'
    <2>1. old \in Identity!Providers /\ new \in Identity!Providers
      BY DEF Identity!Providers
    <2>2. /\ IsCommand(command') /\ command'.old # command'.provider /\ command'.step = "adding"
          /\ UNCHANGED <<source, nodeKey, services, process, moved, reverted>>
      BY <1>b, <1>9, <2>1 DEF Identity!RunRotate, Identity!Run, IsCommand
    <2> QED BY <2>2
  <1>10. CASE Identity!AddMined
    <2>1. IsCommand([command EXCEPT !.step = "removing"])
      BY DEF IsCommand
    <2>2. IsCommand(command')
      BY <1>b, <1>10, <2>1 DEF Identity!AddMined, Identity!Finished
    <2>3. services' \in [Identity!Providers -> Prices \cup {None}]
      BY <1>10 DEF Identity!AddMined, Identity!Publish, IsCommand
    <2>4. IdentityTypes'
      BY <1>10, <2>2, <2>3 DEF Identity!AddMined, Identity!Publish, Identity!Permitted
    <2>5. BillsWhatItRead'
      BY <1>10 DEF Identity!AddMined, Identity!Publish, IsProcess, IsCommand
    <2>6. RotatesInOrder'
      BY <1>b, <1>10, <2>1 DEF Identity!AddMined, Identity!Publish, Identity!Finished, IsCommand
    <2> QED BY <2>4, <2>5, <2>6
  <1>11. CASE Identity!RemoveMined
    <2>1. IdentityTypes'
      BY <1>b, <1>11 DEF Identity!RemoveMined, Identity!Publish, Identity!Finished, IsCommand
    <2>2. BillsWhatItRead'
      BY <1>11 DEF Identity!RemoveMined, Identity!Publish, IsProcess, IsCommand
    <2>3. RotatesInOrder'
      BY <1>b, <1>11 DEF Identity!RemoveMined, Identity!Finished
    <2> QED BY <2>1, <2>2, <2>3
  <1>12. CASE Identity!CommandFails
    BY <1>b, <1>12 DEF Identity!CommandFails, Identity!Finished
  <1>13. CASE UNCHANGED Identity!vars
    BY <1>13 DEF Identity!vars
  <1> QED BY <1>1, <1>2, <1>3, <1>4, <1>5, <1>6, <1>7, <1>8, <1>9, <1>10, <1>11, <1>12, <1>13 DEF Identity!Next

\* GetServicePricing: a process bills no more than the price it read, while that
\* price stands, whatever is booted, rotated, registered or removed meanwhile.
THEOREM ProviderNeverDearer == Spec => []NeverDearer
  <1>1. Init => IdentityInv
    BY IdentityInitially, TimesAssumption DEF Init
  <1>2. IdentityInv /\ [Next]_vars => IdentityInv'
    BY OnePartMoves, IdentityKept, TimesAssumption
  <1>3. IdentityInv => NeverDearer
    <2> SUFFICES ASSUME IdentityInv, process.up, process.read, ~moved,
                        services[process.provider] # None, services[process.provider] >= Minute
                 PROVE  process.rate * Minute <= services[process.provider]
      BY DEF NeverDearer, Identity!NeverDearer
    <2>1. services[process.provider] \in Nat
      BY TimesAssumption DEF IdentityInv, IdentityTypes, IsProcess, Identity!Tuning
    <2>2. /\ services[process.provider] \div Minute # 0
          /\ (services[process.provider] \div Minute) * Minute <= services[process.provider]
      BY <2>1, RoundedDown, TimesAssumption DEF Identity!Tuning
    <2> QED BY <2>2 DEF IdentityInv, BillsWhatItRead, Identity!RateFor, Identity!PerSecond
  <1> QED BY <1>1, <1>2, <1>3, PTL DEF Spec

\* runRotate: the old service goes only after its terms are the new signer's, or
\* after a first transaction that reverted.
THEOREM RotationKeepsItsTerms == Spec => Identity!RotationKeepsTerms
  <1>1. Init => IdentityInv
    BY IdentityInitially, TimesAssumption DEF Init
  <1>2. IdentityInv /\ [Next]_vars => IdentityInv'
    BY OnePartMoves, IdentityKept, TimesAssumption
  <1>3. IdentityInv /\ [Identity!Next]_Identity!vars => [Identity!TermsKept]_Identity!vars
    <2> SUFFICES ASSUME IdentityInv, Identity!Next, command.name = "rotate",
                        services'[command.old] # services[command.old]
                 PROVE  reverted \/ services'[command.provider] = command.price
      BY DEF Identity!TermsKept
    <2>1. CASE Identity!AddMined
      BY <2>1 DEF IdentityInv, IdentityTypes, IsCommand, RotatesInOrder, Identity!AddMined, Identity!Publish
    <2>2. CASE Identity!RemoveMined
      BY <2>2 DEF IdentityInv, IdentityTypes, IsCommand, RotatesInOrder, Identity!RemoveMined, Identity!Publish
    <2>3. CASE UNCHANGED services
      BY <2>3
    <2> QED BY <2>1, <2>2, <2>3 DEF Identity!Next, Identity!Boot, Identity!Crash, Identity!Charge,
               Identity!Settle, Identity!TappRestart, Identity!AddOrRemoveNode, Identity!RunRegister,
               Identity!RunRemoveService, Identity!RunRotate, Identity!CommandFails
  <1>4. [Next]_vars => [Identity!Next]_Identity!vars
    BY OnePartMoves
  <1> QED BY <1>1, <1>2, <1>3, <1>4, PTL DEF Spec, Identity!RotationKeepsTerms

-----------------------------------------------------------------------------
(* The issuer of sealed certificates (SealIssuer). *)

IsRead(r) ==
    /\ DOMAIN r = {"pc", "number", "hash", "epoch"}
    /\ r.pc \in {"idle", "registry", "info", "service", "binding", "active", "recheck"}
    /\ r.number \in Nat /\ r.hash \in Nat /\ r.epoch \in Nat
    /\ r.pc # "idle" => r.number > 0 /\ r.hash > 0 /\ r.hash <= Len(facts)

IssuerTypes ==
    /\ facts \in Seq(Issuer!Facts) /\ issued \in Seq(Nat)
    /\ chain \in Seq(Nat) /\ Len(chain) > 0
    /\ \A i \in 1..Len(chain) : chain[i] > 0 /\ chain[i] <= Len(facts)
    /\ IsRead(read)

\* What a lookup has found so far holds in the block it began with, if that block
\* is still the one at its number: a block that left the chain does not come back.
FoundIn(r, f) ==
    /\ r.pc \notin {"idle", "registry"} => f.ours
    /\ r.pc \in {"service", "binding", "active", "recheck"} => f.epoch = r.epoch
    /\ r.pc \in {"active", "recheck"} => f.bound = r.epoch
    /\ r.pc = "recheck" => f.active

StillThere == read.number <= Len(chain) /\ chain[read.number] = read.hash

FoundInOneBlock == read.pc # "idle" /\ StillThere => FoundIn(read, facts[read.hash])

IssuerInv == IssuerTypes /\ FoundInOneBlock /\ Issuer!OneBlockVouches

\* A call that is answered from the block at the lookup's number.
LEMMA AnswerKeeps ==
    ASSUME IssuerInv, NEW here, NEW there \in {"info", "service", "binding", "active", "recheck"},
           here # "idle", NEW ok, NEW next, IsRead(next),
           next.number = read.number, next.hash = read.hash,
           Issuer!Answers(here, there, ok, next),
           ok /\ StillThere => FoundIn([next EXCEPT !.pc = there], facts[read.hash])
    PROVE  IssuerInv'
  <1>1. IsRead(Issuer!NoRead) /\ Issuer!NoRead.pc = "idle"
    BY DEF IsRead, Issuer!NoRead
  <1>2. UNCHANGED <<facts, chain, issued>> /\ read.pc = here
    BY DEF Issuer!Answers
  <1>3. CASE ~ok
    <2>1. read' = Issuer!NoRead
      BY <1>3 DEF Issuer!Answers
    <2> QED BY <1>1, <1>2, <2>1 DEF IssuerInv, IssuerTypes, FoundInOneBlock, Issuer!OneBlockVouches, IsRead
  <1>4. CASE ok
    <2> DEFINE r == [next EXCEPT !.pc = there]
    <2>1. read' = r
      BY <1>4 DEF Issuer!Answers
    <2>2. r.number = read.number /\ r.hash = read.hash /\ IsRead(r)
      BY <1>2 DEF IsRead, IssuerInv, IssuerTypes
    <2>3. StillThere => FoundIn(r, facts[read.hash])
      BY <1>4
    <2> HIDE DEF r
    <2>4. IsRead(read)'
      BY <1>2, <2>1, <2>2 DEF IsRead
    <2>5. FoundInOneBlock'
      BY <1>2, <2>1, <2>2, <2>3 DEF FoundInOneBlock, StillThere, FoundIn
    <2> QED BY <1>2, <2>4, <2>5 DEF IssuerInv, IssuerTypes, Issuer!OneBlockVouches
  <1> QED BY <1>3, <1>4

\* Every step keeps the invariant.
LEMMA IssuerKept == ASSUME IssuerInv, [Issuer!Next]_Issuer!vars PROVE IssuerInv'
  <1>0. IsRead(Issuer!NoRead) /\ Issuer!NoRead.pc = "idle"
    BY DEF IsRead, Issuer!NoRead
  <1> DEFINE f == facts[chain[read.number]]
  <1>a. StillThere => f = facts[read.hash]
    BY DEF StillThere
  <1>b. facts \in Seq(Issuer!Facts) /\ IsRead(read)
    BY DEF IssuerInv, IssuerTypes
  <1>1. ASSUME NEW n \in 1..Len(chain), Issuer!Mine(n) PROVE IssuerInv'
    <2>1. PICK g \in Issuer!Facts : facts' = Append(facts, g)
      BY <1>1 DEF Issuer!Mine
    <2>2. /\ facts' \in Seq(Issuer!Facts) /\ Len(facts') = Len(facts) + 1
          /\ \A i \in 1..Len(facts) : facts'[i] = facts[i]
      BY <1>b, <2>1
    <2>3. /\ chain' = Append(SubSeq(chain, 1, n), Len(facts) + 1) /\ UNCHANGED <<read, issued>>
      BY <1>1, <2>2 DEF Issuer!Mine
    <2>4. /\ chain' \in Seq(Nat) /\ Len(chain') = n + 1 /\ chain'[n + 1] = Len(facts) + 1
          /\ \A i \in 1..n : chain'[i] = chain[i]
      BY <2>3 DEF IssuerInv, IssuerTypes
    <2>5. IssuerTypes'
      BY <2>2, <2>3, <2>4 DEF IssuerInv, IssuerTypes, IsRead
    <2>6. FoundInOneBlock'
      <3>1. read.pc # "idle" /\ StillThere' => StillThere /\ facts'[read.hash] = facts[read.hash]
        BY <2>2, <2>3, <2>4 DEF IssuerInv, IssuerTypes, IsRead, StillThere
      <3> QED BY <2>3, <3>1 DEF IssuerInv, FoundInOneBlock, FoundIn
    <2>7. Issuer!OneBlockVouches'
      <3>1. DOMAIN facts = 1..Len(facts) /\ DOMAIN facts' = 1..Len(facts') /\ Len(facts) \in Nat
        BY <1>b, <2>2
      <3>2. DOMAIN facts \subseteq DOMAIN facts' /\ \A b \in DOMAIN facts : facts'[b] = facts[b]
        BY <2>2, <3>1
      <3> QED BY <2>3, <3>2 DEF IssuerInv, Issuer!OneBlockVouches
    <2> QED BY <2>5, <2>6, <2>7 DEF IssuerInv
  <1>2. CASE Issuer!HeaderByNumber
    BY <1>2 DEF Issuer!HeaderByNumber, Issuer!LatestBlock, IssuerInv, IssuerTypes, IsRead,
                FoundInOneBlock, FoundIn, Issuer!OneBlockVouches
  <1>3. CASE Issuer!TappRegistry
    <2>1. Issuer!Answers("registry", "info", f.ours, read)
      BY <1>3 DEF Issuer!TappRegistry, Issuer!At, Issuer!Pinned
    <2>2. f.ours /\ StillThere => FoundIn([read EXCEPT !.pc = "info"], facts[read.hash])
      BY <2>1, <1>a, <1>b DEF Issuer!Answers, IssuerInv, FoundInOneBlock, FoundIn, IsRead
    <2> QED BY <2>1, <2>2, <1>b, AnswerKeeps
  <1>4. CASE Issuer!GetAppInfo
    <2>1. Issuer!Answers("info", "service", f.epoch > 0, [read EXCEPT !.epoch = f.epoch])
      BY <1>4 DEF Issuer!GetAppInfo, Issuer!At, Issuer!Pinned
    <2>2. f.epoch > 0 /\ StillThere => FoundIn([[read EXCEPT !.epoch = f.epoch] EXCEPT !.pc = "service"], facts[read.hash])
      BY <2>1, <1>a, <1>b DEF Issuer!Answers, IssuerInv, FoundInOneBlock, FoundIn, IsRead
    <2>3. f \in Issuer!Facts
      BY <2>1, <1>b DEF Issuer!Answers, IssuerInv, IssuerTypes, IsRead
    <2>4. IsRead([read EXCEPT !.epoch = f.epoch])
      BY <1>b, <2>3 DEF IsRead, Issuer!Facts
    <2> QED BY <2>1, <2>2, <2>4, <1>b, AnswerKeeps DEF IsRead
  <1>5. CASE Issuer!Services
    <2>1. Issuer!Answers("service", "binding", f.ours, read)
      BY <1>5 DEF Issuer!Services, Issuer!At, Issuer!Pinned
    <2>2. f.ours /\ StillThere => FoundIn([read EXCEPT !.pc = "binding"], facts[read.hash])
      BY <2>1, <1>a, <1>b DEF Issuer!Answers, IssuerInv, FoundInOneBlock, FoundIn, IsRead
    <2> QED BY <2>1, <2>2, <1>b, AnswerKeeps
  <1>6. CASE Issuer!KmsBindings
    <2>1. Issuer!Answers("binding", "active", f.bound = read.epoch, read)
      BY <1>6 DEF Issuer!KmsBindings, Issuer!At, Issuer!Pinned
    <2>2. f.bound = read.epoch /\ StillThere => FoundIn([read EXCEPT !.pc = "active"], facts[read.hash])
      BY <2>1, <1>a, <1>b DEF Issuer!Answers, IssuerInv, FoundInOneBlock, FoundIn, IsRead
    <2> QED BY <2>1, <2>2, <1>b, AnswerKeeps
  <1>7. CASE Issuer!IsActiveProvider
    <2>1. Issuer!Answers("active", "recheck", f.active, read)
      BY <1>7 DEF Issuer!IsActiveProvider, Issuer!At, Issuer!Pinned
    <2>2. f.active /\ StillThere => FoundIn([read EXCEPT !.pc = "recheck"], facts[read.hash])
      BY <2>1, <1>a, <1>b DEF Issuer!Answers, IssuerInv, FoundInOneBlock, FoundIn, IsRead
    <2> QED BY <2>1, <2>2, <1>b, AnswerKeeps
  <1>8. CASE Issuer!Recheck
    <2>1. read' = Issuer!NoRead /\ UNCHANGED <<facts, chain>>
      BY <1>8 DEF Issuer!Recheck
    <2>2. ASSUME chain[read.number] = read.hash
          PROVE  facts[read.hash] = [epoch |-> read.epoch, bound |-> read.epoch, ours |-> TRUE, active |-> TRUE]
      <3>1. facts[read.hash] \in Issuer!Facts
        BY <1>8, <1>b DEF Issuer!Recheck, IsRead
      <3>2. FoundIn(read, facts[read.hash])
        BY <1>8, <2>2 DEF Issuer!Recheck, IssuerInv, FoundInOneBlock, StillThere
      <3> QED BY <1>8, <3>1, <3>2 DEF Issuer!Recheck, FoundIn, Issuer!Facts
    <2>3. issued' \in Seq(Nat)
      BY <1>8, <1>b DEF Issuer!Recheck, IssuerInv, IssuerTypes, IsRead
    <2>4. Issuer!OneBlockVouches'
      BY <1>8, <2>1, <2>2, <2>3, <1>b DEF Issuer!Recheck, Issuer!SameBlock, Issuer!Pinned, IssuerInv, IssuerTypes, Issuer!OneBlockVouches, IsRead
    <2> QED BY <1>0, <2>1, <2>3, <2>4 DEF IssuerInv, IssuerTypes, FoundInOneBlock, IsRead
  <1>9. CASE Issuer!LookupFails
    BY <1>0, <1>9 DEF Issuer!LookupFails, IssuerInv, IssuerTypes, FoundInOneBlock, IsRead, Issuer!OneBlockVouches
  <1>10. CASE UNCHANGED Issuer!vars
    BY <1>10 DEF Issuer!vars, IssuerInv, IssuerTypes, FoundInOneBlock, StillThere, FoundIn, IsRead, Issuer!OneBlockVouches
  <1> QED BY <1>1, <1>2, <1>3, <1>4, <1>5, <1>6, <1>7, <1>8, <1>9, <1>10 DEF Issuer!Next

-----------------------------------------------------------------------------
(* The attestor's identity and statement (AttestorIdentity). *)

\* What an identity and a statement say of their time.
LeftOf(i) == i.left \in Nat /\ i.shortest \in Nat /\ i.left <= i.shortest

IsIdentity(i) == DOMAIN i = {"at", "left", "shortest"} /\ LeftOf(i)

IsStatement(s) ==
    /\ DOMAIN s = {"live", "at", "left", "shortest"} /\ LeftOf(s)
    /\ s.live # None /\ s.at = s.live.at

\* A caller that judges an identity has one, and the instance it pins is the one
\* the identity was discovered for.
IsCaller(k) ==
    /\ DOMAIN k = {"pc", "found", "live"}
    /\ k.pc \in {"judging", "pinning"} => IsIdentity(k.found)
    /\ k.pc = "pinning" => k.live # None /\ k.live.at = k.found.at

Callers == callers = [c \in Attestor!Callers |-> callers[c]] /\ \A c \in Attestor!Callers : IsCaller(callers[c])

AttestorInv ==
    /\ identity # None => IsIdentity(identity)
    /\ Callers
    /\ statement # None => IsStatement(statement) /\ statement.live = Attestor!Pinned

\* The least lease of the nodes of a response.
LEMMA LeaseIsNumber ==
    ASSUME Lease \in Nat, NEW resp \in Attestor!Responses
    PROVE  Attestor!LeaseOf(resp) \in Nat
  <1> DEFINE S == {n.left : n \in Attestor!Ready(resp)}
  <1>1. PICK n \in Attestor!Observations, m \in Attestor!Observations : resp = {n, m} /\ Attestor!Acceptable(resp)
    BY DEF Attestor!Responses
  <1>2. Attestor!Ready(resp) # {}
    BY <1>1 DEF Attestor!Acceptable
  <1>3. n.left \in Nat /\ m.left \in Nat
    BY DEF Attestor!Observations
  <1>4. S \subseteq {n.left, m.left} /\ S # {}
    BY <1>1, <1>2 DEF Attestor!Ready
  <1>5. \E x \in S : \A y \in S : x <= y
    BY <1>3, <1>4
  <1>6. Attestor!Min(S) \in S
    BY <1>5 DEF Attestor!Min
  <1> QED BY <1>3, <1>4, <1>6 DEF Attestor!LeaseOf

\* Time passes for an identity.
LEMMA AgedIdentity == ASSUME NEW i, IsIdentity(i) PROVE IsIdentity(Attestor!Aged(i)) /\ Attestor!Aged(i).at = i.at
  BY DEF IsIdentity, LeftOf, Attestor!Aged

\* Time passes for a statement.
LEMMA AgedStatement ==
    ASSUME NEW s, IsStatement(s)
    PROVE  IsStatement(Attestor!Aged(s)) /\ Attestor!Aged(s).live = s.live
  BY DEF IsStatement, LeftOf, Attestor!Aged

\* A step that leaves the authorization and the statement alone and gives each
\* caller a sound state.
LEMMA AttestorFrame ==
    ASSUME AttestorInv, UNCHANGED <<setting, stored, statement>>, Callers',
           identity' # None => IsIdentity(identity')
    PROVE  AttestorInv'
  BY DEF AttestorInv, Attestor!Pinned

\* Callers that are dismissed.
LEMMA DismissedCallers == ASSUME Callers, NEW cs, Attestor!Dismiss(cs) PROVE Callers'
  <1>1. IsCaller(Attestor!Idle)
    BY DEF IsCaller, Attestor!Idle
  <1> QED BY <1>1 DEF Callers, Attestor!Dismiss

\* A caller that got an identity.
LEMMA JudgingCaller == ASSUME NEW i, IsIdentity(i) PROVE IsCaller(Attestor!Judging(i))
  BY DEF IsCaller, Attestor!Judging

\* One caller moves.
LEMMA MovedCaller ==
    ASSUME Callers, NEW c \in Attestor!Callers, NEW k, IsCaller(k), callers' = [callers EXCEPT ![c] = k]
    PROVE  Callers'
  BY DEF Callers

\* A caller asks, or misses the cache.
LEMMA PlainCaller ==
    ASSUME NEW k, IsCaller(k), NEW pc \in {"asked", "missed", "looking"}
    PROVE  IsCaller([k EXCEPT !.pc = pc])
  BY DEF IsCaller

\* Every step keeps the invariant.
LEMMA AttestorKept ==
    ASSUME Lease \in Nat, AttestorInv, [Attestor!Next]_Attestor!vars
    PROVE  AttestorInv'
  <1>a. Callers /\ (identity # None => IsIdentity(identity))
    BY DEF AttestorInv
  <1>b. ASSUME NEW c \in Attestor!Callers PROVE IsCaller(callers[c])
    BY <1>a DEF Callers
  <1>c. "admin" \in Attestor!Callers /\ "refresh" \in Attestor!Callers
    BY DEF Attestor!Callers
  <1>d. IsCaller(Attestor!Idle)
    BY DEF IsCaller, Attestor!Idle
  <1>1. CASE Attestor!TransferOrRemove
    BY <1>1, <1>a, AttestorFrame DEF Attestor!TransferOrRemove, Callers
  <1>2. CASE Attestor!Tick
    <2>1. IsIdentity(identity') \/ identity' = None
      BY <1>2, <1>a, AgedIdentity DEF Attestor!Tick, Attestor!Aged
    <2>2. ASSUME NEW k, IsCaller(k) PROVE IsCaller([k EXCEPT !.found = Attestor!Aged(@)])
      BY <2>2, AgedIdentity DEF IsCaller
    <2>3. Callers'
      BY <1>2, <1>b, <2>2 DEF Attestor!Tick, Callers
    <2>4. statement' # None => IsStatement(statement') /\ statement'.live = Attestor!Pinned'
      <3>1. CASE statement = None
        BY <1>2, <3>1 DEF Attestor!Tick, Attestor!Aged
      <3>2. CASE statement # None
        BY <1>2, <3>2, AgedStatement DEF Attestor!Tick, AttestorInv, Attestor!Pinned
      <3> QED BY <3>1, <3>2
    <2> QED BY <2>1, <2>3, <2>4 DEF AttestorInv
  <1>3. CASE Attestor!AdminCheck
    <2>1. callers' = [callers EXCEPT !["admin"] = [callers["admin"] EXCEPT !.pc = "asked"]]
      BY <1>3 DEF Attestor!AdminCheck
    <2>2. Callers'
      BY <2>1, <1>a, <1>b, <1>c, PlainCaller, MovedCaller
    <2> QED BY <1>3, <1>a, <2>2, AttestorFrame DEF Attestor!AdminCheck
  <1>4. ASSUME Attestor!StartRefresh PROVE Callers'
    <2>1. CASE UNCHANGED callers
      BY <2>1, <1>a DEF Callers
    <2>2. CASE callers' = [callers EXCEPT !["refresh"] = [callers["refresh"] EXCEPT !.pc = "asked"]]
      BY <2>2, <1>a, <1>b, <1>c, PlainCaller, MovedCaller
    <2> QED BY <1>4, <2>1, <2>2 DEF Attestor!StartRefresh
  <1>5. CASE Attestor!Serve
    <2>1. CASE UNCHANGED callers
      BY <1>5, <1>a, <2>1, AttestorFrame DEF Attestor!Serve, Callers
    <2>2. CASE Attestor!StartRefresh
      BY <1>5, <1>4, <1>a, <2>2, AttestorFrame DEF Attestor!Serve
    <2> QED BY <1>5, <2>1, <2>2 DEF Attestor!Serve
  <1>6. CASE Attestor!Wait
    BY <1>6, <1>4, <1>a, AttestorFrame DEF Attestor!Wait
  <1>7. CASE Attestor!StopWaiting
    BY <1>7, <1>a, AttestorFrame DEF Attestor!StopWaiting, Callers
  <1>8. CASE Attestor!ClientLeaves
    BY <1>8, <1>a, AttestorFrame DEF Attestor!ClientLeaves, Callers
  <1>9. ASSUME NEW c \in Attestor!Callers, Attestor!Discover(c) PROVE AttestorInv'
    <2>1. \E k : IsCaller(k) /\ callers' = [callers EXCEPT ![c] = k]
      <3>1. CASE Attestor!CachedFor(c)
        BY <1>9, <1>a, <3>1, JudgingCaller DEF Attestor!Discover, Attestor!CachedFor
      <3>2. CASE ~Attestor!CachedFor(c)
        BY <1>9, <1>b, <3>2, PlainCaller DEF Attestor!Discover
      <3> QED BY <3>1, <3>2
    <2> QED BY <1>9, <1>a, <2>1, MovedCaller, AttestorFrame DEF Attestor!Discover
  <1>10. ASSUME NEW c \in Attestor!Callers, Attestor!Join(c) PROVE AttestorInv'
    <2>1. callers' = [callers EXCEPT ![c] = [callers[c] EXCEPT !.pc = "looking"]]
      BY <1>10 DEF Attestor!Join
    <2>2. Callers'
      BY <2>1, <1>a, <1>b, PlainCaller, MovedCaller
    <2> QED BY <1>10, <1>a, <2>2, AttestorFrame DEF Attestor!Join
  <1>11. ASSUME NEW c \in Attestor!Callers, Attestor!ReadInstance(c) PROVE AttestorInv'
    <2> DEFINE k == [callers[c] EXCEPT !.pc = "pinning", !.live = instance]
    <2>1. callers' = [callers EXCEPT ![c] = k]
      BY <1>11, <1>a DEF Attestor!ReadInstance, Callers
    <2>2. IsCaller(k)
      BY <1>11, <1>b DEF Attestor!ReadInstance, Attestor!SameInstance, IsCaller
    <2> HIDE DEF k
    <2> QED BY <1>11, <1>a, <2>1, <2>2, MovedCaller, AttestorFrame DEF Attestor!ReadInstance
  <1>12. ASSUME NEW c \in Attestor!Callers, Attestor!InstanceChanged(c) PROVE AttestorInv'
    BY <1>12, <1>a, DismissedCallers, AttestorFrame DEF Attestor!InstanceChanged
  <1>13. ASSUME NEW c \in Attestor!Callers, Attestor!Decide(c) PROVE AttestorInv'
    <2> DEFINE i == callers[c].found
               live == callers[c].live
    <2>1. IsIdentity(i) /\ live # None /\ live.at = i.at
      BY <1>13, <1>b DEF Attestor!Decide, IsCaller
    <2>2. Callers'
      BY <1>13, <1>a, DismissedCallers DEF Attestor!Decide
    <2>3. UNCHANGED <<setting, identity>>
      BY <1>13 DEF Attestor!Decide
    <2>4. stored' = IF setting # None THEN stored ELSE IF stored = None THEN live ELSE stored
      BY <1>13 DEF Attestor!Decide, Attestor!Kept
    <2>5. CASE statement' = statement
      BY <1>a, <2>2, <2>3, <2>4, <2>5 DEF AttestorInv, Attestor!Pinned, IsStatement
    <2>6. CASE statement' = Attestor!Signed(i, live) /\ Attestor!Pinned' = live
      <3>1. \E x \in {i.left, Lease} : \A y \in {i.left, Lease} : x <= y
        BY <2>1 DEF IsIdentity, LeftOf
      <3>2. Attestor!IssuedFor(i) \in Nat /\ Attestor!IssuedFor(i) <= i.left
        BY <2>1, <3>1 DEF Attestor!IssuedFor, Attestor!Min, IsIdentity, LeftOf
      <3>3. IsStatement(Attestor!Signed(i, live)) /\ Attestor!Signed(i, live).live = live
        BY <2>1, <3>2 DEF IsStatement, IsIdentity, LeftOf, Attestor!Signed
      <3> QED BY <1>a, <2>2, <2>3, <2>6, <3>3 DEF AttestorInv
    <2> QED BY <1>13, <2>5, <2>6 DEF Attestor!Decide
  <1>14. ASSUME NEW c \in Attestor!Callers, Attestor!LeaveLookup(c) PROVE AttestorInv'
    BY <1>14, <1>a, DismissedCallers, AttestorFrame DEF Attestor!LeaveLookup
  <1>15. ASSUME NEW i, IsIdentity(i), Attestor!GiveAll(i) PROVE Callers' /\ UNCHANGED <<setting, stored, statement>>
    <2>1. IsCaller(Attestor!Judging(i))
      BY <1>15, JudgingCaller
    <2> QED BY <1>15, <1>b, <2>1 DEF Attestor!GiveAll, Callers
  <1>16. CASE Attestor!LookupFindsCached
    BY <1>16, <1>15, <1>a, AttestorFrame DEF Attestor!LookupFindsCached, Attestor!Served
  <1>17. ASSUME NEW resp \in Attestor!Responses, Attestor!LookupReturns(resp) PROVE AttestorInv'
    <2>1. IsIdentity(Attestor!FromResponse(resp, lookup.at))
      BY LeaseIsNumber DEF Attestor!FromResponse, Attestor!LeaseOf, IsIdentity, LeftOf
    <2> QED BY <1>17, <2>1, <1>15, AttestorFrame DEF Attestor!LookupReturns
  <1>18. CASE Attestor!LookupFails
    BY <1>18, <1>a, DismissedCallers, AttestorFrame DEF Attestor!LookupFails
  <1>19. ASSUME NEW o \in Wallets, Attestor!Register(o) PROVE AttestorInv'
    BY <1>19, <1>a, AttestorFrame DEF Attestor!Register, Callers
  <1>20. ASSUME NEW named \in Attestor!Instances \cup {None}, Attestor!Restart(named) PROVE AttestorInv'
    BY <1>20, <1>d DEF Attestor!Restart, AttestorInv, Callers
  <1>21. CASE UNCHANGED Attestor!vars
    BY <1>21, <1>a, AttestorFrame DEF Attestor!vars, Callers
  <1> QED BY <1>1, <1>2, <1>3, <1>5, <1>6, <1>7, <1>8, <1>9, <1>10, <1>11, <1>12, <1>13, <1>14, <1>16,
             <1>17, <1>18, <1>19, <1>20, <1>21 DEF Attestor!Next, Attestor!Resolving, Attestor!Answering

\* The attestor's statement and the issuer's certificates: what is served was
\* discovered for the authorized registration and ends with its observations, and a
\* certificate names what one block said; no transfer, new registration,
\* reorganization or delay makes either vouch for what was not authorized
\* (attestorIdentity.Current, the refresh, GetSealedAppInstance).
THEOREM BothVouchFor == Spec => []VouchedFor
  <1>1. Init => AttestorInv
    BY DEF Init, Attestor!Init, AttestorInv, Callers, IsCaller, Attestor!Idle
  <1>2. AttestorInv /\ [Next]_vars => AttestorInv'
    BY OnePartMoves, AttestorKept, TimesAssumption
  <1>3. Init => IssuerInv
    BY BoundsAssumption
    DEF Init, Issuer!Init, Issuer!NoRead, Issuer!Facts, IssuerInv, IssuerTypes, IsRead, FoundInOneBlock,
        Issuer!OneBlockVouches
  <1>4. IssuerInv /\ [Next]_vars => IssuerInv'
    BY OnePartMoves, IssuerKept
  <1>5. AttestorInv /\ IssuerInv => VouchedFor
    BY DEF VouchedFor, AttestorInv, IsStatement, LeftOf, Attestor!AuthorizedInstance, Attestor!WithinLease,
           IssuerInv
  <1> QED BY <1>1, <1>2, <1>3, <1>4, <1>5, PTL DEF Spec

-----------------------------------------------------------------------------
(* Operator alerts (Alerts). *)

\* The ring has room for one alert of each subject and one for each failure.
AlertAssumptions ==
    /\ IsFiniteSet(Alert!Subjects) /\ MaxFailures \in Nat /\ DedupWindow \in Nat \ {0}
    /\ HistoryMaxLen \in Nat /\ HistoryMaxLen >= Cardinality(Alert!Subjects) + MaxFailures

AlertTypes ==
    /\ claims \in [Alert!Subjects -> 0..DedupWindow]
    /\ history \in Seq(Alert!Subjects)
    /\ alertFailures \in Nat /\ alertFailures <= MaxFailures
    /\ spoken \subseteq Alert!Subjects /\ lost \subseteq spoken
    /\ \A m \in Samplers : finding[m] \in Findings[m] \cup {None}

\* A key lives exactly as long as its subject counts as having reported.
KeysAreSpoken == \A s \in Alert!Subjects : s \in spoken <=> claims[s] > 0

\* The subjects whose key was set no earlier than that of s, with claims cl.
SinceThen(cl, s) == {k \in Alert!Subjects \ {s} : cl[k] >= cl[s]}

\* An alert moves down the ring by the alerts of those subjects, one each while
\* its own key lives, and by the ones that a failing claim lets through.
Placed(h, cl, n, s) == \E i \in 1..Len(h) : h[i] = s /\ i <= 1 + Cardinality(SinceThen(cl, s)) + n

AlertInv ==
    /\ AlertTypes /\ KeysAreSpoken
    /\ \A s \in spoken \ lost : Placed(history, claims, alertFailures, s)

\* The sets are finite, so an alert's place is within the ring.
LEMMA FewSubjects ==
    ASSUME AlertAssumptions, NEW cl, NEW s \in Alert!Subjects
    PROVE  /\ IsFiniteSet(SinceThen(cl, s)) /\ Cardinality(SinceThen(cl, s)) \in Nat
           /\ Cardinality(SinceThen(cl, s)) + 1 <= Cardinality(Alert!Subjects)
           /\ Cardinality(Alert!Subjects) \in Nat
  <1>1. IsFiniteSet(Alert!Subjects)
    BY DEF AlertAssumptions
  <1>2. SinceThen(cl, s) \subseteq Alert!Subjects \ {s}
    BY DEF SinceThen
  <1>3. /\ IsFiniteSet(Alert!Subjects \ {s})
        /\ Cardinality(Alert!Subjects \ {s}) = Cardinality(Alert!Subjects) - 1
    BY <1>1, FS_RemoveElement
  <1>4. IsFiniteSet(SinceThen(cl, s)) /\ Cardinality(SinceThen(cl, s)) <= Cardinality(Alert!Subjects \ {s})
    BY <1>2, <1>3, FS_Subset
  <1>5. Cardinality(Alert!Subjects) \in Nat /\ Cardinality(SinceThen(cl, s)) \in Nat
    BY <1>1, <1>4, FS_CardinalityType
  <1> QED BY <1>3, <1>4, <1>5

\* The ring after an alert of x.
LEMMA PushedRing ==
    ASSUME AlertAssumptions, AlertTypes, NEW x \in Alert!Subjects
    PROVE  /\ Alert!Pushed(x) \in Seq(Alert!Subjects)
           /\ HistoryMaxLen > 0 => Len(Alert!Pushed(x)) > 0 /\ Alert!Pushed(x)[1] = x
           /\ \A i \in 1..Len(history) : i + 1 <= HistoryMaxLen =>
                  i + 1 <= Len(Alert!Pushed(x)) /\ Alert!Pushed(x)[i + 1] = history[i]
  <1> DEFINE n == Alert!Min({Len(history) + 1, HistoryMaxLen})
             h == <<x>> \o history
  <1>1. HistoryMaxLen \in Nat /\ history \in Seq(Alert!Subjects) /\ Len(history) \in Nat
    BY DEF AlertAssumptions, AlertTypes
  <1>2. \E y \in {Len(history) + 1, HistoryMaxLen} : \A z \in {Len(history) + 1, HistoryMaxLen} : y <= z
    BY <1>1
  <1>3. n \in {Len(history) + 1, HistoryMaxLen} /\ n <= Len(history) + 1 /\ n <= HistoryMaxLen
    BY <1>1, <1>2 DEF Alert!Min
  <1>4. h \in Seq(Alert!Subjects) /\ Len(h) = Len(history) + 1 /\ h[1] = x
        /\ \A i \in 1..Len(history) : h[i + 1] = history[i]
    BY <1>1
  <1>5. Alert!Pushed(x) = SubSeq(h, 1, n)
    BY DEF Alert!Pushed
  <1> HIDE DEF h, n
  <1>6. /\ SubSeq(h, 1, n) \in Seq(Alert!Subjects) /\ Len(SubSeq(h, 1, n)) = n
        /\ \A i \in 1..n : SubSeq(h, 1, n)[i] = h[i]
    BY <1>1, <1>3, <1>4
  <1>7. HistoryMaxLen > 0 => Len(SubSeq(h, 1, n)) > 0 /\ SubSeq(h, 1, n)[1] = x
    BY <1>1, <1>3, <1>4, <1>6
  <1>8. ASSUME NEW i \in 1..Len(history), i + 1 <= HistoryMaxLen
        PROVE  i + 1 <= Len(SubSeq(h, 1, n)) /\ SubSeq(h, 1, n)[i + 1] = history[i]
    <2>1. i + 1 \in 1..n
      BY <1>1, <1>3, <1>8
    <2> QED BY <1>4, <1>6, <2>1
  <1> QED BY <1>5, <1>6, <1>7, <1>8

\* A place that is kept when the ring, the keys and the failures change.
LEMMA StillPlaced ==
    ASSUME AlertAssumptions, AlertTypes, NEW s \in Alert!Subjects, Placed(history, claims, alertFailures, s),
           NEW h, NEW cl, NEW n \in Nat, n <= MaxFailures, NEW d \in Nat,
           Len(h) \in Nat,
           \A i \in 1..Len(history) : i + d <= HistoryMaxLen => i + d <= Len(h) /\ h[i + d] = history[i],
           Cardinality(SinceThen(claims, s)) + alertFailures + d <= Cardinality(SinceThen(cl, s)) + n
    PROVE  Placed(h, cl, n, s)
  <1>1. PICK i \in 1..Len(history) : history[i] = s /\ i <= 1 + Cardinality(SinceThen(claims, s)) + alertFailures
    BY DEF Placed
  <1>2. /\ Cardinality(SinceThen(claims, s)) \in Nat /\ Cardinality(SinceThen(cl, s)) \in Nat
        /\ Cardinality(SinceThen(cl, s)) + 1 <= Cardinality(Alert!Subjects) /\ Cardinality(Alert!Subjects) \in Nat
    BY FewSubjects
  <1>3. alertFailures \in Nat /\ MaxFailures \in Nat /\ HistoryMaxLen \in Nat
        /\ HistoryMaxLen >= Cardinality(Alert!Subjects) + MaxFailures /\ Len(history) \in Nat
    BY DEF AlertTypes, AlertAssumptions
  <1> DEFINE before == Cardinality(SinceThen(claims, s))
             after == Cardinality(SinceThen(cl, s))
             all == Cardinality(Alert!Subjects)
  <1>4. /\ before \in Nat /\ after \in Nat /\ all \in Nat /\ after + 1 <= all
        /\ HistoryMaxLen >= all + MaxFailures /\ i <= 1 + before + alertFailures
        /\ before + alertFailures + d <= after + n
    BY <1>1, <1>2, <1>3
  <1> HIDE DEF before, after, all
  <1>5. i \in Nat /\ i + d <= 1 + after + n /\ i + d <= HistoryMaxLen
    BY <1>1, <1>3, <1>4
  <1>6. i + d \in 1..Len(h) /\ h[i + d] = s
    BY <1>1, <1>3, <1>5
  <1> QED BY <1>5, <1>6 DEF Placed, after

\* The key of x is set for a whole window.
LEMMA KeySet ==
    ASSUME AlertAssumptions, AlertInv, NEW x \in Alert!Subjects, claims[x] = 0,
           NEW s \in spoken, s # x
    PROVE  Cardinality(SinceThen([claims EXCEPT ![x] = DedupWindow], s)) = Cardinality(SinceThen(claims, s)) + 1
  <1> DEFINE cl == [claims EXCEPT ![x] = DedupWindow]
  <1>1. s \in Alert!Subjects /\ claims[s] > 0 /\ claims \in [Alert!Subjects -> 0..DedupWindow]
        /\ DedupWindow \in Nat
    BY DEF AlertInv, AlertTypes, KeysAreSpoken, AlertAssumptions
  <1>2. SinceThen(cl, s) = SinceThen(claims, s) \cup {x} /\ x \notin SinceThen(claims, s)
    BY <1>1 DEF SinceThen
  <1>3. IsFiniteSet(SinceThen(claims, s))
    BY <1>1, FewSubjects
  <1> QED BY <1>2, <1>3, FS_AddElement

\* Notify, whatever becomes of its two calls, keeps the invariant.
LEMMA NotifyKeeps ==
    ASSUME AlertAssumptions, AlertInv, NEW x \in Alert!Subjects, Alert!Notify(x), UNCHANGED finding
    PROVE  AlertInv'
  <1> USE DEF Alert!Key
  <1>a. /\ claims \in [Alert!Subjects -> 0..DedupWindow] /\ DedupWindow \in Nat \ {0}
        /\ history \in Seq(Alert!Subjects) /\ Len(history) \in Nat /\ alertFailures \in Nat
        /\ AlertTypes /\ KeysAreSpoken /\ spoken \subseteq Alert!Subjects
        /\ Cardinality(Alert!Subjects) \in Nat /\ MaxFailures \in Nat /\ alertFailures <= MaxFailures
    BY FS_CardinalityType DEF AlertInv, AlertTypes, AlertAssumptions
  <1>b. HistoryMaxLen > 0
    <2>1. Cardinality(SinceThen(claims, x)) + 1 <= Cardinality(Alert!Subjects) /\ Cardinality(SinceThen(claims, x)) \in Nat
      BY FewSubjects
    <2> QED BY <1>a, <2>1 DEF AlertAssumptions
  <1>c. /\ Alert!Pushed(x) \in Seq(Alert!Subjects) /\ Len(Alert!Pushed(x)) \in Nat
        /\ Len(Alert!Pushed(x)) > 0 /\ Alert!Pushed(x)[1] = x
        /\ \A i \in 1..Len(history) : i + 1 <= HistoryMaxLen =>
                  i + 1 <= Len(Alert!Pushed(x)) /\ Alert!Pushed(x)[i + 1] = history[i]
    BY <1>a, <1>b, PushedRing
  <1>d. \A s \in Alert!Subjects : Cardinality(SinceThen(claims, s)) \in Nat
    BY FewSubjects
  <1>1. CASE Alert!Suppressed(x)
    <2>1. spoken' = spoken /\ UNCHANGED <<claims, history, lost, alertFailures>>
      BY <1>1, <1>a DEF Alert!Suppressed, KeysAreSpoken
    <2> QED BY <2>1 DEF AlertInv, AlertTypes, KeysAreSpoken
  <1>2. CASE Alert!Stored(x)
    <2>1. /\ claims[x] = 0 /\ claims' = [claims EXCEPT ![x] = DedupWindow] /\ history' = Alert!Pushed(x)
          /\ spoken' = spoken \cup {x} /\ UNCHANGED <<lost, alertFailures>>
      BY <1>2 DEF Alert!Stored
    <2>2. x \notin spoken
      BY <2>1, <1>a DEF KeysAreSpoken
    <2>3. AlertTypes' /\ KeysAreSpoken'
      BY <1>a, <1>c, <2>1 DEF AlertTypes, KeysAreSpoken
    <2>4. ASSUME NEW s \in spoken \ lost PROVE Placed(history', claims', alertFailures', s)
      <3>1. s \in Alert!Subjects /\ s # x /\ Placed(history, claims, alertFailures, s)
        BY <1>a, <2>2 DEF AlertInv
      <3>2. Cardinality(SinceThen(claims', s)) = Cardinality(SinceThen(claims, s)) + 1
        BY <2>1, <3>1, KeySet
      <3>3. Cardinality(SinceThen(claims, s)) + alertFailures + 1 <= Cardinality(SinceThen(claims', s)) + alertFailures'
        BY <1>a, <1>d, <2>1, <3>1, <3>2
      <3> QED BY <1>a, <1>c, <2>1, <3>1, <3>3, StillPlaced
    <2>5. Placed(history', claims', alertFailures', x)
      <3>1. Cardinality(SinceThen(claims', x)) \in Nat
        BY FewSubjects
      <3> QED BY <1>a, <1>c, <2>1, <3>1 DEF Placed
    <2> QED BY <2>1, <2>3, <2>4, <2>5 DEF AlertInv
  <1>3. CASE Alert!LostAfterClaim(x)
    <2>1. /\ claims[x] = 0 /\ claims' = [claims EXCEPT ![x] = DedupWindow] /\ UNCHANGED history
          /\ spoken' = spoken \cup {x} /\ lost' = lost \cup {x}
          /\ alertFailures' = alertFailures + 1 /\ alertFailures' <= MaxFailures
      BY <1>3, <1>a DEF Alert!LostAfterClaim, Alert!Fails
    <2>2. x \notin spoken
      BY <2>1, <1>a DEF KeysAreSpoken
    <2>3. AlertTypes' /\ KeysAreSpoken'
      BY <1>a, <2>1 DEF AlertTypes, KeysAreSpoken
    <2>4. ASSUME NEW s \in spoken \ lost PROVE Placed(history', claims', alertFailures', s)
      <3>1. s \in Alert!Subjects /\ s # x /\ Placed(history, claims, alertFailures, s)
        BY <1>a, <2>2 DEF AlertInv
      <3>2. Cardinality(SinceThen(claims', s)) = Cardinality(SinceThen(claims, s)) + 1
        BY <2>1, <3>1, KeySet
      <3>3. Cardinality(SinceThen(claims, s)) + alertFailures + 0 <= Cardinality(SinceThen(claims', s)) + alertFailures'
        BY <1>a, <1>d, <2>1, <3>1, <3>2
      <3>4. \A i \in 1..Len(history) : i + 0 <= HistoryMaxLen => i + 0 <= Len(history') /\ history'[i + 0] = history[i]
        BY <1>a, <2>1
      <3> QED BY <1>a, <2>1, <3>1, <3>3, <3>4, StillPlaced
    <2> QED BY <2>1, <2>3, <2>4 DEF AlertInv
  <1>4. CASE Alert!ClaimFails(x)
    <2>1. /\ history' = Alert!Pushed(x) /\ UNCHANGED <<claims, spoken, lost>>
          /\ alertFailures' = alertFailures + 1 /\ alertFailures' <= MaxFailures
      BY <1>4, <1>a DEF Alert!ClaimFails, Alert!Fails
    <2>2. AlertTypes' /\ KeysAreSpoken'
      BY <1>a, <1>c, <2>1 DEF AlertTypes, KeysAreSpoken
    <2>3. ASSUME NEW s \in spoken \ lost PROVE Placed(history', claims', alertFailures', s)
      <3>1. s \in Alert!Subjects /\ Placed(history, claims, alertFailures, s)
        BY <1>a DEF AlertInv
      <3>2. Cardinality(SinceThen(claims, s)) + alertFailures + 1 <= Cardinality(SinceThen(claims, s)) + (alertFailures + 1)
        BY <1>a, <1>d, <3>1
      <3>3. alertFailures + 1 \in Nat /\ alertFailures + 1 <= MaxFailures
        BY <1>a, <2>1
      <3>4. Placed(Alert!Pushed(x), claims, alertFailures + 1, s)
        BY <1>a, <1>c, <3>1, <3>2, <3>3, StillPlaced
      <3> QED BY <2>1, <3>4
    <2> QED BY <2>1, <2>2, <2>3 DEF AlertInv
  <1> QED BY <1>1, <1>2, <1>3, <1>4 DEF Alert!Notify

\* A step that neither alerts nor moves the clock.
LEMMA AlertFrame ==
    ASSUME AlertAssumptions, AlertInv, UNCHANGED <<finding, claims, history, spoken, lost>>,
           alertFailures' \in Nat, alertFailures <= alertFailures', alertFailures' <= MaxFailures
    PROVE  AlertInv'
  <1>1. \A s \in Alert!Subjects : Cardinality(SinceThen(claims, s)) \in Nat
    BY FewSubjects
  <1> QED BY <1>1 DEF AlertInv, AlertTypes, KeysAreSpoken, Placed

\* The clock moves: the keys age together and keep their order.
LEMMA MinuteKeeps == ASSUME AlertAssumptions, AlertInv, Alert!NextMinute PROVE AlertInv'
  <1> USE DEF Alert!Key
  <1>1. /\ claims' = [k \in Alert!Subjects |-> Alert!Aged(claims[k])]
        /\ spoken' = {s \in spoken : claims'[s] > 0} /\ lost' = {s \in lost : claims'[s] > 0}
        /\ \A m \in Samplers : finding'[m] \in Findings[m] \cup {None}
        /\ UNCHANGED <<history, alertFailures>>
    BY DEF Alert!NextMinute
  <1>2. /\ claims \in [Alert!Subjects -> 0..DedupWindow] /\ DedupWindow \in Nat /\ AlertTypes
        /\ history \in Seq(Alert!Subjects) /\ alertFailures \in Nat /\ alertFailures <= MaxFailures
    BY DEF AlertInv, AlertTypes, AlertAssumptions
  <1>3. claims' \in [Alert!Subjects -> 0..DedupWindow]
    BY <1>1, <1>2 DEF Alert!Aged
  <1>4. AlertTypes' /\ KeysAreSpoken'
    BY <1>1, <1>2, <1>3 DEF AlertInv, AlertTypes, KeysAreSpoken, Alert!Aged
  <1>5. ASSUME NEW s \in spoken' \ lost' PROVE Placed(history', claims', alertFailures', s)
    <2>1. s \in Alert!Subjects /\ Placed(history, claims, alertFailures, s)
      BY <1>1 DEF AlertInv, AlertTypes
    <2>2. SinceThen(claims, s) \subseteq SinceThen(claims', s)
      BY <1>1, <1>2, <2>1 DEF SinceThen, Alert!Aged
    <2>3. Cardinality(SinceThen(claims, s)) + alertFailures + 0 <= Cardinality(SinceThen(claims', s)) + alertFailures'
      <3>1. /\ IsFiniteSet(SinceThen(claims', s)) /\ Cardinality(SinceThen(claims', s)) \in Nat
            /\ Cardinality(SinceThen(claims, s)) \in Nat
        BY <2>1, FewSubjects
      <3>2. Cardinality(SinceThen(claims, s)) <= Cardinality(SinceThen(claims', s))
        BY <2>2, <3>1, FS_Subset
      <3> QED BY <1>1, <1>2, <3>1, <3>2
    <2>4. \A i \in 1..Len(history) : i + 0 <= HistoryMaxLen => i + 0 <= Len(history') /\ history'[i + 0] = history[i]
      BY <1>1, <1>2
    <2> QED BY <1>1, <1>2, <2>1, <2>3, <2>4, StillPlaced
  <1> QED BY <1>4, <1>5 DEF AlertInv

\* Notify, claimDedup and persist: who has reported within the window is in the
\* ring, in a ring with room for every subject and every failure.
THEOREM AlertsAreHeard == Spec => []Heard
  <1>0. AlertAssumptions
    BY HistoryAssumption, BoundsAssumption DEF AlertAssumptions
  <1>1. Init => AlertInv
    BY <1>0 DEF Init, AlertAssumptions, Alert!Init, AlertInv, AlertTypes, KeysAreSpoken
  <1>2. ASSUME AlertInv, [Alert!Next]_Alert!vars PROVE AlertInv'
    <2>0. alertFailures \in Nat /\ MaxFailures \in Nat /\ alertFailures <= MaxFailures
      BY <1>0, <1>2 DEF AlertInv, AlertTypes, AlertAssumptions
    <2>1. CASE Alert!SampleQueue
      <3>1. CASE Alert!Notify("backlog")
        <4>1. "backlog" \in Alert!Subjects
          BY DEF Alert!Subjects
        <4> QED BY <1>2, <2>1, <3>1, <4>1, <1>0, NotifyKeeps DEF Alert!SampleQueue
      <3>2. CASE UNCHANGED Alert!quiet
        BY <1>2, <2>0, <2>1, <3>2, <1>0, AlertFrame DEF Alert!SampleQueue, Alert!quiet
      <3> QED BY <2>1, <3>1, <3>2 DEF Alert!SampleQueue
    <2>2. CASE Alert!NextMinute
      BY <1>2, <2>2, <1>0, MinuteKeeps
    <2>3. ASSUME NEW m \in Samplers, Alert!Sample(m) PROVE AlertInv'
      <3>1. CASE finding[m] # None
        <4>1. finding[m] \in Alert!Subjects
          BY <1>2, <3>1 DEF AlertInv, AlertTypes, Alert!Subjects
        <4> QED BY <1>2, <2>3, <3>1, <4>1, <1>0, NotifyKeeps DEF Alert!Sample
      <3>2. CASE finding[m] = None
        BY <1>2, <2>0, <2>3, <3>2, <1>0, AlertFrame DEF Alert!Sample, Alert!quiet
      <3> QED BY <3>1, <3>2
    <2>4. CASE Alert!Restart
      BY <1>2, <2>0, <2>4, <1>0, AlertFrame DEF Alert!Restart, Alert!Fails
    <2>5. ASSUME NEW m \in Alert!Monitors, Alert!SampleFails(m) PROVE AlertInv'
      BY <1>2, <2>0, <2>5, <1>0, AlertFrame DEF Alert!SampleFails, Alert!Fails
    <2>6. ASSUME NEW u \in Users, Alert!Reject(u) PROVE AlertInv'
      BY <1>2, <2>6, <1>0, NotifyKeeps DEF Alert!Reject, Alert!Subjects
    <2>7. CASE UNCHANGED Alert!vars
      BY <1>2, <2>0, <2>7, <1>0, AlertFrame DEF Alert!vars
    <2> QED BY <1>2, <2>1, <2>2, <2>3, <2>4, <2>5, <2>6, <2>7 DEF Alert!Next, Alert!Monitoring
  <1>3. AlertInv => Heard
    BY DEF Heard, AlertInv, AlertTypes, Placed, Alert!Heard, Alert!Range
  <1>4. AlertInv /\ [Next]_vars => AlertInv'
    BY <1>2, OnePartMoves
  <1> QED BY <1>1, <1>3, <1>4, PTL DEF Spec
=============================================================================
