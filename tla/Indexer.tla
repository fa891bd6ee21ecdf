------------------------------- MODULE Indexer -------------------------------
(***************************************************************************)
(* The broker's index of providers (internal/indexer): one goroutine reads *)
(* the ServiceUpdated events since the last block it recorded, refreshes   *)
(* the records of the providers they name, and then asks for every record  *)
(* whether its provider may still settle.  Services change, and providers  *)
(* join and leave TappRegistry, between any two of its calls.              *)
(***************************************************************************)
EXTENDS Naturals, FiniteSets

CONSTANTS Providers,
          Terms,         \* what a registration says: prices, URL
          NoService,     \* neither registered nor recorded
          MaxBlocks,     \* bound on registrations
          MaxMoves,      \* bound on joining, leaving and removals
          MaxFailures,   \* bound on failing calls
          MaxRestarts    \* bound on restarts of the broker

VARIABLES service,       \* SandboxServing: the registration of each provider
          member,        \* providers whose key TappRegistry lists
          block,         \* the latest block
          updates,       \* ServiceUpdated events: [provider, block]
          store,         \* the records in memory
          cached,        \* the records in Redis
          lastBlock,     \* indexer:provider:last_block
          round,         \* what the goroutine is doing
          todo,          \* providers it has yet to visit in this round
          upto,          \* the block the events of this round were read at
          read,          \* the registration read and not yet judged
          forgotten,     \* history: providers with an update that left no record
          moves, failures, restarts

chain == <<service, member, block, updates, moves>>
index == <<store, cached, lastBlock, round, todo, upto, read, forgotten>>
vars == <<chain, index, failures, restarts>>

Listed == Terms \cup {NoService}
NothingRead == [provider |-> NoService, terms |-> NoService]

Init ==
    /\ service = [p \in Providers |-> NoService]
    /\ member = Providers
    /\ block = 0
    /\ updates = {}
    /\ store = [p \in Providers |-> NoService]
    /\ cached = [p \in Providers |-> NoService]
    /\ lastBlock = 0
    /\ round = "waiting"
    /\ todo = {}
    /\ upto = 0
    /\ read = NothingRead
    /\ forgotten = {}
    /\ moves = 0
    /\ failures = 0
    /\ restarts = 0

-----------------------------------------------------------------------------
(* The chain. *)

\* isActiveProvider: a service, and a key that still counts.
IsActiveProvider(p) == service[p] # NoService /\ p \in member

AddOrUpdateService(p, t) ==
    /\ block < MaxBlocks
    /\ block' = block + 1
    /\ service' = [service EXCEPT ![p] = t]
    /\ updates' = updates \cup {[provider |-> p, block |-> block']}
    /\ UNCHANGED <<member, moves, index, failures, restarts>>

\* removeService emits no ServiceUpdated.
RemoveService(p) ==
    /\ service[p] # NoService /\ moves < MaxMoves
    /\ service' = [service EXCEPT ![p] = NoService]
    /\ moves' = moves + 1
    /\ UNCHANGED <<member, block, updates, index, failures, restarts>>

\* Nodes are added and removed, and apps registered anew, in TappRegistry.
JoinOrLeave(p) ==
    /\ moves < MaxMoves
    /\ member' = (member \ {p}) \cup ({p} \ member)
    /\ moves' = moves + 1
    /\ UNCHANGED <<service, block, updates, index, failures, restarts>>

-----------------------------------------------------------------------------
(* The goroutine. *)

Fails == failures < MaxFailures /\ failures' = failures + 1
Answers == UNCHANGED failures

\* GetServiceUpdatedEvents: the latest block first, then the logs up to it;
\* sync keeps one event of each provider.
Named(from, to) == {u.provider : u \in {v \in updates : v.block > from /\ v.block <= to}}

\* A last block that cannot be read counts as none.
BeginSync ==
    /\ round = "waiting"
    /\ upto' = block
    /\ \/ Answers /\ todo' = Named(lastBlock, block)
       \/ Fails /\ todo' = Named(0, block)
    /\ round' = "refresh"
    /\ UNCHANGED <<chain, store, cached, lastBlock, read, forgotten, restarts>>

Stored == {p \in Providers : store[p] # NoService}

\* sync returns at once and revalidate follows.
EventsFail ==
    /\ round = "waiting"
    /\ Fails
    /\ round' = "revalidate"
    /\ todo' = Stored
    /\ UNCHANGED <<chain, store, cached, lastBlock, upto, read, forgotten, restarts>>

\* GetServiceInfo.  A provider without a service is passed over.
ReadService(p) ==
    /\ round = "refresh" /\ p \in todo /\ read = NothingRead
    /\ IF service[p] = NoService
       THEN todo' = todo \ {p} /\ forgotten' = forgotten \cup {p} /\ UNCHANGED read
       ELSE read' = [provider |-> p, terms |-> service[p]] /\ UNCHANGED <<todo, forgotten>>
    /\ Answers
    /\ UNCHANGED <<chain, store, cached, lastBlock, round, upto, restarts>>

ReadServiceFails(p) ==
    /\ round = "refresh" /\ p \in todo /\ read = NothingRead
    /\ Fails
    /\ todo' = todo \ {p}
    /\ forgotten' = forgotten \cup {p}
    /\ UNCHANGED <<chain, store, cached, lastBlock, round, upto, read, restarts>>

\* persistProvider and removeProvider ignore a failing Redis.
WriteCache(p, t) == \/ Answers /\ cached' = [cached EXCEPT ![p] = t]
                    \/ Fails /\ UNCHANGED cached

RemoveProvider(p) == store' = [store EXCEPT ![p] = NoService] /\ WriteCache(p, NoService)

Visited(p) == todo' = todo \ {p} /\ read' = NothingRead

Record ==
    \E p \in Providers :
        /\ round = "refresh" /\ read.provider = p
        /\ IsActiveProvider(p)
        /\ store' = [store EXCEPT ![p] = read.terms]
        /\ WriteCache(p, read.terms)
        /\ Visited(p)
        /\ forgotten' = IF cached'[p] = read.terms THEN forgotten \ {p} ELSE forgotten \cup {p}
        /\ UNCHANGED <<chain, lastBlock, round, upto, restarts>>

\* isLiveProvider answers true when its call fails.
RecordUnverified ==
    \E p \in Providers :
        /\ round = "refresh" /\ read.provider = p
        /\ Fails
        /\ store' = [store EXCEPT ![p] = read.terms]
        /\ cached' = [cached EXCEPT ![p] = read.terms]
        /\ Visited(p)
        /\ forgotten' = forgotten \ {p}
        /\ UNCHANGED <<chain, lastBlock, round, upto, restarts>>

DropUpdated ==
    \E p \in Providers :
        /\ round = "refresh" /\ read.provider = p
        /\ ~IsActiveProvider(p)
        /\ RemoveProvider(p)
        /\ Visited(p)
        /\ forgotten' = forgotten \cup {p}
        /\ UNCHANGED <<chain, lastBlock, round, upto, restarts>>

\* What sync saves: the block its events were read at.
SavedBlockLatest == block
SavedBlock == upto

EndSync ==
    /\ round = "refresh" /\ todo = {} /\ read = NothingRead
    /\ \/ Answers /\ lastBlock' = IF SavedBlock > 0 THEN SavedBlock ELSE lastBlock
       \/ Fails /\ UNCHANGED lastBlock
    /\ round' = "revalidate"
    /\ todo' = Stored
    /\ UNCHANGED <<chain, store, cached, upto, read, forgotten, restarts>>

KeepRegistered(p) ==
    /\ round = "revalidate" /\ p \in todo
    /\ \/ service[p] # NoService /\ Answers
       \/ Fails
    /\ todo' = todo \ {p}
    /\ UNCHANGED <<chain, store, cached, lastBlock, round, upto, read, forgotten, restarts>>

Keep(p) ==
    /\ round = "revalidate" /\ p \in todo
    /\ \/ IsActiveProvider(p) /\ Answers
       \/ Fails
    /\ todo' = todo \ {p}
    /\ UNCHANGED <<chain, store, cached, lastBlock, round, upto, read, forgotten, restarts>>

Prune(p) ==
    /\ round = "revalidate" /\ p \in todo
    /\ ~IsActiveProvider(p)
    /\ RemoveProvider(p)
    /\ todo' = todo \ {p}
    /\ forgotten' = forgotten \cup {p}
    /\ UNCHANGED <<chain, lastBlock, round, upto, read, restarts>>

EndRound ==
    /\ round = "revalidate" /\ todo = {}
    /\ round' = "waiting"
    /\ Answers
    /\ UNCHANGED <<chain, store, cached, lastBlock, todo, upto, read, forgotten, restarts>>

\* LoadFromRedis; the interrupted round is gone.
Restart ==
    /\ restarts < MaxRestarts
    /\ restarts' = restarts + 1
    /\ store' = cached
    /\ round' = "waiting"
    /\ todo' = {}
    /\ read' = NothingRead
    /\ UNCHANGED <<chain, cached, lastBlock, upto, forgotten, failures>>

Indexing ==
    \/ BeginSync \/ EventsFail \/ Record \/ RecordUnverified \/ DropUpdated
    \/ EndSync \/ EndRound
    \/ \E p \in Providers : ReadService(p) \/ ReadServiceFails(p) \/ Keep(p) \/ Prune(p)

Next ==
    \/ \E p \in Providers : RemoveService(p) \/ JoinOrLeave(p)
    \/ \E p \in Providers, t \in Terms : AddOrUpdateService(p, t)
    \/ Indexing
    \/ Restart

Spec == Init /\ [][Next]_vars
FairSpec == Spec /\ WF_vars(Indexing)

-----------------------------------------------------------------------------
TypeOK ==
    /\ service \in [Providers -> Listed] /\ store \in [Providers -> Listed]
    /\ cached \in [Providers -> Listed]
    /\ member \subseteq Providers /\ todo \subseteq Providers /\ forgotten \subseteq Providers
    /\ updates \subseteq [provider : Providers, block : 1..MaxBlocks]
    /\ block \in 0..MaxBlocks /\ upto \in 0..block /\ lastBlock \in 0..block
    /\ round \in {"waiting", "refresh", "revalidate"}
    /\ read \in [provider : Providers \cup {NoService}, terms : Listed]

\* Once the index has caught up with the chain, the record of an active provider
\* is its registration, before and after a restart, unless a call failed at the
\* provider's last update or found it inactive (sync records the block although
\* it passed the provider over, and nothing visits the update again).
UpToDate ==
    (lastBlock = block) =>
        \A p \in Providers \ forgotten :
            IsActiveProvider(p) => store[p] = service[p] /\ cached[p] = service[p]

\* A provider that stops being active and stays so leaves the index for good,
\* also when calls fail and the broker restarts from Redis (revalidate).
InactiveLeaves ==
    \A p \in Providers : <>[](~IsActiveProvider(p)) => <>[](store[p] = NoService)
=============================================================================
