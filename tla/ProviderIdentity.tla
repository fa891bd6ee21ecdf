--------------------------- MODULE ProviderIdentity ---------------------------
(***************************************************************************)
(* Who the provider is: the keys the billing process takes from the TEE    *)
(* when it boots (internal/tee, cmd/billing), the prices it reads then,    *)
(* and the service the app's owner keeps for that address on the contract  *)
(* (cmd/provider register, remove-service, rotate). The node's key is made *)
(* anew whenever tapp-server restarts; the KMS key never changes. What is  *)
(* owed waits in a queue named after the provider.                         *)
(***************************************************************************)
EXTENDS Naturals, FiniteSets

CONSTANTS Prices,        \* per-minute prices an owner may publish
          EnvRate,       \* the configured price per second
          Minute,        \* seconds in a minute
          Kms, Foreign,  \* the app's KMS key, and some other key
          NoService,
          MaxRestarts, MaxCrashes, MaxCharges

VARIABLES source,        \* PROVIDER_KEY_SOURCE: "kms" or "node"
          nodeKey,       \* the key tapp-server holds now
          nodes,         \* TappRegistry: active nodes of the app
          services,      \* SandboxServing: the published price of each provider
          process,       \* the billing process
          moved,         \* history: its price was changed since it booted
          queue,         \* vouchers that wait, by provider
          command,       \* the owner's command under way
          reverted,      \* history: the last transaction that adds a service reverted
          crashes, charges

vars == <<source, nodeKey, nodes, services, process, moved, queue, command, reverted, crashes, charges>>

NodeKeys == 0..MaxRestarts
Providers == NodeKeys \cup {Kms, Foreign}
Down == [up |-> FALSE, node |-> 0, provider |-> Foreign, rate |-> 0, read |-> FALSE]
NoCommand == [name |-> "none", step |-> "idle", old |-> Foreign, provider |-> Foreign, price |-> NoService, endorser |-> 0]

Init ==
    /\ source \in {"kms", "node"}
    /\ nodeKey = 0 /\ nodes = {0}
    /\ services = [p \in Providers |-> NoService]
    /\ process = Down /\ moved = FALSE
    /\ queue = [p \in Providers |-> 0]
    /\ command = NoCommand /\ reverted = FALSE
    /\ crashes = 0 /\ charges = 0

-----------------------------------------------------------------------------
(* The billing process. *)

\* What tapp-server may answer to GetAppSigner: a key, the address it lists it
\* under, and whether both are measured in its evidence.
AppSigners == [secret : {Kms, Foreign}, address : {Kms}, measured : BOOLEAN]

\* providerKeyGRPC and providerKeyFromSecret
AnySigner(resp) == TRUE
Acceptable(resp) == resp.secret = resp.address /\ resp.measured

\* tee.Get: the key tapp-server holds, asked for once and kept.
AppKey == nodeKey

\* The key that signs vouchers: without a KMS key there is no provider to fall
\* back to, the process ends.
ProviderKey(resp) == IF source = "kms" THEN resp.secret ELSE AppKey

\* GetServicePricing: per minute to per second, rounded down; and the price in
\* use, the configured one when there is none on the chain.
PerMinute(price) == price
PerSecond(price) == price \div Minute
RateFor(read, price) ==
    IF ~read \/ price = NoService \/ PerSecond(price) = 0 THEN EnvRate ELSE PerSecond(price)

\* main: tee.Get, GetProviderKey, NewClient, pricing. The prices stay as they are
\* until the next boot.
Boot(resp, read) ==
    /\ ~process.up
    /\ source = "kms" => Acceptable(resp)
    /\ LET p == ProviderKey(resp)
       IN  process' = [up |-> TRUE, node |-> AppKey, provider |-> p,
                       rate |-> RateFor(read, services[p]), read |-> read]
    /\ moved' = FALSE
    /\ UNCHANGED <<source, nodeKey, nodes, services, queue, command, reverted, crashes, charges>>

Crash ==
    /\ process.up /\ crashes < MaxCrashes
    /\ process' = Down /\ moved' = FALSE
    /\ crashes' = crashes + 1
    /\ UNCHANGED <<source, nodeKey, nodes, services, queue, command, reverted, charges>>

Charge ==
    /\ process.up /\ charges < MaxCharges
    /\ queue' = [queue EXCEPT ![process.provider] = @ + 1]
    /\ charges' = charges + 1
    /\ UNCHANGED <<source, nodeKey, nodes, services, process, moved, command, reverted, crashes>>

\* IsProviderActive: the settler holds its queue until then.
IsProviderActive(p) == services[p] # NoService /\ (p = Kms \/ p \in nodes)

Settle ==
    /\ process.up /\ queue[process.provider] > 0
    /\ IsProviderActive(process.provider)
    /\ queue' = [queue EXCEPT ![process.provider] = @ - 1]
    /\ UNCHANGED <<source, nodeKey, nodes, services, process, moved, command, reverted, crashes, charges>>

-----------------------------------------------------------------------------
(* The machine and the registry. *)

TappRestart ==
    /\ nodeKey < MaxRestarts
    /\ nodeKey' = nodeKey + 1
    /\ UNCHANGED <<source, nodes, services, process, moved, queue, command, reverted, crashes, charges>>

AddOrRemoveNode(k) ==
    /\ k <= nodeKey
    /\ nodes' = IF k \in nodes THEN nodes \ {k} ELSE nodes \cup {k}
    /\ UNCHANGED <<source, nodeKey, services, process, moved, queue, command, reverted, crashes, charges>>

\* A transaction that changes the price of p.
Publish(p, price) ==
    /\ services' = [services EXCEPT ![p] = price]
    /\ moved' = (moved \/ (process.up /\ process.provider = p))

-----------------------------------------------------------------------------
(* The owner's commands, one at a time. A transaction is sent when its gas *)
(* can be estimated, that is when it would succeed; WaitMined returns its  *)
(* receipt, whatever that says.                                            *)

Run(c) == command = NoCommand /\ command' = c
Finished == command' = NoCommand

\* What addOrUpdateService and addOrUpdateKmsService require.
Permitted(p, endorser) == IF p = Kms THEN endorser \in nodes ELSE p \in nodes

\* EndorseKmsProvider: signed with the node key the process took.
Endorser == process.node

\* checkKmsNodeInfo: the provider and the endorsement /api/info shows belong to a
\* KMS provider, and the node it names has signed it.
CheckKmsNodeInfo == process.up /\ source = "kms"

RunRegister(price) ==
    /\ \/ source = "node" /\ \E p \in NodeKeys :
            Permitted(p, p) /\ Run([NoCommand EXCEPT !.name = "register", !.step = "adding", !.provider = p, !.price = price])
       \/ /\ CheckKmsNodeInfo /\ Permitted(process.provider, Endorser)
          /\ Run([NoCommand EXCEPT !.name = "register", !.step = "adding", !.provider = process.provider,
                                   !.price = price, !.endorser = Endorser])
    /\ UNCHANGED <<source, nodeKey, nodes, services, process, moved, queue, reverted, crashes, charges>>

RunRemoveService(p) ==
    /\ services[p] # NoService
    /\ Run([NoCommand EXCEPT !.name = "remove", !.step = "removing", !.old = p])
    /\ UNCHANGED <<source, nodeKey, nodes, services, process, moved, queue, reverted, crashes, charges>>

\* rotate: the old service's terms for the new signer, and then the old one removed.
RunRotateRemovingFirst(old, new) ==
    /\ old # new /\ services[old] # NoService /\ old # Kms
    /\ Permitted(new, new)
    /\ Run([NoCommand EXCEPT !.name = "rotate", !.step = "removing", !.old = old, !.provider = new, !.price = services[old]])
    /\ UNCHANGED <<source, nodeKey, nodes, services, process, moved, queue, reverted, crashes, charges>>
RunRotate(old, new) ==
    /\ old # new /\ services[old] # NoService /\ old # Kms
    /\ Permitted(new, new)
    /\ Run([NoCommand EXCEPT !.name = "rotate", !.step = "adding", !.old = old, !.provider = new, !.price = services[old]])
    /\ UNCHANGED <<source, nodeKey, nodes, services, process, moved, queue, reverted, crashes, charges>>

AddMined ==
    /\ command.step = "adding"
    /\ IF Permitted(command.provider, command.endorser)
       THEN Publish(command.provider, command.price)
       ELSE UNCHANGED <<services, moved>>
    /\ reverted' = ~Permitted(command.provider, command.endorser)
    /\ IF command.name = "rotate" THEN command' = [command EXCEPT !.step = "removing"] ELSE Finished
    /\ UNCHANGED <<source, nodeKey, nodes, process, queue, crashes, charges>>

RemoveMined ==
    /\ command.step = "removing"
    /\ Publish(command.old, NoService)
    /\ Finished
    /\ UNCHANGED <<source, nodeKey, nodes, process, queue, reverted, crashes, charges>>

\* A time-out, or the RPC fails: the command stops where it is. A transaction that
\* is mined all the same is AddMined or RemoveMined with this after it.
CommandFails ==
    /\ command # NoCommand
    /\ Finished
    /\ UNCHANGED <<source, nodeKey, nodes, services, process, moved, queue, reverted, crashes, charges>>

Next ==
    \/ \E resp \in AppSigners, read \in BOOLEAN : Boot(resp, read)
    \/ Crash \/ Charge \/ Settle \/ TappRestart
    \/ \E k \in NodeKeys : AddOrRemoveNode(k)
    \/ \E price \in Prices : RunRegister(price)
    \/ \E p \in Providers : RunRemoveService(p)
    \/ \E old, new \in NodeKeys : RunRotate(old, new)
    \/ AddMined \/ RemoveMined \/ CommandFails

Spec == Init /\ [][Next]_vars

\* The process is restarted when it ends and KMS and tapp answer in the end; the
\* settler settles what it may.
FairSpec ==
    /\ Spec
    /\ WF_vars(\E resp \in AppSigners, read \in BOOLEAN : Boot(resp, read))
    /\ WF_vars(Settle)

\* Prices and the minute are numbers, and keys can be counted.
Tuning == Prices \subseteq Nat /\ Minute \in Nat \ {0} /\ MaxRestarts \in Nat

-----------------------------------------------------------------------------
TypeOK ==
    /\ nodes \subseteq NodeKeys
    /\ services \in [Providers -> Prices \cup {NoService}]
    /\ process.provider \in Providers /\ process.node \in NodeKeys
    /\ queue \in [Providers -> 0..MaxCharges]
    /\ command.step \in {"idle", "adding", "removing"}

\* Nobody pays more than the chain says: while the published price stands as it
\* was when the process read it, the price per second stays within it, for prices
\* of at least one unit a second (GetServicePricing, and the fallback to the
\* configured price).
NeverDearer ==
    LET price == services[process.provider]
    IN  (process.up /\ process.read /\ ~moved /\ price # NoService) =>
            (price >= Minute => process.rate * Minute <= price)

TermsKept ==
    (command.name = "rotate" /\ services'[command.old] # services[command.old]) =>
        reverted \/ services'[command.provider] = command.price

\* A rotation never takes the old service before its terms are the new signer's.
\* The exception is a first transaction that reverts, which the command takes for
\* confirmed (runRotate).
RotationKeepsTerms == [][TermsKept]_vars

\* With a KMS provider what is owed outlives every reboot: while the service stays
\* registered the queue runs empty in the end, although the node's key changed and
\* the process went down with vouchers in the queue (GetProviderKey, NewClient).
OwedOutlivesReboot ==
    <>[](source = "kms" /\ services[Kms] # NoService) => []<>(\A p \in Providers : queue[p] = 0)
=============================================================================
