--------------------------- MODULE SandboxServing ---------------------------
(***************************************************************************)
(* The settlement contract contracts/src/SandboxServing.sol: prepaid       *)
(* (user, provider) accounts with a two-step refund, settlement of signed  *)
(* vouchers, provider services, earnings, and KMS provider bindings.       *)
(*                                                                         *)
(* A transaction is one step, except where control leaves the function:    *)
(*   - settleFeesWithTEE is a loop of _settleOne with the ProviderCheck    *)
(*     memo: mode is "settling" from the first voucher to the end and      *)
(*     nothing else runs (the registry calls are static calls);            *)
(*   - a payout calls the receiver while _locked is set: mode is "calling" *)
(*     and the receiver may re-enter every function that is not            *)
(*     nonReentrant, until the call returns.                               *)
(* A reverted transaction changes nothing and is not a step.               *)
(*                                                                         *)
(* TappRegistry is not part of the repository.  Its state (reg) and its    *)
(* actions are modelled from the interface the contract declares and from  *)
(* the comments about it.  Registrations happen at distinct timestamps.    *)
(***************************************************************************)
EXTENDS Integers, FiniteSets, Functions

CONSTANTS
    Users, Providers, Apps,
    Signers,           \* node signers; a provider is one, or a KMS key
    Accounts,          \* app owners
    Admins,            \* contract owners
    Registries,        \* deployed TappRegistry instances
    Amounts,           \* deposit and refund amounts
    Fees, Nonces,      \* totalFee and nonce of a voucher
    Prices,            \* a service's three prices as one value
    LockTime,          \* LOCK_TIME
    NoApp, Nobody,     \* the empty appId, the zero address
    FirstOwner, FirstRegistry,   \* msg.sender and argument of initialize()
    MaxVault, MaxTime  \* bounds: ETH held by the contract, block time

\* An address has 160 bits.
ASSUME AddressAssumption == IsFiniteSet(Users) /\ IsFiniteSet(Providers)
ASSUME AmountsAssumption == Amounts \subseteq Nat \ {0}
ASSUME FeesAssumption == Fees \subseteq Nat
ASSUME NoncesAssumption == Nonces \subseteq Nat
ASSUME LockTimeAssumption == LockTime \in Nat
ASSUME BoundsAssumption == MaxVault \in Nat /\ MaxTime \in Nat
ASSUME NullAssumption == NoApp \notin Apps /\ Nobody \notin Accounts
ASSUME NonEmptyAssumption == Providers # {} /\ Prices # {}
ASSUME InitAssumption == FirstOwner \in Admins /\ FirstRegistry \in Registries

VARIABLES
    balances, pendingRefunds, refundUnlockAts, lastNonce,   \* _accounts
    services, serviceExists, providerEarnings, kmsBindings,
    owner, tappRegistry,
    mode,      \* "idle", or who holds _locked: "settling", "calling"
    check,     \* the ProviderCheck memo of the running settlement
    vault,     \* address(this).balance
    reg,       \* the state of every TappRegistry (external)
    now,       \* block.timestamp
    earners    \* history: app owners under whom the unpaid earnings accrued

accountVars == <<balances, pendingRefunds, refundUnlockAts, lastNonce>>
serviceVars == <<services, serviceExists, kmsBindings>>
adminVars   == <<owner, tappRegistry>>
txVars      == <<mode, check>>
vars == <<accountVars, serviceVars, providerEarnings, adminVars, txVars, vault,
          reg, now, earners>>

Pairs == Users \X Providers
Service == [appId: Apps \cup {NoApp}, price: Prices]
KmsBinding == [epoch: Nat, appId: Apps \cup {NoApp}]
ProviderCheck == [provider: Providers, checked: BOOLEAN, valid: BOOLEAN]
\* signed: the signature recovers to the voucher's own provider
SandboxVoucher == [user: Users, provider: Providers, totalFee: Fees,
                   nonce: Nonces, signed: BOOLEAN]
\* nodes: signers with addedAt # 0; acked: users whose acknowledgement is of
\* the current ackVersion; invalidator: this contract may call invalidateAcks
AppInfo == [owner: Accounts \cup {Nobody}, registeredAt: Nat,
            nodes: SUBSET Signers, acked: SUBSET Users, invalidator: BOOLEAN]

TypeOK ==
    /\ balances \in [Pairs -> Nat]
    /\ pendingRefunds \in [Pairs -> Nat]
    /\ refundUnlockAts \in [Pairs -> Nat]
    /\ lastNonce \in [Pairs -> Nat]
    /\ services \in [Providers -> Service]
    /\ serviceExists \in [Providers -> BOOLEAN]
    /\ providerEarnings \in [Providers -> Nat]
    /\ kmsBindings \in [Providers -> KmsBinding]
    /\ owner \in Admins
    /\ tappRegistry \in Registries
    /\ mode \in {"idle", "settling", "calling"}
    /\ check \in ProviderCheck
    /\ vault \in Int
    /\ reg \in [Registries -> [Apps -> AppInfo]]
    /\ now \in Nat
    /\ earners \in [Providers -> SUBSET (Accounts \cup {Nobody})]

NoService == [appId |-> NoApp, price |-> CHOOSE x \in Prices : TRUE]
NoCheck == [provider |-> CHOOSE p \in Providers : TRUE, checked |-> FALSE, valid |-> FALSE]
NoInfo == [owner |-> Nobody, registeredAt |-> 0, nodes |-> {}, acked |-> {},
           invalidator |-> FALSE]

\* initialize(): the proxy's storage is zero, the caller owns the contract.
Init ==
    /\ balances = [up \in Pairs |-> 0]
    /\ pendingRefunds = [up \in Pairs |-> 0]
    /\ refundUnlockAts = [up \in Pairs |-> 0]
    /\ lastNonce = [up \in Pairs |-> 0]
    /\ services = [p \in Providers |-> NoService]
    /\ serviceExists = [p \in Providers |-> FALSE]
    /\ providerEarnings = [p \in Providers |-> 0]
    /\ kmsBindings = [p \in Providers |-> [epoch |-> 0, appId |-> NoApp]]
    /\ owner = FirstOwner
    /\ tappRegistry = FirstRegistry
    /\ mode = "idle"
    /\ check = NoCheck
    /\ vault = 0
    /\ reg = [r \in Registries |-> [a \in Apps |-> NoInfo]]
    /\ now = 1
    /\ earners = [p \in Providers |-> {}]

\* What tappRegistry answers; an unset appId reads as an unregistered app.
GetAppInfo(a) == IF a \in Apps THEN reg[tappRegistry][a] ELSE NoInfo
IsActiveNode(a, n) == n \in GetAppInfo(a).nodes
IsAcknowledged(u, a) == u \in GetAppInfo(a).acked

Free     == mode = "idle"                    \* a nonReentrant entry point
Callable == mode \in {"idle", "calling"}     \* any other entry point

-----------------------------------------------------------------------------
(* Accounts: deposit and refund. *)

Deposit(u, p, amount) ==
    /\ Callable
    /\ vault + amount <= MaxVault
    /\ balances' = [balances EXCEPT ![<<u, p>>] = @ + amount]
    /\ vault' = vault + amount
    /\ UNCHANGED <<pendingRefunds, refundUnlockAts, lastNonce, serviceVars,
                   providerEarnings, adminVars, txVars, reg, now, earners>>

\* Mutant: the earlier pending refund is overwritten.
RequestRefundNoReabsorb(u, p, amount) ==
    /\ Callable
    /\ balances[<<u, p>>] >= amount
    /\ balances' = [balances EXCEPT ![<<u, p>>] = @ - amount]
    /\ pendingRefunds' = [pendingRefunds EXCEPT ![<<u, p>>] = amount]
    /\ refundUnlockAts' = [refundUnlockAts EXCEPT ![<<u, p>>] = now + LockTime]
    /\ UNCHANGED <<lastNonce, serviceVars, providerEarnings, adminVars, txVars,
                   vault, reg, now, earners>>

\* Mutant: the amount is not checked against what the account holds.
RequestRefundUnchecked(u, p, amount) ==
    LET total == balances[<<u, p>>] + pendingRefunds[<<u, p>>] IN
    /\ Callable
    /\ balances' = [balances EXCEPT ![<<u, p>>] = total - amount]
    /\ pendingRefunds' = [pendingRefunds EXCEPT ![<<u, p>>] = amount]
    /\ refundUnlockAts' = [refundUnlockAts EXCEPT ![<<u, p>>] = now + LockTime]
    /\ UNCHANGED <<lastNonce, serviceVars, providerEarnings, adminVars, txVars,
                   vault, reg, now, earners>>

\* A pending refund is put back first, so a second request replaces the first
\* and its lock.
RequestRefund(u, p, amount) ==
    LET total == balances[<<u, p>>] + pendingRefunds[<<u, p>>] IN
    /\ Callable
    /\ total >= amount
    /\ balances' = [balances EXCEPT ![<<u, p>>] = total - amount]
    /\ pendingRefunds' = [pendingRefunds EXCEPT ![<<u, p>>] = amount]
    /\ refundUnlockAts' = [refundUnlockAts EXCEPT ![<<u, p>>] = now + LockTime]
    /\ UNCHANGED <<lastNonce, serviceVars, providerEarnings, adminVars, txVars,
                   vault, reg, now, earners>>

\* Mutant: the pending refund is not cleared before the receiver is called.
WithdrawRefundUncleared(u, p) ==
    /\ Free
    /\ pendingRefunds[<<u, p>>] > 0
    /\ now >= refundUnlockAts[<<u, p>>]
    /\ vault' = vault - pendingRefunds[<<u, p>>]
    /\ mode' = "calling"
    /\ UNCHANGED <<accountVars, serviceVars, providerEarnings, adminVars, check, reg,
                   now, earners>>

WithdrawRefund(u, p) ==
    /\ Free
    /\ pendingRefunds[<<u, p>>] > 0
    /\ now >= refundUnlockAts[<<u, p>>]
    /\ pendingRefunds' = [pendingRefunds EXCEPT ![<<u, p>>] = 0]
    /\ vault' = vault - pendingRefunds[<<u, p>>]
    /\ mode' = "calling"
    /\ UNCHANGED <<balances, refundUnlockAts, lastNonce, serviceVars,
                   providerEarnings, adminVars, check, reg, now, earners>>

\* The receiver's call returns and nonReentrant clears _locked.
ReturnFromCall ==
    /\ mode = "calling"
    /\ mode' = "idle"
    /\ UNCHANGED <<accountVars, serviceVars, providerEarnings, adminVars, check,
                   vault, reg, now, earners>>

-----------------------------------------------------------------------------
(* Settlement. *)

ProviderKeyValid(p, a) ==
    IF kmsBindings[p].epoch # 0
    THEN GetAppInfo(a).registeredAt = kmsBindings[p].epoch
    ELSE IsActiveNode(a, p)

\* _verifySignature reads the registry only when the memo is of another provider.
KeyCheck(p) ==
    IF check.checked /\ check.provider = p THEN check
    ELSE [provider |-> p, checked |-> TRUE,
          valid |-> ProviderKeyValid(p, services[p].appId)]

VerifySignature(v) == v.signed /\ KeyCheck(v.provider).valid

\* Mutant: the last settled nonce is accepted again.
NonceUsedOffByOne(v) == v.nonce < lastNonce[<<v.user, v.provider>>]

NonceUsed(v) == v.nonce <= lastNonce[<<v.user, v.provider>>]

\* _previewOne, and the decision part of _settleOne.
SettlementStatus(v) ==
    CASE ~serviceExists[v.provider] -> "PROVIDER_MISMATCH"
      [] serviceExists[v.provider]
         /\ ~IsAcknowledged(v.user, services[v.provider].appId) -> "NOT_ACKNOWLEDGED"
      [] serviceExists[v.provider]
         /\ IsAcknowledged(v.user, services[v.provider].appId)
         /\ NonceUsed(v) -> "INVALID_NONCE"
      [] OTHER -> IF ~VerifySignature(v) THEN "INVALID_SIGNATURE"
                  ELSE IF balances[<<v.user, v.provider>>] >= v.totalFee THEN "SUCCESS"
                  ELSE "INSUFFICIENT_BALANCE"

\* Moves amount from the user's account to the provider's earnings.
Charge(v, amount, balance, pending) ==
    LET u == v.user   p == v.provider IN
    /\ lastNonce' = [lastNonce EXCEPT ![<<u, p>>] = v.nonce]
    /\ balances' = [balances EXCEPT ![<<u, p>>] = balance]
    /\ pendingRefunds' = [pendingRefunds EXCEPT ![<<u, p>>] = pending]
    /\ providerEarnings' = [providerEarnings EXCEPT ![p] = @ + amount]
    /\ earners' = IF amount > 0
                  THEN [earners EXCEPT ![p] =
                          @ \cup {GetAppInfo(services[p].appId).owner}]
                  ELSE earners

SettleSuccess(v) ==
    LET left == balances[<<v.user, v.provider>>] - v.totalFee
        pend == pendingRefunds[<<v.user, v.provider>>]
    IN  /\ SettlementStatus(v) = "SUCCESS"
        \* "Restore LIFO invariant"
        /\ Charge(v, v.totalFee, left, IF pend > left THEN left ELSE pend)

SettleInsufficient(v) ==
    /\ SettlementStatus(v) = "INSUFFICIENT_BALANCE"
    /\ Charge(v, balances[<<v.user, v.provider>>] + pendingRefunds[<<v.user, v.provider>>], 0, 0)

SettleRejected(v) ==
    /\ SettlementStatus(v) \notin {"SUCCESS", "INSUFFICIENT_BALANCE"}
    /\ UNCHANGED <<balances, pendingRefunds, lastNonce, providerEarnings, earners>>

\* One iteration of settleFeesWithTEE; the first one enters the function.  The
\* memo is written only when the signature check is reached with a signature
\* of the provider.
SettleOne(v) ==
    /\ mode \in {"idle", "settling"}
    /\ mode' = "settling"
    /\ SettleSuccess(v) \/ SettleInsufficient(v) \/ SettleRejected(v)
    /\ check' = IF /\ SettlementStatus(v)
                        \in {"INVALID_SIGNATURE", "SUCCESS", "INSUFFICIENT_BALANCE"}
                   /\ v.signed
                THEN KeyCheck(v.provider) ELSE check
    /\ UNCHANGED <<refundUnlockAts, serviceVars, adminVars, vault, reg, now>>

\* Mutant: the memo outlives the transaction.
EndSettleKeepMemo ==
    /\ mode = "settling"
    /\ mode' = "idle"
    /\ UNCHANGED <<accountVars, serviceVars, providerEarnings, adminVars, check, vault,
                   reg, now, earners>>

EndSettle ==
    /\ mode = "settling"
    /\ mode' = "idle"
    /\ check' = NoCheck
    /\ UNCHANGED <<accountVars, serviceVars, providerEarnings, adminVars, vault,
                   reg, now, earners>>

-----------------------------------------------------------------------------
(* Earnings and services, managed by the owner of the app. *)

\* Mutant: the epoch pin is not checked.
IsAppOwnerOfUnpinned(p, caller) ==
    /\ services[p].appId # NoApp
    /\ GetAppInfo(services[p].appId).owner = caller

IsAppOwnerOf(p, caller) ==
    LET a == services[p].appId IN
    /\ a # NoApp
    /\ kmsBindings[p].epoch # 0 => GetAppInfo(a).registeredAt = kmsBindings[p].epoch
    /\ GetAppInfo(a).owner = caller

\* Empties the provider's earnings into the caller's account.
PayEarnings(p) ==
    /\ providerEarnings' = [providerEarnings EXCEPT ![p] = 0]
    /\ earners' = [earners EXCEPT ![p] = {}]
    /\ vault' = vault - providerEarnings[p]

WithdrawEarnings(p, caller) ==
    /\ Free
    /\ IsAppOwnerOf(p, caller)
    /\ providerEarnings[p] > 0
    /\ PayEarnings(p)
    /\ mode' = "calling"
    /\ UNCHANGED <<accountVars, serviceVars, adminVars, check, reg, now>>

RemoveService(p, caller) ==
    /\ Free
    /\ serviceExists[p]
    /\ IsAppOwnerOf(p, caller)
    /\ PayEarnings(p)
    /\ services' = [services EXCEPT ![p] = NoService]
    /\ serviceExists' = [serviceExists EXCEPT ![p] = FALSE]
    /\ mode' = IF providerEarnings[p] > 0 THEN "calling" ELSE "idle"
    /\ UNCHANGED <<accountVars, kmsBindings, adminVars, check, reg, now>>

InvalidateAcks(a) == reg' = [reg EXCEPT ![tappRegistry][a].acked = {}]

\* Mutant: a price change leaves the acknowledgements alone.
UpsertServiceKeepAcks(p, a, price) ==
    /\ GetAppInfo(a).invalidator
    /\ services[p].appId \in {NoApp, a}
    /\ services' = [services EXCEPT ![p] = [appId |-> a, price |-> price]]
    /\ serviceExists' = [serviceExists EXCEPT ![p] = TRUE]
    /\ UNCHANGED reg

UpsertService(p, a, price) ==
    LET svc   == services[p]
        isNew == svc.appId = NoApp
    IN  /\ GetAppInfo(a).invalidator
        /\ isNew \/ svc.appId = a
        /\ services' = [services EXCEPT ![p] = [appId |-> a, price |-> price]]
        /\ serviceExists' = [serviceExists EXCEPT ![p] = TRUE]
        /\ IF ~isNew /\ svc.price # price THEN InvalidateAcks(a) ELSE UNCHANGED reg

AddOrUpdateService(p, a, price, caller) ==
    /\ Callable
    /\ GetAppInfo(a).owner = caller
    /\ kmsBindings[p].epoch = 0
    /\ IsActiveNode(a, p)
    /\ UpsertService(p, a, price)
    /\ UNCHANGED <<accountVars, kmsBindings, providerEarnings, adminVars, txVars,
                   vault, now, earners>>

\* Mutant: a later registration does not check the app the provider is bound to.
KmsRebindAnyApp(p, a, epoch) ==
    /\ kmsBindings[p].epoch # 0
    /\ UNCHANGED kmsBindings

KmsRebind(p, a, epoch) ==
    /\ kmsBindings[p].epoch # 0
    /\ kmsBindings[p].appId = a
    /\ kmsBindings[p].epoch = epoch
    /\ UNCHANGED kmsBindings

KmsFirstBind(p, a, epoch) ==
    /\ kmsBindings[p].epoch = 0
    /\ ~serviceExists[p]
    /\ kmsBindings' = [kmsBindings EXCEPT ![p] = [epoch |-> epoch, appId |-> a]]

\* node is the signer the endorsement recovers to.
AddOrUpdateKmsService(p, a, price, node, caller) ==
    LET epoch == GetAppInfo(a).registeredAt IN
    /\ Callable
    /\ GetAppInfo(a).owner = caller
    /\ epoch # 0
    /\ IsActiveNode(a, node)
    /\ KmsFirstBind(p, a, epoch) \/ KmsRebind(p, a, epoch)
    /\ UpsertService(p, a, price)
    /\ UNCHANGED <<accountVars, providerEarnings, adminVars, txVars, vault, now, earners>>

-----------------------------------------------------------------------------
(* Contract owner: the caller is owner in every step. *)

TransferOwnership(newOwner) ==
    /\ Callable
    /\ owner' = newOwner
    /\ UNCHANGED <<accountVars, serviceVars, providerEarnings, tappRegistry, txVars,
                   vault, reg, now, earners>>

SetTappRegistry(r) ==
    /\ Callable
    /\ tappRegistry' = r
    /\ UNCHANGED <<accountVars, serviceVars, providerEarnings, owner, txVars, vault,
                   reg, now, earners>>

\* The contract owner vouches that the new instance is the same app, so the
\* history of who earned starts afresh.
RepinKmsProvider(p) ==
    LET epoch == GetAppInfo(services[p].appId).registeredAt IN
    /\ Callable
    /\ kmsBindings[p].epoch # 0
    /\ serviceExists[p]
    /\ epoch # 0
    /\ kmsBindings' = [kmsBindings EXCEPT ![p].epoch = epoch]
    /\ earners' = [earners EXCEPT ![p] = {}]
    /\ UNCHANGED <<accountVars, services, serviceExists, providerEarnings, adminVars,
                   txVars, vault, reg, now>>

-----------------------------------------------------------------------------
(* TappRegistry (external): applications, nodes, acknowledgements. *)

UnchangedByRegistry == UNCHANGED <<accountVars, serviceVars, providerEarnings, adminVars,
                                   txVars, vault, earners>>

RegisterApp(r, a, o, firstNode) ==
    /\ Callable
    /\ reg[r][a].registeredAt = 0
    /\ now < MaxTime
    /\ now' = now + 1
    /\ reg' = [reg EXCEPT ![r][a] =
                 [owner |-> o, registeredAt |-> now + 1, nodes |-> {firstNode},
                  acked |-> @.acked, invalidator |-> FALSE]]
    /\ UnchangedByRegistry

AddNode(r, a, n) ==
    /\ Callable
    /\ reg[r][a].registeredAt # 0
    /\ n \notin reg[r][a].nodes
    /\ reg' = [reg EXCEPT ![r][a].nodes = @ \cup {n}]
    /\ UnchangedByRegistry /\ UNCHANGED now

\* Removing the last node unregisters the app; anyone may register it next.
WithoutNode(info, n) ==
    IF info.nodes = {n} THEN [NoInfo EXCEPT !.acked = info.acked]
    ELSE [info EXCEPT !.nodes = @ \ {n}]

RemoveNode(r, a, n) ==
    /\ Callable
    /\ n \in reg[r][a].nodes
    /\ reg' = [reg EXCEPT ![r][a] = WithoutNode(reg[r][a], n)]
    /\ UnchangedByRegistry /\ UNCHANGED now

AcknowledgeApp(r, a, u) ==
    /\ Callable
    /\ reg[r][a].registeredAt # 0
    /\ u \notin reg[r][a].acked
    /\ reg' = [reg EXCEPT ![r][a].acked = @ \cup {u}]
    /\ UnchangedByRegistry /\ UNCHANGED now

RevokeAcknowledgement(r, a, u) ==
    /\ Callable
    /\ u \in reg[r][a].acked
    /\ reg' = [reg EXCEPT ![r][a].acked = @ \ {u}]
    /\ UnchangedByRegistry /\ UNCHANGED now

\* authorizeInvalidator / revokeInvalidator for this contract.
SetInvalidator(r, a) ==
    /\ Callable
    /\ reg[r][a].registeredAt # 0
    /\ reg' = [reg EXCEPT ![r][a].invalidator = ~@]
    /\ UnchangedByRegistry /\ UNCHANGED now

\* A new block.
Tick ==
    /\ Free
    /\ now < MaxTime
    /\ now' = now + 1
    /\ UNCHANGED <<accountVars, serviceVars, providerEarnings, adminVars, txVars,
                   vault, reg, earners>>

-----------------------------------------------------------------------------
RegistryNext ==
    \E r \in Registries, a \in Apps :
        \/ \E o \in Accounts, n \in Signers : RegisterApp(r, a, o, n)
        \/ \E n \in Signers : AddNode(r, a, n) \/ RemoveNode(r, a, n)
        \/ \E u \in Users : AcknowledgeApp(r, a, u) \/ RevokeAcknowledgement(r, a, u)
        \/ SetInvalidator(r, a)

ServiceNext ==
    \E p \in Providers, c \in Accounts :
        \/ WithdrawEarnings(p, c)
        \/ RemoveService(p, c)
        \/ \E a \in Apps, x \in Prices :
              \/ AddOrUpdateService(p, a, x, c)
              \/ \E n \in Signers : AddOrUpdateKmsService(p, a, x, n, c)

AccountNext ==
    \E u \in Users, p \in Providers :
        \/ \E amount \in Amounts : Deposit(u, p, amount) \/ RequestRefund(u, p, amount)
        \/ WithdrawRefund(u, p)

AdminNext ==
    \/ \E c \in Admins : TransferOwnership(c)
    \/ \E r \in Registries : SetTappRegistry(r)
    \/ \E p \in Providers : RepinKmsProvider(p)

Next ==
    \/ AccountNext
    \/ ReturnFromCall
    \/ \E v \in SandboxVoucher : SettleOne(v)
    \/ EndSettle
    \/ ServiceNext
    \/ AdminNext
    \/ RegistryNext
    \/ Tick

Spec == Init /\ [][Next]_vars

-----------------------------------------------------------------------------
(* Properties. *)

PaysProvider(u, p) ==
    /\ balances'[<<u, p>>] + pendingRefunds'[<<u, p>>]
          < balances[<<u, p>>] + pendingRefunds[<<u, p>>]
    /\ providerEarnings'[p] > providerEarnings[p]

NoncesGuardPayments ==
    \A u \in Users, p \in Providers :
        /\ lastNonce'[<<u, p>>] >= lastNonce[<<u, p>>]
        /\ PaysProvider(u, p) => lastNonce'[<<u, p>>] > lastNonce[<<u, p>>]

\* A nonce pays once: an account gives money to its provider's earnings only in
\* a step that moves its settled nonce up, and that nonce never goes down, not
\* even when the service is removed and registered again (_settleOne,
\* removeService).
NoReplay == [][NoncesGuardPayments]_vars

\* The memo of a batch never disagrees with what the registry would answer for
\* that provider now (ProviderCheck in _verifySignature).
MemoIsFresh ==
    check.checked =>
        check.valid = ProviderKeyValid(check.provider, services[check.provider].appId)

\* A service exists exactly while it has an appId, and a KMS provider's service
\* is of the app the provider was bound to, through removal, re-registration
\* and re-pinning (_upsertService, addOrUpdateKmsService, removeService).
KmsServiceBound ==
    \A p \in Providers :
        /\ serviceExists[p] <=> services[p].appId # NoApp
        /\ serviceExists[p] /\ kmsBindings[p].epoch # 0 =>
              services[p].appId = kmsBindings[p].appId

\* Whoever may take a KMS provider's earnings is the app owner under whom they
\* were earned: a later registrant of the appId is kept away by the epoch pin
\* (the KMS providers paragraph of the contract's comment, _isAppOwnerOf).
KmsEarningsPinned ==
    \A p \in Providers, c \in Accounts :
        kmsBindings[p].epoch # 0 /\ IsAppOwnerOf(p, c) => earners[p] \subseteq {c}

\* Why it holds.  Every registration in any registry has a timestamp of its own;
\* a provider without a service has nothing unpaid; and the earnings of a
\* pinned provider accrued under the owner of the registration it is pinned to.
Registered(r, a) == reg[r][a].registeredAt # 0

DistinctRegistrations ==
    /\ \A r \in Registries, a \in Apps : reg[r][a].registeredAt <= now
    /\ \A r, s \in Registries, a, b \in Apps :
          Registered(r, a) /\ reg[r][a].registeredAt = reg[s][b].registeredAt
             => r = s /\ a = b

EarnedUnderPin ==
    \A p \in Providers :
        /\ ~serviceExists[p] => earners[p] = {}
        /\ kmsBindings[p].epoch <= now
        /\ \A r \in Registries, a \in Apps :
              kmsBindings[p].epoch # 0 /\ reg[r][a].registeredAt = kmsBindings[p].epoch
                 => earners[p] \subseteq {reg[r][a].owner}

MemoOnlyWhileSettling == check.checked => mode = "settling"

PinInv == /\ KmsServiceBound /\ MemoIsFresh /\ MemoOnlyWhileSettling
          /\ DistinctRegistrations /\ EarnedUnderPin

RepricedUnacked ==
    \A p \in Providers :
        serviceExists[p] /\ serviceExists'[p] /\ services'[p].price # services[p].price
           => reg'[tappRegistry][services[p].appId].acked = {}

\* When the price of a standing service changes, no acknowledgement of its app
\* survives the step (_upsertService).
PriceChangeInvalidatesAcks == [][RepricedUnacked]_vars

\* What the contract owes: balances and pending refunds to the users, earnings to
\* the providers.
AccountTotals == [up \in Pairs |-> balances[up] + pendingRefunds[up]]
Owed == SumFunction(AccountTotals) + SumFunction(providerEarnings)

\* The contract can pay everything it owes at every moment, also while a payout
\* is calling its receiver and the receiver re-enters: its ETH covers all
\* balances, pending refunds and earnings (deposit, requestRefund,
\* withdrawRefund, _settleOne, withdrawEarnings, removeService).
Solvency == vault >= Owed

\* requestRefund, deposit and the payouts keep what is owed equal to what is
\* held; only a settlement may leave held money that nobody is owed.
OnlySettlementStrands ==
    [][vault' - Owed' > vault - Owed => mode' = "settling"]_vars
=============================================================================
