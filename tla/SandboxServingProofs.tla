------------------------ MODULE SandboxServingProofs ------------------------
(* Theorems about the settlement contract, for every value of its constants. *)
EXTENDS SandboxServing, SumsAndFolds, TLAPS

-----------------------------------------------------------------------------
(* What the verdict on a voucher says. *)

\* A voucher that moves money has a fresh nonce, and one that succeeds is
\* covered by the balance.
LEMMA StatusMeaning ==
    ASSUME NEW v
    PROVE  /\ SettlementStatus(v) = "SUCCESS" =>
                 /\ ~NonceUsed(v)
                 /\ balances[<<v.user, v.provider>>] >= v.totalFee
           /\ SettlementStatus(v) = "INSUFFICIENT_BALANCE" => ~NonceUsed(v)
  BY DEF SettlementStatus

\* The memo written by a settlement is a memo.
LEMMA KeyCheckType ==
    ASSUME TypeOK, NEW p \in Providers
    PROVE  KeyCheck(p) \in ProviderCheck
  <1>1. ProviderKeyValid(p, services[p].appId) \in BOOLEAN
    <2>1. CASE kmsBindings[p].epoch # 0
      BY <2>1 DEF ProviderKeyValid
    <2>2. CASE kmsBindings[p].epoch = 0
      BY <2>2 DEF ProviderKeyValid, IsActiveNode
    <2> QED BY <2>1, <2>2
  <1> QED BY <1>1 DEF KeyCheck, TypeOK, ProviderCheck

LEMMA NoServiceType == NoService \in Service
  BY NonEmptyAssumption DEF NoService, Service

LEMMA NoCheckType == NoCheck \in ProviderCheck
  BY NonEmptyAssumption DEF NoCheck, ProviderCheck

LEMMA NoInfoType == NoInfo \in AppInfo
  BY DEF NoInfo, AppInfo

\* What the registry answers about any appId.
LEMMA AppInfoType ==
    ASSUME TypeOK, NEW a \in Apps \cup {NoApp}
    PROVE  GetAppInfo(a) \in AppInfo
  BY NoInfoType DEF GetAppInfo, TypeOK

-----------------------------------------------------------------------------
(* Type correctness. *)

LEMMA InitType == Init => TypeOK
  <1> SUFFICES ASSUME Init PROVE TypeOK
    OBVIOUS
  <1>1. services \in [Providers -> Service] /\ check \in ProviderCheck
    BY NoServiceType, NoCheckType DEF Init
  <1>2. reg \in [Registries -> [Apps -> AppInfo]]
    BY NoInfoType DEF Init
  <1>3. kmsBindings \in [Providers -> KmsBinding]
    BY DEF Init, KmsBinding
  <1> QED BY <1>1, <1>2, <1>3, InitAssumption DEF Init, TypeOK

LEMMA ChargeType ==
    ASSUME TypeOK, NEW v \in SandboxVoucher, NEW amount \in Nat, NEW balance \in Nat,
           NEW pending \in Nat, Charge(v, amount, balance, pending)
    PROVE  /\ balances' \in [Pairs -> Nat] /\ pendingRefunds' \in [Pairs -> Nat]
           /\ lastNonce' \in [Pairs -> Nat] /\ providerEarnings' \in [Providers -> Nat]
           /\ earners' \in [Providers -> SUBSET (Accounts \cup {Nobody})]
  <1>1. v.nonce \in Nat /\ v.user \in Users /\ v.provider \in Providers
    BY NoncesAssumption DEF SandboxVoucher
  <1>2. GetAppInfo(services[v.provider].appId).owner \in Accounts \cup {Nobody}
    <2>1. services[v.provider].appId \in Apps \cup {NoApp}
      BY <1>1 DEF TypeOK, Service
    <2> QED BY <2>1, AppInfoType DEF AppInfo
  <1>3. earners' \in [Providers -> SUBSET (Accounts \cup {Nobody})]
    BY <1>1, <1>2 DEF TypeOK, Charge
  <1> QED BY <1>1, <1>3 DEF TypeOK, Charge, Pairs

LEMMA SettleOneType ==
    ASSUME TypeOK, NEW v \in SandboxVoucher, SettleOne(v)
    PROVE  TypeOK'
  <1> DEFINE u == v.user  p == v.provider
  <1>1. v.totalFee \in Nat /\ <<u, p>> \in Pairs /\ p \in Providers
    BY FeesAssumption DEF SandboxVoucher, Pairs
  <1>2. balances[<<u, p>>] \in Nat /\ pendingRefunds[<<u, p>>] \in Nat
    BY <1>1 DEF TypeOK
  <1>3. /\ balances' \in [Pairs -> Nat] /\ pendingRefunds' \in [Pairs -> Nat]
        /\ lastNonce' \in [Pairs -> Nat] /\ providerEarnings' \in [Providers -> Nat]
        /\ earners' \in [Providers -> SUBSET (Accounts \cup {Nobody})]
    <2>1. CASE SettleSuccess(v)
      <3>1. balances[<<u, p>>] >= v.totalFee
        BY <2>1, StatusMeaning DEF SettleSuccess
      <3> DEFINE left == balances[<<u, p>>] - v.totalFee
                 pend == IF pendingRefunds[<<u, p>>] > left THEN left ELSE pendingRefunds[<<u, p>>]
      <3>2. left \in Nat /\ pend \in Nat
        BY <1>1, <1>2, <3>1
      <3>3. Charge(v, v.totalFee, left, pend)
        BY <2>1 DEF SettleSuccess
      <3> HIDE DEF left, pend
      <3> QED BY <1>1, <3>2, <3>3, ChargeType
    <2>2. CASE SettleInsufficient(v)
      <3>1. balances[<<u, p>>] + pendingRefunds[<<u, p>>] \in Nat
        BY <1>2
      <3> QED BY <2>2, <3>1, ChargeType DEF SettleInsufficient
    <2>3. CASE SettleRejected(v)
      BY <2>3 DEF SettleRejected, TypeOK
    <2> QED BY <2>1, <2>2, <2>3 DEF SettleOne
  <1>4. check' \in ProviderCheck
    BY <1>1, KeyCheckType DEF SettleOne, TypeOK
  <1> QED BY <1>3, <1>4 DEF SettleOne, TypeOK, serviceVars, adminVars

\* The actions on accounts.
LEMMA AccountType ==
    ASSUME TypeOK, NEW u \in Users, NEW p \in Providers
    PROVE  /\ \A amount \in Amounts : Deposit(u, p, amount) => TypeOK'
           /\ \A amount \in Amounts : RequestRefund(u, p, amount) => TypeOK'
           /\ WithdrawRefund(u, p) => TypeOK'
  <1>1. <<u, p>> \in Pairs /\ \A amount \in Amounts : amount \in Nat
    BY AmountsAssumption DEF Pairs
  <1>2. /\ balances[<<u, p>>] \in Nat /\ pendingRefunds[<<u, p>>] \in Nat
        /\ now + LockTime \in Nat
    BY <1>1, LockTimeAssumption DEF TypeOK
  <1>3. ASSUME NEW amount \in Amounts, Deposit(u, p, amount) PROVE TypeOK'
    <2>1. balances' \in [Pairs -> Nat]
      BY <1>1, <1>2, <1>3 DEF Deposit, TypeOK
    <2> QED BY <2>1, <1>1, <1>3 DEF Deposit, TypeOK, serviceVars, adminVars, txVars
  <1>4. ASSUME NEW amount \in Amounts, RequestRefund(u, p, amount) PROVE TypeOK'
    <2>1. /\ balances' \in [Pairs -> Nat]
          /\ pendingRefunds' \in [Pairs -> Nat]
          /\ refundUnlockAts' \in [Pairs -> Nat]
      BY <1>1, <1>2, <1>4 DEF RequestRefund, TypeOK
    <2> QED BY <2>1, <1>4 DEF RequestRefund, TypeOK, serviceVars, adminVars, txVars
  <1>5. ASSUME WithdrawRefund(u, p) PROVE TypeOK'
    BY <1>1, <1>2, <1>5 DEF WithdrawRefund, TypeOK, serviceVars, adminVars
  <1> QED BY <1>3, <1>4, <1>5

\* Registering or updating a service.
LEMMA UpsertType ==
    ASSUME TypeOK, NEW p \in Providers, NEW a \in Apps, NEW x \in Prices,
           UpsertService(p, a, x)
    PROVE  /\ services' \in [Providers -> Service]
           /\ serviceExists' \in [Providers -> BOOLEAN]
           /\ reg' \in [Registries -> [Apps -> AppInfo]]
  <1>1. services' \in [Providers -> Service] /\ serviceExists' \in [Providers -> BOOLEAN]
    BY DEF UpsertService, TypeOK, Service
  <1>2. ASSUME InvalidateAcks(a) PROVE reg' \in [Registries -> [Apps -> AppInfo]]
    <2> DEFINE info == [reg[tappRegistry][a] EXCEPT !.acked = {}]
    <2>0. reg[tappRegistry][a] \in AppInfo
      BY DEF TypeOK
    <2>1. info \in AppInfo
      BY <2>0 DEF AppInfo
    <2>2. reg' = [reg EXCEPT ![tappRegistry][a] = info]
      BY <1>2 DEF InvalidateAcks, TypeOK
    <2> HIDE DEF info
    <2> QED BY <2>1, <2>2 DEF TypeOK
  <1> QED BY <1>1, <1>2 DEF UpsertService, TypeOK

\* The actions of app owners.
LEMMA ServiceType ==
    ASSUME TypeOK, ServiceNext
    PROVE  TypeOK'
  <1> PICK p \in Providers, c \in Accounts :
        \/ WithdrawEarnings(p, c)
        \/ RemoveService(p, c)
        \/ \E a \in Apps, x \in Prices :
              \/ AddOrUpdateService(p, a, x, c)
              \/ \E n \in Signers : AddOrUpdateKmsService(p, a, x, n, c)
    BY DEF ServiceNext
  <1>1. CASE WithdrawEarnings(p, c)
    BY <1>1 DEF WithdrawEarnings, PayEarnings, TypeOK, accountVars, serviceVars, adminVars
  <1>2. CASE RemoveService(p, c)
    BY <1>2, NoServiceType
    DEF RemoveService, PayEarnings, TypeOK, accountVars, adminVars
  <1>3. ASSUME NEW a \in Apps, NEW x \in Prices, AddOrUpdateService(p, a, x, c)
        PROVE  TypeOK'
    BY <1>3, UpsertType DEF AddOrUpdateService, TypeOK, accountVars, adminVars, txVars
  <1>4. ASSUME NEW a \in Apps, NEW x \in Prices, NEW n \in Signers,
               AddOrUpdateKmsService(p, a, x, n, c)
        PROVE  TypeOK'
    <2>1. GetAppInfo(a).registeredAt \in Nat
      BY AppInfoType DEF AppInfo
    <2>2. kmsBindings' \in [Providers -> KmsBinding]
      BY <1>4, <2>1
      DEF AddOrUpdateKmsService, KmsFirstBind, KmsRebind, KmsBinding, TypeOK
    <2> QED BY <1>4, <2>2, UpsertType
        DEF AddOrUpdateKmsService, TypeOK, accountVars, adminVars, txVars
  <1> QED BY <1>1, <1>2, <1>3, <1>4

LEMMA AdminType ==
    ASSUME TypeOK, AdminNext
    PROVE  TypeOK'
  <1>1. ASSUME NEW c \in Admins, TransferOwnership(c) PROVE TypeOK'
    BY <1>1 DEF TransferOwnership, TypeOK, accountVars, serviceVars, txVars
  <1>2. ASSUME NEW r \in Registries, SetTappRegistry(r) PROVE TypeOK'
    BY <1>2 DEF SetTappRegistry, TypeOK, accountVars, serviceVars, txVars
  <1>3. ASSUME NEW p \in Providers, RepinKmsProvider(p) PROVE TypeOK'
    <2>1. services[p].appId \in Apps \cup {NoApp}
      BY DEF TypeOK, Service
    <2>2. GetAppInfo(services[p].appId).registeredAt \in Nat
      BY <2>1, AppInfoType DEF AppInfo
    <2>3. kmsBindings' \in [Providers -> KmsBinding]
      BY <1>3, <2>2 DEF RepinKmsProvider, KmsBinding, TypeOK
    <2> QED BY <1>3, <2>3 DEF RepinKmsProvider, TypeOK, accountVars, adminVars, txVars
  <1> QED BY <1>1, <1>2, <1>3 DEF AdminNext

\* The registry's own actions touch nothing but the registry and the clock.
LEMMA RegistryType ==
    ASSUME TypeOK, RegistryNext
    PROVE  TypeOK'
  <1> PICK r \in Registries, a \in Apps :
        \/ \E o \in Accounts, n \in Signers : RegisterApp(r, a, o, n)
        \/ \E n \in Signers : AddNode(r, a, n) \/ RemoveNode(r, a, n)
        \/ \E u \in Users : AcknowledgeApp(r, a, u) \/ RevokeAcknowledgement(r, a, u)
        \/ SetInvalidator(r, a)
    BY DEF RegistryNext
  <1>0. reg[r][a] \in AppInfo
    BY DEF TypeOK
  <1>1. ASSUME NEW info \in AppInfo, now' \in Nat, UnchangedByRegistry,
               reg' = [reg EXCEPT ![r][a] = info]
        PROVE  TypeOK'
    BY <1>1 DEF TypeOK, UnchangedByRegistry, accountVars, serviceVars, adminVars, txVars
  <1>2. ASSUME NEW o \in Accounts, NEW n \in Signers, RegisterApp(r, a, o, n)
        PROVE  TypeOK'
    <2> DEFINE info == [owner |-> o, registeredAt |-> now + 1, nodes |-> {n},
                        acked |-> reg[r][a].acked, invalidator |-> FALSE]
    <2>1. info \in AppInfo /\ now + 1 \in Nat
      BY <1>0 DEF TypeOK, AppInfo
    <2>2. reg' = [reg EXCEPT ![r][a] = info]
      BY <1>2 DEF RegisterApp, TypeOK
    <2> HIDE DEF info
    <2> QED BY <1>1, <1>2, <2>1, <2>2 DEF RegisterApp
  <1>3. ASSUME NEW n \in Signers, AddNode(r, a, n) PROVE TypeOK'
    <2> DEFINE info == [reg[r][a] EXCEPT !.nodes = @ \cup {n}]
    <2>1. info \in AppInfo
      BY <1>0 DEF AppInfo
    <2>2. reg' = [reg EXCEPT ![r][a] = info]
      BY <1>3 DEF AddNode, TypeOK
    <2> HIDE DEF info
    <2> QED BY <1>1, <1>3, <2>1, <2>2 DEF AddNode, TypeOK
  <1>4. ASSUME NEW n \in Signers, RemoveNode(r, a, n) PROVE TypeOK'
    <2>1. WithoutNode(reg[r][a], n) \in AppInfo
      BY <1>0, NoInfoType DEF WithoutNode, AppInfo
    <2> QED BY <1>1, <1>4, <2>1 DEF RemoveNode, TypeOK
  <1>5. ASSUME NEW u \in Users, AcknowledgeApp(r, a, u) PROVE TypeOK'
    <2> DEFINE info == [reg[r][a] EXCEPT !.acked = @ \cup {u}]
    <2>1. info \in AppInfo
      BY <1>0 DEF AppInfo
    <2>2. reg' = [reg EXCEPT ![r][a] = info]
      BY <1>5 DEF AcknowledgeApp, TypeOK
    <2> HIDE DEF info
    <2> QED BY <1>1, <1>5, <2>1, <2>2 DEF AcknowledgeApp, TypeOK
  <1>6. ASSUME NEW u \in Users, RevokeAcknowledgement(r, a, u) PROVE TypeOK'
    <2> DEFINE info == [reg[r][a] EXCEPT !.acked = @ \ {u}]
    <2>1. info \in AppInfo
      BY <1>0 DEF AppInfo
    <2>2. reg' = [reg EXCEPT ![r][a] = info]
      BY <1>6 DEF RevokeAcknowledgement, TypeOK
    <2> HIDE DEF info
    <2> QED BY <1>1, <1>6, <2>1, <2>2 DEF RevokeAcknowledgement, TypeOK
  <1>7. ASSUME SetInvalidator(r, a) PROVE TypeOK'
    <2> DEFINE info == [reg[r][a] EXCEPT !.invalidator = ~@]
    <2>1. info \in AppInfo
      BY <1>0 DEF AppInfo
    <2>2. reg' = [reg EXCEPT ![r][a] = info]
      BY <1>7 DEF SetInvalidator, TypeOK
    <2> HIDE DEF info
    <2> QED BY <1>1, <1>7, <2>1, <2>2 DEF SetInvalidator, TypeOK
  <1> QED BY <1>2, <1>3, <1>4, <1>5, <1>6, <1>7

LEMMA NextType == TypeOK /\ [Next]_vars => TypeOK'
  <1> SUFFICES ASSUME TypeOK, [Next]_vars PROVE TypeOK'
    OBVIOUS
  <1>1. CASE AccountNext
    BY <1>1, AccountType DEF AccountNext
  <1>2. CASE ReturnFromCall
    BY <1>2 DEF ReturnFromCall, TypeOK, accountVars, serviceVars, adminVars
  <1>3. CASE \E v \in SandboxVoucher : SettleOne(v)
    BY <1>3, SettleOneType
  <1>4. CASE EndSettle
    BY <1>4, NoCheckType DEF EndSettle, TypeOK, accountVars, serviceVars, adminVars
  <1>5. CASE Tick
    BY <1>5 DEF Tick, TypeOK, accountVars, serviceVars, adminVars, txVars
  <1>6. CASE UNCHANGED vars
    BY <1>6 DEF vars, TypeOK, accountVars, serviceVars, adminVars, txVars
  <1> QED BY <1>1, <1>2, <1>3, <1>4, <1>5, <1>6, ServiceType, AdminType, RegistryType
      DEF Next

\* Every account, price, binding and registry entry keeps its type: in
\* particular no balance, pending refund or earning ever goes below zero,
\* whatever the order of deposits, refunds, settlements and payouts.
THEOREM TypeCorrect == Spec => []TypeOK
  <1>1. Init => TypeOK
    BY InitType
  <1>2. TypeOK /\ [Next]_vars => TypeOK'
    BY NextType
  <1> QED BY <1>1, <1>2, PTL DEF Spec

-----------------------------------------------------------------------------
(* A nonce pays once. *)

\* Outside a settlement no nonce moves and nothing is earned.
LEMMA EarningFrame ==
    ASSUME TypeOK, [Next]_vars
    PROVE  \/ \E v \in SandboxVoucher : SettleOne(v)
           \/ /\ lastNonce' = lastNonce
              /\ \A p \in Providers : providerEarnings'[p] \in {providerEarnings[p], 0}
  <1>1. ASSUME AccountNext PROVE UNCHANGED <<lastNonce, providerEarnings>>
    BY <1>1 DEF AccountNext, Deposit, RequestRefund, WithdrawRefund
  <1>2. ASSUME AdminNext PROVE UNCHANGED <<lastNonce, providerEarnings>>
    BY <1>2 DEF AdminNext, TransferOwnership, SetTappRegistry, RepinKmsProvider, accountVars
  <1>3. ASSUME RegistryNext PROVE UNCHANGED <<lastNonce, providerEarnings>>
    BY <1>3 DEF RegistryNext, RegisterApp, AddNode, RemoveNode, AcknowledgeApp,
                RevokeAcknowledgement, SetInvalidator, UnchangedByRegistry, accountVars
  <1>4. ASSUME ReturnFromCall \/ EndSettle \/ Tick \/ UNCHANGED vars
        PROVE  UNCHANGED <<lastNonce, providerEarnings>>
    BY <1>4 DEF ReturnFromCall, EndSettle, Tick, vars, accountVars
  <1>5. ASSUME ServiceNext
        PROVE  /\ lastNonce' = lastNonce
               /\ \A p \in Providers : providerEarnings'[p] \in {providerEarnings[p], 0}
    BY <1>5 DEF ServiceNext, WithdrawEarnings, RemoveService, PayEarnings, AddOrUpdateService,
                AddOrUpdateKmsService, accountVars, TypeOK
  <1> QED BY <1>1, <1>2, <1>3, <1>4, <1>5 DEF Next

LEMMA QuietStep ==
    ASSUME TypeOK, lastNonce' = lastNonce,
           \A p \in Providers : providerEarnings'[p] \in {providerEarnings[p], 0}
    PROVE  NoncesGuardPayments
  <1> SUFFICES ASSUME NEW u \in Users, NEW p \in Providers
               PROVE  lastNonce'[<<u, p>>] >= lastNonce[<<u, p>>] /\ ~PaysProvider(u, p)
    BY DEF NoncesGuardPayments
  <1>1. lastNonce[<<u, p>>] \in Nat /\ providerEarnings[p] \in Nat
    BY DEF TypeOK, Pairs
  <1>2. lastNonce'[<<u, p>>] >= lastNonce[<<u, p>>]
    BY <1>1
  <1>3. ~(providerEarnings'[p] > providerEarnings[p])
    BY <1>1
  <1> QED BY <1>2, <1>3 DEF PaysProvider

\* A settlement moves the nonce of the voucher's account up, or nothing.
LEMMA SettlementMovesNonce ==
    ASSUME TypeOK, NEW v \in SandboxVoucher, SettleOne(v)
    PROVE  NoncesGuardPayments
  <1> DEFINE at == <<v.user, v.provider>>
  <1>1. at \in Pairs /\ v.nonce \in Nat
    BY NoncesAssumption DEF SandboxVoucher, Pairs
  <1>2. CASE SettleRejected(v)
    <2>1. UNCHANGED <<balances, pendingRefunds, lastNonce, providerEarnings>>
      BY <1>2 DEF SettleRejected
    <2> QED BY <2>1, QuietStep DEF TypeOK
  <1>3. ASSUME NEW amount, NEW balance, NEW pending, Charge(v, amount, balance, pending),
               ~NonceUsed(v)
        PROVE  NoncesGuardPayments
    <2>1. lastNonce[at] \in Nat /\ v.nonce > lastNonce[at]
      BY <1>1, <1>3 DEF NonceUsed, TypeOK
    <2>2. lastNonce' = [lastNonce EXCEPT ![at] = v.nonce]
      BY <1>3 DEF Charge
    <2>3. ASSUME NEW u \in Users, NEW p \in Providers
          PROVE  /\ lastNonce'[<<u, p>>] >= lastNonce[<<u, p>>]
                 /\ PaysProvider(u, p) => lastNonce'[<<u, p>>] > lastNonce[<<u, p>>]
      <3>1. <<u, p>> \in Pairs /\ lastNonce[<<u, p>>] \in Nat
        BY DEF Pairs, TypeOK
      <3>2. CASE <<u, p>> = at
        BY <1>1, <2>1, <2>2, <3>1, <3>2 DEF TypeOK
      <3>3. CASE <<u, p>> # at
        <4>1. lastNonce'[<<u, p>>] = lastNonce[<<u, p>>]
          BY <2>2, <3>1, <3>3 DEF TypeOK
        <4>2. /\ balances'[<<u, p>>] = balances[<<u, p>>]
              /\ pendingRefunds'[<<u, p>>] = pendingRefunds[<<u, p>>]
          BY <1>3, <3>1, <3>3 DEF Charge, TypeOK
        <4>3. balances[<<u, p>>] \in Nat /\ pendingRefunds[<<u, p>>] \in Nat
          BY <3>1 DEF TypeOK
        <4> QED BY <3>1, <4>1, <4>2, <4>3 DEF PaysProvider
      <3> QED BY <3>2, <3>3
    <2> QED BY <2>3 DEF NoncesGuardPayments
  <1>4. CASE SettleSuccess(v)
    BY <1>3, <1>4, StatusMeaning DEF SettleSuccess
  <1>5. CASE SettleInsufficient(v)
    BY <1>3, <1>5, StatusMeaning DEF SettleInsufficient
  <1> QED BY <1>2, <1>4, <1>5 DEF SettleOne

\* An account pays its provider only in a step that moves its settled nonce up,
\* and that nonce never goes down: a voucher cannot be settled twice, also not
\* after removeService and a new registration (_settleOne).
THEOREM NoReplayHolds == Spec => NoReplay
  <1>1. TypeOK /\ [Next]_vars => [NoncesGuardPayments]_vars
    <2> SUFFICES ASSUME TypeOK, [Next]_vars PROVE NoncesGuardPayments
      OBVIOUS
    <2>1. CASE \E v \in SandboxVoucher : SettleOne(v)
      BY <2>1, SettlementMovesNonce
    <2>2. CASE /\ lastNonce' = lastNonce
               /\ \A p \in Providers : providerEarnings'[p] \in {providerEarnings[p], 0}
      BY <2>2, QuietStep
    <2> QED BY <2>1, <2>2, EarningFrame
  <1> QED BY <1>1, TypeCorrect, PTL DEF Spec, NoReplay

-----------------------------------------------------------------------------
(* What the contract holds and what it owes. *)

\* One account and one provider's earnings change: what is owed changes by that.
LEMMA OwedMoves ==
    ASSUME TypeOK, TypeOK', NEW at \in Pairs, NEW p \in Providers,
           \A up \in Pairs \ {at} : /\ balances'[up] = balances[up]
                                    /\ pendingRefunds'[up] = pendingRefunds[up],
           \A q \in Providers \ {p} : providerEarnings'[q] = providerEarnings[q]
    PROVE  /\ Owed \in Nat /\ Owed' \in Nat
           /\ Owed' + balances[at] + pendingRefunds[at] + providerEarnings[p]
                = Owed + balances'[at] + pendingRefunds'[at] + providerEarnings'[p]
  <1> DEFINE f == AccountTotals   g == AccountTotals'
             e == providerEarnings   d == providerEarnings'
  <1>1. IsFiniteSet(Pairs) /\ IsFiniteSet(Providers)
    BY AddressAssumption, FS_Product DEF Pairs
  <1>2. /\ \A up \in Pairs : f[up] = balances[up] + pendingRefunds[up] /\ f[up] \in Nat
        /\ \A up \in Pairs : g[up] = balances'[up] + pendingRefunds'[up] /\ g[up] \in Nat
        /\ \A q \in Providers : e[q] \in Nat /\ d[q] \in Nat
        /\ DOMAIN f = Pairs /\ DOMAIN g = Pairs /\ DOMAIN e = Providers /\ DOMAIN d = Providers
    BY DEF TypeOK, AccountTotals
  <1>3. \A up \in Pairs \ {at} : g[up] = f[up]
    BY <1>2
  <1>4. /\ Owed = SumFunctionOnSet(f, Pairs) + SumFunctionOnSet(e, Providers)
        /\ Owed' = SumFunctionOnSet(g, Pairs) + SumFunctionOnSet(d, Providers)
    BY <1>2 DEF Owed, SumFunction
  <1> HIDE DEF f, g, e, d
  <1>5. /\ SumFunctionOnSet(f, Pairs) \in Nat /\ SumFunctionOnSet(g, Pairs) \in Nat
        /\ SumFunctionOnSet(e, Providers) \in Nat /\ SumFunctionOnSet(d, Providers) \in Nat
    BY <1>1, <1>2, SumIsNat
  <1>6. SumFunctionOnSet(g, Pairs) + f[at] = SumFunctionOnSet(f, Pairs) + g[at]
    BY <1>1, <1>2, <1>3, SumChanges
  <1>7. SumFunctionOnSet(d, Providers) + e[p] = SumFunctionOnSet(e, Providers) + d[p]
    BY <1>1, <1>2, SumChanges DEF e, d
  <1>8. /\ f[at] = balances[at] + pendingRefunds[at] /\ g[at] = balances'[at] + pendingRefunds'[at]
        /\ balances[at] \in Nat /\ pendingRefunds[at] \in Nat /\ balances'[at] \in Nat
        /\ pendingRefunds'[at] \in Nat /\ e[p] \in Nat /\ d[p] \in Nat
    BY <1>2 DEF TypeOK
  <1> QED BY <1>4, <1>5, <1>6, <1>7, <1>8 DEF e, d

\* What is owed depends on the accounts and the earnings alone.
LEMMA OwedStays ==
    ASSUME TypeOK, UNCHANGED <<balances, pendingRefunds, providerEarnings>>
    PROVE  Owed \in Nat /\ Owed' = Owed
  <1>1. IsFiniteSet(Pairs) /\ IsFiniteSet(Providers)
    BY AddressAssumption, FS_Product DEF Pairs
  <1>2. /\ DOMAIN AccountTotals = Pairs /\ DOMAIN providerEarnings = Providers
        /\ \A up \in Pairs : AccountTotals[up] \in Nat
        /\ \A q \in Providers : providerEarnings[q] \in Nat
    BY DEF TypeOK, AccountTotals
  <1>3. SumFunction(AccountTotals) \in Nat /\ SumFunction(providerEarnings) \in Nat
    BY <1>1, <1>2, SumIsNat DEF SumFunction
  <1>4. AccountTotals' = AccountTotals
    BY DEF AccountTotals
  <1> QED BY <1>3, <1>4 DEF Owed

\* What is held beyond what is owed.
Surplus == vault - Owed

\* No step but a settlement moves the surplus, and a settlement does not lower it.
SurplusKept ==
    /\ Owed \in Nat /\ Owed' \in Nat /\ vault \in Int /\ vault' \in Int
    /\ Surplus' >= Surplus
    /\ Surplus' > Surplus => mode' = "settling"

LEMMA SurplusStays ==
    ASSUME TypeOK, UNCHANGED <<balances, pendingRefunds, providerEarnings, vault>>
    PROVE  SurplusKept
  BY OwedStays DEF SurplusKept, Surplus, TypeOK

\* deposit, requestRefund, withdrawRefund: what comes in is owed, what goes out was.
LEMMA AccountsBalance ==
    ASSUME TypeOK, TypeOK', AccountNext
    PROVE  SurplusKept
  <1> PICK u \in Users, p \in Providers :
            \/ \E amount \in Amounts : Deposit(u, p, amount) \/ RequestRefund(u, p, amount)
            \/ WithdrawRefund(u, p)
    BY DEF AccountNext
  <1> DEFINE at == <<u, p>>
  <1>1. at \in Pairs
    BY DEF Pairs
  <1> HIDE DEF at
  <1>2. /\ balances[at] \in Nat /\ pendingRefunds[at] \in Nat /\ balances'[at] \in Nat
        /\ pendingRefunds'[at] \in Nat /\ vault \in Int /\ vault' \in Int /\ providerEarnings[p] \in Nat
    BY <1>1 DEF TypeOK
  <1>3. /\ providerEarnings' = providerEarnings
        /\ \A up \in Pairs \ {at} : balances'[up] = balances[up] /\ pendingRefunds'[up] = pendingRefunds[up]
    BY DEF Deposit, RequestRefund, WithdrawRefund, TypeOK, at
  <1>4. vault' + balances[at] + pendingRefunds[at] = vault + balances'[at] + pendingRefunds'[at]
    <2>1. ASSUME NEW amount \in Amounts, Deposit(u, p, amount)
          PROVE  vault' + balances[at] + pendingRefunds[at] = vault + balances'[at] + pendingRefunds'[at]
      BY <1>1, <1>2, <2>1, AmountsAssumption DEF Deposit, TypeOK, at
    <2>2. ASSUME NEW amount \in Amounts, RequestRefund(u, p, amount)
          PROVE  vault' + balances[at] + pendingRefunds[at] = vault + balances'[at] + pendingRefunds'[at]
      BY <1>1, <1>2, <2>2, AmountsAssumption DEF RequestRefund, TypeOK, at
    <2>3. CASE WithdrawRefund(u, p)
      BY <1>1, <1>2, <2>3 DEF WithdrawRefund, TypeOK, at
    <2> QED BY <2>1, <2>2, <2>3
  <1>5. /\ Owed \in Nat /\ Owed' \in Nat
        /\ Owed' + balances[at] + pendingRefunds[at] + providerEarnings[p]
             = Owed + balances'[at] + pendingRefunds'[at] + providerEarnings'[p]
    BY <1>1, <1>3, OwedMoves
  <1> QED BY <1>2, <1>3, <1>4, <1>5 DEF SurplusKept, Surplus

\* _settleOne: the earnings grow by no more than the account loses.
LEMMA SettlementBalances ==
    ASSUME TypeOK, TypeOK', NEW v \in SandboxVoucher, SettleOne(v)
    PROVE  SurplusKept
  <1> DEFINE at == <<v.user, v.provider>>   p == v.provider
  <1>1. at \in Pairs /\ p \in Providers /\ v.totalFee \in Nat
    BY FeesAssumption DEF SandboxVoucher, Pairs
  <1>2. /\ balances[at] \in Nat /\ pendingRefunds[at] \in Nat /\ balances'[at] \in Nat
        /\ pendingRefunds'[at] \in Nat /\ vault \in Int /\ providerEarnings[p] \in Nat
        /\ providerEarnings'[p] \in Nat
    BY <1>1 DEF TypeOK
  <1>3. vault' = vault /\ mode' = "settling"
    BY DEF SettleOne
  <1>4. CASE SettleRejected(v)
    BY <1>3, <1>4, SurplusStays DEF SettleRejected
  <1>5. ASSUME NEW amount \in Nat, NEW balance \in Nat, NEW pending \in Nat,
               amount + balance + pending <= balances[at] + pendingRefunds[at],
               Charge(v, amount, balance, pending)
        PROVE  SurplusKept
    <2>1. /\ balances' = [balances EXCEPT ![at] = balance]
          /\ pendingRefunds' = [pendingRefunds EXCEPT ![at] = pending]
          /\ providerEarnings' = [providerEarnings EXCEPT ![p] = @ + amount]
      BY <1>5 DEF Charge
    <2> HIDE DEF at, p
    <2>2. /\ balances'[at] = balance /\ pendingRefunds'[at] = pending
          /\ providerEarnings'[p] = providerEarnings[p] + amount
          /\ \A up \in Pairs \ {at} : balances'[up] = balances[up] /\ pendingRefunds'[up] = pendingRefunds[up]
          /\ \A q \in Providers \ {p} : providerEarnings'[q] = providerEarnings[q]
      BY <1>1, <2>1 DEF TypeOK
    <2>3. /\ Owed \in Nat /\ Owed' \in Nat
          /\ Owed' + balances[at] + pendingRefunds[at] + providerEarnings[p]
               = Owed + balances'[at] + pendingRefunds'[at] + providerEarnings'[p]
      BY <1>1, <2>2, OwedMoves
    <2> QED BY <1>2, <1>3, <1>5, <2>2, <2>3 DEF SurplusKept, Surplus
  <1>6. CASE SettleSuccess(v)
    <2> DEFINE left == balances[at] - v.totalFee
               pend == pendingRefunds[at]
    <2>1. balances[at] >= v.totalFee /\ Charge(v, v.totalFee, left, IF pend > left THEN left ELSE pend)
      BY <1>6, StatusMeaning DEF SettleSuccess
    <2> HIDE DEF at
    <2>2. left \in Nat /\ pend \in Nat /\ (IF pend > left THEN left ELSE pend) \in Nat
          /\ v.totalFee + left + (IF pend > left THEN left ELSE pend) <= balances[at] + pendingRefunds[at]
      BY <1>1, <1>2, <2>1
    <2> QED BY <1>1, <1>5, <2>1, <2>2
  <1>7. CASE SettleInsufficient(v)
    <2>1. Charge(v, balances[at] + pendingRefunds[at], 0, 0)
      BY <1>7 DEF SettleInsufficient
    <2> HIDE DEF at
    <2>2. balances[at] + pendingRefunds[at] \in Nat
          /\ (balances[at] + pendingRefunds[at]) + 0 + 0 <= balances[at] + pendingRefunds[at]
      BY <1>2
    <2> QED BY <1>5, <2>1, <2>2
  <1> QED BY <1>4, <1>6, <1>7 DEF SettleOne

\* withdrawEarnings and removeService pay out what the provider is owed.
LEMMA PayoutBalances ==
    ASSUME TypeOK, TypeOK', NEW p \in Providers, PayEarnings(p), UNCHANGED <<balances, pendingRefunds>>
    PROVE  SurplusKept
  <1>1. CASE Users = {}
    <2>1. UNCHANGED AccountTotals /\ Pairs = {}
      BY <1>1 DEF AccountTotals, Pairs
    <2> DEFINE e == providerEarnings   d == providerEarnings'
    <2>2. IsFiniteSet(Providers) /\ DOMAIN e = Providers /\ DOMAIN d = Providers
          /\ (\A q \in Providers : e[q] \in Nat /\ d[q] \in Nat) /\ d[p] = 0
          /\ (\A q \in Providers \ {p} : d[q] = e[q]) /\ vault' = vault - e[p] /\ vault \in Int
      BY AddressAssumption DEF TypeOK, PayEarnings
    <2>3. IsFiniteSet(Pairs) /\ DOMAIN AccountTotals = Pairs /\ \A up \in Pairs : AccountTotals[up] \in Nat
      BY <2>1, FS_EmptySet DEF AccountTotals
    <2>4. SumFunction(AccountTotals) \in Nat
      BY <2>3, SumIsNat DEF SumFunction
    <2> HIDE DEF e, d
    <2>5. SumFunctionOnSet(d, Providers) + e[p] = SumFunctionOnSet(e, Providers) + d[p]
          /\ SumFunctionOnSet(d, Providers) \in Nat /\ SumFunctionOnSet(e, Providers) \in Nat
      BY <2>2, SumChanges, SumIsNat
    <2>6. /\ Owed = SumFunction(AccountTotals) + SumFunctionOnSet(e, Providers)
          /\ Owed' = SumFunction(AccountTotals) + SumFunctionOnSet(d, Providers)
      BY <2>1, <2>2 DEF Owed, SumFunction, e, d
    <2> QED BY <2>2, <2>4, <2>5, <2>6 DEF SurplusKept, Surplus
  <1>2. CASE Users # {}
    <2>0. PICK u \in Users : TRUE
      BY <1>2
    <2> DEFINE at == <<u, p>>
    <2>1. at \in Pairs
      BY DEF Pairs
    <2> HIDE DEF at
    <2>2. /\ providerEarnings'[p] = 0 /\ vault' = vault - providerEarnings[p] /\ vault \in Int
          /\ providerEarnings[p] \in Nat
          /\ \A q \in Providers \ {p} : providerEarnings'[q] = providerEarnings[q]
      BY DEF PayEarnings, TypeOK
    <2>3. balances[at] \in Nat /\ pendingRefunds[at] \in Nat
      BY <2>1 DEF TypeOK
    <2>4. /\ Owed \in Nat /\ Owed' \in Nat
          /\ Owed' + balances[at] + pendingRefunds[at] + providerEarnings[p]
               = Owed + balances'[at] + pendingRefunds'[at] + providerEarnings'[p]
      BY <2>1, <2>2, OwedMoves
    <2> QED BY <2>2, <2>3, <2>4 DEF SurplusKept, Surplus
  <1> QED BY <1>1, <1>2

\* Every step of the contract, the registry and the clock.
LEMMA SurplusNext ==
    ASSUME TypeOK, [Next]_vars
    PROVE  SurplusKept
  <1>0. TypeOK'
    BY NextType
  <1>1. CASE AccountNext
    BY <1>0, <1>1, AccountsBalance
  <1>2. CASE \E v \in SandboxVoucher : SettleOne(v)
    BY <1>0, <1>2, SettlementBalances
  <1>3. CASE ServiceNext
    <2>1. \/ \E p \in Providers : PayEarnings(p) /\ UNCHANGED <<balances, pendingRefunds>>
          \/ UNCHANGED <<balances, pendingRefunds, providerEarnings, vault>>
      BY <1>3 DEF ServiceNext, WithdrawEarnings, RemoveService, AddOrUpdateService,
                  AddOrUpdateKmsService, accountVars
    <2> QED BY <1>0, <2>1, PayoutBalances, SurplusStays
  <1>4. CASE AdminNext
    BY <1>4, SurplusStays DEF AdminNext, TransferOwnership, SetTappRegistry, RepinKmsProvider, accountVars
  <1>5. CASE RegistryNext
    BY <1>5, SurplusStays DEF RegistryNext, RegisterApp, AddNode, RemoveNode, AcknowledgeApp,
                RevokeAcknowledgement, SetInvalidator, UnchangedByRegistry, accountVars
  <1>6. CASE ReturnFromCall \/ EndSettle \/ Tick \/ UNCHANGED vars
    BY <1>6, SurplusStays DEF ReturnFromCall, EndSettle, Tick, vars, accountVars
  <1> QED BY <1>1, <1>2, <1>3, <1>4, <1>5, <1>6 DEF Next

\* The contract starts with nothing and owes nothing.
LEMMA SolventAtFirst == ASSUME Init PROVE Solvency
  <1>1. IsFiniteSet(Pairs) /\ IsFiniteSet(Providers)
    BY AddressAssumption, FS_Product DEF Pairs
  <1>2. /\ DOMAIN AccountTotals = Pairs /\ \A up \in Pairs : AccountTotals[up] = 0
        /\ DOMAIN providerEarnings = Providers /\ \A p \in Providers : providerEarnings[p] = 0
        /\ vault = 0
    BY DEF Init, AccountTotals
  <1>3. SumFunction(AccountTotals) = 0 /\ SumFunction(providerEarnings) = 0
    BY <1>1, <1>2, SumOfZeros DEF SumFunction
  <1> QED BY <1>2, <1>3 DEF Solvency, Owed

\* The contract's ETH covers every balance, pending refund and earning at every
\* moment, for any number of users and providers: no sequence of deposits, refunds,
\* settlements, payouts and re-entrant calls makes it owe more than it holds.
THEOREM SolvencyHolds == Spec => []Solvency
  <1>1. TypeOK /\ Solvency /\ [Next]_vars => Solvency'
    <2> SUFFICES ASSUME TypeOK, Solvency, [Next]_vars PROVE Solvency'
      OBVIOUS
    <2>1. SurplusKept
      BY SurplusNext
    <2>2. Owed \in Nat /\ Owed' \in Nat /\ vault \in Int /\ vault' \in Int
      BY <2>1 DEF SurplusKept
    <2>3. vault' - Owed' >= vault - Owed /\ vault >= Owed
      BY <2>1 DEF SurplusKept, Surplus, Solvency
    <2>4. \A h, k \in Int, o, q \in Nat : h >= o /\ k - q >= h - o => k >= q
      OBVIOUS
    <2>5. vault' >= Owed'
      BY <2>2, <2>3, <2>4
    <2> QED BY <2>5 DEF Solvency
  <1> QED BY <1>1, SolventAtFirst, TypeCorrect, PTL DEF Spec

\* Money that nobody is owed is left by settlements alone; every deposit, refund and
\* payout changes what is held by as much as what is owed.
THEOREM OnlySettlementStrandsHolds == Spec => OnlySettlementStrands
  <1>1. TypeOK /\ [Next]_vars => [vault' - Owed' > vault - Owed => mode' = "settling"]_vars
    BY SurplusNext DEF SurplusKept, Surplus
  <1> QED BY <1>1, TypeCorrect, PTL DEF Spec, OnlySettlementStrands

-----------------------------------------------------------------------------
(* The KMS binding and its epoch pin: what protects a provider's earnings when *)
(* its appId is registered again.  First, which steps touch what.              *)

\* Services and bindings change only by their owners' calls and by a re-pin.
LEMMA ServiceFrame ==
    ASSUME [Next]_vars
    PROVE  ServiceNext \/ (\E p \in Providers : RepinKmsProvider(p)) \/ UNCHANGED serviceVars
  <1>1. ASSUME AccountNext PROVE UNCHANGED serviceVars
    BY <1>1 DEF AccountNext, Deposit, RequestRefund, WithdrawRefund
  <1>2. ASSUME AdminNext
        PROVE  (\E p \in Providers : RepinKmsProvider(p)) \/ UNCHANGED serviceVars
    BY <1>2 DEF AdminNext, TransferOwnership, SetTappRegistry
  <1>3. ASSUME RegistryNext PROVE UNCHANGED serviceVars
    BY <1>3 DEF RegistryNext, RegisterApp, AddNode, RemoveNode, AcknowledgeApp,
                RevokeAcknowledgement, SetInvalidator, UnchangedByRegistry
  <1>4. ASSUME NEW v \in SandboxVoucher, SettleOne(v) PROVE UNCHANGED serviceVars
    BY <1>4 DEF SettleOne
  <1>5. ASSUME ReturnFromCall \/ EndSettle \/ Tick \/ UNCHANGED vars
        PROVE  UNCHANGED serviceVars
    BY <1>5 DEF ReturnFromCall, EndSettle, Tick, vars
  <1> QED BY <1>1, <1>2, <1>3, <1>4, <1>5 DEF Next

\* While a settlement runs, nothing but the settlement runs.
LEMMA SettlementIsAlone ==
    ASSUME [Next]_vars, mode = "settling"
    PROVE  (\E v \in SandboxVoucher : SettleOne(v)) \/ EndSettle \/ UNCHANGED vars
  <1>1. ~Free /\ ~Callable /\ mode # "calling"
    BY DEF Free, Callable
  <1>2. ~AccountNext
    BY <1>1 DEF AccountNext, Deposit, RequestRefund, WithdrawRefund
  <1>3. ~ServiceNext
    BY <1>1 DEF ServiceNext, WithdrawEarnings, RemoveService, AddOrUpdateService,
                AddOrUpdateKmsService
  <1>4. ~AdminNext
    BY <1>1 DEF AdminNext, TransferOwnership, SetTappRegistry, RepinKmsProvider
  <1>5. ~RegistryNext
    BY <1>1 DEF RegistryNext, RegisterApp, AddNode, RemoveNode, AcknowledgeApp,
                RevokeAcknowledgement, SetInvalidator
  <1>6. ~Tick /\ ~ReturnFromCall
    BY <1>1 DEF Tick, ReturnFromCall
  <1> QED BY <1>2, <1>3, <1>4, <1>5, <1>6 DEF Next

\* Only a settlement writes the memo.
LEMMA MemoFrame ==
    ASSUME [Next]_vars
    PROVE  (\E v \in SandboxVoucher : SettleOne(v)) \/ check' \in {check, NoCheck}
  <1>1. ASSUME AccountNext PROVE check' = check
    BY <1>1 DEF AccountNext, Deposit, RequestRefund, WithdrawRefund, txVars
  <1>2. ASSUME AdminNext PROVE check' = check
    BY <1>2 DEF AdminNext, TransferOwnership, SetTappRegistry, RepinKmsProvider, txVars
  <1>3. ASSUME RegistryNext PROVE check' = check
    BY <1>3 DEF RegistryNext, RegisterApp, AddNode, RemoveNode, AcknowledgeApp,
                RevokeAcknowledgement, SetInvalidator, UnchangedByRegistry, txVars
  <1>4. ASSUME ServiceNext PROVE check' = check
    BY <1>4 DEF ServiceNext, WithdrawEarnings, RemoveService, AddOrUpdateService,
                AddOrUpdateKmsService, txVars
  <1>5. ASSUME ReturnFromCall \/ EndSettle \/ Tick \/ UNCHANGED vars
        PROVE  check' \in {check, NoCheck}
    BY <1>5 DEF ReturnFromCall, EndSettle, Tick, vars, txVars
  <1> QED BY <1>1, <1>2, <1>3, <1>4, <1>5 DEF Next

-----------------------------------------------------------------------------
(* A KMS provider's service is of the app it is bound to. *)

LEMMA UpsertBinds ==
    ASSUME TypeOK, KmsServiceBound, NEW p \in Providers, NEW a \in Apps, NEW x \in Prices,
           UpsertService(p, a, x),
           \A q \in Providers : q # p => kmsBindings'[q] = kmsBindings[q],
           kmsBindings'[p].epoch # 0 => kmsBindings'[p].appId = a
    PROVE  KmsServiceBound'
  <1>1. services' = [services EXCEPT ![p] = [appId |-> a, price |-> x]]
        /\ serviceExists' = [serviceExists EXCEPT ![p] = TRUE]
    BY DEF UpsertService
  <1>2. services'[p].appId = a /\ serviceExists'[p] /\ a # NoApp
    BY <1>1, NullAssumption DEF TypeOK
  <1>3. \A q \in Providers : q # p =>
           services'[q] = services[q] /\ serviceExists'[q] = serviceExists[q]
    BY <1>1 DEF TypeOK
  <1> QED BY <1>2, <1>3 DEF KmsServiceBound

LEMMA KmsServiceBoundNext ==
    ASSUME TypeOK, KmsServiceBound, [Next]_vars
    PROVE  KmsServiceBound'
  <1>1. CASE UNCHANGED serviceVars
    BY <1>1 DEF serviceVars, KmsServiceBound
  <1>2. ASSUME NEW p \in Providers, RepinKmsProvider(p) PROVE KmsServiceBound'
    <2>1. \A q \in Providers : kmsBindings'[q].appId = kmsBindings[q].appId
      BY <1>2 DEF RepinKmsProvider, TypeOK, KmsBinding
    <2>2. \A q \in Providers : kmsBindings'[q].epoch # 0 => kmsBindings[q].epoch # 0
      BY <1>2 DEF RepinKmsProvider, TypeOK, KmsBinding
    <2> QED BY <1>2, <2>1, <2>2 DEF RepinKmsProvider, KmsServiceBound
  <1>3. ASSUME NEW p \in Providers, NEW c \in Accounts, WithdrawEarnings(p, c)
        PROVE  KmsServiceBound'
    BY <1>3 DEF WithdrawEarnings, serviceVars, KmsServiceBound
  <1>4. ASSUME NEW p \in Providers, NEW c \in Accounts, RemoveService(p, c)
        PROVE  KmsServiceBound'
    <2>1. services'[p].appId = NoApp /\ serviceExists'[p] = FALSE
      BY <1>4 DEF RemoveService, TypeOK, NoService
    <2>2. \A q \in Providers : q # p =>
             services'[q] = services[q] /\ serviceExists'[q] = serviceExists[q]
      BY <1>4 DEF RemoveService, TypeOK
    <2> QED BY <1>4, <2>1, <2>2 DEF RemoveService, KmsServiceBound
  <1>5. ASSUME NEW p \in Providers, NEW c \in Accounts, NEW a \in Apps, NEW x \in Prices,
               AddOrUpdateService(p, a, x, c)
        PROVE  KmsServiceBound'
    BY <1>5, UpsertBinds DEF AddOrUpdateService
  <1>6. ASSUME NEW p \in Providers, NEW c \in Accounts, NEW a \in Apps, NEW x \in Prices,
               NEW n \in Signers, AddOrUpdateKmsService(p, a, x, n, c)
        PROVE  KmsServiceBound'
    <2>1. /\ \A q \in Providers : q # p => kmsBindings'[q] = kmsBindings[q]
          /\ kmsBindings'[p].appId = a
      BY <1>6 DEF AddOrUpdateKmsService, KmsFirstBind, KmsRebind, TypeOK
    <2> QED BY <1>6, <2>1, UpsertBinds DEF AddOrUpdateKmsService
  <1> QED BY <1>1, <1>2, <1>3, <1>4, <1>5, <1>6, ServiceFrame DEF ServiceNext

\* A KMS provider's service always belongs to the app the provider was bound
\* to, through removal, registration again and re-pinning, and a service exists
\* exactly while it has an appId (addOrUpdateKmsService, _upsertService).
THEOREM KmsServiceBoundHolds == Spec => []KmsServiceBound
  <1>1. Init => KmsServiceBound
    BY DEF Init, KmsServiceBound, NoService
  <1>2. TypeOK /\ KmsServiceBound /\ [Next]_vars => KmsServiceBound'
    BY KmsServiceBoundNext
  <1> QED BY <1>1, <1>2, TypeCorrect, PTL DEF Spec

-----------------------------------------------------------------------------
(* The memo of a settlement batch. *)

LEMMA MemoNext ==
    ASSUME TypeOK, MemoIsFresh, MemoOnlyWhileSettling, [Next]_vars
    PROVE  MemoIsFresh' /\ MemoOnlyWhileSettling'
  <1>1. ASSUME NEW v \in SandboxVoucher, SettleOne(v)
        PROVE  MemoIsFresh' /\ MemoOnlyWhileSettling'
    <2>1. v.provider \in Providers
      BY DEF SandboxVoucher
    <2>2. check' \in {check, KeyCheck(v.provider)} /\ mode' = "settling"
      BY <1>1 DEF SettleOne
    <2>3. \A p, a : ProviderKeyValid(p, a)' = ProviderKeyValid(p, a)
      BY <1>1 DEF SettleOne, ProviderKeyValid, IsActiveNode, GetAppInfo, serviceVars, adminVars
    <2>4. services' = services
      BY <1>1 DEF SettleOne, serviceVars
    <2>5. KeyCheck(v.provider).checked =>
             KeyCheck(v.provider).valid =
                ProviderKeyValid(KeyCheck(v.provider).provider,
                                 services[KeyCheck(v.provider).provider].appId)
      BY DEF KeyCheck, MemoIsFresh
    <2> QED BY <2>2, <2>3, <2>4, <2>5 DEF MemoIsFresh, MemoOnlyWhileSettling
  <1>2. CASE mode = "settling"
    <2>1. ASSUME EndSettle PROVE MemoIsFresh' /\ MemoOnlyWhileSettling'
      BY <2>1 DEF EndSettle, NoCheck, MemoIsFresh, MemoOnlyWhileSettling
    <2>2. ASSUME UNCHANGED vars PROVE MemoIsFresh' /\ MemoOnlyWhileSettling'
      BY <2>2 DEF vars, serviceVars, adminVars, txVars, MemoIsFresh, MemoOnlyWhileSettling,
                  ProviderKeyValid, IsActiveNode, GetAppInfo
    <2> QED BY <1>1, <1>2, <2>1, <2>2, SettlementIsAlone
  <1>3. CASE mode # "settling"
    <2>1. ~check.checked
      BY <1>3 DEF MemoOnlyWhileSettling
    <2>2. ASSUME check' \in {check, NoCheck} PROVE ~check'.checked
      BY <2>1, <2>2 DEF NoCheck
    <2> QED BY <1>1, <2>2, MemoFrame DEF MemoIsFresh, MemoOnlyWhileSettling
  <1> QED BY <1>2, <1>3

\* Reading the registry once per run of vouchers of one provider is sound: the
\* memo never disagrees with what the registry would answer (ProviderCheck).
THEOREM MemoIsFreshHolds == Spec => []MemoIsFresh
  <1>1. Init => MemoIsFresh /\ MemoOnlyWhileSettling
    BY DEF Init, MemoIsFresh, MemoOnlyWhileSettling, NoCheck
  <1>2. /\ TypeOK /\ MemoIsFresh /\ MemoOnlyWhileSettling /\ [Next]_vars
        => MemoIsFresh' /\ MemoOnlyWhileSettling'
    BY MemoNext
  <1> QED BY <1>1, <1>2, TypeCorrect, PTL DEF Spec

-----------------------------------------------------------------------------
(* Registrations have distinct timestamps. *)

\* The clock and the registry entries move only in these ways.
LEMMA RegistryFrame ==
    ASSUME TypeOK, [Next]_vars
    PROVE  /\ now' \in {now, now + 1}
           /\ \/ \E r \in Registries, a \in Apps, o \in Accounts, n \in Signers :
                    RegisterApp(r, a, o, n)
              \/ \A r \in Registries, a \in Apps :
                    \/ reg'[r][a].registeredAt = 0
                    \/ /\ reg'[r][a].registeredAt = reg[r][a].registeredAt
                       /\ reg'[r][a].owner = reg[r][a].owner
  <1> DEFINE Calm == \A r \in Registries, a \in Apps :
                        \/ reg'[r][a].registeredAt = 0
                        \/ /\ reg'[r][a].registeredAt = reg[r][a].registeredAt
                           /\ reg'[r][a].owner = reg[r][a].owner
             Registers == \E r \in Registries, a \in Apps, o \in Accounts, n \in Signers :
                             RegisterApp(r, a, o, n)
  <1>0. ASSUME UNCHANGED reg PROVE Calm
    BY <1>0
  <1>1. ASSUME NEW s \in Registries, NEW b \in Apps, NEW info,
               reg' = [reg EXCEPT ![s][b] = info],
               \/ info.registeredAt = 0
               \/ info.registeredAt = reg[s][b].registeredAt /\ info.owner = reg[s][b].owner
        PROVE  Calm
    <2>1. reg'[s][b] = info
      BY <1>1 DEF TypeOK
    <2>2. \A r \in Registries, a \in Apps : r # s \/ a # b => reg'[r][a] = reg[r][a]
      BY <1>1 DEF TypeOK
    <2> QED BY <1>1, <2>1, <2>2
  <1>2. ASSUME NEW s \in Registries, NEW b \in Apps PROVE reg[s][b] \in AppInfo
    BY DEF TypeOK
  <1>3. ASSUME AccountNext \/ AdminNext PROVE now' = now /\ Calm
    BY <1>3, <1>0 DEF AccountNext, Deposit, RequestRefund, WithdrawRefund, AdminNext,
                      TransferOwnership, SetTappRegistry, RepinKmsProvider
  <1>4. ASSUME NEW v \in SandboxVoucher, SettleOne(v) PROVE now' = now /\ Calm
    BY <1>4, <1>0 DEF SettleOne
  <1>5. ASSUME ReturnFromCall \/ EndSettle \/ Tick \/ UNCHANGED vars
        PROVE  now' \in {now, now + 1} /\ Calm
    BY <1>5, <1>0 DEF ReturnFromCall, EndSettle, Tick, vars
  <1>6. ASSUME NEW a \in Apps, NEW p, NEW x, UpsertService(p, a, x) PROVE Calm
    <2>1. ASSUME InvalidateAcks(a) PROVE Calm
      <3> DEFINE info == [reg[tappRegistry][a] EXCEPT !.acked = {}]
      <3>1. tappRegistry \in Registries
        BY DEF TypeOK
      <3>2. reg' = [reg EXCEPT ![tappRegistry][a] = info]
        BY <2>1 DEF InvalidateAcks, TypeOK
      <3>3. info.registeredAt = reg[tappRegistry][a].registeredAt
            /\ info.owner = reg[tappRegistry][a].owner
        BY <1>2, <3>1 DEF AppInfo
      <3> HIDE DEF info, Calm
      <3> QED BY <1>1, <3>1, <3>2, <3>3
    <2> HIDE DEF Calm
    <2> QED BY <1>6, <1>0, <2>1 DEF UpsertService
  <1>7. ASSUME ServiceNext PROVE now' = now /\ Calm
    <2>1. now' = now
      BY <1>7 DEF ServiceNext, WithdrawEarnings, RemoveService, AddOrUpdateService,
                  AddOrUpdateKmsService
    <2> HIDE DEF Calm
    <2> QED BY <1>7, <2>1, <1>0, <1>6
        DEF ServiceNext, WithdrawEarnings, RemoveService, AddOrUpdateService,
            AddOrUpdateKmsService
  <1>8. ASSUME RegistryNext PROVE now' \in {now, now + 1} /\ (Registers \/ Calm)
    <2> PICK r \in Registries, a \in Apps :
          \/ \E o \in Accounts, n \in Signers : RegisterApp(r, a, o, n)
          \/ \E n \in Signers : AddNode(r, a, n) \/ RemoveNode(r, a, n)
          \/ \E u \in Users : AcknowledgeApp(r, a, u) \/ RevokeAcknowledgement(r, a, u)
          \/ SetInvalidator(r, a)
      BY <1>8 DEF RegistryNext
    <2>1. ASSUME NEW o \in Accounts, NEW n \in Signers, RegisterApp(r, a, o, n)
          PROVE  now' = now + 1 /\ Registers
      BY <2>1 DEF RegisterApp
    <2>2. ASSUME NEW n \in Signers, AddNode(r, a, n) PROVE now' = now /\ Calm
      <3> DEFINE info == [reg[r][a] EXCEPT !.nodes = @ \cup {n}]
      <3>1. reg' = [reg EXCEPT ![r][a] = info] /\ now' = now
        BY <2>2 DEF AddNode, TypeOK
      <3>2. info.registeredAt = reg[r][a].registeredAt /\ info.owner = reg[r][a].owner
        BY <1>2 DEF AppInfo
      <3> HIDE DEF info, Calm
      <3> QED BY <1>1, <3>1, <3>2
    <2>3. ASSUME NEW n \in Signers, RemoveNode(r, a, n) PROVE now' = now /\ Calm
      <3> DEFINE info == WithoutNode(reg[r][a], n)
      <3>1. reg' = [reg EXCEPT ![r][a] = info] /\ now' = now
        BY <2>3 DEF RemoveNode
      <3>2. \/ info.registeredAt = 0
            \/ info.registeredAt = reg[r][a].registeredAt /\ info.owner = reg[r][a].owner
        BY <1>2 DEF AppInfo, WithoutNode, NoInfo
      <3> HIDE DEF info, Calm
      <3> QED BY <1>1, <3>1, <3>2
    <2>4. ASSUME NEW u \in Users, AcknowledgeApp(r, a, u) PROVE now' = now /\ Calm
      <3> DEFINE info == [reg[r][a] EXCEPT !.acked = @ \cup {u}]
      <3>1. reg' = [reg EXCEPT ![r][a] = info] /\ now' = now
        BY <2>4 DEF AcknowledgeApp, TypeOK
      <3>2. info.registeredAt = reg[r][a].registeredAt /\ info.owner = reg[r][a].owner
        BY <1>2 DEF AppInfo
      <3> HIDE DEF info, Calm
      <3> QED BY <1>1, <3>1, <3>2
    <2>5. ASSUME NEW u \in Users, RevokeAcknowledgement(r, a, u) PROVE now' = now /\ Calm
      <3> DEFINE info == [reg[r][a] EXCEPT !.acked = @ \ {u}]
      <3>1. reg' = [reg EXCEPT ![r][a] = info] /\ now' = now
        BY <2>5 DEF RevokeAcknowledgement, TypeOK
      <3>2. info.registeredAt = reg[r][a].registeredAt /\ info.owner = reg[r][a].owner
        BY <1>2 DEF AppInfo
      <3> HIDE DEF info, Calm
      <3> QED BY <1>1, <3>1, <3>2
    <2>6. ASSUME SetInvalidator(r, a) PROVE now' = now /\ Calm
      <3> DEFINE info == [reg[r][a] EXCEPT !.invalidator = ~@]
      <3>1. reg' = [reg EXCEPT ![r][a] = info] /\ now' = now
        BY <2>6 DEF SetInvalidator, TypeOK
      <3>2. info.registeredAt = reg[r][a].registeredAt /\ info.owner = reg[r][a].owner
        BY <1>2 DEF AppInfo
      <3> HIDE DEF info, Calm
      <3> QED BY <1>1, <3>1, <3>2
    <2> HIDE DEF Calm, Registers
    <2> QED BY <2>1, <2>2, <2>3, <2>4, <2>5, <2>6
  <1>9. now' \in {now, now + 1} /\ (Registers \/ Calm)
    <2> HIDE DEF Calm, Registers
    <2> QED BY <1>3, <1>4, <1>5, <1>7, <1>8 DEF Next
  <1> QED BY <1>9

\* What a new registration looks like.
LEMMA RegisterAppMeaning ==
    ASSUME TypeOK, NEW r \in Registries, NEW a \in Apps, NEW o \in Accounts,
           NEW n \in Signers, RegisterApp(r, a, o, n)
    PROVE  /\ reg'[r][a].registeredAt = now + 1 /\ now' = now + 1
           /\ \A s \in Registries, b \in Apps : s # r \/ b # a => reg'[s][b] = reg[s][b]
  <1> DEFINE info == [owner |-> o, registeredAt |-> now + 1, nodes |-> {n},
                      acked |-> reg[r][a].acked, invalidator |-> FALSE]
  <1>1. reg' = [reg EXCEPT ![r][a] = info] /\ now' = now + 1
    BY DEF RegisterApp, TypeOK
  <1>2. info.registeredAt = now + 1
    OBVIOUS
  <1> HIDE DEF info
  <1> QED BY <1>1, <1>2 DEF TypeOK

LEMMA TimesType ==
    ASSUME TypeOK, NEW r \in Registries, NEW a \in Apps
    PROVE  reg[r][a].registeredAt \in Nat /\ now \in Nat
  <1>1. reg[r][a] \in AppInfo
    BY DEF TypeOK
  <1> QED BY <1>1 DEF AppInfo, TypeOK

LEMMA DistinctNext ==
    ASSUME TypeOK, DistinctRegistrations, [Next]_vars
    PROVE  DistinctRegistrations'
  <1>1. ASSUME NEW r \in Registries, NEW a \in Apps, NEW o \in Accounts,
               NEW n \in Signers, RegisterApp(r, a, o, n)
        PROVE  DistinctRegistrations'
    <2>1. /\ reg'[r][a].registeredAt = now + 1 /\ now' = now + 1
          /\ \A s \in Registries, b \in Apps : s # r \/ b # a => reg'[s][b] = reg[s][b]
      BY <1>1, RegisterAppMeaning
    <2>2. \A s \in Registries, b \in Apps :
             reg[s][b].registeredAt \in Nat /\ now \in Nat /\ reg[s][b].registeredAt <= now
      BY TimesType DEF DistinctRegistrations
    <2>3. \A s \in Registries, b \in Apps : reg'[s][b].registeredAt <= now'
      BY <2>1, <2>2
    <2>4. ASSUME NEW s \in Registries, NEW t \in Registries, NEW b \in Apps, NEW c \in Apps,
                 reg'[s][b].registeredAt # 0,
                 reg'[s][b].registeredAt = reg'[t][c].registeredAt
          PROVE  s = t /\ b = c
      <3>1. CASE (s = r /\ b = a) /\ (t # r \/ c # a)
        BY <2>1, <2>2, <2>4, <3>1
      <3>2. CASE (s # r \/ b # a) /\ (t = r /\ c = a)
        BY <2>1, <2>2, <2>4, <3>2
      <3>3. CASE (s # r \/ b # a) /\ (t # r \/ c # a)
        BY <2>1, <2>4, <3>3 DEF DistinctRegistrations, Registered
      <3> QED BY <3>1, <3>2, <3>3
    <2> QED BY <2>3, <2>4 DEF DistinctRegistrations, Registered
  <1>2. ASSUME \A r \in Registries, a \in Apps :
                  \/ reg'[r][a].registeredAt = 0
                  \/ /\ reg'[r][a].registeredAt = reg[r][a].registeredAt
                     /\ reg'[r][a].owner = reg[r][a].owner
        PROVE  DistinctRegistrations'
    <2>1. now' \in {now, now + 1}
      BY RegistryFrame
    <2>2. \A r \in Registries, a \in Apps : reg'[r][a].registeredAt <= now'
      BY <1>2, <2>1, TimesType DEF DistinctRegistrations
    <2>3. \A r, s \in Registries, a, b \in Apps :
             reg'[r][a].registeredAt # 0 /\ reg'[r][a].registeredAt = reg'[s][b].registeredAt
                => r = s /\ a = b
      BY <1>2 DEF DistinctRegistrations, Registered
    <2> QED BY <2>2, <2>3 DEF DistinctRegistrations, Registered
  <1> QED BY <1>1, <1>2, RegistryFrame

-----------------------------------------------------------------------------
(* Earnings of a pinned provider. *)

\* A voucher that moves money is of a provider with a service whose key is
\* valid now; of a KMS provider, the registration is the one it is pinned to.
LEMMA ChargedUnderPin ==
    ASSUME TypeOK, MemoIsFresh, KmsServiceBound, NEW v \in SandboxVoucher,
           SettlementStatus(v) \in {"SUCCESS", "INSUFFICIENT_BALANCE"}
    PROVE  LET p == v.provider
               a == services[p].appId
           IN  /\ serviceExists[p] /\ a \in Apps
               /\ kmsBindings[p].epoch # 0 =>
                     reg[tappRegistry][a].registeredAt = kmsBindings[p].epoch
  <1> DEFINE p == v.provider  a == services[p].appId
  <1>1. p \in Providers
    BY DEF SandboxVoucher
  <1>2. serviceExists[p] /\ VerifySignature(v)
    BY DEF SettlementStatus
  <1>3. a \in Apps
    BY <1>1, <1>2 DEF KmsServiceBound, TypeOK, Service
  <1>4. ProviderKeyValid(p, a)
    <2>1. KeyCheck(p).valid
      BY <1>2 DEF VerifySignature
    <2>2. CASE check.checked /\ check.provider = p
      BY <2>1, <2>2 DEF KeyCheck, MemoIsFresh
    <2>3. CASE ~(check.checked /\ check.provider = p)
      BY <2>1, <2>3 DEF KeyCheck
    <2> QED BY <2>2, <2>3
  <1> QED BY <1>2, <1>3, <1>4 DEF ProviderKeyValid, GetAppInfo

\* A settlement credits the provider only, under the current app owner.
LEMMA SettleEarners ==
    ASSUME TypeOK, NEW v \in SandboxVoucher, SettleOne(v)
    PROVE  \/ earners' = earners
           \/ /\ SettlementStatus(v) \in {"SUCCESS", "INSUFFICIENT_BALANCE"}
              /\ earners' = [earners EXCEPT ![v.provider] =
                               @ \cup {GetAppInfo(services[v.provider].appId).owner}]
  <1>1. CASE SettleSuccess(v)
    BY <1>1 DEF SettleSuccess, Charge
  <1>2. CASE SettleInsufficient(v)
    BY <1>2 DEF SettleInsufficient, Charge
  <1>3. CASE SettleRejected(v)
    BY <1>3 DEF SettleRejected
  <1> QED BY <1>1, <1>2, <1>3 DEF SettleOne

\* The first two parts of EarnedUnderPin do not depend on the registry's past.
LEMMA PinFacts ==
    ASSUME TypeOK, NEW p \in Providers
    PROVE  kmsBindings[p].epoch \in Nat /\ now \in Nat
           /\ earners[p] \subseteq Accounts \cup {Nobody}
  <1>1. kmsBindings[p] \in KmsBinding
    BY DEF TypeOK
  <1> QED BY <1>1 DEF KmsBinding, TypeOK

\* EarnedUnderPin for one provider.
Earned(p) ==
    /\ ~serviceExists[p] => earners[p] = {}
    /\ kmsBindings[p].epoch <= now
    /\ \A r \in Registries, a \in Apps :
          kmsBindings[p].epoch # 0 /\ reg[r][a].registeredAt = kmsBindings[p].epoch
             => earners[p] \subseteq {reg[r][a].owner}

\* A step that keeps a provider's service and binding and adds no earner keeps
\* what is known of it, whatever happens in the registries.
LEMMA EarnedFrame ==
    ASSUME TypeOK, [Next]_vars, NEW p \in Providers, Earned(p),
           serviceExists'[p] = serviceExists[p], kmsBindings'[p] = kmsBindings[p],
           earners'[p] \in {earners[p], {}}
    PROVE  Earned(p)'
  <1>1. kmsBindings[p].epoch \in Nat /\ now \in Nat
    BY PinFacts
  <1>2. now' \in {now, now + 1}
    BY RegistryFrame
  <1>3. /\ ~serviceExists'[p] => earners'[p] = {}
        /\ kmsBindings'[p].epoch <= now'
    BY <1>1, <1>2 DEF Earned
  <1>4. ASSUME NEW r \in Registries, NEW a \in Apps, kmsBindings'[p].epoch # 0,
               reg'[r][a].registeredAt = kmsBindings'[p].epoch
        PROVE  earners'[p] \subseteq {reg'[r][a].owner}
    <2>1. CASE \E s \in Registries, b \in Apps, o \in Accounts, n \in Signers :
                  RegisterApp(s, b, o, n)
      <3> PICK s \in Registries, b \in Apps, o \in Accounts, n \in Signers :
               RegisterApp(s, b, o, n)
        BY <2>1
      <3>1. /\ reg'[s][b].registeredAt = now + 1
            /\ \A t \in Registries, c \in Apps : t # s \/ c # b => reg'[t][c] = reg[t][c]
        BY RegisterAppMeaning
      <3>2. r # s \/ a # b
        BY <1>1, <1>4, <3>1 DEF Earned
      <3> QED BY <1>4, <3>1, <3>2 DEF Earned
    <2>2. CASE \A s \in Registries, b \in Apps :
                  \/ reg'[s][b].registeredAt = 0
                  \/ /\ reg'[s][b].registeredAt = reg[s][b].registeredAt
                     /\ reg'[s][b].owner = reg[s][b].owner
      BY <1>4, <2>2 DEF Earned
    <2> QED BY <2>1, <2>2, RegistryFrame
  <1> QED BY <1>3, <1>4 DEF Earned

LEMMA EarnedBySettlement ==
    ASSUME TypeOK, PinInv, [Next]_vars, NEW v \in SandboxVoucher, SettleOne(v),
           NEW p \in Providers, Earned(p)
    PROVE  Earned(p)'
  <1>1. serviceExists' = serviceExists /\ kmsBindings' = kmsBindings /\ reg' = reg
        /\ now' = now /\ tappRegistry' = tappRegistry
    BY DEF SettleOne, serviceVars, adminVars
  <1>2. CASE earners'[p] = earners[p]
    BY <1>1, <1>2, EarnedFrame
  <1>3. CASE earners'[p] # earners[p]
    <2> DEFINE app == services[p].appId
    <2>1. /\ v.provider = p
          /\ SettlementStatus(v) \in {"SUCCESS", "INSUFFICIENT_BALANCE"}
          /\ earners'[p] = earners[p] \cup {GetAppInfo(app).owner}
      BY <1>3, SettleEarners DEF TypeOK
    <2>2. /\ serviceExists[p] /\ app \in Apps /\ tappRegistry \in Registries
          /\ kmsBindings[p].epoch # 0 =>
                reg[tappRegistry][app].registeredAt = kmsBindings[p].epoch
      BY <2>1, ChargedUnderPin DEF PinInv, TypeOK
    <2>3. ASSUME NEW r \in Registries, NEW a \in Apps, kmsBindings[p].epoch # 0,
                 reg[r][a].registeredAt = kmsBindings[p].epoch
          PROVE  earners'[p] \subseteq {reg[r][a].owner}
      <3>1. r = tappRegistry /\ a = app
        BY <2>2, <2>3 DEF PinInv, DistinctRegistrations, Registered
      <3> QED BY <2>1, <2>2, <2>3, <3>1 DEF GetAppInfo, Earned
    <2> QED BY <1>1, <2>2, <2>3 DEF Earned
  <1> QED BY <1>2, <1>3

LEMMA EarnedByService ==
    ASSUME TypeOK, PinInv, [Next]_vars, ServiceNext, NEW q \in Providers, Earned(q)
    PROVE  Earned(q)'
  <1> PICK p \in Providers, c \in Accounts :
        \/ WithdrawEarnings(p, c)
        \/ RemoveService(p, c)
        \/ \E a \in Apps, x \in Prices :
              \/ AddOrUpdateService(p, a, x, c)
              \/ \E n \in Signers : AddOrUpdateKmsService(p, a, x, n, c)
    BY DEF ServiceNext
  <1>1. CASE WithdrawEarnings(p, c)
    <2>1. serviceExists' = serviceExists /\ kmsBindings' = kmsBindings
          /\ earners'[q] \in {earners[q], {}}
      BY <1>1 DEF WithdrawEarnings, PayEarnings, serviceVars, TypeOK
    <2> QED BY <2>1, EarnedFrame
  <1>2. CASE RemoveService(p, c)
    <2>1. kmsBindings' = kmsBindings /\ now' = now /\ reg' = reg
      BY <1>2 DEF RemoveService
    <2>2. CASE q = p
      <3>1. earners'[q] = {}
        BY <1>2, <2>2 DEF RemoveService, PayEarnings, TypeOK
      <3> QED BY <2>1, <3>1 DEF Earned
    <2>3. CASE q # p
      <3>1. serviceExists'[q] = serviceExists[q] /\ earners'[q] = earners[q]
        BY <1>2, <2>3 DEF RemoveService, PayEarnings, TypeOK
      <3> QED BY <2>1, <3>1, EarnedFrame
    <2> QED BY <2>2, <2>3
  <1>3. ASSUME NEW a \in Apps, NEW x \in Prices, AddOrUpdateService(p, a, x, c)
        PROVE  Earned(q)'
    <2>1. /\ kmsBindings' = kmsBindings /\ earners' = earners /\ now' = now
          /\ kmsBindings[p].epoch = 0
          /\ serviceExists' = [serviceExists EXCEPT ![p] = TRUE]
      BY <1>3 DEF AddOrUpdateService, UpsertService
    <2>2. CASE q = p
      <3>1. serviceExists'[q]
        BY <2>1, <2>2 DEF TypeOK
      <3> QED BY <2>1, <2>2, <3>1 DEF Earned
    <2>3. CASE q # p
      <3>1. serviceExists'[q] = serviceExists[q]
        BY <2>1, <2>3 DEF TypeOK
      <3> QED BY <2>1, <3>1, EarnedFrame
    <2> QED BY <2>2, <2>3
  <1>4. ASSUME NEW a \in Apps, NEW x \in Prices, NEW n \in Signers,
               AddOrUpdateKmsService(p, a, x, n, c)
        PROVE  Earned(q)'
    <2>1. /\ earners' = earners /\ now' = now
          /\ serviceExists' = [serviceExists EXCEPT ![p] = TRUE]
      BY <1>4 DEF AddOrUpdateKmsService, UpsertService
    <2>2. serviceExists'[p] /\ (q # p => serviceExists'[q] = serviceExists[q])
      BY <2>1 DEF TypeOK
    <2>3. CASE q # p
      <3>1. kmsBindings'[q] = kmsBindings[q]
        BY <1>4, <2>3 DEF AddOrUpdateKmsService, KmsFirstBind, KmsRebind, TypeOK
      <3> QED BY <2>1, <2>2, <2>3, <3>1, EarnedFrame
    <2>4. CASE q = p /\ KmsFirstBind(p, a, GetAppInfo(a).registeredAt)
      <3>1. earners[p] = {}
        BY <2>4 DEF KmsFirstBind, Earned
      <3>2. kmsBindings'[p].epoch <= now
        <4>1. kmsBindings'[p].epoch = reg[tappRegistry][a].registeredAt
          BY <2>4 DEF KmsFirstBind, GetAppInfo, TypeOK
        <4> QED BY <4>1 DEF PinInv, DistinctRegistrations, TypeOK
      <3> QED BY <2>1, <2>2, <2>4, <3>1, <3>2 DEF Earned
    <2>5. CASE q = p /\ KmsRebind(p, a, GetAppInfo(a).registeredAt)
      <3>1. kmsBindings' = kmsBindings
        BY <2>5 DEF KmsRebind
      <3>2. CASE serviceExists[p]
        <4>1. serviceExists'[q] = serviceExists[q]
          BY <2>1, <2>5, <3>2 DEF TypeOK
        <4> QED BY <2>1, <3>1, <4>1, EarnedFrame
      <3>3. CASE ~serviceExists[p]
        BY <2>1, <2>2, <2>5, <3>1, <3>3 DEF Earned
      <3> QED BY <3>2, <3>3
    <2> QED BY <1>4, <2>3, <2>4, <2>5 DEF AddOrUpdateKmsService
  <1> QED BY <1>1, <1>2, <1>3, <1>4

LEMMA EarnedByRepin ==
    ASSUME TypeOK, PinInv, [Next]_vars, NEW p \in Providers, RepinKmsProvider(p),
           NEW q \in Providers, Earned(q)
    PROVE  Earned(q)'
  <1>1. serviceExists' = serviceExists /\ reg' = reg /\ now' = now
    BY DEF RepinKmsProvider
  <1>2. CASE q = p
    <2>1. earners'[q] = {}
      BY <1>2 DEF RepinKmsProvider, TypeOK
    <2>2. services[p].appId \in Apps
      BY DEF RepinKmsProvider, PinInv, KmsServiceBound, TypeOK, Service
    <2>3. kmsBindings'[q].epoch = reg[tappRegistry][services[p].appId].registeredAt
      BY <1>2, <2>2 DEF RepinKmsProvider, GetAppInfo, TypeOK, KmsBinding
    <2>4. kmsBindings'[q].epoch <= now
      BY <2>2, <2>3 DEF PinInv, DistinctRegistrations, TypeOK
    <2> QED BY <1>1, <2>1, <2>4 DEF Earned
  <1>3. CASE q # p
    <2>1. kmsBindings'[q] = kmsBindings[q] /\ earners'[q] = earners[q]
      BY <1>3 DEF RepinKmsProvider, TypeOK
    <2> QED BY <1>1, <2>1, EarnedFrame
  <1> QED BY <1>2, <1>3

\* The remaining steps leave services, bindings and earners alone.
LEMMA EarnersFrame ==
    ASSUME [Next]_vars
    PROVE  \/ ServiceNext
           \/ \E p \in Providers : RepinKmsProvider(p)
           \/ \E v \in SandboxVoucher : SettleOne(v)
           \/ UNCHANGED <<serviceVars, earners>>
  <1>1. ASSUME AccountNext PROVE UNCHANGED earners
    BY <1>1 DEF AccountNext, Deposit, RequestRefund, WithdrawRefund
  <1>2. ASSUME AdminNext
        PROVE  (\E p \in Providers : RepinKmsProvider(p)) \/ UNCHANGED earners
    BY <1>2 DEF AdminNext, TransferOwnership, SetTappRegistry
  <1>3. ASSUME RegistryNext PROVE UNCHANGED earners
    BY <1>3 DEF RegistryNext, RegisterApp, AddNode, RemoveNode, AcknowledgeApp,
                RevokeAcknowledgement, SetInvalidator, UnchangedByRegistry
  <1>4. ASSUME ReturnFromCall \/ EndSettle \/ Tick \/ UNCHANGED vars
        PROVE  UNCHANGED earners
    BY <1>4 DEF ReturnFromCall, EndSettle, Tick, vars
  <1> QED BY <1>1, <1>2, <1>3, <1>4, ServiceFrame DEF Next

LEMMA EarnedNext ==
    ASSUME TypeOK, PinInv, [Next]_vars
    PROVE  EarnedUnderPin'
  <1>1. ASSUME NEW p \in Providers PROVE Earned(p)
    BY DEF PinInv, EarnedUnderPin, Earned
  <1>2. ASSUME NEW p \in Providers PROVE Earned(p)'
    <2>1. CASE UNCHANGED <<serviceVars, earners>>
      <3>1. serviceExists' = serviceExists /\ kmsBindings' = kmsBindings /\ earners' = earners
        BY <2>1 DEF serviceVars
      <3> QED BY <1>1, <3>1, EarnedFrame
    <2> QED BY <1>1, <2>1, EarnersFrame, EarnedByService, EarnedByRepin, EarnedBySettlement
  <1> QED BY <1>2 DEF EarnedUnderPin, Earned

LEMMA PinInvHolds == Spec => [](TypeOK /\ PinInv)
  <1>1. Init => PinInv
    <2> SUFFICES ASSUME Init PROVE PinInv
      OBVIOUS
    <2>1. KmsServiceBound
      BY DEF Init, KmsServiceBound, NoService
    <2>2. MemoIsFresh /\ MemoOnlyWhileSettling
      BY DEF Init, MemoIsFresh, MemoOnlyWhileSettling, NoCheck
    <2>3. DistinctRegistrations
      BY DEF Init, DistinctRegistrations, Registered, NoInfo
    <2>4. EarnedUnderPin
      BY DEF Init, EarnedUnderPin
    <2> QED BY <2>1, <2>2, <2>3, <2>4 DEF PinInv
  <1>2. TypeOK /\ PinInv /\ [Next]_vars => PinInv'
    BY KmsServiceBoundNext, MemoNext, DistinctNext, EarnedNext DEF PinInv
  <1> QED BY <1>1, <1>2, TypeCorrect, PTL DEF Spec

\* Whoever may withdraw a KMS provider's earnings is the app owner under whom
\* they were earned: registering the appId again after its last node was
\* removed, in this registry or in another one, gives no claim to them
\* (_isAppOwnerOf, withdrawEarnings, removeService).
THEOREM KmsEarningsPinnedHolds == Spec => []KmsEarningsPinned
  <1>1. TypeOK /\ PinInv => KmsEarningsPinned
    <2> SUFFICES ASSUME TypeOK, PinInv, NEW p \in Providers, NEW c \in Accounts,
                        kmsBindings[p].epoch # 0, IsAppOwnerOf(p, c)
                 PROVE  earners[p] \subseteq {c}
      BY DEF KmsEarningsPinned
    <2> DEFINE a == services[p].appId
    <2>1. a \in Apps /\ tappRegistry \in Registries
      BY DEF IsAppOwnerOf, TypeOK, Service
    <2>2. reg[tappRegistry][a].registeredAt = kmsBindings[p].epoch
          /\ reg[tappRegistry][a].owner = c
      BY <2>1 DEF IsAppOwnerOf, GetAppInfo
    <2> QED BY <2>1, <2>2 DEF PinInv, EarnedUnderPin
  <1> QED BY <1>1, PinInvHolds, PTL

-----------------------------------------------------------------------------
(* A new price needs new acknowledgements. *)

LEMMA UpsertUnacks ==
    ASSUME TypeOK, KmsServiceBound, NEW p \in Providers, NEW a \in Apps, NEW x \in Prices,
           UpsertService(p, a, x)
    PROVE  RepricedUnacked
  <1> SUFFICES ASSUME NEW q \in Providers, serviceExists[q],
                      services'[q].price # services[q].price
               PROVE  reg'[tappRegistry][services[q].appId].acked = {}
    BY DEF RepricedUnacked
  <1>1. services' = [services EXCEPT ![p] = [appId |-> a, price |-> x]]
    BY DEF UpsertService
  <1>2. q = p /\ services[p].price # x
    BY <1>1 DEF TypeOK
  <1>3. services[p].appId = a /\ services[p].appId # NoApp
    BY <1>2 DEF UpsertService, KmsServiceBound
  <1>4. InvalidateAcks(a)
    BY <1>2, <1>3 DEF UpsertService
  <1>5. tappRegistry \in Registries /\ reg[tappRegistry][a] \in AppInfo
    BY DEF TypeOK
  <1>6. reg'[tappRegistry][a] = [reg[tappRegistry][a] EXCEPT !.acked = {}]
    BY <1>4, <1>5 DEF InvalidateAcks, TypeOK
  <1> QED BY <1>2, <1>3, <1>5, <1>6 DEF AppInfo

\* Every change of the price of a standing service leaves its app without
\* acknowledgements, so nobody is charged a price of a standing service that
\* they did not acknowledge (_upsertService, invalidateAcks).
THEOREM PriceChangeInvalidatesAcksHolds == Spec => PriceChangeInvalidatesAcks
  <1>1. TypeOK /\ KmsServiceBound /\ [Next]_vars => [RepricedUnacked]_vars
    <2> SUFFICES ASSUME TypeOK, KmsServiceBound, [Next]_vars PROVE RepricedUnacked
      OBVIOUS
    <2>1. ASSUME services' = services PROVE RepricedUnacked
      BY <2>1 DEF RepricedUnacked
    <2>2. ASSUME NEW p \in Providers, NEW c \in Accounts, RemoveService(p, c)
          PROVE  RepricedUnacked
      BY <2>2 DEF RemoveService, RepricedUnacked, TypeOK
    <2>3. ASSUME ServiceNext PROVE RepricedUnacked
      BY <2>3, <2>1, <2>2, UpsertUnacks
      DEF ServiceNext, WithdrawEarnings, AddOrUpdateService, AddOrUpdateKmsService, serviceVars
    <2>4. ASSUME NEW p \in Providers, RepinKmsProvider(p) PROVE RepricedUnacked
      BY <2>4, <2>1 DEF RepinKmsProvider
    <2> QED BY <2>1, <2>3, <2>4, ServiceFrame DEF serviceVars
  <1> QED BY <1>1, TypeCorrect, KmsServiceBoundHolds, PTL DEF Spec, PriceChangeInvalidatesAcks
=============================================================================
