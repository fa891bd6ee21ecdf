SPECIFICATION Spec
CONSTANTS
  Users = {u1}
  Providers = {p1}
  Signers = {p1}
  Apps = {a1, a2}
  Accounts = {o1, o2}
  Admins = {adm}
  Registries = {r1, r2}
  Amounts = {1}
  Fees = {1}
  Nonces = {1}
  Prices = {x1, x2}
  LockTime = 1
  NoApp = NoApp
  Nobody = Nobody
  FirstOwner = adm
  FirstRegistry = r1
  MaxVault = 1
  MaxTime = 3
INVARIANTS  KmsEarningsPinned KmsServiceBound
PROPERTIES PriceChangeInvalidatesAcks
