SPECIFICATION Spec
CONSTANTS
  Users = {u1}
  Providers = {p1}
  Signers = {p1, n1}
  Apps = {a1}
  Accounts = {o1}
  Admins = {adm, adm2}
  Registries = {r1}
  Amounts = {1, 2}
  Fees = {0, 1, 2}
  Nonces = {1, 2, 3}
  Prices = {x1}
  LockTime = 1
  NoApp = NoApp
  Nobody = Nobody
  FirstOwner = adm
  FirstRegistry = r1
  MaxVault = 4
  MaxTime = 3
INVARIANTS TypeOK Solvency
PROPERTIES NoReplay OnlySettlementStrands
