----------------------------- MODULE MCServices -----------------------------
(* The instance of Services that TLC checks: two wallets, users and providers, *)
(* one sampler with one finding.                                               *)
EXTENDS Services

CONSTANTS o1, o2, s1, u1, u2, p1, p2, wallet

TwoWallets == {o1, o2}
NoAdmins == {}
OneSigner == {s1}
TwoPrices == {1, 4}
TwoUsers == {u1, u2}
OneSampler == {"balance"}
OneFinding == [m \in OneSampler |-> {wallet}]
TwoProviders == {p1, p2}
TwoTerms == {"a", "b"}
=============================================================================
