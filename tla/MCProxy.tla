------------------------------- MODULE MCProxy -------------------------------
(* The instance of Proxy that TLC checks.  Of the units of a backlog an         *)
(* expensive one can stand before cheap ones.                                   *)
EXTENDS Proxy

CONSTANTS p1, p2, alice, bob, op

TwoProviders == {p1, p2}
ThreeClients == {alice, bob, op}
Operators == {op}
TwoUsers == {alice, bob}
UnitFees == <<1, 3, 1, 3>>
=============================================================================
