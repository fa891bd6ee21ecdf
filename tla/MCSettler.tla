------------------------------ MODULE MCSettler ------------------------------
(* Three units: two periods of alice's sandbox and one of bob's. *)
EXTENDS Settler

Alice == "alice"
Bob == "bob"
TwoUsers == {Alice, Bob}
ThreeUnits == {1, 2, 3}
UnitUser == <<Alice, Alice, Bob>>
UnitSandbox == <<"sbA", "sbA", "sbB">>
UnitFee == <<1, 1, 1>>
=============================================================================
