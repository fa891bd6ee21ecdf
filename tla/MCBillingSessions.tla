------------------------- MODULE MCBillingSessions -------------------------
(* One sandbox through its whole life, new or found running after a downtime *)
(* of three intervals, and the nameless hash it may leave behind.            *)
EXTENDS BillingSessions
=============================================================================
