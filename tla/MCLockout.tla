------------------------------ MODULE MCLockout ------------------------------
(* Three logins of one account over a connection that fails twice.          *)
EXTENDS Lockout

MCOp == {"INCR", "EXPIRE", "DEL"}
MCValue == 0 .. 4
=============================================================================
