------------------------------ MODULE MCNotify ------------------------------
EXTENDS Notify
CONSTANTS a1, a2

(* One alarm through its whole life, and another that is raised meanwhile.  *)
Lives == [a \in Alarm |-> IF a = a1 THEN 3 ELSE 1]
=============================================================================
