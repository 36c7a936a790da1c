---------------------------- MODULE MCAlarmEngine ----------------------------
(* The instance of AlarmEngine for TLC: one device with one window.         *)
EXTENDS AlarmEngine

CONSTANT d1

EarlyWindow == {[devices |-> {d1}, from |-> 0, until |-> 2]}
=============================================================================
