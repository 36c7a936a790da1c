---------------------------- MODULE MCCollector ----------------------------
(* Instances of Collector for TLC: one device, with or without a window.    *)
EXTENDS Collector

CONSTANT d1

EarlyWindow == {[devices |-> {d1}, from |-> 0, until |-> 2]}
NoWindow == {}
=============================================================================
