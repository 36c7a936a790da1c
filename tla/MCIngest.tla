---------------------------- MODULE MCIngest ----------------------------
(* Instances of Ingest for TLC: collectors and conditions as model values.  *)
EXTENDS Ingest

CONSTANTS c1, c2, c3, k1
=============================================================================
