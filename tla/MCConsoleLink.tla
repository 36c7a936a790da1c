----------------------------- MODULE MCConsoleLink ----------------------------
(* Instances of ConsoleLink for TLC.                                        *)
EXTENDS ConsoleLink
=============================================================================
