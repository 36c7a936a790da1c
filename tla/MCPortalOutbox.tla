---------------------------- MODULE MCPortalOutbox ----------------------------
(* Instances of PortalOutbox for TLC: the two app nodes of a site.          *)
EXTENDS PortalOutbox

CONSTANTS app01, app02
=============================================================================
