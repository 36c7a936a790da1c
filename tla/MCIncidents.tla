----------------------------- MODULE MCIncidents -----------------------------
(* The alarms of a device without probes (Incidents.cfg) and the outages of *)
(* a probe without device alarms (Outages.cfg); ticks of ten minutes.       *)
EXTENDS ProbeHealth
=============================================================================
