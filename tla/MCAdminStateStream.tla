------------------------ MODULE MCAdminStateStream --------------------------
(* Two updaters, two dashboards, buffers of one snapshot. *)
EXTENDS AdminStateStream

CONSTANTS w1, w2, d1, d2, k1
=============================================================================
