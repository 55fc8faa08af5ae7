--------------------------- MODULE MCHavenSocket ---------------------------
(* Model-checking instance of HavenSocket: two remote endpoints, two       *)
(* concurrent send_to callers and up to three sessions, so that a session  *)
(* can be replaced while another caller is still sending on its           *)
(* predecessor.                                                            *)
EXTENDS HavenSocket

=============================================================================
