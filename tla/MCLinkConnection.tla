------------------------- MODULE MCLinkConnection -------------------------
(* Model-checking instance of LinkConnection: one link, three substream    *)
(* ids (each end's keepalive stream plus one being torn down), channels of *)
(* one slot so that both the full outgoing and the full incoming channel   *)
(* are reached, and three packets.                                         *)
EXTENDS LinkConnection

=============================================================================
