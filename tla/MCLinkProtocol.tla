-------------------------- MODULE MCLinkProtocol --------------------------
(* Model-checking instance of LinkProtocol: three fingerprints 1 < 2 < 3  *)
(* with this node in the middle, so it is "right" of one neighbour and     *)
(* "left" of the other, and adjacencies queries of up to two fps.          *)
EXTENDS LinkProtocol

=============================================================================
