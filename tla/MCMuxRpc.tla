----------------------------- MODULE MCMuxRpc -----------------------------
(* Model-checking instance of MuxRpc.  The cfg files give two concurrent  *)
(* callers sharing one transport, three substreams and four requests, as   *)
(* model values.                                                           *)
EXTENDS MuxRpc, TLC

\* Callers and substreams are interchangeable: no property names one.
MCSymmetry == Permutations(Callers) \cup Permutations(Conns)

=============================================================================
