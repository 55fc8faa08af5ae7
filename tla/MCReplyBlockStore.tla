------------------------- MODULE MCReplyBlockStore -------------------------
(* Model-checking instance of ReplyBlockStore: three fingerprints in an   *)
(* LRU of two, deques of two, five reply blocks and batches of up to      *)
(* three, so that both evictions and deque overflow (also within a single *)
(* insert_batch) happen.                                                   *)
EXTENDS ReplyBlockStore

=============================================================================
