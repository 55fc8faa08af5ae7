------------------------- MODULE ReplyBlockStoreSpec -------------------------
(***************************************************************************)
(* What the reply-block store promises (spec section 4.1), stated without *)
(* deques or an LRU list.  Blocks are numbered in insertion order.  For    *)
(* each fingerprint the store holds a set of usable blocks:                *)
(*   - an insert keeps only the DequeCap newest blocks of the fingerprint; *)
(*   - a get hands out the newest usable block, and only once;             *)
(*   - at most Size fingerprints are held; taking in a new one may discard *)
(*     one other fingerprint's blocks wholesale.                           *)
(***************************************************************************)
EXTENDS Naturals, FiniteSets
LOCAL INSTANCE FiniteSetsExt

CONSTANTS Fps, Size, DequeCap, MaxBlocks

VARIABLES
    usable,   \* usable[f]: blocks of f that a get may still return
    live,     \* fingerprints the store holds (possibly with no blocks)
    issued,   \* blocks handed to the store so far
    got       \* block returned by the last get, 0 for None

vars == <<usable, live, issued, got>>

Blocks == 1..MaxBlocks

\* The n newest blocks of S.
Newest(S, n) == {x \in S : Cardinality({y \in S : y > x}) < n}

Init ==
    /\ usable = [f \in Fps |-> {}]
    /\ live = {}
    /\ issued = {}
    /\ got = 0

\* insert and insert_batch: the new blocks B are newer than all issued ones.
Insert(fp, B) ==
    /\ B # {}
    /\ B \cap issued = {}
    /\ \A b \in B, x \in issued : b > x
    /\ issued' = issued \cup B
    /\ \/ /\ fp \in live
          /\ usable' = [usable EXCEPT ![fp] = Newest(@ \cup B, DequeCap)]
          /\ UNCHANGED live
       \/ /\ fp \notin live
          /\ \E victims \in IF Cardinality(live) = Size
                                 THEN {{v} : v \in live} ELSE {{}} :
                /\ live' = (live \ victims) \cup {fp}
                /\ usable' = [f \in Fps |->
                                 IF f = fp THEN Newest(B, DequeCap)
                                 ELSE IF f \in victims THEN {}
                                 ELSE usable[f]]
    /\ UNCHANGED got

Get(fp) ==
    /\ IF usable[fp] # {}
          THEN /\ got' = Max(usable[fp])
               /\ usable' = [usable EXCEPT ![fp] = @ \ {Max(@)}]
          ELSE /\ got' = 0
               /\ UNCHANGED usable
    /\ UNCHANGED <<live, issued>>

Next ==
    \/ \E fp \in Fps, B \in SUBSET Blocks : Insert(fp, B)
    \/ \E fp \in Fps : Get(fp)

Spec == Init /\ [][Next]_vars

=============================================================================
