--------------------------- MODULE ReplyBlockStore ---------------------------
(***************************************************************************)
(* ReplyBlockStore of src/daemon/reply_block_store.rs: an LruCache from    *)
(* fingerprint to a ReplyBlockDeque of capacity 1000 (DequeCap here).      *)
(* The store is &mut-only, so every method is one atomic step.            *)
(*                                                                         *)
(* The LruCache is a sequence of keys, least recently used first, and a   *)
(* deque per key; a key absent from lru has no deque.  Reply blocks are    *)
(* numbered in the order they are handed to the store.                     *)
(***************************************************************************)
EXTENDS Naturals, Sequences, FiniteSets
LOCAL INSTANCE SequencesExt

CONSTANTS
    Fps,        \* fingerprints
    Size,       \* LruCache capacity given to ReplyBlockStore::new
    DequeCap,   \* ReplyBlockDeque capacity (1000 in the code)
    MaxBlocks,  \* bound on the number of reply blocks inserted
    MaxBatch    \* bound on the length of an insert_batch vector

ASSUME Size \in Nat \ {0} /\ DequeCap \in Nat \ {0}
ASSUME MaxBlocks \in Nat /\ MaxBatch \in Nat \ {0}

VARIABLES
    lru,        \* keys of the LruCache, least recently used first
    deques,     \* deques[f]: the VecDeque of f, front (oldest) first
    nextBlock,  \* reply blocks handed to the store so far
    got,        \* result of the last get: a block, or 0 for None
    usedSince   \* history: usedSince[f] = keys accessed since f was last

vars == <<lru, deques, nextBlock, got, usedSince>>

Blocks == 1..MaxBlocks

TypeOK ==
    /\ lru \in BoundedSeq(Fps, Size)
    /\ deques \in [Fps -> BoundedSeq(Blocks, DequeCap)]
    /\ nextBlock \in 0..MaxBlocks
    /\ got \in 0..MaxBlocks
    /\ usedSince \in [Fps -> SUBSET Fps]

Init ==
    /\ lru = <<>>
    /\ deques = [f \in Fps |-> <<>>]
    /\ nextBlock = 0
    /\ got = 0
    /\ usedSince = [f \in Fps |-> {}]

Held == ToSet(lru)

\* Record an access to key k for the history variable.
Touch(k) == [f \in Fps |-> IF f = k THEN {} ELSE usedSince[f] \cup {k}]

\* LruCache::get_mut / put on a present key: move it to the back.
Promote(s, k) == Append(Remove(s, k), k)

\* ReplyBlockDeque::new(1000): an empty VecDeque of capacity DequeCap.
NewDeque == <<>>

\* ReplyBlockDeque::pop: pop_back; None (block 0) on an empty deque.
DequePop(d) ==
    IF d = <<>> THEN [rb |-> 0, rest |-> d] ELSE [rb |-> Last(d), rest |-> Front(d)]

\* ReplyBlockDeque::insert
DequeInsert(d, rb) ==
    Append(IF Len(d) = DequeCap THEN Tail(d) ELSE d, rb)

\* Mutant of StoreInsert: put on a full cache keeps every key.
StoreInsertNoEvict(st, fp, rb) ==
    IF fp \in ToSet(st.lru)
    THEN [lru |-> Promote(st.lru, fp),
          deques |-> [st.deques EXCEPT ![fp] = DequeInsert(@, rb)]]
    ELSE [lru |-> Append(st.lru, fp),
          deques |-> [st.deques EXCEPT ![fp] = DequeInsert(NewDeque, rb)]]

(***************************************************************************)
(* ReplyBlockStore::insert as a function of the cache state [lru, deques]. *)
(* A present key is promoted by get_mut and its deque grows; an absent key *)
(* gets a new deque through put, which first pops the least recently used *)
(* key when the cache holds Size keys.                                     *)
(***************************************************************************)
StoreInsert(st, fp, rb) ==
    IF fp \in ToSet(st.lru)
    THEN [lru |-> Promote(st.lru, fp),
          deques |-> [st.deques EXCEPT ![fp] = DequeInsert(@, rb)]]
    ELSE LET full == Len(st.lru) = Size
             rest == IF full THEN Tail(st.lru) ELSE st.lru
         IN [lru |-> Append(rest, fp),
             deques |-> [f \in Fps |->
                           IF f = fp THEN DequeInsert(NewDeque, rb)
                           ELSE IF full /\ f = Head(st.lru) THEN NewDeque
                           ELSE st.deques[f]]]

\* insert_batch: insert each item in turn.
StoreInsertBatch(st, fp, items) ==
    LET step(s, rb) == StoreInsert(s, fp, rb)
    IN FoldLeft(step, st, items)

\* insert(fingerprint, rb) and insert_batch(fingerprint, items): the k
\* next reply blocks are inserted.
Insert(fp, k) ==
    /\ nextBlock + k <= MaxBlocks
    /\ LET items == [i \in 1..k |-> nextBlock + i]
           st == StoreInsertBatch([lru |-> lru, deques |-> deques], fp, items)
       IN /\ lru' = st.lru
          /\ deques' = st.deques
    /\ nextBlock' = nextBlock + k
    /\ usedSince' = Touch(fp)
    /\ UNCHANGED got

\* Mutant of Get: the deque is reached with peek_mut, which does not
\* promote the key in the LruCache.
GetNoPromote(fp) ==
    \/ /\ fp \in Held
       /\ got' = IF deques[fp] = <<>> THEN 0 ELSE Last(deques[fp])
       /\ deques' = [deques EXCEPT ![fp] = IF @ = <<>> THEN @ ELSE Front(@)]
       /\ usedSince' = Touch(fp)
       /\ UNCHANGED <<lru, nextBlock>>
    \/ /\ fp \notin Held
       /\ got' = 0
       /\ UNCHANGED <<lru, deques, nextBlock, usedSince>>

\* Mutant of Get: the deque is consumed from the front (pop_front).
GetPopFront(fp) ==
    \/ /\ fp \in Held
       /\ lru' = Promote(lru, fp)
       /\ got' = IF deques[fp] = <<>> THEN 0 ELSE Head(deques[fp])
       /\ deques' = [deques EXCEPT ![fp] = IF @ = <<>> THEN @ ELSE Tail(@)]
       /\ usedSince' = Touch(fp)
       /\ UNCHANGED nextBlock
    \/ /\ fp \notin Held
       /\ got' = 0
       /\ UNCHANGED <<lru, deques, nextBlock, usedSince>>

\* get: get_mut promotes a present key, then pop_back; None if absent.
Get(fp) ==
    \/ /\ fp \in Held
       /\ lru' = Promote(lru, fp)
       /\ got' = DequePop(deques[fp]).rb
       /\ deques' = [deques EXCEPT ![fp] = DequePop(@).rest]
       /\ usedSince' = Touch(fp)
       /\ UNCHANGED nextBlock
    \/ /\ fp \notin Held
       /\ got' = 0
       /\ UNCHANGED <<lru, deques, nextBlock, usedSince>>

Next ==
    \/ \E fp \in Fps, k \in 1..MaxBatch : Insert(fp, k)
    \/ \E fp \in Fps : Get(fp)

Spec == Init /\ [][Next]_vars

-----------------------------------------------------------------------------
(* Properties *)

\* The store implements ReplyBlockStoreSpec: each fingerprint keeps only
\* its DequeCap newest blocks, get hands out the newest usable block once,
\* and at most Size fingerprints are held.  The mapping forgets the LRU
\* order and the deques' layout.
Abs == INSTANCE ReplyBlockStoreSpec WITH
           usable <- [f \in Fps |-> ToSet(deques[f])],
           live <- Held,
           issued <- 1..nextBlock,
           got <- got

ImplementsSpec == Abs!Spec

\* LruCache eviction (spec section 4.1): when put drops a fingerprint's
\* deque to make room, every other key still held has been inserted or
\* read (get promotes) more recently than the dropped one.
EvictsLeastRecentlyUsed ==
    [][\A f \in Held \ Held' : Held \ {f} \subseteq usedSince[f]]_vars

=============================================================================
