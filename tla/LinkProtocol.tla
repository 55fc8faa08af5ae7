---------------------------- MODULE LinkProtocol ----------------------------
(***************************************************************************)
(* LinkProtocolImpl of src/daemon/link_connection.rs: the "n2n_control"    *)
(* service a node offers its neighbours, over the node's relay graph and   *)
(* neighbour table.  Fingerprints are numbers, so their total order is <.  *)
(* Signatures are abstracted away: an adjacency in the graph is a fully    *)
(* signed [left, right] pair.                                              *)
(*                                                                         *)
(* The relay graph and neighbour table belong to code outside this         *)
(* repository's sources; their mutations (gossip, link up and down) are    *)
(* the environment actions at the end and follow the spec (section 3).     *)
(***************************************************************************)
EXTENDS Naturals, Sequences, FiniteSets
LOCAL INSTANCE SequencesExt
LOCAL INSTANCE Functions

CONSTANTS
    Nodes,     \* fingerprints, a set of numbers
    Me,        \* GLOBAL_IDENTITY's fingerprint
    MaxQuery   \* bound on the length of the fps argument of adjacencies

ASSUME Nodes \subseteq Nat /\ Me \in Nodes /\ MaxQuery \in Nat

VARIABLES
    neighs,    \* NEIGH_TABLE: fingerprints of the current neighbours
    idents,    \* RELAY_GRAPH identities: idents[f] = is_relay, for known f
    adjs,      \* RELAY_GRAPH adjacencies, each [left, right] with left < right
    signed,    \* result of the last sign_adjacency: an adjacency or NoAdj
    answer,    \* result of the last adjacencies call
    dump       \* adjacencies listed by the last graph_dump, in order

vars == <<neighs, idents, adjs, signed, answer, dump>>

\* An AdjacencyDescriptor always has left < right.
Adj == {a \in [left : Nodes, right : Nodes] : a.left < a.right}
NoAdj == [left |-> 0, right |-> 0]

TypeOK ==
    /\ neighs \subseteq Nodes
    /\ idents \in UNION {[K -> BOOLEAN] : K \in SUBSET Nodes}
    /\ adjs \subseteq Adj
    /\ signed \in Adj \cup {NoAdj}
    /\ answer \in Seq([left : Nodes, right : Nodes])
    /\ dump \in Seq(Adj)

Init ==
    /\ neighs = {}
    /\ idents = [f \in {} |-> FALSE]
    /\ adjs = {}
    /\ signed = NoAdj
    /\ answer = <<>>
    /\ dump = <<>>

\* rg.identity(&f).map_or(false, |id| id.is_relay)
IsRelay(f) == f \in DOMAIN idents /\ idents[f]

\* RelayGraph::insert_adjacency fails on an adjacency it already holds.
InsertAdjacencyOk(a) == a \notin adjs

\* Mutant of SignAdjacency: the left < right check is dropped.
SignAdjacencyUnordered(l, r) ==
    LET a == [left |-> l, right |-> r]
        valid == r = Me /\ l \in neighs
    IN \/ /\ valid /\ InsertAdjacencyOk(a)
          /\ adjs' = adjs \cup {a}
          /\ signed' = a
       \/ /\ ~(valid /\ InsertAdjacencyOk(a))
          /\ signed' = NoAdj
          /\ UNCHANGED adjs
    /\ UNCHANGED <<neighs, idents, answer, dump>>

(***************************************************************************)
(* sign_adjacency: accept only if left < right, right is us and left is a  *)
(* neighbour; sign the right-hand side, insert into the relay graph and    *)
(* return the completed descriptor, or None if insertion fails.            *)
(***************************************************************************)
SignAdjacency(l, r) ==
    LET a == [left |-> l, right |-> r]
        valid == l < r /\ r = Me /\ l \in neighs
    IN \/ /\ valid /\ InsertAdjacencyOk(a)
          /\ adjs' = adjs \cup {a}
          /\ signed' = a
       \/ /\ ~(valid /\ InsertAdjacencyOk(a))
          /\ signed' = NoAdj
          /\ UNCHANGED adjs
    /\ UNCHANGED <<neighs, idents, answer, dump>>

\* rg.adjacencies(&fp): the graph enumerates them in an order of its own.
Enumerations(fp) == SetToSeqs({a \in adjs : fp \in {a.left, a.right}})

\* All the sequences flat_map can produce over the requested fps.
RECURSIVE FlatMaps(_)
FlatMaps(fps) ==
    IF fps = <<>> THEN {<<>>}
    ELSE {e \o rest : e \in Enumerations(Head(fps)), rest \in FlatMaps(Tail(fps))}

\* Itertools::dedup: drop an element equal to the one just before it.
RECURSIVE Dedup(_)
Dedup(s) ==
    IF Len(s) <= 1 THEN s
    ELSE IF s[1] = s[2] THEN Dedup(Tail(s))
    ELSE <<s[1]>> \o Dedup(Tail(s))

RelayEdge(a) == IsRelay(a.left) /\ IsRelay(a.right)

\* adjacencies(fps): relay-to-relay adjacencies of each fp, deduplicated.
Adjacencies(fps) ==
    /\ \E s \in FlatMaps(fps) : answer' = Dedup(SelectSeq(s, RelayEdge))
    /\ UNCHANGED <<neighs, idents, adjs, signed, dump>>

\* .sorted_by(|a, b| Ord::cmp(&a.left, &b.left)): a stable sort on left,
\* so adjacencies with the same left keep the graph's order.
SortedByLeft(s) ==
    LET lefts == SetToSortSeq({s[i].left : i \in DOMAIN s}, <)
    IN FoldLeft(LAMBDA acc, v : acc \o SelectSeq(s, LAMBDA a : a.left = v),
                <<>>, lefts)

(***************************************************************************)
(* graph_dump(human) of ControlProtocolImpl (control_protocol_impl.rs):    *)
(* all_adjacencies of the relay graph, in the graph's order; the human     *)
(* view keeps those whose two ends are known relays; both views sort by    *)
(* left and print one line per adjacency.  The neighbour and node lists    *)
(* and the text around them are formatting.                                *)
(***************************************************************************)
GraphDump(human) ==
    /\ \E s \in SetToSeqs(adjs) :
          dump' = SortedByLeft(IF human THEN SelectSeq(s, RelayEdge) ELSE s)
    /\ UNCHANGED <<neighs, idents, adjs, signed, answer>>

-----------------------------------------------------------------------------
(* Environment: the relay graph's gossip and the neighbour table.          *)

\* A link to f comes up or goes down (NEIGH_TABLE insert / expiry).
NeighUp(f) ==
    /\ f # Me /\ f \notin neighs
    /\ neighs' = neighs \cup {f}
    /\ UNCHANGED <<idents, adjs, signed, answer, dump>>

NeighDown(f) ==
    /\ f \in neighs
    /\ neighs' = neighs \ {f}
    /\ UNCHANGED <<idents, adjs, signed, answer, dump>>

\* A signed identity descriptor is learned (insert_identity).
LearnIdentity(f, relay) ==
    /\ f \notin DOMAIN idents
    /\ idents' = [g \in DOMAIN idents \cup {f} |->
                     IF g = f THEN relay ELSE idents[g]]
    /\ UNCHANGED <<neighs, adjs, signed, answer, dump>>

\* A fully signed adjacency of two other nodes is learned by gossip.
LearnAdjacency(l, r) ==
    /\ l < r /\ Me \notin {l, r}
    /\ InsertAdjacencyOk([left |-> l, right |-> r])
    /\ adjs' = adjs \cup {[left |-> l, right |-> r]}
    /\ UNCHANGED <<neighs, idents, signed, answer, dump>>

Next ==
    \/ \E l, r \in Nodes : SignAdjacency(l, r)
    \/ \E fps \in BoundedSeq(Nodes, MaxQuery) : Adjacencies(fps)
    \/ \E human \in BOOLEAN : GraphDump(human)
    \/ \E f \in Nodes : NeighUp(f) \/ NeighDown(f)
    \/ \E f \in Nodes, relay \in BOOLEAN : LearnIdentity(f, relay)
    \/ \E l, r \in Nodes : LearnAdjacency(l, r)

Spec == Init /\ [][Next]_vars

-----------------------------------------------------------------------------
(* Properties *)

\* The result of adjacencies is duplicate-free (spec section 8).
AdjacenciesDuplicateFree == IsInjective(answer)

\* sign_adjacency signs only for a relay on its left (spec section 8,
\* scenario 1: a client neighbour's request is refused).
SignsOnlyRelays == signed # NoAdj => IsRelay(signed.left)

=============================================================================
