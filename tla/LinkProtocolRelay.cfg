\* sign_adjacency, adjacencies and graph_dump over every graph reachable by gossip.
CONSTANTS
    Nodes = {1, 2, 3}
    Me = 2
    MaxQuery = 2
SPECIFICATION Spec
INVARIANT TypeOK
