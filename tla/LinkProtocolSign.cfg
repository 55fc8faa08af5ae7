\* sign_adjacency does not check that the left node is a relay.
CONSTANTS
    Nodes = {1, 2, 3}
    Me = 2
    MaxQuery = 2
SPECIFICATION Spec
INVARIANT SignsOnlyRelays
