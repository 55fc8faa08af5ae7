\* itertools dedup only drops consecutive duplicates.
CONSTANTS
    Nodes = {1, 2, 3}
    Me = 2
    MaxQuery = 2
SPECIFICATION Spec
INVARIANT AdjacenciesDuplicateFree
