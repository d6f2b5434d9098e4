CONSTANTS
    Lines = {1, 2, 3}
    OneShots = {1}
    Versions = {1}
SPECIFICATION Spec
INVARIANTS
    OwnCallback
    NoEdgeLost
PROPERTIES
    EdgeServed
