SPECIFICATION Spec
CONSTANTS
    Nodes = 2
    Words = {"special", "blank"}
    Roots <- MCRoots
INVARIANTS
    DescriptionIsText
    SameAgain
