\* Every token id resolved against every committed graph of the bounds.
CONSTANTS
    Vertices <- MCVertices
    Tok = 1
    TokVariants <- MCTokVariants
    OtherVariants <- MCOtherVariants
    TokEdgeTypes <- MCTokEdgeTypes
    MemberType = 3
    MaxOut = 2
    CommittedSets <- MCCommittedSets
SPECIFICATION Spec
INVARIANTS
    TypeOK
CHECK_DEADLOCK FALSE
