SPECIFICATION FairSpec
CONSTANT MaxChunks = 2
INVARIANTS
    TypeOK
    OutputFaithful
    NoShellLeft
    CommandInv
PROPERTY RequestEnds
