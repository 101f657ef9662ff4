SPECIFICATION Spec
CONSTANT MaxChunks = 1
INVARIANT TimeoutKillsGroup
