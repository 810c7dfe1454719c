CONSTANT Texts <- LongMessageTexts
SPECIFICATION Spec
INVARIANT MainLoopBuffersFit
