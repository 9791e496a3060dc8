SPECIFICATION FairSpec
CONSTANTS
  RingSize = 3
  NumSeqs = 2
  NumUarts = 2
  MaxChunks = 2
  None = NONE
  MaxSends = 2
  MaxStreams = 1
CHECK_DEADLOCK FALSE
INVARIANTS TypeOK NoMessageForgotten AnswerFresh
PROPERTIES Drains StreamEnds
