SPECIFICATION MCSpec
CONSTANTS
  Input <- MCInput
  Key <- MCKey
  KeyLength <- MCKeyLength
  CURRENT_REPO = 256
  Started <- MCStarted
  LINE_BUFFER = 24
INVARIANTS
  CommentsAreStripped
  StatisticsAreOfTheLines
  FirstMoveDecides
  AddressesHaveFourNumbers
  FirstPieceDecides
  EveryFieldIsRewritten
CHECK_DEADLOCK FALSE
