SPECIFICATION Spec
CONSTANTS
  Add <- Add64
  Xor <- Xor64
  rotate_left <- ROTL64
  Start <- MCStart
  g_siphash_length <- MCLength
  g_siphash_finalise_constant <- MCFinal
  g_compression_rounds = 1
  g_finalise_rounds = 3
  Blocks = 15
  Message <- MCMessage
  Key <- MCKey
  Zero <- MCZero
  FrameBytes = 3
  MaxFiles = 2
  NoFlip = noflip
  RecordBytes = 20
  Bursts <- MCBursts
  Cuts = {40, 70, 110}
  MaxBursts = 2
  Answers <- MCAnswers
  MaxAnswers = 2
INVARIANTS KnownAnswer FramesMatch RecordSpelled FrameAnnounced AnswerSpelled
PROPERTIES ImplementsSipHash HashAnswers
CHECK_DEADLOCK FALSE
