\* Two files of two chunks and one retry for each upload, one upload at a time in the
\* Video Management tab; a sensor with two streams; three cards and one slot.
CONSTANTS
  Files = {file1, file2}
  Chunks = 2
  MaxRetries = 1
  Parallel = 1
  video1 = video1
  camera1 = camera1
  Streams <- LStreams
  Cameras <- LCameras
  SensorOf <- LSensorOf
  Matching <- LMatching
  MaxFetches = 2
  MaxAttempts = 2
  Cards = {card1, card2, card3}
  LiveCards = {card1, card2}
  MaxConcurrent = 1
  MaxLooks = 1
SPECIFICATION Spec
INVARIANTS
    UploadsTypeOK
    WholeFilesOnly
    PublishedOnceCompleted
    VideoManagementIsSound
PROPERTIES
    CancelledStaysCancelled
    WorkEnds
CHECK_DEADLOCK FALSE
