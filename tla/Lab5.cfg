SPECIFICATION Spec
CONSTANTS
  size_song = 3
  NUMERO_DE_MUESTRAS = 2
  FifoSize = 1
  SongDly = 1
  PollDly = 2
  FREQ_READER_INCREMENT = 1
  FREQ_READER_NOMINAL = 1
  Modulations = {"ASK", "FSK"}
  Signals = {"SQUARE"}
INVARIANTS
  ToneStaleOnlyByEdgeInHandler
  StopDoneBeforeNextPoll
PROPERTIES
  RewoundByStopOrAtEnd
  SilenceObeyed
  KeepsPolling
