SPECIFICATION ModemSpec
CONSTANTS
  SAMPLES_PER_FRAME = 4
  Samples <- TwoSamples
  THRESHOLD = 1
  FREQ_SEP_MIN = 1
  FREQ_SEP_MAX = 3
  FREQ_DATA_THRESHOLD = 1
  SEP_TOLERANCE_PULSES = 1
  CalFrames = 3
  LEARN_FRAMES = 2
  Bits = 2
INVARIANT WindowSums
PROPERTY ImplementsReceiver
