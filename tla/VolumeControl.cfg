\* Two pages, two messages of other programs one after the other, and a restart.
CONSTANTS
  Base = 8
  SeqBytes = 1
  LenBytes = 1
  WordBytes = 1
  FloatBytes = 1
  Pages = {"p", "q"}
  SliderValues = {3}
  PresetValues = {0}
  NaN = NaN
  None = None
  MaxChoices = 2
  MaxDatagrams = 2
  MaxResponses = 1
  MaxRestarts = 1
SPECIFICATION FairSpec
INVARIANTS TypeOK OnlyAskedVolumes LastChoiceWins
PROPERTY PagesConverge
CHECK_DEADLOCK FALSE
