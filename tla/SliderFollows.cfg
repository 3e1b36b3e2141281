\* Two pages whose users drag a slider each, and nothing else.
CONSTANTS
  Base = 8
  SeqBytes = 1
  LenBytes = 1
  WordBytes = 1
  FloatBytes = 1
  Pages = {"p", "q"}
  SliderValues = {1, 3}
  PresetValues = {}
  NaN = NaN
  None = None
  MaxChoices = 2
  MaxDatagrams = 0
  MaxResponses = 1
  MaxRestarts = 0
SPECIFICATION FairSpec
PROPERTY FollowsUnlessDragged
CHECK_DEADLOCK FALSE
