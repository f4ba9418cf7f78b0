SPECIFICATION FairSpec
CONSTANTS
  Contents = {main, other}
  Launch = main
  Policies = {wide, tall}
  None = None
  DepthLimit = 2
  MaxSteps = 2
  Envs = {{"wait", "end", "resize", "fail"},
          {"change", "boot change", "fail"},
          {"change", "end"},
          {"input", "resize", "fail"},
          {"transition", "end", "god", "fail"}}
INVARIANTS TypeOK ShowsCurrent
PROPERTIES KeepsTheTimeline RefusalKeeps NoSyntheticPress FrameReturns
