CONSTANTS
  now = now
  far = far
  Timers = {now, far}
  Settings <- NowAndFar
  Word = 16
  MaxPoll = 1
  Horizon = 2
SPECIFICATION FairSpec
PROPERTIES
  NeverEarly
  NoOvertaking
  AwaitedFires
  TimersFire
  LoopGoesOn
  StopIsHeard
