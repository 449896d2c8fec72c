CONSTANTS
  EePrograms <- MCEePrograms
  IopPrograms <- MCIopPrograms
  CountMax = 48
  EeFrame = 16
  EeBlank = 4
  EeTimerMax = 7
  Frame = 24
  Blank = 6
  TimerMax = 11
  Wide = FALSE
  Ratio = 2
SPECIFICATION MachineSpec
PROPERTIES
  Precise
  HandledKept
  LinesDrain
  TimersFire
