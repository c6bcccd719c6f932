\* The rider's buttons against a bench that types captures and modes.
CONSTANTS
  QLen = 1
  BtnQLen = 1
  Presses <- AllPresses
  Cmds <- MCBench
  OneAtATime = TRUE
  InTime = FALSE
SPECIFICATION FairSpec
INVARIANTS
  OneRadio
  RadioReleased
PROPERTIES
  Settles
