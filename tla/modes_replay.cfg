\* The rider alone, who presses A while BLE goes down and the check runs.
CONSTANTS
  QLen = 1
  BtnQLen = 1
  Presses <- MCFew
  Cmds <- MCRider
  OneAtATime = TRUE
  InTime = TRUE
SPECIFICATION Spec
PROPERTIES
  ChosenOnOffer
