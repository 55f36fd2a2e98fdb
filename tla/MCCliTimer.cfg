SPECIFICATION CliSpec
CONSTANTS
  Requests = {1, 2}
  NoRequest = 0
PROPERTY TimerSparesHeld
CHECK_DEADLOCK FALSE
