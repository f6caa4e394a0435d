CONSTANTS
  Atoi <- MCAtoi
  Updates <- MCUpdates
SPECIFICATION Spec
INVARIANTS FollowsItsConfig OneNameRegistersOnce
PROPERTIES AllOrNothing
CHECK_DEADLOCK FALSE
