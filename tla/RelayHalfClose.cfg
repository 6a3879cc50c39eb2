CONSTANTS
  Routes = {"direct", "auto", "proxy", "block"}
  MaxUp = 2
  MaxDown = 2
SPECIFICATION Spec
INVARIANT FullDuplex
CHECK_DEADLOCK FALSE
