CONSTANTS
  Accounts = {a, b}
  Guests = {g}
  Anonymous = Anonymous
  Unknown = Unknown
  MaxSwitches = 2
  MaxEdits = 1
  Codes = {c1, c2, c3}
  Malformed = {c3}
  Forms = {f1, f2, f3}
  Clashing = {f3}
  Products = {o1, o2}
  MaxTurns = 3
  MaxCalls = 2
  MaxRevisions = 3
  MaxStarts = 4
  Owners = {a, b}
  Nobody = Nobody
  Passwords = {w1, w2}
  MaxCodes = 2
  MaxActions = 2
  MaxSignIns = 1
SPECIFICATION ClientSpec
SYMMETRY Symmetric
CHECK_DEADLOCK FALSE
INVARIANTS
  OneSwitchIsNoticed
  WritesStayHome
  EditsSurvive
  ScreensFollowTheirQuestions
  CameraFollowsDialog
  CodeOnScreenWorks
