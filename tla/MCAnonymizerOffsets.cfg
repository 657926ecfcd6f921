SPECIFICATION Spec
CONSTANTS
  mail = mail  post = post  ssn = ssn  four = four  anna = anna  trail = trail  plain = plain
  Words <- MCWords
  Short <- MCShort
  KindsOf <- MCKindsOf
  Absent = Absent  NoOne = NoOne
  Patterns = {"EMAIL", "SSN", "PASSWORD"}
  MLKinds = {"PERSON"}
  TokenIds = {t1, t2, t3}
  Requests = {r1}
  Names = {anna}
  Continuation = {trail}
  MLConfigured = TRUE
  MaxReply = 0
  MaxToggles = 0
  Bodies <- WideBodies
INVARIANT ReportedNamesHidden
SYMMETRY MCSymmetry
CHECK_DEADLOCK FALSE
