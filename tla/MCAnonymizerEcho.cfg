SPECIFICATION Spec
CONSTANTS
  mail = mail  post = post  ssn = ssn  four = four  anna = anna  trail = trail  plain = plain
  Words <- MCWords
  Short <- MCShort
  KindsOf <- MCKindsOf
  Absent = Absent  NoOne = NoOne
  Patterns = {"EMAIL", "CREDIT_CARD", "PASSWORD"}
  MLKinds = {"PERSON"}
  TokenIds = {t1}
  Requests = {r1}
  Names = {anna}
  Continuation = {trail}
  MLConfigured = FALSE
  MaxReply = 1
  MaxToggles = 0
  Bodies <- LabelBodies
INVARIANT EchoesRestored
CHECK_DEADLOCK FALSE
