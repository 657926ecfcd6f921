SPECIFICATION Spec
CONSTANTS
  mail = mail  post = post  ssn = ssn  four = four  anna = anna  trail = trail  plain = plain
  Words <- MCWords
  Short <- MCShort
  KindsOf <- MCKindsOf
  Absent = Absent  NoOne = NoOne
  Patterns = {"EMAIL"}
  MLKinds = {"PERSON"}
  TokenIds = {t1}
  Requests = {r1, r2}
  Names = {anna}
  Continuation = {trail}
  MLConfigured = FALSE
  MaxReply = 1
  MaxToggles = 0
  Bodies <- MailBodies
INVARIANT ClientsOwnWords
CHECK_DEADLOCK FALSE
