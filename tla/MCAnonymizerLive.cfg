SPECIFICATION FairSpec
CONSTANTS
  mail = mail  post = post  ssn = ssn  four = four  anna = anna  trail = trail  plain = plain
  Words <- MCWords
  Short <- MCShort
  KindsOf <- MCKindsOf
  Absent = Absent  NoOne = NoOne
  Patterns = {"EMAIL", "PASSWORD"}
  MLKinds = {"PERSON"}
  TokenIds = {t1, t2}
  Requests = {r1, r2}
  Names = {anna}
  Continuation = {trail}
  MLConfigured = TRUE
  MaxReply = 1
  MaxToggles = 1
  Bodies <- NameBodies
INVARIANT WordsStayWithTokens
INVARIANT ReportedNamesHidden
PROPERTY EveryRequestEnds
CHECK_DEADLOCK FALSE
