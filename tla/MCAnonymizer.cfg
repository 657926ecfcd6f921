SPECIFICATION Spec
CONSTANTS
  mail = mail  post = post  ssn = ssn  four = four  anna = anna  trail = trail  plain = plain
  Words <- MCWords
  Short <- MCShort
  KindsOf <- MCKindsOf
  Absent = Absent  NoOne = NoOne
  Patterns = {"EMAIL", "SSN", "CREDIT_CARD", "PASSWORD"}
  MLKinds = {"PERSON"}
  TokenIds = {t1, t2}
  Requests = {r1, r2}
  Names = {anna}
  Continuation = {trail}
  MLConfigured = FALSE
  MaxReply = 2
  MaxToggles = 1
  Bodies <- MixedBodies
INVARIANT Inv
INVARIANT ForeignTokensKept
INVARIANT FlatRoundTrip
PROPERTY StrictHoldsBack
PROPERTY RefinesRedaction
SYMMETRY MCSymmetry
CHECK_DEADLOCK FALSE
