\* Two calls of withRecloud, the second behind or after the first, with login
\* by password.  Once both have settled nothing need happen any more.
SPECIFICATION FairSpec
CONSTANTS
  Request = {r1, r2}
  Autofill = TRUE
INVARIANTS
  BrowserIsExclusive
  LockServesBrowser
  LoginsAreLimited
PROPERTIES
  RequestsSettle
CHECK_DEADLOCK FALSE
