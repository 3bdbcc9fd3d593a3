\* The profile is taken at startup and released before the first call.
SPECIFICATION Spec
CONSTANTS
  Request = {r1}
  Autofill = FALSE
PROPERTIES
  InUseMeansInUse
