SPECIFICATION Spec
CONSTANTS
  Identifiers = {"name"}
  OtherWords = {"42"}
  MaxLen = 6
  Args <- MCArgs
  MaxArgs = 3
  Heard = {"GET", "PUSH", "LOGIN", "FAILED", "OK", "name", "42"}
  MaxSymbols = 7
INVARIANTS RoundTrip Normalised ArgumentsPresent
