CONSTANTS
  UintMax = 63
  SizeDigits = {"0", "2", "3", "7"}
  MaxDigits = 5
  MaxOptions = 1
  SizeMax = 7
  MaxConfigs = 2
  FbRotations = {0, 1, 3, 4}
  Rates <- MCRates
  IntMax = 255
  FloatPrecision = 1024
  FloatZero = 1000
  MaxOthers = 2
  PlainSizes = {0, 3}
SPECIFICATION Spec
CHECK_DEADLOCK FALSE
INVARIANTS
  ParsedAsWritten
  RefusesOnlyMalformed
  FitsRequest
  KeepsAspect
  PacedAsAsked
  AnswerAsFound
