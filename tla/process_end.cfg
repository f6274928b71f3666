SPECIFICATION StreamSpec
CONSTANTS
  Codes = {0, 1}
  MaxOutput = 1
INVARIANT WaitsForEnd
