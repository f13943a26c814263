CONSTANTS
  MaxBlocks = 4
  Items = {a, b, c, d, e}
SPECIFICATION Spec
INVARIANTS Dense SweepSeesAll
