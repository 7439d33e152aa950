SPECIFICATION Spec
CONSTANTS
  Letters = {x, y}
  MaxLen = 4
CHECK_DEADLOCK FALSE
INVARIANT RatioInRange
INVARIANT RatioIsSimilarity
