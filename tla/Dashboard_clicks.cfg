CONSTANTS
  s1 = s1
  s2 = s2
  p1 = p1
  p2 = p2
  NoPrompt = NoPrompt
  Sessions = {s1, s2}
  Prompts = {p1, p2}
  MaxOutages = 1
SPECIFICATION Spec
SYMMETRY Symmetry
CHECK_DEADLOCK FALSE
PROPERTIES
  ClickDecides
