\* Nothing fails: two handlers interleave.
SPECIFICATION Spec
CONSTANTS
  Strategies = {s1}
  Handlers = {h1, h2}
  Miss = Miss
  Faults = {}
  MaxModeChanges = 0
PROPERTY TripIsMirrored
