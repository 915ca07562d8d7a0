CONSTANTS
  Absent = Absent
  Blank = Blank
  a = a
  b = b
  add = add
  find = find
  hello = hello
  world = world
  open = open
  close = close
  MaxLines = 3
  Strings <- mcStrings
  Lines <- mcLines
  Objects <- mcObjects
SPECIFICATION FairStreamSpec
INVARIANTS
    FramingIsIrrelevant
    AllOrNothing
PROPERTIES
    StreamSettles
CHECK_DEADLOCK FALSE
