\* Two threads call the wrapper on a table that is scanned in the order of its rows (packets).
CONSTANTS
  Thread = {t1, t2}
  Key = {k1, k2}
  All = All
  Unique = FALSE
  MaxRows = 2
  MaxFaults = 1
SPECIFICATION Spec
INVARIANT
  Methods
PROPERTY
  ImplementsStatement
