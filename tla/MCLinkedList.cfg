SPECIFICATION Spec
CONSTANTS
  Addr = {a1, a2, a3, a4}
  Null = null
  Value <- SmallValues
SYMMETRY Symmetry
INVARIANTS
  TypeOK
  Linked
  HasPrev
  NothingLeaks
PROPERTIES
  ImplementsValueList
