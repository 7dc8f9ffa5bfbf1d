\* utils/deque: four slots and three elements, from New and from a zero value.
SPECIFICATION Spec
CONSTANTS
  Elements = {x, y, z}
  Capacity = 4
  Zero = zero
  Ok = ok
  Full = full
  Empty = empty
INVARIANTS TypeOK NoStaleSlots
PROPERTY ImplementsBoundedDeque
