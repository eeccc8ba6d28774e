SPECIFICATION Spec
CONSTANTS
  Ids = {i1, i2}
  Quantities = {2}
  MaxRows = 2
SYMMETRY Symmetry
INVARIANTS TypeOK AtMostOneOrder StoreCoversOrders FinalViewIsTrue
PROPERTIES HydrationIsComplete KeepsPromise
