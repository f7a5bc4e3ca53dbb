CONSTANTS
  Variables = {x, y}
  MaxObjects = 3
SPECIFICATION QuantitySpec
SYMMETRY Interchangeable
INVARIANT NormalObjectBehavior
