\* Three objects in any order.
SPECIFICATION Spec
CONSTANTS
  Object = {a, b, c}
  NULL = NULL
INVARIANTS ListsAllInstances
