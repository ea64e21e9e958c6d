CONSTANT MaxWrites = 2
SPECIFICATION Spec
PROPERTIES OkMeansRestored
CHECK_DEADLOCK FALSE
