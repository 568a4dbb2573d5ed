SPECIFICATION Spec
CONSTANTS
  Fds = {0, 1, 2, 3}
  Addresses = 2
  MaxFailures = 4
PROPERTIES
  AlwaysReconnects
