\* The user installs a new version over a patched command and patches again.
CONSTANTS
  MaxVersion = 2
  MaxCrashes = 0
  None = None
SPECIFICATION Spec
CHECK_DEADLOCK FALSE
INVARIANT BinaryPreserved
