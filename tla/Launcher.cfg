\* Two applications; the selection and the refresh go on during a patch.
CONSTANTS
  Apps = {antigravity, ide}
  None = None
SPECIFICATION Spec
INVARIANT FailedPatchLeavesNothingHalfMade
