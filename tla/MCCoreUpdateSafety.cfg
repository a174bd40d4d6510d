\* Two failures and two crashes around an update and its repairs.
CONSTANTS
  Channels = {stable, alpha}
  None = None
  Unset = Unset
  Foreign = Foreign
  Unknown = Unknown
  MaxTx = 2
  MaxUpdates = 2
  MaxFaults = 2
  MaxCrashes = 2
  MaxReplaced = 0
SPECIFICATION Spec
\* The bounds end every behaviour; a daemon with nothing to do also rests.
CHECK_DEADLOCK FALSE
INVARIANT JournalSafe
PROPERTY JournalSteps
PROPERTY Atomic
