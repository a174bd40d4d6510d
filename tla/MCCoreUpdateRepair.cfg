\* One update, and a repair for each thing that can go wrong.
CONSTANTS
  Channels = {stable, alpha}
  None = None
  Unset = Unset
  Foreign = Foreign
  Unknown = Unknown
  MaxTx = 4
  MaxUpdates = 1
  MaxFaults = 1
  MaxCrashes = 1
  MaxReplaced = 1
SPECIFICATION FairSpec
\* The bounds end every behaviour; a daemon with nothing to do also rests.
CHECK_DEADLOCK FALSE
INVARIANT NeverHalf
PROPERTY Repairable
