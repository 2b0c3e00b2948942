SPECIFICATION FairSpec
CONSTANTS
  Devices = {d1}
  Targets = {t1, t2}
  MaxJoins = 2
  Mishaps = {"refused", "raised", "lost", "restart", "settings"}
  None = None
INVARIANTS MirrorTypeOK UpToDate SeenIsOnPrimary
PROPERTY JoinsAreRead
