CONSTANTS
  None = None
  i1 = i1
  Conn = {c1, c2}
  Process = {p1, p2}
  Command = {m1}
  Installation <- OneInstallation
  InstallationOf <- HomeIsOne
  Target <- TargetIsOne
  PresenceTtl = 2
  MaxHandling = 1
SPECIFICATION Spec
INVARIANT StopsAcceptingUpgrades
