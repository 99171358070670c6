\* Every fault.
CONSTANTS
  Pkgs <- Two
  Requires <- AppNeedsLib
  Obsoletes <- LibObsoletesApp
  Several <- AppTwice
  Faults = {"mirror", "corrupt", "clean", "element", "kill", "manager"}
SPECIFICATION TransSpec
INVARIANTS
  TransTypeOK
PROPERTIES
  StartsComplete
  OKIsDone
  OnlyAsAnswered
