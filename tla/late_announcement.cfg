SPECIFICATION Spec
CONSTANTS
  Duration = 4
  Lead = 2
  Ahead = 3
  MaxWait = 2
  Drift = 1
PROPERTIES AnnouncedWithTimeLeft
