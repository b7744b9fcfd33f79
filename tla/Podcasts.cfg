SPECIFICATION Spec
CONSTANTS
  Guids = {e1}
  Settings = {TRUE}
  Workers = 2
  Attempts = 2
  None = None
  Jobs = {j1, j2}
  MaxBooks = 2
  MaxEdits = 1
  MaxFaults = 1
SYMMETRY Symmetry
INVARIANTS TypeOK DownloadedIsPlayable SecondCopyExplained NoStrayFiles SettingKept NewIsQueued
CHECK_DEADLOCK FALSE
