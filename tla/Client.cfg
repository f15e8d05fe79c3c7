CONSTANTS
  ReleaseFrames = 2
  Interval = 2
  Wrap = 6
  Slots = 2
  FakeHandles = 3
  Threads = {1, 2}
  MaxTicks = 4
  MaxEvents = 3
  MaxShots = 2
  PendingMax = 2
  ReloadLimit = 1
  Images = 3
  TimeStore = 1
  Addresses = 2
  MaxSockets = 4
  MaxAsks = 4
  MaxFaults = 1
  MaxRestarts = 1
  TextDraws = 2
  RetryTicks = 1
  MaxChanges = 2
SPECIFICATION Spec
CHECK_DEADLOCK FALSE
INVARIANTS TypeOK DialogsAgree InputGivenBack NothingLeaks MadeOnce HookIsSafe PatchesBehave
  ReportedOnce RateHonored SpectatesAsTold FilesKeepPlace ModelsUsable PicturesBehave
