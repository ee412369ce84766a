SPECIFICATION Spec
CONSTANTS
  p = p
  q = q
  r = r
  s = s
  None = None
  Other = Other
  tokens_Callers = {p, q}
  tokens_MaxGrants = 3
  tokens_MaxFaults = 1
  tokens_NoRow = None
  logins_Processes = {p, q}
  logins_Threshold = 2
  logins_MaxRestarts = 2
  logins_MaxOutages = 1
  device_Tasks = {p, q}
  device_Accounts = {r, s}
  device_Local = Other
  device_NoAccount = None
  quota_Capacity = 4
  quota_Cost = 2
  quota_ManualKeep = 1
  quota_TTL = 8
  quota_Horizon = 10
  object_Objects = {p, q, r}
  object_Bare = {r}
  object_Zones = {1, 2}
  object_Choices = {1}
  object_Lowest = 0
  object_Highest = 3
  object_Shift <- SpecialShift
  object_None = None
  object_MaxTurns = 3
  alerts_StaleAfter = 1
  alerts_DeviceAfter = 1
  alerts_Persistent = 1
  alerts_MaxTurns = 1
  alerts_Throttle = 2
  alerts_Horizon = 3
  alerts_Never = None
  prices_Polls = {p, q}
  prices_Homes = {r, s}
  prices_Areas = {1, 2}
  prices_Digests <- DistinctDigests
  prices_Currencies = {1}
  prices_Unset = None
  prices_MaxChoices = 1
  settings_Writers = {p, q}
  settings_Offsets = {2}
  settings_Providers = {r, s}
  settings_MaxWrites = 2
  settings_Free = None
  reset_Runs = {p, q}
  reset_Operations = {r}
  reset_MaxDrift = 1
  reset_MaxFaults = 1
  reset_Nothing = None
  reset_Torn = Other
  backup_Destinations = {p, q}
  backup_Drills = {1}
  backup_MaxDrills = 1
  backup_MaxArchives = 3
  backup_Horizon = 2
  backup_Interval = 1
  backup_Timeout = 1
  backup_Retention = 0
  backup_Freshness = 2
  cutover_Runs = {1, 2}
  cutover_Absent = None
  files_Workers = {p, q}
  files_Files = {r, s}
  files_Attempts = 2
  files_Grace = 0
  files_Retention = 0
  files_Longest = 1
  files_MaxFits = 2
  files_MaxFaults = 1
  files_Horizon = 1
  files_None = None
  shutdown_Jobs = {p, q, r}
  shutdown_Fit = r
  shutdown_MaxSignals = 2
  shutdown_MaxRuns = 1
  tank_Hours = 4
  tank_Midnight = 3
  tank_Prices = {1, 2}
  tank_Tanks = {164, 184, 211}
  tank_Rooms = {72, 78}
  tank_Rates = {20, 24}
  tank_Natives = {{}, {0, 1, 2, 3}}
  tank_Comforts = {{}, {2, 3, 4}, {1, 3}}
  zone_PriceCurves <- CurvesOfPrices
  zone_Weathers <- ColdAndMild
  zone_Gates <- HourlyGates
  zone_Forecasts <- HouseForecasts
  zone_Lows <- LowForecasts
  zone_Rooms = {179, 200}
  zone_Comforts = {{0, 1, 4, 5}, {0, 3}}
  zone_Zones = {"usable", "unobserved", "overheated"}
  zone_Headrooms = {0, 2}
  zone_Statuses = {"comfort"}
  zone_Nights <- QuietNightHours
  zone_Levels = {0, 2}
  zone_Needs = {1, 2}
  zone_Hours = 6
  zone_Day = 8
  zone_PreheatBack = 1
  zone_GuardBack = 1
  zone_Ahead = 2
  zone_None = None
  evidence_MaxAge = 2
  evidence_LiveAge = 1
  evidence_ReadLimit = 2
  evidence_Hour = 2
  evidence_Checkpoints = {1, 2, 3}
  evidence_LiveAt = {1, 3}
  evidence_Budget = 2
  evidence_NoTime = None
  evidence_MaxTurns = 1
  evidence_MaxAttempts = 1
  evidence_Horizon = 4
  showers_Devices = {r}
  showers_MaxShowers = 1
  showers_MaxFaults = 1
  showers_None = None
  gate_Writers = {p, q}
  gate_Bases = {0, 2}
  gate_Temperatures = {0, 2, 4}
  gate_NoReading = Other
  gate_NoRow = None
  gate_MaxReadings = 2
  proof_Lead = 1
  proof_Carry = 1
  proof_FirstLook = 2
  proof_Looks = 1
  proof_Closed = 1
  proof_Fresh = 3
  proof_MinPairs = 1
  proof_PageSize = 2
  proof_None = None
  proof_MaxEvents = 1
  proof_MaxCrashes = 1
  proof_Horizon = 2
  score_Devices = {r, s}
  score_None = None
  score_Bad = Other
  score_Observed <- ObservedHours
  score_Commanded <- CommandedHours
  score_Lookup = TRUE
  score_Passes = 2
  score_MaxPlans = 2
  score_MaxEvals = 2
  readiness_Callers = {p, q, r}
  readiness_Keys = {1, 2}
  readiness_MaxWaiters = 2
  readiness_Response = 1
  readiness_MaxFlights = 2
  readiness_Horizon = 1
  readiness_None = None
  serving_Requests = {p, q}
  serving_Planner = r
  serving_None = None
  serving_MaxTurns = 3
  cop_Editors = {p, q}
  cop_Dates = {0, 1, 2, 3}
  cop_Zones = {0, 1}
  cop_Skipped <- SkippedMidnights
  cop_Day = 2
  cop_Window = 3
  cop_Folds = 1
  cop_Limit = 2
  cop_Editable = {1}
  cop_Opening = 8
  cop_Skew = 1
  cop_Horizon = 9
  cop_MaxWrites = 1
  cop_MaxGaps = 1
  cop_None = None
INVARIANTS CredentialsAreUnspent RemoteAccountIsProtected VerifiedCopiesAreKept PlansAreWorkable NothingIsCutOff EvidenceIsCurrent AnswersAreTheirOwn QualificationIsEarned
PROPERTIES SilenceIsTold BindingIsTheOwners CampaignsAreSafe ResetIsProven
SYMMETRY Symmetry
CHECK_DEADLOCK FALSE
