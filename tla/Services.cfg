\* Transcripts, limiter, watchdog, backups, live updates and heartbeats, one at a time.
SPECIFICATION SSpec
CONSTANTS
  Sec = 40
  None = None
  ManyWords = 4
  SomeWords = 3
  TextCap = 5
  CueSize = 2
  MaxChannels = 2
  Durations = {80, 480}
  MaxAttempts = 2
  Logs <- MCLogs
  WordAnswers <- MCWords
  FinerAnswers <- MCFiner
  SegmentAnswers <- MCSegments
  Clients = {c1}
  Fine = 2
  Window = 4
  MostOf <- MCMostOf
  LastUnit = 8
  LocalJobs = {j1, j2}
  IdleFor = 4
  CheckEvery = 2
  LastSecond = 9
  KeepLast = 1
  DrillEvery = 2
  EndOfTime = 3
  LastVersion = 2
  TenantJobs = {j1, j2}
  BeatEvery = 3
  IdleSleep = 1
  GraceSetting = 4
  Never = Never
  Midnight = 16
  Bootstraps <- MCBootstraps
  Wanted <- MCWanted
  Trimmed <- MCTrimmed
  RawTokens = {t1, t2}
  TokenTtl = 2
  LastHour = 4
INVARIANTS
  TTypeOK
  WordsInTime
  OnlyInSpeech
  SpeechIsNotSilence
  WordsKept
  ExportsFaithful
  WavsAccounted
  WindowRespected
  RetryIsServed
  OnlyLateJobsCutOff
  NewestBackupKept
  RestoreKeepsOld
  NoneMissed
  MissingOnlyInLongChannels
  AccountsUsable
CHECK_DEADLOCK FALSE
