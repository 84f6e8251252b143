\* The components that share no state, each in turn.
SPECIFICATION DeviceSpec
CONSTANTS
  mainTask = mainTask
  transportTask = transportTask
  m1 = m1
  m2 = m2
  m3 = m3
  Producers = {mainTask, transportTask}
  Transport = transportTask
  Msgs = {m1, m2, m3}
  NoMsg = NoMsg
  QueueLen = 1
  MaxCaps = 3
  MaxAdapters = 5
  ArenaBytes = 11
  CapNames = {"a", "b"}
  Pins = {1, 2}
  Layout <- MCLayout
  SensorDebounce = 1
  MaxGarageCommands = 1
  RxBytes = 6
  RawBytes = 5
  Lines <- MCLines
  CommandNames = {"lamp"}
  MaxLines = 2
  Texts <- MCTexts
  OldBlobs <- MCOldBlobs
  Answers <- MCAnswers
  WifiInputs <- MCWifiInputs
  CompiledWifi = "c"
  MaxRetries = 3
  ImageSize = 2
  MaxMishaps = 2
  Announced = 2
  MaxConnections = 4
  MaxPowerCycles = 1
  MaxAttempts = 2
  BodyCap = 1
  MaxFetches = 2
  MaxObjects = 2
  ZeroSamples = 2
  ReadingSamples = 2
  MaxLevel = 1
  MaxTime = 4
  MaxGap = 2
  BlockCode = 4
  RawMax = 6
  EncMax = 8
  FrameMax = 7
  Hold = 2
  MaxWait = 2
  MaxTicks = 7
  LastProfile = 3
  FallbackThreshold = 3
  Credentials = 3
  MaxEvents = 2
CHECK_DEADLOCK FALSE
INVARIANTS TypeOK NoUnderflow TypesOK RegistrySound StorageFaithful OneTransfer
  FetchSound PowerSound FrameDecodes
  ClientFollowsService NothingStale OfflineAccounting SettledIsAnnounced
PROPERTIES DrainsOut GarageSettles NeverSpliced RestartsVerified CheckConcludes SavedConfigBoots
  MqttKeepsTrying LateBitIsTakenBack WifiKeepsTrying TriesEveryNetwork
