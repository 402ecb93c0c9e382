\* Two clients of a sensor, two devices on a bus, two hooked tasks; power
\* fails twice, an access point or a modem changes three times; arrays around
\* the powers of two and the width of the counters; two threads on a host.
CONSTANTS
  Parts = {"sensors", "peripherals", "buses", "drivers", "clocks", "boot", "network", "ring",
           "stack", "native"}
  Clients = {1, 2}
  Drivers = {"lis2du12", "lps22df", "stts22h", "continuous", "single"}
  Modes = {"Enabled", "Sleeping"}
  FeatureSets <- FeaturePairs
  Pins <- ThreePins
  INT_CHANNEL_COUNT = 2
  Reconstruct = FALSE
  MaxClaims = 2
  Ranges <- KHzRanges
  SpiStep = 500
  Devices = {1, 2}
  MaxCalls = 2
  HalBauds = {1200, 1000000}
  Overrides <- AnOverride
  Pages = 2
  Hooks = {"h1", "h2"}
  NetworkFirst = {}
  MarkerReadFails = FALSE
  MaxCrashes = 2
  WaitClears = FALSE
  MaxChanges = 3
  Lengths = {0, 1, 3, 6, 31, 64, 260, 300}
  Starts = {67, 72}
  Sizes = {60}
  FrameSizes = {12}
  Grain = 8
  Slots = {0, 1}
  Hosts = {1, 2}
  ReuseSlots = FALSE
  SpuriousWakes = FALSE
SPECIFICATION PlatformSpec
INVARIANTS SignalsHeard OneUser AsConfigured BootSafe MemoryExact NativeRuns
PROPERTIES ReadingArrives BusFreed BootCompletes LinkFollows
\* A search, a construction or a boot ends.
CHECK_DEADLOCK FALSE
