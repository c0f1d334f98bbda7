SPECIFICATION MCSpec
CONSTANTS
    Topics = {"brain"}
    MaxLives = 2
    MaxWire = 2
    MaxLosses = 2
    Sends = {"s1", "s2"}
    MaxFrames = 2
    MaxStreams = 3
    MaxRecordings = 3
    MaxSaid = 4
    Versions = {"v1", "v2"}
    Latest = "v1"
    Aliased = "v1"
    Installers <- MCInstallers
    PerPage = 2
    MaxReleases = 2
    Callers = {"c1", "c2"}
    NoOne = "free"
    MaxTime = 3
    DayLength = 2
    MaxLines = 3
    MaxUpsets = 1
    Clerks = {"k1"}
    Loop = "loop"
    MaxDay = 1
    MaxFiled = 2
    MaxMemos = 2
    Replays = {"p1"}
    MaxEvents = 2
    Refused = {2}
    Limit = 2
    MaxOutages = 1
    Users = {"ada", "bob"}
    Founder = "ada"
    HandoffCalls = {"c1", "c2"}
    MaxHandoffs = 2
    Years <- MCYears
    DaysIn <- MCDaysIn
    First <- MCFirst
    Expressions <- MCExpressions
    Zones <- MCZones
    Moments <- MCMoments
    Drafts = {"d1", "d2", "d3"}
    Mailers = {"w1", "w2"}
    Cap = 1
    Tasks = {"t1"}
    TaskCalls = {"r1", "r2", "r3"}
    MaxMishaps = 1
    Schedules = {"s1"}
    Lanes = {"l1", "l2"}
    Hands = {"h1"}
    Sizes = {1}
    MaxInstants = 1
    MaxFaults = 1
INVARIANTS
    SoleSocket TopicsInSync TeardownIsFinal
    AnswerIsWhole TornDownStaysEmpty
    CaptureIsHeld TranscriptIsItsOwn OneVoice
    PrefersItsTag
    OneChain AnchorMatchesRoot
    SingleUse
    FirstMatch NextFiring
    CapNearlyKept RunningIsRun
    NeverOverfull NoOrphanRuns TwiceAtMost
PROPERTIES
    ComesBack BufferedArrives DueIsServed
CHECK_DEADLOCK FALSE
