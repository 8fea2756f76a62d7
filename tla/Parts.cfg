SPECIFICATION PartsSpec
CONSTANTS
    Names = {1}
    Ops = {o1}
    Watched = {}
    Admins = {a1}
    Nested = FALSE
    MaxIncarnations = 1
    Calls = {c1, c2}
    Keys = {k1}
    Keyless = keyless
    NoRun = norun
    Total = 10
    Boundaries = {0, 1, 5, 8, 10}
    Limits = {3, 4, 6}
    MaxVersions = 2
    Writers = {w1, w2, w3}
    NoWriter = nowriter
    MaxLosses = 1
    RotationSize = 3
    Callers = {q1, q2}
    Retries = 2
    Settings = {f1, f2}
    Denied = {f2}
    Syncs = {s1, s2}
    NoSync = nosync
    MaxEdits = 1
    Tree = {p1, p2, p3}
    TreeRoot = p1
CHECK_DEADLOCK FALSE
INVARIANTS PartsInv OutHasCooldown AnswersAgree OneWorkerPerKey PagesJoin EofIsFinal RecordIsWhole AnsweredIsKept RaisedIsUnapplied PassedAtMostOnce OverlookedFewTimes DoneMeansSynced VerdictMissesLateOnly LauncherLeavesLateOnly
PROPERTIES AnsweredRunSettles ReaderFinishes ImplementsRecord SettingsAdvance SyncEnds
