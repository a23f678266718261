SPECIFICATION ServicesSpec
CONSTANTS
 w1 = w1
 w2 = w2
 k1 = k1
 k2 = k2
 v1 = v1
 CacheWindows = {w1, w2}
 EmptyKey = EmptyKey
 Keys = {EmptyKey, k1, k2}
 Values = {v1}
 Capacity = 1
 Absent = Absent
 Nobody = Nobody
 MaxClock = 1
 MaxFailures = 2
 MaxToolCalls = 2
 MaxStreams = 5
 MaxSubmits = 2
 MaxStops = 1
 MaxSilent = 1
 Setups = {{}, {"keys"}, {"goOn"}}
 a = a
 b = b
 p1 = p1
 p2 = p2
 p3 = p3
 Orgs = {a, b}
 PersonalOrg = a
 FirstOrg = b
 LocalConfig = p1
 AssistantFiles = {p2}
 HubAssistants <- PersonalAssistant
 NoOne = NoOne
 MaxCascades = 2
 MaxReloads = 4
 MaxEdits = 1
 MaxSelections = 1
 HandlerCases = {{}, {"bare"}, {"onPrem"}, {"strict"}, {"eager"}, {"both"}}
INVARIANTS
 CacheTypeOK
 SavedUnlessDirty
 ToolsTypeOK
 RunsOnce
 RunsAsAllowed
 OneLiveStream
 NothingHangs
 ConfigTypeOK
 SelectionIsConsistent
 QuietConfigIsCurrent
 QuietIsInitialized
PROPERTIES
 PutKeepsSize
 FirstDirtyIsFlushed
 ImplementsDurableMap
 StreamSettles
 OrgsNeverGoBack
CHECK_DEADLOCK FALSE
