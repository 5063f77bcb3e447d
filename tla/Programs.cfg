SPECIFICATION Spec
CONSTANTS
  Event = {e1, e2}
  Worker = {w1, w2}
  Nobody = Nobody
  BufferSize = 1
  Retries = 1
  Threshold = 2
  MaxMishaps = 1
  Record = {r1, r2, r3}
  Conn = {c1, c2}
  NoRecord = NoRecord
  NoSegment = NoSegment
  MaxCrashes = 1
  MaxBadWrites = 1
  Limit = 2
  Window = 3
  RefillTicks = 2
  DrainTicks = 2
  MaxTime = 7
  LsmKey = {k1, k2}
  LsmValue = {v1, v2}
  Tomb = Tomb
  NotFound = NotFound
  MaxMemSize = 2
  MaxWrites = 5
  Order = 2
  Number = {1, 2, 3, 4, 5, 6, 7, 8, 9, 10}
  CacheKey = {ck1, ck2, ck3}
  CacheValue = {cv1, cv2}
  Capacity = 2
  Missing = Missing
  Client = {p1, p2, p3}
  Content = {x1, x2}
  Nothing = Nothing
  Instance = {i1, i2, i3}
  NoHolder = NoHolder
  LeaseTTL = 4
  RefreshInterval = 2
  MaxTicks = 9
  Ident = {id1, id2}
  MaxOccurrences = 4
  Cidr <- ThreeRules
  Masked <- MaskOf
  MaxErrors = 1
  Task = {t1, t2, t3}
  Malformed = {t3}
  PoolWorker = {pw1, pw2}
  NoTask = NoTask
  Prefetch = 2
  DeathLimit = 1
  MaxClosings = 1
  MaxFailures = 2
  SagaSteps = 4
  Uncompensated = {4}
  Request = {q1, q2}
  MaxRequests = 5
  Subscriber = {s1, s2}
  Publisher = {b1, b2}
  ChannelSize = 1
  MaxMessages = 3
  Peer = {g1, g2}
  Room = {m1, m2}
  QueueSize = 2
  SendSize = 1
  MaxChats = 2
  TfResource = {f1, f2}
  MaxUpsets = 2
  AccountList <- TwoAccounts
  AwsRegion = {us}
  ResourceId = {snapshot, instance}
  Advice = {instance}
  Concurrency = 2
  MaxChanges = 1
  Poller = {l1, l2, l3}
  MaxPublished = 3
  Caller = {h1, h2}
  Backends = 3
  NoBackend = NoBackend
  MaxFlips = 3
  Replica = {d1, d2, d3}
  Payload = {y1, y2}
  Empty = Empty
  MaxUpdates = 2
  MaxStamp = 2
  Greetings = {z1, z2}
  Gone = Gone
  NoData = NoData
  MaxLag = 2
  MaxEdits = 3
INVARIANTS BoundedLoss HalfOpenIsOnTrial PromisedReadsBack RateKept TreeIsSound KeepsRecent AgreeUnlessRaced ExclusiveUnlessOverslept NothingDroppedSilently GrantedRulesHold DoneOncePerChannel SagaUndone RedecidedOnlyInRace NeverSendsOnClosed MembersHearTheRoom KnownIsTold DestroysOnlyPlanned PollsCanWake NoFalse503 CountsWhatItSaw
PROPERTIES LsmIsAMap WorkerFinishes ControllerConverges
CHECK_DEADLOCK FALSE
