CONSTANTS
  Approvals = {a1}
  Clicks = {c1, c2}
  Refreshes = {r1, r2}
  MaxRevisions = 1
  MaxApprovalFaults = 2
  Questions = {q1, q2}
  AskClicks = {k1, k2}
  Cancels = {x1}
  Agents = {g1, g2}
  MaxAskFaults = 1
  MaxAskCrashes = 1
  Posts = {p1}
  Submits = {s1, s2}
  Readers = {l1, l2}
  People = {u1, u2}
  Authors = {w1, w2}
  MaxPostFaults = 1
  Turns = {t1, t2, t3}
  Conversations = {v1, v2}
  MaxBots = 2
  MaxTurnFaults = 1
  MaxBotCrashes = 1
  Channels = {c1, c2}
  Persons = {p1}
  Lookups = {l1, l2}
  RosterTtl = 2
  UserTtl = 2
  TokenLife = 3
  TokenSkew = 1
  MaxEntries = 1
  MaxFetch = 1
  MaxTime = 5
  MaxBack = 2
  MaxGraphFaults = 1
  Deliveries = {d1, d2}
  Budgets = {b1}
  MaxRetries = 2
  BaseDelay = 1
  MaxDelay = 2
  Deadline = 3
  Timeout = 1
  Threshold = 2
  MaxLate = 1
  MaxDeliveryFaults = 1
  MaxDeliveryCrashes = 1
  Events = {e1, e2}
  Day = 2
  DigestHour = 1
  Horizon = 5
  MaxFailures = 1
  MaxFaults = 1
CHECK_DEADLOCK FALSE
SPECIFICATION TeamsSpec
SYMMETRY Symmetry
INVARIANTS
  TeamsTypeOK CardsTrue Settled AnswerAccountedFor AskIndexExact PostsKept
  ExpiryRecovered AnnouncedOnce BusyBounded HealthTrue
  NothingForgotten ReportedOnce OncePerDay
PROPERTIES ConversationsKept RosterBounded
