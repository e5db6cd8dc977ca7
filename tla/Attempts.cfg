CONSTANTS
  c1 = c1
  c2 = c2
  m1 = m1
  m2 = m2
  p1 = p1
  k1 = k1
  k2 = k2
  Campaigns = {c1}
  Messages = {m1}
  CampaignOf <- OneCampaign
  Existing = {c1}
  Procs = {p1}
  MaxFaults = 0
  MaxAttempts = 2
  Clients = {}
  Requests = {}
  HostOf <- ClientsOnP1
  Trackers = {}
  TrackerHost <- TrackersOnP1
SPECIFICATION Spec
INVARIANTS
  AttemptsBounded
