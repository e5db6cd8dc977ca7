CONSTANTS
  c1 = c1
  c2 = c2
  m1 = m1
  m2 = m2
  p1 = p1
  k1 = k1
  k2 = k2
  Campaigns = {c1, c2}
  Messages = {m1, m2}
  CampaignOf <- TwoCampaigns
  Existing = {c1}
  Procs = {p1}
  MaxFaults = 0
  MaxAttempts = 1
  Clients = {k1}
  Requests = {"scheduled", "pause", "reschedule"}
  HostOf <- ClientsOnP1
  Trackers = {}
  TrackerHost <- TrackersOnP1
SPECIFICATION FairSpec
PROPERTIES
  EventuallySettled
