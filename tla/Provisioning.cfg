CONSTANTS
  p1 = p1
  p2 = p2
  k1 = k1
  k2 = k2
  Containers = {p1, p2}
  LastMigration = 2
  MaxFaults = 1
  SyncClients = {k1, k2}
  ServedBy <- OnP1
  CompanyRefs = {"c1", "c2"}
  UserRefs = {"u1", "u2"}
  CampaignRefs = {"e1"}
  SyncedNames = {"ana", "rui"}
  Calls <- SomeCalls
  MaxCompanies = 3
SPECIFICATION FairSpec
INVARIANTS
  ProvisioningTypeOK
  ServesProvisioned
  AcceptedIsKept
PROPERTIES
  ImplementsSchemaHistory
  ImplementsRegistry
  StartNeverRefused
  EventuallyServing
