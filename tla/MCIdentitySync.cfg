SPECIFICATION FairSpec
CONSTANTS
  Handlers = {h1, h2}
  Nobody = Nobody
  References = {"c1"}
  Providers = {"p1", "p2"}
  Contacts = {"phone"}
  Capabilities = {"sync", "async"}
  CustomerEvents <- Events
  Snapshots <- ProviderMessages
INVARIANTS
  TypeOK
  ReadIsCurrent
  ClaimsAreEvidenced
PROPERTIES
  RowsMoveForward
  AnsweredIsStored
  RequestsEnd
