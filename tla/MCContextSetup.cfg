SPECIFICATION Spec
CONSTANTS
  None = None
  NamespaceOrder <- MCOrder
  Served <- MCServed
  Unslashed <- MCUnslashed
  AbsoluteURIs <- MCAbsolute
  Published <- MCPublished
  IssuerAt <- MCIssuerAt
  Hosted <- MCHosted
  ContextNames <- MCNames
  Numbered <- MCNumbered
  Suggested = "iam"
  Documents <- MCDocuments
  CreateFlags <- MCFlags
  Places <- MCPlaces
  Gateways = {"https://gw"}
  Audiences = {"aud"}
  Secrets = {"VAR"}
  Specs <- MCSpecs
  Files <- MCFiles
  Issuers = {"https://idp2", "http://idp"}
  Clients = {"cli"}
  Organizations = {"acme"}
  AssignedNames <- MCAssigned
  Stores <- MCStores
  MaxCommands = 2
INVARIANTS SessionsReached RewrittenAlike NextStepHolds DriftTold
PROPERTIES OnlyWhatItNames
CHECK_DEADLOCK FALSE
