CONSTANTS
  TppPolicies <- MCTppPolicies
  TppDefaults <- MCTppDefaults
  CloudPolicies <- MCCloudPolicies
  CloudDefaults <- MCCloudDefaults
  Directories <- MCDirectories
  Users <- MCUsers
  TppServers <- MCTppServers
  Templates <- MCTemplates
  Asked <- MCAsked
  Origins <- MCOrigins
  Keys <- MCKeys
  KeyLists <- MCKeyLists
  Bundles <- MCBundles
  Signing <- MCSigning
  Candidates <- MCCandidates
  NameLists <- MCNameLists
  Commands <- MCCommands
  Sections <- MCSections
SPECIFICATION Spec
INVARIANTS
  SpecificationIsApplied
  RoundTrip
  CheckedStaysAllowed
  SuggestedIsAllowed
  EvaluatedAlike
  CheckedIsOwn
  MaterialIsWhole
  NamesAreKept
  PlatformIsOne
  CredentialsSuffice
  PasswordsSuffice
