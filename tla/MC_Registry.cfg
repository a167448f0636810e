\* Three requests, two at a time, on an organization that is in use.
CONSTANTS
  Handlers = {h1, h2}
  Labels <- MCLabels
  Identifiers <- MCIdentifiers
  Suffixes <- MCSuffixes
  Names <- MCNames
  Seed <- MCSeed
  Databases <- MCDatabases
  MaxRows <- MCMaxRows
  MaxRequests = 3
SPECIFICATION Spec
INVARIANTS CheckedReferencesLive DomainHasGroup OwnSkills
PROPERTIES ApplyTakesEffect
CHECK_DEADLOCK FALSE
SYMMETRY Symmetry
