SPECIFICATION ListingSpec
CONSTANTS
  Keys <- Wide
  PrefixArgs <- Some
  MaxKeysArgs = {1, 4}
  ListMaxKeys = 2
  Crashes = TRUE
  MaxChanges = 2
INVARIANTS
  ListingOrdered
  ListingExact
