SPECIFICATION UnitSpec
CONSTANTS
  Requests <- Asked
  Points <- OneAndSix
INVARIANTS
  FilterWordIsWord2
  FoundIffTarget
  AddressRoundTrips
