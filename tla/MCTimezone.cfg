CONSTANTS
  Callers = {c1, c2}
  ZoneFiles <- MCZoneFiles
  NoLink = NoLink
  RegularFile = RegularFile
  RemoveMayFail = TRUE
  SymlinkMayFail = TRUE
SYMMETRY MCSymmetry
SPECIFICATION Spec
INVARIANTS TypeOK GetReturnsLastSet StaleErrorOnlyUnderRace
