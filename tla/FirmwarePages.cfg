CONSTANTS
  HeaderSize = 1
  PageSize = 2
  SectorSize = 4
  ImageSize = 4
  Versions = {1, 2}
  AppVersions = {2}
  Blank = Blank
  Mix = Mix
  Threshold = 1
  MaxChunk = 2
  MaxUpdates = 2
  MaxErrors = 1
SPECIFICATION Spec
INVARIANT ErasedAsNeeded
