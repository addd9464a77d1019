SPECIFICATION Spec
CONSTANTS
  Process = {p1, p2}
  Claim = {c1, c2}
  text = text
  long = long
  Page = {text, long}
  Layout <- MCLayout
  ImageLines <- MCImageLines
  Requests <- MCRequests
  TierEdge <- MCTierEdge
  ViewportHeight = 4
  ColourTolerance = 25
  MergeDistance = 0
  MinimumRegionArea = 7
  MaximumRegions = 1
  CropPadding = 1
  Threshold = 1
  MaxCaptures = 2
  MaxCleared = 1
  Null = Null
  Gone = Gone
SYMMETRY Symmetry
INVARIANTS RowsDescribePictures WarningLateByOthersAtMost RegionsAreTheChanges
  ImagesShowTheChanges
