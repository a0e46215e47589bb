CONSTANTS
  Block = 6
  Header = 2
  MaxBatches = 3
  Shapes <- MCShapes
SPECIFICATION FairSpec
INVARIANTS TypeOK TailIsExact
PROPERTIES ScanEnds
