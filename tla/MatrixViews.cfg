SPECIFICATION MatrixSpec
CONSTANTS
  MatrixRows = 3
  MatrixCols = 2
  SizeValues = 8
  Sizes <- MCSizes
VIEW MCView
CONSTRAINT MCFollowed
INVARIANTS InsideMatrix
PROPERTY ImplementsGrid
