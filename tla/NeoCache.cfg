CONSTANTS
  l1 = l1
  l2 = l2
  l3 = l3
  Loaders <- MCLoaders
  MaxVersion = 2
  LastBlock = 2
SYMMETRY Symmetry
SPECIFICATION Spec
INVARIANTS
  TypeOK
  HandedOverWhole
