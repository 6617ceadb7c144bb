SPECIFICATION DomSpec
CONSTANTS
  Pages <- McPages
  Sizes = {1, 4, 13, 128}
INVARIANTS
  DomTypeOK
  ColumnsDescribePage
  HexFits
  HexLayout
