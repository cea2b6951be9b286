\* Four items, pages of two and a page limit of one or two: a read meets a
\* last page, a full last page, a page limit, and changes between its pages.
SPECIFICATION ReadSpec
CONSTANTS
  Items = {1, 2, 3, 4}
  PageSize = 2
  MaxPages = 2
INVARIANTS
  ReadTypeOK
  CompleteOrRefused
  EvidenceIsNamed
