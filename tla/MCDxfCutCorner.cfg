SPECIFICATION Spec
CONSTANTS
  Drawings <- OnlyCutRectangles
  Documents <- NoDocuments
  Continued <- NoDocuments
  MaxDimension = 200
  Thickness = 4
  MaxEntities = 9
  MaxSegments = 8
  MaxHoles = 6
INVARIANT ConvertibleHolesInside
CHECK_DEADLOCK FALSE
