SPECIFICATION CatalogSpec
CONSTANTS
  o1 = o1
  o2 = o2
  o3 = o3
  k1 = k1
  k2 = k2
  c1 = c1
  c2 = c2
  r1 = r1
  None = None
  Empty = Empty
  Object = {o1, o2, o3}
  KeyOf <- Keys
  CatalogOf <- Catalogs
  LabelsOf <- Same
  Request = {r1}
  MaxSwitch = 2
  MaxVersion = 2
  Lists <- Entries
  Internal = {"auto"}
  MaxName = {"a__max"}
  DevName = {"a__dev"}
  Day = {1, 2}
  Minute <- FewMinutes
  Fails = Fails
INVARIANT WindowHasCaps
CHECK_DEADLOCK FALSE
