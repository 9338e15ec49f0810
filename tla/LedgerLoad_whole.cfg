\* Two loads that overlap, against what the injector's README says of a load.
SPECIFICATION LoadSpec
CONSTANTS
  Tables = {"snapshot_meta", "accounts"}
  Sets = {s1}
  Loads = {l1, l2}
  MaxSwaps = 2
  None = None
SYMMETRY LoadSymmetry
PROPERTIES PublishedWhole
