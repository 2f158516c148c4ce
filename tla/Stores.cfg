SPECIFICATION StoresSpec
CONSTANTS
  Writer = {w1, w2, w3}
  Serialized = TRUE
  MaxWrites = 3
  Value = {v0, v1}
  First = v0
  Empty = Empty
  Torn = Torn
  NoFile = NoFile
  Slot = {s1}
  MaxPresetWrites = 3
  MaxChanges = 3
  Cards = {"a", "b"}
  Titles = {"t", "u"}
  MaxEntries = 2
  MaxStamps = 4
CHECK_DEADLOCK FALSE
SYMMETRY Symmetry
INVARIANTS ReturnedIsSafe StoresInv
PROPERTIES ImplementsDurableCell LoneSaveLands
