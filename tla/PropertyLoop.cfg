\* Eight units; the limit on properties is below what the file can hold.
SPECIFICATION LoopSpec
CONSTANTS
  FileSize = 8
  Ends <- InFile
  NameLen = 1
  TagLens <- LongTags
  TailLens <- Tails
  Sizes <- SizeField
  Reasonable = 4
  Window = 3
  MaxProperties = 6
  Layouts <- BothLayouts
INVARIANTS BoundedWork ValuesPlaced StrictStops
PROPERTIES Forward
