SPECIFICATION Spec
CONSTANTS
  Sizes <- MCSizes
  MaxCount = 6
PROPERTIES
  ReadsAreFull
  ImplementsByteStream
