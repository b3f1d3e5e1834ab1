SPECIFICATION Spec
CONSTANTS
  NumChunks = 3
  OldChunks = 2
  MaxRetries = 3
  SeqMod = 7
  Window = 3
INVARIANTS
  TypeOK
  UploadFaithful
  WrittenInOrder
PROPERTIES
  Implements
  Returns
