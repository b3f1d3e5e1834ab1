SPECIFICATION FairSpec
CONSTANTS
  FileLen = 5
  File <- MCFile
  SizeHints = {0, 2, 3, 5, 7}
  ReadSize = 2
  MaxOverrun = 2
  MaxRetries = 2
  SeqMod = 6
  Window = 4
INVARIANTS
  TypeOK
  ResultFaithful
  ResultNotTruncated
PROPERTIES
  SweepAdvances
  Implements
  Returns
