SPECIFICATION Spec
CONSTANTS
  b1 = b1
  f1 = f1
  p1 = p1
  p2 = p2
  p3 = p3
  None = None
  Buffers <- OneBuffer
  Files <- OneFile
  Pieces <- ThreePieces
  BackupBeforeWriting = TRUE
  UnlinkCheckpointFiles = TRUE
  MaxText = 2
  MaxModified = 2
  MaxTime = 2
  Inner = {"checkpoint"}
  MaxDepth = 2
INVARIANTS OriginalKept
PROPERTIES OnlyWrittenIsClean CheckpointTrusted LookFindsForeign
SYMMETRY Alike
