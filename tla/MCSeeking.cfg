SPECIFICATION SeekSpec
CONSTANTS
  Buffers = {b1, b2}
  Tracks = {t1, t2}
  Songs = {s1, s2}
  b1 = b1
  b2 = b2
  t1 = t1
  t2 = t2
  s1 = s1
  s2 = s2
  SongOf <- MCSongOf
  IndexOf <- MCIndexOf
  HashOf <- MCHashOf
  Streamed = {}
  BufferSize = 4
  MaxKey = 2
  SampleSize <- MCSampleSize
  Skip <- MCSkip
  Positions = {700}
  MaxCommands = 1
  Nil = Nil
SYMMETRY Symmetry
INVARIANT SeekTypeOK
PROPERTIES
  JumpsKeepOrder
  JumpsKeepProgress
  JumpsLand
