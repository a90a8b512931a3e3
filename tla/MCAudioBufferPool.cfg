SPECIFICATION Spec
CONSTANTS
  Buffers = {b1, b2, b3}
  Tracks = {t1, t2, t3}
  Songs = {s1, s2}
  b1 = b1
  b2 = b2
  b3 = b3
  t1 = t1
  t2 = t2
  t3 = t3
  s1 = s1
  s2 = s2
  SongOf <- MCSongOf
  IndexOf <- MCIndexOf
  HashOf <- MCHashOf
  Streamed = {}
  BufferSize = 2
  MaxKey = 4
  Nil = Nil
SYMMETRY Symmetry
INVARIANTS
  TypeOK
  Accounting
  EmptyIsPristine
  KeysIdentify
  OneDecodingPerSong
  ReaderBehindWriter
  DecoderOwnsBuffer
  BufferedFromStart
  StatisticsMatchBuffers
PROPERTIES
  ImplementsTape
