SPECIFICATION Spec
CONSTANTS
  SongList <- MCSongList
  AlbumOf <- MCAlbumOf
  Lists = {l1, l2}
  Recent = l1
  Buffers = {b1, b2}
  b1 = b1
  b2 = b2
  s1 = s1
  s2 = s2
  l1 = l1
  l2 = l2
  Nil = Nil
  MaxTracks = 3
  Limit = 1
  Vanishing = {s2}
  AddTwice = FALSE
SYMMETRY Symmetry
CHECK_DEADLOCK FALSE
PROPERTY DeferredForBuffers
