SPECIFICATION Safety
CONSTANTS
  Songs = {a1, a2, a3, b1}
  a1 = a1
  a2 = a2
  a3 = a3
  b1 = b1
  List <- MCList
  AlbumOf <- MCAlbumOf
  Short = {a2}
  Web = {web}
  web = web
  Pressers = {web}
  Offered = {"random", "repeat", "single", "halt", "disk"}
  Requests = {"play", "enqueue", "random"}
  MaxInputs = 4
  Nil = Nil
INVARIANTS
  TypeOK
  ModeExclusive
PROPERTIES
  DiskStaysOnAlbum
  RoundBeforeRepeat
  RepeatGoesOn
