SPECIFICATION Spec
CONSTANTS
  Songs = {a1, a2, a3, b1}
  a1 = a1
  a2 = a2
  a3 = a3
  b1 = b1
  List <- MCList
  AlbumOf <- MCAlbumOf
  Short = {a2}
  Web = {web}
  web = web
  Pressers = {web}
  Offered = {"random", "disk"}
  Requests = {"play", "enqueue"}
  MaxInputs = 4
  Nil = Nil
PROPERTY SelectionEnds
