SPECIFICATION TaskSafety
CONSTANTS
  Songs = {s1, s2, s3}
  s1 = s1
  s2 = s2
  s3 = s3
  FormatOf <- MCFormatOf
  Playlist <- MCPlaylist
  Rescanned = {}
  Devices = {"usb"}
  DeviceFails = FALSE
  ShortSongs = {}
  Nil = Nil
  Capacity = 2
  Ahead = 1
  Repeat = "list"
  MaxRequests = 2
  PromptEvents = TRUE
INVARIANTS
  HaltedStaysSilent
