SPECIFICATION Spec
CONSTANTS
  Songs = {s1, s2, s3}
  s1 = s1
  s2 = s2
  s3 = s3
  FormatOf <- MCFormatOf
  Rescanned = {s2}
  Devices = {"usb", "hdmi"}
  DeviceFails = TRUE
  ShortSongs = {}
  Nil = Nil
INVARIANTS
  TypeOK
  SongNeedsDevice
  StateNeedsDevice
  WaitingHasSong
  FormatMatches
PROPERTIES
  ChangesAreTold
  SongsChangeWhilePlaying
