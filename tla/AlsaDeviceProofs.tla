--------------------------- MODULE AlsaDeviceProofs ---------------------------
(***************************************************************************)
(* TLAPS proofs about AlsaDevice, for any songs, formats and devices.  The *)
(* operators of AlsaPlayer are shown to keep a player consistent, then the *)
(* actions only have to name the operators they are made of.               *)
(***************************************************************************)
EXTENDS AlsaDevice, TLAPS

(* What every operator keeps. *)
Consistent(d) ==
  /\ d \in PlayerRecords
  /\ d.state # "IDLE"
  /\ ~d.open => d.current = Nil /\ d.state \in {"CLOSED", "ERROR"}
  /\ d.running => d.open /\ d.state # "CLOSED"
  /\ d.state \in {"WAIT", "REOPEN"} => d.current # Nil
  /\ d.state = "PAUSE" => d.saved \in {"PLAY", "WAIT"}
  /\ d.state = "PAUSE" /\ d.saved = "WAIT" => d.current # Nil

(* The samples of the current song fit the device.  So do those of the last
   song, and this is why play() may decide by the last song whether the device
   has to be opened again. *)
Fitting(d) ==
  /\ d.state \in {"PLAY", "WAIT", "PAUSE"} /\ d.current # Nil => d.format = FormatOf[d.current]
  /\ d.open /\ d.last # Nil => d.format = FormatOf[d.last]

LEMMA FormatType == \A s \in Songs : FormatOf[s] \in Formats
BY DEF Formats

LEMMA ClosedPlayerConsistent == Consistent(ClosedPlayer) /\ Fitting(ClosedPlayer)
BY DEF ClosedPlayer, Consistent, Fitting, PlayerRecords, PlayerStates

LEMMA CloseDeviceConsistent ==
  ASSUME NEW d, Consistent(d)
  PROVE  /\ Consistent(CloseDevice(d)) /\ Fitting(CloseDevice(d))
         /\ ~CloseDevice(d).open /\ CloseDevice(d).current = Nil
BY ZenonT(30) DEF CloseDevice, Reset, Consistent, Fitting, PlayerRecords, PlayerStates

LEMMA ErrorConsistent ==
  ASSUME NEW d, Consistent(d), ~d.running
  PROVE  Consistent(SetState(d, "ERROR")) /\ (Fitting(d) => Fitting(SetState(d, "ERROR")))
<1> DEFINE e == SetState(d, "ERROR")
<1>1. d \in PlayerRecords
  BY DEF Consistent
<1>2. e \in PlayerRecords
  BY <1>1 DEF SetState, PlayerRecords, PlayerStates
<1>3. /\ e.state = "ERROR" /\ e.open = d.open /\ e.running = d.running /\ e.saved = d.saved
      /\ e.format = d.format /\ e.current = d.current /\ e.last = d.last
  BY <1>1 DEF SetState, PlayerRecords
<1>4. Consistent(e) /\ (Fitting(d) => Fitting(e))
  <2> HIDE DEF e
  <2> QED BY <1>2, <1>3 DEF Consistent, Fitting
<1> QED BY <1>4

LEMMA StopConsistent ==
  ASSUME NEW d, Consistent(d)
  PROVE  Consistent(StopOrClose(d)) /\ (Fitting(d) => Fitting(StopOrClose(d)))
<1>1. CASE d.state = "STOP"
  BY <1>1, CloseDeviceConsistent DEF StopOrClose
<1>2. CASE d.state \in Stoppable
  <2> DEFINE e == Reset(d, IF d.open THEN "STOP" ELSE "CLOSED")
  <2>1. StopOrClose(d) = e
    BY <1>2 DEF StopOrClose, StopDevice, Stoppable
  <2>2. d \in PlayerRecords
    BY DEF Consistent
  <2>3. e \in PlayerRecords
    BY ZenonT(60), <2>2 DEF Reset, PlayerRecords, PlayerStates
  <2>4. /\ e.state = IF d.open THEN "STOP" ELSE "CLOSED"
        /\ e.open = d.open /\ e.running = d.running /\ e.format = d.format
        /\ e.current = Nil /\ e.last = d.last
    BY <2>2 DEF Reset, PlayerRecords
  <2> HIDE DEF e
  <2> QED BY <2>1, <2>2, <2>3, <2>4 DEF Consistent, Fitting, PlayerRecords
<1>3. CASE d.state \notin Stoppable \cup {"STOP"}
  BY <1>3 DEF StopOrClose, StopDevice
<1> QED BY <1>1, <1>2, <1>3

LEMMA ToggleConsistent ==
  ASSUME NEW d, Consistent(d)
  PROVE  Consistent(ToggleDevice(d)) /\ (Fitting(d) => Fitting(ToggleDevice(d)))
<1>1. CASE d.state \in {"PLAY", "WAIT"}
  BY <1>1 DEF ToggleDevice, SetState, Consistent, Fitting, PlayerRecords, PlayerStates
<1>2. CASE d.state = "PAUSE"
  BY ZenonT(30), <1>2 DEF ToggleDevice, SetState, Consistent, Fitting, PlayerRecords, PlayerStates
<1>3. CASE d.state \notin {"PLAY", "WAIT", "PAUSE"}
  BY <1>3 DEF ToggleDevice
<1> QED BY <1>1, <1>2, <1>3

LEMMA DropConsistent ==
  ASSUME NEW d, Consistent(d), d.open, NEW dropped \in BOOLEAN
  PROVE  Consistent(DropDevice(d, dropped)) /\ (Fitting(d) => Fitting(DropDevice(d, dropped)))
<1> DEFINE e == DropDevice(d, dropped)
<1>1. d \in PlayerRecords
  BY DEF Consistent
<1>2. e \in PlayerRecords
  <2> DEFINE state == IF dropped THEN "CLOSED" ELSE "ERROR"
  <2>1. e = [d EXCEPT !.running = FALSE, !.state = state]
    BY DEF DropDevice
  <2>2. state \in PlayerStates
    BY DEF PlayerStates
  <2> HIDE DEF e, state
  <2> QED BY <1>1, <2>1, <2>2 DEF PlayerRecords
<1>3. /\ e.state \in {"CLOSED", "ERROR"} /\ ~e.running /\ e.open = d.open
      /\ e.format = d.format /\ e.current = d.current /\ e.last = d.last
  BY <1>1 DEF DropDevice, PlayerRecords
<1>4. Consistent(e) /\ (Fitting(d) => Fitting(e))
  <2> HIDE DEF e
  <2> QED BY <1>2, <1>3 DEF Consistent, Fitting
<1> QED BY <1>4

(* A period keeps the device open; only the song and the state may change. *)
LEMMA PeriodConsistent ==
  ASSUME NEW d, Consistent(d), d.open, d.current # Nil, d.state \in {"PLAY", "CLOSED", "ERROR"},
         NEW e \in Periods(d)
  PROVE  /\ Consistent(e) /\ e.open /\ e.running = d.running
         /\ Fitting(d) /\ d.state = "PLAY" => Fitting(e)
<1>1. CASE e = d
  BY <1>1 DEF Fitting
<1>2. CASE e = PeriodWait(d)
  BY <1>2 DEF PeriodWait, SetState, Consistent, Fitting, PlayerRecords, PlayerStates
<1>3. CASE e = NoMoreSong(d)
  BY <1>3 DEF NoMoreSong, SetState, Consistent, Fitting, PlayerRecords, PlayerStates
<1>4. CASE \E s \in Songs, ready \in BOOLEAN : e = NextSong(d, s, ready)
  <2>1. PICK s \in Songs, ready \in BOOLEAN : e = NextSong(d, s, ready)
    BY <1>4
  <2> DEFINE state == IF FormatOf[s] # FormatOf[d.current] THEN "REOPEN" ELSE IF ready THEN d.state ELSE "WAIT"
  <2>2. e = [d EXCEPT !.last = d.current, !.current = s, !.state = state, !.invalidated = TRUE]
    BY <2>1 DEF NextSong, SetState, Consistent, PlayerRecords
  <2>3. d \in PlayerRecords /\ s # Nil
    BY PlayerAssumption DEF Consistent
  <2>4. state \in {"REOPEN", "WAIT", d.state} /\ (state # "REOPEN" => FormatOf[s] = FormatOf[d.current])
    OBVIOUS
  <2> HIDE DEF state
  <2>5. e \in PlayerRecords
    BY <2>2, <2>3, <2>4 DEF PlayerRecords, PlayerStates
  <2>6. /\ e.state = state /\ e.open = d.open /\ e.running = d.running /\ e.saved = d.saved
        /\ e.format = d.format /\ e.current = s /\ e.last = d.current
    BY <2>2, <2>3 DEF PlayerRecords
  <2> QED BY <2>3, <2>4, <2>5, <2>6 DEF Consistent, Fitting
<1> QED BY <1>1, <1>2, <1>3, <1>4 DEF Periods

LEMMA OpenedConsistent ==
  ASSUME Consistent(device), ~device.open, NEW s \in Songs, NEW name \in Devices,
         NEW d \in Opened(s, name)
  PROVE  /\ Consistent(d) /\ d.open /\ ~d.running
         /\ s \notin ShortSongs => d.current = s /\ d.last = s /\ d.format = FormatOf[s]
<1> DEFINE o == WithSong(OpenDevice(device, s, name), s)
<1>1. o = [device EXCEPT !.open = TRUE, !.format = FormatOf[s], !.name = name, !.last = s, !.current = s]
  BY DEF WithSong, OpenDevice, Consistent, PlayerRecords
<1>2. /\ Consistent(o) /\ o.open /\ ~o.running /\ o.current = s /\ o.last = s /\ o.format = FormatOf[s]
      /\ o.state \in {"CLOSED", "ERROR"}
  BY ZenonT(30), <1>1, FormatType, PlayerAssumption DEF Consistent, PlayerRecords
<1>3. d = o \/ (s \in ShortSongs /\ d \in Periods(o))
  BY DEF Opened
<1> HIDE DEF o
<1>4. s # Nil
  BY PlayerAssumption
<1>5. CASE d = o
  BY <1>2, <1>5
<1>6. CASE s \in ShortSongs /\ d \in Periods(o)
  <2>1. Consistent(d) /\ d.open /\ d.running = o.running
    BY <1>2, <1>4, <1>6, PeriodConsistent
  <2> QED BY <1>2, <1>6, <2>1
<1> QED BY <1>3, <1>5, <1>6

(* play() on a device that is open, newly or not. *)
LEMMA PlayConsistent ==
  ASSUME NEW d, Consistent(d), d.open, NEW running \in BOOLEAN
  PROVE  LET e == SetState([d EXCEPT !.running = running], "PLAY")
         IN  /\ Consistent(e)
             /\ d.current # Nil /\ d.last # Nil /\ d.format = FormatOf[d.current]
                /\ d.format = FormatOf[d.last] => Fitting(e)
<1> DEFINE e == SetState([d EXCEPT !.running = running], "PLAY")
<1>1. d \in PlayerRecords
  BY DEF Consistent
<1>2. e \in PlayerRecords
  BY ZenonT(30), <1>1 DEF SetState, PlayerRecords, PlayerStates
<1>3. /\ e.state = "PLAY" /\ e.open = d.open /\ e.saved = d.saved
      /\ e.format = d.format /\ e.current = d.current /\ e.last = d.last
  BY <1>1 DEF SetState, PlayerRecords
<1> HIDE DEF e
<1>4. /\ Consistent(e)
      /\ d.current # Nil /\ d.last # Nil /\ d.format = FormatOf[d.current]
         /\ d.format = FormatOf[d.last] => Fitting(e)
  BY <1>2, <1>3 DEF Consistent, Fitting
<1> QED BY <1>4 DEF e

-----------------------------------------------------------------------------
(* The specification. *)

DeviceInv == TypeOK /\ Consistent(device)
FittingInv == DeviceInv /\ Fitting(device)

LEMMA LeaveInv ==
  ASSUME NEW t \in Threads, NEW d, Consistent(d), TypeOK, Leave(t, d), mirror' = mirror
  PROVE  DeviceInv' /\ (Fitting(d) => FittingInv')
<1>1. Consistent(device') /\ device' \in PlayerRecords /\ (Fitting(d) => Fitting(device'))
  BY DEF Leave, Consistent, Fitting, PlayerRecords
<1>2. Report(d) \in Reports
  BY DEF Report, Reports, Consistent, PlayerRecords
<1>3. events' \in [Threads -> Reports \cup {NoEvent}]
  BY <1>2 DEF Leave, TypeOK
<1> QED BY <1>1, <1>3 DEF DeviceInv, FittingInv, TypeOK

LEMMA LeaveToldInv ==
  ASSUME NEW d, Consistent(d), TypeOK, LeaveTold(d)
  PROVE  DeviceInv' /\ (Fitting(d) => FittingInv')
<1>1. Report(d) \in Reports
  BY DEF Report, Reports, Consistent, PlayerRecords
<1> QED BY <1>1 DEF LeaveTold, DeviceInv, FittingInv, TypeOK, Consistent, Fitting

LEMMA DeviceInit == Init => FittingInv
<1> SUFFICES ASSUME Init PROVE FittingInv
  OBVIOUS
<1>1. TypeOK
  BY ClosedPlayerConsistent DEF Init, TypeOK, Consistent, Reports, PlayerStates
<1> QED BY <1>1, ClosedPlayerConsistent DEF Init, FittingInv, DeviceInv

(* The types hold at once, the formats when no song ends within the period that
   play() itself writes. *)
LEMMA DeviceNext ==
  ASSUME DeviceInv, Next
  PROVE  DeviceInv' /\ (ShortSongs = {} /\ FittingInv => FittingInv')
<1> DEFINE Goal == DeviceInv' /\ (ShortSongs = {} /\ FittingInv => FittingInv')
<1>1. TypeOK /\ Consistent(device) /\ (FittingInv => Fitting(device))
  BY DEF DeviceInv, FittingInv
<1>2. {"task", "user", "alsa"} = Threads
  BY DEF Threads
<1>3. ASSUME NEW s \in Songs, NEW name \in Devices, PlayCloses(s, name) PROVE Goal
  BY <1>1, <1>3, CloseDeviceConsistent, LeaveToldInv DEF PlayCloses
<1>4. CASE PlayOpenFails
  <2>1. Consistent(CloseDevice(device)) /\ Fitting(CloseDevice(device)) /\ ~CloseDevice(device).running
    BY <1>1, CloseDeviceConsistent DEF Consistent
  <2> QED BY <1>1, <1>4, <2>1, ErrorConsistent, LeaveToldInv DEF PlayOpenFails
<1>5. ASSUME NEW s \in Songs, NEW name \in Devices, PlayStartFails(s, name) PROVE Goal
  <2>1. PICK d \in Opened(s, name) : LeaveTold(SetState(d, "ERROR"))
    BY <1>5 DEF PlayStartFails
  <2>2. /\ Consistent(d) /\ ~d.running
        /\ s \notin ShortSongs => d.current = s /\ d.last = s /\ d.format = FormatOf[s]
    BY <1>1, <1>5, OpenedConsistent DEF PlayStartFails
  <2>3. s \notin ShortSongs => Fitting(d)
    BY <2>2 DEF Fitting
  <2> QED BY <1>1, <2>1, <2>2, <2>3, ErrorConsistent, LeaveToldInv
<1>6. ASSUME NEW s \in Songs, NEW name \in Devices, PlayOpens(s, name) PROVE Goal
  <2>1. PICK d \in Opened(s, name) :
          Leave("task", SetState([d EXCEPT !.running = TRUE], "PLAY"))
    BY <1>6 DEF PlayOpens
  <2> DEFINE e == SetState([d EXCEPT !.running = TRUE], "PLAY")
  <2>2. /\ Consistent(d) /\ d.open
        /\ s \notin ShortSongs => d.current = s /\ d.last = s /\ d.format = FormatOf[s]
    BY <1>1, <1>6, OpenedConsistent DEF PlayOpens
  <2>3. Consistent(e) /\ (s \notin ShortSongs => Fitting(e))
    BY <2>2, PlayConsistent, PlayerAssumption
  <2> HIDE DEF e
  <2> QED BY <1>1, <1>2, <1>6, <2>1, <2>3, LeaveInv DEF e, PlayOpens
<1>7. ASSUME NEW s \in Songs, NEW name \in Devices, PlayOn(s, name) PROVE Goal
  <2> DEFINE d == WithSong(device, s)
             e == SetState([d EXCEPT !.running = device.running], "PLAY")
  <2>1. d = [device EXCEPT !.last = s, !.current = s]
    BY DEF WithSong
  <2>2. device.open /\ device.last # Nil /\ FormatOf[s] = FormatOf[device.last]
    BY <1>7 DEF PlayOn, OtherStream
  <2>3. device \in PlayerRecords /\ s # Nil
    BY <1>1, PlayerAssumption DEF Consistent
  <2>4. /\ Consistent(d) /\ d.open /\ d.current = s /\ d.last = s /\ d.format = device.format
        /\ d.running = device.running
    BY <1>1, <2>1, <2>2, <2>3 DEF Consistent, PlayerRecords
  <2>5. Fitting(device) => d.format = FormatOf[s]
    BY <2>2, <2>4 DEF Fitting
  <2>6. SetState(d, "PLAY") = e
    BY <2>1, <2>3 DEF SetState, PlayerRecords
  <2>7. device.running \in BOOLEAN
    BY <2>3 DEF PlayerRecords
  <2> HIDE DEF d
  <2>8. Consistent(e) /\ (Fitting(device) => Fitting(e))
    BY <2>3, <2>4, <2>5, <2>7, PlayConsistent
  <2> HIDE DEF e
  <2>9. Leave("task", e) /\ mirror' = mirror
    BY <1>7, <2>6 DEF PlayOn, d
  <2> QED BY <1>1, <1>2, <2>8, <2>9, LeaveInv
<1>8. ASSUME NEW t \in Threads, StopResets(t) PROVE Goal
  BY <1>1, <1>8, StopConsistent, LeaveToldInv DEF StopResets
<1>9. ASSUME NEW t \in Threads, StopIgnored(t) PROVE Goal
  BY <1>1, <1>9, LeaveInv DEF StopIgnored
<1>10. CASE Toggle
  BY <1>1, <1>2, <1>10, ToggleConsistent, LeaveInv DEF Toggle
<1>11. CASE Close
  BY <1>1, <1>11, CloseDeviceConsistent, LeaveToldInv DEF Close
<1>12. ASSUME PeriodAllowed, NEW d \in Written(device)
       PROVE  Consistent(d) /\ d.open /\ (Fitting(device) => Fitting(d))
  <2>1. CASE device.state \in Silent
    BY <1>1, <1>12, <2>1 DEF Written, PeriodAllowed
  <2>2. CASE device.state \notin Silent
    <3>1. device.current # Nil /\ d \in Periods(device)
      BY <1>12, <2>2 DEF Written
    <3>2. device.state = "PLAY" /\ device.open
      BY <1>1, <1>12, <2>2 DEF PeriodAllowed, Silent, Consistent, PlayerRecords, PlayerStates
    <3> QED BY <1>1, <3>1, <3>2, PeriodConsistent
  <2> QED BY <2>1, <2>2
<1>13. CASE Period
  <2>1. PICK d \in Written(device) : Leave("alsa", d)
    BY <1>13 DEF Period
  <2> QED BY <1>1, <1>2, <1>12, <1>13, <2>1, LeaveInv DEF Period
<1>14. CASE PeriodFails
  <2>1. PICK d \in {device} \cup Written(device), dropped \in BOOLEAN :
          Leave("alsa", DropDevice(d, dropped))
    BY <1>14 DEF PeriodFails
  <2>2. Consistent(d) /\ d.open /\ (Fitting(device) => Fitting(d))
    BY <1>1, <1>12, <1>14, <2>1 DEF PeriodFails, PeriodAllowed
  <2>3. Consistent(DropDevice(d, dropped)) /\ (Fitting(device) => Fitting(DropDevice(d, dropped)))
    BY <2>2, DropConsistent
  <2> QED BY <1>1, <1>2, <1>14, <2>1, <2>3, LeaveInv DEF PeriodFails
<1>15. ASSUME NEW t \in Threads, Deliver(t) PROVE Goal
  <2>1. events[t] \in Reports /\ NoEvent \in Reports \cup {NoEvent}
    BY <1>1, <1>15 DEF Deliver, Ready, TypeOK
  <2> QED BY <1>1, <1>15, <2>1 DEF Deliver, DeviceInv, FittingInv, TypeOK
<1> QED BY <1>3, <1>4, <1>5, <1>6, <1>7, <1>8, <1>9, <1>10, <1>11, <1>13, <1>14, <1>15
        DEF Next, Task, Play, Threads

LEMMA DeviceInvAlways == Spec => []DeviceInv
<1>1. Init => DeviceInv
  BY DeviceInit DEF FittingInv
<1>2. DeviceInv /\ [Next]_vars => DeviceInv'
  <2> SUFFICES ASSUME DeviceInv, [Next]_vars PROVE DeviceInv'
    OBVIOUS
  <2>1. CASE UNCHANGED vars
    BY <2>1 DEF vars, DeviceInv, TypeOK, Consistent
  <2> QED BY <2>1, DeviceNext
<1> QED BY <1>1, <1>2, PTL DEF Spec

(* The types of the player, the snapshots and the mirror. *)
THEOREM DeviceTypeCorrect == Spec => []TypeOK
<1>1. DeviceInv => TypeOK
  BY DEF DeviceInv
<1> QED BY <1>1, DeviceInvAlways, PTL

(* Every path that closes the device gives up the song. *)
THEOREM DeviceSongNeedsDevice == Spec => []SongNeedsDevice
<1>1. DeviceInv => SongNeedsDevice
  BY DEF DeviceInv, Consistent, SongNeedsDevice
<1> QED BY <1>1, DeviceInvAlways, PTL

(* A closed device is CLOSED or in the state ERROR. *)
THEOREM DeviceStateNeedsDevice == Spec => []StateNeedsDevice
<1>1. DeviceInv => StateNeedsDevice
  BY DEF DeviceInv, Consistent, StateNeedsDevice
<1> QED BY <1>1, DeviceInvAlways, PTL

(* A player that waits, or was paused while it waited, has a song to go on with. *)
THEOREM DeviceWaitingHasSong == Spec => []WaitingHasSong
<1>1. DeviceInv => WaitingHasSong
  BY DEF DeviceInv, Consistent, WaitingHasSong
<1> QED BY <1>1, DeviceInvAlways, PTL

(* As long as no song ends within the first period of play(), samples are only
   written to a device opened for their format. *)
THEOREM DeviceFormatMatches == ASSUME ShortSongs = {} PROVE Spec => []FormatMatches
<1>1. FittingInv /\ [Next]_vars => FittingInv'
  <2> SUFFICES ASSUME FittingInv, [Next]_vars PROVE FittingInv'
    OBVIOUS
  <2>1. CASE UNCHANGED vars
    BY <2>1 DEF vars, FittingInv, DeviceInv, TypeOK, Consistent, Fitting
  <2> QED BY <2>1, DeviceNext DEF FittingInv
<1>2. FittingInv => FormatMatches
  BY DEF FittingInv, Fitting, FormatMatches
<1> QED BY <1>1, <1>2, DeviceInit, PTL DEF Spec

-----------------------------------------------------------------------------
(* What a step may not do. *)

(* Who leaves the critical section with a new report has marked the change, and
   takes the report along to deliver it. *)
LEMMA LeaveTells ==
  ASSUME NEW t \in Threads, NEW d \in PlayerRecords, TypeOK, Leave(t, d),
         d.invalidated \/ Report(d) = Report(device)
  PROVE  Report(device') # Report(device) => Told
<1>1. Report(device') = Report(d)
  BY DEF Leave, Report, PlayerRecords
<1>2. CASE d.invalidated
  <2>1. events'[t] = Report(d)
    BY <1>2 DEF Leave, TypeOK
  <2> QED BY <1>1, <2>1 DEF Told
<1> QED BY <1>1, <1>2

(* Every operator that changes the state marks the change. *)
LEMMA SetStateMarks ==
  ASSUME NEW d \in PlayerRecords, NEW state \in PlayerStates
  PROVE  SetState(d, state) \in PlayerRecords /\ SetState(d, state).invalidated
BY DEF SetState, PlayerRecords

LEMMA PeriodMarks ==
  ASSUME NEW d, Consistent(d), d.open, d.current # Nil, d.state = "PLAY", NEW e \in Periods(d)
  PROVE  e \in PlayerRecords /\ (e.invalidated \/ e = d)
<1>1. Consistent(e) /\ d \in PlayerRecords
  BY PeriodConsistent DEF Consistent
<1>2. CASE e = PeriodWait(d) \/ e = NoMoreSong(d)
  <2>1. d \in PlayerRecords /\ [d EXCEPT !.current = Nil] \in PlayerRecords
    BY <1>1 DEF PlayerRecords
  <2>2. "WAIT" \in PlayerStates /\ "STOP" \in PlayerStates
    BY DEF PlayerStates
  <2> QED BY <1>2, <2>1, <2>2, SetStateMarks DEF PeriodWait, NoMoreSong
<1>3. CASE \E s \in Songs, ready \in BOOLEAN : e = NextSong(d, s, ready)
  <2>1. PICK s \in Songs, ready \in BOOLEAN : e = NextSong(d, s, ready)
    BY <1>3
  <2> DEFINE n == [d EXCEPT !.last = d.current, !.current = s]
             state == IF FormatOf[s] # FormatOf[d.current] THEN "REOPEN"
                      ELSE IF ready THEN d.state ELSE "WAIT"
  <2>2. n \in PlayerRecords /\ state \in PlayerStates
    BY <1>1 DEF PlayerRecords, PlayerStates
  <2>3. e = SetState(n, state)
    BY <2>1 DEF NextSong
  <2> HIDE DEF n, state
  <2> QED BY <2>2, <2>3, SetStateMarks
<1> QED BY <1>1, <1>2, <1>3 DEF Periods, Consistent

(* A period that writes silence leaves the player as it is. *)
LEMMA WrittenMarks ==
  ASSUME DeviceInv, PeriodAllowed, NEW d \in Written(device)
  PROVE  /\ d \in PlayerRecords /\ d.open
         /\ d.invalidated \/ d = device
         /\ device.state \in Silent => d = device
<1>1. Consistent(device) /\ device \in PlayerRecords /\ device.open
  BY DEF DeviceInv, Consistent, PeriodAllowed
<1>2. CASE device.state \in Silent
  BY <1>1, <1>2 DEF Written
<1>3. CASE device.state \notin Silent
  <2>1. device.current # Nil /\ d \in Periods(device)
    BY <1>3 DEF Written
  <2>2. device.state = "PLAY"
    BY <1>1, <1>3 DEF PeriodAllowed, Silent, Consistent, PlayerRecords, PlayerStates
  <2> QED BY <1>1, <1>3, <2>1, <2>2, PeriodMarks, PeriodConsistent
<1> QED BY <1>2, <1>3

(* getAndResetPlayerStateWithNolock() and processStateChangeEvents(): whatever
   changes the state or the song, some thread carries the news, or TPlayer has
   them, unless a device was dropped after a failed write. *)
THEOREM DeviceChangesAreTold == Spec => ChangesAreTold
<1>1. ASSUME DeviceInv, [Next]_vars
      PROVE  [Report(device') # Report(device) => Told \/ Dropped]_vars
  <2> DEFINE Goal == Report(device') # Report(device) => Told \/ Dropped
  <2>1. TypeOK /\ Consistent(device) /\ device \in PlayerRecords
    BY <1>1 DEF DeviceInv, Consistent
  <2>2. {"task", "user", "alsa"} = Threads
    BY DEF Threads
  <2>3. ASSUME NEW d, LeaveTold(d) PROVE Goal
    BY <2>3 DEF LeaveTold, Told
  <2>4. ASSUME NEW s \in Songs, NEW name \in Devices, Play(s, name) PROVE Goal
    <3>1. CASE PlayCloses(s, name) \/ PlayOpenFails \/ PlayStartFails(s, name)
      BY <2>3, <3>1 DEF PlayCloses, PlayOpenFails, PlayStartFails
    <3>2. CASE PlayOpens(s, name)
      <4>1. PICK d \in Opened(s, name) :
              Leave("task", SetState([d EXCEPT !.running = TRUE], "PLAY"))
        BY <3>2 DEF PlayOpens
      <4>2. d \in PlayerRecords
        BY <2>1, <3>2, OpenedConsistent DEF PlayOpens, Consistent
      <4>3. [d EXCEPT !.running = TRUE] \in PlayerRecords /\ "PLAY" \in PlayerStates
        BY <4>2 DEF PlayerRecords, PlayerStates
      <4> QED BY <2>1, <2>2, <4>1, <4>3, SetStateMarks, LeaveTells
    <3>3. CASE PlayOn(s, name)
      <4>1. WithSong(device, s) \in PlayerRecords /\ "PLAY" \in PlayerStates
        BY <2>1 DEF WithSong, PlayerRecords, PlayerStates
      <4> QED BY <2>1, <2>2, <3>3, <4>1, SetStateMarks, LeaveTells DEF PlayOn
    <3> QED BY <2>4, <3>1, <3>2, <3>3 DEF Play
  <2>5. ASSUME NEW t \in Threads, StopResets(t) \/ StopIgnored(t) PROVE Goal
    BY <2>1, <2>3, <2>5, LeaveTells DEF StopResets, StopIgnored
  <2>6. CASE Toggle
    <3>1. ToggleDevice(device) \in PlayerRecords
      BY <2>1, ToggleConsistent DEF Consistent
    <3>2. ToggleDevice(device).invalidated \/ ToggleDevice(device) = device
      BY <2>1 DEF ToggleDevice, SetState, PlayerRecords
    <3> QED BY <2>1, <2>2, <2>6, <3>1, <3>2, LeaveTells DEF Toggle
  <2>7. CASE Close
    BY <2>3, <2>7 DEF Close
  <2>8. CASE Period
    <3>1. PICK d \in Written(device) : Leave("alsa", d)
      BY <2>8 DEF Period
    <3>2. d \in PlayerRecords /\ (d.invalidated \/ d = device)
      BY <1>1, <2>8, WrittenMarks DEF Period
    <3> QED BY <2>1, <2>2, <3>1, <3>2, LeaveTells
  <2>9. CASE PeriodFails
    <3>1. PICK d \in {device} \cup Written(device), dropped \in BOOLEAN :
            Leave("alsa", DropDevice(d, dropped))
      BY <2>9 DEF PeriodFails
    <3>2. d \in PlayerRecords /\ d.open
      BY <1>1, <2>1, <2>9, <3>1, WrittenMarks DEF PeriodFails, PeriodAllowed
    <3>3. Dropped
      BY <3>1, <3>2 DEF Leave, DropDevice, Dropped, PlayerRecords
    <3> QED BY <3>3
  <2>10. ASSUME NEW t \in Threads, Deliver(t) PROVE Goal
    BY <2>10 DEF Deliver
  <2>11. CASE UNCHANGED vars
    BY <2>11 DEF vars
  <2> QED BY <1>1, <2>2, <2>4, <2>5, <2>6, <2>7, <2>8, <2>9, <2>10, <2>11 DEF Next, Task
<1> QED BY <1>1, DeviceInvAlways, PTL DEF Spec, ChangesAreTold

(* writePeriodData() and play(): only play(), which sets the last song as well,
   gives a player that is stopped, paused or waiting another song. *)
THEOREM DeviceSongsChangeWhilePlaying == Spec => SongsChangeWhilePlaying
<1> DEFINE Goal == device.state \in Silent /\ device'.current \notin {device.current, Nil}
                     => device'.last = device'.current
<1>1. ASSUME DeviceInv, [Next]_vars PROVE [Goal]_vars
  <2>1. Consistent(device) /\ device \in PlayerRecords
    BY <1>1 DEF DeviceInv, Consistent
  <2>2. ASSUME NEW t, NEW d \in PlayerRecords, Leave(t, d)
        PROVE  device'.current = d.current /\ device'.last = d.last
    BY <2>2 DEF Leave, PlayerRecords
  <2>3. CloseDevice(device).current = Nil
    BY <2>1, CloseDeviceConsistent
  <2>4. ASSUME NEW s \in Songs, NEW name \in Devices, Play(s, name) PROVE Goal
    <3>1. CASE PlayCloses(s, name)
      BY <2>3, <3>1 DEF PlayCloses, LeaveTold
    <3>2. CASE PlayOpenFails \/ PlayStartFails(s, name) \/ PlayOpens(s, name)
      BY <2>1, <3>2 DEF PlayOpenFails, PlayStartFails, PlayOpens, Consistent, Silent
    <3>3. CASE PlayOn(s, name)
      <4> DEFINE d == SetState(WithSong(device, s), "PLAY")
      <4>1. d \in PlayerRecords /\ d.current = s /\ d.last = s
        BY <2>1 DEF SetState, WithSong, PlayerRecords, PlayerStates
      <4> HIDE DEF d
      <4> QED BY <2>2, <3>3, <4>1 DEF PlayOn, d
    <3> QED BY <2>4, <3>1, <3>2, <3>3 DEF Play
  <2>5. ASSUME NEW t \in Threads, StopResets(t) PROVE Goal
    <3>1. StopOrClose(device).current \in {device.current, Nil}
      BY <2>1, <2>3 DEF StopOrClose, StopDevice, Reset, PlayerRecords
    <3> QED BY <2>5, <3>1 DEF StopResets, LeaveTold
  <2>6. ASSUME NEW t \in Threads, StopIgnored(t) PROVE Goal
    BY <2>1, <2>2, <2>6 DEF StopIgnored
  <2>7. CASE Toggle
    <3>1. ToggleDevice(device) \in PlayerRecords
      BY <2>1, ToggleConsistent DEF Consistent
    <3>2. ToggleDevice(device).current = device.current
      BY <2>1 DEF ToggleDevice, SetState, PlayerRecords
    <3> QED BY <2>2, <2>7, <3>1, <3>2 DEF Toggle
  <2>8. CASE Close
    BY <2>3, <2>8 DEF Close, LeaveTold
  <2>9. CASE Period
    BY <1>1, <2>1, <2>2, <2>9, WrittenMarks DEF Period
  <2>10. CASE PeriodFails
    <3>1. PICK d \in {device} \cup Written(device), dropped \in BOOLEAN :
            Leave("alsa", DropDevice(d, dropped))
      BY <2>10 DEF PeriodFails
    <3>2. d \in PlayerRecords /\ d.open /\ (device.state \in Silent => d = device)
      BY <1>1, <2>1, <2>10, <3>1, WrittenMarks DEF PeriodFails, PeriodAllowed
    <3>3. device'.current = d.current
      BY <3>1, <3>2 DEF Leave, DropDevice, PlayerRecords
    <3> QED BY <3>2, <3>3
  <2>11. ASSUME NEW t \in Threads, Deliver(t) PROVE Goal
    BY <2>11 DEF Deliver
  <2>12. CASE UNCHANGED vars
    BY <2>12 DEF vars
  <2> QED BY <1>1, <2>4, <2>5, <2>6, <2>7, <2>8, <2>9, <2>10, <2>11, <2>12
          DEF Next, Task, Threads
<1> QED BY <1>1, DeviceInvAlways, PTL DEF Spec, SongsChangeWhilePlaying

=============================================================================
