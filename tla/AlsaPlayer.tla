------------------------------ MODULE AlsaPlayer ------------------------------
(***************************************************************************)
(* The device side of TAlsaPlayer (src/inc/alsa.cpp): the PCM handle, the  *)
(* player state and the songs, as operators on one record.  What happens   *)
(* to the sample buffers is in AudioBufferList.                            *)
(*                                                                         *)
(* Internet streams are left out, and with them the state HALT.  So is     *)
(* forceReopen: TPlayer::onPlayerPlaylistRequest never asks for it.        *)
(***************************************************************************)
CONSTANTS
  Songs,
  FormatOf,    \* TSong::getStreamData, the hardware parameters of a song
  Rescanned,   \* songs a library scan may mark as changed
  Devices,     \* names of output devices
  Nil

ASSUME PlayerAssumption ==
  /\ Nil \notin Songs
  /\ Nil \notin Devices
  /\ Nil \notin {FormatOf[s] : s \in Songs}
  /\ Rescanned \subseteq Songs

Formats == {FormatOf[s] : s \in Songs}

(* EPlayerState. *)
PlayerStates == {"CLOSED", "IDLE", "PLAY", "WAIT", "REOPEN", "PAUSE", "STOP", "ERROR"}
(* getPaused(), getStopped(): silence is written instead of samples. *)
Silent == {"PAUSE", "WAIT", "REOPEN", "STOP"}

(* open: snd_handle is assigned; running: snd_pcm_start() was called on it and
   it was not dropped since; state and saved: m_state and p_state. *)
PlayerRecords ==
  [open : BOOLEAN, running : BOOLEAN, format : Formats \cup {Nil},
   name : Devices \cup {Nil}, state : PlayerStates, saved : PlayerStates \ {"PAUSE"},
   current : Songs \cup {Nil}, last : Songs \cup {Nil}, invalidated : BOOLEAN]

ClosedPlayer ==
  [open |-> FALSE, running |-> FALSE, format |-> Nil, name |-> Nil,
   state |-> "CLOSED", saved |-> "CLOSED", current |-> Nil, last |-> Nil,
   invalidated |-> FALSE]

(* What a callback is told: the state and the song at the time. *)
Reports == [state : PlayerStates, song : Songs \cup {Nil}]
Report(d) == [state |-> d.state, song |-> d.current]

(* Fault: the change is not marked for the callbacks. *)
SetStateSilently(d, state) == [d EXCEPT !.state = state]
(* setPlayerStateWithNolock(). *)
SetState(d, state) == [d EXCEPT !.state = state, !.invalidated = TRUE]

(* reset(state): the callback is told at once. *)
Reset(d, state) ==
  [d EXCEPT !.state = state, !.saved = state, !.current = Nil, !.invalidated = FALSE]

(* Faults: the current song is kept; the last song is kept. *)
CloseDeviceKeepsSong(d) == [ClosedPlayer EXCEPT !.current = d.current]
CloseDeviceHalfway(d) == [d EXCEPT !.open = FALSE, !.running = FALSE]
(* closeDevice(), with clear() and reset(EPS_CLOSED). *)
CloseDevice(d) ==
  Reset([d EXCEPT !.open = FALSE, !.running = FALSE, !.format = Nil, !.name = Nil, !.last = Nil], "CLOSED")

(* dropDevice(): the handle stays open and nobody is told. *)
DropDevice(d, dropped) ==
  [d EXCEPT !.running = FALSE, !.state = IF dropped THEN "CLOSED" ELSE "ERROR"]

OpenDevice(d, s, name) == [d EXCEPT !.open = TRUE, !.format = FormatOf[s], !.name = name]

(* play() needs another device, or other hardware parameters than those of the
   last song the device played. *)
OtherDevice(d, name) == d.name # Nil /\ d.name # name
(* Fault: the song is compared with the current one. *)
OtherStreamThanCurrent(d, s) == d.current # Nil /\ FormatOf[s] # FormatOf[d.current]
OtherStream(d, s) == d.last = Nil \/ FormatOf[s] # FormatOf[d.last]

WithSong(d, s) == [d EXCEPT !.last = s, !.current = s]

(* stopDevice(), and stop() that closes a stopped device. *)
Stoppable == {"PLAY", "PAUSE", "WAIT", "REOPEN", "ERROR"}
StopDevice(d) ==
  IF d.state \in Stoppable THEN Reset(d, IF d.open THEN "STOP" ELSE "CLOSED") ELSE d
StopOrClose(d) == IF d.state = "STOP" THEN CloseDevice(d) ELSE StopDevice(d)

(* Fault: the state is saved after it was changed. *)
ToggleDeviceSavesLate(d) ==
  IF d.state \in {"PLAY", "WAIT"} THEN SetState([d EXCEPT !.saved = "PAUSE"], "PAUSE")
  ELSE IF d.state = "PAUSE" THEN SetState([d EXCEPT !.saved = "IDLE"], d.saved) ELSE d
(* toggleDevice(). *)
ToggleDevice(d) ==
  IF d.state \in {"PLAY", "WAIT"} THEN SetState([d EXCEPT !.saved = d.state], "PAUSE")
  ELSE IF d.state = "PAUSE"
  THEN SetState([d EXCEPT !.saved = "IDLE"], IF d.saved # "IDLE" THEN d.saved ELSE "PLAY")
  ELSE d

(* Fault: the song is forgotten while the player waits. *)
PeriodWaitForgets(d) == SetState([d EXCEPT !.current = Nil], "WAIT")
(* writePeriodData(): the buffers are not ready; the current song is over and
   the playlist has another one, whose first buffer may be ready; it has none. *)
PeriodWait(d) == SetState(d, "WAIT")
NextSong(d, s, ready) ==
  LET n == [d EXCEPT !.last = d.current, !.current = s]
  IN  SetState(n, IF FormatOf[s] # FormatOf[d.current] THEN "REOPEN"
                  ELSE IF ready THEN d.state ELSE "WAIT")
NoMoreSong(d) == SetState([d EXCEPT !.current = Nil], "STOP")

(* The successful outcomes of a period. *)
Periods(d) ==
  {d, PeriodWait(d), NoMoreSong(d)} \cup {NextSong(d, s, ready) : s \in Songs, ready \in BOOLEAN}

=============================================================================
