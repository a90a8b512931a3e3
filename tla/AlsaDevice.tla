------------------------------ MODULE AlsaDevice ------------------------------
(***************************************************************************)
(* TAlsaPlayer and the threads that use it: the player task (play, stop,   *)
(* toggle, close), a user's thread of the web server (stop) and the ALSA   *)
(* thread (one period after the other).  An action is one critical section *)
(* of alsaMtx.                                                             *)
(*                                                                         *)
(* A method takes a snapshot of the state before it leaves the critical    *)
(* section and tells TPlayer afterwards, when it gets eventMtx, in         *)
(* processStateChangeEvents(): the snapshots of several threads may be     *)
(* delivered in another order than they were taken.  reset() and           *)
(* setErrorState() tell TPlayer without leaving the critical section.      *)
(* TPlayer remembers what it was told last; that is the mirror its task    *)
(* decides with.                                                           *)
(*                                                                         *)
(* What a period finds in the buffers is left open here; PlayerTask, which *)
(* implements this module, decides it by the songs in the pool.            *)
(***************************************************************************)
EXTENDS AlsaPlayer

CONSTANTS
  DeviceFails,  \* opening, starting or writing may fail
  ShortSongs    \* songs that may end within the first period of play()

ASSUME DeviceAssumption == DeviceFails \in BOOLEAN /\ ShortSongs \subseteq Songs

VARIABLES
  device,  \* TAlsaPlayer
  events,  \* the snapshot a thread still has to deliver
  mirror   \* TPlayer::currentState and currentSong

vars == <<device, events, mirror>>

Threads == {"task", "user", "alsa"}
NoEvent == [state |-> "NONE", song |-> Nil]

Init ==
  /\ device = ClosedPlayer
  /\ events = [t \in Threads |-> NoEvent]
  /\ mirror = [state |-> "CLOSED", song |-> Nil]

Ready(t) == events[t] = NoEvent

(* Leave the critical section with d: getAndResetPlayerStateWithNolock(). *)
Leave(t, d) ==
  /\ device' = [d EXCEPT !.invalidated = FALSE]
  /\ events' = IF d.invalidated THEN [events EXCEPT ![t] = Report(d)] ELSE events

(* Leave it with d, whose callback was told within the critical section. *)
LeaveTold(d) ==
  /\ device' = d
  /\ mirror' = Report(d)
  /\ UNCHANGED events

(* processStateChangeEvents(), onPlayerStateChanged(), setCurrentState(). *)
Deliver(t) ==
  /\ ~Ready(t)
  /\ mirror' = events[t]
  /\ events' = [events EXCEPT ![t] = NoEvent]
  /\ UNCHANGED device

-----------------------------------------------------------------------------
(* play(): the device has to be opened again first. *)
PlayCloses(s, name) ==
  /\ Ready("task")
  /\ \/ OtherDevice(device, name)
     \/ device.open /\ (OtherStream(device, s) \/ s \in Rescanned)
  /\ LeaveTold(CloseDevice(device))

PlayOpenFails ==
  /\ Ready("task")
  /\ DeviceFails
  /\ ~device.open
  /\ LeaveTold(SetState(CloseDevice(device), "ERROR"))

(* The device is opened and the first period written before it is started.
   Whatever state that period left is replaced by EPS_PLAY. *)
Opened(s, name) ==
  LET d == WithSong(OpenDevice(device, s, name), s)
  IN  IF s \in ShortSongs THEN Periods(d) ELSE {d}

PlayStartFails(s, name) ==
  /\ Ready("task")
  /\ DeviceFails
  /\ ~device.open
  /\ \E d \in Opened(s, name) : LeaveTold(SetState(d, "ERROR"))

PlayOpens(s, name) ==
  /\ Ready("task")
  /\ ~device.open
  /\ \E d \in Opened(s, name) : Leave("task", SetState([d EXCEPT !.running = TRUE], "PLAY"))
  /\ UNCHANGED mirror

(* play() on an open device that fits. *)
PlayOn(s, name) ==
  /\ Ready("task")
  /\ device.open
  /\ ~OtherDevice(device, name)
  /\ ~OtherStream(device, s)
  /\ Leave("task", SetState(WithSong(device, s), "PLAY"))
  /\ UNCHANGED mirror

Play(s, name) ==
  PlayCloses(s, name) \/ PlayOpenFails \/ PlayStartFails(s, name) \/ PlayOpens(s, name) \/ PlayOn(s, name)

(* stop(): reset() tells the callback; when there is nothing to stop, a change
   that was not reported yet is. *)
StopResets(t) ==
  /\ Ready(t)
  /\ device.state \in Stoppable \cup {"STOP"}
  /\ LeaveTold(StopOrClose(device))

StopIgnored(t) ==
  /\ Ready(t)
  /\ device.state \notin Stoppable \cup {"STOP"}
  /\ Leave(t, device)
  /\ UNCHANGED mirror

Toggle ==
  /\ Ready("task")
  /\ Leave("task", ToggleDevice(device))
  /\ UNCHANGED mirror

(* close(), by inactivity or at the end of the program. *)
Close ==
  /\ Ready("task")
  /\ device.open
  /\ LeaveTold(CloseDevice(device))

-----------------------------------------------------------------------------
(* alsaThreadMethod(), called for every period of a running device. *)

(* Fault: a stopped device is written to. *)
WrittenAlways(d) == IF d.current = Nil THEN {} ELSE Periods(d)
(* The state after samples or silence were written; there is none when there
   is no song to write samples of. *)
Written(d) ==
  IF d.state \in Silent THEN {d} ELSE IF d.current = Nil THEN {} ELSE Periods(d)

PeriodAllowed ==
  /\ Ready("alsa")
  /\ device.open
  /\ device.running
  /\ device.state # "ERROR"

Period ==
  /\ PeriodAllowed
  /\ \E d \in Written(device) : Leave("alsa", d)
  /\ UNCHANGED mirror

(* Underrun recovery or writing failed, before or after the state changed. *)
PeriodFails ==
  /\ PeriodAllowed
  /\ DeviceFails \/ Written(device) = {}
  /\ \E d \in {device} \cup Written(device), dropped \in BOOLEAN :
       Leave("alsa", DropDevice(d, dropped))
  /\ UNCHANGED mirror

-----------------------------------------------------------------------------

Task == Toggle \/ Close \/ \E s \in Songs, name \in Devices : Play(s, name)

Next ==
  \/ Task
  \/ \E t \in {"task", "user"} : StopResets(t) \/ StopIgnored(t)
  \/ Period \/ PeriodFails
  \/ \E t \in Threads : Deliver(t)

Spec == Init /\ [][Next]_vars

-----------------------------------------------------------------------------
(* Properties. *)

(* Every variable has its type. *)
TypeOK ==
  /\ device \in PlayerRecords
  /\ events \in [Threads -> Reports \cup {NoEvent}]
  /\ mirror \in Reports

(* A song is being played only by an open device: whoever closes it, on
   whatever path, gives the song up. *)
SongNeedsDevice == device.current # Nil => device.open

(* A closed device is in no state that promises to go on, so stop() and the
   inactivity check of the task see that there is nothing to do. *)
StateNeedsDevice == ~device.open => device.state \in {"CLOSED", "ERROR"}

(* A player that waits for buffers or for the device to be reopened, or was
   paused while it waited, still knows the song: without it the callback would
   not queue the command that makes playback go on. *)
WaitingHasSong ==
  \/ device.state \in {"WAIT", "REOPEN"}
  \/ device.state = "PAUSE" /\ device.saved = "WAIT"
  => device.current # Nil

(* Samples are only written to a device that was opened with the parameters of
   the song they belong to, through gapless changes, stops and restarts. *)
FormatMatches ==
  device.state \in {"PLAY", "WAIT", "PAUSE"} /\ device.current # Nil =>
    device.format = FormatOf[device.current]

(* Each change of the state or the song is told to TPlayer, or going to be,
   unless the device was dropped. *)
Told == device'.invalidated \/ mirror' = Report(device') \/ \E t \in Threads : events'[t] = Report(device')
Dropped == device'.open /\ device'.state \in {"CLOSED", "ERROR"}
ChangesAreTold == [][Report(device') # Report(device) => Told \/ Dropped]_vars

(* The ALSA thread goes from song to song only while it plays: a stopped or
   paused player, or one that waits, stays with its song until play() is called. *)
SongsChangeWhilePlaying ==
  [][device.state \in Silent /\ device'.current \notin {device.current, Nil}
     => device'.last = device'.current]_vars

=============================================================================
