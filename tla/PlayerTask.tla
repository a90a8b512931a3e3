------------------------------ MODULE PlayerTask ------------------------------
(***************************************************************************)
(* TPlayer's task loop (src/app/player.cpp) around the ALSA player of      *)
(* AlsaDevice: user commands and the ALSA thread's own restart commands go *)
(* through one queue; a cycle of the task copies the event mirror, takes a *)
(* command, prepares and executes it, terminates it and lets the decoder   *)
(* work for the song that was requested or is being played.                *)
(*                                                                         *)
(* The pool is reduced to the set of songs in it: AudioBufferPool has the  *)
(* buffers.  There is one playlist and one output device.  Internet        *)
(* streams, random and disk mode and the delays (decoder timeout, reopen   *)
(* delay, inactivity) are left out.                                        *)
(***************************************************************************)
EXTENDS AlsaDevice, SequencesExt, FiniteSets

CONSTANTS
  Playlist,     \* the songs, in order
  Capacity,     \* songs that fit into the pool
  Ahead,        \* useBufferCount, songs to decode in advance
  Repeat,       \* "none", "list" or "single"
  MaxRequests,  \* bound on the number of user commands
  PromptEvents  \* no thread enters alsaMtx while a callback is outstanding

ASSUME TaskAssumption ==
  /\ Playlist \in Seq(Songs)
  /\ {Playlist[i] : i \in DOMAIN Playlist} = Songs
  /\ \A i, j \in DOMAIN Playlist : Playlist[i] = Playlist[j] => i = j
  /\ Capacity \in Nat \ {0} /\ Ahead \in Nat \ {0} /\ MaxRequests \in Nat
  /\ Repeat \in {"none", "list", "single"}
  /\ PromptEvents \in BOOLEAN

VARIABLES
  queue,       \* TCommandQueue; the command in work is its head
  task,        \* TGlobalState: phase of the cycle, hardware and software values;
               \* taken: a command is in work; active: the timeout is not over
  buffered,    \* songs in the pool that may be played
  enqueued,    \* TPlayer::nextSong
  restarting,  \* the thread between queueCommand() and setCurrentState()
  requests,    \* number of user commands so far
  halted       \* the last user command that was executed was a stop

taskVars == <<queue, task, buffered, enqueued, restarting, requests, halted>>
allVars == <<vars, taskVars>>

Phases == {"values", "command", "execute", "terminate", "buffer", "close"}
Commands == [action : {"PLAY_SONG", "PLAY", "NEXT", "PAUSE", "STOP", "NEXT_SONG"},
             song : Songs \cup {Nil}, origin : {"user", "alsa"}]
Requests == [state : {"CLOSED", "PLAY", "PAUSE", "STOP"}, song : Songs \cup {Nil},
             command : {"DEFAULT", "PLAY", "NEXT", "PAUSE", "STOP"}, origin : {"user", "alsa"}]
Tasks == [phase : Phases, taken : BOOLEAN, active : BOOLEAN, software : Requests, hardware : Reports]
NoRequest == [state |-> "CLOSED", song |-> Nil, command |-> "DEFAULT", origin |-> "user"]

TaskInit ==
  /\ Init
  /\ queue = <<>>
  /\ task = [phase |-> "values", taken |-> FALSE, active |-> TRUE, software |-> NoRequest, hardware |-> mirror]
  /\ buffered = {}
  /\ enqueued = Nil
  /\ restarting = Nil
  /\ requests = 0
  /\ halted = FALSE

IndexOf(s) == CHOOSE i \in DOMAIN Playlist : Playlist[i] = s
Successor(s) == IF IndexOf(s) < Len(Playlist) THEN Playlist[IndexOf(s) + 1] ELSE Nil

-----------------------------------------------------------------------------
(* Commands. *)

EventMtxFree == restarting = Nil
AlsaMtxFree == PromptEvents => \A t \in Threads : Ready(t)

(* TCommandQueue::add(): no second command with the action of the last one. *)
Added(q, c) == IF q # <<>> /\ Last(q).action = c.action THEN q ELSE Append(q, c)

(* A command of the web server, a socket or the remote control.  The song of
   PLAY is the one that is selected in the web interface. *)
UserRequest(c) ==
  /\ requests < MaxRequests
  /\ c.song = Nil <=> c.action \in {"NEXT", "PAUSE", "STOP"}
  /\ queue' = Added(queue, c)
  /\ requests' = requests + 1
  /\ UNCHANGED <<vars, task, buffered, enqueued, restarting, halted>>

(* A user's thread deletes the playlist that is being played. *)
PlaylistDeleted ==
  /\ requests < MaxRequests
  /\ AlsaMtxFree
  /\ \/ EventMtxFree /\ StopResets("user")
     \/ StopIgnored("user")
  /\ requests' = requests + 1
  /\ UNCHANGED <<queue, task, buffered, enqueued, restarting, halted>>

UserCommands == {c \in Commands : c.origin = "user"}

At(phase) == task.phase = phase /\ Ready("task")

(* getCurrentPlayerValues(). *)
TaskValues ==
  /\ At("values")
  /\ task' = [task EXCEPT !.phase = "command", !.hardware = mirror]
  /\ UNCHANGED <<vars, queue, buffered, enqueued, restarting, requests, halted>>

(* Fault: a song that is enqueued is played. *)
PreparedToPlayEnqueued(c) ==
  LET hardware == task.hardware.song
      command == task.software.command
      Request(state, song, cmd) ==
        [state |-> state, song |-> song, command |-> IF song = Nil THEN command ELSE cmd,
         origin |-> c.origin]
  IN  CASE c.action = "PLAY_SONG" -> Request("PLAY", c.song, "PLAY")
        [] c.action = "PLAY" -> 
             Request("PLAY", IF hardware # Nil THEN hardware
                             ELSE IF mirror.song # Nil THEN mirror.song ELSE c.song, "PLAY")
        [] c.action = "NEXT" ->
             Request("PLAY", IF hardware = Nil \/ Successor(hardware) = Nil THEN hardware
                             ELSE Successor(hardware), "NEXT")
        [] c.action = "PAUSE" -> Request("PAUSE", Nil, "PAUSE")
        [] c.action = "STOP" -> Request("STOP", Nil, "STOP")
        [] c.action = "NEXT_SONG" -> Request("PLAY", c.song, command)

(* preparePlayerCommand(). *)
Prepared(c) ==
  LET hardware == task.hardware.song
      command == task.software.command
      Request(state, song, cmd) ==
        [state |-> state, song |-> song, command |-> IF song = Nil THEN command ELSE cmd,
         origin |-> c.origin]
  IN  CASE c.action = "PLAY_SONG" -> Request("PLAY", c.song, "PLAY")
        [] c.action = "PLAY" -> 
             Request("PLAY", IF hardware # Nil THEN hardware
                             ELSE IF mirror.song # Nil THEN mirror.song ELSE c.song, "PLAY")
        [] c.action = "NEXT" ->
             Request("PLAY", IF hardware = Nil \/ Successor(hardware) = Nil THEN hardware
                             ELSE Successor(hardware), "NEXT")
        [] c.action = "PAUSE" -> Request("PAUSE", Nil, "PAUSE")
        [] c.action = "STOP" -> Request("STOP", Nil, "STOP")
        [] c.action = "NEXT_SONG" -> Request("CLOSED", c.song, command)

(* getRequestedCommandValues(), preparePlayerCommand(). *)
TaskCommand ==
  /\ At("command")
  /\ IF queue = <<>>
     THEN /\ task' = [task EXCEPT !.phase = "execute"]
          /\ UNCHANGED <<enqueued, halted>>
     ELSE LET c == Head(queue)
          IN  /\ task' = [task EXCEPT !.phase = "execute", !.taken = TRUE, !.software = Prepared(c)]
              /\ enqueued' = CASE c.action = "NEXT_SONG" -> c.song
                               [] c.action = "PAUSE" -> enqueued
                               [] OTHER -> Nil
              /\ halted' = (halted /\ (c.origin = "alsa" \/ c.action \in {"STOP", "NEXT_SONG"}))
  /\ UNCHANGED <<vars, queue, buffered, restarting, requests>>

-----------------------------------------------------------------------------
(* executePlayerCommand(). *)

Playable == task.software.song # Nil /\ task.software.song \in buffered

(* play() takes a request for the song being played as a toggle. *)
Toggles ==
  /\ task.hardware.state \in {"PLAY", "PAUSE"}
  /\ task.software.command # "NEXT"
  /\ task.hardware.song \in {Nil, task.software.song}

Starts == task.software.state = "PLAY" /\ Playable /\ ~Toggles

(* Fault: the start of playback is no activity. *)
ExecutedUnnoticed(done) ==
  /\ task' = [task EXCEPT !.phase = "terminate",
                !.software.song = IF done THEN Nil ELSE @,
                !.software.state = IF done THEN "CLOSED" ELSE @]
  /\ UNCHANGED <<queue, buffered, enqueued, restarting, requests>>
(* The end of executePlayerCommand(): an executed command is forgotten, any
   other one is tried again in the next cycle. *)
Executed(done) ==
  /\ task' = [task EXCEPT !.phase = "terminate", !.active = @ \/ Starts,
                !.software.song = IF done THEN Nil ELSE @,
                !.software.state = IF done THEN "CLOSED" ELSE @]
  /\ UNCHANGED <<queue, buffered, enqueued, restarting, requests>>

ExecuteIdle ==
  /\ At("execute")
  /\ \/ task.software.state = "PLAY" /\ ~Playable
     \/ task.software.state = "CLOSED"
  /\ Executed(FALSE)
  /\ UNCHANGED <<vars, halted>>

ExecutePlay ==
  /\ At("execute") /\ AlsaMtxFree
  /\ Starts
  /\ \E name \in Devices :
       \/ /\ EventMtxFree
          /\ PlayCloses(task.software.song, name) \/ PlayOpenFails \/ PlayStartFails(task.software.song, name)
          /\ Executed(FALSE)
       \/ /\ PlayOpens(task.software.song, name) \/ PlayOn(task.software.song, name)
          /\ Executed(TRUE)
  /\ UNCHANGED halted

ExecuteToggle ==
  /\ At("execute") /\ AlsaMtxFree
  /\ \/ /\ task.software.state = "PLAY" /\ Playable /\ Toggles
        /\ Executed(device.state \in {"PLAY", "WAIT", "PAUSE"})
     \/ /\ task.software.state = "PAUSE"
        /\ Executed(TRUE)
  /\ Toggle
  /\ UNCHANGED halted

ExecuteStop ==
  /\ At("execute") /\ AlsaMtxFree
  /\ task.software.state = "STOP"
  /\ IF device.open \/ task.hardware.state \in {"ERROR", "STOP"}
     THEN \/ EventMtxFree /\ StopResets("task")
          \/ StopIgnored("task")
     ELSE UNCHANGED vars
  /\ Executed(TRUE)
  /\ halted' = TRUE

(* Fault: the command in work is kept. *)
TaskTerminateKeepsCommand ==
  /\ At("terminate")
  /\ task' = [task EXCEPT !.phase = "buffer"]
  /\ queue' = IF task.taken THEN Tail(queue) ELSE queue
  /\ UNCHANGED <<vars, buffered, enqueued, restarting, requests, halted>>
(* terminatePlayerCommand(). *)
TaskTerminate ==
  /\ At("terminate")
  /\ task' = [task EXCEPT !.phase = "buffer", !.taken = FALSE]
  /\ queue' = IF task.taken THEN Tail(queue) ELSE queue
  /\ UNCHANGED <<vars, buffered, enqueued, restarting, requests, halted>>

-----------------------------------------------------------------------------
(* executeBufferTask(). *)

(* Fault: the song being played goes before the requested one. *)
WantedByDevice ==
  LET current == IF task.hardware.song # Nil THEN task.hardware.song ELSE task.software.song
      missing == {i \in DOMAIN Playlist :
                    i - IndexOf(current) \in 1 .. Ahead /\ Playlist[i] \notin buffered}
  IN  IF current = Nil THEN {}
      ELSE IF current \notin buffered THEN {current}
      ELSE {Playlist[i] : i \in {j \in missing : \A k \in missing : j <= k}}
(* The first song to decode, if any: the one requested or being played, then
   the ones that follow it. *)
Wanted ==
  LET current == IF task.software.song # Nil THEN task.software.song ELSE task.hardware.song
      missing == {i \in DOMAIN Playlist :
                    i - IndexOf(current) \in 1 .. Ahead /\ Playlist[i] \notin buffered}
  IN  IF current = Nil THEN {}
      ELSE IF current \notin buffered THEN {current}
      ELSE {Playlist[i] : i \in {j \in missing : \A k \in missing : j <= k}}

(* Housekeeping: what stays in the pool when room for a song is needed. *)
Without(S, away) ==
  IF Cardinality(S) < Capacity THEN S
  ELSE {s \in S : s = task.hardware.song \/ IndexOf(s) \notin away}
Housekept ==
  LET hardware == IF task.hardware.song = Nil THEN 0 ELSE IndexOf(task.hardware.song)
      software == IF task.software.song = Nil THEN 0 ELSE IndexOf(task.software.song)
      center == IF hardware # 0 THEN hardware ELSE software
      Near(S, range) ==   \* the index, counted from 0, is unsigned
        IF software = 0 THEN S
        ELSE Without(S, {i \in DOMAIN Playlist : center <= range \/ i <= center - range \/ i >= center + range})
      lesser == IF hardware > 2 THEN Without(buffered, {i \in DOMAIN Playlist : i < hardware - 1}) ELSE buffered
      greater == IF hardware # 0 THEN Without(lesser, {i \in DOMAIN Playlist : i > hardware + Ahead}) ELSE lesser
  IN  Near(Near(greater, 3), 2)

(* A song is decoded in one cycle here. *)
TaskBuffer ==
  /\ At("buffer")
  /\ AlsaMtxFree
  /\ task' = [task EXCEPT !.phase = "close"]
  /\ buffered' = IF Wanted = {} THEN buffered
                 ELSE IF Cardinality(Housekept) < Capacity THEN Housekept \cup Wanted ELSE Housekept
  /\ UNCHANGED <<vars, queue, enqueued, restarting, requests, halted>>

(* closeAlsaDevice(), on inactivity. *)
Inactive == task.hardware.state \notin {"PLAY", "PAUSE", "CLOSED"}
TaskClose ==
  /\ At("close")
  /\ task' = [task EXCEPT !.phase = "values", !.active = @ \/ ~Inactive]
  /\ IF Inactive /\ ~task.active /\ device.open
     THEN AlsaMtxFree /\ EventMtxFree /\ Close
     ELSE UNCHANGED vars
  /\ UNCHANGED <<queue, buffered, enqueued, restarting, requests, halted>>

(* Minutes pass in which nothing but cycles of an inactive player happens. *)
TimePasses ==
  /\ At("values") /\ queue = <<>>
  /\ \A t \in Threads : Ready(t)
  /\ Inactive /\ task.hardware = mirror
  /\ task.active
  /\ task' = [task EXCEPT !.active = FALSE]
  /\ UNCHANGED <<vars, queue, buffered, enqueued, restarting, requests, halted>>

-----------------------------------------------------------------------------
(* The ALSA thread. *)

(* onPlayerPlaylistRequest(). *)
NextInPlaylist(s) ==
  IF enqueued # Nil THEN enqueued
  ELSE IF Repeat = "single" THEN s
  ELSE IF Successor(s) = Nil /\ Repeat = "list" THEN Playlist[1]
  ELSE Successor(s)

(* The song has no buffer; it goes on; it is over. *)
PeriodWaits ==
  /\ device.current \notin buffered \cup {Nil}
  /\ Leave("alsa", PeriodWait(device))
  /\ UNCHANGED enqueued
PeriodGoesOn == device.current \in buffered /\ Leave("alsa", device) /\ UNCHANGED enqueued
(* Fault: the device goes on whatever the next song needs. *)
PeriodEndsSongUnchecked ==
  /\ device.current \in buffered
  /\ LET s == NextInPlaylist(device.current)
     IN  Leave("alsa", IF s = Nil THEN NoMoreSong(device)
                       ELSE [NextSong(device, s, TRUE) EXCEPT !.state = device.state])
  /\ enqueued' = Nil
PeriodEndsSong ==
  /\ device.current \in buffered
  /\ LET s == NextInPlaylist(device.current)
     IN  Leave("alsa", IF s = Nil THEN NoMoreSong(device) ELSE NextSong(device, s, s \in buffered))
  /\ enqueued' = Nil

TaskPeriod ==
  /\ PeriodAllowed /\ AlsaMtxFree
  /\ IF device.state \in Silent THEN Leave("alsa", device) /\ UNCHANGED enqueued
     ELSE PeriodWaits \/ PeriodGoesOn \/ PeriodEndsSong
  /\ UNCHANGED <<mirror, queue, task, buffered, restarting, requests, halted>>

TaskPeriodFails ==
  /\ PeriodFails /\ AlsaMtxFree
  /\ UNCHANGED taskVars

-----------------------------------------------------------------------------
(* onPlayerStateChanged(), under eventMtx. *)

Restarts(t) == events[t].state \in {"WAIT", "REOPEN"} /\ events[t].song # Nil

QueueRestart(t) ==
  /\ Restarts(t)
  /\ EventMtxFree
  /\ queue' = Added(queue, [action |-> "PLAY_SONG", song |-> events[t].song, origin |-> "alsa"])
  /\ restarting' = t
  /\ UNCHANGED <<vars, task, buffered, enqueued, requests, halted>>

SetCurrentState(t) ==
  /\ IF Restarts(t) THEN restarting = t ELSE EventMtxFree
  /\ Deliver(t)
  /\ restarting' = Nil
  /\ UNCHANGED <<queue, task, buffered, enqueued, requests, halted>>

-----------------------------------------------------------------------------

Cycle ==
  \/ TaskValues \/ TaskCommand
  \/ ExecuteIdle \/ ExecutePlay \/ ExecuteToggle \/ ExecuteStop
  \/ TaskTerminate \/ TaskBuffer \/ TaskClose

Callback(t) == QueueRestart(t) \/ SetCurrentState(t)

TaskNext ==
  \/ Cycle \/ TimePasses
  \/ TaskPeriod \/ TaskPeriodFails
  \/ \E t \in Threads : Callback(t)
  \/ \E c \in UserCommands : UserRequest(c)
  \/ PlaylistDeleted

TaskSafety == TaskInit /\ [][TaskNext]_allVars

(* The task and the callbacks go on, and the task gets alsaMtx in the end; the
   ALSA thread is called for every period of a running device.  A song need
   not end and a user need not act. *)
TaskSpec ==
  /\ TaskSafety
  /\ SF_allVars(Cycle)
  /\ WF_allVars(TaskPeriod)
  /\ \A t \in Threads : WF_allVars(Callback(t))

-----------------------------------------------------------------------------
(* Properties. *)

(* Every variable has its type. *)
TaskTypeOK ==
  /\ TypeOK
  /\ queue \in Seq(Commands)
  /\ task \in Tasks
  /\ task.taken => queue # <<>>
  /\ buffered \subseteq Songs /\ Cardinality(buffered) <= Capacity
  /\ enqueued \in Songs \cup {Nil}
  /\ restarting \in Threads \cup {Nil}

(* A request to play is executed or given up for another one. *)
Requested == task.software.state = "PLAY" /\ task.software.song # Nil
RequestsAreServed == Requested ~> ~Requested

(* A stopped player stays silent until the user wants to hear something. *)
HaltedStaysSilent == halted => device.state # "PLAY"

(* A stop is undone by nothing but a command of the ALSA thread that was queued
   before the device was stopped. *)
OnlyRestartsUndoStop ==
  [][halted' /\ device'.state = "PLAY" /\ ~(halted /\ device.state = "PLAY")
     => task.software.origin = "alsa"]_allVars

(* A device that plays is not closed for inactivity. *)
PlayingIsActivity == [][TaskClose /\ device.state = "PLAY" => device'.state = "PLAY"]_allVars

=============================================================================
