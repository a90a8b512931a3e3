--------------------------- MODULE PlayerTaskProofs ---------------------------
(***************************************************************************)
(* TLAPS proofs about PlayerTask, for any playlist, pool and number of     *)
(* requests: the task, its callbacks and the ALSA thread implement         *)
(* AlsaDevice, so that what is proved of the device holds of the program   *)
(* around it, and a stop is undone by late restart commands only.          *)
(***************************************************************************)
EXTENDS PlayerTask, AlsaDeviceProofs, FiniteSetTheorems

(* A command of the user that is in work while the player is halted makes no sound. *)
HaltedRequest ==
  halted /\ task.software.origin = "user" => task.software.state \notin {"PLAY", "PAUSE"}

TaskTypes ==
  /\ queue \in Seq(Commands)
  /\ task \in Tasks
  /\ task.taken => queue # <<>>
  /\ buffered \subseteq Songs
  /\ enqueued \in Songs \cup {Nil}
  /\ restarting \in Threads \cup {Nil}

PoolFits == IsFiniteSet(buffered) /\ Cardinality(buffered) <= Capacity

TaskInv == DeviceInv /\ TaskTypes /\ PoolFits /\ HaltedRequest

-----------------------------------------------------------------------------
(* The songs the operators speak of are songs of the playlist. *)

LEMMA PlaylistSongs ==
  /\ \A i \in DOMAIN Playlist : Playlist[i] \in Songs
  /\ \A s \in Songs : IndexOf(s) \in DOMAIN Playlist
<1>1. \A s \in Songs : \E i \in DOMAIN Playlist : Playlist[i] = s
  BY TaskAssumption
<1> QED BY <1>1, TaskAssumption DEF IndexOf

LEMMA SuccessorType == ASSUME NEW s \in Songs PROVE Successor(s) \in Songs \cup {Nil}
<1>1. CASE IndexOf(s) < Len(Playlist)
  <2>1. IndexOf(s) + 1 \in DOMAIN Playlist
    BY <1>1, PlaylistSongs, TaskAssumption
  <2> QED BY <1>1, <2>1, PlaylistSongs DEF Successor
<1>2. CASE ~(IndexOf(s) < Len(Playlist))
  BY <1>2 DEF Successor
<1> QED BY <1>1, <1>2

LEMMA NextInPlaylistType ==
  ASSUME NEW s \in Songs, enqueued \in Songs \cup {Nil}
  PROVE  NextInPlaylist(s) \in Songs \cup {Nil}
<1>1. IndexOf(s) \in DOMAIN Playlist
  BY PlaylistSongs
<1>2. 1 \in DOMAIN Playlist
  BY <1>1, TaskAssumption
<1>3. Playlist[1] \in Songs
  BY <1>2, PlaylistSongs
<1> QED BY <1>3, SuccessorType DEF NextInPlaylist

LEMMA WantedSongs == ASSUME TaskTypes PROVE Wanted \subseteq Songs
<1> DEFINE current == IF task.software.song # Nil THEN task.software.song ELSE task.hardware.song
           missing == {i \in DOMAIN Playlist :
                         i - IndexOf(current) \in 1 .. Ahead /\ Playlist[i] \notin buffered}
<1>1. current \in Songs \cup {Nil}
  BY DEF TaskTypes, Tasks, Requests, Reports
<1>2. {Playlist[i] : i \in {j \in missing : \A k \in missing : j <= k}} \subseteq Songs
  BY PlaylistSongs
<1> HIDE DEF current
<1> QED BY <1>1, <1>2 DEF Wanted, current

LEMMA HousekeptSongs == ASSUME TaskTypes PROVE Housekept \subseteq Songs
BY DEF Housekept, Without, TaskTypes

LEMMA PreparedType ==
  ASSUME TypeOK, TaskTypes, NEW c \in Commands
  PROVE  /\ Prepared(c) \in Requests /\ Prepared(c).origin = c.origin
         /\ c.action \in {"STOP", "NEXT_SONG"} => Prepared(c).state \in {"STOP", "CLOSED"}
<1> DEFINE hardware == task.hardware.song
           command == task.software.command
           Request(state, song, cmd) ==
             [state |-> state, song |-> song, command |-> IF song = Nil THEN command ELSE cmd,
              origin |-> c.origin]
<1>1. /\ command \in {"DEFAULT", "PLAY", "NEXT", "PAUSE", "STOP"}
      /\ hardware \in Songs \cup {Nil} /\ mirror.song \in Songs \cup {Nil}
      /\ hardware \in Songs => Successor(hardware) \in Songs \cup {Nil}
  BY SuccessorType DEF TypeOK, TaskTypes, Tasks, Requests, Reports
<1>2. /\ c.song \in Songs \cup {Nil} /\ c.origin \in {"user", "alsa"}
      /\ c.action \in {"PLAY_SONG", "PLAY", "NEXT", "PAUSE", "STOP", "NEXT_SONG"}
  BY DEF Commands
<1>3. ASSUME NEW state \in {"CLOSED", "PLAY", "PAUSE", "STOP"}, NEW song \in Songs \cup {Nil},
             NEW cmd \in {"DEFAULT", "PLAY", "NEXT", "PAUSE", "STOP"}
      PROVE  /\ Request(state, song, cmd) \in Requests
             /\ Request(state, song, cmd).origin = c.origin /\ Request(state, song, cmd).state = state
  BY <1>1, <1>2 DEF Requests
<1>4. CASE c.action = "PLAY_SONG"
  <2>1. Prepared(c) = Request("PLAY", c.song, "PLAY")
    BY <1>4 DEF Prepared
  <2> HIDE DEF Request
  <2> QED BY <1>2, <1>3, <1>4, <2>1
<1>5. CASE c.action = "PLAY"
  <2> DEFINE song == IF hardware # Nil THEN hardware ELSE IF mirror.song # Nil THEN mirror.song ELSE c.song
  <2>1. Prepared(c) = Request("PLAY", song, "PLAY")
    BY <1>5 DEF Prepared
  <2>2. song \in Songs \cup {Nil}
    BY <1>1, <1>2
  <2> HIDE DEF Request, song
  <2> QED BY <1>3, <1>5, <2>1, <2>2
<1>6. CASE c.action = "NEXT"
  <2> DEFINE song == IF hardware = Nil \/ Successor(hardware) = Nil THEN hardware ELSE Successor(hardware)
  <2>1. Prepared(c) = Request("PLAY", song, "NEXT")
    BY <1>6 DEF Prepared
  <2>2. song \in Songs \cup {Nil}
    BY <1>1
  <2> HIDE DEF Request, song
  <2> QED BY <1>3, <1>6, <2>1, <2>2
<1>7. CASE c.action = "PAUSE"
  <2>1. Prepared(c) = Request("PAUSE", Nil, "PAUSE")
    BY <1>7 DEF Prepared
  <2> HIDE DEF Request
  <2> QED BY <1>3, <1>7, <2>1
<1>8. CASE c.action = "STOP"
  <2>1. Prepared(c) = Request("STOP", Nil, "STOP")
    BY <1>8 DEF Prepared
  <2> HIDE DEF Request
  <2> QED BY <1>3, <1>8, <2>1
<1>9. CASE c.action = "NEXT_SONG"
  <2>1. Prepared(c) = Request("CLOSED", c.song, command)
    BY <1>9 DEF Prepared
  <2> HIDE DEF Request, command
  <2> QED BY <1>1, <1>2, <1>3, <1>9, <2>1
<1> QED BY <1>2, <1>4, <1>5, <1>6, <1>7, <1>8, <1>9

-----------------------------------------------------------------------------
(* Each step of the program is a step of AlsaDevice or leaves it alone. *)

LEMMA NextSongInPeriods ==
  ASSUME NEW d, NEW s \in Songs, NEW ready \in BOOLEAN
  PROVE  NextSong(d, s, ready) \in Periods(d)
<1>1. NextSong(d, s, ready) \in {NextSong(d, r, b) : r \in Songs, b \in BOOLEAN}
  BY SMT
<1> QED BY <1>1 DEF Periods

LEMMA TaskPeriodSimulated ==
  ASSUME DeviceInv, TaskTypes, TaskPeriod
  PROVE  [Next]_vars /\ enqueued' \in Songs \cup {Nil}
<1>1. PeriodAllowed /\ UNCHANGED mirror
  BY DEF TaskPeriod
<1>2. device.current \in Songs \cup {Nil} /\ enqueued \in Songs \cup {Nil}
  BY DEF DeviceInv, TypeOK, PlayerRecords, TaskTypes
<1>3. CASE device.state \in Silent
  <2>1. Leave("alsa", device) /\ UNCHANGED enqueued
    BY <1>3 DEF TaskPeriod
  <2>2. device \in Written(device)
    BY <1>3 DEF Written
  <2>3. Period
    BY <1>1, <2>1, <2>2 DEF Period
  <2> QED BY <1>2, <2>1, <2>3 DEF Next
<1>4. CASE device.state \notin Silent
  <2>1. PeriodWaits \/ PeriodGoesOn \/ PeriodEndsSong
    BY <1>4 DEF TaskPeriod
  <2>2. device.current \in Songs
    BY <1>2, <2>1 DEF PeriodWaits, PeriodGoesOn, PeriodEndsSong, TaskTypes
  <2>3. Written(device) = Periods(device)
    BY <1>4, <2>2, PlayerAssumption DEF Written
  <2>4. (\E d \in Periods(device) : Leave("alsa", d)) /\ enqueued' \in Songs \cup {Nil}
    <3>1. CASE PeriodWaits
      BY <1>2, <3>1 DEF PeriodWaits, Periods
    <3>2. CASE PeriodGoesOn
      BY <1>2, <3>2 DEF PeriodGoesOn, Periods
    <3>3. CASE PeriodEndsSong
      <4> DEFINE s == NextInPlaylist(device.current)
      <4>1. s \in Songs \cup {Nil}
        BY <1>2, <2>2, NextInPlaylistType
      <4>2. Leave("alsa", IF s = Nil THEN NoMoreSong(device) ELSE NextSong(device, s, s \in buffered))
        BY <3>3 DEF PeriodEndsSong
      <4>3. NoMoreSong(device) \in Periods(device)
        BY DEF Periods
      <4>4. s \in Songs => NextSong(device, s, s \in buffered) \in Periods(device)
        <5>1. NextSong(device, s, s \in buffered) = NextSong(device, s, TRUE)
              \/ NextSong(device, s, s \in buffered) = NextSong(device, s, FALSE)
          BY DEF NextSong
        <5> HIDE DEF s
        <5> QED BY <5>1, NextSongInPeriods
      <4>5. enqueued' = Nil
        BY <3>3 DEF PeriodEndsSong
      <4> HIDE DEF s
      <4> QED BY <4>1, <4>2, <4>3, <4>4, <4>5
    <3> QED BY <2>1, <3>1, <3>2, <3>3
  <2>5. Period
    BY <1>1, <2>3, <2>4 DEF Period
  <2> QED BY <2>4, <2>5 DEF Next
<1> QED BY <1>3, <1>4

LEMMA StepSimulated ==
  ASSUME DeviceInv, TaskTypes, [TaskNext]_allVars
  PROVE  [Next]_vars
<1>1. CASE UNCHANGED allVars
  BY <1>1 DEF allVars
<1>2. CASE TaskValues \/ TaskCommand \/ ExecuteIdle \/ TaskTerminate \/ TaskBuffer \/ TimePasses
  BY <1>2 DEF TaskValues, TaskCommand, ExecuteIdle, TaskTerminate, TaskBuffer, TimePasses
<1>3. CASE ExecutePlay
  <2>1. task.software.song \in Songs
    BY <1>3 DEF ExecutePlay, Starts, Playable, TaskTypes
  <2>2. PICK name \in Devices : Play(task.software.song, name)
    BY <1>3 DEF ExecutePlay, Play
  <2> QED BY <2>1, <2>2 DEF Next, Task
<1>4. CASE ExecuteToggle
  BY <1>4 DEF ExecuteToggle, Next, Task
<1>5. CASE ExecuteStop
  BY <1>5 DEF ExecuteStop, Next
<1>6. CASE TaskClose
  BY <1>6 DEF TaskClose, Next, Task
<1>7. CASE TaskPeriod
  BY <1>7, TaskPeriodSimulated
<1>8. CASE TaskPeriodFails
  BY <1>8 DEF TaskPeriodFails, Next
<1>9. ASSUME NEW t \in Threads, Callback(t) PROVE [Next]_vars
  BY <1>9 DEF Callback, QueueRestart, SetCurrentState, Next
<1>10. ASSUME NEW c \in UserCommands, UserRequest(c) PROVE [Next]_vars
  BY <1>10 DEF UserRequest
<1>11. CASE PlaylistDeleted
  BY <1>11 DEF PlaylistDeleted, Next
<1> QED BY <1>1, <1>2, <1>3, <1>4, <1>5, <1>6, <1>7, <1>8, <1>9, <1>10, <1>11 DEF TaskNext, Cycle

-----------------------------------------------------------------------------
(* The pool never holds more songs than fit. *)

LEMMA WantedOne == Wanted = {} \/ \E s : Wanted = {s}
<1> DEFINE current == IF task.software.song # Nil THEN task.software.song ELSE task.hardware.song
           missing == {i \in DOMAIN Playlist :
                         i - IndexOf(current) \in 1 .. Ahead /\ Playlist[i] \notin buffered}
           first == {j \in missing : \A k \in missing : j <= k}
<1>1. \A i, j \in first : i = j
  BY TaskAssumption
<1>2. Wanted = {} \/ Wanted = {current} \/ Wanted = {Playlist[i] : i \in first}
  BY DEF Wanted
<1> HIDE DEF first, current
<1>3. CASE first = {}
  BY <1>2, <1>3
<1>4. ASSUME NEW i \in first PROVE {Playlist[j] : j \in first} = {Playlist[i]}
  BY <1>1, <1>4
<1> QED BY <1>2, <1>3, <1>4

LEMMA TaskBufferFits == ASSUME TaskTypes, PoolFits, TaskBuffer PROVE PoolFits'
<1>1. Housekept \subseteq buffered
  BY DEF Housekept, Without
<1>2. IsFiniteSet(Housekept) /\ Cardinality(Housekept) <= Cardinality(buffered)
  BY <1>1, FS_Subset DEF PoolFits
<1>3. Cardinality(Housekept) \in Nat /\ Cardinality(buffered) \in Nat /\ Capacity \in Nat
  BY <1>2, FS_CardinalityType, TaskAssumption DEF PoolFits
<1>4. CASE Wanted = {}
  BY <1>4 DEF TaskBuffer, PoolFits
<1>5. ASSUME NEW s, Wanted = {s} PROVE PoolFits'
  <2>1. CASE Cardinality(Housekept) < Capacity
    <3>1. buffered' = Housekept \cup {s}
      BY <1>5, <2>1 DEF TaskBuffer
    <3>2. /\ IsFiniteSet(Housekept \cup {s})
          /\ Cardinality(Housekept \cup {s}) =
               IF s \in Housekept THEN Cardinality(Housekept) ELSE Cardinality(Housekept) + 1
      BY <1>2, FS_AddElement
    <3> QED BY <1>3, <2>1, <3>1, <3>2 DEF PoolFits
  <2>2. CASE ~(Cardinality(Housekept) < Capacity)
    <3>1. buffered' = Housekept
      BY <1>5, <2>2 DEF TaskBuffer
    <3> QED BY <1>2, <1>3, <3>1 DEF PoolFits
  <2> QED BY <2>1, <2>2
<1> QED BY <1>4, <1>5, WantedOne

-----------------------------------------------------------------------------
(* Each step keeps the types and the kind of request of a halted player. *)

LEMMA AddedType ==
  ASSUME NEW q \in Seq(Commands), NEW c \in Commands
  PROVE  Added(q, c) \in Seq(Commands) /\ (q # <<>> => Added(q, c) # <<>>)
BY DEF Added

LEMMA ExecutedInv ==
  ASSUME TaskTypes, HaltedRequest, NEW done \in BOOLEAN, Executed(done), done \/ UNCHANGED halted
  PROVE  TaskTypes' /\ HaltedRequest'
<1>1. task' \in Tasks /\ task'.taken = task.taken
  BY DEF Executed, TaskTypes, Tasks, Requests, Phases
<1>2. /\ task'.software.origin = task.software.origin
      /\ task'.software.state = IF done THEN "CLOSED" ELSE task.software.state
  BY DEF Executed, TaskTypes, Tasks, Requests
<1> QED BY <1>1, <1>2 DEF Executed, TaskTypes, HaltedRequest

LEMMA TaskStepInv ==
  ASSUME DeviceInv, TaskTypes, HaltedRequest, [TaskNext]_allVars
  PROVE  TaskTypes' /\ HaltedRequest'
<1> DEFINE Goal == TaskTypes' /\ HaltedRequest'
<1>1. CASE UNCHANGED <<taskVars>>
  BY <1>1 DEF taskVars, TaskTypes, HaltedRequest
<1>2. CASE TaskValues
  <2>1. mirror \in Reports
    BY DEF DeviceInv, TypeOK
  <2>2. task' \in Tasks /\ task'.taken = task.taken /\ task'.software = task.software
    BY <1>2, <2>1 DEF TaskValues, TaskTypes, Tasks, Phases
  <2> QED BY <1>2, <2>2 DEF TaskValues, TaskTypes, HaltedRequest
<1>3. CASE TaskCommand
  <2>1. CASE queue = <<>>
    <3>1. task' \in Tasks /\ task'.taken = task.taken /\ task'.software = task.software
      BY <1>3, <2>1 DEF TaskCommand, TaskTypes, Tasks, Phases
    <3> QED BY <1>3, <2>1, <3>1 DEF TaskCommand, TaskTypes, HaltedRequest
  <2>2. CASE queue # <<>>
    <3> DEFINE c == Head(queue)
    <3>1. c \in Commands
      BY <2>2 DEF TaskTypes
    <3>2. /\ Prepared(c) \in Requests /\ Prepared(c).origin = c.origin
          /\ c.action \in {"STOP", "NEXT_SONG"} => Prepared(c).state \in {"STOP", "CLOSED"}
      BY <3>1, PreparedType DEF DeviceInv
    <3>3. task' = [task EXCEPT !.phase = "execute", !.taken = TRUE, !.software = Prepared(c)]
      BY <1>3, <2>2 DEF TaskCommand
    <3>4. task' \in Tasks /\ task'.software = Prepared(c)
      BY <3>2, <3>3 DEF TaskTypes, Tasks, Phases
    <3>5. /\ enqueued' = CASE c.action = "NEXT_SONG" -> c.song
                           [] c.action = "PAUSE" -> enqueued
                           [] OTHER -> Nil
          /\ halted' = (halted /\ (c.origin = "alsa" \/ c.action \in {"STOP", "NEXT_SONG"}))
          /\ UNCHANGED <<queue, buffered, restarting>>
      BY <1>3, <2>2 DEF TaskCommand
    <3>6. enqueued' \in Songs \cup {Nil}
      BY <3>1, <3>5 DEF TaskTypes, Commands
    <3>7. c.origin \in {"user", "alsa"}
      BY <3>1 DEF Commands
    <3> HIDE DEF c
    <3> QED BY <2>2, <3>2, <3>4, <3>5, <3>6, <3>7 DEF TaskTypes, HaltedRequest
  <2> QED BY <2>1, <2>2
<1>4. CASE ExecuteIdle
  BY <1>4, ExecutedInv DEF ExecuteIdle
<1>5. CASE ExecutePlay
  BY <1>5, ExecutedInv DEF ExecutePlay
<1>6. CASE ExecuteToggle
  <2>1. Executed(TRUE) \/ Executed(FALSE)
    BY <1>6 DEF ExecuteToggle, Executed
  <2>2. UNCHANGED halted
    BY <1>6 DEF ExecuteToggle
  <2> QED BY <2>1, <2>2, ExecutedInv
<1>7. CASE ExecuteStop
  BY <1>7, ExecutedInv DEF ExecuteStop
<1>8. CASE TaskTerminate
  <2>1. task' \in Tasks /\ task'.taken = FALSE /\ task'.software = task.software
    BY <1>8 DEF TaskTerminate, TaskTypes, Tasks, Phases
  <2>2. queue' \in Seq(Commands)
    BY <1>8 DEF TaskTerminate, TaskTypes
  <2> QED BY <1>8, <2>1, <2>2 DEF TaskTerminate, TaskTypes, HaltedRequest
<1>9. CASE TaskBuffer
  <2>1. task' \in Tasks /\ task'.taken = task.taken /\ task'.software = task.software
    BY <1>9 DEF TaskBuffer, TaskTypes, Tasks, Phases
  <2>2. buffered' \subseteq Songs
    BY <1>9, WantedSongs, HousekeptSongs DEF TaskBuffer, TaskTypes
  <2> QED BY <1>9, <2>1, <2>2 DEF TaskBuffer, TaskTypes, HaltedRequest
<1>10. CASE TaskClose \/ TimePasses
  <2>1. task' \in Tasks /\ task'.taken = task.taken /\ task'.software = task.software
    BY <1>10 DEF TaskClose, TimePasses, TaskTypes, Tasks, Phases
  <2> QED BY <1>10, <2>1 DEF TaskClose, TimePasses, TaskTypes, HaltedRequest
<1>11. CASE TaskPeriod
  BY <1>11, TaskPeriodSimulated DEF TaskPeriod, TaskTypes, HaltedRequest
<1>12. CASE TaskPeriodFails
  BY <1>1, <1>12 DEF TaskPeriodFails, taskVars
<1>13. ASSUME NEW t \in Threads, Callback(t) PROVE Goal
  <2>1. CASE QueueRestart(t)
    <3> DEFINE c == [action |-> "PLAY_SONG", song |-> events[t].song, origin |-> "alsa"]
    <3>1. events[t] \in Reports
      BY <2>1 DEF QueueRestart, Restarts, DeviceInv, TypeOK, NoEvent
    <3>2. c \in Commands
      BY <3>1 DEF Commands, Reports
    <3>3. queue' = Added(queue, c)
      BY <2>1 DEF QueueRestart
    <3> HIDE DEF c
    <3> QED BY <2>1, <3>2, <3>3, AddedType DEF QueueRestart, TaskTypes, HaltedRequest
  <2>2. CASE SetCurrentState(t)
    BY <2>2 DEF SetCurrentState, TaskTypes, HaltedRequest
  <2> QED BY <1>13, <2>1, <2>2 DEF Callback
<1>14. ASSUME NEW c \in UserCommands, UserRequest(c) PROVE Goal
  <2>1. c \in Commands
    BY DEF UserCommands
  <2>2. queue' = Added(queue, c) /\ UNCHANGED <<task, buffered, enqueued, restarting, halted>>
    BY <1>14 DEF UserRequest
  <2> QED BY <2>1, <2>2, AddedType DEF TaskTypes, HaltedRequest
<1>15. CASE PlaylistDeleted
  BY <1>15 DEF PlaylistDeleted, TaskTypes, HaltedRequest
<1> QED BY <1>1, <1>2, <1>3, <1>4, <1>5, <1>6, <1>7, <1>8, <1>9, <1>10, <1>11, <1>12, <1>13, <1>14, <1>15
        DEF TaskNext, Cycle, allVars

-----------------------------------------------------------------------------
(* Theorems. *)

LEMMA TaskInvInit == TaskInit => TaskInv
<1> SUFFICES ASSUME TaskInit PROVE TaskInv
  OBVIOUS
<1>1. DeviceInv
  BY DeviceInit DEF TaskInit, FittingInv
<1>2. mirror \in Reports /\ NoRequest \in Requests
  BY <1>1 DEF DeviceInv, TypeOK, NoRequest, Requests
<1>3. task \in Tasks /\ task.taken = FALSE
  BY <1>2 DEF TaskInit, Tasks, Phases
<1>4. TaskTypes
  BY <1>3 DEF TaskInit, TaskTypes
<1>5. PoolFits
  BY FS_EmptySet, TaskAssumption DEF TaskInit, PoolFits
<1>6. HaltedRequest
  BY DEF TaskInit, HaltedRequest
<1> QED BY <1>1, <1>4, <1>5, <1>6 DEF TaskInv

LEMMA TaskInvNext == TaskInv /\ [TaskNext]_allVars => TaskInv' /\ [Next]_vars
<1> SUFFICES ASSUME TaskInv, [TaskNext]_allVars PROVE TaskInv' /\ [Next]_vars
  OBVIOUS
<1>1. DeviceInv /\ TaskTypes /\ PoolFits /\ HaltedRequest
  BY DEF TaskInv
<1>2. [Next]_vars
  BY <1>1, StepSimulated
<1>3. DeviceInv'
  <2>1. CASE UNCHANGED vars
    BY <1>1, <2>1 DEF vars, DeviceInv, TypeOK, Consistent
  <2> QED BY <1>1, <1>2, <2>1, DeviceNext
<1>4. TaskTypes' /\ HaltedRequest'
  BY <1>1, TaskStepInv
<1>5. PoolFits'
  <2>1. TaskBuffer \/ UNCHANGED buffered
    BY DEF TaskNext, Cycle, TaskValues, TaskCommand, ExecuteIdle, ExecutePlay, ExecuteToggle,
           ExecuteStop, Executed, TaskTerminate, TaskClose, TimePasses, TaskPeriod, TaskPeriodFails,
           Callback, QueueRestart, SetCurrentState, UserRequest, PlaylistDeleted, allVars, taskVars
  <2>2. CASE UNCHANGED buffered
    BY <1>1, <2>2 DEF PoolFits
  <2> QED BY <1>1, <2>1, <2>2, TaskBufferFits
<1> QED BY <1>2, <1>3, <1>4, <1>5 DEF TaskInv

LEMMA TaskInvAlways == TaskSafety => []TaskInv
BY TaskInvInit, TaskInvNext, PTL DEF TaskSafety

(* All variables keep their types, and the pool never holds more than fits. *)
THEOREM TaskTypeCorrect == TaskSafety => []TaskTypeOK
<1>1. TaskInv => TaskTypeOK
  BY DEF TaskInv, DeviceInv, TaskTypes, PoolFits, TaskTypeOK
<1> QED BY <1>1, TaskInvAlways, PTL

(* Whatever the task, the callbacks and the users do, TAlsaPlayer sees nothing
   but the calls AlsaDevice models: its invariants hold in the program. *)
THEOREM TaskImplementsDevice == TaskSafety => Spec
<1>1. TaskInit => Init
  BY DEF TaskInit
<1> QED BY <1>1, TaskInvNext, TaskInvAlways, PTL DEF TaskSafety, Spec

(* In the program a waiting player knows the song to go on with. *)
THEOREM TaskWaitingHasSong == TaskSafety => []WaitingHasSong
BY TaskImplementsDevice, DeviceWaitingHasSong, PTL

(* The device begins to play by a request to play or by a toggle only. *)
LEMMA SilentStays ==
  ASSUME DeviceInv, TaskTypes, [TaskNext]_allVars, ~ExecutePlay, ~ExecuteToggle, device.state # "PLAY"
  PROVE  device'.state # "PLAY"
<1>1. device \in PlayerRecords /\ Consistent(device)
  BY DEF DeviceInv, Consistent
<1>2. ASSUME NEW t \in Threads, NEW d, Leave(t, d), d \in PlayerRecords, d.state # "PLAY"
      PROVE  device'.state # "PLAY"
  BY <1>2 DEF Leave, PlayerRecords
<1>3. CloseDevice(device).state # "PLAY" /\ StopOrClose(device).state # "PLAY"
  BY <1>1 DEF CloseDevice, StopOrClose, StopDevice, Reset, PlayerRecords
<1>4. ASSUME NEW t \in Threads, StopResets(t) \/ StopIgnored(t) PROVE device'.state # "PLAY"
  BY <1>1, <1>2, <1>3, <1>4 DEF StopResets, StopIgnored, LeaveTold
<1>5. CASE UNCHANGED device
  BY <1>5
<1>6. CASE ExecuteStop \/ PlaylistDeleted
  BY <1>4, <1>6 DEF ExecuteStop, PlaylistDeleted, Threads, vars
<1>7. CASE TaskClose
  BY <1>3, <1>7 DEF TaskClose, Close, LeaveTold, vars
<1>8. ASSUME PeriodAllowed PROVE device.state \in Silent /\ Written(device) = {device}
  BY <1>1, <1>8 DEF PeriodAllowed, Written, Silent, Consistent, PlayerRecords, PlayerStates
<1>9. CASE TaskPeriod
  BY <1>1, <1>2, <1>8, <1>9 DEF TaskPeriod, Threads
<1>10. CASE TaskPeriodFails
  <2>1. PICK dropped \in BOOLEAN : Leave("alsa", DropDevice(device, dropped))
    BY <1>8, <1>10 DEF TaskPeriodFails, PeriodFails
  <2>2. Consistent(DropDevice(device, dropped)) /\ DropDevice(device, dropped).state \in {"CLOSED", "ERROR"}
    BY <1>1, <1>10, DropConsistent DEF DropDevice, TaskPeriodFails, PeriodFails, PeriodAllowed, PlayerRecords
  <2>3. DropDevice(device, dropped) \in PlayerRecords
    BY <2>2 DEF Consistent
  <2> QED BY <1>2, <2>1, <2>2, <2>3 DEF Threads
<1> QED BY <1>5, <1>6, <1>7, <1>9, <1>10
        DEF TaskNext, Cycle, TaskValues, TaskCommand, ExecuteIdle, TaskTerminate, TaskBuffer, TimePasses,
            Callback, QueueRestart, SetCurrentState, Deliver, UserRequest, allVars, vars

(* A player that was stopped plays again only when it executes a restart
   command of the ALSA thread: HaltedRequest is what makes it inductive. *)
THEOREM TaskStopsForGood == TaskSafety => OnlyRestartsUndoStop
<1> DEFINE Undone == halted' /\ device'.state = "PLAY" /\ ~(halted /\ device.state = "PLAY")
<1>1. TaskInv /\ [TaskNext]_allVars => (Undone => task.software.origin = "alsa")
  <2> SUFFICES ASSUME TaskInv, [TaskNext]_allVars, Undone PROVE task.software.origin = "alsa"
    OBVIOUS
  <2>1. DeviceInv /\ TaskTypes /\ HaltedRequest /\ Consistent(device) /\ device \in PlayerRecords
    BY DEF TaskInv, DeviceInv, Consistent
  <2>2. CASE ExecuteStop
    <3>1. CASE StopResets("task")
      BY <2>1, <3>1 DEF StopResets, LeaveTold, StopOrClose, StopDevice, CloseDevice, Reset, PlayerRecords
    <3>2. CASE StopIgnored("task")
      BY <2>1, <3>2 DEF StopIgnored, Leave, Stoppable, PlayerRecords
    <3>3. CASE ~device.open /\ UNCHANGED vars
      BY <2>1, <3>3 DEF Consistent, vars
    <3> QED BY <2>2, <3>1, <3>2, <3>3 DEF ExecuteStop
  <2>3. CASE ~ExecuteStop
    <3>1. halted' => halted
      BY <2>3 DEF TaskNext, Cycle, TaskValues, TaskCommand, ExecuteIdle, ExecutePlay, ExecuteToggle,
             Executed, TaskTerminate, TaskBuffer, TaskClose, TimePasses, TaskPeriod, TaskPeriodFails,
             Callback, QueueRestart, SetCurrentState, UserRequest, PlaylistDeleted, allVars, taskVars
    <3>2. ExecutePlay \/ ExecuteToggle
      BY <2>1, <3>1, SilentStays
    <3>3. task.software.state \in {"PLAY", "PAUSE"}
      BY <3>2 DEF ExecutePlay, ExecuteToggle, Starts
    <3>4. task.software.origin \in {"user", "alsa"}
      BY <2>1 DEF TaskTypes, Tasks, Requests
    <3> QED BY <2>1, <3>1, <3>3, <3>4 DEF HaltedRequest
  <2> QED BY <2>2, <2>3
<1> QED BY <1>1, TaskInvAlways, PTL DEF TaskSafety, OnlyRestartsUndoStop

=============================================================================
