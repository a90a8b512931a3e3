----------------------------- MODULE SongSelection -----------------------------
(***************************************************************************)
(* Which song comes next (src/app/player.cpp): the ALSA thread asks for it *)
(* at the end of a song, the task when the user wants a random one, while  *)
(* web threads, the task and the ALSA thread switch the repeat modes.      *)
(*                                                                         *)
(* A thread reads the modes, toggles a button of the web interface under   *)
(* componentMtx, derives the new modes from what it read and writes them:  *)
(* these are steps of their own.  A song is selected under libraryLck,     *)
(* which the search of the disk shuffle keeps between its rounds.  The     *)
(* order of the locks is in LockOrder: here the actions that need alsaMtx  *)
(* besides libraryLck get both at once.                                    *)
(*                                                                         *)
(* There is one playlist, which does not change (Playlists has the         *)
(* changes), and each song has a title of its own.  Internet streams, the  *)
(* trial mode and the switch of the direct mode are left out.              *)
(***************************************************************************)
EXTENDS Sequences, Naturals

CONSTANTS
  Songs,
  List,      \* the playlist: songs, in order, each at most once
  AlbumOf,
  Short,     \* songs too short for a random choice
  Web,       \* threads of the web server
  Pressers,  \* threads that use switches, of the web server or the task
  Offered,   \* switches that are used
  Requests,  \* what the task is asked for: "play", "enqueue", "random"
  MaxInputs, \* bound on the number of switches and requests
  Nil

Switches == {"random", "repeat", "single", "halt", "disk"}
Threads == Web \cup {"task", "alsa"}
Listed == {List[i] : i \in DOMAIN List}

ASSUME SelectionAssumption ==
  /\ List \in Seq(Songs) /\ List # <<>>
  /\ \A i, j \in DOMAIN List : List[i] = List[j] => i = j
  /\ Short \subseteq Songs /\ Nil \notin Songs
  /\ Pressers \subseteq Web \cup {"task"} /\ Offered \subseteq Switches
  /\ MaxInputs \in Nat
  /\ {"task", "alsa"} \cap Web = {} /\ Nil \notin Threads

VARIABLES
  mode,      \* TPlayer::mode
  button,    \* which of the buttons are shown as pressed
  op,        \* where each thread is, with its copies of modes and songs
  holder,    \* the thread that keeps libraryLck between two steps
  marked,    \* songs whose track is randomized
  heard,     \* songs chosen at random or played since the markers were cleared
  current,   \* TAlsaPlayer::currentSong
  enqueued,  \* TPlayer::nextSong
  inputs     \* number of switches and requests so far

vars == <<mode, button, op, holder, marked, heard, current, enqueued, inputs>>
songVars == <<holder, marked, heard, current, enqueued, inputs>>

Modes == [Switches -> BOOLEAN]
Off == [sw \in Switches |-> FALSE]
Idle == [at |-> "idle", switch |-> "none", mode |-> Off, song |-> Nil, next |-> Nil, flag |-> FALSE]
Places ==
  {"idle", "pressed", "unmark", "write",              \* executeRepeatModeAction()
   "mode", "asked", "select", "press",                \* onPlayerPlaylistRequest()
   "taken", "random", "reselect", "execute", "mark"}  \* the task
Ops ==
  [at : Places, switch : Switches \cup {"none"}, mode : Modes, song : Songs \cup {Nil},
   next : Songs \cup {Nil}, flag : BOOLEAN]

(* The disk mode is restored from the configuration. *)
Init ==
  /\ mode \in {Off, [Off EXCEPT !["disk"] = TRUE]}
  /\ button = mode
  /\ op = [t \in Threads |-> Idle]
  /\ holder = Nil
  /\ marked = {} /\ heard = {}
  /\ current = Nil /\ enqueued = Nil
  /\ inputs = 0

At(t, place) == op[t].at = place
LibraryFree(t) == holder \in {Nil, t}
AlsaMtxFree == At("alsa", "idle")
Input == inputs < MaxInputs /\ inputs' = inputs + 1

-----------------------------------------------------------------------------
(* executeRepeatModeAction(). *)

(* Fault: the random mode leaves the single mode on. *)
ExcludesLess(sw) ==
  CASE sw = "single" -> {"halt", "random", "repeat", "disk"}
    [] sw = "halt" -> {"single"}
    [] sw = "random" -> {"halt"}
    [] OTHER -> {"halt", "single"}
Excludes(sw) ==
  CASE sw = "single" -> {"halt", "random", "repeat", "disk"}
    [] sw = "halt" -> {"single"}
    [] OTHER -> {"halt", "single"}

(* The buttons that are set to the new modes besides the one that is pressed. *)
Refreshes(sw) ==
  CASE sw = "single" -> {"random", "repeat", "disk"}
    [] sw = "halt" -> {"single"}
    [] sw = "random" -> {"halt", "single"}
    [] sw = "disk" -> {"single", "repeat"}
    [] sw = "repeat" -> {"single", "disk"}

(* The modes that follow from those read before and the button now. *)
NewMode(last, sw, on) ==
  [s \in Switches |->
     IF s = sw THEN on
     ELSE last[s] /\ ~(on /\ ~last[sw] /\ s \in Excludes(sw))]

Press(t, sw, place) ==
  /\ At(t, place)
  /\ op' = [op EXCEPT ![t].at = "pressed", ![t].switch = sw, ![t].mode = mode]
  /\ UNCHANGED <<mode, button, holder, marked, heard, current, enqueued>>

(* A user's switch, of the web interface or the remote control. *)
UserPress(t, sw) ==
  /\ Press(t, sw, IF t = "task" THEN "taken" ELSE "idle")
  /\ Input

HaltPress == Press("alsa", "halt", "press") /\ UNCHANGED inputs

Toggle(t) ==
  LET sw == op[t].switch
      last == op[t].mode
      on == ~button[sw]
      new == NewMode(last, sw, on)
  IN  /\ At(t, "pressed")
      /\ button' = [s \in Switches |->
                      IF s = sw THEN on
                      ELSE IF on /\ ~last[sw] /\ s \in Refreshes(sw) THEN new[s] ELSE button[s]]
      /\ op' = [op EXCEPT ![t].mode = new,
                          ![t].at = IF sw = "random" /\ last[sw] /\ ~on THEN "unmark" ELSE "write"]
      /\ UNCHANGED <<mode, songVars>>

(* A player without a current song has no playlist to clear the markers of. *)
Unmark(t) ==
  /\ At(t, "unmark")
  /\ LibraryFree(t) /\ AlsaMtxFree
  /\ marked' = IF current = Nil THEN marked ELSE {}
  /\ heard' = IF current = Nil THEN heard ELSE {}
  /\ op' = [op EXCEPT ![t].at = "write"]
  /\ UNCHANGED <<mode, button, holder, current, enqueued, inputs>>

(* The ALSA thread returns to the period that asked for the next song. *)
Write(t) ==
  /\ At(t, "write")
  /\ mode' = op[t].mode
  /\ op' = [op EXCEPT ![t] = Idle]
  /\ current' = IF t = "alsa" THEN op[t].next ELSE current
  /\ UNCHANGED <<button, holder, marked, heard, enqueued, inputs>>

-----------------------------------------------------------------------------
(* selectRandomSongWithNolock(): what may come after s with the modes m.  An
   outcome that goes on is one more round of the disk shuffle. *)

Position(s) == CHOOSE i \in DOMAIN List : List[i] = s
Successor(s) ==
  IF s \in Listed /\ Position(s) < Len(List) THEN List[Position(s) + 1] ELSE Nil

AlbumPositions(s) == {i \in DOMAIN List : AlbumOf[List[i]] = AlbumOf[s]}
FirstOfAlbum(s) ==
  IF AlbumPositions(s) = {} THEN Nil
  ELSE List[CHOOSE i \in AlbumPositions(s) : \A j \in AlbumPositions(s) : i <= j]

(* Fault: the first song of another album is taken in. *)
AlbumRangeBeyond(s) ==
  {List[i] : i \in {j \in DOMAIN List :
                      \E k \in AlbumPositions(s) : k <= j /\ k .. (j - 1) \subseteq AlbumPositions(s)}}
(* findAlbumRange(): the songs up to the first one of another album. *)
AlbumRange(s) ==
  {List[i] : i \in {j \in AlbumPositions(s) :
                      \A k \in AlbumPositions(s) : k <= j => k .. j \subseteq AlbumPositions(s)}}

(* songsToShuffleLeft(). *)
AlbumLeft(s) == {List[i] : i \in AlbumPositions(s)} \ marked

(* Fault: the end of the playlist ends the disk. *)
SequentialEnds(m, s) ==
  LET n == Successor(s)
      stays == n # Nil /\ AlbumOf[n] = AlbumOf[s]
  IN  IF m["disk"]
      THEN IF stays \/ n = Nil THEN n ELSE IF m["repeat"] THEN FirstOfAlbum(s) ELSE Nil
      ELSE IF n = Nil /\ m["repeat"] THEN List[1] ELSE n
Sequential(m, s) ==
  LET n == Successor(s)
      stays == n # Nil /\ AlbumOf[n] = AlbumOf[s]
  IN  IF m["disk"]
      THEN IF stays THEN n ELSE IF m["repeat"] THEN FirstOfAlbum(s) ELSE Nil
      ELSE IF n = Nil /\ m["repeat"] THEN List[1] ELSE n

(* Faults: the song is not marked; a song is marked that was not found. *)
DrawnUnmarked(range, candidates, s, kept) ==
  {[next |-> n, marked |-> kept \cup short, cleared |-> kept # marked, again |-> FALSE] :
     n \in candidates \cup (IF range = candidates THEN {} ELSE {Nil}),
     short \in SUBSET ((range \cap Short) \ {s})}
DrawnUnfound(range, candidates, s, kept) ==
  {[next |-> n, marked |-> kept \cup short \cup {n}, cleared |-> kept # marked, again |-> FALSE] :
     n \in candidates \cup (IF range = candidates THEN {} ELSE {Nil}),
     short \in SUBSET ((range \cap Short) \ {s})}
(* Draws from range until one of the candidates comes up; short songs that come
   up before are marked. *)
Drawn(range, candidates, s, kept) ==
  {[next |-> n, marked |-> kept \cup short \cup ({n} \ {Nil}), cleared |-> kept # marked, again |-> FALSE] :
     n \in candidates \cup (IF range = candidates THEN {} ELSE {Nil}),
     short \in SUBSET ((range \cap Short) \ {s})}

Nothing == [next |-> Nil, marked |-> marked, cleared |-> FALSE, again |-> FALSE]

DiskShuffle(m, s) ==
  LET kept == IF AlbumLeft(s) = {} THEN {} ELSE marked
      range == AlbumRange(s)
  IN  IF range = {} \/ (AlbumLeft(s) = {} /\ ~m["repeat"]) THEN {Nothing}
      ELSE {[o EXCEPT !.again = (o.next = Nil)] :
              o \in Drawn(range, range \ (Short \cup kept \cup {s}), s, kept)}

(* The markers say when every song was chosen, not which one may be. *)
ListShuffle(m, s) ==
  IF Listed \subseteq marked /\ ~m["repeat"] THEN {Nothing}
  ELSE Drawn(Listed, Listed \ (Short \cup {s}), s, IF Listed \subseteq marked THEN {} ELSE marked)

Outcomes(m, s) ==
  IF s = Nil THEN {Nothing}
  ELSE IF ~m["random"] THEN {[Nothing EXCEPT !.next = Sequential(m, s)]}
  ELSE IF m["disk"] THEN DiskShuffle(m, s) ELSE ListShuffle(m, s)

MarkersSet(o, random) ==
  /\ marked' = o.marked
  /\ heard' = (IF o.cleared THEN {} ELSE heard) \cup (IF random THEN {o.next} \ {Nil} ELSE {})

-----------------------------------------------------------------------------
(* onPlayerPlaylistRequest(), in the ALSA thread, under alsaMtx. *)

SongEnds ==
  /\ At("alsa", "idle")
  /\ current # Nil
  /\ op' = [op EXCEPT !["alsa"].at = "mode", !["alsa"].mode = mode, !["alsa"].song = current]
  /\ UNCHANGED <<mode, button, songVars>>

ReadEnqueued ==
  /\ At("alsa", "mode")
  /\ op' = [op EXCEPT !["alsa"].at = "asked", !["alsa"].next = enqueued]
  /\ UNCHANGED <<mode, button, songVars>>

(* The next song is n, and the mode "halt" is reset. *)
Answer(n) ==
  IF op["alsa"].mode["halt"]
  THEN /\ op' = [op EXCEPT !["alsa"] = [Idle EXCEPT !.at = "press", !.next = n]]
       /\ UNCHANGED current
  ELSE /\ op' = [op EXCEPT !["alsa"] = Idle]
       /\ current' = n

AnswerEnqueued ==
  /\ At("alsa", "asked") /\ LibraryFree("alsa")
  /\ op["alsa"].next # Nil
  /\ Answer(op["alsa"].next)
  /\ enqueued' = Nil
  /\ UNCHANGED <<mode, button, holder, marked, heard, inputs>>

AnswerByMode ==
  LET m == op["alsa"].mode
  IN  /\ At("alsa", "asked") /\ LibraryFree("alsa")
      /\ op["alsa"].next = Nil
      /\ IF m["halt"] THEN Answer(Nil) /\ UNCHANGED holder
         ELSE IF m["single"] THEN Answer(op["alsa"].song) /\ UNCHANGED holder
         ELSE /\ op' = [op EXCEPT !["alsa"].at = "select"]
              /\ holder' = "alsa"
              /\ UNCHANGED current
      /\ UNCHANGED <<mode, button, marked, heard, enqueued, inputs>>

AnswerSelected ==
  /\ At("alsa", "select")
  /\ \E o \in Outcomes(op["alsa"].mode, op["alsa"].song) :
       /\ ~o.again
       /\ MarkersSet(o, op["alsa"].mode["random"])
       /\ Answer(o.next)
  /\ holder' = Nil
  /\ UNCHANGED <<mode, button, enqueued, inputs>>

-----------------------------------------------------------------------------
(* The task: a cycle copies mode and song, takes a command, if there is one,
   and plays what was requested as soon as it is buffered. *)

TaskValues ==
  /\ At("task", "idle")
  /\ op' = [op EXCEPT !["task"].at = "taken", !["task"].song = current, !["task"].flag = mode["random"]]
  /\ UNCHANGED <<mode, button, songVars>>

TaskRequests(n, q) ==
  /\ op' = [op EXCEPT !["task"].at = "execute", !["task"].next = n, !["task"].song = Nil]
  /\ enqueued' = q
  /\ UNCHANGED <<mode, button, holder, marked, heard, current>>

TaskCommand ==
  /\ At("task", "taken")
  /\ \/ TaskRequests(op["task"].next, enqueued) /\ UNCHANGED inputs
     \/ "play" \in Requests /\ Input /\ \E s \in Songs : TaskRequests(s, Nil)
     \/ "enqueue" \in Requests /\ Input /\ \E s \in Songs : TaskRequests(Nil, s)

(* prepareRandomSong() marks the current song and selects. *)
RandomCommand ==
  /\ At("task", "taken")
  /\ "random" \in Requests
  /\ op' = [op EXCEPT !["task"].at = "random", !["task"].mode = mode, !["task"].next = Nil]
  /\ Input
  /\ UNCHANGED <<mode, button, holder, marked, heard, current, enqueued>>

MarkSong(s) ==
  /\ marked' = marked \cup ({s} \cap Listed)
  /\ heard' = heard \cup ({s} \cap Listed)

RandomMarks ==
  /\ At("task", "random") /\ LibraryFree("task")
  /\ IF op["task"].mode["random"] THEN MarkSong(op["task"].song) ELSE UNCHANGED <<marked, heard>>
  /\ op' = [op EXCEPT !["task"].at = "select"]
  /\ UNCHANGED <<mode, button, holder, current, enqueued, inputs>>

RandomFound(n) ==
  /\ op' = [op EXCEPT !["task"] = [Idle EXCEPT !.at = "execute", !.next = n, !.flag = op["task"].flag]]
  /\ holder' = Nil
  /\ enqueued' = Nil

(* Without a song the markers are cleared and the selection is done again. *)
RandomSelected ==
  /\ At("task", "select") /\ LibraryFree("task")
  /\ \E o \in Outcomes(op["task"].mode, op["task"].song) :
       /\ ~o.again
       /\ IF o.next # Nil
          THEN MarkersSet(o, op["task"].mode["random"]) /\ RandomFound(o.next)
          ELSE /\ marked' = {} /\ heard' = {}
               /\ holder' = "task"
               /\ op' = [op EXCEPT !["task"].at = "reselect"]
               /\ UNCHANGED enqueued
  /\ UNCHANGED <<mode, button, current, inputs>>

RandomReselected ==
  /\ At("task", "reselect")
  /\ \E o \in Outcomes(op["task"].mode, op["task"].song) :
       ~o.again /\ MarkersSet(o, op["task"].mode["random"]) /\ RandomFound(o.next)
  /\ UNCHANGED <<mode, button, current, inputs>>

(* The search of the disk shuffle found nothing and goes on. *)
SelectAgain(t) ==
  /\ op[t].at \in {"select", "reselect"} /\ LibraryFree(t)
  /\ \E o \in Outcomes(op[t].mode, op[t].song) : o.again /\ MarkersSet(o, TRUE)
  /\ holder' = t
  /\ UNCHANGED <<mode, button, op, current, enqueued, inputs>>

TaskWaits ==
  /\ At("task", "execute")
  /\ op' = [op EXCEPT !["task"] = [Idle EXCEPT !.next = op["task"].next]]
  /\ UNCHANGED <<mode, button, songVars>>

(* play(): the song is marked when the mode was "random" in this cycle. *)
TaskPlays ==
  /\ At("task", "execute") /\ AlsaMtxFree
  /\ op["task"].next # Nil
  /\ current' = op["task"].next
  /\ op' = [op EXCEPT !["task"] =
              IF op["task"].flag THEN [Idle EXCEPT !.at = "mark", !.song = op["task"].next] ELSE Idle]
  /\ UNCHANGED <<mode, button, holder, marked, heard, enqueued, inputs>>

TaskMarks ==
  /\ At("task", "mark") /\ LibraryFree("task")
  /\ MarkSong(op["task"].song)
  /\ op' = [op EXCEPT !["task"] = Idle]
  /\ UNCHANGED <<mode, button, holder, current, enqueued, inputs>>

-----------------------------------------------------------------------------

Switching(t) == Toggle(t) \/ Unmark(t) \/ Write(t)
Asking == ReadEnqueued \/ AnswerEnqueued \/ AnswerByMode \/ AnswerSelected
Commanding ==
  \/ TaskValues \/ TaskCommand \/ RandomCommand \/ RandomMarks \/ RandomSelected \/ RandomReselected
  \/ TaskWaits \/ TaskPlays \/ TaskMarks

Next ==
  \/ \E t \in Pressers, sw \in Offered : UserPress(t, sw)
  \/ HaltPress
  \/ \E t \in Threads : Switching(t)
  \/ SongEnds \/ Asking \/ Commanding
  \/ \E t \in {"alsa", "task"} : SelectAgain(t)

Safety == Init /\ [][Next]_vars

(* A thread that may go on goes on; a random draw comes upon every song that
   may be chosen in the end. *)
Spec ==
  /\ Safety
  /\ \A t \in Threads : WF_vars(Switching(t))
  /\ WF_vars(HaltPress)
  /\ WF_vars(Asking) /\ SF_vars(AnswerSelected)
  /\ WF_vars(Commanding) /\ SF_vars(RandomSelected \/ RandomReselected)

-----------------------------------------------------------------------------
(* Properties. *)

(* Every variable has its type. *)
TypeOK ==
  /\ mode \in Modes /\ button \in Modes
  /\ op \in [Threads -> Ops]
  /\ holder \in {"alsa", "task", Nil}
  /\ marked \subseteq Listed /\ heard \subseteq Listed
  /\ current \in Songs \cup {Nil} /\ enqueued \in Songs \cup {Nil}
  /\ inputs \in 0 .. MaxInputs

(* Single mode excludes every other mode, though a thread writes modes it read
   before another thread wrote its own. *)
ModeExclusive == mode["single"] => \A sw \in Switches \ {"single"} : ~mode[sw]

(* A selection of thread t is over; what it gave. *)
Selecting(place) == place \in {"select", "reselect"}
Selects(t) == Selecting(op[t].at) /\ ~Selecting(op'[t].at)
Chosen(t) == IF t = "alsa" THEN current' ELSE op'["task"].next

(* In disk mode nothing but the album of the last song is played. *)
DiskStaysOnAlbum ==
  [][\A t \in {"alsa", "task"} :
       Selects(t) /\ op[t].mode["disk"] /\ Chosen(t) # Nil => AlbumOf[Chosen(t)] = AlbumOf[op[t].song]]_vars

(* Disk shuffle repeats a song only after each one of its album that is long
   enough was heard. *)
RoundBeforeRepeat ==
  [][\A t \in {"alsa", "task"} :
       Selects(t) /\ op[t].mode["disk"] /\ op[t].mode["random"] /\ Chosen(t) \in heard =>
         \A s \in Listed \ Short : AlbumOf[s] = AlbumOf[Chosen(t)] => s \in heard]_vars

(* Repeating a disk or the playlist in its order never stops the player. *)
RepeatGoesOn ==
  [][Selects("alsa") /\ op["alsa"].mode["repeat"] /\ op["alsa"].song \in Listed =>
       Chosen("alsa") # Nil \/ (op["alsa"].mode["random"] /\ ~op["alsa"].mode["disk"])]_vars

(* "Last song of album was played": the search for a song ends. *)
SelectionEnds == At("alsa", "select") ~> ~At("alsa", "select")

=============================================================================
