# RMP, the playback core in TLA+

RMP (Reference Music Player) plays a music library on an ALSA device without gaps, and is
operated through web pages, sockets and remote controls. This directory holds a model of the
part that decides whether the music plays, and which: the pool of decoded samples, the ALSA
player, the task that serves commands, the playlists and their garbage, the selection of the
next song, and the locks between them. TLC checks it on small instances, TLAPS proves the
invariants that everything else rests on for all of them.

Source paths below are relative to `src/src/`.

## 1. The system

| Part | Source | State | Operations |
|---|---|---|---|
| Buffer pool | `inc/audiobuffer.cpp` | buffers with status, key, track and read and write counters; allocated bytes; the highest key; counters of the songs | allocate, release (all, by song, by index, garbage), change status, read, write, search |
| ALSA player | `inc/alsa.cpp` | handle, hardware format, player state and saved state, current and last song, `invalidated` | `play`, `stop`, `toggle`, `close`, one period of the ALSA thread |
| Player task | `app/player.cpp` | mirror of the player's state, snapshot of the cycle, requested song, decoder's state machine | one cycle: copy the mirror, take a command, prepare, execute, terminate it, decode, close an idle device |
| Command queue | `app/control.cpp` | commands; the one in work stays at the head | `add`, `next`, `terminate` |
| Library and playlists | `app/library.cpp` | songs, albums, playlists, their tracks and garbage | scan, rebuild, delete; add, remove and collect tracks |
| Song selection | `app/player.cpp` | modes, random markers | next, random, repeat, disk, halt |
| Internet radio | `app/player.cpp`, `app/streamlist.cpp`, `inc/inetstream.cpp` | stations, current and next stream | start, restart, stop, streaming thread |
| Web server and its clients | `inc/webserver.cpp`, `inc/websockets.cpp`, ... | sessions, tokens | requests become commands |
| Base library | `inc/*.cpp` | threads, timers, locks, files, codecs | |

`PROJECT.json` lists every part with what is modelled of it and why the others are not.

How they interact:

- Four kinds of threads: the ALSA thread (one call of `alsaThreadMethod` per period), the task
  (`TPlayer::upcall`, one cycle after the other), the threads of web server, sockets and
  streamer, and the thread that scans the library.
- `alsaMtx` protects the ALSA player and its pool, `eventMtx` the delivery of events,
  `libraryLck` (readers and writers) the library and its playlists. `rescanMtx` is only tried:
  a cycle of the task that does not get it skips commands and decoding.
- The decoder writes samples into its buffer **without** `alsaMtx`; everything else it does
  with the pool is under it.
- The ALSA player tells the task of a new state by a callback. A method copies the state under
  `alsaMtx` and reports it later, under `eventMtx`; only `reset()` and `setErrorState()` report
  at once. The task works with what it was told last.
- When the player waits for samples or for the device to be reopened, that callback queues a
  command that makes playback go on: the ALSA thread steers itself through the user's queue.

What is hard about it: the state a thread decides with is the copy of another thread's state;
reports overtake each other; songs change while commands are on their way; the pool is at its
limit most of the time, so that room for the next song is made by releasing others; and three
locks are nested in callbacks.

What makes the parts correct:

- pool: its books are right whatever is released when; a buffer in use is given to nobody else;
  samples are read in the order they were written, and not before;
- ALSA player: samples are only written to a device opened with their song's format; a song
  is given up when the device goes; each change is reported; silence stays with its song;
- task: a request is served, a player that waits goes on, a stop stays a stop, housekeeping
  spares what is being played;
- playlists: a track is in one place, and is freed when nothing points to it any more, once;
- song selection: modes that exclude each other are never on together, the disk mode stays on
  its disk, the shuffle gives every song before it repeats one, a repeated list does not end;
- locks: no threads wait for each other, and each operation ends.

## 2. The modules

| Module | Models | Depends on |
|---|---|---|
| `AudioBufferList` | the pool as operators on one record | community modules |
| `AudioBufferPool` | the pool and all threads that use it | `AudioBufferList` |
| `SongTape` | what a listener hears of the pool: abstract | |
| `AudioBufferTape` | the refinement of `SongTape` by the pool | `AudioBufferPool`, `SongTape` |
| `AlsaPlayer` | `TAlsaPlayer`'s device side as operators on one record | |
| `AlsaDevice` | `TAlsaPlayer`'s methods, periods and events | `AlsaPlayer` |
| `PlayerTask` | the task loop, queue and callbacks around the ALSA player | `AlsaDevice` |
| `Playlist` | the heap of tracks and the methods of `TPlaylist` as operators on one record | community modules |
| `Playlists` | the playlists with everything that holds their tracks | `Playlist` |
| `SongSelection` | modes, markers and the choice of the next song | |
| `Seeking` | fast forward, rewind and jumps, their commands, and waiting for samples | `AudioBufferPool` |
| `LockOrder` | which thread holds which lock where | |
| `*Proofs` | theorems about the module of that name | TLAPS |
| `MC*` | instances for TLC | |

**AudioBufferList, AudioBufferPool.** A pool is a record: the buffers (`status`, `key`, `track`,
`alloc`, `read`, `written`), the allocated bytes, the last key and the songs' own flags and
counters. Samples are counted in chunks (what one `update()` of a decoder delivers); a buffer
holds `BufferSize` of them. Each operator is one method of `TAudioBufferList`. In
`AudioBufferPool` an action is one critical section of `alsaMtx`; a call of `executeBufferTask`
is cut where it leaves the mutex, and a period of `writePeriodData` in two, because the
decoder's write may come between choosing a buffer and reading it. What a song has read stands
for a `size_t`; it is an integer here, so that a subtraction below zero shows. The decoder's stages are the
states 0, 200, 300 and 400 of `executeBufferTask` and the points in between.

**SongTape, AudioBufferTape.** To a listener there are no buffers: a song is a tape that the
decoder extends or wipes, and the player hears its chunks from the first one on, forward, none
twice. `AudioBufferPool` implements this: the tape of a song is what its buffers hold in the
order of their keys, and the chunks heard are those the read counters say. The mapping counts
earlier buffers as full and takes the song's own counter for the length, which
`OneDecodingPerSong` and `StatisticsMatchBuffers`, checked in the same run, justify. A sum over
buffers is written as the number of their units (`Units`), so that the prover's lemmas on
cardinality reach it. The
abstract player may pass over a chunk and may end a song early, because the code does both
(section 3): what it promises is order, beginning and no repetition, through allocation,
draining, release, re-decoding, skips and stops.

**Playlist, Playlists.** The record `q` is the heap: the tracks made so far (identified by the
order they were made in, never reused), the file of each, which are freed, their `deleted`,
`removed` and `deferred` flags (a freed track's flags are forgotten), and for each playlist its list, its
map by file and its garbage. Each operator is a method of `TPlaylist`; those the code calls for
one playlist after the other take the set of them. `Only` is what a loop of `erase` leaves of a
list. In `Playlists` an action
is one critical section of `libraryLck`: users add, delete and reorder, create and drop
playlists; the decoder decodes, fails, does its housekeeping and collects garbage; the library
thread rescans, or rebuilds in three steps. The buffers of one song are one here, since they
hold the same track and are released together. Which songs the garbage collection spares comes
from a snapshot taken before the lock: it is arbitrary. Orders sent by a web page are taken from
contiguous ranges. `AddTwice = FALSE` leaves out `addArtist()` for an artist with albums in the
playlist: with it tracks are in the list twice and freed twice (section 3).

**SongSelection.** A thread that switches a mode copies the modes, toggles a button under
`componentMtx`, derives the new modes from the copy, and writes them back: four steps, between
which others do theirs. The ALSA thread's request for the next song copies the modes, reads the
queued song, takes `libraryLck`, selects, and switches halt off. The task copies the modes at
the start of its cycle, may be asked for a random song, plays what was requested when it is
buffered, and sets its marker. `Outcomes` is `selectRandomSongWithNolock()`: an outcome with
`again` is one more round of the search of the disk shuffle, during which the thread keeps the
lock. `heard` is not in the code: it is what was played or drawn since the markers were
cleared, which the markers (`TTrack::isRandomized`) stand for. Actions that need two locks take both at
once; their order is `LockOrder`'s subject.

**Seeking.** `DoSeek`, `FastForward` and `FastRewind` are the functions of those names, from a pool
and the buffer that is read to both of them afterwards (`doSeek` changes its reference
argument); `done` is their result. A chunk stands for the frames that skips are aligned to, so
all counters are whole chunks. `PeriodJumps` is `PeriodBegin` of the pool with a command: the
buffer is chosen and marked as playing, the jump is made, and what is left to read is looked up
in the buffer the jump leads to. The queue is filled by other threads that look at the state
without its lock. All other actions of `AudioBufferPool` go on around the jumps; WAIT, which the
pool leaves out, is a variable here, since a period that finds no buffer ends playback until
`play()`. Percentages become per mille (`At`), since the two fallbacks are at 99.9 and 0.1 %.

**AlsaPlayer, AlsaDevice.** The player is a record (`open`, `running`, `format`, `name`, `state`,
`saved`, `current`, `last`, `invalidated`). `Leave` is the end of a method, where the state is
copied for the report, `Deliver` the report; `LeaveTold` is a method that reports from within.
`AlsaDevice` leaves open what a period finds in the pool, and any command may come at any time:
it is the abstract specification of what the ALSA player promises to whatever program uses it.

**PlayerTask.** The phases of a cycle are actions of their own, because the ALSA thread, its
callbacks and users act between them. `hardware` is the snapshot of the mirror, `software` the
request in work; a command is taken from the queue's head when the cycle begins and removed
when it ends. The pool is the set of songs in it: a song is decoded in one cycle and takes the
room of one. `Housekept` has the steps in which room is made, with the unsigned difference of
`ECT_RANGE`. `PlayerTask` implements `AlsaDevice`; the refinement mapping is the identity on
the ALSA player's variables.

**LockOrder.** An operation is the sequence of the sets of locks held, one for each guard
entered or left; a conditional section may be passed over. A thread decides for its next place
before it waits, so that waiting is visible. `Ordered` has the operations that lock player,
events and library in this order, `Inverted` the three that do not.

Definitions marked `Fault` are what a plausible mistake would make of the definition that
follows them. They are used nowhere; put in its place, each breaks the property `PROJECT.json`
names for it.

## 3. What TLC checks

| Run | Instance | Shows |
|---|---|---|
| `pool` | 3 buffers of 2 chunks, 2 songs, 3 entries in 2 playlists, 4 allocations, buffers symmetric | books, keys and ownership of buffers under every interleaving of decoder, ALSA thread, task and library; the pool implements `SongTape` |
| `device` | 3 songs in 2 formats, 2 output devices, failures | what the ALSA player promises, in `AlsaDevice` |
| `task` | 3 songs, room for 2, 2 user commands, failures, callbacks delayed | the refinement, and that nothing but a restart command undoes a stop |
| `task_progress` | the same, no failures, callbacks prompt | a request is served; a device that plays is not closed as inactive |
| `playlists` | 2 playlists, one of them limited to an album, 2 songs of an album each, 3 tracks, 2 buffers | no list, buffer or decoder keeps a freed track, none is freed twice, list and map agree, garbage is what was marked |
| `selection` | 2 albums of 3 and 1 songs, one of them too short to be drawn, 4 switches or requests of a user | modes stay exclusive, disk mode on the disk, rounds complete, repetition endless |
| `seeking` | 2 buffers of 4 chunks, 2 songs, skips of 2 and 3 chunks, one jump to a position, 2 allocations, one command waiting | jumps land where they should, never beyond what was written; progress and order of the song survive them |
| `locks` | ALSA thread, task, web thread | no deadlock among ordered operations; each operation ends |

The bounds. Three buffers are the least with which a song spans two while another one waits;
two chunks the least with a part-written and a part-read buffer; one song in two playlists is
what index and hash of housekeeping are confused by; four allocations let each buffer be used
again. Songs need two formats for a reopen and two of one format for a gapless change. A pool
with room for two songs of a playlist of three is always at its limit; the third song is far
enough for each step of housekeeping to matter. Two user commands are a command and the one it
races with, with any number of the ALSA thread's own ones. Three tracks for two songs
in two playlists let a track be removed while another one plays, and be made again while the
old one waits for its buffer; a limit of one album makes the list drop its oldest. The file
of one song may vanish, at any time; the other one goes with the whole library. An album of three songs with a short one has a round that is longer than a
draw; the album after it gives the disk an end inside the playlist; four inputs are two
switches, to make a mode and lose it, and two commands they race with. Two buffers of four chunks have a jump inside a buffer, from
either into the other, to their border and beyond the song, and a neighbour of another song; three
buffers of three chunks, which let a song go on behind a buffer that is passed over, take TLC
longer (all properties of `seeking` hold there too). One thread per kind is
enough for a cycle of two locks; proofs cover any number.

Four runs show what the code does against its own words. Each is a finding in `PROJECT.json`:

| Run | The code says | What happens |
|---|---|---|
| `task_stop` | "Stop (drain) playback" | a restart queued during the stop makes the player play again |
| `locks_deadlock` | "Separate library locking from player locking!" | garbage collection, the deletion of a playlist and the end of random mode lock the library before the player |
| `playlists_deferral` | "Release deferred delete markers for deleted tracks" | `release()` takes flags from other tracks: a deferred track is never freed |
| `selection_hang` | "Last song of album ... was played" | the disk shuffle searches for ever with both locks held when the only song left to draw is the one that ends |

Found the same way with TLC on these modules, and kept here without a run of their own:

- Playback that catches up with the decoder takes the end of the decoded samples for the end of
  the song and drops the rest: "All bytes written, get next song from playlist"
  (`inc/alsa.cpp:3300`).
- `play()` on a handle that was never started, or dropped, reports PLAY and no period is
  requested: "ALSA seems to play stream..." (`inc/alsa.cpp:1008`).
- A song shorter than the first period hands over to one in another format, and `play()`
  overwrites REOPEN: "Device must be reopened for new song" (`inc/alsa.cpp:3323`).
- The restart command of a waiting player is dropped as a duplicate of the one in work:
  "Don't add duplicates..." (`app/control.cpp:105`); the player waits for ever.
- Housekeeping spares the song of an old snapshot and releases the one being played:
  "Do NOT delete buffers for current song!" (`inc/audiobuffer.cpp:687`).
- A draining buffer that a late chunk was written to is never found again
  (`inc/alsa.cpp:3195`); a buffer without samples may be chosen, which "should never happen for
  songs" (`inc/alsa.cpp:3236`).
- The mirror may keep an old report for good (`inc/alsa.cpp:3735`); a device dropped after a
  failed write is not reported (`inc/alsa.cpp:856`), so `ChangesAreTold` excepts it by name.
- A restart command pauses the song when a user has restarted it already
  (`app/player.cpp:2944`).
- `addArtist()` adds albums that are in the playlist already (`app/player.cpp:9252`): their
  tracks are listed twice; a reordering (`app/library.cpp:4112`) with a table older than the
  list does the same. A track listed twice is freed twice.
- `release()` (`app/library.cpp:3573`) counts by the garbage and indexes the tracks: with more
  garbage than tracks it reads beyond the list, and for a dropped playlist it writes to freed
  tracks. A dropped playlist whose list was not emptied is never freed.
- An emptied playlist is not saved (`app/library.cpp:3590`): after a rebuild it has its old
  songs again.
- A jump back marks the buffer that is still filled as loaded (`inc/alsa.cpp:2709`, "Mark following
  buffers as playable"): playback that reaches it before its first chunk takes the song for
  ended, and leaves it marked as played. When the song repeats, `cleanup()` passes over a buffer
  that nothing was written to; it is filled then and never heard, the progress lags behind by
  a buffer, and a rewind takes the unsigned counter of the song below zero (`inc/alsa.cpp:2872`,
  "Remove skipped content to read data for song"): `RewoundWasRead` does not hold for one song on
  three buffers of three chunks.
- A jump into the buffer that is still filled does not mark it as playing (`inc/alsa.cpp:2703`,
  "Mark current buffer as playing"), because `operate()` refuses a buffer that is not buffered
  yet: after one period the player waits, and the restart plays the song from its beginning.
- A rewind that ends at the first byte of a buffer, or starts from it, goes to the beginning of
  the song, and a fast forward that ends between two buffers to its end (`inc/alsa.cpp:2834`, `2751`).
- A command to seek that is queued between the task's clearing and `play()`, or before `stop()`,
  is carried out on the next song: "Clear command queue for next song" (`inc/alsa.cpp:3364`).
- The ALSA thread switches halt off by a toggle after it copied the modes: "Reset stop mode"
  (`app/player.cpp:3538`). A user who was faster finds it switched on again.
- Two switches at once lose one of the modes, and buttons then differ from modes: switching
  disk on leaves the button of halt pressed while the mode is off (`app/player.cpp:7944`). The
  comments "Disk mode excludes single and repeat mode" (7942) and "Repeat mode excludes disk and
  single mode" (7950) do not hold: both may be on, which then repeats the disk.
- The shuffle of a playlist does not look at the markers when it draws, and may give up with
  no song although repeat is on (`app/player.cpp:3724`), which `RepeatGoesOn` therefore excepts; random mode that is switched off while
  the player is stopped, or by the single mode, leaves its markers behind.

**Fairness.** `TaskSpec` assumes strong fairness of the cycle, since the task competes for
`alsaMtx` with the ALSA thread and both leave it after each critical section; weak fairness of
the ALSA thread's period while the device runs (the hardware asks for it) and of the callbacks.
It does not assume that songs end or that users act. `Spec` of `LockOrder` assumes that a thread
gets a lock that is free again and again. `Spec` of `SongSelection` assumes that a thread that can go on does, and that a
random draw comes upon each song it may give in the end (strong fairness of the selections);
`selection_hang` is a counterexample under all of that. `LockOrder` does not assume that writers get `libraryLck`:
`PTHREAD_RWLOCK_PREFER_READER_NP` lets overlapping readers keep them out, so `OperationsEnd` is
claimed for behaviours in which readers leave gaps. `pool`, `device`, `task`, `playlists`,
`selection` and `seeking` are safety only.

**PromptEvents.** `task_progress` assumes that no thread enters `alsaMtx` while a callback is
outstanding. Without it both properties fail: a mirror that keeps an old report makes `toggle`
fail in each cycle, and closes a device that plays. `RequestsAreServed` also fails with room for
one song: housekeeping keeps a song and its neighbour, so the requested one never fits.

## 4. What is proved

For all buffers, songs, playlists, devices and threads, from the named assumptions on the
constants and nothing else:

- `AudioBufferPoolProofs`, the books: `PoolTypeCorrect`, `PoolAccounting`,
  `PoolEmptyIsPristine`, `PoolKeysIdentify`. None is inductive alone: the books need that a
  released buffer was allocated, that a key was used once and that the decoder's and reader's
  buffers are in use. `PoolInv` is the type invariant, `Sound(pool)` (books, keys, pristine empty
  buffers) and those two facts. Each operator of the pool has a lemma that it keeps `Sound`; a
  step then follows from its operator's lemma. Allocated bytes are the buffer size times the
  number of buffers marked as allocated, so the library's lemmas on cardinality suffice.
  `KeysIdentify` is what the search for a song's next buffer rests on.
- The same module, the counters: `PoolReaderBehindWriter`. `CounterInv` adds to the property what
  a thread checked before it let the others run: the decoder that there is room for a chunk, the
  ALSA thread that there is one to read. All operators but two only keep counters or set them
  back (`Calm`), so both checks still hold when they are used.
- The same module, the order: `PoolOneDecodingPerSong`, `PoolDecoderOwnsBuffer`,
  `PoolBufferedFromStart`. `DecodeInv` adds what the decoder finds again after each wait
  (`DecoderView`): its buffer has the largest key; behind the first buffer of its song lies
  nothing of another; when it goes on in a new buffer all earlier ones are full and none is
  marked as the last. And the buffers it has left behind are playable. The operators fall into
  those that leave the order alone (`Same`: all of the player's), those that release (`Gone`: a
  release by track takes all buffers of a song or none, because they have one track), `Allocate`,
  and changes of the buffer with the largest key.
- `AudioBufferTapeProofs`: `PoolStatisticsMatch`, by `BalanceInv`: the counters of a song with
  buffers are the sums over them, each such buffer is found by `cleanup()`, and the buffer being
  read is one of the current song, so that what is read is counted for the song it is of. On it
  rests `PoolImplementsTape`, the refinement of `SongTape` step by step. `WalkInv` says how playback
  goes through the buffers: one is entered when all earlier ones have been left (`Left`), and left
  when something of it was heard, if there was anything (`Drained`); the buffer that the period
  under way has chosen is the exception. So what is read next lies behind all that was heard.
  Steps of the decoder and the collectors are shown to leave each buffer unused, fresh or as it
  was for the player (`Quiet`).
- `AlsaDeviceProofs`: `DeviceTypeCorrect`, `DeviceSongNeedsDevice`, `DeviceStateNeedsDevice`,
  `DeviceWaitingHasSong`, and `DeviceFormatMatches` under `ShortSongs = {}`, without which
  it does not hold (section 3). The invariant (`Consistent`, `Fitting`) relates the saved
  state to the song and, beyond what `FormatMatches` says, the format to the *last* song in each
  open state, because a stop gives the current song up and `play()` compares with the last one.
  `DeviceChangesAreTold` and `DeviceSongsChangeWhilePlaying` follow from the same invariant:
  whatever changes state or song leaves the news with a thread that will deliver it, or with the
  task, and a player that does not play gets another song from `play()` only.
- `PlayerTaskProofs`: `TaskTypeCorrect` (with the pool's limit and the queue's head),
  `TaskImplementsDevice` (`TaskSafety => Spec` of `AlsaDevice`: initial states are initial
  states; each action of the task, of callbacks and of the ALSA thread is a step of the device
  or leaves it alone), `TaskWaitingHasSong` (a theorem of the device that holds in the program
  by that refinement), and `TaskStopsForGood` (`OnlyRestartsUndoStop`: in a silent state only
  `play()` and the toggle lead to PLAY, and of these only a restart leaves `halted` set).
- `PlaylistsProofs`: `PlaylistsTypeCorrect`, `HeldTracksStayLive`, `ListedTracksStayLive`,
  `TracksKeepOnePlace`, `MarksMeanGarbage` and `FilesFindTracks`, for any songs, albums, playlists
  and buffers, under `AddTwice = FALSE`, without which they do not hold (section 3). `PlaylistsInv` is
  `ListsInv` (the heap is sound: lists in use agree with their maps, garbage is what is marked,
  playlists are disjoint) and `HoldersInv` (a held track is live unless its holder was told to
  forget it). Each method has a lemma on the heap. `Only`, which goes through a list element by
  element, is a recursive function; `SetInduction`, which has a set where the library's theorem
  has a predicate, gives what it returns.
- `SeekingProofs`: `SeekTypeCorrect`, `SeekKeepsPool`, `SeekJumpsKeepOrder` and
  `SeekJumpsKeepProgress`. `SeekInv` is the whole invariant of the pool with the queue: a jump
  moves readers and states in the buffers of its song and nothing else (`Moves`), so books, keys,
  order and decoder are not touched, and all that is proved in `AudioBufferPoolProofs` of the pool
  holds with jumps (`SeekKeepsPool`). Each jump is shown to have `Landed`: readers are not ahead
  of writers, an ordered song stays ordered around its new place, and progress moves with the
  place. `BeginNext` is the step into a neighbour, `ReachingBegins` what the search for a buffer by
  position finds. The theorem on progress says that each jump keeps progress and music together,
  not that they always are: that fails (`RewoundWasRead`, section 3).
- `SongSelectionProofs`: `SelectionTypeCorrect`, `ModesExclude`, `DiskStays`,
  `RoundsAreComplete` and `RepeatEndsNever`, for any playlist, albums, set of threads and number
  of inputs. `ModeExclusive` is not inductive: a thread may write modes it copied long ago, so
  `SelectionInv` says of every copy a thread carries what it says of the modes. `Round` ties the
  markers to what was heard (everything heard is marked, everything marked is heard or short),
  and `SearchingOn` that a search only runs with halt off, without which the answer would not be
  what was selected. `OutcomesFit` states what a selection gives, from lemmas on each kind of
  it; that an album has a first song and its range is not empty rests on the well-founded order
  of the naturals. The theorems say nothing of whether the search ends: it need not.
- `LockOrderProofs`: `LockTypeCorrect` and `OrderedIsDeadlockFree`: any number of threads that
  run ordered operations never wait for each other. Each walk is shown to take locks in the
  order of `Rank`; a lock that is waited for then comes after all the locks held, so a chain of
  waiting threads climbs, and there are four steps.

Only model-checked: `JumpsLand`, which needs that the songs' counters are the sums over their
buffers *with* jumps as well, that no buffer of a stream that drains is in the way, and that a
buffer that was played to its end is marked so; and all liveness (`RequestsAreServed`,
`PlayingIsActivity`, `OperationsEnd`), which this prover does not cover. Nor does it cover
induction over data with a predicate as a parameter: what the folds in the models compute is
proved where a set can take the predicate's place, or where a bound on it is all that is needed.

## 5. What is not modelled

Internet streams and with them the state HALT; trial and direct mode; delays by the
clock (decoder timeout, reopen delay, inactivity is "some time later"); the conversion of
samples; the remote devices. `forceReopen` is left out because nothing sets it, `reset(state)`
of the pool and `halt()`, `resume()` and `restart()` of the player because nothing calls them.
In `PlayerTask` a song is decoded in one cycle: the pool's own behaviour is
`AudioBufferPool`'s. `AudioBufferPool` does not know which song the task wants: any may be
decoded. `SongSelection` has one playlist that does not change; its changes are in `Playlists`,
which in turn knows songs by name and does not follow pointers to freed songs: a rescan frees
songs that the player may still name (`app/library.cpp:1004`). `LockOrder` leaves out mutexes
nothing is waited for under, and time: a scan that holds the library for minutes is a step like
any other.

The repository is mostly vendored or generated code (SQLite, microhttpd, curl's headers, FAAD,
their tables): nothing of it is modelled, so the models cover a small share of all lines. The
rest of the base library and of the web pages is sequential input and output; `PROJECT.json`
names each part with the reason.

## 6. Plan

1. Done: pool, ALSA player, task with refinement, locks, playlists and their garbage, song
   selection, seeking, the tape refinement, and the theorems of section 4.
2. `InetStream`: the streaming thread, its buffers and start, stop and next under `streamMtx`,
   with the reset of all buffers that does not tell the decoder (`app/player.cpp:10968`).
3. Proofs: `JumpsLand`, and the tape of a song under jumps.
