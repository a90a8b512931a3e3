------------------------------- MODULE Seeking -------------------------------
(***************************************************************************)
(* Fast forward, rewind and jumps to a position (TAlsaPlayer::doSeek,      *)
(* doFastForward, doFastRewind) on the pool of AudioBufferPool, with the   *)
(* queue the commands wait in and the state WAIT.                          *)
(*                                                                         *)
(* Chunks stand for the frames that skips are aligned to: every counter is *)
(* a whole number of them.  The ALSA thread takes a command in the middle  *)
(* of a period, between the choice of a buffer and its reading, so that a  *)
(* jump changes the buffer that is read.                                   *)
(***************************************************************************)
EXTENDS AudioBufferPool, Sequences

CONSTANTS
  SampleSize,  \* TSong::getSampleSize, what the file says it will decode to
  Skip,        \* getSkipBytes(song, getSkipFrame(song))
  Positions,   \* the places users may ask for, in per mille of a song
  MaxCommands  \* bound on the length of the queue

ASSUME SeekAssumption ==
  /\ SampleSize \in [Songs -> Nat]
  /\ Skip \in [Songs -> Nat \ {0}]
  /\ Positions \subseteq 1 .. 999
  /\ MaxCommands \in Nat \ {0}

VARIABLES
  waiting,  \* TAlsaPlayer::m_state is EPS_WAIT
  queue     \* TAlsaPlayer::queue

seekVars == <<vars, waiting, queue>>

Commands ==
  {[command |-> "EPP_FORWARD"], [command |-> "EPP_REWIND"]}
    \cup [command : {"EPP_POSITION"}, value : Positions]

SeekInit ==
  /\ Init
  /\ waiting = FALSE
  /\ queue = <<>>

-----------------------------------------------------------------------------
(* The buffers next to one in the list, if they can be played. *)

Jumpable(p, b, s) == b \in BuffersOf(p, s) /\ p.buf[b].status \in {EBS_LOADED, EBS_PLAYED}

OneOf(found) == IF found = {} THEN Nil ELSE CHOOSE c \in found : TRUE

ForwardBuffer(p, b, s) ==
  LET ahead == {c \in Buffers : p.buf[c].key > p.buf[b].key}
  IN  OneOf({c \in ahead : Jumpable(p, c, s)
                             /\ \A d \in ahead : p.buf[d].key >= p.buf[c].key})
RewindBuffer(p, b, s) ==
  LET behind == {c \in Buffers : p.buf[c].key < p.buf[b].key}
  IN  OneOf({c \in behind : Jumpable(p, c, s)
                              /\ \A d \in behind : p.buf[d].key <= p.buf[c].key})

(* operate(buffer, EBS_PLAYING, true): not for a buffer that is still filled. *)
ForcedPlaying(status) == IF status >= EBS_BUFFERED THEN EBS_PLAYING ELSE status

(* What the seek functions return: buffer is the one to go on with. *)
Done(p, b) == [pool |-> p, buffer |-> b, done |-> TRUE]
Failed(p, b) == [pool |-> p, buffer |-> b, done |-> FALSE]

At(s, position) == (position * SampleSize[s]) \div 1000

(* Fault: the buffers after the one sought for keep their status. *)
SoughtForwardOnly(r, key, offset) ==
  CASE r.key < key -> [r EXCEPT !.read = 0, !.status = EBS_PLAYED]
    [] r.key = key -> [r EXCEPT !.read = offset, !.status = ForcedPlaying(r.status)]
    [] OTHER -> [r EXCEPT !.read = 0]

(* A buffer of the song after a jump to the offset in the one with that key. *)
Sought(r, key, offset) ==
  CASE r.key < key -> [r EXCEPT !.read = 0, !.status = EBS_PLAYED]
    [] r.key = key -> [r EXCEPT !.read = offset, !.status = ForcedPlaying(r.status)]
    [] OTHER -> [r EXCEPT !.read = 0, !.status = EBS_LOADED]

DoSeek(p, b, s, position) ==
  LET parts == BuffersOf(p, s)
      target == At(s, position)
      End(c) == Sum({d \in parts : p.buf[d].key <= p.buf[c].key}, LAMBDA d : p.buf[d].written)
      reaching == {c \in parts : End(c) > target}
      next == First(p, reaching)
      offset == target - (End(next) - p.buf[next].written)
  IN  IF ~p.song[s].buffered \/ target >= SampleSize[s] \/ reaching = {} THEN Failed(p, b)
      ELSE Done([p EXCEPT !.buf = [c \in Buffers |->
                                     IF c \in parts THEN Sought(p.buf[c], p.buf[next].key, offset) ELSE p.buf[c]],
                          !.song[s].read = target],
                next)

(* doFastForward: in the buffer, into the next one, or to the end. *)
ForwardInPlace(p, b, s) ==
  Done([p EXCEPT !.buf[b].read = @ + Skip[s], !.song[s].read = @ + Skip[s]], b)

(* Faults: the rest of the buffer is not counted; the skip is one too far. *)
ForwardIntoUncounted(p, b, c, s, over) ==
  Done([p EXCEPT !.buf[b].status = EBS_PLAYED,
                 !.buf[c].status = ForcedPlaying(@),
                 !.buf[c].read = over,
                 !.song[s].read = @ + over], c)
ForwardIntoBeyond(p, b, c, s, over) ==
  LET rest == p.buf[b].written - p.buf[b].read
  IN  Done([p EXCEPT !.buf[b].status = EBS_PLAYED,
                     !.buf[c].status = ForcedPlaying(@),
                     !.buf[c].read = over + 1,
                     !.song[s].read = @ + rest + over + 1], c)

ForwardInto(p, b, c, s, over) ==
  LET rest == p.buf[b].written - p.buf[b].read
  IN  Done([p EXCEPT !.buf[b].status = EBS_PLAYED,
                     !.buf[c].status = ForcedPlaying(@),
                     !.buf[c].read = over,
                     !.song[s].read = @ + rest + over], c)

FastForward(p, b, s) ==
  LET rest == Monus(p.buf[b].written, p.buf[b].read)
      over == IF rest > 0 THEN Monus(Skip[s], rest) ELSE 0
      next == ForwardBuffer(p, b, s)
  IN  IF p.buf[b].read + Skip[s] < p.buf[b].written THEN ForwardInPlace(p, b, s)
      ELSE IF over > 0 /\ next # Nil /\ p.buf[next].written > over THEN ForwardInto(p, b, next, s, over)
      ELSE DoSeek(p, b, s, 999)

(* doFastRewind: in the buffer, into the one before, or to the beginning. *)
RewindInPlace(p, b, s) ==
  Done([p EXCEPT !.buf[b].read = @ - Skip[s], !.song[s].read = @ - Skip[s]], b)

(* Fault: the reader of the buffer before is not reset. *)
RewindIntoRead(p, b, c, s, over) ==
  Done([p EXCEPT !.buf[b].status = EBS_LOADED,
                 !.buf[b].read = 0,
                 !.buf[c].status = ForcedPlaying(@),
                 !.buf[c].read = @ + p.buf[c].written - over,
                 !.song[s].read = @ - p.buf[b].read - over], c)

RewindInto(p, b, c, s, over) ==
  Done([p EXCEPT !.buf[b].status = EBS_LOADED,
                 !.buf[b].read = 0,
                 !.buf[c].status = ForcedPlaying(@),
                 !.buf[c].read = p.buf[c].written - over,
                 !.song[s].read = @ - p.buf[b].read - over], c)

FastRewind(p, b, s) ==
  LET over == IF p.buf[b].read > 0 THEN Monus(Skip[s], p.buf[b].read) ELSE 0
      before == RewindBuffer(p, b, s)
  IN  IF p.buf[b].read > Skip[s] THEN RewindInPlace(p, b, s)
      ELSE IF over > 0 /\ before # Nil /\ p.buf[before].written > over THEN RewindInto(p, b, before, s, over)
      ELSE DoSeek(p, b, s, 1)

Jump(p, b, s, c) ==
  CASE c.command = "EPP_FORWARD" -> FastForward(p, b, s)
    [] c.command = "EPP_REWIND" -> FastRewind(p, b, s)
    [] c.command = "EPP_POSITION" -> IF s \in Streamed THEN Done(p, b) ELSE DoSeek(p, b, s, c.value)

-----------------------------------------------------------------------------
(* Commands.  Whoever sends one looks at the player's state without its lock. *)

Playing == current # Nil /\ ~waiting

(* addStreamCommand(), addSeekCommand(). *)
AddCommand ==
  /\ Playing
  /\ Len(queue) < MaxCommands
  /\ \E c \in Commands : queue' = Append(queue, c)
  /\ UNCHANGED <<vars, waiting>>

(* queueSeekCommand(): while the slider moves only its last place counts. *)
QueueSeekCommand ==
  /\ Playing
  /\ \E c \in Commands : c.command = "EPP_POSITION" /\ queue' = <<c>>
  /\ UNCHANGED <<vars, waiting>>

(* clearStreamCommands(): the task has prepared a command of another kind. *)
ClearStreamCommands ==
  /\ queue' = <<>>
  /\ UNCHANGED <<vars, waiting>>

-----------------------------------------------------------------------------
(* The ALSA thread. *)

(* A period without a command. *)
PeriodPlays ==
  /\ ~waiting
  /\ queue = <<>>
  /\ PeriodBegin
  /\ UNCHANGED <<waiting, queue>>

(* A period with one: the rest of the buffer is looked up after the jump. *)
PeriodJumps ==
  /\ AlsaMtxFree
  /\ Playing
  /\ queue # <<>>
  /\ LET b == NextSongBuffer(pool, current)
         jump == Jump(OperatePlaying(pool, b), b, current, Head(queue))
         c == jump.buffer
         rest == Monus(jump.pool.buf[c].written, jump.pool.buf[c].read)
     IN  /\ b # Nil
         /\ pool' = IF rest = 1 THEN OperateStatus(jump.pool, c, EBS_DRAINING) ELSE jump.pool
         /\ reader' = [buffer |-> c, rest |-> rest]
         /\ queue' = IF jump.done THEN Tail(queue) ELSE <<>>
  /\ UNCHANGED <<decoder, current, cleared, waiting>>

(* No buffer is ready for the current song. *)
PeriodWaits ==
  /\ AlsaMtxFree
  /\ Playing
  /\ NextSongBuffer(pool, current) = Nil
  /\ waiting' = TRUE
  /\ UNCHANGED <<vars, queue>>

(* The end of a period.  At the end of a song the queue is cleared, and the
   player waits when the next one is not ready. *)
PeriodEnds ==
  LET b == reader.buffer
      q == IF reader.rest > 0 THEN ReadChunk(pool, b, current) ELSE pool
      over == IsExhausted(q, b) /\ NextSongBuffer(OperateStatus(q, b, EBS_PLAYED), current) = Nil
  IN  /\ PeriodEnd
      /\ waiting' = (over /\ current' # Nil /\ NextSongBuffer(pool', current') = Nil)
      /\ queue' = IF over THEN <<>> ELSE queue

(* play(), stop() and close() leave the queue alone. *)
Starts == (\E s \in Songs : Play(s)) /\ waiting' = FALSE /\ UNCHANGED queue
Stops == (Stop \/ Close) /\ waiting' = FALSE /\ UNCHANGED queue

Others == (Decoder \/ Rebuild) /\ UNCHANGED <<waiting, queue>>

SeekNext ==
  \/ AddCommand \/ QueueSeekCommand \/ ClearStreamCommands
  \/ PeriodPlays \/ PeriodJumps \/ PeriodWaits \/ PeriodEnds
  \/ Starts \/ Stops \/ Others

SeekSpec == SeekInit /\ [][SeekNext]_seekVars

-----------------------------------------------------------------------------
(* Properties. *)

(* Every variable has its type: no jump lets the counter of a buffer wrap round
   below zero or sets a reader beyond what was written. *)
SeekTypeOK ==
  /\ TypeOK
  /\ ReaderBehindWriter
  /\ waiting \in BOOLEAN
  /\ waiting => current # Nil
  /\ queue \in Seq(Commands)
  /\ Len(queue) <= MaxCommands

(* "Remove skipped content to read data for song": what a rewind takes back
   from the song was read before, so that its counter does not wrap round.
   It does not hold: a jump back marks a buffer as playable that is still to
   be filled.  The README says how. *)
RewoundWasRead == \A s \in Songs : pool.song[s].read >= 0

(* How far a song has come when b is the buffer it is read from.  A buffer
   before it was played to its end, or jumped over, unless a chunk arrived
   while it was drained. *)
Heard(p, c) == IF p.buf[c].status = EBS_DRAINING THEN p.buf[c].read ELSE p.buf[c].written
Begin(p, b) ==
  Sum({c \in BuffersOf(p, SongIn(p, b)) : p.buf[c].key < p.buf[b].key}, LAMBDA c : Heard(p, c))
Place(p, b) == Begin(p, b) + p.buf[b].read

(* The progress that is shown, which each jump changes by an arithmetic of its
   own, goes on to be the place in the music that is heard next: buffers are
   counted in the order they were decoded in, up to the one that is read. *)
JumpsKeepProgress ==
  [][PeriodJumps =>
       LET s == current
           b == NextSongBuffer(pool, s)
       IN  pool.song[s].read = Place(pool, b) => pool'.song[s].read = Place(pool', reader'.buffer)]_seekVars

(* A jump leaves the song in an order in which playback goes on through all of
   it that is left and through no other part: what lies before the place is not
   heard again by itself, what lies after it is heard from its first chunk. *)
InOrder(p, b) ==
  \A c \in BuffersOf(p, SongIn(p, b)) \ {b} : p.buf[c].written > 0 =>
    IF p.buf[c].key < p.buf[b].key
    THEN p.buf[c].status \in {EBS_DRAINING, EBS_PLAYED}
    ELSE p.buf[c].status < EBS_PLAYING /\ p.buf[c].read = 0

JumpsKeepOrder ==
  [][PeriodJumps /\ InOrder(pool, NextSongBuffer(pool, current)) => InOrder(pool', reader'.buffer)]_seekVars

(* Jumps seen on the song as one sequence of chunks.  A skip that ends inside
   the buffer or inside its neighbour ends where the sum of place and skip
   says; a skip from the first chunk of a buffer back, or one that ends between
   two buffers, the code takes for one beyond the song. *)
Inside(p, c, place) == Begin(p, c) < place /\ place < Begin(p, c) + p.buf[c].written
Reached(p, s, position, from) ==
  IF p.song[s].buffered /\ At(s, position) < Lesser(p.song[s].written, SampleSize[s])
  THEN At(s, position) ELSE from
Target(p, b, s, c) ==
  LET from == Place(p, b)
      skipped == IF c.command = "EPP_FORWARD" THEN from + Skip[s] ELSE Monus(from, Skip[s])
      beside == IF c.command = "EPP_FORWARD" THEN ForwardBuffer(p, b, s) ELSE RewindBuffer(p, b, s)
      back == c.command = "EPP_REWIND"
  IN  CASE c.command = "EPP_POSITION" -> Reached(p, s, c.value, from)
        [] c.command # "EPP_POSITION" /\ (back => p.buf[b].read > 0)
             /\ \E d \in {b, beside} \ {Nil} : Inside(p, d, skipped) -> skipped
        [] OTHER -> Reached(p, s, IF back THEN 1 ELSE 999, from)

JumpsLand ==
  [][PeriodJumps =>
       LET b == NextSongBuffer(pool, current)
       IN  Place(pool', reader'.buffer) = Target(pool, b, current, Head(queue))]_seekVars

=============================================================================
