--------------------------- MODULE AudioBufferList ---------------------------
(***************************************************************************)
(* The pool of sample buffers of src/inc/audiobuffer.cpp: TAudioBuffer and *)
(* TAudioBufferList.  Every method is an operator from a pool record to a  *)
(* pool record, so that the modules that compose the pool with its clients *)
(* can perform several of them in one critical section.                    *)
(*                                                                         *)
(* Data is counted in chunks of one decoder update; a buffer has room for  *)
(* BufferSize of them.  The list is kept sorted by key and a key is only   *)
(* ever cleared or replaced by the largest one, so "the first entry of the *)
(* list that ..." is the entry with the smallest key; entries without key  *)
(* are interchangeable, any of them may come first (std::sort is not       *)
(* stable).                                                                *)
(***************************************************************************)
EXTENDS Integers, FiniteSets

CONSTANTS
  Buffers,     \* the entries of TAudioBufferList::list
  Tracks,      \* playlist entries (TTrack)
  Songs,       \* library songs (TSong), told apart by their title hash
  SongOf,      \* TTrack::getSong
  IndexOf,     \* TTrack::getIndex, position of the track in its playlist
  HashOf,      \* TTrack::getHash, the playlist the track belongs to
  Streamed,    \* the songs that are internet streams
  BufferSize,  \* m_size, in chunks
  Nil

ASSUME PoolAssumption ==
  /\ IsFiniteSet(Buffers)
  /\ BufferSize \in Nat \ {0}
  /\ SongOf \in [Tracks -> Songs]
  /\ IndexOf \in [Tracks -> Nat]
  /\ Nil \notin Tracks
  /\ Nil \notin Songs
  /\ Nil \notin Buffers
  /\ Streamed \subseteq Songs

(* EBufferState: the order of the states matters, setStatus only raises it. *)
EBS_EMPTY     == 0
EBS_BUFFERING == 2
EBS_CONTINUE  == 3
EBS_BUFFERED  == 4
EBS_LOADED    == 5
EBS_FINISHED  == 6
EBS_PLAYING   == 7
EBS_DRAINING  == 8
EBS_PLAYED    == 9

BufferRecords ==
  [key : Nat, track : Tracks \cup {Nil}, status : 0 .. 9, first : BOOLEAN,
   last : BOOLEAN, alloc : BOOLEAN, read : Nat, written : Nat]

(* TSong::subRead takes chunks back: what the code counts in a size_t is the
   number that it stands for, which may be below zero (Seeking). *)
SongRecords == [buffered : BOOLEAN, read : Int, written : Nat]

Pools ==
  [buf : [Buffers -> BufferRecords], song : [Songs -> SongRecords],
   key : Nat, free : Nat, allocated : Nat, empty : Nat]

(* TAudioBuffer::reset: reader, writer and properties back to the start. *)
EmptyBuffer ==
  [key |-> 0, track |-> Nil, status |-> EBS_EMPTY, first |-> FALSE,
   last |-> FALSE, alloc |-> FALSE, read |-> 0, written |-> 0]

ClearedSong == [buffered |-> FALSE, read |-> 0, written |-> 0]

(* TAudioBufferList::create: Cardinality(Buffers) empty buffers of one size. *)
InitialPool ==
  [buf |-> [b \in Buffers |-> EmptyBuffer],
   song |-> [s \in Songs |-> ClearedSong],
   key |-> 0,
   free |-> BufferSize * Cardinality(Buffers),
   allocated |-> 0,
   empty |-> Cardinality(Buffers)]

SongIn(p, b) == IF p.buf[b].track = Nil THEN Nil ELSE SongOf[p.buf[b].track]
BuffersOf(p, s) == {b \in Buffers : p.buf[b].track # Nil /\ SongOf[p.buf[b].track] = s}
HasSong(p, s) == BuffersOf(p, s) # {}
(* Fault: empty() does not look at the key. *)
IsEmptyIgnoringKey(p, b) == p.buf[b].written = 0 /\ p.buf[b].read = 0
IsEmpty(p, b) == p.buf[b].key = 0 /\ p.buf[b].written = 0 /\ p.buf[b].read = 0
Allocated(p) == {b \in Buffers : p.buf[b].alloc}

Raise(status, value) == IF value > status THEN value ELSE status
Monus(m, n) == IF m > n THEN m - n ELSE 0
Lesser(m, n) == IF m < n THEN m ELSE n

First(p, S) == CHOOSE b \in S : \A c \in S : p.buf[b].key <= p.buf[c].key

-----------------------------------------------------------------------------
(* Allocation and release. *)

(* Fault: the song is not looked up. *)
NextEmptyBuffersUnchecked(p, s) == {b \in Buffers : IsEmpty(p, b)}

(* getNextEmptyBuffer(song): the candidates, none when the song is already in
   the pool ("Prevent decoding same song/file twice in buffer list"). *)
NextEmptyBuffers(p, s) ==
  IF s # Nil /\ HasSong(p, s) THEN {} ELSE {b \in Buffers : IsEmpty(p, b)}

(* Fault: the key counter is incremented after its use. *)
AllocatePostIncrement(p, b) ==
  [p EXCEPT !.buf = [p.buf EXCEPT ![b] = [p.buf[b] EXCEPT !.alloc = TRUE, !.key = p.key]],
            !.key = p.key + 1,
            !.allocated = p.allocated + BufferSize,
            !.free = Monus(p.free, BufferSize),
            !.empty = Monus(p.empty, 1)]

Allocate(p, b) ==
  LET fresh == ~p.buf[b].alloc
  IN  [p EXCEPT !.buf = [p.buf EXCEPT ![b] = [p.buf[b] EXCEPT !.alloc = TRUE, !.key = p.key + 1]],
                !.key = p.key + 1,
                !.allocated = IF fresh THEN p.allocated + BufferSize ELSE p.allocated,
                !.free = IF fresh THEN Monus(p.free, BufferSize) ELSE p.free,
                !.empty = IF fresh THEN Monus(p.empty, 1) ELSE p.empty]

(* Fault: release() does not ask isAllocated(). *)
ReleaseUnchecked(p, S) ==
  LET n == Cardinality(S)
  IN  [p EXCEPT !.buf = [b \in Buffers |-> IF b \in S THEN EmptyBuffer ELSE p.buf[b]],
                !.allocated = Monus(p.allocated, n * BufferSize),
                !.free = p.free + n * BufferSize,
                !.empty = Lesser(p.empty + n, Cardinality(Buffers))]

(* release() of every buffer in S, one after the other. *)
Release(p, S) ==
  LET n == Cardinality(S \cap Allocated(p))
  IN  [p EXCEPT !.buf = [b \in Buffers |-> IF b \in S THEN EmptyBuffer ELSE p.buf[b]],
                !.allocated = Monus(p.allocated, n * BufferSize),
                !.free = p.free + n * BufferSize,
                !.empty = Lesser(p.empty + n, Cardinality(Buffers))]

(* TSong::reset of every song in S. *)
ResetSongs(p, S) ==
  [p EXCEPT !.song = [s \in Songs |-> IF s \in S THEN ClearedSong ELSE p.song[s]]]

(* reset(PSong): the song and all buffers that hold it. *)
ResetSong(p, s) == Release(ResetSongs(p, {s}), BuffersOf(p, s))

(* reset(): the songs keep their state. *)
ResetAll(p) == Release(p, Buffers)

(* reset(hash, current, index, type, range): the tracks that may go.  A track
   of another playlist always may, the current song never.  Indexes are size_t,
   so "index - range" below zero is a very large number. *)
Wrapped(m, n, i) == IF m >= n THEN i <= m - n ELSE TRUE
OutOf(type, index, range, i) ==
  CASE type = "ECT_LESSER"  -> i < index
    [] type = "ECT_GREATER" -> i > index
    [] type = "ECT_RANGE"   -> Wrapped(index, range, i) \/ i >= index + range
Disposable(p, hash, current, type, index, range) ==
  {b \in Buffers :
     LET t == p.buf[b].track
     IN  /\ t # Nil
         /\ HashOf[t] # hash \/ OutOf(type, index, range, IndexOf[t])
         /\ current = Nil \/ SongOf[t] # current}
ResetByIndex(p, hash, current, type, index, range) ==
  LET S == Disposable(p, hash, current, type, index, range)
  IN  Release(ResetSongs(p, {SongOf[p.buf[b].track] : b \in S}), S)

(* garbageCollector(songs): buffers of removed tracks, except those of the
   last, current and next song, whose tracks are deferred instead. *)
Collectable(p, removed, keep) ==
  {b \in Buffers : /\ p.buf[b].track # Nil
                   /\ p.buf[b].track \in removed
                   /\ SongOf[p.buf[b].track] \notin keep}
CollectGarbage(p, removed, keep) == Release(p, Collectable(p, removed, keep))

-----------------------------------------------------------------------------
(* Status changes. *)

Used(p, b) == p.buf[b].written > 0 /\ p.buf[b].status # EBS_EMPTY

(* complete(song): playback of the song's buffers is blocked. *)
Complete(p, s) ==
  [p EXCEPT !.buf = [b \in Buffers |->
     IF b \in BuffersOf(p, s) /\ Used(p, b)
     THEN [p.buf[b] EXCEPT !.status = Raise(p.buf[b].status, EBS_PLAYED)]
     ELSE p.buf[b]]]

(* Faults: the reader stays where it was; the song keeps its progress. *)
RewoundStatusOnly(p, S) ==
  [p EXCEPT !.buf = [b \in Buffers |->
     IF b \in S /\ Used(p, b) /\ p.buf[b].status >= EBS_BUFFERED
     THEN [p.buf[b] EXCEPT !.status = EBS_LOADED] ELSE p.buf[b]]]
RewoundBuffersOnly(p, S) ==
  [p EXCEPT !.buf = [b \in Buffers |->
     IF b \in S /\ Used(p, b)
     THEN [p.buf[b] EXCEPT !.read = 0,
                           !.status = IF p.buf[b].status >= EBS_BUFFERED THEN EBS_LOADED ELSE p.buf[b].status]
     ELSE p.buf[b]]]

(* TAudioBuffer::cleanup of the used buffers in S: playable from the start. *)
Rewound(p, S) ==
  [p EXCEPT !.buf = [b \in Buffers |->
     IF b \in S /\ Used(p, b)
     THEN [p.buf[b] EXCEPT !.read = 0,
                           !.status = IF p.buf[b].status >= EBS_BUFFERED THEN EBS_LOADED ELSE p.buf[b].status]
     ELSE p.buf[b]],
   !.song = [s \in Songs |->
     IF \E b \in S : Used(p, b) /\ b \in BuffersOf(p, s)
     THEN [p.song[s] EXCEPT !.read = 0] ELSE p.song[s]]]

(* cleanup(song) resets the statistics of the song even without buffers. *)
Cleanup(p, s) ==
  LET q == Rewound(p, BuffersOf(p, s))
  IN  [q EXCEPT !.song = [q.song EXCEPT ![s] = [q.song[s] EXCEPT !.read = 0]]]

CleanupAll(p) == Rewound(p, Buffers)

(* Fault: the flag of an earlier decoding of the song is kept. *)
OperateBufferingKeepsFlag(p, b, t) ==
  [p EXCEPT
     !.buf = [p.buf EXCEPT ![b] = [p.buf[b] EXCEPT !.read = 0, !.written = 0, !.last = FALSE, !.first = TRUE,
                                     !.status = Raise(p.buf[b].status, EBS_BUFFERING), !.track = t]],
     !.song = [p.song EXCEPT ![SongOf[t]] = [p.song[SongOf[t]] EXCEPT !.read = 0, !.written = 0]]]

(* operate(buffer, track, state), called by the decoder. *)
OperateBuffering(p, b, t) ==
  [p EXCEPT
     !.buf = [p.buf EXCEPT ![b] = [p.buf[b] EXCEPT !.read = 0, !.written = 0, !.last = FALSE, !.first = TRUE,
                                     !.status = Raise(p.buf[b].status, EBS_BUFFERING), !.track = t]],
     !.song = [p.song EXCEPT ![SongOf[t]] = ClearedSong]]
OperateContinue(p, b, t) ==
  [p EXCEPT
     !.buf = [p.buf EXCEPT ![b] = [p.buf[b] EXCEPT !.read = 0, !.written = 0, !.last = FALSE, !.first = FALSE,
                                     !.status = Raise(p.buf[b].status, EBS_BUFFERING), !.track = t]]]
OperateBuffered(p, b, t) ==
  [p EXCEPT
     !.buf = [p.buf EXCEPT ![b] = [p.buf[b] EXCEPT !.status = Raise(p.buf[b].status, EBS_BUFFERED),
                                     !.track = IF p.buf[b].track = Nil THEN t ELSE p.buf[b].track]],
     !.song = [p.song EXCEPT ![SongOf[t]] = [p.song[SongOf[t]] EXCEPT !.buffered = TRUE]]]
OperateLoaded(p, b) ==
  [p EXCEPT !.buf = [p.buf EXCEPT ![b] = [p.buf[b] EXCEPT !.status = Raise(p.buf[b].status, EBS_LOADED)]]]
OperateFinished(p, b) ==
  [p EXCEPT !.buf = [p.buf EXCEPT ![b] = [p.buf[b] EXCEPT !.status = Raise(p.buf[b].status, EBS_LOADED), !.last = TRUE]]]

(* operate(buffer, state, force), called by the player. *)
OperatePlaying(p, b) ==
  LET current == p.buf[b].status
  IN  [p EXCEPT !.buf = [p.buf EXCEPT ![b] = [p.buf[b] EXCEPT !.status =
         IF current # EBS_PLAYING /\ current >= EBS_BUFFERED THEN Raise(current, EBS_PLAYING) ELSE current]]]
OperateStatus(p, b, state) ==
  [p EXCEPT !.buf = [p.buf EXCEPT ![b] = [p.buf[b] EXCEPT !.status = Raise(p.buf[b].status, state)]]]

(* One chunk through the writer, with TSong::addWritten, or the reader, with
   TSong::addRead. *)
WriteChunk(p, b, s) ==
  [p EXCEPT !.buf = [p.buf EXCEPT ![b] = [p.buf[b] EXCEPT !.written = p.buf[b].written + 1]],
            !.song = [p.song EXCEPT ![s] = [p.song[s] EXCEPT !.written = p.song[s].written + 1]]]
ReadChunk(p, b, s) ==
  [p EXCEPT !.buf = [p.buf EXCEPT ![b] = [p.buf[b] EXCEPT !.read = p.buf[b].read + 1]],
            !.song = [p.song EXCEPT ![s] = [p.song[s] EXCEPT !.read = p.song[s].read + 1]]]

IsExhausted(p, b) == p.buf[b].read >= p.buf[b].written

(* getNextSongBuffer(song): the buffer being played, else the first one that
   is buffered; a stream may also go on with a draining buffer. *)
PlayingBuffers(p, s) == {b \in BuffersOf(p, s) : p.buf[b].status = EBS_PLAYING}
PlayableBuffers(p, s) ==
  {b \in BuffersOf(p, s) : \/ p.buf[b].status \in {EBS_BUFFERED, EBS_LOADED}
                           \/ s \in Streamed /\ p.buf[b].status = EBS_DRAINING}
NextSongBuffer(p, s) ==
  IF PlayingBuffers(p, s) # {} THEN First(p, PlayingBuffers(p, s))
  ELSE IF PlayableBuffers(p, s) # {} THEN First(p, PlayableBuffers(p, s)) ELSE Nil

=============================================================================
