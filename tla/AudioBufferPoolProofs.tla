------------------------ MODULE AudioBufferPoolProofs ------------------------
(***************************************************************************)
(* TLAPS proofs about the buffer pool, for any number of buffers, tracks   *)
(* and songs and any buffer size.  The operators of AudioBufferList are    *)
(* shown once to keep a pool sound, the reader of each buffer behind its   *)
(* writer and the buffers of a song in their order; the steps of           *)
(* AudioBufferPool then only have to name the operators they are made of.  *)
(***************************************************************************)
EXTENDS AudioBufferPool, FiniteSetTheorems, WellFoundedInduction, TLAPS

(* A pool whose books are right and whose unused buffers are untouched. *)
Booked(p) ==
  /\ p.allocated = BufferSize * Cardinality(Allocated(p))
  /\ p.free = BufferSize * (Cardinality(Buffers) - Cardinality(Allocated(p)))
  /\ p.empty = Cardinality(Buffers) - Cardinality(Allocated(p))
Keyed(p) ==
  /\ \A b \in Buffers : ~p.buf[b].alloc => p.buf[b] = EmptyBuffer
  /\ \A b \in Buffers : p.buf[b].alloc => p.buf[b].key \in 1 .. p.key
  /\ \A b, c \in Allocated(p) : p.buf[b].key = p.buf[c].key => b = c
Sound(p) == p \in Pools /\ Booked(p) /\ Keyed(p)

(* No buffer in use is given up. *)
Keeps(p, q) == \A b \in Buffers : p.buf[b].alloc => q.buf[b].alloc

-----------------------------------------------------------------------------
(* Cardinalities and types. *)

LEMMA AllocatedFinite ==
  ASSUME NEW p
  PROVE  /\ Cardinality(Buffers) \in Nat
         /\ Cardinality(Allocated(p)) \in Nat
         /\ IsFiniteSet(Allocated(p))
         /\ Cardinality(Allocated(p)) <= Cardinality(Buffers)
BY PoolAssumption, FS_CardinalityType, FS_Subset DEF Allocated

LEMMA EmptyBufferType == EmptyBuffer \in BufferRecords
BY DEF EmptyBuffer, BufferRecords, EBS_EMPTY

LEMMA InitialPoolSound == Sound(InitialPool)
<1> DEFINE p == InitialPool
<1>1. Allocated(p) = {} /\ Cardinality(Allocated(p)) = 0
  BY FS_EmptySet DEF Allocated, InitialPool, EmptyBuffer
<1>2. p \in Pools
  BY EmptyBufferType, AllocatedFinite, PoolAssumption
     DEF InitialPool, Pools, SongRecords, ClearedSong
<1>3. Booked(p)
  BY <1>1, AllocatedFinite, PoolAssumption DEF Booked, InitialPool
<1>4. Keyed(p)
  BY <1>1 DEF Keyed, InitialPool, EmptyBuffer
<1> QED BY <1>2, <1>3, <1>4 DEF Sound

(* Products of naturals. *)
LEMMA TimesNat == \A m, k \in Nat : m * k \in Nat
OBVIOUS

LEMMA TimesSuccessor == \A m, k \in Nat : m * (k + 1) = m * k + m
OBVIOUS

LEMMA TimesDifference == \A m, k, l \in Nat : l <= k => m * k = m * (k - l) + l * m
OBVIOUS

(* The units of one summand. *)
LEMMA UnitsOfOne ==
  ASSUME NEW n \in Nat, NEW b
  PROVE  /\ IsFiniteSet(1 .. n) /\ Cardinality(1 .. n) = n
         /\ IsFiniteSet({b} \X (1 .. n)) /\ Cardinality({b} \X (1 .. n)) = n
<1>1. 1 \in Int /\ n \in Int
  OBVIOUS
<1>2. IsFiniteSet(1 .. n) /\ Cardinality(1 .. n) = IF 1 > n THEN 0 ELSE n - 1 + 1
  BY <1>1, FS_Interval
<1>3. Cardinality(1 .. n) = n
  BY <1>2
<1>4. IsFiniteSet({b}) /\ Cardinality({b}) = 1
  BY FS_Singleton
<1>5. IsFiniteSet({b} \X (1 .. n)) /\ Cardinality({b} \X (1 .. n)) = 1 * n
  BY <1>2, <1>3, <1>4, FS_Product
<1> QED BY <1>2, <1>3, <1>5

(* Operators that change no key and touch allocated buffers only. *)
Updates(p, q) ==
  /\ q \in Pools
  /\ q.key = p.key /\ q.free = p.free /\ q.allocated = p.allocated /\ q.empty = p.empty
  /\ \A b \in Buffers : /\ q.buf[b].alloc = p.buf[b].alloc
                        /\ q.buf[b].key = p.buf[b].key
                        /\ ~p.buf[b].alloc => q.buf[b] = p.buf[b]

LEMMA UpdateSound ==
  ASSUME NEW p, NEW q, Sound(p), Updates(p, q)
  PROVE  Sound(q) /\ Keeps(p, q)
<1>1. Allocated(q) = Allocated(p)
  BY DEF Allocated, Updates
<1>2. Booked(q)
  BY <1>1 DEF Sound, Booked, Updates
<1>3. Keyed(q)
  BY <1>1 DEF Sound, Keyed, Allocated, Updates
<1> QED BY <1>2, <1>3 DEF Sound, Updates, Keeps

(* getNextEmptyBuffer(): empty() tells a buffer nobody holds. *)
LEMMA EmptyNotAllocated ==
  ASSUME NEW p, Sound(p), NEW b \in Buffers, IsEmpty(p, b)
  PROVE  ~p.buf[b].alloc
BY DEF Sound, Keyed, IsEmpty

LEMMA AllocateSound ==
  ASSUME NEW p, Sound(p), NEW b \in Buffers, IsEmpty(p, b)
  PROVE  Sound(Allocate(p, b)) /\ Allocate(p, b).buf[b].alloc
<1> DEFINE q == Allocate(p, b)
           n == Cardinality(Allocated(p))
           N == Cardinality(Buffers)
<1>1. ~p.buf[b].alloc /\ p \in Pools
  BY EmptyNotAllocated DEF Sound
<1>2. /\ q.buf = [p.buf EXCEPT ![b] = [p.buf[b] EXCEPT !.alloc = TRUE, !.key = p.key + 1]]
      /\ q.song = p.song
      /\ q.key = p.key + 1
      /\ q.allocated = p.allocated + BufferSize
      /\ q.free = Monus(p.free, BufferSize)
      /\ q.empty = Monus(p.empty, 1)
  BY <1>1 DEF Allocate, Pools
<1>3. Allocated(q) = Allocated(p) \cup {b}
  BY <1>1, <1>2 DEF Allocated, Pools, BufferRecords
<1>4. Cardinality(Allocated(q)) = n + 1
  <2>1. b \notin Allocated(p) /\ IsFiniteSet(Allocated(p))
    BY <1>1, AllocatedFinite DEF Allocated
  <2>2. Cardinality(Allocated(p) \cup {b}) = n + 1
    BY <2>1, FS_AddElement
  <2> QED BY <1>3, <2>2
<1>5. n \in Nat /\ N \in Nat /\ n + 1 <= N /\ BufferSize \in Nat
  BY <1>4, AllocatedFinite, PoolAssumption
<1>6. q \in Pools
  <2>1. q.buf \in [Buffers -> BufferRecords]
    <3> DEFINE rec == [p.buf[b] EXCEPT !.alloc = TRUE, !.key = p.key + 1]
    <3>1. p.buf \in [Buffers -> BufferRecords] /\ p.key + 1 \in Nat
      BY <1>1 DEF Pools
    <3>2. rec \in BufferRecords
      BY <3>1 DEF BufferRecords
    <3>3. q.buf = [p.buf EXCEPT ![b] = rec]
      BY <1>2
    <3> HIDE DEF rec
    <3> QED BY <3>1, <3>2, <3>3
  <2>2. q.key \in Nat /\ q.allocated \in Nat /\ q.free \in Nat /\ q.empty \in Nat
    BY <1>1, <1>2, <1>5 DEF Pools, Monus
  <2> QED BY <1>1, <1>2, <2>1, <2>2 DEF Pools, Allocate
<1>7. Booked(q)
  <2>1. BufferSize * (n + 1) = BufferSize * n + BufferSize
    BY <1>5, TimesSuccessor
  <2>2. BufferSize * (N - n) = BufferSize * (N - (n + 1)) + BufferSize
    <3>1. N - n = (N - (n + 1)) + 1 /\ N - (n + 1) \in Nat
      BY <1>5
    <3> QED BY <1>5, <3>1, TimesSuccessor
  <2>3. BufferSize * (N - n) \in Nat /\ BufferSize * (N - (n + 1)) \in Nat
    BY <1>5, TimesNat
  <2>4. Monus(BufferSize * (N - n), BufferSize) = BufferSize * (N - (n + 1))
    BY <1>5, <2>2, <2>3 DEF Monus
  <2> QED BY <1>2, <1>4, <1>5, <2>1, <2>4 DEF Sound, Booked, Monus
<1>8. Keyed(q)
  BY <1>1, <1>2, <1>3 DEF Sound, Keyed, Pools, BufferRecords, Allocated
<1> QED BY <1>1, <1>2, <1>6, <1>7, <1>8 DEF Sound, Pools, BufferRecords

LEMMA ReleaseSound ==
  ASSUME NEW p, Sound(p), NEW S \in SUBSET Buffers
  PROVE  Sound(Release(p, S))
<1> DEFINE q == Release(p, S)
           n == Cardinality(Allocated(p))
           r == Cardinality(S \cap Allocated(p))
           N == Cardinality(Buffers)
<1>1. p \in Pools
  BY DEF Sound
<1>2. /\ q.buf = [b \in Buffers |-> IF b \in S THEN EmptyBuffer ELSE p.buf[b]]
      /\ q.song = p.song
      /\ q.key = p.key
      /\ q.allocated = Monus(p.allocated, r * BufferSize)
      /\ q.free = p.free + r * BufferSize
      /\ q.empty = Lesser(p.empty + r, N)
  BY <1>1 DEF Release, Pools
<1>3. Allocated(q) = Allocated(p) \ S
  BY <1>2 DEF Allocated, EmptyBuffer
<1>4. Cardinality(Allocated(q)) = n - r /\ r \in Nat /\ r <= n
  <2>1. Allocated(p) \ S = Allocated(p) \ (S \cap Allocated(p))
    OBVIOUS
  <2>2. IsFiniteSet(S \cap Allocated(p)) /\ r <= n
    BY AllocatedFinite, FS_Subset
  <2>3. r \in Nat
    BY <2>2, FS_CardinalityType
  <2>4. Cardinality(Allocated(p) \ S) = n - r
    <3>1. Allocated(p) \cap S = S \cap Allocated(p)
      OBVIOUS
    <3>2. Cardinality(Allocated(p) \ S) = n - Cardinality(Allocated(p) \cap S)
      BY AllocatedFinite, FS_Difference
    <3> QED BY <3>1, <3>2
  <2> QED BY <1>3, <2>2, <2>3, <2>4
<1>5. n \in Nat /\ N \in Nat /\ n <= N /\ BufferSize \in Nat
  BY AllocatedFinite, PoolAssumption
<1>6. r * BufferSize \in Nat
  BY <1>4, <1>5
<1>7. q \in Pools
  <2>1. q.buf \in [Buffers -> BufferRecords]
    BY <1>1, <1>2, EmptyBufferType DEF Pools
  <2>2. q.key \in Nat /\ q.allocated \in Nat /\ q.free \in Nat /\ q.empty \in Nat
    BY <1>1, <1>2, <1>4, <1>5, <1>6 DEF Pools, Monus, Lesser
  <2> QED BY <1>1, <1>2, <2>1, <2>2 DEF Pools, Release
<1>8. Booked(q)
  <2>1. BufferSize * n = BufferSize * (n - r) + r * BufferSize /\ BufferSize * (n - r) \in Nat
    BY <1>4, <1>5, TimesDifference, TimesNat
  <2>2. Monus(BufferSize * n, r * BufferSize) = BufferSize * (n - r)
    BY <1>5, <1>6, <2>1 DEF Monus
  <2>3. BufferSize * (N - n) + r * BufferSize = BufferSize * (N - (n - r))
    <3>1. N - n = (N - (n - r)) - r /\ N - (n - r) \in Nat /\ r <= N - (n - r)
      BY <1>4, <1>5
    <3> QED BY <1>4, <1>5, <3>1, TimesDifference
  <2>4. Lesser((N - n) + r, N) = N - (n - r)
    BY <1>4, <1>5 DEF Lesser
  <2> QED BY <1>2, <1>4, <2>2, <2>3, <2>4 DEF Sound, Booked
<1>9. Keyed(q)
  <2>1. \A b \in Buffers : q.buf[b] = IF b \in S THEN EmptyBuffer ELSE p.buf[b]
    BY <1>2
  <2>2. ~EmptyBuffer.alloc
    BY DEF EmptyBuffer
  <2>3. Allocated(q) \subseteq Allocated(p) /\ \A b \in Allocated(q) : q.buf[b] = p.buf[b]
    BY <1>3, <2>1, <2>2 DEF Allocated
  <2> HIDE DEF q
  <2> QED BY <1>2, <2>1, <2>2, <2>3 DEF Sound, Keyed, Allocated
<1> QED BY <1>7, <1>8, <1>9 DEF Sound

-----------------------------------------------------------------------------
(* One buffer in use and some songs change. *)

WithBuffer(p, b, rec, songs) == [p EXCEPT !.buf = [p.buf EXCEPT ![b] = rec], !.song = songs]
SameSlot(p, b, rec) == rec \in BufferRecords /\ rec.alloc /\ rec.key = p.buf[b].key

LEMMA BufferUpdateSound ==
  ASSUME NEW p, Sound(p), NEW b \in Buffers, p.buf[b].alloc,
         NEW rec, SameSlot(p, b, rec), NEW songs \in [Songs -> SongRecords]
  PROVE  LET q == WithBuffer(p, b, rec, songs) IN Sound(q) /\ Keeps(p, q)
<1> DEFINE q == WithBuffer(p, b, rec, songs)
<1>1. p \in Pools /\ p.buf \in [Buffers -> BufferRecords] /\ rec \in BufferRecords
  BY DEF Sound, Pools, SameSlot
<1>2. q.buf = [p.buf EXCEPT ![b] = rec] /\ q.buf \in [Buffers -> BufferRecords]
  BY <1>1 DEF Pools, WithBuffer
<1>3. q.key = p.key /\ q.free = p.free /\ q.allocated = p.allocated /\ q.empty = p.empty
  BY <1>1 DEF Pools, WithBuffer
<1>4. q \in Pools
  BY <1>1, <1>2 DEF Pools, WithBuffer
<1>5. \A c \in Buffers : /\ q.buf[c].alloc = p.buf[c].alloc
                         /\ q.buf[c].key = p.buf[c].key
                         /\ ~p.buf[c].alloc => q.buf[c] = p.buf[c]
  BY <1>1, <1>2 DEF BufferRecords, SameSlot
<1> QED BY <1>3, <1>4, <1>5, UpdateSound DEF Updates

LEMMA StatusType ==
  /\ EBS_EMPTY \in 0 .. 9 /\ EBS_BUFFERING \in 0 .. 9 /\ EBS_BUFFERED \in 0 .. 9
  /\ EBS_LOADED \in 0 .. 9 /\ EBS_PLAYING \in 0 .. 9 /\ EBS_DRAINING \in 0 .. 9
  /\ EBS_PLAYED \in 0 .. 9
  /\ \A m, n \in 0 .. 9 : Raise(m, n) \in 0 .. 9
BY DEF EBS_EMPTY, EBS_BUFFERING, EBS_BUFFERED, EBS_LOADED, EBS_PLAYING, EBS_DRAINING,
       EBS_PLAYED, Raise

LEMMA OperateBufferingSound ==
  ASSUME NEW p, Sound(p), NEW b \in Buffers, p.buf[b].alloc, NEW t \in Tracks
  PROVE  LET q == OperateBuffering(p, b, t) IN Sound(q) /\ Keeps(p, q)
<1> DEFINE rec == [p.buf[b] EXCEPT !.read = 0, !.written = 0, !.last = FALSE, !.first = TRUE,
                     !.status = Raise(p.buf[b].status, EBS_BUFFERING), !.track = t]
           songs == [p.song EXCEPT ![SongOf[t]] = ClearedSong]
<1>1. SameSlot(p, b, rec)
  BY ZenonT(30), StatusType DEF Sound, Pools, BufferRecords, SameSlot
<1>2. songs \in [Songs -> SongRecords]
  BY PoolAssumption DEF Sound, Pools, SongRecords, ClearedSong
<1>3. OperateBuffering(p, b, t) = WithBuffer(p, b, rec, songs)
  BY DEF OperateBuffering, WithBuffer
<1> HIDE DEF rec, songs
<1> QED BY <1>1, <1>2, <1>3, BufferUpdateSound

LEMMA OperateContinueSound ==
  ASSUME NEW p, Sound(p), NEW b \in Buffers, p.buf[b].alloc, NEW t \in Tracks
  PROVE  LET q == OperateContinue(p, b, t) IN Sound(q) /\ Keeps(p, q)
<1> DEFINE rec == [p.buf[b] EXCEPT !.read = 0, !.written = 0, !.last = FALSE, !.first = FALSE,
                     !.status = Raise(p.buf[b].status, EBS_BUFFERING), !.track = t]
<1>1. SameSlot(p, b, rec)
  BY ZenonT(30), StatusType DEF Sound, Pools, BufferRecords, SameSlot
<1>2. p.song \in [Songs -> SongRecords]
  BY DEF Sound, Pools
<1>3. OperateContinue(p, b, t) = WithBuffer(p, b, rec, p.song)
  BY DEF OperateContinue, Sound, Pools, WithBuffer
<1> HIDE DEF rec
<1> QED BY <1>1, <1>2, <1>3, BufferUpdateSound

LEMMA OperateBufferedSound ==
  ASSUME NEW p, Sound(p), NEW b \in Buffers, p.buf[b].alloc, NEW t \in Tracks
  PROVE  LET q == OperateBuffered(p, b, t) IN Sound(q) /\ Keeps(p, q)
<1> DEFINE rec == [p.buf[b] EXCEPT !.status = Raise(p.buf[b].status, EBS_BUFFERED),
                     !.track = IF p.buf[b].track = Nil THEN t ELSE p.buf[b].track]
           songs == [p.song EXCEPT ![SongOf[t]] = [p.song[SongOf[t]] EXCEPT !.buffered = TRUE]]
<1>1. SameSlot(p, b, rec)
  BY ZenonT(30), StatusType DEF Sound, Pools, BufferRecords, SameSlot
<1>2. songs \in [Songs -> SongRecords]
  BY PoolAssumption DEF Sound, Pools, SongRecords
<1>3. OperateBuffered(p, b, t) = WithBuffer(p, b, rec, songs)
  BY DEF OperateBuffered, WithBuffer
<1> HIDE DEF rec, songs
<1> QED BY <1>1, <1>2, <1>3, BufferUpdateSound

LEMMA OperateLoadedSound ==
  ASSUME NEW p, Sound(p), NEW b \in Buffers, p.buf[b].alloc
  PROVE  /\ Sound(OperateLoaded(p, b)) /\ Keeps(p, OperateLoaded(p, b))
         /\ Sound(OperateFinished(p, b)) /\ Keeps(p, OperateFinished(p, b))
<1> DEFINE loaded == [p.buf[b] EXCEPT !.status = Raise(p.buf[b].status, EBS_LOADED)]
           finished == [p.buf[b] EXCEPT !.status = Raise(p.buf[b].status, EBS_LOADED), !.last = TRUE]
<1>1. SameSlot(p, b, loaded)
  BY StatusType DEF Sound, Pools, BufferRecords, SameSlot
<1>2. SameSlot(p, b, finished)
  BY StatusType DEF Sound, Pools, BufferRecords, SameSlot
<1>3. p.song \in [Songs -> SongRecords]
  BY DEF Sound, Pools
<1>4. OperateLoaded(p, b) = WithBuffer(p, b, loaded, p.song)
  BY DEF OperateLoaded, Sound, Pools, WithBuffer
<1>5. OperateFinished(p, b) = WithBuffer(p, b, finished, p.song)
  BY DEF OperateFinished, Sound, Pools, WithBuffer
<1> HIDE DEF loaded, finished
<1>6. Sound(OperateLoaded(p, b)) /\ Keeps(p, OperateLoaded(p, b))
  BY <1>1, <1>3, <1>4, BufferUpdateSound
<1>7. Sound(OperateFinished(p, b)) /\ Keeps(p, OperateFinished(p, b))
  BY <1>2, <1>3, <1>5, BufferUpdateSound
<1> QED BY <1>6, <1>7

LEMMA OperateStatusSound ==
  ASSUME NEW p, Sound(p), NEW b \in Buffers, p.buf[b].alloc, NEW state \in 0 .. 9
  PROVE  /\ Sound(OperateStatus(p, b, state)) /\ Keeps(p, OperateStatus(p, b, state))
         /\ Sound(OperatePlaying(p, b)) /\ Keeps(p, OperatePlaying(p, b))
<1> DEFINE raised == [p.buf[b] EXCEPT !.status = Raise(p.buf[b].status, state)]
           playing == [p.buf[b] EXCEPT !.status =
                         IF p.buf[b].status # EBS_PLAYING /\ p.buf[b].status >= EBS_BUFFERED
                         THEN Raise(p.buf[b].status, EBS_PLAYING) ELSE p.buf[b].status]
<1>1. SameSlot(p, b, raised)
  BY StatusType DEF Sound, Pools, BufferRecords, SameSlot
<1>2. SameSlot(p, b, playing)
  BY StatusType DEF Sound, Pools, BufferRecords, SameSlot
<1>3. p.song \in [Songs -> SongRecords]
  BY DEF Sound, Pools
<1>4. OperateStatus(p, b, state) = WithBuffer(p, b, raised, p.song)
  BY DEF OperateStatus, Sound, Pools, WithBuffer
<1>5. OperatePlaying(p, b) = WithBuffer(p, b, playing, p.song)
  BY DEF OperatePlaying, Sound, Pools, WithBuffer
<1> HIDE DEF raised, playing
<1>6. Sound(OperateStatus(p, b, state)) /\ Keeps(p, OperateStatus(p, b, state))
  BY <1>1, <1>3, <1>4, BufferUpdateSound
<1>7. Sound(OperatePlaying(p, b)) /\ Keeps(p, OperatePlaying(p, b))
  BY <1>2, <1>3, <1>5, BufferUpdateSound
<1> QED BY <1>6, <1>7

LEMMA ChunkSound ==
  ASSUME NEW p, Sound(p), NEW b \in Buffers, p.buf[b].alloc, NEW s \in Songs
  PROVE  /\ Sound(WriteChunk(p, b, s)) /\ Keeps(p, WriteChunk(p, b, s))
         /\ Sound(ReadChunk(p, b, s)) /\ Keeps(p, ReadChunk(p, b, s))
<1> DEFINE writer == [p.buf[b] EXCEPT !.written = p.buf[b].written + 1]
           reading == [p.buf[b] EXCEPT !.read = p.buf[b].read + 1]
           songsw == [p.song EXCEPT ![s] = [p.song[s] EXCEPT !.written = p.song[s].written + 1]]
           songsr == [p.song EXCEPT ![s] = [p.song[s] EXCEPT !.read = p.song[s].read + 1]]
<1>1. SameSlot(p, b, writer)
  BY DEF Sound, Pools, BufferRecords, SameSlot
<1>2. SameSlot(p, b, reading)
  BY DEF Sound, Pools, BufferRecords, SameSlot
<1>3. songsw \in [Songs -> SongRecords] /\ songsr \in [Songs -> SongRecords]
  BY DEF Sound, Pools, SongRecords
<1>4. WriteChunk(p, b, s) = WithBuffer(p, b, writer, songsw)
  BY DEF WriteChunk, WithBuffer
<1>5. ReadChunk(p, b, s) = WithBuffer(p, b, reading, songsr)
  BY DEF ReadChunk, WithBuffer
<1> HIDE DEF writer, reading, songsw, songsr
<1>6. Sound(WriteChunk(p, b, s)) /\ Keeps(p, WriteChunk(p, b, s))
  BY <1>1, <1>3, <1>4, BufferUpdateSound
<1>7. Sound(ReadChunk(p, b, s)) /\ Keeps(p, ReadChunk(p, b, s))
  BY <1>2, <1>3, <1>5, BufferUpdateSound
<1> QED BY <1>6, <1>7

-----------------------------------------------------------------------------
(* Many buffers change. *)

(* A used buffer is one somebody holds. *)
LEMMA UsedAllocated ==
  ASSUME NEW p, Sound(p), NEW b \in Buffers,
         Used(p, b) \/ p.buf[b].track # Nil
  PROVE  p.buf[b].alloc
BY DEF Sound, Keyed, Used, EmptyBuffer

LEMMA CompleteSound ==
  ASSUME NEW p, Sound(p), NEW s
  PROVE  Sound(Complete(p, s)) /\ Keeps(p, Complete(p, s))
<1> DEFINE q == Complete(p, s)
           S == {b \in BuffersOf(p, s) : Used(p, b)}
           rec(b) == [p.buf[b] EXCEPT !.status = Raise(p.buf[b].status, EBS_PLAYED)]
<1>1. p \in Pools /\ p.buf \in [Buffers -> BufferRecords]
  BY DEF Sound, Pools
<1>2. q = [p EXCEPT !.buf = [b \in Buffers |-> IF b \in S THEN rec(b) ELSE p.buf[b]]]
  BY DEF Complete
<1>3. \A b \in Buffers : b \in S => p.buf[b].alloc
  BY UsedAllocated DEF BuffersOf
<1>4. \A b \in Buffers : /\ rec(b) \in BufferRecords
                         /\ rec(b).alloc = p.buf[b].alloc
                         /\ rec(b).key = p.buf[b].key
  BY <1>1, StatusType DEF BufferRecords
<1> HIDE DEF q, S, rec
<1>5. \A b \in Buffers : q.buf[b] = IF b \in S THEN rec(b) ELSE p.buf[b]
  BY <1>1, <1>2 DEF Pools
<1>6. \A b \in Buffers : /\ q.buf[b] \in BufferRecords
                         /\ q.buf[b].alloc = p.buf[b].alloc
                         /\ q.buf[b].key = p.buf[b].key
                         /\ ~p.buf[b].alloc => q.buf[b] = p.buf[b]
  BY <1>1, <1>3, <1>4, <1>5
<1>7. q \in Pools /\ q.key = p.key /\ q.free = p.free /\ q.allocated = p.allocated /\ q.empty = p.empty
  BY <1>1, <1>2, <1>5, <1>6 DEF Pools
<1>8. Updates(p, q)
  BY <1>6, <1>7 DEF Updates
<1> QED BY <1>8, UpdateSound DEF q

LEMMA RewoundSound ==
  ASSUME NEW p, Sound(p), NEW T
  PROVE  Sound(Rewound(p, T)) /\ Keeps(p, Rewound(p, T))
<1> DEFINE q == Rewound(p, T)
           S == {b \in T : Used(p, b)}
           rec(b) == [p.buf[b] EXCEPT !.read = 0,
                        !.status = IF p.buf[b].status >= EBS_BUFFERED THEN EBS_LOADED ELSE p.buf[b].status]
           songs == [s \in Songs |-> IF \E b \in T : Used(p, b) /\ b \in BuffersOf(p, s)
                                    THEN [p.song[s] EXCEPT !.read = 0] ELSE p.song[s]]
<1>1. p \in Pools /\ p.buf \in [Buffers -> BufferRecords] /\ p.song \in [Songs -> SongRecords]
  BY DEF Sound, Pools
<1>2. q = [p EXCEPT !.buf = [b \in Buffers |-> IF b \in S THEN rec(b) ELSE p.buf[b]], !.song = songs]
  BY DEF Rewound
<1>3. \A b \in Buffers : b \in S => p.buf[b].alloc
  BY UsedAllocated
<1>4. songs \in [Songs -> SongRecords]
  BY <1>1 DEF SongRecords
<1>5. \A b \in Buffers : /\ rec(b) \in BufferRecords
                         /\ rec(b).alloc = p.buf[b].alloc
                         /\ rec(b).key = p.buf[b].key
  BY ZenonT(30), <1>1, StatusType DEF BufferRecords
<1> HIDE DEF q, S, rec, songs
<1>6. \A b \in Buffers : q.buf[b] = IF b \in S THEN rec(b) ELSE p.buf[b]
  BY <1>1, <1>2 DEF Pools
<1>7. \A b \in Buffers : /\ q.buf[b] \in BufferRecords
                         /\ q.buf[b].alloc = p.buf[b].alloc
                         /\ q.buf[b].key = p.buf[b].key
                         /\ ~p.buf[b].alloc => q.buf[b] = p.buf[b]
  <2> TAKE b \in Buffers
  <2>1. CASE b \in S
    <3>1. q.buf[b] = rec(b) /\ p.buf[b].alloc
      BY <2>1, <1>3, <1>6
    <3> QED BY <3>1, <1>5
  <2>2. CASE b \notin S
    <3>1. q.buf[b] = p.buf[b]
      BY <2>2, <1>6
    <3> QED BY <3>1, <1>1
  <2> QED BY <2>1, <2>2
<1>8. q \in Pools /\ q.key = p.key /\ q.free = p.free /\ q.allocated = p.allocated /\ q.empty = p.empty
  BY <1>1, <1>2, <1>4, <1>6, <1>7 DEF Pools
<1>9. Updates(p, q)
  BY <1>7, <1>8 DEF Updates
<1> QED BY <1>9, UpdateSound DEF q

(* Changes of the songs alone. *)
LEMMA SongsSound ==
  ASSUME NEW p, Sound(p), NEW songs \in [Songs -> SongRecords]
  PROVE  LET q == [p EXCEPT !.song = songs] IN Sound(q) /\ Keeps(p, q)
<1> DEFINE q == [p EXCEPT !.song = songs]
<1>1. p \in Pools
  BY DEF Sound
<1>2. /\ q \in Pools /\ q.buf = p.buf /\ q.key = p.key
      /\ q.free = p.free /\ q.allocated = p.allocated /\ q.empty = p.empty
  BY <1>1 DEF Pools
<1>3. Updates(p, q)
  BY <1>2 DEF Updates
<1> QED BY <1>3, UpdateSound

LEMMA CleanupSound ==
  ASSUME NEW p, Sound(p), NEW s \in Songs
  PROVE  Sound(Cleanup(p, s)) /\ Keeps(p, Cleanup(p, s))
<1> DEFINE q == Rewound(p, BuffersOf(p, s))
           songs == [q.song EXCEPT ![s] = [q.song[s] EXCEPT !.read = 0]]
<1>1. Sound(q) /\ Keeps(p, q)
  BY RewoundSound
<1>2. Cleanup(p, s) = [q EXCEPT !.song = songs]
  BY DEF Cleanup
<1> HIDE DEF q
<1>3. songs \in [Songs -> SongRecords]
  BY <1>1 DEF Sound, Pools, SongRecords
<1> HIDE DEF songs
<1>4. Sound(Cleanup(p, s)) /\ Keeps(q, Cleanup(p, s))
  BY <1>1, <1>2, <1>3, SongsSound
<1> QED BY <1>1, <1>4 DEF Keeps

LEMMA CleanupAllSound ==
  ASSUME NEW p, Sound(p)
  PROVE  Sound(CleanupAll(p)) /\ Keeps(p, CleanupAll(p))
BY RewoundSound DEF CleanupAll

LEMMA ResetSongsSound ==
  ASSUME NEW p, Sound(p), NEW S
  PROVE  Sound(ResetSongs(p, S))
<1> DEFINE songs == [s \in Songs |-> IF s \in S THEN ClearedSong ELSE p.song[s]]
<1>1. songs \in [Songs -> SongRecords]
  BY DEF Sound, Pools, SongRecords, ClearedSong
<1>2. ResetSongs(p, S) = [p EXCEPT !.song = songs]
  BY DEF ResetSongs
<1> HIDE DEF songs
<1> QED BY <1>1, <1>2, SongsSound

LEMMA ResetSongSound ==
  ASSUME NEW p, Sound(p), NEW s
  PROVE  Sound(ResetSong(p, s))
<1>1. BuffersOf(p, s) \in SUBSET Buffers
  BY DEF BuffersOf
<1> QED BY <1>1, ResetSongsSound, ReleaseSound DEF ResetSong

LEMMA ResetAllSound ==
  ASSUME NEW p, Sound(p)
  PROVE  Sound(ResetAll(p))
BY ReleaseSound DEF ResetAll

LEMMA ResetByIndexSound ==
  ASSUME NEW p, Sound(p), NEW hash, NEW hardware, NEW type, NEW index, NEW range
  PROVE  Sound(ResetByIndex(p, hash, hardware, type, index, range))
<1> DEFINE S == Disposable(p, hash, hardware, type, index, range)
<1>1. S \in SUBSET Buffers
  BY DEF Disposable
<1> QED BY <1>1, ResetSongsSound, ReleaseSound DEF ResetByIndex

LEMMA CollectGarbageSound ==
  ASSUME NEW p, Sound(p), NEW removed, NEW keep
  PROVE  Sound(CollectGarbage(p, removed, keep))
<1>1. Collectable(p, removed, keep) \in SUBSET Buffers
  BY DEF Collectable
<1> QED BY <1>1, ReleaseSound DEF CollectGarbage

-----------------------------------------------------------------------------
(* The searches return buffers in use. *)

LEMMA FirstInSet ==
  ASSUME NEW p, p \in Pools, NEW S \in SUBSET Buffers, S # {}
  PROVE  First(p, S) \in S /\ \A c \in S : p.buf[First(p, S)].key <= p.buf[c].key
<1> DEFINE Keys == {p.buf[b].key : b \in S}
<1>1. Keys \in SUBSET Nat /\ Keys # {}
  BY DEF Pools, BufferRecords
<1>2. PICK k \in Keys : \A l \in Keys : k <= l
  <2>1. \E k \in Keys : \A l \in Keys : ~(<<l, k>> \in OpToRel(<, Nat))
    <3> HIDE DEF Keys
    <3> QED BY <1>1, NatLessThanWellFounded, WFMin
  <2>2. \A k, l \in Nat : l < k => <<l, k>> \in OpToRel(<, Nat)
    BY DEF OpToRel
  <2>3. PICK k \in Keys : \A l \in Keys : ~(<<l, k>> \in OpToRel(<, Nat))
    BY <2>1
  <2>4. \A l \in Keys : ~(l < k) /\ l \in Nat /\ k \in Nat
    <3> HIDE DEF Keys
    <3> QED BY <1>1, <2>2, <2>3
  <2>5. \A l \in Keys : k <= l
    <3> HIDE DEF Keys
    <3> QED BY <2>4
  <2> QED BY <2>3, <2>5
<1>3. \E b \in S : \A c \in S : p.buf[b].key <= p.buf[c].key
  BY <1>2
<1> QED BY <1>3 DEF First

LEMMA NextSongBufferType ==
  ASSUME NEW p, Sound(p), NEW s, NextSongBuffer(p, s) # Nil
  PROVE  NextSongBuffer(p, s) \in Buffers /\ p.buf[NextSongBuffer(p, s)].alloc
<1>1. PlayingBuffers(p, s) \in SUBSET BuffersOf(p, s) /\ PlayableBuffers(p, s) \in SUBSET BuffersOf(p, s)
  BY DEF PlayingBuffers, PlayableBuffers
<1>2. BuffersOf(p, s) \in SUBSET Buffers
  BY DEF BuffersOf
<1>3. NextSongBuffer(p, s) \in BuffersOf(p, s)
  BY <1>1, <1>2, FirstInSet DEF NextSongBuffer, Sound
<1>4. \A b \in BuffersOf(p, s) : b \in Buffers /\ p.buf[b].alloc
  BY UsedAllocated DEF BuffersOf
<1> QED BY <1>3, <1>4

-----------------------------------------------------------------------------
(* The specification. *)

(* What the steps rely on besides a sound pool: nobody takes a buffer away
   from the decoder while it works, unless it is told by cleared, nor from the
   ALSA thread in the middle of a period. *)
PoolInv ==
  /\ TypeOK
  /\ Sound(pool)
  /\ decoder.stage # "idle" /\ ~cleared => pool.buf[decoder.buffer].alloc
  /\ reader # NotReading => pool.buf[reader.buffer].alloc

LEMMA PoolInvInit == Init => PoolInv
<1> SUFFICES ASSUME Init PROVE PoolInv
  OBVIOUS
<1>1. Sound(pool)
  BY InitialPoolSound DEF Init
<1>2. TypeOK
  BY <1>1 DEF Init, Sound, TypeOK, Idle, NotReading, Stages
<1> QED BY <1>1, <1>2 DEF Init, PoolInv, Idle

(* Steps that leave the ALSA thread alone and change the pool to a sound one
   in which the decoder still has its buffer. *)
LEMMA StepInv ==
  ASSUME PoolInv, reader' = reader, AlsaMtxFree,
         Sound(pool)',
         decoder' \in [stage : Stages, buffer : Buffers \cup {Nil}, track : Tracks \cup {Nil},
                      buffered : BOOLEAN],
         decoder'.stage # "idle" => decoder'.buffer \in Buffers /\ decoder'.track \in Tracks,
         current' \in Songs \cup {Nil},
         cleared' \in BOOLEAN,
         decoder'.stage # "idle" /\ ~cleared' => pool'.buf[decoder'.buffer].alloc
  PROVE  PoolInv'
BY DEF PoolInv, TypeOK, Sound, AlsaMtxFree, NotReading

LEMMA DecoderInv == PoolInv /\ Decoder => PoolInv'
<1> SUFFICES ASSUME PoolInv, Decoder PROVE PoolInv'
  OBVIOUS
<1> DEFINE Working == decoder.stage # "idle" /\ ~cleared
<1>1. /\ Sound(pool)
      /\ decoder \in [stage : Stages, buffer : Buffers \cup {Nil}, track : Tracks \cup {Nil},
                      buffered : BOOLEAN]
      /\ current \in Songs \cup {Nil}
      /\ cleared \in BOOLEAN
      /\ Working => /\ decoder.buffer \in Buffers
                    /\ decoder.track \in Tracks
                    /\ SongOf[decoder.track] \in Songs
                    /\ pool.buf[decoder.buffer].alloc
  BY PoolAssumption DEF PoolInv, TypeOK
<1>2. ASSUME NEW t \in Tracks, DecoderAllocate(t) PROVE PoolInv'
  <2>1. PICK b \in Buffers : /\ IsEmpty(pool, b)
                            /\ pool' = Allocate(pool, b)
                            /\ decoder' = [stage |-> "allocated", buffer |-> b, track |-> t, buffered |-> FALSE]
    BY <1>2 DEF DecoderAllocate, NextEmptyBuffers
  <2>2. Sound(pool)' /\ pool'.buf[b].alloc
    BY <1>1, <2>1, AllocateSound
  <2> QED BY <1>1, <1>2, <2>1, <2>2, StepInv DEF DecoderAllocate, Stages
<1>3. CASE DecoderOpen
  <2>1. Working
    BY <1>3 DEF DecoderOpen, DecoderAt
  <2>2. Sound(pool)' /\ pool'.buf[decoder.buffer].alloc
    BY <1>1, <1>3, <2>1, OperateBufferingSound DEF DecoderOpen, Keeps
  <2> QED BY <1>1, <1>3, <2>1, <2>2, StepInv DEF DecoderOpen, Stages
<1>4. CASE DecoderWrite
  <2>1. Working
    BY <1>4 DEF DecoderWrite, DecoderAt
  <2>2. Sound(pool)' /\ Keeps(pool, pool')
    BY <1>1, <1>4, <2>1, ChunkSound DEF DecoderWrite
  <2>3. decoder' \in [stage : Stages, buffer : Buffers \cup {Nil}, track : Tracks \cup {Nil},
                     buffered : BOOLEAN]
        /\ decoder'.buffer = decoder.buffer /\ decoder'.track = decoder.track
    BY <1>1, <1>4 DEF DecoderWrite, Stages
  <2> QED BY <1>1, <1>4, <2>1, <2>2, <2>3 DEF DecoderWrite, PoolInv, TypeOK, Sound, Keeps
<1>5. CASE DecoderEndOfFile
  <2>1. Working
    BY <1>5 DEF DecoderEndOfFile, DecoderAt
  <2>2. Sound(pool)' /\ pool'.buf[decoder.buffer].alloc
    BY <1>1, <1>5, <2>1, OperateBufferedSound DEF DecoderEndOfFile, Keeps
  <2> QED BY <1>1, <1>5, <2>1, <2>2, StepInv DEF DecoderEndOfFile, Stages
<1>6. CASE DecoderThreshold
  <2>1. Working
    BY <1>6 DEF DecoderThreshold, DecoderAt
  <2>2. Sound(pool)' /\ pool'.buf[decoder.buffer].alloc
    BY <1>1, <1>6, <2>1, OperateBufferedSound DEF DecoderThreshold, Keeps
  <2> QED BY <1>1, <1>6, <2>1, <2>2, StepInv DEF DecoderThreshold, Stages
<1>7. CASE DecoderNextChunk
  <2>1. Working
    BY <1>7 DEF DecoderNextChunk, DecoderAt
  <2>2. decoder' \in [stage : Stages, buffer : Buffers \cup {Nil}, track : Tracks \cup {Nil},
                     buffered : BOOLEAN]
        /\ decoder'.buffer = decoder.buffer /\ decoder'.track = decoder.track
    BY <1>1, <1>7 DEF DecoderNextChunk, Stages
  <2> QED BY <1>1, <1>7, <2>1, <2>2 DEF DecoderNextChunk, PoolInv, TypeOK
<1>8. CASE DecoderFull
  <2>1. Working
    BY <1>8 DEF DecoderFull, DecoderAt
  <2>2. Sound(pool)' /\ pool'.buf[decoder.buffer].alloc
    BY <1>1, <1>8, <2>1, OperateLoadedSound DEF DecoderFull, Keeps
  <2> QED BY <1>1, <1>8, <2>1, <2>2, StepInv DEF DecoderFull, Stages
<1>9. CASE DecoderSwitch
  <2>1. PICK b \in Buffers : /\ IsEmpty(pool, b)
                            /\ pool' = Allocate(pool, b)
                            /\ decoder' = [decoder EXCEPT !.stage = "continue", !.buffer = b]
    BY <1>9 DEF DecoderSwitch, NextEmptyBuffers
  <2>2. Sound(pool)' /\ pool'.buf[b].alloc
    BY <1>1, <2>1, AllocateSound
  <2>3. Working
    BY <1>9 DEF DecoderSwitch, DecoderAt
  <2> QED BY <1>1, <1>9, <2>1, <2>2, <2>3, StepInv DEF DecoderSwitch, Stages
<1>10. CASE DecoderContinue
  <2>1. Working
    BY <1>10 DEF DecoderContinue, DecoderAt
  <2>2. Sound(pool)' /\ pool'.buf[decoder.buffer].alloc
    BY <1>1, <1>10, <2>1, OperateContinueSound DEF DecoderContinue, Keeps
  <2> QED BY <1>1, <1>10, <2>1, <2>2, StepInv DEF DecoderContinue, Stages
<1>11. CASE DecoderFinish
  <2>1. Working
    BY <1>11 DEF DecoderFinish, DecoderAt
  <2>2. Sound(pool)' /\ pool'.buf[decoder.buffer].alloc
    BY <1>1, <1>11, <2>1, OperateLoadedSound DEF DecoderFinish, Keeps
  <2> QED BY <1>1, <1>11, <2>1, <2>2, StepInv DEF DecoderFinish, Stages
<1>12. CASE DecoderGarbage
  <2>1. Sound(pool)'
    BY <1>1, <1>12, CollectGarbageSound DEF DecoderGarbage
  <2> QED BY <1>1, <1>12, <2>1, StepInv DEF DecoderGarbage, Idle, Stages
<1>13. CASE DecoderFail
  <2>1. Sound(pool)'
    BY <1>1, <1>13, ResetSongSound DEF DecoderFail
  <2> QED BY <1>1, <1>13, <2>1, StepInv DEF DecoderFail, Idle, Stages
<1>14. CASE DecoderHousekeeping
  <2>1. Sound(pool)'
    BY <1>1, <1>14, ResetByIndexSound DEF DecoderHousekeeping
  <2>2. decoder.stage = "idle"
    BY <1>14 DEF DecoderHousekeeping, DecoderAt
  <2> QED BY <1>1, <1>14, <2>1, <2>2, StepInv DEF DecoderHousekeeping
<1>15. CASE DecoderCleared
  <2>1. Sound(pool)'
    BY <1>1, <1>15, ResetAllSound DEF DecoderCleared
  <2> QED BY <1>1, <1>15, <2>1, StepInv DEF DecoderCleared, Idle, Stages
<1> QED BY <1>2, <1>3, <1>4, <1>5, <1>6, <1>7, <1>8, <1>9, <1>10, <1>11, <1>12, <1>13, <1>14, <1>15
        DEF Decoder

LEMMA PlayerInv == PoolInv /\ Player => PoolInv'
<1> SUFFICES ASSUME PoolInv, Player PROVE PoolInv'
  OBVIOUS
<1> DEFINE Decoders == [stage : Stages, buffer : Buffers \cup {Nil}, track : Tracks \cup {Nil},
                        buffered : BOOLEAN]
           Working == decoder.stage # "idle" /\ ~cleared
<1>1. /\ Sound(pool)
      /\ decoder \in Decoders
      /\ decoder.stage # "idle" => decoder.buffer \in Buffers /\ decoder.track \in Tracks
      /\ Working => pool.buf[decoder.buffer].alloc
      /\ current \in Songs \cup {Nil}
      /\ cleared \in BOOLEAN
      /\ reader # NotReading => reader.buffer \in Buffers /\ current # Nil /\ pool.buf[reader.buffer].alloc
  BY DEF PoolInv, TypeOK
(* It is enough that the pool is sound and nobody loses a buffer. *)
<1>2. ASSUME decoder' = decoder, cleared' = cleared, current' \in Songs \cup {Nil},
             Sound(pool'), Keeps(pool, pool'),
             reader' \in [buffer : Buffers \cup {Nil}, rest : Nat],
             reader' # NotReading => reader'.buffer \in Buffers /\ current' # Nil
                                     /\ pool'.buf[reader'.buffer].alloc
      PROVE  PoolInv'
  BY <1>1, <1>2 DEF PoolInv, TypeOK, Sound, Keeps
<1>3. NotReading \in [buffer : Buffers \cup {Nil}, rest : Nat]
  BY DEF NotReading
<1>4. CASE \E s \in Songs : Play(s)
  <2>1. PICK s \in Songs : Play(s)
    BY <1>4
  <2> DEFINE q == IF current = Nil THEN pool ELSE Complete(pool, current)
  <2>2. Sound(q) /\ Keeps(pool, q)
    BY <1>1, CompleteSound DEF Keeps
  <2>3. pool' = Cleanup(q, s) /\ current' = s /\ reader' = NotReading
    BY <2>1 DEF Play, AlsaMtxFree
  <2> HIDE DEF q
  <2>4. Sound(pool') /\ Keeps(q, pool')
    BY <2>2, <2>3, CleanupSound
  <2>5. Keeps(pool, pool')
    BY <2>2, <2>4 DEF Keeps
  <2> QED BY <1>2, <1>3, <2>1, <2>3, <2>4, <2>5 DEF Play
<1>5. CASE PeriodBegin
  <2> DEFINE b == NextSongBuffer(pool, current)
             q == OperatePlaying(pool, b)
             rest == Monus(q.buf[b].written, q.buf[b].read)
  <2>1. /\ b # Nil /\ current # Nil
        /\ pool' = IF rest = 1 THEN OperateStatus(q, b, EBS_DRAINING) ELSE q
        /\ reader' = [buffer |-> b, rest |-> rest]
        /\ UNCHANGED <<decoder, current, cleared>>
    BY <1>5 DEF PeriodBegin
  <2>2. b \in Buffers /\ pool.buf[b].alloc
    BY <1>1, <2>1, NextSongBufferType
  <2> HIDE DEF b
  <2>3. 0 \in 0 .. 9 /\ EBS_DRAINING \in 0 .. 9
    BY DEF EBS_DRAINING
  <2>4. Sound(q) /\ Keeps(pool, q)
    BY <1>1, <2>2, <2>3, OperateStatusSound
  <2>5. rest \in Nat
    BY <2>2, <2>4 DEF Monus, Sound, Pools, BufferRecords
  <2> HIDE DEF q, rest
  <2>6. Sound(OperateStatus(q, b, EBS_DRAINING)) /\ Keeps(q, OperateStatus(q, b, EBS_DRAINING))
    BY <2>2, <2>3, <2>4, OperateStatusSound DEF Keeps
  <2>7. Sound(pool') /\ Keeps(pool, pool')
    BY <2>1, <2>4, <2>6 DEF Keeps
  <2>8. pool'.buf[b].alloc
    BY <2>2, <2>7 DEF Keeps
  <2> QED BY <1>1, <1>2, <2>1, <2>2, <2>5, <2>7, <2>8
<1>6. CASE PeriodEnd
  <2> DEFINE b == reader.buffer
             q == IF reader.rest > 0 THEN ReadChunk(pool, b, current) ELSE pool
             played == OperateStatus(q, b, EBS_PLAYED)
  <2>1. b \in Buffers /\ pool.buf[b].alloc /\ current \in Songs
    BY <1>1, <1>6 DEF PeriodEnd
  <2>2. Sound(q) /\ Keeps(pool, q)
    BY <1>1, <2>1, ChunkSound DEF Keeps
  <2>3. /\ reader' = NotReading
        /\ UNCHANGED <<decoder, cleared>>
        /\ \/ pool' = q /\ current' = current
           \/ pool' = played /\ current' = current
           \/ pool' = played /\ current' = Nil
           \/ \E s \in Songs : pool' = Cleanup(played, s) /\ current' = s
    BY <1>6 DEF PeriodEnd
  <2> HIDE DEF q, b
  <2>4. Sound(played) /\ Keeps(q, played)
    <3>1. EBS_PLAYED \in 0 .. 9
      BY DEF EBS_PLAYED
    <3> QED BY <2>1, <2>2, <3>1, OperateStatusSound DEF Keeps
  <2> HIDE DEF played
  <2>5. \A s \in Songs : Sound(Cleanup(played, s)) /\ Keeps(played, Cleanup(played, s))
    BY <2>4, CleanupSound
  <2>6. Sound(pool') /\ Keeps(pool, pool')
    BY <2>2, <2>3, <2>4, <2>5 DEF Keeps
  <2>7. current' \in Songs \cup {Nil}
    BY <2>1, <2>3
  <2> QED BY <1>2, <1>3, <2>3, <2>6, <2>7
<1>7. CASE Stop
  <2>1. Sound(pool') /\ Keeps(pool, pool')
    BY <1>1, <1>7, CompleteSound DEF Stop
  <2> QED BY <1>2, <1>3, <1>7, <2>1 DEF Stop, AlsaMtxFree
<1>8. CASE Close
  <2> DEFINE q == IF current = Nil THEN pool ELSE Complete(pool, current)
  <2>1. Sound(q) /\ Keeps(pool, q)
    BY <1>1, CompleteSound DEF Keeps
  <2>2. pool' = CleanupAll(q) /\ current' = Nil /\ reader' = NotReading
    BY <1>8 DEF Close, AlsaMtxFree
  <2> HIDE DEF q
  <2>3. Sound(pool') /\ Keeps(pool, pool')
    BY <2>1, <2>2, CleanupAllSound DEF Keeps
  <2> QED BY <1>2, <1>3, <1>8, <2>2, <2>3 DEF Close
<1> QED BY <1>4, <1>5, <1>6, <1>7, <1>8 DEF Player

LEMMA RebuildInv == PoolInv /\ Rebuild => PoolInv'
<1> SUFFICES ASSUME PoolInv, Rebuild PROVE PoolInv'
  OBVIOUS
<1>1. Sound(pool')
  BY ResetAllSound DEF PoolInv, Rebuild
<1> QED BY <1>1, StepInv DEF Rebuild, PoolInv, TypeOK, AlsaMtxFree

LEMMA PoolInvNext == PoolInv /\ [Next]_vars => PoolInv'
<1> SUFFICES ASSUME PoolInv, [Next]_vars PROVE PoolInv'
  OBVIOUS
<1>1. CASE UNCHANGED vars
  BY <1>1 DEF vars, PoolInv, TypeOK, Sound, Pools, Booked, Keyed, Allocated
<1> QED BY <1>1, DecoderInv, PlayerInv, RebuildInv DEF Next

LEMMA PoolInvAlways == Spec => []PoolInv
BY PoolInvInit, PoolInvNext, PTL DEF Spec

(* The types: in particular a buffer the decoder or the ALSA thread holds is
   never Nil, whatever is stopped, released or rebuilt in between. *)
THEOREM PoolTypeCorrect == Spec => []TypeOK
<1>1. PoolInv => TypeOK
  BY DEF PoolInv
<1> QED BY <1>1, PoolInvAlways, PTL

(* allocate() and release() keep the three counters of the list in step with
   the buffers, for any number and size of buffers. *)
THEOREM PoolAccounting == Spec => []Accounting
<1>1. PoolInv => Accounting
  BY DEF PoolInv, Sound, Booked, Accounting
<1> QED BY <1>1, PoolInvAlways, PTL

(* getNextEmptyBuffer() never hands out a buffer somebody holds or one that
   carries something over from its last use. *)
THEOREM PoolEmptyIsPristine == Spec => []EmptyIsPristine
<1>1. PoolInv => EmptyIsPristine
  BY EmptyNotAllocated DEF PoolInv, Sound, Keyed, EmptyIsPristine
<1> QED BY <1>1, PoolInvAlways, PTL

(* Buffers in use have keys of their own, none above the key counter. *)
THEOREM PoolKeysIdentify == Spec => []KeysIdentify
<1>1. PoolInv => KeysIdentify
  BY DEF PoolInv, Sound, Keyed, KeysIdentify, Allocated
<1> QED BY <1>1, PoolInvAlways, PTL

-----------------------------------------------------------------------------
(* Reader and writer.  All operators of the list but two only keep the counters
   of a buffer or set them back; the two that raise one are called after a check
   that was made in an earlier step, and the proof is that it still holds. *)

Bounded(p) ==
  \A b \in Buffers : p.buf[b].read <= p.buf[b].written /\ p.buf[b].written <= BufferSize

(* Counters are kept or set back, the writer's never without the reader's. *)
Calm(p, q) ==
  \A b \in Buffers :
    \/ q.buf[b].read = 0 /\ q.buf[b].written = 0
    \/ q.buf[b].read \in {0, p.buf[b].read} /\ q.buf[b].written = p.buf[b].written

LEMMA CalmCompose ==
  ASSUME NEW p, NEW q, NEW r, Calm(p, q), Calm(q, r)
  PROVE  Calm(p, r)
BY DEF Calm

LEMMA CalmBounded ==
  ASSUME NEW p, NEW q, Sound(p), Bounded(p), Calm(p, q)
  PROVE  Bounded(q) /\ \A b \in Buffers : q.buf[b].written <= p.buf[b].written
<1>1. \A b \in Buffers : p.buf[b].read \in Nat /\ p.buf[b].written \in Nat
  BY DEF Sound, Pools, BufferRecords
<1>2. BufferSize \in Nat
  BY PoolAssumption
<1> QED BY <1>1, <1>2 DEF Bounded, Calm

-----------------------------------------------------------------------------
(* The operators that raise no counter. *)

LEMMA AllocateCalm ==
  ASSUME NEW p, Sound(p), NEW b \in Buffers
  PROVE  Calm(p, Allocate(p, b))
BY DEF Sound, Pools, BufferRecords, Allocate, Calm

LEMMA ReleaseCalm ==
  ASSUME NEW p, Sound(p), NEW S
  PROVE  Calm(p, Release(p, S))
<1> DEFINE q == Release(p, S)
<1>1. q.buf = [b \in Buffers |-> IF b \in S THEN EmptyBuffer ELSE p.buf[b]]
  BY DEF Sound, Pools, Release
<1>2. EmptyBuffer.read = 0 /\ EmptyBuffer.written = 0
  BY DEF EmptyBuffer
<1> HIDE DEF q
<1>3. \A b \in Buffers : q.buf[b] = EmptyBuffer \/ q.buf[b] = p.buf[b]
  BY <1>1
<1>4. Calm(p, q)
  BY <1>2, <1>3 DEF Calm
<1> QED BY <1>4 DEF q

LEMMA ResetSongsCalm ==
  ASSUME NEW p, Sound(p), NEW S
  PROVE  Calm(p, ResetSongs(p, S))
<1>1. ResetSongs(p, S).buf = p.buf
  BY DEF Sound, Pools, ResetSongs
<1> QED BY <1>1 DEF Calm

LEMMA ResetsCalm ==
  ASSUME NEW p, Sound(p)
  PROVE  /\ \A s : Calm(p, ResetSong(p, s))
         /\ Calm(p, ResetAll(p))
         /\ \A removed, keep : Calm(p, CollectGarbage(p, removed, keep))
         /\ \A hash, hardware, type, index, range :
              Calm(p, ResetByIndex(p, hash, hardware, type, index, range))
<1>1. \A S, T : Calm(p, Release(ResetSongs(p, S), T))
  BY ResetSongsSound, ResetSongsCalm, ReleaseCalm, CalmCompose
<1>2. \A T : Calm(p, Release(p, T))
  BY ReleaseCalm
<1>3. \A s : Calm(p, ResetSong(p, s))
  BY <1>1 DEF ResetSong
<1>4. Calm(p, ResetAll(p))
  BY <1>2 DEF ResetAll
<1>5. \A removed, keep : Calm(p, CollectGarbage(p, removed, keep))
  BY <1>2 DEF CollectGarbage
<1>6. \A hash, hardware, type, index, range :
        Calm(p, ResetByIndex(p, hash, hardware, type, index, range))
  BY <1>1 DEF ResetByIndex
<1> QED BY <1>3, <1>4, <1>5, <1>6

(* One buffer is given another record. *)
LEMMA WithBufferCalm ==
  ASSUME NEW p, Sound(p), NEW b \in Buffers, NEW rec, NEW songs,
         \/ rec.read = 0 /\ rec.written = 0
         \/ rec.read = p.buf[b].read /\ rec.written = p.buf[b].written
  PROVE  LET q == WithBuffer(p, b, rec, songs) IN Calm(p, q) /\ q.buf[b] = rec
<1> DEFINE q == WithBuffer(p, b, rec, songs)
<1>1. q.buf = [p.buf EXCEPT ![b] = rec] /\ p.buf \in [Buffers -> BufferRecords]
  BY DEF Sound, Pools, WithBuffer
<1> HIDE DEF q
<1>2. \A c \in Buffers : q.buf[c] = IF c = b THEN rec ELSE p.buf[c]
  BY <1>1
<1>3. Calm(p, q) /\ q.buf[b] = rec
  BY <1>2 DEF Calm
<1> QED BY <1>3 DEF q

LEMMA OperateDecoderCalm ==
  ASSUME NEW p, Sound(p), NEW b \in Buffers, NEW t
  PROVE  /\ Calm(p, OperateBuffering(p, b, t)) /\ OperateBuffering(p, b, t).buf[b].written = 0
         /\ Calm(p, OperateContinue(p, b, t)) /\ OperateContinue(p, b, t).buf[b].written = 0
         /\ Calm(p, OperateBuffered(p, b, t))
<1> DEFINE opened == [p.buf[b] EXCEPT !.read = 0, !.written = 0, !.last = FALSE, !.first = TRUE,
                        !.status = Raise(p.buf[b].status, EBS_BUFFERING), !.track = t]
           continued == [p.buf[b] EXCEPT !.read = 0, !.written = 0, !.last = FALSE, !.first = FALSE,
                           !.status = Raise(p.buf[b].status, EBS_BUFFERING), !.track = t]
           buffered == [p.buf[b] EXCEPT !.status = Raise(p.buf[b].status, EBS_BUFFERED),
                          !.track = IF p.buf[b].track = Nil THEN t ELSE p.buf[b].track]
           songs == [p.song EXCEPT ![SongOf[t]] = ClearedSong]
           ready == [p.song EXCEPT ![SongOf[t]] = [p.song[SongOf[t]] EXCEPT !.buffered = TRUE]]
<1>1. /\ opened.read = 0 /\ opened.written = 0
      /\ continued.read = 0 /\ continued.written = 0
      /\ buffered.read = p.buf[b].read /\ buffered.written = p.buf[b].written
  BY DEF Sound, Pools, BufferRecords
<1>2. OperateBuffering(p, b, t) = WithBuffer(p, b, opened, songs)
  BY DEF OperateBuffering, WithBuffer
<1>3. OperateContinue(p, b, t) = WithBuffer(p, b, continued, p.song)
  BY DEF OperateContinue, Sound, Pools, WithBuffer
<1>4. OperateBuffered(p, b, t) = WithBuffer(p, b, buffered, ready)
  BY DEF OperateBuffered, WithBuffer
<1> HIDE DEF opened, continued, buffered, songs, ready
<1>5. Calm(p, OperateBuffering(p, b, t)) /\ OperateBuffering(p, b, t).buf[b].written = 0
  BY <1>1, <1>2, WithBufferCalm
<1>6. Calm(p, OperateContinue(p, b, t)) /\ OperateContinue(p, b, t).buf[b].written = 0
  BY <1>1, <1>3, WithBufferCalm
<1>7. Calm(p, OperateBuffered(p, b, t))
  BY <1>1, <1>4, WithBufferCalm
<1> QED BY <1>5, <1>6, <1>7

(* A change of the status keeps both counters. *)
SameCounters(p, q) ==
  \A b \in Buffers : q.buf[b].read = p.buf[b].read /\ q.buf[b].written = p.buf[b].written

LEMMA StatusCalm ==
  ASSUME NEW p, Sound(p), NEW b \in Buffers, NEW state
  PROVE  /\ SameCounters(p, OperateStatus(p, b, state))
         /\ SameCounters(p, OperatePlaying(p, b))
         /\ SameCounters(p, OperateLoaded(p, b))
         /\ SameCounters(p, OperateFinished(p, b))
<1>1. p.buf \in [Buffers -> BufferRecords] /\ p \in Pools
  BY DEF Sound, Pools
<1>2. SameCounters(p, OperateStatus(p, b, state))
  BY <1>1 DEF SameCounters, OperateStatus, Pools, BufferRecords
<1>3. SameCounters(p, OperatePlaying(p, b))
  BY <1>1 DEF SameCounters, OperatePlaying, Pools, BufferRecords
<1>4. SameCounters(p, OperateLoaded(p, b))
  BY <1>1 DEF SameCounters, OperateLoaded, Pools, BufferRecords
<1>5. SameCounters(p, OperateFinished(p, b))
  BY <1>1 DEF SameCounters, OperateFinished, Pools, BufferRecords
<1> QED BY <1>2, <1>3, <1>4, <1>5

LEMMA SameCountersCalm ==
  ASSUME NEW p, NEW q, SameCounters(p, q)
  PROVE  Calm(p, q)
BY DEF SameCounters, Calm

LEMMA CompleteCalm ==
  ASSUME NEW p, Sound(p), NEW s
  PROVE  Calm(p, Complete(p, s))
<1> DEFINE q == Complete(p, s)
           rec(b) == [p.buf[b] EXCEPT !.status = Raise(p.buf[b].status, EBS_PLAYED)]
<1>1. \A b \in Buffers : p.buf[b] \in BufferRecords
  BY DEF Sound, Pools
<1>2. \A b \in Buffers : q.buf[b] = rec(b) \/ q.buf[b] = p.buf[b]
  BY DEF Sound, Pools, Complete
<1>3. \A b \in Buffers : rec(b).read = p.buf[b].read /\ rec(b).written = p.buf[b].written
  BY <1>1 DEF BufferRecords
<1> HIDE DEF q, rec
<1>4. Calm(p, q)
  BY <1>2, <1>3 DEF Calm
<1> QED BY <1>4 DEF q

LEMMA RewoundCalm ==
  ASSUME NEW p, Sound(p), NEW T
  PROVE  Calm(p, Rewound(p, T))
<1> DEFINE q == Rewound(p, T)
           rec(b) == [p.buf[b] EXCEPT !.read = 0,
                        !.status = IF p.buf[b].status >= EBS_BUFFERED THEN EBS_LOADED ELSE p.buf[b].status]
<1>1. \A b \in Buffers : p.buf[b] \in BufferRecords
  BY DEF Sound, Pools
<1>2. \A b \in Buffers : q.buf[b] = rec(b) \/ q.buf[b] = p.buf[b]
  BY DEF Sound, Pools, Rewound
<1>3. \A b \in Buffers : rec(b).read = 0 /\ rec(b).written = p.buf[b].written
  BY <1>1 DEF BufferRecords
<1> HIDE DEF q, rec
<1>4. Calm(p, q)
  BY <1>2, <1>3 DEF Calm
<1> QED BY <1>4 DEF q

LEMMA CleanupCalm ==
  ASSUME NEW p, Sound(p), NEW s
  PROVE  Calm(p, Cleanup(p, s)) /\ Calm(p, CleanupAll(p))
<1> DEFINE q == Rewound(p, BuffersOf(p, s))
<1>1. Sound(q) /\ Calm(p, q)
  BY RewoundSound, RewoundCalm
<1>2. Cleanup(p, s) = [q EXCEPT !.song = [q.song EXCEPT ![s] = [q.song[s] EXCEPT !.read = 0]]]
  BY DEF Cleanup
<1> HIDE DEF q
<1>3. Cleanup(p, s).buf = q.buf
  BY <1>1, <1>2 DEF Sound, Pools
<1> QED BY <1>1, <1>3, RewoundCalm DEF Calm, CleanupAll

(* The two operators that raise a counter. *)
LEMMA ChunkCounters ==
  ASSUME NEW p, Sound(p), NEW b \in Buffers, NEW s
  PROVE  LET w == WriteChunk(p, b, s)
             r == ReadChunk(p, b, s)
         IN  \A c \in Buffers :
               /\ w.buf[c].read = p.buf[c].read
               /\ w.buf[c].written = IF c = b THEN p.buf[c].written + 1 ELSE p.buf[c].written
               /\ r.buf[c].read = IF c = b THEN p.buf[c].read + 1 ELSE p.buf[c].read
               /\ r.buf[c].written = p.buf[c].written
<1> DEFINE w == WriteChunk(p, b, s)
           r == ReadChunk(p, b, s)
<1>1. p.buf \in [Buffers -> BufferRecords] /\ p \in Pools
  BY DEF Sound, Pools
<1>2. w.buf = [p.buf EXCEPT ![b] = [p.buf[b] EXCEPT !.written = p.buf[b].written + 1]]
  BY <1>1 DEF WriteChunk, Pools
<1>3. r.buf = [p.buf EXCEPT ![b] = [p.buf[b] EXCEPT !.read = p.buf[b].read + 1]]
  BY <1>1 DEF ReadChunk, Pools
<1> HIDE DEF w, r
<1>4. \A c \in Buffers :
        /\ w.buf[c].read = p.buf[c].read
        /\ w.buf[c].written = IF c = b THEN p.buf[c].written + 1 ELSE p.buf[c].written
  BY <1>1, <1>2 DEF BufferRecords
<1>5. \A c \in Buffers :
        /\ r.buf[c].read = IF c = b THEN p.buf[c].read + 1 ELSE p.buf[c].read
        /\ r.buf[c].written = p.buf[c].written
  BY <1>1, <1>3 DEF BufferRecords
<1> QED BY <1>4, <1>5 DEF w, r

-----------------------------------------------------------------------------
(* The specification. *)

(* What a thread has checked before it lets the others run: the decoder that
   there is room for a chunk, the ALSA thread that there is one to read. *)
CounterInv ==
  /\ Bounded(pool)
  /\ decoder.stage = "writing" /\ ~cleared => pool.buf[decoder.buffer].written < BufferSize
  /\ reader.rest > 0 => pool.buf[reader.buffer].read < pool.buf[reader.buffer].written

LEMMA CounterInvInit == Init => CounterInv
<1> SUFFICES ASSUME Init PROVE CounterInv
  OBVIOUS
<1>1. \A b \in Buffers : pool.buf[b].read = 0 /\ pool.buf[b].written = 0
  BY DEF Init, InitialPool, EmptyBuffer
<1>2. decoder.stage # "writing" /\ reader.rest = 0
  BY DEF Init, Idle, NotReading
<1> QED BY <1>1, <1>2, PoolAssumption DEF CounterInv, Bounded

(* A step under alsaMtx that raises no counter and keeps the decoder's view. *)
LEMMA CalmStep ==
  ASSUME PoolInv, CounterInv, Calm(pool, pool'), reader' = NotReading,
         decoder'.stage = "writing" /\ ~cleared'
           => \/ decoder' = decoder /\ ~cleared
              \/ pool'.buf[decoder'.buffer].written = 0
  PROVE  CounterInv'
<1>1. Bounded(pool') /\ \A b \in Buffers : pool'.buf[b].written <= pool.buf[b].written
  BY CalmBounded DEF PoolInv, CounterInv
<1>2. ASSUME decoder'.stage = "writing", ~cleared'
      PROVE  pool'.buf[decoder'.buffer].written < BufferSize
  <2>1. CASE pool'.buf[decoder'.buffer].written = 0
    BY <2>1, PoolAssumption
  <2>2. CASE decoder' = decoder /\ ~cleared
    <3>1. decoder.buffer \in Buffers /\ pool.buf[decoder.buffer].written < BufferSize
      BY <1>2, <2>2 DEF PoolInv, TypeOK, CounterInv
    <3>2. /\ pool'.buf[decoder.buffer].written <= pool.buf[decoder.buffer].written
          /\ pool.buf[decoder.buffer].written \in Nat
      BY <1>1, <3>1 DEF PoolInv, Sound, Pools, BufferRecords
    <3>3. pool'.buf[decoder.buffer].written \in Nat
      BY <3>1, <3>2 DEF Calm
    <3> QED BY <2>2, <3>1, <3>2, <3>3, PoolAssumption
  <2> QED BY <1>2, <2>1, <2>2
<1>3. reader'.rest = 0
  BY DEF NotReading
<1> QED BY <1>1, <1>2, <1>3 DEF CounterInv, Bounded

LEMMA DecoderCounters == PoolInv /\ CounterInv /\ Decoder => CounterInv'
<1> SUFFICES ASSUME PoolInv, CounterInv, Decoder PROVE CounterInv'
  OBVIOUS
<1>1. /\ Sound(pool)
      /\ decoder.stage # "idle" => decoder.buffer \in Buffers
      /\ decoder \in [stage : Stages, buffer : Buffers \cup {Nil}, track : Tracks \cup {Nil},
                      buffered : BOOLEAN]
  BY DEF PoolInv, TypeOK
<1>2. ASSUME NEW t \in Tracks, DecoderAllocate(t) PROVE CounterInv'
  <2>1. PICK b \in Buffers : /\ pool' = Allocate(pool, b)
                            /\ decoder' = [stage |-> "allocated", buffer |-> b, track |-> t, buffered |-> FALSE]
    BY <1>2 DEF DecoderAllocate, NextEmptyBuffers
  <2>2. Calm(pool, pool') /\ decoder'.stage # "writing"
    BY <1>1, <2>1, AllocateCalm
  <2> QED BY <1>2, <2>2, CalmStep DEF DecoderAllocate, AlsaMtxFree
<1>3. CASE DecoderOpen
  <2>1. decoder.buffer \in Buffers
    BY <1>1, <1>3 DEF DecoderOpen, DecoderAt
  <2>2. Calm(pool, pool') /\ pool'.buf[decoder.buffer].written = 0
    BY <1>1, <1>3, <2>1, OperateDecoderCalm DEF DecoderOpen
  <2>3. decoder'.buffer = decoder.buffer
    BY <1>1, <1>3 DEF DecoderOpen
  <2> QED BY <1>3, <2>2, <2>3, CalmStep DEF DecoderOpen, AlsaMtxFree
<1>4. CASE DecoderWrite
  <2>1. /\ decoder.buffer \in Buffers
        /\ pool.buf[decoder.buffer].written < BufferSize
        /\ pool' = WriteChunk(pool, decoder.buffer, SongOf[decoder.track])
    BY <1>1, <1>4 DEF DecoderWrite, DecoderAt, CounterInv
  <2>2. decoder'.stage # "writing" /\ reader' = reader
    BY <1>1, <1>4 DEF DecoderWrite
  <2>3. \A c \in Buffers :
          /\ pool'.buf[c].read = pool.buf[c].read
          /\ pool'.buf[c].written = IF c = decoder.buffer THEN pool.buf[c].written + 1 ELSE pool.buf[c].written
    BY <1>1, <2>1, ChunkCounters
  <2>4. \A c \in Buffers : /\ pool.buf[c].read \in Nat /\ pool.buf[c].written \in Nat
                           /\ pool.buf[c].read <= pool.buf[c].written
                           /\ pool.buf[c].written <= BufferSize
    BY <1>1 DEF Sound, Pools, BufferRecords, CounterInv, Bounded
  <2>5. Bounded(pool')
    BY <2>1, <2>3, <2>4, PoolAssumption DEF Bounded
  <2>6. ASSUME reader.rest > 0
        PROVE  pool'.buf[reader.buffer].read < pool'.buf[reader.buffer].written
    <3>1. reader # NotReading
      BY <2>6 DEF NotReading
    <3>2. reader.buffer \in Buffers
      BY <3>1 DEF PoolInv, TypeOK
    <3>3. pool.buf[reader.buffer].read < pool.buf[reader.buffer].written
      BY <2>6 DEF CounterInv
    <3> QED BY <2>3, <2>4, <3>2, <3>3
  <2> QED BY <2>2, <2>5, <2>6 DEF CounterInv, Bounded
<1>5. CASE DecoderEndOfFile
  <2>1. Calm(pool, pool') /\ decoder'.stage # "writing"
    BY <1>1, <1>5, OperateDecoderCalm DEF DecoderEndOfFile, DecoderAt
  <2> QED BY <1>5, <2>1, CalmStep DEF DecoderEndOfFile, AlsaMtxFree
<1>6. CASE DecoderThreshold
  <2>1. Calm(pool, pool') /\ decoder'.stage # "writing"
    BY <1>1, <1>6, OperateDecoderCalm DEF DecoderThreshold, DecoderAt
  <2> QED BY <1>6, <2>1, CalmStep DEF DecoderThreshold, AlsaMtxFree
<1>7. CASE DecoderNextChunk
  <2>1. /\ pool.buf[decoder.buffer].written < BufferSize
        /\ decoder'.buffer = decoder.buffer
        /\ pool' = pool /\ reader' = reader
    BY <1>1, <1>7 DEF DecoderNextChunk
  <2> QED BY <2>1 DEF CounterInv, Bounded
<1>8. CASE DecoderFull
  <2>1. Calm(pool, pool') /\ decoder'.stage # "writing"
    BY <1>1, <1>8, StatusCalm, SameCountersCalm DEF DecoderFull, DecoderAt
  <2> QED BY <1>8, <2>1, CalmStep DEF DecoderFull, AlsaMtxFree
<1>9. CASE DecoderSwitch
  <2>1. PICK b \in Buffers : /\ pool' = Allocate(pool, b)
                            /\ decoder' = [decoder EXCEPT !.stage = "continue", !.buffer = b]
    BY <1>9 DEF DecoderSwitch, NextEmptyBuffers
  <2>2. Calm(pool, pool') /\ decoder'.stage # "writing"
    BY <1>1, <2>1, AllocateCalm
  <2> QED BY <1>9, <2>2, CalmStep DEF DecoderSwitch, AlsaMtxFree
<1>10. CASE DecoderContinue
  <2>1. decoder.buffer \in Buffers
    BY <1>1, <1>10 DEF DecoderContinue, DecoderAt
  <2>2. Calm(pool, pool') /\ pool'.buf[decoder.buffer].written = 0
    BY <1>1, <1>10, <2>1, OperateDecoderCalm DEF DecoderContinue
  <2>3. decoder'.buffer = decoder.buffer
    BY <1>1, <1>10 DEF DecoderContinue
  <2> QED BY <1>10, <2>2, <2>3, CalmStep DEF DecoderContinue, AlsaMtxFree
<1>11. CASE DecoderFinish
  <2>1. Calm(pool, pool') /\ decoder'.stage # "writing"
    BY <1>1, <1>11, StatusCalm, SameCountersCalm DEF DecoderFinish, DecoderAt
  <2> QED BY <1>11, <2>1, CalmStep DEF DecoderFinish, AlsaMtxFree
<1>12. CASE DecoderGarbage
  <2>1. Calm(pool, pool') /\ decoder'.stage # "writing"
    BY <1>1, <1>12, ResetsCalm DEF DecoderGarbage, Idle
  <2> QED BY <1>12, <2>1, CalmStep DEF DecoderGarbage, AlsaMtxFree
<1>13. CASE DecoderFail
  <2>1. Calm(pool, pool') /\ decoder'.stage # "writing"
    BY <1>1, <1>13, ResetsCalm DEF DecoderFail, Idle
  <2> QED BY <1>13, <2>1, CalmStep DEF DecoderFail, AlsaMtxFree
<1>14. CASE DecoderHousekeeping
  <2>1. Calm(pool, pool') /\ decoder'.stage # "writing"
    BY <1>1, <1>14, ResetsCalm DEF DecoderHousekeeping, DecoderAt
  <2> QED BY <1>14, <2>1, CalmStep DEF DecoderHousekeeping, AlsaMtxFree
<1>15. CASE DecoderCleared
  <2>1. Calm(pool, pool') /\ decoder'.stage # "writing"
    BY <1>1, <1>15, ResetsCalm DEF DecoderCleared, Idle
  <2> QED BY <1>15, <2>1, CalmStep DEF DecoderCleared, AlsaMtxFree
<1> QED BY <1>2, <1>3, <1>4, <1>5, <1>6, <1>7, <1>8, <1>9, <1>10, <1>11, <1>12, <1>13, <1>14, <1>15
        DEF Decoder

LEMMA PlayerCounters == PoolInv /\ CounterInv /\ Player => CounterInv'
<1> SUFFICES ASSUME PoolInv, CounterInv, Player PROVE CounterInv'
  OBVIOUS
<1>1. /\ Sound(pool)
      /\ reader # NotReading => /\ reader.buffer \in Buffers /\ current \in Songs
                                /\ pool.buf[reader.buffer].alloc
  BY DEF PoolInv, TypeOK
<1> DEFINE stopped == IF current = Nil THEN pool ELSE Complete(pool, current)
<1>2. Sound(stopped) /\ Calm(pool, stopped)
  <2>1. Calm(pool, pool)
    BY DEF Calm
  <2> QED BY <1>1, <2>1, CompleteSound, CompleteCalm
<1>3. CASE \E s \in Songs : Play(s)
  <2>1. PICK s \in Songs : Play(s)
    BY <1>3
  <2>2. /\ pool' = Cleanup(stopped, s) /\ reader' = NotReading
        /\ UNCHANGED <<decoder, cleared>>
    BY <2>1 DEF Play, AlsaMtxFree
  <2> HIDE DEF stopped
  <2>3. Calm(pool, pool')
    BY <1>2, <2>2, CleanupCalm, CalmCompose
  <2> QED BY <2>2, <2>3, CalmStep
<1>4. CASE PeriodBegin
  <2> DEFINE b == NextSongBuffer(pool, current)
             q == OperatePlaying(pool, b)
             rest == Monus(q.buf[b].written, q.buf[b].read)
  <2>1. /\ b # Nil
        /\ pool' = IF rest = 1 THEN OperateStatus(q, b, EBS_DRAINING) ELSE q
        /\ reader' = [buffer |-> b, rest |-> rest]
        /\ UNCHANGED <<decoder, cleared>>
    BY <1>4 DEF PeriodBegin
  <2>2. b \in Buffers /\ pool.buf[b].alloc
    BY <1>1, <2>1, NextSongBufferType
  <2> HIDE DEF b
  <2>3. Sound(q) /\ SameCounters(pool, q)
    <3>1. 0 \in 0 .. 9
      OBVIOUS
    <3> QED BY <1>1, <2>2, <3>1, OperateStatusSound, StatusCalm
  <2>4. rest > 0 => q.buf[b].read < q.buf[b].written
    BY <2>2, <2>3 DEF Monus, Sound, Pools, BufferRecords
  <2> HIDE DEF q, rest
  <2>5. SameCounters(pool, pool') /\ SameCounters(q, pool')
    BY <2>1, <2>2, <2>3, StatusCalm DEF SameCounters
  <2>6. reader'.rest > 0 => pool'.buf[reader'.buffer].read < pool'.buf[reader'.buffer].written
    BY <2>1, <2>2, <2>4, <2>5 DEF SameCounters
  <2>7. Bounded(pool')
    BY <1>1, <2>5, SameCountersCalm, CalmBounded DEF CounterInv
  <2>8. decoder.stage = "writing" => decoder.buffer \in Buffers
    BY DEF PoolInv, TypeOK
  <2> QED BY <2>1, <2>5, <2>6, <2>7, <2>8 DEF CounterInv, Bounded, SameCounters
<1>5. CASE PeriodEnd
  <2> DEFINE b == reader.buffer
             q == IF reader.rest > 0 THEN ReadChunk(pool, b, current) ELSE pool
             played == OperateStatus(q, b, EBS_PLAYED)
  <2>1. b \in Buffers /\ current \in Songs /\ pool.buf[b].alloc
    BY <1>1, <1>5 DEF PeriodEnd
  <2>2. Sound(q) /\ Keeps(pool, q)
    BY <1>1, <2>1, ChunkSound DEF Keeps
  <2>3. Bounded(q) /\ \A c \in Buffers : q.buf[c].written = pool.buf[c].written
    <3>1. \A c \in Buffers : pool.buf[c].read \in Nat /\ pool.buf[c].written \in Nat
      BY <1>1 DEF Sound, Pools, BufferRecords
    <3>2. CASE reader.rest > 0
      <4>1. pool.buf[b].read < pool.buf[b].written
        BY <3>2 DEF CounterInv
      <4>2. \A c \in Buffers :
              /\ q.buf[c].read = IF c = b THEN pool.buf[c].read + 1 ELSE pool.buf[c].read
              /\ q.buf[c].written = pool.buf[c].written
        BY <1>1, <2>1, <3>2, ChunkCounters
      <4> HIDE DEF q, b
      <4> QED BY <2>1, <3>1, <4>1, <4>2 DEF CounterInv, Bounded
    <3>3. CASE ~(reader.rest > 0)
      BY <3>3 DEF CounterInv
    <3> QED BY <3>2, <3>3
  <2>4. /\ reader' = NotReading
        /\ UNCHANGED <<decoder, cleared>>
        /\ \/ pool' = q \/ pool' = played
           \/ \E s \in Songs : pool' = Cleanup(played, s)
    BY <1>5 DEF PeriodEnd
  <2> HIDE DEF q, b
  <2>5. Sound(played) /\ Calm(q, played)
    <3>1. EBS_PLAYED \in 0 .. 9
      BY DEF EBS_PLAYED
    <3> QED BY <2>1, <2>2, <3>1, OperateStatusSound, StatusCalm, SameCountersCalm DEF Keeps
  <2> HIDE DEF played
  <2>6. Calm(q, pool')
    <3>1. Calm(q, q)
      BY DEF Calm
    <3>2. \A s \in Songs : Calm(q, Cleanup(played, s))
      BY <2>5, CleanupCalm, CalmCompose
    <3> QED BY <2>4, <2>5, <3>1, <3>2
  <2>7. Bounded(pool') /\ \A c \in Buffers : pool'.buf[c].written <= pool.buf[c].written
    BY <2>2, <2>3, <2>6, CalmBounded
  <2>8. ASSUME decoder.stage = "writing", ~cleared
        PROVE  pool'.buf[decoder.buffer].written < BufferSize
    <3>1. decoder.buffer \in Buffers /\ pool.buf[decoder.buffer].written < BufferSize
      BY <2>8 DEF PoolInv, TypeOK, CounterInv
    <3>2. pool.buf[decoder.buffer].written \in Nat /\ pool'.buf[decoder.buffer].written \in Nat
      BY <1>1, <2>3, <2>6, <3>1 DEF Calm, Sound, Pools, BufferRecords
    <3> QED BY <2>7, <3>1, <3>2, PoolAssumption
  <2>9. reader'.rest = 0
    BY <2>4 DEF NotReading
  <2> QED BY <2>4, <2>7, <2>8, <2>9 DEF CounterInv, Bounded
<1>6. CASE Stop
  <2>1. Calm(pool, pool')
    BY <1>1, <1>6, CompleteCalm DEF Stop
  <2> QED BY <1>6, <2>1, CalmStep DEF Stop, AlsaMtxFree
<1>7. CASE Close
  <2>1. pool' = CleanupAll(stopped) /\ reader' = NotReading
        /\ UNCHANGED <<decoder, cleared>>
    BY <1>7 DEF Close, AlsaMtxFree
  <2> HIDE DEF stopped
  <2>2. Calm(pool, pool')
    BY <1>2, <2>1, CleanupCalm, CalmCompose
  <2> QED BY <2>1, <2>2, CalmStep
<1> QED BY <1>3, <1>4, <1>5, <1>6, <1>7 DEF Player

LEMMA RebuildCounters == PoolInv /\ CounterInv /\ Rebuild => CounterInv'
<1> SUFFICES ASSUME PoolInv, CounterInv, Rebuild PROVE CounterInv'
  OBVIOUS
<1>1. Calm(pool, pool')
  BY ResetsCalm DEF PoolInv, Rebuild
<1> QED BY <1>1, CalmStep DEF Rebuild, AlsaMtxFree

LEMMA CounterInvNext == PoolInv /\ CounterInv /\ [Next]_vars => CounterInv'
<1> SUFFICES ASSUME PoolInv, CounterInv, [Next]_vars PROVE CounterInv'
  OBVIOUS
<1>1. CASE UNCHANGED vars
  BY <1>1 DEF vars, CounterInv, Bounded
<1> QED BY <1>1, DecoderCounters, PlayerCounters, RebuildCounters DEF Next

(* The ALSA thread never reads past what the decoder has written and the
   decoder never writes past the end of a buffer, although its chunk may arrive
   in the middle of a period and stop, close and a rebuild between its chunks. *)
THEOREM PoolReaderBehindWriter == Spec => []ReaderBehindWriter
<1>1. CounterInv => ReaderBehindWriter
  BY DEF CounterInv, Bounded, ReaderBehindWriter
<1> QED BY <1>1, CounterInvInit, CounterInvNext, PoolInvAlways, PTL DEF Spec

-----------------------------------------------------------------------------
(* The order of the buffers of a song.  It rests on what the decoder may assume
   between two of its critical sections: its buffer has the largest key, and
   nothing of another song lies behind the first buffer of its own. *)

(* OneDecodingPerSong, for any pool. *)
Follows(p, s, b, c) ==
  /\ p.buf[b].track = p.buf[c].track
  /\ ~p.buf[c].first /\ ~p.buf[b].last
  /\ p.buf[b].written = BufferSize
  /\ \A d \in Allocated(p) : p.buf[b].key <= p.buf[d].key /\ p.buf[d].key <= p.buf[c].key
                               => SongIn(p, d) \in {s, Nil}
DecodingOrder(p) ==
  \A s \in Songs : \A b, c \in BuffersOf(p, s) : p.buf[b].key < p.buf[c].key => Follows(p, s, b, c)

(* The first buffer of a song is marked as such. *)
Starting(p, s, b) ==
  b \in BuffersOf(p, s) /\ p.buf[b].first /\ \A c \in BuffersOf(p, s) : p.buf[b].key <= p.buf[c].key
Started(p) == \A s \in Songs : HasSong(p, s) => \E b \in Buffers : Starting(p, s, b)

(* Nothing of another song lies behind the first buffer of this one. *)
AtTail(p, s) ==
  \A b \in BuffersOf(p, s) : \A d \in Allocated(p) :
    p.buf[b].key <= p.buf[d].key => SongIn(p, d) \in {s, Nil}

(* The song can go on in another buffer. *)
Continuable(p, t) ==
  \A b \in BuffersOf(p, SongOf[t]) :
    p.buf[b].track = t /\ ~p.buf[b].last /\ p.buf[b].written = BufferSize

LEMMA BuffersOfType ==
  ASSUME NEW p, Sound(p), NEW s, NEW b \in BuffersOf(p, s)
  PROVE  /\ b \in Buffers /\ b \in Allocated(p) /\ p.buf[b].alloc
         /\ p.buf[b].track # Nil /\ SongOf[p.buf[b].track] = s /\ SongIn(p, b) = s
         /\ p.buf[b].key \in Nat /\ p.buf[b].key <= p.key
<1>1. b \in Buffers /\ p.buf[b].track # Nil /\ SongOf[p.buf[b].track] = s
  BY DEF BuffersOf
<1>2. p.buf[b].alloc
  BY <1>1, UsedAllocated
<1> QED BY <1>1, <1>2 DEF Allocated, SongIn, Sound, Keyed, Pools, BufferRecords

LEMMA AllocatedType ==
  ASSUME NEW p, Sound(p), NEW b \in Allocated(p)
  PROVE  b \in Buffers /\ p.buf[b].key \in Nat /\ p.key \in Nat /\ p.buf[b].key <= p.key
BY DEF Allocated, Sound, Keyed, Pools, BufferRecords

-----------------------------------------------------------------------------
(* Operators that leave the order of the buffers alone. *)

Same(p, q) ==
  /\ q.key = p.key
  /\ \A b \in Buffers :
       /\ q.buf[b].key = p.buf[b].key
       /\ q.buf[b].track = p.buf[b].track
       /\ q.buf[b].first = p.buf[b].first
       /\ q.buf[b].last = p.buf[b].last
       /\ q.buf[b].alloc = p.buf[b].alloc
       /\ q.buf[b].written = p.buf[b].written
       /\ p.buf[b].status >= EBS_BUFFERED => q.buf[b].status >= EBS_BUFFERED
  /\ \A s \in Songs : q.song[s].buffered = p.song[s].buffered

LEMMA SameCompose ==
  ASSUME NEW p, NEW q, NEW r, Same(p, q), Same(q, r)
  PROVE  Same(p, r)
BY DEF Same

LEMMA SameOrder ==
  ASSUME NEW p, NEW q, Same(p, q)
  PROVE  /\ \A s : BuffersOf(q, s) = BuffersOf(p, s)
         /\ Allocated(q) = Allocated(p)
         /\ \A b \in Buffers : SongIn(q, b) = SongIn(p, b)
         /\ DecodingOrder(p) => DecodingOrder(q)
         /\ Started(p) => Started(q)
         /\ \A s : AtTail(p, s) => AtTail(q, s)
         /\ \A t : Continuable(p, t) => Continuable(q, t)
<1>1. \A s : BuffersOf(q, s) = BuffersOf(p, s)
  BY DEF Same, BuffersOf
<1>2. Allocated(q) = Allocated(p) /\ Allocated(p) \subseteq Buffers
  BY DEF Same, Allocated
<1>3. \A b \in Buffers : SongIn(q, b) = SongIn(p, b)
  BY DEF Same, SongIn
<1>4. \A s : BuffersOf(p, s) \subseteq Buffers
  BY DEF BuffersOf
<1>5. ASSUME DecodingOrder(p) PROVE DecodingOrder(q)
  <2>1. \A s \in Songs : \A b, c \in BuffersOf(p, s) : Follows(p, s, b, c) => Follows(q, s, b, c)
    BY <1>2, <1>3, <1>4 DEF Follows, Same
  <2> QED BY <1>1, <1>4, <1>5, <2>1 DEF DecodingOrder, Same
<1>6. ASSUME Started(p) PROVE Started(q)
  <2>1. \A s, b : Starting(p, s, b) => Starting(q, s, b)
    BY <1>1, <1>4 DEF Starting, Same
  <2> QED BY <1>1, <1>6, <2>1 DEF Started, HasSong
<1>7. \A s : AtTail(p, s) => AtTail(q, s)
  BY <1>1, <1>2, <1>3, <1>4 DEF AtTail, Same
<1>8. \A t : Continuable(p, t) => Continuable(q, t)
  BY <1>1, <1>4 DEF Continuable, Same
<1> QED BY <1>1, <1>2, <1>3, <1>5, <1>6, <1>7, <1>8

LEMMA StatusSame ==
  ASSUME NEW p, Sound(p), NEW b \in Buffers, NEW state \in 0 .. 9
  PROVE  Same(p, OperateStatus(p, b, state)) /\ Same(p, OperatePlaying(p, b))
<1>1. p.buf \in [Buffers -> BufferRecords] /\ p \in Pools
  BY DEF Sound, Pools
<1>2. Same(p, OperateStatus(p, b, state))
  BY <1>1 DEF Same, OperateStatus, Pools, BufferRecords, Raise, EBS_BUFFERED
<1>3. Same(p, OperatePlaying(p, b))
  BY <1>1 DEF Same, OperatePlaying, Pools, BufferRecords, Raise, EBS_BUFFERED, EBS_PLAYING
<1> QED BY <1>2, <1>3

LEMMA ReadSame ==
  ASSUME NEW p, Sound(p), NEW b \in Buffers, NEW s \in Songs
  PROVE  Same(p, ReadChunk(p, b, s))
<1>1. p.buf \in [Buffers -> BufferRecords] /\ p \in Pools /\ p.song \in [Songs -> SongRecords]
  BY DEF Sound, Pools
<1> QED BY <1>1 DEF Same, ReadChunk, Pools, BufferRecords, SongRecords

LEMMA CompleteSame ==
  ASSUME NEW p, Sound(p), NEW s
  PROVE  Same(p, Complete(p, s))
<1> DEFINE q == Complete(p, s)
           rec(b) == [p.buf[b] EXCEPT !.status = Raise(p.buf[b].status, EBS_PLAYED)]
           Alike(r, o) == /\ r.key = o.key /\ r.track = o.track /\ r.first = o.first
                          /\ r.last = o.last /\ r.alloc = o.alloc /\ r.written = o.written
                          /\ o.status >= EBS_BUFFERED => r.status >= EBS_BUFFERED
<1>1. \A b \in Buffers : p.buf[b] \in BufferRecords
  BY DEF Sound, Pools
<1>2. (\A b \in Buffers : q.buf[b] = rec(b) \/ q.buf[b] = p.buf[b]) /\ q.key = p.key /\ q.song = p.song
  BY DEF Sound, Pools, Complete
<1>3. \A b \in Buffers : Alike(rec(b), p.buf[b])
  BY <1>1 DEF BufferRecords, Raise, EBS_BUFFERED, EBS_PLAYED
<1> HIDE DEF q, rec
<1>4. \A b \in Buffers : Alike(q.buf[b], p.buf[b])
  BY <1>2, <1>3
<1>5. Same(p, q)
  BY <1>2, <1>4 DEF Same
<1> QED BY <1>5 DEF q

LEMMA RewoundSame ==
  ASSUME NEW p, Sound(p), NEW T
  PROVE  Same(p, Rewound(p, T))
<1> DEFINE q == Rewound(p, T)
           rec(b) == [p.buf[b] EXCEPT !.read = 0,
                        !.status = IF p.buf[b].status >= EBS_BUFFERED THEN EBS_LOADED ELSE p.buf[b].status]
           Alike(r, o) == /\ r.key = o.key /\ r.track = o.track /\ r.first = o.first
                          /\ r.last = o.last /\ r.alloc = o.alloc /\ r.written = o.written
                          /\ o.status >= EBS_BUFFERED => r.status >= EBS_BUFFERED
<1>1. \A b \in Buffers : p.buf[b] \in BufferRecords
  BY DEF Sound, Pools
<1>2. (\A b \in Buffers : q.buf[b] = rec(b) \/ q.buf[b] = p.buf[b]) /\ q.key = p.key
  BY DEF Sound, Pools, Rewound
<1>3. \A s \in Songs : q.song[s].buffered = p.song[s].buffered
  BY DEF Sound, Pools, Rewound, SongRecords
<1>4. \A b \in Buffers : Alike(rec(b), p.buf[b])
  BY <1>1 DEF BufferRecords, EBS_BUFFERED, EBS_LOADED
<1> HIDE DEF q, rec
<1>5. \A b \in Buffers : Alike(q.buf[b], p.buf[b])
  BY <1>2, <1>4
<1>6. Same(p, q)
  BY <1>2, <1>3, <1>5 DEF Same
<1> QED BY <1>6 DEF q

LEMMA CleanupSame ==
  ASSUME NEW p, Sound(p), NEW s \in Songs
  PROVE  Same(p, Cleanup(p, s)) /\ Same(p, CleanupAll(p))
<1> DEFINE q == Rewound(p, BuffersOf(p, s))
<1>1. Sound(q) /\ Same(p, q)
  BY RewoundSound, RewoundSame
<1>2. Cleanup(p, s) = [q EXCEPT !.song = [q.song EXCEPT ![s] = [q.song[s] EXCEPT !.read = 0]]]
  BY DEF Cleanup
<1> HIDE DEF q
<1>3. /\ Cleanup(p, s).buf = q.buf /\ Cleanup(p, s).key = q.key
      /\ \A u \in Songs : Cleanup(p, s).song[u].buffered = q.song[u].buffered
  BY <1>1, <1>2 DEF Sound, Pools, SongRecords
<1>4. Same(p, Cleanup(p, s))
  BY <1>1, <1>3 DEF Same
<1> QED BY <1>4, RewoundSame DEF CleanupAll

-----------------------------------------------------------------------------
(* Release: of a song all buffers go, or none. *)

Gone(p, q, S) ==
  /\ q.key = p.key
  /\ \A b \in Buffers : q.buf[b] = IF b \in S THEN EmptyBuffer ELSE p.buf[b]
  /\ \A s \in Songs : q.song[s].buffered => p.song[s].buffered
WholeSongs(p, S) ==
  \A s \in Songs : \A b, c \in BuffersOf(p, s) : b \in S => c \in S

LEMMA ReleaseGone ==
  ASSUME NEW p, Sound(p), NEW S, NEW T
  PROVE  Gone(p, Release(p, S), S) /\ Gone(p, Release(ResetSongs(p, T), S), S)
<1> DEFINE r == ResetSongs(p, T)
<1>1. p \in Pools /\ p.buf \in [Buffers -> BufferRecords] /\ p.song \in [Songs -> SongRecords]
  BY DEF Sound, Pools
<1>2. Gone(p, Release(p, S), S)
  BY <1>1 DEF Gone, Release, Pools
<1>3. /\ r.buf = p.buf /\ r.key = p.key /\ r \in Pools
      /\ \A s \in Songs : r.song[s].buffered => p.song[s].buffered
  <2>1. Sound(r)
    BY ResetSongsSound
  <2> QED BY <1>1, <2>1 DEF ResetSongs, ClearedSong, Pools, SongRecords, Sound
<1> HIDE DEF r
<1>4. Gone(p, Release(r, S), S)
  BY <1>1, <1>3 DEF Gone, Release, Pools
<1> QED BY <1>2, <1>4 DEF r

LEMMA GoneOrder ==
  ASSUME NEW p, NEW q, NEW S, Sound(p), Gone(p, q, S), WholeSongs(p, S), DecodingOrder(p), Started(p)
  PROVE  /\ DecodingOrder(q) /\ Started(q)
         /\ \A s : BuffersOf(q, s) = BuffersOf(p, s) \ S
         /\ \A b \in Buffers : q.buf[b].track # Nil => q.buf[b] = p.buf[b]
<1>1. EmptyBuffer.track = Nil /\ EmptyBuffer.alloc = FALSE
  BY DEF EmptyBuffer
<1>2. \A b \in Buffers : /\ b \in S => q.buf[b].track = Nil /\ q.buf[b].alloc = FALSE
                         /\ b \notin S => q.buf[b] = p.buf[b]
  BY <1>1 DEF Gone
<1>3. \A s : BuffersOf(q, s) = BuffersOf(p, s) \ S
  BY <1>2 DEF BuffersOf
<1>4. Allocated(q) \subseteq Allocated(p)
  BY <1>2 DEF Allocated
<1>5. \A d \in Allocated(q) : d \in Buffers /\ q.buf[d] = p.buf[d] /\ SongIn(q, d) = SongIn(p, d)
  BY <1>2 DEF Allocated, SongIn
<1>6. \A s : \A b \in BuffersOf(q, s) : b \in Buffers /\ b \in BuffersOf(p, s) /\ q.buf[b] = p.buf[b]
  BY <1>2, <1>3 DEF BuffersOf
<1>7. DecodingOrder(q)
  <2> SUFFICES ASSUME NEW s \in Songs, NEW b \in BuffersOf(q, s), NEW c \in BuffersOf(q, s),
                      q.buf[b].key < q.buf[c].key
               PROVE  Follows(q, s, b, c)
    BY DEF DecodingOrder
  <2>1. Follows(p, s, b, c)
    BY <1>6 DEF DecodingOrder
  <2> QED BY <1>4, <1>5, <1>6, <2>1 DEF Follows
<1>8. Started(q)
  <2> SUFFICES ASSUME NEW s \in Songs, HasSong(q, s) PROVE \E b \in Buffers : Starting(q, s, b)
    BY DEF Started
  <2>1. PICK c : c \in BuffersOf(p, s) /\ c \notin S
    BY <1>3 DEF HasSong
  <2>2. PICK b \in Buffers : Starting(p, s, b)
    BY <2>1 DEF Started, HasSong
  <2>3. b \notin S
    BY <2>1, <2>2 DEF WholeSongs, Starting
  <2>4. b \in BuffersOf(q, s)
    BY <1>3, <2>2, <2>3 DEF Starting
  <2> QED BY <1>6, <2>2, <2>4 DEF Starting
<1>9. \A b \in Buffers : q.buf[b].track # Nil => q.buf[b] = p.buf[b]
  BY <1>2
<1> QED BY <1>3, <1>7, <1>8, <1>9

(* Buffers chosen by their track: those of a song have the same one. *)
LEMMA OneTrackPerSong ==
  ASSUME NEW p, Sound(p), DecodingOrder(p), NEW s \in Songs,
         NEW b \in BuffersOf(p, s), NEW c \in BuffersOf(p, s)
  PROVE  p.buf[b].track = p.buf[c].track
<1>1. /\ b \in Allocated(p) /\ c \in Allocated(p)
      /\ p.buf[b].key \in Nat /\ p.buf[c].key \in Nat
  BY BuffersOfType
<1>2. CASE p.buf[b].key < p.buf[c].key
  BY <1>2 DEF DecodingOrder, Follows
<1>3. CASE p.buf[c].key < p.buf[b].key
  BY <1>3 DEF DecodingOrder, Follows
<1>4. CASE p.buf[b].key = p.buf[c].key
  BY <1>1, <1>4 DEF Sound, Keyed
<1> QED BY <1>1, <1>2, <1>3, <1>4

LEMMA ResetsWhole ==
  ASSUME NEW p, Sound(p), DecodingOrder(p)
  PROVE  /\ \A s \in Songs : WholeSongs(p, BuffersOf(p, s))
         /\ WholeSongs(p, Buffers)
         /\ \A removed, keep : WholeSongs(p, Collectable(p, removed, keep))
         /\ \A hash, hardware, type, index, range :
              WholeSongs(p, Disposable(p, hash, hardware, type, index, range))
<1>1. \A s \in Songs : \A b, c \in BuffersOf(p, s) : p.buf[b].track = p.buf[c].track
  BY OneTrackPerSong
<1>2. \A s : BuffersOf(p, s) \subseteq Buffers
  BY DEF BuffersOf
<1>3. \A s \in Songs : WholeSongs(p, BuffersOf(p, s))
  BY DEF WholeSongs, BuffersOf
<1>4. WholeSongs(p, Buffers)
  BY <1>2 DEF WholeSongs
<1>5. \A removed, keep : WholeSongs(p, Collectable(p, removed, keep))
  BY <1>1, <1>2 DEF WholeSongs, Collectable
<1>6. \A hash, hardware, type, index, range :
        WholeSongs(p, Disposable(p, hash, hardware, type, index, range))
  BY <1>1, <1>2 DEF WholeSongs, Disposable
<1> QED BY <1>3, <1>4, <1>5, <1>6

-----------------------------------------------------------------------------
(* The buffer the decoder works on. *)

(* allocate(): an empty buffer gets the largest key. *)
LEMMA AllocateOrder ==
  ASSUME NEW p, Sound(p), DecodingOrder(p), Started(p), NEW b \in Buffers, IsEmpty(p, b)
  PROVE  LET q == Allocate(p, b)
         IN  /\ DecodingOrder(q) /\ Started(q)
             /\ q.buf[b].key = q.key /\ q.buf[b].track = Nil
             /\ \A s : BuffersOf(q, s) = BuffersOf(p, s)
             /\ \A s : AtTail(p, s) => AtTail(q, s)
             /\ \A t : Continuable(p, t) => Continuable(q, t)
             /\ \A c \in Buffers : c # b => q.buf[c] = p.buf[c]
             /\ p.buf[b].track = Nil
             /\ q.song = p.song
<1> DEFINE q == Allocate(p, b)
<1>1. p \in Pools /\ ~p.buf[b].alloc /\ p.buf[b] = EmptyBuffer
  BY EmptyNotAllocated DEF Sound, Keyed
<1>2. p.buf[b].track = Nil
  BY <1>1 DEF EmptyBuffer
<1>3. /\ \A c \in Buffers : c # b => q.buf[c] = p.buf[c]
      /\ q.buf[b].key = p.key + 1 /\ q.buf[b].track = Nil /\ q.buf[b].alloc
      /\ q.key = p.key + 1 /\ q.song = p.song
  BY <1>1, <1>2 DEF Allocate, Pools, BufferRecords
<1> HIDE DEF q
<1>4. \A s : BuffersOf(q, s) = BuffersOf(p, s)
  BY <1>2, <1>3 DEF BuffersOf
<1>5. \A s : \A c \in BuffersOf(p, s) : c \in Buffers /\ c # b /\ q.buf[c] = p.buf[c]
  BY <1>2, <1>3 DEF BuffersOf
<1>6. \A d \in Allocated(q) : \/ d = b /\ SongIn(q, d) = Nil
                              \/ d \in Allocated(p) /\ q.buf[d] = p.buf[d] /\ SongIn(q, d) = SongIn(p, d)
  BY <1>3 DEF Allocated, SongIn
<1>7. DecodingOrder(q)
  <2>1. \A s \in Songs : \A c, d \in BuffersOf(p, s) : Follows(p, s, c, d) => Follows(q, s, c, d)
    BY <1>5, <1>6 DEF Follows
  <2> QED BY <1>4, <1>5, <2>1 DEF DecodingOrder
<1>8. Started(q)
  <2>1. \A s, c : Starting(p, s, c) => Starting(q, s, c)
    BY <1>4, <1>5 DEF Starting
  <2> QED BY <1>4, <2>1 DEF Started, HasSong
<1>9. \A s : AtTail(p, s) => AtTail(q, s)
  BY <1>4, <1>5, <1>6 DEF AtTail
<1>10. \A t : Continuable(p, t) => Continuable(q, t)
  BY <1>4, <1>5 DEF Continuable
<1> QED BY <1>2, <1>3, <1>4, <1>7, <1>8, <1>9, <1>10 DEF q

(* A change of the buffer with the largest key: whether it is the last one,
   its status and what is written are free. *)
Touches(p, q, b) ==
  /\ q.key = p.key
  /\ \A c \in Buffers : c # b => q.buf[c] = p.buf[c]
  /\ q.buf[b].key = p.buf[b].key /\ q.buf[b].alloc = p.buf[b].alloc

LEMMA TopOrder ==
  ASSUME NEW p, NEW q, NEW b \in Buffers, Sound(p), DecodingOrder(p), Started(p), Touches(p, q, b),
         p.buf[b].alloc, p.buf[b].key = p.key,
         q.buf[b].track = p.buf[b].track, q.buf[b].first = p.buf[b].first
  PROVE  /\ DecodingOrder(q) /\ Started(q)
         /\ \A s : BuffersOf(q, s) = BuffersOf(p, s)
         /\ \A s : AtTail(p, s) => AtTail(q, s)
<1>1. \A c \in Buffers : /\ q.buf[c].key = p.buf[c].key /\ q.buf[c].alloc = p.buf[c].alloc
                         /\ q.buf[c].track = p.buf[c].track /\ q.buf[c].first = p.buf[c].first
                         /\ SongIn(q, c) = SongIn(p, c)
  BY DEF Touches, SongIn
<1>2. (\A s : BuffersOf(q, s) = BuffersOf(p, s)) /\ Allocated(q) = Allocated(p)
  BY <1>1 DEF BuffersOf, Allocated
<1>3. (\A s : BuffersOf(p, s) \subseteq Buffers) /\ Allocated(p) \subseteq Buffers
  BY DEF BuffersOf, Allocated
<1>4. DecodingOrder(q)
  <2> SUFFICES ASSUME NEW s \in Songs, NEW c \in BuffersOf(p, s), NEW d \in BuffersOf(p, s),
                      p.buf[c].key < p.buf[d].key
               PROVE  Follows(q, s, c, d)
    BY <1>1, <1>2, <1>3 DEF DecodingOrder
  <2>1. c \in Buffers /\ d \in Buffers /\ p.buf[c].key \in Nat /\ p.buf[d].key \in Nat
        /\ p.buf[d].key <= p.key
    BY BuffersOfType
  <2>2. c # b /\ q.buf[c] = p.buf[c]
    BY <2>1 DEF Touches, Sound, Pools
  <2>3. Follows(p, s, c, d)
    BY DEF DecodingOrder
  <2> QED BY <1>1, <1>2, <1>3, <2>1, <2>2, <2>3 DEF Follows
<1>5. Started(q)
  <2>1. \A s, c : Starting(p, s, c) => Starting(q, s, c)
    BY <1>1, <1>2, <1>3 DEF Starting
  <2> QED BY <1>2, <2>1 DEF Started, HasSong
<1>6. \A s : AtTail(p, s) => AtTail(q, s)
  BY <1>1, <1>2, <1>3 DEF AtTail
<1> QED BY <1>2, <1>4, <1>5, <1>6

(* The buffer with the largest key is given its track. *)
LEMMA OpenOrder ==
  ASSUME NEW p, NEW q, NEW b \in Buffers, NEW t \in Tracks,
         Sound(p), DecodingOrder(p), Started(p), Touches(p, q, b),
         p.buf[b].alloc, p.buf[b].key = p.key, p.buf[b].track = Nil,
         q.buf[b].track = t, q.buf[b].first <=> ~HasSong(p, SongOf[t]),
         AtTail(p, SongOf[t]), Continuable(p, t)
  PROVE  /\ DecodingOrder(q) /\ Started(q) /\ AtTail(q, SongOf[t])
         /\ BuffersOf(q, SongOf[t]) = BuffersOf(p, SongOf[t]) \cup {b}
         /\ \A s : s # SongOf[t] => BuffersOf(q, s) = BuffersOf(p, s)
<1> DEFINE u == SongOf[t]
<1>1. u \in Songs /\ t # Nil /\ u # Nil
  BY PoolAssumption
<1>2. BuffersOf(q, u) = BuffersOf(p, u) \cup {b} /\ b \notin BuffersOf(p, u)
  BY <1>1 DEF BuffersOf, Touches
<1>3. \A s : s # u => BuffersOf(q, s) = BuffersOf(p, s) /\ b \notin BuffersOf(p, s)
  BY <1>1 DEF BuffersOf, Touches
<1>4. Allocated(q) = Allocated(p) /\ Allocated(p) \subseteq Buffers
  BY DEF Allocated, Touches
<1>5. (\A c \in Buffers : c # b => SongIn(q, c) = SongIn(p, c)) /\ SongIn(q, b) = u /\ SongIn(p, b) = Nil
  BY <1>1 DEF SongIn, Touches
<1>6. \A c \in Buffers : q.buf[c].key = p.buf[c].key
  BY DEF Touches
<1>7. \A d \in Allocated(p) : d \in Buffers /\ p.buf[d].key \in Nat /\ p.buf[d].key <= p.buf[b].key
                              /\ p.buf[b].key \in Nat
                              /\ (p.buf[d].key = p.buf[b].key => d = b)
  BY AllocatedType DEF Sound, Keyed, Allocated
<1>8. \A s : \A c \in BuffersOf(p, s) : c \in Buffers /\ c \in Allocated(p) /\ c # b /\ q.buf[c] = p.buf[c]
  <2>1. \A s : \A c \in BuffersOf(p, s) : c \in Buffers /\ c \in Allocated(p)
    BY BuffersOfType
  <2> QED BY <1>2, <1>3, <2>1 DEF Touches
<1>9. AtTail(q, u)
  <2> SUFFICES ASSUME NEW c \in BuffersOf(q, u), NEW d \in Allocated(p), q.buf[c].key <= q.buf[d].key
               PROVE  SongIn(q, d) \in {u, Nil}
    BY <1>4 DEF AtTail
  <2>1. CASE d = b
    BY <2>1, <1>5
  <2>2. CASE d # b
    <3>1. c \in BuffersOf(p, u)
      <4>1. c # b
        BY <1>6, <1>7, <2>2, <1>4
      <4> QED BY <1>2, <4>1
    <3>2. SongIn(p, d) \in {u, Nil}
      BY <1>6, <1>7, <1>8, <3>1 DEF AtTail
    <3> QED BY <1>4, <1>5, <2>2, <3>2
  <2> QED BY <2>1, <2>2
<1>10. DecodingOrder(q)
  <2> SUFFICES ASSUME NEW s \in Songs, NEW c \in BuffersOf(q, s), NEW d \in BuffersOf(q, s),
                      q.buf[c].key < q.buf[d].key
               PROVE  Follows(q, s, c, d)
    BY DEF DecodingOrder
  <2>1. c \in Buffers /\ d \in Buffers /\ c \in Allocated(p) /\ d \in Allocated(p)
    BY <1>2, <1>3, <1>8 DEF Allocated
  <2>2. c # b
    BY <1>6, <1>7, <2>1
  <2>3. c \in BuffersOf(p, s) /\ q.buf[c] = p.buf[c]
    BY <1>2, <1>3, <1>8, <2>2
  <2>4. CASE d = b
    <3>1. s = u
      BY <1>2, <1>3, <2>4
    <3>2. p.buf[c].track = t /\ ~p.buf[c].last /\ p.buf[c].written = BufferSize
      BY <2>3, <3>1 DEF Continuable
    <3>3. ~q.buf[d].first /\ q.buf[d].track = t
      BY <2>3, <2>4, <3>1 DEF HasSong
    <3>4. \A e \in Allocated(q) : q.buf[c].key <= q.buf[e].key => SongIn(q, e) \in {s, Nil}
      BY <1>9, <3>1 DEF AtTail
    <3> QED BY <2>3, <3>2, <3>3, <3>4 DEF Follows
  <2>5. CASE d # b
    <3>1. d \in BuffersOf(p, s) /\ q.buf[d] = p.buf[d]
      BY <1>2, <1>3, <1>8, <2>5
    <3>2. Follows(p, s, c, d)
      BY <2>3, <3>1 DEF DecodingOrder
    <3>3. \A e \in Allocated(q) : q.buf[e].key <= q.buf[d].key => e # b /\ e \in Buffers
      BY <1>4, <1>6, <1>7, <2>1, <2>5
    <3> QED BY <1>4, <1>5, <1>6, <2>3, <3>1, <3>2, <3>3 DEF Follows
  <2> QED BY <2>4, <2>5
<1>11. Started(q)
  <2> SUFFICES ASSUME NEW s \in Songs, HasSong(q, s) PROVE \E c \in Buffers : Starting(q, s, c)
    BY DEF Started
  <2>1. CASE HasSong(p, s)
    <3>1. PICK c \in Buffers : Starting(p, s, c)
      BY <2>1 DEF Started
    <3>2. c \in BuffersOf(p, s) /\ p.buf[c].first
      BY <3>1 DEF Starting
    <3>3. c \in BuffersOf(q, s) /\ q.buf[c] = p.buf[c]
      BY <1>2, <1>3, <1>8, <3>2
    <3>4. \A d \in BuffersOf(q, s) : q.buf[c].key <= q.buf[d].key
      <4> TAKE d \in BuffersOf(q, s)
      <4>1. CASE d = b
        BY <1>6, <1>7, <1>8, <3>2, <4>1
      <4>2. CASE d # b
        <5>1. d \in BuffersOf(p, s) /\ q.buf[d] = p.buf[d]
          BY <1>2, <1>3, <1>8, <4>2
        <5> QED BY <3>1, <3>3, <5>1 DEF Starting
      <4> QED BY <4>1, <4>2
    <3> QED BY <3>2, <3>3, <3>4 DEF Starting
  <2>2. CASE ~HasSong(p, s)
    <3>1. s = u /\ BuffersOf(q, s) = {b}
      BY <1>2, <1>3, <2>2 DEF HasSong
    <3>2. q.buf[b].first /\ q.buf[b].key \in Nat
      BY <1>6, <1>7, <2>2, <3>1 DEF Allocated, Sound, Pools
    <3> QED BY <3>1, <3>2 DEF Starting
  <2> QED BY <2>1, <2>2
<1> QED BY <1>2, <1>3, <1>9, <1>10, <1>11

-----------------------------------------------------------------------------
(* The specification. *)

Working == decoder.stage # "idle" /\ ~cleared
Opened == {"writing", "written", "checked", "switch", "eof", "finished"}
NewSong == SongOf[decoder.track]

(* What the decoder finds again after it let go of alsaMtx. *)
DecoderView ==
  /\ pool.buf[decoder.buffer].key = pool.key
  /\ AtTail(pool, NewSong)
  /\ decoder.stage \in {"allocated", "continue"} =>
       /\ pool.buf[decoder.buffer].track = Nil
       /\ Continuable(pool, decoder.track)
       /\ HasSong(pool, NewSong) <=> decoder.stage = "continue"
  /\ decoder.stage \in Opened =>
       /\ pool.buf[decoder.buffer].track = decoder.track
       /\ pool.song[NewSong].buffered /\ pool.buf[decoder.buffer].first
            => pool.buf[decoder.buffer].status >= EBS_BUFFERED
  /\ decoder.stage \in {"switch", "eof", "finished"} => pool.buf[decoder.buffer].status >= EBS_BUFFERED
  /\ decoder.stage \in Opened \ {"finished"} => ~pool.buf[decoder.buffer].last
  /\ decoder.stage = "switch" => pool.buf[decoder.buffer].written = BufferSize

(* The buffers the decoder has left behind can be played. *)
OthersBuffered ==
  \A b \in Buffers : pool.buf[b].track # Nil =>
    pool.buf[b].status >= EBS_BUFFERED \/ (Working /\ b = decoder.buffer)

DecodeInv == DecodingOrder(pool) /\ Started(pool) /\ OthersBuffered /\ (Working => DecoderView)

LEMMA DecodeInvInit == Init => DecodeInv
<1> SUFFICES ASSUME Init PROVE DecodeInv
  OBVIOUS
<1>1. \A b \in Buffers : pool.buf[b].track = Nil
  BY DEF Init, InitialPool, EmptyBuffer
<1>2. \A s : BuffersOf(pool, s) = {}
  BY <1>1 DEF BuffersOf
<1>3. ~Working
  BY DEF Init, Idle, Working
<1> QED BY <1>1, <1>2, <1>3 DEF DecodeInv, DecodingOrder, Started, HasSong, OthersBuffered

(* Steps of the others. *)
LEMMA SameStep ==
  ASSUME PoolInv, DecodeInv, Same(pool, pool'), decoder' = decoder, cleared' = cleared
  PROVE  DecodeInv'
<1>1. DecodingOrder(pool') /\ Started(pool')
  BY SameOrder DEF DecodeInv
<1>2. OthersBuffered' /\ Working' = Working
  BY DEF DecodeInv, OthersBuffered, Same, Working
<1>3. ASSUME Working PROVE DecoderView'
  <2>1. decoder.buffer \in Buffers /\ decoder.track \in Tracks /\ NewSong \in Songs
    BY <1>3, PoolAssumption DEF Working, PoolInv, TypeOK, NewSong
  <2>2. DecoderView
    BY <1>3 DEF DecodeInv
  <2>3. /\ AtTail(pool, NewSong) => AtTail(pool', NewSong)
        /\ Continuable(pool, decoder.track) => Continuable(pool', decoder.track)
        /\ HasSong(pool', NewSong) <=> HasSong(pool, NewSong)
    BY SameOrder DEF HasSong
  <2>4. NewSong' = NewSong
    BY DEF NewSong
  <2> QED BY <2>1, <2>2, <2>3, <2>4 DEF DecoderView, Same
<1>4. DecodingOrder(pool)' /\ Started(pool)'
  BY <1>1 DEF DecodingOrder, Follows, Started, Starting, HasSong, BuffersOf, Allocated, SongIn
<1> QED BY <1>2, <1>3, <1>4 DEF DecodeInv

(* Steps that release whole songs and leave the decoder idle, or told. *)
LEMMA GoneStep ==
  ASSUME PoolInv, DecodeInv, NEW S, Gone(pool, pool', S), WholeSongs(pool, S), ~Working',
         Working => decoder.buffer \in S \/ pool.buf[decoder.buffer].status >= EBS_BUFFERED
  PROVE  DecodeInv'
<1>1. /\ DecodingOrder(pool') /\ Started(pool')
      /\ \A b \in Buffers : pool'.buf[b].track # Nil => pool'.buf[b] = pool.buf[b] /\ b \notin S
  <2>1. \A b \in Buffers : b \in S => pool'.buf[b].track = Nil
    BY DEF Gone, EmptyBuffer
  <2> QED BY <2>1, GoneOrder DEF PoolInv, DecodeInv
<1>2. ASSUME NEW b \in Buffers, pool'.buf[b].track # Nil
      PROVE  pool'.buf[b].status >= EBS_BUFFERED
  <2>1. pool'.buf[b] = pool.buf[b] /\ b \notin S /\ pool.buf[b].track # Nil
    BY <1>1, <1>2
  <2>2. pool.buf[b].status >= EBS_BUFFERED \/ (Working /\ b = decoder.buffer)
    BY <2>1 DEF DecodeInv, OthersBuffered
  <2> QED BY <2>1, <2>2
<1>3. OthersBuffered'
  BY <1>2 DEF OthersBuffered
<1> QED BY <1>1, <1>3 DEF DecodeInv

(* Steps of the decoder on the buffer it has opened. *)
LEMMA TopStep ==
  ASSUME PoolInv, DecodeInv, Working, decoder.stage \in Opened, Touches(pool, pool', decoder.buffer),
         pool'.buf[decoder.buffer].track = decoder.track,
         pool'.buf[decoder.buffer].first = pool.buf[decoder.buffer].first,
         decoder'.buffer = decoder.buffer, decoder'.track = decoder.track, cleared' = cleared,
         decoder'.stage \in Opened,
         pool'.song[NewSong].buffered /\ pool'.buf[decoder.buffer].first
            => pool'.buf[decoder.buffer].status >= EBS_BUFFERED,
         decoder'.stage \in {"switch", "eof", "finished"} => pool'.buf[decoder.buffer].status >= EBS_BUFFERED,
         decoder'.stage \in Opened \ {"finished"} => ~pool'.buf[decoder.buffer].last,
         decoder'.stage = "switch" => pool'.buf[decoder.buffer].written = BufferSize
  PROVE  DecodeInv'
<1>1. decoder.buffer \in Buffers /\ Sound(pool) /\ pool.buf[decoder.buffer].alloc
  BY DEF Working, PoolInv, TypeOK
<1>2. /\ pool.buf[decoder.buffer].key = pool.key /\ pool.buf[decoder.buffer].track = decoder.track
      /\ AtTail(pool, NewSong)
  BY DEF DecodeInv, DecoderView
<1>3. DecodingOrder(pool') /\ Started(pool') /\ AtTail(pool', NewSong)
  BY <1>1, <1>2, TopOrder DEF DecodeInv
<1>4. Working' /\ NewSong' = NewSong /\ decoder'.stage \notin {"allocated", "continue"}
  BY DEF Working, Opened, NewSong
<1>5. DecoderView'
  BY <1>2, <1>3, <1>4 DEF DecoderView, Touches
<1>6. OthersBuffered'
  BY <1>4 DEF DecodeInv, OthersBuffered, Touches
<1> QED BY <1>3, <1>5, <1>6 DEF DecodeInv

(* getNextEmptyBuffer() and allocate(), for a new song or for one that goes on. *)
LEMMA AllocateStep ==
  ASSUME PoolInv, DecodeInv, NEW b \in Buffers, IsEmpty(pool, b), pool' = Allocate(pool, b),
         decoder'.buffer = b, Working', AtTail(pool, NewSong'), Continuable(pool, decoder'.track),
         \/ decoder'.stage = "allocated" /\ ~HasSong(pool, NewSong')
         \/ decoder'.stage = "continue" /\ HasSong(pool, NewSong'),
         Working => pool.buf[decoder.buffer].status >= EBS_BUFFERED
  PROVE  DecodeInv'
<1>1. Sound(pool) /\ DecodingOrder(pool) /\ Started(pool)
  BY DEF PoolInv, DecodeInv
<1>2. /\ DecodingOrder(pool') /\ Started(pool')
      /\ pool'.buf[b].key = pool'.key /\ pool'.buf[b].track = Nil
      /\ HasSong(pool', NewSong') <=> HasSong(pool, NewSong')
      /\ AtTail(pool', NewSong') /\ Continuable(pool', decoder'.track)
      /\ \A c \in Buffers : c # b => pool'.buf[c] = pool.buf[c]
  BY <1>1, AllocateOrder DEF HasSong
<1>3. DecoderView'
  BY <1>2 DEF DecoderView, Opened
<1>4. ASSUME NEW c \in Buffers, pool'.buf[c].track # Nil
      PROVE  pool'.buf[c].status >= EBS_BUFFERED
  <2>1. pool'.buf[c] = pool.buf[c] /\ pool.buf[c].track # Nil
    BY <1>2, <1>4
  <2>2. pool.buf[c].status >= EBS_BUFFERED \/ (Working /\ c = decoder.buffer)
    BY <2>1 DEF DecodeInv, OthersBuffered
  <2> QED BY <2>1, <2>2
<1>5. OthersBuffered'
  BY <1>4 DEF OthersBuffered
<1> QED BY <1>2, <1>3, <1>5 DEF DecodeInv

(* EBS_BUFFERING for the first buffer of a song, EBS_CONTINUE for the others. *)
LEMMA OpenStep ==
  ASSUME PoolInv, DecodeInv, Working, decoder.stage \in {"allocated", "continue"},
         Touches(pool, pool', decoder.buffer),
         pool'.buf[decoder.buffer].track = decoder.track, ~pool'.buf[decoder.buffer].last,
         pool'.buf[decoder.buffer].first <=> decoder.stage = "allocated",
         pool'.buf[decoder.buffer].first => ~pool'.song[NewSong].buffered,
         decoder' = [decoder EXCEPT !.stage = "writing"], cleared' = cleared
  PROVE  DecodeInv'
<1> DEFINE d == decoder.buffer
           t == decoder.track
<1>1. d \in Buffers /\ t \in Tracks /\ Sound(pool) /\ pool.buf[d].alloc /\ NewSong = SongOf[t]
  BY DEF Working, PoolInv, TypeOK, NewSong
<1>2. /\ pool.buf[d].key = pool.key /\ pool.buf[d].track = Nil
      /\ AtTail(pool, SongOf[t]) /\ Continuable(pool, t)
      /\ HasSong(pool, SongOf[t]) <=> decoder.stage = "continue"
  BY <1>1 DEF DecodeInv, DecoderView
<1>3. DecodingOrder(pool') /\ Started(pool') /\ AtTail(pool', SongOf[t])
  BY <1>1, <1>2, OpenOrder DEF DecodeInv
<1>4. decoder'.stage = "writing" /\ decoder'.buffer = d /\ decoder'.track = t
  BY DEF PoolInv, TypeOK
<1>5. Working' /\ NewSong' = SongOf[t]
  BY <1>4 DEF Working, NewSong
<1>6. DecoderView'
  BY <1>1, <1>2, <1>3, <1>4, <1>5 DEF DecoderView, Touches, Opened
<1>7. OthersBuffered'
  BY <1>4, <1>5 DEF DecodeInv, OthersBuffered, Touches
<1> QED BY <1>3, <1>6, <1>7 DEF DecodeInv

(* A buffer is full, and the song goes on. *)
LEMMA FullContinues ==
  ASSUME PoolInv, DecodeInv, Working, decoder.stage = "switch"
  PROVE  Continuable(pool, decoder.track) /\ HasSong(pool, NewSong)
<1> DEFINE d == decoder.buffer
           t == decoder.track
<1>1. d \in Buffers /\ t \in Tracks /\ t # Nil /\ Sound(pool) /\ NewSong = SongOf[t] /\ NewSong \in Songs
  BY PoolAssumption DEF Working, PoolInv, TypeOK, NewSong
<1>2. /\ pool.buf[d].key = pool.key /\ pool.buf[d].track = t
      /\ ~pool.buf[d].last /\ pool.buf[d].written = BufferSize
  BY DEF DecodeInv, DecoderView, Opened
<1>3. d \in BuffersOf(pool, NewSong)
  BY <1>1, <1>2 DEF BuffersOf
<1>4. ASSUME NEW b \in BuffersOf(pool, NewSong)
      PROVE  pool.buf[b].track = t /\ ~pool.buf[b].last /\ pool.buf[b].written = BufferSize
  <2>1. /\ b \in Allocated(pool) /\ d \in Allocated(pool)
        /\ pool.buf[b].key \in Nat /\ pool.buf[b].key <= pool.key /\ pool.key \in Nat
    BY <1>1, <1>2, <1>3, BuffersOfType
  <2>2. CASE pool.buf[b].key < pool.buf[d].key
    BY <1>1, <1>2, <1>3, <2>2 DEF DecodeInv, DecodingOrder, Follows
  <2>3. CASE pool.buf[b].key = pool.buf[d].key
    BY <1>1, <1>2, <2>1, <2>3 DEF Sound, Keyed
  <2> QED BY <1>2, <2>1, <2>2, <2>3
<1> QED BY <1>1, <1>3, <1>4 DEF Continuable, HasSong

LEMMA DecoderDecoding == PoolInv /\ DecodeInv /\ Decoder => DecodeInv'
<1> SUFFICES ASSUME PoolInv, DecodeInv, Decoder PROVE DecodeInv'
  OBVIOUS
<1> DEFINE d == decoder.buffer
           Decoders == [stage : Stages, buffer : Buffers \cup {Nil}, track : Tracks \cup {Nil},
                        buffered : BOOLEAN]
<1>1. /\ Sound(pool) /\ pool \in Pools /\ pool.buf \in [Buffers -> BufferRecords]
      /\ pool.song \in [Songs -> SongRecords]
      /\ DecodingOrder(pool)
      /\ decoder \in Decoders
      /\ Working => /\ d \in Buffers /\ decoder.track \in Tracks
                    /\ NewSong \in Songs /\ NewSong = SongOf[decoder.track]
                    /\ DecoderView
  BY PoolAssumption DEF PoolInv, TypeOK, Sound, Pools, DecodeInv, Working, NewSong
<1>2. \A c \in Buffers : pool.buf[c] \in BufferRecords
  BY <1>1
<1>3. ASSUME NEW t \in Tracks, DecoderAllocate(t) PROVE DecodeInv'
  <2>1. PICK b \in Buffers : /\ IsEmpty(pool, b)
                            /\ pool' = Allocate(pool, b)
                            /\ decoder' = [stage |-> "allocated", buffer |-> b, track |-> t, buffered |-> FALSE]
    BY <1>3 DEF DecoderAllocate, NextEmptyBuffers
  <2>2. ~HasSong(pool, SongOf[t])
    BY <1>3, PoolAssumption DEF DecoderAllocate, NextEmptyBuffers
  <2>3. AtTail(pool, SongOf[t]) /\ Continuable(pool, t)
    BY <2>2 DEF HasSong, AtTail, Continuable
  <2>4. Working' /\ NewSong' = SongOf[t] /\ ~Working
    BY <1>3, <2>1 DEF Working, NewSong, DecoderAllocate, DecoderAt
  <2> QED BY <2>1, <2>2, <2>3, <2>4, AllocateStep
<1>4. CASE DecoderOpen
  <2>1. Working /\ decoder.stage = "allocated" /\ decoder' = [decoder EXCEPT !.stage = "writing"]
        /\ cleared' = cleared /\ pool' = OperateBuffering(pool, d, decoder.track)
    BY <1>4 DEF DecoderOpen, DecoderAt, Working
  <2>2. Touches(pool, pool', d) /\ pool'.buf[d].track = decoder.track
        /\ ~pool'.buf[d].last /\ pool'.buf[d].first
    BY <1>1, <1>2, <2>1 DEF OperateBuffering, Touches, Pools, BufferRecords
  <2>3. ~pool'.song[NewSong].buffered
    BY <1>1, <2>1 DEF OperateBuffering, Pools, ClearedSong
  <2> QED BY <2>1, <2>2, <2>3, OpenStep
<1>5. CASE DecoderWrite
  <2>1. Working /\ decoder.stage = "writing" /\ decoder' = [decoder EXCEPT !.stage = "written"]
        /\ cleared' = cleared /\ pool' = WriteChunk(pool, d, NewSong)
    BY <1>5 DEF DecoderWrite, DecoderAt, Working, NewSong
  <2>2. Touches(pool, pool', d) /\ pool'.buf[d].track = pool.buf[d].track
        /\ pool'.buf[d].first = pool.buf[d].first /\ pool'.buf[d].last = pool.buf[d].last
        /\ pool'.buf[d].status = pool.buf[d].status
    BY <1>1, <1>2, <2>1 DEF WriteChunk, Touches, Pools, BufferRecords
  <2>3. pool'.song[NewSong].buffered = pool.song[NewSong].buffered
    BY <1>1, <2>1 DEF WriteChunk, Pools, SongRecords
  <2>4. decoder'.stage = "written" /\ decoder'.buffer = d /\ decoder'.track = decoder.track
    BY <1>1, <2>1
  <2>5. DecoderView
    BY <1>1, <2>1
  <2> QED BY <2>1, <2>2, <2>3, <2>4, <2>5, TopStep DEF DecoderView, Opened
<1>6. CASE DecoderEndOfFile \/ DecoderThreshold
  <2>1. Working /\ decoder.stage \in {"writing", "written"}
        /\ cleared' = cleared /\ pool' = OperateBuffered(pool, d, decoder.track)
        /\ decoder'.stage \in {"eof", "checked"} /\ decoder'.buffer = d /\ decoder'.track = decoder.track
    BY <1>1, <1>6 DEF DecoderEndOfFile, DecoderThreshold, DecoderAt, Working
  <2>2. DecoderView
    BY <1>1, <2>1
  <2>3. pool.buf[d].track = decoder.track /\ decoder.track # Nil /\ ~pool.buf[d].last
    BY <1>1, <2>1, <2>2, PoolAssumption DEF DecoderView, Opened
  <2>4. Touches(pool, pool', d) /\ pool'.buf[d].track = decoder.track
        /\ pool'.buf[d].first = pool.buf[d].first /\ pool'.buf[d].last = pool.buf[d].last
        /\ pool'.buf[d].status >= EBS_BUFFERED
    BY <1>1, <1>2, <2>1, <2>3 DEF OperateBuffered, Touches, Pools, BufferRecords, Raise, EBS_BUFFERED
  <2> QED BY <2>1, <2>3, <2>4, TopStep DEF Opened
<1>7. CASE DecoderNextChunk
  <2>1. Working /\ decoder.stage \in {"written", "checked"}
        /\ cleared' = cleared /\ pool' = pool
        /\ decoder'.stage = "writing" /\ decoder'.buffer = d /\ decoder'.track = decoder.track
    BY <1>1, <1>7 DEF DecoderNextChunk, DecoderAt, Working
  <2>2. DecoderView
    BY <1>1, <2>1
  <2> QED BY <2>1, <2>2, TopStep DEF DecoderView, Opened, Touches
<1>8. CASE DecoderFull
  <2>1. Working /\ decoder.stage \in {"written", "checked"} /\ pool.buf[d].written = BufferSize
        /\ cleared' = cleared /\ pool' = OperateLoaded(pool, d)
        /\ decoder'.stage = "switch" /\ decoder'.buffer = d /\ decoder'.track = decoder.track
    BY <1>1, <1>8 DEF DecoderFull, DecoderAt, Working
  <2>2. Touches(pool, pool', d) /\ pool'.buf[d].track = pool.buf[d].track
        /\ pool'.buf[d].first = pool.buf[d].first /\ pool'.buf[d].last = pool.buf[d].last
        /\ pool'.buf[d].written = pool.buf[d].written
        /\ pool'.buf[d].status >= EBS_BUFFERED
    BY <1>1, <1>2, <2>1 DEF OperateLoaded, Touches, Pools, BufferRecords, Raise, EBS_BUFFERED, EBS_LOADED
  <2>3. DecoderView
    BY <1>1, <2>1
  <2> QED BY <2>1, <2>2, <2>3, TopStep DEF DecoderView, Opened
<1>9. CASE DecoderSwitch
  <2>1. PICK b \in Buffers : /\ IsEmpty(pool, b)
                            /\ pool' = Allocate(pool, b)
                            /\ decoder' = [decoder EXCEPT !.stage = "continue", !.buffer = b]
    BY <1>9 DEF DecoderSwitch, NextEmptyBuffers
  <2>2. Working /\ decoder.stage = "switch" /\ cleared' = cleared
    BY <1>9 DEF DecoderSwitch, DecoderAt, Working
  <2>3. decoder'.stage = "continue" /\ decoder'.buffer = b /\ decoder'.track = decoder.track
    BY <1>1, <2>1
  <2>4. Working' /\ NewSong' = NewSong
    BY <2>2, <2>3 DEF Working, NewSong
  <2>5. AtTail(pool, NewSong) /\ pool.buf[d].status >= EBS_BUFFERED
    BY <1>1, <2>2 DEF DecoderView
  <2>6. Continuable(pool, decoder.track) /\ HasSong(pool, NewSong)
    BY <2>2, FullContinues
  <2> QED BY <2>1, <2>3, <2>4, <2>5, <2>6, AllocateStep
<1>10. CASE DecoderContinue
  <2>1. Working /\ decoder.stage = "continue" /\ decoder' = [decoder EXCEPT !.stage = "writing"]
        /\ cleared' = cleared /\ pool' = OperateContinue(pool, d, decoder.track)
    BY <1>10 DEF DecoderContinue, DecoderAt, Working
  <2>2. Touches(pool, pool', d) /\ pool'.buf[d].track = decoder.track
        /\ ~pool'.buf[d].last /\ ~pool'.buf[d].first
    BY <1>1, <1>2, <2>1 DEF OperateContinue, Touches, Pools, BufferRecords
  <2> QED BY <2>1, <2>2, OpenStep
<1>11. CASE DecoderFinish
  <2>1. Working /\ decoder.stage = "eof"
        /\ cleared' = cleared /\ pool' = OperateFinished(pool, d)
        /\ decoder'.stage = "finished" /\ decoder'.buffer = d /\ decoder'.track = decoder.track
    BY <1>1, <1>11 DEF DecoderFinish, DecoderAt, Working
  <2>2. Touches(pool, pool', d) /\ pool'.buf[d].track = pool.buf[d].track
        /\ pool'.buf[d].first = pool.buf[d].first
        /\ pool'.buf[d].status >= EBS_BUFFERED
    BY <1>1, <1>2, <2>1 DEF OperateFinished, Touches, Pools, BufferRecords, Raise, EBS_BUFFERED, EBS_LOADED
  <2>3. DecoderView
    BY <1>1, <2>1
  <2> QED BY <2>1, <2>2, <2>3, TopStep DEF DecoderView, Opened
<1>12. CASE DecoderGarbage
  <2>1. PICK removed \in SUBSET Tracks, keep \in SUBSET Songs : pool' = CollectGarbage(pool, removed, keep)
    BY <1>12 DEF DecoderGarbage
  <2>2. ~Working' /\ decoder.stage = "finished"
    BY <1>12 DEF DecoderGarbage, DecoderAt, Idle, Working
  <2>3. Gone(pool, pool', Collectable(pool, removed, keep))
    BY <1>1, <2>1, ReleaseGone DEF CollectGarbage
  <2>4. WholeSongs(pool, Collectable(pool, removed, keep))
    BY <1>1, ResetsWhole
  <2>5. Working => pool.buf[d].status >= EBS_BUFFERED
    BY <1>1, <2>2 DEF DecoderView
  <2> QED BY <2>2, <2>3, <2>4, <2>5, GoneStep
<1>13. CASE DecoderFail
  <2>1. Working /\ decoder.stage \in {"writing", "written", "switch"} /\ pool' = ResetSong(pool, NewSong)
        /\ ~Working'
    BY <1>13 DEF DecoderFail, DecoderAt, Working, Idle, NewSong
  <2>2. pool.buf[d].track = decoder.track /\ decoder.track # Nil
    BY <1>1, <2>1, PoolAssumption DEF DecoderView, Opened
  <2>3. d \in BuffersOf(pool, NewSong)
    BY <1>1, <2>1, <2>2 DEF BuffersOf
  <2>4. Gone(pool, pool', BuffersOf(pool, NewSong))
    BY <1>1, <2>1, ReleaseGone DEF ResetSong
  <2>5. WholeSongs(pool, BuffersOf(pool, NewSong))
    BY <1>1, <2>1, ResetsWhole
  <2> QED BY <2>1, <2>3, <2>4, <2>5, GoneStep
<1>14. CASE DecoderHousekeeping
  <2>1. PICK hash, hardware, type, index, range :
          pool' = ResetByIndex(pool, hash, hardware, type, index, range)
    BY <1>14 DEF DecoderHousekeeping
  <2> DEFINE S == Disposable(pool, hash, hardware, type, index, range)
  <2>2. ~Working /\ ~Working'
    BY <1>14 DEF DecoderHousekeeping, DecoderAt, Working
  <2>3. Gone(pool, pool', S)
    BY <1>1, <2>1, ReleaseGone DEF ResetByIndex
  <2>4. WholeSongs(pool, S)
    BY <1>1, ResetsWhole
  <2> QED BY <2>2, <2>3, <2>4, GoneStep
<1>15. CASE DecoderCleared
  <2>1. ~Working /\ ~Working' /\ pool' = ResetAll(pool)
    BY <1>15 DEF DecoderCleared, Idle, Working
  <2>2. Gone(pool, pool', Buffers) /\ WholeSongs(pool, Buffers)
    BY <1>1, <2>1, ReleaseGone, ResetsWhole DEF ResetAll
  <2> QED BY <2>1, <2>2, GoneStep
<1> QED BY <1>3, <1>4, <1>5, <1>6, <1>7, <1>8, <1>9, <1>10, <1>11, <1>12, <1>13, <1>14, <1>15
        DEF Decoder

LEMMA PlayerDecoding == PoolInv /\ DecodeInv /\ Player => DecodeInv'
<1> SUFFICES ASSUME PoolInv, DecodeInv, Player PROVE DecodeInv'
  OBVIOUS
<1>1. /\ Sound(pool) /\ current \in Songs \cup {Nil}
      /\ reader # NotReading => /\ reader.buffer \in Buffers /\ current \in Songs
                                /\ pool.buf[reader.buffer].alloc
      /\ Same(pool, pool)
  BY DEF PoolInv, TypeOK, Same
<1> DEFINE stopped == IF current = Nil THEN pool ELSE Complete(pool, current)
<1>2. Sound(stopped) /\ Same(pool, stopped)
  BY <1>1, CompleteSound, CompleteSame
<1>3. decoder' = decoder /\ cleared' = cleared
  BY DEF Player, Play, PeriodBegin, PeriodEnd, Stop, Close
<1>4. CASE \E s \in Songs : Play(s)
  <2>1. PICK s \in Songs : pool' = Cleanup(stopped, s)
    BY <1>4 DEF Play
  <2> HIDE DEF stopped
  <2>2. Same(pool, pool')
    BY <1>2, <2>1, CleanupSame, SameCompose
  <2> QED BY <1>3, <2>2, SameStep
<1>5. CASE PeriodBegin
  <2> DEFINE b == NextSongBuffer(pool, current)
             q == OperatePlaying(pool, b)
  <2>1. b # Nil /\ pool' \in {q, OperateStatus(q, b, EBS_DRAINING)}
    BY <1>5 DEF PeriodBegin
  <2>2. b \in Buffers /\ pool.buf[b].alloc
    BY <1>1, <2>1, NextSongBufferType
  <2> HIDE DEF b
  <2>3. EBS_DRAINING \in 0 .. 9
    BY DEF EBS_DRAINING
  <2>4. Sound(q) /\ Same(pool, q)
    BY <1>1, <2>2, <2>3, OperateStatusSound, StatusSame
  <2> HIDE DEF q
  <2>5. Same(q, OperateStatus(q, b, EBS_DRAINING))
    BY <2>2, <2>3, <2>4, StatusSame
  <2>6. Same(pool, pool')
    BY <2>1, <2>4, <2>5, SameCompose
  <2> QED BY <1>3, <2>6, SameStep
<1>6. CASE PeriodEnd
  <2> DEFINE b == reader.buffer
             q == IF reader.rest > 0 THEN ReadChunk(pool, b, current) ELSE pool
             played == OperateStatus(q, b, EBS_PLAYED)
  <2>1. b \in Buffers /\ current \in Songs /\ pool.buf[b].alloc
    BY <1>1, <1>6 DEF PeriodEnd
  <2>2. Sound(q) /\ Keeps(pool, q) /\ Same(pool, q)
    BY <1>1, <2>1, ChunkSound, ReadSame DEF Keeps
  <2>3. \/ pool' = q \/ pool' = played
        \/ \E s \in Songs : pool' = Cleanup(played, s)
    BY <1>6 DEF PeriodEnd
  <2> HIDE DEF q, b
  <2>4. EBS_PLAYED \in 0 .. 9
    BY DEF EBS_PLAYED
  <2>5. Sound(played) /\ Same(q, played)
    BY <2>1, <2>2, <2>4, OperateStatusSound, StatusSame DEF Keeps
  <2> HIDE DEF played
  <2>6. \A s \in Songs : Same(q, Cleanup(played, s))
    BY <2>5, CleanupSame, SameCompose
  <2>7. Same(pool, pool')
    BY <2>2, <2>3, <2>5, <2>6, SameCompose
  <2> QED BY <1>3, <2>7, SameStep
<1>7. CASE Stop
  <2>1. Same(pool, pool')
    BY <1>1, <1>7, CompleteSame DEF Stop
  <2> QED BY <1>3, <2>1, SameStep
<1>8. CASE Close
  <2>1. pool' = CleanupAll(stopped)
    BY <1>8 DEF Close
  <2>2. Same(stopped, CleanupAll(stopped))
    <3> HIDE DEF stopped
    <3> QED BY <1>2, RewoundSame DEF CleanupAll
  <2> HIDE DEF stopped
  <2>3. Same(pool, pool')
    BY <1>2, <2>1, <2>2, SameCompose
  <2> QED BY <1>3, <2>3, SameStep
<1> QED BY <1>4, <1>5, <1>6, <1>7, <1>8 DEF Player

(* The library thread: it finds the decoder between two of its calls, with a
   buffer that may not be playable yet, and releases that one as well. *)
LEMMA RebuildDecoding == PoolInv /\ DecodeInv /\ Rebuild => DecodeInv'
<1> SUFFICES ASSUME PoolInv, DecodeInv, Rebuild PROVE DecodeInv'
  OBVIOUS
<1>1. Sound(pool) /\ DecodingOrder(pool) /\ (Working => decoder.buffer \in Buffers)
  BY DEF PoolInv, TypeOK, DecodeInv, Working
<1>2. ~Working' /\ pool' = ResetAll(pool)
  BY DEF Rebuild, Working
<1>3. Gone(pool, pool', Buffers) /\ WholeSongs(pool, Buffers)
  BY <1>1, <1>2, ReleaseGone, ResetsWhole DEF ResetAll
<1> QED BY <1>1, <1>2, <1>3, GoneStep

LEMMA DecodeInvNext == PoolInv /\ DecodeInv /\ [Next]_vars => DecodeInv'
<1> SUFFICES ASSUME PoolInv, DecodeInv, [Next]_vars PROVE DecodeInv'
  OBVIOUS
<1>1. CASE UNCHANGED vars
  <2>1. Same(pool, pool') /\ decoder' = decoder /\ cleared' = cleared
    BY <1>1 DEF vars, Same
  <2> QED BY <2>1, SameStep
<1> QED BY <1>1, DecoderDecoding, PlayerDecoding, RebuildDecoding DEF Next

LEMMA DecodeInvAlways == Spec => [](PoolInv /\ DecodeInv)
BY PoolInvInit, PoolInvNext, DecodeInvInit, DecodeInvNext, PTL DEF Spec

-----------------------------------------------------------------------------

LEMMA OneDecodingHolds == PoolInv /\ DecodeInv => OneDecodingPerSong
<1> SUFFICES ASSUME PoolInv, DecodeInv, NEW s \in Songs,
                    NEW b \in BuffersOf(pool, s), NEW c \in BuffersOf(pool, s)
             PROVE  LET before == pool.buf[b].key < pool.buf[c].key
                    IN  /\ pool.buf[b].track = pool.buf[c].track
                        /\ before => /\ ~pool.buf[c].first
                                     /\ ~pool.buf[b].last
                                     /\ pool.buf[b].written = BufferSize
                        /\ before => \A d \in Allocated(pool) :
                             pool.buf[d].key \in pool.buf[b].key .. pool.buf[c].key
                               => SongIn(pool, d) \in {s, Nil}
  BY DEF OneDecodingPerSong
<1>1. Sound(pool) /\ DecodingOrder(pool)
  BY DEF PoolInv, DecodeInv
<1>2. pool.buf[b].track = pool.buf[c].track
  BY <1>1, OneTrackPerSong
<1>3. pool.buf[b].key < pool.buf[c].key => Follows(pool, s, b, c)
  BY <1>1 DEF DecodingOrder
<1>4. \A d \in Allocated(pool) :
        pool.buf[d].key \in pool.buf[b].key .. pool.buf[c].key
          => pool.buf[b].key <= pool.buf[d].key /\ pool.buf[d].key <= pool.buf[c].key
  BY <1>1, BuffersOfType, AllocatedType
<1> QED BY <1>2, <1>3, <1>4 DEF Follows

(* "Prevent decoding same song/file twice in buffer list!": the buffers of a
   song are one decoding of it, in the order of its samples and with nothing of
   another song between them, whatever is released, rewound or rebuilt while
   the decoder waits for alsaMtx. *)
THEOREM PoolOneDecodingPerSong == Spec => []OneDecodingPerSong
BY OneDecodingHolds, DecodeInvAlways, PTL

LEMMA DecoderOwnsHolds == PoolInv /\ DecodeInv => DecoderOwnsBuffer
<1> SUFFICES ASSUME PoolInv, DecodeInv, ~cleared,
                    decoder.stage \in {"writing", "written", "checked", "eof", "finished"}
             PROVE  /\ pool.buf[decoder.buffer].alloc
                    /\ pool.buf[decoder.buffer].track = decoder.track
                    /\ \A b \in BuffersOf(pool, SongOf[decoder.track]) :
                         pool.buf[b].key <= pool.buf[decoder.buffer].key
  BY DEF DecoderOwnsBuffer
<1>1. Working /\ decoder.stage \in Opened /\ Sound(pool)
  BY DEF Working, Opened, PoolInv
<1>2. pool.buf[decoder.buffer].alloc
  BY <1>1 DEF PoolInv, Working
<1>3. pool.buf[decoder.buffer].track = decoder.track /\ pool.buf[decoder.buffer].key = pool.key
  BY <1>1 DEF DecodeInv, DecoderView
<1> QED BY <1>1, <1>2, <1>3, BuffersOfType

(* The decoder finds its buffer again after every wait: still allocated, still
   of its song, and the last one of it. *)
THEOREM PoolDecoderOwnsBuffer == Spec => []DecoderOwnsBuffer
BY DecoderOwnsHolds, DecodeInvAlways, PTL

LEMMA BufferedHolds == PoolInv /\ DecodeInv => BufferedFromStart
<1> SUFFICES ASSUME PoolInv, DecodeInv, NEW s \in Songs, pool.song[s].buffered, HasSong(pool, s)
             PROVE  LET b == First(pool, BuffersOf(pool, s))
                    IN  pool.buf[b].first /\ pool.buf[b].status >= EBS_BUFFERED
  BY DEF BufferedFromStart
<1> DEFINE b == First(pool, BuffersOf(pool, s))
<1>1. Sound(pool) /\ Started(pool)
  BY DEF PoolInv, DecodeInv
<1>2. PICK c \in Buffers : Starting(pool, s, c)
  BY <1>1 DEF Started
<1>3. b \in BuffersOf(pool, s) /\ \A d \in BuffersOf(pool, s) : pool.buf[b].key <= pool.buf[d].key
  BY <1>2 DEF First, Starting
<1> HIDE DEF b
<1>4. /\ b \in Buffers /\ b \in Allocated(pool) /\ c \in Allocated(pool)
      /\ pool.buf[b].key \in Nat /\ pool.buf[c].key \in Nat
      /\ pool.buf[b].track # Nil /\ SongOf[pool.buf[b].track] = s
  BY <1>1, <1>2, <1>3, BuffersOfType DEF Starting
<1>5. b = c /\ pool.buf[b].first
  <2>1. pool.buf[b].key = pool.buf[c].key
    BY <1>2, <1>3, <1>4 DEF Starting
  <2> QED BY <1>1, <1>2, <1>4, <2>1 DEF Starting, Sound, Keyed
<1>6. pool.buf[b].status >= EBS_BUFFERED
  <2>1. CASE Working /\ b = decoder.buffer
    <3>1. DecoderView
      BY <2>1 DEF DecodeInv
    <3>2. decoder.stage \in Opened
      BY <1>4, <2>1, <3>1 DEF DecoderView, Opened, Working, PoolInv, TypeOK, Stages
    <3>3. NewSong = s
      BY <1>4, <2>1, <3>1, <3>2 DEF DecoderView, NewSong
    <3> QED BY <1>5, <2>1, <3>1, <3>2, <3>3 DEF DecoderView
  <2>2. CASE ~(Working /\ b = decoder.buffer)
    BY <1>4, <2>2 DEF DecodeInv, OthersBuffered
  <2> QED BY <2>1, <2>2
<1> QED BY <1>5, <1>6 DEF b

(* A song that play() accepts can be played from its first sample. *)
THEOREM PoolBufferedFromStart == Spec => []BufferedFromStart
BY BufferedHolds, DecodeInvAlways, PTL

=============================================================================
