------------------------ MODULE AudioBufferTapeProofs ------------------------
(***************************************************************************)
(* TLAPS proofs that the buffers of a song are its tape, for any number of *)
(* buffers, tracks and songs and any buffer size: what a song counts is    *)
(* what its buffers hold, and the player walks them in the order of their  *)
(* chunks, hearing none of them twice.                                     *)
(***************************************************************************)
EXTENDS AudioBufferTape, AudioBufferPoolProofs

-----------------------------------------------------------------------------
(* The progress of a song: the sum of what its buffers count.  A sum is a
   number of units, so that one chunk more is one element more. *)

Nothing == [b \in Buffers |-> 0]
WrittenShare(p, s) == [b \in Buffers |-> IF b \in BuffersOf(p, s) THEN p.buf[b].written ELSE 0]
ReadShare(p, s) == [b \in Buffers |-> IF b \in BuffersOf(p, s) THEN p.buf[b].read ELSE 0]
Total(share) == Cardinality({u \in Buffers \X (1 .. BufferSize) : u[2] <= share[u[1]]})

LEMMA TotalNothing == Total(Nothing) = 0
<1>1. {u \in Buffers \X (1 .. BufferSize) : u[2] <= Nothing[u[1]]} = {}
  BY PoolAssumption DEF Nothing
<1> QED BY <1>1, FS_EmptySet DEF Total

LEMMA TotalAddsOne ==
  ASSUME NEW f \in [Buffers -> Nat], NEW g \in [Buffers -> Nat], NEW b \in Buffers,
         f[b] < BufferSize, g[b] = f[b] + 1, \A c \in Buffers : c # b => g[c] = f[c]
  PROVE  Total(g) = Total(f) + 1
<1> DEFINE U(h) == {u \in Buffers \X (1 .. BufferSize) : u[2] <= h[u[1]]}
           e == <<b, f[b] + 1>>
<1>1. BufferSize \in Nat /\ IsFiniteSet(Buffers) /\ f[b] \in Nat
  BY PoolAssumption
<1>2. IsFiniteSet(U(f))
  <2>1. IsFiniteSet(1 .. BufferSize)
    BY <1>1, FS_Interval
  <2>2. IsFiniteSet(Buffers \X (1 .. BufferSize))
    BY <1>1, <2>1, FS_Product
  <2> QED BY <2>2, FS_Subset
<1>3. e \in Buffers \X (1 .. BufferSize) /\ e \notin U(f) /\ e \in U(g)
  BY <1>1
<1>4. ASSUME NEW u \in Buffers \X (1 .. BufferSize), u # e
      PROVE  u \in U(g) <=> u \in U(f)
  <2>1. PICK c \in Buffers, n \in 1 .. BufferSize : u = <<c, n>>
    OBVIOUS
  <2>2. u \in U(g) <=> n <= g[c]
    BY <2>1
  <2>3. u \in U(f) <=> n <= f[c]
    BY <2>1
  <2>4. CASE c = b
    BY <1>1, <1>4, <2>1, <2>2, <2>3, <2>4
  <2> QED BY <2>2, <2>3, <2>4
<1>5. U(g) = U(f) \cup {e}
  <2>1. U(f) \subseteq Buffers \X (1 .. BufferSize) /\ U(g) \subseteq Buffers \X (1 .. BufferSize)
    OBVIOUS
  <2> HIDE DEF U, e
  <2> QED BY <1>3, <1>4, <2>1
<1> HIDE DEF U, e
<1>6. Cardinality(U(g)) = Cardinality(U(f)) + 1
  BY <1>2, <1>3, <1>5, FS_AddElement
<1> QED BY <1>6 DEF Total, U

(* What a song counts agrees with its buffers. *)
Balanced(p) ==
  \A s \in Songs : HasSong(p, s) =>
    /\ p.song[s].written = Total(WrittenShare(p, s))
    /\ p.song[s].read = Total(ReadShare(p, s))

LEMMA BalancedSums ==
  ASSUME NEW p, Sound(p), Bounded(p), Balanced(p), NEW s \in Songs, HasSong(p, s)
  PROVE  /\ p.song[s].written = Cardinality(UNION {{b} \X (1 .. p.buf[b].written) : b \in BuffersOf(p, s)})
         /\ p.song[s].read = Cardinality(UNION {{b} \X (1 .. p.buf[b].read) : b \in BuffersOf(p, s)})
<1>1. \A b \in Buffers : /\ p.buf[b].read \in Nat /\ p.buf[b].written \in Nat
                         /\ p.buf[b].read <= BufferSize /\ p.buf[b].written <= BufferSize
  BY PoolAssumption DEF Sound, Pools, BufferRecords, Bounded
<1>2. BuffersOf(p, s) \subseteq Buffers /\ BufferSize \in Nat
  BY PoolAssumption DEF BuffersOf
<1>3. UNION {{b} \X (1 .. p.buf[b].written) : b \in BuffersOf(p, s)}
        = {u \in Buffers \X (1 .. BufferSize) : u[2] <= WrittenShare(p, s)[u[1]]}
  BY <1>1, <1>2 DEF WrittenShare
<1>4. UNION {{b} \X (1 .. p.buf[b].read) : b \in BuffersOf(p, s)}
        = {u \in Buffers \X (1 .. BufferSize) : u[2] <= ReadShare(p, s)[u[1]]}
  BY <1>1, <1>2 DEF ReadShare
<1> QED BY <1>3, <1>4 DEF Balanced, Total

(* A song in the pool keeps its counts, or its buffers and it have none. *)
KeepsCount(p, q, s) ==
  /\ \/ q.song[s].written = 0 /\ WrittenShare(q, s) = Nothing
     \/ /\ HasSong(p, s) /\ q.song[s].written = p.song[s].written
        /\ WrittenShare(q, s) = WrittenShare(p, s)
  /\ \/ q.song[s].read = 0 /\ ReadShare(q, s) = Nothing
     \/ /\ HasSong(p, s) /\ q.song[s].read = p.song[s].read
        /\ ReadShare(q, s) = ReadShare(p, s)
KeepsCounts(p, q) == \A s \in Songs : HasSong(q, s) => KeepsCount(p, q, s)

LEMMA KeepsCountsBalanced ==
  ASSUME NEW p, NEW q, Balanced(p), KeepsCounts(p, q)
  PROVE  Balanced(q)
BY TotalNothing DEF Balanced, KeepsCounts, KeepsCount

LEMMA KeepsCountsCompose ==
  ASSUME NEW p, NEW q, NEW r, KeepsCounts(p, q), KeepsCounts(q, r),
         \A s \in Songs : HasSong(r, s) => HasSong(q, s)
  PROVE  KeepsCounts(p, r)
BY DEF KeepsCounts, KeepsCount

(* The buffers of a song have begun: cleanup() finds them in use. *)
Begun(p) == \A b \in Buffers : p.buf[b].track # Nil => p.buf[b].status # EBS_EMPTY

(* Operators that change nothing but the status and the flags of a buffer. *)
Alike(p, q) ==
  /\ \A s \in Songs : q.song[s].read = p.song[s].read /\ q.song[s].written = p.song[s].written
  /\ \A b \in Buffers : /\ q.buf[b].track = p.buf[b].track
                        /\ q.buf[b].read = p.buf[b].read
                        /\ q.buf[b].written = p.buf[b].written
                        /\ p.buf[b].status # EBS_EMPTY => q.buf[b].status # EBS_EMPTY

LEMMA AlikeCompose ==
  ASSUME NEW p, NEW q, NEW r, Alike(p, q), Alike(q, r)
  PROVE  Alike(p, r)
BY DEF Alike

LEMMA AlikeCounts ==
  ASSUME NEW p, NEW q, Alike(p, q)
  PROVE  /\ KeepsCounts(p, q)
         /\ \A s : BuffersOf(q, s) = BuffersOf(p, s)
         /\ Begun(p) => Begun(q)
<1>1. \A s : BuffersOf(q, s) = BuffersOf(p, s)
  BY DEF Alike, BuffersOf
<1>2. \A s \in Songs : WrittenShare(q, s) = WrittenShare(p, s) /\ ReadShare(q, s) = ReadShare(p, s)
  BY <1>1 DEF Alike, WrittenShare, ReadShare
<1>3. KeepsCounts(p, q)
  BY <1>1, <1>2 DEF Alike, KeepsCounts, KeepsCount, HasSong
<1>4. Begun(p) => Begun(q)
  BY DEF Alike, Begun
<1> QED BY <1>1, <1>3, <1>4

LEMMA StatusAlike ==
  ASSUME NEW p, Sound(p), NEW b \in Buffers, NEW state \in 0 .. 9
  PROVE  /\ Alike(p, OperateStatus(p, b, state))
         /\ Alike(p, OperatePlaying(p, b))
         /\ Alike(p, OperateLoaded(p, b))
         /\ Alike(p, OperateFinished(p, b))
<1>1. p.buf \in [Buffers -> BufferRecords] /\ p \in Pools
  BY DEF Sound, Pools
<1>2. Alike(p, OperateStatus(p, b, state))
  BY <1>1 DEF Alike, OperateStatus, Pools, BufferRecords, Raise, EBS_EMPTY
<1>3. Alike(p, OperatePlaying(p, b))
  BY <1>1 DEF Alike, OperatePlaying, Pools, BufferRecords, Raise, EBS_EMPTY, EBS_PLAYING
<1>4. Alike(p, OperateLoaded(p, b))
  BY <1>1 DEF Alike, OperateLoaded, Pools, BufferRecords, Raise, EBS_EMPTY, EBS_LOADED
<1>5. Alike(p, OperateFinished(p, b))
  BY <1>1 DEF Alike, OperateFinished, Pools, BufferRecords, Raise, EBS_EMPTY, EBS_LOADED
<1> QED BY <1>2, <1>3, <1>4, <1>5

LEMMA BufferedAlike ==
  ASSUME NEW p, Sound(p), NEW b \in Buffers, NEW t, p.buf[b].track = t, t # Nil
  PROVE  Alike(p, OperateBuffered(p, b, t))
<1>1. p.buf \in [Buffers -> BufferRecords] /\ p \in Pools /\ p.song \in [Songs -> SongRecords]
  BY DEF Sound, Pools
<1> DEFINE q == OperateBuffered(p, b, t)
<1>2. \A s \in Songs : q.song[s].read = p.song[s].read /\ q.song[s].written = p.song[s].written
  BY <1>1 DEF OperateBuffered, Pools, SongRecords
<1>3. \A c \in Buffers : /\ q.buf[c].track = p.buf[c].track
                         /\ q.buf[c].read = p.buf[c].read
                         /\ q.buf[c].written = p.buf[c].written
                         /\ p.buf[c].status # EBS_EMPTY => q.buf[c].status # EBS_EMPTY
  BY <1>1 DEF OperateBuffered, Pools, BufferRecords, Raise, EBS_EMPTY, EBS_BUFFERED
<1> QED BY <1>2, <1>3 DEF Alike

LEMMA CompleteAlike ==
  ASSUME NEW p, Sound(p), NEW s
  PROVE  Alike(p, Complete(p, s))
<1> DEFINE q == Complete(p, s)
           rec(b) == [p.buf[b] EXCEPT !.status = Raise(p.buf[b].status, EBS_PLAYED)]
           Like(r, o) == /\ r.track = o.track /\ r.read = o.read /\ r.written = o.written
                         /\ o.status # EBS_EMPTY => r.status # EBS_EMPTY
<1>1. \A b \in Buffers : p.buf[b] \in BufferRecords
  BY DEF Sound, Pools
<1>2. (\A b \in Buffers : q.buf[b] = rec(b) \/ q.buf[b] = p.buf[b]) /\ q.song = p.song
  BY DEF Sound, Pools, Complete
<1>3. \A b \in Buffers : Like(rec(b), p.buf[b])
  BY <1>1 DEF BufferRecords, Raise, EBS_EMPTY, EBS_PLAYED
<1> HIDE DEF q, rec
<1>4. \A b \in Buffers : Like(q.buf[b], p.buf[b])
  BY <1>2, <1>3
<1>5. Alike(p, q)
  BY <1>2, <1>4 DEF Alike
<1> QED BY <1>5 DEF q

(* A buffer of no song is allocated. *)
LEMMA AllocateCounts ==
  ASSUME NEW p, Sound(p), Begun(p), NEW b \in Buffers, IsEmpty(p, b)
  PROVE  KeepsCounts(p, Allocate(p, b)) /\ Begun(Allocate(p, b))
<1> DEFINE q == Allocate(p, b)
<1>1. p \in Pools /\ p.buf \in [Buffers -> BufferRecords] /\ p.buf[b] = EmptyBuffer
  BY EmptyNotAllocated DEF Sound, Keyed, Pools
<1>2. /\ \A c \in Buffers : /\ q.buf[c].track = p.buf[c].track /\ q.buf[c].status = p.buf[c].status
                            /\ q.buf[c].read = p.buf[c].read /\ q.buf[c].written = p.buf[c].written
      /\ q.song = p.song
  BY <1>1 DEF Allocate, Pools, BufferRecords
<1> HIDE DEF q
<1>3. Alike(p, q)
  BY <1>2 DEF Alike
<1>4. KeepsCounts(p, q) /\ Begun(q)
  BY <1>3, AlikeCounts
<1> QED BY <1>4 DEF q

(* Buffers are released, of a song all or none; songs may be reset whose
   buffers all go. *)
Releases(p, q, S, T) ==
  /\ Gone(p, q, S) /\ WholeSongs(p, S)
  /\ \A s \in Songs : s \notin T => q.song[s] = p.song[s]
  /\ \A s \in Songs : s \in T => BuffersOf(p, s) \subseteq S

LEMMA GoneCounts ==
  ASSUME NEW p, Sound(p), Begun(p), NEW q, NEW S, NEW T, Releases(p, q, S, T)
  PROVE  KeepsCounts(p, q) /\ Begun(q)
<1>1. \A b \in Buffers : /\ b \in S => q.buf[b].track = Nil
                         /\ b \notin S => q.buf[b] = p.buf[b]
  BY DEF Releases, Gone, EmptyBuffer
<1>2. \A s : BuffersOf(q, s) = BuffersOf(p, s) \ S
  BY <1>1 DEF BuffersOf
<1>3. Begun(q)
  BY <1>1 DEF Begun
<1>4. ASSUME NEW s \in Songs, HasSong(q, s) PROVE KeepsCount(p, q, s)
  <2>1. PICK c : c \in BuffersOf(p, s) /\ c \notin S
    BY <1>2, <1>4 DEF HasSong
  <2>2. \A b \in BuffersOf(p, s) : b \notin S
    BY <2>1 DEF Releases, WholeSongs
  <2>3. BuffersOf(q, s) = BuffersOf(p, s) /\ BuffersOf(p, s) \subseteq Buffers
    BY <1>2, <2>2 DEF BuffersOf
  <2>4. q.song[s] = p.song[s]
    BY <2>1 DEF Releases
  <2>5. WrittenShare(q, s) = WrittenShare(p, s) /\ ReadShare(q, s) = ReadShare(p, s)
    BY <1>1, <2>2, <2>3 DEF WrittenShare, ReadShare
  <2> QED BY <2>1, <2>4, <2>5 DEF KeepsCount, HasSong
<1> QED BY <1>3, <1>4 DEF KeepsCounts

LEMMA ReleaseSongs ==
  ASSUME NEW p, Sound(p), NEW S, NEW T
  PROVE  /\ Release(p, S).song = p.song
         /\ \A s \in Songs : s \notin T => Release(ResetSongs(p, T), S).song[s] = p.song[s]
<1>1. p \in Pools
  BY DEF Sound
<1>2. Release(p, S).song = p.song
  BY <1>1 DEF Release, Pools
<1>3. Release(ResetSongs(p, T), S).song = ResetSongs(p, T).song
  BY <1>1 DEF Release, ResetSongs, Pools
<1>4. \A s \in Songs : s \notin T => ResetSongs(p, T).song[s] = p.song[s]
  BY <1>1 DEF ResetSongs, Pools
<1> QED BY <1>2, <1>3, <1>4

LEMMA ResetsRelease ==
  ASSUME NEW p, Sound(p), DecodingOrder(p)
  PROVE  /\ \A s \in Songs : \E S, T : Releases(p, ResetSong(p, s), S, T)
         /\ \E S, T : Releases(p, ResetAll(p), S, T)
         /\ \A removed, keep : \E S, T : Releases(p, CollectGarbage(p, removed, keep), S, T)
         /\ \A hash, hardware, type, index, range :
              \E S, T : Releases(p, ResetByIndex(p, hash, hardware, type, index, range), S, T)
<1>1. ASSUME NEW S, WholeSongs(p, S)
      PROVE  Releases(p, Release(p, S), S, {})
  BY <1>1, ReleaseGone, ReleaseSongs DEF Releases
<1>2. ASSUME NEW S, WholeSongs(p, S), NEW T, \A s \in Songs : s \in T => BuffersOf(p, s) \subseteq S
      PROVE  Releases(p, Release(ResetSongs(p, T), S), S, T)
  BY <1>2, ReleaseGone, ReleaseSongs DEF Releases
<1>3. ASSUME NEW s \in Songs PROVE Releases(p, ResetSong(p, s), BuffersOf(p, s), {s})
  <2>1. \A t \in Songs : t \in {s} => BuffersOf(p, t) \subseteq BuffersOf(p, s)
    OBVIOUS
  <2> QED BY <1>2, <2>1, ResetsWhole DEF ResetSong
<1>4. Releases(p, ResetAll(p), Buffers, {})
  BY <1>1, ResetsWhole DEF ResetAll
<1>5. ASSUME NEW removed, NEW keep
      PROVE  Releases(p, CollectGarbage(p, removed, keep), Collectable(p, removed, keep), {})
  BY <1>1, ResetsWhole DEF CollectGarbage
<1>6. ASSUME NEW hash, NEW hardware, NEW type, NEW index, NEW range
      PROVE  \E S, T : Releases(p, ResetByIndex(p, hash, hardware, type, index, range), S, T)
  <2> DEFINE S == Disposable(p, hash, hardware, type, index, range)
             T == {SongOf[p.buf[b].track] : b \in S}
  <2>1. WholeSongs(p, S)
    BY ResetsWhole
  <2>2. \A b \in S : b \in Buffers /\ p.buf[b].track # Nil
    BY DEF Disposable
  <2>3. ASSUME NEW s \in Songs, s \in T PROVE BuffersOf(p, s) \subseteq S
    <3>1. PICK b \in S : SongOf[p.buf[b].track] = s
      BY <2>3
    <3>2. b \in BuffersOf(p, s)
      BY <2>2, <3>1 DEF BuffersOf
    <3> HIDE DEF S
    <3> QED BY <2>1, <3>1, <3>2 DEF WholeSongs
  <2> HIDE DEF S, T
  <2>4. Releases(p, Release(ResetSongs(p, T), S), S, T)
    BY <1>2, <2>1, <2>3
  <2> QED BY <2>4 DEF ResetByIndex, S, T
<1> QED BY <1>3, <1>4, <1>5, <1>6

LEMMA ResetsCounts ==
  ASSUME NEW p, Sound(p), DecodingOrder(p), Begun(p)
  PROVE  /\ \A s \in Songs : KeepsCounts(p, ResetSong(p, s)) /\ Begun(ResetSong(p, s))
         /\ KeepsCounts(p, ResetAll(p)) /\ Begun(ResetAll(p))
         /\ \A removed, keep : LET q == CollectGarbage(p, removed, keep)
                               IN  KeepsCounts(p, q) /\ Begun(q)
         /\ \A hash, hardware, type, index, range :
              LET q == ResetByIndex(p, hash, hardware, type, index, range)
              IN  KeepsCounts(p, q) /\ Begun(q)
BY ResetsRelease, GoneCounts

(* cleanup(): a buffer of a song is rewound, or there is nothing to rewind. *)
LEMMA RewoundCounts ==
  ASSUME NEW p, Sound(p), Begun(p), Bounded(p), NEW T \in SUBSET Buffers, WholeSongs(p, T)
  PROVE  LET q == Rewound(p, T)
         IN  /\ KeepsCounts(p, q) /\ Begun(q)
             /\ \A s : BuffersOf(q, s) = BuffersOf(p, s)
             /\ \A s \in Songs : BuffersOf(p, s) \subseteq T => ReadShare(q, s) = Nothing
<1> DEFINE q == Rewound(p, T)
           rec(b) == [p.buf[b] EXCEPT !.read = 0,
                        !.status = IF p.buf[b].status >= EBS_BUFFERED THEN EBS_LOADED ELSE p.buf[b].status]
           Like(r, o) == /\ r.track = o.track /\ r.read = 0 /\ r.written = o.written
                         /\ o.status # EBS_EMPTY => r.status # EBS_EMPTY
<1>1. \A b \in Buffers : p.buf[b] \in BufferRecords
  BY DEF Sound, Pools
<1>2. \A b \in Buffers : q.buf[b] = IF b \in T /\ Used(p, b) THEN rec(b) ELSE p.buf[b]
  BY DEF Sound, Pools, Rewound
<1>3. \A s \in Songs :
        /\ q.song[s].written = p.song[s].written
        /\ (\E b \in T : Used(p, b) /\ b \in BuffersOf(p, s)) => q.song[s].read = 0
        /\ ~(\E b \in T : Used(p, b) /\ b \in BuffersOf(p, s)) => q.song[s].read = p.song[s].read
  BY DEF Sound, Pools, Rewound, SongRecords
<1>4. \A b \in Buffers : Like(rec(b), p.buf[b])
  BY <1>1 DEF BufferRecords, EBS_EMPTY, EBS_BUFFERED, EBS_LOADED
<1> HIDE DEF q, rec
<1>5. \A b \in Buffers : /\ q.buf[b].track = p.buf[b].track /\ q.buf[b].written = p.buf[b].written
                         /\ p.buf[b].status # EBS_EMPTY => q.buf[b].status # EBS_EMPTY
                         /\ b \in T /\ Used(p, b) => q.buf[b].read = 0
                         /\ ~(b \in T /\ Used(p, b)) => q.buf[b].read = p.buf[b].read
  BY <1>2, <1>4
<1>6. (\A s : BuffersOf(q, s) = BuffersOf(p, s)) /\ Begun(q)
  BY <1>5 DEF BuffersOf, Begun
<1>7. \A s : \A b \in BuffersOf(p, s) : /\ b \in Buffers
                                        /\ b \in T => q.buf[b].read = 0
  <2> SUFFICES ASSUME NEW s, NEW b \in BuffersOf(p, s), b \in T PROVE q.buf[b].read = 0
    BY DEF BuffersOf
  <2>1. b \in Buffers /\ p.buf[b].status # EBS_EMPTY
    BY DEF BuffersOf, Begun
  <2>2. CASE Used(p, b)
    BY <1>5, <2>1, <2>2
  <2>3. CASE ~Used(p, b)
    <3>1. p.buf[b].written = 0 /\ p.buf[b].read = 0
      BY <1>1, <2>1, <2>3 DEF Used, BufferRecords, Bounded
    <3> QED BY <1>5, <2>1, <2>3, <3>1
  <2> QED BY <2>2, <2>3
<1>8. \A s \in Songs : BuffersOf(p, s) \subseteq T => ReadShare(q, s) = Nothing
  BY <1>6, <1>7 DEF ReadShare, Nothing
<1>9. \A s \in Songs : WrittenShare(q, s) = WrittenShare(p, s)
  BY <1>5, <1>6 DEF WrittenShare
<1>10. ASSUME NEW s \in Songs, HasSong(q, s) PROVE KeepsCount(p, q, s)
  <2>1. HasSong(p, s)
    BY <1>6, <1>10 DEF HasSong
  <2>2. CASE \E b \in T : Used(p, b) /\ b \in BuffersOf(p, s)
    <3>1. BuffersOf(p, s) \subseteq T
      BY <2>2 DEF WholeSongs
    <3> QED BY <1>3, <1>8, <1>9, <2>1, <2>2, <3>1 DEF KeepsCount
  <2>3. CASE ~\E b \in T : Used(p, b) /\ b \in BuffersOf(p, s)
    <3>1. ReadShare(q, s) = ReadShare(p, s)
      BY <1>5, <1>6, <1>7, <2>3 DEF ReadShare
    <3> QED BY <1>3, <1>9, <2>1, <2>3, <3>1 DEF KeepsCount
  <2> QED BY <2>2, <2>3
<1>11. KeepsCounts(p, q)
  BY <1>10 DEF KeepsCounts
<1> QED BY <1>6, <1>8, <1>11 DEF q

LEMMA CleanupCounts ==
  ASSUME NEW p, Sound(p), DecodingOrder(p), Begun(p), Bounded(p)
  PROVE  /\ \A s \in Songs : KeepsCounts(p, Cleanup(p, s)) /\ Begun(Cleanup(p, s))
                             /\ \A u : BuffersOf(Cleanup(p, s), u) = BuffersOf(p, u)
                             /\ ReadShare(Cleanup(p, s), s) = Nothing
         /\ KeepsCounts(p, CleanupAll(p)) /\ Begun(CleanupAll(p))
         /\ \A u : BuffersOf(CleanupAll(p), u) = BuffersOf(p, u)
<1>1. ASSUME NEW s \in Songs
      PROVE  /\ KeepsCounts(p, Cleanup(p, s)) /\ Begun(Cleanup(p, s))
             /\ \A u : BuffersOf(Cleanup(p, s), u) = BuffersOf(p, u)
             /\ ReadShare(Cleanup(p, s), s) = Nothing
  <2> DEFINE q == Rewound(p, BuffersOf(p, s))
             r == Cleanup(p, s)
  <2>1. BuffersOf(p, s) \in SUBSET Buffers /\ WholeSongs(p, BuffersOf(p, s))
    BY ResetsWhole DEF BuffersOf
  <2>2. /\ KeepsCounts(p, q) /\ Begun(q)
        /\ \A u : BuffersOf(q, u) = BuffersOf(p, u)
        /\ ReadShare(q, s) = Nothing
    BY <2>1, RewoundCounts
  <2>3. Sound(q) /\ r = [q EXCEPT !.song = [q.song EXCEPT ![s] = [q.song[s] EXCEPT !.read = 0]]]
    BY RewoundSound DEF Cleanup
  <2> HIDE DEF q, r
  <2>4. /\ r.buf = q.buf
        /\ \A u \in Songs : /\ r.song[u].written = q.song[u].written
                            /\ u # s => r.song[u].read = q.song[u].read
        /\ r.song[s].read = 0
    BY <2>3 DEF Sound, Pools, SongRecords
  <2>5. \A u : BuffersOf(r, u) = BuffersOf(q, u)
    BY <2>4 DEF BuffersOf
  <2>6. \A u : WrittenShare(r, u) = WrittenShare(q, u) /\ ReadShare(r, u) = ReadShare(q, u)
    BY <2>4, <2>5 DEF WrittenShare, ReadShare
  <2>7. KeepsCounts(p, r)
    BY <2>2, <2>4, <2>5, <2>6 DEF KeepsCounts, KeepsCount, HasSong
  <2>8. Begun(r)
    BY <2>2, <2>4 DEF Begun
  <2> QED BY <2>2, <2>5, <2>6, <2>7, <2>8 DEF r
<1>2. WholeSongs(p, Buffers)
  BY ResetsWhole
<1>3. /\ KeepsCounts(p, CleanupAll(p)) /\ Begun(CleanupAll(p))
      /\ \A u : BuffersOf(CleanupAll(p), u) = BuffersOf(p, u)
  BY <1>2, RewoundCounts DEF CleanupAll
<1> QED BY <1>1, <1>3

(* A buffer is given to a song: it counts nothing yet, and when it is the first
   one, neither does the song. *)
LEMMA OpenCounts ==
  ASSUME NEW p, Sound(p), Begun(p), NEW b \in Buffers, p.buf[b].track = Nil, NEW t \in Tracks
  PROVE  /\ ~HasSong(p, SongOf[t]) => LET q == OperateBuffering(p, b, t)
                                      IN  KeepsCounts(p, q) /\ Begun(q)
         /\ HasSong(p, SongOf[t]) => LET q == OperateContinue(p, b, t)
                                     IN  KeepsCounts(p, q) /\ Begun(q)
<1> DEFINE u == SongOf[t]
<1>1. u \in Songs /\ t # Nil /\ p.song \in [Songs -> SongRecords]
      /\ p.buf \in [Buffers -> BufferRecords] /\ p \in Pools
  BY PoolAssumption DEF Sound, Pools
<1>2. ASSUME NEW q, \A c \in Buffers : c # b => q.buf[c] = p.buf[c],
             q.buf[b].track = t, q.buf[b].read = 0, q.buf[b].written = 0, q.buf[b].status # EBS_EMPTY,
             \A s \in Songs : s # u => q.song[s] = p.song[s],
             \/ ~HasSong(p, u) /\ q.song[u].read = 0 /\ q.song[u].written = 0
             \/ HasSong(p, u) /\ q.song[u] = p.song[u]
      PROVE  KeepsCounts(p, q) /\ Begun(q)
  <2>1. Begun(q)
    BY <1>2 DEF Begun
  <2>2. BuffersOf(q, u) = BuffersOf(p, u) \cup {b} /\ b \notin BuffersOf(p, u)
    BY <1>1, <1>2 DEF BuffersOf
  <2>3. \A s : s # u => BuffersOf(q, s) = BuffersOf(p, s) /\ b \notin BuffersOf(p, s)
    BY <1>1, <1>2 DEF BuffersOf
  <2>4. \A s \in Songs : WrittenShare(q, s) = WrittenShare(p, s) /\ ReadShare(q, s) = ReadShare(p, s)
    BY <1>2, <2>2, <2>3 DEF WrittenShare, ReadShare
  <2>5. ASSUME NEW s \in Songs, HasSong(q, s) PROVE KeepsCount(p, q, s)
    <3>1. CASE HasSong(p, s)
      BY <1>2, <2>4, <3>1 DEF KeepsCount
    <3>2. CASE ~HasSong(p, s)
      <4>1. s = u
        BY <2>3, <2>5, <3>2 DEF HasSong
      <4>2. WrittenShare(p, s) = Nothing /\ ReadShare(p, s) = Nothing
        BY <3>2 DEF HasSong, WrittenShare, ReadShare, Nothing
      <4> QED BY <1>2, <2>4, <3>2, <4>1, <4>2 DEF KeepsCount
    <3> QED BY <3>1, <3>2
  <2> QED BY <2>1, <2>5 DEF KeepsCounts
<1>3. ASSUME ~HasSong(p, u)
      PROVE  LET q == OperateBuffering(p, b, t) IN KeepsCounts(p, q) /\ Begun(q)
  <2> DEFINE q == OperateBuffering(p, b, t)
  <2>1. /\ \A c \in Buffers : c # b => q.buf[c] = p.buf[c]
        /\ q.buf[b].track = t /\ q.buf[b].read = 0 /\ q.buf[b].written = 0
        /\ q.buf[b].status # EBS_EMPTY
    BY <1>1 DEF OperateBuffering, Pools, BufferRecords, Raise, EBS_EMPTY, EBS_BUFFERING
  <2>2. /\ \A s \in Songs : s # u => q.song[s] = p.song[s]
        /\ q.song[u].read = 0 /\ q.song[u].written = 0
    BY <1>1 DEF OperateBuffering, Pools, ClearedSong
  <2> HIDE DEF q
  <2>3. KeepsCounts(p, q) /\ Begun(q)
    BY <1>2, <1>3, <2>1, <2>2
  <2> QED BY <2>3 DEF q
<1>4. ASSUME HasSong(p, u)
      PROVE  LET q == OperateContinue(p, b, t) IN KeepsCounts(p, q) /\ Begun(q)
  <2> DEFINE q == OperateContinue(p, b, t)
  <2>1. /\ \A c \in Buffers : c # b => q.buf[c] = p.buf[c]
        /\ q.buf[b].track = t /\ q.buf[b].read = 0 /\ q.buf[b].written = 0
        /\ q.buf[b].status # EBS_EMPTY
    BY <1>1 DEF OperateContinue, Pools, BufferRecords, Raise, EBS_EMPTY, EBS_BUFFERING
  <2>2. q.song = p.song
    BY <1>1 DEF OperateContinue, Pools
  <2> HIDE DEF q
  <2>3. KeepsCounts(p, q) /\ Begun(q)
    BY <1>2, <1>4, <2>1, <2>2
  <2> QED BY <2>3 DEF q
<1> QED BY <1>3, <1>4

(* One chunk more in a buffer of the song, and in the song. *)
LEMMA SharesType ==
  ASSUME NEW p, Sound(p), NEW s
  PROVE  WrittenShare(p, s) \in [Buffers -> Nat] /\ ReadShare(p, s) \in [Buffers -> Nat]
<1>1. \A b \in Buffers : p.buf[b].read \in Nat /\ p.buf[b].written \in Nat
  BY DEF Sound, Pools, BufferRecords
<1> QED BY <1>1 DEF WrittenShare, ReadShare

LEMMA ChunkBalanced ==
  ASSUME NEW p, Sound(p), Balanced(p), NEW s \in Songs, NEW b \in BuffersOf(p, s)
  PROVE  /\ \A t : BuffersOf(WriteChunk(p, b, s), t) = BuffersOf(p, t)
                   /\ BuffersOf(ReadChunk(p, b, s), t) = BuffersOf(p, t)
         /\ Begun(p) => Begun(WriteChunk(p, b, s)) /\ Begun(ReadChunk(p, b, s))
         /\ p.buf[b].written < BufferSize => Balanced(WriteChunk(p, b, s))
         /\ p.buf[b].read < BufferSize => Balanced(ReadChunk(p, b, s))
<1> DEFINE w == WriteChunk(p, b, s)
           r == ReadChunk(p, b, s)
<1>1. b \in Buffers /\ p.buf[b].alloc
  BY BuffersOfType
<1>2. Sound(w) /\ Sound(r)
  BY <1>1, ChunkSound
<1>3. p.buf \in [Buffers -> BufferRecords] /\ p.song \in [Songs -> SongRecords] /\ p \in Pools
  BY DEF Sound, Pools
<1>4. /\ \A t \in Songs : /\ w.song[t].read = p.song[t].read
                          /\ t # s => w.song[t].written = p.song[t].written
                          /\ r.song[t].written = p.song[t].written
                          /\ t # s => r.song[t].read = p.song[t].read
      /\ w.song[s].written = p.song[s].written + 1
      /\ r.song[s].read = p.song[s].read + 1
  BY <1>3 DEF WriteChunk, ReadChunk, Pools, SongRecords
<1>5. \A c \in Buffers : /\ w.buf[c].track = p.buf[c].track /\ w.buf[c].status = p.buf[c].status
                         /\ r.buf[c].track = p.buf[c].track /\ r.buf[c].status = p.buf[c].status
  BY <1>3 DEF WriteChunk, ReadChunk, Pools, BufferRecords
<1>6. \A c \in Buffers :
        /\ w.buf[c].read = p.buf[c].read
        /\ w.buf[c].written = IF c = b THEN p.buf[c].written + 1 ELSE p.buf[c].written
        /\ r.buf[c].read = IF c = b THEN p.buf[c].read + 1 ELSE p.buf[c].read
        /\ r.buf[c].written = p.buf[c].written
  BY <1>1, ChunkCounters
<1> HIDE DEF w, r
<1>7. \A t : BuffersOf(w, t) = BuffersOf(p, t) /\ BuffersOf(r, t) = BuffersOf(p, t)
  BY <1>5 DEF BuffersOf
<1>8. Begun(p) => Begun(w) /\ Begun(r)
  BY <1>5 DEF Begun
<1>9. \A t : t # s => b \notin BuffersOf(p, t)
  BY DEF BuffersOf
<1>10. /\ \A t : ReadShare(w, t) = ReadShare(p, t) /\ WrittenShare(r, t) = WrittenShare(p, t)
       /\ \A t : t # s => WrittenShare(w, t) = WrittenShare(p, t) /\ ReadShare(r, t) = ReadShare(p, t)
  BY <1>6, <1>7, <1>9 DEF WrittenShare, ReadShare
<1>11. /\ WrittenShare(p, s) \in [Buffers -> Nat] /\ WrittenShare(w, s) \in [Buffers -> Nat]
       /\ ReadShare(p, s) \in [Buffers -> Nat] /\ ReadShare(r, s) \in [Buffers -> Nat]
  BY <1>2, SharesType
<1>12. ASSUME p.buf[b].written < BufferSize PROVE Balanced(w)
  <2>1. /\ WrittenShare(p, s)[b] = p.buf[b].written
        /\ WrittenShare(w, s)[b] = p.buf[b].written + 1
        /\ \A c \in Buffers : c # b => WrittenShare(w, s)[c] = WrittenShare(p, s)[c]
    BY <1>1, <1>6, <1>7 DEF WrittenShare
  <2>2. Total(WrittenShare(w, s)) = Total(WrittenShare(p, s)) + 1
    BY <1>1, <1>11, <1>12, <2>1, TotalAddsOne
  <2> QED BY <1>4, <1>7, <1>10, <2>2 DEF Balanced, HasSong
<1>13. ASSUME p.buf[b].read < BufferSize PROVE Balanced(r)
  <2>1. /\ ReadShare(p, s)[b] = p.buf[b].read
        /\ ReadShare(r, s)[b] = p.buf[b].read + 1
        /\ \A c \in Buffers : c # b => ReadShare(r, s)[c] = ReadShare(p, s)[c]
    BY <1>1, <1>6, <1>7 DEF ReadShare
  <2>2. Total(ReadShare(r, s)) = Total(ReadShare(p, s)) + 1
    BY <1>1, <1>11, <1>13, <2>1, TotalAddsOne
  <2> QED BY <1>4, <1>7, <1>10, <2>2 DEF Balanced, HasSong
<1> QED BY <1>7, <1>8, <1>12, <1>13 DEF w, r

-----------------------------------------------------------------------------
(* The specification again.  The ALSA thread adds what it reads to the song
   that was current when it chose the buffer: the buffer is still of it. *)

BalanceInv ==
  /\ Balanced(pool)
  /\ Begun(pool)
  /\ reader # NotReading => reader.buffer \in BuffersOf(pool, current)

LEMMA BalanceInvInit == Init => BalanceInv
<1> SUFFICES ASSUME Init PROVE BalanceInv
  OBVIOUS
<1>1. \A b \in Buffers : pool.buf[b].track = Nil
  BY DEF Init, InitialPool, EmptyBuffer
<1>2. \A s : ~HasSong(pool, s)
  BY <1>1 DEF HasSong, BuffersOf
<1>3. reader = NotReading
  BY DEF Init
<1> QED BY <1>1, <1>2, <1>3 DEF BalanceInv, Balanced, Begun

LEMMA CountStep ==
  ASSUME BalanceInv, KeepsCounts(pool, pool'), Begun(pool'), reader' = NotReading
  PROVE  BalanceInv'
<1>1. Balanced(pool')
  BY KeepsCountsBalanced DEF BalanceInv
<1> QED BY <1>1 DEF BalanceInv, Balanced, HasSong, WrittenShare, ReadShare, BuffersOf, Begun

LEMMA DecoderBalance == PoolInv /\ DecodeInv /\ CounterInv /\ BalanceInv /\ Decoder => BalanceInv'
<1> SUFFICES ASSUME PoolInv, DecodeInv, CounterInv, BalanceInv, Decoder PROVE BalanceInv'
  OBVIOUS
<1> DEFINE d == decoder.buffer
<1>1. /\ Sound(pool) /\ DecodingOrder(pool) /\ Bounded(pool) /\ Balanced(pool) /\ Begun(pool)
      /\ Working => /\ d \in Buffers /\ decoder.track \in Tracks /\ decoder.track # Nil
                    /\ NewSong \in Songs /\ NewSong = SongOf[decoder.track]
                    /\ DecoderView
  BY PoolAssumption DEF PoolInv, TypeOK, DecodeInv, CounterInv, BalanceInv, Working, NewSong
<1>2. ASSUME NEW t \in Tracks, DecoderAllocate(t) PROVE BalanceInv'
  <2>1. PICK b \in Buffers : IsEmpty(pool, b) /\ pool' = Allocate(pool, b)
    BY <1>2 DEF DecoderAllocate, NextEmptyBuffers
  <2>2. KeepsCounts(pool, pool') /\ Begun(pool')
    BY <1>1, <2>1, AllocateCounts
  <2> QED BY <1>2, <2>2, CountStep DEF DecoderAllocate, AlsaMtxFree
<1>3. CASE DecoderOpen
  <2>1. Working /\ decoder.stage = "allocated" /\ pool' = OperateBuffering(pool, d, decoder.track)
    BY <1>3 DEF DecoderOpen, DecoderAt, Working
  <2>2. pool.buf[d].track = Nil /\ ~HasSong(pool, SongOf[decoder.track])
    BY <1>1, <2>1 DEF DecoderView
  <2>3. KeepsCounts(pool, pool') /\ Begun(pool')
    BY <1>1, <2>1, <2>2, OpenCounts
  <2> QED BY <1>3, <2>3, CountStep DEF DecoderOpen, AlsaMtxFree
<1>4. CASE DecoderWrite
  <2>1. Working /\ decoder.stage = "writing" /\ pool' = WriteChunk(pool, d, NewSong)
        /\ reader' = reader /\ current' = current /\ pool.buf[d].written < BufferSize
    BY <1>4 DEF DecoderWrite, DecoderAt, Working, NewSong, CounterInv
  <2>2. d \in BuffersOf(pool, NewSong)
    BY <1>1, <2>1 DEF DecoderView, Opened, BuffersOf
  <2>3. /\ Balanced(pool') /\ Begun(pool')
        /\ \A t : BuffersOf(pool', t) = BuffersOf(pool, t)
    BY <1>1, <2>1, <2>2, ChunkBalanced
  <2>4. Balanced(pool)' /\ Begun(pool)'
    BY <2>3 DEF Balanced, HasSong, WrittenShare, ReadShare, BuffersOf, Begun
  <2>5. (reader # NotReading => reader.buffer \in BuffersOf(pool, current))'
    <3>1. BuffersOf(pool, current)' = BuffersOf(pool, current)
      BY <2>1, <2>3 DEF BuffersOf
    <3> QED BY <2>1, <3>1 DEF BalanceInv
  <2> QED BY <2>4, <2>5 DEF BalanceInv
<1>5. CASE DecoderEndOfFile \/ DecoderThreshold
  <2>1. Working /\ decoder.stage \in {"writing", "written"}
        /\ pool' = OperateBuffered(pool, d, decoder.track)
    BY <1>5 DEF DecoderEndOfFile, DecoderThreshold, DecoderAt, Working
  <2>2. pool.buf[d].track = decoder.track
    BY <1>1, <2>1 DEF DecoderView, Opened
  <2>3. KeepsCounts(pool, pool') /\ Begun(pool')
    BY <1>1, <2>1, <2>2, BufferedAlike, AlikeCounts
  <2> QED BY <1>5, <2>3, CountStep DEF DecoderEndOfFile, DecoderThreshold, AlsaMtxFree
<1>6. CASE DecoderNextChunk
  BY <1>6 DEF DecoderNextChunk, BalanceInv, Balanced, HasSong, WrittenShare, ReadShare, BuffersOf, Begun
<1>7. CASE DecoderFull \/ DecoderFinish
  <2>1. d \in Buffers /\ pool' \in {OperateLoaded(pool, d), OperateFinished(pool, d)}
    BY <1>1, <1>7 DEF DecoderFull, DecoderFinish, DecoderAt, Working
  <2>2. 0 \in 0 .. 9
    OBVIOUS
  <2>3. KeepsCounts(pool, pool') /\ Begun(pool')
    BY <1>1, <2>1, <2>2, StatusAlike, AlikeCounts
  <2> QED BY <1>7, <2>3, CountStep DEF DecoderFull, DecoderFinish, AlsaMtxFree
<1>8. CASE DecoderSwitch
  <2>1. PICK b \in Buffers : IsEmpty(pool, b) /\ pool' = Allocate(pool, b)
    BY <1>8 DEF DecoderSwitch, NextEmptyBuffers
  <2>2. KeepsCounts(pool, pool') /\ Begun(pool')
    BY <1>1, <2>1, AllocateCounts
  <2> QED BY <1>8, <2>2, CountStep DEF DecoderSwitch, AlsaMtxFree
<1>9. CASE DecoderContinue
  <2>1. Working /\ decoder.stage = "continue" /\ pool' = OperateContinue(pool, d, decoder.track)
    BY <1>9 DEF DecoderContinue, DecoderAt, Working
  <2>2. pool.buf[d].track = Nil /\ HasSong(pool, SongOf[decoder.track])
    BY <1>1, <2>1 DEF DecoderView
  <2>3. KeepsCounts(pool, pool') /\ Begun(pool')
    BY <1>1, <2>1, <2>2, OpenCounts
  <2> QED BY <1>9, <2>3, CountStep DEF DecoderContinue, AlsaMtxFree
<1>10. CASE DecoderGarbage
  <2>1. KeepsCounts(pool, pool') /\ Begun(pool')
    BY <1>1, <1>10, ResetsCounts DEF DecoderGarbage
  <2> QED BY <1>10, <2>1, CountStep DEF DecoderGarbage, AlsaMtxFree
<1>11. CASE DecoderFail
  <2>1. Working /\ pool' = ResetSong(pool, NewSong)
    BY <1>11 DEF DecoderFail, DecoderAt, Working, NewSong
  <2>2. KeepsCounts(pool, pool') /\ Begun(pool')
    BY <1>1, <2>1, ResetsCounts
  <2> QED BY <1>11, <2>2, CountStep DEF DecoderFail, AlsaMtxFree
<1>12. CASE DecoderHousekeeping
  <2>1. PICK hash, hardware, type, index, range :
          pool' = ResetByIndex(pool, hash, hardware, type, index, range)
    BY <1>12 DEF DecoderHousekeeping
  <2>2. KeepsCounts(pool, pool') /\ Begun(pool')
    BY <1>1, <2>1, ResetsCounts
  <2> QED BY <1>12, <2>2, CountStep DEF DecoderHousekeeping, AlsaMtxFree
<1>13. CASE DecoderCleared
  <2>1. KeepsCounts(pool, pool') /\ Begun(pool')
    BY <1>1, <1>13, ResetsCounts DEF DecoderCleared
  <2> QED BY <1>13, <2>1, CountStep DEF DecoderCleared, AlsaMtxFree
<1> QED BY <1>2, <1>3, <1>4, <1>5, <1>6, <1>7, <1>8, <1>9, <1>10, <1>11, <1>12, <1>13 DEF Decoder

(* The player: a change of the status, then perhaps a cleanup. *)
LEMMA CleanupAfter ==
  ASSUME NEW p, Sound(p), DecodingOrder(p), Begun(p), Bounded(p),
         NEW q, Sound(q), Same(p, q), Calm(p, q), Alike(p, q)
  PROVE  /\ KeepsCounts(p, q) /\ Begun(q)
         /\ \A s \in Songs : KeepsCounts(p, Cleanup(q, s)) /\ Begun(Cleanup(q, s))
         /\ KeepsCounts(p, CleanupAll(q)) /\ Begun(CleanupAll(q))
<1>1. KeepsCounts(p, q) /\ Begun(q)
  BY AlikeCounts
<1>2. DecodingOrder(q) /\ Bounded(q)
  BY SameOrder, CalmBounded
<1>3. \A s \in Songs : /\ KeepsCounts(q, Cleanup(q, s)) /\ Begun(Cleanup(q, s))
                       /\ \A u : BuffersOf(Cleanup(q, s), u) = BuffersOf(q, u)
  BY <1>1, <1>2, CleanupCounts
<1>4. /\ KeepsCounts(q, CleanupAll(q)) /\ Begun(CleanupAll(q))
      /\ \A u : BuffersOf(CleanupAll(q), u) = BuffersOf(q, u)
  BY <1>1, <1>2, CleanupCounts
<1>5. \A s \in Songs : KeepsCounts(p, Cleanup(q, s))
  BY <1>1, <1>3, KeepsCountsCompose DEF HasSong
<1>6. KeepsCounts(p, CleanupAll(q))
  BY <1>1, <1>4, KeepsCountsCompose DEF HasSong
<1> QED BY <1>1, <1>3, <1>4, <1>5, <1>6

LEMMA PlayerBalance == PoolInv /\ DecodeInv /\ CounterInv /\ BalanceInv /\ Player => BalanceInv'
<1> SUFFICES ASSUME PoolInv, DecodeInv, CounterInv, BalanceInv, Player PROVE BalanceInv'
  OBVIOUS
<1>1. /\ Sound(pool) /\ DecodingOrder(pool) /\ Bounded(pool) /\ Balanced(pool) /\ Begun(pool)
      /\ current \in Songs \cup {Nil}
  BY DEF PoolInv, TypeOK, DecodeInv, CounterInv, BalanceInv
<1> DEFINE stopped == IF current = Nil THEN pool ELSE Complete(pool, current)
<1>2. Sound(stopped) /\ Same(pool, stopped) /\ Calm(pool, stopped) /\ Alike(pool, stopped)
  <2>1. Same(pool, pool) /\ Calm(pool, pool) /\ Alike(pool, pool)
    BY DEF Same, Calm, Alike
  <2> QED BY <1>1, <2>1, CompleteSound, CompleteSame, CompleteCalm, CompleteAlike
<1>3. CASE \E s \in Songs : Play(s)
  <2>1. PICK s \in Songs : pool' = Cleanup(stopped, s) /\ reader' = NotReading
    BY <1>3 DEF Play, AlsaMtxFree
  <2> HIDE DEF stopped
  <2>2. KeepsCounts(pool, pool') /\ Begun(pool')
    BY <1>1, <1>2, <2>1, CleanupAfter
  <2> QED BY <2>1, <2>2, CountStep
<1>4. CASE PeriodBegin
  <2> DEFINE b == NextSongBuffer(pool, current)
             q == OperatePlaying(pool, b)
  <2>1. /\ b # Nil /\ pool' \in {q, OperateStatus(q, b, EBS_DRAINING)}
        /\ reader'.buffer = b /\ current' = current
    BY <1>4 DEF PeriodBegin
  <2>2. b \in BuffersOf(pool, current)
    <3>1. PlayingBuffers(pool, current) \in SUBSET BuffersOf(pool, current)
          /\ PlayableBuffers(pool, current) \in SUBSET BuffersOf(pool, current)
          /\ BuffersOf(pool, current) \in SUBSET Buffers
      BY DEF PlayingBuffers, PlayableBuffers, BuffersOf
    <3> QED BY <1>1, <2>1, <3>1, FirstInSet DEF NextSongBuffer, Sound
  <2>3. b \in Buffers /\ pool.buf[b].alloc
    BY <1>1, <2>1, NextSongBufferType
  <2> HIDE DEF b
  <2>4. EBS_DRAINING \in 0 .. 9
    BY DEF EBS_DRAINING
  <2>5. Sound(q) /\ Alike(pool, q)
    BY <1>1, <2>3, <2>4, OperateStatusSound, StatusAlike
  <2> HIDE DEF q
  <2>6. Alike(pool, pool')
    BY <2>1, <2>3, <2>4, <2>5, StatusAlike, AlikeCompose
  <2>7. /\ KeepsCounts(pool, pool') /\ Begun(pool')
        /\ \A s : BuffersOf(pool', s) = BuffersOf(pool, s)
    BY <1>1, <2>6, AlikeCounts
  <2>8. Balanced(pool')
    BY <1>1, <2>7, KeepsCountsBalanced
  <2>9. reader'.buffer \in BuffersOf(pool', current')
    BY <2>1, <2>2, <2>7
  <2> QED BY <2>7, <2>8, <2>9 DEF BalanceInv, Balanced, HasSong, WrittenShare, ReadShare, BuffersOf, Begun
<1>5. CASE PeriodEnd
  <2> DEFINE b == reader.buffer
             q == IF reader.rest > 0 THEN ReadChunk(pool, b, current) ELSE pool
             played == OperateStatus(q, b, EBS_PLAYED)
  <2>1. /\ b \in Buffers /\ current \in Songs /\ pool.buf[b].alloc
        /\ b \in BuffersOf(pool, current)
    BY <1>5 DEF PeriodEnd, PoolInv, TypeOK, BalanceInv
  <2>2. Sound(q) /\ Same(pool, q)
    <3>1. Same(pool, pool)
      BY DEF Same
    <3> QED BY <1>1, <2>1, <3>1, ChunkSound, ReadSame
  <2>3. Bounded(q) /\ Balanced(q) /\ Begun(q)
    <3>1. CASE reader.rest > 0
      <4>1. pool.buf[b].read < pool.buf[b].written
        BY <3>1 DEF CounterInv
      <4>2. \A c \in Buffers : /\ pool.buf[c].read \in Nat /\ pool.buf[c].written \in Nat
                               /\ pool.buf[c].read <= pool.buf[c].written
                               /\ pool.buf[c].written <= BufferSize
        BY <1>1 DEF Sound, Pools, BufferRecords, Bounded
      <4>3. pool.buf[b].read < BufferSize
        BY <2>1, <4>1, <4>2, PoolAssumption
      <4>4. Balanced(q) /\ Begun(q)
        BY <1>1, <2>1, <3>1, <4>3, ChunkBalanced
      <4>5. \A c \in Buffers :
              /\ q.buf[c].read = IF c = b THEN pool.buf[c].read + 1 ELSE pool.buf[c].read
              /\ q.buf[c].written = pool.buf[c].written
        BY <1>1, <2>1, <3>1, ChunkCounters
      <4> HIDE DEF q, b
      <4>6. Bounded(q)
        BY <2>1, <4>1, <4>2, <4>5 DEF Bounded
      <4> QED BY <4>4, <4>6
    <3>2. CASE ~(reader.rest > 0)
      BY <1>1, <3>2
    <3> QED BY <3>1, <3>2
  <2>4. /\ reader' = NotReading
        /\ \/ pool' = q \/ pool' = played
           \/ \E s \in Songs : pool' = Cleanup(played, s)
    BY <1>5 DEF PeriodEnd
  <2>5. DecodingOrder(q)
    BY <1>1, <2>2, SameOrder
  <2> HIDE DEF q, b
  <2>6. Sound(played) /\ Same(q, played) /\ Calm(q, played) /\ Alike(q, played)
    <3>1. EBS_PLAYED \in 0 .. 9 /\ q.buf[b].alloc
      BY <2>1, <2>2 DEF EBS_PLAYED, Same
    <3> QED BY <2>1, <2>2, <3>1, OperateStatusSound, StatusSame, StatusCalm, SameCountersCalm, StatusAlike
  <2> HIDE DEF played
  <2>7. Balanced(pool') /\ Begun(pool')
    <3>1. \/ pool' = q
          \/ KeepsCounts(q, pool') /\ Begun(pool')
      BY <2>2, <2>3, <2>4, <2>5, <2>6, CleanupAfter
    <3> QED BY <2>3, <3>1, KeepsCountsBalanced
  <2> QED BY <2>4, <2>7 DEF BalanceInv, Balanced, HasSong, WrittenShare, ReadShare, BuffersOf, Begun
<1>6. CASE Stop
  <2>1. KeepsCounts(pool, pool') /\ Begun(pool')
    BY <1>1, <1>6, CompleteAlike, AlikeCounts DEF Stop
  <2> QED BY <1>6, <2>1, CountStep DEF Stop, AlsaMtxFree
<1>7. CASE Close
  <2>1. pool' = CleanupAll(stopped) /\ reader' = NotReading
    BY <1>7 DEF Close, AlsaMtxFree
  <2> HIDE DEF stopped
  <2>2. KeepsCounts(pool, pool') /\ Begun(pool')
    BY <1>1, <1>2, <2>1, CleanupAfter
  <2> QED BY <2>1, <2>2, CountStep
<1> QED BY <1>3, <1>4, <1>5, <1>6, <1>7 DEF Player

LEMMA BalanceInvNext ==
  PoolInv /\ DecodeInv /\ CounterInv /\ BalanceInv /\ [Next]_vars => BalanceInv'
<1> SUFFICES ASSUME PoolInv, DecodeInv, CounterInv, BalanceInv, [Next]_vars PROVE BalanceInv'
  OBVIOUS
<1>1. CASE UNCHANGED vars
  BY <1>1 DEF vars, BalanceInv, Balanced, HasSong, WrittenShare, ReadShare, BuffersOf, Begun
<1>2. CASE Rebuild
  <2>1. KeepsCounts(pool, pool') /\ Begun(pool')
    BY <1>2, ResetsCounts DEF Rebuild, PoolInv, DecodeInv, BalanceInv
  <2> QED BY <1>2, <2>1, CountStep DEF Rebuild, AlsaMtxFree
<1> QED BY <1>1, <1>2, DecoderBalance, PlayerBalance DEF Next

(* The progress that is counted in the song, by the decoder and the ALSA thread
   as they go, always is the sum of what its buffers count for themselves. *)
THEOREM PoolStatisticsMatch == Spec => []StatisticsMatchBuffers
<1>1. PoolInv /\ CounterInv /\ BalanceInv => StatisticsMatchBuffers
  <2> SUFFICES ASSUME PoolInv, CounterInv, BalanceInv, NEW s \in Songs, HasSong(pool, s)
               PROVE  /\ pool.song[s].written = Sum(BuffersOf(pool, s), LAMBDA b : pool.buf[b].written)
                      /\ pool.song[s].read = Sum(BuffersOf(pool, s), LAMBDA b : pool.buf[b].read)
    BY DEF StatisticsMatchBuffers
  <2>1. Sound(pool) /\ Bounded(pool) /\ Balanced(pool)
    BY DEF PoolInv, CounterInv, BalanceInv
  <2> QED BY <2>1, BalancedSums DEF Sum, Units
<1>2. Init => PoolInv /\ DecodeInv /\ CounterInv /\ BalanceInv
  BY PoolInvInit, DecodeInvInit, CounterInvInit, BalanceInvInit
<1>3. PoolInv /\ DecodeInv /\ CounterInv /\ BalanceInv /\ [Next]_vars
        => (PoolInv /\ DecodeInv /\ CounterInv /\ BalanceInv)'
  BY PoolInvNext, DecodeInvNext, CounterInvNext, BalanceInvNext
<1> QED BY <1>1, <1>2, <1>3, PTL DEF Spec

-----------------------------------------------------------------------------
(* The places of the chunks on the tape of a song. *)

LEMMA EarlierFinite ==
  ASSUME NEW p, NEW b
  PROVE  /\ IsFiniteSet(Earlier(p, b)) /\ Cardinality(Earlier(p, b)) \in Nat
         /\ Before(p, b) \in Nat
<1>1. Earlier(p, b) \subseteq Buffers
  BY DEF Earlier, BuffersOf
<1>2. IsFiniteSet(Earlier(p, b)) /\ Cardinality(Earlier(p, b)) \in Nat
  BY <1>1, PoolAssumption, FS_Subset, FS_CardinalityType
<1>3. BufferSize \in Nat
  BY PoolAssumption
<1>4. BufferSize * Cardinality(Earlier(p, b)) \in Nat
  BY <1>2, <1>3, TimesNat
<1> QED BY <1>2, <1>4 DEF Before

(* A full buffer lies between the chunks before it and those before the next. *)
LEMMA BeforeNext ==
  ASSUME NEW p, Sound(p), NEW s, NEW b \in BuffersOf(p, s), NEW c \in BuffersOf(p, s),
         p.buf[c].key < p.buf[b].key
  PROVE  Before(p, c) + BufferSize <= Before(p, b)
<1> DEFINE m == Cardinality(Earlier(p, c))
           k == Cardinality(Earlier(p, b))
<1>1. /\ c \in Buffers /\ SongIn(p, b) = s /\ SongIn(p, c) = s
      /\ p.buf[b].key \in Nat /\ p.buf[c].key \in Nat
      /\ \A d \in BuffersOf(p, s) : p.buf[d].key \in Nat
  BY BuffersOfType
<1>2. c \notin Earlier(p, c) /\ Earlier(p, c) \cup {c} \subseteq Earlier(p, b)
  BY <1>1 DEF Earlier
<1>3. IsFiniteSet(Earlier(p, c)) /\ IsFiniteSet(Earlier(p, b)) /\ m \in Nat /\ k \in Nat
  BY EarlierFinite
<1>4. Cardinality(Earlier(p, c) \cup {c}) = m + 1
  BY <1>2, <1>3, FS_AddElement
<1>5. m + 1 <= k
  BY <1>2, <1>3, <1>4, FS_Subset
<1>6. BufferSize \in Nat
  BY PoolAssumption
<1>7. BufferSize * (m + 1) = BufferSize * m + BufferSize
  BY <1>3, <1>6, TimesSuccessor
<1>8. /\ BufferSize * k = BufferSize * (k - (m + 1)) + (m + 1) * BufferSize
      /\ BufferSize * (k - (m + 1)) \in Nat
  BY <1>3, <1>5, <1>6, TimesDifference, TimesNat
<1>9. (m + 1) * BufferSize = BufferSize * (m + 1) /\ BufferSize * m \in Nat
  BY <1>3, <1>6, TimesNat
<1> HIDE DEF m, k
<1>10. BufferSize * m + BufferSize <= BufferSize * k
  BY <1>6, <1>7, <1>8, <1>9
<1> QED BY <1>10 DEF Before, m, k

(* What is written in a buffer is on the tape of its song. *)
LEMMA OnTheTape ==
  ASSUME NEW p, Sound(p), DecodingOrder(p), Bounded(p), Balanced(p), NEW s \in Songs, NEW b \in BuffersOf(p, s)
  PROVE  Before(p, b) + p.buf[b].written <= OnTape(p, s)
<1> DEFINE E == Earlier(p, b)
           w == p.buf[b].written
           U == {u \in Buffers \X (1 .. BufferSize) : u[2] <= WrittenShare(p, s)[u[1]]}
           full == E \X (1 .. BufferSize)
           rest == {b} \X (1 .. w)
<1>1. b \in Buffers /\ SongIn(p, b) = s /\ p.buf[b].key \in Nat
  BY BuffersOfType
<1>2. BufferSize \in Nat /\ w \in Nat /\ w <= BufferSize
  BY <1>1, PoolAssumption DEF Sound, Pools, BufferRecords, Bounded
<1>3. \A c \in E : c \in Buffers /\ c # b /\ WrittenShare(p, s)[c] = BufferSize
  BY <1>1 DEF Earlier, DecodingOrder, Follows, WrittenShare, BuffersOf
<1>4. WrittenShare(p, s)[b] = w
  BY <1>1 DEF WrittenShare
<1>5. IsFiniteSet(E) /\ Cardinality(E) \in Nat
  BY EarlierFinite
<1>6. IsFiniteSet(U)
  <2>1. IsFiniteSet(Buffers \X (1 .. BufferSize))
    BY <1>2, PoolAssumption, UnitsOfOne, FS_Product
  <2> QED BY <2>1, FS_Subset
<1>7. full \cup rest \subseteq U /\ full \cap rest = {}
  <2> HIDE DEF E, w
  <2> QED BY <1>1, <1>2, <1>3, <1>4
<1>8. IsFiniteSet(full) /\ Cardinality(full) = Cardinality(E) * BufferSize
  <2>1. IsFiniteSet(1 .. BufferSize) /\ Cardinality(1 .. BufferSize) = BufferSize
    BY <1>2, UnitsOfOne
  <2> QED BY <1>5, <2>1, FS_Product
<1>9. IsFiniteSet(rest) /\ Cardinality(rest) = w
  BY <1>2, UnitsOfOne
<1> HIDE DEF E, w, U, full, rest
<1>10. IsFiniteSet(full \cup rest) /\ Cardinality(full \cup rest) = Cardinality(E) * BufferSize + w
  <2>1. Cardinality(full \cap rest) = 0
    BY <1>7, FS_EmptySet
  <2>2. /\ IsFiniteSet(full \cup rest)
        /\ Cardinality(full \cup rest) = Cardinality(full) + Cardinality(rest) - Cardinality(full \cap rest)
    BY <1>8, <1>9, FS_Union
  <2>3. Cardinality(E) * BufferSize \in Nat
    BY <1>2, <1>5, TimesNat
  <2> QED BY <1>2, <1>8, <1>9, <2>1, <2>2, <2>3
<1>11. Cardinality(full \cup rest) <= Cardinality(U)
  BY <1>6, <1>7, FS_Subset
<1>12. OnTape(p, s) = Cardinality(U)
  BY DEF OnTape, HasSong, Balanced, Total, U
<1>13. Before(p, b) = Cardinality(E) * BufferSize
  BY <1>2, <1>5 DEF Before, E
<1> QED BY <1>10, <1>11, <1>12, <1>13 DEF w

(* What is on the tape of a song and what was heard of it does not change. *)
SameSong(p, q, s) == OnTape(q, s) = OnTape(p, s) /\ Heard(q, s) = Heard(p, s)
SameTape(p, q) == \A s \in Songs : SameSong(p, q, s)

LEMMA SameTapeCompose ==
  ASSUME NEW p, NEW q, NEW r, SameTape(p, q), SameTape(q, r)
  PROVE  SameTape(p, r)
BY DEF SameTape, SameSong

LEMMA HeardSame ==
  ASSUME NEW p, Sound(p), NEW q, NEW s, BuffersOf(q, s) = BuffersOf(p, s),
         \A b \in BuffersOf(p, s) : /\ q.buf[b].track = p.buf[b].track
                                    /\ q.buf[b].key = p.buf[b].key
                                    /\ q.buf[b].read = p.buf[b].read
  PROVE  Heard(q, s) = Heard(p, s) /\ \A b \in BuffersOf(p, s) : Before(q, b) = Before(p, b)
<1>1. \A b \in BuffersOf(p, s) : SongIn(p, b) = s /\ SongIn(q, b) = s
  BY BuffersOfType DEF SongIn
<1>2. \A b \in BuffersOf(p, s) : Earlier(q, b) = Earlier(p, b)
  BY <1>1 DEF Earlier
<1>3. \A b \in BuffersOf(p, s) : Before(q, b) = Before(p, b)
  BY <1>2 DEF Before
<1>4. Heard(q, s) = Heard(p, s)
  BY <1>3 DEF Heard
<1> QED BY <1>3, <1>4

LEMMA HeardNothing ==
  ASSUME NEW p, NEW s, \A b \in BuffersOf(p, s) : p.buf[b].read = 0
  PROVE  Heard(p, s) = {}
<1>1. \A b \in BuffersOf(p, s) : Before(p, b) + 1 .. Before(p, b) + p.buf[b].read = {}
  BY EarlierFinite
<1> QED BY <1>1 DEF Heard

SameKeys(p, q) == \A b \in Buffers : q.buf[b].key = p.buf[b].key

LEMMA AlikeTape ==
  ASSUME NEW p, NEW q, Sound(p), SameKeys(p, q), Alike(p, q)
  PROVE  SameTape(p, q)
<1>1. \A s : BuffersOf(q, s) = BuffersOf(p, s)
  BY DEF Alike, BuffersOf
<1>2. \A s : BuffersOf(p, s) \subseteq Buffers
  BY DEF BuffersOf
<1>3. \A s \in Songs : Heard(q, s) = Heard(p, s)
  BY <1>1, <1>2, HeardSame DEF SameKeys, Alike
<1>4. \A s \in Songs : OnTape(q, s) = OnTape(p, s)
  BY <1>1 DEF OnTape, HasSong, Alike
<1> QED BY <1>3, <1>4 DEF SameTape, SameSong

LEMMA AllocateTape ==
  ASSUME NEW p, Sound(p), DecodingOrder(p), Started(p), NEW b \in Buffers, IsEmpty(p, b)
  PROVE  SameTape(p, Allocate(p, b))
<1> DEFINE q == Allocate(p, b)
<1>1. /\ \A s : BuffersOf(q, s) = BuffersOf(p, s)
      /\ \A c \in Buffers : c # b => q.buf[c] = p.buf[c]
      /\ p.buf[b].track = Nil /\ q.song = p.song
  BY AllocateOrder
<1> HIDE DEF q
<1>2. \A s : \A c \in BuffersOf(p, s) : q.buf[c] = p.buf[c]
  BY <1>1 DEF BuffersOf
<1>3. \A s \in Songs : Heard(q, s) = Heard(p, s)
  BY <1>1, <1>2, HeardSame
<1>4. \A s \in Songs : OnTape(q, s) = OnTape(p, s)
  BY <1>1 DEF OnTape, HasSong
<1>5. SameTape(p, q)
  BY <1>3, <1>4 DEF SameTape, SameSong
<1> QED BY <1>5 DEF q

(* The last buffer of a song has nothing to hear yet. *)
LEMMA OpenTape ==
  ASSUME NEW p, Sound(p), NEW q, NEW b \in Buffers, NEW t \in Tracks, p.buf[b].track = Nil,
         p.buf[b].alloc, p.buf[b].key = p.key, Touches(p, q, b),
         q.buf[b].track = t, q.buf[b].read = 0,
         \A s \in Songs : s # SongOf[t] => q.song[s] = p.song[s],
         q.song[SongOf[t]].written = OnTape(p, SongOf[t])
  PROVE  SameTape(p, q)
<1> DEFINE u == SongOf[t]
<1>1. u \in Songs /\ t # Nil
  BY PoolAssumption
<1>2. BuffersOf(q, u) = BuffersOf(p, u) \cup {b} /\ b \notin BuffersOf(p, u)
  BY <1>1 DEF BuffersOf, Touches
<1>3. \A s : s # u => BuffersOf(q, s) = BuffersOf(p, s) /\ b \notin BuffersOf(p, s)
  BY <1>1 DEF BuffersOf, Touches
<1>4. \A s : \A c \in BuffersOf(p, s) : /\ c \in Buffers /\ q.buf[c] = p.buf[c]
                                        /\ SongIn(p, c) = s /\ SongIn(q, c) = s
                                        /\ p.buf[c].key \in Nat /\ p.buf[c].key <= p.key
  BY <1>2, <1>3, BuffersOfType DEF Touches, SongIn
<1>5. ASSUME NEW s \in Songs, s # u PROVE SameSong(p, q, s)
  <2>1. Heard(q, s) = Heard(p, s)
    BY <1>3, <1>4, <1>5, HeardSame
  <2> QED BY <1>3, <1>5, <2>1 DEF SameSong, OnTape, HasSong
<1>6. \A c \in BuffersOf(p, u) : Earlier(q, c) = Earlier(p, c)
  <2>1. p.key \in Nat /\ q.buf[b].key = p.key
    BY DEF Touches, Sound, Pools
  <2> QED BY <1>2, <1>4, <2>1 DEF Earlier
<1>7. \A c \in BuffersOf(p, u) : Before(q, c) = Before(p, c) /\ q.buf[c].read = p.buf[c].read
  BY <1>4, <1>6 DEF Before
<1>8. Before(q, b) + 1 .. Before(q, b) + q.buf[b].read = {}
  BY EarlierFinite
<1>9. Heard(q, u) = Heard(p, u)
  BY <1>2, <1>7, <1>8 DEF Heard
<1>10. OnTape(q, u) = OnTape(p, u)
  BY <1>2 DEF OnTape, HasSong
<1> QED BY <1>5, <1>9, <1>10 DEF SameTape, SameSong

(* Released songs are wiped. *)
LEMMA GoneTape ==
  ASSUME NEW p, Sound(p), NEW q, NEW S, NEW T, Releases(p, q, S, T), NEW s \in Songs
  PROVE  SameSong(p, q, s) \/ (OnTape(q, s) = 0 /\ Heard(q, s) = {})
<1>1. \A b \in Buffers : /\ b \in S => q.buf[b].track = Nil
                         /\ b \notin S => q.buf[b] = p.buf[b]
  BY DEF Releases, Gone, EmptyBuffer
<1>2. BuffersOf(q, s) = BuffersOf(p, s) \ S /\ BuffersOf(p, s) \subseteq Buffers
  BY <1>1 DEF BuffersOf
<1>3. CASE BuffersOf(q, s) = {}
  BY <1>3 DEF OnTape, HasSong, Heard
<1>4. CASE BuffersOf(q, s) # {}
  <2>1. \A b \in BuffersOf(p, s) : b \notin S
    BY <1>2, <1>4 DEF Releases, WholeSongs
  <2>2. BuffersOf(q, s) = BuffersOf(p, s) /\ \A b \in BuffersOf(p, s) : q.buf[b] = p.buf[b]
    BY <1>1, <1>2, <2>1
  <2>3. q.song[s] = p.song[s]
    BY <1>2, <1>4 DEF Releases
  <2>4. Heard(q, s) = Heard(p, s)
    BY <2>2, HeardSame
  <2> QED BY <2>2, <2>3, <2>4 DEF SameSong, OnTape, HasSong
<1> QED BY <1>3, <1>4

(* A song that begins has nothing heard; the tapes stay. *)
LEMMA CleanupTape ==
  ASSUME NEW p, Sound(p), DecodingOrder(p), Begun(p), Bounded(p)
  PROVE  /\ \A s \in Songs : /\ \A u \in Songs : OnTape(Cleanup(p, s), u) = OnTape(p, u)
                             /\ Heard(Cleanup(p, s), s) = {}
         /\ \A u \in Songs : OnTape(CleanupAll(p), u) = OnTape(p, u)
<1>1. \A T : \A u \in Songs : Rewound(p, T).song[u].written = p.song[u].written
  BY DEF Sound, Pools, Rewound, SongRecords
<1>2. ASSUME NEW s \in Songs
      PROVE  /\ \A u \in Songs : OnTape(Cleanup(p, s), u) = OnTape(p, u)
             /\ Heard(Cleanup(p, s), s) = {}
  <2> DEFINE q == Rewound(p, BuffersOf(p, s))
             r == Cleanup(p, s)
  <2>1. Sound(q) /\ r = [q EXCEPT !.song = [q.song EXCEPT ![s] = [q.song[s] EXCEPT !.read = 0]]]
    BY RewoundSound DEF Cleanup
  <2>2. \A u \in Songs : q.song[u].written = p.song[u].written
    BY <1>1
  <2>3. (\A u : BuffersOf(r, u) = BuffersOf(p, u)) /\ ReadShare(r, s) = Nothing
    BY CleanupCounts
  <2> HIDE DEF q, r
  <2>4. \A u \in Songs : r.song[u].written = p.song[u].written
    BY <2>1, <2>2 DEF Sound, Pools, SongRecords
  <2>5. \A u \in Songs : OnTape(r, u) = OnTape(p, u)
    BY <2>3, <2>4 DEF OnTape, HasSong
  <2>6. \A b \in BuffersOf(r, s) : r.buf[b].read = 0
    <3>1. \A b \in BuffersOf(r, s) : b \in Buffers /\ ReadShare(r, s)[b] = 0
      BY <2>3 DEF BuffersOf, Nothing
    <3> QED BY <3>1 DEF ReadShare
  <2>7. Heard(r, s) = {}
    BY <2>6, HeardNothing
  <2> QED BY <2>5, <2>7 DEF r
<1>3. ASSUME NEW u \in Songs PROVE OnTape(CleanupAll(p), u) = OnTape(p, u)
  BY <1>1, CleanupCounts DEF CleanupAll, OnTape, HasSong
<1> QED BY <1>2, <1>3

(* One chunk is appended. *)
LEMMA WriteTape ==
  ASSUME NEW p, Sound(p), Balanced(p), NEW s \in Songs, NEW b \in BuffersOf(p, s)
  PROVE  LET q == WriteChunk(p, b, s)
         IN  /\ \A t \in Songs : Heard(q, t) = Heard(p, t)
             /\ \A t \in Songs : OnTape(q, t) = IF t = s THEN OnTape(p, s) + 1 ELSE OnTape(p, t)
<1> DEFINE q == WriteChunk(p, b, s)
<1>1. b \in Buffers
  BY BuffersOfType
<1>2. \A t : BuffersOf(q, t) = BuffersOf(p, t)
  BY ChunkBalanced
<1>3. \A t \in Songs : q.song[t].written = IF t = s THEN p.song[s].written + 1 ELSE p.song[t].written
  BY DEF WriteChunk, Sound, Pools, SongRecords
<1>4. \A c \in Buffers : /\ q.buf[c].track = p.buf[c].track /\ q.buf[c].key = p.buf[c].key
                         /\ q.buf[c].read = p.buf[c].read
  BY <1>1 DEF WriteChunk, Sound, Pools, BufferRecords
<1> HIDE DEF q
<1>5. \A t \in Songs : Heard(q, t) = Heard(p, t)
  BY <1>2, <1>4, HeardSame DEF BuffersOf
<1>6. HasSong(p, s)
  BY DEF HasSong
<1>7. \A t \in Songs : OnTape(q, t) = IF t = s THEN OnTape(p, s) + 1 ELSE OnTape(p, t)
  BY <1>2, <1>3, <1>6 DEF OnTape, HasSong
<1> QED BY <1>5, <1>7 DEF q

(* One chunk is read. *)
LEMMA ReadTape ==
  ASSUME NEW p, Sound(p), Balanced(p), NEW s \in Songs, NEW b \in BuffersOf(p, s)
  PROVE  LET q == ReadChunk(p, b, s)
         IN  /\ Heard(q, s) = Heard(p, s) \cup {Before(p, b) + p.buf[b].read + 1}
             /\ \A t \in Songs : OnTape(q, t) = OnTape(p, t)
<1> DEFINE q == ReadChunk(p, b, s)
           place(c) == Before(p, c) + 1 .. Before(p, c) + p.buf[c].read
           n == Before(p, b) + p.buf[b].read + 1
<1>1. b \in Buffers /\ \A c \in BuffersOf(p, s) : c \in Buffers /\ SongIn(p, c) = s
  BY BuffersOfType
<1>2. \A t : BuffersOf(q, t) = BuffersOf(p, t)
  BY ChunkBalanced
<1>3. \A t \in Songs : q.song[t].written = p.song[t].written
  BY DEF ReadChunk, Sound, Pools, SongRecords
<1>4. \A c \in Buffers : /\ q.buf[c].track = p.buf[c].track /\ q.buf[c].key = p.buf[c].key
                         /\ q.buf[c].read = IF c = b THEN p.buf[c].read + 1 ELSE p.buf[c].read
  BY <1>1 DEF ReadChunk, Sound, Pools, BufferRecords
<1> HIDE DEF q
<1>5. \A c \in BuffersOf(p, s) : Before(q, c) = Before(p, c)
  <2> TAKE c \in BuffersOf(p, s)
  <2>1. SongIn(p, c) = s /\ SongIn(q, c) = s
    BY <1>1, <1>4 DEF SongIn
  <2>2. \A d \in BuffersOf(p, s) : q.buf[d].key = p.buf[d].key
    BY <1>1, <1>4
  <2>3. Earlier(q, c) = Earlier(p, c)
    BY <1>2, <2>1, <2>2 DEF Earlier
  <2> QED BY <2>3 DEF Before
<1>6. Before(p, b) \in Nat /\ p.buf[b].read \in Nat
  BY <1>1, EarlierFinite DEF Sound, Pools, BufferRecords
<1>7. Before(q, b) + 1 .. Before(q, b) + q.buf[b].read = place(b) \cup {n}
  BY <1>1, <1>4, <1>5, <1>6
<1>8. \A c \in BuffersOf(p, s) : c # b => Before(q, c) + 1 .. Before(q, c) + q.buf[c].read = place(c)
  BY <1>1, <1>4, <1>5
<1> HIDE DEF place, n
<1>9. (UNION {place(c) : c \in BuffersOf(p, s)}) \cup {n}
        = UNION {Before(q, c) + 1 .. Before(q, c) + q.buf[c].read : c \in BuffersOf(q, s)}
  BY <1>2, <1>7, <1>8
<1>10. Heard(q, s) = Heard(p, s) \cup {n}
  BY <1>9 DEF Heard, place
<1>11. \A t \in Songs : OnTape(q, t) = OnTape(p, t)
  BY <1>2, <1>3 DEF OnTape, HasSong
<1> QED BY <1>10, <1>11 DEF q, n

(* The chunk that is read comes right behind those that were heard before, when
   the earlier buffers have been left and the later ones not yet been entered. *)
LEMMA HearNext ==
  ASSUME NEW p, Sound(p), DecodingOrder(p), Bounded(p), Balanced(p), NEW s \in Songs,
         NEW b \in BuffersOf(p, s), p.buf[b].read < p.buf[b].written,
         \A c \in BuffersOf(p, s) : /\ p.buf[c].key < p.buf[b].key => p.buf[c].read > 0
                                    /\ p.buf[b].key < p.buf[c].key => p.buf[c].read = 0
  PROVE  LET n == Before(p, b) + p.buf[b].read + 1
         IN  /\ n \in 1 .. OnTape(p, s)
             /\ \A k \in Heard(p, s) : k < n
             /\ Heard(p, s) = {} => n = 1
<1> DEFINE n == Before(p, b) + p.buf[b].read + 1
<1>1. /\ BufferSize \in Nat
      /\ \A c \in BuffersOf(p, s) :
           /\ c \in Buffers /\ c \in Allocated(p) /\ Before(p, c) \in Nat /\ p.buf[c].key \in Nat
           /\ p.buf[c].read \in Nat /\ p.buf[c].written \in Nat
           /\ p.buf[c].read <= BufferSize /\ SongIn(p, c) = s
  BY BuffersOfType, EarlierFinite, PoolAssumption DEF Sound, Pools, BufferRecords, Bounded
<1>2. OnTape(p, s) \in Nat
  BY DEF OnTape, Sound, Pools, SongRecords
<1>3. n \in 1 .. OnTape(p, s)
  <2>1. Before(p, b) + p.buf[b].written <= OnTape(p, s)
    BY OnTheTape
  <2> QED BY <1>1, <1>2, <2>1
<1>4. ASSUME NEW k \in Heard(p, s) PROVE k < n
  <2>1. PICK c \in BuffersOf(p, s) : k \in Before(p, c) + 1 .. Before(p, c) + p.buf[c].read
    BY DEF Heard
  <2>2. CASE p.buf[c].key < p.buf[b].key
    <3>1. Before(p, c) + BufferSize <= Before(p, b)
      BY <2>2, BeforeNext
    <3> QED BY <1>1, <2>1, <3>1
  <2>3. CASE p.buf[b].key < p.buf[c].key
    BY <1>1, <2>1, <2>3
  <2>4. CASE p.buf[b].key = p.buf[c].key
    <3>1. c = b
      BY <1>1, <2>4 DEF Sound, Keyed
    <3> QED BY <1>1, <2>1, <3>1
  <2> QED BY <1>1, <2>2, <2>3, <2>4
<1>5. ASSUME Heard(p, s) = {} PROVE n = 1
  <2>1. \A c \in BuffersOf(p, s) : Before(p, c) + 1 .. Before(p, c) + p.buf[c].read = {}
    BY <1>5 DEF Heard
  <2>2. \A c \in BuffersOf(p, s) : p.buf[c].read = 0
    <3> TAKE c \in BuffersOf(p, s)
    <3>1. Before(p, c) + 1 \notin Before(p, c) + 1 .. Before(p, c) + p.buf[c].read
      BY <2>1
    <3> QED BY <1>1, <3>1
  <2>3. Earlier(p, b) = {}
    BY <1>1, <2>2 DEF Earlier
  <2>4. Before(p, b) = 0
    BY <1>1, <2>3, FS_EmptySet DEF Before
  <2> QED BY <2>2, <2>4
<1> QED BY <1>3, <1>4, <1>5

-----------------------------------------------------------------------------
(* How playback walks the buffers of the song it plays.  Of the status it asks
   only these: *)

Leaving(p, b) == p.buf[b].status >= EBS_DRAINING
Playing(p, b) == p.buf[b].status \in {EBS_PLAYING, EBS_DRAINING}
Entered(p, b) == p.buf[b].read > 0 \/ Playing(p, b)

(* Nothing plays in a buffer of no song, and no buffer is of a stream. *)
Plain(p) ==
  \A b \in Buffers : /\ p.buf[b].track = Nil => p.buf[b].status = EBS_EMPTY
                     /\ p.buf[b].track # Nil => SongIn(p, b) \notin Streamed
                     /\ p.buf[b].status # EBS_FINISHED

(* A buffer without samples is not being played, except by the period that
   will find it exhausted: x is the buffer of that period. *)
Parked(p, x) ==
  \A b \in Buffers : b # x /\ p.buf[b].written = 0 => ~Playing(p, b)

(* A buffer is entered when the earlier ones have been left, ... *)
Left(p, s) ==
  \A b, c \in BuffersOf(p, s) : p.buf[b].key < p.buf[c].key /\ Entered(p, c) => Leaving(p, b)

(* ... and is left when something of it was heard, if there was anything. *)
Drained(p, s, x) ==
  \A b \in BuffersOf(p, s) : b # x /\ Leaving(p, b) => p.buf[b].read > 0 \/ p.buf[b].written = 0

(* What the decoder and the collectors do to a buffer: it is unused, or the
   decoder has just begun to fill it, or it is as it was for the player. *)
Unused(q, b) == q.buf[b].track = Nil /\ q.buf[b].status = EBS_EMPTY
Fresh(q, b) ==
  /\ q.buf[b].track # Nil /\ SongIn(q, b) \notin Streamed
  /\ q.buf[b].read = 0 /\ q.buf[b].status = EBS_BUFFERING
  /\ \A c \in Buffers : q.buf[c].track # Nil => q.buf[c].key <= q.buf[b].key
Kept(p, q, b) ==
  /\ p.buf[b].track # Nil
  /\ q.buf[b].track = p.buf[b].track /\ q.buf[b].key = p.buf[b].key
  /\ q.buf[b].read = p.buf[b].read /\ q.buf[b].written = p.buf[b].written
  /\ q.buf[b].status # EBS_FINISHED
  /\ Leaving(q, b) <=> Leaving(p, b)
  /\ Playing(q, b) => Playing(p, b)
Quiet(p, q) == \A b \in Buffers : Unused(q, b) \/ Fresh(q, b) \/ Kept(p, q, b)

LEMMA QuietWalk ==
  ASSUME NEW p, NEW q, Sound(q), NEW x, Plain(p), Parked(p, x), Quiet(p, q)
  PROVE  /\ Plain(q) /\ Parked(q, x)
         /\ \A s : Left(p, s) => Left(q, s)
         /\ \A s : Drained(p, s, x) => Drained(q, s, x)
<1>1. \A b \in Buffers : Unused(q, b) => ~Playing(q, b)
  BY DEF Unused, Playing, EBS_EMPTY, EBS_PLAYING, EBS_DRAINING
<1>2. \A b \in Buffers : Fresh(q, b) => ~Leaving(q, b) /\ ~Entered(q, b)
  BY DEF Fresh, Leaving, Entered, Playing, EBS_BUFFERING, EBS_PLAYING, EBS_DRAINING
<1>3. \A s : \A b \in BuffersOf(q, s) : /\ b \in Buffers /\ (Fresh(q, b) \/ Kept(p, q, b))
                                        /\ q.buf[b].key \in Nat /\ q.buf[b].track # Nil
  <2> TAKE s
  <2> TAKE b \in BuffersOf(q, s)
  <2>1. b \in Buffers /\ q.buf[b].track # Nil /\ q.buf[b].key \in Nat
    BY BuffersOfType
  <2> QED BY <2>1 DEF Quiet, Unused
<1>4. \A s : \A b \in BuffersOf(q, s) : Kept(p, q, b) => b \in BuffersOf(p, s)
  BY DEF BuffersOf, Kept
<1>5. \A b \in Buffers : Kept(p, q, b) /\ Entered(q, b) => Entered(p, b)
  BY DEF Kept, Entered
<1>6. Plain(q)
  <2> SUFFICES ASSUME NEW b \in Buffers
               PROVE  /\ q.buf[b].track = Nil => q.buf[b].status = EBS_EMPTY
                      /\ q.buf[b].track # Nil => SongIn(q, b) \notin Streamed
                      /\ q.buf[b].status # EBS_FINISHED
    BY DEF Plain
  <2>1. CASE Unused(q, b)
    BY <2>1 DEF Unused, EBS_EMPTY, EBS_FINISHED
  <2>2. CASE Fresh(q, b)
    BY <2>2 DEF Fresh, EBS_BUFFERING, EBS_FINISHED
  <2>3. CASE Kept(p, q, b)
    BY <2>3 DEF Kept, Plain, SongIn
  <2> QED BY <2>1, <2>2, <2>3 DEF Quiet
<1>7. Parked(q, x)
  BY <1>1, <1>2 DEF Parked, Quiet, Kept, Entered
<1>8. ASSUME NEW s, Left(p, s) PROVE Left(q, s)
  <2> SUFFICES ASSUME NEW b \in BuffersOf(q, s), NEW c \in BuffersOf(q, s),
                      q.buf[b].key < q.buf[c].key, Entered(q, c)
               PROVE  Leaving(q, b)
    BY DEF Left
  <2>1. Kept(p, q, c)
    BY <1>2, <1>3
  <2>2. Kept(p, q, b)
    BY <1>3 DEF Fresh
  <2>3. b \in BuffersOf(p, s) /\ c \in BuffersOf(p, s) /\ Entered(p, c)
    BY <1>3, <1>4, <1>5, <2>1, <2>2
  <2>4. Leaving(p, b)
    BY <1>8, <2>1, <2>2, <2>3 DEF Left, Kept
  <2> QED BY <2>2, <2>4 DEF Kept
<1>9. ASSUME NEW s, Drained(p, s, x) PROVE Drained(q, s, x)
  BY <1>2, <1>3, <1>4, <1>9 DEF Drained, Kept
<1> QED BY <1>6, <1>7, <1>8, <1>9

LEMMA KeptSame ==
  ASSUME NEW p, Plain(p), NEW q, NEW b \in Buffers, q.buf[b] = p.buf[b]
  PROVE  Unused(q, b) \/ Kept(p, q, b)
BY DEF Plain, Unused, Kept, Leaving, Playing

LEMMA AllocateQuiet ==
  ASSUME NEW p, Sound(p), DecodingOrder(p), Started(p), Plain(p), NEW b \in Buffers, IsEmpty(p, b)
  PROVE  Quiet(p, Allocate(p, b))
<1> DEFINE q == Allocate(p, b)
<1>1. /\ q.buf[b].track = Nil /\ p.buf[b].track = Nil
      /\ \A c \in Buffers : c # b => q.buf[c] = p.buf[c]
  BY AllocateOrder
<1>2. q.buf[b].status = p.buf[b].status
  BY DEF Allocate, Sound, Pools, BufferRecords
<1> HIDE DEF q
<1>3. Unused(q, b)
  BY <1>1, <1>2 DEF Plain, Unused
<1>4. Quiet(p, q)
  BY <1>1, <1>3, KeptSame DEF Quiet
<1> QED BY <1>4 DEF q

LEMMA OpenQuiet ==
  ASSUME NEW p, Sound(p), Plain(p), NEW q, NEW b \in Buffers, NEW t \in Tracks,
         p.buf[b].key = p.key, Touches(p, q, b), SongOf[t] \notin Streamed,
         q.buf[b].track = t, q.buf[b].read = 0, q.buf[b].status = EBS_BUFFERING
  PROVE  Quiet(p, q)
<1>1. t # Nil /\ SongIn(q, b) \notin Streamed
  BY PoolAssumption DEF SongIn
<1>2. \A c \in Buffers : q.buf[c].track # Nil => q.buf[c].key <= q.buf[b].key
  <2>1. p.key \in Nat /\ p.key <= p.key
    BY DEF Sound, Pools
  <2>2. \A c \in Buffers : p.buf[c].track # Nil => p.buf[c].key <= p.key
    BY BuffersOfType DEF BuffersOf
  <2> QED BY <2>1, <2>2 DEF Touches
<1>3. Fresh(q, b)
  BY <1>1, <1>2 DEF Fresh
<1> QED BY <1>3, KeptSame DEF Quiet, Touches

LEMMA RaisedQuiet ==
  ASSUME NEW p, Sound(p), Plain(p), NEW q, NEW b \in Buffers, p.buf[b].track # Nil,
         \A c \in Buffers : c # b => q.buf[c] = p.buf[c],
         q.buf[b].track = p.buf[b].track, q.buf[b].key = p.buf[b].key,
         q.buf[b].read = p.buf[b].read, q.buf[b].written = p.buf[b].written,
         \/ q.buf[b].status = Raise(p.buf[b].status, EBS_BUFFERED)
         \/ q.buf[b].status = Raise(p.buf[b].status, EBS_LOADED)
  PROVE  Quiet(p, q)
<1>1. p.buf[b].status \in 0 .. 9 /\ p.buf[b].status # EBS_FINISHED
  BY DEF Sound, Pools, BufferRecords, Plain
<1>2. /\ q.buf[b].status # EBS_FINISHED
      /\ Leaving(q, b) <=> Leaving(p, b)
      /\ Playing(q, b) => Playing(p, b)
  BY <1>1 DEF Raise, Leaving, Playing, EBS_BUFFERED, EBS_LOADED, EBS_FINISHED, EBS_PLAYING, EBS_DRAINING
<1>3. Kept(p, q, b)
  BY <1>2 DEF Kept
<1> QED BY <1>3, KeptSame DEF Quiet

LEMMA DecoderQuiet ==
  ASSUME NEW p, Sound(p), Plain(p), NEW b \in Buffers, p.buf[b].track # Nil, NEW t
  PROVE  /\ Quiet(p, OperateBuffered(p, b, t))
         /\ Quiet(p, OperateLoaded(p, b))
         /\ Quiet(p, OperateFinished(p, b))
<1>1. p.buf \in [Buffers -> BufferRecords]
  BY DEF Sound, Pools
<1>2. LET q == OperateBuffered(p, b, t)
      IN  /\ \A c \in Buffers : c # b => q.buf[c] = p.buf[c]
          /\ q.buf[b].track = p.buf[b].track /\ q.buf[b].key = p.buf[b].key
          /\ q.buf[b].read = p.buf[b].read /\ q.buf[b].written = p.buf[b].written
          /\ q.buf[b].status = Raise(p.buf[b].status, EBS_BUFFERED)
  BY <1>1 DEF OperateBuffered, Pools, BufferRecords
<1>3. LET q == OperateLoaded(p, b)
      IN  /\ \A c \in Buffers : c # b => q.buf[c] = p.buf[c]
          /\ q.buf[b].track = p.buf[b].track /\ q.buf[b].key = p.buf[b].key
          /\ q.buf[b].read = p.buf[b].read /\ q.buf[b].written = p.buf[b].written
          /\ q.buf[b].status = Raise(p.buf[b].status, EBS_LOADED)
  BY <1>1 DEF OperateLoaded, Sound, Pools, BufferRecords
<1>4. LET q == OperateFinished(p, b)
      IN  /\ \A c \in Buffers : c # b => q.buf[c] = p.buf[c]
          /\ q.buf[b].track = p.buf[b].track /\ q.buf[b].key = p.buf[b].key
          /\ q.buf[b].read = p.buf[b].read /\ q.buf[b].written = p.buf[b].written
          /\ q.buf[b].status = Raise(p.buf[b].status, EBS_LOADED)
  BY <1>1 DEF OperateFinished, Sound, Pools, BufferRecords
<1>5. Quiet(p, OperateBuffered(p, b, t))
  BY <1>2, RaisedQuiet
<1>6. Quiet(p, OperateLoaded(p, b))
  BY <1>3, RaisedQuiet
<1>7. Quiet(p, OperateFinished(p, b))
  BY <1>4, RaisedQuiet
<1> QED BY <1>5, <1>6, <1>7

LEMMA ReleaseQuiet ==
  ASSUME NEW p, Plain(p), NEW q, NEW S, NEW T, Releases(p, q, S, T)
  PROVE  Quiet(p, q)
<1>1. \A b \in Buffers : b \in S => Unused(q, b)
  BY DEF Releases, Gone, EmptyBuffer, Unused
<1>2. \A b \in Buffers : b \notin S => q.buf[b] = p.buf[b]
  BY DEF Releases, Gone
<1> QED BY <1>1, <1>2, KeptSame DEF Quiet

(* The ALSA thread begins a period: the buffer is the one after those it has
   left, and becomes the exception. *)
LEMMA EnterWalk ==
  ASSUME NEW p, Sound(p), Plain(p), Parked(p, Nil), NEW s, Left(p, s), Drained(p, s, Nil),
         NEW b \in BuffersOf(p, s), ~Leaving(p, b),
         \A c \in BuffersOf(p, s) : p.buf[c].key < p.buf[b].key => Leaving(p, c),
         NEW q, \A c \in Buffers : c # b => q.buf[c] = p.buf[c],
         q.buf[b].track = p.buf[b].track, q.buf[b].key = p.buf[b].key,
         q.buf[b].status \in {EBS_PLAYING, EBS_DRAINING}
  PROVE  /\ Plain(q) /\ Parked(q, b) /\ Left(q, s) /\ Drained(q, s, b) /\ Playing(q, b)
         /\ \A c \in BuffersOf(q, s) : q.buf[b].key < q.buf[c].key => q.buf[c].read = 0
<1>1. b \in Buffers /\ p.buf[b].track # Nil /\ SongIn(q, b) = SongIn(p, b)
  BY BuffersOfType DEF SongIn
<1>2. \A c \in Buffers : /\ q.buf[c].track = p.buf[c].track /\ q.buf[c].key = p.buf[c].key
                         /\ SongIn(q, c) = SongIn(p, c)
  BY <1>1 DEF SongIn
<1>3. BuffersOf(q, s) = BuffersOf(p, s)
  BY <1>2 DEF BuffersOf
<1>4. \A c \in BuffersOf(p, s) : c \in Buffers /\ c # Nil
  BY PoolAssumption DEF BuffersOf
<1>5. \A c \in Buffers : c # b => /\ (Leaving(q, c) <=> Leaving(p, c)) /\ (Entered(q, c) <=> Entered(p, c))
                                  /\ (Playing(q, c) <=> Playing(p, c))
  BY DEF Leaving, Entered, Playing
<1>6. Playing(q, b)
  BY DEF Playing
<1>7. q.buf[b].status # EBS_FINISHED
  BY DEF EBS_PLAYING, EBS_DRAINING, EBS_FINISHED
<1>8. Plain(q)
  BY <1>1, <1>2, <1>7 DEF Plain
<1>9. Parked(q, b)
  BY <1>5, PoolAssumption DEF Parked
<1>10. \A c \in BuffersOf(p, s) : p.buf[b].key < p.buf[c].key => ~Entered(p, c)
  BY DEF Left
<1>11. \A c \in BuffersOf(p, s) : p.buf[c].key \in Nat
  BY BuffersOfType
<1>12. Left(q, s)
  <2> SUFFICES ASSUME NEW c \in BuffersOf(p, s), NEW d \in BuffersOf(p, s),
                      p.buf[c].key < p.buf[d].key, Entered(q, d)
               PROVE  Leaving(q, c)
    BY <1>2, <1>3, <1>4 DEF Left
  <2>1. c # b
    BY <1>4, <1>5, <1>10, <1>11
  <2>2. Leaving(p, c)
    BY <1>4, <1>5, <2>1 DEF Left
  <2> QED BY <1>4, <1>5, <2>1, <2>2
<1>13. Drained(q, s, b)
  BY <1>3, <1>4, <1>5 DEF Drained
<1>14. \A c \in BuffersOf(q, s) : q.buf[b].key < q.buf[c].key => q.buf[c].read = 0
  <2> SUFFICES ASSUME NEW c \in BuffersOf(p, s), p.buf[b].key < p.buf[c].key PROVE q.buf[c].read = 0
    BY <1>1, <1>2, <1>3, <1>4
  <2>1. c # b /\ c \in Buffers /\ p.buf[c].read \in Nat
    BY <1>4, <1>11 DEF Sound, Pools, BufferRecords
  <2> QED BY <1>10, <2>1 DEF Entered
<1> QED BY <1>6, <1>8, <1>9, <1>12, <1>13, <1>14

(* A period ends: there is more in its buffer, or the buffer has been played. *)
LEMMA LeaveWalk ==
  ASSUME NEW p, Sound(p), Plain(p), NEW s, NEW b \in BuffersOf(p, s), Parked(p, b), Left(p, s),
         Drained(p, s, b), Playing(p, b),
         NEW q, \A c \in Buffers : c # b => q.buf[c] = p.buf[c],
         q.buf[b].track = p.buf[b].track, q.buf[b].key = p.buf[b].key,
         \/ q.buf[b].status = p.buf[b].status /\ q.buf[b].written # 0
         \/ q.buf[b].status = EBS_PLAYED,
         q.buf[b].read > 0 \/ q.buf[b].written = 0
  PROVE  Plain(q) /\ Parked(q, Nil) /\ Left(q, s) /\ Drained(q, s, Nil)
<1>1. b \in Buffers /\ p.buf[b].track # Nil /\ SongIn(q, b) = SongIn(p, b)
  BY BuffersOfType DEF SongIn
<1>2. \A c \in Buffers : /\ q.buf[c].track = p.buf[c].track /\ q.buf[c].key = p.buf[c].key
                         /\ SongIn(q, c) = SongIn(p, c)
  BY <1>1 DEF SongIn
<1>3. BuffersOf(q, s) = BuffersOf(p, s)
  BY <1>2 DEF BuffersOf
<1>4. \A c \in BuffersOf(p, s) : c \in Buffers /\ c # Nil
  BY PoolAssumption DEF BuffersOf
<1>5. \A c \in Buffers : c # b => /\ (Leaving(q, c) <=> Leaving(p, c)) /\ (Entered(q, c) <=> Entered(p, c))
                                  /\ (Playing(q, c) <=> Playing(p, c))
  BY DEF Leaving, Entered, Playing
<1>6. q.buf[b].status # EBS_FINISHED /\ (Leaving(p, b) => Leaving(q, b)) /\ Entered(p, b)
  BY <1>1 DEF Leaving, Entered, Playing, Plain, EBS_PLAYED, EBS_FINISHED, EBS_DRAINING
<1>7. q.buf[b].written = 0 => ~Playing(q, b)
  BY DEF Playing, EBS_PLAYED, EBS_PLAYING, EBS_DRAINING
<1>8. Plain(q)
  BY <1>1, <1>2, <1>6 DEF Plain
<1>9. Parked(q, Nil)
  BY <1>5, <1>7 DEF Parked
<1>10. Left(q, s)
  <2> SUFFICES ASSUME NEW c \in BuffersOf(p, s), NEW d \in BuffersOf(p, s),
                      p.buf[c].key < p.buf[d].key, Entered(q, d)
               PROVE  Leaving(q, c)
    BY <1>2, <1>3, <1>4 DEF Left
  <2>1. Entered(p, d)
    BY <1>4, <1>5, <1>6
  <2>2. Leaving(p, c)
    BY <2>1 DEF Left
  <2> QED BY <1>4, <1>5, <1>6, <2>2
<1>11. Drained(q, s, Nil)
  BY <1>3, <1>4, <1>5 DEF Drained
<1> QED BY <1>8, <1>9, <1>10, <1>11

(* complete(): playback of all buffers that hold samples is blocked. *)
LEMMA CompleteWalk ==
  ASSUME NEW p, Sound(p), Plain(p), NEW x, Parked(p, x), NEW s
  PROVE  Plain(Complete(p, s)) /\ Parked(Complete(p, s), x)
<1> DEFINE q == Complete(p, s)
           rec(b) == [p.buf[b] EXCEPT !.status = Raise(p.buf[b].status, EBS_PLAYED)]
<1>1. \A b \in Buffers : p.buf[b] \in BufferRecords
  BY DEF Sound, Pools
<1>2. \A b \in Buffers : q.buf[b] = IF b \in BuffersOf(p, s) /\ Used(p, b) THEN rec(b) ELSE p.buf[b]
  BY DEF Sound, Pools, Complete
<1>3. \A b \in Buffers : /\ rec(b).track = p.buf[b].track /\ rec(b).written = p.buf[b].written
                         /\ rec(b).status = EBS_PLAYED
  BY <1>1 DEF BufferRecords, Raise, EBS_PLAYED
<1>4. \A b \in BuffersOf(p, s) : p.buf[b].track # Nil
  BY DEF BuffersOf
<1> HIDE DEF rec, q
<1>5. \A b \in Buffers : \/ q.buf[b] = p.buf[b]
                         \/ /\ q.buf[b].track = p.buf[b].track /\ p.buf[b].track # Nil
                            /\ q.buf[b].written = p.buf[b].written
                            /\ q.buf[b].status = EBS_PLAYED
  BY <1>2, <1>3, <1>4
<1>6. \A b \in Buffers : SongIn(q, b) = SongIn(p, b)
  BY <1>5 DEF SongIn
<1>7. EBS_PLAYED \notin {EBS_FINISHED, EBS_PLAYING, EBS_DRAINING}
  BY DEF EBS_PLAYED, EBS_FINISHED, EBS_PLAYING, EBS_DRAINING
<1>8. Plain(q)
  BY <1>5, <1>6, <1>7 DEF Plain
<1>9. Parked(q, x)
  BY <1>5, <1>7 DEF Parked, Playing
<1> QED BY <1>8, <1>9 DEF q

(* cleanup(): the song is at its beginning again, whatever it was before. *)
LEMMA RewoundWalk ==
  ASSUME NEW p, Sound(p), Bounded(p), Begun(p), Plain(p), Parked(p, Nil), NEW T \in SUBSET Buffers
  PROVE  /\ Plain(Rewound(p, T)) /\ Parked(Rewound(p, T), Nil)
         /\ \A s : BuffersOf(p, s) \subseteq T
                     => Left(Rewound(p, T), s) /\ Drained(Rewound(p, T), s, Nil)
<1> DEFINE q == Rewound(p, T)
           rec(b) == [p.buf[b] EXCEPT !.read = 0,
                        !.status = IF p.buf[b].status >= EBS_BUFFERED THEN EBS_LOADED ELSE p.buf[b].status]
<1>1. \A b \in Buffers : /\ p.buf[b] \in BufferRecords /\ p.buf[b].read \in Nat /\ p.buf[b].written \in Nat
                         /\ p.buf[b].read <= p.buf[b].written
  BY DEF Sound, Pools, BufferRecords, Bounded
<1>2. \A b \in Buffers : q.buf[b] = IF b \in T /\ Used(p, b) THEN rec(b) ELSE p.buf[b]
  BY DEF Sound, Pools, Rewound
<1>3. \A b \in Buffers : /\ rec(b).track = p.buf[b].track /\ rec(b).written = p.buf[b].written
                         /\ rec(b).read = 0
                         /\ ~(rec(b).status >= EBS_DRAINING)
                         /\ rec(b).status \notin {EBS_FINISHED, EBS_PLAYING, EBS_DRAINING}
                         /\ p.buf[b].status = EBS_EMPTY => rec(b).status = EBS_EMPTY
  BY <1>1 DEF BufferRecords, EBS_BUFFERED, EBS_LOADED, EBS_FINISHED, EBS_PLAYING, EBS_DRAINING, EBS_EMPTY
<1> HIDE DEF rec, q
<1>4. \A b \in Buffers : q.buf[b].track = p.buf[b].track /\ q.buf[b].written = p.buf[b].written
  BY <1>2, <1>3
<1>5. (\A b \in Buffers : SongIn(q, b) = SongIn(p, b)) /\ \A s : BuffersOf(q, s) = BuffersOf(p, s)
  BY <1>4 DEF SongIn, BuffersOf
<1>6. Plain(q)
  BY <1>2, <1>3, <1>4, <1>5 DEF Plain
<1>7. \A b \in Buffers : Playing(q, b) => Playing(p, b)
  BY <1>2, <1>3 DEF Playing
<1>8. Parked(q, Nil)
  BY <1>4, <1>7 DEF Parked
<1>9. \A b \in Buffers : b \in T /\ p.buf[b].track # Nil /\ p.buf[b].written # 0
                           => ~Leaving(q, b) /\ ~Entered(q, b)
  <2> SUFFICES ASSUME NEW b \in Buffers, b \in T, p.buf[b].track # Nil, p.buf[b].written # 0
               PROVE  ~Leaving(q, b) /\ ~Entered(q, b)
    OBVIOUS
  <2>1. Used(p, b)
    BY <1>1 DEF Used, Begun
  <2> QED BY <1>2, <1>3, <2>1 DEF Leaving, Entered, Playing
<1>10. \A b \in Buffers : q.buf[b].written = 0 => ~Entered(q, b)
  <2> SUFFICES ASSUME NEW b \in Buffers, q.buf[b].written = 0 PROVE ~Entered(q, b)
    OBVIOUS
  <2>1. p.buf[b].read = 0 /\ p.buf[b].written = 0
    BY <1>1, <1>4
  <2>2. q.buf[b].read = 0
    BY <1>2, <1>3, <2>1
  <2> QED BY <1>8, <2>2, PoolAssumption DEF Parked, Entered
<1>11. ASSUME NEW s, BuffersOf(p, s) \subseteq T PROVE Left(q, s) /\ Drained(q, s, Nil)
  <2>1. \A b \in BuffersOf(q, s) : b \in T /\ b \in Buffers /\ p.buf[b].track # Nil
    BY <1>5, <1>11 DEF BuffersOf
  <2>2. \A b \in BuffersOf(q, s) : ~Entered(q, b)
    BY <1>4, <1>9, <1>10, <2>1
  <2>3. \A b \in BuffersOf(q, s) : Leaving(q, b) => q.buf[b].written = 0
    BY <1>4, <1>9, <2>1
  <2> QED BY <2>2, <2>3 DEF Left, Drained
<1> QED BY <1>6, <1>8, <1>11 DEF q

LEMMA CleanupWalk ==
  ASSUME NEW p, Sound(p), Bounded(p), Begun(p), Plain(p), Parked(p, Nil)
  PROVE  /\ \A s \in Songs : /\ Plain(Cleanup(p, s)) /\ Parked(Cleanup(p, s), Nil)
                             /\ Left(Cleanup(p, s), s) /\ Drained(Cleanup(p, s), s, Nil)
         /\ Plain(CleanupAll(p)) /\ Parked(CleanupAll(p), Nil)
<1>1. ASSUME NEW s \in Songs
      PROVE  /\ Plain(Cleanup(p, s)) /\ Parked(Cleanup(p, s), Nil)
             /\ Left(Cleanup(p, s), s) /\ Drained(Cleanup(p, s), s, Nil)
  <2> DEFINE q == Rewound(p, BuffersOf(p, s))
             r == Cleanup(p, s)
  <2>1. BuffersOf(p, s) \in SUBSET Buffers
    BY DEF BuffersOf
  <2>2. Plain(q) /\ Parked(q, Nil) /\ Left(q, s) /\ Drained(q, s, Nil)
    BY <2>1, RewoundWalk
  <2>3. r.buf = q.buf
    BY RewoundSound DEF Cleanup, Sound, Pools
  <2> HIDE DEF q, r
  <2>4. (\A b \in Buffers : SongIn(r, b) = SongIn(q, b)) /\ BuffersOf(r, s) = BuffersOf(q, s)
    BY <2>3 DEF SongIn, BuffersOf
  <2>5. \A b : /\ Playing(r, b) <=> Playing(q, b)
               /\ Leaving(r, b) <=> Leaving(q, b)
               /\ Entered(r, b) <=> Entered(q, b)
    BY <2>3 DEF Playing, Leaving, Entered
  <2>6. Plain(r) /\ Parked(r, Nil) /\ Left(r, s) /\ Drained(r, s, Nil)
    BY <2>2, <2>3, <2>4, <2>5 DEF Plain, Parked, Left, Drained
  <2> QED BY <2>6 DEF r
<1>2. Buffers \in SUBSET Buffers
  OBVIOUS
<1>3. Plain(CleanupAll(p)) /\ Parked(CleanupAll(p), Nil)
  BY <1>2, RewoundWalk DEF CleanupAll
<1> QED BY <1>1, <1>3

(* A chunk is written, perhaps into the buffer of the period. *)
LEMMA WriteWalk ==
  ASSUME NEW p, Sound(p), Plain(p), NEW x, Parked(p, x), NEW b \in Buffers, NEW s,
         p.buf[b].status >= EBS_BUFFERED => p.buf[b].written > 0
  PROVE  LET q == WriteChunk(p, b, s)
         IN  /\ Plain(q) /\ Parked(q, x)
             /\ \A u : Left(p, u) => Left(q, u)
             /\ \A u : Drained(p, u, x) => Drained(q, u, x)
<1> DEFINE q == WriteChunk(p, b, s)
<1>1. \A c \in Buffers : /\ q.buf[c].track = p.buf[c].track /\ q.buf[c].key = p.buf[c].key
                         /\ q.buf[c].status = p.buf[c].status /\ q.buf[c].read = p.buf[c].read
  BY DEF WriteChunk, Sound, Pools, BufferRecords
<1>2. \A c \in Buffers : /\ c # b => q.buf[c].written = p.buf[c].written
                         /\ p.buf[c].written \in Nat /\ p.buf[c].status \in 0 .. 9
  BY DEF WriteChunk, Sound, Pools, BufferRecords
<1>3. q.buf[b].written = p.buf[b].written + 1
  BY DEF WriteChunk, Sound, Pools, BufferRecords
<1> HIDE DEF q
<1>4. \A c \in Buffers : /\ SongIn(q, c) = SongIn(p, c)
                         /\ Leaving(q, c) <=> Leaving(p, c)
                         /\ Playing(q, c) <=> Playing(p, c)
                         /\ Entered(q, c) <=> Entered(p, c)
  BY <1>1 DEF SongIn, Leaving, Playing, Entered
<1>5. \A u : BuffersOf(q, u) = BuffersOf(p, u) /\ BuffersOf(p, u) \subseteq Buffers
  BY <1>1 DEF BuffersOf
<1>6. Plain(q)
  BY <1>1, <1>4 DEF Plain
<1>7. Parked(q, x)
  BY <1>2, <1>3, <1>4 DEF Parked
<1>8. \A u : Left(p, u) => Left(q, u)
  BY <1>1, <1>4, <1>5 DEF Left
<1>9. Leaving(p, b) => p.buf[b].written > 0
  BY <1>2 DEF Leaving, EBS_DRAINING, EBS_BUFFERED
<1>10. ASSUME NEW u, Drained(p, u, x) PROVE Drained(q, u, x)
  <2> SUFFICES ASSUME NEW c \in BuffersOf(p, u), c # x, Leaving(p, c)
               PROVE  q.buf[c].read > 0 \/ q.buf[c].written = 0
    BY <1>4, <1>5 DEF Drained
  <2>1. c \in Buffers /\ (p.buf[c].read > 0 \/ p.buf[c].written = 0)
    BY <1>5, <1>10 DEF Drained
  <2>2. CASE c = b
    BY <1>1, <1>2, <1>9, <2>1, <2>2
  <2>3. CASE c # b
    BY <1>1, <1>2, <2>1, <2>3
  <2> QED BY <2>2, <2>3
<1>11. /\ Plain(q) /\ Parked(q, x)
       /\ \A u : Left(p, u) => Left(q, u)
       /\ \A u : Drained(p, u, x) => Drained(q, u, x)
  BY <1>6, <1>7, <1>8, <1>10
<1> QED BY <1>11 DEF q

-----------------------------------------------------------------------------
(* What a step may do to the tape, in terms of the pool. *)

SameLength(p, q) == \A s \in Songs : OnTape(q, s) = OnTape(p, s)
Stays(p, c, q, e) == SameTape(p, q) /\ e = c
Appends(p, c, q, e) ==
  /\ e = c /\ \A t \in Songs : Heard(q, t) = Heard(p, t)
  /\ \E s \in Songs : \A t \in Songs : OnTape(q, t) = IF t = s THEN OnTape(p, t) + 1 ELSE OnTape(p, t)
Wipes(p, c, q, e) ==
  /\ e = c /\ \A s \in Songs : SameSong(p, q, s) \/ (OnTape(q, s) = 0 /\ Heard(q, s) = {})
  /\ \A s \in Songs : OnTape(p, s) = 0 => Heard(p, s) = {}
Turns(p, c, q, e) ==
  SameLength(p, q) /\ e \in Songs \cup {Nil} /\ (e # Nil => Heard(q, e) = {})
Hears(p, c, q, e) ==
  /\ c \in Songs /\ e = c /\ SameLength(p, q)
  /\ \E n \in 1 .. OnTape(p, c) : /\ Heard(q, c) = Heard(p, c) \cup {n}
                                  /\ \A k \in Heard(p, c) : k < n
                                  /\ Heard(p, c) = {} => n = 1
TapeStep(p, c, q, e) ==
  Stays(p, c, q, e) \/ Appends(p, c, q, e) \/ Wipes(p, c, q, e) \/ Turns(p, c, q, e) \/ Hears(p, c, q, e)

LEMMA TapeStepNext ==
  ASSUME Sound(pool), Sound(pool'), current \in Songs \cup {Nil},
         TapeStep(pool, current, pool', current')
  PROVE  [Tape!Next]_(Tape!tapeVars)
<1> DEFINE tape == [s \in Songs |-> OnTape(pool, s)]
           tapeAfter == [s \in Songs |-> OnTape(pool', s)]
           heard == IF current = Nil THEN {} ELSE Heard(pool, current)
           heardAfter == IF current' = Nil THEN {} ELSE Heard(pool', current')
<1>1. \A s \in Songs : OnTape(pool, s) \in Nat /\ OnTape(pool', s) \in Nat
  BY DEF OnTape, Sound, Pools, SongRecords
<1>2. CASE Stays(pool, current, pool', current')
  <2>1. tapeAfter = tape /\ heardAfter = heard /\ current' = current
    BY <1>2 DEF Stays, SameTape, SameSong
  <2> QED BY <2>1 DEF Tape!tapeVars
<1>3. CASE Appends(pool, current, pool', current')
  <2>1. PICK s \in Songs : \A t \in Songs :
          OnTape(pool', t) = IF t = s THEN OnTape(pool, t) + 1 ELSE OnTape(pool, t)
    BY <1>3 DEF Appends
  <2>2. tapeAfter = [tape EXCEPT ![s] = @ + 1]
    BY <2>1
  <2>3. heardAfter = heard /\ current' = current
    BY <1>3 DEF Appends
  <2>4. Tape!Append(s)
    BY <2>2, <2>3 DEF Tape!Append
  <2> QED BY <2>4 DEF Tape!Next
<1>4. CASE Wipes(pool, current, pool', current')
  <2>1. tapeAfter \in [Songs -> Nat] /\ \A s \in Songs : tapeAfter[s] \in {0, tape[s]}
    BY <1>1, <1>4 DEF Wipes, SameSong
  <2>2. heardAfter = IF current # Nil /\ tapeAfter[current] = 0 THEN {} ELSE heard
    <3>1. CASE current = Nil
      BY <1>4, <3>1 DEF Wipes
    <3>2. CASE current \in Songs
      <4>1. current # Nil /\ current' = current /\ tapeAfter[current] = OnTape(pool', current)
        BY <1>4, <3>2, PoolAssumption DEF Wipes
      <4>2. OnTape(pool', current) = 0 => Heard(pool', current) = {}
        BY <1>4, <3>2 DEF Wipes, SameSong
      <4>3. OnTape(pool', current) # 0 => Heard(pool', current) = Heard(pool, current)
        BY <1>4, <3>2 DEF Wipes, SameSong
      <4> QED BY <4>1, <4>2, <4>3
    <3> QED BY <3>1, <3>2
  <2>3. current' = current
    BY <1>4 DEF Wipes
  <2>4. Tape!Wipe
    BY <2>1, <2>2, <2>3 DEF Tape!Wipe
  <2> QED BY <2>4 DEF Tape!Next
<1>5. CASE Turns(pool, current, pool', current')
  <2>1. tapeAfter = tape /\ heardAfter = {} /\ current' \in Songs \cup {Nil}
    BY <1>5 DEF Turns, SameLength
  <2>2. Tape!Turn(current')
    BY <2>1 DEF Tape!Turn
  <2> QED BY <2>1, <2>2 DEF Tape!Next
<1>6. CASE Hears(pool, current, pool', current')
  <2>1. PICK n \in 1 .. OnTape(pool, current) :
          /\ Heard(pool', current) = Heard(pool, current) \cup {n}
          /\ \A k \in Heard(pool, current) : k < n
          /\ Heard(pool, current) = {} => n = 1
    BY <1>6 DEF Hears
  <2>2. current \in Songs /\ current # Nil /\ current' = current /\ tapeAfter = tape
    BY <1>6, PoolAssumption DEF Hears, SameLength
  <2>3. Tape!Hear(n)
    BY <2>1, <2>2 DEF Tape!Hear
  <2>4. n \in 1 .. tape[current]
    BY <2>1, <2>2
  <2> QED BY <2>2, <2>3, <2>4 DEF Tape!Next
<1> QED BY <1>2, <1>3, <1>4, <1>5, <1>6 DEF TapeStep

-----------------------------------------------------------------------------
(* The specification once more. *)

(* A song that is decoded is no stream, and a buffer that may be played and
   written at the same time has had its first chunk before. *)
DecoderFills ==
  Working =>
    /\ NewSong \notin Streamed
    /\ decoder.stage = "writing" /\ pool.buf[decoder.buffer].status >= EBS_BUFFERED
         => pool.buf[decoder.buffer].written > 0
    /\ decoder.stage \in {"written", "checked"} => pool.buf[decoder.buffer].written > 0

(* In the middle of a period. *)
ReaderWalks ==
  reader # NotReading =>
    /\ Playing(pool, reader.buffer)
    /\ \A b \in BuffersOf(pool, current) :
         pool.buf[reader.buffer].key < pool.buf[b].key => pool.buf[b].read = 0
    /\ reader.rest = 0 => pool.buf[reader.buffer].read > 0 \/ pool.buf[reader.buffer].written = 0

WalkInv ==
  /\ Plain(pool)
  /\ Parked(pool, reader.buffer)
  /\ Left(pool, current)
  /\ Drained(pool, current, reader.buffer)
  /\ DecoderFills
  /\ ReaderWalks

LEMMA WalkInvInit == Init => WalkInv
<1> SUFFICES ASSUME Init PROVE WalkInv
  OBVIOUS
<1>1. \A b \in Buffers : pool.buf[b].track = Nil /\ pool.buf[b].status = EBS_EMPTY
  BY DEF Init, InitialPool, EmptyBuffer
<1>2. ~Working /\ reader = NotReading
  BY DEF Init, Idle, Working
<1>3. BuffersOf(pool, current) = {}
  BY <1>1 DEF BuffersOf
<1>4. Plain(pool) /\ Parked(pool, reader.buffer)
  BY <1>1 DEF Plain, Parked, Playing, EBS_EMPTY, EBS_FINISHED, EBS_PLAYING, EBS_DRAINING
<1>5. Left(pool, current) /\ Drained(pool, current, reader.buffer)
  BY <1>3 DEF Left, Drained
<1> QED BY <1>2, <1>4, <1>5 DEF WalkInv, DecoderFills, ReaderWalks

(* A step that ends outside of a period: what the next state must be like. *)
LEMMA WalkStep ==
  ASSUME Plain(pool'), Parked(pool', Nil), Left(pool', current'), Drained(pool', current', Nil),
         DecoderFills', reader' = NotReading
  PROVE  WalkInv'
<1>1. reader'.buffer = Nil
  BY DEF NotReading
<1>2. Plain(pool)' /\ Parked(pool, reader.buffer)'
  BY <1>1 DEF Plain, Parked, Playing, SongIn
<1>3. Left(pool, current)' /\ Drained(pool, current, reader.buffer)'
  BY <1>1 DEF Left, Drained, Leaving, Entered, Playing, BuffersOf
<1>4. ReaderWalks'
  BY DEF ReaderWalks
<1> QED BY <1>2, <1>3, <1>4 DEF WalkInv

LEMMA QuietStep ==
  ASSUME WalkInv, Sound(pool'), Quiet(pool, pool'), reader = NotReading, reader' = reader,
         current' = current, DecoderFills'
  PROVE  WalkInv'
<1>1. Plain(pool) /\ Parked(pool, Nil) /\ Left(pool, current) /\ Drained(pool, current, Nil)
  BY DEF WalkInv, NotReading
<1>2. Plain(pool') /\ Parked(pool', Nil) /\ Left(pool', current) /\ Drained(pool', current, Nil)
  BY <1>1, QuietWalk
<1> QED BY <1>2, WalkStep

LEMMA ReleaseWipes ==
  ASSUME NEW p, Sound(p), DecodingOrder(p), Bounded(p), Balanced(p),
         NEW q, NEW S, NEW T, Releases(p, q, S, T), NEW c
  PROVE  Wipes(p, c, q, c)
<1>1. ASSUME NEW s \in Songs, OnTape(p, s) = 0 PROVE Heard(p, s) = {}
  <2>1. \A b \in BuffersOf(p, s) : p.buf[b].read = 0
    <3> TAKE b \in BuffersOf(p, s)
    <3>1. /\ Before(p, b) \in Nat /\ Before(p, b) + p.buf[b].written <= 0
          /\ p.buf[b].read \in Nat /\ p.buf[b].written \in Nat /\ p.buf[b].read <= p.buf[b].written
      BY <1>1, OnTheTape, EarlierFinite, BuffersOfType DEF Sound, Pools, BufferRecords, Bounded
    <3> QED BY <3>1
  <2> QED BY <2>1, HeardNothing
<1> QED BY <1>1, GoneTape DEF Wipes

(* The decoder begins to fill a buffer. *)
Begins(p, q, b) == Quiet(p, q) /\ SameTape(p, q) /\ q.buf[b].status = EBS_BUFFERING

LEMMA OpenWalk ==
  ASSUME NEW p, Sound(p), Plain(p), NEW b \in Buffers, NEW t \in Tracks, p.buf[b].track = Nil,
         p.buf[b].alloc, p.buf[b].key = p.key, SongOf[t] \notin Streamed
  PROVE  /\ ~HasSong(p, SongOf[t]) => Begins(p, OperateBuffering(p, b, t), b)
         /\ HasSong(p, SongOf[t]) => Begins(p, OperateContinue(p, b, t), b)
<1>1. /\ p \in Pools /\ p.buf \in [Buffers -> BufferRecords] /\ p.song \in [Songs -> SongRecords] /\ SongOf[t] \in Songs
      /\ p.buf[b].status = EBS_EMPTY
  BY PoolAssumption DEF Sound, Pools, Plain
<1>2. ASSUME ~HasSong(p, SongOf[t])
      PROVE  Begins(p, OperateBuffering(p, b, t), b)
  <2> DEFINE q == OperateBuffering(p, b, t)
  <2>1. /\ Touches(p, q, b) /\ q.buf[b].track = t /\ q.buf[b].read = 0
        /\ q.buf[b].status = Raise(p.buf[b].status, EBS_BUFFERING)
    BY ZenonT(30), <1>1 DEF OperateBuffering, Touches, Pools, BufferRecords
  <2>2. q.buf[b].status = EBS_BUFFERING
    BY <1>1, <2>1 DEF Raise, EBS_EMPTY, EBS_BUFFERING
  <2>3. q.song[SongOf[t]].written = 0 /\ \A s \in Songs : s # SongOf[t] => q.song[s] = p.song[s]
    BY <1>1 DEF OperateBuffering, ClearedSong
  <2>4. OnTape(p, SongOf[t]) = 0
    BY <1>2 DEF OnTape
  <2> HIDE DEF q
  <2>5. Quiet(p, q)
    BY <2>1, <2>2, OpenQuiet
  <2>6. SameTape(p, q)
    BY <2>1, <2>3, <2>4, OpenTape
  <2>7. Begins(p, q, b)
    BY <2>2, <2>5, <2>6 DEF Begins
  <2> QED BY <2>7 DEF q
<1>3. ASSUME HasSong(p, SongOf[t])
      PROVE  Begins(p, OperateContinue(p, b, t), b)
  <2> DEFINE q == OperateContinue(p, b, t)
  <2>1. /\ Touches(p, q, b) /\ q.buf[b].track = t /\ q.buf[b].read = 0
        /\ q.buf[b].status = Raise(p.buf[b].status, EBS_BUFFERING)
    BY ZenonT(30), <1>1 DEF OperateContinue, Touches, Pools, BufferRecords
  <2>2. q.buf[b].status = EBS_BUFFERING
    BY <1>1, <2>1 DEF Raise, EBS_EMPTY, EBS_BUFFERING
  <2>3. q.song = p.song
    BY <1>1 DEF OperateContinue, Sound, Pools
  <2>4. OnTape(p, SongOf[t]) = p.song[SongOf[t]].written
    BY <1>3 DEF OnTape
  <2> HIDE DEF q
  <2>5. Quiet(p, q)
    BY <2>1, <2>2, OpenQuiet
  <2>6. SameTape(p, q)
    BY <2>1, <2>3, <2>4, OpenTape
  <2>7. Begins(p, q, b)
    BY <2>2, <2>5, <2>6 DEF Begins
  <2> QED BY <2>7 DEF q
<1> QED BY <1>2, <1>3

LEMMA DecoderKeys ==
  ASSUME NEW p, Sound(p), NEW b \in Buffers, NEW t
  PROVE  /\ SameKeys(p, OperateBuffered(p, b, t))
         /\ SameKeys(p, OperateLoaded(p, b))
         /\ SameKeys(p, OperateFinished(p, b))
<1>1. p.buf \in [Buffers -> BufferRecords]
  BY DEF Sound, Pools
<1>2. SameKeys(p, OperateBuffered(p, b, t))
  BY <1>1 DEF OperateBuffered, SameKeys, BufferRecords
<1>3. SameKeys(p, OperateLoaded(p, b))
  BY <1>1 DEF OperateLoaded, SameKeys, BufferRecords, Sound, Pools
<1>4. SameKeys(p, OperateFinished(p, b))
  BY <1>1 DEF OperateFinished, SameKeys, BufferRecords, Sound, Pools
<1> QED BY <1>2, <1>3, <1>4

TapeInvs == PoolInv /\ DecodeInv /\ CounterInv /\ BalanceInv /\ WalkInv
ThisTapeStep == TapeStep(pool, current, pool', current')

LEMMA DecoderWalk == TapeInvs /\ Decoder => WalkInv' /\ ThisTapeStep
<1> SUFFICES ASSUME TapeInvs, Decoder PROVE WalkInv' /\ ThisTapeStep
  OBVIOUS
<1> DEFINE d == decoder.buffer
           Decoders == [stage : Stages, buffer : Buffers \cup {Nil}, track : Tracks \cup {Nil},
                        buffered : BOOLEAN]
<1>1. /\ PoolInv /\ DecodeInv /\ CounterInv /\ BalanceInv /\ WalkInv
      /\ Sound(pool) /\ DecodingOrder(pool) /\ Started(pool) /\ Bounded(pool) /\ Balanced(pool)
      /\ Plain(pool) /\ Parked(pool, reader.buffer)
      /\ decoder \in Decoders
      /\ Working => /\ d \in Buffers /\ decoder.track \in Tracks /\ decoder.track # Nil
                    /\ pool.buf[d].alloc
                    /\ NewSong \in Songs /\ NewSong = SongOf[decoder.track]
                    /\ DecoderView /\ NewSong \notin Streamed
  BY PoolAssumption DEF TapeInvs, PoolInv, TypeOK, DecodeInv, CounterInv, BalanceInv, WalkInv,
                        DecoderFills, Working, NewSong
<1>2. Sound(pool')
  BY <1>1, PoolInvNext DEF Next, PoolInv
<1>3. ASSUME SameTape(pool, pool'), current' = current PROVE ThisTapeStep
  BY <1>3 DEF ThisTapeStep, TapeStep, Stays
<1>4. ASSUME NEW S, NEW T, Releases(pool, pool', S, T), current' = current
      PROVE  Quiet(pool, pool') /\ ThisTapeStep
  <2>1. Quiet(pool, pool')
    BY <1>1, <1>4, ReleaseQuiet
  <2>2. Wipes(pool, current, pool', current)
    BY <1>1, <1>4, ReleaseWipes
  <2> QED BY <1>4, <2>1, <2>2 DEF ThisTapeStep, TapeStep
<1>5. ASSUME Working, decoder.stage \in Opened, current' = current,
             pool' \in {OperateBuffered(pool, d, decoder.track), OperateLoaded(pool, d), OperateFinished(pool, d)}
      PROVE  Quiet(pool, pool') /\ ThisTapeStep /\ pool'.buf[d].written = pool.buf[d].written
  <2>1. d \in Buffers /\ pool.buf[d].track = decoder.track /\ decoder.track # Nil
    BY <1>1, <1>5 DEF DecoderView
  <2>2. Quiet(pool, pool') /\ SameKeys(pool, pool')
    BY <1>1, <1>5, <2>1, DecoderQuiet, DecoderKeys
  <2>3. Alike(pool, pool')
    <3>1. 0 \in 0 .. 9
      OBVIOUS
    <3> QED BY <1>1, <1>5, <2>1, <3>1, BufferedAlike, StatusAlike
  <2>4. SameTape(pool, pool')
    BY <1>1, <2>2, <2>3, AlikeTape
  <2> QED BY <1>3, <1>5, <2>1, <2>2, <2>3, <2>4 DEF Alike
<1>6. ASSUME NEW t \in Tracks, DecoderAllocate(t) PROVE WalkInv' /\ ThisTapeStep
  <2>1. PICK b \in Buffers :
          /\ IsEmpty(pool, b) /\ pool' = Allocate(pool, b)
          /\ decoder' = [stage |-> "allocated", buffer |-> b, track |-> t, buffered |-> FALSE]
    BY <1>6 DEF DecoderAllocate, NextEmptyBuffers
  <2>2. Quiet(pool, pool') /\ SameTape(pool, pool')
    BY <1>1, <2>1, AllocateQuiet, AllocateTape
  <2>3. DecoderFills'
    BY <1>6, <2>1 DEF DecoderFills, DecoderAllocate, NewSong
  <2>4. reader = NotReading /\ reader' = reader /\ current' = current
    BY <1>6 DEF DecoderAllocate, AlsaMtxFree
  <2> QED BY <1>1, <1>2, <1>3, <2>2, <2>3, <2>4, QuietStep
<1>7. CASE DecoderOpen
  <2>1. /\ Working /\ decoder.stage = "allocated"
        /\ pool' = OperateBuffering(pool, d, decoder.track)
        /\ decoder' = [decoder EXCEPT !.stage = "writing"]
        /\ reader = NotReading /\ reader' = reader /\ current' = current /\ cleared' = cleared
    BY <1>7 DEF DecoderOpen, DecoderAt, Working, AlsaMtxFree
  <2>2. /\ pool.buf[d].track = Nil /\ pool.buf[d].key = pool.key
        /\ ~HasSong(pool, SongOf[decoder.track])
    BY <1>1, <2>1 DEF DecoderView
  <2>3. Begins(pool, pool', d)
    BY <1>1, <2>1, <2>2, OpenWalk
  <2>4. DecoderFills'
    BY <1>1, <2>1, <2>3 DEF DecoderFills, Begins, NewSong, EBS_BUFFERING, EBS_BUFFERED
  <2> QED BY <1>1, <1>2, <1>3, <2>1, <2>3, <2>4, QuietStep DEF Begins
<1>8. CASE DecoderWrite
  <2>1. /\ Working /\ decoder.stage = "writing" /\ pool' = WriteChunk(pool, d, NewSong)
        /\ decoder' = [decoder EXCEPT !.stage = "written"]
        /\ reader' = reader /\ current' = current /\ cleared' = cleared
    BY <1>8 DEF DecoderWrite, DecoderAt, Working, NewSong
  <2>2. d \in BuffersOf(pool, NewSong)
    BY <1>1, <2>1 DEF DecoderView, Opened, BuffersOf
  <2>3. pool.buf[d].status >= EBS_BUFFERED => pool.buf[d].written > 0
    BY <1>1, <2>1 DEF WalkInv, DecoderFills
  <2>4. /\ Plain(pool') /\ Parked(pool', reader.buffer)
        /\ Left(pool', current) /\ Drained(pool', current, reader.buffer)
    BY <1>1, <2>1, <2>3, WriteWalk DEF WalkInv
  <2>5. \A b \in Buffers :
          /\ pool'.buf[b].read = pool.buf[b].read
          /\ pool'.buf[b].written = IF b = d THEN pool.buf[b].written + 1 ELSE pool.buf[b].written
    BY <1>1, <2>1, ChunkCounters
  <2>6. \A b \in Buffers : /\ pool'.buf[b].track = pool.buf[b].track /\ pool'.buf[b].key = pool.buf[b].key
                           /\ pool'.buf[b].status = pool.buf[b].status
    BY <1>1, <2>1 DEF WriteChunk, Sound, Pools, BufferRecords
  <2>7. pool.buf[d].written \in Nat
    BY <1>1, <2>1 DEF Sound, Pools, BufferRecords
  <2>8. DecoderFills'
    BY <1>1, <2>1, <2>5, <2>7 DEF DecoderFills, NewSong
  <2>9. ReaderWalks'
    <3> SUFFICES ASSUME reader # NotReading
                 PROVE  /\ Playing(pool', reader.buffer)
                        /\ \A b \in BuffersOf(pool', current) :
                             pool'.buf[reader.buffer].key < pool'.buf[b].key => pool'.buf[b].read = 0
                        /\ reader.rest = 0 => \/ pool'.buf[reader.buffer].read > 0
                                              \/ pool'.buf[reader.buffer].written = 0
      BY <2>1 DEF ReaderWalks, Playing, BuffersOf
    <3>1. reader.buffer \in Buffers /\ ReaderWalks
      BY <1>1 DEF PoolInv, TypeOK, WalkInv
    <3>2. BuffersOf(pool', current) = BuffersOf(pool, current) /\ BuffersOf(pool, current) \subseteq Buffers
      BY <2>6 DEF BuffersOf
    <3>3. Playing(pool, reader.buffer)
      BY <3>1 DEF ReaderWalks
    <3>4. reader.buffer = d => pool.buf[d].written > 0
      BY <2>3, <3>3 DEF Playing, EBS_PLAYING, EBS_DRAINING, EBS_BUFFERED
    <3>5. reader.rest = 0 => pool'.buf[reader.buffer].read > 0 \/ pool'.buf[reader.buffer].written = 0
      BY <2>5, <2>7, <3>1, <3>4 DEF ReaderWalks
    <3>6. Playing(pool', reader.buffer)
      BY <2>6, <3>1, <3>3 DEF Playing
    <3>7. \A b \in BuffersOf(pool', current) :
            pool'.buf[reader.buffer].key < pool'.buf[b].key => pool'.buf[b].read = 0
      BY <2>5, <2>6, <3>1, <3>2 DEF ReaderWalks
    <3> QED BY <3>5, <3>6, <3>7
  <2>10. WalkInv'
    <3>1. Plain(pool)' /\ Parked(pool, reader.buffer)'
      BY <2>1, <2>4 DEF Plain, Parked, Playing, SongIn
    <3>2. Left(pool, current)' /\ Drained(pool, current, reader.buffer)'
      BY <2>1, <2>4 DEF Left, Drained, Leaving, Entered, Playing, BuffersOf
    <3> QED BY <2>8, <2>9, <3>1, <3>2 DEF WalkInv
  <2>11. Appends(pool, current, pool', current')
    <3>1. /\ \A t \in Songs : Heard(pool', t) = Heard(pool, t)
          /\ \A t \in Songs : OnTape(pool', t) = IF t = NewSong THEN OnTape(pool, NewSong) + 1 ELSE OnTape(pool, t)
      BY <1>1, <2>1, <2>2, WriteTape
    <3> QED BY <1>1, <2>1, <3>1 DEF Appends
  <2> QED BY <2>10, <2>11 DEF ThisTapeStep, TapeStep
<1>9. CASE DecoderEndOfFile \/ DecoderThreshold
  <2>1. /\ Working /\ decoder.stage \in Opened /\ pool' = OperateBuffered(pool, d, decoder.track)
        /\ decoder'.stage \in {"eof", "checked"} /\ decoder'.buffer = d /\ decoder'.track = decoder.track
        /\ decoder'.stage = "checked" => decoder.stage = "written"
        /\ reader = NotReading /\ reader' = reader /\ current' = current /\ cleared' = cleared
    BY <1>1, <1>9 DEF DecoderEndOfFile, DecoderThreshold, DecoderAt, Working, AlsaMtxFree, Opened
  <2>2. Quiet(pool, pool') /\ ThisTapeStep /\ pool'.buf[d].written = pool.buf[d].written
    BY <1>5, <2>1
  <2>3. DecoderFills'
    BY <1>1, <2>1, <2>2 DEF WalkInv, DecoderFills, NewSong
  <2> QED BY <1>1, <1>2, <2>1, <2>2, <2>3, QuietStep
<1>10. CASE DecoderNextChunk
  <2>1. /\ Working /\ decoder.stage \in {"written", "checked"} /\ pool' = pool
        /\ decoder'.stage = "writing" /\ decoder'.buffer = d /\ decoder'.track = decoder.track
        /\ reader' = reader /\ current' = current /\ cleared' = cleared
    BY <1>1, <1>10 DEF DecoderNextChunk, DecoderAt, Working
  <2>2. DecoderFills'
    BY <1>1, <2>1 DEF WalkInv, DecoderFills, NewSong
  <2>3. WalkInv'
    BY <1>1, <2>1, <2>2 DEF WalkInv, ReaderWalks, Plain, Parked, Left, Drained, Playing, Leaving, Entered,
                            SongIn, BuffersOf
  <2>4. SameTape(pool, pool')
    BY <2>1 DEF SameTape, SameSong
  <2> QED BY <1>3, <2>1, <2>3, <2>4
<1>11. CASE DecoderFull \/ DecoderFinish
  <2>1. /\ Working /\ decoder.stage \in Opened
        /\ pool' \in {OperateLoaded(pool, d), OperateFinished(pool, d)}
        /\ decoder'.stage \in {"switch", "finished"} /\ decoder'.track = decoder.track
        /\ reader = NotReading /\ reader' = reader /\ current' = current /\ cleared' = cleared
    BY <1>1, <1>11 DEF DecoderFull, DecoderFinish, DecoderAt, Working, AlsaMtxFree, Opened
  <2>2. Quiet(pool, pool') /\ ThisTapeStep
    BY <1>5, <2>1
  <2>3. DecoderFills'
    BY <1>1, <2>1 DEF DecoderFills, NewSong
  <2> QED BY <1>1, <1>2, <2>1, <2>2, <2>3, QuietStep
<1>12. CASE DecoderSwitch
  <2>1. PICK b \in Buffers : IsEmpty(pool, b) /\ pool' = Allocate(pool, b)
    BY <1>12 DEF DecoderSwitch, NextEmptyBuffers
  <2>2. /\ Working /\ decoder'.stage = "continue" /\ decoder'.track = decoder.track
        /\ reader = NotReading /\ reader' = reader /\ current' = current
    BY <1>1, <1>12 DEF DecoderSwitch, DecoderAt, Working, AlsaMtxFree
  <2>3. Quiet(pool, pool') /\ SameTape(pool, pool')
    BY <1>1, <2>1, AllocateQuiet, AllocateTape
  <2>4. DecoderFills'
    BY <1>1, <2>2 DEF DecoderFills, NewSong
  <2> QED BY <1>1, <1>2, <1>3, <2>2, <2>3, <2>4, QuietStep
<1>13. CASE DecoderContinue
  <2>1. /\ Working /\ decoder.stage = "continue"
        /\ pool' = OperateContinue(pool, d, decoder.track)
        /\ decoder' = [decoder EXCEPT !.stage = "writing"]
        /\ reader = NotReading /\ reader' = reader /\ current' = current /\ cleared' = cleared
    BY <1>13 DEF DecoderContinue, DecoderAt, Working, AlsaMtxFree
  <2>2. /\ pool.buf[d].track = Nil /\ pool.buf[d].key = pool.key
        /\ HasSong(pool, SongOf[decoder.track])
    BY <1>1, <2>1 DEF DecoderView
  <2>3. Begins(pool, pool', d)
    BY <1>1, <2>1, <2>2, OpenWalk
  <2>4. DecoderFills'
    BY <1>1, <2>1, <2>3 DEF DecoderFills, Begins, NewSong, EBS_BUFFERING, EBS_BUFFERED
  <2> QED BY <1>1, <1>2, <1>3, <2>1, <2>3, <2>4, QuietStep DEF Begins
<1>14. ASSUME reader = NotReading, reader' = reader, current' = current, ~Working',
              \E S, T : Releases(pool, pool', S, T)
       PROVE  WalkInv' /\ ThisTapeStep
  <2>1. DecoderFills'
    BY <1>14 DEF DecoderFills
  <2>2. Quiet(pool, pool') /\ ThisTapeStep
    BY <1>4, <1>14
  <2> QED BY <1>1, <1>2, <1>14, <2>1, <2>2, QuietStep
<1>15. CASE DecoderGarbage
  <2>1. /\ reader = NotReading /\ reader' = reader /\ current' = current /\ ~Working'
        /\ \E removed, keep : pool' = CollectGarbage(pool, removed, keep)
    BY <1>15 DEF DecoderGarbage, AlsaMtxFree, Working, Idle
  <2> QED BY <1>1, <1>14, <2>1, ResetsRelease
<1>16. CASE DecoderFail
  <2>1. /\ reader = NotReading /\ reader' = reader /\ current' = current /\ ~Working'
        /\ Working /\ pool' = ResetSong(pool, NewSong)
    BY <1>16 DEF DecoderFail, AlsaMtxFree, DecoderAt, Working, Idle, NewSong
  <2> QED BY <1>1, <1>14, <2>1, ResetsRelease
<1>17. CASE DecoderHousekeeping
  <2>1. /\ reader = NotReading /\ reader' = reader /\ current' = current /\ ~Working'
        /\ \E hash, hardware, type, index, range :
             pool' = ResetByIndex(pool, hash, hardware, type, index, range)
    BY <1>17 DEF DecoderHousekeeping, AlsaMtxFree, DecoderAt, Working
  <2> QED BY <1>1, <1>14, <2>1, ResetsRelease
<1>18. CASE DecoderCleared
  <2>1. /\ reader = NotReading /\ reader' = reader /\ current' = current /\ ~Working'
        /\ pool' = ResetAll(pool)
    BY <1>18 DEF DecoderCleared, AlsaMtxFree, Working, Idle
  <2> QED BY <1>1, <1>14, <2>1, ResetsRelease
<1> QED BY <1>6, <1>7, <1>8, <1>9, <1>10, <1>11, <1>12, <1>13, <1>15, <1>16, <1>17, <1>18 DEF Decoder

LEMMA RebuildWalk == TapeInvs /\ Rebuild => WalkInv' /\ ThisTapeStep
<1> SUFFICES ASSUME TapeInvs, Rebuild PROVE WalkInv' /\ ThisTapeStep
  OBVIOUS
<1>1. /\ PoolInv /\ WalkInv /\ Plain(pool)
      /\ Sound(pool) /\ DecodingOrder(pool) /\ Bounded(pool) /\ Balanced(pool)
  BY DEF TapeInvs, PoolInv, DecodeInv, CounterInv, BalanceInv, WalkInv
<1>2. Sound(pool')
  BY <1>1, PoolInvNext DEF Next, PoolInv
<1>3. /\ reader = NotReading /\ reader' = reader /\ current' = current /\ ~Working'
      /\ pool' = ResetAll(pool)
  BY DEF Rebuild, AlsaMtxFree, Working
<1>4. PICK S, T : Releases(pool, pool', S, T)
  BY <1>1, <1>3, ResetsRelease
<1>5. Quiet(pool, pool') /\ Wipes(pool, current, pool', current)
  BY <1>1, <1>4, ReleaseQuiet, ReleaseWipes
<1>6. DecoderFills'
  BY <1>3 DEF DecoderFills
<1>7. WalkInv'
  BY <1>1, <1>2, <1>3, <1>5, <1>6, QuietStep
<1> QED BY <1>3, <1>5, <1>7 DEF ThisTapeStep, TapeStep

-----------------------------------------------------------------------------
(* The player on the tape. *)

LEMMA NoSong ==
  ASSUME NEW p, Sound(p), NEW x
  PROVE  Left(p, Nil) /\ Drained(p, Nil, x)
<1>1. BuffersOf(p, Nil) = {}
  BY PoolAssumption DEF BuffersOf, Sound, Pools, BufferRecords
<1> QED BY <1>1 DEF Left, Drained

(* A buffer without samples becomes playable through the decoder alone. *)
NoneReady(p, q) ==
  \A b \in Buffers : p.buf[b].written = 0 /\ q.buf[b].status >= EBS_BUFFERED => p.buf[b].status >= EBS_BUFFERED

LEMMA NoneReadyCompose ==
  ASSUME NEW p, NEW q, NEW r, Same(p, q), NoneReady(p, q), NoneReady(q, r)
  PROVE  NoneReady(p, r)
BY DEF NoneReady, Same

LEMMA PlayerReady ==
  ASSUME NEW p, Sound(p)
  PROVE  /\ \A s : NoneReady(p, Complete(p, s))
         /\ \A s \in Songs : NoneReady(p, Cleanup(p, s))
         /\ NoneReady(p, CleanupAll(p))
<1>1. \A b \in Buffers : p.buf[b].written = 0 => ~Used(p, b)
  BY DEF Used
<1>2. \A s : NoneReady(p, Complete(p, s))
  <2> TAKE s
  <2>1. \A b \in Buffers : ~Used(p, b) => Complete(p, s).buf[b] = p.buf[b]
    BY DEF Complete, Sound, Pools
  <2> QED BY <1>1, <2>1 DEF NoneReady
<1>3. \A T : \A b \in Buffers : ~Used(p, b) => Rewound(p, T).buf[b] = p.buf[b]
  BY DEF Rewound, Sound, Pools
<1>4. NoneReady(p, CleanupAll(p))
  BY <1>1, <1>3 DEF NoneReady, CleanupAll
<1>5. \A s \in Songs : NoneReady(p, Cleanup(p, s))
  <2> TAKE s \in Songs
  <2>1. Cleanup(p, s).buf = Rewound(p, BuffersOf(p, s)).buf
    BY RewoundSound DEF Cleanup, Sound, Pools
  <2> QED BY <1>1, <1>3, <2>1 DEF NoneReady
<1> QED BY <1>2, <1>4, <1>5

LEMMA FillsStep ==
  ASSUME PoolInv, WalkInv, Same(pool, pool'), NoneReady(pool, pool'), decoder' = decoder, cleared' = cleared
  PROVE  DecoderFills'
<1>1. Working => decoder.buffer \in Buffers /\ DecoderFills
  BY DEF PoolInv, TypeOK, Working, WalkInv
<1>2. Working' <=> Working
  BY DEF Working
<1>3. Working => /\ pool'.buf[decoder.buffer].written = pool.buf[decoder.buffer].written
                 /\ pool.buf[decoder.buffer].written \in Nat
  BY <1>1 DEF Same, PoolInv, Sound, Pools, BufferRecords
<1>4. ASSUME Working, decoder.stage = "writing", pool'.buf[decoder.buffer].status >= EBS_BUFFERED
      PROVE  pool'.buf[decoder.buffer].written > 0
  BY <1>1, <1>3, <1>4 DEF DecoderFills, NoneReady
<1> QED BY <1>1, <1>2, <1>3, <1>4 DEF DecoderFills, NewSong

(* getNextSongBuffer(): the first buffer that has not been left. *)
LEMMA NextWalks ==
  ASSUME PoolInv, DecodeInv, WalkInv, current \in Songs, NextSongBuffer(pool, current) # Nil
  PROVE  LET b == NextSongBuffer(pool, current)
         IN  /\ b \in BuffersOf(pool, current)
             /\ pool.buf[b].status \in {EBS_PLAYING, EBS_BUFFERED, EBS_LOADED}
             /\ \A c \in BuffersOf(pool, current) : pool.buf[c].key < pool.buf[b].key => Leaving(pool, c)
<1> DEFINE b == NextSongBuffer(pool, current)
           B == BuffersOf(pool, current)
           playing == PlayingBuffers(pool, current)
           playable == PlayableBuffers(pool, current)
<1>1. Sound(pool) /\ pool \in Pools /\ Plain(pool) /\ Left(pool, current)
  BY DEF PoolInv, Sound, WalkInv
<1>2. \A c \in B : /\ c \in Buffers /\ pool.buf[c].key \in Nat /\ pool.buf[c].key <= pool.key
                   /\ pool.buf[c].track # Nil /\ SongIn(pool, c) = current
                   /\ pool.buf[c].status \in 0 .. 9
  BY <1>1, BuffersOfType DEF Sound, Pools, BufferRecords
<1>3. playing \in SUBSET Buffers /\ playable \in SUBSET Buffers
  BY DEF PlayingBuffers, PlayableBuffers, BuffersOf
<1>4. \A c \in B : current \notin Streamed
  BY <1>1, <1>2 DEF Plain
<1>5. CASE playing # {}
  <2>1. b = First(pool, playing)
    BY <1>5 DEF NextSongBuffer
  <2>2. b \in playing
    BY <1>1, <1>3, <1>5, <2>1, FirstInSet
  <2>3. b \in B /\ pool.buf[b].status = EBS_PLAYING
    BY <2>2 DEF PlayingBuffers
  <2>4. Entered(pool, b)
    BY <2>3 DEF Entered, Playing
  <2> HIDE DEF b, B
  <2>5. \A c \in B : pool.buf[c].key < pool.buf[b].key => Leaving(pool, c)
    BY <1>1, <2>3, <2>4 DEF Left, B
  <2>6. /\ b \in B /\ pool.buf[b].status \in {EBS_PLAYING, EBS_BUFFERED, EBS_LOADED}
        /\ \A c \in B : pool.buf[c].key < pool.buf[b].key => Leaving(pool, c)
    BY <2>3, <2>5
  <2> QED BY <2>6 DEF b, B
<1>6. CASE playing = {}
  <2>1. playable # {} /\ b = First(pool, playable)
    BY <1>6 DEF NextSongBuffer
  <2>2. b \in playable /\ \A c \in playable : pool.buf[b].key <= pool.buf[c].key
    BY <1>1, <1>3, <2>1, FirstInSet
  <2>3. b \in B
    BY <2>2 DEF PlayableBuffers
  <2>4. pool.buf[b].status \in {EBS_BUFFERED, EBS_LOADED}
    BY <1>4, <2>2, <2>3 DEF PlayableBuffers
  <2>5. \A c \in B : pool.buf[c].status # EBS_PLAYING /\ pool.buf[c].status # EBS_FINISHED
    BY <1>1, <1>2, <1>6 DEF PlayingBuffers, Plain
  <2>6. \A c \in B : pool.buf[c].status \in {EBS_BUFFERED, EBS_LOADED} => c \in playable
    BY DEF PlayableBuffers
  <2> HIDE DEF b, B, playable
  <2>7. ASSUME NEW c \in B, pool.buf[c].key < pool.buf[b].key PROVE Leaving(pool, c)
    <3>1. pool.buf[c].status \notin {EBS_BUFFERED, EBS_LOADED}
      BY <1>2, <2>2, <2>3, <2>6, <2>7
    <3>2. Working => c # decoder.buffer
      <4>1. Working => pool.buf[decoder.buffer].key = pool.key
        BY DEF DecodeInv, DecoderView
      <4>2. pool.key \in Nat /\ pool.buf[b].key <= pool.key
        BY <1>1, <1>2, <2>3 DEF Pools
      <4> QED BY <1>2, <2>3, <2>7, <4>1, <4>2
    <3>3. pool.buf[c].status >= EBS_BUFFERED
      BY <1>2, <3>2 DEF DecodeInv, OthersBuffered
    <3> QED BY <1>2, <2>5, <3>1, <3>3 DEF Leaving, EBS_BUFFERED, EBS_LOADED, EBS_FINISHED, EBS_PLAYING, EBS_DRAINING
  <2>8. /\ b \in B /\ pool.buf[b].status \in {EBS_PLAYING, EBS_BUFFERED, EBS_LOADED}
        /\ \A c \in B : pool.buf[c].key < pool.buf[b].key => Leaving(pool, c)
    BY <2>3, <2>4, <2>7
  <2> QED BY <2>8 DEF b, B
<1> QED BY <1>5, <1>6

(* Playback ends, or a song begins: everything is put back to its start. *)
LEMMA TurnStep ==
  ASSUME TapeInvs, NEW q, Sound(q), Plain(q), Parked(q, Nil), Bounded(q), Begun(q), Same(pool, q),
         NoneReady(pool, q), SameLength(pool, q),
         \/ pool' = q /\ current' = Nil
         \/ pool' = CleanupAll(q) /\ current' = Nil
         \/ pool' = Cleanup(q, current') /\ current' \in Songs,
         decoder' = decoder, cleared' = cleared, reader' = NotReading
  PROVE  WalkInv' /\ ThisTapeStep
<1>1. PoolInv /\ DecodeInv /\ WalkInv /\ DecodingOrder(q)
  BY SameOrder DEF TapeInvs, DecodeInv
<1>2. /\ Plain(pool') /\ Parked(pool', Nil) /\ Same(pool, pool') /\ NoneReady(pool, pool')
      /\ SameLength(pool, pool') /\ Sound(pool')
      /\ current' # Nil => /\ current' \in Songs /\ Heard(pool', current') = {}
                           /\ Left(pool', current') /\ Drained(pool', current', Nil)
  <2>1. CASE pool' = q /\ current' = Nil
    BY <2>1
  <2>2. CASE pool' = CleanupAll(q) /\ current' = Nil
    <3>1. Plain(pool') /\ Parked(pool', Nil)
      BY <2>2, CleanupWalk
    <3>2. Same(pool, pool') /\ NoneReady(pool, pool') /\ Sound(pool')
      <4>1. Same(q, CleanupAll(q))
        BY RewoundSame DEF CleanupAll
      <4> QED BY <2>2, <4>1, SameCompose, PlayerReady, NoneReadyCompose, CleanupAllSound
    <3>3. SameLength(pool, pool')
      BY <1>1, <2>2, CleanupTape DEF SameLength
    <3> QED BY <2>2, <3>1, <3>2, <3>3
  <2>3. CASE pool' = Cleanup(q, current') /\ current' \in Songs
    <3>1. /\ Plain(pool') /\ Parked(pool', Nil)
          /\ Left(pool', current') /\ Drained(pool', current', Nil)
      BY <2>3, CleanupWalk
    <3>2. Same(pool, pool') /\ NoneReady(pool, pool') /\ Sound(pool')
      BY <2>3, CleanupSame, SameCompose, PlayerReady, NoneReadyCompose, CleanupSound
    <3>3. SameLength(pool, pool') /\ Heard(pool', current') = {}
      BY <1>1, <2>3, CleanupTape DEF SameLength
    <3> QED BY <2>3, <3>1, <3>2, <3>3
  <2> QED BY <2>1, <2>2, <2>3
<1>3. current' \in Songs \cup {Nil}
  OBVIOUS
<1>4. Left(pool', current') /\ Drained(pool', current', Nil)
  <2>1. Left(pool', Nil) /\ Drained(pool', Nil, Nil)
    BY <1>2, NoSong
  <2> QED BY <1>2, <2>1
<1>5. DecoderFills'
  BY <1>1, <1>2, FillsStep
<1>6. WalkInv'
  BY <1>2, <1>4, <1>5, WalkStep
<1>7. Turns(pool, current, pool', current')
  BY <1>2, <1>3 DEF Turns
<1> QED BY <1>6, <1>7 DEF ThisTapeStep, TapeStep

LEMMA BeginWalk == TapeInvs /\ PeriodBegin => WalkInv' /\ ThisTapeStep
<1> SUFFICES ASSUME TapeInvs, PeriodBegin PROVE WalkInv' /\ ThisTapeStep
  OBVIOUS
<1> DEFINE b == NextSongBuffer(pool, current)
           q == OperatePlaying(pool, b)
           r == OperateStatus(q, b, EBS_DRAINING)
           rest == Monus(q.buf[b].written, q.buf[b].read)
<1>1. /\ PoolInv /\ DecodeInv /\ WalkInv /\ Sound(pool) /\ Bounded(pool) /\ current \in Songs
  BY DEF TapeInvs, PoolInv, TypeOK, CounterInv, PeriodBegin
<1>2. /\ Plain(pool) /\ Parked(pool, Nil) /\ Left(pool, current) /\ Drained(pool, current, Nil)
  BY <1>1 DEF WalkInv, PeriodBegin, AlsaMtxFree, NotReading
<1>3. /\ b # Nil /\ pool' \in {q, r} /\ reader' = [buffer |-> b, rest |-> rest]
      /\ current' = current /\ decoder' = decoder /\ cleared' = cleared
  BY DEF PeriodBegin
<1>4. /\ b \in BuffersOf(pool, current)
      /\ pool.buf[b].status \in {EBS_PLAYING, EBS_BUFFERED, EBS_LOADED}
      /\ \A c \in BuffersOf(pool, current) : pool.buf[c].key < pool.buf[b].key => Leaving(pool, c)
  BY <1>1, <1>3, NextWalks
<1> HIDE DEF b
<1>5. b \in Buffers /\ pool.buf[b].alloc /\ b # Nil
  BY <1>1, <1>3, <1>4, BuffersOfType
<1>6. ~Leaving(pool, b) /\ pool.buf[b].status >= EBS_BUFFERED
  BY <1>4 DEF Leaving, EBS_PLAYING, EBS_BUFFERED, EBS_LOADED, EBS_DRAINING
<1>7. /\ \A c \in Buffers : c # b => q.buf[c] = pool.buf[c]
      /\ q.buf[b].status = IF pool.buf[b].status # EBS_PLAYING /\ pool.buf[b].status >= EBS_BUFFERED
                           THEN Raise(pool.buf[b].status, EBS_PLAYING) ELSE pool.buf[b].status
  BY <1>1, <1>5 DEF OperatePlaying, Sound, Pools, BufferRecords
<1>8. q.buf[b].status = EBS_PLAYING
  BY <1>4, <1>7 DEF Raise, EBS_PLAYING, EBS_BUFFERED, EBS_LOADED
<1>9. EBS_DRAINING \in 0 .. 9
  BY DEF EBS_DRAINING
<1>10. Sound(q) /\ Same(pool, q) /\ Alike(pool, q)
  BY <1>1, <1>5, <1>9, OperateStatusSound, StatusSame, StatusAlike
<1> HIDE DEF q, rest
<1>11. /\ \A c \in Buffers : c # b => r.buf[c] = q.buf[c]
       /\ r.buf[b].status = Raise(q.buf[b].status, EBS_DRAINING)
  BY <1>5, <1>10 DEF OperateStatus, Sound, Pools, BufferRecords
<1>12. r.buf[b].status = EBS_DRAINING
  BY <1>8, <1>11 DEF Raise, EBS_PLAYING, EBS_DRAINING
<1>13. Same(pool, r) /\ Alike(pool, r)
  BY <1>5, <1>9, <1>10, StatusSame, StatusAlike, SameCompose, AlikeCompose
<1> HIDE DEF r
<1>14. /\ \A c \in Buffers : c # b => pool'.buf[c] = pool.buf[c]
       /\ pool'.buf[b].status \in {EBS_PLAYING, EBS_DRAINING}
       /\ Same(pool, pool') /\ Alike(pool, pool')
  BY <1>3, <1>7, <1>8, <1>10, <1>11, <1>12, <1>13
<1>15. pool'.buf[b].track = pool.buf[b].track /\ pool'.buf[b].key = pool.buf[b].key
  BY <1>5, <1>14 DEF Same
<1>16. /\ Plain(pool') /\ Parked(pool', b) /\ Left(pool', current) /\ Drained(pool', current, b)
       /\ Playing(pool', b)
       /\ \A c \in BuffersOf(pool', current) : pool'.buf[b].key < pool'.buf[c].key => pool'.buf[c].read = 0
  BY <1>1, <1>2, <1>4, <1>6, <1>14, <1>15, EnterWalk
<1>17. rest = 0 => pool'.buf[b].read > 0 \/ pool'.buf[b].written = 0
  <2>1. /\ pool.buf[b].read \in Nat /\ pool.buf[b].written \in Nat /\ pool.buf[b].read <= pool.buf[b].written
        /\ pool'.buf[b].read = pool.buf[b].read /\ pool'.buf[b].written = pool.buf[b].written
        /\ q.buf[b].read = pool.buf[b].read /\ q.buf[b].written = pool.buf[b].written
    BY <1>1, <1>5, <1>10, <1>14 DEF Sound, Pools, BufferRecords, Bounded, Alike
  <2> QED BY <2>1 DEF rest, Monus
<1>18. DecoderFills'
  <2>1. NoneReady(pool, pool')
    BY <1>6, <1>14 DEF NoneReady
  <2> QED BY <1>1, <1>3, <1>14, <2>1, FillsStep
<1>19. WalkInv'
  <2>1. Plain(pool)' /\ Parked(pool, reader.buffer)'
    BY <1>3, <1>16 DEF Plain, Parked, Playing, SongIn
  <2>2. Left(pool, current)' /\ Drained(pool, current, reader.buffer)'
    BY <1>3, <1>16 DEF Left, Drained, Leaving, Entered, Playing, BuffersOf
  <2>3. ReaderWalks'
    BY <1>3, <1>16, <1>17 DEF ReaderWalks, Playing, BuffersOf
  <2> QED BY <1>18, <2>1, <2>2, <2>3 DEF WalkInv
<1>20. SameTape(pool, pool')
  BY <1>1, <1>14, AlikeTape DEF Same, SameKeys
<1> QED BY <1>3, <1>19, <1>20 DEF ThisTapeStep, TapeStep, Stays

(* A period ends: it has read one chunk, or there was none. *)
LEMMA HearsOne ==
  ASSUME TapeInvs, reader # NotReading, NEW q,
         q = IF reader.rest > 0 THEN ReadChunk(pool, reader.buffer, current) ELSE pool
  PROVE  /\ SameLength(pool, q)
         /\ Stays(pool, current, q, current) \/ Hears(pool, current, q, current)
<1> DEFINE b == reader.buffer
<1>1. /\ Sound(pool) /\ DecodingOrder(pool) /\ Bounded(pool) /\ Balanced(pool)
      /\ Left(pool, current) /\ Drained(pool, current, b) /\ ReaderWalks
      /\ b \in BuffersOf(pool, current) /\ current \in Songs
  BY DEF TapeInvs, PoolInv, TypeOK, DecodeInv, CounterInv, BalanceInv, WalkInv
<1>2. CASE ~(reader.rest > 0)
  <2>1. q = pool
    BY <1>2
  <2> QED BY <2>1 DEF SameLength, Stays, SameTape, SameSong
<1>3. CASE reader.rest > 0
  <2> DEFINE n == Before(pool, b) + pool.buf[b].read + 1
  <2>1. q = ReadChunk(pool, b, current)
    BY <1>3
  <2>2. pool.buf[b].read < pool.buf[b].written
    BY <1>3 DEF TapeInvs, CounterInv
  <2>3. Entered(pool, b)
    BY <1>1 DEF ReaderWalks, Entered
  <2>4. \A c \in BuffersOf(pool, current) : /\ pool.buf[c].key < pool.buf[b].key => pool.buf[c].read > 0
                                            /\ pool.buf[b].key < pool.buf[c].key => pool.buf[c].read = 0
    <3> TAKE c \in BuffersOf(pool, current)
    <3>1. ASSUME pool.buf[c].key < pool.buf[b].key PROVE pool.buf[c].read > 0
      <4>1. Leaving(pool, c) /\ pool.buf[c].written = BufferSize
        BY <1>1, <2>3, <3>1 DEF Left, DecodingOrder, Follows
      <4>2. c # b
        BY <1>1, <3>1, BuffersOfType
      <4> QED BY <1>1, <4>1, <4>2, PoolAssumption DEF Drained
    <3>2. pool.buf[b].key < pool.buf[c].key => pool.buf[c].read = 0
      BY <1>1 DEF ReaderWalks
    <3> QED BY <3>1, <3>2
  <2>5. Heard(q, current) = Heard(pool, current) \cup {n} /\ SameLength(pool, q)
    BY <1>1, <2>1, ReadTape DEF SameLength
  <2> HIDE DEF b
  <2>6. /\ n \in 1 .. OnTape(pool, current)
        /\ \A k \in Heard(pool, current) : k < n
        /\ Heard(pool, current) = {} => n = 1
    BY <1>1, <2>2, <2>4, HearNext
  <2> HIDE DEF n
  <2>7. Hears(pool, current, q, current)
    BY <1>1, <2>5, <2>6 DEF Hears
  <2> QED BY <2>5, <2>7
<1> QED BY <1>2, <1>3

LEMMA EndWalk == TapeInvs /\ PeriodEnd => WalkInv' /\ ThisTapeStep
<1> SUFFICES ASSUME TapeInvs, PeriodEnd PROVE WalkInv' /\ ThisTapeStep
  OBVIOUS
<1> DEFINE b == reader.buffer
           q == IF reader.rest > 0 THEN ReadChunk(pool, b, current) ELSE pool
           played == OperateStatus(q, b, EBS_PLAYED)
<1>1. /\ PoolInv /\ WalkInv /\ Sound(pool) /\ Plain(pool) /\ Bounded(pool) /\ Begun(pool)
      /\ Parked(pool, b) /\ Left(pool, current) /\ Drained(pool, current, b) /\ ReaderWalks
      /\ Playing(pool, b) /\ reader # NotReading
      /\ b \in Buffers /\ b \in BuffersOf(pool, current) /\ current \in Songs /\ pool.buf[b].alloc
  BY DEF TapeInvs, PoolInv, TypeOK, CounterInv, BalanceInv, WalkInv, ReaderWalks, PeriodEnd
<1>2. /\ reader' = NotReading /\ decoder' = decoder /\ cleared' = cleared
      /\ \/ ~IsExhausted(q, b) /\ pool' = q /\ current' = current
         \/ pool' = played /\ current' = current
         \/ pool' = played /\ current' = Nil
         \/ current' \in Songs /\ pool' = Cleanup(played, current')
  BY DEF PeriodEnd
<1>3. /\ pool.buf[b].read \in Nat /\ pool.buf[b].written \in Nat
      /\ reader.rest > 0 => pool.buf[b].read < pool.buf[b].written
      /\ reader.rest \in Nat
  BY <1>1 DEF Sound, Pools, BufferRecords, PoolInv, TypeOK, TapeInvs, CounterInv
<1>4. Sound(q) /\ Same(pool, q)
  <2>1. Same(pool, pool)
    BY DEF Same
  <2> QED BY <1>1, <2>1, ChunkSound, ReadSame
<1>5. /\ \A c \in Buffers : c # b => q.buf[c] = pool.buf[c]
      /\ \A c \in Buffers : q.buf[c].status = pool.buf[c].status
  BY <1>1 DEF ReadChunk, Sound, Pools, BufferRecords
<1>6. \A c \in Buffers :
        /\ q.buf[c].read = IF c = b /\ reader.rest > 0 THEN pool.buf[c].read + 1 ELSE pool.buf[c].read
        /\ q.buf[c].written = pool.buf[c].written
  BY <1>1, ChunkCounters
<1>7. SameLength(pool, q) /\ (Stays(pool, current, q, current) \/ Hears(pool, current, q, current))
  BY <1>1, HearsOne
<1>8. IsExhausted(q, b) \/ q.buf[b].written # 0
  BY <1>1, <1>3, <1>6 DEF IsExhausted
<1> HIDE DEF q
<1>9. q.buf[b].read > 0 \/ q.buf[b].written = 0
  BY <1>1, <1>3, <1>6 DEF ReaderWalks
<1>10. q.buf[b].track = pool.buf[b].track /\ q.buf[b].key = pool.buf[b].key
  BY <1>1, <1>4 DEF Same
<1>11. /\ \A c \in Buffers : c # b => played.buf[c] = q.buf[c]
       /\ played.buf[b].status = Raise(q.buf[b].status, EBS_PLAYED)
  BY <1>1, <1>4 DEF OperateStatus, Sound, Pools, BufferRecords
<1>12. played.buf[b].status = EBS_PLAYED
  BY <1>1, <1>5, <1>11 DEF Playing, Raise, EBS_PLAYING, EBS_DRAINING, EBS_PLAYED
<1>13. Sound(played) /\ Same(q, played) /\ Alike(q, played)
  <2>1. EBS_PLAYED \in 0 .. 9 /\ q.buf[b].alloc
    BY <1>1, <1>4 DEF EBS_PLAYED, Same
  <2> QED BY <1>1, <1>4, <2>1, OperateStatusSound, StatusSame, StatusAlike
<1> HIDE DEF played, b
<1>14. Same(pool, played) /\ SameTape(q, played)
  BY <1>4, <1>13, SameCompose, AlikeTape DEF Same, SameKeys
<1>15. /\ played.buf[b].track = pool.buf[b].track /\ played.buf[b].key = pool.buf[b].key
       /\ played.buf[b].read > 0 \/ played.buf[b].written = 0
       /\ \A c \in Buffers : c # b => played.buf[c] = pool.buf[c]
  BY <1>1, <1>5, <1>9, <1>11, <1>13, <1>14 DEF Same, Alike
<1>16. Plain(played) /\ Parked(played, Nil) /\ Left(played, current) /\ Drained(played, current, Nil)
  BY <1>1, <1>12, <1>15, LeaveWalk
<1>17. /\ pool.buf[b].status >= EBS_BUFFERED
       /\ NoneReady(pool, q) /\ NoneReady(pool, played)
  <2>1. pool.buf[b].status >= EBS_BUFFERED
    BY <1>1 DEF Playing, EBS_PLAYING, EBS_DRAINING, EBS_BUFFERED
  <2> QED BY <1>5, <1>15, <2>1 DEF NoneReady
<1>18. CASE ~IsExhausted(q, b) /\ pool' = q /\ current' = current
  <2>1. Plain(q) /\ Parked(q, Nil) /\ Left(q, current) /\ Drained(q, current, Nil)
    BY <1>1, <1>5, <1>8, <1>9, <1>10, <1>18, LeaveWalk
  <2>2. DecoderFills'
    BY <1>1, <1>2, <1>4, <1>17, <1>18, FillsStep
  <2>3. WalkInv'
    BY <1>2, <1>18, <2>1, <2>2, WalkStep
  <2> QED BY <1>7, <1>18, <2>3 DEF ThisTapeStep, TapeStep
<1>19. CASE pool' = played /\ current' = current
  <2>1. DecoderFills'
    BY <1>1, <1>2, <1>14, <1>17, <1>19, FillsStep
  <2>2. WalkInv'
    BY <1>2, <1>16, <1>19, <2>1, WalkStep
  <2>3. Stays(pool, current, played, current) \/ Hears(pool, current, played, current)
    <3>1. CASE Stays(pool, current, q, current)
      BY <1>14, <3>1, SameTapeCompose DEF Stays
    <3>2. CASE Hears(pool, current, q, current)
      <4>1. SameLength(pool, played) /\ Heard(played, current) = Heard(q, current)
        BY <1>1, <1>7, <1>14 DEF SameTape, SameSong, SameLength
      <4> QED BY <3>2, <4>1 DEF Hears
    <3> QED BY <1>7, <3>1, <3>2
  <2> QED BY <1>19, <2>2, <2>3 DEF ThisTapeStep, TapeStep
<1>20. CASE \/ pool' = played /\ current' = Nil
            \/ current' \in Songs /\ pool' = Cleanup(played, current')
  <2>1. SameLength(pool, played)
    BY <1>7, <1>14 DEF SameLength, SameTape, SameSong
  <2>2. Begun(played)
    <3>1. Begun(q)
      BY <1>1, <1>4, <1>5 DEF Begun, Same
    <3> QED BY <1>13, <3>1, AlikeCounts
  <2>3. Bounded(played)
    <3>1. Bounded(q)
      BY <1>1, <1>3, <1>6 DEF Bounded
    <3> QED BY <1>13, <3>1 DEF Bounded, Alike
  <2> QED BY <1>2, <1>13, <1>14, <1>16, <1>17, <1>20, <2>1, <2>2, <2>3, TurnStep
<1> QED BY <1>2, <1>18, <1>19, <1>20

LEMMA PlayerWalk == TapeInvs /\ Player => WalkInv' /\ ThisTapeStep
<1> SUFFICES ASSUME TapeInvs, Player PROVE WalkInv' /\ ThisTapeStep
  OBVIOUS
<1> DEFINE stopped == IF current = Nil THEN pool ELSE Complete(pool, current)
<1>1. /\ Sound(pool) /\ Plain(pool) /\ Bounded(pool) /\ Begun(pool) /\ Parked(pool, reader.buffer)
  BY DEF TapeInvs, PoolInv, CounterInv, BalanceInv, WalkInv
<1>2. ASSUME reader = NotReading
      PROVE  /\ Sound(stopped) /\ Plain(stopped) /\ Parked(stopped, Nil) /\ Bounded(stopped) /\ Begun(stopped)
             /\ Same(pool, stopped) /\ NoneReady(pool, stopped) /\ SameLength(pool, stopped)
  <2>1. Parked(pool, Nil)
    BY <1>1, <1>2 DEF NotReading
  <2>2. CASE current = Nil
    BY <1>1, <2>1, <2>2 DEF Same, NoneReady, SameLength
  <2>3. CASE current # Nil
    <3> DEFINE q == Complete(pool, current)
    <3>1. Sound(q) /\ Plain(q) /\ Parked(q, Nil) /\ Same(pool, q) /\ Alike(pool, q)
      BY <1>1, <2>1, CompleteSound, CompleteWalk, CompleteSame, CompleteAlike
    <3>2. Bounded(q) /\ NoneReady(pool, q)
      BY <1>1, CompleteCalm, CalmBounded, PlayerReady
    <3> HIDE DEF q
    <3>3. Begun(q)
      BY <1>1, <3>1, AlikeCounts
    <3>4. SameLength(pool, q)
      BY <1>1, <3>1, AlikeTape DEF Same, SameKeys, SameLength, SameTape, SameSong
    <3> QED BY <2>3, <3>1, <3>2, <3>3, <3>4 DEF q
  <2> QED BY <2>2, <2>3
<1>3. CASE \E s \in Songs : Play(s)
  <2>1. /\ current' \in Songs /\ pool' = Cleanup(stopped, current')
        /\ reader = NotReading /\ reader' = NotReading /\ decoder' = decoder /\ cleared' = cleared
    BY <1>3 DEF Play, AlsaMtxFree
  <2> HIDE DEF stopped
  <2> QED BY <1>2, <2>1, TurnStep
<1>4. CASE Stop
  <2>1. /\ current' = Nil /\ pool' = stopped
        /\ reader = NotReading /\ reader' = NotReading /\ decoder' = decoder /\ cleared' = cleared
    BY <1>4 DEF Stop, AlsaMtxFree
  <2> HIDE DEF stopped
  <2> QED BY <1>2, <2>1, TurnStep
<1>5. CASE Close
  <2>1. /\ current' = Nil /\ pool' = CleanupAll(stopped)
        /\ reader = NotReading /\ reader' = NotReading /\ decoder' = decoder /\ cleared' = cleared
    BY <1>5 DEF Close, AlsaMtxFree
  <2> HIDE DEF stopped
  <2> QED BY <1>2, <2>1, TurnStep
<1> QED BY <1>3, <1>4, <1>5, BeginWalk, EndWalk DEF Player

LEMMA WalkInvNext == TapeInvs /\ [Next]_vars => WalkInv'
<1> SUFFICES ASSUME TapeInvs, [Next]_vars PROVE WalkInv'
  OBVIOUS
<1>1. CASE UNCHANGED vars
  <2>1. WalkInv
    BY DEF TapeInvs
  <2> QED BY <1>1, <2>1 DEF vars, WalkInv, DecoderFills, ReaderWalks, Working, NewSong, Plain, Parked, Left, Drained,
                            Playing, Leaving, Entered, SongIn, BuffersOf
<1> QED BY <1>1, DecoderWalk, PlayerWalk, RebuildWalk DEF Next

(* Through buffers that are allocated, drained, released and decoded again the
   player hears the chunks of a song from the first one on, forward, and none
   of them twice: the pool implements the tape. *)
THEOREM PoolImplementsTape == Spec => ImplementsTape
<1>1. Init => Tape!Init
  <2> SUFFICES ASSUME Init PROVE Tape!Init
    OBVIOUS
  <2>1. \A b \in Buffers : pool.buf[b].track = Nil
    BY DEF Init, InitialPool, EmptyBuffer
  <2>2. \A s \in Songs : OnTape(pool, s) = 0
    BY <2>1 DEF OnTape, HasSong, BuffersOf
  <2>3. current = Nil
    BY DEF Init
  <2> QED BY <2>2, <2>3 DEF Tape!Init
<1>2. TapeInvs /\ [Next]_vars => [Tape!Next]_(Tape!tapeVars)
  <2> SUFFICES ASSUME TapeInvs, [Next]_vars PROVE [Tape!Next]_(Tape!tapeVars)
    OBVIOUS
  <2>1. CASE UNCHANGED vars
    BY <2>1 DEF vars, Tape!tapeVars, OnTape, HasSong, BuffersOf, Heard, Before, Earlier, SongIn
  <2>2. CASE Next
    <3>1. ThisTapeStep
      BY <2>2, DecoderWalk, PlayerWalk, RebuildWalk DEF Next
    <3>2. Sound(pool) /\ Sound(pool') /\ current \in Songs \cup {Nil}
      BY PoolInvNext DEF TapeInvs, PoolInv, TypeOK
    <3> QED BY <3>1, <3>2, TapeStepNext DEF ThisTapeStep
  <2> QED BY <2>1, <2>2
<1>3. Init => TapeInvs
  BY PoolInvInit, DecodeInvInit, CounterInvInit, BalanceInvInit, WalkInvInit DEF TapeInvs
<1>4. TapeInvs /\ [Next]_vars => TapeInvs'
  BY PoolInvNext, DecodeInvNext, CounterInvNext, BalanceInvNext, WalkInvNext DEF TapeInvs
<1> QED BY <1>1, <1>2, <1>3, <1>4, PTL DEF Spec, ImplementsTape, Tape!Spec

=============================================================================
