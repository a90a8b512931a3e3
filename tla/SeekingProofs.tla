---------------------------- MODULE SeekingProofs ----------------------------
(***************************************************************************)
(* TLAPS proofs about jumps in a song, for any number of buffers, any      *)
(* sizes of buffers and skips, and any positions asked for.  A jump keeps  *)
(* what is proved of the pool; the places in the song are sums over its    *)
(* buffers, which only change by the buffer that a jump leaves.            *)
(***************************************************************************)
EXTENDS Seeking, AudioBufferPoolProofs

(* The chunks that v counts in the buffers of S. *)
Chunks(v, S) == Cardinality(UNION {{b} \X (1 .. v[b]) : b \in S})
Counts == [Buffers -> 0 .. BufferSize]

LEMMA ChunksEmpty == ASSUME NEW v PROVE Chunks(v, {}) = 0
<1>1. UNION {{b} \X (1 .. v[b]) : b \in {}} = {}
  OBVIOUS
<1> QED BY <1>1, FS_EmptySet DEF Chunks

LEMMA ChunksFinite ==
  ASSUME NEW v \in Counts, NEW S \in SUBSET Buffers
  PROVE  /\ IsFiniteSet(UNION {{b} \X (1 .. v[b]) : b \in S})
         /\ Chunks(v, S) \in Nat
<1>1. BufferSize \in Nat /\ IsFiniteSet(Buffers)
  BY PoolAssumption
<1>2. IsFiniteSet(Buffers \X (1 .. BufferSize))
  <2>1. IsFiniteSet(1 .. BufferSize)
    BY <1>1, FS_Interval
  <2> QED BY <1>1, <2>1, FS_Product
<1>3. UNION {{b} \X (1 .. v[b]) : b \in S} \subseteq Buffers \X (1 .. BufferSize)
  BY <1>1 DEF Counts
<1>4. IsFiniteSet(UNION {{b} \X (1 .. v[b]) : b \in S})
  BY <1>2, <1>3, FS_Subset
<1> QED BY <1>4, FS_CardinalityType DEF Chunks

LEMMA ChunksAdd ==
  ASSUME NEW v \in Counts, NEW S \in SUBSET Buffers, NEW x \in Buffers, x \notin S
  PROVE  Chunks(v, S \cup {x}) = Chunks(v, S) + v[x]
<1> DEFINE U == UNION {{b} \X (1 .. v[b]) : b \in S}
           X == {x} \X (1 .. v[x])
<1>1. v[x] \in Nat
  BY PoolAssumption DEF Counts
<1>2. IsFiniteSet(U) /\ Cardinality(U) = Chunks(v, S) /\ Chunks(v, S) \in Nat
  BY ChunksFinite DEF Chunks
<1>3. IsFiniteSet(X) /\ Cardinality(X) = v[x]
  BY <1>1, UnitsOfOne
<1>4. U \cap X = {}
  OBVIOUS
<1>5. UNION {{b} \X (1 .. v[b]) : b \in S \cup {x}} = U \cup X
  OBVIOUS
<1> HIDE DEF U, X
<1>6. Cardinality(U \cup X) = Cardinality(U) + Cardinality(X) - Cardinality(U \cap X)
  BY <1>2, <1>3, FS_Union
<1>7. Cardinality(U \cap X) = 0
  BY <1>4, FS_EmptySet
<1>8. Chunks(v, S \cup {x}) = Cardinality(U \cup X)
  BY <1>5 DEF Chunks
<1> QED BY <1>1, <1>2, <1>3, <1>6, <1>7, <1>8

LEMMA ChunksSame ==
  ASSUME NEW v, NEW w, NEW S, \A b \in S : v[b] = w[b]
  PROVE  Chunks(v, S) = Chunks(w, S)
<1>1. UNION {{b} \X (1 .. v[b]) : b \in S} = UNION {{b} \X (1 .. w[b]) : b \in S}
  OBVIOUS
<1> QED BY <1>1 DEF Chunks

-----------------------------------------------------------------------------
(* The places in a song. *)

(* The buffers of a song before a key. *)
Parts(p, s, k) == {c \in BuffersOf(p, s) : p.buf[c].key < k}
HeardIn(p) == [c \in Buffers |-> Heard(p, c)]
WrittenIn(p) == [c \in Buffers |-> p.buf[c].written]

LEMMA CountsType ==
  ASSUME NEW p, Sound(p), Bounded(p)
  PROVE  /\ HeardIn(p) \in Counts /\ WrittenIn(p) \in Counts
         /\ \A b \in Buffers : /\ p.buf[b].read \in Nat /\ p.buf[b].written \in Nat
                               /\ p.buf[b].key \in Nat /\ p.buf[b].status \in Nat
                               /\ Heard(p, b) \in Nat
         /\ BufferSize \in Nat
<1>1. \A b \in Buffers : p.buf[b].read \in Nat /\ p.buf[b].written \in Nat
                         /\ p.buf[b].key \in Nat /\ p.buf[b].status \in Nat
  BY DEF Sound, Pools, BufferRecords
<1>2. BufferSize \in Nat
  BY PoolAssumption
<1>3. \A b \in Buffers : p.buf[b].read \in 0 .. BufferSize /\ p.buf[b].written \in 0 .. BufferSize
  BY <1>1, <1>2 DEF Bounded
<1> QED BY <1>1, <1>2, <1>3 DEF HeardIn, WrittenIn, Heard, Counts

LEMMA SongBuffers ==
  ASSUME NEW p, NEW s
  PROVE  /\ BuffersOf(p, s) \subseteq Buffers
         /\ \A b \in BuffersOf(p, s) : SongIn(p, b) = s
         /\ \A k : Parts(p, s, k) \in SUBSET Buffers
BY DEF BuffersOf, SongIn, Parts

LEMMA BeginChunks ==
  ASSUME NEW p, Sound(p), Bounded(p), NEW s, NEW b \in BuffersOf(p, s)
  PROVE  /\ Begin(p, b) = Chunks(HeardIn(p), Parts(p, s, p.buf[b].key))
         /\ Begin(p, b) \in Nat /\ Place(p, b) \in Nat
<1>1. SongIn(p, b) = s /\ b \in Buffers
  BY SongBuffers
<1> DEFINE S == Parts(p, s, p.buf[b].key)
<1>2. S \in SUBSET Buffers
  BY SongBuffers
<1>3. \A c \in S : HeardIn(p)[c] = Heard(p, c)
  BY <1>2 DEF HeardIn
<1>4. UNION {{c} \X (1 .. Heard(p, c)) : c \in S} = UNION {{c} \X (1 .. HeardIn(p)[c]) : c \in S}
  BY <1>3
<1>5. Begin(p, b) = Cardinality(UNION {{c} \X (1 .. Heard(p, c)) : c \in S})
  BY <1>1 DEF Begin, Sum, Units, Parts
<1>6. Begin(p, b) = Chunks(HeardIn(p), S)
  BY <1>4, <1>5 DEF Chunks
<1> HIDE DEF S
<1>7. Begin(p, b) \in Nat
  BY <1>2, <1>6, CountsType, ChunksFinite
<1> QED BY <1>1, <1>6, <1>7, CountsType DEF Place, S

LEMMA PartsNext ==
  ASSUME NEW p, Sound(p), NEW s, NEW b \in BuffersOf(p, s), NEW c \in BuffersOf(p, s),
         p.buf[b].key < p.buf[c].key,
         \A d \in BuffersOf(p, s) : p.buf[b].key < p.buf[d].key => p.buf[c].key <= p.buf[d].key
  PROVE  /\ Parts(p, s, p.buf[c].key) = Parts(p, s, p.buf[b].key) \cup {b}
         /\ b \notin Parts(p, s, p.buf[b].key)
<1>1. \A d \in BuffersOf(p, s) : d \in Allocated(p) /\ p.buf[d].key \in Nat
  BY BuffersOfType
<1>2. \A d \in BuffersOf(p, s) : p.buf[d].key = p.buf[b].key => d = b
  BY <1>1 DEF Sound, Keyed
<1>3. ASSUME NEW d \in BuffersOf(p, s)
      PROVE  p.buf[d].key < p.buf[c].key <=> p.buf[d].key < p.buf[b].key \/ d = b
  BY <1>1, <1>2
<1>4. ~(p.buf[b].key < p.buf[b].key)
  BY <1>1
<1> QED BY <1>3, <1>4 DEF Parts

LEMMA BeginNext ==
  ASSUME NEW p, Sound(p), Bounded(p), NEW s, NEW b \in BuffersOf(p, s), NEW c \in BuffersOf(p, s),
         p.buf[b].key < p.buf[c].key,
         \A d \in BuffersOf(p, s) : p.buf[b].key < p.buf[d].key => p.buf[c].key <= p.buf[d].key
  PROVE  Begin(p, c) = Begin(p, b) + Heard(p, b)
<1>1. /\ Parts(p, s, p.buf[c].key) = Parts(p, s, p.buf[b].key) \cup {b}
      /\ b \notin Parts(p, s, p.buf[b].key)
  BY PartsNext
<1>2. b \in Buffers /\ Parts(p, s, p.buf[b].key) \in SUBSET Buffers
  BY SongBuffers
<1>3. HeardIn(p) \in Counts /\ HeardIn(p)[b] = Heard(p, b)
  BY <1>2, CountsType DEF HeardIn
<1>4. Chunks(HeardIn(p), Parts(p, s, p.buf[c].key)) = Chunks(HeardIn(p), Parts(p, s, p.buf[b].key)) + Heard(p, b)
  BY <1>1, <1>2, <1>3, ChunksAdd
<1> QED BY <1>4, BeginChunks

LEMMA BeginSame ==
  ASSUME NEW p, NEW q, Sound(p), Bounded(p), Sound(q), Bounded(q), Same(p, q),
         NEW s, NEW b \in BuffersOf(p, s),
         \A c \in Parts(p, s, p.buf[b].key) : Heard(q, c) = Heard(p, c)
  PROVE  Begin(q, b) = Begin(p, b)
<1>1. b \in BuffersOf(q, s) /\ BuffersOf(q, s) = BuffersOf(p, s) /\ b \in Buffers
  BY SameOrder, SongBuffers
<1>2. Parts(q, s, q.buf[b].key) = Parts(p, s, p.buf[b].key)
  BY <1>1, SongBuffers DEF Parts, Same
<1>3. Parts(p, s, p.buf[b].key) \in SUBSET Buffers
  BY SongBuffers
<1>4. \A c \in Parts(p, s, p.buf[b].key) : HeardIn(q)[c] = HeardIn(p)[c]
  BY <1>3 DEF HeardIn
<1>5. Chunks(HeardIn(q), Parts(p, s, p.buf[b].key)) = Chunks(HeardIn(p), Parts(p, s, p.buf[b].key))
  BY <1>4, ChunksSame
<1> QED BY <1>1, <1>2, <1>5, BeginChunks

-----------------------------------------------------------------------------
(* The neighbours of a buffer. *)

LEMMA OneOfSet == ASSUME NEW found, OneOf(found) # Nil PROVE OneOf(found) \in found
BY DEF OneOf

LEMMA ForwardNext ==
  ASSUME NEW p, Sound(p), Bounded(p), NEW s, NEW b \in BuffersOf(p, s), NEW c,
         c = ForwardBuffer(p, b, s), c # Nil
  PROVE  /\ c \in BuffersOf(p, s) /\ c \in Buffers /\ p.buf[c].status \in {EBS_LOADED, EBS_PLAYED}
         /\ p.buf[b].key < p.buf[c].key
         /\ \A d \in BuffersOf(p, s) : p.buf[b].key < p.buf[d].key => p.buf[c].key <= p.buf[d].key
         /\ Begin(p, c) = Begin(p, b) + Heard(p, b)
<1> DEFINE ahead == {d \in Buffers : p.buf[d].key > p.buf[b].key}
           found == {d \in ahead : Jumpable(p, d, s) /\ \A e \in ahead : p.buf[e].key >= p.buf[d].key}
<1>1. c = OneOf(found)
  BY DEF ForwardBuffer
<1> HIDE DEF found
<1>2. c \in found
  BY <1>1, OneOfSet
<1>3. /\ c \in Buffers /\ p.buf[c].key > p.buf[b].key /\ Jumpable(p, c, s)
      /\ \A e \in ahead : p.buf[e].key >= p.buf[c].key
  BY <1>2 DEF found
<1>4. \A d \in Buffers : p.buf[d].key \in Nat
  BY CountsType
<1>5. b \in Buffers /\ BuffersOf(p, s) \subseteq Buffers
  BY SongBuffers
<1>6. \A d \in BuffersOf(p, s) : p.buf[b].key < p.buf[d].key => p.buf[c].key <= p.buf[d].key
  BY <1>3, <1>4, <1>5
<1>7. c \in BuffersOf(p, s) /\ p.buf[c].status \in {EBS_LOADED, EBS_PLAYED} /\ p.buf[b].key < p.buf[c].key
  BY <1>3, <1>4, <1>5 DEF Jumpable
<1> QED BY <1>3, <1>6, <1>7, BeginNext

LEMMA RewindNext ==
  ASSUME NEW p, Sound(p), Bounded(p), NEW s, NEW b \in BuffersOf(p, s), NEW c,
         c = RewindBuffer(p, b, s), c # Nil
  PROVE  /\ c \in BuffersOf(p, s) /\ c \in Buffers /\ p.buf[c].status \in {EBS_LOADED, EBS_PLAYED}
         /\ p.buf[c].key < p.buf[b].key
         /\ \A d \in BuffersOf(p, s) : p.buf[c].key < p.buf[d].key => p.buf[b].key <= p.buf[d].key
         /\ Begin(p, b) = Begin(p, c) + p.buf[c].written
<1> DEFINE behind == {d \in Buffers : p.buf[d].key < p.buf[b].key}
           found == {d \in behind : Jumpable(p, d, s) /\ \A e \in behind : p.buf[e].key <= p.buf[d].key}
<1>1. c = OneOf(found)
  BY DEF RewindBuffer
<1> HIDE DEF found
<1>2. c \in found
  BY <1>1, OneOfSet
<1>3. /\ c \in Buffers /\ p.buf[c].key < p.buf[b].key /\ Jumpable(p, c, s)
      /\ \A e \in behind : p.buf[e].key <= p.buf[c].key
  BY <1>2 DEF found
<1>4. \A d \in Buffers : p.buf[d].key \in Nat
  BY CountsType
<1>5. b \in Buffers /\ BuffersOf(p, s) \subseteq Buffers
  BY SongBuffers
<1>6. \A d \in BuffersOf(p, s) : p.buf[c].key < p.buf[d].key => p.buf[b].key <= p.buf[d].key
  <2> SUFFICES ASSUME NEW d \in BuffersOf(p, s), p.buf[c].key < p.buf[d].key, ~(p.buf[b].key <= p.buf[d].key)
               PROVE  FALSE
    OBVIOUS
  <2>1. d \in Buffers /\ p.buf[d].key < p.buf[b].key
    BY <1>4, <1>5
  <2>2. p.buf[d].key <= p.buf[c].key
    BY <1>3, <2>1
  <2> QED BY <1>3, <1>4, <2>1, <2>2
<1>7. c \in BuffersOf(p, s) /\ p.buf[c].status \in {EBS_LOADED, EBS_PLAYED}
  BY <1>3 DEF Jumpable
<1>8. Heard(p, c) = p.buf[c].written
  BY <1>7 DEF Heard, EBS_LOADED, EBS_PLAYED, EBS_DRAINING
<1> QED BY <1>3, <1>6, <1>7, <1>8, BeginNext

-----------------------------------------------------------------------------
(* What a jump may change: readers and states of the buffers of its song, and
   the song's progress. *)

Alike(r, o) ==
  /\ r.key = o.key /\ r.track = o.track /\ r.first = o.first /\ r.last = o.last
  /\ r.alloc = o.alloc /\ r.written = o.written
  /\ o.status >= EBS_BUFFERED => r.status >= EBS_BUFFERED

Moves(p, q, S) ==
  /\ q \in Pools
  /\ q.key = p.key /\ q.free = p.free /\ q.allocated = p.allocated /\ q.empty = p.empty
  /\ \A d \in Buffers : Alike(q.buf[d], p.buf[d])
  /\ \A d \in Buffers \ S : q.buf[d] = p.buf[d]
  /\ \A t \in Songs : q.song[t].buffered = p.song[t].buffered

LEMMA MovesSound ==
  ASSUME NEW p, Sound(p), NEW s, NEW S \in SUBSET BuffersOf(p, s), NEW q, Moves(p, q, S)
  PROVE  Sound(q) /\ Keeps(p, q) /\ Same(p, q) /\ BuffersOf(q, s) = BuffersOf(p, s)
<1>1. \A d \in Buffers : ~p.buf[d].alloc => d \notin S
  BY BuffersOfType
<1>2. Updates(p, q)
  BY <1>1 DEF Updates, Moves, Alike
<1>3. Same(p, q)
  BY DEF Same, Moves, Alike
<1> QED BY <1>2, <1>3, UpdateSound, SameOrder

LEMMA ForcedType ==
  ASSUME NEW n \in 0 .. 9
  PROVE  /\ ForcedPlaying(n) \in 0 .. 9
         /\ n >= EBS_BUFFERED => ForcedPlaying(n) >= EBS_BUFFERED
BY DEF ForcedPlaying, EBS_BUFFERED, EBS_PLAYING

(* A jump within the buffer. *)
PutAt(p, b, s, r, m) == [p EXCEPT !.buf[b].read = r, !.song[s].read = m]
IsPutAt(p, q, b, s, r, m) ==
  /\ Moves(p, q, {b})
  /\ q.buf[b].read = r /\ q.buf[b].status = p.buf[b].status /\ q.song[s].read = m

LEMMA InPlaceMoves ==
  ASSUME NEW p, Sound(p), NEW b \in Buffers, NEW s \in Songs, NEW r \in Nat, NEW m \in Int
  PROVE  IsPutAt(p, PutAt(p, b, s, r, m), b, s, r, m)
<1> DEFINE q == PutAt(p, b, s, r, m)
<1>0. q = PutAt(p, b, s, r, m)
  OBVIOUS
<1> HIDE DEF q
<1>1. p \in Pools /\ p.buf \in [Buffers -> BufferRecords] /\ p.song \in [Songs -> SongRecords]
  BY DEF Sound, Pools
<1>2. /\ q.buf = [p.buf EXCEPT ![b] = [p.buf[b] EXCEPT !.read = r]]
      /\ q.song = [p.song EXCEPT ![s] = [p.song[s] EXCEPT !.read = m]]
      /\ q.key = p.key /\ q.free = p.free /\ q.allocated = p.allocated /\ q.empty = p.empty
      /\ q = [buf |-> q.buf, song |-> q.song, key |-> q.key, free |-> q.free,
              allocated |-> q.allocated, empty |-> q.empty]
  BY <1>0, <1>1 DEF Pools, PutAt
<1>3. [p.buf[b] EXCEPT !.read = r] \in BufferRecords /\ q.buf \in [Buffers -> BufferRecords]
  BY <1>1, <1>2 DEF BufferRecords
<1>4. [p.song[s] EXCEPT !.read = m] \in SongRecords /\ q.song \in [Songs -> SongRecords]
  BY <1>1, <1>2 DEF SongRecords
<1>5. q \in Pools
  BY <1>1, <1>2, <1>3, <1>4 DEF Pools
<1>6. \A d \in Buffers : Alike(q.buf[d], p.buf[d])
  BY <1>1, <1>2 DEF Alike, BufferRecords
<1>7. \A t \in Songs : q.song[t].buffered = p.song[t].buffered
  BY <1>1, <1>2 DEF SongRecords
<1>8. q.buf[b].read = r /\ q.buf[b].status = p.buf[b].status
  BY <1>1, <1>2 DEF BufferRecords
<1>9. q.song[s].read = m
  BY <1>1, <1>2 DEF SongRecords
<1>10. \A d \in Buffers \ {b} : q.buf[d] = p.buf[d]
  BY <1>1, <1>2
<1> QED BY <1>2, <1>5, <1>6, <1>7, <1>8, <1>9, <1>10 DEF Moves, IsPutAt, q

(* A jump from one buffer into another. *)
PutInto(p, q, b, before, c, after, s, m) ==
  /\ q \in Pools
  /\ q.buf = [p.buf EXCEPT ![b] = before, ![c] = after]
  /\ q.song = [p.song EXCEPT ![s].read = m]
  /\ q.key = p.key /\ q.free = p.free /\ q.allocated = p.allocated /\ q.empty = p.empty
IsPutInto(p, q, b, before, c, after, s, m) ==
  Moves(p, q, {b, c}) /\ q.buf[b] = before /\ q.buf[c] = after /\ q.song[s].read = m

LEMMA IntoMoves ==
  ASSUME NEW p, Sound(p), NEW b \in Buffers, NEW c \in Buffers, b # c, NEW s \in Songs,
         NEW before, NEW after, NEW m,
         Alike(before, p.buf[b]), Alike(after, p.buf[c]),
         NEW q, PutInto(p, q, b, before, c, after, s, m)
  PROVE  IsPutInto(p, q, b, before, c, after, s, m)
<1>1. p.buf \in [Buffers -> BufferRecords] /\ p.song \in [Songs -> SongRecords]
  BY DEF Sound, Pools
<1>2. /\ q.buf[b] = before /\ q.buf[c] = after
      /\ \A d \in Buffers \ {b, c} : q.buf[d] = p.buf[d]
  BY <1>1 DEF PutInto
<1>3. \A d \in Buffers : Alike(p.buf[d], p.buf[d])
  BY DEF Alike
<1>4. \A d \in Buffers : Alike(q.buf[d], p.buf[d])
  BY <1>2, <1>3
<1>5. (\A t \in Songs : q.song[t].buffered = p.song[t].buffered) /\ q.song[s].read = m
  BY <1>1 DEF SongRecords, PutInto
<1> QED BY <1>2, <1>4, <1>5 DEF Moves, PutInto, IsPutInto

-----------------------------------------------------------------------------
(* What is proved of the four jumps.  The place goes on to be what the song
   counts, and the order to be the one that playback needs. *)

Landed(p, j, b, s) ==
  /\ Moves(p, j.pool, BuffersOf(p, s))
  /\ Bounded(j.pool)
  /\ j.buffer \in BuffersOf(p, s)
  /\ InOrder(p, b) => InOrder(j.pool, j.buffer)
  /\ p.song[s].read = Place(p, b) => j.pool.song[s].read = Place(j.pool, j.buffer)

LEMMA StayLands ==
  ASSUME NEW p, Sound(p), Bounded(p), NEW s, NEW b \in BuffersOf(p, s)
  PROVE  Landed(p, Failed(p, b), b, s) /\ Landed(p, Done(p, b), b, s)
<1>1. Moves(p, p, BuffersOf(p, s))
  BY DEF Moves, Alike, Sound
<1> QED BY <1>1 DEF Landed, Failed, Done

LEMMA MovesMore ==
  ASSUME NEW p, NEW q, NEW S, NEW T, Moves(p, q, S), S \subseteq T
  PROVE  Moves(p, q, T)
BY DEF Moves

LEMMA InPlaceLands ==
  ASSUME NEW p, Sound(p), Bounded(p), NEW s \in Songs, NEW b \in BuffersOf(p, s),
         NEW r \in Nat, NEW m \in Int, r <= p.buf[b].written, m - p.song[s].read = r - p.buf[b].read,
         NEW q, q = PutAt(p, b, s, r, m)
  PROVE  Landed(p, Done(q, b), b, s)
<1>1. b \in Buffers /\ SongIn(p, b) = s
  BY SongBuffers
<1>2. /\ Moves(p, q, {b})
      /\ q.buf[b].read = r /\ q.buf[b].status = p.buf[b].status /\ q.song[s].read = m
  <2>1. IsPutAt(p, PutAt(p, b, s, r, m), b, s, r, m)
    BY <1>1, InPlaceMoves
  <2> QED BY <2>1 DEF IsPutAt
<1>3. Sound(q) /\ Same(p, q) /\ BuffersOf(q, s) = BuffersOf(p, s) /\ Moves(p, q, BuffersOf(p, s))
  BY <1>2, MovesSound, MovesMore
<1>4. \A d \in Buffers \ {b} : q.buf[d] = p.buf[d]
  BY <1>2 DEF Moves
<1>5. Bounded(q)
  BY <1>1, <1>2, <1>4 DEF Bounded, Moves, Alike
<1>6. SongIn(q, b) = s
  BY <1>3, SongBuffers
<1>7. InOrder(p, b) => InOrder(q, b)
  <2>1. BuffersOf(p, s) \subseteq Buffers /\ q.buf[b].key = p.buf[b].key
    BY <1>1, <1>2 DEF Moves, Alike, BuffersOf
  <2> QED BY <1>1, <1>3, <1>4, <1>6, <2>1 DEF InOrder
<1>8. Begin(q, b) = Begin(p, b)
  <2>1. \A d \in Parts(p, s, p.buf[b].key) : d \in Buffers \ {b}
    BY CountsType, SongBuffers DEF Parts
  <2>2. \A d \in Parts(p, s, p.buf[b].key) : Heard(q, d) = Heard(p, d)
    BY <1>4, <2>1 DEF Heard
  <2> QED BY <1>3, <1>5, <2>2, BeginSame
<1>9. p.song[s].read = Place(p, b) => q.song[s].read = Place(q, b)
  <2>1. Begin(p, b) \in Nat /\ p.buf[b].read \in Nat /\ p.song[s].read \in Int
    BY <1>1, BeginChunks, CountsType DEF Sound, Pools, SongRecords
  <2> QED BY <1>2, <1>8, <2>1 DEF Place
<1> QED BY <1>3, <1>5, <1>7, <1>9 DEF Landed, Done

LEMMA ForwardInPlaceLands ==
  ASSUME NEW p, Sound(p), Bounded(p), NEW s \in Songs, NEW b \in BuffersOf(p, s),
         p.buf[b].read + Skip[s] < p.buf[b].written
  PROVE  Landed(p, ForwardInPlace(p, b, s), b, s)
<1> DEFINE r == p.buf[b].read + Skip[s]
           m == p.song[s].read + Skip[s]
           q == PutAt(p, b, s, r, m)
<1>1. /\ p.buf[b].read \in Nat /\ p.buf[b].written \in Nat /\ Skip[s] \in Nat
      /\ p.song[s].read \in Int
  BY CountsType, SongBuffers, SeekAssumption DEF Sound, Pools, SongRecords
<1>2. r \in Nat /\ m \in Int /\ r <= p.buf[b].written /\ m - p.song[s].read = r - p.buf[b].read
  BY <1>1
<1>3. ForwardInPlace(p, b, s) = Done(q, b)
  BY SongBuffers DEF ForwardInPlace, PutAt
<1> HIDE DEF r, m, q
<1> QED BY <1>2, <1>3, InPlaceLands DEF q

LEMMA RewindInPlaceLands ==
  ASSUME NEW p, Sound(p), Bounded(p), NEW s \in Songs, NEW b \in BuffersOf(p, s),
         p.buf[b].read > Skip[s]
  PROVE  Landed(p, RewindInPlace(p, b, s), b, s)
<1> DEFINE r == p.buf[b].read - Skip[s]
           m == p.song[s].read - Skip[s]
           q == PutAt(p, b, s, r, m)
<1>1. /\ p.buf[b].read \in Nat /\ p.buf[b].written \in Nat /\ Skip[s] \in Nat
      /\ p.buf[b].read <= p.buf[b].written /\ p.song[s].read \in Int
  BY CountsType, SongBuffers, SeekAssumption DEF Sound, Pools, SongRecords, Bounded
<1>2. r \in Nat /\ m \in Int /\ r <= p.buf[b].written /\ m - p.song[s].read = r - p.buf[b].read
  BY <1>1
<1>3. RewindInPlace(p, b, s) = Done(q, b)
  BY SongBuffers DEF RewindInPlace, PutAt
<1> HIDE DEF r, m, q
<1> QED BY <1>2, <1>3, InPlaceLands DEF q

(* The two buffers of a jump into a neighbour. *)
ForwardedInto(p, q, b, c, s, over) ==
  /\ Moves(p, q, {b, c})
  /\ q.buf[b].status = EBS_PLAYED /\ q.buf[b].read = p.buf[b].read /\ q.buf[c].read = over
  /\ q.song[s].read = p.song[s].read + (p.buf[b].written - p.buf[b].read) + over
RewoundInto(p, q, b, c, s, over) ==
  /\ Moves(p, q, {b, c})
  /\ q.buf[b].status = EBS_LOADED /\ q.buf[b].read = 0
  /\ q.buf[c].read = p.buf[c].written - over
  /\ q.song[s].read = p.song[s].read - p.buf[b].read - over

LEMMA ForwardIntoMoves ==
  ASSUME NEW p, Sound(p), NEW b \in Buffers, NEW c \in Buffers, b # c, NEW s \in Songs,
         NEW over \in Nat
  PROVE  ForwardedInto(p, ForwardInto(p, b, c, s, over).pool, b, c, s, over)
<1> DEFINE q == ForwardInto(p, b, c, s, over).pool
<1>1. p \in Pools /\ p.buf \in [Buffers -> BufferRecords] /\ p.song \in [Songs -> SongRecords]
  BY DEF Sound, Pools
<1>2. /\ p.buf[b] \in BufferRecords /\ p.buf[c] \in BufferRecords
      /\ p.buf[b].read \in Nat /\ p.buf[b].written \in Nat
      /\ p.song[s].read \in Int /\ p.buf[c].status \in 0 .. 9
  BY <1>1 DEF BufferRecords, SongRecords
<1> DEFINE before == [p.buf[b] EXCEPT !.status = EBS_PLAYED]
           after == [p.buf[c] EXCEPT !.status = ForcedPlaying(p.buf[c].status), !.read = over]
           m == p.song[s].read + (p.buf[b].written - p.buf[b].read) + over
<1>3. /\ before \in BufferRecords /\ Alike(before, p.buf[b])
      /\ before.status = EBS_PLAYED /\ before.read = p.buf[b].read
  BY <1>2, StatusType DEF BufferRecords, Alike, EBS_BUFFERED, EBS_PLAYED
<1>4. after \in BufferRecords /\ Alike(after, p.buf[c]) /\ after.read = over
  BY <1>2, ForcedType DEF BufferRecords, Alike
<1>5. /\ q.buf = [p.buf EXCEPT ![b] = before, ![c] = after]
      /\ q.song = [p.song EXCEPT ![s].read = m]
      /\ q.key = p.key /\ q.free = p.free /\ q.allocated = p.allocated /\ q.empty = p.empty
      /\ q = [buf |-> q.buf, song |-> q.song, key |-> q.key, free |-> q.free,
              allocated |-> q.allocated, empty |-> q.empty]
  BY <1>1, <1>2 DEF ForwardInto, Done, Pools
<1>6. m \in Int
  BY <1>2
<1> HIDE DEF before, after, m, q
<1>7. q \in Pools
  <2>1. q.buf \in [Buffers -> BufferRecords]
    BY <1>1, <1>3, <1>4, <1>5
  <2>2. q.song \in [Songs -> SongRecords]
    BY <1>1, <1>5, <1>6 DEF SongRecords
  <2> QED BY <1>1, <1>5, <2>1, <2>2 DEF Pools
<1>8. PutInto(p, q, b, before, c, after, s, m)
  BY <1>5, <1>7 DEF PutInto
<1>9. IsPutInto(p, q, b, before, c, after, s, m)
  BY <1>3, <1>4, <1>8, IntoMoves
<1> QED BY <1>3, <1>4, <1>9 DEF m, IsPutInto, ForwardedInto, q

LEMMA RewindIntoMoves ==
  ASSUME NEW p, Sound(p), NEW b \in Buffers, NEW c \in Buffers, b # c, NEW s \in Songs,
         NEW over \in Nat, over <= p.buf[c].written
  PROVE  RewoundInto(p, RewindInto(p, b, c, s, over).pool, b, c, s, over)
<1> DEFINE q == RewindInto(p, b, c, s, over).pool
<1>1. p \in Pools /\ p.buf \in [Buffers -> BufferRecords] /\ p.song \in [Songs -> SongRecords]
  BY DEF Sound, Pools
<1>2. /\ p.buf[b] \in BufferRecords /\ p.buf[c] \in BufferRecords
      /\ p.buf[b].read \in Nat /\ p.buf[c].written \in Nat
      /\ p.song[s].read \in Int /\ p.buf[c].status \in 0 .. 9
  BY <1>1 DEF BufferRecords, SongRecords
<1> DEFINE r == p.buf[c].written - over
           before == [p.buf[b] EXCEPT !.status = EBS_LOADED, !.read = 0]
           after == [p.buf[c] EXCEPT !.status = ForcedPlaying(p.buf[c].status), !.read = r]
           m == p.song[s].read - p.buf[b].read - over
<1>3. r \in Nat /\ m \in Int
  BY <1>2
<1>4. /\ before \in BufferRecords /\ Alike(before, p.buf[b])
      /\ before.status = EBS_LOADED /\ before.read = 0
  <2>1. before \in BufferRecords /\ before.status = EBS_LOADED /\ before.read = 0
    BY <1>2, StatusType DEF BufferRecords
  <2>2. EBS_LOADED >= EBS_BUFFERED
    BY DEF EBS_LOADED, EBS_BUFFERED
  <2> QED BY <1>2, <2>1, <2>2 DEF BufferRecords, Alike
<1>5. after \in BufferRecords /\ Alike(after, p.buf[c]) /\ after.read = r
  <2> HIDE DEF r
  <2> QED BY <1>2, <1>3, ForcedType DEF BufferRecords, Alike
<1>6. /\ q.buf = [p.buf EXCEPT ![b] = before, ![c] = after]
      /\ q.song = [p.song EXCEPT ![s].read = m]
      /\ q.key = p.key /\ q.free = p.free /\ q.allocated = p.allocated /\ q.empty = p.empty
      /\ q = [buf |-> q.buf, song |-> q.song, key |-> q.key, free |-> q.free,
              allocated |-> q.allocated, empty |-> q.empty]
  BY <1>1, <1>2 DEF RewindInto, Done, Pools
<1> HIDE DEF before, after, m, q
<1>7. q \in Pools
  <2>1. q.buf \in [Buffers -> BufferRecords]
    BY <1>1, <1>4, <1>5, <1>6
  <2>2. q.song \in [Songs -> SongRecords]
    BY <1>1, <1>3, <1>6 DEF SongRecords
  <2> QED BY <1>1, <1>6, <2>1, <2>2 DEF Pools
<1>8. PutInto(p, q, b, before, c, after, s, m)
  BY <1>6, <1>7 DEF PutInto
<1>9. IsPutInto(p, q, b, before, c, after, s, m)
  BY <1>4, <1>5, <1>8, IntoMoves
<1> QED BY <1>4, <1>5, <1>9 DEF m, IsPutInto, RewoundInto, q

LEMMA OneKey ==
  ASSUME NEW p, Sound(p), NEW s, NEW b \in BuffersOf(p, s), NEW c \in BuffersOf(p, s),
         p.buf[b].key = p.buf[c].key
  PROVE  b = c
BY BuffersOfType DEF Sound, Keyed

LEMMA ForwardIntoLands ==
  ASSUME NEW p, Sound(p), Bounded(p), NEW s \in Songs, NEW b \in BuffersOf(p, s),
         NEW c, c = ForwardBuffer(p, b, s), c # Nil, NEW over \in Nat, over <= p.buf[c].written
  PROVE  Landed(p, ForwardInto(p, b, c, s, over), b, s)
<1> DEFINE q == ForwardInto(p, b, c, s, over).pool
<1>1. /\ b \in Buffers /\ SongIn(p, b) = s /\ c \in BuffersOf(p, s) /\ c \in Buffers
      /\ p.buf[b].key < p.buf[c].key
      /\ \A d \in BuffersOf(p, s) : p.buf[b].key < p.buf[d].key => p.buf[c].key <= p.buf[d].key
  BY ForwardNext, SongBuffers
<1>2. \A d \in Buffers : /\ p.buf[d].key \in Nat /\ p.buf[d].read \in Nat
                         /\ p.buf[d].written \in Nat /\ p.buf[d].status \in Nat
  BY CountsType
<1>3. b # c
  BY <1>1, <1>2
<1>4. ForwardedInto(p, q, b, c, s, over)
  BY <1>1, <1>3, ForwardIntoMoves
<1> HIDE DEF q
<1>5. Sound(q) /\ Same(p, q) /\ BuffersOf(q, s) = BuffersOf(p, s) /\ Moves(p, q, BuffersOf(p, s))
  <2>1. {b, c} \in SUBSET BuffersOf(p, s)
    BY <1>1
  <2> QED BY <1>4, <2>1, MovesSound, MovesMore DEF ForwardedInto
<1>6. \A d \in Buffers : q.buf[d].key = p.buf[d].key /\ q.buf[d].written = p.buf[d].written
  BY <1>5 DEF Same
<1>7. \A d \in Buffers \ {b, c} : q.buf[d] = p.buf[d]
  BY <1>4 DEF Moves, ForwardedInto
<1>8. Bounded(q)
  BY <1>1, <1>4, <1>6, <1>7 DEF Bounded, ForwardedInto
<1>9. SongIn(q, c) = s
  BY <1>1, <1>5, SongBuffers
<1>10. ASSUME InOrder(p, b) PROVE InOrder(q, c)
  <2> SUFFICES ASSUME NEW d \in BuffersOf(p, s), d # c, q.buf[d].written > 0
               PROVE  IF q.buf[d].key < q.buf[c].key
                      THEN q.buf[d].status \in {EBS_DRAINING, EBS_PLAYED}
                      ELSE q.buf[d].status < EBS_PLAYING /\ q.buf[d].read = 0
    BY <1>5, <1>9 DEF InOrder
  <2>1. d \in Buffers
    BY SongBuffers
  <2>2. CASE d = b
    BY <1>1, <1>4, <1>6, <2>1, <2>2 DEF ForwardedInto
  <2>3. CASE d # b
    <3>1. q.buf[d] = p.buf[d]
      BY <1>7, <2>1, <2>3
    <3>2. IF p.buf[d].key < p.buf[b].key
          THEN p.buf[d].status \in {EBS_DRAINING, EBS_PLAYED}
          ELSE p.buf[d].status < EBS_PLAYING /\ p.buf[d].read = 0
      BY <1>1, <1>10, <2>3, <3>1 DEF InOrder
    <3>3. p.buf[d].key < p.buf[c].key <=> p.buf[d].key < p.buf[b].key
      <4>1. p.buf[d].key # p.buf[b].key
        BY <2>3, OneKey
      <4> QED BY <1>1, <1>2, <2>1, <4>1
    <3> QED BY <1>1, <1>6, <3>1, <3>2, <3>3
  <2> QED BY <2>2, <2>3
<1>11. Begin(q, b) = Begin(p, b)
  <2>1. \A d \in Parts(p, s, p.buf[b].key) : d \in Buffers \ {b, c}
    BY <1>1, <1>2, SongBuffers DEF Parts
  <2>2. \A d \in Parts(p, s, p.buf[b].key) : Heard(q, d) = Heard(p, d)
    BY <1>7, <2>1 DEF Heard
  <2> QED BY <1>5, <1>8, <2>2, BeginSame
<1>12. Begin(q, c) = Begin(q, b) + p.buf[b].written
  <2>1. /\ b \in BuffersOf(q, s) /\ c \in BuffersOf(q, s) /\ q.buf[b].key < q.buf[c].key
        /\ \A d \in BuffersOf(q, s) : q.buf[b].key < q.buf[d].key => q.buf[c].key <= q.buf[d].key
    BY <1>1, <1>5, <1>6, SongBuffers
  <2>2. Begin(q, c) = Begin(q, b) + Heard(q, b)
    BY <1>5, <1>8, <2>1, BeginNext
  <2> QED BY <1>1, <1>4, <1>6, <2>2 DEF Heard, EBS_PLAYED, EBS_DRAINING, ForwardedInto
<1>13. p.song[s].read = Place(p, b) => q.song[s].read = Place(q, c)
  <2>1. Begin(p, b) \in Nat
    BY BeginChunks
  <2> QED BY <1>1, <1>2, <1>4, <1>11, <1>12, <2>1 DEF Place, ForwardedInto
<1>14. ForwardInto(p, b, c, s, over).buffer = c
  BY DEF ForwardInto, Done
<1> QED BY <1>1, <1>5, <1>8, <1>10, <1>13, <1>14 DEF Landed, q

LEMMA RewindIntoLands ==
  ASSUME NEW p, Sound(p), Bounded(p), NEW s \in Songs, NEW b \in BuffersOf(p, s),
         NEW c, c = RewindBuffer(p, b, s), c # Nil, NEW over \in Nat, over <= p.buf[c].written
  PROVE  Landed(p, RewindInto(p, b, c, s, over), b, s)
<1> DEFINE q == RewindInto(p, b, c, s, over).pool
<1>1. /\ b \in Buffers /\ SongIn(p, b) = s /\ c \in BuffersOf(p, s) /\ c \in Buffers
      /\ p.buf[c].key < p.buf[b].key
      /\ \A d \in BuffersOf(p, s) : p.buf[c].key < p.buf[d].key => p.buf[b].key <= p.buf[d].key
      /\ Begin(p, b) = Begin(p, c) + p.buf[c].written
  BY RewindNext, SongBuffers
<1>2. \A d \in Buffers : /\ p.buf[d].key \in Nat /\ p.buf[d].read \in Nat
                         /\ p.buf[d].written \in Nat /\ p.buf[d].status \in Nat
  BY CountsType
<1>3. b # c
  BY <1>1, <1>2
<1>4. RewoundInto(p, q, b, c, s, over)
  BY <1>1, <1>3, RewindIntoMoves
<1> HIDE DEF q
<1>5. Sound(q) /\ Same(p, q) /\ BuffersOf(q, s) = BuffersOf(p, s) /\ Moves(p, q, BuffersOf(p, s))
  <2>1. {b, c} \in SUBSET BuffersOf(p, s)
    BY <1>1
  <2> QED BY <1>4, <2>1, MovesSound, MovesMore DEF RewoundInto
<1>6. \A d \in Buffers : q.buf[d].key = p.buf[d].key /\ q.buf[d].written = p.buf[d].written
  BY <1>5 DEF Same
<1>7. \A d \in Buffers \ {b, c} : q.buf[d] = p.buf[d]
  BY <1>4 DEF Moves, RewoundInto
<1>8. Bounded(q)
  BY <1>1, <1>2, <1>4, <1>6, <1>7 DEF Bounded, RewoundInto
<1>9. SongIn(q, c) = s
  BY <1>1, <1>5, SongBuffers
<1>10. ASSUME InOrder(p, b) PROVE InOrder(q, c)
  <2> SUFFICES ASSUME NEW d \in BuffersOf(p, s), d # c, q.buf[d].written > 0
               PROVE  IF q.buf[d].key < q.buf[c].key
                      THEN q.buf[d].status \in {EBS_DRAINING, EBS_PLAYED}
                      ELSE q.buf[d].status < EBS_PLAYING /\ q.buf[d].read = 0
    BY <1>5, <1>9 DEF InOrder
  <2>1. d \in Buffers
    BY SongBuffers
  <2>2. CASE d = b
    <3>1. ~(q.buf[d].key < q.buf[c].key)
      BY <1>1, <1>2, <1>6, <2>2
    <3> QED BY <1>4, <2>2, <3>1 DEF EBS_LOADED, EBS_PLAYING, RewoundInto
  <2>3. CASE d # b
    <3>1. q.buf[d] = p.buf[d]
      BY <1>7, <2>1, <2>3
    <3>2. IF p.buf[d].key < p.buf[b].key
          THEN p.buf[d].status \in {EBS_DRAINING, EBS_PLAYED}
          ELSE p.buf[d].status < EBS_PLAYING /\ p.buf[d].read = 0
      BY <1>1, <1>10, <2>3, <3>1 DEF InOrder
    <3>3. p.buf[d].key < p.buf[c].key <=> p.buf[d].key < p.buf[b].key
      <4>1. p.buf[d].key # p.buf[c].key
        BY <1>1, OneKey
      <4> QED BY <1>1, <1>2, <2>1, <4>1
    <3> QED BY <1>1, <1>6, <3>1, <3>2, <3>3
  <2> QED BY <2>2, <2>3
<1>11. Begin(q, c) = Begin(p, c)
  <2>1. \A d \in Parts(p, s, p.buf[c].key) : d \in Buffers \ {b, c}
    BY <1>1, <1>2, SongBuffers DEF Parts
  <2>2. \A d \in Parts(p, s, p.buf[c].key) : Heard(q, d) = Heard(p, d)
    BY <1>7, <2>1 DEF Heard
  <2> QED BY <1>1, <1>5, <1>8, <2>2, BeginSame
<1>12. p.song[s].read = Place(p, b) => q.song[s].read = Place(q, c)
  <2>1. Begin(p, c) \in Nat
    BY <1>1, BeginChunks
  <2> QED BY <1>1, <1>2, <1>4, <1>11, <2>1 DEF Place, RewoundInto
<1>13. RewindInto(p, b, c, s, over).buffer = c
  BY DEF RewindInto, Done
<1> QED BY <1>1, <1>5, <1>8, <1>10, <1>12, <1>13 DEF Landed, q

-----------------------------------------------------------------------------
(* Jumps to a place: the buffer they find is the first that ends beyond it, so
   that the buffers before it end at or before it. *)

LEMMA LastInSet ==
  ASSUME NEW p, Sound(p), NEW s, NEW S \in SUBSET BuffersOf(p, s), S # {}
  PROVE  \E b \in S : \A c \in S : p.buf[c].key <= p.buf[b].key
<1> DEFINE After == {p.key - p.buf[b].key : b \in S}
<1>1. p.key \in Nat /\ \A b \in S : p.buf[b].key \in Nat /\ p.buf[b].key <= p.key
  BY BuffersOfType DEF Sound, Pools
<1>2. After \in SUBSET Nat /\ After # {}
  BY <1>1
<1>3. \E k \in After : \A l \in After : ~(<<l, k>> \in OpToRel(<, Nat))
  <2> HIDE DEF After
  <2> QED BY <1>2, NatLessThanWellFounded, WFMin
<1>4. \A k, l \in Nat : l < k => <<l, k>> \in OpToRel(<, Nat)
  BY DEF OpToRel
<1>5. PICK k \in After : \A l \in After : ~(<<l, k>> \in OpToRel(<, Nat))
  BY <1>3
<1>6. \A l \in After : ~(l < k) /\ l \in Nat /\ k \in Nat
  <2> HIDE DEF After
  <2> QED BY <1>2, <1>4, <1>5
<1>7. PICK b \in S : k = p.key - p.buf[b].key
  BY <1>5
<1>8. ASSUME NEW c \in S PROVE p.buf[c].key <= p.buf[b].key
  <2>1. ~(p.key - p.buf[c].key < p.key - p.buf[b].key)
    BY <1>6, <1>7
  <2> QED BY <1>1, <2>1
<1> QED BY <1>8

(* Where the music of a buffer ends. *)
EndOf(p, s, c) ==
  Sum({d \in BuffersOf(p, s) : p.buf[d].key <= p.buf[c].key}, LAMBDA d : p.buf[d].written)

LEMMA EndChunks ==
  ASSUME NEW p, Sound(p), Bounded(p), NEW s, NEW c \in BuffersOf(p, s)
  PROVE  /\ Chunks(WrittenIn(p), Parts(p, s, p.buf[c].key)) \in Nat
         /\ EndOf(p, s, c) = Chunks(WrittenIn(p), Parts(p, s, p.buf[c].key)) + p.buf[c].written
<1> DEFINE S == {d \in BuffersOf(p, s) : p.buf[d].key <= p.buf[c].key}
           P == Parts(p, s, p.buf[c].key)
<1>1. c \in Buffers /\ P \in SUBSET Buffers /\ S \in SUBSET Buffers
  BY SongBuffers
<1>2. \A d \in BuffersOf(p, s) : p.buf[d].key \in Nat
  BY BuffersOfType
<1>3. S = P \cup {c} /\ c \notin P
  BY <1>2, OneKey DEF Parts
<1>4. \A d \in S : WrittenIn(p)[d] = p.buf[d].written
  BY <1>1 DEF WrittenIn
<1>5. UNION {{d} \X (1 .. p.buf[d].written) : d \in S} = UNION {{d} \X (1 .. WrittenIn(p)[d]) : d \in S}
  BY <1>4
<1>6. EndOf(p, s, c) = Cardinality(UNION {{d} \X (1 .. p.buf[d].written) : d \in S})
  BY DEF EndOf, Sum, Units
<1>7. EndOf(p, s, c) = Chunks(WrittenIn(p), S)
  BY <1>5, <1>6 DEF Chunks
<1> HIDE DEF S, P
<1>8. WrittenIn(p) \in Counts /\ WrittenIn(p)[c] = p.buf[c].written
  BY <1>1, CountsType DEF WrittenIn
<1>9. Chunks(WrittenIn(p), P \cup {c}) = Chunks(WrittenIn(p), P) + p.buf[c].written
  BY <1>1, <1>3, <1>8, ChunksAdd
<1>10. Chunks(WrittenIn(p), P) \in Nat
  BY <1>1, <1>8, ChunksFinite
<1> QED BY <1>3, <1>7, <1>9, <1>10 DEF P

(* The first buffer to end beyond a place begins at it or before it. *)
LEMMA ReachingBegins ==
  ASSUME NEW p, Sound(p), Bounded(p), NEW s, NEW target \in Nat, NEW c \in BuffersOf(p, s),
         \A d \in BuffersOf(p, s) : p.buf[d].key < p.buf[c].key => ~(EndOf(p, s, d) > target)
  PROVE  Chunks(WrittenIn(p), Parts(p, s, p.buf[c].key)) <= target
<1> DEFINE P == Parts(p, s, p.buf[c].key)
<1>1. CASE P = {}
  <2>1. Chunks(WrittenIn(p), P) = 0
    BY <1>1, ChunksEmpty
  <2> QED BY <2>1
<1>2. CASE P # {}
  <2>1. P \in SUBSET BuffersOf(p, s)
    BY DEF Parts
  <2>2. PICK b \in P : \A d \in P : p.buf[d].key <= p.buf[b].key
    BY <1>2, <2>1, LastInSet
  <2>3. b \in BuffersOf(p, s) /\ p.buf[b].key < p.buf[c].key
    BY <2>2 DEF Parts
  <2>4. \A d \in BuffersOf(p, s) : p.buf[d].key \in Nat
    BY BuffersOfType
  <2>5. \A d \in BuffersOf(p, s) : p.buf[b].key < p.buf[d].key => p.buf[c].key <= p.buf[d].key
    BY <2>2, <2>3, <2>4 DEF Parts
  <2>6. P = Parts(p, s, p.buf[b].key) \cup {b} /\ b \notin Parts(p, s, p.buf[b].key)
    BY <2>3, <2>5, PartsNext
  <2>7. b \in Buffers /\ Parts(p, s, p.buf[b].key) \in SUBSET Buffers
    BY <2>3, SongBuffers
  <2>8. WrittenIn(p) \in Counts /\ WrittenIn(p)[b] = p.buf[b].written
    BY <2>7, CountsType DEF WrittenIn
  <2> HIDE DEF P
  <2>9. Chunks(WrittenIn(p), P) = Chunks(WrittenIn(p), Parts(p, s, p.buf[b].key)) + p.buf[b].written
    BY <2>6, <2>7, <2>8, ChunksAdd
  <2>10. EndOf(p, s, b) = Chunks(WrittenIn(p), P)
    BY <2>3, <2>9, EndChunks
  <2>11. EndOf(p, s, b) \in Nat
    BY <2>3, <2>7, EndChunks, CountsType
  <2> QED BY <2>3, <2>10, <2>11 DEF P
<1> QED BY <1>1, <1>2

SoughtIn(p, s, k, offset, target) ==
  [p EXCEPT !.buf = [c \in Buffers |->
                      IF c \in BuffersOf(p, s) THEN Sought(p.buf[c], k, offset) ELSE p.buf[c]],
            !.song[s].read = target]
IsSought(p, q, s, k, offset, target) ==
  /\ Moves(p, q, BuffersOf(p, s))
  /\ \A d \in BuffersOf(p, s) :
       /\ p.buf[d].key < k => q.buf[d].status = EBS_PLAYED /\ q.buf[d].read = 0
       /\ p.buf[d].key = k => q.buf[d].read = offset
       /\ p.buf[d].key > k => q.buf[d].status = EBS_LOADED /\ q.buf[d].read = 0
  /\ q.song[s].read = target

LEMMA SoughtMoves ==
  ASSUME NEW p, Sound(p), NEW s \in Songs, NEW k \in Nat, NEW offset \in Nat, NEW target \in Nat
  PROVE  IsSought(p, SoughtIn(p, s, k, offset, target), s, k, offset, target)
<1> DEFINE q == SoughtIn(p, s, k, offset, target)
           rec(d) == Sought(p.buf[d], k, offset)
           On(r) == [r EXCEPT !.read = offset, !.status = ForcedPlaying(r.status)]
<1>0. q = SoughtIn(p, s, k, offset, target)
  OBVIOUS
<1> HIDE DEF q
<1>1. p \in Pools /\ p.buf \in [Buffers -> BufferRecords] /\ p.song \in [Songs -> SongRecords]
  BY DEF Sound, Pools
<1>2. /\ q.buf = [c \in Buffers |-> IF c \in BuffersOf(p, s) THEN rec(c) ELSE p.buf[c]]
      /\ q.song = [p.song EXCEPT ![s].read = target]
      /\ q.key = p.key /\ q.free = p.free /\ q.allocated = p.allocated /\ q.empty = p.empty
      /\ q = [buf |-> q.buf, song |-> q.song, key |-> q.key, free |-> q.free,
              allocated |-> q.allocated, empty |-> q.empty]
  BY <1>0, <1>1 DEF SoughtIn, Pools
<1>3. ASSUME NEW d \in Buffers
      PROVE  /\ rec(d) \in BufferRecords /\ Alike(rec(d), p.buf[d])
             /\ p.buf[d].key < k => rec(d).status = EBS_PLAYED /\ rec(d).read = 0
             /\ p.buf[d].key = k => rec(d).read = offset
             /\ p.buf[d].key > k => rec(d).status = EBS_LOADED /\ rec(d).read = 0
  <2> DEFINE r == p.buf[d]
  <2>1. r \in BufferRecords /\ r.key \in Nat /\ r.status \in 0 .. 9
    BY <1>1 DEF BufferRecords
  <2> HIDE DEF r
  <2>2. CASE r.key < k
    <3>1. Sought(r, k, offset) = [r EXCEPT !.read = 0, !.status = EBS_PLAYED]
      BY <2>2 DEF Sought
    <3> DEFINE n == [r EXCEPT !.read = 0, !.status = EBS_PLAYED]
    <3>2. n \in BufferRecords /\ n.status = EBS_PLAYED /\ n.read = 0
      BY <2>1, StatusType DEF BufferRecords
    <3>3. EBS_PLAYED >= EBS_BUFFERED
      BY DEF EBS_PLAYED, EBS_BUFFERED
    <3>4. Alike(n, r)
      BY <2>1, <3>2, <3>3 DEF BufferRecords, Alike
    <3> QED BY <2>1, <2>2, <3>1, <3>2, <3>4 DEF r
  <2>3. CASE r.key = k
    <3>1. Sought(r, k, offset) = On(r)
      BY <2>1, <2>3 DEF Sought
    <3>2. On(r) \in BufferRecords /\ On(r).read = offset /\ Alike(On(r), r)
      BY <2>1, ForcedType DEF BufferRecords, Alike
    <3> HIDE DEF On
    <3> QED BY <2>1, <2>3, <3>1, <3>2 DEF r
  <2>4. CASE r.key > k
    <3>1. Sought(r, k, offset) = [r EXCEPT !.read = 0, !.status = EBS_LOADED]
      BY <2>1, <2>4 DEF Sought
    <3> DEFINE n == [r EXCEPT !.read = 0, !.status = EBS_LOADED]
    <3>2. n \in BufferRecords /\ n.status = EBS_LOADED /\ n.read = 0
      BY <2>1, StatusType DEF BufferRecords
    <3>3. EBS_LOADED >= EBS_BUFFERED
      BY DEF EBS_LOADED, EBS_BUFFERED
    <3>4. Alike(n, r)
      BY <2>1, <3>2, <3>3 DEF BufferRecords, Alike
    <3> QED BY <2>1, <2>4, <3>1, <3>2, <3>4 DEF r
  <2> QED BY <2>1, <2>2, <2>3, <2>4
<1> HIDE DEF rec
<1>4. \A d \in Buffers : Alike(p.buf[d], p.buf[d])
  BY DEF Alike
<1>5. \A d \in Buffers : q.buf[d] = IF d \in BuffersOf(p, s) THEN rec(d) ELSE p.buf[d]
  BY <1>2
<1>6. \A d \in Buffers : Alike(q.buf[d], p.buf[d])
  BY <1>3, <1>4, <1>5
<1>7. (\A t \in Songs : q.song[t].buffered = p.song[t].buffered) /\ q.song[s].read = target
  BY <1>1, <1>2 DEF SongRecords
<1>8. q \in Pools
  <2>1. q.buf \in [Buffers -> BufferRecords]
    BY <1>1, <1>2, <1>3
  <2>2. q.song \in [Songs -> SongRecords]
    BY <1>1, <1>2 DEF SongRecords
  <2> QED BY <1>1, <1>2, <2>1, <2>2 DEF Pools
<1>9. Moves(p, q, BuffersOf(p, s))
  BY <1>2, <1>5, <1>6, <1>7, <1>8 DEF Moves
<1>10. BuffersOf(p, s) \subseteq Buffers
  BY SongBuffers
<1> QED BY <1>3, <1>5, <1>7, <1>9, <1>10 DEF IsSought, q

LEMMA SoughtLands ==
  ASSUME NEW p, Sound(p), Bounded(p), NEW s \in Songs, NEW b \in BuffersOf(p, s),
         NEW c \in BuffersOf(p, s), NEW target \in Nat,
         EndOf(p, s, c) > target,
         \A d \in BuffersOf(p, s) : p.buf[d].key < p.buf[c].key => ~(EndOf(p, s, d) > target),
         NEW offset, offset = target - (EndOf(p, s, c) - p.buf[c].written)
  PROVE  Landed(p, Done(SoughtIn(p, s, p.buf[c].key, offset, target), c), b, s)
<1> DEFINE q == SoughtIn(p, s, p.buf[c].key, offset, target)
           P == Parts(p, s, p.buf[c].key)
<1>1. c \in Buffers /\ BuffersOf(p, s) \subseteq Buffers
  BY SongBuffers
<1>2. \A d \in Buffers : /\ p.buf[d].key \in Nat /\ p.buf[d].read \in Nat
                         /\ p.buf[d].written \in Nat /\ p.buf[d].status \in Nat
  BY CountsType
<1>3. /\ Chunks(WrittenIn(p), P) \in Nat
      /\ EndOf(p, s, c) = Chunks(WrittenIn(p), P) + p.buf[c].written
      /\ Chunks(WrittenIn(p), P) <= target
  BY EndChunks, ReachingBegins
<1> HIDE DEF P
<1>4. offset \in Nat /\ offset < p.buf[c].written /\ Chunks(WrittenIn(p), P) + offset = target
  BY <1>1, <1>2, <1>3
<1>5. IsSought(p, q, s, p.buf[c].key, offset, target)
  BY <1>1, <1>2, <1>4, SoughtMoves
<1> HIDE DEF q
<1>6. Moves(p, q, BuffersOf(p, s))
  BY <1>5 DEF IsSought
<1>7. Sound(q) /\ Same(p, q) /\ BuffersOf(q, s) = BuffersOf(p, s)
  BY <1>6, MovesSound
<1>8. \A d \in Buffers : q.buf[d].key = p.buf[d].key /\ q.buf[d].written = p.buf[d].written
  BY <1>7 DEF Same
<1>9. ASSUME NEW d \in BuffersOf(p, s), d # c
      PROVE  /\ q.buf[d].read = 0
             /\ p.buf[d].key < p.buf[c].key => q.buf[d].status = EBS_PLAYED
             /\ ~(p.buf[d].key < p.buf[c].key) => q.buf[d].status = EBS_LOADED
  <2>1. p.buf[d].key # p.buf[c].key
    BY <1>9, OneKey
  <2> QED BY <1>1, <1>2, <1>5, <2>1 DEF IsSought
<1>10. q.buf[c].read = offset /\ q.song[s].read = target
  BY <1>5 DEF IsSought
<1>11. Bounded(q)
  <2>1. \A d \in Buffers \ BuffersOf(p, s) : q.buf[d] = p.buf[d]
    BY <1>6 DEF Moves
  <2> QED BY <1>1, <1>2, <1>4, <1>8, <1>9, <1>10, <2>1 DEF Bounded
<1>12. InOrder(q, c)
  <2>1. SongIn(q, c) = s
    BY <1>7, SongBuffers
  <2>2. EBS_LOADED < EBS_PLAYING
    BY DEF EBS_LOADED, EBS_PLAYING
  <2> QED BY <1>1, <1>7, <1>8, <1>9, <2>1, <2>2 DEF InOrder
<1>13. Begin(q, c) = Chunks(WrittenIn(p), P)
  <2>1. Begin(q, c) = Chunks(HeardIn(q), Parts(q, s, q.buf[c].key))
    BY <1>7, <1>11, BeginChunks
  <2>2. Parts(q, s, q.buf[c].key) = P
    BY <1>1, <1>7, <1>8 DEF P, Parts
  <2>3. \A d \in P : HeardIn(q)[d] = WrittenIn(p)[d]
    <3>1. \A d \in P : d \in BuffersOf(p, s) /\ d # c /\ p.buf[d].key < p.buf[c].key /\ d \in Buffers
      BY <1>1, <1>2 DEF P, Parts
    <3> QED BY <1>8, <1>9, <3>1 DEF HeardIn, WrittenIn, Heard, EBS_PLAYED, EBS_DRAINING
  <2>4. Chunks(HeardIn(q), P) = Chunks(WrittenIn(p), P)
    BY <2>3, ChunksSame
  <2> QED BY <2>1, <2>2, <2>4
<1>14. q.song[s].read = Place(q, c)
  BY <1>4, <1>10, <1>13 DEF Place
<1> QED BY <1>6, <1>11, <1>12, <1>14 DEF Landed, Done, q

LEMMA DoSeekLands ==
  ASSUME NEW p, Sound(p), Bounded(p), NEW s \in Songs, NEW b \in BuffersOf(p, s),
         NEW position \in Nat
  PROVE  Landed(p, DoSeek(p, b, s, position), b, s)
<1> DEFINE target == At(s, position)
           reaching == {c \in BuffersOf(p, s) : EndOf(p, s, c) > target}
           next == First(p, reaching)
           offset == target - (EndOf(p, s, next) - p.buf[next].written)
           failed == ~p.song[s].buffered \/ target >= SampleSize[s] \/ reaching = {}
<1>1. DoSeek(p, b, s, position) =
        IF failed THEN Failed(p, b)
        ELSE Done(SoughtIn(p, s, p.buf[next].key, offset, target), next)
  BY DEF DoSeek, SoughtIn, EndOf, Sum, Units
<1>2. target \in Nat
  <2>1. position * SampleSize[s] \in Nat
    BY SeekAssumption, TimesNat
  <2> QED BY <2>1 DEF At
<1> HIDE DEF target
<1>3. CASE failed
  BY <1>1, <1>3, StayLands
<1>4. CASE ~failed
  <2>1. reaching # {} /\ reaching \in SUBSET Buffers
    BY <1>4, SongBuffers
  <2>2. next \in reaching /\ \A c \in reaching : p.buf[next].key <= p.buf[c].key
    <3> HIDE DEF reaching
    <3> QED BY <2>1, FirstInSet DEF Sound
  <2> HIDE DEF next
  <2>3. next \in BuffersOf(p, s) /\ EndOf(p, s, next) > target
    BY <2>2
  <2>4. \A d \in BuffersOf(p, s) : p.buf[d].key \in Nat
    BY BuffersOfType
  <2>5. \A d \in BuffersOf(p, s) : p.buf[d].key < p.buf[next].key => ~(EndOf(p, s, d) > target)
    BY <2>2, <2>3, <2>4
  <2> HIDE DEF offset
  <2>6. Landed(p, Done(SoughtIn(p, s, p.buf[next].key, offset, target), next), b, s)
    BY <1>2, <2>3, <2>5, SoughtLands DEF offset
  <2> QED BY <1>1, <1>4, <2>6
<1> QED BY <1>3, <1>4

LEMMA FastForwardLands ==
  ASSUME NEW p, Sound(p), Bounded(p), NEW s \in Songs, NEW b \in BuffersOf(p, s)
  PROVE  Landed(p, FastForward(p, b, s), b, s)
<1> DEFINE rest == Monus(p.buf[b].written, p.buf[b].read)
           over == IF rest > 0 THEN Monus(Skip[s], rest) ELSE 0
           next == ForwardBuffer(p, b, s)
<1>1. FastForward(p, b, s) =
        IF p.buf[b].read + Skip[s] < p.buf[b].written THEN ForwardInPlace(p, b, s)
        ELSE IF over > 0 /\ next # Nil /\ p.buf[next].written > over THEN ForwardInto(p, b, next, s, over)
        ELSE DoSeek(p, b, s, 999)
  BY DEF FastForward
<1>2. over \in Nat
  <2>1. p.buf[b].read \in Nat /\ p.buf[b].written \in Nat /\ Skip[s] \in Nat
    BY CountsType, SongBuffers, SeekAssumption
  <2> QED BY <2>1 DEF Monus
<1> HIDE DEF over, next
<1>3. CASE p.buf[b].read + Skip[s] < p.buf[b].written
  BY <1>1, <1>3, ForwardInPlaceLands
<1>4. ASSUME ~(p.buf[b].read + Skip[s] < p.buf[b].written), next # Nil, p.buf[next].written > over, over > 0
      PROVE  Landed(p, FastForward(p, b, s), b, s)
  <2>1. next \in Buffers
    BY <1>4, ForwardNext DEF next
  <2>2. over <= p.buf[next].written
    BY <1>2, <1>4, <2>1, CountsType
  <2>3. Landed(p, ForwardInto(p, b, next, s, over), b, s)
    BY <1>2, <1>4, <2>2, ForwardIntoLands DEF next
  <2> QED BY <1>1, <1>4, <2>3
<1>5. 999 \in Nat
  OBVIOUS
<1>6. Landed(p, DoSeek(p, b, s, 999), b, s)
  BY <1>5, DoSeekLands
<1> QED BY <1>1, <1>3, <1>4, <1>6

LEMMA FastRewindLands ==
  ASSUME NEW p, Sound(p), Bounded(p), NEW s \in Songs, NEW b \in BuffersOf(p, s)
  PROVE  Landed(p, FastRewind(p, b, s), b, s)
<1> DEFINE over == IF p.buf[b].read > 0 THEN Monus(Skip[s], p.buf[b].read) ELSE 0
           before == RewindBuffer(p, b, s)
<1>1. FastRewind(p, b, s) =
        IF p.buf[b].read > Skip[s] THEN RewindInPlace(p, b, s)
        ELSE IF over > 0 /\ before # Nil /\ p.buf[before].written > over THEN RewindInto(p, b, before, s, over)
        ELSE DoSeek(p, b, s, 1)
  BY DEF FastRewind
<1>2. over \in Nat
  <2>1. p.buf[b].read \in Nat /\ Skip[s] \in Nat
    BY CountsType, SongBuffers, SeekAssumption
  <2> QED BY <2>1 DEF Monus
<1> HIDE DEF over, before
<1>3. CASE p.buf[b].read > Skip[s]
  BY <1>1, <1>3, RewindInPlaceLands
<1>4. ASSUME ~(p.buf[b].read > Skip[s]), before # Nil, p.buf[before].written > over, over > 0
      PROVE  Landed(p, FastRewind(p, b, s), b, s)
  <2>1. before \in Buffers
    BY <1>4, RewindNext DEF before
  <2>2. over <= p.buf[before].written
    BY <1>2, <1>4, <2>1, CountsType
  <2>3. Landed(p, RewindInto(p, b, before, s, over), b, s)
    BY <1>2, <1>4, <2>2, RewindIntoLands DEF before
  <2> QED BY <1>1, <1>4, <2>3
<1>5. 1 \in Nat
  OBVIOUS
<1>6. Landed(p, DoSeek(p, b, s, 1), b, s)
  BY <1>5, DoSeekLands
<1> QED BY <1>1, <1>3, <1>4, <1>6

LEMMA JumpLands ==
  ASSUME NEW p, Sound(p), Bounded(p), NEW s \in Songs, NEW b \in BuffersOf(p, s), NEW c \in Commands
  PROVE  Landed(p, Jump(p, b, s, c), b, s)
<1>1. CASE c = [command |-> "EPP_FORWARD"]
  <2>1. Jump(p, b, s, c) = FastForward(p, b, s)
    BY <1>1 DEF Jump
  <2> QED BY <2>1, FastForwardLands
<1>2. CASE c = [command |-> "EPP_REWIND"]
  <2>1. Jump(p, b, s, c) = FastRewind(p, b, s)
    BY <1>2 DEF Jump
  <2> QED BY <2>1, FastRewindLands
<1>3. CASE c \in [command : {"EPP_POSITION"}, value : Positions]
  <2>1. Jump(p, b, s, c) = IF s \in Streamed THEN Done(p, b) ELSE DoSeek(p, b, s, c.value)
    BY <1>3 DEF Jump
  <2>2. c.value \in Nat
    <3>1. c.value \in Positions
      BY <1>3
    <3>2. c.value \in 1 .. 999
      BY ZenonT(30), <3>1, SeekAssumption
    <3> QED BY <3>2
  <2> QED BY <2>1, <2>2, StayLands, DoSeekLands
<1> QED BY <1>1, <1>2, <1>3 DEF Commands

-----------------------------------------------------------------------------
(* A period with a jump. *)

(* The period raises the state of the buffer it found before the jump, and of
   the one that it goes on with after it. *)
Marks(p, q, b) ==
  /\ Same(p, q) /\ SameCounters(p, q) /\ Keeps(p, q) /\ Sound(q) /\ Bounded(q)
  /\ q.song = p.song
  /\ \A d \in Buffers \ {b} : q.buf[d] = p.buf[d]

LEMMA StatusMarks ==
  ASSUME NEW p, Sound(p), Bounded(p), NEW b \in Buffers, p.buf[b].alloc, NEW state \in 0 .. 9
  PROVE  Marks(p, OperateStatus(p, b, state), b) /\ Marks(p, OperatePlaying(p, b), b)
<1>1. p.buf \in [Buffers -> BufferRecords] /\ p \in Pools
  BY DEF Sound, Pools
<1>2. \A q : SameCounters(p, q) => Bounded(q)
  BY DEF SameCounters, Bounded
<1>3. /\ OperateStatus(p, b, state).song = p.song
      /\ \A d \in Buffers \ {b} : OperateStatus(p, b, state).buf[d] = p.buf[d]
  BY <1>1 DEF OperateStatus, Pools
<1>4. /\ OperatePlaying(p, b).song = p.song
      /\ \A d \in Buffers \ {b} : OperatePlaying(p, b).buf[d] = p.buf[d]
  BY <1>1 DEF OperatePlaying, Pools
<1>5. /\ Sound(OperateStatus(p, b, state)) /\ Keeps(p, OperateStatus(p, b, state))
      /\ Sound(OperatePlaying(p, b)) /\ Keeps(p, OperatePlaying(p, b))
  BY OperateStatusSound
<1>6. Same(p, OperateStatus(p, b, state)) /\ Same(p, OperatePlaying(p, b))
  BY StatusSame
<1>7. SameCounters(p, OperateStatus(p, b, state)) /\ SameCounters(p, OperatePlaying(p, b))
  BY StatusCalm
<1> QED BY <1>2, <1>3, <1>4, <1>5, <1>6, <1>7 DEF Marks

LEMMA MarksLand ==
  ASSUME NEW p, Sound(p), Bounded(p), NEW s, NEW b \in BuffersOf(p, s), NEW q, Marks(p, q, b)
  PROVE  /\ b \in BuffersOf(q, s)
         /\ InOrder(p, b) => InOrder(q, b)
         /\ Place(q, b) = Place(p, b)
<1>1. Sound(q) /\ Bounded(q) /\ Same(p, q) /\ SameCounters(p, q)
  BY DEF Marks
<1>2. /\ b \in Buffers /\ BuffersOf(q, s) = BuffersOf(p, s) /\ SongIn(p, b) = s /\ SongIn(q, b) = s
      /\ BuffersOf(p, s) \subseteq Buffers
  BY <1>1, SameOrder, SongBuffers
<1>3. \A d \in BuffersOf(p, s) \ {b} : q.buf[d] = p.buf[d]
  BY <1>2 DEF Marks
<1>4. InOrder(p, b) => InOrder(q, b)
  <2>1. q.buf[b].key = p.buf[b].key
    BY <1>1, <1>2 DEF Same
  <2> QED BY <1>2, <1>3, <2>1 DEF InOrder
<1>5. Begin(q, b) = Begin(p, b)
  <2>1. \A d \in Parts(p, s, p.buf[b].key) : d \in BuffersOf(p, s) \ {b}
    BY <1>2, CountsType DEF Parts
  <2>2. \A d \in Parts(p, s, p.buf[b].key) : Heard(q, d) = Heard(p, d)
    BY <1>3, <2>1 DEF Heard
  <2> QED BY <1>1, <2>2, BeginSame
<1> QED BY <1>1, <1>2, <1>4, <1>5 DEF Place, SameCounters

LEMMA NextSongBufferOf ==
  ASSUME NEW p, Sound(p), NEW s, NextSongBuffer(p, s) # Nil
  PROVE  NextSongBuffer(p, s) \in BuffersOf(p, s)
<1>1. PlayingBuffers(p, s) \in SUBSET BuffersOf(p, s) /\ PlayableBuffers(p, s) \in SUBSET BuffersOf(p, s)
  BY DEF PlayingBuffers, PlayableBuffers
<1>2. BuffersOf(p, s) \in SUBSET Buffers
  BY DEF BuffersOf
<1> QED BY <1>1, <1>2, FirstInSet DEF NextSongBuffer, Sound

(* What a period with a jump does, for its invariants and its properties. *)
JumpDone ==
  LET b == NextSongBuffer(pool, current)
      c == reader'.buffer
  IN  /\ current \in Songs /\ b \in BuffersOf(pool, current) /\ c \in BuffersOf(pool, current)
      /\ Sound(pool') /\ Keeps(pool, pool') /\ Same(pool, pool') /\ Bounded(pool')
      /\ reader' = [buffer |-> c, rest |-> Monus(pool'.buf[c].written, pool'.buf[c].read)]
      /\ InOrder(pool, b) => InOrder(pool', c)
      /\ pool.song[current].read = Place(pool, b) => pool'.song[current].read = Place(pool', c)

LEMMA JumpHappens ==
  ASSUME PoolInv, CounterInv, PeriodJumps, queue \in Seq(Commands)
  PROVE  JumpDone /\ Head(queue) \in Commands
<1> DEFINE b == NextSongBuffer(pool, current)
           p == OperatePlaying(pool, b)
           jump == Jump(p, b, current, Head(queue))
           c == jump.buffer
           rest == Monus(jump.pool.buf[c].written, jump.pool.buf[c].read)
<1>1. /\ Sound(pool) /\ Bounded(pool) /\ current \in Songs /\ b # Nil /\ Head(queue) \in Commands
      /\ pool' = IF rest = 1 THEN OperateStatus(jump.pool, c, EBS_DRAINING) ELSE jump.pool
      /\ reader' = [buffer |-> c, rest |-> rest]
  BY SMTT(30) DEF PoolInv, TypeOK, CounterInv, PeriodJumps, Playing
<1>2. b \in BuffersOf(pool, current) /\ b \in Buffers /\ pool.buf[b].alloc
  BY <1>1, NextSongBufferOf, BuffersOfType
<1>3. EBS_DRAINING \in 0 .. 9
  BY DEF EBS_DRAINING
<1> HIDE DEF b
<1>4. Marks(pool, p, b)
  BY <1>1, <1>2, <1>3, StatusMarks
<1> HIDE DEF p
<1>5. Sound(p) /\ Bounded(p) /\ Same(pool, p) /\ Keeps(pool, p) /\ p.song = pool.song
  BY <1>4 DEF Marks
<1>6. /\ b \in BuffersOf(p, current)
      /\ InOrder(pool, b) => InOrder(p, b)
      /\ Place(p, b) = Place(pool, b)
  BY <1>1, <1>2, <1>4, MarksLand
<1>7. Landed(p, jump, b, current)
  BY <1>1, <1>5, <1>6, JumpLands
<1> DEFINE q == jump.pool
<1> HIDE DEF jump
<1>8. /\ Moves(p, q, BuffersOf(p, current)) /\ Bounded(q) /\ c \in BuffersOf(p, current)
      /\ InOrder(p, b) => InOrder(q, c)
      /\ p.song[current].read = Place(p, b) => q.song[current].read = Place(q, c)
  BY <1>7 DEF Landed
<1> HIDE DEF q, c
<1>9. Sound(q) /\ Keeps(p, q) /\ Same(p, q) /\ BuffersOf(q, current) = BuffersOf(p, current)
  BY <1>5, <1>8, MovesSound
<1>10. c \in BuffersOf(q, current) /\ c \in Buffers /\ q.buf[c].alloc
  BY <1>8, <1>9, BuffersOfType
<1>11. Marks(q, OperateStatus(q, c, EBS_DRAINING), c) /\ Marks(q, q, c)
  <2>1. Marks(q, q, c)
    BY <1>8, <1>9 DEF Marks, Same, SameCounters, Keeps
  <2> QED BY <1>3, <1>8, <1>9, <1>10, <2>1, StatusMarks
<1>12. Marks(q, pool', c)
  BY <1>1, <1>11 DEF q
<1>13. /\ InOrder(q, c) => InOrder(pool', c)
       /\ Place(pool', c) = Place(q, c)
  BY <1>8, <1>9, <1>10, <1>12, MarksLand
<1>14. /\ Sound(pool') /\ Bounded(pool') /\ Same(q, pool') /\ Keeps(q, pool') /\ pool'.song = q.song
       /\ pool'.buf[c].written = q.buf[c].written /\ pool'.buf[c].read = q.buf[c].read
  BY <1>10, <1>12 DEF Marks, SameCounters
<1>15. Same(pool, pool') /\ Keeps(pool, pool')
  BY <1>5, <1>9, <1>14, SameCompose DEF Keeps
<1>16. c \in BuffersOf(pool, current)
  BY <1>5, <1>8, SameOrder
<1>17. reader'.buffer = c /\ reader' = [buffer |-> c, rest |-> Monus(pool'.buf[c].written, pool'.buf[c].read)]
  BY <1>1, <1>14 DEF q
<1>18. pool.song[current].read = Place(pool, b) => pool'.song[current].read = Place(pool', c)
  BY <1>5, <1>6, <1>8, <1>13, <1>14
<1> QED BY <1>1, <1>2, <1>6, <1>8, <1>13, <1>14, <1>15, <1>16, <1>17, <1>18 DEF JumpDone, b

-----------------------------------------------------------------------------
(* The specification. *)

SeekInv ==
  /\ PoolInv /\ CounterInv /\ DecodeInv
  /\ waiting \in BOOLEAN /\ (waiting => current # Nil)
  /\ queue \in Seq(Commands) /\ Len(queue) <= MaxCommands

LEMMA SeekInvInit == SeekInit => SeekInv
<1> SUFFICES ASSUME SeekInit PROVE SeekInv
  OBVIOUS
<1>1. PoolInv /\ CounterInv /\ DecodeInv
  BY PoolInvInit, CounterInvInit, DecodeInvInit DEF SeekInit
<1>2. <<>> \in Seq(Commands) /\ Len(<<>>) <= MaxCommands
  BY SeekAssumption
<1> QED BY <1>1, <1>2 DEF SeekInit, SeekInv

(* What any step of the pool keeps. *)
LEMMA PoolSteps ==
  ASSUME PoolInv, CounterInv, DecodeInv, [Next]_vars
  PROVE  PoolInv' /\ CounterInv' /\ DecodeInv'
BY PoolInvNext, CounterInvNext, DecodeInvNext

LEMMA JumpKeepsPool ==
  ASSUME SeekInv, PeriodJumps
  PROVE  PoolInv' /\ CounterInv' /\ DecodeInv'
<1> DEFINE c == reader'.buffer
           rest == Monus(pool'.buf[c].written, pool'.buf[c].read)
<1>1. PoolInv /\ CounterInv /\ DecodeInv /\ queue \in Seq(Commands)
  BY DEF SeekInv
<1>2. JumpDone /\ UNCHANGED <<decoder, current, cleared>>
  BY <1>1, JumpHappens DEF PeriodJumps
<1>3. /\ current \in Songs /\ c \in BuffersOf(pool, current)
      /\ Sound(pool') /\ Keeps(pool, pool') /\ Same(pool, pool') /\ Bounded(pool')
      /\ reader' = [buffer |-> c, rest |-> rest]
  BY <1>2 DEF JumpDone
<1>4. Sound(pool) /\ TypeOK
  BY <1>1 DEF PoolInv
<1>5. c \in Buffers /\ pool.buf[c].alloc /\ pool'.buf[c].alloc
  BY <1>3, <1>4, BuffersOfType DEF Keeps
<1>6. pool'.buf[c].read \in Nat /\ pool'.buf[c].written \in Nat
  BY <1>3, <1>5 DEF Sound, Pools, BufferRecords
<1>7. rest \in Nat /\ (rest > 0 => pool'.buf[c].read < pool'.buf[c].written)
  BY <1>6 DEF Monus
<1> HIDE DEF c, rest
<1>8. PoolInv'
  <2>1. Sound(pool)' /\ pool' \in Pools
    BY <1>3 DEF Sound, Booked, Keyed, Allocated
  <2>2. TypeOK'
    BY <1>2, <1>3, <1>4, <1>5, <1>7, <2>1, PoolAssumption DEF TypeOK
  <2>3. decoder.stage # "idle" /\ ~cleared => pool'.buf[decoder.buffer].alloc
    BY <1>1, <1>3, <1>4 DEF PoolInv, TypeOK, Keeps
  <2> QED BY <1>2, <1>3, <1>5, <2>1, <2>2, <2>3 DEF PoolInv
<1>9. CounterInv'
  <2>1. decoder.stage = "writing" /\ ~cleared => pool'.buf[decoder.buffer].written < BufferSize
    BY <1>1, <1>3, <1>4 DEF CounterInv, TypeOK, Same
  <2>2. reader'.buffer = c /\ reader'.rest = rest
    BY <1>3
  <2> QED BY <1>2, <1>3, <1>7, <2>1, <2>2 DEF CounterInv, Bounded
<1>10. DecodeInv'
  BY <1>1, <1>2, <1>3, SameStep
<1> QED BY <1>8, <1>9, <1>10

LEMMA QueueSteps ==
  ASSUME NEW q \in Seq(Commands)
  PROVE  /\ \A c \in Commands : Append(q, c) \in Seq(Commands) /\ Len(Append(q, c)) = Len(q) + 1
         /\ q # <<>> => Tail(q) \in Seq(Commands) /\ Len(Tail(q)) = Len(q) - 1
         /\ \A c \in Commands : <<c>> \in Seq(Commands) /\ Len(<<c>>) = 1
         /\ <<>> \in Seq(Commands) /\ Len(<<>>) = 0
         /\ Len(q) \in Nat
OBVIOUS

LEMMA SeekInvNext == SeekInv /\ [SeekNext]_seekVars => SeekInv'
<1> SUFFICES ASSUME SeekInv, [SeekNext]_seekVars PROVE SeekInv'
  OBVIOUS
<1>1. /\ PoolInv /\ CounterInv /\ DecodeInv
      /\ waiting \in BOOLEAN /\ (waiting => current # Nil)
      /\ queue \in Seq(Commands) /\ Len(queue) <= MaxCommands
  BY DEF SeekInv
<1>2. PoolInv' /\ CounterInv' /\ DecodeInv'
  <2>1. CASE [Next]_vars
    BY <1>1, <2>1, PoolSteps
  <2>2. CASE PeriodJumps
    BY <2>2, JumpKeepsPool
  <2>3. CASE AddCommand \/ QueueSeekCommand \/ ClearStreamCommands \/ PeriodWaits \/ UNCHANGED seekVars
    <3>1. UNCHANGED vars
      BY <2>3 DEF AddCommand, QueueSeekCommand, ClearStreamCommands, PeriodWaits, seekVars
    <3> QED BY <2>1, <3>1
  <2>4. CASE PeriodPlays \/ PeriodEnds \/ Starts \/ Stops \/ Others
    <3>1. Next
      BY <2>4 DEF PeriodPlays, PeriodEnds, Starts, Stops, Others, Next, Player
    <3> QED BY <2>1, <3>1
  <2> QED BY <2>2, <2>3, <2>4 DEF SeekNext
<1>3. waiting' \in BOOLEAN /\ (waiting' => current' # Nil)
  <2>1. CASE PeriodWaits \/ PeriodEnds \/ Starts \/ Stops
    BY <2>1 DEF PeriodWaits, PeriodEnds, Starts, Stops, Playing, vars
  <2>2. CASE Others
    <3>1. waiting' = waiting /\ (Decoder \/ Rebuild)
      BY <2>2 DEF Others
    <3>2. ASSUME Decoder PROVE current' = current
      <4>1. CASE \E t \in Tracks : DecoderAllocate(t)
        BY <4>1 DEF DecoderAllocate
      <4>2. CASE DecoderOpen \/ DecoderWrite \/ DecoderEndOfFile \/ DecoderThreshold \/ DecoderNextChunk
        BY <4>2 DEF DecoderOpen, DecoderWrite, DecoderEndOfFile, DecoderThreshold, DecoderNextChunk
      <4>3. CASE DecoderFull \/ DecoderSwitch \/ DecoderContinue \/ DecoderFinish \/ DecoderFail
        BY <4>3 DEF DecoderFull, DecoderSwitch, DecoderContinue, DecoderFinish, DecoderFail
      <4>4. CASE DecoderGarbage
        BY <4>4 DEF DecoderGarbage
      <4>5. CASE DecoderHousekeeping
        BY <4>5 DEF DecoderHousekeeping
      <4>6. CASE DecoderCleared
        BY <4>6 DEF DecoderCleared
      <4> QED BY <3>2, <4>1, <4>2, <4>3, <4>4, <4>5, <4>6 DEF Decoder
    <3>3. Rebuild => current' = current
      BY DEF Rebuild
    <3> QED BY <1>1, <3>1, <3>2, <3>3
  <2>3. CASE \/ AddCommand \/ QueueSeekCommand \/ ClearStreamCommands \/ PeriodPlays \/ PeriodJumps
             \/ UNCHANGED seekVars
    <3>1. current' = current /\ waiting' = waiting
      BY <2>3 DEF AddCommand, QueueSeekCommand, ClearStreamCommands, PeriodPlays, PeriodBegin, PeriodJumps,
         seekVars, vars
    <3> QED BY <1>1, <3>1
  <2> QED BY <2>1, <2>2, <2>3 DEF SeekNext
<1>4. queue' \in Seq(Commands) /\ Len(queue') <= MaxCommands
  <2>1. MaxCommands \in Nat /\ MaxCommands > 0
    BY SeekAssumption
  <2>2. CASE AddCommand \/ QueueSeekCommand \/ ClearStreamCommands
    <3>1. CASE AddCommand
      BY <1>1, <2>1, <3>1, QueueSteps DEF AddCommand
    <3>2. CASE QueueSeekCommand
      <4>1. PICK c \in Commands : queue' = <<c>>
        BY <3>2 DEF QueueSeekCommand
      <4>2. <<c>> \in Seq(Commands) /\ Len(<<c>>) = 1
        BY <1>1, QueueSteps
      <4> QED BY <2>1, <4>1, <4>2
    <3>3. CASE ClearStreamCommands
      BY <1>1, <2>1, <3>3, QueueSteps DEF ClearStreamCommands
    <3> QED BY <2>2, <3>1, <3>2, <3>3
  <2>3. CASE PeriodJumps \/ PeriodEnds
    <3>1. queue' \in {queue, <<>>} \/ (queue # <<>> /\ queue' = Tail(queue))
      BY <2>3 DEF PeriodJumps, PeriodEnds
    <3>2. CASE queue' = queue
      BY <1>1, <3>2
    <3>3. CASE queue' = <<>>
      BY <2>1, <3>3
    <3>4. CASE queue # <<>> /\ queue' = Tail(queue)
      <4>1. Tail(queue) \in Seq(Commands) /\ Len(Tail(queue)) = Len(queue) - 1 /\ Len(queue) \in Nat
        BY <1>1, <3>4, QueueSteps
      <4> QED BY <1>1, <2>1, <3>4, <4>1
    <3> QED BY <3>1, <3>2, <3>3, <3>4
  <2>4. CASE PeriodPlays \/ PeriodWaits \/ Starts \/ Stops \/ Others \/ UNCHANGED seekVars
    <3>1. queue' = queue
      BY <2>4 DEF PeriodPlays, PeriodWaits, Starts, Stops, Others, seekVars
    <3> QED BY <1>1, <3>1
  <2> QED BY <2>2, <2>3, <2>4 DEF SeekNext
<1> QED BY <1>2, <1>3, <1>4 DEF SeekInv

LEMMA SeekInvAlways == SeekSpec => []SeekInv
BY SeekInvInit, SeekInvNext, PTL DEF SeekSpec

(* Types and bounds survive every jump: the counters of a buffer never wrap
   round below zero, and no reader is set beyond what was written, whatever
   the sizes of buffers and skips, and although the buffer that is left or
   found may still be filled. *)
THEOREM SeekTypeCorrect == SeekSpec => []SeekTypeOK
<1>1. SeekInv => SeekTypeOK
  BY DEF SeekInv, PoolInv, CounterInv, Bounded, SeekTypeOK, ReaderBehindWriter
<1> QED BY <1>1, SeekInvAlways, PTL

(* All that is proved of the pool without jumps holds with them. *)
THEOREM SeekKeepsPool ==
  SeekSpec => [](/\ Accounting /\ EmptyIsPristine /\ KeysIdentify
                 /\ OneDecodingPerSong /\ DecoderOwnsBuffer /\ BufferedFromStart)
<1>1. PoolInv => Accounting /\ EmptyIsPristine /\ KeysIdentify
  <2>1. PoolInv => Accounting
    BY DEF PoolInv, Sound, Booked, Accounting
  <2>2. PoolInv => EmptyIsPristine
    BY EmptyNotAllocated DEF PoolInv, Sound, Keyed, EmptyIsPristine
  <2>3. PoolInv => KeysIdentify
    BY DEF PoolInv, Sound, Keyed, KeysIdentify, Allocated
  <2> QED BY <2>1, <2>2, <2>3
<1>2. SeekInv => /\ Accounting /\ EmptyIsPristine /\ KeysIdentify
                 /\ OneDecodingPerSong /\ DecoderOwnsBuffer /\ BufferedFromStart
  BY <1>1, OneDecodingHolds, DecoderOwnsHolds, BufferedHolds DEF SeekInv
<1> QED BY <1>2, SeekInvAlways, PTL

(* After a jump playback goes on through all of the song that is left, and
   through no part that lies before the place jumped to. *)
THEOREM SeekJumpsKeepOrder == SeekSpec => JumpsKeepOrder
<1>1. SeekInv /\ [SeekNext]_seekVars =>
        [PeriodJumps /\ InOrder(pool, NextSongBuffer(pool, current)) => InOrder(pool', reader'.buffer)]_seekVars
  <2>1. ASSUME SeekInv, PeriodJumps, InOrder(pool, NextSongBuffer(pool, current))
        PROVE  InOrder(pool', reader'.buffer)
    <3>1. JumpDone
      BY <2>1, JumpHappens DEF SeekInv
    <3> QED BY <2>1, <3>1 DEF JumpDone
  <2> QED BY <2>1
<1> QED BY <1>1, SeekInvAlways, PTL DEF SeekSpec, JumpsKeepOrder

(* The progress that is shown stays the place in the music: each of the four
   jumps counts in the song what it changes in the buffers. *)
THEOREM SeekJumpsKeepProgress == SeekSpec => JumpsKeepProgress
<1> DEFINE Keep ==
      LET s == current
          b == NextSongBuffer(pool, s)
      IN  pool.song[s].read = Place(pool, b) => pool'.song[s].read = Place(pool', reader'.buffer)
<1>1. SeekInv /\ [SeekNext]_seekVars => [PeriodJumps => Keep]_seekVars
  <2>1. ASSUME SeekInv, PeriodJumps PROVE Keep
    <3>1. JumpDone
      BY <2>1, JumpHappens DEF SeekInv
    <3> QED BY <3>1 DEF JumpDone
  <2> HIDE DEF Keep
  <2> QED BY <2>1
<1> QED BY <1>1, SeekInvAlways, PTL DEF SeekSpec, JumpsKeepProgress

=============================================================================
