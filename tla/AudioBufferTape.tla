--------------------------- MODULE AudioBufferTape ---------------------------
(***************************************************************************)
(* The buffers of a song, in the order of their keys, are the tape of the  *)
(* song: AudioBufferPool implements SongTape.                              *)
(***************************************************************************)
EXTENDS AudioBufferPool

(* What getWritten() of a song says, which is the sum of its buffers
   (StatisticsMatchBuffers). *)
OnTape(p, s) == IF HasSong(p, s) THEN p.song[s].written ELSE 0

(* The chunks of a song before buffer b: the buffers decoded earlier are full
   (OneDecodingPerSong). *)
Earlier(p, b) == {c \in BuffersOf(p, SongIn(p, b)) : p.buf[c].key < p.buf[b].key}
Before(p, b) == BufferSize * Cardinality(Earlier(p, b))

Heard(p, s) ==
  UNION {LET n == Before(p, b) IN n + 1 .. n + p.buf[b].read : b \in BuffersOf(p, s)}

Tape == INSTANCE SongTape WITH
  tape <- [s \in Songs |-> OnTape(pool, s)],
  playing <- current,
  heard <- IF current = Nil THEN {} ELSE Heard(pool, current)

(* Through buffers that are allocated, drained, released and decoded again the
   player hears the chunks of a song from the first one on, forward, and none
   of them twice. *)
ImplementsTape == Tape!Spec

=============================================================================
