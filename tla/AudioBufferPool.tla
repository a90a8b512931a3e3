--------------------------- MODULE AudioBufferPool ---------------------------
(***************************************************************************)
(* The buffer pool together with everything that calls it for songs.  The  *)
(* decoder (TPlayer::executeBufferTask) fills buffers, one song at a time; *)
(* the ALSA thread reads them; play, stop and close come from the player   *)
(* task; the library thread resets everything before a rebuild; removed    *)
(* tracks are garbage collected.                                           *)
(*                                                                         *)
(* An action is one critical section of TAlsaPlayer::alsaMtx, and the      *)
(* order in which the threads get it is arbitrary.  The one exception is   *)
(* the decoder's stream->update(), which writes into its buffer without    *)
(* the mutex: it may come between the two halves of a period.              *)
(***************************************************************************)
EXTENDS AudioBufferList

CONSTANTS MaxKey  \* bound on the number of allocations of one behaviour

ASSUME MaxKeyAssumption == MaxKey \in Nat

VARIABLES
  pool,     \* TAlsaPlayer::buffers and the songs' own flags
  decoder,  \* TGlobalState::decoder: stage, buffer, track, threshold passed
  reader,   \* writePeriodData() between choosing a buffer and reading it
  current,  \* TAlsaPlayer::currentSong
  cleared   \* TPlayer::cleared, set by the library thread

vars == <<pool, decoder, reader, current, cleared>>

(* The stages "writing" and "eof" are states 300 and 400, between two calls
   of executeBufferTask(); the other busy ones are points inside a call. *)
Stages == {"idle", "allocated", "writing", "written", "checked", "switch",
           "continue", "eof", "finished"}
Idle == [stage |-> "idle", buffer |-> Nil, track |-> Nil, buffered |-> FALSE]

NotReading == [buffer |-> Nil, rest |-> 0]

Init ==
  /\ pool = InitialPool
  /\ decoder = Idle
  /\ reader = NotReading
  /\ current = Nil
  /\ cleared = FALSE

AlsaMtxFree == reader = NotReading

-----------------------------------------------------------------------------
(* The decoder. *)

DecoderAt(stages) == decoder.stage \in stages /\ ~cleared

(* State 200, first half: getNextEmptyBuffer(track). *)
DecoderAllocate(t) ==
  /\ AlsaMtxFree
  /\ DecoderAt({"idle"})
  /\ SongOf[t] \notin Streamed
  /\ pool.key < MaxKey
  /\ \E b \in NextEmptyBuffers(pool, SongOf[t]) :
       /\ pool' = Allocate(pool, b)
       /\ decoder' = [stage |-> "allocated", buffer |-> b, track |-> t, buffered |-> FALSE]
  /\ UNCHANGED <<reader, current, cleared>>

(* State 200, second half: operateBuffers(EBS_BUFFERING). *)
DecoderOpen ==
  /\ AlsaMtxFree
  /\ DecoderAt({"allocated"})
  /\ pool' = OperateBuffering(pool, decoder.buffer, decoder.track)
  /\ decoder' = [decoder EXCEPT !.stage = "writing"]
  /\ UNCHANGED <<reader, current, cleared>>

(* State 300: stream->update() and song->addWritten(), without alsaMtx.  At
   the end of the file an update may deliver nothing. *)
DecoderWrite ==
  /\ DecoderAt({"writing"})
  /\ pool' = WriteChunk(pool, decoder.buffer, SongOf[decoder.track])
  /\ decoder' = [decoder EXCEPT !.stage = "written"]
  /\ UNCHANGED <<reader, current, cleared>>

(* State 300: stream->isEOF(), operateBuffers(EBS_BUFFERED). *)
DecoderEndOfFile ==
  /\ AlsaMtxFree
  /\ DecoderAt({"writing", "written"})
  /\ pool' = OperateBuffered(pool, decoder.buffer, decoder.track)
  /\ decoder' = [decoder EXCEPT !.stage = "eof"]
  /\ UNCHANGED <<reader, current, cleared>>

(* State 300: enough for playback to start, operateBuffers(EBS_BUFFERED);
   the threshold of a song is passed once. *)
DecoderThreshold ==
  /\ AlsaMtxFree
  /\ DecoderAt({"written"})
  /\ ~decoder.buffered
  /\ pool' = OperateBuffered(pool, decoder.buffer, decoder.track)
  /\ decoder' = [decoder EXCEPT !.stage = "checked", !.buffered = TRUE]
  /\ UNCHANGED <<reader, current, cleared>>

(* Fault: the check for room is off by one. *)
DecoderNextChunkLate ==
  /\ DecoderAt({"written", "checked"})
  /\ pool.buf[decoder.buffer].written <= BufferSize
  /\ decoder' = [decoder EXCEPT !.stage = "writing"]
  /\ UNCHANGED <<pool, reader, current, cleared>>

(* State 300: there is room for the next chunk. *)
DecoderNextChunk ==
  /\ DecoderAt({"written", "checked"})
  /\ pool.buf[decoder.buffer].written < BufferSize
  /\ decoder' = [decoder EXCEPT !.stage = "writing"]
  /\ UNCHANGED <<pool, reader, current, cleared>>

(* State 300: the buffer is full, operateBuffers(EBS_LOADED). *)
DecoderFull ==
  /\ AlsaMtxFree
  /\ DecoderAt({"written", "checked"})
  /\ pool.buf[decoder.buffer].written = BufferSize
  /\ pool' = OperateLoaded(pool, decoder.buffer)
  /\ decoder' = [decoder EXCEPT !.stage = "switch"]
  /\ UNCHANGED <<reader, current, cleared>>

(* ... getNextEmptyBuffer() ... *)
DecoderSwitch ==
  /\ AlsaMtxFree
  /\ DecoderAt({"switch"})
  /\ pool.key < MaxKey
  /\ \E b \in NextEmptyBuffers(pool, Nil) :
       /\ pool' = Allocate(pool, b)
       /\ decoder' = [decoder EXCEPT !.stage = "continue", !.buffer = b]
  /\ UNCHANGED <<reader, current, cleared>>

(* ... and operateBuffers(EBS_CONTINUE). *)
DecoderContinue ==
  /\ AlsaMtxFree
  /\ DecoderAt({"continue"})
  /\ pool' = OperateContinue(pool, decoder.buffer, decoder.track)
  /\ decoder' = [decoder EXCEPT !.stage = "writing"]
  /\ UNCHANGED <<reader, current, cleared>>

(* State 400: operateBuffers(EBS_FINISHED). *)
DecoderFinish ==
  /\ AlsaMtxFree
  /\ DecoderAt({"eof"})
  /\ pool' = OperateFinished(pool, decoder.buffer)
  /\ decoder' = [decoder EXCEPT !.stage = "finished"]
  /\ UNCHANGED <<reader, current, cleared>>

(* State 400: playlistGarbageCollector(), decoder.reset().  The songs to keep
   are those the event mirror believes to be last, current and next. *)
DecoderGarbage ==
  /\ AlsaMtxFree
  /\ DecoderAt({"finished"})
  /\ pool' \in {CollectGarbage(pool, removed, keep) :
                 removed \in SUBSET Tracks, keep \in SUBSET Songs}
  /\ decoder' = Idle
  /\ UNCHANGED <<reader, current, cleared>>

(* A decoder error, or no empty buffer to go on with: resetBuffers(track). *)
DecoderFail ==
  /\ AlsaMtxFree
  /\ \/ DecoderAt({"writing", "written"})
     \/ DecoderAt({"switch"}) /\ NextEmptyBuffers(pool, Nil) = {}
  /\ pool' = ResetSong(pool, SongOf[decoder.track])
  /\ decoder' = Idle
  /\ UNCHANGED <<reader, current, cleared>>

(* State 0: buffer space is needed, tracks far from the current one go.  The
   song the decoder takes for the current one is a copy of the event mirror
   made at the start of the task's cycle: it may be any. *)
DecoderHousekeeping ==
  /\ AlsaMtxFree
  /\ DecoderAt({"idle"})
  /\ pool' \in {ResetByIndex(pool, hash, hardware, p[1], index, p[2]) :
                 hash \in {HashOf[t] : t \in Tracks}, index \in {IndexOf[t] : t \in Tracks},
                 hardware \in Songs \cup {Nil},
                 p \in {<<"ECT_LESSER", 0>>, <<"ECT_GREATER", 0>>, <<"ECT_RANGE", 2>>, <<"ECT_RANGE", 3>>}}
  /\ UNCHANGED <<decoder, reader, current, cleared>>

(* The cleared flag is found set: decoder.reset(), resetBuffers(). *)
DecoderCleared ==
  /\ AlsaMtxFree
  /\ cleared
  /\ pool' = ResetAll(pool)
  /\ decoder' = Idle
  /\ cleared' = FALSE
  /\ UNCHANGED <<reader, current>>

-----------------------------------------------------------------------------
(* The ALSA player. *)

(* play() on an open device, for a song in the pool that is buffered. *)
Play(s) ==
  /\ AlsaMtxFree
  /\ HasSong(pool, s)
  /\ pool.song[s].buffered
  /\ pool' = Cleanup(IF current = Nil THEN pool ELSE Complete(pool, current), s)
  /\ current' = s
  /\ UNCHANGED <<decoder, reader, cleared>>

(* writePeriodData(): choose the buffer to play and look how much is left;
   the last chunk drains it. *)
PeriodBegin ==
  /\ AlsaMtxFree
  /\ current # Nil
  /\ LET b == NextSongBuffer(pool, current)
         q == OperatePlaying(pool, b)
         rest == Monus(q.buf[b].written, q.buf[b].read)
     IN  /\ b # Nil
         /\ pool' = IF rest = 1 THEN OperateStatus(q, b, EBS_DRAINING) ELSE q
         /\ reader' = [buffer |-> b, rest |-> rest]
  /\ UNCHANGED <<decoder, current, cleared>>

(* writePeriodData(): read one chunk.  A buffer that is now exhausted has been
   played, and when it was the last one the playlist tells what comes next. *)
PeriodEnd ==
  /\ reader # NotReading
  /\ LET b == reader.buffer
         q == IF reader.rest > 0 THEN ReadChunk(pool, b, current) ELSE pool
         played == OperateStatus(q, b, EBS_PLAYED)
     IN  \/ ~IsExhausted(q, b) /\ pool' = q /\ current' = current
         \/ /\ IsExhausted(q, b)
            /\ NextSongBuffer(played, current) # Nil
            /\ pool' = played /\ current' = current
         \/ /\ IsExhausted(q, b)
            /\ NextSongBuffer(played, current) = Nil
            /\ \/ pool' = played /\ current' = Nil
               \/ \E s \in Songs : pool' = Cleanup(played, s) /\ current' = s
  /\ reader' = NotReading
  /\ UNCHANGED <<decoder, cleared>>

(* Fault: stop() does not take alsaMtx. *)
StopUnlocked ==
  /\ current # Nil
  /\ pool' = Complete(pool, current)
  /\ current' = Nil
  /\ UNCHANGED <<decoder, reader, cleared>>

(* stop(): reset(EPS_STOP). *)
Stop ==
  /\ AlsaMtxFree
  /\ current # Nil
  /\ pool' = Complete(pool, current)
  /\ current' = Nil
  /\ UNCHANGED <<decoder, reader, cleared>>

(* close(): reset(EPS_CLOSED), then all buffers are playable again. *)
Close ==
  /\ AlsaMtxFree
  /\ pool' = CleanupAll(IF current = Nil THEN pool ELSE Complete(pool, current))
  /\ current' = Nil
  /\ UNCHANGED <<decoder, reader, cleared>>

-----------------------------------------------------------------------------
(* Fault: the decoder is not told that its buffers are gone. *)
RebuildSilently ==
  /\ AlsaMtxFree
  /\ ~cleared
  /\ decoder.stage \in {"idle", "writing", "eof"}
  /\ pool' = ResetAll(pool)
  /\ UNCHANGED <<decoder, reader, current, cleared>>

(* The library thread: rebuildLibrary() and deleteLibrary() hold rescanMtx
   and so wait for the end of a call of executeBufferTask(). *)
Rebuild ==
  /\ AlsaMtxFree
  /\ ~cleared
  /\ decoder.stage \in {"idle", "writing", "eof"}
  /\ pool' = ResetAll(pool)
  /\ cleared' = TRUE
  /\ UNCHANGED <<decoder, reader, current>>

-----------------------------------------------------------------------------

Decoder ==
  \/ \E t \in Tracks : DecoderAllocate(t)
  \/ DecoderOpen \/ DecoderWrite \/ DecoderEndOfFile \/ DecoderThreshold
  \/ DecoderNextChunk \/ DecoderFull \/ DecoderSwitch \/ DecoderContinue
  \/ DecoderFinish \/ DecoderGarbage \/ DecoderFail \/ DecoderHousekeeping
  \/ DecoderCleared

Player == PeriodBegin \/ PeriodEnd \/ Stop \/ Close \/ \E s \in Songs : Play(s)

Next == Decoder \/ Player \/ Rebuild

Spec == Init /\ [][Next]_vars

-----------------------------------------------------------------------------
(* Properties. *)

(* The sum of naturals is the number of their units. *)
Units(S, Value(_)) == UNION {{b} \X (1 .. Value(b)) : b \in S}
Sum(S, Value(_)) == Cardinality(Units(S, Value))

(* Every variable has its type. *)
TypeOK ==
  /\ pool \in Pools
  /\ decoder \in [stage : Stages, buffer : Buffers \cup {Nil}, track : Tracks \cup {Nil},
                  buffered : BOOLEAN]
  /\ decoder.stage # "idle" => decoder.buffer \in Buffers /\ decoder.track \in Tracks
  /\ reader \in [buffer : Buffers \cup {Nil}, rest : Nat]
  /\ reader # NotReading => reader.buffer \in Buffers /\ current # Nil
  /\ current \in Songs \cup {Nil}
  /\ cleared \in BOOLEAN

(* The three counters of the list, each kept by its own arithmetic in
   allocate() and release(), always agree with the buffers: getBufferSize()
   decides from m_free whether a song can be decoded. *)
Accounting ==
  /\ pool.allocated = BufferSize * Cardinality(Allocated(pool))
  /\ pool.free = BufferSize * (Cardinality(Buffers) - Cardinality(Allocated(pool)))
  /\ pool.empty = Cardinality(Buffers) - Cardinality(Allocated(pool))

(* A buffer that getNextEmptyBuffer() may hand out is one nobody holds, and
   it carries nothing over from its last use; a buffer in use has a key of its
   own, which is what sort() and the searches of the list rely on. *)
EmptyIsPristine ==
  \A b \in Buffers : ~pool.buf[b].alloc \/ IsEmpty(pool, b) => pool.buf[b] = EmptyBuffer
KeysIdentify ==
  \A b, c \in Allocated(pool) :
    /\ pool.buf[b].key \in 1 .. pool.key
    /\ pool.buf[b].key = pool.buf[c].key => b = c

(* "Prevent decoding same song/file twice in buffer list!": the buffers of a
   song are one decoding of it.  Only the one with the smallest key is the
   first, only the one with the largest may be the last, all but that one are
   full, and no buffer of another song lies between them, so getNextSongBuffer,
   getForwardBuffer, getRewindBuffer and getSeekBuffer walk the samples in
   their order. *)
OneDecodingPerSong ==
  \A s \in Songs : \A b, c \in BuffersOf(pool, s) :
    LET before == pool.buf[b].key < pool.buf[c].key
    IN  /\ pool.buf[b].track = pool.buf[c].track
        /\ before => /\ ~pool.buf[c].first
                     /\ ~pool.buf[b].last
                     /\ pool.buf[b].written = BufferSize
        /\ before => \A d \in Allocated(pool) :
             pool.buf[d].key \in pool.buf[b].key .. pool.buf[c].key => SongIn(pool, d) \in {s, Nil}

(* The reader never passes the writer and the writer never the end of the
   buffer, whatever the threads do between two chunks. *)
ReaderBehindWriter ==
  \A b \in Buffers : /\ pool.buf[b].read <= pool.buf[b].written
                     /\ pool.buf[b].written <= BufferSize

(* The decoder writes into a buffer that belongs to the song it decodes. *)
DecoderOwnsBuffer ==
  decoder.stage \in {"writing", "written", "checked", "eof", "finished"} /\ ~cleared =>
    /\ pool.buf[decoder.buffer].alloc
    /\ pool.buf[decoder.buffer].track = decoder.track
    /\ \A b \in BuffersOf(pool, SongOf[decoder.track]) :
         pool.buf[b].key <= pool.buf[decoder.buffer].key

(* A song play() accepts can be played from its first sample: the first buffer
   is there, and all of it can be reached. *)
BufferedFromStart ==
  \A s \in Songs : pool.song[s].buffered /\ HasSong(pool, s) =>
    LET b == First(pool, BuffersOf(pool, s))
    IN  pool.buf[b].first /\ pool.buf[b].status >= EBS_BUFFERED

(* The progress of a song, counted in the song while the buffers count their
   own part of it, stays the sum of the parts. *)
StatisticsMatchBuffers ==
  \A s \in Songs : HasSong(pool, s) =>
    /\ pool.song[s].written = Sum(BuffersOf(pool, s), LAMBDA b : pool.buf[b].written)
    /\ pool.song[s].read = Sum(BuffersOf(pool, s), LAMBDA b : pool.buf[b].read)

=============================================================================
