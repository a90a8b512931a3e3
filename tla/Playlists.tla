------------------------------ MODULE Playlists ------------------------------
(***************************************************************************)
(* The playlists of the player together with those that hold pointers to   *)
(* their tracks: the buffers of the ALSA player and the decoder.  Web      *)
(* threads change playlists under libraryLck; the decoder, at the end of a *)
(* song, collects the garbage; the library thread rescans or rebuilds the  *)
(* library, which it does under rescanMtx, out of the decoder's way.       *)
(*                                                                         *)
(* An action is one critical section of libraryLck (of alsaMtx for the     *)
(* actions of decoder and ALSA thread that do not need the library).       *)
(***************************************************************************)
EXTENDS Playlist

CONSTANTS
  Recent,    \* the playlist of the recently played songs
  Buffers,   \* audio buffers; those of one song, which hold the same track and
             \* are released together, are one here
  Limit,     \* configured maximum length of a playlist
  Vanishing, \* songs whose files may vanish
  AddTwice   \* whether artists are added that have albums in the playlist

ASSUME PlaylistsAssumption == Recent \in Lists

VARIABLES
  q,         \* the playlists' heap, see Playlist
  mapped,    \* TPlaylists::map
  dropped,   \* TPlaylists::garbage
  library,   \* songs in the library
  buffer,    \* the track each buffer holds (0: empty)
  decoder,   \* TGlobalState::decoder (0: none)
  cleared,   \* TPlayer::cleared
  current,   \* TPlayer::currentSong, with its playlist
  rebuild    \* rebuildLibrary(): "no", "stopped", "reset"

vars == <<q, mapped, dropped, library, buffer, decoder, cleared, current, rebuild>>
heapVars == <<q, mapped, dropped, library>>
decoderVars == <<buffer, decoder, cleared>>

NoSong == [song |-> Nil, list |-> Nil]

Init ==
  /\ q = [made |-> 0, file |-> [t \in Ids |-> Nil], freed |-> {}, orphan |-> {},
          deleted |-> {}, removed |-> {}, deferred |-> {}, list |-> [l \in Lists |-> EmptyList]]
  /\ mapped = {Recent}
  /\ dropped = {}
  /\ library = Songs
  /\ buffer = [b \in Buffers |-> 0]
  /\ decoder = 0
  /\ cleared = FALSE
  /\ current = NoSong
  /\ rebuild = "no"

(* The songs of albums the library has, in its order. *)
LibrarySongs(A) == Only(SongList, {s \in library : AlbumOf[s] \in A})
AlbumSongs(a) == LibrarySongs({a})

Room(n) == q.made + n <= MaxTracks

-----------------------------------------------------------------------------
(* Web threads. *)

Change(r) == q' = r /\ UNCHANGED <<mapped, dropped, library, decoderVars, rebuild>>

(* addAlbum(); addTrack() and addTracks() come to the same when they do not
   find the song or the album in the playlist. *)
AddAlbumTo(l, a, action) ==
  /\ l \in mapped
  /\ Room(Len(AlbumSongs(a)))
  /\ Change(AddAlbum(DeleteAlbum(q, l, a), l, AlbumSongs(a), action, TRUE))
  /\ UNCHANGED current

(* Fault: a song that is in the playlist is added again. *)
AddSongAgain(l, s, action) ==
  /\ l \in mapped
  /\ s \in library
  /\ Room(1)
  /\ Change(AddAlbum(q, l, <<s>>, action, action = "insert"))
  /\ UNCHANGED current

(* addSong(), for a song that is not in the playlist. *)
AddSongTo(l, s, action) ==
  /\ l \in mapped
  /\ s \in library
  /\ q.list[l].files[s] = 0
  /\ Room(1)
  /\ Change(AddAlbum(q, l, <<s>>, action, action = "insert"))
  /\ UNCHANGED current

(* deleteSong(), unless its album is being played. *)
DeleteSongFrom(l, s) ==
  /\ l \in mapped
  /\ s \in library
  /\ current.song # Nil => AlbumOf[current.song] # AlbumOf[s]
  /\ Change(DeleteFile(q, l, s))
  /\ UNCHANGED current

(* deleteAlbum(), unless it is being played from this playlist. *)
DeleteAlbumFrom(l, a) ==
  /\ l \in mapped
  /\ ~(current.song # Nil /\ AlbumOf[current.song] = a /\ current.list = l)
  /\ Change(DeleteAlbum(q, l, a))
  /\ UNCHANGED current

(* setReorderedData(): the rows of the table are as the page has shown them,
   tracks that follow one another in the list. *)
ReorderTracks(l) ==
  /\ l \in mapped
  /\ \E i, j \in DOMAIN q.list[l].tracks :
       /\ i < j
       /\ \E table \in [1 .. j - i + 1 -> {q.file[q.list[l].tracks[k]] : k \in i .. j}] :
            /\ IsInjective(table)
            /\ Change(Reorder(q, l, table))
  /\ UNCHANGED current

NewPlaylist(l) ==
  /\ l \notin mapped \cup dropped
  /\ mapped' = mapped \cup {l}
  /\ q' = [q EXCEPT !.list[l] = EmptyList]
  /\ UNCHANGED <<dropped, library, decoderVars, rebuild, current>>

(* onDialogData() and TPlaylists::remove(): the player is stopped first when it
   plays this playlist.  The dialog does not offer the recent songs. *)
DropPlaylist(l) ==
  /\ l \in mapped \ {Recent}
  /\ mapped' = mapped \ {l}
  /\ dropped' = dropped \cup {l}
  /\ q' = Drop(q, l)
  /\ current' = IF current.list = l THEN NoSong ELSE current
  /\ UNCHANGED <<library, decoderVars, rebuild>>

(* onSighup(): playlists are cut to the configured size. *)
Resize ==
  /\ \E A \in [mapped -> UNION {OldestAlbums(q, l, Limit) : l \in mapped}] :
       /\ \A l \in mapped : A[l] \in OldestAlbums(q, l, Limit)
       /\ Change(DeleteOldest(q, mapped, A))
  /\ UNCHANGED current

(* addArtist(): several albums at once, which are removed and added one by one
   before the list is put in order: by then the map has forgotten the tracks
   that were to be removed, and commit() keeps them. *)
AddArtistTo(l, action) ==
  /\ l \in mapped
  /\ \E songs \in {LibrarySongs(A) : A \in (SUBSET Albums) \ {{}}} :
       LET albums == {AlbumOf[s] : s \in Range(songs)}
           marked == RemoveAlbums(q, l, albums)
           added == AddAlbum(marked, l, songs, action, FALSE)
           kept == DeleteRemovedTracks(added, {l}, FALSE)
       IN /\ Room(Len(songs))
          /\ songs # <<>>
          /\ AddTwice \/ \A a \in albums : OnAlbum(q, l, a) = {}
          /\ Change(Reindex(kept, {l}))
  /\ UNCHANGED current

-----------------------------------------------------------------------------
(* The player. *)

(* onPlayerStateChanged(): a song that is buffered is played, on request or
   after another one, or none any more.  The current follows, and the song's
   album is put on top of the recently played ones. *)
Play(s, l) ==
  /\ rebuild = "no"
  /\ l \in mapped
  /\ q.list[l].files[s] # 0
  /\ \E b \in Buffers : buffer[b] # 0 /\ SongOf(q, buffer[b]) = s
  /\ current # [song |-> s, list |-> l]
  /\ current' = [song |-> s, list |-> l]
  /\ LET a == AlbumOf[s]
         recent == q.list[Recent].tracks
     IN IF l = Recent \/ (recent # <<>> /\ Head(recent) \in OnAlbum(q, Recent, a))
        THEN UNCHANGED q
        ELSE /\ Room(Len(AlbumSongs(a)))
             /\ q' = AddAlbum(DeleteAlbum(q, Recent, a), Recent, AlbumSongs(a), "insert", TRUE)
  /\ UNCHANGED <<mapped, dropped, library, decoderVars, rebuild>>

Stop ==
  /\ current # NoSong
  /\ current' = NoSong
  /\ UNCHANGED <<heapVars, decoderVars, rebuild>>

-----------------------------------------------------------------------------
(* The decoder, which holds rescanMtx. *)

DecoderRuns == rebuild = "no" /\ ~cleared

(* State 200: a track that is in no buffer yet is decoded. *)
Decode(b, t) ==
  /\ DecoderRuns
  /\ decoder = 0
  /\ buffer[b] = 0
  /\ \E l \in mapped : t \in TracksOf(q, l)
  /\ SongOf(q, t) # Nil
  /\ \A c \in Buffers : buffer[c] # 0 => SongOf(q, buffer[c]) # SongOf(q, t)
  /\ buffer' = [buffer EXCEPT ![b] = t]
  /\ decoder' = t
  /\ UNCHANGED <<heapVars, current, cleared, rebuild>>

(* An error: resetBuffers(track). *)
Fail ==
  /\ DecoderRuns
  /\ decoder # 0
  /\ buffer' = [b \in Buffers |-> IF buffer[b] = decoder THEN 0 ELSE buffer[b]]
  /\ decoder' = 0
  /\ UNCHANGED <<heapVars, current, cleared, rebuild>>

(* State 0: buffers of songs far from the current one are released. *)
Housekeeping(t) ==
  /\ DecoderRuns
  /\ decoder = 0
  /\ t # 0
  /\ \E b \in Buffers : buffer[b] = t
  /\ SongOf(q, t) # current.song
  /\ buffer' = [b \in Buffers |-> IF buffer[b] = t THEN 0 ELSE buffer[b]]
  /\ UNCHANGED <<heapVars, current, decoder, cleared, rebuild>>

(* TAudioBufferList::garbageCollector(): buffers of removed tracks are released
   or, when the song is to be spared, defer the end of the track. *)
Held == {buffer[b] : b \in Buffers} \ {0}
Spared(r, songs) == {t \in Held : SongOf(r, t) \in songs}

(* The songs it makes a difference for whether they are to be spared. *)
Sparable == {SongOf(q, t) : t \in Held \cap q.removed} \ {Nil}

BufferGarbage(r, songs) ==
  [r EXCEPT !.deferred = (@ \ Held) \cup (r.removed \cap Spared(r, songs))]

(* Fault: the tracks are freed before the buffers are looked at. *)
CollectedFirst(r, lists, songs) ==
  BufferGarbage(Collect(r, lists), songs)

Collected(r, lists, songs) == Collect(BufferGarbage(r, songs), lists)

(* cleanup(): dropped playlists, of which those without tracks are freed. *)
Cleaned(r) == Collect(r, dropped)

(* State 400, playlistGarbageCollector(), after the end of a song.  The songs to
   spare, last, current and next one, are copied before libraryLck is taken,
   and may be any by now. *)
CollectGarbage(songs) ==
  /\ DecoderRuns
  /\ decoder # 0
  /\ LET garbage == \E l \in mapped : q.list[l].garbage # {}
         done == garbage \/ dropped # {}
     IN \E stray \in SUBSET UNION {q.list[l].garbage : l \in {m \in Lists : ReadsBeyond(q, m)}} :
          LET r1 == Release(q, {l \in dropped : q.list[l].garbage # {}}, stray)
              r2 == IF garbage THEN Release(r1, mapped, stray) ELSE r1
              r3 == IF garbage THEN Collected(r2, mapped, songs)
                    ELSE IF dropped # {} THEN BufferGarbage(r2, songs) ELSE r2
              r4 == Cleaned(r3)
          IN /\ q' = IF done THEN Release(Reset(r4, mapped), mapped, stray) ELSE r4
             /\ dropped' = {l \in dropped : q.list[l].tracks # <<>>}
             /\ buffer' = IF done
                  THEN [b \in Buffers |-> IF buffer[b] \in q.removed \ Spared(q, songs) THEN 0 ELSE buffer[b]]
                  ELSE buffer
  /\ decoder' = 0
  /\ UNCHANGED <<mapped, library, cleared, current, rebuild>>

(* The cleared flag: decoder.reset(), resetBuffers(). *)
DecoderCleared ==
  /\ rebuild = "no"
  /\ cleared
  /\ cleared' = FALSE
  /\ decoder' = 0
  /\ buffer' = [b \in Buffers |-> 0]
  /\ UNCHANGED <<heapVars, current, rebuild>>

-----------------------------------------------------------------------------
(* The library thread, which holds rescanMtx: the decoder is between two calls. *)

RescanMtxFree == rebuild = "no"

(* rescanLibrary(): files have vanished; playback goes on. *)
Rescan(lost) ==
  /\ RescanMtxFree
  /\ library' = library \ lost
  /\ q' = Rebuild(q, mapped, library \ lost)
  /\ UNCHANGED <<mapped, dropped, current, decoderVars, rebuild>>

(* rebuildLibrary(), deleteLibrary(): stop(), and the songs are forgotten ... *)
RebuildStop ==
  /\ RescanMtxFree
  /\ rebuild' = "stopped"
  /\ current' = NoSong
  /\ UNCHANGED <<heapVars, decoderVars>>

(* ... resetBuffers(), and the decoder is told ... *)
RebuildReset ==
  /\ rebuild = "stopped"
  /\ rebuild' = "reset"
  /\ buffer' = [b \in Buffers |-> 0]
  /\ cleared' = TRUE
  /\ UNCHANGED <<heapVars, current, decoder>>

(* ... and all playlists are cleared, to be read again from their files, or
   to stay empty when the library is deleted.  saveToFile() skips a playlist
   without tracks, whose file still has what was saved before: "old". *)
Saved(l, old) ==
  IF q.list[l].tracks = <<>> THEN Only(SongList, old[l])
  ELSE Only([i \in DOMAIN q.list[l].tracks |-> SongOf(q, q.list[l].tracks[i])], Songs)

RebuildClear ==
  /\ rebuild = "reset"
  /\ rebuild' = "no"
  /\ \/ \E old \in [mapped -> SUBSET library] :
        LET songs == [l \in mapped |-> Saved(l, old)]
        IN \E first \in [mapped -> q.made .. MaxTracks], made \in q.made .. MaxTracks :
             /\ OneByOne(q, mapped, songs, first, made)
             /\ q' = LoadFromFile(Clear(q, mapped), mapped, songs, first, made)
             /\ UNCHANGED library
     \/ /\ q' = Clear(q, mapped)
        /\ library' = {}
  /\ UNCHANGED <<mapped, dropped, current, decoderVars>>

-----------------------------------------------------------------------------

(* sanitizePlayerAction(). *)
Actions(l) == IF l = Recent THEN {"insert"} ELSE {"insert", "append"}

Users ==
  \E l \in Lists :
    \/ \E a \in Albums : DeleteAlbumFrom(l, a) \/ \E action \in Actions(l) : AddAlbumTo(l, a, action)
    \/ \E s \in Songs : \/ DeleteSongFrom(l, s) \/ Play(s, l)
                        \/ \E action \in Actions(l) : AddSongTo(l, s, action)
    \/ \E action \in Actions(l) : AddArtistTo(l, action)
    \/ ReorderTracks(l) \/ NewPlaylist(l) \/ DropPlaylist(l)

Decoder ==
  \/ \E b \in Buffers, t \in 1 .. q.made : Decode(b, t)
  \/ \E t \in 1 .. q.made : Housekeeping(t)
  \/ Fail \/ (\E songs \in SUBSET Sparable : CollectGarbage(songs)) \/ DecoderCleared

Next ==
  \/ Users \/ Decoder \/ Resize \/ Stop
  \/ \E lost \in SUBSET (library \cap Vanishing) : Rescan(lost)
  \/ RebuildStop \/ RebuildReset \/ RebuildClear

Spec == Init /\ [][Next]_vars

-----------------------------------------------------------------------------
(* Properties. *)

(* Every variable has its type. *)
TypeOK ==
  /\ q.made \in 0 .. MaxTracks
  /\ q.file \in [Ids -> Songs \cup {Nil}]
  /\ \A f \in {q.freed, q.orphan, q.deleted, q.removed, q.deferred} : f \subseteq 1 .. q.made
  /\ \A l \in Lists : /\ TracksOf(q, l) \cup q.list[l].garbage \subseteq 1 .. q.made
                      /\ q.list[l].files \in [Songs -> 0 .. q.made]
  /\ mapped \subseteq Lists /\ dropped \subseteq Lists /\ mapped \cap dropped = {}
  /\ library \subseteq Songs
  /\ buffer \in [Buffers -> 0 .. q.made]
  /\ decoder \in 0 .. q.made
  /\ cleared \in BOOLEAN
  /\ current \in [song : Songs \cup {Nil}, list : Lists \cup {Nil}]
  /\ rebuild \in {"no", "stopped", "reset"}

(* "Cleanup buffer before deleting tracks!!!": no buffer, and not the decoder
   unless it is told to forget its track, holds a track that was freed. *)
HeldTracksAreLive ==
  /\ Held \cap q.freed = {}
  /\ decoder # 0 /\ ~cleared => decoder \notin q.freed

(* What a playlist in use can reach, by place, by file or in its garbage, was
   not freed, and what a dropped playlist has still to free was not either. *)
ListedTracksAreLive ==
  /\ \A l \in mapped : (TracksOf(q, l) \cup q.list[l].garbage \cup
                        (Range(q.list[l].files) \ {0})) \cap q.freed = {}
  /\ \A l \in dropped : q.list[l].garbage \cap q.freed = {}

(* A track is in one place of one playlist or in the garbage of one: it is
   freed once. *)
TracksHaveOnePlace ==
  /\ \A l \in mapped : /\ IsInjective(q.list[l].tracks)
                       /\ TracksOf(q, l) \cap q.list[l].garbage = {}
  /\ \A l, m \in mapped \cup dropped : l # m =>
       (TracksOf(q, l) \cup q.list[l].garbage) \cap (TracksOf(q, m) \cup q.list[m].garbage) = {}

(* The collector of the buffers looks at the mark of a track, that of the
   playlists at the list it is in: both agree on what is garbage. *)
MarkedIsGarbage ==
  /\ \A l \in mapped \cup dropped : q.list[l].garbage \subseteq q.removed
  /\ \A l \in mapped : TracksOf(q, l) \cap q.removed = {}

(* Each song of a playlist is found by its file, once. *)
FoundByFile ==
  \A l \in mapped : \A s \in Songs :
    q.list[l].files[s] = 0 <=> \A t \in TracksOf(q, l) : q.file[t] # s

(* "Release deferred delete markers for deleted tracks": after a collection
   the end of a track is deferred only for the sake of a buffer. *)
DeferredForBuffers ==
  [][(\E songs \in SUBSET Songs : CollectGarbage(songs)) =>
       \A l \in mapped \cup dropped : q'.list[l].garbage \cap q'.deferred \subseteq
           {buffer'[b] : b \in Buffers}]_vars

=============================================================================
