------------------------------ MODULE Playlist ------------------------------
(***************************************************************************)
(* Playlists and their tracks (TPlaylist, TPlaylists, TTrack), as          *)
(* operators on one record q, the heap the playlists share:                *)
(*                                                                         *)
(*   made      number of tracks created, which are named 1, 2, ...         *)
(*   file      the file (song) a track was created for                     *)
(*   freed     tracks given back to the heap; what they held is forgotten  *)
(*   orphan    tracks whose song pointer a rescan has set to nil           *)
(*   deleted, removed, deferred   tracks with that flag of TTrack          *)
(*   list      for each playlist object its tracks in order, its map from  *)
(*             files to tracks (0: none), and its garbage                  *)
(*                                                                         *)
(* A song is named by its file, and no two songs have the same title hash. *)
(***************************************************************************)
EXTENDS Integers, SequencesExt

CONSTANTS
  SongList,   \* the songs there may be, in the order of their albums
  AlbumOf,    \* the album each song is on
  Lists,      \* playlist objects
  Nil,        \* no song
  MaxTracks   \* bound on the number of tracks created in a behaviour

Songs == Range(SongList)

ASSUME PlaylistAssumption ==
  /\ SongList \in Seq(Songs) /\ IsInjective(SongList)
  /\ Nil \notin Songs \cup Lists
  /\ MaxTracks \in Nat

Albums == {AlbumOf[s] : s \in Songs}
Ids == 1 .. MaxTracks

EmptyList == [tracks |-> <<>>, files |-> [s \in Songs |-> 0], garbage |-> {}]

TracksOf(q, l) == Range(q.list[l].tracks)

(* track->getSong(). *)
SongOf(q, t) == IF t \in q.orphan THEN Nil ELSE q.file[t]

OnAlbum(q, l, a) ==
  {t \in TracksOf(q, l) : SongOf(q, t) # Nil /\ AlbumOf[SongOf(q, t)] = a}

(* The elements of a list that are in S, in their order: what remove_if() with
   erase() leaves.  SelectSeq, in a form that proofs can unfold. *)
Only(s, S) ==
  LET kept[i \in 0 .. Len(s)] ==
        IF i = 0 THEN <<>>
        ELSE IF s[i] \in S THEN Append(kept[i - 1], s[i]) ELSE kept[i - 1]
  IN  kept[Len(s)]

(* Methods of TPlaylist take the set of playlists they are called for. *)

(* reindex(): the deleted flag of every track in the list is reset. *)
Reindex(q, lists) == [q EXCEPT !.deleted = @ \ UNION {TracksOf(q, l) : l \in lists}]

(* deleteRemovedFiles(): the songs the map forgets. *)
GoneFiles(q, l) == {s \in Songs : q.list[l].files[s] \in q.deleted}

(* Tracks marked as deleted leave the list, but only if the map had one. *)
DeadTracks(q, l) == IF GoneFiles(q, l) = {} THEN {} ELSE TracksOf(q, l) \cap q.deleted

(* Fault: remove_if() without erase(), the list keeps the tracks. *)
PurgedKept(q, l) ==
  [tracks |-> q.list[l].tracks,
   files |-> [s \in Songs |-> IF s \in GoneFiles(q, l) THEN 0 ELSE q.list[l].files[s]],
   garbage |-> q.list[l].garbage \cup DeadTracks(q, l)]

(* They go to its garbage. *)
Purged(q, l) ==
  [tracks |-> Only(q.list[l].tracks, TracksOf(q, l) \ DeadTracks(q, l)),
   files |-> [s \in Songs |-> IF s \in GoneFiles(q, l) THEN 0 ELSE q.list[l].files[s]],
   garbage |-> q.list[l].garbage \cup DeadTracks(q, l)]

(* deleteRemovedTracks(): they are marked as removed instead of deleted. *)
DeleteRemovedTracks(q, lists, rebuild) ==
  LET dead == UNION {DeadTracks(q, l) : l \in lists}
      r == [q EXCEPT
              !.list = [l \in Lists |-> IF l \in lists THEN Purged(q, l) ELSE q.list[l]],
              !.deleted = @ \ dead,
              !.removed = @ \cup dead]
  IN IF rebuild THEN Reindex(r, {l \in lists : GoneFiles(q, l) # {}}) ELSE r

(* removeAlbum(), for some albums; deleteAlbum(), deleteFile(). *)
RemoveAlbums(q, l, A) == [q EXCEPT !.deleted = @ \cup UNION {OnAlbum(q, l, a) : a \in A}]

DeleteAlbum(q, l, a) ==
  IF OnAlbum(q, l, a) = {} THEN q
  ELSE DeleteRemovedTracks(RemoveAlbums(q, l, {a}), {l}, TRUE)

(* Fault: a file that is not found is not refused. *)
DeleteFileUnfound(q, l, s) ==
  DeleteRemovedTracks([q EXCEPT !.deleted = @ \cup {q.list[l].files[s]}], {l}, TRUE)

DeleteFile(q, l, s) ==
  IF q.list[l].files[s] = 0 THEN q
  ELSE DeleteRemovedTracks([q EXCEPT !.deleted = @ \cup {q.list[l].files[s]}], {l}, TRUE)

(* The choice deleteOldest() makes by the time of the songs: albums that free
   enough places, none of them needless. *)
OldestAlbums(q, l, size) ==
  LET excess == Len(q.list[l].tracks) - size
      Freed(A) == Cardinality(UNION {OnAlbum(q, l, a) : a \in A})
      All == {a \in Albums : OnAlbum(q, l, a) # {}}
  IN IF excess <= 0 THEN {{}}
     ELSE {A \in SUBSET All : /\ Freed(A) >= excess \/ A = All
                              /\ A # {} => \E a \in A : Freed(A \ {a}) < excess}

(* deleteOldest(): albums A[l] of each playlist l. *)
DeleteOldest(q, lists, A) ==
  LET old == UNION {UNION {OnAlbum(q, l, a) : a \in A[l]} : l \in lists}
  IN DeleteRemovedTracks([q EXCEPT !.deleted = @ \cup old], {l \in lists : A[l] # {}}, TRUE)

(* addSong() for songs one after the other, as addAlbum() calls it: in front
   of the list ("insert") or at its end; the map keeps the track added last.
   Their tracks are first + 1, first + 2, ... *)
WithSongs(L, songs, first, action) ==
  LET new == [i \in 1 .. Len(songs) |-> first + i]
  IN [tracks |-> IF action = "insert" THEN new \o L.tracks ELSE L.tracks \o new,
      files |-> [s \in Songs |->
         IF s \in Range(songs) THEN first + (CHOOSE i \in 1 .. Len(songs) : songs[i] = s)
         ELSE L.files[s]],
      garbage |-> L.garbage]

AddSongs(q, l, songs, action) ==
  [q EXCEPT
     !.made = @ + Len(songs),
     !.file = [t \in Ids |->
        IF t \in q.made + 1 .. q.made + Len(songs) THEN songs[t - q.made] ELSE q.file[t]],
     !.list[l] = WithSongs(@, songs, q.made, action)]

AddAlbum(q, l, songs, action, rebuild) ==
  LET r == AddSongs(q, l, songs, action)
  IN IF songs = <<>> THEN q ELSE IF rebuild THEN Reindex(r, {l}) ELSE r

(* loadFromFile(): songs[l] are added to each playlist l, to one after another.
   The tracks of l come after those made when it is its turn, first[l]. *)
NewTracks(songs, first, l) == first[l] + 1 .. first[l] + Len(songs[l])

OneByOne(q, lists, songs, first, made) ==
  /\ UNION {NewTracks(songs, first, l) : l \in lists} = q.made + 1 .. made
  /\ \A l, m \in lists : l # m => NewTracks(songs, first, l) \cap NewTracks(songs, first, m) = {}

LoadFromFile(q, lists, songs, first, made) ==
  LET New(l) == NewTracks(songs, first, l)
      ListOf(t) == CHOOSE l \in lists : t \in New(l)
      r == [q EXCEPT
              !.made = made,
              !.file = [t \in Ids |-> IF t \in q.made + 1 .. made
                                      THEN songs[ListOf(t)][t - first[ListOf(t)]] ELSE q.file[t]],
              !.list = [l \in Lists |-> IF l \in lists
                                        THEN WithSongs(q.list[l], songs[l], first[l], "append")
                                        ELSE q.list[l]]]
  IN Reindex(r, {l \in lists : songs[l] # <<>>})

(* reorder(): the tracks of the table take the places from their lowest index
   on, in the order of the table. *)
Reorder(q, l, table) ==
  LET L == q.list[l]
      list == [i \in 1 .. Len(table) |-> L.files[table[i]]]
      index == Min({i \in 1 .. Len(L.tracks) : L.tracks[i] \in Range(list)})
      r == Reindex(q, {l})
  IN IF index + Len(list) - 1 > Len(L.tracks) THEN r
     ELSE [r EXCEPT !.list[l].tracks =
             [i \in DOMAIN L.tracks |->
                IF i - index + 1 \in 1 .. Len(list) /\ SongOf(q, list[i - index + 1]) # Nil
                THEN list[i - index + 1] ELSE L.tracks[i]]]

(* rebuild(): songs are looked up anew by file; tracks without one go. *)
Rebuild(q, lists, library) ==
  LET tracks == UNION {TracksOf(q, l) : l \in lists}
      Lost(T) == {t \in T : q.file[t] \notin library}
      r == [q EXCEPT !.orphan = (@ \ tracks) \cup Lost(tracks),
                     !.deleted = (@ \ tracks) \cup Lost(tracks)]
  IN DeleteRemovedTracks(r, {l \in lists : Lost(TracksOf(q, l)) # {}}, TRUE)

Free(q, T) ==
  [q EXCEPT !.freed = @ \cup T, !.file = [t \in Ids |-> IF t \in T THEN Nil ELSE q.file[t]],
            !.orphan = @ \ T, !.deleted = @ \ T, !.removed = @ \ T, !.deferred = @ \ T]

(* garbageCollector(): what is not deferred is freed. *)
Collect(q, lists) ==
  [Free(q, (UNION {q.list[l].garbage : l \in lists}) \ q.deferred) EXCEPT
     !.list = [l \in Lists |->
       IF l \in lists THEN [q.list[l] EXCEPT !.garbage = @ \cap q.deferred] ELSE q.list[l]]]

(* Fault: the map of the files is not cleared. *)
ClearTracks(q, lists) ==
  [Free(Collect(q, lists), UNION {TracksOf(q, l) : l \in lists}) EXCEPT
     !.list = [l \in Lists |->
       IF l \in lists THEN [tracks |-> <<>>, files |-> q.list[l].files,
                            garbage |-> q.list[l].garbage \cap q.deferred]
       ELSE q.list[l]]]

(* clear(): all tracks are freed. *)
Clear(q, lists) ==
  [Free(Collect(q, lists), UNION {TracksOf(q, l) : l \in lists}) EXCEPT
     !.list = [l \in Lists |->
       IF l \in lists THEN [EmptyList EXCEPT !.garbage = q.list[l].garbage \cap q.deferred]
       ELSE q.list[l]]]

(* remove(): the tracks of a playlist that is dropped are garbage, and stay
   in its list. *)
Drop(q, l) ==
  [q EXCEPT !.removed = @ \cup TracksOf(q, l), !.list[l].garbage = @ \cup TracksOf(q, l)]

(* Fault: all marks are reset, those of the garbage too. *)
ResetAllMarks(q, lists) == [q EXCEPT !.removed = {}]

(* reset(): nothing that is in a list is removed. *)
Reset(q, lists) == [q EXCEPT !.removed = @ \ UNION {TracksOf(q, l) : l \in lists}]

(* release(): counts the garbage, but takes the deferral off the tracks of the
   list.  Past their end it reads what is left there of the tracks that were
   in the list before: "stray" of the garbage may be among them. *)
ReadsBeyond(q, l) == Cardinality(q.list[l].garbage) > Len(q.list[l].tracks)

Release(q, lists, stray) ==
  LET Undeferred(l) ==
        LET L == q.list[l]
        IN {L.tracks[i] : i \in 1 .. Min({Cardinality(L.garbage), Len(L.tracks)})}
             \cup IF ReadsBeyond(q, l) THEN stray \cap L.garbage ELSE {}
  IN [q EXCEPT !.deferred = @ \ UNION {Undeferred(l) : l \in lists}]

=============================================================================
