--------------------------- MODULE MCSongSelection ---------------------------
(***************************************************************************)
(* TLC instances of SongSelection: a playlist of two albums, the first one *)
(* of three songs, one of which may be too short for a random choice.      *)
(***************************************************************************)
EXTENDS SongSelection, TLC

CONSTANTS a1, a2, a3, b1, web

MCList == <<a1, a2, a3, b1>>
MCAlbumOf == a1 :> "a" @@ a2 :> "a" @@ a3 :> "a" @@ b1 :> "b"

=============================================================================
