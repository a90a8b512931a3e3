----------------------------- MODULE MCPlaylists -----------------------------
EXTENDS Playlists, TLC

CONSTANTS b1, b2, s1, s2, l1, l2

MCSongList == <<s1, s2>>
MCAlbumOf == s1 :> "a" @@ s2 :> "b"

Symmetry == Permutations({b1, b2})

=============================================================================
