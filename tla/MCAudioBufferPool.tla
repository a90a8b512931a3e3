-------------------------- MODULE MCAudioBufferPool --------------------------
(***************************************************************************)
(* TLC instance of AudioBufferPool: two songs, one of them in two playlists, three *)
(* buffers of two chunks.  Three buffers are the smallest number at which  *)
(* a song spans buffers while another one waits in the pool.               *)
(***************************************************************************)
EXTENDS AudioBufferTape, TLC

CONSTANTS b1, b2, b3, t1, t2, t3, s1, s2

MCSongOf == t1 :> s1 @@ t2 :> s2 @@ t3 :> s1
MCIndexOf == t1 :> 1 @@ t2 :> 2 @@ t3 :> 1
MCHashOf == t1 :> "recent" @@ t2 :> "recent" @@ t3 :> "album"

Symmetry == Permutations({b1, b2, b3})

=============================================================================
