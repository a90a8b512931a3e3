---------------------------- MODULE MCPlayerTask ----------------------------
(***************************************************************************)
(* TLC instances of PlayerTask: a playlist of three songs in two formats   *)
(* and a pool for two of them.                                             *)
(***************************************************************************)
EXTENDS PlayerTask, TLC

CONSTANTS s1, s2, s3

MCFormatOf == s1 :> "cd" @@ s2 :> "cd" @@ s3 :> "hires"
MCPlaylist == <<s1, s2, s3>>

=============================================================================
