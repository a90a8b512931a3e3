---------------------------- MODULE MCAlsaDevice ----------------------------
(***************************************************************************)
(* TLC instances of AlsaDevice: three songs, two of them in one format,    *)
(* and two output devices.                                                 *)
(***************************************************************************)
EXTENDS AlsaDevice, TLC

CONSTANTS s1, s2, s3

MCFormatOf == s1 :> "cd" @@ s2 :> "cd" @@ s3 :> "hires"

=============================================================================
