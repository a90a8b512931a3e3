------------------------------- MODULE SongTape -------------------------------
(***************************************************************************)
(* What the pool of buffers promises to those who know nothing of buffers: *)
(* each song is a tape.  The decoder appends chunks of samples at its end  *)
(* or wipes it; the player plays one song, from its first chunk on and     *)
(* always forward, and hears no chunk twice unless the song begins again.  *)
(*                                                                         *)
(* A chunk may be passed over: a player that has caught up with the        *)
(* decoder leaves behind what is appended to a buffer it has drained.      *)
(***************************************************************************)
EXTENDS Naturals

CONSTANTS Songs, Nil

VARIABLES
  tape,     \* how many chunks of each song are there
  playing,  \* the song, or Nil
  heard     \* its chunks that were heard since it began

tapeVars == <<tape, playing, heard>>

Init ==
  /\ tape = [s \in Songs |-> 0]
  /\ playing = Nil
  /\ heard = {}

Append(s) ==
  /\ tape' = [tape EXCEPT ![s] = @ + 1]
  /\ UNCHANGED <<playing, heard>>

(* Any of the songs. *)
Wipe ==
  /\ tape' \in [Songs -> Nat]
  /\ \A s \in Songs : tape'[s] \in {0, tape[s]}
  /\ heard' = IF playing # Nil /\ tape'[playing] = 0 THEN {} ELSE heard
  /\ UNCHANGED playing

(* A song begins, another one or the same again, or playback ends. *)
Turn(s) ==
  /\ playing' = s
  /\ heard' = {}
  /\ UNCHANGED tape

Hear(n) ==
  /\ heard' = heard \cup {n}
  /\ \A k \in heard : k < n
  /\ heard = {} => n = 1
  /\ UNCHANGED <<tape, playing>>

Next ==
  \/ Wipe
  \/ \E s \in Songs : Append(s)
  \/ \E s \in Songs \cup {Nil} : Turn(s)
  \/ playing # Nil /\ \E n \in 1 .. tape[playing] : Hear(n)

Spec == Init /\ [][Next]_tapeVars

=============================================================================
