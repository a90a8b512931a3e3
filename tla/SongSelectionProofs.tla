-------------------------- MODULE SongSelectionProofs --------------------------
(***************************************************************************)
(* TLAPS proofs about SongSelection, for any playlist, albums, threads and *)
(* number of switches: the modes exclude each other whatever the threads   *)
(* overwrite, the disk mode stays on its album, the disk shuffle plays all *)
(* of it before a song comes again, and a repeated list does not end.      *)
(***************************************************************************)
EXTENDS SongSelection, WellFoundedInduction, TLAPS

Exclusive(m) == m["single"] => \A sw \in Switches \ {"single"} : ~m[sw]

(* What a thread carries with it from step to step. *)
Carries(o) ==
  /\ o \in Ops
  /\ Exclusive(o.mode)
  /\ o.at = "pressed" => o.switch \in Switches

(* The markers tell what was heard, and which short songs were passed over. *)
Round(M, H) == H \subseteq M /\ M \ Short \subseteq H

Variables ==
  /\ mode \in Modes /\ button \in Modes /\ Exclusive(mode)
  /\ holder \in {"alsa", "task", Nil}
  /\ marked \in SUBSET Listed /\ heard \in SUBSET Listed
  /\ Round(marked, heard)
  /\ current \in Songs \cup {Nil} /\ enqueued \in Songs \cup {Nil}
  /\ inputs \in 0 .. MaxInputs

Carried ==
  /\ op \in [Threads -> Ops]
  /\ \A t \in Threads : Carries(op[t])

(* A song is only searched for while the mode "halt" is off. *)
SearchingOn == At("alsa", "select") => ~op["alsa"].mode["halt"]

SelectionInv == Variables /\ Carried /\ SearchingOn

-----------------------------------------------------------------------------
(* Records and modes. *)

LEMMA OpFields ==
  ASSUME NEW o \in Ops
  PROVE  /\ o.mode \in Modes
         /\ o.switch \in Switches \cup {"none"}
         /\ o.song \in Songs \cup {Nil}
         /\ o.next \in Songs \cup {Nil}
         /\ o.flag \in BOOLEAN
BY DEF Ops

LEMMA ModeValues ==
  ASSUME NEW m \in Modes, NEW sw \in Switches
  PROVE  m[sw] \in BOOLEAN
BY DEF Modes

LEMMA SwitchNames ==
  /\ "random" \in Switches
  /\ "repeat" \in Switches
  /\ "single" \in Switches
  /\ "halt" \in Switches
  /\ "disk" \in Switches
BY DEF Switches

LEMMA IdleCarries == Carries(Idle) /\ Idle.at = "idle" /\ Idle.mode = Off
<1>1. Off \in Modes /\ Exclusive(Off)
  BY DEF Off, Modes, Exclusive, Switches
<1> QED BY <1>1 DEF Idle, Carries, Ops, Places

LEMMA NewModeExclusive ==
  ASSUME NEW last \in Modes, Exclusive(last), NEW sw \in Switches, NEW on \in BOOLEAN
  PROVE  NewMode(last, sw, on) \in Modes /\ Exclusive(NewMode(last, sw, on))
<1> DEFINE new == NewMode(last, sw, on)
<1>1. new \in Modes
  BY ModeValues DEF NewMode, Modes
<1>2. \A s \in Switches : new[s] = IF s = sw THEN on
                                    ELSE last[s] /\ ~(on /\ ~last[sw] /\ s \in Excludes(sw))
  BY DEF NewMode
<1>3. ASSUME new["single"], NEW s \in Switches \ {"single"}
      PROVE  ~new[s]
  <2>1. CASE sw = "single"
    <3>1. on
      BY <1>2, <1>3, <2>1, SwitchNames
    <3>2. CASE last["single"]
      BY <1>2, <2>1, <3>2 DEF Exclusive
    <3>3. CASE ~last["single"]
      <4>1. s \in Excludes(sw)
        BY <1>3, <2>1 DEF Excludes, Switches
      <4> QED BY <1>2, <2>1, <3>1, <3>3, <4>1
    <3> QED BY <3>2, <3>3
  <2>2. CASE sw # "single"
    <3>1. last["single"] /\ ~(on /\ ~last[sw] /\ "single" \in Excludes(sw))
      BY <1>2, <1>3, <2>2, SwitchNames
    <3>2. ~last[sw] /\ ~last[s]
      BY <3>1, <1>3, <2>2 DEF Exclusive
    <3>3. "single" \in Excludes(sw)
      BY <2>2 DEF Excludes
    <3> QED BY <1>2, <3>1, <3>2, <3>3
  <2> QED BY <2>1, <2>2
<1> QED BY <1>1, <1>3 DEF Exclusive

-----------------------------------------------------------------------------
(* The playlist and its albums. *)

LEMMA ListedSongs ==
  /\ \A i \in DOMAIN List : List[i] \in Songs /\ List[i] \in Listed
  /\ Listed \subseteq Songs
  /\ DOMAIN List \subseteq Nat
  /\ 1 \in DOMAIN List
  /\ Nil \notin Listed
BY SelectionAssumption DEF Listed

LEMMA Least ==
  ASSUME NEW S, S \subseteq DOMAIN List, S # {}
  PROVE  \E i \in S : \A j \in S : i <= j
<1>1. S \subseteq Nat
  BY ListedSongs
<1>2. PICK i \in S : \A j \in S : ~(<<j, i>> \in OpToRel(<, Nat))
  BY <1>1, NatLessThanWellFounded, WFMin, Zenon
<1>3. \A j \in S : ~(j < i)
  BY <1>1, <1>2 DEF OpToRel
<1> QED BY <1>1, <1>3

LEMMA SuccessorListed == ASSUME NEW s PROVE Successor(s) \in Listed \cup {Nil}
<1>1. CASE s \in Listed /\ Position(s) < Len(List)
  <2>1. \E i \in DOMAIN List : List[i] = s
    BY <1>1 DEF Listed
  <2>2. Position(s) \in DOMAIN List
    BY <2>1 DEF Position
  <2>3. Position(s) + 1 \in DOMAIN List
    BY <1>1, <2>2, SelectionAssumption
  <2> QED BY <1>1, <2>3, ListedSongs DEF Successor
<1>2. CASE ~(s \in Listed /\ Position(s) < Len(List))
  BY <1>2 DEF Successor
<1> QED BY <1>1, <1>2

LEMMA FirstOfAlbumFound ==
  ASSUME NEW s
  PROVE  /\ FirstOfAlbum(s) \in Listed \cup {Nil}
         /\ FirstOfAlbum(s) # Nil => AlbumOf[FirstOfAlbum(s)] = AlbumOf[s]
         /\ s \in Listed => FirstOfAlbum(s) # Nil
<1>1. CASE AlbumPositions(s) = {}
  <2>1. FirstOfAlbum(s) = Nil
    BY <1>1 DEF FirstOfAlbum
  <2>2. s \notin Listed
    BY <1>1 DEF AlbumPositions, Listed
  <2> QED BY <2>1, <2>2
<1>2. CASE AlbumPositions(s) # {}
  <2> DEFINE first == CHOOSE i \in AlbumPositions(s) : \A j \in AlbumPositions(s) : i <= j
  <2>1. AlbumPositions(s) \subseteq DOMAIN List
    BY DEF AlbumPositions
  <2>2. first \in AlbumPositions(s)
    BY <1>2, <2>1, Least
  <2>3. FirstOfAlbum(s) = List[first]
    BY <1>2 DEF FirstOfAlbum
  <2>4. first \in DOMAIN List /\ AlbumOf[List[first]] = AlbumOf[s]
    BY <2>2 DEF AlbumPositions
  <2> QED BY <2>3, <2>4, ListedSongs
<1> QED BY <1>1, <1>2

LEMMA AlbumRangeFound ==
  ASSUME NEW s
  PROVE  /\ AlbumRange(s) \subseteq Listed
         /\ \A r \in AlbumRange(s) : AlbumOf[r] = AlbumOf[s]
         /\ s \in Listed => AlbumRange(s) # {}
<1>1. /\ AlbumRange(s) \subseteq Listed
      /\ \A r \in AlbumRange(s) : AlbumOf[r] = AlbumOf[s]
  BY ListedSongs DEF AlbumRange, AlbumPositions
<1>2. ASSUME s \in Listed PROVE AlbumRange(s) # {}
  <2> DEFINE P == AlbumPositions(s)
  <2>1. P # {} /\ P \subseteq DOMAIN List
    BY <1>2 DEF AlbumPositions, Listed
  <2>2. PICK i \in P : \A j \in P : i <= j
    BY <2>1, Least
  <2>3. P \subseteq Nat
    BY <2>1, ListedSongs
  <2>4. \A k \in P : k <= i => k .. i \subseteq P
    <3> SUFFICES ASSUME NEW k \in P, k <= i PROVE k .. i \subseteq P
      OBVIOUS
    <3>1. k = i
      BY <2>2, <2>3
    <3> QED BY <2>3, <3>1
  <2>5. List[i] \in AlbumRange(s)
    BY <2>4 DEF AlbumRange
  <2> QED BY <2>5
<1> QED BY <1>1, <1>2

-----------------------------------------------------------------------------
(* What a selection may give: o after s with the modes m. *)

HeardAfter(o, random) ==
  (IF o.cleared THEN {} ELSE heard) \cup (IF random THEN {o.next} \ {Nil} ELSE {})

Fitting(o, m, s) ==
  /\ o.next \in Listed \cup {Nil}
  /\ o.marked \in SUBSET Listed
  /\ Round(o.marked, HeardAfter(o, m["random"]))
  /\ o.again => m["random"] /\ o.next = Nil
  /\ m["disk"] /\ o.next # Nil => AlbumOf[o.next] = AlbumOf[s]
  /\ m["disk"] /\ m["random"] /\ o.next \in heard =>
       \A r \in Listed \ Short : AlbumOf[r] = AlbumOf[s] => r \in heard
  /\ m["repeat"] /\ s \in Listed /\ ~o.again =>
       o.next # Nil \/ (m["random"] /\ ~m["disk"])

Marking == marked \in SUBSET Listed /\ heard \in SUBSET Listed /\ Round(marked, heard)

LEMMA SequentialFits ==
  ASSUME NEW m, NEW s
  PROVE  /\ Sequential(m, s) \in Listed \cup {Nil}
         /\ m["disk"] /\ Sequential(m, s) # Nil => AlbumOf[Sequential(m, s)] = AlbumOf[s]
         /\ m["repeat"] /\ s \in Listed => Sequential(m, s) # Nil
<1> DEFINE n == Successor(s)
           stays == n # Nil /\ AlbumOf[n] = AlbumOf[s]
<1>1. n \in Listed \cup {Nil}
  BY SuccessorListed
<1>2. CASE m["disk"] /\ stays
  <2>1. Sequential(m, s) = n
    BY <1>2 DEF Sequential
  <2> QED BY <1>1, <1>2, <2>1
<1>3. CASE m["disk"] /\ ~stays /\ m["repeat"]
  <2>1. Sequential(m, s) = FirstOfAlbum(s)
    BY <1>3 DEF Sequential
  <2> QED BY <2>1, FirstOfAlbumFound
<1>4. CASE m["disk"] /\ ~stays /\ ~m["repeat"]
  <2>1. Sequential(m, s) = Nil
    BY <1>4 DEF Sequential
  <2> QED BY <1>4, <2>1
<1>5. CASE ~m["disk"]
  <2>1. Sequential(m, s) = IF n = Nil /\ m["repeat"] THEN List[1] ELSE n
    BY <1>5 DEF Sequential
  <2> QED BY <1>1, <1>5, <2>1, ListedSongs
<1> QED BY <1>2, <1>3, <1>4, <1>5

LEMMA DrawnOutcome ==
  ASSUME Marking,
         NEW range \in SUBSET Listed, NEW candidates \in SUBSET range,
         NEW s, NEW kept \in {{}, marked},
         NEW o \in Drawn(range, candidates, s, kept)
  PROVE  /\ o.next \in candidates \cup {Nil}
         /\ o.marked \in SUBSET Listed
         /\ Round(o.marked, HeardAfter(o, TRUE))
         /\ o.again = FALSE
<1>1. PICK n \in candidates \cup (IF range = candidates THEN {} ELSE {Nil}),
           short \in SUBSET ((range \cap Short) \ {s}) :
        o = [next |-> n, marked |-> kept \cup short \cup ({n} \ {Nil}),
             cleared |-> kept # marked, again |-> FALSE]
  BY DEF Drawn
<1>2. o.next = n /\ o.marked = kept \cup short \cup ({n} \ {Nil}) /\ o.again = FALSE
  BY <1>1
<1>3. o.cleared = (kept # marked)
  BY <1>1
<1>4. n \in candidates \cup {Nil} /\ short \subseteq Short /\ short \subseteq Listed
  OBVIOUS
<1>5. o.marked \in SUBSET Listed
  BY <1>2, <1>4 DEF Marking
<1>6. (IF o.cleared THEN {} ELSE heard) \subseteq kept
  BY <1>3 DEF Marking, Round
<1>7. kept \ Short \subseteq (IF o.cleared THEN {} ELSE heard)
  <2>1. CASE kept = marked
    BY <1>3, <2>1 DEF Marking, Round
  <2>2. CASE kept # marked
    <3>1. kept = {}
      BY <2>2
    <3> QED BY <3>1
  <2> QED BY <2>1, <2>2
<1>8. HeardAfter(o, TRUE) = (IF o.cleared THEN {} ELSE heard) \cup ({n} \ {Nil})
  BY <1>2 DEF HeardAfter
<1>9. Round(o.marked, HeardAfter(o, TRUE))
  BY <1>2, <1>4, <1>6, <1>7, <1>8 DEF Round
<1> QED BY <1>2, <1>4, <1>5, <1>9

LEMMA NothingFits ==
  ASSUME Marking, NEW m \in Modes, NEW s,
         ~m["repeat"] \/ s = Nil \/ (m["random"] /\ ~m["disk"])
  PROVE  Fitting(Nothing, m, s)
<1>1. Nothing.next = Nil /\ Nothing.marked = marked /\ Nothing.cleared = FALSE /\ Nothing.again = FALSE
  BY DEF Nothing
<1>2. HeardAfter(Nothing, m["random"]) = heard
  BY <1>1 DEF HeardAfter
<1>3. Nil \notin heard /\ Nil \notin Listed
  BY ListedSongs DEF Marking
<1> QED BY <1>1, <1>2, <1>3 DEF Fitting, Marking

LEMMA DiskShuffleFits ==
  ASSUME Marking, NEW m \in Modes, m["random"], m["disk"], NEW s,
         NEW o \in DiskShuffle(m, s)
  PROVE  Fitting(o, m, s)
<1> DEFINE kept == IF AlbumLeft(s) = {} THEN {} ELSE marked
           range == AlbumRange(s)
           candidates == range \ (Short \cup kept \cup {s})
<1>1. CASE range = {} \/ (AlbumLeft(s) = {} /\ ~m["repeat"])
  <2>1. o = Nothing
    BY <1>1 DEF DiskShuffle
  <2>2. CASE ~m["repeat"]
    BY <2>1, <2>2, NothingFits
  <2>3. CASE range = {}
    <3>1. s \notin Listed
      BY <2>3, AlbumRangeFound
    <3>2. Nothing.next = Nil /\ Nothing.marked = marked /\ Nothing.cleared = FALSE /\ Nothing.again = FALSE
      BY DEF Nothing
    <3>3. HeardAfter(Nothing, m["random"]) = heard
      BY <3>2 DEF HeardAfter
    <3>4. Nil \notin heard
      BY ListedSongs DEF Marking
    <3> QED BY <2>1, <3>1, <3>2, <3>3, <3>4 DEF Fitting, Marking
  <2> QED BY <1>1, <2>2, <2>3
<1>2. CASE ~(range = {} \/ (AlbumLeft(s) = {} /\ ~m["repeat"]))
  <2>1. PICK d \in Drawn(range, candidates, s, kept) : o = [d EXCEPT !.again = (d.next = Nil)]
    BY <1>2 DEF DiskShuffle
  <2>2. range \in SUBSET Listed /\ candidates \in SUBSET range /\ kept \in {{}, marked}
    BY AlbumRangeFound
  <2>3. /\ d.next \in candidates \cup {Nil}
        /\ d.marked \in SUBSET Listed
        /\ Round(d.marked, HeardAfter(d, TRUE))
    BY <2>2, DrawnOutcome
  <2>4. /\ o.next = d.next /\ o.marked = d.marked /\ o.cleared = d.cleared
        /\ o.again = (d.next = Nil)
    BY <2>1 DEF Drawn
  <2>5. HeardAfter(o, m["random"]) = HeardAfter(d, TRUE)
    BY <2>4 DEF HeardAfter
  <2>6. o.next # Nil => AlbumOf[o.next] = AlbumOf[s]
    BY <2>3, <2>4, AlbumRangeFound
  <2>7. ASSUME o.next \in heard, NEW r \in Listed \ Short, AlbumOf[r] = AlbumOf[s]
        PROVE  r \in heard
    <3>1. o.next \in marked /\ o.next \in candidates
      BY <2>3, <2>4, <2>7, ListedSongs DEF Marking, Round
    <3>2. kept # marked
      BY <3>1
    <3>3. AlbumLeft(s) = {}
      BY <3>2
    <3>4. PICK i \in DOMAIN List : List[i] = r
      BY <2>7 DEF Listed
    <3>5. r \in marked
      BY <2>7, <3>3, <3>4 DEF AlbumLeft, AlbumPositions
    <3> QED BY <2>7, <3>5 DEF Marking, Round
  <2>8. o.next \in Listed \cup {Nil}
    BY <2>2, <2>3, <2>4
  <2> QED BY <2>3, <2>4, <2>5, <2>6, <2>7, <2>8 DEF Fitting
<1> QED BY <1>1, <1>2

LEMMA ListShuffleFits ==
  ASSUME Marking, NEW m \in Modes, m["random"], ~m["disk"], NEW s,
         NEW o \in ListShuffle(m, s)
  PROVE  Fitting(o, m, s)
<1> DEFINE kept == IF Listed \subseteq marked THEN {} ELSE marked
           candidates == Listed \ (Short \cup {s})
<1>1. CASE Listed \subseteq marked /\ ~m["repeat"]
  BY <1>1, NothingFits DEF ListShuffle
<1>2. CASE ~(Listed \subseteq marked /\ ~m["repeat"])
  <2>1. o \in Drawn(Listed, candidates, s, kept)
    BY <1>2 DEF ListShuffle
  <2>2. candidates \in SUBSET Listed /\ kept \in {{}, marked}
    OBVIOUS
  <2>3. /\ o.next \in candidates \cup {Nil}
        /\ o.marked \in SUBSET Listed
        /\ Round(o.marked, HeardAfter(o, TRUE))
        /\ o.again = FALSE
    BY <2>1, <2>2, DrawnOutcome
  <2>4. HeardAfter(o, m["random"]) = HeardAfter(o, TRUE)
    BY DEF HeardAfter
  <2> QED BY <2>3, <2>4 DEF Fitting
<1> QED BY <1>1, <1>2

LEMMA OutcomesFit ==
  ASSUME Marking, NEW m \in Modes, NEW s, NEW o \in Outcomes(m, s)
  PROVE  Fitting(o, m, s)
<1>1. CASE s = Nil
  BY <1>1, NothingFits DEF Outcomes
<1>2. CASE s # Nil /\ ~m["random"]
  <2>1. o = [Nothing EXCEPT !.next = Sequential(m, s)]
    BY <1>2 DEF Outcomes
  <2>2. o.next = Sequential(m, s) /\ o.marked = marked /\ o.cleared = FALSE /\ o.again = FALSE
    BY <2>1 DEF Nothing
  <2>3. HeardAfter(o, m["random"]) = heard
    BY <1>2, <2>2 DEF HeardAfter
  <2> QED BY <1>2, <2>2, <2>3, SequentialFits DEF Fitting, Marking
<1>3. CASE s # Nil /\ m["random"] /\ m["disk"]
  BY <1>3, DiskShuffleFits DEF Outcomes
<1>4. CASE s # Nil /\ m["random"] /\ ~m["disk"]
  BY <1>4, ListShuffleFits DEF Outcomes
<1> QED BY <1>1, <1>2, <1>3, <1>4

-----------------------------------------------------------------------------
(* Steps of one thread. *)

LEMMA Moved ==
  ASSUME Carried, NEW t \in Threads, NEW r, Carries(r), op' = [op EXCEPT ![t] = r]
  PROVE  /\ Carried'
         /\ op'[t] = r
         /\ \A u \in Threads \ {t} : op'[u] = op[u]
BY DEF Carried, Carries

LEMMA Goes ==
  ASSUME NEW o, Carries(o), NEW place \in Places \ {"pressed"}
  PROVE  LET r == [o EXCEPT !.at = place]
         IN  Carries(r) /\ r.at = place /\ r.mode = o.mode
BY DEF Carries, Ops

LEMMA GoesWith ==
  ASSUME NEW o, Carries(o), NEW place \in Places \ {"pressed"},
         NEW m \in Modes, Exclusive(m), NEW s \in Songs \cup {Nil}, NEW n \in Songs \cup {Nil},
         NEW f \in BOOLEAN
  PROVE  /\ Carries([o EXCEPT !.at = place, !.mode = m])
         /\ Carries([o EXCEPT !.at = place, !.mode = m, !.song = s])
         /\ Carries([o EXCEPT !.at = place, !.mode = m, !.next = n])
         /\ Carries([o EXCEPT !.at = place, !.song = s, !.flag = f])
         /\ Carries([o EXCEPT !.at = place, !.next = n])
         /\ Carries([o EXCEPT !.at = place, !.next = n, !.song = s])
BY DEF Carries, Ops

(* What is left to show of a step: the variables and what its thread carries. *)
LEMMA StepInv ==
  ASSUME SelectionInv, Variables', NEW t \in Threads, NEW r, Carries(r),
         op' = [op EXCEPT ![t] = r],
         t = "alsa" /\ r.at = "select" => ~r.mode["halt"]
  PROVE  SelectionInv'
<1>1. Carried' /\ op'[t] = r /\ \A u \in Threads \ {t} : op'[u] = op[u]
  BY Moved DEF SelectionInv
<1>2. "alsa" \in Threads
  BY DEF Threads
<1>3. SearchingOn'
  <2>1. CASE t = "alsa"
    BY <1>1, <2>1 DEF SearchingOn, At
  <2>2. CASE t # "alsa"
    BY <1>1, <1>2, <2>2 DEF SearchingOn, At, SelectionInv
  <2> QED BY <2>1, <2>2
<1> QED BY <1>1, <1>3 DEF SelectionInv

LEMMA PressInv ==
  ASSUME SelectionInv, NEW t \in Threads, NEW sw \in Switches, NEW place, Press(t, sw, place),
         inputs' \in 0 .. MaxInputs
  PROVE  SelectionInv'
<1> DEFINE r == [op[t] EXCEPT !.at = "pressed", !.switch = sw, !.mode = mode]
<1>1. op[t] \in Ops /\ mode \in Modes /\ Exclusive(mode)
  BY DEF SelectionInv, Carried, Variables
<1>2. r \in Ops /\ r.mode = mode /\ r.switch = sw /\ r.at = "pressed"
  BY <1>1 DEF Ops, Places
<1>3. Carries(r)
  BY <1>1, <1>2 DEF Carries
<1>4. op' = [op EXCEPT ![t] = r]
  BY DEF Press
<1>5. Variables'
  BY DEF Press, SelectionInv, Variables
<1> HIDE DEF r
<1> QED BY <1>2, <1>3, <1>4, <1>5, StepInv

LEMMA ToggleInv ==
  ASSUME SelectionInv, NEW t \in Threads, Toggle(t)
  PROVE  SelectionInv'
<1> DEFINE sw == op[t].switch
           last == op[t].mode
           on == ~button[sw]
           new == NewMode(last, sw, on)
           place == IF sw = "random" /\ last[sw] /\ ~on THEN "unmark" ELSE "write"
           r == [op[t] EXCEPT !.mode = new, !.at = place]
<1>1. /\ Carries(op[t]) /\ last \in Modes /\ Exclusive(last) /\ button \in Modes
      /\ op[t].at = "pressed"
  BY OpFields DEF SelectionInv, Carried, Variables, Carries, Toggle, At
<1>2. sw \in Switches
  BY <1>1 DEF Carries
<1>3. on \in BOOLEAN
  OBVIOUS
<1>4. new \in Modes /\ Exclusive(new)
  BY <1>1, <1>2, <1>3, NewModeExclusive
<1>5. op' = [op EXCEPT ![t] = r]
  BY DEF Toggle
<1>6. place \in Places \ {"pressed"} /\ place # "select"
  BY DEF Places
<1>7. button' = [s \in Switches |->
                   IF s = sw THEN on
                   ELSE IF on /\ ~last[sw] /\ s \in Refreshes(sw) THEN new[s] ELSE button[s]]
  BY DEF Toggle
<1> HIDE DEF new, place, sw, last
<1>8. Carries(r) /\ r.at = place
  BY <1>1, <1>4, <1>6 DEF Carries, Ops
<1>9. button' \in Modes
  BY <1>1, <1>4, <1>7 DEF Modes
<1>10. Variables'
  BY <1>9 DEF Toggle, songVars, SelectionInv, Variables
<1> HIDE DEF r
<1> QED BY <1>5, <1>6, <1>8, <1>10, StepInv

LEMMA UnmarkInv ==
  ASSUME SelectionInv, NEW t \in Threads, Unmark(t)
  PROVE  SelectionInv'
<1> DEFINE r == [op[t] EXCEPT !.at = "write"]
<1>1. Carries(op[t])
  BY DEF SelectionInv, Carried
<1>2. Carries(r) /\ r.at = "write"
  BY <1>1, Goes DEF Places
<1>3. op' = [op EXCEPT ![t] = r]
  BY DEF Unmark
<1>4. Variables'
  BY DEF Unmark, SelectionInv, Variables, Round
<1> HIDE DEF r
<1> QED BY <1>2, <1>3, <1>4, StepInv

LEMMA WriteInv ==
  ASSUME SelectionInv, NEW t \in Threads, Write(t)
  PROVE  SelectionInv'
<1>1. op[t].mode \in Modes /\ Exclusive(op[t].mode) /\ op[t].next \in Songs \cup {Nil}
  BY OpFields DEF SelectionInv, Carried, Carries
<1>2. mode' = op[t].mode /\ op' = [op EXCEPT ![t] = Idle]
  BY DEF Write
<1>3. current' \in Songs \cup {Nil}
  BY <1>1 DEF Write, SelectionInv, Variables
<1>4. Variables'
  BY <1>1, <1>2, <1>3 DEF Write, SelectionInv, Variables, Exclusive
<1> QED BY <1>2, <1>4, IdleCarries, StepInv

-----------------------------------------------------------------------------
(* The ALSA thread asks for the next song. *)

LEMMA AlsaCarries ==
  ASSUME SelectionInv
  PROVE  /\ "alsa" \in Threads /\ Carries(op["alsa"])
         /\ op["alsa"].mode \in Modes /\ Exclusive(op["alsa"].mode)
         /\ op["alsa"].song \in Songs \cup {Nil} /\ op["alsa"].next \in Songs \cup {Nil}
         /\ op["alsa"].flag \in BOOLEAN
<1>1. "alsa" \in Threads
  BY DEF Threads
<1>2. Carries(op["alsa"]) /\ op["alsa"] \in Ops /\ Exclusive(op["alsa"].mode)
  BY <1>1 DEF SelectionInv, Carried, Carries
<1> QED BY <1>1, <1>2, OpFields

LEMMA SongEndsInv == ASSUME SelectionInv, SongEnds PROVE SelectionInv'
<1> DEFINE r == [op["alsa"] EXCEPT !.at = "mode", !.mode = mode, !.song = current]
<1>1. mode \in Modes /\ Exclusive(mode) /\ current \in Songs \cup {Nil}
  BY DEF SelectionInv, Variables
<1>2. Carries(r)
  BY <1>1, AlsaCarries, GoesWith DEF Places
<1>3. r.at # "select"
  BY AlsaCarries DEF Carries, Ops
<1>4. op' = [op EXCEPT !["alsa"] = r]
  BY DEF SongEnds
<1>5. Variables'
  BY DEF SongEnds, songVars, SelectionInv, Variables
<1> HIDE DEF r
<1> QED BY <1>2, <1>3, <1>4, <1>5, AlsaCarries, StepInv

LEMMA ReadEnqueuedInv == ASSUME SelectionInv, ReadEnqueued PROVE SelectionInv'
<1> DEFINE r == [op["alsa"] EXCEPT !.at = "asked", !.next = enqueued]
<1>1. enqueued \in Songs \cup {Nil}
  BY DEF SelectionInv, Variables
<1>2. Carries(r)
  BY <1>1, AlsaCarries, GoesWith DEF Places
<1>3. r.at # "select"
  BY AlsaCarries DEF Carries, Ops
<1>4. op' = [op EXCEPT !["alsa"] = r]
  BY DEF ReadEnqueued
<1>5. Variables'
  BY DEF ReadEnqueued, songVars, SelectionInv, Variables
<1> HIDE DEF r
<1> QED BY <1>2, <1>3, <1>4, <1>5, AlsaCarries, StepInv

(* What Answer changes. *)
LEMMA AnswerMoves ==
  ASSUME SelectionInv, NEW n \in Songs \cup {Nil}, Answer(n)
  PROVE  /\ current' \in Songs \cup {Nil}
         /\ ~op["alsa"].mode["halt"] => current' = n
         /\ \E r : /\ Carries(r) /\ r.at # "select" /\ r.at # "reselect"
                  /\ op' = [op EXCEPT !["alsa"] = r]
<1>1. CASE op["alsa"].mode["halt"]
  <2> DEFINE r == [Idle EXCEPT !.at = "press", !.next = n]
  <2>1. Carries(r)
    BY IdleCarries DEF Carries, Ops, Places
  <2>2. r.at = "press"
    BY DEF Idle
  <2>3. op' = [op EXCEPT !["alsa"] = r] /\ current' = current
    BY <1>1 DEF Answer
  <2> HIDE DEF r
  <2> QED BY <1>1, <2>1, <2>2, <2>3 DEF SelectionInv, Variables
<1>2. CASE ~op["alsa"].mode["halt"]
  <2>1. op' = [op EXCEPT !["alsa"] = Idle] /\ current' = n
    BY <1>2 DEF Answer
  <2> QED BY <2>1, IdleCarries
<1> QED BY <1>1, <1>2

LEMMA AnswerEnqueuedInv == ASSUME SelectionInv, AnswerEnqueued PROVE SelectionInv'
<1>1. Answer(op["alsa"].next)
  BY DEF AnswerEnqueued
<1>2. PICK r : Carries(r) /\ r.at # "select" /\ op' = [op EXCEPT !["alsa"] = r]
  BY <1>1, AlsaCarries, AnswerMoves
<1>3. current' \in Songs \cup {Nil}
  BY <1>1, AlsaCarries, AnswerMoves
<1>4. Variables'
  BY <1>3 DEF AnswerEnqueued, SelectionInv, Variables
<1> QED BY <1>2, <1>4, AlsaCarries, StepInv

LEMMA AnswerByModeInv == ASSUME SelectionInv, AnswerByMode PROVE SelectionInv'
<1> DEFINE m == op["alsa"].mode
<1>1. UNCHANGED <<mode, button, marked, heard, enqueued, inputs>>
  BY DEF AnswerByMode
<1>2. CASE m["halt"] \/ m["single"]
  <2>1. PICK n \in Songs \cup {Nil} : Answer(n) /\ holder' = holder
    BY <1>2, AlsaCarries DEF AnswerByMode
  <2>2. PICK r : Carries(r) /\ r.at # "select" /\ op' = [op EXCEPT !["alsa"] = r]
    BY <2>1, AnswerMoves
  <2>3. current' \in Songs \cup {Nil}
    BY <2>1, AnswerMoves
  <2>4. Variables'
    BY <1>1, <2>1, <2>3 DEF SelectionInv, Variables
  <2> QED BY <2>2, <2>4, AlsaCarries, StepInv
<1>3. CASE ~m["halt"] /\ ~m["single"]
  <2> DEFINE r == [op["alsa"] EXCEPT !.at = "select"]
  <2>1. op' = [op EXCEPT !["alsa"] = r] /\ holder' = "alsa" /\ current' = current
    BY <1>3 DEF AnswerByMode
  <2>2. Carries(r) /\ r.mode = m
    BY AlsaCarries, Goes DEF Places
  <2>3. Variables'
    BY <1>1, <2>1 DEF SelectionInv, Variables
  <2> HIDE DEF r
  <2> QED BY <1>3, <2>1, <2>2, <2>3, AlsaCarries, StepInv
<1> QED BY <1>2, <1>3

LEMMA MarkersSetKept ==
  ASSUME SelectionInv, NEW m \in Modes, NEW s, NEW o \in Outcomes(m, s), MarkersSet(o, m["random"])
  PROVE  marked' \in SUBSET Listed /\ heard' \in SUBSET Listed /\ Round(marked', heard')
<1>1. Marking
  BY DEF SelectionInv, Variables, Marking
<1>2. Fitting(o, m, s)
  BY <1>1, OutcomesFit
<1>3. marked' = o.marked /\ heard' = HeardAfter(o, m["random"])
  BY DEF MarkersSet, HeardAfter
<1> QED BY <1>2, <1>3 DEF Fitting, Round

LEMMA AnswerSelectedInv == ASSUME SelectionInv, AnswerSelected PROVE SelectionInv'
<1> DEFINE m == op["alsa"].mode
           s == op["alsa"].song
<1>1. PICK o \in Outcomes(m, s) : MarkersSet(o, m["random"]) /\ Answer(o.next)
  BY DEF AnswerSelected
<1>2. marked' \in SUBSET Listed /\ heard' \in SUBSET Listed /\ Round(marked', heard')
  BY <1>1, AlsaCarries, MarkersSetKept
<1>3. Fitting(o, m, s)
  BY <1>1, AlsaCarries, OutcomesFit DEF SelectionInv, Variables, Marking
<1>4. o.next \in Songs \cup {Nil}
  BY <1>3, ListedSongs DEF Fitting
<1>5. PICK r : Carries(r) /\ r.at # "select" /\ op' = [op EXCEPT !["alsa"] = r]
  BY <1>1, <1>4, AnswerMoves
<1>6. current' \in Songs \cup {Nil}
  BY <1>1, <1>4, AnswerMoves
<1>7. Variables'
  BY <1>2, <1>6 DEF AnswerSelected, SelectionInv, Variables
<1> QED BY <1>5, <1>7, AlsaCarries, StepInv

-----------------------------------------------------------------------------
(* The task. *)

LEMMA TaskCarries ==
  ASSUME SelectionInv
  PROVE  /\ "task" \in Threads /\ Carries(op["task"])
         /\ op["task"].mode \in Modes /\ Exclusive(op["task"].mode)
         /\ op["task"].song \in Songs \cup {Nil} /\ op["task"].next \in Songs \cup {Nil}
         /\ op["task"].flag \in BOOLEAN
<1>1. "task" \in Threads
  BY DEF Threads
<1>2. Carries(op["task"]) /\ op["task"] \in Ops /\ Exclusive(op["task"].mode)
  BY <1>1 DEF SelectionInv, Carried, Carries
<1> QED BY <1>1, <1>2, OpFields

LEMMA TaskStep ==
  ASSUME SelectionInv, Variables', NEW r, Carries(r), op' = [op EXCEPT !["task"] = r]
  PROVE  SelectionInv'
BY TaskCarries, StepInv

LEMMA TaskValuesInv == ASSUME SelectionInv, TaskValues PROVE SelectionInv'
<1> DEFINE r == [op["task"] EXCEPT !.at = "taken", !.song = current, !.flag = mode["random"]]
<1>1. current \in Songs \cup {Nil} /\ mode["random"] \in BOOLEAN
  BY ModeValues, SwitchNames DEF SelectionInv, Variables
<1>2. Carries(r)
  BY ZenonT(30), <1>1, TaskCarries, GoesWith DEF Places
<1>3. op' = [op EXCEPT !["task"] = r]
  BY DEF TaskValues
<1>4. Variables'
  BY DEF TaskValues, songVars, SelectionInv, Variables
<1> HIDE DEF r
<1> QED BY <1>2, <1>3, <1>4, TaskStep

LEMMA TaskRequestsInv ==
  ASSUME SelectionInv, NEW n \in Songs \cup {Nil}, NEW q \in Songs \cup {Nil}, TaskRequests(n, q),
         inputs' \in 0 .. MaxInputs
  PROVE  SelectionInv'
<1> DEFINE r == [op["task"] EXCEPT !.at = "execute", !.next = n, !.song = Nil]
<1>1. Carries(r)
  BY ZenonT(30), TaskCarries, GoesWith DEF Places
<1>2. op' = [op EXCEPT !["task"] = r]
  BY DEF TaskRequests
<1>3. Variables'
  BY DEF TaskRequests, SelectionInv, Variables
<1> HIDE DEF r
<1> QED BY <1>1, <1>2, <1>3, TaskStep

LEMMA InputType == ASSUME SelectionInv, Input PROVE inputs' \in 0 .. MaxInputs
<1>1. inputs \in 0 .. MaxInputs /\ MaxInputs \in Nat
  BY SelectionAssumption DEF SelectionInv, Variables
<1>2. inputs < MaxInputs /\ inputs' = inputs + 1
  BY DEF Input
<1> QED BY <1>1, <1>2

LEMMA TaskCommandInv == ASSUME SelectionInv, TaskCommand PROVE SelectionInv'
<1>1. enqueued \in Songs \cup {Nil} /\ inputs \in 0 .. MaxInputs
  BY DEF SelectionInv, Variables
<1>2. CASE TaskRequests(op["task"].next, enqueued) /\ UNCHANGED inputs
  BY <1>1, <1>2, TaskCarries, TaskRequestsInv
<1>3. CASE Input /\ \E s \in Songs : TaskRequests(s, Nil)
  BY <1>3, InputType, TaskRequestsInv
<1>4. CASE Input /\ \E s \in Songs : TaskRequests(Nil, s)
  BY <1>4, InputType, TaskRequestsInv
<1> QED BY <1>2, <1>3, <1>4 DEF TaskCommand

LEMMA RandomCommandInv == ASSUME SelectionInv, RandomCommand PROVE SelectionInv'
<1> DEFINE r == [op["task"] EXCEPT !.at = "random", !.mode = mode, !.next = Nil]
<1>1. mode \in Modes /\ Exclusive(mode)
  BY DEF SelectionInv, Variables
<1>2. Carries(r)
  BY <1>1, TaskCarries, GoesWith DEF Places
<1>3. op' = [op EXCEPT !["task"] = r]
  BY DEF RandomCommand
<1>4. inputs' \in 0 .. MaxInputs
  BY InputType DEF RandomCommand
<1>5. Variables'
  BY <1>4 DEF RandomCommand, SelectionInv, Variables
<1> HIDE DEF r
<1> QED BY <1>2, <1>3, <1>5, TaskStep

LEMMA MarkSongKept ==
  ASSUME SelectionInv, NEW s, MarkSong(s)
  PROVE  marked' \in SUBSET Listed /\ heard' \in SUBSET Listed /\ Round(marked', heard')
BY DEF MarkSong, SelectionInv, Variables, Round

LEMMA RandomMarksInv == ASSUME SelectionInv, RandomMarks PROVE SelectionInv'
<1> DEFINE r == [op["task"] EXCEPT !.at = "select"]
<1>1. Carries(r)
  BY TaskCarries, Goes DEF Places
<1>2. op' = [op EXCEPT !["task"] = r]
  BY DEF RandomMarks
<1>3. marked' \in SUBSET Listed /\ heard' \in SUBSET Listed /\ Round(marked', heard')
  <2>1. CASE op["task"].mode["random"]
    BY <2>1, MarkSongKept DEF RandomMarks
  <2>2. CASE ~op["task"].mode["random"]
    BY <2>2 DEF RandomMarks, SelectionInv, Variables
  <2> QED BY <2>1, <2>2
<1>4. Variables'
  BY <1>3 DEF RandomMarks, SelectionInv, Variables
<1> HIDE DEF r
<1> QED BY <1>1, <1>2, <1>4, TaskStep

(* What RandomFound changes. *)
LEMMA FoundMoves ==
  ASSUME SelectionInv, NEW n \in Songs \cup {Nil}, RandomFound(n)
  PROVE  \E r : /\ Carries(r) /\ r.at = "execute" /\ r.next = n
               /\ op' = [op EXCEPT !["task"] = r]
<1> DEFINE r == [Idle EXCEPT !.at = "execute", !.next = n, !.flag = op["task"].flag]
<1>1. Carries(r)
  BY IdleCarries, TaskCarries DEF Carries, Ops, Places
<1>2. r.at = "execute" /\ r.next = n
  BY DEF Idle
<1>3. op' = [op EXCEPT !["task"] = r]
  BY DEF RandomFound
<1> HIDE DEF r
<1> QED BY <1>1, <1>2, <1>3

LEMMA TaskFits ==
  ASSUME SelectionInv, NEW o \in Outcomes(op["task"].mode, op["task"].song)
  PROVE  /\ Fitting(o, op["task"].mode, op["task"].song)
         /\ o.next \in Songs \cup {Nil}
<1>1. Fitting(o, op["task"].mode, op["task"].song)
  BY TaskCarries, OutcomesFit DEF SelectionInv, Variables, Marking
<1> QED BY <1>1, ListedSongs DEF Fitting

LEMMA RandomSelectedInv == ASSUME SelectionInv, RandomSelected PROVE SelectionInv'
<1> DEFINE m == op["task"].mode
           s == op["task"].song
<1>1. PICK o \in Outcomes(m, s) :
        IF o.next # Nil THEN MarkersSet(o, m["random"]) /\ RandomFound(o.next)
        ELSE /\ marked' = {} /\ heard' = {}
             /\ holder' = "task"
             /\ op' = [op EXCEPT !["task"].at = "reselect"]
             /\ UNCHANGED enqueued
  BY DEF RandomSelected
<1>2. CASE o.next # Nil
  <2>1. marked' \in SUBSET Listed /\ heard' \in SUBSET Listed /\ Round(marked', heard')
    BY <1>1, <1>2, TaskCarries, MarkersSetKept
  <2>2. PICK r : Carries(r) /\ op' = [op EXCEPT !["task"] = r]
    BY <1>1, <1>2, TaskFits, FoundMoves
  <2>3. Variables'
    BY <1>1, <1>2, <2>1 DEF RandomSelected, RandomFound, SelectionInv, Variables
  <2> QED BY <2>2, <2>3, TaskStep
<1>3. CASE o.next = Nil
  <2> DEFINE r == [op["task"] EXCEPT !.at = "reselect"]
  <2>1. Carries(r)
    BY TaskCarries, Goes DEF Places
  <2>2. op' = [op EXCEPT !["task"] = r]
    BY <1>1, <1>3
  <2>3. Variables'
    BY <1>1, <1>3 DEF RandomSelected, SelectionInv, Variables, Round
  <2> HIDE DEF r
  <2> QED BY <2>1, <2>2, <2>3, TaskStep
<1> QED BY <1>2, <1>3

LEMMA RandomReselectedInv == ASSUME SelectionInv, RandomReselected PROVE SelectionInv'
<1> DEFINE m == op["task"].mode
           s == op["task"].song
<1>1. PICK o \in Outcomes(m, s) : MarkersSet(o, m["random"]) /\ RandomFound(o.next)
  BY DEF RandomReselected
<1>2. marked' \in SUBSET Listed /\ heard' \in SUBSET Listed /\ Round(marked', heard')
  BY <1>1, TaskCarries, MarkersSetKept
<1>3. PICK r : Carries(r) /\ op' = [op EXCEPT !["task"] = r]
  BY <1>1, TaskFits, FoundMoves
<1>4. Variables'
  BY <1>1, <1>2 DEF RandomReselected, RandomFound, SelectionInv, Variables
<1> QED BY <1>3, <1>4, TaskStep

LEMMA SelectAgainInv ==
  ASSUME SelectionInv, NEW t \in {"alsa", "task"}, SelectAgain(t)
  PROVE  SelectionInv'
<1> DEFINE m == op[t].mode
           s == op[t].song
<1>1. m \in Modes
  BY AlsaCarries, TaskCarries
<1>2. PICK o \in Outcomes(m, s) : o.again /\ MarkersSet(o, TRUE)
  BY DEF SelectAgain
<1>3. Fitting(o, m, s)
  BY <1>1, OutcomesFit DEF SelectionInv, Variables, Marking
<1>4. MarkersSet(o, m["random"])
  BY <1>2, <1>3 DEF MarkersSet, Fitting
<1>5. marked' \in SUBSET Listed /\ heard' \in SUBSET Listed /\ Round(marked', heard')
  BY <1>1, <1>4, MarkersSetKept
<1>6. op' = op /\ holder' = t
  BY DEF SelectAgain
<1>7. Variables'
  BY <1>5, <1>6 DEF SelectAgain, SelectionInv, Variables
<1> QED BY <1>6, <1>7 DEF SelectionInv, Carried, SearchingOn, At

LEMMA TaskWaitsInv == ASSUME SelectionInv, TaskWaits PROVE SelectionInv'
<1> DEFINE r == [Idle EXCEPT !.next = op["task"].next]
<1>1. Carries(r)
  BY IdleCarries, TaskCarries DEF Carries, Ops, Places
<1>2. op' = [op EXCEPT !["task"] = r]
  BY DEF TaskWaits
<1>3. Variables'
  BY DEF TaskWaits, songVars, SelectionInv, Variables
<1> HIDE DEF r
<1> QED BY <1>1, <1>2, <1>3, TaskStep

LEMMA TaskPlaysInv == ASSUME SelectionInv, TaskPlays PROVE SelectionInv'
<1> DEFINE r == IF op["task"].flag THEN [Idle EXCEPT !.at = "mark", !.song = op["task"].next] ELSE Idle
<1>1. Carries(r)
  <2>1. Carries([Idle EXCEPT !.at = "mark", !.song = op["task"].next])
    BY IdleCarries, TaskCarries DEF Carries, Ops, Places
  <2> QED BY <2>1, IdleCarries
<1>2. op' = [op EXCEPT !["task"] = r]
  BY DEF TaskPlays
<1>3. Variables'
  BY TaskCarries DEF TaskPlays, SelectionInv, Variables
<1> HIDE DEF r
<1> QED BY <1>1, <1>2, <1>3, TaskStep

LEMMA TaskMarksInv == ASSUME SelectionInv, TaskMarks PROVE SelectionInv'
<1>1. marked' \in SUBSET Listed /\ heard' \in SUBSET Listed /\ Round(marked', heard')
  BY MarkSongKept DEF TaskMarks
<1>2. op' = [op EXCEPT !["task"] = Idle]
  BY DEF TaskMarks
<1>3. Variables'
  BY <1>1 DEF TaskMarks, SelectionInv, Variables
<1> QED BY <1>2, <1>3, IdleCarries, TaskStep

-----------------------------------------------------------------------------
(* The theorems. *)

LEMMA InitInv == Init => SelectionInv
<1> SUFFICES ASSUME Init PROVE SelectionInv
  OBVIOUS
<1>1. mode \in Modes /\ Exclusive(mode)
  <2>1. \A sw \in Switches : Off[sw] = FALSE /\ ([Off EXCEPT !["disk"] = TRUE])[sw] = (sw = "disk")
    BY SwitchNames DEF Off
  <2>2. Off \in Modes /\ [Off EXCEPT !["disk"] = TRUE] \in Modes
    BY DEF Off, Modes
  <2>3. ~mode["single"]
    BY <2>1, SwitchNames DEF Init
  <2> QED BY <2>2, <2>3 DEF Init, Exclusive
<1>2. op = [t \in Threads |-> Idle]
  BY DEF Init
<1>3. Carried
  BY <1>2, IdleCarries DEF Carried, Carries
<1>4. SearchingOn
  BY <1>2, IdleCarries DEF SearchingOn, At, Threads
<1>5. Variables
  BY <1>1, SelectionAssumption DEF Init, Variables, Round
<1> QED BY <1>3, <1>4, <1>5 DEF SelectionInv

LEMMA NextInv == SelectionInv /\ Next => SelectionInv'
<1> SUFFICES ASSUME SelectionInv, Next PROVE SelectionInv'
  OBVIOUS
<1>1. CASE \E t \in Pressers, sw \in Offered : UserPress(t, sw)
  <2>1. PICK t \in Pressers, sw \in Offered : UserPress(t, sw)
    BY <1>1
  <2>2. t \in Threads /\ sw \in Switches
    BY SelectionAssumption DEF Threads
  <2> QED BY <2>1, <2>2, InputType, PressInv DEF UserPress
<1>2. CASE HaltPress
  <2>1. inputs' \in 0 .. MaxInputs
    BY <1>2 DEF HaltPress, SelectionInv, Variables
  <2> QED BY <1>2, <2>1, AlsaCarries, SwitchNames, PressInv DEF HaltPress
<1>3. CASE \E t \in Threads : Switching(t)
  BY <1>3, ToggleInv, UnmarkInv, WriteInv DEF Switching
<1>4. CASE SongEnds
  BY <1>4, SongEndsInv
<1>5. CASE Asking
  BY <1>5, ReadEnqueuedInv, AnswerEnqueuedInv, AnswerByModeInv, AnswerSelectedInv DEF Asking
<1>6. CASE Commanding
  BY <1>6, TaskValuesInv, TaskCommandInv, RandomCommandInv, RandomMarksInv, RandomSelectedInv,
     RandomReselectedInv, TaskWaitsInv, TaskPlaysInv, TaskMarksInv DEF Commanding
<1>7. CASE \E t \in {"alsa", "task"} : SelectAgain(t)
  BY <1>7, SelectAgainInv
<1> QED BY <1>1, <1>2, <1>3, <1>4, <1>5, <1>6, <1>7 DEF Next

LEMMA StutterInv == SelectionInv /\ UNCHANGED vars => SelectionInv'
BY DEF vars, SelectionInv, Variables, Carried, SearchingOn, At

LEMMA SelectionInvariant == Safety => []SelectionInv
<1>1. SelectionInv /\ [Next]_vars => SelectionInv'
  BY NextInv, StutterInv
<1> QED BY InitInv, <1>1, PTL DEF Safety

(* Every variable has its type: modes and buttons, the places of the threads,
   markers that only mark songs of the playlist. *)
THEOREM SelectionTypeCorrect == Safety => []TypeOK
<1>1. SelectionInv => TypeOK
  BY DEF SelectionInv, Variables, Carried, TypeOK
<1> QED BY <1>1, SelectionInvariant, PTL

(* executeRepeatModeAction(): however many threads write modes that they read
   before others wrote theirs, single mode excludes every other mode. *)
THEOREM ModesExclude == Safety => []ModeExclusive
<1>1. SelectionInv => ModeExclusive
  BY DEF SelectionInv, Variables, Exclusive, ModeExclusive
<1> QED BY <1>1, SelectionInvariant, PTL

(* Only these steps end a selection. *)
LEMMA SelectionSteps ==
  ASSUME SelectionInv, Next, NEW t \in {"alsa", "task"}, Selects(t)
  PROVE  \/ t = "alsa" /\ AnswerSelected
         \/ t = "task" /\ (RandomSelected \/ RandomReselected)
<1>1. t \in Threads /\ op \in [Threads -> Ops]
  BY DEF Threads, SelectionInv, Carried
<1>2. Selecting(op[t].at) /\ ~Selecting(op'[t].at)
  BY DEF Selects
<1>3. op[t].at \in {"select", "reselect"} /\ op'[t] # op[t]
  BY <1>2 DEF Selecting
<1>4. ~\E u \in Pressers, sw \in Offered : UserPress(u, sw)
  <2> SUFFICES ASSUME NEW u \in Pressers, NEW sw \in Offered, UserPress(u, sw) PROVE FALSE
    OBVIOUS
  <2>1. u \in Threads /\ op[u].at \in {"taken", "idle"}
    BY SelectionAssumption DEF Threads, UserPress, Press, At
  <2>2. t # u
    BY <1>3, <2>1
  <2> QED BY <1>1, <1>3, <2>1, <2>2 DEF UserPress, Press
<1>5. ~HaltPress
  BY <1>1, <1>3 DEF HaltPress, Press, At
<1>6. ~\E u \in Threads : Switching(u)
  <2> SUFFICES ASSUME NEW u \in Threads, Switching(u) PROVE FALSE
    OBVIOUS
  <2>1. op[u].at \in {"pressed", "unmark", "write"}
    BY DEF Switching, Toggle, Unmark, Write, At
  <2>2. t # u
    BY <1>3, <2>1
  <2>3. \E r : op' = [op EXCEPT ![u] = r]
    BY DEF Switching, Toggle, Unmark, Write
  <2> QED BY <1>1, <1>3, <2>2, <2>3
<1>7. ~SongEnds
  BY <1>1, <1>3 DEF SongEnds, At
<1>8. Asking => t = "alsa" /\ AnswerSelected
  <2>1. ~ReadEnqueued
    BY <1>1, <1>3 DEF ReadEnqueued, At
  <2>2. ~AnswerEnqueued
    BY <1>1, <1>3 DEF AnswerEnqueued, Answer, At
  <2>3. ~AnswerByMode
    BY <1>1, <1>3 DEF AnswerByMode, Answer, At
  <2>4. AnswerSelected => t = "alsa"
    BY <1>1, <1>3 DEF AnswerSelected, Answer
  <2> QED BY <2>1, <2>2, <2>3, <2>4 DEF Asking
<1>9. Commanding => t = "task" /\ (RandomSelected \/ RandomReselected)
  <2>1. ~TaskValues
    BY <1>1, <1>3 DEF TaskValues, At
  <2>2. ~TaskCommand
    BY <1>1, <1>3 DEF TaskCommand, TaskRequests, At
  <2>3. ~RandomCommand
    BY <1>1, <1>3 DEF RandomCommand, At
  <2>4. ~RandomMarks
    BY <1>1, <1>3 DEF RandomMarks, At
  <2>5. ~TaskWaits
    BY <1>1, <1>3 DEF TaskWaits, At
  <2>6. ~TaskPlays
    BY <1>1, <1>3 DEF TaskPlays, At
  <2>7. ~TaskMarks
    BY <1>1, <1>3 DEF TaskMarks, At
  <2>8. RandomSelected => t = "task"
    BY <1>1, <1>3 DEF RandomSelected, RandomFound
  <2>9. RandomReselected => t = "task"
    BY <1>1, <1>3 DEF RandomReselected, RandomFound
  <2> QED BY <2>1, <2>2, <2>3, <2>4, <2>5, <2>6, <2>7, <2>8, <2>9 DEF Commanding
<1>10. ~\E u \in {"alsa", "task"} : SelectAgain(u)
  BY <1>3 DEF SelectAgain
<1> QED BY <1>4, <1>5, <1>6, <1>7, <1>8, <1>9, <1>10 DEF Next

(* What a selection gives is what one of its outcomes says. *)
LEMMA ChosenFits ==
  ASSUME SelectionInv, Next, NEW t \in {"alsa", "task"}, Selects(t)
  PROVE  \E o \in Outcomes(op[t].mode, op[t].song) :
           /\ Fitting(o, op[t].mode, op[t].song)
           /\ Chosen(t) = o.next
           /\ ~o.again
<1>1. CASE t = "alsa" /\ AnswerSelected
  <2>1. PICK o \in Outcomes(op["alsa"].mode, op["alsa"].song) : ~o.again /\ Answer(o.next)
    BY <1>1 DEF AnswerSelected
  <2>2. Fitting(o, op["alsa"].mode, op["alsa"].song)
    BY AlsaCarries, OutcomesFit DEF SelectionInv, Variables, Marking
  <2>3. o.next \in Songs \cup {Nil}
    BY <2>2, ListedSongs DEF Fitting
  <2>4. ~op["alsa"].mode["halt"]
    BY <1>1 DEF AnswerSelected, SelectionInv, SearchingOn
  <2>5. current' = o.next
    BY <2>1, <2>4 DEF Answer
  <2> QED BY <1>1, <2>1, <2>2, <2>5 DEF Chosen
<1>2. CASE t = "task" /\ (RandomSelected \/ RandomReselected)
  <2>1. PICK o \in Outcomes(op["task"].mode, op["task"].song) :
          ~o.again /\ (RandomFound(o.next) \/ op' = [op EXCEPT !["task"].at = "reselect"])
    BY <1>2 DEF RandomSelected, RandomReselected
  <2>2. op' # [op EXCEPT !["task"].at = "reselect"]
    BY <1>2, TaskCarries DEF Selects, Selecting, SelectionInv, Carried, Ops
  <2>3. Fitting(o, op["task"].mode, op["task"].song) /\ o.next \in Songs \cup {Nil}
    BY TaskFits
  <2>4. PICK r : r.next = o.next /\ op' = [op EXCEPT !["task"] = r]
    BY <2>1, <2>2, <2>3, FoundMoves
  <2>5. op'["task"].next = o.next
    BY <2>4, TaskCarries DEF SelectionInv, Carried
  <2> QED BY <1>2, <2>1, <2>3, <2>5 DEF Chosen
<1> QED BY <1>1, <1>2, SelectionSteps

LEMMA NoSelection == ASSUME UNCHANGED vars, NEW t PROVE ~Selects(t)
BY DEF vars, Selects

(* In disk mode the song after another one is of its album, for any albums,
   also with the shuffle, at the end of the disk and when it is repeated. *)
THEOREM DiskStays == Safety => DiskStaysOnAlbum
<1>1. ASSUME SelectionInv, [Next]_vars, NEW t \in {"alsa", "task"}, Selects(t),
             op[t].mode["disk"], Chosen(t) # Nil
      PROVE  AlbumOf[Chosen(t)] = AlbumOf[op[t].song]
  BY <1>1, ChosenFits, NoSelection DEF Fitting
<1>2. SelectionInv /\ [Next]_vars =>
        \A t \in {"alsa", "task"} :
          Selects(t) /\ op[t].mode["disk"] /\ Chosen(t) # Nil => AlbumOf[Chosen(t)] = AlbumOf[op[t].song]
  BY <1>1
<1> QED BY <1>2, SelectionInvariant, PTL DEF Safety, DiskStaysOnAlbum

(* The disk shuffle plays each song of the album that is long enough before it
   plays one again. *)
THEOREM RoundsAreComplete == Safety => RoundBeforeRepeat
<1>1. ASSUME SelectionInv, [Next]_vars, NEW t \in {"alsa", "task"}, Selects(t),
             op[t].mode["disk"], op[t].mode["random"], Chosen(t) \in heard,
             NEW s \in Listed \ Short, AlbumOf[s] = AlbumOf[Chosen(t)]
      PROVE  s \in heard
  <2>1. PICK o : Fitting(o, op[t].mode, op[t].song) /\ Chosen(t) = o.next
    BY <1>1, ChosenFits, NoSelection
  <2>2. o.next # Nil
    BY <1>1, <2>1, ListedSongs DEF SelectionInv, Variables
  <2> QED BY <1>1, <2>1, <2>2 DEF Fitting
<1>2. SelectionInv /\ [Next]_vars =>
        \A t \in {"alsa", "task"} :
          Selects(t) /\ op[t].mode["disk"] /\ op[t].mode["random"] /\ Chosen(t) \in heard =>
            \A s \in Listed \ Short : AlbumOf[s] = AlbumOf[Chosen(t)] => s \in heard
  BY <1>1
<1> QED BY <1>2, SelectionInvariant, PTL DEF Safety, RoundBeforeRepeat

(* A repeated disk or playlist goes on for ever: the end of it is followed by
   its beginning. *)
THEOREM RepeatEndsNever == Safety => RepeatGoesOn
<1>1. ASSUME SelectionInv, [Next]_vars, Selects("alsa"), op["alsa"].mode["repeat"],
             op["alsa"].song \in Listed
      PROVE  Chosen("alsa") # Nil \/ (op["alsa"].mode["random"] /\ ~op["alsa"].mode["disk"])
  BY <1>1, ChosenFits, NoSelection DEF Fitting
<1>2. SelectionInv /\ [Next]_vars =>
        (Selects("alsa") /\ op["alsa"].mode["repeat"] /\ op["alsa"].song \in Listed =>
           Chosen("alsa") # Nil \/ (op["alsa"].mode["random"] /\ ~op["alsa"].mode["disk"]))
  BY <1>1
<1> QED BY <1>2, SelectionInvariant, PTL DEF Safety, RepeatGoesOn

=============================================================================
