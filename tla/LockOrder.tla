------------------------------- MODULE LockOrder -------------------------------
(***************************************************************************)
(* The locks that TPlayer and TAlsaPlayer share: which thread holds and    *)
(* waits for which lock while it runs an operation of the program.         *)
(*                                                                         *)
(* An operation is the sequence of the sets of locks its thread holds, one *)
(* for each guard that is entered or left.  A guarded section that is the  *)
(* body of a condition may be passed over.  rescanMtx is only ever tried:  *)
(* an operation that does not get it is not executed.  Mutexes nothing     *)
(* else is waited for under (queue, mode, display, stream) are left out.   *)
(***************************************************************************)
EXTENDS Naturals, Sequences

CONSTANTS
  Threads,      \* alsaThreadMethod(), the task, web server and other threads
  Work,         \* the names of the operations a thread may run
  Idle          \* no operation

Scan  == <<"rescanMtx", "own">>
Alsa  == <<"alsaMtx", "own">>
Event == <<"eventMtx", "own">>
Read  == <<"libraryLck", "read">>
Write == <<"libraryLck", "write">>

Locks == {Scan, Alsa, Event, Read, Write}

(* Readers share libraryLck; every other lock has one owner, which is not
   recursive. *)
Conflict(l, k) == l[1] = k[1] /\ ~(l = Read /\ k = Read)

-----------------------------------------------------------------------------
(* The operations. *)

(* alsaThreadMethod(): the next song is chosen under alsaMtx, the events are
   delivered under eventMtx after it was left. *)
Period ==
  <<{}, {Alsa}, {Alsa, Write}, {Alsa}, {}, {Event}, {Event, Write}, {Event}, {}>>

(* executePlayerCommand(): play() with the reset of a device that is closed
   and the callback of an error, toggle(), stop(), and the playlist's entry. *)
Command ==
  <<{}, {Scan}, {Scan, Alsa}, {Scan, Alsa, Event}, {Scan, Alsa}, {Scan, Alsa, Write}, {Scan, Alsa},
    {Scan}, {Scan, Event}, {Scan, Event, Write}, {Scan, Event}, {Scan}, {Scan, Write}, {Scan}, {}>>

(* executeBufferTask(), without the collection of garbage at its end. *)
Buffering ==
  <<{}, {Scan}, {Scan, Read}, {Scan}, {Scan, Alsa}, {Scan}, {Scan, Read}, {Scan}, {Scan, Alsa}, {Scan}, {}>>

(* closeAlsaDevice(). *)
CloseDevice == <<{}, {Alsa}, {Alsa, Event}, {Alsa}, {}>>

(* Fault: the library is locked before the player is stopped. *)
RebuildLocked ==
  <<{}, {Scan}, {Scan, Write}, {Scan, Write, Alsa}, {Scan, Write, Alsa, Event}, {Scan, Write, Alsa},
    {Scan, Write}, {Scan}, {}>>
(* rebuildLibrary(), deleteLibrary() and rescanLibrary(). *)
Rebuild ==
  <<{}, {Scan}, {Scan, Alsa}, {Scan, Alsa, Event}, {Scan, Alsa}, {Scan}, {Scan, Event}, {Scan, Event, Write},
    {Scan, Event}, {Scan}, {Scan, Alsa}, {Scan}, {Scan, Write}, {Scan}, {Scan, Read}, {Scan}, {}>>

(* A page that shows the library; the player is asked before. *)
ShowLibrary == <<{}, {Alsa}, {}, {Read}, {}>>

(* Fault: the player is asked for the song that plays. *)
ChangeLibraryAsking == <<{}, {Write}, {Write, Alsa}, {Write}, {}>>
(* addSong(), deleteSong() and the like. *)
ChangeLibrary == <<{}, {Write}, {}>>

(* playlistGarbageCollector(). *)
CollectGarbage ==
  <<{}, {Scan}, {Scan, Write}, {Scan, Write, Alsa}, {Scan, Write}, {Scan}, {}>>

(* onDialogData(), DELETEPLAYLIST. *)
DeletePlaylist ==
  <<{}, {Write}, {Write, Alsa}, {Write, Alsa, Event}, {Write, Alsa}, {Write}, {Write, Alsa}, {Write}, {}>>

(* executeRepeatModeAction(). *)
RandomOff == <<{}, {Write}, {Write, Alsa}, {Write}, {}>>

Ordered ==
  [period |-> Period, command |-> Command, buffering |-> Buffering, close |-> CloseDevice,
   rebuild |-> Rebuild, show |-> ShowLibrary, change |-> ChangeLibrary]
Inverted == [garbage |-> CollectGarbage, delete |-> DeletePlaylist, random |-> RandomOff]

OrderedNames == DOMAIN Ordered
Names == OrderedNames \cup DOMAIN Inverted
Walk(o) == IF o \in OrderedNames THEN Ordered[o] ELSE Inverted[o]

ASSUME WorkAssumption == Work \in [Threads -> SUBSET Names] /\ Idle \notin Names

-----------------------------------------------------------------------------
VARIABLES
  op,   \* the operation a thread runs
  at,   \* its place in the operation
  next  \* the place it goes to, when it has the locks

vars == <<op, at, next>>

Init ==
  /\ op = [t \in Threads |-> Idle]
  /\ at = [t \in Threads |-> 1]
  /\ next = [t \in Threads |-> 1]

Held(t) == IF op[t] = Idle THEN {} ELSE Walk(op[t])[at[t]]
Wanted(t) == IF op[t] = Idle THEN {} ELSE Walk(op[t])[next[t]] \ Held(t)

(* t needs a lock that u holds. *)
Blocks(u, t) == \E l \in Wanted(t), k \in Held(u) : Conflict(l, k)
Free(t) == \A u \in Threads : ~Blocks(u, t)

(* Fault: a section is repeated until it succeeds. *)
ChoicesRepeating(o, i) ==
  {j \in DOMAIN Walk(o) : j = i + 1 \/ (j # i /\ Walk(o)[j] = Walk(o)[i])}
(* One guard further, or past sections that are not needed. *)
Choices(o, i) ==
  {j \in DOMAIN Walk(o) : j = i + 1 \/ (j > i /\ Walk(o)[j] = Walk(o)[i])}

(* Fault: the way to the first guard is not chosen. *)
BeginInPlace(t, o) ==
  /\ op[t] = Idle
  /\ o \in Work[t]
  /\ op' = [op EXCEPT ![t] = o]
  /\ UNCHANGED <<at, next>>
Begin(t, o) ==
  /\ op[t] = Idle
  /\ o \in Work[t]
  /\ op' = [op EXCEPT ![t] = o]
  /\ at' = [at EXCEPT ![t] = 1]
  /\ \E j \in Choices(o, 1) : next' = [next EXCEPT ![t] = j]

Finish(t) ==
  /\ op' = [op EXCEPT ![t] = Idle]
  /\ at' = [at EXCEPT ![t] = 1]
  /\ next' = [next EXCEPT ![t] = 1]

(* A guard is entered or left. *)
Pass(t) ==
  /\ op[t] # Idle
  /\ Free(t)
  /\ IF next[t] = Len(Walk(op[t])) THEN Finish(t)
     ELSE /\ at' = [at EXCEPT ![t] = next[t]]
          /\ \E j \in Choices(op[t], next[t]) : next' = [next EXCEPT ![t] = j]
          /\ UNCHANGED op

(* tryLock() fails. *)
GiveUp(t) ==
  /\ Scan \in Wanted(t)
  /\ ~Free(t)
  /\ Finish(t)

Next == \E t \in Threads : (\E o \in Work[t] : Begin(t, o)) \/ Pass(t) \/ GiveUp(t)

Safety == Init /\ [][Next]_vars

(* A thread that may take a lock again and again gets it in the end; a thread
   need not begin an operation. *)
Spec == Safety /\ \A t \in Threads : SF_vars(Pass(t)) /\ WF_vars(GiveUp(t))

-----------------------------------------------------------------------------
(* Properties. *)

(* Every variable has its type. *)
TypeOK ==
  /\ op \in [Threads -> Names \cup {Idle}]
  /\ at \in [Threads -> Nat]
  /\ next \in [Threads -> Nat]
  /\ \A t \in Threads : op[t] # Idle => at[t] \in DOMAIN Walk(op[t]) /\ next[t] \in Choices(op[t], at[t])

(* No set of threads waits for each other: whoever waits for a lock waits for
   threads that are able to go on. *)
Waits(t) == Scan \notin Wanted(t) /\ ~Free(t)
NoDeadlock ==
  ~\E D \in SUBSET Threads :
      D # {} /\ \A t \in D : Waits(t) /\ \E u \in D : Blocks(u, t)

(* Each operation comes to its end, whatever the other threads do, unless
   readers of the library overlap for ever: libraryLck prefers readers. *)
NobodyReads == \A t \in Threads : Read \notin Held(t)
OperationsEnd == []<>NobodyReads => \A t \in Threads : op[t] # Idle ~> op[t] = Idle

=============================================================================
