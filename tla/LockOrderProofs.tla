--------------------------- MODULE LockOrderProofs ---------------------------
(***************************************************************************)
(* Proofs about LockOrder, for any number of threads: operations that take *)
(* alsaMtx before eventMtx and eventMtx before libraryLck never wait for   *)
(* each other.                                                             *)
(***************************************************************************)
EXTENDS LockOrder, TLAPS

(* The order of the locks. *)
Rank(l) ==
  CASE l = Scan -> 0 [] l = Alsa -> 1 [] l = Event -> 2 [] OTHER -> 3

LEMMA Ranks ==
  /\ Rank(Scan) = 0 /\ Rank(Alsa) = 1 /\ Rank(Event) = 2 /\ Rank(Read) = 3 /\ Rank(Write) = 3
  /\ \A l \in Locks : Rank(l) \in 0 .. 3
  /\ \A l, k \in Locks : Conflict(l, k) => Rank(l) = Rank(k)
BY DEF Rank, Locks, Conflict, Scan, Alsa, Event, Read, Write

(* From each place of the walk w to the next one, only locks that come after
   all the ones held are taken. *)
Climbs(w, i) == \A l \in w[i + 1] \ w[i], k \in w[i] : Rank(k) < Rank(l)
OrderedWalk(w) ==
  /\ w \in Seq(SUBSET Locks)
  /\ Len(w) > 1
  /\ \A i \in 1 .. Len(w) - 1 : Climbs(w, i)

LEMMA PeriodOrdered == OrderedWalk(Period)
<1>1. Period \in Seq(SUBSET Locks) /\ Len(Period) = 9
  BY DEF Period, Locks
<1>2. \A i \in 1 .. 8 : Climbs(Period, i)
  BY Ranks DEF Period, Climbs
<1> QED  BY <1>1, <1>2 DEF OrderedWalk

LEMMA CommandOrdered == OrderedWalk(Command)
<1>1. Command \in Seq(SUBSET Locks) /\ Len(Command) = 15
  BY DEF Command, Locks
<1>2. \A i \in 1 .. 14 : Climbs(Command, i)
  BY Ranks DEF Command, Climbs
<1> QED  BY <1>1, <1>2 DEF OrderedWalk

LEMMA BufferingOrdered == OrderedWalk(Buffering)
<1>1. Buffering \in Seq(SUBSET Locks) /\ Len(Buffering) = 11
  BY DEF Buffering, Locks
<1>2. \A i \in 1 .. 10 : Climbs(Buffering, i)
  BY Ranks DEF Buffering, Climbs
<1> QED  BY <1>1, <1>2 DEF OrderedWalk

LEMMA CloseDeviceOrdered == OrderedWalk(CloseDevice)
<1>1. CloseDevice \in Seq(SUBSET Locks) /\ Len(CloseDevice) = 5
  BY DEF CloseDevice, Locks
<1>2. \A i \in 1 .. 4 : Climbs(CloseDevice, i)
  BY Ranks DEF CloseDevice, Climbs
<1> QED  BY <1>1, <1>2 DEF OrderedWalk

LEMMA RebuildOrdered == OrderedWalk(Rebuild)
<1>1. Rebuild \in Seq(SUBSET Locks) /\ Len(Rebuild) = 17
  BY DEF Rebuild, Locks
<1>2. \A i \in 1 .. 16 : Climbs(Rebuild, i)
  BY Ranks DEF Rebuild, Climbs
<1> QED  BY <1>1, <1>2 DEF OrderedWalk

LEMMA ShowLibraryOrdered == OrderedWalk(ShowLibrary)
<1>1. ShowLibrary \in Seq(SUBSET Locks) /\ Len(ShowLibrary) = 5
  BY DEF ShowLibrary, Locks
<1>2. \A i \in 1 .. 4 : Climbs(ShowLibrary, i)
  BY Ranks DEF ShowLibrary, Climbs
<1> QED  BY <1>1, <1>2 DEF OrderedWalk

LEMMA ChangeLibraryOrdered == OrderedWalk(ChangeLibrary)
<1>1. ChangeLibrary \in Seq(SUBSET Locks) /\ Len(ChangeLibrary) = 3
  BY DEF ChangeLibrary, Locks
<1>2. \A i \in 1 .. 2 : Climbs(ChangeLibrary, i)
  BY Ranks DEF ChangeLibrary, Climbs
<1> QED  BY <1>1, <1>2 DEF OrderedWalk

LEMMA WalksOrdered == \A o \in OrderedNames : OrderedWalk(Walk(o))
BY PeriodOrdered, CommandOrdered, BufferingOrdered, CloseDeviceOrdered, RebuildOrdered,
   ShowLibraryOrdered, ChangeLibraryOrdered DEF OrderedNames, Ordered, Walk

-----------------------------------------------------------------------------
(* Every thread is at a place of an ordered operation. *)
OnlyOrdered == Work \in [Threads -> SUBSET OrderedNames]
Inv == TypeOK /\ op \in [Threads -> OrderedNames \cup {Idle}]

LEMMA ChoicesOfWalk ==
  ASSUME NEW o \in OrderedNames, NEW i \in DOMAIN Walk(o), NEW j \in Choices(o, i)
  PROVE  /\ i \in Nat /\ j \in Nat /\ j \in DOMAIN Walk(o)
         /\ Walk(o)[i] \in SUBSET Locks /\ Walk(o)[j] \in SUBSET Locks
         /\ \A l \in Walk(o)[j] \ Walk(o)[i], k \in Walk(o)[i] : Rank(k) < Rank(l)
<1> DEFINE w == Walk(o)
<1>1. OrderedWalk(w)
  BY WalksOrdered
<1> HIDE DEF w
<1>2. j \in DOMAIN w /\ (j = i + 1 \/ w[j] = w[i]) /\ i \in DOMAIN w
  BY DEF Choices, w
<1>3. /\ DOMAIN w = 1 .. Len(w) /\ Len(w) \in Nat
      /\ w[i] \in SUBSET Locks /\ w[j] \in SUBSET Locks
  BY <1>1, <1>2 DEF OrderedWalk
<1>4. CASE j = i + 1
  BY <1>1, <1>2, <1>3, <1>4 DEF OrderedWalk, Climbs, w
<1>5. CASE w[j] = w[i]
  BY <1>2, <1>3, <1>5 DEF w
<1> QED  BY <1>2, <1>4, <1>5

(* The invariant of all operations that keep the order. *)
LEMMA Invariance ==
  ASSUME OnlyOrdered
  PROVE  Safety => []Inv
<1>1. Init => Inv
  BY DEF Init, Inv, TypeOK, OrderedNames, Names
<1>2. Inv /\ [Next]_vars => Inv'
  <2> SUFFICES ASSUME Inv, [Next]_vars PROVE Inv'
    OBVIOUS
  <2> USE WorkAssumption DEF OnlyOrdered, Inv, TypeOK
  <2>1. ASSUME NEW t \in Threads, NEW o \in Work[t], Begin(t, o) PROVE Inv'
    <3>1. PICK j \in Choices(o, 1) : next' = [next EXCEPT ![t] = j]
      BY <2>1 DEF Begin
    <3>2. o \in OrderedNames /\ o \in Names /\ o # Idle
      BY DEF Names
    <3>3. 1 \in DOMAIN Walk(o)
      BY <3>2, WalksOrdered DEF OrderedWalk
    <3>4. j \in Nat
      BY <3>1, <3>2, <3>3, ChoicesOfWalk
    <3> QED  BY <2>1, <3>1, <3>2, <3>3, <3>4 DEF Begin
  <2>2. ASSUME NEW t \in Threads, Finish(t) PROVE Inv'
    BY <2>2 DEF Finish
  <2>3. ASSUME NEW t \in Threads, Pass(t) PROVE Inv'
    <3>1. CASE next[t] = Len(Walk(op[t]))
      BY <2>2, <2>3, <3>1 DEF Pass
    <3>2. CASE next[t] # Len(Walk(op[t]))
      <4>1. PICK j \in Choices(op[t], next[t]) : next' = [next EXCEPT ![t] = j]
        BY <2>3, <3>2 DEF Pass
      <4>2. op[t] \in OrderedNames /\ op[t] # Idle /\ op' = op /\ at' = [at EXCEPT ![t] = next[t]]
        BY <2>3, <3>2 DEF Pass
      <4>3. next[t] \in DOMAIN Walk(op[t])
        BY <4>2, ChoicesOfWalk
      <4>4. j \in Nat
        BY <4>1, <4>2, <4>3, ChoicesOfWalk
      <4> QED  BY <4>1, <4>2, <4>3, <4>4
    <3> QED  BY <3>1, <3>2
  <2>4. ASSUME NEW t \in Threads, GiveUp(t) PROVE Inv'
    BY <2>2, <2>4 DEF GiveUp
  <2>5. CASE UNCHANGED vars
    BY <2>5 DEF vars, Choices
  <2> QED  BY <2>1, <2>3, <2>4, <2>5 DEF Next
<1> QED  BY <1>1, <1>2, PTL DEF Safety

(* Whatever threads there are, each one stays at a place of its operation. *)
THEOREM LockTypeCorrect ==
  ASSUME OnlyOrdered
  PROVE  Safety => []TypeOK
<1>1. Inv => TypeOK
  BY DEF Inv
<1> QED  BY <1>1, Invariance, PTL

-----------------------------------------------------------------------------
(* A lock that t waits for comes after the locks t holds. *)
LEMMA WantedIsHigher ==
  ASSUME Inv, NEW t \in Threads
  PROVE  /\ Held(t) \subseteq Locks /\ Wanted(t) \subseteq Locks
         /\ \A l \in Wanted(t), k \in Held(t) : Rank(k) < Rank(l)
<1>1. CASE op[t] = Idle
  BY <1>1 DEF Held, Wanted
<1>2. CASE op[t] # Idle
  <2>1. op[t] \in OrderedNames /\ at[t] \in DOMAIN Walk(op[t]) /\ next[t] \in Choices(op[t], at[t])
    BY <1>2 DEF Inv, TypeOK
  <2> QED  BY <1>2, <2>1, ChoicesOfWalk DEF Held, Wanted
<1> QED  BY <1>1, <1>2

(* A chain of threads that wait climbs the order, which has four steps. *)
LEMMA NoCycle ==
  ASSUME Inv
  PROVE  NoDeadlock
<1> SUFFICES ASSUME NEW D \in SUBSET Threads, D # {},
                    \A t \in D : \E u \in D : Blocks(u, t)
             PROVE  FALSE
  BY DEF NoDeadlock
<1> DEFINE B(l) == \E t \in D : l \in Wanted(t) /\ \E u \in D : \E k \in Held(u) : Conflict(l, k)
<1>1. ASSUME NEW l, B(l) PROVE l \in Locks /\ Rank(l) \in 0 .. 3
  BY <1>1, WantedIsHigher, Ranks
<1>2. ASSUME NEW t \in D PROVE \E l \in Wanted(t) : B(l)
  BY DEF Blocks
<1>3. ASSUME NEW l, B(l) PROVE \E m : B(m) /\ Rank(m) > Rank(l)
  <2>1. PICK t \in D, u \in D : l \in Wanted(t) /\ \E k \in Held(u) : Conflict(l, k)
    BY <1>3
  <2>2. PICK k \in Held(u) : Conflict(l, k)
    BY <2>1
  <2>3. l \in Locks /\ k \in Locks
    BY <2>1, <2>2, WantedIsHigher
  <2>4. Rank(l) = Rank(k)
    BY <2>2, <2>3, Ranks
  <2>5. PICK m \in Wanted(u) : B(m)
    BY <1>2
  <2>6. Rank(k) < Rank(m)
    BY <2>2, <2>5, WantedIsHigher
  <2>7. Rank(l) \in Nat /\ Rank(m) \in Nat
    BY <1>1, <1>3, <2>5
  <2> QED  BY <2>4, <2>5, <2>6, <2>7
<1>4. PICK l0 : B(l0)
  BY <1>2
<1> HIDE DEF B
<1>5. PICK l1 : B(l1) /\ Rank(l1) > Rank(l0)
  BY <1>3, <1>4
<1>6. PICK l2 : B(l2) /\ Rank(l2) > Rank(l1)
  BY <1>3, <1>5
<1>7. PICK l3 : B(l3) /\ Rank(l3) > Rank(l2)
  BY <1>3, <1>6
<1>8. PICK l4 : B(l4) /\ Rank(l4) > Rank(l3)
  BY <1>3, <1>7
<1>9. /\ Rank(l0) \in 0 .. 3 /\ Rank(l1) \in 0 .. 3 /\ Rank(l2) \in 0 .. 3
      /\ Rank(l3) \in 0 .. 3 /\ Rank(l4) \in 0 .. 3
  BY <1>1, <1>4, <1>5, <1>6, <1>7, <1>8
<1> QED  BY <1>5, <1>6, <1>7, <1>8, <1>9

(* However many threads run the operations that keep the order, they never
   wait for each other: the three that lock the library before the player are
   the only ones that can. *)
THEOREM OrderedIsDeadlockFree ==
  ASSUME OnlyOrdered
  PROVE  Safety => []NoDeadlock
<1>1. Inv => NoDeadlock
  BY NoCycle
<1> QED  BY <1>1, Invariance, PTL

=============================================================================
