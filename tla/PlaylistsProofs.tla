---------------------------- MODULE PlaylistsProofs ----------------------------
(***************************************************************************)
(* TLAPS proofs about Playlists.                                           *)
(***************************************************************************)
EXTENDS Playlists, FiniteSetTheorems, FunctionTheorems, SequenceTheorems,
        WellFoundedInduction, TLAPS

(* The heap, and what holds of a playlist of it that is in use, of one that has
   garbage, and of several: each track that a playlist in use can reach is in one
   place of it, is the track of its file, and has no mark but that of a deletion
   in progress. *)
Listings == [tracks : Seq(Ids), files : [Songs -> 0 .. MaxTracks], garbage : SUBSET Ids]

Heaps == [made : 0 .. MaxTracks, file : [Ids -> Songs \cup {Nil}],
          freed : SUBSET Ids, orphan : SUBSET Ids, deleted : SUBSET Ids,
          removed : SUBSET Ids, deferred : SUBSET Ids, list : [Lists -> Listings]]

Places(h, l) == TracksOf(h, l) \cup h.list[l].garbage

MadeBefore(h) ==
  /\ h.freed \cup h.orphan \cup h.deleted \cup h.removed \cup h.deferred \subseteq 1 .. h.made
  /\ \A l \in Lists : /\ Places(h, l) \subseteq 1 .. h.made
                      /\ h.list[l].files \in [Songs -> 0 .. h.made]

InUse(h, l) ==
  /\ IsInjective(h.list[l].tracks)
  /\ TracksOf(h, l) \cap (h.list[l].garbage \cup h.freed \cup h.removed) = {}
  /\ TracksOf(h, l) \cap h.orphan \subseteq h.deleted
  /\ \A t \in TracksOf(h, l) : h.file[t] \in Songs /\ h.list[l].files[h.file[t]] = t
  /\ \A s \in Songs : h.list[l].files[s] # 0 =>
       h.list[l].files[s] \in TracksOf(h, l) /\ h.file[h.list[l].files[s]] = s

Collectable(h, l) ==
  /\ h.list[l].garbage \subseteq h.removed
  /\ h.list[l].garbage \cap h.freed = {}

Apart(h, lists) ==
  \A l, m \in lists : l # m => Places(h, l) \cap Places(h, m) = {}

(* A change of the heap that frees nothing and leaves no deletion half done. *)
Completes(r, h) == r.deleted = {} /\ r.made >= h.made /\ r.freed = h.freed

Sound(h, used, unused) ==
  /\ h \in Heaps
  /\ MadeBefore(h)
  /\ \A l \in used : InUse(h, l)
  /\ \A l \in used \cup unused : Collectable(h, l)
  /\ Apart(h, used \cup unused)

(* Tracks X are marked as deleted; those marked go from the lists. *)
Marks(r, h, X) ==
  /\ r.deleted = h.deleted \cup X
  /\ r.made = h.made /\ r.freed = h.freed /\ r.file = h.file /\ r.list = h.list

Deletes(r, h, X, used) ==
  /\ Completes(r, h) /\ r.made = h.made /\ r.file = h.file
  /\ \A l \in used : TracksOf(r, l) = TracksOf(h, l) \ X

Purges(r, h, used) ==
  /\ r.deleted = {}
  /\ r.made = h.made /\ r.freed = h.freed /\ r.file = h.file /\ r.orphan = h.orphan
  /\ \A l \in used : TracksOf(r, l) = TracksOf(h, l) \ h.deleted

(* Between two critical sections no deletion is in progress; who holds a track
   holds one that is live, unless it has been told to forget it. *)
ListsInv ==
  /\ mapped \subseteq Lists /\ dropped \subseteq Lists /\ mapped \cap dropped = {}
  /\ Recent \in mapped
  /\ library \subseteq Songs
  /\ Sound(q, mapped, dropped)
  /\ q.deleted = {}

HoldersInv ==
  /\ buffer \in [Buffers -> 0 .. q.made]
  /\ decoder \in 0 .. q.made
  /\ cleared \in BOOLEAN
  /\ current \in [song : Songs \cup {Nil}, list : Lists \cup {Nil}]
  /\ rebuild \in {"no", "stopped", "reset"}
  /\ Held \cap q.freed = {}
  /\ cleared => Held = {}
  /\ decoder # 0 /\ ~cleared => decoder \notin q.freed
  /\ rebuild = "reset" => cleared

PlaylistsInv == ListsInv /\ HoldersInv

-----------------------------------------------------------------------------
(* Induction over the naturals, with a set in the place of a predicate. *)
LEMMA SetInduction ==
  ASSUME NEW S, 0 \in S, \A n \in Nat : n \in S => n + 1 \in S
  PROVE  Nat \subseteq S
<1> DEFINE T == Nat \ S
<1>1. ASSUME T # {} PROVE \E n \in T : \A m \in T : ~(m < n)
  <2>1. PICK n \in T : \A m \in T : ~(<<m, n>> \in OpToRel(<, Nat))
    BY <1>1, NatLessThanWellFounded, WFMin, Zenon
  <2>2. \A m \in T : ~(m < n)
    BY <2>1 DEF OpToRel
  <2> QED BY <2>2
<1>2. ASSUME NEW n \in T, \A m \in T : ~(m < n) PROVE FALSE
  <2>1. n # 0 /\ n - 1 \in Nat
    OBVIOUS
  <2>2. n - 1 \in S
    BY <1>2, <2>1
  <2> QED BY <2>1, <2>2
<1> QED BY <1>1, <1>2

-----------------------------------------------------------------------------
(* Only(s, S). *)

LEMMA OnlyExists ==
  ASSUME NEW T, NEW s \in Seq(T), NEW S
  PROVE  \E kept : kept = [i \in 0 .. Len(s) |->
            IF i = 0 THEN <<>>
            ELSE IF s[i] \in S THEN Append(kept[i - 1], s[i]) ELSE kept[i - 1]]
<1> DEFINE Keeps(f, n) == f = [i \in 0 .. n |->
             IF i = 0 THEN <<>>
             ELSE IF s[i] \in S THEN Append(f[i - 1], s[i]) ELSE f[i - 1]]
           G == {n \in Nat : \E f : Keeps(f, n)}
<1>1. 0 \in G
  <2> DEFINE f == [i \in 0 .. 0 |-> <<>>]
  <2>1. Keeps(f, 0)
    OBVIOUS
  <2> QED BY <2>1
<1>2. ASSUME NEW n \in Nat, n \in G PROVE n + 1 \in G
  <2>1. PICK f : Keeps(f, n)
    BY <1>2
  <2> DEFINE g == [i \in 0 .. n + 1 |->
               IF i = n + 1 THEN IF s[n + 1] \in S THEN Append(f[n], s[n + 1]) ELSE f[n]
               ELSE f[i]]
  <2>2. \A i \in 0 .. n : g[i] = f[i]
    OBVIOUS
  <2>3. ASSUME NEW i \in 0 .. n + 1
        PROVE  g[i] = IF i = 0 THEN <<>>
                      ELSE IF s[i] \in S THEN Append(g[i - 1], s[i]) ELSE g[i - 1]
    <3>1. CASE i = n + 1
      <4>1. i # 0 /\ i - 1 = n /\ g[n] = f[n]
        BY <3>1, <2>2
      <4> QED BY <3>1, <4>1
    <3>2. CASE i # n + 1
      <4>1. i \in 0 .. n /\ g[i] = f[i]
        BY <3>2
      <4>2. f[i] = IF i = 0 THEN <<>>
                   ELSE IF s[i] \in S THEN Append(f[i - 1], s[i]) ELSE f[i - 1]
        BY <2>1, <4>1
      <4>3. i # 0 => i - 1 \in 0 .. n /\ g[i - 1] = f[i - 1]
        BY <4>1
      <4> QED BY <4>1, <4>2, <4>3
    <3> QED BY <3>1, <3>2
  <2>4. Keeps(g, n + 1)
    BY <2>3
  <2> HIDE DEF Keeps, g
  <2> QED BY <2>4
<1> HIDE DEF Keeps, G
<1>3. Nat \subseteq G
  BY <1>1, <1>2, SetInduction
<1>4. Len(s) \in G
  BY <1>3
<1> QED BY <1>4 DEF G, Keeps

LEMMA OnlyRecursion ==
  ASSUME NEW T, NEW s \in Seq(T), NEW S
  PROVE  \E kept : /\ kept[0] = <<>>
                   /\ \A i \in 1 .. Len(s) :
                        kept[i] = IF s[i] \in S THEN Append(kept[i - 1], s[i]) ELSE kept[i - 1]
                   /\ Only(s, S) = kept[Len(s)]
<1> DEFINE Keeps(f) == f = [i \in 0 .. Len(s) |->
             IF i = 0 THEN <<>>
             ELSE IF s[i] \in S THEN Append(f[i - 1], s[i]) ELSE f[i - 1]]
           kept == CHOOSE f : Keeps(f)
<1>1. Keeps(kept)
  <2>1. \E f : Keeps(f)
    BY ZenonT(30), OnlyExists
  <2> HIDE DEF Keeps
  <2> QED BY <2>1, Zenon
<1>2. Only(s, S) = kept[Len(s)]
  BY DEF Only
<1>3. Len(s) \in Nat
  OBVIOUS
<1> HIDE DEF kept
<1>4. kept[0] = <<>>
  BY <1>1, <1>3
<1>5. ASSUME NEW i \in 1 .. Len(s)
      PROVE  kept[i] = IF s[i] \in S THEN Append(kept[i - 1], s[i]) ELSE kept[i - 1]
  <2>1. i \in 0 .. Len(s) /\ i # 0
    BY <1>3
  <2> QED BY <1>1, <2>1
<1> QED BY <1>2, <1>4, <1>5

(* The elements of s in S, in a sequence, as often as in s. *)
LEMMA OnlySelects ==
  ASSUME NEW T, NEW s \in Seq(T), NEW S
  PROVE  /\ Only(s, S) \in Seq(T \cap S)
         /\ Range(Only(s, S)) = Range(s) \cap S
         /\ IsInjective(s) => IsInjective(Only(s, S))
<1>1. PICK kept : /\ kept[0] = <<>>
                  /\ \A i \in 1 .. Len(s) :
                       kept[i] = IF s[i] \in S THEN Append(kept[i - 1], s[i]) ELSE kept[i - 1]
                  /\ Only(s, S) = kept[Len(s)]
  BY OnlyRecursion
<1>2. Len(s) \in Nat /\ DOMAIN s = 1 .. Len(s) /\ \A i \in 1 .. Len(s) : s[i] \in T
  OBVIOUS
<1> DEFINE So(n) == /\ kept[n] \in Seq(T \cap S)
                    /\ \A j \in 1 .. Len(kept[n]) : \E i \in 1 .. n : s[i] = kept[n][j]
                    /\ \A i \in 1 .. n : s[i] \in S => \E j \in 1 .. Len(kept[n]) : kept[n][j] = s[i]
                    /\ IsInjective(s) =>
                         \A j, k \in 1 .. Len(kept[n]) : kept[n][j] = kept[n][k] => j = k
           G == {n \in Nat : n <= Len(s) => So(n)}
<1>3. So(0)
  BY <1>1
<1>4. ASSUME NEW n \in Nat, n \in G PROVE n + 1 \in G
  <2>1. SUFFICES ASSUME n + 1 <= Len(s) PROVE So(n + 1)
    <3> HIDE DEF So
    <3> QED OBVIOUS
  <2>2. So(n)
    <3>1. n <= Len(s)
      BY <2>1, <1>2
    <3> HIDE DEF So
    <3> QED BY <1>4, <3>1 DEF G
  <2>3. n + 1 \in 1 .. Len(s) /\ (n + 1) - 1 = n
    BY <2>1, <1>2
  <2>4. CASE s[n + 1] \notin S
    <3>1. kept[n + 1] = kept[n]
      BY <1>1, <2>3, <2>4
    <3>2. 1 .. n + 1 = 1 .. n \cup {n + 1}
      OBVIOUS
    <3> QED BY <2>2, <2>4, <3>1, <3>2
  <2>5. CASE s[n + 1] \in S
    <3>1. kept[n + 1] = Append(kept[n], s[n + 1])
      BY <1>1, <2>3, <2>5
    <3>2. s[n + 1] \in T \cap S
      BY <1>2, <2>3, <2>5
    <3>3. /\ kept[n + 1] \in Seq(T \cap S)
          /\ Len(kept[n + 1]) = Len(kept[n]) + 1
          /\ \A j \in 1 .. Len(kept[n]) : kept[n + 1][j] = kept[n][j]
          /\ kept[n + 1][Len(kept[n]) + 1] = s[n + 1]
      BY <2>2, <3>1, <3>2, AppendProperties
    <3>4. Len(kept[n]) \in Nat
      BY <2>2
    <3>5. ASSUME NEW j \in 1 .. Len(kept[n + 1])
          PROVE  \E i \in 1 .. n + 1 : s[i] = kept[n + 1][j]
      <4>1. CASE j = Len(kept[n]) + 1
        BY <3>3, <4>1
      <4>2. CASE j # Len(kept[n]) + 1
        <5>1. j \in 1 .. Len(kept[n])
          BY <3>3, <3>4, <4>2
        <5> QED BY <2>2, <3>3, <5>1
      <4> QED BY <4>1, <4>2
    <3>6. ASSUME NEW i \in 1 .. n + 1, s[i] \in S
          PROVE  \E j \in 1 .. Len(kept[n + 1]) : kept[n + 1][j] = s[i]
      <4>1. CASE i = n + 1
        BY <3>3, <3>4, <4>1
      <4>2. CASE i # n + 1
        <5>1. i \in 1 .. n
          BY <4>2
        <5>2. PICK j \in 1 .. Len(kept[n]) : kept[n][j] = s[i]
          BY <2>2, <3>6, <5>1
        <5> QED BY <3>3, <3>4, <5>2
      <4> QED BY <4>1, <4>2
    <3>7. ASSUME IsInjective(s), NEW j \in 1 .. Len(kept[n + 1]), NEW k \in 1 .. Len(kept[n + 1]),
                 kept[n + 1][j] = kept[n + 1][k]
          PROVE  j = k
      <4>1. ASSUME NEW m \in 1 .. Len(kept[n]) PROVE kept[n + 1][m] # s[n + 1]
        <5>1. PICK i \in 1 .. n : s[i] = kept[n][m]
          BY <2>2
        <5>2. s[i] # s[n + 1]
          <6>1. i \in DOMAIN s /\ n + 1 \in DOMAIN s /\ i # n + 1
            BY <1>2, <2>3
          <6> QED BY <6>1, <3>7 DEF IsInjective
        <5> QED BY <3>3, <5>1, <5>2
      <4>2. CASE j = Len(kept[n]) + 1 \/ k = Len(kept[n]) + 1
        <5>1. \A m \in 1 .. Len(kept[n]) : kept[n + 1][m] # kept[n + 1][Len(kept[n]) + 1]
          BY <3>3, <4>1
        <5>2. j \in 1 .. Len(kept[n]) + 1 /\ k \in 1 .. Len(kept[n]) + 1
          BY <3>3
        <5>3. \A m \in 1 .. Len(kept[n]) + 1 : m \in 1 .. Len(kept[n]) \/ m = Len(kept[n]) + 1
          BY <3>4
        <5> QED BY <3>7, <4>2, <5>1, <5>2, <5>3
      <4>3. CASE ~(j = Len(kept[n]) + 1 \/ k = Len(kept[n]) + 1)
        <5>1. j \in 1 .. Len(kept[n]) /\ k \in 1 .. Len(kept[n])
          BY <3>3, <3>4, <4>3
        <5> QED BY <2>2, <3>3, <3>7, <5>1
      <4> QED BY <4>2, <4>3
    <3> QED BY <3>3, <3>5, <3>6, <3>7
  <2> QED BY <2>4, <2>5
<1>5. Len(s) \in G
  <2>1. 0 \in G
    BY <1>3
  <2> HIDE DEF So, G
  <2>2. Nat \subseteq G
    BY <2>1, <1>4, SetInduction
  <2> QED BY <2>2, <1>2
<1>6. So(Len(s))
  <2> HIDE DEF So
  <2> QED BY <1>5, <1>2
<1> DEFINE r == Only(s, S)
<1>7. r = kept[Len(s)]
  BY <1>1
<1>8. r \in Seq(T \cap S) /\ DOMAIN r = 1 .. Len(r)
  BY <1>6, <1>7
<1>9. Range(r) = Range(s) \cap S
  <2>1. ASSUME NEW x \in Range(r) PROVE x \in Range(s) \cap S
    <3>1. PICK j \in 1 .. Len(r) : r[j] = x
      BY <1>8 DEF Range
    <3>2. r[j] \in S
      BY <1>8
    <3>3. PICK i \in 1 .. Len(s) : s[i] = x
      BY <1>6, <1>7, <3>1
    <3> QED BY <3>1, <3>2, <3>3, <1>2 DEF Range
  <2>2. ASSUME NEW x \in Range(s) \cap S PROVE x \in Range(r)
    <3>1. PICK i \in 1 .. Len(s) : s[i] = x
      BY <1>2 DEF Range
    <3>2. PICK j \in 1 .. Len(r) : r[j] = x
      BY <1>6, <1>7, <3>1
    <3> QED BY <3>2, <1>8 DEF Range
  <2> QED BY <2>1, <2>2
<1>10. IsInjective(s) => IsInjective(r)
  BY <1>6, <1>7, <1>8 DEF IsInjective
<1> QED BY <1>8, <1>9, <1>10

-----------------------------------------------------------------------------
(* Heaps. *)

LEMMA HeapFields ==
  ASSUME NEW h \in Heaps
  PROVE  /\ h.made \in 0 .. MaxTracks
         /\ h.file \in [Ids -> Songs \cup {Nil}]
         /\ h.freed \in SUBSET Ids /\ h.orphan \in SUBSET Ids /\ h.deleted \in SUBSET Ids
         /\ h.removed \in SUBSET Ids /\ h.deferred \in SUBSET Ids
         /\ h.list \in [Lists -> Listings]
BY DEF Heaps

LEMMA ListFields ==
  ASSUME NEW h \in Heaps, NEW l \in Lists
  PROVE  /\ h.list[l] \in Listings
         /\ h.list[l].tracks \in Seq(Ids)
         /\ h.list[l].files \in [Songs -> 0 .. MaxTracks]
         /\ h.list[l].garbage \in SUBSET Ids
         /\ TracksOf(h, l) \in SUBSET Ids
<1>1. h.list[l] \in Listings
  BY DEF Heaps
<1>2. h.list[l].tracks \in Seq(Ids)
  BY <1>1 DEF Listings
<1> QED BY <1>1, <1>2, RangeOfSeq DEF Listings, TracksOf

(* What is purged from the list of a playlist in use: with a track the map always
   has one that goes. *)
LEMMA PurgedInUse ==
  ASSUME NEW h \in Heaps, NEW l \in Lists, InUse(h, l)
  PROVE  /\ DeadTracks(h, l) = TracksOf(h, l) \cap h.deleted
         /\ GoneFiles(h, l) = {s \in Songs : h.list[l].files[s] # 0
                                            /\ h.list[l].files[s] \in DeadTracks(h, l)}
         /\ Purged(h, l) \in Listings
         /\ Range(Purged(h, l).tracks) = TracksOf(h, l) \ h.deleted
         /\ IsInjective(Purged(h, l).tracks)
         /\ Purged(h, l).files = [s \in Songs |->
               IF s \in GoneFiles(h, l) THEN 0 ELSE h.list[l].files[s]]
         /\ Purged(h, l).garbage = h.list[l].garbage \cup (TracksOf(h, l) \cap h.deleted)
<1>1. \A s \in Songs : h.list[l].files[s] \in h.deleted =>
        h.list[l].files[s] # 0 /\ h.list[l].files[s] \in TracksOf(h, l)
  BY HeapFields DEF InUse, Ids
<1>2. ASSUME NEW t \in TracksOf(h, l) \cap h.deleted PROVE GoneFiles(h, l) # {}
  <2>1. h.file[t] \in Songs /\ h.list[l].files[h.file[t]] = t
    BY DEF InUse
  <2> QED BY <2>1 DEF GoneFiles
<1>3. DeadTracks(h, l) = TracksOf(h, l) \cap h.deleted
  BY <1>2 DEF DeadTracks
<1>4. GoneFiles(h, l) = {s \in Songs : h.list[l].files[s] # 0
                                     /\ h.list[l].files[s] \in DeadTracks(h, l)}
  BY <1>1, <1>3 DEF GoneFiles
<1> DEFINE live == TracksOf(h, l) \ DeadTracks(h, l)
<1>5. /\ Only(h.list[l].tracks, live) \in Seq(Ids \cap live)
      /\ Range(Only(h.list[l].tracks, live)) = live
      /\ IsInjective(Only(h.list[l].tracks, live))
  <2>1. IsInjective(h.list[l].tracks)
    BY DEF InUse
  <2>2. Range(h.list[l].tracks) \cap live = live
    BY DEF TracksOf
  <2> HIDE DEF live
  <2> QED BY <2>1, <2>2, OnlySelects, ListFields
<1>6. Only(h.list[l].tracks, live) \in Seq(Ids)
  BY <1>5, SeqMonotonic
<1>7. Purged(h, l) \in Listings
  <2>1. [s \in Songs |-> IF s \in GoneFiles(h, l) THEN 0 ELSE h.list[l].files[s]]
          \in [Songs -> 0 .. MaxTracks]
    BY ListFields, PlaylistAssumption
  <2>2. h.list[l].garbage \cup DeadTracks(h, l) \in SUBSET Ids
    BY <1>3, ListFields
  <2> QED BY <1>6, <2>1, <2>2 DEF Purged, Listings
<1> QED BY <1>3, <1>4, <1>5, <1>7 DEF Purged

(* A list whose tracks and map stay is in use as before, if nothing that
   happens to other tracks happens to its own. *)
LEMMA UseCarries ==
  ASSUME NEW h, NEW r, NEW l, InUse(h, l),
         IsInjective(r.list[l].tracks), TracksOf(r, l) = TracksOf(h, l),
         r.file = h.file, r.list[l].files = h.list[l].files,
         TracksOf(h, l) \cap (r.list[l].garbage \cup r.freed \cup r.removed) = {},
         TracksOf(h, l) \cap r.orphan \subseteq r.deleted
  PROVE  InUse(r, l)
<1>1. \A t \in TracksOf(r, l) : r.file[t] \in Songs /\ r.list[l].files[r.file[t]] = t
  BY DEF InUse
<1>2. ASSUME NEW x \in Songs, r.list[l].files[x] # 0
      PROVE  r.list[l].files[x] \in TracksOf(r, l) /\ r.file[r.list[l].files[x]] = x
  BY <1>2 DEF InUse
<1> QED BY <1>1, <1>2 DEF InUse

(* deleteRemovedTracks() for playlists in use, after all marks were set in them:
   what is marked leaves the lists for the garbage, and nothing else changes. *)
LEMMA DeleteRemovedTracksSound ==
  ASSUME NEW M \in SUBSET Lists, NEW D \in SUBSET Lists, NEW h, Sound(h, M, D),
         NEW lists \in SUBSET M,
         \A t \in h.deleted : \E l \in lists : t \in TracksOf(h, l),
         NEW r, \/ r = DeleteRemovedTracks(h, lists, TRUE)
                \/ r = DeleteRemovedTracks(h, lists, FALSE)
  PROVE  Sound(r, M, D) /\ Purges(r, h, M)
<1> DEFINE dead == UNION {DeadTracks(h, l) : l \in lists}
<1>1. h \in Heaps /\ MadeBefore(h) /\ Apart(h, M \cup D)
  BY DEF Sound
<1>2. \A l \in M : InUse(h, l) /\ Collectable(h, l) /\ l \in Lists
  BY DEF Sound
<1>3. \A l \in lists : DeadTracks(h, l) = TracksOf(h, l) \cap h.deleted
  BY <1>1, <1>2, PurgedInUse
<1>4. dead = h.deleted
  BY <1>3
<1>5. /\ r.made = h.made /\ r.freed = h.freed /\ r.file = h.file
      /\ r.orphan = h.orphan /\ r.deferred = h.deferred
      /\ r.deleted = {}
      /\ r.removed = h.removed \cup h.deleted
      /\ r.list = [l \in Lists |-> IF l \in lists THEN Purged(h, l) ELSE h.list[l]]
      /\ r \in [made : {r.made}, file : {r.file}, freed : {r.freed}, orphan : {r.orphan},
                deleted : {r.deleted}, removed : {r.removed}, deferred : {r.deferred},
                list : {r.list}]
  <2> DEFINE r1 == [h EXCEPT !.list = [l \in Lists |-> IF l \in lists THEN Purged(h, l) ELSE h.list[l]],
                             !.deleted = @ \ dead,
                             !.removed = @ \cup dead]
             reindexed == {l \in lists : GoneFiles(h, l) # {}}
  <2>1. /\ r1.made = h.made /\ r1.freed = h.freed /\ r1.file = h.file
        /\ r1.orphan = h.orphan /\ r1.deferred = h.deferred
        /\ r1.deleted = {}
        /\ r1.removed = h.removed \cup h.deleted
        /\ r1.list = [l \in Lists |-> IF l \in lists THEN Purged(h, l) ELSE h.list[l]]
        /\ r1 \in [made : {r1.made}, file : {r1.file}, freed : {r1.freed}, orphan : {r1.orphan},
                   deleted : {r1.deleted}, removed : {r1.removed}, deferred : {r1.deferred},
                   list : {r1.list}]
    BY <1>1, <1>4 DEF Heaps
  <2>2. r = Reindex(r1, reindexed) \/ r = r1
    BY DEF DeleteRemovedTracks
  <2> HIDE DEF r1
  <2> QED BY <2>1, <2>2 DEF Reindex
<1>6. \A l \in lists : /\ r.list[l] = Purged(h, l)
                      /\ r.list[l].files = [s \in Songs |->
                            IF s \in GoneFiles(h, l) THEN 0 ELSE h.list[l].files[s]]
                      /\ r.list[l] \in Listings
                      /\ TracksOf(r, l) = TracksOf(h, l) \ h.deleted
                      /\ IsInjective(r.list[l].tracks)
                      /\ r.list[l].garbage = h.list[l].garbage \cup (TracksOf(h, l) \cap h.deleted)
  <2> TAKE l \in lists
  <2>1. r.list[l] = Purged(h, l)
    BY <1>5
  <2> QED BY <1>1, <1>2, <2>1, PurgedInUse DEF TracksOf
<1>7. \A l \in Lists \ lists : r.list[l] = h.list[l] /\ TracksOf(r, l) = TracksOf(h, l)
  BY <1>5 DEF TracksOf
<1>8. \A l \in M : TracksOf(r, l) = TracksOf(h, l) \ h.deleted
  <2>1. ASSUME NEW l \in M \ lists PROVE TracksOf(h, l) \cap h.deleted = {}
    BY <1>1 DEF Apart, Places
  <2> QED BY <1>2, <1>6, <1>7, <2>1
<1>9. \A l \in Lists : Places(r, l) = Places(h, l)
  BY <1>6, <1>7 DEF Places
<1>10. r \in Heaps
  <2>1. r.list \in [Lists -> Listings]
    <3>1. \A l \in Lists : h.list[l] \in Listings
      BY <1>1, ListFields
    <3>2. \A l \in Lists : r.list[l] \in Listings
      BY <1>6, <1>7, <3>1
    <3> QED BY <1>5, <3>2
  <2>2. r.removed \in SUBSET Ids
    BY <1>1, <1>5, HeapFields
  <2> QED BY <1>1, <1>5, <2>1, <2>2, HeapFields DEF Heaps
<1>11. MadeBefore(r)
  <2>1. ASSUME NEW l \in Lists PROVE r.list[l].files \in [Songs -> 0 .. r.made]
    <3>1. CASE l \in lists
      <4>1. r.list[l].files = [s \in Songs |->
                IF s \in GoneFiles(h, l) THEN 0 ELSE h.list[l].files[s]]
        BY <1>6, <3>1
      <4>2. h.list[l].files \in [Songs -> 0 .. h.made]
        BY <1>1 DEF MadeBefore
      <4>3. 0 \in 0 .. h.made
        BY <1>1, HeapFields, PlaylistAssumption
      <4> QED BY <1>5, <4>1, <4>2, <4>3
    <3>2. CASE l \notin lists
      BY <1>1, <1>5, <1>7, <3>2 DEF MadeBefore
    <3> QED BY <3>1, <3>2
  <2> QED BY <1>1, <1>5, <1>9, <2>1 DEF MadeBefore
<1>12. ASSUME NEW l \in M PROVE InUse(r, l)
  <2>1. InUse(h, l)
    BY <1>2
  <2>2. CASE l \in lists
    <3>1. r.list[l].files = [s \in Songs |->
              IF s \in GoneFiles(h, l) THEN 0 ELSE h.list[l].files[s]]
      BY <1>6, <2>2
    <3>2. \A s \in Songs : s \in GoneFiles(h, l) <=>
             h.list[l].files[s] # 0 /\ h.list[l].files[s] \in TracksOf(h, l) \cap h.deleted
      <4>1. GoneFiles(h, l) = {s \in Songs : h.list[l].files[s] # 0
                                           /\ h.list[l].files[s] \in DeadTracks(h, l)}
        BY <1>1, <1>2, PurgedInUse
      <4>2. DeadTracks(h, l) = TracksOf(h, l) \cap h.deleted
        BY <1>3, <2>2
      <4> QED BY <4>1, <4>2
    <3>3. ASSUME NEW s \in Songs, r.list[l].files[s] # 0
          PROVE  r.list[l].files[s] \in TracksOf(r, l) /\ r.file[r.list[l].files[s]] = s
      <4>1. s \notin GoneFiles(h, l) /\ r.list[l].files[s] = h.list[l].files[s]
        BY <3>1, <3>3
      <4>2. h.list[l].files[s] \in TracksOf(h, l) /\ h.file[h.list[l].files[s]] = s
        BY <2>1, <3>3, <4>1 DEF InUse
      <4> QED BY <1>5, <1>8, <3>2, <3>3, <4>1, <4>2
    <3>4. ASSUME NEW t \in TracksOf(r, l)
          PROVE  r.file[t] \in Songs /\ r.list[l].files[r.file[t]] = t
      <4>1. t \in TracksOf(h, l) /\ t \notin h.deleted
        BY <1>8
      <4>2. h.file[t] \in Songs /\ h.list[l].files[h.file[t]] = t
        BY <2>1, <4>1 DEF InUse
      <4> QED BY <1>5, <3>1, <3>2, <4>1, <4>2
    <3>5. TracksOf(r, l) \cap (r.list[l].garbage \cup r.freed \cup r.removed) = {}
      <4>1. TracksOf(h, l) \cap (h.list[l].garbage \cup h.freed \cup h.removed) = {}
        BY <2>1 DEF InUse
      <4>2. r.list[l].garbage = h.list[l].garbage \cup (TracksOf(h, l) \cap h.deleted)
        BY <1>6, <2>2
      <4> QED BY <1>5, <1>8, <4>1, <4>2
    <3>6. TracksOf(r, l) \cap r.orphan = {}
      BY <1>5, <1>8, <2>1 DEF InUse
    <3> QED BY <1>5, <1>6, <2>2, <3>3, <3>4, <3>5, <3>6 DEF InUse
  <2>3. CASE l \notin lists
    <3>1. TracksOf(h, l) \cap h.deleted = {}
      BY <1>1, <2>3 DEF Apart, Places
    <3>2. r.list[l] = h.list[l] /\ TracksOf(r, l) = TracksOf(h, l)
      BY <1>7, <2>3
    <3>3. TracksOf(h, l) \cap (r.list[l].garbage \cup r.freed \cup r.removed) = {}
      BY <1>5, <2>1, <3>1, <3>2 DEF InUse
    <3>4. TracksOf(h, l) \cap r.orphan \subseteq r.deleted
      BY <1>5, <2>1, <3>1 DEF InUse
    <3>5. IsInjective(r.list[l].tracks)
      BY <2>1, <3>2 DEF InUse
    <3> QED BY <1>5, <2>1, <3>2, <3>3, <3>4, <3>5, UseCarries
  <2> QED BY <2>2, <2>3
<1>13. ASSUME NEW l \in M \cup D PROVE Collectable(r, l)
  <2>1. Collectable(h, l) /\ l \in Lists
    BY DEF Sound
  <2>2. CASE l \in lists
    <3>1. InUse(h, l)
      BY <1>2, <2>2
    <3>2. r.list[l].garbage = h.list[l].garbage \cup (TracksOf(h, l) \cap h.deleted)
      BY <1>6, <2>2
    <3> QED BY <1>5, <2>1, <3>1, <3>2 DEF Collectable, InUse
  <2>3. CASE l \notin lists
    BY <1>5, <1>7, <2>1, <2>3 DEF Collectable
  <2> QED BY <2>2, <2>3
<1>14. Apart(r, M \cup D)
  BY <1>1, <1>9 DEF Apart
<1>15. Sound(r, M, D)
  BY <1>10, <1>11, <1>12, <1>13, <1>14 DEF Sound
<1>16. Purges(r, h, M)
  BY <1>5, <1>8 DEF Purges
<1> QED BY <1>15, <1>16

-----------------------------------------------------------------------------
(* Deletion. *)

LEMMA MarkSound ==
  ASSUME NEW M \in SUBSET Lists, NEW D \in SUBSET Lists, NEW h, Sound(h, M, D),
         NEW X \in SUBSET (1 .. h.made),
         NEW r, r = [h EXCEPT !.deleted = @ \cup X]
  PROVE  Sound(r, M, D) /\ Marks(r, h, X)
<1>1. h \in Heaps
  BY DEF Sound
<1>2. X \subseteq Ids
  BY <1>1, HeapFields, PlaylistAssumption DEF Ids
<1>3. /\ r.deleted = h.deleted \cup X
      /\ r.made = h.made /\ r.freed = h.freed /\ r.file = h.file /\ r.list = h.list
      /\ r.orphan = h.orphan /\ r.removed = h.removed /\ r.deferred = h.deferred
      /\ r \in Heaps
  BY <1>1, <1>2 DEF Heaps
<1>4. \A l : TracksOf(r, l) = TracksOf(h, l) /\ Places(r, l) = Places(h, l)
  BY <1>3 DEF TracksOf, Places
<1>5. MadeBefore(r)
  BY <1>3, <1>4 DEF Sound, MadeBefore
<1>6. \A l \in M : InUse(r, l)
  <2> TAKE l \in M
  <2>1. InUse(h, l)
    BY DEF Sound
  <2> QED BY ZenonT(30), <1>3, <1>4, <2>1 DEF InUse
<1>7. \A l \in M \cup D : Collectable(r, l)
  BY <1>3 DEF Sound, Collectable
<1>8. Apart(r, M \cup D)
  BY <1>4 DEF Sound, Apart
<1>9. Sound(r, M, D)
  BY <1>3, <1>5, <1>6, <1>7, <1>8 DEF Sound
<1> QED BY <1>3, <1>9 DEF Marks

LEMMA TracksMade ==
  ASSUME NEW M, NEW D, NEW h, Sound(h, M, D), NEW l \in Lists
  PROVE  TracksOf(h, l) \subseteq 1 .. h.made
BY DEF Sound, MadeBefore, Places

LEMMA ListsKept ==
  ASSUME NEW h, NEW r, r.list = h.list
  PROVE  \A l : TracksOf(r, l) = TracksOf(h, l) /\ Places(r, l) = Places(h, l)
BY DEF TracksOf, Places

(* To mark tracks of some playlists in use, and to delete what is marked. *)
LEMMA MarkAndPurgeSound ==
  ASSUME NEW M \in SUBSET Lists, NEW D \in SUBSET Lists, NEW h, Sound(h, M, D),
         h.deleted = {}, NEW lists \in SUBSET M, NEW X,
         \A t \in X : \E l \in lists : t \in TracksOf(h, l),
         NEW r, r = DeleteRemovedTracks([h EXCEPT !.deleted = @ \cup X], lists, TRUE)
  PROVE  Sound(r, M, D) /\ Deletes(r, h, X, M)
<1> DEFINE h1 == [h EXCEPT !.deleted = @ \cup X]
<1>1. h.made \in Nat
  BY HeapFields, PlaylistAssumption DEF Sound
<1>2. X \in SUBSET (1 .. h.made)
  BY TracksMade
<1>3. h1 = [h EXCEPT !.deleted = @ \cup X] /\ r = DeleteRemovedTracks(h1, lists, TRUE)
  OBVIOUS
<1> HIDE DEF h1
<1>4. Sound(h1, M, D)
  BY <1>2, <1>3, MarkSound
<1>5. Marks(h1, h, X)
  BY <1>2, <1>3, MarkSound
<1>6. /\ h1.deleted = X /\ h1.made = h.made /\ h1.freed = h.freed /\ h1.file = h.file
      /\ h1.list = h.list
  BY <1>5 DEF Marks
<1>7. \A l \in M : TracksOf(h1, l) = TracksOf(h, l)
  BY <1>6, ListsKept
<1>8. \A t \in h1.deleted : \E l \in lists : t \in TracksOf(h1, l)
  BY <1>6, <1>7
<1>9. Sound(r, M, D)
  BY <1>3, <1>4, <1>8, DeleteRemovedTracksSound
<1>10. Purges(r, h1, M)
  BY <1>3, <1>4, <1>8, DeleteRemovedTracksSound
<1>11. r.deleted = {} /\ r.made = h.made /\ r.freed = h.freed /\ r.file = h.file
  BY <1>6, <1>10 DEF Purges
<1>12. \A l \in M : TracksOf(r, l) = TracksOf(h, l) \ X
  BY <1>6, <1>7, <1>10 DEF Purges
<1>13. Completes(r, h)
  <2>1. r.made = h.made
    BY <1>11
  <2>2. r.made >= h.made
    BY ONLY <1>1, <2>1
  <2> QED BY <1>11, <2>2 DEF Completes
<1>14. Deletes(r, h, X, M)
  BY <1>11, <1>12, <1>13 DEF Deletes
<1> QED BY <1>9, <1>14

NoneOf(r, l, a) == \A s \in Songs : AlbumOf[s] = a => r.list[l].files[s] = 0

LEMMA DeleteAlbumSound ==
  ASSUME NEW M \in SUBSET Lists, NEW D \in SUBSET Lists, NEW h, Sound(h, M, D),
         h.deleted = {}, NEW l \in M, NEW a, NEW r, r = DeleteAlbum(h, l, a)
  PROVE  Sound(r, M, D) /\ Completes(r, h) /\ r.made = h.made /\ NoneOf(r, l, a)
<1> DEFINE X == OnAlbum(h, l, a)
<1>1. X \subseteq TracksOf(h, l)
  BY DEF OnAlbum
<1>2. h.made \in Nat
  BY HeapFields, PlaylistAssumption DEF Sound
<1>3. Sound(r, M, D) /\ Deletes(r, h, X, M)
  <2>1. CASE X = {}
    <3>1. r = h
      BY <2>1 DEF DeleteAlbum
    <3> QED BY <1>2, <2>1, <3>1 DEF Completes, Deletes
  <2>2. CASE X # {}
    <3>1. r = DeleteRemovedTracks([h EXCEPT !.deleted = @ \cup X], {l}, TRUE)
      <4>1. UNION {OnAlbum(h, l, b) : b \in {a}} = X
        OBVIOUS
      <4> QED BY <2>2, <4>1 DEF DeleteAlbum, RemoveAlbums
    <3>2. \A t \in X : \E m \in {l} : t \in TracksOf(h, m)
      BY <1>1
    <3>3. {l} \in SUBSET M
      OBVIOUS
    <3> QED BY <3>1, <3>2, <3>3, MarkAndPurgeSound
  <2> QED BY <2>1, <2>2
<1>4. ASSUME NEW s \in Songs, AlbumOf[s] = a PROVE r.list[l].files[s] = 0
  <2>1. SUFFICES ASSUME r.list[l].files[s] # 0 PROVE FALSE
    OBVIOUS
  <2> DEFINE t == r.list[l].files[s]
  <2>2. t \in TracksOf(r, l) /\ r.file[t] = s
    BY <1>3, <2>1 DEF Sound, InUse
  <2>3. t \in TracksOf(h, l) /\ t \notin X /\ h.file[t] = s
    BY <1>3, <2>2 DEF Deletes
  <2>4. t \notin h.orphan
    BY <2>3 DEF Sound, InUse
  <2>5. SongOf(h, t) = s /\ s # Nil
    BY <2>3, <2>4, PlaylistAssumption DEF SongOf
  <2> QED BY <1>4, <2>3, <2>5 DEF OnAlbum
<1> QED BY <1>3, <1>4 DEF Deletes, NoneOf

LEMMA DeleteFileSound ==
  ASSUME NEW M \in SUBSET Lists, NEW D \in SUBSET Lists, NEW h, Sound(h, M, D),
         h.deleted = {}, NEW l \in M, NEW s \in Songs, NEW r, r = DeleteFile(h, l, s)
  PROVE  Sound(r, M, D) /\ Completes(r, h)
<1> DEFINE X == {h.list[l].files[s]}
<1>1. CASE h.list[l].files[s] = 0
  <2>1. r = h
    BY <1>1 DEF DeleteFile
  <2>2. h.made \in Nat
    BY HeapFields, PlaylistAssumption DEF Sound
  <2> QED BY <2>1, <2>2 DEF Completes
<1>2. CASE h.list[l].files[s] # 0
  <2>1. h.list[l].files[s] \in TracksOf(h, l)
    BY <1>2 DEF Sound, InUse
  <2>2. \A t \in X : \E m \in {l} : t \in TracksOf(h, m)
    BY <2>1
  <2>3. r = DeleteRemovedTracks([h EXCEPT !.deleted = @ \cup X], {l}, TRUE)
    BY <1>2 DEF DeleteFile
  <2>4. {l} \in SUBSET M
    OBVIOUS
  <2> HIDE DEF X
  <2>5. Sound(r, M, D) /\ Deletes(r, h, X, M)
    BY <2>2, <2>3, <2>4, MarkAndPurgeSound
  <2> QED BY <2>5 DEF Deletes
<1> QED BY <1>1, <1>2

LEMMA DeleteOldestSound ==
  ASSUME NEW M \in SUBSET Lists, NEW D \in SUBSET Lists, NEW h, Sound(h, M, D),
         h.deleted = {}, NEW A \in [M -> SUBSET Albums], NEW r, r = DeleteOldest(h, M, A)
  PROVE  Sound(r, M, D) /\ Completes(r, h)
<1> DEFINE X == UNION {UNION {OnAlbum(h, l, a) : a \in A[l]} : l \in M}
           lists == {l \in M : A[l] # {}}
<1>1. \A l \in Lists : \A a : OnAlbum(h, l, a) \subseteq TracksOf(h, l)
  BY DEF OnAlbum
<1>2. \A t \in X : \E l \in lists : t \in TracksOf(h, l)
  BY <1>1
<1>3. r = DeleteRemovedTracks([h EXCEPT !.deleted = @ \cup X], lists, TRUE)
  BY DEF DeleteOldest
<1>4. lists \in SUBSET M
  OBVIOUS
<1> HIDE DEF X, lists
<1>5. Sound(r, M, D) /\ Deletes(r, h, X, M)
  BY <1>2, <1>3, <1>4, MarkAndPurgeSound
<1> QED BY <1>5 DEF Deletes

(* rebuild(): the tracks whose song is lost are orphans, and marked as deleted. *)
LEMMA RebuildSound ==
  ASSUME NEW M \in SUBSET Lists, NEW D \in SUBSET Lists, NEW h, Sound(h, M, D),
         h.deleted = {}, NEW kept, NEW r, r = Rebuild(h, M, kept)
  PROVE  Sound(r, M, D) /\ Completes(r, h)
<1> DEFINE tracks == UNION {TracksOf(h, l) : l \in M}
           lost == {t \in tracks : h.file[t] \notin kept}
           lists == {l \in M : {t \in TracksOf(h, l) : h.file[t] \notin kept} # {}}
           h1 == [h EXCEPT !.orphan = (@ \ tracks) \cup lost, !.deleted = (@ \ tracks) \cup lost]
<1>1. h \in Heaps /\ h.made \in Nat /\ h.made <= MaxTracks
  BY HeapFields, PlaylistAssumption DEF Sound
<1>2. tracks \subseteq 1 .. h.made
  BY TracksMade
<1>3. lost \subseteq tracks /\ lost \subseteq Ids
  BY <1>1, <1>2, PlaylistAssumption DEF Ids
<1>4. r = DeleteRemovedTracks(h1, lists, TRUE)
  BY DEF Rebuild
<1>5. \A l \in M : \A t \in TracksOf(h, l) : t \in tracks
  OBVIOUS
<1>6. \A t \in lost : \E l \in lists : t \in TracksOf(h, l)
  OBVIOUS
<1> HIDE DEF tracks, lost, lists
<1>7. /\ h1.deleted = lost /\ h1.orphan = (h.orphan \ tracks) \cup lost
      /\ h1.made = h.made /\ h1.freed = h.freed /\ h1.file = h.file /\ h1.list = h.list
      /\ h1.removed = h.removed /\ h1.deferred = h.deferred
      /\ h1 \in Heaps
  BY <1>1, <1>3 DEF Heaps
<1> HIDE DEF h1
<1>8. \A l : TracksOf(h1, l) = TracksOf(h, l) /\ Places(h1, l) = Places(h, l)
  BY <1>7, ListsKept
<1>9. Sound(h1, M, D)
  <2>1. MadeBefore(h1)
    BY <1>2, <1>3, <1>7, <1>8 DEF Sound, MadeBefore
  <2>2. ASSUME NEW l \in M PROVE InUse(h1, l)
    <3>1. InUse(h, l) /\ TracksOf(h1, l) = TracksOf(h, l)
      BY <1>8 DEF Sound
    <3>2. TracksOf(h, l) \cap h1.orphan \subseteq h1.deleted
      BY <1>5, <1>7
    <3> QED BY <1>7, <3>1, <3>2 DEF InUse
  <2>3. \A l \in M \cup D : Collectable(h1, l)
    BY <1>7 DEF Sound, Collectable
  <2>4. Apart(h1, M \cup D)
    BY <1>8 DEF Sound, Apart
  <2> QED BY <1>7, <2>1, <2>2, <2>3, <2>4 DEF Sound
<1>10. lists \in SUBSET M
  BY DEF lists
<1>11. \A t \in h1.deleted : \E l \in lists : t \in TracksOf(h1, l)
  BY <1>6, <1>7, <1>8
<1>12. Sound(r, M, D)
  BY <1>4, <1>9, <1>10, <1>11, DeleteRemovedTracksSound
<1>13. Purges(r, h1, M)
  BY <1>4, <1>9, <1>10, <1>11, DeleteRemovedTracksSound
<1>14. r.deleted = {} /\ r.made = h.made /\ r.freed = h.freed
  BY <1>7, <1>13 DEF Purges
<1> QED BY <1>1, <1>12, <1>14 DEF Completes

-----------------------------------------------------------------------------
(* Adding of songs. *)

LEMMA Concatenated ==
  ASSUME NEW S, NEW a \in Seq(S), NEW b \in Seq(S)
  PROVE  /\ a \o b \in Seq(S)
         /\ Range(a \o b) = Range(a) \cup Range(b)
         /\ IsInjective(a) /\ IsInjective(b) /\ Range(a) \cap Range(b) = {} => IsInjective(a \o b)
<1> DEFINE c == a \o b
<1>1. /\ c \in Seq(S) /\ Len(c) = Len(a) + Len(b)
      /\ \A i \in 1 .. Len(a) + Len(b) : c[i] = IF i <= Len(a) THEN a[i] ELSE b[i - Len(a)]
  BY ConcatProperties
<1>2. Range(c) = Range(a) \cup Range(b)
  BY RangeConcatenation
<1>3. /\ Len(a) \in Nat /\ Len(b) \in Nat
      /\ DOMAIN a = 1 .. Len(a) /\ DOMAIN b = 1 .. Len(b)
  OBVIOUS
<1>4. DOMAIN c = 1 .. Len(a) + Len(b)
  <2> HIDE DEF c
  <2> QED BY <1>1
<1> HIDE DEF c
<1>5. ASSUME IsInjective(a), IsInjective(b), Range(a) \cap Range(b) = {}
      PROVE  IsInjective(c)
  <2>1. \A i \in 1 .. Len(a), j \in 1 .. Len(b) : a[i] # b[j]
    BY <1>3, <1>5 DEF Range
  <2>2. \A i, j \in 1 .. Len(a) : a[i] = a[j] => i = j
    BY <1>3, <1>5 DEF IsInjective
  <2>3. \A i, j \in 1 .. Len(b) : b[i] = b[j] => i = j
    BY <1>3, <1>5 DEF IsInjective
  <2>4. ASSUME NEW i \in 1 .. Len(a) + Len(b), NEW j \in 1 .. Len(a) + Len(b), c[i] = c[j]
        PROVE  i = j
    <3>1. i <= Len(a) \/ i - Len(a) \in 1 .. Len(b)
      BY <1>3
    <3>2. j <= Len(a) \/ j - Len(a) \in 1 .. Len(b)
      BY <1>3
    <3> QED BY <1>1, <1>3, <2>1, <2>2, <2>3, <2>4, <3>1, <3>2
  <2> QED BY <1>4, <2>4 DEF IsInjective
<1> QED BY <1>1, <1>2, <1>5 DEF c

(* The playlist a list becomes: new tracks behind "first" for songs it has not. *)
LEMMA WithSongsListing ==
  ASSUME NEW L \in Listings, NEW songs \in Seq(Songs), IsInjective(songs),
         NEW first \in Nat, first + Len(songs) <= MaxTracks, NEW action,
         NEW R, R = WithSongs(L, songs, first, action)
  PROVE  /\ R \in Listings
         /\ R.garbage = L.garbage
         /\ Range(R.tracks) = Range(L.tracks) \cup first + 1 .. first + Len(songs)
         /\ IsInjective(L.tracks) /\ Range(L.tracks) \subseteq 1 .. first => IsInjective(R.tracks)
         /\ \A i \in 1 .. Len(songs) : R.files[songs[i]] = first + i
         /\ \A s \in Songs \ Range(songs) : R.files[s] = L.files[s]
<1> DEFINE n == Len(songs)
           new == [i \in 1 .. n |-> first + i]
           At(s) == CHOOSE i \in 1 .. n : songs[i] = s
<1>1. n \in Nat /\ DOMAIN songs = 1 .. n /\ MaxTracks \in Nat
  BY PlaylistAssumption
<1>2. new \in Seq(Ids) /\ Len(new) = n /\ \A i \in 1 .. n : new[i] = first + i
  <2>1. \A i \in 1 .. n : first + i \in Ids
    BY <1>1 DEF Ids
  <2>2. new \in [1 .. n -> Ids]
    BY <2>1
  <2> QED BY <1>1, <2>2
<1>3. L.tracks \in Seq(Ids) /\ L.files \in [Songs -> 0 .. MaxTracks] /\ L.garbage \in SUBSET Ids
  BY DEF Listings
<1>4. Range(new) = first + 1 .. first + n
  <2>1. Range(new) = {new[i] : i \in 1 .. n}
    BY DEF Range
  <2>2. ASSUME NEW t \in first + 1 .. first + n PROVE \E i \in 1 .. n : new[i] = t
    <3>1. t - first \in 1 .. n /\ first + (t - first) = t
      BY <1>1
    <3> QED BY <3>1, <1>2
  <2>3. \A i \in 1 .. n : new[i] \in first + 1 .. first + n
    BY <1>1, <1>2
  <2> QED BY <2>1, <2>2, <2>3
<1>5. IsInjective(new)
  BY <1>1, <1>2 DEF IsInjective
<1>6. R.tracks = new \o L.tracks \/ R.tracks = L.tracks \o new
  BY DEF WithSongs
<1> HIDE DEF new
<1>7. /\ R.tracks \in Seq(Ids) /\ Range(R.tracks) = Range(L.tracks) \cup Range(new)
      /\ IsInjective(L.tracks) /\ Range(L.tracks) \subseteq 1 .. first => IsInjective(R.tracks)
  <2>1. Range(L.tracks) \subseteq 1 .. first => Range(L.tracks) \cap Range(new) = {}
    BY <1>1, <1>4
  <2>2. CASE R.tracks = new \o L.tracks
    BY <1>2, <1>3, <1>5, <2>1, <2>2, Concatenated
  <2>3. CASE R.tracks = L.tracks \o new
    BY <1>2, <1>3, <1>5, <2>1, <2>3, Concatenated
  <2> QED BY <1>6, <2>2, <2>3
<1>8. ASSUME NEW s \in Range(songs) PROVE At(s) \in 1 .. n /\ songs[At(s)] = s
  BY <1>1 DEF Range
<1>9. ASSUME NEW i \in 1 .. n PROVE songs[i] \in Range(songs) /\ At(songs[i]) = i
  <2>1. songs[i] \in Range(songs)
    BY <1>1 DEF Range
  <2>2. At(songs[i]) \in 1 .. n /\ songs[At(songs[i])] = songs[i]
    BY <1>8, <2>1
  <2> HIDE DEF At
  <2> QED BY <1>1, <2>1, <2>2 DEF IsInjective
<1>10. /\ R.files = [s \in Songs |-> IF s \in Range(songs) THEN first + At(s) ELSE L.files[s]]
       /\ R.garbage = L.garbage
       /\ R \in [tracks : {R.tracks}, files : {R.files}, garbage : {R.garbage}]
  BY DEF WithSongs
<1>11. \A i \in 1 .. n : songs[i] \in Songs
  BY <1>1
<1> HIDE DEF At
<1>12. R.files \in [Songs -> 0 .. MaxTracks]
  <2>1. \A s \in Range(songs) : first + At(s) \in 0 .. MaxTracks
    BY <1>1, <1>8
  <2> QED BY <1>3, <1>10, <2>1
<1>13. R \in Listings
  BY <1>3, <1>7, <1>10, <1>12 DEF Listings
<1>14. \A i \in 1 .. n : R.files[songs[i]] = first + i
  BY <1>9, <1>10, <1>11
<1>15. \A s \in Songs \ Range(songs) : R.files[s] = L.files[s]
  BY <1>10
<1> QED BY <1>4, <1>7, <1>10, <1>13, <1>14, <1>15

(* New tracks are made for songs[l], which l has not, in each of the playlists K;
   those of one are behind first[l], those of all behind the tracks made before. *)
Adds(r, h, K, songs, first, action) ==
  /\ r.made \in h.made .. MaxTracks
  /\ r.freed = h.freed /\ r.orphan = h.orphan /\ r.deleted = {}
  /\ r.removed = h.removed /\ r.deferred = h.deferred
  /\ r.file \in [Ids -> Songs \cup {Nil}]
  /\ \A t \in 1 .. h.made : r.file[t] = h.file[t]
  /\ \A l \in K : \A i \in 1 .. Len(songs[l]) : r.file[first[l] + i] = songs[l][i]
  /\ r.list = [l \in Lists |-> IF l \in K THEN WithSongs(h.list[l], songs[l], first[l], action)
                               ELSE h.list[l]]
  /\ r \in [made : {r.made}, file : {r.file}, freed : {r.freed}, orphan : {r.orphan},
            deleted : {r.deleted}, removed : {r.removed}, deferred : {r.deferred},
            list : {r.list}]

Addable(r, h, K, songs, first) ==
  /\ \A l \in K : /\ songs[l] \in Seq(Songs) /\ IsInjective(songs[l])
                  /\ first[l] \in Nat
                  /\ NewTracks(songs, first, l) \subseteq h.made + 1 .. r.made
                  /\ first[l] >= h.made /\ first[l] + Len(songs[l]) <= MaxTracks
                  /\ \A s \in Range(songs[l]) : h.list[l].files[s] = 0
  /\ \A l, m \in K : l # m => NewTracks(songs, first, l) \cap NewTracks(songs, first, m) = {}

LEMMA AddsSound ==
  ASSUME NEW M \in SUBSET Lists, NEW D \in SUBSET Lists, NEW h, Sound(h, M, D),
         h.deleted = {}, M \cap D = {}, NEW K \in SUBSET M, NEW songs, NEW first, NEW action,
         NEW r, Adds(r, h, K, songs, first, action), Addable(r, h, K, songs, first)
  PROVE  Sound(r, M, D) /\ Completes(r, h)
<1>1. h \in Heaps /\ h.made \in Nat /\ MaxTracks \in Nat /\ r.made \in Nat
      /\ h.made <= r.made /\ r.made <= MaxTracks
  BY HeapFields, PlaylistAssumption DEF Sound, Adds
<1>2. /\ r.freed = h.freed /\ r.orphan = h.orphan /\ r.deleted = {}
      /\ r.removed = h.removed /\ r.deferred = h.deferred
      /\ r.file \in [Ids -> Songs \cup {Nil}]
      /\ \A t \in 1 .. h.made : r.file[t] = h.file[t]
  BY DEF Adds
<1>3. \A l \in Lists \ K : r.list[l] = h.list[l] /\ TracksOf(r, l) = TracksOf(h, l)
  BY DEF Adds, TracksOf
<1>4. ASSUME NEW l \in K
      PROVE  /\ r.list[l] \in Listings
             /\ r.list[l].garbage = h.list[l].garbage
             /\ TracksOf(r, l) = TracksOf(h, l) \cup NewTracks(songs, first, l)
             /\ IsInjective(r.list[l].tracks)
             /\ \A i \in 1 .. Len(songs[l]) : r.list[l].files[songs[l][i]] = first[l] + i
             /\ \A s \in Songs \ Range(songs[l]) : r.list[l].files[s] = h.list[l].files[s]
  <2> DEFINE L == h.list[l]
             R == r.list[l]
             sgs == songs[l]
             f == first[l]
  <2>1. R = WithSongs(L, sgs, f, action)
    BY DEF Adds
  <2>2. L \in Listings /\ IsInjective(L.tracks)
    BY <1>1, ListFields DEF Sound, InUse
  <2>3. sgs \in Seq(Songs) /\ IsInjective(sgs) /\ f \in Nat /\ f + Len(sgs) <= MaxTracks /\ f >= h.made
    BY DEF Addable
  <2>4. Range(L.tracks) \subseteq 1 .. h.made
    BY DEF Sound, MadeBefore, Places, TracksOf
  <2>5. TracksOf(r, l) = Range(R.tracks) /\ TracksOf(h, l) = Range(L.tracks)
        /\ NewTracks(songs, first, l) = f + 1 .. f + Len(sgs)
    BY DEF TracksOf, NewTracks
  <2> HIDE DEF L, R, sgs, f
  <2>6. Range(L.tracks) \subseteq 1 .. f
    BY <1>1, <2>3, <2>4
  <2>7. /\ R \in Listings
        /\ R.garbage = L.garbage
        /\ Range(R.tracks) = Range(L.tracks) \cup f + 1 .. f + Len(sgs)
        /\ IsInjective(R.tracks)
        /\ \A i \in 1 .. Len(sgs) : R.files[sgs[i]] = f + i
        /\ \A s \in Songs \ Range(sgs) : R.files[s] = L.files[s]
    BY <2>1, <2>2, <2>3, <2>6, WithSongsListing
  <2> QED BY <2>5, <2>7 DEF L, R, sgs, f
<1>5. \A l \in K : NewTracks(songs, first, l) \subseteq h.made + 1 .. r.made
  BY DEF Addable
<1>6. \A l \in Lists : Places(h, l) \subseteq 1 .. h.made
  BY DEF Sound, MadeBefore
<1>7. \A l \in Lists : Places(r, l) \subseteq 1 .. r.made
  <2> TAKE l \in Lists
  <2>1. CASE l \in K
    <3>1. Places(r, l) = Places(h, l) \cup NewTracks(songs, first, l)
      BY <1>4, <2>1 DEF Places
    <3> QED BY <1>1, <1>5, <1>6, <2>1, <3>1
  <2>2. CASE l \notin K
    <3>1. Places(r, l) = Places(h, l)
      BY <1>3, <2>2 DEF Places
    <3> QED BY <1>1, <1>6, <3>1
  <2> QED BY <2>1, <2>2
<1>8. r \in Heaps
  <2>1. r.list \in [Lists -> Listings]
    <3>1. \A l \in Lists : h.list[l] \in Listings
      BY <1>1, ListFields
    <3>2. \A l \in Lists : r.list[l] \in Listings
      BY <1>3, <1>4, <3>1
    <3>3. DOMAIN r.list = Lists /\ r.list = [l \in Lists |-> r.list[l]]
      BY DEF Adds
    <3> QED BY <3>2, <3>3
  <2>2. r.freed \in SUBSET Ids /\ r.orphan \in SUBSET Ids /\ r.removed \in SUBSET Ids
        /\ r.deferred \in SUBSET Ids /\ r.deleted \in SUBSET Ids
    BY <1>1, <1>2, HeapFields
  <2>3. r \in [made : {r.made}, file : {r.file}, freed : {r.freed}, orphan : {r.orphan},
               deleted : {r.deleted}, removed : {r.removed}, deferred : {r.deferred},
               list : {r.list}]
    BY DEF Adds
  <2>4. r.made \in 0 .. MaxTracks
    BY <1>1
  <2> QED BY <1>2, <2>1, <2>2, <2>3, <2>4 DEF Heaps
<1>9. MadeBefore(r)
  <2>1. h.freed \cup h.orphan \cup h.removed \cup h.deferred \subseteq 1 .. h.made
    BY DEF Sound, MadeBefore
  <2>2. r.freed \cup r.orphan \cup r.deleted \cup r.removed \cup r.deferred \subseteq 1 .. r.made
    BY <1>1, <1>2, <2>1
  <2>3. ASSUME NEW l \in Lists PROVE r.list[l].files \in [Songs -> 0 .. r.made]
    <3>1. h.list[l].files \in [Songs -> 0 .. h.made]
      BY DEF Sound, MadeBefore
    <3>2. CASE l \notin K
      BY <1>1, <1>3, <3>1, <3>2
    <3>3. CASE l \in K
      <4>1. r.list[l].files \in [Songs -> 0 .. MaxTracks]
        BY <1>4, <3>3 DEF Listings
      <4>2. ASSUME NEW s \in Songs PROVE r.list[l].files[s] \in 0 .. r.made
        <5>1. CASE s \notin Range(songs[l])
          BY <1>1, <1>4, <3>1, <3>3, <5>1
        <5>2. CASE s \in Range(songs[l])
          <6>1. PICK i \in 1 .. Len(songs[l]) : songs[l][i] = s
            BY <3>3, <5>2 DEF Addable, Range
          <6>2. r.list[l].files[s] = first[l] + i
            BY <1>4, <3>3, <6>1
          <6>3. first[l] + i \in NewTracks(songs, first, l)
            BY <3>3 DEF NewTracks, Addable
          <6> QED BY <1>1, <1>5, <3>3, <6>2, <6>3
        <5> QED BY <5>1, <5>2
      <4> QED BY <4>1, <4>2
    <3> QED BY <3>2, <3>3
  <2> QED BY <1>7, <2>2, <2>3 DEF MadeBefore
<1>10. ASSUME NEW l \in M PROVE InUse(r, l)
  <2>1. InUse(h, l) /\ TracksOf(h, l) \subseteq 1 .. h.made
    BY <1>6 DEF Sound, Places
  <2>2. \A t \in TracksOf(h, l) : r.file[t] = h.file[t]
    BY <1>2, <2>1
  <2>3. CASE l \notin K
    <3>1. \A s \in Songs : h.list[l].files[s] # 0 => h.list[l].files[s] \in TracksOf(h, l)
      BY <2>1 DEF InUse
    <3> QED BY <1>2, <1>3, <2>1, <2>2, <2>3, <3>1 DEF InUse
  <2>4. CASE l \in K
    <3> DEFINE new == NewTracks(songs, first, l)
    <3>1. /\ songs[l] \in Seq(Songs) /\ first[l] \in Nat /\ first[l] >= h.made
          /\ \A s \in Range(songs[l]) : h.list[l].files[s] = 0
      BY <2>4 DEF Addable
    <3>2. TracksOf(r, l) = TracksOf(h, l) \cup new
      BY <1>4, <2>4
    <3>3. ASSUME NEW t \in new
          PROVE  /\ t - first[l] \in 1 .. Len(songs[l])
                 /\ r.file[t] = songs[l][t - first[l]] /\ r.file[t] \in Songs
                 /\ r.list[l].files[r.file[t]] = t
      <4>1. t - first[l] \in 1 .. Len(songs[l]) /\ first[l] + (t - first[l]) = t
        BY <3>1 DEF NewTracks
      <4>2. r.file[t] = songs[l][t - first[l]]
        BY <2>4, <4>1 DEF Adds
      <4> QED BY <1>4, <2>4, <3>1, <4>1, <4>2
    <3>4. ASSUME NEW t \in TracksOf(h, l)
          PROVE  r.file[t] \in Songs /\ r.list[l].files[r.file[t]] = t
      <4>1. h.file[t] \in Songs /\ h.list[l].files[h.file[t]] = t /\ t # 0
        BY <2>1 DEF InUse
      <4>2. h.file[t] \notin Range(songs[l])
        BY <3>1, <4>1
      <4> QED BY <1>4, <2>2, <2>4, <4>1, <4>2
    <3>5. ASSUME NEW s \in Songs, r.list[l].files[s] # 0
          PROVE  r.list[l].files[s] \in TracksOf(r, l) /\ r.file[r.list[l].files[s]] = s
      <4>1. CASE s \in Range(songs[l])
        <5>1. PICK i \in 1 .. Len(songs[l]) : songs[l][i] = s
          BY <3>1, <4>1 DEF Range
        <5>2. r.list[l].files[s] = first[l] + i
          BY <1>4, <2>4, <5>1
        <5>3. first[l] + i \in new
          BY <3>1 DEF NewTracks
        <5>4. r.file[first[l] + i] = s
          BY <2>4, <5>1 DEF Adds
        <5> QED BY <3>2, <5>2, <5>3, <5>4
      <4>2. CASE s \notin Range(songs[l])
        <5>1. r.list[l].files[s] = h.list[l].files[s]
          BY <1>4, <2>4, <4>2
        <5>2. h.list[l].files[s] \in TracksOf(h, l) /\ h.file[h.list[l].files[s]] = s
          BY <2>1, <3>5, <5>1 DEF InUse
        <5> QED BY <2>2, <3>2, <5>1, <5>2
      <4> QED BY <4>1, <4>2
    <3>6. h.list[l].garbage \cup h.freed \cup h.removed \cup h.orphan \subseteq 1 .. h.made
      BY <1>6 DEF Sound, MadeBefore, Places
    <3>7. new \cap 1 .. h.made = {}
      BY <1>1, <1>5, <2>4
    <3> HIDE DEF new
    <3>8. TracksOf(r, l) \cap (r.list[l].garbage \cup r.freed \cup r.removed) = {}
      <4>1. TracksOf(h, l) \cap (h.list[l].garbage \cup h.freed \cup h.removed) = {}
        BY <2>1 DEF InUse
      <4>2. r.list[l].garbage = h.list[l].garbage
        BY <1>4, <2>4
      <4> QED BY <1>2, <3>2, <3>6, <3>7, <4>1, <4>2
    <3>9. TracksOf(r, l) \cap r.orphan = {}
      <4>1. TracksOf(h, l) \cap h.orphan = {}
        BY <2>1 DEF InUse
      <4> QED BY <1>2, <3>2, <3>6, <3>7, <4>1
    <3>10. \A t \in TracksOf(r, l) : r.file[t] \in Songs /\ r.list[l].files[r.file[t]] = t
      BY <3>2, <3>3, <3>4
    <3>11. IsInjective(r.list[l].tracks)
      BY <1>4, <2>4
    <3> QED BY <3>5, <3>8, <3>9, <3>10, <3>11 DEF InUse
  <2> QED BY <2>3, <2>4
<1>11. \A l \in M \cup D : Collectable(r, l)
  <2> TAKE l \in M \cup D
  <2>1. Collectable(h, l) /\ l \in Lists
    BY DEF Sound
  <2>2. r.list[l].garbage = h.list[l].garbage
    BY <1>3, <1>4
  <2> QED BY <1>2, <2>1, <2>2 DEF Collectable
<1>12. Apart(r, M \cup D)
  <2> DEFINE new(l) == IF l \in K THEN NewTracks(songs, first, l) ELSE {}
  <2>1. \A l \in Lists : Places(r, l) = Places(h, l) \cup new(l)
    BY <1>3, <1>4 DEF Places
  <2>2. \A l \in Lists : Places(h, l) \subseteq 1 .. h.made /\ new(l) \cap 1 .. h.made = {}
    BY <1>1, <1>5, <1>6
  <2>3. \A l, m \in Lists : l # m => new(l) \cap new(m) = {}
    BY DEF Addable
  <2>4. \A l, m \in M \cup D : l # m => Places(h, l) \cap Places(h, m) = {}
    BY DEF Sound, Apart
  <2> HIDE DEF new
  <2>5. \A l, m \in M \cup D : l # m => Places(r, l) \cap Places(r, m) = {}
    BY <2>1, <2>2, <2>3, <2>4
  <2> QED BY <2>5 DEF Apart
<1>13. Sound(r, M, D)
  BY <1>8, <1>9, <1>10, <1>11, <1>12 DEF Sound
<1> QED BY <1>1, <1>2, <1>13 DEF Completes

(* addAlbum(), addSong(): songs the playlist has not. *)
LEMMA AddAlbumSound ==
  ASSUME NEW M \in SUBSET Lists, NEW D \in SUBSET Lists, NEW h, Sound(h, M, D),
         h.deleted = {}, M \cap D = {}, NEW l \in M, NEW songs \in Seq(Songs), IsInjective(songs),
         h.made + Len(songs) <= MaxTracks, \A s \in Range(songs) : h.list[l].files[s] = 0,
         NEW action, NEW r, \/ r = AddAlbum(h, l, songs, action, TRUE)
                            \/ r = AddAlbum(h, l, songs, action, FALSE)
  PROVE  Sound(r, M, D) /\ Completes(r, h)
<1> DEFINE K == {l}
           sgs == [m \in K |-> songs]
           first == [m \in K |-> h.made]
           r1 == AddSongs(h, l, songs, action)
<1>1. h \in Heaps /\ h.made \in Nat /\ MaxTracks \in Nat /\ Len(songs) \in Nat
  BY HeapFields, PlaylistAssumption DEF Sound
<1>2. CASE songs = <<>>
  <2>1. r = h
    BY <1>2 DEF AddAlbum
  <2> QED BY <1>1, <2>1 DEF Completes
<1>3. CASE songs # <<>>
  <2>1. /\ r1.made = h.made + Len(songs)
        /\ r1.freed = h.freed /\ r1.orphan = h.orphan /\ r1.deleted = {}
        /\ r1.removed = h.removed /\ r1.deferred = h.deferred
        /\ r1.file = [t \in Ids |-> IF t \in h.made + 1 .. h.made + Len(songs)
                                    THEN songs[t - h.made] ELSE h.file[t]]
        /\ r1.list = [h.list EXCEPT ![l] = WithSongs(@, songs, h.made, action)]
        /\ r1 \in [made : {r1.made}, file : {r1.file}, freed : {r1.freed}, orphan : {r1.orphan},
                   deleted : {r1.deleted}, removed : {r1.removed}, deferred : {r1.deferred},
                   list : {r1.list}]
    BY <1>1 DEF AddSongs, Heaps
  <2>2. r = r1 \/ r = Reindex(r1, {l})
    BY <1>3 DEF AddAlbum
  <2> HIDE DEF r1
  <2>3. /\ r.made = h.made + Len(songs)
        /\ r.freed = h.freed /\ r.orphan = h.orphan /\ r.deleted = {}
        /\ r.removed = h.removed /\ r.deferred = h.deferred
        /\ r.file = [t \in Ids |-> IF t \in h.made + 1 .. h.made + Len(songs)
                                   THEN songs[t - h.made] ELSE h.file[t]]
        /\ r.list = [h.list EXCEPT ![l] = WithSongs(@, songs, h.made, action)]
        /\ r \in [made : {r.made}, file : {r.file}, freed : {r.freed}, orphan : {r.orphan},
                  deleted : {r.deleted}, removed : {r.removed}, deferred : {r.deferred},
                  list : {r.list}]
    BY <2>1, <2>2 DEF Reindex
  <2>4. r.file \in [Ids -> Songs \cup {Nil}]
    <3>1. h.file \in [Ids -> Songs \cup {Nil}]
      BY <1>1, HeapFields
    <3>2. \A t \in h.made + 1 .. h.made + Len(songs) : songs[t - h.made] \in Songs
      <4> TAKE t \in h.made + 1 .. h.made + Len(songs)
      <4>1. t - h.made \in 1 .. Len(songs)
        BY <1>1
      <4> QED BY <4>1
    <3> QED BY <2>3, <3>1, <3>2
  <2>5. \A t \in 1 .. h.made : r.file[t] = h.file[t]
    BY <1>1, <2>3, HeapFields DEF Ids
  <2>6. \A i \in 1 .. Len(songs) : r.file[h.made + i] = songs[i]
    <3> TAKE i \in 1 .. Len(songs)
    <3>1. h.made + i \in Ids /\ h.made + i \in h.made + 1 .. h.made + Len(songs)
          /\ (h.made + i) - h.made = i
      BY <1>1 DEF Ids
    <3> QED BY <2>3, <3>1
  <2>7. r.list = [m \in Lists |-> IF m \in K THEN WithSongs(h.list[m], sgs[m], first[m], action)
                                  ELSE h.list[m]]
    <3>1. DOMAIN h.list = Lists
      BY <1>1, HeapFields
    <3> QED BY <2>3, <3>1
  <2>8. Adds(r, h, K, sgs, first, action)
    <3>1. r.made \in h.made .. MaxTracks
      BY <1>1, <2>3
    <3>2. \A m \in K : \A i \in 1 .. Len(sgs[m]) : r.file[first[m] + i] = sgs[m][i]
      BY <2>6
    <3> HIDE DEF K, sgs, first
    <3> QED BY <2>3, <2>4, <2>5, <2>7, <3>1, <3>2 DEF Adds
  <2>9. Addable(r, h, K, sgs, first)
    BY <1>1, <2>3 DEF Addable, NewTracks
  <2> HIDE DEF K, sgs, first
  <2>10. K \in SUBSET M
    BY DEF K
  <2> QED BY <2>8, <2>9, <2>10, AddsSound
<1> QED BY <1>2, <1>3

Emptied(h, lists) == \A l \in lists : h.list[l].files = [s \in Songs |-> 0]

(* loadFromFile() for playlists that have been cleared. *)
LEMMA LoadFromFileSound ==
  ASSUME NEW M \in SUBSET Lists, NEW D \in SUBSET Lists, NEW h, Sound(h, M, D),
         h.deleted = {}, M \cap D = {}, Emptied(h, M),
         NEW songs, \A l \in M : songs[l] \in Seq(Songs) /\ IsInjective(songs[l]),
         NEW first \in [M -> h.made .. MaxTracks], NEW made \in h.made .. MaxTracks,
         OneByOne(h, M, songs, first, made),
         NEW r, r = LoadFromFile(h, M, songs, first, made)
  PROVE  Sound(r, M, D) /\ Completes(r, h)
<1> DEFINE New(l) == NewTracks(songs, first, l)
           ListOf(t) == CHOOSE l \in M : t \in New(l)
           r1 == [h EXCEPT
                    !.made = made,
                    !.file = [t \in Ids |-> IF t \in h.made + 1 .. made
                                THEN songs[ListOf(t)][t - first[ListOf(t)]] ELSE h.file[t]],
                    !.list = [l \in Lists |-> IF l \in M
                                THEN WithSongs(h.list[l], songs[l], first[l], "append")
                                ELSE h.list[l]]]
<1>1. h \in Heaps /\ h.made \in Nat /\ MaxTracks \in Nat
  BY HeapFields, PlaylistAssumption DEF Sound
<1>2. \A l \in M : /\ first[l] \in Nat /\ first[l] >= h.made /\ first[l] <= MaxTracks
                   /\ Len(songs[l]) \in Nat
  BY <1>1
<1>3. /\ UNION {New(l) : l \in M} = h.made + 1 .. made
      /\ \A l, m \in M : l # m => New(l) \cap New(m) = {}
  BY DEF OneByOne
<1>4. ASSUME NEW l \in M, NEW i \in 1 .. Len(songs[l])
      PROVE  /\ first[l] + i \in New(l) /\ first[l] + i \in h.made + 1 .. made
             /\ ListOf(first[l] + i) = l
  <2>1. first[l] + i \in New(l)
    BY <1>2 DEF NewTracks
  <2>2. first[l] + i \in h.made + 1 .. made
    BY <1>3, <2>1
  <2>3. ListOf(first[l] + i) \in M /\ first[l] + i \in New(ListOf(first[l] + i))
    BY <2>1
  <2> HIDE DEF ListOf, New
  <2> QED BY <1>3, <2>1, <2>2, <2>3
<1>5. ASSUME NEW t \in h.made + 1 .. made
      PROVE  songs[ListOf(t)][t - first[ListOf(t)]] \in Songs
  <2>1. \E l \in M : t \in New(l)
    BY <1>3
  <2>2. ListOf(t) \in M /\ t \in New(ListOf(t))
    BY <2>1
  <2> HIDE DEF ListOf
  <2>3. t - first[ListOf(t)] \in 1 .. Len(songs[ListOf(t)])
    BY <1>2, <2>2 DEF NewTracks
  <2>4. songs[ListOf(t)] \in Seq(Songs)
    BY <2>2
  <2> QED BY <2>3, <2>4
<1> HIDE DEF ListOf, New
<1>6. r = Reindex(r1, {l \in M : songs[l] # <<>>})
  BY DEF LoadFromFile, ListOf, New
<1>7. /\ r1.made = made
      /\ r1.freed = h.freed /\ r1.orphan = h.orphan /\ r1.deleted = {}
      /\ r1.removed = h.removed /\ r1.deferred = h.deferred
      /\ r1.file = [t \in Ids |-> IF t \in h.made + 1 .. made
                       THEN songs[ListOf(t)][t - first[ListOf(t)]] ELSE h.file[t]]
      /\ r1.list = [l \in Lists |-> IF l \in M
                       THEN WithSongs(h.list[l], songs[l], first[l], "append") ELSE h.list[l]]
      /\ r1 \in [made : {r1.made}, file : {r1.file}, freed : {r1.freed}, orphan : {r1.orphan},
                 deleted : {r1.deleted}, removed : {r1.removed}, deferred : {r1.deferred},
                 list : {r1.list}]
  BY <1>1 DEF Heaps
<1> HIDE DEF r1
<1>8. /\ r.made = made
      /\ r.freed = h.freed /\ r.orphan = h.orphan /\ r.deleted = {}
      /\ r.removed = h.removed /\ r.deferred = h.deferred
      /\ r.file = [t \in Ids |-> IF t \in h.made + 1 .. made
                      THEN songs[ListOf(t)][t - first[ListOf(t)]] ELSE h.file[t]]
      /\ r.list = [l \in Lists |-> IF l \in M
                      THEN WithSongs(h.list[l], songs[l], first[l], "append") ELSE h.list[l]]
      /\ r \in [made : {r.made}, file : {r.file}, freed : {r.freed}, orphan : {r.orphan},
                deleted : {r.deleted}, removed : {r.removed}, deferred : {r.deferred},
                list : {r.list}]
  BY <1>6, <1>7 DEF Reindex
<1>9. h.file \in [Ids -> Songs \cup {Nil}]
  BY <1>1, HeapFields
<1>10. r.file \in [Ids -> Songs \cup {Nil}]
  BY <1>5, <1>8, <1>9
<1>11. made \in Int /\ h.made <= made /\ made <= MaxTracks
  BY <1>1
<1>12. \A t \in 1 .. h.made : t \in Ids /\ t \notin h.made + 1 .. made
  BY <1>1, <1>11 DEF Ids
<1>13. \A t \in 1 .. h.made : r.file[t] = h.file[t]
  BY <1>8, <1>12
<1>14. ASSUME NEW l \in M, NEW i \in 1 .. Len(songs[l])
       PROVE  r.file[first[l] + i] = songs[l][i]
  <2>1. first[l] + i \in h.made + 1 .. made /\ ListOf(first[l] + i) = l
    BY <1>4
  <2>2. first[l] + i \in Ids
    BY <1>1, <1>11, <2>1 DEF Ids
  <2>3. (first[l] + i) - first[l] = i
    BY <1>2
  <2> QED BY <1>8, <2>1, <2>2, <2>3
<1>15. Adds(r, h, M, songs, first, "append")
  BY <1>8, <1>10, <1>13, <1>14 DEF Adds
<1>16. ASSUME NEW l \in M
       PROVE  /\ New(l) \subseteq h.made + 1 .. r.made
              /\ first[l] + Len(songs[l]) <= MaxTracks
              /\ \A s \in Range(songs[l]) : h.list[l].files[s] = 0
  <2>1. New(l) \subseteq h.made + 1 .. r.made
    BY <1>3, <1>8
  <2>2. first[l] + Len(songs[l]) <= MaxTracks
    <3>1. CASE Len(songs[l]) = 0
      BY <1>2, <3>1
    <3>2. CASE Len(songs[l]) # 0
      <4>1. Len(songs[l]) \in 1 .. Len(songs[l])
        BY <1>2, <3>2
      <4>2. first[l] + Len(songs[l]) \in h.made + 1 .. made
        BY <1>4, <4>1
      <4> QED BY <1>1, <1>11, <4>2
    <3> QED BY <3>1, <3>2
  <2>3. Range(songs[l]) \subseteq Songs
    BY RangeOfSeq
  <2> QED BY <2>1, <2>2, <2>3 DEF Emptied
<1>17. Addable(r, h, M, songs, first)
  BY <1>2, <1>3, <1>16 DEF Addable, New
<1> QED BY <1>15, <1>17, AddsSound

-----------------------------------------------------------------------------
(* Collection of garbage. *)

(* Only the marks that defer the end of a track change. *)
Defers(r, h) ==
  /\ r.deferred \subseteq 1 .. h.made
  /\ r.made = h.made /\ r.file = h.file /\ r.freed = h.freed /\ r.orphan = h.orphan
  /\ r.deleted = h.deleted /\ r.removed = h.removed /\ r.list = h.list
  /\ r \in [made : {r.made}, file : {r.file}, freed : {r.freed}, orphan : {r.orphan},
            deleted : {r.deleted}, removed : {r.removed}, deferred : {r.deferred},
            list : {r.list}]

LEMMA DefersSound ==
  ASSUME NEW M \in SUBSET Lists, NEW D \in SUBSET Lists, NEW h, Sound(h, M, D),
         NEW r, Defers(r, h)
  PROVE  Sound(r, M, D)
<1>1. h \in Heaps /\ h.made \in Nat /\ MaxTracks \in Nat /\ h.made <= MaxTracks
  BY HeapFields, PlaylistAssumption DEF Sound
<1>2. r.deferred \in SUBSET Ids
  BY <1>1 DEF Defers, Ids
<1>3. r \in Heaps
  BY <1>1, <1>2, HeapFields DEF Defers, Heaps
<1>4. \A l : TracksOf(r, l) = TracksOf(h, l) /\ Places(r, l) = Places(h, l)
  BY ListsKept DEF Defers
<1>5. MadeBefore(r)
  BY <1>4 DEF Sound, MadeBefore, Defers
<1>6. \A l \in M : InUse(r, l)
  <2> TAKE l \in M
  <2>1. InUse(h, l)
    BY DEF Sound
  <2> QED BY <1>4, <2>1 DEF InUse, Defers
<1>7. \A l \in M \cup D : Collectable(r, l)
  BY DEF Sound, Collectable, Defers
<1>8. Apart(r, M \cup D)
  BY <1>4 DEF Sound, Apart
<1> QED BY <1>3, <1>5, <1>6, <1>7, <1>8 DEF Sound

LEMMA ReleaseSound ==
  ASSUME NEW M \in SUBSET Lists, NEW D \in SUBSET Lists, NEW h, Sound(h, M, D),
         NEW lists, NEW stray, NEW r, r = Release(h, lists, stray)
  PROVE  Sound(r, M, D) /\ Defers(r, h)
<1>1. h \in Heaps /\ h.deferred \subseteq 1 .. h.made
  BY DEF Sound, MadeBefore
<1> DEFINE X == h.deferred \ r.deferred
<1>2. PICK Y : r = [h EXCEPT !.deferred = @ \ Y]
  BY DEF Release
<1>3. Defers(r, h)
  BY <1>1, <1>2 DEF Defers, Heaps
<1> QED BY <1>3, DefersSound

(* reset() finds nothing to do in playlists that are in use. *)
LEMMA ResetSound ==
  ASSUME NEW M \in SUBSET Lists, NEW D \in SUBSET Lists, NEW h, Sound(h, M, D),
         NEW r, r = Reset(h, M)
  PROVE  Sound(r, M, D) /\ Defers(r, h)
<1>1. h \in Heaps /\ h.deferred \subseteq 1 .. h.made
  BY DEF Sound, MadeBefore
<1>2. (UNION {TracksOf(h, l) : l \in M}) \cap h.removed = {}
  BY DEF Sound, InUse
<1>3. Defers(r, h)
  BY <1>1, <1>2 DEF Reset, Defers, Heaps
<1> QED BY <1>3, DefersSound

(* Tracks T are freed, and the playlists forget them or are emptied. *)
Frees(r, h, T, M, D) ==
  /\ r.made = h.made /\ r.freed = h.freed \cup T
  /\ r.file = [t \in Ids |-> IF t \in T THEN Nil ELSE h.file[t]]
  /\ r.orphan = h.orphan \ T /\ r.deleted = h.deleted \ T /\ r.removed = h.removed \ T
  /\ r.deferred = h.deferred \ T
  /\ r.list \in [Lists -> Listings]
  /\ \A l \in Lists : /\ Places(r, l) \subseteq Places(h, l)
                      /\ r.list[l].garbage \subseteq h.list[l].garbage
                      /\ \/ /\ r.list[l].tracks = h.list[l].tracks
                            /\ r.list[l].files = h.list[l].files
                         \/ /\ r.list[l].tracks = <<>>
                            /\ r.list[l].files = [s \in Songs |-> 0]
  /\ \A l \in M : TracksOf(r, l) \cap T = {}
  /\ \A l \in M \cup D : r.list[l].garbage \cap T = {}
  /\ r \in [made : {r.made}, file : {r.file}, freed : {r.freed}, orphan : {r.orphan},
            deleted : {r.deleted}, removed : {r.removed}, deferred : {r.deferred},
            list : {r.list}]

LEMMA FreesSound ==
  ASSUME NEW M \in SUBSET Lists, NEW D \in SUBSET Lists, NEW h, Sound(h, M, D),
         NEW T \in SUBSET (1 .. h.made), NEW r, Frees(r, h, T, M, D)
  PROVE  Sound(r, M, D)
<1>1. h \in Heaps /\ h.made \in Nat /\ MaxTracks \in Nat /\ h.made <= MaxTracks
  BY HeapFields, PlaylistAssumption DEF Sound
<1>2. T \subseteq Ids
  BY <1>1 DEF Ids
<1>3. r.file \in [Ids -> Songs \cup {Nil}]
  BY <1>1, HeapFields DEF Frees
<1>4. r \in Heaps
  <2>1. /\ r.freed \in SUBSET Ids /\ r.orphan \in SUBSET Ids /\ r.deleted \in SUBSET Ids
        /\ r.removed \in SUBSET Ids /\ r.deferred \in SUBSET Ids
    BY <1>1, <1>2, HeapFields DEF Frees
  <2>2. /\ r.made \in 0 .. MaxTracks /\ r.list \in [Lists -> Listings]
        /\ r \in [made : {r.made}, file : {r.file}, freed : {r.freed}, orphan : {r.orphan},
                  deleted : {r.deleted}, removed : {r.removed}, deferred : {r.deferred},
                  list : {r.list}]
    BY <1>1, HeapFields DEF Frees
  <2> QED BY <1>3, <2>1, <2>2 DEF Heaps
<1>5. MadeBefore(r)
  <2>1. r.freed \cup r.orphan \cup r.deleted \cup r.removed \cup r.deferred \subseteq 1 .. r.made
    BY DEF Sound, MadeBefore, Frees
  <2>2. ASSUME NEW l \in Lists
        PROVE  Places(r, l) \subseteq 1 .. r.made /\ r.list[l].files \in [Songs -> 0 .. r.made]
    <3>1. Places(h, l) \subseteq 1 .. h.made /\ h.list[l].files \in [Songs -> 0 .. h.made]
      BY DEF Sound, MadeBefore
    <3>2. r.made = h.made /\ Places(r, l) \subseteq Places(h, l)
      BY DEF Frees
    <3>3. r.list[l].files = h.list[l].files \/ r.list[l].files = [s \in Songs |-> 0]
      BY DEF Frees
    <3> QED BY <1>1, <3>1, <3>2, <3>3
  <2> QED BY <2>1, <2>2 DEF MadeBefore
<1>6. ASSUME NEW l \in M PROVE InUse(r, l)
  <2>1. InUse(h, l) /\ TracksOf(h, l) \subseteq Ids
    BY <1>1, ListFields DEF Sound
  <2>2. CASE r.list[l].tracks = <<>> /\ r.list[l].files = [s \in Songs |-> 0]
    <3>1. TracksOf(r, l) = {} /\ IsInjective(r.list[l].tracks)
      BY <2>2 DEF TracksOf, Range, IsInjective
    <3> QED BY <2>2, <3>1 DEF InUse
  <2>3. CASE r.list[l].tracks = h.list[l].tracks /\ r.list[l].files = h.list[l].files
    <3>1. TracksOf(r, l) = TracksOf(h, l) /\ TracksOf(h, l) \cap T = {}
      <4>1. TracksOf(r, l) = TracksOf(h, l)
        BY <2>3 DEF TracksOf
      <4> QED BY <4>1 DEF Frees
    <3>2. \A t \in TracksOf(h, l) : r.file[t] = h.file[t]
      BY <2>1, <3>1 DEF Frees
    <3>3. /\ r.list[l].garbage \subseteq h.list[l].garbage /\ r.freed = h.freed \cup T
          /\ r.removed = h.removed \ T /\ r.orphan = h.orphan \ T /\ r.deleted = h.deleted \ T
      BY DEF Frees
    <3>4. TracksOf(r, l) \cap (r.list[l].garbage \cup r.freed \cup r.removed) = {}
      BY <2>1, <3>1, <3>3 DEF InUse
    <3>5. TracksOf(r, l) \cap r.orphan \subseteq r.deleted
      BY <2>1, <3>1, <3>3 DEF InUse
    <3>6. \A t \in TracksOf(r, l) : r.file[t] \in Songs /\ r.list[l].files[r.file[t]] = t
      BY <2>1, <2>3, <3>1, <3>2 DEF InUse
    <3>7. \A s \in Songs : r.list[l].files[s] # 0 =>
            r.list[l].files[s] \in TracksOf(r, l) /\ r.file[r.list[l].files[s]] = s
      BY <2>1, <2>3, <3>1, <3>2 DEF InUse
    <3>8. IsInjective(r.list[l].tracks)
      BY <2>1, <2>3 DEF InUse
    <3> QED BY <3>4, <3>5, <3>6, <3>7, <3>8 DEF InUse
  <2> QED BY <2>2, <2>3 DEF Frees
<1>7. \A l \in M \cup D : Collectable(r, l)
  <2> TAKE l \in M \cup D
  <2>1. Collectable(h, l)
    BY DEF Sound
  <2>2. /\ r.list[l].garbage \subseteq h.list[l].garbage /\ r.list[l].garbage \cap T = {}
        /\ r.freed = h.freed \cup T /\ r.removed = h.removed \ T
    BY DEF Frees
  <2> QED BY <2>1, <2>2 DEF Collectable
<1>8. Apart(r, M \cup D)
  <2>1. \A l \in M \cup D : Places(r, l) \subseteq Places(h, l)
    BY DEF Frees
  <2>2. Apart(h, M \cup D)
    BY DEF Sound
  <2> QED BY <2>1, <2>2 DEF Apart
<1> QED BY <1>4, <1>5, <1>6, <1>7, <1>8 DEF Sound

(* Garbage is freed, but for what is deferred. *)
Collects(r, h) ==
  /\ r.made = h.made /\ r.deleted \subseteq h.deleted
  /\ h.freed \subseteq r.freed /\ r.freed \ h.freed \subseteq h.removed \ h.deferred
  /\ r.removed \subseteq h.removed /\ r.deferred = h.deferred

LEMMA CollectSound ==
  ASSUME NEW M \in SUBSET Lists, NEW D \in SUBSET Lists, NEW h, Sound(h, M, D),
         NEW lists \in SUBSET (M \cup D), NEW r, r = Collect(h, lists)
  PROVE  Sound(r, M, D) /\ Collects(r, h)
<1> DEFINE T == (UNION {h.list[l].garbage : l \in lists}) \ h.deferred
<1>1. h \in Heaps
  BY DEF Sound
<1>2. /\ r.made = h.made /\ r.freed = h.freed \cup T
      /\ r.file = [t \in Ids |-> IF t \in T THEN Nil ELSE h.file[t]]
      /\ r.orphan = h.orphan \ T /\ r.deleted = h.deleted \ T /\ r.removed = h.removed \ T
      /\ r.deferred = h.deferred \ T
      /\ r.list = [l \in Lists |-> IF l \in lists
                      THEN [h.list[l] EXCEPT !.garbage = @ \cap h.deferred] ELSE h.list[l]]
      /\ r \in [made : {r.made}, file : {r.file}, freed : {r.freed}, orphan : {r.orphan},
                deleted : {r.deleted}, removed : {r.removed}, deferred : {r.deferred},
                list : {r.list}]
  <2>1. r = [Free(h, T) EXCEPT
               !.list = [l \in Lists |-> IF l \in lists
                      THEN [h.list[l] EXCEPT !.garbage = @ \cap h.deferred] ELSE h.list[l]]]
    BY DEF Collect
  <2> HIDE DEF T
  <2> QED BY <1>1, <2>1 DEF Free, Heaps
<1>3. T \cap h.deferred = {}
  OBVIOUS
<1>4. \A l \in lists : h.list[l].garbage \subseteq h.removed /\ h.list[l].garbage \subseteq 1 .. h.made
  BY DEF Sound, Collectable, MadeBefore, Places
<1>5. T \subseteq h.removed /\ T \subseteq 1 .. h.made
  BY <1>4
<1>6. ASSUME NEW l \in Lists
      PROVE  /\ r.list[l] \in Listings
             /\ r.list[l].tracks = h.list[l].tracks /\ r.list[l].files = h.list[l].files
             /\ r.list[l].garbage \subseteq h.list[l].garbage
             /\ l \in lists => r.list[l].garbage = h.list[l].garbage \cap h.deferred
  <2>1. h.list[l] \in Listings
    BY <1>1, ListFields
  <2> QED BY <1>2, <2>1 DEF Listings
<1>7. ASSUME NEW l \in M PROVE TracksOf(r, l) \cap T = {}
  <2>1. TracksOf(r, l) = TracksOf(h, l)
    BY <1>6 DEF TracksOf
  <2>2. TracksOf(h, l) \cap h.removed = {}
    BY DEF Sound, InUse
  <2> QED BY <1>5, <2>1, <2>2
<1>8. ASSUME NEW l \in M \cup D PROVE r.list[l].garbage \cap T = {}
  <2>1. CASE l \in lists
    BY <1>3, <1>6, <2>1
  <2>2. CASE l \notin lists
    <3>1. \A m \in lists : h.list[l].garbage \cap h.list[m].garbage = {}
      BY <2>2 DEF Sound, Apart, Places
    <3> QED BY <1>6, <3>1
  <2> QED BY <2>1, <2>2
<1>9. \A l \in Lists : Places(r, l) \subseteq Places(h, l)
  BY <1>6 DEF Places, TracksOf
<1>10. r.list \in [Lists -> Listings]
  BY <1>2, <1>6
<1> HIDE DEF T
<1>11. Frees(r, h, T, M, D)
  BY <1>2, <1>6, <1>7, <1>8, <1>9, <1>10 DEF Frees
<1>12. Sound(r, M, D)
  BY <1>5, <1>11, FreesSound
<1>13. Collects(r, h)
  BY <1>2, <1>3, <1>5 DEF Collects
<1> QED BY <1>12, <1>13

(* clear() of all playlists in use. *)
Empties(r, h, lists) == r.deleted = {} /\ r.made = h.made /\ Emptied(r, lists)

LEMMA ClearSound ==
  ASSUME NEW M \in SUBSET Lists, NEW D \in SUBSET Lists, NEW h, Sound(h, M, D),
         h.deleted = {}, M \cap D = {}, NEW r, r = Clear(h, M)
  PROVE  Sound(r, M, D) /\ Empties(r, h, M)
<1> DEFINE T1 == (UNION {h.list[l].garbage : l \in M}) \ h.deferred
           T2 == UNION {TracksOf(h, l) : l \in M}
           T == T1 \cup T2
           h1 == Collect(h, M)
<1>1. h \in Heaps
  BY DEF Sound
<1>2. /\ h1.made = h.made /\ h1.freed = h.freed \cup T1
      /\ h1.file = [t \in Ids |-> IF t \in T1 THEN Nil ELSE h.file[t]]
      /\ h1.orphan = h.orphan \ T1 /\ h1.deleted = h.deleted \ T1 /\ h1.removed = h.removed \ T1
      /\ h1.deferred = h.deferred \ T1
      /\ h1 \in [made : {h1.made}, file : {h1.file}, freed : {h1.freed}, orphan : {h1.orphan},
                 deleted : {h1.deleted}, removed : {h1.removed}, deferred : {h1.deferred},
                 list : {h1.list}]
  <2>1. \E list : h1 = [Free(h, T1) EXCEPT !.list = list]
    BY DEF Collect
  <2> HIDE DEF T1, h1
  <2> QED BY <1>1, <2>1 DEF Free, Heaps
<1>3. r = [Free(h1, T2) EXCEPT
             !.list = [l \in Lists |-> IF l \in M
                THEN [EmptyList EXCEPT !.garbage = h.list[l].garbage \cap h.deferred]
                ELSE h.list[l]]]
  BY DEF Clear
<1>4. /\ T \subseteq 1 .. h.made
      /\ \A l \in M : h.list[l].garbage \cap h.deferred \cap T = {}
      /\ \A l \in D : h.list[l].garbage \cap T = {}
  <2>1. \A l \in M : Places(h, l) \subseteq 1 .. h.made
    BY DEF Sound, MadeBefore
  <2>2. T \subseteq UNION {Places(h, l) : l \in M}
    BY DEF Places
  <2>3. T \subseteq 1 .. h.made
    BY <2>1, <2>2
  <2>4. ASSUME NEW l \in D PROVE h.list[l].garbage \cap T = {}
    <3>1. \A m \in M : Places(h, l) \cap Places(h, m) = {}
      BY DEF Sound, Apart
    <3>2. h.list[l].garbage \subseteq Places(h, l)
      BY DEF Places
    <3> HIDE DEF T
    <3> QED BY <2>2, <3>1, <3>2
  <2>5. ASSUME NEW l \in M PROVE h.list[l].garbage \cap T2 = {}
    <3>1. \A m \in M : TracksOf(h, m) \cap h.removed = {}
      BY DEF Sound, InUse
    <3>2. h.list[l].garbage \subseteq h.removed
      BY DEF Sound, Collectable
    <3> QED BY <3>1, <3>2
  <2> QED BY <2>3, <2>4, <2>5
<1> HIDE DEF T1, T2, h1
<1>5. /\ r.made = h.made /\ r.freed = h.freed \cup T
      /\ r.file = [t \in Ids |-> IF t \in T THEN Nil ELSE h.file[t]]
      /\ r.orphan = h.orphan \ T /\ r.deleted = {} /\ r.removed = h.removed \ T
      /\ r.deferred = h.deferred \ T
      /\ r.list = [l \in Lists |-> IF l \in M
                THEN [EmptyList EXCEPT !.garbage = h.list[l].garbage \cap h.deferred]
                ELSE h.list[l]]
      /\ r \in [made : {r.made}, file : {r.file}, freed : {r.freed}, orphan : {r.orphan},
                deleted : {r.deleted}, removed : {r.removed}, deferred : {r.deferred},
                list : {r.list}]
  <2>1. /\ r.made = h1.made /\ r.freed = h1.freed \cup T2
        /\ r.file = [t \in Ids |-> IF t \in T2 THEN Nil ELSE h1.file[t]]
        /\ r.orphan = h1.orphan \ T2 /\ r.deleted = h1.deleted \ T2
        /\ r.removed = h1.removed \ T2 /\ r.deferred = h1.deferred \ T2
        /\ r.list = [l \in Lists |-> IF l \in M
                THEN [EmptyList EXCEPT !.garbage = h.list[l].garbage \cap h.deferred]
                ELSE h.list[l]]
        /\ r \in [made : {r.made}, file : {r.file}, freed : {r.freed}, orphan : {r.orphan},
                  deleted : {r.deleted}, removed : {r.removed}, deferred : {r.deferred},
                  list : {r.list}]
    BY ZenonT(30), <1>2, <1>3 DEF Free
  <2>2. r.file = [t \in Ids |-> IF t \in T THEN Nil ELSE h.file[t]]
    BY <1>2, <2>1
  <2> QED BY <1>2, <2>1, <2>2
<1>6. ASSUME NEW l \in M
      PROVE  /\ r.list[l] \in Listings
             /\ r.list[l].tracks = <<>> /\ r.list[l].files = [s \in Songs |-> 0]
             /\ r.list[l].garbage = h.list[l].garbage \cap h.deferred
             /\ TracksOf(r, l) = {}
  <2>1. r.list[l] = [EmptyList EXCEPT !.garbage = h.list[l].garbage \cap h.deferred]
    BY <1>5
  <2>2. h.list[l].garbage \in SUBSET Ids
    BY <1>1, ListFields
  <2>3. [s \in Songs |-> 0] \in [Songs -> 0 .. MaxTracks] /\ <<>> \in Seq(Ids)
    BY PlaylistAssumption
  <2>4. /\ r.list[l].tracks = <<>> /\ r.list[l].files = [s \in Songs |-> 0]
        /\ r.list[l].garbage = h.list[l].garbage \cap h.deferred
        /\ r.list[l] \in [tracks : {r.list[l].tracks}, files : {r.list[l].files},
                          garbage : {r.list[l].garbage}]
    BY <2>1 DEF EmptyList
  <2>5. r.list[l] \in Listings
    BY <2>2, <2>3, <2>4 DEF Listings
  <2>6. TracksOf(r, l) = {}
    BY <2>4 DEF TracksOf, Range
  <2> QED BY <2>4, <2>5, <2>6
<1>7. ASSUME NEW l \in Lists \ M PROVE r.list[l] = h.list[l] /\ r.list[l] \in Listings
  BY <1>1, <1>5, ListFields
<1>8. r.list \in [Lists -> Listings]
  BY <1>5, <1>6, <1>7
<1>9. \A l \in Lists : Places(r, l) \subseteq Places(h, l)
  BY <1>6, <1>7 DEF Places, TracksOf
<1>10. \A l \in M \cup D : r.list[l].garbage \cap T = {}
  BY <1>4, <1>6, <1>7
<1>11. \A l \in Lists : r.list[l].garbage \subseteq h.list[l].garbage
  BY <1>6, <1>7
<1>12. r.deleted = h.deleted \ T
  BY <1>5
<1>13. \A l \in Lists : \/ /\ r.list[l].tracks = h.list[l].tracks
                           /\ r.list[l].files = h.list[l].files
                        \/ /\ r.list[l].tracks = <<>>
                           /\ r.list[l].files = [s \in Songs |-> 0]
  BY <1>6, <1>7
<1> HIDE DEF T
<1>14. Frees(r, h, T, M, D)
  BY <1>5, <1>6, <1>8, <1>9, <1>10, <1>11, <1>12, <1>13 DEF Frees
<1>15. Sound(r, M, D)
  BY <1>4, <1>14, FreesSound
<1> QED BY <1>5, <1>6, <1>15 DEF Empties, Emptied

-----------------------------------------------------------------------------
(* Order of the tracks. *)

(* A stretch of a list, and the list with other elements in its place. *)
Stretch(s, i, j) == {s[k] : k \in i .. j}

Replaced(s, i, j, p) ==
  [k \in 1 .. Len(s) |-> IF k - i + 1 \in 1 .. j - i + 1 THEN p[k - i + 1] ELSE s[k]]

LEMMA Reordered ==
  ASSUME NEW T, NEW s \in Seq(T), IsInjective(s), NEW i \in 1 .. Len(s), NEW j \in 1 .. Len(s),
         i < j, NEW n, n = j - i + 1, NEW p \in [1 .. n -> Stretch(s, i, j)], IsInjective(p)
  PROVE  /\ Range(p) = Stretch(s, i, j)
         /\ Replaced(s, i, j, p) \in Seq(T)
         /\ IsInjective(Replaced(s, i, j, p))
         /\ Range(Replaced(s, i, j, p)) = Range(s)
<1> DEFINE S == Stretch(s, i, j)
           r == Replaced(s, i, j, p)
           g == [k \in i .. j |-> s[k]]
<1>1. /\ n \in Nat /\ Len(s) \in Nat /\ DOMAIN s = 1 .. Len(s) /\ i \in Nat /\ j \in Nat
      /\ \A k \in i .. j : k \in 1 .. Len(s) /\ k - i + 1 \in 1 .. n
      /\ \A k \in 1 .. n : k + i - 1 \in i .. j
  OBVIOUS
<1>2. \A k, m \in 1 .. Len(s) : s[k] = s[m] => k = m
  BY <1>1 DEF IsInjective
<1>3. \A k, m \in 1 .. n : p[k] = p[m] => k = m
  BY DEF IsInjective
<1>4. S = Range(p)
  <2>1. g \in Bijection(i .. j, S)
    <3>1. g \in [i .. j -> S]
      BY DEF Stretch
    <3>2. \A k, m \in i .. j : g[k] = g[m] => k = m
      BY <1>1, <1>2
    <3>3. \A x \in S : \E k \in i .. j : g[k] = x
      BY DEF Stretch
    <3> HIDE DEF g, S
    <3> QED BY <3>1, <3>2, <3>3, Fun_IsBij
  <2>2. IsFiniteSet(i .. j) /\ Cardinality(i .. j) = n
    BY <1>1, FS_Interval
  <2>3. IsFiniteSet(1 .. n) /\ Cardinality(1 .. n) = n
    <3>1. /\ IsFiniteSet(1 .. n)
          /\ Cardinality(1 .. n) = IF 1 > n THEN 0 ELSE n - 1 + 1
      BY <1>1, FS_Interval
    <3> QED BY <1>1, <3>1
  <2>4. ExistsBijection(i .. j, S)
    BY <2>1 DEF ExistsBijection
  <2> HIDE DEF g, S
  <2>5. IsFiniteSet(S) /\ Cardinality(S) = n
    BY <2>2, <2>4, FS_Bijection
  <2>6. p \in Injection(1 .. n, S)
    BY <1>3, Fun_IsInj DEF S
  <2>7. p \in Surjection(1 .. n, S)
    BY <2>3, <2>5, <2>6, FS_Injection
  <2>8. \A x \in S : \E k \in 1 .. n : p[k] = x
    BY <2>7 DEF Surjection
  <2>9. DOMAIN p = 1 .. n /\ \A k \in 1 .. n : p[k] \in S
    BY DEF S
  <2> QED BY <2>8, <2>9 DEF Range
<1>5. \A k \in 1 .. Len(s) : k \in i .. j <=> k - i + 1 \in 1 .. n
  BY <1>1
<1>6. /\ \A k \in 1 .. Len(s) : r[k] = IF k \in i .. j THEN p[k - i + 1] ELSE s[k]
      /\ r = [k \in 1 .. Len(s) |-> r[k]]
  BY <1>5 DEF Replaced
<1>7. \A k \in 1 .. n : \E m \in i .. j : p[k] = s[m]
  BY DEF Stretch
<1> HIDE DEF r
<1>8. r \in Seq(T) /\ Len(r) = Len(s) /\ DOMAIN r = 1 .. Len(s)
  <2>1. \A k \in 1 .. Len(s) : s[k] \in T
    BY <1>1
  <2>2. \A k \in 1 .. Len(s) : r[k] \in T
    BY <1>1, <1>6, <1>7, <2>1
  <2>3. r \in [1 .. Len(s) -> T]
    BY <1>6, <2>2
  <2> QED BY <1>1, <2>3
<1>9. ASSUME NEW k \in 1 .. Len(s), NEW m \in 1 .. Len(s), r[k] = r[m]
      PROVE  k = m
  <2>1. CASE k \in i .. j /\ m \in i .. j
    <3>1. k - i + 1 = m - i + 1
      BY <1>1, <1>3, <1>6, <1>9, <2>1
    <3> QED BY <1>1, <3>1
  <2>2. CASE k \in i .. j /\ m \notin i .. j
    <3>1. PICK o \in i .. j : p[k - i + 1] = s[o]
      BY <1>1, <1>7, <2>2
    <3>2. r[k] = s[o] /\ r[m] = s[m] /\ o \in 1 .. Len(s)
      BY <1>1, <1>6, <2>2, <3>1
    <3>3. o = m
      BY <1>2, <1>9, <3>2
    <3> QED BY <2>2, <3>3
  <2>3. CASE k \notin i .. j /\ m \in i .. j
    <3>1. PICK o \in i .. j : p[m - i + 1] = s[o]
      BY <1>1, <1>7, <2>3
    <3>2. r[m] = s[o] /\ r[k] = s[k] /\ o \in 1 .. Len(s)
      BY <1>1, <1>6, <2>3, <3>1
    <3>3. o = k
      BY <1>2, <1>9, <3>2
    <3> QED BY <2>3, <3>3
  <2>4. CASE k \notin i .. j /\ m \notin i .. j
    BY <1>2, <1>6, <1>9, <2>4
  <2> QED BY <2>1, <2>2, <2>3, <2>4
<1>10. Range(r) = Range(s)
  <2>1. ASSUME NEW k \in 1 .. Len(s) PROVE \E m \in 1 .. Len(s) : r[k] = s[m]
    BY <1>1, <1>6, <1>7
  <2>2. ASSUME NEW m \in 1 .. Len(s) PROVE \E k \in 1 .. Len(s) : r[k] = s[m]
    <3>1. CASE m \notin i .. j
      BY <1>6, <3>1
    <3>2. CASE m \in i .. j
      <4>1. PICK o \in 1 .. n : p[o] = s[m]
        BY <1>4, <3>2 DEF Range, Stretch
      <4>2. o + i - 1 \in i .. j /\ (o + i - 1) - i + 1 = o /\ o + i - 1 \in 1 .. Len(s)
        BY <1>1
      <4> QED BY <1>6, <4>1, <4>2
    <3> QED BY <3>1, <3>2
  <2>3. Range(s) = {s[k] : k \in 1 .. Len(s)}
    BY <1>1 DEF Range
  <2>4. Range(r) = {r[k] : k \in 1 .. Len(s)}
    BY <1>8 DEF Range
  <2>5. \A x \in Range(r) : x \in Range(s)
    BY <2>1, <2>3, <2>4
  <2>6. \A x \in Range(s) : x \in Range(r)
    BY <2>2, <2>3, <2>4
  <2> QED BY ONLY <2>5, <2>6
<1>11. IsInjective(r)
  BY <1>8, <1>9 DEF IsInjective
<1> QED BY <1>4, <1>8, <1>10, <1>11 DEF r

(* reorder() of the tracks i .. j of a playlist. *)
LEMMA ReorderSound ==
  ASSUME NEW M \in SUBSET Lists, NEW D \in SUBSET Lists, NEW h, Sound(h, M, D),
         h.deleted = {}, NEW l \in M,
         NEW i \in DOMAIN h.list[l].tracks, NEW j \in DOMAIN h.list[l].tracks, i < j,
         NEW table \in [1 .. j - i + 1 -> {h.file[h.list[l].tracks[k]] : k \in i .. j}],
         IsInjective(table), NEW r, r = Reorder(h, l, table)
  PROVE  Sound(r, M, D) /\ Completes(r, h)
<1> DEFINE L == h.list[l]
           s == L.tracks
           n == j - i + 1
           p == [k \in 1 .. n |-> L.files[table[k]]]
           t == [k \in 1 .. Len(s) |-> IF k - i + 1 \in 1 .. n THEN p[k - i + 1] ELSE s[k]]
           Index == {k \in 1 .. Len(s) : s[k] \in Range(p)}
<1>1. h \in Heaps /\ h.made \in Nat /\ L \in Listings /\ s \in Seq(Ids) /\ InUse(h, l)
  BY HeapFields, ListFields, PlaylistAssumption DEF Sound
<1>2. /\ Len(s) \in Nat /\ DOMAIN s = 1 .. Len(s) /\ IsInjective(s)
      /\ i \in 1 .. Len(s) /\ j \in 1 .. Len(s) /\ n \in Nat
      /\ \A k \in i .. j : k \in 1 .. Len(s)
  BY <1>1 DEF InUse
<1>3. \A k \in 1 .. Len(s) : /\ s[k] \in TracksOf(h, l)
                             /\ h.file[s[k]] \in Songs /\ L.files[h.file[s[k]]] = s[k]
                             /\ SongOf(h, s[k]) # Nil
  <2> TAKE k \in 1 .. Len(s)
  <2>1. s[k] \in TracksOf(h, l)
    BY <1>2 DEF TracksOf, Range
  <2>2. h.file[s[k]] \in Songs /\ L.files[h.file[s[k]]] = s[k] /\ s[k] \notin h.orphan
    BY <1>1, <2>1 DEF InUse
  <2> QED BY <2>1, <2>2, PlaylistAssumption DEF SongOf
<1>4. DOMAIN table = 1 .. n /\ Len(table) = n
  <2>1. {h.file[s[k]] : k \in i .. j} \subseteq Songs
    BY <1>2, <1>3
  <2>2. table \in [1 .. n -> Songs]
    BY <2>1
  <2> QED BY <1>2, <2>2
<1>5. ASSUME NEW k \in 1 .. n
      PROVE  \E m \in i .. j : table[k] = h.file[s[m]] /\ p[k] = s[m]
  <2>1. table[k] \in {h.file[s[m]] : m \in i .. j}
    OBVIOUS
  <2>2. PICK m \in i .. j : table[k] = h.file[s[m]]
    BY <2>1
  <2>3. L.files[h.file[s[m]]] = s[m]
    BY <1>2, <1>3
  <2> QED BY <2>2, <2>3
<1>6. p \in [1 .. n -> {s[k] : k \in i .. j}] /\ IsInjective(p)
  <2>1. p \in [1 .. n -> {s[k] : k \in i .. j}]
    BY <1>5
  <2>2. \A k \in 1 .. n : h.file[p[k]] = table[k]
    BY <1>5
  <2>3. \A k, m \in 1 .. n : p[k] = p[m] => k = m
    BY <1>4, <2>2 DEF IsInjective
  <2>4. DOMAIN p = 1 .. n
    OBVIOUS
  <2> HIDE DEF p
  <2> QED BY <2>1, <2>3, <2>4 DEF IsInjective
<1>7. DOMAIN p = 1 .. n /\ Len(p) = n
  BY <1>2
<1>8. r = IF Min(Index) + n - 1 > Len(s) THEN Reindex(h, {l})
          ELSE [Reindex(h, {l}) EXCEPT !.list[l].tracks =
                  [k \in DOMAIN s |->
                     IF k - Min(Index) + 1 \in 1 .. n /\ SongOf(h, p[k - Min(Index) + 1]) # Nil
                     THEN p[k - Min(Index) + 1] ELSE s[k]]]
  BY <1>4, <1>7 DEF Reorder
<1> HIDE DEF p
<1> DEFINE u == [k \in DOMAIN s |->
                     IF k - i + 1 \in 1 .. n /\ SongOf(h, p[k - i + 1]) # Nil
                     THEN p[k - i + 1] ELSE s[k]]
<1>9. Range(p) = {s[k] : k \in i .. j} /\ t \in Seq(Ids) /\ IsInjective(t) /\ Range(t) = Range(s)
  <2>1. t = Replaced(s, i, j, p)
    BY DEF Replaced
  <2>2. p \in [1 .. n -> Stretch(s, i, j)]
    BY <1>6 DEF Stretch
  <2>3. i \in 1 .. Len(s) /\ j \in 1 .. Len(s) /\ s \in Seq(Ids) /\ IsInjective(s) /\ n = j - i + 1
    BY <1>1, <1>2
  <2> HIDE DEF s, t, n
  <2>4. Range(p) = Stretch(s, i, j) /\ t \in Seq(Ids) /\ IsInjective(t) /\ Range(t) = Range(s)
    BY <1>6, <2>1, <2>2, <2>3, Reordered
  <2> QED BY <2>4 DEF Stretch
<1>10. Min(Index) = i
  <2>1. Index = i .. j
    <3>1. \A k, m \in 1 .. Len(s) : s[k] = s[m] => k = m
      BY <1>2 DEF IsInjective
    <3> HIDE DEF s
    <3> QED BY <1>2, <1>9, <3>1
  <2> HIDE DEF Index
  <2>2. i \in Index /\ \A k \in Index : i <= k
    BY <1>2, <2>1
  <2>3. Index \subseteq Int
    BY <1>2, <2>1
  <2> QED BY <2>2, <2>3 DEF Min
<1>11. u = t
  <2>1. \A k \in 1 .. n : SongOf(h, p[k]) # Nil
    BY ZenonT(30), <1>2, <1>3, <1>5
  <2> QED BY <1>2, <2>1
<1>12. ~(i + n - 1 > Len(s))
  BY <1>2
<1>13. r = [Reindex(h, {l}) EXCEPT !.list[l].tracks = t]
  <2> HIDE DEF t, u, s, n, Index
  <2>1. r = [Reindex(h, {l}) EXCEPT !.list[l].tracks =
                  [k \in DOMAIN s |->
                     IF k - i + 1 \in 1 .. n /\ SongOf(h, p[k - i + 1]) # Nil
                     THEN p[k - i + 1] ELSE s[k]]]
    BY <1>8, <1>10, <1>12
  <2> QED BY <2>1, <1>11 DEF u
<1> HIDE DEF t, u, Index
<1>14. /\ r.made = h.made /\ r.file = h.file /\ r.freed = h.freed /\ r.orphan = h.orphan
       /\ r.deleted = {} /\ r.removed = h.removed /\ r.deferred = h.deferred
       /\ r.list = [h.list EXCEPT ![l].tracks = t]
       /\ r \in [made : {r.made}, file : {r.file}, freed : {r.freed}, orphan : {r.orphan},
                 deleted : {r.deleted}, removed : {r.removed}, deferred : {r.deferred},
                 list : {r.list}]
  BY <1>1, <1>13 DEF Reindex, Heaps
<1>15. /\ r.list[l] \in Listings /\ r.list[l].tracks = t
       /\ r.list[l].files = L.files /\ r.list[l].garbage = L.garbage
       /\ \A m \in Lists : m # l => r.list[m] = h.list[m]
       /\ r.list \in [Lists -> Listings]
  <2>1. h.list \in [Lists -> Listings]
    BY <1>1, HeapFields
  <2>2. r.list[l] = [L EXCEPT !.tracks = t]
    BY <1>14, <2>1
  <2>3. r.list[l] \in Listings /\ r.list[l].tracks = t
        /\ r.list[l].files = L.files /\ r.list[l].garbage = L.garbage
    <3> HIDE DEF L
    <3> QED BY <1>1, <1>9, <2>2 DEF Listings
  <2>4. \A m \in Lists : m # l => r.list[m] = h.list[m]
    BY <1>14, <2>1
  <2> QED BY <1>14, <2>1, <2>3, <2>4
<1>16. \A m \in Lists : TracksOf(r, m) = TracksOf(h, m) /\ Places(r, m) = Places(h, m)
  <2>1. TracksOf(r, l) = TracksOf(h, l)
    BY <1>9, <1>15 DEF TracksOf
  <2> QED BY <1>15, <2>1 DEF TracksOf, Places
<1>17. r \in Heaps
  BY <1>1, <1>14, <1>15, HeapFields DEF Heaps
<1>18. MadeBefore(r)
  <2>1. \A m \in Lists : r.list[m].files = h.list[m].files
    BY <1>15
  <2> QED BY <1>14, <1>16, <2>1 DEF Sound, MadeBefore
<1>19. ASSUME NEW m \in M PROVE InUse(r, m)
  <2>1. InUse(h, m)
    BY DEF Sound
  <2>2. r.list[m].files = h.list[m].files /\ r.list[m].garbage = h.list[m].garbage
        /\ IsInjective(r.list[m].tracks)
    BY <1>9, <1>15, <2>1 DEF InUse
  <2>3. TracksOf(r, m) = TracksOf(h, m)
    BY <1>16
  <2>4. TracksOf(h, m) \cap r.orphan \subseteq r.deleted
    BY <1>14, <2>1 DEF InUse
  <2>5. TracksOf(h, m) \cap (r.list[m].garbage \cup r.freed \cup r.removed) = {}
    BY <1>14, <2>1, <2>2 DEF InUse
  <2> QED BY <1>14, <2>1, <2>2, <2>3, <2>4, <2>5, UseCarries
<1>20. \A m \in M \cup D : Collectable(r, m)
  <2> TAKE m \in M \cup D
  <2>1. r.list[m].garbage = h.list[m].garbage
    BY <1>15
  <2> QED BY <1>14, <2>1 DEF Sound, Collectable
<1>21. Apart(r, M \cup D)
  BY <1>16 DEF Sound, Apart
<1>22. Sound(r, M, D)
  BY <1>17, <1>18, <1>19, <1>20, <1>21 DEF Sound
<1>23. r.made >= h.made
  BY ONLY <1>1, <1>14
<1> QED BY <1>14, <1>22, <1>23 DEF Completes

(* A new playlist is empty. *)
LEMMA NewListSound ==
  ASSUME NEW M \in SUBSET Lists, NEW D \in SUBSET Lists, NEW h, Sound(h, M, D),
         h.deleted = {}, NEW l \in Lists \ (M \cup D),
         NEW r, r = [h EXCEPT !.list[l] = EmptyList]
  PROVE  Sound(r, M \cup {l}, D) /\ Completes(r, h)
<1>1. h \in Heaps /\ h.made \in Nat /\ h.list \in [Lists -> Listings]
  BY HeapFields, PlaylistAssumption DEF Sound
<1>2. /\ r.made = h.made /\ r.file = h.file /\ r.freed = h.freed /\ r.orphan = h.orphan
      /\ r.deleted = h.deleted /\ r.removed = h.removed /\ r.deferred = h.deferred
      /\ r.list = [h.list EXCEPT ![l] = EmptyList]
      /\ r \in [made : {r.made}, file : {r.file}, freed : {r.freed}, orphan : {r.orphan},
                deleted : {r.deleted}, removed : {r.removed}, deferred : {r.deferred},
                list : {r.list}]
  BY <1>1 DEF Heaps
<1>3. EmptyList \in Listings
  BY PlaylistAssumption DEF EmptyList, Listings
<1>4. /\ r.list[l].tracks = <<>> /\ r.list[l].files = [s \in Songs |-> 0]
      /\ r.list[l].garbage = {}
      /\ \A m \in Lists : m # l => r.list[m] = h.list[m]
      /\ r.list \in [Lists -> Listings]
  BY <1>1, <1>2, <1>3 DEF EmptyList
<1>5. /\ TracksOf(r, l) = {} /\ Places(r, l) = {}
      /\ \A m \in Lists : m # l => TracksOf(r, m) = TracksOf(h, m) /\ Places(r, m) = Places(h, m)
  <2>1. TracksOf(r, l) = {}
    BY <1>4 DEF TracksOf, Range
  <2> QED BY <1>4, <2>1 DEF TracksOf, Places
<1>6. r \in Heaps
  BY <1>1, <1>2, <1>4, HeapFields DEF Heaps
<1>7. MadeBefore(r)
  <2>1. [s \in Songs |-> 0] \in [Songs -> 0 .. h.made]
    BY <1>1
  <2>2. \A m \in Lists : Places(r, m) \subseteq 1 .. r.made /\ r.list[m].files \in [Songs -> 0 .. r.made]
    BY <1>2, <1>4, <1>5, <2>1 DEF Sound, MadeBefore
  <2> QED BY <1>2, <2>2 DEF Sound, MadeBefore
<1>8. ASSUME NEW m \in M \cup {l} PROVE InUse(r, m)
  <2>1. CASE m = l
    <3>1. IsInjective(r.list[l].tracks)
      BY <1>4 DEF IsInjective
    <3> QED BY <1>4, <1>5, <2>1, <3>1 DEF InUse
  <2>2. CASE m # l
    <3>1. InUse(h, m) /\ r.list[m] = h.list[m] /\ TracksOf(r, m) = TracksOf(h, m)
      BY <1>4, <1>5, <2>2 DEF Sound
    <3> QED BY <1>2, <3>1 DEF InUse
  <2> QED BY <2>1, <2>2
<1>9. ASSUME NEW m \in (M \cup {l}) \cup D PROVE Collectable(r, m)
  <2>1. CASE m = l
    BY <1>4, <2>1 DEF Collectable
  <2>2. CASE m # l
    <3>1. Collectable(h, m) /\ r.list[m] = h.list[m]
      BY <1>4, <2>2 DEF Sound
    <3> QED BY <1>2, <3>1 DEF Collectable
  <2> QED BY <2>1, <2>2
<1>10. Apart(r, (M \cup {l}) \cup D)
  <2>1. \A m, o \in M \cup D : m # o => Places(h, m) \cap Places(h, o) = {}
    BY DEF Sound, Apart
  <2>2. \A m \in M \cup D : Places(r, m) = Places(h, m)
    BY <1>5
  <2>3. \A m, o \in (M \cup {l}) \cup D : m # o => Places(r, m) \cap Places(r, o) = {}
    BY <1>5, <2>1, <2>2
  <2> QED BY <2>3 DEF Apart
<1>11. Sound(r, M \cup {l}, D)
  BY <1>6, <1>7, <1>8, <1>9, <1>10 DEF Sound
<1>12. r.made >= h.made
  BY ONLY <1>1, <1>2
<1> QED BY <1>2, <1>11, <1>12 DEF Completes

(* remove(): the tracks of a playlist that is dropped are its garbage. *)
LEMMA DropSound ==
  ASSUME NEW M \in SUBSET Lists, NEW D \in SUBSET Lists, NEW h, Sound(h, M, D),
         h.deleted = {}, NEW l \in M, l \notin D, NEW r, r = Drop(h, l)
  PROVE  Sound(r, M \ {l}, D \cup {l}) /\ Completes(r, h)
<1>1. h \in Heaps /\ h.made \in Nat /\ h.list \in [Lists -> Listings]
  BY HeapFields, PlaylistAssumption DEF Sound
<1>2. /\ r.made = h.made /\ r.file = h.file /\ r.freed = h.freed /\ r.orphan = h.orphan
      /\ r.deleted = h.deleted /\ r.removed = h.removed \cup TracksOf(h, l)
      /\ r.deferred = h.deferred
      /\ r.list = [h.list EXCEPT ![l].garbage = @ \cup TracksOf(h, l)]
      /\ r \in [made : {r.made}, file : {r.file}, freed : {r.freed}, orphan : {r.orphan},
                deleted : {r.deleted}, removed : {r.removed}, deferred : {r.deferred},
                list : {r.list}]
  BY <1>1 DEF Drop, Heaps
<1>3. /\ r.list[l] \in Listings /\ r.list[l].tracks = h.list[l].tracks
      /\ r.list[l].files = h.list[l].files
      /\ r.list[l].garbage = h.list[l].garbage \cup TracksOf(h, l)
  <2>1. r.list[l] = [h.list[l] EXCEPT !.garbage = @ \cup TracksOf(h, l)]
    BY <1>1, <1>2
  <2>2. h.list[l] \in Listings /\ TracksOf(h, l) \in SUBSET Ids
    BY <1>1, ListFields
  <2> QED BY <2>1, <2>2 DEF Listings
<1>4. \A m \in Lists : m # l => r.list[m] = h.list[m]
  BY <1>1, <1>2
<1>5. \A m \in Lists : TracksOf(r, m) = TracksOf(h, m) /\ Places(r, m) = Places(h, m)
  BY <1>3, <1>4 DEF TracksOf, Places
<1>6. TracksOf(h, l) \subseteq 1 .. h.made
  BY TracksMade
<1>7. r \in Heaps
  <2>1. r.list \in [Lists -> Listings]
    BY <1>1, <1>2, <1>3, <1>4
  <2>2. r.removed \in SUBSET Ids
    BY <1>1, <1>2, HeapFields, ListFields
  <2> QED BY <1>1, <1>2, <2>1, <2>2, HeapFields DEF Heaps
<1>8. MadeBefore(r)
  <2>1. \A m \in Lists : r.list[m].files = h.list[m].files
    BY <1>3, <1>4
  <2> QED BY <1>2, <1>5, <1>6, <2>1 DEF Sound, MadeBefore
<1>9. ASSUME NEW m \in M \ {l} PROVE InUse(r, m)
  <2>1. InUse(h, m) /\ r.list[m] = h.list[m] /\ TracksOf(r, m) = TracksOf(h, m)
    BY <1>4, <1>5 DEF Sound
  <2>2. TracksOf(h, m) \cap TracksOf(h, l) = {}
    BY DEF Sound, Apart, Places
  <2>3. TracksOf(r, m) \cap (r.list[m].garbage \cup r.freed \cup r.removed) = {}
    BY <1>2, <2>1, <2>2 DEF InUse
  <2>4. TracksOf(h, m) \cap r.orphan \subseteq r.deleted /\ IsInjective(r.list[m].tracks)
    BY <1>2, <2>1 DEF InUse
  <2> QED BY <1>2, <2>1, <2>3, <2>4, UseCarries
<1>10. ASSUME NEW m \in (M \ {l}) \cup (D \cup {l}) PROVE Collectable(r, m)
  <2>1. Collectable(h, m) /\ m \in Lists
    BY DEF Sound
  <2>2. CASE m = l
    <3>1. TracksOf(h, l) \cap h.freed = {}
      BY DEF Sound, InUse
    <3> QED BY <1>2, <1>3, <2>1, <2>2, <3>1 DEF Collectable
  <2>3. CASE m # l
    BY <1>2, <1>4, <2>1, <2>3 DEF Collectable
  <2> QED BY <2>2, <2>3
<1>11. Apart(r, (M \ {l}) \cup (D \cup {l}))
  BY <1>5 DEF Sound, Apart
<1>12. Sound(r, M \ {l}, D \cup {l})
  BY <1>7, <1>8, <1>9, <1>10, <1>11 DEF Sound
<1>13. r.made >= h.made
  BY ONLY <1>1, <1>2
<1> QED BY <1>2, <1>12, <1>13 DEF Completes

-----------------------------------------------------------------------------
(* What the actions make of the heap. *)

LEMMA ReindexSound ==
  ASSUME NEW M \in SUBSET Lists, NEW D \in SUBSET Lists, NEW h, Sound(h, M, D),
         h.deleted = {}, NEW lists, NEW r, r = Reindex(h, lists)
  PROVE  Sound(r, M, D) /\ Defers(r, h)
<1>1. h \in Heaps /\ h.deferred \subseteq 1 .. h.made
  BY DEF Sound, MadeBefore
<1>2. PICK X : r = [h EXCEPT !.deleted = @ \ X]
  BY DEF Reindex
<1>3. Defers(r, h)
  BY <1>1, <1>2 DEF Defers, Heaps
<1> QED BY <1>3, DefersSound

LEMMA NotOnAlbum ==
  ASSUME NEW M, NEW D, NEW h, Sound(h, M, D), h.deleted = {}, NEW l \in M, NEW s \in Songs,
         OnAlbum(h, l, AlbumOf[s]) = {}
  PROVE  h.list[l].files[s] = 0
<1> SUFFICES ASSUME h.list[l].files[s] # 0 PROVE FALSE
  OBVIOUS
<1> DEFINE t == h.list[l].files[s]
<1>1. t \in TracksOf(h, l) /\ h.file[t] = s /\ t \notin h.orphan
  BY DEF Sound, InUse
<1>2. SongOf(h, t) = s /\ s # Nil
  BY <1>1, PlaylistAssumption DEF SongOf
<1> QED BY <1>1, <1>2 DEF OnAlbum

LEMMA SoundFewer ==
  ASSUME NEW M, NEW D, NEW h, Sound(h, M, D), NEW E \in SUBSET D
  PROVE  Sound(h, M, E)
BY DEF Sound, Apart

(* The songs of the library, in the order of their albums. *)
LEMMA LibrarySongsChosen ==
  ASSUME NEW A, NEW songs, songs = LibrarySongs(A)
  PROVE  /\ songs \in Seq(Songs) /\ IsInjective(songs) /\ Len(songs) \in Nat
         /\ \A s \in Range(songs) : s \in Songs /\ s \in library /\ AlbumOf[s] \in A
<1> DEFINE S == {s \in library : AlbumOf[s] \in A}
<1>1. SongList \in Seq(Songs) /\ IsInjective(SongList)
  BY PlaylistAssumption
<1>2. songs = Only(SongList, S)
  BY DEF LibrarySongs
<1>3. \A x \in S : x \in library /\ AlbumOf[x] \in A
  OBVIOUS
<1> HIDE DEF S
<1>4. songs \in Seq(Songs \cap S) /\ Range(songs) = Range(SongList) \cap S /\ IsInjective(songs)
  BY <1>1, <1>2, OnlySelects
<1>5. songs \in Seq(Songs)
  BY <1>4, SeqMonotonic
<1>6. Range(SongList) = Songs
  BY DEF Songs
<1> QED BY <1>3, <1>4, <1>5, <1>6

LEMMA SavedSongs ==
  ASSUME ListsInv, NEW old, NEW l \in mapped, NEW songs, songs = Saved(l, old)
  PROVE  songs \in Seq(Songs) /\ IsInjective(songs)
<1>1. SongList \in Seq(Songs) /\ IsInjective(SongList)
  BY PlaylistAssumption
<1>2. CASE q.list[l].tracks = <<>>
  <2>1. songs = Only(SongList, old[l])
    BY <1>2 DEF Saved
  <2>2. songs \in Seq(Songs \cap old[l]) /\ IsInjective(songs)
    BY <1>1, <2>1, OnlySelects
  <2> QED BY <2>2, SeqMonotonic
<1>3. CASE q.list[l].tracks # <<>>
  <2> DEFINE tr == q.list[l].tracks
             s == [i \in DOMAIN tr |-> SongOf(q, tr[i])]
  <2>1. songs = Only(s, Songs)
    BY <1>3 DEF Saved
  <2>2. InUse(q, l) /\ tr \in Seq(Ids) /\ IsInjective(tr) /\ q.deleted = {}
    BY ListFields DEF ListsInv, Sound, InUse
  <2>3. DOMAIN tr = 1 .. Len(tr) /\ Len(tr) \in Nat
    BY <2>2
  <2>4. \A i \in 1 .. Len(tr) : /\ s[i] = q.file[tr[i]] /\ s[i] \in Songs
                                /\ q.list[l].files[s[i]] = tr[i]
    <3> TAKE i \in 1 .. Len(tr)
    <3>1. tr[i] \in TracksOf(q, l)
      BY <2>3 DEF TracksOf, Range
    <3>2. tr[i] \notin q.orphan /\ q.file[tr[i]] \in Songs /\ q.list[l].files[q.file[tr[i]]] = tr[i]
      BY <2>2, <3>1 DEF InUse
    <3> QED BY <2>3, <3>2 DEF SongOf
  <2>5. s \in Seq(Songs)
    <3>1. s \in [1 .. Len(tr) -> Songs]
      BY <2>3, <2>4
    <3> QED BY <2>3, <3>1
  <2>6. IsInjective(s)
    <3>1. DOMAIN s = 1 .. Len(tr)
      BY <2>3
    <3>2. ASSUME NEW i \in 1 .. Len(tr), NEW j \in 1 .. Len(tr), s[i] = s[j] PROVE i = j
      <4>1. tr[i] = tr[j]
        BY ZenonT(30), <2>4, <3>2
      <4> QED BY <2>2, <2>3, <4>1 DEF IsInjective
    <3> HIDE DEF s
    <3> QED BY <3>1, <3>2 DEF IsInjective
  <2> HIDE DEF s
  <2>7. songs \in Seq(Songs \cap Songs) /\ IsInjective(songs)
    BY <2>1, <2>5, <2>6, OnlySelects
  <2> QED BY <2>7
<1> QED BY <1>2, <1>3

LEMMA CompletesTwice ==
  ASSUME NEW h, NEW r1, NEW r, Completes(r1, h), Completes(r, r1),
         h.made \in Nat, r1.made \in Nat, r.made \in Nat
  PROVE  Completes(r, h)
<1>1. r.made >= h.made
  BY DEF Completes
<1> QED BY <1>1 DEF Completes

LEMMA SoundMade ==
  ASSUME NEW M, NEW D, NEW h, Sound(h, M, D)
  PROVE  h.made \in Nat
BY HeapFields, PlaylistAssumption DEF Sound

(* addAlbum() with the deletion before it. *)
LEMMA AddedAlbum ==
  ASSUME ListsInv, NEW l \in mapped, NEW a, NEW action, Room(Len(AlbumSongs(a))),
         NEW r, r = AddAlbum(DeleteAlbum(q, l, a), l, AlbumSongs(a), action, TRUE)
  PROVE  Sound(r, mapped, dropped) /\ Completes(r, q)
<1> DEFINE h == DeleteAlbum(q, l, a)
           songs == AlbumSongs(a)
<1>1. /\ mapped \in SUBSET Lists /\ dropped \in SUBSET Lists /\ mapped \cap dropped = {}
      /\ Sound(q, mapped, dropped) /\ q.deleted = {}
  BY DEF ListsInv
<1>2. songs = LibrarySongs({a}) /\ h = DeleteAlbum(q, l, a) /\ r = AddAlbum(h, l, songs, action, TRUE)
      /\ q.made + Len(songs) <= MaxTracks
  BY DEF AlbumSongs, Room
<1> HIDE DEF h, songs
<1>3. /\ songs \in Seq(Songs) /\ IsInjective(songs)
      /\ \A s \in Range(songs) : s \in Songs /\ AlbumOf[s] \in {a}
  BY <1>2, LibrarySongsChosen
<1>4. Sound(h, mapped, dropped) /\ Completes(h, q) /\ h.made = q.made /\ NoneOf(h, l, a)
  <2>1. h = DeleteAlbum(q, l, a)
    BY <1>2
  <2> QED BY ONLY <1>1, <2>1, l \in mapped, DeleteAlbumSound
<1>5. \A s \in Range(songs) : h.list[l].files[s] = 0
  BY <1>3, <1>4 DEF NoneOf
<1>6. h.deleted = {} /\ h.made + Len(songs) <= MaxTracks
  BY <1>2, <1>4 DEF Completes
<1>7. Sound(r, mapped, dropped) /\ Completes(r, h)
  BY <1>1, <1>2, <1>3, <1>4, <1>5, <1>6, AddAlbumSound
<1>8. q.made \in Nat /\ h.made \in Nat /\ r.made \in Nat
  BY <1>1, <1>4, <1>7, SoundMade
<1> QED BY <1>4, <1>7, <1>8, CompletesTwice

(* addArtist(), when no album of the artist is in the playlist. *)
LEMMA AddedArtist ==
  ASSUME ListsInv, NEW l \in mapped, NEW A, NEW songs, songs = LibrarySongs(A),
         NEW action, NEW albums, albums = {AlbumOf[s] : s \in Range(songs)},
         Room(Len(songs)), \A a \in albums : OnAlbum(q, l, a) = {},
         NEW r, r = Reindex(DeleteRemovedTracks(
                      AddAlbum(RemoveAlbums(q, l, albums), l, songs, action, FALSE), {l}, FALSE), {l})
  PROVE  Sound(r, mapped, dropped) /\ Completes(r, q)
<1> DEFINE h == RemoveAlbums(q, l, albums)
           h1 == AddAlbum(h, l, songs, action, FALSE)
           h2 == DeleteRemovedTracks(h1, {l}, FALSE)
<1>1. /\ mapped \in SUBSET Lists /\ dropped \in SUBSET Lists /\ mapped \cap dropped = {}
      /\ Sound(q, mapped, dropped) /\ q.deleted = {} /\ q.made \in Nat
  BY SoundMade DEF ListsInv
<1>2. /\ songs \in Seq(Songs) /\ IsInjective(songs)
      /\ \A s \in Range(songs) : s \in Songs /\ AlbumOf[s] \in albums
  BY LibrarySongsChosen
<1>3. h = [q EXCEPT !.deleted = @ \cup {}]
  <2>1. UNION {OnAlbum(q, l, a) : a \in albums} = {}
    OBVIOUS
  <2> QED BY <2>1 DEF RemoveAlbums
<1>4. h1 = AddAlbum(h, l, songs, action, FALSE) /\ h2 = DeleteRemovedTracks(h1, {l}, FALSE)
      /\ r = Reindex(h2, {l})
  OBVIOUS
<1> HIDE DEF h, h1, h2
<1>5. Sound(h, mapped, dropped) /\ Marks(h, q, {})
  BY <1>1, <1>3, MarkSound
<1>6. h.deleted = {} /\ h.made = q.made /\ h.freed = q.freed /\ h.list = q.list
  BY <1>1, <1>5 DEF Marks
<1>7. \A s \in Range(songs) : h.list[l].files[s] = 0
  <2>1. \A s \in Range(songs) : q.list[l].files[s] = 0
    BY <1>1, <1>2, NotOnAlbum
  <2> QED BY <1>6, <2>1
<1>8. Sound(h1, mapped, dropped) /\ Completes(h1, h)
  <2>1. h.made + Len(songs) <= MaxTracks
    BY <1>6 DEF Room
  <2> QED BY <1>1, <1>2, <1>4, <1>5, <1>6, <1>7, <2>1, AddAlbumSound
<1>9. Sound(h2, mapped, dropped) /\ Purges(h2, h1, mapped)
  <2>1. h1.deleted = {}
    BY <1>8 DEF Completes
  <2>2. \A t \in h1.deleted : \E m \in {l} : t \in TracksOf(h1, m)
    BY <2>1
  <2>3. {l} \in SUBSET mapped
    OBVIOUS
  <2> QED BY <1>1, <1>4, <1>8, <2>2, <2>3, DeleteRemovedTracksSound
<1>10. Sound(r, mapped, dropped) /\ Defers(r, h2)
  <2>1. h2.deleted = {}
    BY <1>9 DEF Purges
  <2> QED BY <1>1, <1>4, <1>9, <2>1, ReindexSound
<1>11. /\ r.deleted = {} /\ r.freed = q.freed
       /\ r.made = h1.made
  BY <1>6, <1>8, <1>9, <1>10 DEF Completes, Purges, Defers
<1>12. r.made >= q.made
  BY <1>6, <1>8, <1>11 DEF Completes
<1> QED BY <1>10, <1>11, <1>12 DEF Completes

-----------------------------------------------------------------------------
(* The actions preserve the invariant. *)

LEMMA InvLists ==
  ASSUME ListsInv
  PROVE  /\ mapped \in SUBSET Lists /\ dropped \in SUBSET Lists /\ mapped \cap dropped = {}
         /\ Recent \in mapped /\ library \subseteq Songs
         /\ Sound(q, mapped, dropped) /\ q.deleted = {} /\ q.made \in Nat
BY SoundMade DEF ListsInv

LEMMA HoldersKept ==
  ASSUME PlaylistsInv, q'.made \in Nat, Completes(q', q), UNCHANGED <<decoderVars, rebuild>>,
         current' \in [song : Songs \cup {Nil}, list : Lists \cup {Nil}]
  PROVE  HoldersInv'
<1>1. HoldersInv /\ q.made \in Nat
  BY InvLists DEF PlaylistsInv
<1>2. q'.made >= q.made /\ q'.freed = q.freed
  BY DEF Completes
<1>3. buffer' = buffer /\ decoder' = decoder /\ cleared' = cleared /\ rebuild' = rebuild
  BY DEF decoderVars
<1>4. Held' = Held
  BY <1>3 DEF Held
<1>5. buffer' \in [Buffers -> 0 .. q'.made] /\ decoder' \in 0 .. q'.made
  <2>1. 0 .. q.made \subseteq 0 .. q'.made
    BY <1>1, <1>2
  <2> QED BY <1>1, <1>3, <2>1 DEF HoldersInv
<1> QED BY <1>1, <1>2, <1>3, <1>4, <1>5 DEF HoldersInv

(* A web thread changes the playlists in use. *)
LEMMA ChangeKeeps ==
  ASSUME PlaylistsInv, NEW r, Sound(r, mapped, dropped), Completes(r, q), Change(r),
         current' = current
  PROVE  PlaylistsInv'
<1>1. ListsInv /\ HoldersInv
  BY DEF PlaylistsInv
<1>2. q' = r /\ mapped' = mapped /\ dropped' = dropped /\ library' = library
      /\ UNCHANGED <<decoderVars, rebuild>>
  BY DEF Change
<1>3. Sound(q', mapped', dropped') /\ q'.deleted = {} /\ Completes(q', q)
  BY <1>2 DEF Completes
<1>4. ListsInv'
  BY <1>1, <1>2, <1>3 DEF ListsInv
<1>5. q'.made \in Nat
  BY <1>3, SoundMade
<1>6. current' \in [song : Songs \cup {Nil}, list : Lists \cup {Nil}]
  BY <1>1 DEF HoldersInv
<1>7. HoldersInv'
  BY <1>2, <1>3, <1>5, <1>6, HoldersKept
<1> QED BY <1>4, <1>7 DEF PlaylistsInv

LEMMA AddAlbumToKeeps ==
  ASSUME PlaylistsInv, NEW l, NEW a, NEW action, AddAlbumTo(l, a, action)
  PROVE  PlaylistsInv'
<1> DEFINE r == AddAlbum(DeleteAlbum(q, l, a), l, AlbumSongs(a), action, TRUE)
<1>1. ListsInv /\ l \in mapped /\ Room(Len(AlbumSongs(a))) /\ Change(r) /\ current' = current
  BY DEF PlaylistsInv, AddAlbumTo
<1>2. Sound(r, mapped, dropped) /\ Completes(r, q)
  BY <1>1, AddedAlbum
<1> HIDE DEF r
<1> QED BY <1>1, <1>2, ChangeKeeps

LEMMA AddSongToKeeps ==
  ASSUME PlaylistsInv, NEW l, NEW s \in Songs, NEW action, AddSongTo(l, s, action)
  PROVE  PlaylistsInv'
<1> DEFINE r == AddAlbum(q, l, <<s>>, action, action = "insert")
           songs == <<s>>
<1>1. l \in mapped /\ Room(1) /\ Change(r) /\ current' = current /\ q.list[l].files[s] = 0
  BY DEF AddSongTo
<1>2. /\ mapped \in SUBSET Lists /\ dropped \in SUBSET Lists /\ mapped \cap dropped = {}
      /\ Sound(q, mapped, dropped) /\ q.deleted = {}
  BY InvLists DEF PlaylistsInv
<1>3. songs \in Seq(Songs) /\ Len(songs) = 1 /\ DOMAIN songs = 1 .. 1 /\ songs[1] = s
  OBVIOUS
<1>4. r = AddAlbum(q, l, songs, action, TRUE) \/ r = AddAlbum(q, l, songs, action, FALSE)
  BY DEF AddAlbum
<1> HIDE DEF r, songs
<1>5. IsInjective(songs) /\ Range(songs) = {s}
  BY <1>3 DEF IsInjective, Range
<1>6. q.made + Len(songs) <= MaxTracks /\ \A x \in Range(songs) : q.list[l].files[x] = 0
  BY <1>1, <1>3, <1>5 DEF Room
<1>7. Sound(r, mapped, dropped) /\ Completes(r, q)
  BY <1>1, <1>2, <1>3, <1>4, <1>5, <1>6, AddAlbumSound
<1> QED BY <1>1, <1>7, ChangeKeeps

LEMMA DeleteSongFromKeeps ==
  ASSUME PlaylistsInv, NEW l, NEW s \in Songs, DeleteSongFrom(l, s)
  PROVE  PlaylistsInv'
<1> DEFINE r == DeleteFile(q, l, s)
<1>1. l \in mapped /\ Change(r) /\ current' = current
  BY DEF DeleteSongFrom
<1>2. /\ mapped \in SUBSET Lists /\ dropped \in SUBSET Lists
      /\ Sound(q, mapped, dropped) /\ q.deleted = {}
  BY InvLists DEF PlaylistsInv
<1>3. r = DeleteFile(q, l, s)
  OBVIOUS
<1> HIDE DEF r
<1>4. Sound(r, mapped, dropped) /\ Completes(r, q)
  BY <1>1, <1>2, <1>3, DeleteFileSound
<1> QED BY <1>1, <1>4, ChangeKeeps

LEMMA DeleteAlbumFromKeeps ==
  ASSUME PlaylistsInv, NEW l, NEW a, DeleteAlbumFrom(l, a)
  PROVE  PlaylistsInv'
<1> DEFINE r == DeleteAlbum(q, l, a)
<1>1. l \in mapped /\ Change(r) /\ current' = current
  BY DEF DeleteAlbumFrom
<1>2. /\ mapped \in SUBSET Lists /\ dropped \in SUBSET Lists
      /\ Sound(q, mapped, dropped) /\ q.deleted = {}
  BY InvLists DEF PlaylistsInv
<1>3. r = DeleteAlbum(q, l, a)
  OBVIOUS
<1> HIDE DEF r
<1>4. Sound(r, mapped, dropped) /\ Completes(r, q)
  BY ONLY <1>1, <1>2, <1>3, DeleteAlbumSound
<1> QED BY <1>1, <1>4, ChangeKeeps

LEMMA ReorderTracksKeeps ==
  ASSUME PlaylistsInv, NEW l, ReorderTracks(l)
  PROVE  PlaylistsInv'
<1>1. /\ mapped \in SUBSET Lists /\ dropped \in SUBSET Lists
      /\ Sound(q, mapped, dropped) /\ q.deleted = {}
  BY InvLists DEF PlaylistsInv
<1>2. PICK i \in DOMAIN q.list[l].tracks, j \in DOMAIN q.list[l].tracks :
        /\ i < j
        /\ \E table \in [1 .. j - i + 1 -> {q.file[q.list[l].tracks[k]] : k \in i .. j}] :
             IsInjective(table) /\ Change(Reorder(q, l, table))
  BY DEF ReorderTracks
<1>3. PICK table \in [1 .. j - i + 1 -> {q.file[q.list[l].tracks[k]] : k \in i .. j}] :
        IsInjective(table) /\ Change(Reorder(q, l, table))
  BY <1>2
<1>4. l \in mapped /\ current' = current
  BY DEF ReorderTracks
<1> DEFINE r == Reorder(q, l, table)
<1>5. r = Reorder(q, l, table) /\ Change(r)
  BY <1>3
<1> HIDE DEF r
<1>6. Sound(r, mapped, dropped) /\ Completes(r, q)
  BY <1>1, <1>2, <1>3, <1>4, <1>5, ReorderSound
<1> QED BY <1>4, <1>5, <1>6, ChangeKeeps

LEMMA ResizeKeeps ==
  ASSUME PlaylistsInv, Resize
  PROVE  PlaylistsInv'
<1>1. /\ mapped \in SUBSET Lists /\ dropped \in SUBSET Lists
      /\ Sound(q, mapped, dropped) /\ q.deleted = {}
  BY InvLists DEF PlaylistsInv
<1>2. PICK A \in [mapped -> SUBSET Albums] : Change(DeleteOldest(q, mapped, A))
  <2>1. \A l \in mapped : OldestAlbums(q, l, Limit) \subseteq SUBSET Albums
    BY DEF OldestAlbums
  <2> HIDE DEF OldestAlbums
  <2> QED BY <2>1 DEF Resize
<1>3. current' = current
  BY DEF Resize
<1> DEFINE r == DeleteOldest(q, mapped, A)
<1>4. r = DeleteOldest(q, mapped, A) /\ Change(r)
  BY <1>2
<1> HIDE DEF r
<1>5. Sound(r, mapped, dropped) /\ Completes(r, q)
  BY <1>1, <1>2, <1>4, DeleteOldestSound
<1> QED BY <1>3, <1>4, <1>5, ChangeKeeps

LEMMA AddArtistToKeeps ==
  ASSUME PlaylistsInv, AddTwice = FALSE, NEW l, NEW action, AddArtistTo(l, action)
  PROVE  PlaylistsInv'
<1>1. PICK A \in (SUBSET Albums) \ {{}} :
        LET songs == LibrarySongs(A)
            albums == {AlbumOf[s] : s \in Range(songs)}
            marked == RemoveAlbums(q, l, albums)
            added == AddAlbum(marked, l, songs, action, FALSE)
            kept == DeleteRemovedTracks(added, {l}, FALSE)
        IN /\ Room(Len(songs))
           /\ AddTwice \/ \A a \in albums : OnAlbum(q, l, a) = {}
           /\ Change(Reindex(kept, {l}))
  BY DEF AddArtistTo
<1> DEFINE songs == LibrarySongs(A)
           albums == {AlbumOf[s] : s \in Range(songs)}
           r == Reindex(DeleteRemovedTracks(
                  AddAlbum(RemoveAlbums(q, l, albums), l, songs, action, FALSE), {l}, FALSE), {l})
<1>2. /\ songs = LibrarySongs(A) /\ albums = {AlbumOf[s] : s \in Range(songs)}
      /\ r = Reindex(DeleteRemovedTracks(
               AddAlbum(RemoveAlbums(q, l, albums), l, songs, action, FALSE), {l}, FALSE), {l})
      /\ Room(Len(songs)) /\ \A a \in albums : OnAlbum(q, l, a) = {}
      /\ Change(r)
  BY <1>1
<1> HIDE DEF songs, albums, r
<1>3. ListsInv /\ l \in mapped /\ current' = current
  BY DEF PlaylistsInv, AddArtistTo
<1>4. Sound(r, mapped, dropped) /\ Completes(r, q)
  BY <1>2, <1>3, AddedArtist
<1> QED BY <1>2, <1>3, <1>4, ChangeKeeps

LEMMA RescanKeeps ==
  ASSUME PlaylistsInv, NEW lost \in SUBSET library, Rescan(lost)
  PROVE  PlaylistsInv'
<1>1. /\ mapped \in SUBSET Lists /\ dropped \in SUBSET Lists
      /\ Sound(q, mapped, dropped) /\ q.deleted = {} /\ library \subseteq Songs
  BY InvLists DEF PlaylistsInv
<1> DEFINE kept == library \ lost
<1>2. /\ q' = Rebuild(q, mapped, kept) /\ library' = kept
      /\ mapped' = mapped /\ dropped' = dropped /\ current' = current
      /\ UNCHANGED <<decoderVars, rebuild>>
  BY DEF Rescan
<1>3. kept \subseteq Songs
  BY <1>1
<1> HIDE DEF kept
<1>4. Sound(q', mapped, dropped) /\ Completes(q', q)
  BY <1>1, <1>2, RebuildSound
<1>5. ListsInv'
  BY <1>2, <1>3, <1>4 DEF PlaylistsInv, ListsInv, Completes
<1>6. HoldersInv'
  <2>1. q'.made \in Nat
    BY <1>4, SoundMade
  <2>2. current' \in [song : Songs \cup {Nil}, list : Lists \cup {Nil}]
    BY <1>2 DEF PlaylistsInv, HoldersInv
  <2> QED BY <1>2, <1>4, <2>1, <2>2, HoldersKept
<1> QED BY <1>5, <1>6 DEF PlaylistsInv

LEMMA NewPlaylistKeeps ==
  ASSUME PlaylistsInv, NEW l \in Lists, NewPlaylist(l)
  PROVE  PlaylistsInv'
<1>1. /\ mapped \in SUBSET Lists /\ dropped \in SUBSET Lists
      /\ Sound(q, mapped, dropped) /\ q.deleted = {}
  BY InvLists DEF PlaylistsInv
<1>2. /\ l \in Lists \ (mapped \cup dropped)
      /\ q' = [q EXCEPT !.list[l] = EmptyList] /\ mapped' = mapped \cup {l}
      /\ dropped' = dropped /\ library' = library /\ current' = current
      /\ UNCHANGED <<decoderVars, rebuild>>
  BY DEF NewPlaylist
<1>3. Sound(q', mapped \cup {l}, dropped) /\ Completes(q', q)
  BY <1>1, <1>2, NewListSound
<1>4. ListsInv'
  BY <1>2, <1>3 DEF PlaylistsInv, ListsInv, Completes
<1>5. HoldersInv'
  <2>1. q'.made \in Nat
    BY <1>3, SoundMade
  <2>2. current' \in [song : Songs \cup {Nil}, list : Lists \cup {Nil}]
    BY <1>2 DEF PlaylistsInv, HoldersInv
  <2> QED BY <1>2, <1>3, <2>1, <2>2, HoldersKept
<1> QED BY <1>4, <1>5 DEF PlaylistsInv

LEMMA DropPlaylistKeeps ==
  ASSUME PlaylistsInv, NEW l, DropPlaylist(l)
  PROVE  PlaylistsInv'
<1>1. /\ mapped \in SUBSET Lists /\ dropped \in SUBSET Lists /\ mapped \cap dropped = {}
      /\ Sound(q, mapped, dropped) /\ q.deleted = {}
  BY InvLists DEF PlaylistsInv
<1>2. /\ l \in mapped /\ l # Recent /\ q' = Drop(q, l) /\ mapped' = mapped \ {l}
      /\ dropped' = dropped \cup {l} /\ library' = library
      /\ current' \in {NoSong, current}
      /\ UNCHANGED <<decoderVars, rebuild>>
  BY DEF DropPlaylist
<1>3. Sound(q', mapped \ {l}, dropped \cup {l}) /\ Completes(q', q)
  BY <1>1, <1>2, DropSound
<1>4. ListsInv'
  BY <1>1, <1>2, <1>3 DEF PlaylistsInv, ListsInv, Completes
<1>5. HoldersInv'
  <2>1. q'.made \in Nat
    BY <1>3, SoundMade
  <2>2. current' \in [song : Songs \cup {Nil}, list : Lists \cup {Nil}]
    BY <1>2 DEF PlaylistsInv, HoldersInv, NoSong
  <2> QED BY <1>2, <1>3, <2>1, <2>2, HoldersKept
<1> QED BY <1>4, <1>5 DEF PlaylistsInv

LEMMA PlayKeeps ==
  ASSUME PlaylistsInv, NEW s \in Songs, NEW l \in Lists, Play(s, l)
  PROVE  PlaylistsInv'
<1>1. ListsInv /\ Sound(q, mapped, dropped) /\ Recent \in mapped /\ q.made \in Nat /\ q.deleted = {}
  BY InvLists DEF PlaylistsInv
<1>2. /\ mapped' = mapped /\ dropped' = dropped /\ library' = library
      /\ UNCHANGED <<decoderVars, rebuild>>
      /\ current' = [song |-> s, list |-> l]
  BY DEF Play
<1>3. Sound(q', mapped, dropped) /\ Completes(q', q)
  <2>1. CASE q' = q
    BY <1>1, <2>1 DEF Completes
  <2>2. CASE /\ Room(Len(AlbumSongs(AlbumOf[s])))
             /\ q' = AddAlbum(DeleteAlbum(q, Recent, AlbumOf[s]), Recent,
                              AlbumSongs(AlbumOf[s]), "insert", TRUE)
    BY <1>1, <2>2, AddedAlbum
  <2> QED BY <2>1, <2>2 DEF Play
<1>4. ListsInv'
  BY <1>1, <1>2, <1>3 DEF ListsInv, Completes
<1>5. HoldersInv'
  <2>1. q'.made \in Nat
    BY <1>3, SoundMade
  <2>2. current' \in [song : Songs \cup {Nil}, list : Lists \cup {Nil}]
    BY <1>2
  <2> QED BY <1>2, <1>3, <2>1, <2>2, HoldersKept
<1> QED BY <1>4, <1>5 DEF PlaylistsInv

LEMMA HeapKept ==
  ASSUME ListsInv, UNCHANGED heapVars
  PROVE  ListsInv'
<1>1. q' = q /\ mapped' = mapped /\ dropped' = dropped /\ library' = library
  BY DEF heapVars
<1> QED BY <1>1 DEF ListsInv

(* A live track is held, or tracks are let go. *)
LEMMA DecodeKeeps ==
  ASSUME PlaylistsInv, NEW b \in Buffers, NEW t \in 1 .. q.made, Decode(b, t)
  PROVE  PlaylistsInv'
<1>1. ListsInv /\ HoldersInv /\ Sound(q, mapped, dropped) /\ q.made \in Nat
  BY InvLists DEF PlaylistsInv
<1>2. ListsInv'
  BY <1>1, HeapKept DEF Decode
<1>3. /\ q' = q /\ cleared' = cleared /\ ~cleared /\ rebuild' = rebuild /\ current' = current
      /\ buffer' = [buffer EXCEPT ![b] = t] /\ decoder' = t /\ rebuild = "no"
  BY DEF Decode, heapVars, DecoderRuns
<1>4. t \notin q.freed
  <2>1. PICK l \in mapped : t \in TracksOf(q, l)
    BY DEF Decode
  <2>2. InUse(q, l)
    BY <1>1 DEF Sound
  <2> QED BY <2>1, <2>2 DEF InUse
<1>5. buffer' \in [Buffers -> 0 .. q.made] /\ decoder' \in 0 .. q.made
  BY <1>1, <1>3 DEF HoldersInv
<1>6. \A x \in Held' : x \in Held \/ x = t
  BY <1>1, <1>3 DEF Held, HoldersInv
<1>7. Held' \cap q'.freed = {}
  BY <1>1, <1>3, <1>4, <1>6 DEF HoldersInv
<1>8. HoldersInv'
  BY <1>1, <1>3, <1>4, <1>5, <1>7 DEF HoldersInv
<1> QED BY <1>2, <1>8 DEF PlaylistsInv

LEMMA ReleaseKeeps ==
  ASSUME PlaylistsInv, UNCHANGED <<heapVars, current, cleared>>,
         \A b \in Buffers : buffer'[b] \in {0, buffer[b]}, buffer' = [b \in Buffers |-> buffer'[b]],
         decoder' \in {0, decoder}, rebuild' = rebuild
  PROVE  PlaylistsInv'
<1>1. ListsInv /\ HoldersInv /\ q.made \in Nat
  BY InvLists DEF PlaylistsInv
<1>2. ListsInv'
  BY <1>1, HeapKept
<1>3. q' = q /\ cleared' = cleared /\ rebuild' = rebuild /\ current' = current
  BY DEF heapVars
<1>4. buffer' \in [Buffers -> 0 .. q.made] /\ decoder' \in 0 .. q.made
  BY <1>1 DEF HoldersInv
<1>5. Held' \subseteq Held
  BY DEF Held
<1>6. HoldersInv'
  BY <1>1, <1>3, <1>4, <1>5 DEF HoldersInv
<1> QED BY <1>2, <1>6 DEF PlaylistsInv

LEMMA FailKeeps ==
  ASSUME PlaylistsInv, Fail
  PROVE  PlaylistsInv'
BY ReleaseKeeps DEF Fail

LEMMA HousekeepingKeeps ==
  ASSUME PlaylistsInv, NEW t, Housekeeping(t)
  PROVE  PlaylistsInv'
BY ReleaseKeeps DEF Housekeeping

LEMMA DecoderClearedKeeps ==
  ASSUME PlaylistsInv, DecoderCleared
  PROVE  PlaylistsInv'
<1>1. ListsInv /\ HoldersInv /\ q.made \in Nat
  BY InvLists DEF PlaylistsInv
<1>2. ListsInv'
  BY <1>1, HeapKept DEF DecoderCleared
<1>3. /\ q' = q /\ cleared' = FALSE /\ rebuild' = rebuild /\ current' = current /\ rebuild = "no"
      /\ buffer' = [b \in Buffers |-> 0] /\ decoder' = 0
  BY DEF DecoderCleared, heapVars
<1>4. Held' = {}
  BY <1>3 DEF Held
<1>5. buffer' \in [Buffers -> 0 .. q.made] /\ decoder' \in 0 .. q.made
  BY <1>1, <1>3
<1>6. HoldersInv'
  BY <1>1, <1>3, <1>4, <1>5 DEF HoldersInv
<1> QED BY <1>2, <1>6 DEF PlaylistsInv

LEMMA StopKeeps ==
  ASSUME PlaylistsInv, UNCHANGED <<heapVars, decoderVars>>, current' \in {NoSong, current},
         rebuild' \in {rebuild, "stopped"}
  PROVE  PlaylistsInv'
<1>1. ListsInv /\ HoldersInv
  BY DEF PlaylistsInv
<1>2. ListsInv'
  BY <1>1, HeapKept
<1>3. q' = q /\ cleared' = cleared /\ buffer' = buffer /\ decoder' = decoder
  BY DEF heapVars, decoderVars
<1>4. current' \in [song : Songs \cup {Nil}, list : Lists \cup {Nil}]
  BY <1>1 DEF HoldersInv, NoSong
<1>5. Held' = Held
  BY <1>3 DEF Held
<1>6. HoldersInv'
  BY <1>1, <1>3, <1>4, <1>5 DEF HoldersInv
<1> QED BY <1>2, <1>6 DEF PlaylistsInv

LEMMA RebuildResetKeeps ==
  ASSUME PlaylistsInv, RebuildReset
  PROVE  PlaylistsInv'
<1>1. ListsInv /\ HoldersInv /\ q.made \in Nat
  BY InvLists DEF PlaylistsInv
<1>2. ListsInv'
  BY <1>1, HeapKept DEF RebuildReset
<1>3. /\ q' = q /\ cleared' = TRUE /\ rebuild' = "reset" /\ current' = current
      /\ buffer' = [b \in Buffers |-> 0] /\ decoder' = decoder
  BY DEF RebuildReset, heapVars
<1>4. Held' = {}
  BY <1>3 DEF Held
<1>5. buffer' \in [Buffers -> 0 .. q.made]
  BY <1>1, <1>3
<1>6. HoldersInv'
  BY <1>1, <1>3, <1>4, <1>5 DEF HoldersInv
<1> QED BY <1>2, <1>6 DEF PlaylistsInv

LEMMA RebuildClearKeeps ==
  ASSUME PlaylistsInv, RebuildClear
  PROVE  PlaylistsInv'
<1>1. /\ ListsInv /\ HoldersInv
      /\ mapped \in SUBSET Lists /\ dropped \in SUBSET Lists /\ mapped \cap dropped = {}
      /\ Sound(q, mapped, dropped) /\ q.deleted = {} /\ q.made \in Nat
  BY InvLists DEF PlaylistsInv
<1> DEFINE h == Clear(q, mapped)
<1>2. h = Clear(q, mapped)
  OBVIOUS
<1>3. /\ mapped' = mapped /\ dropped' = dropped /\ current' = current
      /\ buffer' = buffer /\ decoder' = decoder /\ cleared' = cleared
      /\ rebuild = "reset" /\ rebuild' = "no"
  BY DEF RebuildClear, decoderVars
<1>4. \/ /\ library' = library
         /\ \E old \in [mapped -> SUBSET library] :
              LET songs == [l \in mapped |-> Saved(l, old)]
              IN \E first \in [mapped -> q.made .. MaxTracks], made \in q.made .. MaxTracks :
                   /\ OneByOne(q, mapped, songs, first, made)
                   /\ q' = LoadFromFile(h, mapped, songs, first, made)
      \/ library' = {} /\ q' = h
  BY DEF RebuildClear
<1> HIDE DEF h
<1>5. Sound(h, mapped, dropped) /\ h.deleted = {} /\ h.made = q.made /\ Emptied(h, mapped)
  <2>1. Sound(h, mapped, dropped) /\ Empties(h, q, mapped)
    BY <1>1, <1>2, ClearSound
  <2> QED BY <2>1 DEF Empties
<1>6. Sound(q', mapped, dropped) /\ q'.deleted = {} /\ q'.made >= q.made
  <2>1. CASE q' = h
    BY <1>1, <1>5, <2>1
  <2>2. CASE \E old \in [mapped -> SUBSET library] :
              LET songs == [l \in mapped |-> Saved(l, old)]
              IN \E first \in [mapped -> q.made .. MaxTracks], made \in q.made .. MaxTracks :
                   /\ OneByOne(q, mapped, songs, first, made)
                   /\ q' = LoadFromFile(h, mapped, songs, first, made)
    <3>1. PICK old \in [mapped -> SUBSET library] :
              LET songs == [l \in mapped |-> Saved(l, old)]
              IN \E first \in [mapped -> q.made .. MaxTracks], made \in q.made .. MaxTracks :
                   /\ OneByOne(q, mapped, songs, first, made)
                   /\ q' = LoadFromFile(h, mapped, songs, first, made)
      BY <2>2
    <3> DEFINE songs == [l \in mapped |-> Saved(l, old)]
    <3>2. \A l \in mapped : songs[l] = Saved(l, old)
      OBVIOUS
    <3>3. PICK first \in [mapped -> q.made .. MaxTracks], made \in q.made .. MaxTracks :
                   /\ OneByOne(q, mapped, songs, first, made)
                   /\ q' = LoadFromFile(h, mapped, songs, first, made)
      BY <3>1
    <3> HIDE DEF songs
    <3>4. \A l \in mapped : songs[l] \in Seq(Songs) /\ IsInjective(songs[l])
      BY <1>1, <3>2, SavedSongs
    <3>5. OneByOne(h, mapped, songs, first, made)
      BY <1>5, <3>3 DEF OneByOne
    <3>6. first \in [mapped -> h.made .. MaxTracks] /\ made \in h.made .. MaxTracks
      BY <1>5
    <3>7. Sound(q', mapped, dropped) /\ Completes(q', h)
      BY <1>1, <1>5, <3>3, <3>4, <3>5, <3>6, LoadFromFileSound
    <3> QED BY <1>5, <3>7 DEF Completes
  <2> QED BY <1>4, <2>1, <2>2
<1>7. ListsInv'
  BY <1>1, <1>3, <1>4, <1>6 DEF ListsInv
<1>8. cleared /\ Held = {}
  BY <1>1, <1>3 DEF HoldersInv
<1>9. Held' = {}
  BY <1>3, <1>8 DEF Held
<1>10. buffer' \in [Buffers -> 0 .. q'.made] /\ decoder' \in 0 .. q'.made
  <2>1. q'.made \in Nat
    BY <1>6, SoundMade
  <2>2. 0 .. q.made \subseteq 0 .. q'.made
    BY <1>1, <1>6, <2>1
  <2> QED BY <1>1, <1>3, <2>2 DEF HoldersInv
<1>11. HoldersInv'
  BY <1>1, <1>3, <1>8, <1>9, <1>10 DEF HoldersInv
<1> QED BY <1>7, <1>11 DEF PlaylistsInv

(* The collectors: what a buffer is spared holding is deferred, and not freed. *)
LEMMA CollectGarbageKeeps ==
  ASSUME PlaylistsInv, NEW songs, CollectGarbage(songs)
  PROVE  PlaylistsInv'
<1>1. /\ ListsInv /\ HoldersInv
      /\ mapped \in SUBSET Lists /\ dropped \in SUBSET Lists /\ mapped \cap dropped = {}
      /\ Sound(q, mapped, dropped) /\ q.deleted = {} /\ q.made \in Nat
  BY InvLists DEF PlaylistsInv
<1> DEFINE garbage == \E l \in mapped : q.list[l].garbage # {}
           done == garbage \/ dropped # {}
<1>2. PICK stray :
        LET r1 == Release(q, {l \in dropped : q.list[l].garbage # {}}, stray)
            r2 == IF garbage THEN Release(r1, mapped, stray) ELSE r1
            r3 == IF garbage THEN Collected(r2, mapped, songs)
                  ELSE IF dropped # {} THEN BufferGarbage(r2, songs) ELSE r2
            r4 == Cleaned(r3)
        IN /\ q' = IF done THEN Release(Reset(r4, mapped), mapped, stray) ELSE r4
           /\ dropped' = {l \in dropped : q.list[l].tracks # <<>>}
           /\ buffer' = IF done
                THEN [b \in Buffers |-> IF buffer[b] \in q.removed \ Spared(q, songs) THEN 0 ELSE buffer[b]]
                ELSE buffer
  BY DEF CollectGarbage
<1> DEFINE r1 == Release(q, {l \in dropped : q.list[l].garbage # {}}, stray)
           r2 == IF garbage THEN Release(r1, mapped, stray) ELSE r1
           b == IF done THEN BufferGarbage(r2, songs) ELSE r2
           r3 == IF garbage THEN Collect(b, mapped) ELSE b
           r4 == Collect(r3, dropped)
           r5 == IF done THEN Reset(r4, mapped) ELSE r4
<1>3. /\ q' = IF done THEN Release(r5, mapped, stray) ELSE r5
      /\ dropped' \subseteq dropped
      /\ done => buffer' = [x \in Buffers |->
                    IF buffer[x] \in q.removed \ Spared(q, songs) THEN 0 ELSE buffer[x]]
      /\ ~done => buffer' = buffer
  BY <1>2 DEF Collected, Cleaned
<1>4. /\ mapped' = mapped /\ library' = library /\ cleared' = cleared /\ current' = current
      /\ rebuild' = rebuild /\ decoder' = 0 /\ ~cleared /\ rebuild = "no"
  BY DEF CollectGarbage, DecoderRuns
<1>5. Sound(r1, mapped, dropped) /\ Defers(r1, q)
  BY <1>1, ReleaseSound
<1>6. /\ Sound(r2, mapped, dropped)
      /\ r2.made = q.made /\ r2.file = q.file /\ r2.freed = q.freed /\ r2.orphan = q.orphan
      /\ r2.deleted = {} /\ r2.removed = q.removed
  <2> HIDE DEF r1
  <2>1. Sound(r2, mapped, dropped) /\ (Defers(r2, r1) \/ r2 = r1)
    BY <1>1, <1>5, ReleaseSound
  <2> HIDE DEF r2
  <2> QED BY <1>1, <1>5, <2>1 DEF Defers
<1>7. b = BufferGarbage(r2, songs) \/ (~done /\ b = r2)
  OBVIOUS
<1> HIDE DEF r1, r2
<1>8. /\ Sound(b, mapped, dropped)
      /\ b.made = q.made /\ b.freed = q.freed /\ b.deleted = {} /\ b.removed = q.removed
      /\ done => q.removed \cap Spared(q, songs) \subseteq b.deferred
  <2>1. CASE done
    <3>1. b = [r2 EXCEPT !.deferred = (@ \ Held) \cup (q.removed \cap Spared(r2, songs))]
      BY <1>6, <2>1 DEF BufferGarbage
    <3>2. Spared(r2, songs) = Spared(q, songs)
      BY <1>6 DEF Spared, SongOf
    <3>3. r2 \in Heaps /\ r2.deferred \subseteq 1 .. r2.made /\ q.removed \subseteq 1 .. q.made
      BY <1>1, <1>6 DEF Sound, MadeBefore
    <3>4. Defers(b, r2) /\ q.removed \cap Spared(q, songs) \subseteq b.deferred
      <4> HIDE DEF b
      <4> QED BY <1>6, <3>1, <3>2, <3>3 DEF Defers, Heaps
    <3> HIDE DEF b
    <3>5. Sound(b, mapped, dropped)
      BY <1>1, <1>6, <3>4, DefersSound
    <3> QED BY <1>6, <3>4, <3>5 DEF Defers
  <2>2. CASE ~done
    BY <1>6, <1>7, <2>2
  <2> QED BY <2>1, <2>2
<1> HIDE DEF b
<1>9. Sound(r3, mapped, dropped) /\ (Collects(r3, b) \/ (r3 = b /\ ~garbage))
  <2>1. mapped \in SUBSET (mapped \cup dropped)
    OBVIOUS
  <2>2. CASE garbage
    BY <1>1, <1>8, <2>1, <2>2, CollectSound
  <2>3. CASE ~garbage
    BY <1>8, <2>3
  <2> QED BY <2>2, <2>3
<1>10. ~done => r3 = b
  OBVIOUS
<1> HIDE DEF r3
<1>11. /\ r3.made = q.made /\ r3.deleted = {} /\ r3.removed \subseteq q.removed
       /\ r3.deferred = b.deferred
       /\ q.freed \subseteq r3.freed /\ r3.freed \ q.freed \subseteq q.removed \ b.deferred
  BY <1>8, <1>9 DEF Collects
<1>12. Sound(r4, mapped, dropped) /\ Collects(r4, r3)
  <2>1. dropped \in SUBSET (mapped \cup dropped)
    OBVIOUS
  <2> QED BY <1>1, <1>9, <2>1, CollectSound
<1>13. ~done => r4.freed = q.freed
  <2> SUFFICES ASSUME ~done PROVE r4.freed = q.freed
    OBVIOUS
  <2>1. dropped = {} /\ r3.freed = q.freed
    BY <1>8, <1>10
  <2>2. r4.freed = r3.freed
    <3>1. r3 \in Heaps
      BY <1>9 DEF Sound
    <3>2. \E list : r4 = [Free(r3, {}) EXCEPT !.list = list]
      <4>1. (UNION {r3.list[l].garbage : l \in dropped}) \ r3.deferred = {}
        BY <2>1
      <4> QED BY <4>1 DEF Collect
    <3> HIDE DEF r4
    <3> QED BY <3>1, <3>2 DEF Free, Heaps
  <2> QED BY <2>1, <2>2
<1> HIDE DEF r4
<1>14. /\ r4.made = q.made /\ r4.deleted = {}
       /\ r4.freed \ q.freed \subseteq q.removed \ b.deferred
  BY <1>11, <1>12 DEF Collects
<1>15. /\ Sound(r5, mapped, dropped)
       /\ r5.made = q.made /\ r5.deleted = {} /\ r5.freed = r4.freed
  <2>1. Sound(r5, mapped, dropped) /\ (Defers(r5, r4) \/ r5 = r4)
    BY <1>1, <1>12, ResetSound
  <2> HIDE DEF r5
  <2> QED BY <1>14, <2>1 DEF Defers
<1> HIDE DEF r5
<1>16. /\ Sound(q', mapped, dropped)
       /\ q'.made = q.made /\ q'.deleted = {} /\ q'.freed = r4.freed
  <2>1. Sound(q', mapped, dropped) /\ (Defers(q', r5) \/ q' = r5)
    BY <1>1, <1>3, <1>15, ReleaseSound
  <2> QED BY <1>15, <2>1 DEF Defers
<1>17. ListsInv'
  <2>1. Sound(q', mapped, dropped')
    BY <1>3, <1>16, SoundFewer
  <2> QED BY <1>1, <1>3, <1>4, <1>16, <2>1 DEF ListsInv
<1>18. buffer' \in [Buffers -> 0 .. q'.made] /\ Held' \subseteq Held
       /\ (done => Held' \cap (q.removed \ Spared(q, songs)) = {})
  <2>1. buffer \in [Buffers -> 0 .. q.made]
    BY <1>1 DEF HoldersInv
  <2>2. CASE done
    BY <1>1, <1>3, <1>16, <2>1, <2>2 DEF Held
  <2>3. CASE ~done
    BY <1>3, <1>16, <2>1, <2>3 DEF Held
  <2> QED BY <2>2, <2>3
<1>19. Held' \cap q'.freed = {}
  <2>1. Held \cap q.freed = {}
    BY <1>1 DEF HoldersInv
  <2>2. CASE done
    <3>1. q'.freed \ q.freed \subseteq q.removed \ Spared(q, songs)
      BY <1>8, <1>14, <1>16, <2>2
    <3> QED BY <1>18, <2>1, <2>2, <3>1
  <2>3. CASE ~done
    BY <1>13, <1>16, <1>18, <2>1, <2>3
  <2> QED BY <2>2, <2>3
<1>20. HoldersInv'
  <2>1. decoder' \in 0 .. q'.made
    BY <1>1, <1>4, <1>16
  <2> QED BY <1>1, <1>4, <1>18, <1>19, <2>1 DEF HoldersInv
<1> QED BY <1>17, <1>20 DEF PlaylistsInv

-----------------------------------------------------------------------------

LEMMA InitInv == Init => PlaylistsInv
<1> SUFFICES ASSUME Init PROVE PlaylistsInv
  OBVIOUS
<1>1. MaxTracks \in Nat /\ Recent \in Lists
  BY PlaylistAssumption, PlaylistsAssumption
<1>2. /\ q.made = 0 /\ q.file = [t \in Ids |-> Nil] /\ q.freed = {} /\ q.orphan = {}
      /\ q.deleted = {} /\ q.removed = {} /\ q.deferred = {}
      /\ q.list = [l \in Lists |-> EmptyList]
      /\ q \in [made : {q.made}, file : {q.file}, freed : {q.freed}, orphan : {q.orphan},
                deleted : {q.deleted}, removed : {q.removed}, deferred : {q.deferred},
                list : {q.list}]
  BY DEF Init
<1>3. /\ mapped = {Recent} /\ dropped = {} /\ library = Songs /\ buffer = [b \in Buffers |-> 0]
      /\ decoder = 0 /\ cleared = FALSE /\ current = NoSong /\ rebuild = "no"
  BY DEF Init
<1>4. EmptyList \in Listings
  BY <1>1 DEF EmptyList, Listings
<1>5. q \in Heaps
  BY <1>1, <1>2, <1>4 DEF Heaps
<1>6. ASSUME NEW l \in Lists
      PROVE  /\ q.list[l].tracks = <<>> /\ q.list[l].files = [s \in Songs |-> 0]
             /\ q.list[l].garbage = {} /\ TracksOf(q, l) = {} /\ Places(q, l) = {}
  <2>1. /\ q.list[l].tracks = <<>> /\ q.list[l].files = [s \in Songs |-> 0]
        /\ q.list[l].garbage = {}
    BY <1>2 DEF EmptyList
  <2>2. TracksOf(q, l) = {}
    BY <2>1 DEF TracksOf, Range
  <2> QED BY <2>1, <2>2 DEF Places
<1>7. MadeBefore(q)
  BY <1>2, <1>6 DEF MadeBefore
<1>8. \A l \in Lists : InUse(q, l) /\ Collectable(q, l)
  <2> TAKE l \in Lists
  <2>1. IsInjective(q.list[l].tracks)
    BY <1>6 DEF IsInjective
  <2> QED BY <1>6, <2>1 DEF InUse, Collectable
<1>9. Sound(q, mapped, dropped)
  BY <1>1, <1>3, <1>5, <1>7, <1>8 DEF Sound, Apart
<1>10. ListsInv
  BY <1>1, <1>2, <1>3, <1>9 DEF ListsInv
<1>11. Held = {}
  BY <1>3 DEF Held
<1>12. buffer \in [Buffers -> 0 .. q.made] /\ decoder \in 0 .. q.made
  BY <1>2, <1>3
<1>13. current \in [song : Songs \cup {Nil}, list : Lists \cup {Nil}]
  BY <1>3 DEF NoSong
<1>14. HoldersInv
  <2>1. Held \cap q.freed = {} /\ (cleared => Held = {}) /\ (decoder # 0 /\ ~cleared => decoder \notin q.freed)
    BY <1>2, <1>11
  <2>2. cleared \in BOOLEAN /\ rebuild \in {"no", "stopped", "reset"} /\ (rebuild = "reset" => cleared)
    BY <1>3
  <2> QED BY <1>12, <1>13, <2>1, <2>2 DEF HoldersInv
<1> QED BY <1>10, <1>14 DEF PlaylistsInv

LEMMA NextInv ==
  ASSUME AddTwice = FALSE, PlaylistsInv, [Next]_vars
  PROVE  PlaylistsInv'
<1>1. CASE Users
  <2>1. PICK l \in Lists :
          \/ \E a \in Albums : DeleteAlbumFrom(l, a) \/ \E action \in Actions(l) : AddAlbumTo(l, a, action)
          \/ \E s \in Songs : \/ DeleteSongFrom(l, s) \/ Play(s, l)
                              \/ \E action \in Actions(l) : AddSongTo(l, s, action)
          \/ \E action \in Actions(l) : AddArtistTo(l, action)
          \/ ReorderTracks(l) \/ NewPlaylist(l) \/ DropPlaylist(l)
    BY <1>1 DEF Users
  <2> QED BY <2>1, DeleteAlbumFromKeeps, AddAlbumToKeeps, DeleteSongFromKeeps, PlayKeeps,
             AddSongToKeeps, AddArtistToKeeps, ReorderTracksKeeps, NewPlaylistKeeps,
             DropPlaylistKeeps
<1>2. CASE Decoder
  BY <1>2, DecodeKeeps, HousekeepingKeeps, FailKeeps, CollectGarbageKeeps, DecoderClearedKeeps
     DEF Decoder
<1>3. CASE Resize
  BY <1>3, ResizeKeeps
<1>4. CASE Stop
  BY <1>4, StopKeeps DEF Stop
<1>5. CASE \E lost \in SUBSET library : Rescan(lost)
  BY <1>5, RescanKeeps
<1>6. CASE RebuildStop
  BY <1>6, StopKeeps DEF RebuildStop
<1>7. CASE RebuildReset
  BY <1>7, RebuildResetKeeps
<1>8. CASE RebuildClear
  BY <1>8, RebuildClearKeeps
<1>9. CASE UNCHANGED vars
  BY <1>9, StopKeeps DEF vars, heapVars, decoderVars
<1> QED BY <1>1, <1>2, <1>3, <1>4, <1>5, <1>6, <1>7, <1>8, <1>9 DEF Next

LEMMA SpecInv ==
  ASSUME AddTwice = FALSE
  PROVE  Spec => []PlaylistsInv
<1>1. PlaylistsInv /\ [Next]_vars => PlaylistsInv'
  BY NextInv
<1> QED BY InitInv, <1>1, PTL DEF Spec

LEMMA InvProperties ==
  ASSUME PlaylistsInv
  PROVE  /\ HeldTracksAreLive /\ ListedTracksAreLive /\ TracksHaveOnePlace
         /\ MarkedIsGarbage /\ FoundByFile
<1>1. /\ mapped \in SUBSET Lists /\ dropped \in SUBSET Lists /\ mapped \cap dropped = {}
      /\ Sound(q, mapped, dropped) /\ HoldersInv
  BY InvLists DEF PlaylistsInv
<1>2. \A l \in mapped : InUse(q, l)
  BY <1>1 DEF Sound
<1>3. \A l \in mapped \cup dropped : Collectable(q, l)
  BY <1>1 DEF Sound
<1>4. HeldTracksAreLive
  BY <1>1 DEF HoldersInv, HeldTracksAreLive
<1>5. ListedTracksAreLive
  <2>1. ASSUME NEW l \in mapped
        PROVE  (TracksOf(q, l) \cup q.list[l].garbage \cup (Range(q.list[l].files) \ {0}))
                 \cap q.freed = {}
    <3>1. InUse(q, l) /\ Collectable(q, l)
      BY <1>2, <1>3
    <3>2. DOMAIN q.list[l].files = Songs
      <4>1. q.list[l].files \in [Songs -> 0 .. q.made]
        BY <1>1 DEF Sound, MadeBefore
      <4> QED BY <4>1
    <3>3. Range(q.list[l].files) \ {0} \subseteq TracksOf(q, l)
      BY <3>1, <3>2 DEF InUse, Range
    <3> QED BY <3>1, <3>3 DEF InUse, Collectable
  <2> QED BY <1>3, <2>1 DEF ListedTracksAreLive, Collectable
<1>6. TracksHaveOnePlace
  <2>1. \A l, m \in mapped \cup dropped : l # m => Places(q, l) \cap Places(q, m) = {}
    BY <1>1 DEF Sound, Apart
  <2> QED BY <1>2, <2>1 DEF TracksHaveOnePlace, InUse, Places
<1>7. MarkedIsGarbage
  BY <1>2, <1>3 DEF MarkedIsGarbage, InUse, Collectable
<1>8. FoundByFile
  <2> SUFFICES ASSUME NEW l \in mapped, NEW s \in Songs
               PROVE  q.list[l].files[s] = 0 <=> \A t \in TracksOf(q, l) : q.file[t] # s
    BY DEF FoundByFile
  <2>1. InUse(q, l)
    BY <1>2
  <2>2. 0 \notin TracksOf(q, l)
    BY <1>1, TracksMade
  <2> QED BY <2>1, <2>2 DEF InUse
<1> QED BY <1>4, <1>5, <1>6, <1>7, <1>8

LEMMA InvTypeOK ==
  ASSUME PlaylistsInv
  PROVE  TypeOK
<1>1. /\ mapped \in SUBSET Lists /\ dropped \in SUBSET Lists /\ mapped \cap dropped = {}
      /\ library \subseteq Songs
      /\ Sound(q, mapped, dropped) /\ HoldersInv /\ MadeBefore(q) /\ q \in Heaps
  BY InvLists DEF PlaylistsInv, Sound
<1>2. q.made \in 0 .. MaxTracks /\ q.file \in [Ids -> Songs \cup {Nil}]
  BY <1>1, HeapFields
<1>3. \A f \in {q.freed, q.orphan, q.deleted, q.removed, q.deferred} : f \subseteq 1 .. q.made
  BY <1>1 DEF MadeBefore
<1>4. \A l \in Lists : /\ TracksOf(q, l) \cup q.list[l].garbage \subseteq 1 .. q.made
                       /\ q.list[l].files \in [Songs -> 0 .. q.made]
  BY <1>1 DEF MadeBefore, Places
<1> QED BY <1>1, <1>2, <1>3, <1>4 DEF TypeOK, HoldersInv

(* Every variable of the playlists and of those that hold their tracks has its
   type: none reaches a track that was not made. *)
THEOREM PlaylistsTypeCorrect ==
  ASSUME AddTwice = FALSE
  PROVE  Spec => []TypeOK
<1>1. PlaylistsInv => TypeOK
  BY InvTypeOK
<1> QED BY <1>1, SpecInv, PTL

(* TPlayer::playlistGarbageCollector(), with those of the buffers and of the
   playlists: however the web threads, the decoder and the library thread take
   turns, no buffer holds a track that was freed, nor does the decoder unless it
   has been told to forget its track. *)
THEOREM HeldTracksStayLive ==
  ASSUME AddTwice = FALSE
  PROVE  Spec => []HeldTracksAreLive
<1>1. PlaylistsInv => HeldTracksAreLive
  BY InvProperties
<1> QED BY <1>1, SpecInv, PTL

(* TPlaylist::garbageCollector(), clear(), deleteRemovedTracks(): no playlist
   reaches a freed track, by place, by file or in its garbage. *)
THEOREM ListedTracksStayLive ==
  ASSUME AddTwice = FALSE
  PROVE  Spec => []ListedTracksAreLive
<1>1. PlaylistsInv => ListedTracksAreLive
  BY InvProperties
<1> QED BY <1>1, SpecInv, PTL

(* TPlaylist's list and garbage: a track has one place, in one playlist, through
   insertions, deletions, new orders, resizes, reloads and removals. *)
THEOREM TracksKeepOnePlace ==
  ASSUME AddTwice = FALSE
  PROVE  Spec => []TracksHaveOnePlace
<1>1. PlaylistsInv => TracksHaveOnePlace
  BY InvProperties
<1> QED BY <1>1, SpecInv, PTL

(* TTrack::isRemoved() and TPlaylist's garbage: the mark that the collector of
   the buffers reads says the same as the place the other collector looks at. *)
THEOREM MarksMeanGarbage ==
  ASSUME AddTwice = FALSE
  PROVE  Spec => []MarkedIsGarbage
<1>1. PlaylistsInv => MarkedIsGarbage
  BY InvProperties
<1> QED BY <1>1, SpecInv, PTL

(* TPlaylist's map of files: it has a song if and only if the list has. *)
THEOREM FilesFindTracks ==
  ASSUME AddTwice = FALSE
  PROVE  Spec => []FoundByFile
<1>1. PlaylistsInv => FoundByFile
  BY InvProperties
<1> QED BY <1>1, SpecInv, PTL

=============================================================================
