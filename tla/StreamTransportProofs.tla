----------------------- MODULE StreamTransportProofs -----------------------
(***************************************************************************)
(* Proofs about StreamTransport for any number of descriptors, transports, *)
(* listeners, paths and streams, and any plan of the application.          *)
(*                                                                         *)
(* The argument: every call keeps the table of descriptors sound, whatever *)
(* the caller holds in its hand while it works, and takes or gives back    *)
(* exactly the descriptors its actor is known to hold between two steps.   *)
(***************************************************************************)
EXTENDS MCStreamTransport, FiniteSetTheorems, WellFoundedInduction, SequenceTheorems, TLAPS

-----------------------------------------------------------------------------
(* The inductive invariant: types.                                         *)

Kinds == {"free", "socket", "bound", "listening", "connecting", "refused", "stream"}
States == {"none", "open", "shut", "closed", "reset"}

Files == [kind : Kinds, end : {NoEnd} \cup Ends, nonblock : BOOLEAN, queue : Seq(Ends),
          own : BOOLEAN, asked : BOOLEAN]
EndRecords == [written : Nat, delivered : Nat, state : States, told : BOOLEAN]
Handles == [fd : {NoFd} \cup Fds, open : BOOLEAN, own : BOOLEAN]

Systems ==
  [file : [Fds -> Files], end : [Ends -> EndRecords],
   path : [Paths -> {NoEntry, Stale} \cup Fds],
   transport : [Transports -> Handles], app : SUBSET Fds]

ListenerRecords ==
  [at : {"empty", "socket", "unlinked", "bound", "listening", "open", "closing"},
   fd : {NoFd} \cup Fds, path : Paths \cup {NoPath}, options : Options]

ConnectRecords ==
  [at : {"idle", "address", "start", "poll", "restore", "finish", "drop"},
   t : Transports \cup {"none"}, class : {"none", "tcp", "posix"}, fd : {NoFd} \cup Fds,
   tries : Nat, options : Options, ok : BOOLEAN]

ControlTypeOK ==
  /\ listener \in [Listeners -> ListenerRecords]
  /\ connect \in ConnectRecords
  /\ gather \in [t : Transports \cup {"none"}, rest : Seq(Nat), total : Nat]
  /\ plan \in Plans
  /\ reported \in [Ends -> Nat]
  /\ alone \in [Listeners -> BOOLEAN]

TypeOK == sys \in Systems /\ ControlTypeOK

-----------------------------------------------------------------------------
(* The inductive invariant: the table of descriptors.                      *)

FdOf(S, t) == S.transport[t].fd

\* A stream in the mode that was asked for: what a transport may be given.
Ready(S, d) == S.file[d].kind = "stream" /\ S.file[d].nonblock = S.file[d].asked

\* The descriptors in H are in the hands of a call, a listener or a connect;
\* each other one that is to be closed is the application's or a transport's.
Sound(S, H) ==
  /\ S \in Systems
  /\ \A d \in H \cup S.app : Live(S, d)
  /\ H \cap S.app = {}
  /\ \A d \in S.app : Ready(S, d)
  /\ \A t \in Transports : FdOf(S, t) # NoFd =>
       /\ Live(S, FdOf(S, t)) /\ Ready(S, FdOf(S, t)) /\ FdOf(S, t) \notin H
       /\ (FdOf(S, t) \in S.app) <=> ~S.transport[t].own
  /\ \A t, u \in Transports : t # u /\ FdOf(S, t) # NoFd => FdOf(S, u) # FdOf(S, t)
  /\ \A d \in Fds : Live(S, d) /\ S.file[d].own /\ d \notin H \cup S.app =>
       \E t \in Transports : FdOf(S, t) = d

\* A stream end is at one place: in one file, or once in one queue.
Places(S, d) == 0..Len(S.file[d].queue)
Place(S, d, i) == IF i = 0 THEN S.file[d].end ELSE S.file[d].queue[i]
Unused(S, e) == \A d \in Fds : \A i \in Places(S, d) : Place(S, d, i) # e

PlacesSound(S) ==
  /\ \A d \in Fds : (S.file[d].end # NoEnd) <=> (S.file[d].kind = "stream")
  /\ \A d \in Fds : \A i \in Places(S, d) : Place(S, d, i) # NoEnd =>
       S.end[Place(S, d, i)].state \in {"open", "shut"}
  /\ \A d, f \in Fds : \A i \in Places(S, d), j \in Places(S, f) :
       Place(S, d, i) # NoEnd /\ Place(S, f, j) = Place(S, d, i) => f = d /\ j = i

\* Whoever was told of the end of a stream has all of it, for good.
CountsSound(S) ==
  \A e \in Ends :
    /\ S.end[e].state = "none" => S.end[Peer(e)].state = "none"
    /\ S.end[e].delivered <= S.end[e].written
    /\ S.end[e].written <= S.end[e].delivered + SendRoom
    /\ S.end[Peer(e)].told =>
         /\ S.end[e].delivered = S.end[e].written
         /\ S.end[e].state \in {"shut", "closed", "reset"}

Good(S, H) == Sound(S, H) /\ PlacesSound(S) /\ CountsSound(S)

-----------------------------------------------------------------------------
(* Helpers of the model: least numbers and the two ends of a stream.       *)

\* Min() of numbers is one of them and the least: the lowest free descriptor
\* and the first fresh end are free and fresh.
LEMMA LeastNatural ==
  ASSUME NEW S \in SUBSET Nat, S # {}
  PROVE  Min(S) \in S /\ \A n \in S : Min(S) <= n
<1>. DEFINE R == OpToRel(<, Nat)
<1>1. \A i, j \in Nat : i < j => <<i, j>> \in R
  BY DEF OpToRel
<1>2. IsWellFoundedOn(R, Nat)
  BY NatLessThanWellFounded
<1>. HIDE DEF R
<1>3. PICK n \in S : \A m \in S : <<m, n>> \notin R
  BY <1>2, WFMin
<1>4. \A m \in S : n <= m
  <2>. SUFFICES ASSUME NEW m \in S PROVE n <= m
    OBVIOUS
  <2>1. ~(m < n)
    BY <1>1, <1>3
  <2>. QED
    BY <2>1
<1>. QED
  BY <1>4 DEF Min

LEMMA LowestFree ==
  ASSUME NEW S, FreeFds(S) # {}
  PROVE  LowestFd(S) \in Fds /\ S.file[LowestFd(S)].kind = "free"
<1>1. FreeFds(S) \in SUBSET Nat
  BY TransportAssumption DEF FreeFds, TransportAssumption
<1>2. LowestFd(S) \in FreeFds(S)
  BY <1>1, LeastNatural DEF LowestFd
<1>. QED
  BY <1>2 DEF FreeFds

\* Where two descriptors are free, one is left when the lowest is taken.
LEMMA AnotherFree ==
  ASSUME NEW S, Cardinality(FreeFds(S)) >= 2
  PROVE  FreeFds(S) # {} /\ \E d \in FreeFds(S) : d # LowestFd(S)
<1>1. FreeFds(S) # {}
  BY FS_EmptySet
<1>2. FreeFds(S) # {LowestFd(S)}
  BY FS_Singleton
<1>. QED
  BY <1>1, <1>2

LEMMA EndFacts ==
  /\ Ends \subseteq Nat \ {0}
  /\ \A e \in Ends : Peer(e) \in Ends /\ Peer(e) # e /\ Peer(Peer(e)) = e
  /\ NoEnd \notin Ends
BY TransportAssumption DEF TransportAssumption, Ends, Peer, NoEnd

LEMMA FdFacts == NoFd \notin Fds /\ NoEntry \notin Fds /\ Stale \notin Fds /\ NoPath \notin Paths
BY TransportAssumption DEF TransportAssumption, NoFd, NoEntry, Stale

LEMMA FreshIsEnd ==
  ASSUME NEW S, FreshEnds(S) # {}
  PROVE  FreshEnd(S) \in Ends /\ S.end[FreshEnd(S)].state = "none"
<1>1. FreshEnds(S) \in SUBSET Nat
  BY EndFacts DEF FreshEnds
<1>2. FreshEnd(S) \in FreshEnds(S)
  BY <1>1, LeastNatural DEF FreshEnd
<1>. QED
  BY <1>2 DEF FreshEnds

-----------------------------------------------------------------------------
(* What a call leaves alone: the files but those in D (the queue of a      *)
(* listening socket may change), the paths but those of descriptors in C,  *)
(* the transports but those in U, and the bytes of every stream.           *)

Alike(f, g) ==
  /\ g.kind = f.kind /\ g.end = f.end /\ g.nonblock = f.nonblock
  /\ g.own = f.own /\ g.asked = f.asked
  /\ f.kind # "listening" => g = f

SameBytes(S, T) ==
  \A e \in Ends :
    /\ T.end[e].written = S.end[e].written /\ T.end[e].delivered = S.end[e].delivered
    /\ T.end[e].told = S.end[e].told

Same(S, T, D, C, U) ==
  /\ \A d \in Fds \ D : Alike(S.file[d], T.file[d])
  /\ \A p \in Paths : S.path[p] \notin C => T.path[p] = S.path[p]
  /\ \A t \in Transports \ U : T.transport[t] = S.transport[t]
  /\ SameBytes(S, T)

LEMMA SameTwice ==
  ASSUME NEW R, NEW S, NEW T, NEW D, NEW C, NEW U, Same(R, S, D, C, U), Same(S, T, D, C, U)
  PROVE  Same(R, T, D, C, U)
<1>1. \A d \in Fds \ D : Alike(R.file[d], T.file[d])
  BY DEF Same, Alike
<1>2. \A p \in Paths : R.path[p] \notin C => T.path[p] = R.path[p]
  BY DEF Same
<1>3. \A t \in Transports \ U : T.transport[t] = R.transport[t]
  BY DEF Same
<1>4. SameBytes(R, T)
  BY DEF Same, SameBytes
<1>. QED
  BY <1>1, <1>2, <1>3, <1>4 DEF Same

LEMMA SameMore ==
  ASSUME NEW S, NEW T, NEW D, NEW C, NEW U, NEW E, NEW F, NEW V, Same(S, T, D, C, U),
         D \subseteq E, C \subseteq F, U \subseteq V
  PROVE  Same(S, T, E, F, V)
<1>1. \A d \in Fds \ E : Alike(S.file[d], T.file[d])
  BY DEF Same
<1>2. \A p \in Paths : S.path[p] \notin F => T.path[p] = S.path[p]
  BY DEF Same
<1>3. \A t \in Transports \ V : T.transport[t] = S.transport[t]
  BY DEF Same
<1>. QED
  BY <1>1, <1>2, <1>3 DEF Same

-----------------------------------------------------------------------------
(* The fields of a system, and what each operation of the kernel does.     *)

LEMMA SystemFields ==
  ASSUME NEW S \in Systems
  PROVE  /\ S.file \in [Fds -> Files] /\ S.end \in [Ends -> EndRecords]
         /\ S.path \in [Paths -> {NoEntry, Stale} \cup Fds]
         /\ S.transport \in [Transports -> Handles] /\ S.app \in SUBSET Fds
         /\ \A d \in Fds : /\ S.file[d].kind \in Kinds /\ S.file[d].end \in {NoEnd} \cup Ends
                           /\ S.file[d].nonblock \in BOOLEAN /\ S.file[d].queue \in Seq(Ends)
                           /\ S.file[d].own \in BOOLEAN /\ S.file[d].asked \in BOOLEAN
         /\ \A e \in Ends : /\ S.end[e].written \in Nat /\ S.end[e].delivered \in Nat
                            /\ S.end[e].state \in States /\ S.end[e].told \in BOOLEAN
         /\ \A t \in Transports : /\ S.transport[t].fd \in {NoFd} \cup Fds
                                  /\ S.transport[t].open \in BOOLEAN
                                  /\ S.transport[t].own \in BOOLEAN
BY DEF Systems, Files, EndRecords, Handles

\* A file as a call opens it.
IsNewFile(f, kind, end, own) ==
  /\ f.kind = kind /\ f.end = end /\ f.own = own
  /\ f.nonblock = FALSE /\ f.asked = FALSE /\ f.queue = << >>

LEMMA OpenFileEffect ==
  ASSUME NEW S \in Systems, NEW d \in Fds, NEW kind \in Kinds, NEW end \in {NoEnd} \cup Ends,
         NEW own \in BOOLEAN
  PROVE  LET T == OpenFile(S, d, kind, end, own)
         IN  /\ T \in Systems
             /\ IsNewFile(T.file[d], kind, end, own)
             /\ \A x \in Fds \ {d} : T.file[x] = S.file[x]
             /\ T.end = S.end /\ T.path = S.path /\ T.transport = S.transport /\ T.app = S.app
<1>. DEFINE f == [NoFile EXCEPT !.kind = kind, !.end = end, !.own = own]
<1>1. f \in Files
  <2>1. NoFile \in Files
    BY DEF NoFile, Files, Kinds
  <2>. QED
    BY <2>1 DEF Files
<1>2. IsNewFile(f, kind, end, own)
  BY DEF NoFile, IsNewFile
<1>3. OpenFile(S, d, kind, end, own) = [S EXCEPT !.file = [S.file EXCEPT ![d] = f]]
  BY DEF OpenFile, Systems
<1>. HIDE DEF f
<1>. QED
  BY <1>1, <1>2, <1>3 DEF Systems

\* A change of the states of some ends.
Restated(S, state) == [S EXCEPT !.end = [e \in Ends |-> [S.end[e] EXCEPT !.state = state[e]]]]

LEMMA RestatedEffect ==
  ASSUME NEW S \in Systems, NEW state \in [Ends -> States]
  PROVE  LET T == Restated(S, state)
         IN  /\ T \in Systems
             /\ T.file = S.file /\ T.path = S.path /\ T.transport = S.transport /\ T.app = S.app
             /\ SameBytes(S, T) /\ \A e \in Ends : T.end[e].state = state[e]
<1>. DEFINE end == [e \in Ends |-> [S.end[e] EXCEPT !.state = state[e]]]
            T == [S EXCEPT !.end = end]
<1>1. end \in [Ends -> EndRecords]
  BY DEF Systems, EndRecords
<1>2. \A e \in Ends : /\ end[e].written = S.end[e].written
                      /\ end[e].delivered = S.end[e].delivered
                      /\ end[e].told = S.end[e].told /\ end[e].state = state[e]
  BY DEF Systems, EndRecords
<1>3. Restated(S, state) = T
  BY DEF Restated
<1>. HIDE DEF end
<1>4. /\ T \in Systems /\ T.end = end
      /\ T.file = S.file /\ T.path = S.path /\ T.transport = S.transport /\ T.app = S.app
  BY <1>1 DEF Systems
<1>. QED
  BY <1>2, <1>3, <1>4 DEF SameBytes

LEMMA OpenEndsEffect ==
  ASSUME NEW S \in Systems, NEW e \in Ends
  PROVE  LET T == OpenEnds(S, e)
         IN  /\ T \in Systems
             /\ T.file = S.file /\ T.path = S.path /\ T.transport = S.transport /\ T.app = S.app
             /\ SameBytes(S, T)
             /\ \A x \in Ends : T.end[x].state =
                  IF x \in {e, Peer(e)} THEN "open" ELSE S.end[x].state
<1>. DEFINE state == [x \in Ends |-> IF x \in {e, Peer(e)} THEN "open" ELSE S.end[x].state]
<1>1. state \in [Ends -> States]
  BY SystemFields DEF States
<1>2. OpenEnds(S, e) = Restated(S, state)
  <2>. DEFINE once == [S.end EXCEPT ![e].state = "open"]
              twice == [once EXCEPT ![Peer(e)].state = "open"]
  <2>1. S.end \in [Ends -> EndRecords]
    BY SystemFields
  <2>2. OpenEnds(S, e) = [S EXCEPT !.end = twice]
    BY DEF OpenEnds, Systems
  <2>3. once = [x \in Ends |-> IF x = e THEN [S.end[x] EXCEPT !.state = "open"] ELSE S.end[x]]
    BY <2>1
  <2>4. twice = [x \in Ends |-> IF x = Peer(e) THEN [once[x] EXCEPT !.state = "open"] ELSE once[x]]
    BY <2>3
  <2>5. \A x \in Ends : /\ [S.end[x] EXCEPT !.state = S.end[x].state] = S.end[x]
    BY <2>1 DEF EndRecords
  <2>6. \A x \in Ends : twice[x] = [S.end[x] EXCEPT !.state = state[x]]
    BY <2>3, <2>4, <2>5, EndFacts
  <2>7. twice = [x \in Ends |-> [S.end[x] EXCEPT !.state = state[x]]]
    BY <2>4, <2>6
  <2>. HIDE DEF twice, state
  <2>. QED
    BY <2>2, <2>7 DEF Restated
<1>. QED
  BY <1>1, <1>2, RestatedEffect

LEMMA CloseEndsEffect ==
  ASSUME NEW S \in Systems, NEW es
  PROVE  LET T == CloseEnds(S, es)
         IN  /\ T \in Systems
             /\ T.file = S.file /\ T.path = S.path /\ T.transport = S.transport /\ T.app = S.app
             /\ SameBytes(S, T)
             /\ \A x \in Ends : T.end[x].state =
                  IF x \in es THEN AfterClose(S, x) ELSE S.end[x].state
<1>. DEFINE state == [x \in Ends |-> IF x \in es THEN AfterClose(S, x) ELSE S.end[x].state]
<1>1. state \in [Ends -> States]
  BY SystemFields DEF States, AfterClose
<1>2. CloseEnds(S, es) = Restated(S, state)
  BY DEF CloseEnds, Restated, Systems, EndRecords
<1>. QED
  BY <1>1, <1>2, RestatedEffect

Queued(f) == {f.queue[i] : i \in 1..Len(f.queue)}
Gone(f) == (Queued(f) \cup {f.end}) \ {NoEnd}

LEMMA CloseFileEffect ==
  ASSUME NEW S \in Systems, NEW d \in Fds
  PROVE  LET T == CloseFile(S, d)
         IN  /\ T \in Systems
             /\ T.file = [S.file EXCEPT ![d] = NoFile] /\ T.transport = S.transport
             /\ T.app = S.app
             /\ T.path = [p \in Paths |-> IF S.path[p] = d THEN Stale ELSE S.path[p]]
             /\ SameBytes(S, T)
             /\ \A x \in Ends : T.end[x].state =
                  IF x \in Gone(S.file[d]) THEN AfterClose(S, x) ELSE S.end[x].state
<1>. DEFINE C == CloseEnds(S, Gone(S.file[d]))
            path == [p \in Paths |-> IF S.path[p] = d THEN Stale ELSE S.path[p]]
            T == [C EXCEPT !.file = [C.file EXCEPT ![d] = NoFile], !.path = path]
<1>1. CloseFile(S, d) = [C EXCEPT !.file[d] = NoFile, !.path = path]
  BY DEF CloseFile, Gone, Queued
<1>2. /\ C \in Systems
      /\ C.file = S.file /\ C.path = S.path /\ C.transport = S.transport /\ C.app = S.app
      /\ SameBytes(S, C)
      /\ \A x \in Ends : C.end[x].state =
           IF x \in Gone(S.file[d]) THEN AfterClose(S, x) ELSE S.end[x].state
  BY CloseEndsEffect
<1>3. path \in [Paths -> {NoEntry, Stale} \cup Fds]
  BY SystemFields
<1>4. NoFile \in Files
  BY DEF NoFile, Files, Kinds
<1>. HIDE DEF C, path
<1>5. CloseFile(S, d) = T
  BY <1>1, <1>2 DEF Systems
<1>6. /\ T \in Systems /\ T.file = [C.file EXCEPT ![d] = NoFile] /\ T.path = path
      /\ T.end = C.end /\ T.transport = C.transport /\ T.app = C.app
  BY <1>2, <1>3, <1>4 DEF Systems
<1>. QED
  BY <1>2, <1>5, <1>6 DEF SameBytes, path

-----------------------------------------------------------------------------
(* Every operation of the kernel keeps the table good.                     *)

LEMMA GoodSystems == ASSUME NEW S, NEW H, Good(S, H) PROVE S \in Systems
BY DEF Good, Sound

\* What stands at a place of a file is an end, but for the files that are no
\* streams.
LEMMA PlaceIsEnd ==
  ASSUME NEW S \in Systems, NEW d \in Fds, NEW i \in Places(S, d)
  PROVE  /\ Place(S, d, i) \in {NoEnd} \cup Ends
         /\ i # 0 => Place(S, d, i) \in Ends /\ Place(S, d, i) # NoEnd
         /\ Len(S.file[d].queue) \in Nat /\ i \in Nat
<1>1. S.file[d].queue \in Seq(Ends) /\ S.file[d].end \in {NoEnd} \cup Ends
  BY SystemFields
<1>2. Len(S.file[d].queue) \in Nat /\ \A k \in 1..Len(S.file[d].queue) : S.file[d].queue[k] \in Ends
  BY <1>1
<1>. QED
  BY <1>1, <1>2, EndFacts DEF Places, Place

\* The ends that closing a file closes are the ones that stand in it.
LEMMA GonePlaces ==
  ASSUME NEW S \in Systems, NEW d \in Fds, NEW x \in Ends
  PROVE  x \in Gone(S.file[d]) <=> \E i \in Places(S, d) : Place(S, d, i) = x
<1>1. S.file[d].queue \in Seq(Ends) /\ Len(S.file[d].queue) \in Nat
  BY SystemFields
<1>2. x # NoEnd
  BY EndFacts
<1>3. ASSUME x \in Gone(S.file[d]) PROVE \E i \in Places(S, d) : Place(S, d, i) = x
  <2>1. CASE x = S.file[d].end
    <3>1. 0 \in Places(S, d) /\ Place(S, d, 0) = x
      BY <1>1, <2>1 DEF Places, Place
    <3>. QED
      BY <3>1
  <2>2. CASE x \in Queued(S.file[d])
    <3>1. PICK i \in 1..Len(S.file[d].queue) : S.file[d].queue[i] = x
      BY <2>2 DEF Queued
    <3>2. i \in Places(S, d) /\ Place(S, d, i) = x
      BY <1>1, <3>1 DEF Places, Place
    <3>. QED
      BY <3>2
  <2>. QED
    BY <1>3, <2>1, <2>2 DEF Gone
<1>4. ASSUME NEW i \in Places(S, d), Place(S, d, i) = x PROVE x \in Gone(S.file[d])
  <2>1. CASE i = 0
    BY <1>2, <1>4, <2>1 DEF Place, Gone
  <2>2. CASE i # 0
    <3>1. i \in 1..Len(S.file[d].queue) /\ S.file[d].queue[i] = x
      BY <1>1, <1>4, <2>2 DEF Places, Place
    <3>. QED
      BY <1>2, <3>1 DEF Gone, Queued
  <2>. QED
    BY <2>1, <2>2
<1>. QED
  BY <1>3, <1>4

\* Who holds what does not depend on the ends, the paths and the queues.
LEMMA SoundAlike ==
  ASSUME NEW S, NEW T \in Systems, NEW H, Sound(S, H), T.transport = S.transport, T.app = S.app,
         \A d \in Fds : /\ T.file[d].kind = S.file[d].kind /\ T.file[d].own = S.file[d].own
                        /\ T.file[d].nonblock = S.file[d].nonblock
                        /\ T.file[d].asked = S.file[d].asked
  PROVE  Sound(T, H)
<1>1. \A d \in Fds : (Live(T, d) <=> Live(S, d)) /\ (Ready(T, d) <=> Ready(S, d))
  BY DEF Live, Ready
<1>2. \A t \in Transports : FdOf(T, t) = FdOf(S, t)
  BY DEF FdOf
<1>3. \A d \in H \cup S.app : Live(T, d) /\ d \in Fds
  BY <1>1 DEF Sound, Live
<1>4. \A d \in S.app : Ready(T, d)
  BY <1>1, <1>3 DEF Sound
<1>5. \A t \in Transports : FdOf(T, t) # NoFd =>
        /\ Live(T, FdOf(T, t)) /\ Ready(T, FdOf(T, t)) /\ FdOf(T, t) \notin H
        /\ (FdOf(T, t) \in T.app) <=> ~T.transport[t].own
  BY <1>1, <1>2 DEF Sound, Live
<1>6. \A d \in Fds : Live(T, d) /\ T.file[d].own /\ d \notin H \cup T.app =>
        \E t \in Transports : FdOf(T, t) = d
  BY <1>1, <1>2 DEF Sound
<1>7. H \cap T.app = {}
  BY DEF Sound
<1>8. \A t, u \in Transports : t # u /\ FdOf(T, t) # NoFd => FdOf(T, u) # FdOf(T, t)
  BY <1>2 DEF Sound
<1>. QED
  BY <1>3, <1>4, <1>5, <1>6, <1>7, <1>8 DEF Sound

\* Where every end stands does not depend on anything but the files.
LEMMA PlacesAlike ==
  ASSUME NEW S, NEW T, PlacesSound(S),
         \A d \in Fds : /\ (T.file[d].kind = "stream") <=> (S.file[d].kind = "stream")
                        /\ T.file[d].end = S.file[d].end /\ T.file[d].queue = S.file[d].queue,
         \A d \in Fds : \A i \in Places(S, d) : Place(S, d, i) # NoEnd =>
            T.end[Place(S, d, i)].state \in {"open", "shut"}
  PROVE  PlacesSound(T) /\ \A x : Unused(S, x) <=> Unused(T, x)
<1>1. \A d \in Fds : Places(T, d) = Places(S, d) /\ \A i : Place(T, d, i) = Place(S, d, i)
  BY DEF Places, Place
<1>2. \A d \in Fds : (T.file[d].end # NoEnd) <=> (T.file[d].kind = "stream")
  BY DEF PlacesSound
<1>3. \A d \in Fds : \A i \in Places(T, d) : Place(T, d, i) # NoEnd =>
        T.end[Place(T, d, i)].state \in {"open", "shut"}
  BY <1>1 DEF PlacesSound
<1>4. \A d, f \in Fds : \A i \in Places(T, d), j \in Places(T, f) :
        Place(T, d, i) # NoEnd /\ Place(T, f, j) = Place(T, d, i) => f = d /\ j = i
  BY <1>1 DEF PlacesSound
<1>5. \A x : Unused(S, x) <=> Unused(T, x)
  BY <1>1 DEF Unused
<1>. QED
  BY <1>2, <1>3, <1>4, <1>5 DEF PlacesSound

\* A fresh stream is nobody's yet.
LEMMA OpenEndsGood ==
  ASSUME NEW S, NEW H, Good(S, H), NEW e \in Ends, S.end[e].state = "none"
  PROVE  LET T == OpenEnds(S, e)
         IN  /\ Good(T, H) /\ Same(S, T, {}, {}, {}) /\ T.file = S.file
             /\ T.transport = S.transport /\ T.app = S.app
             /\ Unused(T, e) /\ Unused(T, Peer(e))
             /\ T.end[e].state = "open" /\ T.end[Peer(e)].state = "open"
<1>. DEFINE T == OpenEnds(S, e)
<1>1. S \in Systems
  BY GoodSystems
<1>2. /\ T \in Systems
      /\ T.file = S.file /\ T.path = S.path /\ T.transport = S.transport /\ T.app = S.app
      /\ SameBytes(S, T)
      /\ \A x \in Ends : T.end[x].state = IF x \in {e, Peer(e)} THEN "open" ELSE S.end[x].state
  BY <1>1, OpenEndsEffect
<1>3. Peer(e) \in Ends /\ S.end[Peer(e)].state = "none"
  BY EndFacts DEF Good, CountsSound
<1>. HIDE DEF T
<1>4. Sound(T, H)
  BY <1>2, SoundAlike DEF Good
<1>5. \A d \in Fds : \A i \in Places(S, d) : Place(S, d, i) \in {NoEnd} \cup Ends
  BY <1>1, PlaceIsEnd
<1>6. Unused(S, e) /\ Unused(S, Peer(e))
  <2>1. \A d \in Fds : \A i \in Places(S, d) : Place(S, d, i) # NoEnd => S.end[Place(S, d, i)].state # "none"
    BY DEF Good, PlacesSound
  <2>. QED
    BY <1>3, <2>1, EndFacts DEF Unused
<1>7. \A d \in Fds : \A i \in Places(S, d) : Place(S, d, i) # NoEnd =>
        T.end[Place(S, d, i)].state = S.end[Place(S, d, i)].state
  BY <1>2, <1>5, <1>6 DEF Unused
<1>8. \A d \in Fds : \A i \in Places(S, d) :
        Place(S, d, i) # NoEnd => T.end[Place(S, d, i)].state \in {"open", "shut"}
  BY <1>7 DEF Good, PlacesSound
<1>10. PlacesSound(T) /\ \A x : Unused(S, x) <=> Unused(T, x)
  BY <1>2, <1>8, PlacesAlike DEF Good
<1>11. CountsSound(T)
  <2>. SUFFICES ASSUME NEW x \in Ends
                PROVE  /\ T.end[x].state = "none" => T.end[Peer(x)].state = "none"
                       /\ T.end[x].delivered <= T.end[x].written
                       /\ T.end[x].written <= T.end[x].delivered + SendRoom
                       /\ T.end[Peer(x)].told =>
                            /\ T.end[x].delivered = T.end[x].written
                            /\ T.end[x].state \in {"shut", "closed", "reset"}
    BY DEF CountsSound
  <2>1. Peer(x) \in Ends /\ Peer(Peer(x)) = x /\ Peer(Peer(e)) = e
    BY EndFacts
  <2>2. CASE x \in {e, Peer(e)}
    BY <1>2, <1>3, <2>1, <2>2 DEF CountsSound, Good, SameBytes
  <2>3. CASE x \notin {e, Peer(e)}
    BY <1>2, <2>1, <2>3 DEF CountsSound, Good, SameBytes
  <2>. QED
    BY <2>2, <2>3
<1>12. Same(S, T, {}, {}, {})
  BY <1>2 DEF Same, Alike
<1>. QED
  BY <1>2, <1>3, <1>4, <1>6, <1>10, <1>11, <1>12 DEF Good, T

Opened(S, T, H, d, kind, end, own) ==
  /\ Good(T, H \cup {d}) /\ Same(S, T, {d}, {}, {})
  /\ d \notin H \cup S.app /\ \A t \in Transports : FdOf(S, t) # d
  /\ IsNewFile(T.file[d], kind, end, own)
  /\ \A x \in Fds \ {d} : T.file[x] = S.file[x]
  /\ T.end = S.end /\ T.transport = S.transport /\ T.app = S.app
  /\ \A x : x # end /\ x # NoEnd /\ Unused(S, x) => Unused(T, x)

LEMMA OpenFileGood ==
  ASSUME NEW S, NEW H, Good(S, H), NEW d \in Fds, S.file[d].kind = "free",
         NEW kind \in Kinds \ {"free"}, NEW end \in {NoEnd} \cup Ends, NEW own \in BOOLEAN,
         (end # NoEnd) <=> (kind = "stream"),
         end # NoEnd => Unused(S, end) /\ S.end[end].state \in {"open", "shut"}
  PROVE  Opened(S, OpenFile(S, d, kind, end, own), H, d, kind, end, own)
<1>. DEFINE T == OpenFile(S, d, kind, end, own)
<1>1. S \in Systems /\ kind \in Kinds
  BY GoodSystems
<1>. HIDE DEF T
<1>2. /\ T \in Systems /\ \A x \in Fds \ {d} : T.file[x] = S.file[x]
      /\ T.end = S.end /\ T.path = S.path /\ T.transport = S.transport /\ T.app = S.app
  BY <1>1, OpenFileEffect DEF T
<1>10. IsNewFile(T.file[d], kind, end, own)
  BY <1>1, OpenFileEffect DEF T
<1>11. T.file[d].kind = kind
  BY <1>10 DEF IsNewFile
<1>12. T.file[d].end = end
  BY <1>10 DEF IsNewFile
<1>13. T.file[d].queue = << >>
  BY <1>10 DEF IsNewFile
<1>3. d \notin H \cup S.app /\ \A t \in Transports : FdOf(S, t) # d
  BY FdFacts DEF Good, Sound, Live
<1>4. Sound(T, H \cup {d})
  <2>1. \A x \in Fds \ {d} : (Live(T, x) <=> Live(S, x)) /\ (Ready(T, x) <=> Ready(S, x))
    BY <1>2 DEF Live, Ready
  <2>2. Live(T, d)
    BY <1>11 DEF Live
  <2>3. \A t \in Transports : FdOf(T, t) = FdOf(S, t)
    BY <1>2 DEF FdOf
  <2>4. \A x \in H \cup S.app : Live(S, x) /\ x \in Fds \ {d}
    BY <1>3 DEF Good, Sound, Live
  <2>5. \A x \in (H \cup {d}) \cup T.app : Live(T, x)
    BY <1>2, <2>1, <2>2, <2>4
  <2>6. \A x \in T.app : Ready(T, x)
    BY <1>2, <2>1, <2>4 DEF Good, Sound
  <2>7. \A t \in Transports : FdOf(T, t) # NoFd =>
          /\ Live(T, FdOf(T, t)) /\ Ready(T, FdOf(T, t)) /\ FdOf(T, t) \notin H \cup {d}
          /\ (FdOf(T, t) \in T.app) <=> ~T.transport[t].own
    BY <1>2, <1>3, <2>1, <2>3 DEF Good, Sound, Live
  <2>8. \A t, u \in Transports : t # u /\ FdOf(T, t) # NoFd => FdOf(T, u) # FdOf(T, t)
    BY <2>3 DEF Good, Sound
  <2>9. \A x \in Fds : Live(T, x) /\ T.file[x].own /\ x \notin (H \cup {d}) \cup T.app =>
          \E t \in Transports : FdOf(T, t) = x
    BY <1>2, <2>1, <2>3 DEF Good, Sound
  <2>10. (H \cup {d}) \cap T.app = {}
    BY <1>2, <1>3 DEF Good, Sound
  <2>. QED
    BY <1>2, <2>5, <2>6, <2>7, <2>8, <2>9, <2>10 DEF Sound
<1>5. /\ \A x \in Fds \ {d} : Places(T, x) = Places(S, x) /\ \A i : Place(T, x, i) = Place(S, x, i)
      /\ Places(T, d) = {0} /\ Place(T, d, 0) = end
  BY <1>2, <1>12, <1>13 DEF Places, Place
<1>6. PlacesSound(T)
  <2>1. \A x \in Fds : (T.file[x].end # NoEnd) <=> (T.file[x].kind = "stream")
    <3>1. (T.file[d].end # NoEnd) <=> (T.file[d].kind = "stream")
      BY <1>11, <1>12
    <3>. QED
      BY <1>2, <3>1 DEF Good, PlacesSound
  <2>2. \A x \in Fds : \A i \in Places(T, x) : Place(T, x, i) # NoEnd =>
          T.end[Place(T, x, i)].state \in {"open", "shut"}
    BY <1>2, <1>5 DEF Good, PlacesSound
  <2>3. ASSUME NEW x \in Fds, NEW y \in Fds, NEW i \in Places(T, x), NEW j \in Places(T, y),
               Place(T, x, i) # NoEnd, Place(T, y, j) = Place(T, x, i)
        PROVE  y = x /\ j = i
    <3>1. CASE x # d /\ y # d
      BY <1>5, <2>3, <3>1 DEF Good, PlacesSound
    <3>2. CASE x = d /\ y = d
      BY <1>5, <3>2
    <3>3. CASE x = d /\ y # d
      BY <1>5, <2>3, <3>3 DEF Unused
    <3>4. CASE x # d /\ y = d
      BY <1>5, <2>3, <3>4 DEF Unused
    <3>. QED
      BY <3>1, <3>2, <3>3, <3>4
  <2>. QED
    BY <2>1, <2>2, <2>3 DEF PlacesSound
<1>7. \A x : x # end /\ x # NoEnd /\ Unused(S, x) => Unused(T, x)
  BY <1>5 DEF Unused
<1>8. CountsSound(T)
  BY <1>2 DEF Good, CountsSound
<1>9. Same(S, T, {d}, {}, {})
  BY <1>2 DEF Same, Alike, SameBytes
<1>. QED
  BY <1>2, <1>3, <1>4, <1>6, <1>7, <1>8, <1>9, <1>10 DEF Good, T, Opened

\* A descriptor in somebody's hand may be changed by whoever holds it, as
\* long as it stays open and is not made a stream or unmade one.
LEMMA HeldFileGood ==
  ASSUME NEW S, NEW H, Good(S, H), NEW d \in H, NEW T \in Systems,
         \A x \in Fds \ {d} : T.file[x] = S.file[x],
         T.file[d].kind # "free", (T.file[d].kind = "stream") <=> (S.file[d].kind = "stream"),
         T.file[d].end = S.file[d].end, T.file[d].queue = S.file[d].queue,
         T.end = S.end, T.transport = S.transport, T.app = S.app
  PROVE  Good(T, H)
<1>1. d \in Fds /\ d \notin S.app /\ \A t \in Transports : FdOf(S, t) # d
  BY FdFacts DEF Good, Sound, Live
<1>2. Sound(T, H)
  <2>1. \A x \in Fds \ {d} : (Live(T, x) <=> Live(S, x)) /\ (Ready(T, x) <=> Ready(S, x))
    BY DEF Live, Ready
  <2>2. Live(T, d)
    BY <1>1 DEF Live
  <2>3. \A t \in Transports : FdOf(T, t) = FdOf(S, t)
    BY DEF FdOf
  <2>4. \A x \in H \cup T.app : Live(T, x)
    BY <2>1, <2>2 DEF Good, Sound, Live
  <2>5. \A x \in T.app : Ready(T, x)
    BY <1>1, <2>1 DEF Good, Sound, Live
  <2>6. \A t \in Transports : FdOf(T, t) # NoFd =>
          /\ Live(T, FdOf(T, t)) /\ Ready(T, FdOf(T, t)) /\ FdOf(T, t) \notin H
          /\ (FdOf(T, t) \in T.app) <=> ~T.transport[t].own
    BY <1>1, <2>1, <2>3 DEF Good, Sound, Live
  <2>7. \A t, u \in Transports : t # u /\ FdOf(T, t) # NoFd => FdOf(T, u) # FdOf(T, t)
    BY <2>3 DEF Good, Sound
  <2>8. \A x \in Fds : Live(T, x) /\ T.file[x].own /\ x \notin H \cup T.app =>
          \E t \in Transports : FdOf(T, t) = x
    BY <2>1, <2>3 DEF Good, Sound
  <2>9. H \cap T.app = {}
    BY DEF Good, Sound
  <2>. QED
    BY <2>4, <2>5, <2>6, <2>7, <2>8, <2>9 DEF Sound
<1>3. PlacesSound(T)
  <2>1. \A x \in Fds : /\ (T.file[x].kind = "stream") <=> (S.file[x].kind = "stream")
                       /\ T.file[x].end = S.file[x].end /\ T.file[x].queue = S.file[x].queue
    BY <1>1
  <2>2. \A x \in Fds : \A i \in Places(S, x) : Place(S, x, i) # NoEnd =>
          T.end[Place(S, x, i)].state \in {"open", "shut"}
    BY DEF Good, PlacesSound
  <2>. QED
    BY <2>1, <2>2, PlacesAlike DEF Good
<1>4. CountsSound(T)
  BY DEF Good, CountsSound
<1>. QED
  BY <1>2, <1>3, <1>4 DEF Good

\* set_non_blocking(), wherever the descriptor is.
ConfiguredAs(S, T, H, d) ==
  /\ Good(T, H) /\ Same(S, T, {d}, {}, {})
  /\ T.transport = S.transport /\ T.app = S.app /\ T.end = S.end /\ T.path = S.path
  /\ \A x \in Fds \ {d} : T.file[x] = S.file[x]
  /\ T.file[d].kind = S.file[d].kind /\ T.file[d].own = S.file[d].own
  /\ T.file[d].end = S.file[d].end
  /\ S.file[d].nonblock = S.file[d].asked => T.file[d].nonblock = T.file[d].asked
  /\ \A x : Unused(S, x) <=> Unused(T, x)

LEMMA ConfiguredGood ==
  ASSUME NEW S, NEW H, Good(S, H), NEW d \in Fds, S.file[d].kind # "free", NEW options \in Options,
         NEW outcome
  PROVE  ConfiguredAs(S, Configured(S, d, options, outcome), H, d)
<1>. DEFINE N == set_non_blocking(S, d)
            f == [S.file[d] EXCEPT !.nonblock = TRUE, !.asked = TRUE]
<1>1. S \in Systems
  BY GoodSystems
<1>2. f \in Files /\ f.kind = S.file[d].kind /\ f.end = S.file[d].end /\ f.own = S.file[d].own
      /\ f.queue = S.file[d].queue /\ f.nonblock = TRUE /\ f.asked = TRUE
  <2>1. S.file[d] \in Files
    BY <1>1, SystemFields
  <2>. QED
    BY <2>1 DEF Files
<1>3. N = [S EXCEPT !.file = [S.file EXCEPT ![d] = f]]
  BY <1>1 DEF set_non_blocking, Systems
<1>. HIDE DEF f
<1>4. /\ N \in Systems /\ N.file[d] = f /\ \A x \in Fds \ {d} : N.file[x] = S.file[x]
      /\ N.end = S.end /\ N.path = S.path /\ N.transport = S.transport /\ N.app = S.app
  BY <1>1, <1>2, <1>3 DEF Systems
<1>. HIDE DEF N
<1>5. Sound(N, H)
  <2>1. \A x \in Fds : (Live(N, x) <=> Live(S, x)) /\ (Ready(S, x) => Ready(N, x))
    BY <1>2, <1>4 DEF Live, Ready
  <2>2. \A t \in Transports : FdOf(N, t) = FdOf(S, t)
    BY <1>4 DEF FdOf
  <2>3. \A x \in H \cup S.app : Live(N, x) /\ x \in Fds
    BY <2>1 DEF Good, Sound, Live
  <2>4. \A x \in S.app : Ready(N, x)
    BY <2>1, <2>3 DEF Good, Sound
  <2>5. \A t \in Transports : FdOf(N, t) # NoFd =>
          /\ Live(N, FdOf(N, t)) /\ Ready(N, FdOf(N, t)) /\ FdOf(N, t) \notin H
          /\ (FdOf(N, t) \in N.app) <=> ~N.transport[t].own
    BY <1>4, <2>1, <2>2 DEF Good, Sound, Live
  <2>6. \A t, u \in Transports : t # u /\ FdOf(N, t) # NoFd => FdOf(N, u) # FdOf(N, t)
    BY <2>2 DEF Good, Sound
  <2>7. \A x \in Fds : Live(N, x) /\ N.file[x].own /\ x \notin H \cup N.app =>
          \E t \in Transports : FdOf(N, t) = x
    BY <1>2, <1>4, <2>1, <2>2 DEF Good, Sound
  <2>8. H \cap N.app = {}
    BY <1>4 DEF Good, Sound
  <2>. QED
    BY <1>4, <2>3, <2>4, <2>5, <2>6, <2>7, <2>8 DEF Sound
<1>6. PlacesSound(N) /\ \A x : Unused(S, x) <=> Unused(N, x)
  <2>1. \A x \in Fds : /\ (N.file[x].kind = "stream") <=> (S.file[x].kind = "stream")
                       /\ N.file[x].end = S.file[x].end /\ N.file[x].queue = S.file[x].queue
    BY <1>2, <1>4
  <2>2. \A x \in Fds : \A i \in Places(S, x) : Place(S, x, i) # NoEnd =>
          N.end[Place(S, x, i)].state \in {"open", "shut"}
    BY <1>4 DEF Good, PlacesSound
  <2>. QED
    BY <2>1, <2>2, PlacesAlike DEF Good
<1>7. CountsSound(N) /\ SameBytes(S, N) /\ SameBytes(S, S)
  BY <1>4 DEF Good, CountsSound, SameBytes
<1>8. Same(S, N, {d}, {}, {}) /\ Same(S, S, {d}, {}, {})
  BY <1>4, <1>7 DEF Same, Alike
<1>9. Good(N, H)
  BY <1>5, <1>6, <1>7 DEF Good
<1>10. CASE options.nonblock /\ outcome # "mode"
  BY <1>2, <1>4, <1>6, <1>8, <1>9, <1>10 DEF Configured, N, ConfiguredAs
<1>11. CASE ~(options.nonblock /\ outcome # "mode")
  BY <1>8, <1>11 DEF Configured, ConfiguredAs
<1>. QED
  BY <1>10, <1>11

\* A client's stream waits in the queue of a listening socket.
LEMMA EnqueueGood ==
  ASSUME NEW S, NEW H, Good(S, H), NEW d \in Fds, S.file[d].kind = "listening",
         NEW e \in Ends, S.end[e].state = "none"
  PROVE  LET T == Enqueue(S, d, e)
         IN  /\ Good(T, H) /\ Same(S, T, {}, {}, {})
             /\ T.transport = S.transport /\ T.app = S.app
             /\ Unused(T, e) /\ T.end[e].state = "open"
<1>. DEFINE O == OpenEnds(S, e)
            queue == Append(O.file[d].queue, Peer(e))
            f == [O.file[d] EXCEPT !.queue = queue]
            T == Enqueue(S, d, e)
<1>1. /\ Good(O, H) /\ Same(S, O, {}, {}, {}) /\ O.file = S.file
      /\ O.transport = S.transport /\ O.app = S.app
      /\ Unused(O, e) /\ Unused(O, Peer(e))
      /\ O.end[e].state = "open" /\ O.end[Peer(e)].state = "open"
  BY OpenEndsGood
<1>2. Peer(e) \in Ends /\ Peer(e) # e /\ Peer(e) # NoEnd /\ e # NoEnd
  BY EndFacts
<1>. HIDE DEF O
<1>3. O \in Systems /\ O.file[d] \in Files /\ O.file[d].queue \in Seq(Ends)
  BY <1>1, GoodSystems, SystemFields
<1>4. /\ queue \in Seq(Ends) /\ Len(queue) = Len(O.file[d].queue) + 1
      /\ \A i \in 1..Len(O.file[d].queue) : queue[i] = O.file[d].queue[i]
      /\ queue[Len(O.file[d].queue) + 1] = Peer(e) /\ Len(O.file[d].queue) \in Nat
  BY <1>2, <1>3, SMTT(30)
<1>. HIDE DEF queue
<1>5. /\ f \in Files /\ f.kind = O.file[d].kind /\ f.end = O.file[d].end /\ f.own = O.file[d].own
      /\ f.nonblock = O.file[d].nonblock /\ f.asked = O.file[d].asked /\ f.queue = queue
  BY <1>3, <1>4 DEF Files
<1>6. T = [O EXCEPT !.file = [O.file EXCEPT ![d] = f]]
  BY <1>3 DEF Enqueue, O, queue, Systems
<1>. HIDE DEF f
<1>7. /\ T \in Systems /\ T.file[d] = f /\ \A x \in Fds \ {d} : T.file[x] = O.file[x]
      /\ T.end = O.end /\ T.path = O.path /\ T.transport = O.transport /\ T.app = O.app
  BY <1>3, <1>5, <1>6 DEF Systems
<1>. HIDE DEF T
<1>8. Sound(T, H)
  <2>1. \A x \in Fds : /\ T.file[x].kind = O.file[x].kind /\ T.file[x].own = O.file[x].own
                       /\ T.file[x].nonblock = O.file[x].nonblock
                       /\ T.file[x].asked = O.file[x].asked
    BY <1>5, <1>7
  <2>. QED
    BY <1>1, <1>7, <2>1, SoundAlike DEF Good
<1>9. \A x \in Fds \ {d} : Places(T, x) = Places(O, x) /\ \A i : Place(T, x, i) = Place(O, x, i)
  BY <1>7 DEF Places, Place
<1>10. \A i \in Places(T, d) : /\ i # Len(O.file[d].queue) + 1 => i \in Places(O, d) /\ Place(T, d, i) = Place(O, d, i)
                               /\ i = Len(O.file[d].queue) + 1 => Place(T, d, i) = Peer(e)
  <2>. DEFINE n == Len(O.file[d].queue)
  <2>1. n \in Nat /\ Places(T, d) = 0..(n + 1) /\ Places(O, d) = 0..n
    BY <1>4, <1>5, <1>7 DEF Places
  <2>2. \A i \in Places(T, d) : Place(T, d, i) = IF i = 0 THEN O.file[d].end ELSE queue[i]
    BY <1>5, <1>7 DEF Place
  <2>3. \A i \in 1..n : queue[i] = O.file[d].queue[i]
    BY <1>4
  <2>4. queue[n + 1] = Peer(e)
    BY <1>4
  <2>. HIDE DEF n
  <2>5. \A i \in Places(T, d) : i # n + 1 => i \in Places(O, d) /\ (i # 0 => i \in 1..n)
    BY <2>1
  <2>6. \A i \in Places(T, d) : i # n + 1 => i \in Places(O, d) /\ Place(T, d, i) = Place(O, d, i)
    BY <2>2, <2>3, <2>5 DEF Place
  <2>7. \A i \in Places(T, d) : i = n + 1 => Place(T, d, i) = Peer(e)
    BY <2>1, <2>2, <2>4
  <2>. QED
    BY <2>6, <2>7 DEF n
<1>11. PlacesSound(T)
  <2>1. \A x \in Fds : (T.file[x].end # NoEnd) <=> (T.file[x].kind = "stream")
    BY <1>1, <1>5, <1>7 DEF Good, PlacesSound
  <2>2. \A x \in Fds : \A i \in Places(T, x) : Place(T, x, i) # NoEnd =>
          T.end[Place(T, x, i)].state \in {"open", "shut"}
    BY <1>1, <1>7, <1>9, <1>10 DEF Good, PlacesSound
  <2>3. ASSUME NEW x \in Fds, NEW y \in Fds, NEW i \in Places(T, x), NEW j \in Places(T, y),
               Place(T, x, i) # NoEnd, Place(T, y, j) = Place(T, x, i)
        PROVE  y = x /\ j = i
    <3>. DEFINE last == Len(O.file[d].queue) + 1
    <3>1. (x # d \/ i # last) => i \in Places(O, x) /\ Place(T, x, i) = Place(O, x, i)
      BY <1>9, <1>10
    <3>2. (y # d \/ j # last) => j \in Places(O, y) /\ Place(T, y, j) = Place(O, y, j)
      BY <1>9, <1>10
    <3>3. (x = d /\ i = last => Place(T, x, i) = Peer(e)) /\ (y = d /\ j = last => Place(T, y, j) = Peer(e))
      BY <1>10
    <3>. HIDE DEF last
    <3>4. CASE (x # d \/ i # last) /\ (y # d \/ j # last)
      BY <1>1, <2>3, <3>1, <3>2, <3>4 DEF Good, PlacesSound
    <3>5. CASE (x # d \/ i # last) /\ ~(y # d \/ j # last)
      BY <1>1, <2>3, <3>1, <3>3, <3>5 DEF Unused
    <3>6. CASE ~(x # d \/ i # last) /\ (y # d \/ j # last)
      BY <1>1, <2>3, <3>2, <3>3, <3>6 DEF Unused
    <3>7. CASE ~(x # d \/ i # last) /\ ~(y # d \/ j # last)
      BY <3>7
    <3>. QED
      BY <3>4, <3>5, <3>6, <3>7
  <2>. QED
    BY <2>1, <2>2, <2>3 DEF PlacesSound
<1>12. Unused(T, e)
  BY <1>1, <1>2, <1>9, <1>10 DEF Unused
<1>13. CountsSound(T)
  BY <1>1, <1>7 DEF Good, CountsSound
<1>14. Same(S, T, {}, {}, {})
  <2>1. \A x \in Fds : Alike(S.file[x], T.file[x])
    BY <1>1, <1>5, <1>7 DEF Alike
  <2>2. SameBytes(S, T) /\ \A p \in Paths : T.path[p] = S.path[p]
    BY <1>1, <1>7 DEF Same, SameBytes
  <2>. QED
    BY <1>1, <1>7, <2>1, <2>2 DEF Same
<1>. QED
  BY <1>1, <1>7, <1>8, <1>11, <1>12, <1>13, <1>14 DEF Good, T

\* accept() takes the stream that waited longest: nobody has it meanwhile.
LEMMA DequeueGood ==
  ASSUME NEW S, NEW H, Good(S, H), NEW d \in Fds, S.file[d].kind = "listening",
         S.file[d].queue # << >>
  PROVE  LET T == [S EXCEPT !.file[d].queue = Tail(@)]
             x == Head(S.file[d].queue)
         IN  /\ Good(T, H) /\ Same(S, T, {}, {}, {})
             /\ T.transport = S.transport /\ T.app = S.app
             /\ x \in Ends /\ Unused(T, x) /\ T.end[x].state \in {"open", "shut"}
<1>. DEFINE old == S.file[d].queue
            queue == Tail(old)
            f == [S.file[d] EXCEPT !.queue = queue]
            T == [S EXCEPT !.file[d].queue = Tail(@)]
            x == Head(old)
<1>1. S \in Systems /\ S.file[d] \in Files /\ old \in Seq(Ends)
  BY GoodSystems, SystemFields
<1>2. /\ queue \in Seq(Ends) /\ Len(queue) = Len(old) - 1 /\ Len(old) \in Nat /\ Len(old) # 0
      /\ \A i \in 1..Len(queue) : queue[i] = old[i + 1]
      /\ x = old[1] /\ x \in Ends
  BY <1>1
<1>3. x # NoEnd
  BY <1>2, EndFacts
<1>. HIDE DEF queue
<1>4. /\ f \in Files /\ f.kind = S.file[d].kind /\ f.end = S.file[d].end /\ f.own = S.file[d].own
      /\ f.nonblock = S.file[d].nonblock /\ f.asked = S.file[d].asked /\ f.queue = queue
  BY <1>1, <1>2 DEF Files
<1>5. T = [S EXCEPT !.file = [S.file EXCEPT ![d] = f]]
  BY <1>1 DEF queue, Systems
<1>. HIDE DEF f
<1>6. /\ T \in Systems /\ T.file[d] = f /\ \A y \in Fds \ {d} : T.file[y] = S.file[y]
      /\ T.end = S.end /\ T.path = S.path /\ T.transport = S.transport /\ T.app = S.app
  BY <1>1, <1>4, <1>5 DEF Systems
<1>. HIDE DEF T
<1>7. Sound(T, H)
  <2>1. \A y \in Fds : /\ T.file[y].kind = S.file[y].kind /\ T.file[y].own = S.file[y].own
                       /\ T.file[y].nonblock = S.file[y].nonblock
                       /\ T.file[y].asked = S.file[y].asked
    BY <1>4, <1>6
  <2>. QED
    BY <1>6, <2>1, SoundAlike DEF Good
<1>. DEFINE was(y, i) == IF y = d /\ i # 0 THEN i + 1 ELSE i
<1>8. \A y \in Fds : \A i \in Places(T, y) : was(y, i) \in Places(S, y) /\ Place(T, y, i) = Place(S, y, was(y, i))
  <2>1. \A y \in Fds \ {d} : Places(T, y) = Places(S, y) /\ \A i : Place(T, y, i) = Place(S, y, i)
    BY <1>6 DEF Places, Place
  <2>2. \A i \in Places(T, d) : was(d, i) \in Places(S, d) /\ Place(T, d, i) = Place(S, d, was(d, i))
    BY <1>2, <1>4, <1>6 DEF Places, Place
  <2>. QED
    BY <2>1, <2>2
<1>9. 1 \in Places(S, d) /\ Place(S, d, 1) = x
  BY <1>2 DEF Places, Place
<1>10. \A y \in Fds : \A i \in Places(T, y) : i \in Nat /\ (y = d => was(y, i) # 1)
  BY <1>6, SystemFields DEF Places
<1>11. PlacesSound(T)
  <2>1. \A y \in Fds : (T.file[y].end # NoEnd) <=> (T.file[y].kind = "stream")
    BY <1>4, <1>6 DEF Good, PlacesSound
  <2>2. \A y \in Fds : \A i \in Places(T, y) : Place(T, y, i) # NoEnd =>
          T.end[Place(T, y, i)].state \in {"open", "shut"}
    BY <1>6, <1>8 DEF Good, PlacesSound
  <2>3. ASSUME NEW y \in Fds, NEW z \in Fds, NEW i \in Places(T, y), NEW j \in Places(T, z),
               Place(T, y, i) # NoEnd, Place(T, z, j) = Place(T, y, i)
        PROVE  z = y /\ j = i
    <3>1. z = y /\ was(z, j) = was(y, i)
      BY <1>8, <2>3 DEF Good, PlacesSound
    <3>. QED
      BY <1>10, <3>1
  <2>. QED
    BY <2>1, <2>2, <2>3 DEF PlacesSound
<1>12. Unused(T, x)
  <2>. SUFFICES ASSUME NEW y \in Fds, NEW i \in Places(T, y), Place(T, y, i) = x PROVE FALSE
    BY DEF Unused
  <2>1. y = d /\ was(y, i) = 1
    BY <1>3, <1>8, <1>9 DEF Good, PlacesSound
  <2>. QED
    BY <1>10, <2>1
<1>13. T.end[x].state \in {"open", "shut"}
  BY <1>3, <1>6, <1>9 DEF Good, PlacesSound
<1>14. CountsSound(T)
  BY <1>6 DEF Good, CountsSound
<1>15. Same(S, T, {}, {}, {})
  <2>1. \A y \in Fds : Alike(S.file[y], T.file[y])
    BY <1>4, <1>6 DEF Alike
  <2>. QED
    BY <1>6, <2>1 DEF Same, SameBytes
<1>. QED
  BY <1>2, <1>6, <1>7, <1>11, <1>12, <1>13, <1>14, <1>15 DEF Good, T

\* connect() got through: the socket has one end of a fresh stream.
LEMMA EstablishGood ==
  ASSUME NEW S, NEW H, Good(S, H), NEW d \in H, S.file[d].kind # "stream", FreshEnds(S) # {}
  PROVE  LET T == Establish(S, d)
         IN  /\ Good(T, H) /\ Same(S, T, {d}, {}, {})
             /\ T.transport = S.transport /\ T.app = S.app
             /\ T.file[d].kind = "stream" /\ T.file[d].own = S.file[d].own
             /\ T.file[d].asked = S.file[d].asked /\ T.file[d].nonblock = S.file[d].nonblock
<1>. DEFINE e == FreshEnd(S)
            O == OpenEnds(S, e)
            f == [O.file[d] EXCEPT !.kind = "stream", !.end = e]
            T == [O EXCEPT !.file[d].kind = "stream", !.file[d].end = e]
<1>1. e \in Ends /\ S.end[e].state = "none"
  BY FreshIsEnd
<1>2. /\ Good(O, H) /\ Same(S, O, {}, {}, {}) /\ O.file = S.file
      /\ O.transport = S.transport /\ O.app = S.app
      /\ Unused(O, e) /\ O.end[e].state = "open"
  BY <1>1, OpenEndsGood
<1>. HIDE DEF e, O
<1>3. O \in Systems /\ d \in Fds /\ d \notin S.app /\ \A t \in Transports : FdOf(S, t) # d
  BY <1>2, FdFacts, GoodSystems DEF Good, Sound, Live
<1>4. O.file[d] \in Files /\ e # NoEnd
  BY <1>1, <1>3, EndFacts, SystemFields
<1>5. /\ f \in Files /\ f.kind = "stream" /\ f.end = e /\ f.own = S.file[d].own
      /\ f.nonblock = S.file[d].nonblock /\ f.asked = S.file[d].asked
      /\ f.queue = S.file[d].queue
  BY <1>1, <1>2, <1>4 DEF Files, Kinds
<1>6. T = [O EXCEPT !.file = [O.file EXCEPT ![d] = f]]
  BY <1>3, <1>4 DEF Systems
<1>. HIDE DEF f, T
<1>7. /\ T \in Systems /\ T.file[d] = f /\ \A x \in Fds \ {d} : T.file[x] = O.file[x]
      /\ T.end = O.end /\ T.path = O.path /\ T.transport = O.transport /\ T.app = O.app
  BY <1>3, <1>5, <1>6 DEF Systems
<1>8. Sound(T, H)
  <2>1. \A x \in Fds \ {d} : (Live(T, x) <=> Live(S, x)) /\ (Ready(T, x) <=> Ready(S, x))
    BY <1>2, <1>7 DEF Live, Ready
  <2>2. Live(T, d)
    BY <1>3, <1>5, <1>7 DEF Live
  <2>3. \A t \in Transports : FdOf(T, t) = FdOf(S, t)
    BY <1>2, <1>7 DEF FdOf
  <2>4. \A x \in H \cup T.app : Live(T, x)
    BY <1>2, <1>7, <2>1, <2>2 DEF Good, Sound, Live
  <2>5. \A x \in T.app : Ready(T, x)
    BY <1>2, <1>3, <1>7, <2>1 DEF Good, Sound, Live
  <2>6. \A t \in Transports : FdOf(T, t) # NoFd =>
          /\ Live(T, FdOf(T, t)) /\ Ready(T, FdOf(T, t)) /\ FdOf(T, t) \notin H
          /\ (FdOf(T, t) \in T.app) <=> ~T.transport[t].own
    BY <1>2, <1>3, <1>7, <2>1, <2>3 DEF Good, Sound, Live
  <2>7. \A t, u \in Transports : t # u /\ FdOf(T, t) # NoFd => FdOf(T, u) # FdOf(T, t)
    BY <2>3 DEF Good, Sound
  <2>8. \A x \in Fds : Live(T, x) /\ T.file[x].own /\ x \notin H \cup T.app =>
          \E t \in Transports : FdOf(T, t) = x
    BY <1>2, <1>7, <2>1, <2>3 DEF Good, Sound
  <2>9. H \cap T.app = {}
    BY <1>2, <1>7 DEF Good, Sound
  <2>. QED
    BY <1>7, <2>4, <2>5, <2>6, <2>7, <2>8, <2>9 DEF Sound
<1>9. /\ \A x \in Fds \ {d} : Places(T, x) = Places(O, x) /\ \A i : Place(T, x, i) = Place(O, x, i)
      /\ Places(T, d) = Places(O, d) /\ Place(T, d, 0) = e
      /\ \A i \in Places(T, d) : i # 0 => Place(T, d, i) = Place(O, d, i)
  BY <1>2, <1>5, <1>7 DEF Places, Place
<1>10. PlacesSound(T)
  <2>1. \A x \in Fds : (T.file[x].end # NoEnd) <=> (T.file[x].kind = "stream")
    BY <1>2, <1>4, <1>5, <1>7 DEF Good, PlacesSound
  <2>2. \A x \in Fds : \A i \in Places(T, x) : Place(T, x, i) # NoEnd =>
          T.end[Place(T, x, i)].state \in {"open", "shut"}
    BY <1>2, <1>7, <1>9 DEF Good, PlacesSound
  <2>3. ASSUME NEW x \in Fds, NEW y \in Fds, NEW i \in Places(T, x), NEW j \in Places(T, y),
               Place(T, x, i) # NoEnd, Place(T, y, j) = Place(T, x, i)
        PROVE  y = x /\ j = i
    <3>1. i \in Places(O, x) /\ j \in Places(O, y)
      BY <1>9
    <3>2. (x # d \/ i # 0) => Place(T, x, i) = Place(O, x, i)
      BY <1>9
    <3>3. (y # d \/ j # 0) => Place(T, y, j) = Place(O, y, j)
      BY <1>9
    <3>4. CASE (x # d \/ i # 0) /\ (y # d \/ j # 0)
      BY <1>2, <2>3, <3>1, <3>2, <3>3, <3>4 DEF Good, PlacesSound
    <3>5. CASE (x # d \/ i # 0) /\ ~(y # d \/ j # 0)
      BY <1>2, <1>9, <2>3, <3>1, <3>2, <3>5 DEF Unused
    <3>6. CASE ~(x # d \/ i # 0) /\ (y # d \/ j # 0)
      BY <1>2, <1>9, <2>3, <3>1, <3>3, <3>6 DEF Unused
    <3>7. CASE ~(x # d \/ i # 0) /\ ~(y # d \/ j # 0)
      BY <3>7
    <3>. QED
      BY <3>4, <3>5, <3>6, <3>7
  <2>. QED
    BY <2>1, <2>2, <2>3 DEF PlacesSound
<1>11. CountsSound(T)
  BY <1>2, <1>7 DEF Good, CountsSound
<1>12. Same(S, T, {d}, {}, {})
  <2>1. \A x \in Fds \ {d} : Alike(S.file[x], T.file[x])
    BY <1>2, <1>7 DEF Alike
  <2>2. SameBytes(S, T) /\ \A p \in Paths : T.path[p] = S.path[p]
    BY <1>2, <1>7 DEF Same, SameBytes
  <2>. QED
    BY <1>2, <1>7, <2>1, <2>2 DEF Same
<1>. QED
  BY <1>2, <1>5, <1>7, <1>8, <1>10, <1>11, <1>12 DEF Good, T, O, e, Establish

\* What stands in a system T that is S with d closed: no end that went with d
\* is anywhere else.
ClosedAs(S, T, d) ==
  /\ T.file[d] = NoFile /\ \A x \in Fds \ {d} : T.file[x] = S.file[x]
  /\ SameBytes(S, T)
  /\ \A x \in Ends : T.end[x].state =
       IF x \in Gone(S.file[d]) THEN AfterClose(S, x) ELSE S.end[x].state

LEMMA ClosedPlaces ==
  ASSUME NEW S, NEW T, NEW H, Good(S, H), NEW d \in Fds, ClosedAs(S, T, d)
  PROVE  PlacesSound(T) /\ CountsSound(T) /\ \A x : x # NoEnd /\ Unused(S, x) => Unused(T, x)
<1>1. S \in Systems
  BY GoodSystems
<1>2. /\ \A x \in Fds \ {d} : Places(T, x) = Places(S, x) /\ \A i : Place(T, x, i) = Place(S, x, i)
      /\ Places(T, d) = {0} /\ Place(T, d, 0) = NoEnd
      /\ T.file[d].kind = "free" /\ T.file[d].end = NoEnd
  BY DEF Places, Place, ClosedAs, NoFile
<1>3. \A x \in Fds \ {d} : \A i \in Places(S, x) : Place(S, x, i) # NoEnd =>
        /\ Place(S, x, i) \in Ends
        /\ T.end[Place(S, x, i)].state = S.end[Place(S, x, i)].state
  <2>. SUFFICES ASSUME NEW x \in Fds \ {d}, NEW i \in Places(S, x), Place(S, x, i) # NoEnd
                PROVE  /\ Place(S, x, i) \in Ends
                       /\ T.end[Place(S, x, i)].state = S.end[Place(S, x, i)].state
    OBVIOUS
  <2>1. Place(S, x, i) \in Ends
    BY <1>1, PlaceIsEnd
  <2>2. Place(S, x, i) \notin Gone(S.file[d])
    <3>. SUFFICES ASSUME Place(S, x, i) \in Gone(S.file[d]) PROVE FALSE
      OBVIOUS
    <3>1. PICK j \in Places(S, d) : Place(S, d, j) = Place(S, x, i)
      BY <1>1, <2>1, GonePlaces
    <3>. QED
      BY <3>1 DEF Good, PlacesSound
  <2>. QED
    BY <2>1, <2>2 DEF ClosedAs
<1>4. PlacesSound(T)
  <2>1. \A x \in Fds : (T.file[x].end # NoEnd) <=> (T.file[x].kind = "stream")
    BY <1>2 DEF Good, PlacesSound, ClosedAs
  <2>2. \A x \in Fds : \A i \in Places(T, x) : Place(T, x, i) # NoEnd =>
          T.end[Place(T, x, i)].state \in {"open", "shut"}
    BY <1>2, <1>3 DEF Good, PlacesSound
  <2>3. \A x, y \in Fds : \A i \in Places(T, x), j \in Places(T, y) :
          Place(T, x, i) # NoEnd /\ Place(T, y, j) = Place(T, x, i) => y = x /\ j = i
    BY <1>2 DEF Good, PlacesSound
  <2>. QED
    BY <2>1, <2>2, <2>3 DEF PlacesSound
<1>5. \A x : x # NoEnd /\ Unused(S, x) => Unused(T, x)
  BY <1>2 DEF Unused
<1>6. CountsSound(T)
  <2>. SUFFICES ASSUME NEW x \in Ends
                PROVE  /\ T.end[x].state = "none" => T.end[Peer(x)].state = "none"
                       /\ T.end[x].delivered <= T.end[x].written
                       /\ T.end[x].written <= T.end[x].delivered + SendRoom
                       /\ T.end[Peer(x)].told =>
                            /\ T.end[x].delivered = T.end[x].written
                            /\ T.end[x].state \in {"shut", "closed", "reset"}
    BY DEF CountsSound
  <2>1. Peer(x) \in Ends /\ Peer(Peer(x)) = x
    BY EndFacts
  <2>2. \A y \in Ends : y \in Gone(S.file[d]) => S.end[y].state \in {"open", "shut"}
    BY <1>1, GonePlaces, EndFacts DEF Good, PlacesSound
  <2>3. \A y \in Ends : y \in Gone(S.file[d]) => T.end[y].state \in {"closed", "reset"}
    BY DEF ClosedAs, AfterClose
  <2>4. \A y \in Ends : y \notin Gone(S.file[d]) => T.end[y].state = S.end[y].state
    BY DEF ClosedAs
  <2>5. T.end[x].state = "none" => T.end[Peer(x)].state = "none"
    BY <2>1, <2>2, <2>3, <2>4 DEF Good, CountsSound
  <2>6. /\ T.end[x].delivered <= T.end[x].written
        /\ T.end[x].written <= T.end[x].delivered + SendRoom
    BY DEF Good, CountsSound, ClosedAs, SameBytes
  <2>7. ASSUME T.end[Peer(x)].told
        PROVE  /\ T.end[x].delivered = T.end[x].written
               /\ T.end[x].state \in {"shut", "closed", "reset"}
    BY <2>1, <2>3, <2>4, <2>7 DEF Good, CountsSound, ClosedAs, SameBytes
  <2>. QED
    BY <2>5, <2>6, <2>7
<1>. QED
  BY <1>4, <1>5, <1>6

\* Closing a descriptor takes it out of the hand that held it, off the
\* application's list and out of the transport that had it.
LEMMA ReleaseGood ==
  ASSUME NEW S, NEW T \in Systems, NEW H, Good(S, H), NEW d \in Fds, ClosedAs(S, T, d),
         T.app = S.app \ {d},
         \A t \in Transports : /\ FdOf(S, t) = d => FdOf(T, t) = NoFd
                               /\ FdOf(S, t) # d => /\ FdOf(T, t) = FdOf(S, t)
                                                    /\ FdOf(S, t) # NoFd => T.transport[t].own = S.transport[t].own
  PROVE  Good(T, H \ {d}) /\ \A x : x # NoEnd /\ Unused(S, x) => Unused(T, x)
<1>1. \A x \in Fds \ {d} : (Live(T, x) <=> Live(S, x)) /\ (Ready(T, x) <=> Ready(S, x))
  BY DEF Live, Ready, ClosedAs
<1>2. ~Live(T, d) /\ d # NoFd
  BY FdFacts DEF Live, ClosedAs, NoFile
<1>3. Sound(T, H \ {d})
  <2>1. \A x \in (H \ {d}) \cup T.app : Live(T, x)
    BY <1>1 DEF Good, Sound, Live
  <2>2. \A x \in T.app : Ready(T, x)
    BY <1>1 DEF Good, Sound, Live
  <2>3. \A t \in Transports : FdOf(T, t) # NoFd => FdOf(T, t) = FdOf(S, t) /\ FdOf(S, t) # d
    OBVIOUS
  <2>4. \A t \in Transports : FdOf(T, t) # NoFd =>
          /\ Live(T, FdOf(T, t)) /\ Ready(T, FdOf(T, t)) /\ FdOf(T, t) \notin H \ {d}
          /\ (FdOf(T, t) \in T.app) <=> ~T.transport[t].own
    BY <1>1, <2>3 DEF Good, Sound, Live
  <2>5. \A t, u \in Transports : t # u /\ FdOf(T, t) # NoFd => FdOf(T, u) # FdOf(T, t)
    BY <2>3 DEF Good, Sound
  <2>6. \A x \in Fds : Live(T, x) /\ T.file[x].own /\ x \notin (H \ {d}) \cup T.app =>
          \E t \in Transports : FdOf(T, t) = x
    BY <1>1, <1>2 DEF Good, Sound, ClosedAs
  <2>7. (H \ {d}) \cap T.app = {}
    BY DEF Good, Sound
  <2>. QED
    BY <2>1, <2>2, <2>4, <2>5, <2>6, <2>7 DEF Sound
<1>. QED
  BY <1>3, ClosedPlaces DEF Good

-----------------------------------------------------------------------------
(* The operations of the transports.                                       *)

\* close_fd() of what a listener or a connect holds.
LEMMA CloseHeldGood ==
  ASSUME NEW S, NEW H, Good(S, H), NEW d \in H
  PROVE  LET T == close_fd(S, d)
         IN  /\ Good(T, H \ {d}) /\ Same(S, T, {d}, {d}, {})
             /\ T.transport = S.transport /\ T.app = S.app /\ ClosedAs(S, T, d)
             /\ T.path = [p \in Paths |-> IF S.path[p] = d THEN Stale ELSE S.path[p]]
<1>. DEFINE T == CloseFile(S, d)
<1>1. /\ S \in Systems /\ d \in Fds /\ d \notin S.app /\ d # NoFd
      /\ \A t \in Transports : FdOf(S, t) # d
  BY FdFacts, GoodSystems DEF Good, Sound, Live
<1>2. /\ T \in Systems
      /\ T.file = [S.file EXCEPT ![d] = NoFile] /\ T.transport = S.transport
      /\ T.app = S.app
      /\ T.path = [p \in Paths |-> IF S.path[p] = d THEN Stale ELSE S.path[p]]
      /\ SameBytes(S, T)
      /\ \A x \in Ends : T.end[x].state =
           IF x \in Gone(S.file[d]) THEN AfterClose(S, x) ELSE S.end[x].state
  BY <1>1, CloseFileEffect
<1>3. close_fd(S, d) = T
  BY <1>1 DEF close_fd
<1>. HIDE DEF T
<1>4. ClosedAs(S, T, d)
  BY <1>1, <1>2, SystemFields DEF ClosedAs
<1>5. \A t \in Transports : FdOf(T, t) = FdOf(S, t) /\ T.transport[t].own = S.transport[t].own
  BY <1>2 DEF FdOf
<1>6. T.app = S.app \ {d}
  BY <1>1, <1>2
<1>7. Good(T, H \ {d})
  BY <1>1, <1>2, <1>4, <1>5, <1>6, ReleaseGood
<1>8. Same(S, T, {d}, {d}, {})
  <2>1. \A x \in Fds \ {d} : Alike(S.file[x], T.file[x])
    BY <1>4 DEF ClosedAs, Alike
  <2>. QED
    BY <1>2, <2>1 DEF Same
<1>. QED
  BY <1>2, <1>3, <1>4, <1>7, <1>8

\* A transport that takes its socket: from the hand of the call that made
\* it, or from the application.
Offered(S, H, d, options) ==
  /\ d \in Fds /\ Ready(S, d) /\ \A u \in Transports : FdOf(S, u) # d
  /\ \/ d \in H /\ S.file[d].own = options.own
     \/ d \in S.app

KeptBy(S, T, t, d, options) ==
  FdOf(T, t) = d /\ T.transport[t].own = options.own /\ T.file[d].own = S.file[d].own

LEMMA AdoptGood ==
  ASSUME NEW S, NEW H, Good(S, H), NEW t \in Transports, FdOf(S, t) = NoFd, NEW d,
         NEW options \in Options, Offered(S, H, d, options), NEW outcome \in Outcomes
  PROVE  LET T == Adopt(S, t, d, options, outcome)
         IN  /\ Good(T, H \ {d}) /\ Same(S, T, {d}, {d}, {t})
             /\ FdOf(T, t) \in {NoFd, d}
             /\ outcome = "ok" => KeptBy(S, T, t, d, options)
             /\ \A x : x # NoEnd /\ Unused(S, x) => Unused(T, x)
<1>. DEFINE C == Configured(S, d, options, outcome)
            app == IF options.own THEN S.app \ {d} ELSE S.app \cup {d}
            T == Adopt(S, t, d, options, outcome)
<1>1. /\ d \in Fds /\ d # NoFd /\ S \in Systems /\ S.file[d].kind # "free"
      /\ options.own \in BOOLEAN
  BY FdFacts, GoodSystems DEF Offered, Ready, Options
<1>2. /\ Good(C, H) /\ Same(S, C, {d}, {}, {})
      /\ C.transport = S.transport /\ C.app = S.app /\ C.end = S.end /\ C.path = S.path
      /\ \A x \in Fds \ {d} : C.file[x] = S.file[x]
      /\ C.file[d].kind = S.file[d].kind /\ C.file[d].own = S.file[d].own
      /\ C.file[d].end = S.file[d].end
      /\ S.file[d].nonblock = S.file[d].asked => C.file[d].nonblock = C.file[d].asked
      /\ \A x : Unused(S, x) <=> Unused(C, x)
  BY <1>1, ConfiguredGood DEF ConfiguredAs
<1>. HIDE DEF C
<1>3. C \in Systems /\ Ready(C, d) /\ Live(C, d)
  BY <1>1, <1>2, GoodSystems DEF Ready, Offered, Live
<1>4. /\ \A u \in Transports : FdOf(C, u) = FdOf(S, u) /\ FdOf(C, u) # d
      /\ FdOf(C, t) = NoFd /\ d \in H \cup S.app
      /\ d \in H => d \notin S.app /\ S.file[d].own = options.own
  BY <1>2 DEF Offered, FdOf, Good, Sound
<1>5. ASSUME outcome = "ok"
      PROVE  /\ Good(T, H \ {d}) /\ FdOf(T, t) = d /\ T.transport[t].own = options.own
             /\ \A u \in Transports \ {t} : T.transport[u] = C.transport[u]
             /\ T.file = C.file /\ T.end = C.end /\ T.path = C.path
  <2>. DEFINE held == [fd |-> d, open |-> TRUE, own |-> options.own]
  <2>1. held \in Handles /\ held.fd = d /\ held.own = options.own
    BY <1>1 DEF Handles
  <2>2. T = [C EXCEPT !.transport = [C.transport EXCEPT ![t] = held], !.app = app]
    BY <1>3, <1>5 DEF Adopt, C, Systems
  <2>3. app \in SUBSET Fds
    BY <1>1, SystemFields
  <2>. HIDE DEF held, T, app
  <2>4. /\ T \in Systems /\ T.transport[t] = held
        /\ \A u \in Transports \ {t} : T.transport[u] = C.transport[u]
        /\ T.app = app /\ T.file = C.file /\ T.end = C.end /\ T.path = C.path
    BY <1>3, <2>1, <2>2, <2>3 DEF Systems
  <2>5. FdOf(T, t) = d /\ \A u \in Transports \ {t} : FdOf(T, u) = FdOf(C, u)
    BY <2>1, <2>4 DEF FdOf
  <2>6. \A x \in Fds : (Live(T, x) <=> Live(C, x)) /\ (Ready(T, x) <=> Ready(C, x))
    BY <2>4 DEF Live, Ready
  <2>7. T.app \ {d} = C.app \ {d} /\ (d \in T.app <=> ~options.own)
    BY <1>2, <2>4 DEF app
  <2>8. Sound(T, H \ {d})
    <3>1. \A x \in (H \ {d}) \cup T.app : Live(T, x)
      BY <1>2, <1>3, <2>6, <2>7 DEF Good, Sound, Live
    <3>2. \A x \in T.app : Ready(T, x)
      BY <1>2, <1>1, <1>3, <2>6, <2>7 DEF Good, Sound, Live
    <3>3. ASSUME NEW u \in Transports, FdOf(T, u) # NoFd
          PROVE  /\ Live(T, FdOf(T, u)) /\ Ready(T, FdOf(T, u)) /\ FdOf(T, u) \notin H \ {d}
                 /\ (FdOf(T, u) \in T.app) <=> ~T.transport[u].own
      <4>1. CASE u = t
        BY <1>1, <1>3, <2>1, <2>4, <2>5, <2>6, <2>7, <4>1
      <4>2. CASE u # t
        <5>1. FdOf(T, u) = FdOf(C, u) /\ FdOf(C, u) # d /\ T.transport[u].own = C.transport[u].own
          BY <1>4, <2>4, <2>5, <4>2
        <5>2. /\ Live(C, FdOf(C, u)) /\ Ready(C, FdOf(C, u)) /\ FdOf(C, u) \notin H
              /\ (FdOf(C, u) \in C.app) <=> ~C.transport[u].own
          BY <1>2, <3>3, <5>1 DEF Good, Sound
        <5>3. FdOf(C, u) \in Fds
          BY <5>2 DEF Live
        <5>. QED
          BY <2>6, <2>7, <5>1, <5>2, <5>3
      <4>. QED
        BY <4>1, <4>2
    <3>4. \A v, u \in Transports : v # u /\ FdOf(T, v) # NoFd => FdOf(T, u) # FdOf(T, v)
      BY <1>2, <1>4, <2>5 DEF Good, Sound
    <3>5. \A x \in Fds : Live(T, x) /\ T.file[x].own /\ x \notin (H \ {d}) \cup T.app =>
            \E u \in Transports : FdOf(T, u) = x
      <4>. SUFFICES ASSUME NEW x \in Fds, Live(T, x), T.file[x].own, x \notin (H \ {d}) \cup T.app
                    PROVE  \E u \in Transports : FdOf(T, u) = x
        OBVIOUS
      <4>1. CASE x = d
        BY <2>5, <4>1
      <4>2. CASE x # d
        <5>1. PICK u \in Transports : FdOf(C, u) = x
          BY <1>2, <2>4, <2>6, <2>7, <4>2 DEF Good, Sound
        <5>2. u # t
          BY <1>4, <5>1, FdFacts
        <5>. QED
          BY <2>5, <5>1, <5>2
      <4>. QED
        BY <4>1, <4>2
    <3>6. (H \ {d}) \cap T.app = {}
      BY <1>2, <2>7 DEF Good, Sound
    <3>. QED
      BY <2>4, <3>1, <3>2, <3>3, <3>4, <3>5, <3>6 DEF Sound
  <2>9. PlacesSound(T) /\ CountsSound(T)
    <3>1. \A x \in Fds : \A i \in Places(C, x) : Place(C, x, i) # NoEnd =>
            T.end[Place(C, x, i)].state \in {"open", "shut"}
      BY <1>2, <2>4 DEF Good, PlacesSound
    <3>2. PlacesSound(T)
      BY <1>2, <2>4, <3>1, PlacesAlike DEF Good
    <3>. QED
      BY <1>2, <2>4, <3>2 DEF Good, CountsSound
  <2>. QED
    BY <2>1, <2>4, <2>5, <2>8, <2>9 DEF Good
<1>6. ASSUME outcome # "ok", options.own
      PROVE  /\ Good(T, H \ {d}) /\ FdOf(T, t) = NoFd
             /\ \A u \in Transports \ {t} : T.transport[u] = C.transport[u]
             /\ ClosedAs(C, T, d)
             /\ T.path = [p \in Paths |-> IF C.path[p] = d THEN Stale ELSE C.path[p]]
             /\ \A x : x # NoEnd /\ Unused(C, x) => Unused(T, x)
  <2>. DEFINE K == CloseFile(C, d)
              held == [Empty EXCEPT !.own = TRUE]
  <2>1. /\ K \in Systems
        /\ K.file = [C.file EXCEPT ![d] = NoFile] /\ K.transport = C.transport
        /\ K.app = C.app
        /\ K.path = [p \in Paths |-> IF C.path[p] = d THEN Stale ELSE C.path[p]]
        /\ SameBytes(C, K)
        /\ \A x \in Ends : K.end[x].state =
             IF x \in Gone(C.file[d]) THEN AfterClose(C, x) ELSE C.end[x].state
    BY <1>1, <1>3, CloseFileEffect
  <2>2. held \in Handles /\ held.fd = NoFd
    BY DEF Empty, Handles
  <2>3. close_fd(C, d) = K
    BY <1>1 DEF close_fd
  <2>. HIDE DEF K, held
  <2>4. T = [K EXCEPT !.transport = [K.transport EXCEPT ![t] = held], !.app = K.app \ {d}]
    BY <1>6, <2>1, <2>3 DEF Adopt, C, held, Systems
  <2>5. K.app \ {d} \in SUBSET Fds
    BY <2>1, SystemFields
  <2>. HIDE DEF T
  <2>6. /\ T \in Systems /\ T.transport[t] = held
        /\ \A u \in Transports \ {t} : T.transport[u] = K.transport[u]
        /\ T.app = K.app \ {d} /\ T.file = K.file /\ T.end = K.end /\ T.path = K.path
    BY <2>1, <2>2, <2>4, <2>5 DEF Systems
  <2>7. ClosedAs(C, T, d)
    BY <1>1, <1>3, <2>1, <2>6, SystemFields DEF ClosedAs, SameBytes
  <2>8. FdOf(T, t) = NoFd /\ \A u \in Transports \ {t} : FdOf(T, u) = FdOf(C, u)
    BY <2>1, <2>2, <2>6 DEF FdOf
  <2>9. \A u \in Transports : /\ FdOf(C, u) = d => FdOf(T, u) = NoFd
                              /\ FdOf(C, u) # d => /\ FdOf(T, u) = FdOf(C, u)
                                                   /\ FdOf(C, u) # NoFd => T.transport[u].own = C.transport[u].own
    BY <1>4, <2>1, <2>6, <2>8
  <2>10. T.app = C.app \ {d}
    BY <2>1, <2>6
  <2>11. Good(T, H \ {d}) /\ \A x : x # NoEnd /\ Unused(C, x) => Unused(T, x)
    BY <1>1, <1>2, <2>6, <2>7, <2>9, <2>10, ReleaseGood
  <2>. QED
    BY <2>1, <2>6, <2>7, <2>8, <2>11
<1>7. ASSUME outcome # "ok", ~options.own
      PROVE  /\ Good(T, H \ {d}) /\ FdOf(T, t) = NoFd
             /\ \A u \in Transports \ {t} : T.transport[u] = C.transport[u]
             /\ T.file = C.file /\ T.end = C.end /\ T.path = C.path
  <2>1. Empty \in Handles /\ Empty.fd = NoFd
    BY DEF Empty, Handles
  <2>2. T = [C EXCEPT !.transport = [C.transport EXCEPT ![t] = Empty]]
    BY <1>3, <1>7 DEF Adopt, C, Systems
  <2>. HIDE DEF T
  <2>3. /\ T \in Systems /\ T.transport[t] = Empty
        /\ \A u \in Transports \ {t} : T.transport[u] = C.transport[u]
        /\ T.app = C.app /\ T.file = C.file /\ T.end = C.end /\ T.path = C.path
    BY <1>3, <2>1, <2>2 DEF Systems
  <2>4. \A u \in Transports : /\ FdOf(T, u) = FdOf(C, u)
                              /\ FdOf(C, u) # NoFd => T.transport[u].own = C.transport[u].own
    BY <1>4, <2>1, <2>3 DEF FdOf
  <2>5. \A x \in Fds : (Live(T, x) <=> Live(C, x)) /\ (Ready(T, x) <=> Ready(C, x))
    BY <2>3 DEF Live, Ready
  <2>6. Sound(T, H \ {d})
    <3>1. \A x \in (H \ {d}) \cup T.app : Live(T, x)
      BY <1>2, <2>3, <2>5 DEF Good, Sound, Live
    <3>2. \A x \in T.app : Ready(T, x)
      BY <1>2, <2>3, <2>5 DEF Good, Sound, Live
    <3>3. \A u \in Transports : FdOf(T, u) # NoFd =>
            /\ Live(T, FdOf(T, u)) /\ Ready(T, FdOf(T, u)) /\ FdOf(T, u) \notin H \ {d}
            /\ (FdOf(T, u) \in T.app) <=> ~T.transport[u].own
      BY <1>2, <2>3, <2>4, <2>5 DEF Good, Sound, Live
    <3>4. \A v, u \in Transports : v # u /\ FdOf(T, v) # NoFd => FdOf(T, u) # FdOf(T, v)
      BY <1>2, <2>4 DEF Good, Sound
    <3>5. \A x \in Fds : Live(T, x) /\ T.file[x].own /\ x \notin (H \ {d}) \cup T.app =>
            \E u \in Transports : FdOf(T, u) = x
      <4>. SUFFICES ASSUME NEW x \in Fds, Live(T, x), T.file[x].own, x \notin (H \ {d}) \cup T.app
                    PROVE  \E u \in Transports : FdOf(T, u) = x
        OBVIOUS
      <4>1. x # d
        BY <1>2, <1>4, <1>7, <2>3
      <4>. QED
        BY <1>2, <2>3, <2>4, <2>5, <4>1 DEF Good, Sound
    <3>6. (H \ {d}) \cap T.app = {}
      BY <1>2, <2>3 DEF Good, Sound
    <3>. QED
      BY <2>3, <3>1, <3>2, <3>3, <3>4, <3>5, <3>6 DEF Sound
  <2>7. PlacesSound(T) /\ CountsSound(T)
    <3>1. \A x \in Fds : \A i \in Places(C, x) : Place(C, x, i) # NoEnd =>
            T.end[Place(C, x, i)].state \in {"open", "shut"}
      BY <1>2, <2>3 DEF Good, PlacesSound
    <3>2. PlacesSound(T)
      BY <1>2, <2>3, <3>1, PlacesAlike DEF Good
    <3>. QED
      BY <1>2, <2>3, <3>2 DEF Good, CountsSound
  <2>. QED
    BY <2>1, <2>3, <2>6, <2>7 DEF Good, FdOf
<1>8. ASSUME T.file = C.file, T.end = C.end, T.path = C.path,
             \A u \in Transports \ {t} : T.transport[u] = C.transport[u]
      PROVE  Same(S, T, {d}, {d}, {t}) /\ \A x : Unused(S, x) => Unused(T, x)
  <2>1. Same(S, T, {d}, {d}, {t})
    BY <1>2, <1>8 DEF Same, Alike, SameBytes
  <2>2. \A x : Unused(C, x) <=> Unused(T, x)
    BY <1>8 DEF Unused, Places, Place
  <2>. QED
    BY <1>2, <2>1, <2>2
<1>9. CASE outcome = "ok"
  <2>1. FdOf(T, t) = d /\ T.transport[t].own = options.own
    BY <1>5, <1>9
  <2>. HIDE DEF T
  <2>2. /\ T.file = C.file /\ T.end = C.end /\ T.path = C.path
        /\ T.file[d].own = S.file[d].own
        /\ \A u \in Transports \ {t} : T.transport[u] = C.transport[u]
    BY <1>2, <1>5, <1>9
  <2>4. Same(S, T, {d}, {d}, {t}) /\ \A x : Unused(S, x) => Unused(T, x)
    BY <1>8, <2>2
  <2>3. Good(T, H \ {d})
    BY <1>5, <1>9
  <2>. QED
    BY <2>1, <2>2, <2>3, <2>4, <1>9 DEF T, KeptBy
<1>10. CASE outcome # "ok" /\ options.own
  <2>. HIDE DEF T
  <2>1. \A x \in Fds \ {d} : Alike(S.file[x], T.file[x])
    BY <1>2, <1>6, <1>10 DEF ClosedAs, Alike
  <2>2. SameBytes(S, T)
    BY <1>2, <1>6, <1>10 DEF ClosedAs, SameBytes
  <2>3. \A p \in Paths : S.path[p] \notin {d} => T.path[p] = S.path[p]
    BY <1>2, <1>6, <1>10
  <2>4. \A u \in Transports \ {t} : T.transport[u] = S.transport[u]
    BY <1>2, <1>6, <1>10
  <2>5. Same(S, T, {d}, {d}, {t})
    BY <2>1, <2>2, <2>3, <2>4 DEF Same
  <2>. QED
    BY <1>2, <1>6, <1>10, <2>5 DEF T
<1>11. CASE outcome # "ok" /\ ~options.own
  BY <1>7, <1>8, <1>11
<1>. QED
  BY <1>1, <1>9, <1>10, <1>11

\* close(): what the transport owns is closed, what it borrowed stays the
\* application's.
LEMMA CloseGood ==
  ASSUME NEW S, NEW H, Good(S, H), NEW t \in Transports
  PROVE  LET T == Close(S, t)
             d == FdOf(S, t)
         IN  /\ Good(T, H) /\ Same(S, T, {d} \ {NoFd}, {d} \ {NoFd}, {t})
             /\ FdOf(T, t) = NoFd /\ T.app = S.app
             /\ d \in Fds /\ S.transport[t].own => ClosedAs(S, T, d)
             /\ d \in Fds /\ ~S.transport[t].own => T.file = S.file
<1>. DEFINE T == Close(S, t)
            d == FdOf(S, t)
            held == S.transport[t]
            C == [S EXCEPT !.transport[t] =
                    IF held.fd = NoFd THEN [held EXCEPT !.open = FALSE] ELSE Empty]
            after == IF held.fd = NoFd THEN [held EXCEPT !.open = FALSE] ELSE Empty
<1>1. S \in Systems /\ held \in Handles /\ d = held.fd /\ held.own \in BOOLEAN /\ d \in {NoFd} \cup Fds
  BY GoodSystems, SystemFields DEF FdOf
<1>2. after \in Handles /\ after.fd = NoFd
  BY <1>1 DEF Handles, Empty
<1>3. C = [S EXCEPT !.transport = [S.transport EXCEPT ![t] = after]]
  BY <1>1 DEF Systems
<1>. HIDE DEF after, C
<1>4. /\ C \in Systems /\ C.transport[t] = after
      /\ \A u \in Transports \ {t} : C.transport[u] = S.transport[u]
      /\ C.app = S.app /\ C.file = S.file /\ C.end = S.end /\ C.path = S.path
  BY <1>1, <1>2, <1>3 DEF Systems
<1>5. T = IF held.own THEN close_fd(C, held.fd) ELSE C
  BY DEF Close, C
<1>6. FdOf(C, t) = NoFd /\ \A u \in Transports \ {t} : FdOf(C, u) = FdOf(S, u)
  BY <1>2, <1>4 DEF FdOf
<1>7. CASE d # NoFd /\ held.own
  <2>. DEFINE K == CloseFile(C, d)
  <2>1. d \in Fds /\ d \notin H /\ d \notin S.app
    BY <1>1, <1>7 DEF Good, Sound
  <2>2. /\ K \in Systems
        /\ K.file = [C.file EXCEPT ![d] = NoFile] /\ K.transport = C.transport
        /\ K.app = C.app
        /\ K.path = [p \in Paths |-> IF C.path[p] = d THEN Stale ELSE C.path[p]]
        /\ SameBytes(C, K)
        /\ \A x \in Ends : K.end[x].state =
             IF x \in Gone(C.file[d]) THEN AfterClose(C, x) ELSE C.end[x].state
    BY <1>4, <2>1, CloseFileEffect
  <2>3. T = K
    BY <1>1, <1>5, <1>7 DEF close_fd
  <2>. HIDE DEF K, T
  <2>4. \A x \in Ends : AfterClose(C, x) = AfterClose(S, x)
    BY <1>4 DEF AfterClose
  <2>5. ClosedAs(S, K, d)
    BY <1>1, <1>4, <2>1, <2>2, <2>4, SystemFields DEF ClosedAs, SameBytes
  <2>6. \A u \in Transports : FdOf(K, u) = FdOf(C, u)
    BY <2>2 DEF FdOf
  <2>7. \A u \in Transports \ {t} : FdOf(S, u) # d
    BY <1>7 DEF Good, Sound
  <2>8. \A u \in Transports : /\ FdOf(S, u) = d => FdOf(K, u) = NoFd
                              /\ FdOf(S, u) # d => /\ FdOf(K, u) = FdOf(S, u)
                                                   /\ FdOf(S, u) # NoFd => K.transport[u].own = S.transport[u].own
    BY <1>4, <1>6, <2>2, <2>6, <2>7
  <2>9. K.app = S.app \ {d} /\ H \ {d} = H /\ K.app = S.app
    BY <1>4, <2>1, <2>2
  <2>10. Good(K, H)
    BY <2>1, <2>2, <2>5, <2>8, <2>9, ReleaseGood
  <2>11. Same(S, K, {d}, {d}, {t})
    <3>1. \A x \in Fds \ {d} : Alike(S.file[x], K.file[x])
      BY <2>5 DEF ClosedAs, Alike
    <3>2. SameBytes(S, K)
      BY <2>5 DEF ClosedAs
    <3>3. \A p \in Paths : S.path[p] \notin {d} => K.path[p] = S.path[p]
      BY <1>4, <2>2
    <3>4. \A u \in Transports \ {t} : K.transport[u] = S.transport[u]
      BY <1>4, <2>2
    <3>. QED
      BY <3>1, <3>2, <3>3, <3>4 DEF Same
  <2>12. {d} \ {NoFd} = {d}
    BY <1>7
  <2>13. FdOf(K, t) = NoFd
    BY <1>6, <2>6
  <2>. HIDE DEF d
  <2>. QED
    BY <1>7, <2>3, <2>5, <2>9, <2>10, <2>11, <2>12, <2>13 DEF T, d
<1>8. CASE d = NoFd \/ ~held.own
  <2>1. T = C
    BY <1>1, <1>5, <1>8 DEF close_fd
  <2>2. \A x \in Fds : (Live(C, x) <=> Live(S, x)) /\ (Ready(C, x) <=> Ready(S, x))
    BY <1>4 DEF Live, Ready
  <2>3. d # NoFd => d \in S.app
    BY <1>8 DEF Good, Sound
  <2>4. Sound(C, H)
    <3>1. \A x \in H \cup C.app : Live(C, x)
      BY <1>4, <2>2 DEF Good, Sound, Live
    <3>2. \A x \in C.app : Ready(C, x)
      BY <1>4, <2>2 DEF Good, Sound, Live
    <3>3. \A u \in Transports : FdOf(C, u) # NoFd =>
            /\ Live(C, FdOf(C, u)) /\ Ready(C, FdOf(C, u)) /\ FdOf(C, u) \notin H
            /\ (FdOf(C, u) \in C.app) <=> ~C.transport[u].own
      BY <1>4, <1>6, <2>2 DEF Good, Sound, Live
    <3>4. \A v, u \in Transports : v # u /\ FdOf(C, v) # NoFd => FdOf(C, u) # FdOf(C, v)
      BY <1>6 DEF Good, Sound
    <3>5. \A x \in Fds : Live(C, x) /\ C.file[x].own /\ x \notin H \cup C.app =>
            \E u \in Transports : FdOf(C, u) = x
      <4>. SUFFICES ASSUME NEW x \in Fds, Live(C, x), C.file[x].own, x \notin H \cup C.app
                    PROVE  \E u \in Transports : FdOf(C, u) = x
        OBVIOUS
      <4>1. PICK u \in Transports : FdOf(S, u) = x
        BY <1>4, <2>2 DEF Good, Sound
      <4>2. u # t
        BY <1>4, <2>3, <4>1, FdFacts
      <4>. QED
        BY <1>6, <4>1, <4>2
    <3>6. H \cap C.app = {}
      BY <1>4 DEF Good, Sound
    <3>. QED
      BY <1>4, <3>1, <3>2, <3>3, <3>4, <3>5, <3>6 DEF Sound
  <2>5. PlacesSound(C) /\ CountsSound(C)
    <3>1. \A x \in Fds : \A i \in Places(S, x) : Place(S, x, i) # NoEnd =>
            C.end[Place(S, x, i)].state \in {"open", "shut"}
      BY <1>4 DEF Good, PlacesSound
    <3>2. PlacesSound(C)
      BY <1>4, <3>1, PlacesAlike DEF Good
    <3>. QED
      BY <1>4, <3>2 DEF Good, CountsSound
  <2>6. Same(S, C, {d} \ {NoFd}, {d} \ {NoFd}, {t})
    BY <1>4 DEF Same, Alike, SameBytes
  <2>7. ~(d \in Fds /\ held.own)
    BY <1>8, FdFacts
  <2>. HIDE DEF d, T
  <2>. QED
    BY <1>4, <1>6, <2>1, <2>4, <2>5, <2>6, <2>7 DEF Good, d, T
<1>. QED
  BY <1>7, <1>8

\* Move assignment, from one transport to another that holds nothing.
LEMMA MoveFromGood ==
  ASSUME NEW S, NEW H, Good(S, H), NEW t \in Transports, NEW other \in Transports, t # other,
         FdOf(S, t) = NoFd
  PROVE  LET T == move_from(S, t, other)
         IN  /\ Good(T, H) /\ Same(S, T, {}, {}, {t, other}) /\ T.file = S.file
             /\ FdOf(T, t) = FdOf(S, other) /\ FdOf(T, other) = NoFd
<1>. DEFINE T == move_from(S, t, other)
<1>1. S \in Systems /\ S.transport[other] \in Handles
  BY GoodSystems, SystemFields
<1>2. Empty \in Handles /\ Empty.fd = NoFd
  BY DEF Empty, Handles
<1>3. T = [S EXCEPT !.transport = [[S.transport EXCEPT ![t] = S.transport[other]] EXCEPT ![other] = Empty]]
  BY <1>1 DEF move_from, Systems
<1>. HIDE DEF T
<1>4. /\ T \in Systems /\ T.transport[t] = S.transport[other] /\ T.transport[other] = Empty
      /\ \A u \in Transports \ {t, other} : T.transport[u] = S.transport[u]
      /\ T.app = S.app /\ T.file = S.file /\ T.end = S.end /\ T.path = S.path
  BY <1>1, <1>2, <1>3 DEF Systems
<1>5. /\ FdOf(T, t) = FdOf(S, other) /\ FdOf(T, other) = NoFd
      /\ \A u \in Transports \ {t, other} : FdOf(T, u) = FdOf(S, u)
  BY <1>2, <1>4 DEF FdOf
<1>6. \A x \in Fds : (Live(T, x) <=> Live(S, x)) /\ (Ready(T, x) <=> Ready(S, x))
  BY <1>4 DEF Live, Ready
<1>7. Sound(T, H)
  <2>1. \A x \in H \cup T.app : Live(T, x)
    BY <1>4, <1>6 DEF Good, Sound, Live
  <2>2. \A x \in T.app : Ready(T, x)
    BY <1>4, <1>6 DEF Good, Sound, Live
  <2>3. ASSUME NEW u \in Transports, FdOf(T, u) # NoFd
        PROVE  /\ Live(T, FdOf(T, u)) /\ Ready(T, FdOf(T, u)) /\ FdOf(T, u) \notin H
               /\ (FdOf(T, u) \in T.app) <=> ~T.transport[u].own
    <3>1. PICK v \in Transports : FdOf(T, u) = FdOf(S, v) /\ T.transport[u].own = S.transport[v].own
      <4>1. CASE u = t
        BY <1>4, <1>5, <4>1
      <4>2. CASE u # t
        BY <1>4, <1>5, <2>3, <4>2
      <4>. QED
        BY <4>1, <4>2
    <3>2. /\ Live(S, FdOf(S, v)) /\ Ready(S, FdOf(S, v)) /\ FdOf(S, v) \notin H
          /\ (FdOf(S, v) \in S.app) <=> ~S.transport[v].own
      BY <2>3, <3>1 DEF Good, Sound
    <3>3. FdOf(S, v) \in Fds
      BY <3>2 DEF Live
    <3>. QED
      BY <1>4, <1>6, <3>1, <3>2, <3>3
  <2>4. \A v, u \in Transports : v # u /\ FdOf(T, v) # NoFd => FdOf(T, u) # FdOf(T, v)
    BY <1>5 DEF Good, Sound
  <2>5. \A x \in Fds : Live(T, x) /\ T.file[x].own /\ x \notin H \cup T.app =>
          \E u \in Transports : FdOf(T, u) = x
    <3>. SUFFICES ASSUME NEW x \in Fds, Live(T, x), T.file[x].own, x \notin H \cup T.app
                  PROVE  \E u \in Transports : FdOf(T, u) = x
      OBVIOUS
    <3>1. PICK u \in Transports : FdOf(S, u) = x
      BY <1>4, <1>6 DEF Good, Sound
    <3>2. u # t
      BY <3>1, FdFacts
    <3>. QED
      BY <1>5, <3>1, <3>2
  <2>6. H \cap T.app = {}
    BY <1>4 DEF Good, Sound
  <2>. QED
    BY <1>4, <2>1, <2>2, <2>3, <2>4, <2>5, <2>6 DEF Sound
<1>8. PlacesSound(T) /\ CountsSound(T)
  <2>1. \A x \in Fds : \A i \in Places(S, x) : Place(S, x, i) # NoEnd =>
          T.end[Place(S, x, i)].state \in {"open", "shut"}
    BY <1>4 DEF Good, PlacesSound
  <2>2. PlacesSound(T)
    BY <1>4, <2>1, PlacesAlike DEF Good
  <2>. QED
    BY <1>4, <2>2 DEF Good, CountsSound
<1>9. Same(S, T, {}, {}, {t, other})
  BY <1>4 DEF Same, Alike, SameBytes
<1>. QED
  BY <1>4, <1>5, <1>7, <1>8, <1>9 DEF Good, T

-----------------------------------------------------------------------------
(* The inductive invariant: who holds what between two steps.              *)

InHand == ({Fd(l) : l \in Listeners} \cup {connect.fd}) \ {NoFd}

\* A connect call holds its socket from the moment it is made, and has not
\* touched the transport that is to get it.
ConnectInv ==
  /\ Connecting("idle") => connect = NoConnect
  /\ (connect.fd # NoFd) <=> (connect.at \in {"start", "poll", "restore", "drop", "finish"})
  /\ ~Connecting("idle") => connect.t \in Transports /\ FdOf(sys, connect.t) = NoFd
  /\ connect.fd # NoFd =>
       LET f == sys.file[connect.fd]
       IN  /\ f.own = connect.options.own /\ ~f.asked
           /\ Connecting("start") => f.kind = "socket"
           /\ Connecting("drop") \/ Connecting("finish") => ~f.nonblock
           /\ Connecting("restore") /\ connect.ok => f.kind = "stream"
           /\ Connecting("finish") => f.kind = "stream"

GatherInv == gather # NoGather => gather.t \in Transports /\ FdOf(sys, gather.t) # NoFd

HasSocket == {"socket", "unlinked", "bound", "listening", "open"}

ListenerInv ==
  \A l \in Listeners :
    /\ At(l, "empty") => listener[l] = NoListener
    /\ At(l, "open") \/ At(l, "empty") \/ listener[l].path \in Paths
    /\ (Fd(l) # NoFd) <=> (listener[l].at \in HasSocket)
    /\ Fd(l) # NoFd => /\ Fd(l) # connect.fd
                       /\ sys.file[Fd(l)].kind \in {"socket", "bound", "listening"}
    /\ At(l, "listening") \/ At(l, "open") => sys.file[Fd(l)].kind = "listening"
    /\ \A k \in Listeners : k # l /\ Fd(l) # NoFd => Fd(k) # Fd(l)

\* A listener that is alone at its path has no rival there.
AloneInv ==
  \A l, k \in Listeners :
    alone[l] /\ listener[l].path # NoPath /\ k # l => listener[k].path # listener[l].path

Inv ==
  /\ ControlTypeOK /\ Good(sys, InHand)
  /\ ConnectInv /\ GatherInv /\ ReportsAreTrue
  /\ ListenerInv /\ AloneInv /\ PathsAreOwned

\* What a step may not do, and what it does to the pipes.
FinalStep ==
  \A t \in Transports :
    ~Fresh(t) /\ ~sys.transport[t].open =>
      LET d == sys.transport[t].fd
          e == sys.file[d].end
      IN  /\ sys'.end[e].written = sys.end[e].written
          /\ sys'.transport[t].fd = d => sys'.file[d] = sys.file[d]

PipeStep == \A e \in Ends : [Pipe(e)!Next]_(Pipe(e)!vars)

StepOK == Inv' /\ FinalStep /\ PipeStep

-----------------------------------------------------------------------------
(* What every step that leaves a part of the state alone keeps.            *)

LEMMA HandFacts ==
  ASSUME Inv
  PROVE  /\ sys \in Systems
         /\ \A l \in Listeners : Fd(l) \in {NoFd} \cup Fds /\ (Fd(l) # NoFd => Fd(l) \in InHand)
         /\ connect.fd \in {NoFd} \cup Fds /\ (connect.fd # NoFd => connect.fd \in InHand)
         /\ \A d \in InHand : d \in Fds /\ Live(sys, d) /\ d \notin sys.app
                              /\ \A t \in Transports : FdOf(sys, t) # d
<1>1. sys \in Systems
  BY GoodSystems DEF Inv
<1>2. \A l \in Listeners : Fd(l) \in {NoFd} \cup Fds
  BY DEF Inv, ControlTypeOK, ListenerRecords, Fd
<1>3. connect.fd \in {NoFd} \cup Fds
  BY DEF Inv, ControlTypeOK, ConnectRecords
<1>4. \A d \in InHand : d \in Fds /\ Live(sys, d) /\ d \notin sys.app
                        /\ \A t \in Transports : FdOf(sys, t) # d
  BY FdFacts DEF Inv, Good, Sound, Live
<1>. QED
  BY <1>1, <1>2, <1>3, <1>4 DEF InHand

\* The end of a transport's stream stands in its file, and only there.
LEMMA TransportEnd ==
  ASSUME Inv, NEW t \in Transports, FdOf(sys, t) # NoFd
  PROVE  /\ FdOf(sys, t) \in Fds /\ sys.file[FdOf(sys, t)].kind = "stream"
         /\ End(sys, t) = sys.file[FdOf(sys, t)].end
         /\ End(sys, t) \in Ends /\ sys.end[End(sys, t)].state \in {"open", "shut"}
         /\ \A u \in Transports : FdOf(sys, u) # NoFd /\ End(sys, u) = End(sys, t) => u = t
<1>. DEFINE d == FdOf(sys, t)
<1>1. sys \in Systems
  BY HandFacts
<1>2. \A u \in Transports : FdOf(sys, u) # NoFd =>
        /\ FdOf(sys, u) \in Fds /\ sys.file[FdOf(sys, u)].kind = "stream"
        /\ End(sys, u) = Place(sys, FdOf(sys, u), 0) /\ 0 \in Places(sys, FdOf(sys, u))
        /\ End(sys, u) # NoEnd
  <2>. SUFFICES ASSUME NEW u \in Transports, FdOf(sys, u) # NoFd
                PROVE  /\ FdOf(sys, u) \in Fds /\ sys.file[FdOf(sys, u)].kind = "stream"
                       /\ End(sys, u) = Place(sys, FdOf(sys, u), 0)
                       /\ 0 \in Places(sys, FdOf(sys, u)) /\ End(sys, u) # NoEnd
    OBVIOUS
  <2>1. FdOf(sys, u) \in Fds /\ sys.file[FdOf(sys, u)].kind = "stream"
    BY DEF Inv, Good, Sound, Live, Ready
  <2>2. Len(sys.file[FdOf(sys, u)].queue) \in Nat
    BY <1>1, <2>1, SystemFields
  <2>3. End(sys, u) = Place(sys, FdOf(sys, u), 0) /\ 0 \in Places(sys, FdOf(sys, u))
    BY <2>2 DEF End, FdOf, Place, Places
  <2>4. sys.file[FdOf(sys, u)].end # NoEnd
    BY <2>1 DEF Inv, Good, PlacesSound
  <2>. QED
    BY <2>1, <2>3, <2>4 DEF Place
<1>3. End(sys, t) \in Ends
  BY <1>1, <1>2, PlaceIsEnd
<1>4. sys.end[End(sys, t)].state \in {"open", "shut"}
  BY <1>2 DEF Inv, Good, PlacesSound
<1>5. ASSUME NEW u \in Transports, FdOf(sys, u) # NoFd, End(sys, u) = End(sys, t) PROVE u = t
  <2>1. FdOf(sys, u) = FdOf(sys, t)
    BY <1>2, <1>5 DEF Inv, Good, PlacesSound
  <2>. QED
    BY <2>1 DEF Inv, Good, Sound
<1>. QED
  BY <1>2, <1>3, <1>4, <1>5 DEF Place

LEMMA KeepConnect ==
  ASSUME Inv, connect' = connect, NEW D, NEW C, NEW U, Same(sys, sys', D, C, U),
         connect.fd # NoFd => connect.fd \notin D,
         connect.t \in U /\ ~Connecting("idle") => FdOf(sys', connect.t) = NoFd
  PROVE  ConnectInv'
<1>1. connect.fd # NoFd => connect.fd \in Fds \ D
  BY HandFacts
<1>2. connect.fd # NoFd => Alike(sys.file[connect.fd], sys'.file[connect.fd])
  BY <1>1 DEF Same
<1>3. ~Connecting("idle") => connect.t \in Transports /\ FdOf(sys', connect.t) = NoFd
  BY DEF Inv, ConnectInv, Same, FdOf
<1>. QED
  BY <1>2, <1>3 DEF Inv, ConnectInv, Alike, Connecting

LEMMA KeepGather ==
  ASSUME Inv, gather' = gather, reported' = reported, NEW D, NEW C, NEW U, Same(sys, sys', D, C, U),
         gather # NoGather => gather.t \notin U /\ FdOf(sys, gather.t) \notin D
  PROVE  GatherInv' /\ ReportsAreTrue'
<1>1. gather # NoGather => /\ gather.t \in Transports /\ FdOf(sys, gather.t) # NoFd
                           /\ FdOf(sys, gather.t) \in Fds \ D
                           /\ sys'.transport[gather.t] = sys.transport[gather.t]
  BY TransportEnd DEF Inv, GatherInv, Same
<1>2. gather # NoGather => End(sys', gather.t) = End(sys, gather.t)
  BY <1>1 DEF Same, Alike, End, FdOf
<1>3. GatherInv'
  BY <1>1 DEF GatherInv, FdOf
<1>4. ReportsAreTrue'
  BY <1>2 DEF Inv, ReportsAreTrue, Same, SameBytes
<1>. QED
  BY <1>3, <1>4

LEMMA KeepListeners ==
  ASSUME Inv, listener' = listener, alone' = alone, NEW D, NEW C, NEW U, Same(sys, sys', D, C, U),
         \A l \in Listeners : Fd(l) # NoFd => Fd(l) \notin D \cup C /\ Fd(l) # connect'.fd,
         C \subseteq Fds
  PROVE  ListenerInv' /\ AloneInv' /\ PathsAreOwned'
<1>1. \A l \in Listeners : Fd(l) # NoFd => Fd(l) \in Fds \ D
  BY HandFacts
<1>2. \A l \in Listeners : Fd(l) # NoFd => sys'.file[Fd(l)].kind = sys.file[Fd(l)].kind
  BY <1>1 DEF Same, Alike
<1>3. ListenerInv'
  <2>1. \A l \in Listeners : Fd(l)' = Fd(l) /\ \A s : At(l, s)' <=> At(l, s)
    BY DEF Fd, At
  <2>2. \A l \in Listeners : At(l, "listening") \/ At(l, "open") => Fd(l) # NoFd
    BY DEF Inv, ListenerInv, HasSocket, At
  <2>3. \A l \in Listeners : At(l, "listening") \/ At(l, "open") =>
          sys'.file[Fd(l)].kind = "listening"
    BY <1>2, <2>2 DEF Inv, ListenerInv
  <2>4. \A l \in Listeners : Fd(l) # NoFd => Fd(l) # connect'.fd
    OBVIOUS
  <2>. QED
    BY <1>2, <2>1, <2>3, <2>4 DEF Inv, ListenerInv
<1>4. AloneInv'
  BY DEF Inv, AloneInv
<1>5. AddressFree'
  <2>. SUFFICES ASSUME NEW l \in Listeners, At(l, "unlinked"), alone[l]
                PROVE  sys'.path[listener[l].path] = NoEntry
    BY DEF AddressFree, At
  <2>1. listener[l].path \in Paths
    BY DEF Inv, ListenerInv, At
  <2>2. sys.path[listener[l].path] = NoEntry
    BY DEF Inv, PathsAreOwned, AddressFree
  <2>. QED
    BY <2>1, <2>2, FdFacts DEF Same
<1>6. PathLeadsToListener'
  <2>. SUFFICES ASSUME NEW l \in Listeners, listener[l].at \in {"bound", "listening", "open"},
                       listener[l].path # NoPath, alone[l]
                PROVE  sys'.path[listener[l].path] = Fd(l)
    BY DEF PathLeadsToListener, Fd
  <2>1. listener[l].path \in Paths
    BY DEF Inv, ControlTypeOK, ListenerRecords
  <2>2. sys.path[listener[l].path] = Fd(l)
    BY DEF Inv, PathsAreOwned, PathLeadsToListener
  <2>3. Fd(l) # NoFd
    BY DEF Inv, ListenerInv, HasSocket
  <2>. QED
    BY <2>1, <2>2, <2>3 DEF Same
<1>. QED
  BY <1>3, <1>4, <1>5, <1>6 DEF PathsAreOwned

\* Steps that leave the bytes alone keep the pipes as they are, and the
\* transports whose stream is over.
LEMMA QuietStep ==
  ASSUME Inv, NEW D, NEW C, NEW U, Same(sys, sys', D, C, U),
         \A t \in Transports : FdOf(sys, t) \in D => FdOf(sys', t) # FdOf(sys, t)
  PROVE  FinalStep /\ PipeStep
<1>1. FinalStep
  <2>. SUFFICES ASSUME NEW t \in Transports, FdOf(sys, t) # NoFd
                PROVE  LET d == FdOf(sys, t)
                           e == sys.file[d].end
                       IN  /\ sys'.end[e].written = sys.end[e].written
                           /\ FdOf(sys', t) = d => sys'.file[d] = sys.file[d]
    BY DEF FinalStep, Fresh, FdOf
  <2>1. /\ FdOf(sys, t) \in Fds /\ sys.file[FdOf(sys, t)].kind = "stream"
        /\ sys.file[FdOf(sys, t)].end \in Ends
    BY TransportEnd
  <2>2. FdOf(sys', t) = FdOf(sys, t) => sys'.file[FdOf(sys, t)] = sys.file[FdOf(sys, t)]
    BY <2>1 DEF Same, Alike
  <2>. QED
    BY <2>1, <2>2 DEF Same, SameBytes
<1>2. PipeStep
  <2>. SUFFICES ASSUME NEW e \in Ends PROVE UNCHANGED Pipe(e)!vars
    BY DEF PipeStep
  <2>1. Peer(e) \in Ends
    BY EndFacts
  <2>. QED
    BY <2>1 DEF Pipe!vars, Same, SameBytes
<1>. QED
  BY <1>1, <1>2

\* A step of the application on transports and descriptors that no listener,
\* no connect and no writev() in progress holds.
LEMMA AppStep ==
  ASSUME Inv, UnchangedButSys, Good(sys', InHand),
         NEW D, NEW C, NEW U, Same(sys, sys', D, C, U), C \subseteq D, D \subseteq Fds,
         D \cap InHand = {},
         \A t \in Transports : FdOf(sys, t) \in D => FdOf(sys', t) # FdOf(sys, t),
         connect.t \in U /\ ~Connecting("idle") => FdOf(sys', connect.t) = NoFd,
         gather # NoGather => gather.t \notin U /\ FdOf(sys, gather.t) \notin D
  PROVE  StepOK
<1>1. /\ listener' = listener /\ connect' = connect /\ gather' = gather /\ plan' = plan
      /\ reported' = reported /\ alone' = alone
  BY DEF UnchangedButSys
<1>2. ControlTypeOK'
  BY <1>1 DEF Inv, ControlTypeOK
<1>3. InHand' = InHand
  BY <1>1 DEF InHand, Fd
<1>4. ConnectInv'
  <2>1. connect.fd # NoFd => connect.fd \notin D
    BY HandFacts
  <2>. QED
    BY <1>1, <2>1, KeepConnect
<1>5. GatherInv' /\ ReportsAreTrue'
  BY <1>1, KeepGather
<1>6. ListenerInv' /\ AloneInv' /\ PathsAreOwned'
  <2>1. \A l \in Listeners : Fd(l) # NoFd => Fd(l) \notin D \cup C /\ Fd(l) # connect'.fd
    BY <1>1, HandFacts DEF Inv, ListenerInv
  <2>. QED
    BY <1>1, <2>1, KeepListeners
<1>7. FinalStep /\ PipeStep
  BY QuietStep
<1>. QED
  BY <1>2, <1>3, <1>4, <1>5, <1>6, <1>7 DEF StepOK, Inv

-----------------------------------------------------------------------------
(* The calls of the application on streams.                                *)

LEMMA Planned == \A options \in PlannedOptions : options \in Options /\ options.own \in BOOLEAN
BY DEF PlannedOptions, Options

LEMMA Streams == "stream" \in Kinds \ {"free"} /\ "socket" \in Kinds \ {"free"}
                 /\ "listening" \in Kinds \ {"free"}
BY DEF Kinds

\* A call makes the file of a stream and builds the transport that gets it.
LEMMA StreamFileGood ==
  ASSUME NEW S, NEW H, Good(S, H), NEW d \in Fds, S.file[d].kind = "free",
         NEW e \in Ends, Unused(S, e), S.end[e].state \in {"open", "shut"}, NEW own \in BOOLEAN
  PROVE  Opened(S, OpenFile(S, d, "stream", e, own), H, d, "stream", e, own)
<1>1. e # NoEnd /\ e \in {NoEnd} \cup Ends
  BY EndFacts
<1>2. "stream" \in Kinds \ {"free"} /\ ((e # NoEnd) <=> ("stream" = "stream"))
  BY <1>1, Streams
<1>. QED
  BY <1>1, <1>2, OpenFileGood

\* A call makes the file of a stream and builds the transport that gets it.
LEMMA NewStreamGood ==
  ASSUME NEW S, NEW H, Good(S, H), NEW d \in Fds, S.file[d].kind = "free",
         NEW e \in Ends, Unused(S, e), S.end[e].state \in {"open", "shut"},
         NEW t \in Transports, FdOf(S, t) = NoFd,
         NEW options \in Options, NEW outcome \in Outcomes
  PROVE  LET A == Adopt(OpenFile(S, d, "stream", e, options.own), t, d, options, outcome)
         IN  /\ Good(A, H) /\ Same(S, A, {d}, {d}, {t})
             /\ d \notin H \cup S.app /\ \A u \in Transports : FdOf(S, u) # d
<1>. DEFINE T == OpenFile(S, d, "stream", e, options.own)
            A == Adopt(T, t, d, options, outcome)
<1>1. options.own \in BOOLEAN
  BY DEF Options
<1>0. Opened(S, T, H, d, "stream", e, options.own)
  BY <1>1, StreamFileGood
<1>. HIDE DEF T
<1>2. /\ Good(T, H \cup {d}) /\ Same(S, T, {d}, {}, {})
      /\ IsNewFile(T.file[d], "stream", e, options.own) /\ T.transport = S.transport
  BY <1>0 DEF Opened
<1>3. d \notin H \cup S.app /\ \A u \in Transports : FdOf(S, u) # d
  BY <1>0 DEF Opened
<1>4. Ready(T, d) /\ T.file[d].own = options.own
  BY <1>2 DEF Ready, IsNewFile
<1>5. \A u \in Transports : FdOf(T, u) = FdOf(S, u)
  BY <1>2 DEF FdOf
<1>6. Offered(T, H \cup {d}, d, options)
  BY <1>3, <1>4, <1>5 DEF Offered
<1>7. FdOf(T, t) = NoFd /\ Good(T, H \cup {d})
  BY <1>2, <1>5
<1>8. Good(A, (H \cup {d}) \ {d}) /\ Same(T, A, {d}, {d}, {t})
  BY <1>6, <1>7, AdoptGood
<1>. HIDE DEF A
<1>9. (H \cup {d}) \ {d} = H
  BY <1>3
<1>10. Same(S, T, {d}, {d}, {t})
  BY <1>2, SameMore
<1>11. Same(S, A, {d}, {d}, {t})
  BY <1>8, <1>10, SameTwice
<1>. QED
  BY <1>3, <1>8, <1>9, <1>11 DEF A, T

\* What a step on new transports leaves to the writev() in progress.
LEMMA FreshSteps ==
  ASSUME Inv, NEW U, \A t \in U : Vacant(t)
  PROVE  /\ gather # NoGather => gather.t \notin U
         /\ ~Connecting("idle") => connect.t \notin U
BY DEF Inv, GatherInv, Vacant, Fresh, FdOf

\* A descriptor that no transport names.
LEMMA NewFdStep ==
  ASSUME Inv, UnchangedButSys, Good(sys', InHand), NEW D \in SUBSET Fds, NEW U,
         Same(sys, sys', D, D, U), D \cap InHand = {},
         \A t \in Transports : FdOf(sys, t) \notin D, \A t \in U : Vacant(t)
  PROVE  StepOK
<1>1. gather # NoGather => gather.t \in Transports
  BY DEF Inv, GatherInv
<1>. QED
  BY <1>1, FreshSteps, AppStep

\* Two files hold the two ends of a fresh pair.
PairMade(R, T, H, d, f, own) ==
  /\ Good(T, (H \cup {d}) \cup {f}) /\ Same(R, T, {d, f}, {}, {})
  /\ d \in Fds /\ f \in Fds /\ d # f /\ {d, f} \cap H = {}
  /\ Ready(T, d) /\ T.file[d].own = own /\ Ready(T, f) /\ T.file[f].own = own
  /\ \A v \in Transports : FdOf(T, v) = FdOf(R, v) /\ FdOf(R, v) \notin {d, f}

LEMMA PairMadeGood ==
  ASSUME NEW R, NEW H, Good(R, H), Cardinality(FreeFds(R)) >= 2, FreshEnds(R) # {}, NEW own \in BOOLEAN
  PROVE  LET e == FreshEnd(R)
             d == LowestFd(R)
             S == OpenFile(OpenEnds(R, e), d, "stream", e, own)
             f == LowestFd(S)
         IN  PairMade(R, OpenFile(S, f, "stream", Peer(e), own), H, d, f, own)
<1>. DEFINE e == FreshEnd(R)
            O == OpenEnds(R, e)
            d == LowestFd(R)
            S == OpenFile(O, d, "stream", e, own)
            f == LowestFd(S)
            T == OpenFile(S, f, "stream", Peer(e), own)
            J == H \cup {d}
<1>1. e \in Ends /\ Peer(e) \in Ends /\ Peer(e) # e /\ e # NoEnd /\ Peer(e) # NoEnd
      /\ R.end[e].state = "none"
  BY FreshIsEnd, EndFacts
<1>2. PICK x \in FreeFds(R) : x # d
  BY AnotherFree
<1>3. d \in Fds /\ R.file[d].kind = "free" /\ x \in Fds /\ R.file[x].kind = "free"
  BY <1>2, LowestFree DEF FreeFds
<1>. HIDE DEF e, d
<1>4. /\ Good(O, H) /\ Same(R, O, {}, {}, {}) /\ O.file = R.file
      /\ O.transport = R.transport /\ O.app = R.app
      /\ Unused(O, e) /\ Unused(O, Peer(e))
      /\ O.end[e].state = "open" /\ O.end[Peer(e)].state = "open"
  BY <1>1, OpenEndsGood
<1>. HIDE DEF O
<1>5. Opened(O, S, H, d, "stream", e, own)
  <2>1. O.file[d].kind = "free" /\ O.end[e].state \in {"open", "shut"} /\ Unused(O, e) /\ Good(O, H)
    BY <1>3, <1>4
  <2>. QED
    BY <1>1, <1>3, <2>1, StreamFileGood
<1>. HIDE DEF S
<1>6. Good(S, H \cup {d}) /\ Same(O, S, {d}, {}, {})
  BY <1>5 DEF Opened
<1>7. d \notin H \cup O.app /\ \A v \in Transports : FdOf(O, v) # d
  BY <1>5 DEF Opened
<1>8. /\ \A y \in Fds \ {d} : S.file[y] = O.file[y]
      /\ S.end = O.end /\ S.transport = O.transport /\ S.app = O.app
  BY <1>5 DEF Opened
<1>9. Unused(S, Peer(e))
  BY <1>1, <1>4, <1>5 DEF Opened
<1>10. IsNewFile(S.file[d], "stream", e, own)
  BY <1>5 DEF Opened
<1>11. f \in Fds /\ S.file[f].kind = "free" /\ f # d
  <2>1. x \in FreeFds(S)
    BY <1>2, <1>3, <1>4, <1>8 DEF FreeFds
  <2>. QED
    BY <1>10, <2>1, LowestFree DEF IsNewFile
<1>. HIDE DEF f
<1>12. Opened(S, T, J, f, "stream", Peer(e), own)
  <2>1. Good(S, J) /\ S.end[Peer(e)].state \in {"open", "shut"} /\ S.file[f].kind = "free"
    BY <1>4, <1>6, <1>8, <1>11
  <2>. HIDE DEF J
  <2>. QED
    BY <1>1, <1>9, <1>11, <2>1, StreamFileGood
<1>. HIDE DEF T
<1>13. Good(T, J \cup {f}) /\ Same(S, T, {f}, {}, {})
  BY <1>12 DEF Opened
<1>14. f \notin J \cup S.app /\ \A v \in Transports : FdOf(S, v) # f
  BY <1>12 DEF Opened
<1>15. \A y \in Fds \ {f} : T.file[y] = S.file[y]
  BY <1>12 DEF Opened
<1>16. T.transport = S.transport
  BY <1>12 DEF Opened
<1>17. IsNewFile(T.file[f], "stream", Peer(e), own)
  BY <1>12 DEF Opened
<1>18. \A v \in Transports : FdOf(T, v) = FdOf(R, v) /\ FdOf(R, v) \notin {d, f}
  BY <1>4, <1>7, <1>8, <1>14, <1>16 DEF FdOf
<1>19. Ready(T, d) /\ T.file[d].own = own
  <2>1. T.file[d] = S.file[d]
    BY <1>3, <1>11, <1>15
  <2>. QED
    BY <2>1, <1>10 DEF Ready, IsNewFile
<1>20. Ready(T, f) /\ T.file[f].own = own
  BY <1>17 DEF Ready, IsNewFile
<1>21. Same(R, T, {d, f}, {}, {})
  <2>1. Same(R, O, {d, f}, {}, {})
    BY <1>4, SameMore
  <2>2. Same(O, S, {d, f}, {}, {})
    BY <1>6, SameMore
  <2>3. Same(S, T, {d, f}, {}, {})
    BY <1>13, SameMore
  <2>. QED
    BY <2>1, <2>2, <2>3, SameTwice
<1>22. {d, f} \cap H = {}
  BY <1>7, <1>14
<1>23. PairMade(R, T, H, d, f, own)
  BY <1>3, <1>11, <1>13, <1>18, <1>19, <1>20, <1>21, <1>22 DEF PairMade
<1>. QED
  BY <1>23 DEF e, d, O, S, f, T

LEMMA PairStep ==
  ASSUME Inv, NEW t \in Transports, NEW u \in Transports, NEW options \in PlannedOptions,
         create_socket_pair(t, u, options)
  PROVE  StepOK
<1>. DEFINE e == FreshEnd(sys)
            d == LowestFd(sys)
            S == OpenFile(OpenEnds(sys, e), d, "stream", e, options.own)
            f == LowestFd(S)
            T == OpenFile(S, f, "stream", Peer(e), options.own)
            H == InHand \cup {d}
<1>1. PICK first \in Outcomes, second \in Outcomes :
        sys' = Adopt(Adopt(T, t, d, options, first), u, f, options, second)
  BY DEF create_socket_pair
<1>. DEFINE A == Adopt(T, t, d, options, first)
            B == Adopt(A, u, f, options, second)
<1>2. /\ t # u /\ Vacant(t) /\ Vacant(u) /\ UnchangedButSys /\ Cardinality(FreeFds(sys)) >= 2
      /\ FreshEnds(sys) # {} /\ Good(sys, InHand)
      /\ FdOf(sys, t) = NoFd /\ FdOf(sys, u) = NoFd
  BY DEF create_socket_pair, Inv, Vacant, Fresh, FdOf
<1>3. options \in Options /\ options.own \in BOOLEAN
  BY Planned
<1>4. PairMade(sys, T, InHand, d, f, options.own)
  BY <1>2, <1>3, PairMadeGood
<1>. HIDE DEF T, d, f
<1>5. Good(T, H \cup {f}) /\ Same(sys, T, {d, f}, {}, {})
  BY <1>4 DEF PairMade
<1>6. d \in Fds /\ f \in Fds /\ d # f /\ {d, f} \cap InHand = {}
  BY <1>4 DEF PairMade
<1>7. Ready(T, d) /\ T.file[d].own = options.own
  BY <1>4 DEF PairMade
<1>8. Ready(T, f) /\ T.file[f].own = options.own
  BY <1>4 DEF PairMade
<1>9. \A v \in Transports : FdOf(T, v) = FdOf(sys, v) /\ FdOf(sys, v) \notin {d, f}
  BY <1>4 DEF PairMade
<1>10. Offered(T, H \cup {f}, d, options)
  BY <1>6, <1>7, <1>9 DEF Offered
<1>11. FdOf(T, t) = NoFd /\ FdOf(T, u) = NoFd
  BY <1>2, <1>9
<1>12. Good(A, (H \cup {f}) \ {d}) /\ Same(T, A, {d}, {d}, {t})
  <2>. HIDE DEF H
  <2>. QED
    BY <1>3, <1>5, <1>10, <1>11, AdoptGood
<1>. HIDE DEF A
<1>13. (H \cup {f}) \ {d} = InHand \cup {f}
  BY <1>6
<1>14. FdOf(A, u) = NoFd
  BY <1>2, <1>11, <1>12 DEF Same, FdOf
<1>15. Offered(A, InHand \cup {f}, f, options)
  <2>1. Ready(A, f) /\ A.file[f].own = options.own
    BY <1>6, <1>8, <1>12 DEF Same, Alike, Ready
  <2>2. \A v \in Transports : FdOf(A, v) # f
    BY <1>6, <1>12, <1>13, FdFacts DEF Good, Sound
  <2>. QED
    BY <1>6, <2>1, <2>2 DEF Offered
<1>16. Good(B, (InHand \cup {f}) \ {f}) /\ Same(A, B, {f}, {f}, {u})
  BY <1>3, <1>12, <1>13, <1>14, <1>15, AdoptGood
<1>. HIDE DEF B
<1>17. (InHand \cup {f}) \ {f} = InHand
  BY <1>6
<1>18. Same(sys, B, {d, f}, {d, f}, {t, u})
  <2>1. Same(sys, T, {d, f}, {d, f}, {t, u})
    BY <1>5, SameMore
  <2>2. Same(T, A, {d, f}, {d, f}, {t, u})
    BY <1>12, SameMore
  <2>3. Same(A, B, {d, f}, {d, f}, {t, u})
    BY <1>16, SameMore
  <2>. QED
    BY <2>1, <2>2, <2>3, SameTwice
<1>19. sys' = B
  BY <1>1 DEF B, A
<1>20. Good(sys', InHand) /\ Same(sys, sys', {d, f}, {d, f}, {t, u})
  BY <1>16, <1>17, <1>18, <1>19
<1>21. {d, f} \in SUBSET Fds /\ \A v \in Transports : FdOf(sys, v) \notin {d, f}
  BY <1>6, <1>9
<1>22. \A v \in {t, u} : Vacant(v)
  BY <1>2
<1>. QED
  BY <1>2, <1>6, <1>20, <1>21, <1>22, NewFdStep

\* The caller keeps what it made, for the application.
LEMMA GiveGood ==
  ASSUME NEW S, NEW H, Good(S, H), NEW D \in SUBSET H, \A d \in D : Ready(S, d)
  PROVE  LET T == [S EXCEPT !.app = @ \cup D]
         IN  Good(T, H \ D) /\ Same(S, T, {}, {}, {})
<1>. DEFINE T == [S EXCEPT !.app = @ \cup D]
<1>1. S \in Systems /\ D \in SUBSET Fds /\ \A d \in D : Live(S, d)
  BY GoodSystems DEF Good, Sound, Live
<1>2. /\ T \in Systems /\ T.app = S.app \cup D
      /\ T.file = S.file /\ T.end = S.end /\ T.path = S.path /\ T.transport = S.transport
  BY <1>1 DEF Systems
<1>. HIDE DEF T
<1>3. \A x : (Live(T, x) <=> Live(S, x)) /\ (Ready(T, x) <=> Ready(S, x))
  BY <1>2 DEF Live, Ready
<1>4. \A t \in Transports : FdOf(T, t) = FdOf(S, t) /\ (FdOf(S, t) # NoFd => FdOf(S, t) \notin D)
  BY <1>2 DEF Good, Sound, FdOf
<1>5. Sound(T, H \ D)
  <2>1. \A d \in (H \ D) \cup T.app : Live(T, d)
    BY <1>2, <1>3 DEF Good, Sound
  <2>2. (H \ D) \cap T.app = {}
    BY <1>2 DEF Good, Sound
  <2>3. \A d \in T.app : Ready(T, d)
    BY <1>2, <1>3 DEF Good, Sound
  <2>4. \A t \in Transports : FdOf(T, t) # NoFd =>
          /\ Live(T, FdOf(T, t)) /\ Ready(T, FdOf(T, t)) /\ FdOf(T, t) \notin H \ D
          /\ (FdOf(T, t) \in T.app) <=> ~T.transport[t].own
    BY <1>2, <1>3, <1>4 DEF Good, Sound
  <2>5. \A t, u \in Transports : t # u /\ FdOf(T, t) # NoFd => FdOf(T, u) # FdOf(T, t)
    BY <1>4 DEF Good, Sound
  <2>6. \A d \in Fds : Live(T, d) /\ T.file[d].own /\ d \notin (H \ D) \cup T.app =>
          \E t \in Transports : FdOf(T, t) = d
    BY <1>2, <1>3, <1>4 DEF Good, Sound
  <2>. QED
    BY <1>2, <2>1, <2>2, <2>3, <2>4, <2>5, <2>6 DEF Sound
<1>6. PlacesSound(T) /\ CountsSound(T)
  <2>1. \A x \in Fds : \A i \in Places(S, x) : Place(S, x, i) # NoEnd =>
          T.end[Place(S, x, i)].state \in {"open", "shut"}
    BY <1>2 DEF Good, PlacesSound
  <2>2. PlacesSound(T)
    BY <1>2, <2>1, PlacesAlike DEF Good
  <2>. QED
    BY <1>2, <2>2 DEF Good, CountsSound
<1>7. Same(S, T, {}, {}, {})
  BY <1>2 DEF Same, Alike, SameBytes
<1>. QED
  BY <1>5, <1>6, <1>7 DEF Good, T

LEMMA AppPairStep ==
  ASSUME Inv, AppMakesPair
  PROVE  StepOK
<1>. DEFINE e == FreshEnd(sys)
            d == LowestFd(sys)
            S == OpenFile(OpenEnds(sys, e), d, "stream", e, TRUE)
            f == LowestFd(S)
            T == OpenFile(S, f, "stream", Peer(e), TRUE)
            D == {d, f}
            H == (InHand \cup {d}) \cup {f}
<1>1. /\ UnchangedButSys /\ Cardinality(FreeFds(sys)) >= 2 /\ FreshEnds(sys) # {}
      /\ Good(sys, InHand) /\ sys' = [T EXCEPT !.app = @ \cup D]
  BY DEF AppMakesPair, Inv
<1>2. PairMade(sys, T, InHand, d, f, TRUE)
  BY <1>1, PairMadeGood
<1>. HIDE DEF T, d, f
<1>3. Good(T, H) /\ Same(sys, T, D, {}, {})
  BY <1>2 DEF PairMade
<1>4. D \in SUBSET Fds /\ D \cap InHand = {} /\ \A x \in D : Ready(T, x)
  BY <1>2 DEF PairMade
<1>5. \A v \in Transports : FdOf(sys, v) \notin D
  BY <1>2 DEF PairMade
<1>6. D \in SUBSET H /\ H \ D = InHand
  BY <1>4
<1>. HIDE DEF D, H
<1>7. Good(sys', InHand) /\ Same(T, sys', {}, {}, {})
  BY <1>1, <1>3, <1>4, <1>6, GiveGood
<1>8. Same(sys, sys', D, D, {})
  <2>1. Same(sys, T, D, D, {}) /\ Same(T, sys', D, D, {})
    BY <1>3, <1>7, SameMore
  <2>. QED
    BY <2>1, SameTwice
<1>. QED
  BY <1>1, <1>4, <1>5, <1>7, <1>8, NewFdStep

LEMMA FreeIsNobodys ==
  ASSUME NEW S, NEW H, Good(S, H), NEW d \in Fds, S.file[d].kind = "free"
  PROVE  d \notin H \cup S.app /\ \A t \in Transports : FdOf(S, t) # d
BY FdFacts DEF Good, Sound, Live

LEMMA DeviceStep ==
  ASSUME Inv, NEW t \in Transports, NEW options \in PlannedOptions, open_device(t, options)
  PROVE  StepOK
<1>. DEFINE e == FreshEnd(sys)
            d == LowestFd(sys)
            O == OpenEnds(sys, e)
            S == OpenFile(O, d, "stream", e, options.own)
<1>1. PICK outcome \in Outcomes : sys' = Adopt(S, t, d, options, outcome)
  BY DEF open_device, Outcomes
<1>2. /\ Vacant(t) /\ UnchangedButSys /\ Good(sys, InHand) /\ FdOf(sys, t) = NoFd
      /\ d \in Fds /\ sys.file[d].kind = "free"
  BY LowestFree DEF open_device, Inv, Vacant, Fresh, FdOf
<1>3. e \in Ends /\ sys.end[e].state = "none"
  BY FreshIsEnd DEF open_device
<1>4. options \in Options
  BY Planned
<1>. HIDE DEF e, d
<1>5. /\ Good(O, InHand) /\ Same(sys, O, {}, {}, {}) /\ O.file = sys.file
      /\ O.transport = sys.transport
      /\ Unused(O, e) /\ O.end[e].state = "open"
  BY <1>2, <1>3, OpenEndsGood
<1>6. O.file[d].kind = "free" /\ FdOf(O, t) = NoFd /\ O.end[e].state \in {"open", "shut"}
  BY <1>2, <1>5 DEF FdOf
<1>. HIDE DEF O
<1>7. Good(sys', InHand) /\ Same(O, sys', {d}, {d}, {t})
  BY <1>1, <1>2, <1>3, <1>4, <1>5, <1>6, NewStreamGood
<1>8. Same(sys, sys', {d}, {d}, {t})
  <2>1. Same(sys, O, {d}, {d}, {t})
    BY <1>5, SameMore
  <2>. QED
    BY <1>7, <2>1, SameTwice
<1>9. d \notin InHand /\ \A u \in Transports : FdOf(sys, u) # d
  BY <1>2, FreeIsNobodys
<1>10. {d} \in SUBSET Fds /\ {d} \cap InHand = {} /\ \A u \in Transports : FdOf(sys, u) \notin {d}
  BY <1>2, <1>9
<1>. QED
  BY <1>2, <1>7, <1>8, <1>10, NewFdStep

LEMMA TransportOfStep ==
  ASSUME Inv, NEW t \in Transports, NEW d \in Fds, NEW options \in PlannedOptions,
         TransportOf(t, d, options)
  PROVE  StepOK
<1>1. PICK outcome \in Outcomes : sys' = Adopt(sys, t, d, options, outcome)
  BY DEF TransportOf
<1>2. /\ Vacant(t) /\ UnchangedButSys /\ Good(sys, InHand) /\ FdOf(sys, t) = NoFd
      /\ d \in sys.app /\ \A u \in Transports : FdOf(sys, u) # d
  BY DEF TransportOf, Inv, Vacant, Fresh, FdOf, InUse
<1>3. options \in Options
  BY Planned
<1>4. Ready(sys, d) /\ d \notin InHand
  BY <1>2 DEF Good, Sound
<1>5. Offered(sys, InHand, d, options)
  BY <1>2, <1>4 DEF Offered
<1>6. Good(sys', InHand \ {d}) /\ Same(sys, sys', {d}, {d}, {t})
  BY <1>1, <1>2, <1>3, <1>5, AdoptGood
<1>7. InHand \ {d} = InHand /\ {d} \in SUBSET Fds /\ {d} \cap InHand = {}
      /\ \A u \in Transports : FdOf(sys, u) \notin {d}
  BY <1>2, <1>4
<1>. QED
  BY <1>2, <1>6, <1>7, NewFdStep

LEMMA AppClosesStep ==
  ASSUME Inv, NEW d \in Fds, AppCloses(d)
  PROVE  StepOK
<1>. DEFINE C == CloseFile(sys, d)
            T == [C EXCEPT !.app = @ \ {d}]
<1>1. /\ UnchangedButSys /\ Good(sys, InHand) /\ sys' = T
      /\ d \in sys.app /\ \A u \in Transports : FdOf(sys, u) # d
  BY DEF AppCloses, Inv, InUse, FdOf
<1>2. sys \in Systems
  BY HandFacts
<1>3. /\ C \in Systems /\ C.file = [sys.file EXCEPT ![d] = NoFile] /\ C.transport = sys.transport
      /\ C.app = sys.app /\ SameBytes(sys, C)
      /\ C.path = [p \in Paths |-> IF sys.path[p] = d THEN Stale ELSE sys.path[p]]
      /\ \A x \in Ends : C.end[x].state =
           IF x \in Gone(sys.file[d]) THEN AfterClose(sys, x) ELSE sys.end[x].state
  BY <1>2, CloseFileEffect
<1>. HIDE DEF C
<1>4. /\ T \in Systems /\ T.file = C.file /\ T.transport = C.transport /\ T.end = C.end
      /\ T.path = C.path /\ T.app = C.app \ {d}
  BY <1>3 DEF Systems
<1>. HIDE DEF T
<1>5. sys.file \in [Fds -> Files]
  BY <1>2, SystemFields
<1>6. ClosedAs(sys, T, d)
  BY <1>3, <1>4, <1>5 DEF ClosedAs, SameBytes
<1>7. \A u \in Transports : FdOf(T, u) = FdOf(sys, u) /\ T.transport[u].own = sys.transport[u].own
  BY <1>3, <1>4 DEF FdOf
<1>8. Good(T, InHand \ {d})
  BY <1>1, <1>3, <1>4, <1>6, <1>7, ReleaseGood
<1>9. Same(sys, T, {d}, {d}, {})
  <2>1. \A x \in Fds \ {d} : Alike(sys.file[x], T.file[x])
    BY <1>6 DEF ClosedAs, Alike
  <2>2. \A p \in Paths : sys.path[p] \notin {d} => T.path[p] = sys.path[p]
    BY <1>3, <1>4
  <2>. QED
    BY <1>3, <1>4, <1>6, <2>1, <2>2 DEF Same, ClosedAs
<1>10. d \notin InHand
  BY <1>1 DEF Good, Sound
<1>11. InHand \ {d} = InHand /\ {d} \in SUBSET Fds /\ {d} \cap InHand = {}
       /\ \A u \in Transports : FdOf(sys, u) \notin {d}
  BY <1>1, <1>10
<1>. QED
  BY <1>1, <1>8, <1>9, <1>11, NewFdStep

\* What the programs behind the ends do to their states.
LEMMA RestatedGood ==
  ASSUME NEW S, NEW H, Good(S, H), NEW state \in [Ends -> States],
         \A x \in Ends :
           /\ state[x] = "none" <=> S.end[x].state = "none"
           /\ S.end[x].state \in {"shut", "closed", "reset"} => state[x] \in {"shut", "closed", "reset"}
           /\ S.end[x].state \in {"open", "shut"} /\ ~Unused(S, x) => state[x] \in {"open", "shut"}
  PROVE  Good(Restated(S, state), H) /\ Same(S, Restated(S, state), {}, {}, {})
<1>. DEFINE T == Restated(S, state)
<1>1. S \in Systems
  BY GoodSystems
<1>2. /\ T \in Systems
      /\ T.file = S.file /\ T.path = S.path /\ T.transport = S.transport /\ T.app = S.app
      /\ SameBytes(S, T) /\ \A e \in Ends : T.end[e].state = state[e]
  BY <1>1, RestatedEffect
<1>. HIDE DEF T
<1>3. Sound(T, H)
  BY <1>2, SoundAlike DEF Good
<1>4. PlacesSound(T)
  <2>1. ASSUME NEW d \in Fds, NEW i \in Places(S, d), Place(S, d, i) # NoEnd
        PROVE  T.end[Place(S, d, i)].state \in {"open", "shut"}
    <3>1. Place(S, d, i) \in Ends
      BY <1>1, <2>1, PlaceIsEnd
    <3>2. S.end[Place(S, d, i)].state \in {"open", "shut"} /\ ~Unused(S, Place(S, d, i))
      BY <2>1 DEF Good, PlacesSound, Unused
    <3>. QED
      BY <1>2, <3>1, <3>2
  <2>. QED
    BY <1>2, <2>1, PlacesAlike DEF Good
<1>5. CountsSound(T)
  <2>. SUFFICES ASSUME NEW e \in Ends
                PROVE  /\ T.end[e].state = "none" => T.end[Peer(e)].state = "none"
                       /\ T.end[e].delivered <= T.end[e].written
                       /\ T.end[e].written <= T.end[e].delivered + SendRoom
                       /\ T.end[Peer(e)].told =>
                            /\ T.end[e].delivered = T.end[e].written
                            /\ T.end[e].state \in {"shut", "closed", "reset"}
    BY DEF CountsSound
  <2>1. Peer(e) \in Ends
    BY EndFacts
  <2>2. /\ T.end[e].written = S.end[e].written /\ T.end[e].delivered = S.end[e].delivered
        /\ T.end[Peer(e)].told = S.end[Peer(e)].told
        /\ T.end[e].state = state[e] /\ T.end[Peer(e)].state = state[Peer(e)]
    BY <1>2, <2>1 DEF SameBytes
  <2>. QED
    BY <2>1, <2>2 DEF Good, CountsSound
<1>6. Same(S, T, {}, {}, {})
  BY <1>2 DEF Same, Alike
<1>. QED
  BY <1>3, <1>4, <1>5, <1>6 DEF Good, T

\* One end changes its state.
LEMMA EndStateStep ==
  ASSUME Inv, UnchangedButSys, NEW e \in Ends, NEW after \in States \ {"none"},
         sys' = [sys EXCEPT !.end[e].state = after], sys.end[e].state # "none",
         sys.end[e].state \in {"shut", "closed", "reset"} => after \in {"shut", "closed", "reset"},
         sys.end[e].state \in {"open", "shut"} /\ ~Unused(sys, e) => after \in {"open", "shut"}
  PROVE  StepOK
<1>. DEFINE state == [x \in Ends |-> IF x = e THEN after ELSE sys.end[x].state]
<1>1. sys \in Systems /\ Good(sys, InHand)
  BY HandFacts DEF Inv
<1>2. state \in [Ends -> States]
  BY <1>1, SystemFields
<1>3. sys' = Restated(sys, state)
  <2>1. sys.end \in [Ends -> EndRecords]
    BY <1>1, SystemFields
  <2>2. sys' = [sys EXCEPT !.end = [sys.end EXCEPT ![e].state = after]]
    BY <1>1 DEF Systems
  <2>3. \A x \in Ends : [sys.end[x] EXCEPT !.state = sys.end[x].state] = sys.end[x]
    BY <2>1 DEF EndRecords
  <2>4. [sys.end EXCEPT ![e].state = after] = [x \in Ends |-> [sys.end[x] EXCEPT !.state = state[x]]]
    BY <2>1, <2>3
  <2>. QED
    BY <2>2, <2>4 DEF Restated
<1>4. \A x \in Ends :
        /\ state[x] = "none" <=> sys.end[x].state = "none"
        /\ sys.end[x].state \in {"shut", "closed", "reset"} => state[x] \in {"shut", "closed", "reset"}
        /\ sys.end[x].state \in {"open", "shut"} /\ ~Unused(sys, x) => state[x] \in {"open", "shut"}
  OBVIOUS
<1>. HIDE DEF state
<1>5. Good(sys', InHand) /\ Same(sys, sys', {}, {}, {})
  BY <1>1, <1>2, <1>3, <1>4, RestatedGood
<1>6. {} \in SUBSET Fds /\ {} \cap InHand = {} /\ (\A t \in Transports : FdOf(sys, t) \notin {})
      /\ \A t \in {} : Vacant(t)
  OBVIOUS
<1>. QED
  BY <1>5, <1>6, NewFdStep

LEMMA ShutdownStep ==
  ASSUME Inv, NEW e \in Ends, Shutdown(e)
  PROVE  StepOK
<1>1. "shut" \in States \ {"none"} /\ "shut" \in {"shut", "closed", "reset"} /\ "shut" \in {"open", "shut"}
  BY DEF States
<1>2. UnchangedButSys /\ sys' = [sys EXCEPT !.end[e].state = "shut"] /\ sys.end[e].state # "none"
  BY DEF Shutdown
<1>. QED
  BY <1>1, <1>2, EndStateStep

LEMMA PeerClosesStep ==
  ASSUME Inv, NEW e \in Ends, PeerCloses(e)
  PROVE  StepOK
<1>. DEFINE after == AfterClose(sys, e)
<1>1. after \in States \ {"none"} /\ after \in {"shut", "closed", "reset"}
  BY DEF AfterClose, States
<1>2. UnchangedButSys /\ sys' = CloseEnds(sys, {e}) /\ sys.end[e].state \in {"open", "shut"}
  BY DEF PeerCloses, Elsewhere
<1>3. Unused(sys, e)
  <2>. SUFFICES ASSUME NEW d \in Fds, NEW i \in Places(sys, d) PROVE Place(sys, d, i) # e
    BY DEF Unused
  <2>1. sys.file[d].end # e /\ \A k \in 1..Len(sys.file[d].queue) : sys.file[d].queue[k] # e
    BY DEF PeerCloses, Elsewhere
  <2>2. sys \in Systems
    BY HandFacts
  <2>3. Len(sys.file[d].queue) \in Nat /\ i \in Nat
    BY <2>2, PlaceIsEnd
  <2>. QED
    BY <2>1, <2>3 DEF Place, Places
<1>4. sys' = [sys EXCEPT !.end[e].state = after]
  <2>1. sys \in Systems
    BY HandFacts
  <2>2. sys.end \in [Ends -> EndRecords]
    BY <2>1, SystemFields
  <2>. HIDE DEF after
  <2>3. [x \in Ends |-> IF x \in {e} THEN [sys.end[x] EXCEPT !.state = AfterClose(sys, x)] ELSE sys.end[x]]
          = [sys.end EXCEPT ![e].state = after]
    BY <2>2 DEF after
  <2>4. sys' = [sys EXCEPT !.end = [sys.end EXCEPT ![e].state = after]]
    BY <1>2, <2>3 DEF CloseEnds
  <2>. QED
    BY <2>1, <2>4 DEF Systems
<1>. HIDE DEF after
<1>. QED
  BY <1>1, <1>2, <1>3, <1>4, EndStateStep

LEMMA ReadErrorStep ==
  ASSUME Inv, NEW t \in Transports, ReadError(t)
  PROVE  StepOK
<1>. DEFINE e == Peer(End(sys, t))
<1>1. /\ UnchangedButSys /\ sys' = [sys EXCEPT !.end[e].state = "closed"]
      /\ sys.end[e].state = "reset" /\ FdOf(sys, t) # NoFd
  BY DEF ReadError, IsOpen, FdOf
<1>2. e \in Ends
  BY <1>1, TransportEnd, EndFacts
<1>3. "closed" \in States \ {"none"} /\ "closed" \in {"shut", "closed", "reset"}
  BY DEF States
<1>. HIDE DEF e
<1>4. sys.end[e].state # "none" /\ sys.end[e].state \notin {"open", "shut"}
  BY <1>1
<1>. QED
  BY <1>1, <1>2, <1>3, <1>4, EndStateStep

LEMMA CloseStep ==
  ASSUME Inv, NEW t \in Transports, close(t)
  PROVE  StepOK
<1>. DEFINE D == {FdOf(sys, t)} \ {NoFd}
<1>1. /\ UnchangedButSys /\ sys' = Close(sys, t) /\ gather.t # t /\ Good(sys, InHand)
  BY DEF close, NotWriting, Inv
<1>2. Good(sys', InHand) /\ Same(sys, sys', D, D, {t}) /\ FdOf(sys', t) = NoFd
  BY <1>1, CloseGood
<1>3. D \in SUBSET Fds /\ D \cap InHand = {}
  BY <1>1 DEF Good, Sound, Live
<1>4. \A u \in Transports : FdOf(sys, u) \in D => u = t
  BY <1>1 DEF Good, Sound
<1>5. NoFd \notin D
  OBVIOUS
<1>. HIDE DEF D
<1>6. \A u \in Transports : FdOf(sys, u) \in D => FdOf(sys', u) # FdOf(sys, u)
  BY <1>2, <1>4, <1>5
<1>7. gather # NoGather => gather.t \notin {t} /\ FdOf(sys, gather.t) \notin D
  BY <1>1, <1>4 DEF Inv, GatherInv
<1>8. connect.t \in {t} /\ ~Connecting("idle") => FdOf(sys', connect.t) = NoFd
  BY <1>2
<1>. QED
  BY <1>1, <1>2, <1>3, <1>6, <1>7, <1>8, AppStep

LEMMA NothingStep ==
  ASSUME Inv, UnchangedButSys, sys' = sys
  PROVE  StepOK
<1>1. Good(sys', InHand) /\ Same(sys, sys', {}, {}, {})
  BY DEF Inv, Same, Alike, SameBytes
<1>2. {} \in SUBSET Fds /\ {} \cap InHand = {} /\ (\A t \in Transports : FdOf(sys, t) \notin {})
      /\ \A t \in {} : Vacant(t)
  OBVIOUS
<1>. QED
  BY <1>1, <1>2, NewFdStep

LEMMA MoveStep ==
  ASSUME Inv, NEW t \in Transports, NEW other \in Transports, MoveAssign(t, other)
  PROVE  StepOK
<1>. DEFINE D == {FdOf(sys, t)} \ {NoFd}
            C == Close(sys, t)
<1>1. /\ UnchangedButSys /\ gather.t \notin {t, other} /\ connect.t \notin {t, other}
      /\ sys' = IF t = other THEN sys ELSE move_from(C, t, other)
      /\ Good(sys, InHand)
  BY DEF MoveAssign, NotWriting, Inv
<1>2. CASE t = other
  BY <1>1, <1>2, NothingStep
<1>3. CASE t # other
  <2>1. Good(C, InHand) /\ Same(sys, C, D, D, {t}) /\ FdOf(C, t) = NoFd
    BY <1>1, CloseGood
  <2>2. D \in SUBSET Fds /\ D \cap InHand = {} /\ NoFd \notin D
    BY <1>1 DEF Good, Sound, Live
  <2>3. \A u \in Transports : FdOf(sys, u) \in D => u = t
    BY <1>1 DEF Good, Sound
  <2>. HIDE DEF C, D
  <2>4. Good(sys', InHand) /\ Same(C, sys', {}, {}, {t, other}) /\ FdOf(sys', t) = FdOf(C, other)
    BY <1>1, <1>3, <2>1, MoveFromGood
  <2>5. Same(sys, sys', D, D, {t, other})
    <3>1. Same(sys, C, D, D, {t, other}) /\ Same(C, sys', D, D, {t, other})
      BY <2>1, <2>4, SameMore
    <3>. QED
      BY <3>1, SameTwice
  <2>6. FdOf(sys', t) = FdOf(sys, other)
    BY <1>3, <2>1, <2>4 DEF Same, FdOf
  <2>7. \A u \in Transports : FdOf(sys, u) \in D => FdOf(sys', u) # FdOf(sys, u)
    BY <1>3, <2>3, <2>6
  <2>8. gather # NoGather => gather.t \notin {t, other} /\ FdOf(sys, gather.t) \notin D
    BY <1>1, <2>3 DEF Inv, GatherInv
  <2>9. connect.t \in {t, other} /\ ~Connecting("idle") => FdOf(sys', connect.t) = NoFd
    BY <1>1
  <2>. QED
    BY <1>1, <2>2, <2>4, <2>5, <2>7, <2>8, <2>9, AppStep
<1>. QED
  BY <1>2, <1>3

LEMMA ConnectToPathStep ==
  ASSUME Inv, NEW t \in Transports, NEW p \in Paths, NEW options \in PlannedOptions,
         connect_to_path(t, p, options)
  PROVE  StepOK
<1>. DEFINE e == FreshEnd(sys)
            d == LowestFd(sys)
            g == sys.path[p]
            E == Enqueue(sys, g, e)
            S == OpenFile(E, d, "stream", e, options.own)
<1>1. PICK outcome \in Outcomes : sys' = Adopt(S, t, d, options, outcome)
  BY DEF connect_to_path
<1>2. /\ Vacant(t) /\ UnchangedButSys /\ Good(sys, InHand) /\ FdOf(sys, t) = NoFd
      /\ d \in Fds /\ sys.file[d].kind = "free" /\ g \in Fds /\ sys.file[g].kind = "listening"
  BY LowestFree DEF connect_to_path, Inv, Vacant, Fresh, FdOf
<1>3. e \in Ends /\ sys.end[e].state = "none"
  BY FreshIsEnd DEF connect_to_path
<1>4. options \in Options
  BY Planned
<1>. HIDE DEF e, d, g
<1>5. /\ Good(E, InHand) /\ Same(sys, E, {}, {}, {})
      /\ E.transport = sys.transport
      /\ Unused(E, e) /\ E.end[e].state = "open"
  BY <1>2, <1>3, EnqueueGood
<1>6. E.file[d].kind = "free" /\ FdOf(E, t) = NoFd /\ E.end[e].state \in {"open", "shut"}
  BY <1>2, <1>5 DEF FdOf, Same, Alike
<1>. HIDE DEF E
<1>7. Good(sys', InHand) /\ Same(E, sys', {d}, {d}, {t})
  BY <1>1, <1>2, <1>3, <1>4, <1>5, <1>6, NewStreamGood
<1>8. Same(sys, sys', {d}, {d}, {t})
  <2>1. Same(sys, E, {d}, {d}, {t})
    BY <1>5, SameMore
  <2>. QED
    BY <1>7, <2>1, SameTwice
<1>9. d \notin InHand /\ \A u \in Transports : FdOf(sys, u) # d
  BY <1>2, FreeIsNobodys
<1>10. {d} \in SUBSET Fds /\ {d} \cap InHand = {} /\ \A u \in Transports : FdOf(sys, u) \notin {d}
  BY <1>2, <1>9
<1>. QED
  BY <1>2, <1>7, <1>8, <1>10, NewFdStep

\* A listener that is open listens on a descriptor of its own.
LEMMA OpenListener ==
  ASSUME Inv, NEW l \in Listeners, At(l, "open")
  PROVE  Fd(l) \in Fds /\ Fd(l) \in InHand /\ sys.file[Fd(l)].kind = "listening"
<1>1. Fd(l) # NoFd
  BY DEF Inv, ListenerInv, HasSocket, At
<1>. QED
  BY <1>1, HandFacts DEF Inv, ListenerInv

LEMMA ClientArrivesStep ==
  ASSUME Inv, NEW l \in Listeners, ClientArrives(l)
  PROVE  StepOK
<1>. DEFINE e == FreshEnd(sys)
<1>1. UnchangedButSys /\ sys' = Enqueue(sys, Fd(l), e) /\ At(l, "open") /\ Good(sys, InHand)
  BY DEF ClientArrives, Inv
<1>2. e \in Ends /\ sys.end[e].state = "none"
  BY FreshIsEnd DEF ClientArrives
<1>. HIDE DEF e
<1>3. Good(sys', InHand) /\ Same(sys, sys', {}, {}, {})
  BY <1>1, <1>2, OpenListener, EnqueueGood
<1>4. {} \in SUBSET Fds /\ {} \cap InHand = {} /\ (\A t \in Transports : FdOf(sys, t) \notin {})
      /\ \A t \in {} : Vacant(t)
  OBVIOUS
<1>. QED
  BY <1>1, <1>3, <1>4, NewFdStep

LEMMA AcceptStep ==
  ASSUME Inv, NEW l \in Listeners, NEW t \in Transports, accept(l, t)
  PROVE  StepOK
<1>. DEFINE d == LowestFd(sys)
            g == Fd(l)
            e == Head(sys.file[g].queue)
            Q == [sys EXCEPT !.file[g].queue = Tail(@)]
            options == listener[l].options
            S == OpenFile(Q, d, "stream", e, options.own)
<1>1. PICK outcome \in Outcomes : sys' = Adopt(S, t, d, options, outcome)
  BY DEF accept
<1>2. /\ Vacant(t) /\ UnchangedButSys /\ Good(sys, InHand) /\ FdOf(sys, t) = NoFd
      /\ d \in Fds /\ sys.file[d].kind = "free" /\ sys.file[g].queue # << >> /\ At(l, "open")
  BY LowestFree DEF accept, Inv, Vacant, Fresh, FdOf
<1>3. g \in Fds /\ sys.file[g].kind = "listening"
  BY <1>2, OpenListener
<1>4. options \in Options
  BY DEF Inv, ControlTypeOK, ListenerRecords
<1>. HIDE DEF d, g, options
<1>5. /\ Good(Q, InHand) /\ Same(sys, Q, {}, {}, {})
      /\ Q.transport = sys.transport
      /\ e \in Ends /\ Unused(Q, e) /\ Q.end[e].state \in {"open", "shut"}
  BY <1>2, <1>3, DequeueGood
<1>6. Q.file[d].kind = "free" /\ FdOf(Q, t) = NoFd
  BY <1>2, <1>5 DEF FdOf, Same, Alike
<1>. HIDE DEF Q, e
<1>7. Good(sys', InHand) /\ Same(Q, sys', {d}, {d}, {t})
  BY <1>1, <1>2, <1>4, <1>5, <1>6, NewStreamGood
<1>8. Same(sys, sys', {d}, {d}, {t})
  <2>1. Same(sys, Q, {d}, {d}, {t})
    BY <1>5, SameMore
  <2>. QED
    BY <1>7, <2>1, SameTwice
<1>9. d \notin InHand /\ \A u \in Transports : FdOf(sys, u) # d
  BY <1>2, FreeIsNobodys
<1>10. {d} \in SUBSET Fds /\ {d} \cap InHand = {} /\ \A u \in Transports : FdOf(sys, u) \notin {d}
  BY <1>2, <1>9
<1>. QED
  BY <1>2, <1>7, <1>8, <1>10, NewFdStep

-----------------------------------------------------------------------------
(* Steps of a connect call, and the network's answer.                      *)

\* A descriptor that nobody holds may be taken in hand, and one that nobody
\* was to close may be let go of.
LEMMA TakeGood ==
  ASSUME NEW S, NEW H, Good(S, H), NEW d \in Fds, S.file[d].kind # "free", d \notin S.app,
         \A t \in Transports : FdOf(S, t) # d
  PROVE  Good(S, H \cup {d})
<1>1. \A x \in (H \cup {d}) \cup S.app : Live(S, x)
  BY DEF Good, Sound, Live
<1>2. (H \cup {d}) \cap S.app = {}
  BY DEF Good, Sound
<1>. QED
  BY <1>1, <1>2 DEF Good, Sound

LEMMA LetGoGood ==
  ASSUME NEW S, NEW H, NEW d, Good(S, H \cup {d}), d \in Fds => ~S.file[d].own
  PROVE  Good(S, H)
BY DEF Good, Sound

\* Steps that leave the listeners and the writev() in progress alone.
LEMMA ConnectCase ==
  ASSUME Inv, UnchangedButConnect, connect' \in ConnectRecords, ConnectInv',
         NEW D, NEW U, Same(sys, sys', D, D, U), D \subseteq Fds, Good(sys', InHand'),
         \A l \in Listeners : Fd(l) # NoFd => Fd(l) \notin D /\ Fd(l) # connect'.fd,
         \A t \in Transports : FdOf(sys, t) \notin D,
         \A t \in U : FdOf(sys, t) = NoFd
  PROVE  StepOK
<1>1. /\ listener' = listener /\ gather' = gather /\ plan' = plan
      /\ reported' = reported /\ alone' = alone
  BY DEF UnchangedButConnect
<1>2. ControlTypeOK'
  BY <1>1 DEF Inv, ControlTypeOK
<1>3. GatherInv' /\ ReportsAreTrue'
  <2>1. gather # NoGather => gather.t \notin U /\ FdOf(sys, gather.t) \notin D
    BY DEF Inv, GatherInv
  <2>. QED
    BY <1>1, <2>1, KeepGather
<1>4. ListenerInv' /\ AloneInv' /\ PathsAreOwned'
  BY <1>1, KeepListeners
<1>5. FinalStep /\ PipeStep
  BY QuietStep
<1>. QED
  BY <1>2, <1>3, <1>4, <1>5 DEF StepOK, Inv

LEMMA NetworkStep ==
  ASSUME Inv, NEW d \in Fds, NetworkAnswers(d)
  PROVE  StepOK
<1>1. /\ UnchangedButSys /\ Good(sys, InHand) /\ sys \in Systems /\ sys.file[d].kind = "connecting"
  BY HandFacts DEF NetworkAnswers, Inv
<1>2. d \notin sys.app /\ \A t \in Transports : FdOf(sys, t) # d
  BY <1>1, FdFacts DEF Good, Sound, Ready
<1>3. Good(sys, InHand \cup {d})
  BY <1>1, <1>2, TakeGood
<1>4. /\ Good(sys', InHand \cup {d}) /\ Same(sys, sys', {d}, {}, {})
      /\ sys'.transport = sys.transport
      /\ sys'.file[d].own = sys.file[d].own /\ sys'.file[d].nonblock = sys.file[d].nonblock
      /\ sys'.file[d].asked = sys.file[d].asked
  <2>1. CASE FreshEnds(sys) # {} /\ sys' = Establish(sys, d)
    BY <1>1, <1>3, <2>1, EstablishGood
  <2>2. CASE sys' = [sys EXCEPT !.file[d].kind = "refused"]
    <3>. DEFINE f == [sys.file[d] EXCEPT !.kind = "refused"]
    <3>1. f \in Files /\ f.kind = "refused" /\ f.end = sys.file[d].end
      BY <1>1, SMTT(30) DEF Systems, Files, Kinds
    <3>2. f.queue = sys.file[d].queue
      BY <1>1 DEF Systems, Files, Kinds
    <3>3. f.own = sys.file[d].own /\ f.nonblock = sys.file[d].nonblock
      BY <1>1 DEF Systems, Files, Kinds
    <3>4. f.asked = sys.file[d].asked
      BY <1>1 DEF Systems, Files, Kinds
    <3>5. sys' = [sys EXCEPT !.file = [sys.file EXCEPT ![d] = f]]
      BY <1>1, <2>2 DEF Systems
    <3>. HIDE DEF f
    <3>6. /\ sys' \in Systems /\ sys'.file[d] = f /\ \A x \in Fds \ {d} : sys'.file[x] = sys.file[x]
          /\ sys'.end = sys.end /\ sys'.path = sys.path
          /\ sys'.transport = sys.transport /\ sys'.app = sys.app
      BY <1>1, <3>1, <3>5 DEF Systems
    <3>7. Good(sys', InHand \cup {d})
      BY <1>1, <1>3, <3>1, <3>2, <3>6, HeldFileGood
    <3>8. Same(sys, sys', {d}, {}, {})
      BY <3>6 DEF Same, Alike, SameBytes
    <3>. QED
      BY <3>3, <3>4, <3>6, <3>7, <3>8
  <2>. QED
    BY <2>1, <2>2 DEF NetworkAnswers
<1>5. Good(sys', InHand)
  <2>1. CASE d \in InHand
    <3>1. InHand \cup {d} = InHand
      BY <2>1
    <3>. QED
      BY <1>4, <3>1
  <2>2. CASE d \notin InHand
    <3>1. ~sys.file[d].own
      BY <1>1, <1>2, <2>2 DEF Good, Sound, Live
    <3>. QED
      BY <1>4, <3>1, LetGoGood
  <2>. QED
    BY <2>1, <2>2
<1>6. /\ listener' = listener /\ connect' = connect /\ gather' = gather /\ plan' = plan
      /\ reported' = reported /\ alone' = alone
  BY <1>1 DEF UnchangedButSys
<1>7. ConnectInv'
  <2>1. CASE connect.fd # d
    <3>1. connect.t \in {} /\ ~Connecting("idle") => FdOf(sys', connect.t) = NoFd
      OBVIOUS
    <3>2. connect.fd # NoFd => connect.fd \notin {d}
      BY <2>1
    <3>. QED
      BY <1>4, <1>6, <3>1, <3>2, KeepConnect
  <2>2. CASE connect.fd = d
    <3>1. ~Connecting("start") /\ ~Connecting("finish") /\ ~(Connecting("restore") /\ connect.ok)
      BY <1>1, <2>2, FdFacts DEF Inv, ConnectInv
    <3>2. ~Connecting("idle") => connect.t \in Transports /\ FdOf(sys', connect.t) = NoFd
      BY <1>4 DEF Inv, ConnectInv, FdOf
    <3>. QED
      BY <1>4, <1>6, <2>2, <3>1, <3>2 DEF Inv, ConnectInv, Connecting
  <2>. QED
    BY <2>1, <2>2
<1>8. connect' \in ConnectRecords
  BY <1>6 DEF Inv, ControlTypeOK
<1>9. InHand' = InHand
  BY <1>6 DEF InHand, Fd
<1>10. UnchangedButConnect
  BY <1>6 DEF UnchangedButConnect
<1>11. Same(sys, sys', {d}, {d}, {})
  BY <1>4, SameMore
<1>12. \A l \in Listeners : Fd(l) # NoFd => Fd(l) \notin {d} /\ Fd(l) # connect'.fd
  BY <1>1, <1>6 DEF Inv, ListenerInv
<1>13. {d} \subseteq Fds /\ (\A t \in Transports : FdOf(sys, t) \notin {d})
       /\ \A t \in {} : FdOf(sys, t) = NoFd
  BY <1>2
<1>14. Good(sys', InHand')
  BY <1>5, <1>9
<1>. QED
  BY <1>7, <1>8, <1>10, <1>11, <1>12, <1>13, <1>14, ConnectCase

\* What a connect call knows of the socket it holds.
LEMMA HeldSocket ==
  ASSUME Inv, connect.fd # NoFd
  PROVE  /\ Good(sys, InHand) /\ connect.fd \in Fds /\ connect.fd \in InHand
         /\ Live(sys, connect.fd) /\ connect.fd \notin sys.app
         /\ \A l \in Listeners : Fd(l) # NoFd => Fd(l) # connect.fd
         /\ \A t \in Transports : FdOf(sys, t) # connect.fd
         /\ connect.t \in Transports /\ FdOf(sys, connect.t) = NoFd
         /\ connect.options \in Options
<1>1. connect.fd \in Fds /\ connect.fd \in InHand /\ Live(sys, connect.fd) /\ connect.fd \notin sys.app
      /\ \A t \in Transports : FdOf(sys, t) # connect.fd
  BY HandFacts
<1>2. connect.t \in Transports /\ FdOf(sys, connect.t) = NoFd
  BY DEF Inv, ConnectInv, Connecting
<1>3. connect.options \in Options
  BY DEF Inv, ControlTypeOK, ConnectRecords
<1>. QED
  BY <1>1, <1>2, <1>3 DEF Inv, ListenerInv

\* The call lets go of its socket, or never had one.
LEMMA HandWithout ==
  ASSUME Inv, UnchangedButConnect, connect'.fd = NoFd
  PROVE  InHand' = InHand \ {connect.fd}
<1>1. \A l \in Listeners : Fd(l)' = Fd(l)
  BY DEF UnchangedButConnect, Fd
<1>2. \A l \in Listeners : Fd(l) # NoFd => Fd(l) # connect.fd
  BY DEF Inv, ListenerInv
<1>. QED
  BY <1>1, <1>2 DEF InHand

LEMMA HandWith ==
  ASSUME UnchangedButConnect, connect'.fd # NoFd, connect.fd \in {NoFd, connect'.fd}
  PROVE  InHand' = InHand \cup {connect'.fd}
<1>1. \A l \in Listeners : Fd(l)' = Fd(l)
  BY DEF UnchangedButConnect, Fd
<1>. QED
  BY <1>1 DEF InHand

LEMMA OverIsRight ==
  ASSUME connect' = NoConnect
  PROVE  ConnectInv' /\ connect' \in ConnectRecords /\ connect'.fd = NoFd
<1>1. NoConnect.at = "idle" /\ NoConnect.fd = NoFd
  BY DEF NoConnect
<1>2. NoConnect \in ConnectRecords
  BY DEF NoConnect, ConnectRecords, NoOptions, Options
<1>. QED
  BY <1>1, <1>2 DEF ConnectInv, Connecting

\* Steps of the call that touch no descriptor.
LEMMA ConnectQuiet ==
  ASSUME Inv, UnchangedButConnect, sys' = sys, connect' \in ConnectRecords, ConnectInv',
         connect'.fd = connect.fd
  PROVE  StepOK
<1>1. InHand' = InHand
  BY DEF UnchangedButConnect, InHand, Fd
<1>2. Good(sys', InHand') /\ Same(sys, sys', {}, {}, {})
  BY <1>1 DEF Inv, Same, Alike, SameBytes
<1>3. \A l \in Listeners : Fd(l) # NoFd => Fd(l) \notin {} /\ Fd(l) # connect'.fd
  BY DEF Inv, ListenerInv
<1>4. {} \subseteq Fds /\ (\A t \in Transports : FdOf(sys, t) \notin {})
      /\ \A t \in {} : FdOf(sys, t) = NoFd
  OBVIOUS
<1>. QED
  BY <1>2, <1>3, <1>4, ConnectCase

LEMMA BeginConnectStep ==
  ASSUME Inv, NEW t \in Transports, NEW class \in {"tcp", "posix"}, NEW options \in PlannedOptions,
         BeginConnect(t, class, options)
  PROVE  StepOK
<1>1. /\ UnchangedButConnect /\ sys' = sys /\ Connecting("idle") /\ FdOf(sys, t) = NoFd
      /\ connect' = [NoConnect EXCEPT !.at = "address", !.t = t, !.class = class,
                                      !.tries = Addresses, !.options = options]
  BY DEF BeginConnect, Vacant, Fresh, FdOf
<1>2. options \in Options /\ Addresses \in Nat
  BY Planned, TransportAssumption DEF TransportAssumption
<1>3. NoConnect \in ConnectRecords /\ NoConnect.fd = NoFd
  BY DEF NoConnect, ConnectRecords, NoOptions, Options
<1>4. connect' \in ConnectRecords
  BY <1>1, <1>2, <1>3 DEF ConnectRecords
<1>5. connect'.at = "address" /\ connect'.t = t /\ connect'.fd = NoFd
  BY <1>1 DEF NoConnect
<1>6. ConnectInv'
  BY <1>1, <1>5 DEF ConnectInv, Connecting
<1>7. connect.fd = NoFd
  BY <1>1 DEF Inv, ConnectInv, NoConnect
<1>. QED
  BY <1>1, <1>4, <1>5, <1>6, <1>7, ConnectQuiet

LEMMA NoAddressLeftStep ==
  ASSUME Inv, NoAddressLeft
  PROVE  StepOK
<1>1. UnchangedButConnect /\ sys' = sys /\ connect' = NoConnect /\ Connecting("address")
  BY DEF NoAddressLeft
<1>2. connect.fd = NoFd
  BY <1>1 DEF Inv, ConnectInv, Connecting
<1>. QED
  BY <1>1, <1>2, OverIsRight, ConnectQuiet

LEMMA SkipAddressStep ==
  ASSUME Inv, SkipAddress
  PROVE  StepOK
<1>1. /\ UnchangedButConnect /\ sys' = sys /\ connect' = [connect EXCEPT !.tries = @ - 1]
      /\ connect.at = "address" /\ connect.tries > 0 /\ connect \in ConnectRecords
  BY DEF SkipAddress, Inv, ControlTypeOK, Connecting
<1>2. connect' \in ConnectRecords
  BY <1>1 DEF ConnectRecords
<1>3. connect'.at = "address" /\ connect'.t = connect.t /\ connect'.fd = connect.fd
  BY <1>1 DEF ConnectRecords
<1>4. connect.fd = NoFd /\ connect.t \in Transports /\ FdOf(sys, connect.t) = NoFd
  BY <1>1 DEF Inv, ConnectInv, Connecting
<1>5. ConnectInv'
  BY <1>1, <1>3, <1>4 DEF ConnectInv, Connecting
<1>. QED
  BY <1>1, <1>2, <1>3, <1>5, ConnectQuiet

\* The state of a call that goes on with the socket it holds.
LEMMA GoesOn ==
  ASSUME Inv, connect.fd # NoFd, connect' \in ConnectRecords, connect'.fd = connect.fd,
         connect'.t = connect.t, connect'.options = connect.options,
         connect'.at \in {"poll", "restore", "drop", "finish"},
         FdOf(sys', connect.t) = FdOf(sys, connect.t),
         sys'.file[connect.fd].own = sys.file[connect.fd].own,
         sys'.file[connect.fd].asked = sys.file[connect.fd].asked,
         connect'.at \in {"drop", "finish"} => ~sys'.file[connect.fd].nonblock,
         connect'.at = "restore" /\ connect'.ok => sys'.file[connect.fd].kind = "stream",
         connect'.at = "finish" => sys'.file[connect.fd].kind = "stream"
  PROVE  ConnectInv'
<1>1. connect.t \in Transports /\ FdOf(sys', connect.t) = NoFd
  BY HeldSocket
<1>2. sys.file[connect.fd].own = connect.options.own /\ ~sys.file[connect.fd].asked
  BY DEF Inv, ConnectInv
<1>. QED
  BY <1>1, <1>2 DEF ConnectInv, Connecting

LEMMA PollReadyStep ==
  ASSUME Inv, PollReady
  PROVE  StepOK
<1>1. /\ UnchangedButConnect /\ sys' = sys /\ connect.at = "poll" /\ connect \in ConnectRecords
      /\ connect' = [connect EXCEPT !.at = "restore", !.ok = sys.file[Holding].kind = "stream"]
  BY DEF PollReady, Inv, ControlTypeOK, Connecting
<1>2. connect' \in ConnectRecords
  BY <1>1 DEF ConnectRecords
<1>3. /\ connect'.at = "restore" /\ connect'.t = connect.t /\ connect'.fd = connect.fd
      /\ connect'.options = connect.options
  BY <1>1 DEF ConnectRecords
<1>4. connect'.ok => sys.file[connect.fd].kind = "stream"
  BY <1>1 DEF ConnectRecords, Holding
<1>5. connect.fd # NoFd
  BY <1>1 DEF Inv, ConnectInv
<1>6. ConnectInv'
  BY <1>1, <1>2, <1>3, <1>4, <1>5, GoesOn
<1>. QED
  BY <1>1, <1>2, <1>3, <1>6, ConnectQuiet

LEMMA PollTimesOutStep ==
  ASSUME Inv, PollTimesOut
  PROVE  StepOK
<1>1. /\ UnchangedButConnect /\ sys' = sys /\ connect.at = "poll" /\ connect \in ConnectRecords
      /\ connect' = [connect EXCEPT !.at = "restore", !.ok = FALSE]
  BY DEF PollTimesOut, Inv, ControlTypeOK, Connecting
<1>2. connect' \in ConnectRecords
  BY <1>1 DEF ConnectRecords
<1>3. /\ connect'.at = "restore" /\ connect'.t = connect.t /\ connect'.fd = connect.fd
      /\ connect'.options = connect.options /\ ~connect'.ok
  BY <1>1 DEF ConnectRecords
<1>4. connect.fd # NoFd
  BY <1>1 DEF Inv, ConnectInv
<1>5. ConnectInv'
  BY <1>1, <1>2, <1>3, <1>4, GoesOn
<1>. QED
  BY <1>1, <1>2, <1>3, <1>5, ConnectQuiet

LEMMA OpenSocketStep ==
  ASSUME Inv, OpenSocket
  PROVE  StepOK
<1>. DEFINE d == LowestFd(sys)
            own == connect.options.own
<1>1. /\ UnchangedButConnect /\ sys' = OpenFile(sys, d, "socket", NoEnd, own)
      /\ connect' = [connect EXCEPT !.at = "start", !.fd = d, !.tries = @ - 1]
      /\ connect.at = "address" /\ connect.tries > 0 /\ connect \in ConnectRecords
      /\ Good(sys, InHand) /\ d \in Fds /\ sys.file[d].kind = "free"
  BY LowestFree DEF OpenSocket, Inv, ControlTypeOK, Connecting
<1>2. own \in BOOLEAN
  BY <1>1 DEF ConnectRecords, Options
<1>. HIDE DEF d
<1>3. connect' \in ConnectRecords
  <2>1. connect.tries - 1 \in Nat
    BY <1>1 DEF ConnectRecords
  <2>2. connect' = [connect EXCEPT !.at = "start", !.fd = d, !.tries = connect.tries - 1]
    BY <1>1
  <2>3. d \in {NoFd} \cup Fds /\ connect \in ConnectRecords
    BY <1>1
  <2>. QED
    BY <2>1, <2>2, <2>3 DEF ConnectRecords
<1>4. connect'.at = "start" /\ connect'.t = connect.t /\ connect'.fd = d
      /\ connect'.options = connect.options
  BY <1>1 DEF ConnectRecords
<1>5. connect.fd = NoFd /\ connect.t \in Transports /\ FdOf(sys, connect.t) = NoFd
  BY <1>1 DEF Inv, ConnectInv, Connecting
<1>6. Opened(sys, sys', InHand, d, "socket", NoEnd, own)
  <2>1. "socket" \in Kinds \ {"free"} /\ ((NoEnd # NoEnd) <=> ("socket" = "stream"))
    BY Streams
  <2>2. NoEnd \in {NoEnd} \cup Ends
        /\ (NoEnd # NoEnd => Unused(sys, NoEnd) /\ sys.end[NoEnd].state \in {"open", "shut"})
    OBVIOUS
  <2>. HIDE DEF own
  <2>. QED
    BY <1>1, <1>2, <2>1, <2>2, OpenFileGood
<1>7. Good(sys', InHand \cup {d}) /\ Same(sys, sys', {d}, {}, {})
  BY <1>6 DEF Opened
<1>8. d \notin InHand /\ (\A t \in Transports : FdOf(sys, t) # d) /\ sys'.transport = sys.transport
  BY <1>6 DEF Opened
<1>9. IsNewFile(sys'.file[d], "socket", NoEnd, own)
  BY <1>6 DEF Opened
<1>10. sys'.file[d].own = connect.options.own /\ ~sys'.file[d].asked /\ sys'.file[d].kind = "socket"
  BY <1>9 DEF IsNewFile
<1>11. d # NoFd
  BY <1>1, FdFacts
<1>12. ConnectInv'
  BY <1>4, <1>5, <1>8, <1>10, <1>11 DEF ConnectInv, Connecting, FdOf
<1>13. Good(sys', InHand')
  BY <1>1, <1>4, <1>5, <1>7, <1>11, HandWith
<1>14. Same(sys, sys', {d}, {d}, {})
  BY <1>7, SameMore
<1>15. \A l \in Listeners : Fd(l) # NoFd => Fd(l) \notin {d} /\ Fd(l) # connect'.fd
  BY <1>4, <1>8, HandFacts
<1>16. {d} \subseteq Fds /\ (\A t \in Transports : FdOf(sys, t) \notin {d})
       /\ \A t \in {} : FdOf(sys, t) = NoFd
  BY <1>1, <1>8
<1>. QED
  BY <1>1, <1>3, <1>12, <1>13, <1>14, <1>15, <1>16, ConnectCase

\* Whoever has a descriptor in hand puts another file in its place.
LEMMA SetFileGood ==
  ASSUME NEW S, NEW H, Good(S, H), NEW d \in H, NEW f \in Files,
         f.kind # "free", (f.kind = "stream") <=> (S.file[d].kind = "stream"),
         f.end = S.file[d].end, f.queue = S.file[d].queue
  PROVE  LET T == [S EXCEPT !.file = [S.file EXCEPT ![d] = f]]
         IN  /\ Good(T, H) /\ Same(S, T, {d}, {}, {})
             /\ T.file[d] = f /\ T.transport = S.transport /\ T.end = S.end
             /\ T.path = S.path /\ T.app = S.app
<1>. DEFINE T == [S EXCEPT !.file = [S.file EXCEPT ![d] = f]]
<1>1. S \in Systems /\ d \in Fds
  BY GoodSystems DEF Good, Sound, Live
<1>2. /\ T \in Systems /\ T.file[d] = f /\ \A x \in Fds \ {d} : T.file[x] = S.file[x]
      /\ T.end = S.end /\ T.path = S.path /\ T.transport = S.transport /\ T.app = S.app
  BY <1>1 DEF Systems
<1>. HIDE DEF T
<1>3. Good(T, H)
  BY <1>2, HeldFileGood
<1>4. Same(S, T, {d}, {}, {})
  BY <1>2 DEF Same, Alike, SameBytes
<1>. QED
  BY <1>2, <1>3, <1>4 DEF T

\* The mode of a held socket is changed, and its kind short of a stream.
LEMMA ModeGood ==
  ASSUME NEW S, NEW H, Good(S, H), NEW d \in H, NEW mode \in BOOLEAN
  PROVE  LET T == [S EXCEPT !.file[d].nonblock = mode]
         IN  /\ Good(T, H) /\ Same(S, T, {d}, {}, {})
             /\ T.transport = S.transport /\ T.end = S.end
             /\ T.file[d].kind = S.file[d].kind
             /\ T.file[d].own = S.file[d].own /\ T.file[d].asked = S.file[d].asked
             /\ T.file[d].nonblock = mode
<1>. DEFINE T == [S EXCEPT !.file[d].nonblock = mode]
            f == [S.file[d] EXCEPT !.nonblock = mode]
<1>1. S \in Systems /\ d \in Fds /\ S.file[d].kind # "free"
  BY GoodSystems DEF Good, Sound, Live
<1>2. S.file[d] \in Files
  BY <1>1, SystemFields
<1>3. f \in Files /\ f.nonblock = mode
  BY <1>2 DEF Files
<1>4. f.kind = S.file[d].kind /\ f.end = S.file[d].end /\ f.queue = S.file[d].queue
  BY <1>2 DEF Files
<1>5. f.own = S.file[d].own /\ f.asked = S.file[d].asked
  BY <1>2 DEF Files
<1>6. T = [S EXCEPT !.file = [S.file EXCEPT ![d] = f]]
  BY <1>1 DEF Systems
<1>. HIDE DEF T, f
<1>7. /\ Good(T, H) /\ Same(S, T, {d}, {}, {})
      /\ T.file[d] = f /\ T.transport = S.transport /\ T.end = S.end
  BY <1>1, <1>3, <1>4, <1>6, SetFileGood
<1>. QED
  BY <1>3, <1>4, <1>5, <1>7 DEF T

LEMMA KindGood ==
  ASSUME NEW S, NEW H, Good(S, H), NEW d \in H, NEW kind \in Kinds \ {"free", "stream"},
         S.file[d].kind # "stream"
  PROVE  LET T == [S EXCEPT !.file[d].kind = kind]
         IN  /\ Good(T, H) /\ Same(S, T, {d}, {}, {})
             /\ T.transport = S.transport /\ T.file[d].kind = kind
             /\ T.path = S.path
             /\ T.file[d].own = S.file[d].own /\ T.file[d].asked = S.file[d].asked
<1>. DEFINE T == [S EXCEPT !.file[d].kind = kind]
            f == [S.file[d] EXCEPT !.kind = kind]
<1>1. S \in Systems /\ d \in Fds
  BY GoodSystems DEF Good, Sound, Live
<1>2. S.file[d] \in Files
  BY <1>1, SystemFields
<1>3. f \in Files /\ f.kind = kind
  BY <1>2 DEF Files
<1>4. f.end = S.file[d].end /\ f.queue = S.file[d].queue
  BY <1>2 DEF Files
<1>5. f.own = S.file[d].own /\ f.asked = S.file[d].asked
  BY <1>2 DEF Files
<1>6. T = [S EXCEPT !.file = [S.file EXCEPT ![d] = f]]
  BY <1>1 DEF Systems
<1>. HIDE DEF T, f
<1>7. f.kind # "free" /\ ((f.kind = "stream") <=> (S.file[d].kind = "stream"))
  BY <1>3
<1>8. /\ Good(T, H) /\ Same(S, T, {d}, {}, {})
      /\ T.file[d] = f /\ T.transport = S.transport /\ T.path = S.path
  BY <1>3, <1>4, <1>6, <1>7, SetFileGood
<1>. QED
  BY <1>3, <1>5, <1>8 DEF T

\* A step of the call on the socket it holds, and keeps.
LEMMA SocketStep ==
  ASSUME Inv, UnchangedButConnect, connect.fd # NoFd, connect' \in ConnectRecords,
         connect'.fd = connect.fd, ConnectInv', Good(sys', InHand),
         Same(sys, sys', {connect.fd}, {}, {})
  PROVE  StepOK
<1>1. InHand' = InHand
  BY DEF UnchangedButConnect, InHand, Fd
<1>2. Same(sys, sys', {connect.fd}, {connect.fd}, {})
  BY SameMore
<1>3. \A l \in Listeners : Fd(l) # NoFd => Fd(l) \notin {connect.fd} /\ Fd(l) # connect'.fd
  BY HeldSocket
<1>4. {connect.fd} \subseteq Fds /\ (\A t \in Transports : FdOf(sys, t) \notin {connect.fd})
      /\ \A t \in {} : FdOf(sys, t) = NoFd
  BY HeldSocket
<1>5. Good(sys', InHand')
  BY <1>1
<1>. QED
  BY <1>2, <1>3, <1>4, <1>5, ConnectCase

LEMMA StartConnectStep ==
  ASSUME Inv, StartConnect
  PROVE  StepOK
<1>. DEFINE d == connect.fd
            S == [sys EXCEPT !.file[d].nonblock = TRUE]
<1>1. UnchangedButConnect /\ connect.at = "start" /\ connect \in ConnectRecords
  BY DEF StartConnect, Connecting, Inv, ControlTypeOK
<1>2. d # NoFd
  BY <1>1 DEF Inv, ConnectInv
<1>3. Good(sys, InHand) /\ d \in InHand /\ sys.file[d].kind = "socket"
  BY <1>1, <1>2, HeldSocket DEF Inv, ConnectInv, Connecting
<1>4. /\ Good(S, InHand) /\ Same(sys, S, {d}, {}, {})
      /\ S.transport = sys.transport /\ S.end = sys.end
      /\ S.file[d].kind = "socket"
      /\ S.file[d].own = sys.file[d].own /\ S.file[d].asked = sys.file[d].asked
  <2>1. PICK mode \in BOOLEAN : mode = TRUE
    OBVIOUS
  <2>2. S = [sys EXCEPT !.file[d].nonblock = mode]
    BY <2>1
  <2>. HIDE DEF S
  <2>. QED
    BY <1>3, <2>2, ModeGood
<1>5. CASE /\ FreshEnds(sys) # {} /\ sys' = Establish(S, d)
           /\ connect' = [connect EXCEPT !.at = "restore", !.ok = TRUE]
  <2>1. connect' \in ConnectRecords
    BY <1>1, <1>5 DEF ConnectRecords
  <2>2. /\ connect'.at = "restore" /\ connect'.t = connect.t /\ connect'.fd = d
        /\ connect'.options = connect.options
    BY <1>1, <1>5 DEF ConnectRecords
  <2>. HIDE DEF S
  <2>3. FreshEnds(S) # {}
    BY <1>4, <1>5 DEF FreshEnds
  <2>4. S.file[d].kind # "stream"
    BY <1>4
  <2>5. /\ Good(sys', InHand) /\ Same(S, sys', {d}, {}, {}) /\ sys'.transport = S.transport
        /\ sys'.file[d].kind = "stream" /\ sys'.file[d].own = S.file[d].own
        /\ sys'.file[d].asked = S.file[d].asked
    BY <1>3, <1>4, <1>5, <2>3, <2>4, EstablishGood, ZenonT(30)
  <2>6. Same(sys, sys', {d}, {}, {})
    BY <1>4, <2>5, SameTwice
  <2>7. FdOf(sys', connect.t) = FdOf(sys, connect.t)
    BY <1>4, <2>5 DEF FdOf
  <2>8. ConnectInv'
    BY <1>2, <1>4, <2>1, <2>2, <2>5, <2>7, GoesOn
  <2>. QED
    BY <1>1, <1>2, <2>1, <2>2, <2>5, <2>6, <2>8, SocketStep
<1>6. CASE /\ sys' = S
           /\ connect' = [connect EXCEPT !.at = "restore", !.ok = FALSE]
  <2>1. connect' \in ConnectRecords
    BY <1>1, <1>6 DEF ConnectRecords
  <2>2. /\ connect'.at = "restore" /\ connect'.t = connect.t /\ connect'.fd = d
        /\ connect'.options = connect.options /\ ~connect'.ok
    BY <1>1, <1>6 DEF ConnectRecords
  <2>. HIDE DEF S
  <2>3. FdOf(sys', connect.t) = FdOf(sys, connect.t)
    BY <1>4, <1>6 DEF FdOf
  <2>4. ConnectInv'
    BY <1>2, <1>4, <1>6, <2>1, <2>2, <2>3, GoesOn
  <2>. QED
    BY <1>1, <1>2, <1>4, <1>6, <2>1, <2>2, <2>4, SocketStep
<1>7. CASE /\ sys' = [S EXCEPT !.file[d].kind = "connecting"]
           /\ connect' = [connect EXCEPT !.at = "poll"]
  <2>1. connect' \in ConnectRecords
    BY <1>1, <1>7 DEF ConnectRecords
  <2>2. /\ connect'.at = "poll" /\ connect'.t = connect.t /\ connect'.fd = d
        /\ connect'.options = connect.options
    BY <1>1, <1>7 DEF ConnectRecords
  <2>. HIDE DEF S
  <2>3. "connecting" \in Kinds \ {"free", "stream"} /\ S.file[d].kind # "stream"
    BY <1>4 DEF Kinds
  <2>4. /\ Good(sys', InHand) /\ Same(S, sys', {d}, {}, {}) /\ sys'.transport = S.transport
        /\ sys'.file[d].own = S.file[d].own /\ sys'.file[d].asked = S.file[d].asked
    BY <1>3, <1>4, <1>7, <2>3, KindGood
  <2>5. Same(sys, sys', {d}, {}, {})
    BY <1>4, <2>4, SameTwice
  <2>6. FdOf(sys', connect.t) = FdOf(sys, connect.t)
    BY <1>4, <2>4 DEF FdOf
  <2>7. ConnectInv'
    BY <1>2, <1>4, <2>1, <2>2, <2>4, <2>6, GoesOn
  <2>. QED
    BY <1>1, <1>2, <2>1, <2>2, <2>4, <2>5, <2>7, SocketStep
<1>. QED
  BY <1>5, <1>6, <1>7 DEF StartConnect, Holding

LEMMA RestoreFlagsStep ==
  ASSUME Inv, RestoreFlags
  PROVE  StepOK
<1>. DEFINE d == connect.fd
<1>1. /\ UnchangedButConnect /\ connect.at = "restore" /\ connect \in ConnectRecords
      /\ sys' = [sys EXCEPT !.file[d].nonblock = FALSE]
      /\ connect' = [connect EXCEPT !.at = IF connect.ok THEN "finish" ELSE "drop"]
  BY DEF RestoreFlags, Connecting, Inv, ControlTypeOK, Holding
<1>2. d # NoFd
  BY <1>1 DEF Inv, ConnectInv
<1>3. Good(sys, InHand) /\ d \in InHand
  BY <1>2, HeldSocket
<1>4. /\ Good(sys', InHand) /\ Same(sys, sys', {d}, {}, {})
      /\ sys'.transport = sys.transport /\ sys'.file[d].kind = sys.file[d].kind
      /\ sys'.file[d].own = sys.file[d].own /\ sys'.file[d].asked = sys.file[d].asked
      /\ ~sys'.file[d].nonblock
  <2>1. PICK mode \in BOOLEAN : mode = FALSE
    OBVIOUS
  <2>2. sys' = [sys EXCEPT !.file[d].nonblock = mode]
    BY <1>1, <2>1
  <2>. QED
    BY <1>3, <2>1, <2>2, ModeGood
<1>5. connect' \in ConnectRecords
  BY <1>1 DEF ConnectRecords
<1>6. /\ connect'.at \in {"drop", "finish"} /\ connect'.t = connect.t /\ connect'.fd = d
      /\ connect'.options = connect.options /\ (connect'.at = "finish" => connect.ok)
  BY <1>1 DEF ConnectRecords
<1>7. connect.ok => sys.file[d].kind = "stream"
  BY <1>1, <1>2 DEF Inv, ConnectInv, Connecting
<1>8. FdOf(sys', connect.t) = FdOf(sys, connect.t)
  BY <1>4 DEF FdOf
<1>9. ConnectInv'
  BY <1>2, <1>4, <1>5, <1>6, <1>7, <1>8, GoesOn
<1>. QED
  BY <1>1, <1>2, <1>4, <1>5, <1>6, <1>9, SocketStep

\* The call closes the socket it holds, or gives it away.
LEMMA LetsGoStep ==
  ASSUME Inv, UnchangedButConnect, connect.fd # NoFd, connect' \in ConnectRecords,
         connect'.fd = NoFd, ConnectInv', Good(sys', InHand \ {connect.fd}),
         Same(sys, sys', {connect.fd}, {connect.fd}, {connect.t})
  PROVE  StepOK
<1>1. Good(sys', InHand')
  BY HandWithout
<1>2. \A l \in Listeners : Fd(l) # NoFd => Fd(l) \notin {connect.fd} /\ Fd(l) # connect'.fd
  BY HeldSocket
<1>3. {connect.fd} \subseteq Fds /\ (\A t \in Transports : FdOf(sys, t) \notin {connect.fd})
      /\ \A t \in {connect.t} : FdOf(sys, t) = NoFd
  BY HeldSocket
<1>. QED
  BY <1>1, <1>2, <1>3, ConnectCase

LEMMA DropSocketStep ==
  ASSUME Inv, DropSocket
  PROVE  StepOK
<1>. DEFINE d == connect.fd
<1>1. /\ UnchangedButConnect /\ connect.at = "drop" /\ connect \in ConnectRecords
      /\ sys' = close_fd(sys, d)
      /\ connect' = [connect EXCEPT !.at = "address", !.fd = NoFd]
  BY DEF DropSocket, Connecting, Inv, ControlTypeOK, Holding
<1>2. d # NoFd
  BY <1>1 DEF Inv, ConnectInv
<1>3. Good(sys, InHand) /\ d \in InHand /\ connect.t \in Transports /\ FdOf(sys, connect.t) = NoFd
  BY <1>2, HeldSocket
<1>4. Good(sys', InHand \ {d}) /\ Same(sys, sys', {d}, {d}, {}) /\ sys'.transport = sys.transport
  BY <1>1, <1>3, CloseHeldGood, ZenonT(30)
<1>5. connect' \in ConnectRecords
  BY <1>1 DEF ConnectRecords
<1>6. connect'.at = "address" /\ connect'.t = connect.t /\ connect'.fd = NoFd
  BY <1>1 DEF ConnectRecords
<1>7. ConnectInv'
  BY <1>3, <1>4, <1>6 DEF ConnectInv, Connecting, FdOf
<1>8. Same(sys, sys', {d}, {d}, {connect.t})
  BY <1>4, SameMore
<1>. QED
  BY <1>1, <1>2, <1>4, <1>5, <1>6, <1>7, <1>8, LetsGoStep

\* What the transport is built with, and the socket it is built on.
LEMMA BuiltOptions ==
  ASSUME NEW wanted \in Options
  PROVE  /\ [wanted EXCEPT !.nonblock = FALSE] \in Options
         /\ [wanted EXCEPT !.nonblock = FALSE].own = wanted.own
BY DEF Options

LEMMA FinishedSocket ==
  ASSUME Inv, connect.at = "finish"
  PROVE  /\ connect.fd # NoFd /\ Ready(sys, connect.fd)
         /\ sys.file[connect.fd].own = connect.options.own
<1>1. connect.fd # NoFd
  BY DEF Inv, ConnectInv
<1>2. sys.file[connect.fd].kind = "stream"
  BY <1>1 DEF Inv, ConnectInv, Connecting
<1>3. ~sys.file[connect.fd].nonblock /\ ~sys.file[connect.fd].asked
  BY <1>1 DEF Inv, ConnectInv, Connecting
<1>4. sys.file[connect.fd].nonblock \in BOOLEAN /\ sys.file[connect.fd].asked \in BOOLEAN
  BY <1>1, HeldSocket, HandFacts, SystemFields
<1>5. sys.file[connect.fd].own = connect.options.own
  BY <1>1 DEF Inv, ConnectInv
<1>. QED
  BY <1>1, <1>2, <1>3, <1>4, <1>5 DEF Ready

LEMMA FinishTcpStep ==
  ASSUME Inv, FinishTcp
  PROVE  StepOK
<1>. DEFINE d == connect.fd
            t == connect.t
            wanted == connect.options
            built == [wanted EXCEPT !.nonblock = FALSE]
            C == Configured(sys, d, wanted, "ok")
<1>1. UnchangedButConnect /\ connect.at = "finish" /\ connect' = NoConnect
  BY DEF FinishTcp, Connecting
<1>2. d # NoFd /\ Ready(sys, d) /\ sys.file[d].own = wanted.own
  BY <1>1, FinishedSocket
<1>3. /\ Good(sys, InHand) /\ d \in InHand /\ d \in Fds /\ sys.file[d].kind # "free"
      /\ t \in Transports /\ FdOf(sys, t) = NoFd /\ wanted \in Options
      /\ \A u \in Transports : FdOf(sys, u) # d
  BY <1>2, HeldSocket DEF Live
<1>4. ConnectInv' /\ connect' \in ConnectRecords /\ connect'.fd = NoFd
  BY <1>1, OverIsRight
<1>5. CASE sys' = close_fd(sys, d)
  <2>1. Good(sys', InHand \ {d}) /\ Same(sys, sys', {d}, {d}, {})
    BY <1>3, <1>5, CloseHeldGood
  <2>2. Same(sys, sys', {d}, {d}, {t})
    BY <2>1, SameMore
  <2>. QED
    BY <1>1, <1>2, <1>4, <2>1, <2>2, LetsGoStep
<1>6. ASSUME NEW outcome \in Outcomes, sys' = Adopt(C, t, d, built, outcome)
      PROVE  StepOK
  <2>0. ConfiguredAs(sys, C, InHand, d)
    BY <1>3, ConfiguredGood
  <2>. HIDE DEF C
  <2>1. /\ Good(C, InHand) /\ Same(sys, C, {d}, {}, {}) /\ C.transport = sys.transport
        /\ C.file[d].kind = sys.file[d].kind /\ C.file[d].own = sys.file[d].own
    BY <2>0 DEF ConfiguredAs
  <2>2. C.file[d].nonblock = C.file[d].asked
    <3>1. sys.file[d].nonblock = sys.file[d].asked
      BY <1>2 DEF Ready
    <3>. QED
      BY <2>0, <3>1 DEF ConfiguredAs
  <2>3. built \in Options /\ built.own = wanted.own
    BY <1>3, BuiltOptions
  <2>. HIDE DEF built
  <2>4. \A u \in Transports : FdOf(C, u) = FdOf(sys, u)
    BY <2>1 DEF FdOf
  <2>5. Ready(C, d)
    BY <1>2, <2>1, <2>2 DEF Ready
  <2>6. C.file[d].own = built.own
    BY <1>2, <2>1, <2>3
  <2>7. Offered(C, InHand, d, built)
    BY <1>3, <2>4, <2>5, <2>6 DEF Offered
  <2>8. FdOf(C, t) = NoFd
    BY <1>3, <2>4
  <2>9. Good(sys', InHand \ {d}) /\ Same(C, sys', {d}, {d}, {t})
    BY <1>3, <1>6, <2>1, <2>3, <2>7, <2>8, AdoptGood DEF C, built
  <2>10. Same(sys, sys', {d}, {d}, {t})
    <3>1. Same(sys, C, {d}, {d}, {t})
      BY <2>1, SameMore
    <3>. QED
      BY <2>9, <3>1, SameTwice
  <2>. QED
    BY <1>1, <1>2, <1>4, <2>9, <2>10, LetsGoStep
<1>. QED
  BY <1>5, <1>6 DEF FinishTcp, Holding, Outcomes

\* The application need not have heard of a descriptor that is none of its
\* own.
LEMMA ForgetGood ==
  ASSUME NEW S, NEW H, Good(S, H), NEW d \in Fds, \A t \in Transports : FdOf(S, t) # d,
         d \in S.app => ~S.file[d].own
  PROVE  LET T == [S EXCEPT !.app = @ \ {d}]
         IN  Good(T, H) /\ Same(S, T, {}, {}, {})
<1>. DEFINE T == [S EXCEPT !.app = @ \ {d}]
<1>1. S \in Systems
  BY GoodSystems
<1>2. /\ T \in Systems /\ T.app = S.app \ {d}
      /\ T.file = S.file /\ T.end = S.end /\ T.path = S.path /\ T.transport = S.transport
  BY <1>1 DEF Systems
<1>. HIDE DEF T
<1>3. \A x : (Live(T, x) <=> Live(S, x)) /\ (Ready(T, x) <=> Ready(S, x))
  BY <1>2 DEF Live, Ready
<1>4. \A t \in Transports : FdOf(T, t) = FdOf(S, t)
  BY <1>2 DEF FdOf
<1>5. Sound(T, H)
  <2>1. \A x \in H \cup T.app : Live(T, x)
    BY <1>2, <1>3 DEF Good, Sound
  <2>2. H \cap T.app = {}
    BY <1>2 DEF Good, Sound
  <2>3. \A x \in T.app : Ready(T, x)
    BY <1>2, <1>3 DEF Good, Sound
  <2>4. \A t \in Transports : FdOf(T, t) # NoFd =>
          /\ Live(T, FdOf(T, t)) /\ Ready(T, FdOf(T, t)) /\ FdOf(T, t) \notin H
          /\ (FdOf(T, t) \in T.app) <=> ~T.transport[t].own
    BY <1>2, <1>3, <1>4 DEF Good, Sound
  <2>5. \A t, u \in Transports : t # u /\ FdOf(T, t) # NoFd => FdOf(T, u) # FdOf(T, t)
    BY <1>4 DEF Good, Sound
  <2>6. \A x \in Fds : Live(T, x) /\ T.file[x].own /\ x \notin H \cup T.app =>
          \E t \in Transports : FdOf(T, t) = x
    BY <1>2, <1>3, <1>4 DEF Good, Sound
  <2>. QED
    BY <1>2, <2>1, <2>2, <2>3, <2>4, <2>5, <2>6 DEF Sound
<1>6. PlacesSound(T) /\ CountsSound(T)
  <2>1. \A x \in Fds : \A i \in Places(S, x) : Place(S, x, i) # NoEnd =>
          T.end[Place(S, x, i)].state \in {"open", "shut"}
    BY <1>2 DEF Good, PlacesSound
  <2>2. PlacesSound(T)
    BY <1>2, <2>1, PlacesAlike DEF Good
  <2>. QED
    BY <1>2, <2>2 DEF Good, CountsSound
<1>7. Same(S, T, {}, {}, {})
  BY <1>2 DEF Same, Alike, SameBytes
<1>. QED
  BY <1>5, <1>6, <1>7 DEF Good, T

LEMMA FinishPosixStep ==
  ASSUME Inv, FinishPosix
  PROVE  StepOK
<1>. DEFINE d == connect.fd
            t == connect.t
            wanted == connect.options
            built == [wanted EXCEPT !.nonblock = FALSE]
            S == Adopt(sys, t, d, built, "ok")
            H == InHand \ {d}
<1>1. UnchangedButConnect /\ connect.at = "finish" /\ connect' = NoConnect
  BY DEF FinishPosix, Connecting
<1>2. d # NoFd /\ Ready(sys, d) /\ sys.file[d].own = wanted.own
  BY <1>1, FinishedSocket
<1>3. /\ Good(sys, InHand) /\ d \in InHand /\ d \in Fds
      /\ t \in Transports /\ FdOf(sys, t) = NoFd /\ wanted \in Options
      /\ \A u \in Transports : FdOf(sys, u) # d
  BY <1>2, HeldSocket
<1>4. ConnectInv' /\ connect' \in ConnectRecords /\ connect'.fd = NoFd
  BY <1>1, OverIsRight
<1>5. built \in Options /\ built.own = wanted.own /\ "ok" \in Outcomes
  BY <1>3, BuiltOptions DEF Outcomes
<1>. HIDE DEF built
<1>6. Offered(sys, InHand, d, built)
  BY <1>2, <1>3, <1>5 DEF Offered
<1>7. Good(S, H) /\ Same(sys, S, {d}, {d}, {t})
  BY <1>3, <1>5, <1>6, AdoptGood
<1>8. KeptBy(sys, S, t, d, built)
  BY <1>3, <1>5, <1>6, AdoptGood
<1>. HIDE DEF S, H
<1>80. FdOf(S, t) = d /\ S.transport[t].own = built.own /\ S.file[d].own = sys.file[d].own
  BY <1>8 DEF KeptBy
<1>9. CASE sys' = Configured(S, d, wanted, "ok")
  <2>1. S.file[d].kind # "free"
    BY <1>2, <1>3, <1>7, <1>80 DEF Good, Sound, Live
  <2>2. Good(sys', H) /\ Same(S, sys', {d}, {}, {})
    <3>1. ConfiguredAs(S, sys', H, d)
      BY <1>3, <1>7, <1>9, <2>1, ConfiguredGood
    <3>. QED
      BY <3>1 DEF ConfiguredAs
  <2>3. Same(sys, sys', {d}, {d}, {t})
    <3>1. Same(S, sys', {d}, {d}, {t})
      BY <2>2, SameMore
    <3>. QED
      BY <1>7, <3>1, SameTwice
  <2>. QED
    BY <1>1, <1>2, <1>4, <2>2, <2>3, LetsGoStep DEF H
<1>10. CASE sys' = [Close(S, t) EXCEPT !.app = @ \ {d}]
  <2>. DEFINE C == Close(S, t)
  <2>1. /\ Good(C, H) /\ Same(S, C, {d}, {d}, {t}) /\ FdOf(C, t) = NoFd /\ C.app = S.app
        /\ ~S.transport[t].own => C.file = S.file
    <3>1. {d} \ {NoFd} = {d}
      BY <1>2
    <3>. QED
      BY <1>3, <1>7, <1>80, <3>1, CloseGood
  <2>. HIDE DEF C
  <2>2. d \in S.app <=> ~S.transport[t].own
    BY <1>2, <1>3, <1>7, <1>80 DEF Good, Sound
  <2>3. d \in C.app => ~C.file[d].own
    <3>. SUFFICES ASSUME d \in C.app PROVE ~C.file[d].own
      OBVIOUS
    <3>1. ~S.transport[t].own /\ C.file = S.file
      BY <2>1, <2>2
    <3>2. S.transport[t].own = S.file[d].own
      BY <1>2, <1>5, <1>80
    <3>. QED
      BY <3>1, <3>2
  <2>4. \A u \in Transports : FdOf(C, u) # d
    <3>. SUFFICES ASSUME NEW u \in Transports, FdOf(C, u) = d PROVE FALSE
      OBVIOUS
    <3>1. u # t
      BY <1>2, <2>1
    <3>2. FdOf(C, u) = FdOf(sys, u)
      BY <1>7, <2>1, <3>1 DEF Same, FdOf
    <3>. QED
      BY <1>3, <3>2
  <2>5. Good(sys', H) /\ Same(C, sys', {}, {}, {})
    BY <1>3, <1>10, <2>1, <2>3, <2>4, ForgetGood DEF C
  <2>6. Same(sys, sys', {d}, {d}, {t})
    <3>1. Same(C, sys', {d}, {d}, {t})
      BY <2>5, SameMore
    <3>. QED
      BY <1>7, <2>1, <3>1, SameTwice
  <2>. QED
    BY <1>1, <1>2, <1>4, <2>5, <2>6, LetsGoStep DEF H
<1>. QED
  BY <1>9, <1>10 DEF FinishPosix, Holding, S, built

-----------------------------------------------------------------------------
(* Reading and writing.                                                    *)

\* Only counts of bytes change, and flags that say who may use a stream.
OnlyBytes(S, T) ==
  /\ T \in Systems /\ T.file = S.file /\ T.path = S.path /\ T.app = S.app
  /\ \A x \in Ends : T.end[x].state = S.end[x].state
  /\ \A t \in Transports : FdOf(T, t) = FdOf(S, t) /\ T.transport[t].own = S.transport[t].own

LEMMA BytesGood ==
  ASSUME NEW S, NEW T, NEW H, Good(S, H), OnlyBytes(S, T), CountsSound(T)
  PROVE  Good(T, H)
<1>1. /\ T \in Systems /\ T.file = S.file /\ T.app = S.app
      /\ \A x \in Ends : T.end[x].state = S.end[x].state
  BY DEF OnlyBytes
<1>2. \A t \in Transports : FdOf(T, t) = FdOf(S, t) /\ T.transport[t].own = S.transport[t].own
  BY DEF OnlyBytes
<1>3. \A x : (Live(T, x) <=> Live(S, x)) /\ (Ready(T, x) <=> Ready(S, x))
  BY <1>1 DEF Live, Ready
<1>4. Sound(T, H)
  <2>1. /\ \A x \in H \cup T.app : Live(T, x)
        /\ H \cap T.app = {}
        /\ \A x \in T.app : Ready(T, x)
    BY <1>1, <1>3 DEF Good, Sound
  <2>2. \A t \in Transports : FdOf(T, t) # NoFd =>
          /\ Live(T, FdOf(T, t)) /\ Ready(T, FdOf(T, t)) /\ FdOf(T, t) \notin H
          /\ (FdOf(T, t) \in T.app) <=> ~T.transport[t].own
    BY <1>1, <1>2, <1>3 DEF Good, Sound
  <2>3. \A t, u \in Transports : t # u /\ FdOf(T, t) # NoFd => FdOf(T, u) # FdOf(T, t)
    BY <1>2 DEF Good, Sound
  <2>4. \A x \in Fds : Live(T, x) /\ T.file[x].own /\ x \notin H \cup T.app =>
          \E t \in Transports : FdOf(T, t) = x
    BY <1>1, <1>2, <1>3 DEF Good, Sound
  <2>. QED
    BY <1>1, <2>1, <2>2, <2>3, <2>4 DEF Sound
<1>5. PlacesSound(T)
  <2>1. \A d \in Fds : \A i \in Places(S, d) : Place(S, d, i) # NoEnd =>
          T.end[Place(S, d, i)].state \in {"open", "shut"}
    <3>. SUFFICES ASSUME NEW d \in Fds, NEW i \in Places(S, d), Place(S, d, i) # NoEnd
                  PROVE  T.end[Place(S, d, i)].state \in {"open", "shut"}
      OBVIOUS
    <3>1. Place(S, d, i) \in Ends
      BY PlaceIsEnd, GoodSystems
    <3>2. S.end[Place(S, d, i)].state \in {"open", "shut"}
      BY DEF Good, PlacesSound
    <3>. QED
      BY <1>1, <3>1, <3>2
  <2>. QED
    BY <1>1, <2>1, PlacesAlike DEF Good
<1>. QED
  BY <1>4, <1>5 DEF Good

\* A step of a reader or a writer.
LEMMA ByteStep ==
  ASSUME Inv, UNCHANGED <<listener, connect, plan, alone>>,
         OnlyBytes(sys, sys'), CountsSound(sys'),
         gather' \in [t : Transports \cup {"none"}, rest : Seq(Nat), total : Nat],
         reported' \in [Ends -> Nat],
         GatherInv', ReportsAreTrue', FinalStep, PipeStep
  PROVE  StepOK
<1>1. listener' = listener /\ connect' = connect /\ plan' = plan /\ alone' = alone
  OBVIOUS
<1>2. ControlTypeOK'
  BY <1>1 DEF Inv, ControlTypeOK
<1>3. InHand' = InHand
  BY <1>1 DEF InHand, Fd
<1>4. Good(sys', InHand')
  BY <1>3, BytesGood DEF Inv
<1>5. sys'.file = sys.file /\ sys'.path = sys.path
  BY DEF OnlyBytes
<1>6. ConnectInv'
  <2>1. ~Connecting("idle") => connect.t \in Transports /\ FdOf(sys', connect.t) = NoFd
    BY DEF Inv, ConnectInv, OnlyBytes
  <2>. QED
    BY <1>1, <1>5, <2>1 DEF Inv, ConnectInv, Connecting
<1>7. ListenerInv' /\ AloneInv'
  <2>1. \A l \in Listeners : Fd(l)' = Fd(l) /\ \A s : At(l, s)' <=> At(l, s)
    BY <1>1 DEF Fd, At
  <2>2. ListenerInv'
    BY <1>1, <1>5, <2>1 DEF Inv, ListenerInv
  <2>. QED
    BY <1>1, <2>2 DEF Inv, AloneInv
<1>8. PathsAreOwned'
  BY <1>1, <1>5 DEF Inv, PathsAreOwned, AddressFree, PathLeadsToListener, At, Fd
<1>. QED
  BY <1>2, <1>4, <1>6, <1>7, <1>8 DEF StepOK, Inv

\* A change of the record of one end.
LEMMA SetEndEffect ==
  ASSUME NEW S \in Systems, NEW e \in Ends, NEW r \in EndRecords, r.state = S.end[e].state
  PROVE  LET T == [S EXCEPT !.end = [S.end EXCEPT ![e] = r]]
         IN  /\ T \in Systems /\ T.file = S.file /\ T.path = S.path /\ T.app = S.app
             /\ T.transport = S.transport
             /\ T.end[e] = r /\ \A x \in Ends \ {e} : T.end[x] = S.end[x]
<1>. DEFINE T == [S EXCEPT !.end = [S.end EXCEPT ![e] = r]]
<1>1. S.end \in [Ends -> EndRecords]
  BY SystemFields
<1>2. [S.end EXCEPT ![e] = r] \in [Ends -> EndRecords]
  BY <1>1
<1>3. [S.end EXCEPT ![e] = r][e] = r /\ \A x \in Ends \ {e} : [S.end EXCEPT ![e] = r][x] = S.end[x]
  BY <1>1
<1>. QED
  BY <1>2, <1>3 DEF Systems

\* Where the transports and their ends stay, so does what a writev() in
\* progress has still to report, and whose stream is over.
LEMMA SameGather ==
  ASSUME Inv, OnlyBytes(sys, sys'), gather' = gather
  PROVE  GatherInv' /\ \A t \in Transports : End(sys', t) = End(sys, t)
<1>1. \A t \in Transports : End(sys', t) = End(sys, t)
  BY DEF OnlyBytes, End, FdOf
<1>. QED
  BY <1>1 DEF Inv, GatherInv, OnlyBytes

LEMMA FinalOfBytes ==
  ASSUME Inv, OnlyBytes(sys, sys'),
         \A t \in Transports : FdOf(sys, t) # NoFd /\ ~sys.transport[t].open =>
           sys'.end[End(sys, t)].written = sys.end[End(sys, t)].written
  PROVE  FinalStep
BY DEF FinalStep, Fresh, FdOf, End, OnlyBytes

LEMMA ReadBytesStep ==
  ASSUME Inv, NEW t \in Transports, ReadBytes(t)
  PROVE  StepOK
<1>. DEFINE e == End(sys, t)
            w == Peer(e)
<1>1. /\ UnchangedButSys /\ FdOf(sys, t) # NoFd
      /\ \E n \in 1..Waiting(sys, e) : sys' = [sys EXCEPT !.end[w].delivered = @ + n]
  BY DEF ReadBytes, IsOpen, FdOf
<1>2. PICK n \in 1..Waiting(sys, e) : sys' = [sys EXCEPT !.end[w].delivered = @ + n]
  BY <1>1
<1>3. e \in Ends /\ w \in Ends /\ w # e /\ Peer(w) = e
  BY <1>1, TransportEnd, EndFacts
<1>. HIDE DEF e, w
<1>4. sys \in Systems /\ CountsSound(sys) /\ SendRoom \in Nat
  BY HandFacts, TransportAssumption DEF Inv, Good, TransportAssumption
<1>5. sys.end[w] \in EndRecords
  BY <1>3, <1>4, SystemFields
<1>6. /\ sys.end[w].written \in Nat /\ sys.end[w].delivered \in Nat
      /\ sys.end[w].written <= sys.end[w].delivered + SendRoom
      /\ sys.end[e].told => sys.end[w].delivered = sys.end[w].written
  BY <1>3, <1>4, <1>5 DEF CountsSound, EndRecords
<1>7. n \in 1..(sys.end[w].written - sys.end[w].delivered)
  BY <1>3 DEF Waiting, w
<1>8. n \in 1..SendRoom /\ sys.end[w].delivered + n <= sys.end[w].written /\ ~sys.end[e].told
  BY <1>4, <1>6, <1>7
<1>. DEFINE r == [sys.end[w] EXCEPT !.delivered = sys.end[w].delivered + n]
<1>9. /\ r \in EndRecords /\ r.state = sys.end[w].state
      /\ r.written = sys.end[w].written /\ r.delivered = sys.end[w].delivered + n
  BY <1>5, <1>6, <1>8 DEF EndRecords
<1>10. r.told = sys.end[w].told
  BY <1>5 DEF EndRecords
<1>11. sys' = [sys EXCEPT !.end = [sys.end EXCEPT ![w] = r]]
  BY <1>2, <1>3, <1>4 DEF Systems
<1>. HIDE DEF r
<1>12. /\ sys' \in Systems /\ sys'.file = sys.file /\ sys'.path = sys.path /\ sys'.app = sys.app
       /\ sys'.transport = sys.transport
       /\ sys'.end[w] = r /\ \A x \in Ends \ {w} : sys'.end[x] = sys.end[x]
  BY <1>3, <1>4, <1>9, <1>11, SetEndEffect
<1>13. OnlyBytes(sys, sys')
  BY <1>9, <1>12 DEF OnlyBytes, FdOf
<1>14. \A x \in Ends : /\ sys'.end[x].written = sys.end[x].written
                       /\ sys'.end[x].state = sys.end[x].state
                       /\ sys'.end[x].told = sys.end[x].told
  BY <1>9, <1>10, <1>12
<1>15. CountsSound(sys')
  <2>. SUFFICES ASSUME NEW x \in Ends
                PROVE  /\ sys'.end[x].state = "none" => sys'.end[Peer(x)].state = "none"
                       /\ sys'.end[x].delivered <= sys'.end[x].written
                       /\ sys'.end[x].written <= sys'.end[x].delivered + SendRoom
                       /\ sys'.end[Peer(x)].told =>
                            /\ sys'.end[x].delivered = sys'.end[x].written
                            /\ sys'.end[x].state \in {"shut", "closed", "reset"}
    BY DEF CountsSound
  <2>1. Peer(x) \in Ends
    BY EndFacts
  <2>2. CASE x = w
    <3>1. ~sys'.end[Peer(x)].told
      BY <1>3, <1>8, <1>14, <2>2
    <3>2. sys'.end[x].delivered = sys.end[w].delivered + n /\ sys'.end[x].written = sys.end[w].written
      BY <1>9, <1>12, <2>2
    <3>3. sys'.end[x].state = "none" => sys'.end[Peer(x)].state = "none"
      BY <1>4, <1>14, <2>1 DEF CountsSound
    <3>. QED
      BY <1>4, <1>6, <1>8, <3>1, <3>2, <3>3
  <2>3. CASE x # w
    <3>1. sys'.end[x] = sys.end[x]
      BY <1>12, <2>3
    <3>. QED
      BY <1>4, <1>14, <2>1, <3>1 DEF CountsSound
  <2>. QED
    BY <2>2, <2>3
<1>16. GatherInv' /\ \A u \in Transports : End(sys', u) = End(sys, u)
  BY <1>1, <1>13, SameGather DEF UnchangedButSys
<1>17. ReportsAreTrue'
  <2>1. gather' = gather /\ reported' = reported /\ (gather # NoGather => gather.t \in Transports)
    BY <1>1 DEF UnchangedButSys, Inv, GatherInv
  <2>. QED
    BY <1>14, <1>16, <2>1 DEF Inv, ReportsAreTrue
<1>18. FinalStep
  <2>1. \A u \in Transports : FdOf(sys, u) # NoFd => End(sys, u) \in Ends
    BY TransportEnd
  <2>. QED
    BY <1>13, <1>14, <2>1, FinalOfBytes
<1>19. PipeStep
  <2>. SUFFICES ASSUME NEW x \in Ends PROVE [Pipe(x)!Next]_(Pipe(x)!vars)
    BY DEF PipeStep
  <2>1. Peer(x) \in Ends
    BY EndFacts
  <2>2. CASE x = w
    <3>1. Pipe(x)!Deliver(n)
      BY <1>3, <1>8, <1>9, <1>12, <1>14, <2>2 DEF Pipe!Deliver
    <3>. QED
      BY <1>8, <3>1 DEF Pipe!Next
  <2>3. CASE x # w
    BY <1>12, <1>14, <2>1, <2>3 DEF Pipe!vars
  <2>. QED
    BY <2>2, <2>3
<1>20. /\ gather' \in [t : Transports \cup {"none"}, rest : Seq(Nat), total : Nat]
       /\ reported' \in [Ends -> Nat] /\ UNCHANGED <<listener, connect, plan, alone>>
  BY <1>1 DEF UnchangedButSys, Inv, ControlTypeOK
<1>. QED
  BY <1>13, <1>15, <1>16, <1>17, <1>18, <1>19, <1>20, ByteStep

LEMMA ReadEndStep ==
  ASSUME Inv, NEW t \in Transports, ReadEnd(t)
  PROVE  StepOK
<1>. DEFINE e == End(sys, t)
            w == Peer(e)
<1>1. /\ UnchangedButSys /\ FdOf(sys, t) # NoFd /\ EndOfStream(sys, e)
      /\ sys' = [sys EXCEPT !.transport[t].open = FALSE, !.end[e].told = TRUE]
  BY DEF ReadEnd, IsOpen, FdOf
<1>2. e \in Ends /\ w \in Ends /\ w # e /\ Peer(w) = e
  BY <1>1, TransportEnd, EndFacts
<1>3. Waiting(sys, e) = 0 /\ sys.end[w].state \in {"shut", "closed"}
  BY <1>1 DEF EndOfStream
<1>. HIDE DEF e, w
<1>4. sys \in Systems /\ CountsSound(sys) /\ SendRoom \in Nat
  BY HandFacts, TransportAssumption DEF Inv, Good, TransportAssumption
<1>5. sys.end \in [Ends -> EndRecords] /\ sys.transport \in [Transports -> Handles]
  BY <1>4, SystemFields
<1>6. sys.end[w].delivered = sys.end[w].written
  <2>1. sys.end[w].written \in Nat /\ sys.end[w].delivered \in Nat
    BY <1>2, <1>5 DEF EndRecords
  <2>. QED
    BY <1>3, <2>1 DEF Waiting, w
<1>. DEFINE r == [sys.end[e] EXCEPT !.told = TRUE]
            h == [sys.transport[t] EXCEPT !.open = FALSE]
            T == [sys EXCEPT !.end = [sys.end EXCEPT ![e] = r]]
            transport == [sys.transport EXCEPT ![t] = h]
<1>7. /\ r \in EndRecords /\ r.state = sys.end[e].state /\ r.written = sys.end[e].written
      /\ r.delivered = sys.end[e].delivered /\ r.told
  BY <1>2, <1>5 DEF EndRecords
<1>8. h \in Handles /\ h.fd = sys.transport[t].fd /\ h.own = sys.transport[t].own
  BY <1>5 DEF Handles
<1>9. sys' = [T EXCEPT !.transport = transport]
  BY <1>1, <1>2, <1>4 DEF Systems
<1>. HIDE DEF r, h
<1>10. /\ T \in Systems /\ T.file = sys.file /\ T.path = sys.path /\ T.app = sys.app
       /\ T.transport = sys.transport
       /\ T.end[e] = r /\ \A x \in Ends \ {e} : T.end[x] = sys.end[x]
  BY <1>2, <1>4, <1>7, SetEndEffect
<1>11. /\ transport \in [Transports -> Handles] /\ transport[t] = h
       /\ \A u \in Transports \ {t} : transport[u] = sys.transport[u]
  BY <1>5, <1>8
<1>. HIDE DEF T, transport
<1>12. /\ sys' \in Systems /\ sys'.file = T.file /\ sys'.path = T.path /\ sys'.app = T.app
       /\ sys'.end = T.end /\ sys'.transport = transport
  BY <1>9, <1>10, <1>11 DEF Systems
<1>13. \A u \in Transports : FdOf(sys', u) = FdOf(sys, u) /\ sys'.transport[u].own = sys.transport[u].own
  BY <1>8, <1>11, <1>12 DEF FdOf
<1>14. \A x \in Ends : /\ sys'.end[x].written = sys.end[x].written
                       /\ sys'.end[x].delivered = sys.end[x].delivered
                       /\ sys'.end[x].state = sys.end[x].state
                       /\ x # e => sys'.end[x].told = sys.end[x].told
  BY <1>7, <1>10, <1>12
<1>15. OnlyBytes(sys, sys')
  BY <1>10, <1>12, <1>13, <1>14 DEF OnlyBytes
<1>16. CountsSound(sys')
  <2>. SUFFICES ASSUME NEW x \in Ends
                PROVE  /\ sys'.end[x].state = "none" => sys'.end[Peer(x)].state = "none"
                       /\ sys'.end[x].delivered <= sys'.end[x].written
                       /\ sys'.end[x].written <= sys'.end[x].delivered + SendRoom
                       /\ sys'.end[Peer(x)].told =>
                            /\ sys'.end[x].delivered = sys'.end[x].written
                            /\ sys'.end[x].state \in {"shut", "closed", "reset"}
    BY DEF CountsSound
  <2>1. Peer(x) \in Ends /\ (Peer(x) = e => x = w)
    BY <1>2, EndFacts DEF w
  <2>2. CASE x = w
    BY <1>2, <1>3, <1>4, <1>6, <1>14, <2>1, <2>2 DEF CountsSound
  <2>3. CASE x # w
    BY <1>4, <1>14, <2>1, <2>3 DEF CountsSound
  <2>. QED
    BY <2>2, <2>3
<1>17. GatherInv' /\ \A u \in Transports : End(sys', u) = End(sys, u)
  BY <1>1, <1>15, SameGather DEF UnchangedButSys
<1>18. ReportsAreTrue'
  <2>1. gather' = gather /\ reported' = reported /\ (gather # NoGather => gather.t \in Transports)
    BY <1>1 DEF UnchangedButSys, Inv, GatherInv
  <2>. QED
    BY <1>14, <1>17, <2>1 DEF Inv, ReportsAreTrue
<1>19. FinalStep
  <2>1. \A u \in Transports : FdOf(sys, u) # NoFd => End(sys, u) \in Ends
    BY TransportEnd
  <2>. QED
    BY <1>14, <1>15, <2>1, FinalOfBytes
<1>20. PipeStep
  <2>. SUFFICES ASSUME NEW x \in Ends PROVE [Pipe(x)!Next]_(Pipe(x)!vars)
    BY DEF PipeStep
  <2>1. Peer(x) \in Ends /\ (Peer(x) = e => x = w)
    BY <1>2, EndFacts DEF w
  <2>2. CASE x = w
    <3>1. sys'.end[Peer(x)].told = TRUE
      <4>1. sys'.end[Peer(x)].told \in BOOLEAN
        BY <1>12, <2>1, SystemFields
      <4>. QED
        BY <1>2, <1>7, <1>10, <1>12, <2>2, <4>1
    <3>2. Pipe(x)!End
      BY <1>6, <1>14, <2>2, <3>1 DEF Pipe!End
    <3>. QED
      BY <3>2 DEF Pipe!Next
  <2>3. CASE x # w
    BY <1>14, <2>1, <2>3 DEF Pipe!vars
  <2>. QED
    BY <2>2, <2>3
<1>21. /\ gather' \in [t : Transports \cup {"none"}, rest : Seq(Nat), total : Nat]
       /\ reported' \in [Ends -> Nat] /\ UNCHANGED <<listener, connect, plan, alone>>
  BY <1>1 DEF UnchangedButSys, Inv, ControlTypeOK
<1>. QED
  BY <1>15, <1>16, <1>17, <1>18, <1>19, <1>20, <1>21, ByteStep

\* What send() may say: it takes bytes only where there is room and the
\* stream is open both ways that matter.
Taken(t, n) ==
  /\ n \in Nat /\ n <= SendRoom - (sys.end[End(sys, t)].written - sys.end[End(sys, t)].delivered)
  /\ n > 0 => sys.transport[t].open /\ ~Refuses(sys, End(sys, t))

LEMMA SendResult ==
  ASSUME Inv, NEW t \in Transports, FdOf(sys, t) # NoFd, NEW size,
         NEW result \in send_to_socket(sys, t, size)
  PROVE  Taken(t, result.bytes) /\ (size \in Nat => result.bytes <= size)
<1>. DEFINE e == End(sys, t)
            room == SendRoom - (sys.end[e].written - sys.end[e].delivered)
<1>1. e \in Ends /\ SendRoom \in Nat
  BY TransportEnd, TransportAssumption DEF TransportAssumption
<1>. HIDE DEF e
<1>2. /\ sys.end[e].written \in Nat /\ sys.end[e].delivered \in Nat
      /\ sys.end[e].written <= sys.end[e].delivered + SendRoom
  BY <1>1, HandFacts, SystemFields DEF Inv, Good, CountsSound
<1>3. room \in Nat
  BY <1>1, <1>2
<1>. HIDE DEF room
<1>4. /\ result.bytes \in 0..room
      /\ result.bytes > 0 => IsOpen(sys, t) /\ ~Refuses(sys, e)
      /\ size \in Nat => result.bytes <= size
  <2>1. CASE ~IsOpen(sys, t)
    BY <1>3, <2>1 DEF send_to_socket
  <2>2. CASE IsOpen(sys, t) /\ Refuses(sys, e)
    BY <1>3, <2>2 DEF send_to_socket, e
  <2>3. CASE IsOpen(sys, t) /\ ~Refuses(sys, e) /\ Blocking(sys, t)
    BY <1>3, <2>3 DEF send_to_socket, e, room
  <2>4. CASE IsOpen(sys, t) /\ ~Refuses(sys, e) /\ ~Blocking(sys, t) /\ room = 0
    BY <1>3, <2>4 DEF send_to_socket, e, room
  <2>5. CASE IsOpen(sys, t) /\ ~Refuses(sys, e) /\ ~Blocking(sys, t) /\ room # 0
    <3>1. result \in {[bytes |-> n, kind |-> "ok"] : n \in {k \in 1..room : k <= size}}
      BY <2>5 DEF send_to_socket, e, room
    <3>. QED
      BY <1>3, <2>5, <3>1
  <2>. QED
    BY <2>1, <2>2, <2>3, <2>4, <2>5
<1>. QED
  BY <1>3, <1>4 DEF Taken, IsOpen, room, e

\* The bytes that were taken are in the stream.
LEMMA SentEffect ==
  ASSUME Inv, NEW t \in Transports, FdOf(sys, t) # NoFd, NEW n, Taken(t, n),
         sys' = Sent(sys, End(sys, t), n)
  PROVE  /\ OnlyBytes(sys, sys') /\ CountsSound(sys') /\ FinalStep /\ PipeStep
         /\ sys'.end[End(sys, t)].written = sys.end[End(sys, t)].written + n
         /\ \A x \in Ends \ {End(sys, t)} : sys'.end[x].written = sys.end[x].written
<1>. DEFINE e == End(sys, t)
            w == Peer(e)
<1>1. /\ e \in Ends /\ w \in Ends /\ w # e /\ Peer(w) = e /\ sys.end[e].state \in {"open", "shut"}
      /\ \A u \in Transports : FdOf(sys, u) # NoFd => /\ End(sys, u) \in Ends
                                                      /\ End(sys, u) = e => u = t
  BY TransportEnd, EndFacts
<1>2. /\ n \in Nat /\ n <= SendRoom - (sys.end[e].written - sys.end[e].delivered)
      /\ n > 0 => sys.transport[t].open /\ ~Refuses(sys, e)
      /\ sys' = Sent(sys, e, n)
  BY DEF Taken
<1>. HIDE DEF e, w
<1>3. sys \in Systems /\ CountsSound(sys) /\ SendRoom \in Nat
  BY HandFacts, TransportAssumption DEF Inv, Good, TransportAssumption
<1>4. sys.end[e] \in EndRecords /\ sys.end[e].written \in Nat /\ sys.end[e].delivered \in Nat
  BY <1>1, <1>3, SystemFields
<1>5. n > 0 => n \in 1..SendRoom /\ ~sys.end[w].told
  <2>. SUFFICES ASSUME n > 0 PROVE n \in 1..SendRoom /\ ~sys.end[w].told
    OBVIOUS
  <2>1. sys.end[e].delivered <= sys.end[e].written
    BY <1>1, <1>3 DEF CountsSound
  <2>2. sys.end[e].state = "open"
    BY <1>1, <1>2 DEF Refuses
  <2>3. ~sys.end[w].told
    BY <1>1, <1>3, <2>2 DEF CountsSound, w
  <2>. QED
    BY <1>2, <1>3, <1>4, <2>1, <2>3
<1>. DEFINE r == [sys.end[e] EXCEPT !.written = sys.end[e].written + n]
<1>6. /\ r \in EndRecords /\ r.state = sys.end[e].state
      /\ r.written = sys.end[e].written + n /\ r.delivered = sys.end[e].delivered
  BY <1>2, <1>4 DEF EndRecords
<1>7. r.told = sys.end[e].told
  BY <1>4 DEF EndRecords
<1>8. sys' = [sys EXCEPT !.end = [sys.end EXCEPT ![e] = r]]
  BY <1>1, <1>2, <1>3 DEF Systems, Sent
<1>. HIDE DEF r
<1>9. /\ sys' \in Systems /\ sys'.file = sys.file /\ sys'.path = sys.path /\ sys'.app = sys.app
      /\ sys'.transport = sys.transport
      /\ sys'.end[e] = r /\ \A x \in Ends \ {e} : sys'.end[x] = sys.end[x]
  BY <1>1, <1>3, <1>6, <1>8, SetEndEffect
<1>10. OnlyBytes(sys, sys')
  BY <1>6, <1>9 DEF OnlyBytes, FdOf
<1>11. \A x \in Ends : /\ sys'.end[x].delivered = sys.end[x].delivered
                       /\ sys'.end[x].state = sys.end[x].state
                       /\ sys'.end[x].told = sys.end[x].told
  BY <1>6, <1>7, <1>9
<1>12. sys'.end[e].written = sys.end[e].written + n
  BY <1>6, <1>9
<1>13. CountsSound(sys')
  <2>. SUFFICES ASSUME NEW x \in Ends
                PROVE  /\ sys'.end[x].state = "none" => sys'.end[Peer(x)].state = "none"
                       /\ sys'.end[x].delivered <= sys'.end[x].written
                       /\ sys'.end[x].written <= sys'.end[x].delivered + SendRoom
                       /\ sys'.end[Peer(x)].told =>
                            /\ sys'.end[x].delivered = sys'.end[x].written
                            /\ sys'.end[x].state \in {"shut", "closed", "reset"}
    BY DEF CountsSound
  <2>1. Peer(x) \in Ends
    BY EndFacts
  <2>2. CASE x # e
    BY <1>3, <1>9, <1>11, <2>1, <2>2 DEF CountsSound
  <2>3. CASE x = e /\ n > 0
    <3>1. ~sys'.end[Peer(x)].told
      BY <1>5, <1>11, <2>1, <2>3 DEF w
    <3>2. sys'.end[x].state = "none" => sys'.end[Peer(x)].state = "none"
      BY <1>3, <1>11, <2>1 DEF CountsSound
    <3>3. sys.end[e].delivered <= sys.end[e].written
      BY <1>1, <1>3 DEF CountsSound
    <3>4. sys'.end[x].delivered = sys.end[e].delivered
      BY <1>11, <2>3
    <3>. QED
      BY <1>2, <1>3, <1>4, <1>12, <2>3, <3>1, <3>2, <3>3, <3>4
  <2>4. CASE x = e /\ n = 0
    <3>1. sys'.end[x].written = sys.end[x].written
      BY <1>4, <1>12, <2>4
    <3>. QED
      BY <1>3, <1>11, <2>1, <3>1 DEF CountsSound
  <2>. QED
    BY <1>2, <2>2, <2>3, <2>4
<1>14. FinalStep
  <2>1. ASSUME NEW u \in Transports, FdOf(sys, u) # NoFd, ~sys.transport[u].open
        PROVE  sys'.end[End(sys, u)].written = sys.end[End(sys, u)].written
    <3>1. CASE End(sys, u) = e
      <4>1. n = 0
        BY <1>1, <1>2, <2>1, <3>1
      <4>. QED
        BY <1>4, <1>12, <3>1, <4>1
    <3>2. CASE End(sys, u) # e
      <4>0. End(sys, u) \in Ends
        BY <2>1, TransportEnd
      <4>1. End(sys, u) \in Ends \ {e}
        BY <3>2, <4>0
      <4>2. \A x \in Ends \ {e} : sys'.end[x] = sys.end[x]
        BY <1>9
      <4>3. sys'.end[End(sys, u)] = sys.end[End(sys, u)]
        BY <4>1, <4>2
      <4>. QED
        BY <4>3
    <3>. QED
      BY <3>1, <3>2
  <2>. QED
    BY <1>10, <2>1, FinalOfBytes
<1>15. PipeStep
  <2>. SUFFICES ASSUME NEW x \in Ends PROVE [Pipe(x)!Next]_(Pipe(x)!vars)
    BY DEF PipeStep
  <2>1. Peer(x) \in Ends
    BY EndFacts
  <2>2. CASE x = e /\ n > 0
    <3>1. Pipe(x)!Accept(n)
      BY <1>5, <1>11, <1>12, <2>1, <2>2 DEF Pipe!Accept, w
    <3>. QED
      BY <1>5, <2>2, <3>1 DEF Pipe!Next
  <2>3. CASE x = e /\ n = 0
    <3>1. sys'.end[x].written = sys.end[x].written
      BY <1>4, <1>12, <2>3
    <3>. QED
      BY <1>11, <2>1, <3>1 DEF Pipe!vars
  <2>4. CASE x # e
    BY <1>9, <1>11, <2>1, <2>4 DEF Pipe!vars
  <2>. QED
    BY <1>2, <2>2, <2>3, <2>4
<1>. QED
  BY <1>9, <1>10, <1>12, <1>13, <1>14, <1>15 DEF e

\* A write of n bytes to the stream of a transport, as far as the stream goes.
Wrote(t, n) ==
  /\ OnlyBytes(sys, sys') /\ CountsSound(sys') /\ FinalStep /\ PipeStep
  /\ \A x \in Ends : sys'.end[x].written = sys.end[x].written + (IF x = End(sys, t) THEN n ELSE 0)

LEMMA WroteBytes ==
  ASSUME Inv, NEW t \in Transports, FdOf(sys, t) # NoFd, NEW n, Taken(t, n),
         sys' = Sent(sys, End(sys, t), n)
  PROVE  Wrote(t, n)
<1>1. OnlyBytes(sys, sys') /\ CountsSound(sys') /\ FinalStep /\ PipeStep
  BY SentEffect
<1>2. sys'.end[End(sys, t)].written = sys.end[End(sys, t)].written + n
  BY SentEffect
<1>3. \A x \in Ends \ {End(sys, t)} : sys'.end[x].written = sys.end[x].written
  BY SentEffect
<1>4. \A x \in Ends : sys.end[x].written \in Nat
  BY HandFacts, SystemFields
<1>. QED
  BY <1>1, <1>2, <1>3, <1>4 DEF Wrote

LEMMA WroteNothing ==
  ASSUME Inv, NEW t, sys' = sys
  PROVE  Wrote(t, 0)
<1>1. OnlyBytes(sys, sys') /\ CountsSound(sys')
  BY HandFacts DEF OnlyBytes, Inv, Good
<1>2. FinalStep
  BY DEF FinalStep
<1>3. PipeStep
  BY DEF PipeStep, Pipe!vars
<1>4. \A x \in Ends : sys.end[x].written \in Nat
  BY HandFacts, SystemFields
<1>. QED
  BY <1>1, <1>2, <1>3, <1>4 DEF Wrote

\* What a writev() in progress has still to report for an end.
Pending(S, g, x) == IF End(S, g.t) = x THEN g.total ELSE 0

LEMMA PendingFacts ==
  \A S, g, x : (IF g # NoGather /\ End(S, g.t) = x THEN g.total ELSE 0) = Pending(S, g, x)
BY DEF Pending, NoGather

\* What is written is reported, or waits in the writev() to be reported.
LEMMA BookStep ==
  ASSUME Inv, UNCHANGED <<listener, connect, plan, alone>>,
         NEW t \in Transports, NEW n \in Nat, Wrote(t, n),
         gather' \in [t : Transports \cup {"none"}, rest : Seq(Nat), total : Nat],
         gather' # NoGather => gather'.t \in Transports /\ FdOf(sys, gather'.t) # NoFd,
         reported' \in [Ends -> Nat],
         \A x \in Ends : reported'[x] + Pending(sys, gather', x) =
           reported[x] + Pending(sys, gather, x) + (IF x = End(sys, t) THEN n ELSE 0)
  PROVE  StepOK
<1>1. OnlyBytes(sys, sys') /\ CountsSound(sys') /\ FinalStep /\ PipeStep
  BY DEF Wrote
<1>2. GatherInv'
  BY <1>1 DEF GatherInv, OnlyBytes
<1>3. \A x \in Ends : Pending(sys', gather', x) = Pending(sys, gather', x)
  <2>1. CASE gather' = NoGather
    BY <2>1 DEF Pending, NoGather
  <2>2. CASE gather' # NoGather
    BY <1>1, <2>2 DEF Pending, OnlyBytes, End, FdOf
  <2>. QED
    BY <2>1, <2>2
<1>4. ReportsAreTrue'
  <2>. SUFFICES ASSUME NEW x \in Ends
                PROVE  sys'.end[x].written = reported'[x] + Pending(sys', gather', x)
    BY PendingFacts DEF ReportsAreTrue
  <2>1. sys.end[x].written = reported[x] + Pending(sys, gather, x)
    BY PendingFacts DEF Inv, ReportsAreTrue
  <2>2. sys'.end[x].written = sys.end[x].written + (IF x = End(sys, t) THEN n ELSE 0)
    BY DEF Wrote
  <2>3. Pending(sys', gather', x) = Pending(sys, gather', x)
    BY <1>3
  <2>. QED
    BY <2>1, <2>2, <2>3
<1>. QED
  BY <1>1, <1>2, <1>4, ByteStep

\* Where no writev() is in progress, or another is, nothing is pending here.
LEMMA GatherFacts ==
  ASSUME Inv
  PROVE  /\ gather \in [t : Transports \cup {"none"}, rest : Seq(Nat), total : Nat]
         /\ reported \in [Ends -> Nat] /\ NoGather.total = 0
         /\ NoGather \in [t : Transports \cup {"none"}, rest : Seq(Nat), total : Nat]
         /\ \A x : Pending(sys, NoGather, x) = 0 /\ Pending(sys, gather, x) \in Nat
         /\ gather # NoGather => gather.t \in Transports /\ FdOf(sys, gather.t) # NoFd
<1>1. gather \in [t : Transports \cup {"none"}, rest : Seq(Nat), total : Nat]
  BY DEF Inv, ControlTypeOK
<1>2. reported \in [Ends -> Nat] /\ (gather # NoGather => gather.t \in Transports /\ FdOf(sys, gather.t) # NoFd)
  BY DEF Inv, ControlTypeOK, GatherInv
<1>3. << >> \in Seq(Nat)
  OBVIOUS
<1>4. NoGather \in [t : Transports \cup {"none"}, rest : Seq(Nat), total : Nat] /\ NoGather.total = 0
  BY <1>3 DEF NoGather
<1>5. \A x : Pending(sys, NoGather, x) = 0 /\ Pending(sys, gather, x) \in Nat
  BY <1>1, <1>4 DEF Pending
<1>. QED
  BY <1>1, <1>2, <1>4, <1>5

LEMMA WriteStep ==
  ASSUME Inv, NEW t \in Transports, NEW spans, Write(t, spans)
  PROVE  StepOK
<1>. DEFINE e == End(sys, t)
<1>1. /\ FdOf(sys, t) # NoFd
      /\ UNCHANGED <<listener, connect, plan, alone>> /\ gather' = gather
      /\ \E result \in send_to_socket(sys, t, Total(spans)) :
           /\ sys' = Sent(sys, e, result.bytes)
           /\ reported' = [reported EXCEPT ![e] = @ + result.bytes]
  BY DEF Write, MayWrite, Fresh, FdOf
<1>2. PICK result \in send_to_socket(sys, t, Total(spans)) :
        /\ sys' = Sent(sys, e, result.bytes)
        /\ reported' = [reported EXCEPT ![e] = @ + result.bytes]
  BY <1>1
<1>. DEFINE n == result.bytes
<1>3. Taken(t, n)
  BY <1>1, SendResult
<1>4. n \in Nat
  BY <1>3 DEF Taken
<1>5. Wrote(t, n)
  BY <1>1, <1>2, <1>3, WroteBytes
<1>6. e \in Ends
  BY <1>1, TransportEnd
<1>. HIDE DEF e, n
<1>7. reported' = [reported EXCEPT ![e] = @ + n]
  BY <1>2 DEF n
<1>8. reported \in [Ends -> Nat] /\ \A x : Pending(sys, gather, x) \in Nat
  BY GatherFacts
<1>9. \A x \in Ends : reported'[x] + Pending(sys, gather', x) =
        reported[x] + Pending(sys, gather, x) + (IF x = End(sys, t) THEN n ELSE 0)
  BY <1>1, <1>4, <1>7, <1>8 DEF e
<1>10. reported' \in [Ends -> Nat]
  BY <1>4, <1>6, <1>7, <1>8
<1>11. gather' \in [t : Transports \cup {"none"}, rest : Seq(Nat), total : Nat]
       /\ (gather' # NoGather => gather'.t \in Transports /\ FdOf(sys, gather'.t) # NoFd)
  BY <1>1, GatherFacts
<1>. QED
  BY <1>1, <1>4, <1>5, <1>9, <1>10, <1>11, BookStep

LEMMA BeginWritevStep ==
  ASSUME Inv, NEW t \in Transports, NEW spans \in SpanLists, BeginWritev(t, spans)
  PROVE  StepOK
<1>1. /\ FdOf(sys, t) # NoFd /\ gather = NoGather
      /\ gather' = [t |-> t, rest |-> spans, total |-> 0]
      /\ UNCHANGED <<listener, connect, plan, alone>> /\ sys' = sys /\ reported' = reported
  BY DEF BeginWritev, MayWrite, Fresh, FdOf
<1>2. Wrote(t, 0)
  BY <1>1, WroteNothing
<1>3. spans \in Seq(Nat)
  BY TransportAssumption DEF TransportAssumption
<1>4. gather' \in [t : Transports \cup {"none"}, rest : Seq(Nat), total : Nat]
      /\ gather'.t = t
  BY <1>1, <1>3
<1>5. reported \in [Ends -> Nat] /\ \A x : Pending(sys, NoGather, x) = 0
  BY GatherFacts
<1>6. \A x : Pending(sys, gather', x) = 0
  BY <1>1 DEF Pending
<1>7. \A x \in Ends : reported'[x] + Pending(sys, gather', x) =
        reported[x] + Pending(sys, gather, x) + (IF x = End(sys, t) THEN 0 ELSE 0)
  BY <1>1, <1>5, <1>6
<1>. QED
  BY <1>1, <1>2, <1>4, <1>5, <1>7, BookStep

LEMMA WritevDoneStep ==
  ASSUME Inv, WritevDone
  PROVE  StepOK
<1>. DEFINE t == gather.t
            e == End(sys, t)
<1>1. /\ gather # NoGather
      /\ UNCHANGED <<listener, connect, plan, alone>> /\ sys' = sys
      /\ reported' = [reported EXCEPT ![e] = @ + gather.total] /\ gather' = NoGather
  BY DEF WritevDone, WritevReturns
<1>2. t \in Transports /\ FdOf(sys, t) # NoFd
  BY <1>1, GatherFacts
<1>3. Wrote(t, 0)
  BY <1>1, WroteNothing
<1>4. e \in Ends
  BY <1>2, TransportEnd
<1>5. /\ reported \in [Ends -> Nat] /\ \A x : Pending(sys, NoGather, x) = 0
      /\ NoGather \in [t : Transports \cup {"none"}, rest : Seq(Nat), total : Nat]
  BY GatherFacts
<1>6. gather.total \in Nat
  BY GatherFacts
<1>7. \A x : Pending(sys, gather, x) = IF x = e THEN gather.total ELSE 0
  BY DEF Pending
<1>. HIDE DEF e, t
<1>8. \A x \in Ends : reported'[x] + Pending(sys, gather', x) =
        reported[x] + Pending(sys, gather, x) + (IF x = End(sys, t) THEN 0 ELSE 0)
  BY <1>1, <1>5, <1>6, <1>7
<1>9. reported' \in [Ends -> Nat]
  BY <1>1, <1>4, <1>5, <1>6
<1>. QED
  BY <1>1, <1>2, <1>3, <1>5, <1>8, <1>9, BookStep

LEMMA WriteSpanStep ==
  ASSUME Inv, WriteSpan
  PROVE  StepOK
<1>. DEFINE t == gather.t
            e == End(sys, t)
            size == Head(gather.rest)
<1>1. /\ gather # NoGather /\ gather.rest # << >>
      /\ UNCHANGED <<listener, connect, plan, alone>>
  BY DEF WriteSpan
<1>2. t \in Transports /\ FdOf(sys, t) # NoFd
  BY <1>1, GatherFacts
<1>3. /\ gather \in [t : Transports \cup {"none"}, rest : Seq(Nat), total : Nat]
      /\ reported \in [Ends -> Nat]
      /\ NoGather \in [t : Transports \cup {"none"}, rest : Seq(Nat), total : Nat]
      /\ \A x : Pending(sys, NoGather, x) = 0
  BY GatherFacts
<1>4. gather.total \in Nat /\ size \in Nat /\ Tail(gather.rest) \in Seq(Nat)
  BY <1>1, <1>3
<1>5. e \in Ends
  BY <1>2, TransportEnd
<1>6. \A x : Pending(sys, gather, x) = IF x = e THEN gather.total ELSE 0
  BY DEF Pending
<1>7. CASE size = 0
  <2>1. gather' = [gather EXCEPT !.rest = Tail(@)] /\ sys' = sys /\ reported' = reported
    BY <1>7 DEF WriteSpan
  <2>2. Wrote(t, 0)
    BY <2>1, WroteNothing
  <2>3. gather' \in [t : Transports \cup {"none"}, rest : Seq(Nat), total : Nat]
        /\ gather'.t = gather.t /\ gather'.total = gather.total
    BY <1>3, <1>4, <2>1
  <2>4. \A x : Pending(sys, gather', x) = Pending(sys, gather, x)
    BY <2>3 DEF Pending
  <2>. HIDE DEF e, t
  <2>5. \A x \in Ends : reported'[x] + Pending(sys, gather', x) =
          reported[x] + Pending(sys, gather, x) + (IF x = End(sys, t) THEN 0 ELSE 0)
    <3>1. \A x \in Ends : reported[x] \in Nat /\ Pending(sys, gather, x) \in Nat
      BY <1>3, GatherFacts
    <3>2. \A x \in Ends : reported'[x] + Pending(sys, gather', x) =
            reported[x] + Pending(sys, gather, x)
      BY <2>1, <2>4
    <3>. QED
      BY <3>1, <3>2
  <2>6. gather'.t \in Transports /\ FdOf(sys, gather'.t) # NoFd
    BY <1>2, <2>3 DEF t
  <2>7. reported' \in [Ends -> Nat]
    BY <1>3, <2>1
  <2>. QED
    BY <1>1, <1>2, <2>2, <2>3, <2>5, <2>6, <2>7, BookStep
<1>8. CASE size # 0
  <2>1. PICK result \in send_to_socket(sys, t, size) :
          /\ sys' = Sent(sys, e, result.bytes)
          /\ IF result.kind # "ok" \/ result.bytes < size
             THEN WritevReturns(e, gather.total + result.bytes)
             ELSE /\ gather' = [gather EXCEPT !.rest = Tail(@), !.total = @ + size]
                  /\ UNCHANGED reported
    BY <1>8 DEF WriteSpan
  <2>. DEFINE n == result.bytes
  <2>2. Taken(t, n) /\ (size \in Nat => n <= size)
    BY <1>2, SendResult
  <2>3. n \in Nat /\ n <= size
    BY <1>4, <2>2 DEF Taken
  <2>4. Wrote(t, n)
    BY <1>2, <2>1, <2>2, WroteBytes
  <2>5. CASE result.kind # "ok" \/ n < size
    <3>1. reported' = [reported EXCEPT ![e] = @ + (gather.total + n)] /\ gather' = NoGather
      BY <2>1, <2>5, <1>3, <1>4, <2>3, <1>5 DEF WritevReturns
    <3>. HIDE DEF e, t, n
    <3>2. \A x \in Ends : reported'[x] + Pending(sys, gather', x) =
            reported[x] + Pending(sys, gather, x) + (IF x = e THEN n ELSE 0)
      BY <1>3, <1>4, <1>6, <2>3, <3>1
    <3>3. reported' \in [Ends -> Nat]
      BY <1>3, <1>4, <1>5, <2>3, <3>1
    <3>. QED
      BY <1>1, <1>2, <1>3, <2>3, <2>4, <3>1, <3>2, <3>3, BookStep DEF e
  <2>6. CASE ~(result.kind # "ok" \/ n < size)
    <3>1. gather' = [gather EXCEPT !.rest = Tail(@), !.total = @ + size] /\ reported' = reported
      BY <2>1, <2>6
    <3>2. n = size
      BY <1>4, <2>3, <2>6
    <3>3. gather' \in [t : Transports \cup {"none"}, rest : Seq(Nat), total : Nat]
          /\ gather'.t = gather.t /\ gather'.total = gather.total + size
      <4>. HIDE DEF size
      <4>. DEFINE sum == gather.total + size
                  rest == Tail(gather.rest)
      <4>1. sum \in Nat /\ rest \in Seq(Nat)
        BY <1>4
      <4>2. gather' = [gather EXCEPT !.rest = rest, !.total = sum]
        BY <1>3, <3>1
      <4>. HIDE DEF sum, rest
      <4>3. gather' \in [t : Transports \cup {"none"}, rest : Seq(Nat), total : Nat]
            /\ gather'.t = gather.t /\ gather'.total = sum
        BY <1>3, <4>1, <4>2
      <4>. QED
        BY <4>3 DEF sum
    <3>4. \A x : Pending(sys, gather', x) = IF x = e THEN gather.total + size ELSE 0
      BY <3>3 DEF Pending
    <3>. HIDE DEF e, t, n, size
    <3>5. \A x \in Ends : reported'[x] + Pending(sys, gather', x) =
            reported[x] + Pending(sys, gather, x) + (IF x = e THEN n ELSE 0)
      BY <1>3, <1>4, <1>6, <3>1, <3>2, <3>4
    <3>6. gather'.t \in Transports /\ FdOf(sys, gather'.t) # NoFd
      BY <1>2, <3>3 DEF t
    <3>7. reported' \in [Ends -> Nat]
      BY <1>3, <3>1
    <3>. QED
      BY <1>1, <1>2, <2>3, <2>4, <3>3, <3>5, <3>6, <3>7, BookStep DEF e
  <2>. QED
    BY <2>5, <2>6
<1>. QED
  BY <1>7, <1>8

-----------------------------------------------------------------------------
(* Listeners.                                                              *)

AnyPath == {NoEntry, Stale} \cup Fds

\* A listener as its record and the table of descriptors must agree.
Fits(S, r) ==
  /\ r.at = "empty" => r = NoListener
  /\ r.at = "open" \/ r.at = "empty" \/ r.path \in Paths
  /\ (r.fd # NoFd) <=> (r.at \in HasSocket)
  /\ r.fd # NoFd => S.file[r.fd].kind \in {"socket", "bound", "listening"}
  /\ r.at \in {"listening", "open"} => S.file[r.fd].kind = "listening"

\* What the path of a listener that is alone there leads to.
Leads(S, r) ==
  /\ r.at = "unlinked" => S.path[r.path] = NoEntry
  /\ r.at \in {"bound", "listening", "open"} /\ r.path # NoPath => S.path[r.path] = r.fd

LEMMA ListenerFacts ==
  ASSUME Inv, NEW l \in Listeners
  PROVE  /\ listener[l] \in ListenerRecords /\ Fits(sys, listener[l])
         /\ alone[l] \in BOOLEAN /\ (alone[l] => Leads(sys, listener[l]))
         /\ Fd(l) = listener[l].fd /\ Fd(l) \in {NoFd} \cup Fds
         /\ Fd(l) # NoFd => /\ Fd(l) \in InHand /\ Fd(l) # connect.fd /\ Fd(l) \notin sys.app
                            /\ \A t \in Transports : FdOf(sys, t) # Fd(l)
         /\ \A k \in Listeners : k # l /\ Fd(l) # NoFd => Fd(k) # Fd(l)
         /\ \A k \in Listeners : alone[l] /\ listener[l].path # NoPath /\ k # l =>
              listener[k].path # listener[l].path
<1>1. listener[l] \in ListenerRecords /\ alone[l] \in BOOLEAN
  BY DEF Inv, ControlTypeOK
<1>2. Fits(sys, listener[l])
  BY DEF Fits, Inv, ListenerInv, At, Fd
<1>3. alone[l] => Leads(sys, listener[l])
  BY DEF Leads, Inv, PathsAreOwned, AddressFree, PathLeadsToListener, At, Fd
<1>4. Fd(l) = listener[l].fd /\ Fd(l) \in {NoFd} \cup Fds
  BY HandFacts DEF Fd
<1>5. Fd(l) # NoFd => /\ Fd(l) \in InHand /\ Fd(l) # connect.fd /\ Fd(l) \notin sys.app
                      /\ \A t \in Transports : FdOf(sys, t) # Fd(l)
  BY HandFacts DEF Inv, ListenerInv
<1>6. \A k \in Listeners : k # l /\ Fd(l) # NoFd => Fd(k) # Fd(l)
  BY DEF Inv, ListenerInv
<1>7. \A k \in Listeners : alone[l] /\ listener[l].path # NoPath /\ k # l =>
        listener[k].path # listener[l].path
  BY DEF Inv, AloneInv
<1>. QED
  BY <1>1, <1>2, <1>3, <1>4, <1>5, <1>6, <1>7

\* Every listener's part of the invariant makes the whole of it.
LEMMA ListenersFit ==
  ASSUME \A l \in Listeners : Fits(sys', listener'[l]),
         \A l \in Listeners : Fd(l)' # NoFd => Fd(l)' # connect'.fd,
         \A l, k \in Listeners : k # l /\ Fd(l)' # NoFd => Fd(k)' # Fd(l)'
  PROVE  ListenerInv'
BY DEF Fits, ListenerInv, At, Fd

LEMMA ListenersLead ==
  ASSUME \A l \in Listeners : alone'[l] => Leads(sys', listener'[l])
  PROVE  PathsAreOwned'
BY DEF Leads, PathsAreOwned, AddressFree, PathLeadsToListener, At, Fd

\* A step of listeners keeps what connects, writers and transports have.
LEMMA ListenCase ==
  ASSUME Inv, UnchangedButListener, NEW D, D \subseteq Fds, Same(sys, sys', D, AnyPath, {}),
         \A t \in Transports : FdOf(sys, t) \notin D,
         connect.fd # NoFd => connect.fd \notin D,
         Good(sys', InHand'), listener' \in [Listeners -> ListenerRecords],
         alone' \in [Listeners -> BOOLEAN], ListenerInv', AloneInv', PathsAreOwned'
  PROVE  StepOK
<1>1. connect' = connect /\ gather' = gather /\ plan' = plan /\ reported' = reported
  BY DEF UnchangedButListener
<1>2. ControlTypeOK'
  BY <1>1 DEF Inv, ControlTypeOK
<1>3. connect.t \in {} /\ ~Connecting("idle") => FdOf(sys', connect.t) = NoFd
  OBVIOUS
<1>4. ConnectInv'
  BY <1>1, <1>3, KeepConnect
<1>5. gather # NoGather => gather.t \notin {} /\ FdOf(sys, gather.t) \notin D
  BY DEF Inv, GatherInv
<1>6. GatherInv' /\ ReportsAreTrue'
  BY <1>1, <1>5, KeepGather
<1>7. FinalStep /\ PipeStep
  BY QuietStep
<1>. QED
  BY <1>2, <1>4, <1>6, <1>7 DEF StepOK, Inv

\* A step of one listener, whose record becomes r.
LEMMA ListenerStep ==
  ASSUME Inv, UnchangedButListener, NEW l \in Listeners, NEW r \in ListenerRecords,
         listener' = [listener EXCEPT ![l] = r],
         r.fd # NoFd /\ r.fd # Fd(l) =>
           r.fd \notin InHand /\ \A t \in Transports : FdOf(sys, t) # r.fd,
         Good(sys', (InHand \ {Fd(l)}) \cup ({r.fd} \ {NoFd})),
         Same(sys, sys', {Fd(l), r.fd} \ {NoFd}, AnyPath, {}),
         Fits(sys', r),
         \A q \in Paths : q # listener[l].path /\ sys.path[q] \notin {Fd(l)} \ {NoFd} =>
           sys'.path[q] = sys.path[q],
         alone' \in [Listeners -> BOOLEAN],
         \A k \in Listeners \ {l} :
           alone'[k] => alone[k] /\ (r.path = NoPath \/ listener[k].path # r.path),
         alone'[l] /\ r.path # NoPath => \A k \in Listeners \ {l} : listener[k].path # r.path,
         alone'[l] => Leads(sys', r)
  PROVE  StepOK
<1>. DEFINE D == {Fd(l), r.fd} \ {NoFd}
<1>1. /\ listener \in [Listeners -> ListenerRecords] /\ alone \in [Listeners -> BOOLEAN]
      /\ r.fd \in {NoFd} \cup Fds /\ connect' = connect
  BY DEF Inv, ControlTypeOK, ListenerRecords, UnchangedButListener
<1>2. /\ listener' \in [Listeners -> ListenerRecords] /\ listener'[l] = r
      /\ \A k \in Listeners \ {l} : listener'[k] = listener[k]
  BY <1>1
<1>3. Fd(l)' = r.fd /\ \A k \in Listeners \ {l} : Fd(k)' = Fd(k)
  BY <1>2 DEF Fd
<1>4. Fd(l) \in {NoFd} \cup Fds /\ connect.fd \in {NoFd} \cup Fds
  BY HandFacts
<1>5. /\ Fd(l) # NoFd => Fd(l) # connect.fd /\ \A t \in Transports : FdOf(sys, t) # Fd(l)
      /\ \A k \in Listeners \ {l} : Fd(l) # NoFd => Fd(k) # Fd(l)
  BY ListenerFacts
<1>6. /\ r.fd # NoFd => r.fd # connect.fd /\ \A t \in Transports : FdOf(sys, t) # r.fd
      /\ \A k \in Listeners \ {l} : r.fd # NoFd => Fd(k) # r.fd
  <2>1. CASE r.fd = Fd(l)
    BY <1>5, <2>1
  <2>2. CASE r.fd # Fd(l)
    BY <2>2, HandFacts
  <2>. QED
    BY <2>1, <2>2
<1>7. InHand' = (InHand \ {Fd(l)}) \cup ({r.fd} \ {NoFd})
  <2>1. InHand' = ({IF k = l THEN r.fd ELSE Fd(k) : k \in Listeners} \cup {connect.fd}) \ {NoFd}
    BY <1>1, <1>3 DEF InHand
  <2>. QED
    BY <1>5, <2>1 DEF InHand
<1>8. Good(sys', InHand')
  BY <1>7
<1>9. D \subseteq Fds /\ (\A t \in Transports : FdOf(sys, t) \notin D)
      /\ (connect.fd # NoFd => connect.fd \notin D)
  BY <1>1, <1>4, <1>5, <1>6
<1>10. \A k \in Listeners \ {l} : Fd(k) # NoFd => Fd(k) \in Fds \ D
  BY <1>5, <1>6, HandFacts
<1>11. \A k \in Listeners \ {l} : Fd(k) # NoFd => sys'.file[Fd(k)].kind = sys.file[Fd(k)].kind
  BY <1>10 DEF Same, Alike
<1>. HIDE DEF D
<1>12. ListenerInv'
  <2>1. ASSUME NEW k \in Listeners PROVE Fits(sys', listener'[k])
    <3>1. CASE k = l
      BY <1>2, <3>1
    <3>2. CASE k # l
      <4>1. Fits(sys, listener[k]) /\ listener'[k] = listener[k] /\ Fd(k) = listener[k].fd
        BY <1>2, <3>2, ListenerFacts
      <4>2. listener[k].fd # NoFd => sys'.file[listener[k].fd].kind = sys.file[listener[k].fd].kind
        BY <1>11, <3>2, <4>1
      <4>3. listener[k].at \in {"listening", "open"} => listener[k].fd # NoFd
        BY <4>1 DEF Fits, HasSocket
      <4>. QED
        BY <4>1, <4>2, <4>3 DEF Fits
    <3>. QED
      BY <3>1, <3>2
  <2>2. \A k \in Listeners : Fd(k)' # NoFd => Fd(k)' # connect'.fd
    BY <1>1, <1>3, <1>6, ListenerFacts
  <2>3. \A j, k \in Listeners : k # j /\ Fd(j)' # NoFd => Fd(k)' # Fd(j)'
    BY <1>3, <1>6, ListenerFacts
  <2>. QED
    BY <2>1, <2>2, <2>3, ListenersFit
<1>13. AloneInv'
  <2>. SUFFICES ASSUME NEW j \in Listeners, NEW k \in Listeners, alone'[j],
                       listener'[j].path # NoPath, k # j
                PROVE  listener'[k].path # listener'[j].path
    BY DEF AloneInv
  <2>1. CASE j = l
    BY <1>2, <2>1
  <2>2. CASE j # l /\ k = l
    BY <1>2, <2>2
  <2>3. CASE j # l /\ k # l
    <3>1. alone[j] /\ listener'[j] = listener[j] /\ listener'[k] = listener[k]
      BY <1>2, <2>3
    <3>. QED
      BY <3>1, ListenerFacts
  <2>. QED
    BY <2>1, <2>2, <2>3
<1>14. PathsAreOwned'
  <2>1. ASSUME NEW k \in Listeners, alone'[k] PROVE Leads(sys', listener'[k])
    <3>1. CASE k = l
      BY <1>2, <2>1, <3>1
    <3>2. CASE k # l
      <4>1. /\ alone[k] /\ listener'[k] = listener[k] /\ Leads(sys, listener[k])
            /\ listener[k].path # NoPath => listener[l].path # listener[k].path
            /\ listener[k] \in ListenerRecords /\ Fd(k) = listener[k].fd
            /\ Fits(sys, listener[k])
        BY <1>2, <2>1, <3>2, ListenerFacts
      <4>2. listener[k].path \in Paths \cup {NoPath}
        BY <4>1 DEF ListenerRecords
      <4>3. ASSUME listener[k].path \in Paths, sys.path[listener[k].path] \in {NoEntry, Fd(k)}
            PROVE  sys'.path[listener[k].path] = sys.path[listener[k].path]
        <5>1. sys.path[listener[k].path] \notin {Fd(l)} \ {NoFd}
          BY <1>4, <1>5, <3>2, <4>3, FdFacts
        <5>2. listener[k].path # NoPath
          BY <4>3, FdFacts
        <5>. QED
          BY <4>1, <4>3, <5>1, <5>2
      <4>4. listener[k].at = "unlinked" => listener[k].path \in Paths
        BY <4>1 DEF Fits
      <4>. QED
        BY <4>1, <4>2, <4>3, <4>4 DEF Leads
    <3>. QED
      BY <3>1, <3>2
  <2>. QED
    BY <2>1, ListenersLead
<1>15. Same(sys, sys', D, AnyPath, {})
  BY DEF D
<1>. QED
  BY <1>2, <1>8, <1>9, <1>12, <1>13, <1>14, <1>15, ListenCase

\* A listener that stays where it is and goes on.
LEMMA StayStep ==
  ASSUME Inv, UnchangedButListener, alone' = alone, NEW l \in Listeners,
         NEW at \in {"unlinked", "bound", "listening", "open"}, Fd(l) # NoFd,
         listener' = [listener EXCEPT ![l].at = at], listener[l].path \in Paths,
         Good(sys', InHand), Same(sys, sys', {Fd(l)}, AnyPath, {}),
         sys'.file[Fd(l)].kind \in {"socket", "bound", "listening"},
         at \in {"listening", "open"} => sys'.file[Fd(l)].kind = "listening",
         \A q \in Paths : q # listener[l].path /\ sys.path[q] # Fd(l) =>
           sys'.path[q] = sys.path[q],
         alone[l] => sys'.path[listener[l].path] = IF at = "unlinked" THEN NoEntry ELSE Fd(l)
  PROVE  StepOK
<1>. DEFINE r == [listener[l] EXCEPT !.at = at]
<1>1. listener \in [Listeners -> ListenerRecords] /\ alone \in [Listeners -> BOOLEAN]
  BY DEF Inv, ControlTypeOK
<1>2. r \in ListenerRecords /\ r.at = at /\ r.fd = Fd(l) /\ r.path = listener[l].path
  <2>1. listener[l] \in ListenerRecords
    BY <1>1
  <2>. QED
    BY <2>1 DEF ListenerRecords, Fd
<1>3. listener' = [listener EXCEPT ![l] = r]
  BY <1>1
<1>. HIDE DEF r
<1>4. Fits(sys', r)
  BY <1>2, FdFacts DEF Fits, HasSocket
<1>5. alone'[l] => Leads(sys', r)
  BY <1>2 DEF Leads
<1>6. (InHand \ {Fd(l)}) \cup ({r.fd} \ {NoFd}) = InHand
  BY <1>2, ListenerFacts
<1>7. {Fd(l), r.fd} \ {NoFd} = {Fd(l)}
  BY <1>2
<1>8. \A k \in Listeners \ {l} :
        alone'[k] => alone[k] /\ (r.path = NoPath \/ listener[k].path # r.path)
  BY <1>2, ListenerFacts
<1>9. alone'[l] /\ r.path # NoPath => \A k \in Listeners \ {l} : listener[k].path # r.path
  BY <1>2, ListenerFacts
<1>10. \A q \in Paths : q # listener[l].path /\ sys.path[q] \notin {Fd(l)} \ {NoFd} =>
         sys'.path[q] = sys.path[q]
  OBVIOUS
<1>11. r.fd # NoFd /\ r.fd # Fd(l) =>
         r.fd \notin InHand /\ \A t \in Transports : FdOf(sys, t) # r.fd
  BY <1>2
<1>12. Good(sys', (InHand \ {Fd(l)}) \cup ({r.fd} \ {NoFd}))
  BY <1>6
<1>13. Same(sys, sys', {Fd(l), r.fd} \ {NoFd}, AnyPath, {})
  BY <1>7
<1>14. alone' \in [Listeners -> BOOLEAN]
  BY <1>1
<1>. QED
  BY <1>2, <1>3, <1>4, <1>5, <1>8, <1>9, <1>10, <1>11, <1>12, <1>13, <1>14, ListenerStep

\* A listener that lets go of its socket, and maybe has a path to remove yet.
LEMMA LeaveStep ==
  ASSUME Inv, UnchangedButListener, alone' = alone, NEW l \in Listeners,
         NEW r \in ListenerRecords, listener' = [listener EXCEPT ![l] = r],
         r = NoListener \/ (r.at = "closing" /\ r.fd = NoFd /\ r.path = listener[l].path
                            /\ r.path \in Paths),
         Good(sys', InHand \ {Fd(l)}), Same(sys, sys', {Fd(l)} \ {NoFd}, AnyPath, {}),
         \A q \in Paths : q # listener[l].path /\ sys.path[q] \notin {Fd(l)} \ {NoFd} =>
           sys'.path[q] = sys.path[q]
  PROVE  StepOK
<1>1. alone \in [Listeners -> BOOLEAN]
  BY DEF Inv, ControlTypeOK
<1>2. /\ r.fd = NoFd /\ r.at \in {"empty", "closing"} /\ r.path \in {NoPath, listener[l].path}
      /\ r.at = "empty" => r = NoListener
      /\ r.at = "closing" => r.path \in Paths
  BY DEF NoListener
<1>3. Fits(sys', r)
  BY <1>2 DEF Fits, HasSocket
<1>4. alone'[l] => Leads(sys', r)
  BY <1>2 DEF Leads
<1>5. (InHand \ {Fd(l)}) \cup ({r.fd} \ {NoFd}) = InHand \ {Fd(l)}
  BY <1>2
<1>6. {Fd(l), r.fd} \ {NoFd} = {Fd(l)} \ {NoFd}
  BY <1>2
<1>7. \A k \in Listeners \ {l} :
        alone'[k] => alone[k] /\ (r.path = NoPath \/ listener[k].path # r.path)
  BY <1>2, ListenerFacts
<1>8. alone'[l] /\ r.path # NoPath => \A k \in Listeners \ {l} : listener[k].path # r.path
  BY <1>2, ListenerFacts
<1>9. r.fd # NoFd /\ r.fd # Fd(l) =>
        r.fd \notin InHand /\ \A t \in Transports : FdOf(sys, t) # r.fd
  BY <1>2
<1>10. Good(sys', (InHand \ {Fd(l)}) \cup ({r.fd} \ {NoFd}))
  BY <1>5
<1>11. Same(sys, sys', {Fd(l), r.fd} \ {NoFd}, AnyPath, {})
  BY <1>6
<1>12. alone' \in [Listeners -> BOOLEAN]
  BY <1>1
<1>. QED
  BY <1>3, <1>4, <1>7, <1>8, <1>9, <1>10, <1>11, <1>12, ListenerStep

\* A path that leads elsewhere changes nothing for descriptors and streams.
LEMMA PathGood ==
  ASSUME NEW S, NEW H, Good(S, H), NEW p \in Paths, NEW v \in AnyPath
  PROVE  LET T == [S EXCEPT !.path = [S.path EXCEPT ![p] = v]]
         IN  /\ Good(T, H) /\ Same(S, T, {}, AnyPath, {})
             /\ T.file = S.file /\ T.transport = S.transport
             /\ T.path[p] = v /\ \A q \in Paths \ {p} : T.path[q] = S.path[q]
<1>. DEFINE T == [S EXCEPT !.path = [S.path EXCEPT ![p] = v]]
<1>1. S \in Systems
  BY GoodSystems
<1>2. /\ T \in Systems /\ T.file = S.file /\ T.transport = S.transport /\ T.app = S.app
      /\ T.end = S.end /\ T.path[p] = v /\ \A q \in Paths \ {p} : T.path[q] = S.path[q]
  BY <1>1 DEF Systems, AnyPath
<1>. HIDE DEF T
<1>3. Sound(T, H)
  BY <1>2, SoundAlike DEF Good
<1>4. PlacesSound(T)
  <2>1. \A d \in Fds : \A i \in Places(S, d) : Place(S, d, i) # NoEnd =>
          T.end[Place(S, d, i)].state \in {"open", "shut"}
    BY <1>2 DEF Good, PlacesSound
  <2>. QED
    BY <1>2, <2>1, PlacesAlike DEF Good
<1>5. CountsSound(T)
  BY <1>2 DEF Good, CountsSound
<1>6. Same(S, T, {}, AnyPath, {})
  <2>1. \A q \in Paths : S.path[q] \in AnyPath
    BY <1>1, SystemFields DEF AnyPath
  <2>. QED
    BY <1>2, <2>1 DEF Same, Alike, SameBytes
<1>. QED
  BY <1>2, <1>3, <1>4, <1>5, <1>6 DEF Good, T

LEMMA UnlinkGood ==
  ASSUME NEW S, NEW H, Good(S, H), NEW p \in Paths \cup {NoPath}
  PROVE  LET T == Unlink(S, p)
         IN  /\ Good(T, H) /\ Same(S, T, {}, AnyPath, {})
             /\ T.file = S.file /\ T.transport = S.transport
             /\ p \in Paths => T.path[p] = NoEntry
             /\ \A q \in Paths \ {p} : T.path[q] = S.path[q]
<1>. DEFINE T == Unlink(S, p)
<1>1. S \in Systems
  BY GoodSystems
<1>2. CASE p = NoPath
  <2>1. T = S
    BY <1>2 DEF Unlink
  <2>2. Same(S, S, {}, AnyPath, {})
    BY DEF Same, Alike, SameBytes
  <2>. QED
    BY <1>2, <2>1, <2>2, FdFacts
<1>3. CASE p \in Paths
  <2>1. T = [S EXCEPT !.path = [S.path EXCEPT ![p] = NoEntry]]
    BY <1>1, <1>3, FdFacts DEF Unlink, Systems
  <2>2. NoEntry \in AnyPath
    BY DEF AnyPath
  <2>. HIDE DEF T
  <2>3. /\ Good(T, H) /\ Same(S, T, {}, AnyPath, {})
        /\ T.file = S.file /\ T.transport = S.transport
        /\ T.path[p] = NoEntry /\ \A q \in Paths \ {p} : T.path[q] = S.path[q]
    BY <1>3, <2>1, <2>2, PathGood
  <2>. QED
    BY <2>3 DEF T
<1>. QED
  BY <1>2, <1>3

\* close_fd() of what a listener may have, and the paths that go with it.
LEMMA CloseMaybeGood ==
  ASSUME NEW S, NEW H, Good(S, H), NEW d \in H \cup {NoFd}
  PROVE  LET T == close_fd(S, d)
         IN  /\ Good(T, H \ {d}) /\ Same(S, T, {d} \ {NoFd}, AnyPath, {})
             /\ T.transport = S.transport
             /\ \A q \in Paths : S.path[q] \notin {d} \ {NoFd} => T.path[q] = S.path[q]
<1>. DEFINE T == close_fd(S, d)
<1>1. \A x \in H : x \in Fds
  BY DEF Good, Sound, Live
<1>2. CASE d = NoFd
  <2>1. T = S
    BY <1>2 DEF close_fd
  <2>2. H \ {d} = H
    BY <1>1, <1>2, FdFacts
  <2>3. Same(S, S, {d} \ {NoFd}, AnyPath, {})
    BY DEF Same, Alike, SameBytes
  <2>. QED
    BY <2>1, <2>2, <2>3
<1>3. CASE d # NoFd
  <2>1. d \in H /\ d \in Fds
    BY <1>1, <1>3
  <2>. HIDE DEF T
  <2>2. /\ Good(T, H \ {d}) /\ Same(S, T, {d}, {d}, {}) /\ T.transport = S.transport
        /\ T.path = [p \in Paths |-> IF S.path[p] = d THEN Stale ELSE S.path[p]]
    BY <2>1, CloseHeldGood DEF T
  <2>3. Same(S, T, {d}, AnyPath, {})
    BY <2>1, <2>2, SameMore DEF AnyPath
  <2>4. {d} \ {NoFd} = {d}
    BY <1>3
  <2>. QED
    BY <2>2, <2>3, <2>4 DEF T
<1>. QED
  BY <1>2, <1>3

\* A listener that has its socket, between two system calls.
LEMMA BusyListener ==
  ASSUME Inv, NEW l \in Listeners, listener[l].at \in HasSocket
  PROVE  /\ Good(sys, InHand) /\ Fd(l) \in Fds /\ Fd(l) # NoFd /\ Fd(l) \in InHand
         /\ sys.file[Fd(l)].kind \in {"socket", "bound", "listening"}
         /\ listener[l].path \in Paths \cup {NoPath} /\ listener[l].options \in Options
         /\ listener[l].at # "open" => listener[l].path \in Paths
<1>1. Fits(sys, listener[l]) /\ Fd(l) = listener[l].fd /\ listener[l] \in ListenerRecords
      /\ Fd(l) \in {NoFd} \cup Fds /\ (Fd(l) # NoFd => Fd(l) \in InHand)
  BY ListenerFacts
<1>2. Good(sys, InHand)
  BY DEF Inv
<1>3. listener[l].at # "empty"
  BY DEF HasSocket
<1>. QED
  BY <1>1, <1>2, <1>3 DEF Fits, ListenerRecords

LEMMA UnlinkFirstStep ==
  ASSUME Inv, NEW l \in Listeners, UnlinkFirst(l)
  PROVE  StepOK
<1>. DEFINE p == listener[l].path
<1>1. /\ UnchangedButListener /\ alone' = alone /\ listener[l].at = "socket"
      /\ sys' = Unlink(sys, p) /\ listener' = [listener EXCEPT ![l].at = "unlinked"]
  BY DEF UnlinkFirst, At
<1>2. listener[l].at \in HasSocket
  BY <1>1 DEF HasSocket
<1>3. /\ Good(sys, InHand) /\ Fd(l) # NoFd /\ p \in Paths
      /\ sys.file[Fd(l)].kind \in {"socket", "bound", "listening"}
  BY <1>1, <1>2, BusyListener
<1>4. /\ Good(sys', InHand) /\ Same(sys, sys', {}, AnyPath, {}) /\ sys'.file = sys.file
      /\ sys'.path[p] = NoEntry /\ \A q \in Paths \ {p} : sys'.path[q] = sys.path[q]
  BY <1>1, <1>3, UnlinkGood
<1>5. Same(sys, sys', {Fd(l)}, AnyPath, {})
  BY <1>4, SameMore
<1>. DEFINE at == "unlinked"
<1>6. at \in {"unlinked", "bound", "listening", "open"} /\ at = "unlinked"
  OBVIOUS
<1>7. listener' = [listener EXCEPT ![l].at = at]
  BY <1>1
<1>. HIDE DEF at
<1>. QED
  BY <1>1, <1>3, <1>4, <1>5, <1>6, <1>7, StayStep

LEMMA BindAddressStep ==
  ASSUME Inv, NEW l \in Listeners, BindAddress(l)
  PROVE  StepOK
<1>. DEFINE p == listener[l].path
            d == Fd(l)
            S == [sys EXCEPT !.path = [sys.path EXCEPT ![p] = d]]
<1>1. /\ UnchangedButListener /\ alone' = alone /\ listener[l].at = "unlinked"
      /\ sys' = [sys EXCEPT !.path[p] = d, !.file[d].kind = "bound"]
      /\ sys.path[p] = NoEntry /\ listener' = [listener EXCEPT ![l].at = "bound"]
  BY DEF BindAddress, At
<1>2. listener[l].at \in HasSocket
  BY <1>1 DEF HasSocket
<1>3. /\ Good(sys, InHand) /\ d # NoFd /\ d \in InHand /\ d \in Fds /\ p \in Paths
      /\ sys.file[d].kind \in {"socket", "bound", "listening"} /\ d \in AnyPath
  BY <1>1, <1>2, BusyListener DEF AnyPath
<1>4. sys \in Systems
  BY HandFacts
<1>. DEFINE kind == "bound"
<1>5. kind \in Kinds \ {"free", "stream"} /\ kind = "bound"
  BY DEF Kinds
<1>6. sys' = [S EXCEPT !.file[d].kind = kind]
  BY <1>1, <1>4 DEF Systems
<1>. HIDE DEF kind, S, p, d
<1>7. /\ Good(S, InHand) /\ Same(sys, S, {}, AnyPath, {})
      /\ S.file = sys.file
      /\ S.path[p] = d /\ \A q \in Paths \ {p} : S.path[q] = sys.path[q]
  BY <1>3, PathGood DEF S
<1>8. /\ Good(sys', InHand) /\ Same(S, sys', {d}, {}, {})
      /\ sys'.file[d].kind = kind /\ sys'.path = S.path
  BY <1>3, <1>5, <1>6, <1>7, KindGood
<1>9. Same(sys, sys', {d}, AnyPath, {})
  <2>1. Same(sys, S, {d}, AnyPath, {})
    BY <1>7, SameMore
  <2>2. Same(S, sys', {d}, AnyPath, {})
    BY <1>8, SameMore
  <2>. QED
    BY <2>1, <2>2, SameTwice
<1>10. listener' = [listener EXCEPT ![l].at = kind]
  BY <1>1, <1>5
<1>11. sys'.path[p] = d /\ \A q \in Paths \ {p} : sys'.path[q] = sys.path[q]
  BY <1>7, <1>8
<1>12. kind \in {"unlinked", "bound", "listening", "open"} /\ kind # "unlinked"
       /\ kind \notin {"listening", "open"}
       /\ sys'.file[d].kind \in {"socket", "bound", "listening"}
  BY <1>5, <1>8
<1>13. alone[l] => sys'.path[p] = IF kind = "unlinked" THEN NoEntry ELSE Fd(l)
  BY <1>11, <1>12 DEF d
<1>. QED
  BY <1>1, <1>3, <1>8, <1>9, <1>10, <1>11, <1>12, <1>13, StayStep DEF d, p

LEMMA ListenStep ==
  ASSUME Inv, NEW l \in Listeners, Listen(l)
  PROVE  StepOK
<1>. DEFINE p == listener[l].path
            d == Fd(l)
            kind == "listening"
<1>1. /\ UnchangedButListener /\ alone' = alone /\ listener[l].at = "bound"
      /\ sys' = [sys EXCEPT !.file[d].kind = kind]
      /\ listener' = [listener EXCEPT ![l].at = kind]
  BY DEF Listen, At
<1>2. listener[l].at \in HasSocket
  BY <1>1 DEF HasSocket
<1>3. /\ Good(sys, InHand) /\ d # NoFd /\ d \in InHand /\ p \in Paths
      /\ sys.file[d].kind # "stream"
  BY <1>1, <1>2, BusyListener
<1>4. kind \in Kinds \ {"free", "stream"} /\ kind = "listening"
  BY DEF Kinds
<1>5. alone[l] => sys.path[p] = d
  <2>1. (alone[l] => Leads(sys, listener[l])) /\ Fd(l) = listener[l].fd
    BY ListenerFacts
  <2>. QED
    BY <1>1, <1>3, <2>1, FdFacts DEF Leads
<1>. HIDE DEF kind, p, d
<1>6. /\ Good(sys', InHand) /\ Same(sys, sys', {d}, {}, {})
      /\ sys'.file[d].kind = kind /\ sys'.path = sys.path
  BY <1>1, <1>3, <1>4, KindGood
<1>7. Same(sys, sys', {d}, AnyPath, {})
  BY <1>6, SameMore
<1>8. kind \in {"unlinked", "bound", "listening", "open"} /\ kind # "unlinked"
      /\ sys'.file[d].kind \in {"socket", "bound", "listening"}
      /\ sys'.file[d].kind = "listening"
  BY <1>4, <1>6
<1>9. alone[l] => sys'.path[p] = IF kind = "unlinked" THEN NoEntry ELSE Fd(l)
  BY <1>5, <1>6, <1>8 DEF d
<1>. QED
  BY <1>1, <1>3, <1>6, <1>7, <1>8, <1>9, StayStep DEF d, p

LEMMA FinishBindStep ==
  ASSUME Inv, NEW l \in Listeners, FinishBind(l)
  PROVE  StepOK
<1>. DEFINE p == listener[l].path
            d == Fd(l)
            at == "open"
            options == listener[l].options
<1>. DEFINE outcome == "ok"
<1>1. /\ UnchangedButListener /\ alone' = alone /\ listener[l].at = "listening"
      /\ sys' = Configured(sys, d, options, outcome)
      /\ listener' = [listener EXCEPT ![l].at = at]
  BY DEF FinishBind, At
<1>2. listener[l].at \in HasSocket
  BY <1>1 DEF HasSocket
<1>3. /\ Good(sys, InHand) /\ d # NoFd /\ d \in InHand /\ d \in Fds /\ p \in Paths
      /\ options \in Options
  BY <1>1, <1>2, BusyListener
<1>4. sys.file[d].kind = "listening" /\ sys.file[d].kind # "free"
  <2>1. Fits(sys, listener[l]) /\ Fd(l) = listener[l].fd
    BY ListenerFacts
  <2>. QED
    BY <1>1, <2>1 DEF Fits
<1>5. alone[l] => sys.path[p] = d
  <2>1. (alone[l] => Leads(sys, listener[l])) /\ Fd(l) = listener[l].fd
    BY ListenerFacts
  <2>. QED
    BY <1>1, <1>3, <2>1, FdFacts DEF Leads
<1>6. at \in {"unlinked", "bound", "listening", "open"} /\ at # "unlinked"
  OBVIOUS
<1>. HIDE DEF p, d, at, outcome, options
<1>7. ConfiguredAs(sys, sys', InHand, d)
  BY <1>1, <1>3, <1>4, ConfiguredGood
<1>8. Good(sys', InHand) /\ Same(sys, sys', {d}, {}, {})
  BY <1>7 DEF ConfiguredAs
<1>9. sys'.file[d].kind = sys.file[d].kind
  BY <1>7 DEF ConfiguredAs
<1>10. sys'.path = sys.path
  BY <1>7 DEF ConfiguredAs
<1>11. Same(sys, sys', {d}, AnyPath, {})
  BY <1>8, SameMore
<1>12. sys'.file[d].kind \in {"socket", "bound", "listening"} /\ sys'.file[d].kind = "listening"
  BY <1>4, <1>9
<1>13. alone[l] => sys'.path[p] = IF at = "unlinked" THEN NoEntry ELSE Fd(l)
  BY <1>5, <1>6, <1>10 DEF d
<1>. QED
  BY <1>1, <1>3, <1>6, <1>8, <1>10, <1>11, <1>12, <1>13, StayStep DEF d, p

\* A listener without anything is one; so is one that has closed its socket.
LEMMA Leavers ==
  /\ NoListener \in ListenerRecords
  /\ \A p \in Paths : LET r == [NoListener EXCEPT !.at = "closing", !.path = p]
                      IN  r \in ListenerRecords /\ r.at = "closing" /\ r.fd = NoFd /\ r.path = p
BY DEF NoListener, ListenerRecords, NoOptions, Options

\* close_fd() of the socket of a listener.
LEMMA ListenerClosed ==
  ASSUME Inv, NEW l \in Listeners, NEW S, Good(S, InHand), Same(sys, S, {}, AnyPath, {}),
         \A q \in Paths : q # listener[l].path => S.path[q] = sys.path[q],
         sys' = close_fd(S, Fd(l))
  PROVE  /\ Good(sys', InHand \ {Fd(l)}) /\ Same(sys, sys', {Fd(l)} \ {NoFd}, AnyPath, {})
         /\ \A q \in Paths : q # listener[l].path /\ sys.path[q] \notin {Fd(l)} \ {NoFd} =>
              sys'.path[q] = sys.path[q]
<1>1. Fd(l) \in InHand \cup {NoFd}
  BY ListenerFacts
<1>2. /\ Good(sys', InHand \ {Fd(l)}) /\ Same(S, sys', {Fd(l)} \ {NoFd}, AnyPath, {})
      /\ \A q \in Paths : S.path[q] \notin {Fd(l)} \ {NoFd} => sys'.path[q] = S.path[q]
  BY <1>1, CloseMaybeGood
<1>3. Same(sys, S, {Fd(l)} \ {NoFd}, AnyPath, {})
  BY SameMore
<1>4. Same(sys, sys', {Fd(l)} \ {NoFd}, AnyPath, {})
  BY <1>2, <1>3, SameTwice
<1>. QED
  BY <1>2, <1>4

LEMMA SameSystem == ASSUME NEW S PROVE Same(S, S, {}, AnyPath, {})
BY DEF Same, Alike, SameBytes

LEMMA BindFailsStep ==
  ASSUME Inv, NEW l \in Listeners, BindFails(l)
  PROVE  StepOK
<1>1. /\ UnchangedButListener /\ alone' = alone /\ sys' = close_fd(sys, Fd(l))
      /\ listener' = [listener EXCEPT ![l] = NoListener] /\ Good(sys, InHand)
  BY DEF BindFails, Inv
<1>2. Same(sys, sys, {}, AnyPath, {})
  BY SameSystem
<1>3. /\ Good(sys', InHand \ {Fd(l)}) /\ Same(sys, sys', {Fd(l)} \ {NoFd}, AnyPath, {})
      /\ \A q \in Paths : q # listener[l].path /\ sys.path[q] \notin {Fd(l)} \ {NoFd} =>
           sys'.path[q] = sys.path[q]
  BY <1>1, <1>2, ListenerClosed
<1>. QED
  BY <1>1, <1>3, Leavers, LeaveStep

LEMMA KillListenerStep ==
  ASSUME Inv, NEW l \in Listeners, KillListener(l)
  PROVE  StepOK
<1>1. /\ UnchangedButListener /\ alone' = alone /\ sys' = close_fd(sys, Fd(l))
      /\ listener' = [listener EXCEPT ![l] = NoListener] /\ Good(sys, InHand)
  BY DEF KillListener, Inv
<1>2. Same(sys, sys, {}, AnyPath, {})
  BY SameSystem
<1>3. /\ Good(sys', InHand \ {Fd(l)}) /\ Same(sys, sys', {Fd(l)} \ {NoFd}, AnyPath, {})
      /\ \A q \in Paths : q # listener[l].path /\ sys.path[q] \notin {Fd(l)} \ {NoFd} =>
           sys'.path[q] = sys.path[q]
  BY <1>1, <1>2, ListenerClosed
<1>. QED
  BY <1>1, <1>3, Leavers, LeaveStep

LEMMA CloseListenerStep ==
  ASSUME Inv, NEW l \in Listeners, CloseListener(l)
  PROVE  StepOK
<1>. DEFINE p == listener[l].path
            late == [NoListener EXCEPT !.at = "closing", !.path = p]
            r == IF p = NoPath THEN NoListener ELSE late
<1>1. /\ UnchangedButListener /\ alone' = alone /\ sys' = close_fd(sys, Fd(l))
      /\ listener' = [listener EXCEPT ![l] = r] /\ Good(sys, InHand)
      /\ listener \in [Listeners -> ListenerRecords]
  BY DEF CloseListener, Inv, ControlTypeOK
<1>2. Same(sys, sys, {}, AnyPath, {})
  BY SameSystem
<1>3. p \in Paths \cup {NoPath}
  BY <1>1 DEF ListenerRecords
<1>4. /\ r \in ListenerRecords
      /\ r = NoListener \/ (r.at = "closing" /\ r.fd = NoFd /\ r.path = p /\ r.path \in Paths)
  BY <1>3, Leavers
<1>. HIDE DEF r, late
<1>5. /\ Good(sys', InHand \ {Fd(l)}) /\ Same(sys, sys', {Fd(l)} \ {NoFd}, AnyPath, {})
      /\ \A q \in Paths : q # listener[l].path /\ sys.path[q] \notin {Fd(l)} \ {NoFd} =>
           sys'.path[q] = sys.path[q]
  BY <1>1, <1>2, ListenerClosed
<1>. QED
  BY <1>1, <1>4, <1>5, LeaveStep

LEMMA UnlinkAfterCloseStep ==
  ASSUME Inv, NEW l \in Listeners, UnlinkAfterClose(l)
  PROVE  StepOK
<1>. DEFINE p == listener[l].path
<1>1. /\ UnchangedButListener /\ alone' = alone /\ sys' = Unlink(sys, p)
      /\ listener' = [listener EXCEPT ![l] = NoListener] /\ Good(sys, InHand)
      /\ listener[l].at = "closing"
  BY DEF UnlinkAfterClose, At, Inv
<1>2. Fits(sys, listener[l]) /\ Fd(l) = listener[l].fd
  BY ListenerFacts
<1>3. Fd(l) = NoFd /\ p \in Paths
  BY <1>1, <1>2 DEF Fits, HasSocket
<1>4. /\ Good(sys', InHand) /\ Same(sys, sys', {}, AnyPath, {})
      /\ \A q \in Paths \ {p} : sys'.path[q] = sys.path[q]
  BY <1>1, <1>3, UnlinkGood
<1>5. InHand \ {Fd(l)} = InHand /\ {Fd(l)} \ {NoFd} = {}
  BY <1>3 DEF InHand
<1>6. Good(sys', InHand \ {Fd(l)}) /\ Same(sys, sys', {Fd(l)} \ {NoFd}, AnyPath, {})
  BY <1>4, <1>5
<1>. QED
  BY <1>1, <1>4, <1>6, Leavers, LeaveStep

LEMMA AbandonBindStep ==
  ASSUME Inv, NEW l \in Listeners, AbandonBind(l)
  PROVE  StepOK
<1>. DEFINE p == listener[l].path
            S == Unlink(sys, p)
<1>1. /\ UnchangedButListener /\ alone' = alone /\ sys' = close_fd(S, Fd(l))
      /\ listener' = [listener EXCEPT ![l] = NoListener] /\ Good(sys, InHand)
      /\ listener[l].at \in {"bound", "listening"}
  BY DEF AbandonBind, At, Inv
<1>2. p \in Paths
  BY <1>1, BusyListener DEF HasSocket
<1>. HIDE DEF S
<1>3. /\ Good(S, InHand) /\ Same(sys, S, {}, AnyPath, {})
      /\ \A q \in Paths \ {p} : S.path[q] = sys.path[q]
  BY <1>1, <1>2, UnlinkGood DEF S
<1>4. /\ Good(sys', InHand \ {Fd(l)}) /\ Same(sys, sys', {Fd(l)} \ {NoFd}, AnyPath, {})
      /\ \A q \in Paths : q # listener[l].path /\ sys.path[q] \notin {Fd(l)} \ {NoFd} =>
           sys'.path[q] = sys.path[q]
  BY <1>1, <1>3, ListenerClosed
<1>. QED
  BY <1>1, <1>4, Leavers, LeaveStep

\* A listener that is new, with a descriptor nobody had.
LEMMA NewListenerStep ==
  ASSUME Inv, UnchangedButListener, NEW l \in Listeners, At(l, "empty"),
         NEW r \in ListenerRecords, listener' = [listener EXCEPT ![l] = r],
         r.fd \in Fds, r.fd \notin InHand, \A t \in Transports : FdOf(sys, t) # r.fd,
         Good(sys', InHand \cup {r.fd}), Same(sys, sys', {r.fd}, {}, {}), Fits(sys', r),
         r.at = "socket" \/ (r.at = "open" /\ r.path = NoPath),
         alone' \in [Listeners -> BOOLEAN],
         \A k \in Listeners \ {l} :
           alone'[k] => alone[k] /\ (r.path = NoPath \/ listener[k].path # r.path),
         alone'[l] /\ r.path # NoPath => \A k \in Listeners \ {l} : listener[k].path # r.path
  PROVE  StepOK
<1>1. Fd(l) = NoFd
  BY DEF Inv, ListenerInv, At, HasSocket
<1>2. (InHand \ {Fd(l)}) \cup ({r.fd} \ {NoFd}) = InHand \cup {r.fd}
      /\ {Fd(l), r.fd} \ {NoFd} = {r.fd}
  BY <1>1, FdFacts DEF InHand
<1>3. Good(sys', (InHand \ {Fd(l)}) \cup ({r.fd} \ {NoFd}))
  BY <1>2
<1>4. Same(sys, sys', {r.fd}, AnyPath, {})
  BY SameMore
<1>5. Same(sys, sys', {Fd(l), r.fd} \ {NoFd}, AnyPath, {})
  BY <1>2, <1>4
<1>6. \A q \in Paths : sys'.path[q] = sys.path[q]
  BY DEF Same
<1>7. alone'[l] => Leads(sys', r)
  BY DEF Leads
<1>8. r.fd # NoFd /\ r.fd # Fd(l) =>
        r.fd \notin InHand /\ \A t \in Transports : FdOf(sys, t) # r.fd
  OBVIOUS
<1>9. \A q \in Paths : q # listener[l].path /\ sys.path[q] \notin {Fd(l)} \ {NoFd} =>
        sys'.path[q] = sys.path[q]
  BY <1>6
<1>. QED
  BY <1>3, <1>5, <1>7, <1>8, <1>9, ListenerStep

LEMMA BindSocketStep ==
  ASSUME Inv, NEW l \in Listeners, NEW p \in Paths, NEW options \in PlannedOptions,
         BindSocket(l, p, options)
  PROVE  StepOK
<1>. DEFINE d == LowestFd(sys)
            r == [at |-> "socket", fd |-> d, path |-> p, options |-> options]
<1>1. /\ UnchangedButListener /\ At(l, "empty") /\ FreeFds(sys) # {}
      /\ sys' = OpenFile(sys, d, "socket", NoEnd, TRUE)
      /\ listener' = [listener EXCEPT ![l] = r]
      /\ alone' = [k \in Listeners |->
           IF k = l THEN Rivals(l, p) = {} ELSE alone[k] /\ listener[k].path # p]
  BY DEF BindSocket
<1>2. d \in Fds /\ sys.file[d].kind = "free" /\ Good(sys, InHand) /\ options \in Options
  BY <1>1, LowestFree, Planned DEF Inv
<1>3. r \in ListenerRecords /\ r.at = "socket" /\ r.fd = d /\ r.path = p
  BY <1>2 DEF ListenerRecords
<1>. HIDE DEF d, r
<1>4. PICK own \in BOOLEAN : own = TRUE
  OBVIOUS
<1>5. Opened(sys, sys', InHand, d, "socket", NoEnd, own)
  <2>1. "socket" \in Kinds \ {"free"} /\ ((NoEnd # NoEnd) <=> ("socket" = "stream"))
    BY Streams
  <2>2. NoEnd \in {NoEnd} \cup Ends
        /\ (NoEnd # NoEnd => Unused(sys, NoEnd) /\ sys.end[NoEnd].state \in {"open", "shut"})
    OBVIOUS
  <2>3. sys' = OpenFile(sys, d, "socket", NoEnd, own)
    BY <1>1, <1>4
  <2>. QED
    BY <1>2, <2>1, <2>2, <2>3, OpenFileGood
<1>6. Good(sys', InHand \cup {d}) /\ Same(sys, sys', {d}, {}, {})
  BY <1>5 DEF Opened
<1>7. d \notin InHand /\ \A t \in Transports : FdOf(sys, t) # d
  BY <1>5 DEF Opened
<1>8. sys'.file[d].kind = "socket"
  BY <1>5 DEF Opened, IsNewFile
<1>9. Fits(sys', r)
  BY <1>2, <1>3, <1>8, FdFacts DEF Fits, HasSocket
<1>10. \A k \in Listeners : alone[k] \in BOOLEAN
  BY ListenerFacts
<1>11. alone' \in [Listeners -> BOOLEAN]
  <2>1. \A k \in Listeners :
          (IF k = l THEN Rivals(l, p) = {} ELSE alone[k] /\ listener[k].path # p) \in BOOLEAN
    BY <1>10
  <2>. QED
    BY <1>1, <2>1
<1>12. \A k \in Listeners \ {l} : alone'[k] <=> alone[k] /\ listener[k].path # p
  BY <1>1, <1>10
<1>13. alone'[l] => \A k \in Listeners \ {l} : listener[k].path # p
  BY <1>1 DEF Rivals
<1>. QED
  BY <1>1, <1>2, <1>3, <1>6, <1>7, <1>9, <1>11, <1>12, <1>13, NewListenerStep, ZenonT(30)

LEMMA BindLoopbackStep ==
  ASSUME Inv, NEW l \in Listeners, NEW options \in PlannedOptions, bind_loopback(l, options)
  PROVE  StepOK
<1>. DEFINE d == LowestFd(sys)
            r == [at |-> "open", fd |-> d, path |-> NoPath, options |-> options]
            kind == "listening"
            S == OpenFile(sys, d, kind, NoEnd, TRUE)
            outcome == "ok"
<1>1. /\ UnchangedButListener /\ At(l, "empty") /\ FreeFds(sys) # {} /\ alone' = alone
      /\ sys' = Configured(S, d, options, outcome)
      /\ listener' = [listener EXCEPT ![l] = r]
  BY DEF bind_loopback
<1>2. d \in Fds /\ sys.file[d].kind = "free" /\ Good(sys, InHand) /\ options \in Options
  BY <1>1, LowestFree, Planned DEF Inv
<1>3. r \in ListenerRecords /\ r.at = "open" /\ r.fd = d /\ r.path = NoPath
  BY <1>2 DEF ListenerRecords
<1>4. PICK own \in BOOLEAN : own = TRUE
  OBVIOUS
<1>5. S = OpenFile(sys, d, kind, NoEnd, own)
  BY <1>4
<1>6. kind \in Kinds \ {"free"} /\ kind # "stream" /\ kind # "free" /\ kind = "listening"
  BY DEF Kinds
<1>. HIDE DEF d, r, S, kind, outcome
<1>7. Opened(sys, S, InHand, d, kind, NoEnd, own)
  <2>1. (NoEnd # NoEnd) <=> (kind = "stream")
    BY <1>6
  <2>2. NoEnd \in {NoEnd} \cup Ends
        /\ (NoEnd # NoEnd => Unused(sys, NoEnd) /\ sys.end[NoEnd].state \in {"open", "shut"})
    OBVIOUS
  <2>. QED
    BY <1>2, <1>5, <1>6, <2>1, <2>2, OpenFileGood
<1>8. Good(S, InHand \cup {d}) /\ Same(sys, S, {d}, {}, {})
  BY <1>7 DEF Opened
<1>9. d \notin InHand /\ \A t \in Transports : FdOf(sys, t) # d
  BY <1>7 DEF Opened
<1>10. S.file[d].kind = kind
  BY <1>7 DEF Opened, IsNewFile
<1>11. ConfiguredAs(S, sys', InHand \cup {d}, d)
  BY <1>1, <1>2, <1>6, <1>8, <1>10, ConfiguredGood
<1>12. Good(sys', InHand \cup {d}) /\ Same(S, sys', {d}, {}, {})
  BY <1>11 DEF ConfiguredAs
<1>13. sys'.file[d].kind = "listening"
  BY <1>6, <1>10, <1>11 DEF ConfiguredAs
<1>14. Same(sys, sys', {d}, {}, {})
  BY <1>8, <1>12, SameTwice
<1>15. Fits(sys', r)
  BY <1>2, <1>3, <1>13, FdFacts DEF Fits, HasSocket
<1>16. alone' \in [Listeners -> BOOLEAN]
  BY <1>1 DEF Inv, ControlTypeOK
<1>. QED
  BY <1>1, <1>2, <1>3, <1>9, <1>12, <1>14, <1>15, <1>16, NewListenerStep

LEMMA MoveListenerStep ==
  ASSUME Inv, NEW l \in Listeners, NEW other \in Listeners, MoveListener(l, other)
  PROVE  StepOK
<1>. DEFINE p == listener[l].path
            S == close_fd(sys, Fd(l))
            D == {Fd(l)} \ {NoFd}
<1>1. /\ UnchangedButListener /\ l # other
      /\ listener[l].at \in {"empty", "open"} /\ listener[other].at \in {"empty", "open"}
      /\ sys' = Unlink(S, p) /\ Good(sys, InHand)
      /\ listener' = [listener EXCEPT ![l] = listener[other], ![other] = NoListener]
      /\ alone' = [alone EXCEPT ![l] = alone[other] /\ p # listener[other].path]
      /\ listener \in [Listeners -> ListenerRecords] /\ alone \in [Listeners -> BOOLEAN]
      /\ connect' = connect
  BY DEF MoveListener, UnchangedButListener, Inv, ControlTypeOK
<1>2. /\ listener'[l] = listener[other] /\ listener'[other] = NoListener
      /\ \A k \in Listeners \ {l, other} : listener'[k] = listener[k]
      /\ listener' \in [Listeners -> ListenerRecords]
  BY <1>1, Leavers
<1>3. /\ alone' \in [Listeners -> BOOLEAN]
      /\ alone'[l] <=> alone[other] /\ p # listener[other].path
      /\ \A k \in Listeners \ {l} : alone'[k] = alone[k]
  BY <1>1
<1>4. /\ Fd(l)' = Fd(other) /\ Fd(other)' = NoFd
      /\ \A k \in Listeners \ {l, other} : Fd(k)' = Fd(k)
  BY <1>2 DEF Fd, NoListener
<1>5. p \in Paths \cup {NoPath} /\ Fd(l) \in InHand \cup {NoFd}
  BY <1>1, ListenerFacts DEF ListenerRecords
<1>. HIDE DEF S, p
<1>6. /\ Good(S, InHand \ {Fd(l)}) /\ Same(sys, S, D, AnyPath, {})
      /\ \A q \in Paths : sys.path[q] \notin D => S.path[q] = sys.path[q]
  BY <1>1, <1>5, CloseMaybeGood DEF S
<1>. DEFINE H == InHand \ {Fd(l)}
<1>7. Good(S, H)
  BY <1>6
<1>. HIDE DEF H
<1>8. /\ Good(sys', H) /\ Same(S, sys', {}, AnyPath, {})
      /\ \A q \in Paths \ {p} : sys'.path[q] = S.path[q]
  BY <1>1, <1>5, <1>7, UnlinkGood
<1>9. Same(sys, sys', D, AnyPath, {})
  BY <1>6, <1>8, SameMore, SameTwice
<1>10. \A q \in Paths : q # p /\ sys.path[q] \notin D => sys'.path[q] = sys.path[q]
  BY <1>6, <1>8
<1>11. /\ Fd(l) # NoFd => Fd(l) # connect.fd /\ \A t \in Transports : FdOf(sys, t) # Fd(l)
       /\ \A k \in Listeners \ {l} : Fd(l) # NoFd => Fd(k) # Fd(l)
       /\ Fd(l) \in {NoFd} \cup Fds
  BY ListenerFacts
<1>12. InHand' = H
  <2>1. \A x : (x \in {Fd(k)' : k \in Listeners} /\ x # NoFd) <=>
               (x \in {Fd(k) : k \in Listeners \ {l}} /\ x # NoFd)
    BY <1>1, <1>4
  <2>. QED
    BY <1>1, <1>11, <2>1 DEF InHand, H
<1>13. Good(sys', InHand')
  BY <1>8, <1>12
<1>14. D \subseteq Fds /\ (\A t \in Transports : FdOf(sys, t) \notin D)
       /\ (connect.fd # NoFd => connect.fd \notin D)
  BY <1>11
<1>15. \A k \in Listeners \ {l} : Fd(k) # NoFd => Fd(k) \in Fds \ D
  BY <1>11, HandFacts
<1>16. \A k \in Listeners \ {l} : Fd(k) # NoFd => sys'.file[Fd(k)].kind = sys.file[Fd(k)].kind
  BY <1>9, <1>15 DEF Same, Alike
<1>. HIDE DEF D
<1>17. ASSUME NEW k \in Listeners \ {l} PROVE Fits(sys', listener[k])
  <2>1. Fits(sys, listener[k]) /\ Fd(k) = listener[k].fd
    BY ListenerFacts
  <2>2. listener[k].fd # NoFd => sys'.file[listener[k].fd].kind = sys.file[listener[k].fd].kind
    BY <1>16, <2>1
  <2>3. listener[k].at \in {"listening", "open"} => listener[k].fd # NoFd
    BY <2>1 DEF Fits, HasSocket
  <2>. QED
    BY <2>1, <2>2, <2>3 DEF Fits
<1>18. ListenerInv'
  <2>1. Fits(sys', NoListener)
    BY DEF Fits, NoListener, HasSocket
  <2>2. \A k \in Listeners : Fits(sys', listener'[k])
    BY <1>1, <1>2, <1>17, <2>1
  <2>3. \A k \in Listeners : Fd(k)' # NoFd => Fd(k)' # connect'.fd
    BY <1>1, <1>4, ListenerFacts
  <2>4. \A j, k \in Listeners : k # j /\ Fd(j)' # NoFd => Fd(k)' # Fd(j)'
    <3>1. \A j, k \in Listeners : k # j /\ Fd(j) # NoFd => Fd(k) # Fd(j)
      BY ListenerFacts
    <3>. QED
      BY <1>1, <1>4, <3>1
  <2>. QED
    BY <2>2, <2>3, <2>4, ListenersFit
<1>19. \A j, k \in Listeners : alone[j] /\ listener[j].path # NoPath /\ k # j =>
         listener[k].path # listener[j].path
  BY ListenerFacts
<1>20. AloneInv'
  <2>. SUFFICES ASSUME NEW j \in Listeners, NEW k \in Listeners, alone'[j],
                       listener'[j].path # NoPath, k # j
                PROVE  listener'[k].path # listener'[j].path
    BY DEF AloneInv
  <2>1. j # other
    BY <1>2 DEF NoListener
  <2>2. CASE k = other
    BY <1>2, <2>2 DEF NoListener
  <2>3. CASE j = l /\ k # other
    BY <1>1, <1>2, <1>3, <1>19, <2>3
  <2>4. CASE j # l /\ k # other
    BY <1>1, <1>2, <1>3, <1>19, <2>1, <2>4
  <2>. QED
    BY <2>2, <2>3, <2>4
<1>21. ASSUME NEW k \in Listeners \ {l}, alone[k], listener[k].path # p \/ p = NoPath
       PROVE  Leads(sys', listener[k])
  <2>1. /\ Leads(sys, listener[k]) /\ listener[k] \in ListenerRecords
        /\ Fd(k) = listener[k].fd /\ Fits(sys, listener[k])
    BY <1>21, ListenerFacts
  <2>2. listener[k].path \in Paths \cup {NoPath}
    BY <2>1 DEF ListenerRecords
  <2>3. ASSUME listener[k].path \in Paths, sys.path[listener[k].path] \in {NoEntry, Fd(k)}
        PROVE  sys'.path[listener[k].path] = sys.path[listener[k].path]
    <3>1. sys.path[listener[k].path] \notin D
      BY <1>11, <2>3, FdFacts DEF D
    <3>2. listener[k].path # p
      BY <1>21, <2>3, FdFacts
    <3>. QED
      BY <1>10, <2>3, <3>1, <3>2
  <2>4. listener[k].at = "unlinked" => listener[k].path \in Paths
    BY <2>1 DEF Fits
  <2>. QED
    BY <2>1, <2>2, <2>3, <2>4 DEF Leads
<1>22. PathsAreOwned'
  <2>1. ASSUME NEW k \in Listeners, alone'[k] PROVE Leads(sys', listener'[k])
    <3>1. CASE k = other
      BY <1>2, <3>1 DEF Leads, NoListener
    <3>2. CASE k = l
      BY <1>1, <1>2, <1>3, <1>21, <2>1, <3>2
    <3>3. CASE k \notin {l, other}
      <4>1. alone[k] /\ listener'[k] = listener[k]
        BY <1>2, <1>3, <2>1, <3>3
      <4>2. CASE listener[k].path # p \/ p = NoPath
        BY <1>21, <3>3, <4>1, <4>2
      <4>3. CASE listener[k].path = p /\ p # NoPath
        BY <1>19, <3>3, <4>1, <4>3 DEF p
      <4>. QED
        BY <4>2, <4>3
    <3>. QED
      BY <3>1, <3>2, <3>3
  <2>. QED
    BY <2>1, ListenersLead
<1>. QED
  BY <1>1, <1>2, <1>3, <1>9, <1>13, <1>14, <1>18, <1>20, <1>22, ListenCase

-----------------------------------------------------------------------------
(* The invariant is inductive.                                             *)

\* In the beginning nothing is open and nothing is under way.
LEMMA InitInv ==
  ASSUME Init
  PROVE  Inv /\ \A e \in Ends : Pipe(e)!Init
<1>1. NoFile \in Files /\ NewEnd \in EndRecords /\ Empty \in Handles
  BY DEF NoFile, Files, Kinds, NewEnd, EndRecords, States, Empty, Handles
<1>2. /\ sys \in Systems /\ sys.app = {}
      /\ \A d \in Fds : sys.file[d] = NoFile
      /\ \A e \in Ends : sys.end[e] = NewEnd
      /\ \A t \in Transports : sys.transport[t] = Empty
  BY <1>1 DEF Init, Systems
<1>3. /\ \A l \in Listeners : listener[l] = NoListener
      /\ listener \in [Listeners -> ListenerRecords]
      /\ connect = NoConnect /\ gather = NoGather /\ plan \in Plans
      /\ reported \in [Ends -> Nat] /\ \A e \in Ends : reported[e] = 0
      /\ alone \in [Listeners -> BOOLEAN]
  BY Leavers DEF Init
<1>4. NoConnect \in ConnectRecords /\ NoConnect.fd = NoFd /\ NoConnect.at = "idle"
  BY DEF NoConnect, ConnectRecords, NoOptions, Options
<1>5. NoGather \in [t : Transports \cup {"none"}, rest : Seq(Nat), total : Nat]
  <2>1. << >> \in Seq(Nat)
    OBVIOUS
  <2>. QED
    BY <2>1 DEF NoGather
<1>6. ControlTypeOK
  BY <1>3, <1>4, <1>5 DEF ControlTypeOK
<1>7. \A l \in Listeners : Fd(l) = NoFd
  BY <1>3 DEF Fd, NoListener
<1>8. InHand = {}
  BY <1>3, <1>4, <1>7 DEF InHand
<1>9. \A d \in Fds : /\ sys.file[d].kind = "free" /\ sys.file[d].end = NoEnd
                     /\ sys.file[d].queue = << >>
  BY <1>2 DEF NoFile
<1>10. \A t \in Transports : FdOf(sys, t) = NoFd
  BY <1>2 DEF FdOf, Empty
<1>11. Sound(sys, {})
  BY <1>2, <1>9, <1>10 DEF Sound, Live
<1>12. PlacesSound(sys)
  <2>1. \A d \in Fds : Places(sys, d) = {0} /\ Place(sys, d, 0) = NoEnd
    BY <1>9 DEF Places, Place
  <2>. QED
    BY <1>9, <2>1 DEF PlacesSound
<1>13. \A e \in Ends : /\ sys.end[e].written = 0 /\ sys.end[e].delivered = 0
                       /\ sys.end[e].state = "none" /\ sys.end[e].told = FALSE
  BY <1>2 DEF NewEnd
<1>14. CountsSound(sys)
  <2>1. SendRoom \in Nat /\ \A e \in Ends : Peer(e) \in Ends
    BY EndFacts, TransportAssumption DEF TransportAssumption
  <2>. QED
    BY <1>13, <2>1 DEF CountsSound
<1>15. ConnectInv
  BY <1>3, <1>4 DEF ConnectInv, Connecting
<1>16. GatherInv /\ ReportsAreTrue
  BY <1>3, <1>13 DEF GatherInv, ReportsAreTrue
<1>17. ListenerInv /\ AloneInv
  BY <1>3, <1>7 DEF ListenerInv, AloneInv, At, NoListener, HasSocket
<1>18. PathsAreOwned
  BY <1>3 DEF PathsAreOwned, AddressFree, PathLeadsToListener, At, NoListener
<1>19. \A e \in Ends : Pipe(e)!Init
  <2>1. \A e \in Ends : Peer(e) \in Ends
    BY EndFacts
  <2>. QED
    BY <1>13, <2>1 DEF Pipe!Init
<1>. QED
  BY <1>6, <1>8, <1>11, <1>12, <1>14, <1>15, <1>16, <1>17, <1>18, <1>19 DEF Inv, Good

\* Every step keeps it, and is a step of the pipes.
LEMMA NextStep ==
  ASSUME Inv, [Next]_vars
  PROVE  StepOK
<1>1. CASE UNCHANGED vars
  <2>1. UnchangedButSys /\ sys' = sys
    BY <1>1 DEF vars, UnchangedButSys
  <2>. QED
    BY <2>1, NothingStep
<1>2. CASE ConnectStep
  BY <1>2, NoAddressLeftStep, SkipAddressStep, OpenSocketStep, StartConnectStep, PollReadyStep,
     PollTimesOutStep, RestoreFlagsStep, DropSocketStep, FinishTcpStep, FinishPosixStep
     DEF ConnectStep
<1>3. CASE WriteSpan \/ WritevDone \/ AppMakesPair
  BY <1>3, WriteSpanStep, WritevDoneStep, AppPairStep
<1>4. ASSUME NEW t \in Transports, TransportStep(t) PROVE StepOK
  <2>1. CASE close(t) \/ ReadBytes(t) \/ ReadEnd(t) \/ ReadError(t)
    BY <2>1, CloseStep, ReadBytesStep, ReadEndStep, ReadErrorStep
  <2>2. CASE \E spans \in SpanLists : Write(t, spans) \/ BeginWritev(t, spans)
    BY <2>2, WriteStep, BeginWritevStep
  <2>3. CASE \E u \in Transports : MoveAssign(t, u)
    BY <2>3, MoveStep
  <2>4. CASE \E l \in Listeners : accept(l, t)
    BY <2>4, AcceptStep
  <2>5. ASSUME NEW options \in PlannedOptions,
               \/ \E u \in Transports : create_socket_pair(t, u, options)
               \/ \E d \in Fds : TransportOf(t, d, options)
               \/ open_device(t, options)
               \/ \E p \in Paths : connect_to_path(t, p, options)
               \/ \E class \in {"tcp", "posix"} : BeginConnect(t, class, options)
        PROVE  StepOK
    BY <2>5, PairStep, TransportOfStep, DeviceStep, ConnectToPathStep, BeginConnectStep
  <2>. QED
    BY <1>4, <2>1, <2>2, <2>3, <2>4, <2>5 DEF TransportStep
<1>5. ASSUME NEW d \in Fds, NetworkAnswers(d) \/ AppCloses(d) PROVE StepOK
  BY <1>5, NetworkStep, AppClosesStep
<1>6. ASSUME NEW e \in Ends, Shutdown(e) \/ PeerCloses(e) PROVE StepOK
  BY <1>6, ShutdownStep, PeerClosesStep
<1>7. ASSUME NEW l \in Listeners, BindStep(l) PROVE StepOK
  BY <1>7, UnlinkFirstStep, BindAddressStep, BindFailsStep, ListenStep, FinishBindStep,
     AbandonBindStep, CloseListenerStep, UnlinkAfterCloseStep, KillListenerStep,
     ClientArrivesStep
     DEF BindStep
<1>8. ASSUME NEW l \in Listeners, NEW other \in Listeners, MoveListener(l, other) PROVE StepOK
  BY <1>8, MoveListenerStep
<1>9. ASSUME NEW l \in Listeners, NEW options \in PlannedOptions,
             bind_loopback(l, options) \/ \E p \in Paths : BindSocket(l, p, options)
      PROVE  StepOK
  BY <1>9, BindLoopbackStep, BindSocketStep
<1>. QED
  BY <1>1, <1>2, <1>3, <1>4, <1>5, <1>6, <1>7, <1>8, <1>9 DEF Next

LEMMA Inductive == Spec => []Inv
<1>1. Init => Inv
  BY InitInv
<1>2. Inv /\ [Next]_vars => Inv'
  BY NextStep DEF StepOK
<1>. QED
  BY <1>1, <1>2, PTL DEF Spec

-----------------------------------------------------------------------------
(* The properties.                                                         *)

\* Every descriptor, stream end, handle, listener and call in progress is
\* what its class may be, in every state of every behaviour.
THEOREM TypeCorrect == Spec => []TypeOK
<1>1. Inv => TypeOK
  BY HandFacts DEF TypeOK, Inv
<1>. QED
  BY <1>1, Inductive, PTL

\* At most one of the calls, listeners, transports and the application would
\* close a descriptor, and an owned one is never lost.
LEMMA OneHolderHolds == Inv => OneHolder
<1>. SUFFICES ASSUME Inv, NEW d \in Fds
              PROVE  IF Live(sys, d)
                     THEN /\ Cardinality(Holders(d)) <= 1
                          /\ Holders(d) = {} => ~sys.file[d].own
                     ELSE Holders(d) = {}
  BY DEF OneHolder
<1>. DEFINE Owner(t) == FdOf(sys, t) = d /\ sys.transport[t].own
<1>1. \A x : x \in Holders(d) <=>
        \/ x \in Transports /\ Owner(x)
        \/ x \in Listeners /\ Fd(x) = d
        \/ connect.fd = d /\ x = "connect"
        \/ d \in sys.app /\ x = "application"
  BY DEF Holders, FdOf
<1>2. d # NoFd /\ Sound(sys, InHand)
  BY FdFacts DEF Inv, Good
<1>3. /\ connect.fd = d => d \in InHand /\ \A l \in Listeners : Fd(l) # d
      /\ \A l, k \in Listeners : Fd(l) = d /\ Fd(k) = d => k = l
      /\ \A l \in Listeners : Fd(l) = d => d \in InHand
  BY <1>2, HandFacts, ListenerFacts
<1>4. d \in InHand => Live(sys, d) /\ d \notin sys.app /\ \A t \in Transports : FdOf(sys, t) # d
  BY HandFacts
<1>5. \A t, u \in Transports : FdOf(sys, t) = d /\ FdOf(sys, u) = d => u = t
  BY <1>2 DEF Sound
<1>6. \A t \in Transports : FdOf(sys, t) = d => Live(sys, d) /\ (d \in sys.app <=> ~sys.transport[t].own)
  BY <1>2 DEF Sound
<1>7. CASE ~Live(sys, d)
  <2>1. d \notin InHand /\ d \notin sys.app
    BY <1>2, <1>4, <1>7 DEF Sound
  <2>2. \A t \in Transports : ~Owner(t)
    BY <1>6, <1>7
  <2>. HIDE DEF Owner
  <2>3. \A x : x \notin Holders(d)
    BY <1>1, <1>3, <2>1, <2>2
  <2>. QED
    BY <1>7, <2>3
<1>8. CASE Live(sys, d)
  <2>1. \E x : \A y : y \in Holders(d) => y = x
    <3>1. CASE connect.fd = d
      BY <1>1, <1>3, <1>4, <3>1
    <3>2. CASE connect.fd # d /\ \E l \in Listeners : Fd(l) = d
      BY <1>1, <1>3, <1>4, <3>2
    <3>3. CASE connect.fd # d /\ (\A l \in Listeners : Fd(l) # d) /\ d \in sys.app
      BY <1>1, <1>6, <3>3
    <3>4. CASE connect.fd # d /\ (\A l \in Listeners : Fd(l) # d) /\ d \notin sys.app
      BY <1>1, <1>5, <3>4
    <3>. QED
      BY <3>1, <3>2, <3>3, <3>4
  <2>2. PICK x : Holders(d) \subseteq {x}
    BY <2>1
  <2>3. IsFiniteSet({x}) /\ Cardinality({x}) = 1
    BY FS_Singleton
  <2>4. Cardinality(Holders(d)) <= 1
    BY <2>2, <2>3, FS_Subset
  <2>5. ASSUME Holders(d) = {}, sys.file[d].own PROVE FALSE
    <3>1. connect.fd # d /\ d \notin sys.app /\ \A l \in Listeners : Fd(l) # d
      BY <1>1, <2>5
    <3>2. d \notin InHand
      BY <3>1 DEF InHand
    <3>3. PICK t \in Transports : FdOf(sys, t) = d
      BY <1>2, <1>8, <2>5, <3>1, <3>2 DEF Sound
    <3>4. sys.transport[t].own \in BOOLEAN
      BY HandFacts, SystemFields
    <3>5. Owner(t)
      BY <1>6, <3>1, <3>3, <3>4
    <3>. QED
      BY <1>1, <2>5, <3>5
  <2>6. sys.file[d].own \in BOOLEAN
    BY HandFacts, SystemFields
  <2>. QED
    BY <1>8, <2>4, <2>5, <2>6
<1>. QED
  BY <1>7, <1>8

\* Whatever a call does with descriptors on its way, and wherever it fails,
\* it leaves each with one holder, under a number that is its own, and in
\* the mode that was asked for.
THEOREM DescriptorsKeptAlways == Spec => []DescriptorsKept
<1>1. Inv => NumbersAreLive
  BY DEF Inv, Good, Sound, NumbersAreLive, Fresh, FdOf
<1>2. Inv => BlockingAsAsked
  BY DEF Inv, Good, Sound, Ready, BlockingAsAsked, IsOpen, FdOf
<1>3. Inv => DescriptorsKept
  BY <1>1, <1>2, OneHolderHolds DEF DescriptorsKept
<1>. QED
  BY <1>3, Inductive, PTL

\* What write() and both forms of writev() report is what the stream got,
\* whichever span they stop at.
THEOREM ReportsAreTrueAlways == Spec => []ReportsAreTrue
<1>1. Inv => ReportsAreTrue
  BY DEF Inv
<1>. QED
  BY <1>1, Inductive, PTL

\* A listener that is alone at its path can bind to it, whatever a crash has
\* left there, and keeps it until it closes.
THEOREM PathsAreOwnedAlways == Spec => []PathsAreOwned
<1>1. Inv => PathsAreOwned
  BY DEF Inv
<1>. QED
  BY <1>1, Inductive, PTL

\* No step writes on a transport that saw the end of its stream, or changes
\* the descriptor it still holds.
THEOREM EndIsFinalAlways == Spec => EndIsFinal
<1>1. Inv /\ [Next]_vars => FinalStep
  BY NextStep DEF StepOK
<1>. QED
  BY <1>1, Inductive, PTL DEF Spec, EndIsFinal, FinalStep

\* Each direction of each stream implements BytePipe: readers get what was
\* written and hear of the end when they have all of it.
THEOREM StreamsImplementPipe == Spec => ImplementsPipe
<1>1. Init => \A e \in Ends : Pipe(e)!Init
  BY InitInv
<1>2. Inv /\ [Next]_vars => PipeStep
  BY NextStep DEF StepOK
<1>. QED
  BY <1>1, <1>2, Inductive, PTL DEF Spec, ImplementsPipe, PipeStep

=============================================================================
