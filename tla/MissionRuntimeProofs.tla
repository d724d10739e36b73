----------------------- MODULE MissionRuntimeProofs -----------------------
(***************************************************************************)
(* What holds of MissionRuntime for any number of runs, pages, threads,    *)
(* beats, commands, failures and restarts, and buffers of any size.        *)
(***************************************************************************)
EXTENDS MissionRuntime, SequenceTheorems, FiniteSetTheorems, TLAPS

-----------------------------------------------------------------------------
(* The inductive invariant: the runs                                       *)

Loop == writing[EventLoop]

(* The loop writes the outcome of r.                                       *)
Settling(r) == Loop # None /\ Loop.id = r /\ Loop.op \in DOMAIN Outcome

(* A run with a task is active and has beats left, until its outcome is    *)
(* being written.                                                          *)
Scheduled ==
  \A r \in Runs : task[r] # "none" =>
    /\ run[r] # None
    /\ Settling(r) \/ (run[r].status = "active" /\ beat[r] < NumBeats)

(* What the loop is writing is what it has just put.                       *)
LoopWrites ==
  Loop # None =>
    /\ Loop.row.status = run[Loop.id].status
    /\ Loop.op = "start" => Loop.row.status = "active" /\ beat[Loop.id] = 0
    /\ Loop.op = "complete" => Loop.row.status = "complete"

(* Nothing was published or played of what is no run.                      *)
NoGhosts ==
  \A r \in Runs : run[r] = None => /\ disk[r] = None /\ beat[r] = 0
                                   /\ replay[r] = <<>>

(* Rows keep the partners of their runs, and partners have each other.     *)
Kept(row, r) == run[r] # None /\ row.partner = run[r].partner
Pairs ==
  /\ \A r \in Runs : disk[r] # None => Kept(disk[r], r)
  /\ \A a \in Actors : writing[a] # None =>
       /\ Kept(writing[a].row, writing[a].id)
       /\ writing[a].op = "coop_red" =>
            /\ a # EventLoop /\ writing[a].row.partner \in Runs
            /\ run[writing[a].row.partner] # None
       /\ writing[a].op \notin {"coop_red", "coop_blue", "score"} => a = EventLoop
  /\ \A r \in Runs :
       /\ run[r] # None /\ run[r].partner # None /\ run[run[r].partner] # None
       => run[run[r].partner].partner = r

(* Player's beats of a feed, with the one the loop is about to publish.    *)
Owed(r) ==
  IF /\ Loop # None /\ Loop.op = "player_beat"
     /\ Loop.id = r \/ Loop.id = run[r].partner
    THEN 1 ELSE 0
BeatsPaid ==
  \A r \in Runs : run[r] # None =>
    PlayerBeats(r) + Owed(r) <= CommandsOf(r) + CommandsOf(run[r].partner)

(* The inductive invariant: the feeds                                      *)

(* A client is fed by a run, and only an open stream has frames.           *)
Watching ==
  \A c \in Clients : /\ c \in connected => watch[c] \in Runs
                     /\ c \notin connected => queue[c] = <<>>

(* Beats of the script are in order, and none is ahead of the script.      *)
Script(f)    == f.type = "beat" /\ f.index # Player
InOrder(s)   == \A j, k \in DOMAIN s :
                  j < k /\ Script(s[j]) /\ Script(s[k]) => s[j].index < s[k].index
Before(s, n) == \A k \in DOMAIN s : Script(s[k]) => s[k].index < n
ShownInOrder(t)   == \A j, k \in DOMAIN t :
                       j < k /\ t[j] # Player /\ t[k] # Player => t[j] < t[k]
ShownBefore(t, n) == \A k \in DOMAIN t : t[k] # Player => t[k] < n
FeedsInOrder ==
  /\ \A r \in Runs : InOrder(replay[r]) /\ Before(replay[r], beat[r])
  /\ \A c \in Clients :
       /\ InOrder(queue[c]) /\ ShownInOrder(timeline[c])
       /\ \A k \in DOMAIN queue[c] : Script(queue[c][k]) =>
            ShownBefore(timeline[c], queue[c][k].index)
       /\ c \in registered => /\ Before(queue[c], beat[watch[c]])
                              /\ ShownBefore(timeline[c], beat[watch[c]])

(* The parts of the type invariant                                         *)
MissionTypes ==
  /\ run \in [Runs -> Run \cup {None}]
  /\ listed \subseteq {r \in Runs : run[r] # None}
  /\ disk \in [Runs -> Run \cup {None}]
  /\ task \in [Runs -> {"none", "queued", "sleeping"}]
  /\ beat \in [Runs -> 0 .. NumBeats]
  /\ writing \in [Actors -> Put \cup {None}]
  /\ stopping \in BOOLEAN
  /\ faults \in 0..MaxFaults /\ restarts \in 0..MaxRestarts
StreamInv == StreamTypeOK /\ Watching /\ FeedsInOrder

RuntimeInv == /\ StreamInv /\ MissionTypes /\ Scheduled /\ LoopWrites /\ NoGhosts
              /\ Pairs /\ RowsLagRuns /\ BeatsPaid

(* What is said of a completion, on the way to the page and on it.         *)
Confirmed(r) == disk[r] # None /\ disk[r].status = "complete"
Tells(s)     == \E k \in DOMAIN s : s[k].type = "mission_complete"
NewsConfirmed ==
  /\ \A r \in Runs : Tells(replay[r]) => Confirmed(r)
  /\ \A c \in Clients : Tells(queue[c]) \/ phase[c] = "complete" =>
       watch[c] \in Runs /\ Confirmed(watch[c])

-----------------------------------------------------------------------------
(* Sequences of frames                                                     *)

(* t is a part of s.                                                       *)
Part(t, s) == \E d \in Nat : /\ Len(t) + d <= Len(s)
                             /\ \A k \in 1 .. Len(t) : t[k] = s[k + d]

NotBefore(s, n) == \A k \in DOMAIN s : Script(s[k]) => n <= s[k].index
ByPlayer(s)     == {k \in DOMAIN s : s[k] = Beat(Player)}

(* A sequence is a part of itself.                                         *)
LEMMA WholeIsPart ==
  ASSUME NEW s \in Seq(Frame)
  PROVE  Part(s, s)
  <1>1. 0 \in Nat /\ Len(s) + 0 <= Len(s)
    BY LenProperties
  <1>2. \A k \in 1 .. Len(s) : s[k] = s[k + 0]
    BY LenProperties
  <1> QED
    BY <1>1, <1>2 DEF Part

(* What fits in a queue, and what a replay buffer keeps, are parts.        *)
LEMMA FirstOfIsPart ==
  ASSUME NEW s \in Seq(Frame), NEW n \in Nat
  PROVE  /\ FirstOf(s, n) \in Seq(Frame) /\ Len(FirstOf(s, n)) <= n
         /\ Part(FirstOf(s, n), s)
  <1>1. CASE Len(s) <= n
    <2> DEFINE t == FirstOf(s, n)
    <2>1. t = s
      BY <1>1 DEF FirstOf
    <2>2. Part(s, s)
      BY WholeIsPart
    <2> HIDE DEF t
    <2>3. t \in Seq(Frame) /\ Len(t) <= n /\ Part(t, s)
      BY <1>1, <2>1, <2>2
    <2> QED
      BY <2>3 DEF t
  <1>2. CASE Len(s) > n
    <2> DEFINE t == SubSeq(s, 1, n)
    <2>1. \A i \in 1 .. n : s[i] \in Frame
      BY <1>2
    <2>2. t \in Seq(Frame) /\ Len(t) = n /\ \A k \in 1 .. n : t[k] = s[k]
      BY <2>1, SubSeqProperties
    <2>3. FirstOf(s, n) = t
      BY <1>2 DEF FirstOf
    <2> HIDE DEF t
    <2>4. 0 \in Nat /\ Len(t) + 0 <= Len(s) /\ \A k \in 1 .. Len(t) : t[k] = s[k + 0]
      BY <1>2, <2>2
    <2>5. Part(t, s)
      BY ONLY <2>4 DEF Part
    <2> QED
      BY <2>2, <2>3, <2>5
  <1> QED
    BY <1>1, <1>2

(* What the replay buffer keeps is a part of what it was given.            *)
LEMMA LastOfIsPart ==
  ASSUME NEW s \in Seq(Frame), NEW n \in Nat
  PROVE  /\ LastOf(s, n) \in Seq(Frame) /\ Len(LastOf(s, n)) <= n
         /\ Part(LastOf(s, n), s)
  <1>1. CASE Len(s) <= n
    <2> DEFINE t == LastOf(s, n)
    <2>1. t = s
      BY <1>1 DEF LastOf
    <2>2. Part(s, s)
      BY WholeIsPart
    <2> HIDE DEF t
    <2>3. t \in Seq(Frame) /\ Len(t) <= n /\ Part(t, s)
      BY <1>1, <2>1, <2>2
    <2> QED
      BY <2>3 DEF t
  <1>2. CASE Len(s) > n
    <2> DEFINE d == Len(s) - n
               t == SubSeq(s, d + 1, Len(s))
    <2>1. d \in Nat /\ \A i \in d + 1 .. Len(s) : s[i] \in Frame
      BY <1>2
    <2>2. /\ t \in Seq(Frame)
          /\ Len(t) = IF d + 1 <= Len(s) THEN Len(s) - (d + 1) + 1 ELSE 0
          /\ \A k \in 1 .. Len(s) - (d + 1) + 1 : t[k] = s[d + 1 + k - 1]
      BY <2>1, SubSeqProperties
    <2>3. LastOf(s, n) = t
      BY <1>2 DEF LastOf
    <2> HIDE DEF t
    <2>4. Len(t) = n /\ Len(t) + d <= Len(s) /\ \A k \in 1 .. Len(t) : t[k] = s[k + d]
      BY <2>1, <2>2
    <2> HIDE DEF d
    <2>5. Part(t, s)
      BY <2>1, <2>4 DEF Part
    <2> QED
      BY <2>2, <2>3, <2>4, <2>5
  <1> QED
    BY <1>1, <1>2

(* A part has the order of the whole, and says no more than it.            *)
LEMMA PartKeeps ==
  ASSUME NEW s \in Seq(Frame), NEW t \in Seq(Frame), Part(t, s)
  PROVE  /\ InOrder(s) => InOrder(t)
         /\ \A n \in Int : Before(s, n) => Before(t, n)
         /\ Tells(t) => Tells(s)
         /\ IsFiniteSet(ByPlayer(t)) /\ IsFiniteSet(ByPlayer(s))
         /\ Cardinality(ByPlayer(t)) <= Cardinality(ByPlayer(s))
  <1>1. PICK d \in Nat : /\ Len(t) + d <= Len(s)
                         /\ \A k \in 1 .. Len(t) : t[k] = s[k + d]
    BY DEF Part
  <1>2. \A k \in DOMAIN t : k \in Nat /\ k + d \in DOMAIN s /\ t[k] = s[k + d]
    BY <1>1
  <1>3. InOrder(s) => InOrder(t)
    BY <1>2 DEF InOrder
  <1>4. \A n \in Int : Before(s, n) => Before(t, n)
    BY <1>2 DEF Before
  <1>5. Tells(t) => Tells(s)
    BY <1>2 DEF Tells
  <1>6. IsFiniteSet(ByPlayer(t)) /\ IsFiniteSet(ByPlayer(s))
    <2>1. IsFiniteSet(1 .. Len(t)) /\ IsFiniteSet(1 .. Len(s))
      BY FS_Interval
    <2>2. ByPlayer(t) \in SUBSET (1 .. Len(t)) /\ ByPlayer(s) \in SUBSET (1 .. Len(s))
      BY DEF ByPlayer
    <2> QED
      BY <2>1, <2>2, FS_Subset
  <1>7. Cardinality(ByPlayer(t)) <= Cardinality(ByPlayer(s))
    <2> DEFINE f == [k \in ByPlayer(t) |-> k + d]
    <2>1. f \in [ByPlayer(t) -> ByPlayer(s)]
      BY <1>2 DEF ByPlayer
    <2>2. \A a, b \in ByPlayer(t) : f[a] = f[b] => a = b
      BY <1>2 DEF ByPlayer
    <2>3. f \in Injection(ByPlayer(t), ByPlayer(s))
      BY <2>1, <2>2 DEF Injection, IsInjective
    <2> QED
      BY <1>6, <2>3, FS_Injection
  <1> QED
    BY <1>3, <1>4, <1>5, <1>6, <1>7

(* Later beats of the script go behind earlier ones.                       *)
LEMMA JoinKeeps ==
  ASSUME NEW s \in Seq(Frame), NEW f \in Seq(Frame), NEW n \in Int, NEW m \in Int, n <= m,
         InOrder(s), Before(s, n), InOrder(f), NotBefore(f, n), Before(f, m)
  PROVE  s \o f \in Seq(Frame) /\ InOrder(s \o f) /\ Before(s \o f, m)
  <1> DEFINE j == s \o f
  <1>1. /\ j \in Seq(Frame) /\ Len(j) = Len(s) + Len(f)
        /\ \A i \in 1 .. Len(j) : j[i] = IF i <= Len(s) THEN s[i] ELSE f[i - Len(s)]
    BY ConcatProperties
  <1> HIDE DEF j
  <1>2. \A i \in DOMAIN j : \/ i \in DOMAIN s /\ j[i] = s[i]
                            \/ i > Len(s) /\ i - Len(s) \in DOMAIN f /\ j[i] = f[i - Len(s)]
    BY <1>1
  <1>3. \A i \in 1 .. Len(s) : Script(s[i]) => s[i].index \in Int
    BY StreamAssumption DEF Frame, Script, Player
  <1>4. \A i \in 1 .. Len(f) : Script(f[i]) => f[i].index \in Int
    BY StreamAssumption DEF Frame, Script, Player
  <1>5. Before(j, m)
    BY <1>2, <1>3, <1>4 DEF Before
  <1>6. InOrder(j)
    <2> SUFFICES ASSUME NEW a \in DOMAIN j, NEW b \in DOMAIN j, a < b,
                        Script(j[a]), Script(j[b])
                 PROVE  j[a].index < j[b].index
      BY DEF InOrder
    <2>1. CASE b <= Len(s)
      BY <1>1, <2>1 DEF InOrder
    <2>2. CASE a > Len(s)
      <3> DEFINE x == a - Len(s)
                 y == b - Len(s)
      <3>1. /\ x \in DOMAIN f /\ y \in DOMAIN f /\ x < y
            /\ j[a] = f[x] /\ j[b] = f[y]
        BY <1>1, <2>2
      <3> QED
        BY <3>1 DEF InOrder
    <2>3. CASE a <= Len(s) /\ b > Len(s)
      <3>1. j[a] = s[a] /\ a \in DOMAIN s /\ j[b] = f[b - Len(s)] /\ b - Len(s) \in DOMAIN f
        BY <1>1, <2>3
      <3>2. j[a].index < n /\ n <= j[b].index /\ j[a].index \in Int /\ j[b].index \in Int
        BY <1>3, <1>4, <3>1 DEF Before, NotBefore
      <3> QED
        BY <3>2
    <2> QED
      BY <1>1, <2>1, <2>2, <2>3
  <1> QED
    BY <1>1, <1>5, <1>6 DEF j

(* A feed has the player's beats it had and those it is given.             *)
LEMMA JoinCounts ==
  ASSUME NEW s \in Seq(Frame), NEW f \in Seq(Frame)
  PROVE  /\ s \o f \in Seq(Frame) /\ Cardinality(ByPlayer(s)) \in Nat
         /\ Tells(s \o f) => Tells(s) \/ Tells(f)
         /\ ByPlayer(f) = {} => Cardinality(ByPlayer(s \o f)) = Cardinality(ByPlayer(s))
         /\ f = <<Beat(Player)>> =>
              Cardinality(ByPlayer(s \o f)) = Cardinality(ByPlayer(s)) + 1
  <1> DEFINE j == s \o f
  <1>1. /\ j \in Seq(Frame) /\ Len(j) = Len(s) + Len(f)
        /\ \A i \in 1 .. Len(j) : j[i] = IF i <= Len(s) THEN s[i] ELSE f[i - Len(s)]
    BY ConcatProperties
  <1> HIDE DEF j
  <1>2. \A i \in DOMAIN j : \/ i \in DOMAIN s /\ j[i] = s[i]
                            \/ i > Len(s) /\ i - Len(s) \in DOMAIN f /\ j[i] = f[i - Len(s)]
    BY <1>1
  <1>3. \A i \in DOMAIN s : i \in DOMAIN j /\ j[i] = s[i]
    BY <1>1
  <1>4. IsFiniteSet(ByPlayer(s))
    BY PartKeeps, WholeIsPart
  <1>5. Tells(j) => Tells(s) \/ Tells(f)
    BY <1>2 DEF Tells
  <1>6. ASSUME ByPlayer(f) = {}
        PROVE  ByPlayer(j) = ByPlayer(s)
    BY <1>2, <1>3, <1>6 DEF ByPlayer
  <1>7. ASSUME f = <<Beat(Player)>>
        PROVE  Cardinality(ByPlayer(j)) = Cardinality(ByPlayer(s)) + 1
    <2>1. /\ Len(s) + 1 \in DOMAIN j /\ j[Len(s) + 1] = Beat(Player)
          /\ Len(s) + 1 \notin ByPlayer(s)
      BY <1>1, <1>7 DEF ByPlayer
    <2>2. \A i \in DOMAIN j : i \in DOMAIN s \/ i = Len(s) + 1
      BY <1>1, <1>7
    <2>3. ByPlayer(j) = ByPlayer(s) \cup {Len(s) + 1}
      BY <1>1, <1>3, <2>1, <2>2 DEF ByPlayer
    <2> QED
      BY <1>4, <2>1, <2>3, FS_AddElement
  <1> QED
    BY <1>1, <1>4, <1>5, <1>6, <1>7, FS_CardinalityType DEF j

-----------------------------------------------------------------------------
(* What the hub publishes                                                  *)

(* Frames that carry the script from beat n on and end before beat m.      *)
Due(f, n, m) == /\ f \in Seq(Frame) /\ InOrder(f)
                /\ NotBefore(f, n) /\ Before(f, m)

(* The sentinel behind the frames changes nothing about them.              *)
LEMMA SentinelKeeps ==
  ASSUME NEW f, NEW n \in Int, NEW m \in Int, Due(f, n, m)
  PROVE  Due(Append(f, Sentinel), n, m) /\ (Tells(Append(f, Sentinel)) => Tells(f))
  <1> DEFINE g == Append(f, Sentinel)
  <1>1. Sentinel \in Frame /\ ~Script(Sentinel) /\ Sentinel.type # "mission_complete"
    BY DEF Sentinel, Mark, Marks, Frame, Script
  <1>2. f \in Seq(Frame) /\ Len(f) \in Nat
    BY LenProperties DEF Due
  <1>3. /\ g \in Seq(Frame) /\ Len(g) = Len(f) + 1 /\ g[Len(f) + 1] = Sentinel
        /\ \A i \in 1 .. Len(f) : g[i] = f[i]
    BY <1>1, <1>2, AppendProperties
  <1> HIDE DEF g
  <1>4. \A i \in DOMAIN g : (i \in DOMAIN f /\ g[i] = f[i]) \/ g[i] = Sentinel
    BY <1>2, <1>3
  <1>5. InOrder(g)
    BY <1>1, <1>4 DEF InOrder, Due
  <1>6. NotBefore(g, n) /\ Before(g, m) /\ (Tells(g) => Tells(f))
    BY <1>1, <1>4 DEF NotBefore, Before, Due, Tells
  <1> QED
    BY <1>3, <1>5, <1>6 DEF Due, g

(* A buffer with what is due behind it, before what does not fit is cut:   *)
(* it stays in order, and it says and counts no more than its parts.       *)
Joined(q, s, f, m) ==
  /\ q \in Seq(Frame) /\ InOrder(q) /\ Before(q, m)
  /\ Tells(q) => Tells(s) \/ Tells(f)
  /\ Cardinality(ByPlayer(s)) \in Nat /\ Cardinality(ByPlayer(q)) \in Nat
  /\ ByPlayer(f) = {} => Cardinality(ByPlayer(q)) <= Cardinality(ByPlayer(s))
  /\ f = <<Beat(Player)>> => Cardinality(ByPlayer(q)) <= Cardinality(ByPlayer(s)) + 1

(* What is due may follow frames that are in order, dropped frames or not. *)
LEMMA PartIsJoined ==
  ASSUME NEW s \in Seq(Frame), NEW f, NEW n \in Int, NEW m \in Int, n <= m,
         InOrder(s), Before(s, n), Due(f, n, m),
         NEW q \in Seq(Frame), Part(q, s \o f)
  PROVE  Joined(q, s, f, m)
  <1> DEFINE j == s \o f
  <1>1. f \in Seq(Frame) /\ InOrder(f) /\ NotBefore(f, n) /\ Before(f, m)
    BY DEF Due
  <1>2. j \in Seq(Frame) /\ InOrder(j) /\ Before(j, m)
    BY <1>1, JoinKeeps
  <1>3. /\ Cardinality(ByPlayer(s)) \in Nat /\ (Tells(j) => Tells(s) \/ Tells(f))
        /\ ByPlayer(f) = {} => Cardinality(ByPlayer(j)) = Cardinality(ByPlayer(s))
        /\ f = <<Beat(Player)>> =>
             Cardinality(ByPlayer(j)) = Cardinality(ByPlayer(s)) + 1
    BY <1>1, JoinCounts
  <1>4. Part(q, j)
    OBVIOUS
  <1> HIDE DEF j
  <1>5. /\ InOrder(q) /\ Before(q, m) /\ (Tells(q) => Tells(j))
        /\ IsFiniteSet(ByPlayer(q))
        /\ Cardinality(ByPlayer(q)) <= Cardinality(ByPlayer(j))
    BY <1>2, <1>4, PartKeeps
  <1>6. Cardinality(ByPlayer(q)) \in Nat
    BY <1>5, FS_CardinalityType
  <1> QED
    BY <1>3, <1>5, <1>6 DEF Joined

(* A queue and a replay buffer after their run published f.                *)
LEMMA OfferedIsJoined ==
  ASSUME NEW s \in Seq(Frame), NEW f, NEW n \in Int, NEW m \in Int, n <= m,
         InOrder(s), Before(s, n), Due(f, n, m), NEW size \in Nat
  PROVE  /\ Joined(FirstOf(s \o f, size), s, f, m) /\ Len(FirstOf(s \o f, size)) <= size
         /\ Joined(LastOf(s \o f, size), s, f, m) /\ Len(LastOf(s \o f, size)) <= size
  <1>1. s \o f \in Seq(Frame)
    BY ConcatProperties DEF Due
  <1>2. /\ FirstOf(s \o f, size) \in Seq(Frame) /\ Part(FirstOf(s \o f, size), s \o f)
        /\ Len(FirstOf(s \o f, size)) <= size
    BY <1>1, FirstOfIsPart
  <1>3. /\ LastOf(s \o f, size) \in Seq(Frame) /\ Part(LastOf(s \o f, size), s \o f)
        /\ Len(LastOf(s \o f, size)) <= size
    BY <1>1, LastOfIsPart
  <1>4. Joined(FirstOf(s \o f, size), s, f, m)
    BY <1>2, PartIsJoined
  <1>5. Joined(LastOf(s \o f, size), s, f, m)
    BY <1>3, PartIsJoined
  <1> QED
    BY <1>2, <1>3, <1>4, <1>5

(* What a page has shown comes before what is due and before the frames    *)
(* that wait in its queue.                                                 *)
Ahead(q, t) == \A k \in DOMAIN q : Script(q[k]) => ShownBefore(t, q[k].index)

(* What a full queue takes is still ahead of what the page has shown.      *)
LEMMA OfferedIsAhead ==
  ASSUME NEW s \in Seq(Frame), NEW f \in Seq(Frame), NEW n \in Int,
         NEW t \in Seq(Player .. NumBeats - 1), NEW size \in Nat,
         Ahead(s, t), ShownBefore(t, n), NotBefore(f, n)
  PROVE  Ahead(FirstOf(s \o f, size), t)
  <1> DEFINE j == s \o f
             q == FirstOf(j, size)
  <1>1. /\ j \in Seq(Frame) /\ Len(j) = Len(s) + Len(f)
        /\ \A i \in 1 .. Len(j) : j[i] = IF i <= Len(s) THEN s[i] ELSE f[i - Len(s)]
    BY ConcatProperties
  <1> HIDE DEF j
  <1>2. q \in Seq(Frame) /\ Part(q, j)
    BY <1>1, FirstOfIsPart
  <1> HIDE DEF q
  <1>3. PICK d \in Nat : /\ Len(q) + d <= Len(j)
                         /\ \A k \in 1 .. Len(q) : q[k] = j[k + d]
    BY <1>2 DEF Part
  <1> SUFFICES ASSUME NEW k \in DOMAIN q, Script(q[k])
               PROVE  ShownBefore(t, q[k].index)
    BY DEF Ahead, j, q
  <1>4. \/ k + d \in DOMAIN s /\ q[k] = s[k + d]
        \/ k + d - Len(s) \in DOMAIN f /\ q[k] = f[k + d - Len(s)]
    <2>1. Len(s) \in Nat /\ Len(f) \in Nat /\ k \in 1 .. Len(q)
      BY <1>2, LenProperties
    <2>2. k + d \in 1 .. Len(j) /\ q[k] = j[k + d]
      BY <1>1, <1>3, <2>1
    <2>3. CASE k + d <= Len(s)
      BY <1>1, <2>1, <2>2, <2>3
    <2>4. CASE k + d > Len(s)
      <3>1. j[k + d] = f[k + d - Len(s)]
        BY <1>1, <2>1, <2>2, <2>4
      <3>2. k + d - Len(s) \in 1 .. Len(f)
        BY <1>1, <2>1, <2>2, <2>4
      <3> QED
        BY <2>2, <3>1, <3>2
    <2> QED
      BY <2>1, <2>3, <2>4
  <1>5. CASE k + d \in DOMAIN s /\ q[k] = s[k + d]
    BY <1>5 DEF Ahead
  <1>6. CASE k + d - Len(s) \in DOMAIN f /\ q[k] = f[k + d - Len(s)]
    <2>1. n <= q[k].index
      BY <1>6 DEF NotBefore
    <2>2. q[k].index \in Int
      BY <1>2, StreamAssumption DEF Frame, Player, Script
    <2>3. \A i \in DOMAIN t : t[i] \in Int
      BY StreamAssumption DEF Player
    <2> QED
      BY <2>1, <2>2, <2>3 DEF ShownBefore
  <1> QED
    BY <1>4, <1>5, <1>6

(* What a publish does to the hub, whether it closes streams or not.       *)
Heard(c, f) == \/ queue'[c] = queue[c]
               \/ queue'[c] = FirstOf(queue[c] \o f, QueueSize)
               \/ queue'[c] = FirstOf(queue[c] \o Append(f, Sentinel), QueueSize)
Published(out) ==
  /\ replay' = [r \in Runs |-> LastOf(replay[r] \o out[r], ReplaySize)]
  /\ closed' \subseteq Runs /\ registered' \subseteq registered
  /\ \E q : queue' = [c \in Clients |-> q[c]]
  /\ \A c \in Clients : IF c \in registered THEN Heard(c, out[watch[c]])
                                            ELSE queue'[c] = queue[c]

(* publish() to both feeds, as one step of the stream.                     *)
LEMMA PublishAllPublishes ==
  ASSUME StreamTypeOK, NEW out, PublishAll(out)
  PROVE  Published(out)
  <1>1. closed' \subseteq Runs /\ registered' \subseteq registered
    BY DEF PublishAll, StreamTypeOK
  <1>2. \E q : queue' = [c \in Clients |-> q[c]]
    <2> DEFINE q == [c \in Clients |-> IF c \in registered THEN Offered(c, out[watch[c]])
                                                         ELSE queue[c]]
    <2>1. queue' = q /\ q = [c \in Clients |-> q[c]]
      BY DEF PublishAll
    <2> HIDE DEF q
    <2> QED
      BY <2>1
  <1>3. \A c \in Clients : IF c \in registered THEN Heard(c, out[watch[c]])
                                               ELSE queue'[c] = queue[c]
    BY DEF PublishAll, Heard, Offered
  <1> QED
    BY <1>1, <1>2, <1>3 DEF Published, PublishAll

Only(r, f) == [x \in Runs |-> IF x = r THEN f ELSE <<>>]

(* publish() and close() of one feed, as one step of the stream.           *)
LEMMA CloseIsPublished ==
  ASSUME StreamTypeOK, NEW r \in Runs, NEW f \in Seq(Frame), PublishAndClose(r, f)
  PROVE  Published(Only(r, f))
  <1> DEFINE out == Only(r, f)
  <1>1. \A x \in Runs : out[x] = IF x = r THEN f ELSE <<>>
    BY DEF Only
  <1> HIDE DEF out
  <1>2. closed' \subseteq Runs /\ registered' \subseteq registered
    BY DEF PublishAndClose, StreamTypeOK
  <1>3. \E q : queue' = [c \in Clients |-> q[c]]
    <2> DEFINE q == [c \in Clients |-> IF c \in Fed(r) THEN Offered(c, Append(f, Sentinel))
                                                     ELSE queue[c]]
    <2>1. queue' = q /\ q = [c \in Clients |-> q[c]]
      BY DEF PublishAndClose
    <2> HIDE DEF q
    <2> QED
      BY <2>1
  <1>4. ASSUME NEW c \in Clients
        PROVE  IF c \in registered THEN Heard(c, out[watch[c]]) ELSE queue'[c] = queue[c]
    BY <1>1 DEF PublishAndClose, Heard, Offered, Fed
  <1>5. replay' = [x \in Runs |-> LastOf(replay[x] \o out[x], ReplaySize)]
    <2>1. replay' = [replay EXCEPT ![r] = LastOf(replay[r] \o f, ReplaySize)]
      BY DEF PublishAndClose
    <2>2. replay \in [Runs -> Seq(Frame)] /\ \A x \in Runs : Len(replay[x]) <= ReplaySize
      BY DEF StreamTypeOK
    <2>3. \A x \in Runs : replay[x] \o <<>> = replay[x]
      BY <2>2, ConcatEmptySeq
    <2>4. \A x \in Runs : LastOf(replay[x], ReplaySize) = replay[x]
      BY <2>2 DEF LastOf
    <2>5. \A x \in Runs : replay'[x] = LastOf(replay[x] \o out[x], ReplaySize)
      <3> SUFFICES ASSUME NEW x \in Runs
                   PROVE  replay'[x] = LastOf(replay[x] \o out[x], ReplaySize)
        OBVIOUS
      <3>1. CASE x = r
        BY <1>1, <2>1, <2>2, <3>1
      <3>2. CASE x # r
        BY <1>1, <2>1, <2>2, <2>3, <2>4, <3>2
      <3> QED
        BY <3>1, <3>2
    <2>6. replay' = [x \in Runs |-> replay'[x]]
      BY <2>1, <2>2
    <2> QED
      BY <2>5, <2>6
  <1> QED
    BY <1>2, <1>3, <1>4, <1>5 DEF Published, out

-----------------------------------------------------------------------------
(* What a publish leaves true of the feeds                                 *)

BeatTypes == beat \in [Runs -> 0 .. NumBeats]

(* Every run publishes what its script is due.                             *)
OnTime(out) ==
  /\ beat' \in [Runs -> 0 .. NumBeats] /\ \A r \in Runs : beat[r] <= beat'[r]
  /\ \A r \in Runs : Due(out[r], beat[r], beat'[r])

Retold(out) ==
  /\ \A r \in Runs : Tells(replay'[r]) => Tells(replay[r]) \/ Tells(out[r])
  /\ \A c \in Clients : Tells(queue'[c]) =>
       Tells(queue[c]) \/ (watch[c] \in Runs /\ Tells(out[watch[c]]))

Counted(out) ==
  \A r \in Runs :
    /\ PlayerBeats(r) \in Nat /\ PlayerBeats(r)' \in Nat
    /\ ByPlayer(out[r]) = {} => PlayerBeats(r)' <= PlayerBeats(r)
    /\ out[r] = <<Beat(Player)>> => PlayerBeats(r)' <= PlayerBeats(r) + 1

(* The replay buffers                                                      *)
LEMMA ReplayKeeps ==
  ASSUME StreamInv, BeatTypes, NEW out, Published(out), OnTime(out)
  PROVE  /\ replay' \in [Runs -> Seq(Frame)]
         /\ \A r \in Runs : /\ Len(replay'[r]) <= ReplaySize
                            /\ Joined(replay'[r], replay[r], out[r], beat'[r])
  <1>1. ASSUME NEW r \in Runs
        PROVE  /\ replay'[r] \in Seq(Frame) /\ Len(replay'[r]) <= ReplaySize
               /\ Joined(replay'[r], replay[r], out[r], beat'[r])
    <2>1. replay[r] \in Seq(Frame) /\ InOrder(replay[r]) /\ Before(replay[r], beat[r])
      BY DEF StreamInv, StreamTypeOK, FeedsInOrder
    <2>2. beat[r] \in Int /\ beat'[r] \in Int /\ beat[r] <= beat'[r]
      BY StreamAssumption DEF BeatTypes, OnTime
    <2>3. Due(out[r], beat[r], beat'[r])
      BY DEF OnTime
    <2>4. replay'[r] = LastOf(replay[r] \o out[r], ReplaySize)
      BY DEF Published
    <2>5. ReplaySize \in Nat
      BY StreamAssumption
    <2>6. /\ Joined(LastOf(replay[r] \o out[r], ReplaySize), replay[r], out[r], beat'[r])
          /\ Len(LastOf(replay[r] \o out[r], ReplaySize)) <= ReplaySize
      BY <2>1, <2>2, <2>3, <2>5, OfferedIsJoined
    <2> QED
      BY <2>4, <2>6 DEF Joined
  <1>2. \A r \in Runs : replay'[r] \in Seq(Frame)
    BY <1>1
  <1>3. replay' \in [Runs -> Seq(Frame)]
    <2>1. replay' = [r \in Runs |-> replay'[r]]
      BY DEF Published
    <2> QED
      BY <1>2, <2>1
  <1> QED
    BY <1>1, <1>3

(* The queue of a client                                                   *)
QueueKept(c) ==
  /\ queue'[c] \in Seq(Frame) /\ Len(queue'[c]) <= QueueSize
  /\ InOrder(queue'[c]) /\ Ahead(queue'[c], timeline[c])
  /\ c \in registered => /\ Before(queue'[c], beat'[watch[c]])
                         /\ ShownBefore(timeline[c], beat'[watch[c]])

(* Every queue stays in order when frames on time are published.           *)
LEMMA QueueKeeps ==
  ASSUME StreamInv, BeatTypes, NEW out, Published(out), OnTime(out), NEW c \in Clients
  PROVE  /\ QueueKept(c)
         /\ c \notin connected => queue'[c] = <<>>
         /\ Tells(queue'[c]) =>
              Tells(queue[c]) \/ (watch[c] \in Runs /\ Tells(out[watch[c]]))
  <1> DEFINE s == queue[c]
             t == timeline[c]
             w == watch[c]
  <1>1. /\ s \in Seq(Frame) /\ Len(s) <= QueueSize /\ InOrder(s) /\ Ahead(s, t)
        /\ t \in Seq(Player .. NumBeats - 1)
        /\ c \in registered => /\ w \in Runs
                               /\ Before(s, beat[w]) /\ ShownBefore(t, beat[w])
    BY DEF StreamInv, StreamTypeOK, FeedsInOrder, Watching, Ahead
  <1>2. c \notin connected => c \notin registered /\ s = <<>>
    BY DEF StreamInv, StreamTypeOK, Watching
  <1>3. CASE c \notin registered
    <2>1. queue'[c] = s
      BY <1>3 DEF Published
    <2> QED
      BY <1>1, <1>2, <1>3, <2>1 DEF QueueKept
  <1>4. CASE c \in registered
    <2> DEFINE n == beat[w]
               m == beat'[w]
               f == out[w]
    <2>1. w \in Runs /\ Before(s, n) /\ ShownBefore(t, n) /\ Due(f, n, m) /\ Heard(c, f)
      BY <1>1, <1>4 DEF OnTime, Published
    <2>2. n \in Int /\ m \in Int /\ n <= m
      BY <2>1, StreamAssumption DEF BeatTypes, OnTime
    <2>3. ShownBefore(t, m)
      BY <1>1, <2>1, <2>2, StreamAssumption DEF ShownBefore, Player
    <2>4. QueueSize \in Nat
      BY StreamAssumption
    <2> SUFFICES /\ queue'[c] \in Seq(Frame) /\ Len(queue'[c]) <= QueueSize
                 /\ InOrder(queue'[c]) /\ Ahead(queue'[c], t) /\ Before(queue'[c], m)
                 /\ Tells(queue'[c]) => Tells(s) \/ Tells(f)
      BY <1>2, <1>4, <2>1, <2>3 DEF QueueKept
    <2>5. CASE queue'[c] = s
      BY <1>1, <2>1, <2>2, <2>5, StreamAssumption DEF Before, Frame, Script, Player
    <2>6. ASSUME NEW g, Due(g, n, m), Tells(g) => Tells(f),
                 queue'[c] = FirstOf(s \o g, QueueSize)
          PROVE  /\ queue'[c] \in Seq(Frame) /\ Len(queue'[c]) <= QueueSize
                 /\ InOrder(queue'[c]) /\ Ahead(queue'[c], t) /\ Before(queue'[c], m)
                 /\ Tells(queue'[c]) => Tells(s) \/ Tells(f)
      <3>1. /\ Joined(FirstOf(s \o g, QueueSize), s, g, m)
            /\ Len(FirstOf(s \o g, QueueSize)) <= QueueSize
        BY <1>1, <2>1, <2>2, <2>4, <2>6, OfferedIsJoined
      <3>2. Ahead(FirstOf(s \o g, QueueSize), t)
        <4>1. g \in Seq(Frame) /\ NotBefore(g, n)
          BY <2>6 DEF Due
        <4> QED
          BY <1>1, <2>1, <2>2, <2>4, <4>1, OfferedIsAhead
      <3> QED
        BY <2>6, <3>1, <3>2 DEF Joined
    <2>7. CASE queue'[c] = FirstOf(s \o f, QueueSize)
      BY <2>1, <2>6, <2>7
    <2>8. CASE queue'[c] = FirstOf(s \o Append(f, Sentinel), QueueSize)
      <3>1. Due(Append(f, Sentinel), n, m) /\ (Tells(Append(f, Sentinel)) => Tells(f))
        BY <2>1, <2>2, SentinelKeeps
      <3> QED
        BY <2>6, <2>8, <3>1
    <2> QED
      BY <2>1, <2>5, <2>7, <2>8 DEF Heard
  <1> QED
    BY <1>3, <1>4

(* What is published on time leaves the feeds as they should be.           *)
LEMMA PublishKeeps ==
  ASSUME StreamInv, BeatTypes, NEW out, Published(out), OnTime(out), UNCHANGED page
  PROVE  StreamInv' /\ Retold(out) /\ Counted(out)
  <1>1. /\ replay' \in [Runs -> Seq(Frame)]
        /\ \A r \in Runs : /\ Len(replay'[r]) <= ReplaySize
                           /\ Joined(replay'[r], replay[r], out[r], beat'[r])
    BY ReplayKeeps
  <1>2. \A c \in Clients :
          /\ QueueKept(c)
          /\ c \notin connected => queue'[c] = <<>>
          /\ Tells(queue'[c]) =>
               Tells(queue[c]) \/ (watch[c] \in Runs /\ Tells(out[watch[c]]))
    BY QueueKeeps
  <1>3. /\ connected' = connected /\ watch' = watch /\ phase' = phase
        /\ timeline' = timeline /\ heard' = heard
    BY DEF page
  <1>4. closed' \subseteq Runs /\ registered' \subseteq registered
    BY DEF Published
  <1>5. StreamTypeOK'
    <2>1. queue' \in [Clients -> Seq(Frame)]
      <3>1. PICK q : queue' = [c \in Clients |-> q[c]]
        BY DEF Published
      <3>2. \A c \in Clients : queue'[c] \in Seq(Frame)
        BY <1>2 DEF QueueKept
      <3> QED
        BY <3>1, <3>2
    <2>2. \A c \in Clients : Len(queue'[c]) <= QueueSize
      BY <1>2 DEF QueueKept
    <2> QED
      BY <1>1, <1>3, <1>4, <2>1, <2>2 DEF StreamTypeOK, StreamInv
  <1>6. Watching'
    BY <1>2, <1>3 DEF Watching, StreamInv
  <1>7. FeedsInOrder'
    <2>1. \A r \in Runs : InOrder(replay'[r]) /\ Before(replay'[r], beat'[r])
      BY <1>1 DEF Joined
    <2>2. \A c \in Clients : ShownInOrder(timeline[c])
      BY DEF StreamInv, FeedsInOrder
    <2>3. ASSUME NEW c \in Clients
          PROVE  /\ InOrder(queue'[c]) /\ ShownInOrder(timeline'[c])
                 /\ \A k \in DOMAIN queue'[c] : Script(queue'[c][k]) =>
                      ShownBefore(timeline'[c], queue'[c][k].index)
                 /\ c \in registered' => /\ Before(queue'[c], beat'[watch'[c]])
                                         /\ ShownBefore(timeline'[c], beat'[watch'[c]])
      BY <1>2, <1>3, <1>4, <2>2 DEF QueueKept, Ahead
    <2> QED
      BY <2>1, <2>3 DEF FeedsInOrder
  <1>8. Retold(out)
    BY <1>1, <1>2 DEF Retold, Joined
  <1>9. Counted(out)
    <2>1. \A r \in Runs : /\ PlayerBeats(r) = Cardinality(ByPlayer(replay[r]))
                          /\ PlayerBeats(r)' = Cardinality(ByPlayer(replay'[r]))
      BY DEF PlayerBeats, ByPlayer
    <2> QED
      BY <1>1, <2>1 DEF Counted, Joined
  <1> QED
    BY <1>5, <1>6, <1>7, <1>8, <1>9 DEF StreamInv

(* Nothing, a mark and a player's beat are always due.                     *)
Aside(f) == /\ f \in Seq(Frame)
            /\ \A k \in DOMAIN f : ~Script(f[k])
(* A frame that is not of the script is due at any time.                   *)
LEMMA AsideIsDue ==
  ASSUME NEW f, Aside(f), NEW n, NEW m
  PROVE  Due(f, n, m)
  BY DEF Aside, Due, InOrder, NotBefore, Before

(* The frames that are not of the script.                                  *)
LEMMA AsidesAre ==
  /\ Aside(<<>>) /\ Aside(<<Beat(Player)>>)
  /\ \A type \in Marks : Aside(<<Mark(type)>>)
  /\ Aside(<<Mark("mission_started"), Mark("world_snapshot")>>)
  <1>1. \A type \in Marks : Mark(type) \in Frame /\ ~Script(Mark(type))
    BY DEF Mark, Marks, Frame, Script
  <1>2. Beat(Player) \in Frame /\ ~Script(Beat(Player))
    BY StreamAssumption DEF Beat, Player, Frame, Script
  <1>3. Aside(<<>>)
    BY DEF Aside
  <1>4. Aside(<<Beat(Player)>>)
    BY <1>2 DEF Aside
  <1>5. \A type \in Marks : Aside(<<Mark(type)>>)
    BY <1>1 DEF Aside
  <1>6. Aside(<<Mark("mission_started"), Mark("world_snapshot")>>)
    <2>1. "mission_started" \in Marks /\ "world_snapshot" \in Marks
      BY DEF Marks
    <2> QED
      BY <1>1, <2>1 DEF Aside
  <1> QED
    BY <1>3, <1>4, <1>5, <1>6

(* No mark is a player's beat, and only one of them tells of a completion. *)
LEMMA MarksSay ==
  /\ ByPlayer(<<>>) = {} /\ ~Tells(<<>>) /\ ~Tells(<<Beat(Player)>>)
  /\ \A type \in Marks : /\ ByPlayer(<<Mark(type)>>) = {}
                         /\ Tells(<<Mark(type)>>) <=> type = "mission_complete"
  /\ ByPlayer(<<Mark("mission_started"), Mark("world_snapshot")>>) = {}
  /\ ~Tells(<<Mark("mission_started"), Mark("world_snapshot")>>)
  <1>1. \A type \in Marks : Mark(type) # Beat(Player) /\ Mark(type).type = type
    BY DEF Mark, Beat, Marks
  <1>2. Beat(Player).type = "beat"
    BY DEF Beat
  <1>3. "mission_started" \in Marks /\ "world_snapshot" \in Marks
    BY DEF Marks
  <1>4. ByPlayer(<<>>) = {} /\ ~Tells(<<>>) /\ ~Tells(<<Beat(Player)>>)
    BY <1>2 DEF ByPlayer, Tells
  <1>5. \A type \in Marks : ByPlayer(<<Mark(type)>>) = {}
    BY <1>1 DEF ByPlayer
  <1>6. \A type \in Marks : Tells(<<Mark(type)>>) <=> type = "mission_complete"
    BY <1>1 DEF Tells
  <1>7. ByPlayer(<<Mark("mission_started"), Mark("world_snapshot")>>) = {}
    BY <1>1, <1>3 DEF ByPlayer
  <1>8. ~Tells(<<Mark("mission_started"), Mark("world_snapshot")>>)
    BY <1>1, <1>3 DEF Tells
  <1> QED
    BY <1>4, <1>5, <1>6, <1>7, <1>8

(* The beat the script has come to is due, behind what came before it.     *)
LEMMA NextBeatIsDue ==
  ASSUME NEW before, before = <<>> \/ before = <<Mark("mission_started")>>,
         NEW n \in 0 .. NumBeats - 1
  PROVE  LET f == before \o <<Beat(n)>>
         IN  Due(f, n, n + 1) /\ ByPlayer(f) = {} /\ ~Tells(f)
  <1>1. Beat(n) \in Frame /\ Beat(n).index = n /\ Beat(n).type = "beat" /\ Beat(n) # Beat(Player)
    BY StreamAssumption DEF Beat, Frame, Player
  <1>2. /\ Mark("mission_started") \in Frame /\ ~Script(Mark("mission_started"))
        /\ Mark("mission_started").type = "mission_started"
        /\ Mark("mission_started") # Beat(Player)
    BY DEF Mark, Frame, Marks, Script, Beat
  <1>3. CASE before = <<>>
    <2> DEFINE f == <<Beat(n)>>
    <2>1. before \o <<Beat(n)>> = f
      BY <1>1, <1>3
    <2>2. f \in Seq(Frame) /\ Len(f) = 1 /\ f[1] = Beat(n)
      BY <1>1
    <2> HIDE DEF f
    <2>3. Due(f, n, n + 1) /\ ByPlayer(f) = {} /\ ~Tells(f)
      BY <1>1, <2>2 DEF Due, InOrder, NotBefore, Before, ByPlayer, Tells
    <2> QED
      BY <2>1, <2>3
  <1>4. CASE before = <<Mark("mission_started")>>
    <2> DEFINE f == <<Mark("mission_started"), Beat(n)>>
    <2>1. before \o <<Beat(n)>> = f
      <3>1. <<Mark("mission_started")>> \in Seq(Frame) /\ <<Beat(n)>> \in Seq(Frame)
        BY <1>1, <1>2
      <3> DEFINE x == <<Mark("mission_started")>>
                 y == <<Beat(n)>>
      <3>2. Len(x) = 1 /\ x[1] = Mark("mission_started") /\ Len(y) = 1 /\ y[1] = Beat(n)
        OBVIOUS
      <3>3. f \in Seq(Frame) /\ Len(f) = 2 /\ f[1] = x[1] /\ f[2] = y[1]
        BY <1>1, <1>2
      <3> HIDE DEF x, y, f
      <3>4. x \in Seq(Frame) /\ y \in Seq(Frame)
        BY <3>1 DEF x, y
      <3>5. /\ x \o y \in Seq(Frame) /\ Len(x \o y) = Len(x) + Len(y)
            /\ \A i \in 1 .. Len(x) + Len(y) :
                 (x \o y)[i] = IF i <= Len(x) THEN x[i] ELSE y[i - Len(x)]
        BY <3>4, ConcatProperties
      <3>6. Len(x \o y) = 2 /\ (x \o y)[1] = f[1] /\ (x \o y)[2] = f[2]
        BY <3>2, <3>3, <3>5
      <3>7. \A i \in 1 .. 2 : (x \o y)[i] = f[i]
        BY <3>6
      <3>8. x \o y = f
        BY <3>3, <3>5, <3>6, <3>7, SeqEqual
      <3> QED
        BY <1>4, <3>8 DEF x, y
    <2>2. /\ f \in Seq(Frame) /\ Len(f) = 2
          /\ f[1] = Mark("mission_started") /\ f[2] = Beat(n)
      BY <1>1, <1>2
    <2> HIDE DEF f
    <2>3. \A k \in DOMAIN f : k = 2 \/ f[k] = Mark("mission_started")
      BY <2>2
    <2>4. Due(f, n, n + 1) /\ ByPlayer(f) = {} /\ ~Tells(f)
      BY <1>1, <1>2, <2>2, <2>3 DEF Due, InOrder, NotBefore, Before, ByPlayer, Tells
    <2> QED
      BY <2>1, <2>4
  <1> QED
    BY <1>3, <1>4

-----------------------------------------------------------------------------
(* What a page does                                                        *)

(* The part of the invariant that is about one client.                     *)
ClientTypes ==
  /\ registered \subseteq connected /\ connected \subseteq Clients
  /\ queue \in [Clients -> Seq(Frame)]
  /\ watch \in [Clients -> Runs \cup {None}]
  /\ phase \in [Clients -> Phases]
  /\ timeline \in [Clients -> Seq(Player .. NumBeats - 1)]
  /\ heard \in [Clients -> Nat]
ClientInv(c) ==
  /\ Len(queue[c]) <= QueueSize
  /\ c \in connected => watch[c] \in Runs
  /\ c \notin connected => queue[c] = <<>>
  /\ InOrder(queue[c]) /\ ShownInOrder(timeline[c]) /\ Ahead(queue[c], timeline[c])
  /\ c \in registered => /\ Before(queue[c], beat[watch[c]])
                         /\ ShownBefore(timeline[c], beat[watch[c]])
ClientNews(c) ==
  Tells(queue[c]) \/ phase[c] = "complete" => watch[c] \in Runs /\ Confirmed(watch[c])

(* A step of the page of c and of nobody else.                             *)
Alone(c) ==
  /\ UNCHANGED <<replay, closed, mission>>
  /\ \A d \in Clients \ {c} :
       /\ queue'[d] = queue[d] /\ timeline'[d] = timeline[d] /\ watch'[d] = watch[d]
       /\ phase'[d] = phase[d]
       /\ d \in connected' <=> d \in connected
       /\ d \in registered' <=> d \in registered

(* The invariant of the stream, client by client.                          *)
LEMMA StreamInvByClient ==
  StreamInv => ClientTypes /\ \A c \in Clients : ClientInv(c)
  BY DEF StreamInv, StreamTypeOK, Watching, FeedsInOrder, ClientTypes, ClientInv, Ahead

(* A step of one page that keeps its part keeps the invariant.             *)
LEMMA AloneKeeps ==
  ASSUME StreamInv, NEW c \in Clients, Alone(c), ClientTypes', ClientInv(c)'
  PROVE  /\ StreamInv'
         /\ NewsConfirmed /\ ClientNews(c)' => NewsConfirmed'
  <1>1. replay' = replay /\ closed' = closed /\ beat' = beat /\ disk' = disk
    BY DEF Alone, mission
  <1>2. \A d \in Clients : ClientInv(d)'
    <2>1. \A d \in Clients : ClientInv(d)
      BY StreamInvByClient
    <2> SUFFICES ASSUME NEW d \in Clients, d # c
                 PROVE  ClientInv(d)'
      OBVIOUS
    <2>2. /\ queue'[d] = queue[d] /\ timeline'[d] = timeline[d] /\ watch'[d] = watch[d]
          /\ d \in connected' <=> d \in connected
          /\ d \in registered' <=> d \in registered
      BY DEF Alone
    <2>3. ClientInv(d)
      BY <2>1
    <2> QED
      BY <1>1, <2>2, <2>3 DEF ClientInv
  <1>3. StreamTypeOK'
    <2>1. \A d \in Clients : Len(queue'[d]) <= QueueSize
      BY <1>2 DEF ClientInv
    <2> QED
      BY <1>1, <2>1 DEF StreamTypeOK, StreamInv, ClientTypes
  <1>4. Watching'
    BY <1>2 DEF ClientInv, Watching
  <1>5. FeedsInOrder'
    <2>1. \A r \in Runs : InOrder(replay'[r]) /\ Before(replay'[r], beat'[r])
      BY <1>1 DEF StreamInv, FeedsInOrder
    <2> QED
      BY <1>2, <2>1 DEF ClientInv, FeedsInOrder, Ahead
  <1>6. ASSUME NewsConfirmed, ClientNews(c)'
        PROVE  NewsConfirmed'
    <2>1. \A r \in Runs : Confirmed(r)' <=> Confirmed(r)
      BY <1>1 DEF Confirmed
    <2>2. \A r \in Runs : Tells(replay'[r]) => Confirmed(r)'
      BY <1>1, <1>6, <2>1 DEF NewsConfirmed
    <2>3. ASSUME NEW d \in Clients
          PROVE  Tells(queue'[d]) \/ phase'[d] = "complete" =>
                   watch'[d] \in Runs /\ Confirmed(watch[d])'
      <3>1. CASE d = c
        BY <1>6, <3>1 DEF ClientNews
      <3>2. CASE d # c
        <4>1. queue'[d] = queue[d] /\ watch'[d] = watch[d] /\ phase'[d] = phase[d]
          BY <3>2 DEF Alone
        <4> QED
          BY <1>1, <1>6, <4>1 DEF NewsConfirmed, Confirmed
      <3> QED
        BY <3>1, <3>2
    <2> QED
      BY <2>2, <2>3 DEF NewsConfirmed
  <1> QED
    BY <1>3, <1>4, <1>5, <1>6 DEF StreamInv

(* The page opens a stream.                                                *)
LEMMA WatchKeeps ==
  ASSUME StreamInv, BeatTypes, NEW c \in Clients, NEW r \in Runs, Watch(c, r),
         UNCHANGED mission
  PROVE  StreamInv' /\ (NewsConfirmed => NewsConfirmed')
  <1>1. ClientTypes /\ ClientInv(c)
    BY StreamInvByClient
  <1>2. /\ c \notin connected /\ c \notin registered /\ queue[c] = <<>>
        /\ beat' = beat /\ disk' = disk /\ replay' = replay
    BY <1>1 DEF Watch, ClientTypes, ClientInv, mission
  <1>3. /\ watch' = [watch EXCEPT ![c] = r] /\ timeline' = [timeline EXCEPT ![c] = <<>>]
        /\ heard' = [heard EXCEPT ![c] = 0] /\ UNCHANGED closed
    BY DEF Watch
  <1> DEFINE b == Backlog(r)
  <1>4. /\ b \in Seq(Frame) /\ Len(b) <= QueueSize /\ InOrder(b) /\ Before(b, beat[r])
        /\ Tells(b) => Tells(replay[r])
    <2>1. replay[r] \in Seq(Frame) /\ InOrder(replay[r]) /\ Before(replay[r], beat[r])
      BY DEF StreamInv, StreamTypeOK, FeedsInOrder
    <2>2. QueueSize \in Nat /\ beat[r] \in Int
      BY StreamAssumption DEF BeatTypes
    <2>3. b \in Seq(Frame) /\ Len(b) <= QueueSize /\ Part(b, replay[r])
      BY <2>1, <2>2, FirstOfIsPart DEF Backlog
    <2> HIDE DEF b
    <2> QED
      BY <2>1, <2>2, <2>3, PartKeeps
  <1> DEFINE g == ClosedBacklog(r)
  <1>5. /\ g \in Seq(Frame) /\ Len(g) = Len(b) + 1 /\ InOrder(g)
        /\ Tells(g) => Tells(replay[r])
    <2>1. Due(b, 0 - 1, beat[r])
      <3>1. \A k \in DOMAIN b : b[k].index \in Int /\ 0 - 1 <= b[k].index
        BY <1>4, StreamAssumption DEF Frame, Player
      <3> HIDE DEF b
      <3> QED
        BY <1>4, <3>1 DEF Due, NotBefore
    <2>2. beat[r] \in Int
      BY StreamAssumption DEF BeatTypes
    <2> HIDE DEF b
    <2>3. Due(Append(b, Sentinel), 0 - 1, beat[r]) /\ (Tells(Append(b, Sentinel)) => Tells(b))
      BY <2>1, <2>2, SentinelKeeps
    <2>4. Len(Append(b, Sentinel)) = Len(b) + 1
      BY <1>4, AppendProperties
    <2>5. g = Append(b, Sentinel)
      BY DEF ClosedBacklog, b
    <2> QED
      BY <1>4, <2>3, <2>4, <2>5 DEF Due
  <1> HIDE DEF b, g
  <1>6. \/ /\ queue' = [queue EXCEPT ![c] = b] /\ registered' = registered \cup {c}
           /\ connected' = connected \cup {c} /\ phase' = [phase EXCEPT ![c] = "connecting"]
        \/ /\ queue' = [queue EXCEPT ![c] = g] /\ registered' = registered
           /\ connected' = connected \cup {c} /\ phase' = [phase EXCEPT ![c] = "connecting"]
           /\ Len(b) < QueueSize
        \/ /\ queue' = queue /\ registered' = registered /\ connected' = connected
           /\ phase' = [phase EXCEPT ![c] = "failed"]
    BY DEF Watch, b, g
  <1>7. /\ timeline'[c] = <<>> /\ watch'[c] = r /\ ShownInOrder(<<>>)
        /\ \A q : Ahead(q, <<>>)
        /\ ShownBefore(<<>>, beat[r]) /\ InOrder(<<>>)
    BY <1>1, <1>3 DEF ShownInOrder, ShownBefore, Ahead, InOrder, ClientTypes
  <1>8. "connecting" \in Phases /\ "failed" \in Phases
    BY DEF Phases
  <1>9. ClientTypes'
    <2>1. <<>> \in Seq(Player .. NumBeats - 1)
      OBVIOUS
    <2>2. timeline' \in [Clients -> Seq(Player .. NumBeats - 1)]
      BY <1>1, <1>3, <2>1 DEF ClientTypes
    <2>3. watch' \in [Clients -> Runs \cup {None}] /\ heard' \in [Clients -> Nat]
      BY <1>1, <1>3 DEF ClientTypes
    <2>4. queue' \in [Clients -> Seq(Frame)]
      BY <1>1, <1>4, <1>5, <1>6 DEF ClientTypes
    <2>5. phase' \in [Clients -> Phases]
      BY <1>1, <1>6, <1>8 DEF ClientTypes
    <2>6. registered' \subseteq connected' /\ connected' \subseteq Clients
      BY <1>1, <1>6 DEF ClientTypes
    <2> QED
      BY <2>2, <2>3, <2>4, <2>5, <2>6 DEF ClientTypes
  <1>10. ClientInv(c)'
    <2>1. c \in connected' \/ queue'[c] = <<>>
      BY <1>1, <1>2, <1>6 DEF ClientTypes
    <2>2. Len(queue'[c]) <= QueueSize /\ InOrder(queue'[c])
      <3>1. Len(<<>>) <= QueueSize
        BY StreamAssumption
      <3> QED
        BY <1>1, <1>2, <1>4, <1>5, <1>6, <1>7, <3>1, StreamAssumption, LenProperties DEF ClientTypes
    <2>3. c \in registered' => Before(queue'[c], beat'[r])
      BY <1>1, <1>2, <1>4, <1>6 DEF ClientTypes
    <2> QED
      BY <1>2, <1>7, <2>1, <2>2, <2>3 DEF ClientInv
  <1>11. Alone(c)
    <2>1. \A d \in Clients \ {c} :
            /\ queue'[d] = queue[d] /\ timeline'[d] = timeline[d] /\ watch'[d] = watch[d]
            /\ phase'[d] = phase[d]
      BY <1>1, <1>3, <1>6 DEF ClientTypes
    <2>2. \A d \in Clients \ {c} : /\ d \in connected' <=> d \in connected
                                   /\ d \in registered' <=> d \in registered
      BY <1>6
    <2> QED
      BY <1>2, <1>3, <2>1, <2>2 DEF Alone
  <1>12. NewsConfirmed => ClientNews(c)'
    <2>1. /\ Tells(queue'[c]) => Tells(replay[r])
          /\ phase'[c] # "complete"
      <3>1. ~Tells(<<>>)
        BY DEF Tells
      <3> QED
        BY <1>1, <1>2, <1>4, <1>5, <1>6, <3>1 DEF ClientTypes
    <2> QED
      BY <1>2, <1>7, <2>1 DEF ClientNews, NewsConfirmed, Confirmed
  <1> QED
    BY <1>9, <1>10, <1>11, <1>12, AloneKeeps

(* The hook shows a beat behind those it has shown.                        *)
LEMMA ShownKeeps ==
  ASSUME NEW q \in Seq(Frame), q # <<>>, NEW t \in Seq(Player .. NumBeats - 1),
         InOrder(q), ShownInOrder(t), Ahead(q, t)
  PROVE  LET f == Head(q)
             u == Shown(t, f)
         IN  /\ f \in Frame /\ Tail(q) \in Seq(Frame) /\ Len(Tail(q)) <= Len(q)
             /\ u \in Seq(Player .. NumBeats - 1)
             /\ InOrder(Tail(q)) /\ ShownInOrder(u) /\ Ahead(Tail(q), u)
             /\ \A n \in Int : Before(q, n) /\ ShownBefore(t, n) =>
                  Before(Tail(q), n) /\ ShownBefore(u, n)
             /\ Tells(Tail(q)) => Tells(q)
             /\ f.type = "mission_complete" => Tells(q)
  <1> DEFINE f == Head(q)
             u == Shown(t, f)
             w == Tail(q)
  <1>1. Len(q) \in Nat /\ Len(q) >= 1 /\ q[1] = f /\ f \in Frame
    BY HeadTailProperties, LenProperties, EmptySeq
  <1>2. /\ w \in Seq(Frame) /\ Len(w) = Len(q) - 1
        /\ \A i \in 1 .. Len(w) : w[i] = q[i + 1]
    BY HeadTailProperties
  <1>3. f.index \in Int /\ (f.type = "beat" => f.index \in Player .. NumBeats - 1)
    BY <1>1, StreamAssumption DEF Frame, Marks, Player
  <1>4. /\ Len(t) \in Nat
        /\ \/ u = t
           \/ f.type = "beat" /\ u = Append(t, f.index)
    BY LenProperties DEF Shown
  <1>5. /\ u \in Seq(Player .. NumBeats - 1)
        /\ \A k \in DOMAIN u : \/ k \in DOMAIN t /\ u[k] = t[k]
                               \/ k > Len(t) /\ u[k] = f.index /\ f.type = "beat"
    <2>1. CASE u = t
      BY <2>1
    <2>2. CASE f.type = "beat" /\ u = Append(t, f.index)
      <3> DEFINE i == f.index
                 v == Append(t, i)
      <3>1. i \in Player .. NumBeats - 1 /\ u = v
        BY <1>3, <2>2
      <3> HIDE DEF i, u
      <3>2. /\ v \in Seq(Player .. NumBeats - 1) /\ Len(v) = Len(t) + 1
            /\ v[Len(t) + 1] = i /\ \A k \in 1 .. Len(t) : v[k] = t[k]
        BY <3>1, AppendProperties
      <3> QED
        BY <1>4, <2>2, <3>1, <3>2 DEF i
    <2> QED
      BY <1>4, <2>1, <2>2
  <1> HIDE DEF u, w, f
  <1>6. \A k \in DOMAIN t : t[k] \in Int
    BY StreamAssumption DEF Player
  <1>7. Script(f) => ShownBefore(t, f.index)
    BY <1>1 DEF Ahead
  <1>8. Part(w, q)
    <2>1. 1 \in Nat /\ Len(w) + 1 <= Len(q)
      BY <1>1, <1>2
    <2> QED
      BY <1>2, <2>1 DEF Part
  <1>9. InOrder(w) /\ (\A n \in Int : Before(q, n) => Before(w, n)) /\ (Tells(w) => Tells(q))
    BY <1>2, <1>8, PartKeeps
  <1>10. ShownInOrder(u)
    <2> SUFFICES ASSUME NEW a \in DOMAIN u, NEW b \in DOMAIN u, a < b,
                        u[a] # Player, u[b] # Player
                 PROVE  u[a] < u[b]
      BY DEF ShownInOrder
    <2>1. a \in DOMAIN t /\ u[a] = t[a]
      BY <1>4, <1>5
    <2>2. CASE b \in DOMAIN t /\ u[b] = t[b]
      BY <2>1, <2>2 DEF ShownInOrder
    <2>3. CASE u[b] = f.index /\ f.type = "beat"
      <3>1. Script(f)
        BY <2>3 DEF Script
      <3> QED
        BY <1>7, <2>1, <2>3, <3>1 DEF ShownBefore
    <2> QED
      BY <1>5, <2>2, <2>3
  <1>11. Ahead(w, u)
    <2> SUFFICES ASSUME NEW k \in DOMAIN w, Script(w[k]), NEW j \in DOMAIN u, u[j] # Player
                 PROVE  u[j] < w[k].index
      BY DEF Ahead, ShownBefore
    <2>1. k + 1 \in DOMAIN q /\ 1 \in DOMAIN q /\ 1 < k + 1 /\ w[k] = q[k + 1]
      BY <1>1, <1>2
    <2>2. CASE j \in DOMAIN t /\ u[j] = t[j]
      <3>1. ShownBefore(t, q[k + 1].index)
        BY <2>1 DEF Ahead
      <3> QED
        BY <2>1, <2>2, <3>1 DEF ShownBefore
    <2>3. CASE u[j] = f.index /\ f.type = "beat"
      <3>1. Script(q[1])
        BY <1>1, <2>3 DEF Script
      <3>2. q[1].index < q[k + 1].index
        BY <2>1, <3>1 DEF InOrder
      <3> QED
        BY <1>1, <2>1, <2>3, <3>2
    <2> QED
      BY <1>5, <2>2, <2>3
  <1>12. ASSUME NEW n \in Int, Before(q, n), ShownBefore(t, n)
         PROVE  Before(w, n) /\ ShownBefore(u, n)
    <2>1. Script(f) => f.index < n
      BY <1>1, <1>12 DEF Before
    <2>2. ShownBefore(u, n)
      BY <1>5, <1>12, <2>1 DEF ShownBefore, Script
    <2> QED
      BY <1>9, <1>12, <2>2
  <1>13. f.type = "mission_complete" => Tells(q)
    BY <1>1 DEF Tells
  <1>14. Len(w) <= Len(q)
    BY <1>1, <1>2
  <1> QED
    BY <1>1, <1>2, <1>5, <1>9, <1>10, <1>11, <1>12, <1>13, <1>14 DEF f, u, w

(* Only a completion turns a page's phase to complete.                     *)
LEMMA PhaseAfterIs ==
  ASSUME NEW f \in Frame, NEW p \in Phases
  PROVE  /\ PhaseAfter(f, p) \in Phases
         /\ PhaseAfter(f, p) = "complete" => f.type = "mission_complete" \/ p = "complete"
  <1>1. Broken(p) \in Phases /\ (Broken(p) = "complete" => p = "complete")
    BY DEF Broken, Phases
  <1>2. CASE f.type \in {"mission_started", "beat"}
    BY <1>2 DEF PhaseAfter, Phases
  <1>3. CASE f.type = "mission_complete"
    BY <1>3 DEF PhaseAfter, Phases
  <1>4. CASE f.type = "mission_failed"
    BY <1>4 DEF PhaseAfter, Phases
  <1>5. CASE f.type = "mission_aborted"
    BY <1>5 DEF PhaseAfter, Phases
  <1>6. CASE f.type = "close"
    BY <1>1, <1>6 DEF PhaseAfter
  <1>7. CASE f.type = "world_snapshot"
    BY <1>7 DEF PhaseAfter
  <1>8. f.type = "beat" \/ f.type \in Marks
    BY DEF Frame
  <1> QED
    BY <1>2, <1>3, <1>4, <1>5, <1>6, <1>7, <1>8 DEF Marks

(* The hook applies a frame.                                               *)
LEMMA ReceiveKeeps ==
  ASSUME StreamInv, BeatTypes, NEW c \in Clients, Receive(c), UNCHANGED mission
  PROVE  StreamInv' /\ (NewsConfirmed => NewsConfirmed')
  <1>1. ClientTypes /\ ClientInv(c)
    BY StreamInvByClient
  <1> DEFINE q == queue[c]
             t == timeline[c]
             f == Head(q)
             u == Shown(t, f)
             p == PhaseAfter(f, phase[c])
             h == heard[c] + (IF f.type = "beat" THEN 1 ELSE 0)
  <1>2. /\ c \in connected /\ q # <<>> /\ q \in Seq(Frame) /\ Len(q) <= QueueSize
        /\ t \in Seq(Player .. NumBeats - 1) /\ phase[c] \in Phases /\ heard[c] \in Nat
        /\ InOrder(q) /\ ShownInOrder(t) /\ Ahead(q, t) /\ watch[c] \in Runs
        /\ c \in registered => Before(q, beat[watch[c]]) /\ ShownBefore(t, beat[watch[c]])
    BY <1>1 DEF Receive, ClientTypes, ClientInv
  <1>3. /\ f \in Frame /\ Tail(q) \in Seq(Frame) /\ Len(Tail(q)) <= Len(q)
        /\ u \in Seq(Player .. NumBeats - 1)
        /\ InOrder(Tail(q)) /\ ShownInOrder(u) /\ Ahead(Tail(q), u)
        /\ \A n \in Int : Before(q, n) /\ ShownBefore(t, n) =>
             Before(Tail(q), n) /\ ShownBefore(u, n)
        /\ Tells(Tail(q)) => Tells(q)
        /\ f.type = "mission_complete" => Tells(q)
    BY <1>2, ShownKeeps
  <1>4. p \in Phases /\ (p = "complete" => f.type = "mission_complete" \/ phase[c] = "complete")
    BY <1>2, <1>3, PhaseAfterIs
  <1>5. h \in Nat
    BY <1>2
  <1>6. /\ phase' = [phase EXCEPT ![c] = p] /\ timeline' = [timeline EXCEPT ![c] = u]
        /\ heard' = [heard EXCEPT ![c] = h] /\ UNCHANGED <<replay, closed, watch>>
        /\ \/ /\ queue' = [queue EXCEPT ![c] = <<>>]
              /\ connected' = connected \ {c} /\ registered' = registered \ {c}
           \/ /\ queue' = [queue EXCEPT ![c] = Tail(q)]
              /\ connected' = connected /\ registered' = registered
    BY DEF Receive, Disconnect
  <1>7. beat' = beat /\ disk' = disk /\ watch' = watch
    BY <1>6 DEF mission
  <1> HIDE DEF u, p, h, f, t
  <1>8. ClientTypes'
    <2>1. queue' \in [Clients -> Seq(Frame)]
      <3>1. <<>> \in Seq(Frame)
        OBVIOUS
      <3> QED
        BY <1>1, <1>3, <1>6, <3>1 DEF ClientTypes
    <2>2. timeline' \in [Clients -> Seq(Player .. NumBeats - 1)]
      BY <1>1, <1>3, <1>6 DEF ClientTypes
    <2>3. phase' \in [Clients -> Phases]
      BY <1>1, <1>4, <1>6 DEF ClientTypes
    <2>4. heard' \in [Clients -> Nat]
      BY <1>1, <1>5, <1>6 DEF ClientTypes
    <2>5. registered' \subseteq connected' /\ connected' \subseteq Clients
      BY <1>1, <1>6 DEF ClientTypes
    <2>6. watch' \in [Clients -> Runs \cup {None}]
      BY <1>1, <1>7 DEF ClientTypes
    <2> QED
      BY <2>1, <2>2, <2>3, <2>4, <2>5, <2>6 DEF ClientTypes
  <1>9. timeline'[c] = u /\ phase'[c] = p
    BY <1>1, <1>6 DEF ClientTypes
  <1>10. \/ queue'[c] = <<>> /\ c \notin connected' /\ c \notin registered'
         \/ /\ queue'[c] = Tail(q) /\ c \in connected'
            /\ c \in registered' <=> c \in registered
    BY <1>1, <1>2, <1>6 DEF ClientTypes
  <1>11. /\ Len(<<>>) <= QueueSize /\ InOrder(<<>>) /\ Ahead(<<>>, u) /\ ~Tells(<<>>)
    BY StreamAssumption DEF InOrder, Ahead, Tells
  <1>12. ClientInv(c)'
    <2>1. CASE queue'[c] = <<>> /\ c \notin connected' /\ c \notin registered'
      BY <1>3, <1>9, <1>11, <2>1 DEF ClientInv
    <2>2. CASE /\ queue'[c] = Tail(q) /\ c \in connected'
               /\ c \in registered' <=> c \in registered
      <3>1. Len(Tail(q)) <= QueueSize
        <4>1. Len(q) \in Nat /\ Len(Tail(q)) \in Nat /\ QueueSize \in Nat
          BY <1>2, <1>3, StreamAssumption, LenProperties
        <4> QED
          BY <1>2, <1>3, <4>1
      <3>2. c \in registered => /\ Before(Tail(q), beat[watch[c]])
                                /\ ShownBefore(u, beat[watch[c]])
        <4>1. beat[watch[c]] \in Int
          BY <1>2, StreamAssumption DEF BeatTypes
        <4> QED
          BY <1>2, <1>3, <4>1
      <3> QED
        BY <1>2, <1>3, <1>7, <1>9, <2>2, <3>1, <3>2 DEF ClientInv
    <2> QED
      BY <1>10, <2>1, <2>2
  <1>13. Alone(c)
    <2>1. \A d \in Clients \ {c} :
            /\ queue'[d] = queue[d] /\ timeline'[d] = timeline[d] /\ watch'[d] = watch[d]
            /\ phase'[d] = phase[d]
      BY <1>1, <1>6, <1>7 DEF ClientTypes
    <2>2. \A d \in Clients \ {c} : /\ d \in connected' <=> d \in connected
                                   /\ d \in registered' <=> d \in registered
      BY <1>6
    <2> QED
      BY <1>6, <2>1, <2>2 DEF Alone
  <1>14. NewsConfirmed => ClientNews(c)'
    <2>1. Tells(queue'[c]) \/ phase'[c] = "complete" => Tells(q) \/ phase[c] = "complete"
      BY <1>3, <1>4, <1>9, <1>10, <1>11
    <2> QED
      BY <1>7, <2>1 DEF ClientNews, NewsConfirmed, Confirmed
  <1> QED
    BY <1>8, <1>12, <1>13, <1>14, AloneKeeps

(* The page is left.                                                       *)
LEMMA LeaveKeeps ==
  ASSUME StreamInv, BeatTypes, NEW c \in Clients, Leave(c), UNCHANGED mission
  PROVE  StreamInv' /\ (NewsConfirmed => NewsConfirmed')
  <1>1. ClientTypes
    BY StreamInvByClient
  <1>2. /\ queue' = [queue EXCEPT ![c] = <<>>] /\ watch' = [watch EXCEPT ![c] = None]
        /\ phase' = [phase EXCEPT ![c] = "idle"] /\ timeline' = [timeline EXCEPT ![c] = <<>>]
        /\ heard' = [heard EXCEPT ![c] = 0]
        /\ connected' = connected \ {c} /\ registered' = registered \ {c}
        /\ UNCHANGED <<replay, closed>>
    BY DEF Leave, Disconnect
  <1>3. ClientTypes'
    <2>1. "idle" \in Phases
      BY DEF Phases
    <2>2. queue' \in [Clients -> Seq(Frame)] /\ timeline' \in [Clients -> Seq(Player .. NumBeats - 1)]
      BY <1>1, <1>2 DEF ClientTypes
    <2> QED
      BY <1>1, <1>2, <2>1, <2>2 DEF ClientTypes
  <1>4. /\ queue'[c] = <<>> /\ timeline'[c] = <<>> /\ phase'[c] = "idle"
        /\ c \notin connected' /\ c \notin registered'
    BY <1>1, <1>2 DEF ClientTypes
  <1>5. ClientInv(c)' /\ ClientNews(c)'
    BY <1>4, StreamAssumption DEF ClientInv, ClientNews, InOrder, ShownInOrder, Ahead, Tells
  <1>6. Alone(c)
    <2>1. \A d \in Clients \ {c} :
            /\ queue'[d] = queue[d] /\ timeline'[d] = timeline[d] /\ watch'[d] = watch[d]
            /\ phase'[d] = phase[d]
      BY <1>1, <1>2 DEF ClientTypes
    <2>2. \A d \in Clients \ {c} : /\ d \in connected' <=> d \in connected
                                   /\ d \in registered' <=> d \in registered
      BY <1>2
    <2> QED
      BY <1>2, <2>1, <2>2 DEF Alone
  <1> QED
    BY <1>3, <1>5, <1>6, AloneKeeps

(* The server stops.                                                       *)
LEMMA LossKeeps ==
  ASSUME StreamInv, StreamLost, beat' \in [Runs -> 0 .. NumBeats]
  PROVE  /\ StreamInv'
         /\ \A r \in Runs : PlayerBeats(r)' = 0
         /\ NewsConfirmed /\ (\A r \in Runs : Confirmed(r) => Confirmed(r)') => NewsConfirmed'
  <1>1. /\ replay' = [r \in Runs |-> <<>>] /\ queue' = [c \in Clients |-> <<>>]
        /\ closed' = {} /\ registered' = {} /\ connected' = {}
        /\ phase' = [c \in Clients |-> IF c \in connected THEN Broken(phase[c]) ELSE phase[c]]
        /\ watch' = watch /\ timeline' = timeline /\ heard' = heard
    BY DEF StreamLost, NewHub
  <1>2. \A c \in Clients : /\ phase'[c] \in Phases
                           /\ phase'[c] = "complete" => phase[c] = "complete"
    BY <1>1 DEF StreamInv, StreamTypeOK, Broken, Phases
  <1>3. /\ <<>> \in Seq(Frame) /\ Len(<<>>) = 0 /\ InOrder(<<>>) /\ ~Tells(<<>>)
        /\ \A n : Before(<<>>, n)
    BY DEF InOrder, Tells, Before
  <1>4. StreamTypeOK'
    <2>1. phase' \in [Clients -> Phases]
      BY <1>1, <1>2
    <2>2. /\ replay' \in [Runs -> Seq(Frame)] /\ queue' \in [Clients -> Seq(Frame)]
          /\ \A r \in Runs : Len(replay'[r]) <= ReplaySize
          /\ \A c \in Clients : Len(queue'[c]) <= QueueSize
      BY <1>1, <1>3, StreamAssumption
    <2> QED
      BY <1>1, <2>1, <2>2 DEF StreamTypeOK, StreamInv
  <1>5. Watching'
    BY <1>1 DEF Watching
  <1>6. FeedsInOrder'
    BY <1>1, <1>3 DEF FeedsInOrder, StreamInv
  <1>7. \A r \in Runs : PlayerBeats(r)' = 0
    <2>1. ASSUME NEW r \in Runs
          PROVE  PlayerBeats(r)' = Cardinality({})
      <3>1. replay'[r] = <<>>
        BY <1>1
      <3>2. {k \in DOMAIN replay'[r] : replay'[r][k] = Beat(Player)} = {}
        BY <3>1
      <3> QED
        BY <3>2 DEF PlayerBeats
    <2> QED
      BY <2>1, FS_EmptySet
  <1>8. ASSUME NewsConfirmed, \A r \in Runs : Confirmed(r) => Confirmed(r)'
        PROVE  NewsConfirmed'
    <2>1. \A r \in Runs : ~Tells(replay'[r])
      BY <1>1, <1>3
    <2>2. \A c \in Clients : ~Tells(queue'[c])
      BY <1>1, <1>3
    <2>3. ASSUME NEW c \in Clients, phase'[c] = "complete"
          PROVE  watch'[c] \in Runs /\ Confirmed(watch[c])'
      <3>1. phase[c] = "complete" /\ watch'[c] = watch[c]
        BY <1>1, <1>2, <2>3
      <3>2. watch[c] \in Runs /\ Confirmed(watch[c])
        BY <1>8, <3>1 DEF NewsConfirmed
      <3>3. watch[c] \in Runs /\ disk'[watch[c]] # None /\ disk'[watch[c]].status = "complete"
        BY <1>8, <3>2 DEF Confirmed
      <3> QED
        BY <1>1, <3>3 DEF Confirmed
    <2> QED
      BY <2>1, <2>2, <2>3 DEF NewsConfirmed
  <1> QED
    BY <1>4, <1>5, <1>6, <1>7, <1>8 DEF StreamInv

(* The hub and the pages as they start.                                    *)
LEMMA StreamStarts ==
  ASSUME StreamInit, beat = [r \in Runs |-> 0]
  PROVE  StreamInv /\ BeatTypes /\ NewsConfirmed /\ \A r \in Runs : replay[r] = <<>>
  <1>1. /\ replay = [r \in Runs |-> <<>>] /\ queue = [c \in Clients |-> <<>>]
        /\ closed = {} /\ registered = {} /\ connected = {}
        /\ watch = [c \in Clients |-> None] /\ phase = [c \in Clients |-> "idle"]
        /\ timeline = [c \in Clients |-> <<>>] /\ heard = [c \in Clients |-> 0]
    BY DEF StreamInit, NewHub
  <1>2. /\ <<>> \in Seq(Frame) /\ <<>> \in Seq(Player .. NumBeats - 1) /\ Len(<<>>) = 0
        /\ InOrder(<<>>) /\ ShownInOrder(<<>>) /\ ~Tells(<<>>) /\ \A n : Before(<<>>, n)
    BY DEF InOrder, ShownInOrder, Tells, Before
  <1>3. BeatTypes
    BY StreamAssumption DEF BeatTypes
  <1>4. StreamTypeOK
    <2>1. /\ replay \in [Runs -> Seq(Frame)] /\ queue \in [Clients -> Seq(Frame)]
          /\ timeline \in [Clients -> Seq(Player .. NumBeats - 1)]
          /\ \A r \in Runs : Len(replay[r]) <= ReplaySize
          /\ \A c \in Clients : Len(queue[c]) <= QueueSize
      BY <1>1, <1>2, StreamAssumption
    <2> QED
      BY <1>1, <2>1 DEF StreamTypeOK, Phases
  <1>5. Watching
    BY <1>1 DEF Watching
  <1>6. FeedsInOrder
    BY <1>1, <1>2 DEF FeedsInOrder
  <1>7. NewsConfirmed
    BY <1>1, <1>2 DEF NewsConfirmed
  <1> QED
    BY <1>1, <1>3, <1>4, <1>5, <1>6, <1>7 DEF StreamInv

-----------------------------------------------------------------------------
(* Runs and rows                                                           *)

(* A run that is there stays there, and only grows older.                  *)
Older(r) == /\ run'[r] # None
            /\ run'[r].partner = run[r].partner
            /\ run[r].commands <= run'[r].commands
            /\ run[r].scored => run'[r].scored
            /\ run[r].status \in Ended => run'[r].status = run[r].status
Ages == \A r \in Runs : run[r] # None => Older(r)

(* A row that is written was being put, and what is put is the run as it   *)
(* has become.                                                             *)
RowsMove ==
  /\ \A r \in Runs : disk'[r] # None =>
       \/ disk'[r] = disk[r]
       \/ \E a \in Actors : /\ writing[a] # None /\ writing[a].id = r
                            /\ disk'[r] = writing[a].row
  /\ \A a \in Actors : writing'[a] # None =>
       \/ writing'[a] = writing[a]
       \/ writing'[a].row = run'[writing'[a].id]

(* Who puts with which operation.                                          *)
Fits(a) ==
  writing[a] # None =>
    /\ writing[a].op = "coop_red" =>
         /\ a # EventLoop /\ writing[a].row.partner \in Runs
         /\ run[writing[a].row.partner] # None
    /\ writing[a].op \notin {"coop_red", "coop_blue", "score"} => a = EventLoop
Mutual ==
  \A r \in Runs :
    run[r] # None /\ run[r].partner # None /\ run[run[r].partner] # None
      => run[run[r].partner].partner = r

(* The parts of Pairs.                                                     *)
LEMMA PairsParts ==
  Pairs <=> /\ \A r \in Runs : disk[r] # None => Kept(disk[r], r)
            /\ \A a \in Actors : writing[a] # None => Kept(writing[a].row, writing[a].id)
            /\ \A a \in Actors : Fits(a)
            /\ Mutual
  BY DEF Pairs, Fits, Mutual

(* A run, a row and a write in flight have the fields of a run.            *)
LEMMA RunTypes ==
  ASSUME MissionTypes
  PROVE  /\ \A r \in Runs : run[r] # None => run[r] \in Run
         /\ \A r \in Runs : disk[r] # None => disk[r] \in Run
         /\ \A a \in Actors : writing[a] # None =>
              /\ writing[a] \in Put /\ writing[a].op \in Ops
              /\ writing[a].id \in Runs /\ writing[a].row \in Run
  BY DEF MissionTypes, Put

(* The fields of a run.                                                    *)
LEMMA RunFields ==
  ASSUME NEW row \in Run
  PROVE  /\ row.perspective \in {"red", "blue"} /\ row.status \in Status
         /\ row.partner \in Runs \cup {None}
         /\ row.commands \in 0 .. MaxCommands /\ row.commands \in Int /\ row.commands >= 0
         /\ row.scored \in BOOLEAN /\ row # None
  BY RuntimeAssumption, NoneAssumption DEF Run

(* What was true of a run is true of it when it is older.                  *)
LEMMA TrueStaysTrue ==
  ASSUME MissionTypes, MissionTypes', Ages, NEW r \in Runs, NEW row \in Run,
         TrueOf(row, r), Kept(row, r)
  PROVE  TrueOf(row, r)' /\ Kept(row, r)'
  <1>1. Older(r)
    BY DEF Ages, Kept
  <1>2. run[r] \in Run /\ run'[r] \in Run
    BY <1>1, RunTypes DEF Kept, MissionTypes, Older
  <1>3. run[r].commands \in Int /\ run'[r].commands \in Int /\ row.commands \in Int
    BY <1>2, RunFields
  <1> QED
    BY <1>1, <1>3 DEF TrueOf, Kept, Older

(* Rows and partners keep, when runs only age and rows are what was put.   *)
LEMMA RowsKeep ==
  ASSUME MissionTypes, MissionTypes', RowsLagRuns, Pairs, Ages, RowsMove,
         \A a \in Actors : Fits(a)', Mutual'
  PROVE  RowsLagRuns' /\ Pairs'
  <1> USE PairsParts
  <1>1. \A r \in Runs : disk[r] # None => /\ disk[r] \in Run
                                         /\ TrueOf(disk[r], r) /\ Kept(disk[r], r)
    BY RunTypes DEF RowsLagRuns
  <1>2. \A a \in Actors : writing[a] # None =>
          /\ writing[a].id \in Runs /\ writing[a].row \in Run
          /\ TrueOf(writing[a].row, writing[a].id) /\ Kept(writing[a].row, writing[a].id)
    BY RunTypes DEF RowsLagRuns
  <1>3. ASSUME NEW r \in Runs, disk'[r] # None
        PROVE  TrueOf(disk[r], r)' /\ Kept(disk[r], r)'
    <2>1. \E row \in Run : row = disk'[r] /\ TrueOf(row, r) /\ Kept(row, r)
      BY <1>1, <1>2, <1>3 DEF RowsMove
    <2>2. PICK row \in Run : row = disk'[r] /\ TrueOf(row, r) /\ Kept(row, r)
      BY <2>1
    <2>3. TrueOf(row, r)' /\ Kept(row, r)'
      BY <2>2, TrueStaysTrue
    <2> QED
      BY <2>2, <2>3 DEF TrueOf, Kept
  <1>4. ASSUME NEW a \in Actors, writing'[a] # None
        PROVE  TrueOf(writing[a].row, writing[a].id)' /\ Kept(writing[a].row, writing[a].id)'
    <2> DEFINE id == writing'[a].id
    <2>1. id \in Runs /\ writing'[a].row \in Run
      BY <1>4 DEF MissionTypes, Put
    <2>2. CASE writing'[a] = writing[a]
      <3>1. /\ id \in Runs /\ writing[a].row \in Run /\ writing[a].id = id
            /\ TrueOf(writing[a].row, id) /\ Kept(writing[a].row, id)
        BY <1>2, <1>4, <2>2
      <3>2. PICK row \in Run : row = writing[a].row
        BY <3>1
      <3>3. PICK r \in Runs : r = id
        BY <3>1
      <3>4. TrueOf(row, r)' /\ Kept(row, r)'
        BY <3>1, <3>2, <3>3, TrueStaysTrue
      <3> QED
        BY <2>2, <3>2, <3>3, <3>4 DEF TrueOf, Kept
    <2>3. CASE writing'[a].row = run'[id]
      <3>1. run'[id] \in Run /\ run'[id] # None /\ run'[id].commands \in Int
        BY <2>1, <2>3, RunFields
      <3> QED
        BY <2>1, <2>3, <3>1 DEF TrueOf, Kept
    <2> QED
      BY <1>4, <2>2, <2>3 DEF RowsMove
  <1>5. RowsLagRuns'
    BY <1>3, <1>4 DEF RowsLagRuns
  <1>6. Pairs'
    BY <1>3, <1>4 DEF Pairs, Fits, Mutual
  <1> QED
    BY <1>5, <1>6

(* put() of a run that is new and alone, or of the run grown older.        *)
OtherTypes ==
  /\ disk \in [Runs -> Run \cup {None}]
  /\ task \in [Runs -> {"none", "queued", "sleeping"}]
  /\ beat \in [Runs -> 0 .. NumBeats]
  /\ stopping \in BOOLEAN
  /\ faults \in 0..MaxFaults /\ restarts \in 0..MaxRestarts
Grown(r, row) ==
  /\ run[r] # None
  /\ row.partner = run[r].partner /\ run[r].commands <= row.commands
  /\ run[r].scored => row.scored
  /\ run[r].status \in Ended => row.status = run[r].status
AloneNew(r, row) == Fresh(r) /\ row.partner = None

(* MissionStore.put of a run that has grown, or is new: what it keeps.     *)
LEMMA PutKeeps ==
  ASSUME MissionTypes, RowsLagRuns, Pairs, NEW a \in Actors, NEW r \in Runs,
         NEW row \in Run, NEW op \in Ops \ {"coop_red", "coop_blue"},
         writing[a] = None, op # "score" => a = EventLoop,
         Grown(r, row) \/ AloneNew(r, row),
         PutRun(a, r, row, op), OtherTypes', UNCHANGED disk
  PROVE  MissionTypes' /\ Ages /\ RowsLagRuns' /\ Pairs'
  <1> USE PairsParts
  <1> DEFINE put == [op |-> op, id |-> r, row |-> row]
  <1>1. put \in Put /\ put # None /\ row # None /\ r # None
    <2>1. put \in Put
      BY DEF Put
    <2> QED
      BY <2>1, NoneAssumption, StreamAssumption
  <1>2. put.op = op /\ put.id = r /\ put.row = row
    OBVIOUS
  <1>3. run' = [run EXCEPT ![r] = row] /\ listed' = listed \cup {r}
        /\ writing' = [writing EXCEPT ![a] = put]
    BY DEF PutRun
  <1> HIDE DEF put
  <1>4. run' \in [Runs -> Run \cup {None}] /\ writing' \in [Actors -> Put \cup {None}]
    BY <1>1, <1>3 DEF MissionTypes
  <1>5. /\ run'[r] = row /\ \A x \in Runs \ {r} : run'[x] = run[x]
        /\ writing'[a] = put /\ \A b \in Actors \ {a} : writing'[b] = writing[b]
    BY <1>3 DEF MissionTypes
  <1>6. MissionTypes'
    <2>1. listed' \subseteq {x \in Runs : run'[x] # None}
      BY <1>1, <1>3, <1>5 DEF MissionTypes
    <2> QED
      BY <1>4, <2>1 DEF MissionTypes, OtherTypes
  <1>7. ASSUME NEW x \in Runs, run[x] # None
        PROVE  Older(x)
    <2>1. CASE x = r
      BY <1>1, <1>5, <1>7, <2>1 DEF Older, Grown, AloneNew, Fresh
    <2>2. CASE x # r
      <3>1. run[x].commands \in Int
        BY <1>7, RunTypes, RunFields
      <3> QED
        BY <1>5, <1>7, <2>2, <3>1 DEF Older
    <2> QED
      BY <2>1, <2>2
  <1>8. Ages
    BY <1>7 DEF Ages
  <1>9. RowsMove
    BY <1>2, <1>5 DEF RowsMove
  <1>10. ASSUME NEW b \in Actors
         PROVE  Fits(b)'
    <2>1. CASE b = a
      BY <1>2, <1>5, <2>1 DEF Fits
    <2>2. CASE b # a
      <3>1. writing'[b] = writing[b]
        BY <1>5, <2>2
      <3>2. Fits(b)
        OBVIOUS
      <3>3. \A x \in Runs : run[x] # None => run'[x] # None
        BY <1>1, <1>5
      <3> QED
        BY <3>1, <3>2, <3>3 DEF Fits
    <2> QED
      BY <2>1, <2>2
  <1>11. Mutual'
    <2> SUFFICES ASSUME NEW x \in Runs, run'[x] # None, run'[x].partner # None,
                        run'[run'[x].partner] # None
                 PROVE  run'[run'[x].partner].partner = x
      BY DEF Mutual
    <2> DEFINE y == run'[x].partner
    <2>1. y \in Runs
      <3>1. run'[x] \in Run
        BY <1>4
      <3> QED
        BY <3>1, RunFields
    <2> HIDE DEF y
    <2>2. CASE AloneNew(r, row)
      <3>1. x # r /\ run'[x] = run[x]
        BY <1>5, <2>2 DEF AloneNew
      <3>2. y # r
        BY <2>2, <3>1 DEF AloneNew, Fresh, y
      <3> QED
        BY <1>5, <2>1, <3>1, <3>2 DEF Mutual, y
    <2>3. CASE Grown(r, row)
      <3>1. \A z \in Runs : run'[z] # None => run[z] # None /\ run'[z].partner = run[z].partner
        BY <1>5, <2>3 DEF Grown
      <3> QED
        BY <2>1, <3>1 DEF Mutual, y
    <2> QED
      BY <2>2, <2>3
  <1>12. \A b \in Actors : Fits(b)'
    BY <1>10
  <1>13. RowsLagRuns' /\ Pairs'
    BY <1>6, <1>8, <1>9, <1>11, <1>12, RowsKeep
  <1> QED
    BY <1>6, <1>8, <1>13

-----------------------------------------------------------------------------
(* Beats and commands                                                      *)

CountsOf ==
  \A r \in Runs : /\ PlayerBeats(r) \in Nat /\ Owed(r) \in 0 .. 1
                  /\ replay[r] = <<>> => PlayerBeats(r) = 0
                  /\ CommandsOf(r) \in Nat
(* What is counted of a run and of its feed is a number.                   *)
LEMMA CountTypes == StreamInv /\ MissionTypes => CountsOf
  <1> SUFFICES ASSUME StreamInv, MissionTypes, NEW r \in Runs
               PROVE  /\ PlayerBeats(r) \in Nat /\ Owed(r) \in 0 .. 1
                      /\ (replay[r] = <<>> => PlayerBeats(r) = 0)
                      /\ CommandsOf(r) \in Nat
    BY DEF CountsOf
  <1>1. PlayerBeats(r) = Cardinality(ByPlayer(replay[r]))
    BY DEF PlayerBeats, ByPlayer
  <1>2. replay[r] \in Seq(Frame)
    BY DEF StreamInv, StreamTypeOK
  <1>3. PlayerBeats(r) \in Nat
    BY <1>1, <1>2, PartKeeps, WholeIsPart, FS_CardinalityType
  <1>4. replay[r] = <<>> => PlayerBeats(r) = 0
    <2>1. replay[r] = <<>> => ByPlayer(replay[r]) = {}
      BY DEF ByPlayer
    <2> QED
      BY <1>1, <2>1, FS_EmptySet
  <1>5. CommandsOf(r) \in Nat
    <2>1. run[r] # None => run[r].commands \in Int /\ run[r].commands >= 0
      BY RunTypes, RunFields
    <2> QED
      BY <2>1 DEF CommandsOf
  <1> QED
    BY <1>3, <1>4, <1>5 DEF Owed

(* What runs have heard of commands is not more than before.               *)
Quieter(r) ==
  \/ PlayerBeats(r)' + Owed(r)' = 0
  \/ run[r] # None /\ PlayerBeats(r)' + Owed(r)' <= PlayerBeats(r) + Owed(r)

(* The commands of runs that age are not fewer.                            *)
LEMMA CommandsGrow ==
  ASSUME MissionTypes, MissionTypes', Ages
  PROVE  \A r \in Runs \cup {None} :
           /\ CommandsOf(r) \in Nat /\ CommandsOf(r)' \in Nat
           /\ CommandsOf(r) <= CommandsOf(r)'
  <1> SUFFICES ASSUME NEW r \in Runs \cup {None}
               PROVE  /\ CommandsOf(r) \in Nat /\ CommandsOf(r)' \in Nat
                      /\ CommandsOf(r) <= CommandsOf(r)'
    OBVIOUS
  <1>1. CASE r = None
    BY <1>1 DEF CommandsOf
  <1>2. CASE r \in Runs
    <2>1. /\ run[r] # None => run[r].commands \in Int /\ run[r].commands >= 0
          /\ run'[r] # None => run'[r].commands \in Int /\ run'[r].commands >= 0
      <3>1. run'[r] # None => run'[r] \in Run
        BY <1>2 DEF MissionTypes
      <3> QED
        BY <1>2, <3>1, RunTypes, RunFields
    <2>2. run[r] # None => run'[r] # None /\ run[r].commands <= run'[r].commands
      BY <1>2 DEF Ages, Older
    <2> QED
      BY <1>2, <2>1, <2>2, StreamAssumption DEF CommandsOf
  <1> QED
    BY <1>1, <1>2

(* Player's beats stay paid for while no feed outgrows its commands.       *)
LEMMA BeatsKeep ==
  ASSUME StreamInv, StreamInv', MissionTypes, MissionTypes', Ages, BeatsPaid,
         \A r \in Runs : run'[r] # None => Quieter(r)
  PROVE  BeatsPaid'
  <1> SUFFICES ASSUME NEW r \in Runs, run'[r] # None
               PROVE  PlayerBeats(r)' + Owed(r)'
                        <= CommandsOf(r)' + CommandsOf(run[r].partner)'
    BY DEF BeatsPaid
  <1>1. /\ PlayerBeats(r) \in Nat /\ Owed(r) \in Nat
        /\ PlayerBeats(r)' \in Nat /\ Owed(r)' \in Nat
    <2>1. PlayerBeats(r) \in Nat /\ Owed(r) \in Nat
      BY CountTypes DEF CountsOf
    <2>2. CountsOf'
      BY CountTypes, PTL
    <2>3. PlayerBeats(r)' \in Nat /\ Owed(r)' \in Nat
      BY <2>2 DEF CountsOf
    <2> QED
      BY <2>1, <2>3
  <1>2. r \in Runs \cup {None} /\ run'[r].partner \in Runs \cup {None}
    BY RunFields DEF MissionTypes
  <1> DEFINE p == run'[r].partner
  <1>3. p \in Runs \cup {None}
    BY <1>2
  <1> HIDE DEF p
  <1>4. PICK q \in Runs \cup {None} : q = p
    BY <1>3
  <1>5. /\ CommandsOf(r) \in Nat /\ CommandsOf(r)' \in Nat /\ CommandsOf(r) <= CommandsOf(r)'
        /\ CommandsOf(q) \in Nat /\ CommandsOf(q)' \in Nat /\ CommandsOf(q) <= CommandsOf(q)'
    BY <1>2, CommandsGrow
  <1>6. CommandsOf(run[r].partner)' = CommandsOf(q)'
    BY <1>4 DEF CommandsOf, p
  <1>7. CASE PlayerBeats(r)' + Owed(r)' = 0
    BY <1>5, <1>6, <1>7
  <1>8. CASE run[r] # None /\ PlayerBeats(r)' + Owed(r)' <= PlayerBeats(r) + Owed(r)
    <2>1. run[r].partner = q
      BY <1>4, <1>8 DEF Ages, Older, p
    <2>2. PlayerBeats(r) + Owed(r) <= CommandsOf(r) + CommandsOf(q)
      BY <1>8, <2>1 DEF BeatsPaid
    <2> QED
      BY <1>1, <1>5, <1>6, <1>8, <2>2
  <1> QED
    BY <1>7, <1>8 DEF Quieter

-----------------------------------------------------------------------------
(* A put and what goes with it                                             *)

(* What the event loop and the threads put in one step.                    *)
Putting(a, r, row, op) ==
  /\ writing[a] = None /\ (op # "score" => a = EventLoop)
  /\ Grown(r, row) \/ (AloneNew(r, row) /\ op # "score")
  /\ PutRun(a, r, row, op) /\ OtherTypes' /\ UNCHANGED <<disk, task>>
  /\ op = "score" => row.status = run[r].status /\ beat' = beat
  /\ op = "player_beat" => run[r] # None /\ row.commands = run[r].commands + 1
  /\ op = "start" => row.status = "active" /\ beat'[r] = 0
  /\ op = "complete" => row.status = "complete"
  /\ \/ task[r] = "none"
     \/ op \in DOMAIN Outcome
     \/ run[r] # None /\ row.status = run[r].status /\ beat'[r] = beat[r]
(* ... what is published with it ...                                       *)
Beside(r) ==
  /\ \A x \in Runs : PlayerBeats(x)' <= PlayerBeats(x)
  /\ \A x \in Runs \ {r} : beat'[x] = beat[x]
  /\ \A x \in Runs : run[x] = None => beat'[x] = beat[x] /\ replay'[x] = replay[x]

(* MissionStore.put: the run it leaves, and the write it starts.           *)
LEMMA PutIs ==
  ASSUME MissionTypes, NEW a \in Actors, NEW r \in Runs, NEW row \in Run, NEW op \in Ops,
         PutRun(a, r, row, op)
  PROVE  /\ run'[r] = row /\ row # None /\ \A x \in Runs \ {r} : run'[x] = run[x]
         /\ writing'[a] # None /\ writing'[a].op = op /\ writing'[a].id = r
         /\ writing'[a].row = row
         /\ \A b \in Actors \ {a} : writing'[b] = writing[b]
  <1> DEFINE put == [op |-> op, id |-> r, row |-> row]
  <1>1. put.op = op /\ put.id = r /\ put.row = row /\ put # None
    <2>1. put \in Put
      BY DEF Put
    <2> QED
      BY <2>1, NoneAssumption
  <1>2. run' = [run EXCEPT ![r] = row] /\ writing' = [writing EXCEPT ![a] = put]
    BY DEF PutRun
  <1> HIDE DEF put
  <1> QED
    BY <1>1, <1>2, NoneAssumption DEF MissionTypes

(* The event loop is an actor and no thread.                               *)
LEMMA LoopIsActor == EventLoop \in Actors /\ \A t \in Threads : t \in Actors /\ t # EventLoop
  BY RuntimeAssumption DEF Actors

(* MissionStore.put leaves the schedule and the loop's write as they fit.  *)
LEMMA PutSchedules ==
  ASSUME RuntimeInv, NEW a \in Actors, NEW r \in Runs, NEW row \in Run,
         NEW op \in Ops \ {"coop_red", "coop_blue"}, Putting(a, r, row, op), Beside(r)
  PROVE  Scheduled' /\ LoopWrites' /\ NoGhosts'
  <1> USE LoopIsActor
  <1>1. /\ run'[r] = row /\ row # None /\ \A x \in Runs \ {r} : run'[x] = run[x]
        /\ writing'[a] # None /\ writing'[a].op = op /\ writing'[a].id = r
        /\ writing'[a].row = row
        /\ \A b \in Actors \ {a} : writing'[b] = writing[b]
    BY PutIs DEF RuntimeInv, Putting
  <1>2. task' = task /\ disk' = disk /\ writing[a] = None
    BY DEF Putting
  <1>3. Scheduled'
    <2> SUFFICES ASSUME NEW x \in Runs, task[x] # "none"
                 PROVE  /\ run'[x] # None
                        /\ \/ Settling(x)'
                           \/ run'[x].status = "active" /\ beat'[x] < NumBeats
      BY <1>2 DEF Scheduled
    <2>1. run[x] # None /\ (Settling(x) \/ (run[x].status = "active" /\ beat[x] < NumBeats))
      BY DEF RuntimeInv, Scheduled
    <2>2. a # EventLoop => (Settling(x) => Settling(x)')
      BY <1>1 DEF Settling, Loop
    <2>3. a = EventLoop => ~Settling(x)
      BY <1>2 DEF Settling, Loop
    <2>4. CASE x # r
      BY <1>1, <2>1, <2>2, <2>3, <2>4 DEF Beside
    <2>5. CASE x = r /\ op \in DOMAIN Outcome
      <3>1. op # "score"
        BY <2>5 DEF Outcome
      <3> QED
        BY <1>1, <2>5, <3>1 DEF Settling, Loop, Putting
    <2>6. CASE x = r /\ row.status = run[r].status /\ beat'[r] = beat[r]
      BY <1>1, <2>1, <2>2, <2>3, <2>6
    <2> QED
      BY <2>4, <2>5, <2>6 DEF Putting
  <1>4. LoopWrites'
    <2>1. CASE a = EventLoop
      BY <1>1, <2>1 DEF LoopWrites, Loop, Putting
    <2>2. CASE a # EventLoop
      <3>1. Loop' = Loop /\ op = "score"
        BY <1>1, <2>2 DEF Loop, Putting
      <3>2. SUFFICES ASSUME Loop # None
                     PROVE  /\ Loop.row.status = run'[Loop.id].status
                            /\ Loop.op = "start" =>
                                 Loop.row.status = "active" /\ beat'[Loop.id] = 0
                            /\ Loop.op = "complete" => Loop.row.status = "complete"
        BY <3>1 DEF LoopWrites
      <3>3. Loop.id \in Runs
        BY <3>2, RunTypes DEF Loop, RuntimeInv
      <3>4. /\ Loop.row.status = run[Loop.id].status
            /\ Loop.op = "start" => Loop.row.status = "active" /\ beat[Loop.id] = 0
            /\ Loop.op = "complete" => Loop.row.status = "complete"
        BY <3>2 DEF RuntimeInv, LoopWrites
      <3>5. run'[Loop.id].status = run[Loop.id].status
        BY <1>1, <3>1, <3>3 DEF Putting
      <3>6. Loop.op = "start" => beat'[Loop.id] = beat[Loop.id]
        BY <3>1 DEF Putting
      <3> QED
        BY <3>4, <3>5, <3>6
    <2> QED
      BY <2>1, <2>2
  <1>5. NoGhosts'
    <2> SUFFICES ASSUME NEW x \in Runs, run'[x] = None
                 PROVE  disk'[x] = None /\ beat'[x] = 0 /\ replay'[x] = <<>>
      BY DEF NoGhosts
    <2>1. run[x] = None
      BY <1>1
    <2> QED
      BY <1>2, <2>1 DEF Beside, RuntimeInv, NoGhosts
  <1> QED
    BY <1>3, <1>4, <1>5

(* MissionStore.put of an operation leaves the player's beats paid for.    *)
LEMMA PutPays ==
  ASSUME RuntimeInv, NEW a \in Actors, NEW r \in Runs, NEW row \in Run,
         NEW op \in Ops \ {"coop_red", "coop_blue"}, Putting(a, r, row, op), Beside(r),
         MissionTypes', Ages, StreamInv'
  PROVE  BeatsPaid'
  <1> USE LoopIsActor
  <1>1. /\ run'[r] = row /\ row # None /\ \A x \in Runs \ {r} : run'[x] = run[x]
        /\ writing'[a] # None /\ writing'[a].op = op /\ writing'[a].id = r
        /\ \A b \in Actors \ {a} : writing'[b] = writing[b]
    BY PutIs DEF RuntimeInv, Putting
  <1>2. CountsOf /\ CountsOf'
    BY CountTypes, PTL DEF RuntimeInv
  <1>3. \A x \in Runs : PlayerBeats(x)' <= PlayerBeats(x)
    BY DEF Beside
  <1>4. ASSUME NEW x \in Runs, run[x] = None
        PROVE  PlayerBeats(x)' = 0
    <2>1. replay'[x] = <<>>
      BY <1>4 DEF Beside, RuntimeInv, NoGhosts
    <2> QED
      BY <1>2, <2>1 DEF CountsOf
  <1>5. CASE a # EventLoop
    <2>1. Loop' = Loop /\ run[r] # None /\ row.partner = run[r].partner
      BY <1>1, <1>5 DEF Loop, Putting, Grown
    <2>2. \A x \in Runs : run'[x] # None => run[x] # None /\ run'[x].partner = run[x].partner
      BY <1>1, <2>1
    <2>3. \A x \in Runs : run'[x] # None => Owed(x)' = Owed(x)
      BY <2>1, <2>2 DEF Owed
    <2>4. \A x \in Runs : run'[x] # None => Quieter(x)
      BY <1>2, <1>3, <2>2, <2>3 DEF Quieter, CountsOf
    <2> QED
      BY <2>4, BeatsKeep DEF RuntimeInv
  <1>6. CASE a = EventLoop /\ op # "player_beat"
    <2>1. \A x \in Runs : Owed(x)' = 0
      BY <1>1, <1>6 DEF Owed, Loop
    <2>2. \A x \in Runs : Quieter(x)
      BY <1>2, <1>3, <1>4, <2>1 DEF Quieter, CountsOf
    <2> QED
      BY <2>2, BeatsKeep DEF RuntimeInv
  <1>7. CASE a = EventLoop /\ op = "player_beat"
    <2>1. /\ run[r] # None /\ row.commands = run[r].commands + 1
          /\ row.partner = run[r].partner
      BY <1>7 DEF Putting, Grown, AloneNew, Fresh
    <2>2. ASSUME NEW x \in Runs, run'[x] # None
          PROVE  PlayerBeats(x)' + Owed(x)' <= CommandsOf(x)' + CommandsOf(run[x].partner)'
      <3>1. run[x] # None /\ run'[x].partner = run[x].partner
        BY <1>1, <2>1, <2>2
      <3>2. PICK q \in Runs \cup {None} : q = run[x].partner
        BY <3>1, RunTypes, RunFields DEF RuntimeInv
      <3>3. /\ CommandsOf(x) \in Nat /\ CommandsOf(x)' \in Nat /\ CommandsOf(x) <= CommandsOf(x)'
            /\ CommandsOf(q) \in Nat /\ CommandsOf(q)' \in Nat /\ CommandsOf(q) <= CommandsOf(q)'
        BY CommandsGrow DEF RuntimeInv
      <3>4. CommandsOf(r)' = CommandsOf(r) + 1
        BY <1>1, <2>1, StreamAssumption DEF CommandsOf
      <3>5. Owed(x)' = 1 => x = r \/ q = r
        BY <1>1, <1>7, <3>1, <3>2 DEF Owed, Loop
      <3>6. Owed(x)' \in 0 .. 1 /\ Owed(x) \in 0 .. 1 /\ PlayerBeats(x) \in Nat /\ PlayerBeats(x)' \in Nat
        BY <1>2 DEF CountsOf
      <3>7. PlayerBeats(x) + Owed(x) <= CommandsOf(x) + CommandsOf(q)
        BY <3>1, <3>2 DEF RuntimeInv, BeatsPaid
      <3>8. CommandsOf(run[x].partner)' = CommandsOf(q)'
        BY <3>1, <3>2 DEF CommandsOf
      <3>9. PlayerBeats(x)' <= PlayerBeats(x)
        BY <1>3
      <3>10. Owed(x)' = 1 => CommandsOf(x) + CommandsOf(q) + 1 <= CommandsOf(x)' + CommandsOf(q)'
        BY <3>3, <3>4, <3>5
      <3> QED
        BY <3>3, <3>6, <3>7, <3>8, <3>9, <3>10
    <2> QED
      BY <2>2 DEF BeatsPaid
  <1> QED
    BY <1>5, <1>6, <1>7

(* What a put preserves, with what is published beside it.                 *)
LEMMA PuttingKeeps ==
  ASSUME RuntimeInv, NEW a \in Actors, NEW r \in Runs, NEW row \in Run,
         NEW op \in Ops \ {"coop_red", "coop_blue"}, Putting(a, r, row, op), Beside(r),
         StreamInv'
  PROVE  RuntimeInv'
  <1>1. Grown(r, row) \/ AloneNew(r, row)
    BY DEF Putting
  <1>2. MissionTypes' /\ Ages /\ RowsLagRuns' /\ Pairs'
    BY <1>1, PutKeeps DEF RuntimeInv, Putting
  <1>3. Scheduled' /\ LoopWrites' /\ NoGhosts'
    BY PutSchedules
  <1>4. BeatsPaid'
    BY <1>2, PutPays
  <1> QED
    BY <1>2, <1>3, <1>4 DEF RuntimeInv

-----------------------------------------------------------------------------
(* The actions that put without publishing                                 *)

(* Announcements stay confirmed as long as rows do not take back a         *)
(* completion.                                                             *)
NewsHeld ==
  NewsConfirmed /\ (\A r \in Runs : Confirmed(r) => Confirmed(r)') => NewsConfirmed'

(* What leaves the stream alone keeps all that is said of it.              *)
LEMMA StreamStays ==
  ASSUME StreamInv, UNCHANGED <<stream, beat>>
  PROVE  /\ StreamInv' /\ NewsHeld /\ (\A r \in Runs : PlayerBeats(r)' = PlayerBeats(r))
         /\ replay' = replay /\ beat' = beat
  <1>1. /\ replay' = replay /\ closed' = closed /\ registered' = registered /\ queue' = queue
        /\ connected' = connected /\ watch' = watch /\ phase' = phase
        /\ timeline' = timeline /\ heard' = heard /\ beat' = beat
    BY DEF stream, hub, page
  <1>2. StreamInv'
    BY <1>1 DEF StreamInv, StreamTypeOK, Watching, FeedsInOrder
  <1>3. ASSUME NewsConfirmed, \A r \in Runs : Confirmed(r) => Confirmed(r)'
        PROVE  NewsConfirmed'
    <2>1. \A r \in Runs : Tells(replay'[r]) => Confirmed(r)'
      BY <1>1, <1>3 DEF NewsConfirmed
    <2>2. ASSUME NEW c \in Clients, Tells(queue'[c]) \/ phase'[c] = "complete"
          PROVE  watch'[c] \in Runs /\ Confirmed(watch[c])'
      <3>1. watch[c] \in Runs /\ Confirmed(watch[c])
        BY <1>1, <1>3, <2>2 DEF NewsConfirmed
      <3>2. PICK r \in Runs : r = watch[c]
        BY <3>1
      <3>3. Confirmed(r)'
        BY <1>3, <3>1, <3>2
      <3> QED
        BY <1>1, <3>2, <3>3 DEF Confirmed
    <2> QED
      BY <2>1, <2>2 DEF NewsConfirmed
  <1>4. \A r \in Runs : PlayerBeats(r)' = PlayerBeats(r)
    BY <1>1 DEF PlayerBeats
  <1> QED
    BY <1>1, <1>2, <1>3, <1>4 DEF NewsHeld

(* A put that publishes nothing keeps the invariant.                       *)
LEMMA SilentPutKeeps ==
  ASSUME RuntimeInv, NEW a \in Actors, NEW r \in Runs, NEW row \in Run,
         NEW op \in Ops \ {"coop_red", "coop_blue"}, Putting(a, r, row, op),
         UNCHANGED <<stream, beat>>
  PROVE  RuntimeInv' /\ NewsHeld
  <1>1. /\ StreamInv' /\ NewsHeld /\ (\A x \in Runs : PlayerBeats(x)' = PlayerBeats(x))
        /\ replay' = replay /\ beat' = beat
    BY StreamStays DEF RuntimeInv
  <1>2. CountsOf
    BY CountTypes DEF RuntimeInv
  <1>3. Beside(r)
    BY <1>1, <1>2 DEF Beside, CountsOf
  <1> QED
    BY <1>1, <1>3, PuttingKeeps

(* The types that a put does not touch                                     *)
LEMMA OthersStay ==
  ASSUME RuntimeInv, UNCHANGED <<disk, task, beat, stopping, faults, restarts>>
  PROVE  OtherTypes'
  BY DEF RuntimeInv, MissionTypes, OtherTypes

(* No run that is not there has a task.                                    *)
LEMMA FreshHasNoTask ==
  ASSUME RuntimeInv, NEW r \in Runs, run[r] = None
  PROVE  task[r] = "none" /\ beat[r] = 0
  BY DEF RuntimeInv, Scheduled, NoGhosts, MissionTypes

(* The run that start_mission builds.                                      *)
LEMMA NewRunIs ==
  ASSUME NEW p \in {"red", "blue"}, NEW s \in Status
  PROVE  LET row == NewRun(p, s, None)
         IN  row \in Run /\ row.partner = None /\ row.status = s
  BY RuntimeAssumption DEF NewRun, Run

(* POST /missions in mode async keeps the invariant.                       *)
LEMMA StartAsyncKeeps ==
  ASSUME RuntimeInv, NEW r \in Runs, NEW p \in {"red", "blue"}, StartAsync(r, p)
  PROVE  RuntimeInv' /\ NewsHeld
  <1> DEFINE row == NewRun(p, "active", None)
  <1>1. row \in Run /\ row.partner = None /\ row.status = "active"
    BY NewRunIs DEF Status
  <1>2. /\ writing[EventLoop] = None /\ Fresh(r) /\ run[r] = None
        /\ PutRun(EventLoop, r, row, "start")
        /\ UNCHANGED <<stream, disk, task, beat, stopping, faults, restarts>>
    BY DEF StartAsync, Free, Fresh
  <1> HIDE DEF row
  <1>3. task[r] = "none" /\ beat[r] = 0
    BY <1>2, FreshHasNoTask
  <1>4. OtherTypes'
    BY <1>2, OthersStay
  <1>5. Putting(EventLoop, r, row, "start")
    BY <1>1, <1>2, <1>3, <1>4 DEF Putting, AloneNew
  <1>6. "start" \in Ops \ {"coop_red", "coop_blue"}
    BY DEF Ops
  <1> QED
    BY <1>1, <1>2, <1>5, <1>6, SilentPutKeeps, LoopIsActor

(* POST /missions in mode sync keeps the invariant.                        *)
LEMMA StartSyncKeeps ==
  ASSUME RuntimeInv, NEW r \in Runs, NEW p \in {"red", "blue"}, StartSync(r, p)
  PROVE  RuntimeInv' /\ NewsHeld
  <1> DEFINE s == IF p = "red" THEN "active" ELSE "complete"
             row == NewRun(p, s, None)
  <1>1. s \in Status
    BY DEF Status, Ended
  <1>2. /\ writing[EventLoop] = None /\ Fresh(r) /\ run[r] = None
        /\ PutRun(EventLoop, r, row, "sync")
        /\ UNCHANGED <<stream, disk, task, beat, stopping, faults, restarts>>
    BY DEF StartSync, Free, Fresh
  <1> HIDE DEF s
  <1>3. row \in Run /\ row.partner = None
    BY <1>1, NewRunIs
  <1> HIDE DEF row
  <1>4. task[r] = "none" /\ beat[r] = 0
    BY <1>2, FreshHasNoTask
  <1>5. OtherTypes'
    BY <1>2, OthersStay
  <1>6. Putting(EventLoop, r, row, "sync")
    BY <1>2, <1>3, <1>4, <1>5 DEF Putting, AloneNew
  <1>7. "sync" \in Ops \ {"coop_red", "coop_blue"}
    BY DEF Ops
  <1> QED
    BY <1>2, <1>3, <1>6, <1>7, SilentPutKeeps, LoopIsActor

(* A run that is listed is there.                                          *)
LEMMA ListedIsRun ==
  ASSUME RuntimeInv, NEW r \in listed
  PROVE  r \in Runs /\ run[r] # None /\ run[r] \in Run
  BY DEF RuntimeInv, MissionTypes

(* A command of the player keeps the invariant.                            *)
LEMMA CommandKeeps ==
  ASSUME RuntimeInv, NEW r \in Runs, NEW op \in {"command", "player_beat"}, Command(r, op)
  PROVE  RuntimeInv' /\ NewsHeld
  <1> DEFINE row == [run[r] EXCEPT !.commands = @ + 1]
  <1>1. /\ writing[EventLoop] = None /\ run[r] \in Run /\ run[r] # None
        /\ run[r].commands < MaxCommands
        /\ PutRun(EventLoop, r, row, op)
        /\ UNCHANGED <<stream, disk, task, beat, stopping, faults, restarts>>
    BY ListedIsRun DEF Command, Free
  <1>2. run[r].commands \in 0 .. MaxCommands
    BY <1>1, RunFields
  <1>3. run[r].commands + 1 \in 0 .. MaxCommands
    BY <1>1, <1>2, RuntimeAssumption
  <1>4. /\ row \in Run /\ row.commands = run[r].commands + 1 /\ row.partner = run[r].partner
        /\ row.status = run[r].status /\ row.scored = run[r].scored
    BY <1>1, <1>3 DEF Run
  <1> HIDE DEF row
  <1>5. OtherTypes'
    BY <1>1, OthersStay
  <1>6. Grown(r, row)
    BY <1>1, <1>2, <1>4 DEF Grown
  <1>7. Putting(EventLoop, r, row, op)
    BY <1>1, <1>4, <1>5, <1>6 DEF Putting
  <1>8. op \in Ops \ {"coop_red", "coop_blue"}
    BY DEF Ops
  <1> QED
    BY <1>1, <1>4, <1>7, <1>8, SilentPutKeeps, LoopIsActor

(* The report's score keeps the invariant.                                 *)
LEMMA ReportScoreKeeps ==
  ASSUME RuntimeInv, NEW t \in Threads, NEW r \in Runs, ReportScore(t, r)
  PROVE  RuntimeInv' /\ NewsHeld
  <1> DEFINE row == [run[r] EXCEPT !.scored = TRUE]
  <1>1. /\ writing[t] = None /\ run[r] \in Run /\ run[r] # None
        /\ PutRun(t, r, row, "score")
        /\ UNCHANGED <<stream, disk, task, beat, stopping, faults, restarts>>
    BY ListedIsRun DEF ReportScore, Free
  <1>2. /\ row \in Run /\ row.commands = run[r].commands /\ row.partner = run[r].partner
        /\ row.status = run[r].status /\ row.scored
    BY <1>1 DEF Run
  <1> HIDE DEF row
  <1>3. OtherTypes'
    BY <1>1, OthersStay
  <1>4. Grown(r, row)
    <2>1. run[r].commands \in Int
      BY <1>1, RunFields
    <2> QED
      BY <1>1, <1>2, <2>1 DEF Grown
  <1>5. Putting(t, r, row, "score")
    BY <1>1, <1>2, <1>3, <1>4 DEF Putting
  <1>6. "score" \in Ops \ {"coop_red", "coop_blue"}
    BY DEF Ops
  <1> QED
    BY <1>1, <1>2, <1>5, <1>6, SilentPutKeeps, LoopIsActor

(* A task ends without another word.                                       *)
LEMMA CancelKeeps ==
  ASSUME RuntimeInv, NEW r \in Runs, Cancel(r)
  PROVE  RuntimeInv' /\ NewsHeld
  <1>1. /\ writing[EventLoop] = None
        /\ UNCHANGED <<stream, disk, beat, stopping, faults, restarts>>
    BY DEF Cancel
  <1>2. CASE /\ task[r] = "sleeping" /\ UNCHANGED task
             /\ PutRun(EventLoop, r, [run[r] EXCEPT !.status = "aborted"], "abort")
    <2> DEFINE row == [run[r] EXCEPT !.status = "aborted"]
    <2>1. run[r] \in Run /\ run[r] # None /\ run[r].status = "active"
      BY <1>1, <1>2, RunTypes DEF RuntimeInv, Scheduled, Settling, Loop
    <2>2. "aborted" \in Status /\ "active" \notin Ended
      BY DEF Status, Ended
    <2>3. /\ row \in Run /\ row.commands = run[r].commands /\ row.partner = run[r].partner
          /\ row.scored = run[r].scored
      BY <2>1, <2>2 DEF Run
    <2> HIDE DEF row
    <2>4. OtherTypes'
      BY <1>1, <1>2, OthersStay
    <2>5. Grown(r, row)
      <3>1. run[r].commands \in Int
        BY <2>1, RunFields
      <3> QED
        BY <2>1, <2>2, <2>3, <3>1 DEF Grown
    <2>6. PutRun(EventLoop, r, row, "abort")
      BY <1>2 DEF row
    <2>7. "abort" \in DOMAIN Outcome /\ "abort" \in Ops \ {"coop_red", "coop_blue"}
      BY DEF Outcome, Ops
    <2>8. Putting(EventLoop, r, row, "abort")
      BY <1>1, <1>2, <2>4, <2>5, <2>6, <2>7 DEF Putting
    <2> QED
      BY <1>1, <2>3, <2>7, <2>8, SilentPutKeeps, LoopIsActor
  <1>3. CASE task[r] = "queued" /\ TaskDone(r) /\ UNCHANGED <<run, listed, writing>>
    <2>1. /\ StreamInv' /\ NewsHeld /\ (\A x \in Runs : PlayerBeats(x)' = PlayerBeats(x))
          /\ replay' = replay /\ beat' = beat
      BY <1>1, StreamStays DEF RuntimeInv
    <2>2. task' \in [Runs -> {"none", "queued", "sleeping"}]
          /\ \A x \in Runs : task'[x] # "none" => task'[x] = task[x]
      BY <1>3 DEF TaskDone, RuntimeInv, MissionTypes
    <2>3. MissionTypes'
      BY <1>1, <1>3, <2>2 DEF RuntimeInv, MissionTypes
    <2>4. /\ run' = run /\ disk' = disk /\ writing' = writing /\ beat' = beat /\ Loop' = Loop
      BY <1>1, <1>3 DEF Loop
    <2>5. Scheduled'
      BY <2>2, <2>4 DEF RuntimeInv, Scheduled, Settling
    <2>6. LoopWrites' /\ NoGhosts'
      BY <2>1, <2>4 DEF RuntimeInv, LoopWrites, NoGhosts
    <2>7. Pairs' /\ RowsLagRuns'
      BY <2>4 DEF RuntimeInv, Pairs, Kept, RowsLagRuns, TrueOf
    <2>8. BeatsPaid'
      BY <2>1, <2>4 DEF RuntimeInv, BeatsPaid, Owed, CommandsOf
    <2> QED
      BY <2>1, <2>3, <2>5, <2>6, <2>7, <2>8 DEF RuntimeInv
  <1> QED
    BY <1>2, <1>3 DEF Cancel

-----------------------------------------------------------------------------
(* The script                                                              *)

(* One run publishes: the feeds are kept, the other runs' are untouched.   *)
OneSpeaks(r, f) ==
  /\ Published(Only(r, f)) /\ UNCHANGED page
  /\ beat' \in [Runs -> 0 .. NumBeats] /\ beat[r] <= beat'[r]
  /\ \A x \in Runs \ {r} : beat'[x] = beat[x]
  /\ Due(f, beat[r], beat'[r]) /\ run[r] # None

(* One feed speaks: what its frames keep.                                  *)
LEMMA OneSpeaksKeeps ==
  ASSUME RuntimeInv, NEW r \in Runs, NEW f, OneSpeaks(r, f)
  PROVE  /\ StreamInv'
         /\ (Tells(f) => Confirmed(r)') => NewsHeld
         /\ ByPlayer(f) = {} => Beside(r)
  <1> DEFINE out == Only(r, f)
  <1>1. \A x \in Runs : out[x] = IF x = r THEN f ELSE <<>>
    BY DEF Only
  <1> HIDE DEF out
  <1>2. BeatTypes /\ \A x \in Runs : beat[x] \in Int /\ beat'[x] \in Int
    BY StreamAssumption DEF RuntimeInv, MissionTypes, BeatTypes, OneSpeaks
  <1>3. Due(<<>>, 0, 0) /\ \A n, m : Due(<<>>, n, m)
    BY AsideIsDue, AsidesAre
  <1>4. OnTime(out)
    <2>1. \A x \in Runs : beat[x] <= beat'[x]
      BY <1>2 DEF OneSpeaks
    <2>2. \A x \in Runs : Due(out[x], beat[x], beat'[x])
      BY <1>1, <1>3 DEF OneSpeaks
    <2> QED
      BY <2>1, <2>2 DEF OnTime, OneSpeaks
  <1>5. Published(out) /\ StreamInv /\ UNCHANGED page
    BY DEF OneSpeaks, out, RuntimeInv
  <1>6. StreamInv' /\ Retold(out) /\ Counted(out)
    BY <1>2, <1>4, <1>5, PublishKeeps
  <1>7. ~Tells(<<>>) /\ ByPlayer(<<>>) = {}
    BY MarksSay
  <1>8. ASSUME Tells(f) => Confirmed(r)', NewsConfirmed,
               \A x \in Runs : Confirmed(x) => Confirmed(x)'
        PROVE  NewsConfirmed'
    <2>1. \A x \in Runs : Tells(out[x]) => Confirmed(x)'
      <3>1. \A x \in Runs : x # r => ~Tells(out[x])
        BY <1>1, <1>7
      <3>2. Tells(out[r]) => Tells(f)
        BY <1>1
      <3> SUFFICES ASSUME NEW x \in Runs, Tells(out[x])
                   PROVE  Confirmed(x)'
        OBVIOUS
      <3>3. x = r
        BY <3>1
      <3>4. disk'[r] # None /\ disk'[r].status = "complete"
        BY <1>8, <3>2, <3>3 DEF Confirmed
      <3> QED
        BY <3>3, <3>4 DEF Confirmed
    <2>2. \A x \in Runs : Tells(replay'[x]) => Confirmed(x)'
      BY <1>6, <1>8, <2>1 DEF Retold, NewsConfirmed
    <2>3. ASSUME NEW c \in Clients, Tells(queue'[c]) \/ phase'[c] = "complete"
          PROVE  watch'[c] \in Runs /\ Confirmed(watch[c])'
      <3>1. phase' = phase /\ watch' = watch
        BY DEF OneSpeaks, page
      <3>2. /\ watch[c] \in Runs
            /\ Confirmed(watch[c]) \/ Tells(out[watch[c]])
        BY <1>6, <1>8, <2>3, <3>1 DEF Retold, NewsConfirmed
      <3>3. PICK x \in Runs : x = watch[c]
        BY <3>2
      <3>4. Confirmed(x)'
        BY <1>8, <2>1, <3>2, <3>3
      <3> QED
        BY <3>1, <3>3, <3>4 DEF Confirmed
    <2> QED
      BY <2>2, <2>3 DEF NewsConfirmed
  <1>9. ASSUME ByPlayer(f) = {}
        PROVE  Beside(r)
    <2>1. \A x \in Runs : PlayerBeats(x)' <= PlayerBeats(x)
      BY <1>1, <1>6, <1>7, <1>9 DEF Counted
    <2>2. \A x \in Runs : run[x] = None => beat'[x] = beat[x] /\ replay'[x] = replay[x]
      <3> SUFFICES ASSUME NEW x \in Runs, x # r
                   PROVE  beat'[x] = beat[x] /\ replay'[x] = replay[x]
        BY DEF OneSpeaks
      <3>1. replay[x] \in Seq(Frame) /\ Len(replay[x]) <= ReplaySize
        BY <1>5 DEF StreamInv, StreamTypeOK
      <3>2. replay'[x] = LastOf(replay[x] \o <<>>, ReplaySize)
        BY <1>1, <1>5 DEF Published
      <3>3. replay[x] \o <<>> = replay[x]
        BY <3>1, ConcatEmptySeq
      <3> QED
        BY <3>1, <3>2, <3>3 DEF LastOf, OneSpeaks
    <2> QED
      BY <2>1, <2>2 DEF Beside, OneSpeaks
  <1> QED
    BY <1>6, <1>8, <1>9 DEF NewsHeld

(* A step that leaves the runs and what is written of them as they are.    *)
LEMMA SpeakingKeeps ==
  ASSUME RuntimeInv, StreamInv', NEW r \in Runs, Beside(r), OtherTypes', Scheduled',
         UNCHANGED <<run, listed, disk, writing>>, Loop = None
  PROVE  RuntimeInv'
  <1>1. run' = run /\ disk' = disk /\ writing' = writing /\ Loop' = None /\ listed' = listed
    BY DEF Loop
  <1>2. MissionTypes'
    BY <1>1 DEF RuntimeInv, MissionTypes, OtherTypes
  <1>3. LoopWrites' /\ NoGhosts'
    BY <1>1 DEF LoopWrites, RuntimeInv, NoGhosts, Beside
  <1>4. Pairs' /\ RowsLagRuns'
    BY <1>1 DEF RuntimeInv, Pairs, Kept, RowsLagRuns, TrueOf
  <1>5. BeatsPaid'
    <2>1. Ages
      <3>1. \A x \in Runs : run[x] # None => run[x].commands \in Int
        BY RunTypes, RunFields DEF RuntimeInv
      <3> QED
        BY <1>1, <3>1 DEF Ages, Older
    <2>2. CountsOf /\ CountsOf'
      BY <1>2, CountTypes, PTL DEF RuntimeInv
    <2>3. \A x \in Runs : Owed(x)' = 0
      BY <1>1 DEF Owed
    <2>4. \A x \in Runs : run'[x] # None => Quieter(x)
      BY <1>1, <2>2, <2>3 DEF Beside, Quieter, CountsOf
    <2> QED
      BY <1>2, <2>1, <2>4, BeatsKeep DEF RuntimeInv
  <1> QED
    BY <1>2, <1>3, <1>4, <1>5 DEF RuntimeInv

(* The loop puts how a run ended.                                          *)
LEMMA OutcomePut ==
  ASSUME RuntimeInv, NEW r \in Runs, Loop = None, run[r] # None, run[r].status = "active",
         NEW s \in Ended, NEW op \in DOMAIN Outcome, op = "complete" => s = "complete",
         PutRun(EventLoop, r, [run[r] EXCEPT !.status = s], op), OtherTypes',
         UNCHANGED <<disk, task>>, StreamInv', Beside(r)
  PROVE  RuntimeInv'
  <1> DEFINE row == [run[r] EXCEPT !.status = s]
  <1>1. run[r] \in Run /\ s \in Status /\ "active" \notin Ended
    BY RunTypes DEF RuntimeInv, Status, Ended
  <1>2. /\ row \in Run /\ row.commands = run[r].commands /\ row.partner = run[r].partner
        /\ row.scored = run[r].scored /\ row.status = s
    BY <1>1 DEF Run
  <1>3. PutRun(EventLoop, r, row, op) /\ writing[EventLoop] = None
    BY DEF Loop
  <1> HIDE DEF row
  <1>4. Grown(r, row)
    <2>1. run[r].commands \in Int
      BY <1>1, RunFields
    <2> QED
      BY <1>1, <1>2, <2>1 DEF Grown
  <1>5. op \in Ops \ {"coop_red", "coop_blue"} /\ op \notin {"score", "player_beat", "start"}
    BY DEF Outcome, Ops
  <1>6. Putting(EventLoop, r, row, op)
    BY <1>2, <1>3, <1>4, <1>5 DEF Putting
  <1> QED
    BY <1>2, <1>5, <1>6, PuttingKeeps, LoopIsActor

(* A beat of the script, played and published, keeps the invariant.        *)
LEMMA PlayBeatKeeps ==
  ASSUME RuntimeInv, NEW r \in Runs, Loop = None, task[r] # "none",
         NEW before, before = <<>> \/ before = <<Mark("mission_started")>>,
         PlayBeat(r, before), UNCHANGED <<page, disk, stopping, restarts>>
  PROVE  RuntimeInv' /\ NewsHeld
  <1>1. run[r] # None /\ run[r].status = "active" /\ beat[r] < NumBeats
    BY DEF RuntimeInv, Scheduled, Settling
  <1>2. beat \in [Runs -> 0 .. NumBeats] /\ beat[r] \in 0 .. NumBeats - 1
    BY <1>1, StreamAssumption DEF RuntimeInv, MissionTypes
  <1>3. "complete" \in Ended /\ "failed" \in Ended
        /\ "complete" \in DOMAIN Outcome /\ "fail" \in DOMAIN Outcome
    BY DEF Ended, Outcome
  <1>4. ASSUME Publish(r, before \o <<Beat(beat[r])>>), beat' = [beat EXCEPT ![r] = @ + 1]
        PROVE  StreamInv' /\ Beside(r) /\ NewsHeld
    <2> DEFINE f == before \o <<Beat(beat[r])>>
    <2>1. Due(f, beat[r], beat[r] + 1) /\ ByPlayer(f) = {} /\ ~Tells(f)
      BY <1>2, NextBeatIsDue
    <2>2. Publish(r, f)
      BY <1>4
    <2> HIDE DEF f
    <2>3. Published(Only(r, f))
      BY <2>2, PublishAllPublishes DEF Publish, Only, RuntimeInv, StreamInv
    <2>4. /\ beat' \in [Runs -> 0 .. NumBeats] /\ beat'[r] = beat[r] + 1
          /\ \A x \in Runs \ {r} : beat'[x] = beat[x]
      BY <1>2, <1>4, StreamAssumption
    <2>5. OneSpeaks(r, f)
      BY <1>1, <1>2, <2>1, <2>3, <2>4 DEF OneSpeaks
    <2> QED
      BY <2>1, <2>5, OneSpeaksKeeps
  <1>5. ASSUME Publish(r, before), beat' = beat
        PROVE  StreamInv' /\ Beside(r) /\ NewsHeld
    <2>1. Due(before, beat[r], beat[r]) /\ ByPlayer(before) = {} /\ ~Tells(before)
      <3>1. "mission_started" \in Marks
        BY DEF Marks
      <3> QED
        BY <3>1, AsidesAre, AsideIsDue, MarksSay
    <2>2. Published(Only(r, before))
      BY <1>5, PublishAllPublishes DEF Publish, Only, RuntimeInv, StreamInv
    <2>3. OneSpeaks(r, before)
      BY <1>1, <1>2, <1>5, <2>1, <2>2 DEF OneSpeaks
    <2> QED
      BY <2>1, <2>3, OneSpeaksKeeps
  <1>6. task \in [Runs -> {"none", "queued", "sleeping"}]
    BY DEF RuntimeInv, MissionTypes
  <1>7. CASE /\ Publish(r, before \o <<Beat(beat[r])>>)
             /\ beat' = [beat EXCEPT ![r] = @ + 1] /\ UNCHANGED faults
             /\ beat[r] + 1 < NumBeats
             /\ task' = [task EXCEPT ![r] = "sleeping"]
             /\ UNCHANGED <<run, listed, writing>>
    <2>1. StreamInv' /\ Beside(r) /\ NewsHeld
      BY <1>4, <1>7
    <2>2. beat' \in [Runs -> 0 .. NumBeats] /\ beat'[r] = beat[r] + 1
      BY <1>2, <1>7, StreamAssumption
    <2>3. OtherTypes'
      BY <1>6, <1>7, <2>2 DEF OtherTypes, RuntimeInv, MissionTypes
    <2>4. Scheduled'
      <3> SUFFICES ASSUME NEW x \in Runs, task'[x] # "none"
                   PROVE  run'[x] # None /\ run'[x].status = "active" /\ beat'[x] < NumBeats
        BY DEF Scheduled
      <3>1. CASE x = r
        BY <1>1, <1>7, <2>2, <3>1
      <3>2. CASE x # r
        <4>1. task[x] # "none" /\ beat'[x] = beat[x]
          BY <1>6, <1>7, <2>1, <3>2 DEF Beside
        <4> QED
          BY <1>7, <4>1 DEF RuntimeInv, Scheduled, Settling
      <3> QED
        BY <3>1, <3>2
    <2> QED
      BY <1>7, <2>1, <2>3, <2>4, SpeakingKeeps
  <1>8. CASE /\ Publish(r, before \o <<Beat(beat[r])>>)
             /\ beat' = [beat EXCEPT ![r] = @ + 1] /\ UNCHANGED faults
             /\ PutRun(EventLoop, r, [run[r] EXCEPT !.status = "complete"], "complete")
             /\ UNCHANGED task
    <2>1. StreamInv' /\ Beside(r) /\ NewsHeld
      BY <1>4, <1>8
    <2>2. beat' \in [Runs -> 0 .. NumBeats]
      BY <1>2, <1>8, StreamAssumption
    <2>3. OtherTypes'
      BY <1>8, <2>2 DEF OtherTypes, RuntimeInv, MissionTypes
    <2> QED
      BY <1>1, <1>3, <1>8, <2>1, <2>3, OutcomePut
  <1>9. CASE /\ Fault /\ Publish(r, before) /\ UNCHANGED <<task, beat>>
             /\ PutRun(EventLoop, r, [run[r] EXCEPT !.status = "failed"], "fail")
    <2>1. StreamInv' /\ Beside(r) /\ NewsHeld
      BY <1>5, <1>9
    <2>2. OtherTypes'
      BY <1>9, RuntimeAssumption DEF OtherTypes, RuntimeInv, MissionTypes, Fault
    <2> QED
      BY <1>1, <1>3, <1>9, <2>1, <2>2, OutcomePut
  <1> QED
    BY <1>7, <1>8, <1>9 DEF PlayBeat

(* Both steps of the scheduler's task keep the invariant.                  *)
LEMMA PlayKeeps ==
  ASSUME RuntimeInv, NEW r \in Runs, PlayStart(r) \/ PlayNext(r)
  PROVE  RuntimeInv' /\ NewsHeld
  <1>1. /\ Loop = None /\ task[r] # "none"
        /\ UNCHANGED <<page, disk, stopping, restarts>>
    BY DEF PlayStart, PlayNext, Free, Loop
  <1>2. CASE PlayBeat(r, <<>>) \/ PlayBeat(r, <<Mark("mission_started")>>)
    BY <1>1, <1>2, PlayBeatKeeps
  <1>3. CASE /\ Publish(r, <<Mark("mission_started"), Mark("world_snapshot")>>)
             /\ task' = [task EXCEPT ![r] = "none"]
             /\ UNCHANGED <<run, listed, beat, writing, faults>>
    <2> DEFINE f == <<Mark("mission_started"), Mark("world_snapshot")>>
    <2>1. Due(f, beat[r], beat[r]) /\ ByPlayer(f) = {} /\ ~Tells(f)
      BY AsidesAre, AsideIsDue, MarksSay
    <2>2. Publish(r, f)
      BY <1>3
    <2> HIDE DEF f
    <2>3. Published(Only(r, f))
      BY <2>2, PublishAllPublishes DEF Publish, Only, RuntimeInv, StreamInv
    <2>4. run[r] # None /\ beat \in [Runs -> 0 .. NumBeats] /\ beat[r] \in Int
      BY <1>1, StreamAssumption DEF RuntimeInv, Scheduled, MissionTypes
    <2>5. OneSpeaks(r, f)
      BY <1>1, <1>3, <2>1, <2>3, <2>4 DEF OneSpeaks
    <2>6. StreamInv' /\ Beside(r) /\ NewsHeld
      BY <2>1, <2>5, OneSpeaksKeeps
    <2>7. /\ task' \in [Runs -> {"none", "queued", "sleeping"}]
          /\ \A x \in Runs : task'[x] # "none" => task[x] # "none"
      BY <1>3 DEF RuntimeInv, MissionTypes
    <2>8. OtherTypes'
      BY <1>1, <1>3, <2>7 DEF OtherTypes, RuntimeInv, MissionTypes
    <2>9. Scheduled'
      BY <1>1, <1>3, <2>7 DEF RuntimeInv, Scheduled, Settling
    <2> QED
      BY <1>1, <1>3, <2>6, <2>8, <2>9, SpeakingKeeps
  <1> QED
    BY <1>2, <1>3 DEF PlayStart, PlayNext

-----------------------------------------------------------------------------
(* Rows are written                                                        *)

(* A put comes back, its row written or refused.                           *)
Back(a) ==
  /\ writing[a] # None
  /\ run' = run /\ listed' = listed /\ beat' = beat
  /\ writing' = [writing EXCEPT ![a] = None]
  /\ disk' = disk \/ disk' = [disk EXCEPT ![writing[a].id] = writing[a].row]

(* The row an actor writes is of a run, with that run's partner.           *)
LEMMA WrittenRow ==
  ASSUME RuntimeInv, NEW a \in Actors, writing[a] # None
  PROVE  /\ writing[a].id \in Runs /\ writing[a].row \in Run /\ writing[a].op \in Ops
         /\ run[writing[a].id] # None /\ writing[a].row # None
         /\ writing[a].row.partner = run[writing[a].id].partner
         /\ disk \in [Runs -> Run \cup {None}]
         /\ [disk EXCEPT ![writing[a].id] = writing[a].row] \in [Runs -> Run \cup {None}]
  <1>1. writing[a].id \in Runs /\ writing[a].row \in Run /\ writing[a].op \in Ops
    BY RunTypes DEF RuntimeInv
  <1>2. Kept(writing[a].row, writing[a].id)
    BY PairsParts DEF RuntimeInv
  <1>3. disk \in [Runs -> Run \cup {None}]
    BY DEF RuntimeInv, MissionTypes
  <1> QED
    BY <1>1, <1>2, <1>3, NoneAssumption DEF Kept

(* An actor that is back from its write keeps the invariant.               *)
LEMMA BackKeeps ==
  ASSUME RuntimeInv, NEW a \in Actors, Back(a), OtherTypes', StreamInv', Scheduled',
         \A r \in Runs : run[r] = None => replay'[r] = <<>>,
         \A r \in Runs : run[r] # None => Quieter(r)
  PROVE  RuntimeInv'
  <1> USE LoopIsActor
  <1>1. /\ writing[a].id \in Runs /\ run[writing[a].id] # None
        /\ disk \in [Runs -> Run \cup {None}]
    BY WrittenRow DEF Back
  <1>2. /\ writing'[a] = None /\ \A b \in Actors \ {a} : writing'[b] = writing[b]
        /\ writing' \in [Actors -> Put \cup {None}]
    BY DEF Back, RuntimeInv, MissionTypes
  <1>3. run' = run /\ listed' = listed /\ beat' = beat
    BY DEF Back
  <1>4. MissionTypes'
    BY <1>2, <1>3 DEF RuntimeInv, MissionTypes, OtherTypes
  <1>5. Ages
    <2>1. \A x \in Runs : run[x] # None => run[x].commands \in Int
      BY RunTypes, RunFields DEF RuntimeInv
    <2> QED
      BY <1>3, <2>1 DEF Ages, Older
  <1>6. RowsMove
    BY <1>1, <1>2 DEF RowsMove, Back
  <1>7. ASSUME NEW b \in Actors
        PROVE  Fits(b)'
    BY <1>2, <1>3, PairsParts DEF Fits, RuntimeInv
  <1>8. Mutual'
    BY <1>3, PairsParts DEF Mutual, RuntimeInv
  <1>9. RowsLagRuns' /\ Pairs'
    BY <1>4, <1>5, <1>6, <1>7, <1>8, RowsKeep DEF RuntimeInv
  <1>10. LoopWrites'
    <2>1. CASE a = EventLoop
      BY <1>2, <2>1 DEF LoopWrites, Loop
    <2>2. CASE a # EventLoop
      <3>1. Loop' = Loop
        BY <1>2, <2>2 DEF Loop
      <3> QED
        BY <1>3, <3>1 DEF RuntimeInv, LoopWrites
    <2> QED
      BY <2>1, <2>2
  <1>11. NoGhosts'
    BY <1>1, <1>3 DEF NoGhosts, RuntimeInv, Back
  <1>12. BeatsPaid'
    BY <1>3, <1>4, <1>5, BeatsKeep DEF RuntimeInv
  <1> QED
    BY <1>4, <1>9, <1>10, <1>11, <1>12 DEF RuntimeInv

(* Nothing is owed by a put that comes back.                               *)
LEMMA BackOwes ==
  ASSUME RuntimeInv, NEW a \in Actors, Back(a)
  PROVE  /\ \A r \in Runs : Owed(r)' \in 0 .. 1 /\ Owed(r) \in 0 .. 1 /\ Owed(r)' <= Owed(r)
         /\ a = EventLoop => \A r \in Runs : Owed(r)' = 0
  <1>1. CASE a = EventLoop
    <2>1. Loop' = None
      BY <1>1 DEF Back, Loop, RuntimeInv, MissionTypes
    <2> QED
      BY <2>1 DEF Owed
  <1>2. CASE a # EventLoop
    <2>1. Loop' = Loop /\ run' = run
      BY <1>2, LoopIsActor DEF Back, Loop, RuntimeInv, MissionTypes
    <2> QED
      BY <1>2, <2>1 DEF Owed
  <1> QED
    BY <1>1, <1>2

(* A put comes back and nothing is published.                              *)
LEMMA SilentBackKeeps ==
  ASSUME RuntimeInv, NEW a \in Actors, Back(a), OtherTypes', Scheduled', UNCHANGED stream
  PROVE  RuntimeInv' /\ NewsHeld
  <1>1. /\ StreamInv' /\ NewsHeld /\ (\A x \in Runs : PlayerBeats(x)' = PlayerBeats(x))
        /\ replay' = replay
    BY StreamStays DEF RuntimeInv, Back
  <1>2. \A r \in Runs : run[r] = None => replay'[r] = <<>>
    BY <1>1 DEF RuntimeInv, NoGhosts
  <1>3. CountsOf
    BY CountTypes DEF RuntimeInv
  <1>4. \A r \in Runs : run[r] # None => Quieter(r)
    BY <1>1, <1>3, BackOwes DEF Quieter, CountsOf
  <1> QED
    BY <1>1, <1>2, <1>4, BackKeeps

(* The tasks of the others go on when a put comes back.                    *)
LEMMA BackSchedules ==
  ASSUME RuntimeInv, NEW a \in Actors, Back(a),
         \A r \in Runs : task'[r] # "none" =>
           \/ task[r] # "none" /\ ~(a = EventLoop /\ Settling(r))
           \/ run[r] # None /\ run[r].status = "active" /\ beat[r] < NumBeats
  PROVE  Scheduled'
  <1> SUFFICES ASSUME NEW r \in Runs, task'[r] # "none"
               PROVE  /\ run'[r] # None
                      /\ \/ Settling(r)'
                         \/ run'[r].status = "active" /\ beat'[r] < NumBeats
    BY DEF Scheduled
  <1>1. run' = run /\ beat' = beat
    BY DEF Back
  <1>2. CASE run[r] # None /\ run[r].status = "active" /\ beat[r] < NumBeats
    BY <1>1, <1>2
  <1>3. CASE task[r] # "none" /\ ~(a = EventLoop /\ Settling(r))
    <2>1. /\ run[r] # None
          /\ Settling(r) \/ (run[r].status = "active" /\ beat[r] < NumBeats)
      BY <1>3 DEF RuntimeInv, Scheduled
    <2>2. CASE a # EventLoop
      <3>1. Loop' = Loop
        BY <2>2, LoopIsActor DEF Back, Loop, RuntimeInv, MissionTypes
      <3> QED
        BY <1>1, <2>1, <3>1 DEF Settling
    <2>3. CASE a = EventLoop
      BY <1>1, <1>3, <2>1, <2>3
    <2> QED
      BY <2>2, <2>3
  <1> QED
    BY <1>2, <1>3

(* A write that returns has stored its row.                                *)
LEMMA WritesBack ==
  ASSUME RuntimeInv, NEW a \in Actors, NEW ops, Writes(a, ops), Returns(a), listed' = listed
  PROVE  /\ Back(a) /\ writing[a].op \in ops
         /\ UNCHANGED <<page, stopping, faults, restarts>>
         /\ disk' \in [Runs -> Run \cup {None}]
         /\ disk'[writing[a].id] = writing[a].row /\ writing[a].id \in Runs
  <1>1. /\ Back(a) /\ writing[a].op \in ops
        /\ UNCHANGED <<page, stopping, faults, restarts>>
        /\ disk' = [disk EXCEPT ![writing[a].id] = writing[a].row] /\ writing[a] # None
    BY DEF Writes, Returns, Back
  <1> QED
    BY <1>1, WrittenRow

(* The first write of a run keeps the invariant.                           *)
LEMMA StartWrittenKeeps ==
  ASSUME RuntimeInv, StartWritten
  PROVE  RuntimeInv' /\ NewsHeld
  <1> USE LoopIsActor
  <1> DEFINE id == Loop.id
  <1>1. /\ Back(EventLoop) /\ Loop # None /\ Loop.op = "start" /\ id \in Runs
        /\ UNCHANGED <<stream, stopping, faults, restarts>>
        /\ disk' \in [Runs -> Run \cup {None}]
    <2>1. /\ Writes(EventLoop, {"start"}) /\ Returns(EventLoop)
          /\ hub' = hub /\ listed' = listed /\ Loop # None
      BY DEF StartWritten, Loop, Writes
    <2> QED
      BY <2>1, WritesBack DEF stream, Loop
  <1>2. task' = [task EXCEPT ![id] = "queued"]
    BY DEF StartWritten, Loop
  <1>3. run[id] # None /\ run[id].status = "active" /\ beat[id] = 0 /\ 0 < NumBeats
    <2>1. run[id] # None
      BY <1>1, WrittenRow DEF Loop
    <2> QED
      BY <1>1, <2>1, StreamAssumption DEF RuntimeInv, LoopWrites
  <1> HIDE DEF id
  <1>4. /\ task' \in [Runs -> {"none", "queued", "sleeping"}]
        /\ \A r \in Runs : task'[r] # "none" => r = id \/ task[r] # "none"
    BY <1>1, <1>2 DEF RuntimeInv, MissionTypes
  <1>5. OtherTypes'
    BY <1>1, <1>4 DEF Back, OtherTypes, RuntimeInv, MissionTypes
  <1>6. \A r \in Runs : ~Settling(r)
    BY <1>1 DEF Settling, Outcome
  <1>7. Scheduled'
    BY <1>1, <1>3, <1>4, <1>6, BackSchedules
  <1> QED
    BY <1>1, <1>5, <1>7, SilentBackKeeps

(* A write nobody waits for keeps the invariant.                           *)
LEMMA WrittenKeeps ==
  ASSUME RuntimeInv, NEW a \in Actors, Written(a)
  PROVE  RuntimeInv' /\ NewsHeld
  <1>1. /\ Back(a) /\ writing[a].op \in {"sync", "command", "score", "coop_blue"}
        /\ UNCHANGED <<stream, task, stopping, faults, restarts>>
        /\ disk' \in [Runs -> Run \cup {None}]
    <2>1. /\ Writes(a, {"sync", "command", "score", "coop_blue"}) /\ Returns(a)
          /\ hub' = hub /\ listed' = listed /\ task' = task
      BY DEF Written
    <2> QED
      BY <2>1, WritesBack DEF stream
  <1>2. OtherTypes'
    BY <1>1 DEF Back, OtherTypes, RuntimeInv, MissionTypes
  <1>3. \A r \in Runs : ~(a = EventLoop /\ Settling(r))
    BY <1>1 DEF Settling, Outcome, Loop
  <1>4. Scheduled'
    BY <1>1, <1>3, BackSchedules
  <1> QED
    BY <1>1, <1>2, <1>4, SilentBackKeeps

(* The outcome of a run, or only the end of its stream.                    *)
LEMMA ClosingKeeps ==
  ASSUME RuntimeInv, Back(EventLoop), Loop # None, Loop.op \in DOMAIN Outcome,
         NEW id \in Runs, id = Loop.id,
         NEW f, PublishAndClose(id, f), Aside(f), ByPlayer(f) = {},
         Tells(f) => Confirmed(id)', TaskDone(id), OtherTypes', UNCHANGED page
  PROVE  RuntimeInv' /\ NewsHeld
  <1> USE LoopIsActor
  <1>1. id = Loop.id /\ run[id] # None
    BY WrittenRow DEF Loop
  <1>2. run' = run /\ beat' = beat /\ disk' \in [Runs -> Run \cup {None}]
    BY DEF Back, OtherTypes
  <1>3. f \in Seq(Frame) /\ Due(f, beat[id], beat[id])
    BY AsideIsDue DEF Aside
  <1>4. Published(Only(id, f))
    BY <1>1, <1>3, CloseIsPublished DEF RuntimeInv, StreamInv
  <1>5. beat \in [Runs -> 0 .. NumBeats] /\ beat[id] \in Int
    BY <1>1, StreamAssumption DEF RuntimeInv, MissionTypes
  <1>6. OneSpeaks(id, f)
    BY <1>1, <1>2, <1>3, <1>4, <1>5 DEF OneSpeaks
  <1>8. StreamInv' /\ NewsHeld /\ Beside(id)
    BY <1>6, OneSpeaksKeeps
  <1>9. /\ task' = [task EXCEPT ![id] = "none"]
        /\ \A r \in Runs : task'[r] # "none" => r # id /\ task[r] # "none"
    BY <1>1 DEF TaskDone, RuntimeInv, MissionTypes
  <1>10. Scheduled'
    <2>1. \A r \in Runs : r # id => ~Settling(r)
      BY <1>1 DEF Settling
    <2> QED
      BY <1>9, <2>1, BackSchedules
  <1>11. \A r \in Runs : run[r] = None => replay'[r] = <<>>
    BY <1>8 DEF Beside, RuntimeInv, NoGhosts
  <1>12. \A r \in Runs : run[r] # None => Quieter(r)
    <2>1. MissionTypes'
      <3>1. writing' \in [Actors -> Put \cup {None}]
        BY DEF Back, RuntimeInv, MissionTypes
      <3> QED
        BY <3>1 DEF Back, RuntimeInv, MissionTypes, OtherTypes
    <2>2. CountsOf /\ CountsOf'
      BY <1>8, <2>1, CountTypes, PTL DEF RuntimeInv
    <2>3. \A r \in Runs : Owed(r)' <= Owed(r) /\ PlayerBeats(r)' <= PlayerBeats(r)
      BY <1>8, BackOwes DEF Beside
    <2> QED
      BY <2>2, <2>3 DEF Quieter, CountsOf
  <1> QED
    BY <1>8, <1>10, <1>11, <1>12, BackKeeps

(* The write of an outcome, and the frames after it, keep the invariant.   *)
LEMMA OutcomeWrittenKeeps ==
  ASSUME RuntimeInv, OutcomeWritten
  PROVE  RuntimeInv' /\ NewsHeld
  <1> USE LoopIsActor
  <1>1. /\ Back(EventLoop) /\ Loop # None /\ Loop.op \in DOMAIN Outcome
        /\ UNCHANGED <<page, stopping, faults, restarts>>
        /\ disk' \in [Runs -> Run \cup {None}]
        /\ disk'[Loop.id] = Loop.row /\ Loop.row # None
    <2>1. /\ Writes(EventLoop, DOMAIN Outcome) /\ Returns(EventLoop)
          /\ listed' = listed /\ Loop # None
      BY DEF OutcomeWritten, Loop, Writes
    <2> QED
      BY <2>1, WritesBack, WrittenRow DEF Loop
  <1> DEFINE f == <<Mark(Outcome[Loop.op])>>
  <1>2. PICK id \in Runs : id = Loop.id
    BY <1>1, WrittenRow DEF Loop
  <1>6. PublishAndClose(id, f) /\ TaskDone(id)
    BY <1>2 DEF OutcomeWritten, Announced, Loop
  <1>3. Aside(f) /\ ByPlayer(f) = {} /\ (Tells(f) => Loop.op = "complete")
    <2>1. Outcome[Loop.op] \in Marks /\ (Outcome[Loop.op] = "mission_complete" => Loop.op = "complete")
      BY <1>1 DEF Outcome, Marks
    <2> QED
      BY <2>1, AsidesAre, MarksSay
  <1>4. Tells(f) => Confirmed(id)'
    <2>1. Tells(f) => Loop.row.status = "complete"
      BY <1>1, <1>3 DEF RuntimeInv, LoopWrites
    <2>2. Tells(f) => disk'[id] # None /\ disk'[id].status = "complete"
      BY <1>1, <1>2, <2>1
    <2> QED
      BY <2>2 DEF Confirmed
  <1>5. OtherTypes'
    <2>1. task' \in [Runs -> {"none", "queued", "sleeping"}]
      BY <1>6 DEF TaskDone, RuntimeInv, MissionTypes
    <2> QED
      BY <1>1, <2>1 DEF Back, OtherTypes, RuntimeInv, MissionTypes
  <1> HIDE DEF f
  <1> QED
    BY <1>1, <1>2, <1>3, <1>4, <1>5, <1>6, ClosingKeeps

(* A player's beat goes to a run and its partner, who are owed it.         *)
LEMMA BeatWrittenKeeps ==
  ASSUME RuntimeInv, BeatWritten
  PROVE  RuntimeInv' /\ NewsHeld
  <1> USE LoopIsActor
  <1>1. /\ Back(EventLoop) /\ Loop # None /\ Loop.op = "player_beat"
        /\ UNCHANGED <<page, stopping, faults, restarts, task>>
        /\ disk' \in [Runs -> Run \cup {None}]
    <2>1. /\ Writes(EventLoop, {"player_beat"}) /\ Returns(EventLoop)
          /\ listed' = listed /\ task' = task /\ Loop # None
      BY DEF BeatWritten, Loop, Writes
    <2> QED
      BY <2>1, WritesBack DEF Loop
  <1>2. /\ Loop.id \in Runs /\ run[Loop.id] # None
        /\ Loop.row.partner = run[Loop.id].partner
    BY <1>1, WrittenRow DEF Loop
  <1> DEFINE heardBy == Audience(Loop)
             out == [x \in Runs |-> IF x \in heardBy THEN <<Beat(Player)>> ELSE <<>>]
  <1>3. PublishAll(out)
    BY DEF BeatWritten, Loop
  <1>4. \A x \in Runs : x \in heardBy => run[x] # None /\ Owed(x) = 1
    <2> SUFFICES ASSUME NEW x \in Runs, x \in heardBy
                 PROVE  run[x] # None /\ Owed(x) = 1
      OBVIOUS
    <2>1. CASE x = Loop.id
      BY <1>1, <1>2, <2>1 DEF Owed
    <2>2. CASE x = Loop.row.partner /\ x \in listed
      <3>1. run[x] # None /\ x = run[Loop.id].partner /\ x # None
        BY <1>2, <2>2, ListedIsRun, StreamAssumption
      <3>2. run[x].partner = Loop.id
        BY <1>2, <3>1, PairsParts DEF RuntimeInv, Mutual
      <3> QED
        BY <1>1, <3>1, <3>2 DEF Owed
    <2> QED
      BY <2>1, <2>2 DEF Audience
  <1> HIDE DEF heardBy
  <1>5. \A x \in Runs : \/ out[x] = <<>>
                        \/ out[x] = <<Beat(Player)>> /\ run[x] # None /\ Owed(x) = 1
    BY <1>4
  <1> HIDE DEF out
  <1>6. BeatTypes /\ beat' = beat /\ run' = run /\ \A x \in Runs : beat[x] \in Int
    BY <1>1, StreamAssumption DEF RuntimeInv, MissionTypes, BeatTypes, Back
  <1>7. OnTime(out)
    <2>1. \A x \in Runs : Due(out[x], beat[x], beat'[x])
      BY <1>5, AsidesAre, AsideIsDue
    <2> QED
      BY <1>6, <2>1 DEF OnTime, BeatTypes
  <1>8. Published(out) /\ StreamInv
    BY <1>3, PublishAllPublishes DEF RuntimeInv, StreamInv
  <1>9. StreamInv' /\ Retold(out) /\ Counted(out)
    BY <1>1, <1>6, <1>7, <1>8, PublishKeeps
  <1>10. \A x \in Runs : ~Tells(out[x])
    BY <1>5, MarksSay
  <1>11. NewsHeld
    <2> SUFFICES ASSUME NewsConfirmed, \A x \in Runs : Confirmed(x) => Confirmed(x)'
                 PROVE  NewsConfirmed'
      BY DEF NewsHeld
    <2>1. \A x \in Runs : Tells(replay'[x]) => Confirmed(x)'
      BY <1>9, <1>10 DEF Retold, NewsConfirmed
    <2>2. ASSUME NEW c \in Clients, Tells(queue'[c]) \/ phase'[c] = "complete"
          PROVE  watch'[c] \in Runs /\ Confirmed(watch[c])'
      <3>1. phase' = phase /\ watch' = watch
        BY <1>1 DEF page
      <3>2. watch[c] \in Runs /\ Confirmed(watch[c])
        BY <1>9, <1>10, <2>2, <3>1 DEF Retold, NewsConfirmed
      <3>3. PICK x \in Runs : x = watch[c]
        BY <3>2
      <3>4. Confirmed(x)'
        BY <3>2, <3>3
      <3> QED
        BY <3>1, <3>3, <3>4 DEF Confirmed
    <2> QED
      BY <2>1, <2>2 DEF NewsConfirmed
  <1>12. OtherTypes'
    BY <1>1 DEF Back, OtherTypes, RuntimeInv, MissionTypes
  <1>13. Scheduled'
    <2>1. \A r \in Runs : ~Settling(r)
      BY <1>1 DEF Settling, Outcome
    <2> QED
      BY <1>1, <2>1, BackSchedules
  <1>14. \A r \in Runs : run[r] = None => replay'[r] = <<>>
    <2> SUFFICES ASSUME NEW r \in Runs, run[r] = None
                 PROVE  replay'[r] = <<>>
      OBVIOUS
    <2>1. replay[r] = <<>> /\ out[r] = <<>>
      BY <1>5 DEF RuntimeInv, NoGhosts
    <2>2. replay'[r] = LastOf(<<>> \o <<>>, ReplaySize)
      BY <1>8, <2>1 DEF Published
    <2>3. <<>> \o <<>> = <<>> /\ Len(<<>>) <= ReplaySize
      BY StreamAssumption
    <2> QED
      BY <2>2, <2>3 DEF LastOf
  <1>15. \A r \in Runs : run[r] # None => Quieter(r)
    <2> SUFFICES ASSUME NEW r \in Runs, run[r] # None
                 PROVE  Quieter(r)
      OBVIOUS
    <2>1. Owed(r)' = 0 /\ Owed(r) \in 0 .. 1
      BY <1>1, BackOwes
    <2>2. PlayerBeats(r) \in Nat /\ PlayerBeats(r)' \in Nat
      BY <1>9 DEF Counted
    <2>3. CASE out[r] = <<>>
      BY <1>9, <2>1, <2>2, <2>3, MarksSay DEF Quieter, Counted
    <2>4. CASE out[r] = <<Beat(Player)>> /\ Owed(r) = 1
      BY <1>9, <2>1, <2>2, <2>4 DEF Quieter, Counted
    <2> QED
      BY <1>5, <2>3, <2>4
  <1> QED
    BY <1>1, <1>9, <1>11, <1>12, <1>13, <1>14, <1>15, BackKeeps

(* A write raises.                                                         *)
LEMMA WriteFailsKeeps ==
  ASSUME RuntimeInv, NEW a \in Actors, WriteFails(a)
  PROVE  RuntimeInv' /\ NewsHeld
  <1> USE LoopIsActor
  <1>1. /\ Back(a) /\ UNCHANGED <<page, disk, stopping, restarts>> /\ faults' \in 0 .. MaxFaults
    BY RuntimeAssumption DEF WriteFails, Fault, Back, Returns, RuntimeInv, MissionTypes
  <1>2. PICK id \in Runs : id = writing[a].id
    BY WrittenRow DEF WriteFails
  <1>3. CASE writing[a].op \in DOMAIN Outcome
    <2>1. a = EventLoop
      <3>1. Fits(a) /\ writing[a] # None
        BY PairsParts DEF RuntimeInv, WriteFails
      <3> QED
        BY <1>3, <3>1 DEF Fits, Outcome
    <2>2. PublishAndClose(id, <<>>) /\ TaskDone(id)
      BY <1>2, <1>3 DEF WriteFails, NotAnnounced, Close
    <2>3. Aside(<<>>) /\ ByPlayer(<<>>) = {} /\ ~Tells(<<>>)
      BY AsidesAre, MarksSay
    <2>4. OtherTypes'
      <3>1. task' \in [Runs -> {"none", "queued", "sleeping"}]
        BY <2>2 DEF TaskDone, RuntimeInv, MissionTypes
      <3> QED
        BY <1>1, <3>1 DEF Back, OtherTypes, RuntimeInv, MissionTypes
    <2>5. Loop # None /\ Loop.op \in DOMAIN Outcome /\ id = Loop.id
      BY <1>2, <1>3, <2>1 DEF Loop, WriteFails
    <2> QED
      BY <1>1, <2>1, <2>2, <2>3, <2>4, <2>5, ClosingKeeps
  <1>4. CASE writing[a].op \notin DOMAIN Outcome
    <2>1. UNCHANGED <<stream, task>>
      BY <1>1, <1>4 DEF WriteFails, stream
    <2>2. OtherTypes'
      BY <1>1, <2>1 DEF Back, OtherTypes, RuntimeInv, MissionTypes
    <2>3. \A r \in Runs : ~(a = EventLoop /\ Settling(r))
      BY <1>4 DEF Settling, Loop
    <2>4. Scheduled'
      BY <1>1, <2>1, <2>3, BackSchedules
    <2> QED
      BY <1>1, <2>1, <2>2, <2>4, SilentBackKeeps
  <1> QED
    BY <1>3, <1>4

-----------------------------------------------------------------------------
(* Co-op pairs, resets and the end of the process                          *)

(* A step of a thread leaves what the loop does as it is.                  *)
LEMMA ThreadKeeps ==
  ASSUME RuntimeInv, NEW t \in Threads, UNCHANGED <<stream, task, beat>>,
         MissionTypes', Ages, RowsLagRuns', Pairs', NoGhosts',
         \A a \in Actors \ {t} : writing'[a] = writing[a],
         \A x \in Runs : run[x] # None => run'[x].status = run[x].status,
         \A x \in Runs : run[x] = None /\ run'[x] # None =>
           \A y \in Runs : run[y] # None => run'[x].partner # y
  PROVE  RuntimeInv' /\ NewsHeld
  <1> USE LoopIsActor
  <1>1. Loop' = Loop
    BY DEF Loop
  <1>2. /\ StreamInv' /\ NewsHeld /\ (\A x \in Runs : PlayerBeats(x)' = PlayerBeats(x))
        /\ replay' = replay /\ beat' = beat
    BY StreamStays DEF RuntimeInv
  <1>3. Loop # None => Loop.id \in Runs /\ run[Loop.id] # None
    BY WrittenRow DEF Loop
  <1>4. Scheduled'
    <2>1. \A x \in Runs : task[x] # "none" => run[x] # None /\ run'[x] # None
      BY DEF RuntimeInv, Scheduled, Ages, Older
    <2> QED
      BY <1>1, <1>2, <2>1 DEF RuntimeInv, Scheduled, Settling
  <1>5. LoopWrites'
    BY <1>1, <1>2, <1>3 DEF RuntimeInv, LoopWrites
  <1>6. BeatsPaid'
    <2>1. CountsOf /\ CountsOf'
      BY <1>2, CountTypes, PTL DEF RuntimeInv
    <2>2. ASSUME NEW x \in Runs, run'[x] # None
          PROVE  Quieter(x)
      <3>1. CASE run[x] # None
        <4>1. run'[x].partner = run[x].partner
          BY <3>1 DEF Ages, Older
        <4>2. Owed(x)' = Owed(x)
          BY <1>1, <4>1 DEF Owed
        <4> QED
          BY <1>2, <2>1, <3>1, <4>2 DEF Quieter, CountsOf
      <3>2. CASE run[x] = None
        <4>1. PlayerBeats(x)' = 0
          BY <1>2, <2>1, <3>2 DEF CountsOf, RuntimeInv, NoGhosts
        <4>2. Owed(x)' = 0
          BY <1>1, <1>3, <2>2, <3>2 DEF Owed
        <4> QED
          BY <4>1, <4>2 DEF Quieter
      <3> QED
        BY <3>1, <3>2
    <2> QED
      BY <1>2, <2>2, BeatsKeep DEF RuntimeInv
  <1> QED
    BY <1>2, <1>4, <1>5, <1>6 DEF RuntimeInv

(* The first half of a co-op pair keeps the invariant.                     *)
LEMMA StartCoopKeeps ==
  ASSUME RuntimeInv, NEW t \in Threads, NEW r \in Runs, NEW b \in Runs, StartCoop(t, r, b)
  PROVE  RuntimeInv' /\ NewsHeld
  <1> USE LoopIsActor
  <1> DEFINE red == NewRun("red", "active", b)
             blue == NewRun("blue", "active", r)
             put == [op |-> "coop_red", id |-> r, row |-> red]
  <1>1. /\ writing[t] = None /\ run[r] = None /\ run[b] = None /\ disk[r] = None
        /\ disk[b] = None /\ r # b
        /\ \A x \in Runs : run[x] # None => run[x].partner # r /\ run[x].partner # b
    BY DEF StartCoop, Free, Fresh
  <1>2. /\ red \in Run /\ blue \in Run /\ red.partner = b /\ blue.partner = r
        /\ red # None /\ blue # None
    <2>1. "active" \in Status
      BY DEF Status
    <2>2. red \in Run /\ blue \in Run /\ red.partner = b /\ blue.partner = r
      BY <2>1, RuntimeAssumption DEF NewRun, Run
    <2> QED
      BY <2>2, NoneAssumption
  <1>3. /\ run' = [run EXCEPT ![r] = red, ![b] = blue] /\ listed' = listed \cup {r}
        /\ UNCHANGED <<stream, disk, task, beat, stopping, faults, restarts>>
    BY DEF StartCoop
  <1> HIDE DEF red, blue
  <1>4. /\ run'[r] = red /\ run'[b] = blue /\ \A x \in Runs \ {r, b} : run'[x] = run[x]
        /\ run' \in [Runs -> Run \cup {None}]
    BY <1>1, <1>2, <1>3 DEF RuntimeInv, MissionTypes
  <1>5. writing' = [writing EXCEPT ![t] = put]
    BY <1>4 DEF StartCoop
  <1>6. put \in Put /\ put # None /\ put.op = "coop_red" /\ put.id = r /\ put.row = red
    <2>1. put \in Put
      BY <1>2 DEF Put, Ops
    <2> QED
      BY <2>1, NoneAssumption
  <1> HIDE DEF put
  <1>7. /\ writing'[t] = put /\ \A a \in Actors \ {t} : writing'[a] = writing[a]
        /\ writing' \in [Actors -> Put \cup {None}]
    BY <1>5, <1>6 DEF RuntimeInv, MissionTypes
  <1>8. MissionTypes'
    <2>1. listed' \subseteq {x \in Runs : run'[x] # None}
      BY <1>2, <1>3, <1>4 DEF RuntimeInv, MissionTypes
    <2> QED
      BY <1>3, <1>4, <1>7, <2>1 DEF RuntimeInv, MissionTypes
  <1>9. \A x \in Runs : run[x] # None => x \notin {r, b} /\ run'[x] = run[x]
    BY <1>1, <1>4
  <1>10. Ages
    <2>1. \A x \in Runs : run[x] # None => run[x].commands \in Int
      BY RunTypes, RunFields DEF RuntimeInv
    <2> QED
      BY <1>9, <2>1 DEF Ages, Older
  <1>11. RowsMove
    <2>1. disk' = disk /\ writing'[t].row = run'[writing'[t].id]
      BY <1>3, <1>4, <1>6, <1>7
    <2> QED
      BY <1>7, <2>1 DEF RowsMove
  <1>12. ASSUME NEW a \in Actors
         PROVE  Fits(a)'
    <2>1. CASE a = t
      BY <1>2, <1>4, <1>6, <1>7, <2>1 DEF Fits
    <2>2. CASE a # t
      <3>1. Fits(a) /\ writing'[a] = writing[a]
        BY <1>7, <2>2, PairsParts DEF RuntimeInv
      <3> QED
        BY <1>9, <3>1 DEF Fits
    <2> QED
      BY <2>1, <2>2
  <1>13. Mutual'
    <2> SUFFICES ASSUME NEW x \in Runs, run'[x] # None, run'[x].partner # None,
                        run'[run'[x].partner] # None
                 PROVE  run'[run'[x].partner].partner = x
      BY DEF Mutual
    <2>1. CASE x = r
      BY <1>2, <1>4, <2>1
    <2>2. CASE x = b
      BY <1>2, <1>4, <2>2
    <2>3. CASE x \notin {r, b}
      <3>1. run'[x] = run[x] /\ run[x] # None
        BY <1>4, <2>3
      <3>2. run[x].partner \in Runs \ {r, b}
        BY <1>1, <3>1, RunTypes, RunFields DEF RuntimeInv
      <3>3. run'[run[x].partner] = run[run[x].partner]
        BY <1>4, <3>2
      <3>4. Mutual
        BY PairsParts DEF RuntimeInv
      <3> QED
        BY <3>1, <3>3, <3>4 DEF Mutual
    <2> QED
      BY <2>1, <2>2, <2>3
  <1>14. RowsLagRuns' /\ Pairs'
    BY <1>8, <1>10, <1>11, <1>12, <1>13, RowsKeep DEF RuntimeInv
  <1>15. beat' = beat /\ disk' = disk /\ replay' = replay
    BY <1>3 DEF stream, hub
  <1>16. NoGhosts'
    <2>1. \A x \in Runs : run'[x] = None => run[x] = None
      BY <1>9
    <2> QED
      BY <1>15, <2>1 DEF RuntimeInv, NoGhosts
  <1>17. \A x \in Runs : run[x] = None /\ run'[x] # None =>
           \A y \in Runs : run[y] # None => run'[x].partner # y
    <2>1. \A x \in Runs : run[x] = None /\ run'[x] # None => run'[x].partner \in {r, b}
      BY <1>2, <1>4
    <2> QED
      BY <1>1, <2>1
  <1> QED
    BY <1>3, <1>7, <1>8, <1>9, <1>10, <1>14, <1>16, <1>17, ThreadKeeps

(* The second half of a co-op pair keeps the invariant.                    *)
LEMMA RedWrittenKeeps ==
  ASSUME RuntimeInv, NEW t \in Threads, RedWritten(t)
  PROVE  RuntimeInv' /\ NewsHeld
  <1> USE LoopIsActor
  <1> DEFINE w == writing[t]
             b == w.row.partner
             put == [op |-> "coop_blue", id |-> b, row |-> run[b]]
  <1>1. w # None /\ w.op = "coop_red" /\ w.id \in Runs /\ run[w.id] # None
    BY WrittenRow DEF RedWritten, Writes
  <1>2. b \in Runs /\ run[b] # None /\ run[b] \in Run
    <2>1. Fits(t)
      BY PairsParts DEF RuntimeInv
    <2>2. b \in Runs /\ run[b] # None
      BY <1>1, <2>1 DEF Fits
    <2> QED
      BY <2>2, RunTypes DEF RuntimeInv
  <1>3. put \in Put /\ put # None /\ put.op = "coop_blue" /\ put.id = b /\ put.row = run[b]
    <2>1. put \in Put
      BY <1>2 DEF Put, Ops
    <2> QED
      BY <2>1, NoneAssumption
  <1>4. /\ disk' = [disk EXCEPT ![w.id] = w.row] /\ run' = run /\ listed' = listed \cup {b}
        /\ writing' = [writing EXCEPT ![t] = put]
        /\ UNCHANGED <<stream, task, beat, stopping, faults, restarts>>
    BY DEF RedWritten, Writes, stream
  <1>5. disk' \in [Runs -> Run \cup {None}]
    BY <1>1, <1>4, WrittenRow
  <1> HIDE DEF put, b
  <1>6. /\ writing'[t] = put /\ \A a \in Actors \ {t} : writing'[a] = writing[a]
        /\ writing' \in [Actors -> Put \cup {None}]
    BY <1>3, <1>4 DEF RuntimeInv, MissionTypes
  <1>7. MissionTypes'
    <2>1. listed' \subseteq {x \in Runs : run'[x] # None}
      BY <1>2, <1>4 DEF RuntimeInv, MissionTypes
    <2> QED
      BY <1>4, <1>5, <1>6, <2>1 DEF RuntimeInv, MissionTypes
  <1>8. Ages
    <2>1. \A x \in Runs : run[x] # None => run[x].commands \in Int
      BY RunTypes, RunFields DEF RuntimeInv
    <2> QED
      BY <1>4, <2>1 DEF Ages, Older
  <1>9. RowsMove
    <2>1. \A x \in Runs : disk'[x] = disk[x] \/ (x = w.id /\ disk'[x] = w.row)
      BY <1>1, <1>4 DEF RuntimeInv, MissionTypes
    <2> QED
      BY <1>1, <1>3, <1>4, <1>6, <2>1 DEF RowsMove
  <1>10. ASSUME NEW a \in Actors
         PROVE  Fits(a)'
    <2>1. CASE a = t
      BY <1>3, <1>6, <2>1 DEF Fits
    <2>2. CASE a # t
      <3>1. Fits(a) /\ writing'[a] = writing[a]
        BY <1>6, <2>2, PairsParts DEF RuntimeInv
      <3> QED
        BY <1>4, <3>1 DEF Fits
    <2> QED
      BY <2>1, <2>2
  <1>11. Mutual'
    BY <1>4, PairsParts DEF Mutual, RuntimeInv
  <1>12. RowsLagRuns' /\ Pairs'
    BY <1>7, <1>8, <1>9, <1>10, <1>11, RowsKeep DEF RuntimeInv
  <1>13. NoGhosts'
    <2>1. beat' = beat /\ replay' = replay
      BY <1>4 DEF stream, hub
    <2>2. \A x \in Runs : run[x] = None => disk'[x] = None
      BY <1>1, <1>4 DEF RuntimeInv, NoGhosts, MissionTypes
    <2> QED
      BY <1>4, <2>1, <2>2 DEF RuntimeInv, NoGhosts
  <1> QED
    BY <1>4, <1>6, <1>7, <1>8, <1>12, <1>13, ThreadKeeps

(* Reset and Stop, and the steps of pages, leave runs and rows alone.      *)
LEMMA RunsStay ==
  ASSUME RuntimeInv, StreamInv', UNCHANGED <<run, disk, task, beat, writing, replay>>,
         listed' \subseteq listed, stopping' \in BOOLEAN, UNCHANGED <<faults, restarts>>
  PROVE  RuntimeInv'
  <1>1. /\ run' = run /\ disk' = disk /\ task' = task /\ beat' = beat /\ writing' = writing
        /\ replay' = replay /\ Loop' = Loop
    BY DEF Loop
  <1>2. MissionTypes'
    BY <1>1 DEF RuntimeInv, MissionTypes
  <1>3. Scheduled' /\ LoopWrites' /\ NoGhosts'
    BY <1>1 DEF RuntimeInv, Scheduled, Settling, LoopWrites, NoGhosts
  <1>4. Pairs' /\ RowsLagRuns'
    BY <1>1 DEF RuntimeInv, Pairs, Kept, RowsLagRuns, TrueOf
  <1>5. BeatsPaid'
    BY <1>1 DEF RuntimeInv, BeatsPaid, Owed, CommandsOf, PlayerBeats
  <1> QED
    BY <1>2, <1>3, <1>4, <1>5 DEF RuntimeInv

(* The reset of the runs keeps the invariant.                              *)
LEMMA ResetKeeps ==
  ASSUME RuntimeInv, NEW t \in Threads, Reset(t)
  PROVE  RuntimeInv' /\ NewsHeld
  <1>1. /\ UNCHANGED <<stream, run, disk, task, beat, writing, stopping, faults, restarts>>
        /\ listed' \subseteq listed
    BY DEF Reset
  <1>2. StreamInv' /\ NewsHeld /\ replay' = replay
    BY <1>1, StreamStays DEF RuntimeInv
  <1>3. stopping' \in BOOLEAN
    BY <1>1 DEF RuntimeInv, MissionTypes
  <1> QED
    BY <1>1, <1>2, <1>3, RunsStay

(* The shutdown keeps the invariant.                                       *)
LEMMA StopKeeps ==
  ASSUME RuntimeInv, Stop
  PROVE  RuntimeInv' /\ NewsHeld
  <1>1. /\ UNCHANGED <<stream, run, listed, disk, task, beat, writing, faults, restarts>>
        /\ stopping' = TRUE
    BY DEF Stop
  <1>2. StreamInv' /\ NewsHeld /\ replay' = replay
    BY <1>1, StreamStays DEF RuntimeInv
  <1> QED
    BY <1>1, <1>2, RunsStay

(* The steps of a page keep the invariant.                                 *)
LEMMA PageStepKeeps ==
  ASSUME RuntimeInv, NEW c \in Clients, PageStep(c)
  PROVE  RuntimeInv' /\ NewsHeld
  <1>1. UNCHANGED mission /\ StreamInv /\ BeatTypes
    BY DEF PageStep, RuntimeInv, MissionTypes, BeatTypes
  <1>2. StreamInv' /\ (NewsConfirmed => NewsConfirmed')
    <2>1. CASE \E r \in listed : Watch(c, r)
      <3>1. PICK r \in Runs : Watch(c, r)
        BY <2>1, ListedIsRun
      <3> QED
        BY <1>1, <3>1, WatchKeeps
    <2>2. CASE Receive(c)
      BY <1>1, <2>2, ReceiveKeeps
    <2>3. CASE Leave(c)
      BY <1>1, <2>3, LeaveKeeps
    <2> QED
      BY <2>1, <2>2, <2>3 DEF PageStep
  <1>3. replay' = replay
    BY DEF PageStep, Watch, Receive, Leave
  <1>4. /\ UNCHANGED <<run, disk, task, beat, writing, faults, restarts>>
        /\ listed' = listed /\ stopping' \in BOOLEAN
    BY <1>1 DEF mission, RuntimeInv, MissionTypes
  <1> QED
    BY <1>2, <1>3, <1>4, RunsStay DEF NewsHeld

(* A row is loaded as it was, or as that of a run that failed.             *)
LEMMA LoadedIs ==
  ASSUME NEW row \in Run
  PROVE  /\ Loaded(row) \in Run /\ Loaded(row) # None
         /\ Loaded(row).partner = row.partner
         /\ row.status \in Ended => Loaded(row).status = row.status
  <1>1. "failed" \in Status /\ "active" \notin Ended /\ row # None
    BY NoneAssumption DEF Status, Ended
  <1>2. CASE row.perspective = "blue" /\ row.status = "active"
    <2>1. Loaded(row) = [row EXCEPT !.status = "failed"]
      BY <1>1, <1>2 DEF Loaded
    <2>2. /\ [row EXCEPT !.status = "failed"] \in Run
          /\ [row EXCEPT !.status = "failed"].partner = row.partner
      BY <1>1 DEF Run
    <2> QED
      BY <1>1, <1>2, <2>1, <2>2, NoneAssumption
  <1>3. CASE ~(row.perspective = "blue" /\ row.status = "active")
    <2>1. Loaded(row) = row
      BY <1>3 DEF Loaded
    <2> QED
      BY <1>1, <2>1
  <1> QED
    BY <1>2, <1>3

(* The rows a restart loads, stale runs failed, are the runs it starts     *)
(* with.                                                                   *)
LEMMA RestartRows ==
  ASSUME RuntimeInv, Restart
  PROVE  /\ run' = disk' /\ disk' \in [Runs -> Run \cup {None}]
         /\ \A r \in Runs :
              /\ disk'[r] = None <=> disk[r] = None
              /\ disk[r] # None =>
                   /\ disk'[r].partner = run[r].partner /\ run[r] # None
                   /\ disk[r].status \in Ended => disk'[r].status = disk[r].status
  <1>1. run' = disk' /\ disk' = [r \in Runs |-> Loaded(disk[r])]
    BY DEF Restart
  <1>2. Loaded(None) = None
    BY DEF Loaded
  <1>3. \A r \in Runs : disk[r] # None =>
          /\ disk[r] \in Run /\ run[r] # None /\ disk[r].partner = run[r].partner
    BY RunTypes, PairsParts DEF RuntimeInv, Kept
  <1>4. ASSUME NEW r \in Runs
        PROVE  /\ disk'[r] \in Run \cup {None}
               /\ disk'[r] = None <=> disk[r] = None
               /\ disk[r] # None =>
                    /\ disk'[r].partner = run[r].partner /\ run[r] # None
                    /\ disk[r].status \in Ended => disk'[r].status = disk[r].status
    <2>1. disk'[r] = Loaded(disk[r])
      BY <1>1
    <2>2. CASE disk[r] = None
      BY <1>2, <2>1, <2>2
    <2>3. CASE disk[r] # None
      <3>1. PICK row \in Run : row = disk[r]
        BY <1>3, <2>3
      <3>2. /\ Loaded(row) \in Run /\ Loaded(row) # None
            /\ Loaded(row).partner = row.partner
            /\ row.status \in Ended => Loaded(row).status = row.status
        BY LoadedIs
      <3> QED
        BY <1>3, <2>1, <2>3, <3>1, <3>2
    <2> QED
      BY <2>2, <2>3
  <1>5. disk' \in [Runs -> Run \cup {None}]
    <2>1. \A r \in Runs : Loaded(disk[r]) \in Run \cup {None}
      BY <1>1, <1>4
    <2> QED
      BY <1>1, <2>1
  <1> QED
    BY <1>1, <1>4, <1>5

(* A restart keeps the invariant.                                          *)
LEMMA RestartKeeps ==
  ASSUME RuntimeInv, Restart
  PROVE  RuntimeInv' /\ NewsHeld
  <1> USE LoopIsActor
  <1>1. /\ run' = disk' /\ disk' \in [Runs -> Run \cup {None}]
        /\ \A r \in Runs :
             /\ disk'[r] = None <=> disk[r] = None
             /\ disk[r] # None => disk'[r].partner = run[r].partner /\ run[r] # None
    BY RestartRows
  <1>2. /\ listed' = {r \in Runs : disk[r] # None} /\ StreamLost
        /\ task' = [r \in Runs |-> "none"] /\ beat' = [r \in Runs |-> 0]
        /\ writing' = [a \in Actors |-> None] /\ stopping' = FALSE /\ faults' = faults
        /\ restarts' \in 0 .. MaxRestarts
    BY RuntimeAssumption DEF Restart, RuntimeInv, MissionTypes
  <1>3. beat' \in [Runs -> 0 .. NumBeats]
    BY <1>2, StreamAssumption
  <1>4. /\ StreamInv' /\ (\A r \in Runs : PlayerBeats(r)' = 0)
        /\ NewsHeld
    BY <1>2, <1>3, LossKeeps DEF RuntimeInv, NewsHeld
  <1>5. MissionTypes'
    <2>1. task' \in [Runs -> {"none", "queued", "sleeping"}]
          /\ writing' \in [Actors -> Put \cup {None}]
      BY <1>2
    <2>2. listed' \subseteq {r \in Runs : run'[r] # None}
      BY <1>1, <1>2
    <2>3. stopping' \in BOOLEAN /\ faults' \in 0 .. MaxFaults
      BY <1>2 DEF RuntimeInv, MissionTypes
    <2> QED
      BY <1>1, <1>2, <1>3, <2>1, <2>2, <2>3 DEF MissionTypes
  <1>6. Loop' = None
    BY <1>2 DEF Loop
  <1>7. Scheduled' /\ LoopWrites'
    BY <1>2, <1>6 DEF Scheduled, LoopWrites
  <1>8. NoGhosts'
    <2>1. \A r \in Runs : replay'[r] = <<>> /\ beat'[r] = 0
      BY <1>2 DEF StreamLost, NewHub
    <2> QED
      BY <1>1, <2>1 DEF NoGhosts
  <1>9. \A r \in Runs : run'[r] # None => run'[r] \in Run /\ run'[r].commands \in Int
    BY <1>1, RunFields
  <1>10. Pairs'
    <2>1. \A r \in Runs : disk'[r] # None => Kept(disk[r], r)'
      BY <1>1 DEF Kept
    <2>2. \A a \in Actors : writing'[a] = None
      BY <1>2
    <2>3. Mutual'
      <3> SUFFICES ASSUME NEW x \in Runs, run'[x] # None, run'[x].partner # None,
                          run'[run'[x].partner] # None
                   PROVE  run'[run'[x].partner].partner = x
        BY DEF Mutual
      <3>1. PICK y \in Runs : y = run'[x].partner
        BY <1>9, RunFields
      <3>2. run[x] # None /\ run[x].partner = y /\ run[y] # None /\ run'[y].partner = run[y].partner
        BY <1>1, <3>1
      <3>3. run[y].partner = x
        BY <3>2, StreamAssumption, PairsParts DEF RuntimeInv, Mutual
      <3> QED
        BY <3>1, <3>2, <3>3
    <2> QED
      BY <2>1, <2>2, <2>3 DEF Pairs, Mutual
  <1>11. RowsLagRuns'
    <2>1. \A r \in Runs : disk'[r] # None => TrueOf(disk[r], r)'
      BY <1>1, <1>9 DEF TrueOf
    <2>2. \A a \in Actors : writing'[a] = None
      BY <1>2
    <2> QED
      BY <2>1, <2>2 DEF RowsLagRuns
  <1>12. BeatsPaid'
    <2> SUFFICES ASSUME NEW r \in Runs, run'[r] # None
                 PROVE  PlayerBeats(r)' + Owed(r)'
                          <= CommandsOf(r)' + CommandsOf(run[r].partner)'
      BY DEF BeatsPaid
    <2>1. PICK y \in Runs \cup {None} : y = run'[r].partner
      BY <1>9, RunFields
    <2>2. CountsOf'
      BY <1>4, <1>5, CountTypes, PTL
    <2>3. CommandsOf(r)' \in Nat /\ CommandsOf(y)' \in Nat
      BY <2>2 DEF CountsOf, CommandsOf
    <2>4. CommandsOf(run[r].partner)' = CommandsOf(y)'
      BY <2>1 DEF CommandsOf
    <2>5. PlayerBeats(r)' = 0 /\ Owed(r)' = 0
      BY <1>4, <1>6 DEF Owed
    <2> QED
      BY <2>3, <2>4, <2>5
  <1> QED
    BY <1>4, <1>5, <1>7, <1>8, <1>10, <1>11, <1>12 DEF RuntimeInv

-----------------------------------------------------------------------------
(* The specification                                                       *)

(* The outcome on a row is kept, but for that of an overtaken score.       *)
Settled(r) == disk[r] # None /\ disk[r].status \in Ended
StaysSo(r)   == disk'[r] # None /\ disk'[r].status = disk[r].status
OutcomeKept == \A r \in Runs : Settled(r) => StaysSo(r) \/ Overtaken(r)

(* A write leaves the outcome of a run on disk, unless it is overtaken.    *)
LEMMA WritesKeepOutcome ==
  ASSUME RuntimeInv, NEW a \in Actors, NEW ops, Writes(a, ops)
  PROVE  OutcomeKept
  <1> SUFFICES ASSUME NEW r \in Runs, Settled(r)
               PROVE  StaysSo(r) \/ Overtaken(r)
    BY DEF OutcomeKept
  <1>1. /\ writing[a] # None /\ writing[a].id \in Runs /\ writing[a].row # None
        /\ disk' = [disk EXCEPT ![writing[a].id] = writing[a].row]
        /\ disk \in [Runs -> Run \cup {None}]
    BY WrittenRow DEF Writes
  <1>2. CASE r # writing[a].id
    BY <1>1, <1>2 DEF Settled, StaysSo
  <1>3. CASE r = writing[a].id
    <2>1. disk'[r] = writing[a].row
      BY <1>1, <1>3
    <2>2. run[r].status = disk[r].status
      BY DEF Settled, RuntimeInv, RowsLagRuns, TrueOf
    <2>3. CASE a = EventLoop
      BY <1>1, <1>3, <2>1, <2>2, <2>3 DEF RuntimeInv, LoopWrites, Loop, StaysSo
    <2>4. CASE a \in Threads
      BY <1>1, <1>3, <2>1, <2>4 DEF Overtaken, StaysSo, Settled
    <2> QED
      BY <2>3, <2>4 DEF Actors
  <1> QED
    BY <1>2, <1>3

(* No step changes an outcome on disk, unless the write is overtaken.      *)
LEMMA NextKeepsOutcome ==
  ASSUME RuntimeInv, Next
  PROVE  OutcomeKept
  <1> USE LoopIsActor
  <1>1. ASSUME disk' = disk
        PROVE  OutcomeKept
    BY <1>1 DEF OutcomeKept, Settled, StaysSo
  <1>2. ASSUME NEW r \in Runs, LoopStep(r)
        PROVE  disk' = disk
    BY <1>2 DEF LoopStep, StartAsync, StartSync, PlayStart, PlayNext, Cancel, Command
  <1>3. ASSUME NEW t \in Threads, ThreadStep(t)
        PROVE  disk' = disk
    BY <1>3 DEF ThreadStep, ReportScore, StartCoop, Reset
  <1>4. ASSUME NEW c \in Clients, PageStep(c)
        PROVE  disk' = disk
    BY <1>4 DEF PageStep, mission
  <1>5. ASSUME NEW a \in Actors, WriteStep(a)
        PROVE  OutcomeKept
    <2>1. CASE WriteFails(a)
      BY <1>1, <2>1 DEF WriteFails
    <2>2. CASE ~WriteFails(a)
      <3>1. \E ops : Writes(a, ops)
        BY <1>5, <2>2 DEF WriteStep, StartWritten, BeatWritten, OutcomeWritten, RedWritten, Written
      <3> QED
        BY <3>1, WritesKeepOutcome
    <2> QED
      BY <2>1, <2>2
  <1>6. CASE Stop
    BY <1>1, <1>6 DEF Stop
  <1>7. CASE Restart
    BY <1>7, RestartRows DEF OutcomeKept, Settled, StaysSo
  <1> QED
    BY <1>1, <1>2, <1>3, <1>4, <1>5, <1>6, <1>7 DEF Next

(* The invariant holds when the process starts.                            *)
LEMMA InitHolds == Init => RuntimeInv /\ NewsConfirmed
  <1> SUFFICES ASSUME Init
               PROVE  RuntimeInv /\ NewsConfirmed
    OBVIOUS
  <1>1. /\ run = [r \in Runs |-> None] /\ disk = [r \in Runs |-> None] /\ listed = {}
        /\ task = [r \in Runs |-> "none"] /\ beat = [r \in Runs |-> 0]
        /\ writing = [a \in Actors |-> None] /\ stopping = FALSE /\ faults = 0 /\ restarts = 0
        /\ StreamInit
    BY DEF Init
  <1>2. StreamInv /\ BeatTypes /\ NewsConfirmed /\ \A r \in Runs : replay[r] = <<>>
    BY <1>1, StreamStarts
  <1>3. Loop = None
    BY <1>1, LoopIsActor DEF Loop
  <1>4. MissionTypes
    <2>1. 0 \in 0 .. MaxFaults /\ 0 \in 0 .. MaxRestarts
      BY RuntimeAssumption
    <2>2. faults \in 0 .. MaxFaults /\ restarts \in 0 .. MaxRestarts /\ stopping \in BOOLEAN
      BY <1>1, <2>1
    <2>3. /\ run \in [Runs -> Run \cup {None}] /\ disk \in [Runs -> Run \cup {None}]
          /\ listed \subseteq {r \in Runs : run[r] # None}
          /\ task \in [Runs -> {"none", "queued", "sleeping"}]
          /\ writing \in [Actors -> Put \cup {None}]
      BY <1>1
    <2> QED
      BY <1>2, <2>2, <2>3 DEF MissionTypes, BeatTypes
  <1>5. Scheduled /\ LoopWrites /\ NoGhosts
    BY <1>1, <1>2, <1>3 DEF Scheduled, LoopWrites, NoGhosts
  <1>6. Pairs /\ RowsLagRuns /\ BeatsPaid
    BY <1>1 DEF Pairs, RowsLagRuns, BeatsPaid
  <1> QED
    BY <1>2, <1>4, <1>5, <1>6 DEF RuntimeInv

(* Every step keeps the invariant.                                         *)
LEMMA NextKeeps ==
  ASSUME RuntimeInv, Next
  PROVE  RuntimeInv' /\ NewsHeld
  <1> USE LoopIsActor
  <1>1. ASSUME NEW r \in Runs, LoopStep(r)
        PROVE  RuntimeInv' /\ NewsHeld
    BY <1>1, StartAsyncKeeps, StartSyncKeeps, PlayKeeps, CancelKeeps, CommandKeeps DEF LoopStep
  <1>2. ASSUME NEW t \in Threads, ThreadStep(t)
        PROVE  RuntimeInv' /\ NewsHeld
    BY <1>2, ReportScoreKeeps, StartCoopKeeps, ResetKeeps DEF ThreadStep
  <1>3. ASSUME NEW a \in Actors, WriteStep(a)
        PROVE  RuntimeInv' /\ NewsHeld
    BY <1>3, StartWrittenKeeps, BeatWrittenKeeps, OutcomeWrittenKeeps, RedWrittenKeeps,
       WrittenKeeps, WriteFailsKeeps DEF WriteStep
  <1>4. ASSUME NEW c \in Clients, PageStep(c)
        PROVE  RuntimeInv' /\ NewsHeld
    BY <1>4, PageStepKeeps
  <1> QED
    BY <1>1, <1>2, <1>3, <1>4, StopKeeps, RestartKeeps DEF Next

(* A step that changes nothing keeps the invariant.                        *)
LEMMA StutterKeeps ==
  ASSUME RuntimeInv, UNCHANGED vars
  PROVE  RuntimeInv' /\ NewsHeld /\ OutcomeKept
  <1>1. /\ UNCHANGED stream
        /\ UNCHANGED <<run, listed, disk, task, beat, writing, stopping, faults, restarts>>
    BY DEF vars, mission
  <1>2. StreamInv' /\ NewsHeld /\ replay' = replay
    BY <1>1, StreamStays DEF RuntimeInv
  <1>3. stopping' \in BOOLEAN
    BY <1>1 DEF RuntimeInv, MissionTypes
  <1>4. RuntimeInv'
    BY <1>1, <1>2, <1>3, RunsStay
  <1>5. OutcomeKept
    BY <1>1 DEF OutcomeKept, Settled, StaysSo
  <1> QED
    BY <1>2, <1>4, <1>5

(* The inductive invariant holds in every state.                           *)
THEOREM RuntimeInvariant == Spec => []RuntimeInv
  <1>1. Init => RuntimeInv
    BY InitHolds
  <1>2. RuntimeInv /\ [Next]_vars => RuntimeInv'
    BY NextKeeps, StutterKeeps
  <1> QED
    BY <1>1, <1>2, PTL DEF Spec

(* The state has its types: queues and replay buffers stay within their    *)
(* sizes, a registered client is connected, a listed run exists.           *)
THEOREM TypeCorrect == Spec => []TypeOK
  <1>1. RuntimeInv => TypeOK
    BY DEF RuntimeInv, StreamInv, MissionTypes, TypeOK
  <1> QED
    BY <1>1, RuntimeInvariant, PTL

(* Rows and pending rows are never ahead of their runs.                    *)
THEOREM RowsLag == Spec => []RowsLagRuns
  <1>1. RuntimeInv => RowsLagRuns
    BY DEF RuntimeInv
  <1> QED
    BY <1>1, RuntimeInvariant, PTL

(* A feed has no player's beat that no command of the run or its partner   *)
(* paid for.                                                               *)
THEOREM BeatsPaidFor == Spec => []BeatsAreCommands
  <1>1. RuntimeInv => BeatsAreCommands
    <2> SUFFICES ASSUME RuntimeInv, NEW r \in Runs, PlayerBeats(r) > 0
                 PROVE  PlayerBeats(r) <= CommandsOf(r) + CommandsOf(run[r].partner)
      BY DEF BeatsAreCommands
    <2>1. CountsOf
      BY CountTypes DEF RuntimeInv
    <2>2. run[r] # None
      BY <2>1 DEF RuntimeInv, NoGhosts, CountsOf
    <2>3. PICK q \in Runs \cup {None} : q = run[r].partner
      BY <2>2, RunTypes, RunFields DEF RuntimeInv
    <2>4. PlayerBeats(r) + Owed(r) <= CommandsOf(r) + CommandsOf(q)
      BY <2>2, <2>3 DEF RuntimeInv, BeatsPaid
    <2>5. CommandsOf(r) \in Nat /\ CommandsOf(q) \in Nat
      BY <2>1 DEF CountsOf, CommandsOf
    <2> QED
      BY <2>1, <2>3, <2>4, <2>5 DEF CountsOf
  <1> QED
    BY <1>1, RuntimeInvariant, PTL

(* A page shows beats of the script in the order of the script, whatever   *)
(* queues, buffers and late arrivals lost.                                 *)
THEOREM TimelineOrdered == Spec => []TimelineInOrder
  <1>1. RuntimeInv => TimelineInOrder
    BY DEF RuntimeInv, StreamInv, FeedsInOrder, ShownInOrder, TimelineInOrder
  <1> QED
    BY <1>1, RuntimeInvariant, PTL

(* Once a row says how a run ended, nothing but an overtaken score says    *)
(* otherwise.                                                              *)
THEOREM OutcomesStay == Spec => OutcomeStays
  <1>1. RuntimeInv /\ [Next]_vars => OutcomeKept
    BY NextKeepsOutcome, StutterKeeps
  <1>2. OutcomeKept => [\A r \in Runs : disk[r] # None /\ disk[r].status \in Ended
                          => \/ disk'[r] # None /\ disk'[r].status = disk[r].status
                             \/ Overtaken(r)]_disk
    BY DEF OutcomeKept, Settled, StaysSo
  <1> QED
    BY <1>1, <1>2, RuntimeInvariant, PTL DEF Spec, OutcomeStays

(* No thread is writing a row whose status is not that of the row on disk. *)
NoneOvertaken == \A r \in Runs : ~Overtaken(r)

(* A page announces a completion only if the row of the run confirms it,   *)
(* as long as no older row overtakes an outcome on disk.                   *)
THEOREM CompletionsConfirmed == Spec /\ []NoneOvertaken => []CompletionIsDurable
  <1>1. RuntimeInv /\ NewsConfirmed /\ NoneOvertaken /\ [Next]_vars => NewsConfirmed'
    <2> SUFFICES ASSUME RuntimeInv, NewsConfirmed, NoneOvertaken, [Next]_vars
                 PROVE  NewsConfirmed'
      OBVIOUS
    <2>1. NewsHeld /\ OutcomeKept
      BY NextKeeps, NextKeepsOutcome, StutterKeeps
    <2>2. \A r \in Runs : Confirmed(r) => Confirmed(r)'
      BY <2>1 DEF OutcomeKept, Settled, StaysSo, Confirmed, Ended, NoneOvertaken
    <2> QED
      BY <2>1, <2>2 DEF NewsHeld
  <1>2. NewsConfirmed => CompletionIsDurable
    BY DEF NewsConfirmed, CompletionIsDurable, Confirmed
  <1> QED
    BY <1>1, <1>2, InitHolds, RuntimeInvariant, PTL DEF Spec

(* Without co-op and reported scores, which are what threads write, no     *)
(* outcome overtakes anything.                                             *)
THEOREM LoopCompletionsConfirmed ==
  ASSUME Threads = {}
  PROVE  Spec => []CompletionIsDurable
  <1>1. NoneOvertaken
    BY DEF NoneOvertaken, Overtaken
  <1> QED
    BY <1>1, CompletionsConfirmed, PTL

=============================================================================
