-------------------------- MODULE MissionTimeline --------------------------
(***************************************************************************)
(* What reaches a page of a mission while no buffer of the hub overflows,  *)
(* and how many frames the buffers must hold for that.                     *)
(***************************************************************************)
EXTENDS MissionRuntimeProofs

-----------------------------------------------------------------------------
(* The inductive invariant                                                 *)

(* No replay buffer and no queue the hub feeds is full: nothing was        *)
(* dropped from it.                                                        *)
NothingFull ==
  /\ \A r \in Runs : Len(replay[r]) < ReplaySize
  /\ \A c \in registered : Len(queue[c]) < QueueSize

(* No replay buffer is full, and none of the queues of the clients C; what *)
(* happens to the queues of other clients does not matter.                 *)
NothingFullFor(C) ==
  /\ \A r \in Runs : Len(replay[r]) < ReplaySize
  /\ \A c \in registered \cap C : Len(queue[c]) < QueueSize

(* Beat i is among the frames s, or on the timeline t.                     *)
On(s, i)  == \E k \in DOMAIN s : s[k] = Beat(i)
Has(t, i) == \E k \in DOMAIN t : t[k] = i
Held(q, t, i) == Has(t, i) \/ On(q, i)

(* A replay buffer has every beat of the script that was played.           *)
Whole(s, n) == \A i \in 0 .. n - 1 : On(s, i)

(* What a page shows, and what is on the way to it, has every beat from    *)
(* the first one on; and a client that is fed has every beat played.       *)
ShownWhole(t) == \A i \in Nat : i > 0 /\ Has(t, i) => Has(t, i - 1)
Follows(q, t) == \A i \in Nat : i > 0 /\ On(q, i) => Held(q, t, i - 1)
UpTo(q, t, n) == \A i \in 0 .. n - 1 : Held(q, t, i)

(* Nothing is missing from a replay buffer, from a page of C, or between   *)
(* them.                                                                   *)
GapFree(C) ==
  /\ \A r \in Runs : Whole(replay[r], beat[r])
  /\ \A c \in C :
       /\ ShownWhole(timeline[c]) /\ Follows(queue[c], timeline[c])
       /\ c \in registered => UpTo(queue[c], timeline[c], beat[watch[c]])

-----------------------------------------------------------------------------
(* Sequences of frames                                                     *)

(* A buffer that is joined by frames has what it had and those.            *)
LEMMA JoinHas ==
  ASSUME NEW s \in Seq(Frame), NEW f \in Seq(Frame), NEW i \in Int
  PROVE  On(s \o f, i) <=> On(s, i) \/ On(f, i)
  <1>1. /\ DOMAIN (s \o f) = 1 .. Len(s) + Len(f) /\ DOMAIN s = 1 .. Len(s)
        /\ DOMAIN f = 1 .. Len(f) /\ Len(s) \in Nat /\ Len(f) \in Nat
    OBVIOUS
  <1>2. \A k \in DOMAIN s : k \in DOMAIN (s \o f) /\ (s \o f)[k] = s[k]
    OBVIOUS
  <1>3. \A k \in DOMAIN f : k + Len(s) \in DOMAIN (s \o f) /\ (s \o f)[k + Len(s)] = f[k]
    OBVIOUS
  <1>4. \A k \in DOMAIN (s \o f) :
          \/ k \in DOMAIN s /\ (s \o f)[k] = s[k]
          \/ k - Len(s) \in DOMAIN f /\ (s \o f)[k] = f[k - Len(s)]
    OBVIOUS
  <1> QED
    BY <1>2, <1>3, <1>4 DEF On

(* A queue after put_nowait of the frames f.                               *)
Filled(s, f, size) == FirstOf(s \o f, size)
(* It keeps what it had and gets nothing else; if it is not full then, it  *)
(* dropped nothing.                                                        *)
LEMMA FirstHas ==
  ASSUME NEW s \in Seq(Frame), NEW f \in Seq(Frame), NEW size \in Nat, Len(s) <= size,
         NEW i \in Int
  PROVE  /\ On(s, i) => On(Filled(s, f, size), i)
         /\ On(Filled(s, f, size), i) => On(s, i) \/ On(f, i)
         /\ Len(Filled(s, f, size)) < size => Filled(s, f, size) = s \o f
  <1>1. s \o f \in Seq(Frame) /\ Len(s \o f) = Len(s) + Len(f)
    OBVIOUS
  <1>2. CASE Len(s \o f) <= size
    <2>1. Filled(s, f, size) = s \o f
      BY <1>2 DEF FirstOf, Filled
    <2> QED
      BY <2>1, JoinHas
  <1>3. CASE ~(Len(s \o f) <= size)
    <2> DEFINE q == Filled(s, f, size)
    <2>1. q = SubSeq(s \o f, 1, size)
      BY <1>3 DEF FirstOf, Filled
    <2>2. DOMAIN q = 1 .. size /\ Len(q) = size /\ \A k \in 1 .. size : q[k] = (s \o f)[k]
      BY <1>1, <1>3, <2>1
    <2>3. \A k \in DOMAIN s : k \in DOMAIN q /\ q[k] = s[k]
      BY <2>2
    <2>4. \A k \in DOMAIN q : k \in DOMAIN (s \o f) /\ q[k] = (s \o f)[k]
      BY <1>1, <1>3, <2>2
    <2> HIDE DEF q
    <2>5. On(s, i) => On(q, i)
      BY <2>3 DEF On
    <2>6. On(q, i) => On(s \o f, i)
      BY <2>4 DEF On
    <2> QED
      BY <2>2, <2>5, <2>6, JoinHas DEF q
  <1> QED
    BY <1>2, <1>3

(* A replay buffer that is not full dropped nothing.                       *)
LEMMA LastHas ==
  ASSUME NEW s \in Seq(Frame), NEW size \in Nat, Len(LastOf(s, size)) < size
  PROVE  LastOf(s, size) = s
  <1>1. CASE Len(s) <= size
    BY <1>1 DEF LastOf
  <1>2. CASE ~(Len(s) <= size)
    BY <1>2 DEF LastOf
  <1> QED
    BY <1>1, <1>2

-----------------------------------------------------------------------------
(* What a step does to the feeds                                           *)

(* Runs publish, each the beats of its script that it plays in this step;  *)
(* or one is closed, with a last frame that is no beat; or nothing of it.  *)
Plays(out) ==
  \A r \in Runs : /\ out[r] \in Seq(Frame) /\ beat[r] <= beat'[r]
                  /\ \A i \in Nat : On(out[r], i) <=> beat[r] <= i /\ i < beat'[r]
Publishing == UNCHANGED page /\ \E out : PublishAll(out) /\ Plays(out)
Closing    == /\ UNCHANGED <<page, beat>>
              /\ \E r \in Runs, f \in Seq(Frame) :
                   /\ Aside(f) /\ (f = <<>> \/ f[1].type \in Terminal)
                   /\ PublishAndClose(r, f)
Silent     == UNCHANGED <<stream, beat>>
Lost       == StreamLost /\ beat' = [r \in Runs |-> 0]

(* Frames beside the script have no beat of it.                            *)
LEMMA AsideHasNone ==
  ASSUME NEW f, Aside(f), NEW i \in Nat
  PROVE  ~On(f, i)
  <1>1. Script(Beat(i))
    BY DEF Script, Beat, Player
  <1> QED
    BY <1>1 DEF On, Aside

(* What is published for one run only.                                     *)
LEMMA OnlyPlays ==
  ASSUME NEW r \in Runs, NEW f \in Seq(Frame), \A x \in Runs \ {r} : beat'[x] = beat[x],
         BeatTypes, beat[r] <= beat'[r],
         \A i \in Nat : On(f, i) <=> beat[r] <= i /\ i < beat'[r]
  PROVE  Plays([x \in Runs |-> IF x = r THEN f ELSE <<>>])
  <1>1. /\ <<>> \in Seq(Frame)
        /\ \A i \in Nat : ~On(<<>>, i)
    BY DEF On
  <1>2. \A x \in Runs : beat[x] \in Nat
    BY StreamAssumption DEF BeatTypes
  <1> QED
    BY <1>1, <1>2 DEF Plays

(* A beat of the script, with what the task published before it.           *)
LEMMA PlayBeatMoves ==
  ASSUME RuntimeInv, NEW r \in Runs, Loop = None, task[r] # "none",
         NEW before, before = <<>> \/ before = <<Mark("mission_started")>>,
         PlayBeat(r, before), UNCHANGED page
  PROVE  Publishing
  <1>1. beat[r] \in 0 .. NumBeats - 1 /\ BeatTypes /\ NumBeats \in Nat
    BY StreamAssumption DEF RuntimeInv, Scheduled, Settling, MissionTypes, BeatTypes
  <1>2. Aside(before)
    BY AsidesAre DEF Marks
  <1>3. CASE /\ Publish(r, before \o <<Beat(beat[r])>>)
             /\ beat' = [beat EXCEPT ![r] = @ + 1]
    <2>1. Beat(beat[r]) \in Frame /\ <<Beat(beat[r])>> \in Seq(Frame) /\ before \in Seq(Frame)
      BY <1>1, <1>2 DEF Aside, Beat, Frame, Player
    <2>2. ASSUME NEW i \in Nat
          PROVE  On(<<Beat(beat[r])>>, i) <=> i = beat[r]
      <3>1. Beat(beat[r]) = Beat(i) <=> i = beat[r]
        BY DEF Beat
      <3> QED
        BY <3>1 DEF On
    <2> DEFINE f == before \o <<Beat(beat[r])>>
    <2>3. /\ f \in Seq(Frame)
          /\ \A i \in Nat : On(f, i) <=> i = beat[r]
      <3>1. f \in Seq(Frame)
        BY <2>1
      <3>2. ASSUME NEW i \in Nat
            PROVE  On(f, i) <=> i = beat[r]
        <4> DEFINE g == <<Beat(beat[r])>>
        <4>1. On(f, i) <=> On(before, i) \/ On(g, i)
          <5>1. g \in Seq(Frame) /\ before \in Seq(Frame) /\ i \in Int
            BY <2>1
          <5> HIDE DEF g
          <5>2. On(before \o g, i) <=> On(before, i) \/ On(g, i)
            BY <5>1, JoinHas
          <5> QED
            BY <5>2, Zenon DEF g
        <4>2. ~On(before, i)
          BY <1>2, AsideHasNone
        <4> QED
          BY <2>2, <4>1, <4>2
      <3> QED
        BY <3>1, <3>2
    <2> HIDE DEF f
    <2>4. beat'[r] = beat[r] + 1 /\ \A x \in Runs \ {r} : beat'[x] = beat[x]
      BY <1>1, <1>3 DEF BeatTypes
    <2>5. \A i \in Nat : i = beat[r] <=> beat[r] <= i /\ i < beat'[r]
      BY <1>1, <2>4
    <2>6. Plays([x \in Runs |-> IF x = r THEN f ELSE <<>>])
      BY <1>1, <2>3, <2>4, <2>5, OnlyPlays
    <2>7. PublishAll([x \in Runs |-> IF x = r THEN f ELSE <<>>])
      BY <1>3 DEF Publish, f
    <2> QED
      BY <2>6, <2>7 DEF Publishing
  <1>4. CASE Publish(r, before) /\ beat' = beat
    <2>1. before \in Seq(Frame)
      BY <1>2 DEF Aside
    <2>2. \A i \in Nat : On(before, i) <=> beat[r] <= i /\ i < beat'[r]
      BY <1>1, <1>2, <1>4, AsideHasNone
    <2> QED
      BY <1>1, <1>4, <2>1, <2>2, OnlyPlays DEF Publishing, Publish
  <1> QED
    BY <1>3, <1>4 DEF PlayBeat

(* What a task does when it runs.                                          *)
LEMMA PlayMoves ==
  ASSUME RuntimeInv, NEW r \in Runs, PlayStart(r) \/ PlayNext(r)
  PROVE  Publishing
  <1>1. Loop = None /\ task[r] # "none" /\ UNCHANGED page
    BY DEF PlayStart, PlayNext, Free, Loop
  <1>2. CASE PlayBeat(r, <<>>) \/ PlayBeat(r, <<Mark("mission_started")>>)
    BY <1>1, <1>2, PlayBeatMoves
  <1>3. CASE /\ Publish(r, <<Mark("mission_started"), Mark("world_snapshot")>>)
             /\ UNCHANGED beat
    <2> DEFINE f == <<Mark("mission_started"), Mark("world_snapshot")>>
    <2>1. Aside(f) /\ f \in Seq(Frame)
      BY AsidesAre DEF Aside
    <2> HIDE DEF f
    <2>2. BeatTypes /\ beat[r] \in Nat
      BY StreamAssumption DEF RuntimeInv, MissionTypes, BeatTypes
    <2>3. Plays([x \in Runs |-> IF x = r THEN f ELSE <<>>])
      BY <1>3, <2>1, <2>2, AsideHasNone, OnlyPlays
    <2>4. Publish(r, f)
      BY <1>3 DEF f
    <2> QED
      BY <1>1, <2>3, <2>4 DEF Publishing, Publish
  <1> QED
    BY <1>2, <1>3 DEF PlayStart, PlayNext

(* The row of a put() is written, or its write raises.                     *)
LEMMA WriteMoves ==
  ASSUME RuntimeInv, NEW a \in Actors, WriteStep(a)
  PROVE  Silent \/ Publishing \/ Closing
  <1>1. BeatTypes /\ \A r \in Runs : beat[r] \in Nat
    BY StreamAssumption DEF RuntimeInv, MissionTypes, BeatTypes
  <1>2. CASE StartWritten \/ RedWritten(a) \/ Written(a)
    BY <1>2 DEF StartWritten, RedWritten, Written, Writes, Silent, stream
  <1>3. CASE BeatWritten
    <2> DEFINE out == [x \in Runs |-> IF x \in Audience(writing[EventLoop])
                                        THEN <<Beat(Player)>> ELSE <<>>]
    <2>1. PublishAll(out) /\ UNCHANGED <<page, beat>>
      BY <1>3 DEF BeatWritten, Writes
    <2>2. Aside(<<>>) /\ Aside(<<Beat(Player)>>)
      BY AsidesAre
    <2>3. \A x \in Runs : Aside(out[x])
      BY <2>2
    <2> HIDE DEF out
    <2>4. Plays(out)
      BY <1>1, <2>1, <2>3, AsideHasNone DEF Plays, Aside
    <2> QED
      BY <2>1, <2>4 DEF Publishing
  <1>4. CASE OutcomeWritten
    <2>1. Loop # None /\ Loop.op \in DOMAIN Outcome /\ Loop.id \in Runs /\ UNCHANGED <<page, beat>>
      BY <1>4, RunTypes, LoopIsActor DEF OutcomeWritten, Writes, Loop, RuntimeInv
    <2>2. Outcome[Loop.op] \in Marks
      BY <2>1 DEF Outcome, Marks
    <2>3. Aside(<<Mark(Outcome[Loop.op])>>)
      BY <2>2, AsidesAre
    <2>4. PublishAndClose(Loop.id, <<Mark(Outcome[Loop.op])>>)
      BY <1>4 DEF OutcomeWritten, Announced, Loop
    <2>5. <<Mark(Outcome[Loop.op])>>[1].type \in Terminal
      BY <2>1 DEF Outcome, Mark, Terminal
    <2> QED
      BY <2>1, <2>3, <2>4, <2>5 DEF Closing, Aside
  <1>5. CASE WriteFails(a)
    <2>1. writing[a] # None /\ writing[a].id \in Runs /\ UNCHANGED <<page, beat>>
      BY <1>5, RunTypes DEF WriteFails, RuntimeInv
    <2>2. CASE PublishAndClose(writing[a].id, <<>>)
      BY <2>1, <2>2, AsidesAre DEF Closing, Aside
    <2>3. CASE UNCHANGED hub
      BY <2>1, <2>3 DEF Silent, stream
    <2> QED
      BY <1>5, <2>2, <2>3 DEF WriteFails, NotAnnounced, Close
  <1> QED
    BY <1>2, <1>3, <1>4, <1>5 DEF WriteStep

(* What any step does to the feeds.                                        *)
LEMMA StepMoves ==
  ASSUME RuntimeInv, [Next]_vars
  PROVE  \/ Silent \/ Publishing \/ Closing \/ Lost
         \/ \E c \in Clients : PageStep(c)
  <1>1. CASE UNCHANGED vars
    BY <1>1 DEF vars, mission, Silent
  <1>2. CASE \E r \in Runs : LoopStep(r)
    <2>1. PICK r \in Runs : LoopStep(r)
      BY <1>2
    <2>2. CASE PlayStart(r) \/ PlayNext(r)
      BY <2>2, PlayMoves
    <2>3. CASE \/ \E p \in {"red", "blue"} : StartAsync(r, p) \/ StartSync(r, p)
               \/ Cancel(r) \/ \E op \in {"command", "player_beat"} : Command(r, op)
      BY <2>3 DEF StartAsync, StartSync, Cancel, Command, Silent
    <2> QED
      BY <2>1, <2>2, <2>3 DEF LoopStep
  <1>3. CASE \E t \in Threads : ThreadStep(t)
    BY <1>3 DEF ThreadStep, ReportScore, StartCoop, Reset, Silent
  <1>4. CASE \E a \in Actors : WriteStep(a)
    BY <1>4, WriteMoves
  <1>5. CASE Stop \/ Restart
    BY <1>5 DEF Stop, Restart, Silent, Lost
  <1> QED
    BY <1>1, <1>2, <1>3, <1>4, <1>5 DEF Next

-----------------------------------------------------------------------------
(* Every step keeps the feeds whole                                        *)

(* A queue that goes on with the beats from n to m.                        *)
LEMMA QueueGoesOn ==
  ASSUME NEW q \in Seq(Frame), NEW f \in Seq(Frame), NEW t, NEW n \in Nat, NEW m \in Nat,
         n <= m, \A i \in Nat : On(f, i) <=> n <= i /\ i < m,
         Follows(q, t), UpTo(q, t, n)
  PROVE  Follows(q \o f, t) /\ UpTo(q \o f, t, m)
  <1>1. \A i \in Nat : On(q \o f, i) <=> On(q, i) \/ On(f, i)
    BY JoinHas
  <1> DEFINE more == q \o f
  <1>2. \A i \in Nat : On(more, i) <=> On(q, i) \/ (n <= i /\ i < m)
    BY <1>1
  <1> HIDE DEF more
  <1>3. \A i \in Nat : Held(q, t, i) => Held(more, t, i)
    BY <1>2 DEF Held
  <1>4. \A i \in Nat : i < n => Held(q, t, i)
    BY DEF UpTo
  <1>5. \A i \in Nat : n <= i /\ i < m => Held(more, t, i)
    BY <1>2 DEF Held
  <1>6. \A i \in Nat : i < m => Held(more, t, i)
    <2>1. \A i \in Nat : i < n \/ n <= i
      OBVIOUS
    <2> QED
      BY <1>3, <1>4, <1>5, <2>1
  <1>7. UpTo(more, t, m)
    BY <1>6 DEF UpTo
  <1>8. Follows(more, t)
    <2>1. ASSUME NEW i \in Nat, i > 0, On(more, i)
          PROVE  Held(more, t, i - 1)
      <3>1. i - 1 \in Nat
        BY <2>1
      <3>2. CASE On(q, i)
        BY <2>1, <3>1, <3>2, <1>3 DEF Follows
      <3>3. CASE n <= i /\ i < m
        <4>1. i - 1 < m
          BY <3>3
        <4> QED
          BY <1>6, <3>1, <4>1
      <3> QED
        BY <1>2, <2>1, <3>2, <3>3
    <2> QED
      BY <2>1 DEF Follows
  <1> QED
    BY <1>7, <1>8 DEF more

(* What is published goes on where the replay buffers and the queues end.  *)
LEMMA PublishingKeepsWhole ==
  ASSUME NEW C \in SUBSET Clients, StreamInv, BeatTypes, BeatTypes',
         GapFree(C), NothingFullFor(C)', Publishing
  PROVE  GapFree(C)'
  <1>1. PICK out : PublishAll(out) /\ Plays(out) /\ UNCHANGED page
    BY DEF Publishing
  <1>2. /\ \A r \in Runs : /\ replay[r] \in Seq(Frame) /\ beat[r] \in Nat /\ beat'[r] \in Nat
                           /\ out[r] \in Seq(Frame)
        /\ ReplaySize \in Nat /\ QueueSize \in Nat
        /\ timeline' = timeline /\ watch' = watch /\ registered' = registered
    BY <1>1, StreamAssumption
       DEF StreamInv, StreamTypeOK, BeatTypes, Plays, page, PublishAll
  <1>3. ASSUME NEW r \in Runs
        PROVE  Whole(replay'[r], beat'[r])
    <2> DEFINE s == replay[r] \o out[r]
    <2>1. replay'[r] = LastOf(s, ReplaySize) /\ Len(replay'[r]) < ReplaySize
      BY <1>1 DEF PublishAll, NothingFullFor
    <2>2. s \in Seq(Frame)
      BY <1>2
    <2>3. \A i \in Nat : On(s, i) <=> On(replay[r], i) \/ On(out[r], i)
      BY <1>2, JoinHas
    <2> HIDE DEF s
    <2>4. replay'[r] = s
      BY <1>2, <2>1, <2>2, LastHas
    <2>5. \A i \in Nat : On(out[r], i) <=> beat[r] <= i /\ i < beat'[r]
      BY <1>1 DEF Plays
    <2>6. \A i \in Nat : i < beat[r] => On(replay[r], i)
      BY <1>2 DEF GapFree, Whole
    <2> QED
      BY <1>2, <2>3, <2>4, <2>5, <2>6 DEF Whole
  <1>4. ASSUME NEW c \in C
        PROVE  /\ ShownWhole(timeline'[c]) /\ Follows(queue'[c], timeline'[c])
               /\ c \in registered' => UpTo(queue'[c], timeline'[c], beat'[watch'[c]])
    <2>1. ShownWhole(timeline'[c])
      BY <1>2 DEF GapFree
    <2>2. CASE c \notin registered
      <3>1. queue'[c] = queue[c]
        BY <1>1, <2>2 DEF PublishAll
      <3> QED
        BY <1>2, <2>1, <2>2, <3>1 DEF GapFree
    <2>3. CASE c \in registered
      <3> DEFINE r == watch[c]
      <3>1. /\ r \in Runs /\ queue[c] \in Seq(Frame) /\ Len(queue[c]) <= QueueSize
        BY <2>3 DEF StreamInv, StreamTypeOK, Watching
      <3>2. /\ queue'[c] = FirstOf(queue[c] \o out[r], QueueSize)
            /\ Len(queue'[c]) < QueueSize
        BY <1>1, <1>2, <2>3 DEF PublishAll, Offered, NothingFullFor
      <3> HIDE DEF r
      <3>3. queue'[c] = queue[c] \o out[r]
        <4> DEFINE f == out[r]
        <4>1. f \in Seq(Frame)
          BY <1>2, <3>1
        <4> HIDE DEF f
        <4>2. Len(Filled(queue[c], f, QueueSize)) < QueueSize
                => Filled(queue[c], f, QueueSize) = queue[c] \o f
          BY <1>2, <3>1, <4>1, 0 \in Int, FirstHas
        <4> QED
          BY <3>2, <4>2 DEF f, Filled
      <3>4. /\ \A i \in Nat : On(out[r], i) <=> beat[r] <= i /\ i < beat'[r]
            /\ beat[r] <= beat'[r]
        BY <1>1, <3>1 DEF Plays
      <3>5. Follows(queue[c], timeline[c]) /\ UpTo(queue[c], timeline[c], beat[r])
        BY <2>3 DEF GapFree, r
      <3>6. /\ Follows(queue[c] \o out[r], timeline[c])
            /\ UpTo(queue[c] \o out[r], timeline[c], beat'[r])
        <4> DEFINE f == out[r]
        <4>1. f \in Seq(Frame) /\ \A i \in Nat : On(f, i) <=> beat[r] <= i /\ i < beat'[r]
          BY <1>2, <3>1, <3>4
        <4> HIDE DEF f
        <4>2. /\ Follows(queue[c] \o f, timeline[c])
              /\ UpTo(queue[c] \o f, timeline[c], beat'[r])
          BY <1>2, <3>1, <3>4, <3>5, <4>1, QueueGoesOn
        <4> QED
          BY <4>2 DEF f
      <3> QED
        BY <1>2, <2>1, <3>3, <3>6 DEF r
    <2> QED
      BY <2>2, <2>3
  <1> QED
    BY <1>3, <1>4 DEF GapFree

(* A stream that is closed loses no beat: what is on the way to a page     *)
(* stays on it.                                                            *)
LEMMA ClosingKeepsWhole ==
  ASSUME NEW C \in SUBSET Clients, StreamInv, BeatTypes, GapFree(C), NothingFullFor(C)', Closing
  PROVE  GapFree(C)'
  <1>1. PICK r \in Runs, f \in Seq(Frame) : Aside(f) /\ PublishAndClose(r, f)
    BY DEF Closing
  <1>2. /\ \A x \in Runs : replay[x] \in Seq(Frame) /\ beat[x] \in Nat
        /\ ReplaySize \in Nat /\ QueueSize \in Nat
        /\ timeline' = timeline /\ watch' = watch /\ beat' = beat
        /\ registered' = registered \ Fed(r)
    BY <1>1, StreamAssumption
       DEF StreamInv, StreamTypeOK, BeatTypes, Closing, page, PublishAndClose
  <1>3. ASSUME NEW x \in Runs
        PROVE  Whole(replay'[x], beat'[x])
    <2>1. CASE x # r
      BY <1>1, <1>2, <2>1 DEF PublishAndClose, GapFree, StreamInv, StreamTypeOK
    <2>2. CASE x = r
      <3> DEFINE s == replay[x] \o f
      <3>1. replay'[x] = LastOf(s, ReplaySize) /\ Len(replay'[x]) < ReplaySize
        BY <1>1, <2>2 DEF PublishAndClose, NothingFullFor, StreamInv, StreamTypeOK
      <3>2. s \in Seq(Frame)
        BY <1>2
      <3>3. \A i \in Nat : On(s, i) <=> On(replay[x], i) \/ On(f, i)
        BY <1>2, JoinHas
      <3> HIDE DEF s
      <3>4. replay'[x] = s
        BY <1>2, <3>1, <3>2, LastHas
      <3> QED
        BY <1>2, <3>3, <3>4 DEF GapFree, Whole
    <2> QED
      BY <2>1, <2>2
  <1>4. ASSUME NEW c \in C
        PROVE  /\ ShownWhole(timeline'[c]) /\ Follows(queue'[c], timeline'[c])
               /\ c \in registered' => UpTo(queue'[c], timeline'[c], beat'[watch'[c]])
    <2>1. ShownWhole(timeline'[c])
      BY <1>2 DEF GapFree
    <2>2. CASE c \notin Fed(r)
      <3>1. queue'[c] = queue[c]
        BY <1>1, <2>2 DEF PublishAndClose
      <3> QED
        BY <1>2, <2>1, <2>2, <3>1 DEF GapFree
    <2>3. CASE c \in Fed(r)
      <3> DEFINE g == Append(f, Sentinel)
      <3>1. /\ queue'[c] = FirstOf(queue[c] \o g, QueueSize)
            /\ queue[c] \in Seq(Frame) /\ Len(queue[c]) <= QueueSize
        BY <1>1, <2>3 DEF PublishAndClose, Offered, StreamInv, StreamTypeOK
      <3>2. g \in Seq(Frame) /\ Aside(g)
        <4>1. Sentinel \in Frame /\ ~Script(Sentinel)
          BY DEF Sentinel, Mark, Frame, Marks, Script
        <4> QED
          BY <1>1, <4>1 DEF Aside
      <3> HIDE DEF g
      <3>3. ASSUME NEW i \in Nat
            PROVE  On(queue'[c], i) <=> On(queue[c], i)
        <4>1. /\ On(queue[c], i) => On(Filled(queue[c], g, QueueSize), i)
              /\ On(Filled(queue[c], g, QueueSize), i) => On(queue[c], i) \/ On(g, i)
          BY <1>2, <3>1, <3>2, FirstHas
        <4>2. ~On(g, i)
          BY <3>2, AsideHasNone
        <4> QED
          BY <3>1, <4>1, <4>2 DEF Filled
      <3>4. Follows(queue'[c], timeline[c])
        <4>1. ASSUME NEW i \in Nat, i > 0, On(queue'[c], i)
              PROVE  Held(queue'[c], timeline[c], i - 1)
          <5>1. i - 1 \in Nat /\ On(queue[c], i)
            BY <3>3, <4>1
          <5>2. Held(queue[c], timeline[c], i - 1)
            BY <4>1, <5>1 DEF GapFree, Follows
          <5> QED
            BY <3>3, <5>1, <5>2 DEF Held
        <4> QED
          BY <4>1 DEF Follows
      <3> QED
        BY <1>2, <2>1, <2>3, <3>4
    <2> QED
      BY <2>2, <2>3
  <1> QED
    BY <1>3, <1>4 DEF GapFree

(* A page that receives a frame shows what was on the way to it; the beat  *)
(* before it is not behind it in the queue, so the page has shown that.    *)
LEMMA ShowingKeepsWhole ==
  ASSUME NEW q \in Seq(Frame), q # <<>>, InOrder(q),
         NEW t \in Seq(Player .. NumBeats - 1), NEW n \in Nat,
         ShownWhole(t), Follows(q, t)
  PROVE  LET u == Shown(t, Head(q)) IN
           /\ ShownWhole(u) /\ Follows(Tail(q), u)
           /\ UpTo(q, t, n) => UpTo(Tail(q), u, n)
  <1> DEFINE u == Shown(t, Head(q))
             rest == Tail(q)
             h == Head(q)
  <1>1. /\ h \in Frame /\ h = q[1] /\ 1 \in DOMAIN q
        /\ \A k \in DOMAIN rest : k + 1 \in DOMAIN q /\ rest[k] = q[k + 1]
        /\ \A k \in DOMAIN q : k = 1 \/ (k - 1 \in DOMAIN rest /\ rest[k - 1] = q[k])
    OBVIOUS
  <1>2. ASSUME NEW i \in Nat
        PROVE  On(q, i) <=> h = Beat(i) \/ On(rest, i)
    <2> HIDE DEF u, rest, h
    <2> QED
      BY <1>1 DEF On
  <1>3. ASSUME NEW i \in Nat
        PROVE  Has(u, i) <=> Has(t, i) \/ h = Beat(i)
    <2>1. h = Beat(i) <=> h.type = "beat" /\ h.index = i
      BY <1>1 DEF Frame, Beat, Marks
    <2>2. CASE h.type = "beat" /\ ~(\E k \in DOMAIN t : t[k] = h.index)
      <3>1. h.index \in Player .. NumBeats - 1
        BY <1>1, <2>2 DEF Frame, Marks
      <3>2. u = Append(t, h.index)
        BY <2>2 DEF Shown
      <3>3. /\ DOMAIN u = 1 .. Len(t) + 1 /\ u[Len(t) + 1] = h.index
            /\ \A k \in DOMAIN t : k \in DOMAIN u /\ u[k] = t[k]
            /\ \A k \in DOMAIN u : k \in DOMAIN t \/ k = Len(t) + 1
        <4> HIDE DEF u, h
        <4>1. DOMAIN t = 1 .. Len(t) /\ Len(t) \in Nat
          OBVIOUS
        <4>2. DOMAIN u = 1 .. Len(t) + 1
          BY <3>1, <3>2, <4>1
        <4>3. u[Len(t) + 1] = h.index
          BY <3>1, <3>2, <4>1
        <4>4. \A k \in 1 .. Len(t) : u[k] = t[k]
          BY <3>1, <3>2, <4>1
        <4> QED
          BY <4>1, <4>2, <4>3, <4>4
      <3>4. Has(u, i) <=> Has(t, i) \/ h.index = i
        <4> HIDE DEF u
        <4>1. Len(t) + 1 \in DOMAIN u
          BY <3>3
        <4> QED
          BY <3>3, <4>1 DEF Has
      <3> HIDE DEF u, h
      <3> QED
        BY <2>1, <2>2, <3>4
    <2>3. CASE ~(h.type = "beat" /\ ~(\E k \in DOMAIN t : t[k] = h.index))
      <3>1. u = t
        BY <2>3 DEF Shown
      <3> HIDE DEF u
      <3>2. h = Beat(i) => Has(t, i)
        BY <2>1, <2>3 DEF Has
      <3> QED
        BY <3>1, <3>2
    <2> QED
      BY <2>2, <2>3
  <1> HIDE DEF u, rest, h
  <1>4. \A i \in Nat : Held(q, t, i) <=> Held(rest, u, i)
    BY <1>3, <1>2 DEF Held
  <1>5. UpTo(q, t, n) => UpTo(rest, u, n)
    BY <1>4 DEF UpTo
  <1>6. Follows(rest, u)
    <2>1. ASSUME NEW i \in Nat, i > 0, On(rest, i)
          PROVE  Held(rest, u, i - 1)
      <3>1. i - 1 \in Nat /\ On(q, i)
        BY <1>2, <2>1
      <3>2. Held(q, t, i - 1)
        BY <2>1, <3>1 DEF Follows
      <3> QED
        BY <1>4, <3>1, <3>2
    <2> QED
      BY <2>1 DEF Follows
  <1>7. ShownWhole(u)
    <2>1. ASSUME NEW i \in Nat, i > 0, Has(u, i)
          PROVE  Has(u, i - 1)
      <3>1. i - 1 \in Nat
        BY <2>1
      <3>2. CASE Has(t, i)
        <4>1. Has(t, i - 1)
          BY <2>1, <3>2 DEF ShownWhole
        <4> QED
          BY <1>3, <3>1, <4>1
      <3>3. CASE h = Beat(i)
        <4>1. On(q, i)
          BY <1>2, <3>3
        <4>2. Held(q, t, i - 1)
          BY <2>1, <4>1 DEF Follows
        <4>3. ASSUME NEW k \in DOMAIN q, q[k] = Beat(i - 1)
              PROVE  FALSE
          <5>1. Script(Beat(i)) /\ Script(Beat(i - 1)) /\ Beat(i).index = i
                /\ Beat(i - 1).index = i - 1
            BY <3>1 DEF Script, Beat, Player
          <5> DEFINE earlier == Beat(i - 1)
                     later   == Beat(i)
          <5>2. k # 1
            <6>1. q[1] = later /\ q[k] = earlier /\ later.index = i /\ earlier.index = i - 1
              BY <1>1, <3>3, <4>3, <5>1
            <6> HIDE DEF earlier, later
            <6> QED
              BY <6>1
          <5>3. k \in Nat /\ 1 < k
            BY <4>3, <5>2
          <5>4. q[1].index < q[k].index
            <6>1. /\ 1 \in DOMAIN q /\ q[1] = later /\ q[k] = earlier
                  /\ Script(q[1]) /\ Script(q[k])
              BY <1>1, <3>3, <4>3, <5>1, <5>3
            <6> HIDE DEF earlier, later
            <6> QED
              BY <4>3, <5>3, <6>1 DEF InOrder
          <5> QED
            BY <1>1, <3>3, <4>3, <5>1, <5>4
        <4>4. Has(t, i - 1)
          BY <4>2, <4>3 DEF Held, On
        <4> QED
          BY <1>3, <3>1, <4>4
      <3> QED
        BY <1>3, <2>1, <3>2, <3>3
    <2> QED
      BY <2>1 DEF ShownWhole
  <1> QED
    BY <1>5, <1>6, <1>7 DEF u, rest, h

(* A page that opens a stream is given a backlog with every beat played.   *)
LEMMA BacklogIsWhole ==
  ASSUME NEW s \in Seq(Frame), NEW b \in Seq(Frame), NEW n \in Nat,
         Whole(s, n), Before(s, n), \A i \in Nat : On(b, i) <=> On(s, i)
  PROVE  ShownWhole(<<>>) /\ Follows(b, <<>>) /\ UpTo(b, <<>>, n)
  <1>1. \A i \in Nat : On(b, i) <=> i < n
    <2>1. ASSUME NEW i \in Nat, On(s, i)
          PROVE  i < n
      <3>1. PICK k \in DOMAIN s : s[k] = Beat(i)
        BY <2>1 DEF On
      <3>2. Script(Beat(i)) /\ Beat(i).index = i
        BY DEF Script, Beat, Player
      <3> QED
        BY <3>1, <3>2 DEF Before
    <2>2. \A i \in Nat : i < n => On(s, i)
      BY DEF Whole
    <2> QED
      BY <2>1, <2>2
  <1>2. ShownWhole(<<>>)
    BY DEF ShownWhole, Has
  <1>3. Follows(b, <<>>)
    <2>1. \A i \in Nat : i > 0 /\ i < n => i - 1 \in Nat /\ i - 1 < n
      OBVIOUS
    <2> QED
      BY <1>1, <2>1 DEF Follows, Held
  <1>4. UpTo(b, <<>>, n)
    BY <1>1 DEF UpTo, Held
  <1> QED
    BY <1>2, <1>3, <1>4

(* What a page does keeps every feed whole.                                *)
LEMMA PagesKeepWhole ==
  ASSUME NEW C \in SUBSET Clients, StreamInv, MissionTypes, BeatTypes,
         GapFree(C), NothingFullFor(C)', NEW c \in Clients, PageStep(c)
  PROVE  GapFree(C)'
  <1>1. /\ beat' = beat /\ replay' = replay /\ QueueSize \in Nat
        /\ \A r \in Runs : replay[r] \in Seq(Frame) /\ beat[r] \in Nat
    BY StreamAssumption
       DEF PageStep, Watch, Receive, Leave, mission, StreamInv, StreamTypeOK, BeatTypes
  <1>2. \A r \in Runs : Whole(replay'[r], beat'[r])
    BY <1>1 DEF GapFree
  <1>3. \A x \in Clients \ {c} : /\ queue'[x] = queue[x] /\ timeline'[x] = timeline[x]
                                 /\ watch'[x] = watch[x]
                                 /\ x \in registered' <=> x \in registered
    BY DEF PageStep, Watch, Receive, Leave, Disconnect, StreamInv, StreamTypeOK
  <1> DEFINE Mine == /\ ShownWhole(timeline'[c]) /\ Follows(queue'[c], timeline'[c])
                     /\ c \in registered' =>
                          UpTo(queue'[c], timeline'[c], beat'[watch'[c]])
  <1>4. ASSUME c \in C, NEW r \in listed, Watch(c, r), r \in Runs
        PROVE  Mine
    <2>1. timeline'[c] = <<>> /\ watch'[c] = r
      BY <1>4 DEF Watch, StreamInv, StreamTypeOK
    <2>2. /\ Whole(replay[r], beat[r]) /\ Before(replay[r], beat[r])
          /\ beat[r] \in Nat /\ replay[r] \in Seq(Frame)
      BY <1>1, <1>4 DEF GapFree, StreamInv, FeedsInOrder
    <2>3. Len(Backlog(r)) < QueueSize => Backlog(r) = replay[r]
      <3>1. Len(replay[r]) \in Nat
        BY <2>2
      <3>2. CASE Len(replay[r]) <= QueueSize
        BY <3>2 DEF Backlog, FirstOf
      <3>3. CASE ~(Len(replay[r]) <= QueueSize)
        <4>1. Len(SubSeq(replay[r], 1, QueueSize)) = QueueSize
          BY <1>1, <2>2, <3>1, <3>3
        <4> QED
          BY <1>1, <3>3, <4>1 DEF Backlog, FirstOf
      <3> QED
        BY <3>2, <3>3
    <2>4. CASE r \notin closed
      <3>1. queue'[c] = Backlog(r) /\ c \in registered'
        BY <1>4, <2>4 DEF Watch, StreamInv, StreamTypeOK
      <3>2. queue'[c] = replay[r]
        BY <1>4, <2>3, <3>1 DEF NothingFullFor
      <3>3. ShownWhole(<<>>) /\ Follows(replay[r], <<>>) /\ UpTo(replay[r], <<>>, beat[r])
        BY <2>2, BacklogIsWhole
      <3> QED
        BY <1>1, <2>1, <3>2, <3>3
    <2>5. CASE r \in closed /\ Len(Backlog(r)) < QueueSize
      <3>1. queue'[c] = Append(replay[r], Sentinel)
        <4>1. ~(Len(Backlog(r)) >= QueueSize)
          <5>1. Backlog(r) = replay[r] /\ Len(replay[r]) \in Nat
            BY <2>2, <2>3, <2>5
          <5> QED
            BY <1>1, <2>5, <5>1
        <4>2. queue'[c] = ClosedBacklog(r)
          BY <1>4, <2>5, <4>1 DEF Watch, StreamInv, StreamTypeOK
        <4> QED
          BY <2>3, <2>5, <4>2, Zenon DEF ClosedBacklog
      <3> DEFINE end == <<Sentinel>>
                 b   == replay[r] \o end
      <3>2. Aside(end) /\ end \in Seq(Frame) /\ queue'[c] = b
        <4>1. Sentinel \in Frame /\ ~Script(Sentinel)
          BY DEF Sentinel, Mark, Frame, Marks, Script
        <4> DEFINE z == Sentinel
        <4>2. replay[r] \o <<z>> = Append(replay[r], z)
          <5> HIDE DEF z
          <5>1. z \in Frame
            BY <4>1 DEF z
          <5> QED
            BY <2>2, <5>1
        <4>3. DOMAIN <<z>> = {1} /\ <<z>>[1] = z
          <5> HIDE DEF z
          <5> QED
            OBVIOUS
        <4>4. <<z>> \in Seq(Frame)
          <5> HIDE DEF z
          <5>1. z \in Frame
            BY <4>1 DEF z
          <5> QED
            BY <5>1
        <4>5. Aside(end)
          BY <4>1, <4>3, <4>4 DEF Aside
        <4> QED
          BY <3>1, <4>2, <4>4, <4>5
      <3> HIDE DEF end
      <3>3. b \in Seq(Frame) /\ \A i \in Nat : On(b, i) <=> On(replay[r], i)
        <4>1. \A i \in Nat : On(b, i) <=> On(replay[r], i) \/ On(end, i)
          BY <2>2, <3>2, JoinHas
        <4> QED
          BY <2>2, <3>2, <4>1, AsideHasNone
      <3> HIDE DEF b
      <3>4. ShownWhole(<<>>) /\ Follows(b, <<>>) /\ UpTo(b, <<>>, beat[r])
        BY <2>2, <3>3, BacklogIsWhole
      <3> QED
        BY <1>1, <2>1, <3>2, <3>4
    <2>6. CASE r \in closed /\ ~(Len(Backlog(r)) < QueueSize)
      <3>1. queue' = queue /\ registered' = registered /\ c \notin connected
        BY <1>4, <2>6 DEF Watch
      <3>2. queue'[c] = <<>> /\ c \notin registered'
        BY <3>1 DEF StreamInv, StreamTypeOK, Watching
      <3>3. Follows(<<>>, <<>>) /\ ShownWhole(<<>>)
        BY DEF Follows, On, ShownWhole, Has
      <3> QED
        BY <2>1, <3>2, <3>3
    <2> QED
      BY <2>4, <2>5, <2>6
  <1>5. ASSUME c \in C, Receive(c)
        PROVE  Mine
    <2> DEFINE q == queue[c]
               t == timeline[c]
               u == Shown(t, Head(q))
    <2>1. /\ q \in Seq(Frame) /\ q # <<>> /\ t \in Seq(Player .. NumBeats - 1)
          /\ InOrder(q) /\ ShownWhole(t) /\ Follows(q, t)
          /\ timeline'[c] = u /\ watch' = watch
      BY <1>5 DEF Receive, StreamInv, StreamTypeOK, FeedsInOrder, GapFree
    <2>2. \/ queue'[c] = Tail(q) /\ registered' = registered
          \/ queue'[c] = <<>> /\ c \notin registered'
      BY <1>5 DEF Receive, Disconnect, StreamInv, StreamTypeOK
    <2> HIDE DEF q, t
    <2>3. \A n \in Nat : /\ ShownWhole(u) /\ Follows(Tail(q), u)
                         /\ UpTo(q, t, n) => UpTo(Tail(q), u, n)
      BY <2>1, ShowingKeepsWhole
    <2> HIDE DEF u
    <2>4. Follows(<<>>, u)
      BY DEF Follows, On
    <2>5. c \in registered => UpTo(q, t, beat[watch[c]]) /\ beat[watch[c]] \in Nat
      BY <1>1, <1>5 DEF q, t, GapFree, StreamInv, StreamTypeOK, Watching
    <2>6. CASE queue'[c] = Tail(q) /\ registered' = registered
      BY <1>1, <2>1, <2>3, <2>5, <2>6
    <2>7. CASE queue'[c] = <<>> /\ c \notin registered'
      BY <2>1, <2>3, <2>4, <2>7, 0 \in Nat
    <2> QED
      BY <2>2, <2>6, <2>7
  <1>6. ASSUME c \in C, Leave(c)
        PROVE  Mine
    <2>1. timeline'[c] = <<>> /\ queue'[c] = <<>> /\ c \notin registered'
      BY <1>6 DEF Leave, Disconnect, StreamInv, StreamTypeOK
    <2> QED
      BY <2>1 DEF ShownWhole, Has, Follows, On
  <1>7. ASSUME c \in C
        PROVE  Mine
    <2>1. \A r \in listed : r \in Runs
      BY DEF MissionTypes
    <2> HIDE DEF Mine
    <2> QED
      BY <1>4, <1>5, <1>6, <1>7, <2>1 DEF PageStep
  <1> HIDE DEF Mine
  <1>8. \A x \in C :
          /\ ShownWhole(timeline'[x]) /\ Follows(queue'[x], timeline'[x])
          /\ x \in registered' => UpTo(queue'[x], timeline'[x], beat'[watch'[x]])
    BY <1>1, <1>3, <1>7 DEF Mine, GapFree
  <1> QED
    BY <1>2, <1>8 DEF GapFree

(* A server that stops takes the feeds with it; pages keep what they show. *)
LEMMA LossKeepsWhole ==
  ASSUME NEW C \in SUBSET Clients, StreamTypeOK, GapFree(C), Lost
  PROVE  GapFree(C)'
  <1>1. /\ \A r \in Runs : replay'[r] = <<>> /\ beat'[r] = 0
        /\ \A c \in Clients : queue'[c] = <<>>
        /\ registered' = {} /\ timeline' = timeline
    BY DEF Lost, StreamLost, NewHub
  <1>2. Whole(<<>>, 0) /\ \A t : Follows(<<>>, t)
    BY DEF Whole, Follows, On
  <1>3. \A c \in C : ShownWhole(timeline'[c])
    BY <1>1 DEF GapFree
  <1> QED
    BY <1>1, <1>2, <1>3 DEF GapFree

(* At the start there is nothing to be whole.                              *)
LEMMA WholeAtFirst ==
  ASSUME NEW C \in SUBSET Clients, Init
  PROVE  GapFree(C)
  <1>1. /\ \A r \in Runs : replay[r] = <<>> /\ beat[r] = 0
        /\ \A c \in Clients : queue[c] = <<>> /\ timeline[c] = <<>>
        /\ registered = {}
    BY DEF Init, StreamInit, NewHub
  <1>2. Whole(<<>>, 0) /\ ShownWhole(<<>>) /\ Follows(<<>>, <<>>)
    BY DEF Whole, Follows, ShownWhole, On, Has
  <1> QED
    BY <1>1, <1>2 DEF GapFree

(* Every step that fills no buffer keeps the feeds whole.                  *)
LEMMA NextKeepsWhole ==
  ASSUME NEW C \in SUBSET Clients, RuntimeInv, RuntimeInv',
         GapFree(C), NothingFullFor(C)', [Next]_vars
  PROVE  GapFree(C)'
  <1>1. StreamInv /\ StreamTypeOK /\ MissionTypes /\ BeatTypes /\ BeatTypes'
    BY DEF RuntimeInv, StreamInv, MissionTypes, BeatTypes
  <1>2. CASE Silent
    BY <1>2 DEF Silent, stream, hub, page, GapFree
  <1>3. CASE Publishing \/ Closing \/ Lost \/ \E c \in Clients : PageStep(c)
    BY <1>1, <1>3, PublishingKeepsWhole, ClosingKeepsWhole, LossKeepsWhole, PagesKeepWhole
  <1> QED
    BY <1>2, <1>3, StepMoves

(* Whole feeds in order show the script beat by beat.                      *)
LEMMA WholeIsScript ==
  ASSUME NEW C \in SUBSET Clients, RuntimeInv, GapFree(C), NEW c \in C
  PROVE  ShowsScript(c)
  <1> SUFFICES ASSUME NEW k \in DOMAIN timeline[c],
                      timeline[c][k] # Player
               PROVE  /\ \A j \in 1 .. k - 1 : timeline[c][j] < timeline[c][k]
                      /\ timeline[c][k] > 0 =>
                           \E j \in 1 .. k - 1 : timeline[c][j] = timeline[c][k] - 1
    BY DEF ShowsScript
  <1> DEFINE t == timeline[c]
  <1>1. t \in Seq(Player .. NumBeats - 1) /\ ShownInOrder(t) /\ ShownWhole(t)
    BY DEF RuntimeInv, StreamInv, StreamTypeOK, FeedsInOrder, GapFree
  <1> HIDE DEF t
  <1>2. /\ k \in 1 .. Len(t) /\ \A j \in 1 .. Len(t) : t[j] \in Int /\ t[j] >= Player
        /\ t[k] # Player
    <2>1. k \in DOMAIN t /\ t[k] # Player
      BY DEF t
    <2>2. Player \in Int /\ NumBeats \in Int
      BY StreamAssumption DEF Player
    <2> QED
      BY <1>1, <2>1, <2>2
  <1>3. \A j \in 1 .. k - 1 : t[j] < t[k]
    <2>1. ASSUME NEW j \in 1 .. k - 1
          PROVE  t[j] < t[k]
      <3>1. j \in DOMAIN t /\ j < k /\ k \in DOMAIN t
        BY <1>1, <1>2
      <3>2. CASE t[j] = Player
        BY <1>2, <3>1, <3>2 DEF Player
      <3>3. CASE t[j] # Player
        BY <1>1, <1>2, <3>1, <3>3 DEF ShownInOrder
      <3> QED
        BY <3>2, <3>3
    <2> QED
      BY <2>1
  <1>4. ASSUME t[k] > 0
        PROVE  \E j \in 1 .. k - 1 : t[j] = t[k] - 1
    <2>1. t[k] \in Nat /\ Has(t, t[k])
      BY <1>1, <1>2, <1>4 DEF Has
    <2>2. Has(t, t[k] - 1)
      BY <1>1, <1>4, <2>1 DEF ShownWhole
    <2>3. PICK j \in DOMAIN t : t[j] = t[k] - 1
      BY <2>2 DEF Has
    <2>4. j \in 1 .. Len(t) /\ j # k /\ t[j] # Player
      BY <1>1, <1>2, <1>4, <2>1, <2>3 DEF Player
    <2>5. ~(k < j)
      <3>1. k < j => t[k] < t[j]
        BY <1>1, <1>2, <2>4 DEF ShownInOrder
      <3> QED
        BY <2>1, <2>3, <3>1
    <2> QED
      BY <1>2, <2>3, <2>4, <2>5
  <1> QED
    BY <1>3, <1>4 DEF t

(* A page shows the script from its first beat on, in order and without a  *)
(* gap between backlog and live frames, as long as neither a replay buffer *)
(* nor the queue of this page is full: readers too slow for their own      *)
(* queues cost other pages nothing.                                        *)
THEOREM ReadersAreApart ==
  ASSUME NEW C \in SUBSET Clients
  PROVE  Spec /\ []NothingFullFor(C) => [](\A c \in C : ShowsScript(c))
  <1>1. Init => GapFree(C)
    BY WholeAtFirst
  <1>2. RuntimeInv /\ RuntimeInv' /\ GapFree(C) /\ NothingFullFor(C)' /\ [Next]_vars
          => GapFree(C)'
    BY NextKeepsWhole
  <1>3. RuntimeInv /\ GapFree(C) => \A c \in C : ShowsScript(c)
    BY WholeIsScript
  <1> QED
    BY <1>1, <1>2, <1>3, RuntimeInvariant, PTL DEF Spec

(* As long as no buffer is full, all pages do.                             *)
THEOREM TimelineComplete == Spec /\ []NothingFull => []TimelineIsScript
  <1>1. Init => GapFree(Clients)
    BY WholeAtFirst
  <1>2. RuntimeInv /\ RuntimeInv' /\ GapFree(Clients) /\ NothingFull' /\ [Next]_vars
          => GapFree(Clients)'
    <2>1. NothingFull' => NothingFullFor(Clients)'
      BY DEF NothingFull, NothingFullFor
    <2> QED
      BY <2>1, NextKeepsWhole
  <1>3. RuntimeInv /\ GapFree(Clients) => TimelineIsScript
    BY WholeIsScript DEF TimelineIsScript
  <1> QED
    BY <1>1, <1>2, <1>3, RuntimeInvariant, PTL DEF Spec

-----------------------------------------------------------------------------
(* How much the buffers must hold                                          *)

(* The frames of a buffer that no player's command paid for.               *)
Others(s) == {k \in DOMAIN s : s[k] # Beat(Player)}
NumOf(s)  == Cardinality(Others(s))

(* Frames beside the beats of its script that a run may still publish: how *)
(* it starts and how it ends, or the two frames of a red one.              *)
Waiting(r) == task[r] = "queued" \/ (Loop # None /\ Loop.op = "start" /\ Loop.id = r)
Left(r) == IF Settling(r) THEN 1
           ELSE IF Waiting(r) THEN 2
           ELSE IF task[r] = "sleeping" THEN 1 ELSE 0
RoomLeft == \A r \in Runs : NumOf(replay[r]) + Left(r) <= 2 + beat[r]

(* A queue has no more than the backlog it started with and what was       *)
(* published since, which the replay buffer has as well.                   *)
QueuesFit == \A c \in registered : Len(queue[c]) <= Len(replay[watch[c]])

(* Buffers that hold the script, what is said of its start and end, and a  *)
(* beat for every command of a run and its partner.                        *)
Most       == 2 + NumBeats + 2 * MaxCommands
RoomEnough == Most < ReplaySize /\ Most < QueueSize
ReplayFits == \A r \in Runs : Len(replay[r]) \in Nat /\ Len(replay[r]) <= Most

(* The frames of a buffer are the player's beats and the others.           *)
LEMMA FramesAre ==
  ASSUME NEW s \in Seq(Frame)
  PROVE  /\ IsFiniteSet(Others(s)) /\ NumOf(s) \in Nat
         /\ Cardinality(ByPlayer(s)) \in Nat
         /\ Len(s) = Cardinality(ByPlayer(s)) + NumOf(s)
  <1>1. Len(s) \in Nat /\ DOMAIN s = 1 .. Len(s)
    OBVIOUS
  <1>2. IsFiniteSet(1 .. Len(s)) /\ Cardinality(1 .. Len(s)) = Len(s)
    BY <1>1, FS_Interval
  <1>3. IsFiniteSet(Others(s)) /\ IsFiniteSet(ByPlayer(s))
    <2>1. Others(s) \in SUBSET (1 .. Len(s)) /\ ByPlayer(s) \in SUBSET (1 .. Len(s))
      BY <1>1 DEF Others, ByPlayer
    <2> QED
      BY <1>2, <2>1, FS_Subset
  <1>4. /\ ByPlayer(s) \cup Others(s) = 1 .. Len(s)
        /\ ByPlayer(s) \cap Others(s) = {}
    BY <1>1 DEF Others, ByPlayer
  <1>5. /\ Cardinality(ByPlayer(s)) \in Nat /\ Cardinality(Others(s)) \in Nat
        /\ Cardinality({}) = 0
    BY <1>3, FS_CardinalityType, FS_EmptySet
  <1>6. Cardinality(1 .. Len(s))
          = Cardinality(ByPlayer(s)) + Cardinality(Others(s)) - Cardinality({})
    BY <1>3, <1>4, FS_Union
  <1> QED
    BY <1>2, <1>3, <1>5, <1>6 DEF NumOf

(* A part of a buffer has no more of them.                                 *)
LEMMA PartHasFewer ==
  ASSUME NEW s \in Seq(Frame), NEW t \in Seq(Frame), Part(t, s)
  PROVE  NumOf(t) <= NumOf(s)
  <1>1. PICK d \in Nat : /\ Len(t) + d <= Len(s)
                         /\ \A k \in 1 .. Len(t) : t[k] = s[k + d]
    BY DEF Part
  <1>2. \A k \in DOMAIN t : k \in Nat /\ k + d \in DOMAIN s /\ t[k] = s[k + d]
    BY <1>1
  <1> DEFINE f == [k \in Others(t) |-> k + d]
  <1>3. f \in [Others(t) -> Others(s)]
    BY <1>2 DEF Others
  <1>4. \A a, b \in Others(t) : f[a] = f[b] => a = b
    BY <1>2 DEF Others
  <1>5. f \in Injection(Others(t), Others(s))
    BY <1>3, <1>4 DEF Injection, IsInjective
  <1> QED
    BY <1>5, FramesAre, FS_Injection DEF NumOf

(* The frames that are joined to a buffer, if they are not all a player's. *)
Weight(f) == IF Others(f) = {} THEN 0 ELSE Len(f)
Trimmed(s, f, size) == LastOf(s \o f, size)
(* A buffer that is joined by frames has at most those more.               *)
LEMMA TrimmedHas ==
  ASSUME NEW s \in Seq(Frame), NEW f \in Seq(Frame), NEW size \in Nat
  PROVE  /\ NumOf(Trimmed(s, f, size)) <= NumOf(s) + Weight(f)
         /\ NumOf(Trimmed(s, f, size)) \in Nat
  <1> DEFINE j == s \o f
             q == LastOf(j, size)
  <1>1. /\ j \in Seq(Frame) /\ Len(j) = Len(s) + Len(f)
        /\ \A i \in 1 .. Len(j) : j[i] = IF i <= Len(s) THEN s[i] ELSE f[i - Len(s)]
    BY ConcatProperties
  <1>2. Len(s) \in Nat /\ Len(f) \in Nat
    OBVIOUS
  <1> HIDE DEF j
  <1>3. q \in Seq(Frame) /\ Part(q, j)
    BY <1>1, LastOfIsPart
  <1> HIDE DEF q
  <1>4. NumOf(q) <= NumOf(j) /\ NumOf(q) \in Nat /\ NumOf(j) \in Nat /\ NumOf(s) \in Nat
    BY <1>1, <1>3, PartHasFewer, FramesAre
  <1>5. \A i \in DOMAIN j : \/ i \in DOMAIN s /\ j[i] = s[i]
                            \/ i \in Len(s) + 1 .. Len(s) + Len(f) /\ j[i] = f[i - Len(s)]
                               /\ i - Len(s) \in DOMAIN f
    BY <1>1, <1>2
  <1>6. NumOf(j) <= NumOf(s) + Weight(f)
    <2>1. CASE Others(f) = {}
      <3>1. Others(j) \in SUBSET Others(s)
        BY <1>5, <2>1 DEF Others
      <3>2. NumOf(j) <= NumOf(s)
        BY <3>1, FramesAre, FS_Subset DEF NumOf
      <3> QED
        BY <1>4, <2>1, <3>2 DEF Weight
    <2>2. CASE Others(f) # {}
      <3> DEFINE added == Len(s) + 1 .. Len(s) + Len(f)
      <3>1. IsFiniteSet(added) /\ Cardinality(added) = Len(f)
        <4>1. Len(s) + 1 \in Int /\ Len(s) + Len(f) \in Int
          BY <1>2
        <4>2. /\ IsFiniteSet(added)
              /\ Cardinality(added) = IF Len(s) + 1 > Len(s) + Len(f) THEN 0
                                      ELSE (Len(s) + Len(f)) - (Len(s) + 1) + 1
          BY <4>1, FS_Interval
        <4> HIDE DEF added
        <4> QED
          BY <1>2, <4>2
      <3>2. Others(j) \subseteq Others(s) \cup added
        BY <1>5 DEF Others
      <3> HIDE DEF added
      <3>3. /\ IsFiniteSet(Others(s)) /\ IsFiniteSet(Others(s) \cup added)
            /\ Cardinality(Others(s) \cup added)
                 = Cardinality(Others(s)) + Cardinality(added) - Cardinality(Others(s) \cap added)
        BY <3>1, FramesAre, FS_Union
      <3>4. Cardinality(Others(s) \cap added) \in Nat
        <4>1. Others(s) \cap added \in SUBSET added
          OBVIOUS
        <4> QED
          BY <3>1, <4>1, FS_Subset, FS_CardinalityType
      <3>5. Cardinality(Others(j)) <= Cardinality(Others(s) \cup added)
        BY <3>2, <3>3, FS_Subset
      <3> QED
        BY <1>2, <1>4, <2>2, <3>1, <3>3, <3>4, <3>5 DEF NumOf, Weight
    <2> QED
      BY <2>1, <2>2
  <1>7. Weight(f) \in Nat
    BY <1>2 DEF Weight
  <1> QED
    BY <1>4, <1>6, <1>7 DEF j, q, Trimmed

(* Frames that are of one kind.                                            *)
LEMMA Weights ==
  /\ Weight(<<>>) = 0 /\ Weight(<<Beat(Player)>>) = 0
  /\ \A f \in Seq(Frame) : Weight(f) \in Nat /\ Weight(f) <= Len(f)
  <1>1. Others(<<>>) = {} /\ Others(<<Beat(Player)>>) = {}
    BY DEF Others
  <1>2. \A f \in Seq(Frame) : Len(f) \in Nat
    OBVIOUS
  <1> QED
    BY <1>1, <1>2 DEF Weight

(* What a run may still say, when the loop is not about to say it.         *)
Busy(r) == Loop # None /\ Loop.id = r /\ Loop.op \in DOMAIN Outcome \cup {"start"}
Scheduling(r) == IF task[r] = "queued" THEN 2 ELSE IF task[r] = "sleeping" THEN 1 ELSE 0
(* What may still be said is two frames at most.                           *)
LEMMA LeftIs ==
  ASSUME NEW r \in Runs
  PROVE  /\ Left(r) \in 0 .. 2 /\ (~Busy(r) => Left(r) = Scheduling(r))
         /\ Settling(r) => Left(r) = 1
  BY DEF Left, Busy, Settling, Waiting, Scheduling

(* It stays the same if neither the task nor the loop's write changes, or  *)
(* if the loop writes nothing of what matters, before and after.           *)
LEMMA LeftStays ==
  ASSUME NEW r \in Runs, task'[r] = task[r],
         Loop' = Loop \/ (~Busy(r) /\ ~Busy(r)')
  PROVE  Left(r)' = Left(r)
  <1>1. CASE Loop' = Loop
    BY <1>1 DEF Left, Settling, Waiting
  <1>2. CASE ~Busy(r) /\ ~Busy(r)'
    BY <1>2 DEF Left, Busy, Settling, Waiting
  <1> QED
    BY <1>1, <1>2

(* A run has room for what it says if what it may say later gives way.     *)
RoomFor(r) == NumOf(replay[r]) + Left(r) <= 2 + beat[r]
Gives(r, w) == /\ w \in Nat /\ NumOf(replay'[r]) <= NumOf(replay[r]) + w
               /\ w + Left(r)' + beat[r] <= Left(r) + beat'[r]
(* A run that says no more than it gives up leaves room.                   *)
LEMMA GivenRoom ==
  ASSUME RuntimeInv, RuntimeInv', NEW r \in Runs, RoomFor(r), NEW w, Gives(r, w)
  PROVE  RoomFor(r)'
  <1>1. replay[r] \in Seq(Frame) /\ replay'[r] \in Seq(Frame)
    BY DEF RuntimeInv, StreamInv, StreamTypeOK
  <1>2. NumOf(replay[r]) \in Nat /\ NumOf(replay'[r]) \in Nat
    BY <1>1, FramesAre
  <1>3. beat[r] \in Nat /\ beat'[r] \in Nat
    BY StreamAssumption DEF RuntimeInv, MissionTypes
  <1>4. Left(r) \in Nat /\ Left(r)' \in Nat
    BY DEF Left
  <1>5. w \in Nat /\ NumOf(replay'[r]) <= NumOf(replay[r]) + w
        /\ w + Left(r)' + beat[r] <= Left(r) + beat'[r]
    BY DEF Gives
  <1>6. NumOf(replay[r]) + Left(r) <= 2 + beat[r]
    BY DEF RoomFor
  <1>7. NumOf(replay'[r]) + Left(r)' <= 2 + beat'[r]
    BY <1>2, <1>3, <1>4, <1>5, <1>6
  <1> QED
    BY <1>7 DEF RoomFor

(* A run that nothing is said of.                                          *)
LEMMA NothingSaid ==
  ASSUME RuntimeInv, RuntimeInv', NEW r \in Runs, RoomFor(r),
         replay'[r] = replay[r], beat'[r] = beat[r], Left(r)' <= Left(r)
  PROVE  RoomFor(r)'
  <1>1. NumOf(replay[r]) \in Nat /\ beat[r] \in Nat /\ Left(r) \in Nat /\ Left(r)' \in Nat
    BY FramesAre, StreamAssumption
       DEF RuntimeInv, StreamInv, StreamTypeOK, MissionTypes, Left
  <1>2. Gives(r, 0)
    BY <1>1 DEF Gives
  <1> QED
    BY <1>2, GivenRoom

(* What a run publishes is added to its buffer.                            *)
LEMMA SaidIsAdded ==
  ASSUME RuntimeInv, NEW r \in Runs, NEW f \in Seq(Frame),
         replay'[r] = LastOf(replay[r] \o f, ReplaySize)
  PROVE  NumOf(replay'[r]) <= NumOf(replay[r]) + Weight(f)
  <1>1. replay[r] \in Seq(Frame) /\ ReplaySize \in Nat
    BY StreamAssumption DEF RuntimeInv, StreamInv, StreamTypeOK
  <1> DEFINE s == replay[r]
  <1> HIDE DEF s
  <1>2. NumOf(Trimmed(s, f, ReplaySize)) <= NumOf(s) + Weight(f)
    BY <1>1, TrimmedHas DEF s
  <1> QED
    BY <1>2, Zenon DEF s, Trimmed

(* What put() leaves the loop to write.                                    *)
LEMMA LoopPuts ==
  ASSUME RuntimeInv, NEW r, NEW row, NEW op, PutRun(EventLoop, r, row, op)
  PROVE  Loop'.op = op /\ Loop'.id = r
  BY LoopIsActor DEF RuntimeInv, MissionTypes, PutRun, Loop

(* Calls of players that only change the store leave room,                 *)
LEMMA CallsLeaveRoom ==
  ASSUME RuntimeInv, RuntimeInv', RoomLeft, NEW r \in Runs, NEW p \in {"red", "blue"},
         NEW op \in {"command", "player_beat"},
         StartAsync(r, p) \/ StartSync(r, p) \/ Command(r, op)
  PROVE  RoomLeft'
  <1>1. /\ replay' = replay /\ beat' = beat /\ task' = task /\ Loop = None
    BY DEF StartAsync, StartSync, Command, stream, hub, Free, Loop
  <1>2. CASE StartSync(r, p) \/ Command(r, op)
    <2>1. Loop'.op \in {"sync", "command", "player_beat"}
      BY <1>2, LoopPuts DEF StartSync, Command
    <2>2. \A x \in Runs : ~Busy(x) /\ ~Busy(x)'
      BY <1>1, <2>1 DEF Busy, Outcome
    <2>3. \A x \in Runs : Left(x)' = Left(x) /\ Left(x) \in Int
      BY <1>1, <2>2, LeftStays, LeftIs
    <2> QED
      BY <1>1, <2>3, NothingSaid DEF RoomLeft, RoomFor
  <1>3. CASE StartAsync(r, p)
    <2>1. Loop'.id = r
      BY <1>3, LoopPuts DEF StartAsync
    <2>2. ASSUME NEW x \in Runs \ {r}
          PROVE  RoomFor(x)'
      <3>1. ~Busy(x) /\ ~Busy(x)'
        BY <1>1, <2>1 DEF Busy
      <3>2. Left(x)' = Left(x) /\ Left(x) \in Int
        BY <1>1, <3>1, LeftStays, LeftIs
      <3> QED
        BY <1>1, <3>2, NothingSaid DEF RoomLeft, RoomFor
    <2>3. RoomFor(r)'
      <3>1. replay'[r] = <<>> /\ beat'[r] = 0
        BY <1>1, <1>3, FreshHasNoTask DEF StartAsync, Fresh, RuntimeInv, NoGhosts
      <3>2. NumOf(<<>>) = 0
        <4>1. Others(<<>>) = {}
          BY DEF Others
        <4> QED
          BY <4>1, FS_EmptySet DEF NumOf
      <3>3. Left(r)' \in 0 .. 2
        BY DEF Left
      <3> QED
        BY <3>1, <3>2, <3>3 DEF RoomFor
    <2> QED
      BY <2>2, <2>3 DEF RoomLeft, RoomFor
  <1> QED
    BY <1>2, <1>3

(* and so does a task that is cancelled.                                   *)
LEMMA CancelLeavesRoom ==
  ASSUME RuntimeInv, RuntimeInv', RoomLeft, NEW r \in Runs, Cancel(r)
  PROVE  RoomLeft'
  <1>1. /\ replay' = replay /\ beat' = beat /\ Loop = None
    BY DEF Cancel, stream, hub, Loop
  <1>2. ASSUME NEW x \in Runs
        PROVE  Left(x)' <= Left(x) /\ Left(x) \in Int
    <2>1. ~Busy(x) /\ Left(x) = Scheduling(x) /\ Left(x) \in Int
      BY <1>1, LeftIs DEF Busy
    <2>2. CASE task[r] = "sleeping" /\ task' = task
               /\ PutRun(EventLoop, r, [run[r] EXCEPT !.status = "aborted"], "abort")
      <3>1. Loop'.id = r /\ Loop'.op = "abort"
        BY <2>2, LoopPuts
      <3>2. CASE x = r
        <4>1. Left(r) = 1
          BY <2>1, <2>2, <3>2 DEF Scheduling
        <4>2. Left(r)' = 1
          BY <2>2, <3>1 DEF Left, Settling, Waiting, Outcome
        <4> QED
          BY <3>2, <4>1, <4>2
      <3>3. CASE x # r
        <4>1. ~Busy(x)'
          BY <3>1, <3>3 DEF Busy
        <4> QED
          BY <2>1, <2>2, <4>1, LeftStays
      <3> QED
        BY <3>2, <3>3
    <2>3. CASE task[r] = "queued" /\ TaskDone(r) /\ UNCHANGED writing
      <3>1. ~Busy(x)' /\ Left(x)' = Scheduling(x)'
        <4>1. Loop' = None
          BY <1>1, <2>3 DEF Loop
        <4> QED
          BY <4>1 DEF Busy, Left, Settling, Waiting, Scheduling
      <3>2. task' = [task EXCEPT ![r] = "none"] /\ task \in [Runs -> {"none", "queued", "sleeping"}]
        BY <2>3 DEF TaskDone, RuntimeInv, MissionTypes
      <3> QED
        BY <2>1, <3>1, <3>2 DEF Scheduling
    <2> QED
      BY <2>2, <2>3 DEF Cancel
  <1> QED
    BY <1>1, <1>2, NothingSaid DEF RoomLeft, RoomFor

(* Threads write nothing of a schedule.                                    *)
LEMMA ThreadsLeaveRoom ==
  ASSUME RuntimeInv, RuntimeInv', RoomLeft, NEW t \in Threads, ThreadStep(t)
  PROVE  RoomLeft'
  <1>1. replay' = replay /\ beat' = beat /\ task' = task
    BY DEF ThreadStep, ReportScore, StartCoop, Reset, stream, hub
  <1>2. Loop' = Loop
    BY LoopIsActor
       DEF ThreadStep, ReportScore, StartCoop, Reset, PutRun, Loop, RuntimeInv, MissionTypes
  <1>3. \A x \in Runs : Left(x)' = Left(x) /\ Left(x) \in Int
    BY <1>1, <1>2, LeftStays, LeftIs
  <1> QED
    BY <1>1, <1>3, NothingSaid DEF RoomLeft, RoomFor

(* A row that is written, or refused, of what no run says.                 *)
LEMMA SilentWritesLeaveRoom ==
  ASSUME RuntimeInv, RuntimeInv', RoomLeft, NEW a \in Actors,
         \/ StartWritten \/ Written(a)
         \/ a \in Threads /\ RedWritten(a)
         \/ WriteFails(a) /\ UNCHANGED <<hub, task>>
  PROVE  RoomLeft'
  <1>1. replay' = replay /\ beat' = beat /\ writing \in [Actors -> Put \cup {None}]
    BY DEF StartWritten, RedWritten, Written, WriteFails, Writes, hub, RuntimeInv, MissionTypes
  <1>2. ASSUME NEW x \in Runs
        PROVE  Left(x)' <= Left(x) /\ Left(x) \in Int
    <2>1. Left(x) \in 0 .. 2
      BY LeftIs
    <2>2. CASE a # EventLoop /\ ~StartWritten
      <3>1. Loop' = Loop /\ task' = task
        BY <1>1, <2>2, LoopIsActor DEF Loop, RedWritten, Written, WriteFails, Returns
      <3> QED
        BY <2>1, <3>1, LeftStays
    <2>3. CASE StartWritten
      <3>1. /\ Loop # None /\ Loop.op = "start" /\ Loop' = None
            /\ task' = [task EXCEPT ![Loop.id] = "queued"]
        BY <1>1, <2>3, LoopIsActor DEF StartWritten, Writes, Returns, Loop
      <3>2. CASE x = Loop.id
        <4>1. Left(x) = 2
          BY <3>1, <3>2 DEF Left, Settling, Waiting, Outcome
        <4>2. Left(x)' \in 0 .. 2
          BY DEF Left
        <4> QED
          BY <4>1, <4>2
      <3>3. CASE x # Loop.id
        <4>1. task'[x] = task[x] /\ ~Busy(x) /\ ~Busy(x)'
          BY <3>1, <3>3 DEF Busy, RuntimeInv, MissionTypes
        <4> QED
          BY <2>1, <4>1, LeftStays
      <3> QED
        BY <3>2, <3>3
    <2>4. CASE a = EventLoop /\ ~StartWritten
      <3>1. /\ Loop # None /\ Loop' = None /\ task' = task
            /\ Written(a) => Loop.op \notin DOMAIN Outcome
        BY <1>1, <2>4, LoopIsActor, RuntimeAssumption
           DEF Written, WriteFails, Writes, Returns, Loop, Outcome
      <3>2. Left(x)' = Scheduling(x)
        BY <3>1 DEF Left, Settling, Waiting, Scheduling
      <3>3. CASE Settling(x)
        <4>1. WriteFails(a) /\ Loop.op \in DOMAIN Outcome /\ Loop.id = x
          BY <2>4, <3>1, <3>3, RuntimeAssumption DEF Settling
        <4>2. task'[x] = "none"
          BY <2>4, <4>1 DEF WriteFails, TaskDone, Loop, RuntimeInv, MissionTypes
        <4> QED
          BY <2>1, <3>1, <3>2, <4>2 DEF Scheduling
      <3>4. CASE ~Settling(x)
        BY <3>2, <3>4 DEF Left, Waiting, Scheduling
      <3> QED
        BY <3>3, <3>4
    <2> QED
      BY <2>2, <2>3, <2>4
  <1> QED
    BY <1>1, <1>2, NothingSaid DEF RoomLeft, RoomFor

(* A player's beat takes the room its command paid for.                    *)
LEMMA BeatLeavesRoom ==
  ASSUME RuntimeInv, RuntimeInv', RoomLeft, BeatWritten
  PROVE  RoomLeft'
  <1>1. /\ beat' = beat /\ task' = task /\ Loop # None /\ Loop.op = "player_beat" /\ Loop' = None
    BY LoopIsActor DEF BeatWritten, Writes, Returns, Loop, RuntimeInv, MissionTypes
  <1>2. ASSUME NEW x \in Runs
        PROVE  RoomFor(x)'
    <2>1. ~Busy(x) /\ ~Busy(x)'
      BY <1>1 DEF Busy, Outcome
    <2>2. Left(x)' = Left(x) /\ Left(x) \in Int
      BY <1>1, <2>1, LeftStays, LeftIs
    <2>3. \/ replay'[x] = LastOf(replay[x] \o <<Beat(Player)>>, ReplaySize)
          \/ replay'[x] = LastOf(replay[x] \o <<>>, ReplaySize)
      BY DEF BeatWritten, PublishAll
    <2>4. <<Beat(Player)>> \in Seq(Frame) /\ <<>> \in Seq(Frame)
      BY AsidesAre DEF Aside
    <2>5. NumOf(replay'[x]) <= NumOf(replay[x]) + 0
      BY <2>3, <2>4, SaidIsAdded, Weights
    <2>6. beat[x] \in Int
      BY StreamAssumption DEF RuntimeInv, MissionTypes
    <2>7. Gives(x, 0)
      BY <1>1, <2>2, <2>5, <2>6 DEF Gives
    <2> QED
      BY <2>7, GivenRoom DEF RoomLeft, RoomFor
  <1> QED
    BY <1>2 DEF RoomLeft, RoomFor

(* How a run ended is the last it says.                                    *)
LEMMA OutcomeLeavesRoom ==
  ASSUME RuntimeInv, RuntimeInv', RoomLeft, NEW r \in Runs, NEW f \in Seq(Frame), Len(f) <= 1,
         Settling(r), PublishAndClose(r, f), TaskDone(r), Loop' = None, beat' = beat
  PROVE  RoomLeft'
  <1>1. /\ replay \in [Runs -> Seq(Frame)] /\ task \in [Runs -> {"none", "queued", "sleeping"}]
        /\ beat[r] \in Int
    BY StreamAssumption DEF RuntimeInv, MissionTypes, StreamInv, StreamTypeOK
  <1>2. ASSUME NEW x \in Runs, x # r
        PROVE  RoomFor(x)'
    <2>1. replay'[x] = replay[x] /\ task'[x] = task[x] /\ ~Busy(x) /\ ~Busy(x)'
      BY <1>1, <1>2 DEF PublishAndClose, TaskDone, Busy, Settling
    <2>2. Left(x)' = Left(x) /\ Left(x) \in Int
      BY <2>1, LeftStays, LeftIs
    <2> QED
      BY <2>1, <2>2, NothingSaid DEF RoomLeft, RoomFor
  <1>3. RoomFor(r)'
    <2>1. /\ replay'[r] = LastOf(replay[r] \o f, ReplaySize) /\ task'[r] = "none"
      BY <1>1 DEF PublishAndClose, TaskDone
    <2>2. Left(r) = 1
      BY <1>1, LeftIs
    <2>3. Left(r)' = 0
      BY <2>1 DEF Left, Settling, Waiting
    <2>4. /\ NumOf(replay'[r]) <= NumOf(replay[r]) + Weight(f)
          /\ Weight(f) \in Nat /\ Weight(f) <= 1
      <3>1. Weight(f) \in Nat /\ Weight(f) <= Len(f) /\ Len(f) \in Nat
        BY Weights
      <3> QED
        BY <2>1, <3>1, SaidIsAdded
    <2>5. Gives(r, Weight(f))
      BY <1>1, <2>2, <2>3, <2>4 DEF Gives
    <2> QED
      BY <2>5, GivenRoom DEF RoomLeft, RoomFor
  <1> QED
    BY <1>2, <1>3 DEF RoomLeft, RoomFor

(* A row that is written, or refused, leaves room.                         *)
LEMMA WritesLeaveRoom ==
  ASSUME RuntimeInv, RuntimeInv', RoomLeft, NEW a \in Actors, WriteStep(a)
  PROVE  RoomLeft'
  <1>1. CASE StartWritten \/ (a \in Threads /\ RedWritten(a)) \/ Written(a)
    <2>1. CASE StartWritten
      BY <2>1, SilentWritesLeaveRoom
    <2>2. CASE a \in Threads /\ RedWritten(a)
      BY <2>2, SilentWritesLeaveRoom
    <2>3. CASE Written(a)
      BY <2>3, SilentWritesLeaveRoom
    <2> QED
      BY <1>1, <2>1, <2>2, <2>3
  <1>2. CASE BeatWritten
    BY <1>2, BeatLeavesRoom
  <1>3. CASE OutcomeWritten
    <2> DEFINE r == Loop.id
               f == <<Mark(Outcome[Loop.op])>>
    <2>1. /\ Loop # None /\ Loop.op \in DOMAIN Outcome /\ Loop' = None /\ r \in Runs
          /\ PublishAndClose(r, f) /\ TaskDone(r) /\ beat' = beat
      BY <1>3, RunTypes, LoopIsActor
         DEF OutcomeWritten, Writes, Announced, Returns, Loop, RuntimeInv, MissionTypes
    <2>2. Outcome[Loop.op] \in Marks
      BY <2>1 DEF Outcome, Marks
    <2>3. f \in Seq(Frame) /\ Len(f) <= 1
      <3> DEFINE type == Outcome[Loop.op]
      <3>1. type \in Marks
        BY <2>2
      <3> HIDE DEF type
      <3>2. <<Mark(type)>> \in Seq(Frame)
        BY <3>1, AsidesAre DEF Aside
      <3>3. Len(<<Mark(type)>>) <= 1
        OBVIOUS
      <3> QED
        BY <3>2, <3>3 DEF type
    <2>4. Settling(r)
      BY <2>1 DEF Settling
    <2>5. \A x \in Runs, g \in Seq(Frame) :
            /\ Settling(x) /\ Len(g) <= 1 /\ PublishAndClose(x, g) /\ TaskDone(x)
            /\ Loop' = None /\ beat' = beat
            => RoomLeft'
      BY OutcomeLeavesRoom
    <2> QED
      BY <2>1, <2>3, <2>4, <2>5, Zenon
  <1>4. CASE WriteFails(a) /\ UNCHANGED <<hub, task>>
    BY <1>4, SilentWritesLeaveRoom
  <1>5. CASE WriteFails(a) /\ ~UNCHANGED <<hub, task>>
    <2> DEFINE r == writing[a].id
    <2>1. /\ writing[a] # None /\ writing[a].op \in DOMAIN Outcome /\ r \in Runs
          /\ PublishAndClose(r, <<>>) /\ TaskDone(r) /\ beat' = beat
      BY <1>5, RunTypes DEF WriteFails, NotAnnounced, Close, RuntimeInv
    <2>2. a = EventLoop
      BY <2>1 DEF RuntimeInv, Pairs, Outcome
    <2>3. Settling(r) /\ Loop' = None
      BY <1>5, <2>1, <2>2, LoopIsActor
         DEF Settling, Loop, WriteFails, Returns, RuntimeInv, MissionTypes
    <2>4. <<>> \in Seq(Frame) /\ Len(<<>>) <= 1
      OBVIOUS
    <2>5. \A x \in Runs, g \in Seq(Frame) :
            /\ Settling(x) /\ Len(g) <= 1 /\ PublishAndClose(x, g) /\ TaskDone(x)
            /\ Loop' = None /\ beat' = beat
            => RoomLeft'
      BY OutcomeLeavesRoom
    <2> QED
      BY <2>1, <2>3, <2>4, <2>5, Zenon
  <1> QED
    BY <1>1, <1>2, <1>3, <1>4, <1>5 DEF WriteStep

(* The loop puts how r ended: it settles it.                               *)
LEMMA PuttingSettles ==
  ASSUME RuntimeInv, NEW r \in Runs, run[r] # None, NEW s \in Ended, NEW op \in DOMAIN Outcome,
         PutRun(EventLoop, r, [run[r] EXCEPT !.status = s], op)
  PROVE  Settling(r)'
  <1> DEFINE row == [run[r] EXCEPT !.status = s]
  <1>1. run[r] \in Run /\ s \in Status
    BY RunTypes DEF RuntimeInv, Status, Ended
  <1>2. row \in Run
    BY <1>1 DEF Run
  <1>3. op \in Ops /\ PutRun(EventLoop, r, row, op)
    BY DEF Outcome, Ops
  <1> HIDE DEF row
  <1>4. writing'[EventLoop] # None /\ writing'[EventLoop].op = op /\ writing'[EventLoop].id = r
    BY <1>2, <1>3, PutIs, LoopIsActor DEF RuntimeInv
  <1> QED
    BY <1>4 DEF Settling, Loop

(* What a run publishes while the others are silent.                       *)
LEMMA PublishLeavesRoom ==
  ASSUME RuntimeInv, RuntimeInv', RoomLeft, NEW r \in Runs, Loop = None,
         NEW f \in Seq(Frame), Publish(r, f),
         \A x \in Runs \ {r} : beat'[x] = beat[x] /\ task'[x] = task[x],
         Loop' = None \/ Loop'.id = r, Len(f) + Left(r)' + beat[r] <= Scheduling(r) + beat'[r]
  PROVE  RoomLeft'
  <1>1. /\ replay'[r] = LastOf(replay[r] \o f, ReplaySize)
        /\ \A x \in Runs \ {r} : replay'[x] = LastOf(replay[x] \o <<>>, ReplaySize)
    BY DEF Publish, PublishAll
  <1>2. <<>> \in Seq(Frame) /\ \A x \in Runs : beat[x] \in Int /\ beat'[x] \in Int
    BY StreamAssumption DEF RuntimeInv, MissionTypes
  <1>3. ASSUME NEW x \in Runs \ {r}
        PROVE  RoomFor(x)'
    <2>1. ~Busy(x) /\ ~Busy(x)'
      BY DEF Busy
    <2>2. Left(x)' = Left(x) /\ Left(x) \in Int
      BY <2>1, LeftStays, LeftIs
    <2>3. NumOf(replay'[x]) <= NumOf(replay[x]) + 0
      BY <1>1, <1>2, SaidIsAdded, Weights
    <2>4. Gives(x, 0)
      BY <1>2, <2>2, <2>3 DEF Gives
    <2> QED
      BY <2>4, GivenRoom DEF RoomLeft, RoomFor
  <1>4. RoomFor(r)'
    <2>1. Left(r) = Scheduling(r) /\ Left(r) \in Int /\ Left(r)' \in Int
      BY LeftIs DEF Busy, Left
    <2>2. Weight(f) \in Nat /\ Weight(f) <= Len(f) /\ Len(f) \in Nat
      BY Weights
    <2>3. NumOf(replay'[r]) <= NumOf(replay[r]) + Weight(f)
      BY <1>1, SaidIsAdded
    <2>4. Weight(f) + Left(r)' + beat[r] <= Left(r) + beat'[r]
      BY <1>2, <2>1, <2>2
    <2>5. Gives(r, Weight(f))
      BY <2>2, <2>3, <2>4 DEF Gives
    <2> QED
      BY <2>5, GivenRoom DEF RoomLeft, RoomFor
  <1> QED
    BY <1>3, <1>4 DEF RoomLeft, RoomFor

(* A beat of the script, or its failure, leaves room.                      *)
LEMMA PlayBeatLeavesRoom ==
  ASSUME RuntimeInv, RuntimeInv', RoomLeft, NEW r \in Runs, Loop = None, task[r] # "none",
         NEW before \in Seq(Frame), Len(before) + 1 <= Scheduling(r), PlayBeat(r, before)
  PROVE  RoomLeft'
  <1>1. /\ beat[r] \in 0 .. NumBeats - 1 /\ NumBeats \in Nat /\ run[r] # None
        /\ beat \in [Runs -> 0 .. NumBeats]
        /\ task \in [Runs -> {"none", "queued", "sleeping"}]
    BY StreamAssumption DEF RuntimeInv, Scheduled, Settling, MissionTypes
  <1>2. "complete" \in Ended /\ "failed" \in Ended /\ DOMAIN Outcome = {"complete", "fail", "abort"}
    BY DEF Ended, Outcome
  <1>3. Len(before) \in Nat /\ Scheduling(r) \in Int
    BY DEF Scheduling
  <1>4. CASE /\ Publish(r, before \o <<Beat(beat[r])>>)
             /\ beat' = [beat EXCEPT ![r] = @ + 1]
             /\ IF beat[r] + 1 < NumBeats
                  THEN /\ task' = [task EXCEPT ![r] = "sleeping"]
                       /\ UNCHANGED <<run, listed, writing>>
                  ELSE /\ PutRun(EventLoop, r, [run[r] EXCEPT !.status = "complete"], "complete")
                       /\ UNCHANGED task
    <2> DEFINE b == Beat(beat[r])
               f == before \o <<b>>
    <2>1. b \in Frame
      BY <1>1 DEF Beat, Frame, Player
    <2> HIDE DEF b
    <2>2. f \in Seq(Frame) /\ Len(f) = Len(before) + 1
      BY <2>1
    <2>3. Publish(r, f)
      BY <1>4 DEF b
    <2> HIDE DEF f
    <2>4. /\ beat'[r] = beat[r] + 1
          /\ \A x \in Runs \ {r} : beat'[x] = beat[x] /\ task'[x] = task[x]
      BY <1>1, <1>4
    <2>5. (Loop' = None \/ Loop'.id = r) /\ Left(r)' = 1
      <3>1. CASE task' = [task EXCEPT ![r] = "sleeping"] /\ UNCHANGED writing
        <4>1. task'[r] = "sleeping" /\ Loop' = None
          BY <1>1, <3>1 DEF Loop
        <4> QED
          BY <4>1 DEF Left, Settling, Waiting
      <3>2. CASE PutRun(EventLoop, r, [run[r] EXCEPT !.status = "complete"], "complete")
        <4>1. Settling(r)'
          BY <1>1, <1>2, <3>2, PuttingSettles
        <4> QED
          BY <4>1 DEF Left, Settling
      <3> QED
        BY <1>4, <3>1, <3>2
    <2>6. Len(f) + Left(r)' + beat[r] <= Scheduling(r) + beat'[r]
      BY <1>1, <1>3, <2>2, <2>4, <2>5
    <2> QED
      BY <2>2, <2>3, <2>4, <2>5, <2>6, PublishLeavesRoom
  <1>5. CASE /\ Publish(r, before) /\ UNCHANGED <<task, beat>>
             /\ PutRun(EventLoop, r, [run[r] EXCEPT !.status = "failed"], "fail")
    <2>1. Settling(r)'
      BY <1>1, <1>2, <1>5, PuttingSettles
    <2>2. Left(r)' = 1 /\ Loop'.id = r
      BY <2>1 DEF Left, Settling
    <2>3. Len(before) + Left(r)' + beat[r] <= Scheduling(r) + beat'[r]
      BY <1>1, <1>3, <1>5, <2>2
    <2> QED
      BY <1>5, <2>2, <2>3, PublishLeavesRoom
  <1> QED
    BY <1>4, <1>5 DEF PlayBeat

(* A task that runs leaves room.                                           *)
LEMMA PlayLeavesRoom ==
  ASSUME RuntimeInv, RuntimeInv', RoomLeft, NEW r \in Runs, PlayStart(r) \/ PlayNext(r)
  PROVE  RoomLeft'
  <1>1. Loop = None /\ task[r] # "none"
    BY DEF PlayStart, PlayNext, Free, Loop
  <1>2. CASE PlayNext(r)
    <2>1. task[r] = "sleeping" /\ PlayBeat(r, <<>>)
      BY <1>2 DEF PlayNext
    <2>2. <<>> \in Seq(Frame) /\ Len(<<>>) + 1 <= Scheduling(r)
      BY <2>1 DEF Scheduling
    <2> QED
      BY <1>1, <2>1, <2>2, PlayBeatLeavesRoom
  <1>3. CASE PlayStart(r) /\ run[r].perspective # "red"
    <2> DEFINE started == <<Mark("mission_started")>>
    <2>1. task[r] = "queued" /\ PlayBeat(r, started)
      BY <1>3 DEF PlayStart
    <2>2. started \in Seq(Frame) /\ Len(started) + 1 <= Scheduling(r)
      <3>1. started \in Seq(Frame)
        BY AsidesAre DEF Aside, Marks
      <3> QED
        BY <2>1, <3>1 DEF Scheduling
    <2> HIDE DEF started
    <2> QED
      BY <1>1, <2>1, <2>2, PlayBeatLeavesRoom
  <1>4. CASE PlayStart(r) /\ run[r].perspective = "red"
    <2> DEFINE f == <<Mark("mission_started"), Mark("world_snapshot")>>
    <2>1. /\ task[r] = "queued" /\ Publish(r, f) /\ task' = [task EXCEPT ![r] = "none"]
          /\ beat' = beat /\ writing' = writing
      BY <1>4 DEF PlayStart
    <2>2. f \in Seq(Frame) /\ Len(f) = 2
      BY AsidesAre DEF Aside
    <2> HIDE DEF f
    <2>3. /\ task'[r] = "none" /\ beat[r] \in Int /\ Loop' = None
          /\ \A x \in Runs \ {r} : beat'[x] = beat[x] /\ task'[x] = task[x]
      BY <1>1, <2>1, StreamAssumption DEF RuntimeInv, MissionTypes, Loop
    <2>4. Left(r)' = 0
      BY <2>3 DEF Left, Settling, Waiting
    <2>5. Len(f) + Left(r)' + beat[r] <= Scheduling(r) + beat'[r]
      BY <2>1, <2>2, <2>3, <2>4 DEF Scheduling
    <2> QED
      BY <1>1, <2>1, <2>2, <2>3, <2>5, PublishLeavesRoom
  <1> QED
    BY <1>2, <1>3, <1>4

(* Every step leaves room.                                                 *)
LEMMA NextLeavesRoom ==
  ASSUME RuntimeInv, RuntimeInv', RoomLeft, [Next]_vars
  PROVE  RoomLeft'
  <1>1. CASE \E r \in Runs : LoopStep(r)
    BY <1>1, CallsLeaveRoom, CancelLeavesRoom, PlayLeavesRoom DEF LoopStep
  <1>2. CASE \E t \in Threads : ThreadStep(t)
    BY <1>2, ThreadsLeaveRoom
  <1>3. CASE \E a \in Actors : WriteStep(a)
    BY <1>3, WritesLeaveRoom
  <1>4. CASE (\E c \in Clients : PageStep(c)) \/ Stop \/ UNCHANGED vars
    <2>1. replay' = replay /\ beat' = beat /\ task' = task /\ Loop' = Loop
      BY <1>4 DEF PageStep, Watch, Receive, Leave, mission, Stop, vars, stream, hub, Loop
    <2>2. \A x \in Runs : Left(x)' = Left(x) /\ Left(x) \in Int
      BY <2>1, LeftStays, LeftIs
    <2> QED
      BY <2>1, <2>2, NothingSaid DEF RoomLeft, RoomFor
  <1>5. CASE Restart
    <2>1. ASSUME NEW x \in Runs
          PROVE  NumOf(replay'[x]) + Left(x)' <= 2 + beat'[x]
      <3>1. replay'[x] = <<>> /\ beat'[x] = 0 /\ task'[x] = "none" /\ Loop' = None
        BY <1>5, LoopIsActor DEF Restart, StreamLost, NewHub, Loop
      <3>2. Others(<<>>) = {} /\ Cardinality({}) = 0
        BY FS_EmptySet DEF Others
      <3>3. Left(x)' = 0
        BY <3>1 DEF Left, Settling, Waiting
      <3>4. NumOf(<<>>) = 0
        BY <3>2 DEF NumOf
      <3> QED
        BY <3>1, <3>3, <3>4
    <2> QED
      BY <2>1 DEF RoomLeft
  <1> QED
    BY <1>1, <1>2, <1>3, <1>4, <1>5 DEF Next

(* At the start the buffers are empty.                                     *)
LEMMA RoomAtFirst == Init => RoomLeft /\ QueuesFit
  <1> SUFFICES ASSUME Init
               PROVE  RoomLeft /\ QueuesFit
    OBVIOUS
  <1>1. ASSUME NEW x \in Runs
        PROVE  NumOf(replay[x]) + Left(x) <= 2 + beat[x]
    <2>1. replay[x] = <<>> /\ beat[x] = 0 /\ task[x] = "none" /\ Loop = None
      BY <1>1, LoopIsActor DEF Init, StreamInit, NewHub, Loop
    <2>2. Others(<<>>) = {} /\ Cardinality({}) = 0
      BY FS_EmptySet DEF Others
    <2>3. Left(x) = 0
      BY <2>1 DEF Left, Settling, Waiting
    <2> QED
      BY <2>1, <2>2, <2>3 DEF NumOf
  <1>2. registered = {}
    BY DEF Init, StreamInit
  <1> QED
    BY <1>1, <1>2 DEF RoomLeft, QueuesFit

(* No replay buffer holds more than its run has to say.                    *)
LEMMA ReplayBounded == RuntimeInv /\ RoomLeft => ReplayFits
  <1> SUFFICES ASSUME RuntimeInv, RoomLeft, NEW r \in Runs
               PROVE  Len(replay[r]) \in Nat /\ Len(replay[r]) <= Most
    BY DEF ReplayFits
  <1>1. replay[r] \in Seq(Frame)
    BY DEF RuntimeInv, StreamInv, StreamTypeOK
  <1>2. /\ NumOf(replay[r]) \in Nat /\ PlayerBeats(r) \in Nat
        /\ Len(replay[r]) = PlayerBeats(r) + NumOf(replay[r])
    BY <1>1, FramesAre DEF PlayerBeats, ByPlayer
  <1>3. NumOf(replay[r]) <= 2 + NumBeats
    <2>1. /\ beat[r] \in Nat /\ beat[r] <= NumBeats /\ NumBeats \in Nat /\ Left(r) \in Nat
          /\ NumOf(replay[r]) + Left(r) <= 2 + beat[r]
      <3>1. Left(r) \in Nat
        BY LeftIs
      <3> QED
        BY <3>1, StreamAssumption DEF RuntimeInv, MissionTypes, RoomLeft
    <2> QED
      BY <1>2, <2>1
  <1>4. PlayerBeats(r) <= 2 * MaxCommands
    <2>1. CASE run[r] = None
      <3>1. replay[r] = <<>>
        BY <2>1 DEF RuntimeInv, NoGhosts
      <3>2. PlayerBeats(r) = 0
        BY <3>1, CountTypes DEF CountsOf, RuntimeInv
      <3> QED
        BY <3>2, RuntimeAssumption
    <2>2. CASE run[r] # None
      <3>1. PICK q \in Runs \cup {None} : q = run[r].partner
        BY <2>2, RunTypes, RunFields DEF RuntimeInv
      <3>2. PlayerBeats(r) + Owed(r) <= CommandsOf(r) + CommandsOf(q)
        BY <2>2, <3>1 DEF RuntimeInv, BeatsPaid
      <3>3. \A x \in Runs \cup {None} : CommandsOf(x) \in Nat /\ CommandsOf(x) <= MaxCommands
        <4>1. \A x \in Runs : run[x] # None =>
                run[x].commands \in Nat /\ run[x].commands <= MaxCommands
          <5>1. \A row \in Run : row.commands \in Nat /\ row.commands <= MaxCommands
            BY RuntimeAssumption DEF Run
          <5> QED
            BY <5>1, RunTypes DEF RuntimeInv
        <4> QED
          <5>1. ASSUME NEW x \in Runs \cup {None}
                PROVE  CommandsOf(x) \in Nat /\ CommandsOf(x) <= MaxCommands
            <6>1. CASE x = None \/ run[x] = None
              BY <6>1, RuntimeAssumption DEF CommandsOf
            <6>2. CASE x # None /\ run[x] # None
              BY <4>1, <6>2 DEF CommandsOf
            <6> QED
              BY <6>1, <6>2
          <5> QED
            BY <5>1
      <3>4. Owed(r) \in Nat
        BY DEF Owed
      <3>5. /\ CommandsOf(r) \in Nat /\ CommandsOf(r) <= MaxCommands
            /\ CommandsOf(q) \in Nat /\ CommandsOf(q) <= MaxCommands
        BY <3>3
      <3> QED
        BY <1>2, <3>2, <3>4, <3>5, RuntimeAssumption
    <2> QED
      BY <2>1, <2>2
  <1> QED
    BY <1>2, <1>3, <1>4, StreamAssumption, RuntimeAssumption DEF Most

(* A queue that takes frames has at most those more, and the buffer of its *)
(* run, which drops none, has all of them.                                 *)
LEMMA FilledFits ==
  ASSUME NEW q \in Seq(Frame), NEW s \in Seq(Frame), NEW f \in Seq(Frame), NEW size \in Nat,
         Len(q) <= Len(s)
  PROVE  Len(Filled(q, f, size)) <= Len(s \o f)
  <1>1. q \o f \in Seq(Frame) /\ Len(q \o f) = Len(q) + Len(f)
        /\ Len(s \o f) = Len(s) + Len(f) /\ Len(q) \in Nat /\ Len(s) \in Nat /\ Len(f) \in Nat
    OBVIOUS
  <1> DEFINE j == q \o f
  <1> HIDE DEF j
  <1>2. Len(FirstOf(j, size)) <= Len(j)
    <2>1. j \in Seq(Frame) /\ Len(j) \in Nat
      BY <1>1 DEF j
    <2>2. CASE Len(j) <= size
      BY <2>1, <2>2 DEF FirstOf
    <2>3. CASE ~(Len(j) <= size)
      <3>1. Len(SubSeq(j, 1, size)) = size
        BY <2>1, <2>3
      <3> QED
        BY <2>1, <2>3, <3>1 DEF FirstOf
    <2> QED
      BY <2>2, <2>3
  <1>3. Len(Filled(q, f, size)) <= Len(j)
    BY <1>2, Zenon DEF Filled, j
  <1>4. Len(j) = Len(q) + Len(f)
    BY <1>1, Zenon DEF j
  <1> QED
    BY <1>1, <1>3, <1>4

(* Queues stay within what their run has published.                        *)
LEMMA NextKeepsFit ==
  ASSUME RuntimeInv, RuntimeInv', ReplayFits', RoomEnough, QueuesFit, [Next]_vars
  PROVE  QueuesFit'
  <1>1. /\ ReplaySize \in Nat /\ QueueSize \in Nat /\ Most \in Nat
        /\ replay \in [Runs -> Seq(Frame)] /\ queue \in [Clients -> Seq(Frame)]
        /\ registered \subseteq Clients
        /\ \A c \in registered : watch[c] \in Runs
    BY StreamAssumption, RuntimeAssumption
       DEF RuntimeInv, StreamInv, StreamTypeOK, Watching, Most
  <1>2. \A r \in Runs : Len(replay'[r]) \in Nat /\ Len(replay'[r]) < ReplaySize
    <2> SUFFICES ASSUME NEW r \in Runs
                 PROVE  Len(replay'[r]) \in Nat /\ Len(replay'[r]) < ReplaySize
      OBVIOUS
    <2>1. Len(replay'[r]) \in Nat /\ Len(replay'[r]) <= Most
      BY DEF ReplayFits
    <2> QED
      BY <1>1, <2>1 DEF RoomEnough
  <1>3. CASE Silent
    BY <1>3 DEF Silent, stream, hub, page, QueuesFit
  <1>4. CASE Publishing
    <2>1. PICK out : PublishAll(out) /\ Plays(out) /\ UNCHANGED page
      BY <1>4 DEF Publishing
    <2> SUFFICES ASSUME NEW c \in registered
                 PROVE  Len(queue'[c]) <= Len(replay'[watch[c]])
      BY <2>1 DEF QueuesFit, PublishAll, page
    <2> DEFINE r == watch[c]
               f == out[r]
               s == replay[r]
               q == queue[c]
    <2>2. /\ r \in Runs /\ f \in Seq(Frame) /\ s \in Seq(Frame) /\ q \in Seq(Frame)
          /\ Len(q) <= Len(s)
      BY <1>1, <2>1 DEF Plays, QueuesFit
    <2>3. queue'[c] = FirstOf(q \o f, QueueSize) /\ replay'[r] = LastOf(s \o f, ReplaySize)
      BY <1>1, <2>1, <2>2 DEF PublishAll, Offered
    <2>4. Len(replay'[r]) < ReplaySize
      BY <1>2, <2>2
    <2> HIDE DEF r, f, s, q
    <2>5. replay'[r] = s \o f
      <3> DEFINE j == s \o f
      <3>1. j \in Seq(Frame)
        BY <2>2
      <3> HIDE DEF j
      <3>2. Len(LastOf(j, ReplaySize)) < ReplaySize => LastOf(j, ReplaySize) = j
        BY <1>1, <3>1, LastHas
      <3> QED
        BY <2>3, <2>4, <3>2 DEF j
    <2>6. Len(Filled(q, f, QueueSize)) <= Len(s \o f)
      BY <1>1, <2>2, FilledFits
    <2>7. Len(queue'[c]) <= Len(replay'[r])
      BY <2>3, <2>5, <2>6, Zenon DEF Filled
    <2> QED
      BY <2>7 DEF r
  <1>5. CASE Closing
    <2>1. PICK r \in Runs, f \in Seq(Frame) : PublishAndClose(r, f) /\ UNCHANGED page
      BY <1>5 DEF Closing
    <2>2. ASSUME NEW c \in registered'
          PROVE  Len(queue'[c]) <= Len(replay'[watch'[c]])
      <3>1. c \in registered /\ c \notin Fed(r) /\ watch'[c] = watch[c] /\ watch[c] # r
        BY <2>1 DEF PublishAndClose, Fed, page
      <3>2. queue'[c] = queue[c] /\ replay'[watch[c]] = replay[watch[c]]
        BY <1>1, <2>1, <3>1 DEF PublishAndClose
      <3> QED
        BY <3>1, <3>2 DEF QueuesFit
    <2> QED
      BY <2>2 DEF QueuesFit
  <1>6. CASE Lost
    BY <1>6 DEF Lost, StreamLost, QueuesFit
  <1>7. ASSUME NEW c \in Clients, PageStep(c)
        PROVE  QueuesFit'
    <2>1. /\ replay' = replay
          /\ \A x \in Clients \ {c} : /\ queue'[x] = queue[x] /\ watch'[x] = watch[x]
                                      /\ x \in registered' => x \in registered
          /\ registered' \subseteq Clients
      BY <1>1, <1>7
         DEF PageStep, Watch, Receive, Leave, Disconnect, RuntimeInv, StreamInv, StreamTypeOK
    <2>2. ASSUME c \in registered'
          PROVE  Len(queue'[c]) <= Len(replay[watch'[c]])
      <3>1. CASE \E r \in listed : Watch(c, r)
        <4>1. PICK r \in listed : Watch(c, r)
          BY <3>1
        <4>2. c \notin registered
          BY <4>1 DEF Watch, RuntimeInv, StreamInv, StreamTypeOK
        <4>3. r \in Runs /\ queue'[c] = Backlog(r) /\ watch'[c] = r
          BY <1>1, <2>2, <4>1, <4>2
             DEF Watch, RuntimeInv, MissionTypes, StreamInv, StreamTypeOK
        <4>4. replay[r] \in Seq(Frame) /\ Len(replay[r]) \in Nat
          BY <1>1, <4>3
        <4>5. Len(Backlog(r)) <= Len(replay[r])
          <5>1. CASE Len(replay[r]) <= QueueSize
            BY <4>4, <5>1 DEF Backlog, FirstOf
          <5>2. CASE ~(Len(replay[r]) <= QueueSize)
            <6>1. Len(SubSeq(replay[r], 1, QueueSize)) = QueueSize
              BY <1>1, <4>4, <5>2
            <6> QED
              BY <1>1, <4>4, <5>2, <6>1 DEF Backlog, FirstOf
          <5> QED
            BY <5>1, <5>2
        <4> QED
          BY <4>3, <4>5
      <3>2. CASE Receive(c)
        <4>1. c \in registered /\ queue'[c] = Tail(queue[c]) /\ watch'[c] = watch[c]
              /\ queue[c] # <<>>
          BY <1>1, <2>2, <3>2 DEF Receive, Disconnect
        <4>2. queue[c] \in Seq(Frame) /\ Len(queue[c]) <= Len(replay[watch[c]])
              /\ replay[watch[c]] \in Seq(Frame)
          BY <1>1, <4>1 DEF QueuesFit
        <4>3. Len(Tail(queue[c])) <= Len(queue[c]) /\ Len(queue[c]) \in Nat
              /\ Len(Tail(queue[c])) \in Nat /\ Len(replay[watch[c]]) \in Nat
          BY <4>1, <4>2
        <4> QED
          BY <4>1, <4>2, <4>3
      <3>3. CASE Leave(c)
        BY <2>2, <3>3 DEF Leave, Disconnect
      <3> QED
        BY <1>7, <3>1, <3>2, <3>3 DEF PageStep
    <2> QED
      BY <2>1, <2>2 DEF QueuesFit
  <1> QED
    BY <1>3, <1>4, <1>5, <1>6, <1>7, StepMoves

(* Buffers that are large enough are never full.                           *)
THEOREM NothingOverflows ==
  ASSUME RoomEnough
  PROVE  Spec => []NothingFull
  <1>1. Init => RoomLeft /\ QueuesFit
    BY RoomAtFirst
  <1>2. RuntimeInv /\ RuntimeInv' /\ RoomLeft /\ [Next]_vars => RoomLeft'
    BY NextLeavesRoom
  <1>3. RuntimeInv /\ RuntimeInv' /\ ReplayFits' /\ QueuesFit /\ [Next]_vars => QueuesFit'
    BY NextKeepsFit
  <1>4. RuntimeInv /\ RoomLeft /\ QueuesFit => NothingFull
    <2> SUFFICES ASSUME RuntimeInv, RoomLeft, QueuesFit
                 PROVE  NothingFull
      OBVIOUS
    <2>1. ReplaySize \in Nat /\ QueueSize \in Nat /\ Most \in Nat
      BY StreamAssumption, RuntimeAssumption DEF Most
    <2>2. \A r \in Runs : Len(replay[r]) \in Nat /\ Len(replay[r]) <= Most
      BY ReplayBounded DEF ReplayFits
    <2>3. ASSUME NEW r \in Runs
          PROVE  Len(replay[r]) < ReplaySize
      <3>1. Len(replay[r]) \in Nat /\ Len(replay[r]) <= Most
        BY <2>2
      <3> QED
        BY <2>1, <3>1 DEF RoomEnough
    <2>4. ASSUME NEW c \in registered
          PROVE  Len(queue[c]) < QueueSize
      <3>1. queue[c] \in Seq(Frame) /\ watch[c] \in Runs /\ Len(queue[c]) <= Len(replay[watch[c]])
        BY DEF RuntimeInv, StreamInv, StreamTypeOK, Watching, QueuesFit
      <3>2. Len(queue[c]) \in Nat
        BY <3>1
      <3> QED
        BY <2>1, <2>2, <3>1, <3>2 DEF RoomEnough
    <2> QED
      BY <2>3, <2>4 DEF NothingFull
  <1> QED
    BY <1>1, <1>2, <1>4, <1>3, ReplayBounded, RuntimeInvariant, PTL DEF Spec

(* With buffers that are large enough, a page shows the script from its    *)
(* first beat on, in order and without a gap.                              *)
THEOREM TimelineWhole ==
  ASSUME RoomEnough
  PROVE  Spec => []TimelineIsScript
  <1>1. Spec => []NothingFull
    BY NothingOverflows
  <1> QED
    BY <1>1, TimelineComplete, PTL

-----------------------------------------------------------------------------
(* How a stream ends                                                       *)

(* The hub feeds no client of a closed run.                                *)
FedUntilClosed == \A c \in registered : watch[c] \notin closed

(* No stream is stranded: so every stream of a closed run has its end in   *)
(* the queue.                                                              *)
EndsComing == FedUntilClosed /\ \A c \in Clients : ~Stranded(c)
ClosedStreamsEnd == \A c \in connected : watch[c] \in closed => Ends(queue[c])

(* A queue that is not full takes the first frame it is offered.           *)
LEMMA FirstFits ==
  ASSUME NEW q \in Seq(Frame), NEW f \in Seq(Frame), f # <<>>, NEW size \in Nat, Len(q) < size
  PROVE  \E k \in DOMAIN Filled(q, f, size) : Filled(q, f, size)[k] = f[1]
  <1> DEFINE j == q \o f
             n == Len(q) + 1
  <1>1. /\ j \in Seq(Frame) /\ Len(j) = Len(q) + Len(f) /\ j[n] = f[1]
        /\ n \in 1 .. Len(j) /\ n <= size /\ Len(j) \in Nat /\ n \in Nat
    OBVIOUS
  <1> HIDE DEF j, n
  <1>2. n \in DOMAIN FirstOf(j, size) /\ FirstOf(j, size)[n] = j[n]
    <2>1. CASE Len(j) <= size
      BY <1>1, <2>1 DEF FirstOf
    <2>2. CASE ~(Len(j) <= size)
      <3>1. n \in DOMAIN SubSeq(j, 1, size) /\ SubSeq(j, 1, size)[n] = j[n]
        BY <1>1, <2>2
      <3> QED
        BY <2>2, <3>1 DEF FirstOf
    <2> QED
      BY <2>1, <2>2
  <1>3. n \in DOMAIN Filled(q, f, size) /\ Filled(q, f, size)[n] = j[n]
    BY <1>2, Zenon DEF Filled, j
  <1> QED
    BY <1>1, <1>3

(* A client that a closing run feeds is sent the end of its stream.        *)
LEMMA ClosingEnds ==
  ASSUME RuntimeInv, NEW r \in Runs, NEW f \in Seq(Frame),
         PublishAndClose(r, f), f = <<>> \/ f[1].type \in Terminal, NEW c \in Fed(r),
         Len(queue[c]) < QueueSize
  PROVE  Ends(queue'[c])
  <1> DEFINE g == Append(f, Sentinel)
  <1>1. /\ queue'[c] = FirstOf(queue[c] \o g, QueueSize)
        /\ queue[c] \in Seq(Frame) /\ Len(queue[c]) < QueueSize /\ QueueSize \in Nat
    BY StreamAssumption
       DEF PublishAndClose, Offered, Fed, RuntimeInv, StreamInv, StreamTypeOK
  <1>2. g \in Seq(Frame) /\ g # <<>> /\ g[1].type \in Terminal \cup {"close"}
    <2>1. Sentinel \in Frame /\ Sentinel.type = "close"
      BY DEF Sentinel, Mark, Frame, Marks
    <2> DEFINE z == Sentinel
    <2> HIDE DEF z
    <2>2. CASE f = <<>>
      BY <2>1, <2>2
    <2>3. CASE f # <<>>
      <3>1. g[1] = f[1]
        BY <2>1, <2>3
      <3> QED
        BY <2>1, <2>3, <3>1
    <2> QED
      BY <2>2, <2>3
  <1> HIDE DEF g
  <1>3. PICK k \in DOMAIN Filled(queue[c], g, QueueSize) :
               Filled(queue[c], g, QueueSize)[k] = g[1]
    BY <1>1, <1>2, FirstFits
  <1>4. k \in DOMAIN queue'[c] /\ queue'[c][k] = g[1]
    BY <1>1, <1>3, Zenon DEF Filled
  <1> QED
    BY <1>2, <1>4 DEF Ends

(* The tail of what ends a stream ends it, unless its head did.            *)
LEMMA TailEnds ==
  ASSUME NEW q \in Seq(Frame), q # <<>>, Head(q).type \notin Terminal \cup {"close"}
  PROVE  Ends(Tail(q)) <=> Ends(q)
  <1>1. ASSUME Ends(q)
        PROVE  Ends(Tail(q))
    <2>1. PICK k \in DOMAIN q : q[k].type \in Terminal \cup {"close"}
      BY <1>1 DEF Ends
    <2>2. k # 1 /\ k \in 1 .. Len(q)
      BY <2>1
    <2>3. k - 1 \in DOMAIN Tail(q) /\ Tail(q)[k - 1] = q[k]
      BY <2>2
    <2> QED
      BY <2>1, <2>3 DEF Ends
  <1>2. ASSUME Ends(Tail(q))
        PROVE  Ends(q)
    <2>1. PICK k \in DOMAIN Tail(q) : Tail(q)[k].type \in Terminal \cup {"close"}
      BY <1>2 DEF Ends
    <2>2. k + 1 \in DOMAIN q /\ q[k + 1] = Tail(q)[k]
      BY <2>1
    <2> QED
      BY <2>1, <2>2 DEF Ends
  <1> QED
    BY <1>1, <1>2

(* What is given to a late subscriber ends.                                *)
LEMMA LateEnds ==
  ASSUME RuntimeInv, NEW r \in Runs
  PROVE  Ends(Append(Backlog(r), Sentinel))
  <1>1. replay[r] \in Seq(Frame) /\ QueueSize \in Nat
    BY StreamAssumption DEF RuntimeInv, StreamInv, StreamTypeOK
  <1>2. Backlog(r) \in Seq(Frame) /\ Sentinel \in Frame /\ Sentinel.type = "close"
    BY <1>1, FirstOfIsPart DEF Backlog, Sentinel, Mark, Frame, Marks
  <1> DEFINE b == Backlog(r)
             z == Sentinel
  <1> HIDE DEF b, z
  <1>3. Len(b) + 1 \in DOMAIN Append(b, z) /\ Append(b, z)[Len(b) + 1] = z
    BY <1>2 DEF b, z
  <1>4. Ends(Append(b, z))
    BY <1>2, <1>3 DEF Ends, z
  <1> QED
    BY <1>4, Zenon DEF b, z

(* What a page does leaves the other pages alone.                          *)
LEMMA PageStepIsLocal ==
  ASSUME RuntimeInv, NEW c \in Clients, PageStep(c)
  PROVE  /\ closed' = closed
         /\ \A x \in Clients \ {c} :
              /\ queue'[x] = queue[x] /\ watch'[x] = watch[x] /\ phase'[x] = phase[x]
              /\ x \in registered' <=> x \in registered
              /\ x \in connected' <=> x \in connected
         /\ registered' \subseteq Clients /\ connected' \subseteq Clients
  <1>1. /\ queue \in [Clients -> Seq(Frame)] /\ watch \in [Clients -> Runs \cup {None}]
        /\ phase \in [Clients -> Phases]
        /\ registered \subseteq Clients /\ connected \subseteq Clients
    BY DEF RuntimeInv, StreamInv, StreamTypeOK
  <1>2. CASE \E r \in listed : Watch(c, r)
    BY <1>1, <1>2 DEF Watch
  <1>3. CASE Receive(c)
    BY <1>1, <1>3 DEF Receive, Disconnect
  <1>4. CASE Leave(c)
    BY <1>1, <1>4 DEF Leave, Disconnect
  <1> QED
    BY <1>2, <1>3, <1>4 DEF PageStep

(* A page that opens a stream is fed, or is given the end at once.         *)
LEMMA WatchingIsEnded ==
  ASSUME RuntimeInv, NEW c \in Clients, NEW r \in listed, Watch(c, r)
  PROVE  /\ c \notin connected /\ ~Stranded(c)'
         /\ c \in registered' => watch'[c] \notin closed
  <1>1. /\ queue \in [Clients -> Seq(Frame)] /\ watch \in [Clients -> Runs \cup {None}]
        /\ registered \subseteq connected /\ listed \subseteq Runs
    BY DEF RuntimeInv, StreamInv, StreamTypeOK, MissionTypes
  <1>2. c \notin registered /\ c \notin connected /\ watch'[c] = r /\ r \in Runs
    BY <1>1 DEF Watch
  <1>3. CASE r \notin closed
    BY <1>2, <1>3 DEF Watch, Stranded
  <1>4. CASE r \in closed
    <2>1. /\ c \notin registered'
          /\ c \in connected' => queue'[c] = Append(Backlog(r), Sentinel)
      BY <1>1, <1>2, <1>4 DEF Watch, ClosedBacklog
    <2>2. Ends(Append(Backlog(r), Sentinel))
      BY <1>2, LateEnds
    <2>3. c \in connected' => Ends(queue'[c])
      BY <2>1, <2>2
    <2> QED
      BY <1>2, <2>1, <2>3 DEF Stranded
  <1> QED
    BY <1>3, <1>4

(* Taking a frame neither strands a stream nor rescues it.                 *)
LEMMA ReceivingKeepsEnd ==
  ASSUME RuntimeInv, NEW c \in Clients, Receive(c)
  PROVE  /\ watch'[c] = watch[c] /\ (c \in registered' => c \in registered)
         /\ Stranded(c)' <=> Stranded(c)
         /\ Stranded(c) => phase'[c] \in {phase[c], "running"}
  <1>1. /\ c \in connected /\ queue[c] # <<>> /\ queue[c] \in Seq(Frame)
        /\ watch' = watch /\ phase'[c] = PhaseAfter(Head(queue[c]), phase[c])
        /\ queue \in [Clients -> Seq(Frame)] /\ registered \subseteq Clients
    BY DEF Receive, RuntimeInv, StreamInv, StreamTypeOK
  <1> DEFINE h == Head(queue[c])
  <1>2. CASE h.type \in Terminal \cup {"close"}
    <2>1. 1 \in DOMAIN queue[c] /\ queue[c][1] = h
      BY <1>1
    <2>2. Ends(queue[c])
      BY <1>2, <2>1 DEF Ends
    <2>3. c \notin connected' /\ registered' = registered \ {c}
      BY <1>2 DEF Receive, Disconnect
    <2> QED
      BY <1>1, <2>2, <2>3 DEF Stranded
  <1>3. CASE h.type \notin Terminal \cup {"close"}
    <2>1. /\ queue'[c] = Tail(queue[c]) /\ connected' = connected /\ registered' = registered
      BY <1>1, <1>3 DEF Receive
    <2>2. Ends(queue'[c]) <=> Ends(queue[c])
      BY <1>1, <1>3, <2>1, TailEnds
    <2>3. phase'[c] \in {phase[c], "running"}
      BY <1>1, <1>3 DEF PhaseAfter, Terminal
    <2> QED
      BY <1>1, <2>1, <2>2, <2>3 DEF Stranded
  <1> QED
    BY <1>2, <1>3

(* A closing run strands those whose queue is full, and no others.         *)
LEMMA ClosingStrands ==
  ASSUME RuntimeInv, FedUntilClosed, Closing, NEW c \in Clients
  PROVE  /\ watch'[c] = watch[c] /\ phase' = phase
         /\ c \in registered' => watch'[c] \notin closed'
         /\ Stranded(c) => Stranded(c)'
         /\ Stranded(c)' => \/ Stranded(c)
                            \/ /\ c \in registered /\ Len(queue[c]) = QueueSize
                               /\ watch[c] \in closed' \ closed
  <1>1. PICK r \in Runs, f \in Seq(Frame) :
               PublishAndClose(r, f) /\ (f = <<>> \/ f[1].type \in Terminal)
    BY DEF Closing
  <1>2. connected' = connected /\ watch' = watch /\ phase' = phase
    BY DEF Closing, page
  <1>3. closed' = closed \cup {r} /\ registered' = registered \ Fed(r)
    BY <1>1 DEF PublishAndClose
  <1>4. CASE c \in Fed(r)
    <2>1. c \in registered /\ c \notin registered' /\ watch[c] \in closed' \ closed
      BY <1>3, <1>4 DEF Fed, FedUntilClosed
    <2>2. /\ Len(queue[c]) \in Nat /\ Len(queue[c]) <= QueueSize /\ QueueSize \in Nat
      BY StreamAssumption DEF RuntimeInv, StreamInv, StreamTypeOK
    <2>3. Len(queue[c]) < QueueSize => Ends(queue'[c])
      BY <1>1, <1>4, ClosingEnds
    <2> QED
      BY <1>2, <2>1, <2>2, <2>3 DEF Stranded
  <1>5. CASE c \notin Fed(r)
    <2>1. queue'[c] = queue[c] /\ (c \in registered' <=> c \in registered)
      BY <1>1, <1>3, <1>5 DEF PublishAndClose
    <2>2. c \in registered => watch[c] # r
      BY <1>5 DEF Fed
    <2> QED
      BY <1>2, <1>3, <2>1, <2>2 DEF Stranded, FedUntilClosed
  <1> QED
    BY <1>4, <1>5

(* What any step does to a stream that is stranded, or becomes so.         *)
LEMMA NextStrands ==
  ASSUME RuntimeInv, FedUntilClosed, [Next]_vars
  PROVE  FedUntilClosed' /\ StrandedByFullQueue /\ StaysStranded
  <1>1. /\ queue \in [Clients -> Seq(Frame)] /\ watch \in [Clients -> Runs \cup {None}]
        /\ registered \subseteq connected /\ connected \subseteq Clients
    BY DEF RuntimeInv, StreamInv, StreamTypeOK
  <1>2. CASE Silent
    <2>1. /\ registered' = registered /\ connected' = connected /\ closed' = closed
          /\ queue' = queue /\ watch' = watch /\ phase' = phase
      BY <1>2 DEF Silent, stream, hub, page
    <2>2. \A c \in Clients : Stranded(c)' <=> Stranded(c)
      BY <2>1 DEF Stranded
    <2> QED
      BY <2>1, <2>2 DEF FedUntilClosed, StrandedByFullQueue, StaysStranded
  <1>3. CASE Publishing
    <2>1. /\ registered' = registered /\ connected' = connected /\ closed' = closed
          /\ watch' = watch /\ phase' = phase
          /\ \A c \in Clients \ registered : queue'[c] = queue[c]
      BY <1>3 DEF Publishing, PublishAll, page
    <2>2. \A c \in Clients : Stranded(c)' <=> Stranded(c)
      BY <2>1 DEF Stranded
    <2> QED
      BY <2>1, <2>2 DEF FedUntilClosed, StrandedByFullQueue, StaysStranded
  <1>4. CASE Closing
    <2>1. registered' \subseteq Clients
      BY <1>1, <1>4 DEF Closing, PublishAndClose
    <2> QED
      BY <1>4, <2>1, ClosingStrands DEF FedUntilClosed, StrandedByFullQueue, StaysStranded
  <1>5. CASE Lost
    <2>1. /\ registered' = {} /\ connected' = {}
          /\ \A c \in connected : phase'[c] = Broken(phase[c])
      BY <1>1, <1>5 DEF Lost, StreamLost
    <2> QED
      BY <2>1 DEF FedUntilClosed, StrandedByFullQueue, StaysStranded, Stranded
  <1>6. ASSUME NEW c \in Clients, PageStep(c)
        PROVE  FedUntilClosed' /\ StrandedByFullQueue /\ StaysStranded
    <2>1. /\ closed' = closed
          /\ \A x \in Clients \ {c} :
               /\ queue'[x] = queue[x] /\ watch'[x] = watch[x] /\ phase'[x] = phase[x]
               /\ x \in registered' <=> x \in registered
               /\ x \in connected' <=> x \in connected
          /\ registered' \subseteq Clients /\ connected' \subseteq Clients
      BY <1>6, PageStepIsLocal
    <2>2. \A x \in Clients \ {c} : Stranded(x)' <=> Stranded(x)
      BY <2>1 DEF Stranded
    <2>3. /\ c \in registered' => watch'[c] \notin closed
          /\ Stranded(c)' => Stranded(c)
          /\ Stranded(c) =>
               \/ Stranded(c)' /\ watch'[c] = watch[c] /\ phase'[c] \in {phase[c], "running"}
               \/ c \notin connected' /\ phase'[c] = "idle"
      <3>1. CASE \E r \in listed : Watch(c, r)
        BY <3>1, WatchingIsEnded DEF Stranded
      <3>2. CASE Receive(c)
        BY <3>2, ReceivingKeepsEnd DEF FedUntilClosed
      <3>3. CASE Leave(c)
        <4>1. c \notin registered' /\ c \notin connected'
          BY <3>3 DEF Leave, Disconnect
        <4>2. phase'[c] = "idle"
          BY <3>3 DEF Leave, RuntimeInv, StreamInv, StreamTypeOK
        <4> QED
          BY <4>1, <4>2 DEF Stranded
      <3> QED
        BY <1>6, <3>1, <3>2, <3>3 DEF PageStep
    <2> QED
      BY <2>1, <2>2, <2>3 DEF FedUntilClosed, StrandedByFullQueue, StaysStranded
  <1> QED
    BY <1>2, <1>3, <1>4, <1>5, <1>6, StepMoves

LEMMA FedAtFirst == Init => FedUntilClosed
  BY DEF Init, StreamInit, FedUntilClosed

(* A stream is left open for ever only by a run that is closed while the   *)
(* queue of the stream is full; and then for as long as its page watches   *)
(* and the server runs.                                                    *)
THEOREM FullQueuesStrand == Spec => StrandedOnlyWhenFull
  <1>1. RuntimeInv /\ FedUntilClosed /\ [Next]_vars
          => FedUntilClosed' /\ [StrandedByFullQueue /\ StaysStranded]_vars
    BY NextStrands
  <1> QED
    BY <1>1, FedAtFirst, RuntimeInvariant, PTL DEF Spec, StrandedOnlyWhenFull

(* As long as no buffer is full, a stream that is open although its run is *)
(* closed has its end in the queue: the outcome or the sentinel reached    *)
(* every early subscriber, and the sentinel every late one.                *)
THEOREM EndsOnTheirWay == Spec /\ []NothingFull => []ClosedStreamsEnd
  <1>1. Init => EndsComing
    BY DEF Init, StreamInit, EndsComing, FedUntilClosed, Stranded
  <1>2. RuntimeInv /\ NothingFull /\ EndsComing /\ [Next]_vars => EndsComing'
    <2> SUFFICES ASSUME RuntimeInv, NothingFull, EndsComing, [Next]_vars
                 PROVE  EndsComing'
      OBVIOUS
    <2>1. FedUntilClosed' /\ StrandedByFullQueue
      BY NextStrands DEF EndsComing
    <2>2. \A c \in registered : Len(queue[c]) # QueueSize
      <3>1. \A c \in registered : Len(queue[c]) \in Nat /\ Len(queue[c]) < QueueSize
        BY DEF NothingFull, RuntimeInv, StreamInv, StreamTypeOK
      <3> QED
        BY <3>1, StreamAssumption
    <2> QED
      BY <2>1, <2>2 DEF EndsComing, StrandedByFullQueue
  <1>3. RuntimeInv /\ EndsComing => ClosedStreamsEnd
    BY DEF EndsComing, FedUntilClosed, Stranded, ClosedStreamsEnd,
           RuntimeInv, StreamInv, StreamTypeOK
  <1> QED
    BY <1>1, <1>2, <1>3, RuntimeInvariant, PTL DEF Spec

(* With buffers that are large enough, so it is in every behaviour.        *)
THEOREM StreamsEndCleanly ==
  ASSUME RoomEnough
  PROVE  Spec => []ClosedStreamsEnd
  <1>1. Spec => []NothingFull
    BY NothingOverflows
  <1> QED
    BY <1>1, EndsOnTheirWay, PTL

=============================================================================
