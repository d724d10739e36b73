------------------------- MODULE ScenarioPageProofs -------------------------
(***************************************************************************)
(* What holds of ScenarioPage for any number of runs, calls in flight,     *)
(* beats and commands, whatever link the page is opened on, with or        *)
(* without the proxy.                                                      *)
(***************************************************************************)
EXTENDS ScenarioPage, SequenceTheorems, FiniteSetTheorems, TLAPS

-----------------------------------------------------------------------------
(* The inductive invariant                                                 *)

PageRecords ==
  [status : {"idle", "running", "complete", "error"}, side : Sides,
   runId : Nat \cup {None}, result : Results \cup {None},
   ref : (Nat \X Sides) \cup {None}, pair : [red : Nat, blue : Nat] \cup {None},
   modal : BOOLEAN]
StreamRecords ==
  [phase : Terminal \cup {"idle", "connecting", "running"},
   snapshot : Results \cup {None}, run : Nat \cup {None}, pos : Nat, open : BOOLEAN]
Requests ==
  [kind : {"launch"}, arg : Sides] \cup [kind : {"coop"}, arg : {None}]
    \cup [kind : {"join", "command"}, arg : Nat]
Entries == [side : Sides, daily : Sides, result : Results]
AllEffects == {"stream", "phase", "record", "daily", "mirror"}

PageTypes ==
  /\ page \in PageRecords /\ stream \in StreamRecords
  /\ daily \in Sides /\ due \subseteq AllEffects
  /\ log \in Seq(Entries) /\ plain \in BOOLEAN
CallTypes ==
  /\ calls \subseteq Requests /\ IsFiniteSet(calls) /\ Cardinality(calls) <= MaxCalls
ServerTypes ==
  /\ server \in Seq(Runs) /\ Len(server) <= MaxRuns + 1
  /\ \A r \in DOMAIN server : FeedFits(server[r], r)

(* Whatever names a run names one of the server's; the runs offered in the *)
(* co-op modal are not the page's, and no join is on its way to them.      *)
Held(r) == r = None \/ r \in DOMAIN server
Offered == {page.pair.red, page.pair.blue}
PageRefers ==
  /\ Held(page.runId)
  /\ page.result # None => page.result.run \in DOMAIN server
  /\ page.modal => /\ page.pair # None
                   /\ Offered \subseteq DOMAIN server /\ page.runId \notin Offered
CallsRefer ==
  \A c \in calls :
    /\ c.kind \in {"join", "command"} => c.arg \in DOMAIN server
    /\ c.kind = "join" /\ page.modal => c.arg \notin Offered
LogRefers == \A i \in DOMAIN log : log[i].result.run \in DOMAIN server

(* What the stream shows is the frame it has come to, of its own run.      *)
Following ==
  /\ Held(stream.run)
  /\ stream.run = None => stream = INITIAL
  /\ stream.run # None =>
       LET feed == server[stream.run].feed
       IN  /\ stream.pos <= Len(feed)
           /\ stream.snapshot # None => stream.pos > 0 /\ stream.snapshot.run = stream.run
           /\ stream.phase \in {"running", "complete"} =>
                /\ stream.pos > 0 /\ stream.snapshot = Snapshot(feed[stream.pos])
                /\ stream.phase = "complete" => feed[stream.pos].type = "complete"
           /\ stream.open => stream.phase \in {"connecting", "running"}

(* An effect that is not due has done its work.                            *)
Subscribed == "stream" \notin due => stream.run = SubscribedTo(page)
Mirrored ==
  "mirror" \notin due /\ "stream" \notin due /\ stream.snapshot # None =>
    /\ page.result # None /\ page.result.run = stream.run
    /\ /\ stream.phase \in {"running", "complete"}
       /\ stream.pos = Len(server[stream.run].feed)
       => page.result.beats = server[stream.run].beats
Recorded ==
  "record" \notin due /\ page.status = "complete" /\ page.result # None =>
    page.ref # None /\ page.ref[1] = CorrelationId(page.result.run)
Matched == "daily" \notin due => daily = page.side

PageInv ==
  /\ PageTypes /\ CallTypes /\ ServerTypes
  /\ PageRefers /\ CallsRefer /\ LogRefers
  /\ Following /\ Subscribed /\ Mirrored /\ Recorded /\ Matched

-----------------------------------------------------------------------------
(* The server                                                              *)

(* What a run keeps while it goes on.                                      *)
Outgrown(old, new) ==
  /\ new.side = old.side /\ new.coop = old.coop
  /\ old.status = "complete" => new.status = "complete"
  /\ Len(new.feed) >= Len(old.feed)
  /\ \A i \in DOMAIN old.feed : i \in DOMAIN new.feed /\ new.feed[i] = old.feed[i]
  /\ new.beats # old.beats => Len(new.feed) > Len(old.feed)

ServerGrows ==
  /\ ServerTypes'
  /\ DOMAIN server \subseteq DOMAIN server'
  /\ \A r \in DOMAIN server : Outgrown(server[r], server'[r])

(* The fields of a run, and of a frame of its feed.                        *)
LEMMA RunFields ==
  ASSUME NEW run \in Runs
  PROVE  /\ run.side \in Sides /\ run.coop \in BOOLEAN /\ run.beats \in Nat
         /\ run.cmds \in Nat /\ run.status \in {"active"} \cup Terminal
         /\ run.feed \in Seq(Frames) /\ Len(run.feed) \in Nat
         /\ DOMAIN run.feed = 1 .. Len(run.feed)
         /\ \A i \in DOMAIN run.feed : run.feed[i] \in Frames
  BY DEF Runs

(* A run that stays as it is has outgrown nothing.                         *)
LEMMA SameOutgrown ==
  ASSUME NEW run \in Runs
  PROVE  Outgrown(run, run)
  BY RunFields DEF Outgrown

(* A server that does not change.                                          *)
LEMMA ServerRests ==
  ASSUME ServerTypes, UNCHANGED server
  PROVE  ServerGrows
  <1>1. ServerTypes'
    BY DEF ServerTypes
  <1>2. \A r \in DOMAIN server : Outgrown(server[r], server'[r])
    BY SameOutgrown DEF ServerTypes
  <1> QED
    BY <1>1, <1>2 DEF ServerGrows

(* A run is replaced by one that has outgrown it and whose feed fits.      *)
LEMMA RunReplaced ==
  ASSUME ServerTypes, NEW r \in DOMAIN server, NEW new \in Runs,
         server' = [server EXCEPT ![r] = new],
         Outgrown(server[r], new), FeedFits(new, r)
  PROVE  ServerGrows
  <1>1. /\ server' \in Seq(Runs) /\ Len(server') = Len(server)
        /\ DOMAIN server' = DOMAIN server
    BY DEF ServerTypes
  <1>2. \A q \in DOMAIN server : server'[q] = IF q = r THEN new ELSE server[q]
    BY DEF ServerTypes
  <1>3. ServerTypes'
    BY <1>1, <1>2 DEF ServerTypes
  <1>4. \A q \in DOMAIN server : Outgrown(server[q], server'[q])
    BY <1>2, SameOutgrown DEF ServerTypes
  <1> QED
    BY <1>1, <1>3, <1>4 DEF ServerGrows

(* A frame of the run's own is published: of its beats now, and of its     *)
(* completion only when it is complete.                                    *)
LEMMA FramePublished ==
  ASSUME ServerTypes, NEW r \in DOMAIN server, NEW new \in Runs, NEW f \in Frames,
         server' = [server EXCEPT ![r] = new],
         new.side = server[r].side, new.coop = server[r].coop,
         server[r].status = "complete" => new.status = "complete",
         new.feed = Append(server[r].feed, f),
         f.run = r, f.beats = new.beats,
         f.type = "complete" => new.status = "complete" /\ f.beats = NumBeats
  PROVE  ServerGrows
  <1>1. server[r] \in Runs /\ FeedFits(server[r], r)
    BY DEF ServerTypes
  <1> DEFINE feed == server[r].feed
  <1>2. feed \in Seq(Frames) /\ Len(feed) \in Nat /\ DOMAIN feed = 1 .. Len(feed)
    BY <1>1, RunFields
  <1> HIDE DEF feed
  <1>3. /\ new.feed = Append(feed, f)
        /\ \A i \in DOMAIN feed : /\ feed[i].run = r
                                  /\ feed[i].type = "complete" =>
                                       server[r].status = "complete" /\ feed[i].beats = NumBeats
    BY <1>1 DEF FeedFits, feed
  <1>4. /\ Len(new.feed) = Len(feed) + 1 /\ DOMAIN new.feed = 1 .. (Len(feed) + 1)
        /\ \A i \in DOMAIN feed : new.feed[i] = feed[i]
        /\ new.feed[Len(feed) + 1] = f
    BY <1>2, <1>3
  <1>5. Outgrown(server[r], new)
    BY <1>2, <1>4 DEF Outgrown, feed
  <1>6. FeedFits(new, r)
    <2>1. ASSUME NEW i \in DOMAIN new.feed
          PROVE  /\ new.feed[i].run = r
                 /\ new.feed[i].type = "complete" =>
                      new.status = "complete" /\ new.feed[i].beats = NumBeats
      <3>1. CASE i \in DOMAIN feed
        BY <1>3, <1>4, <3>1
      <3>2. CASE i = Len(feed) + 1
        BY <1>4, <3>2
      <3> QED
        BY <1>2, <1>4, <3>1, <3>2
    <2>2. new.feed[Len(new.feed)].beats = new.beats
      BY <1>4
    <2> QED
      BY <2>1, <2>2 DEF FeedFits
  <1> QED
    BY <1>5, <1>6, RunReplaced

(* New runs are taken at the end.                                          *)
LEMMA RunsTaken ==
  ASSUME ServerTypes, NEW more \in Seq(Runs), server' = server \o more,
         Len(server) + Len(more) <= MaxRuns + 1,
         \A i \in DOMAIN more : more[i].feed = <<>>
  PROVE  /\ ServerGrows /\ Len(server') = Len(server) + Len(more)
         /\ DOMAIN server' = 1 .. (Len(server) + Len(more))
         /\ \A r \in DOMAIN server : server'[r] = server[r]
         /\ \A i \in DOMAIN more : server'[Len(server) + i] = more[i]
  <1>1. /\ server \in Seq(Runs) /\ server' \in Seq(Runs)
        /\ Len(server') = Len(server) + Len(more)
        /\ DOMAIN server' = 1 .. (Len(server) + Len(more))
        /\ DOMAIN server = 1 .. Len(server) /\ DOMAIN more = 1 .. Len(more)
        /\ Len(server) \in Nat /\ Len(more) \in Nat
    BY DEF ServerTypes
  <1>2. \A r \in DOMAIN server : server'[r] = server[r]
    BY <1>1
  <1>3. \A i \in DOMAIN more : server'[Len(server) + i] = more[i]
    BY <1>1
  <1>4. ASSUME NEW r \in DOMAIN server'
        PROVE  FeedFits(server'[r], r)
    <2>1. CASE r \in DOMAIN server
      BY <1>2, <2>1 DEF ServerTypes
    <2>2. CASE r \notin DOMAIN server
      <3>1. r - Len(server) \in DOMAIN more /\ r = Len(server) + (r - Len(server))
        BY <1>1, <2>2
      <3>2. server'[r].feed = <<>>
        BY <1>3, <3>1
      <3> QED
        BY <3>2 DEF FeedFits
    <2> QED
      BY <2>1, <2>2
  <1>5. ServerTypes'
    BY <1>1, <1>4 DEF ServerTypes
  <1>6. \A r \in DOMAIN server : Outgrown(server[r], server'[r])
    BY <1>2, SameOutgrown DEF ServerTypes
  <1> QED
    BY <1>1, <1>2, <1>3, <1>5, <1>6 DEF ServerGrows

(* What names a run goes on naming one, with its correlation.              *)
LEMMA StillHeld ==
  ASSUME ServerTypes, ServerGrows
  PROVE  /\ \A r : Held(r) => Held(r)'
         /\ \A r \in DOMAIN server : CorrelationId(r)' = CorrelationId(r)
  BY DEF ServerGrows, Held, CorrelationId, Outgrown

(* A frame about a run of the server.                                      *)
LEMMA FrameTyped ==
  ASSUME ServerTypes, NEW r \in DOMAIN server, NEW type \in {"beat"} \cup Terminal
  PROVE  /\ Frame(type, r) \in Frames
         /\ Frame(type, r).type = type /\ Frame(type, r).run = r
         /\ Frame(type, r).beats = server[r].beats
  <1>1. server[r] \in Runs /\ r \in Nat
    BY DEF ServerTypes
  <1>2. server[r].beats \in Nat /\ server[r].cmds \in Nat
    BY <1>1, RunFields
  <1> QED
    BY <1>1, <1>2 DEF Frame, Frames

(* A summary of a frame, which is one of the run as it is.                 *)
LEMMA SnapshotTyped ==
  ASSUME NEW f \in Frames
  PROVE  /\ Snapshot(f) \in Results /\ Snapshot(f) # None
         /\ Snapshot(f).run = f.run /\ Snapshot(f).beats = f.beats
  BY NoneAssumption DEF Frames, Snapshot, Results

(* A frame that counts other beats.                                        *)
LEMMA FrameCounts ==
  ASSUME NEW now \in Frames, NEW beats \in Nat, NEW f, f = [now EXCEPT !.beats = beats]
  PROVE  f \in Frames /\ f.run = now.run /\ f.beats = beats /\ f.type = now.type
  BY DEF Frames

(* A run with a beat more and another feed, and one that has ended.        *)
RunAfter(run, feed) == [run EXCEPT !.beats = run.beats + 1, !.feed = feed]
RunClosed(run, status, feed) == [run EXCEPT !.status = status, !.feed = feed]

LEMMA RunPlayed ==
  ASSUME NEW run \in Runs, NEW feed \in Seq(Frames), NEW new, new = RunAfter(run, feed)
  PROVE  /\ new \in Runs /\ new.feed = feed /\ new.beats = run.beats + 1
         /\ new.side = run.side /\ new.coop = run.coop /\ new.status = run.status
  <1>1. new \in Runs
    <2> DEFINE beats == run.beats + 1
    <2>1. beats \in Nat
      BY DEF Runs
    <2>2. new = [run EXCEPT !.beats = beats, !.feed = feed]
      BY DEF RunAfter
    <2> HIDE DEF beats
    <2> QED
      BY <2>1, <2>2 DEF Runs
  <1>2. new.feed = feed /\ new.beats = run.beats + 1
    BY DEF Runs, RunAfter
  <1>3. new.side = run.side /\ new.coop = run.coop /\ new.status = run.status
    BY DEF Runs, RunAfter
  <1> QED
    BY <1>1, <1>2, <1>3

LEMMA RunEnded ==
  ASSUME NEW run \in Runs, NEW status \in {"active"} \cup Terminal,
         NEW feed \in Seq(Frames), NEW new,
         new = RunClosed(run, status, feed)
  PROVE  /\ new \in Runs /\ new.feed = feed /\ new.beats = run.beats
         /\ new.side = run.side /\ new.coop = run.coop /\ new.status = status
  <1>1. new \in Runs
    BY DEF Runs, RunClosed
  <1>2. new.feed = feed /\ new.status = status
    BY DEF Runs, RunClosed
  <1>3. new.side = run.side /\ new.coop = run.coop /\ new.beats = run.beats
    BY DEF Runs, RunClosed
  <1> QED
    BY <1>1, <1>2, <1>3

(* The scheduler's step: a beat, or the end of the run.                    *)
LEMMA PlayScriptGrows ==
  ASSUME ServerTypes, NEW r \in DOMAIN server, PlayScript(r)
  PROVE  ServerGrows
  <1> DEFINE run == server[r]
  <1>1. /\ run \in Runs /\ run.beats \in Nat /\ run.feed \in Seq(Frames)
        /\ run.status = "active"
    BY RunFields DEF ServerTypes, PlayScript
  <1>2. CASE /\ run.beats < NumBeats
             /\ server' = [server EXCEPT ![r] =
                  [run EXCEPT !.beats = @ + 1,
                              !.feed = Append(@, [Frame("beat", r) EXCEPT
                                                    !.beats = run.beats + 1])]]
    <2> DEFINE now  == Frame("beat", r)
               f    == [now EXCEPT !.beats = run.beats + 1]
               feed == Append(run.feed, f)
               new  == [run EXCEPT !.beats = run.beats + 1, !.feed = feed]
    <2>1. now \in Frames /\ now.run = r /\ now.type = "beat"
      BY FrameTyped
    <2>2. server' = [server EXCEPT ![r] = new]
      BY <1>2
    <2>3. run.beats + 1 \in Nat
      BY <1>1
    <2> HIDE DEF now
    <2>4. f \in Frames /\ f.run = r /\ f.beats = run.beats + 1 /\ f.type = "beat"
      <3>1. f = [now EXCEPT !.beats = run.beats + 1]
        OBVIOUS
      <3> HIDE DEF f
      <3> QED
        BY <2>1, <2>3, <3>1, FrameCounts
    <2> HIDE DEF f
    <2>5. feed \in Seq(Frames)
      BY <1>1, <2>4
    <2>6. feed = Append(server[r].feed, f)
      OBVIOUS
    <2> HIDE DEF feed, run
    <2>7. /\ new \in Runs /\ new.feed = feed /\ new.beats = run.beats + 1
          /\ new.side = run.side /\ new.coop = run.coop /\ new.status = run.status
      <3>1. new = RunAfter(run, feed)
        BY Zenon DEF RunAfter
      <3> HIDE DEF new
      <3> QED
        BY <1>1, <2>5, <3>1, RunPlayed
    <2> HIDE DEF new
    <2> QED
      BY <1>1, <2>4, <2>2, <2>6, <2>7, FramePublished DEF run
  <1>3. ASSUME NEW type \in Terminal, type = "complete" => run.beats = NumBeats,
               server' = [server EXCEPT ![r] = Ended(r, type)]
        PROVE  ServerGrows
    <2> DEFINE f    == Frame(type, r)
               feed == Append(run.feed, f)
               new  == [run EXCEPT !.status = type, !.feed = feed]
    <2>1. f \in Frames /\ f.run = r /\ f.beats = run.beats /\ f.type = type
      <3>1. type \in {"beat"} \cup Terminal
        BY <1>3
      <3>2. f = Frame(type, r)
        OBVIOUS
      <3> HIDE DEF f
      <3> QED
        BY <3>1, <3>2, FrameTyped
    <2>2. server' = [server EXCEPT ![r] = new]
      BY <1>3 DEF Ended
    <2> HIDE DEF f
    <2>3. feed \in Seq(Frames)
      BY <1>1, <2>1
    <2>4. feed = Append(server[r].feed, f)
      OBVIOUS
    <2>5. type = "complete" => f.beats = NumBeats
      BY <1>3, <2>1
    <2>6. run.status # "complete"
      BY <1>1
    <2> HIDE DEF feed, run
    <2>7. /\ new \in Runs /\ new.feed = feed /\ new.beats = run.beats
          /\ new.side = run.side /\ new.coop = run.coop /\ new.status = type
      <3>1. new = RunClosed(run, type, feed)
        BY Zenon DEF RunClosed
      <3>2. type \in {"active"} \cup Terminal
        BY <1>3
      <3> HIDE DEF new
      <3> QED
        BY <1>1, <2>3, <3>1, <3>2, RunEnded
    <2> HIDE DEF new
    <2> QED
      BY <2>1, <2>2, <2>4, <2>7, <2>5, <2>6, FramePublished DEF run
  <1> QED
    BY <1>2, <1>3 DEF PlayScript, Terminal

(* The beat of a partner's command.                                        *)
LEMMA PartnerBeatGrows ==
  ASSUME ServerTypes, NEW r \in DOMAIN server, PartnerBeat(r)
  PROVE  ServerGrows
  <1> DEFINE run == server[r]
             now  == Frame("beat", r)
             f    == [now EXCEPT !.beats = run.beats + 1]
             feed == Append(run.feed, f)
             new  == [run EXCEPT !.beats = run.beats + 1, !.feed = feed]
  <1>1. run \in Runs /\ run.beats + 1 \in Nat /\ run.feed \in Seq(Frames)
    BY RunFields DEF ServerTypes
  <1>2. now \in Frames /\ now.run = r /\ now.type = "beat" /\ now.beats = run.beats
    BY FrameTyped
  <1>3. server' = [server EXCEPT ![r] = new]
    BY <1>2 DEF PartnerBeat, ServerTypes
  <1> HIDE DEF now
  <1>4. f \in Frames /\ f.run = r /\ f.beats = run.beats + 1 /\ f.type = "beat"
    BY <1>1, <1>2 DEF Frames
  <1> HIDE DEF f
  <1>5. feed \in Seq(Frames)
    BY <1>1, <1>4
  <1>6. feed = Append(server[r].feed, f)
    OBVIOUS
  <1> HIDE DEF feed, run
  <1>7. /\ new \in Runs /\ new.feed = feed /\ new.beats = run.beats + 1
        /\ new.side = run.side /\ new.coop = run.coop /\ new.status = run.status
    BY <1>1, <1>5 DEF Runs
  <1> HIDE DEF new
  <1> QED
    BY <1>1, <1>4, <1>3, <1>6, <1>7, FramePublished DEF run

(* A command counts, and is a beat of a run that is active.                *)
LEMMA CommandGrows ==
  ASSUME ServerTypes, NEW r \in DOMAIN server, server' = Commanded(r)
  PROVE  ServerGrows /\ DOMAIN server' = DOMAIN server
  <1> DEFINE old  == server[r]
             run  == [old EXCEPT !.cmds = @ + 1]
             now  == Frame("beat", r)
             beat == [now EXCEPT !.cmds = run.cmds]
             feed == Append(old.feed, beat)
             new  == [run EXCEPT !.feed = feed]
  <1>1. /\ old \in Runs /\ old.cmds \in Nat /\ old.beats \in Nat /\ old.feed \in Seq(Frames)
        /\ FeedFits(old, r)
    BY RunFields DEF ServerTypes
  <1>2. /\ run \in Runs /\ run.cmds \in Nat /\ run.feed = old.feed /\ run.beats = old.beats
        /\ run.side = old.side /\ run.coop = old.coop /\ run.status = old.status
    BY <1>1 DEF Runs
  <1>3. server' = [server EXCEPT ![r] = IF run.status = "active" THEN new ELSE run]
    BY <1>1 DEF Commanded
  <1> HIDE DEF run
  <1>4. ASSUME run.status = "active"
        PROVE  ServerGrows
    <2>1. now \in Frames /\ now.run = r /\ now.beats = old.beats /\ now.type = "beat"
      BY FrameTyped
    <2> HIDE DEF now
    <2>2. beat \in Frames /\ beat.run = r /\ beat.beats = old.beats /\ beat.type = "beat"
      BY <1>2, <2>1 DEF Frames
    <2> HIDE DEF beat
    <2>3. feed \in Seq(Frames)
      BY <1>1, <1>2, <2>2
    <2>4. feed = Append(server[r].feed, beat)
      OBVIOUS
    <2> HIDE DEF feed
    <2>5. /\ new \in Runs /\ new.feed = feed /\ new.beats = old.beats
          /\ new.side = old.side /\ new.coop = old.coop /\ new.status = old.status
      BY <1>2, <2>3 DEF Runs
    <2>6. server' = [server EXCEPT ![r] = new]
      BY <1>3, <1>4
    <2> HIDE DEF new
    <2>7. /\ new.side = server[r].side /\ new.coop = server[r].coop
          /\ server[r].status = "complete" => new.status = "complete"
      BY <2>5
    <2>8. /\ new.feed = Append(server[r].feed, beat) /\ beat.run = r
          /\ beat.beats = new.beats /\ beat.type # "complete"
      BY <2>2, <2>4, <2>5
    <2> HIDE DEF old
    <2> QED
      BY <2>2, <2>5, <2>6, <2>7, <2>8, FramePublished
  <1>5. ASSUME run.status # "active"
        PROVE  ServerGrows
    <2>1. server' = [server EXCEPT ![r] = run]
      BY <1>3, <1>5
    <2>2. Outgrown(old, run) /\ FeedFits(run, r)
      BY <1>1, <1>2, RunFields DEF Outgrown, FeedFits
    <2> QED
      BY <1>2, <2>1, <2>2, RunReplaced
  <1>6. DOMAIN server' = DOMAIN server
    BY <1>3 DEF ServerTypes
  <1> QED
    BY <1>4, <1>5, <1>6

-----------------------------------------------------------------------------
(* What the server does, and what a handler does to the page               *)

(* The fields of a page and of a stream.                                   *)
LEMMA PageFields ==
  ASSUME NEW p \in PageRecords
  PROVE  /\ p.status \in {"idle", "running", "complete", "error"} /\ p.side \in Sides
         /\ p.runId \in Nat \cup {None} /\ p.result \in Results \cup {None}
         /\ p.ref \in (Nat \X Sides) \cup {None} /\ p.modal \in BOOLEAN
         /\ p.pair \in [red : Nat, blue : Nat] \cup {None}
  BY DEF PageRecords

(* The fields of a stream.                                                 *)
LEMMA StreamFields ==
  ASSUME NEW s \in StreamRecords
  PROVE  /\ s.phase \in Terminal \cup {"idle", "connecting", "running"}
         /\ s.snapshot \in Results \cup {None} /\ s.run \in Nat \cup {None}
         /\ s.pos \in Nat /\ s.open \in BOOLEAN
  BY DEF StreamRecords

(* A frame that was published stays where it is.                           *)
LEMMA FollowingGrows ==
  ASSUME ServerTypes, Following, stream \in StreamRecords, ServerGrows, UNCHANGED stream
  PROVE  Following'
  <1>1. CASE stream.run = None
    BY <1>1 DEF Following, Held
  <1>2. CASE stream.run # None
    <2> DEFINE old == server[stream.run]
               new == server'[stream.run]
    <2>1. stream.run \in DOMAIN server /\ stream.run \in DOMAIN server'
      BY <1>2 DEF Following, Held, ServerGrows
    <2>2. /\ old \in Runs /\ new \in Runs /\ Outgrown(old, new)
      BY <2>1 DEF ServerTypes, ServerGrows
    <2>3. /\ stream.pos \in Nat /\ stream.pos <= Len(old.feed)
          /\ stream.snapshot # None => stream.pos > 0 /\ stream.snapshot.run = stream.run
          /\ stream.phase \in {"running", "complete"} =>
               /\ stream.pos > 0 /\ stream.snapshot = Snapshot(old.feed[stream.pos])
               /\ stream.phase = "complete" => old.feed[stream.pos].type = "complete"
          /\ stream.open => stream.phase \in {"connecting", "running"}
      BY <1>2, StreamFields DEF Following
    <2> HIDE DEF old, new
    <2>4. /\ stream.pos <= Len(new.feed)
          /\ stream.pos > 0 => new.feed[stream.pos] = old.feed[stream.pos]
      BY <2>2, <2>3, RunFields DEF Outgrown
    <2>5. /\ stream.pos <= Len(new.feed)
          /\ stream.phase \in {"running", "complete"} =>
               /\ stream.pos > 0 /\ stream.snapshot = Snapshot(new.feed[stream.pos])
               /\ stream.phase = "complete" => new.feed[stream.pos].type = "complete"
      BY <2>3, <2>4
    <2> QED
      BY <1>2, <2>1, <2>3, <2>5 DEF Following, Held, new
  <1> QED
    BY <1>1, <1>2

(* The beats of a run that has published nothing more are those it had.    *)
LEMMA BeatsGrow ==
  ASSUME ServerTypes, Following, stream \in StreamRecords, ServerGrows,
         stream.snapshot # None, stream.pos = Len(server'[stream.run].feed)
  PROVE  /\ stream.run \in DOMAIN server
         /\ stream.pos = Len(server[stream.run].feed)
         /\ server'[stream.run].beats = server[stream.run].beats
  <1>1. stream.run # None
    BY DEF Following, INITIAL
  <1>2. stream.run \in DOMAIN server /\ stream.run \in DOMAIN server'
    BY <1>1 DEF Following, Held, ServerGrows
  <1>3. /\ server[stream.run] \in Runs /\ server'[stream.run] \in Runs
        /\ Outgrown(server[stream.run], server'[stream.run])
    BY <1>2 DEF ServerTypes, ServerGrows
  <1>4. stream.pos <= Len(server[stream.run].feed)
    BY <1>1 DEF Following
  <1> QED
    BY <1>2, <1>3, <1>4, RunFields DEF Outgrown

(* The server goes on, and the player or a call does nothing to the page.  *)
LEMMA RestKeeps ==
  ASSUME PageInv, UNCHANGED <<page, stream, due, daily, log>>, ServerGrows,
         plain' \in BOOLEAN, CallTypes', CallsRefer'
  PROVE  PageInv'
  <1> USE DEF PageInv
  <1>1. PageTypes' /\ ServerTypes'
    BY DEF PageTypes, ServerGrows
  <1>2. PageRefers' /\ LogRefers'
    <2>1. \A r : Held(r) => Held(r)'
      BY StillHeld
    <2> QED
      BY <2>1 DEF PageRefers, LogRefers, ServerGrows, Offered
  <1>3. Following'
    BY FollowingGrows DEF PageTypes
  <1>4. Subscribed' /\ Matched'
    BY DEF Subscribed, Matched, SubscribedTo
  <1>5. Mirrored'
    <2> SUFFICES ASSUME "mirror" \notin due, "stream" \notin due, stream.snapshot # None
                 PROVE  /\ page.result # None /\ page.result.run = stream.run
                        /\ /\ stream.phase \in {"running", "complete"}
                           /\ stream.pos = Len(server'[stream.run].feed)
                           => page.result.beats = server'[stream.run].beats
      BY DEF Mirrored
    <2> QED
      BY BeatsGrow DEF Mirrored, PageTypes
  <1>6. Recorded'
    BY StillHeld DEF Recorded, PageRefers
  <1> QED
    BY <1>1, <1>2, <1>3, <1>4, <1>5, <1>6

(* What a handler leaves to hold of a page p that shows the stream as it   *)
(* is: the summary may only be replaced by one of the run the page follows.*)
StaysMirrored(p) ==
  SubscribedTo(p) = SubscribedTo(page) /\ stream.snapshot # None =>
    /\ p.result # None /\ p.result.run = stream.run
    /\ \/ p.result.beats = page.result.beats
       \/ p.result.beats = server[stream.run].beats

(* A handler renders page p: the effects it leaves undone are due.         *)
LEMMA HandlerKeeps ==
  ASSUME PageInv, Settled, NEW p \in PageRecords, NEW fresh \in SUBSET {"record"},
         Render(p, stream, fresh), UNCHANGED <<daily, log>>, ServerGrows,
         plain' \in BOOLEAN, CallTypes', CallsRefer', PageRefers',
         p.ref = page.ref \/ p.status # "complete", StaysMirrored(p)
  PROVE  PageInv'
  <1> USE DEF PageInv
  <1>1. page' = p /\ stream' = stream /\ due' = DueAfter(p, stream, fresh) /\ due = {}
    BY DEF Render, Settled
  <1>2. /\ "stream" \notin due' => SubscribedTo(p) = SubscribedTo(page)
        /\ "record" \notin due' => p.status = page.status /\ p.result = page.result
        /\ "daily" \notin due' => p.side = page.side
        /\ due' \subseteq AllEffects
    BY <1>1 DEF DueAfter, AllEffects
  <1>3. PageTypes' /\ ServerTypes'
    BY <1>1, <1>2 DEF PageTypes, ServerGrows
  <1>4. LogRefers'
    BY DEF LogRefers, ServerGrows
  <1>5. Following'
    BY <1>1, FollowingGrows DEF PageTypes
  <1>6. Subscribed' /\ Matched'
    BY <1>1, <1>2 DEF Subscribed, Matched, SubscribedTo
  <1>7. Mirrored'
    <2> SUFFICES ASSUME "stream" \notin due', stream.snapshot # None
                 PROVE  /\ p.result # None /\ p.result.run = stream.run
                        /\ /\ stream.phase \in {"running", "complete"}
                           /\ stream.pos = Len(server'[stream.run].feed)
                           => p.result.beats = server'[stream.run].beats
      BY <1>1 DEF Mirrored
    <2>1. /\ p.result # None /\ p.result.run = stream.run
          /\ \/ p.result.beats = page.result.beats
             \/ p.result.beats = server[stream.run].beats
      BY <1>2 DEF StaysMirrored
    <2>2. /\ stream.phase \in {"running", "complete"}
          /\ stream.pos = Len(server[stream.run].feed)
          => page.result.beats = server[stream.run].beats
      BY <1>1 DEF Mirrored
    <2> QED
      BY <2>1, <2>2, BeatsGrow DEF PageTypes
  <1>8. Recorded'
    BY <1>1, <1>2, StillHeld DEF Recorded, PageRefers
  <1> QED
    BY <1>3, <1>4, <1>5, <1>6, <1>7, <1>8

-----------------------------------------------------------------------------
(* The calls                                                               *)

(* A request that is sent, and one that is answered.                       *)
LEMMA SendTyped ==
  ASSUME CallTypes, NEW kind, NEW arg, Send(kind, arg),
         [kind |-> kind, arg |-> arg] \in Requests
  PROVE  CallTypes'
  <1> DEFINE c == [kind |-> kind, arg |-> arg]
  <1>1. c \in Requests /\ c \notin calls /\ calls' = calls \cup {c}
        /\ Cardinality(calls) < MaxCalls
    BY DEF Send
  <1> HIDE DEF c
  <1>2. IsFiniteSet(calls) /\ Cardinality(calls) \in Nat /\ MaxCalls \in Nat
    BY FS_CardinalityType, PageAssumption DEF CallTypes
  <1>3. IsFiniteSet(calls') /\ Cardinality(calls') = Cardinality(calls) + 1
    BY <1>1, <1>2, FS_AddElement
  <1>4. calls' \subseteq Requests
    BY <1>1 DEF CallTypes
  <1>5. Cardinality(calls') <= MaxCalls
    BY <1>1, <1>2, <1>3
  <1> QED
    BY <1>3, <1>4, <1>5 DEF CallTypes

(* An answered call is gone.                                               *)
LEMMA AnswerTyped ==
  ASSUME CallTypes, NEW c \in calls, calls' = calls \ {c}
  PROVE  CallTypes'
  <1>1. IsFiniteSet(calls) /\ Cardinality(calls) \in Nat /\ MaxCalls \in Nat
    BY FS_CardinalityType, PageAssumption DEF CallTypes
  <1>2. IsFiniteSet(calls') /\ Cardinality(calls') <= Cardinality(calls)
    BY <1>1, FS_RemoveElement
  <1>3. Cardinality(calls') \in Nat
    BY <1>2, FS_CardinalityType
  <1>4. Cardinality(calls') <= MaxCalls
    BY <1>1, <1>2, <1>3 DEF CallTypes
  <1> QED
    BY <1>2, <1>4 DEF CallTypes

(* What calls name stays there while the modal is as it was.               *)
LEMMA CallsStillRefer ==
  ASSUME CallsRefer, ServerGrows, calls' \subseteq calls, page'.modal => page.modal,
         page'.pair = page.pair
  PROVE  CallsRefer'
  BY DEF CallsRefer, ServerGrows, Offered

-----------------------------------------------------------------------------
(* Steps that leave the page alone                                         *)

(* A co-op launch is a call, and nothing else.                             *)
LEMMA LaunchCoopKeeps ==
  ASSUME PageInv, LaunchCoop
  PROVE  PageInv'
  <1>1. /\ Send("coop", None) /\ UNCHANGED <<page, stream, due, daily, log, server>>
        /\ plain' = FALSE
    BY DEF LaunchCoop
  <1>2. CallTypes'
    BY <1>1, SendTyped DEF PageInv, Requests
  <1>3. CallsRefer'
    BY <1>1 DEF PageInv, CallsRefer, Send, Offered
  <1>4. ServerGrows
    BY <1>1, ServerRests DEF PageInv
  <1> QED
    BY <1>1, <1>2, <1>3, <1>4, RestKeeps

(* A command is sent for the run on the page.                              *)
LEMMA SubmitCommandKeeps ==
  ASSUME PageInv, SubmitCommand
  PROVE  PageInv'
  <1>1. /\ Send("command", page.runId) /\ page.runId # None
        /\ UNCHANGED <<page, stream, due, daily, log, server, plain>>
    BY DEF SubmitCommand
  <1>2. page.runId \in DOMAIN server /\ page.runId \in Nat
    BY <1>1 DEF PageInv, PageRefers, Held, ServerTypes
  <1>3. CallTypes'
    BY <1>1, <1>2, SendTyped DEF PageInv, Requests
  <1>4. CallsRefer'
    BY <1>1, <1>2 DEF PageInv, CallsRefer, Send, Offered
  <1>5. ServerGrows
    BY <1>1, ServerRests DEF PageInv
  <1>6. plain' \in BOOLEAN
    BY <1>1 DEF PageInv, PageTypes
  <1> QED
    BY <1>1, <1>3, <1>4, <1>5, <1>6, RestKeeps

(* A run goes on: what the page shows of it stays true of it.              *)
LEMMA ServerStepKeeps ==
  ASSUME PageInv, NEW r \in DOMAIN server, PlayScript(r) \/ PartnerBeat(r)
  PROVE  PageInv'
  <1>1. UNCHANGED <<page, stream, due, daily, log, plain, calls>>
    BY DEF PlayScript, PartnerBeat
  <1>2. ServerGrows
    BY PlayScriptGrows, PartnerBeatGrows DEF PageInv
  <1>3. CallTypes' /\ plain' \in BOOLEAN
    BY <1>1 DEF PageInv, CallTypes, PageTypes
  <1>4. CallsRefer'
    BY <1>1, <1>2, CallsStillRefer DEF PageInv
  <1> QED
    BY <1>1, <1>2, <1>3, <1>4, RestKeeps

-----------------------------------------------------------------------------
(* The player's handlers                                                   *)

(* A page that follows no run has no summary of the stream.                *)
LEMMA NothingFollowed ==
  ASSUME PageInv, Settled, SubscribedTo(page) = None
  PROVE  stream = INITIAL
  BY DEF PageInv, Settled, Subscribed, Following

(* A launch leaves an idle page, which follows no run.                     *)
LEMMA LaunchKeeps ==
  ASSUME PageInv, Launch
  PROVE  PageInv'
  <1> DEFINE p == [page EXCEPT !.status = "running", !.result = None, !.runId = None]
  <1>1. /\ Settled /\ page.status = "idle" /\ Render(p, stream, {}) /\ Send("launch", page.side)
        /\ UNCHANGED <<daily, server, log, plain>>
    BY DEF Launch
  <1>2. page \in PageRecords /\ page.side \in Sides
    BY PageFields DEF PageInv, PageTypes
  <1>3. /\ p \in PageRecords /\ p.result = None /\ p.runId = None /\ p.ref = page.ref
        /\ p.pair = page.pair /\ p.modal = page.modal
    BY <1>2 DEF PageRecords
  <1>4. page' = p
    BY <1>1 DEF Render
  <1> HIDE DEF p
  <1>5. ServerGrows
    BY <1>1, ServerRests DEF PageInv
  <1>6. CallTypes'
    BY <1>1, <1>2, SendTyped DEF PageInv, Requests
  <1>7. CallsRefer'
    BY <1>1, <1>3, <1>4 DEF PageInv, CallsRefer, Send, Offered
  <1>8. PageRefers'
    BY <1>1, <1>3, <1>4, NoneAssumption DEF PageInv, PageRefers, Held, Offered, ServerTypes,
       PageRecords
  <1>9. StaysMirrored(p)
    BY <1>1, NothingFollowed DEF StaysMirrored, SubscribedTo, INITIAL
  <1>10. plain' \in BOOLEAN
    BY <1>1 DEF PageInv, PageTypes
  <1> QED
    BY <1>1, <1>3, <1>5, <1>6, <1>7, <1>8, <1>9, <1>10, HandlerKeeps

(* Run Again and Reset forget the run and its record together.             *)
LEMMA ResetKeeps ==
  ASSUME PageInv, Reset
  PROVE  PageInv'
  <1> DEFINE p == [page EXCEPT !.status = "idle", !.result = None, !.runId = None,
                               !.ref = None]
  <1>1. /\ Settled /\ Render(p, stream, {})
        /\ UNCHANGED <<daily, server, log, plain, calls>>
    BY DEF Reset
  <1>2. page \in PageRecords
    BY DEF PageInv, PageTypes
  <1>3. /\ p \in PageRecords /\ p.result = None /\ p.runId = None /\ p.status = "idle"
        /\ p.pair = page.pair /\ p.modal = page.modal
    BY <1>2 DEF PageRecords
  <1>4. page' = p
    BY <1>1 DEF Render
  <1> HIDE DEF p
  <1>5. ServerGrows
    BY <1>1, ServerRests DEF PageInv
  <1>6. CallTypes' /\ plain' \in BOOLEAN
    BY <1>1 DEF PageInv, CallTypes, PageTypes
  <1>7. CallsRefer'
    BY <1>1, <1>3, <1>4, <1>5, CallsStillRefer DEF PageInv
  <1>8. PageRefers'
    BY <1>1, <1>3, <1>4, NoneAssumption DEF PageInv, PageRefers, Held, Offered, ServerTypes,
       PageRecords
  <1>9. StaysMirrored(p)
    <2>1. SubscribedTo(p) = None
      BY <1>3 DEF SubscribedTo
    <2> QED
      BY <1>1, <2>1, NothingFollowed DEF StaysMirrored, INITIAL
  <1> QED
    BY <1>1, <1>3, <1>5, <1>6, <1>7, <1>8, <1>9, HandlerKeeps

(* A change of side makes the daily match due.                             *)
LEMMA SwapSideKeeps ==
  ASSUME PageInv, SwapSide
  PROVE  PageInv'
  <1> DEFINE other == IF page.side = "red" THEN "blue" ELSE "red"
             p == [page EXCEPT !.side = other]
  <1>1. /\ Settled /\ Render(p, stream, {}) /\ plain' = (plain /\ page.status # "complete")
        /\ UNCHANGED <<daily, server, log, calls>>
    BY DEF SwapSide
  <1>2. page \in PageRecords /\ other \in Sides /\ page.side \in Sides
    BY PageFields DEF PageInv, PageTypes, Sides
  <1> HIDE DEF other
  <1>3. /\ p \in PageRecords /\ p.result = page.result /\ p.runId = page.runId
        /\ p.status = page.status /\ p.ref = page.ref
        /\ p.pair = page.pair /\ p.modal = page.modal
    BY <1>2 DEF PageRecords
  <1>4. page' = p
    BY <1>1 DEF Render
  <1> HIDE DEF p
  <1>5. ServerGrows
    BY <1>1, ServerRests DEF PageInv
  <1>6. CallTypes' /\ plain' \in BOOLEAN
    BY <1>1 DEF PageInv, CallTypes
  <1>7. CallsRefer'
    BY <1>1, <1>3, <1>4, <1>5, CallsStillRefer DEF PageInv
  <1>8. PageRefers'
    BY <1>1, <1>3, <1>4 DEF PageInv, PageRefers, Held, Offered
  <1>9. StaysMirrored(p)
    BY <1>1, <1>3 DEF StaysMirrored, PageInv, Mirrored, Settled
  <1> QED
    BY <1>1, <1>3, <1>5, <1>6, <1>7, <1>8, <1>9, HandlerKeeps

(* The runs of a co-op pair that is not kept are forgotten.                *)
LEMMA CloseModalKeeps ==
  ASSUME PageInv, CloseModal
  PROVE  PageInv'
  <1> DEFINE p == [page EXCEPT !.modal = FALSE]
  <1>1. /\ Settled /\ Render(p, stream, {}) /\ UNCHANGED <<daily, server, log, calls, plain>>
    BY DEF CloseModal
  <1>2. page \in PageRecords
    BY DEF PageInv, PageTypes
  <1>3. /\ p \in PageRecords /\ p.result = page.result /\ p.runId = page.runId
        /\ p.status = page.status /\ p.ref = page.ref
        /\ p.pair = page.pair /\ p.modal = FALSE
    BY <1>2 DEF PageRecords
  <1>4. page' = p
    BY <1>1 DEF Render
  <1> HIDE DEF p
  <1>5. ServerGrows
    BY <1>1, ServerRests DEF PageInv
  <1>6. CallTypes' /\ plain' \in BOOLEAN
    BY <1>1 DEF PageInv, CallTypes, PageTypes
  <1>7. CallsRefer'
    BY <1>1, <1>3, <1>4, <1>5, CallsStillRefer DEF PageInv
  <1>8. PageRefers'
    BY <1>1, <1>3, <1>4 DEF PageInv, PageRefers, Held, Offered
  <1>9. StaysMirrored(p)
    BY <1>1, <1>3 DEF StaysMirrored, PageInv, Mirrored, Settled
  <1> QED
    BY <1>1, <1>3, <1>5, <1>6, <1>7, <1>8, <1>9, HandlerKeeps

(* The run taken from the modal is another one than the page's.            *)
LEMMA KeepMyRunKeeps ==
  ASSUME PageInv, KeepMyRun
  PROVE  PageInv'
  <1> DEFINE mine == page.pair[page.side]
             p == [page EXCEPT !.runId = mine, !.status = "running",
                               !.result = None, !.modal = FALSE]
  <1>1. /\ Settled /\ page.modal /\ Render(p, stream, {})
        /\ UNCHANGED <<daily, server, log, calls, plain>>
    BY DEF KeepMyRun
  <1>2. /\ page \in PageRecords /\ page.side \in Sides /\ page.pair # None
        /\ page.pair \in [red : Nat, blue : Nat] \cup {None}
        /\ Offered \subseteq DOMAIN server /\ page.runId \notin Offered
    BY <1>1, PageFields DEF PageInv, PageTypes, PageRefers
  <1>3. mine \in Offered
    BY <1>2 DEF Offered, Sides
  <1>4. mine \in DOMAIN server /\ mine \in Nat /\ mine # page.runId /\ mine # None
    BY <1>2, <1>3, NoneAssumption DEF PageInv, ServerTypes
  <1> HIDE DEF mine
  <1>5. /\ p \in PageRecords /\ p.result = None /\ p.runId = mine
        /\ p.status = "running" /\ p.ref = page.ref
        /\ p.pair = page.pair /\ p.modal = FALSE
    BY <1>2, <1>4 DEF PageRecords
  <1>6. page' = p
    BY <1>1 DEF Render
  <1> HIDE DEF p
  <1>7. ServerGrows
    BY <1>1, ServerRests DEF PageInv
  <1>8. CallTypes' /\ plain' \in BOOLEAN
    BY <1>1 DEF PageInv, CallTypes, PageTypes
  <1>9. CallsRefer'
    BY <1>1, <1>5, <1>6, <1>7, CallsStillRefer DEF PageInv
  <1>10. PageRefers'
    BY <1>1, <1>4, <1>5, <1>6 DEF PageRefers, Held
  <1>11. StaysMirrored(p)
    <2>1. SubscribedTo(p) = mine /\ SubscribedTo(page) # mine
      BY <1>4, <1>5 DEF SubscribedTo
    <2> QED
      BY <2>1 DEF StaysMirrored
  <1> QED
    BY <1>1, <1>5, <1>7, <1>8, <1>9, <1>10, <1>11, HandlerKeeps

-----------------------------------------------------------------------------
(* The answers                                                             *)

(* A run that was just created is one more than the server had.            *)
LEMMA NewRunTyped ==
  ASSUME NEW side \in Sides, NEW coop \in BOOLEAN
  PROVE  /\ NewRun(side, coop) \in Runs /\ NewRun(side, coop).feed = <<>>
         /\ NewRun(side, coop).coop = coop /\ NewRun(side, coop).side = side
  BY DEF NewRun, Runs

(* The side of a launch.                                                   *)
LEMMA LaunchSide ==
  ASSUME CallTypes, NEW c \in calls, c.kind = "launch"
  PROVE  c.arg \in Sides
  BY DEF CallTypes, Requests

(* The answer to a launch brings one run, the last.                        *)
LEMMA LaunchGrows ==
  ASSUME PageInv, NEW c \in calls, LaunchAnswers(c)
  PROVE  /\ ServerGrows /\ DOMAIN server' = 1 .. (Len(server) + 1)
         /\ \A r \in DOMAIN server : server'[r] = server[r]
         /\ server'[Len(server) + 1] = NewRun(c.arg, FALSE)
         /\ DOMAIN server = 1 .. Len(server) /\ Len(server) \in Nat
  <1> DEFINE run  == NewRun(c.arg, FALSE)
             more == <<run>>
  <1>1. /\ c.arg \in Sides /\ Len(server) < MaxRuns /\ server \in Seq(Runs)
        /\ server' = Append(server, run) /\ ServerTypes
    BY LaunchSide DEF LaunchAnswers, PageInv, ServerTypes
  <1>2. run \in Runs /\ run.feed = <<>>
    BY <1>1, NewRunTyped
  <1> HIDE DEF run
  <1>3. /\ more \in Seq(Runs) /\ Len(more) = 1 /\ server' = server \o more
        /\ DOMAIN more = {1} /\ more[1] = run
    BY <1>1, <1>2
  <1>4. /\ Len(server) + Len(more) <= MaxRuns + 1 /\ \A i \in DOMAIN more : more[i].feed = <<>>
        /\ Len(server) \in Nat
    BY <1>1, <1>2, <1>3, PageAssumption
  <1> HIDE DEF more
  <1>5. /\ ServerGrows /\ DOMAIN server' = 1 .. (Len(server) + 1)
        /\ \A r \in DOMAIN server : server'[r] = server[r]
        /\ server'[Len(server) + 1] = run
    BY <1>1, <1>3, <1>4, RunsTaken
  <1>6. DOMAIN server = 1 .. Len(server) /\ Len(server) \in Nat
    BY <1>1
  <1> QED
    BY <1>5, <1>6 DEF run

(* The page follows the run of the launch that was answered.               *)
LEMMA LaunchAnswersKeeps ==
  ASSUME PageInv, NEW c \in calls, LaunchAnswers(c)
  PROVE  PageInv'
  <1> DEFINE new == Len(server) + 1
             p == [page EXCEPT !.runId = new]
  <1>1. /\ Settled /\ Render(p, stream, {}) /\ calls' = calls \ {c}
        /\ UNCHANGED <<daily, log, plain>>
    BY DEF LaunchAnswers
  <1>2. /\ ServerGrows /\ DOMAIN server' = 1 .. (Len(server) + 1)
         /\ DOMAIN server = 1 .. Len(server) /\ Len(server) \in Nat
    BY LaunchGrows
  <1>3. /\ ServerGrows /\ new \in DOMAIN server' /\ new \notin DOMAIN server
        /\ new \in Nat /\ new # None
    BY <1>2, NoneAssumption
  <1>4. page \in PageRecords /\ new # page.runId
    BY <1>3 DEF PageInv, PageTypes, PageRefers, Held
  <1>5. page.modal => Offered \subseteq DOMAIN server
    BY DEF PageInv, PageRefers
  <1> HIDE DEF new
  <1>6. /\ p \in PageRecords /\ p.result = page.result /\ p.runId = new
        /\ p.status = page.status /\ p.ref = page.ref
        /\ p.pair = page.pair /\ p.modal = page.modal
    BY <1>3, <1>4 DEF PageRecords
  <1>7. page' = p
    BY <1>1 DEF Render
  <1> HIDE DEF p
  <1>8. CallTypes' /\ plain' \in BOOLEAN
    BY <1>1, AnswerTyped DEF PageInv, PageTypes
  <1>9. CallsRefer'
    BY <1>1, <1>3, <1>6, <1>7, CallsStillRefer DEF PageInv
  <1>10. PageRefers'
    BY <1>3, <1>6, <1>7, <1>5 DEF PageInv, PageRefers, Held, Offered, ServerGrows
  <1>11. StaysMirrored(p)
    BY <1>1, <1>4, <1>6, NothingFollowed DEF StaysMirrored, SubscribedTo, INITIAL
  <1> QED
    BY <1>1, <1>3, <1>6, <1>8, <1>9, <1>10, <1>11, HandlerKeeps

(* The answer to a co-op launch brings two.                                *)
LEMMA CoopGrows ==
  ASSUME PageInv, NEW c \in calls, CoopAnswers(c)
  PROVE  /\ ServerGrows /\ DOMAIN server' = 1 .. (Len(server) + 2)
         /\ DOMAIN server = 1 .. Len(server) /\ Len(server) \in Nat
  <1> DEFINE red  == NewRun("red", TRUE)
             blue == NewRun("blue", TRUE)
             more == <<red, blue>>
  <1>1. /\ Len(server) < MaxRuns /\ server \in Seq(Runs)
        /\ server' = server \o more /\ ServerTypes
    BY DEF CoopAnswers, PageInv, ServerTypes
  <1>2. red \in Runs /\ red.feed = <<>> /\ blue \in Runs /\ blue.feed = <<>>
    BY NewRunTyped DEF Sides
  <1> HIDE DEF red, blue
  <1>3. /\ more \in Seq(Runs) /\ Len(more) = 2 /\ DOMAIN more = {1, 2}
        /\ more[1] = red /\ more[2] = blue
    BY <1>2
  <1>4. /\ Len(server) + Len(more) <= MaxRuns + 1 /\ \A i \in DOMAIN more : more[i].feed = <<>>
        /\ Len(server) \in Nat
    BY <1>1, <1>2, <1>3, PageAssumption
  <1> HIDE DEF more
  <1>5. ServerGrows /\ DOMAIN server' = 1 .. (Len(server) + 2)
    BY <1>1, <1>3, <1>4, RunsTaken
  <1>6. DOMAIN server = 1 .. Len(server) /\ Len(server) \in Nat
    BY <1>1
  <1> QED
    BY <1>5, <1>6

(* The modal offers runs no page shows and no call names.                  *)
LEMMA CoopAnswersKeeps ==
  ASSUME PageInv, NEW c \in calls, CoopAnswers(c)
  PROVE  PageInv'
  <1> DEFINE n == Len(server)
             pair == [red |-> n + 1, blue |-> n + 2]
             p == [page EXCEPT !.pair = pair, !.modal = TRUE]
  <1>1. /\ Settled /\ Render(p, stream, {}) /\ calls' = calls \ {c}
        /\ UNCHANGED <<daily, log, plain>>
    BY DEF CoopAnswers
  <1>2. /\ ServerGrows /\ DOMAIN server' = 1 .. (n + 2) /\ DOMAIN server = 1 .. n /\ n \in Nat
    BY CoopGrows
  <1>3. /\ pair \in [red : Nat, blue : Nat] /\ pair # None
        /\ {pair.red, pair.blue} \subseteq DOMAIN server'
        /\ {pair.red, pair.blue} \cap DOMAIN server = {}
        /\ {pair.red, pair.blue} \subseteq Nat
    BY <1>2, NoneAssumption
  <1>4. page \in PageRecords
    BY DEF PageInv, PageTypes
  <1> HIDE DEF n, pair
  <1>5. /\ p \in PageRecords /\ p.result = page.result /\ p.runId = page.runId
        /\ p.status = page.status /\ p.ref = page.ref /\ p.pair = pair
    BY <1>3, <1>4 DEF PageRecords
  <1>6. page' = p
    BY <1>1 DEF Render
  <1> HIDE DEF p
  <1>7. CallTypes' /\ plain' \in BOOLEAN
    BY <1>1, AnswerTyped DEF PageInv, PageTypes
  <1>8. CallsRefer'
    BY <1>1, <1>2, <1>3, <1>5, <1>6 DEF PageInv, CallsRefer, Offered, ServerGrows
  <1>9. PageRefers'
    BY <1>2, <1>3, <1>5, <1>6, NoneAssumption DEF PageInv, PageRefers, Held, Offered,
       ServerGrows
  <1>10. StaysMirrored(p)
    BY <1>1, <1>5 DEF StaysMirrored, PageInv, Mirrored, Settled
  <1> QED
    BY <1>1, <1>2, <1>5, <1>7, <1>8, <1>9, <1>10, HandlerKeeps

(* A join shows the run of the link, with its summary if it has one.       *)
LEMMA JoinAnswersKeeps ==
  ASSUME PageInv, NEW c \in calls, JoinAnswers(c)
  PROVE  PageInv'
  <1> DEFINE r == c.arg
             run == server[r]
             hasSummary == run.status = "complete" \/ run.side = "red" \/ run.coop
             side == IF run.side # MountSide THEN run.side ELSE page.side
             status == IF run.status = "complete" THEN "complete" ELSE "running"
             now == Frame("summary", r)
             summary == Snapshot(now)
             result == IF hasSummary THEN summary ELSE page.result
             p == [page EXCEPT !.runId = r, !.side = side, !.status = status,
                               !.result = result]
             fresh == IF hasSummary THEN {"record"} ELSE {}
  <1>1. /\ Settled /\ Render(p, stream, fresh) /\ calls' = calls \ {c} /\ c.kind = "join"
        /\ UNCHANGED <<daily, log, plain, server>>
    BY DEF JoinAnswers
  <1>2. /\ r \in DOMAIN server /\ r \in Nat /\ r # None
        /\ run \in Runs /\ run.side \in Sides /\ run.beats \in Nat /\ run.cmds \in Nat
        /\ page.modal => r \notin Offered
    BY <1>1, RunFields, NoneAssumption DEF PageInv, CallsRefer, ServerTypes
  <1>3. summary \in Results /\ summary # None /\ summary.run = r /\ summary.beats = run.beats
    BY <1>2, NoneAssumption DEF Snapshot, Frame, Results
  <1>4. page \in PageRecords /\ status \in {"running", "complete"} /\ fresh \in SUBSET {"record"}
    BY DEF PageInv, PageTypes
  <1>5. side \in Sides
    BY <1>2, <1>4, PageFields
  <1>6. result = summary \/ result = page.result
    OBVIOUS
  <1>7. result \in Results \cup {None}
    BY <1>3, <1>4, <1>6, PageFields
  <1> HIDE DEF result, status, side, run, summary, fresh, r
  <1>8. /\ p \in PageRecords /\ p.result = result /\ p.runId = r /\ p.status = status
        /\ p.ref = page.ref /\ p.pair = page.pair /\ p.modal = page.modal
    BY <1>2, <1>4, <1>5, <1>7 DEF PageRecords
  <1>9. page' = p
    BY <1>1 DEF Render
  <1> HIDE DEF p
  <1>10. ServerGrows
    BY <1>1, ServerRests DEF PageInv
  <1>11. CallTypes' /\ plain' \in BOOLEAN
    BY <1>1, AnswerTyped DEF PageInv, PageTypes
  <1>12. CallsRefer'
    BY <1>1, <1>8, <1>9, <1>10, CallsStillRefer DEF PageInv
  <1>13. PageRefers'
    BY <1>1, <1>2, <1>3, <1>6, <1>8, <1>9 DEF PageInv, PageRefers, Held, Offered
  <1>14. StaysMirrored(p)
    <2> SUFFICES ASSUME SubscribedTo(p) = SubscribedTo(page), stream.snapshot # None
                 PROVE  /\ result # None /\ result.run = stream.run
                        /\ \/ result.beats = page.result.beats
                           \/ result.beats = server[stream.run].beats
      BY <1>8 DEF StaysMirrored
    <2>1. stream.run = r
      BY <1>1, <1>4, <1>8 DEF SubscribedTo, PageInv, Subscribed, Settled
    <2>2. CASE result = summary
      BY <1>3, <2>1, <2>2 DEF run
    <2>3. CASE result = page.result
      BY <1>1, <2>3 DEF PageInv, Mirrored, Settled
    <2> QED
      BY <1>6, <2>2, <2>3
  <1> QED
    BY <1>1, <1>4, <1>8, <1>10, <1>11, <1>12, <1>13, <1>14, HandlerKeeps

(* A command's answer adds commands to the summary, whoever's it is.       *)
LEMMA CommandAnswersKeeps ==
  ASSUME PageInv, NEW c \in calls, CommandAnswers(c)
  PROVE  PageInv'
  <1> DEFINE cmds == server[c.arg].cmds + 1
             result == IF page.result = None THEN page.result
                       ELSE [page.result EXCEPT !.cmds = cmds]
             p == [page EXCEPT !.result = result]
             fresh == IF page.result = None THEN {} ELSE {"record"}
  <1>1. c.kind = "command" /\ c.arg \in DOMAIN server
    BY DEF CommandAnswers, PageInv, CallsRefer
  <1>2. server[c.arg] \in Runs /\ cmds \in Nat
    BY <1>1, RunFields DEF PageInv, ServerTypes
  <1>4. /\ Settled /\ Render(p, stream, fresh) /\ calls' = calls \ {c}
        /\ UNCHANGED <<daily, log, plain>>
    BY DEF CommandAnswers
  <1>5. ServerGrows /\ DOMAIN server' = DOMAIN server
    BY <1>1, CommandGrows DEF CommandAnswers, PageInv
  <1>6. /\ page \in PageRecords /\ fresh \in SUBSET {"record"}
        /\ page.result \in Results \cup {None}
    BY PageFields DEF PageInv, PageTypes
  <1> HIDE DEF cmds, fresh
  <1>7. /\ result \in Results \cup {None} /\ (result = None <=> page.result = None)
        /\ page.result # None => /\ result.run = page.result.run
                                 /\ result.beats = page.result.beats
    BY <1>2, <1>6, NoneAssumption DEF Results
  <1> HIDE DEF result
  <1>8. /\ p \in PageRecords /\ p.result = result /\ p.runId = page.runId
        /\ p.status = page.status /\ p.ref = page.ref
        /\ p.pair = page.pair /\ p.modal = page.modal
    BY <1>6, <1>7 DEF PageRecords
  <1>9. page' = p
    BY <1>4 DEF Render
  <1> HIDE DEF p
  <1>10. CallTypes' /\ plain' \in BOOLEAN
    BY <1>4, AnswerTyped DEF PageInv, PageTypes
  <1>11. CallsRefer'
    BY <1>4, <1>5, <1>8, <1>9, CallsStillRefer DEF PageInv
  <1>12. PageRefers'
    BY <1>5, <1>7, <1>8, <1>9 DEF PageInv, PageRefers, Held, Offered, ServerGrows
  <1>13. StaysMirrored(p)
    BY <1>4, <1>7, <1>8 DEF StaysMirrored, PageInv, Mirrored, Settled
  <1> QED
    BY <1>4, <1>5, <1>6, <1>8, <1>10, <1>11, <1>12, <1>13, HandlerKeeps

(* Of a call that fails, the server may have run the command.              *)
LEMMA FailedCallGrows ==
  ASSUME PageInv, NEW c \in calls, CallFails(c)
  PROVE  ServerGrows /\ DOMAIN server' = DOMAIN server
  <1>1. CASE UNCHANGED server
    BY <1>1, ServerRests DEF PageInv
  <1>2. CASE c.kind = "command" /\ server' = Commanded(c.arg)
    <2>1. c.arg \in DOMAIN server
      BY <1>2 DEF PageInv, CallsRefer
    <2> QED
      BY <1>2, <2>1, CommandGrows DEF PageInv
  <1> QED
    BY <1>1, <1>2 DEF CallFails

(* A call that fails changes no more of the page than the status.          *)
LEMMA CallFailsKeeps ==
  ASSUME PageInv, NEW c \in calls, CallFails(c)
  PROVE  PageInv'
  <1> DEFINE status == IF c.kind \in {"launch", "coop"} THEN "error" ELSE page.status
             p == [page EXCEPT !.status = status]
  <1>1. /\ Settled /\ Render(p, stream, {}) /\ calls' = calls \ {c}
        /\ UNCHANGED <<daily, log, plain>>
    BY DEF CallFails
  <1>2. page \in PageRecords /\ status \in {"idle", "running", "complete", "error"}
        /\ (status = page.status \/ status = "error")
    BY PageFields DEF PageInv, PageTypes
  <1> HIDE DEF status
  <1>3. /\ p \in PageRecords /\ p.result = page.result /\ p.runId = page.runId
        /\ p.status = status /\ p.ref = page.ref
        /\ p.pair = page.pair /\ p.modal = page.modal
    BY <1>2 DEF PageRecords
  <1>4. page' = p
    BY <1>1 DEF Render
  <1> HIDE DEF p
  <1>5. ServerGrows
    BY FailedCallGrows
  <1>6. CallTypes' /\ plain' \in BOOLEAN
    BY <1>1, AnswerTyped DEF PageInv, PageTypes
  <1>7. CallsRefer'
    BY <1>1, <1>3, <1>4, <1>5, CallsStillRefer DEF PageInv
  <1>8. PageRefers'
    BY <1>1, <1>2, <1>3, <1>4, <1>5 DEF PageInv, PageRefers, Held, Offered, ServerGrows
  <1>9. StaysMirrored(p)
    BY <1>1, <1>3 DEF StaysMirrored, PageInv, Mirrored, Settled
  <1> QED
    BY <1>1, <1>3, <1>5, <1>6, <1>7, <1>8, <1>9, HandlerKeeps

-----------------------------------------------------------------------------
(* The stream                                                              *)

(* An open connection is to a run, whose frame at hand is one of its own.  *)
LEMMA FrameAtHand ==
  ASSUME ServerTypes, Following, stream \in StreamRecords, stream.open,
         stream.pos < Len(server[stream.run].feed)
  PROVE  /\ stream.run \in DOMAIN server
         /\ stream.pos + 1 \in DOMAIN server[stream.run].feed
         /\ server[stream.run].feed[stream.pos + 1] \in Frames
         /\ server[stream.run].feed[stream.pos + 1].run = stream.run
  <1>1. stream.run # None
    BY DEF Following, INITIAL
  <1>2. stream.run \in DOMAIN server
    BY <1>1 DEF Following, Held
  <1>3. server[stream.run] \in Runs /\ FeedFits(server[stream.run], stream.run)
    BY <1>2 DEF ServerTypes
  <1>4. stream.pos + 1 \in DOMAIN server[stream.run].feed
    BY <1>3, RunFields, StreamFields
  <1> QED
    BY <1>2, <1>3, <1>4, RunFields DEF FeedFits

(* The page comes one frame further in the feed it follows.                *)
LEMMA ReceiveKeeps ==
  ASSUME PageInv, Receive
  PROVE  PageInv'
  <1> DEFINE run == server[stream.run]
             f == run.feed[stream.pos + 1]
             told == f.type \in {"beat", "complete"}
             snapshot == IF told THEN Snapshot(f) ELSE stream.snapshot
             phase == IF f.type = "beat" THEN "running" ELSE f.type
             open == f.type \notin Terminal
             pos == stream.pos + 1
             s == [stream EXCEPT !.pos = pos, !.open = open,
                                 !.phase = phase, !.snapshot = snapshot]
             fresh == IF told THEN {"mirror"} ELSE {}
  <1>1. /\ Settled /\ stream.open /\ stream.pos < Len(run.feed)
        /\ Render(page, s, fresh)
        /\ UNCHANGED <<daily, calls, server, log, plain>>
    BY DEF Receive
  <1>2. stream \in StreamRecords /\ ServerTypes /\ Following
    BY DEF PageInv, PageTypes
  <1>3. /\ stream.run \in DOMAIN server /\ stream.pos + 1 \in DOMAIN run.feed
        /\ f \in Frames /\ f.run = stream.run
    BY <1>1, <1>2, FrameAtHand
  <1>4. /\ stream.run # None /\ run \in Runs /\ stream.pos \in Nat
        /\ stream.snapshot \in Results \cup {None}
        /\ stream.pos + 1 <= Len(run.feed)
    BY <1>2, <1>3, RunFields, StreamFields, NoneAssumption DEF ServerTypes
  <1>5. /\ f.type \in {"beat"} \cup Terminal
        /\ Snapshot(f) \in Results /\ Snapshot(f) # None /\ Snapshot(f).run = stream.run
    BY <1>3, SnapshotTyped DEF Frames
  <1>6. phase \in Terminal \cup {"running"} /\ open \in BOOLEAN
        /\ snapshot \in Results \cup {None}
        /\ (open => phase = "running")
    BY <1>4, <1>5
  <1>7. /\ told => snapshot = Snapshot(f)
        /\ ~told => snapshot = stream.snapshot /\ phase \notin {"running", "complete"}
        /\ phase = "complete" => f.type = "complete"
    BY <1>5 DEF Terminal
  <1>8. pos \in Nat
    BY <1>4
  <1> HIDE DEF phase, open, snapshot, told, pos
  <1>9. /\ s \in StreamRecords /\ s.pos = pos /\ s.open = open
        /\ s.phase = phase /\ s.snapshot = snapshot /\ s.run = stream.run
    BY <1>2, <1>6, <1>8 DEF StreamRecords
  <1> HIDE DEF s
  <1>10. /\ page' = page /\ stream' = s /\ due' = DueAfter(page, s, fresh) /\ due = {}
    BY <1>1 DEF Render, Settled
  <1>11. due' \subseteq AllEffects /\ (told => "mirror" \in due')
    BY <1>10 DEF DueAfter, AllEffects
  <1>12. PageTypes' /\ CallTypes' /\ ServerTypes' /\ PageRefers' /\ CallsRefer' /\ LogRefers'
    BY <1>1, <1>9, <1>10, <1>11 DEF PageInv, PageTypes, CallTypes, ServerTypes, PageRefers,
       CallsRefer, LogRefers, Held, Offered
  <1>13. Following'
    <2>1. s.run \in DOMAIN server' /\ s.run # None
      BY <1>1, <1>3, <1>4, <1>9
    <2>2. stream.snapshot # None => stream.snapshot.run = stream.run
      BY <1>2, <1>4 DEF Following
    <2>3. s.snapshot # None => s.pos > 0 /\ s.snapshot.run = s.run
      BY <1>4, <1>5, <1>7, <1>9, <2>2 DEF pos
    <2>4. s.phase \in {"running", "complete"} =>
            /\ s.pos > 0 /\ s.snapshot = Snapshot(run.feed[s.pos])
            /\ s.phase = "complete" => run.feed[s.pos].type = "complete"
      BY <1>4, <1>7, <1>9 DEF pos
    <2>5. s.pos <= Len(run.feed) /\ (s.open => s.phase \in {"connecting", "running"})
      BY <1>4, <1>6, <1>9 DEF pos
    <2> QED
      BY <1>1, <1>9, <1>10, <2>1, <2>3, <2>4, <2>5 DEF Following, Held
  <1>14. Subscribed' /\ Matched' /\ Recorded'
    BY <1>1, <1>9, <1>10 DEF PageInv, Subscribed, Matched, Recorded, SubscribedTo, CorrelationId
  <1>15. Mirrored'
    BY <1>1, <1>7, <1>9, <1>10, <1>11 DEF PageInv, Mirrored
  <1> QED
    BY <1>12, <1>13, <1>14, <1>15 DEF PageInv

(* A connection that breaks ends in a phase that is not complete.          *)
LEMMA DisconnectKeeps ==
  ASSUME PageInv, Disconnect
  PROVE  PageInv'
  <1> DEFINE phase == IF stream.phase \in {"connecting", "running"} THEN "failed"
                      ELSE stream.phase
             s == [stream EXCEPT !.open = FALSE, !.phase = phase]
  <1>1. /\ Settled /\ stream.open /\ Render(page, s, {})
        /\ UNCHANGED <<daily, calls, server, log, plain>>
    BY DEF Disconnect
  <1>2. stream \in StreamRecords /\ ServerTypes /\ Following
    BY DEF PageInv, PageTypes
  <1>3. stream.run # None /\ stream.phase \in {"connecting", "running"}
    BY <1>1, <1>2 DEF Following, INITIAL
  <1>4. phase = "failed"
    BY <1>3
  <1> HIDE DEF phase
  <1>5. /\ s \in StreamRecords /\ s.pos = stream.pos /\ s.open = FALSE
        /\ s.phase = "failed" /\ s.snapshot = stream.snapshot /\ s.run = stream.run
    BY <1>2, <1>4 DEF StreamRecords, Terminal
  <1> HIDE DEF s
  <1>6. /\ page' = page /\ stream' = s /\ due' = DueAfter(page, s, {}) /\ due = {}
    BY <1>1 DEF Render, Settled
  <1>7. due' \subseteq AllEffects
    BY <1>6 DEF DueAfter, AllEffects
  <1>8. PageTypes' /\ CallTypes' /\ ServerTypes' /\ PageRefers' /\ CallsRefer' /\ LogRefers'
    BY <1>1, <1>5, <1>6, <1>7 DEF PageInv, PageTypes, CallTypes, ServerTypes, PageRefers,
       CallsRefer, LogRefers, Held, Offered
  <1>9. Following'
    BY <1>1, <1>2, <1>3, <1>5, <1>6 DEF Following, Held
  <1>10. Subscribed' /\ Matched' /\ Recorded'
    BY <1>1, <1>5, <1>6 DEF PageInv, Subscribed, Matched, Recorded, SubscribedTo, CorrelationId
  <1>11. Mirrored'
    BY <1>1, <1>5, <1>6 DEF PageInv, Mirrored
  <1> QED
    BY <1>8, <1>9, <1>10, <1>11 DEF PageInv

-----------------------------------------------------------------------------
(* The effects                                                             *)

(* What the page shows of a stream is of its run, and up to date when the  *)
(* stream is.                                                              *)
LEMMA SnapshotCurrent ==
  ASSUME ServerTypes, Following, stream \in StreamRecords, stream.snapshot # None
  PROVE  /\ stream.run \in DOMAIN server /\ stream.snapshot.run = stream.run
         /\ /\ stream.phase \in {"running", "complete"}
            /\ stream.pos = Len(server[stream.run].feed)
            => stream.snapshot.beats = server[stream.run].beats
  <1>1. stream.run # None
    BY DEF Following, INITIAL
  <1>2. stream.run \in DOMAIN server /\ stream.snapshot.run = stream.run
    BY <1>1 DEF Following, Held
  <1> DEFINE run == server[stream.run]
  <1>3. run \in Runs /\ FeedFits(run, stream.run)
    BY <1>2 DEF ServerTypes
  <1>4. ASSUME stream.phase \in {"running", "complete"}, stream.pos = Len(run.feed)
        PROVE  stream.snapshot.beats = run.beats
    <2>1. stream.pos > 0 /\ stream.snapshot = Snapshot(run.feed[stream.pos])
      BY <1>1, <1>4 DEF Following
    <2> HIDE DEF run
    <2>2. run.feed[stream.pos] \in Frames /\ run.feed # <<>>
      BY <1>3, <1>4, <2>1, RunFields
    <2>3. run.feed[stream.pos].beats = run.beats
      BY <1>3, <1>4, <2>2 DEF FeedFits
    <2> QED
      BY <2>1, <2>2, <2>3, SnapshotTyped
  <1> QED
    BY <1>2, <1>4

(* The stream after the effects: as it was, closed, or opened afresh on    *)
(* the run that the page follows.                                          *)
LEMMA ResubscribedFollows ==
  ASSUME PageInv
  PROVE  /\ Resubscribed \in StreamRecords
         /\ Resubscribed.run = SubscribedTo(page)
         /\ "stream" \notin due => Resubscribed = stream
         /\ "stream" \in due => /\ Resubscribed.snapshot = None
                                /\ Resubscribed.pos = 0
                                /\ Resubscribed.phase \in {"idle", "connecting"}
                                /\ SubscribedTo(page) = None => Resubscribed = INITIAL
                                /\ Resubscribed.open => Resubscribed.phase = "connecting"
  <1> DEFINE r == SubscribedTo(page)
             opened == [INITIAL EXCEPT !.phase = "connecting", !.run = r, !.open = TRUE]
  <1>1. r \in Nat \cup {None} /\ stream \in StreamRecords
    BY PageFields, NoneAssumption DEF PageInv, PageTypes, SubscribedTo
  <1>2. CASE "stream" \notin due
    BY <1>1, <1>2 DEF Resubscribed, PageInv, Subscribed
  <1>3. CASE "stream" \in due /\ r = None
    <2>1. Resubscribed = INITIAL
      BY <1>3 DEF Resubscribed
    <2> QED
      BY <1>3, <2>1 DEF INITIAL, StreamRecords
  <1>4. CASE "stream" \in due /\ r # None
    <2>1. Resubscribed = opened
      BY <1>4 DEF Resubscribed
    <2> HIDE DEF r
    <2>2. /\ opened \in StreamRecords /\ opened.run = r /\ opened.snapshot = None
          /\ opened.pos = 0 /\ opened.phase = "connecting"
      BY <1>1 DEF INITIAL, StreamRecords
    <2> QED
      BY <1>4, <2>1, <2>2 DEF r
  <1> QED
    BY <1>2, <1>3, <1>4

(* The key under which a run is recorded.                                  *)
LEMMA RecordKeyTyped ==
  ASSUME PageInv, page.result # None
  PROVE  /\ RecordKey \in Nat \X Sides /\ RecordKey # None
         /\ RecordKey[1] = CorrelationId(page.result.run)
  <1>1. page.result.run \in DOMAIN server /\ page.side \in Sides
    BY PageFields DEF PageInv, PageTypes, PageRefers
  <1>2. CorrelationId(page.result.run) \in Nat
    BY <1>1 DEF CorrelationId, PageInv, ServerTypes
  <1> QED
    BY <1>1, <1>2, NoneAssumption DEF RecordKey

(* The page after the effects: the summary is that of the stream or as it  *)
(* was, and a status changes only to the end of a running mission.         *)
LEMMA EffectsRender ==
  ASSUME PageInv, Effects
  PROVE  \E fresh \in SUBSET {"record"} :
           /\ page' = [page EXCEPT !.result = MirroredResult, !.status = AdvancedStatus,
                                   !.ref = IF RecordsNow THEN RecordKey ELSE page.ref]
           /\ stream' = Resubscribed /\ due' = DueAfter(page', stream', fresh)
           /\ page' \in PageRecords
           /\ page'.result = MirroredResult /\ page'.status = AdvancedStatus
           /\ page'.ref = IF RecordsNow THEN RecordKey ELSE page.ref
           /\ page'.side = page.side /\ page'.runId = page.runId
           /\ page'.pair = page.pair /\ page'.modal = page.modal
  <1> DEFINE ref == IF RecordsNow THEN RecordKey ELSE page.ref
             p == [page EXCEPT !.result = MirroredResult, !.status = AdvancedStatus,
                               !.ref = ref]
             fresh == IF "mirror" \in due /\ stream.snapshot # None THEN {"record"} ELSE {}
  <1>1. Render(p, Resubscribed, fresh)
    BY DEF Effects
  <1>2. page \in PageRecords /\ stream \in StreamRecords
    BY DEF PageInv, PageTypes
  <1>3. MirroredResult \in Results \cup {None}
    BY <1>2, PageFields, StreamFields DEF MirroredResult
  <1>4. AdvancedStatus \in {"idle", "running", "complete", "error"}
    BY <1>2, PageFields DEF AdvancedStatus
  <1>5. ref \in (Nat \X Sides) \cup {None}
    BY <1>2, RecordKeyTyped, PageFields DEF RecordsNow
  <1>6. fresh \in SUBSET {"record"}
    OBVIOUS
  <1> HIDE DEF fresh, ref
  <1>7. /\ p \in PageRecords /\ p.result = MirroredResult /\ p.status = AdvancedStatus
        /\ p.ref = ref /\ p.side = page.side /\ p.runId = page.runId
        /\ p.pair = page.pair /\ p.modal = page.modal
    BY <1>2, <1>3, <1>4, <1>5 DEF PageRecords
  <1>8. /\ page' = p /\ stream' = Resubscribed /\ due' = DueAfter(page', stream', fresh)
    BY <1>1 DEF Render
  <1> QED
    BY <1>6, <1>7, <1>8 DEF ref

(* The effects that are due do their work, on one render.                  *)
LEMMA EffectsKeep ==
  ASSUME PageInv, Effects
  PROVE  PageInv'
  <1>1. PICK fresh \in SUBSET {"record"} :
          /\ stream' = Resubscribed /\ due' = DueAfter(page', stream', fresh)
          /\ page' \in PageRecords
          /\ page'.result = MirroredResult /\ page'.status = AdvancedStatus
          /\ page'.ref = IF RecordsNow THEN RecordKey ELSE page.ref
          /\ page'.side = page.side /\ page'.runId = page.runId
          /\ page'.pair = page.pair /\ page'.modal = page.modal
    BY EffectsRender
  <1>2. UNCHANGED <<calls, server, plain>> /\ daily' = DailySide
    BY DEF Effects
  <1>3. /\ "stream" \notin due' => SubscribedTo(page') = SubscribedTo(page)
        /\ "record" \notin due' => page'.status = page.status /\ page'.result = page.result
        /\ due' \subseteq AllEffects
    BY <1>1 DEF DueAfter, AllEffects
  <1>4. page \in PageRecords /\ stream \in StreamRecords /\ ServerTypes /\ Following
    BY DEF PageInv, PageTypes
  <1>5. CallTypes' /\ ServerTypes'
    BY <1>2 DEF PageInv, CallTypes, ServerTypes
  <1>6. CallsRefer'
    BY <1>1, <1>2 DEF PageInv, CallsRefer, Offered
  <1>7. PageRefers'
    BY <1>1, <1>2, <1>4, SnapshotCurrent DEF PageInv, PageRefers, Held, Offered, MirroredResult
  <1>8. PageTypes' /\ LogRefers'
    <2>1. daily' \in Sides
      BY <1>2, PageFields DEF DailySide, PageInv, PageTypes
    <2>2. CASE ~RecordsNow
      BY <1>1, <1>2, <1>3, <2>1, <2>2, ResubscribedFollows DEF Effects, PageInv, PageTypes,
         LogRefers
    <2>3. CASE RecordsNow
      <3> DEFINE entry == [side |-> page.side, daily |-> daily, result |-> page.result]
      <3>1. log' = Append(log, entry)
        BY <2>3 DEF Effects
      <3>2. entry \in Entries /\ entry.result.run \in DOMAIN server
        BY <2>3, <1>4, PageFields DEF Entries, RecordsNow, PageInv, PageTypes, PageRefers
      <3> HIDE DEF entry
      <3>3. log \in Seq(Entries)
        BY DEF PageInv, PageTypes
      <3>4. /\ log' \in Seq(Entries)
            /\ \A i \in DOMAIN log' :
                 (i \in DOMAIN log /\ log'[i] = log[i]) \/ log'[i] = entry
        BY <3>1, <3>2, <3>3
      <3>5. LogRefers'
        BY <1>2, <3>2, <3>4 DEF LogRefers, PageInv
      <3>6. PageTypes'
        BY <1>1, <1>2, <1>3, <2>1, <3>4, ResubscribedFollows DEF PageInv, PageTypes
      <3> QED
        BY <3>5, <3>6
    <2> QED
      BY <2>2, <2>3
  <1>9. Subscribed' /\ Matched'
    BY <1>1, <1>2, <1>3, ResubscribedFollows DEF Subscribed, Matched, SubscribedTo,
       PageInv, DailySide, DueAfter
  <1>10. Following'
    <2>1. CASE "stream" \notin due
      BY <1>1, <1>2, <1>4, <2>1, ResubscribedFollows DEF Following, Held
    <2>2. CASE "stream" \in due
      <3>1. SubscribedTo(page) = None \/ SubscribedTo(page) \in DOMAIN server
        BY DEF PageInv, PageRefers, Held, SubscribedTo
      <3>2. CASE SubscribedTo(page) = None
        BY <1>1, <2>2, <3>2, ResubscribedFollows DEF Following, Held, INITIAL
      <3>3. CASE SubscribedTo(page) \in DOMAIN server
        <4>1. server[SubscribedTo(page)] \in Runs /\ SubscribedTo(page) # None
          BY <1>4, <3>3, NoneAssumption DEF ServerTypes
        <4>2. 0 <= Len(server[SubscribedTo(page)].feed)
          BY <4>1, RunFields
        <4>3. /\ stream'.run = SubscribedTo(page) /\ stream'.snapshot = None
              /\ stream'.pos = 0 /\ stream'.phase \in {"idle", "connecting"}
              /\ stream'.open => stream'.phase = "connecting"
          BY <1>1, <2>2, ResubscribedFollows
        <4> QED
          BY <1>2, <3>3, <4>1, <4>2, <4>3 DEF Following, Held
      <3> QED
        BY <3>1, <3>2, <3>3
    <2> QED
      BY <2>1, <2>2
  <1>11. Mirrored'
    <2> SUFFICES ASSUME stream'.snapshot # None
                 PROVE  /\ page'.result # None /\ page'.result.run = stream'.run
                        /\ /\ stream'.phase \in {"running", "complete"}
                           /\ stream'.pos = Len(server'[stream'.run].feed)
                           => page'.result.beats = server'[stream'.run].beats
      BY DEF Mirrored
    <2>1. "stream" \notin due /\ stream' = stream
      BY <1>1, ResubscribedFollows
    <2>2. CASE "mirror" \in due
      BY <1>1, <1>2, <1>4, <2>1, <2>2, SnapshotCurrent DEF MirroredResult
    <2>3. CASE "mirror" \notin due
      BY <1>1, <1>2, <2>1, <2>3 DEF MirroredResult, PageInv, Mirrored
    <2> QED
      BY <2>2, <2>3
  <1>12. Recorded'
    <2> SUFFICES ASSUME "record" \notin due', page.status = "complete", page.result # None
                 PROVE  page'.ref # None /\ page'.ref[1] = CorrelationId(page.result.run)
      BY <1>2, <1>3 DEF Recorded, CorrelationId
    <2>1. CASE "record" \in due
      BY <1>1, <2>1, RecordKeyTyped DEF RecordsNow
    <2>2. CASE "record" \notin due
      BY <1>1, <2>2 DEF RecordsNow, PageInv, Recorded
    <2> QED
      BY <2>1, <2>2
  <1> QED
    BY <1>5, <1>6, <1>7, <1>8, <1>9, <1>10, <1>11, <1>12 DEF PageInv

-----------------------------------------------------------------------------
(* The page invariant                                                      *)

(* The page when it is opened, with a link or without.                     *)
LEMMA InitHolds ==
  ASSUME Init
  PROVE  PageInv
  <1>1. PICK link \in Links :
          /\ server = IF link = None THEN <<>> ELSE <<link>>
          /\ calls  = IF link = None THEN {} ELSE {[kind |-> "join", arg |-> 1]}
          /\ plain  = (link = None)
    BY DEF Init
  <1>2. /\ page = [status |-> "idle", side |-> MountSide, runId |-> None, result |-> None,
                   ref |-> None, pair |-> None, modal |-> FALSE]
        /\ daily = MountSide /\ stream = INITIAL /\ due = {} /\ log = <<>>
    BY DEF Init
  <1>3. PageTypes
    BY <1>1, <1>2 DEF PageTypes, PageRecords, StreamRecords, INITIAL, Sides, MountSide, Entries
  <1>4. ServerTypes
    <2>1. CASE link = None
      BY <1>1, <2>1, PageAssumption DEF ServerTypes
    <2>2. CASE link # None
      <3>1. link \in Runs /\ FeedFits(link, 1)
        BY <2>2, LinkAssumption
      <3>2. /\ server = <<link>> /\ Len(server) = 1 /\ DOMAIN server = {1}
            /\ server[1] = link /\ server \in Seq(Runs)
        BY <1>1, <2>2, <3>1
      <3> QED
        BY <3>1, <3>2, PageAssumption DEF ServerTypes
    <2> QED
      BY <2>1, <2>2
  <1>5. CallTypes /\ CallsRefer
    <2>1. CASE link = None
      <3>1. calls = {}
        BY <1>1, <2>1
      <3> QED
        BY <3>1, FS_EmptySet, PageAssumption DEF CallTypes, CallsRefer
    <2>2. CASE link # None
      <3> DEFINE c == [kind |-> "join", arg |-> 1]
      <3>1. calls = {c} /\ c \in Requests /\ c.kind = "join" /\ c.arg = 1
        BY <1>1, <2>2 DEF Requests
      <3> HIDE DEF c
      <3>2. IsFiniteSet(calls) /\ Cardinality(calls) = 1
        BY <3>1, FS_Singleton
      <3>3. 1 \in DOMAIN server
        BY <1>1, <2>2
      <3> QED
        BY <1>2, <3>1, <3>2, <3>3, PageAssumption DEF CallTypes, CallsRefer
    <2> QED
      BY <2>1, <2>2
  <1>6. PageRefers /\ LogRefers
    BY <1>2 DEF PageRefers, LogRefers, Held
  <1>7. Following /\ Subscribed /\ Mirrored /\ Recorded /\ Matched
    BY <1>2 DEF Following, Subscribed, Mirrored, Recorded, Matched, INITIAL, SubscribedTo, Held
  <1> QED
    BY <1>3, <1>4, <1>5, <1>6, <1>7 DEF PageInv

(* Steps of something else.                                                *)
LEMMA PageStutters ==
  ASSUME PageInv, UNCHANGED vars
  PROVE  PageInv'
  <1>1. UNCHANGED <<page, daily, stream, due, calls, server, log, plain, swaps>>
    BY DEF vars
  <1>2. ServerGrows
    BY <1>1, ServerRests DEF PageInv
  <1>3. plain' \in BOOLEAN /\ CallTypes' /\ CallsRefer'
    BY <1>1 DEF PageInv, PageTypes, CallTypes, CallsRefer, Offered
  <1> QED
    BY <1>1, <1>2, <1>3, RestKeeps

(* Every step keeps the page invariant.                                    *)
LEMMA NextKeepsPage ==
  ASSUME PageInv, [Next]_vars
  PROVE  PageInv'
  <1>1. CASE Launch \/ LaunchCoop \/ Reset \/ SwapSide \/ KeepMyRun \/ CloseModal
             \/ SubmitCommand
    BY <1>1, LaunchKeeps, LaunchCoopKeeps, ResetKeeps, SwapSideKeeps, KeepMyRunKeeps,
       CloseModalKeeps, SubmitCommandKeeps
  <1>2. CASE Effects \/ Receive \/ Disconnect
    BY <1>2, EffectsKeep, ReceiveKeeps, DisconnectKeeps
  <1>3. ASSUME NEW c \in calls, Answer(c)
        PROVE  PageInv'
    BY <1>3, LaunchAnswersKeeps, CoopAnswersKeeps, JoinAnswersKeeps, CommandAnswersKeeps,
       CallFailsKeeps DEF Answer
  <1>4. ASSUME NEW r \in DOMAIN server, PlayScript(r) \/ PartnerBeat(r)
        PROVE  PageInv'
    BY <1>4, ServerStepKeeps
  <1>5. CASE UNCHANGED vars
    BY <1>5, PageStutters
  <1> QED
    BY <1>1, <1>2, <1>3, <1>4, <1>5 DEF Next

(* The page invariant holds throughout.                                    *)
THEOREM PageInvariant == Spec => []PageInv
  <1> QED
    BY InitHolds, NextKeepsPage, PTL DEF Spec

(* The page's state has its types, and what it names is there.             *)
THEOREM TypeCorrect == Spec => []TypeOK
  <1>1. PageInv => TypeOK
    <2> SUFFICES ASSUME PageInv
                 PROVE  TypeOK
      OBVIOUS
    <2>1. page \in PageRecords /\ stream \in StreamRecords /\ daily \in Sides
      BY DEF PageInv, PageTypes
    <2>2. Held(page.runId) /\ Held(stream.run) /\ (page.modal => page.pair # None)
      BY DEF PageInv, PageRefers, Following
    <2>3. stream.open => stream.pos <= Len(server[stream.run].feed)
      BY DEF PageInv, Following, INITIAL
    <2>4. Len(server) <= MaxRuns + 1 /\ Cardinality(calls) <= MaxCalls
      BY DEF PageInv, ServerTypes, CallTypes
    <2> QED
      BY <2>1, <2>2, <2>3, <2>4, PageFields, StreamFields DEF TypeOK, Held
  <1> QED
    BY <1>1, PageInvariant, PTL

(* When the effects have run, the stream is that of the run the page       *)
(* follows, and its summary is of that run.                                *)
THEOREM TimelineFollows == Spec => []TimelineIsOfRun
  <1>1. PageInv => TimelineIsOfRun
    BY SnapshotCurrent DEF PageInv, PageTypes, Subscribed, TimelineIsOfRun, Settled
  <1> QED
    BY <1>1, PageInvariant, PTL

(* A mission shown as complete with a result is recorded: its key is that  *)
(* of the last record.                                                     *)
THEOREM CompletedRecorded == Spec => []CompletedIsRecorded
  <1>1. PageInv => CompletedIsRecorded
    BY DEF PageInv, Recorded, CompletedIsRecorded, Settled
  <1> QED
    BY <1>1, PageInvariant, PTL

(* When nothing is under way, the summary the page shows is of the run it  *)
(* follows, with the beats the server has.                                 *)
THEOREM QuietCurrent == Spec => []QuietIsCurrent
  <1>1. PageInv => QuietIsCurrent
    BY DEF PageInv, Mirrored, Subscribed, QuietIsCurrent, Settled
  <1> QED
    BY <1>1, PageInvariant, PTL

-----------------------------------------------------------------------------
(* A player who launches missions alone and keeps to a side                *)

(* The runs are the player's own, of the side the page is on; the page     *)
(* waits for at most one launch, and then follows no run.                  *)
Alone ==
  /\ ~page.modal /\ \A r \in DOMAIN server : ~server[r].coop
  /\ \A c \in calls :
       /\ c.kind \in {"launch", "command"}
       /\ c.kind = "launch" =>
            page.status = "running" /\ page.runId = None /\ c.arg = page.side
  /\ page.status \in {"running", "complete"} =>
       /\ "daily" \notin due
       /\ page.runId # None => server[page.runId].side = page.side

(* The effects of a stream's end are due together: the page takes over the *)
(* last summary when it leaves the run.                                    *)
Finishing ==
  page.status = "running" /\ stream.phase \in Terminal =>
    /\ "stream" \notin due
    /\ stream.phase = "complete" => {"mirror", "phase"} \subseteq due

(* A complete mission is one that was played to the end, and stays so.     *)
Finished ==
  page.status = "complete" =>
    /\ page.runId # None /\ server[page.runId].status = "complete"
    /\ page.result # None /\ page.result.run = page.runId
    /\ page.result.beats = NumBeats
    /\ ~stream.open /\ "mirror" \notin due /\ "stream" \notin due

(* A record is of a run that was played to the end; that of the page's run *)
(* is the last one.                                                        *)
EntryFits(e) ==
  LET run == server[e.result.run]
  IN  /\ run.status = "complete" /\ e.result.beats = NumBeats
      /\ run.side = e.side /\ e.daily = e.side
EntryPast(e) ==
  e.result.run = page.runId =>
    /\ page.status # "running"
    /\ page.status = "complete" => page.ref = <<page.runId, page.side>>
Logged ==
  /\ \A i \in DOMAIN log : EntryFits(log[i]) /\ EntryPast(log[i])
  /\ \A i, j \in DOMAIN log : i # j => log[i].result.run # log[j].result.run

PlainInv == plain => Alone /\ Finishing /\ Finished /\ Logged

(* Records still fit when the runs have gone on.                           *)
LEMMA EntriesStillFit ==
  ASSUME PageInv, Logged, ServerGrows, UNCHANGED log
  PROVE  \A i \in DOMAIN log : EntryFits(log[i])'
  BY DEF PageInv, LogRefers, Logged, EntryFits, ServerGrows, Outgrown

(* No run that is not the server's is recorded.                            *)
LEMMA RecordedAreHeld ==
  ASSUME PageInv, NEW i \in DOMAIN log
  PROVE  log[i].result.run \in DOMAIN server /\ log[i].result.run # None
  BY NoneAssumption DEF PageInv, LogRefers, ServerTypes

(* The page stays, and its effects that were not due are not: the server   *)
(* goes on, a command is sent.                                             *)
LEMMA PlainRest ==
  ASSUME PageInv, plain, PlainInv, ServerGrows, DOMAIN server' = DOMAIN server,
         UNCHANGED <<page, stream, due, log>>,
         \A c \in calls' : c \in calls \/ c.kind = "command"
  PROVE  Alone' /\ Finishing' /\ Finished' /\ Logged'
  <1>1. Alone /\ Finishing /\ Finished /\ Logged
    BY DEF PlainInv
  <1>2. /\ page.runId # None => page.runId \in DOMAIN server
        /\ \A r \in DOMAIN server : Outgrown(server[r], server'[r])
    BY DEF PageInv, PageRefers, Held, ServerGrows
  <1>3. Alone'
    <2>1. \A r \in DOMAIN server' : ~server'[r].coop
      BY <1>1, <1>2 DEF Alone, Outgrown
    <2>2. \A c \in calls' :
            /\ c.kind \in {"launch", "command"}
            /\ c.kind = "launch" =>
                 page.status = "running" /\ page.runId = None /\ c.arg = page.side
      BY <1>1 DEF Alone
    <2>3. page.status \in {"running", "complete"} =>
            /\ "daily" \notin due
            /\ page.runId # None => server'[page.runId].side = page.side
      BY <1>1, <1>2 DEF Alone, Outgrown
    <2> QED
      BY <1>1, <2>1, <2>2, <2>3 DEF Alone
  <1>4. Finishing'
    BY <1>1 DEF Finishing
  <1>5. Finished'
    BY <1>1, <1>2 DEF Finished, Outgrown
  <1>6. Logged'
    BY <1>1, EntriesStillFit DEF Logged, EntryPast
  <1> QED
    BY <1>3, <1>4, <1>5, <1>6

(* A command is sent.                                                      *)
LEMMA PlainSubmit ==
  ASSUME PageInv, plain, PlainInv, SubmitCommand
  PROVE  Alone' /\ Finishing' /\ Finished' /\ Logged'
  <1>1. Send("command", page.runId) /\ UNCHANGED <<page, stream, due, server, log>>
    BY DEF SubmitCommand
  <1>2. \A c \in calls' : c \in calls \/ c.kind = "command"
    BY <1>1 DEF Send
  <1>3. ServerGrows
    BY <1>1, ServerRests DEF PageInv
  <1> QED
    BY <1>1, <1>2, <1>3, PlainRest

(* The server's steps.                                                     *)
LEMMA PlainServer ==
  ASSUME PageInv, plain, PlainInv, NEW r \in DOMAIN server, PlayScript(r) \/ PartnerBeat(r)
  PROVE  Alone' /\ Finishing' /\ Finished' /\ Logged'
  <1>1. UNCHANGED <<page, stream, due, log, calls>>
    BY DEF PlayScript, PartnerBeat
  <1>2. ServerGrows
    BY PlayScriptGrows, PartnerBeatGrows DEF PageInv
  <1>3. DOMAIN server' = DOMAIN server
    BY DEF PlayScript, PartnerBeat, PageInv, ServerTypes
  <1> QED
    BY <1>1, <1>2, <1>3, PlainRest

(* Two launches of one page are one call.                                  *)
LEMMA OneLaunch ==
  ASSUME PageInv, Alone, NEW c \in calls, NEW d \in calls,
         c.kind = "launch", d.kind = "launch"
  PROVE  c = d
  <1>1. c.arg = page.side /\ d.arg = page.side
    BY DEF Alone
  <1>2. c = [kind |-> "launch", arg |-> page.side]
    BY <1>1 DEF PageInv, CallTypes, Requests
  <1>3. d = [kind |-> "launch", arg |-> page.side]
    BY <1>1 DEF PageInv, CallTypes, Requests
  <1> QED
    BY <1>2, <1>3

(* What is due after a handler that keeps the side.                        *)
LEMMA DueFollowing ==
  ASSUME NEW p, NEW fresh \in SUBSET {"record"}, Render(p, stream, fresh)
  PROVE  /\ page' = p /\ stream' = stream /\ "mirror" \notin due'
         /\ p.side = page.side => "daily" \notin due'
         /\ SubscribedTo(p) = SubscribedTo(page) => "stream" \notin due'
  BY DEF Render, DueAfter

(* The player launches from an idle page, which has no call for a launch.  *)
LEMMA PlainLaunch ==
  ASSUME PageInv, plain, PlainInv, Launch
  PROVE  Alone' /\ Finishing' /\ Finished' /\ Logged'
  <1> DEFINE p == [page EXCEPT !.status = "running", !.result = None, !.runId = None]
             call == [kind |-> "launch", arg |-> page.side]
  <1>1. /\ Settled /\ page.status = "idle" /\ Render(p, stream, {})
        /\ calls' = calls \cup {call} /\ UNCHANGED <<daily, server, log>>
    BY DEF Launch, Send
  <1>2. Alone /\ Finishing /\ Finished /\ Logged
    BY DEF PlainInv
  <1>3. page \in PageRecords
    BY DEF PageInv, PageTypes
  <1>4. /\ p.runId = None /\ p.side = page.side /\ p.status = "running"
        /\ p.modal = page.modal
    BY <1>3 DEF PageRecords
  <1> HIDE DEF p
  <1>5. page' = p /\ stream' = stream /\ "daily" \notin due'
    BY <1>1, <1>4, DueFollowing
  <1>6. stream = INITIAL
    BY <1>1, NothingFollowed DEF SubscribedTo
  <1>7. call.kind = "launch" /\ call.arg = page.side
    OBVIOUS
  <1> HIDE DEF call
  <1>8. Alone'
    BY <1>1, <1>2, <1>4, <1>5, <1>7 DEF Alone
  <1>9. Finishing' /\ Finished'
    BY <1>4, <1>5, <1>6 DEF Finishing, Finished, INITIAL, Terminal
  <1>10. Logged'
    <2>1. \A i \in DOMAIN log : EntryFits(log[i])'
      BY <1>1, <1>2, EntriesStillFit, ServerRests DEF PageInv
    <2>2. \A i \in DOMAIN log : EntryPast(log[i])'
      BY <1>1, <1>4, <1>5, RecordedAreHeld DEF EntryPast
    <2> QED
      BY <1>1, <1>2, <2>1, <2>2 DEF Logged
  <1> QED
    BY <1>8, <1>9, <1>10

(* The page goes back to idle, or changes its side before a mission.       *)
LEMMA PlainIdle ==
  ASSUME PageInv, plain, plain', PlainInv, Reset \/ SwapSide
  PROVE  Alone' /\ Finishing' /\ Finished' /\ Logged'
  <1>1. Alone /\ Finishing /\ Finished /\ Logged /\ page \in PageRecords
    BY DEF PlainInv, PageInv, PageTypes
  <1>2. UNCHANGED <<calls, server, log>>
    BY DEF Reset, SwapSide
  <1>3. /\ page.status \notin {"running"} /\ page'.modal = page.modal
        /\ page'.status \notin {"running", "complete"}
    BY <1>1, PageFields DEF Reset, SwapSide, Render, PageRecords
  <1>4. Alone'
    BY <1>1, <1>2, <1>3 DEF Alone
  <1>5. Finishing' /\ Finished'
    BY <1>3 DEF Finishing, Finished
  <1>6. Logged'
    <2>1. \A i \in DOMAIN log : EntryFits(log[i])'
      BY <1>1, <1>2, EntriesStillFit, ServerRests DEF PageInv
    <2>2. \A i \in DOMAIN log : EntryPast(log[i])'
      BY <1>2, <1>3 DEF EntryPast
    <2> QED
      BY <1>1, <1>2, <2>1, <2>2 DEF Logged
  <1> QED
    BY <1>4, <1>5, <1>6

(* The run of a launch is a new one, of the side the page is on.           *)
LEMMA PlainLaunchAnswers ==
  ASSUME PageInv, plain, PlainInv, NEW c \in calls, LaunchAnswers(c)
  PROVE  Alone' /\ Finishing' /\ Finished' /\ Logged'
  <1> DEFINE new == Len(server) + 1
             p == [page EXCEPT !.runId = new]
  <1>1. /\ Settled /\ Render(p, stream, {}) /\ calls' = calls \ {c} /\ c.kind = "launch"
        /\ UNCHANGED <<daily, log>>
    BY DEF LaunchAnswers
  <1>2. Alone /\ Finishing /\ Finished /\ Logged /\ page \in PageRecords
    BY DEF PlainInv, PageInv, PageTypes
  <1>3. page.status = "running" /\ page.runId = None /\ c.arg = page.side
    BY <1>1, <1>2 DEF Alone
  <1>4. /\ ServerGrows /\ DOMAIN server' = 1 .. (Len(server) + 1)
        /\ \A r \in DOMAIN server : server'[r] = server[r]
        /\ server'[new] = NewRun(c.arg, FALSE)
        /\ DOMAIN server = 1 .. Len(server) /\ Len(server) \in Nat
    BY LaunchGrows
  <1>5. /\ server'[new].side = page.side /\ ~server'[new].coop
    BY <1>3, <1>4 DEF NewRun
  <1>6. /\ new \in Nat /\ new \notin DOMAIN server
        /\ \A r \in DOMAIN server' : r \in DOMAIN server \/ r = new
    BY <1>4
  <1> HIDE DEF new
  <1>7. p.runId = new /\ p.side = page.side /\ p.status = "running" /\ p.modal = page.modal
    BY <1>2, <1>3, <1>6 DEF PageRecords
  <1> HIDE DEF p
  <1>8. page' = p /\ stream' = stream /\ "daily" \notin due'
    BY <1>1, <1>7, DueFollowing
  <1>9. stream = INITIAL
    BY <1>1, <1>3, NothingFollowed DEF SubscribedTo
  <1>10. Alone'
    <2>1. \A d \in calls' : d.kind = "command"
      BY <1>1, <1>2, OneLaunch DEF Alone
    <2>2. \A r \in DOMAIN server' : ~server'[r].coop
      BY <1>2, <1>4, <1>5, <1>6 DEF Alone
    <2> QED
      BY <1>2, <1>5, <1>7, <1>8, <2>1, <2>2 DEF Alone
  <1>11. Finishing' /\ Finished'
    BY <1>7, <1>8, <1>9 DEF Finishing, Finished, INITIAL, Terminal
  <1>12. Logged'
    <2>1. \A i \in DOMAIN log : EntryFits(log[i])'
      BY <1>1, <1>2, <1>4, EntriesStillFit
    <2>2. \A i \in DOMAIN log : EntryPast(log[i])'
      BY <1>1, <1>6, <1>7, <1>8, RecordedAreHeld DEF EntryPast
    <2> QED
      BY <1>1, <1>2, <2>1, <2>2 DEF Logged
  <1> QED
    BY <1>10, <1>11, <1>12

(* A handler that leaves the run of the page, its side and what its        *)
(* summary is of: a command's answer, or a command that fails.             *)
LEMMA PlainHandler ==
  ASSUME PageInv, plain, PlainInv, Settled, NEW p, NEW fresh \in SUBSET {"record"},
         Render(p, stream, fresh), ServerGrows, DOMAIN server' = DOMAIN server,
         calls' \subseteq calls, UNCHANGED log,
         p.status = page.status, p.runId = page.runId, p.side = page.side,
         p.modal = page.modal, p.ref = page.ref,
         page.result # None => /\ p.result # None /\ p.result.run = page.result.run
                               /\ p.result.beats = page.result.beats
  PROVE  Alone' /\ Finishing' /\ Finished' /\ Logged'
  <1>1. Alone /\ Finishing /\ Finished /\ Logged
    BY DEF PlainInv
  <1>2. /\ page' = p /\ stream' = stream /\ due = {}
        /\ "mirror" \notin due' /\ "daily" \notin due' /\ "stream" \notin due'
    BY DueFollowing DEF SubscribedTo, Settled
  <1>3. /\ page.runId # None => page.runId \in DOMAIN server
        /\ \A r \in DOMAIN server : Outgrown(server[r], server'[r])
    BY DEF PageInv, PageRefers, Held, ServerGrows
  <1>4. Alone'
    <2>1. \A r \in DOMAIN server' : ~server'[r].coop
      BY <1>1, <1>3 DEF Alone, Outgrown
    <2>2. page.runId # None => server'[page.runId].side = server[page.runId].side
      BY <1>3 DEF Outgrown
    <2> QED
      BY <1>1, <1>2, <2>1, <2>2 DEF Alone
  <1>5. Finishing'
    BY <1>1, <1>2 DEF Finishing
  <1>6. Finished'
    BY <1>1, <1>2, <1>3 DEF Finished, Outgrown
  <1>7. Logged'
    <2>1. \A i \in DOMAIN log : EntryFits(log[i])'
      BY <1>1, EntriesStillFit
    <2>2. \A i \in DOMAIN log : EntryPast(log[i])'
      BY <1>1, <1>2 DEF Logged, EntryPast
    <2> QED
      BY <1>1, <2>1, <2>2 DEF Logged
  <1> QED
    BY <1>4, <1>5, <1>6, <1>7

(* The answer adds commands to the summary.                                *)
LEMMA PlainCommandAnswers ==
  ASSUME PageInv, plain, PlainInv, NEW c \in calls, CommandAnswers(c)
  PROVE  Alone' /\ Finishing' /\ Finished' /\ Logged'
  <1> DEFINE cmds == server[c.arg].cmds + 1
             result == IF page.result = None THEN page.result
                       ELSE [page.result EXCEPT !.cmds = cmds]
             p == [page EXCEPT !.result = result]
             fresh == IF page.result = None THEN {} ELSE {"record"}
  <1>1. c.kind = "command" /\ c.arg \in DOMAIN server
    BY DEF CommandAnswers, PageInv, CallsRefer
  <1>2. server[c.arg] \in Runs /\ cmds \in Nat
    BY <1>1, RunFields DEF PageInv, ServerTypes
  <1>4. /\ Settled /\ Render(p, stream, fresh) /\ calls' \subseteq calls /\ UNCHANGED log
    BY DEF CommandAnswers
  <1>5. ServerGrows /\ DOMAIN server' = DOMAIN server
    BY <1>1, CommandGrows DEF CommandAnswers, PageInv
  <1>6. /\ page \in PageRecords /\ fresh \in SUBSET {"record"}
        /\ page.result \in Results \cup {None}
    BY PageFields DEF PageInv, PageTypes
  <1> HIDE DEF cmds, fresh
  <1>7. page.result # None => /\ result # None /\ result.run = page.result.run
                              /\ result.beats = page.result.beats
    BY <1>2, <1>6, NoneAssumption DEF Results
  <1> HIDE DEF result
  <1>8. /\ p.result = result /\ p.runId = page.runId /\ p.status = page.status
        /\ p.ref = page.ref /\ p.side = page.side /\ p.modal = page.modal
    BY <1>6 DEF PageRecords
  <1> HIDE DEF p
  <1> QED
    BY <1>4, <1>5, <1>6, <1>7, <1>8, PlainHandler

(* A launch that fails shows the error; there is no other on its way.      *)
LEMMA PlainCallFails ==
  ASSUME PageInv, plain, PlainInv, NEW c \in calls, CallFails(c)
  PROVE  Alone' /\ Finishing' /\ Finished' /\ Logged'
  <1> DEFINE status == IF c.kind \in {"launch", "coop"} THEN "error" ELSE page.status
             p == [page EXCEPT !.status = status]
  <1>1. /\ Settled /\ Render(p, stream, {}) /\ calls' = calls \ {c}
        /\ UNCHANGED log
    BY DEF CallFails
  <1>2. /\ Alone /\ Finishing /\ Finished /\ Logged /\ page \in PageRecords
        /\ c.kind \in {"launch", "command"}
    BY DEF PlainInv, PageInv, PageTypes, Alone
  <1>3. ServerGrows /\ DOMAIN server' = DOMAIN server
    BY FailedCallGrows
  <1>4. /\ p.status = status /\ p.result = page.result /\ p.runId = page.runId
        /\ p.side = page.side /\ p.ref = page.ref /\ p.modal = page.modal
    BY <1>2 DEF PageRecords
  <1> HIDE DEF p
  <1>5. CASE c.kind = "command"
    <2>1. status = page.status
      BY <1>5
    <2> HIDE DEF status
    <2> QED
      BY <1>1, <1>3, <1>4, <2>1, PlainHandler
  <1>6. CASE c.kind = "launch"
    <2>1. page' = p /\ page'.status = "error"
      BY <1>1, <1>4, <1>6 DEF Render
    <2>2. \A d \in calls' : d.kind = "command"
      BY <1>1, <1>2, <1>6, OneLaunch DEF Alone
    <2>3. Alone'
      <3>1. \A r \in DOMAIN server' : ~server'[r].coop
        BY <1>2, <1>3 DEF Alone, ServerGrows, Outgrown
      <3> QED
        BY <1>1, <1>2, <1>4, <2>1, <2>2, <3>1 DEF Alone
    <2>4. Finishing' /\ Finished'
      BY <2>1 DEF Finishing, Finished
    <2>5. Logged'
      <3>1. \A i \in DOMAIN log : EntryFits(log[i])'
        BY <1>1, <1>2, <1>3, EntriesStillFit
      <3>2. \A i \in DOMAIN log : EntryPast(log[i])'
        BY <1>1, <2>1 DEF EntryPast
      <3> QED
        BY <1>1, <1>2, <3>1, <3>2 DEF Logged
    <2> QED
      BY <2>3, <2>4, <2>5
  <1> QED
    BY <1>2, <1>5, <1>6

(* A frame, or the end of the connection, while the mission runs.          *)
LEMMA PlainStream ==
  ASSUME PageInv, plain, PlainInv, Settled, stream.open, NEW s, NEW fresh \in SUBSET {"mirror"},
         Render(page, s, fresh), UNCHANGED <<calls, server, log>>,
         s.phase = "complete" => "mirror" \in fresh
  PROVE  Alone' /\ Finishing' /\ Finished' /\ Logged'
  <1>1. Alone /\ Finishing /\ Finished /\ Logged
    BY DEF PlainInv
  <1>2. /\ page' = page /\ stream' = s /\ due' = DueAfter(page, s, fresh)
        /\ "daily" \notin due' /\ "stream" \notin due'
    BY DEF Render, DueAfter
  <1>3. stream.run = SubscribedTo(page) /\ stream.run # None
    BY DEF Settled, PageInv, Subscribed, Following, INITIAL
  <1>4. page.status = "running" /\ stream.phase \in {"connecting", "running"}
    BY <1>1, <1>3 DEF SubscribedTo, Finished, PageInv, Following
  <1>5. s.phase = "complete" => {"mirror", "phase"} \subseteq due'
    BY <1>2, <1>4 DEF DueAfter
  <1>6. Alone'
    BY <1>1, <1>2 DEF Alone
  <1>7. Finishing' /\ Finished'
    BY <1>2, <1>4, <1>5 DEF Finishing, Finished
  <1>8. Logged'
    BY <1>1, <1>2 DEF Logged, EntryFits, EntryPast
  <1> QED
    BY <1>6, <1>7, <1>8

(* A frame: that of the end makes the last summary due.                    *)
LEMMA PlainReceive ==
  ASSUME PageInv, plain, PlainInv, Receive
  PROVE  Alone' /\ Finishing' /\ Finished' /\ Logged'
  <1> DEFINE f == server[stream.run].feed[stream.pos + 1]
             told == f.type \in {"beat", "complete"}
             phase == IF f.type = "beat" THEN "running" ELSE f.type
             open == f.type \notin Terminal
             snapshot == IF told THEN Snapshot(f) ELSE stream.snapshot
             s == [stream EXCEPT !.pos = stream.pos + 1, !.open = open,
                                 !.phase = phase, !.snapshot = snapshot]
             fresh == IF told THEN {"mirror"} ELSE {}
  <1>1. /\ Settled /\ stream.open /\ Render(page, s, fresh)
        /\ UNCHANGED <<calls, server, log>>
    BY DEF Receive
  <1>2. fresh \in SUBSET {"mirror"} /\ (phase = "complete" => "mirror" \in fresh)
    OBVIOUS
  <1>3. stream \in StreamRecords
    BY DEF PageInv, PageTypes
  <1> HIDE DEF fresh, phase, snapshot, open
  <1>4. s.phase = phase
    BY <1>3 DEF StreamRecords
  <1> HIDE DEF s
  <1> QED
    BY <1>1, <1>2, <1>4, PlainStream

(* A connection that breaks while the mission runs fails it.               *)
LEMMA PlainDisconnect ==
  ASSUME PageInv, plain, PlainInv, Disconnect
  PROVE  Alone' /\ Finishing' /\ Finished' /\ Logged'
  <1> DEFINE phase == IF stream.phase \in {"connecting", "running"} THEN "failed"
                      ELSE stream.phase
             s == [stream EXCEPT !.open = FALSE, !.phase = phase]
  <1>1. /\ Settled /\ stream.open /\ Render(page, s, {})
        /\ UNCHANGED <<calls, server, log>>
    BY DEF Disconnect
  <1>2. stream \in StreamRecords /\ stream.run # None
    BY <1>1 DEF PageInv, PageTypes, Following, INITIAL
  <1>3. phase = "failed"
    BY <1>1, <1>2 DEF PageInv, Following
  <1> HIDE DEF phase
  <1>4. s.phase = phase
    BY <1>2 DEF StreamRecords
  <1> HIDE DEF s
  <1> QED
    BY <1>1, <1>3, <1>4, PlainStream

(* When a stream has come to the completion of its run, what it shows is   *)
(* of a run that was played to the end.                                    *)
LEMMA CompletionShown ==
  ASSUME PageInv, stream.phase = "complete"
  PROVE  /\ stream.run \in DOMAIN server /\ ~stream.open /\ stream.snapshot # None
         /\ server[stream.run].status = "complete"
         /\ stream.snapshot.run = stream.run /\ stream.snapshot.beats = NumBeats
  <1> DEFINE run == server[stream.run]
             f   == run.feed[stream.pos]
  <1>1. /\ stream.run \in DOMAIN server /\ stream.pos \in Nat /\ stream.pos > 0
        /\ stream.pos <= Len(run.feed) /\ ~stream.open
        /\ stream.snapshot = Snapshot(f) /\ f.type = "complete"
    BY StreamFields DEF PageInv, PageTypes, Following, Held, INITIAL
  <1>2. run \in Runs /\ FeedFits(run, stream.run)
    BY <1>1 DEF PageInv, ServerTypes
  <1> HIDE DEF run
  <1>3. stream.pos \in DOMAIN run.feed /\ f \in Frames
    BY <1>1, <1>2, RunFields
  <1>4. f.run = stream.run /\ run.status = "complete" /\ f.beats = NumBeats
    BY <1>1, <1>2, <1>3 DEF FeedFits
  <1> QED
    BY <1>1, <1>3, <1>4, SnapshotTyped DEF run

(* The effects leave the calls and the runs: a mission that runs may end,  *)
(* with the last summary of its stream.                                    *)
LEMMA PlainEffectsEnd ==
  ASSUME PageInv, plain, PlainInv, Effects
  PROVE  Alone' /\ Finishing' /\ Finished'
  <1>1. Alone /\ Finishing /\ Finished
    BY DEF PlainInv
  <1>2. PICK fresh \in SUBSET {"record"} :
          /\ stream' = Resubscribed /\ due' = DueAfter(page', stream', fresh)
          /\ page'.result = MirroredResult /\ page'.status = AdvancedStatus
          /\ page'.side = page.side /\ page'.runId = page.runId
          /\ page'.modal = page.modal
    BY EffectsRender
  <1>3. UNCHANGED <<calls, server>>
    BY DEF Effects
  <1>4. /\ "mirror" \notin due' /\ "daily" \notin due'
        /\ SubscribedTo(page') = SubscribedTo(page) => "stream" \notin due'
    BY <1>2 DEF DueAfter
  <1>5. /\ page'.status \in {"running", "complete"} =>
             page.status \in {"running", "complete"}
        /\ page'.status = "running" => page.status = "running"
    BY <1>2 DEF AdvancedStatus
  <1>6. Alone'
    <2>1. ASSUME NEW c \in calls, c.kind = "launch"
          PROVE  page'.status = "running" /\ page.runId = None /\ c.arg = page.side
      <3>1. page.status = "running" /\ page.runId = None /\ c.arg = page.side
        BY <1>1, <2>1 DEF Alone
      <3>2. stream.phase \notin Terminal
        BY <1>1, <3>1 DEF Finishing, PageInv, Subscribed, SubscribedTo, Following, INITIAL,
           Terminal
      <3> QED
        BY <1>2, <3>1, <3>2 DEF AdvancedStatus, Terminal
    <2>2. \A c \in calls' :
            /\ c.kind \in {"launch", "command"}
            /\ c.kind = "launch" =>
                 page'.status = "running" /\ page'.runId = None /\ c.arg = page'.side
      BY <1>1, <1>2, <1>3, <2>1 DEF Alone
    <2> QED
      BY <1>1, <1>2, <1>3, <1>4, <1>5, <2>2 DEF Alone
  <1>7. Finishing'
    <2> SUFFICES ASSUME page'.status = "running", stream'.phase \in Terminal
                 PROVE  "stream" \notin due' /\ stream'.phase # "complete"
      BY DEF Finishing
    <2>1. "stream" \notin due /\ stream' = stream
      BY <1>2, ResubscribedFollows DEF Terminal
    <2>2. page.status = "running"
      BY <1>5
    <2>3. stream.phase # "complete"
      BY <1>1, <1>2, <2>1, <2>2 DEF Finishing, AdvancedStatus
    <2>4. SubscribedTo(page') = SubscribedTo(page)
      BY <1>2, <2>2 DEF SubscribedTo
    <2> QED
      BY <1>4, <2>1, <2>3, <2>4
  <1>8. Finished'
    <2> SUFFICES ASSUME page'.status = "complete"
                 PROVE  Finished'
      BY DEF Finished
    <2>1. CASE page.status = "complete"
      <3>1. "mirror" \notin due /\ "stream" \notin due
        BY <1>1, <2>1 DEF Finished
      <3>2. page'.result = page.result /\ stream' = stream
        BY <1>2, <3>1, ResubscribedFollows DEF MirroredResult
      <3>3. SubscribedTo(page') = SubscribedTo(page)
        BY <1>2, <2>1 DEF SubscribedTo
      <3> QED
        BY <1>1, <1>2, <1>3, <1>4, <2>1, <3>2, <3>3 DEF Finished
    <2>2. CASE page.status # "complete"
      <3>1. page.status = "running" /\ stream.phase = "complete"
        BY <1>2, <2>2 DEF AdvancedStatus
      <3>2. "stream" \notin due /\ "mirror" \in due
        BY <1>1, <3>1 DEF Finishing, Terminal
      <3>3. stream.run = page.runId /\ stream' = stream
        BY <1>2, <3>1, <3>2, ResubscribedFollows DEF PageInv, Subscribed, SubscribedTo
      <3>4. /\ stream.run \in DOMAIN server /\ ~stream.open /\ stream.snapshot # None
            /\ server[stream.run].status = "complete"
            /\ stream.snapshot.run = stream.run /\ stream.snapshot.beats = NumBeats
        BY <3>1, CompletionShown
      <3>5. page'.result = stream.snapshot
        BY <1>2, <3>2, <3>4 DEF MirroredResult
      <3>6. SubscribedTo(page') = SubscribedTo(page) /\ page.runId # None
        BY <1>2, <3>1, <3>3, <3>4, NoneAssumption DEF SubscribedTo, PageInv, ServerTypes
      <3> QED
        BY <1>2, <1>3, <1>4, <3>3, <3>4, <3>5, <3>6 DEF Finished
    <2> QED
      BY <2>1, <2>2
  <1> QED
    BY <1>6, <1>7, <1>8

(* The record effect hands over the page's run when it is complete, and    *)
(* no second time.                                                         *)
LEMMA PlainEffectsRecord ==
  ASSUME PageInv, plain, PlainInv, Effects
  PROVE  Logged'
  <1>1. Alone /\ Finished /\ Logged
    BY DEF PlainInv
  <1>2. /\ page'.status = AdvancedStatus /\ page'.runId = page.runId
        /\ page'.side = page.side
        /\ page'.ref = IF RecordsNow THEN RecordKey ELSE page.ref
    BY EffectsRender
  <1>3. UNCHANGED server
    BY DEF Effects
  <1>4. /\ page'.status = "running" => page.status = "running"
        /\ page.status = "complete" => page'.status = "complete"
    BY <1>2 DEF AdvancedStatus
  <1>5. ServerGrows
    BY <1>3, ServerRests DEF PageInv
  <1>6. CASE ~RecordsNow
    <2>1. UNCHANGED log /\ page'.ref = page.ref
      BY <1>2, <1>6 DEF Effects
    <2>2. \A i \in DOMAIN log : EntryFits(log[i])'
      BY <1>1, <1>5, <2>1, EntriesStillFit
    <2>3. ASSUME NEW i \in DOMAIN log, log[i].result.run = page.runId
          PROVE  /\ page'.status # "running"
                 /\ page'.status = "complete" => page'.ref = <<page.runId, page.side>>
      <3>1. /\ page.status # "running"
            /\ page.status = "complete" => page.ref = <<page.runId, page.side>>
        BY <1>1, <2>3 DEF Logged, EntryPast
      <3>2. page'.status = page.status
        BY <1>2, <3>1 DEF AdvancedStatus
      <3> QED
        BY <2>1, <3>1, <3>2
    <2>4. \A i \in DOMAIN log : EntryPast(log[i])'
      BY <1>2, <2>1, <2>3 DEF EntryPast
    <2> QED
      BY <1>1, <2>1, <2>2, <2>4 DEF Logged
  <1>7. CASE RecordsNow
    <2> DEFINE entry == [side |-> page.side, daily |-> daily, result |-> page.result]
    <2>1. /\ page.status = "complete" /\ page.result # None /\ page.ref # RecordKey
          /\ page'.ref = RecordKey /\ log' = Append(log, entry)
      BY <1>2, <1>7 DEF RecordsNow, Effects
    <2>2. /\ page.runId # None /\ page.runId \in DOMAIN server
          /\ server[page.runId].status = "complete" /\ server[page.runId].side = page.side
          /\ page.result.run = page.runId /\ page.result.beats = NumBeats
          /\ ~server[page.runId].coop /\ daily = page.side
      BY <1>1, <2>1 DEF Finished, Alone, PageInv, PageRefers, Held, Matched
    <2>3. RecordKey = <<page.runId, page.side>>
      BY <2>2 DEF RecordKey, CorrelationId
    <2>4. /\ entry.result.run = page.runId /\ entry.result.beats = NumBeats
          /\ entry.side = page.side /\ entry.daily = page.side
      BY <2>2
    <2>5. \A i \in DOMAIN log : log[i].result.run # page.runId
      BY <1>1, <2>1, <2>3 DEF Logged, EntryPast
    <2> HIDE DEF entry
    <2>6. log \in Seq(Entries)
      BY DEF PageInv, PageTypes
    <2>7. /\ \A i \in DOMAIN log' :
               (i \in DOMAIN log /\ log'[i] = log[i])
                 \/ (i = Len(log) + 1 /\ log'[i] = entry)
          /\ Len(log) + 1 \notin DOMAIN log
      BY <2>1, <2>6
    <2>8. ASSUME NEW i \in DOMAIN log'
          PROVE  EntryFits(log[i])' /\ EntryPast(log[i])'
      <3>1. CASE i \in DOMAIN log /\ log'[i] = log[i]
        <4>1. log[i].result.run # page.runId /\ log[i].result.run \in DOMAIN server
          BY <2>5, <3>1, RecordedAreHeld
        <4>2. EntryFits(log[i])
          BY <1>1, <3>1 DEF Logged
        <4> QED
          BY <1>2, <1>3, <3>1, <4>1, <4>2 DEF EntryFits, EntryPast
      <3>2. CASE log'[i] = entry
        BY <1>2, <1>3, <1>4, <2>1, <2>2, <2>3, <2>4, <3>2 DEF EntryFits, EntryPast
      <3> QED
        BY <2>7, <3>1, <3>2
    <2>9. \A i, j \in DOMAIN log' : i # j => log'[i].result.run # log'[j].result.run
      BY <1>1, <2>4, <2>5, <2>7 DEF Logged
    <2> QED
      BY <2>8, <2>9 DEF Logged
  <1> QED
    BY <1>6, <1>7

(* Every step of the page keeps what holds of such a player.               *)
LEMMA NextKeepsPlain ==
  ASSUME PageInv, PlainInv, [Next]_vars
  PROVE  PlainInv'
  <1> SUFFICES ASSUME plain'
               PROVE  Alone' /\ Finishing' /\ Finished' /\ Logged'
    BY DEF PlainInv
  <1>1. CASE UNCHANGED vars
    <2>1. UNCHANGED <<page, daily, stream, due, calls, server, log, plain>>
      BY <1>1 DEF vars
    <2> QED
      BY <2>1 DEF PlainInv, Alone, Finishing, Finished, Logged, EntryFits, EntryPast
  <1>2. CASE Next
    <2>1. plain
      BY <1>2 DEF Next, Effects, Launch, LaunchCoop, Reset, SwapSide, KeepMyRun, CloseModal,
         SubmitCommand, Receive, Disconnect, Answer, LaunchAnswers, CoopAnswers,
         JoinAnswers, CommandAnswers, CallFails, PlayScript, PartnerBeat
    <2>2. Alone
      BY <2>1 DEF PlainInv
    <2>3. ~LaunchCoop /\ ~KeepMyRun /\ ~CloseModal
      BY <2>2 DEF LaunchCoop, Alone, KeepMyRun, CloseModal
    <2>4. CASE Effects
      BY <2>1, <2>4, PlainEffectsEnd, PlainEffectsRecord
    <2>5. CASE Launch \/ Reset \/ SwapSide \/ SubmitCommand
      BY <2>1, <2>5, PlainLaunch, PlainIdle, PlainSubmit
    <2>6. CASE Receive \/ Disconnect
      BY <2>1, <2>6, PlainReceive, PlainDisconnect
    <2>7. ASSUME NEW c \in calls, Answer(c)
          PROVE  Alone' /\ Finishing' /\ Finished' /\ Logged'
      <3>1. ~CoopAnswers(c) /\ ~JoinAnswers(c)
        BY <2>2 DEF Alone, CoopAnswers, JoinAnswers
      <3> QED
        BY <2>1, <2>7, <3>1, PlainLaunchAnswers, PlainCommandAnswers, PlainCallFails
           DEF Answer
    <2>8. ASSUME NEW r \in DOMAIN server, PlayScript(r) \/ PartnerBeat(r)
          PROVE  Alone' /\ Finishing' /\ Finished' /\ Logged'
      BY <2>1, <2>8, PlainServer
    <2> QED
      BY <1>2, <2>3, <2>4, <2>5, <2>6, <2>7, <2>8 DEF Next
  <1> QED
    BY <1>1, <1>2

(* A page opened without a link has nothing on its way.                    *)
LEMMA InitIsPlain ==
  ASSUME Init
  PROVE  PlainInv
  <1>1. /\ plain => server = <<>> /\ calls = {}
        /\ page = [status |-> "idle", side |-> MountSide, runId |-> None, result |-> None,
                   ref |-> None, pair |-> None, modal |-> FALSE]
        /\ log = <<>>
    BY DEF Init
  <1>2. page.status = "idle" /\ ~page.modal
    BY <1>1
  <1>3. plain => Alone
    BY <1>1, <1>2 DEF Alone
  <1>4. Finishing /\ Finished
    BY <1>2 DEF Finishing, Finished
  <1>5. Logged
    BY <1>1 DEF Logged
  <1> QED
    BY <1>3, <1>4, <1>5 DEF PlainInv

(* A player who launches missions alone and keeps to a side has each run   *)
(* recorded once, when it was played to the end, on its side and with the  *)
(* daily match of that side.                                               *)
THEOREM RecordedOnce == Spec => []RecordedOnceAndFinal
  <1>1. PlainInv => RecordedOnceAndFinal
    BY DEF PlainInv, Logged, EntryFits, RecordedOnceAndFinal
  <1> QED
    BY <1>1, InitHolds, NextKeepsPage, InitIsPlain, NextKeepsPlain, PTL DEF Spec

=============================================================================
