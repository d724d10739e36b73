--------------------------- MODULE ScenarioPage ---------------------------
(***************************************************************************)
(* The page a mission is played on: its status machine, the calls it has   *)
(* in flight, the live stream it watches, and the effects React runs after *)
(* it rendered a change.  A handler changes the page in one step; the      *)
(* effects that are due then run together, in the order of their           *)
(* declaration, all on the values of the render they follow, and what they *)
(* set is the next render.  The server is reduced to the runs it holds and *)
(* the frames it has published for each; between them may stand the Next   *)
(* proxy of a deployed page.                                               *)
(***************************************************************************)
EXTENDS Integers, SequencesExt

CONSTANTS
  NumBeats,      \* beats of an adversary script
  MaxCommands,   \* bound on the commands of a run
  MaxRuns,       \* a server with so many runs takes no more
  MaxCalls,      \* bound on the calls in flight
  MaxSwaps,      \* bound on the changes of side
  ViaProxy,      \* whether BASE_URL is the Next proxy
  Links,         \* runs a page may be opened on (?run=), or None
  None

Sides     == {"red", "blue"}
MountSide == "blue"
Terminal  == {"complete", "failed", "aborted"}

(* Frames of a stream, summaries of a run, and runs.                       *)
Frames  == [type : {"beat"} \cup Terminal, run : Nat, beats : Nat, cmds : Nat]
Results == [run : Nat, beats : Nat, cmds : Nat]
Runs    == [side : Sides, coop : BOOLEAN, beats : Nat, cmds : Nat,
            status : {"active"} \cup Terminal, feed : Seq(Frames)]

(* The feed of run r is its own, ends with the beats the run has played,   *)
(* and tells of its completion only when the script was played to the end. *)
FeedFits(run, r) ==
  /\ \A i \in DOMAIN run.feed :
       /\ run.feed[i].run = r
       /\ run.feed[i].type = "complete"
            => run.status = "complete" /\ run.feed[i].beats = NumBeats
  /\ run.feed # <<>> => run.feed[Len(run.feed)].beats = run.beats

ASSUME PageAssumption ==
  /\ NumBeats \in Nat \ {0} /\ MaxCommands \in Nat /\ MaxRuns \in Nat
  /\ MaxCalls \in Nat \ {0} /\ MaxSwaps \in Nat /\ ViaProxy \in BOOLEAN

(* A link names a run the server still has in memory.                      *)
ASSUME LinkAssumption ==
  \A link \in Links : link # None => link \in Runs /\ FeedFits(link, 1)

ASSUME NoneAssumption ==
  /\ None \notin Nat /\ None \notin Results
  /\ None \notin Nat \X Sides /\ None \notin [red : Nat, blue : Nat]

VARIABLES
  page,     \* status, side, runId, result, recordedRef, co-op pair and modal
  daily,    \* the side for which the daily match was computed
  stream,   \* the state of useMissionStream and its EventSource
  due,      \* effects whose dependencies changed since they last ran
  calls,    \* requests in flight
  server,   \* the runs, in the order they were created
  log,      \* every run handed to recordMission and reportMissionScore
  plain,    \* so far no link, no co-op and no swap of sides after a run
  swaps

vars == <<page, daily, stream, due, calls, server, log, plain, swaps>>

INITIAL == [phase |-> "idle", snapshot |-> None, run |-> None, pos |-> 0,
            open |-> FALSE]

Frame(type, r) == [type |-> type, run |-> r, beats |-> server[r].beats,
                   cmds |-> server[r].cmds]
Snapshot(f)    == [run |-> f.run, beats |-> f.beats, cmds |-> f.cmds]
NewRun(side, coop) ==
  [side |-> side, coop |-> coop, beats |-> 0, cmds |-> 0, status |-> "active",
   feed |-> <<>>]

(* Both runs of a co-op pair carry the correlation id of the red one.      *)
CorrelationId(r) ==
  IF server[r].coop /\ server[r].side = "blue" THEN r - 1 ELSE r

Init ==
  /\ page = [status |-> "idle", side |-> MountSide, runId |-> None, result |-> None,
             ref |-> None, pair |-> None, modal |-> FALSE]
  /\ daily = MountSide /\ stream = INITIAL /\ due = {}
  /\ \E link \in Links :
       /\ server = IF link = None THEN <<>> ELSE <<link>>
       /\ calls  = IF link = None THEN {} ELSE {[kind |-> "join", arg |-> 1]}
       /\ plain  = (link = None)
  /\ log = <<>> /\ swaps = 0

-----------------------------------------------------------------------------
(* Rendering                                                               *)
SubscribedTo(p) == IF p.status \in {"running", "complete"} THEN p.runId ELSE None

(* Slip: the record effect runs only when the status changes.              *)
DueStatusOnly(p, s, fresh) ==
  {e \in {"stream", "phase", "record", "daily", "mirror"} :
     \/ e \in fresh /\ e # "record"
     \/ e = "stream" /\ SubscribedTo(p) # SubscribedTo(page)
     \/ e = "phase"  /\ (s.phase # stream.phase \/ p.status # page.status)
     \/ e = "record" /\ p.status # page.status
     \/ e = "daily"  /\ p.side # page.side}
(* The effects that a render with page p and stream s makes due; fresh are *)
(* those whose dependency is a new object.                                 *)
DueAfter(p, s, fresh) ==
  {e \in {"stream", "phase", "record", "daily", "mirror"} :
     \/ e \in fresh
     \/ e = "stream" /\ SubscribedTo(p) # SubscribedTo(page)
     \/ e = "phase"  /\ (s.phase # stream.phase \/ p.status # page.status)
     \/ e = "record" /\ (p.status # page.status \/ p.result # page.result)
     \/ e = "daily"  /\ p.side # page.side}

Render(p, s, fresh) ==
  /\ page' = p /\ stream' = s
  /\ due' = DueAfter(p, s, fresh)

Settled == due = {}

-----------------------------------------------------------------------------
(* The effects                                                             *)
(* Slip: the new EventSource goes on at the position of the old one.       *)
ResubscribedAtPos ==
  LET r == SubscribedTo(page)
  IN  IF "stream" \notin due THEN stream
      ELSE IF r = None THEN [INITIAL EXCEPT !.pos = stream.pos]
      ELSE [INITIAL EXCEPT !.phase = "connecting", !.run = r,
                           !.pos = stream.pos, !.open = TRUE]
(* Slip: the state of the stream outlives the subscription.                *)
ResubscribedDirty ==
  LET r == SubscribedTo(page)
  IN  IF "stream" \notin due THEN stream
      ELSE IF r = None THEN [stream EXCEPT !.run = None, !.open = FALSE]
      ELSE [stream EXCEPT !.phase = "connecting", !.run = r, !.pos = 0,
                          !.open = TRUE]
(* useMissionStream: the old EventSource is closed, a new one opened.      *)
Resubscribed ==
  LET r == SubscribedTo(page)
  IN  IF "stream" \notin due THEN stream
      ELSE IF r = None THEN INITIAL
      ELSE [INITIAL EXCEPT !.phase = "connecting", !.run = r, !.open = TRUE]

(* Slip: only the first snapshot of a run is taken over.                   *)
MirroredOnce ==
  IF "mirror" \in due /\ stream.snapshot # None /\ page.result = None
    THEN stream.snapshot ELSE page.result
MirroredResult ==
  IF "mirror" \in due /\ stream.snapshot # None THEN stream.snapshot
                                                ELSE page.result

(* A terminal phase of the stream ends a running mission.                  *)
AdvancedStatus ==
  IF "phase" \notin due \/ page.status # "running" THEN page.status
  ELSE IF stream.phase = "complete" THEN "complete"
  ELSE IF stream.phase \in {"failed", "aborted"} THEN "error" ELSE page.status

RecordKey == <<CorrelationId(page.result.run), page.side>>

(* Slip: the key of the last record is not looked at.                      *)
RecordsAgain == "record" \in due /\ page.status = "complete" /\ page.result # None
RecordsNow ==
  /\ "record" \in due /\ page.status = "complete" /\ page.result # None
  /\ page.ref # RecordKey

DailySide == IF "daily" \in due THEN page.side ELSE daily

Effects ==
  /\ due # {}
  /\ LET p == [page EXCEPT !.result = MirroredResult, !.status = AdvancedStatus,
                           !.ref = IF RecordsNow THEN RecordKey ELSE @]
     IN  Render(p, Resubscribed,
                IF "mirror" \in due /\ stream.snapshot # None THEN {"record"} ELSE {})
  /\ daily' = DailySide
  /\ log' = IF RecordsNow
              THEN Append(log, [side |-> page.side, daily |-> daily,
                                result |-> page.result])
              ELSE log
  /\ UNCHANGED <<calls, server, plain, swaps>>

-----------------------------------------------------------------------------
(* What the player does                                                    *)
Send(kind, arg) ==
  /\ Cardinality(calls) < MaxCalls /\ [kind |-> kind, arg |-> arg] \notin calls
  /\ calls' = calls \cup {[kind |-> kind, arg |-> arg]}

Launch ==
  /\ Settled /\ page.status = "idle"
  /\ Render([page EXCEPT !.status = "running", !.result = None, !.runId = None],
            stream, {})
  /\ Send("launch", page.side)
  /\ UNCHANGED <<daily, server, log, plain, swaps>>

LaunchCoop ==
  /\ Settled /\ page.status # "running"
  /\ Send("coop", None) /\ plain' = FALSE
  /\ UNCHANGED <<page, daily, stream, due, server, log, swaps>>

(* Run Again after a result is shown, Reset after an error.                *)
Reset ==
  /\ Settled
  /\ page.status = "error" \/ (page.status = "complete" /\ page.result # None)
  /\ Render([page EXCEPT !.status = "idle", !.result = None, !.runId = None,
                         !.ref = None], stream, {})
  /\ UNCHANGED <<daily, calls, server, log, plain, swaps>>

SwapSide ==
  /\ Settled /\ page.status # "running" /\ swaps < MaxSwaps
  /\ Render([page EXCEPT !.side = IF @ = "red" THEN "blue" ELSE "red"], stream, {})
  /\ plain' = (plain /\ page.status # "complete")
  /\ swaps' = swaps + 1
  /\ UNCHANGED <<daily, calls, server, log>>

(* Start Playing in the co-op modal.                                       *)
KeepMyRun ==
  /\ Settled /\ page.modal
  /\ Render([page EXCEPT !.runId = page.pair[page.side], !.status = "running",
                         !.result = None, !.modal = FALSE], stream, {})
  /\ UNCHANGED <<daily, calls, server, log, plain, swaps>>

CloseModal ==
  /\ Settled /\ page.modal
  /\ Render([page EXCEPT !.modal = FALSE], stream, {})
  /\ UNCHANGED <<daily, calls, server, log, plain, swaps>>

(* The console takes one command at a time, also when the run is over.     *)
SubmitCommand ==
  /\ Settled /\ page.status \in {"running", "complete"} /\ page.runId # None
  /\ \A c \in calls : c.kind # "command"
  /\ server[page.runId].cmds < MaxCommands
  /\ Send("command", page.runId)
  /\ UNCHANGED <<page, daily, stream, due, server, log, plain, swaps>>

-----------------------------------------------------------------------------
(* Answers, in any order                                                   *)
LaunchAnswers(c) ==
  /\ Settled /\ c.kind = "launch" /\ Len(server) < MaxRuns
  /\ server' = Append(server, NewRun(c.arg, FALSE))
  /\ Render([page EXCEPT !.runId = Len(server) + 1], stream, {})
  /\ calls' = calls \ {c}
  /\ UNCHANGED <<daily, log, plain, swaps>>

CoopAnswers(c) ==
  /\ Settled /\ c.kind = "coop" /\ Len(server) < MaxRuns
  /\ LET n == Len(server)
     IN  /\ server' = server \o <<NewRun("red", TRUE), NewRun("blue", TRUE)>>
         /\ Render([page EXCEPT !.pair = [red |-> n + 1, blue |-> n + 2],
                                !.modal = TRUE], stream, {})
  /\ calls' = calls \ {c}
  /\ UNCHANGED <<daily, log, plain, swaps>>

(* The join effect's getMission: the status and the summary of the run     *)
(* replace whatever the page shows by then.  Its side does when it is not  *)
(* the side of the render the effect belongs to, the first one: a blue run *)
(* joined after a swap leaves the page on red.  A blue run of one player   *)
(* has no summary before it is complete.                                   *)
JoinAnswers(c) ==
  /\ Settled /\ c.kind = "join"
  /\ LET run == server[c.arg]
         hasSummary == run.status = "complete" \/ run.side = "red" \/ run.coop
     IN  Render([page EXCEPT
                  !.runId = c.arg,
                  !.side = IF run.side # MountSide THEN run.side ELSE @,
                  !.status = IF run.status = "complete" THEN "complete" ELSE "running",
                  !.result = IF hasSummary THEN Snapshot(Frame("summary", c.arg))
                                           ELSE @],
                stream, IF hasSummary THEN {"record"} ELSE {})
  /\ calls' = calls \ {c}
  /\ UNCHANGED <<daily, server, log, plain, swaps>>

(* submit_command: the run counts the command, and publishes a beat while  *)
(* it is active.                                                           *)
Commanded(r) ==
  LET run  == [server[r] EXCEPT !.cmds = @ + 1]
      beat == [Frame("beat", r) EXCEPT !.cmds = run.cmds]
  IN  [server EXCEPT ![r] =
         IF run.status = "active" THEN [run EXCEPT !.feed = Append(@, beat)] ELSE run]

(* The page merges the commands of the answer into the result it then      *)
(* shows.                                                                  *)
CommandAnswers(c) ==
  /\ Settled /\ c.kind = "command"
  /\ server' = Commanded(c.arg)
  /\ Render([page EXCEPT !.result =
               IF @ = None THEN @ ELSE [@ EXCEPT !.cmds = server[c.arg].cmds + 1]],
            stream, IF page.result = None THEN {} ELSE {"record"})
  /\ calls' = calls \ {c}
  /\ UNCHANGED <<daily, log, plain, swaps>>

(* A join or a command that fails, or is given up after its five seconds,  *)
(* changes nothing on the page; a launch shows the error, whatever the     *)
(* page shows by then.  The backend may have run a command whose answer is *)
(* lost; a launch it has run leaves a run that no page looks at, and which *)
(* is left out.                                                            *)
CallFails(c) ==
  /\ Settled
  /\ \/ UNCHANGED server
     \/ c.kind = "command" /\ server' = Commanded(c.arg)
  /\ Render([page EXCEPT !.status =
               IF c.kind \in {"launch", "coop"} THEN "error" ELSE @], stream, {})
  /\ calls' = calls \ {c}
  /\ UNCHANGED <<daily, log, plain, swaps>>

-----------------------------------------------------------------------------
(* The server                                                              *)
(* A run goes on unwatched, but nothing tells until the page looks at it.  *)
Watched(r) == page.runId = r \/ [kind |-> "join", arg |-> r] \in calls

(* Slip: a script that fails is not announced.                             *)
EndedSilently(r, type) ==
  [server[r] EXCEPT !.status = type,
     !.feed = IF type = "failed" THEN @ ELSE Append(@, Frame(type, r))]
Ended(r, type) ==
  [server[r] EXCEPT !.status = type, !.feed = Append(@, Frame(type, r))]

(* The scheduler plays the script of a blue run of one player, and the run *)
(* ends; a red player, and a co-op pair, are left to their commands.       *)
PlayScript(r) ==
  LET run == server[r]
  IN  /\ Watched(r) /\ run.side = "blue" /\ ~run.coop /\ run.status = "active"
      /\ \/ /\ run.beats < NumBeats
            /\ server' = [server EXCEPT ![r] =
                 [run EXCEPT !.beats = @ + 1,
                             !.feed = Append(@, [Frame("beat", r) EXCEPT
                                                   !.beats = run.beats + 1])]]
         \/ /\ run.beats = NumBeats
            /\ server' = [server EXCEPT ![r] = Ended(r, "complete")]
         \/ \E type \in {"failed", "aborted"} :
              server' = [server EXCEPT ![r] = Ended(r, type)]
      /\ UNCHANGED <<page, daily, stream, due, calls, log, plain, swaps>>

(* A command of the partner is a beat on this side's stream too.           *)
PartnerBeat(r) ==
  /\ Watched(r) /\ server[r].coop /\ server[r].beats < NumBeats
  /\ server' = [server EXCEPT
       ![r].beats = @ + 1,
       ![r].feed = Append(@, [Frame("beat", r) EXCEPT !.beats = @ + 1])]
  /\ UNCHANGED <<page, daily, stream, due, calls, log, plain, swaps>>

(* The proxy reads a body to its end before it answers: of a stream, which *)
(* ends with the run, it passes nothing on until then.                     *)
Arrived(feed) ==
  ViaProxy => feed # <<>> /\ Last(feed).type \in Terminal

(* applyEvent: a frame of the stream, and the end of it.                   *)
Receive ==
  /\ Settled /\ stream.open /\ stream.pos < Len(server[stream.run].feed)
  /\ Arrived(server[stream.run].feed)
  /\ LET f == server[stream.run].feed[stream.pos + 1]
     IN  Render(page,
                [stream EXCEPT
                   !.pos = @ + 1, !.open = f.type \notin Terminal,
                   !.phase = IF f.type = "beat" THEN "running" ELSE f.type,
                   !.snapshot = IF f.type \in {"beat", "complete"}
                                  THEN Snapshot(f) ELSE @],
                IF f.type \in {"beat", "complete"} THEN {"mirror"} ELSE {})
  /\ UNCHANGED <<daily, calls, server, log, plain, swaps>>

(* onerror: the connection is gone, and not tried again.                   *)
Disconnect ==
  /\ Settled /\ stream.open
  /\ Render(page, [stream EXCEPT !.open = FALSE,
                     !.phase = IF @ \in {"connecting", "running"} THEN "failed"
                                                                  ELSE @], {})
  /\ UNCHANGED <<daily, calls, server, log, plain, swaps>>

Answer(c) == \/ LaunchAnswers(c) \/ CoopAnswers(c) \/ JoinAnswers(c)
             \/ CommandAnswers(c) \/ CallFails(c)

Next ==
  \/ Effects \/ Launch \/ LaunchCoop \/ Reset \/ SwapSide \/ KeepMyRun
  \/ CloseModal \/ SubmitCommand \/ Receive \/ Disconnect
  \/ \E c \in calls : Answer(c)
  \/ \E r \in DOMAIN server : PlayScript(r) \/ PartnerBeat(r)

Spec == Init /\ [][Next]_vars

(* React runs the effects of a render, a call is answered or fails, the    *)
(* scheduler goes on with a script, and a connection that is open delivers *)
(* what has arrived.  Nothing is asked of the player.                      *)
Fairness ==
  /\ WF_vars(Effects) /\ WF_vars(Receive)
  /\ \A kind \in {"launch", "coop", "join", "command"} :
       WF_vars(\E c \in {x \in calls : x.kind = kind} : Answer(c))
  /\ \A r \in 1 .. MaxRuns + 1 : WF_vars(r \in DOMAIN server /\ PlayScript(r))

FairSpec == Spec /\ Fairness

-----------------------------------------------------------------------------
(* Properties                                                              *)
TypeOK ==
  /\ page.status \in {"idle", "running", "complete", "error"}
  /\ page.side \in Sides /\ daily \in Sides
  /\ page.runId \in {None} \cup DOMAIN server
  /\ page.modal => page.pair # None
  /\ stream.phase \in Terminal \cup {"idle", "connecting", "running"}
  /\ stream.run \in {None} \cup DOMAIN server
  /\ Len(server) <= MaxRuns + 1 /\ Cardinality(calls) <= MaxCalls
  /\ stream.open => stream.pos <= Len(server[stream.run].feed)

(* Whatever runs the page is taken through, what the timeline shows is of  *)
(* the run it is subscribed to: a frame of an earlier run never stays.     *)
(* The objectives are computed from the result, which a late answer may    *)
(* replace by one of another run: see QuietIsCurrent.                      *)
TimelineIsOfRun ==
  Settled => /\ stream.run = SubscribedTo(page)
             /\ stream.snapshot # None => stream.snapshot.run = stream.run

(* A completed mission with a result on the page is in the career.         *)
CompletedIsRecorded ==
  Settled /\ page.status = "complete" /\ page.result # None
    => page.ref # None /\ page.ref[1] = CorrelationId(page.result.run)

(* A player who launches missions alone and keeps to a side has each run   *)
(* recorded once, when it has been played to the end, on the side it was   *)
(* launched for and with the daily match of that side.                     *)
RecordedOnceAndFinal ==
  plain => /\ \A i \in DOMAIN log :
                LET run == server[log[i].result.run]
                IN  /\ run.status = "complete" /\ log[i].result.beats = NumBeats
                    /\ run.side = log[i].side /\ log[i].daily = log[i].side
           /\ \A i, j \in DOMAIN log :
                i # j => log[i].result.run # log[j].result.run

(* What the service says of the beats of a pair, and the page of its       *)
(* snapshots: they arrive live.  A page that is connected to a run sees    *)
(* the first frame published for it.                                       *)
BeatsArriveLive ==
  \A r \in 1 .. MaxRuns + 1 :
    stream.open /\ stream.run = r /\ server[r].feed # <<>>
      ~> stream.run # r \/ ~stream.open \/ stream.pos > 0

(* When nothing is under way any more, the page shows the run as the       *)
(* server has it.                                                          *)
QuietIsCurrent ==
  LET r == SubscribedTo(page)
  IN  Settled /\ calls = {} /\ r # None /\ stream.snapshot # None
      /\ stream.phase \in {"running", "complete"}
      /\ stream.pos = Len(server[r].feed)
        => page.result.run = r /\ page.result.beats = server[r].beats

(* The page leaves a run that the scheduler plays: it does not show it as  *)
(* running for ever, whatever becomes of the script and the connection.    *)
MissionsEnd ==
  \A r \in 1 .. MaxRuns + 1 :
    page.status = "running" /\ page.runId = r
      /\ server[r].side = "blue" /\ ~server[r].coop
      ~> page.status # "running" \/ page.runId # r
=============================================================================
