-------------------------- MODULE MissionRuntime --------------------------
(***************************************************************************)
(* MissionService, MissionScheduler and MissionStore over the live feed.   *)
(* The event loop starts runs, plays scripts and takes commands, one step  *)
(* at a time; threads of the pool report scores, start co-op pairs and     *)
(* reset the store.  put() changes memory and serialises the run in one    *)
(* step and writes the row in a later one, so a thread may act in between. *)
(***************************************************************************)
EXTENDS MissionStream, FiniteSets

CONSTANTS
  Threads,        \* thread-pool threads
  EventLoop,
  MaxCommands,    \* bound on the commands of a run
  MaxFaults,      \* bound on beats and writes that raise
  MaxRestarts,
  Routes          \* the routes in use, of {"async", "sync", "coop"}

ASSUME RuntimeAssumption ==
  /\ MaxCommands \in Nat /\ MaxFaults \in Nat /\ MaxRestarts \in Nat
  /\ EventLoop \notin Threads
  /\ Routes \subseteq {"async", "sync", "coop"}

Actors == Threads \cup {EventLoop}
Ended  == {"complete", "failed", "aborted"}
Status == {"active"} \cup Ended
Run    == [perspective : {"red", "blue"}, status : Status,
           partner : Runs \cup {None}, commands : 0..MaxCommands,
           scored : BOOLEAN]

VARIABLES
  run,       \* the MissionRun objects, or None
  listed,    \* the runs in MissionStore._runs
  disk,      \* rows of mission_runs
  task,      \* what the scheduler's task of a run waits for
  beat,      \* the next beat of the script
  writing,   \* actor -> the put() it is in, or None
  stopping,  \* the event loop is cancelling its tasks
  faults, restarts

mission == <<run, listed, disk, task, beat, writing, stopping, faults, restarts>>
vars == <<stream, mission>>

Ops == {"start", "sync", "command", "player_beat", "score", "coop_red",
        "coop_blue", "complete", "fail", "abort"}
Put == [op : Ops, id : Runs, row : Run]

(* None is no record.                                                      *)
ASSUME NoneAssumption == None \notin Run /\ None \notin Put

TypeOK ==
  /\ StreamTypeOK
  /\ run \in [Runs -> Run \cup {None}]
  /\ listed \subseteq {r \in Runs : run[r] # None}
  /\ disk \in [Runs -> Run \cup {None}]
  /\ task \in [Runs -> {"none", "queued", "sleeping"}]
  /\ beat \in [Runs -> 0 .. NumBeats]
  /\ writing \in [Actors -> Put \cup {None}]
  /\ stopping \in BOOLEAN
  /\ faults \in 0..MaxFaults /\ restarts \in 0..MaxRestarts

Init ==
  /\ StreamInit
  /\ run = [r \in Runs |-> None] /\ disk = [r \in Runs |-> None]
  /\ listed = {}
  /\ task = [r \in Runs |-> "none"] /\ beat = [r \in Runs |-> 0]
  /\ writing = [a \in Actors |-> None]
  /\ stopping = FALSE /\ faults = 0 /\ restarts = 0

-----------------------------------------------------------------------------
(* A uuid is never drawn twice.                                            *)
Fresh(r) == /\ run[r] = None /\ disk[r] = None
            /\ \A x \in Runs : run[x] # None => run[x].partner # r
Free(a)  == writing[a] = None /\ (a = EventLoop => ~stopping)

NewRun(p, s, partner) ==
  [perspective |-> p, status |-> s, partner |-> partner, commands |-> 0,
   scored |-> FALSE]

(* Slip: put() of a copy, the run itself is not changed.                   *)
PutCopy(a, r, row, op) ==
  /\ run' = IF run[r] = None THEN [run EXCEPT ![r] = row] ELSE run
  /\ listed' = listed \cup {r}
  /\ writing' = [writing EXCEPT ![a] = [op |-> op, id |-> r, row |-> row]]
(* put(), up to the call that writes the row                               *)
PutRun(a, r, row, op) ==
  /\ run' = [run EXCEPT ![r] = row]
  /\ listed' = listed \cup {r}
  /\ writing' = [writing EXCEPT ![a] = [op |-> op, id |-> r, row |-> row]]

Fault == faults < MaxFaults /\ faults' = faults + 1

(* POST /missions, mode async: the task is created once the row is written. *)
StartAsync(r, p) ==
  /\ "async" \in Routes /\ Free(EventLoop) /\ Fresh(r)
  /\ PutRun(EventLoop, r, NewRun(p, "active", None), "start")
  /\ UNCHANGED <<stream, disk, task, beat, stopping, faults, restarts>>

(* Mode sync: a blue run is complete when it is created; nothing streams.  *)
StartSync(r, p) ==
  /\ "sync" \in Routes /\ Free(EventLoop) /\ Fresh(r)
  /\ PutRun(EventLoop, r,
            NewRun(p, IF p = "red" THEN "active" ELSE "complete", None), "sync")
  /\ UNCHANGED <<stream, disk, task, beat, stopping, faults, restarts>>

(* POST /missions/coop, on a thread: both runs, the red one put first.     *)
StartCoop(t, r, b) ==
  /\ "coop" \in Routes /\ Free(t) /\ Fresh(r) /\ Fresh(b) /\ r # b
  /\ run' = [run EXCEPT ![r] = NewRun("red", "active", b),
                        ![b] = NewRun("blue", "active", r)]
  /\ listed' = listed \cup {r}
  /\ writing' = [writing EXCEPT ![t] = [op |-> "coop_red", id |-> r, row |-> run'[r]]]
  /\ UNCHANGED <<stream, disk, task, beat, stopping, faults, restarts>>

(* A beat, and what the scheduler does until it sleeps again.  "before" is  *)
(* what the task published since it last slept.                            *)
PlayBeat(r, before) ==
  \/ /\ Publish(r, before \o <<Beat(beat[r])>>)
     /\ beat' = [beat EXCEPT ![r] = @ + 1]
     /\ IF beat[r] + 1 < NumBeats
          THEN /\ task' = [task EXCEPT ![r] = "sleeping"]
               /\ UNCHANGED <<run, listed, writing>>
          ELSE /\ PutRun(EventLoop, r, [run[r] EXCEPT !.status = "complete"], "complete")
               /\ UNCHANGED task
     /\ UNCHANGED faults
  \/ /\ Fault
     /\ Publish(r, before)
     /\ PutRun(EventLoop, r, [run[r] EXCEPT !.status = "failed"], "fail")
     /\ UNCHANGED <<task, beat>>

(* The task runs for the first time.  A red run has no script: its task    *)
(* ends and leaves the stream open.  The first beat of a script has no     *)
(* delay.                                                                  *)
PlayStart(r) ==
  /\ Free(EventLoop) /\ task[r] = "queued"
  /\ IF run[r].perspective = "red"
       THEN /\ Publish(r, <<Mark("mission_started"), Mark("world_snapshot")>>)
            /\ task' = [task EXCEPT ![r] = "none"]
            /\ UNCHANGED <<run, listed, beat, writing, faults>>
       ELSE PlayBeat(r, <<Mark("mission_started")>>)
  /\ UNCHANGED <<page, disk, stopping, restarts>>

PlayNext(r) ==
  /\ Free(EventLoop) /\ task[r] = "sleeping"
  /\ PlayBeat(r, <<>>)
  /\ UNCHANGED <<page, disk, stopping, restarts>>

(* submit_command, whatever the status of the run; some verbs publish a    *)
(* beat, the others and the parse errors only enter the history.           *)
Command(r, op) ==
  /\ Free(EventLoop) /\ r \in listed
  /\ run[r].commands < MaxCommands
  /\ op \in {"command", "player_beat"}
  /\ PutRun(EventLoop, r, [run[r] EXCEPT !.commands = @ + 1], op)
  /\ UNCHANGED <<stream, disk, task, beat, stopping, faults, restarts>>

(* POST /missions/{run_id}/score, on a thread, whatever the status         *)
ReportScore(t, r) ==
  /\ Free(t) /\ r \in listed
  /\ PutRun(t, r, [run[r] EXCEPT !.scored = TRUE], "score")
  /\ UNCHANGED <<stream, disk, task, beat, stopping, faults, restarts>>

(* The row of a put() is written ...                                       *)
Writes(a, ops) ==
  /\ writing[a] # None /\ writing[a].op \in ops
  /\ disk' = [disk EXCEPT ![writing[a].id] = writing[a].row]
  /\ UNCHANGED <<page, run, beat, stopping, faults, restarts>>

Returns(a)  == writing' = [writing EXCEPT ![a] = None]
TaskDone(r) == task' = [task EXCEPT ![r] = "none"]

(* ... and start_async schedules the task,                                 *)
StartWritten ==
  /\ Writes(EventLoop, {"start"})
  /\ task' = [task EXCEPT ![writing[EventLoop].id] = "queued"]
  /\ Returns(EventLoop)
  /\ UNCHANGED <<hub, listed>>

(* start_coop puts the blue run,                                           *)
RedWritten(t) ==
  /\ Writes(t, {"coop_red"})
  /\ LET b == writing[t].row.partner IN
       /\ listed' = listed \cup {b}
       /\ writing' = [writing EXCEPT ![t] = [op |-> "coop_blue", id |-> b, row |-> run[b]]]
  /\ UNCHANGED <<hub, task>>

(* Slip: every run hears the beat.                                         *)
Everyone(p) == {p.id} \cup listed
Audience(p) == {p.id} \cup ({p.row.partner} \cap listed)

(* submit_command publishes the beat to the run and to its partner,        *)
BeatWritten ==
  /\ Writes(EventLoop, {"player_beat"})
  /\ LET heardBy == Audience(writing[EventLoop]) IN
       PublishAll([x \in Runs |-> IF x \in heardBy THEN <<Beat(Player)>> ELSE <<>>])
  /\ Returns(EventLoop)
  /\ UNCHANGED <<listed, task>>

Outcome == [complete |-> "mission_complete", fail |-> "mission_failed",
            abort |-> "mission_aborted"]

Announced(r, type) == PublishAndClose(r, <<Mark(type)>>)

(* _play announces the outcome and closes the stream,                      *)
OutcomeWritten ==
  /\ Writes(EventLoop, DOMAIN Outcome)
  /\ LET p == writing[EventLoop] IN Announced(p.id, Outcome[p.op]) /\ TaskDone(p.id)
  /\ Returns(EventLoop)
  /\ UNCHANGED listed

(* the others just return;                                                 *)
Written(a) ==
  /\ Writes(a, {"sync", "command", "score", "coop_blue"})
  /\ Returns(a)
  /\ UNCHANGED <<hub, listed, task>>

(* Slip: the outcome is announced although its row was refused.            *)
AnnouncedAnyway(p) == Announced(p.id, Outcome[p.op])
NotAnnounced(p) == Close(p.id)

(* or the write raises: the memory stays, the caller stops, and _play's     *)
(* finally closes the stream without an outcome.                           *)
WriteFails(a) ==
  /\ writing[a] # None /\ Fault
  /\ IF writing[a].op \in DOMAIN Outcome
       THEN NotAnnounced(writing[a]) /\ TaskDone(writing[a].id)
       ELSE UNCHANGED <<hub, task>>
  /\ Returns(a)
  /\ UNCHANGED <<page, run, listed, disk, beat, stopping, restarts>>

(* POST /admin/reset empties the registry; tasks, streams and rows stay.   *)
Reset(t) ==
  /\ Free(t) /\ listed # {}
  /\ listed' = {}
  /\ UNCHANGED <<stream, run, disk, task, beat, writing, stopping, faults, restarts>>

(* The server is told to stop: the loop cancels its tasks.  A task that    *)
(* has not run yet ends without entering _play.                            *)
Stop ==
  /\ Free(EventLoop) /\ restarts < MaxRestarts
  /\ stopping' = TRUE
  /\ UNCHANGED <<stream, run, listed, disk, task, beat, writing, faults, restarts>>

Cancel(r) ==
  /\ stopping /\ writing[EventLoop] = None
  /\ \/ /\ task[r] = "sleeping"
        /\ PutRun(EventLoop, r, [run[r] EXCEPT !.status = "aborted"], "abort")
        /\ UNCHANGED task
     \/ task[r] = "queued" /\ TaskDone(r) /\ UNCHANGED <<run, listed, writing>>
  /\ UNCHANGED <<stream, disk, beat, stopping, faults, restarts>>

(* Slip: every blue run fails at startup, not just the active ones.        *)
LoadedFailingBlue(row) ==
  IF row # None /\ row.perspective = "blue" THEN [row EXCEPT !.status = "failed"] ELSE row
(* Slip: runs are loaded as they were stored.                              *)
LoadedVerbatim(row) == row
(* load_from_persistence: the task of an active blue run died with the     *)
(* process.                                                                *)
Loaded(row) ==
  IF row # None /\ row.perspective = "blue" /\ row.status = "active"
    THEN [row EXCEPT !.status = "failed"] ELSE row

(* The process ends, stopped or crashed, and starts again: runs come back  *)
(* from their rows, which are written again; the streams do not come back. *)
Restart ==
  /\ restarts < MaxRestarts
  /\ restarts' = restarts + 1
  /\ disk' = [r \in Runs |-> Loaded(disk[r])]
  /\ run' = disk'
  /\ listed' = {r \in Runs : disk[r] # None}
  /\ StreamLost
  /\ task' = [r \in Runs |-> "none"] /\ beat' = [r \in Runs |-> 0]
  /\ writing' = [a \in Actors |-> None]
  /\ stopping' = FALSE
  /\ UNCHANGED faults

LoopStep(r) ==
  \/ \E p \in {"red", "blue"} : StartAsync(r, p) \/ StartSync(r, p)
  \/ PlayStart(r) \/ PlayNext(r) \/ Cancel(r)
  \/ \E op \in {"command", "player_beat"} : Command(r, op)

ThreadStep(t) ==
  \/ \E r \in Runs : ReportScore(t, r) \/ \E b \in Runs : StartCoop(t, r, b)
  \/ Reset(t)

PageStep(c) ==
  /\ \/ \E r \in listed : Free(EventLoop) /\ Watch(c, r)
     \/ Receive(c) \/ Leave(c)
  /\ UNCHANGED mission

WriteStep(a) ==
  \/ a = EventLoop /\ (StartWritten \/ BeatWritten \/ OutcomeWritten)
  \/ a \in Threads /\ RedWritten(a)
  \/ Written(a) \/ WriteFails(a)

Next ==
  \/ \E r \in Runs : LoopStep(r)
  \/ \E t \in Threads : ThreadStep(t)
  \/ \E a \in Actors : WriteStep(a)
  \/ \E c \in Clients : PageStep(c)
  \/ Stop \/ Restart

Spec == Init /\ [][Next]_vars

(* The event loop keeps turning, a call on a thread returns, a stopped     *)
(* server is started again, and a connected browser reads its stream.      *)
(* Nothing makes players, scores or crashes happen.                        *)
Fairness ==
  /\ \A r \in Runs : WF_vars(PlayStart(r)) /\ WF_vars(PlayNext(r)) /\ WF_vars(Cancel(r))
  /\ \A a \in Actors : WF_vars(WriteStep(a))
  /\ \A c \in Clients : WF_vars(Receive(c) /\ UNCHANGED mission)
  /\ WF_vars(stopping /\ Restart)

FairSpec == Spec /\ Fairness

-----------------------------------------------------------------------------
(* Properties.                                                             *)

(* A page never announces a completion the database would not confirm      *)
(* after a crash: the row is written before the frame is published.        *)
CompletionIsDurable ==
  \A c \in Clients :
    phase[c] = "complete" => /\ disk[watch[c]] # None
                             /\ disk[watch[c]].status = "complete"

(* The script reaches a page from its first beat on, in order, without a   *)
(* gap between backlog and live frames (as long as no buffer overflows).   *)
ShowsScript(c) ==
  \A k \in DOMAIN timeline[c] : timeline[c][k] # Player =>
    /\ \A j \in 1 .. k - 1 : timeline[c][j] < timeline[c][k]
    /\ timeline[c][k] > 0 =>
         \E j \in 1 .. k - 1 : timeline[c][j] = timeline[c][k] - 1
TimelineIsScript == \A c \in Clients : ShowsScript(c)

(* Full queues, a trimmed replay buffer and late pages may lose beats, but *)
(* a page never shows two beats of the script in the wrong order.          *)
TimelineInOrder ==
  \A c \in Clients :
    \A j, k \in DOMAIN timeline[c] :
      j < k /\ timeline[c][j] # Player /\ timeline[c][k] # Player
        => timeline[c][j] < timeline[c][k]

(* An open stream that the hub no longer feeds, with no frame on its way   *)
(* to the page that ends it.                                               *)
Ends(s)     == \E k \in DOMAIN s : s[k].type \in Terminal \cup {"close"}
Stranded(c) == c \in (connected \ registered) /\ ~Ends(queue[c])

StrandedByFullQueue ==
  \A c \in Clients : Stranded(c)' =>
    \/ Stranded(c)
    \/ /\ c \in registered /\ Len(queue[c]) = QueueSize
       /\ watch[c] \in closed' \ closed

StaysStranded ==
  \A c \in Clients : Stranded(c) =>
    \/ Stranded(c)' /\ watch'[c] = watch[c] /\ phase'[c] \in {phase[c], "running"}
    \/ c \notin connected' /\ phase'[c] \in {"idle", Broken(phase[c])}

(* A stream is left open for ever in one way only: its run is closed while *)
(* its queue is full (put_nowait of the outcome and of the sentinel both   *)
(* raise QueueFull, and the hub has forgotten the queue).  Its page then   *)
(* shows a mission under way until it is left or the server stops.         *)
StrandedOnlyWhenFull == [][StrandedByFullQueue /\ StaysStranded]_vars

(* A score whose row was serialised before a run ended may be written      *)
(* after its outcome.                                                      *)
Overtaken(r) ==
  \E t \in Threads : /\ writing[t] # None /\ writing[t].id = r
                     /\ disk[r] # None /\ writing[t].row.status # disk[r].status

(* Once its row says how a run ended, no step and no restart says          *)
(* otherwise, but for the row of a score that the outcome has overtaken.   *)
OutcomeStays ==
  [][\A r \in Runs : disk[r] # None /\ disk[r].status \in Ended
                       => \/ disk'[r] # None /\ disk'[r].status = disk[r].status
                          \/ Overtaken(r)]_disk

(* What a row says of a run is true of the run, also with puts of several   *)
(* threads in progress, writes refused, the registry reset and restarts.   *)
TrueOf(row, r) ==
  /\ run[r] # None
  /\ row.commands <= run[r].commands
  /\ row.scored => run[r].scored
  /\ row.status \in Ended => run[r].status = row.status
RowsLagRuns ==
  /\ \A r \in Runs : disk[r] # None => TrueOf(disk[r], r)
  /\ \A a \in Actors : writing[a] # None => TrueOf(writing[a].row, writing[a].id)

(* A feed carries no player beat that is not a command of the run or of    *)
(* its partner, and none of them twice.                                    *)
PlayerBeats(r) == Cardinality({k \in DOMAIN replay[r] : replay[r][k] = Beat(Player)})
CommandsOf(r) == IF r = None \/ run[r] = None THEN 0 ELSE run[r].commands
BeatsAreCommands ==
  \A r \in Runs :
    PlayerBeats(r) > 0 => PlayerBeats(r) <= CommandsOf(r) + CommandsOf(run[r].partner)

(* A run given to the scheduler does not stay active for ever, whatever    *)
(* beats and writes fail and whenever the server stops.                    *)
RunsSettle ==
  \A r \in Runs :
    (task[r] # "none" /\ run[r].perspective = "blue")
    ~> (run[r] # None /\ run[r].status \in Ended)

(* Every stream of a closed run ends, for the early and the late.          *)
StreamsEnd ==
  \A c \in Clients :
    (c \in connected /\ watch[c] \in closed) ~> (c \notin connected)

=============================================================================
