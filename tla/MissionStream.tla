--------------------------- MODULE MissionStream ---------------------------
(***************************************************************************)
(* The live feed of a mission: MissionStreamHub with one bounded queue per *)
(* subscriber and a bounded replay buffer per run, the SSE generator that  *)
(* drains a queue, and the browser hook that folds frames into what the    *)
(* player sees.  No hub operation awaits inside its lock or while it fills *)
(* the queues, so each is one step of the event loop.                      *)
(*                                                                         *)
(* A module that EXTENDS this one decides what is published.               *)
(***************************************************************************)
EXTENDS Integers, Sequences

CONSTANTS
  Runs,         \* run identities
  Clients,      \* browser pages
  QueueSize,    \* max_queue_size, 256 in the code
  ReplaySize,   \* replay_buffer_size, 256 in the code
  NumBeats,     \* beats of an adversary script
  None

ASSUME StreamAssumption ==
  /\ QueueSize \in Nat \ {0} /\ ReplaySize \in Nat \ {0}
  /\ NumBeats \in Nat \ {0}
  /\ None \notin Runs

Player == -1    \* beat_index of every beat a player's command publishes

Marks     == {"mission_started", "world_snapshot", "mission_complete",
              "mission_failed", "mission_aborted", "close"}
Terminal  == {"mission_complete", "mission_failed", "mission_aborted"}
Frame     == [type : Marks, index : {Player}]
             \cup [type : {"beat"}, index : Player .. NumBeats - 1]
Phases    == {"idle", "connecting", "running", "complete", "failed", "aborted"}

Mark(type) == [type |-> type, index |-> Player]
Beat(i)    == [type |-> "beat", index |-> i]
Sentinel   == Mark("close")

FirstOf(s, n) == IF Len(s) <= n THEN s ELSE SubSeq(s, 1, n)
LastOf(s, n)  == IF Len(s) <= n THEN s ELSE SubSeq(s, Len(s) - n + 1, Len(s))

VARIABLES
  replay,      \* run -> the frames a late subscriber is given
  closed,      \* runs whose stream has been closed
  registered,  \* clients whose queue the hub feeds
  queue,       \* client -> frames on the way to it
  connected,   \* clients with an open event stream
  watch,       \* client -> the run its page shows, or None
  phase,       \* client -> what the page says of the mission
  timeline,    \* client -> beat indices on the page, oldest first
  heard        \* client -> beat frames received for that page

hub    == <<replay, closed, registered, queue>>
page   == <<connected, watch, phase, timeline, heard>>
stream == <<hub, page>>

StreamTypeOK ==
  /\ replay \in [Runs -> Seq(Frame)]
  /\ \A r \in Runs : Len(replay[r]) <= ReplaySize
  /\ closed \subseteq Runs
  /\ registered \subseteq connected /\ connected \subseteq Clients
  /\ queue \in [Clients -> Seq(Frame)]
  /\ \A c \in Clients : Len(queue[c]) <= QueueSize
  /\ watch \in [Clients -> Runs \cup {None}]
  /\ phase \in [Clients -> Phases]
  /\ timeline \in [Clients -> Seq(Player .. NumBeats - 1)]
  /\ heard \in [Clients -> Nat]

NewHub ==
  [replay |-> [r \in Runs |-> <<>>], queue |-> [c \in Clients |-> <<>>]]

StreamInit ==
  /\ replay = NewHub.replay /\ queue = NewHub.queue
  /\ closed = {} /\ registered = {} /\ connected = {}
  /\ watch = [c \in Clients |-> None]
  /\ phase = [c \in Clients |-> "idle"]
  /\ timeline = [c \in Clients |-> <<>>]
  /\ heard = [c \in Clients |-> 0]

-----------------------------------------------------------------------------
(* Slip: new frames go to the head of the queue.                           *)
OfferedFirst(c, frames) == FirstOf(frames \o queue[c], QueueSize)
(* put_nowait of frame after frame: what does not fit is dropped.          *)
Offered(c, frames) == FirstOf(queue[c] \o frames, QueueSize)

Fed(r) == {c \in registered : watch[c] = r}

(* publish: out[r] is what each run publishes in this step.                *)
PublishAll(out) ==
  /\ replay' = [r \in Runs |-> LastOf(replay[r] \o out[r], ReplaySize)]
  /\ queue' = [c \in Clients |->
                 IF c \in registered THEN Offered(c, out[watch[c]]) ELSE queue[c]]
  /\ UNCHANGED <<closed, registered>>

Publish(r, frames) ==
  PublishAll([x \in Runs |-> IF x = r THEN frames ELSE <<>>])

(* publish, then close: the queues get the sentinel and leave the hub.     *)
PublishAndClose(r, frames) ==
  /\ replay' = [replay EXCEPT ![r] = LastOf(@ \o frames, ReplaySize)]
  /\ queue' = [c \in Clients |->
                 IF c \in Fed(r) THEN Offered(c, Append(frames, Sentinel))
                                 ELSE queue[c]]
  /\ registered' = registered \ Fed(r)
  /\ closed' = closed \cup {r}

Close(r) == PublishAndClose(r, <<>>)

(* Slip: a late subscriber starts with an empty queue.                     *)
NoBacklog(r) == <<>>
Backlog(r) == FirstOf(replay[r], QueueSize)

(* Slip: nothing ends the stream of a late subscriber.                     *)
WithoutSentinel(r) == Backlog(r)
(* What a subscriber of a closed run is given.                             *)
ClosedBacklog(r) == Append(Backlog(r), Sentinel)

(* The page opens an event stream and the hub subscribes it.  On a closed  *)
(* run it is given the sentinel and not registered; if the backlog has     *)
(* filled the queue, put_nowait raises and the stream breaks.              *)
Watch(c, r) ==
  /\ c \notin connected
  /\ watch' = [watch EXCEPT ![c] = r]
  /\ timeline' = [timeline EXCEPT ![c] = <<>>]
  /\ heard' = [heard EXCEPT ![c] = 0]
  /\ \/ /\ r \notin closed
        /\ registered' = registered \cup {c}
        /\ queue' = [queue EXCEPT ![c] = Backlog(r)]
        /\ connected' = connected \cup {c}
        /\ phase' = [phase EXCEPT ![c] = "connecting"]
     \/ /\ r \in closed /\ Len(Backlog(r)) < QueueSize
        /\ queue' = [queue EXCEPT ![c] = ClosedBacklog(r)]
        /\ connected' = connected \cup {c}
        /\ phase' = [phase EXCEPT ![c] = "connecting"]
        /\ UNCHANGED registered
     \/ /\ r \in closed /\ Len(Backlog(r)) >= QueueSize
        /\ phase' = [phase EXCEPT ![c] = "failed"]
        /\ UNCHANGED <<queue, connected, registered>>
  /\ UNCHANGED <<replay, closed>>

(* Slip: the generator ends without unsubscribing.                         *)
StillRegistered(c) ==
  /\ connected' = connected \ {c}
  /\ queue' = [queue EXCEPT ![c] = <<>>]
  /\ UNCHANGED registered
(* The end of the connection: the generator's finally unsubscribes.        *)
Disconnect(c) ==
  /\ connected' = connected \ {c}
  /\ registered' = registered \ {c}
  /\ queue' = [queue EXCEPT ![c] = <<>>]

(* onerror: a page that has no outcome yet says the mission failed.        *)
Broken(p) == IF p \in {"running", "connecting"} THEN "failed" ELSE p

PhaseAfter(f, p) ==
  CASE f.type \in {"mission_started", "beat"} -> "running"
    [] f.type = "mission_complete" -> "complete"
    [] f.type = "mission_failed"   -> "failed"
    [] f.type = "mission_aborted"  -> "aborted"
    [] f.type = "close"            -> Broken(p)
    [] OTHER                       -> p

(* appendBeat drops a beat whose index the timeline already holds.         *)
Shown(t, f) ==
  IF f.type # "beat" \/ \E k \in DOMAIN t : t[k] = f.index
    THEN t ELSE Append(t, f.index)

(* The generator yields the head of the queue and the hook applies it; the *)
(* sentinel ends the generator, a terminal frame makes the page hang up.   *)
Receive(c) ==
  /\ c \in connected /\ queue[c] # <<>>
  /\ LET f == Head(queue[c]) IN
       /\ phase' = [phase EXCEPT ![c] = PhaseAfter(f, @)]
       /\ timeline' = [timeline EXCEPT ![c] = Shown(@, f)]
       /\ heard' = [heard EXCEPT ![c] = @ + (IF f.type = "beat" THEN 1 ELSE 0)]
       /\ IF f.type \in Terminal \cup {"close"}
            THEN Disconnect(c)
            ELSE queue' = [queue EXCEPT ![c] = Tail(@)] /\ UNCHANGED <<connected, registered>>
  /\ UNCHANGED <<replay, closed, watch>>

(* The page is left: the hook closes the stream and forgets what it showed. *)
Leave(c) ==
  /\ watch[c] # None
  /\ Disconnect(c)
  /\ watch' = [watch EXCEPT ![c] = None]
  /\ phase' = [phase EXCEPT ![c] = "idle"]
  /\ timeline' = [timeline EXCEPT ![c] = <<>>]
  /\ heard' = [heard EXCEPT ![c] = 0]
  /\ UNCHANGED <<replay, closed>>

(* The server stops: the hub is gone, every connection breaks.             *)
StreamLost ==
  /\ replay' = NewHub.replay /\ queue' = NewHub.queue
  /\ closed' = {} /\ registered' = {} /\ connected' = {}
  /\ phase' = [c \in Clients |-> IF c \in connected THEN Broken(phase[c]) ELSE phase[c]]
  /\ UNCHANGED <<watch, timeline, heard>>
=============================================================================
