-------------------------- MODULE PlayerProgress --------------------------
(***************************************************************************)
(* The player's career: a PlayerProgressProvider per browser tab, all over *)
(* one localStorage entry.  A tab reads the entry once, when it mounts,    *)
(* and writes the whole career back after every change.                    *)
(*                                                                         *)
(* Three variables are history, for the properties only: played[t], the    *)
(* missions the career of tab t is made of, kept, the same for the stored  *)
(* career, and undisturbed, which says that no two tabs were ever open     *)
(* together and that no career was reset.  recorded counts for the bound.  *)
(***************************************************************************)
EXTENDS DailyChallenge, ScenarioContent, SequencesExt

CONSTANTS
  Tabs,
  Plays,         \* completed runs: [scenario, side, difficulty, result]
  MAX_HISTORY, MAX_DAILY_HISTORY,
  LIBRARY_SIZE,  \* scenarios that make a full library
  XpMarks,       \* achievement -> the XP it takes
  StreakMarks,   \* achievement -> the streak it takes
  Legacy,        \* careers of before bests and streaks: [runs, achievements]
  Days,          \* the days on which a page is used
  MaxRecords,    \* bound on the missions recorded
  None

ASSUME CareerAssumption ==
  /\ MAX_HISTORY \in Nat \ {0} /\ MAX_DAILY_HISTORY \in Nat \ {0}
  /\ MaxRecords \in Nat
  /\ Days \subseteq Nat /\ \E last \in Days : \A d \in Days : d <= last

(* A run is of a scenario there is, at a difficulty there is.              *)
RunResults == [events : Nat, alerts : Nat, responses : Nat, incident : BOOLEAN,
               contained : BOOLEAN, commands : SUBSET STRING]
ASSUME PlaysAssumption ==
  Plays \subseteq [scenario : Range(SCENARIO_DEFINITIONS), side : {"red", "blue"},
                  difficulty : DOMAIN DIFFICULTIES, result : RunResults]

VARIABLES
  mem,      \* progressRef and the progress state of a tab
  phase,    \* "closed", "mounted" (before hydration) or "ready"
  unsaved,  \* the persist effect of the tab is due
  briefed,  \* the day for which the scenario page computed its daily match
  disk,     \* the localStorage entry, or NotStored
  day,
  played, kept, undisturbed, recorded

vars == <<mem, phase, unsaved, briefed, disk, day, played, kept, undisturbed,
          recorded>>

-----------------------------------------------------------------------------
(* Careers                                                                 *)
EMPTY_PROGRESS ==
  [totalXp |-> 0, missions |-> <<>>, achievements |-> {}, bests |-> << >>,
   beats |-> 0, streak |-> [current |-> 0, best |-> 0, last |-> None],
   daily |-> <<>>]

Key(m) == <<m.scenario, m.side>>

RANKS ==
  <<[id |-> "cadet", minXp |-> 0], [id |-> "recruit", minXp |-> 100],
    [id |-> "analyst", minXp |-> 300], [id |-> "operator", minXp |-> 700],
    [id |-> "commander", minXp |-> 1500], [id |-> "legend", minXp |-> 3000]>>

ComputeRank(totalXp) ==
  RANKS[Max({i \in DOMAIN RANKS : totalXp >= RANKS[i].minXp})].id

TrainingOps ==
  [nightshade  |-> {<<"scn-auth-001", "blue">>, <<"scn-session-002", "blue">>,
                    <<"scn-doc-003", "blue">>},
   firestarter |-> {<<"scn-auth-001", "red">>, <<"scn-session-002", "red">>,
                    <<"scn-doc-004", "red">>},
   gridlock    |-> {<<"scn-svc-005", "blue">>, <<"scn-doc-003", "blue">>,
                    <<"scn-corr-006", "blue">>}]

ClearedIn(op, missions) ==
  {k \in TrainingOps[op] : \E i \in DOMAIN missions : Key(missions[i]) = k}

(* computeOpProgress: an op is complete when the history shows a run of    *)
(* each of its missions, on the side the op asks for.                      *)
OpIsComplete(op, missions) == ClearedIn(op, missions) = TrainingOps[op]

CompletedOpIds(missions) ==
  {op \in DOMAIN TrainingOps : OpIsComplete(op, missions)}

EarnedAchievementIds(p) ==
  LET runs   == Range(p.missions)
      sides  == {Key(m) : m \in runs}
      worlds == {m.scenario : m \in runs}
      Badge(id, holds) == IF holds THEN {id} ELSE {}
  IN  Badge("first-mission", runs # {})
      \cup Badge("red-recon", \E m \in runs : m.side = "red")
      \cup Badge("blue-recon", \E m \in runs : m.side = "blue")
      \cup Badge("flawless", \E m \in runs : m.flawless)
      \cup Badge("operator-tier", \E m \in runs : m.difficulty = "operator")
      \cup Badge("dual-perspective",
              \E w \in worlds : {<<w, "red">>, <<w, "blue">>} \subseteq sides)
      \cup Badge("full-library", Cardinality(worlds) >= LIBRARY_SIZE)
      \cup Badge("apt-hunter", "scn-corr-006" \in worlds)
      \cup {id \in DOMAIN XpMarks : p.totalXp >= XpMarks[id]}
      \cup CompletedOpIds(p.missions)
      \cup Badge("daily-driver", p.daily # <<>>)
      \cup {id \in DOMAIN StreakMarks : p.streak.best >= StreakMarks[id]}
      \cup Badge("new-best", p.beats >= 1)

(* Slip: a day off does not end the streak.                                *)
StreakNoReset(s, today) ==
  IF s.last = today THEN s
  ELSE [current |-> s.current + 1, best |-> s.current + 1, last |-> today]
(* The streak after a mission played today.                                *)
StreakOn(s, today) ==
  IF s.last = today THEN s
  ELSE LET current == IF s.last # None /\ s.last + 1 = today
                        THEN s.current + 1 ELSE 1
       IN  [current |-> current, last |-> today,
            best |-> IF current > s.best THEN current ELSE s.best]

(* Run m is the best of its scenario and side.                             *)
Improved(bests, m) ==
  [k \in DOMAIN bests \cup {Key(m)} |-> IF k = Key(m) THEN m.xp ELSE bests[k]]

(* Slip: the latest run replaces the personal best.                        *)
BestsLatest(p, m) ==
  [bests |-> Improved(p.bests, m),
   beats |-> IF Key(m) \in DOMAIN p.bests THEN p.beats + 1 ELSE p.beats]
(* Personal bests and how often one was beaten; a first run beats nothing. *)
BestsWith(p, m) ==
  LET known == Key(m) \in DOMAIN p.bests
      newPb == ~known \/ m.xp > p.bests[Key(m)]
  IN  [bests |-> IF newPb THEN Improved(p.bests, m) ELSE p.bests,
       beats |-> IF known /\ newPb THEN p.beats + 1 ELSE p.beats]

(* One key a day, the last MAX_DAILY_HISTORY of them.                      *)
DailyWith(keys, today, isDaily) ==
  IF ~isDaily \/ today \in Range(keys) THEN keys
  ELSE LET appended == Append(keys, today)
           excess   == Len(appended) - MAX_DAILY_HISTORY
       IN  IF excess > 0 THEN SubSeq(appended, excess + 1, Len(appended))
           ELSE appended

(* Slip: the achievements are those the present history shows.             *)
AchievementsShown(p, interim) == EarnedAchievementIds(interim)
AchievementsAfter(p, interim) ==
  p.achievements \cup EarnedAchievementIds(interim)

(* Slip: the XP is summed over the history that is kept.                   *)
XpOfHistory(p, m) ==
  LET runs == <<m>> \o p.missions
      n    == IF Len(runs) > MAX_HISTORY THEN MAX_HISTORY ELSE Len(runs)
  IN  XpTotal([i \in 1 .. n |-> runs[i].xp])
XpAfter(p, m) == p.totalXp + m.xp

(* recordMission: the career after run m, completed today.                 *)
RecordMission(p, m, isDaily, today) ==
  LET history == <<m>> \o p.missions
      pb      == BestsWith(p, m)
      interim ==
        [totalXp |-> XpAfter(p, m),
         missions |-> SubSeq(history, 1, IF Len(history) > MAX_HISTORY
                                           THEN MAX_HISTORY ELSE Len(history)),
         achievements |-> p.achievements,
         bests |-> pb.bests, beats |-> pb.beats,
         streak |-> StreakOn(p.streak, today),
         daily |-> DailyWith(p.daily, today, isDaily)]
  IN  [interim EXCEPT !.achievements = AchievementsAfter(p, interim)]

(* Slip: the rank the career already had is announced again.               *)
NewsRepeated(p, next) ==
  [badges |-> next.achievements \ p.achievements,
   rank   |-> {ComputeRank(next.totalXp)}]
(* What recordMission reports for the banner of the finished run.          *)
NewsOf(p, next) ==
  [badges |-> next.achievements \ p.achievements,
   rank   |-> {ComputeRank(next.totalXp)} \ {ComputeRank(p.totalXp)}]

(* Nothing is stored: a career without a field.                            *)
NotStored == << >>

(* Slip: a career of the first version is taken as it is.                  *)
LoadAsStored(stored) == IF stored = NotStored THEN EMPTY_PROGRESS ELSE stored
(* loadProgress: nothing stored is an empty career; a career of the first  *)
(* version lacks bests, streak and daily keys, and gets empty ones.        *)
LoadProgress(stored) ==
  [field \in DOMAIN EMPTY_PROGRESS |->
     IF field \in DOMAIN stored THEN stored[field] ELSE EMPTY_PROGRESS[field]]

-----------------------------------------------------------------------------
(* A log is the sequence of the missions of a career, oldest first, with   *)
(* the day each was recorded; those that were saved by the first version   *)
(* come first and have no day.                                             *)
Dated(log) == {i \in DOMAIN log : log[i].day # None}
OldOf(log) == SubSeq(log, 1, Cardinality(DOMAIN log \ Dated(log)))
LogOf(old) == [i \in DOMAIN old.runs |-> [run |-> old.runs[i], day |-> None]]

Runs(log)  == [i \in DOMAIN log |-> log[i].run]
XpSum(log) == XpTotal([i \in DOMAIN log |-> log[i].run.xp])

(* The history of a career: the last MAX_HISTORY missions, newest first.   *)
HistoryOf(log) ==
  LET n == IF Len(log) > MAX_HISTORY THEN MAX_HISTORY ELSE Len(log)
  IN  [i \in 1 .. n |-> log[Len(log) + 1 - i].run]

(* What the first version stored of a career: the XP of all its missions,  *)
(* the history and the achievements of then.                               *)
MissionRecords ==
  [scenario : Range(SCENARIO_DEFINITIONS), side : {"red", "blue"},
   difficulty : DOMAIN DIFFICULTIES, xp : Nat, flawless : BOOLEAN]
OtherIds ==
  {"first-mission", "red-recon", "blue-recon", "flawless", "operator-tier",
   "dual-perspective", "full-library", "apt-hunter", "daily-driver", "new-best"}
  \cup DOMAIN TrainingOps
AchievementIds == OtherIds \cup DOMAIN XpMarks \cup DOMAIN StreakMarks
ASSUME LegacyAssumption ==
  Legacy \subseteq [runs : Seq(MissionRecords), achievements : SUBSET AchievementIds]
Saved(old) ==
  [totalXp |-> XpSum(LogOf(old)), missions |-> HistoryOf(LogOf(old)),
   achievements |-> old.achievements]

ASSUME NoneAssumption == None \notin Nat

(* Every achievement has a name of its own.                                *)
ASSUME MarksAssumption ==
  /\ XpMarks \in [DOMAIN XpMarks -> Nat] /\ StreakMarks \in [DOMAIN StreakMarks -> Nat]
  /\ DOMAIN XpMarks \cap DOMAIN StreakMarks = {}
  /\ (DOMAIN XpMarks \cup DOMAIN StreakMarks) \cap OtherIds = {}

Init ==
  /\ mem = [t \in Tabs |-> EMPTY_PROGRESS]
  /\ phase = [t \in Tabs |-> "closed"]
  /\ unsaved = [t \in Tabs |-> FALSE]
  /\ day = Min(Days) /\ briefed = [t \in Tabs |-> Min(Days)]
  /\ \/ disk = NotStored /\ kept = <<>>
     \/ \E old \in Legacy : disk = Saved(old) /\ kept = LogOf(old)
  /\ played = [t \in Tabs |-> <<>>] /\ undisturbed = TRUE /\ recorded = 0

(* A page is loaded: the provider renders an empty career first.           *)
Mount(t) ==
  /\ phase[t] = "closed"
  /\ phase' = [phase EXCEPT ![t] = "mounted"]
  /\ mem' = [mem EXCEPT ![t] = EMPTY_PROGRESS]
  /\ played' = [played EXCEPT ![t] = <<>>]
  /\ unsaved' = [unsaved EXCEPT ![t] = TRUE]
  /\ briefed' = [briefed EXCEPT ![t] = day]
  /\ undisturbed' = (undisturbed /\ \A u \in Tabs : phase[u] = "closed")
  /\ UNCHANGED <<disk, day, kept, recorded>>

(* The mount effect.  No run can complete before it: every setter of the   *)
(* scenario page's result waits for an answer.                             *)
Hydrate(t) ==
  /\ phase[t] = "mounted"
  /\ phase' = [phase EXCEPT ![t] = "ready"]
  /\ mem' = [mem EXCEPT ![t] = LoadProgress(disk)]
  /\ played' = [played EXCEPT ![t] = kept]
  /\ unsaved' = [unsaved EXCEPT ![t] = TRUE]
  /\ UNCHANGED <<briefed, disk, day, kept, undisturbed, recorded>>

(* Slip: the persist effect does not wait for hydration.                   *)
MayPersistEarly(t) == phase[t] \in {"mounted", "ready"}
MayPersist(t) == phase[t] = "ready"

(* The persist effect; a full quota or private mode drops the write.       *)
Persist(t) ==
  /\ unsaved[t] /\ MayPersist(t)
  /\ unsaved' = [unsaved EXCEPT ![t] = FALSE]
  /\ \/ disk' = mem[t] /\ kept' = played[t]
     \/ UNCHANGED <<disk, kept>>
  /\ UNCHANGED <<mem, phase, briefed, day, played, undisturbed, recorded>>

MissionRecord(play, isDaily) ==
  [scenario |-> play.scenario, side |-> play.side, difficulty |-> play.difficulty,
   xp |-> EarnedXp(play, isDaily), flawless |-> AllComplete(play)]

(* A run is recorded when it completes, on whatever day that is; whether   *)
(* it counts as the Daily Challenge was decided when the page was briefed. *)
Record(t, play) ==
  /\ phase[t] = "ready" /\ recorded < MaxRecords /\ recorded' = recorded + 1
  /\ LET isDaily == IsDailyChallengeMatch(play, briefed[t])
         m == MissionRecord(play, isDaily)
         next == RecordMission(mem[t], m, isDaily, day)
     IN  /\ mem' = [mem EXCEPT ![t] = next]
         /\ played' = [played EXCEPT ![t] =
                         Append(@, [run |-> m, day |-> day, daily |-> isDaily,
                                    news |-> NewsOf(mem[t], next)])]
  /\ unsaved' = [unsaved EXCEPT ![t] = TRUE]
  /\ UNCHANGED <<phase, briefed, disk, day, kept, undisturbed>>

(* Another scenario, side or difficulty: the match is computed again.      *)
Brief(t) ==
  /\ phase[t] = "ready" /\ briefed[t] # day
  /\ briefed' = [briefed EXCEPT ![t] = day]
  /\ UNCHANGED <<mem, phase, unsaved, disk, day, played, kept, undisturbed,
                 recorded>>

(* Reset Career, confirmed on the profile page.                            *)
ResetProgress(t) ==
  /\ phase[t] = "ready" /\ mem[t] # EMPTY_PROGRESS
  /\ mem' = [mem EXCEPT ![t] = EMPTY_PROGRESS]
  /\ played' = [played EXCEPT ![t] = <<>>]
  /\ unsaved' = [unsaved EXCEPT ![t] = TRUE]
  /\ undisturbed' = FALSE
  /\ UNCHANGED <<phase, briefed, disk, day, kept, recorded>>

(* The tab is closed or reloaded; an effect that is due does not run.      *)
Close(t) ==
  /\ phase[t] # "closed"
  /\ phase' = [phase EXCEPT ![t] = "closed"]
  /\ mem' = [mem EXCEPT ![t] = EMPTY_PROGRESS]
  /\ played' = [played EXCEPT ![t] = <<>>]
  /\ unsaved' = [unsaved EXCEPT ![t] = FALSE]
  /\ briefed' = [briefed EXCEPT ![t] = Min(Days)]
  /\ UNCHANGED <<disk, day, kept, undisturbed, recorded>>

NextDay ==
  /\ day < Max(Days) /\ day' = Min({d \in Days : d > day})
  /\ UNCHANGED <<mem, phase, unsaved, briefed, disk, played, kept, undisturbed,
                 recorded>>
Next ==
  \/ \E t \in Tabs : Mount(t) \/ Hydrate(t) \/ Persist(t) \/ Brief(t)
                     \/ ResetProgress(t) \/ Close(t)
  \/ \E t \in Tabs, play \in Plays : Record(t, play)
  \/ NextDay

Spec == Init /\ [][Next]_vars

-----------------------------------------------------------------------------
(* Properties.                                                             *)
(* The longest block of consecutive days that ends on a day, and of all.   *)
BlockTo(days, last) ==
  Max({n \in 0 .. Cardinality(days) : (last - n + 1) .. last \subseteq days})
LongestBlock(days) == Max({0} \cup {BlockTo(days, d) : d \in days})

DaysPlayed(log) == {log[i].day : i \in Dated(log)}
DailyDays(log)  == {log[i].day : i \in {j \in Dated(log) : log[j].daily}}

(* Every career a tab has just read or changed, with its log; what is      *)
(* stored, and what a tab holds after that, is one of them.                *)
Careers == {<<mem[t], played[t]>> :
              t \in {u \in Tabs : phase[u] = "ready" /\ unsaved[u]}}

(* The state has its shape, and the lists their caps, also in a career     *)
(* that was saved by the first version of the code.                        *)
TypeOK ==
  /\ phase \in [Tabs -> {"closed", "mounted", "ready"}]
  /\ unsaved \in [Tabs -> BOOLEAN] /\ undisturbed \in BOOLEAN
  /\ day \in Days /\ briefed \in [Tabs -> Days]
  /\ \A c \in Careers : /\ DOMAIN c[1] = DOMAIN EMPTY_PROGRESS
                        /\ Len(c[1].missions) <= MAX_HISTORY
                        /\ Len(c[1].daily) <= MAX_DAILY_HISTORY

(* A career is one log of missions whatever tabs read and wrote it: its XP *)
(* is that of every mission ever recorded in it, its history the last      *)
(* MAX_HISTORY of them, newest first.                                      *)
HistoryIsLog ==
  \A c \in Careers : /\ c[1].totalXp = XpSum(c[2])
                     /\ c[1].missions = HistoryOf(c[2])

(* The streak is the block of consecutive days played that ends on the     *)
(* last day played, and its best the longest such block there ever was.    *)
StreakIsBlock ==
  \A c \in Careers :
    LET days == DaysPlayed(c[2])
        s    == c[1].streak
    IN  IF days = {} THEN s = EMPTY_PROGRESS.streak
        ELSE /\ s.last = Max(days)
             /\ s.current = BlockTo(days, s.last)
             /\ s.best = LongestBlock(days)

(* Mission i has more XP than all its predecessors, of which it has some.  *)
Surpasses(log, i) ==
  LET before == {j \in Dated(log) : j < i /\ Key(log[j].run) = Key(log[i].run)}
  IN  before # {} /\ \A j \in before : log[j].run.xp < log[i].run.xp
Surpassing(log) == {i \in Dated(log) : Surpasses(log, i)}

(* The personal best of a scenario and side is the most XP of any mission  *)
(* recorded there, though the history has long dropped it; a best was      *)
(* beaten as often as a mission surpassed every one before it.             *)
BestIsMax ==
  \A c \in Careers :
    LET log == c[2]
        On(k) == {i \in Dated(log) : Key(log[i].run) = k}
    IN  /\ DOMAIN c[1].bests = {Key(log[i].run) : i \in Dated(log)}
        /\ \A k \in DOMAIN c[1].bests :
              c[1].bests[k] = Max({log[i].run.xp : i \in On(k)})
        /\ c[1].beats = Cardinality(Surpassing(log))

(* The daily keys are the last days on which a daily run was recorded,     *)
(* each once and in order.                                                 *)
DailyKeysAreDays ==
  \A c \in Careers :
    LET days == DailyDays(c[2])
        keys == c[1].daily
    IN  /\ Range(keys) \subseteq days
        /\ \A i \in 2 .. Len(keys) : keys[i - 1] < keys[i]
        /\ \A d \in days \ Range(keys) :
              Len(keys) = MAX_DAILY_HISTORY /\ d < keys[1]

(* What a career says of days, the streak and the daily keys, is what the  *)
(* dates of all its missions say, although it keeps neither all missions   *)
(* nor all keys and tabs take it over from each other.                     *)
DaysAreCounted == StreakIsBlock /\ DailyKeysAreDays

(* The history that was kept after mission i.                              *)
KeptAfter(log, i) == Runs(SubSeq(log, Max({1, i + 1 - MAX_HISTORY}), i))

(* Whether the log, at some point, showed what an achievement asks for: an *)
(* op or a mission by MAX_HISTORY missions in a row, a mark by all of it.  *)
Earned(id, log) ==
  CASE id \in DOMAIN TrainingOps ->
         \E i \in Dated(log) : OpIsComplete(id, KeptAfter(log, i))
    [] id \in DOMAIN XpMarks -> XpSum(log) >= XpMarks[id]
    [] id \in DOMAIN StreakMarks -> LongestBlock(DaysPlayed(log)) >= StreakMarks[id]
    [] id = "daily-driver" -> DailyDays(log) # {}
    [] id = "apt-hunter" ->
         \E i \in Dated(log) :
           \E m \in Range(KeptAfter(log, i)) : m.scenario = "scn-corr-006"
    [] id = "new-best" -> Surpassing(log) # {}

(* Whether an achievement came with the old career the log began with.     *)
Inherited(id, log) ==
  \E old \in Legacy : OldOf(log) = LogOf(old) /\ id \in old.achievements

(* An achievement is held exactly when the log earned it at some time: it  *)
(* is never lost to the cap on the history or to a broken streak, and      *)
(* reading or migrating a career grants none.                              *)
BadgesAreEarned ==
  \A c \in Careers :
    \A id \in {"daily-driver", "apt-hunter", "new-best"}
             \cup DOMAIN TrainingOps \cup DOMAIN XpMarks \cup DOMAIN StreakMarks :
      /\ Dated(c[2]) # {} /\ Earned(id, c[2]) => id \in c[1].achievements
      /\ id \in c[1].achievements =>
           (Dated(c[2]) # {} /\ Earned(id, c[2])) \/ Inherited(id, c[2])

(* The banner of each run tells what is new: over a career each badge is   *)
(* announced once, each rank entered is announced once, and the rank the   *)
(* player card shows is the last one announced, or that of the career as   *)
(* the first version saved it.                                             *)
NewsOnce ==
  \A c \in Careers :
    LET log  == c[2]
        told == {i \in Dated(log) : log[i].news.rank # {}}
    IN  /\ \A i, j \in Dated(log) :
             i < j => log[i].news.badges \cap log[j].news.badges = {}
        /\ \A i, j \in told : i < j => log[i].news.rank # log[j].news.rank
        /\ {ComputeRank(c[1].totalXp)} =
             IF told = {} THEN {ComputeRank(XpSum(OldOf(log)))}
             ELSE log[Max(told)].news.rank

(* As long as one tab is open at a time and no career is reset, what is    *)
(* stored only grows: a page that is still empty never overwrites it,      *)
(* whenever the page is closed and whichever writes fail.                  *)
StoreGrows == [][undisturbed' => IsPrefix(kept, kept')]_vars
=============================================================================
