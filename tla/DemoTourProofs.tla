--------------------------- MODULE DemoTourProofs ---------------------------
(***************************************************************************)
(* The edits of the demo data keep the story of every incident readable,   *)
(* for any number of edits between two reloads.                            *)
(***************************************************************************)
EXTENDS DemoTour, FiniteSetTheorems, TLAPS

-----------------------------------------------------------------------------
(* The inductive invariant                                                 *)

Kinds   == {"event", "alert", "response", "status_change"}
Tags    == {"evt", "alert", "inc-a", "resp", "sc"}
Refs    == Tags \X Int
Entries == [ago : Int, kind : Kinds, ref : Refs]
Copies  == [status : Statuses, updated : Int, closed : Int,
            notes : Seq(Int), timeline : Seq(Entries)]

(* The entries go from the earliest to the latest, none is later than the  *)
(* last edit; no two have one id, and the number of a status change is not *)
(* above the number of entries, so that the next one is new.               *)
Ordered(story)   == \A i \in 2 .. Len(story) : story[i - 1].ago >= story[i].ago
Apart(story)     == \A i, j \in 1 .. Len(story) : story[i].ref = story[j].ref => i = j
Numbered(story)  == \A i \in 1 .. Len(story), k \in Int : story[i].ref = Sc(k) => k <= Len(story)
Until(story, t)  == \A i \in 1 .. Len(story) : story[i].ago >= t

(* The copy i of an incident after e edits of the data.                    *)
Fits(i, e) ==
  /\ i \in Copies
  /\ i.timeline # << >>
  /\ Ordered(i.timeline) /\ Apart(i.timeline) /\ Numbered(i.timeline)
  /\ Until(i.timeline, -e)
  /\ -e <= i.updated /\ i.updated <= i.timeline[Len(i.timeline)].ago
  /\ i.closed # Never <=> i.status = "closed"

TourInv ==
  /\ edits \in 0 .. MaxEdits
  /\ DOMAIN changed \subseteq DOMAIN MOCK_INCIDENTS
  /\ \A n \in DOMAIN MOCK_INCIDENTS : Fits(Incident(n), edits)

(* The story g is the story s with changes of status after it, all of them *)
(* later than the demo data.                                               *)
Continues(g, s) ==
  /\ Len(s) <= Len(g)
  /\ \A k \in 1 .. Len(s) : g[k] = s[k]
  /\ \A k \in Len(s) + 1 .. Len(g) : g[k].kind = "status_change" /\ g[k].ago < 0

(* An edit adds to what the demo data says of an incident, and a reload    *)
(* starts again from it: nothing of the data is ever rewritten.            *)
DataIsKept == \A n \in DOMAIN MOCK_INCIDENTS : Continues(Incident(n).timeline, Copied[n].timeline)

-----------------------------------------------------------------------------
(* The demo data                                                           *)

Inline(i) ==
  [status |-> i.status, updated |-> i.updated, closed |-> i.closed,
   notes |-> i.notes, timeline |-> i.timeline]

LEMMA EntryFits ==
  ASSUME NEW ago \in Int, NEW n \in Int
  PROVE  /\ Entry(ago, "event", Evt(n)) \in Entries
         /\ Entry(ago, "alert", Alert(n)) \in Entries
         /\ Entry(ago, "alert", OwnAlert(n)) \in Entries
         /\ Entry(ago, "response", Resp(n)) \in Entries
         /\ Entry(ago, "status_change", Sc(n)) \in Entries
  <1>1. /\ Evt(n) \in Refs /\ Alert(n) \in Refs /\ OwnAlert(n) \in Refs /\ Resp(n) \in Refs
        /\ Sc(n) \in Refs
    BY DEF Evt, Alert, OwnAlert, Resp, Sc, Refs, Tags
  <1> QED
    BY <1>1 DEF Entry, Entries, Kinds

LEMMA TimesAre ==
  ASSUME NEW s \in Seq(Entries)
  PROVE  \A k \in 1 .. Len(s) : s[k] \in Entries /\ s[k].ago \in Int
  <1>1. \A k \in 1 .. Len(s) : s[k] \in Entries
    OBVIOUS
  <1> QED
    BY <1>1 DEF Entries

(* A list of six at most, written out.                                     *)
LEMMA Lists ==
  ASSUME NEW S, NEW a \in S, NEW b \in S, NEW c \in S, NEW d \in S, NEW e \in S, NEW f \in S
  PROVE  /\ <<a>> \in Seq(S) /\ <<a, b>> \in Seq(S) /\ <<a, b, c>> \in Seq(S)
         /\ <<a, b, c, d>> \in Seq(S) /\ <<a, b, c, d, e>> \in Seq(S)
         /\ <<a, b, c, d, e, f>> \in Seq(S)
  OBVIOUS

LEMMA Fits1 == Fits(Inline(Incident1), 0)
  <1> DEFINE s == Incident1.timeline
  <1>1. s \in Seq(Entries) /\ Len(s) = 6
    BY EntryFits, Lists DEF Incident1
  <1>2. Ordered(s) /\ Until(s, 0)
    BY <1>1 DEF Incident1, Ordered, Until, Entry
  <1>3. Apart(s) /\ Numbered(s)
    BY <1>1, SMTT(20) DEF Incident1, Apart, Numbered, Entry, Evt, Alert, OwnAlert, Resp, Sc
  <1> QED
    BY <1>1, <1>2, <1>3 DEF Fits, Inline, Incident1, Copies, Statuses, Never, Entry

LEMMA Fits2 == Fits(Inline(Incident2), 0)
  <1> DEFINE s == Incident2.timeline
  <1>1. s \in Seq(Entries) /\ Len(s) = 4
    BY EntryFits, Lists DEF Incident2
  <1>2. Ordered(s) /\ Until(s, 0)
    BY <1>1 DEF Incident2, Ordered, Until, Entry
  <1>3. Apart(s) /\ Numbered(s)
    BY <1>1 DEF Incident2, Apart, Numbered, Entry, Evt, Alert, OwnAlert, Resp, Sc
  <1> QED
    BY <1>1, <1>2, <1>3 DEF Fits, Inline, Incident2, Copies, Statuses, Never, Entry

LEMMA Fits3 == Fits(Inline(Incident3), 0)
  <1> DEFINE s == Incident3.timeline
  <1>1. s \in Seq(Entries) /\ Len(s) = 6
    BY EntryFits, Lists DEF Incident3
  <1>2. Ordered(s) /\ Until(s, 0)
    BY <1>1 DEF Incident3, Ordered, Until, Entry
  <1>3. Apart(s) /\ Numbered(s)
    BY <1>1 DEF Incident3, Apart, Numbered, Entry, Evt, Alert, OwnAlert, Resp, Sc
  <1> QED
    BY <1>1, <1>2, <1>3 DEF Fits, Inline, Incident3, Copies, Statuses, Never, Entry

LEMMA Fits4 == Fits(Inline(Incident4), 0)
  <1> DEFINE s == Incident4.timeline
  <1>1. s \in Seq(Entries) /\ Len(s) = 4
    BY EntryFits, Lists DEF Incident4
  <1>2. Ordered(s) /\ Until(s, 0)
    BY <1>1 DEF Incident4, Ordered, Until, Entry
  <1>3. Apart(s) /\ Numbered(s)
    BY <1>1 DEF Incident4, Apart, Numbered, Entry, Evt, Alert, OwnAlert, Resp, Sc
  <1> QED
    BY <1>1, <1>2, <1>3 DEF Fits, Inline, Incident4, Copies, Statuses, Never, Entry

LEMMA Fits5 == Fits(Inline(Incident5), 0)
  <1> DEFINE s == Incident5.timeline
  <1>1. s \in Seq(Entries) /\ Len(s) = 4
    BY EntryFits, Lists DEF Incident5
  <1>2. Ordered(s) /\ Until(s, 0)
    BY <1>1 DEF Incident5, Ordered, Until, Entry
  <1>3. Apart(s) /\ Numbered(s)
    BY <1>1 DEF Incident5, Apart, Numbered, Entry, Evt, Alert, OwnAlert, Resp, Sc
  <1> QED
    BY <1>1, <1>2, <1>3 DEF Fits, Inline, Incident5, Copies, Statuses, Never, Entry

LEMMA Fits6 == Fits(Inline(Incident6), 0)
  <1> DEFINE s == Incident6.timeline
  <1>1. s \in Seq(Entries) /\ Len(s) = 5
    BY EntryFits, Lists DEF Incident6
  <1>2. Ordered(s) /\ Until(s, 0)
    BY <1>1 DEF Incident6, Ordered, Until, Entry
  <1>3. Apart(s) /\ Numbered(s)
    BY <1>1 DEF Incident6, Apart, Numbered, Entry, Evt, Alert, OwnAlert, Resp, Sc
  <1> QED
    BY <1>1, <1>2, <1>3 DEF Fits, Inline, Incident6, Copies, Statuses, Never, Entry

LEMMA Fits7 == Fits(Inline(Incident7), 0)
  <1> DEFINE s == Incident7.timeline
  <1>1. s \in Seq(Entries) /\ Len(s) = 4
    BY EntryFits, Lists DEF Incident7
  <1>2. Ordered(s) /\ Until(s, 0)
    BY <1>1 DEF Incident7, Ordered, Until, Entry
  <1>3. Apart(s) /\ Numbered(s)
    BY <1>1 DEF Incident7, Apart, Numbered, Entry, Evt, Alert, OwnAlert, Resp, Sc
  <1> QED
    BY <1>1, <1>2, <1>3 DEF Fits, Inline, Incident7, Copies, Statuses, Never, Entry

LEMMA Fits8 == Fits(Inline(Incident8), 0)
  <1> DEFINE s == Incident8.timeline
  <1>1. s \in Seq(Entries) /\ Len(s) = 4
    BY EntryFits, Lists DEF Incident8
  <1>2. Ordered(s) /\ Until(s, 0)
    BY <1>1 DEF Incident8, Ordered, Until, Entry
  <1>3. Apart(s) /\ Numbered(s)
    BY <1>1 DEF Incident8, Apart, Numbered, Entry, Evt, Alert, OwnAlert, Resp, Sc
  <1> QED
    BY <1>1, <1>2, <1>3 DEF Fits, Inline, Incident8, Copies, Statuses, Never, Entry

LEMMA Fits9 == Fits(Inline(Incident9), 0)
  <1> DEFINE s == Incident9.timeline
  <1>1. s \in Seq(Entries) /\ Len(s) = 3
    BY EntryFits, Lists DEF Incident9
  <1>2. Ordered(s) /\ Until(s, 0)
    BY <1>1 DEF Incident9, Ordered, Until, Entry
  <1>3. Apart(s) /\ Numbered(s)
    BY <1>1 DEF Incident9, Apart, Numbered, Entry, Evt, Alert, OwnAlert, Resp, Sc
  <1> QED
    BY <1>1, <1>2, <1>3 DEF Fits, Inline, Incident9, Copies, Statuses, Never, Entry

LEMMA Fits10 == Fits(Inline(Incident10), 0)
  <1> DEFINE s == Incident10.timeline
  <1>1. s \in Seq(Entries) /\ Len(s) = 3
    BY EntryFits, Lists DEF Incident10
  <1>2. Ordered(s) /\ Until(s, 0)
    BY <1>1 DEF Incident10, Ordered, Until, Entry
  <1>3. Apart(s) /\ Numbered(s)
    BY <1>1 DEF Incident10, Apart, Numbered, Entry, Evt, Alert, OwnAlert, Resp, Sc
  <1> QED
    BY <1>1, <1>2, <1>3 DEF Fits, Inline, Incident10, Copies, Statuses, Never, Entry

LEMMA Fits11 == Fits(Inline(Incident11), 0)
  <1> DEFINE s == Incident11.timeline
  <1>1. s \in Seq(Entries) /\ Len(s) = 3
    BY EntryFits, Lists DEF Incident11
  <1>2. Ordered(s) /\ Until(s, 0)
    BY <1>1 DEF Incident11, Ordered, Until, Entry
  <1>3. Apart(s) /\ Numbered(s)
    BY <1>1 DEF Incident11, Apart, Numbered, Entry, Evt, Alert, OwnAlert, Resp, Sc
  <1> QED
    BY <1>1, <1>2, <1>3 DEF Fits, Inline, Incident11, Copies, Statuses, Never, Entry

LEMMA Fits12 == Fits(Inline(Incident12), 0)
  <1> DEFINE s == Incident12.timeline
  <1>1. s \in Seq(Entries) /\ Len(s) = 3
    BY EntryFits, Lists DEF Incident12
  <1>2. Ordered(s) /\ Until(s, 0)
    BY <1>1 DEF Incident12, Ordered, Until, Entry
  <1>3. Apart(s) /\ Numbered(s)
    BY <1>1 DEF Incident12, Apart, Numbered, Entry, Evt, Alert, OwnAlert, Resp, Sc
  <1> QED
    BY <1>1, <1>2, <1>3 DEF Fits, Inline, Incident12, Copies, Statuses, Never, Entry

LEMMA Fits13 == Fits(Inline(Incident13), 0)
  <1> DEFINE s == Incident13.timeline
  <1>1. s \in Seq(Entries) /\ Len(s) = 3
    BY EntryFits, Lists DEF Incident13
  <1>2. Ordered(s) /\ Until(s, 0)
    BY <1>1 DEF Incident13, Ordered, Until, Entry
  <1>3. Apart(s) /\ Numbered(s)
    BY <1>1 DEF Incident13, Apart, Numbered, Entry, Evt, Alert, OwnAlert, Resp, Sc
  <1> QED
    BY <1>1, <1>2, <1>3 DEF Fits, Inline, Incident13, Copies, Statuses, Never, Entry

LEMMA Fits14 == Fits(Inline(Incident14), 0)
  <1> DEFINE s == Incident14.timeline
  <1>1. s \in Seq(Entries) /\ Len(s) = 2
    BY EntryFits, Lists DEF Incident14
  <1>2. Ordered(s) /\ Until(s, 0)
    BY <1>1 DEF Incident14, Ordered, Until, Entry
  <1>3. Apart(s) /\ Numbered(s)
    BY <1>1 DEF Incident14, Apart, Numbered, Entry, Evt, Alert, OwnAlert, Resp, Sc
  <1> QED
    BY <1>1, <1>2, <1>3 DEF Fits, Inline, Incident14, Copies, Statuses, Never, Entry

LEMMA Fits15 == Fits(Inline(Incident15), 0)
  <1> DEFINE s == Incident15.timeline
  <1>1. s \in Seq(Entries) /\ Len(s) = 2
    BY EntryFits, Lists DEF Incident15
  <1>2. Ordered(s) /\ Until(s, 0)
    BY <1>1 DEF Incident15, Ordered, Until, Entry
  <1>3. Apart(s) /\ Numbered(s)
    BY <1>1 DEF Incident15, Apart, Numbered, Entry, Evt, Alert, OwnAlert, Resp, Sc
  <1> QED
    BY <1>1, <1>2, <1>3 DEF Fits, Inline, Incident15, Copies, Statuses, Never, Entry

LEMMA Fits16 == Fits(Inline(Incident16), 0)
  <1> DEFINE s == Incident16.timeline
  <1>1. s \in Seq(Entries) /\ Len(s) = 1
    BY EntryFits, Lists DEF Incident16
  <1>2. Ordered(s) /\ Until(s, 0)
    BY <1>1 DEF Incident16, Ordered, Until, Entry
  <1>3. Apart(s) /\ Numbered(s)
    BY <1>1 DEF Incident16, Apart, Numbered, Entry, Evt, Alert, OwnAlert, Resp, Sc
  <1> QED
    BY <1>1, <1>2, <1>3 DEF Fits, Inline, Incident16, Copies, Statuses, Never, Entry

LEMMA DataFits == \A n \in DOMAIN MOCK_INCIDENTS : Fits(Copied[n], 0)
  <1>1. ASSUME NEW n \in 1 .. 16
        PROVE  Fits(Inline(INLINE_INCIDENTS[n]), 0)
    <2>1. CASE n \in 1 .. 8
      BY <2>1, Fits1, Fits2, Fits3, Fits4, Fits5, Fits6, Fits7, Fits8 DEF INLINE_INCIDENTS
    <2>2. CASE n \in 9 .. 16
      BY <2>2, Fits9, Fits10, Fits11, Fits12, Fits13, Fits14, Fits15, Fits16
         DEF INLINE_INCIDENTS
    <2> QED
      BY <2>1, <2>2
  <1>2. DOMAIN INLINE_INCIDENTS = 1 .. 16
    BY DEF INLINE_INCIDENTS
  <1>3. ASSUME NEW n \in 1 .. 16
        PROVE  Copied[n] = Inline(INLINE_INCIDENTS[n])
    <2> DEFINE i == INLINE_INCIDENTS[n]
               more == {r.id : r \in {q \in GenerateBaselineResponses : q.incident = i.id}}
               j == [i EXCEPT !.responses = @ \cup more]
    <2>1. MOCK_INCIDENTS[n] = j /\ DOMAIN MOCK_INCIDENTS = 1 .. 16
      BY <1>2, Zenon DEF MOCK_INCIDENTS
    <2>2. /\ j.status = i.status /\ j.updated = i.updated /\ j.closed = i.closed
          /\ j.notes = i.notes /\ j.timeline = i.timeline
      <3> HIDE DEF i, more
      <3> QED
        OBVIOUS
    <2> QED
      BY <2>1, <2>2 DEF Copied, Inline
  <1>4. DOMAIN MOCK_INCIDENTS = 1 .. 16
    BY <1>2 DEF MOCK_INCIDENTS
  <1> QED
    BY <1>1, <1>3, <1>4

-----------------------------------------------------------------------------
(* One edit                                                                *)

(* Incidents that are not edited fit as well after the next edit.          *)
LEMMA FitsLater ==
  ASSUME NEW e \in Nat, NEW i, Fits(i, e)
  PROVE  Fits(i, e + 1)
  <1>1. i.timeline \in Seq(Entries) /\ i.updated \in Int
    BY DEF Fits, Copies
  <1>2. \A k \in 1 .. Len(i.timeline) : i.timeline[k].ago \in Int
    BY <1>1, TimesAre
  <1>3. Until(i.timeline, -(e + 1))
    BY <1>1, <1>2 DEF Fits, Until
  <1> QED
    BY <1>1, <1>3 DEF Fits

(* The status graph of the demo data ends in "closed".                     *)
LEMMA Graph ==
  ASSUME NEW s \in Statuses, NEW t \in INCIDENT_STATUS_TRANSITIONS[s]
  PROVE  t \in Statuses /\ s # "closed"
  BY DEF Statuses, INCIDENT_STATUS_TRANSITIONS

(* A story that is told up to -e goes on with a later entry whose number   *)
(* is its place.                                                           *)
LEMMA StoryGoesOn ==
  ASSUME NEW e \in Nat, NEW s \in Seq(Entries), s # << >>, NEW t \in Int, t = -(e + 1),
         Ordered(s), Apart(s), Numbered(s), Until(s, -e)
  PROVE  LET g == Append(s, Entry(t, "status_change", Sc(Len(s) + 1))) IN
           /\ g \in Seq(Entries) /\ g # << >> /\ g[Len(g)].ago = t
           /\ Ordered(g) /\ Apart(g) /\ Numbered(g) /\ Until(g, t)
  <1> DEFINE m == Len(s)
             x == Entry(t, "status_change", Sc(m + 1))
             g == Append(s, x)
  <1>1. m \in Nat /\ x \in Entries /\ x.ago = t /\ x.ref = Sc(m + 1)
    <2>1. m \in Nat
      OBVIOUS
    <2>2. x \in Entries
      BY <2>1, EntryFits
    <2> QED
      BY <2>1, <2>2 DEF Entry
  <1>2. \A k \in 1 .. m : s[k].ago \in Int
    BY TimesAre
  <1> HIDE DEF x
  <1>3. /\ g \in Seq(Entries) /\ Len(g) = m + 1 /\ g[m + 1] = x
        /\ \A k \in 1 .. m : g[k] = s[k]
    BY <1>1
  <1> HIDE DEF g, m
  <1>4. Until(g, t)
    BY <1>1, <1>2, <1>3 DEF Until, m
  <1>5. Ordered(g)
    <2> SUFFICES ASSUME NEW i \in 2 .. Len(g)
                 PROVE  g[i - 1].ago >= g[i].ago
      BY DEF Ordered
    <2>1. CASE i \in 2 .. m
      BY <1>3, <2>1 DEF Ordered, m
    <2>2. CASE i = m + 1
      <3>1. s[m].ago >= -e /\ s[m].ago \in Int /\ g[i - 1] = s[m]
        BY <1>1, <1>2, <1>3, <2>2 DEF Until, m
      <3> QED
        BY <1>1, <1>3, <2>2, <3>1
    <2> QED
      BY <1>1, <1>3, <2>1, <2>2
  <1>6. \A k \in Int : Sc(m + 1) = Sc(k) => k = m + 1
    BY <1>1 DEF Sc
  <1>7. Apart(g)
    <2> SUFFICES ASSUME NEW i \in 1 .. Len(g), NEW j \in 1 .. Len(g), g[i].ref = g[j].ref
                 PROVE  i = j
      BY DEF Apart
    <2>1. CASE i \in 1 .. m /\ j \in 1 .. m
      BY <1>3, <2>1 DEF Apart, m
    <2>2. \A k \in 1 .. m : g[k].ref # Sc(m + 1)
      <3>1. ASSUME NEW k \in 1 .. m, s[k].ref = Sc(m + 1)
            PROVE  FALSE
        <4>1. m + 1 \in Int
          BY <1>1
        <4>2. m + 1 <= m
          BY <3>1, <4>1 DEF Numbered, m
        <4> QED
          BY <1>1, <4>2
      <3> QED
        BY <1>3, <3>1
    <2> QED
      BY <1>1, <1>3, <2>1, <2>2
  <1>8. Numbered(g)
    BY <1>1, <1>3, <1>6 DEF Numbered, m
  <1> QED
    BY <1>1, <1>3, <1>4, <1>5, <1>7, <1>8 DEF g, x, m

(* The incident i with its status changed.                                 *)
Moved(i, t, status) ==
  [i EXCEPT !.status = status, !.updated = t,
            !.closed = IF status = "closed" THEN t ELSE @,
            !.timeline = Append(@, Entry(t, "status_change", Sc(Len(@) + 1)))]

LEMMA MovedFits ==
  ASSUME NEW e \in Nat, NEW i, Fits(i, e), NEW status \in INCIDENT_STATUS_TRANSITIONS[i.status]
  PROVE  Fits(Moved(i, -(e + 1), status), e + 1)
  <1> DEFINE t == -(e + 1)
             s == i.timeline
             g == Append(s, Entry(t, "status_change", Sc(Len(s) + 1)))
             j == Moved(i, t, status)
  <1>1. /\ i \in Copies /\ s \in Seq(Entries) /\ s # << >> /\ i.status \in Statuses
        /\ i.closed # Never <=> i.status = "closed"
    BY DEF Fits, Copies
  <1>2. status \in Statuses /\ i.status # "closed"
    BY <1>1, Graph
  <1>3. t \in Int /\ t # Never /\ t <= t /\ -(e + 1) = t
    BY DEF Never
  <1>4. /\ g \in Seq(Entries) /\ g # << >> /\ g[Len(g)].ago = t
        /\ Ordered(g) /\ Apart(g) /\ Numbered(g) /\ Until(g, t)
    BY <1>1, <1>3, StoryGoesOn DEF Fits
  <1> HIDE DEF t, g
  <1>5. /\ j \in Copies /\ j.status = status /\ j.updated = t /\ j.timeline = g
        /\ j.closed = IF status = "closed" THEN t ELSE i.closed
    BY <1>1, <1>2, <1>3, <1>4 DEF Moved, Copies, g
  <1>6. j.closed # Never <=> j.status = "closed"
    BY <1>1, <1>2, <1>3, <1>5
  <1> HIDE DEF j
  <1>7. Fits(j, e + 1)
    BY <1>3, <1>4, <1>5, <1>6 DEF Fits
  <1> QED
    BY <1>7 DEF j, t

(* The incident i with a note.                                             *)
Noted(i, t) == [i EXCEPT !.notes = Append(@, t), !.updated = t]

LEMMA NotedFits ==
  ASSUME NEW e \in Nat, NEW i, Fits(i, e)
  PROVE  Fits(Noted(i, -(e + 1)), e + 1)
  <1> DEFINE t == -(e + 1)
             s == i.timeline
             j == Noted(i, t)
  <1>1. Fits(i, e + 1) /\ i \in Copies /\ i.notes \in Seq(Int) /\ s \in Seq(Entries) /\ s # << >>
    BY FitsLater DEF Fits, Copies
  <1>2. t \in Int /\ t <= t /\ Append(i.notes, t) \in Seq(Int)
    BY <1>1
  <1>3. t <= s[Len(s)].ago
    <2>1. Len(s) \in 1 .. Len(s)
      BY <1>1
    <2> QED
      BY <1>1, <2>1 DEF Fits, Until
  <1> HIDE DEF t
  <1>4. /\ j \in Copies /\ j.status = i.status /\ j.updated = t /\ j.timeline = s
        /\ j.closed = i.closed
    BY <1>1, <1>2 DEF Noted, Copies
  <1> HIDE DEF j
  <1>5. t = -(e + 1)
    BY DEF t
  <1>6. Fits(j, e + 1)
    BY <1>1, <1>2, <1>3, <1>4, <1>5 DEF Fits
  <1> QED
    BY <1>6 DEF j, t

(* What the tab holds after an edit of incident n.                         *)
LEMMA ChangedIncident ==
  ASSUME NEW n \in DOMAIN MOCK_INCIDENTS, NEW v, changed' = Replaced(n, v)
  PROVE  /\ DOMAIN changed' = {n} \cup DOMAIN changed
         /\ Incident(n)' = v
         /\ \A m \in DOMAIN MOCK_INCIDENTS \ {n} : Incident(m)' = Incident(m)
  <1>1. /\ DOMAIN changed' = {n} \cup DOMAIN changed
        /\ changed'[n] = v
        /\ \A m \in DOMAIN changed \ {n} : changed'[m] = changed[m]
    BY DEF Replaced
  <1> QED
    BY <1>1 DEF Incident

-----------------------------------------------------------------------------
(* Every step                                                              *)

LEMMA TourAtFirst == Init => TourInv
  <1> SUFFICES ASSUME Init
               PROVE  TourInv
    OBVIOUS
  <1>1. DOMAIN changed = {}
    BY DEF Init
  <1>2. \A n \in DOMAIN MOCK_INCIDENTS : Incident(n) = Copied[n]
    BY <1>1 DEF Incident
  <1> QED
    BY <1>1, <1>2, DataFits, TourAssumption DEF Init, TourInv

LEMMA NextKeepsTour == TourInv /\ [Next]_vars => TourInv'
  <1> SUFFICES ASSUME TourInv, [Next]_vars
               PROVE  TourInv'
    OBVIOUS
  <1> USE TourAssumption
  <1>1. edits \in Nat /\ \A n \in DOMAIN MOCK_INCIDENTS : Fits(Incident(n), edits)
    BY DEF TourInv
  <1>2. CASE UNCHANGED vars \/ Navigate \/ FollowLink
    <2>1. changed' = changed /\ edits' = edits
      BY <1>2 DEF vars, Navigate, FollowLink
    <2>2. \A n \in DOMAIN MOCK_INCIDENTS : Incident(n)' = Incident(n)
      BY <2>1 DEF Incident
    <2> QED
      BY <2>1, <2>2 DEF TourInv
  <1>3. ASSUME Edit, NEW n \in DOMAIN MOCK_INCIDENTS, NEW v, Fits(v, edits + 1),
               changed' = Replaced(n, v)
        PROVE  TourInv'
    <2>1. edits' = edits + 1 /\ edits' \in 0 .. MaxEdits
      BY <1>1, <1>3 DEF Edit
    <2>2. \A m \in DOMAIN MOCK_INCIDENTS : Fits(Incident(m), edits + 1)
      BY <1>1, FitsLater
    <2>3. \A m \in DOMAIN MOCK_INCIDENTS : Fits(Incident(m)', edits + 1)
      BY <1>3, <2>2, ChangedIncident
    <2> QED
      BY <1>3, <2>1, <2>3, ChangedIncident DEF TourInv
  <1>4. Edited \subseteq DOMAIN MOCK_INCIDENTS
    BY DEF Edited, FindMockIncident
  <1>5. CASE ChangeStatus
    <2>0. PICK n \in Edited : \E status \in INCIDENT_STATUS_TRANSITIONS[Incident(n).status] :
                                MutateIncidentStatus(n, status)
      BY <1>5 DEF ChangeStatus
    <2>1. PICK status \in INCIDENT_STATUS_TRANSITIONS[Incident(n).status] :
                 MutateIncidentStatus(n, status)
      BY <2>0
    <2>2. changed' = Replaced(n, Moved(Incident(n), Now, status))
      BY <2>1 DEF MutateIncidentStatus, Moved
    <2>3. Fits(Moved(Incident(n), Now, status), edits + 1)
      BY <1>1, <1>4, <2>1, MovedFits DEF Now
    <2> QED
      BY <1>3, <1>4, <1>5, <2>2, <2>3 DEF ChangeStatus
  <1>6. CASE AddNote
    <2>1. PICK n \in Edited : MutateIncidentNote(n)
      BY <1>6 DEF AddNote
    <2>2. changed' = Replaced(n, Noted(Incident(n), Now))
      BY <2>1 DEF MutateIncidentNote, Noted
    <2>3. Fits(Noted(Incident(n), Now), edits + 1)
      BY <1>1, <1>4, <2>1, NotedFits DEF Now
    <2> QED
      BY <1>3, <1>4, <1>6, <2>2, <2>3 DEF AddNote
  <1>7. CASE Reload
    <2>1. DOMAIN changed' = {} /\ edits' = 0
      BY <1>7 DEF Reload
    <2>2. \A n \in DOMAIN MOCK_INCIDENTS : Incident(n)' = Copied[n]
      BY <2>1 DEF Incident
    <2> QED
      BY <2>1, <2>2, DataFits DEF TourInv
  <1> QED
    BY <1>2, <1>5, <1>6, <1>7 DEF Next

(* However often and wherever a visitor edits the incidents, every copy of *)
(* an incident that the tab holds is well formed.                          *)
THEOREM TourInvariant == Spec => []TourInv
  BY TourAtFirst, NextKeepsTour, PTL DEF Spec

(* As many references as entries, if no two are the same.                  *)
LEMMA ApartMeansAll ==
  ASSUME NEW s \in Seq(Entries), Apart(s)
  PROVE  Cardinality({s[i].ref : i \in DOMAIN s}) = Len(s)
  <1> DEFINE n == Len(s)
             R == {s[i].ref : i \in DOMAIN s}
             f == [i \in 1 .. n |-> s[i].ref]
  <1>1. n \in Nat /\ DOMAIN s = 1 .. n
    OBVIOUS
  <1>2. \A i, j \in 1 .. n : f[i] = f[j] => i = j
    BY DEF Apart
  <1>3. \A r \in R : \E i \in 1 .. n : f[i] = r
    BY <1>1
  <1>4. f \in [1 .. n -> R]
    BY <1>1
  <1> HIDE DEF f, R, n
  <1>5. f \in Bijection(1 .. n, R)
    BY <1>2, <1>3, <1>4 DEF Bijection, Injection, Surjection, IsInjective
  <1>6. Cardinality(R) = n
    BY <1>1, <1>5, FS_CountingElements DEF ExistsBijection
  <1> QED
    BY <1>6 DEF R, n

(* The story of every incident reads in order, its entries have ids of     *)
(* their own, and its times agree with its status, in the demo data and    *)
(* after any number of edits.                                              *)
THEOREM StoriesStayInOrder == Spec => []StoriesInOrder
  <1>1. TourInv => StoriesInOrder
    <2> SUFFICES ASSUME TourInv, NEW n \in DOMAIN MOCK_INCIDENTS
                 PROVE  LET story == Incident(n).timeline IN
                          /\ \A i \in 2 .. Len(story) : story[i - 1].ago >= story[i].ago
                          /\ Cardinality({story[i].ref : i \in DOMAIN story}) = Len(story)
                          /\ Incident(n).updated <= story[Len(story)].ago
                          /\ Incident(n).closed # Never <=> Incident(n).status = "closed"
      BY DEF StoriesInOrder
    <2>1. Fits(Incident(n), edits) /\ Incident(n).timeline \in Seq(Entries)
      BY DEF TourInv, Fits, Copies
    <2> QED
      BY <2>1, ApartMeansAll DEF Fits, Ordered
  <1> QED
    BY <1>1, TourInvariant, PTL

-----------------------------------------------------------------------------
(* What the data says is kept                                              *)

LEMMA GoesOnContinues ==
  ASSUME NEW s \in Seq(Entries), NEW g \in Seq(Entries), Continues(g, s),
         NEW x \in Entries, x.kind = "status_change", x.ago < 0
  PROVE  Continues(Append(g, x), s)
  <1> DEFINE h == Append(g, x)
  <1>1. /\ Len(g) \in Nat /\ Len(s) \in Nat /\ Len(h) = Len(g) + 1 /\ h[Len(g) + 1] = x
        /\ \A k \in 1 .. Len(g) : h[k] = g[k]
    OBVIOUS
  <1> HIDE DEF h
  <1>2. \A k \in 1 .. Len(h) : k \in 1 .. Len(g) \/ k = Len(g) + 1
    BY <1>1
  <1>3. Continues(h, s)
    BY <1>1, <1>2 DEF Continues
  <1> QED
    BY <1>3 DEF h

LEMMA NextKeepsData ==
  ASSUME TourInv, DataIsKept, [Next]_vars
  PROVE  DataIsKept'
  <1>1. \A n \in DOMAIN MOCK_INCIDENTS :
          /\ Copied[n].timeline \in Seq(Entries) /\ Incident(n).timeline \in Seq(Entries)
          /\ Incident(n) \in Copies
    BY DataFits DEF TourInv, Fits, Copies
  <1>2. CASE UNCHANGED vars \/ Navigate \/ FollowLink
    <2>1. changed' = changed
      BY <1>2 DEF vars, Navigate, FollowLink
    <2>2. \A n \in DOMAIN MOCK_INCIDENTS : Incident(n)' = Incident(n)
      BY <2>1 DEF Incident
    <2> QED
      BY <2>2 DEF DataIsKept
  <1>3. ASSUME NEW n \in DOMAIN MOCK_INCIDENTS, NEW v,
               Continues(v.timeline, Copied[n].timeline), changed' = Replaced(n, v)
        PROVE  DataIsKept'
    BY <1>3, ChangedIncident DEF DataIsKept
  <1>4. Edited \subseteq DOMAIN MOCK_INCIDENTS
    BY DEF Edited, FindMockIncident
  <1>5. Now \in Int /\ Now < 0
    BY TourAssumption DEF Now, TourInv
  <1>6. CASE ChangeStatus
    <2>0. PICK n \in Edited : \E status \in INCIDENT_STATUS_TRANSITIONS[Incident(n).status] :
                                MutateIncidentStatus(n, status)
      BY <1>6 DEF ChangeStatus
    <2>1. PICK status \in INCIDENT_STATUS_TRANSITIONS[Incident(n).status] :
                 MutateIncidentStatus(n, status)
      BY <2>0
    <2> DEFINE v == Moved(Incident(n), Now, status)
               g == Incident(n).timeline
               x == Entry(Now, "status_change", Sc(Len(g) + 1))
    <2>2. changed' = Replaced(n, v)
      BY <2>1 DEF MutateIncidentStatus, Moved
    <2>3. g \in Seq(Entries) /\ n \in DOMAIN MOCK_INCIDENTS
      BY <1>1, <1>4
    <2>4. Len(g) + 1 \in Int
      BY <2>3
    <2>5. x \in Entries /\ x.kind = "status_change" /\ x.ago < 0
      BY <1>5, <2>4, EntryFits DEF Entry
    <2>6. v.timeline = Append(g, x)
      BY <1>1, <2>3 DEF Moved, Copies
    <2>7. Continues(v.timeline, Copied[n].timeline)
      BY <1>1, <2>3, <2>5, <2>6, GoesOnContinues DEF DataIsKept
    <2> QED
      BY <1>3, <2>2, <2>3, <2>7
  <1>7. CASE AddNote
    <2>1. PICK n \in Edited : MutateIncidentNote(n)
      BY <1>7 DEF AddNote
    <2>2. changed' = Replaced(n, Noted(Incident(n), Now))
      BY <2>1 DEF MutateIncidentNote, Noted
    <2>3. Noted(Incident(n), Now).timeline = Incident(n).timeline
      BY <1>1, <1>4 DEF Noted, Copies
    <2> QED
      BY <1>3, <1>4, <2>2, <2>3 DEF DataIsKept
  <1>8. CASE Reload
    <2>1. DOMAIN changed' = {}
      BY <1>8 DEF Reload
    <2>2. \A n \in DOMAIN MOCK_INCIDENTS : Incident(n)' = Copied[n]
      BY <2>1 DEF Incident
    <2> QED
      BY <1>1, <2>2 DEF DataIsKept, Continues
  <1> QED
    BY <1>2, <1>6, <1>7, <1>8 DEF Next

(* What the demo data tells of an incident stays the beginning of its      *)
(* story: edits add changes of status after it, and a reload drops them.   *)
THEOREM DataStays == Spec => []DataIsKept
  <1>1. Init => DataIsKept
    <2> SUFFICES ASSUME Init
                 PROVE  DataIsKept
      OBVIOUS
    <2>1. \A n \in DOMAIN MOCK_INCIDENTS : Incident(n) = Copied[n]
      BY DEF Init, Incident
    <2>2. \A n \in DOMAIN MOCK_INCIDENTS : Copied[n].timeline \in Seq(Entries)
      BY DataFits DEF Fits, Copies
    <2> QED
      BY <2>1, <2>2 DEF DataIsKept, Continues
  <1>2. TourInv /\ DataIsKept /\ [Next]_vars => DataIsKept'
    BY NextKeepsData
  <1> QED
    BY <1>1, <1>2, TourInvariant, PTL DEF Spec

=============================================================================
