--------------------------- MODULE EventBusProofs ---------------------------
(***************************************************************************)
(* Theorems about EventBus, for any channel size, jobs and connections.    *)
(*                                                                         *)
(* The notification.  The box is still worth one notification while the    *)
(* notifier is on its way to send one; and when one is due and no job is   *)
(* left, the notifier is on its way or the event of the last end waits.    *)
(*                                                                         *)
(* The page.  What it shows need not be right while events wait for it, so *)
(* the invariant is about what is waiting: the last event about a job says *)
(* what the job is; a job without an event is right in the view, or in the *)
(* snapshot under way, or an event of a batch waits that makes the page    *)
(* ask again.                                                              *)
(***************************************************************************)
EXTENDS EventBus, JobQueueProofs

-----------------------------------------------------------------------------
(* The inductive invariant.                                                *)

State == Status \cup {Absent}

\* The lists and the first of them are what every step speaks of by name.
USE DEF Answers, Lists

ChannelsTyped ==
    /\ DOMAIN channel = {"page", "notifier"}
    /\ channel["page"] \in Seq(Event)
    /\ channel["notifier"] \in Seq({"end", "other"})

AnswerType ==
    [Answers -> [on : BOOLEAN, jobs : [JobId -> State], left : SUBSET JobId,
                 spoilt : BOOLEAN, heals : BOOLEAN]]

PageTyped ==
    /\ stream \in {"closed", "subscribed", "live"}
    /\ view \in [JobId -> State]
    /\ refresh \in BOOLEAN /\ spoilt \in BOOLEAN
    /\ answer \in AnswerType

NoticesTyped ==
    /\ notify \in BOOLEAN /\ owed \in BOOLEAN
    /\ notifier \in {"idle", "counts", "sending", "disables", "tells"}
    /\ notices \in Nat /\ ticks \in Nat /\ stuck \in Nat
    /\ configured \in BOOLEAN

\* A notification may still be sent for the box ticked last, or for the one that could
\* not be switched off.
BoxIsWorthOne ==
    /\ notices <= ticks + stuck
    /\ notifier \in {"counts", "sending"} => notices < ticks + stuck
    /\ notify /\ notifier \in {"idle", "tells"} => notices < ticks + stuck

\* One that is due is on its way.
NoticeIsComing ==
    /\ owed => notify
    /\ owed /\ Active = {} =>
          \/ notifier \in {"counts", "sending", "disables"}
          \/ \E i \in DOMAIN channel["notifier"] : channel["notifier"][i] = "end"

C == channel["page"]

\* e tells the page what job j is; in c it does so at k for the last time.
About(e, j) == e.type \in {"status", "added", "removed"} /\ e.job = j

IsLast(c, k, j) ==
    /\ k \in DOMAIN c
    /\ About(c[k], j)
    /\ \A i \in DOMAIN c : i > k => ~About(c[i], j)

\* What waits in the channel ends with job j as it is.
SaysIt(c, s, j) == \A k \in DOMAIN c : IsLast(c, k, j) => c[k].status = s

\* An event for a new job, which the page ignores if it shows the job already.
AddsIt(c, s, f, j) == \A k \in DOMAIN c : IsLast(c, k, j) /\ c[k].type = "added" => f \in {Absent, s}

\* No event is about j.
Silent(c, j) == \A k \in DOMAIN c : ~About(c[k], j)

\* A page that shows j as f will then show it as s; coming says that it asks again.
WillBeRight(c, s, f, j, coming) ==
    SaysIt(c, s, j) /\ AddsIt(c, s, f, j) /\ (Silent(c, j) => f = s \/ coming)

BatchWaits(c) == \E k \in DOMAIN c : c[k].type = "jobs_added"

\* The event of a new job is the first about it.
AddedIsFirst(c) ==
    \A k \in DOMAIN c : c[k].type = "added" => \A i \in DOMAIN c : i < k => ~About(c[i], c[k].job)

\* The ids nobody has yet are not shown, and no event is about them.
OnlyIssuedShown ==
    /\ \A j \in JobId : j > lastId =>
          /\ view[j] = Absent
          /\ \A r \in Answers : answer[r].jobs[j] = Absent
          /\ Silent(C, j)
    /\ AddedIsFirst(C)

\* The page has a channel while its stream is open; a list asked for by an earlier
\* stream heals nothing.
StreamIsOpen ==
    /\ "page" \in subscribers <=> stream # "closed"
    /\ "notifier" \in subscribers
    /\ stream = "closed" => C = <<>>
    /\ stream = "subscribed" =>
          \A r \in Lists : answer[r].on /\ answer[r].heals => answer[r].spoilt
    /\ stream # "subscribed" => ~answer["init"].on

\* What is so of the events that wait, of the snapshots under way and of the view.
EventsAreRight ==
    stream # "closed" /\ ~spoilt => \A j \in JobId : SaysIt(C, status[j], j)

InitIsRight ==
    stream = "subscribed" /\ answer["init"].on /\ ~spoilt =>
        \A j \in JobId : WillBeRight(C, status[j], answer["init"].jobs[j], j, BatchWaits(C))

Heals(r) == answer[r].on /\ answer[r].heals /\ ~answer[r].spoilt

\* A list asked for by a page that had missed something is right too, as long as no event
\* waits that may be wrong, or another list will heal the page before.
ListIsRight ==
    \A r \in Lists :
        stream # "closed" /\ answer[r].on /\ ~answer[r].spoilt
        /\ (~spoilt \/ C = <<>> \/ \E q \in Lists : Heals(q)) =>
            \A j \in JobId : WillBeRight(C, status[j], answer[r].jobs[j], j, BatchWaits(C))

ViewWillBeRight ==
    stream = "live" /\ ~spoilt /\ (\A r \in Lists : ~answer[r].on) =>
        \A j \in JobId : WillBeRight(C, status[j], view[j], j, refresh \/ BatchWaits(C))

TypeParts == ChannelsTyped /\ PageTyped /\ NoticesTyped

PageParts ==
    OnlyIssuedShown /\ StreamIsOpen /\ EventsAreRight /\ InitIsRight /\ ListIsRight /\ ViewWillBeRight

EventIInv == QueueIInv /\ TypeParts /\ BoxIsWorthOne /\ NoticeIsComing /\ PageParts

-----------------------------------------------------------------------------
(* The queue of events a page works through.                               *)

\* The elements of a sequence with one event more.
LEMMA AppendFacts ==
    ASSUME NEW S, NEW c \in Seq(S), NEW e \in S
    PROVE  /\ Append(c, e) \in Seq(S)
           /\ DOMAIN Append(c, e) = DOMAIN c \cup {Len(c) + 1}
           /\ Len(c) + 1 \notin DOMAIN c
           /\ Append(c, e)[Len(c) + 1] = e
           /\ \A k \in DOMAIN c : k \in Nat /\ k < Len(c) + 1 /\ Append(c, e)[k] = c[k]
  OBVIOUS

\* The elements of a sequence without its head.
LEMMA TailFacts ==
    ASSUME NEW S, NEW c \in Seq(S), c # <<>>
    PROVE  /\ Tail(c) \in Seq(S)
           /\ 1 \in DOMAIN c /\ Head(c) = c[1] /\ Head(c) \in S
           /\ \A k \in DOMAIN Tail(c) : k \in Nat \ {0} /\ k + 1 \in DOMAIN c /\ Tail(c)[k] = c[k + 1]
           /\ \A k \in DOMAIN c : k \in Nat \ {0} /\ (k = 1 \/ k - 1 \in DOMAIN Tail(c))
  OBVIOUS

\* An event about another job, or about none, changes nothing for j.
LEMMA AppendOther ==
    ASSUME NEW c \in Seq(Event), NEW e \in Event, NEW j, ~About(e, j), NEW s, NEW f
    PROVE  /\ SaysIt(c, s, j) => SaysIt(Append(c, e), s, j)
           /\ AddsIt(c, s, f, j) => AddsIt(Append(c, e), s, f, j)
           /\ Silent(Append(c, e), j) <=> Silent(c, j)
  <1>1. \A k : IsLast(Append(c, e), k, j) => IsLast(c, k, j) /\ Append(c, e)[k] = c[k]
    BY AppendFacts DEF IsLast
  <1>2. Silent(Append(c, e), j) <=> Silent(c, j)
    BY AppendFacts DEF Silent
  <1> QED BY <1>1, <1>2 DEF SaysIt, AddsIt, IsLast

\* An event about j says what it is from then on.
LEMMA AppendAbout ==
    ASSUME NEW c \in Seq(Event), NEW e \in Event, NEW j, About(e, j), NEW f,
           e.type = "added" => f = Absent
    PROVE  /\ SaysIt(Append(c, e), e.status, j)
           /\ AddsIt(Append(c, e), e.status, f, j)
           /\ ~Silent(Append(c, e), j)
  <1>1. \A k : IsLast(Append(c, e), k, j) => Append(c, e)[k] = e
    BY AppendFacts DEF IsLast
  <1>2. \E k \in DOMAIN Append(c, e) : About(Append(c, e)[k], j)
    BY AppendFacts
  <1> QED BY <1>1, <1>2 DEF SaysIt, AddsIt, Silent

\* Without an event about j nothing is said of it.
LEMMA SilentSaysIt ==
    ASSUME NEW c, NEW j, Silent(c, j), NEW s, NEW f
    PROVE  SaysIt(c, s, j) /\ AddsIt(c, s, f, j)
  BY DEF SaysIt, AddsIt, Silent, IsLast

\* A batch that waits goes on waiting.
LEMMA AppendBatch ==
    ASSUME NEW c \in Seq(Event), NEW e \in Event
    PROVE  BatchWaits(Append(c, e)) <=> BatchWaits(c) \/ e.type = "jobs_added"
  BY AppendFacts DEF BatchWaits

\* The first event is taken: f shows what it says.
LEMMA TailRight ==
    ASSUME NEW c \in Seq(Event), c # <<>>, AddedIsFirst(c), NEW j, NEW s, NEW f, NEW g,
           ~About(c[1], j) => g = f,
           About(c[1], j) => g = IF c[1].type = "added" /\ f # Absent THEN f ELSE c[1].status,
           SaysIt(c, s, j), AddsIt(c, s, f, j)
    PROVE  /\ SaysIt(Tail(c), s, j) /\ AddsIt(Tail(c), s, g, j)
           /\ Silent(Tail(c), j) => (Silent(c, j) /\ g = f) \/ g = s
  <1>1. \A k : IsLast(Tail(c), k, j) => IsLast(c, k + 1, j) /\ Tail(c)[k] = c[k + 1] /\ k > 0
    <2> SUFFICES ASSUME NEW k, IsLast(Tail(c), k, j)
                 PROVE  IsLast(c, k + 1, j) /\ Tail(c)[k] = c[k + 1] /\ k > 0
      OBVIOUS
    <2>1. k \in Nat \ {0} /\ k + 1 \in DOMAIN c /\ Tail(c)[k] = c[k + 1] /\ About(c[k + 1], j)
      BY TailFacts DEF IsLast
    <2>2. ASSUME NEW i \in DOMAIN c, i > k + 1 PROVE ~About(c[i], j)
      <3>1. i - 1 \in DOMAIN Tail(c) /\ i - 1 > k /\ Tail(c)[i - 1] = c[i]
        BY <2>1, <2>2, TailFacts
      <3> QED BY <3>1 DEF IsLast
    <2> QED BY <2>1, <2>2 DEF IsLast
  <1>2. SaysIt(Tail(c), s, j)
    BY <1>1 DEF SaysIt, IsLast
  <1>3. ASSUME About(c[1], j), NEW k, IsLast(Tail(c), k, j) PROVE Tail(c)[k].type # "added"
    <2>1. k + 1 \in DOMAIN c /\ 1 \in DOMAIN c /\ 1 < k + 1 /\ c[k + 1].job = j
      BY <1>1, <1>3, TailFacts DEF IsLast, About
    <2> QED BY <2>1, <1>1, <1>3 DEF AddedIsFirst
  <1>4. AddsIt(Tail(c), s, g, j)
    <2> SUFFICES ASSUME NEW k, IsLast(Tail(c), k, j), Tail(c)[k].type = "added"
                 PROVE  g \in {Absent, s}
      BY DEF AddsIt
    <2>1. g = f
      BY <1>3
    <2> QED BY <2>1, <1>1 DEF AddsIt, IsLast
  <1>5. ASSUME Silent(Tail(c), j) PROVE (Silent(c, j) /\ g = f) \/ g = s
    <2>1. \A k \in DOMAIN c : k = 1 \/ ~About(c[k], j)
      <3> SUFFICES ASSUME NEW k \in DOMAIN c, k # 1 PROVE ~About(c[k], j)
        OBVIOUS
      <3>1. k - 1 \in DOMAIN Tail(c) /\ Tail(c)[k - 1] = c[k]
        BY TailFacts
      <3> QED BY <3>1, <1>5 DEF Silent
    <2>2. CASE ~About(c[1], j)
      BY <2>1, <2>2 DEF Silent
    <2>3. CASE About(c[1], j)
      <3>1. IsLast(c, 1, j)
        BY <2>1, <2>3, TailFacts DEF IsLast
      <3> QED BY <3>1, <2>3 DEF SaysIt, AddsIt, IsLast
    <2> QED BY <2>2, <2>3
  <1> QED BY <1>2, <1>4, <1>5

\* What else the page knows of a channel it takes an event from.
LEMMA TailKeeps ==
    ASSUME NEW c \in Seq(Event), c # <<>>
    PROVE  /\ \A j : Silent(c, j) => Silent(Tail(c), j)
           /\ AddedIsFirst(c) => AddedIsFirst(Tail(c))
           /\ BatchWaits(c) => BatchWaits(Tail(c)) \/ c[1].type = "jobs_added"
  <1>1. \A j : Silent(c, j) => Silent(Tail(c), j)
    BY TailFacts DEF Silent
  <1>2. ASSUME AddedIsFirst(c) PROVE AddedIsFirst(Tail(c))
    <2> SUFFICES ASSUME NEW k \in DOMAIN Tail(c), Tail(c)[k].type = "added",
                        NEW i \in DOMAIN Tail(c), i < k
                 PROVE  ~About(Tail(c)[i], Tail(c)[k].job)
      BY DEF AddedIsFirst
    <2>1. k + 1 \in DOMAIN c /\ i + 1 \in DOMAIN c /\ i + 1 < k + 1
          /\ Tail(c)[k] = c[k + 1] /\ Tail(c)[i] = c[i + 1]
      BY TailFacts
    <2> QED BY <2>1, <1>2 DEF AddedIsFirst
  <1>3. ASSUME BatchWaits(c) PROVE BatchWaits(Tail(c)) \/ c[1].type = "jobs_added"
    <2>1. PICK k \in DOMAIN c : c[k].type = "jobs_added"
      BY <1>3 DEF BatchWaits
    <2>2. k # 1 => k - 1 \in DOMAIN Tail(c) /\ Tail(c)[k - 1] = c[k]
      BY TailFacts
    <2> QED BY <2>1, <2>2 DEF BatchWaits
  <1> QED BY <1>1, <1>2, <1>3

\* An event for a new job is the first about it when none is about it yet.
LEMMA AppendFirst ==
    ASSUME NEW c \in Seq(Event), AddedIsFirst(c), NEW e \in Event,
           e.type = "added" => Silent(c, e.job)
    PROVE  AddedIsFirst(Append(c, e))
  BY AppendFacts DEF AddedIsFirst, Silent

-----------------------------------------------------------------------------
(* What a broadcast does to the page.                                      *)

\* A method of the queue leaves the page and the answers to it alone.
SamePage ==
    /\ UNCHANGED <<subscribers, page>>
    /\ DOMAIN channel' = {"page", "notifier"}
    /\ answer' \in AnswerType
    /\ spoilt' \in BOOLEAN
    /\ \A r \in Answers :
          /\ answer'[r].on = answer[r].on /\ answer'[r].jobs = answer[r].jobs
          /\ answer'[r].heals = answer[r].heals
          /\ answer[r].spoilt => answer'[r].spoilt

\* Its event did not fit, or there was none.
Misses ==
    /\ C' = C
    /\ stream # "closed" => spoilt' /\ \A r \in Lists : answer[r].on => answer'[r].spoilt

\* Its event e waits for the page.
Gets(e) ==
    /\ C' = Append(C, e)
    /\ spoilt' = spoilt
    /\ \A r \in Lists : answer'[r].spoilt = answer[r].spoilt

\* The event e tells what the step does.
Means(e) ==
    \A j \in JobId :
        IF About(e, j)
        THEN e.status = status'[j] /\ j <= lastId' /\ (e.type = "added" => j > lastId)
        ELSE status'[j] = status[j] \/ (e.type = "jobs_added" /\ j > lastId)

\* What broadcast does to the page, and to the list under way.
LEMMA BroadcastToPage ==
    ASSUME TypeParts, StreamIsOpen, NEW type, NEW j, NEW s, NEW unseen,
           UNCHANGED <<subscribers, page>>, Broadcast(type, j, s, unseen),
           [type |-> type, job |-> j, status |-> s] \in Event
    PROVE  /\ SamePage
           /\ Misses \/ (stream # "closed" /\ Gets([type |-> type, job |-> j, status |-> s]))
  <1>1. /\ DOMAIN channel' = {"page", "notifier"}
        /\ C' = IF HasRoom("page") THEN Append(C, [type |-> type, job |-> j, status |-> s]) ELSE C
    BY DEF Broadcast, TypeParts, ChannelsTyped, C, Received
  <1>2. PICK missed \in BOOLEAN :
            missed = ("page" \in subscribers /\ ~HasRoom("page")) /\ Spoils(missed)
    BY DEF Broadcast
  <1>3. /\ answer' \in AnswerType
        /\ spoilt' \in BOOLEAN
        /\ \A r \in Answers :
              /\ answer'[r].on = answer[r].on /\ answer'[r].jobs = answer[r].jobs
              /\ answer'[r].heals = answer[r].heals
              /\ answer[r].spoilt => answer'[r].spoilt
        /\ missed => spoilt' /\ \A r \in Lists : answer[r].on => answer'[r].spoilt
        /\ ~missed => spoilt' = spoilt /\ \A r \in Lists : answer'[r].spoilt = answer[r].spoilt
    BY <1>2 DEF Spoils, Overtaken, TypeParts, PageTyped, AnswerType
  <1>4. ~missed /\ ~HasRoom("page") => stream = "closed"
    BY <1>2 DEF StreamIsOpen
  <1>5. HasRoom("page") => ~missed /\ stream # "closed"
    BY <1>2 DEF HasRoom, StreamIsOpen
  <1>6. CASE HasRoom("page")
    BY <1>1, <1>3, <1>5, <1>6 DEF SamePage, Gets
  <1>7. CASE ~HasRoom("page")
    BY <1>1, <1>3, <1>4, <1>7 DEF SamePage, Misses
  <1> QED BY <1>6, <1>7

\* A page that missed something has its view spoilt and the list under way too.
LEMMA MissedStep ==
    ASSUME QueueIInv, TypeParts, PageParts, SamePage, Misses,
           lastId \in Nat, lastId' \in Nat, lastId <= lastId'
    PROVE  PageParts'
  <1>1. OnlyIssuedShown'
    BY DEF PageParts, OnlyIssuedShown, SamePage, Misses, page, JobId
  <1>2. StreamIsOpen'
    BY DEF PageParts, StreamIsOpen, SamePage, Misses, page
  <1>3. EventsAreRight' /\ InitIsRight' /\ ListIsRight' /\ ViewWillBeRight'
    BY DEF EventsAreRight, InitIsRight, ListIsRight, Heals, ViewWillBeRight, SamePage, Misses, page
  <1> QED BY <1>1, <1>2, <1>3 DEF PageParts

\* A page that gets the event of the step will be right if it would have been.
LEMMA GotStep ==
    ASSUME TypeParts, PageParts, SamePage, NEW e \in Event, Gets(e), Means(e), stream # "closed",
           lastId \in Nat, lastId' \in Nat, lastId <= lastId',
           e.type = "added" => e.job \in JobId
    PROVE  PageParts'
  <1>0. /\ C \in Seq(Event) /\ C' = Append(C, e)
        /\ BatchWaits(C') <=> BatchWaits(C) \/ e.type = "jobs_added"
        /\ UNCHANGED <<stream, view, refresh, subscribers>>
    BY AppendBatch DEF TypeParts, ChannelsTyped, C, Gets, SamePage, page
  <1>1. ASSUME NEW j \in JobId, j > lastId, ~About(e, j) PROVE Silent(C', j)
    BY <1>0, <1>1, AppendOther DEF PageParts, OnlyIssuedShown
  <1>2. OnlyIssuedShown'
    <2>1. AddedIsFirst(C')
      <3>1. e.type = "added" => Silent(C, e.job)
        <4> SUFFICES ASSUME e.type = "added" PROVE Silent(C, e.job)
          OBVIOUS
        <4>1. e.job \in JobId /\ About(e, e.job)
          BY DEF About
        <4>2. e.job > lastId
          BY <4>1 DEF Means
        <4> QED BY <4>1, <4>2 DEF PageParts, OnlyIssuedShown
      <3> QED BY <3>1, <1>0, AppendFirst DEF PageParts, OnlyIssuedShown
    <2>2. ASSUME NEW j \in JobId, j > lastId' PROVE Silent(C', j)
      <3>1. j > lastId
        BY <2>2 DEF JobId
      <3>2. ~About(e, j)
        BY <2>2 DEF Means, JobId
      <3> QED BY <3>1, <3>2, <1>1
    <2>3. ASSUME NEW j \in JobId, j > lastId'
          PROVE  view'[j] = Absent /\ \A r \in Answers : answer'[r].jobs[j] = Absent
      BY <2>3, <1>0 DEF PageParts, OnlyIssuedShown, SamePage, JobId
    <2> QED BY <2>1, <2>2, <2>3 DEF OnlyIssuedShown
  <1>3. StreamIsOpen'
    BY <1>0 DEF PageParts, StreamIsOpen, SamePage
  <1>4. ASSUME NEW j \in JobId, SaysIt(C, status[j], j) PROVE SaysIt(C', status'[j], j)
    <2>1. CASE About(e, j)
      <3>1. e.status = status'[j]
        BY <2>1 DEF Means
      <3> QED BY <3>1, <2>1, <1>0, AppendAbout
    <2>2. CASE ~About(e, j) /\ status'[j] = status[j]
      BY <2>2, <1>4, <1>0, AppendOther
    <2>3. CASE ~About(e, j) /\ j > lastId
      BY <2>3, <1>1, SilentSaysIt
    <2> QED BY <2>1, <2>2, <2>3 DEF Means
  <1>5. ASSUME NEW j \in JobId, NEW f, NEW x \in BOOLEAN, f = Absent \/ j <= lastId,
               WillBeRight(C, status[j], f, j, x \/ BatchWaits(C))
        PROVE  WillBeRight(C', status'[j], f, j, x \/ BatchWaits(C'))
    <2>1. CASE About(e, j)
      <3>1. e.status = status'[j] /\ (e.type = "added" => f = Absent)
        <4>1. j \in Nat
          BY DEF JobId
        <4> QED BY <4>1, <2>1, <1>5 DEF Means
      <3> QED BY <3>1, <2>1, <1>0, AppendAbout DEF WillBeRight
    <2>2. CASE ~About(e, j) /\ status'[j] = status[j]
      BY <2>2, <1>5, <1>0, AppendOther DEF WillBeRight
    <2>3. CASE ~About(e, j) /\ e.type = "jobs_added" /\ j > lastId
      BY <2>3, <1>0, <1>1, SilentSaysIt DEF WillBeRight
    <2> QED BY <2>1, <2>2, <2>3 DEF Means
  <1>6. EventsAreRight'
    BY <1>0, <1>4 DEF PageParts, EventsAreRight, Gets
  <1>7. InitIsRight'
    <2> SUFFICES ASSUME stream = "subscribed", answer["init"].on, ~spoilt, NEW j \in JobId
                 PROVE  WillBeRight(C', status'[j], answer["init"].jobs[j], j,
                                    FALSE \/ BatchWaits(C'))
      BY <1>0 DEF InitIsRight, Gets, SamePage, WillBeRight
    <2>1. WillBeRight(C, status[j], answer["init"].jobs[j], j, FALSE \/ BatchWaits(C))
      BY DEF PageParts, InitIsRight, WillBeRight
    <2>2. answer["init"].jobs[j] = Absent \/ j <= lastId
      BY DEF PageParts, OnlyIssuedShown, JobId
    <2> QED BY <2>1, <2>2, <1>5
  <1>8. ListIsRight'
    <2>0. \A r \in Lists :
             /\ answer'[r].on = answer[r].on /\ answer'[r].jobs = answer[r].jobs
             /\ answer'[r].spoilt = answer[r].spoilt /\ Heals(r)' = Heals(r)
      BY DEF Gets, SamePage, Answers, Heals
    <2>9. C' # <<>>
      BY <1>0, AppendFacts
    <2> SUFFICES ASSUME NEW r \in Lists, answer[r].on, ~answer[r].spoilt,
                        ~spoilt \/ \E q \in Lists : Heals(q), NEW j \in JobId
                 PROVE  WillBeRight(C', status'[j], answer[r].jobs[j], j,
                                    FALSE \/ BatchWaits(C'))
      BY <1>0, <2>0, <2>9 DEF ListIsRight, Heals, Gets, WillBeRight
    <2>1. WillBeRight(C, status[j], answer[r].jobs[j], j, FALSE \/ BatchWaits(C))
      BY DEF PageParts, ListIsRight, Heals, WillBeRight
    <2>2. answer[r].jobs[j] = Absent \/ j <= lastId
      BY DEF PageParts, OnlyIssuedShown, JobId
    <2> QED BY <2>1, <2>2, <1>5
  <1>9. ViewWillBeRight'
    <2> SUFFICES ASSUME stream = "live", ~spoilt, \A r \in Lists : ~answer[r].on, NEW j \in JobId
                 PROVE  WillBeRight(C', status'[j], view[j], j, refresh \/ BatchWaits(C'))
      BY <1>0 DEF ViewWillBeRight, Gets, SamePage
    <2>1. WillBeRight(C, status[j], view[j], j, refresh \/ BatchWaits(C))
      BY DEF PageParts, ViewWillBeRight
    <2>2. view[j] = Absent \/ j <= lastId
      BY DEF PageParts, OnlyIssuedShown, JobId
    <2>3. refresh \in BOOLEAN
      BY DEF TypeParts, PageTyped, AnswerType
    <2> QED BY <2>1, <2>2, <2>3, <1>5
  <1> QED BY <1>2, <1>3, <1>6, <1>7, <1>8, <1>9 DEF PageParts

\* A notification that becomes due at the end of the last job waits with its event.
LEMMA OwedStep ==
    ASSUME TypeParts, NoticeIsComing, notify' = notify,
           notifier \in {"counts", "sending", "disables"} => notifier' = notifier,
           NEW type, NEW j, NEW s, NEW unseen, Broadcast(type, j, s, unseen),
           Active' = {} /\ Active # {} => unseen \/ IsEnd(type, s)
    PROVE  /\ NoticeIsComing' /\ owed' \in BOOLEAN
           /\ channel'["notifier"] \in Seq({"end", "other"})
  <1> DEFINE N == channel["notifier"]
             e == IF IsEnd(type, s) THEN "end" ELSE "other"
  <1>1. N \in Seq({"end", "other"}) /\ e \in {"end", "other"}
    BY DEF TypeParts, ChannelsTyped
  <1>2. N' = IF HasRoom("notifier") THEN Append(N, e) ELSE N
    BY DEF Broadcast, TypeParts, ChannelsTyped, Received
  <1>3. N' \in Seq({"end", "other"})
    BY <1>1, <1>2
  <1>4. owed' = /\ notify
                /\ owed \/ Active' # {}
                /\ Active' = {} => ~(unseen \/ ~HasRoom("notifier"))
    BY DEF Broadcast, Owes
  <1>5. owed' \in BOOLEAN /\ (owed' => notify')
    BY <1>4 DEF TypeParts, NoticesTyped
  <1>6. ASSUME owed', Active' = {}
        PROVE  \/ notifier' \in {"counts", "sending", "disables"}
               \/ \E i \in DOMAIN N' : N'[i] = "end"
    <2>1. owed /\ ~unseen /\ HasRoom("notifier") /\ N' = Append(N, e)
      BY <1>2, <1>4, <1>6
    <2> HIDE DEF N, e
    <2>2. CASE Active = {}
      <3>1. CASE notifier \in {"counts", "sending", "disables"}
        BY <3>1
      <3>2. CASE \E i \in DOMAIN N : N[i] = "end"
        BY <3>2, <2>1, <1>1, AppendFacts
      <3> QED BY <2>1, <2>2, <3>1, <3>2 DEF NoticeIsComing, N
    <2>3. CASE Active # {}
      <3>1. e = "end"
        BY <2>1, <2>3, <1>6 DEF e
      <3> QED BY <3>1, <2>1, <1>1, AppendFacts
    <2> QED BY <2>2, <2>3
  <1> QED BY <1>3, <1>5, <1>6 DEF NoticeIsComing

\* A method of the queue and its event.
LEMMA AnnouncesStep ==
    ASSUME EventIInv, QueueIInv', lastId <= lastId',
           NEW type, NEW j, NEW s, NEW unseen, Announces(type, j, s, unseen),
           [type |-> type, job |-> j, status |-> s] \in Event,
           Means([type |-> type, job |-> j, status |-> s]),
           type = "added" => j \in JobId,
           Active' = {} /\ Active # {} => unseen \/ IsEnd(type, s)
    PROVE  EventIInv'
  <1> DEFINE e == [type |-> type, job |-> j, status |-> s]
  <1>0. TypeParts /\ PageParts /\ StreamIsOpen /\ NoticeIsComing /\ lastId \in Nat /\ lastId' \in Nat
    BY MaxJobsAssumption DEF EventIInv, PageParts, QueueIInv, QueueTypeOK
  <1>1. Broadcast(type, j, s, unseen) /\ UNCHANGED <<subscribers, page, note>>
    BY DEF Announces
  <1>2. SamePage /\ (Misses \/ (stream # "closed" /\ Gets(e)))
    BY <1>0, <1>1, BroadcastToPage
  <1>3. PageParts'
    <2>1. CASE Misses
      BY <2>1, <1>0, <1>2, MissedStep DEF EventIInv
    <2>2. CASE stream # "closed" /\ Gets(e)
      <3>1. e \in Event /\ Means(e) /\ (e.type = "added" => e.job \in JobId)
        OBVIOUS
      <3> HIDE DEF e
      <3> QED BY <3>1, <2>2, <1>0, <1>2, GotStep
    <2> QED BY <1>2, <2>1, <2>2
  <1>4. NoticeIsComing' /\ owed' \in BOOLEAN /\ channel'["notifier"] \in Seq({"end", "other"})
    BY <1>0, <1>1, OwedStep DEF note
  <1>5. channel'["page"] \in Seq(Event)
    <2>1. CASE Misses
      BY <2>1, <1>0 DEF TypeParts, ChannelsTyped, Misses, C
    <2>2. CASE Gets(e)
      BY <2>2, <1>0 DEF TypeParts, ChannelsTyped, Gets, C
    <2> QED BY <1>2, <2>1, <2>2
  <1>6. ChannelsTyped'
    BY <1>2, <1>4, <1>5 DEF ChannelsTyped, SamePage
  <1>7. PageTyped'
    BY <1>0, <1>2 DEF TypeParts, PageTyped, AnswerType, SamePage, page
  <1>8. NoticesTyped' /\ BoxIsWorthOne'
    BY <1>0, <1>1, <1>4 DEF EventIInv, TypeParts, NoticesTyped, BoxIsWorthOne, note
  <1> QED BY <1>3, <1>4, <1>6, <1>7, <1>8 DEF EventIInv, TypeParts

-----------------------------------------------------------------------------
(* The methods of the queue.                                               *)

\* Each of them is a step of the queue, after which its invariant holds.
LEMMA WorksOnQueue ==
    ASSUME QueueIInv, Works
    PROVE  [QueueNext]_qvars /\ QueueIInv' /\ lastId <= lastId'
  <1>0. lastId \in 0 .. MaxJobs
    BY DEF QueueIInv, QueueTypeOK
  <1>1. CASE Add
    <2>1. PICK skipped \in SUBSET NewIds(1) : AddJobs(1, skipped)
      BY <1>1 DEF Add
    <2>2. 1 \in 1 .. MaxJobs
      BY <1>0, <2>1, MaxJobsAssumption DEF AddJobs
    <2>3. QueueNext
      BY <2>1, <2>2 DEF QueueNext
    <2> QED BY <1>0, <2>1, <2>3, QueueNextIInv, MaxJobsAssumption DEF AddJobs
  <1>2. CASE AddMultiple
    <2>1. PICK n \in 1 .. MaxJobs : \E skipped \in SUBSET NewIds(n) : AddJobs(n, skipped)
      BY <1>2 DEF AddMultiple
    <2>2. QueueNext
      BY <2>1 DEF QueueNext
    <2> QED BY <1>0, <2>1, <2>2, QueueNextIInv, MaxJobsAssumption DEF AddJobs
  <1>3. ASSUME NEW j \in JobId, ChangesStatus(j)
        PROVE  [QueueNext]_qvars /\ QueueIInv' /\ lastId <= lastId'
    <2>1. QueueNext
      BY <1>3 DEF ChangesStatus, QueueNext
    <2>2. lastId' = lastId
      BY <1>3 DEF ChangesStatus, StartJob, CompleteJob, FailJob, SkipJob, CancelJob, Requeue
    <2> QED BY <1>0, <2>1, <2>2, QueueNextIInv, MaxJobsAssumption
  <1>4. ASSUME NEW j \in JobId, Progresses(j)
        PROVE  [QueueNext]_qvars /\ QueueIInv' /\ lastId <= lastId'
    BY <1>0, <1>4, QueueNextIInv, MaxJobsAssumption DEF Progresses, qvars
  <1>5. ASSUME NEW j \in JobId, RemovesJob(j)
        PROVE  [QueueNext]_qvars /\ QueueIInv' /\ lastId <= lastId'
    <2>1. QueueNext
      BY <1>5 DEF RemovesJob, QueueNext
    <2> QED BY <1>0, <1>5, <2>1, QueueNextIInv, MaxJobsAssumption DEF RemovesJob, Remove, Delete
  <1>6. ASSUME NEW f \in ClearFilters, Clears(f)
        PROVE  [QueueNext]_qvars /\ QueueIInv' /\ lastId <= lastId'
    <2>1. QueueNext
      BY <1>6 DEF Clears, QueueNext
    <2> QED BY <1>0, <1>6, <2>1, QueueNextIInv, MaxJobsAssumption DEF Clears, Clear, Delete
  <1> QED BY <1>1, <1>2, <1>3, <1>4, <1>5, <1>6 DEF Works

\* Add, and the event of the job, or of its being skipped.
LEMMA AddStep == EventIInv /\ Add => EventIInv'
  <1> SUFFICES ASSUME EventIInv, NEW skipped \in SUBSET NewIds(1), AddJobs(1, skipped), Add,
                      Announces(IF skipped = {} THEN "added" ELSE "status", lastId + 1,
                                status'[lastId + 1], FALSE)
               PROVE  EventIInv'
    BY DEF Add
  <1> DEFINE j == lastId + 1
             t == IF skipped = {} THEN "added" ELSE "status"
             e == [type |-> t, job |-> j, status |-> status'[j]]
  <1>1. QueueIInv /\ QueueIInv' /\ lastId <= lastId' /\ lastId \in 0 .. MaxJobs
    BY WorksOnQueue DEF EventIInv, Works, QueueIInv, QueueTypeOK
  <1>2. j \in JobId /\ lastId' = j /\ j > lastId /\ NewIds(1) = {j} /\ skipped \in {{}, {j}}
    <2>1. NewIds(1) = {j}
      BY <1>1, MaxJobsAssumption DEF NewIds
    <2>2. lastId' = j /\ j <= MaxJobs
      BY DEF AddJobs
    <2> QED BY <1>1, <2>1, <2>2, MaxJobsAssumption DEF JobId
  <1>3. /\ status'[j] = IF skipped = {} THEN "pending" ELSE "skipped"
        /\ \A k \in JobId \ {j} : status'[k] = status[k]
    BY <1>2 DEF AddJobs
  <1>4. e \in Event
    BY <1>2, <1>3, StatusFacts DEF Event
  <1>5. Means(e)
    BY <1>2, <1>3 DEF Means, About
  <1>6. Active' = {} => IsEnd(t, status'[j])
    BY <1>2, <1>3, StatusFacts DEF Active, IsEnd
  <1> QED BY <1>1, <1>2, <1>4, <1>5, <1>6, AnnouncesStep

\* AddMultiple: its event is about no job, and the page asks for the list.
LEMMA AddMultipleStep == EventIInv /\ AddMultiple => EventIInv'
  <1> SUFFICES ASSUME EventIInv, AddMultiple,
                      NEW n \in 1 .. MaxJobs, NEW skipped \in SUBSET NewIds(n), AddJobs(n, skipped),
                      Announces("jobs_added", 0, Absent, TRUE)
               PROVE  EventIInv'
    BY DEF AddMultiple
  <1> DEFINE e == [type |-> "jobs_added", job |-> 0, status |-> Absent]
  <1>1. QueueIInv /\ QueueIInv' /\ lastId <= lastId' /\ lastId \in 0 .. MaxJobs
    BY WorksOnQueue DEF EventIInv, Works, QueueIInv, QueueTypeOK
  <1>2. e \in Event
    BY DEF Event
  <1>3. Means(e)
    BY <1>1, MaxJobsAssumption DEF Means, About, AddJobs, NewIds, JobId
  <1> QED BY <1>1, <1>2, <1>3, AnnouncesStep

\* The methods that change the status of one job.
LEMMA ChangesStatusStep == ASSUME EventIInv, NEW j \in JobId, ChangesStatus(j) PROVE EventIInv'
  <1> DEFINE e == [type |-> "status", job |-> j, status |-> status'[j]]
  <1>1. QueueIInv /\ QueueIInv' /\ lastId <= lastId' /\ lastId \in Nat /\ lastId' \in Nat
    BY WorksOnQueue, MaxJobsAssumption DEF EventIInv, Works, QueueIInv, QueueTypeOK
  <1>2. status \in [JobId -> State]
    BY <1>1 DEF QueueIInv, QueueTypeOK, State
  <1>3. PICK s \in Status : SetStatus(j, s)
    BY StatusFacts DEF ChangesStatus, StartJob, CompleteJob, FailJob, SkipJob, CancelJob, Requeue
  <1>4. status'[j] = s /\ \A k \in JobId \ {j} : status'[k] = status[k]
    BY <1>2, <1>3 DEF SetStatus
  <1>5. j \in Present
    BY StatusFacts DEF ChangesStatus, StartJob, CompleteJob, FailJob, SkipJob, CancelJob, Requeue,
                       Present
  <1>6. j <= lastId
    BY <1>1, <1>5 DEF QueueIInv, Unissued, Present, JobId
  <1>7. e \in Event
    BY <1>4 DEF Event
  <1>8. Means(e)
    BY <1>1, <1>4, <1>6 DEF Means, About, JobId
  <1>9. Active' = {} => IsEnd("status", status'[j])
    BY <1>4 DEF Active, IsEnd, Status
  <1>10. Announces("status", j, status'[j], FALSE)
    BY DEF ChangesStatus
  <1> QED BY <1>1, <1>7, <1>8, <1>9, <1>10, AnnouncesStep

\* UpdateProgress and UpdateJobPhase: an event that shows nothing.
LEMMA ProgressesStep == ASSUME EventIInv, NEW j \in JobId, Progresses(j) PROVE EventIInv'
  <1> DEFINE e == [type |-> "progress", job |-> j, status |-> status[j]]
  <1>1. QueueIInv /\ QueueIInv' /\ lastId <= lastId' /\ status' = status
    BY WorksOnQueue DEF EventIInv, Works, Progresses, qvars
  <1>2. e \in Event
    BY StatusFacts DEF Progresses, Event
  <1>3. Means(e)
    BY <1>1 DEF Means, About
  <1> QED BY <1>1, <1>2, <1>3, AnnouncesStep DEF Progresses

\* Remove: the notifier does not look at its event.
LEMMA RemovesJobStep == ASSUME EventIInv, NEW j \in JobId, RemovesJob(j) PROVE EventIInv'
  <1> DEFINE e == [type |-> "removed", job |-> j, status |-> Absent]
  <1>1. QueueIInv /\ QueueIInv' /\ lastId <= lastId' /\ lastId \in Nat /\ lastId' \in Nat
    BY WorksOnQueue, MaxJobsAssumption DEF EventIInv, Works, QueueIInv, QueueTypeOK
  <1>2. /\ status'[j] = Absent /\ \A k \in JobId \ {j} : status'[k] = status[k]
        /\ j <= lastId
    BY DEF RemovesJob, Remove, Delete
  <1>3. e \in Event
    BY DEF Event
  <1>4. Means(e)
    BY <1>1, <1>2 DEF Means, About, JobId
  <1>5. Active' = {} /\ Active # {} => j \in Active
    BY <1>2 DEF Active
  <1>6. /\ j \in Active => Announces("removed", j, Absent, TRUE)
        /\ j \notin Active => Announces("removed", j, Absent, FALSE)
    BY DEF RemovesJob, Announces, Broadcast, Owes
  <1>7. CASE j \in Active
    <2>1. Announces("removed", j, Absent, TRUE)
      BY <1>6, <1>7
    <2> QED BY <1>1, <1>3, <1>4, <2>1, AnnouncesStep
  <1>8. CASE j \notin Active
    <2>1. Announces("removed", j, Absent, FALSE)
      BY <1>6, <1>8
    <2> QED BY <1>1, <1>3, <1>4, <1>5, <1>8, <2>1, AnnouncesStep
  <1> QED BY <1>7, <1>8

\* Clear: no event at all.
LEMMA ClearsStep == ASSUME EventIInv, NEW f \in ClearFilters, Clears(f) PROVE EventIInv'
  <1>1. QueueIInv /\ QueueIInv' /\ lastId <= lastId' /\ lastId \in Nat /\ lastId' \in Nat
    BY WorksOnQueue, MaxJobsAssumption DEF EventIInv, Works, QueueIInv, QueueTypeOK
  <1>2. UNCHANGED <<subscribers, channel, page, note>> /\ Spoils(TRUE)
    BY DEF Clears
  <1>3. SamePage /\ Misses
    BY <1>2
    DEF SamePage, Misses, Spoils, Overtaken, EventIInv, TypeParts, ChannelsTyped, PageTyped,
        AnswerType, C
  <1>4. PageParts'
    BY <1>1, <1>3, MissedStep DEF EventIInv
  <1>5. Active' = Active \ Cleared(f)
    BY DEF Clears, Clear, Delete, Active, Absent
  <1>6. owed' = /\ notify
                /\ owed \/ Active' # {}
                /\ Active' = {} => ~(Cleared(f) \cap Active # {})
    BY DEF Clears, Owes
  <1>7. owed' \in BOOLEAN /\ NoticeIsComing'
    BY <1>2, <1>5, <1>6 DEF note, EventIInv, TypeParts, NoticesTyped, NoticeIsComing
  <1>8. TypeParts' /\ BoxIsWorthOne'
    BY <1>2, <1>3, <1>7 DEF EventIInv, TypeParts, ChannelsTyped, PageTyped, AnswerType,
           NoticesTyped,
                            BoxIsWorthOne, SamePage, page, note
  <1> QED BY <1>1, <1>4, <1>7, <1>8 DEF EventIInv

-----------------------------------------------------------------------------
(* The stream and the page.                                                *)

\* What concerns the queue and the notification only is not touched by the page.
LEMMA PageSteps ==
    ASSUME EventIInv, UNCHANGED <<qvars, note, owed>>, channel'["notifier"] = channel["notifier"],
           TypeParts', PageParts'
    PROVE  EventIInv'
  <1>1. QueueIInv'
    BY QueueNextIInv DEF EventIInv
  <1>2. Active' = Active
    BY DEF Active, qvars
  <1>3. BoxIsWorthOne' /\ NoticeIsComing'
    BY <1>2 DEF EventIInv, BoxIsWorthOne, NoticeIsComing, note
  <1> QED BY <1>1, <1>3 DEF EventIInv

\* The stream is opened: nothing waits yet.
LEMMA ConnectsStep == EventIInv /\ Connects => EventIInv'
  <1> SUFFICES ASSUME EventIInv, Connects PROVE EventIInv'
    OBVIOUS
  <1> USE DEF Connects, Subscribe
  <1>1. TypeParts'
    BY DEF Overtaken, EventIInv, TypeParts, ChannelsTyped, PageTyped, AnswerType, NoticesTyped, note
  <1>2. C' = <<>> /\ stream' = "subscribed"
    BY DEF C, EventIInv, PageParts, StreamIsOpen
  <1>3. /\ answer'["init"] = answer["init"] /\ ~answer["init"].on
        /\ \A r \in Answers :
              answer'[r].jobs = answer[r].jobs /\ answer'[r].on = answer[r].on
        /\ \A r \in Lists : answer'[r].on => answer'[r].spoilt
    BY DEF Overtaken, EventIInv, TypeParts, PageTyped, AnswerType, PageParts, StreamIsOpen
  <1>4. OnlyIssuedShown'
    BY <1>2, <1>3 DEF EventIInv, PageParts, OnlyIssuedShown, AddedIsFirst, Silent, qvars
  <1>5. StreamIsOpen'
    BY <1>2, <1>3 DEF EventIInv, PageParts, StreamIsOpen
  <1>6. EventsAreRight' /\ InitIsRight' /\ ListIsRight' /\ ViewWillBeRight'
    BY <1>2, <1>3 DEF EventsAreRight, InitIsRight, ListIsRight, Heals, ViewWillBeRight, SaysIt, IsLast
  <1> QED BY <1>1, <1>4, <1>5, <1>6, PageSteps DEF PageParts

\* A snapshot shows the jobs as they are, and it will be right if the events are.
LEMMA SnapshotIsRight ==
    ASSUME TypeParts, NEW j \in JobId, NEW x, SaysIt(C, status[j], j)
    PROVE  WillBeRight(C, status[j], status[j], j, x)
  BY DEF WillBeRight, SaysIt, AddsIt, IsLast

\* The first list is taken after the subscription, so nothing is missed in between.
LEMMA InitialStep == EventIInv /\ Initial => EventIInv'
  <1> SUFFICES ASSUME EventIInv, Initial PROVE EventIInv'
    OBVIOUS
  <1>0. UNCHANGED <<qvars, subscribers, channel, page, spoilt, note, owed>> /\ stream = "subscribed"
    BY DEF Initial
  <1>1. /\ answer'["init"] = [on |-> TRUE, jobs |-> status, left |-> Present, spoilt |-> FALSE,
                              heals |-> FALSE]
        /\ \A q \in Lists : answer'[q] = answer[q]
        /\ answer' \in AnswerType
    BY DEF Initial, Snapshot, EventIInv, TypeParts, PageTyped, AnswerType,
           QueueIInv, QueueTypeOK, State, Present
  <1>2. TypeParts'
    BY <1>0, <1>1 DEF EventIInv, TypeParts, ChannelsTyped, PageTyped, AnswerType,
           NoticesTyped, note, page
  <1>3. OnlyIssuedShown'
    <2>1. \A j \in JobId : j > lastId => status[j] = Absent
      BY DEF EventIInv, QueueIInv, Unissued
    <2> QED BY <1>0, <1>1, <2>1 DEF EventIInv, PageParts, OnlyIssuedShown, page, C, qvars
  <1>4. StreamIsOpen'
    BY <1>0, <1>1 DEF EventIInv, PageParts, StreamIsOpen, page, C
  <1>5. EventsAreRight' /\ ListIsRight' /\ ViewWillBeRight'
    BY <1>0, <1>1 DEF EventIInv, PageParts, EventsAreRight, ListIsRight, Heals, ViewWillBeRight,
           page, C, qvars
  <1>6. InitIsRight'
    BY <1>0, <1>1, SnapshotIsRight
    DEF EventIInv, PageParts, EventsAreRight, InitIsRight, page, C, qvars
  <1> QED BY <1>0, <1>2, <1>3, <1>4, <1>5, <1>6, PageSteps DEF PageParts

\* A job of a list is encoded as it is by then, which the events say too.
LEMMA EncodesStep ==
    ASSUME EventIInv, NEW r \in Answers, NEW j \in JobId, Encodes(r, j)
    PROVE  EventIInv'
  <1>0. UNCHANGED <<qvars, subscribers, channel, page, spoilt, note, owed>>
    BY DEF Encodes
  <1>1. /\ answer' \in AnswerType
        /\ \A q \in Answers :
              /\ answer'[q].on = answer[q].on /\ answer'[q].spoilt = answer[q].spoilt
              /\ answer'[q].heals = answer[q].heals
              /\ \A k \in JobId : answer'[q].jobs[k] = answer[q].jobs[k]
                                  \/ (answer'[q].jobs[k] = status[k] /\ k \in Present)
    BY DEF Encodes, EventIInv, TypeParts, PageTyped, AnswerType,
           QueueIInv, QueueTypeOK, State, Present
  <1>2. TypeParts'
    BY <1>0, <1>1 DEF EventIInv, TypeParts, ChannelsTyped, PageTyped, AnswerType,
           NoticesTyped, note, page
  <1>3. OnlyIssuedShown'
    <2>1. \A k \in JobId : k > lastId => k \notin Present
      BY DEF EventIInv, QueueIInv, Unissued, Present
    <2> QED BY <1>0, <1>1, <2>1 DEF EventIInv, PageParts, OnlyIssuedShown, page, C, qvars
  <1>4. StreamIsOpen'
    BY <1>0, <1>1 DEF EventIInv, PageParts, StreamIsOpen, page, C
  <1>5. EventsAreRight' /\ ViewWillBeRight'
    BY <1>0, <1>1 DEF EventIInv, PageParts, EventsAreRight, ViewWillBeRight, page, C, qvars
  <1>6. \A q \in Answers, k \in JobId :
            WillBeRight(C, status[k], answer[q].jobs[k], k, BatchWaits(C)) =>
            WillBeRight(C, status[k], answer'[q].jobs[k], k, BatchWaits(C))
    BY <1>1, SnapshotIsRight DEF EventIInv, WillBeRight
  <1>7. InitIsRight' /\ ListIsRight'
    BY <1>0, <1>1, <1>6 DEF EventIInv, PageParts, InitIsRight, ListIsRight, Heals, page, C, qvars
  <1> QED BY <1>0, <1>2, <1>3, <1>4, <1>5, <1>7, PageSteps DEF PageParts

\* The first list becomes the view, with the same events to come.
LEMMA InitArrivesStep == EventIInv /\ InitArrives => EventIInv'
  <1> SUFFICES ASSUME EventIInv, InitArrives PROVE EventIInv'
    OBVIOUS
  <1>0. /\ UNCHANGED <<qvars, subscribers, channel, refresh, connects, spoilt, note, owed>>
        /\ stream = "subscribed" /\ stream' = "live"
        /\ answer["init"].on /\ view' = answer["init"].jobs
    BY DEF InitArrives, Arrives
  <1>1. /\ answer'["init"] = NoAnswer /\ \A q \in Lists : answer'[q] = answer[q]
        /\ answer' \in AnswerType
    BY DEF InitArrives, NoAnswer, EventIInv, TypeParts, PageTyped, AnswerType, State
  <1>2. TypeParts'
    BY <1>0, <1>1 DEF EventIInv, TypeParts, ChannelsTyped, PageTyped, AnswerType,
           NoticesTyped, note
  <1>3. OnlyIssuedShown'
    BY <1>0, <1>1 DEF EventIInv, PageParts, OnlyIssuedShown, NoAnswer, C, qvars
  <1>4. StreamIsOpen'
    BY <1>0, <1>1 DEF EventIInv, PageParts, StreamIsOpen, NoAnswer, C
  <1>5. EventsAreRight' /\ InitIsRight' /\ ListIsRight'
    BY <1>0, <1>1 DEF EventIInv, PageParts, EventsAreRight, InitIsRight, ListIsRight, Heals, C, qvars
  <1>6. ViewWillBeRight'
    BY <1>0, <1>1
    DEF EventIInv, PageParts, InitIsRight, ViewWillBeRight, WillBeRight, C, qvars
  <1> QED BY <1>0, <1>2, <1>3, <1>4, <1>5, <1>6, PageSteps DEF PageParts

\* The stream is closed.
LEMMA DisconnectsStep == EventIInv /\ Disconnects => EventIInv'
  <1> SUFFICES ASSUME EventIInv, Disconnects PROVE EventIInv'
    OBVIOUS
  <1>0. /\ UNCHANGED <<qvars, view, refresh, connects, spoilt, note, owed>>
        /\ stream' = "closed" /\ subscribers' = subscribers \ {"page"}
        /\ DOMAIN channel' = {"page", "notifier"} /\ C' = <<>>
        /\ channel'["notifier"] = channel["notifier"]
    BY DEF Disconnects, EventIInv, TypeParts, ChannelsTyped, C
  <1>1. /\ answer'["init"] = NoAnswer /\ \A q \in Lists : answer'[q] = answer[q]
        /\ answer' \in AnswerType
    BY DEF Disconnects, NoAnswer, EventIInv, TypeParts, PageTyped, AnswerType, State
  <1>2. TypeParts'
    BY <1>0, <1>1 DEF EventIInv, TypeParts, ChannelsTyped, PageTyped, AnswerType,
           NoticesTyped, note, C
  <1>3. OnlyIssuedShown'
    BY <1>0, <1>1
    DEF EventIInv, PageParts, OnlyIssuedShown, AddedIsFirst, Silent, NoAnswer, qvars
  <1>4. StreamIsOpen'
    BY <1>0, <1>1 DEF EventIInv, PageParts, StreamIsOpen, NoAnswer
  <1>5. EventsAreRight' /\ InitIsRight' /\ ListIsRight' /\ ViewWillBeRight'
    BY <1>0 DEF EventsAreRight, InitIsRight, ListIsRight, Heals, ViewWillBeRight
  <1> QED BY <1>0, <1>2, <1>3, <1>4, <1>5, PageSteps DEF PageParts

\* What onmessage makes of the view at one job.
LEMMA ShownFacts ==
    ASSUME PageTyped, NEW e \in Event
    PROVE  /\ Shown(e) \in [JobId -> State]
           /\ \A j \in JobId :
                 Shown(e)[j] = IF ~About(e, j) \/ (e.type = "added" /\ view[j] # Absent)
                               THEN view[j] ELSE e.status
  <1>1. e.status \in State /\ e.job \in JobId \cup {0} /\ view \in [JobId -> State]
    BY DEF Event, State, PageTyped, AnswerType
  <1>2. CASE e.type \in {"status", "removed"}
    BY <1>1, <1>2 DEF Shown, About
  <1>3. CASE e.type = "added" /\ view[e.job] = Absent
    BY <1>1, <1>3 DEF Shown, About
  <1>4. CASE e.type \notin {"status", "removed"} /\ ~(e.type = "added" /\ view[e.job] = Absent)
    BY <1>1, <1>4 DEF Shown, About
  <1> QED BY <1>2, <1>3, <1>4

\* onmessage: an event is shown, and a batch makes the page ask again.
LEMMA HandlesStep == EventIInv /\ Handles => EventIInv'
  <1> SUFFICES ASSUME EventIInv, Handles PROVE EventIInv'
    OBVIOUS
  <1>0. /\ UNCHANGED <<qvars, subscribers, stream, connects, spoilt, note, owed>>
        /\ stream = "live" /\ C # <<>> /\ C \in Seq(Event) /\ C' = Tail(C)
        /\ DOMAIN channel' = {"page", "notifier"} /\ channel'["notifier"] = channel["notifier"]
    BY DEF Handles, Overtaken, EventIInv, TypeParts, ChannelsTyped, C
  <1>1. /\ C[1] \in Event /\ view' = Shown(C[1])
        /\ refresh' = (refresh \/ C[1].type = "jobs_added")
    BY <1>0, TailFacts DEF Handles, C
  <1>2. /\ answer'["init"] = answer["init"]
        /\ \A r \in Answers : answer'[r].jobs = answer[r].jobs /\ answer'[r].on = answer[r].on
        /\ \A r \in Lists : answer'[r].on => answer'[r].spoilt
        /\ answer' \in AnswerType
    BY DEF Handles, Overtaken, EventIInv, TypeParts, PageTyped, AnswerType
  <1>3. TypeParts'
    <2>1. ChannelsTyped'
      BY <1>0, TailFacts DEF ChannelsTyped, C, EventIInv, TypeParts
    <2>2. PageTyped'
      <3>1. refresh' \in BOOLEAN
        BY <1>1 DEF EventIInv, TypeParts, PageTyped, AnswerType
      <3>2. view' \in [JobId -> State]
        BY <1>1, ShownFacts DEF EventIInv, TypeParts
      <3> QED BY <1>0, <1>2, <3>1, <3>2 DEF EventIInv, TypeParts, PageTyped, AnswerType
    <2>3. NoticesTyped'
      BY <1>0 DEF EventIInv, TypeParts, NoticesTyped, note
    <2> QED BY <2>1, <2>2, <2>3 DEF TypeParts
  <1>4. AddedIsFirst(C) /\ AddedIsFirst(C')
    BY <1>0, TailKeeps DEF EventIInv, PageParts, OnlyIssuedShown
  <1>5. OnlyIssuedShown'
    <2> SUFFICES ASSUME NEW j \in JobId, j > lastId
                 PROVE  /\ view'[j] = Absent /\ Silent(C', j)
                        /\ \A r \in Answers : answer'[r].jobs[j] = Absent
      BY <1>0, <1>4 DEF OnlyIssuedShown, qvars
    <2>1. /\ Silent(C, j) /\ view[j] = Absent
          /\ \A r \in Answers : answer[r].jobs[j] = Absent
      BY DEF EventIInv, PageParts, OnlyIssuedShown
    <2>2. ~About(C[1], j)
      BY <1>0, <2>1, TailFacts DEF Silent
    <2> QED BY <1>0, <1>1, <1>2, <2>1, <2>2, TailKeeps, ShownFacts DEF EventIInv, TypeParts
  <1>6. StreamIsOpen'
    BY <1>0, <1>2 DEF EventIInv, PageParts, StreamIsOpen
  <1>7. \A j \in JobId : SaysIt(C, status[j], j) => SaysIt(C', status'[j], j)
    <2> SUFFICES ASSUME NEW j \in JobId, SaysIt(C, status[j], j), NEW f, f = status[j]
                 PROVE  SaysIt(C', status[j], j)
      BY <1>0 DEF qvars
    <2>1. AddsIt(C, status[j], f, j)
      BY DEF AddsIt
    <2>2. CASE ~About(C[1], j)
      BY <1>0, <1>4, <2>1, <2>2, TailRight
    <2>3. CASE About(C[1], j)
      BY <1>0, <1>4, <2>1, <2>3, TailRight
    <2> QED BY <2>2, <2>3
  <1>8. EventsAreRight' /\ InitIsRight' /\ ListIsRight'
    BY <1>0, <1>2, <1>7 DEF EventIInv, PageParts, EventsAreRight, InitIsRight, ListIsRight, Heals
  <1>9. ViewWillBeRight'
    <2> SUFFICES ASSUME ~spoilt, \A r \in Lists : ~answer[r].on, NEW j \in JobId
                 PROVE  WillBeRight(C', status[j], view'[j], j, refresh' \/ BatchWaits(C'))
      BY <1>0, <1>2 DEF ViewWillBeRight, qvars
    <2>1. WillBeRight(C, status[j], view[j], j, refresh \/ BatchWaits(C))
      BY <1>0 DEF EventIInv, PageParts, ViewWillBeRight
    <2>2. view'[j] = IF ~About(C[1], j) \/ (C[1].type = "added" /\ view[j] # Absent)
                     THEN view[j] ELSE C[1].status
      BY <1>1, ShownFacts DEF EventIInv, TypeParts
    <2>3. refresh \/ BatchWaits(C) => refresh' \/ BatchWaits(C')
      BY <1>0, <1>1, TailKeeps
    <2>4. /\ SaysIt(C', status[j], j) /\ AddsIt(C', status[j], view'[j], j)
          /\ Silent(C', j) => (Silent(C, j) /\ view'[j] = view[j]) \/ view'[j] = status[j]
      BY <1>0, <1>4, <2>1, <2>2, TailRight DEF WillBeRight
    <2> QED BY <2>1, <2>3, <2>4 DEF WillBeRight
  <1> QED BY <1>0, <1>3, <1>5, <1>6, <1>8, <1>9, PageSteps DEF PageParts

\* refreshJobs takes a list.
LEMMA RefreshesStep == ASSUME EventIInv, NEW r \in Lists, Refreshes(r) PROVE EventIInv'
  <1>0. /\ UNCHANGED <<qvars, subscribers, channel, stream, view, connects, spoilt, note, owed>>
        /\ refresh' \in BOOLEAN /\ ~answer[r].on
    BY DEF Refreshes, EventIInv, TypeParts, PageTyped
  <1>1. PICK heals \in BOOLEAN : heals = (stream = "live" /\ C = <<>>) /\
            answer' = [answer EXCEPT ![r] = [on |-> TRUE, jobs |-> status, left |-> Present,
                                             spoilt |-> FALSE, heals |-> heals]]
    BY DEF Refreshes, Snapshot, C
  <1>2. /\ r \in Answers /\ "init" \notin Lists /\ Lists \subseteq Answers
        /\ \A q \in Answers \ {r} : answer'[q] = answer[q]
        /\ answer'[r] = [on |-> TRUE, jobs |-> status, left |-> Present, spoilt |-> FALSE,
                         heals |-> heals]
        /\ answer' \in AnswerType
    <2>1. r \in Answers /\ "init" \notin Lists /\ Lists \subseteq Answers
      BY DEF Answers, Lists
    <2>2. status \in [JobId -> State] /\ Present \in SUBSET JobId
      BY DEF EventIInv, QueueIInv, QueueTypeOK, State, Present
    <2> QED BY <1>1, <2>1, <2>2 DEF EventIInv, TypeParts, PageTyped, AnswerType
  <1>3. TypeParts'
    BY <1>0, <1>2 DEF EventIInv, TypeParts, ChannelsTyped, PageTyped, NoticesTyped, note
  <1>4. OnlyIssuedShown'
    <2>1. \A j \in JobId : j > lastId => status[j] = Absent
      BY DEF EventIInv, QueueIInv, Unissued
    <2> QED BY <1>0, <1>2, <2>1 DEF EventIInv, PageParts, OnlyIssuedShown, C, qvars
  <1>5. StreamIsOpen'
    <2>1. heals => stream # "subscribed"
      BY <1>1
    <2>2. answer'[r].heals = heals /\ answer'["init"] = answer["init"]
      BY <1>2 DEF Answers
    <2> QED BY <1>0, <1>2, <2>1, <2>2 DEF EventIInv, PageParts, StreamIsOpen, C
  <1>6. EventsAreRight' /\ InitIsRight' /\ ViewWillBeRight'
    <2>1. answer'["init"] = answer["init"] /\ answer'[r].on
      BY <1>2 DEF Answers
    <2> QED BY <1>0, <2>1 DEF EventIInv, PageParts, EventsAreRight, InitIsRight, ViewWillBeRight, C, qvars
  <1>7. ListIsRight'
    <2>1. \A q \in Lists \ {r} : answer'[q] = answer[q] /\ Heals(q)' = Heals(q)
      BY <1>2 DEF Heals
    <2>2. ~Heals(r) /\ (Heals(r)' => C = <<>>)
      <3>1. heals => C = <<>>
        BY <1>1
      <3>2. Heals(r)' <=> heals
        BY <1>2 DEF Heals
      <3> QED BY <1>0, <3>1, <3>2 DEF Heals
    <2>3. ASSUME ~spoilt \/ C = <<>> \/ \E q \in Lists : Heals(q)'
          PROVE  ~spoilt \/ C = <<>> \/ \E q \in Lists : Heals(q)
      BY <2>1, <2>2, <2>3
    <2> SUFFICES ASSUME stream # "closed", ~spoilt \/ C = <<>> \/ \E q \in Lists : Heals(q),
                        NEW j \in JobId
                 PROVE  WillBeRight(C, status[j], status[j], j, BatchWaits(C))
      <3> SUFFICES ASSUME NEW q \in Lists, stream # "closed", answer'[q].on, ~answer'[q].spoilt,
                          ~spoilt \/ C = <<>> \/ \E p \in Lists : Heals(p), NEW j \in JobId
                   PROVE  WillBeRight(C, status[j], answer'[q].jobs[j], j, BatchWaits(C))
        BY <1>0, <2>3 DEF ListIsRight, C, qvars
      <3>1. CASE q = r
        BY <3>1, <1>2
      <3>2. CASE q # r
        BY <3>2, <2>1 DEF EventIInv, PageParts, ListIsRight
      <3> QED BY <3>1, <3>2
    <2>4. SaysIt(C, status[j], j)
      <3>1. CASE C = <<>>
        BY <3>1 DEF SaysIt, IsLast
      <3>2. CASE ~spoilt
        BY <3>2 DEF EventIInv, PageParts, EventsAreRight
      <3>3. CASE \E q \in Lists : Heals(q)
        BY <3>3 DEF EventIInv, PageParts, ListIsRight, Heals, WillBeRight
      <3> QED BY <3>1, <3>2, <3>3
    <2> QED BY <2>4, SnapshotIsRight DEF EventIInv
  <1> QED BY <1>0, <1>3, <1>4, <1>5, <1>6, <1>7, PageSteps DEF PageParts

\* updateJobs: the list becomes the view; if it is not spoilt it heals an older miss.
LEMMA ListArrivesStep == ASSUME EventIInv, NEW r \in Lists, ListArrives(r) PROVE EventIInv'
  <1>0. /\ UNCHANGED <<qvars, subscribers, channel, stream, refresh, connects, note, owed>>
        /\ answer[r].on /\ view' = answer[r].jobs
        /\ spoilt' = (answer[r].spoilt \/ (spoilt /\ ~answer[r].heals))
    BY DEF ListArrives, Arrives
  <1>1. /\ r \in Answers /\ "init" \in Answers \ {r} /\ Lists \subseteq Answers
        /\ \A q \in Answers \ {r} : answer'[q] = answer[q]
        /\ answer'[r] = NoAnswer
        /\ answer' \in AnswerType
    <2>1. r \in Answers /\ "init" \in Answers \ {r} /\ Lists \subseteq Answers
      BY DEF Answers, Lists
    <2> QED BY <2>1 DEF ListArrives, NoAnswer, EventIInv, TypeParts, PageTyped, AnswerType, State
  <1>2. TypeParts'
    <2>1. spoilt' \in BOOLEAN
      BY <1>0, <1>1 DEF EventIInv, TypeParts, PageTyped, AnswerType
    <2>2. view' \in [JobId -> State]
      BY <1>0, <1>1 DEF EventIInv, TypeParts, PageTyped, AnswerType
    <2> QED BY <1>0, <1>1, <2>1, <2>2
        DEF EventIInv, TypeParts, ChannelsTyped, PageTyped, NoticesTyped, note
  <1>3. OnlyIssuedShown'
    BY <1>0, <1>1 DEF EventIInv, PageParts, OnlyIssuedShown, NoAnswer, C, qvars
  <1>4. StreamIsOpen'
    BY <1>0, <1>1 DEF EventIInv, PageParts, StreamIsOpen, NoAnswer, C
  <1>5. ASSUME ~spoilt', stream # "closed"
        PROVE  /\ ~answer[r].spoilt /\ (Heals(r) \/ ~spoilt)
               /\ \A j \in JobId :
                     WillBeRight(C, status[j], answer[r].jobs[j], j, BatchWaits(C))
    BY <1>0, <1>5 DEF EventIInv, PageParts, ListIsRight, Heals
  <1>6. EventsAreRight' /\ ViewWillBeRight'
    BY <1>0, <1>5 DEF EventsAreRight, ViewWillBeRight, WillBeRight, C, qvars
  <1>7. InitIsRight'
    BY <1>0, <1>1, <1>5 DEF EventIInv, PageParts, StreamIsOpen, InitIsRight, Heals, C, qvars
  <1>8. ListIsRight'
    <2>1. \A q \in Lists \ {r} : answer'[q] = answer[q] /\ Heals(q)' = Heals(q)
      BY <1>1 DEF Heals
    <2>2. ~Heals(r)' /\ ~answer'[r].on
      BY <1>1 DEF Heals, NoAnswer
    <2>3. ASSUME stream # "closed", ~spoilt' \/ C = <<>> \/ \E q \in Lists : Heals(q)'
          PROVE  ~spoilt \/ C = <<>> \/ \E q \in Lists : Heals(q)
      BY <2>1, <2>2, <2>3, <1>5
    <2> QED BY <1>0, <2>1, <2>2, <2>3 DEF EventIInv, PageParts, ListIsRight, C, qvars
  <1> QED BY <1>0, <1>2, <1>3, <1>4, <1>6, <1>7, <1>8, PageSteps DEF PageParts

-----------------------------------------------------------------------------
(* The notification.                                                       *)

\* What concerns the queue and the page only is not touched by the notifier.
LEMMA NoteSteps ==
    ASSUME EventIInv, UNCHANGED <<qvars, subscribers, page, answer, spoilt>>, C' = C,
           DOMAIN channel' = {"page", "notifier"},
           channel'["notifier"] \in Seq({"end", "other"}),
           NoticesTyped', BoxIsWorthOne', NoticeIsComing'
    PROVE  EventIInv'
  <1>1. QueueIInv'
    BY QueueNextIInv DEF EventIInv
  <1>2. TypeParts'
    BY DEF EventIInv, TypeParts, ChannelsTyped, PageTyped, AnswerType, page, C
  <1>3. PageParts'
    BY DEF EventIInv, PageParts, OnlyIssuedShown, StreamIsOpen, EventsAreRight, InitIsRight,
           ListIsRight, Heals, ViewWillBeRight, page, qvars
  <1> QED BY <1>1, <1>2, <1>3 DEF EventIInv

\* The steps that take no event from the notifier's channel.
LEMMA SettingStep ==
    ASSUME EventIInv, Ticks \/ Configures \/ Counts \/ SendSucceeds \/ SendFails \/ Disables
    PROVE  EventIInv'
  <1>1. UNCHANGED <<qvars, subscribers, channel, page, answer, spoilt>> /\ Active' = Active
    BY DEF Ticks, Configures, GivesUp, Counts, SendSucceeds, SendFails, Disables, Active, qvars
  <1>2. owed' \in BOOLEAN /\ notify' \in BOOLEAN
    <2>1. CASE Ticks
      BY <2>1 DEF Ticks, EventIInv, TypeParts, NoticesTyped
    <2>2. CASE Configures \/ Counts \/ SendSucceeds
      BY <2>2 DEF Configures, Counts, SendSucceeds, EventIInv, TypeParts, NoticesTyped
    <2>3. CASE SendFails \/ Disables
      BY <2>3 DEF SendFails, Disables, GivesUp, EventIInv, TypeParts, NoticesTyped
    <2> QED BY <2>1, <2>2, <2>3
  <1>3. /\ notifier' \in {"idle", "counts", "sending", "disables", "tells"}
        /\ notices' \in Nat /\ ticks' \in Nat /\ stuck' \in Nat /\ configured' \in BOOLEAN
    <2>1. CASE Ticks
      BY <2>1 DEF Ticks, EventIInv, TypeParts, NoticesTyped
    <2>2. CASE Configures
      <3>1. configured' \in BOOLEAN /\ UNCHANGED <<notifier, notices, ticks, stuck>>
        BY <2>2 DEF Configures
      <3> QED BY <3>1 DEF EventIInv, TypeParts, NoticesTyped
    <2>3. CASE Counts
      BY <2>3 DEF Counts, EventIInv, TypeParts, NoticesTyped
    <2>4. CASE SendSucceeds \/ SendFails
      BY <2>4 DEF SendSucceeds, SendFails, EventIInv, TypeParts, NoticesTyped
    <2>5. CASE Disables
      <3>1. /\ notifier' = "tells" /\ UNCHANGED <<configured, notices, ticks>>
            /\ stuck' = stuck \/ stuck' = stuck + 1
        BY <2>5 DEF Disables
      <3>2. notices \in Nat /\ ticks \in Nat /\ stuck \in Nat /\ configured \in BOOLEAN
        BY DEF EventIInv, TypeParts, NoticesTyped
      <3> QED BY <3>1, <3>2
    <2> QED BY <2>1, <2>2, <2>3, <2>4, <2>5
  <1>4. BoxIsWorthOne'
    BY DEF Ticks, Configures, GivesUp, Counts, SendSucceeds, SendFails, Disables,
           EventIInv, TypeParts, NoticesTyped, BoxIsWorthOne
  <1>5. NoticeIsComing'
    <2>1. /\ owed' => notify'
          /\ Active # {} \/ ~owed' \/ (owed /\ (notifier # "sending" \/ notifier' # "idle"))
      <3>1. CASE Ticks
        BY <3>1 DEF Ticks
      <3>2. CASE Configures \/ Counts \/ SendSucceeds
        <4>1. notify' = notify /\ owed' = owed /\ (notifier # "sending" \/ notifier' # "idle")
          BY <3>2 DEF Configures, Counts, SendSucceeds
        <4> QED BY <4>1 DEF EventIInv, TypeParts, NoticesTyped, NoticeIsComing
      <3>3. CASE SendFails \/ Disables
        <4>1. (owed' => Active # {}) /\ (owed' => notify')
          <5>1. CASE SendFails
            BY <5>1 DEF SendFails, GivesUp
          <5>2. CASE Disables
            <6>1. owed' = FALSE \/ (notify' = notify /\ owed' = (notify /\ Active # {}))
              BY <5>2 DEF Disables, GivesUp
            <6>2. owed' = FALSE \/ (notify' = notify /\ (owed' => notify /\ Active # {}))
              BY <6>1, Zenon
            <6> QED BY <6>2
          <5> QED BY <3>3, <5>1, <5>2
        <4> QED BY <4>1
      <3> QED BY <3>1, <3>2, <3>3
    <2>2. CASE Active # {} \/ ~owed'
      BY <2>1, <2>2, <1>1 DEF NoticeIsComing
    <2>3. CASE Active = {} /\ owed' /\ owed
      <3>1. \/ notifier \in {"counts", "sending", "disables"}
            \/ \E i \in DOMAIN channel["notifier"] : channel["notifier"][i] = "end"
        BY <2>3 DEF EventIInv, NoticeIsComing
      <3>2. notifier \in {"counts", "sending", "disables"} =>
                notifier' \in {"counts", "sending", "disables"}
        BY <2>3 DEF Ticks, Configures, GivesUp, Counts, SendSucceeds, SendFails, Disables
      <3> QED BY <2>1, <2>3, <3>1, <3>2, <1>1 DEF NoticeIsComing
    <2> QED BY <2>1, <2>2, <2>3
  <1>6. /\ C' = C /\ DOMAIN channel' = {"page", "notifier"}
        /\ channel'["notifier"] \in Seq({"end", "other"})
    BY <1>1 DEF C, EventIInv, TypeParts, ChannelsTyped
  <1>7. NoticesTyped'
    BY <1>2, <1>3 DEF NoticesTyped
  <1> QED BY <1>1, <1>4, <1>5, <1>6, <1>7, NoteSteps

\* An event that is no end leaves those that are where they are.
LEMMA OverlooksStep == EventIInv /\ Overlooks => EventIInv'
  <1> SUFFICES ASSUME EventIInv, Overlooks PROVE EventIInv'
    OBVIOUS
  <1> DEFINE N == channel["notifier"]
  <1>0. /\ UNCHANGED <<qvars, subscribers, page, answer, spoilt, note, owed>>
        /\ notifier = "idle" /\ N # <<>> /\ N \in Seq({"end", "other"}) /\ N' = Tail(N)
        /\ Head(N) # "end" /\ DOMAIN channel' = {"page", "notifier"} /\ C' = C
    BY DEF Overlooks, EventIInv, TypeParts, ChannelsTyped, C
  <1> HIDE DEF N
  <1>1. NoticesTyped' /\ BoxIsWorthOne'
    BY <1>0 DEF EventIInv, TypeParts, NoticesTyped, BoxIsWorthOne, note
  <1>2. ASSUME owed, Active = {} PROVE \E i \in DOMAIN N' : N'[i] = "end"
    <2>1. PICK i \in DOMAIN N : N[i] = "end"
      BY <1>0, <1>2 DEF EventIInv, NoticeIsComing, N
    <2> QED BY <1>0, <2>1, TailFacts
  <1>3. NoticeIsComing'
    BY <1>0, <1>2 DEF EventIInv, NoticeIsComing, Active, qvars, note, N
  <1>4. channel'["notifier"] \in Seq({"end", "other"})
    BY <1>0, TailFacts DEF N
  <1> QED BY <1>0, <1>1, <1>3, <1>4, NoteSteps

\* An end is taken while a notification is due: the notifier goes and counts, or gives up
\* what is due for jobs that are no longer active.
LEMMA ReceivesStep == EventIInv /\ Receives => EventIInv'
  <1> SUFFICES ASSUME EventIInv, Receives PROVE EventIInv'
    OBVIOUS
  <1> DEFINE N == channel["notifier"]
  <1>0. /\ UNCHANGED <<qvars, subscribers, page, answer, spoilt, notify, configured, notices, ticks,
                      stuck>>
        /\ notifier = "idle" /\ N # <<>> /\ N \in Seq({"end", "other"}) /\ N' = Tail(N)
        /\ DOMAIN channel' = {"page", "notifier"} /\ C' = C
        /\ \/ notify /\ notifier' = "counts" /\ owed' = owed
           \/ notifier' = "idle" /\ owed' = (notify /\ Active # {})
    BY DEF Receives, GivesUp, EventIInv, TypeParts, ChannelsTyped, C
  <1> HIDE DEF N
  <1>1. NoticesTyped' /\ BoxIsWorthOne'
    <2>1. owed' \in BOOLEAN
      BY <1>0 DEF EventIInv, TypeParts, NoticesTyped
    <2> QED BY <1>0, <2>1 DEF EventIInv, TypeParts, NoticesTyped, BoxIsWorthOne
  <1>2. Active' = Active
    BY <1>0 DEF Active, qvars
  <1>3. NoticeIsComing'
    BY <1>0, <1>2 DEF EventIInv, NoticeIsComing
  <1>4. channel'["notifier"] \in Seq({"end", "other"})
    BY <1>0, TailFacts DEF N
  <1> QED BY <1>0, <1>1, <1>3, <1>4, NoteSteps

\* The event of a notification sent shows nothing.
LEMMA TellsStep == EventIInv /\ Tells => EventIInv'
  <1> SUFFICES ASSUME EventIInv, Tells PROVE EventIInv'
    OBVIOUS
  <1> DEFINE e == [type |-> "notify_sent", job |-> 0, status |-> Absent]
  <1>0. /\ UNCHANGED <<qvars, subscribers, page, notify, configured, notices, ticks, stuck>>
        /\ notifier = "tells" /\ notifier' = "idle"
        /\ Broadcast("notify_sent", 0, Absent, FALSE)
    BY DEF Tells
  <1>1. QueueIInv' /\ Active' = Active
    BY <1>0, QueueNextIInv DEF EventIInv, Active, qvars
  <1>2. e \in Event /\ Means(e)
    BY <1>0 DEF Event, Means, About, qvars
  <1>3. SamePage /\ (Misses \/ (stream # "closed" /\ Gets(e)))
    BY <1>0, <1>2, BroadcastToPage DEF EventIInv, PageParts
  <1>4. lastId \in Nat /\ lastId' = lastId
    BY <1>0, MaxJobsAssumption DEF EventIInv, QueueIInv, QueueTypeOK, qvars
  <1> HIDE DEF e
  <1>5. PageParts'
    <2>1. CASE Misses
      BY <2>1, <1>3, <1>4, MissedStep DEF EventIInv
    <2>2. CASE stream # "closed" /\ Gets(e)
      <3>1. e.type # "added"
        BY DEF e
      <3> QED BY <3>1, <2>2, <1>2, <1>3, <1>4, GotStep DEF EventIInv
    <2> QED BY <1>3, <2>1, <2>2
  <1>6. /\ NoticeIsComing' /\ owed' \in BOOLEAN
        /\ channel'["notifier"] \in Seq({"end", "other"})
    BY <1>0, <1>1, OwedStep DEF EventIInv
  <1>7. ChannelsTyped'
    <2>1. CASE Misses
      BY <2>1, <1>3, <1>6 DEF EventIInv, TypeParts, ChannelsTyped, SamePage, Misses, C
    <2>2. CASE Gets(e)
      BY <2>2, <1>2, <1>3, <1>6 DEF EventIInv, TypeParts, ChannelsTyped, SamePage, Gets, C
    <2> QED BY <1>3, <2>1, <2>2
  <1>8. TypeParts' /\ BoxIsWorthOne'
    BY <1>0, <1>3, <1>6, <1>7
    DEF EventIInv, TypeParts, PageTyped, AnswerType, NoticesTyped, BoxIsWorthOne, SamePage, page
  <1> QED BY <1>1, <1>5, <1>6, <1>8 DEF EventIInv

-----------------------------------------------------------------------------
(* The theorems.                                                           *)

\* The program starts without events, lists and notifications.
LEMMA EventInitIInv == EventInit => EventIInv
  <1> SUFFICES ASSUME EventInit PROVE EventIInv
    OBVIOUS
  <1>1. QueueIInv
    BY QueueInitIInv DEF EventInit
  <1>2. C = <<>> /\ stream = "closed" /\ ~answer["init"].on
    BY DEF C, EventInit, NoAnswer
  <1>3. TypeParts
    <2>1. ChannelsTyped
      BY DEF EventInit, ChannelsTyped
    <2>2. PageTyped
      BY DEF EventInit, NoAnswer, State, PageTyped, AnswerType
    <2>3. NoticesTyped
      BY DEF EventInit, NoticesTyped
    <2> QED BY <2>1, <2>2, <2>3 DEF TypeParts
  <1>4. BoxIsWorthOne /\ NoticeIsComing
    BY DEF EventInit, BoxIsWorthOne, NoticeIsComing
  <1>5. OnlyIssuedShown
    BY <1>2 DEF EventInit, NoAnswer, OnlyIssuedShown, AddedIsFirst, Silent
  <1>6. StreamIsOpen
    BY <1>2 DEF EventInit, StreamIsOpen
  <1>7. EventsAreRight /\ InitIsRight /\ ListIsRight /\ ViewWillBeRight
    BY <1>2 DEF EventsAreRight, InitIsRight, ListIsRight, Heals, ViewWillBeRight
  <1> QED BY <1>1, <1>3, <1>4, <1>5, <1>6, <1>7 DEF EventIInv, PageParts

\* Every step keeps the invariant.
LEMMA EventNextIInv == EventIInv /\ [EventNext]_vars => EventIInv'
  <1> SUFFICES ASSUME EventIInv, [EventNext]_vars PROVE EventIInv'
    OBVIOUS
  <1>1. CASE Works
    BY <1>1, AddStep, AddMultipleStep, ChangesStatusStep, ProgressesStep, RemovesJobStep, ClearsStep
    DEF Works
  <1>2. CASE Connects \/ Initial \/ InitArrives \/ Disconnects
    BY <1>2, ConnectsStep, InitialStep, InitArrivesStep, DisconnectsStep
  <1>3. CASE \E r \in DOMAIN answer, j \in JobId : Encodes(r, j)
    BY <1>3, EncodesStep DEF EventIInv, TypeParts, PageTyped, AnswerType
  <1>4. CASE Handles \/ \E r \in Lists : Refreshes(r) \/ ListArrives(r)
    BY <1>4, HandlesStep, RefreshesStep, ListArrivesStep
  <1>5. CASE \/ Ticks \/ Configures \/ Overlooks \/ Receives \/ Counts \/ SendSucceeds \/ SendFails
             \/ Disables \/ Tells
    BY <1>5, SettingStep, OverlooksStep, ReceivesStep, TellsStep
  <1>6. CASE UNCHANGED vars
    <2>1. UNCHANGED <<qvars, subscribers, page, answer, spoilt>> /\ UNCHANGED <<channel, note, owed>>
      BY <1>6 DEF vars
    <2>2. TypeParts'
      BY <2>1 DEF EventIInv, TypeParts, ChannelsTyped, PageTyped, AnswerType,
           NoticesTyped, page, note
    <2>3. BoxIsWorthOne' /\ NoticeIsComing'
      BY <2>1 DEF EventIInv, BoxIsWorthOne, NoticeIsComing, note, Active, qvars
    <2> QED BY <2>1, <2>2, <2>3, NoteSteps DEF TypeParts, ChannelsTyped, C
  <1> QED BY <1>1, <1>2, <1>3, <1>4, <1>5, <1>6 DEF EventNext

\* The invariant holds in every reachable state.
THEOREM EventInductiveInvariant == EventSpec => []EventIInv
  BY EventInitIInv, EventNextIInv, PTL DEF EventSpec

\* A page that has handled all events and waits for no answer shows the jobs as they
\* are, unless an event did not fit, jobs were cleared, or events overtook a list;
\* whatever the methods of the queue did while the stream was opened, closed and
\* opened again and while the lists were encoded and under way.
THEOREM ViewIsRightCorrect == EventSpec => []ViewIsRight
  <1>1. EventIInv => ViewIsRight
    <2> SUFFICES ASSUME EventIInv, stream = "live", C = <<>>, ~refresh, ~spoilt,
                        \A r \in Lists : ~answer[r].on
                 PROVE  view = status
      BY DEF ViewIsRight, C
    <2>1. \A j \in JobId : Silent(C, j) /\ ~BatchWaits(C)
      BY DEF Silent, BatchWaits
    <2>2. \A j \in JobId : view[j] = status[j]
      BY <2>1 DEF EventIInv, PageParts, ViewWillBeRight, WillBeRight
    <2>3. view \in [JobId -> State] /\ status \in [JobId -> State]
      BY DEF EventIInv, TypeParts, PageTyped, AnswerType, QueueIInv, QueueTypeOK, State
    <2> QED BY <2>2, <2>3
  <1> QED BY <1>1, EventInductiveInvariant, PTL

\* There are no more notifications than times the box was ticked and times it could not
\* be switched off, whatever ends, ticks and failures come in between.
THEOREM NoticesAskedForCorrect == EventSpec => []NoticesAreAskedFor
  <1>1. EventIInv => NoticesAreAskedFor
    BY DEF EventIInv, BoxIsWorthOne, NoticesAreAskedFor
  <1> QED BY <1>1, EventInductiveInvariant, PTL

\* A notification that is due when no job is left is on its way, unless the last job
\* was removed or cleared, its event did not fit, the setting could not be read, the keys
\* were missing, or sending failed.
THEOREM NoMissedNoticeCorrect == EventSpec => []NoMissedNotice
  <1>1. EventIInv => NoMissedNotice
    <2> SUFFICES ASSUME EventIInv, owed, Active = {}
                 PROVE  notifier # "idle" \/ channel["notifier"] # <<>>
      BY DEF NoMissedNotice
    <2>1. \/ notifier \in {"counts", "sending", "disables"}
          \/ \E i \in DOMAIN channel["notifier"] : channel["notifier"][i] = "end"
      BY DEF EventIInv, NoticeIsComing
    <2> QED BY <2>1
  <1> QED BY <1>1, EventInductiveInvariant, PTL

\* The events change nothing of what the queue promises: each step of the two who
\* listen and of the methods with their events is one of the queue or leaves it alone.
THEOREM EventBusImplementsQueue == EventSpec => QueueSpec
  <1>1. EventInit => QueueInit
    BY DEF EventInit
  <1>2. EventIInv /\ [EventNext]_vars => [QueueNext]_qvars
    <2> SUFFICES ASSUME EventIInv, [EventNext]_vars PROVE [QueueNext]_qvars
      OBVIOUS
    <2>1. CASE Works
      BY <2>1, WorksOnQueue DEF EventIInv
    <2>2. CASE ~Works
      BY <2>2 DEF EventNext, vars, Connects, Initial, InitArrives, Disconnects, Encodes, Handles,
                  Refreshes, ListArrives, Ticks, Configures, Overlooks, Receives, Counts, SendSucceeds, SendFails, Disables,
                  Tells
    <2> QED BY <2>1, <2>2
  <1> QED BY <1>1, <1>2, EventInductiveInvariant, PTL DEF EventSpec, QueueSpec
=============================================================================
