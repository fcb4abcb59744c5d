------------------------------ MODULE EventBus ------------------------------
(***************************************************************************)
(* The events of the queue and the two who listen: a page of the browser   *)
(* behind JobStream (internal/api/sse.go) and the goroutine that sends the *)
(* notification when all is done (internal/api/notify.go).                 *)
(*                                                                         *)
(* A method of the queue broadcasts while it holds q.mu: the change of     *)
(* JobQueue and its event are one step.  A subscriber's channel is bounded *)
(* and what does not fit is lost.  The page handles one event at a time;   *)
(* it asks for the whole list after a batch (refreshJobs), and the answers *)
(* arrive when they arrive.  It closes and opens the stream again.         *)
(*                                                                         *)
(* The setting notify_on_complete is in the database: reading and writing  *)
(* it may fail, which is logged only.                                      *)
(*                                                                         *)
(* The whole queue is here but for its callers: any method at any time.    *)
(* Events of progress only take up room.  spoilt and owed are history.     *)
(***************************************************************************)
EXTENDS JobQueue, Sequences

CONSTANTS
    ChannelSize,    \* the capacity of a subscriber's channel
    MaxPageJobs,    \* bound on the jobs when there is a page
    MaxVisits,      \* bound on the connections of the page and its clicks together
    MaxTicks,       \* bound on how often the user switches the notification on
    MaxStuck        \* bound on how often switching it off fails

VARIABLES
    subscribers,    \* q.subscribers
    channel,        \* [{"page", "notifier"} -> Seq(Event)]
    stream,         \* the page's connection: "closed", "subscribed" or "live"
    view,           \* [JobId -> Status or Absent]: allSortedJobs
    answer,         \* [Answers -> Answer]: the snapshots under way
    refresh,        \* refreshTimeout is set
    spoilt,         \* the view may be wrong until the next snapshot
    notify,         \* notify_on_complete in the database
    notifier,       \* "idle", "counts", "sending", "disables" or "tells"
    configured,     \* pushover.IsConfigured
    notices, ticks, \* the notifications sent, and how often notify was switched on
    stuck,          \* how often the notifier could not switch it off (history variable)
    owed,           \* a notification is due for jobs that were active while notify was on
    connects, clicks \* the connections and the clicks so far

page == <<stream, view, refresh, connects, clicks>>
note == <<notify, notifier, configured, notices, ticks, stuck>>
vars == <<qvars, subscribers, channel, page, answer, spoilt, note, owed>>

Active == {j \in JobId : status[j] \in {"pending", "running"}}

Event == [type : {"status", "added", "jobs_added", "removed", "progress", "notify_sent"},
          job : JobId \cup {0}, status : Status \cup {Absent}]

\* The list that opens a stream, and those of refreshJobs: two at a time, a bound.
Lists   == {"list", "again"}
Answers == {"init"} \cup Lists

NoAnswer == [on |-> FALSE, jobs |-> [j \in JobId |-> Absent], left |-> {},
             spoilt |-> FALSE, heals |-> FALSE]

EventInit ==
    /\ QueueInit
    /\ subscribers = {"notifier"}
    /\ channel = [s \in {"page", "notifier"} |-> <<>>]
    /\ stream = "closed"
    /\ view = [j \in JobId |-> Absent]
    /\ answer = [r \in Answers |-> NoAnswer]
    /\ refresh = FALSE /\ spoilt = FALSE
    /\ notify = FALSE /\ notifier = "idle"
    /\ configured = TRUE
    /\ notices = 0 /\ ticks = 0 /\ stuck = 0 /\ owed = FALSE /\ connects = 0 /\ clicks = 0

-----------------------------------------------------------------------------
(* What the two make of an event: the notifier looks at its type only.     *)

\* Mutant: an end that is no success is overlooked.
IsSuccess(type, s) == type = "status" /\ s = "complete"

IsEnd(type, s) == type = "status" /\ s \in Terminal

Received(x, type, j, s) ==
    IF x = "page" THEN [type |-> type, job |-> j, status |-> s]
    ELSE IF IsEnd(type, s) THEN "end" ELSE "other"

-----------------------------------------------------------------------------
(* Broadcasting.                                                           *)

HasRoom(s) == s \in subscribers /\ Len(channel[s]) < ChannelSize

\* The lists under way, when something happens that they may not have.
Overtaken == [r \in Answers |-> [answer[r] EXCEPT !.spoilt = @ \/ (r \in Lists /\ answer[r].on)]]

\* What the view and the lists under way miss.
Spoils(missed) ==
    /\ spoilt' = (spoilt \/ missed)
    /\ answer' = IF missed THEN Overtaken ELSE answer

\* A notification becomes due and ceases to be, unless the notifier misses the end.
Owes(missed) ==
    owed' = /\ notify
            /\ owed \/ Active' # {}
            /\ Active' = {} => ~missed

\* broadcast.  unseen says that the notifier does not look at this kind of event.
Broadcast(type, j, s, unseen) ==
    /\ channel' = [x \in DOMAIN channel |->
                     IF HasRoom(x) THEN Append(channel[x], Received(x, type, j, s)) ELSE channel[x]]
    /\ Spoils("page" \in subscribers /\ ~HasRoom("page"))
    /\ Owes(unseen \/ ~HasRoom("notifier"))

\* A method of the queue, which another conjunct has, and its event.
Announces(type, j, s, unseen) ==
    /\ Broadcast(type, j, s, unseen)
    /\ UNCHANGED <<subscribers, page, note>>

Fits == connects > 0 => lastId' <= MaxPageJobs

Add == \E skipped \in SUBSET NewIds(1) :
    /\ AddJobs(1, skipped) /\ Fits
    /\ Announces(IF skipped = {} THEN "added" ELSE "status", lastId + 1, status'[lastId + 1], FALSE)

AddMultiple == \E n \in 1 .. MaxJobs : \E skipped \in SUBSET NewIds(n) :
    /\ AddJobs(n, skipped) /\ Fits
    /\ Announces("jobs_added", 0, Absent, TRUE)

ChangesStatus(j) ==
    /\ StartJob(j) \/ CompleteJob(j) \/ FailJob(j) \/ SkipJob(j) \/ CancelJob(j) \/ Requeue(j)
    /\ Announces("status", j, status'[j], FALSE)

\* UpdateProgress, and UpdateJobPhase, whose event is the same.
Progresses(j) ==
    /\ status[j] = "running" /\ UNCHANGED qvars
    /\ Announces("progress", j, status[j], TRUE)

\* An active job taken away ends without an event the notifier looks at.
RemovesJob(j) == Remove(j) /\ j <= lastId /\ Announces("removed", j, Absent, j \in Active)

\* Clear sends no event.
Clears(filter) ==
    /\ Cleared(filter) # {}
    /\ Clear(filter)
    /\ Spoils(TRUE)
    /\ Owes(Cleared(filter) \cap Active # {})
    /\ UNCHANGED <<subscribers, channel, page, note>>

-----------------------------------------------------------------------------
(* The stream of the page.  GetAll hands out pointers to the jobs, which    *)
(* are encoded one after the other and without the lock.                    *)

Snapshot(r) ==
    answer' = [answer EXCEPT ![r] = [on |-> TRUE, jobs |-> status, left |-> Present, spoilt |-> FALSE,
                                     heals |-> stream = "live" /\ channel["page"] = <<>>]]

\* Mutant: the jobs are fetched first.
SubscribeAfterwards ==
    \/ /\ stream = "closed" /\ ~answer["init"].on
       /\ Snapshot("init")
       /\ UNCHANGED <<subscribers, channel, stream, spoilt>>
    \/ /\ stream = "closed" /\ answer["init"].on
       /\ subscribers' = subscribers \cup {"page"}
       /\ stream' = "subscribed"
       /\ spoilt' = FALSE
       /\ UNCHANGED <<channel, answer>>

\* An answer to refreshJobs that is still under way may now be older than the view.
Subscribe ==
    /\ stream = "closed"
    /\ subscribers' = subscribers \cup {"page"}
    /\ stream' = "subscribed"
    /\ spoilt' = FALSE
    /\ answer' = Overtaken
    /\ UNCHANGED channel

\* A bound: what has a page has no box ticked.  The two share q.subscribers only.
Connects ==
    /\ connects + clicks < MaxVisits /\ ticks = 0 /\ lastId <= MaxPageJobs
    /\ connects' = connects + 1
    /\ Subscribe
    /\ UNCHANGED <<qvars, view, refresh, clicks, note, owed>>

Initial ==
    /\ stream = "subscribed" /\ ~answer["init"].on
    /\ Snapshot("init")
    /\ UNCHANGED <<qvars, subscribers, channel, page, spoilt, note, owed>>

\* json.Marshal; a job removed meanwhile is encoded as it was.
Encodes(r, j) ==
    /\ j \in answer[r].left
    /\ answer' = [answer EXCEPT ![r].left = @ \ {j},
                                ![r].jobs[j] = IF j \in Present THEN status[j] ELSE @]
    /\ UNCHANGED <<qvars, subscribers, channel, page, spoilt, note, owed>>

Arrives(r) == answer[r].on /\ answer[r].left = {} /\ view' = answer[r].jobs

InitArrives ==
    /\ stream = "subscribed"
    /\ Arrives("init")
    /\ answer' = [answer EXCEPT !["init"] = NoAnswer]
    /\ stream' = "live"
    /\ UNCHANGED <<qvars, subscribers, channel, refresh, connects, clicks, spoilt, note, owed>>

\* Unsubscribe, when the request's context is done.
Disconnects ==
    /\ stream # "closed"
    /\ subscribers' = subscribers \ {"page"}
    /\ channel' = [channel EXCEPT !["page"] = <<>>]
    /\ stream' = "closed"
    /\ answer' = [answer EXCEPT !["init"] = NoAnswer]
    /\ UNCHANGED <<qvars, view, refresh, connects, clicks, spoilt, note, owed>>

-----------------------------------------------------------------------------
(* The page.                                                               *)

\* onmessage: addJobToList leaves a job alone that is there already.
Shown(e) ==
    CASE e.type \in {"status", "removed"}                   -> [view EXCEPT ![e.job] = e.status]
      [] e.type = "added" /\ view[e.job] = Absent           -> [view EXCEPT ![e.job] = e.status]
      [] OTHER                                              -> view

Handles ==
    /\ stream = "live" /\ channel["page"] # <<>>
    /\ channel' = [channel EXCEPT !["page"] = Tail(@)]
    /\ view' = Shown(Head(channel["page"]))
    /\ refresh' = (refresh \/ Head(channel["page"]).type = "jobs_added")
    /\ answer' = Overtaken
    /\ UNCHANGED <<qvars, subscribers, stream, connects, clicks, spoilt, note, owed>>

\* refreshJobs: when the timer of scheduleRefresh is up, and after a click on clear, pause
\* or resume, whether the answer to an earlier one has come or not.
Refreshes(r) ==
    /\ connects > 0
    /\ ~answer[r].on
    /\ \/ refresh /\ refresh' = FALSE /\ UNCHANGED clicks
       \/ connects + clicks < MaxVisits /\ clicks' = clicks + 1 /\ UNCHANGED refresh
    /\ Snapshot(r)
    /\ UNCHANGED <<qvars, subscribers, channel, stream, view, connects, spoilt, note, owed>>

\* updateJobs: the list replaces the view, whatever events were shown meanwhile.
ListArrives(r) ==
    /\ Arrives(r)
    /\ spoilt' = (answer[r].spoilt \/ (spoilt /\ ~answer[r].heals))
    /\ answer' = [answer EXCEPT ![r] = NoAnswer]
    /\ UNCHANGED <<qvars, subscribers, channel, stream, refresh, connects, clicks, note, owed>>

-----------------------------------------------------------------------------
(* The notification.                                                       *)

\* A notification is due for what is active, and for that only, when the notifier has
\* given up the last one.
GivesUp == owed' = (notify /\ Active # {})

\* The user switches notify on or off; if the write fails nothing happens.
Ticks ==
    /\ ticks < MaxTicks /\ connects = 0
    /\ notify' = ~notify
    /\ ticks' = IF notify THEN ticks ELSE ticks + 1
    /\ owed' = (notify' /\ Active # {})
    /\ UNCHANGED <<qvars, subscribers, channel, page, answer, spoilt, notifier, configured,
                   notices, stuck>>

\* The user takes the keys of Pushover away, or sets them again: after the first tick, a
\* bound, since nothing is sent before it.
Configures ==
    /\ connects = 0 /\ ticks > 0
    /\ configured' = ~configured
    /\ UNCHANGED <<qvars, subscribers, channel, page, answer, spoilt, notify, notifier,
                   notices, ticks, stuck, owed>>

\* An event is taken, and it is not the end of a job.
Overlooks ==
    /\ notifier = "idle" /\ channel["notifier"] # <<>>
    /\ Head(channel["notifier"]) # "end"
    /\ channel' = [channel EXCEPT !["notifier"] = Tail(@)]
    /\ UNCHANGED <<qvars, subscribers, page, answer, spoilt, note, owed>>

\* The end of a job.  Whether the setting is off, cannot be read, or there is nothing to
\* send with, is all the same to sendNotificationIfReady.
Receives ==
    /\ notifier = "idle" /\ channel["notifier"] # <<>>
    /\ Head(channel["notifier"]) = "end"
    /\ channel' = [channel EXCEPT !["notifier"] = Tail(@)]
    /\ \/ notify /\ configured /\ notifier' = "counts" /\ UNCHANGED owed
       \/ notifier' = "idle" /\ GivesUp
    /\ UNCHANGED <<qvars, subscribers, page, answer, spoilt, notify, configured, notices, ticks, stuck>>

\* Stats.
Counts ==
    /\ notifier = "counts"
    /\ notifier' = IF Active = {} THEN "sending" ELSE "idle"
    /\ UNCHANGED <<qvars, subscribers, channel, page, answer, spoilt, notify, configured,
                   notices, ticks, stuck, owed>>

SendSucceeds ==
    /\ notifier = "sending"
    /\ notifier' = "disables"
    /\ notices' = notices + 1
    /\ UNCHANGED <<qvars, subscribers, channel, page, answer, spoilt, notify, configured, ticks,
                   stuck, owed>>

\* Nothing tries again before the next end of a job.
SendFails ==
    /\ notifier = "sending"
    /\ notifier' = "idle"
    /\ GivesUp
    /\ UNCHANGED <<qvars, subscribers, channel, page, answer, spoilt, notify, configured, notices,
                   ticks, stuck>>

\* Mutant: the checkbox stays on.
DisablesNothing ==
    /\ notifier = "disables"
    /\ notifier' = "tells"
    /\ owed' = FALSE
    /\ UNCHANGED <<qvars, subscribers, channel, page, answer, spoilt, notify, configured, notices,
                   ticks, stuck>>

\* setNotifyOnComplete(false): it is switched off even when it was switched on again during
\* the sending; when the write fails it stays as it is, and the pages are told all the same.
Disables ==
    /\ notifier = "disables"
    /\ notifier' = "tells"
    /\ \/ notify' = FALSE /\ owed' = FALSE /\ UNCHANGED stuck
       \/ stuck < MaxStuck /\ stuck' = stuck + 1 /\ GivesUp /\ UNCHANGED notify
    /\ UNCHANGED <<qvars, subscribers, channel, page, answer, spoilt, configured, notices, ticks>>

\* BroadcastEvent to the pages; to its own channel as well.
Tells ==
    /\ notifier = "tells"
    /\ notifier' = "idle"
    /\ UNCHANGED qvars
    /\ Broadcast("notify_sent", 0, Absent, FALSE)
    /\ UNCHANGED <<subscribers, page, notify, configured, notices, ticks, stuck>>

-----------------------------------------------------------------------------
Works ==
    \/ Add \/ AddMultiple
    \/ \E j \in JobId : ChangesStatus(j) \/ Progresses(j) \/ RemovesJob(j)
    \/ \E f \in ClearFilters : Clears(f)

EventNext ==
    \/ Works
    \/ Connects \/ Initial \/ InitArrives \/ Disconnects
    \/ \E r \in DOMAIN answer, j \in JobId : Encodes(r, j)
    \/ Handles
    \/ \E r \in Lists : Refreshes(r) \/ ListArrives(r)
    \/ Ticks \/ Configures \/ Overlooks \/ Receives \/ Counts \/ SendSucceeds \/ SendFails \/ Disables \/ Tells

EventSpec == EventInit /\ [][EventNext]_vars

-----------------------------------------------------------------------------
(* Properties.                                                             *)

\* A page that has handled all events and waits for no answer shows the jobs as they
\* are, whatever happened between the subscription, the initial list and its arrival:
\* unless an event did not fit, jobs were cleared, or events overtook a list.
ViewIsRight ==
    stream = "live" /\ channel["page"] = <<>> /\ ~refresh
    /\ (\A r \in Lists : ~answer[r].on) /\ ~spoilt
        => view = status

\* "Disable the checkbox until the user re-enables it for the next batch": each time the box
\* is ticked there is one notification at most, and one more only where switching it off
\* failed, whenever the end of a job, a tick or another event comes in between.
NoticesAreAskedFor == notices <= ticks + stuck

\* When no job is left and the notifier has nothing more to do, the notification for
\* jobs that were active while the box was ticked has been sent; unless the last of
\* them was removed or cleared, its event did not fit, the setting could not be read, the
\* keys were missing then, or sending failed.
NoMissedNotice ==
    owed /\ Active = {} => notifier # "idle" \/ channel["notifier"] # <<>>
=============================================================================
