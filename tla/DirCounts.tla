----------------------------- MODULE DirCounts -----------------------------
(***************************************************************************)
(* The cache of recursive video counts of internal/browse: dir_stats.go    *)
(* and the parts of browse.go that touch it, over a tree of directories    *)
(* that changes while it is walked.                                        *)
(*                                                                         *)
(* A directory is walked by a worker of the recompute pool, one directory  *)
(* at a time, or by WarmCountCache, which walks them all, once at the start *)
(* and once more for every ClearCache, whatever walks are under way.       *)
(* Workers that take a directory somebody is walking share that walk       *)
(* (singleflight), the end of it, when the count is written, included.     *)
(*                                                                         *)
(* Data.  Of a directory matter the number of videos in it and its         *)
(* signature, a number that grows whenever an entry of it comes, goes or   *)
(* is replaced.  Sizes go with the counts.  The history field raced says   *)
(* of a value that it may be wrong without anybody being to blame but the  *)
(* design: see the README.                                                 *)
(***************************************************************************)
EXTENDS Integers, Sequences, FiniteSetsExt

CONSTANTS
    Dir, Root,      \* the directories, and the media root
    Parent,         \* [Dir -> Dir], the root's being itself
    Workers,        \* the number of recompute workers
    QueueSize,      \* recomputeQueueSize
    Warmers,        \* bound on the walks of WarmCountCache at a time
    MaxFiles,       \* bound on the videos in a directory
    MaxEvents       \* bound on what comes from outside: changes of the tree, errors of the
                    \* file system, Reconcile, ClearCache, saving the counts, restarts

\* Whoever goes up from a directory comes to the root.
ASSUME TreeAssumption ==
    /\ IsFiniteSet(Dir) /\ Root \in Dir
    /\ Parent \in [Dir -> Dir] /\ Parent[Root] = Root
    /\ \A S \in SUBSET Dir : S # {} /\ (\A d \in S : Parent[d] \in S) => Root \in S
ASSUME SizesAssumption == Workers \in Nat \ {0} /\ QueueSize \in Nat \ {0}
ASSUME BoundsAssumption == MaxFiles \in Nat \ {0} /\ MaxEvents \in Nat

VARIABLES
    exists,     \* the directories there are
    files,      \* [Dir -> Nat]: the videos in each
    version,    \* [Dir -> Nat]: the signature of each
    cache,      \* [Dir -> Entry]: countCache
    queue,      \* recomputeQueue
    working,    \* [Dir -> Nat]: the workers inside countGroup.Do for each
    walk,       \* [Dir -> Walk]: the walk of recomputeDirCount they share
    warm,       \* [Warmers -> Warm]: the walks of WarmCountCache, with what they have found
    toMark,     \* directories of files a job replaced, InvalidateCache still to come
    toEnqueue,  \* directories some goroutine is about to pass to enqueueRecompute
    saved,      \* [Dir -> Nat, or -1]: the counts in the database
    events      \* how many there were

tree  == <<exists, files, version>>
work  == <<queue, working, walk>>
calls == <<toMark, toEnqueue, saved>>
vars  == <<tree, cache, work, warm, calls, events>>

Up[d \in Dir] == {d} \cup (IF d = Root THEN {} ELSE Up[Parent[d]])
Below(d)      == {e \in Dir : d \in Up[e]}
Children(d)   == {e \in exists \ {Root} : Parent[e] = d}
Sum(f, S)     == MapThenSumSet(LAMBDA e : f[e], S)
Total(d)      == Sum(files, Below(d) \cap exists)

Absent == [state |-> "absent", count |-> 0, known |-> FALSE, sig |-> 0, raced |-> FALSE]
Entry  == [state : {"absent", "unknown", "ready", "stale", "error"}, count : Nat,
           known : BOOLEAN, sig : Nat, raced : BOOLEAN]

NoWalk == [on |-> FALSE, left |-> {}, seen |-> {}, count |-> 0, failed |-> FALSE, raced |-> FALSE,
           written |-> FALSE]

\* raced: what a change has overtaken; errors: what misses a directory that was not read.
NotWarming == [on |-> FALSE, left |-> {}, seen |-> {}, found |-> [d \in Dir |-> 0],
               sig |-> [d \in Dir |-> 0], raced |-> {}, errors |-> {}, written |-> {}]
Warming == [NotWarming EXCEPT !.on = TRUE, !.left = {Root}]

Fresh(d) == cache[d].state = "ready" /\ cache[d].sig = version[d]

\* The signature is looked at in a ready entry only: others have none here.
Becomes(entry, state) == [entry EXCEPT !.state = state, !.sig = 0, !.raced = FALSE]

\* Stale entries are not marked again; unknown ones are on their way.
Marked(entry) == IF entry.state \in {"ready", "error"} THEN Becomes(entry, "stale") ELSE entry

Init ==
    /\ exists = Dir
    /\ files = [d \in Dir |-> 1]
    /\ version = [d \in Dir |-> 1]
    /\ cache = [d \in Dir |-> Absent]
    /\ queue = <<>>
    /\ working = [d \in Dir |-> 0]
    /\ walk = [d \in Dir |-> NoWalk]
    /\ \E w \in Warmers : warm = [v \in Warmers |-> IF v = w THEN Warming ELSE NotWarming]
    /\ toMark = {}
    /\ toEnqueue = {}
    /\ saved = [d \in Dir |-> -1]
    /\ events = 0

-----------------------------------------------------------------------------
(* The file system.  A change of a directory that a walk has read already   *)
(* makes the walk's count one of the past.                                  *)

Event == events < MaxEvents /\ events' = events + 1

Touch(D) ==
    /\ Event
    /\ walk' = [e \in Dir |-> [walk[e] EXCEPT !.raced = @ \/ D \cap walk[e].seen # {}]]
    /\ warm' = [w \in Warmers |->
                   [warm[w] EXCEPT !.raced = @ \cup UNION {Up[d] \ {d} : d \in D \cap warm[w].seen}]]

\* Nobody is told of a change outside: only the signature of d itself shows it.
Unannounced(d) ==
    cache' = [e \in Dir |-> [cache[e] EXCEPT !.raced = @ \/ (Fresh(e) /\ e \in Up[d] \ {d})]]

Refill(d) ==
    /\ d \in exists
    /\ \E n \in 0 .. MaxFiles \ {files[d]} : files' = [files EXCEPT ![d] = n]
    /\ version' = [version EXCEPT ![d] = @ + 1]
    /\ UNCHANGED exists

\* A user copies or removes a video.
FilesChange(d) ==
    /\ Refill(d) /\ Touch({d}) /\ Unannounced(d)
    /\ UNCHANGED <<queue, working, calls>>

\* A job replaces one; InvalidateCache is called after that.
JobReplaces(d) ==
    /\ Refill(d) /\ Touch({d})
    /\ toMark' = toMark \cup {d}
    /\ UNCHANGED <<cache, queue, working, toEnqueue, saved>>

RemoveDir(d) ==
    /\ d \in exists \ {Root}
    /\ exists' = exists \ Below(d)
    /\ files' = [e \in Dir |-> IF e \in Below(d) THEN 0 ELSE files[e]]
    /\ version' = [e \in Dir |-> version[e] + IF e \in Below(d) \cup {Parent[d]} THEN 1 ELSE 0]
    /\ Touch(Below(d) \cup {Parent[d]}) /\ Unannounced(Parent[d])
    /\ UNCHANGED <<queue, working, calls>>

MakeDir(d) ==
    /\ d \notin exists /\ Parent[d] \in exists
    /\ exists' = exists \cup {d}
    /\ version' = [version EXCEPT ![d] = @ + 1, ![Parent[d]] = @ + 1]
    /\ Touch({Parent[d]}) /\ Unannounced(Parent[d])
    /\ UNCHANGED <<files, queue, working, calls>>

-----------------------------------------------------------------------------
(* Requests.  Each marks entries under countCacheMu and enqueues afterwards: *)
(* GetDirCount at once, the others one directory after the other.           *)

\* enqueueRecompute: what does not fit is dropped.
Enqueued(d) == IF Len(queue) < QueueSize THEN Append(queue, d) ELSE queue

\* Mutant: only an entry that is new or has just become stale is enqueued.
GetDirCountOnce(d) ==
    /\ d \in exists
    /\ cache[d].state = "absent" \/ (cache[d].state = "ready" /\ cache[d].sig # version[d])
    /\ cache' = [cache EXCEPT ![d] = Becomes(@, IF @.state = "absent" THEN "unknown" ELSE "stale")]
    /\ queue' = Enqueued(d)
    /\ UNCHANGED <<tree, working, walk, warm, calls, events>>

\* GetDirCount, part of Browse: what is not ready is enqueued on every access.
GetDirCount(d) ==
    /\ cache' = [cache EXCEPT ![d] =
                    CASE d \notin exists         -> IF @.state = "absent" THEN @ ELSE Becomes(@, "error")
                      [] Fresh(d)               -> @
                      [] @.state = "absent"     -> Becomes(@, "unknown")
                      [] OTHER                  -> Marked(@)]
    /\ queue' = IF d \notin exists \/ Fresh(d) THEN queue ELSE Enqueued(d)
    /\ UNCHANGED <<tree, working, walk, warm, calls, events>>

\* Mutant: the totals of the directories above are forgotten.
InvalidateOwn(d) ==
    /\ d \in toMark
    /\ toMark' = toMark \ {d}
    /\ cache' = [cache EXCEPT ![d] = Marked(@)]
    /\ toEnqueue' = toEnqueue \cup {d}
    /\ UNCHANGED <<tree, work, warm, saved, events>>

\* InvalidateCache: the directory of the file and all above.
InvalidateCache(d) ==
    /\ d \in toMark
    /\ toMark' = toMark \ {d}
    /\ cache' = [e \in Dir |-> IF e \in Up[d] THEN Marked(cache[e]) ELSE cache[e]]
    /\ toEnqueue' = toEnqueue \cup Up[d]
    /\ UNCHANGED <<tree, work, warm, saved, events>>

\* Reconcile: the path in any case, or what becomes stale at it and below.
Reconcile(d) ==
    /\ Event
    /\ \/ /\ cache' = [cache EXCEPT ![d] = Marked(@)]
          /\ toEnqueue' = toEnqueue \cup {d}
       \/ LET marks == {e \in Below(d) : Marked(cache[e]) # cache[e]}
          IN  /\ cache' = [e \in Dir |-> IF e \in marks THEN Marked(cache[e]) ELSE cache[e]]
              /\ toEnqueue' = toEnqueue \cup marks
    /\ UNCHANGED <<tree, work, warm, toMark, saved>>

\* ClearCache: everything is stale and WarmCountCache walks once more.
ClearCache(w) ==
    /\ Event
    /\ ~warm[w].on
    /\ cache' = [d \in Dir |-> Marked(cache[d])]
    /\ warm' = [warm EXCEPT ![w] = Warming]
    /\ UNCHANGED <<tree, work, toMark, toEnqueue, saved>>

Enqueue(d) ==
    /\ d \in toEnqueue
    /\ toEnqueue' = toEnqueue \ {d}
    /\ queue' = Enqueued(d)
    /\ UNCHANGED <<tree, cache, working, walk, warm, toMark, saved, events>>

-----------------------------------------------------------------------------
(* The recompute workers.                                                  *)

Joined(w, d) == [w EXCEPT ![d] = IF @.on THEN @ ELSE [NoWalk EXCEPT !.on = TRUE, !.left = {d}]]

\* Mutant: a goroutine for each directory of the queue.
TakeUnbounded ==
    /\ queue # <<>>
    /\ queue' = Tail(queue)
    /\ working' = [working EXCEPT ![Head(queue)] = @ + 1]
    /\ walk' = Joined(walk, Head(queue))
    /\ UNCHANGED <<tree, cache, warm, calls, events>>

\* A worker that takes a directory being walked waits for that walk.
Take ==
    /\ Sum(working, Dir) < Workers
    /\ queue # <<>>
    /\ queue' = Tail(queue)
    /\ working' = [working EXCEPT ![Head(queue)] = @ + 1]
    /\ walk' = Joined(walk, Head(queue))
    /\ UNCHANGED <<tree, cache, warm, calls, events>>

\* The first error ends the walk: a directory that has gone, or a fault.
VisitFails(d) ==
    /\ walk[d].left # {} /\ ~walk[d].failed
    /\ walk' = [walk EXCEPT ![d].failed = TRUE, ![d].left = {}]
    /\ \/ walk[d].left \cap exists # walk[d].left /\ UNCHANGED events
       \/ walk[d].left \subseteq exists /\ Event
    /\ UNCHANGED <<tree, cache, queue, working, warm, calls>>

Visit(d) ==
    /\ \E e \in walk[d].left \cap exists :
          walk' = [walk EXCEPT ![d].left = (@ \ {e}) \cup Children(e), ![d].seen = @ \cup {e},
                               ![d].count = @ + files[e]]
    /\ UNCHANGED <<tree, cache, queue, working, warm, calls, events>>

Writes(d, entry) ==
    /\ walk[d].on /\ ~walk[d].written /\ walk[d].left = {}
    /\ cache' = [cache EXCEPT ![d] = entry]
    /\ walk' = [walk EXCEPT ![d] = [NoWalk EXCEPT !.on = TRUE, !.written = TRUE]]
    /\ UNCHANGED <<tree, queue, working, warm, calls, events>>

\* The signature is taken here, after the walk, whatever was marked meanwhile.
Succeeds(d) ==
    /\ ~walk[d].failed /\ d \in exists
    /\ Writes(d, [state |-> "ready", count |-> walk[d].count, known |-> TRUE, sig |-> version[d],
                  raced |-> walk[d].raced])

\* The last count stays; an entry that is not there is not made.
Fails(d) ==
    /\ walk[d].failed \/ d \notin exists
    /\ Writes(d, IF cache[d].state = "absent" THEN cache[d] ELSE Becomes(cache[d], "error"))

\* countGroup.Do returns to all who wait, those who came after the write too.
Returns(d) ==
    /\ walk[d].written
    /\ walk' = [walk EXCEPT ![d] = NoWalk]
    /\ working' = [working EXCEPT ![d] = 0]
    /\ UNCHANGED <<tree, cache, queue, warm, calls, events>>

-----------------------------------------------------------------------------
(* WarmCountCache.                                                         *)

\* An error is noted and the walk goes on; the directory counts for nothing.
WarmVisit(w, e) ==
    /\ e \in warm[w].left
    /\ \/ /\ e \in exists
          /\ warm' = [warm EXCEPT ![w].left = (@ \ {e}) \cup Children(e), ![w].seen = @ \cup {e},
                         ![w].found = [d \in Dir |-> @[d] + IF d \in Up[e] THEN files[e] ELSE 0],
                         ![w].sig[e] = version[e]]
          /\ UNCHANGED events
       \/ /\ IF e \in exists THEN Event ELSE UNCHANGED events
          /\ warm' = [warm EXCEPT ![w].left = @ \ {e}, ![w].seen = @ \cup {e},
                         ![w].errors = @ \cup Up[e],
                         ![w].sig[e] = IF e \in exists THEN version[e] ELSE 0]
    /\ UNCHANGED <<tree, cache, work, calls>>

Found(w, d) == [state |-> "ready", count |-> warm[w].found[d], known |-> TRUE, sig |-> warm[w].sig[d],
                raced |-> d \in warm[w].raced \cup warm[w].errors]

\* The entries are written in chunks, between which the mutex is free.
WarmPopulates(w, d) ==
    /\ warm[w].on /\ warm[w].left = {} /\ d \in warm[w].seen \ warm[w].written
    /\ cache' = [cache EXCEPT ![d] = Found(w, d)]
    /\ warm' = [warm EXCEPT ![w].written = @ \cup {d}]
    /\ UNCHANGED <<tree, work, calls, events>>

HasPopulated(w) == warm[w].on /\ warm[w].left = {} /\ warm[w].written = warm[w].seen

\* Mutant: an error of the walk does not stop the pruning.
PrunesAlways(w) ==
    /\ HasPopulated(w)
    /\ cache' = [d \in Dir |-> IF d \in warm[w].seen THEN cache[d] ELSE Absent]
    /\ warm' = [warm EXCEPT ![w] = NotWarming]
    /\ UNCHANGED <<tree, work, calls, events>>

WarmPrunes(w) ==
    /\ HasPopulated(w)
    /\ cache' = [d \in Dir |-> IF d \in warm[w].seen \/ warm[w].errors # {} THEN cache[d] ELSE Absent]
    /\ warm' = [warm EXCEPT ![w] = NotWarming]
    /\ UNCHANGED <<tree, work, calls, events>>

Warms(w) == WarmPrunes(w) \/ \E d \in Dir : WarmVisit(w, d) \/ WarmPopulates(w, d)

-----------------------------------------------------------------------------
(* main.go: the counts are saved every five minutes and at the end, loaded  *)
(* as stale at the start; the walk that warms the cache follows.            *)

\* Rows are added or replaced, never deleted.
Export ==
    /\ Event
    /\ saved' = [d \in Dir |-> IF cache[d].state \in {"ready", "stale"}
                              THEN cache[d].count ELSE saved[d]]
    /\ UNCHANGED <<tree, cache, work, warm, toMark, toEnqueue>>

Restart ==
    /\ Event
    /\ cache' = [d \in Dir |-> IF saved[d] = -1 THEN Absent
                              ELSE [Becomes(Absent, "stale") EXCEPT !.count = saved[d], !.known = TRUE]]
    /\ queue' = <<>> /\ working' = [d \in Dir |-> 0] /\ walk' = [d \in Dir |-> NoWalk]
    /\ \E w \in Warmers : warm' = [v \in Warmers |-> IF v = w THEN Warming ELSE NotWarming]
    /\ toMark' = {} /\ toEnqueue' = {}
    /\ UNCHANGED <<tree, saved>>

-----------------------------------------------------------------------------
Changes == \E d \in Dir : FilesChange(d) \/ JobReplaces(d) \/ RemoveDir(d) \/ MakeDir(d)

Goes ==
    \/ Take
    \/ \E d \in Dir : \/ Visit(d) \/ VisitFails(d) \/ Succeeds(d) \/ Fails(d) \/ Returns(d)
                      \/ InvalidateCache(d) \/ Enqueue(d)
    \/ \E w \in Warmers : Warms(w)

Next ==
    \/ Changes \/ Goes
    \/ \E d \in Dir : GetDirCount(d) \/ Reconcile(d)
    \/ \E w \in Warmers : ClearCache(w)
    \/ Export \/ Restart

\* Goroutines go on, and somebody opens each directory again and again.
Fairness ==
    /\ WF_vars(Take)
    /\ \A d \in Dir : /\ WF_vars(Visit(d) \/ VisitFails(d) \/ Succeeds(d) \/ Fails(d) \/ Returns(d))
                     /\ WF_vars(GetDirCount(d))
    /\ WF_vars(\E d \in Dir : InvalidateCache(d) \/ Enqueue(d))
    /\ \A w \in Warmers : WF_vars(Warms(w))

Spec == Init /\ [][Next]_vars /\ Fairness

-----------------------------------------------------------------------------
(* Properties.                                                             *)

\* Types, and the shape of the work: a walk is on exactly where workers are in
\* countGroup.Do, no more of them than there are, and the queue keeps to its size.
TypeOK ==
    /\ exists \subseteq Dir /\ Root \in exists
    /\ \A d \in exists \ {Root} : Parent[d] \in exists
    /\ files \in [Dir -> 0 .. MaxFiles] /\ version \in [Dir -> Nat]
    /\ cache \in [Dir -> Entry]
    /\ Len(queue) <= QueueSize /\ \A i \in DOMAIN queue : queue[i] \in Dir
    /\ \A d \in Dir : walk[d].on <=> working[d] > 0
    /\ Sum(working, Dir) \in 0 .. Workers
    /\ toMark \subseteq Dir /\ toEnqueue \subseteq Dir
    /\ \A d \in Dir : cache[d].state = "ready" => cache[d].known

\* A count that is shown as ready, whose signature is the directory's and which no
\* unannounced change or race of a walk has spoilt, is the number of videos below the
\* directory: once InvalidateCache has run for a job, no directory above its file
\* shows the count of before as ready.
ReadyIsRight ==
    \A d \in exists :
        Fresh(d) /\ ~cache[d].raced /\ toMark \cap Below(d) = {}
            => cache[d].count = Total(d)

\* The last count of d stays; a walk that has ended without an error puts its own in its
\* place; a walk of everything without an error that has not met d removes it; or a restart
\* goes back to what was saved.
LastCountKept(d) ==
    \/ cache'[d].known /\ cache'[d].count = cache[d].count
    \/ cache'[d].count = walk[d].count /\ Succeeds(d)
    \/ \E w \in Warmers :
          \/ cache'[d].count = warm[w].found[d] /\ WarmPopulates(w, d) /\ d \notin warm[w].errors
          \/ cache'[d] = Absent /\ WarmPrunes(w) /\ d \notin warm[w].seen /\ warm[w].errors = {}
    \/ Restart

\* The last count is never lost, but for the counts of the directories that
\* WarmCountCache could not read and of those above: it writes what it has found.
KeepsLastCount ==
    [][\A d \in Dir : cache[d].known =>
         LastCountKept(d) \/ \E w \in Warmers : WarmPopulates(w, d) /\ d \in warm[w].errors]_vars

\* dir_stats.go, of dirCount: "last-known values are never deleted during normal operation.
\* Values are only replaced when a recompute successfully completes."  Not so.
OnlySuccessReplaces == [][\A d \in Dir : cache[d].known => LastCountKept(d)]_vars

\* When the tree has come to rest, every directory ends up ready, with its present
\* signature, although the queue drops what does not fit.
Settles == <>[](\A d \in exists : Fresh(d))
=============================================================================
