---------------------------- MODULE StartupProofs ----------------------------
(***************************************************************************)
(* Theorems about Startup, and through it about DurableQueue: for any      *)
(* number of jobs and failed writes, any old queue, and any crashes.       *)
(*                                                                         *)
(* The inductive invariant has two parts.  StoreIInv is about the queue,   *)
(* the tables behind it and the calls the running method has still to      *)
(* make: a table may differ from memory only where one of these calls will *)
(* set it right, and each call still finds what it needs (SyncIInv).       *)
(* StartIInv is about the start: what the files and the database hold of   *)
(* the old queue at each point of the import, and which columns there are  *)
(* at each point of the migration.                                         *)
(***************************************************************************)
EXTENDS Startup, JobQueueProofs, SequenceTheorems, FiniteSetTheorems

-----------------------------------------------------------------------------
(* The inductive invariant: the tables.                                    *)

\* A call of the store.
Call == [call : {"save", "place", "erase", "order", "count"}, jobs : SUBSET JobId]

\* Types of the database's tables.
TablesTypeOK ==
    /\ row \in [JobId -> Status \cup {Absent}]
    /\ rowPhase \in [JobId -> Phase]
    /\ placed \subseteq JobId
    /\ place \subseteq placed \X placed
    /\ counters \in BOOLEAN
    /\ lifetime \in [Shrinking -> 0 .. MaxCounted]
    /\ session \in [Shrinking -> 0 .. MaxCounted]
    /\ missed \subseteq Shrinking

\* The places are a strict order of the jobs that have one.
PlacesAreOrdered ==
    /\ \A a \in placed : <<a, a>> \notin place
    /\ \A a, b \in placed : a # b => (<<a, b>> \in place) # (<<b, a>> \in place)
    /\ \A a, b, c \in placed : <<a, b>> \in place /\ <<b, c>> \in place => <<a, c>> \in place

RowsHaveNoStalePhase ==
    \A j \in JobId : row[j] \in {"pending", "skipped", Absent} => rowPhase[j] = NoPhase

\* An id that was not issued has left no trace in the tables.
UnissuedHasNoTrace ==
    /\ \A j \in JobId : j > lastId => row[j] = Absent /\ j \notin placed
    /\ \A j \in Shrinking : j > lastId => lifetime[j] = 0

SessionWithinLifetime == \A j \in Shrinking : session[j] <= lifetime[j]

TablesIInv ==
    /\ TablesTypeOK /\ PlacesAreOrdered /\ RowsHaveNoStalePhase
    /\ UnissuedHasNoTrace /\ SessionWithinLifetime

\* Types of the running method.  Only Remove may be called for an id that was not issued.
MethodTypeOK ==
    /\ program \in {"up", "down", "reset"}
    /\ failures \in 0 .. MaxFailures
    /\ writes \in Seq(Call)
    /\ program # "up" => writes = <<>>
    /\ \A w \in Calls : w.call # "erase" => \A j \in w.jobs : j <= lastId
    /\ \A w \in Calls : w.call = "count" => w.jobs \subseteq Shrinking

-----------------------------------------------------------------------------
(* The calls still to make, and what is in sync but for them.              *)

\* The jobs that are still to be given a place, to be erased, to be saved.
Places == {j \in JobId : Place(j) \in Calls}
Erases == {j \in JobId : Erase(j) \in Calls}
Saves  == {j \in JobId : \E w \in Calls : w.call = "save" /\ j \in w.jobs}

\* A save comes first, before a count or the places of the jobs it saves, and never
\* with an erasure; a saving not counted yet is to be counted after it.
SavesAreRight ==
    \A i \in DOMAIN writes : writes[i].call = "save" =>
        /\ i = 1
        /\ \A j \in writes[i].jobs :
              /\ j \in Present
              /\ row[j] # Absent \/ j \in Places
              /\ j \in Shrinking => /\ lifetime[j] = 0
                                    /\ status[j] = "complete" => Count(j) \in Calls
        /\ Erases = {}

\* A place is given once to a job that has none, after its row, and in the order of
\* the queue.
PlacesAreRight ==
    \A i \in DOMAIN writes : writes[i].call = "place" =>
        \E j \in Present :
            /\ writes[i] = Place(j)
            /\ j \notin placed
            /\ row[j] # Absent \/ j \in Saves
            /\ \A k \in DOMAIN writes : k # i => writes[k] # Place(j)
            /\ \A k \in Present \ {j} :
                  (\A m \in DOMAIN writes : m > i => writes[m] # Place(k)) => <<k, j>> \in order
            /\ Erases = {} /\ SetOrder \notin Calls

\* What is erased is not in the queue any more.
ErasesAreRight ==
    \A i \in DOMAIN writes : writes[i].call = "erase" =>
        \E j \in JobId \ Present : writes[i] = Erase(j) /\ SetOrder \notin Calls

\* The places are written anew in the last call.
OrderIsLast ==
    \A i \in DOMAIN writes : writes[i].call = "order" => writes[i] = SetOrder /\ i = Len(writes)

\* A saving is counted in the last call, once, and for a job whose row says or will
\* say complete.
CountsAreRight ==
    \A i \in DOMAIN writes : writes[i].call = "count" =>
        \E j \in Shrinking :
            /\ writes[i] = Count(j)
            /\ i = Len(writes)
            /\ status[j] = "complete"
            /\ lifetime[j] = 0
            /\ row[j] = "complete" \/ j \in Saves

\* The rows of the other jobs are what memory has.
RowsInSync ==
    \A j \in JobId \ (Saves \cup Erases) : row[j] = status[j] /\ rowPhase[j] = phase[j]

\* So is the order of those that are placed.
OrderInSync ==
    SetOrder \notin Calls =>
        \A j, k \in JobId \ (Places \cup Erases) :
            (<<j, k>> \in LoadedOrder) <=> (<<j, k>> \in order)

\* As long as no write has failed.
SyncIInv ==
    program = "up" /\ failures = 0 =>
        /\ SavesAreRight /\ PlacesAreRight /\ ErasesAreRight /\ OrderIsLast /\ CountsAreRight
        /\ RowsInSync /\ OrderInSync

\* Each saving is in the total once at most.
SavingsIInv ==
    failures = 0 =>
        \A j \in Shrinking :
            /\ lifetime[j] <= 1
            /\ lifetime[j] = 1 => row[j] \in {"complete", Absent}
            /\ row[j] = "complete" /\ Count(j) \notin Calls => lifetime[j] = 1 \/ j \in missed

\* The first part of the inductive invariant.
StoreIInv == QueueIInv /\ TablesIInv /\ MethodTypeOK /\ SyncIInv /\ SavingsIInv

-----------------------------------------------------------------------------
(* The inductive invariant: the start.                                     *)

\* Types of the variables of the start, and of the old queue.
StartTypeOK ==
    /\ start \in {"off", "read", "schema", "version", "counters", "columns", "ready", "order"}
    /\ next \in Nat \ {0}
    /\ importing \in BOOLEAN
    /\ files \subseteq {"json", "backup", "corrupt"}
    /\ exists \in BOOLEAN
    /\ version \in 0 .. SchemaVersion
    /\ columns \subseteq Columns
    /\ loaded \in BOOLEAN
    /\ \E n \in 0 .. MaxJobs : n <= lastId /\ old \in Queues(n)
    /\ mishaps \subseteq {"counters", "columns", "import"}

\* The tables are empty.
NothingStored ==
    /\ row = [j \in JobId |-> Absent]
    /\ placed = {}
    /\ place = {}
    /\ counters = FALSE

\* What is so at the points of the start.
StartIsRight ==
    /\ program = "reset" => start = "ready" /\ ~importing
    /\ program = "up" => start = "off" /\ ~importing /\ loaded
    /\ loaded => exists /\ old = NoQueue
    /\ start = "read" => ~exists /\ ~importing /\ "json" \in files
    /\ start = "order" => importing
    /\ start \in {"version", "counters", "columns", "ready", "order"} => exists
    /\ importing => /\ "json" \in files /\ "backup" \in files /\ ~loaded
                    /\ Jobs # {}
                    /\ start \in {"schema", "version", "counters", "ready", "order"}
                    /\ start = "schema" => ~exists
                    /\ start = "version" => version = 0

\* What an early version saved is in the counters or was missed.
OldSavings ==
    \A j \in Shrinking \cap Jobs :
        old.jobs[j] = "complete" => lifetime[j] = 1 \/ j \in missed

\* Until a queue was loaded, the old one is in a file or all of it has rows; with a
\* file nothing was saved or encoded by this version.
FilesAreRight ==
    ~loaded => IF files = {} THEN \A j \in Jobs : row[j] # Absent
               ELSE /\ lifetime = [j \in Shrinking |-> 0]
                    /\ rowPhase = [j \in JobId |-> NoPhase]

\* A database that does not exist, or that an import has just begun, holds no job.
EmptyIfAbsent ==
    /\ ~exists => version = 0 /\ columns = {} /\ NothingStored
    /\ importing /\ start # "order" => placed = {} /\ place = {} /\ row = [j \in JobId |-> Absent]

\* Columns, counters and version, at each point of the migration.
SchemaIsRight ==
    /\ exists /\ version = 0 => columns = Columns
    /\ version = SchemaVersion => columns = Columns
    /\ version \in 1 .. SchemaVersion - 1 /\ start # "columns" =>
          /\ ColumnsOf(version) \subseteq columns
          /\ columns = ColumnsOf(version) \/ "columns" \in mishaps
    /\ start = "columns" =>
          /\ version \in 1 .. SchemaVersion - 1
          /\ next \in FirstColumn .. Len(Since) + 1
          /\ 1 .. next - 1 \subseteq columns
          /\ columns = 1 .. next - 1 \/ "columns" \in mishaps
          /\ version < 2 /\ next > 1 => counters
    /\ version >= 2 /\ start # "counters" => counters \/ "counters" \in mishaps
    /\ start \in {"counters", "ready", "order"} => version = SchemaVersion
    /\ program = "up" => version = SchemaVersion

\* The import has given their places to the jobs before next.
Imported ==
    /\ importing /\ start = "order"
    /\ row = [j \in JobId |-> IF j \in Jobs THEN old.jobs[j] ELSE Absent]
    /\ next \in 1 .. Cardinality(Jobs) + 1
    /\ placed = {old.order[i] : i \in 1 .. next - 1}
    /\ place = {p \in Jobs \X Jobs :
                   \E i, k \in 1 .. next - 1 : i < k /\ p = <<old.order[i], old.order[k]>>}

\* The database holds the old queue, all of it.
HoldsOld ==
    /\ exists /\ ~importing
    /\ \A j \in JobId : IF j \in Jobs
                        THEN \/ row[j] = old.jobs[j]
                             \/ row[j] = "pending" /\ old.jobs[j] = "running"
                        ELSE row[j] = Absent
    /\ program = "reset" => \A j \in JobId : row[j] # "running"
    /\ placed = Jobs
    /\ place = Before

\* How far the upgrade is, if nothing interrupted it.
UpgradeIInv ==
    ~loaded /\ "import" \notin mishaps =>
        \/ Jobs = {} /\ row = [j \in JobId |-> Absent] /\ placed = {} /\ place = {}
        \/ ~importing /\ "json" \in files /\ ~exists /\ start \in {"off", "read"}
        \/ importing /\ start # "order"
        \/ Imported
        \/ HoldsOld

\* The second part of the inductive invariant.
StartIInv ==
    /\ StartTypeOK /\ StartIsRight /\ OldSavings /\ FilesAreRight /\ EmptyIfAbsent
    /\ SchemaIsRight /\ UpgradeIInv

-----------------------------------------------------------------------------
(* The store's calls and the tables.                                       *)

\* SaveJob and SaveJobs keep the tables right: memory has no phase that is stale.
LEMMA SaveRowsStep ==
    ASSUME QueueIInv, TablesIInv, NEW S \in SUBSET JobId, SaveRows(S),
           UNCHANGED <<sumvars, lastId>>
    PROVE  TablesIInv'
  <1>1. TablesTypeOK'
    BY DEF TablesIInv, TablesTypeOK, SaveRows, QueueIInv, QueueTypeOK, sumvars
  <1>2. PlacesAreOrdered'
    BY DEF TablesIInv, PlacesAreOrdered, SaveRows
  <1>3. RowsHaveNoStalePhase'
    BY DEF TablesIInv, RowsHaveNoStalePhase, SaveRows, QueueIInv, NoStalePhase
  <1>4. UnissuedHasNoTrace' /\ SessionWithinLifetime'
    BY DEF TablesIInv, UnissuedHasNoTrace, SessionWithinLifetime, SaveRows, QueueIInv, Unissued, sumvars
  <1> QED BY <1>1, <1>2, <1>3, <1>4 DEF TablesIInv

\* AppendToOrder puts a job behind all that have a place.
LEMMA AppendToOrderStep ==
    ASSUME lastId \in Nat, TablesIInv, NEW j \in JobId, j <= lastId, AppendToOrder(j),
           UNCHANGED <<sumvars, lastId>>
    PROVE  TablesIInv'
  <1>1. CASE UNCHANGED <<placed, place>>
    BY <1>1 DEF AppendToOrder, TablesIInv, TablesTypeOK, PlacesAreOrdered, RowsHaveNoStalePhase,
                UnissuedHasNoTrace, SessionWithinLifetime, sumvars
  <1>2. CASE j \notin placed /\ placed' = placed \cup {j} /\ place' = place \cup (placed \X {j})
    <2>1. TablesTypeOK'
      BY <1>2 DEF TablesIInv, TablesTypeOK, AppendToOrder, sumvars
    <2>2. PlacesAreOrdered'
      <3>1. \A a, b : <<a, b>> \in place' <=> <<a, b>> \in place \/ (a \in placed /\ b = j)
        BY <1>2
      <3>2. \A a, b : <<a, b>> \in place => a \in placed /\ b \in placed
        BY DEF TablesIInv, TablesTypeOK
      <3> QED BY <1>2, <3>1, <3>2 DEF TablesIInv, PlacesAreOrdered
    <2>3. RowsHaveNoStalePhase' /\ UnissuedHasNoTrace' /\ SessionWithinLifetime'
      BY <1>2, MaxJobsAssumption
      DEF TablesIInv, AppendToOrder, RowsHaveNoStalePhase, UnissuedHasNoTrace,
          SessionWithinLifetime, sumvars, JobId
    <2> QED BY <2>1, <2>2, <2>3 DEF TablesIInv
  <1> QED BY <1>1, <1>2 DEF AppendToOrder

\* DeleteJob, with the cascade or without it.
LEMMA DeleteJobStep ==
    ASSUME lastId \in Nat, TablesIInv, NEW j \in JobId, DeleteJob(j), UNCHANGED <<sumvars, lastId>>
    PROVE  TablesIInv'
  <1>1. TablesTypeOK'
    BY StatusFacts DEF TablesIInv, TablesTypeOK, DeleteJob, sumvars
  <1>2. placed' \subseteq placed /\ \A a, b \in placed' : <<a, b>> \in place' <=> <<a, b>> \in place
    BY DEF DeleteJob
  <1>3. PlacesAreOrdered'
    BY <1>2 DEF TablesIInv, PlacesAreOrdered
  <1>4. RowsHaveNoStalePhase' /\ UnissuedHasNoTrace' /\ SessionWithinLifetime'
    BY <1>2 DEF TablesIInv, TablesTypeOK, RowsHaveNoStalePhase, UnissuedHasNoTrace,
                SessionWithinLifetime, DeleteJob, sumvars
  <1> QED BY <1>1, <1>3, <1>4 DEF TablesIInv

\* SetOrder writes the order of the queue, which is one.
LEMMA ReplaceOrderStep ==
    ASSUME QueueIInv, TablesIInv, ReplaceOrder, UNCHANGED <<sumvars, lastId>>
    PROVE  TablesIInv'
  <1>1. Present \subseteq JobId /\ \A j \in Present : ~(j > lastId)
    BY DEF Present, QueueIInv, Unissued
  <1>2. CASE placed' = Present /\ place' = order
    <2>1. \A p \in order : p \in Present \X Present
      BY DEF QueueIInv, QueueTypeOK, OrderMatchesJobs
    <2>2. TablesTypeOK'
      BY <1>1, <1>2, <2>1 DEF TablesIInv, TablesTypeOK, ReplaceOrder, sumvars
    <2>3. PlacesAreOrdered'
      BY <1>1, <1>2 DEF QueueIInv, OrderMatchesJobs, PlacesAreOrdered
    <2> QED BY <1>1, <1>2, <2>2, <2>3
            DEF TablesIInv, RowsHaveNoStalePhase, UnissuedHasNoTrace, SessionWithinLifetime,
                ReplaceOrder, sumvars
  <1>3. CASE UNCHANGED <<placed, place>>
    BY <1>3 DEF TablesIInv, TablesTypeOK, PlacesAreOrdered, RowsHaveNoStalePhase,
                UnissuedHasNoTrace, SessionWithinLifetime, ReplaceOrder, sumvars
  <1> QED BY <1>2, <1>3 DEF ReplaceOrder

\* Both counters grow together, and stop together.
LEMMA AddToLifetimeSavedStep ==
    ASSUME lastId \in Nat, TablesIInv, NEW j \in Shrinking, j <= lastId, AddToLifetimeSaved(j),
           UNCHANGED <<jobvars, lastId>>
    PROVE  TablesIInv'
  <1>2. TablesTypeOK'
    BY DurableAssumptions DEF TablesIInv, TablesTypeOK, AddToLifetimeSaved, jobvars
  <1>3. SessionWithinLifetime'
    BY DurableAssumptions DEF TablesIInv, TablesTypeOK, AddToLifetimeSaved, SessionWithinLifetime
  <1>4. PlacesAreOrdered' /\ RowsHaveNoStalePhase'
    BY DEF TablesIInv, PlacesAreOrdered, RowsHaveNoStalePhase, jobvars
  <1>5. UnissuedHasNoTrace'
    BY DurableAssumptions
    DEF TablesIInv, TablesTypeOK, UnissuedHasNoTrace, AddToLifetimeSaved, jobvars, JobId
  <1> QED BY <1>2, <1>3, <1>4, <1>5 DEF TablesIInv

-----------------------------------------------------------------------------
(* The calls a method has still to make.                                   *)

\* What the calls of the methods are, without their records.
LEMMA CallFacts ==
    /\ \A S \in SUBSET JobId : Save(S) \in Call /\ Save(S).call = "save" /\ Save(S).jobs = S
    /\ \A j \in JobId : /\ Place(j) \in Call /\ Place(j).call = "place" /\ Place(j).jobs = {j}
                        /\ Erase(j) \in Call /\ Erase(j).call = "erase" /\ Erase(j).jobs = {j}
                        /\ Count(j) \in Call /\ Count(j).call = "count" /\ Count(j).jobs = {j}
    /\ SetOrder \in Call /\ SetOrder.call = "order" /\ SetOrder.jobs = {}
    /\ \A w \in Call : w.jobs \in SUBSET JobId
  BY DEF Call, Save, Place, Erase, SetOrder, Count

\* A call names its job.
LEMMA CallsNameJobs ==
    ASSUME NEW j, NEW k
    PROVE  /\ Place(j) = Place(k) => j = k
           /\ Count(j) = Count(k) => j = k
           /\ Erase(j) = Erase(k) => j = k
  <1>1. {j} = {k} => j = k
    OBVIOUS
  <1> QED BY <1>1 DEF Place, Count, Erase

\* What is left of the calls after the first.
LEMMA TailFacts ==
    ASSUME writes \in Seq(Call), writes # <<>>, writes' = Tail(writes)
    PROVE  /\ Len(writes) \in Nat \ {0} /\ DOMAIN writes = 1 .. Len(writes)
           /\ writes[1] = Head(writes) /\ Head(writes) \in Call
           /\ writes' \in Seq(Call) /\ Len(writes') = Len(writes) - 1
           /\ DOMAIN writes' = 1 .. Len(writes) - 1
           /\ \A i \in 1 .. Len(writes) - 1 : writes'[i] = writes[i + 1]
           /\ Calls' \subseteq Calls
           /\ Calls = Calls' \cup {Head(writes)}
           /\ Calls \subseteq Call
  <1>1. /\ Len(writes) \in Nat \ {0} /\ DOMAIN writes = 1 .. Len(writes)
        /\ writes[1] = Head(writes) /\ Head(writes) \in Call
    BY EmptySeq, HeadTailProperties, LenProperties
  <1>2. /\ writes' \in Seq(Call) /\ Len(writes') = Len(writes) - 1
        /\ DOMAIN writes' = 1 .. Len(writes) - 1
        /\ \A i \in 1 .. Len(writes) - 1 : writes'[i] = writes[i + 1]
    BY <1>1, HeadTailProperties, LenProperties
  <1>3. Calls' \subseteq Calls
    BY <1>1, <1>2 DEF Calls
  <1>4. Calls \subseteq Calls' \cup {Head(writes)}
    <2> SUFFICES ASSUME NEW i \in 1 .. Len(writes), i # 1 PROVE writes[i] \in Calls'
      BY <1>1 DEF Calls
    <2>1. i - 1 \in 1 .. Len(writes) - 1 /\ writes'[i - 1] = writes[(i - 1) + 1]
      BY <1>1, <1>2
    <2> QED BY <1>1, <1>2, <2>1 DEF Calls
  <1>5. Head(writes) \in Calls /\ Calls \subseteq Call
    BY <1>1, LenProperties, ElementOfSeq DEF Calls
  <1> QED BY <1>1, <1>2, <1>3, <1>4, <1>5

\* No call left.
LEMMA NoCalls == ASSUME writes = <<>> PROVE Calls = {} /\ Len(writes) = 0 /\ DOMAIN writes = {}
  BY DEF Calls

\* One call, and two.
LEMMA OneCall ==
    ASSUME NEW c \in Call, writes' = <<c>>
    PROVE  /\ writes' \in Seq(Call) /\ Len(writes') = 1 /\ DOMAIN writes' = {1}
           /\ writes'[1] = c /\ Calls' = {c}
  <1>1. writes' \in Seq(Call) /\ Len(writes') = 1 /\ writes'[1] = c
    OBVIOUS
  <1>2. DOMAIN writes' = {1}
    BY <1>1, LenProperties
  <1> QED BY <1>1, <1>2 DEF Calls

LEMMA TwoCalls ==
    ASSUME NEW c \in Call, NEW d \in Call, writes' = <<c, d>>
    PROVE  /\ writes' \in Seq(Call) /\ Len(writes') = 2 /\ DOMAIN writes' = {1, 2}
           /\ writes'[1] = c /\ writes'[2] = d /\ Calls' = {c, d}
  <1>1. writes' \in Seq(Call) /\ Len(writes') = 2 /\ writes'[1] = c /\ writes'[2] = d
    OBVIOUS
  <1>2. DOMAIN writes' = {1, 2}
    BY <1>1, LenProperties
  <1> QED BY <1>1, <1>2 DEF Calls

\* The calls of Add and AddMultiple: the rows, then each place.
LEMMA AddsCalls ==
    ASSUME QueueTypeOK, NEW n \in Nat, lastId + n <= MaxJobs,
           writes' = <<Save(NewIds(n))>> \o [i \in 1 .. n |-> Place(lastId + i)]
    PROVE  /\ writes' \in Seq(Call) /\ Len(writes') = n + 1 /\ DOMAIN writes' = 1 .. n + 1
           /\ writes'[1] = Save(NewIds(n))
           /\ \A i \in 1 .. n : writes'[i + 1] = Place(lastId + i) /\ lastId + i \in NewIds(n)
           /\ Calls' = {Save(NewIds(n))} \cup {Place(j) : j \in NewIds(n)}
           /\ NewIds(n) \subseteq JobId
  <1> DEFINE s == <<Save(NewIds(n))>>
             t == [i \in 1 .. n |-> Place(lastId + i)]
  <1>1. lastId \in Nat /\ NewIds(n) \subseteq JobId
    BY MaxJobsAssumption DEF QueueTypeOK, NewIds, JobId
  <1>2. \A i \in 1 .. n : lastId + i \in NewIds(n)
    BY <1>1 DEF NewIds
  <1>3. s \in Seq(Call) /\ Len(s) = 1 /\ s[1] = Save(NewIds(n))
    BY <1>1, CallFacts
  <1>4. t \in Seq(Call) /\ Len(t) = n
    BY <1>1, <1>2, CallFacts
  <1> HIDE DEF s, t
  <1>5. writes' = s \o t
    BY DEF s, t
  <1>6. /\ writes' \in Seq(Call) /\ Len(writes') = n + 1
        /\ \A i \in 1 .. n + 1 : writes'[i] = IF i <= 1 THEN s[i] ELSE t[i - 1]
    <2>1. 1 + n = n + 1
      OBVIOUS
    <2>2. /\ s \o t \in Seq(Call) /\ Len(s \o t) = Len(s) + Len(t)
          /\ \A i \in 1 .. Len(s) + Len(t) : (s \o t)[i] = IF i <= Len(s) THEN s[i] ELSE t[i - Len(s)]
      BY <1>3, <1>4, ConcatProperties, Zenon
    <2> QED BY <1>3, <1>4, <1>5, <2>1, <2>2
  <1>7. DOMAIN writes' = 1 .. n + 1
    BY <1>6, LenProperties
  <1>8. \A i \in 1 .. n : writes'[i + 1] = Place(lastId + i)
    <2> SUFFICES ASSUME NEW i \in 1 .. n PROVE writes'[i + 1] = Place(lastId + i)
      OBVIOUS
    <2>1. i + 1 \in 1 .. n + 1 /\ ~(i + 1 <= 1) /\ (i + 1) - 1 = i
      OBVIOUS
    <2>2. writes'[i + 1] = t[(i + 1) - 1]
      BY <1>6, <2>1
    <2>3. t[i] = Place(lastId + i)
      BY DEF t
    <2> QED BY <2>1, <2>2, <2>3
  <1>9. writes'[1] = Save(NewIds(n))
    BY <1>3, <1>6
  <1>10. Calls' = {Save(NewIds(n))} \cup {Place(j) : j \in NewIds(n)}
    <2>1. ASSUME NEW j \in NewIds(n) PROVE Place(j) \in Calls'
      <3>1. j - lastId \in 1 .. n /\ lastId + (j - lastId) = j
        BY <1>1 DEF NewIds
      <3>2. writes'[(j - lastId) + 1] = Place(j)
        BY <1>8, <3>1
      <3>3. (j - lastId) + 1 \in DOMAIN writes'
        BY <1>7, <3>1
      <3> QED BY <3>2, <3>3 DEF Calls
    <2>2. ASSUME NEW i \in 1 .. n + 1, i # 1
          PROVE  \E j \in NewIds(n) : writes'[i] = Place(j)
      <3>1. i - 1 \in 1 .. n /\ (i - 1) + 1 = i
        BY <2>2
      <3> QED BY <1>2, <1>8, <3>1
    <2>3. 1 \in DOMAIN writes'
      BY <1>7
    <2> QED BY <1>7, <1>9, <2>1, <2>2, <2>3 DEF Calls
  <1> QED BY <1>1, <1>2, <1>6, <1>7, <1>8, <1>9, <1>10

\* The order of the queue, as facts without Booleans that differ.
LEMMA OrderFacts ==
    ASSUME QueueIInv
    PROVE  /\ Present \subseteq JobId
           /\ \A a, b : <<a, b>> \in order => a \in Present /\ b \in Present /\ a # b
           /\ \A a, b \in Present : a # b => <<a, b>> \in order \/ <<b, a>> \in order
           /\ \A a, b : <<a, b>> \in order => <<b, a>> \notin order
           /\ \A a, b, c : <<a, b>> \in order /\ <<b, c>> \in order => <<a, c>> \in order
  <1>1. \A a, b : <<a, b>> \in order => a \in Present /\ b \in Present /\ a # b
    BY DEF QueueIInv, QueueTypeOK, OrderMatchesJobs
  <1>2. \A a, b \in Present : a # b => (<<a, b>> \in order) # (<<b, a>> \in order)
    BY DEF QueueIInv, OrderMatchesJobs
  <1>3. \A a, b, c : <<a, b>> \in order /\ <<b, c>> \in order => <<a, c>> \in order
    BY <1>1 DEF QueueIInv, OrderMatchesJobs
  <1>4. Present \subseteq JobId
    BY DEF Present
  <1>5. \A a, b \in Present : a # b => <<a, b>> \in order \/ <<b, a>> \in order
    <2> SUFFICES ASSUME NEW a \in Present, NEW b \in Present, a # b,
                        <<a, b>> \notin order, <<b, a>> \notin order
                 PROVE  (<<a, b>> \in order) = (<<b, a>> \in order)
      BY <1>2
    <2> QED OBVIOUS
  <1>6. \A a, b : <<a, b>> \in order => <<b, a>> \notin order
    BY <1>1, <1>2, Zenon
  <1> QED BY <1>1, <1>3, <1>4, <1>5, <1>6

\* The jobs of any set can be put in a sequence in the order of the queue: the place of a
\* job in it is the number of jobs of the set that are not behind it.
LEMMA InOrderExists ==
    ASSUME QueueIInv, NEW S \in SUBSET Present
    PROVE  /\ Cardinality(S) \in Nat
           /\ IsFiniteSet(S)
           /\ InOrder(S) \in [1 .. Cardinality(S) -> S]
           /\ \A i, k \in 1 .. Cardinality(S) :
                 i < k => <<InOrder(S)[i], InOrder(S)[k]>> \in order
  <1> DEFINE n       == Cardinality(S)
             Upto(j) == {k \in S : k = j \/ <<k, j>> \in order}
             rank    == [j \in S |-> Cardinality(Upto(j))]
             s       == [i \in 1 .. n |-> CHOOSE j \in S : rank[j] = i]
             IsOrdered(f) == \A i, k \in 1 .. n : i < k => <<f[i], f[k]>> \in order
  <1>1. IsFiniteSet(S) /\ n \in Nat
    <2>1. IsFiniteSet(JobId)
      BY MaxJobsAssumption, FS_Interval DEF JobId
    <2>2. S \subseteq JobId
      BY DEF Present
    <2> QED BY <2>1, <2>2, FS_Subset, FS_CardinalityType
  <1>2. \A j \in S : IsFiniteSet(Upto(j)) /\ rank[j] \in 1 .. n
    <2> SUFFICES ASSUME NEW j \in S PROVE IsFiniteSet(Upto(j)) /\ rank[j] \in 1 .. n
      OBVIOUS
    <2>1. Upto(j) \in SUBSET S /\ j \in Upto(j)
      OBVIOUS
    <2> HIDE DEF Upto
    <2>2. IsFiniteSet(Upto(j)) /\ Cardinality(Upto(j)) <= n
      BY <1>1, <2>1, FS_Subset
    <2>3. Cardinality(Upto(j)) # 0 /\ Cardinality(Upto(j)) \in Nat
      BY <2>1, <2>2, FS_EmptySet, FS_CardinalityType
    <2> QED BY <1>1, <2>2, <2>3
  <1>3. \A a, b \in S : <<a, b>> \in order => rank[a] < rank[b]
    <2> SUFFICES ASSUME NEW a \in S, NEW b \in S, <<a, b>> \in order PROVE rank[a] < rank[b]
      OBVIOUS
    <2>1. /\ a # b /\ <<b, a>> \notin order
          /\ \A c \in S : <<c, a>> \in order => <<c, b>> \in order
      BY DEF QueueIInv, OrderMatchesJobs, Present
    <2>2. Upto(a) \in SUBSET Upto(b) /\ b \in Upto(b) /\ b \notin Upto(a)
      BY <2>1
    <2>3. IsFiniteSet(Upto(a)) /\ IsFiniteSet(Upto(b))
      BY <1>2
    <2>4. rank[a] = Cardinality(Upto(a)) /\ rank[b] = Cardinality(Upto(b))
      OBVIOUS
    <2> HIDE DEF Upto, rank
    <2>5. Cardinality(Upto(a)) <= Cardinality(Upto(b)) /\ Cardinality(Upto(a)) # Cardinality(Upto(b))
      BY <2>2, <2>3, FS_Subset
    <2>6. Cardinality(Upto(a)) \in Nat /\ Cardinality(Upto(b)) \in Nat
      BY <2>3, FS_CardinalityType
    <2> QED BY <2>4, <2>5, <2>6
  <1>4. rank \in [S -> 1 .. n]
    BY <1>2
  <1> HIDE DEF rank
  <1>5. \A a, b \in S : a # b => rank[a] # rank[b]
    <2>1. \A a, b \in S : a # b => <<a, b>> \in order \/ <<b, a>> \in order
      BY OrderFacts
    <2>2. \A a \in S : rank[a] \in Nat
      BY <1>1, <1>4
    <2> SUFFICES ASSUME NEW a \in S, NEW b \in S, a # b PROVE rank[a] # rank[b]
      OBVIOUS
    <2>3. CASE <<a, b>> \in order
      BY <1>3, <2>2, <2>3
    <2>4. CASE <<b, a>> \in order
      BY <1>3, <2>2, <2>4
    <2> QED BY <2>1, <2>3, <2>4
  <1>6. \A i \in 1 .. n : \E j \in S : rank[j] = i
    <2>1. rank \in Injection(S, 1 .. n)
      BY <1>4, <1>5 DEF Injection, IsInjective
    <2>2. IsFiniteSet(1 .. n) /\ Cardinality(1 .. n) = n
      BY <1>1, FS_Interval
    <2>3. rank \in Surjection(S, 1 .. n)
      BY <2>1, <2>2, FS_Injection
    <2> QED BY <2>3 DEF Surjection
  <1>7. s \in [1 .. n -> S] /\ \A i \in 1 .. n : s[i] \in S /\ rank[s[i]] = i
    BY <1>6
  <1> HIDE DEF s
  <1>8. IsOrdered(s)
    <2> SUFFICES ASSUME NEW i \in 1 .. n, NEW k \in 1 .. n, i < k PROVE <<s[i], s[k]>> \in order
      OBVIOUS
    <2>1. s[i] \in S /\ s[k] \in S /\ s[i] # s[k] /\ ~(rank[s[k]] < rank[s[i]])
      BY <1>1, <1>7
    <2> QED BY <1>3, <2>1, OrderFacts
  <1>9. InOrder(S) = CHOOSE f \in [1 .. n -> S] : IsOrdered(f)
    BY DEF InOrder
  <1>10. InOrder(S) \in [1 .. n -> S] /\ IsOrdered(InOrder(S))
    <2> HIDE DEF IsOrdered
    <2> QED BY <1>7, <1>8, <1>9
  <1> QED BY <1>1, <1>10

\* The calls of Clear: each job is deleted.
LEMMA ClearCalls ==
    ASSUME QueueIInv, NEW S \in SUBSET Present, writes' = [i \in DOMAIN InOrder(S) |-> Erase(InOrder(S)[i])]
    PROVE  /\ writes' \in Seq(Call)
           /\ \A i \in DOMAIN writes' : \E j \in S : writes'[i] = Erase(j)
           /\ Calls' = {Erase(j) : j \in S}
  <1> DEFINE n == Cardinality(S)
             s == InOrder(S)
  <1>1. /\ n \in Nat /\ IsFiniteSet(S)
        /\ s \in [1 .. n -> S]
        /\ \A i, k \in 1 .. n : i < k => <<s[i], s[k]>> \in order
    BY InOrderExists
  <1> HIDE DEF s, n
  <1>2. S \subseteq JobId
    BY DEF Present
  <1>3. \A i, k \in 1 .. n : i # k => s[i] # s[k]
    <2>1. \A i, k \in 1 .. n : i < k => s[i] # s[k]
      BY <1>1, <1>2 DEF QueueIInv, OrderMatchesJobs
    <2> QED BY <1>1, <2>1
  <1>4. \A j \in S : \E i \in 1 .. n : s[i] = j
    <2>1. s \in Injection(1 .. n, S)
      BY <1>1, <1>3 DEF Injection, IsInjective
    <2>2. IsFiniteSet(1 .. n) /\ Cardinality(1 .. n) = Cardinality(S)
      BY <1>1, FS_Interval DEF n
    <2>3. s \in Surjection(1 .. n, S)
      BY <1>1, <2>1, <2>2, FS_Injection
    <2> QED BY <2>3 DEF Surjection
  <1>5. writes' = [i \in 1 .. n |-> Erase(s[i])]
    BY <1>1 DEF s
  <1>6. writes' \in Seq(Call)
    BY <1>1, <1>2, <1>5, CallFacts
  <1>7. Calls' = {Erase(j) : j \in S}
    BY <1>1, <1>4, <1>5 DEF Calls
  <1> QED BY <1>1, <1>5, <1>6, <1>7

-----------------------------------------------------------------------------
(* The methods.                                                            *)

\* With no call to make, and no failure so far, the database says what memory says.
LEMMA IdleFacts ==
    ASSUME QueueIInv, TablesIInv, SyncIInv, program = "up", failures = 0, writes = <<>>
    PROVE  /\ row = status /\ rowPhase = phase
           /\ \A j, k \in JobId : (<<j, k>> \in LoadedOrder) <=> (<<j, k>> \in order)
  <1>1. Calls = {} /\ Saves = {} /\ Erases = {} /\ Places = {}
    BY NoCalls DEF Saves, Erases, Places
  <1>2. \A j \in JobId : row[j] = status[j] /\ rowPhase[j] = phase[j]
    BY <1>1 DEF SyncIInv, RowsInSync
  <1>3. row = status /\ rowPhase = phase
    BY <1>2 DEF QueueIInv, QueueTypeOK, TablesIInv, TablesTypeOK
  <1>4. \A j, k \in JobId : (<<j, k>> \in LoadedOrder) <=> (<<j, k>> \in order)
    BY <1>1 DEF SyncIInv, OrderInSync
  <1> QED BY <1>3, <1>4

\* A method touches no table itself.
LEMMA MethodFrame ==
    ASSUME TablesIInv, MethodTypeOK, SavingsIInv, program = "up", writes = <<>>,
           UNCHANGED <<dbvars, program, failures>>,
           lastId \in Nat, lastId' \in Nat, lastId <= lastId', writes' \in Seq(Call),
           \A w \in Calls' : w.call # "erase" => \A j \in w.jobs : j <= lastId',
           \A w \in Calls' : w.call = "count" => w.jobs \subseteq Shrinking
    PROVE  TablesIInv' /\ MethodTypeOK' /\ SavingsIInv'
  <1> USE DEF dbvars, jobvars, sumvars
  <1>1. TablesTypeOK' /\ PlacesAreOrdered' /\ RowsHaveNoStalePhase' /\ SessionWithinLifetime'
    BY DEF TablesIInv, TablesTypeOK, PlacesAreOrdered, RowsHaveNoStalePhase, SessionWithinLifetime
  <1>2. UnissuedHasNoTrace'
    <2>1. \A j \in JobId : j > lastId' => j > lastId
      BY MaxJobsAssumption DEF JobId
    <2>2. \A j \in JobId : j > lastId' => row'[j] = Absent /\ j \notin placed'
      BY <2>1 DEF TablesIInv, UnissuedHasNoTrace
    <2>3. \A j \in Shrinking : j > lastId' => lifetime'[j] = 0
      BY <2>1, DurableAssumptions DEF TablesIInv, UnissuedHasNoTrace
    <2> QED BY <2>2, <2>3 DEF UnissuedHasNoTrace
  <1>3. MethodTypeOK'
    BY DEF MethodTypeOK
  <1>4. Calls = {}
    BY NoCalls
  <1>5. SavingsIInv'
    BY <1>4 DEF SavingsIInv
  <1> QED BY <1>1, <1>2, <1>3, <1>5 DEF TablesIInv

\* A method that changes one present job and saves it, and counts its saving if it
\* completes it.
LEMMA SaveMethod ==
    ASSUME QueueIInv, TablesIInv, SyncIInv, SavingsIInv, program = "up", writes = <<>>,
           UNCHANGED <<dbvars, program, failures, order>>,
           NEW j \in Present, status[j] # "complete", status'[j] # Absent,
           \A k \in JobId \ {j} : status'[k] = status[k] /\ phase'[k] = phase[k],
           \/ writes' = <<Save({j})>> /\ (status'[j] # "complete" \/ j \notin Shrinking)
           \/ writes' = <<Save({j}), Count(j)>> /\ status'[j] = "complete" /\ j \in Shrinking
    PROVE  SyncIInv'
  <1> SUFFICES ASSUME failures = 0
               PROVE  /\ SavesAreRight' /\ PlacesAreRight' /\ ErasesAreRight' /\ OrderIsLast'
                      /\ CountsAreRight' /\ RowsInSync' /\ OrderInSync'
    BY DEF SyncIInv
  <1> USE DEF dbvars, jobvars, sumvars
  <1>1. j \in JobId /\ {j} \in SUBSET JobId /\ status[j] # Absent
    BY DEF Present
  <1>2. Save({j}) \in Call /\ Count(j) \in Call
    BY <1>1, CallFacts
  <1>3. /\ row = status /\ rowPhase = phase
        /\ \A a, b \in JobId : (<<a, b>> \in LoadedOrder) <=> (<<a, b>> \in order)
    BY IdleFacts
  <1>4. j \in Shrinking => lifetime[j] = 0
    BY <1>1, <1>3, DurableAssumptions DEF SavingsIInv, TablesIInv, TablesTypeOK
  <1>5. /\ Calls' \subseteq {Save({j}), Count(j)} /\ Save({j}) \in Calls'
        /\ \A i \in DOMAIN writes' : \/ i = 1 /\ writes'[i] = Save({j})
                                     \/ /\ i = Len(writes') /\ writes'[i] = Count(j)
                                        /\ status'[j] = "complete" /\ j \in Shrinking
        /\ status'[j] = "complete" /\ j \in Shrinking => Count(j) \in Calls'
    <2>1. CASE writes' = <<Save({j})>> /\ (status'[j] # "complete" \/ j \notin Shrinking)
      <3>1. DOMAIN writes' = {1} /\ writes'[1] = Save({j}) /\ Calls' = {Save({j})}
        BY <1>2, <2>1, OneCall
      <3> QED BY <2>1, <3>1
    <2>2. CASE writes' = <<Save({j}), Count(j)>> /\ status'[j] = "complete" /\ j \in Shrinking
      <3>1. /\ DOMAIN writes' = {1, 2} /\ Calls' = {Save({j}), Count(j)} /\ Len(writes') = 2
            /\ writes'[1] = Save({j}) /\ writes'[2] = Count(j)
        BY <1>2, <2>2, TwoCalls
      <3> QED BY <2>2, <3>1
    <2> QED BY <2>1, <2>2
  <1>6. Places' = {} /\ Erases' = {} /\ Saves' = {j} /\ SetOrder \notin Calls'
    BY <1>1, <1>5, CallFacts DEF Places, Erases, Saves
  <1>7. j \in Present'
    BY <1>1 DEF Present
  <1>8. SavesAreRight'
    BY <1>1, <1>3, <1>4, <1>5, <1>6, <1>7, CallFacts DEF SavesAreRight
  <1>9. PlacesAreRight' /\ ErasesAreRight' /\ OrderIsLast'
    BY <1>1, <1>5, CallFacts DEF PlacesAreRight, ErasesAreRight, OrderIsLast
  <1>10. CountsAreRight'
    BY <1>1, <1>4, <1>5, <1>6, CallFacts DEF CountsAreRight
  <1>11. RowsInSync'
    BY <1>3, <1>6 DEF RowsInSync
  <1>12. OrderInSync'
    <2>1. LoadedOrder' = LoadedOrder /\ order' = order
      BY DEF LoadedOrder
    <2> QED BY <1>3, <2>1 DEF OrderInSync
  <1> QED BY <1>8, <1>9, <1>10, <1>11, <1>12

\* Requeue saves the job and writes the order anew.
LEMMA RequeueMethod ==
    ASSUME QueueIInv, TablesIInv, SyncIInv, SavingsIInv, NEW j \in JobId, Requeues(j)
    PROVE  SyncIInv'
  <1> SUFFICES ASSUME failures = 0, program = "up"
               PROVE  /\ SavesAreRight' /\ PlacesAreRight' /\ ErasesAreRight' /\ OrderIsLast'
                      /\ CountsAreRight' /\ RowsInSync' /\ OrderInSync'
    BY DEF SyncIInv, Requeues, Method
  <1> USE DEF dbvars, jobvars, sumvars
  <1>0. /\ status[j] = "running" /\ writes = <<>> /\ writes' = <<Save({j}), SetOrder>>
        /\ status' = [status EXCEPT ![j] = "pending"] /\ phase' = [phase EXCEPT ![j] = NoPhase]
        /\ UNCHANGED dbvars
    BY DEF Requeues, Method, Requeue, SetStatus
  <1>1. {j} \in SUBSET JobId /\ Save({j}) \in Call /\ SetOrder \in Call
    BY CallFacts
  <1>3. row = status /\ rowPhase = phase
    BY <1>0, IdleFacts
  <1>4. j \in Shrinking => lifetime[j] = 0
    BY <1>0, <1>3 DEF SavingsIInv, TablesIInv, TablesTypeOK, Absent
  <1>5. /\ Calls' = {Save({j}), SetOrder} /\ DOMAIN writes' = {1, 2} /\ Len(writes') = 2
        /\ writes'[1] = Save({j}) /\ writes'[2] = SetOrder
    BY <1>0, <1>1, TwoCalls
  <1>6. Places' = {} /\ Erases' = {} /\ Saves' = {j}
    BY <1>1, <1>5, CallFacts DEF Places, Erases, Saves
  <1>7. /\ status'[j] = "pending" /\ row[j] # Absent
        /\ \A k \in JobId \ {j} : status'[k] = status[k] /\ phase'[k] = phase[k]
    BY <1>0, <1>3 DEF QueueIInv, QueueTypeOK, Absent
  <1>8. j \in Present'
    BY <1>7 DEF Present, Absent
  <1>9. SavesAreRight'
    BY <1>0, <1>1, <1>4, <1>5, <1>6, <1>7, <1>8, CallFacts DEF SavesAreRight
  <1>10. PlacesAreRight' /\ ErasesAreRight' /\ OrderIsLast' /\ CountsAreRight'
    BY <1>1, <1>5, CallFacts DEF PlacesAreRight, ErasesAreRight, OrderIsLast, CountsAreRight
  <1>11. RowsInSync'
    BY <1>0, <1>3, <1>6, <1>7 DEF RowsInSync
  <1>12. OrderInSync'
    BY <1>5 DEF OrderInSync
  <1> QED BY <1>9, <1>10, <1>11, <1>12

\* Clear and Remove delete jobs from memory and then from the tables.
LEMMA EraseMethod ==
    ASSUME QueueIInv, TablesIInv, SyncIInv, program = "up", writes = <<>>,
           UNCHANGED <<dbvars, program, failures>>,
           NEW S \in SUBSET JobId, Delete(S), Calls' = {Erase(j) : j \in S},
           \A i \in DOMAIN writes' : \E j \in S : writes'[i] = Erase(j)
    PROVE  SyncIInv'
  <1> SUFFICES ASSUME failures = 0
               PROVE  /\ SavesAreRight' /\ PlacesAreRight' /\ ErasesAreRight' /\ OrderIsLast'
                      /\ CountsAreRight' /\ RowsInSync' /\ OrderInSync'
    BY DEF SyncIInv
  <1> USE DEF dbvars, jobvars
  <1>1. /\ row = status /\ rowPhase = phase
        /\ \A a, b \in JobId : (<<a, b>> \in LoadedOrder) <=> (<<a, b>> \in order)
    BY IdleFacts
  <1>2. Places' = {} /\ Saves' = {} /\ SetOrder \notin Calls'
    BY CallFacts DEF Places, Saves
  <1>3. S \subseteq Erases'
    BY DEF Erases
  <1>4. S \subseteq JobId \ Present'
    BY DEF Delete, Present
  <1>5. SavesAreRight' /\ PlacesAreRight' /\ OrderIsLast' /\ CountsAreRight'
    BY CallFacts DEF SavesAreRight, PlacesAreRight, OrderIsLast, CountsAreRight
  <1>6. ErasesAreRight'
    BY <1>2, <1>4 DEF ErasesAreRight
  <1>7. RowsInSync'
    BY <1>1, <1>3 DEF RowsInSync, Delete
  <1>8. OrderInSync'
    BY <1>1, <1>3 DEF OrderInSync, LoadedOrder, Delete, Without
  <1> QED BY <1>5, <1>6, <1>7, <1>8

\* Add and AddMultiple save the new jobs and then give each its place.
LEMMA AddsMethod ==
    ASSUME QueueIInv, TablesIInv, SyncIInv, NEW n \in Nat, NEW skipped, Adds(n, skipped)
    PROVE  SyncIInv'
  <1> SUFFICES ASSUME failures = 0, program = "up"
               PROVE  /\ SavesAreRight' /\ PlacesAreRight' /\ ErasesAreRight' /\ OrderIsLast'
                      /\ CountsAreRight' /\ RowsInSync' /\ OrderInSync'
    BY DEF SyncIInv, Adds, Method
  <1> USE DEF dbvars, jobvars, sumvars
  <1> DEFINE New == NewIds(n)
  <1>0. /\ writes = <<>> /\ UNCHANGED dbvars /\ AddJobs(n, skipped) /\ lastId + n <= MaxJobs
        /\ writes' = <<Save(NewIds(n))>> \o [i \in 1 .. n |-> Place(lastId + i)]
    BY DEF Adds, Method, AddJobs
  <1>1. /\ Len(writes') = n + 1 /\ DOMAIN writes' = 1 .. n + 1
        /\ writes'[1] = Save(New)
        /\ \A i \in 1 .. n : writes'[i + 1] = Place(lastId + i) /\ lastId + i \in New
        /\ Calls' = {Save(New)} \cup {Place(j) : j \in New}
        /\ New \subseteq JobId
    BY <1>0, AddsCalls DEF QueueIInv
  <1>2. /\ row = status /\ rowPhase = phase
        /\ \A a, b \in JobId : (<<a, b>> \in LoadedOrder) <=> (<<a, b>> \in order)
    BY <1>0, IdleFacts
  <1>3. New \cap Present = {} /\ lastId \in Nat /\ \A j \in New : j > lastId
    BY <1>0, NewIdsAreNew, MaxJobsAssumption DEF QueueIInv, QueueTypeOK, NewIds
  <1>4. \A j \in New : j \notin placed /\ (j \in Shrinking => lifetime[j] = 0)
    BY <1>1, <1>3 DEF TablesIInv, UnissuedHasNoTrace
  <1>5. \A j \in JobId : IF j \in New THEN status'[j] \in {"pending", "skipped"}
                         ELSE status'[j] = status[j]
    BY <1>0 DEF AddJobs
  <1>6. /\ phase' = phase
        /\ \A a, b : <<a, b>> \in order' <=> \/ <<a, b>> \in order
                                             \/ a \in Present /\ b \in New
                                             \/ a \in New /\ b \in New /\ a < b
    BY <1>0 DEF AddJobs, Appended
  <1>7. Present' = Present \cup New
    BY <1>1, <1>5 DEF Present, Absent
  <1>8. Places' = New /\ Saves' = New /\ Erases' = {} /\ SetOrder \notin Calls'
    <2>1. New \in SUBSET JobId
      BY <1>1
    <2>2. Save(New).call = "save" /\ Save(New).jobs = New
      BY <2>1, CallFacts
    <2> HIDE DEF New
    <2>3. Places' = New
      BY <1>1, <2>2, CallFacts, CallsNameJobs DEF Places
    <2>4. Saves' = New
      BY <1>1, <2>2, CallFacts DEF Saves
    <2> QED BY <1>1, <2>2, <2>3, <2>4, CallFacts DEF Erases
  <1>9. \A i \in DOMAIN writes' :
           \/ i = 1 /\ writes'[i] = Save(New)
           \/ \E m \in 1 .. n : i = m + 1 /\ writes'[i] = Place(lastId + m)
    <2> SUFFICES ASSUME NEW i \in 1 .. n + 1, i # 1
                 PROVE  \E m \in 1 .. n : i = m + 1 /\ writes'[i] = Place(lastId + m)
      BY <1>1
    <2>1. i - 1 \in 1 .. n /\ i = (i - 1) + 1
      OBVIOUS
    <2> QED BY <1>1, <2>1
  <1> HIDE DEF New
  <1>10. Save(New).call = "save" /\ Save(New).jobs = New
    BY <1>1, CallFacts
  <1>11. \A m \in 1 .. n : lastId + m \in JobId /\ Place(lastId + m).call = "place"
    BY <1>1, CallFacts
  <1>12. SavesAreRight'
    BY <1>0, <1>1, <1>4, <1>5, <1>7, <1>8, <1>9, <1>10, <1>11 DEF SavesAreRight
  <1>13. PlacesAreRight'
    <2> SUFFICES ASSUME NEW i \in DOMAIN writes', writes'[i].call = "place"
                 PROVE  \E j \in Present' :
                           /\ writes'[i] = Place(j)
                           /\ j \notin placed'
                           /\ row'[j] # Absent \/ j \in Saves'
                           /\ \A k \in DOMAIN writes' : k # i => writes'[k] # Place(j)
                           /\ \A k \in Present' \ {j} :
                                 (\A m \in DOMAIN writes' : m > i => writes'[m] # Place(k))
                                 => <<k, j>> \in order'
      BY <1>8 DEF PlacesAreRight
    <2>1. PICK m \in 1 .. n : i = m + 1 /\ writes'[i] = Place(lastId + m)
      BY <1>9, <1>10
    <2> DEFINE j == lastId + m
    <2>2. j \in New /\ j \in JobId
      BY <1>1
    <2>3. \A k \in DOMAIN writes' : k # i => writes'[k] # Place(j)
      <3> SUFFICES ASSUME NEW k \in DOMAIN writes', k # i, writes'[k] = Place(j) PROVE FALSE
        OBVIOUS
      <3>1. PICK l \in 1 .. n : k = l + 1 /\ writes'[k] = Place(lastId + l)
        BY <1>9, <1>10, <1>11, <2>1
      <3>2. lastId + l = lastId + m
        BY <3>1, CallsNameJobs
      <3> QED BY <1>3, <2>1, <3>1, <3>2
    <2>4. ASSUME NEW k \in Present' \ {j},
                 \A l \in DOMAIN writes' : l > i => writes'[l] # Place(k)
          PROVE  <<k, j>> \in order'
      <3>1. CASE k \in Present
        BY <1>6, <2>2, <3>1
      <3>2. CASE k \in New
        <4> DEFINE l == k - lastId
        <4>1. l \in 1 .. n /\ lastId + l = k
          BY <1>3, <3>2 DEF New, NewIds
        <4>2. l + 1 \in DOMAIN writes' /\ writes'[l + 1] = Place(k)
          BY <1>1, <4>1
        <4>3. ~(l + 1 > i)
          BY <2>4, <4>2
        <4>4. k < j
          BY <1>3, <2>1, <2>4, <4>1, <4>3
        <4> QED BY <1>6, <2>2, <3>2, <4>4
      <3> QED BY <1>7, <2>4, <3>1, <3>2
    <2>5. j \in Present' /\ j \notin placed' /\ j \in Saves'
      BY <1>0, <1>4, <1>7, <1>8, <2>2
    <2> QED BY <2>1, <2>3, <2>4, <2>5
  <1>14. ErasesAreRight' /\ OrderIsLast' /\ CountsAreRight'
    BY <1>9, <1>10, <1>11 DEF ErasesAreRight, OrderIsLast, CountsAreRight
  <1>15. RowsInSync'
    BY <1>0, <1>2, <1>5, <1>6, <1>8 DEF RowsInSync
  <1>16. OrderInSync'
    <2>1. LoadedOrder' = LoadedOrder
      BY <1>0 DEF LoadedOrder
    <2>2. New \subseteq JobId /\ Present \subseteq JobId
      BY <1>1 DEF Present
    <2> QED BY <1>2, <1>6, <1>8, <2>1, <2>2 DEF OrderInSync
  <1> QED BY <1>12, <1>13, <1>14, <1>15, <1>16

-----------------------------------------------------------------------------
(* The steps of the program at work, together.                             *)

\* Every method of Queue keeps memory, tables and pending calls right.
LEMMA MethodStep ==
    ASSUME StoreIInv,
           \/ \E n \in 1 .. MaxJobs : \E skipped \in SUBSET NewIds(n) : Adds(n, skipped)
           \/ \E j \in JobId : Changes(j) \/ Requeues(j) \/ Removes(j)
           \/ \E f \in ClearFilters : Clears(f)
    PROVE  StoreIInv' /\ UNCHANGED dbvars
  <1>0. /\ program = "up" /\ writes = <<>> /\ UNCHANGED <<dbvars, program, failures>>
        /\ lastId \in Nat
        /\ QueueIInv /\ TablesIInv /\ MethodTypeOK /\ SyncIInv /\ SavingsIInv
    <2>1. program = "up" /\ writes = <<>> /\ UNCHANGED <<dbvars, program, failures>>
      BY DEF Adds, Changes, Completes, Fails, Requeues, Removes, Clears, Method
    <2>2. lastId \in Nat
      BY MaxJobsAssumption DEF StoreIInv, QueueIInv, QueueTypeOK
    <2> QED BY <2>1, <2>2 DEF StoreIInv
  <1>1. ASSUME NEW n \in 1 .. MaxJobs, NEW skipped \in SUBSET NewIds(n), Adds(n, skipped)
        PROVE  StoreIInv'
    <2>1. /\ n \in Nat /\ AddJobs(n, skipped) /\ lastId + n <= MaxJobs /\ lastId' = lastId + n
          /\ writes' = <<Save(NewIds(n))>> \o [i \in 1 .. n |-> Place(lastId + i)]
      BY <1>1, MaxJobsAssumption DEF Adds, Method, AddJobs
    <2>2. QueueIInv'
      BY <1>0, <2>1, AddJobsStep
    <2>3. SyncIInv'
      BY <1>0, <1>1, <2>1, AddsMethod
    <2>4. /\ writes' \in Seq(Call)
          /\ Calls' = {Save(NewIds(n))} \cup {Place(j) : j \in NewIds(n)}
          /\ NewIds(n) \in SUBSET JobId
      BY <1>0, <2>1, AddsCalls DEF QueueIInv
    <2>5. /\ \A w \in Calls' : w.call # "count" /\ w.jobs \subseteq NewIds(n)
          /\ \A j \in NewIds(n) : j <= lastId'
          /\ lastId' \in Nat /\ lastId <= lastId'
      <3>1. \A w \in Calls' : w.call # "count" /\ w.jobs \subseteq NewIds(n)
        BY <2>4, CallFacts
      <3> QED BY <1>0, <2>1, <3>1 DEF NewIds
    <2> QED BY <1>0, <2>2, <2>3, <2>4, <2>5, MethodFrame DEF StoreIInv
  <1>2. ASSUME NEW j \in JobId, Changes(j) PROVE StoreIInv'
    <2>1. /\ UNCHANGED <<order, lastId>>
          /\ \/ StartJob(j)
             \/ CompleteJob(j) /\ Completes(j)
             \/ FailJob(j) /\ Fails(j)
             \/ SkipJob(j)
             \/ \E ph \in Phase \ {NoPhase} : UpdateJobPhase(j, ph)
             \/ CancelJob(j)
      BY <1>2 DEF Changes, Completes, Fails, Method, StartJob, CompleteJob, FailJob, SkipJob,
                  UpdateJobPhase, CancelJob
    <2>2. /\ status[j] \notin {Absent, "complete"} /\ status'[j] # Absent
          /\ \A k \in JobId \ {j} : status'[k] = status[k] /\ phase'[k] = phase[k]
          /\ status'[j] = "complete" => Completes(j)
      BY <1>0, <2>1, StatusFacts
      DEF QueueIInv, QueueTypeOK, StartJob, CompleteJob, FailJob, SkipJob, UpdateJobPhase,
          CancelJob, Completes, Fails, SetStatus, Present, Terminal
    <2>3. \/ writes' = <<Save({j})>> /\ (status'[j] # "complete" \/ j \notin Shrinking)
          \/ writes' = <<Save({j}), Count(j)>> /\ status'[j] = "complete" /\ j \in Shrinking
      <3>1. CASE Completes(j)
        <4>1. status'[j] = "complete"
          BY <1>0, <3>1 DEF Completes, Method, CompleteJob, SetStatus, QueueIInv, QueueTypeOK
        <4> QED BY <3>1, <4>1 DEF Completes, Method
      <3>2. CASE ~Completes(j)
        BY <1>2, <2>2, <3>2 DEF Changes, Fails, Method
      <3> QED BY <3>1, <3>2
    <2>4. QueueIInv'
      <3>1. [QueueNext]_qvars
        BY <2>1 DEF QueueNext
      <3> QED BY <1>0, <3>1, QueueNextIInv
    <2>5. j \in Present
      BY <2>2 DEF Present
    <2>6. SyncIInv'
      BY <1>0, <2>1, <2>2, <2>3, <2>5, SaveMethod
    <2>7. Save({j}) \in Call /\ Count(j) \in Call
      BY CallFacts
    <2>8. writes' \in Seq(Call) /\ Calls' \subseteq {Save({j}), Count(j)}
          /\ (Count(j) \in Calls' => j \in Shrinking)
      <3>1. CASE writes' = <<Save({j})>>
        <4>1. writes' \in Seq(Call) /\ Calls' = {Save({j})}
          BY <2>7, <3>1, OneCall
        <4>2. Save({j}).call # Count(j).call
          BY CallFacts
        <4> QED BY <4>1, <4>2
      <3>2. CASE writes' = <<Save({j}), Count(j)>> /\ j \in Shrinking
        BY <2>7, <3>2, TwoCalls
      <3> QED BY <2>3, <3>1, <3>2
    <2>9. /\ \A w \in Calls' : w.jobs = {j} /\ (w.call = "count" => j \in Shrinking)
          /\ j <= lastId /\ lastId' = lastId
      <3>1. j <= lastId
        BY <1>0, <2>2 DEF QueueIInv, Unissued, JobId
      <3>2. Save({j}).jobs = {j} /\ Save({j}).call = "save" /\ Count(j).jobs = {j}
        BY CallFacts
      <3> QED BY <2>1, <2>8, <3>1, <3>2
    <2> QED BY <1>0, <2>4, <2>6, <2>8, <2>9, MethodFrame DEF StoreIInv
  <1>3. ASSUME NEW j \in JobId, Requeues(j) PROVE StoreIInv'
    <2>1. Requeue(j) /\ writes' = <<Save({j}), SetOrder>> /\ lastId' = lastId
      BY <1>3 DEF Requeues, Method, Requeue
    <2>2. QueueIInv'
      BY <1>0, <2>1, RequeueStep
    <2>3. SyncIInv'
      BY <1>0, <1>3, RequeueMethod
    <2>4. Save({j}) \in Call /\ SetOrder \in Call
      BY CallFacts
    <2>5. writes' \in Seq(Call) /\ Calls' = {Save({j}), SetOrder}
      BY <2>1, <2>4, TwoCalls
    <2>6. j <= lastId
      BY <1>0, <2>1 DEF QueueIInv, Unissued, JobId, Requeue, Absent
    <2>7. \A w \in Calls' : w.call # "count" /\ w.jobs \subseteq {j}
      BY <2>5, CallFacts
    <2>8. lastId' \in Nat /\ lastId <= lastId' /\ \A w \in Calls' : \A k \in w.jobs : k <= lastId'
      BY <1>0, <2>1, <2>6, <2>7
    <2> QED BY <1>0, <2>2, <2>3, <2>5, <2>7, <2>8, MethodFrame DEF StoreIInv
  <1>4. ASSUME NEW S \in SUBSET JobId, Delete(S), writes' \in Seq(Call),
               Calls' = {Erase(j) : j \in S},
               \A i \in DOMAIN writes' : \E j \in S : writes'[i] = Erase(j)
        PROVE  StoreIInv'
    <2>1. QueueIInv'
      BY <1>0, <1>4, DeleteStep
    <2>2. SyncIInv'
      BY <1>0, <1>4, EraseMethod
    <2>3. \A w \in Calls' : w.call = "erase"
      BY <1>4, CallFacts
    <2>4. lastId' = lastId
      BY <1>4 DEF Delete
    <2> QED BY <1>0, <1>4, <2>1, <2>2, <2>3, <2>4, MethodFrame DEF StoreIInv
  <1>5. ASSUME NEW j \in JobId, Removes(j) PROVE StoreIInv'
    <2>1. Delete({j}) /\ writes' = <<Erase(j)>> /\ Erase(j) \in Call
      BY <1>5, CallFacts DEF Removes, Method, Remove
    <2>2. writes' \in Seq(Call) /\ DOMAIN writes' = {1} /\ writes'[1] = Erase(j) /\ Calls' = {Erase(j)}
      BY <2>1, OneCall
    <2>3. Calls' = {Erase(k) : k \in {j}}
      BY <2>2
    <2> QED BY <1>4, <2>1, <2>2, <2>3
  <1>6. ASSUME NEW f, Clears(f) PROVE StoreIInv'
    <2>1. Cleared(f) \in SUBSET Present /\ Cleared(f) \in SUBSET JobId
      BY DEF Cleared, Present
    <2>2. /\ Delete(Cleared(f))
          /\ writes' = [i \in DOMAIN InOrder(Cleared(f)) |-> Erase(InOrder(Cleared(f))[i])]
      BY <1>6 DEF Clears, Method, Clear
    <2>3. /\ writes' \in Seq(Call)
          /\ \A i \in DOMAIN writes' : \E j \in Cleared(f) : writes'[i] = Erase(j)
          /\ Calls' = {Erase(j) : j \in Cleared(f)}
      BY <1>0, <2>1, <2>2, ClearCalls
    <2> QED BY <1>4, <2>1, <2>2, <2>3
  <1> QED BY <1>0, <1>1, <1>2, <1>3, <1>5, <1>6

-----------------------------------------------------------------------------
(* The calls of the store, without failures so far.                        *)

\* What the first call leaves of the calls, whatever it is.
LEMMA TailSync ==
    ASSUME writes \in Seq(Call), writes # <<>>, writes' = Tail(writes), UNCHANGED qvars,
           SavesAreRight, PlacesAreRight, ErasesAreRight, OrderIsLast, CountsAreRight
    PROVE  /\ SavesAreRight' /\ ErasesAreRight' /\ OrderIsLast' /\ Saves' = {}
           /\ Places' \subseteq Places /\ Erases' \subseteq Erases
           /\ Places \subseteq Places' \cup {j \in JobId : Head(writes) = Place(j)}
           /\ Erases \subseteq Erases' \cup {j \in JobId : Head(writes) = Erase(j)}
           /\ SetOrder \in Calls => SetOrder \in Calls' \/ Head(writes) = SetOrder
           /\ Head(writes).call # "save" => Saves = {}
  <1>1. /\ Len(writes) \in Nat \ {0} /\ DOMAIN writes = 1 .. Len(writes)
        /\ writes[1] = Head(writes)
        /\ Len(writes') = Len(writes) - 1
        /\ DOMAIN writes' = 1 .. Len(writes) - 1
        /\ \A i \in 1 .. Len(writes) - 1 : writes'[i] = writes[i + 1]
        /\ Calls' \subseteq Calls /\ Calls = Calls' \cup {Head(writes)}
    BY TailFacts
  <1>2. \A i \in DOMAIN writes' : /\ i + 1 \in DOMAIN writes /\ i + 1 # 1
                                  /\ writes'[i] = writes[i + 1]
                                  /\ (i + 1 = Len(writes) => i = Len(writes'))
    BY <1>1
  <1>3. \A i \in DOMAIN writes' : writes'[i].call # "save"
    BY <1>2 DEF SavesAreRight
  <1>4. SavesAreRight' /\ Saves' = {}
    BY <1>3 DEF SavesAreRight, Saves, Calls
  <1>5. ErasesAreRight'
    BY <1>1, <1>2 DEF ErasesAreRight, qvars, Present
  <1>6. OrderIsLast'
    BY <1>2 DEF OrderIsLast
  <1>7. Head(writes).call # "save" => Saves = {}
    BY <1>1 DEF SavesAreRight, Saves, Calls
  <1> QED BY <1>1, <1>4, <1>5, <1>6, <1>7 DEF Places, Erases

\* The calls of AppendToOrder that are left are about jobs that have a row and no place,
\* and what was said of the others behind them still holds.
LEMMA PlacesShift ==
    ASSUME writes \in Seq(Call), writes # <<>>, writes' = Tail(writes), UNCHANGED qvars,
           PlacesAreRight, \A j \in Places' : row'[j] # Absent /\ j \notin placed'
    PROVE  PlacesAreRight'
  <1>1. /\ DOMAIN writes = 1 .. Len(writes) /\ Len(writes) \in Nat
        /\ DOMAIN writes' = 1 .. Len(writes) - 1
        /\ \A i \in 1 .. Len(writes) - 1 : writes'[i] = writes[i + 1]
        /\ Calls' \subseteq Calls
    BY TailFacts
  <1>2. order' = order /\ Present' = Present /\ Erases' \subseteq Erases
    BY <1>1 DEF qvars, Present, Erases
  <1> SUFFICES ASSUME NEW i \in DOMAIN writes', writes'[i].call = "place"
               PROVE  \E j \in Present :
                         /\ writes'[i] = Place(j)
                         /\ j \notin placed'
                         /\ row'[j] # Absent
                         /\ \A k \in DOMAIN writes' : k # i => writes'[k] # Place(j)
                         /\ \A k \in Present \ {j} :
                               (\A m \in DOMAIN writes' : m > i => writes'[m] # Place(k))
                               => <<k, j>> \in order
                         /\ Erases' = {} /\ SetOrder \notin Calls'
    BY <1>2 DEF PlacesAreRight
  <1>3. i + 1 \in DOMAIN writes /\ writes'[i] = writes[i + 1]
    BY <1>1
  <1>4. PICK j \in Present :
          /\ writes[i + 1] = Place(j)
          /\ \A k \in DOMAIN writes : k # i + 1 => writes[k] # Place(j)
          /\ \A k \in Present \ {j} :
                (\A m \in DOMAIN writes : m > i + 1 => writes[m] # Place(k)) => <<k, j>> \in order
          /\ Erases = {} /\ SetOrder \notin Calls
    BY <1>3 DEF PlacesAreRight
  <1>5. j \in Places'
    BY <1>3, <1>4 DEF Places, Calls, Present
  <1>6. \A k \in DOMAIN writes' : k # i => writes'[k] # Place(j)
    BY <1>1, <1>4
  <1>7. \A k \in Present \ {j} :
           (\A m \in DOMAIN writes' : m > i => writes'[m] # Place(k)) => <<k, j>> \in order
    <2> SUFFICES ASSUME NEW k \in Present \ {j},
                        \A m \in DOMAIN writes' : m > i => writes'[m] # Place(k),
                        NEW m \in DOMAIN writes, m > i + 1
                 PROVE  writes[m] # Place(k)
      BY <1>4
    <2>1. m - 1 \in DOMAIN writes' /\ m - 1 > i /\ (m - 1) + 1 = m
      BY <1>1
    <2>2. writes'[m - 1] = writes[(m - 1) + 1]
      BY <1>1, <2>1
    <2> QED BY <2>1, <2>2
  <1> QED BY <1>1, <1>2, <1>3, <1>4, <1>5, <1>6, <1>7

\* The same for a call of AddToLifetimeSaved.
LEMMA CountsShift ==
    ASSUME writes \in Seq(Call), writes # <<>>, writes' = Tail(writes), UNCHANGED qvars,
           CountsAreRight,
           \A j \in Shrinking : Count(j) \in Calls' => row'[j] = "complete" /\ lifetime'[j] = 0
    PROVE  CountsAreRight'
  <1>1. /\ DOMAIN writes = 1 .. Len(writes) /\ Len(writes) \in Nat
        /\ Len(writes') = Len(writes) - 1
        /\ DOMAIN writes' = 1 .. Len(writes) - 1
        /\ \A i \in 1 .. Len(writes) - 1 : writes'[i] = writes[i + 1]
    BY TailFacts
  <1> SUFFICES ASSUME NEW i \in DOMAIN writes', writes'[i].call = "count"
               PROVE  \E j \in Shrinking : /\ writes'[i] = Count(j)
                                           /\ i = Len(writes')
                                           /\ status[j] = "complete"
                                           /\ lifetime'[j] = 0
                                           /\ row'[j] = "complete"
    BY DEF CountsAreRight, qvars
  <1>2. i + 1 \in DOMAIN writes /\ writes'[i] = writes[i + 1]
    BY <1>1
  <1>3. PICK j \in Shrinking : /\ writes[i + 1] = Count(j)
                               /\ i + 1 = Len(writes)
                               /\ status[j] = "complete"
    BY <1>2 DEF CountsAreRight
  <1>4. i = Len(writes')
    BY <1>1, <1>3
  <1>5. Count(j) \in Calls'
    BY <1>2, <1>3 DEF Calls
  <1> QED BY <1>2, <1>3, <1>4, <1>5

\* A first call of SaveJob or SaveJobs.
LEMMA SaveStep ==
    ASSUME StoreIInv, failures = 0, writes # <<>>, Head(writes).call = "save",
           SaveRows(Head(writes).jobs), writes' = Tail(writes),
           UNCHANGED <<qvars, sumvars, program, failures>>
    PROVE  SyncIInv' /\ SavingsIInv'
  <1> DEFINE S == Head(writes).jobs
  <1>1. /\ QueueIInv /\ writes \in Seq(Call) /\ program = "up" /\ SavingsIInv
        /\ SavesAreRight /\ PlacesAreRight /\ ErasesAreRight /\ OrderIsLast /\ CountsAreRight
        /\ RowsInSync /\ OrderInSync
    BY DEF StoreIInv, MethodTypeOK, SyncIInv
  <1>2. /\ Len(writes) \in Nat \ {0} /\ DOMAIN writes = 1 .. Len(writes)
        /\ writes[1] = Head(writes) /\ Head(writes) \in Call
        /\ Len(writes') = Len(writes) - 1
        /\ DOMAIN writes' = 1 .. Len(writes) - 1
        /\ \A i \in 1 .. Len(writes) - 1 : writes'[i] = writes[i + 1]
        /\ Calls' \subseteq Calls /\ Calls = Calls' \cup {Head(writes)}
    BY <1>1, TailFacts
  <1>3. /\ SavesAreRight' /\ ErasesAreRight' /\ OrderIsLast' /\ Saves' = {}
        /\ Places' \subseteq Places /\ Erases' \subseteq Erases
        /\ Places \subseteq Places' \cup {j \in JobId : Head(writes) = Place(j)}
        /\ SetOrder \in Calls => SetOrder \in Calls' \/ Head(writes) = SetOrder
    BY <1>1, TailSync
  <1>4. Places' = Places /\ (SetOrder \in Calls => SetOrder \in Calls')
    BY <1>3, CallFacts
  <1>5. /\ S \subseteq JobId /\ Saves = S /\ Erases = {} /\ Erases' = {}
        /\ \A j \in S : /\ j \in Present
                        /\ row[j] # Absent \/ j \in Places
                        /\ j \in Shrinking => lifetime[j] = 0
                        /\ j \in Shrinking /\ status[j] = "complete" => Count(j) \in Calls'
    <2>1. S \subseteq JobId
      BY <1>2, CallFacts
    <2>2. /\ Erases = {}
          /\ \A j \in S : /\ j \in Present
                          /\ row[j] # Absent \/ j \in Places
                          /\ j \in Shrinking => lifetime[j] = 0
                          /\ j \in Shrinking /\ status[j] = "complete" => Count(j) \in Calls
      BY <1>1, <1>2 DEF SavesAreRight
    <2>3. \A j \in S : Count(j) \in Calls => Count(j) \in Calls'
      BY <1>2, <2>1, CallFacts
    <2>4. Saves = S
      BY <1>1, <1>2, <2>1 DEF Saves, SavesAreRight, Calls
    <2> QED BY <1>3, <2>1, <2>2, <2>3, <2>4
  <1>6. /\ row' = [j \in JobId |-> IF j \in S THEN status[j] ELSE row[j]]
        /\ rowPhase' = [j \in JobId |-> IF j \in S THEN phase[j] ELSE rowPhase[j]]
        /\ placed' = placed /\ place' = place /\ lifetime' = lifetime /\ missed' = missed
        /\ status' = status /\ phase' = phase /\ order' = order /\ Present' = Present
    BY DEF SaveRows, sumvars, qvars, Present
  <1> HIDE DEF S
  <1>7. PlacesAreRight'
    <2> SUFFICES ASSUME NEW j \in Places' PROVE row'[j] # Absent /\ j \notin placed'
      BY <1>1, PlacesShift
    <2>1. PICK i \in DOMAIN writes : writes[i] = Place(j)
      BY <1>4 DEF Places, Calls
    <2>2. j \in JobId /\ writes[i].call = "place"
      BY <2>1, CallFacts DEF Places
    <2>3. PICK k \in Present : /\ writes[i] = Place(k)
                               /\ k \notin placed
                               /\ row[k] # Absent \/ k \in Saves
      BY <1>1, <2>2 DEF PlacesAreRight
    <2>4. k = j
      BY <2>1, <2>3, CallsNameJobs
    <2> QED BY <1>5, <1>6, <2>3, <2>4 DEF Present
  <1>8. CountsAreRight'
    <2> SUFFICES ASSUME NEW j \in Shrinking, Count(j) \in Calls'
                 PROVE  row'[j] = "complete" /\ lifetime'[j] = 0
      BY <1>1, CountsShift
    <2>1. PICK i \in DOMAIN writes : writes[i] = Count(j)
      BY <1>2 DEF Calls
    <2>2. j \in JobId /\ writes[i].call = "count"
      BY <2>1, CallFacts, DurableAssumptions
    <2>3. PICK k \in Shrinking : /\ writes[i] = Count(k)
                                 /\ status[k] = "complete"
                                 /\ lifetime[k] = 0
                                 /\ row[k] = "complete" \/ k \in Saves
      BY <1>1, <2>2 DEF CountsAreRight
    <2>4. k = j
      BY <2>1, <2>3, CallsNameJobs
    <2> QED BY <1>5, <1>6, <2>2, <2>3, <2>4
  <1>9. RowsInSync'
    BY <1>1, <1>3, <1>5, <1>6 DEF RowsInSync
  <1>10. OrderInSync'
    <2>1. \A j \in JobId \ Places : (row'[j] # Absent) <=> (row[j] # Absent)
      BY <1>5, <1>6 DEF Present
    <2>2. \A a, b \in JobId \ Places : (<<a, b>> \in LoadedOrder') <=> (<<a, b>> \in LoadedOrder)
      BY <1>6, <2>1 DEF LoadedOrder
    <2> QED BY <1>1, <1>4, <1>5, <1>6, <2>2 DEF OrderInSync
  <1>11. SavingsIInv'
    BY <1>1, <1>2, <1>5, <1>6, DurableAssumptions, CallFacts DEF SavingsIInv
  <1> QED BY <1>3, <1>7, <1>8, <1>9, <1>10, <1>11 DEF SyncIInv

\* A first call of AppendToOrder: the job has a row and no place, so it gets one, behind
\* all that are before it in the queue.
LEMMA PlaceStep ==
    ASSUME StoreIInv, failures = 0, writes # <<>>, Head(writes).call = "place",
           NEW j \in Head(writes).jobs, AppendToOrder(j), writes' = Tail(writes),
           UNCHANGED <<qvars, sumvars, program, failures>>
    PROVE  SyncIInv' /\ SavingsIInv'
  <1>1. /\ QueueIInv /\ TablesIInv /\ writes \in Seq(Call) /\ program = "up" /\ SavingsIInv
        /\ SavesAreRight /\ PlacesAreRight /\ ErasesAreRight /\ OrderIsLast /\ CountsAreRight
        /\ RowsInSync /\ OrderInSync
    BY DEF StoreIInv, MethodTypeOK, SyncIInv
  <1>2. /\ Len(writes) \in Nat \ {0} /\ DOMAIN writes = 1 .. Len(writes)
        /\ writes[1] = Head(writes) /\ Head(writes) \in Call
        /\ DOMAIN writes' = 1 .. Len(writes) - 1
        /\ \A i \in 1 .. Len(writes) - 1 : writes'[i] = writes[i + 1]
        /\ Calls' \subseteq Calls /\ Calls = Calls' \cup {Head(writes)}
    BY <1>1, TailFacts
  <1>3. /\ SavesAreRight' /\ ErasesAreRight' /\ OrderIsLast' /\ Saves' = {} /\ Saves = {}
        /\ Places' \subseteq Places /\ Erases' \subseteq Erases
        /\ Places \subseteq Places' \cup {k \in JobId : Head(writes) = Place(k)}
    BY <1>1, TailSync
  <1>4. /\ j \in Present /\ j \in JobId /\ j \notin placed /\ row[j] # Absent
        /\ Head(writes) = Place(j)
        /\ \A k \in DOMAIN writes : k # 1 => writes[k] # Place(j)
        /\ \A k \in Present \ {j} :
              (\A m \in DOMAIN writes : m > 1 => writes[m] # Place(k)) => <<k, j>> \in order
        /\ Erases = {} /\ SetOrder \notin Calls
    <2>1. PICK l \in Present :
            /\ Head(writes) = Place(l)
            /\ l \notin placed
            /\ row[l] # Absent
            /\ \A k \in DOMAIN writes : k # 1 => writes[k] # Place(l)
            /\ \A k \in Present \ {l} :
                  (\A m \in DOMAIN writes : m > 1 => writes[m] # Place(k)) => <<k, l>> \in order
            /\ Erases = {} /\ SetOrder \notin Calls
      BY <1>1, <1>2, <1>3 DEF PlacesAreRight
    <2>2. l = j
      BY <2>1 DEF Place
    <2> QED BY <2>1, <2>2 DEF Present
  <1>5. /\ placed' = placed \cup {j} /\ place' = place \cup (placed \X {j})
        /\ row' = row /\ rowPhase' = rowPhase /\ lifetime' = lifetime /\ missed' = missed
        /\ status' = status /\ phase' = phase /\ order' = order
    BY <1>4 DEF AppendToOrder, sumvars, qvars
  <1>6. j \notin Places' /\ Places \subseteq Places' \cup {j}
    <2>1. Place(j) \notin Calls'
      <3> SUFFICES ASSUME NEW i \in DOMAIN writes', writes'[i] = Place(j) PROVE FALSE
        BY DEF Calls
      <3>1. i + 1 \in DOMAIN writes /\ i + 1 # 1 /\ writes[i + 1] = Place(j)
        BY <1>2
      <3> QED BY <1>4, <3>1
    <2> QED BY <1>3, <1>4, <2>1, CallsNameJobs DEF Places
  <1>7. \A a \in Present \ (Places' \cup {j}) : <<a, j>> \in order
    <2> SUFFICES ASSUME NEW a \in Present \ (Places' \cup {j}),
                        NEW m \in DOMAIN writes, m > 1, writes[m] = Place(a)
                 PROVE  FALSE
      BY <1>4
    <2>1. m - 1 \in DOMAIN writes' /\ (m - 1) + 1 = m
      BY <1>2
    <2>2. writes'[m - 1] = Place(a)
      BY <1>2, <2>1
    <2> QED BY <2>1, <2>2 DEF Places, Calls, Present
  <1>8. PlacesAreRight'
    <2> SUFFICES ASSUME NEW k \in Places' PROVE row'[k] # Absent /\ k \notin placed'
      BY <1>1, PlacesShift
    <2>1. PICK i \in DOMAIN writes : writes[i] = Place(k)
      BY <1>3 DEF Places, Calls
    <2>2. writes[i].call = "place"
      BY <2>1, CallFacts DEF Places
    <2>3. PICK l \in Present : writes[i] = Place(l) /\ l \notin placed /\ row[l] # Absent
      BY <1>1, <1>3, <2>2 DEF PlacesAreRight
    <2>4. l = k
      BY <2>1, <2>3, CallsNameJobs
    <2> QED BY <1>5, <1>6, <2>3, <2>4
  <1>9. CountsAreRight'
    <2> SUFFICES ASSUME NEW k \in Shrinking, Count(k) \in Calls'
                 PROVE  row'[k] = "complete" /\ lifetime'[k] = 0
      BY <1>1, CountsShift
    <2>1. PICK i \in DOMAIN writes : writes[i] = Count(k)
      BY <1>2 DEF Calls
    <2>2. writes[i].call = "count"
      BY <2>1, CallFacts, DurableAssumptions
    <2>3. PICK l \in Shrinking : writes[i] = Count(l) /\ lifetime[l] = 0 /\ row[l] = "complete"
      BY <1>1, <1>3, <2>2 DEF CountsAreRight
    <2>4. l = k
      BY <2>1, <2>3, CallsNameJobs
    <2> QED BY <1>5, <2>3, <2>4
  <1>10. RowsInSync'
    BY <1>1, <1>3, <1>4, <1>5 DEF RowsInSync
  <1>11. OrderInSync'
    <2>0. Erases' = {} /\ \A p \in place : p[1] # j /\ p[2] # j
      BY <1>3, <1>4, <1>1 DEF TablesIInv, TablesTypeOK
    <2> SUFFICES ASSUME NEW a \in JobId \ Places', NEW b \in JobId \ Places'
                 PROVE  (<<a, b>> \in LoadedOrder') <=> (<<a, b>> \in order)
      BY <1>5, <2>0 DEF OrderInSync
    <2>1. CASE a # j /\ b # j
      <3>1. (<<a, b>> \in LoadedOrder) <=> (<<a, b>> \in order)
        BY <1>1, <1>4, <1>6, <2>1 DEF OrderInSync
      <3> QED BY <1>5, <2>1, <3>1 DEF LoadedOrder
    <2>2. CASE a # j /\ b = j
      <3>1. (<<a, j>> \in LoadedOrder') <=> (row[a] # Absent)
        BY <1>4, <1>5, <2>2 DEF LoadedOrder
      <3>2. (row[a] # Absent) <=> (a \in Present)
        BY <1>1, <1>3, <1>4 DEF RowsInSync, Present
      <3>3. a \in Present => <<a, j>> \in order
        BY <1>7, <2>2
      <3>4. <<a, j>> \in order => a \in Present
        BY <1>1, OrderFacts
      <3> QED BY <2>2, <3>1, <3>2, <3>3, <3>4
    <2>3. CASE a = j /\ b # j
      <3>1. <<j, b>> \notin LoadedOrder'
        BY <1>4, <1>5, <2>0, <2>3 DEF LoadedOrder
      <3>2. <<j, b>> \in order => b \in Present /\ <<b, j>> \notin order
        BY <1>1, OrderFacts
      <3>3. b \in Present => <<b, j>> \in order
        BY <1>7, <2>3
      <3> QED BY <2>3, <3>1, <3>2, <3>3
    <2>4. CASE a = j /\ b = j
      BY <1>1, <2>4, OrderFacts DEF LoadedOrder
    <2> QED BY <2>1, <2>2, <2>3, <2>4
  <1>12. SavingsIInv'
    BY <1>1, <1>2, <1>4, <1>5, DurableAssumptions, CallFacts DEF SavingsIInv
  <1> QED BY <1>3, <1>8, <1>9, <1>10, <1>11, <1>12 DEF SyncIInv

\* A first call of DeleteJob: the job is not in memory any more.
LEMMA EraseStep ==
    ASSUME StoreIInv, failures = 0, writes # <<>>, Head(writes).call = "erase",
           NEW j \in Head(writes).jobs, DeleteJob(j), writes' = Tail(writes),
           UNCHANGED <<qvars, sumvars, program, failures>>
    PROVE  SyncIInv' /\ SavingsIInv'
  <1>1. /\ QueueIInv /\ TablesIInv /\ writes \in Seq(Call) /\ program = "up" /\ SavingsIInv
        /\ SavesAreRight /\ PlacesAreRight /\ ErasesAreRight /\ OrderIsLast /\ CountsAreRight
        /\ RowsInSync /\ OrderInSync
    BY DEF StoreIInv, MethodTypeOK, SyncIInv
  <1>2. /\ Len(writes) \in Nat \ {0} /\ DOMAIN writes = 1 .. Len(writes)
        /\ writes[1] = Head(writes) /\ Head(writes) \in Call
        /\ Calls' \subseteq Calls /\ Calls = Calls' \cup {Head(writes)}
    BY <1>1, TailFacts
  <1>3. /\ SavesAreRight' /\ ErasesAreRight' /\ OrderIsLast' /\ Saves' = {} /\ Saves = {}
        /\ Places' \subseteq Places /\ Erases' \subseteq Erases
        /\ Erases \subseteq Erases' \cup {k \in JobId : Head(writes) = Erase(k)}
    BY <1>1, TailSync
  <1>4. j \in JobId \ Present /\ Head(writes) = Erase(j) /\ SetOrder \notin Calls
    <2>1. PICK k \in JobId \ Present : Head(writes) = Erase(k) /\ SetOrder \notin Calls
      BY <1>1, <1>2 DEF ErasesAreRight
    <2>2. k = j
      BY <2>1 DEF Erase
    <2> QED BY <2>1, <2>2
  <1>5. Places = {}
    <2>1. j \in Erases
      BY <1>2, <1>4 DEF Erases
    <2> SUFFICES ASSUME NEW k \in JobId, NEW i \in DOMAIN writes, writes[i] = Place(k) PROVE FALSE
      BY DEF Places, Calls
    <2>2. writes[i].call = "place"
      BY CallFacts
    <2> QED BY <1>1, <2>1, <2>2 DEF PlacesAreRight
  <1>6. /\ row' = [row EXCEPT ![j] = Absent] /\ rowPhase' = [rowPhase EXCEPT ![j] = NoPhase]
        /\ \A k \in JobId \ {j} : row'[k] = row[k] /\ rowPhase'[k] = rowPhase[k]
        /\ row'[j] = Absent /\ rowPhase'[j] = NoPhase
        /\ \A k \in JobId \ {j} : (k \in placed') <=> (k \in placed)
        /\ \A a, b \in JobId \ {j} : (<<a, b>> \in place') <=> (<<a, b>> \in place)
        /\ lifetime' = lifetime /\ missed' = missed
        /\ status' = status /\ phase' = phase /\ order' = order
    BY <1>1, <1>4 DEF DeleteJob, sumvars, qvars, TablesIInv, TablesTypeOK
  <1>7. PlacesAreRight'
    BY <1>1, <1>3, <1>5, PlacesShift
  <1>8. CountsAreRight'
    <2> SUFFICES ASSUME NEW k \in Shrinking, Count(k) \in Calls'
                 PROVE  row'[k] = "complete" /\ lifetime'[k] = 0
      BY <1>1, CountsShift
    <2>1. PICK i \in DOMAIN writes : writes[i] = Count(k)
      BY <1>2 DEF Calls
    <2>2. writes[i].call = "count" /\ k \in JobId
      BY <2>1, CallFacts, DurableAssumptions
    <2>3. PICK l \in Shrinking : /\ writes[i] = Count(l) /\ status[l] = "complete"
                                 /\ lifetime[l] = 0 /\ row[l] = "complete"
      BY <1>1, <1>3, <2>2 DEF CountsAreRight
    <2>4. l = k /\ k # j
      BY <1>4, <2>1, <2>2, <2>3, CallsNameJobs DEF Present, Absent
    <2> QED BY <1>6, <2>2, <2>3, <2>4
  <1>9. RowsInSync'
    <2> SUFFICES ASSUME NEW k \in JobId \ Erases'
                 PROVE  row'[k] = status[k] /\ rowPhase'[k] = phase[k]
      BY <1>6 DEF RowsInSync
    <2>1. CASE k = j
      BY <1>1, <1>4, <1>6, <2>1 DEF Present, QueueIInv, NoStalePhase
    <2>2. CASE k # j
      <3>1. k \notin Erases
        BY <1>3, <1>4, <2>2, CallsNameJobs
      <3> QED BY <1>1, <1>3, <1>6, <2>2, <3>1 DEF RowsInSync
    <2> QED BY <2>1, <2>2
  <1>10. OrderInSync'
    <2> SUFFICES ASSUME NEW a \in JobId \ Erases', NEW b \in JobId \ Erases'
                 PROVE  (<<a, b>> \in LoadedOrder') <=> (<<a, b>> \in order)
      BY <1>6 DEF OrderInSync
    <2>1. CASE a = j \/ b = j
      <3>1. <<a, b>> \notin LoadedOrder'
        BY <1>6, <2>1 DEF LoadedOrder
      <3>2. <<a, b>> \notin order
        BY <1>1, <1>4, <2>1, OrderFacts
      <3> QED BY <3>1, <3>2
    <2>2. CASE a # j /\ b # j
      <3>1. a \notin Erases /\ b \notin Erases
        BY <1>3, <1>4, <2>2, CallsNameJobs
      <3>2. (<<a, b>> \in LoadedOrder) <=> (<<a, b>> \in order)
        BY <1>1, <1>4, <1>5, <3>1 DEF OrderInSync
      <3> QED BY <1>6, <2>2, <3>2 DEF LoadedOrder
    <2> QED BY <2>1, <2>2
  <1>11. SavingsIInv'
    <2>1. \A k \in Shrinking : k \in JobId /\ (Count(k) \notin Calls' => Count(k) \notin Calls)
      BY <1>2, <1>4, DurableAssumptions, CallFacts
    <2> QED BY <1>1, <1>6, <2>1 DEF SavingsIInv, Absent
  <1> QED BY <1>3, <1>7, <1>8, <1>9, <1>10, <1>11 DEF SyncIInv

\* A first call of SetOrder is the last one, and every job of the queue has its row.
LEMMA OrderStep ==
    ASSUME StoreIInv, failures = 0, writes # <<>>, Head(writes).call = "order",
           ReplaceOrder, writes' = Tail(writes),
           UNCHANGED <<qvars, sumvars, program, failures>>
    PROVE  SyncIInv' /\ SavingsIInv'
  <1>1. /\ QueueIInv /\ TablesIInv /\ writes \in Seq(Call) /\ program = "up" /\ SavingsIInv
        /\ SavesAreRight /\ PlacesAreRight /\ ErasesAreRight /\ OrderIsLast /\ CountsAreRight
        /\ RowsInSync
    BY DEF StoreIInv, MethodTypeOK, SyncIInv
  <1>2. /\ Len(writes) \in Nat \ {0} /\ DOMAIN writes = 1 .. Len(writes)
        /\ writes[1] = Head(writes)
        /\ DOMAIN writes' = 1 .. Len(writes) - 1
        /\ Calls = Calls' \cup {Head(writes)}
    BY <1>1, TailFacts
  <1>3. Len(writes) = 1 /\ Head(writes) = SetOrder
    BY <1>1, <1>2 DEF OrderIsLast
  <1>4. DOMAIN writes' = {} /\ Calls' = {} /\ Calls = {SetOrder}
    BY <1>2, <1>3 DEF Calls
  <1>5. Saves = {} /\ Erases = {}
    BY <1>4, CallFacts DEF Saves, Erases
  <1>6. \A k \in JobId : row[k] = status[k] /\ rowPhase[k] = phase[k]
    BY <1>1, <1>5 DEF RowsInSync
  <1>7. /\ placed' = Present /\ place' = order
        /\ row' = row /\ rowPhase' = rowPhase /\ lifetime' = lifetime /\ missed' = missed
        /\ status' = status /\ phase' = phase /\ order' = order
    BY <1>6 DEF ReplaceOrder, sumvars, qvars, Present
  <1>8. SavesAreRight' /\ PlacesAreRight' /\ ErasesAreRight' /\ OrderIsLast' /\ CountsAreRight'
    BY <1>4 DEF SavesAreRight, PlacesAreRight, ErasesAreRight, OrderIsLast, CountsAreRight
  <1>9. RowsInSync'
    BY <1>6, <1>7 DEF RowsInSync
  <1>10. OrderInSync'
    <2> SUFFICES ASSUME NEW a \in JobId, NEW b \in JobId
                 PROVE  (<<a, b>> \in LoadedOrder') <=> (<<a, b>> \in order)
      BY <1>7 DEF OrderInSync
    <2>1. \A k \in JobId : (row'[k] # Absent) <=> (k \in Present)
      BY <1>6, <1>7 DEF Present
    <2>2. <<a, b>> \in order => a \in Present /\ b \in Present /\ a # b
      BY <1>1, OrderFacts
    <2> QED BY <1>7, <2>1, <2>2 DEF LoadedOrder
  <1>11. SavingsIInv'
    <2>1. \A k \in Shrinking : Count(k) \notin Calls
      BY <1>4, CallFacts, DurableAssumptions
    <2> QED BY <1>1, <1>7, <2>1 DEF SavingsIInv
  <1> QED BY <1>8, <1>9, <1>10, <1>11 DEF SyncIInv

\* A first call of AddToLifetimeSaved is the last one: the job is complete in its row and
\* was not counted before.
LEMMA CountStep ==
    ASSUME StoreIInv, failures = 0, writes # <<>>, Head(writes).call = "count",
           NEW j \in Head(writes).jobs, AddToLifetimeSaved(j), writes' = Tail(writes),
           UNCHANGED <<qvars, jobvars, program, failures>>
    PROVE  SyncIInv' /\ SavingsIInv'
  <1>1. /\ QueueIInv /\ TablesIInv /\ writes \in Seq(Call) /\ program = "up" /\ SavingsIInv
        /\ SavesAreRight /\ PlacesAreRight /\ ErasesAreRight /\ OrderIsLast /\ CountsAreRight
        /\ RowsInSync /\ OrderInSync
    BY DEF StoreIInv, MethodTypeOK, SyncIInv
  <1>2. /\ Len(writes) \in Nat \ {0} /\ DOMAIN writes = 1 .. Len(writes)
        /\ writes[1] = Head(writes)
        /\ DOMAIN writes' = 1 .. Len(writes) - 1
        /\ Calls = Calls' \cup {Head(writes)}
    BY <1>1, TailFacts
  <1>3. Saves = {}
    BY <1>1, TailSync
  <1>4. /\ j \in Shrinking /\ Head(writes) = Count(j) /\ Len(writes) = 1
        /\ lifetime[j] = 0 /\ row[j] = "complete"
    <2>1. PICK k \in Shrinking : /\ Head(writes) = Count(k) /\ 1 = Len(writes)
                                 /\ lifetime[k] = 0 /\ row[k] = "complete"
      BY <1>1, <1>2, <1>3 DEF CountsAreRight
    <2>2. k = j
      BY <2>1 DEF Count
    <2> QED BY <2>1, <2>2
  <1>5. DOMAIN writes' = {} /\ Calls' = {} /\ Calls = {Count(j)}
    BY <1>2, <1>4 DEF Calls
  <1>6. Saves = {} /\ Erases = {} /\ Places = {} /\ SetOrder \notin Calls
    BY <1>5, CallFacts, <1>4, DurableAssumptions DEF Saves, Erases, Places
  <1>7. /\ row' = row /\ rowPhase' = rowPhase /\ placed' = placed /\ place' = place
        /\ status' = status /\ phase' = phase /\ order' = order
    BY DEF jobvars, qvars
  <1>8. SavesAreRight' /\ PlacesAreRight' /\ ErasesAreRight' /\ OrderIsLast' /\ CountsAreRight'
    BY <1>5 DEF SavesAreRight, PlacesAreRight, ErasesAreRight, OrderIsLast, CountsAreRight
  <1>9. RowsInSync'
    BY <1>1, <1>6, <1>7 DEF RowsInSync
  <1>10. OrderInSync'
    <2>1. LoadedOrder' = LoadedOrder
      BY <1>7 DEF LoadedOrder
    <2> QED BY <1>1, <1>6, <1>7, <2>1 DEF OrderInSync
  <1>11. SavingsIInv'
    <2>1. \A k \in Shrinking \ {j} : Count(k) \notin Calls
      BY <1>5, CallsNameJobs
    <2>2. \A k \in Shrinking \ {j} : lifetime'[k] = lifetime[k] /\ (k \in missed => k \in missed')
      BY <1>1 DEF AddToLifetimeSaved, TablesIInv, TablesTypeOK
    <2>3. lifetime'[j] = 1 \/ (lifetime'[j] = 0 /\ j \in missed')
      BY <1>1, <1>4, DurableAssumptions DEF AddToLifetimeSaved, TablesIInv, TablesTypeOK
    <2> QED BY <1>1, <1>4, <1>5, <1>7, <2>1, <2>2, <2>3 DEF SavingsIInv
  <1> QED BY <1>8, <1>9, <1>10, <1>11 DEF SyncIInv

-----------------------------------------------------------------------------
(* What the program does once it is up, and the crash and the load.        *)

\* A failed write ends what is said for as long as none has failed.
LEMMA WriteStep ==
    ASSUME StoreIInv, WriteSucceeds \/ WriteFails
    PROVE  StoreIInv' /\ UNCHANGED qvars
  <1>0. /\ writes # <<>> /\ writes' = Tail(writes) /\ UNCHANGED <<qvars, program>>
        /\ QueueIInv /\ TablesIInv /\ MethodTypeOK /\ lastId \in Nat
    BY MaxJobsAssumption
    DEF WriteSucceeds, WriteFails, StoreIInv, QueueIInv, QueueTypeOK
  <1>1. QueueIInv'
    BY <1>0 DEF qvars, QueueIInv, QueueTypeOK, Unissued, OrderMatchesJobs, NoStalePhase, Present
  <1>2. /\ program = "up" /\ Head(writes) \in Call /\ writes' \in Seq(Call) /\ Calls' \subseteq Calls
        /\ Head(writes) \in Calls
    BY <1>0, TailFacts DEF MethodTypeOK
  <1>3. CASE WriteSucceeds
    <2> DEFINE w == Head(writes)
    <2>0. UNCHANGED failures
      BY <1>3 DEF WriteSucceeds
    <2>1. /\ w.jobs \in SUBSET JobId
          /\ w.call # "erase" => \A j \in w.jobs : j <= lastId
          /\ w.call = "count" => w.jobs \subseteq Shrinking
      BY <1>0, <1>2, CallFacts DEF MethodTypeOK
    <2>2. lastId' = lastId
      BY <1>0 DEF qvars
    <2>3. \/ w.call = "save" /\ SaveRows(w.jobs) /\ UNCHANGED sumvars
          \/ w.call = "place" /\ (\E j \in w.jobs : AppendToOrder(j)) /\ UNCHANGED sumvars
          \/ w.call = "erase" /\ (\E j \in w.jobs : DeleteJob(j)) /\ UNCHANGED sumvars
          \/ w.call = "order" /\ ReplaceOrder /\ UNCHANGED sumvars
          \/ /\ w.call = "count" /\ (\E j \in w.jobs : AddToLifetimeSaved(j)) /\ UNCHANGED jobvars
      BY <1>3 DEF WriteSucceeds
    <2>4. TablesIInv'
      BY <1>0, <2>1, <2>2, <2>3, SaveRowsStep, AppendToOrderStep, DeleteJobStep, ReplaceOrderStep,
         AddToLifetimeSavedStep
    <2>5. MethodTypeOK'
      BY <1>0, <1>2, <2>0, <2>2 DEF MethodTypeOK
    <2>6. CASE failures = 0
      <3>1. SyncIInv' /\ SavingsIInv'
        BY <1>0, <2>0, <2>3, <2>6, SaveStep, PlaceStep, EraseStep, OrderStep, CountStep
      <3> QED BY <1>0, <1>1, <2>4, <2>5, <3>1 DEF StoreIInv
    <2>7. CASE failures # 0
      BY <1>0, <1>1, <2>0, <2>4, <2>5, <2>7 DEF StoreIInv, SyncIInv, SavingsIInv
    <2> QED BY <1>0, <2>6, <2>7
  <1>4. CASE WriteFails
    <2>1. failures' = failures + 1 /\ failures < MaxFailures /\ UNCHANGED dbvars
      BY <1>4 DEF WriteFails
    <2>2. TablesIInv'
      BY <1>0, <2>1 DEF TablesIInv, TablesTypeOK, PlacesAreOrdered, RowsHaveNoStalePhase,
                        UnissuedHasNoTrace, SessionWithinLifetime, dbvars, jobvars, sumvars, qvars
    <2>3. MethodTypeOK' /\ failures' # 0
      BY <1>0, <1>2, <2>1, DurableAssumptions DEF MethodTypeOK, qvars
    <2> QED BY <1>0, <1>1, <2>2, <2>3 DEF StoreIInv, SyncIInv, SavingsIInv
  <1> QED BY <1>3, <1>4

\* Everything the program does once it is up keeps queue, tables and calls right.
LEMMA OperatesStep ==
    ASSUME StoreIInv, Operates
    PROVE  StoreIInv'
  <1>1. CASE ResetSession
    <2>1. QueueIInv'
      BY <1>1 DEF ResetSession, StoreIInv, qvars, QueueIInv, QueueTypeOK, Unissued,
                  OrderMatchesJobs, NoStalePhase, Present
    <2>2. TablesIInv'
      BY <1>1, DurableAssumptions
      DEF ResetSession, StoreIInv, TablesIInv, TablesTypeOK, PlacesAreOrdered,
          RowsHaveNoStalePhase, UnissuedHasNoTrace, SessionWithinLifetime, jobvars, qvars
    <2>3. MethodTypeOK' /\ Calls' = Calls
      BY <1>1 DEF ResetSession, StoreIInv, MethodTypeOK, Calls, runvars, qvars
    <2>4. SavingsIInv'
      BY <1>1, <2>3 DEF ResetSession, StoreIInv, SavingsIInv, jobvars, runvars
    <2>5. SyncIInv'
      <3>1. /\ UNCHANGED <<qvars, jobvars, lifetime, runvars>>
            /\ Places' = Places /\ Saves' = Saves /\ Erases' = Erases
            /\ Present' = Present /\ LoadedOrder' = LoadedOrder
        BY <1>1, <2>3 DEF ResetSession, Places, Saves, Erases, Present, LoadedOrder, jobvars, qvars
      <3>2. /\ SavesAreRight' <=> SavesAreRight
            /\ PlacesAreRight' <=> PlacesAreRight
            /\ ErasesAreRight' <=> ErasesAreRight
        BY <2>3, <3>1 DEF SavesAreRight, PlacesAreRight, ErasesAreRight, qvars, jobvars, runvars
      <3>3. /\ OrderIsLast' <=> OrderIsLast
            /\ CountsAreRight' <=> CountsAreRight
            /\ RowsInSync' <=> RowsInSync
            /\ OrderInSync' <=> OrderInSync
        BY <2>3, <3>1 DEF OrderIsLast, CountsAreRight, RowsInSync, OrderInSync, qvars, jobvars, runvars
      <3> QED BY <3>1, <3>2, <3>3 DEF StoreIInv, SyncIInv, runvars
    <2> QED BY <2>1, <2>2, <2>3, <2>4, <2>5 DEF StoreIInv
  <1> QED BY <1>1, MethodStep, WriteStep DEF Operates

\* A crash takes the memory and the calls; a saving whose row was stored is missed.
LEMMA CrashStep ==
    ASSUME StoreIInv, Crash
    PROVE  StoreIInv'
  <1>1. /\ program' = "down" /\ writes' = <<>>
        /\ status' = [j \in JobId |-> Absent] /\ phase' = [j \in JobId |-> NoPhase] /\ order' = {}
        /\ missed' = missed \cup {j \in Shrinking : row[j] = "complete" /\ Count(j) \in Calls}
        /\ UNCHANGED <<lastId, jobvars, counters, lifetime, session, failures>>
    BY DEF Crash
  <1>2. QueueIInv'
    BY <1>1, StatusFacts DEF StoreIInv, QueueIInv, QueueTypeOK, Unissued, OrderMatchesJobs,
                             NoStalePhase, Present
  <1>3. TablesIInv'
    BY <1>1 DEF StoreIInv, TablesIInv, TablesTypeOK, PlacesAreOrdered, RowsHaveNoStalePhase,
                UnissuedHasNoTrace, SessionWithinLifetime, jobvars
  <1>4. MethodTypeOK' /\ Calls' = {}
    BY <1>1, EmptySeq DEF StoreIInv, MethodTypeOK, Calls
  <1>5. SyncIInv'
    BY <1>1 DEF SyncIInv
  <1>6. SavingsIInv'
    BY <1>1 DEF StoreIInv, SavingsIInv, jobvars
  <1> QED BY <1>2, <1>3, <1>4, <1>5, <1>6 DEF StoreIInv

\* ResetRunningJobs takes the phases of the jobs it makes pending.
LEMMA ResetRunningStep ==
    ASSUME StoreIInv, ResetRunningJobs
    PROVE  StoreIInv'
  <1>1. /\ program = "down" /\ program' = "reset"
        /\ row' = [j \in JobId |-> IF j \in Interrupted THEN "pending" ELSE row[j]]
        /\ rowPhase' = [j \in JobId |-> IF j \in Interrupted THEN NoPhase ELSE rowPhase[j]]
        /\ UNCHANGED <<qvars, placed, place, sumvars, writes, failures>>
    BY DEF ResetRunningJobs
  <1>2. QueueIInv'
    BY <1>1 DEF StoreIInv, qvars, QueueIInv, QueueTypeOK, Unissued, OrderMatchesJobs,
                NoStalePhase, Present
  <1>3. TablesIInv'
    <2>1. TablesTypeOK'
      BY <1>1, StatusFacts DEF StoreIInv, TablesIInv, TablesTypeOK, sumvars
    <2> QED BY <1>1, <2>1
            DEF StoreIInv, TablesIInv, PlacesAreOrdered, RowsHaveNoStalePhase, UnissuedHasNoTrace,
                SessionWithinLifetime, sumvars, qvars, Interrupted, Absent
  <1>4. MethodTypeOK' /\ Calls' = Calls
    BY <1>1 DEF StoreIInv, MethodTypeOK, Calls, qvars
  <1>5. SyncIInv'
    BY <1>1 DEF SyncIInv
  <1>6. SavingsIInv'
    BY <1>1, <1>4, DurableAssumptions DEF StoreIInv, SavingsIInv, Interrupted, sumvars, Absent
  <1> QED BY <1>2, <1>3, <1>4, <1>5, <1>6 DEF StoreIInv

\* The order that GetAllJobs returns is one of all the jobs that have a row.
LEMMA LoadedOrderIsRight ==
    ASSUME TablesIInv
    PROVE  LET Rows == {j \in JobId : row[j] # Absent} IN
           /\ LoadedOrder \subseteq JobId \X JobId
           /\ \A a, b \in JobId : <<a, b>> \in LoadedOrder => a \in Rows /\ b \in Rows /\ a # b
           /\ \A a, b \in Rows : a # b => (<<a, b>> \in LoadedOrder) # (<<b, a>> \in LoadedOrder)
           /\ \A a, b, c \in Rows :
                 <<a, b>> \in LoadedOrder /\ <<b, c>> \in LoadedOrder => <<a, c>> \in LoadedOrder
  <1> DEFINE Rows == {j \in JobId : row[j] # Absent}
  <1>1. \A a, b \in Rows :
           (<<a, b>> \in LoadedOrder) <=>
              a # b /\ (<<a, b>> \in place \/ (a \notin placed /\ (b \in placed \/ a < b)))
    BY DEF LoadedOrder
  <1>2. \A a, b : <<a, b>> \in place => a \in placed /\ b \in placed
    BY DEF TablesIInv, TablesTypeOK
  <1>3. \A a, b \in Rows : a # b => (a < b) # (b < a)
    BY MaxJobsAssumption DEF JobId
  <1>4. \A a, b, c \in Rows : a < b /\ b < c => a < c /\ a # c
    BY MaxJobsAssumption DEF JobId
  <1>5. \A a, b \in Rows : a # b => (<<a, b>> \in LoadedOrder) # (<<b, a>> \in LoadedOrder)
    <2> SUFFICES ASSUME NEW a \in Rows, NEW b \in Rows, a # b
                 PROVE  (<<a, b>> \in LoadedOrder) # (<<b, a>> \in LoadedOrder)
      OBVIOUS
    <2>1. CASE a \in placed /\ b \in placed
      <3>1. (<<a, b>> \in place) # (<<b, a>> \in place)
        BY <2>1 DEF TablesIInv, PlacesAreOrdered
      <3> QED BY <1>1, <2>1, <3>1
    <2>2. CASE a \notin placed /\ b \notin placed
      BY <1>1, <1>2, <1>3, <2>2
    <2>3. CASE a \in placed /\ b \notin placed
      BY <1>1, <1>2, <2>3
    <2>4. CASE a \notin placed /\ b \in placed
      BY <1>1, <1>2, <2>4
    <2> QED BY <2>1, <2>2, <2>3, <2>4
  <1>6. \A a, b, c \in Rows :
           <<a, b>> \in LoadedOrder /\ <<b, c>> \in LoadedOrder => <<a, c>> \in LoadedOrder
    <2> SUFFICES ASSUME NEW a \in Rows, NEW b \in Rows, NEW c \in Rows,
                        <<a, b>> \in LoadedOrder, <<b, c>> \in LoadedOrder
                 PROVE  <<a, c>> \in LoadedOrder
      OBVIOUS
    <2>1. a # c
      BY <1>5 DEF LoadedOrder
    <2>2. CASE <<a, b>> \in place
      <3>1. a \in placed /\ b \in placed /\ <<b, c>> \in place /\ c \in placed
        BY <1>1, <1>2, <2>2
      <3> QED BY <1>1, <2>1, <2>2, <3>1 DEF TablesIInv, PlacesAreOrdered
    <2>3. CASE a \notin placed /\ b \in placed
      BY <1>1, <1>2, <2>1, <2>3
    <2>4. CASE a \notin placed /\ b \notin placed /\ a < b
      BY <1>1, <1>2, <1>4, <2>1, <2>4
    <2> QED BY <1>1, <2>2, <2>3, <2>4
  <1> QED BY <1>5, <1>6 DEF LoadedOrder

\* What NewQueueWithStore loads is a queue, and in sync with its tables.
LEMMA LoadStep ==
    ASSUME StoreIInv, Load
    PROVE  StoreIInv'
  <1>1. /\ program = "reset" /\ program' = "up" /\ status' = row /\ phase' = rowPhase
        /\ order' = LoadedOrder /\ UNCHANGED <<lastId, dbvars, writes, failures>>
        /\ writes = <<>>
    BY DEF Load, StoreIInv, MethodTypeOK
  <1>2. Calls' = {} /\ DOMAIN writes' = {} /\ LoadedOrder' = LoadedOrder
    BY <1>1 DEF Calls, LoadedOrder, dbvars, jobvars
  <1>3. QueueIInv'
    <2>1. Present' = {j \in JobId : row[j] # Absent}
      BY <1>1 DEF Present
    <2>2. OrderMatchesJobs' /\ order' \subseteq JobId \X JobId
      BY <1>1, <2>1, LoadedOrderIsRight DEF OrderMatchesJobs, StoreIInv
    <2>3. QueueTypeOK' /\ Unissued' /\ NoStalePhase'
      BY <1>1, <2>2 DEF StoreIInv, TablesIInv, TablesTypeOK, RowsHaveNoStalePhase,
                        UnissuedHasNoTrace, QueueIInv, QueueTypeOK, Unissued, NoStalePhase
    <2> QED BY <2>2, <2>3 DEF QueueIInv
  <1>4. TablesIInv'
    BY <1>1 DEF StoreIInv, TablesIInv, TablesTypeOK, PlacesAreOrdered, RowsHaveNoStalePhase,
                UnissuedHasNoTrace, SessionWithinLifetime, dbvars, jobvars, sumvars
  <1>5. MethodTypeOK'
    BY <1>1, <1>2 DEF StoreIInv, MethodTypeOK
  <1>6. SyncIInv'
    BY <1>1, <1>2 DEF SyncIInv, SavesAreRight, PlacesAreRight, ErasesAreRight, OrderIsLast,
                      CountsAreRight, RowsInSync, OrderInSync, dbvars, jobvars
  <1>7. SavingsIInv'
    BY <1>1 DEF StoreIInv, SavingsIInv, Calls, dbvars, jobvars, sumvars
  <1> QED BY <1>3, <1>4, <1>5, <1>6, <1>7 DEF StoreIInv

-----------------------------------------------------------------------------
(* The start of the program.                                               *)

\* The columns and the versions that added them.
LEMMA SinceFacts ==
    /\ Len(Since) = 12 /\ Columns = 1 .. 12
    /\ \A c \in Columns : Since[c] \in 3 .. 8
    /\ \A c, d \in Columns : c < d => Since[c] <= Since[d]
    /\ SchemaVersion = 8
  BY DEF Since, Columns, SchemaVersion

\* The loop over the columns begins behind those that the version has.
LEMMA FirstColumnFacts ==
    ASSUME version \in 1 .. SchemaVersion
    PROVE  /\ FirstColumn \in 1 .. Len(Since) + 1
           /\ ColumnsOf(version) = 1 .. FirstColumn - 1
  <1> DEFINE First(c) == \A d \in Columns : d < c <=> Since[d] <= version
  <1>1. \E c \in 1 .. Len(Since) + 1 : First(c)
    <2>1. CASE version \in {1, 2}
      <3>1. First(1)
        BY <2>1 DEF Since, Columns
      <3> QED BY <3>1, SinceFacts
    <2>2. CASE version = 3
      <3>1. First(4)
        BY <2>2 DEF Since, Columns
      <3> QED BY <3>1, SinceFacts
    <2>3. CASE version = 4
      <3>1. First(5)
        BY <2>3 DEF Since, Columns
      <3> QED BY <3>1, SinceFacts
    <2>4. CASE version = 5
      <3>1. First(10)
        BY <2>4 DEF Since, Columns
      <3> QED BY <3>1, SinceFacts
    <2>5. CASE version \in {6, 7}
      <3>1. First(12)
        BY <2>5 DEF Since, Columns
      <3> QED BY <3>1, SinceFacts
    <2>6. CASE version = 8
      <3>1. First(13)
        BY <2>6 DEF Since, Columns
      <3> QED BY <3>1, SinceFacts
    <2>7. version \in {1, 2, 3, 4, 5, 6, 7, 8}
      BY SinceFacts
    <2> QED BY <2>1, <2>2, <2>3, <2>4, <2>5, <2>6, <2>7
  <1>2. FirstColumn \in 1 .. Len(Since) + 1 /\ First(FirstColumn)
    <2> HIDE DEF First
    <2>1. FirstColumn = CHOOSE c \in 1 .. Len(Since) + 1 : First(c)
      BY DEF FirstColumn, First
    <2> QED BY <1>1, <2>1
  <1>3. ColumnsOf(version) = 1 .. FirstColumn - 1
    BY <1>2, SinceFacts DEF ColumnsOf
  <1> QED BY <1>2, <1>3

\* What an early version may leave.
LEMMA OldFacts ==
    ASSUME StartTypeOK, lastId \in 0 .. MaxJobs
    PROVE  /\ IsFiniteSet(Jobs) /\ Cardinality(Jobs) \in Nat
           /\ Jobs = 1 .. Cardinality(Jobs)
           /\ Jobs \subseteq JobId /\ \A j \in Jobs : j <= lastId
           /\ old.jobs \in [Jobs -> Status]
           /\ old.order \in [Jobs -> Jobs]
           /\ \A i, k \in Jobs : i # k => old.order[i] # old.order[k]
           /\ \A j \in Jobs : \E i \in Jobs : old.order[i] = j
  <1>1. PICK n \in 0 .. MaxJobs : n <= lastId /\ old \in Queues(n)
    BY DEF StartTypeOK
  <1>2. /\ Jobs = 1 .. n /\ n \in Nat
        /\ old.jobs \in [1 .. n -> Status]
        /\ old.order \in [1 .. n -> 1 .. n]
        /\ \A i, k \in 1 .. n : i # k => old.order[i] # old.order[k]
    BY <1>1, MaxJobsAssumption DEF Queues, Jobs
  <1>3. IsFiniteSet(1 .. n) /\ Cardinality(1 .. n) = n
    <2>1. n \in Nat
      BY <1>2
    <2> QED BY <2>1, FS_Interval
  <1>4. old.order \in Injection(1 .. n, 1 .. n)
    BY <1>2 DEF Injection, IsInjective
  <1>5. old.order \in Surjection(1 .. n, 1 .. n)
    BY <1>3, <1>4, FS_Injection
  <1>6. \A j \in 1 .. n : \E i \in 1 .. n : old.order[i] = j
    BY <1>5 DEF Surjection
  <1>7. Jobs \subseteq JobId /\ \A j \in Jobs : j <= lastId
    BY <1>1, <1>2, MaxJobsAssumption DEF JobId
  <1> QED BY <1>2, <1>3, <1>6, <1>7

\* The tables are left alone, or the counters are made.
LEMMA StartFrame ==
    ASSUME StoreIInv, program = "down", UNCHANGED <<qvars, jobvars, lifetime, session, missed>>,
           UNCHANGED <<writes, program>>, counters' \in BOOLEAN,
           \/ failures' = failures
           \/ failures < MaxFailures /\ failures' = failures + 1
    PROVE  StoreIInv'
  <1>1. QueueIInv'
    BY DEF StoreIInv, qvars, QueueIInv, QueueTypeOK, Unissued, OrderMatchesJobs,
           NoStalePhase, Present
  <1>2. TablesIInv'
    BY DEF StoreIInv, TablesIInv, TablesTypeOK, PlacesAreOrdered, RowsHaveNoStalePhase,
           UnissuedHasNoTrace, SessionWithinLifetime, jobvars, qvars
  <1>3. MethodTypeOK' /\ Calls' = Calls /\ failures \in Nat
    BY DurableAssumptions DEF StoreIInv, MethodTypeOK, Calls, qvars
  <1>4. SyncIInv' /\ SavingsIInv'
    BY <1>3 DEF StoreIInv, SyncIInv, SavingsIInv, jobvars
  <1> QED BY <1>1, <1>2, <1>3, <1>4 DEF StoreIInv

\* The program begins with the import if there is a file and no database.
LEMMA BeginsStep ==
    ASSUME StoreIInv, StartIInv, Begins
    PROVE  StoreIInv' /\ StartIInv'
  <1> USE DEF At, Goes, Begins, qvars, dbvars, jobvars, sumvars, runvars, schemavars
  <1>1. StoreIInv'
    BY StartFrame DEF StoreIInv, TablesIInv, TablesTypeOK
  <1>2. StartTypeOK' /\ OldSavings' /\ FilesAreRight' /\ Jobs' = Jobs /\ Before' = Before
    BY DEF StartIInv, StartTypeOK, OldSavings, FilesAreRight, Jobs, Before
  <1>3. StartIsRight' /\ EmptyIfAbsent'
    BY <1>2 DEF StartIInv, StartTypeOK, StartIsRight, EmptyIfAbsent, NothingStored, NeedsMigration
  <1>4. SchemaIsRight'
    BY DEF StartIInv, SchemaIsRight, ColumnsOf
  <1>5. UpgradeIInv'
    BY <1>2 DEF StartIInv, StartIsRight, UpgradeIInv, Imported, HoldsOld, NeedsMigration
  <1> QED BY <1>1, <1>2, <1>3, <1>4, <1>5 DEF StartIInv

\* The steps of MigrateFromJSON before the database.
LEMMA ReadStep ==
    ASSUME StoreIInv, StartIInv, ReadsNothing \/ MigrationFails \/ BacksUp
    PROVE  StoreIInv' /\ StartIInv'
  <1> USE DEF At, Goes, qvars, dbvars, jobvars, sumvars, runvars, schemavars, Errs, SetsFileAside
  <1>0. /\ program = "down" /\ start = "read" /\ ~importing /\ ~exists /\ "json" \in files /\ ~loaded
        /\ start' = "schema" /\ next' = next /\ files' # {} /\ files' \subseteq {"json", "backup", "corrupt"}
        /\ UNCHANGED <<qvars, dbvars, writes, program, schemavars, loaded, old>>
        /\ \/ failures' = failures
           \/ failures < MaxFailures /\ failures' = failures + 1
        /\ mishaps' \in {mishaps, mishaps \cup {"import"}}
        /\ importing' \in BOOLEAN
        /\ \/ ~importing' /\ (Jobs = {} \/ "import" \in mishaps')
           \/ importing' /\ Jobs # {} /\ "json" \in files' /\ "backup" \in files'
    <2>1. start = "read"
      BY DEF ReadsNothing, MigrationFails, BacksUp
    <2>2. /\ ~importing /\ ~exists /\ "json" \in files /\ ~loaded
          /\ files \subseteq {"json", "backup", "corrupt"} /\ importing \in BOOLEAN
      <3>1. ~importing /\ ~exists /\ "json" \in files
        BY <2>1 DEF StartIInv, StartIsRight
      <3>2. ~loaded
        BY <3>1 DEF StartIInv, StartIsRight
      <3> QED BY <3>1, <3>2 DEF StartIInv, StartTypeOK
    <2>3. CASE ReadsNothing
      BY <2>1, <2>2, <2>3 DEF ReadsNothing
    <2>4. CASE MigrationFails
      BY <2>1, <2>2, <2>4 DEF MigrationFails
    <2>5. CASE BacksUp
      BY <2>1, <2>2, <2>5 DEF BacksUp
    <2> QED BY <2>3, <2>4, <2>5
  <1>1. StoreIInv'
    BY <1>0, StartFrame DEF StoreIInv, TablesIInv, TablesTypeOK
  <1>2. StartTypeOK' /\ OldSavings' /\ FilesAreRight' /\ Jobs' = Jobs
    <2>1. StartTypeOK'
      BY <1>0 DEF StartIInv, StartTypeOK
    <2>2. Jobs' = Jobs /\ OldSavings'
      BY <1>0 DEF StartIInv, OldSavings, Jobs
    <2>3. FilesAreRight'
      BY <1>0, <2>2 DEF StartIInv, FilesAreRight
    <2> QED BY <2>1, <2>2, <2>3
  <1>3. StartIsRight' /\ EmptyIfAbsent'
    BY <1>0, <1>2 DEF StartIInv, StartIsRight, EmptyIfAbsent, NothingStored
  <1>4. SchemaIsRight'
    BY <1>0 DEF StartIInv, SchemaIsRight, ColumnsOf
  <1>5. UpgradeIInv'
    BY <1>0, <1>2 DEF StartIInv, EmptyIfAbsent, NothingStored, UpgradeIInv
  <1> QED BY <1>1, <1>2, <1>3, <1>4, <1>5 DEF StartIInv

\* The tables are created.
LEMMA CreatesSchemaStep ==
    ASSUME StoreIInv, StartIInv, CreatesSchema
    PROVE  StoreIInv' /\ StartIInv'
  <1> USE DEF At, Goes, qvars, dbvars, jobvars, sumvars, runvars, schemavars, CreatesSchema
  <1>1. StoreIInv'
    BY StartFrame DEF StoreIInv, TablesIInv, TablesTypeOK
  <1>2. StartTypeOK' /\ OldSavings' /\ FilesAreRight' /\ Jobs' = Jobs /\ Before' = Before
    BY DEF StartIInv, StartTypeOK, OldSavings, FilesAreRight, Jobs, Before
  <1>3. StartIsRight' /\ EmptyIfAbsent'
    BY <1>2 DEF StartIInv, StartTypeOK, StartIsRight, EmptyIfAbsent, NothingStored
  <1>4. SchemaIsRight'
    BY DEF StartIInv, EmptyIfAbsent, SchemaIsRight, ColumnsOf
  <1>5. UpgradeIInv'
    BY <1>2 DEF StartIInv, StartIsRight, UpgradeIInv, Imported, HoldsOld
  <1> QED BY <1>1, <1>2, <1>3, <1>4, <1>5 DEF StartIInv

\* The version is looked at.
LEMMA ChecksVersionStep ==
    ASSUME StoreIInv, StartIInv, ChecksVersion
    PROVE  StoreIInv' /\ StartIInv'
  <1> USE DEF At, Goes, qvars, dbvars, jobvars, sumvars, runvars, schemavars
  <1>0. /\ program = "down" /\ start = "version" /\ exists /\ version \in 0 .. 8
        /\ importing' = importing
        /\ \/ version = 0 /\ version' = SchemaVersion /\ start' = "counters" /\ next' = next
           \/ /\ version # 0 /\ version' = version /\ next' = FirstColumn
              /\ start' = IF version < SchemaVersion THEN "columns" ELSE "ready"
        /\ UNCHANGED <<qvars, dbvars, runvars, files, exists, columns, loaded, old, mishaps>>
    BY SinceFacts DEF StartIInv, StartIsRight, StartTypeOK, ChecksVersion
  <1>1. StoreIInv'
    BY <1>0, StartFrame DEF StoreIInv, TablesIInv, TablesTypeOK
  <1>2. version # 0 => FirstColumn \in 1 .. 13 /\ ColumnsOf(version) = 1 .. FirstColumn - 1
    BY <1>0, FirstColumnFacts, SinceFacts
  <1>3. StartTypeOK' /\ OldSavings' /\ FilesAreRight' /\ Jobs' = Jobs /\ Before' = Before
    BY <1>0, <1>2, SinceFacts
    DEF StartIInv, StartTypeOK, OldSavings, FilesAreRight, Jobs, Before
  <1>4. StartIsRight' /\ EmptyIfAbsent'
    BY <1>0, <1>3 DEF StartIInv, StartIsRight, EmptyIfAbsent, NothingStored
  <1>5. SchemaIsRight'
    <2>1. CASE version = 0
      BY <1>0, <2>1, SinceFacts DEF StartIInv, SchemaIsRight
    <2>2. CASE version # 0
      <3>1. FirstColumn' = FirstColumn /\ ColumnsOf(version)' = ColumnsOf(version)
        BY <1>0, <2>2 DEF FirstColumn, ColumnsOf
      <3>2. version = 1 => FirstColumn = 1
        <4>1. version = 1 => ColumnsOf(version) = {}
          BY SinceFacts DEF ColumnsOf
        <4>2. FirstColumn # 1 => 1 \in 1 .. FirstColumn - 1
          BY <1>2, <2>2
        <4> QED BY <1>2, <2>2, <4>1, <4>2
      <3> QED BY <1>0, <1>2, <2>2, <3>1, <3>2, SinceFacts DEF StartIInv, SchemaIsRight
    <2> QED BY <2>1, <2>2
  <1>6. UpgradeIInv'
    BY <1>0, <1>3 DEF StartIInv, StartIsRight, UpgradeIInv, Imported, HoldsOld
  <1> QED BY <1>1, <1>3, <1>4, <1>5, <1>6 DEF StartIInv

\* The counters, a column, or the version are added.
LEMMA MigrationStep ==
    ASSUME StoreIInv, StartIInv, InitsCounters \/ AddsColumn \/ RecordsVersion
    PROVE  StoreIInv' /\ StartIInv'
  <1> USE DEF At, Goes, qvars, dbvars, jobvars, sumvars, runvars, schemavars
  <1>0. /\ program = "down" /\ exists /\ counters' \in BOOLEAN /\ (counters => counters')
        /\ version \in 0 .. 8 /\ start \in {"counters", "columns"} /\ start' # "order"
        /\ start' \in {start, "ready"} /\ importing' = importing
        /\ UNCHANGED <<qvars, jobvars, lifetime, session, missed, runvars, files, exists, loaded, old, mishaps>>
        /\ version' \in {version, 8} /\ (start = "columns" => ~importing)
    BY SinceFacts DEF StartIInv, StartIsRight, StartTypeOK, InitsCounters, AddsColumn, RecordsVersion,
       StoreIInv, TablesIInv, TablesTypeOK
  <1>1. StoreIInv'
    BY <1>0, StartFrame
  <1>2. StartTypeOK'
    <2>0. /\ next' \in {next, next + 1} /\ columns' \in {columns, columns \cup {next}}
          /\ columns' # columns => next \in Columns
      BY DEF InitsCounters, AddsColumn, RecordsVersion
    <2>1. next' \in Nat \ {0} /\ columns' \subseteq Columns
      BY <2>0 DEF StartIInv, StartTypeOK
    <2> QED BY <1>0, <2>1, SinceFacts DEF StartIInv, StartTypeOK
  <1>3. OldSavings' /\ FilesAreRight' /\ Jobs' = Jobs /\ Before' = Before
    BY <1>0 DEF StartIInv, OldSavings, FilesAreRight, Jobs, Before
  <1>4. StartIsRight' /\ EmptyIfAbsent'
    BY <1>0, <1>3 DEF StartIInv, StartIsRight, EmptyIfAbsent, NothingStored
  <1>5. SchemaIsRight'
    <2>1. CASE InitsCounters
      BY <2>1, <1>0, SinceFacts DEF InitsCounters, StartIInv, SchemaIsRight, ColumnsOf, FirstColumn
    <2>2. CASE AddsColumn
      <3>0. /\ start = "columns" /\ start' = "columns" /\ next \in Columns \ columns
            /\ columns' = columns \cup {next} /\ next' = next + 1
            /\ version < 2 => counters
            /\ UNCHANGED <<counters, version, mishaps>>
        BY <2>2 DEF AddsColumn
      <3>1. FirstColumn' = FirstColumn
        BY <3>0 DEF FirstColumn
      <3>2. FirstColumn \in 1 .. 13 /\ version \in 1 .. 7
        BY <3>0, FirstColumnFacts, SinceFacts DEF StartIInv, SchemaIsRight
      <3>3. next' \in FirstColumn .. 13 /\ 1 .. next' - 1 \subseteq columns'
        BY <3>0, <3>2, SinceFacts DEF StartIInv, SchemaIsRight
      <3>4. columns' = 1 .. next' - 1 \/ "columns" \in mishaps'
        <4>1. columns = 1 .. next - 1 => columns' = 1 .. next' - 1
          BY <3>0, SinceFacts
        <4> QED BY <3>0, <4>1 DEF StartIInv, SchemaIsRight
      <3>5. version' = 0 \/ version' = 8 => FALSE
        BY <3>0, <3>2
      <3> QED BY <1>0, <3>0, <3>1, <3>2, <3>3, <3>4, <3>5, SinceFacts
              DEF StartIInv, SchemaIsRight
    <2>3. CASE RecordsVersion
      <3>0. /\ start = "columns" /\ start' = "ready" /\ next = 13 /\ version' = 8
            /\ UNCHANGED <<counters, columns, mishaps, program>>
        BY <2>3, SinceFacts DEF RecordsVersion
      <3>1. columns = Columns /\ (counters \/ "counters" \in mishaps)
        <4>1. 1 .. next - 1 \subseteq columns /\ columns \subseteq Columns
          BY <3>0 DEF StartIInv, StartTypeOK, SchemaIsRight
        <4>2. 1 .. next - 1 = 1 .. 12
          BY <3>0
        <4>3. version < 2 => counters
          BY <3>0 DEF StartIInv, SchemaIsRight
        <4>4. version >= 2 => counters \/ "counters" \in mishaps
          BY <3>0 DEF StartIInv, SchemaIsRight
        <4>5. version \in 1 .. 7
          BY <3>0, SinceFacts DEF StartIInv, SchemaIsRight
        <4>6. columns = Columns
          BY <4>1, <4>2, SinceFacts
        <4>7. counters \/ "counters" \in mishaps
          BY <3>0, <4>3, <4>4, <4>5
        <4> QED BY <4>6, <4>7
      <3> QED BY <1>0, <3>0, <3>1, SinceFacts DEF SchemaIsRight
    <2> QED BY <2>1, <2>2, <2>3
  <1>6. UpgradeIInv'
    BY <1>0, <1>3 DEF StartIInv, StartIsRight, UpgradeIInv, Imported, HoldsOld
  <1> QED BY <1>1, <1>2, <1>3, <1>4, <1>5, <1>6 DEF StartIInv

\* However a start ends, the schema is as its notes say.
LEMMA HalfDoneIsNoted ==
    ASSUME SchemaIsRight, start' = "off", program' # "up",
           UNCHANGED <<exists, version, columns, counters>>,
           mishaps \subseteq mishaps', HalfDone \subseteq mishaps'
    PROVE  SchemaIsRight'
  <1>1. /\ start = "counters" => "counters" \in mishaps'
        /\ start = "columns" /\ FirstColumn < next => "columns" \in mishaps'
    BY DEF HalfDone
  <1>2. ColumnsOf(version)' = ColumnsOf(version)
    BY DEF ColumnsOf
  <1>3. ASSUME version \in 1 .. SchemaVersion - 1, start = "columns"
        PROVE  /\ ColumnsOf(version) \subseteq columns
               /\ columns = ColumnsOf(version) \/ "columns" \in mishaps'
    <2>1. FirstColumn \in 1 .. Len(Since) + 1 /\ ColumnsOf(version) = 1 .. FirstColumn - 1
      BY <1>3, FirstColumnFacts, SinceFacts
    <2>2. /\ next \in FirstColumn .. Len(Since) + 1
          /\ 1 .. next - 1 \subseteq columns
          /\ columns = 1 .. next - 1 \/ "columns" \in mishaps
      BY <1>3 DEF SchemaIsRight
    <2>3. 1 .. FirstColumn - 1 \subseteq 1 .. next - 1
      BY <2>1, <2>2, SinceFacts
    <2>4. CASE next = FirstColumn
      BY <2>1, <2>2, <2>4
    <2>5. CASE FirstColumn < next
      BY <1>1, <1>3, <2>1, <2>2, <2>3, <2>5
    <2> QED BY <2>1, <2>2, <2>4, <2>5, SinceFacts
  <1> QED BY <1>1, <1>2, <1>3, SinceFacts DEF SchemaIsRight

\* A start that ends, for an error of the program's own or of the database's, leaves
\* no more half done than it notes.
LEMMA OpenFailsStep ==
    ASSUME StoreIInv, StartIInv, program = "down", start # "order", OpenFails,
           UNCHANGED <<qvars, writes, program, loaded, old>>,
           \/ failures' = failures
           \/ failures < MaxFailures /\ failures' = failures + 1,
           mishaps \subseteq mishaps', mishaps' \subseteq {"counters", "columns", "import"},
           importing => "import" \in mishaps',
           ~importing => HalfDone \subseteq mishaps'
    PROVE  StoreIInv' /\ StartIInv'
  <1> USE DEF Goes, qvars, dbvars, jobvars, sumvars, schemavars, SetsFileAside
  <1>1. CASE importing
    <2>0. /\ files' = (files \ {"json"}) \cup {"corrupt"} /\ start' = "schema" /\ importing' = FALSE
          /\ row' = [j \in JobId |-> Absent] /\ counters' = FALSE
          /\ exists' = FALSE /\ version' = 0 /\ columns' = {}
          /\ UNCHANGED <<rowPhase, placed, place, lifetime, session, missed, next>>
      BY <1>1 DEF OpenFails
    <2>1. row' = row /\ placed = {} /\ place = {} /\ ~loaded /\ "json" \in files
      BY <1>1, <2>0 DEF StartIInv, EmptyIfAbsent, StartIsRight
    <2>2. StoreIInv'
      BY <2>0, <2>1, StartFrame
    <2>3. StartTypeOK'
      <3>1. \E n \in 0 .. MaxJobs : n <= lastId' /\ old' \in Queues(n)
        BY DEF StartIInv, StartTypeOK
      <3>2. files' \subseteq {"json", "backup", "corrupt"} /\ version' \in 0 .. SchemaVersion
        BY <2>0, SinceFacts DEF StartIInv, StartTypeOK
      <3> QED BY <2>0, <3>1, <3>2 DEF StartIInv, StartTypeOK
    <2>4. OldSavings' /\ FilesAreRight'
      BY <2>0, <2>1 DEF StartIInv, OldSavings, FilesAreRight, Jobs
    <2>5. StartIsRight' /\ EmptyIfAbsent'
      BY <2>0, <2>1 DEF StartIsRight, EmptyIfAbsent, NothingStored
    <2>6. SchemaIsRight'
      BY <2>0, SinceFacts DEF SchemaIsRight
    <2>7. UpgradeIInv'
      BY <1>1 DEF UpgradeIInv
    <2> QED BY <2>2, <2>3, <2>4, <2>5, <2>6, <2>7 DEF StartIInv
  <1>2. CASE ~importing
    <2>0. start' = "off" /\ UNCHANGED <<next, importing, dbvars, schemavars, files>>
      BY <1>2 DEF OpenFails
    <2>2. StoreIInv'
      BY <2>0, StartFrame DEF StoreIInv, TablesIInv, TablesTypeOK
    <2>3. StartTypeOK'
      BY <2>0 DEF StartIInv, StartTypeOK
    <2>4. OldSavings' /\ FilesAreRight' /\ Jobs' = Jobs /\ Before' = Before
      BY <2>0 DEF StartIInv, OldSavings, FilesAreRight, Jobs, Before
    <2>5. StartIsRight' /\ EmptyIfAbsent'
      BY <1>2, <2>0 DEF StartIInv, StartIsRight, EmptyIfAbsent, NothingStored
    <2>6. SchemaIsRight'
      BY <1>2, <2>0, HalfDoneIsNoted DEF StartIInv
    <2>7. UpgradeIInv'
      BY <1>2, <2>0, <2>4 DEF StartIInv, UpgradeIInv, Imported, HoldsOld
    <2> QED BY <2>2, <2>3, <2>4, <2>5, <2>6, <2>7 DEF StartIInv
  <1> QED BY <1>1, <1>2

\* A column that is there already, and a statement that fails.
LEMMA SchemaFailsStep ==
    ASSUME StoreIInv, StartIInv, FindsColumn \/ StatementFails
    PROVE  StoreIInv' /\ StartIInv'
  <1>1. program = "down" /\ start \in {"schema", "version", "counters", "columns"} /\ OpenFails
    BY DEF FindsColumn, StatementFails, At
  <1>2. HalfDone \subseteq {"counters", "columns", "import"}
    BY DEF HalfDone
  <1>3. mishaps \subseteq {"counters", "columns", "import"}
    BY DEF StartIInv, StartTypeOK
  <1>4. CASE FindsColumn
    <2>1. ~importing /\ start = "columns" /\ next \in columns
      BY <1>4 DEF FindsColumn, At, StartIInv, StartIsRight
    <2>2. "columns" \in mishaps
      <3>1. columns = 1 .. next - 1 \/ "columns" \in mishaps
        BY <2>1 DEF StartIInv, SchemaIsRight
      <3>2. next \notin 1 .. next - 1
        BY DEF StartIInv, StartTypeOK
      <3> QED BY <2>1, <3>1, <3>2
    <2>3. HalfDone \subseteq mishaps
      BY <2>1, <2>2 DEF HalfDone
    <2>4. UNCHANGED <<qvars, writes, program, loaded, old, failures, mishaps>>
      BY <1>4 DEF FindsColumn, runvars
    <2> QED BY <1>1, <1>3, <2>1, <2>3, <2>4, OpenFailsStep
  <1>5. CASE StatementFails
    <2>1. /\ failures < MaxFailures /\ failures' = failures + 1
          /\ mishaps' = mishaps \cup (IF importing THEN {"import"} ELSE HalfDone)
          /\ UNCHANGED <<qvars, writes, program, loaded, old>>
      BY <1>5 DEF StatementFails, Errs
    <2> QED BY <1>1, <1>2, <1>3, <2>1, OpenFailsStep
  <1> QED BY <1>4, <1>5

\* The queue is left alone by all of the start but its last step.
LEMMA QueueFrame ==
    ASSUME StoreIInv, program = "down", UNCHANGED <<qvars, writes, program>>,
           \/ failures' = failures
           \/ failures < MaxFailures /\ failures' = failures + 1
    PROVE  QueueIInv' /\ MethodTypeOK' /\ SyncIInv' /\ Calls' = Calls /\ Calls = {}
  <1>1. QueueIInv'
    BY DEF StoreIInv, qvars, QueueIInv, QueueTypeOK, Unissued, OrderMatchesJobs,
           NoStalePhase, Present
  <1>2. MethodTypeOK' /\ Calls' = Calls /\ Calls = {}
    BY NoCalls, DurableAssumptions DEF StoreIInv, MethodTypeOK, Calls, qvars
  <1>3. SyncIInv'
    BY DEF SyncIInv
  <1> QED BY <1>1, <1>2, <1>3

\* The jobs of the file become rows, in one transaction.
LEMMA ImportsJobsStep ==
    ASSUME StoreIInv, StartIInv, ImportsJobs
    PROVE  StoreIInv' /\ StartIInv'
  <1> USE DEF At, Goes, qvars, dbvars, jobvars, sumvars, runvars, schemavars
  <1>1. program = "down" /\ start = "ready" /\ importing /\ UNCHANGED <<qvars, writes, program, loaded, old>>
    BY DEF ImportsJobs
  <1>2. CASE Errs({"import"}) /\ OpenFails
    <2>1. mishaps \subseteq {"counters", "columns", "import"}
      BY DEF StartIInv, StartTypeOK
    <2> QED BY <1>1, <1>2, <2>1, OpenFailsStep DEF Errs
  <1>3. CASE /\ row' = [j \in JobId |-> IF j \in Jobs THEN old.jobs[j] ELSE row[j]]
             /\ start' = "order" /\ next' = 1
             /\ UNCHANGED <<rowPhase, placed, place, sumvars, failures, importing, files,
                            schemavars, mishaps>>
    <2>1. /\ row = [j \in JobId |-> Absent] /\ placed = {} /\ place = {}
          /\ lifetime = [j \in Shrinking |-> 0] /\ rowPhase = [j \in JobId |-> NoPhase]
          /\ ~loaded /\ files # {} /\ exists /\ version = SchemaVersion /\ Jobs # {}
      BY <1>1 DEF StartIInv, StartIsRight, EmptyIfAbsent, FilesAreRight, SchemaIsRight
    <2>2. lastId \in 0 .. MaxJobs
      BY DEF StoreIInv, QueueIInv, QueueTypeOK
    <2>3. /\ Jobs \subseteq JobId /\ \A j \in Jobs : j <= lastId
          /\ old.jobs \in [Jobs -> Status] /\ Cardinality(Jobs) \in Nat
      BY <2>2, OldFacts DEF StartIInv
    <2>4. row' = [j \in JobId |-> IF j \in Jobs THEN old.jobs[j] ELSE Absent]
      BY <1>3, <2>1
    <2>5. TablesIInv'
      <3>1. TablesTypeOK'
        BY <1>3, <2>3, <2>4 DEF StoreIInv, TablesIInv, TablesTypeOK
      <3>2. PlacesAreOrdered' /\ SessionWithinLifetime'
        BY <1>3 DEF StoreIInv, TablesIInv, PlacesAreOrdered, SessionWithinLifetime
      <3>3. RowsHaveNoStalePhase' /\ UnissuedHasNoTrace'
        <4>1. \A j \in Jobs : ~(j > lastId)
          BY <2>2, <2>3, MaxJobsAssumption DEF JobId
        <4> QED BY <1>1, <1>3, <2>1, <2>4, <4>1
                DEF StoreIInv, TablesIInv, RowsHaveNoStalePhase, UnissuedHasNoTrace
      <3> QED BY <3>1, <3>2, <3>3 DEF TablesIInv
    <2>6. OldSavings' /\ FilesAreRight' /\ Jobs' = Jobs
      BY <1>1, <1>3, <2>1 DEF StartIInv, OldSavings, FilesAreRight, Jobs
    <2>7. SavingsIInv'
      <3>1. \A j \in Shrinking : lifetime'[j] = 0 /\ j \in JobId
        BY <1>3, <2>1, DurableAssumptions
      <3>2. \A j \in Shrinking : row'[j] = "complete" => j \in missed'
        BY <1>3, <2>4, <3>1 DEF StartIInv, OldSavings, Absent
      <3> QED BY <3>1, <3>2 DEF SavingsIInv
    <2>8. StoreIInv'
      BY <1>1, <1>3, <2>5, <2>7, QueueFrame DEF StoreIInv
    <2>9. StartTypeOK' /\ StartIsRight' /\ EmptyIfAbsent'
      <3>1. StartTypeOK'
        BY <1>1, <1>3 DEF StartIInv, StartTypeOK
      <3> QED BY <1>1, <1>3, <2>1, <2>6, <3>1 DEF StartIInv, StartIsRight, EmptyIfAbsent
    <2>10. SchemaIsRight'
      BY <1>1, <1>3, <2>1, SinceFacts DEF StartIInv, SchemaIsRight
    <2>11. UpgradeIInv'
      <3>1. 1 .. next' - 1 = {}
        BY <1>3
      <3>2. Imported'
        BY <1>1, <1>3, <2>1, <2>3, <2>4, <2>6, <3>1 DEF Imported
      <3> QED BY <3>2 DEF UpgradeIInv
    <2> QED BY <2>6, <2>8, <2>9, <2>10, <2>11 DEF StartIInv
  <1> QED BY <1>2, <1>3 DEF ImportsJobs

\* A job of the file gets its place, behind those that came before it.
LEMMA ImportsPlaceStep ==
    ASSUME StoreIInv, StartIInv, ImportsPlace
    PROVE  StoreIInv' /\ StartIInv'
  <1> USE DEF At, qvars, dbvars, jobvars, sumvars, runvars, schemavars
  <1> DEFINE j == old.order[next]
  <1>1. /\ program = "down" /\ start = "order" /\ next <= Cardinality(Jobs) /\ next' = next + 1
        /\ UNCHANGED <<qvars, sumvars, writes, program, start, importing, files, schemavars,
                       loaded, old>>
    BY DEF ImportsPlace
  <1>2. \/ AppendToOrder(j) /\ UNCHANGED <<failures, mishaps>>
        \/ /\ UNCHANGED jobvars /\ failures < MaxFailures /\ failures' = failures + 1
           /\ mishaps' = mishaps \cup {"import"}
    BY DEF ImportsPlace, Errs
  <1>3. /\ importing /\ Jobs # {} /\ ~loaded /\ files # {} /\ exists
    BY <1>1 DEF StartIInv, StartIsRight
  <1>4. lastId \in 0 .. MaxJobs /\ lastId \in Nat
    BY MaxJobsAssumption DEF StoreIInv, QueueIInv, QueueTypeOK
  <1>5. /\ Jobs \subseteq JobId /\ \A k \in Jobs : k <= lastId
        /\ Cardinality(Jobs) \in Nat /\ Jobs = 1 .. Cardinality(Jobs)
        /\ old.jobs \in [Jobs -> Status]
        /\ old.order \in [Jobs -> Jobs]
        /\ \A i, k \in Jobs : i # k => old.order[i] # old.order[k]
    BY <1>4, OldFacts DEF StartIInv
  <1>6. next \in Jobs /\ next \in Nat \ {0}
    <2>1. next \in Nat \ {0}
      BY DEF StartIInv, StartTypeOK
    <2> QED BY <1>1, <1>5, <2>1
  <1>7. j \in Jobs /\ j \in JobId /\ j <= lastId
    BY <1>5, <1>6
  <1>8. UNCHANGED <<row, rowPhase>>
    BY <1>2 DEF AppendToOrder
  <1>9. StoreIInv'
    <2>1. TablesIInv'
      <3>1. CASE AppendToOrder(j)
        BY <1>1, <1>4, <1>7, <3>1, AppendToOrderStep DEF StoreIInv
      <3>2. CASE UNCHANGED jobvars
        BY <1>1, <3>2 DEF StoreIInv, TablesIInv, TablesTypeOK, PlacesAreOrdered,
                          RowsHaveNoStalePhase, UnissuedHasNoTrace, SessionWithinLifetime
      <3> QED BY <1>2, <3>1, <3>2
    <2>2. QueueIInv' /\ MethodTypeOK' /\ SyncIInv' /\ Calls' = Calls
      BY <1>1, <1>2, QueueFrame
    <2>3. failures' = 0 => failures = 0
      BY <1>2, DurableAssumptions DEF StoreIInv, MethodTypeOK
    <2>4. SavingsIInv'
      BY <1>1, <1>8, <2>2, <2>3 DEF StoreIInv, SavingsIInv
    <2> QED BY <2>1, <2>2, <2>4 DEF StoreIInv
  <1>10. StartTypeOK'
    <2>1. next' \in Nat \ {0}
      BY <1>1, <1>6
    <2>2. mishaps' \subseteq {"counters", "columns", "import"}
      BY <1>2 DEF StartIInv, StartTypeOK
    <2> QED BY <1>1, <2>1, <2>2 DEF StartIInv, StartTypeOK
  <1>11. OldSavings' /\ FilesAreRight' /\ Jobs' = Jobs
    BY <1>1, <1>8 DEF StartIInv, OldSavings, FilesAreRight, Jobs
  <1>12. StartIsRight' /\ EmptyIfAbsent'
    BY <1>1, <1>3, <1>11 DEF StartIInv, StartIsRight, EmptyIfAbsent
  <1>13. SchemaIsRight'
    BY <1>1, <1>2, SinceFacts DEF StartIInv, SchemaIsRight, ColumnsOf
  <1>14. UpgradeIInv'
    <2> SUFFICES ASSUME "import" \notin mishaps'
                 PROVE  Imported'
      BY DEF UpgradeIInv
    <2>1. AppendToOrder(j) /\ "import" \notin mishaps
      BY <1>2
    <2>2. Imported
      BY <1>1, <1>3, <2>1 DEF StartIInv, UpgradeIInv, HoldsOld
    <2>3. j \notin placed
      <3>1. \A i \in 1 .. next - 1 : i \in Jobs /\ i # next
        BY <1>5, <1>6
      <3> QED BY <1>5, <1>6, <2>2, <3>1 DEF Imported
    <2>4. row[j] # Absent
      BY <1>5, <1>7, <2>2, StatusFacts DEF Imported
    <2>5. placed' = placed \cup {j} /\ place' = place \cup (placed \X {j})
      BY <2>1, <2>3, <2>4 DEF AppendToOrder
    <2>6. 1 .. next' - 1 = (1 .. next - 1) \cup {next} /\ next \notin 1 .. next - 1
      BY <1>1, <1>6
    <2>7. next' \in 1 .. Cardinality(Jobs) + 1
      BY <1>1, <1>5, <1>6
    <2>8. placed' = {old.order[i] : i \in 1 .. next' - 1}
      BY <2>2, <2>5, <2>6 DEF Imported
    <2>9. place' = {p \in Jobs \X Jobs :
                      \E i, k \in 1 .. next' - 1 : i < k /\ p = <<old.order[i], old.order[k]>>}
      <3>1. \A i \in 1 .. next - 1 : i < next /\ ~(next < i) /\ ~(next < next)
        BY <1>6
      <3>2. 1 .. next - 1 \subseteq Jobs
        BY <1>5, <1>6
      <3>3. \A x : x \in placed \X {j}
                     <=> /\ x \in Jobs \X Jobs
                         /\ \E i \in 1 .. next - 1 : x = <<old.order[i], old.order[next]>>
        <4>1. \A a : a \in placed <=> \E i \in 1 .. next - 1 : a = old.order[i]
          BY <2>2 DEF Imported
        <4> QED BY <1>5, <1>6, <3>2, <4>1
      <3>4. \A x : x \in place
                     <=> /\ x \in Jobs \X Jobs
                         /\ \E i, k \in 1 .. next - 1 :
                               i < k /\ x = <<old.order[i], old.order[k]>>
        BY <2>2 DEF Imported
      <3>5. \A x : (\E i, k \in 1 .. next' - 1 : i < k /\ x = <<old.order[i], old.order[k]>>)
                     <=> \/ \E i, k \in 1 .. next - 1 :
                               i < k /\ x = <<old.order[i], old.order[k]>>
                         \/ \E i \in 1 .. next - 1 : x = <<old.order[i], old.order[next]>>
        BY <2>6, <3>1
      <3> HIDE DEF j
      <3> QED BY <2>5, <3>3, <3>4, <3>5
    <2> QED BY <1>1, <1>8, <1>11, <2>2, <2>7, <2>8, <2>9 DEF Imported
  <1> QED BY <1>9, <1>10, <1>11, <1>12, <1>13, <1>14 DEF StartIInv

\* The import is done: the database holds the queue of the file, all of it.
LEMMA RemovesFileStep ==
    ASSUME StoreIInv, StartIInv, RemovesFile
    PROVE  StoreIInv' /\ StartIInv'
  <1> USE DEF At, qvars, dbvars, jobvars, sumvars, runvars, schemavars
  <1>1. /\ program = "down" /\ start = "order" /\ next > Cardinality(Jobs)
        /\ files' = files \ {"json"} /\ start' = "schema" /\ importing' = FALSE
        /\ UNCHANGED <<qvars, dbvars, runvars, next, schemavars, loaded, old, mishaps>>
    BY DEF RemovesFile
  <1>2. importing /\ Jobs # {} /\ ~loaded /\ files # {} /\ exists /\ files' # {}
    <2>1. "backup" \in files /\ importing /\ Jobs # {} /\ ~loaded /\ exists
      BY <1>1 DEF StartIInv, StartIsRight
    <2> QED BY <1>1, <2>1
  <1>3. StoreIInv'
    BY <1>1, StartFrame DEF StoreIInv, TablesIInv, TablesTypeOK
  <1>4. StartTypeOK'
    BY <1>1 DEF StartIInv, StartTypeOK
  <1>5. OldSavings' /\ FilesAreRight' /\ Jobs' = Jobs /\ Before' = Before
    BY <1>1, <1>2 DEF StartIInv, OldSavings, FilesAreRight, Jobs, Before
  <1>6. StartIsRight' /\ EmptyIfAbsent'
    BY <1>1, <1>2, <1>5 DEF StartIInv, StartIsRight, EmptyIfAbsent
  <1>7. SchemaIsRight'
    BY <1>1, SinceFacts DEF StartIInv, SchemaIsRight, ColumnsOf
  <1>8. UpgradeIInv'
    <2> SUFFICES ASSUME "import" \notin mishaps
                 PROVE  HoldsOld'
      BY <1>1 DEF UpgradeIInv
    <2>1. Imported
      BY <1>1, <1>2 DEF StartIInv, UpgradeIInv, HoldsOld
    <2>2. lastId \in 0 .. MaxJobs
      BY DEF StoreIInv, QueueIInv, QueueTypeOK
    <2>3. /\ Cardinality(Jobs) \in Nat /\ Jobs = 1 .. Cardinality(Jobs)
          /\ old.order \in [Jobs -> Jobs]
          /\ \A k \in Jobs : \E i \in Jobs : old.order[i] = k
      BY <2>2, OldFacts DEF StartIInv
    <2>4. 1 .. next - 1 = Jobs
      <3>1. next = Cardinality(Jobs) + 1
        BY <1>1, <2>1, <2>3 DEF Imported
      <3>2. next - 1 = Cardinality(Jobs)
        BY <2>3, <3>1
      <3> QED BY <2>3, <3>2
    <2>5. placed = Jobs
      BY <2>1, <2>3, <2>4 DEF Imported
    <2>6. place = Before
      BY <2>1, <2>4 DEF Imported, Before
    <2> QED BY <1>1, <1>2, <1>5, <2>1, <2>5, <2>6 DEF Imported, HoldsOld
  <1> QED BY <1>3, <1>4, <1>5, <1>6, <1>7, <1>8 DEF StartIInv

\* The running jobs become pending, or the program exits.
LEMMA ResetsStep ==
    ASSUME StoreIInv, StartIInv, Resets
    PROVE  StoreIInv' /\ StartIInv'
  <1>1. start = "ready" /\ ~importing
    BY DEF Resets
  <1>2. CASE ResetRunningJobs /\ UNCHANGED startvars
    <2> USE DEF sumvars, startvars, schemavars
    <2>1. StoreIInv'
      BY <1>2, ResetRunningStep
    <2>2. /\ program' = "reset" /\ exists
          /\ row' = [j \in JobId |-> IF j \in Interrupted THEN "pending" ELSE row[j]]
          /\ rowPhase' = [j \in JobId |-> IF j \in Interrupted THEN NoPhase ELSE rowPhase[j]]
          /\ UNCHANGED <<lastId, placed, place, counters, lifetime, session, missed>>
      BY <1>1, <1>2 DEF ResetRunningJobs, qvars, StartIInv, StartIsRight
    <2>3. StartTypeOK' /\ Jobs' = Jobs /\ Before' = Before /\ OldSavings'
      BY <1>2, <2>2 DEF StartIInv, StartTypeOK, Jobs, Before, OldSavings
    <2>4. StartIsRight' /\ EmptyIfAbsent'
      BY <1>1, <1>2, <2>2, <2>3 DEF StartIInv, StartIsRight, EmptyIfAbsent
    <2>5. SchemaIsRight'
      BY <1>1, <1>2, <2>2, SinceFacts DEF StartIInv, SchemaIsRight, ColumnsOf
    <2>6. lastId \in 0 .. MaxJobs
      BY DEF StoreIInv, QueueIInv, QueueTypeOK
    <2>7. Jobs \subseteq JobId /\ \A j \in JobId : row'[j] = Absent <=> row[j] = Absent
      BY <2>2, <2>6, OldFacts DEF StartIInv, Interrupted, Absent
    <2>8. FilesAreRight'
      BY <1>2, <2>2, <2>3, <2>7 DEF StartIInv, FilesAreRight
    <2>9. UpgradeIInv'
      <3> SUFFICES ASSUME ~loaded, "import" \notin mishaps
                   PROVE  \/ Jobs = {} /\ row' = [j \in JobId |-> Absent] /\ placed = {} /\ place = {}
                          \/ HoldsOld'
        BY <1>2, <2>2, <2>3 DEF UpgradeIInv
      <3>1. CASE Jobs = {} /\ row = [j \in JobId |-> Absent] /\ placed = {} /\ place = {}
        BY <2>2, <3>1 DEF Interrupted, Absent
      <3>2. CASE HoldsOld
        BY <1>2, <2>2, <2>3, <2>7, <3>2 DEF HoldsOld, Interrupted, Absent
      <3> QED BY <1>1, <3>1, <3>2 DEF StartIInv, UpgradeIInv, Imported
    <2> QED BY <2>1, <2>3, <2>4, <2>5, <2>8, <2>9 DEF StartIInv
  <1>3. CASE /\ program = "down"
             /\ failures < MaxFailures /\ failures' = failures + 1
             /\ Goes("off")
             /\ UNCHANGED <<qvars, dbvars, writes, program, files, schemavars, loaded, old, mishaps>>
    <2>1. OpenFails
      BY <1>1, <1>3 DEF OpenFails, Goes
    <2>2. HalfDone = {}
      BY <1>1 DEF HalfDone
    <2>3. mishaps \subseteq {"counters", "columns", "import"}
      BY DEF StartIInv, StartTypeOK
    <2> QED BY <1>1, <1>3, <2>1, <2>2, <2>3, OpenFailsStep
  <1> QED BY <1>2, <1>3 DEF Resets

\* The queue is loaded.
LEMMA LoadsStep ==
    ASSUME StoreIInv, StartIInv, Loads
    PROVE  StoreIInv' /\ StartIInv'
  <1>1. /\ program = "reset" /\ program' = "up" /\ loaded' = TRUE /\ old' = NoQueue
        /\ mishaps' = mishaps \ {"import"} /\ start' = "off" /\ next' = 1
        /\ UNCHANGED <<importing, files, exists, version, columns, lastId>>
        /\ UNCHANGED <<counters, lifetime, missed>>
    BY DEF Loads, Load, schemavars, dbvars, sumvars
  <1>2. start = "ready" /\ ~importing /\ exists
    BY <1>1 DEF StartIInv, StartIsRight
  <1>3. StoreIInv'
    BY LoadStep DEF Loads
  <1>4. Jobs' = {}
    BY <1>1 DEF Jobs, NoQueue
  <1>5. StartTypeOK'
    <2>1. lastId \in 0 .. MaxJobs /\ 0 \in 0 .. MaxJobs
      BY MaxJobsAssumption DEF StoreIInv, QueueIInv, QueueTypeOK
    <2>2. NoQueue \in Queues(0)
      BY DEF NoQueue, Queues
    <2> QED BY <1>1, <2>1, <2>2 DEF StartIInv, StartTypeOK
  <1>6. OldSavings' /\ FilesAreRight' /\ StartIsRight' /\ EmptyIfAbsent' /\ UpgradeIInv'
    BY <1>1, <1>2, <1>4
    DEF OldSavings, FilesAreRight, StartIsRight, EmptyIfAbsent, UpgradeIInv
  <1>7. SchemaIsRight'
    BY <1>1, <1>2, SinceFacts DEF StartIInv, SchemaIsRight
  <1> QED BY <1>3, <1>5, <1>6, <1>7 DEF StartIInv

\* The program dies, whatever it was doing.
LEMMA DiesStep ==
    ASSUME StoreIInv, StartIInv, Dies
    PROVE  StoreIInv' /\ StartIInv'
  <1>1. /\ program' = "down" /\ start' = "off" /\ next' = 1 /\ importing' = FALSE
        /\ mishaps' = mishaps \cup HalfDone
        /\ missed \subseteq missed'
        /\ UNCHANGED <<lastId, row, rowPhase, placed, place, counters, lifetime>>
        /\ UNCHANGED <<files, exists, version, columns, loaded, old>>
    BY DEF Dies, Crash, schemavars, jobvars
  <1>2. StoreIInv'
    BY CrashStep DEF Dies
  <1>3. HalfDone \subseteq {"counters", "columns", "import"}
    BY DEF HalfDone
  <1>4. StartTypeOK' /\ Jobs' = Jobs /\ Before' = Before
    <2>1. mishaps' \subseteq {"counters", "columns", "import"} /\ next' \in Nat \ {0}
      BY <1>1, <1>3 DEF StartIInv, StartTypeOK
    <2>2. StartTypeOK'
      BY <1>1, <2>1 DEF StartIInv, StartTypeOK
    <2> QED BY <1>1, <2>2 DEF Jobs, Before
  <1>5. OldSavings' /\ FilesAreRight'
    BY <1>1, <1>4 DEF StartIInv, OldSavings, FilesAreRight
  <1>6. StartIsRight' /\ EmptyIfAbsent'
    BY <1>1, <1>4 DEF StartIInv, StartIsRight, EmptyIfAbsent, NothingStored
  <1>7. SchemaIsRight'
    BY <1>1, HalfDoneIsNoted DEF StartIInv
  <1>8. UpgradeIInv'
    <2> SUFFICES ASSUME ~loaded, "import" \notin mishaps', UpgradeIInv
                 PROVE  \/ Jobs = {} /\ row = [j \in JobId |-> Absent] /\ placed = {} /\ place = {}
                        \/ "json" \in files /\ ~exists
                        \/ HoldsOld'
      BY <1>1, <1>4 DEF StartIInv, UpgradeIInv
    <2>1. ~(importing /\ exists) /\ "import" \notin mishaps
      BY <1>1 DEF HalfDone
    <2>2. HoldsOld => HoldsOld'
      BY <1>1, <1>4 DEF HoldsOld
    <2>3. importing => "json" \in files
      BY DEF StartIInv, StartIsRight
    <2>4. importing /\ start = "order" => exists
      BY DEF StartIInv, StartIsRight
    <2> QED BY <2>1, <2>2, <2>3, <2>4 DEF UpgradeIInv, Imported
  <1> QED BY <1>2, <1>4, <1>5, <1>6, <1>7, <1>8 DEF StartIInv

\* The program at work makes no counter and does not stop.
LEMMA OperatesFrame ==
    ASSUME StoreIInv, Operates
    PROVE  program = "up" /\ UNCHANGED <<program, counters>>
  <1>1. writes # <<>> => program = "up"
    BY DEF StoreIInv, MethodTypeOK
  <1> USE DEF dbvars, sumvars, jobvars, runvars
  <1>2. ASSUME NEW n \in 1 .. MaxJobs, NEW skipped, Adds(n, skipped)
        PROVE  program = "up" /\ UNCHANGED <<program, counters>>
    BY <1>2 DEF Adds, Method
  <1>3. ASSUME NEW j \in JobId, Changes(j) \/ Requeues(j) \/ Removes(j)
        PROVE  program = "up" /\ UNCHANGED <<program, counters>>
    BY <1>3 DEF Changes, Requeues, Removes, Completes, Fails, Method
  <1>4. ASSUME NEW f \in ClearFilters, Clears(f)
        PROVE  program = "up" /\ UNCHANGED <<program, counters>>
    BY <1>4 DEF Clears, Method
  <1>5. CASE ResetSession
    BY <1>5 DEF ResetSession
  <1>6. CASE WriteSucceeds
    BY <1>1, <1>6 DEF WriteSucceeds, AddToLifetimeSaved
  <1>7. CASE WriteFails
    BY <1>1, <1>7 DEF WriteFails
  <1> QED BY <1>2, <1>3, <1>4, <1>5, <1>6, <1>7 DEF Operates

\* The program at work.
LEMMA WorksStep ==
    ASSUME StoreIInv, StartIInv, Operates, UNCHANGED startvars
    PROVE  StoreIInv' /\ StartIInv'
  <1>1. StoreIInv' /\ program = "up" /\ UNCHANGED <<program, counters>>
    BY OperatesStep, OperatesFrame
  <1>2. UNCHANGED <<start, next, importing, files, exists, version, columns, loaded, old, mishaps>>
    BY DEF startvars, schemavars
  <1>3. start = "off" /\ ~importing /\ loaded /\ exists /\ old = NoQueue
    BY <1>1 DEF StartIInv, StartIsRight
  <1>4. Jobs = {} /\ Jobs' = {}
    BY <1>2, <1>3 DEF Jobs, NoQueue
  <1>5. StartTypeOK'
    <2>1. lastId' \in 0 .. MaxJobs /\ 0 \in 0 .. MaxJobs
      BY <1>1, MaxJobsAssumption DEF StoreIInv, QueueIInv, QueueTypeOK
    <2>2. NoQueue \in Queues(0)
      BY DEF NoQueue, Queues
    <2>3. \E n \in 0 .. MaxJobs : n <= lastId' /\ old' \in Queues(n)
      BY <1>2, <1>3, <2>1, <2>2
    <2> QED BY <1>2, <2>3 DEF StartIInv, StartTypeOK
  <1>6. OldSavings' /\ FilesAreRight' /\ StartIsRight' /\ EmptyIfAbsent' /\ UpgradeIInv'
    BY <1>1, <1>2, <1>3, <1>4
    DEF OldSavings, FilesAreRight, StartIsRight, EmptyIfAbsent, UpgradeIInv
  <1>7. SchemaIsRight'
    BY <1>1, <1>2, <1>3 DEF StartIInv, SchemaIsRight, ColumnsOf
  <1> QED BY <1>1, <1>5, <1>6, <1>7 DEF StartIInv

-----------------------------------------------------------------------------
(* The initial states.                                                     *)

\* The order of the old queue, as a set of pairs, is one.
LEMMA BeforeIsOrdered ==
    ASSUME StartTypeOK, lastId \in 0 .. MaxJobs
    PROVE  /\ Before \subseteq Jobs \X Jobs
           /\ \A a \in Jobs : <<a, a>> \notin Before
           /\ \A a, b \in Jobs : a # b => (<<a, b>> \in Before) # (<<b, a>> \in Before)
           /\ \A a, b, c \in Jobs :
                 <<a, b>> \in Before /\ <<b, c>> \in Before => <<a, c>> \in Before
  <1>1. /\ Cardinality(Jobs) \in Nat /\ Jobs = 1 .. Cardinality(Jobs)
        /\ old.order \in [Jobs -> Jobs]
        /\ \A i, k \in Jobs : i # k => old.order[i] # old.order[k]
        /\ \A j \in Jobs : \E i \in Jobs : old.order[i] = j
    BY OldFacts
  <1>2. \A i, k \in Jobs : (i # k => i < k \/ k < i) /\ ~(i < k /\ k < i) /\ ~(i < i)
    BY <1>1
  <1>3. \A i, k, l \in Jobs : i < k /\ k < l => i < l
    BY <1>1
  <1>4. \A i, k \in Jobs : <<old.order[i], old.order[k]>> \in Before <=> i < k
    BY <1>1 DEF Before
  <1>5. \A a \in Jobs : <<a, a>> \notin Before
    BY <1>1, <1>2, <1>4
  <1>6. \A a, b \in Jobs : a # b => (<<a, b>> \in Before) # (<<b, a>> \in Before)
    BY <1>1, <1>2, <1>4
  <1>7. \A a, b, c \in Jobs :
           <<a, b>> \in Before /\ <<b, c>> \in Before => <<a, c>> \in Before
    <2> SUFFICES ASSUME NEW a \in Jobs, NEW b \in Jobs, NEW c \in Jobs,
                        <<a, b>> \in Before, <<b, c>> \in Before
                 PROVE  <<a, c>> \in Before
      OBVIOUS
    <2>1. PICK i \in Jobs, k \in Jobs, l \in Jobs :
             old.order[i] = a /\ old.order[k] = b /\ old.order[l] = c
      BY <1>1
    <2> QED BY <1>3, <1>4, <2>1
  <1> QED BY <1>5, <1>6, <1>7 DEF Before

\* What a first start may find is right.
LEMMA StartupInitIInv ==
    ASSUME StartupInit
    PROVE  StoreIInv /\ StartIInv
  <1>0. /\ session = [j \in Shrinking |-> 0]
        /\ missed = {j \in Shrinking \cap Jobs : old.jobs[j] = "complete" /\ lifetime[j] = 0}
        /\ status = [j \in JobId |-> Absent] /\ phase = [j \in JobId |-> NoPhase] /\ order = {}
        /\ lastId = Cardinality(Jobs)
        /\ writes = <<>> /\ program = "down" /\ failures = 0
        /\ start = "off" /\ next = 1 /\ importing = FALSE /\ loaded = FALSE /\ mishaps = {}
    BY DEF StartupInit
  <1>1. PICK m \in 0 .. MaxJobs : old \in Queues(m)
    BY DEF StartupInit
  <1>2. /\ Jobs = 1 .. m /\ m \in Nat /\ lastId = m /\ lastId \in 0 .. MaxJobs
        /\ old.jobs \in [Jobs -> Status]
    <2>1. Jobs = 1 .. m /\ m \in Nat /\ old.jobs \in [1 .. m -> Status]
      BY <1>1, MaxJobsAssumption DEF Queues, Jobs
    <2>2. Cardinality(1 .. m) = m
      <3>1. m \in Nat
        BY <2>1
      <3> QED BY <3>1, FS_Interval
    <2> QED BY <1>0, <2>1, <2>2
  <1>3. Jobs \subseteq JobId /\ \A j \in JobId : j > lastId => j \notin Jobs
    BY <1>2, MaxJobsAssumption DEF JobId
  <1>4. /\ files \subseteq {"json", "backup", "corrupt"} /\ exists \in BOOLEAN
        /\ version \in 0 .. 8
        /\ exists => version \in 1 .. 8 /\ files = {}
        /\ ~exists => version = 0 /\ (Jobs = {} \/ files = {"json"})
    <2>1. old = NoQueue => Jobs = {}
      BY DEF Jobs, NoQueue
    <2>2. \/ old = NoQueue /\ files = {} /\ exists = FALSE /\ version = 0
          \/ files = {"json"} /\ exists = FALSE /\ version = 0
          \/ files = {} /\ exists = TRUE /\ version \in 1 .. SchemaVersion
      BY DEF StartupInit
    <2>3. version \in 0 .. 8 /\ (exists => version \in 1 .. 8)
      BY <2>2, SinceFacts
    <2>4. /\ files \subseteq {"json", "backup", "corrupt"} /\ exists \in BOOLEAN
          /\ exists => files = {}
          /\ ~exists => version = 0 /\ (Jobs = {} \/ files = {"json"})
      BY <2>1, <2>2
    <2> QED BY <2>3, <2>4
  <1>5. columns = ColumnsOf(version) /\ columns \subseteq Columns
    BY DEF ColumnsOf, StartupInit
  <1>6. StartTypeOK
    <2>1. \E n \in 0 .. MaxJobs : n <= lastId /\ old \in Queues(n)
      BY <1>1, <1>2
    <2>2. next \in Nat \ {0} /\ version \in 0 .. SchemaVersion
      BY <1>0, <1>4, SinceFacts
    <2> QED BY <1>0, <1>4, <1>5, <2>1, <2>2 DEF StartTypeOK
  <1>7. QueueIInv
    BY <1>0, <1>2, StatusFacts
    DEF QueueIInv, QueueTypeOK, Unissued, OrderMatchesJobs, NoStalePhase, Present
  <1>8. \/ /\ row = [j \in JobId |-> IF j \in Jobs THEN old.jobs[j] ELSE Absent]
           /\ rowPhase = [j \in JobId |->
                             IF version >= 5 /\ row[j] = "running" THEN "encoding" ELSE NoPhase]
           /\ placed = Jobs /\ place = Before /\ counters \in BOOLEAN /\ (version >= 2 => counters)
           /\ lifetime = [j \in Shrinking |->
                             IF version >= 2 /\ row[j] = "complete" THEN 1 ELSE 0]
           /\ exists
        \/ /\ row = [j \in JobId |-> Absent] /\ rowPhase = [j \in JobId |-> NoPhase]
           /\ placed = {} /\ place = {} /\ counters = FALSE
           /\ lifetime = [j \in Shrinking |-> 0]
           /\ ~exists
    <2>0. IF exists THEN RowsOf(version) ELSE NoRows
      BY DEF StartupInit
    <2>1. CASE exists
      <3>1. RowsOf(version)
        BY <2>0, <2>1
      <3>0. (version >= 2) \in BOOLEAN
        BY <1>4
      <3>2. counters = (version >= 2)
        BY <3>1 DEF RowsOf
      <3>3. counters \in BOOLEAN /\ (version >= 2 => counters)
        BY <3>0, <3>2, Zenon
      <3> QED BY <2>1, <3>1, <3>3 DEF RowsOf
    <2>2. CASE ~exists
      BY <2>0, <2>2 DEF NoRows
    <2> QED BY <2>1, <2>2
  <1>9. /\ placed \subseteq Jobs
        /\ place \subseteq placed \X placed
        /\ PlacesAreOrdered
    BY <1>2, <1>6, <1>8, BeforeIsOrdered DEF PlacesAreOrdered
  <1>10. /\ row \in [JobId -> Status \cup {Absent}]
         /\ \A j \in JobId : row[j] # Absent => j \in Jobs /\ row[j] = old.jobs[j]
    BY <1>2, <1>8
  <1>11. rowPhase \in [JobId -> Phase] /\ RowsHaveNoStalePhase
    BY <1>8, <1>10 DEF Phase, NoPhase, RowsHaveNoStalePhase, Absent
  <1>12. lifetime \in [Shrinking -> 0 .. MaxCounted] /\ \A j \in Shrinking : lifetime[j] \in {0, 1}
    BY <1>8, DurableAssumptions
  <1>13. TablesIInv
    <2>1. TablesTypeOK
      <3>1. counters \in BOOLEAN /\ placed \subseteq JobId
        BY <1>3, <1>8, <1>9
      <3>2. session \in [Shrinking -> 0 .. MaxCounted] /\ missed \subseteq Shrinking
        BY <1>0, DurableAssumptions
      <3> QED BY <1>9, <1>10, <1>11, <1>12, <3>1, <3>2 DEF TablesTypeOK
    <2>2. UnissuedHasNoTrace
      <3>1. \A j \in JobId : j > lastId => row[j] = Absent /\ j \notin placed
        BY <1>3, <1>9, <1>10
      <3>2. \A j \in Shrinking : row[j] = Absent => lifetime[j] = 0
        BY <1>8, DurableAssumptions DEF Absent
      <3> QED BY <3>1, <3>2, DurableAssumptions DEF UnissuedHasNoTrace
    <2>3. SessionWithinLifetime
      BY <1>0, <1>12 DEF SessionWithinLifetime
    <2> QED BY <1>9, <1>11, <2>1, <2>2, <2>3 DEF TablesIInv
  <1>14. writes = <<>> /\ Calls = {}
    BY <1>0, NoCalls
  <1>15. MethodTypeOK
    BY <1>0, <1>14, DurableAssumptions DEF MethodTypeOK
  <1>16. OldSavings
    BY <1>0, <1>3, <1>12 DEF OldSavings
  <1>17. SavingsIInv
    BY <1>0, <1>8, <1>10, <1>12, <1>14, <1>16, DurableAssumptions DEF SavingsIInv, OldSavings, Absent
  <1>18. StoreIInv
    BY <1>0, <1>7, <1>13, <1>15, <1>17 DEF StoreIInv, SyncIInv
  <1>19. StartIsRight
    BY <1>0 DEF StartIsRight
  <1>20. FilesAreRight
    <2>1. CASE exists
      <3>1. \A j \in Jobs : row[j] # Absent
        BY <1>2, <1>3, <1>8, <2>1, StatusFacts
      <3> QED BY <1>4, <2>1, <3>1 DEF FilesAreRight
    <2>2. CASE ~exists
      <3>1. Jobs = {} \/ files # {}
        BY <1>4, <2>2
      <3> QED BY <1>8, <2>2, <3>1 DEF FilesAreRight
    <2> QED BY <2>1, <2>2
  <1>21. EmptyIfAbsent
    <2>1. version = 0 => columns = {}
      BY <1>5, SinceFacts DEF ColumnsOf
    <2> QED BY <1>0, <1>4, <1>8, <2>1 DEF EmptyIfAbsent, NothingStored
  <1>22. SchemaIsRight
    <2>1. ColumnsOf(8) = Columns
      BY SinceFacts DEF ColumnsOf
    <2> QED BY <1>0, <1>4, <1>5, <1>8, <2>1, SinceFacts DEF SchemaIsRight
  <1>23. UpgradeIInv
    <2>1. CASE exists
      <3>1. HoldsOld
        BY <1>0, <1>3, <1>8, <2>1 DEF HoldsOld
      <3> QED BY <3>1 DEF UpgradeIInv
    <2>2. CASE ~exists
      BY <1>0, <1>4, <1>8, <2>2 DEF UpgradeIInv
    <2> QED BY <1>4, <2>1, <2>2
  <1> QED BY <1>6, <1>16, <1>18, <1>19, <1>20, <1>21, <1>22, <1>23 DEF StartIInv

-----------------------------------------------------------------------------
(* The theorems.                                                           *)

\* A step that changes nothing.
LEMMA StutterStep ==
    ASSUME StoreIInv, StartIInv, UNCHANGED <<dqvars, startvars>>
    PROVE  StoreIInv' /\ StartIInv'
  <1> USE DEF dqvars, qvars, dbvars, jobvars, sumvars, runvars, startvars, schemavars
  <1>1. QueueIInv'
    BY DEF StoreIInv, QueueIInv, QueueTypeOK, Unissued, OrderMatchesJobs, NoStalePhase, Present
  <1>2. TablesIInv'
    BY DEF StoreIInv, TablesIInv, TablesTypeOK, PlacesAreOrdered, RowsHaveNoStalePhase,
           UnissuedHasNoTrace, SessionWithinLifetime
  <1>3. MethodTypeOK' /\ Calls' = Calls
    BY DEF StoreIInv, MethodTypeOK, Calls
  <1>4. SavingsIInv'
    BY <1>3 DEF StoreIInv, SavingsIInv
  <1>5. SyncIInv'
    <2>1. /\ Places' = Places /\ Saves' = Saves /\ Erases' = Erases
          /\ Present' = Present /\ LoadedOrder' = LoadedOrder
      BY <1>3 DEF Places, Saves, Erases, Present, LoadedOrder
    <2>2. /\ SavesAreRight' <=> SavesAreRight
          /\ PlacesAreRight' <=> PlacesAreRight
          /\ ErasesAreRight' <=> ErasesAreRight
      BY <1>3, <2>1 DEF SavesAreRight, PlacesAreRight, ErasesAreRight
    <2>3. /\ OrderIsLast' <=> OrderIsLast
          /\ CountsAreRight' <=> CountsAreRight
          /\ RowsInSync' <=> RowsInSync
          /\ OrderInSync' <=> OrderInSync
      BY <1>3, <2>1 DEF OrderIsLast, CountsAreRight, RowsInSync, OrderInSync
    <2> QED BY <2>2, <2>3 DEF StoreIInv, SyncIInv
  <1>6. StartTypeOK' /\ Jobs' = Jobs /\ Before' = Before
    BY DEF StartIInv, StartTypeOK, Jobs, Before
  <1>7. OldSavings' /\ FilesAreRight' /\ StartIsRight' /\ EmptyIfAbsent'
    BY <1>6 DEF StartIInv, OldSavings, FilesAreRight, StartIsRight, EmptyIfAbsent, NothingStored
  <1>8. SchemaIsRight'
    BY DEF StartIInv, SchemaIsRight, ColumnsOf, FirstColumn
  <1>9. UpgradeIInv'
    BY <1>6 DEF StartIInv, UpgradeIInv, Imported, HoldsOld
  <1> QED BY <1>1, <1>2, <1>3, <1>4, <1>5, <1>6, <1>7, <1>8, <1>9 DEF StoreIInv, StartIInv

\* Every step keeps both parts of the inductive invariant.
LEMMA StartupNextStep ==
    ASSUME StoreIInv, StartIInv, [StartupNext]_<<dqvars, startvars>>
    PROVE  StoreIInv' /\ StartIInv'
  <1>1. CASE Starts
    BY <1>1, BeginsStep, ReadStep, CreatesSchemaStep, ChecksVersionStep, MigrationStep,
       SchemaFailsStep, ImportsJobsStep, ImportsPlaceStep, RemovesFileStep, ResetsStep, LoadsStep
    DEF Starts
  <1>2. CASE Dies
    BY <1>2, DiesStep
  <1>3. CASE Operates /\ UNCHANGED startvars
    BY <1>3, WorksStep
  <1>4. CASE UNCHANGED <<dqvars, startvars>>
    BY <1>4, StutterStep
  <1> QED BY <1>1, <1>2, <1>3, <1>4 DEF StartupNext

\* The inductive invariant: of the queue, its tables, and the calls still to make on
\* one side, of the files, the schema and the import on the other.
THEOREM StartupInductiveInvariant == StartupSpec => [](StoreIInv /\ StartIInv)
  <1>1. StartupInit => StoreIInv /\ StartIInv
    BY StartupInitIInv
  <1>2. StoreIInv /\ StartIInv /\ [StartupNext]_<<dqvars, startvars>> => (StoreIInv /\ StartIInv)'
    BY StartupNextStep
  <1> QED BY <1>1, <1>2, PTL DEF StartupSpec

\* The queue in memory is one after every restart, and no waiting job has a phase.
THEOREM DurableQueueCorrect == StartupSpec => [](OrderMatchesJobs /\ NoStalePhase)
  <1>1. StoreIInv => OrderMatchesJobs /\ NoStalePhase
    BY DEF StoreIInv, QueueIInv
  <1> QED BY <1>1, StartupInductiveInvariant, PTL

\* What the database says of a job that no call is under way for is what memory says.
THEOREM StoreInSyncCorrect == StartupSpec => []StoreInSync
  <1>1. ASSUME StoreIInv
        PROVE  StoreInSync
    <2>1. \A j \in JobId : j \notin Unwritten => j \notin Places /\ j \notin Saves /\ j \notin Erases
      BY CallFacts DEF Unwritten, Places, Saves, Erases
    <2>2. program = "up" /\ failures = 0 => RowsInSync /\ OrderInSync
      BY <1>1 DEF StoreIInv, SyncIInv
    <2> QED BY <2>1, <2>2 DEF StoreInSync, RowsInSync, OrderInSync
  <1> QED BY <1>1, StartupInductiveInvariant, PTL

\* Without failed writes a saving is counted once, and missed only by a crash.
THEOREM SavingsCorrect == StartupSpec => []SavingsAreRight
  <1>1. StoreIInv => SavingsAreRight
    BY DEF StoreIInv, TablesIInv, SessionWithinLifetime, SavingsIInv, SavingsAreRight
  <1> QED BY <1>1, StartupInductiveInvariant, PTL

\* The old queue is in a file or in the database until the program has loaded it.
THEOREM OldQueueCorrect == StartupSpec => []OldQueueSurvives
  <1>1. ASSUME StartIInv
        PROVE  OldQueueSurvives
    <2>1. CASE loaded
      BY <1>1, <2>1 DEF StartIInv, StartIsRight, OldQueueSurvives, Jobs, NoQueue
    <2>2. CASE ~loaded
      BY <1>1, <2>2 DEF StartIInv, FilesAreRight, OldQueueSurvives
    <2> QED BY <2>1, <2>2
  <1> QED BY <1>1, StartupInductiveInvariant, PTL

\* A program that is up has the schema of its version.
THEOREM SchemaCorrect == StartupSpec => []SchemaSurvives
  <1>1. ASSUME StartIInv
        PROVE  SchemaSurvives
    <2>1. program = "up" => version = SchemaVersion /\ columns = Columns
      BY <1>1 DEF StartIInv, SchemaIsRight
    <2>2. At("columns") /\ next \in columns => "columns" \in mishaps
      <3>1. start = "columns" => columns = 1 .. next - 1 \/ "columns" \in mishaps
        BY <1>1 DEF StartIInv, SchemaIsRight
      <3>2. next \notin 1 .. next - 1
        BY <1>1 DEF StartIInv, StartTypeOK
      <3> QED BY <3>1, <3>2 DEF At
    <2>3. program = "reset" => counters \/ "counters" \in mishaps
      BY <1>1, SinceFacts DEF StartIInv, StartIsRight, SchemaIsRight
    <2> QED BY <2>1, <2>2, <2>3 DEF SchemaSurvives
  <1> QED BY <1>1, StartupInductiveInvariant, PTL

\* Only Loads changes loaded.
LEMMA OnlyLoadsLoads ==
    ASSUME StartupNext, loaded' # loaded
    PROVE  Loads
  BY DEF StartupNext, Starts, Dies, startvars, Begins, ReadsNothing, MigrationFails, BacksUp,
         CreatesSchema, ChecksVersion, InitsCounters, AddsColumn, RecordsVersion, FindsColumn,
         StatementFails, ImportsJobs, ImportsPlace, RemovesFile, Resets

\* The first start of this version comes up with the whole queue of the old one.
THEOREM FirstStartCorrect == StartupSpec => FirstStartHasAll
  <1>1. ASSUME StoreIInv, StartIInv, [StartupNext]_<<dqvars, startvars>>, LoadsFirst,
               "import" \notin mishaps
        PROVE  /\ status' = [j \in JobId |-> IF j \notin Jobs THEN Absent
                                              ELSE IF old.jobs[j] = "running" THEN "pending"
                                              ELSE old.jobs[j]]
               /\ order' = Before
    <2>1. Loads
      BY <1>1, OnlyLoadsLoads DEF LoadsFirst, startvars
    <2>2. program = "reset" /\ status' = row /\ order' = LoadedOrder /\ loaded' = TRUE
      BY <2>1 DEF Loads, Load
    <2>3. start = "ready" /\ ~importing /\ ~loaded
      BY <1>1, <2>2 DEF StartIInv, StartIsRight, StartTypeOK, LoadsFirst
    <2>4. lastId \in 0 .. MaxJobs
      BY <1>1 DEF StoreIInv, QueueIInv, QueueTypeOK
    <2>5. StartTypeOK /\ Jobs \subseteq JobId /\ old.jobs \in [Jobs -> Status]
      BY <1>1, <2>4, OldFacts DEF StartIInv
    <2>6. CASE Jobs = {} /\ row = [j \in JobId |-> Absent] /\ placed = {} /\ place = {}
      <3>1. Before = {} /\ LoadedOrder = {}
        BY <2>6 DEF Before, LoadedOrder
      <3> QED BY <2>2, <2>6, <3>1
    <2>7. CASE HoldsOld
      <3>1. \A j \in JobId : row[j] = IF j \notin Jobs THEN Absent
                                      ELSE IF old.jobs[j] = "running" THEN "pending"
                                      ELSE old.jobs[j]
        BY <2>2, <2>7 DEF HoldsOld
      <3>2. row \in [JobId -> Status \cup {Absent}]
        BY <1>1 DEF StoreIInv, TablesIInv, TablesTypeOK
      <3>3. /\ Before \subseteq Jobs \X Jobs
            /\ \A a \in Jobs : <<a, a>> \notin Before
        BY <2>4, <2>5, BeforeIsOrdered
      <3>4. \A j \in JobId : row[j] # Absent <=> j \in Jobs
        BY <2>5, <3>1, StatusFacts
      <3>5. LoadedOrder = Before
        BY <2>5, <2>7, <3>3, <3>4 DEF HoldsOld, LoadedOrder
      <3> QED BY <2>2, <3>1, <3>2, <3>5
    <2> QED BY <1>1, <2>3, <2>6, <2>7 DEF StartIInv, UpgradeIInv, Imported
  <1> QED BY <1>1, StartupInductiveInvariant, PTL DEF StartupSpec, FirstStartHasAll
=============================================================================
