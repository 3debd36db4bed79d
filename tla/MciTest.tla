------------------------------- MODULE MciTest -------------------------------
(***************************************************************************)
(* linux_app/mci_test: main starts THREAD_MAX threads, which for ever walk *)
(* the sensor repository and ask for each sensor's thresholds and reading. *)
(* Every thread refreshes the repository before its walk, and all of them  *)
(* find it through one global pointer, without a lock.                     *)
(*                                                                         *)
(* The sensor library is external.  Its refresh installs a repository and  *)
(* returns the number of its records, or fails with no record; what the    *)
(* pointer led to before stays readable, since the code goes on using it.  *)
(* Behind the last record there may be anything.                           *)
(***************************************************************************)
EXTENDS Integers, Sequences

CONSTANTS
  ThreadMax,      \* 50 in the code
  SensorIds,      \* owner and number of a sensor
  Repositories    \* what a refresh may install

Types == {"full", "compact", "other"}    \* sdr_type: 1, 2, any other value
Ways  == {"threshold", "discrete"}       \* event_reading_type: 1, any other
Records == [type : Types, way : Ways, sensor : SensorIds]

ASSUME ThreadAssumption == ThreadMax \in Nat
ASSUME RepositoryAssumption == Repositories \subseteq Seq(Records)

Threads == 0..ThreadMax - 1

VARIABLES
  created,        \* main's loop variable in thread_init
  thread_index,   \* the array the threads' arguments point into
  repo,           \* where g_sdr_repo_ptr points; <<>> for no repository
  pc, index,      \* each thread: where it is, and its local thread_index
  i, sdr_cnt, sdr_record,            \* its locals in get_sensor_info
  own,            \* what its last refresh installed, <<>> if it failed
  calm,           \* no other thread has installed a different one since
  strayed,        \* it has read past the end of a repository in this pass
  read, limits    \* the sensors whose reading, thresholds it has asked for

locals == <<pc, index, i, sdr_cnt, sdr_record>>
ghosts == <<own, calm, strayed, read, limits>>
vars == <<created, thread_index, repo, locals, ghosts>>

NoRecord == [type |-> "other"]

Init ==
  /\ created = 0
  /\ thread_index = [t \in Threads |-> 0]
  /\ repo = <<>>
  /\ pc = [t \in Threads |-> "none"]
  /\ index = [t \in Threads |-> -1]
  /\ i = [t \in Threads |-> 0]
  /\ sdr_cnt = [t \in Threads |-> 0]
  /\ sdr_record = [t \in Threads |-> NoRecord]
  /\ own = [t \in Threads |-> <<>>]
  /\ calm = [t \in Threads |-> TRUE]
  /\ strayed = [t \in Threads |-> FALSE]
  /\ read = [t \in Threads |-> {}]
  /\ limits = [t \in Threads |-> {}]

Step(t, here, next) == pc[t] = here /\ pc' = [pc EXCEPT ![t] = next]

-----------------------------------------------------------------------------
(***************************************************************************)
(* Starting the threads, one pthread_create after the other; one that      *)
(* fails is only reported.  A thread reads its argument when it first      *)
(* runs, which may be long after.                                          *)
(***************************************************************************)

thread_init ==
  /\ created \in Threads
  /\ thread_index' = [thread_index EXCEPT ![created] = created]
  /\ pc' \in {pc, [pc EXCEPT ![created] = "start"]}
  /\ created' = created + 1
  /\ UNCHANGED <<repo, index, i, sdr_cnt, sdr_record, ghosts>>

LoopVariable(t) == created

\* What the pointer passed to thread t leads to.
Argument(t) == thread_index[t]

thread_proc(t) ==
  /\ Step(t, "start", "refresh")
  /\ index' = [index EXCEPT ![t] = Argument(t)]
  /\ UNCHANGED <<created, thread_index, repo, i, sdr_cnt, sdr_record, ghosts>>

-----------------------------------------------------------------------------
(***************************************************************************)
(* A pass over the repository.                                             *)
(***************************************************************************)

\* Records at an index of the repository that is now behind the pointer.
RecordsAt(n) == IF n < Len(repo) THEN {repo[n + 1]} ELSE Records

Strays(t) == strayed[t] \/ i[t] >= Len(repo)

LastIndex(t) == i[t]

FirstIndex(t) == 0

mci_update_sdr_cache(t) ==
  /\ Step(t, "refresh", "look")
  /\ \/ \E r \in Repositories :
          /\ repo' = r
          /\ sdr_cnt' = [sdr_cnt EXCEPT ![t] = Len(r)]
     \/ /\ sdr_cnt' \in {[sdr_cnt EXCEPT ![t] = n] : n \in {-1, 0}}
        /\ UNCHANGED repo
  /\ i' = [i EXCEPT ![t] = FirstIndex(t)]
  /\ own' = [own EXCEPT ![t] = IF sdr_cnt'[t] > 0 THEN repo' ELSE <<>>]
  /\ calm' = [u \in Threads |-> u = t \/ (calm[u] /\ repo' = repo)]
  /\ strayed' = [strayed EXCEPT ![t] = FALSE]
  /\ read' = [read EXCEPT ![t] = {}] /\ limits' = [limits EXCEPT ![t] = {}]
  /\ UNCHANGED <<created, thread_index, index, sdr_record>>

MoreToCount(t) == i[t] <= sdr_cnt[t]

MoreOfRepository(t) == i[t] < Len(repo)

More(t) == i[t] < sdr_cnt[t]

InPlace(t) == i[t]

NextIndex(t) == i[t] + 1

IsSensor(record) == record.type \in {"full", "compact"}

\* The head of the loop: records that describe no sensor are skipped.
LookAt(t) ==
  /\ pc[t] = "look" /\ More(t)
  /\ \E record \in RecordsAt(i[t]) :
       IF IsSensor(record)
         THEN /\ pc' = [pc EXCEPT ![t] = IF record.way = "threshold" THEN "thresholds"
                                                                     ELSE "reading"]
              /\ sdr_record' = [sdr_record EXCEPT ![t] = record]
              /\ UNCHANGED i
         ELSE /\ i' = [i EXCEPT ![t] = NextIndex(t)]
              /\ UNCHANGED <<pc, sdr_record>>
  /\ strayed' = [strayed EXCEPT ![t] = Strays(t)]
  /\ UNCHANGED <<created, thread_index, repo, index, sdr_cnt, own, calm, read, limits>>

\* Decides by the record it finds now, and asks for the sensor found before.
get_thresholds_only(t) ==
  /\ Step(t, "thresholds", "reading")
  /\ \E record \in RecordsAt(i[t]) :
       limits' = IF record.way = "threshold"
                   THEN [limits EXCEPT ![t] = @ \cup {sdr_record[t].sensor}]
                   ELSE limits
  /\ strayed' = [strayed EXCEPT ![t] = Strays(t)]
  /\ UNCHANGED <<created, thread_index, repo, index, i, sdr_cnt, sdr_record,
                 own, calm, read>>

\* The reading, with its conversion and severity, which leave nothing behind.
mci_get_raw_reading(t) ==
  /\ Step(t, "reading", "look")
  /\ read' = [read EXCEPT ![t] = @ \cup {sdr_record[t].sensor}]
  /\ i' = [i EXCEPT ![t] = NextIndex(t)]
  /\ sdr_record' = [sdr_record EXCEPT ![t] = NoRecord]
  /\ UNCHANGED <<created, thread_index, repo, index, sdr_cnt, own, calm, strayed, limits>>

EndPass(t) ==
  /\ Step(t, "look", "sleep") /\ ~More(t)
  /\ UNCHANGED <<created, thread_index, repo, index, i, sdr_cnt, sdr_record, ghosts>>

Wake(t) ==
  /\ Step(t, "sleep", "refresh")
  /\ UNCHANGED <<created, thread_index, repo, index, i, sdr_cnt, sdr_record, ghosts>>

ThreadStep(t) ==
  \/ thread_proc(t) \/ mci_update_sdr_cache(t) \/ LookAt(t)
  \/ get_thresholds_only(t) \/ mci_get_raw_reading(t) \/ EndPass(t) \/ Wake(t)

Next == thread_init \/ \E t \in Threads : ThreadStep(t)

Fairness == \A t \in Threads : WF_vars(ThreadStep(t))

Spec == Init /\ [][Next]_vars /\ Fairness

-----------------------------------------------------------------------------
(***************************************************************************)
(* Properties.                                                             *)
(***************************************************************************)

\* Type invariant; the index of a walk never passes its count.
TypeOK ==
  /\ created \in 0..ThreadMax
  /\ thread_index \in [Threads -> Threads]
  /\ repo \in Repositories \cup {<<>>}
  /\ pc \in [Threads -> {"none", "start", "refresh", "look", "thresholds",
                         "reading", "sleep"}]
  /\ index \in [Threads -> Threads \cup {-1}]
  /\ i \in [Threads -> Nat] /\ sdr_cnt \in [Threads -> Nat \cup {-1}]
  /\ \A t \in Threads : i[t] = 0 \/ i[t] <= sdr_cnt[t]
  /\ sdr_record \in [Threads -> Records \cup {NoRecord}]
  /\ own \in [Threads -> Repositories \cup {<<>>}]
  /\ calm \in [Threads -> BOOLEAN] /\ strayed \in [Threads -> BOOLEAN]
  /\ read \in [Threads -> SUBSET SensorIds]
  /\ limits \in [Threads -> SUBSET SensorIds]

\* A thread knows itself by its own number, however late it starts.
OwnIndex ==
  \A t \in Threads : pc[t] \notin {"none", "start"} => index[t] = t

Sensors(r) == {r[k].sensor : k \in {j \in 1..Len(r) : IsSensor(r[j])}}

WithThresholds(r) ==
  {r[k].sensor : k \in {j \in 1..Len(r) : IsSensor(r[j]) /\ r[j].way = "threshold"}}

\* A pass in which no other thread installs another repository asks for the
\* readings of all sensors of the one it has refreshed itself, for thresholds
\* of those that have them, and reads nothing behind its last record.
CalmPass ==
  \A t \in Threads :
    calm[t] => /\ ~strayed[t]
               /\ pc[t] = "sleep" => /\ read[t] = Sensors(own[t])
                                     /\ limits[t] = WithThresholds(own[t])

\* The steps thread t has left in its walk, at most three to a record.
StepsLeft(t) ==
  LET more == IF i[t] < sdr_cnt[t] THEN sdr_cnt[t] - i[t] ELSE 0 IN
  CASE pc[t] = "look"       -> 3 * more + 1
    [] pc[t] = "thresholds" -> 3 * more
    [] pc[t] = "reading"    -> 3 * more - 1
    [] OTHER                -> 0

\* A walk is as long as its own refresh said, whatever the pointer leads to by
\* then: each step of the thread brings the end of the walk nearer, and no step
\* of another thread puts it off.
WalksEnd ==
  [][\A t \in Threads :
       pc[t] \in {"look", "thresholds", "reading"} =>
         \/ UNCHANGED <<pc[t], i[t], sdr_cnt[t]>>
         \/ StepsLeft(t)' \in 0..StepsLeft(t) - 1]_vars

\* Every thread that was started completes pass after pass, also when others
\* install longer repositories under its walk.
PassesGoOn ==
  \A t \in Threads : pc[t] # "none" ~> pc[t] = "sleep"
=============================================================================
