------------------------------ MODULE MciProofs ------------------------------
(***************************************************************************)
(* Proofs about MciTest for any number of threads and any repositories:    *)
(* threads know their own numbers, and a pass nobody disturbs asks for     *)
(* exactly the sensors of its repository.  And every walk ends: its length *)
(* is fixed when it begins, whatever other threads install under it.       *)
(***************************************************************************)
EXTENDS MciTest, SequenceTheorems, TLAPS

Places == {"none", "start", "refresh", "look", "thresholds", "reading", "sleep"}

MainOK == /\ created \in 0..ThreadMax
          /\ thread_index \in [Threads -> Threads]
          /\ index \in [Threads -> Threads \cup {-1}]

PlaceOK == pc \in [Threads -> Places]

RepoOK == repo \in Repositories \cup {<<>>}

WalkOK == /\ i \in [Threads -> Nat] /\ sdr_cnt \in [Threads -> Nat \cup {-1}]
          /\ \A t \in Threads : i[t] = 0 \/ i[t] <= sdr_cnt[t]
          /\ sdr_record \in [Threads -> Records \cup {NoRecord}]

GhostOK == /\ own \in [Threads -> Repositories \cup {<<>>}]
           /\ calm \in [Threads -> BOOLEAN] /\ strayed \in [Threads -> BOOLEAN]
           /\ read \in [Threads -> SUBSET SensorIds]
           /\ limits \in [Threads -> SUBSET SensorIds]

\* A thread that was started has its number in its element of the array.
IndexInv ==
  \A t \in Threads : /\ pc[t] # "none" => thread_index[t] = t
                     /\ pc[t] \notin {"none", "start"} => index[t] = t

\* Inside the loop's body there is a record, at an index below the count.
BodyInv ==
  \A t \in Threads :
    pc[t] \in {"thresholds", "reading"} =>
      sdr_record[t] \in Records /\ i[t] < sdr_cnt[t]

\* The sensors among the first n records of r, and those with thresholds.
Found(r, n) ==
  {r[k].sensor : k \in {j \in 1..Len(r) : j <= n /\ IsSensor(r[j])}}

FoundWithThresholds(r, n) ==
  {r[k].sensor : k \in {j \in 1..Len(r) :
                          j <= n /\ IsSensor(r[j]) /\ r[j].way = "threshold"}}

\* The thresholds that are asked for before the reading of the same record.
AskedAhead(t) ==
  IF pc[t] = "reading" /\ sdr_record[t].way = "threshold"
    THEN {sdr_record[t].sensor} ELSE {}

\* How far a calm pass has come: it counts and walks the one repository.
Progress(t) ==
  /\ Len(own[t]) = IF sdr_cnt[t] > 0 THEN sdr_cnt[t] ELSE 0
  /\ sdr_cnt[t] > 0 => repo = own[t]
  /\ read[t] = Found(own[t], i[t])
  /\ limits[t] = FoundWithThresholds(own[t], i[t]) \cup AskedAhead(t)
  /\ pc[t] \in {"thresholds", "reading"} =>
       sdr_record[t] = own[t][i[t] + 1] /\ IsSensor(sdr_record[t])
  /\ pc[t] = "thresholds" => sdr_record[t].way = "threshold"
  /\ pc[t] = "sleep" => i[t] >= sdr_cnt[t]

PassInv ==
  \A t \in Threads :
    calm[t] => /\ ~strayed[t]
               /\ pc[t] \in {"look", "thresholds", "reading", "sleep"} => Progress(t)

IInv == TypeOK /\ IndexInv /\ BodyInv /\ PassInv

LEMMA TypeParts == TypeOK <=> MainOK /\ PlaceOK /\ RepoOK /\ WalkOK /\ GhostOK
BY DEF TypeOK, MainOK, PlaceOK, RepoOK, WalkOK, GhostOK, Places

LEMMA TypePartsNext ==
  TypeOK' <=> MainOK' /\ PlaceOK' /\ RepoOK' /\ WalkOK' /\ GhostOK'
BY DEF TypeOK, MainOK, PlaceOK, RepoOK, WalkOK, GhostOK, Places

-----------------------------------------------------------------------------
(***************************************************************************)
(* The first records of a repository.                                      *)
(***************************************************************************)

LEMMA RepositoryType ==
  ASSUME NEW r \in Repositories \cup {<<>>}
  PROVE  /\ r \in Seq(Records) /\ Len(r) \in Nat
         /\ \A k \in 1..Len(r) : r[k] \in Records
<1>1. r \in Seq(Records)
  <2>1. CASE r \in Repositories
    BY <2>1, RepositoryAssumption
  <2>2. CASE r = <<>>
    BY <2>2
  <2> QED
    BY <2>1, <2>2
<1> QED
  BY <1>1, LenProperties, ElementOfSeq

LEMMA NothingFound ==
  ASSUME NEW r \in Repositories \cup {<<>>}
  PROVE  Found(r, 0) = {} /\ FoundWithThresholds(r, 0) = {}
<1>1. \A j \in 1..Len(r) : ~(j <= 0)
  BY RepositoryType
<1> QED
  BY <1>1 DEF Found, FoundWithThresholds

LEMMA OneMore ==
  ASSUME NEW r \in Repositories \cup {<<>>}, NEW n \in Nat, n < Len(r)
  PROVE  /\ n + 1 \in 1..Len(r)
         /\ Found(r, n + 1) = Found(r, n) \cup
              (IF IsSensor(r[n + 1]) THEN {r[n + 1].sensor} ELSE {})
         /\ FoundWithThresholds(r, n + 1) = FoundWithThresholds(r, n) \cup
              (IF IsSensor(r[n + 1]) /\ r[n + 1].way = "threshold"
                 THEN {r[n + 1].sensor} ELSE {})
<1>1. n + 1 \in 1..Len(r)
  BY RepositoryType
<1>2. \A j \in 1..Len(r) : j <= n + 1 <=> j <= n \/ j = n + 1
  BY RepositoryType
<1> QED
  BY <1>1, <1>2 DEF Found, FoundWithThresholds

LEMMA AllFound ==
  ASSUME NEW r \in Repositories \cup {<<>>}, NEW n \in Nat, n >= Len(r)
  PROVE  Found(r, n) = Sensors(r) /\ FoundWithThresholds(r, n) = WithThresholds(r)
<1>1. \A j \in 1..Len(r) : j <= n
  BY RepositoryType
<1> QED
  BY <1>1 DEF Found, FoundWithThresholds, Sensors, WithThresholds
-----------------------------------------------------------------------------
(***************************************************************************)
(* What a step leaves alone.                                               *)
(***************************************************************************)

LEMMA InitIInv == Init => IInv
<1> SUFFICES ASSUME Init PROVE IInv
  OBVIOUS
<1>1. MainOK
  <2>1. created \in 0..ThreadMax
    BY ThreadAssumption DEF Init
  <2>2. \A t \in Threads : 0 \in Threads
    BY ThreadAssumption DEF Threads
  <2> QED
    BY <2>1, <2>2 DEF Init, MainOK
<1>2. PlaceOK /\ RepoOK
  BY DEF Init, PlaceOK, RepoOK, Places
<1>3. WalkOK
  BY DEF Init, WalkOK
<1>4. GhostOK
  BY DEF Init, GhostOK
<1>5. IndexInv /\ BodyInv /\ PassInv
  BY DEF Init, IndexInv, BodyInv, PassInv
<1> QED
  BY <1>1, <1>2, <1>3, <1>4, <1>5, TypeParts DEF IInv

\* A pass goes on as it was while other threads leave the repository alone.
LEMMA PassLeftAlone ==
  ASSUME NEW u \in Threads, PassInv,
         calm'[u] => calm[u] /\ repo' = repo,
         pc'[u] = pc[u], i'[u] = i[u], sdr_cnt'[u] = sdr_cnt[u],
         sdr_record'[u] = sdr_record[u], own'[u] = own[u],
         strayed'[u] = strayed[u], read'[u] = read[u], limits'[u] = limits[u]
  PROVE  calm'[u] => /\ ~strayed'[u]
                     /\ pc'[u] \in {"look", "thresholds", "reading", "sleep"} =>
                          Progress(u)'
<1> SUFFICES ASSUME calm'[u]
             PROVE  /\ ~strayed'[u]
                    /\ pc'[u] \in {"look", "thresholds", "reading", "sleep"} =>
                         Progress(u)'
  OBVIOUS
<1>1. calm[u] /\ repo' = repo
  OBVIOUS
<1>2. ~strayed'[u]
  BY <1>1 DEF PassInv
<1>3. AskedAhead(u)' = AskedAhead(u)
  BY DEF AskedAhead
<1>4. ASSUME pc'[u] \in {"look", "thresholds", "reading", "sleep"}
      PROVE  Progress(u)'
  <2>1. Progress(u)
    BY <1>1, <1>4 DEF PassInv
  <2> QED
    BY <1>1, <1>3, <2>1 DEF Progress
<1> QED
  BY <1>2, <1>4

LEMMA StepPlace ==
  ASSUME PlaceOK, NEW t \in Threads, NEW here, NEW next \in Places,
         Step(t, here, next)
  PROVE  /\ PlaceOK' /\ pc[t] = here /\ pc'[t] = next
         /\ \A u \in Threads : u # t => pc'[u] = pc[u]
BY DEF Step, PlaceOK

\* A thread's step keeps numbers, if it reads its own when it starts.
LEMMA NumbersKept ==
  ASSUME IndexInv, NEW t \in Threads, thread_index' = thread_index,
         index' = index, pc[t] \notin {"none", "start"},
         \A u \in Threads : u # t => pc'[u] = pc[u]
  PROVE  IndexInv'
BY DEF IndexInv

\* A pass that does nothing but move on to another place outside its walk.
LEMMA PlaceStep ==
  ASSUME IInv, NEW t \in Threads, NEW here, NEW next \in {"refresh", "sleep"},
         Step(t, here, next), next = "sleep" => here = "look" /\ i[t] >= sdr_cnt[t],
         UNCHANGED <<repo, i, sdr_cnt, sdr_record, ghosts>>,
         IndexInv', MainOK'
  PROVE  IInv'
<1>0. MainOK /\ PlaceOK /\ RepoOK /\ WalkOK /\ GhostOK
  BY TypeParts DEF IInv
<1>1. /\ PlaceOK' /\ pc[t] = here /\ pc'[t] = next
      /\ \A u \in Threads : u # t => pc'[u] = pc[u]
  BY <1>0, StepPlace DEF Places
<1>2. UNCHANGED <<repo, i, sdr_cnt, sdr_record, own, calm, strayed, read, limits>>
  BY DEF ghosts
<1>3. RepoOK' /\ WalkOK' /\ GhostOK'
  BY <1>0, <1>2 DEF RepoOK, WalkOK, GhostOK
<1>4. BodyInv'
  BY <1>1, <1>2 DEF IInv, BodyInv
<1>5. PassInv'
  <2> SUFFICES ASSUME NEW u \in Threads, calm'[u]
               PROVE  /\ ~strayed'[u]
                      /\ pc'[u] \in {"look", "thresholds", "reading", "sleep"} =>
                           Progress(u)'
    BY DEF PassInv
  <2>1. CASE u # t
    BY <1>1, <1>2, <2>1, PassLeftAlone DEF IInv
  <2>2. CASE u = t
    <3>1. calm[t] /\ ~strayed'[t]
      BY <1>2, <2>2 DEF IInv, PassInv
    <3>2. CASE next = "refresh"
      BY <1>1, <2>2, <3>1, <3>2
    <3>3. CASE next = "sleep"
      <4>1. Progress(t)
        BY <1>1, <3>1, <3>3 DEF IInv, PassInv
      <4>2. AskedAhead(t)' = {} /\ AskedAhead(t) = {}
        BY <1>1, <3>3 DEF AskedAhead
      <4>3. Progress(t)'
        BY <1>1, <1>2, <3>3, <4>1, <4>2 DEF Progress
      <4> QED
        BY <2>2, <3>1, <4>3
    <3> QED
      BY <3>2, <3>3
  <2> QED
    BY <2>1, <2>2
<1>6. TypeOK'
  BY <1>1, <1>3, TypePartsNext
<1> QED
  BY <1>4, <1>5, <1>6 DEF IInv

-----------------------------------------------------------------------------
(***************************************************************************)
(* Each action.                                                            *)
(***************************************************************************)

LEMMA CreateStep ==
  ASSUME IInv, thread_init
  PROVE  IInv'
<1>0. MainOK /\ PlaceOK /\ RepoOK /\ WalkOK /\ GhostOK
  BY TypeParts DEF IInv
<1>1. /\ created \in Threads
      /\ thread_index' = [thread_index EXCEPT ![created] = created]
      /\ pc' \in {pc, [pc EXCEPT ![created] = "start"]}
      /\ created' = created + 1
      /\ UNCHANGED <<repo, index, i, sdr_cnt, sdr_record, own, calm, strayed,
                     read, limits>>
  BY DEF thread_init, ghosts
<1>2. MainOK'
  <2>1. created' \in 0..ThreadMax
    BY <1>1, ThreadAssumption DEF Threads
  <2> QED
    BY <1>0, <1>1, <2>1 DEF MainOK
<1>3. /\ PlaceOK' /\ \A u \in Threads : u # created => pc'[u] = pc[u]
      /\ pc'[created] \in {pc[created], "start"}
  <2>1. CASE pc' = pc
    BY <1>0, <2>1 DEF PlaceOK
  <2>2. CASE pc' = [pc EXCEPT ![created] = "start"]
    BY <1>0, <1>1, <2>2 DEF PlaceOK, Places
  <2> QED
    BY <1>1, <2>1, <2>2
<1>4. RepoOK' /\ WalkOK' /\ GhostOK'
  BY <1>0, <1>1 DEF RepoOK, WalkOK, GhostOK
<1>5. IndexInv'
  <2> SUFFICES ASSUME NEW u \in Threads
               PROVE  /\ pc'[u] # "none" => thread_index'[u] = u
                      /\ pc'[u] \notin {"none", "start"} => index'[u] = u
    BY DEF IndexInv
  <2>1. thread_index'[u] = IF u = created THEN u ELSE thread_index[u]
    BY <1>0, <1>1 DEF MainOK
  <2> QED
    BY <1>1, <1>3, <2>1 DEF IInv, IndexInv
<1>6. BodyInv'
  BY <1>1, <1>3 DEF IInv, BodyInv
<1>7. PassInv'
  <2> SUFFICES ASSUME NEW u \in Threads, calm'[u]
               PROVE  /\ ~strayed'[u]
                      /\ pc'[u] \in {"look", "thresholds", "reading", "sleep"} =>
                           Progress(u)'
    BY DEF PassInv
  <2>1. CASE pc'[u] = pc[u]
    BY <1>1, <2>1, PassLeftAlone DEF IInv
  <2>2. CASE pc'[u] = "start"
    BY <1>1, <2>2 DEF IInv, PassInv
  <2> QED
    BY <1>3, <2>1, <2>2
<1>8. TypeOK'
  BY <1>2, <1>3, <1>4, TypePartsNext
<1> QED
  BY <1>5, <1>6, <1>7, <1>8 DEF IInv

LEMMA StartStep ==
  ASSUME IInv, NEW t \in Threads, thread_proc(t)
  PROVE  IInv'
<1>0. MainOK /\ PlaceOK
  BY TypeParts DEF IInv
<1>1. /\ Step(t, "start", "refresh")
      /\ index' = [index EXCEPT ![t] = thread_index[t]]
      /\ UNCHANGED <<created, thread_index>>
      /\ UNCHANGED <<repo, i, sdr_cnt, sdr_record, ghosts>>
  BY DEF thread_proc, Argument
<1>2. /\ pc[t] = "start" /\ pc'[t] = "refresh"
      /\ \A u \in Threads : u # t => pc'[u] = pc[u]
  BY <1>0, <1>1, StepPlace DEF Places
<1>3. MainOK'
  BY <1>0, <1>1 DEF MainOK
<1>4. IndexInv'
  <2>1. index'[t] = t /\ \A u \in Threads : u # t => index'[u] = index[u]
    BY <1>0, <1>1, <1>2 DEF IInv, IndexInv, MainOK
  <2> QED
    BY <1>1, <1>2, <2>1 DEF IInv, IndexInv
<1> QED
  BY <1>1, <1>3, <1>4, PlaceStep

LEMMA WakeStep ==
  ASSUME IInv, NEW t \in Threads, Wake(t)
  PROVE  IInv'
<1>0. MainOK /\ PlaceOK
  BY TypeParts DEF IInv
<1>1. /\ Step(t, "sleep", "refresh")
      /\ UNCHANGED <<created, thread_index, index>>
      /\ UNCHANGED <<repo, i, sdr_cnt, sdr_record, ghosts>>
  BY DEF Wake
<1>2. /\ pc[t] = "sleep" /\ pc'[t] = "refresh"
      /\ \A u \in Threads : u # t => pc'[u] = pc[u]
  BY <1>0, <1>1, StepPlace DEF Places
<1>3. MainOK'
  BY <1>0, <1>1 DEF MainOK
<1>4. IndexInv'
  BY <1>1, <1>2, NumbersKept DEF IInv
<1> QED
  BY <1>1, <1>3, <1>4, PlaceStep

LEMMA EndStep ==
  ASSUME IInv, NEW t \in Threads, EndPass(t)
  PROVE  IInv'
<1>0. MainOK /\ PlaceOK /\ WalkOK
  BY TypeParts DEF IInv
<1>1. /\ Step(t, "look", "sleep") /\ ~(i[t] < sdr_cnt[t])
      /\ UNCHANGED <<created, thread_index, index>>
      /\ UNCHANGED <<repo, i, sdr_cnt, sdr_record, ghosts>>
  BY DEF EndPass, More
<1>2. /\ pc[t] = "look" /\ pc'[t] = "sleep"
      /\ \A u \in Threads : u # t => pc'[u] = pc[u]
  BY <1>0, <1>1, StepPlace DEF Places
<1>3. MainOK'
  BY <1>0, <1>1 DEF MainOK
<1>4. IndexInv'
  BY <1>1, <1>2, NumbersKept DEF IInv
<1>5. i[t] >= sdr_cnt[t]
  BY <1>0, <1>1 DEF WalkOK
<1> QED
  BY <1>1, <1>3, <1>4, <1>5, PlaceStep
LEMMA RefreshStep ==
  ASSUME IInv, NEW t \in Threads, mci_update_sdr_cache(t)
  PROVE  IInv'
<1>0. MainOK /\ PlaceOK /\ RepoOK /\ WalkOK /\ GhostOK
  BY TypeParts DEF IInv
<1>1. /\ Step(t, "refresh", "look")
      /\ i' = [i EXCEPT ![t] = 0]
      /\ own' = [own EXCEPT ![t] = IF sdr_cnt'[t] > 0 THEN repo' ELSE <<>>]
      /\ calm' = [u \in Threads |-> u = t \/ (calm[u] /\ repo' = repo)]
      /\ strayed' = [strayed EXCEPT ![t] = FALSE]
      /\ read' = [read EXCEPT ![t] = {}] /\ limits' = [limits EXCEPT ![t] = {}]
      /\ UNCHANGED <<created, thread_index, index, sdr_record>>
  BY DEF mci_update_sdr_cache, FirstIndex
<1>2. PICK n \in Nat \cup {-1} :
        /\ sdr_cnt' = [sdr_cnt EXCEPT ![t] = n]
        /\ repo' \in Repositories \cup {<<>>}
        /\ n > 0 => n = Len(repo')
        /\ ~(n > 0) => n \in {-1, 0}
  <2>1. CASE \E r \in Repositories :
               repo' = r /\ sdr_cnt' = [sdr_cnt EXCEPT ![t] = Len(r)]
    <3>1. PICK r \in Repositories :
            repo' = r /\ sdr_cnt' = [sdr_cnt EXCEPT ![t] = Len(r)]
      BY <2>1
    <3>2. Len(r) \in Nat
      BY RepositoryType
    <3>3. ~(Len(r) > 0) => Len(r) \in {-1, 0}
      BY <3>2
    <3> WITNESS Len(r) \in Nat \cup {-1}
    <3> QED
      BY <3>1, <3>3
  <2>2. CASE /\ sdr_cnt' \in {[sdr_cnt EXCEPT ![t] = n] : n \in {-1, 0}}
             /\ repo' = repo
    <3>1. PICK n \in {-1, 0} : sdr_cnt' = [sdr_cnt EXCEPT ![t] = n]
      BY <2>2
    <3>2. n \in Nat \cup {-1} /\ ~(n > 0)
      OBVIOUS
    <3> WITNESS n \in Nat \cup {-1}
    <3> QED
      BY <1>0, <2>2, <3>1, <3>2 DEF RepoOK
  <2> QED
    BY <2>1, <2>2 DEF mci_update_sdr_cache
<1>3. /\ PlaceOK' /\ pc[t] = "refresh" /\ pc'[t] = "look"
      /\ \A u \in Threads : u # t => pc'[u] = pc[u]
  BY <1>0, <1>1, StepPlace DEF Places
<1>4. MainOK' /\ RepoOK'
  BY <1>0, <1>1, <1>2 DEF MainOK, RepoOK
<1>5. /\ i'[t] = 0 /\ sdr_cnt'[t] = n
      /\ \A u \in Threads : u # t => i'[u] = i[u] /\ sdr_cnt'[u] = sdr_cnt[u]
  BY <1>0, <1>1, <1>2 DEF WalkOK
<1>6. WalkOK'
  BY <1>0, <1>1, <1>2, <1>5 DEF WalkOK
<1>7. /\ own'[t] = IF n > 0 THEN repo' ELSE <<>>
      /\ own'[t] \in Repositories \cup {<<>>}
      /\ ~strayed'[t] /\ read'[t] = {} /\ limits'[t] = {}
      /\ \A u \in Threads : u # t => /\ own'[u] = own[u] /\ strayed'[u] = strayed[u]
                                     /\ read'[u] = read[u] /\ limits'[u] = limits[u]
                                     /\ calm'[u] = (calm[u] /\ repo' = repo)
  BY <1>0, <1>1, <1>2, <1>5 DEF GhostOK
<1>8. GhostOK'
  BY <1>0, <1>1, <1>7 DEF GhostOK
<1>9. IndexInv'
  BY <1>1, <1>3, NumbersKept DEF IInv
<1>10. BodyInv'
  BY <1>1, <1>3, <1>5 DEF IInv, BodyInv
<1>11. PassInv'
  <2> SUFFICES ASSUME NEW u \in Threads, calm'[u]
               PROVE  /\ ~strayed'[u]
                      /\ pc'[u] \in {"look", "thresholds", "reading", "sleep"} =>
                           Progress(u)'
    BY DEF PassInv
  <2>1. CASE u # t
    BY <1>1, <1>3, <1>5, <1>7, <2>1, PassLeftAlone DEF IInv
  <2>2. CASE u = t
    <3>1. AskedAhead(t)' = {}
      BY <1>3 DEF AskedAhead
    <3>2. /\ Found(own'[t], i'[t]) = {}
          /\ FoundWithThresholds(own'[t], i'[t]) = {}
      BY <1>5, <1>7, NothingFound
    <3>3. Len(own'[t]) = IF n > 0 THEN n ELSE 0
      BY <1>2, <1>7
    <3>4. Progress(t)'
      BY <1>3, <1>5, <1>7, <3>1, <3>2, <3>3 DEF Progress
    <3> QED
      BY <1>7, <2>2, <3>4
  <2> QED
    BY <2>1, <2>2
<1>12. TypeOK'
  BY <1>3, <1>4, <1>6, <1>8, TypePartsNext
<1> QED
  BY <1>9, <1>10, <1>11, <1>12 DEF IInv

\* In a calm pass the record behind the pointer is the repository's own.
LEMMA CalmRecord ==
  ASSUME TypeOK, PassInv, NEW t \in Threads, calm[t], i[t] < sdr_cnt[t],
         pc[t] \in {"look", "thresholds"}
  PROVE  /\ ~Strays(t) /\ RecordsAt(i[t]) = {own[t][i[t] + 1]}
         /\ i[t] \in Nat /\ i[t] < Len(own[t])
         /\ own[t] \in Repositories \cup {<<>>}
<1>1. i[t] \in Nat /\ sdr_cnt[t] \in Nat \cup {-1} /\ own[t] \in Repositories \cup {<<>>}
  BY DEF TypeOK
<1>2. ~strayed[t] /\ Progress(t)
  BY DEF PassInv
<1>3. sdr_cnt[t] > 0
  BY <1>1
<1>4. Len(own[t]) = sdr_cnt[t] /\ repo = own[t]
  BY <1>2, <1>3 DEF Progress
<1>5. i[t] < Len(repo)
  BY <1>4
<1>6. ~(i[t] >= Len(repo))
  BY <1>1, <1>3, <1>4, <1>5
<1>7. ~Strays(t)
  BY <1>2, <1>6 DEF Strays
<1> QED
  BY <1>1, <1>4, <1>5, <1>7 DEF RecordsAt

LEMMA RecordType ==
  ASSUME RepoOK, NEW n \in Nat, NEW record \in RecordsAt(n)
  PROVE  record \in Records
<1>1. CASE n < Len(repo)
  <2>1. repo \in Repositories \cup {<<>>}
    BY DEF RepoOK
  <2>2. Len(repo) \in Nat /\ \A k \in 1..Len(repo) : repo[k] \in Records
    BY <2>1, RepositoryType
  <2>3. n + 1 \in 1..Len(repo)
    BY <1>1, <2>2
  <2> QED
    BY <1>1, <2>2, <2>3 DEF RecordsAt
<1>2. CASE ~(n < Len(repo))
  BY <1>2 DEF RecordsAt
<1> QED
  BY <1>1, <1>2

LEMMA LookStep ==
  ASSUME IInv, NEW t \in Threads, LookAt(t)
  PROVE  IInv'
<1>0. MainOK /\ PlaceOK /\ RepoOK /\ WalkOK /\ GhostOK
  BY TypeParts DEF IInv
<1>1. PICK record \in RecordsAt(i[t]) :
        IF IsSensor(record)
          THEN /\ pc' = [pc EXCEPT ![t] = IF record.way = "threshold"
                                            THEN "thresholds" ELSE "reading"]
               /\ sdr_record' = [sdr_record EXCEPT ![t] = record]
               /\ UNCHANGED i
          ELSE /\ i' = [i EXCEPT ![t] = i[t] + 1]
               /\ UNCHANGED <<pc, sdr_record>>
  BY DEF LookAt, NextIndex
<1>2. /\ pc[t] = "look" /\ i[t] < sdr_cnt[t]
      /\ strayed' = [strayed EXCEPT ![t] = Strays(t)]
      /\ UNCHANGED <<created, thread_index, repo, index, sdr_cnt, own, calm,
                     read, limits>>
  BY DEF LookAt, More
<1>3. i[t] \in Nat /\ sdr_cnt[t] \in Nat \cup {-1} /\ i[t] + 1 <= sdr_cnt[t]
  BY <1>0, <1>2 DEF WalkOK
<1>4. record \in Records
  BY <1>0, <1>1, <1>3, RecordType
<1>5. /\ PlaceOK' /\ \A u \in Threads : u # t => pc'[u] = pc[u]
      /\ pc'[t] = IF IsSensor(record)
                    THEN IF record.way = "threshold" THEN "thresholds" ELSE "reading"
                    ELSE "look"
  BY <1>0, <1>1, <1>2 DEF PlaceOK, Places
<1>6. /\ sdr_record' \in [Threads -> Records \cup {NoRecord}]
      /\ IsSensor(record) => sdr_record'[t] = record
      /\ \A u \in Threads : u # t => sdr_record'[u] = sdr_record[u]
  BY <1>0, <1>1, <1>4 DEF WalkOK
<1>7. /\ i' \in [Threads -> Nat]
      /\ i'[t] = IF IsSensor(record) THEN i[t] ELSE i[t] + 1
      /\ \A u \in Threads : u # t => i'[u] = i[u]
  BY <1>0, <1>1, <1>3 DEF WalkOK
<1>8. WalkOK'
  BY <1>0, <1>2, <1>3, <1>6, <1>7 DEF WalkOK
<1>9. MainOK' /\ RepoOK'
  BY <1>0, <1>2 DEF MainOK, RepoOK
<1>10. /\ strayed'[t] = Strays(t) /\ Strays(t) \in BOOLEAN
       /\ \A u \in Threads : u # t => strayed'[u] = strayed[u]
  BY <1>0, <1>2 DEF GhostOK, Strays
<1>11. GhostOK'
  BY <1>0, <1>2, <1>10 DEF GhostOK
<1>12. IndexInv'
  BY <1>2, <1>5, NumbersKept DEF IInv
<1>13. BodyInv'
  BY <1>2, <1>4, <1>5, <1>6, <1>7 DEF IInv, BodyInv
<1>14. PassInv'
  <2> SUFFICES ASSUME NEW u \in Threads, calm'[u]
               PROVE  /\ ~strayed'[u]
                      /\ pc'[u] \in {"look", "thresholds", "reading", "sleep"} =>
                           Progress(u)'
    BY DEF PassInv
  <2>1. CASE u # t
    BY <1>2, <1>5, <1>6, <1>7, <1>10, <2>1, PassLeftAlone DEF IInv
  <2>2. CASE u = t
    <3>1. calm[t] /\ Progress(t)
      BY <1>2, <2>2 DEF IInv, PassInv
    <3>2. /\ ~Strays(t) /\ RecordsAt(i[t]) = {own[t][i[t] + 1]}
          /\ i[t] < Len(own[t]) /\ own[t] \in Repositories \cup {<<>>}
      BY <1>2, <3>1, CalmRecord DEF IInv
    <3>3. record = own[t][i[t] + 1]
      BY <1>1, <3>2
    <3>4. AskedAhead(t) = {}
      BY <1>2 DEF AskedAhead
    <3>5. CASE IsSensor(record)
      <4>1. AskedAhead(t)' = {}
        BY <1>5, <1>6, <3>5 DEF AskedAhead
      <4>2. Progress(t)'
        BY <1>2, <1>5, <1>6, <1>7, <3>1, <3>3, <3>4, <3>5, <4>1 DEF Progress
      <4> QED
        BY <1>10, <2>2, <3>2, <4>2
    <3>6. CASE ~IsSensor(record)
      <4>1. AskedAhead(t)' = {}
        BY <1>5, <3>6 DEF AskedAhead
      <4>2. /\ Found(own[t], i[t] + 1) = Found(own[t], i[t])
            /\ FoundWithThresholds(own[t], i[t] + 1) = FoundWithThresholds(own[t], i[t])
        <5>1. own[t] \in Repositories \cup {<<>>} /\ i[t] \in Nat /\ i[t] < Len(own[t])
          BY <1>3, <3>2
        <5>2. ~IsSensor(own[t][i[t] + 1])
          BY <3>3, <3>6
        <5> DEFINE r == own[t]
                   n == i[t]
        <5>3. ~IsSensor(r[n + 1]) /\ r \in Repositories \cup {<<>>} /\ n \in Nat
              /\ n < Len(r)
          BY <5>1, <5>2
        <5> HIDE DEF r, n
        <5>4. Found(r, n + 1) = Found(r, n) \cup
                (IF IsSensor(r[n + 1]) THEN {r[n + 1].sensor} ELSE {})
          BY <5>3, OneMore
        <5>5. FoundWithThresholds(r, n + 1) = FoundWithThresholds(r, n) \cup
                (IF IsSensor(r[n + 1]) /\ r[n + 1].way = "threshold"
                   THEN {r[n + 1].sensor} ELSE {})
          BY <5>3, OneMore
        <5> QED
          BY <5>3, <5>4, <5>5 DEF r, n
      <4>3. Progress(t)'
        BY <1>2, <1>5, <1>7, <3>1, <3>4, <3>6, <4>1, <4>2 DEF Progress
      <4> QED
        BY <1>10, <2>2, <3>2, <4>3
    <3> QED
      BY <3>5, <3>6
  <2> QED
    BY <2>1, <2>2
<1>15. TypeOK'
  BY <1>5, <1>8, <1>9, <1>11, TypePartsNext
<1> QED
  BY <1>12, <1>13, <1>14, <1>15 DEF IInv
LEMMA ThresholdsStep ==
  ASSUME IInv, NEW t \in Threads, get_thresholds_only(t)
  PROVE  IInv'
<1>0. MainOK /\ PlaceOK /\ RepoOK /\ WalkOK /\ GhostOK
  BY TypeParts DEF IInv
<1>1. PICK record \in RecordsAt(i[t]) :
        limits' = IF record.way = "threshold"
                    THEN [limits EXCEPT ![t] = @ \cup {sdr_record[t].sensor}]
                    ELSE limits
  BY DEF get_thresholds_only
<1>2. /\ Step(t, "thresholds", "reading")
      /\ strayed' = [strayed EXCEPT ![t] = Strays(t)]
      /\ UNCHANGED <<created, thread_index, repo, index, i, sdr_cnt, sdr_record,
                     own, calm, read>>
  BY DEF get_thresholds_only
<1>3. /\ PlaceOK' /\ pc[t] = "thresholds" /\ pc'[t] = "reading"
      /\ \A u \in Threads : u # t => pc'[u] = pc[u]
  BY <1>0, <1>2, StepPlace DEF Places
<1>4. sdr_record[t] \in Records /\ i[t] < sdr_cnt[t] /\ sdr_record[t].sensor \in SensorIds
  BY <1>3 DEF IInv, BodyInv, Records
<1>5. MainOK' /\ RepoOK' /\ WalkOK'
  BY <1>0, <1>2 DEF MainOK, RepoOK, WalkOK
<1>6. /\ strayed'[t] = Strays(t) /\ Strays(t) \in BOOLEAN
      /\ \A u \in Threads : u # t => strayed'[u] = strayed[u]
  BY <1>0, <1>2 DEF GhostOK, Strays
<1>7. /\ limits' \in [Threads -> SUBSET SensorIds]
      /\ record.way = "threshold" => limits'[t] = limits[t] \cup {sdr_record[t].sensor}
      /\ \A u \in Threads : u # t => limits'[u] = limits[u]
  BY <1>0, <1>1, <1>4 DEF GhostOK
<1>8. GhostOK'
  BY <1>0, <1>2, <1>6, <1>7 DEF GhostOK
<1>9. IndexInv'
  BY <1>2, <1>3, NumbersKept DEF IInv
<1>10. BodyInv'
  BY <1>2, <1>3, <1>4 DEF IInv, BodyInv
<1>11. PassInv'
  <2> SUFFICES ASSUME NEW u \in Threads, calm'[u]
               PROVE  /\ ~strayed'[u]
                      /\ pc'[u] \in {"look", "thresholds", "reading", "sleep"} =>
                           Progress(u)'
    BY DEF PassInv
  <2>1. CASE u # t
    BY <1>2, <1>3, <1>6, <1>7, <2>1, PassLeftAlone DEF IInv
  <2>2. CASE u = t
    <3>1. calm[t] /\ Progress(t)
      BY <1>2, <1>3, <2>2 DEF IInv, PassInv
    <3>2. ~Strays(t) /\ RecordsAt(i[t]) = {own[t][i[t] + 1]}
      BY <1>3, <1>4, <3>1, CalmRecord DEF IInv
    <3>3. /\ sdr_record[t] = own[t][i[t] + 1] /\ sdr_record[t].way = "threshold"
          /\ IsSensor(sdr_record[t])
      BY <1>3, <3>1 DEF Progress
    <3>4. record.way = "threshold"
      BY <1>1, <3>2, <3>3
    <3>5. AskedAhead(t) = {} /\ AskedAhead(t)' = {sdr_record[t].sensor}
      BY <1>2, <1>3, <3>3 DEF AskedAhead
    <3>6. Progress(t)'
      BY <1>2, <1>3, <1>7, <3>1, <3>3, <3>4, <3>5 DEF Progress
    <3> QED
      BY <1>6, <2>2, <3>2, <3>6
  <2> QED
    BY <2>1, <2>2
<1>12. TypeOK'
  BY <1>3, <1>5, <1>8, TypePartsNext
<1> QED
  BY <1>9, <1>10, <1>11, <1>12 DEF IInv

LEMMA ReadingStep ==
  ASSUME IInv, NEW t \in Threads, mci_get_raw_reading(t)
  PROVE  IInv'
<1>0. MainOK /\ PlaceOK /\ RepoOK /\ WalkOK /\ GhostOK
  BY TypeParts DEF IInv
<1>1. /\ Step(t, "reading", "look")
      /\ read' = [read EXCEPT ![t] = @ \cup {sdr_record[t].sensor}]
      /\ i' = [i EXCEPT ![t] = i[t] + 1]
      /\ sdr_record' = [sdr_record EXCEPT ![t] = NoRecord]
      /\ UNCHANGED <<created, thread_index, repo, index, sdr_cnt, own, calm,
                     strayed, limits>>
  BY DEF mci_get_raw_reading, NextIndex
<1>2. /\ PlaceOK' /\ pc[t] = "reading" /\ pc'[t] = "look"
      /\ \A u \in Threads : u # t => pc'[u] = pc[u]
  BY <1>0, <1>1, StepPlace DEF Places
<1>3. sdr_record[t] \in Records /\ i[t] < sdr_cnt[t] /\ sdr_record[t].sensor \in SensorIds
  BY <1>2 DEF IInv, BodyInv, Records
<1>4. i[t] \in Nat /\ sdr_cnt[t] \in Nat \cup {-1} /\ i[t] + 1 <= sdr_cnt[t]
  BY <1>0, <1>3 DEF WalkOK
<1>5. /\ i' \in [Threads -> Nat] /\ i'[t] = i[t] + 1
      /\ \A u \in Threads : u # t => i'[u] = i[u]
  BY <1>0, <1>1, <1>4 DEF WalkOK
<1>6. /\ sdr_record' \in [Threads -> Records \cup {NoRecord}]
      /\ \A u \in Threads : u # t => sdr_record'[u] = sdr_record[u]
  BY <1>0, <1>1 DEF WalkOK
<1>7. WalkOK'
  BY <1>0, <1>1, <1>4, <1>5, <1>6 DEF WalkOK
<1>8. MainOK' /\ RepoOK'
  BY <1>0, <1>1 DEF MainOK, RepoOK
<1>9. /\ read' \in [Threads -> SUBSET SensorIds]
      /\ read'[t] = read[t] \cup {sdr_record[t].sensor}
      /\ \A u \in Threads : u # t => read'[u] = read[u]
  BY <1>0, <1>1, <1>3 DEF GhostOK
<1>10. GhostOK'
  BY <1>0, <1>1, <1>9 DEF GhostOK
<1>11. IndexInv'
  BY <1>1, <1>2, NumbersKept DEF IInv
<1>12. BodyInv'
  BY <1>1, <1>2, <1>5, <1>6 DEF IInv, BodyInv
<1>13. PassInv'
  <2> SUFFICES ASSUME NEW u \in Threads, calm'[u]
               PROVE  /\ ~strayed'[u]
                      /\ pc'[u] \in {"look", "thresholds", "reading", "sleep"} =>
                           Progress(u)'
    BY DEF PassInv
  <2>1. CASE u # t
    BY <1>1, <1>2, <1>5, <1>6, <1>9, <2>1, PassLeftAlone DEF IInv
  <2>2. CASE u = t
    <3> DEFINE r == own[t]
               n == i[t]
    <3>1. calm[t] /\ ~strayed[t] /\ Progress(t)
      BY <1>1, <1>2, <2>2 DEF IInv, PassInv
    <3>2. r \in Repositories \cup {<<>>} /\ n \in Nat
      BY <1>0, <1>4 DEF GhostOK
    <3>3. Len(r) = sdr_cnt[t]
      <4>1. sdr_cnt[t] > 0
        BY <1>4
      <4> QED
        BY <3>1, <4>1 DEF Progress
    <3>4. n < Len(r)
      BY <1>3, <3>3
    <3>5. sdr_record[t] = r[n + 1] /\ IsSensor(r[n + 1])
      BY <1>2, <3>1 DEF Progress
    <3>6. Found(r, n + 1) = Found(r, n) \cup {sdr_record[t].sensor}
      <4> HIDE DEF r, n
      <4>1. Found(r, n + 1) = Found(r, n) \cup
              (IF IsSensor(r[n + 1]) THEN {r[n + 1].sensor} ELSE {})
        BY <3>2, <3>4, OneMore
      <4> QED
        BY <3>5, <4>1
    <3>7. FoundWithThresholds(r, n + 1) = FoundWithThresholds(r, n) \cup AskedAhead(t)
      <4> HIDE DEF r, n
      <4>1. FoundWithThresholds(r, n + 1) = FoundWithThresholds(r, n) \cup
              (IF IsSensor(r[n + 1]) /\ r[n + 1].way = "threshold"
                 THEN {r[n + 1].sensor} ELSE {})
        BY <3>2, <3>4, OneMore
      <4> QED
        BY <1>2, <3>5, <4>1 DEF AskedAhead
    <3>8. AskedAhead(t)' = {}
      BY <1>2 DEF AskedAhead
    <3>9. Progress(t)'
      BY <1>1, <1>2, <1>5, <1>9, <3>1, <3>6, <3>7, <3>8 DEF Progress
    <3> QED
      BY <1>1, <2>2, <3>1, <3>9
  <2> QED
    BY <2>1, <2>2
<1>14. TypeOK'
  BY <1>2, <1>7, <1>8, <1>10, TypePartsNext
<1> QED
  BY <1>11, <1>12, <1>13, <1>14 DEF IInv

LEMMA StutterStep ==
  ASSUME IInv, UNCHANGED vars
  PROVE  IInv'
<1>0. MainOK /\ PlaceOK /\ RepoOK /\ WalkOK /\ GhostOK
  BY TypeParts DEF IInv
<1>1. UNCHANGED <<created, thread_index, repo, pc, index, i, sdr_cnt, sdr_record,
                  own, calm, strayed, read, limits>>
  BY DEF vars, locals, ghosts
<1>2. MainOK' /\ PlaceOK' /\ RepoOK' /\ WalkOK' /\ GhostOK'
  BY <1>0, <1>1 DEF MainOK, PlaceOK, RepoOK, WalkOK, GhostOK
<1>3. IndexInv' /\ BodyInv'
  BY <1>1 DEF IInv, IndexInv, BodyInv
<1>4. PassInv'
  <2> SUFFICES ASSUME NEW u \in Threads, calm'[u]
               PROVE  /\ ~strayed'[u]
                      /\ pc'[u] \in {"look", "thresholds", "reading", "sleep"} =>
                           Progress(u)'
    BY DEF PassInv
  <2> QED
    BY <1>1, PassLeftAlone DEF IInv
<1> QED
  BY <1>2, <1>3, <1>4, TypePartsNext DEF IInv

-----------------------------------------------------------------------------
(***************************************************************************)
(* The theorems.                                                           *)
(***************************************************************************)

\* IInv holds in every reachable state, for any threads and repositories.
THEOREM Invariant == Spec => []IInv
<1>1. Init => IInv
  BY InitIInv
<1>2. IInv /\ [Next]_vars => IInv'
  <2> SUFFICES ASSUME IInv, [Next]_vars PROVE IInv'
    OBVIOUS
  <2>1. CASE thread_init
    BY <2>1, CreateStep
  <2>2. CASE \E t \in Threads : ThreadStep(t)
    <3>1. PICK t \in Threads : ThreadStep(t)
      BY <2>2
    <3> QED
      BY <3>1, StartStep, RefreshStep, LookStep, ThresholdsStep, ReadingStep,
         EndStep, WakeStep DEF ThreadStep
  <2>3. CASE UNCHANGED vars
    BY <2>3, StutterStep
  <2> QED
    BY <2>1, <2>2, <2>3 DEF Next
<1> QED
  BY <1>1, <1>2, PTL DEF Spec

\* Type correctness; no walk leaves the count of its own refresh.
THEOREM TypeCorrect == Spec => []TypeOK
<1>1. IInv => TypeOK
  BY DEF IInv
<1> QED
  BY <1>1, Invariant, PTL

\* However late a thread starts, it reads its own number (mci_test.c:273, 293).
THEOREM NumbersOwn == Spec => []OwnIndex
<1>1. IInv => OwnIndex
  BY DEF IInv, IndexInv, OwnIndex
<1> QED
  BY <1>1, Invariant, PTL

\* A pass that no other thread's refresh disturbs asks for exactly the sensors
\* of its repository and reads nothing behind it (mci_test.c:142-268).
THEOREM PassesExact == Spec => []CalmPass
<1>1. IInv => CalmPass
  <2> SUFFICES ASSUME IInv, NEW t \in Threads, calm[t]
               PROVE  /\ ~strayed[t]
                      /\ pc[t] = "sleep" => /\ read[t] = Sensors(own[t])
                                            /\ limits[t] = WithThresholds(own[t])
    BY DEF CalmPass
  <2>1. ~strayed[t]
    BY DEF IInv, PassInv
  <2>2. ASSUME pc[t] = "sleep"
        PROVE  read[t] = Sensors(own[t]) /\ limits[t] = WithThresholds(own[t])
    <3>1. Progress(t)
      BY <2>2 DEF IInv, PassInv
    <3>2. i[t] \in Nat /\ sdr_cnt[t] \in Nat \cup {-1} /\ own[t] \in Repositories \cup {<<>>}
      BY DEF IInv, TypeOK
    <3>3. i[t] >= sdr_cnt[t] /\ Len(own[t]) = IF sdr_cnt[t] > 0 THEN sdr_cnt[t] ELSE 0
      BY <2>2, <3>1 DEF Progress
    <3>4. i[t] >= Len(own[t])
      BY <3>2, <3>3
    <3>5. /\ Found(own[t], i[t]) = Sensors(own[t])
          /\ FoundWithThresholds(own[t], i[t]) = WithThresholds(own[t])
      BY <3>2, <3>4, AllFound
    <3>6. AskedAhead(t) = {}
      BY <2>2 DEF AskedAhead
    <3> QED
      BY <3>1, <3>5, <3>6 DEF Progress
  <2> QED
    BY <2>1, <2>2
<1> QED
  BY <1>1, Invariant, PTL

-----------------------------------------------------------------------------
(***************************************************************************)
(* Every walk comes to its end.                                            *)
(***************************************************************************)

Walking == {"look", "thresholds", "reading"}

\* No thread runs before main has come to it.
FreshInv == \A t \in Threads : t >= created => pc[t] = "none"

\* At first main has come to none of them.
LEMMA FreshInit == Init => FreshInv
BY DEF Init, FreshInv

\* main goes up by one, and a thread that has not been started takes no step.
LEMMA FreshStep == IInv /\ FreshInv /\ [Next]_vars => FreshInv'
<1> SUFFICES ASSUME IInv, FreshInv, [Next]_vars, NEW u \in Threads, u >= created'
             PROVE  pc'[u] = "none"
  BY DEF FreshInv
<1>0. MainOK /\ PlaceOK /\ u \in Int /\ created \in Int
  BY TypeParts, ThreadAssumption DEF IInv, Threads, MainOK
<1>1. CASE thread_init
  <2>1. created' = created + 1 /\ u >= created /\ u # created
    BY <1>0, <1>1 DEF thread_init
  <2> QED
    BY <1>0, <1>1, <2>1 DEF thread_init, FreshInv, PlaceOK
<1>2. CASE \E t \in Threads : ThreadStep(t)
  <2>1. PICK t \in Threads : ThreadStep(t)
    BY <1>2
  <2>2. created' = created /\ pc[t] # "none"
    BY <2>1 DEF ThreadStep, thread_proc, mci_update_sdr_cache, LookAt, get_thresholds_only,
                mci_get_raw_reading, EndPass, Wake, Step
  <2>3. pc[u] = "none" /\ u # t
    BY <2>2 DEF FreshInv
  <2>4. pc'[u] = pc[u]
    BY <1>0, <2>1, <2>3
       DEF ThreadStep, thread_proc, mci_update_sdr_cache, LookAt, get_thresholds_only,
           mci_get_raw_reading, EndPass, Wake, Step, PlaceOK
  <2> QED
    BY <2>3, <2>4
<1>3. CASE UNCHANGED vars
  BY <1>3 DEF vars, locals, FreshInv
<1> QED
  BY <1>1, <1>2, <1>3 DEF Next

\* Starting a thread moves nobody's walk.
LEMMA WalkOfStarted ==
  ASSUME IInv, FreshInv, thread_init, NEW t \in Threads, pc[t] \in Walking
  PROVE  UNCHANGED <<pc[t], i[t], sdr_cnt[t]>>
<1>1. PlaceOK /\ created \in Threads /\ created \in Int
  BY TypeParts, ThreadAssumption DEF IInv, thread_init, Threads
<1>2. t # created
  BY <1>1 DEF FreshInv, Walking
<1>3. pc'[t] = pc[t]
  BY <1>1, <1>2 DEF thread_init, PlaceOK
<1> QED
  BY <1>3 DEF thread_init

\* Another thread's step moves it neither, whatever repository it installs.
LEMMA WalkOfOthers ==
  ASSUME IInv, NEW u \in Threads, ThreadStep(u), NEW t \in Threads, t # u
  PROVE  UNCHANGED <<pc[t], i[t], sdr_cnt[t]>>
<1>0. PlaceOK /\ WalkOK
  BY TypeParts DEF IInv
<1>1. pc'[t] = pc[t]
  BY <1>0 DEF ThreadStep, thread_proc, mci_update_sdr_cache, LookAt, get_thresholds_only,
              mci_get_raw_reading, EndPass, Wake, Step, PlaceOK
<1>2. i'[t] = i[t]
  BY <1>0 DEF ThreadStep, thread_proc, mci_update_sdr_cache, LookAt, get_thresholds_only,
              mci_get_raw_reading, EndPass, Wake, WalkOK
<1>3. sdr_cnt'[t] = sdr_cnt[t]
  BY <1>0 DEF ThreadStep, thread_proc, mci_update_sdr_cache, LookAt, get_thresholds_only,
              mci_get_raw_reading, EndPass, Wake, WalkOK
<1> QED
  BY <1>1, <1>2, <1>3

\* The thread's own step brings the end nearer.  Inside the body there is a
\* record below the count, so that going back to the head is a step forward.
LEMMA WalkOfItsOwn ==
  ASSUME IInv, NEW t \in Threads, ThreadStep(t), pc[t] \in Walking
  PROVE  StepsLeft(t)' \in 0..StepsLeft(t) - 1
<1>0. /\ PlaceOK /\ WalkOK
      /\ i[t] \in Nat /\ sdr_cnt[t] \in Int
  BY TypeParts DEF IInv, WalkOK
<1>1. CASE LookAt(t)
  <2>1. pc[t] = "look" /\ i[t] < sdr_cnt[t] /\ sdr_cnt' = sdr_cnt
    BY <1>1 DEF LookAt, More
  <2>2. \/ pc'[t] \in {"thresholds", "reading"} /\ i'[t] = i[t]
        \/ pc'[t] = "look" /\ i'[t] = i[t] + 1
    BY <1>0, <1>1, <2>1 DEF LookAt, NextIndex, PlaceOK, WalkOK
  <2>3. StepsLeft(t) = 3 * (sdr_cnt[t] - i[t]) + 1
    BY <1>0, <2>1 DEF StepsLeft
  <2>4. CASE pc'[t] = "thresholds" /\ i'[t] = i[t]
    <3>1. StepsLeft(t)' = 3 * (sdr_cnt[t] - i[t])
      BY <1>0, <2>1, <2>4 DEF StepsLeft
    <3> QED
      BY <1>0, <2>1, <2>3, <3>1
  <2>5. CASE pc'[t] = "reading" /\ i'[t] = i[t]
    <3>1. StepsLeft(t)' = 3 * (sdr_cnt[t] - i[t]) - 1
      BY <1>0, <2>1, <2>5 DEF StepsLeft
    <3> QED
      BY <1>0, <2>1, <2>3, <3>1
  <2>6. CASE pc'[t] = "look" /\ i'[t] = i[t] + 1
    <3>1. StepsLeft(t)' = 3 * (sdr_cnt[t] - (i[t] + 1)) + 1
      BY <1>0, <2>1, <2>6 DEF StepsLeft
    <3> QED
      BY <1>0, <2>1, <2>3, <3>1
  <2> QED
    BY <2>2, <2>4, <2>5, <2>6
<1>2. CASE get_thresholds_only(t)
  <2>1. /\ pc[t] = "thresholds" /\ pc'[t] = "reading"
        /\ i' = i /\ sdr_cnt' = sdr_cnt
    BY <1>0, <1>2 DEF get_thresholds_only, Step, PlaceOK
  <2>2. i[t] < sdr_cnt[t]
    BY <2>1 DEF IInv, BodyInv
  <2>3. StepsLeft(t) = 3 * (sdr_cnt[t] - i[t]) /\ StepsLeft(t)' = StepsLeft(t) - 1
    BY <1>0, <2>1, <2>2 DEF StepsLeft
  <2> QED
    BY <1>0, <2>2, <2>3
<1>3. CASE mci_get_raw_reading(t)
  <2>1. /\ pc[t] = "reading" /\ pc'[t] = "look"
        /\ i'[t] = i[t] + 1 /\ sdr_cnt' = sdr_cnt
    BY <1>0, <1>3 DEF mci_get_raw_reading, NextIndex, Step, PlaceOK, WalkOK
  <2>2. i[t] < sdr_cnt[t]
    BY <2>1 DEF IInv, BodyInv
  <2>3. StepsLeft(t) = 3 * (sdr_cnt[t] - i[t]) - 1
    BY <1>0, <2>1, <2>2 DEF StepsLeft
  <2>4. StepsLeft(t)' = 3 * (sdr_cnt[t] - (i[t] + 1)) + 1
    BY <1>0, <2>1, <2>2 DEF StepsLeft
  <2> QED
    BY <1>0, <2>2, <2>3, <2>4
<1>4. CASE EndPass(t)
  <2>1. /\ pc[t] = "look" /\ pc'[t] = "sleep"
        /\ ~(i[t] < sdr_cnt[t])
    BY <1>0, <1>4 DEF EndPass, More, Step, PlaceOK
  <2>2. StepsLeft(t) = 1 /\ StepsLeft(t)' = 0
    BY <2>1 DEF StepsLeft
  <2> QED
    BY <2>2
<1>5. CASE thread_proc(t) \/ mci_update_sdr_cache(t) \/ Wake(t)
  BY <1>5 DEF thread_proc, mci_update_sdr_cache, Wake, Step, Walking
<1> QED
  BY <1>1, <1>2, <1>3, <1>4, <1>5 DEF ThreadStep

\* A walk is as long as its own refresh said (mci_test.c:142-268): repositories
\* other threads install meanwhile, longer ones too, do not prolong it, and
\* none of its steps leaves it where it was.
THEOREM WalksAreBounded == Spec => WalksEnd
<1> DEFINE Nearer(t) == \/ UNCHANGED <<pc[t], i[t], sdr_cnt[t]>>
                        \/ StepsLeft(t)' \in 0..StepsLeft(t) - 1
<1>1. Init => FreshInv
  BY FreshInit
<1>2. IInv /\ FreshInv /\ [Next]_vars => FreshInv'
  BY FreshStep
<1>3. IInv /\ FreshInv /\ [Next]_vars =>
        [\A t \in Threads : pc[t] \in {"look", "thresholds", "reading"} =>
            \/ UNCHANGED <<pc[t], i[t], sdr_cnt[t]>>
            \/ StepsLeft(t)' \in 0..StepsLeft(t) - 1]_vars
  <2> SUFFICES ASSUME IInv, FreshInv, Next, NEW t \in Threads, pc[t] \in Walking
               PROVE  Nearer(t)
    BY DEF Walking
  <2>1. CASE thread_init
    BY <2>1, WalkOfStarted
  <2>2. ASSUME NEW u \in Threads, ThreadStep(u)
        PROVE  Nearer(t)
    <3>1. CASE u = t
      BY <2>2, <3>1, WalkOfItsOwn
    <3>2. CASE u # t
      BY <2>2, <3>2, WalkOfOthers
    <3> QED
      BY <3>1, <3>2
  <2> QED
    BY <2>1, <2>2 DEF Next
<1> QED
  BY <1>1, <1>2, <1>3, Invariant, PTL DEF Spec, WalksEnd
=============================================================================
