------------------------------ MODULE Node_proofs ------------------------------
(***************************************************************************)
(* Theorems about a node, for any number of collections, executions, slots,*)
(* callers, backends' answers, rows and page limits: its worker process, the*)
(* model that its components share, and the delivery of a result.          *)
(***************************************************************************)
EXTENDS MCNode, Sorting_proofs

(***************************************************************************)
(* The worker process (WorkerProcess).                                     *)
(***************************************************************************)
WorkerSpec == WorkerInit /\ [][WorkerNext]_workerVars

(***************************************************************************)
(* The invariant.  The claim loop runs only in a worker that is up; what   *)
(* is left of its round is what the executions that _active names leave of *)
(* the concurrency; an execution that goes on has a collection and, unless *)
(* it was replaced, is the one that _active names for it.                  *)
(***************************************************************************)
Named(runs, names) ==
    \A r \in Run : runs[r].at \in {"working", "releasing"} =>
        runs[r].job \in Job /\ (~runs[r].replaced => names[runs[r].job] = r)

LifeInv ==
    /\ loop \in {"gate", "claim", "idle", "gather"} => life = "up"
    /\ (\E r \in Run : Live(r)) => life \in {"up", "stopped"}
    /\ (\E r \in Run : Unreplaced(r)) => life = "up"

RoomInv ==
    /\ IsFiniteSet(Busy)
    /\ Cardinality(Busy) <= Concurrency
    /\ loop = "claim" => room + Cardinality(Busy) <= Concurrency

WorkerInv == WorkerTypeOK /\ Named(run, active) /\ LifeInv /\ RoomInv

(***************************************************************************)
(* The executions that go on are no more than the names in _active.        *)
(***************************************************************************)
\* Two of them have two collections, since _active names one for each.
LEMMA InvCoversRuns == WorkerInv => ActiveCoversRuns
<1> SUFFICES ASSUME WorkerInv PROVE ActiveCoversRuns
  OBVIOUS
<1>1. \A r \in Run : Unreplaced(r) => life = "up" /\ run[r].job \in Job /\ active[run[r].job] = r
  BY DEF WorkerInv, LifeInv, Named, Unreplaced, Live
<1> DEFINE R == {r \in Run : Unreplaced(r)}
           f == [r \in R |-> run[r].job]
<1>2. f \in [R -> Busy]
  BY <1>1, WorkerAssumption DEF Busy, WorkerAssumption
<1>3. \A r, q \in R : f[r] = f[q] => r = q
  BY <1>1
<1>4. f \in Injection(R, Busy)
  BY <1>2, <1>3 DEF Injection, IsInjective
<1>5. IsFiniteSet(Busy) /\ Cardinality(Busy) <= Concurrency
  BY DEF WorkerInv, RoomInv
<1>6. Cardinality(R) <= Cardinality(Busy) /\ IsFiniteSet(R)
  BY <1>4, <1>5, FS_Injection
<1>7. Cardinality(R) \in Nat /\ Cardinality(Busy) \in Nat /\ Concurrency \in Nat
  BY <1>5, <1>6, FS_CardinalityType, WorkerAssumption DEF WorkerAssumption
<1>8. Cardinality(R) <= Concurrency
  BY <1>5, <1>6, <1>7
<1> QED
  BY <1>1, <1>8 DEF ActiveCoversRuns

(***************************************************************************)
(* Parts of the steps.                                                     *)
(***************************************************************************)
\* A round may have no claim left.
LEMMA NoRoom == 0 \in 0 .. Concurrency
BY WorkerAssumption DEF WorkerAssumption

\* A cancelled execution goes on, with its collection, to its release.
LEMMA CancelAllKeepsRuns ==
    ASSUME NEW runs \in [Run -> Runs], NEW names
    PROVE  /\ CancelAll(runs, names) \in [Run -> Runs]
           /\ \A r \in Run : /\ CancelAll(runs, names)[r].job = runs[r].job
                             /\ CancelAll(runs, names)[r].replaced = runs[r].replaced
                             /\ CancelAll(runs, names)[r].at \in {"working", "releasing"}
                                <=> runs[r].at \in {"working", "releasing"}
BY DEF CancelAll, Runs

\* What is said of executions holds as well when some of them end or are cancelled.
LEMMA FewerRuns ==
    ASSUME WorkerInv, UNCHANGED <<life, loop, active>>,
           \A r \in Run : Live(r)' => /\ Live(r) /\ run'[r].job = run[r].job
                                      /\ run'[r].replaced = run[r].replaced
    PROVE  Named(run', active') /\ LifeInv'
BY DEF WorkerInv, Named, LifeInv, Live, Unreplaced

\* The round of the loop has as many claims left as _active leaves.
LEMMA RoomIsFree ==
    ASSUME WorkerInv
    PROVE  Room(active) \in 0 .. Concurrency /\ Room(active) + Cardinality(Busy) <= Concurrency
<1>1. Cardinality(Busy) \in Nat /\ Concurrency \in Nat /\ Cardinality(Busy) <= Concurrency
  BY FS_CardinalityType, WorkerAssumption DEF WorkerInv, RoomInv, WorkerAssumption
<1>2. Room(active) = Concurrency - Cardinality(Busy)
  BY DEF Room, Busy
<1> QED
  BY <1>1, <1>2

(***************************************************************************)
(* The steps.                                                              *)
(***************************************************************************)
LEMMA WorkerInitInv == WorkerInit => WorkerInv
<1> SUFFICES ASSUME WorkerInit PROVE WorkerInv
  OBVIOUS
<1>1. WorkerTypeOK
  BY NoRoom DEF WorkerInit, WorkerTypeOK, NotRun, Runs
<1>2. \A r \in Run : ~Live(r)
  BY DEF WorkerInit, Live, NotRun
<1>3. Named(run, active) /\ LifeInv
  BY <1>2 DEF WorkerInit, Named, LifeInv, Live, Unreplaced
<1>4. Busy = {}
  BY DEF WorkerInit, Busy
<1>5. RoomInv
  BY <1>4, FS_EmptySet, WorkerAssumption DEF WorkerInit, RoomInv, WorkerAssumption
<1> QED
  BY <1>1, <1>3, <1>5 DEF WorkerInv

\* The head of the loop: it forgets executions that ended, or begins to stop.
LEMMA TurnKeepsInv == WorkerInv /\ Turn => WorkerInv'
<1> SUFFICES ASSUME WorkerInv, Turn PROVE WorkerInv'
  OBVIOUS
<1>1. CASE stop
  <2>1. /\ run' = CancelAll(run, active) /\ loop' = "gather" /\ life = "up" /\ stop' = TRUE
        /\ UNCHANGED <<active, room, claimed, life, leased, registered, heart>>
    BY <1>1 DEF Turn, EnterStop
  <2>2. /\ run' \in [Run -> Runs]
        /\ \A r \in Run : /\ run'[r].job = run[r].job /\ run'[r].replaced = run[r].replaced
                          /\ run'[r].at \in {"working", "releasing"}
                             <=> run[r].at \in {"working", "releasing"}
    BY <2>1, CancelAllKeepsRuns DEF WorkerInv, WorkerTypeOK
  <2>3. WorkerTypeOK' BY <2>1, <2>2 DEF WorkerInv, WorkerTypeOK
  <2>4. Named(run', active') BY <2>1, <2>2 DEF WorkerInv, Named
  <2>5. LifeInv' BY <2>1 DEF LifeInv
  <2>6. RoomInv' BY <2>1 DEF WorkerInv, RoomInv, Busy
  <2> QED BY <2>3, <2>4, <2>5, <2>6 DEF WorkerInv
<1>2. CASE ~stop
  <2> DEFINE after == [j \in Job |-> IF active[j] # NoRun /\ Live(active[j])
                                    THEN active[j] ELSE NoRun]
  <2>1. /\ active' = after /\ life = "up"
        /\ \/ loop' = "gate" /\ UNCHANGED room
           \/ loop' = "claim" /\ room' = Room(after)
        /\ UNCHANGED <<stop, run, claimed, life, leased, registered, heart>>
    BY <1>2 DEF Turn
  <2>2. after \in [Job -> Run \cup {NoRun}] BY DEF WorkerInv, WorkerTypeOK
  <2>3. \A r \in Run, j \in Job : active[j] = r /\ Live(r) => after[j] = r
    BY WorkerAssumption DEF WorkerAssumption
  <2>4. Named(run', active') BY <2>1, <2>3 DEF WorkerInv, Named, Live
  <2>5. LifeInv' BY <2>1 DEF LifeInv
  <2>6. Busy' \in SUBSET Busy BY <2>1, <2>2 DEF Busy
  <2>7. /\ IsFiniteSet(Busy') /\ Cardinality(Busy') <= Cardinality(Busy)
        /\ Cardinality(Busy') \in Nat /\ Cardinality(Busy) \in Nat /\ Concurrency \in Nat
        /\ Cardinality(Busy) <= Concurrency
    BY <2>6, FS_Subset, FS_CardinalityType, WorkerAssumption DEF WorkerInv, RoomInv, WorkerAssumption
  <2>8. Room(after) = Concurrency - Cardinality(Busy')
    BY <2>1 DEF Room, Busy
  <2>9. RoomInv' /\ room' \in 0 .. Concurrency
    <3> HIDE DEF after
    <3> QED BY <2>1, <2>7, <2>8 DEF RoomInv, WorkerInv, WorkerTypeOK
  <2>10. WorkerTypeOK' BY <2>1, <2>2, <2>9 DEF WorkerInv, WorkerTypeOK
  <2> QED BY <2>4, <2>5, <2>9, <2>10 DEF WorkerInv
<1> QED
  BY <1>1, <1>2

\* A claim names a new execution and replaces the one its collection had.
LEMMA ClaimKeepsInv ==
    ASSUME WorkerInv, NEW j \in Job, NEW r \in Run, ClaimOne(j, r)
    PROVE  WorkerInv'
<1> DEFINE last == room = 1
           new  == IF last /\ stop THEN NotRun
                   ELSE [job |-> j, at |-> "working", replaced |-> FALSE]
           old  == active[j]
           runs == [q \in Run |-> IF q = r THEN new
                                  ELSE IF q = old /\ Live(q) THEN [run[q] EXCEPT !.replaced = TRUE]
                                  ELSE run[q]]
           names == [active EXCEPT ![j] = r]
<1>1. /\ loop = "claim" /\ room > 0 /\ ~Live(r) /\ leased' = leased \cup {j}
      /\ active' = names /\ claimed' = ~last /\ room' = room - 1
      /\ UNCHANGED <<life, registered, heart>>
  BY DEF ClaimOne
<1>2. \/ loop' = "gather" /\ stop' = TRUE /\ run' = CancelAll(runs, names)
      \/ run' = runs /\ loop' \in {"top", "claim"} /\ UNCHANGED stop
  BY DEF ClaimOne, EnterStop
<1>3. life = "up" BY <1>1 DEF WorkerInv, LifeInv
<1>4. /\ room \in Nat /\ Concurrency \in Nat /\ room <= Concurrency
      /\ room + Cardinality(Busy) <= Concurrency /\ Cardinality(Busy) \in Nat /\ IsFiniteSet(Busy)
  BY <1>1, FS_CardinalityType, WorkerAssumption DEF WorkerInv, WorkerTypeOK, RoomInv, WorkerAssumption
<1>5. names \in [Job -> Run \cup {NoRun}] /\ names[j] = r /\ \A i \in Job \ {j} : names[i] = active[i]
  BY DEF WorkerInv, WorkerTypeOK
<1>6. runs \in [Run -> Runs] BY DEF WorkerInv, WorkerTypeOK, Runs, NotRun
<1>7. Named(runs, names)
  <2> SUFFICES ASSUME NEW q \in Run, runs[q].at \in {"working", "releasing"}
               PROVE  runs[q].job \in Job /\ (~runs[q].replaced => names[runs[q].job] = q)
    BY DEF Named
  <2>1. CASE q = r
    BY <2>1, <1>5 DEF NotRun
  <2>2. CASE q # r /\ q = old /\ Live(q)
    <3>1. runs[q] = [run[q] EXCEPT !.replaced = TRUE] /\ run[q] \in Runs
      BY <2>2 DEF WorkerInv, WorkerTypeOK
    <3>2. runs[q].replaced = TRUE /\ runs[q].job = run[q].job BY <3>1 DEF Runs
    <3> QED BY <2>2, <3>2 DEF WorkerInv, Named, Live
  <2>3. CASE q # r /\ ~(q = old /\ Live(q))
    <3>1. runs[q] = run[q] BY <2>3
    <3>2. Live(q) BY <3>1 DEF Live
    <3>3. run[q].job \in Job /\ (~run[q].replaced => active[run[q].job] = q)
      BY <3>2 DEF WorkerInv, Named, Live
    <3> HIDE DEF runs, names
    <3> QED BY <2>3, <3>1, <3>2, <3>3, <1>5
  <2> QED BY <2>1, <2>2, <2>3
<1> HIDE DEF runs, names
<1>8. Named(run', active') /\ run' \in [Run -> Runs]
  <2>1. CASE run' = runs BY <2>1, <1>1, <1>6, <1>7
  <2>2. CASE run' = CancelAll(runs, names)
    BY <2>2, <1>1, <1>6, <1>7, CancelAllKeepsRuns DEF Named
  <2> QED BY <2>1, <2>2, <1>2
<1>9. LifeInv' BY <1>1, <1>3 DEF LifeInv
<1>10. Busy' = Busy \cup {j}
  BY <1>1, <1>5, WorkerAssumption DEF Busy, WorkerAssumption
<1>11. IsFiniteSet(Busy') /\ Cardinality(Busy') <= Cardinality(Busy) + 1 /\ Cardinality(Busy') \in Nat
  <2>1. /\ IsFiniteSet(Busy \cup {j})
        /\ Cardinality(Busy \cup {j}) = IF j \in Busy THEN Cardinality(Busy) ELSE Cardinality(Busy) + 1
    BY <1>4, FS_AddElement
  <2>2. Cardinality(Busy \cup {j}) <= Cardinality(Busy) + 1 /\ Cardinality(Busy \cup {j}) \in Nat
    <3> DEFINE n == Cardinality(Busy)
               m == Cardinality(Busy \cup {j})
    <3>1. n \in Nat /\ (m = n \/ m = n + 1) BY <1>4, <2>1
    <3> HIDE DEF n, m
    <3>2. m <= n + 1 /\ m \in Nat BY <3>1
    <3> QED BY <3>2 DEF n, m
  <2> QED BY <2>1, <2>2, <1>10
<1>12. room' \in 0 .. Concurrency /\ room' + Cardinality(Busy') <= Concurrency
  <2>1. room' = room - 1 /\ room > 0 BY <1>1
  <2>2. room' \in 0 .. Concurrency BY <2>1, <1>4
  <2>3. room' + Cardinality(Busy') <= Concurrency
    <3> DEFINE n == Cardinality(Busy)
               m == Cardinality(Busy')
    <3>1. n \in Nat /\ m \in Nat /\ m <= n + 1 /\ room + n <= Concurrency
      BY <1>4, <1>11
    <3> HIDE DEF n, m
    <3>2. room' + m <= Concurrency BY <2>1, <3>1, <1>4
    <3> QED BY <3>2 DEF m
  <2> QED BY <2>2, <2>3
<1>13. RoomInv' BY <1>4, <1>11, <1>12 DEF RoomInv
<1>14. active' \in [Job -> Run \cup {NoRun}] /\ claimed' \in BOOLEAN
  BY <1>1, <1>5
<1>15. WorkerTypeOK'
  BY <1>1, <1>2, <1>8, <1>12, <1>14 DEF WorkerInv, WorkerTypeOK
<1> QED
  BY <1>8, <1>9, <1>13, <1>15 DEF WorkerInv

\* The other steps of the loop.
LEMMA LoopKeepsInv == WorkerInv /\ ClaimLoop => WorkerInv'
<1> SUFFICES ASSUME WorkerInv, ClaimLoop PROVE WorkerInv'
  OBVIOUS
<1>1. ASSUME ClaimNone \/ IdleEnds PROVE WorkerInv'
  <2>1. UNCHANGED <<life, active, run>> /\ loop' \in {"top", "idle"} /\ room' \in {0, room}
        /\ loop \in {"claim", "idle"}
    BY <1>1 DEF ClaimNone, IdleEnds
  <2>2. WorkerTypeOK'
    BY <1>1, <2>1, NoRoom DEF ClaimNone, IdleEnds, WorkerInv, WorkerTypeOK
  <2>3. Named(run', active') /\ LifeInv' BY <2>1 DEF WorkerInv, Named, LifeInv, Unreplaced, Live
  <2>4. RoomInv' BY <2>1 DEF WorkerInv, RoomInv, Busy
  <2> QED BY <2>2, <2>3, <2>4 DEF WorkerInv
<1>2. ASSUME ClaimFails PROVE WorkerInv'
  <2>1. /\ run' = CancelAll(run, active) /\ loop' = "gather" /\ room' = 0 /\ claimed' = FALSE /\ stop' = TRUE
        /\ loop = "claim" /\ UNCHANGED <<life, active, leased, registered, heart>>
    BY <1>2 DEF ClaimFails, EnterStop
  <2>2. run' \in [Run -> Runs] /\ Named(run', active')
    BY <2>1, CancelAllKeepsRuns DEF WorkerInv, WorkerTypeOK, Named
  <2>3. WorkerTypeOK'
    BY <2>1, <2>2, NoRoom DEF WorkerInv, WorkerTypeOK
  <2>4. LifeInv' BY <2>1 DEF WorkerInv, LifeInv
  <2>5. RoomInv' BY <2>1 DEF WorkerInv, RoomInv, Busy
  <2> QED BY <2>2, <2>3, <2>4, <2>5 DEF WorkerInv
<1>3. ASSUME NEW ready \in BOOLEAN, PassGate(ready) PROVE WorkerInv'
  <2>1. /\ loop = "gate" /\ UNCHANGED <<life, stop, claimed, active, run, leased, registered, heart>>
        /\ \/ loop' = "claim" /\ room' = Room(active)
           \/ loop' = "idle" /\ UNCHANGED room
    BY <1>3 DEF PassGate
  <2>2. Room(active) \in 0 .. Concurrency /\ Room(active) + Cardinality(Busy) <= Concurrency
    BY RoomIsFree
  <2>3. WorkerTypeOK' BY <2>1, <2>2 DEF WorkerInv, WorkerTypeOK
  <2>4. Named(run', active') /\ LifeInv' BY <2>1 DEF WorkerInv, Named, LifeInv, Unreplaced, Live
  <2>5. Busy' = Busy BY <2>1 DEF Busy
  <2>6. RoomInv' BY <2>1, <2>2, <2>5 DEF WorkerInv, RoomInv
  <2> QED BY <2>3, <2>4, <2>6 DEF WorkerInv
<1> QED
  BY <1>1, <1>2, <1>3, TurnKeepsInv, ClaimKeepsInv DEF ClaimLoop

\* Steps that only touch the registration, the leases and the stop event.
LEMMA ElsewhereKeepsInv ==
    ASSUME WorkerInv, UNCHANGED <<life, loop, room, claimed, active, run>>,
           stop' \in BOOLEAN, leased' \subseteq Job, registered' \in BOOLEAN,
           heart' \in {"off", "sleep", "register"}
    PROVE  WorkerInv'
<1>1. WorkerTypeOK' BY DEF WorkerInv, WorkerTypeOK
<1>2. Named(run', active') /\ LifeInv' BY DEF WorkerInv, Named, LifeInv, Unreplaced, Live
<1>3. RoomInv' BY DEF WorkerInv, RoomInv, Busy
<1> QED BY <1>1, <1>2, <1>3 DEF WorkerInv

LEMMA WorkerNextInv == WorkerInv /\ [WorkerNext]_workerVars => WorkerInv'
<1> SUFFICES ASSUME WorkerInv, [WorkerNext]_workerVars PROVE WorkerInv'
  OBVIOUS
<1>1. ASSUME StartWorker \/ StartFails PROVE WorkerInv'
  <2>1. /\ life = "new" /\ life' \in {"up", "exited"}
        /\ UNCHANGED <<stop, loop, room, claimed, active, run, leased>>
        /\ registered' \in BOOLEAN /\ heart' \in {heart, "sleep"}
    BY <1>1 DEF StartWorker, StartFails
  <2>2. WorkerTypeOK' BY <2>1 DEF WorkerInv, WorkerTypeOK
  <2>3. \A r \in Run : ~Live(r) BY <2>1 DEF WorkerInv, LifeInv
  <2>4. Named(run', active') /\ LifeInv'
    BY <2>1, <2>3 DEF WorkerInv, Named, LifeInv, Live, Unreplaced
  <2>5. RoomInv' BY <2>1 DEF WorkerInv, RoomInv, Busy
  <2> QED BY <2>2, <2>4, <2>5 DEF WorkerInv
<1>2. ASSUME NEW r \in Run, WorkEnds(r) PROVE WorkerInv'
  <2>1. /\ run[r].at = "working" /\ run' = [run EXCEPT ![r].at = "releasing"]
        /\ UNCHANGED <<life, stop, loop, room, claimed, active, leased, registered, heart>>
    BY <1>2 DEF WorkEnds
  <2>2. WorkerTypeOK' BY <2>1 DEF WorkerInv, WorkerTypeOK, Runs
  <2>3. \A q \in Run : Live(q)' => Live(q) /\ run'[q].job = run[q].job /\ run'[q].replaced = run[q].replaced
    BY <2>1 DEF Live, WorkerInv, WorkerTypeOK, Runs
  <2>4. Named(run', active') /\ LifeInv' BY <2>1, <2>3, FewerRuns
  <2>5. RoomInv' BY <2>1 DEF WorkerInv, RoomInv, Busy
  <2> QED BY <2>2, <2>4, <2>5 DEF WorkerInv
<1>3. ASSUME NEW r \in Run, NEW deleted \in BOOLEAN, Release(r, deleted) PROVE WorkerInv'
  <2>1. /\ run' = [run EXCEPT ![r] = NotRun] /\ leased' \subseteq leased
        /\ UNCHANGED <<life, stop, loop, room, claimed, active, registered, heart>>
    BY <1>3 DEF Release
  <2>2. WorkerTypeOK' BY <2>1 DEF WorkerInv, WorkerTypeOK, Runs, NotRun
  <2>3. \A q \in Run : Live(q)' => Live(q) /\ run'[q].job = run[q].job /\ run'[q].replaced = run[q].replaced
    BY <2>1 DEF Live, WorkerInv, WorkerTypeOK, Runs, NotRun
  <2>4. Named(run', active') /\ LifeInv' BY <2>1, <2>3, FewerRuns
  <2>5. RoomInv' BY <2>1 DEF WorkerInv, RoomInv, Busy
  <2> QED BY <2>2, <2>4, <2>5 DEF WorkerInv
<1>4. ASSUME \/ RequestStop \/ RetentionDeletes \/ Beat \/ RegisterAgain \/ RegisterFails
             \/ \E j \in Job : LeaseExpires(j)
      PROVE  WorkerInv'
  <2>1. /\ UNCHANGED <<life, loop, room, claimed, active, run>>
        /\ stop' \in BOOLEAN /\ leased' \subseteq Job /\ registered' \in BOOLEAN
        /\ heart' \in {"off", "sleep", "register"}
    BY <1>4 DEF RequestStop, RetentionDeletes, Beat, RegisterAgain, RegisterFails, LeaseExpires,
                WorkerInv, WorkerTypeOK
  <2> QED BY <2>1, ElsewhereKeepsInv
<1>5. ASSUME StopEnds PROVE WorkerInv'
  <2>1. /\ life = "up" /\ Gathered /\ active' = [j \in Job |-> NoRun] /\ life' = "stopped" /\ loop' = "end"
        /\ heart' = "off" /\ registered' \in BOOLEAN /\ UNCHANGED <<stop, room, claimed, run, leased>>
    BY <1>5 DEF StopEnds, WorkerInv, WorkerTypeOK
  <2>2. WorkerTypeOK' BY <2>1 DEF WorkerInv, WorkerTypeOK
  <2>3. ASSUME NEW r \in Run, Live(r) PROVE run[r].job \in Job /\ run[r].replaced
    <3>1. run[r].job \in Job /\ (~run[r].replaced => active[run[r].job] = r)
      BY <2>3 DEF WorkerInv, Named, Live
    <3>2. ~(active[run[r].job] = r)
      BY <2>1, <2>3, <3>1, WorkerAssumption DEF Gathered, Busy, WorkerAssumption
    <3> QED BY <3>1, <3>2
  <2>4. Named(run', active') /\ LifeInv'
    BY <2>1, <2>3 DEF Named, LifeInv, Live, Unreplaced
  <2>5. Busy' = {} BY <2>1 DEF Busy
  <2>6. RoomInv' BY <2>1, <2>5, FS_EmptySet, WorkerAssumption DEF RoomInv, WorkerAssumption
  <2> QED BY <2>2, <2>4, <2>6 DEF WorkerInv
<1>6. ASSUME Exit PROVE WorkerInv'
  <2>1. /\ life = "stopped" /\ life' = "exited" /\ run' = [r \in Run |-> NotRun]
        /\ UNCHANGED <<stop, loop, room, claimed, active, leased, registered, heart>>
    BY <1>6 DEF Exit
  <2>2. WorkerTypeOK' BY <2>1 DEF WorkerInv, WorkerTypeOK, Runs, NotRun
  <2>3. \A r \in Run : ~Live(r)' BY <2>1 DEF Live, NotRun
  <2>4. Named(run', active') /\ LifeInv'
    BY <2>1, <2>3 DEF WorkerInv, Named, LifeInv, Live, Unreplaced
  <2>5. RoomInv' BY <2>1 DEF WorkerInv, RoomInv, Busy
  <2> QED BY <2>2, <2>4, <2>5 DEF WorkerInv
<1>7. CASE UNCHANGED workerVars
  BY <1>7, ElsewhereKeepsInv DEF workerVars, WorkerInv, WorkerTypeOK
<1> QED
  BY <1>1, <1>2, <1>3, <1>4, <1>5, <1>6, <1>7, LoopKeepsInv DEF WorkerNext

(***************************************************************************)
(* For every worker_concurrency: stop() waits for every execution that     *)
(* still has its collection, and there are never more of them than slots,  *)
(* however leases expire under them (worker.py, run and stop).             *)
(***************************************************************************)
THEOREM StopCoversRuns == WorkerSpec => []ActiveCoversRuns
BY WorkerInitInv, WorkerNextInv, InvCoversRuns, PTL DEF WorkerSpec

(***************************************************************************)
(* The model (LlmGate, AgentFallback).  What the cache has seen is no older *)
(* than the check it came from, and neither is an answer on its way; the   *)
(* counters of the gate are the numbers of components behind it; and where *)
(* a call stands says where its component stands.                          *)
(***************************************************************************)
HealthInv ==
    /\ llm \in BOOLEAN /\ gate \in BOOLEAN
    /\ cache \in Verdicts /\ check \in [Checker -> Checks]
    /\ cache.seen <= cache.since
    /\ \A c \in Checker : check[c].phase = "answered" => check[c].seen <= check[c].since

Waiting == {c \in Component : slot[c] = "waiting"}

\* Who waits is in the queue, once, and nobody else is.
Queued(queue, place) ==
    /\ queue \in Seq(Component)
    /\ \A c \in Component : place[c] = "waiting" <=> \E i \in DOMAIN queue : queue[i] = c
    /\ \A i, j \in DOMAIN queue : queue[i] = queue[j] => i = j

SlotInv ==
    /\ Queued(waiters, slot)
    /\ slot \in [Component -> {"out", "waiting", "inside"}]
    /\ inFlight = Cardinality(Inside) /\ inFlight <= MaxSlots
    /\ waiting = Cardinality(Waiting)

Calls == [at : Step, backend : DOMAIN Backends, html : Html \cup {<<>>},
          holds : {"nothing", "browser", "process"},
          outcome : {"none", "success", "blocked", "failed", "cut"}]

\* A call and the place of its component.
Fits(call, place) ==
    /\ call.at \in {"idle", "check", "slot"} => call.holds = "nothing"
    /\ place = "waiting" <=> call.at = "slot"
    /\ place = "inside" <=> \/ call.at = "work"
                            \/ call.at = "close" /\ Backends[call.backend] = "stagehand"
    /\ call.at = "work" /\ Backends[call.backend] = "stagehand" => call.holds = "browser"
    /\ call.at = "work" /\ call.holds = "process" => Backends[call.backend] = "browser-use"

CallInv ==
    /\ agent \in [Caller -> Calls]
    /\ \A c \in Caller : Fits(agent[c], slot[c])

LeftInv ==
    /\ behind \in [process : Nat, browser : Nat] /\ cuts \in 0 .. MaxCuts
    /\ behind.browser + behind.process <= cuts

ModelInv == HealthInv /\ SlotInv /\ CallInv /\ LeftInv

\* At the start nothing was checked.
LEMMA HealthInitInv == LlmInit => HealthInv
<1> SUFFICES ASSUME LlmInit PROVE HealthInv
  OBVIOUS
<1>1. CacheTime \in Nat
  BY LlmAssumption DEF LlmAssumption
<1>2. NoCheck \in Checks
  BY <1>1 DEF NoCheck, Checks, Age
<1>3. cache \in Verdicts /\ cache.seen <= cache.since
  BY <1>1 DEF LlmInit, Verdicts, Age
<1>4. check \in [Checker -> Checks] /\ \A c \in Checker : check[c].phase # "answered"
  BY <1>2 DEF LlmInit, NoCheck
<1> QED
  BY <1>3, <1>4 DEF HealthInv, LlmInit

\* An age that grows stays an age.
LEMMA OlderIsAge == \A a \in Age : Older(a) \in Age
  BY LlmAssumption DEF LlmAssumption, Age, Older

\* Time makes nothing older than what was older.
LEMMA OlderKeepsOrder == \A a, b \in Age : a <= b => Older(a) <= Older(b)
  BY LlmAssumption DEF LlmAssumption, Age, Older

\* No step of the health checks, and no second that passes, breaks HealthInv.
LEMMA HealthNextInv == HealthInv /\ HealthNext => HealthInv'
<1> SUFFICES ASSUME HealthInv, HealthNext PROVE HealthInv'
  OBVIOUS
<1>0. /\ CacheTime \in Nat /\ 0 \in Age /\ NoCheck \in Checks
      /\ cache \in Verdicts /\ check \in [Checker -> Checks]
      /\ llm \in BOOLEAN /\ gate \in BOOLEAN
  BY LlmAssumption DEF LlmAssumption, HealthInv, NoCheck, Checks, Age
<1>1. ASSUME NEW c \in Checker, CheckCached(c) PROVE HealthInv'
  BY <1>0, <1>1 DEF HealthInv, CheckCached, Use, Verdicts
<1>2. ASSUME NEW c \in Checker, AskModel(c) PROVE HealthInv'
  <2> DEFINE new == [NoCheck EXCEPT !.phase = "asked"]
  <2>1. new \in Checks /\ new.phase # "answered"
    BY <1>0 DEF NoCheck, Checks
  <2> HIDE DEF new
  <2>2. check' = [check EXCEPT ![c] = new]
    BY <1>2 DEF AskModel, new
  <2> QED
    BY <1>0, <1>2, <2>1, <2>2 DEF HealthInv, AskModel
<1>3. ASSUME NEW c \in Checker, ModelAnswers(c) PROVE HealthInv'
  <2> DEFINE verdict == llm
             new == [check[c] EXCEPT !.phase = "answered", !.ready = verdict, !.seen = 0]
  <2>0. check[c] \in Checks /\ verdict \in BOOLEAN
    BY <1>0
  <2> HIDE DEF verdict
  <2>1. new \in Checks /\ new.seen <= new.since
    <3>1. check[c].since \in Age /\ 0 <= check[c].since
      BY <1>0, <2>0 DEF Checks, Age
    <3>2. new \in Checks
      BY <1>0, <2>0 DEF Checks
    <3>3. new.seen = 0 /\ new.since = check[c].since
      BY <2>0 DEF Checks
    <3> QED
      BY <3>1, <3>2, <3>3
  <2> HIDE DEF new
  <2>2. check' = [check EXCEPT ![c] = new]
    BY <1>0, <1>3, <2>0 DEF ModelAnswers, new, verdict, Checks
  <2> QED
    BY ZenonT(30), <1>0, <1>3, <2>1, <2>2 DEF HealthInv, ModelAnswers
<1>4. ASSUME NEW c \in Checker, CheckEnds(c) PROVE HealthInv'
  <2>0. check[c] \in Checks /\ check[c].seen <= check[c].since
    BY <1>0, <1>4 DEF CheckEnds, HealthInv
  <2>1. cache' \in Verdicts /\ cache'.seen <= cache'.since /\ gate' \in BOOLEAN
    BY <1>0, <1>4, <2>0 DEF CheckEnds, Verdicts, Checks, Use
  <2>2. check' \in [Checker -> Checks] /\ check'[c] = NoCheck
        /\ \A d \in Checker \ {c} : check'[d] = check[d]
    BY <1>0, <1>4 DEF CheckEnds
  <2>3. NoCheck.phase # "answered"
    BY DEF NoCheck
  <2> QED
    BY <1>0, <1>4, <2>1, <2>2, <2>3 DEF HealthInv, CheckEnds
<1>5. ASSUME NEW c \in Checker, CheckRaises(c) PROVE HealthInv'
  <2>2. check' \in [Checker -> Checks] /\ check'[c] = NoCheck
        /\ \A d \in Checker \ {c} : check'[d] = check[d]
    BY <1>0, <1>5 DEF CheckRaises
  <2>3. NoCheck.phase # "answered"
    BY DEF NoCheck
  <2> QED
    BY <1>0, <1>5, <2>2, <2>3 DEF HealthInv, CheckRaises, Use
<1>6. CASE ModelTurns
  BY <1>0, <1>6 DEF HealthInv, ModelTurns
<1>7. CASE TimePasses
  <2>1. cache' \in Verdicts /\ cache'.seen <= cache'.since
    BY <1>0, <1>7, OlderIsAge, OlderKeepsOrder DEF TimePasses, HealthInv, Verdicts
  <2>2. ASSUME NEW c \in Checker
        PROVE check'[c] \in Checks /\ (check'[c].phase = "answered" => check'[c].seen <= check'[c].since)
    <3>1. check[c] \in Checks
      BY <1>0
    <3>2. check'[c] = [check[c] EXCEPT
                      !.since = IF check[c].phase = "none" THEN 0 ELSE Older(@),
                      !.seen  = IF check[c].phase = "answered" THEN Older(@) ELSE 0]
      BY <1>7 DEF TimePasses
    <3>3. Older(check[c].since) \in Age /\ Older(check[c].seen) \in Age
      BY <3>1, OlderIsAge DEF Checks
    <3>4. check[c].phase = "answered" => Older(check[c].seen) <= Older(check[c].since)
      BY <3>1, OlderKeepsOrder DEF Checks, HealthInv
    <3> QED
      BY <1>0, <3>1, <3>2, <3>3, <3>4 DEF Checks
  <2>3. check' \in [Checker -> Checks]
    <3>1. \E f : check' = [c \in Checker |-> f[c]]
      <4>1. check' = [c \in Checker |-> check'[c]]
        BY <1>7 DEF TimePasses
      <4> QED
        BY <4>1
    <3> QED
      BY <2>2, <3>1
  <2> QED
    BY <1>0, <1>7, <2>1, <2>2, <2>3 DEF HealthInv, TimePasses
<1> QED
  BY <1>1, <1>2, <1>3, <1>4, <1>5, <1>6, <1>7 DEF HealthNext

\* Who answers from the cache has seen no older model than the cache allows.
LEMMA HealthIsFresh == HealthInv => VerdictIsFresh
  BY LlmAssumption DEF HealthInv, VerdictIsFresh, CacheHolds, Verdicts, Age, LlmAssumption

\* At the start nobody is at the gate.
LEMMA NobodyInside == LlmInit => SlotInv
<1> SUFFICES ASSUME LlmInit PROVE SlotInv
  OBVIOUS
<1>1. slot = [c \in Component |-> "out"] /\ inFlight = 0 /\ waiting = 0
  BY DEF LlmInit
<1>2. Inside = {} /\ Waiting = {}
  BY <1>1 DEF Inside, Waiting
<1>3. Cardinality({}) = 0
  BY FS_EmptySet
<1>4. Queued(waiters, slot)
  BY <1>1 DEF LlmInit, Queued
<1> QED
  BY <1>1, <1>2, <1>3, <1>4, LlmAssumption DEF SlotInv, LlmAssumption

(* The queue.                                                              *)
\* A list without one of its entries.
LEMMA WithoutOne ==
    ASSUME NEW A, NEW s \in Seq(A), NEW i \in DOMAIN s
    PROVE  /\ RemoveAt(s, i) \in Seq(A) /\ Len(RemoveAt(s, i)) = Len(s) - 1
           /\ \A k \in 1 .. Len(s) - 1 : RemoveAt(s, i)[k] = IF k < i THEN s[k] ELSE s[k + 1]
<1> DEFINE front == SubSeq(s, 1, i - 1)
           back  == SubSeq(s, i + 1, Len(s))
<1>1. Len(s) \in Nat /\ i \in 1 .. Len(s)
  OBVIOUS
<1>2. front \in Seq(A) /\ Len(front) = i - 1 /\ \A k \in 1 .. i - 1 : front[k] = s[k]
  BY <1>1
<1>3. back \in Seq(A) /\ Len(back) = Len(s) - i /\ \A k \in 1 .. Len(s) - i : back[k] = s[k + i]
  BY <1>1
<1>4. RemoveAt(s, i) = front \o back
  BY DEF RemoveAt
<1> HIDE DEF front, back
<1>5. Len(front \o back) = Len(s) - 1 /\ front \o back \in Seq(A)
  BY <1>1, <1>2, <1>3
<1>6. ASSUME NEW k \in 1 .. Len(s) - 1 PROVE (front \o back)[k] = IF k < i THEN s[k] ELSE s[k + 1]
  <2>1. CASE k < i
    BY <1>1, <1>2, <1>3, <2>1
  <2>2. CASE ~(k < i)
    <3>1. k - (i - 1) \in 1 .. Len(s) - i /\ k > i - 1
      BY <1>1, <2>2
    <3>2. (front \o back)[k] = back[k - (i - 1)]
      <4>1. Len(front) = i - 1 /\ Len(front) + Len(back) = Len(s) - 1
        BY <1>1, <1>2, <1>3
      <4>2. k \in 1 .. Len(front) + Len(back) /\ k > Len(front)
        BY <1>1, <3>1, <4>1
      <4>3. front \in Seq(A) /\ back \in Seq(A) /\ Len(front) \in Nat
        BY <1>2, <1>3
      <4>4. \A j \in 1 .. Len(front) + Len(back) :
               (front \o back)[j] = IF j <= Len(front) THEN front[j] ELSE back[j - Len(front)]
        BY <4>3
      <4>5. ~(k <= Len(front))
        BY <4>2, <4>3
      <4>6. (front \o back)[k] = back[k - Len(front)]
        BY <4>2, <4>4, <4>5
      <4> QED BY <4>1, <4>6
    <3>3. back[k - (i - 1)] = s[(k - (i - 1)) + i] /\ (k - (i - 1)) + i = k + 1
      <4>1. back[k - (i - 1)] = s[(k - (i - 1)) + i]
        BY <1>3, <3>1
      <4>2. (k - (i - 1)) + i = k + 1
        BY <1>1
      <4> QED BY <4>1, <4>2
    <3> QED BY <2>2, <3>2, <3>3
  <2> QED BY <2>1, <2>2
<1> QED BY <1>4, <1>5, <1>6

\* The queue when one of it no longer waits.
LEMMA QueueWithout ==
    ASSUME NEW queue, NEW place, Queued(queue, place), NEW i \in DOMAIN queue, NEW later,
           later[queue[i]] # "waiting",
           \A d \in Component : d # queue[i] => later[d] = place[d]
    PROVE  Queued(RemoveAt(queue, i), later)
<1> DEFINE rest == RemoveAt(queue, i)
           n == Len(queue)
           c == queue[i]
<1>1. /\ queue \in Seq(Component) /\ n \in Nat /\ DOMAIN queue = 1 .. n /\ i \in 1 .. n
      /\ c \in Component
  BY DEF Queued
<1>2. rest \in Seq(Component) /\ DOMAIN rest = 1 .. n - 1
      /\ \A k \in 1 .. n - 1 : rest[k] = queue[IF k < i THEN k ELSE k + 1]
  <2>1. rest \in Seq(Component) /\ Len(rest) = n - 1
        /\ \A k \in 1 .. n - 1 : rest[k] = IF k < i THEN queue[k] ELSE queue[k + 1]
    BY <1>1, WithoutOne
  <2> HIDE DEF rest, n
  <2> QED BY <2>1
<1> HIDE DEF rest, n
<1>3. ASSUME NEW d \in Component PROVE later[d] = "waiting" <=> \E k \in DOMAIN rest : rest[k] = d
  <2>1. CASE d = c
    <3>1. \A k \in 1 .. n - 1 : rest[k] # c
      <4> TAKE k \in 1 .. n - 1
      <4> DEFINE q == IF k < i THEN k ELSE k + 1
      <4>1. q \in 1 .. n /\ q # i /\ rest[k] = queue[q]
        BY <1>1, <1>2
      <4> HIDE DEF q
      <4> QED BY <1>1, <4>1 DEF Queued
    <3> QED BY <1>2, <2>1, <3>1
  <2>2. CASE d # c
    <3>1. ASSUME NEW q \in 1 .. n, queue[q] = d PROVE \E k \in 1 .. n - 1 : rest[k] = d
      <4>1. q # i
        BY <2>2, <3>1
      <4>2. CASE q < i
        <5>1. q \in 1 .. n - 1
          BY <1>1, <4>2
        <5> QED BY <1>2, <3>1, <4>2, <5>1
      <4>3. CASE q > i
        <5>1. q - 1 \in 1 .. n - 1 /\ ~(q - 1 < i) /\ (q - 1) + 1 = q
          BY <1>1, <4>3
        <5>2. rest[q - 1] = queue[q]
          BY <1>2, <5>1
        <5> QED BY <3>1, <5>1, <5>2
      <4> QED BY <1>1, <4>1, <4>2, <4>3
    <3>2. ASSUME NEW k \in 1 .. n - 1, rest[k] = d PROVE \E q \in 1 .. n : queue[q] = d
      <4> DEFINE q == IF k < i THEN k ELSE k + 1
      <4>1. q \in 1 .. n /\ queue[q] = d
        BY <1>1, <1>2, <3>2
      <4> QED BY <4>1
    <3>3. place[d] = "waiting" <=> \E q \in 1 .. n : queue[q] = d
      BY <1>1 DEF Queued
    <3>4. later[d] = place[d]
      BY <2>2
    <3> QED BY <1>2, <3>1, <3>2, <3>3, <3>4
  <2> QED BY <2>1, <2>2
<1>4. ASSUME NEW k \in DOMAIN rest, NEW m \in DOMAIN rest, rest[k] = rest[m] PROVE k = m
  <2> DEFINE q == IF k < i THEN k ELSE k + 1
             r == IF m < i THEN m ELSE m + 1
  <2>1. q \in 1 .. n /\ r \in 1 .. n /\ queue[q] = queue[r]
    BY <1>1, <1>2, <1>4
  <2> HIDE DEF q, r
  <2>2. q = r
    BY <1>1, <2>1 DEF Queued
  <2> QED BY <1>1, <1>2, <2>2 DEF q, r
<1> QED BY <1>2, <1>3, <1>4 DEF Queued, rest

\* The queue when one more waits.
LEMMA QueueWith ==
    ASSUME NEW queue, NEW place, Queued(queue, place), NEW c \in Component, place[c] # "waiting",
           NEW later, later[c] = "waiting", \A d \in Component : d # c => later[d] = place[d]
    PROVE  Queued(Append(queue, c), later)
<1> DEFINE n == Len(queue)
           all == Append(queue, c)
<1>1. queue \in Seq(Component) /\ n \in Nat /\ DOMAIN queue = 1 .. n
  BY DEF Queued
<1>2. /\ all \in Seq(Component) /\ DOMAIN all = 1 .. n + 1 /\ all[n + 1] = c
      /\ \A k \in 1 .. n : all[k] = queue[k]
  BY <1>1
<1>3. \A k \in 1 .. n : queue[k] # c /\ queue[k] \in Component
  BY <1>1 DEF Queued
<1> HIDE DEF n, all
<1>4. 1 .. n + 1 = (1 .. n) \cup {n + 1}
  BY <1>1
<1>5. ASSUME NEW d \in Component PROVE later[d] = "waiting" <=> \E k \in DOMAIN all : all[k] = d
  <2>1. CASE d = c
    BY <1>2, <1>4, <2>1
  <2>2. CASE d # c
    BY <1>1, <1>2, <1>4, <2>2 DEF Queued
  <2> QED BY <2>1, <2>2
<1>6. \A k, m \in DOMAIN all : all[k] = all[m] => k = m
  BY <1>1, <1>2, <1>3, <1>4 DEF Queued
<1> QED BY <1>2, <1>5, <1>6 DEF Queued, all

\* The head of a queue in which somebody waits.
LEMMA HeadWaits ==
    ASSUME NEW queue, NEW place, Queued(queue, place), NEW c \in Component, place[c] = "waiting"
    PROVE  1 \in DOMAIN queue /\ Head(queue) = queue[1] /\ Tail(queue) = RemoveAt(queue, 1)
<1>1. queue \in Seq(Component) /\ 1 \in DOMAIN queue
  BY DEF Queued
<1>2. Head(queue) = queue[1]
  BY <1>1
<1>3. /\ RemoveAt(queue, 1) \in Seq(Component) /\ Len(RemoveAt(queue, 1)) = Len(queue) - 1
      /\ \A k \in 1 .. Len(queue) - 1 : RemoveAt(queue, 1)[k] = queue[k + 1]
  <2>1. \A k \in 1 .. Len(queue) - 1 : ~(k < 1)
    BY <1>1
  <2> QED BY <1>1, <2>1, WithoutOne
<1>4. /\ Tail(queue) \in Seq(Component) /\ Len(Tail(queue)) = Len(queue) - 1
      /\ \A k \in 1 .. Len(queue) - 1 : Tail(queue)[k] = queue[k + 1]
  BY <1>1
<1>5. Tail(queue) = RemoveAt(queue, 1)
  <2> DEFINE s == Tail(queue)
             t == RemoveAt(queue, 1)
  <2>1. s \in Seq(Component) /\ t \in Seq(Component) /\ Len(s) = Len(t)
        /\ \A k \in 1 .. Len(s) : s[k] = t[k]
    BY <1>3, <1>4
  <2> HIDE DEF s, t
  <2>2. s = [k \in 1 .. Len(s) |-> s[k]] /\ t = [k \in 1 .. Len(t) |-> t[k]]
    BY <2>1
  <2>3. s = t
    BY <2>1, <2>2
  <2> QED BY <2>3 DEF s, t
<1> QED BY <1>1, <1>2, <1>5

(* A component that changes its place changes the counters with it. *)
LEMMA PlacesAreCounted ==
    ASSUME SlotInv, NEW c \in Component, SlotStep(c) PROVE SlotInv'
<1>0. /\ IsFiniteSet(Component) /\ MaxSlots \in Nat \ {0} /\ Queued(waiters, slot)
      /\ slot \in [Component -> {"out", "waiting", "inside"}]
      /\ inFlight = Cardinality(Inside) /\ inFlight <= MaxSlots
      /\ waiting = Cardinality(Waiting)
  BY LlmAssumption DEF LlmAssumption, SlotInv
<1>1. /\ IsFiniteSet(Inside) /\ Cardinality(Inside) \in Nat
      /\ IsFiniteSet(Waiting) /\ Cardinality(Waiting) \in Nat
  <2>1. Inside \subseteq Component /\ Waiting \subseteq Component
    BY DEF Inside, Waiting
  <2> QED
    BY <1>0, <2>1, FS_Subset, FS_CardinalityType
<1>2. CASE AskSlot(c)
  <2>1. slot' = [slot EXCEPT ![c] = "waiting"] /\ waiting' = waiting + 1
        /\ inFlight' = inFlight /\ slot[c] = "out" /\ waiters' = Append(waiters, c)
    BY <1>2 DEF AskSlot
  <2>2. Waiting' = Waiting \cup {c} /\ c \notin Waiting /\ Inside' = Inside
    BY <1>0, <2>1 DEF Waiting, Inside
  <2>3. Cardinality(Waiting') = Cardinality(Waiting) + 1
    BY <1>1, <2>2, FS_AddElement
  <2>4. Cardinality(Inside') = Cardinality(Inside)
    BY <2>2
  <2>5. Queued(waiters', slot')
    <3>1. slot'[c] = "waiting" /\ slot[c] # "waiting" /\ \A d \in Component : d # c => slot'[d] = slot[d]
      BY <1>0, <2>1
    <3>2. Queued(Append(waiters, c), slot')
      BY <1>0, <3>1, QueueWith
    <3> QED BY <2>1, <3>2
  <2> QED
    BY <1>0, <2>1, <2>3, <2>4, <2>5 DEF SlotInv
<1>3. CASE EnterSlot(c)
  <2>1. slot' = [slot EXCEPT ![c] = "inside"] /\ waiting' = waiting - 1
        /\ inFlight' = inFlight + 1 /\ slot[c] = "waiting" /\ Cardinality(Inside) < MaxSlots
        /\ waiters' = Tail(waiters) /\ Head(waiters) = c
    BY <1>3 DEF EnterSlot
  <2>2. /\ Waiting' = Waiting \ {c} /\ c \in Waiting
        /\ Inside' = Inside \cup {c} /\ c \notin Inside
    BY <1>0, <2>1 DEF Waiting, Inside
  <2>3. Cardinality(Waiting') = Cardinality(Waiting) - 1
    BY <1>1, <2>2, FS_RemoveElement
  <2>4. Cardinality(Inside') = Cardinality(Inside) + 1
    BY <1>1, <2>2, FS_AddElement
  <2>5. 1 \in DOMAIN waiters /\ waiters[1] = c /\ waiters' = RemoveAt(waiters, 1)
    BY <1>0, <2>1, HeadWaits
  <2>6. Queued(waiters', slot')
    <3>1. slot'[waiters[1]] # "waiting" /\ \A d \in Component : d # waiters[1] => slot'[d] = slot[d]
      BY <1>0, <2>1, <2>5
    <3>2. Queued(RemoveAt(waiters, 1), slot')
      BY <1>0, <2>5, <3>1, QueueWithout
    <3> QED BY <2>5, <3>2
  <2> QED
    BY <1>0, <1>1, <2>1, <2>3, <2>4, <2>6 DEF SlotInv
<1>4. CASE GiveUpWaiting(c)
  <2>1. slot' = [slot EXCEPT ![c] = "out"] /\ waiting' = waiting - 1
        /\ inFlight' = inFlight /\ slot[c] = "waiting"
    BY <1>4 DEF GiveUpWaiting
  <2>2. Waiting' = Waiting \ {c} /\ c \in Waiting /\ Inside' = Inside
    BY <1>0, <2>1 DEF Waiting, Inside
  <2>3. Cardinality(Waiting') = Cardinality(Waiting) - 1
    BY <1>1, <2>2, FS_RemoveElement
  <2>4. Cardinality(Inside') = Cardinality(Inside)
    BY <2>2
  <2>5. PICK i \in DOMAIN waiters : waiters[i] = c /\ waiters' = RemoveAt(waiters, i)
    BY <1>4 DEF GiveUpWaiting
  <2>6. Queued(waiters', slot')
    <3>1. slot'[waiters[i]] # "waiting" /\ \A d \in Component : d # waiters[i] => slot'[d] = slot[d]
      BY <1>0, <2>1, <2>5
    <3>2. Queued(RemoveAt(waiters, i), slot')
      BY <1>0, <2>5, <3>1, QueueWithout
    <3> QED BY <2>5, <3>2
  <2> QED
    BY <1>0, <2>1, <2>3, <2>4, <2>6 DEF SlotInv
<1>5. CASE LeaveSlot(c)
  <2>1. slot' = [slot EXCEPT ![c] = "out"] /\ waiting' = waiting
        /\ inFlight' = inFlight - 1 /\ slot[c] = "inside" /\ waiters' = waiters
    BY <1>5 DEF LeaveSlot
  <2>2. Inside' = Inside \ {c} /\ c \in Inside /\ Waiting' = Waiting
    BY <1>0, <2>1 DEF Waiting, Inside
  <2>3. Cardinality(Inside') = Cardinality(Inside) - 1
    BY <1>1, <2>2, FS_RemoveElement
  <2>4. Cardinality(Waiting') = Cardinality(Waiting)
    BY <2>2
  <2>5. \A d \in Component : slot'[d] = "waiting" <=> slot[d] = "waiting"
    BY <1>0, <2>1
  <2>6. Queued(waiters', slot')
    BY <1>0, <2>1, <2>5 DEF Queued
  <2> QED
    BY <1>0, <1>1, <2>1, <2>3, <2>4, <2>6 DEF SlotInv
<1> QED
  BY <1>2, <1>3, <1>4, <1>5 DEF SlotStep

\* Steps of the other machines leave the gate alone.
LEMMA PlacesStand == SlotInv /\ UNCHANGED slotVars => SlotInv'
  BY DEF SlotInv, slotVars, Inside, Waiting

(* A step of one call, which may take its component along. *)
\* What a call does to the place of its component.
Moves(c) == \/ UNCHANGED slotVars
            \/ AskSlot(c) \/ EnterSlot(c) \/ GiveUpWaiting(c) \/ LeaveSlot(c)

\* A call that moves to where its place at the gate fits keeps CallInv.
LEMMA CallMoves ==
    ASSUME SlotInv, CallInv, NEW c \in Caller, NEW new \in Calls,
           Do(c, new), Moves(c), Fits(new, slot'[c])
    PROVE  SlotInv' /\ CallInv'
<1>1. c \in Component
  BY AgentAssumption DEF AgentAssumption
<1>2. SlotInv'
  BY <1>1, PlacesAreCounted, PlacesStand DEF Moves, SlotStep
<1>3. \A d \in Caller \ {c} : slot'[d] = slot[d]
  BY <1>1, AgentAssumption DEF AgentAssumption, Moves, SlotInv, slotVars, AskSlot, EnterSlot,
     GiveUpWaiting, LeaveSlot
<1>4. agent' \in [Caller -> Calls] /\ agent'[c] = new /\ \A d \in Caller \ {c} : agent'[d] = agent[d]
  BY DEF Do, CallInv
<1>5. \A d \in Caller : Fits(agent'[d], slot'[d])
  BY <1>3, <1>4 DEF CallInv
<1> QED
  BY <1>2, <1>4, <1>5 DEF CallInv

\* The backends, in the order in which they are asked.
LEMMA BackendNames ==
    /\ DOMAIN Backends = 1 .. 3 /\ Len(Backends) = 3
    /\ Backends[1] = "ollama-recipe" /\ Backends[2] = "stagehand" /\ Backends[3] = "browser-use"
  BY DEF Backends

\* A caller without a call is at rest.
LEMMA NoCallIsCall == NoCall \in Calls /\ Fits(NoCall, "out")
  BY BackendNames DEF NoCall, Calls, Step, Fits

\* The call that goes on to the next backend.
LEMMA NextIsCall ==
    ASSUME NEW c \in Caller, agent[c] \in Calls
    PROVE  NextBackend(c) \in Calls /\ Fits(NextBackend(c), "out")
<1>1. CASE agent[c].backend = Len(Backends)
  BY <1>1, NoCallIsCall DEF NextBackend
<1>2. CASE agent[c].backend # Len(Backends)
  <2>1. agent[c].backend + 1 \in DOMAIN Backends
    BY <1>2, BackendNames DEF Calls
  <2>2. NextBackend(c) = [at |-> "check", backend |-> agent[c].backend + 1, html |-> agent[c].html,
                          holds |-> "nothing", outcome |-> "none"]
    BY <1>2 DEF NextBackend, Calls
  <2> QED
    BY <2>1, <2>2 DEF Calls, Step, Fits
<1> QED
  BY <1>1, <1>2

\* The call whose backend has failed.
LEMMA AfterIsCall ==
    ASSUME NEW c \in Caller, agent[c] \in Calls
    PROVE  AfterBackend(c) \in Calls /\ Fits(AfterBackend(c), "out")
  BY NoCallIsCall, NextIsCall DEF AfterBackend

\* At the start there are no calls and nothing is left behind.
LEMMA CallsBegin == LlmInit /\ AgentInit => CallInv /\ LeftInv
<1> SUFFICES ASSUME LlmInit, AgentInit PROVE CallInv /\ LeftInv
  OBVIOUS
<1>1. agent = [c \in Caller |-> NoCall] /\ \A c \in Caller : slot[c] = "out"
  BY AgentAssumption DEF AgentInit, LlmInit, AgentAssumption
<1>2. CallInv
  BY <1>1, NoCallIsCall DEF CallInv
<1>3. LeftInv
  BY AgentAssumption DEF AgentAssumption, AgentInit, LeftInv
<1> QED
  BY <1>2, <1>3

\* The other users of the model move through the gate and disturb no call.
LEMMA OthersMove ==
    ASSUME SlotInv, CallInv, OtherSlots PROVE SlotInv' /\ CallInv'
<1> PICK c \in Component \ Caller : SlotStep(c)
  BY DEF OtherSlots
<1>1. SlotInv'
  BY PlacesAreCounted
<1>2. \A d \in Caller : slot'[d] = slot[d]
  BY AgentAssumption
     DEF AgentAssumption, SlotInv, SlotStep, AskSlot, EnterSlot, GiveUpWaiting, LeaveSlot
<1> QED
  BY <1>1, <1>2 DEF CallInv, OtherSlots, agentVars

(* What a component finds when its call takes a step. *)
LEMMA PlaceLeft ==
    ASSUME SlotInv, NEW c \in Caller
    PROVE  /\ LeaveSlot(c) \/ GiveUpWaiting(c) => slot'[c] = "out"
           /\ AskSlot(c) => slot'[c] = "waiting"
           /\ EnterSlot(c) => slot'[c] = "inside"
           /\ UNCHANGED slotVars => slot'[c] = slot[c]
           /\ slot[c] \in {"out", "waiting", "inside"}
  BY AgentAssumption
     DEF AgentAssumption, SlotInv, LeaveSlot, GiveUpWaiting, AskSlot, EnterSlot, slotVars

\* A call that stays where it is.
LEMMA StillFits ==
    ASSUME SlotInv, CallInv, NEW c \in Caller
    PROVE  agent[c] \in Calls /\ Fits(agent[c], slot[c]) /\ slot[c] \in {"out", "waiting", "inside"}
  BY PlaceLeft DEF CallInv

\* The steps of a call keep its place at the gate, what it holds and what it leaves behind right.
LEMMA CallStepKeeps ==
    ASSUME SlotInv, CallInv, NEW c \in Caller, AgentStep(c)
    PROVE  SlotInv' /\ CallInv' /\ UNCHANGED <<behind, cuts>>
<1>0. agent[c] \in Calls /\ Fits(agent[c], slot[c]) /\ slot[c] \in {"out", "waiting", "inside"}
  BY StillFits
<1>1. NoCall \in Calls /\ Fits(NoCall, "out")
  BY NoCallIsCall
<1>2. NextBackend(c) \in Calls /\ Fits(NextBackend(c), "out")
  BY <1>0, NextIsCall
<1>3. AfterBackend(c) \in Calls /\ Fits(AfterBackend(c), "out")
  BY <1>0, AfterIsCall
<1>a. CASE UnsafeTarget(c)
  <2>1. Do(c, NoCall) /\ UNCHANGED slotVars /\ slot'[c] = "out"
    BY <1>0, <1>a, PlaceLeft DEF UnsafeTarget, Fits
  <2> QED
    BY <1>1, <1>a, <2>1, CallMoves DEF Moves, UnsafeTarget
<1>b. CASE Declines(c)
  <2>1. Do(c, NextBackend(c)) /\ UNCHANGED slotVars /\ slot'[c] = "out"
    BY <1>0, <1>b, PlaceLeft DEF Declines, Fits
  <2> QED
    BY <1>2, <1>b, <2>1, CallMoves DEF Moves, Declines
<1>c. CASE TakesTurn(c)
  <2> DEFINE new == [agent[c] EXCEPT !.at = "slot"]
  <2>1. new \in Calls /\ new.at = "slot" /\ new.holds = "nothing"
    BY <1>0, <1>c DEF TakesTurn, Calls, Fits, Step
  <2> HIDE DEF new
  <2>2. Do(c, new) /\ AskSlot(c) /\ slot'[c] = "waiting"
    BY <1>c, PlaceLeft DEF TakesTurn, new
  <2>3. Fits(new, slot'[c])
    BY <2>1, <2>2 DEF Fits
  <2> QED
    BY <1>c, <2>1, <2>2, <2>3, CallMoves DEF Moves, TakesTurn
<1>d. CASE BrowserCloses(c)
  <2>1. Do(c, AfterBackend(c)) /\ Moves(c) /\ slot'[c] = "out"
    BY <1>0, <1>d, PlaceLeft DEF BrowserCloses, Fits, Moves, Backend
  <2> QED
    BY <1>3, <1>d, <2>1, CallMoves DEF BrowserCloses
<1>e. CASE ProcessTimesOut(c)
  <2> DEFINE new == [agent[c] EXCEPT !.at = "kill"]
  <2>1. new \in Calls /\ new.at = "kill"
    BY <1>0 DEF Calls, Step
  <2> HIDE DEF new
  <2>2. Do(c, new) /\ LeaveSlot(c) /\ slot'[c] = "out"
    BY <1>e, PlaceLeft DEF ProcessTimesOut, new
  <2>3. Fits(new, slot'[c])
    BY <2>1, <2>2 DEF Fits
  <2> QED
    BY <1>e, <2>1, <2>2, <2>3, CallMoves DEF Moves, ProcessTimesOut
<1>f. CASE ProcessKilled(c)
  <2>1. Do(c, NextBackend(c)) /\ UNCHANGED slotVars /\ slot'[c] = "out"
    BY <1>0, <1>f, PlaceLeft DEF ProcessKilled, Fits
  <2> QED
    BY <1>2, <1>f, <2>1, CallMoves DEF Moves, ProcessKilled
<1>g. ASSUME NEW answer \in ModelPlan, RecipePlanned(c, answer)
      PROVE  SlotInv' /\ CallInv' /\ UNCHANGED <<behind, cuts>>
  <2>1. (Do(c, NextBackend(c)) \/ Do(c, NoCall)) /\ LeaveSlot(c) /\ slot'[c] = "out"
    BY <1>g, PlaceLeft DEF RecipePlanned
  <2> QED
    BY <1>1, <1>2, <1>g, <2>1, CallMoves DEF Moves, RecipePlanned
<1>h. ASSUME NEW answer \in ModelPlan, StagehandObserved(c, answer)
      PROVE  SlotInv' /\ CallInv' /\ UNCHANGED <<behind, cuts>>
  <2> DEFINE what == IF Observed[agent[c].html][answer] = <<>> THEN "failed" ELSE "success"
             new  == [agent[c] EXCEPT !.at = "close", !.outcome = what]
  <2>0. what \in {"failed", "success"}
    OBVIOUS
  <2> HIDE DEF what
  <2>1. new \in Calls /\ new.at = "close" /\ new.backend = agent[c].backend
    BY <1>0, <2>0 DEF Calls, Step
  <2> HIDE DEF new
  <2>2. Do(c, new) /\ UNCHANGED slotVars /\ slot'[c] = "inside" /\ Backends[agent[c].backend] = "stagehand"
    BY <1>0, <1>h, PlaceLeft DEF StagehandObserved, new, what, Fits, UsesModel, Backend
  <2>3. Fits(new, slot'[c])
    BY <2>1, <2>2 DEF Fits
  <2> QED
    BY <1>h, <2>1, <2>2, <2>3, CallMoves DEF Moves, StagehandObserved
<1>i. ASSUME NEW what \in {"success", "blocked", "failed"}, BrowserUseStops(c, what)
      PROVE  SlotInv' /\ CallInv' /\ UNCHANGED <<behind, cuts>>
  <2> DEFINE new == [agent[c] EXCEPT !.at = "close", !.outcome = what]
  <2>1. new \in Calls /\ new.at = "close" /\ new.backend = agent[c].backend
    BY <1>0 DEF Calls, Step
  <2> HIDE DEF new
  <2>2. Do(c, new) /\ LeaveSlot(c) /\ slot'[c] = "out" /\ Backends[agent[c].backend] = "browser-use"
    BY <1>i, PlaceLeft DEF BrowserUseStops, new, Backend
  <2>3. Fits(new, slot'[c])
    BY <2>1, <2>2 DEF Fits
  <2> QED
    BY <1>i, <2>1, <2>2, <2>3, CallMoves DEF Moves, BrowserUseStops
<1>j. ASSUME NEW what \in {"success", "blocked", "failed"}, ProcessEnds(c, what)
      PROVE  SlotInv' /\ CallInv' /\ UNCHANGED <<behind, cuts>>
  <2>1. (Do(c, NextBackend(c)) \/ Do(c, NoCall)) /\ LeaveSlot(c) /\ slot'[c] = "out"
    BY <1>j, PlaceLeft DEF ProcessEnds
  <2> QED
    BY <1>1, <1>2, <1>j, <2>1, CallMoves DEF Moves, ProcessEnds
<1> QED
  BY <1>a, <1>b, <1>c, <1>d, <1>e, <1>f, <1>g, <1>h, <1>i, <1>j DEF AgentStep

\* A backend that starts to work holds what it works with.
LEMMA CallStarts ==
    ASSUME SlotInv, CallInv, NEW c \in Caller, NEW isolated \in BOOLEAN, StartsWork(c, isolated)
    PROVE  SlotInv' /\ CallInv' /\ UNCHANGED <<behind, cuts>>
<1>0. agent[c] \in Calls /\ Backend(c) = Backends[agent[c].backend]
  BY StillFits DEF Backend
<1> DEFINE thing == IF Backend(c) = "ollama-recipe" THEN "nothing"
                    ELSE IF isolated THEN "process" ELSE "browser"
           new == [agent[c] EXCEPT !.at = "work", !.holds = thing]
<1>1. /\ thing \in {"nothing", "browser", "process"}
      /\ Backend(c) = "stagehand" => thing = "browser"
      /\ thing = "process" => Backend(c) = "browser-use"
  BY DEF StartsWork
<1>2. Do(c, new) /\ EnterSlot(c) /\ slot'[c] = "inside"
  BY PlaceLeft DEF StartsWork
<1> HIDE DEF thing
<1>3. new \in Calls /\ new.at = "work" /\ new.backend = agent[c].backend /\ new.holds = thing
  BY <1>0, <1>1 DEF Calls, Step
<1> HIDE DEF new
<1>4. Fits(new, slot'[c])
  BY <1>0, <1>1, <1>2, <1>3 DEF Fits
<1> QED
  BY <1>2, <1>3, <1>4, CallMoves DEF Moves, StartsWork

\* A call begins with the first backend.
LEMMA CallBegins ==
    ASSUME SlotInv, CallInv, NEW c \in Caller, NEW html \in Html, AskAgents(c, html)
    PROVE  SlotInv' /\ CallInv' /\ UNCHANGED <<behind, cuts>>
<1>0. Fits(agent[c], slot[c]) /\ slot[c] \in {"out", "waiting", "inside"}
  BY StillFits
<1> DEFINE new == [NoCall EXCEPT !.at = "check", !.html = html]
<1>1. new \in Calls /\ new.at = "check" /\ new.holds = "nothing"
  BY NoCallIsCall DEF NoCall, Calls, Step
<1> HIDE DEF new
<1>2. Do(c, new) /\ UNCHANGED slotVars /\ slot'[c] = "out"
  BY <1>0, PlaceLeft DEF AskAgents, new, Fits
<1>3. Fits(new, slot'[c])
  BY <1>1, <1>2 DEF Fits
<1> QED
  BY <1>1, <1>2, <1>3, CallMoves DEF Moves, AskAgents

(* A call that is cut off pays for what it leaves behind. *)
LEMMA CutKeeps ==
    ASSUME SlotInv, CallInv, LeftInv, NEW c \in Caller,
           CutBeforeWork(c) \/ CutAtWork(c) \/ CutAtClose(c) \/ CutAtKill(c)
    PROVE  SlotInv' /\ CallInv' /\ LeftInv'
<1>0. agent[c] \in Calls /\ Fits(agent[c], slot[c]) /\ slot[c] \in {"out", "waiting", "inside"}
  BY StillFits
<1>1. NoCall \in Calls /\ Fits(NoCall, "out")
  BY NoCallIsCall
<1>2. /\ behind = [process |-> behind.process, browser |-> behind.browser]
      /\ behind.process \in Nat /\ behind.browser \in Nat /\ cuts \in 0 .. MaxCuts /\ MaxCuts \in Nat
      /\ behind.browser + behind.process <= cuts
  BY AgentAssumption DEF AgentAssumption, LeftInv
<1>a. CASE CutBeforeWork(c)
  <2>1. Do(c, NoCall) /\ Moves(c) /\ slot'[c] = "out"
    BY <1>0, <1>a, PlaceLeft DEF CutBeforeWork, Fits, Moves
  <2>2. LeftInv'
    BY <1>a, <1>2 DEF LeftInv, CutBeforeWork, Cuts
  <2> QED
    BY <1>1, <2>1, <2>2, CallMoves
<1>b. CASE CutAtWork(c)
  <2>1. LeftInv'
    <3>1. /\ behind' = [process |-> IF agent[c].holds = "process" THEN behind.process + 1 ELSE behind.process,
                         browser |-> behind.browser]
          /\ cuts' = cuts + 1 /\ cuts < MaxCuts
      BY <1>b, <1>2 DEF CutAtWork, Cuts
    <3> QED
      BY <1>2, <3>1 DEF LeftInv
  <2> DEFINE new == [agent[c] EXCEPT !.at = "close", !.outcome = "cut"]
  <2>2. new \in Calls /\ new.at = "close" /\ new.backend = agent[c].backend
    BY <1>0 DEF Calls, Step
  <2>3. /\ Do(c, IF agent[c].holds = "browser" THEN new ELSE NoCall)
        /\ agent[c].at = "work"
        /\ IF Backends[agent[c].backend] = "stagehand" THEN UNCHANGED slotVars ELSE LeaveSlot(c)
    BY <1>b DEF CutAtWork, UsesModel, Backend
  <2> HIDE DEF new
  <2>4. Moves(c)
    BY <2>3 DEF Moves
  <2>5. CASE Backends[agent[c].backend] = "stagehand"
    <3>1. agent[c].holds = "browser" /\ slot'[c] = "inside"
      BY <1>0, <2>3, <2>5, PlaceLeft DEF Fits
    <3>2. Fits(new, slot'[c])
      BY <2>2, <2>5, <3>1 DEF Fits
    <3>3. Do(c, new)
      BY <2>3, <3>1
    <3> QED
      BY <2>1, <2>2, <2>4, <3>2, <3>3, CallMoves
  <2>6. CASE Backends[agent[c].backend] # "stagehand"
    <3>1. slot'[c] = "out"
      BY <2>3, <2>6, PlaceLeft
    <3>2. Fits(new, slot'[c])
      BY <2>2, <2>6, <3>1 DEF Fits
    <3>3. Do(c, new) \/ Do(c, NoCall)
      BY <2>3
    <3> QED
      BY <1>1, <2>1, <2>2, <2>4, <3>1, <3>2, <3>3, CallMoves
  <2> QED
    BY <2>5, <2>6
<1>c. CASE CutAtClose(c)
  <2>1. Do(c, NoCall) /\ Moves(c) /\ slot'[c] = "out"
    BY <1>0, <1>c, PlaceLeft DEF CutAtClose, Fits, Moves, Backend
  <2>2. LeftInv'
    <3>1. /\ \E closed \in BOOLEAN :
               behind' = [process |-> behind.process,
                          browser |-> IF closed THEN behind.browser ELSE behind.browser + 1]
          /\ cuts' = cuts + 1 /\ cuts < MaxCuts
      BY <1>c, <1>2 DEF CutAtClose, Cuts
    <3> QED
      BY <1>2, <3>1 DEF LeftInv
  <2> QED
    BY <1>1, <2>1, <2>2, CallMoves
<1>d. CASE CutAtKill(c)
  <2>1. Do(c, NoCall) /\ UNCHANGED slotVars /\ slot'[c] = "out"
    BY <1>0, <1>d, PlaceLeft DEF CutAtKill, Fits
  <2>2. LeftInv'
    BY <1>d, <1>2 DEF LeftInv, CutAtKill, Cuts
  <2> QED
    BY <1>1, <2>1, <2>2, CallMoves DEF Moves
<1> QED
  BY <1>a, <1>b, <1>c, <1>d

\* No step of the agents, of the other users or of a process left behind breaks ModelInv.
LEMMA AgentNextInv == ModelInv /\ AgentNext => ModelInv'
<1> SUFFICES ASSUME ModelInv, AgentNext PROVE ModelInv'
  OBVIOUS
<1>0. HealthInv /\ SlotInv /\ CallInv /\ LeftInv
  BY DEF ModelInv
<1>1. HealthInv'
  BY <1>0 DEF AgentNext, HealthInv, healthVars
<1>2. UNCHANGED <<behind, cuts>> => LeftInv'
  BY <1>0 DEF LeftInv
<1>3. ASSUME NEW c \in Caller, AgentStep(c) PROVE SlotInv' /\ CallInv' /\ LeftInv'
  BY <1>0, <1>2, <1>3, CallStepKeeps
<1>4. ASSUME NEW c \in Caller, NEW isolated \in BOOLEAN, StartsWork(c, isolated)
      PROVE  SlotInv' /\ CallInv' /\ LeftInv'
  BY <1>0, <1>2, <1>4, CallStarts
<1>5. ASSUME NEW c \in Caller, NEW html \in Html, AskAgents(c, html)
      PROVE  SlotInv' /\ CallInv' /\ LeftInv'
  BY <1>0, <1>2, <1>5, CallBegins
<1>6. ASSUME NEW c \in Caller, CutBeforeWork(c) \/ CutAtWork(c) \/ CutAtClose(c) \/ CutAtKill(c)
      PROVE  SlotInv' /\ CallInv' /\ LeftInv'
  BY <1>0, <1>6, CutKeeps
<1>7. CASE LeftProcessEnds
  <2>1. SlotInv' /\ CallInv'
    <3>1. slot' = slot /\ agent' = agent
      BY <1>7 DEF LeftProcessEnds, slotVars
    <3>2. SlotInv'
      BY <1>0, <1>7, PlacesStand DEF LeftProcessEnds
    <3> QED
      BY <1>0, <3>1, <3>2 DEF CallInv
  <2>2. behind' = [process |-> behind.process - 1, browser |-> behind.browser] /\ cuts' = cuts
        /\ behind.process > 0
    BY <1>0, <1>7 DEF LeftProcessEnds, LeftInv
  <2>3. behind.process \in Nat /\ behind.browser \in Nat /\ cuts \in 0 .. MaxCuts /\ MaxCuts \in Nat
        /\ behind.browser + behind.process <= cuts
    BY <1>0, AgentAssumption DEF AgentAssumption, LeftInv
  <2>4. LeftInv'
    BY <2>2, <2>3 DEF LeftInv
  <2> QED
    BY <1>1, <2>1, <2>4 DEF ModelInv
<1>8. CASE OtherSlots
  <2>1. SlotInv' /\ CallInv'
    BY <1>0, <1>8, OthersMove
  <2>2. UNCHANGED <<behind, cuts>>
    BY <1>8 DEF OtherSlots, agentVars
  <2> QED
    BY <1>1, <1>2, <2>1, <2>2 DEF ModelInv
<1> QED
  BY <1>1, <1>3, <1>4, <1>5, <1>6, <1>7, <1>8 DEF AgentNext, ModelInv

\* Neither does any step of the machines that share the model.
LEMMA ModelNextInv ==
    ModelInv
       /\ ((HealthNext /\ UNCHANGED agentVars) \/ AgentNext \/ UNCHANGED <<llmVars, agentVars>>) => ModelInv'
<1> SUFFICES ASSUME ModelInv,
                    (HealthNext /\ UNCHANGED agentVars) \/ AgentNext \/ UNCHANGED <<llmVars, agentVars>>
             PROVE  ModelInv'
  OBVIOUS
<1>1. CASE HealthNext /\ UNCHANGED agentVars
  <2>1. HealthInv' /\ SlotInv'
    BY <1>1, HealthNextInv, PlacesStand DEF ModelInv, HealthNext
  <2>2. CallInv' /\ LeftInv'
    BY <1>1 DEF ModelInv, CallInv, LeftInv, agentVars, HealthNext, slotVars
  <2> QED
    BY <2>1, <2>2 DEF ModelInv
<1>2. CASE UNCHANGED <<llmVars, agentVars>>
  <2>1. SlotInv'
    BY <1>2, PlacesStand DEF ModelInv, llmVars, slotVars
  <2> QED
    BY <1>2, <2>1 DEF ModelInv, HealthInv, CallInv, LeftInv, llmVars, agentVars
<1> QED
  BY <1>1, <1>2, AgentNextInv

\* ModelInv is what a run checks, and what makes it inductive.
LEMMA ModelInvHolds ==
    ModelInv => LlmGateHolds /\ AgentsHoldTheirSlots /\ CutsPayForLeftovers
<1> SUFFICES ASSUME ModelInv PROVE LlmGateHolds /\ AgentsHoldTheirSlots /\ CutsPayForLeftovers
  OBVIOUS
<1>1. LlmGateHolds
  BY HealthIsFresh DEF ModelInv, LlmGateHolds, SlotsAgree, SlotInv, Waiting, Queued
<1>2. AgentsHoldTheirSlots
  BY DEF ModelInv, CallInv, Fits, AgentsHoldTheirSlots, UsesModel, Backend
<1>3. CutsPayForLeftovers
  BY DEF ModelInv, CallInv, Fits, CutsPayForLeftovers, LeftInv
<1> QED
  BY <1>1, <1>2, <1>3

(***************************************************************************)
(* The plans of the agents (AgentFallback).  A control is on one element of *)
(* its page, its kind says whether it came from the form, the links or the *)
(* tabs, and the lists name each element once: so nothing is planned twice, *)
(* and each control was offered because it is allowed.                     *)
(***************************************************************************)
\* Nothing is in the list twice.
Once(s) == \A k \in DOMAIN s : \A m \in 1 .. k - 1 : s[m] # s[k]

\* The first few of a list are the list up to there.
LEMMA FewAreFirst ==
    ASSUME NEW A, NEW s \in Seq(A), NEW n \in Nat
    PROVE  /\ FirstFew(n, s) \in Seq(A) /\ Len(FirstFew(n, s)) <= n /\ Len(FirstFew(n, s)) <= Len(s)
           /\ DOMAIN FirstFew(n, s) \subseteq DOMAIN s
           /\ \A k \in DOMAIN FirstFew(n, s) : FirstFew(n, s)[k] = s[k]
<1> DEFINE m == IF n < Len(s) THEN n ELSE Len(s)
<1>1. m \in Nat /\ m <= n /\ m <= Len(s)
  OBVIOUS
<1>2. \A k \in 1 .. m : SubSeq(s, 1, m)[k] = s[k]
  BY <1>1
<1>3. SubSeq(s, 1, m) \in Seq(A) /\ Len(SubSeq(s, 1, m)) = m
  BY <1>1
<1>4. DOMAIN SubSeq(s, 1, m) = 1 .. m
  BY <1>1, <1>3
<1> QED
  BY <1>1, <1>2, <1>3, <1>4 DEF FirstFew

\* What is left of a list without repetition is without repetition.
LEMMA OnceCut ==
    ASSUME NEW A, NEW s \in Seq(A), NEW n \in Nat, Once(s) PROVE Once(FirstFew(n, s))
BY FewAreFirst DEF Once

\* Two lists that share nothing are joined without repetition.
LEMMA OnceJoined ==
    ASSUME NEW A, NEW s \in Seq(A), NEW t \in Seq(A), Once(s), Once(t),
           \A i \in DOMAIN s, j \in DOMAIN t : s[i] # t[j]
    PROVE  Once(s \o t)
<1>1. s \o t \in Seq(A) /\ Len(s \o t) = Len(s) + Len(t)
  OBVIOUS
<1>2. \A k \in 1 .. Len(s) + Len(t) :
         (s \o t)[k] = IF k <= Len(s) THEN s[k] ELSE t[k - Len(s)]
  OBVIOUS
<1>3. SUFFICES ASSUME NEW k \in 1 .. Len(s) + Len(t), NEW m \in 1 .. k - 1 PROVE (s \o t)[m] # (s \o t)[k]
  BY <1>1 DEF Once
<1>4. CASE k <= Len(s)
  BY <1>2, <1>4 DEF Once
<1>5. CASE k > Len(s) /\ m <= Len(s)
  BY <1>2, <1>5
<1>6. CASE m > Len(s)
  <2>1. k - Len(s) \in DOMAIN t /\ m - Len(s) \in 1 .. (k - Len(s)) - 1
    BY <1>6
  <2> QED BY <1>2, <1>6, <2>1 DEF Once
<1> QED BY <1>4, <1>5, <1>6

\* So is a list with something new at its end.
LEMMA OnceAppended ==
    ASSUME NEW A, NEW s \in Seq(A), NEW a \in A, Once(s), \A k \in DOMAIN s : s[k] # a
    PROVE  Once(Append(s, a))
<1>1. Append(s, a) \in Seq(A) /\ DOMAIN Append(s, a) = 1 .. Len(s) + 1
  OBVIOUS
<1>2. Append(s, a)[Len(s) + 1] = a /\ \A k \in 1 .. Len(s) : Append(s, a)[k] = s[k]
  OBVIOUS
<1>3. SUFFICES ASSUME NEW k \in 1 .. Len(s) + 1, NEW m \in 1 .. k - 1 PROVE Append(s, a)[m] # Append(s, a)[k]
  BY <1>1 DEF Once
<1>4. CASE k = Len(s) + 1
  BY <1>2, <1>4
<1>5. CASE k # Len(s) + 1
  BY <1>2, <1>5 DEF Once
<1> QED BY <1>4, <1>5

(* What a control may be. *)
FormAction(html, a) ==
    /\ a.kind \in {"fill", "press", "select"} /\ a.on \in DOMAIN html
    /\ ~html[a.on].denied /\ SafeSearchForm(html[a.on])

LinkAction(html, a) ==
    /\ a.on \in DOMAIN html /\ ~html[a.on].denied
    /\ \/ a.kind = "goto" /\ html[a.on].kind = "link" /\ html[a.on].inside
       \/ a.kind = "click" /\ html[a.on].kind = "button" /\ html[a.on].form = "none"

TabAction(html, a) ==
    /\ a.on \in DOMAIN html /\ ~html[a.on].denied
    /\ a.kind = "click" /\ html[a.on].kind = "tab" /\ html[a.on].form = "none"

\* The form controls of the first i elements.
FormList(html, i) ==
    {s \in Seq(Action) : /\ Once(s)
                         /\ \A k \in DOMAIN s : FormAction(html, s[k]) /\ s[k].on \in 1 .. i}

\* The candidates for one field.
LEMMA FillsAreActions ==
    ASSUME NEW i \in Nat
    PROVE  /\ Fills(i) \in Seq(Action) /\ Once(Fills(i))
           /\ \A k \in DOMAIN Fills(i) : Fills(i)[k].on = i /\ Fills(i)[k].kind = "fill"
<1>1. DOMAIN Value = 1 .. Len(Value) /\ Len(Value) \in Nat
  BY AgentAssumption DEF AgentAssumption
<1>2. \A v \in 1 .. Len(Value) : [kind |-> "fill", on |-> i, nth |-> v] \in Action
  BY DEF Action
<1>3. Fills(i) \in Seq(Action)
  BY <1>1, <1>2 DEF Fills
<1> QED BY <1>1, <1>3 DEF Fills, Once

\* A control of an element.
LEMMA ControlIsAction ==
    ASSUME NEW i \in Nat, NEW kind \in {"press", "select", "goto", "click", "scroll"}
    PROVE  Control(kind, i) \in Action
BY DEF Control, Action

\* One more element keeps the form controls apart and allowed.
LEMMA FormTurn ==
    ASSUME NEW html \in Html, NEW i \in 1 .. Len(html), NEW done \in Seq(Action)
    PROVE  /\ WithFormControl(done, html[i], i) \in Seq(Action)
           /\ done \in FormList(html, i - 1) => WithFormControl(done, html[i], i) \in FormList(html, i)
<1> DEFINE e == html[i]
           longer == FirstFew(FormLimit, done \o Fills(i))
<1>1. html \in Seq(Element) /\ e \in Element /\ FormLimit \in Nat /\ i \in DOMAIN html /\ i \in Nat
  BY AgentAssumption DEF AgentAssumption
<1>2. done \o Fills(i) \in Seq(Action)
  BY <1>1, FillsAreActions
<1>3. longer \in Seq(Action)
  BY <1>1, <1>2, FewAreFirst
<1>4. Control("press", i) \in Action /\ Control("select", i) \in Action
  BY <1>1, ControlIsAction
<1>5. CASE Len(done) >= FormLimit \/ e.denied \/ ~SafeSearchForm(e)
  <2>1. WithFormControl(done, e, i) = done
    BY <1>5 DEF WithFormControl
  <2>2. done \in FormList(html, i - 1) => done \in FormList(html, i)
    BY <1>1 DEF FormList, FormAction
  <2> QED BY <2>1, <2>2
<1>6. CASE ~(Len(done) >= FormLimit \/ e.denied \/ ~SafeSearchForm(e)) /\ e.kind = "field" /\ Value # <<>>
  <2>1. WithFormControl(done, e, i) = Append(longer, Control("press", i))
    BY <1>6 DEF WithFormControl
  <2>2. ASSUME done \in FormList(html, i - 1) PROVE Append(longer, Control("press", i)) \in FormList(html, i)
    <3>1. \A k \in DOMAIN done : done[k].on \in 1 .. i - 1 /\ FormAction(html, done[k])
      BY <2>2 DEF FormList
    <3>2. Once(done \o Fills(i))
      <4>1. Once(done)
        BY <2>2 DEF FormList
      <4>2. ASSUME NEW k \in DOMAIN done, NEW m \in DOMAIN Fills(i) PROVE done[k] # Fills(i)[m]
        <5>1. done[k].on < i
          BY <3>1, <1>1
        <5>2. Fills(i)[m].on = i
          BY <1>1, FillsAreActions
        <5> QED BY <1>1, <5>1, <5>2
      <4> QED BY <1>1, <4>1, <4>2, FillsAreActions, OnceJoined
    <3>3. \A k \in DOMAIN (done \o Fills(i)) :
             LET a == (done \o Fills(i))[k] IN FormAction(html, a) /\ a.on \in 1 .. i /\ (a.on = i => a.kind = "fill")
      <4> TAKE k \in DOMAIN (done \o Fills(i))
      <4>1. Fills(i) \in Seq(Action)
        BY <1>1, FillsAreActions
      <4>2. CASE k <= Len(done)
        <5>1. (done \o Fills(i))[k] = done[k] /\ k \in DOMAIN done
          BY <1>2, <4>1, <4>2
        <5> QED BY <3>1, <5>1, <1>1
      <4>3. CASE k > Len(done)
        <5>1. (done \o Fills(i))[k] = Fills(i)[k - Len(done)] /\ k - Len(done) \in DOMAIN Fills(i)
          BY <1>2, <4>1, <4>3
        <5>2. Fills(i)[k - Len(done)].on = i /\ Fills(i)[k - Len(done)].kind = "fill"
          BY <1>1, <5>1, FillsAreActions
        <5> QED BY <1>1, <1>6, <5>1, <5>2 DEF FormAction
      <4> QED BY <1>2, <4>1, <4>2, <4>3
    <3>4. Once(longer) /\ \A k \in DOMAIN longer :
             FormAction(html, longer[k]) /\ longer[k].on \in 1 .. i /\ (longer[k].on = i => longer[k].kind = "fill")
      BY <1>1, <1>2, <3>2, <3>3, FewAreFirst, OnceCut
    <3> DEFINE all == Append(longer, Control("press", i))
    <3>5. all \in Seq(Action) /\ Len(all) = Len(longer) + 1 /\ all[Len(longer) + 1] = Control("press", i)
          /\ \A k \in 1 .. Len(longer) : all[k] = longer[k]
      BY <1>3, <1>4
    <3>6. Control("press", i).on = i /\ Control("press", i).kind = "press"
      BY DEF Control
    <3>7. FormAction(html, Control("press", i))
      BY <1>1, <1>6, <3>6 DEF FormAction
    <3> HIDE DEF all, longer
    <3>8. \A k \in DOMAIN longer : longer[k] # Control("press", i)
      BY <3>4, <3>6
    <3>9. Once(all)
      BY <1>3, <1>4, <3>4, <3>8, OnceAppended DEF all
    <3>10. ASSUME NEW k \in DOMAIN all PROVE FormAction(html, all[k]) /\ all[k].on \in 1 .. i
      <4>1. Len(longer) \in Nat /\ DOMAIN longer = 1 .. Len(longer) /\ DOMAIN all = 1 .. Len(longer) + 1
        BY <1>3, <3>5
      <4>2. CASE k \in 1 .. Len(longer)
        <5>1. all[k] = longer[k] /\ k \in DOMAIN longer
          BY <3>5, <4>1, <4>2
        <5> QED BY <3>4, <5>1
      <4>3. CASE k = Len(longer) + 1
        <5>1. all[k] = Control("press", i)
          BY <3>5, <4>3
        <5> QED BY <1>1, <3>6, <3>7, <5>1
      <4> QED BY <4>1, <4>2, <4>3
    <3>11. all \in FormList(html, i)
      BY <3>5, <3>9, <3>10 DEF FormList
    <3> QED BY <3>11 DEF all
  <2> QED BY <1>3, <1>4, <2>1, <2>2
<1>7. CASE ~(Len(done) >= FormLimit \/ e.denied \/ ~SafeSearchForm(e)) /\ e.kind = "choice"
  <2> DEFINE all == Append(done, Control("select", i))
  <2>1. WithFormControl(done, e, i) = all
    BY <1>7 DEF WithFormControl
  <2>2. all \in Seq(Action) /\ Len(all) = Len(done) + 1 /\ all[Len(done) + 1] = Control("select", i)
        /\ \A k \in 1 .. Len(done) : all[k] = done[k]
    BY <1>4
  <2>3. Control("select", i).on = i /\ Control("select", i).kind = "select"
    BY DEF Control
  <2>4. FormAction(html, Control("select", i))
    BY <1>1, <1>7, <2>3 DEF FormAction
  <2> HIDE DEF all
  <2>5. ASSUME done \in FormList(html, i - 1) PROVE all \in FormList(html, i)
    <3>1. \A k \in 1 .. Len(done) : FormAction(html, done[k]) /\ done[k].on \in 1 .. i - 1
      BY <2>5 DEF FormList
    <3>2. Once(done) /\ \A k \in DOMAIN done : done[k] # Control("select", i)
      <4>1. \A k \in 1 .. Len(done) : done[k].on < i
        BY <1>1, <3>1
      <4> QED BY <1>1, <2>3, <2>5, <4>1 DEF FormList
    <3>4. Once(all)
      BY <1>4, <3>2, OnceAppended DEF all
    <3>3. \A k \in DOMAIN all : FormAction(html, all[k]) /\ all[k].on \in 1 .. i
      BY <1>1, <2>2, <2>3, <2>4, <3>1
    <3> QED BY <2>2, <3>3, <3>4 DEF FormList
  <2> QED BY <2>1, <2>2, <2>5
<1>8. CASE /\ ~(Len(done) >= FormLimit \/ e.denied \/ ~SafeSearchForm(e))
           /\ ~(e.kind = "field" /\ Value # <<>>) /\ e.kind # "choice"
  <2>1. WithFormControl(done, e, i) = done
    BY <1>8 DEF WithFormControl
  <2>2. done \in FormList(html, i - 1) => done \in FormList(html, i)
    BY <1>1 DEF FormList, FormAction
  <2> QED BY <2>1, <2>2
<1> QED BY <1>5, <1>6, <1>7, <1>8

\* The form controls of a page.
LEMMA FormControlsFit ==
    ASSUME NEW html \in Html
    PROVE  FormControls(html) \in FormList(html, Len(html))
<1> DEFINE N == Len(html)
           S == Seq(Action)
           turn == [i \in 1 .. N |-> [done \in S |-> WithFormControl(done, html[i], i)]]
           is(g) == g = [i \in 0 .. N |-> IF i = 0 THEN <<>> ELSE WithFormControl(g[i - 1], html[i], i)]
           upTo == CHOOSE g : is(g)
<1>1. N \in Nat /\ <<>> \in S
  BY AgentAssumption DEF AgentAssumption
<1>2. \A i \in 1 .. N, done \in S : WithFormControl(done, html[i], i) \in S
  BY FormTurn
<1>3. turn \in [1 .. N -> [S -> S]]
  BY <1>2
<1>4. PICK g : LoopOf(g, N, S, <<>>, turn)
  <2> HIDE DEF N, S, turn
  <2> QED BY <1>1, <1>3, LoopExists
<1>5. /\ g \in [0 .. N -> S]
      /\ \A i \in 0 .. N : g[i] = IF i = 0 THEN <<>> ELSE WithFormControl(g[i - 1], html[i], i)
  <2>1. g \in [0 .. N -> S] /\ g[0] = <<>> /\ \A i \in 1 .. N : g[i] = turn[i][g[i - 1]]
    BY <1>4 DEF LoopOf
  <2>2. \A i \in 1 .. N : g[i - 1] \in S
    BY <2>1
  <2>3. ASSUME NEW i \in 1 .. N PROVE g[i] = WithFormControl(g[i - 1], html[i], i)
    <3>1. g[i] = turn[i][g[i - 1]] /\ g[i - 1] \in S
      BY <2>1, <2>2
    <3> QED BY <3>1
  <2> HIDE DEF turn
  <2> QED BY <2>1, <2>3, <1>1
<1>6. is(g)
  BY <1>5
<1>7. is(upTo)
  <2> HIDE DEF is
  <2> QED BY <1>6
<1>8. FormControls(html) = upTo[N]
  BY DEF FormControls
<1> HIDE DEF upTo, turn
<1> DEFINE T == {i \in 0 .. N : upTo[i] \in FormList(html, i)}
<1>9. 0 \in T
  BY <1>1, <1>7 DEF FormList, Once
<1>10. \A i \in 1 .. N : i - 1 \in T => i \in T
  <2> TAKE i \in 1 .. N
  <2> SUFFICES ASSUME i - 1 \in T PROVE upTo[i] \in FormList(html, i)
    BY <1>1
  <2>1. upTo[i] = WithFormControl(upTo[i - 1], html[i], i)
    BY <1>1, <1>7
  <2>2. upTo[i - 1] \in FormList(html, i - 1) /\ upTo[i - 1] \in Seq(Action)
    BY DEF FormList
  <2> QED BY <2>1, <2>2, FormTurn
<1>11. N \in T
  <2> HIDE DEF T, N
  <2>1. \A i \in 0 .. N : i \in T
    BY ONLY <1>1, <1>9, <1>10, TurnByTurn
  <2> QED BY <1>1, <2>1
<1> QED BY <1>8, <1>11

\* Ascending lists places, each of them once.
LEMMA PlacesListed ==
    ASSUME NEW n \in Nat, NEW S \in SUBSET (1 .. n)
    PROVE  /\ Ascending(S) \in Seq(S) /\ Len(Ascending(S)) <= n
           /\ DOMAIN Ascending(S) = 1 .. Len(Ascending(S))
           /\ \A k \in DOMAIN Ascending(S) : Ascending(S)[k] \in S
           /\ \A k, m \in DOMAIN Ascending(S) : m < k => Ascending(S)[m] < Ascending(S)[k]
<1>1. IsFiniteSet(1 .. n) /\ Cardinality(1 .. n) = n
  BY FS_Interval
<1>2. S \subseteq Int /\ IsFiniteSet(S) /\ Cardinality(S) <= n
  <2>1. IsFiniteSet(S) /\ Cardinality(S) <= Cardinality(1 .. n)
    BY <1>1, FS_Subset
  <2> QED BY <1>1, <2>1
<1>3. Ascending(S) \in Seq(S) /\ Len(Ascending(S)) = Cardinality(S) /\ Cardinality(S) \in Nat
      /\ \A i, j \in 1 .. Cardinality(S) : i < j <=> Ascending(S)[i] < Ascending(S)[j]
  BY <1>2, AscendingLists
<1>4. DOMAIN Ascending(S) = 1 .. Len(Ascending(S)) /\ \A k \in DOMAIN Ascending(S) : Ascending(S)[k] \in S
  BY <1>3
<1> QED BY <1>2, <1>3, <1>4

\* The links and buttons of a page.
LEMMA LinkControlsFit ==
    ASSUME NEW html \in Html
    PROVE  /\ LinkControls(html) \in Seq(Action) /\ Once(LinkControls(html))
           /\ \A k \in DOMAIN LinkControls(html) : LinkAction(html, LinkControls(html)[k])
<1> DEFINE isLink(e)   == e.kind = "link" /\ e.inside
           isButton(e) == e.kind = "button" /\ SafeClick(e)
           S == {i \in DOMAIN html : ~html[i].denied /\ (isLink(html[i]) \/ isButton(html[i]))}
           offered == Ascending(S)
           kind(i) == IF isLink(html[i]) THEN "goto" ELSE "click"
           list == [k \in DOMAIN offered |-> Control(kind(offered[k]), offered[k])]
<1>1. LinkControls(html) = list
  BY DEF LinkControls
<1>2. Len(html) \in Nat /\ DOMAIN html = 1 .. Len(html) /\ S \in SUBSET (1 .. Len(html))
  BY AgentAssumption DEF AgentAssumption
<1>3. /\ DOMAIN offered = 1 .. Len(offered) /\ Len(offered) \in Nat
      /\ \A k \in DOMAIN offered : offered[k] \in S
      /\ \A k, m \in DOMAIN offered : m < k => offered[m] < offered[k]
  <2> HIDE DEF S
  <2> QED BY <1>2, PlacesListed
<1>4. \A i \in S : /\ Control(kind(i), i) \in Action /\ Control(kind(i), i).on = i
                   /\ LinkAction(html, Control(kind(i), i))
  <2> TAKE i \in S
  <2>0. i \in DOMAIN html /\ ~html[i].denied /\ (isLink(html[i]) \/ isButton(html[i]))
    OBVIOUS
  <2>1. i \in Nat /\ i \in DOMAIN html /\ ~html[i].denied /\ (isLink(html[i]) \/ isButton(html[i]))
    BY <1>2, <2>0
  <2>2. Control(kind(i), i) \in Action
    BY <2>1, ControlIsAction
  <2>3. Control(kind(i), i).on = i /\ Control(kind(i), i).kind = kind(i)
    BY DEF Control
  <2>4. LinkAction(html, Control(kind(i), i))
    BY <2>1, <2>3 DEF LinkAction, SafeClick
  <2> QED BY <2>2, <2>3, <2>4
<1> HIDE DEF offered, kind, S
<1>5. /\ DOMAIN list = DOMAIN offered
      /\ \A k \in DOMAIN offered : list[k] = Control(kind(offered[k]), offered[k])
  OBVIOUS
<1>6. list \in Seq(Action)
  BY <1>3, <1>4
<1>7. Once(list)
  <2> SUFFICES ASSUME NEW k \in DOMAIN offered, NEW m \in 1 .. k - 1 PROVE list[m] # list[k]
    BY <1>5 DEF Once
  <2>1. m \in DOMAIN offered /\ m < k
    BY <1>3
  <2>2. offered[m] # offered[k] /\ offered[m] \in S /\ offered[k] \in S
    <3>1. offered[m] < offered[k] /\ offered[m] \in S /\ offered[k] \in S
      BY <1>3, <2>1
    <3>2. S \subseteq Nat
      BY <1>2
    <3>3. \A i, j \in Nat : i < j => i # j
      OBVIOUS
    <3> QED BY <3>1, <3>2, <3>3
  <2>3. list[m].on = offered[m] /\ list[k].on = offered[k]
    BY <1>4, <1>5, <2>1, <2>2
  <2> QED BY <2>2, <2>3
<1>8. \A k \in DOMAIN list : LinkAction(html, list[k])
  BY <1>3, <1>4, <1>5
<1> HIDE DEF list
<1> QED BY <1>1, <1>6, <1>7, <1>8

\* The tabs of a page.
LEMMA TabControlsFit ==
    ASSUME NEW html \in Html
    PROVE  /\ TabControls(html) \in Seq(Action) /\ Once(TabControls(html))
           /\ \A k \in DOMAIN TabControls(html) : TabAction(html, TabControls(html)[k])
<1> DEFINE S == {i \in DOMAIN html : html[i].kind = "tab" /\ ~html[i].denied /\ SafeClick(html[i])}
           offered == Ascending(S)
           list == [k \in DOMAIN offered |-> Control("click", offered[k])]
<1>1. TabControls(html) = list
  BY DEF TabControls
<1>2. Len(html) \in Nat /\ DOMAIN html = 1 .. Len(html) /\ S \in SUBSET (1 .. Len(html))
  BY AgentAssumption DEF AgentAssumption
<1>3. /\ DOMAIN offered = 1 .. Len(offered) /\ Len(offered) \in Nat
      /\ \A k \in DOMAIN offered : offered[k] \in S
      /\ \A k, m \in DOMAIN offered : m < k => offered[m] < offered[k]
  <2> HIDE DEF S
  <2> QED BY <1>2, PlacesListed
<1>4. \A i \in S : /\ Control("click", i) \in Action /\ Control("click", i).on = i
                   /\ TabAction(html, Control("click", i))
  <2> TAKE i \in S
  <2>1. i \in Nat /\ i \in DOMAIN html
    BY <1>2
  <2>2. Control("click", i) \in Action
    BY <2>1, ControlIsAction
  <2> QED BY <2>1, <2>2 DEF TabAction, SafeClick, Control
<1> HIDE DEF offered, S
<1>5. DOMAIN list = DOMAIN offered /\ \A k \in DOMAIN offered : list[k] = Control("click", offered[k])
  OBVIOUS
<1>6. list \in Seq(Action)
  BY <1>3, <1>4
<1>7. Once(list)
  <2> SUFFICES ASSUME NEW k \in DOMAIN offered, NEW m \in 1 .. k - 1 PROVE list[m] # list[k]
    BY <1>5 DEF Once
  <2>1. m \in DOMAIN offered /\ m < k
    BY <1>3
  <2>2. offered[m] # offered[k] /\ offered[m] \in S /\ offered[k] \in S
    <3>1. offered[m] < offered[k] /\ offered[m] \in S /\ offered[k] \in S
      BY <1>3, <2>1
    <3>2. S \subseteq Nat
      BY <1>2
    <3>3. \A i, j \in Nat : i < j => i # j
      OBVIOUS
    <3> QED BY <3>1, <3>2, <3>3
  <2>3. list[m].on = offered[m] /\ list[k].on = offered[k]
    BY <1>4, <1>5, <2>1, <2>2
  <2> QED BY <2>2, <2>3
<1>8. \A k \in DOMAIN list : TabAction(html, list[k])
  BY <1>3, <1>4, <1>5
<1> HIDE DEF list
<1> QED BY <1>1, <1>6, <1>7, <1>8

\* What a page offers: each control once, and nothing that is not allowed.
Offered(html, a) == FormAction(html, a) \/ LinkAction(html, a) \/ TabAction(html, a)

\* What the model is shown of a page.
LEMMA ControlsFit ==
    ASSUME NEW html \in Html
    PROVE  /\ Controls(html) \in Seq(Action) /\ Once(Controls(html))
           /\ \A k \in DOMAIN Controls(html) : Offered(html, Controls(html)[k])
<1> DEFINE F == FormControls(html)
           L == LinkControls(html)
           T == TabControls(html)
<1>1. /\ F \in Seq(Action) /\ Once(F) /\ \A k \in DOMAIN F : FormAction(html, F[k])
      /\ L \in Seq(Action) /\ Once(L) /\ \A k \in DOMAIN L : LinkAction(html, L[k])
      /\ T \in Seq(Action) /\ Once(T) /\ \A k \in DOMAIN T : TabAction(html, T[k])
  BY FormControlsFit, LinkControlsFit, TabControlsFit DEF FormList
<1>2. ControlLimit \in Nat
  BY AgentAssumption DEF AgentAssumption
<1> HIDE DEF F, L, T
<1>3. F \o L \in Seq(Action) /\ Once(F \o L)
      /\ \A k \in DOMAIN (F \o L) : FormAction(html, (F \o L)[k]) \/ LinkAction(html, (F \o L)[k])
  <2>1. \A i \in DOMAIN F, j \in DOMAIN L : F[i] # L[j]
    BY <1>1 DEF FormAction, LinkAction
  <2>2. Once(F \o L)
    BY <1>1, <2>1, OnceJoined
  <2>3. F \o L \in Seq(Action) /\ DOMAIN (F \o L) = 1 .. Len(F) + Len(L)
        /\ \A k \in 1 .. Len(F) + Len(L) : (F \o L)[k] = IF k <= Len(F) THEN F[k] ELSE L[k - Len(F)]
    BY <1>1
  <2>4. ASSUME NEW k \in 1 .. Len(F) + Len(L)
        PROVE  FormAction(html, (F \o L)[k]) \/ LinkAction(html, (F \o L)[k])
    BY <1>1, <2>3
  <2> QED BY <2>2, <2>3, <2>4
<1> DEFINE P == F \o L
<1>4. P \o T \in Seq(Action) /\ Once(P \o T) /\ \A k \in DOMAIN (P \o T) : Offered(html, (P \o T)[k])
  <2>0. P \in Seq(Action) /\ Once(P) /\ \A k \in DOMAIN P : FormAction(html, P[k]) \/ LinkAction(html, P[k])
    BY <1>3
  <2> HIDE DEF P
  <2>1. \A i \in DOMAIN P, j \in DOMAIN T : P[i] # T[j]
    BY <1>1, <2>0 DEF FormAction, LinkAction, TabAction
  <2>2. Once(P \o T)
    BY <1>1, <2>0, <2>1, OnceJoined
  <2>3. P \o T \in Seq(Action) /\ DOMAIN (P \o T) = 1 .. Len(P) + Len(T)
        /\ \A k \in 1 .. Len(P) + Len(T) : (P \o T)[k] = IF k <= Len(P) THEN P[k] ELSE T[k - Len(P)]
    BY <1>1, <2>0
  <2>4. ASSUME NEW k \in 1 .. Len(P) + Len(T) PROVE Offered(html, (P \o T)[k])
    BY <1>1, <2>0, <2>3 DEF Offered
  <2> QED BY <2>2, <2>3, <2>4
<1> DEFINE all == P \o T
<1>5. Controls(html) = FirstFew(ControlLimit, all)
  BY DEF Controls, F, L, T
<1> HIDE DEF all
<1>6. all \in Seq(Action) /\ Once(all) /\ \A k \in DOMAIN all : Offered(html, all[k])
  BY <1>4 DEF all
<1> QED BY <1>2, <1>5, <1>6, FewAreFirst, OnceCut

\* The recipe agent's plan, whatever the model answers.
LEMMA PlanFits ==
    ASSUME NEW html \in Html, NEW answer \in ModelPlan
    PROVE  LET plan == ActionsFromPlan(answer, Controls(html))
           IN /\ Len(plan) <= ActionLimit
              /\ \A k \in DOMAIN plan : plan[k].kind # "scroll" =>
                    Offered(html, plan[k]) /\ \A m \in 1 .. k - 1 : plan[m] # plan[k]
<1> DEFINE controls == Controls(html)
           asked == FirstFew(ActionLimit, answer)
           S == {k \in DOMAIN asked : \/ asked[k] = -1
                                      \/ asked[k] \in DOMAIN controls /\ k \in FirstTimes(asked)}
           taken == Ascending(S)
           plan == [k \in DOMAIN taken |-> IF asked[taken[k]] = -1 THEN Scroll ELSE controls[asked[taken[k]]]]
<1>1. ActionLimit \in Nat /\ answer \in Seq(Int)
  BY AgentAssumption DEF AgentAssumption
<1>2. controls \in Seq(Action) /\ Once(controls) /\ \A k \in DOMAIN controls : Offered(html, controls[k])
  BY ControlsFit
<1>3. ActionsFromPlan(answer, controls) = plan
  BY DEF ActionsFromPlan
<1>4. asked \in Seq(Int) /\ Len(asked) <= ActionLimit
  BY <1>1, FewAreFirst
<1> HIDE DEF controls, asked
<1>5. S \in SUBSET (1 .. Len(asked)) /\ Len(asked) \in Nat
  BY <1>4
<1>6. /\ DOMAIN taken = 1 .. Len(taken) /\ Len(taken) \in Nat /\ Len(taken) <= Len(asked)
      /\ \A k \in DOMAIN taken : taken[k] \in S
      /\ \A k, m \in DOMAIN taken : m < k => taken[m] < taken[k]
  <2> HIDE DEF S
  <2> QED BY <1>5, PlacesListed
<1> HIDE DEF taken
<1>7. DOMAIN plan = DOMAIN taken /\ Len(plan) = Len(taken)
  BY <1>6
<1>8. Scroll.kind = "scroll"
  BY DEF Scroll, Control
<1>9. \A k \in DOMAIN taken :
         /\ plan[k] = IF asked[taken[k]] = -1 THEN Scroll ELSE controls[asked[taken[k]]]
         /\ taken[k] \in DOMAIN asked
         /\ asked[taken[k]] # -1 => asked[taken[k]] \in DOMAIN controls /\ taken[k] \in FirstTimes(asked)
  BY <1>6
<1> HIDE DEF plan, S
<1>10. ASSUME NEW k \in DOMAIN taken, plan[k].kind # "scroll"
       PROVE  Offered(html, plan[k]) /\ \A m \in 1 .. k - 1 : plan[m] # plan[k]
  <2>1. asked[taken[k]] # -1 /\ plan[k] = controls[asked[taken[k]]] /\ asked[taken[k]] \in DOMAIN controls
        /\ taken[k] \in FirstTimes(asked)
    BY <1>8, <1>9, <1>10
  <2>2. ASSUME NEW m \in 1 .. k - 1 PROVE plan[m] # plan[k]
    <3>1. m \in DOMAIN taken /\ m < k
      BY <1>6
    <3>2. CASE asked[taken[m]] = -1
      BY <1>8, <1>9, <1>10, <3>1, <3>2
    <3>3. CASE asked[taken[m]] # -1
      <4>1. plan[m] = controls[asked[taken[m]]] /\ asked[taken[m]] \in DOMAIN controls
        BY <1>9, <3>1, <3>3
      <4>2. taken[m] \in 1 .. taken[k] - 1
        <5>1. DOMAIN asked = 1 .. Len(asked) /\ taken[m] \in DOMAIN asked /\ taken[k] \in DOMAIN asked
          BY <1>4, <1>9, <3>1
        <5>2. taken[m] < taken[k]
          BY <1>6, <3>1
        <5> QED BY <1>5, <5>1, <5>2
      <4>3. asked[taken[m]] # asked[taken[k]]
        BY <2>1, <4>2 DEF FirstTimes
      <4>4. \A i, j \in DOMAIN controls : i # j => controls[i] # controls[j]
        BY <1>2 DEF Once
      <4> QED BY <2>1, <4>1, <4>3, <4>4
    <3> QED BY <3>2, <3>3
  <2> QED BY <1>2, <2>1, <2>2
<1>11. Len(plan) <= ActionLimit
  BY <1>1, <1>4, <1>5, <1>6, <1>7
<1> QED BY <1>3, <1>7, <1>10, <1>11 DEF controls

\* Stagehand's actions, whatever it observes.
LEMMA ShownFits ==
    ASSUME NEW html \in Html, NEW answer \in ModelPlan
    PROVE  LET shown == SafeActions(answer, html)
           IN Len(shown) <= ActionLimit /\ \A k \in DOMAIN shown : ~html[shown[k].on].denied
<1> DEFINE S == {k \in FirstTimes(answer) : answer[k] \in DOMAIN html /\ ~html[answer[k]].denied}
           taken == Ascending(S)
           all == [k \in DOMAIN taken |-> Control("click", answer[taken[k]])]
<1>1. ActionLimit \in Nat /\ answer \in Seq(Int) /\ html \in Seq(Element)
  BY AgentAssumption DEF AgentAssumption
<1>2. SafeActions(answer, html) = FirstFew(ActionLimit, all)
  BY DEF SafeActions
<1>3. S \in SUBSET (1 .. Len(answer)) /\ Len(answer) \in Nat
  BY <1>1 DEF FirstTimes
<1>4. /\ DOMAIN taken = 1 .. Len(taken) /\ Len(taken) \in Nat
      /\ \A k \in DOMAIN taken : taken[k] \in S
  <2> HIDE DEF S
  <2> QED BY <1>3, PlacesListed
<1> HIDE DEF taken
<1>5. \A k \in DOMAIN taken : answer[taken[k]] \in DOMAIN html /\ ~html[answer[taken[k]]].denied
  BY <1>4
<1>6. \A k \in DOMAIN taken : answer[taken[k]] \in Nat
  BY <1>1, <1>5
<1>7. \A k \in DOMAIN all : all[k] \in Action /\ all[k].on = answer[taken[k]]
  BY <1>6, ControlIsAction DEF Control
<1>8. all \in Seq(Action)
  BY <1>4, <1>6, ControlIsAction
<1>9. \A k \in DOMAIN all : ~html[all[k].on].denied
  BY <1>5, <1>7
<1> HIDE DEF all
<1> DEFINE shown == FirstFew(ActionLimit, all)
<1>10. /\ Len(shown) <= ActionLimit /\ DOMAIN shown \subseteq DOMAIN all
       /\ \A k \in DOMAIN shown : shown[k] = all[k]
  BY <1>1, <1>8, FewAreFirst
<1> HIDE DEF shown
<1>11. \A k \in DOMAIN shown : ~html[shown[k].on].denied
  BY <1>9, <1>10
<1> QED BY <1>2, <1>10, <1>11 DEF shown

\* Whatever is answered, no agent plans what is forbidden (ollama_recipe.py, stagehand.py).
LEMMA AgentsPlanSafely == PlansAreSafe
<1> SUFFICES ASSUME NEW html \in Html, NEW answer \in ModelPlan
             PROVE  LET plan       == Planned[html][answer]
                        shown      == Observed[html][answer]
                        allowed(a) == CASE a.kind = "goto" -> html[a.on].inside
                                        [] a.kind = "click" -> html[a.on].form = "none"
                                        [] OTHER -> SafeSearchForm(html[a.on])
                    IN /\ \A k \in DOMAIN plan : plan[k].kind # "scroll" =>
                            allowed(plan[k]) /\ ~html[plan[k].on].denied /\ \A m \in 1 .. k - 1 : plan[m] # plan[k]
                       /\ \A k \in DOMAIN shown : ~html[shown[k].on].denied
                       /\ Len(plan) <= ActionLimit /\ Len(shown) <= ActionLimit
  BY DEF PlansAreSafe
<1> DEFINE plan == Planned[html][answer]
           shown == Observed[html][answer]
           allowed(a) == CASE a.kind = "goto" -> html[a.on].inside
                           [] a.kind = "click" -> html[a.on].form = "none"
                           [] OTHER -> SafeSearchForm(html[a.on])
<1>1. plan = ActionsFromPlan(answer, Controls(html)) /\ shown = SafeActions(answer, html)
  BY DEF Planned, Observed
<1>2. \A a : Offered(html, a) => allowed(a) /\ ~html[a.on].denied
  BY DEF Offered, FormAction, LinkAction, TabAction
<1> HIDE DEF plan, shown, allowed
<1>3. /\ Len(plan) <= ActionLimit
      /\ \A k \in DOMAIN plan : plan[k].kind # "scroll" =>
            Offered(html, plan[k]) /\ \A m \in 1 .. k - 1 : plan[m] # plan[k]
  BY <1>1, PlanFits
<1>4. Len(shown) <= ActionLimit /\ \A k \in DOMAIN shown : ~html[shown[k].on].denied
  BY <1>1, ShownFits
<1>5. \A k \in DOMAIN plan : plan[k].kind # "scroll" =>
            allowed(plan[k]) /\ ~html[plan[k].on].denied /\ \A m \in 1 .. k - 1 : plan[m] # plan[k]
  BY <1>2, <1>3
<1> QED BY <1>3, <1>4, <1>5 DEF plan, shown, allowed

\* And it says what its variables are.
LEMMA ModelIsTyped == ModelInv => LlmTypeOK /\ AgentTypeOK
<1> SUFFICES ASSUME ModelInv PROVE LlmTypeOK /\ AgentTypeOK
  OBVIOUS
<1>1. /\ IsFiniteSet(Component) /\ Cardinality(Component) \in Nat
      /\ Cardinality(Inside) \in 0 .. Cardinality(Component)
      /\ Cardinality(Waiting) \in 0 .. Cardinality(Component)
  <2>1. IsFiniteSet(Component) /\ Inside \in SUBSET Component /\ Waiting \in SUBSET Component
    BY LlmAssumption DEF LlmAssumption, Inside, Waiting
  <2>2. /\ IsFiniteSet(Inside) /\ Cardinality(Inside) <= Cardinality(Component)
        /\ IsFiniteSet(Waiting) /\ Cardinality(Waiting) <= Cardinality(Component)
    BY <2>1, FS_Subset
  <2>3. Cardinality(Component) \in Nat /\ Cardinality(Inside) \in Nat /\ Cardinality(Waiting) \in Nat
    BY <2>1, <2>2, FS_CardinalityType
  <2> QED BY <2>1, <2>2, <2>3
<1>2. LlmTypeOK
  BY <1>1 DEF ModelInv, HealthInv, SlotInv, Queued, LlmTypeOK
<1>3. agent \in [Caller -> Calls] /\ Html \cup {<<>>} = Html
  BY AgentAssumption DEF AgentAssumption, ModelInv, CallInv
<1>4. behind \in [process : 0 .. MaxCuts, browser : 0 .. MaxCuts] /\ cuts \in 0 .. MaxCuts
  <2>1. /\ behind = [process |-> behind.process, browser |-> behind.browser]
        /\ behind.process \in Nat /\ behind.browser \in Nat /\ cuts \in 0 .. MaxCuts
        /\ behind.browser + behind.process <= cuts /\ MaxCuts \in Nat
    BY AgentAssumption DEF AgentAssumption, ModelInv, LeftInv
  <2>2. behind.process \in 0 .. MaxCuts /\ behind.browser \in 0 .. MaxCuts
    BY <2>1
  <2> QED BY <2>1, <2>2
<1>5. AgentTypeOK
  BY <1>3, <1>4 DEF AgentTypeOK, Calls
<1> QED BY <1>2, <1>5

(***************************************************************************)
(* The delivery of a result (ResultDelivery).  The client of a kind has the*)
(* rows up to its cursor.                                                  *)
(***************************************************************************)
DeliverySpec == DeliveryInit /\ [][DeliveryNext]_deliveryVars

\* The rows up to a cursor.
UpTo(S, cursor) == {i \in S : i <= cursor}

\* What the client has of a kind, by the cursor it holds and by whether it has come to the end.
Received(S, has, cursor, atEnd) ==
    /\ has \in Seq(Row) /\ cursor \in Row \cup {None}
    /\ cursor # None => ~atEnd /\ has = Ascending(UpTo(S, cursor))
    /\ cursor = None /\ ~atEnd => has = <<>>
    /\ atEnd => has = Ascending(S)

DeliveryInv ==
    /\ status \in {"running", "closed", "deleted"}
    /\ rows \in [Kind -> SUBSET Row]
    /\ end \subseteq Kind /\ restarts \in 0 .. MaxRestarts
    /\ DOMAIN got = Kind /\ DOMAIN next = Kind
    /\ got = [k \in Kind |-> got[k]] /\ next = [k \in Kind |-> next[k]]
    /\ \A k \in Kind : Received(rows[k], got[k], next[k], k \in end)
    /\ status = "running" => end = {} /\ \A k \in Kind : next[k] = None

(***************************************************************************)
(* A page of rows is the beginning of what is left behind the cursor.      *)
(***************************************************************************)
LEMMA RowsAreNumbers ==
    /\ Row \subseteq Nat /\ None \notin Row
    /\ \A S \in SUBSET Row : IsFiniteSet(S) /\ Cardinality(S) \in Nat
<1>1. Row = 1 .. Len(Size) /\ Len(Size) \in Nat
  BY ResultDeliveryAssumption DEF ResultDeliveryAssumption, Row
<1>2. IsFiniteSet(Row)
  BY <1>1, FS_Interval
<1>3. \A S \in SUBSET Row : IsFiniteSet(S) /\ Cardinality(S) \in Nat
  BY <1>2, FS_Subset, FS_CardinalityType
<1> QED
  BY <1>1, <1>3, ResultDeliveryAssumption DEF ResultDeliveryAssumption

\* Any set of rows is finite.
LEMMA FiniteRows ==
    ASSUME NEW S \in SUBSET Row
    PROVE  IsFiniteSet(S) /\ S \subseteq Int /\ S \subseteq Nat
<1>1. Row \subseteq Nat /\ \A T \in SUBSET Row : IsFiniteSet(T)
  BY RowsAreNumbers
<1> QED
  BY <1>1

\* The bytes of some rows can be counted.
LEMMA BytesAreFinite ==
    ASSUME NEW S \in SUBSET Row
    PROVE  IsFiniteSet(UNION {{i} \X (1 .. Size[i]) : i \in S})
<1> DEFINE bytes(i) == {i} \X (1 .. Size[i])
           all(U)   == UNION {bytes(i) : i \in U}
<1>1. \A i \in Row : IsFiniteSet(bytes(i))
  <2> TAKE i \in Row
  <2>1. Size[i] \in Nat
    BY ResultDeliveryAssumption DEF ResultDeliveryAssumption, Row
  <2>2. IsFiniteSet(1 .. Size[i])
    <3>1. 1 \in Int /\ Size[i] \in Int
      BY <2>1
    <3> QED
      BY <3>1, FS_Interval
  <2>3. IsFiniteSet({i})
    BY FS_Singleton
  <2> QED
    BY <2>2, <2>3, FS_Product
<1> HIDE DEF bytes
<1>2. IsFiniteSet(all(S))
  <2> DEFINE parts == {bytes(i) : i \in S}
             f == [i \in S |-> bytes(i)]
  <2>1. f \in Surjection(S, parts)
    BY DEF Surjection
  <2>2. IsFiniteSet(parts)
    BY <2>1, RowsAreNumbers, FS_Surjection
  <2>3. \A piece \in parts : IsFiniteSet(piece)
    BY <1>1
  <2> QED
    BY <2>2, <2>3, FS_UNION
<1> QED
  BY <1>2 DEF bytes

\* Fewer rows are fewer bytes.
LEMMA BytesGrow ==
    ASSUME NEW S \in SUBSET Row, NEW T \in SUBSET S
    PROVE  Bytes(T) \in Nat /\ Bytes(S) \in Nat /\ Bytes(T) <= Bytes(S)
<1> DEFINE all(U) == UNION {{i} \X (1 .. Size[i]) : i \in U}
<1>1. IsFiniteSet(all(S))
  BY BytesAreFinite
<1>2. all(T) \in SUBSET all(S)
  OBVIOUS
<1>3. Bytes(S) = Cardinality(all(S)) /\ Bytes(T) = Cardinality(all(T))
  BY DEF Bytes
<1> HIDE DEF all
<1> QED
  BY <1>1, <1>2, <1>3, FS_Subset, FS_CardinalityType

\* A result that is not empty has a first row.
LEMMA LeastRow == ASSUME NEW S \in SUBSET Row, S # {} PROVE \E i \in S : \A j \in S : i <= j
<1> DEFINE s == Ascending(S)
           n == Cardinality(S)
<1>0. S \subseteq Int /\ S \subseteq Nat /\ IsFiniteSet(S)
  BY RowsAreNumbers
<1>1. /\ n \in Nat /\ s \in [1 .. n -> S] /\ \A x \in S : \E i \in 1 .. n : s[i] = x
      /\ \A i, j \in 1 .. n : i < j <=> s[i] < s[j]
  BY <1>0, AscendingLists
<1> HIDE DEF s, n
<1>2. 1 \in 1 .. n
  BY <1>1
<1>3. ASSUME NEW x \in S PROVE s[1] <= x
  <2>1. PICK i \in 1 .. n : s[i] = x
    BY <1>1
  <2>2. s[1] \in Nat /\ s[i] \in Nat /\ (1 < i => s[1] < s[i])
    BY <1>1, <1>2, RowsAreNumbers
  <2> QED
    BY <1>1, <2>1, <2>2
<1> QED
  BY <1>1, <1>2, <1>3

\* And it has a last one.
LEMMA GreatestRow ==
    ASSUME NEW S \in SUBSET Row, S # {}
    PROVE  /\ Max(S) \in S /\ \A j \in S : j <= Max(S)
           /\ Last(Ascending(S)) = Max(S)
<1> DEFINE s == Ascending(S)
           n == Cardinality(S)
<1>0. S \subseteq Int /\ S \subseteq Nat /\ IsFiniteSet(S)
  BY RowsAreNumbers
<1>1. /\ n \in Nat /\ s \in [1 .. n -> S] /\ \A x \in S : \E i \in 1 .. n : s[i] = x
      /\ \A i, j \in 1 .. n : i < j <=> s[i] < s[j]
      /\ Len(s) = n
  BY <1>0, AscendingLists
<1> HIDE DEF s, n
<1>2. n \in 1 .. n
  BY <1>1
<1>3. ASSUME NEW x \in S PROVE x <= s[n]
  <2>1. PICK i \in 1 .. n : s[i] = x
    BY <1>1
  <2>2. s[n] \in Nat /\ s[i] \in Nat /\ (i < n => s[i] < s[n])
    BY <1>1, <1>2, RowsAreNumbers
  <2> QED
    BY <1>1, <2>1, <2>2
<1>4. s[n] \in S
  BY <1>1, <1>2
<1>5. Max(S) \in S /\ \A j \in S : Max(S) >= j
  BY <1>3, <1>4, RowsAreNumbers DEF Max
<1>6. Max(S) = s[n]
  <2>1. Max(S) <= s[n] /\ s[n] <= Max(S) /\ Max(S) \in Nat /\ s[n] \in Nat
    BY <1>0, <1>3, <1>4, <1>5
  <2> QED
    BY <2>1
<1> QED
  BY <1>1, <1>3, <1>4, <1>6 DEF Last, s

\* The page behind a cursor is the rows from the cursor up to the last of the page, in order.
LEMMA PageIsNext ==
    ASSUME NEW S \in SUBSET Row, NEW cursor \in Row \cup {None}, NEW limit \in Limit
    PROVE  \E P \in SUBSET After(S, cursor) :
             /\ PgPage(S, cursor, limit).items = Ascending(P)
             /\ PgPage(S, cursor, limit).more = (P # {} /\ After(S, Max(P)) # {})
             /\ \A i \in P, j \in After(S, cursor) \ P : i < j
             /\ After(S, cursor) # {} => P # {}
<1> DEFINE rest == After(S, cursor)
           rank(i) == Cardinality({j \in rest : j <= i})
           base == Base(S, cursor, limit)
           sum(i) == Bytes({j \in base : j <= i})
           P == {i \in base : (\A j \in base : i <= j) \/ sum(i) <= PageBytes}
<1>0. limit \in Nat \ {0} /\ PageBytes \in Nat
  BY ResultDeliveryAssumption DEF ResultDeliveryAssumption
<1>1. rest \in SUBSET Row /\ base \in SUBSET rest
  BY DEF After, Base
<1>a. rest \subseteq Nat /\ base \subseteq Nat
  BY <1>1, RowsAreNumbers
<1>2. base = {i \in rest : rank(i) <= limit}
  BY DEF Base
<1>3. ASSUME NEW i \in rest, NEW j \in rest, i <= j
      PROVE  rank(i) <= rank(j) /\ rank(i) \in Nat /\ rank(j) \in Nat
  <2>1. {q \in rest : q <= i} \in SUBSET {q \in rest : q <= j}
    <3> HIDE DEF rest
    <3>1. \A q \in rest : q <= i => q <= j
      BY <1>3, <1>a
    <3> QED
      BY <3>1
  <2>2. {q \in rest : q <= j} \in SUBSET Row /\ {q \in rest : q <= i} \in SUBSET Row
    BY <1>1
  <2> QED
    BY <2>1, <2>2, RowsAreNumbers, FS_Subset
<1>4. ASSUME NEW i \in base, NEW j \in rest \ base PROVE i < j
  <2>1. i \in Nat /\ j \in Nat
    BY <1>1, RowsAreNumbers
  <2>2. ~(j <= i)
    <3>1. rank(i) <= limit /\ ~(rank(j) <= limit)
      BY <1>2
    <3>2. SUFFICES ASSUME j <= i PROVE FALSE
      OBVIOUS
    <3>3. rank(j) <= rank(i) /\ rank(i) \in Nat /\ rank(j) \in Nat
      BY <1>1, <1>3, <3>2
    <3> QED
      BY <1>0, <3>1, <3>3
  <2> QED
    BY <2>1, <2>2
<1>5. ASSUME NEW i \in P, NEW j \in base \ P PROVE i < j
  <2>1. i \in Nat /\ j \in Nat
    BY <1>1, RowsAreNumbers
  <2>2. ~(j <= i)
    <3>1. SUFFICES ASSUME j <= i PROVE FALSE
      OBVIOUS
    <3>2. CASE \A q \in base : i <= q
      <4>1. i = j
        BY <2>1, <3>1, <3>2
      <4> QED
        BY <4>1
    <3>3. CASE sum(i) <= PageBytes
      <4>1. {q \in base : q <= j} \in SUBSET {q \in base : q <= i}
        <5> HIDE DEF base
        <5>1. \A q \in base : q <= j => q <= i
          BY <1>a, <2>1, <3>1
        <5> QED
          BY <5>1
      <4>2. {q \in base : q <= i} \in SUBSET Row
        BY <1>1
      <4>3. sum(j) <= sum(i) /\ sum(j) \in Nat /\ sum(i) \in Nat
        BY <4>1, <4>2, BytesGrow
      <4>4. ~(sum(j) <= PageBytes)
        OBVIOUS
      <4> QED
        BY <1>0, <3>3, <4>3, <4>4
    <3> QED
      BY <3>2, <3>3
  <2> QED
    BY <2>1, <2>2
<1>6. ASSUME rest # {} PROVE P # {}
  <2>1. PICK i \in rest : \A j \in rest : i <= j
    BY <1>1, <1>6, LeastRow
  <2>2. {j \in rest : j <= i} = {i}
    <3> HIDE DEF rest
    <3>1. \A j \in rest : j <= i <=> j = i
      BY <1>a, <2>1
    <3> QED
      BY <3>1
  <2>3. rank(i) = 1
    BY <2>2, FS_Singleton
  <2>4. i \in base
    BY <1>0, <1>2, <2>3
  <2>5. \A j \in base : i <= j
    BY <1>1, <2>1
  <2> QED
    BY <2>4, <2>5
<1> DEFINE more == P # {} /\ After(S, Max(P)) # {}
<1>7. PgPage(S, cursor, limit) = [items |-> Ascending(P), bytes |-> Bytes(P), more |-> more]
  BY DEF PgPage
<1>8. P \in SUBSET rest
  BY <1>1
<1>9. \A i \in P, j \in rest \ P : i < j
  BY <1>4, <1>5
<1> HIDE DEF P, rest, base, more
<1>10. PgPage(S, cursor, limit).items = Ascending(P)
  BY <1>7
<1>11. PgPage(S, cursor, limit).more = more
  BY <1>7
<1>12. PgPage(S, cursor, limit).more = (P # {} /\ After(S, Max(P)) # {})
  BY <1>11 DEF more
<1> QED
  BY <1>6, <1>8, <1>9, <1>10, <1>12 DEF rest

\* A page that is answered is the page of PostgreSQL.
LEMMA PagesArePages ==
    ASSUME NEW S \in SUBSET Row, NEW cursor \in Row \cup {None}, NEW limit \in Limit
    PROVE  Pages[S][cursor][limit] = PgPage(S, cursor, limit)
BY DEF Pages

(***************************************************************************)
(* The two stores (ResultDelivery).  The loop of SQLite takes the rows of a *)
(* page of rows one by one and stops at the first that does not fit;       *)
(* PostgreSQL takes all whose sum fits, and the first.  Sums grow with rows, *)
(* so they are the same rows.                                              *)
(***************************************************************************)
\* One more row adds its bytes.
LEMMA BytesAdd ==
    ASSUME NEW S \in SUBSET Row, NEW i \in Row, i \notin S
    PROVE  Bytes(S \cup {i}) = Bytes(S) + Size[i] /\ Bytes(S) \in Nat /\ Size[i] \in Nat \ {0}
<1> DEFINE bytes(j) == {j} \X (1 .. Size[j])
           all(U)   == UNION {bytes(j) : j \in U}
<1>1. Size[i] \in Nat \ {0}
  BY ResultDeliveryAssumption DEF ResultDeliveryAssumption, Row
<1>2. IsFiniteSet(bytes(i)) /\ Cardinality(bytes(i)) = Size[i]
  <2>1. IsFiniteSet(1 .. Size[i]) /\ Cardinality(1 .. Size[i]) = Size[i]
    <3>1. 1 \in Int /\ Size[i] \in Int /\ 1 <= Size[i]
      BY <1>1
    <3>2. IsFiniteSet(1 .. Size[i]) /\ Cardinality(1 .. Size[i]) = IF 1 > Size[i] THEN 0 ELSE Size[i] - 1 + 1
      BY <3>1, FS_Interval
    <3> QED BY <3>1, <3>2
  <2>2. IsFiniteSet({i}) /\ Cardinality({i}) = 1
    BY FS_Singleton
  <2>3. IsFiniteSet(bytes(i)) /\ Cardinality(bytes(i)) = Cardinality({i}) * Cardinality(1 .. Size[i])
    BY <2>1, <2>2, FS_Product
  <2> QED BY <1>1, <2>1, <2>2, <2>3
<1>3. all(S \cup {i}) = all(S) \cup bytes(i)
  OBVIOUS
<1>4. all(S) \cap bytes(i) = {}
  OBVIOUS
<1>5. Bytes(S) = Cardinality(all(S)) /\ Bytes(S \cup {i}) = Cardinality(all(S \cup {i}))
  BY DEF Bytes
<1>6. IsFiniteSet(all(S))
  BY BytesAreFinite
<1> HIDE DEF bytes, all
<1>7. Cardinality(all(S) \cup bytes(i)) = Cardinality(all(S)) + Cardinality(bytes(i)) - Cardinality(all(S) \cap bytes(i))
  BY <1>2, <1>6, FS_Union
<1>8. Cardinality(all(S) \cap bytes(i)) = 0
  BY <1>4, FS_EmptySet
<1>9. Cardinality(all(S)) \in Nat
  BY <1>6, FS_CardinalityType
<1>10. Bytes(S \cup {i}) = Cardinality(all(S)) + Size[i] - 0
  BY <1>2, <1>3, <1>5, <1>7, <1>8
<1> QED
  BY <1>1, <1>5, <1>9, <1>10

\* The first n of a list.
FirstOf(list, n) == {list[k] : k \in 1 .. n}

\* The first rows of a page of rows, in order.
LEMMA FrontsOfList ==
    ASSUME NEW B \in SUBSET Row
    PROVE  LET list == Ascending(B)
               N    == Cardinality(B)
           IN /\ N \in Nat /\ Len(list) = N /\ list \in [1 .. N -> B]
              /\ \A i, j \in 1 .. N : i < j <=> list[i] < list[j]
              /\ FirstOf(list, 0) = {} /\ FirstOf(list, N) = B
              /\ \A n \in 0 .. N : FirstOf(list, n) \in SUBSET B /\ Ascending(FirstOf(list, n)) = [k \in 1 .. n |-> list[k]]
              /\ \A n \in 1 .. N : /\ FirstOf(list, n) = FirstOf(list, n - 1) \cup {list[n]}
                                   /\ list[n] \notin FirstOf(list, n - 1)
                                   /\ FirstOf(list, n) = {j \in B : j <= list[n]}
<1> DEFINE list == Ascending(B)
           N    == Cardinality(B)
<1>0. B \subseteq Nat /\ B \subseteq Int /\ IsFiniteSet(B)
  BY RowsAreNumbers
<1>1. /\ N \in Nat /\ Len(list) = N /\ list \in [1 .. N -> B]
      /\ \A x \in B : \E i \in 1 .. N : list[i] = x
      /\ \A i, j \in 1 .. N : i < j <=> list[i] < list[j]
  BY <1>0, AscendingLists
<1> HIDE DEF list, N
<1>2. \A i \in 1 .. N : list[i] \in B /\ list[i] \in Nat
  BY <1>0, <1>1
<1>3. FirstOf(list, 0) = {} /\ FirstOf(list, N) = B
  BY <1>1 DEF FirstOf
<1>4. \A n \in 0 .. N : FirstOf(list, n) \in SUBSET B
  BY <1>1 DEF FirstOf
<1>5. ASSUME NEW n \in 1 .. N
      PROVE  /\ FirstOf(list, n) = FirstOf(list, n - 1) \cup {list[n]}
             /\ list[n] \notin FirstOf(list, n - 1)
             /\ FirstOf(list, n) = {j \in B : j <= list[n]}
  <2>1. 1 .. n = (1 .. n - 1) \cup {n}
    BY <1>1
  <2>2. FirstOf(list, n) = FirstOf(list, n - 1) \cup {list[n]}
    BY <2>1 DEF FirstOf
  <2>3. \A k \in 1 .. n - 1 : list[k] < list[n]
    BY <1>1
  <2>4. list[n] \notin FirstOf(list, n - 1)
    <3>1. \A k \in 1 .. n - 1 : list[k] # list[n]
      BY <1>1, <1>2, <2>3
    <3> QED BY <3>1 DEF FirstOf
  <2>5. \A k \in 1 .. N : list[k] <= list[n] <=> k \in 1 .. n
    BY <1>1, <1>2
  <2>6. FirstOf(list, n) = {j \in B : j <= list[n]}
    BY <1>1, <2>5 DEF FirstOf
  <2> QED BY <2>2, <2>4, <2>6
<1>6. ASSUME NEW n \in 0 .. N PROVE Ascending(FirstOf(list, n)) = [k \in 1 .. n |-> list[k]]
  <2> DEFINE F == FirstOf(list, n)
             s == [k \in 1 .. n |-> list[k]]
             less == {p \in F \X F : p[1] < p[2]}
  <2>1. F \in SUBSET B /\ F \subseteq Int /\ IsFiniteSet(F)
    BY <1>0, <1>4, FS_Subset
  <2>2. \A k \in 1 .. n : s[k] = list[k] /\ list[k] \in F /\ k \in 1 .. N
    BY <1>1 DEF FirstOf
  <2>3. Cardinality(F) = n
    <3>1. s \in Bijection(1 .. n, F)
      <4>1. s \in [1 .. n -> F]
        BY <2>2
      <4>2. \A i, j \in 1 .. n : s[i] = s[j] => i = j
        BY <1>1, <1>2, <2>2
      <4>3. \A x \in F : \E k \in 1 .. n : s[k] = x
        BY <2>2 DEF FirstOf
      <4> HIDE DEF F, s
      <4> QED BY <4>1, <4>2, <4>3 DEF Bijection, Injection, Surjection, IsInjective
    <3>2. IsFiniteSet(1 .. n) /\ Cardinality(1 .. n) = n
      BY <1>1, FS_Interval
    <3> HIDE DEF F, s
    <3> QED BY <3>1, <3>2, FS_Bijection DEF ExistsBijection
  <2>4. Orders(less, F)
    BY <2>1, NumbersAreOrdered
  <2>5. Lists(s, F, less)
    <3>1. s \in [1 .. n -> F] /\ \A x \in F : \E k \in 1 .. n : s[k] = x
      BY <2>2 DEF FirstOf
    <3>2. \A i, j \in 1 .. n : i < j <=> <<s[i], s[j]>> \in less
      BY <1>1, <2>2
    <3> HIDE DEF s, F, less
    <3> QED BY <2>3, <3>1, <3>2 DEF Lists
  <2>6. s = InOrder(F, less)
    <3> HIDE DEF s, F, less
    <3> QED BY <2>1, <2>4, <2>5, OneList
  <2> QED BY <2>6 DEF Ascending
<1> QED
  BY <1>1, <1>3, <1>4, <1>5, <1>6 DEF list, N

PageState == [items : Seq(Row), bytes : Nat, stopped : BOOLEAN]

\* The loop has taken the first m of the n rows it has seen: all that fit, and the first of all.
TookFirst(list, n, m, page) ==
    /\ page \in PageState
    /\ page.items = [k \in 1 .. m |-> list[k]]
    /\ page.bytes = Bytes(FirstOf(list, m))
    /\ page.stopped <=> m < n
    /\ n > 0 => m > 0
    /\ m < n => Bytes(FirstOf(list, m + 1)) > PageBytes
    /\ \A k \in 2 .. m : Bytes(FirstOf(list, k)) <= PageBytes

\* A turn of the loop leaves a page.
LEMMA TurnKeepsPage ==
    ASSUME NEW page \in PageState, NEW i \in Row
    PROVE  TakeRow(page, i) \in PageState
<1>1. Size[i] \in Nat
  BY ResultDeliveryAssumption DEF ResultDeliveryAssumption, Row
<1>2. Append(page.items, i) \in Seq(Row) /\ page.bytes + Size[i] \in Nat
  BY <1>1 DEF PageState
<1> QED BY <1>2 DEF TakeRow, PageState

\* A turn of the loop takes the next row, or stops and takes no more.
LEMMA RowIsTaken ==
    ASSUME NEW B \in SUBSET Row, NEW n \in 1 .. Cardinality(B), NEW m \in 0 .. n - 1, NEW page,
           TookFirst(Ascending(B), n - 1, m, page)
    PROVE  \E q \in 0 .. n : TookFirst(Ascending(B), n, q, TakeRow(page, Ascending(B)[n]))
<1> DEFINE list == Ascending(B)
           N == Cardinality(B)
           after == TakeRow(page, list[n])
<1>0. PageBytes \in Nat
  BY ResultDeliveryAssumption DEF ResultDeliveryAssumption
<1>1. /\ N \in Nat /\ list \in [1 .. N -> B]
      /\ \A k \in 0 .. N : FirstOf(list, k) \in SUBSET B
      /\ FirstOf(list, n) = FirstOf(list, n - 1) \cup {list[n]} /\ list[n] \notin FirstOf(list, n - 1)
  BY FrontsOfList
<1> HIDE DEF list, N
<1>2. n \in 1 .. N /\ n \in Nat /\ m \in Nat
  BY <1>1 DEF N
<1>3. list[n] \in Row /\ list[n] \in B /\ FirstOf(list, n - 1) \in SUBSET Row
  BY <1>1, <1>2
<1>4. /\ Bytes(FirstOf(list, n)) = Bytes(FirstOf(list, n - 1)) + Size[list[n]]
      /\ Bytes(FirstOf(list, n - 1)) \in Nat /\ Size[list[n]] \in Nat
  BY <1>1, <1>3, BytesAdd
<1>5. TookFirst(list, n - 1, m, page)
  BY DEF list
<1>6. page \in PageState /\ after \in PageState
  BY <1>3, <1>5, TurnKeepsPage DEF TookFirst
<1>7. CASE m < n - 1
  <2>1. page.stopped
    BY <1>5, <1>7 DEF TookFirst
  <2>2. after = [page EXCEPT !.stopped = TRUE]
    BY <2>1 DEF TakeRow
  <2>3. after.items = page.items /\ after.bytes = page.bytes /\ after.stopped
    BY <1>6, <2>2 DEF PageState
  <2> HIDE DEF after
  <2>4. TookFirst(list, n, m, after)
    BY <1>2, <1>5, <1>6, <1>7, <2>3 DEF TookFirst
  <2> QED BY <1>2, <2>4 DEF list, after
<1>8. CASE m = n - 1
  <2>1. ~page.stopped
    BY <1>2, <1>5, <1>8 DEF TookFirst
  <2>2. page.items \in Seq(Row) /\ Len(page.items) = m /\ page.items = [k \in 1 .. m |-> list[k]]
    <3>1. page.items \in Seq(Row) /\ page.items = [k \in 1 .. m |-> list[k]]
      BY <1>5 DEF TookFirst, PageState
    <3> QED BY <1>2, <3>1
  <2>3. page.items # <<>> <=> m > 0
    BY <1>2, <2>2
  <2>4. page.bytes = Bytes(FirstOf(list, n - 1))
    BY <1>5, <1>8 DEF TookFirst
  <2>5. CASE m > 0 /\ page.bytes + Size[list[n]] > PageBytes
    <3>1. after = [page EXCEPT !.stopped = TRUE]
      BY <2>3, <2>5 DEF TakeRow
    <3>2. after.items = page.items /\ after.bytes = page.bytes /\ after.stopped
      BY <1>6, <3>1 DEF PageState
    <3> HIDE DEF after
    <3>3. TookFirst(list, n, m, after)
      BY <1>2, <1>4, <1>5, <1>6, <1>8, <2>4, <2>5, <3>2 DEF TookFirst
    <3> QED BY <1>2, <3>3 DEF list, after
  <2>6. CASE ~(m > 0 /\ page.bytes + Size[list[n]] > PageBytes)
    <3>1. after = [page EXCEPT !.items = Append(page.items, list[n]), !.bytes = page.bytes + Size[list[n]]]
      BY <2>1, <2>3, <2>6 DEF TakeRow
    <3>2. after.items = Append(page.items, list[n]) /\ after.bytes = page.bytes + Size[list[n]] /\ ~after.stopped
      BY <1>6, <2>1, <3>1 DEF PageState
    <3> HIDE DEF after
    <3>3. after.items = [k \in 1 .. n |-> list[k]]
      <4>1. Append(page.items, list[n]) \in Seq(Row) /\ Len(Append(page.items, list[n])) = n
        BY <1>2, <1>3, <1>8, <2>2
      <4>2. \A k \in 1 .. n : Append(page.items, list[n])[k] = list[k]
        BY <1>2, <1>3, <1>8, <2>2
      <4> QED BY <3>2, <4>1, <4>2
    <3>4. \A k \in 2 .. n : Bytes(FirstOf(list, k)) <= PageBytes
      <4> TAKE k \in 2 .. n
      <4>1. CASE k = n
        <5>1. m > 0
          BY <1>2, <1>8, <4>1
        <5> QED BY <1>0, <1>4, <2>4, <2>6, <4>1, <5>1
      <4>2. CASE k \in 2 .. m
        BY <1>5, <4>2 DEF TookFirst
      <4> QED BY <1>2, <1>8, <4>1, <4>2
    <3>5. TookFirst(list, n, n, after)
      BY <1>2, <1>4, <1>6, <2>4, <3>2, <3>3, <3>4 DEF TookFirst
    <3> QED BY <1>2, <3>5 DEF list, after
  <2> QED BY <2>5, <2>6
<1> QED BY <1>2, <1>7, <1>8

\* The loop takes as many of the first rows as fit.
LEMMA LoopTakesFirst ==
    ASSUME NEW B \in SUBSET Row
    PROVE  \E m \in 0 .. Cardinality(B) : TookFirst(Ascending(B), Cardinality(B), m, Taken(Ascending(B)))
<1> DEFINE list == Ascending(B)
           N == Cardinality(B)
           none == [items |-> <<>>, bytes |-> 0, stopped |-> FALSE]
           turn == [n \in 1 .. N |-> [page \in PageState |-> TakeRow(page, list[n])]]
           is(g) == g = [n \in 0 .. Len(list) |-> IF n = 0 THEN none ELSE TakeRow(g[n - 1], list[n])]
           upTo == CHOOSE g : is(g)
<1>1. N \in Nat /\ Len(list) = N /\ list \in [1 .. N -> B] /\ FirstOf(list, 0) = {}
  BY FrontsOfList
<1>2. \A n \in 1 .. N : list[n] \in Row
  BY <1>1
<1>3. none \in PageState
  BY DEF PageState
<1>4. ASSUME NEW n \in 1 .. N, NEW page \in PageState PROVE TakeRow(page, list[n]) \in PageState
  BY <1>2, TurnKeepsPage
<1>5. turn \in [1 .. N -> [PageState -> PageState]]
  BY <1>4
<1>6. PICK g : LoopOf(g, N, PageState, none, turn)
  <2> HIDE DEF N, none, turn
  <2> QED BY <1>1, <1>3, <1>5, LoopExists
<1>7. /\ g \in [0 .. N -> PageState]
      /\ \A n \in 0 .. N : g[n] = IF n = 0 THEN none ELSE TakeRow(g[n - 1], list[n])
  <2>1. g \in [0 .. N -> PageState] /\ g[0] = none /\ \A n \in 1 .. N : g[n] = turn[n][g[n - 1]]
    BY <1>6 DEF LoopOf
  <2>2. \A n \in 1 .. N : g[n - 1] \in PageState
    BY <1>1, <2>1
  <2>3. ASSUME NEW n \in 1 .. N PROVE g[n] = TakeRow(g[n - 1], list[n])
    <3>1. g[n] = turn[n][g[n - 1]] /\ g[n - 1] \in PageState
      BY <2>1, <2>2
    <3> QED BY <3>1
  <2> HIDE DEF turn, none
  <2> QED BY <1>1, <2>1, <2>3
<1>8. is(g)
  BY <1>1, <1>7
<1>9. is(upTo)
  <2> HIDE DEF is
  <2> QED BY <1>8
<1>10. Taken(list) = upTo[N]
  BY <1>1 DEF Taken
<1>11. upTo[0] = none /\ \A n \in 1 .. N : upTo[n] = TakeRow(upTo[n - 1], list[n])
  <2>1. upTo = [n \in 0 .. N |-> IF n = 0 THEN none ELSE TakeRow(upTo[n - 1], list[n])]
    BY <1>1, <1>9
  <2> HIDE DEF upTo, none, list, N
  <2>2. \A n \in 0 .. N : upTo[n] = IF n = 0 THEN none ELSE TakeRow(upTo[n - 1], list[n])
    BY <2>1
  <2> QED BY <1>1, <2>2
<1> HIDE DEF upTo, turn, is
<1> DEFINE T == {n \in 0 .. N : \E m \in 0 .. n : TookFirst(list, n, m, upTo[n])}
<1>12. 0 \in T
  <2>1. Bytes({}) = 0
    BY FS_EmptySet DEF Bytes
  <2>2. [k \in 1 .. 0 |-> list[k]] = <<>>
    OBVIOUS
  <2>3. none.items = <<>> /\ none.bytes = 0 /\ ~none.stopped
    OBVIOUS
  <2> HIDE DEF none, list
  <2>4. TookFirst(list, 0, 0, none)
    <3>1. ~(0 < 0) /\ ~(0 > 0) /\ \A k \in 2 .. 0 : FALSE
      OBVIOUS
    <3>2. none.items = [k \in 1 .. 0 |-> list[k]] /\ none.bytes = Bytes(FirstOf(list, 0))
      BY <1>1, <2>1, <2>2, <2>3
    <3> QED BY <1>3, <2>3, <3>1, <3>2 DEF TookFirst
  <2> QED BY <1>1, <1>11, <2>4
<1>13. \A n \in 1 .. N : n - 1 \in T => n \in T
  <2> TAKE n \in 1 .. N
  <2> SUFFICES ASSUME n - 1 \in T PROVE \E m \in 0 .. n : TookFirst(list, n, m, upTo[n])
    BY <1>1
  <2>1. PICK m \in 0 .. n - 1 : TookFirst(list, n - 1, m, upTo[n - 1])
    OBVIOUS
  <2>2. \E q \in 0 .. n : TookFirst(list, n, q, TakeRow(upTo[n - 1], list[n]))
    BY <2>1, RowIsTaken
  <2> QED BY <1>11, <2>2
<1>14. N \in T
  <2> HIDE DEF T, N
  <2>1. \A n \in 0 .. N : n \in T
    BY ONLY <1>1, <1>12, <1>13, TurnByTurn
  <2> QED BY <1>1, <2>1
<1> QED BY <1>10, <1>14

\* What does not fit into a page of rows is behind all that does, and then the page is full.
LEMMA BaseIsFull ==
    ASSUME NEW S \in SUBSET Row, NEW cursor \in Row \cup {None}, NEW limit \in Limit
    PROVE  LET rest == After(S, cursor)
               base == Base(S, cursor, limit)
           IN /\ rest \in SUBSET Row /\ base \in SUBSET rest
              /\ \A i \in base, j \in rest \ base : i < j
              /\ Cardinality(base) <= limit
              /\ rest # base => Cardinality(base) = limit
<1> DEFINE rest == After(S, cursor)
           base == Base(S, cursor, limit)
           rank(i) == Cardinality({j \in rest : j <= i})
<1>0. limit \in Nat \ {0}
  BY ResultDeliveryAssumption DEF ResultDeliveryAssumption
<1>1. rest \in SUBSET Row /\ base \in SUBSET rest /\ base = {i \in rest : rank(i) <= limit}
  BY DEF After, Base
<1> HIDE DEF rest, base
<1>2. rest \subseteq Nat /\ base \subseteq Nat /\ IsFiniteSet(rest) /\ IsFiniteSet(base)
      /\ Cardinality(base) \in Nat
  BY <1>1, RowsAreNumbers
<1>3. ASSUME NEW i \in rest, NEW j \in rest, i <= j
      PROVE  rank(i) <= rank(j) /\ rank(i) \in Nat /\ rank(j) \in Nat
  <2>1. {q \in rest : q <= i} \in SUBSET {q \in rest : q <= j}
    <3>1. \A q \in rest : q <= i => q <= j
      BY <1>2, <1>3
    <3> QED
      BY <3>1
  <2>2. {q \in rest : q <= j} \in SUBSET Row /\ {q \in rest : q <= i} \in SUBSET Row
    BY <1>1
  <2> QED
    BY <2>1, <2>2, RowsAreNumbers, FS_Subset
<1>4. ASSUME NEW i \in base, NEW j \in rest \ base PROVE i < j
  <2>1. rank(i) <= limit /\ ~(rank(j) <= limit)
    BY <1>1
  <2>2. ~(j <= i)
    BY <1>0, <1>1, <1>3, <2>1
  <2> QED BY <1>1, <1>2, <2>2
<1>5. Cardinality(base) <= limit
  <2>1. CASE base = {}
    BY <1>0, <2>1, FS_EmptySet
  <2>2. CASE base # {}
    <3>1. Max(base) \in base /\ \A j \in base : j <= Max(base)
      BY <1>1, <2>2, GreatestRow
    <3> DEFINE below == {q \in rest : q <= Max(base)}
    <3>2. base \in SUBSET below /\ below \in SUBSET Row
      BY <1>1, <3>1
    <3>3. Cardinality(base) <= Cardinality(below) /\ Cardinality(below) \in Nat
      BY <3>2, RowsAreNumbers, FS_Subset
    <3>4. Cardinality(below) <= limit
      BY <1>1, <3>1
    <3> QED BY <1>0, <1>2, <3>3, <3>4
  <2> QED BY <2>1, <2>2
<1>6. ASSUME rest # base PROVE Cardinality(base) = limit
  <2>1. rest \ base # {} /\ rest \ base \in SUBSET Row
    BY <1>1, <1>6
  <2>2. PICK i \in rest \ base : \A j \in rest \ base : i <= j
    BY <2>1, LeastRow
  <2>3. {j \in rest : j <= i} = base \cup {i}
    <3>1. \A j \in rest : j <= i <=> j \in base \/ j = i
      <4> TAKE j \in rest
      <4>1. CASE j \in base
        BY <1>2, <1>4, <2>2, <4>1
      <4>2. CASE j \notin base
        BY <1>2, <2>2, <4>2
      <4> QED BY <4>1, <4>2
    <3> QED BY <1>1, <2>2, <3>1
  <2>4. Cardinality(base \cup {i}) = Cardinality(base) + 1
    BY <1>2, <2>2, FS_AddElement
  <2>5. ~(rank(i) <= limit)
    BY <1>1, <2>2
  <2> QED BY <1>0, <1>2, <1>5, <2>3, <2>4, <2>5
<1> QED BY <1>1, <1>4, <1>5, <1>6 DEF rest, base

\* PostgreSQL takes the same rows.
LEMMA PageOfFirst ==
    ASSUME NEW B \in SUBSET Row, NEW m \in 0 .. Cardinality(B), NEW page,
           TookFirst(Ascending(B), Cardinality(B), m, page)
    PROVE  {i \in B : (\A j \in B : i <= j) \/ Bytes({j \in B : j <= i}) <= PageBytes} = FirstOf(Ascending(B), m)
<1> DEFINE list == Ascending(B)
           N == Cardinality(B)
<1>0. PageBytes \in Nat
  BY ResultDeliveryAssumption DEF ResultDeliveryAssumption
<1>1. /\ N \in Nat /\ list \in [1 .. N -> B] /\ FirstOf(list, N) = B
      /\ \A i, j \in 1 .. N : i < j <=> list[i] < list[j]
      /\ \A k \in 1 .. N : FirstOf(list, k) = {j \in B : j <= list[k]}
  BY FrontsOfList
<1>2. /\ N > 0 => m > 0
      /\ m < N => Bytes(FirstOf(list, m + 1)) > PageBytes
      /\ \A k \in 2 .. m : Bytes(FirstOf(list, k)) <= PageBytes
  BY DEF TookFirst
<1>3. m \in 0 .. N
  OBVIOUS
<1> HIDE DEF list, N
<1>4. B \subseteq Nat
  BY RowsAreNumbers
<1>5. \A k \in 1 .. N : list[k] \in B /\ list[k] \in Nat
  BY <1>1, <1>4
<1>6. ASSUME NEW k \in 1 .. N
      PROVE  (\A j \in B : list[k] <= j) \/ Bytes({j \in B : j <= list[k]}) <= PageBytes <=> k <= m
  <2>1. (\A j \in B : list[k] <= j) <=> k = 1
    <3>1. 1 \in 1 .. N
      BY <1>1
    <3>2. CASE k = 1
      <4>1. ASSUME NEW j \in B PROVE list[1] <= j
        <5>1. PICK q \in 1 .. N : list[q] = j
          BY <1>1 DEF FirstOf
        <5>2. q = 1 \/ 1 < q
          BY <1>1
        <5> QED BY <1>1, <1>5, <3>1, <5>1, <5>2
      <4> QED BY <3>2, <4>1
    <3>3. CASE k # 1
      <4>1. list[1] < list[k]
        BY <1>1, <3>1, <3>3
      <4> QED BY <1>5, <3>1, <3>3, <4>1
    <3> QED BY <3>2, <3>3
  <2>2. {j \in B : j <= list[k]} = FirstOf(list, k)
    BY <1>1
  <2>3. k > m => Bytes(FirstOf(list, k)) > PageBytes
    <3> SUFFICES ASSUME k > m PROVE Bytes(FirstOf(list, k)) > PageBytes
      OBVIOUS
    <3>1. m + 1 \in 1 .. N /\ m + 1 <= k /\ m < N
      BY <1>1, <1>3
    <3>2. FirstOf(list, m + 1) \in SUBSET FirstOf(list, k) /\ FirstOf(list, k) \in SUBSET Row
      BY <1>1, <1>3, <1>5, <3>1 DEF FirstOf
    <3>3. Bytes(FirstOf(list, m + 1)) <= Bytes(FirstOf(list, k)) /\ Bytes(FirstOf(list, m + 1)) \in Nat
          /\ Bytes(FirstOf(list, k)) \in Nat
      BY <3>2, BytesGrow
    <3> QED BY <1>0, <1>2, <3>1, <3>3
  <2>4. Bytes(FirstOf(list, k)) \in Nat
    <3>1. FirstOf(list, k) \in SUBSET Row
      BY <2>2
    <3> QED BY <3>1, BytesGrow
  <2>5. CASE k <= m
    <3>1. k = 1 \/ k \in 2 .. m
      BY <1>1, <1>3, <2>5
    <3> QED BY <1>2, <2>1, <2>2, <2>5, <3>1
  <2>6. CASE k > m
    <3>1. k # 1
      BY <1>1, <1>2, <1>3, <2>6
    <3>2. ~(Bytes(FirstOf(list, k)) <= PageBytes)
      BY <1>0, <2>3, <2>4, <2>6
    <3>3. ~(k <= m)
      BY <1>1, <1>3, <2>6
    <3> QED BY <2>1, <2>2, <3>1, <3>2, <3>3
  <2> QED BY <1>1, <1>3, <2>5, <2>6
<1> DEFINE P == {i \in B : (\A j \in B : i <= j) \/ Bytes({j \in B : j <= i}) <= PageBytes}
<1>7. \A k \in 1 .. N : list[k] \in P <=> k <= m
  BY <1>5, <1>6
<1> HIDE DEF P
<1>8. P = FirstOf(list, m)
  <2>1. \A i \in P : \E k \in 1 .. N : list[k] = i
    BY <1>1 DEF FirstOf, P
  <2>2. P \subseteq FirstOf(list, m)
    BY <1>1, <1>3, <1>7, <2>1 DEF FirstOf
  <2>3. FirstOf(list, m) \subseteq P
    BY <1>1, <1>3, <1>7 DEF FirstOf
  <2> QED BY <2>2, <2>3
<1> QED BY <1>8 DEF P, list

\* So the stores return the same page.
LEMMA PagesAgree ==
    ASSUME NEW S \in SUBSET Row, NEW cursor \in Row \cup {None}, NEW limit \in Limit
    PROVE  PgPage(S, cursor, limit) = SqlitePage(S, cursor, limit)
<1> DEFINE rest == After(S, cursor)
           base == Base(S, cursor, limit)
           list == Ascending(base)
           N == Cardinality(base)
           page == Taken(list)
           P == {i \in base : (\A j \in base : i <= j) \/ Bytes({j \in base : j <= i}) <= PageBytes}
<1>0. limit \in Nat \ {0}
  BY ResultDeliveryAssumption DEF ResultDeliveryAssumption
<1>1. /\ rest \in SUBSET Row /\ base \in SUBSET rest /\ base \in SUBSET Row
      /\ \A i \in base, j \in rest \ base : i < j
      /\ N <= limit /\ (rest # base => N = limit)
  BY BaseIsFull
<1>2. rest \in SUBSET S /\ \A i \in S : i \in rest <=> cursor = None \/ cursor < i
  BY DEF After
<1>3. PICK m \in 0 .. N : TookFirst(list, N, m, page)
  BY <1>1, LoopTakesFirst
<1>4. P = FirstOf(list, m)
  BY <1>1, <1>3, PageOfFirst
<1>5. PgPage(S, cursor, limit) =
         [items |-> Ascending(P), bytes |-> Bytes(P), more |-> P # {} /\ After(S, Max(P)) # {}]
  BY DEF PgPage
<1>6. SqlitePage(S, cursor, limit) =
         [items |-> page.items, bytes |-> page.bytes,
          more  |-> page.stopped \/ (Len(page.items) = limit /\ After(S, Last(page.items)) # {})]
  BY DEF SqlitePage
<1>7. /\ N \in Nat /\ Len(list) = N /\ list \in [1 .. N -> base] /\ FirstOf(list, N) = base
      /\ \A i, j \in 1 .. N : i < j <=> list[i] < list[j]
      /\ \A n \in 0 .. N : FirstOf(list, n) \in SUBSET base /\ Ascending(FirstOf(list, n)) = [k \in 1 .. n |-> list[k]]
  BY <1>1, FrontsOfList
<1> HIDE DEF P, page, list, base, rest, N
<1>8. m \in 0 .. N /\ m \in Nat /\ base \subseteq Nat /\ S \subseteq Nat /\ None \notin Row
  BY <1>1, <1>7, RowsAreNumbers
<1>9. /\ page.items = [k \in 1 .. m |-> list[k]] /\ page.bytes = Bytes(P)
      /\ (page.stopped <=> m < N) /\ (N > 0 => m > 0)
  BY <1>3, <1>4 DEF TookFirst
<1>10. page.items = Ascending(P)
  BY <1>4, <1>7, <1>8, <1>9
<1>11. P # {} <=> m > 0
  BY <1>4, <1>7, <1>8 DEF FirstOf
<1>12. ASSUME m > 0
       PROVE  /\ Max(P) = list[m] /\ Last(page.items) = list[m] /\ Len(page.items) = m
              /\ After(S, list[m]) = {i \in S : list[m] < i}
  <2>1. P \in SUBSET Row /\ P # {}
    BY <1>1, <1>4, <1>7, <1>8, <1>11, <1>12
  <2>2. Last(page.items) = Max(P)
    BY <1>10, <2>1, GreatestRow
  <2>3. Len(page.items) = m /\ page.items[m] = list[m]
    BY <1>8, <1>9, <1>12
  <2>4. Last(page.items) = list[m]
    BY <2>3 DEF Last
  <2>5. list[m] \in Row
    <3>1. m \in 1 .. N
      BY <1>7, <1>8, <1>12
    <3> QED BY <1>1, <1>7, <3>1
  <2>6. list[m] # None
    BY <1>8, <2>5
  <2> QED BY <2>2, <2>3, <2>4, <2>6 DEF After
<1>13. (P # {} /\ After(S, Max(P)) # {}) <=>
          page.stopped \/ (Len(page.items) = limit /\ After(S, Last(page.items)) # {})
  <2>1. CASE m < N
    <3>1. m > 0 /\ m + 1 \in 1 .. N /\ m \in 1 .. N /\ m < m + 1
      BY <1>7, <1>8, <1>9, <2>1
    <3>2. list[m] < list[m + 1] /\ list[m + 1] \in base
      BY <1>7, <3>1
    <3>3. list[m + 1] \in S
      BY <1>1, <1>2, <3>2
    <3>4. After(S, list[m]) # {}
      BY <1>12, <3>1, <3>2, <3>3
    <3> QED BY <1>9, <1>11, <1>12, <2>1, <3>1, <3>4
  <2>2. CASE m = N /\ N = 0
    <3>1. Len(page.items) = 0
      BY <1>8, <1>9, <2>2
    <3> QED BY <1>0, <1>8, <1>9, <1>11, <2>2, <3>1
  <2>3. CASE m = N /\ N > 0
    <3>1. ~page.stopped
      BY <1>7, <1>9, <2>3
    <3>2. P # {} /\ Max(P) = Last(page.items) /\ Len(page.items) = N
      BY <1>11, <1>12, <2>3
    <3>3. ASSUME After(S, Max(P)) # {} PROVE N = limit
      <4>1. PICK i \in S : list[m] < i
        BY <1>12, <2>3, <3>3
      <4>2. list[m] \in base /\ list[m] \in rest
        <5>1. m \in 1 .. N
          BY <1>7, <1>8, <2>3
        <5> QED BY <1>1, <1>7, <5>1
      <4>3. i \in rest
        <5>1. cursor = None \/ cursor < list[m]
          BY <1>2, <1>1, <4>2
        <5>2. cursor # None => cursor \in Nat
          BY RowsAreNumbers
        <5>3. list[m] \in Nat /\ i \in Nat
          BY <1>8, <4>2
        <5> QED BY <1>2, <4>1, <5>1, <5>2, <5>3
      <4>4. i \notin base
        <5> SUFFICES ASSUME i \in base PROVE FALSE
          OBVIOUS
        <5>1. PICK k \in 1 .. N : list[k] = i
          BY <1>7 DEF FirstOf
        <5>2. m \in 1 .. N /\ m < k
          BY <1>7, <2>3, <4>1, <5>1
        <5> QED BY <1>7, <2>3, <5>2
      <4> QED BY <1>1, <4>3, <4>4
    <3> QED BY <3>1, <3>2, <3>3
  <2> QED BY <1>7, <1>8, <2>1, <2>2, <2>3
<1>14. (P # {} /\ After(S, Max(P)) # {}) =
          (page.stopped \/ (Len(page.items) = limit /\ After(S, Last(page.items)) # {}))
  BY Zenon, <1>13
<1> QED BY <1>5, <1>6, <1>9, <1>10, <1>14

\* And they do so for every result a client may ask for.
LEMMA BothStoresAgree == DeliveryInv => StoresAgree
BY PagesAgree, PagesArePages DEF StoresAgree, DeliveryInv

(***************************************************************************)
(* What the client has after a page is the beginning that it has now.      *)
(***************************************************************************)
LEMMA PageGoesOn ==
    ASSUME NEW S \in SUBSET Row, NEW has, NEW cursor \in Row \cup {None}, NEW limit \in Limit,
           cursor # None => has = Ascending(UpTo(S, cursor))
    PROVE  LET page == PgPage(S, cursor, limit)
           IN  /\ page.more \in BOOLEAN
               /\ page.more =>
                    Received(S, (IF cursor = None THEN <<>> ELSE has) \o page.items, Last(page.items), FALSE)
               /\ ~page.more =>
                    Received(S, (IF cursor = None THEN <<>> ELSE has) \o page.items, None, TRUE)
<1> DEFINE page == PgPage(S, cursor, limit)
           low == IF cursor = None THEN {} ELSE UpTo(S, cursor)
           now == (IF cursor = None THEN <<>> ELSE has) \o page.items
<1>1. PICK P \in SUBSET After(S, cursor) :
         /\ page.items = Ascending(P)
         /\ page.more = (P # {} /\ After(S, Max(P)) # {})
         /\ \A i \in P, j \in After(S, cursor) \ P : i < j
         /\ After(S, cursor) # {} => P # {}
  BY PageIsNext
<1>2. /\ low \in SUBSET Row /\ P \in SUBSET Row /\ low \cup P \in SUBSET Row
      /\ low \cup After(S, cursor) = S /\ \A i \in low, j \in P : i < j
    <2>1. low \in SUBSET S /\ After(S, cursor) \in SUBSET S /\ low \cup After(S, cursor) = S
    <3>1. CASE cursor = None
      BY <3>1 DEF After
    <3>2. CASE cursor # None
      <4>1. S \subseteq Nat /\ cursor \in Nat
        BY <3>2, RowsAreNumbers
      <4>2. \A i \in S : i <= cursor \/ cursor < i
        BY <4>1
      <4> QED
        BY <3>2, <4>2 DEF After, UpTo
    <3> QED
      BY <3>1, <3>2
  <2>2. ASSUME NEW i \in low, NEW j \in P PROVE i < j
    <3>1. cursor # None /\ i \in S /\ i <= cursor /\ j \in S /\ cursor < j
      BY <2>2 DEF After, UpTo
    <3>2. i \in Nat /\ j \in Nat /\ cursor \in Nat
      BY <3>1, RowsAreNumbers
    <3> QED
      BY <3>1, <3>2
  <2> QED
    BY <2>1, <2>2
<1>3. /\ IsFiniteSet(low) /\ IsFiniteSet(P) /\ low \cup P \subseteq Int
      /\ low \subseteq Int /\ P \subseteq Int /\ IsFiniteSet(low \cup P)
  BY <1>2, FiniteRows
<1> HIDE DEF page
<1>4. now = Ascending(low \cup P)
  <2>1. Ascending(low) \o Ascending(P) = Ascending(low \cup P)
    BY <1>2, <1>3, AscendingJoins
  <2>2. (IF cursor = None THEN <<>> ELSE has) = Ascending(low)
    <3>1. CASE cursor # None
      BY <3>1
    <3>2. CASE cursor = None
      <4>1. low = {}
        BY <3>2
      <4>2. Cardinality({}) = 0 /\ Len(Ascending({})) = Cardinality({}) /\ Ascending({}) \in Seq({})
        BY <1>3, <4>1, AscendingLists, FS_EmptySet
      <4>3. Ascending({}) = <<>>
        BY <4>2
      <4> QED
        BY <3>2, <4>1, <4>3
    <3> QED
      BY <3>1, <3>2
  <2> QED
    BY <1>1, <2>1, <2>2
<1>5. now \in Seq(Row)
  <2>1. now \in Seq(low \cup P)
    BY <1>3, <1>4, AscendingLists
  <2> QED
    BY <1>2, <2>1
<1>6. page.more \in BOOLEAN
  BY <1>1
<1> HIDE DEF now, low
<1>7. ASSUME page.more PROVE Received(S, now, Last(page.items), FALSE)
  <2>1. P # {} /\ Max(P) \in P /\ (\A j \in P : j <= Max(P)) /\ Last(page.items) = Max(P)
    BY <1>1, <1>2, <1>7, GreatestRow
  <2>2. UpTo(S, Max(P)) = low \cup P
    <3>1. \A i \in S : i <= Max(P) <=> i \in low \cup P
      <4> TAKE i \in S
      <4>1. i \in Nat /\ Max(P) \in Nat
        BY <1>2, <2>1, RowsAreNumbers
      <4>2. i \in low => i < Max(P)
        BY <1>2, <2>1
      <4>3. i \notin low /\ i \notin P => Max(P) < i
        BY <1>1, <1>2, <2>1
      <4> QED
        BY <2>1, <4>1, <4>2, <4>3
    <3>2. low \cup P \subseteq S
      BY <1>2
    <3> QED
      BY <3>1, <3>2 DEF UpTo
  <2>3. Max(P) \in Row /\ Max(P) # None
    BY <1>2, <2>1, RowsAreNumbers
  <2> QED
    BY <1>4, <1>5, <2>1, <2>2, <2>3 DEF Received
<1>8. ASSUME ~page.more PROVE Received(S, now, None, TRUE)
  <2>1. low \cup P = S
    <3>1. CASE P = {}
      BY <1>1, <1>2, <3>1
    <3>2. CASE P # {}
      <4>1. Max(P) \in P /\ After(S, Max(P)) = {}
        BY <1>1, <1>2, <1>8, <3>2, GreatestRow
      <4>2. \A j \in After(S, cursor) \ P : j \in After(S, Max(P))
        BY <1>1, <4>1 DEF After
      <4> QED
        BY <1>2, <4>1, <4>2
    <3> QED
      BY <3>1, <3>2
  <2> QED
    BY <1>4, <1>5, <2>1 DEF Received
<1> QED
  BY <1>6, <1>7, <1>8 DEF page, now

(***************************************************************************)
(* Steps.                                                                  *)
(***************************************************************************)
LEMMA DeliveryInitInv == DeliveryInit => DeliveryInv
BY ResultDeliveryAssumption DEF ResultDeliveryAssumption, DeliveryInit, DeliveryInv, Received

\* A client that appends a page to what it has keeps Received.
LEMMA DeliverKeeps ==
    ASSUME DeliveryInv, NEW k \in Kind, NEW limit \in Limit, NEW cursor \in {None, next[k]},
           Deliver(k, cursor, limit), status' = status, rows' = rows, restarts' \in 0 .. MaxRestarts
    PROVE  DeliveryInv'
<1> DEFINE S == rows[k]
           page == PgPage(S, cursor, limit)
           now == (IF cursor = None THEN <<>> ELSE got[k]) \o page.items
           then == IF page.more THEN Last(page.items) ELSE None
           over == IF page.more THEN end \ {k} ELSE end \cup {k}
<1>1. /\ S \in SUBSET Row /\ cursor \in Row \cup {None}
      /\ cursor # None => got[k] = Ascending(UpTo(S, cursor))
  BY DEF DeliveryInv, Received
<1>2. /\ status = "closed" /\ Pages[S][cursor][limit] = page
      /\ got' = [got EXCEPT ![k] = now] /\ next' = [next EXCEPT ![k] = then] /\ end' = over
  <2>1. Pages[S][cursor][limit] = page
    BY <1>1, PagesArePages
  <2> HIDE DEF page
  <2> QED
    BY <2>1 DEF Deliver, Answer
<1>3. /\ page.more \in BOOLEAN
      /\ page.more => Received(S, now, Last(page.items), FALSE)
      /\ ~page.more => Received(S, now, None, TRUE)
  BY <1>1, PageGoesOn
<1> HIDE DEF page
<1> HIDE DEF now
<1>4. Received(S, now, then, k \in over)
  <2>1. CASE page.more
    <3>1. then = Last(page.items) /\ k \notin over /\ Received(S, now, Last(page.items), FALSE)
      BY <1>3, <2>1
    <3> QED
      BY <3>1 DEF Received
  <2>2. CASE ~page.more
    <3>1. then = None /\ k \in over /\ Received(S, now, None, TRUE)
      BY <1>3, <2>2
    <3> QED
      BY <3>1 DEF Received
  <2> QED
    BY <2>1, <2>2
<1>5. over \subseteq Kind /\ \A j \in Kind \ {k} : j \in over <=> j \in end
  BY DEF DeliveryInv
<1> HIDE DEF then, over
<1>6. DOMAIN got = Kind /\ DOMAIN next = Kind
  BY DEF DeliveryInv
<1>7. /\ DOMAIN got' = Kind /\ DOMAIN next' = Kind
      /\ got' = [j \in Kind |-> got'[j]] /\ next' = [j \in Kind |-> next'[j]]
      /\ got'[k] = now /\ next'[k] = then
      /\ \A j \in Kind \ {k} : got'[j] = got[j] /\ next'[j] = next[j]
  BY <1>2, <1>6
<1>8. ASSUME NEW j \in Kind PROVE Received(rows'[j], got'[j], next'[j], j \in end')
  <2>1. CASE j = k
    BY <1>2, <1>4, <1>7, <2>1
  <2>2. CASE j # k
    <3>1. Received(rows[j], got[j], next[j], j \in end)
      BY DEF DeliveryInv
    <3>2. j \in end' <=> j \in end
      BY <1>2, <1>5, <2>2
    <3> QED
      BY <1>7, <2>2, <3>1, <3>2 DEF Received
  <2> QED
    BY <2>1, <2>2
<1> QED
  BY <1>2, <1>5, <1>7, <1>8 DEF DeliveryInv

\* No step of the delivery breaks DeliveryInv.
LEMMA DeliveryNextInv == DeliveryInv /\ [DeliveryNext]_deliveryVars => DeliveryInv'
<1> SUFFICES ASSUME DeliveryInv, [DeliveryNext]_deliveryVars PROVE DeliveryInv'
  OBVIOUS
<1>0. restarts \in Nat /\ MaxRestarts \in Nat
  BY ResultDeliveryAssumption DEF ResultDeliveryAssumption, DeliveryInv
<1>1. CASE Publish
  <2>1. rows' \in [Kind -> SUBSET Row]
    BY <1>1 DEF Publish, DeliveryInv
  <2>2. end = {} /\ UNCHANGED <<status, got, next, end, restarts>> /\ \A k \in Kind : next[k] = None
    BY <1>1 DEF Publish, DeliveryInv, client
  <2> QED
    BY <2>1, <2>2 DEF DeliveryInv, Received
<1>2. CASE Close \/ Delete
  BY <1>2 DEF Close, Delete, client, DeliveryInv, Received
<1>3. ASSUME NEW k \in Kind, NEW limit \in Limit, FirstPage(k, limit) PROVE DeliveryInv'
  BY <1>3, DeliverKeeps DEF FirstPage, store, DeliveryInv
<1>4. ASSUME NEW k \in Kind, NEW limit \in Limit, Restart(k, limit) PROVE DeliveryInv'
  <2>1. restarts' \in 0 .. MaxRestarts
    BY <1>0, <1>4 DEF Restart
  <2> QED
    BY <1>4, <2>1, DeliverKeeps DEF Restart, store
<1>5. ASSUME NEW k \in Kind, NEW limit \in Limit, NextPage(k, limit) PROVE DeliveryInv'
  <2>1. PICK cursor \in Held : cursor.kind = k /\ Deliver(k, cursor.item, limit)
    BY <1>5 DEF NextPage
  <2>2. cursor.item = next[k]
    BY <2>1 DEF Held
  <2>3. restarts' \in 0 .. MaxRestarts /\ status' = status /\ rows' = rows
    BY <1>5 DEF NextPage, store, DeliveryInv
  <2> QED
    BY <2>1, <2>2, <2>3, DeliverKeeps
<1>6. CASE FullResult
  <2>1. /\ status = "closed" /\ UNCHANGED <<status, rows, restarts>> /\ end' = Kind
        /\ got' = [k \in Kind |-> Ascending(rows[k])] /\ next' = [k \in Kind |-> None]
    BY <1>6 DEF FullResult, store
  <2>2. ASSUME NEW k \in Kind PROVE Received(rows'[k], got'[k], next'[k], k \in end')
    <3>1. rows[k] \in SUBSET Row
      BY DEF DeliveryInv
    <3>2. Ascending(rows[k]) \in Seq(Row)
      <4>1. IsFiniteSet(rows[k]) /\ rows[k] \subseteq Int
        BY <3>1, FiniteRows
      <4> QED
        BY <3>1, <4>1, AscendingLists
    <3> QED
      BY <2>1, <3>2 DEF Received
  <2> QED
    BY <2>1, <2>2 DEF DeliveryInv
<1>7. CASE UNCHANGED deliveryVars
  BY <1>7 DEF deliveryVars, DeliveryInv, Received
<1> QED
  BY <1>1, <1>2, <1>3, <1>4, <1>5, <1>6, <1>7 DEF DeliveryNext

\* DeliveryInv says what the variables of the delivery are.
LEMMA DeliveryIsTyped == DeliveryInv => DeliveryTypeOK
<1> SUFFICES ASSUME DeliveryInv, NEW k \in Kind
             PROVE  got[k] \in Seq(Row) /\ next[k] \in Row \cup {None} /\ (k \in end => next[k] = None)
  BY DEF DeliveryInv, DeliveryTypeOK
<1> QED BY DEF DeliveryInv, Received

\* What has been received up to a cursor is a prefix of the result.
LEMMA BeginningIsPrefix ==
    ASSUME NEW S \in SUBSET Row, NEW has, NEW cursor, NEW atEnd \in BOOLEAN, Received(S, has, cursor, atEnd)
    PROVE  IsPrefix(has, Ascending(S)) /\ (atEnd => has = Ascending(S))
<1>1. /\ IsFiniteSet(S) /\ S \subseteq Int
      /\ Ascending(S) \in Seq(S) /\ Len(Ascending(S)) \in Nat
  <2>1. IsFiniteSet(S) /\ S \subseteq Int
    BY FiniteRows
  <2>2. Cardinality(S) \in Nat /\ Ascending(S) \in Seq(S) /\ Len(Ascending(S)) = Cardinality(S)
    BY <2>1, AscendingLists
  <2> QED
    BY <2>1, <2>2
<1>2. CASE atEnd
  <2>1. has = Ascending(S)
    BY <1>2 DEF Received
  <2> QED
    BY <1>1, <2>1 DEF IsPrefix
<1>3. CASE ~atEnd /\ cursor = None
  <2>1. has = <<>>
    BY <1>3 DEF Received
  <2> HIDE DEF Ascending
  <2>2. SubSeq(Ascending(S), 1, 0) = <<>> /\ SubSeq(<<>>, 1, 0) = <<>>
    BY <1>1
  <2> QED
    BY <1>1, <1>3, <2>1, <2>2 DEF IsPrefix
<1>4. CASE ~atEnd /\ cursor # None
  <2> DEFINE low == UpTo(S, cursor)
             high == S \ low
             a == Ascending(low)
             b == Ascending(high)
  <2>1. has = a /\ cursor \in Nat
    BY <1>4, RowsAreNumbers DEF Received
  <2>2. /\ low \in SUBSET Row /\ high \in SUBSET Row /\ low \cup high = S
        /\ \A i \in low, j \in high : i < j
    <3>1. S \subseteq Nat
      BY FiniteRows
    <3>2. low \in SUBSET S
      BY DEF UpTo
    <3>3. \A i \in low, j \in high : i <= cursor /\ ~(j <= cursor) /\ i \in Nat /\ j \in Nat
      BY <3>1 DEF UpTo
    <3>4. \A i \in low, j \in high : i < j
      BY <2>1, <3>3
    <3> HIDE DEF low
    <3> QED
      BY <3>2, <3>4
  <2>3. /\ IsFiniteSet(low) /\ IsFiniteSet(high) /\ low \subseteq Int /\ high \subseteq Int
        /\ low \cup high \subseteq Int
    BY <2>2, FiniteRows
  <2>4. a \in Seq(low) /\ b \in Seq(high)
    BY <2>3, AscendingLists
  <2>5. Ascending(S) = a \o b
    BY <2>2, <2>3, AscendingJoins
  <2> HIDE DEF a, b
  <2>6. Len(a) <= Len(a \o b) /\ SubSeq(a, 1, Len(a)) = SubSeq(a \o b, 1, Len(a))
    BY <2>4
  <2> QED
    BY <1>4, <2>1, <2>5, <2>6 DEF IsPrefix
<1> QED
  BY <1>2, <1>3, <1>4

\* DeliveryInv is what the run checks, and what makes it inductive.
LEMMA DeliveryInvHolds == DeliveryInv => PagesAreTheResult
<1> SUFFICES ASSUME DeliveryInv, NEW k \in Kind
             PROVE  IsPrefix(got[k], Ascending(rows[k])) /\ (k \in end => got[k] = Ascending(rows[k]))
  BY DEF PagesAreTheResult
<1>1. rows[k] \in SUBSET Row /\ Received(rows[k], got[k], next[k], k \in end)
  BY DEF DeliveryInv
<1>2. (k \in end) \in BOOLEAN
  OBVIOUS
<1> QED
  BY <1>1, <1>2, BeginningIsPrefix

(***************************************************************************)
(* For every result, page size and byte limit: what a client has received  *)
(* is at every time the beginning of the result, and all of it at the end, *)
(* with no item twice and none left out (api/app.py, pagination.py).       *)
(***************************************************************************)
THEOREM ResultIsDelivered == DeliverySpec => []PagesAreTheResult
BY DeliveryInitInv, DeliveryNextInv, DeliveryInvHolds, PTL DEF DeliverySpec

(***************************************************************************)
(* Embedded mode (Embedded): one process without leases keeps the lifecycle*)
(* of the server.                                                          *)
(***************************************************************************)
EmbeddedSpec == EmbeddedInit /\ [][EmbeddedNext]_embeddedVars

\* A statement writes what it made of the row as it still is.
MadeOfRow(o) ==
    LET r == row[o.item] IN
    /\ r \in Rows
    /\ \/ /\ o.kind = "begin" /\ r.status = "queued"
          /\ o.body = [r EXCEPT !.status = "running", !.again = FALSE]
       \/ /\ r.status = "running" /\ ~r.again
          /\ \/ /\ o.kind = "commit" /\ o.page \in Todo(r)
                /\ o.body = [r EXCEPT !.ok = @ \cup {o.page}]
             \/ /\ o.kind = "fail"
                /\ \E p \in Todo(r) : o.body = [r EXCEPT !.bad = @ \cup {p}]
             \/ /\ o.kind \in {"finish", "broken"}
                /\ o.body = [r EXCEPT !.status = "done"]

\* The rows: facts and checkpoint are one, and what ran and waits again is queued.
RowsInv ==
    \A i \in Item :
        /\ row[i] = NoRecord => stored[i] = {} /\ job[i].at = "none" /\ request[i] = NoRecord
        /\ row[i] # NoRecord => /\ stored[i] = row[i].ok
                                /\ row[i].again => row[i].status = "queued"

\* The coroutines: at work, they hold the row as it is.
JobsInv ==
    \A i \in Item :
        /\ job[i].at = "spawned" => row[i] # NoRecord /\ row[i].status = "queued"
        /\ job[i].at \in {"head", "fetching", "raised"} =>
              job[i].mem = row[i] /\ row[i].status = "running" /\ ~row[i].again
        /\ job[i].at = "issued" => op # NoRecord /\ op.item = i
        /\ request[i] # NoRecord =>
              request[i] = row[i] /\ Open(i) /\ job[i].at = "none" /\ proc = "up"

\* The statement under way is of a coroutine that waits for it.
OpInv ==
    op # NoRecord =>
        /\ job[op.item].at = "issued" /\ job[op.item].mem = op.body
        /\ op.phase # "refused"
        /\ op.phase = "running" => MadeOfRow(op)
        /\ op.phase = "applied" =>
              /\ row[op.item] = op.body
              /\ op.kind \in {"begin", "commit", "fail"} =>
                    op.body.status = "running" /\ ~op.body.again

\* A process that ends has at most the statement that was under way.
EndInv ==
    /\ proc # "up" => op = NoRecord /\ \A i \in Item : job[i] = NoJob
    /\ left # {} => proc = "closing"
    /\ \A o \in left : o.phase = "running" /\ MadeOfRow(o)
    /\ \A o, q \in left : o = q

EmbeddedInv == EmbeddedTypeOK /\ RowsInv /\ JobsInv /\ OpInv /\ EndInv

\* A process that starts with empty tables holds nothing.
LEMMA EmbeddedInitInv == EmbeddedInit => EmbeddedInv
<1> SUFFICES ASSUME EmbeddedInit PROVE EmbeddedInv
  OBVIOUS
<1>1. EmbeddedTypeOK
  BY EmbeddedAssumption DEF EmbeddedInit, EmbeddedTypeOK, NoJob, Jobs
<1>2. RowsInv /\ JobsInv /\ OpInv /\ EndInv
  BY DEF EmbeddedInit, RowsInv, JobsInv, OpInv, EndInv, NoJob
<1> QED BY <1>1, <1>2 DEF EmbeddedInv


\* The statement that a coroutine makes of its row.
Statement(i, kind, body, page) ==
    [item |-> i, kind |-> kind, body |-> body, page |-> page, phase |-> "running"]

\* A coroutine that issues the statement made of its row waits for it.
LEMMA IssueKeeps ==
    ASSUME EmbeddedInv, NEW i \in Item, NEW kind \in Kinds, NEW body \in Rows,
           NEW page \in Page \cup {NoRecord}, Issue(i, kind, body, page),
           job[i].at # "none", MadeOfRow(Statement(i, kind, body, page))
    PROVE  EmbeddedInv'
<1> DEFINE o == Statement(i, kind, body, page)
<1>1. /\ o \in Ops /\ o # NoRecord /\ o.item = i /\ o.phase = "running" /\ o.body = body
      /\ MadeOfRow(o) /\ op' = o
  BY EmbeddedAssumption DEF Statement, Ops, Issue
<1>2. job' = [job EXCEPT ![i] = [at |-> "issued", mem |-> body]] /\ op = NoRecord
      /\ UNCHANGED <<proc, ends, row, stored, left, noted, request>>
  BY DEF Issue, LockFree
<1>3. proc = "up"
  BY DEF EmbeddedInv, EndInv, NoJob
<1> HIDE DEF o
<1>4. EmbeddedTypeOK'
  BY <1>1, <1>2 DEF EmbeddedInv, EmbeddedTypeOK, Jobs
<1>5. \A j \in Item : job'[j] = IF j = i THEN [at |-> "issued", mem |-> body] ELSE job[j]
  BY <1>2 DEF EmbeddedInv, EmbeddedTypeOK
<1>6. RowsInv' /\ JobsInv'
  BY <1>1, <1>2, <1>5 DEF EmbeddedInv, RowsInv, JobsInv, Open
<1>7. MadeOfRow(op)'
  BY <1>1, <1>2 DEF MadeOfRow
<1>8. OpInv'
  BY <1>1, <1>2, <1>5, <1>7 DEF OpInv
<1>9. left = {}
  BY <1>3 DEF EmbeddedInv, EndInv
<1>10. EndInv'
  BY <1>2, <1>3, <1>9 DEF EndInv
<1> QED BY <1>4, <1>6, <1>8, <1>10 DEF EmbeddedInv

\* The head of the loop and the coroutine that raises change nothing but their place.
LEMMA PlaceKeeps ==
    ASSUME EmbeddedInv, NEW i \in Item, NEW place \in {"head", "fetching", "raised"},
           job[i].at \in {"head", "fetching", "raised"},
           job' = [job EXCEPT ![i].at = place],
           UNCHANGED <<proc, ends, row, stored, op, left, noted, request>>
    PROVE  EmbeddedInv'
<1>1. job[i] \in [at : {"head", "fetching", "issued", "raised"}, mem : Rows]
  BY DEF EmbeddedInv, EmbeddedTypeOK, Jobs
<1>2. \A j \in Item : job'[j] = IF j = i THEN [at |-> place, mem |-> job[i].mem] ELSE job[j]
  BY <1>1 DEF EmbeddedInv, EmbeddedTypeOK
<1>3. proc = "up"
  BY DEF EmbeddedInv, EndInv, NoJob
<1>4. EmbeddedTypeOK'
  BY <1>1, <1>2 DEF EmbeddedInv, EmbeddedTypeOK, Jobs
<1>5. RowsInv' /\ JobsInv'
  BY <1>2 DEF EmbeddedInv, RowsInv, JobsInv, Open
<1>6. MadeOfRow(op) => MadeOfRow(op)'
  BY DEF MadeOfRow
<1>7. op # NoRecord => job'[op.item] = job[op.item]
  BY <1>2 DEF EmbeddedInv, OpInv
<1>8. OpInv'
  BY <1>6, <1>7 DEF EmbeddedInv, OpInv
<1>9. left = {}
  BY <1>3 DEF EmbeddedInv, EndInv
<1>10. EndInv'
  BY <1>3, <1>9 DEF EndInv
<1> QED BY <1>4, <1>5, <1>8, <1>10 DEF EmbeddedInv

\* A coroutine works on its row as it is stored, whatever it does next.
LEMMA JobStepKeeps ==
    ASSUME EmbeddedInv, NEW i \in Item, JobStep(i) \/ RunRaises(i)
    PROVE  EmbeddedInv'
<1> USE DEF EmbeddedInv
<1>1. /\ job[i].at = "spawned" => row[i] \in Rows /\ row[i].status = "queued"
      /\ job[i].at \in {"head", "fetching", "raised"} =>
            /\ job[i].mem \in Rows /\ job[i].mem = row[i] /\ row[i] \in Rows
            /\ row[i].status = "running" /\ ~row[i].again
  BY DEF EmbeddedTypeOK, JobsInv, Jobs
<1>2. CASE LoadItem(i)
  <2> DEFINE body == [row[i] EXCEPT !.status = "running", !.again = FALSE]
  <2>1. body \in Rows /\ Issue(i, "begin", body, NoRecord) /\ job[i].at # "none"
    BY <1>1, <1>2 DEF LoadItem, Rows
  <2>2. MadeOfRow(Statement(i, "begin", body, NoRecord))
    BY <1>1, <1>2 DEF LoadItem, MadeOfRow, Statement
  <2> QED BY <2>1, <2>2, IssueKeeps DEF Kinds
<1>3. ASSUME NEW p \in Page, CommitPage(i, p)
      PROVE  EmbeddedInv'
  <2> DEFINE body == [job[i].mem EXCEPT !.ok = @ \cup {p}]
  <2>1. body \in Rows /\ Issue(i, "commit", body, p) /\ job[i].at # "none"
    BY <1>1, <1>3 DEF CommitPage, Rows
  <2>2. MadeOfRow(Statement(i, "commit", body, p))
    BY <1>1, <1>3 DEF CommitPage, MadeOfRow, Statement
  <2> QED BY <2>1, <2>2, IssueKeeps DEF Kinds
<1>4. ASSUME NEW p \in Page, FailPage(i, p)
      PROVE  EmbeddedInv'
  <2> DEFINE body == [job[i].mem EXCEPT !.bad = @ \cup {p}]
  <2>1. body \in Rows /\ Issue(i, "fail", body, NoRecord) /\ job[i].at # "none"
    BY <1>1, <1>4 DEF FailPage, Rows
  <2>2. MadeOfRow(Statement(i, "fail", body, NoRecord))
    BY <1>1, <1>4 DEF FailPage, MadeOfRow, Statement
  <2> QED BY <2>1, <2>2, IssueKeeps DEF Kinds
<1>5. CASE FinishItem(i)
  <2> DEFINE body == [job[i].mem EXCEPT !.status = "done"]
  <2>1. body \in Rows /\ Issue(i, "finish", body, NoRecord) /\ job[i].at # "none"
    BY <1>1, <1>5 DEF FinishItem, Rows, Final
  <2>2. MadeOfRow(Statement(i, "finish", body, NoRecord))
    BY <1>1, <1>5 DEF FinishItem, MadeOfRow, Statement
  <2> QED BY <2>1, <2>2, IssueKeeps DEF Kinds
<1>6. CASE CloseBroken(i)
  <2> DEFINE body == [row[i] EXCEPT !.status = "done"]
  <2>1. body \in Rows /\ Issue(i, "broken", body, NoRecord) /\ job[i].at # "none"
    BY <1>1, <1>6 DEF CloseBroken, Rows, Final
  <2>2. MadeOfRow(Statement(i, "broken", body, NoRecord))
    BY <1>1, <1>6 DEF CloseBroken, MadeOfRow, Statement
  <2> QED BY <2>1, <2>2, IssueKeeps DEF Kinds
<1>7. CASE PickPage(i) \/ RunRaises(i)
  BY <1>7, PlaceKeeps DEF PickPage, RunRaises
<1> QED BY <1>2, <1>3, <1>4, <1>5, <1>6, <1>7 DEF JobStep


\* What the statement writes: nothing refuses it, and facts go with the checkpoint.
LEMMA EffectOf ==
    ASSUME EmbeddedTypeOK, RowsInv, NEW o \in Ops, MadeOfRow(o), Effect(o)
    PROVE  /\ ~Refused(o)
           /\ row' = [row EXCEPT ![o.item] = o.body]
           /\ \A i \in Item : row'[i] = IF i = o.item THEN o.body ELSE row[i]
           /\ row[o.item] # NoRecord /\ o.body # NoRecord /\ row[o.item] \in Rows /\ o.body \in Rows
           /\ stored' = [stored EXCEPT ![o.item] = o.body.ok]
           /\ o.body.again => o.body.status = "queued"
           /\ o.kind \in {"begin", "commit", "fail"} =>
                 o.body.status = "running" /\ ~o.body.again
<1> DEFINE r == row[o.item]
<1>1. /\ r \in Rows /\ r # NoRecord /\ o.item \in Item /\ o.body \in Rows /\ o.body # NoRecord
      /\ stored[o.item] = r.ok /\ stored \in [Item -> SUBSET Page]
      /\ r.again => r.status = "queued"
  BY EmbeddedAssumption DEF MadeOfRow, Ops, EmbeddedTypeOK, RowsInv
<1>2. ~Refused(o)
  BY <1>1 DEF Refused, MadeOfRow
<1>3. row' = [row EXCEPT ![o.item] = o.body]
  BY <1>2 DEF Effect
<1>4. /\ o.kind = "commit" => o.body.ok = r.ok \cup {o.page}
      /\ o.kind # "commit" => o.body.ok = r.ok
      /\ o.body.again => o.body.status = "queued"
      /\ o.kind \in {"begin", "commit", "fail"} => o.body.status = "running" /\ ~o.body.again
  <2>1. CASE o.kind = "begin" /\ o.body = [r EXCEPT !.status = "running", !.again = FALSE]
    BY <1>1, <2>1 DEF Rows
  <2>2. CASE /\ o.kind = "commit" /\ r.status = "running" /\ ~r.again
             /\ o.body = [r EXCEPT !.ok = @ \cup {o.page}]
    BY <1>1, <2>2 DEF Rows
  <2>3. CASE /\ o.kind = "fail" /\ r.status = "running" /\ ~r.again
             /\ \E p \in Todo(r) : o.body = [r EXCEPT !.bad = @ \cup {p}]
    BY <1>1, <2>3 DEF Rows
  <2>4. CASE o.kind \in {"finish", "broken"} /\ o.body = [r EXCEPT !.status = "done"] /\ ~r.again
    BY <1>1, <2>4 DEF Rows
  <2> QED BY <2>1, <2>2, <2>3, <2>4 DEF MadeOfRow
<1>5. stored' = [stored EXCEPT ![o.item] = o.body.ok]
  BY <1>1, <1>2, <1>4 DEF Effect
<1>6. \A i \in Item : row'[i] = IF i = o.item THEN o.body ELSE row[i]
  BY <1>1, <1>3 DEF EmbeddedTypeOK
<1> QED BY <1>1, <1>2, <1>3, <1>4, <1>5, <1>6

\* The thread writes the row of the coroutine that waits for it.
LEMMA ThreadKeeps ==
    ASSUME EmbeddedInv, ThreadRuns
    PROVE  EmbeddedInv'
<1> DEFINE o == op
<1>1. /\ o \in Ops /\ o # NoRecord /\ MadeOfRow(o) /\ Effect(o) /\ o.item \in Item
      /\ o.phase = "running"
      /\ job[o.item].at = "issued" /\ job[o.item].mem = o.body
  BY DEF ThreadRuns, EmbeddedInv, EmbeddedTypeOK, OpInv, Ops
<1>2. /\ row' = [row EXCEPT ![o.item] = o.body]
      /\ \A i \in Item : row'[i] = IF i = o.item THEN o.body ELSE row[i]
      /\ row[o.item] # NoRecord /\ o.body # NoRecord /\ o.body \in Rows
      /\ stored' = [stored EXCEPT ![o.item] = o.body.ok]
      /\ o.body.again => o.body.status = "queued"
      /\ o.kind \in {"begin", "commit", "fail"} => o.body.status = "running" /\ ~o.body.again
      /\ ~Refused(o)
  BY <1>1, EffectOf DEF EmbeddedInv
<1>3. op' = [op EXCEPT !.phase = "applied"] /\ UNCHANGED <<proc, ends, job, left, noted, request>>
  BY <1>2 DEF ThreadRuns
<1>4. /\ op' \in Ops /\ op' # NoRecord /\ op'.item = o.item /\ op'.phase = "applied"
      /\ op'.body = o.body /\ op'.kind = o.kind
  BY <1>1, <1>3, EmbeddedAssumption DEF Ops
<1> HIDE DEF o
<1>5. EmbeddedTypeOK'
  <2>1. o.body.ok \subseteq Page
    BY <1>2 DEF Rows
  <2> QED BY <1>1, <1>2, <1>3, <1>4, <2>1 DEF EmbeddedInv, EmbeddedTypeOK
<1>6. \A i \in Item : stored'[i] = IF i = o.item THEN o.body.ok ELSE stored[i]
  BY <1>2 DEF EmbeddedInv, EmbeddedTypeOK
<1>7. proc = "up" /\ left = {}
  BY <1>1 DEF EmbeddedInv, EndInv, o
<1>8. RowsInv'
  BY <1>2, <1>3, <1>6 DEF EmbeddedInv, RowsInv
<1>9. \A i \in Item : job[i].at = "issued" => i = o.item
  BY <1>1 DEF EmbeddedInv, JobsInv, o
<1>10. JobsInv'
  BY <1>1, <1>2, <1>3, <1>4, <1>9 DEF EmbeddedInv, JobsInv, Open
<1>11. OpInv'
  BY <1>1, <1>2, <1>3, <1>4 DEF OpInv
<1>12. EndInv'
  BY <1>3, <1>7 DEF EndInv
<1> QED BY <1>5, <1>8, <1>10, <1>11, <1>12 DEF EmbeddedInv

\* Its coroutine goes on with the row that was written.
LEMMA ReturnKeeps ==
    ASSUME EmbeddedInv, ThreadReturns
    PROVE  EmbeddedInv'
<1> DEFINE i == op.item
           place == IF op.kind \in {"finish", "broken"} THEN NoJob
                    ELSE [at |-> "head", mem |-> op.body]
<1>1. /\ op \in Ops /\ i \in Item /\ op.phase = "applied" /\ op # NoRecord
      /\ job[i].at = "issued" /\ job[i].mem = op.body /\ row[i] = op.body
      /\ op.kind \in {"begin", "commit", "fail"} => op.body.status = "running" /\ ~op.body.again
      /\ op.body \in Rows /\ op.kind \in Kinds
  BY DEF ThreadReturns, EmbeddedInv, EmbeddedTypeOK, OpInv, Ops
<1>2. job[i] \in [at : {"head", "fetching", "issued", "raised"}, mem : Rows]
  BY <1>1 DEF EmbeddedInv, EmbeddedTypeOK, Jobs
<1>3. /\ op' = NoRecord /\ job' = [job EXCEPT ![i] = place]
      /\ noted' \subseteq noted /\ UNCHANGED <<proc, ends, row, stored, left, request>>
  <2>1. [job[i] EXCEPT !.at = "head"] = [at |-> "head", mem |-> op.body]
    BY <1>1, <1>2
  <2> QED BY <1>1, <2>1 DEF ThreadReturns
<1>4. place \in Jobs
  BY <1>1 DEF Jobs, NoJob
<1>5. /\ place.at \in {"none", "head"}
      /\ place.at = "head" => /\ place.mem = row[i] /\ row[i].status = "running"
                              /\ ~row[i].again
  BY <1>1 DEF NoJob, Kinds
<1>6. proc = "up" /\ left = {} /\ request[i] = NoRecord
  BY <1>1 DEF EmbeddedInv, EndInv, JobsInv
<1> HIDE DEF place
<1>7. EmbeddedTypeOK'
  BY <1>1, <1>3, <1>4 DEF EmbeddedInv, EmbeddedTypeOK
<1>8. \A j \in Item : job'[j] = IF j = i THEN place ELSE job[j]
  BY <1>1, <1>3 DEF EmbeddedInv, EmbeddedTypeOK
<1>9. row[i] # NoRecord /\ \A j \in Item : job[j].at = "issued" => j = i
  BY <1>1, EmbeddedAssumption DEF EmbeddedInv, JobsInv
<1>10. RowsInv' /\ JobsInv'
  <2>1. RowsInv'
    BY <1>3, <1>8, <1>9 DEF EmbeddedInv, RowsInv
  <2>2. ASSUME NEW j \in Item PROVE JobsInv!(j)'
    BY <1>3, <1>5, <1>6, <1>8, <1>9 DEF EmbeddedInv, JobsInv, Open
  <2> QED BY <2>1, <2>2 DEF JobsInv
<1>11. OpInv' /\ EndInv'
  BY <1>3, <1>6 DEF OpInv, EndInv
<1> QED BY <1>7, <1>10, <1>11 DEF EmbeddedInv

\* After a shutdown the one statement that was left over lands on the row it was made of.
LEMMA LeftoverKeeps ==
    ASSUME EmbeddedInv, NEW o, LeftoverRuns(o)
    PROVE  EmbeddedInv'
<1>1. /\ o \in Ops /\ MadeOfRow(o) /\ Effect(o) /\ o.item \in Item /\ o \in left
      /\ proc = "closing" /\ op = NoRecord /\ \A i \in Item : job[i] = NoJob
  BY DEF LeftoverRuns, EmbeddedInv, EmbeddedTypeOK, EndInv, Ops
<1>2. /\ row' = [row EXCEPT ![o.item] = o.body]
      /\ \A i \in Item : row'[i] = IF i = o.item THEN o.body ELSE row[i]
      /\ row[o.item] # NoRecord /\ o.body # NoRecord /\ o.body \in Rows
      /\ stored' = [stored EXCEPT ![o.item] = o.body.ok]
      /\ o.body.again => o.body.status = "queued"
  BY <1>1, EffectOf DEF EmbeddedInv
<1>3. left' = {} /\ UNCHANGED <<proc, ends, job, op, noted, request>>
  BY <1>1 DEF LeftoverRuns, EmbeddedInv, EndInv
<1>4. \A i \in Item : request[i] = NoRecord
  BY <1>1 DEF EmbeddedInv, JobsInv
<1>5. EmbeddedTypeOK'
  <2>1. o.body.ok \subseteq Page
    BY <1>2 DEF Rows
  <2> QED BY <1>1, <1>2, <1>3, <2>1 DEF EmbeddedInv, EmbeddedTypeOK
<1>6. \A i \in Item : stored'[i] = IF i = o.item THEN o.body.ok ELSE stored[i]
  BY <1>2 DEF EmbeddedInv, EmbeddedTypeOK
<1>7. RowsInv'
  BY <1>2, <1>3, <1>6 DEF EmbeddedInv, RowsInv
<1>8. JobsInv' /\ OpInv' /\ EndInv'
  BY <1>1, <1>3, <1>4 DEF JobsInv, OpInv, EndInv, NoJob
<1> QED BY <1>5, <1>7, <1>8 DEF EmbeddedInv


\* Without a coroutine there is nothing to go on.
LEMMA CancelKeeps ==
    ASSUME EmbeddedInv, proc = "up", op = NoRecord, NEW i \in Item, ReadForCancel(i)
    PROVE  EmbeddedInv'
<1>1. /\ Open(i) /\ row[i] \in Rows /\ row[i] # NoRecord /\ left = {}
      /\ \A j \in Item : job[j].at # "issued"
  BY DEF ReadForCancel, EmbeddedInv, EmbeddedTypeOK, JobsInv, EndInv, Open
<1>2. /\ request' = [request EXCEPT ![i] = row[i]]
      /\ job' = [j \in Item |-> IF j = i THEN NoJob ELSE job[j]]
      /\ left' = {} /\ op' = NoRecord /\ noted' \in SUBSET Item
      /\ UNCHANGED <<proc, ends, row, stored>>
  BY <1>1 DEF ReadForCancel, CancelTasks, InThread, Note, EmbeddedInv, EmbeddedTypeOK
<1>3. EmbeddedTypeOK'
  BY <1>1, <1>2 DEF EmbeddedInv, EmbeddedTypeOK, NoJob, Jobs
<1>4. \A j \in Item : /\ request'[j] = IF j = i THEN row[i] ELSE request[j]
                      /\ job'[j] = IF j = i THEN NoJob ELSE job[j]
  BY <1>2 DEF EmbeddedInv, EmbeddedTypeOK
<1>5. RowsInv' /\ JobsInv'
  BY <1>1, <1>2, <1>4 DEF EmbeddedInv, RowsInv, JobsInv, Open, NoJob
<1>6. OpInv' /\ EndInv'
  BY <1>2 DEF OpInv, EndInv
<1> QED BY <1>3, <1>5, <1>6 DEF EmbeddedInv

\* Nobody has changed the row since the cancel request read it.
LEMMA CancelledKeeps ==
    ASSUME EmbeddedInv, NEW i \in Item, WriteCancelled(i)
    PROVE  /\ EmbeddedInv'
           /\ row[i] \in Rows /\ row[i] # NoRecord /\ row[i].status \notin Final
           /\ row'[i] = [row[i] EXCEPT !.status = "cancelled", !.again = FALSE]
           /\ \A j \in Item : j # i => row'[j] = row[j]
           /\ row'[i] \in Rows /\ row'[i] # NoRecord /\ stored' = stored
<1> DEFINE r == [row[i] EXCEPT !.status = "cancelled", !.again = FALSE]
<1>1. /\ row[i] = request[i] /\ row[i] \in Rows /\ row[i] # NoRecord /\ Open(i) /\ op = NoRecord
      /\ proc = "up" /\ left = {} /\ job[i].at = "none"
      /\ \A j \in Item : job[j].at # "issued"
  BY DEF WriteCancelled, EmbeddedInv, EmbeddedTypeOK, JobsInv, EndInv, LockFree
<1>2. /\ r \in Rows /\ r # NoRecord /\ r.ok = row[i].ok /\ ~r.again
  BY <1>1, EmbeddedAssumption DEF Rows, Final
<1>3. /\ row' = [row EXCEPT ![i] = r] /\ request' = [request EXCEPT ![i] = NoRecord]
      /\ UNCHANGED <<proc, ends, stored, job, op, left, noted>>
  BY <1>1 DEF WriteCancelled
<1>4. \A j \in Item : /\ row'[j] = IF j = i THEN r ELSE row[j]
                      /\ request'[j] = IF j = i THEN NoRecord ELSE request[j]
  BY <1>3 DEF EmbeddedInv, EmbeddedTypeOK
<1>5. row[i].status \notin Final
  BY <1>1 DEF Open
<1> HIDE DEF r
<1>6. EmbeddedTypeOK'
  BY <1>2, <1>3 DEF EmbeddedInv, EmbeddedTypeOK
<1>7. RowsInv'
  BY <1>1, <1>2, <1>3, <1>4 DEF EmbeddedInv, RowsInv
<1>8. JobsInv'
  BY <1>1, <1>2, <1>3, <1>4 DEF EmbeddedInv, JobsInv, Open
<1>9. OpInv' /\ EndInv'
  BY <1>1, <1>3 DEF OpInv, EndInv
<1>10. EmbeddedInv'
  BY <1>6, <1>7, <1>8, <1>9 DEF EmbeddedInv
<1> QED BY <1>1, <1>2, <1>3, <1>4, <1>5, <1>10 DEF r

\* A new row is queued, with its coroutine.
LEMMA SubmitKeeps ==
    ASSUME EmbeddedInv, NEW i \in Item, SubmitItem(i)
    PROVE  EmbeddedInv'
<1>1. /\ row' = [row EXCEPT ![i] = NewRow] /\ job' = [job EXCEPT ![i].at = "spawned"]
      /\ proc = "up" /\ op = NoRecord /\ left = {} /\ request[i] = NoRecord
      /\ stored[i] = {} /\ job[i].at = "none"
      /\ UNCHANGED <<proc, ends, stored, op, left, noted, request>>
  BY DEF SubmitItem, LockFree, EmbeddedInv, RowsInv, EndInv
<1>2. /\ NewRow \in Rows /\ NewRow # NoRecord /\ NewRow.ok = {} /\ ~NewRow.again
      /\ NewRow.status = "queued"
  <2>1. NewRow \in Rows /\ NewRow.ok = {} /\ ~NewRow.again /\ NewRow.status = "queued"
    BY DEF NewRow, Rows
  <2> QED BY <2>1, EmbeddedAssumption
<1>3. job[i] \in [at : {"none", "spawned"}, mem : {NoRecord}]
  BY <1>1 DEF EmbeddedInv, EmbeddedTypeOK, Jobs
<1>4. \A j \in Item : /\ row'[j] = IF j = i THEN NewRow ELSE row[j]
                      /\ job'[j] = IF j = i THEN [at |-> "spawned", mem |-> NoRecord] ELSE job[j]
  BY <1>1, <1>3 DEF EmbeddedInv, EmbeddedTypeOK
<1>5. EmbeddedTypeOK'
  BY <1>1, <1>2, <1>4 DEF EmbeddedInv, EmbeddedTypeOK, Jobs
<1>6. ASSUME NEW j \in Item PROVE RowsInv!(j)'
  <2>1. CASE j = i
    BY <1>1, <1>2, <1>4, <2>1
  <2>2. CASE j # i
    <3>1. row'[j] = row[j] /\ job'[j] = job[j]
      BY <1>4, <2>2
    <3> QED BY <1>1, <3>1 DEF EmbeddedInv, RowsInv
  <2> QED BY <2>1, <2>2
<1>7. ASSUME NEW j \in Item PROVE JobsInv!(j)'
  <2>1. CASE j = i
    BY <1>1, <1>2, <1>4, <2>1
  <2>2. CASE j # i
    <3>1. row'[j] = row[j] /\ job'[j] = job[j]
      BY <1>4, <2>2
    <3> QED BY <1>1, <3>1 DEF EmbeddedInv, JobsInv, Open
  <2> QED BY <2>1, <2>2
<1>8. OpInv' /\ EndInv'
  BY <1>1 DEF OpInv, EndInv
<1> QED BY <1>5, <1>6, <1>7, <1>8 DEF EmbeddedInv, RowsInv, JobsInv

\* The end of the process leaves the tables alone.
LEMMA EndKeeps ==
    ASSUME EmbeddedInv, Shutdown \/ ShutdownEnds \/ Kill
    PROVE  EmbeddedInv' /\ UNCHANGED <<row, stored>>
<1> USE DEF EmbeddedInv
<1>1. CASE Shutdown
  <2>1. /\ proc' = "closing" /\ ends' \in 0 .. MaxEnds
        /\ job' = [i \in Item |-> NoJob]
        /\ op' = NoRecord /\ noted' \subseteq Item
        /\ request' = [i \in Item |-> NoRecord] /\ UNCHANGED <<row, stored>>
    BY <1>1, EmbeddedAssumption DEF Shutdown, CancelTasks, EmbeddedTypeOK, OpInv, Ops
  <2>2. left' \subseteq Ops /\ \A o \in left' : o.phase = "running" /\ MadeOfRow(o) /\ o = op
    BY <1>1 DEF Shutdown, CancelTasks, InThread, EmbeddedTypeOK, OpInv, EndInv
  <2>3. \A o : MadeOfRow(o)' = MadeOfRow(o)
    BY <2>1 DEF MadeOfRow
  <2>4. EmbeddedTypeOK'
    BY <2>1, <2>2 DEF EmbeddedTypeOK, NoJob, Jobs
  <2>5. RowsInv' /\ JobsInv' /\ OpInv'
    BY <2>1 DEF RowsInv, JobsInv, OpInv, NoJob
  <2>6. EndInv'
    BY <2>1, <2>2, <2>3 DEF EndInv, MadeOfRow
  <2> QED BY <2>1, <2>4, <2>5, <2>6
<1>2. CASE ShutdownEnds
  <2>1. EmbeddedTypeOK' /\ RowsInv' /\ OpInv' /\ UNCHANGED <<row, stored>>
    BY <1>2 DEF ShutdownEnds, EmbeddedTypeOK, RowsInv, OpInv, EndInv
  <2>2. JobsInv' /\ EndInv'
    BY <1>2 DEF ShutdownEnds, JobsInv, EndInv, NoJob
  <2> QED BY <2>1, <2>2
<1>3. CASE Kill
  <2>1. EmbeddedTypeOK' /\ UNCHANGED <<row, stored>>
    BY <1>3, EmbeddedAssumption DEF Kill, EmbeddedTypeOK, NoJob, Jobs
  <2>2. RowsInv' /\ JobsInv' /\ OpInv' /\ EndInv'
    BY <1>3 DEF Kill, RowsInv, JobsInv, OpInv, EndInv, NoJob
  <2> QED BY <2>1, <2>2
<1> QED BY <1>1, <1>2, <1>3

\* What a start finds: no coroutine, no statement, no request.
LEMMA RecoverKeeps ==
    ASSUME EmbeddedInv, Recover
    PROVE  /\ EmbeddedInv'
           /\ \A i \in Item : \/ row'[i] = row[i]
                              \/ /\ row[i] \in Rows /\ row[i] # NoRecord
                                 /\ row[i].status = "running" /\ ~row[i].again
                                 /\ row'[i] = [row[i] EXCEPT !.status = "queued", !.again = TRUE]
                                 /\ row'[i] \in Rows /\ row'[i] # NoRecord
           /\ stored' = stored
<1> DEFINE back(i) == [row[i] EXCEPT !.status = "queued", !.again = TRUE]
<1>1. /\ op = NoRecord /\ left = {} /\ \A i \in Item : request[i] = NoRecord
      /\ UNCHANGED <<ends, stored, op, left, noted, request>> /\ proc' = "up"
  BY DEF Recover, EmbeddedInv, EndInv, JobsInv
<1>2. \A i \in Item : /\ row'[i] = IF Open(i) /\ row[i].status = "running" THEN back(i) ELSE row[i]
                      /\ job'[i] = IF Open(i) THEN [at |-> "spawned", mem |-> NoRecord] ELSE NoJob
  <2>1. [NoJob EXCEPT !.at = "spawned"] = [at |-> "spawned", mem |-> NoRecord]
    BY DEF NoJob
  <2> QED BY <2>1 DEF Recover
<1>3. \A i \in Item : row[i] # NoRecord => /\ row[i] \in Rows /\ back(i) \in Rows
                                           /\ back(i) # NoRecord /\ back(i).ok = row[i].ok
                                           /\ back(i).status = "queued"
                                           /\ stored[i] = row[i].ok
                                           /\ row[i].status = "running" => ~row[i].again
                                           /\ row[i].again => row[i].status = "queued"
  <2> SUFFICES ASSUME NEW i \in Item, row[i] # NoRecord
               PROVE  <1>3!(i)!2
    OBVIOUS
  <2>1. row[i] \in Rows /\ stored[i] = row[i].ok /\ (row[i].again => row[i].status = "queued")
    BY DEF EmbeddedInv, EmbeddedTypeOK, RowsInv
  <2>2. back(i) \in Rows /\ back(i).ok = row[i].ok /\ back(i).status = "queued"
    BY <2>1 DEF Rows
  <2> QED BY <2>1, <2>2, EmbeddedAssumption
<1>4. \A i \in Item : Open(i) => row[i] # NoRecord /\ row[i].status \in {"queued", "running"}
  BY <1>3 DEF Open, Rows, Final
<1> HIDE DEF back
<1>5. EmbeddedTypeOK'
  BY <1>1, <1>2, <1>3, <1>4 DEF Recover, EmbeddedInv, EmbeddedTypeOK, NoJob, Jobs
<1>6. RowsInv' /\ JobsInv'
  BY <1>1, <1>2, <1>3, <1>4 DEF EmbeddedInv, RowsInv, JobsInv, Open, NoJob
<1>7. OpInv' /\ EndInv'
  BY <1>1 DEF OpInv, EndInv
<1>8. EmbeddedInv'
  BY <1>5, <1>6, <1>7 DEF EmbeddedInv
<1> QED BY <1>1, <1>2, <1>3, <1>4, <1>8 DEF back

\* The invariant is kept by every step.
LEMMA EmbeddedNextInv == EmbeddedInv /\ [EmbeddedNext]_embeddedVars => EmbeddedInv'
<1> SUFFICES ASSUME EmbeddedInv, [EmbeddedNext]_embeddedVars PROVE EmbeddedInv'
  OBVIOUS
<1>1. CASE UNCHANGED embeddedVars
  <2> USE <1>1 DEF embeddedVars, EmbeddedInv
  <2>1. EmbeddedTypeOK' /\ RowsInv'
    BY DEF EmbeddedTypeOK, RowsInv
  <2>2. JobsInv'
    BY DEF JobsInv, Open
  <2>3. \A o : MadeOfRow(o)' = MadeOfRow(o)
    BY DEF MadeOfRow
  <2>4. OpInv' /\ EndInv'
    BY <2>3 DEF OpInv, EndInv, MadeOfRow
  <2> QED BY <2>1, <2>2, <2>4
<1>2. CASE EmbeddedNext
  BY <1>2, SubmitKeeps, JobStepKeeps, CancelKeeps, CancelledKeeps, ThreadKeeps, ReturnKeeps,
     LeftoverKeeps, EndKeeps, RecoverKeeps DEF EmbeddedNext, ThreadStep, ReadForCancel, LockFree
<1> QED BY <1>1, <1>2


\* What the row of a collection says of it.
Published(i) == IF row[i] = NoRecord THEN {} ELSE row[i].ok
Failed(i)    == IF row[i] = NoRecord THEN {} ELSE row[i].bad

\* A step that changes no status, no checkpoint and no facts is none of the lifecycle.
LEMMA Unnoticed ==
    ASSUME stored' = stored,
           \A i \in Item : /\ EmbeddedStatus(i)' = EmbeddedStatus(i)
                           /\ Published(i)' = Published(i) /\ Failed(i)' = Failed(i)
    PROVE  UNCHANGED Promise!vars
BY DEF Promise!vars, Published, Failed

\* A step that changes one row is a step of the lifecycle, if it is one of that collection.
LEMMA OneRowMoves ==
    ASSUME EmbeddedInv, NEW i \in Item, row[i] \in Rows, row[i] # NoRecord,
           row'[i] \in Rows, row'[i] # NoRecord,
           \A j \in Item : j # i => row'[j] = row[j],
           stored' = [stored EXCEPT ![i] = row'[i].ok],
           LET s == EmbeddedStatus(i)
               t == EmbeddedStatus(i)'
           IN  \/ s = "queued" /\ t = "running" /\ row'[i].ok = row[i].ok /\ row'[i].bad = row[i].bad
               \/ /\ s = "running" /\ t = "running" /\ row'[i].bad = row[i].bad
                  /\ \E p \in Todo(row[i]) : row'[i].ok = row[i].ok \cup {p}
               \/ /\ s = "running" /\ t = "running" /\ row'[i].ok = row[i].ok
                  /\ \E p \in Todo(row[i]) : row'[i].bad = row[i].bad \cup {p}
               \/ s = "running" /\ t = "done" /\ row'[i].ok = row[i].ok /\ row'[i].bad = row[i].bad
               \/ t = "cancelled" /\ row'[i].ok = row[i].ok /\ row'[i].bad = row[i].bad
    PROVE  Promise!Next
<1> DEFINE reported == [j \in Item |-> EmbeddedStatus(j)]
           published == [j \in Item |-> IF row[j] = NoRecord THEN {} ELSE row[j].ok]
           failed == [j \in Item |-> IF row[j] = NoRecord THEN {} ELSE row[j].bad]
           s == EmbeddedStatus(i)
           t == EmbeddedStatus(i)'
<1>1. \A j \in Item : j # i => EmbeddedStatus(j)' = EmbeddedStatus(j)
  BY DEF EmbeddedStatus
<1>2. /\ reported[i] = s /\ published[i] = row[i].ok /\ failed[i] = row[i].bad
      /\ stored[i] = row[i].ok /\ stored \in [Item -> SUBSET Page]
      /\ row[i].ok \subseteq Page /\ row[i].bad \subseteq Page
  BY DEF EmbeddedInv, RowsInv, EmbeddedTypeOK, Rows
<1>3. /\ reported' = [reported EXCEPT ![i] = t]
      /\ published' = [published EXCEPT ![i] = row'[i].ok]
      /\ failed' = [failed EXCEPT ![i] = row'[i].bad]
  BY <1>1
<1>4. /\ row'[i].ok = row[i].ok => published' = published /\ stored' = stored
      /\ row'[i].bad = row[i].bad => failed' = failed
      /\ t = s => reported' = reported
  <2>1. /\ [reported EXCEPT ![i] = s] = reported
        /\ [published EXCEPT ![i] = row[i].ok] = published
        /\ [failed EXCEPT ![i] = row[i].bad] = failed
        /\ [stored EXCEPT ![i] = row[i].ok] = stored
    BY <1>2
  <2> QED BY <1>3, <2>1
<1>5. CASE s = "queued" /\ t = "running" /\ row'[i].ok = row[i].ok /\ row'[i].bad = row[i].bad
  <2>1. Promise!Start(i)
    BY <1>2, <1>3, <1>4, <1>5 DEF Promise!Start
  <2> QED BY <2>1 DEF Promise!Next
<1>6. ASSUME NEW p \in Todo(row[i]), s = "running", t = "running", row'[i].bad = row[i].bad,
             row'[i].ok = row[i].ok \cup {p}
      PROVE  Promise!Next
  <2>1. p \in Page /\ p \notin row[i].ok \cup row[i].bad
    BY DEF Todo
  <2>2. /\ published' = [published EXCEPT ![i] = @ \cup {p}]
        /\ stored' = [stored EXCEPT ![i] = @ \cup {p}]
    BY <1>2, <1>3, <1>6
  <2>3. Promise!Publish(i, p)
    BY <1>2, <1>4, <1>6, <2>1, <2>2 DEF Promise!Publish
  <2> QED BY <2>1, <2>3 DEF Promise!Next
<1>7. ASSUME NEW p \in Todo(row[i]), s = "running", t = "running", row'[i].ok = row[i].ok,
             row'[i].bad = row[i].bad \cup {p}
      PROVE  Promise!Next
  <2>1. p \in Page /\ p \notin row[i].ok \cup row[i].bad
    BY DEF Todo
  <2>2. failed' = [failed EXCEPT ![i] = @ \cup {p}]
    BY <1>2, <1>3, <1>7
  <2>3. Promise!GiveUp(i, p)
    BY <1>2, <1>4, <1>7, <2>1, <2>2 DEF Promise!GiveUp
  <2> QED BY <2>1, <2>3 DEF Promise!Next
<1>8. CASE s = "running" /\ t = "done" /\ row'[i].ok = row[i].ok /\ row'[i].bad = row[i].bad
  <2>1. Promise!Close(i)
    BY <1>2, <1>3, <1>4, <1>8 DEF Promise!Close
  <2> QED BY <2>1 DEF Promise!Next
<1>9. CASE t = "cancelled" /\ row'[i].ok = row[i].ok /\ row'[i].bad = row[i].bad
  <2>1. /\ published' = [published EXCEPT ![i] = row[i].ok] /\ row[i].ok \in SUBSET published[i]
        /\ failed' = [failed EXCEPT ![i] = row[i].bad] /\ row[i].bad \in SUBSET failed[i]
    BY <1>2, <1>3, <1>9
  <2>2. \E P \in SUBSET published[i], F \in SUBSET failed[i] :
           published' = [published EXCEPT ![i] = P] /\ failed' = [failed EXCEPT ![i] = F]
    BY <2>1
  <2>3. Promise!Cancel(i)
    BY <1>3, <1>4, <1>9, <2>2 DEF Promise!Cancel
  <2> QED BY <2>3 DEF Promise!Next
<1> QED BY <1>5, <1>6, <1>7, <1>8, <1>9

\* A statement is one step of the lifecycle, or takes up again what has been started.
LEMMA StatementMoves ==
    ASSUME EmbeddedInv, NEW o \in Ops, MadeOfRow(o), Effect(o)
    PROVE  [Promise!Next]_(Promise!vars)
<1> DEFINE i == o.item
           r == row[o.item]
<1>1. /\ i \in Item /\ r \in Rows /\ r # NoRecord /\ row'[i] = o.body
      /\ o.body \in Rows /\ o.body # NoRecord
      /\ \A j \in Item : j # i => row'[j] = row[j]
      /\ stored' = [stored EXCEPT ![i] = row'[i].ok]
      /\ stored[i] = r.ok /\ stored \in [Item -> SUBSET Page]
  BY EffectOf DEF EmbeddedInv, Ops, RowsInv, EmbeddedTypeOK
<1>2. /\ EmbeddedStatus(i) = IF r.again THEN "running" ELSE r.status
      /\ EmbeddedStatus(i)' = IF o.body.again THEN "running" ELSE o.body.status
  BY <1>1 DEF EmbeddedStatus
<1>3. CASE /\ o.kind = "begin" /\ r.status = "queued"
           /\ o.body = [r EXCEPT !.status = "running", !.again = FALSE]
  <2>1. o.body.status = "running" /\ ~o.body.again /\ o.body.ok = r.ok /\ o.body.bad = r.bad
    BY <1>1, <1>3 DEF Rows
  <2>2. CASE r.again
    <3>1. \A j \in Item : /\ EmbeddedStatus(j)' = EmbeddedStatus(j)
                          /\ Published(j)' = Published(j) /\ Failed(j)' = Failed(j)
      BY <1>1, <1>2, <2>1, <2>2 DEF EmbeddedStatus, Published, Failed
    <3>2. stored' = stored
      BY <1>1, <2>1
    <3> QED BY <3>1, <3>2, Unnoticed
  <2>3. CASE ~r.again
    <3>1. EmbeddedStatus(i) = "queued" /\ EmbeddedStatus(i)' = "running"
      BY <1>2, <1>3, <2>1, <2>3
    <3> QED BY <1>1, <2>1, <3>1, OneRowMoves
  <2> QED BY <2>2, <2>3
<1>4. CASE /\ r.status = "running" /\ ~r.again /\ o.page \in Todo(r)
           /\ o.body = [r EXCEPT !.ok = @ \cup {o.page}]
  <2>1. /\ o.body.status = "running" /\ ~o.body.again /\ o.body.ok = r.ok \cup {o.page}
        /\ o.body.bad = r.bad
    BY <1>1, <1>4 DEF Rows
  <2>2. EmbeddedStatus(i) = "running" /\ EmbeddedStatus(i)' = "running"
    BY <1>2, <1>4, <2>1
  <2>3. \E p \in Todo(r) : row'[i].ok = r.ok \cup {p}
    BY <1>1, <1>4, <2>1
  <2>4. row'[i].bad = r.bad
    BY <1>1, <2>1
  <2> HIDE DEF r, i
  <2>5. Promise!Next
    BY <1>1, <2>2, <2>3, <2>4, OneRowMoves DEF r, i
  <2> QED BY <2>5
<1>5. ASSUME r.status = "running", ~r.again, NEW p \in Todo(r),
             o.body = [r EXCEPT !.bad = @ \cup {p}]
      PROVE  Promise!Next
  <2>1. /\ o.body.status = "running" /\ ~o.body.again /\ o.body.bad = r.bad \cup {p}
        /\ o.body.ok = r.ok
    BY <1>1, <1>5 DEF Rows
  <2>2. EmbeddedStatus(i) = "running" /\ EmbeddedStatus(i)' = "running"
    BY <1>2, <1>5, <2>1
  <2> QED BY <1>1, <2>1, <2>2, OneRowMoves
<1>6. CASE r.status = "running" /\ ~r.again /\ o.body = [r EXCEPT !.status = "done"]
  <2>1. o.body.status = "done" /\ ~o.body.again /\ o.body.ok = r.ok /\ o.body.bad = r.bad
    BY <1>1, <1>6 DEF Rows
  <2>2. EmbeddedStatus(i) = "running" /\ EmbeddedStatus(i)' = "done"
    BY <1>2, <1>6, <2>1
  <2> QED BY <1>1, <2>1, <2>2, OneRowMoves
<1> QED BY <1>3, <1>4, <1>5, <1>6 DEF MadeOfRow

\* Every step of embedded mode is one of the lifecycle or leaves it alone.
LEMMA PromiseStep ==
    ASSUME EmbeddedInv, [EmbeddedNext]_embeddedVars
    PROVE  [Promise!Next]_(Promise!vars)
<1>1. CASE UNCHANGED <<row, stored>>
  BY <1>1, Unnoticed DEF EmbeddedStatus, Published, Failed
<1>2. ASSUME NEW i \in Item, SubmitItem(i)
      PROVE  UNCHANGED Promise!vars
  <2>1. /\ \A j \in Item : row'[j] = IF j = i THEN NewRow ELSE row[j]
        /\ row[i] = NoRecord /\ stored' = stored
    BY <1>2 DEF SubmitItem, EmbeddedInv, EmbeddedTypeOK
  <2>2. /\ NewRow \in Rows /\ NewRow.ok = {} /\ NewRow.bad = {} /\ ~NewRow.again
        /\ NewRow.status = "queued"
    BY DEF NewRow, Rows
  <2>3. \A j \in Item : /\ EmbeddedStatus(j)' = EmbeddedStatus(j)
                        /\ Published(j)' = Published(j) /\ Failed(j)' = Failed(j)
    BY <2>1, <2>2, EmbeddedAssumption DEF EmbeddedStatus, Published, Failed
  <2> QED BY <2>1, <2>3, Unnoticed
<1>3. ASSUME NEW i \in Item, WriteCancelled(i)
      PROVE  Promise!Next
  <2>1. /\ row[i] \in Rows /\ row[i] # NoRecord
        /\ row'[i] = [row[i] EXCEPT !.status = "cancelled", !.again = FALSE]
        /\ \A j \in Item : j # i => row'[j] = row[j]
        /\ row'[i] \in Rows /\ row'[i] # NoRecord /\ stored' = stored
    BY <1>3, CancelledKeeps
  <2>2. /\ row'[i].ok = row[i].ok /\ row'[i].bad = row[i].bad /\ ~row'[i].again
        /\ row'[i].status = "cancelled"
    BY <2>1 DEF Rows
  <2>3. EmbeddedStatus(i)' = "cancelled"
    BY <2>1, <2>2 DEF EmbeddedStatus
  <2>4. stored' = [stored EXCEPT ![i] = row'[i].ok]
    BY <2>1, <2>2 DEF EmbeddedInv, EmbeddedTypeOK, RowsInv
  <2> QED BY <2>1, <2>2, <2>3, <2>4, OneRowMoves
<1>4. CASE ThreadRuns
  <2>1. op \in Ops /\ MadeOfRow(op) /\ Effect(op)
    BY <1>4 DEF ThreadRuns, EmbeddedInv, EmbeddedTypeOK, OpInv
  <2> QED BY <2>1, StatementMoves
<1>5. ASSUME NEW o, LeftoverRuns(o)
      PROVE  [Promise!Next]_(Promise!vars)
  <2>1. o \in Ops /\ MadeOfRow(o) /\ Effect(o)
    BY <1>5 DEF LeftoverRuns, EmbeddedInv, EmbeddedTypeOK, EndInv
  <2> QED BY <2>1, StatementMoves
<1>6. CASE Recover
  <2>1. /\ \A i \in Item : \/ row'[i] = row[i]
                           \/ /\ row[i] \in Rows /\ row[i] # NoRecord
                              /\ row[i].status = "running" /\ ~row[i].again
                              /\ row'[i] = [row[i] EXCEPT !.status = "queued", !.again = TRUE]
                              /\ row'[i] \in Rows /\ row'[i] # NoRecord
        /\ stored' = stored
    BY <1>6, RecoverKeeps
  <2>2. ASSUME NEW i \in Item
        PROVE  /\ EmbeddedStatus(i)' = EmbeddedStatus(i)
               /\ Published(i)' = Published(i) /\ Failed(i)' = Failed(i)
    <3>1. CASE row'[i] = row[i]
      BY <3>1 DEF EmbeddedStatus, Published, Failed
    <3>2. CASE row'[i] # row[i]
      <4>1. /\ row[i] # NoRecord /\ row[i].status = "running" /\ ~row[i].again
            /\ row'[i] # NoRecord /\ row'[i].again
            /\ row'[i].ok = row[i].ok /\ row'[i].bad = row[i].bad
        BY <2>1, <3>2 DEF Rows
      <4> QED BY <4>1 DEF EmbeddedStatus, Published, Failed
    <3> QED BY <3>1, <3>2
  <2> QED BY <2>1, <2>2, Unnoticed
<1>7. CASE \/ \E i \in Item : JobStep(i) \/ RunRaises(i) \/ ReadForCancel(i)
           \/ ThreadReturns \/ Shutdown \/ ShutdownEnds \/ Kill
           \/ UNCHANGED embeddedVars
  <2>1. UNCHANGED <<row, stored>>
    BY <1>7 DEF JobStep, LoadItem, PickPage, FinishItem, CloseBroken, CommitPage, FailPage, Issue,
                RunRaises, ReadForCancel, ThreadReturns, Shutdown, ShutdownEnds, Kill, embeddedVars
  <2> QED BY <2>1, <1>1
<1> QED BY <1>2, <1>3, <1>4, <1>5, <1>6, <1>7 DEF EmbeddedNext, ThreadStep

(***************************************************************************)
(* Embedded mode implements the lifecycle, for any collections, pages and  *)
(* ends of the process: though no fence guards a row, a cancellation that  *)
(* is stored stays, facts and checkpoint are one step, and no task is      *)
(* published twice (orchestrator/service.py, storage/sqlite.py).           *)
(***************************************************************************)
THEOREM EmbeddedImplementsLifecycle == EmbeddedSpec => EmbeddedKeepsPromise
<1>1. EmbeddedInit => Promise!Init
  BY DEF EmbeddedInit, Promise!Init, EmbeddedStatus
<1>2. EmbeddedInv /\ [EmbeddedNext]_embeddedVars => [Promise!Next]_(Promise!vars)
  BY PromiseStep
<1> QED BY <1>1, <1>2, EmbeddedInitInv, EmbeddedNextInv, PTL
        DEF EmbeddedSpec, EmbeddedKeepsPromise, Promise!Spec

(***************************************************************************)
(* The node (MCNode).  Its machines share no variable.                     *)
(***************************************************************************)

\* What a step of the node is to the machines that share the model.
LEMMA NodeMovesModel ==
    [Next]_vars => \/ HealthNext /\ UNCHANGED agentVars
                   \/ AgentNext
                   \/ UNCHANGED <<llmVars, agentVars>>
BY DEF Next, vars, llmVars, HealthNext, healthVars, slotVars

\* What it is to the worker process.
LEMMA NodeMovesWorker == [Next]_vars => [WorkerNext]_workerVars
BY DEF Next, vars

\* What it is to embedded mode.
LEMMA NodeMovesEmbedded == [Next]_vars => [EmbeddedNext]_embeddedVars
BY DEF Next, vars

\* What it is to the delivery.
LEMMA NodeMovesDelivery == [Next]_vars => [DeliveryNext]_deliveryVars
BY DEF Next, vars

(***************************************************************************)
(* For every number of callers and slots, whatever model and backends do:  *)
(* the verdict on the model is no older than the cache allows, its slots   *)
(* are with the agents that use it, and nothing is left behind but by      *)
(* the calls that were cut off (llm_health.py, crawler/agent).             *)
(***************************************************************************)
THEOREM ModelStaysShared == Spec => []ModelIsShared
<1>1. Init => ModelInv
  BY HealthInitInv, NobodyInside, CallsBegin DEF Init, ModelInv
<1>2. ModelInv /\ [Next]_vars => ModelInv'
  BY NodeMovesModel, ModelNextInv
<1>3. ModelInv => ModelIsShared
  BY ModelInvHolds DEF ModelIsShared
<1> QED
  BY <1>1, <1>2, <1>3, PTL DEF Spec

(***************************************************************************)
(* What is proved of the worker process and of the delivery holds in a     *)
(* node that has them all.                                                 *)
(***************************************************************************)
THEOREM NodeCoversRuns == Spec => []ActiveCoversRuns
<1>1. Init => WorkerInit
  BY DEF Init
<1> QED
  BY <1>1, NodeMovesWorker, WorkerInitInv, WorkerNextInv, InvCoversRuns, PTL DEF Spec

\* A node in embedded mode keeps the promise of the server.
THEOREM NodeKeepsPromise == Spec => EmbeddedKeepsPromise
<1>1. Init => EmbeddedInit /\ Promise!Init
  BY DEF Init, EmbeddedInit, Promise!Init, EmbeddedStatus
<1>2. EmbeddedInv /\ [EmbeddedNext]_embeddedVars => [Promise!Next]_(Promise!vars)
  BY PromiseStep
<1> QED
  BY <1>1, <1>2, NodeMovesEmbedded, EmbeddedInitInv, EmbeddedNextInv, PTL
     DEF Spec, EmbeddedKeepsPromise, Promise!Spec

\* A client of a node receives the result of the collection, in order and whole.
THEOREM NodeDelivers == Spec => []PagesAreTheResult
<1>1. Init => DeliveryInit
  BY DEF Init
<1> QED
  BY <1>1, NodeMovesDelivery, DeliveryInitInv, DeliveryNextInv, DeliveryInvHolds, PTL DEF Spec

(***************************************************************************)
(* Whatever the model answers, on whatever page, an agent plans nothing    *)
(* that is forbidden; and for every result, cursor and limit PostgreSQL    *)
(* and SQLite return the same page (crawler/agent, result_delivery.py).    *)
(***************************************************************************)
THEOREM NodeAnswersSoundly == Spec => []AnswersAreSound
<1>1. Init => DeliveryInit
  BY DEF Init
<1>2. DeliveryInv => AnswersAreSound
  BY AgentsPlanSafely, BothStoresAgree DEF AnswersAreSound
<1> QED
  BY <1>1, <1>2, NodeMovesDelivery, DeliveryInitInv, DeliveryNextInv, PTL DEF Spec

(***************************************************************************)
(* The machines of a node have the types that their modules say: counters  *)
(* and ages stay in their ranges, and whoever waits is in the queue.       *)
(***************************************************************************)
THEOREM NodeTypeCorrect == Spec => []NodeTypeOK
<1> DEFINE Inv == ModelInv /\ WorkerInv /\ EmbeddedInv /\ DeliveryInv
<1>1. Init => Inv
  <2>1. Init => LlmInit /\ AgentInit /\ WorkerInit /\ EmbeddedInit /\ DeliveryInit
    BY DEF Init
  <2>2. LlmInit /\ AgentInit => ModelInv
    BY HealthInitInv, NobodyInside, CallsBegin DEF ModelInv
  <2> QED
    BY <2>1, <2>2, WorkerInitInv, EmbeddedInitInv, DeliveryInitInv
<1>2. Inv /\ [Next]_vars => Inv'
  <2>1. ModelInv /\ [Next]_vars => ModelInv'
    BY NodeMovesModel, ModelNextInv
  <2>2. WorkerInv /\ [Next]_vars => WorkerInv'
    BY NodeMovesWorker, WorkerNextInv
  <2>3. EmbeddedInv /\ [Next]_vars => EmbeddedInv'
    BY NodeMovesEmbedded, EmbeddedNextInv
  <2>4. DeliveryInv /\ [Next]_vars => DeliveryInv'
    BY NodeMovesDelivery, DeliveryNextInv
  <2> QED
    BY <2>1, <2>2, <2>3, <2>4
<1>3. Inv => NodeTypeOK
  BY ModelIsTyped, DeliveryIsTyped DEF WorkerInv, EmbeddedInv, NodeTypeOK
<1> QED
  BY <1>1, <1>2, <1>3, PTL DEF Spec
================================================================================
