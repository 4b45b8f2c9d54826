-------------------------- MODULE CollectionRun_proofs --------------------------
(***************************************************************************)
(* Theorems about CollectionRun, for any tasks and hosts, any budgets and  *)
(* any number of attempts that end early.                                  *)
(***************************************************************************)
EXTENDS CollectionRun, FiniteSetTheorems, TLAPS

(***************************************************************************)
(* The invariant.                                                          *)
(***************************************************************************)
\* Every record, stored or in memory: no more visits than pages, no more
\* refusals of a host than visits, and a time budget that started at zero.
RecordOK(r) ==
    /\ r \in Record
    /\ IsFiniteSet(r.visited)
    /\ Cardinality(r.visited) <= MaxPages
    /\ \A h \in Host : r.breaker[h] <= Cardinality(r.visited)
    /\ r.started \in {0, None}

\* What a record may claim, given the stored facts.
Honest(r) ==
    /\ r.status = "completed" => r.pending = {} /\ r.marks = {}
    /\ r.status = "partial" => AllowPartial /\ facts > 0
    /\ r.status = "blocked" => facts = 0

\* What a record that goes with the stored facts and the clock looks like.
Stands(r) ==
    /\ RecordOK(r)
    /\ Honest(r)
    /\ r.started = None => clock = 0
    /\ facts > 0 => r.visited # {}

Working == {"initial", "discover", "plan", "loop", "fetch", "finish"}

\* The attempt works on the stored record, less the task it took out.
Attempt ==
    /\ mem.visited = row.visited
    /\ mem.breaker = row.breaker
    /\ row.pending \cup row.visited \subseteq mem.pending \cup mem.visited \cup {task}
    /\ pc \in Working => row.status = "running"

RunInv ==
    /\ Stands(row)
    /\ RecordOK(mem)
    /\ pc # "idle" => mem.started = row.started
    /\ pc # "idle" /\ row.status # "cancelled" => Attempt
    /\ pc \in Working => mem.status = "running"
    /\ pc \in {"loop", "fetch", "finish"} => mem.started = 0
    /\ pc = "fetch" => clock < TimeBudget /\ task \notin mem.visited /\ PagesLeft(mem)
    /\ pc = "finish" /\ ~late => mem.pending = {} \/ ~PagesLeft(mem)

\* Record r may be stored, and the attempt may go on at next.
MayStore(r, next) ==
    /\ next \in {"idle", "initial", "discover", "plan", "loop", "align"}
    /\ next \in Working => r.status = "running"
    /\ next = "loop" => r.started = 0
    /\ Stands(r)

(***************************************************************************)
(* Records.                                                                *)
(***************************************************************************)
\* A new record stands at the start of the collection.
LEMMA NewRecordOK == RecordOK(NewRecord) /\ NewRecord.visited = {}
BY CollectionRunAssumption, FS_EmptySet DEF RecordOK, NewRecord, Record, Status, Mark

\* One more visit while pages are left, and at most one more refusal per host.
LEMMA OneMoreVisit ==
    ASSUME NEW r, RecordOK(r), PagesLeft(r), NEW t, t \notin r.visited,
           NEW q \in Record, q.visited = r.visited \cup {t}, q.started = r.started,
           \A h \in Host : q.breaker[h] <= r.breaker[h] + 1
    PROVE  RecordOK(q)
<1>1. Cardinality(r.visited) \in Nat
  BY FS_CardinalityType DEF RecordOK
<1>2. IsFiniteSet(q.visited) /\ Cardinality(q.visited) = Cardinality(r.visited) + 1
  BY SMTT(30), FS_AddElement DEF RecordOK
<1>3. \A h \in Host : r.breaker[h] \in Nat /\ q.breaker[h] \in Nat
  BY DEF RecordOK, Record
<1>4. Cardinality(q.visited) <= MaxPages
  BY <1>1, <1>2, CollectionRunAssumption DEF PagesLeft
<1>5. \A h \in Host : q.breaker[h] <= Cardinality(q.visited)
  <2> TAKE h \in Host
  <2>1. q.breaker[h] <= r.breaker[h] + 1 /\ r.breaker[h] <= Cardinality(r.visited)
    BY DEF RecordOK
  <2> QED BY <1>1, <1>2, <1>3, <2>1
<1> QED BY <1>2, <1>4, <1>5 DEF RecordOK

\* The record of a delivered task is well formed.
LEMMA DeliveredOK ==
    ASSUME NEW r, RecordOK(r), PagesLeft(r), NEW t \in Task, t \notin r.visited,
           NEW marks \in SUBSET Mark, NEW kids \in SUBSET Task,
           NEW q, q = Delivered(r, t, marks, kids)
    PROVE  /\ RecordOK(q)
           /\ q.visited = r.visited \cup {t} /\ q.started = r.started /\ q.status = r.status
           /\ \A u \in r.pending : u \in q.pending \/ q.breaker[HostOf[u]] >= Threshold
<1> DEFINE h == HostOf[t]
           c == IF "blocked" \in marks THEN [r EXCEPT !.breaker[h] = @ + 1] ELSE r
<1> USE CollectionRunAssumption
<1>1. r \in Record /\ h \in Host
  BY DEF RecordOK
<1>2. r.breaker[h] + 1 \in 0..MaxPages
  <2>1. Cardinality(r.visited) \in Nat
    BY FS_CardinalityType DEF RecordOK
  <2>2. r.breaker[h] \in Nat
    BY <1>1 DEF Record
  <2> QED BY <1>1, <2>1, <2>2 DEF RecordOK, PagesLeft
<1>3. /\ c \in Record /\ c.visited = r.visited /\ c.started = r.started
      /\ c.status = r.status /\ c.pending = r.pending
      /\ \A g \in Host : c.breaker[g] <= r.breaker[g] + 1
  BY <1>1, <1>2 DEF Record
<1>4. Pruned(c, h) \subseteq r.pending
  BY <1>3 DEF Pruned
<1>5. \A u \in r.pending : u \in Pruned(c, h) \/ c.breaker[HostOf[u]] >= Threshold
  BY <1>1, <1>3 DEF Pruned, Record
<1>6. /\ q \in Record /\ q.visited = r.visited \cup {t} /\ q.started = r.started
      /\ q.status = r.status /\ q.breaker = c.breaker
      /\ q.pending = (IF "blocked" \in marks THEN Pruned(c, h) ELSE r.pending)
                        \cup (kids \ r.visited)
  <2> HIDE DEF c
  <2>1. q = [c EXCEPT
               !.pending = (IF "blocked" \in marks THEN Pruned(c, h) ELSE r.pending)
                              \cup (kids \ r.visited),
               !.visited = @ \cup {t},
               !.marks = @ \cup (IF "blocked" \in marks THEN marks \ {"partial"} ELSE marks)]
    BY DEF Delivered, c
  <2> DEFINE p == (IF "blocked" \in marks THEN Pruned(c, h) ELSE r.pending) \cup (kids \ r.visited)
             m == c.marks \cup (IF "blocked" \in marks THEN marks \ {"partial"} ELSE marks)
  <2>2. p \in SUBSET Task /\ m \in SUBSET Mark /\ c.visited \cup {t} \in SUBSET Task
    BY <1>1, <1>3, <1>4 DEF Record
  <2>3. q = [c EXCEPT !.pending = p, !.visited = @ \cup {t}, !.marks = m]
    BY <1>3, <2>1 DEF Record
  <2> HIDE DEF p, m
  <2>4. /\ q \in Record /\ q.visited = r.visited \cup {t} /\ q.started = r.started
        /\ q.status = r.status /\ q.breaker = c.breaker /\ q.pending = p
    BY ZenonT(30), <1>3, <2>2, <2>3 DEF Record
  <2> QED BY <2>4 DEF p
<1> HIDE DEF c, h
<1>7. RecordOK(q)
  BY <1>3, <1>6, OneMoreVisit
<1>8. \A u \in r.pending : u \in q.pending \/ q.breaker[HostOf[u]] >= Threshold
  BY <1>5, <1>6
<1> QED BY <1>6, <1>7, <1>8

(***************************************************************************)
(* The ways an attempt goes on.                                            *)
(***************************************************************************)
\* The attempt ends and stores nothing.
LEMMA EndStep ==
    ASSUME TypeOK, RunInv, End, UNCHANGED <<row, facts, clock>>, crashes' \in 0..MaxCrashes
    PROVE  TypeOK' /\ RunInv'
<1>1. RecordOK(NewRecord)
  BY NewRecordOK
<1>2. TypeOK'
  BY <1>1, CollectionRunAssumption DEF TypeOK, End, RecordOK
<1>3. Stands(row)'
  BY DEF RunInv, Stands, RecordOK, Honest
<1>4. RecordOK(mem)'
  BY <1>1 DEF End, RecordOK
<1> QED BY <1>2, <1>3, <1>4 DEF RunInv, End, Working

\* A record that may be stored is stored, or the row is cancelled.
LEMMA StoreStep ==
    ASSUME TypeOK, RunInv, NEW r, NEW next, Store(r, next),
           row.status # "cancelled" => MayStore(r, next),
           UNCHANGED <<facts, clock>>, crashes' \in 0..MaxCrashes
    PROVE  TypeOK' /\ RunInv'
<1>1. CASE End /\ UNCHANGED row
  BY <1>1, EndStep
<1>2. CASE row' = r /\ End /\ MayStore(r, next)
  <2>1. RecordOK(NewRecord) /\ r \in Record
    BY <1>2, NewRecordOK DEF MayStore, Stands, RecordOK
  <2>2. TypeOK'
    BY <1>2, <2>1, CollectionRunAssumption DEF TypeOK, End, RecordOK
  <2>3. Stands(row)'
    BY <1>2 DEF MayStore, Stands, RecordOK, Honest
  <2>4. RecordOK(mem)'
    BY <1>2, <2>1 DEF End, RecordOK
  <2> QED BY <1>2, <2>2, <2>3, <2>4 DEF RunInv, End, Working
<1>3. CASE row' = r /\ GoOn(r, next) /\ MayStore(r, next) /\ next # "idle"
  <2>1. r \in Record
    BY <1>3 DEF MayStore, Stands, RecordOK
  <2>2. TypeOK'
    BY <1>3, <2>1, CollectionRunAssumption DEF TypeOK, GoOn, MayStore
  <2>3. Stands(row)'
    BY <1>3 DEF MayStore, Stands, RecordOK, Honest
  <2>4. RecordOK(mem)'
    BY <1>3 DEF GoOn, MayStore, Stands, RecordOK
  <2>5. Attempt'
    BY <1>3 DEF GoOn, MayStore, Attempt, Working
  <2> QED BY <1>3, <2>2, <2>3, <2>4, <2>5 DEF RunInv, GoOn, MayStore, Working
<1> QED BY <1>1, <1>2, <1>3 DEF Store, MayStore

\* Nothing is stored and the attempt goes on with its copy.
LEMMA GoOnStep ==
    ASSUME TypeOK, RunInv, NEW next \in {"discover", "loop", "finish"}, GoOn(mem, next),
           pc \in Working \ {"fetch"}, UNCHANGED <<row, facts, clock, crashes>>,
           next \in {"loop", "finish"} => mem.started = 0,
           next = "finish" => mem.pending = {} \/ ~PagesLeft(mem)
    PROVE  TypeOK' /\ RunInv'
<1>1. TypeOK'
  BY CollectionRunAssumption DEF TypeOK, GoOn, Working
<1>2. Stands(row)' /\ RecordOK(mem)'
  BY DEF RunInv, GoOn, Stands, RecordOK, Honest
<1>3. row.status # "cancelled" => Attempt'
  BY CollectionRunAssumption DEF TypeOK, RunInv, GoOn, Attempt, Working
<1>4. mem' = mem /\ pc' = next
  BY DEF GoOn
<1> QED BY <1>1, <1>2, <1>3, <1>4 DEF RunInv, Working, PagesLeft

(***************************************************************************)
(* Every step preserves the invariant.                                     *)
(***************************************************************************)
\* What the invariant says of the copy of an attempt that may still store it.
LEMMA CopyStands ==
    ASSUME TypeOK, RunInv, pc \in Working, row.status # "cancelled"
    PROVE  /\ mem.visited = row.visited /\ mem.status = "running" /\ row.status = "running"
           /\ mem.started = row.started /\ Stands(mem)
BY DEF RunInv, Attempt, Working, Stands, Honest

\* Planning.
LEMMA PlanningSteps ==
    ASSUME TypeOK, RunInv,
           Begin \/ PlanInitial \/ Discover \/ PlanStore \/ NoTasks \/ StartBudget
    PROVE  TypeOK' /\ RunInv'
<1> USE CollectionRunAssumption
<1>0. mem \in Record /\ row \in Record /\ crashes \in 0..MaxCrashes
  BY DEF TypeOK
<1>1. CASE Begin
  <2> DEFINE r == [row EXCEPT !.status = "running"]
  <2>1. MayStore(r, "initial")
    BY <1>0 DEF RunInv, MayStore, Stands, RecordOK, Honest, Record, Status
  <2> QED BY <1>0, <1>1, <2>1, StoreStep DEF Begin
<1>2. CASE PlanInitial
  <2>1. pc = "initial" /\ UNCHANGED <<facts, clock, crashes>>
    BY <1>2 DEF PlanInitial
  <2>2. CASE GoOn(mem, "discover") /\ UNCHANGED row
    BY <2>1, <2>2, GoOnStep DEF Working
  <2>3. ASSUME NEW found \in SUBSET Initial,
               Store([mem EXCEPT !.initial = TRUE, !.pending = @ \cup found], "discover")
        PROVE  TypeOK' /\ RunInv'
    <3> DEFINE r == [mem EXCEPT !.initial = TRUE, !.pending = @ \cup found]
    <3>1. ASSUME row.status # "cancelled" PROVE MayStore(r, "discover")
      <4>1. Stands(mem) /\ mem.status = "running"
        BY <2>1, <3>1, CopyStands DEF Working
      <4>2. /\ r \in Record /\ r.status = mem.status /\ r.visited = mem.visited
            /\ r.started = mem.started /\ r.breaker = mem.breaker
        BY <1>0 DEF Record
      <4> QED BY <4>1, <4>2 DEF MayStore, Stands, RecordOK, Honest
    <3> QED BY <1>0, <2>1, <2>3, <3>1, StoreStep
  <2> QED BY <1>2, <2>2, <2>3 DEF PlanInitial
<1>3. CASE Discover
  <2>1. PICK found \in SUBSET Searchable, errors \in SUBSET {"error"}, blocked \in BOOLEAN :
          Store([mem EXCEPT !.pending = @ \cup found, !.marks = @ \cup errors,
                            !.dblocked = @ \/ blocked], "discover")
    BY <1>3 DEF Discover
  <2> DEFINE r == [mem EXCEPT !.pending = @ \cup found, !.marks = @ \cup errors,
                              !.dblocked = @ \/ blocked]
  <2>2. pc = "discover" /\ UNCHANGED <<facts, clock, crashes>>
    BY <1>3 DEF Discover
  <2>3. ASSUME row.status # "cancelled" PROVE MayStore(r, "discover")
    <3>1. Stands(mem) /\ mem.status = "running"
      BY <2>2, <2>3, CopyStands DEF Working
    <3>2. (mem.dblocked \/ blocked) \in BOOLEAN /\ mem.marks \cup errors \in SUBSET Mark
      BY <1>0 DEF Record, Mark
    <3>3. /\ r \in Record /\ r.status = mem.status /\ r.visited = mem.visited
          /\ r.started = mem.started /\ r.breaker = mem.breaker
      BY <1>0, <3>2 DEF Record
    <3> QED BY <3>1, <3>3 DEF MayStore, Stands, RecordOK, Honest
  <2> QED BY <1>0, <2>1, <2>2, <2>3, StoreStep
<1>4. CASE PlanStore
  <2>1. PICK found \in SUBSET Task :
          Store([mem EXCEPT !.planned = TRUE, !.pending = @ \cup found], "plan")
    BY <1>4 DEF PlanStore
  <2> DEFINE r == [mem EXCEPT !.planned = TRUE, !.pending = @ \cup found]
  <2>2. pc = "discover" /\ UNCHANGED <<facts, clock, crashes>>
    BY <1>4 DEF PlanStore
  <2>3. ASSUME row.status # "cancelled" PROVE MayStore(r, "plan")
    <3>1. Stands(mem) /\ mem.status = "running"
      BY <2>2, <2>3, CopyStands DEF Working
    <3>2. /\ r \in Record /\ r.status = mem.status /\ r.visited = mem.visited
          /\ r.started = mem.started /\ r.breaker = mem.breaker
      BY <1>0 DEF Record
    <3> QED BY <3>1, <3>2 DEF MayStore, Stands, RecordOK, Honest
  <2> QED BY <1>0, <2>1, <2>2, <2>3, StoreStep
<1>5. CASE NoTasks
  <2> DEFINE v == IF mem.dblocked THEN "blocked" ELSE "failed"
             r == [mem EXCEPT !.status = v]
  <2>1. pc = "plan" /\ mem.visited = {} /\ Store(r, "idle") /\ UNCHANGED <<facts, clock, crashes>>
    BY <1>5 DEF NoTasks
  <2>2. ASSUME row.status # "cancelled" PROVE MayStore(r, "idle")
    <3>1. Stands(mem)
      BY <2>1, <2>2, CopyStands DEF Working
    <3>2. facts = 0
      BY <2>1, <3>1 DEF Stands, TypeOK
    <3>3. /\ r \in Record /\ r.status \in {"blocked", "failed"} /\ r.visited = mem.visited
          /\ r.started = mem.started /\ r.breaker = mem.breaker
      BY <1>0 DEF Record, Status, Closed
    <3> QED BY <3>1, <3>2, <3>3 DEF MayStore, Stands, RecordOK, Honest, Working
  <2> QED BY <1>0, <2>1, <2>2, StoreStep
<1>6. CASE StartBudget
  <2>1. pc = "plan" /\ UNCHANGED <<facts, clock, crashes>>
    BY <1>6 DEF StartBudget
  <2>2. CASE mem.started # None /\ GoOn(mem, "loop") /\ UNCHANGED row
    <3>1. mem.started = 0
      BY <2>2 DEF RunInv, RecordOK
    <3> QED BY <2>1, <2>2, <3>1, GoOnStep DEF Working
  <2>3. CASE mem.started = None /\ Store([mem EXCEPT !.started = clock], "loop")
    <3> DEFINE r == [mem EXCEPT !.started = clock]
    <3>1. ASSUME row.status # "cancelled" PROVE MayStore(r, "loop")
      <4>1. Stands(mem) /\ mem.status = "running"
        BY <2>1, <3>1, CopyStands DEF Working
      <4>2. clock = 0
        BY <2>3, <4>1 DEF Stands
      <4>3. /\ r \in Record /\ r.status = mem.status /\ r.visited = mem.visited
            /\ r.started = 0 /\ r.breaker = mem.breaker
        BY <1>0, <4>2 DEF Record
      <4> QED BY <4>1, <4>2, <4>3 DEF MayStore, Stands, RecordOK, Honest
    <3> QED BY <1>0, <2>1, <2>3, <3>1, StoreStep
  <2> QED BY <1>6, <2>2, <2>3 DEF StartBudget
<1> QED BY <1>1, <1>2, <1>3, <1>4, <1>5, <1>6

\* The record that Succeed stores.
LEMMA DeliveredStored ==
    ASSUME RecordOK(mem), PagesLeft(mem), task \in Task, task \notin mem.visited,
           NEW marks \in SUBSET Mark, NEW kids \in SUBSET Task,
           row' = Delivered(mem, task, marks, kids)
    PROVE  /\ RecordOK(row') /\ row'.status = mem.status /\ row'.started = mem.started
           /\ row'.visited = mem.visited \cup {task}
           /\ \A u \in mem.pending :
                 u \in row'.pending \/ row'.breaker[HostOf[u]] >= Threshold
<1>1. RecordOK(row')
  BY DeliveredOK
<1>2. row'.visited = mem.visited \cup {task}
  BY DeliveredOK
<1>3. row'.started = mem.started
  BY DEF Delivered, RecordOK, Record
<1>4. row'.status = mem.status
  BY DEF Delivered, RecordOK, Record
<1>5. ASSUME NEW u \in mem.pending
      PROVE  u \in row'.pending \/ row'.breaker[HostOf[u]] >= Threshold
  BY <1>5, DeliveredOK
<1> QED BY <1>1, <1>2, <1>3, <1>4, <1>5

\* The task loop.
LEMMA LoopSteps ==
    ASSUME TypeOK, RunInv, Pick \/ Succeed \/ Fail \/ Deadline
    PROVE  TypeOK' /\ RunInv'
<1> USE CollectionRunAssumption
<1>0. mem \in Record /\ row \in Record /\ crashes \in 0..MaxCrashes
  BY DEF TypeOK
<1>1. CASE Pick
  <2>1. pc = "loop" /\ mem.started = 0 /\ UNCHANGED <<row, facts, clock, crashes>>
    BY <1>1 DEF Pick, RunInv
  <2>2. CASE End
    BY <1>0, <2>1, <2>2, EndStep
  <2>3. CASE GoOn(mem, "finish") /\ (mem.pending = {} \/ ~PagesLeft(mem))
    BY <2>1, <2>3, GoOnStep DEF Working
  <2>4. CASE pc' = "finish" /\ late' = TRUE /\ UNCHANGED <<mem, task>>
    <3>1. TypeOK'
      BY <2>1, <2>4 DEF TypeOK
    <3>2. Stands(row)' /\ RecordOK(mem)'
      BY <2>1, <2>4 DEF RunInv, Stands, RecordOK, Honest
    <3> QED BY <2>1, <2>4, <3>1, <3>2 DEF RunInv, Attempt, Working
  <2>5. ASSUME NEW t \in mem.pending, PagesLeft(mem), Remaining(mem) > 0,
               pc' = IF t \in mem.visited THEN "loop" ELSE "fetch",
               task' = IF t \in mem.visited THEN None ELSE t,
               mem' = [mem EXCEPT !.pending = @ \ {t}], UNCHANGED late
        PROVE  TypeOK' /\ RunInv'
    <3>1. /\ mem' \in Record /\ mem'.status = mem.status /\ mem'.visited = mem.visited
          /\ mem'.started = mem.started /\ mem'.breaker = mem.breaker
          /\ mem'.pending = mem.pending \ {t} /\ t \in Task
      BY <1>0, <2>5 DEF Record
    <3>2. TypeOK'
      <4>1. task' \in Task \cup {None} /\ (pc' = "fetch" <=> task' # None)
        <5>1. CASE t \in mem.visited
          BY <2>5, <5>1
        <5>2. CASE t \notin mem.visited
          BY <2>5, <3>1, <5>2
        <5> QED BY <5>1, <5>2
      <4>2. pc' \in {"loop", "fetch"}
        BY <2>5
      <4> QED BY <2>1, <2>5, <3>1, <4>1, <4>2 DEF TypeOK
    <3>3. Stands(row)' /\ RecordOK(mem)'
      BY <2>1, <3>1 DEF RunInv, Stands, RecordOK, Honest
    <3>4. clock < TimeBudget
      BY <2>1, <2>5 DEF TypeOK, Remaining
    <3>5. row.status # "cancelled" => Attempt'
      <4>1. task = None
        BY <2>1 DEF TypeOK
      <4>2. row.status # "cancelled" => Attempt
        BY <2>1 DEF RunInv
      <4>3. task' = t \/ t \in mem.visited
        BY <2>5
      <4>4. \A u \in row.pending \cup row.visited : u \in Task
        BY <1>0 DEF Record
      <4> QED BY <2>1, <3>1, <4>1, <4>2, <4>3, <4>4 DEF Attempt, Working
    <3>6. PagesLeft(mem)'
      BY <2>5, <3>1 DEF PagesLeft
    <3> QED BY <2>1, <2>5, <3>1, <3>2, <3>3, <3>4, <3>5, <3>6 DEF RunInv, Working
  <2> QED BY <1>1, <2>2, <2>3, <2>4, <2>5 DEF Pick
<1>2. CASE Succeed
  <2>1. /\ pc = "fetch" /\ task \in Task /\ task \notin mem.visited /\ PagesLeft(mem)
        /\ UNCHANGED <<clock, crashes>> /\ RecordOK(mem) /\ mem.status = "running"
        /\ mem.started = 0
    BY <1>2 DEF Succeed, TypeOK, RunInv, Working
  <2>2. CASE End /\ UNCHANGED <<row, facts>>
    BY <1>0, <2>1, <2>2, EndStep
  <2>3. ASSUME NEW marks \in SUBSET Mark, NEW kids \in SUBSET Children[task],
               row' = Delivered(mem, task, marks, kids),
               GoOn(Delivered(mem, task, marks, kids), "loop"),
               facts' \in facts..2
        PROVE  TypeOK' /\ RunInv'
    <3>1. /\ RecordOK(row') /\ row'.status = "running" /\ row'.started = 0
          /\ row'.visited # {}
      <4>1. kids \in SUBSET Task
        BY <2>1
      <4>2. RecordOK(row') /\ row'.status = mem.status /\ row'.started = mem.started
        BY <2>1, <2>3, <4>1, DeliveredStored
      <4>3. row'.visited = mem.visited \cup {task}
        BY <2>1, <2>3, <4>1, DeliveredStored
      <4> QED BY <2>1, <4>2, <4>3
    <3>2. pc' = "loop" /\ mem' = row' /\ task' = None /\ UNCHANGED late
      BY <2>3 DEF GoOn
    <3>3. TypeOK'
      BY <2>1, <2>3, <3>1, <3>2 DEF TypeOK, RecordOK
    <3>4. Stands(row)' /\ RecordOK(mem)'
      BY <3>1, <3>2 DEF Stands, RecordOK, Honest
    <3>5. Attempt'
      BY <3>1, <3>2 DEF Attempt
    <3> QED BY <3>1, <3>2, <3>3, <3>4, <3>5 DEF RunInv, Working
  <2> QED BY <1>2, <2>2, <2>3 DEF Succeed
<1>3. CASE Fail
  <2>1. PICK m \in {"error", "blocked"} :
          Store([mem EXCEPT !.visited = @ \cup {task}, !.marks = @ \cup {m}], "loop")
    BY <1>3 DEF Fail
  <2> DEFINE r == [mem EXCEPT !.visited = @ \cup {task}, !.marks = @ \cup {m}]
  <2>2. /\ pc = "fetch" /\ task \in Task /\ task \notin mem.visited /\ PagesLeft(mem)
        /\ UNCHANGED <<facts, clock, crashes>> /\ RecordOK(mem) /\ mem.started = 0
    BY <1>3 DEF Fail, TypeOK, RunInv
  <2>3. ASSUME row.status # "cancelled" PROVE MayStore(r, "loop")
    <3>1. Stands(mem) /\ mem.status = "running"
      BY <2>2, <2>3, CopyStands DEF Working
    <3>2. /\ r \in Record /\ r.status = mem.status /\ r.visited = mem.visited \cup {task}
          /\ r.started = 0 /\ r.breaker = mem.breaker
      BY <1>0, <2>2 DEF Record, Mark
    <3>3. RecordOK(r)
      <4>1. \A h \in Host : r.breaker[h] <= mem.breaker[h] + 1
        BY <1>0, <3>2 DEF Record
      <4> HIDE DEF r
      <4> QED BY <2>2, <3>2, <4>1, OneMoreVisit
    <3> QED BY <3>1, <3>2, <3>3 DEF MayStore, Stands, Honest
  <2> QED BY <1>0, <2>1, <2>2, <2>3, StoreStep
<1>4. CASE Deadline
  <2>1. /\ pc = "fetch" /\ task \in Task /\ mem.started = 0
        /\ pc' = "finish" /\ late' = TRUE /\ task' = None
        /\ clock' \in clock..TimeBudget /\ UNCHANGED <<row, facts, crashes>>
    BY <1>4 DEF Deadline, TypeOK, RunInv
  <2>2. /\ mem' \in Record /\ mem'.status = mem.status /\ mem'.visited = mem.visited
        /\ mem'.started = mem.started /\ mem'.breaker = mem.breaker
        /\ mem'.pending = mem.pending \cup {task}
    BY <1>0, <1>4, <2>1 DEF Deadline, Record
  <2>3. TypeOK'
    BY <2>1, <2>2 DEF TypeOK
  <2>4. RecordOK(mem)'
    BY <2>2 DEF RunInv, RecordOK
  <2>5. row.status # "cancelled" => Attempt'
    BY <2>1, <2>2 DEF RunInv, Attempt, Working
  <2>6. Stands(row)'
    <3>1. row.started = 0 /\ None # 0
      BY <2>1 DEF RunInv
    <3> QED BY <2>1, <3>1 DEF RunInv, Stands, RecordOK, Honest
  <2> QED BY <2>1, <2>2, <2>3, <2>4, <2>5, <2>6 DEF RunInv, Working
<1> QED BY <1>1, <1>2, <1>3, <1>4

\* Closing, and the failures outside the task loop.
LEMMA ClosingSteps ==
    ASSUME TypeOK, RunInv, Finish \/ Align \/ RunFails
    PROVE  TypeOK' /\ RunInv'
<1> USE CollectionRunAssumption
<1>0. mem \in Record /\ row \in Record /\ crashes \in 0..MaxCrashes /\ facts \in 0..2
  BY DEF TypeOK
<1>1. CASE Finish
  <2> DEFINE r == [mem EXCEPT !.status = Verdict(mem), !.marks = Marks(mem)]
  <2>1. pc = "finish" /\ Store(r, "align") /\ UNCHANGED <<facts, clock, crashes>>
    BY <1>1 DEF Finish
  <2>2. ASSUME row.status # "cancelled" PROVE MayStore(r, "align")
    <3>1. Stands(mem)
      BY <2>1, <2>2, CopyStands DEF Working
    <3>2. Marks(mem) \in SUBSET Mark /\ Verdict(mem) \in Closed
      BY <1>0 DEF Marks, Verdict, Closed, Mark, Record
    <3>3. /\ r \in Record /\ r.status = Verdict(mem) /\ r.marks = Marks(mem)
          /\ r.pending = mem.pending /\ r.visited = mem.visited
          /\ r.started = mem.started /\ r.breaker = mem.breaker
      BY <1>0, <3>2 DEF Record, Status
    <3>4. Verdict(mem) = "completed" => mem.pending = {} /\ Marks(mem) = {}
      <4> SUFFICES ASSUME Verdict(mem) = "completed" PROVE mem.pending = {} /\ Marks(mem) = {}
        OBVIOUS
      <4>1. Marks(mem) = {}
        BY DEF Verdict
      <4>2. ~late /\ ~OutOfPages(mem)
        BY <4>1 DEF Marks
      <4> QED BY <2>1, <4>1, <4>2 DEF OutOfPages, RunInv
    <3>5. /\ Verdict(mem) = "partial" => AllowPartial /\ facts > 0
          /\ Verdict(mem) = "blocked" => facts = 0
      BY <1>0 DEF Verdict
    <3> HIDE DEF r
    <3> QED BY <3>1, <3>3, <3>4, <3>5 DEF MayStore, Stands, RecordOK, Honest, Working
  <2> QED BY <1>0, <2>1, <2>2, StoreStep
<1>2. CASE Align
  <2> DEFINE v == IF AllowPartial /\ facts > 0 THEN "partial" ELSE "failed"
             d == [row EXCEPT !.status = v, !.marks = @ \cup {"error"}]
             r == IF facts = 2 THEN row ELSE d
  <2>1. UNCHANGED <<facts, clock, crashes>>
    BY <1>2 DEF Align
  <2>2. CASE End /\ UNCHANGED row
    BY <1>0, <2>1, <2>2, EndStep
  <2>3. CASE Store(r, "idle")
    <3>1. /\ d \in Record /\ d.status = v /\ d.visited = row.visited
          /\ d.started = row.started /\ d.breaker = row.breaker
      BY <1>0 DEF Record, Status, Closed, Mark
    <3>2. MayStore(d, "idle")
      BY <3>1 DEF RunInv, MayStore, Stands, RecordOK, Honest, Working
    <3>3. MayStore(row, "idle")
      BY DEF RunInv, MayStore, Working
    <3> HIDE DEF d
    <3>4. MayStore(r, "idle")
      BY <3>2, <3>3
    <3> HIDE DEF r
    <3> QED BY <1>0, <2>1, <2>3, <3>4, StoreStep
  <2> QED BY <1>2, <2>2, <2>3 DEF Align
<1>3. CASE RunFails
  <2> DEFINE v == IF AllowPartial /\ facts > 0 THEN "partial" ELSE "failed"
             r == [row EXCEPT !.status = v, !.marks = @ \cup {"error"}]
  <2>1. Store(r, "idle") /\ UNCHANGED <<facts, clock>> /\ crashes' \in 0..MaxCrashes
    BY <1>0, <1>3 DEF RunFails
  <2>2. /\ r \in Record /\ r.status = v /\ r.visited = row.visited
        /\ r.started = row.started /\ r.breaker = row.breaker
    BY <1>0 DEF Record, Status, Closed, Mark
  <2>3. MayStore(r, "idle")
    BY <2>2 DEF RunInv, MayStore, Stands, RecordOK, Honest, Working
  <2> HIDE DEF r
  <2> QED BY <2>1, <2>3, StoreStep
<1> QED BY <1>1, <1>2, <1>3

\* Every step.
LEMMA RunStep == TypeOK /\ RunInv /\ [Next]_vars => TypeOK' /\ RunInv'
<1> SUFFICES ASSUME TypeOK, RunInv, [Next]_vars PROVE TypeOK' /\ RunInv'
  OBVIOUS
<1>1. CASE Step
  BY <1>1, PlanningSteps, LoopSteps, ClosingSteps DEF Step
<1>2. CASE RunFails
  BY <1>2, ClosingSteps
<1>3. CASE Crash
  <2>1. End /\ UNCHANGED <<row, facts, clock>> /\ crashes' \in 0..MaxCrashes
    BY <1>3, CollectionRunAssumption DEF Crash, TypeOK
  <2> QED BY <2>1, EndStep
<1>4. CASE Cancel
  <2>1. /\ row' \in Record /\ row'.status = "cancelled" /\ row'.pending = row.pending
        /\ row'.visited = row.visited /\ row'.started = row.started
        /\ row'.breaker = row.breaker
    BY <1>4 DEF Cancel, TypeOK, Record, Status
  <2>2. UNCHANGED <<facts, pc, mem, task, late, clock, crashes>>
    BY <1>4 DEF Cancel, attempt
  <2>3. TypeOK'
    BY <2>1, <2>2 DEF TypeOK
  <2>4. Stands(row)' /\ RecordOK(mem)'
    BY <2>1, <2>2 DEF RunInv, Stands, RecordOK, Honest
  <2> QED BY <2>1, <2>2, <2>3, <2>4 DEF RunInv, PagesLeft
<1>5. CASE Tick
  <2>1. /\ pc # "fetch" /\ row.started # None /\ clock' \in 0..TimeBudget
        /\ UNCHANGED <<row, facts, pc, mem, task, late, crashes>>
    BY <1>5, CollectionRunAssumption DEF Tick, TypeOK, attempt
  <2>2. TypeOK'
    BY <2>1 DEF TypeOK
  <2>3. Stands(row)' /\ RecordOK(mem)'
    BY <2>1 DEF RunInv, Stands, RecordOK, Honest
  <2> QED BY <2>1, <2>2, <2>3 DEF RunInv, Attempt, PagesLeft
<1>6. CASE UNCHANGED vars
  <2>1. TypeOK'
    BY <1>6 DEF vars, TypeOK
  <2>2. Stands(row)' /\ RecordOK(mem)'
    BY <1>6 DEF vars, RunInv, Stands, RecordOK, Honest
  <2> QED BY <1>6, <2>1, <2>2 DEF vars, RunInv, Attempt, PagesLeft
<1> QED BY <1>1, <1>2, <1>3, <1>4, <1>5, <1>6 DEF Next

\* The invariant holds in every reachable state.
LEMMA RunCorrect == Spec => [](TypeOK /\ RunInv)
<1>1. Init => TypeOK /\ RunInv
  <2> SUFFICES ASSUME Init PROVE TypeOK /\ RunInv
    OBVIOUS
  <2>1. RecordOK(NewRecord) /\ NewRecord.visited = {} /\ NewRecord.status = "queued"
    BY NewRecordOK DEF NewRecord
  <2>2. TypeOK
    <3>1. NewRecord \in Record
      BY <2>1 DEF RecordOK
    <3>2. 0 \in 0..2 /\ 0 \in 0..TimeBudget /\ 0 \in 0..MaxCrashes
      BY CollectionRunAssumption
    <3> QED BY <3>1, <3>2 DEF Init, TypeOK
  <2>3. /\ row = NewRecord /\ mem = NewRecord /\ facts = 0 /\ clock = 0
        /\ pc = "idle" /\ late = FALSE
    BY DEF Init
  <2>4. Stands(row)
    BY <2>1, <2>3 DEF Stands, Honest
  <2> QED BY <2>1, <2>2, <2>3, <2>4 DEF RunInv, Working
<1> QED BY <1>1, RunStep, PTL DEF Spec

(***************************************************************************)
(* The theorems.                                                           *)
(***************************************************************************)
\* The record keeps its shape, the refusal counters included.
THEOREM TypeCorrect == Spec => []TypeOK
BY RunCorrect, PTL

\* All attempts together visit no more than max_pages tasks.
THEOREM PageBudget == Spec => []WithinPageBudget
<1>1. RunInv => WithinPageBudget
  BY DEF RunInv, Stands, RecordOK, WithinPageBudget
<1> QED BY <1>1, RunCorrect, PTL

\* No attempt starts a fetch after the time budget of the collection.
THEOREM TimeBudgetKept == Spec => []FetchesBeforeDeadline
<1>1. RunInv => FetchesBeforeDeadline
  BY DEF RunInv, FetchesBeforeDeadline
<1> QED BY <1>1, RunCorrect, PTL

\* Whichever of the places that close a collection closed it, and after whatever
\* attempts: "completed" has no queue and no marks behind it, "partial" has
\* facts and "blocked" has none.
THEOREM HonestVerdict == Spec => []ClosedHonestly
<1>1. RunInv => ClosedHonestly
  BY DEF RunInv, Stands, Honest, ClosedHonestly
<1> QED BY <1>1, RunCorrect, PTL

(***************************************************************************)
(* No stored task is lost.                                                 *)
(***************************************************************************)
\* A record that is stored over a row that is not cancelled keeps the tasks of
\* the row when it has those of the attempt.
LEMMA StoredKept ==
    ASSUME NEW r, NEW next, Store(r, next),
           row.status # "cancelled" => row.pending \cup row.visited \subseteq r.pending \cup r.visited,
           NEW t \in row.pending \cup row.visited
    PROVE  Kept(t)
BY DEF Store, Kept

\* What an attempt that is not fetching holds covers the row.
LEMMA CopyCovers ==
    ASSUME TypeOK, RunInv, pc \in Working \ {"fetch"}, row.status # "cancelled"
    PROVE  row.pending \cup row.visited \subseteq mem.pending \cup mem.visited
<1>1. task = None /\ row.pending \cup row.visited \subseteq Task
  BY DEF TypeOK, Record
<1> QED BY <1>1, CollectionRunAssumption DEF RunInv, Attempt, Working

\* No step loses a stored task.
LEMMA KeptStep ==
    ASSUME TypeOK, RunInv, [Next]_vars, NEW t \in row.pending \cup row.visited
    PROVE  Kept(t)
<1>0. row \in Record /\ mem \in Record
  BY DEF TypeOK
<1>1. CASE UNCHANGED row
  BY <1>1 DEF Kept
<1>2. CASE PlanInitial \/ Discover \/ PlanStore \/ NoTasks \/ StartBudget \/ Finish
  <2> SUFFICES ASSUME row' # row PROVE Kept(t)
    BY <1>1
  <2>1. /\ row.status # "cancelled"
        /\ mem.pending \cup mem.visited \subseteq row'.pending \cup row'.visited
    <3>1. CASE PlanInitial
      BY <1>0, <3>1 DEF PlanInitial, Store, Record
    <3>2. CASE Discover
      <4>1. PICK found, errors, blocked :
              row' = [mem EXCEPT !.pending = @ \cup found, !.marks = @ \cup errors,
                                 !.dblocked = @ \/ blocked]
        BY ZenonT(30), <3>2 DEF Discover, Store
      <4>2. row.status # "cancelled"
        BY <3>2 DEF Discover, Store
      <4> QED BY <1>0, <4>1, <4>2 DEF Record
    <3>3. CASE PlanStore
      <4>1. PICK found :
              row' = [mem EXCEPT !.planned = TRUE, !.pending = @ \cup found]
        BY <3>3 DEF PlanStore, Store
      <4>2. row.status # "cancelled"
        BY <3>3 DEF PlanStore, Store
      <4> QED BY <1>0, <4>1, <4>2 DEF Record
    <3>4. CASE NoTasks
      BY <1>0, <3>4 DEF NoTasks, Store, Record
    <3>5. CASE StartBudget
      BY <1>0, <3>5 DEF StartBudget, Store, Record
    <3>6. CASE Finish
      BY <1>0, <3>6 DEF Finish, Store, Record
    <3> QED BY <1>2, <3>1, <3>2, <3>3, <3>4, <3>5, <3>6
  <2>2. pc \in Working \ {"fetch"}
    BY <1>2 DEF PlanInitial, Discover, PlanStore, NoTasks, StartBudget, Finish, Working
  <2> QED BY <2>1, <2>2, CopyCovers DEF Kept
<1>3. CASE Begin \/ Align \/ RunFails
  <2> SUFFICES ASSUME row' # row PROVE Kept(t)
    BY <1>1
  <2>1. row'.pending = row.pending /\ row'.visited = row.visited
    <3>1. CASE Begin
      BY <1>0, <3>1 DEF Begin, Store, Record
    <3>2. CASE Align
      BY <1>0, <3>2 DEF Align, Store, Record
    <3>3. CASE RunFails
      BY <1>0, <3>3 DEF RunFails, Store, Record
    <3> QED BY <1>3, <3>1, <3>2, <3>3
  <2> QED BY <2>1 DEF Kept
<1>4. CASE Fail
  <2>1. PICK m \in {"error", "blocked"} :
          Store([mem EXCEPT !.visited = @ \cup {task}, !.marks = @ \cup {m}], "loop")
    BY <1>4 DEF Fail
  <2> DEFINE r == [mem EXCEPT !.visited = @ \cup {task}, !.marks = @ \cup {m}]
  <2>2. r.pending = mem.pending /\ r.visited = mem.visited \cup {task}
    BY <1>0 DEF Record
  <2>3. row.status # "cancelled" =>
          row.pending \cup row.visited \subseteq mem.pending \cup mem.visited \cup {task}
    BY <1>4 DEF Fail, RunInv, Attempt
  <2> HIDE DEF r
  <2>4. row.status # "cancelled" => row.pending \cup row.visited \subseteq r.pending \cup r.visited
    BY <2>2, <2>3
  <2> QED BY <2>1, <2>4, StoredKept DEF r
<1>5. CASE Succeed /\ row' # row
  <2>1. PICK marks \in SUBSET Mark, kids \in SUBSET Children[task] :
          row' = Delivered(mem, task, marks, kids)
    BY <1>5 DEF Succeed
  <2>2. /\ pc = "fetch" /\ task \in Task /\ task \notin mem.visited /\ PagesLeft(mem)
        /\ RecordOK(mem) /\ row.status # "cancelled"
    BY <1>5 DEF Succeed, TypeOK, RunInv
  <2>3. kids \in SUBSET Task
    BY <2>2, CollectionRunAssumption
  <2>4. /\ row'.visited = mem.visited \cup {task}
        /\ \A u \in mem.pending :
              u \in row'.pending \/ row'.breaker[HostOf[u]] >= Threshold
    BY <2>1, <2>2, <2>3, DeliveredStored
  <2>5. t \in mem.pending \cup mem.visited \cup {task}
    BY <2>2 DEF RunInv, Attempt
  <2> QED BY <2>4, <2>5 DEF Kept
<1>6. CASE Cancel
  BY <1>0, <1>6 DEF Cancel, Kept, Record
<1> QED
  BY <1>1, <1>2, <1>3, <1>4, <1>5, <1>6
     DEF Next, Step, Pick, Succeed, Deadline, Crash, Tick, vars

\* A task that was stored once is visited, or dropped with the open circuit of
\* its own host, whatever attempts come and go.
THEOREM NoTaskLost == Spec => StoredTasksKept
<1>1. TypeOK /\ RunInv /\ [Next]_vars =>
        [\A t \in row.pending \cup row.visited : Kept(t)]_vars
  BY KeptStep
<1> QED BY <1>1, RunCorrect, PTL DEF Spec, StoredTasksKept

=============================================================================
