-------------------------- MODULE LeaseQueue_proofs --------------------------
(***************************************************************************)
(* Theorems about LeaseQueue, for any number of workers, executions per    *)
(* worker, collections, tasks and faults.                                  *)
(***************************************************************************)
EXTENDS LeaseQueue, TLAPS

(***************************************************************************)
(* Types.                                                                  *)
(***************************************************************************)
\* A fresh record, and any record with one field replaced, is a record.
LEMMA RecordTypes ==
    /\ NewRecord \in Record
    /\ \A r \in Record, v \in Status : [r EXCEPT !.status = v] \in Record
    /\ \A r \in Record, t \in Task : [r EXCEPT !.ok = @ \cup {t}] \in Record
    /\ \A r \in Record, t \in Task : [r EXCEPT !.bad = @ \cup {t}] \in Record
BY DEF NewRecord, Record, Status

\* The part of TypeOK about the memory of the executions.
LocalOK ==
    /\ pc \in [Slot -> PC]
    /\ col \in [Slot -> Collection \cup {None}]
    /\ mem \in [Slot -> Record]
    /\ task \in [Slot -> Task \cup {None}]
    /\ \A s \in Slot : /\ pc[s] = "idle" <=> col[s] = None
                       /\ pc[s] = "fetch" => task[s] # None

\* Unwinding a busy execution leaves the executions well formed.
LEMMA UnwindType ==
    ASSUME LocalOK, NEW s \in Slot, pc[s] # "idle", Unwind(s)
    PROVE  LocalOK'
BY RecordTypes DEF LocalOK, Unwind, PC

\* So does going on with a record.
LEMMA ContinueType ==
    ASSUME LocalOK, NEW s \in Slot, pc[s] # "idle", NEW r \in Record, Continue(s, r)
    PROVE  LocalOK'
<1>1. CASE Unwind(s)
  BY <1>1, UnwindType
<1>2. CASE ~Unwind(s)
  BY <1>2 DEF LocalOK, Continue, PC, Loaded
<1> QED BY <1>1, <1>2

\* The row of a guarded UPDATE is replaced by a record or left alone.
LEMMA WriteRowType ==
    ASSUME TypeOK, NEW s \in Slot, pc[s] # "idle", NEW r \in Record, WriteRow(s, r)
    PROVE  rec' \in [Collection -> Record] /\ LocalOK'
<1>1. LocalOK
  BY DEF TypeOK, LocalOK
<1>2. CASE Unwind(s) /\ UNCHANGED rec
  BY <1>1, <1>2, UnwindType DEF TypeOK
<1>3. CASE rec' = [rec EXCEPT ![col[s]] = r] /\ Continue(s, r)
  BY <1>1, <1>3, ContinueType DEF TypeOK
<1> QED BY <1>2, <1>3 DEF WriteRow

\* The first half of a fenced UPDATE keeps the record and touches no row.
LEMMA FencedUpdateType ==
    ASSUME TypeOK, NEW s \in Slot, pc[s] # "idle", NEW r \in Record, FencedUpdate(s, r)
    PROVE  UNCHANGED <<rec, overlapped>> /\ LocalOK'
<1>1. LocalOK
  BY DEF TypeOK, LocalOK
<1>2. CASE Unwind(s)
  BY <1>1, <1>2, UnwindType DEF FencedUpdate
<1>3. CASE /\ pc' = [pc EXCEPT ![s] = "write"]
           /\ mem' = [mem EXCEPT ![s] = r]
           /\ UNCHANGED <<col, task>>
  BY <1>1, <1>3 DEF FencedUpdate, TypeOK, LocalOK, PC, Loaded
<1> QED BY <1>2, <1>3 DEF FencedUpdate

\* Reading the row copies a record into the execution.
LEMMA ReadRecordType ==
    ASSUME TypeOK, NEW s \in Slot, pc[s] # "idle",
           NEW next \in {"start", "final"}, ReadRecord(s, next)
    PROVE  LocalOK'
<1>1. LocalOK
  BY DEF TypeOK, LocalOK
<1>2. CASE Unwind(s)
  BY <1>1, <1>2, UnwindType
<1>3. CASE /\ pc' = [pc EXCEPT ![s] = next]
           /\ mem' = [mem EXCEPT ![s] = rec[col[s]]]
           /\ task' = [task EXCEPT ![s] = None]
           /\ UNCHANGED col
  <2>1. col[s] \in Collection
    BY <1>1 DEF LocalOK
  <2>2. rec[col[s]] \in Record
    BY <2>1 DEF TypeOK
  <2> QED BY <1>1, <1>3, <2>2 DEF LocalOK, PC, Loaded
<1> QED BY <1>2, <1>3 DEF ReadRecord

\* Every step preserves TypeOK.
LEMMA TypeStep == TypeOK /\ [Next]_vars => TypeOK'
<1> SUFFICES ASSUME TypeOK, [Next]_vars PROVE TypeOK'
  OBVIOUS
<1> USE LeaseQueueAssumption
<1>0. LocalOK
  BY DEF TypeOK, LocalOK
<1>1. ASSUME NEW s \in Slot, NEW c \in Collection, Claim(s, c)
      PROVE  TypeOK'
  BY <1>1 DEF TypeOK, Claim, Lease, PC, WorkerOf, Slot
<1>2. ASSUME NEW s \in Slot, Load(s)
      PROVE  TypeOK'
  <2>1. LocalOK'
    BY <1>2, ReadRecordType DEF Load
  <2> QED BY <1>2, <2>1 DEF TypeOK, LocalOK, Load, rows
<1>3. ASSUME NEW s \in Slot, Start(s)
      PROVE  TypeOK'
  <2>1. [mem[s] EXCEPT !.status = "running"] \in Record /\ pc[s] # "idle"
    BY <1>3, RecordTypes DEF TypeOK, Start, Status
  <2>2. UNCHANGED <<rec, overlapped>> /\ LocalOK'
    BY <1>3, <2>1, FencedUpdateType DEF Start
  <2> QED BY <1>3, <2>2 DEF TypeOK, LocalOK, Start
<1>4. ASSUME NEW s \in Slot, Pick(s)
      PROVE  TypeOK'
  <2>1. LocalOK'
    <3>1. CASE Unwind(s)
      BY <1>0, <1>4, <3>1, UnwindType DEF Pick
    <3>2. CASE ~Unwind(s)
      BY <1>0, <1>4, <3>2 DEF LocalOK, Pick, PC, Loaded
    <3> QED BY <3>1, <3>2
  <2> QED BY <1>4, <2>1 DEF TypeOK, LocalOK, Pick, rows
<1>5. ASSUME NEW s \in Slot, Commit(s)
      PROVE  TypeOK'
  <2> DEFINE r == [mem[s] EXCEPT !.ok = @ \cup {task[s]}]
  <2>1. pc[s] = "fetch" /\ task[s] \in Task /\ col[s] \in Collection
    BY <1>0, <1>5 DEF LocalOK, Commit
  <2>2. r \in Record
    BY <2>1, RecordTypes DEF TypeOK
  <2>3. CASE Unwind(s) /\ UNCHANGED <<rec, facts>>
    <3>1. LocalOK'
      BY <1>0, <2>1, <2>3, UnwindType
    <3> QED BY <1>5, <2>3, <3>1 DEF TypeOK, LocalOK, Commit
  <2>4. CASE /\ facts' = [facts EXCEPT ![col[s]] = @ \cup {task[s]}]
             /\ rec' = [rec EXCEPT ![col[s]] = r]
             /\ Continue(s, r)
    <3>1. LocalOK'
      BY <1>0, <2>1, <2>2, <2>4, ContinueType
    <3>2. facts' \in [Collection -> SUBSET Task] /\ rec' \in [Collection -> Record]
      BY <2>1, <2>2, <2>4 DEF TypeOK
    <3> QED BY <1>5, <3>1, <3>2 DEF TypeOK, LocalOK, Commit
  <2> QED BY <1>5, <2>3, <2>4 DEF Commit
<1>6. ASSUME NEW s \in Slot, RecordFailure(s)
      PROVE  TypeOK'
  <2>1. [mem[s] EXCEPT !.bad = @ \cup {task[s]}] \in Record /\ pc[s] # "idle"
    BY <1>6, RecordTypes DEF TypeOK, RecordFailure
  <2>2. UNCHANGED <<rec, overlapped>> /\ LocalOK'
    BY <1>6, <2>1, FencedUpdateType DEF RecordFailure
  <2> QED BY <1>6, <2>2 DEF TypeOK, LocalOK, RecordFailure
<1>7. ASSUME NEW s \in Slot, RunFails(s)
      PROVE  TypeOK'
  <2>1. LocalOK'
    BY <1>7, ReadRecordType DEF RunFails
  <2> QED BY <1>7, <2>1 DEF TypeOK, LocalOK, RunFails, rows
<1>8. ASSUME NEW s \in Slot, Finalize(s)
      PROVE  TypeOK'
  <2>1. [mem[s] EXCEPT !.status = "done"] \in Record /\ pc[s] # "idle"
    BY <1>8, RecordTypes DEF TypeOK, Finalize, Status
  <2>2. UNCHANGED <<rec, overlapped>> /\ LocalOK'
    BY <1>8, <2>1, FencedUpdateType DEF Finalize
  <2> QED BY <1>8, <2>2 DEF TypeOK, LocalOK, Finalize
<1>9. ASSUME NEW s \in Slot, Write(s)
      PROVE  TypeOK'
  <2>1. mem[s] \in Record /\ pc[s] # "idle"
    BY <1>9 DEF TypeOK, Write
  <2>2. rec' \in [Collection -> Record] /\ LocalOK'
    BY <1>9, <2>1, WriteRowType DEF Write
  <2>3. overlapped' \subseteq Collection
    BY <1>9, <2>1 DEF TypeOK, Write
  <2> QED BY <1>9, <2>2, <2>3 DEF TypeOK, LocalOK, Write
<1>10. ASSUME NEW s \in Slot, Release(s)
       PROVE  TypeOK'
  BY <1>10 DEF TypeOK, Release, Free, NoLease, Lease, PC
<1>11. ASSUME NEW s \in Slot, ReleaseFails(s)
       PROVE  TypeOK'
  BY <1>11 DEF TypeOK, ReleaseFails, Free, PC, rows
<1>12. ASSUME NEW s \in Slot, HeartbeatLost(s) \/ Interrupt(s)
       PROVE  TypeOK'
  <2>1. /\ pc[s] # "idle" /\ Unwind(s) /\ UNCHANGED <<rows, api, overlapped>>
        /\ faults' \in 0..MaxFaults
    BY <1>12 DEF TypeOK, HeartbeatLost, Interrupt, Busy, Loaded
  <2>2. LocalOK'
    BY <1>0, <2>1, UnwindType
  <2> QED BY <2>1, <2>2 DEF TypeOK, LocalOK, rows
<1>13. ASSUME NEW c \in Collection, Expire(c) \/ Stall(c)
       PROVE  TypeOK'
  <2>1. lease' = [lease EXCEPT ![c].live = FALSE]
    BY <1>13 DEF Expire, Stall
  <2>2. lease' \in [Collection -> Lease]
    BY ZenonT(30), <2>1 DEF TypeOK, Lease
  <2>3. \A d \in Collection : lease'[d].live => lease'[d].owner # None
    BY <2>1 DEF TypeOK, Lease
  <2>4. faults' \in 0..MaxFaults
    BY <1>13 DEF TypeOK, Expire, Stall
  <2>5. UNCHANGED <<rec, facts, local, api, overlapped>>
    BY <1>13 DEF Expire, Stall
  <2> QED BY <2>2, <2>3, <2>4, <2>5 DEF TypeOK, local
<1>14. ASSUME NEW c \in Collection, CancelRead(c)
       PROVE  TypeOK'
  BY <1>14 DEF TypeOK, CancelRead, rows, local
<1>15. ASSUME NEW c \in Collection, CancelWrite(c)
       PROVE  TypeOK'
  <2>1. [api[c] EXCEPT !.status = "cancelled"] \in Record
    BY <1>15, RecordTypes DEF TypeOK, CancelWrite, Status
  <2> QED BY <1>15, <2>1 DEF TypeOK, CancelWrite, local
<1>16. ASSUME NEW w \in Worker, Crash(w)
       PROVE  TypeOK'
  BY <1>16, RecordTypes DEF TypeOK, Crash, PC, rows
<1>17. CASE UNCHANGED vars
  BY <1>17 DEF TypeOK, vars
<1> QED
  BY <1>1, <1>2, <1>3, <1>4, <1>5, <1>6, <1>7, <1>8, <1>9, <1>10, <1>11, <1>12,
     <1>13, <1>14, <1>15, <1>16, <1>17 DEF Next, Execute

\* Every row and every execution keeps its shape.
THEOREM TypeCorrect == Spec => []TypeOK
<1>1. Init => TypeOK
  BY LeaseQueueAssumption, RecordTypes DEF Init, TypeOK, Lease, NoLease, PC
<1> QED BY <1>1, TypeStep, PTL DEF Spec

(***************************************************************************)
(* Facts behind every checkpoint.                                          *)
(*                                                                         *)
(* FactsBehindCheckpoint speaks of the stored rows only. A row is          *)
(* overwritten from copies that were read at another time, by executions   *)
(* whose lease may be gone and by cancel requests that never had one, so   *)
(* every copy that can still be written has to be backed by facts too.     *)
(***************************************************************************)
RowsBacked  == \A c \in Collection : rec[c].ok \subseteq facts[c]
SlotsBacked == \A s \in Slot : IF pc[s] \in {"idle", "release"}
                                  THEN mem[s].ok = {}
                                  ELSE mem[s].ok \subseteq facts[col[s]]
ApiBacked   == \A c \in Collection : api[c] # None => api[c].ok \subseteq facts[c]
FactsInv    == RowsBacked /\ SlotsBacked /\ ApiBacked

\* Unwinding forgets the copy, which is backed by anything.
LEMMA UnwindBacked ==
    ASSUME TypeOK, SlotsBacked, NEW s \in Slot, Unwind(s), UNCHANGED facts
    PROVE  SlotsBacked'
BY DEF TypeOK, SlotsBacked, Unwind, NewRecord

\* Storing a backed record, and going on with it, keeps rows and copies backed.
LEMMA WriteRowBacked ==
    ASSUME TypeOK, RowsBacked, SlotsBacked, NEW s \in Slot, pc[s] # "idle",
           NEW r \in Record, r.ok \subseteq facts[col[s]],
           WriteRow(s, r), UNCHANGED facts
    PROVE  RowsBacked' /\ SlotsBacked'
<1>1. col[s] \in Collection
  BY DEF TypeOK
<1>2. CASE Unwind(s) /\ UNCHANGED rec
  BY <1>2, UnwindBacked DEF RowsBacked
<1>3. CASE rec' = [rec EXCEPT ![col[s]] = r] /\ Continue(s, r)
  <2>1. RowsBacked'
    BY <1>1, <1>3 DEF TypeOK, RowsBacked
  <2>2. CASE Unwind(s)
    BY <2>1, <2>2, UnwindBacked
  <2>3. CASE ~Unwind(s)
    BY <1>1, <1>3, <2>1, <2>3 DEF TypeOK, SlotsBacked, Continue
  <2> QED BY <2>2, <2>3
<1> QED BY <1>2, <1>3 DEF WriteRow

\* Behind the lease check the record waits for its row, as backed as it was.
LEMMA FencedUpdateBacked ==
    ASSUME TypeOK, RowsBacked, SlotsBacked, NEW s \in Slot, pc[s] # "idle",
           NEW r \in Record, r.ok \subseteq facts[col[s]],
           FencedUpdate(s, r), UNCHANGED facts
    PROVE  RowsBacked' /\ SlotsBacked'
<1>1. col[s] \in Collection
  BY DEF TypeOK
<1>2. CASE Unwind(s)
  BY <1>2, UnwindBacked DEF FencedUpdate, RowsBacked
<1>3. CASE /\ pc' = [pc EXCEPT ![s] = "write"]
           /\ mem' = [mem EXCEPT ![s] = r]
           /\ UNCHANGED col
  BY <1>1, <1>3 DEF FencedUpdate, TypeOK, RowsBacked, SlotsBacked
<1> QED BY <1>2, <1>3 DEF FencedUpdate

\* A copy of a backed row is backed.
LEMMA ReadRecordBacked ==
    ASSUME TypeOK, RowsBacked, SlotsBacked, NEW s \in Slot, pc[s] # "idle",
           NEW next \in {"start", "final"}, ReadRecord(s, next), UNCHANGED facts
    PROVE  SlotsBacked'
<1>1. CASE Unwind(s)
  BY <1>1, UnwindBacked
<1>2. CASE /\ pc' = [pc EXCEPT ![s] = next]
           /\ mem' = [mem EXCEPT ![s] = rec[col[s]]]
           /\ UNCHANGED col
  <2>1. col[s] \in Collection
    BY DEF TypeOK
  <2> QED BY <1>2, <2>1 DEF TypeOK, RowsBacked, SlotsBacked
<1> QED BY <1>1, <1>2 DEF ReadRecord

\* Every step preserves the invariant.
LEMMA FactsStep == TypeOK /\ FactsInv /\ [Next]_vars => FactsInv'
<1> SUFFICES ASSUME TypeOK, FactsInv, [Next]_vars PROVE FactsInv'
  OBVIOUS
<1> USE LeaseQueueAssumption
<1>0. RowsBacked /\ SlotsBacked /\ ApiBacked
  BY DEF FactsInv
<1>1. ASSUME NEW s \in Slot, NEW c \in Collection, Claim(s, c)
      PROVE  FactsInv'
  <2>1. /\ pc[s] = "idle"
        /\ pc' = [pc EXCEPT ![s] = "load"]
        /\ col' = [col EXCEPT ![s] = c]
        /\ UNCHANGED <<rec, facts, mem, api>>
    BY <1>1 DEF Claim
  <2>2. SlotsBacked'
    BY <1>0, <2>1 DEF TypeOK, SlotsBacked
  <2> QED BY <1>0, <2>1, <2>2 DEF FactsInv, RowsBacked, ApiBacked
<1>2. ASSUME NEW s \in Slot, Load(s) \/ RunFails(s)
      PROVE  FactsInv'
  <2>1. UNCHANGED <<rec, facts, api>>
    BY <1>2 DEF Load, RunFails, rows
  <2>2. SlotsBacked'
    BY <1>0, <1>2, <2>1, ReadRecordBacked DEF Load, RunFails
  <2> QED BY <1>0, <2>1, <2>2 DEF FactsInv, RowsBacked, ApiBacked
<1>3. ASSUME NEW s \in Slot, Start(s) \/ RecordFailure(s) \/ Finalize(s)
      PROVE  FactsInv'
  <2>1. PICK r \in Record : FencedUpdate(s, r) /\ r.ok = mem[s].ok
    <3>1. mem[s] \in Record /\ (pc[s] = "fetch" => task[s] \in Task)
      BY DEF TypeOK
    <3> QED BY <1>3, <3>1 DEF Start, RecordFailure, Finalize, Record, Status
  <2>2. pc[s] # "idle" /\ UNCHANGED <<facts, api>>
    BY <1>3 DEF Start, RecordFailure, Finalize
  <2>3. r.ok \subseteq facts[col[s]]
    BY <1>0, <2>1, <2>2 DEF TypeOK, SlotsBacked
  <2>4. RowsBacked' /\ SlotsBacked'
    BY <1>0, <2>1, <2>2, <2>3, FencedUpdateBacked
  <2> QED BY <1>0, <2>2, <2>4 DEF FactsInv, ApiBacked
<1>4. ASSUME NEW s \in Slot, Write(s)
      PROVE  FactsInv'
  <2>1. pc[s] # "idle" /\ mem[s] \in Record /\ UNCHANGED <<facts, api>>
    BY <1>4 DEF TypeOK, Write
  <2>2. mem[s].ok \subseteq facts[col[s]]
    BY <1>0, <2>1 DEF TypeOK, SlotsBacked
  <2>3. RowsBacked' /\ SlotsBacked'
    BY <1>0, <1>4, <2>1, <2>2, WriteRowBacked DEF Write
  <2> QED BY <1>0, <2>1, <2>3 DEF FactsInv, ApiBacked
<1>5. ASSUME NEW s \in Slot, Pick(s)
      PROVE  FactsInv'
  <2>1. UNCHANGED <<rec, facts, api>>
    BY <1>5 DEF Pick, rows
  <2>2. CASE Unwind(s)
    BY <1>0, <2>1, <2>2, UnwindBacked DEF FactsInv, RowsBacked, ApiBacked
  <2>3. CASE /\ pc' = [pc EXCEPT ![s] = "final"] \/ pc' = [pc EXCEPT ![s] = "fetch"]
             /\ UNCHANGED <<col, mem>>
    BY <1>0, <1>5, <2>1, <2>3 DEF TypeOK, FactsInv, RowsBacked, SlotsBacked, ApiBacked, Pick
  <2> QED BY <1>5, <2>2, <2>3 DEF Pick
<1>6. ASSUME NEW s \in Slot, Commit(s)
      PROVE  FactsInv'
  <2> DEFINE r == [mem[s] EXCEPT !.ok = @ \cup {task[s]}]
  <2>1. col[s] \in Collection /\ pc[s] = "fetch" /\ UNCHANGED api
    BY <1>6 DEF TypeOK, Commit
  <2>2. CASE Unwind(s) /\ UNCHANGED <<rec, facts>>
    BY <1>0, <2>1, <2>2, UnwindBacked DEF FactsInv, RowsBacked, ApiBacked
  <2>3. CASE /\ facts' = [facts EXCEPT ![col[s]] = @ \cup {task[s]}]
             /\ rec' = [rec EXCEPT ![col[s]] = r]
             /\ Continue(s, r)
    <3>1. r.ok = mem[s].ok \cup {task[s]}
      BY DEF TypeOK, Record
    <3>2. r.ok \subseteq facts'[col[s]]
      BY <1>0, <2>1, <2>3, <3>1 DEF TypeOK, SlotsBacked
    <3>3. \A c \in Collection : facts[c] \subseteq facts'[c]
      BY <2>1, <2>3 DEF TypeOK
    <3>4. RowsBacked' /\ ApiBacked'
      BY <1>0, <2>1, <2>3, <3>2, <3>3 DEF TypeOK, RowsBacked, ApiBacked
    <3>5. SlotsBacked'
      <4>1. CASE Unwind(s)
        BY <1>0, <2>1, <3>3, <4>1 DEF TypeOK, SlotsBacked, Unwind, NewRecord
      <4>2. CASE ~Unwind(s)
        <5>1. /\ pc' = [pc EXCEPT ![s] = "pick"]
              /\ mem' = [mem EXCEPT ![s] = r]
              /\ UNCHANGED col
          BY <2>3, <4>2 DEF Continue
        <5>2. \A t \in Slot : pc[t] # "idle" => facts[col[t]] \subseteq facts'[col[t]]
          BY <3>3 DEF TypeOK
        <5> HIDE DEF r
        <5> QED BY <1>0, <3>2, <5>1, <5>2 DEF TypeOK, SlotsBacked
      <4> QED BY <4>1, <4>2
    <3> QED BY <3>4, <3>5 DEF FactsInv
  <2> QED BY <1>6, <2>2, <2>3 DEF Commit
<1>7. ASSUME NEW s \in Slot, Release(s) \/ ReleaseFails(s)
      PROVE  FactsInv'
  BY <1>0, <1>7 DEF TypeOK, FactsInv, RowsBacked, SlotsBacked, ApiBacked,
                    Release, ReleaseFails, Free, rows
<1>8. ASSUME NEW s \in Slot, HeartbeatLost(s) \/ Interrupt(s)
      PROVE  FactsInv'
  <2>1. Unwind(s) /\ UNCHANGED <<rec, facts, api>>
    BY <1>8 DEF HeartbeatLost, Interrupt, rows
  <2> QED BY <1>0, <2>1, UnwindBacked DEF FactsInv, RowsBacked, ApiBacked
<1>9. ASSUME NEW c \in Collection, Expire(c) \/ Stall(c)
      PROVE  FactsInv'
  BY <1>0, <1>9 DEF FactsInv, RowsBacked, SlotsBacked, ApiBacked, Expire, Stall, local
<1>10. ASSUME NEW c \in Collection, CancelRead(c)
       PROVE  FactsInv'
  BY <1>0, <1>10 DEF TypeOK, FactsInv, RowsBacked, SlotsBacked, ApiBacked,
                     CancelRead, rows, local
<1>11. ASSUME NEW c \in Collection, CancelWrite(c)
       PROVE  FactsInv'
  <2>1. api[c] \in Record
    BY <1>11 DEF TypeOK, CancelWrite
  <2>2. [api[c] EXCEPT !.status = "cancelled"].ok = api[c].ok
    BY <2>1 DEF Record
  <2> QED BY <1>0, <1>11, <2>2 DEF TypeOK, FactsInv, RowsBacked, SlotsBacked, ApiBacked,
                                  CancelWrite, local
<1>12. ASSUME NEW w \in Worker, Crash(w)
       PROVE  FactsInv'
  BY <1>0, <1>12 DEF FactsInv, RowsBacked, SlotsBacked, ApiBacked, Crash, NewRecord, rows
<1>13. CASE UNCHANGED vars
  BY <1>0, <1>13 DEF FactsInv, RowsBacked, SlotsBacked, ApiBacked, vars
<1> QED
  BY <1>1, <1>2, <1>3, <1>4, <1>5, <1>6, <1>7, <1>8, <1>9, <1>10, <1>11, <1>12, <1>13
     DEF Next, Execute

\* No checkpoint ever counts a task whose facts are not stored, whatever mix of
\* crashes, lost leases, writes behind a stale lease check and late
\* cancellations there is, and with any number of executions per worker.
THEOREM CheckpointSafety == Spec => []FactsBehindCheckpoint
<1>1. Init => FactsInv
  BY DEF Init, FactsInv, RowsBacked, SlotsBacked, ApiBacked, NewRecord
<1>2. FactsInv => FactsBehindCheckpoint
  BY DEF FactsInv, RowsBacked, FactsBehindCheckpoint
<1> QED BY <1>1, <1>2, FactsStep, TypeCorrect, PTL DEF Spec

(***************************************************************************)
(* Cancellation is final.                                                  *)
(***************************************************************************)
CancelledKept ==
    \A c \in Collection : rec[c].status = "cancelled" =>
        rec'[c].status = "cancelled" /\ facts'[c] = facts[c]

\* The guard of the UPDATE, evaluated on the latest row, is what keeps a
\* cancelled row cancelled, with or without a lease.
LEMMA FencedUpdateKeepsCancelled ==
    ASSUME TypeOK, NEW s \in Slot, pc[s] # "idle", NEW r,
           FencedUpdate(s, r) \/ WriteRow(s, r), UNCHANGED facts
    PROVE  CancelledKept
BY DEF TypeOK, FencedUpdate, WriteRow, CancelledKept

\* No step takes a collection out of the cancelled status or adds facts to it.
LEMMA CancelledStep == TypeOK /\ [Next]_vars => CancelledKept
<1> SUFFICES ASSUME TypeOK, [Next]_vars PROVE CancelledKept
  OBVIOUS
<1>1. CASE UNCHANGED <<rec, facts>>
  BY <1>1 DEF CancelledKept
<1>2. ASSUME NEW s \in Slot, Start(s) \/ RecordFailure(s) \/ Finalize(s) \/ Write(s)
      PROVE  CancelledKept
  <2>1. pc[s] # "idle" /\ UNCHANGED facts /\ \E r : FencedUpdate(s, r) \/ WriteRow(s, r)
    BY <1>2 DEF Start, RecordFailure, Finalize, Write
  <2> QED BY <2>1, FencedUpdateKeepsCancelled
<1>3. ASSUME NEW s \in Slot, Commit(s)
      PROVE  CancelledKept
  BY <1>3 DEF TypeOK, Commit, CancelledKept
<1>4. ASSUME NEW c \in Collection, CancelWrite(c)
      PROVE  CancelledKept
  <2>1. api[c] \in Record
    BY <1>4 DEF TypeOK, CancelWrite
  <2> QED BY <1>4, <2>1 DEF TypeOK, CancelWrite, CancelledKept, Record
<1>5. CASE Next /\ ~UNCHANGED <<rec, facts>>
  BY <1>2, <1>3, <1>4, <1>5
     DEF Next, Execute, Claim, Load, Pick, RunFails, Release, ReleaseFails, HeartbeatLost,
         Interrupt, Expire, Stall, CancelRead, Crash, rows
<1> QED BY <1>1, <1>5 DEF vars

\* A cancelled collection stays cancelled and receives no facts, although the
\* cancel request takes no lease and a worker may be writing at that moment.
THEOREM CancellationIsFinal == Spec => CancelledStays
<1>1. TypeOK /\ [Next]_vars =>
        [\A c \in Collection : rec[c].status = "cancelled" =>
            rec'[c].status = "cancelled" /\ facts'[c] = facts[c]]_vars
  BY CancelledStep DEF CancelledKept
<1> QED BY <1>1, TypeCorrect, PTL DEF Spec, CancelledStays


------------------------------------------------------------------------------
(***************************************************************************)
(* What the owner of a lease may rely on, and that the queue implements    *)
(* QueueLifecycle, for any number of executions per worker.                *)
(*                                                                         *)
(* On a collection that is not in overlapped only the execution named by   *)
(* the lease row writes a checkpoint: its copy of the record then is the   *)
(* stored one, or one step ahead of it, except for a cancellation.  An     *)
(* expired lease still names its execution, until the next claim.          *)
(***************************************************************************)
Named(s) == lease[col[s]].owner = WorkerOf(s)

SlotInv(s) ==
    /\ pc[s] \in {"pick", "fetch"} => mem[s].status = "running"
    /\ pc[s] = "fetch" => task[s] \notin Visited(mem[s])
    /\ pc[s] = "write" => mem[s].status \in {"running", "done"}
    /\ col[s] \notin overlapped /\ Named(s) =>
          /\ pc[s] = "load" => rec[col[s]].status # "done"
          /\ pc[s] \in Loaded => rec[col[s]].status = "cancelled" \/ Coherent(s)

RowInv(c) ==
    c \notin overlapped =>
        /\ rec[c].status # "cancelled" => facts[c] = rec[c].ok
        /\ api[c] # None => api[c].ok \subseteq rec[c].ok /\ api[c].bad \subseteq rec[c].bad

\* Two executions of one worker on one collection are an overlap.
OneEach == \A s, t \in Slot : s # t /\ Busy(s) /\ Busy(t) /\ WorkerOf(s) = WorkerOf(t)
                                    /\ col[s] = col[t] => col[s] \in overlapped

OwnerInv == /\ \A s \in Slot : SlotInv(s)
            /\ \A c \in Collection : RowInv(c)
            /\ OneEach

Same(s) == /\ pc'[s] = pc[s] /\ col'[s] = col[s]
           /\ mem'[s] = mem[s] /\ task'[s] = task[s]

\* A slot belongs to a worker, which is not None.
LEMMA SlotWorker == \A s \in Slot : WorkerOf(s) \in Worker /\ WorkerOf(s) # None
BY LeaseQueueAssumption DEF Slot, WorkerOf

\* An execution that does not move keeps its invariant while its lease and its
\* row stay, its lease goes to another worker, the row is cancelled, or an
\* overlap is on record.
LEMMA SlotUntouched ==
    ASSUME TypeOK, NEW s \in Slot, SlotInv(s), Same(s), overlapped \subseteq overlapped',
           \/ pc[s] \in {"idle", "release"}
           \/ col[s] \in overlapped'
           \/ lease'[col[s]].owner # WorkerOf(s)
           \/ /\ lease'[col[s]].owner = lease[col[s]].owner
              /\ \/ rec'[col[s]] = rec[col[s]]
                 \/ rec'[col[s]].status = "cancelled"
    PROVE  SlotInv(s)'
<1>1. /\ pc'[s] = pc[s] /\ col'[s] = col[s] /\ mem'[s] = mem[s] /\ task'[s] = task[s]
  BY DEF Same
<1>2. CASE pc[s] \in {"idle", "release"}
  BY <1>1, <1>2 DEF SlotInv, Loaded
<1>3. CASE lease'[col[s]].owner # WorkerOf(s) \/ col[s] \in overlapped'
  BY <1>1, <1>3 DEF SlotInv, Named, WorkerOf, Visited
<1>4. CASE /\ lease'[col[s]].owner = lease[col[s]].owner
           /\ rec'[col[s]].status = "cancelled"
  BY <1>1, <1>4 DEF SlotInv, Named, WorkerOf, Visited, Loaded
<1>5. CASE /\ lease'[col[s]].owner = lease[col[s]].owner
           /\ rec'[col[s]] = rec[col[s]]
  <2>1. Named(s)' => Named(s)
    BY <1>1, <1>5 DEF Named, WorkerOf
  <2>2. Coherent(s) => Coherent(s)'
    BY <1>1, <1>5 DEF Coherent, SameRecord, OneStep, Visited
  <2> QED BY <1>1, <1>5, <2>1, <2>2 DEF SlotInv, Visited
<1> QED BY <1>2, <1>3, <1>4, <1>5

\* An execution that is over has nothing to keep.
LEMMA SlotLeft ==
    ASSUME NEW s \in Slot, pc'[s] \in {"idle", "release"}
    PROVE  SlotInv(s)'
BY DEF SlotInv, Loaded

\* Executions that end or stay where they are cannot begin to overlap.
LEMMA OneEachKept ==
    ASSUME OneEach, overlapped \subseteq overlapped',
           \A s \in Slot : Busy(s)' => Busy(s) /\ col'[s] = col[s]
    PROVE  OneEach'
BY DEF OneEach, WorkerOf

\* A step of one execution that writes nothing and ends it.
LEMMA UnwindKeepsOwner ==
    ASSUME TypeOK, OwnerInv, NEW s \in Slot, Unwind(s),
           UNCHANGED <<rec, facts, lease, api, overlapped>>
    PROVE  OwnerInv'
<1>1. ASSUME NEW t \in Slot
      PROVE  SlotInv(t)'
  <2>1. CASE t = s
    <3>1. pc'[t] = "release"
      BY <2>1 DEF Unwind, TypeOK
    <3> QED BY <3>1, SlotLeft
  <2>2. CASE t # s
    <3>1. Same(t)
      BY <2>2 DEF Unwind, TypeOK, Same
    <3> QED BY <3>1, SlotUntouched DEF OwnerInv
  <2> QED BY <2>1, <2>2
<1>2. \A c \in Collection : RowInv(c)'
  BY DEF OwnerInv, RowInv
<1>3. OneEach'
  BY OneEachKept DEF OwnerInv, Unwind, TypeOK, Busy, Loaded
<1> QED BY <1>1, <1>2, <1>3 DEF OwnerInv

\* An execution stores record r and goes on. If that is no overlap, it is the
\* one named by the lease, r counts at least what was stored, and the facts are
\* those that r counts.
LEMMA RowWritten ==
    ASSUME TypeOK, OwnerInv, NEW s \in Slot, Busy(s),
           NEW r \in Record, r.status \in {"running", "done"},
           rec' = [rec EXCEPT ![col[s]] = r], Continue(s, r), UNCHANGED <<lease, api>>,
           overlapped \subseteq overlapped',
           \A d \in Collection \ {col[s]} :
               facts'[d] = facts[d] /\ (d \in overlapped' => d \in overlapped),
           col[s] \notin overlapped' =>
               /\ Named(s) /\ facts'[col[s]] = r.ok
               /\ rec[col[s]].ok \subseteq r.ok /\ rec[col[s]].bad \subseteq r.bad
    PROVE  OwnerInv'
<1>1. col[s] \in Collection /\ pc[s] # "idle"
  BY DEF TypeOK, Busy, Loaded
<1>2. ASSUME NEW t \in Slot, t # s
      PROVE  Same(t)
  BY <1>2 DEF Continue, Unwind, TypeOK, Same
<1>3. ASSUME NEW t \in Slot
      PROVE  SlotInv(t)'
  <2>1. CASE t = s /\ Unwind(s)
    <3>1. pc'[t] = "release"
      BY <2>1 DEF Unwind, TypeOK
    <3> QED BY <3>1, SlotLeft
  <2>2. CASE t = s /\ ~Unwind(s)
    <3>1. /\ pc'[s] = "pick" /\ mem'[s] = r /\ col'[s] = col[s]
          /\ r.status = "running"
      BY <2>2 DEF Continue, TypeOK
    <3>2. rec'[col[s]] = r
      BY <1>1 DEF TypeOK
    <3>3. Coherent(s)'
      BY <3>1, <3>2 DEF Coherent, SameRecord
    <3> QED BY <2>2, <3>1, <3>2, <3>3 DEF SlotInv, Loaded
  <2>3. CASE t # s /\ pc[t] \in {"idle", "release"}
    BY <1>2, <2>3, SlotUntouched DEF OwnerInv
  <2>4. CASE t # s /\ pc[t] \notin {"idle", "release"}
    <3>1. Busy(t) /\ col[t] \in Collection
      BY <2>4 DEF TypeOK, PC, Busy
    <3>2. CASE col[t] = col[s] /\ col[s] \notin overlapped'
      <4>1. WorkerOf(t) # WorkerOf(s)
        BY <2>4, <3>1, <3>2 DEF OwnerInv, OneEach
      <4> QED BY <1>2, <2>4, <3>2, <4>1, SlotUntouched DEF OwnerInv, Named
    <3>3. CASE col[t] = col[s] /\ col[s] \in overlapped'
      BY <1>2, <2>4, <3>3, SlotUntouched DEF OwnerInv
    <3>4. CASE col[t] # col[s]
      <4>1. rec'[col[t]] = rec[col[t]]
        BY <3>1, <3>4 DEF TypeOK
      <4> QED BY <1>2, <2>4, <4>1, SlotUntouched DEF OwnerInv
    <3> QED BY <3>2, <3>3, <3>4
  <2> QED BY <2>1, <2>2, <2>3, <2>4
<1>4. ASSUME NEW c \in Collection
      PROVE  RowInv(c)'
  <2>1. CASE c = col[s]
    <3>1. rec'[c] = r
      BY <2>1 DEF TypeOK
    <3> QED BY <2>1, <3>1 DEF OwnerInv, RowInv
  <2>2. CASE c # col[s]
    <3>1. rec'[c] = rec[c] /\ facts'[c] = facts[c]
      BY <2>2 DEF TypeOK
    <3> QED BY <2>2, <3>1 DEF OwnerInv, RowInv
  <2> QED BY <2>1, <2>2
<1>5. OneEach'
  <2>1. ASSUME NEW t \in Slot, Busy(t)'
        PROVE  Busy(t) /\ col'[t] = col[t]
    <3>1. CASE t = s
      BY <3>1 DEF Continue, Unwind
    <3>2. CASE t # s
      BY <1>2, <2>1, <3>2 DEF Same, Busy
    <3> QED BY <3>1, <3>2
  <2> QED BY <2>1, OneEachKept DEF OwnerInv
<1> QED BY <1>3, <1>4, <1>5 DEF OwnerInv

\* Steps that leave rows, leases and requests alone and move one execution.
LEMMA LocalStepKeepsOwner ==
    ASSUME OwnerInv, TypeOK, NEW s \in Slot, UNCHANGED <<rec, facts, lease, api, overlapped>>,
           Busy(s), col'[s] = col[s], \A t \in Slot \ {s} : Same(t), SlotInv(s)'
    PROVE  OwnerInv'
<1>1. ASSUME NEW t \in Slot, t # s
      PROVE  SlotInv(t)'
  BY <1>1, SlotUntouched DEF OwnerInv
<1>2. \A c \in Collection : RowInv(c)'
  BY DEF OwnerInv, RowInv
<1>3. OneEach'
  BY OneEachKept DEF OwnerInv, Same, Busy
<1> QED BY <1>1, <1>2, <1>3 DEF OwnerInv

\* The first half of a fenced UPDATE ends the execution, or leaves it waiting
\* with a record one step ahead of the one it knew.
LEMMA FencedUpdateKeepsOwner ==
    ASSUME TypeOK, OwnerInv, NEW s \in Slot, pc[s] \in Loaded \ {"write"},
           NEW r \in Record, r.status \in {"running", "done"},
           SameRecord(s) => OneStep(rec[col[s]], task[s], r),
           FencedUpdate(s, r), UNCHANGED <<facts, lease, api>>
    PROVE  OwnerInv'
<1>0. UNCHANGED <<rec, overlapped>>
  BY DEF FencedUpdate
<1>1. CASE Unwind(s)
  BY <1>0, <1>1, UnwindKeepsOwner
<1>2. CASE /\ pc' = [pc EXCEPT ![s] = "write"]
           /\ mem' = [mem EXCEPT ![s] = r]
           /\ UNCHANGED <<col, task>>
  <2>1. \A t \in Slot \ {s} : Same(t)
    BY <1>2 DEF TypeOK, Same
  <2>2. pc'[s] = "write" /\ mem'[s] = r /\ col'[s] = col[s] /\ task'[s] = task[s]
    BY <1>2 DEF TypeOK
  <2>3. SlotInv(s)'
    <3>1. Coherent(s)' <=> OneStep(rec[col[s]], task[s], r)
      BY <1>0, <2>2 DEF Coherent, OneStep, Visited
    <3>2. /\ col[s] \notin overlapped /\ Named(s)
          => rec[col[s]].status = "cancelled" \/ SameRecord(s)
      BY DEF OwnerInv, SlotInv, Coherent
    <3>3. Named(s)' <=> Named(s)
      BY <2>2 DEF Named, WorkerOf
    <3> QED BY <1>0, <2>2, <3>1, <3>2, <3>3 DEF SlotInv, Loaded
  <2> QED BY <1>0, <2>1, <2>2, <2>3, LocalStepKeepsOwner DEF Busy
<1> QED BY <1>1, <1>2 DEF FencedUpdate

\* Reading the row makes the copy of an execution that may still write coherent.
LEMMA ReadRecordKeepsOwner ==
    ASSUME OwnerInv, TypeOK, NEW s \in Slot, Load(s) \/ RunFails(s)
    PROVE  OwnerInv'
<1>0. PICK next : /\ ReadRecord(s, next)
                  /\ \/ pc[s] = "load" /\ next = "start"
                     \/ pc[s] \in {"pick", "fetch"} /\ next = "final"
                  /\ UNCHANGED <<rec, facts, lease, api, overlapped>>
  BY DEF Load, RunFails, rows
<1>1. CASE Unwind(s)
  BY <1>0, <1>1, UnwindKeepsOwner
<1>2. CASE /\ rec[col[s]].status # "cancelled"
           /\ pc' = [pc EXCEPT ![s] = next]
           /\ mem' = [mem EXCEPT ![s] = rec[col[s]]]
           /\ task' = [task EXCEPT ![s] = None]
           /\ UNCHANGED col
  <2>1. \A t \in Slot \ {s} : Same(t)
    BY <1>2 DEF TypeOK, Same
  <2>2. pc'[s] = next /\ mem'[s] = rec[col[s]] /\ col'[s] = col[s]
    BY <1>2 DEF TypeOK
  <2>3. rec[col[s]].status \in Status
    BY <1>0 DEF TypeOK, Record
  <2>4. col[s] \notin overlapped /\ Named(s) =>
            rec[col[s]].status \in IF next = "start" THEN {"queued", "running"}
                                                     ELSE {"running"}
    BY <1>0, <1>2, <2>3 DEF OwnerInv, SlotInv, Coherent, SameRecord, Loaded, Status
  <2>5. SlotInv(s)'
    BY <1>0, <2>2, <2>4 DEF SlotInv, Named, Coherent, SameRecord, WorkerOf
  <2> QED BY <1>0, <2>1, <2>2, <2>5, LocalStepKeepsOwner DEF Busy, Loaded
<1> QED BY <1>0, <1>1, <1>2 DEF ReadRecord

\* A claim by a worker that already works on the collection is put on record;
\* any other claim takes the lease away from whoever had it.
LEMMA ClaimKeepsOwner ==
    ASSUME TypeOK, OwnerInv, NEW s \in Slot, NEW c \in Collection, Claim(s, c)
    PROVE  OwnerInv'
<1>1. /\ pc[s] = "idle" /\ pc'[s] = "load" /\ col'[s] = c
      /\ rec[c].status \in {"queued", "running"}
      /\ lease'[c].owner = WorkerOf(s)
      /\ \A d \in Collection \ {c} : lease'[d] = lease[d]
      /\ overlapped \subseteq overlapped'
      /\ WorksOn(WorkerOf(s), c) => c \in overlapped'
      /\ UNCHANGED <<rec, facts, api>>
  BY DEF TypeOK, Claim, Claimable
<1>2. ASSUME NEW t \in Slot, t # s
      PROVE  Same(t)
  BY <1>2 DEF TypeOK, Claim, Same
<1>3. SlotInv(s)'
  BY <1>1 DEF SlotInv, Loaded
<1>4. ASSUME NEW t \in Slot, t # s
      PROVE  SlotInv(t)'
  <2>1. CASE pc[t] \in {"idle", "release"}
    BY <1>1, <1>2, <1>4, <2>1, SlotUntouched DEF OwnerInv
  <2>2. CASE pc[t] \notin {"idle", "release"}
    <3>1. Busy(t) /\ col[t] \in Collection
      BY <2>2 DEF TypeOK, PC, Busy
    <3>2. CASE col[t] = c /\ WorkerOf(t) = WorkerOf(s)
      <4>1. c \in overlapped'
        BY <1>1, <3>1, <3>2 DEF WorksOn
      <4> QED BY <1>1, <1>2, <1>4, <3>2, <4>1, SlotUntouched DEF OwnerInv
    <3>3. CASE col[t] = c /\ WorkerOf(t) # WorkerOf(s)
      BY <1>1, <1>2, <1>4, <3>3, SlotUntouched DEF OwnerInv
    <3>4. CASE col[t] # c
      BY <1>1, <1>2, <1>4, <3>1, <3>4, SlotUntouched DEF OwnerInv
    <3> QED BY <3>2, <3>3, <3>4
  <2> QED BY <2>1, <2>2
<1>5. \A d \in Collection : RowInv(d)'
  BY <1>1 DEF OwnerInv, RowInv
<1>6. OneEach'
  <2> SUFFICES ASSUME NEW t \in Slot, NEW u \in Slot, t # u, Busy(t)', Busy(u)',
                      WorkerOf(t) = WorkerOf(u), col'[t] = col'[u]
               PROVE  col'[t] \in overlapped'
    BY DEF OneEach, WorkerOf
  <2>1. CASE t # s /\ u # s
    BY <1>1, <1>2, <2>1 DEF OwnerInv, OneEach, Same, Busy
  <2>2. CASE t = s
    BY <1>1, <1>2, <2>2 DEF Same, Busy, WorksOn
  <2>3. CASE u = s
    BY <1>1, <1>2, <2>3 DEF Same, Busy, WorksOn
  <2> QED BY <2>1, <2>2, <2>3
<1> QED BY <1>3, <1>4, <1>5, <1>6 DEF OwnerInv

\* The second half of a fenced UPDATE: the row is cancelled, the execution is
\* still named by the lease, or the overlap is put on record.
LEMMA WriteKeepsOwner ==
    ASSUME TypeOK, OwnerInv, NEW s \in Slot, Write(s)
    PROVE  OwnerInv'
<1>1. /\ pc[s] = "write" /\ Busy(s) /\ col[s] \in Collection
      /\ mem[s] \in Record /\ mem[s].status \in {"running", "done"}
      /\ UNCHANGED <<facts, lease, api>>
  BY DEF TypeOK, Write, Busy, Loaded, OwnerInv, SlotInv
<1>2. CASE rec[col[s]].status = "cancelled"
  BY <1>2, UnwindKeepsOwner DEF Write, WriteRow, OvertakenAt
<1>3. CASE rec[col[s]].status # "cancelled"
  <2>1. rec' = [rec EXCEPT ![col[s]] = mem[s]] /\ Continue(s, mem[s])
    BY <1>3 DEF Write, WriteRow
  <2>2. /\ overlapped \subseteq overlapped'
        /\ \A d \in Collection \ {col[s]} : d \in overlapped' => d \in overlapped
        /\ col[s] \notin overlapped' => Named(s) /\ col[s] \notin overlapped
    BY <1>3 DEF Write, OvertakenAt, Named
  <2>3. ASSUME col[s] \notin overlapped'
        PROVE  /\ Named(s) /\ facts'[col[s]] = mem[s].ok
               /\ rec[col[s]].ok \subseteq mem[s].ok /\ rec[col[s]].bad \subseteq mem[s].bad
    <3>1. OneStep(rec[col[s]], task[s], mem[s])
      BY <1>1, <1>3, <2>2, <2>3 DEF OwnerInv, SlotInv, Coherent, Loaded
    <3>2. facts[col[s]] = rec[col[s]].ok
      BY <1>1, <1>3, <2>2, <2>3 DEF OwnerInv, RowInv
    <3> QED BY <1>1, <2>2, <2>3, <3>1, <3>2 DEF OneStep
  <2> QED BY <1>1, <2>1, <2>2, <2>3, RowWritten
<1> QED BY <1>2, <1>3

\* Every step preserves the invariant.
LEMMA OwnerStep == TypeOK /\ OwnerInv /\ [Next]_vars => OwnerInv'
<1> SUFFICES ASSUME TypeOK, OwnerInv, [Next]_vars PROVE OwnerInv'
  OBVIOUS
<1> USE LeaseQueueAssumption
<1>0. (\A s \in Slot : SlotInv(s)) /\ (\A c \in Collection : RowInv(c)) /\ OneEach
  BY DEF OwnerInv
<1>1. ASSUME NEW s \in Slot, NEW c \in Collection, Claim(s, c)
      PROVE  OwnerInv'
  BY <1>1, ClaimKeepsOwner
<1>2. ASSUME NEW s \in Slot, Load(s) \/ RunFails(s)
      PROVE  OwnerInv'
  BY <1>2, ReadRecordKeepsOwner
<1>3. ASSUME NEW s \in Slot, Start(s)
      PROVE  OwnerInv'
  <2> DEFINE r == [mem[s] EXCEPT !.status = "running"]
  <2>1. r \in Record /\ r.status = "running" /\ r.ok = mem[s].ok /\ r.bad = mem[s].bad
    BY DEF TypeOK, Record, Status
  <2>2. pc[s] = "start" /\ FencedUpdate(s, r) /\ UNCHANGED <<facts, lease, api>>
    BY <1>3 DEF Start
  <2> HIDE DEF r
  <2>3. SameRecord(s) => OneStep(rec[col[s]], task[s], r)
    BY <2>1, <2>2 DEF SameRecord, OneStep
  <2> QED BY <2>1, <2>2, <2>3, FencedUpdateKeepsOwner DEF Loaded
<1>4. ASSUME NEW s \in Slot, RecordFailure(s)
      PROVE  OwnerInv'
  <2> DEFINE r == [mem[s] EXCEPT !.bad = @ \cup {task[s]}]
  <2>1. /\ pc[s] = "fetch" /\ task[s] \in Task /\ mem[s].status = "running"
        /\ task[s] \notin Visited(mem[s])
        /\ FencedUpdate(s, r) /\ UNCHANGED <<facts, lease, api>>
    BY <1>0, <1>4 DEF TypeOK, RecordFailure, SlotInv
  <2>2. /\ r \in Record /\ r.status = "running" /\ r.ok = mem[s].ok
        /\ r.bad = mem[s].bad \cup {task[s]}
    BY <2>1 DEF TypeOK, Record
  <2> HIDE DEF r
  <2>3. SameRecord(s) => OneStep(rec[col[s]], task[s], r)
    BY <2>1, <2>2 DEF SameRecord, OneStep, Visited
  <2> QED BY <2>1, <2>2, <2>3, FencedUpdateKeepsOwner DEF Loaded
<1>5. ASSUME NEW s \in Slot, Finalize(s)
      PROVE  OwnerInv'
  <2> DEFINE r == [mem[s] EXCEPT !.status = "done"]
  <2>1. r \in Record /\ r.status = "done" /\ r.ok = mem[s].ok /\ r.bad = mem[s].bad
    BY DEF TypeOK, Record, Status
  <2>2. pc[s] = "final" /\ FencedUpdate(s, r) /\ UNCHANGED <<facts, lease, api>>
    BY <1>5 DEF Finalize
  <2> HIDE DEF r
  <2>3. SameRecord(s) => OneStep(rec[col[s]], task[s], r)
    BY <2>1, <2>2 DEF SameRecord, OneStep
  <2> QED BY <2>1, <2>2, <2>3, FencedUpdateKeepsOwner DEF Loaded
<1>6. ASSUME NEW s \in Slot, Commit(s)
      PROVE  OwnerInv'
  <2> DEFINE r == [mem[s] EXCEPT !.ok = @ \cup {task[s]}]
  <2>1. /\ pc[s] = "fetch" /\ task[s] \in Task /\ mem[s].status = "running"
        /\ Busy(s) /\ col[s] \in Collection /\ UNCHANGED <<lease, api, overlapped>>
    BY <1>0, <1>6 DEF TypeOK, Commit, SlotInv, Busy, Loaded
  <2>2. /\ r \in Record /\ r.status = "running"
        /\ r.ok = mem[s].ok \cup {task[s]} /\ mem[s].bad = r.bad
    BY <2>1 DEF TypeOK, Record
  <2>3. CASE Unwind(s) /\ UNCHANGED <<rec, facts>>
    BY <2>1, <2>3, UnwindKeepsOwner
  <2>4. CASE /\ rec[col[s]].status # "cancelled" /\ Owns(s)
             /\ facts' = [facts EXCEPT ![col[s]] = @ \cup {task[s]}]
             /\ rec' = [rec EXCEPT ![col[s]] = r]
             /\ Continue(s, r)
    <3> HIDE DEF r
    <3>1. /\ facts'[col[s]] = facts[col[s]] \cup {task[s]}
          /\ \A d \in Collection \ {col[s]} : facts'[d] = facts[d]
      BY <2>1, <2>4 DEF TypeOK
    <3>2. ASSUME col[s] \notin overlapped
          PROVE  /\ Named(s) /\ facts'[col[s]] = r.ok
                 /\ rec[col[s]].ok \subseteq r.ok /\ rec[col[s]].bad \subseteq r.bad
      <4>1. Named(s) /\ SameRecord(s)
        BY <1>0, <2>1, <2>4, <3>2 DEF Loaded, SlotInv, Owns, Named, Coherent
      <4>2. facts[col[s]] = rec[col[s]].ok
        BY <1>0, <2>1, <2>4, <3>2 DEF RowInv
      <4> QED BY <2>2, <3>1, <4>1, <4>2 DEF SameRecord
    <3> QED BY <2>1, <2>2, <2>4, <3>1, <3>2, RowWritten
  <2> QED BY <1>6, <2>3, <2>4 DEF Commit
<1>7. ASSUME NEW s \in Slot, Pick(s)
      PROVE  OwnerInv'
  <2>1. /\ pc[s] = "pick" /\ Busy(s) /\ mem[s].status = "running"
        /\ UNCHANGED <<rec, facts, lease, api, overlapped>>
    BY <1>0, <1>7 DEF Pick, rows, SlotInv, Busy, Loaded
  <2>2. CASE Unwind(s)
    BY <2>1, <2>2, UnwindKeepsOwner
  <2>3. CASE pc' = [pc EXCEPT ![s] = "final"] /\ UNCHANGED <<col, mem, task>>
    <3>1. \A t \in Slot \ {s} : Same(t)
      BY <2>3 DEF TypeOK, Same
    <3>2. SlotInv(s)'
      <4>1. SlotInv(s) /\ pc'[s] = "final"
        BY <1>0, <2>3 DEF TypeOK
      <4> QED BY <2>1, <2>3, <4>1 DEF SlotInv, Named, Coherent, SameRecord, Loaded
    <3> QED BY <2>1, <2>3, <3>1, <3>2, LocalStepKeepsOwner
  <2>4. CASE /\ pc' = [pc EXCEPT ![s] = "fetch"]
             /\ \E t \in Task \ Visited(mem[s]) : task' = [task EXCEPT ![s] = t]
             /\ UNCHANGED <<col, mem>>
    <3>1. \A t \in Slot \ {s} : Same(t)
      BY <2>4 DEF TypeOK, Same
    <3>2. SlotInv(s)'
      <4>1. SlotInv(s) /\ pc'[s] = "fetch" /\ task'[s] \notin Visited(mem[s])
        BY <1>0, <2>4 DEF TypeOK
      <4>2. task'[s] \notin Visited(mem[s])'
        BY <2>4, <4>1 DEF Visited
      <4> QED BY <2>1, <2>4, <4>1, <4>2 DEF SlotInv, Named, Coherent, SameRecord, Loaded, Visited
    <3> QED BY <2>1, <2>4, <3>1, <3>2, LocalStepKeepsOwner
  <2> QED BY <1>7, <2>2, <2>3, <2>4 DEF Pick
<1>8. ASSUME NEW s \in Slot, Write(s)
      PROVE  OwnerInv'
  BY <1>8, WriteKeepsOwner
<1>9. ASSUME NEW s \in Slot, Release(s) \/ ReleaseFails(s)
      PROVE  OwnerInv'
  <2>1. /\ pc'[s] = "idle" /\ UNCHANGED <<rec, facts, api, overlapped>>
        /\ \A t \in Slot \ {s} : Same(t)
        /\ \A c \in Collection : lease'[c] \in {lease[c], NoLease}
    BY <1>9 DEF TypeOK, Release, ReleaseFails, Free, Same, rows
  <2>2. ASSUME NEW t \in Slot, t # s
        PROVE  SlotInv(t)'
    <3>1. CASE pc[t] = "idle"
      BY <1>0, <2>1, <2>2, <3>1, SlotUntouched
    <3>2. CASE pc[t] # "idle"
      <4>1. col[t] \in Collection /\ WorkerOf(t) # None
        BY <3>2, SlotWorker DEF TypeOK
      <4> QED BY <1>0, <2>1, <2>2, <4>1, SlotUntouched DEF NoLease
    <3> QED BY <3>1, <3>2
  <2>3. \A c \in Collection : RowInv(c)'
    BY <1>0, <2>1 DEF RowInv
  <2>4. OneEach'
    BY <1>0, <2>1, OneEachKept DEF Same, Busy, Loaded
  <2> QED BY <2>1, <2>2, <2>3, <2>4, SlotLeft DEF OwnerInv
<1>10. ASSUME NEW s \in Slot, HeartbeatLost(s) \/ Interrupt(s)
       PROVE  OwnerInv'
  BY <1>10, UnwindKeepsOwner DEF HeartbeatLost, Interrupt, rows
<1>11. ASSUME NEW c \in Collection, Expire(c) \/ Stall(c)
       PROVE  OwnerInv'
  <2>1. /\ UNCHANGED <<rec, facts, api, overlapped>>
        /\ \A t \in Slot : Same(t)
        /\ \A d \in Collection : lease'[d].owner = lease[d].owner
    <3>1. /\ lease' = [lease EXCEPT ![c].live = FALSE]
          /\ UNCHANGED <<rec, facts, local, api, overlapped>>
      BY <1>11 DEF Expire, Stall
    <3>2. \A d \in Collection : lease'[d].owner = lease[d].owner
      BY <3>1 DEF TypeOK, Lease
    <3> QED BY <3>1, <3>2 DEF local, Same
  <2>2. ASSUME NEW t \in Slot
        PROVE  SlotInv(t)'
    <3>1. CASE pc[t] = "idle"
      BY <1>0, <2>1, <3>1, SlotUntouched
    <3>2. CASE pc[t] # "idle"
      BY <1>0, <2>1, <3>2, SlotUntouched DEF TypeOK
    <3> QED BY <3>1, <3>2
  <2>3. \A d \in Collection : RowInv(d)'
    BY <1>0, <2>1 DEF RowInv
  <2>4. OneEach'
    BY <1>0, <2>1, OneEachKept DEF Same, Busy
  <2> QED BY <2>2, <2>3, <2>4 DEF OwnerInv
<1>12. ASSUME NEW c \in Collection, CancelRead(c)
       PROVE  OwnerInv'
  <2>1. UNCHANGED <<rec, facts, lease, overlapped>> /\ \A t \in Slot : Same(t)
    BY <1>12 DEF CancelRead, rows, local, Same
  <2>2. \A t \in Slot : SlotInv(t)'
    BY <1>0, <2>1, SlotUntouched
  <2>3. \A d \in Collection : RowInv(d)'
    BY <1>0, <1>12, <2>1 DEF TypeOK, CancelRead, RowInv
  <2>4. OneEach'
    BY <1>0, <2>1, OneEachKept DEF Same, Busy
  <2> QED BY <2>2, <2>3, <2>4 DEF OwnerInv
<1>13. ASSUME NEW c \in Collection, CancelWrite(c)
       PROVE  OwnerInv'
  <2>1. /\ UNCHANGED <<facts, lease, overlapped>> /\ \A t \in Slot : Same(t)
        /\ rec' = [rec EXCEPT ![c] = [api[c] EXCEPT !.status = "cancelled"]]
        /\ api' = [api EXCEPT ![c] = None]
    BY <1>13 DEF CancelWrite, local, Same
  <2>2. rec'[c].status = "cancelled" /\ \A d \in Collection \ {c} : rec'[d] = rec[d]
    BY <1>13, <2>1 DEF TypeOK, CancelWrite, Record
  <2>3. ASSUME NEW t \in Slot
        PROVE  SlotInv(t)'
    <3>1. CASE pc[t] = "idle"
      BY <1>0, <2>1, <3>1, SlotUntouched
    <3>2. CASE pc[t] # "idle"
      <4>1. col[t] \in Collection
        BY <3>2 DEF TypeOK
      <4> QED BY <1>0, <2>1, <2>2, <4>1, SlotUntouched
    <3> QED BY <3>1, <3>2
  <2>4. \A d \in Collection : RowInv(d)'
    BY <1>0, <2>1, <2>2 DEF TypeOK, RowInv
  <2>5. OneEach'
    BY <1>0, <2>1, OneEachKept DEF Same, Busy
  <2> QED BY <2>3, <2>4, <2>5 DEF OwnerInv
<1>14. ASSUME NEW w \in Worker, Crash(w)
       PROVE  OwnerInv'
  <2>1. UNCHANGED <<rec, facts, lease, api, overlapped>>
    BY <1>14 DEF Crash, rows
  <2>2. ASSUME NEW t \in Slot, WorkerOf(t) = w
        PROVE  SlotInv(t)'
    <3>1. pc'[t] = "idle"
      BY <1>14, <2>2 DEF Crash
    <3> QED BY <3>1, SlotLeft
  <2>3. ASSUME NEW t \in Slot, WorkerOf(t) # w
        PROVE  SlotInv(t)'
    <3>1. Same(t)
      BY <1>14, <2>3 DEF Crash, Same
    <3> QED BY <1>0, <2>1, <3>1, SlotUntouched
  <2>4. \A d \in Collection : RowInv(d)'
    BY <1>0, <2>1 DEF RowInv
  <2>5. OneEach'
    BY <1>0, <1>14, <2>1, OneEachKept DEF Crash, Busy, Loaded
  <2> QED BY <2>2, <2>3, <2>4, <2>5 DEF OwnerInv
<1>15. CASE UNCHANGED vars
  <2>1. UNCHANGED <<rec, facts, lease, api, overlapped>> /\ \A t \in Slot : Same(t)
    BY <1>15 DEF vars, Same
  <2>2. \A t \in Slot : SlotInv(t)'
    BY <1>0, <2>1, SlotUntouched
  <2>3. \A d \in Collection : RowInv(d)'
    BY <1>0, <2>1 DEF RowInv
  <2>4. OneEach'
    BY <1>0, <2>1, OneEachKept DEF Same, Busy
  <2> QED BY <2>2, <2>3, <2>4 DEF OwnerInv
<1> QED
  BY <1>1, <1>2, <1>3, <1>4, <1>5, <1>6, <1>7, <1>8, <1>9, <1>10, <1>11, <1>12,
     <1>13, <1>14, <1>15 DEF Next, Execute

\* The invariant holds in every reachable state.
LEMMA OwnerCorrect == Spec => []OwnerInv
<1>1. Init => OwnerInv
  BY DEF Init, OwnerInv, SlotInv, RowInv, OneEach, Busy, Loaded, NewRecord
<1> QED BY <1>1, OwnerStep, TypeCorrect, PTL DEF Spec

\* Until an overlap is on record, the execution named by the lease works from
\* the stored checkpoint, however often the lease expired and changed hands.
THEOREM OwnerIsCoherent == Spec => []OwnerSeesCheckpoint
<1>1. OwnerInv => OwnerSeesCheckpoint
  BY DEF OwnerInv, SlotInv, Named, OwnerSeesCheckpoint
<1> QED BY <1>1, OwnerCorrect, PTL

\* Until then it never fetches a task again whose facts are published.
THEOREM NoSecondFetch == Spec => []RefetchNeedsOverlap
<1>1. TypeOK /\ OwnerInv => RefetchNeedsOverlap
  <2> SUFFICES ASSUME TypeOK, OwnerInv, NEW s \in Slot, pc[s] = "fetch", Owns(s),
                      rec[col[s]].status # "cancelled", col[s] \notin overlapped
               PROVE  task[s] \notin facts[col[s]]
    BY DEF RefetchNeedsOverlap
  <2>1. col[s] \in Collection
    BY DEF TypeOK
  <2>2. SameRecord(s) /\ task[s] \notin Visited(mem[s])
    BY DEF OwnerInv, SlotInv, Named, Owns, Loaded, Coherent
  <2>3. facts[col[s]] = rec[col[s]].ok
    BY <2>1 DEF OwnerInv, RowInv
  <2> QED BY <2>2, <2>3 DEF SameRecord, Visited
<1> QED BY <1>1, OwnerCorrect, TypeCorrect, PTL

(***************************************************************************)
(* Refinement.                                                             *)
(***************************************************************************)
\* A queued row that is stored as running is a start.
LEMMA StartMaps ==
    ASSUME TypeOK, NEW c \in Collection, NEW r \in Record,
           rec' = [rec EXCEPT ![c] = r], UNCHANGED facts,
           rec[c].status = "queued", r.status = "running",
           r.ok = rec[c].ok, r.bad = rec[c].bad
    PROVE  Lifecycle!Next
<1>1. Lifecycle!Start(c)
  BY DEF Lifecycle!Start, TypeOK
<1> QED BY <1>1 DEF Lifecycle!Next

\* A running row that counts one more failed task is a give-up.
LEMMA GiveUpMaps ==
    ASSUME TypeOK, NEW c \in Collection, NEW r \in Record, NEW t \in Task,
           rec' = [rec EXCEPT ![c] = r], UNCHANGED facts,
           rec[c].status = "running", r.status = "running",
           t \notin Visited(rec[c]), r.ok = rec[c].ok, r.bad = rec[c].bad \cup {t}
    PROVE  Lifecycle!Next
<1>1. Lifecycle!GiveUp(c, t)
  BY DEF Lifecycle!GiveUp, TypeOK, Visited
<1> QED BY <1>1 DEF Lifecycle!Next

\* A running row stored as done is a close.
LEMMA CloseMaps ==
    ASSUME TypeOK, NEW c \in Collection, NEW r \in Record,
           rec' = [rec EXCEPT ![c] = r], UNCHANGED facts,
           rec[c].status = "running", r.status = "done",
           r.ok = rec[c].ok, r.bad = rec[c].bad
    PROVE  Lifecycle!Next
<1>1. Lifecycle!Close(c)
  BY DEF Lifecycle!Close, TypeOK
<1> QED BY <1>1 DEF Lifecycle!Next

\* A running row that counts one more task, stored with its facts, is a publication.
LEMMA PublishMaps ==
    ASSUME TypeOK, NEW c \in Collection, NEW r \in Record, NEW t \in Task,
           rec' = [rec EXCEPT ![c] = r], facts' = [facts EXCEPT ![c] = @ \cup {t}],
           rec[c].status = "running", r.status = "running", facts[c] = rec[c].ok,
           t \notin Visited(rec[c]), r.ok = rec[c].ok \cup {t}, r.bad = rec[c].bad
    PROVE  Lifecycle!Next
<1>1. Lifecycle!Publish(c, t)
  BY DEF Lifecycle!Publish, TypeOK, Visited
<1> QED BY <1>1 DEF Lifecycle!Next

\* Any row stored as cancelled with no more progress than it had is a cancellation.
LEMMA CancelMaps ==
    ASSUME TypeOK, NEW c \in Collection, NEW r \in Record,
           rec' = [rec EXCEPT ![c] = r], UNCHANGED facts,
           r.status = "cancelled", r.ok \subseteq rec[c].ok, r.bad \subseteq rec[c].bad
    PROVE  Lifecycle!Next
<1>1. Lifecycle!Cancel(c)
  BY DEF Lifecycle!Cancel, TypeOK
<1> QED BY <1>1 DEF Lifecycle!Next

\* A step on a collection with an overlap on record is a disturbance.
LEMMA DisturbMaps ==
    ASSUME TypeOK, TypeOK', FactsInv', CancelledKept, NEW c \in Collection,
           overlapped' = overlapped \cup {c}, facts[c] \subseteq facts'[c],
           \A d \in Collection \ {c} : rec'[d] = rec[d] /\ facts'[d] = facts[d]
    PROVE  Lifecycle!QueueNext
<1>1. rec'[c].ok \subseteq facts'[c]
  BY DEF FactsInv, RowsBacked
<1>2. Lifecycle!Elsewhere(c)
  BY DEF Lifecycle!Elsewhere
<1>3. Lifecycle!Disturb(c)
  BY <1>1, <1>2 DEF Lifecycle!Disturb, CancelledKept
<1> QED BY <1>3 DEF Lifecycle!QueueNext

\* Every step is a step of the lifecycle or leaves it alone.
LEMMA LifecycleStep ==
    ASSUME TypeOK, TypeOK', OwnerInv, FactsInv', [Next]_vars
    PROVE  [Lifecycle!QueueNext]_Lifecycle!queueVars
<1>0. CancelledKept
  BY CancelledStep
<1>1. CASE UNCHANGED <<rec, facts, overlapped>>
  BY <1>1 DEF Lifecycle!queueVars
<1>2. ASSUME NEW s \in Slot, NEW c \in Collection, Claim(s, c), overlapped' # overlapped
      PROVE  Lifecycle!QueueNext
  <2>1. overlapped' = overlapped \cup {c} /\ UNCHANGED <<rec, facts>>
    BY <1>2 DEF Claim
  <2> QED BY <1>0, <2>1, DisturbMaps
<1>3. ASSUME NEW s \in Slot, Write(s), ~UNCHANGED <<rec, overlapped>>
      PROVE  [Lifecycle!QueueNext]_Lifecycle!queueVars
  <2>1. /\ pc[s] = "write" /\ col[s] \in Collection /\ mem[s] \in Record
        /\ rec[col[s]].status # "cancelled" /\ UNCHANGED facts
        /\ rec' = [rec EXCEPT ![col[s]] = mem[s]]
    BY <1>3 DEF TypeOK, Write, WriteRow, OvertakenAt
  <2>2. CASE col[s] \in overlapped'
    <3>1. overlapped' = overlapped \cup {col[s]}
      BY <1>3, <2>2 DEF Write
    <3>2. \A d \in Collection \ {col[s]} : rec'[d] = rec[d]
      BY <2>1 DEF TypeOK
    <3> QED BY <1>0, <2>1, <3>1, <3>2, DisturbMaps
  <2>3. CASE col[s] \notin overlapped'
    <3>1. UNCHANGED overlapped /\ Named(s) /\ col[s] \notin overlapped
      BY <1>3, <2>1, <2>3 DEF Write, OvertakenAt, Named
    <3>2. OneStep(rec[col[s]], task[s], mem[s])
      BY <2>1, <3>1 DEF OwnerInv, SlotInv, Coherent, Loaded
    <3>3. CASE mem[s].status = "done"
      <4>1. Lifecycle!Next
        BY <2>1, <3>2, <3>3, CloseMaps DEF OneStep
      <4> QED BY <3>1, <4>1 DEF Lifecycle!QueueNext
    <3>4. CASE mem[s].status = "running" /\ rec[col[s]].status = "queued"
      <4>1. Lifecycle!Next
        BY <2>1, <3>2, <3>4, StartMaps DEF OneStep
      <4> QED BY <3>1, <4>1 DEF Lifecycle!QueueNext
    <3>5. CASE mem[s].status = "running" /\ rec[col[s]].status = "running"
      <4>1. CASE mem[s].bad = rec[col[s]].bad
        <5>1. mem[s].ok = rec[col[s]].ok
          BY <3>2 DEF OneStep
        <5> QED BY <2>1, <3>1, <3>5, <4>1, <5>1 DEF TypeOK, Lifecycle!queueVars
      <4>2. CASE /\ task[s] \notin Visited(rec[col[s]])
                 /\ mem[s].bad = rec[col[s]].bad \cup {task[s]}
        <5>1. CASE task[s] \in Task
          <6>1. Lifecycle!Next
            BY <2>1, <3>2, <3>5, <4>2, <5>1, GiveUpMaps DEF OneStep
          <6> QED BY <3>1, <6>1 DEF Lifecycle!QueueNext
        <5>2. CASE task[s] \notin Task
          BY <2>1, <4>2, <5>2 DEF TypeOK, Record
        <5> QED BY <5>1, <5>2
      <4> QED BY <3>2, <3>5, <4>1, <4>2 DEF OneStep
    <3> QED BY <3>2, <3>3, <3>4, <3>5 DEF OneStep
  <2> QED BY <2>2, <2>3
<1>4. ASSUME NEW s \in Slot, Commit(s), rec' # rec \/ facts' # facts
      PROVE  Lifecycle!QueueNext
  <2> DEFINE r == [mem[s] EXCEPT !.ok = @ \cup {task[s]}]
  <2>1. /\ pc[s] = "fetch" /\ task[s] \in Task /\ col[s] \in Collection
        /\ mem[s].status = "running" /\ task[s] \notin Visited(mem[s])
    BY <1>4 DEF TypeOK, Commit, OwnerInv, SlotInv
  <2>2. /\ r \in Record /\ r.status = "running"
        /\ r.ok = mem[s].ok \cup {task[s]} /\ r.bad = mem[s].bad
    BY <2>1 DEF TypeOK, Record
  <2>3. /\ rec[col[s]].status # "cancelled" /\ Owns(s)
        /\ facts' = [facts EXCEPT ![col[s]] = @ \cup {task[s]}]
        /\ rec' = [rec EXCEPT ![col[s]] = r]
        /\ UNCHANGED overlapped
    BY <1>4 DEF Commit
  <2> HIDE DEF r
  <2>4. CASE col[s] \in overlapped
    <3>1. /\ overlapped' = overlapped \cup {col[s]} /\ facts[col[s]] \subseteq facts'[col[s]]
          /\ \A d \in Collection \ {col[s]} : rec'[d] = rec[d] /\ facts'[d] = facts[d]
      BY <2>1, <2>3, <2>4 DEF TypeOK
    <3> QED BY <1>0, <2>1, <3>1, DisturbMaps
  <2>5. CASE col[s] \notin overlapped
    <3>1. SameRecord(s) /\ facts[col[s]] = rec[col[s]].ok
      BY <2>1, <2>3, <2>5 DEF OwnerInv, SlotInv, RowInv, Named, Owns, Loaded, Coherent
    <3>2. /\ rec[col[s]].status = "running" /\ task[s] \notin Visited(rec[col[s]])
          /\ r.ok = rec[col[s]].ok \cup {task[s]} /\ r.bad = rec[col[s]].bad
      BY <2>1, <2>2, <3>1 DEF SameRecord, Visited
    <3>3. Lifecycle!Next
      BY <2>1, <2>2, <2>3, <3>1, <3>2, PublishMaps
    <3> QED BY <2>3, <3>3 DEF Lifecycle!QueueNext
  <2> QED BY <2>4, <2>5
<1>5. ASSUME NEW c \in Collection, CancelWrite(c)
      PROVE  Lifecycle!QueueNext
  <2> DEFINE r == [api[c] EXCEPT !.status = "cancelled"]
  <2>1. /\ r \in Record /\ r.status = "cancelled"
        /\ r.ok = api[c].ok /\ r.bad = api[c].bad
    <3>1. api[c] \in Record /\ "cancelled" \in Status
      BY <1>5 DEF TypeOK, CancelWrite, Status
    <3>2. r \in Record
      BY <3>1, RecordTypes
    <3> QED BY <3>1, <3>2 DEF Record
  <2>2. rec' = [rec EXCEPT ![c] = r] /\ UNCHANGED <<facts, overlapped>> /\ api[c] # None
    BY <1>5 DEF CancelWrite
  <2> HIDE DEF r
  <2>3. CASE c \in overlapped
    <3>1. overlapped' = overlapped \cup {c} /\ \A d \in Collection \ {c} : rec'[d] = rec[d]
      BY <2>2, <2>3 DEF TypeOK
    <3> QED BY <1>0, <2>2, <3>1, DisturbMaps
  <2>4. CASE c \notin overlapped
    <3>1. Lifecycle!Next
      BY <2>1, <2>2, <2>4, CancelMaps DEF OwnerInv, RowInv
    <3> QED BY <2>2, <3>1 DEF Lifecycle!QueueNext
  <2> QED BY <2>3, <2>4
<1>6. ASSUME NEW s \in Slot, Start(s) \/ RecordFailure(s) \/ Finalize(s)
      PROVE  UNCHANGED <<rec, facts, overlapped>>
  BY <1>6 DEF Start, RecordFailure, Finalize, FencedUpdate
<1>7. CASE Next /\ ~UNCHANGED <<rec, facts, overlapped>>
  BY <1>2, <1>3, <1>4, <1>5, <1>6, <1>7
     DEF Next, Execute, Claim, Load, Pick, Commit, Write, RunFails, Release, ReleaseFails,
         HeartbeatLost, Interrupt, Expire, Stall, CancelRead, Crash, rows
<1> QED BY <1>1, <1>7 DEF vars

\* The queue of rows, leases, workers, stalls and crashes implements
\* QueueLifecycle: until two executions overlap on a collection it is started
\* once, each task is published or given up at most once, facts and checkpoint
\* are one step, and a closed collection is left closed by everything but a
\* cancellation; after that, facts still stay and a cancellation is still final.
THEOREM QueueImplementsLifecycle == Spec => ImplementsLifecycle
<1>1. Init => Lifecycle!QueueInit
  BY DEF Init, NewRecord, Lifecycle!QueueInit, Lifecycle!Init
<1>2. TypeOK /\ TypeOK' /\ OwnerInv /\ FactsInv' /\ [Next]_vars
        => [Lifecycle!QueueNext]_Lifecycle!queueVars
  BY LifecycleStep
<1>3. Spec => []FactsInv
  <2>1. Init => FactsInv
    BY DEF Init, FactsInv, RowsBacked, SlotsBacked, ApiBacked, NewRecord
  <2> QED BY <2>1, FactsStep, TypeCorrect, PTL DEF Spec
<1> QED BY <1>1, <1>2, <1>3, OwnerCorrect, TypeCorrect, PTL
        DEF Spec, ImplementsLifecycle, Lifecycle!QueueSpec

=============================================================================
