--------------------------- MODULE Admission_proofs ---------------------------
(***************************************************************************)
(* Theorems about Admission, for any number of requests, keys, consumers   *)
(* and collections, and any limits and periods.                            *)
(***************************************************************************)
EXTENDS Admission, FiniteSetTheorems, TLAPS

(***************************************************************************)
(* Types.                                                                  *)
(***************************************************************************)
\* The empty records, and the records of one step, have their types.
LEMMA RecordTypes ==
    /\ NoRow \in Row
    /\ Idle \in Req
    /\ NoPurge \in Purge
BY AdmissionAssumption DEF NoRow, Row, Idle, Req, NoPurge, Purge, Time

\* The part of TypeOK about the requests and their lock.
RequestsOK ==
    /\ lock \in Request \cup {None}
    /\ req \in [Request -> Req]
    /\ \A r \in Request : /\ req[r].pc # "idle" => req[r].key \in Key
                          /\ lock = r <=> req[r].pc \in Statement

\* Answering a request that holds the lock frees it.
LEMMA AnswerType ==
    ASSUME RequestsOK, NEW r \in Request, req[r].pc \in Statement, Answer(r)
    PROVE  RequestsOK'
<1>1. lock = r
  BY DEF RequestsOK
<1>2. Idle.pc \notin Statement /\ Idle.pc = "idle" /\ None \notin Request
  BY AdmissionAssumption DEF Idle, Statement
<1>3. \A q \in Request : req'[q] = IF q = r THEN Idle ELSE req[q]
  BY DEF Answer, RequestsOK
<1> QED BY <1>1, <1>2, <1>3, RecordTypes DEF RequestsOK, Answer

\* A request that holds the lock may move to another statement.
LEMMA MoveType ==
    ASSUME RequestsOK, NEW r \in Request, req[r].pc \in Statement, NEW q \in Req,
           q.pc \in Statement, q.key = req[r].key,
           req' = [req EXCEPT ![r] = q], UNCHANGED lock
    PROVE  RequestsOK'
BY DEF RequestsOK, Statement

\* Every step preserves TypeOK.
LEMMA TypeStep == AdmissionTypeOK /\ [AdmissionNext]_admissionVars => AdmissionTypeOK'
<1> SUFFICES ASSUME AdmissionTypeOK, [AdmissionNext]_admissionVars PROVE AdmissionTypeOK'
  OBVIOUS
<1> USE AdmissionAssumption
<1>0. RequestsOK
  BY DEF AdmissionTypeOK, RequestsOK
<1>1. ASSUME NEW r \in Request, Submit(r)
      PROVE  AdmissionTypeOK'
  <2>1. PICK ask \in Asked, made \in Time :
          req' = [req EXCEPT ![r] = [Idle EXCEPT !.pc = "lock", !.key = ask[1],
                                     !.body = ask[2], !.made = made, !.now = clock]]
    BY <1>1 DEF Submit
  <2> DEFINE n == [Idle EXCEPT !.pc = "lock", !.key = ask[1],
                               !.body = ask[2], !.made = made, !.now = clock]
  <2>2. n \in Req /\ n.pc = "lock" /\ n.key \in Key
    <3>1. ask[1] \in Key /\ ask[2] \in Body /\ clock \in Time
      BY DEF AdmissionTypeOK
    <3> QED BY <3>1 DEF Idle, Req
  <2>3. req[r].pc = "idle" /\ "idle" \notin Statement /\ "lock" \notin Statement
    BY <1>1 DEF Submit, Statement
  <2>4. req' = [req EXCEPT ![r] = n]
    BY <2>1
  <2> HIDE DEF n
  <2>5. RequestsOK'
    BY <1>0, <1>1, <2>2, <2>3, <2>4 DEF RequestsOK, Submit
  <2> QED BY <1>1, <2>5 DEF AdmissionTypeOK, RequestsOK, Submit
<1>2. ASSUME NEW r \in Request, Lock(r)
      PROVE  AdmissionTypeOK'
  <2> DEFINE n == [req[r] EXCEPT !.pc = "expire"]
  <2>1. req[r] \in Req /\ req[r].pc = "lock" /\ req[r].key \in Key
    BY <1>0, <1>2 DEF RequestsOK, Lock
  <2>2. n \in Req /\ n.pc \in Statement /\ n.pc # "idle" /\ n.key \in Key
    BY <2>1 DEF Req, Statement
  <2>3. req' = [req EXCEPT ![r] = n]
    BY <1>2 DEF Lock
  <2> HIDE DEF n
  <2>4. RequestsOK'
    BY ZenonT(30), <1>0, <1>2, <2>2, <2>3 DEF RequestsOK, Lock
  <2> QED BY <1>2, <2>4 DEF AdmissionTypeOK, RequestsOK, Lock
<1>3. ASSUME NEW r \in Request, Expire(r)
      PROVE  AdmissionTypeOK'
  <2> DEFINE n == [req[r] EXCEPT !.pc = "lookup", !.dropped = Expired(r)]
  <2>1. req[r] \in Req /\ Expired(r) \in BOOLEAN
    BY <1>0 DEF RequestsOK, Expired, Older
  <2>2. n \in Req /\ n.pc \in Statement /\ req[r].pc \in Statement /\ n.key = req[r].key
    BY <1>3, <2>1 DEF Req, Statement, Expire
  <2>3. req' = [req EXCEPT ![r] = n]
    BY <1>3 DEF Expire
  <2> HIDE DEF n
  <2>4. RequestsOK'
    BY <1>0, <1>3, <2>2, <2>3, MoveType DEF Expire
  <2> QED BY <1>3, <2>4 DEF AdmissionTypeOK, RequestsOK, Expire
<1>4. ASSUME NEW r \in Request, Lookup(r)
      PROVE  AdmissionTypeOK'
  <2> DEFINE c == Named(r)
             n == [req[r] EXCEPT !.pc = IF c = None THEN "consumer" ELSE "body", !.found = c]
  <2>1. req[r].pc \in Statement /\ req[r].pc # "idle"
    BY <1>4 DEF Lookup, Statement
  <2>2. req[r] \in Req /\ req[r].key \in Key
    BY <1>0, <2>1 DEF RequestsOK
  <2>3. ASSUME Found(r, c)
        PROVE  RequestsOK'
    <3>1. c \in Collection \cup {None}
      BY <2>2 DEF Named, AdmissionTypeOK
    <3>2. n \in Req /\ n.pc \in Statement /\ n.key = req[r].key
      BY <2>2, <3>1 DEF Req, Statement
    <3>3. req' = [req EXCEPT ![r] = n]
      BY <2>3 DEF Found
    <3> HIDE DEF n
    <3> QED BY <1>0, <2>1, <2>3, <3>2, <3>3, MoveType DEF Found
  <2>4. RequestsOK'
    BY <1>0, <1>4, <2>1, <2>3, AnswerType DEF Lookup
  <2> QED BY <1>4, <2>4 DEF AdmissionTypeOK, RequestsOK, Lookup
<1>5. ASSUME NEW r \in Request, ReadBody(r)
      PROVE  AdmissionTypeOK'
  <2>1. RequestsOK'
    BY <1>0, <1>5, AnswerType DEF ReadBody, Statement
  <2> QED BY <1>5, <2>1 DEF AdmissionTypeOK, RequestsOK, ReadBody
<1>6. ASSUME NEW r \in Request, NEW full,
             NEW step \in {"consumer", "total"}, NEW next \in {"total", "insert"},
             Count(r, step, full, next)
      PROVE  AdmissionTypeOK'
  <2> DEFINE n == [req[r] EXCEPT !.pc = next]
  <2>1. req[r].pc \in Statement /\ req[r] \in Req
    BY <1>0, <1>6 DEF RequestsOK, Count, Statement
  <2>2. CASE Answer(r)
    <3>1. RequestsOK'
      BY <1>0, <2>1, <2>2, AnswerType
    <3> QED BY <1>6, <3>1 DEF AdmissionTypeOK, RequestsOK, Count
  <2>3. CASE req' = [req EXCEPT ![r].pc = next] /\ UNCHANGED lock
    <3>1. n \in Req /\ n.pc \in Statement /\ n.key = req[r].key
      BY <2>1 DEF Req, Statement
    <3>2. req' = [req EXCEPT ![r] = n]
      BY <2>3
    <3> HIDE DEF n
    <3>3. RequestsOK'
      BY <1>0, <2>1, <2>3, <3>1, <3>2, MoveType
    <3> QED BY <1>6, <3>3 DEF AdmissionTypeOK, RequestsOK, Count
  <2> QED BY <1>6, <2>2, <2>3 DEF Count
<1>7. ASSUME NEW r \in Request, CountConsumer(r) \/ CountTotal(r)
      PROVE  AdmissionTypeOK'
  BY <1>6, <1>7 DEF CountConsumer, CountTotal
<1>8. ASSUME NEW r \in Request, Insert(r)
      PROVE  AdmissionTypeOK'
  <2> DEFINE c == Cardinality(Created) + 1
             row == [NoRow EXCEPT !.state = "active", !.key = req[r].key,
                                  !.body = req[r].body, !.made = req[r].made]
  <2>1. req[r].pc \in Statement /\ req[r] \in Req /\ req[r].key \in Key
    BY <1>0, <1>8 DEF RequestsOK, Insert, Statement
  <2>2. row \in Row /\ c \in Collection
    BY <1>8, <2>1, RecordTypes DEF Row, Req, Insert, NoRow
  <2>3. coll' = [coll EXCEPT ![c] = row] /\ mapping' = [mapping EXCEPT ![req[r].key] = c]
    BY <1>8 DEF Insert
  <2> HIDE DEF c, row
  <2>4. coll' \in [Collection -> Row] /\ mapping' \in [Key -> Collection \cup {None}]
    BY <2>2, <2>3 DEF AdmissionTypeOK
  <2>5. RequestsOK'
    BY <1>0, <1>8, <2>1, AnswerType DEF Insert
  <2> QED BY <1>8, <2>4, <2>5 DEF AdmissionTypeOK, RequestsOK, Insert
<1>9. ASSUME NEW r \in Request, Abort(r)
      PROVE  AdmissionTypeOK'
  <2>1. Idle.pc = "idle" /\ "idle" \notin Statement
    BY DEF Idle, Statement
  <2>2. RequestsOK'
    BY <1>0, <1>9, <2>1, RecordTypes DEF RequestsOK, Abort
  <2> QED BY <1>9, <2>2 DEF AdmissionTypeOK, RequestsOK, Abort
<1>10. ASSUME NEW c \in Collection, Close(c) \/ Touch(c)
       PROVE  AdmissionTypeOK'
  <2>1. coll' \in [Collection -> Row]
    BY <1>10 DEF AdmissionTypeOK, Close, Touch, Row
  <2> QED BY <1>10, <2>1 DEF AdmissionTypeOK, Close, Touch
<1>11. CASE PurgeKeys
  <2>1. PICK ks \in SUBSET {k \in Key : mapping[k] # None} :
          purge' = [NoPurge EXCEPT !.pc = "keys", !.now = clock,
                                   !.keys = {mapping[k] : k \in ks}]
    BY <1>11 DEF PurgeKeys
  <2>2. {mapping[k] : k \in ks} \in SUBSET Collection
    BY DEF AdmissionTypeOK
  <2>3. purge' \in Purge
    BY <2>1, <2>2, RecordTypes DEF AdmissionTypeOK, Purge, NoPurge
  <2> QED BY <1>11, <2>3 DEF AdmissionTypeOK, PurgeKeys
<1>12. CASE PurgeRows
  <2>1. purge' \in Purge
    BY ZenonT(30), <1>12 DEF AdmissionTypeOK, Purge, PurgeRows, Stored
  <2> QED BY <1>12, <2>1 DEF AdmissionTypeOK, PurgeRows
<1>13. CASE PurgeDelete
  <2>1. purge' \in Purge
    BY <1>13 DEF AdmissionTypeOK, Purge, PurgeDelete
  <2> QED BY <1>13, <2>1 DEF AdmissionTypeOK, PurgeDelete
<1>14. CASE PurgeCommit
  <2>1. ASSUME NEW c \in Collection
        PROVE  [coll[c] EXCEPT !.state = "deleted", !.done = 0, !.seen = None] \in Row
    <3>1. coll[c] \in Row /\ 0 \in Time
      BY DEF AdmissionTypeOK, Time
    <3> QED BY <3>1 DEF Row
  <2>2. coll' \in [Collection -> Row]
    BY <1>14, <2>1 DEF AdmissionTypeOK, PurgeCommit
  <2>3. mapping' \in [Key -> Collection \cup {None}]
    BY <1>14 DEF AdmissionTypeOK, PurgeCommit
  <2> QED BY <1>14, <2>2, <2>3, RecordTypes DEF AdmissionTypeOK, PurgeCommit
<1>15. CASE PurgeAbort
  BY <1>15, RecordTypes DEF AdmissionTypeOK, PurgeAbort
<1>16. CASE Tick
  BY <1>16 DEF AdmissionTypeOK, Tick, Time
<1>17. CASE UNCHANGED admissionVars
  BY <1>17 DEF AdmissionTypeOK, admissionVars
<1> QED BY <1>1, <1>2, <1>3, <1>4, <1>5, <1>7, <1>8, <1>9, <1>10, <1>11, <1>12, <1>13,
            <1>14, <1>15, <1>16, <1>17 DEF AdmissionNext

\* The tables and requests are type correct, and only the holder of the
\* admission lock is between its statements.
THEOREM TypeCorrect == AdmissionSpec => []AdmissionTypeOK
<1>1. AdmissionInit => AdmissionTypeOK
  BY RecordTypes, AdmissionAssumption DEF AdmissionInit, AdmissionTypeOK, Idle, Statement, Time
<1> QED BY <1>1, TypeStep, PTL DEF AdmissionSpec

(***************************************************************************)
(* The limits of the queue.  QueueBounded alone is not inductive: a        *)
(* request inserts three statements after it counted.  What it counted     *)
(* stays true because it holds the lock, without which nobody inserts, and *)
(* because every other step can only make the queue shorter.               *)
(***************************************************************************)
Room(r) ==
    /\ req[r].pc \in {"total", "insert"}
          => Cardinality(ActiveOf(ConsumerOf[req[r].key])) < MaxPerConsumer
    /\ req[r].pc = "insert" => Cardinality(Active) < MaxActive

RoomOK == QueueBounded /\ \A r \in Request : Room(r)

\* The sets that are counted are finite, before and after a step.
LEMMA ActiveFinite ==
    /\ IsFiniteSet(Active) /\ Cardinality(Active) \in Nat
    /\ IsFiniteSet(Active') /\ Cardinality(Active') \in Nat
    /\ \A p : /\ IsFiniteSet(ActiveOf(p)) /\ Cardinality(ActiveOf(p)) \in Nat
              /\ IsFiniteSet(ActiveOf(p)') /\ Cardinality(ActiveOf(p)') \in Nat
<1>1. IsFiniteSet(Collection)
  BY AdmissionAssumption, FS_Interval DEF Collection
<1>2. Active \subseteq Collection /\ Active' \subseteq Collection
  BY DEF Active
<1>3. \A p : ActiveOf(p) \subseteq Collection /\ ActiveOf(p)' \subseteq Collection
  BY <1>2 DEF ActiveOf
<1> QED BY <1>1, <1>2, <1>3, FS_Subset, FS_CardinalityType

\* A step after which no other collection is active does not lengthen the queue.
LEMMA NoMoreActive ==
    ASSUME \A c \in Collection : coll'[c].state = "active"
               => coll[c].state = "active" /\ coll'[c].key = coll[c].key
    PROVE  /\ Cardinality(Active') <= Cardinality(Active)
           /\ \A p : Cardinality(ActiveOf(p)') <= Cardinality(ActiveOf(p))
<1>1. Active' \subseteq Active
  BY DEF Active
<1>2. \A p : ActiveOf(p)' \subseteq ActiveOf(p)
  BY <1>1 DEF ActiveOf, Active
<1> QED BY <1>1, <1>2, ActiveFinite, FS_Subset

\* One more element is at most one more to count.
LEMMA OneMore ==
    ASSUME NEW S, NEW T, NEW x, IsFiniteSet(T), S \subseteq T \cup {x}
    PROVE  Cardinality(S) <= Cardinality(T) + 1
<1>1. /\ IsFiniteSet(T \cup {x}) /\ Cardinality(T) \in Nat
      /\ Cardinality(T \cup {x}) <= Cardinality(T) + 1
  BY FS_AddElement, FS_CardinalityType
<1>2. Cardinality(S) <= Cardinality(T \cup {x}) /\ IsFiniteSet(S)
  BY <1>1, FS_Subset
<1> QED BY <1>1, <1>2, FS_CardinalityType

\* Requests that keep their statement, or leave it for one that was not
\* counted for yet, keep their room while the queue gets no longer.
LEMMA RoomKept ==
    ASSUME AdmissionTypeOK, RoomOK,
           \A c \in Collection : coll'[c].state = "active"
               => coll[c].state = "active" /\ coll'[c].key = coll[c].key,
           \A r \in Request : \/ req'[r] = req[r]
                              \/ req'[r].pc \notin {"total", "insert"}
                              \/ Room(r)'
    PROVE  RoomOK'
<1>1. /\ Cardinality(Active') <= Cardinality(Active)
      /\ \A p : Cardinality(ActiveOf(p)') <= Cardinality(ActiveOf(p))
  BY NoMoreActive
<1>2. QueueBounded'
  BY <1>1, ActiveFinite, AdmissionAssumption DEF RoomOK, QueueBounded
<1>3. ASSUME NEW r \in Request, req'[r] = req[r]
      PROVE  Room(r)'
  <2>1. Room(r)
    BY DEF RoomOK
  <2> QED BY <1>1, <1>3, <2>1, ActiveFinite, AdmissionAssumption DEF Room
<1>4. ASSUME NEW r \in Request, req'[r].pc \notin {"total", "insert"}
      PROVE  Room(r)'
  BY <1>4 DEF Room
<1> QED BY <1>2, <1>3, <1>4 DEF RoomOK

\* The commit of the request that counted.
LEMMA InsertKeepsRoom ==
    ASSUME AdmissionTypeOK, RoomOK, NEW r \in Request, Insert(r)
    PROVE  RoomOK'
<1> DEFINE c == Cardinality(Created) + 1
           n == [NoRow EXCEPT !.state = "active", !.key = req[r].key,
                              !.body = req[r].body, !.made = req[r].made]
<1>1. /\ coll' = [coll EXCEPT ![c] = n] /\ c \in Collection
      /\ n.key = req[r].key
  BY DEF Insert, NoRow
<1>2. /\ req[r].pc = "insert" /\ req[r].key \in Key /\ lock = r
      /\ coll \in [Collection -> Row]
  BY DEF Insert, AdmissionTypeOK, Statement
<1> HIDE DEF c, n
<1>3. Room(r)
  BY DEF RoomOK
<1>4. Cardinality(Active') <= MaxActive
  <2>1. Active' \subseteq Active \cup {c}
    BY <1>1, <1>2 DEF Active
  <2>2. Cardinality(Active') <= Cardinality(Active) + 1
    BY <2>1, ActiveFinite, OneMore
  <2> QED BY <1>2, <1>3, <2>2, ActiveFinite, AdmissionAssumption DEF Room
<1>5. ASSUME NEW p \in Consumer
      PROVE  Cardinality(ActiveOf(p)') <= MaxPerConsumer
  <2>1. Cardinality(ActiveOf(p)) <= MaxPerConsumer
    BY DEF RoomOK, QueueBounded
  <2>2. CASE p = ConsumerOf[req[r].key]
    <3>1. ActiveOf(p)' \subseteq ActiveOf(p) \cup {c}
      BY <1>1, <1>2 DEF ActiveOf, Active
    <3>2. Cardinality(ActiveOf(p)') <= Cardinality(ActiveOf(p)) + 1
      BY <3>1, ActiveFinite, OneMore
    <3>3. Cardinality(ActiveOf(p)) < MaxPerConsumer
      BY <1>2, <1>3, <2>2 DEF Room
    <3> QED BY <3>2, <3>3, ActiveFinite, AdmissionAssumption
  <2>3. CASE p # ConsumerOf[req[r].key]
    <3>1. ActiveOf(p)' \subseteq ActiveOf(p)
      BY <1>1, <1>2, <2>3 DEF ActiveOf, Active
    <3>2. Cardinality(ActiveOf(p)') <= Cardinality(ActiveOf(p))
      BY <3>1, ActiveFinite, FS_Subset
    <3> QED BY <2>1, <3>2, ActiveFinite, AdmissionAssumption
  <2> QED BY <2>2, <2>3
<1>6. ASSUME NEW q \in Request
      PROVE  req'[q].pc \notin {"total", "insert"}
  <2>1. CASE q = r
    BY <2>1 DEF Insert, Answer, Idle, AdmissionTypeOK
  <2>2. CASE q # r
    <3>1. req'[q] = req[q] /\ req[q].pc \notin Statement
      BY <1>2, <2>2 DEF Insert, Answer, AdmissionTypeOK
    <3> QED BY <3>1 DEF Statement
  <2> QED BY <2>1, <2>2
<1> QED BY <1>4, <1>5, <1>6 DEF RoomOK, QueueBounded, Room

\* Every step preserves the limits and the room that was counted.
LEMMA RoomStep == AdmissionTypeOK /\ RoomOK /\ [AdmissionNext]_admissionVars => RoomOK'
<1> SUFFICES ASSUME AdmissionTypeOK, RoomOK, [AdmissionNext]_admissionVars PROVE RoomOK'
  OBVIOUS
<1>1. ASSUME NEW r \in Request, Insert(r)
      PROVE  RoomOK'
  BY <1>1, InsertKeepsRoom
<1>2. ASSUME NEW r \in Request, CountConsumer(r)
      PROVE  RoomOK'
  <2>1. ASSUME NEW q \in Request
        PROVE  \/ req'[q] = req[q]
               \/ req'[q].pc \notin {"total", "insert"}
               \/ Room(q)'
    <3>1. CASE Answer(r)
      BY <3>1 DEF Answer, AdmissionTypeOK, Idle
    <3>2. CASE /\ ~(Cardinality(ActiveOf(ConsumerOf[req[r].key])) >= MaxPerConsumer)
               /\ req' = [req EXCEPT ![r].pc = "total"]
      <4>1. CASE q = r
        <5>1. req'[q].pc = "total" /\ req'[q].key = req[r].key
          BY <3>2, <4>1 DEF AdmissionTypeOK, Req
        <5>2. \A p : ActiveOf(p)' = ActiveOf(p)
          BY <1>2 DEF CountConsumer, Count, ActiveOf, Active
        <5>3. Cardinality(ActiveOf(ConsumerOf[req[r].key])) < MaxPerConsumer
          BY <3>2, ActiveFinite, AdmissionAssumption
        <5> QED BY <5>1, <5>2, <5>3 DEF Room
      <4>2. CASE q # r
        BY <3>2, <4>2 DEF AdmissionTypeOK
      <4> QED BY <4>1, <4>2
    <3> QED BY <1>2, <3>1, <3>2 DEF CountConsumer, Count
  <2> QED BY <1>2, <2>1, RoomKept DEF CountConsumer, Count
<1>3. ASSUME NEW r \in Request, CountTotal(r)
      PROVE  RoomOK'
  <2>1. ASSUME NEW q \in Request
        PROVE  \/ req'[q] = req[q]
               \/ req'[q].pc \notin {"total", "insert"}
               \/ Room(q)'
    <3>1. CASE Answer(r)
      BY <3>1 DEF Answer, AdmissionTypeOK, Idle
    <3>2. CASE ~(Cardinality(Active) >= MaxActive) /\ req' = [req EXCEPT ![r].pc = "insert"]
      <4>1. CASE q = r
        <5>1. /\ req'[q].pc = "insert" /\ req'[q].key = req[r].key
              /\ req[r].pc = "total"
          BY <1>3, <3>2, <4>1 DEF AdmissionTypeOK, Req, CountTotal, Count
        <5>2. Active' = Active /\ \A p : ActiveOf(p)' = ActiveOf(p)
          BY <1>3 DEF CountTotal, Count, ActiveOf, Active
        <5>3. Cardinality(Active) < MaxActive
          BY <3>2, ActiveFinite, AdmissionAssumption
        <5>4. Cardinality(ActiveOf(ConsumerOf[req[r].key])) < MaxPerConsumer
          BY <5>1 DEF RoomOK, Room
        <5> QED BY <5>1, <5>2, <5>3, <5>4 DEF Room
      <4>2. CASE q # r
        BY <3>2, <4>2 DEF AdmissionTypeOK
      <4> QED BY <4>1, <4>2
    <3> QED BY <1>3, <3>1, <3>2 DEF CountTotal, Count
  <2> QED BY <1>3, <2>1, RoomKept DEF CountTotal, Count
<1>4. ASSUME NEW r \in Request,
             Submit(r) \/ Lock(r) \/ Expire(r) \/ Lookup(r) \/ ReadBody(r) \/ Abort(r)
      PROVE  RoomOK'
  <2>1. \A q \in Request : req'[q] = req[q] \/ req'[q].pc \notin {"total", "insert"}
    <3>1. CASE Submit(r)
      BY <3>1 DEF Submit, AdmissionTypeOK, Idle
    <3>2. CASE Lock(r) \/ Expire(r)
      BY <3>2 DEF Lock, Expire, AdmissionTypeOK, Req
    <3>3. CASE Lookup(r)
      BY <3>3 DEF Lookup, Answer, Found, AdmissionTypeOK, Idle, Req
    <3>4. CASE ReadBody(r) \/ Abort(r)
      BY <3>4 DEF ReadBody, Answer, Abort, AdmissionTypeOK, Idle
    <3> QED BY <1>4, <3>1, <3>2, <3>3, <3>4
  <2>2. UNCHANGED coll
    BY <1>4 DEF Submit, Lock, Expire, Lookup, ReadBody, Abort
  <2> QED BY <2>1, <2>2, RoomKept
<1>5. ASSUME NEW c \in Collection, Close(c) \/ Touch(c)
      PROVE  RoomOK'
  <2>1. \A d \in Collection : coll'[d].state = "active"
            => coll[d].state = "active" /\ coll'[d].key = coll[d].key
    BY <1>5 DEF Close, Touch, AdmissionTypeOK, Row
  <2>2. UNCHANGED req
    BY <1>5 DEF Close, Touch
  <2> QED BY <2>1, <2>2, RoomKept
<1>6. CASE PurgeCommit
  <2>1. \A d \in Collection : coll'[d].state = "active"
            => coll[d].state = "active" /\ coll'[d].key = coll[d].key
    BY ZenonT(30), <1>6 DEF PurgeCommit, AdmissionTypeOK, Row
  <2>2. UNCHANGED req
    BY <1>6 DEF PurgeCommit
  <2> QED BY <2>1, <2>2, RoomKept
<1>7. CASE \/ PurgeKeys \/ PurgeRows \/ PurgeDelete \/ PurgeAbort \/ Tick
           \/ UNCHANGED admissionVars
  <2>1. UNCHANGED <<coll, req>>
    BY <1>7 DEF PurgeKeys, PurgeRows, PurgeDelete, PurgeAbort, Tick, admissionVars
  <2> QED BY <2>1, RoomKept
<1> QED BY <1>1, <1>2, <1>3, <1>4, <1>5, <1>6, <1>7 DEF AdmissionNext

\* The queue never exceeds its limits, for any number of concurrent requests.
THEOREM QueueIsBounded == AdmissionSpec => []QueueBounded
<1>1. AdmissionInit => RoomOK
  <2> SUFFICES ASSUME AdmissionInit PROVE RoomOK
    OBVIOUS
  <2>1. Active = {} /\ \A p : ActiveOf(p) = {}
    BY DEF AdmissionInit, Active, ActiveOf, NoRow
  <2>2. \A r \in Request : req[r].pc = "idle"
    BY DEF AdmissionInit, Idle
  <2>3. Cardinality({}) = 0
    BY FS_EmptySet
  <2> QED BY <2>1, <2>2, <2>3, AdmissionAssumption DEF RoomOK, Room, QueueBounded
<1>2. RoomOK => QueueBounded
  BY DEF RoomOK
<1> QED BY <1>1, <1>2, RoomStep, TypeCorrect, PTL DEF AdmissionSpec

------------------------------------------------------------------------------
(***************************************************************************)
(* Theorems about the idempotency keys of Admission and about what         *)
(* retention deletes, for any requests, keys, periods and numbers of       *)
(* collections.                                                            *)
(*                                                                         *)
(* The idempotency window and the retention of collections are configured  *)
(* independently.  What a key promises rests on their order: a collection  *)
(* that retention deletes takes its mapping along.                         *)
(***************************************************************************)

\* No collection is deleted while its key is still protected,
KeysExpireFirst == Retention >= Window

\* nor while a request that found it may still be on its way to it.
LookupsEndFirst == Retention >= Window + Lag

(***************************************************************************)
(* The invariant.                                                          *)
(***************************************************************************)
\* Collections are numbered in the order of their creation.
Numbered == \E n \in 0..MaxCollections : Created = 1..n

\* A row has a key, and its times lie in the order of its life.
RowOK(c) ==
    /\ coll[c].key \in Key
    /\ coll[c].made <= clock
    /\ coll[c].state = "closed" => coll[c].made <= coll[c].done

\* A retention pass holds old mappings and rows that were closed long ago.
PurgeOK ==
    /\ purge.now <= clock
    /\ purge.keys \subseteq Created
    /\ \A c \in purge.keys : Older(coll[c].made, Window, purge.now)
    /\ \A c \in purge.rows : c \in Created /\ coll[c].state = "closed"
                             /\ Older(coll[c].done, Retention, purge.now)

\* A mapping names a collection of its key that is stored.
MappingOK(k) == mapping[k] # None => mapping[k] \in Stored /\ coll[mapping[k]].key = k

\* A collection is found by its key, or is a window old.
Reached(c) == mapping[coll[c].key] = c \/ Older(coll[c].made, Window, clock)

\* No transaction takes longer than Lag.
InTime(r) ==
    req[r].pc # "idle" => /\ req[r].made <= req[r].now /\ req[r].now <= clock
                          /\ clock <= req[r].made + Lag

\* The request may give its key to a new collection.
Replaceable(r) ==
    \/ mapping[req[r].key] = None
    \/ /\ req[r].dropped
       /\ Older(coll[mapping[req[r].key]].made, Window, req[r].now)

KeyFree(r) ==
    /\ req[r].dropped => req[r].pc \in Statement /\ Replaceable(r)
    /\ req[r].pc \in {"consumer", "total", "insert"} => Replaceable(r)

\* What a request may answer with: a stored collection of its key and body
\* that is younger than the window.
Young(r, c) == ~Older(coll[c].made, Window, req[r].now)

Answerable(r) ==
    /\ req[r].pc = "lookup" /\ ~req[r].dropped /\ mapping[req[r].key] # None
          => Young(r, mapping[req[r].key])
    /\ req[r].pc = "body"
          => /\ req[r].found \in Stored
             /\ coll[req[r].found].key = req[r].key
             /\ coll[req[r].found].body = req[r].body
             /\ Young(r, req[r].found)

RowInv == Numbered /\ (\A c \in Created : RowOK(c)) /\ PurgeOK

KeyInv ==
    /\ \A k \in Key : MappingOK(k)
    /\ \A c \in Created : Reached(c)
    /\ \A r \in Request : InTime(r) /\ KeyFree(r)

LookupInv == \A r \in Request : Answerable(r)

(***************************************************************************)
(* Types, as the steps below use them.                                     *)
(***************************************************************************)
LEMMA Types ==
    ASSUME AdmissionTypeOK
    PROVE  /\ clock \in Nat /\ purge.now \in Nat
           /\ purge.keys \subseteq Collection /\ purge.rows \subseteq Collection
           /\ \A c \in Collection : /\ coll[c].made \in Nat /\ coll[c].done \in Nat
                                    /\ coll[c].key \in Key \cup {None}
           /\ \A r \in Request : req[r].made \in Nat /\ req[r].now \in Nat
           /\ \A k \in Key : mapping[k] \in Collection \cup {None}
           /\ None \notin Collection /\ None \notin Key
BY AdmissionAssumption DEF AdmissionTypeOK, Time, Row, Req, Purge, Collection

\* The same after the step.
LEMMA TypesNext ==
    ASSUME AdmissionTypeOK'
    PROVE  /\ clock' \in Nat /\ purge'.now \in Nat
           /\ \A c \in Collection : coll'[c].made \in Nat /\ coll'[c].done \in Nat
           /\ \A r \in Request : req'[r].made \in Nat /\ req'[r].now \in Nat
           /\ \A k \in Key : mapping'[k] \in Collection \cup {None}
BY AdmissionAssumption DEF AdmissionTypeOK, Time, Row, Req, Purge, Collection

\* The number of the next collection is free.
LEMMA NextIsNew ==
    ASSUME Numbered
    PROVE  /\ Cardinality(Created) \in Nat
           /\ Created = 1..Cardinality(Created)
           /\ Cardinality(Created) + 1 \notin Created
<1>1. PICK n \in 0..MaxCollections : Created = 1..n
  BY DEF Numbered
<1>2. Cardinality(1..n) = n /\ n \in Nat
  BY AdmissionAssumption, FS_Interval
<1> QED BY <1>1, <1>2

(***************************************************************************)
(* What a step may do to a row.                                            *)
(***************************************************************************)
\* It keeps the row but for the access mark, closes it, or deletes it as one of
\* the rows of the retention pass.
KeepsRow(c) ==
    /\ coll'[c].key = coll[c].key /\ coll'[c].body = coll[c].body
    /\ coll'[c].made = coll[c].made
    /\ \/ coll'[c].state = coll[c].state /\ coll'[c].done = coll[c].done
       \/ coll[c].state = "active" /\ coll'[c].state = "closed" /\ coll'[c].done = clock
       \/ c \in purge.rows /\ coll'[c].state = "deleted" /\ PurgeCommit

\* Every step but the insertion of a collection keeps all rows in this sense.
LEMMA RowsKept ==
    ASSUME AdmissionTypeOK, RowInv, [AdmissionNext]_admissionVars, \A r \in Request : ~Insert(r)
    PROVE  /\ \A c \in Collection : KeepsRow(c)
           /\ Created' = Created
<1>1. ASSUME coll' = coll
      PROVE  \A c \in Collection : KeepsRow(c)
  BY <1>1 DEF KeepsRow
<1>2. ASSUME NEW d \in Collection, Close(d) \/ Touch(d)
      PROVE  \A c \in Collection : KeepsRow(c)
  BY <1>2 DEF Close, Touch, KeepsRow, AdmissionTypeOK, Row
<1>3. ASSUME PurgeCommit
      PROVE  \A c \in Collection : KeepsRow(c)
  <2>1. ASSUME NEW c \in Collection
        PROVE  KeepsRow(c)
    <3>1. coll[c] \in Row
      BY DEF AdmissionTypeOK
    <3>2. coll'[c] = IF c \in purge.rows
                     THEN [coll[c] EXCEPT !.state = "deleted", !.done = 0, !.seen = None]
                     ELSE coll[c]
      BY <1>3 DEF PurgeCommit
    <3> QED BY <1>3, <3>1, <3>2 DEF PurgeCommit, KeepsRow, Row
  <2> QED BY <2>1
<1>4. \A c \in Collection : KeepsRow(c)
  <2>1. \/ coll' = coll
        \/ PurgeCommit
        \/ \E d \in Collection : Close(d) \/ Touch(d)
    BY DEF AdmissionNext, admissionVars, Submit, Lock, Expire, Lookup, ReadBody, CountConsumer, CountTotal,
           Count, Abort, PurgeKeys, PurgeRows, PurgeDelete, PurgeAbort, Tick
  <2> QED BY <1>1, <1>2, <1>3, <2>1
<1>5. \A c \in Collection : coll'[c].state = "none" <=> coll[c].state = "none"
  BY <1>4 DEF KeepsRow, RowInv, PurgeOK
<1> QED BY <1>4, <1>5 DEF Created

\* The row that a request adds.
LEMMA RowAdded ==
    ASSUME AdmissionTypeOK, RowInv, NEW r \in Request, Insert(r), NEW d, d = Cardinality(Created) + 1
    PROVE  /\ d \in Collection /\ d \notin Created
           /\ Created' = Created \cup {d} /\ Numbered'
           /\ \A c \in Collection \ {d} : coll'[c] = coll[c]
           /\ coll'[d].state = "active" /\ coll'[d].key = req[r].key
           /\ coll'[d].made = req[r].made
           /\ req[r].key \in Key /\ req[r].pc = "insert" /\ lock = r
<1>1. req[r].pc = "insert" /\ d \in Collection /\ lock = r /\ req[r].key \in Key
  BY DEF Insert, AdmissionTypeOK, Statement
<1>2. Cardinality(Created) \in Nat /\ Created = 1..Cardinality(Created) /\ d \notin Created
  BY NextIsNew DEF RowInv
<1>3. coll' = [coll EXCEPT ![d] = [NoRow EXCEPT !.state = "active", !.key = req[r].key,
                                           !.body = req[r].body, !.made = req[r].made]]
  BY DEF Insert
<1>4. /\ \A c \in Collection \ {d} : coll'[c] = coll[c]
      /\ coll'[d].state = "active" /\ coll'[d].key = req[r].key
      /\ coll'[d].made = req[r].made
  BY <1>1, <1>3 DEF NoRow, AdmissionTypeOK
<1>5. Created' = Created \cup {d}
  BY <1>1, <1>4 DEF Created
<1>6. Numbered'
  <2>1. Created' = 1..d /\ d \in 0..MaxCollections
    BY <1>1, <1>2, <1>5, AdmissionAssumption DEF Collection
  <2> QED BY <2>1 DEF Numbered
<1> QED BY <1>1, <1>2, <1>4, <1>5, <1>6

\* Every step preserves what is stated of rows and of the retention pass.
LEMMA RowStep ==
    ASSUME AdmissionTypeOK, RowInv, \A k \in Key : MappingOK(k), \A r \in Request : InTime(r),
           [AdmissionNext]_admissionVars
    PROVE  RowInv'
<1> USE AdmissionAssumption
<1>0. AdmissionTypeOK' /\ clock' >= clock /\ clock \in Nat /\ clock' \in Nat
  <2>1. AdmissionTypeOK'
    BY TypeStep
  <2>2. clock' = clock \/ clock' = clock + 1
    BY DEF AdmissionNext, admissionVars, Submit, Lock, Expire, Lookup, ReadBody, CountConsumer, CountTotal,
           Count, Insert, Abort, Close, Touch, PurgeKeys, PurgeRows, PurgeDelete,
           PurgeCommit, PurgeAbort, Tick
  <2> QED BY <2>1, <2>2, Types, TypesNext
<1>1. ASSUME NEW r \in Request, Insert(r)
      PROVE  RowInv'
  <2> DEFINE d == Cardinality(Created) + 1
  <2>1. /\ d \in Collection /\ d \notin Created
        /\ Created' = Created \cup {d} /\ Numbered'
        /\ \A c \in Collection \ {d} : coll'[c] = coll[c]
        /\ coll'[d].state = "active" /\ coll'[d].key = req[r].key
        /\ coll'[d].made = req[r].made
        /\ req[r].key \in Key /\ req[r].pc = "insert"
    BY <1>1, RowAdded
  <2>2. purge' = purge /\ clock' = clock
    BY <1>1 DEF Insert
  <2> HIDE DEF d
  <2>3. req[r].made <= clock /\ req[r].made \in Nat
    BY <2>1, Types DEF InTime
  <2>4. \A c \in Created' : RowOK(c)'
    BY <2>1, <2>2, <2>3 DEF RowInv, RowOK, Created
  <2>5. PurgeOK'
    BY <2>1, <2>2 DEF RowInv, PurgeOK, Created, Older
  <2> QED BY <2>1, <2>4, <2>5 DEF RowInv
<1>2. ASSUME \A r \in Request : ~Insert(r)
      PROVE  RowInv'
  <2>1. (\A c \in Collection : KeepsRow(c)) /\ Created' = Created
    BY <1>2, RowsKept
  <2>2. Numbered'
    BY <2>1 DEF Numbered, RowInv
  <2>3. \A c \in Created' : RowOK(c)'
    <3>1. ASSUME NEW c \in Created
          PROVE  RowOK(c)'
      <4>1. c \in Collection /\ RowOK(c) /\ KeepsRow(c)
        BY <2>1 DEF Created, RowInv
      <4>2. coll[c].made \in Nat /\ coll[c].done \in Nat
        BY <4>1, Types
      <4> QED BY <1>0, <4>1, <4>2 DEF RowOK, KeepsRow
    <3> QED BY <2>1, <3>1
  <2>4. PurgeOK'
    <3>1. CASE PurgeKeys
      <4>1. PICK ks \in SUBSET {k \in Key : /\ mapping[k] # None
                                           /\ Older(coll[mapping[k]].made, Window, clock)
                                           /\ \A r \in Request : ~(req[r].dropped /\ req[r].key = k)} :
              purge' = [NoPurge EXCEPT !.pc = "keys", !.now = clock,
                                       !.keys = {mapping[k] : k \in ks}]
        BY <3>1 DEF PurgeKeys
      <4>2. /\ purge'.now = clock /\ purge'.rows = {}
            /\ purge'.keys = {mapping[k] : k \in ks}
        BY <4>1 DEF NoPurge
      <4>3. coll' = coll /\ clock' = clock
        BY <3>1 DEF PurgeKeys
      <4>4. \A c \in purge'.keys : c \in Created /\ Older(coll[c].made, Window, clock)
        BY <4>2 DEF MappingOK, Stored, Created
      <4> QED BY <1>0, <4>2, <4>3, <4>4 DEF PurgeOK, Created
    <3>2. CASE PurgeRows
      <4>1. PICK cs \in SUBSET {c \in Stored : /\ coll[c].state = "closed"
                                             /\ Older(coll[c].done, Retention, purge.now)
                                             /\ Unread(c, purge.now)} :
              purge' = [purge EXCEPT !.pc = "rows", !.rows = cs]
        BY <3>2 DEF PurgeRows
      <4>2. purge'.now = purge.now /\ purge'.rows = cs /\ purge'.keys = purge.keys
        BY <4>1 DEF AdmissionTypeOK, Purge
      <4>3. coll' = coll /\ clock' = clock
        BY <3>2 DEF PurgeRows
      <4> QED BY <4>1, <4>2, <4>3 DEF RowInv, PurgeOK, Created, Stored
    <3>3. CASE PurgeDelete
      BY <3>3 DEF PurgeDelete, AdmissionTypeOK, Purge, RowInv, PurgeOK, Created
    <3>4. CASE purge' = NoPurge
      BY <1>0, <3>4 DEF NoPurge, PurgeOK
    <3>5. CASE purge' = purge /\ purge' # NoPurge
      <4>1. ASSUME NEW c \in Created
            PROVE  c \in Collection /\ coll'[c].made = coll[c].made
        BY <2>1, <4>1 DEF Created, KeepsRow
      <4>2. ASSUME NEW c \in purge.rows
            PROVE  coll'[c].state = "closed" /\ coll'[c].done = coll[c].done
        <5>1. c \in Collection /\ coll[c].state = "closed"
          BY <4>2 DEF RowInv, PurgeOK, Created
        <5>2. KeepsRow(c)
          BY <2>1, <5>1
        <5> QED BY <3>5, <5>1, <5>2 DEF KeepsRow, PurgeCommit
      <4>3. purge.now <= clock' /\ purge.now \in Nat
        BY <1>0, Types DEF RowInv, PurgeOK
      <4> QED BY <2>1, <3>5, <4>1, <4>2, <4>3 DEF RowInv, PurgeOK
    <3> QED
      BY <1>2, <3>1, <3>2, <3>3, <3>4, <3>5
      DEF AdmissionNext, admissionVars, Submit, Lock, Expire, Lookup, ReadBody, CountConsumer, CountTotal,
          Count, Abort, Close, Touch, PurgeCommit, PurgeAbort, Tick
  <2> QED BY <2>2, <2>3, <2>4 DEF RowInv
<1> QED BY <1>1, <1>2

(***************************************************************************)
(* The key invariant.                                                      *)
(***************************************************************************)
\* A request goes on with the key, the body and the times it began with.
GoesOn(r) ==
    /\ req'[r].key = req[r].key /\ req'[r].body = req[r].body
    /\ req'[r].made = req[r].made /\ req'[r].now = req[r].now
    /\ req[r].pc # "idle" /\ UNCHANGED <<coll, mapping, purge, clock>>

\* What a step may do to a request.
LEMMA RequestMoves ==
    ASSUME AdmissionTypeOK, [AdmissionNext]_admissionVars, NEW r \in Request
    PROVE  \/ req'[r] = req[r]
           \/ req'[r] = Idle /\ clock' = clock
           \/ Submit(r)
           \/ Lock(r) /\ GoesOn(r) /\ req'[r].pc = "expire" /\ req'[r].dropped = req[r].dropped
           \/ Expire(r) /\ GoesOn(r) /\ req'[r].pc = "lookup" /\ req'[r].dropped = Expired(r)
           \/ /\ Lookup(r) /\ GoesOn(r) /\ req'[r].dropped = req[r].dropped
              /\ req'[r].found = Named(r)
              /\ req'[r].pc = IF Named(r) = None THEN "consumer" ELSE "body"
              /\ Named(r) # None => coll[Named(r)].body = req[r].body
           \/ /\ CountConsumer(r) \/ CountTotal(r)
              /\ GoesOn(r) /\ req'[r].dropped = req[r].dropped
              /\ req[r].pc \in {"consumer", "total"} /\ req'[r].pc \in {"total", "insert"}
<1>0. req[r] \in Req
  BY DEF AdmissionTypeOK
<1>1. CASE \E q \in Request \ {r} : \/ Submit(q) \/ Lock(q) \/ Expire(q) \/ Lookup(q)
                                     \/ ReadBody(q) \/ CountConsumer(q)
                                     \/ CountTotal(q) \/ Insert(q) \/ Abort(q)
  BY ZenonT(30), <1>1 DEF Submit, Lock, Expire, Lookup, ReadBody, CountConsumer, CountTotal, Count,
              Insert, Abort, Answer, Found, AdmissionTypeOK
<1>2. CASE Lock(r)
  BY <1>0, <1>2 DEF Lock, GoesOn, AdmissionTypeOK, Req
<1>3. CASE Expire(r)
  BY <1>0, <1>3 DEF Expire, GoesOn, AdmissionTypeOK, Req
<1>4. CASE Lookup(r)
  BY <1>0, <1>4 DEF Lookup, Answer, Found, GoesOn, AdmissionTypeOK, Req
<1>5. CASE CountConsumer(r)
  BY <1>0, <1>5 DEF CountConsumer, Count, Answer, GoesOn, AdmissionTypeOK, Req
<1>6. CASE CountTotal(r)
  BY <1>0, <1>6 DEF CountTotal, Count, Answer, GoesOn, AdmissionTypeOK, Req
<1>7. CASE ReadBody(r) \/ Insert(r) \/ Abort(r)
  BY <1>7 DEF ReadBody, Insert, Abort, Answer, AdmissionTypeOK
<1>8. CASE req' = req
  BY <1>8
<1> QED
  BY <1>1, <1>2, <1>3, <1>4, <1>5, <1>6, <1>7, <1>8
  DEF AdmissionNext, admissionVars, Close, Touch, PurgeKeys, PurgeRows, PurgeDelete, PurgeCommit,
      PurgeAbort, Tick

\* No transaction gets older than Lag.
LEMMA InTimeStep ==
    ASSUME AdmissionTypeOK, \A r \in Request : InTime(r), [AdmissionNext]_admissionVars, NEW r \in Request
    PROVE  InTime(r)'
<1>0. AdmissionTypeOK'
  BY TypeStep
<1>1. CASE Submit(r)
  <2>1. PICK ask \in Asked, made \in Time :
          /\ made <= clock /\ clock <= made + Lag
          /\ req' = [req EXCEPT ![r] = [Idle EXCEPT !.pc = "lock", !.key = ask[1],
                                   !.body = ask[2], !.made = made, !.now = clock]]
    BY <1>1 DEF Submit
  <2>2. req'[r].made = made /\ req'[r].now = clock /\ clock' = clock /\ clock \in Nat
    BY <1>1, <2>1, Types DEF Submit, AdmissionTypeOK, Idle
  <2> QED BY <2>1, <2>2 DEF InTime
<1>2. CASE req'[r] = req[r]
  <2>1. CASE Tick
    BY <1>0, <1>2, <2>1, Types, TypesNext, AdmissionAssumption DEF Tick, InTime, InFlight
  <2>2. CASE clock' = clock
    BY <1>2, <2>2 DEF InTime
  <2> QED
    BY <2>1, <2>2
    DEF AdmissionNext, admissionVars, Submit, Lock, Expire, Lookup, ReadBody, CountConsumer, CountTotal,
        Count, Insert, Abort, Close, Touch, PurgeKeys, PurgeRows, PurgeDelete,
        PurgeCommit, PurgeAbort, Tick
<1>3. CASE req'[r] = Idle
  BY <1>3 DEF InTime, Idle
<1>4. CASE GoesOn(r)
  BY <1>4 DEF GoesOn, InTime
<1> QED BY <1>1, <1>2, <1>3, <1>4, RequestMoves

\* What a step that inserts nothing may do to a mapping.
MappingKept(k) ==
    \/ mapping'[k] = mapping[k] /\ (PurgeCommit => mapping[k] \notin purge.keys \cup purge.rows)
    \/ mapping'[k] = None /\ PurgeCommit /\ mapping[k] \in purge.keys \cup purge.rows

\* Only an insertion gives a key to another collection.
LEMMA MappingsKept ==
    ASSUME AdmissionTypeOK, [AdmissionNext]_admissionVars, \A r \in Request : ~Insert(r), NEW k \in Key
    PROVE  MappingKept(k)
<1>1. CASE PurgeCommit
  BY <1>1 DEF PurgeCommit, MappingKept
<1>2. CASE mapping' = mapping /\ ~PurgeCommit
  BY <1>2 DEF MappingKept
<1> QED
  BY <1>1, <1>2
  DEF AdmissionNext, admissionVars, Submit, Lock, Expire, Lookup, ReadBody, CountConsumer, CountTotal, Count,
      Abort, Close, Touch, PurgeKeys, PurgeRows, PurgeDelete, PurgeAbort, Tick

\* A mapping never names a collection that is gone or of another key.
LEMMA MappingStep ==
    ASSUME AdmissionTypeOK, RowInv, \A k \in Key : MappingOK(k), [AdmissionNext]_admissionVars, NEW k \in Key
    PROVE  MappingOK(k)'
<1>0. /\ MappingOK(k) /\ mapping[k] \in Collection \cup {None} /\ None \notin Collection
      /\ mapping \in [Key -> Collection \cup {None}]
  BY Types DEF AdmissionTypeOK
<1>1. ASSUME NEW r \in Request, Insert(r)
      PROVE  MappingOK(k)'
  <2> DEFINE d == Cardinality(Created) + 1
  <2>1. /\ d \in Collection /\ d \notin Created
        /\ \A c \in Collection \ {d} : coll'[c] = coll[c]
        /\ coll'[d].state = "active" /\ coll'[d].key = req[r].key
    BY <1>1, RowAdded
  <2>2. mapping' = [mapping EXCEPT ![req[r].key] = d]
    BY <1>1 DEF Insert
  <2> HIDE DEF d
  <2> QED BY <1>0, <2>1, <2>2 DEF MappingOK, Stored, Created
<1>2. ASSUME \A r \in Request : ~Insert(r)
      PROVE  MappingOK(k)'
  <2>1. MappingKept(k)
    BY <1>2, MappingsKept
  <2>2. CASE mapping'[k] # None
    <3> DEFINE c == mapping[k]
    <3>1. c \in Stored /\ c \in Collection /\ coll[c].key = k /\ mapping'[k] = c
      BY <1>0, <2>1, <2>2 DEF MappingKept, MappingOK
    <3>2. KeepsRow(c)
      BY <1>2, <3>1, RowsKept
    <3>3. ~(c \in purge.rows /\ PurgeCommit)
      BY <2>1, <2>2, <3>1 DEF MappingKept
    <3> HIDE DEF c
    <3> QED BY <3>1, <3>2, <3>3 DEF KeepsRow, MappingOK, Stored
  <2> QED BY <2>2 DEF MappingOK
<1> QED BY <1>1, <1>2

\* A collection that its key does not find any more is a window old: its mapping
\* was old when retention or another request deleted it, or went with the row.
LEMMA ReachedStep ==
    ASSUME KeysExpireFirst, AdmissionTypeOK, RowInv, KeyInv, [AdmissionNext]_admissionVars, NEW c \in Created'
    PROVE  Reached(c)'
<1> USE AdmissionAssumption
<1>0. /\ clock \in Nat /\ clock' \in Nat /\ clock' >= clock /\ c \in Collection
      /\ mapping \in [Key -> Collection \cup {None}] /\ None \notin Collection
  <2>1. clock' = clock \/ clock' = clock + 1
    BY DEF AdmissionNext, admissionVars, Submit, Lock, Expire, Lookup, ReadBody, CountConsumer, CountTotal,
           Count, Insert, Abort, Close, Touch, PurgeKeys, PurgeRows, PurgeDelete,
           PurgeCommit, PurgeAbort, Tick
  <2> QED BY <2>1, Types DEF Created, AdmissionTypeOK
<1>1. ASSUME NEW r \in Request, Insert(r)
      PROVE  Reached(c)'
  <2> DEFINE d == Cardinality(Created) + 1
  <2>1. /\ d \in Collection /\ d \notin Created /\ Created' = Created \cup {d}
        /\ \A b \in Collection \ {d} : coll'[b] = coll[b]
        /\ coll'[d].key = req[r].key
        /\ req[r].key \in Key /\ req[r].pc = "insert"
    BY <1>1, RowAdded
  <2>2. mapping' = [mapping EXCEPT ![req[r].key] = d] /\ clock' = clock
    BY <1>1 DEF Insert
  <2> HIDE DEF d
  <2>3. CASE c = d
    BY <1>0, <2>1, <2>2, <2>3 DEF Reached
  <2>4. CASE c # d /\ coll[c].key # req[r].key
    BY <1>0, <2>1, <2>2, <2>4 DEF Reached, KeyInv
  <2>5. CASE c # d /\ coll[c].key = req[r].key
    <3>1. c \in Created /\ Reached(c) /\ coll'[c] = coll[c]
      BY <1>0, <2>1, <2>5 DEF KeyInv
    <3>2. Replaceable(r) /\ req[r].now <= clock
      BY <2>1 DEF KeyInv, KeyFree, InTime
    <3>3. req[r].now \in Nat /\ coll[c].made \in Nat
      BY <1>0, Types
    <3>4. Older(coll[c].made, Window, clock)
      BY <1>0, <2>5, <3>1, <3>2, <3>3 DEF Replaceable, Reached, Older
    <3> QED BY <2>2, <3>1, <3>4 DEF Reached
  <2> QED BY <2>3, <2>4, <2>5
<1>2. ASSUME \A r \in Request : ~Insert(r)
      PROVE  Reached(c)'
  <2>1. KeepsRow(c) /\ c \in Created
    BY <1>0, <1>2, RowsKept
  <2>2. RowOK(c) /\ Reached(c)
    BY <2>1 DEF RowInv, KeyInv
  <2>3. /\ coll'[c].key = coll[c].key /\ coll'[c].made = coll[c].made
        /\ coll[c].made \in Nat /\ coll[c].done \in Nat /\ coll[c].key \in Key
        /\ purge.now \in Nat /\ purge.now <= clock
    BY <1>0, <2>1, <2>2, Types DEF KeepsRow, RowOK, RowInv, PurgeOK
  <2>4. CASE Older(coll[c].made, Window, clock)
    BY <1>0, <2>3, <2>4 DEF Reached, Older
  <2>5. CASE mapping[coll[c].key] = c
    <3>1. MappingKept(coll[c].key)
      BY <1>2, <2>3, MappingsKept
    <3>2. CASE c \in purge.keys
      <4>1. Older(coll[c].made, Window, purge.now)
        BY <3>2 DEF RowInv, PurgeOK
      <4> QED BY <1>0, <2>3, <2>4, <4>1 DEF Older
    <3>3. CASE c \in purge.rows
      <4>1. Older(coll[c].done, Retention, purge.now) /\ coll[c].made <= coll[c].done
        BY <2>2, <3>3 DEF RowInv, PurgeOK, RowOK
      <4> QED BY <1>0, <2>3, <2>4, <4>1 DEF Older, KeysExpireFirst
    <3>4. CASE c \notin purge.keys \cup purge.rows
      BY <2>3, <2>5, <3>1, <3>4 DEF MappingKept, Reached
    <3> QED BY <3>2, <3>3, <3>4
  <2> QED BY <2>2, <2>4, <2>5 DEF Reached
<1> QED BY <1>1, <1>2

(***************************************************************************)
(* Requests.                                                               *)
(***************************************************************************)
\* While a request holds the lock its mapping stays or is deleted, and the
\* collection it names keeps its age.
LEMMA LockedMapping ==
    ASSUME AdmissionTypeOK, RowInv, KeyInv, [AdmissionNext]_admissionVars,
           NEW r \in Request, req[r].pc \in Statement, req'[r] = req[r]
    PROVE  /\ \A q \in Request : ~Insert(q)
           /\ req[r].key \in Key
           /\ mapping'[req[r].key] \in {mapping[req[r].key], None}
           /\ mapping[req[r].key] # None
                 => coll'[mapping[req[r].key]].made = coll[mapping[req[r].key]].made
<1>1. lock = r /\ req[r].key \in Key
  BY DEF AdmissionTypeOK, Statement
<1>2. ASSUME NEW q \in Request, Insert(q)
      PROVE  FALSE
  <2>1. q = r
    BY <1>1, <1>2 DEF Insert, AdmissionTypeOK, Statement
  <2> QED BY <1>2, <2>1 DEF Insert, Answer, Idle, AdmissionTypeOK
<1>3. MappingKept(req[r].key)
  BY <1>1, <1>2, MappingsKept
<1>4. ASSUME mapping[req[r].key] # None
      PROVE  coll'[mapping[req[r].key]].made = coll[mapping[req[r].key]].made
  <2>1. mapping[req[r].key] \in Collection
    BY <1>1, <1>4, Types
  <2> QED BY <1>2, <2>1, RowsKept DEF KeepsRow
<1> QED BY <1>1, <1>2, <1>3, <1>4 DEF MappingKept

\* A request past its lookup may still give its key away: nobody else inserts
\* while it holds the lock.
LEMMA KeyFreeStep ==
    ASSUME AdmissionTypeOK, RowInv, KeyInv, [AdmissionNext]_admissionVars, NEW r \in Request
    PROVE  KeyFree(r)'
<1>0. KeyFree(r) /\ {"consumer", "total", "insert"} \subseteq Statement
  BY DEF KeyInv, Statement
<1>1. CASE req'[r] = req[r]
  <2>1. CASE req[r].pc \in Statement
    BY <1>0, <1>1, <2>1, LockedMapping DEF KeyFree, Replaceable
  <2>2. CASE req[r].pc \notin Statement
    BY <1>0, <1>1, <2>2 DEF KeyFree
  <2> QED BY <2>1, <2>2
<1>2. CASE req'[r] = Idle
  BY <1>2 DEF Idle, KeyFree
<1>3. CASE Submit(r)
  <2>1. req'[r].pc = "lock" /\ req'[r].dropped = FALSE
    BY <1>3 DEF Submit, Idle, AdmissionTypeOK
  <2> QED BY <2>1 DEF KeyFree
<1>4. CASE Lock(r) /\ GoesOn(r) /\ req'[r].pc = "expire" /\ req'[r].dropped = req[r].dropped
  BY <1>0, <1>4 DEF Lock, KeyFree, Statement
<1>5. CASE Expire(r) /\ GoesOn(r) /\ req'[r].pc = "lookup" /\ req'[r].dropped = Expired(r)
  BY <1>5 DEF KeyFree, Replaceable, Expired, GoesOn, Statement
<1>6. CASE /\ Lookup(r) /\ GoesOn(r) /\ req'[r].dropped = req[r].dropped
           /\ req'[r].found = Named(r)
           /\ req'[r].pc = IF Named(r) = None THEN "consumer" ELSE "body"
  <2>1. CASE req[r].dropped
    <3>1. Replaceable(r) /\ req'[r].pc = "consumer"
      BY <1>0, <1>6, <2>1 DEF KeyFree, Named
    <3> QED BY <1>6, <2>1, <3>1 DEF KeyFree, Replaceable, GoesOn, Statement
  <2>2. CASE ~req[r].dropped
    BY <1>6, <2>2 DEF KeyFree, Replaceable, GoesOn, Named
  <2> QED BY <2>1, <2>2
<1>7. CASE /\ GoesOn(r) /\ req'[r].dropped = req[r].dropped
           /\ req[r].pc \in {"consumer", "total"} /\ req'[r].pc \in {"total", "insert"}
  BY <1>0, <1>7 DEF KeyFree, Replaceable, GoesOn
<1> QED BY <1>1, <1>2, <1>3, <1>4, <1>5, <1>6, <1>7, RequestMoves

\* Every step preserves the key invariant.
LEMMA KeyStep ==
    ASSUME KeysExpireFirst, AdmissionTypeOK, RowInv, KeyInv, [AdmissionNext]_admissionVars
    PROVE  KeyInv'
<1>1. \A k \in Key : MappingOK(k)'
  BY MappingStep DEF KeyInv
<1>2. \A c \in Created' : Reached(c)'
  BY ReachedStep
<1>3. \A r \in Request : InTime(r)'
  BY InTimeStep DEF KeyInv
<1>4. \A r \in Request : KeyFree(r)'
  BY KeyFreeStep
<1> QED BY <1>1, <1>2, <1>3, <1>4 DEF KeyInv

\* A collection that a request found within its window is not among those that
\* were closed a retention period ago: the request would have to be older than Lag.
LEMMA FoundSurvives ==
    ASSUME LookupsEndFirst, AdmissionTypeOK, RowInv, KeyInv, NEW r \in Request, req[r].pc # "idle",
           NEW c \in Stored, Young(r, c)
    PROVE  c \notin purge.rows
<1> SUFFICES ASSUME c \in purge.rows PROVE FALSE
  OBVIOUS
<1>1. /\ c \in Created /\ c \in Collection /\ coll[c].state = "closed"
      /\ Older(coll[c].done, Retention, purge.now) /\ purge.now <= clock
  BY DEF RowInv, PurgeOK, Created
<1>2. coll[c].made <= coll[c].done
  BY <1>1 DEF RowInv, RowOK
<1>3. clock <= req[r].made + Lag /\ req[r].made <= req[r].now
  BY DEF KeyInv, InTime
<1>4. /\ clock \in Nat /\ purge.now \in Nat /\ req[r].made \in Nat /\ req[r].now \in Nat
      /\ coll[c].made \in Nat /\ coll[c].done \in Nat
  BY <1>1, Types
<1> QED
  BY <1>1, <1>2, <1>3, <1>4, AdmissionAssumption DEF Young, Older, LookupsEndFirst

\* What a request found stays its answer until it has read it.
LEMMA AnswerableStep ==
    ASSUME LookupsEndFirst, AdmissionTypeOK, RowInv, KeyInv, LookupInv, [AdmissionNext]_admissionVars, NEW r \in Request
    PROVE  Answerable(r)'
<1>0. Answerable(r)
  BY DEF LookupInv
<1>1. CASE req'[r] = req[r] /\ req[r].pc = "lookup"
  <2>1. req[r].pc \in Statement
    BY <1>1 DEF Statement
  <2> QED BY <1>0, <1>1, <2>1, LockedMapping DEF Answerable, Young, Older
<1>2. CASE req'[r] = req[r] /\ req[r].pc = "body"
  <2> DEFINE c == req[r].found
  <2>1. /\ c \in Stored /\ coll[c].key = req[r].key /\ coll[c].body = req[r].body
        /\ Young(r, c)
    BY <1>0, <1>2 DEF Answerable
  <2>2. c \notin purge.rows /\ c \in Collection
    BY <1>2, <2>1, FoundSurvives DEF Stored
  <2>3. \A q \in Request : ~Insert(q)
    BY <1>2, LockedMapping DEF Statement
  <2>4. KeepsRow(c)
    BY <2>2, <2>3, RowsKept
  <2>5. req'[r].found = c
    BY <1>2
  <2> HIDE DEF c
  <2>6. c \in Stored'
    BY <2>1, <2>2, <2>4 DEF KeepsRow, Stored
  <2> QED BY <1>2, <2>1, <2>2, <2>4, <2>5, <2>6 DEF KeepsRow, Answerable, Young, Older
<1>3. CASE req'[r].pc \notin {"lookup", "body"}
  BY <1>3 DEF Answerable
<1>4. CASE Submit(r)
  BY <1>3, <1>4 DEF Submit, Idle, AdmissionTypeOK
<1>5. CASE Expire(r) /\ GoesOn(r) /\ req'[r].pc = "lookup" /\ req'[r].dropped = Expired(r)
  BY <1>5 DEF Answerable, Young, Expired, GoesOn
<1>6. CASE /\ Lookup(r) /\ GoesOn(r) /\ req'[r].found = Named(r)
           /\ req'[r].pc = IF Named(r) = None THEN "consumer" ELSE "body"
           /\ Named(r) # None => coll[Named(r)].body = req[r].body
  <2>1. CASE Named(r) = None
    BY <1>3, <1>6, <2>1
  <2>2. CASE Named(r) # None
    <3>1. req[r].pc = "lookup" /\ ~req[r].dropped /\ Named(r) = mapping[req[r].key]
      BY <1>6, <2>2 DEF Lookup, Named
    <3>2. req[r].key \in Key
      BY <3>1 DEF AdmissionTypeOK
    <3>3. Named(r) \in Stored /\ coll[Named(r)].key = req[r].key
      BY <2>2, <3>1, <3>2 DEF KeyInv, MappingOK
    <3>4. Young(r, Named(r))
      BY <1>0, <2>2, <3>1 DEF Answerable
    <3> HIDE DEF Named
    <3>5. req'[r].pc = "body"
      BY <1>6, <2>2
    <3> QED BY <1>6, <2>2, <3>3, <3>4, <3>5 DEF Answerable, Young, GoesOn, Stored
  <2> QED BY <2>1, <2>2
<1>7. CASE req'[r] = Idle
  BY <1>3, <1>7 DEF Idle
<1> QED BY <1>1, <1>2, <1>3, <1>4, <1>5, <1>6, <1>7, RequestMoves

(***************************************************************************)
(* Theorems.                                                               *)
(***************************************************************************)
\* The invariants hold before anything happened.
LEMMA Initially == AdmissionInit => RowInv /\ KeyInv /\ LookupInv
<1> SUFFICES ASSUME AdmissionInit PROVE RowInv /\ KeyInv /\ LookupInv
  OBVIOUS
<1>1. Created = {} /\ purge.keys = {} /\ purge.rows = {} /\ purge.now = 0 /\ clock = 0
  BY DEF AdmissionInit, Created, NoRow, NoPurge
<1>2. Numbered
  <2>1. 1..0 = {} /\ 0 \in 0..MaxCollections
    BY AdmissionAssumption
  <2> QED BY <1>1, <2>1 DEF Numbered
<1>3. RowInv
  BY <1>1, <1>2 DEF RowInv, PurgeOK
<1>4. \A r \in Request : InTime(r) /\ KeyFree(r) /\ Answerable(r)
  BY DEF AdmissionInit, Idle, InTime, KeyFree, Answerable
<1>5. \A k \in Key : MappingOK(k)
  BY DEF AdmissionInit, MappingOK
<1> QED BY <1>1, <1>3, <1>4, <1>5 DEF KeyInv, LookupInv

\* A key stands for one collection per idempotency window, whatever requests
\* are retried, lost or concurrent, and whatever retention deletes. It needs a
\* retention period that is not shorter than the window, which the configuration
\* does not ask for.
THEOREM OneCollectionPerKey == KeysExpireFirst => (AdmissionSpec => OneCollectionPerWindow)
<1> SUFFICES ASSUME KeysExpireFirst PROVE AdmissionSpec => OneCollectionPerWindow
  OBVIOUS
<1>1. AdmissionTypeOK /\ RowInv /\ KeyInv /\ [AdmissionNext]_admissionVars => RowInv' /\ KeyInv'
  BY RowStep, KeyStep DEF KeyInv
<1>2. ASSUME AdmissionTypeOK, RowInv, KeyInv, [AdmissionNext]_admissionVars,
             NEW c \in Created, NEW d \in Collection \ Created,
             coll'[d].state # "none", coll'[d].key = coll[c].key
      PROVE  Older(coll[c].made, Window, clock)
  <2>1. PICK r \in Request : Insert(r)
    BY <1>2, RowsKept DEF Created
  <2>2. /\ coll'[d].key = req[r].key /\ req[r].pc = "insert"
        /\ c \in Collection /\ coll[c].key \in Key
    <3>1. Created' = Created \cup {Cardinality(Created) + 1} /\ d \in Created'
      BY <1>2, <2>1, RowAdded DEF Created
    <3>2. d = Cardinality(Created) + 1
      BY <1>2, <3>1
    <3> QED BY <1>2, <2>1, <3>2, RowAdded DEF Created, RowInv, RowOK
  <2>3. Replaceable(r) /\ req[r].now <= clock /\ Reached(c)
    BY <1>2, <2>2 DEF KeyInv, KeyFree, InTime
  <2>4. /\ req[r].now \in Nat /\ coll[c].made \in Nat /\ clock \in Nat
        /\ None \notin Collection
    BY <1>2, <2>2, Types
  <2> QED
    BY <1>2, <2>2, <2>3, <2>4, AdmissionAssumption DEF Replaceable, Reached, Older
<1>3. AdmissionTypeOK /\ RowInv /\ KeyInv /\ [AdmissionNext]_admissionVars
        => [\A c \in Created, d \in Collection \ Created :
              coll'[d].state # "none" /\ coll'[d].key = coll[c].key
                => Older(coll[c].made, Window, clock)]_admissionVars
  BY <1>2
<1> QED BY <1>1, <1>3, Initially, TypeCorrect, PTL DEF AdmissionSpec, OneCollectionPerWindow

\* The collection that a lookup found is still there, and of the same key and
\* request, when its body is read by the second statement, provided a request
\* cannot last from within the window to the end of the retention period.
THEOREM LookupsAreAnswered == LookupsEndFirst => (AdmissionSpec => []AnswersOwnRequest)
<1> SUFFICES ASSUME LookupsEndFirst PROVE AdmissionSpec => []AnswersOwnRequest
  OBVIOUS
<1>1. KeysExpireFirst
  BY AdmissionAssumption DEF LookupsEndFirst, KeysExpireFirst
<1>2. AdmissionTypeOK /\ RowInv /\ KeyInv /\ LookupInv /\ [AdmissionNext]_admissionVars
        => RowInv' /\ KeyInv' /\ LookupInv'
  <2> SUFFICES ASSUME AdmissionTypeOK, RowInv, KeyInv, LookupInv, [AdmissionNext]_admissionVars
               PROVE  RowInv' /\ KeyInv' /\ LookupInv'
    OBVIOUS
  <2>1. RowInv' /\ KeyInv'
    BY <1>1, RowStep, KeyStep DEF KeyInv
  <2>2. \A r \in Request : Answerable(r)'
    BY AnswerableStep
  <2> QED BY <2>1, <2>2 DEF LookupInv
<1>3. LookupInv => AnswersOwnRequest
  BY DEF LookupInv, Answerable, AnswersOwnRequest
<1> QED BY <1>2, <1>3, Initially, TypeCorrect, PTL DEF AdmissionSpec

\* Retention deletes only what was closed when it looked, and a closed
\* collection does not open again: no work is lost, whatever the periods are.
THEOREM NoWorkDeleted == AdmissionSpec => WorkIsNotDeleted
<1> DEFINE Inv == /\ RowInv
                  /\ \A k \in Key : MappingOK(k)
                  /\ \A r \in Request : InTime(r)
<1>1. AdmissionInit => Inv
  BY Initially DEF KeyInv
<1>2. AdmissionTypeOK /\ Inv /\ [AdmissionNext]_admissionVars => Inv'
  <2> SUFFICES ASSUME AdmissionTypeOK, Inv, [AdmissionNext]_admissionVars PROVE Inv'
    OBVIOUS
  <2>1. RowInv'
    BY RowStep
  <2>2. (\A k \in Key : MappingOK(k)') /\ (\A r \in Request : InTime(r)')
    BY MappingStep, InTimeStep
  <2> QED BY <2>1, <2>2
<1>3. ASSUME AdmissionTypeOK, Inv, [AdmissionNext]_admissionVars, NEW c \in Collection, coll[c].state = "active"
      PROVE  coll'[c].state # "deleted"
  <2>1. CASE \A r \in Request : ~Insert(r)
    <3>1. KeepsRow(c)
      BY <1>3, <2>1, RowsKept
    <3> QED BY <1>3, <3>1 DEF KeepsRow, RowInv, PurgeOK
  <2>2. CASE \E r \in Request : Insert(r)
    <3>1. PICK r \in Request : Insert(r)
      BY <2>2
    <3>2. /\ c # Cardinality(Created) + 1
          /\ \A b \in Collection \ {Cardinality(Created) + 1} : coll'[b] = coll[b]
      <4>1. c \in Created
        BY <1>3 DEF Created
      <4> QED BY <1>3, <3>1, <4>1, RowAdded
    <3> QED BY <1>3, <3>2
  <2> QED BY <2>1, <2>2
<1>4. AdmissionTypeOK /\ Inv /\ [AdmissionNext]_admissionVars
        => [\A c \in Collection : coll[c].state = "active" => coll'[c].state # "deleted"]_admissionVars
  BY <1>3
<1> HIDE DEF Inv
<1> QED BY <1>1, <1>2, <1>4, TypeCorrect, PTL DEF AdmissionSpec, WorkIsNotDeleted
===============================================================================
