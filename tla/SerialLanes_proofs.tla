--------------------------- MODULE SerialLanes_proofs ---------------------------
(***************************************************************************)
(* Theorems about SerialLanes, for any number of families and maps, any    *)
(* tasks, any budgets and any number of attempts that end early.           *)
(***************************************************************************)
EXTENDS SerialLanes, FiniteSetTheorems, TLAPS

(***************************************************************************)
(* The invariant.                                                          *)
(***************************************************************************)
Used(r) == Cardinality(r.visited)

\* The flags of a record and the tags in its queue tell one and the same place
\* in the sequence of lanes.
Serial(r) ==
    /\ \A l \in r.attempted : \A k \in Lane : k < l => k \in r.complete
    /\ r.complete \subseteq r.attempted
    /\ r.attempted # {} => "streets" \in r.done
    /\ \A e \in r.pending : e[1] \in Lane => e[1] \in r.attempted \ r.complete
    /\ r.optional => r.complete = Lane
    /\ "families" \in r.done => LanesOf("families") \subseteq r.complete
    /\ "maps" \in r.done => LanesOf("maps") \subseteq r.complete

\* No more pages than the ceilings allow.
Ceiling(r) ==
    /\ Used(r) <= Emergency
    /\ r.visited # {} \/ r.optional => Used(r) <= r.pages /\ r.pages <= Emergency

\* After c early ends, n pages are left for every lane that is not complete
\* beyond one for each that comes later.
Spare(r, n, c) == \A l \in Lane \ r.complete : Used(r) + (Lanes - l) + n <= Emergency + c

\* A page is left for every lane that was not opened, and for the street inventory.
Reserve(r, c) ==
    /\ \A l \in Lane \ r.attempted : Used(r) + (Lanes - l) + 1 <= Emergency + c
    /\ "streets" \notin r.done /\ <<Nil, Street>> \in r.pending
         => Used(r) + Lanes + 1 <= Emergency + c

RecordOK(r, c) ==
    /\ r \in LaneRecord
    /\ Serial(r)
    /\ Ceiling(r)
    /\ Spare(r, 0, c)
    /\ Reserve(r, c)

\* Between two lanes: a lane that is not complete has its page, or it is worked off.
Between(r, c) ==
    \A l \in Lane \ r.complete :
        \/ Used(r) + (Lanes - l) + 1 <= Emergency + c
        \/ l \in r.attempted /\ Queue(r, l) = {}

\* Lane l is the one that is worked off.
InLane(r, l) ==
    \/ /\ l = Streets
       /\ "streets" \notin r.done
       /\ <<Nil, Street>> \notin r.pending
    \/ l \in r.attempted \ r.complete

\* What holds of the record r where the attempt is, in lane l with budget b and
\* task t, after c early ends.
Place(p, r, l, b, t, c) ==
    /\ p # "idle" /\ ~r.optional => r.pages = Emergency
    /\ p = "streets" => Spare(r, 1, c)
    /\ p = "lanes" => "streets" \in r.done /\ Between(r, c)
    /\ p \in {"enter", "work", "fetch"} => ~r.optional /\ InLane(r, l)
    /\ p = "enter" => Used(r) + (Lanes - l) + 1 <= Emergency + c
    /\ p \in {"work", "fetch"} => Used(r) + b + (Lanes - l) <= Emergency + c
    /\ p = "fetch" => b > 0 /\ FreePages(r) > 0 /\ t \notin r.visited
    /\ p = "optional" => r.optional

\* What no step may take back: ordinary tasks before the optional budget is
\* open, and its limit afterwards.
Keeps(r, q) ==
    /\ ~r.optional => \A t \in LaneTask \ {Street} :
                          <<Nil, t>> \in r.pending => <<Nil, t>> \in q.pending
    /\ r.optional => q.optional /\ q.pages = r.pages

LaneInv ==
    /\ RecordOK(row, crashes)
    /\ RecordOK(copy, crashes)
    /\ Place(place, copy, lane, budget, fetching, crashes)
    /\ place = "idle" /\ row.status = "open" => Spare(row, 1, crashes)
    /\ place # "idle" /\ row.status # "cancelled"
         => Keeps(row, copy) /\ (copy.optional => row.optional)

\* What every step is shown to do.
Safe == LanesTypeOK' /\ LaneInv' /\ Keeps(row, row')

(***************************************************************************)
(* Records.                                                                *)
(***************************************************************************)
\* The numbers of lanes.
LEMMA LaneNumbers == Lanes \in Nat /\ Lanes >= 1 /\ Lane = 1..Lanes /\ Streets = 0
                     /\ Streets \notin Lane /\ Nil \notin Lane /\ Nil # Streets
BY SerialLanesAssumption DEF Lanes, Lane, Streets

\* The pages of a record are counted.
LEMMA UsedType ==
    ASSUME NEW r \in LaneRecord
    PROVE  IsFiniteSet(r.visited) /\ Used(r) \in Nat
<1>1. r.visited \subseteq LaneTask
  BY DEF LaneRecord
<1> QED BY <1>1, SerialLanesAssumption, FS_Subset, FS_CardinalityType DEF Used

\* A task that was not visited is one page more.
LEMMA OneMorePage ==
    ASSUME NEW r \in LaneRecord, NEW t, t \notin r.visited, NEW q, q.visited = r.visited \cup {t}
    PROVE  Used(q) = Used(r) + 1
BY UsedType, FS_AddElement DEF Used

\* The pages that are left.
LEMMA FreePagesType ==
    ASSUME NEW r \in LaneRecord
    PROVE  /\ FreePages(r) \in Nat
           /\ FreePages(r) > 0 => Used(r) + FreePages(r) = r.pages
BY UsedType DEF FreePages, Used, LaneRecord

\* A new record is in order, before as after any early end.
LEMMA NewRecordOK ==
    ASSUME NEW seeds \in SUBSET LaneTask, NEW c \in Nat
    PROVE  RecordOK(NewLaneRecord(seeds), c) /\ Spare(NewLaneRecord(seeds), 1, c)
<1> DEFINE r == NewLaneRecord(seeds)
<1>1. /\ r.status = "open" /\ r.done = {} /\ r.attempted = {} /\ r.complete = {} /\ ~r.optional
      /\ r.pages = Requested /\ r.started = FALSE /\ r.pending = {Nil} \X seeds /\ r.visited = {}
  BY DEF NewLaneRecord
<1>2. r \in LaneRecord
  BY SerialLanesAssumption DEF NewLaneRecord, LaneRecord, Entry
<1>3. Used(r) = 0
  BY <1>1, FS_EmptySet DEF Used
<1> HIDE DEF r
<1>4. Serial(r)
  BY <1>1, LaneNumbers DEF Serial
<1>5. Ceiling(r)
  BY <1>1, <1>3, SerialLanesAssumption DEF Ceiling
<1>6. Spare(r, 0, c) /\ Spare(r, 1, c) /\ Reserve(r, c)
  BY <1>1, <1>3, LaneNumbers, SerialLanesAssumption DEF Spare, Reserve
<1> QED BY <1>2, <1>4, <1>5, <1>6 DEF RecordOK, r

\* An early end allows one page more: what is in order stays so, and every lane
\* that is not complete has a page again.
LEMMA OneMoreCrash ==
    ASSUME NEW r, NEW c \in Nat, RecordOK(r, c)
    PROVE  RecordOK(r, c + 1) /\ Spare(r, 1, c + 1)
<1>1. r \in LaneRecord /\ Used(r) \in Nat
  BY UsedType DEF RecordOK
<1>2. Spare(r, 0, c + 1) /\ Spare(r, 1, c + 1)
  BY SMTT(30), <1>1, LaneNumbers, SerialLanesAssumption DEF RecordOK, Spare
<1>3. Reserve(r, c + 1)
  BY <1>1, LaneNumbers, SerialLanesAssumption DEF RecordOK, Reserve
<1> QED BY <1>2, <1>3 DEF RecordOK

\* The queue of a record may change as long as tags of lanes are those of the
\* lane that is worked off, and the street inventory is not queued again.
LEMMA QueueChange ==
    ASSUME NEW c \in Nat, NEW r, RecordOK(r, c), NEW q \in LaneRecord,
           q.done = r.done, q.attempted = r.attempted, q.complete = r.complete,
           q.optional = r.optional, q.pages = r.pages, q.visited = r.visited,
           \A e \in q.pending : \/ e \in r.pending
                                \/ /\ e # <<Nil, Street>>
                                   /\ e[1] \in Lane => e[1] \in r.attempted \ r.complete
    PROVE  RecordOK(q, c)
<1>1. Serial(q)
  BY DEF RecordOK, Serial
<1>2. Used(q) = Used(r)
  BY DEF Used
<1>3. Ceiling(q)
  BY <1>2 DEF RecordOK, Ceiling
<1>4. Spare(q, 0, c)
  BY <1>2 DEF RecordOK, Spare
<1>5. Reserve(q, c)
  BY <1>2 DEF RecordOK, Reserve
<1> QED BY <1>1, <1>3, <1>4, <1>5 DEF RecordOK

\* A page of a lane comes out of the budget of the lane.
LEMMA LanePage ==
    ASSUME NEW c \in Nat, NEW r, RecordOK(r, c), NEW l \in Lane \cup {Streets}, NEW b \in Nat,
           NEW t \in LaneTask, Place("fetch", r, l, b, t, c),
           NEW q \in LaneRecord, q.visited = r.visited \cup {t},
           q.done = r.done, q.attempted = r.attempted, q.complete = r.complete,
           q.optional = r.optional, q.pages = r.pages, q.pending = r.pending
    PROVE  /\ RecordOK(q, c)
           /\ Place("work", q, l, b - 1, Nil, c)
<1>1. r \in LaneRecord /\ Used(r) \in Nat /\ Used(q) = Used(r) + 1 /\ r.pages \in Nat
  BY UsedType, OneMorePage DEF RecordOK, Place, LaneRecord
<1>2. /\ b > 0 /\ FreePages(r) > 0 /\ ~r.optional /\ r.pages = Emergency /\ InLane(r, l)
      /\ Used(r) + b + (Lanes - l) <= Emergency + c
  BY DEF Place
<1>3. Used(q) <= Emergency
  BY <1>1, <1>2, FreePagesType
<1>4. Used(q) + (b - 1) + (Lanes - l) <= Emergency + c
  BY <1>1, <1>2, LaneNumbers, SerialLanesAssumption
<1>5. Used(q) + (Lanes - l) <= Emergency + c
  BY <1>1, <1>2, <1>4, LaneNumbers, SerialLanesAssumption
<1>6. Serial(q)
  BY DEF RecordOK, Serial
<1>7. Ceiling(q)
  BY <1>2, <1>3, SerialLanesAssumption DEF Ceiling
<1>8. \A k \in Lane \ r.complete : k >= l
  <2> SUFFICES ASSUME NEW k \in Lane \ r.complete PROVE k >= l
    OBVIOUS
  <2>1. CASE l = Streets
    BY <2>1, LaneNumbers
  <2>2. CASE l \in r.attempted
    BY <2>2, <1>1, LaneNumbers DEF RecordOK, Serial, LaneRecord
  <2> QED BY <1>2, <2>1, <2>2 DEF InLane
<1>9. Spare(q, 0, c)
  <2>1. SUFFICES ASSUME NEW k \in Lane \ r.complete
                 PROVE  Used(q) + (Lanes - k) + 0 <= Emergency + c
    BY DEF Spare
  <2>2. k >= l /\ k \in Nat /\ l \in Nat /\ Lanes \in Nat /\ Used(q) \in Nat
    BY <1>1, <1>8, LaneNumbers
  <2> QED BY <1>5, <2>2, SerialLanesAssumption
<1>10. \A k \in Lane \ r.attempted : k > l
  <2> SUFFICES ASSUME NEW k \in Lane \ r.attempted PROVE k > l
    OBVIOUS
  <2>1. k \notin r.complete
    BY DEF RecordOK, Serial
  <2>2. k # l
    BY <1>2, LaneNumbers DEF InLane
  <2> QED BY <1>8, <2>1, <2>2, LaneNumbers
<1>11. \A k \in Lane \ r.attempted : Used(q) + (Lanes - k) + 1 <= Emergency + c
  BY <1>1, <1>5, <1>10, LaneNumbers, SerialLanesAssumption
<1>12. "streets" \in r.done \/ <<Nil, Street>> \notin r.pending
  BY <1>2 DEF InLane, RecordOK, Serial
<1>13. Reserve(q, c)
  BY <1>11, <1>12 DEF Reserve
<1>14. InLane(q, l)
  BY <1>2 DEF InLane
<1> QED BY <1>2, <1>4, <1>6, <1>7, <1>9, <1>13, <1>14 DEF RecordOK, Place

(***************************************************************************)
(* The ways an attempt goes on.                                            *)
(***************************************************************************)
\* Keeping goes from step to step.
LEMMA KeepsOn ==
    ASSUME NEW r, NEW q, NEW p, Keeps(r, q), Keeps(q, p), q.optional => r.optional
    PROVE  Keeps(r, p)
BY DEF Keeps

\* The invariant lets an early end come and go.
LEMMA CrashCounted ==
    ASSUME LanesTypeOK, LaneInv, crashes' \in {crashes, crashes + 1}
    PROVE  RecordOK(row, crashes') /\ RecordOK(NewLaneRecord({}), crashes')
<1>1. crashes \in Nat /\ crashes' \in Nat
  BY SerialLanesAssumption DEF LanesTypeOK
<1>2. RecordOK(row, crashes')
  BY <1>1, OneMoreCrash DEF LaneInv
<1> QED BY <1>1, <1>2, NewRecordOK

\* The attempt ends, and the row, if it is open, has a page for every lane.
LEMMA EndStep ==
    ASSUME LanesTypeOK, LaneInv, End, NEW r \in LaneRecord, row' = r, RecordOK(r, crashes'),
           r.status = "open" => Spare(r, 1, crashes'), Keeps(row, r),
           crashes' \in 0..MaxCrashes, expired' \in BOOLEAN
    PROVE  Safe
<1>1. crashes' \in Nat
  BY SerialLanesAssumption
<1>2. RecordOK(NewLaneRecord({}), crashes') /\ NewLaneRecord({}) \in LaneRecord
  BY <1>1, NewRecordOK DEF RecordOK
<1>3. LanesTypeOK'
  BY <1>2, LaneNumbers DEF LanesTypeOK, End
<1>4. Place("idle", NewLaneRecord({}), Nil, 0, Nil, crashes')
  BY DEF Place
<1>5. LaneInv'
  BY <1>2, <1>4 DEF LaneInv, End
<1> QED BY <1>3, <1>5 DEF Safe

\* The attempt finds a cancelled row and ends.
LEMMA CancelledStep ==
    ASSUME LanesTypeOK, LaneInv, End, row.status = "cancelled", UNCHANGED <<row, crashes>>,
           expired' \in BOOLEAN
    PROVE  Safe
<1>1. row \in LaneRecord /\ crashes' \in 0..MaxCrashes
  BY DEF LanesTypeOK
<1>2. RecordOK(row, crashes') /\ Keeps(row, row)
  BY DEF LaneInv, Keeps
<1>3. PICK r \in LaneRecord : r = row
  BY <1>1
<1> QED BY <1>1, <1>2, <1>3, EndStep

\* The attempt goes on with the record r in its memory, and the row is q.
LEMMA OnStep ==
    ASSUME LanesTypeOK, LaneInv, NEW q \in LaneRecord, NEW r, NEW next, NEW l \in Lane \cup {Streets, Nil},
           NEW b \in Nat, NEW t \in LaneTask \cup {Nil},
           row' = q, place' = next, copy' = r, lane' = l, budget' = b, fetching' = t,
           next \in {"streets", "enter", "lanes", "work", "fetch", "optional"},
           next \in {"enter", "work", "fetch"} <=> l # Nil,
           next = "fetch" <=> t # Nil,
           RecordOK(q, crashes), RecordOK(r, crashes), Place(next, r, l, b, t, crashes),
           Keeps(row, q),
           q.status # "cancelled" => Keeps(q, r) /\ (r.optional => q.optional),
           UNCHANGED crashes, expired' \in BOOLEAN
    PROVE  Safe
<1>1. LanesTypeOK'
  BY DEF LanesTypeOK, RecordOK
<1>2. LaneInv'
  BY DEF LaneInv
<1> QED BY <1>1, <1>2 DEF Safe

\* A record is stored and the attempt goes on or ends, unless the row is cancelled.
LEMMA StoreStep ==
    ASSUME LanesTypeOK, LaneInv, NEW r, NEW next, NEW l \in Lane \cup {Streets, Nil}, NEW b \in Nat,
           Store(r, next, l, b),
           next \in {"idle", "streets", "lanes", "work", "optional"},
           next = "work" <=> l # Nil,
           row.status # "cancelled" =>
               /\ RecordOK(r, crashes)
               /\ Place(next, r, l, b, Nil, crashes)
               /\ Keeps(row, r)
               /\ next = "idle" => r.status # "open",
           UNCHANGED crashes, expired' \in BOOLEAN
    PROVE  Safe
<1>1. CASE row.status = "cancelled"
  BY <1>1, CancelledStep DEF Store
<1>2. CASE row.status # "cancelled" /\ next = "idle"
  <2>1. r \in LaneRecord /\ crashes' \in 0..MaxCrashes
    BY <1>2 DEF RecordOK, LanesTypeOK
  <2> QED BY <1>2, <2>1, EndStep DEF Store
<1>3. CASE row.status # "cancelled" /\ next # "idle"
  <2>1. r \in LaneRecord /\ Keeps(r, r)
    BY <1>3 DEF RecordOK, Keeps
  <2>2. row' = r /\ GoOn(r, next, l, b)
    BY <1>3 DEF Store
  <2> QED BY <1>3, <2>1, <2>2, OnStep DEF GoOn
<1> QED BY <1>1, <1>2, <1>3

\* The attempt goes on with another record in its memory, and stores nothing.
LEMMA MemStep ==
    ASSUME LanesTypeOK, LaneInv, place # "idle",
           NEW r, NEW next, NEW l \in Lane \cup {Streets, Nil},
           NEW b \in Nat, NEW t \in LaneTask \cup {Nil},
           place' = next, copy' = r, lane' = l, budget' = b, fetching' = t,
           next \in {"streets", "enter", "lanes", "work", "fetch", "optional"},
           next \in {"enter", "work", "fetch"} <=> l # Nil,
           next = "fetch" <=> t # Nil,
           RecordOK(r, crashes), Place(next, r, l, b, t, crashes),
           Keeps(copy, r), r.optional = copy.optional,
           UNCHANGED <<row, expired, crashes>>
    PROVE  Safe
<1>1. PICK q \in LaneRecord : q = row
  BY DEF LanesTypeOK
<1>2. RecordOK(q, crashes) /\ Keeps(row, q) /\ expired' \in BOOLEAN
  BY <1>1 DEF LaneInv, Keeps, LanesTypeOK
<1>3. q.status # "cancelled" => Keeps(q, r) /\ (r.optional => q.optional)
  BY <1>1, KeepsOn DEF LaneInv
<1> QED BY <1>1, <1>2, <1>3, OnStep

(***************************************************************************)
(* The steps, in the order of the specification.                           *)
(***************************************************************************)
\* The copy of an attempt is in order, and what it keeps the row keeps.
LEMMA CopyOK ==
    ASSUME LanesTypeOK, LaneInv, place # "idle"
    PROVE  /\ copy \in LaneRecord /\ RecordOK(copy, crashes) /\ Used(copy) \in Nat /\ crashes \in Nat
           /\ \A r : row.status # "cancelled" /\ Keeps(copy, r) => Keeps(row, r)
           /\ ~copy.optional => copy.pages = Emergency
<1>1. /\ copy \in LaneRecord /\ RecordOK(copy, crashes) /\ Used(copy) \in Nat /\ crashes \in Nat
      /\ ~copy.optional => copy.pages = Emergency
  BY UsedType, SerialLanesAssumption DEF LanesTypeOK, LaneInv, Place
<1>2. \A r : row.status # "cancelled" /\ Keeps(copy, r) => Keeps(row, r)
  BY KeepsOn DEF LaneInv
<1> QED BY <1>1, <1>2

\* A recovered attempt takes the row as it is, with the limits of its phase.
LEMMA BeginStep == LanesTypeOK /\ LaneInv /\ Begin => Safe
<1> SUFFICES ASSUME LanesTypeOK, LaneInv, Begin PROVE Safe
  OBVIOUS
<1> DEFINE q == [row EXCEPT !.pages = IF row.optional THEN @ ELSE Emergency]
<1>1. /\ q \in LaneRecord /\ q.done = row.done /\ q.attempted = row.attempted
      /\ q.complete = row.complete /\ q.optional = row.optional /\ q.visited = row.visited
      /\ q.pending = row.pending /\ q.pages = IF row.optional THEN row.pages ELSE Emergency
  BY SerialLanesAssumption DEF LanesTypeOK, LaneRecord
<1>2. Store(q, "streets", Nil, 0) /\ row.status = "open" /\ place = "idle"
  BY DEF Begin
<1> HIDE DEF q
<1>3. Used(q) = Used(row) /\ RecordOK(row, crashes) /\ Spare(row, 1, crashes)
  BY <1>1, <1>2 DEF Used, LaneInv
<1>4. Serial(q) /\ Spare(q, 0, crashes) /\ Reserve(q, crashes) /\ Spare(q, 1, crashes)
  BY <1>1, <1>3 DEF RecordOK, Serial, Spare, Reserve
<1>5. Ceiling(q)
  BY <1>1, <1>3, SerialLanesAssumption DEF RecordOK, Ceiling
<1>6. RecordOK(q, crashes) /\ Place("streets", q, Nil, 0, Nil, crashes)
  BY <1>1, <1>4, <1>5 DEF RecordOK, Place
<1>7. Keeps(row, q)
  BY <1>1 DEF Keeps
<1>8. UNCHANGED crashes /\ expired' \in BOOLEAN
  BY DEF Begin, LanesTypeOK
<1> QED BY <1>2, <1>6, <1>7, <1>8, StoreStep

\* The street inventory leaves the common queue; no ordinary task goes with it.
LEMMA TakeStreetsStep == LanesTypeOK /\ LaneInv /\ TakeStreets => Safe
<1> SUFFICES ASSUME LanesTypeOK, LaneInv, TakeStreets PROVE Safe
  OBVIOUS
<1> DEFINE q == [copy EXCEPT !.pending = (@ \ {<<Nil, Street>>}) \cup {<<Streets, Street>>}]
<1>1. /\ place = "streets" /\ "streets" \notin copy.done /\ <<Nil, Street>> \in copy.pending
      /\ GoOn(q, "enter", Streets, 0) /\ UNCHANGED <<row, expired, crashes>>
  BY DEF TakeStreets
<1>2. /\ q \in LaneRecord /\ q.done = copy.done /\ q.attempted = copy.attempted
      /\ q.complete = copy.complete /\ q.optional = copy.optional /\ q.visited = copy.visited
      /\ q.pages = copy.pages
      /\ q.pending = (copy.pending \ {<<Nil, Street>>}) \cup {<<Streets, Street>>}
  BY CopyOK, <1>1, SerialLanesAssumption DEF LaneRecord, Entry
<1> HIDE DEF q
<1>3. RecordOK(q, crashes)
  BY <1>1, <1>2, CopyOK, QueueChange, LaneNumbers
<1>4. <<Nil, Street>> \notin q.pending
  BY <1>2, LaneNumbers
<1>5. ~q.optional /\ Used(q) + (Lanes - Streets) + 1 <= Emergency + crashes
  <2>1. copy.attempted = {} /\ ~copy.optional
    <3>1. Serial(copy) /\ 1 \in Lane
      BY <1>1, CopyOK, LaneNumbers DEF RecordOK
    <3>2. copy.attempted = {} /\ copy.complete = {}
      BY <1>1, <3>1 DEF Serial
    <3> QED BY <3>1, <3>2 DEF Serial
  <2>2. Used(copy) + Lanes + 1 <= Emergency + crashes
    BY <1>1, CopyOK DEF RecordOK, Reserve
  <2> QED BY <1>1, <1>2, <2>1, <2>2, CopyOK, LaneNumbers DEF Used
<1>6. Place("enter", q, Streets, 0, Nil, crashes)
  BY <1>1, <1>2, <1>4, <1>5, CopyOK DEF Place, InLane
<1>7. Keeps(copy, q)
  BY <1>2 DEF Keeps
<1> QED BY <1>1, <1>2, <1>3, <1>6, <1>7, LaneNumbers, MemStep DEF GoOn

\* With the inventory over, the lanes have their pages.
LEMMA StreetsDoneStep == LanesTypeOK /\ LaneInv /\ StreetsDone => Safe
<1> SUFFICES ASSUME LanesTypeOK, LaneInv, StreetsDone PROVE Safe
  OBVIOUS
<1>1. place = "streets" /\ UNCHANGED <<expired, crashes>> /\ Spare(copy, 1, crashes)
  BY DEF StreetsDone, LaneInv, Place
<1>2. Between(copy, crashes)
  BY <1>1 DEF Spare, Between
<1>3. CASE "streets" \in copy.done /\ GoOn(copy, "lanes", Nil, 0) /\ UNCHANGED row
  <2>1. Place("lanes", copy, Nil, 0, Nil, crashes) /\ Keeps(copy, copy)
    BY <1>1, <1>2, <1>3, CopyOK DEF Place, Keeps
  <2> QED BY <1>1, <1>3, <2>1, CopyOK, MemStep DEF GoOn
<1>4. CASE Store([copy EXCEPT !.done = @ \cup {"streets"}], "lanes", Nil, 0)
  <2> DEFINE q == [copy EXCEPT !.done = @ \cup {"streets"}]
  <2>1. /\ q \in LaneRecord /\ q.done = copy.done \cup {"streets"} /\ q.attempted = copy.attempted
        /\ q.complete = copy.complete /\ q.optional = copy.optional /\ q.visited = copy.visited
        /\ q.pages = copy.pages /\ q.pending = copy.pending
    BY CopyOK, <1>1 DEF LaneRecord, Section
  <2> HIDE DEF q
  <2>2. Used(q) = Used(copy) /\ Queue(q, 0) = Queue(copy, 0)
    BY <2>1 DEF Used, Queue
  <2>3. RecordOK(q, crashes)
    BY <1>1, <2>1, <2>2, CopyOK DEF RecordOK, Serial, Ceiling, Spare, Reserve
  <2>4. Between(q, crashes)
    BY <1>1, <2>1, <2>2 DEF Between, Spare
  <2>5. Place("lanes", q, Nil, 0, Nil, crashes)
    BY <1>1, <2>1, <2>4, CopyOK DEF Place
  <2>6. Keeps(copy, q)
    BY <2>1 DEF Keeps
  <2>7. Store(q, "lanes", Nil, 0)
    BY <1>4 DEF q
  <2> QED BY <1>1, <2>3, <2>5, <2>6, <2>7, CopyOK, StoreStep DEF LanesTypeOK
<1> QED BY <1>3, <1>4 DEF StreetsDone

\* A lane whose turn it is follows upon complete lanes only, in whatever section.
LEMMA TurnFollows ==
    ASSUME NEW r \in LaneRecord, Serial(r), NEW l \in Lane, Turn(r, l)
    PROVE  l \notin r.complete /\ ~r.optional /\ \A k \in Lane : k < l => k \in r.complete
<1>1. l \notin r.complete /\ l \in LanesOf(CurrentSection(r))
  BY DEF Turn
<1>2. ~r.optional
  BY <1>1 DEF Serial
<1>3. \A k \in Lane : k < l => k \in r.complete
  <2> SUFFICES ASSUME NEW k \in Lane, k < l PROVE k \in r.complete
    OBVIOUS
  <2>1. CASE k \in LanesOf(CurrentSection(r))
    BY <2>1 DEF Turn
  <2>2. CASE k \notin LanesOf(CurrentSection(r)) /\ "families" \in r.done
    <3>1. k \in LanesOf("families")
      BY <2>2 DEF LanesOf, CurrentSection
    <3> QED BY <2>2, <3>1 DEF Serial
  <2>3. CASE k \notin LanesOf(CurrentSection(r)) /\ "families" \notin r.done
    BY <1>1, <2>3, LaneNumbers, SerialLanesAssumption DEF LanesOf, CurrentSection
  <2> QED BY <2>1, <2>2, <2>3
<1> QED BY <1>1, <1>2, <1>3

\* A lane is opened in its turn, with tasks of its own tag.
LEMMA OpenLaneStep == LanesTypeOK /\ LaneInv /\ OpenLane => Safe
<1> SUFFICES ASSUME LanesTypeOK, LaneInv, OpenLane PROVE Safe
  OBVIOUS
<1>1. PICK l \in Lane : /\ Turn(copy, l) /\ l \notin copy.attempted
                        /\ \E found \in SUBSET Found[l] :
                              Store([copy EXCEPT !.attempted = @ \cup {l},
                                                 !.pending = Untagged(copy, l) \cup ({l} \X found)],
                                    "lanes", Nil, 0)
  BY DEF OpenLane
<1>2. PICK found \in SUBSET Found[l] :
              Store([copy EXCEPT !.attempted = @ \cup {l},
                                 !.pending = Untagged(copy, l) \cup ({l} \X found)],
                    "lanes", Nil, 0)
  BY <1>1
<1>3. place = "lanes" /\ UNCHANGED <<expired, crashes>> /\ "streets" \in copy.done /\ Between(copy, crashes)
  BY DEF OpenLane, LaneInv, Place
<1> DEFINE q == [copy EXCEPT !.attempted = @ \cup {l},
                             !.pending = Untagged(copy, l) \cup ({l} \X found)]
<1>4. found \subseteq LaneTask /\ Street \notin found
  BY SerialLanesAssumption
<1>5. /\ q \in LaneRecord /\ q.done = copy.done /\ q.attempted = copy.attempted \cup {l}
      /\ q.complete = copy.complete /\ q.optional = copy.optional /\ q.visited = copy.visited
      /\ q.pages = copy.pages /\ q.pending = Untagged(copy, l) \cup ({l} \X found)
  <2>1. Untagged(copy, l) \cup ({l} \X found) \in SUBSET Entry
    BY <1>3, <1>4, CopyOK DEF LaneRecord, Entry, Untagged
  <2>2. copy \in LaneRecord /\ copy.attempted \cup {l} \in SUBSET Lane
    BY <1>3, CopyOK DEF LaneRecord
  <2> QED BY <2>1, <2>2 DEF LaneRecord
<1>6. Store(q, "lanes", Nil, 0)
  BY <1>2
<1> HIDE DEF q
<1>7. RecordOK(copy, crashes) /\ copy \in LaneRecord
  BY <1>3, CopyOK
<1>8. l \notin copy.complete /\ ~copy.optional /\ \A k \in Lane : k < l => k \in copy.complete
  BY <1>1, <1>7, TurnFollows DEF RecordOK
<1>9. Used(q) = Used(copy)
  BY <1>5 DEF Used
<1>10. \A e \in q.pending : (e \in copy.pending /\ e[1] # l) \/ (e[1] = l /\ e # <<Nil, Street>>)
  BY <1>4, <1>5, LaneNumbers DEF Untagged
<1>11. Serial(q)
  BY <1>3, <1>5, <1>7, <1>8, <1>10 DEF RecordOK, Serial
<1>12. Ceiling(q) /\ Spare(q, 0, crashes)
  BY <1>5, <1>7, <1>9 DEF RecordOK, Ceiling, Spare
<1>13. Reserve(q, crashes)
  BY <1>3, <1>5, <1>7, <1>9 DEF RecordOK, Reserve
<1>14. Between(q, crashes)
  <2> SUFFICES ASSUME NEW k \in Lane \ copy.complete,
                      ~(Used(copy) + (Lanes - k) + 1 <= Emergency + crashes)
               PROVE  k \in q.attempted /\ Queue(q, k) = {}
    BY <1>5, <1>9 DEF Between
  <2>1. k \in copy.attempted /\ Queue(copy, k) = {}
    BY <1>3 DEF Between
  <2>2. k # l
    BY <1>1, <2>1
  <2> QED BY <1>5, <1>10, <2>1, <2>2 DEF Queue
<1>15. RecordOK(q, crashes) /\ Place("lanes", q, Nil, 0, Nil, crashes)
  BY <1>3, <1>5, <1>11, <1>12, <1>13, <1>14, CopyOK DEF RecordOK, Place
<1>16. Keeps(copy, q)
  BY <1>5, <1>8, LaneNumbers DEF Keeps, Untagged
<1> QED BY <1>3, <1>6, <1>15, <1>16, CopyOK, StoreStep DEF LanesTypeOK

\* A lane with tasks is entered: it still has its page.
LEMMA TakeLaneStep == LanesTypeOK /\ LaneInv /\ TakeLane => Safe
<1> SUFFICES ASSUME LanesTypeOK, LaneInv, TakeLane PROVE Safe
  OBVIOUS
<1>1. PICK l \in copy.attempted : /\ Turn(copy, l) /\ Queue(copy, l) # {}
                                  /\ GoOn(copy, "enter", l, 0)
  BY DEF TakeLane
<1>2. place = "lanes" /\ UNCHANGED <<row, expired, crashes>> /\ Between(copy, crashes)
  BY DEF TakeLane, LaneInv, Place
<1>3. RecordOK(copy, crashes) /\ copy \in LaneRecord /\ l \in Lane
  BY <1>2, CopyOK DEF LaneRecord
<1>4. l \notin copy.complete /\ ~copy.optional
  BY <1>1, <1>3, TurnFollows DEF RecordOK
<1>5. Used(copy) + (Lanes - l) + 1 <= Emergency + crashes
  BY <1>1, <1>2, <1>3, <1>4 DEF Between
<1>6. Place("enter", copy, l, 0, Nil, crashes) /\ Keeps(copy, copy)
  BY <1>2, <1>4, <1>5, CopyOK DEF Place, InLane, Keeps
<1> QED BY <1>1, <1>2, <1>3, <1>6, LaneNumbers, MemStep DEF GoOn

\* A lane is complete with nothing of it left in the queue.
LEMMA CloseLaneStep == LanesTypeOK /\ LaneInv /\ CloseLane => Safe
<1> SUFFICES ASSUME LanesTypeOK, LaneInv, CloseLane PROVE Safe
  OBVIOUS
<1>1. PICK l \in copy.attempted :
              /\ Turn(copy, l) /\ Queue(copy, l) = {}
              /\ Store([copy EXCEPT !.complete = @ \cup {l}], "lanes", Nil, 0)
  BY DEF CloseLane
<1>2. /\ place = "lanes" /\ UNCHANGED <<expired, crashes>>
      /\ "streets" \in copy.done /\ Between(copy, crashes)
  BY DEF CloseLane, LaneInv, Place
<1>3. RecordOK(copy, crashes) /\ copy \in LaneRecord /\ l \in Lane
  BY <1>2, CopyOK DEF LaneRecord
<1>4. ~copy.optional
  BY <1>1, <1>3, TurnFollows DEF RecordOK
<1> DEFINE q == [copy EXCEPT !.complete = @ \cup {l}]
<1>5. /\ q \in LaneRecord /\ q.done = copy.done /\ q.attempted = copy.attempted
      /\ q.complete = copy.complete \cup {l} /\ q.optional = copy.optional
      /\ q.visited = copy.visited /\ q.pages = copy.pages /\ q.pending = copy.pending
  BY <1>3 DEF LaneRecord
<1>6. Store(q, "lanes", Nil, 0)
  BY <1>1
<1> HIDE DEF q
<1>7. Used(q) = Used(copy) /\ \A k : Queue(q, k) = Queue(copy, k)
  BY <1>5 DEF Used, Queue
<1>8. \A e \in copy.pending : e[1] # l
  <2> SUFFICES ASSUME NEW e \in copy.pending, e[1] = l PROVE FALSE
    OBVIOUS
  <2>1. e = <<l, e[2]>> /\ e[2] \in LaneTask
    BY <1>3 DEF LaneRecord, Entry
  <2> QED BY <1>1, <2>1 DEF Queue
<1>9. Serial(q)
  BY <1>1, <1>3, <1>4, <1>5, <1>8 DEF RecordOK, Serial
<1>10. Ceiling(q) /\ Spare(q, 0, crashes) /\ Reserve(q, crashes)
  BY <1>3, <1>5, <1>7 DEF RecordOK, Ceiling, Spare, Reserve
<1>11. Between(q, crashes)
  BY <1>2, <1>5, <1>7 DEF Between
<1>12. RecordOK(q, crashes) /\ Place("lanes", q, Nil, 0, Nil, crashes)
  BY <1>2, <1>5, <1>9, <1>10, <1>11, CopyOK DEF RecordOK, Place
<1>13. Keeps(copy, q)
  BY <1>5 DEF Keeps
<1> QED BY <1>2, <1>6, <1>12, <1>13, CopyOK, StoreStep DEF LanesTypeOK

\* A section is over with all of its lanes complete.
LEMMA SectionDoneStep == LanesTypeOK /\ LaneInv /\ SectionDone => Safe
<1> SUFFICES ASSUME LanesTypeOK, LaneInv, SectionDone PROVE Safe
  OBVIOUS
<1> DEFINE s == CurrentSection(copy)
           q == [copy EXCEPT !.done = @ \cup {s}]
<1>1. /\ place = "lanes" /\ UNCHANGED <<expired, crashes>> /\ LanesOf(s) \subseteq copy.complete
      /\ Store(q, "lanes", Nil, 0) /\ "streets" \in copy.done /\ Between(copy, crashes)
  BY DEF SectionDone, LaneInv, Place
<1>2. RecordOK(copy, crashes) /\ copy \in LaneRecord /\ s \in {"families", "maps"}
  BY <1>1, CopyOK DEF CurrentSection
<1>3. /\ q \in LaneRecord /\ q.done = copy.done \cup {s} /\ q.attempted = copy.attempted
      /\ q.complete = copy.complete /\ q.optional = copy.optional
      /\ q.visited = copy.visited /\ q.pages = copy.pages /\ q.pending = copy.pending
  BY <1>2 DEF LaneRecord, Section
<1> HIDE DEF q, s
<1>4. Used(q) = Used(copy) /\ \A k : Queue(q, k) = Queue(copy, k)
  BY <1>3 DEF Used, Queue
<1>5. Serial(q)
  BY <1>1, <1>2, <1>3 DEF RecordOK, Serial
<1>6. Ceiling(q) /\ Spare(q, 0, crashes) /\ Reserve(q, crashes) /\ Between(q, crashes)
  BY <1>1, <1>2, <1>3, <1>4 DEF RecordOK, Ceiling, Spare, Reserve, Between
<1>7. RecordOK(q, crashes) /\ Place("lanes", q, Nil, 0, Nil, crashes)
  BY <1>1, <1>3, <1>5, <1>6, CopyOK DEF RecordOK, Place
<1>8. Keeps(copy, q)
  BY <1>3 DEF Keeps
<1> QED BY <1>1, <1>7, <1>8, CopyOK, StoreStep DEF LanesTypeOK

\* What a lane may fetch leaves a page to every lane after it, or else is the
\* one page that the lane had.
LEMMA BudgetBound ==
    ASSUME NEW r \in LaneRecord, r.pages = Emergency, Used(r) <= Emergency,
           NEW l \in Lane \cup {Streets}, NEW c \in Nat,
           Used(r) + (Lanes - l) + 1 <= Emergency + c
    PROVE  /\ LaneBudget(r, l) \in Nat
           /\ Used(r) + LaneBudget(r, l) + (Lanes - l) <= Emergency + c
<1>1. /\ Used(r) \in Nat /\ Emergency \in Nat /\ Lanes \in Nat /\ l \in Nat /\ l <= Lanes
  BY UsedType, LaneNumbers, SerialLanesAssumption
<1>2. PageLimit(r, l) \in Nat
  <2>1. Cardinality(Queue(r, l)) \in Nat
    <3>1. Queue(r, l) \subseteq LaneTask
      BY DEF Queue
    <3> QED BY <3>1, SerialLanesAssumption, FS_Subset, FS_CardinalityType
  <2>2. l # Streets => Base[l] \in Nat
    BY SerialLanesAssumption
  <2> QED BY <2>1, <2>2 DEF PageLimit, Greater
<1> DEFINE free == FreePages(r)
           limit == PageLimit(r, l)
<1>3. free = Emergency - Used(r) /\ free \in Nat
  BY <1>1 DEF FreePages, Used
<1>4. LaneBudget(r, l) = Lesser(limit, free - Lesser(Lanes - l, IF free = 0 THEN 0 ELSE free - 1))
  BY DEF LaneBudget
<1> HIDE DEF free, limit
<1>5. limit \in Nat
  BY <1>2 DEF limit
<1>6. CASE free = 0
  BY <1>1, <1>3, <1>4, <1>5, <1>6 DEF Lesser
<1>7. CASE free > 0 /\ Lanes - l < free - 1
  BY <1>1, <1>3, <1>4, <1>5, <1>7 DEF Lesser
<1>8. CASE free > 0 /\ ~(Lanes - l < free - 1)
  BY <1>1, <1>3, <1>4, <1>5, <1>8 DEF Lesser
<1> QED BY <1>3, <1>6, <1>7, <1>8

\* The place in a lane depends on the queue for the street inventory only.
LEMMA SamePlace ==
    ASSUME NEW r, NEW q, NEW l, NEW b, NEW c, Place("work", r, l, b, Nil, c),
           q.done = r.done, q.attempted = r.attempted, q.complete = r.complete,
           q.optional = r.optional, q.pages = r.pages, q.visited = r.visited,
           <<Nil, Street>> \in q.pending => <<Nil, Street>> \in r.pending
    PROVE  Place("work", q, l, b, Nil, c)
BY DEF Place, InLane, Used

\* A lane starts with the budget that was computed for it.
LEMMA EnterLaneStep == LanesTypeOK /\ LaneInv /\ EnterLane => Safe
<1> SUFFICES ASSUME LanesTypeOK, LaneInv, EnterLane PROVE Safe
  OBVIOUS
<1>1. place = "enter" /\ UNCHANGED <<expired, crashes>> /\ lane \in Lane \cup {Streets} /\ lane # Nil
  BY DEF EnterLane, LanesTypeOK
<1>2. RecordOK(copy, crashes) /\ copy \in LaneRecord /\ crashes \in Nat
  BY <1>1, CopyOK
<1>3. /\ copy.pages = Emergency /\ ~copy.optional /\ InLane(copy, lane)
      /\ Used(copy) + (Lanes - lane) + 1 <= Emergency + crashes
  BY <1>1, CopyOK DEF LaneInv, Place
<1> DEFINE b == LaneBudget(copy, lane)
<1>4. b \in Nat /\ Used(copy) + b + (Lanes - lane) <= Emergency + crashes
  BY <1>1, <1>2, <1>3, BudgetBound DEF RecordOK, Ceiling
<1> HIDE DEF b
<1>5. Place("work", copy, lane, b, Nil, crashes) /\ Keeps(copy, copy)
  BY <1>3, <1>4 DEF Place, Keeps
<1>6. CASE GoOn(copy, "work", lane, b) /\ UNCHANGED row
  BY <1>1, <1>2, <1>4, <1>5, <1>6, MemStep DEF GoOn
<1>7. CASE row.status = "cancelled" /\ End /\ UNCHANGED row
  BY <1>1, <1>7, CancelledStep DEF LanesTypeOK
<1>8. CASE /\ row.status # "cancelled" /\ row' = [row EXCEPT !.started = TRUE]
           /\ GoOn([copy EXCEPT !.started = TRUE], "work", lane, b)
  <2> DEFINE q == [row EXCEPT !.started = TRUE]
             r == [copy EXCEPT !.started = TRUE]
  <2>1. /\ q \in LaneRecord /\ q.done = row.done /\ q.attempted = row.attempted
        /\ q.complete = row.complete /\ q.optional = row.optional
        /\ q.visited = row.visited /\ q.pages = row.pages /\ q.pending = row.pending
    BY DEF LanesTypeOK, LaneRecord
  <2>2. /\ r \in LaneRecord /\ r.done = copy.done /\ r.attempted = copy.attempted
        /\ r.complete = copy.complete /\ r.optional = copy.optional
        /\ r.visited = copy.visited /\ r.pages = copy.pages /\ r.pending = copy.pending
    BY <1>2 DEF LaneRecord
  <2>3. row' = q /\ GoOn(r, "work", lane, b)
    BY <1>8
  <2> HIDE DEF q, r
  <2>4. RecordOK(q, crashes) /\ RecordOK(r, crashes)
    BY <1>2, <2>1, <2>2, QueueChange DEF LaneInv
  <2>5. Place("work", r, lane, b, Nil, crashes)
    BY <1>5, <2>2, SamePlace
  <2>6. Keeps(row, q)
    BY <2>1 DEF Keeps
  <2>7. Keeps(q, r) /\ (r.optional => q.optional)
    BY <1>1, <1>8, <2>1, <2>2 DEF LaneInv, Keeps
  <2> QED BY <1>1, <1>4, <2>1, <2>3, <2>4, <2>5, <2>6, <2>7, OnStep DEF GoOn, LanesTypeOK
<1> QED BY <1>1, <1>6, <1>7, <1>8 DEF EnterLane, b

\* A task of the lane is taken out of the queue of the lane.
LEMMA PickStep == LanesTypeOK /\ LaneInv /\ PickTask => Safe
<1> SUFFICES ASSUME LanesTypeOK, LaneInv, PickTask PROVE Safe
  OBVIOUS
<1>1. PICK t \in Queue(copy, lane) :
              /\ place' = IF t \in copy.visited THEN "work" ELSE "fetch"
              /\ fetching' = IF t \in copy.visited THEN Nil ELSE t
              /\ copy' = [copy EXCEPT !.pending = @ \ {<<lane, t>>}]
  BY DEF PickTask
<1>2. /\ place = "work" /\ lane \in Lane \cup {Streets} /\ lane # Nil /\ budget \in Nat
      /\ UNCHANGED <<row, lane, budget, expired, crashes>>
      /\ budget > 0 /\ FreePages(copy) > 0
  BY DEF PickTask, MayFetch, LanesTypeOK
<1>3. RecordOK(copy, crashes) /\ copy \in LaneRecord /\ crashes \in Nat /\ t \in LaneTask /\ t # Nil
  BY <1>2, CopyOK, SerialLanesAssumption DEF Queue
<1> DEFINE q == [copy EXCEPT !.pending = @ \ {<<lane, t>>}]
<1>4. /\ q \in LaneRecord /\ q.done = copy.done /\ q.attempted = copy.attempted
      /\ q.complete = copy.complete /\ q.optional = copy.optional
      /\ q.visited = copy.visited /\ q.pages = copy.pages /\ q.pending = copy.pending \ {<<lane, t>>}
  BY <1>3 DEF LaneRecord
<1>5. copy' = q
  BY <1>1
<1> HIDE DEF q
<1>6. RecordOK(q, crashes)
  BY <1>3, <1>4, QueueChange
<1>7. Place("work", copy, lane, budget, Nil, crashes)
  BY <1>2 DEF LaneInv, Place
<1>8. Place("work", q, lane, budget, Nil, crashes)
  BY <1>4, <1>7, SamePlace
<1>9. t \notin copy.visited => Place("fetch", q, lane, budget, t, crashes)
  BY <1>2, <1>4, <1>8 DEF Place, FreePages
<1>10. Keeps(copy, q)
  BY <1>2, <1>4 DEF Keeps
<1>11. CASE t \in copy.visited
  BY <1>1, <1>2, <1>4, <1>5, <1>6, <1>8, <1>10, <1>11, MemStep
<1>12. CASE t \notin copy.visited
  BY <1>1, <1>2, <1>3, <1>4, <1>5, <1>6, <1>9, <1>10, <1>12, MemStep
<1> QED BY <1>11, <1>12

\* A page that was fetched is paid from the budget, and what it disclosed is
\* tagged with its lane.
LEMMA SucceedStep == LanesTypeOK /\ LaneInv /\ Succeed => Safe
<1> SUFFICES ASSUME LanesTypeOK, LaneInv, Succeed PROVE Safe
  OBVIOUS
<1>1. PICK kept \in SUBSET Queue(copy, lane), kids \in SUBSET Children[fetching] :
          Store([copy EXCEPT !.visited = @ \cup {fetching},
                             !.pending = Untagged(copy, lane)
                                           \cup ({lane} \X (kept \cup (kids \ copy.visited)))],
                "work", lane, budget - 1)
  BY DEF Succeed
<1>2. /\ place = "fetch" /\ lane \in Lane \cup {Streets} /\ lane # Nil /\ budget \in Nat
      /\ fetching \in LaneTask /\ UNCHANGED <<expired, crashes>>
  BY DEF Succeed, LanesTypeOK
<1>3. /\ RecordOK(copy, crashes) /\ copy \in LaneRecord /\ crashes \in Nat
      /\ Place("fetch", copy, lane, budget, fetching, crashes)
  BY <1>2, CopyOK DEF LaneInv
<1> DEFINE new == {lane} \X (kept \cup (kids \ copy.visited))
           v == [copy EXCEPT !.visited = @ \cup {fetching}]
           q == [copy EXCEPT !.visited = @ \cup {fetching}, !.pending = Untagged(copy, lane) \cup new]
<1>4. kept \cup kids \subseteq LaneTask /\ kids \subseteq LaneTask \ {Street}
  BY <1>2, SerialLanesAssumption DEF Queue
<1>5. Untagged(copy, lane) \cup new \in SUBSET Entry
  BY <1>2, <1>3, <1>4 DEF Untagged, LaneRecord, Entry
<1>6. Store(q, "work", lane, budget - 1)
  BY <1>1
<1>7. \A e \in new : e[1] = lane /\ e # <<Nil, Street>>
  BY <1>2
<1> HIDE DEF new
<1>8. /\ v \in LaneRecord /\ v.done = copy.done /\ v.attempted = copy.attempted
      /\ v.complete = copy.complete /\ v.optional = copy.optional /\ v.pages = copy.pages
      /\ v.visited = copy.visited \cup {fetching} /\ v.pending = copy.pending
  BY <1>2, <1>3 DEF LaneRecord
<1>9. /\ q \in LaneRecord /\ q.done = copy.done /\ q.attempted = copy.attempted
      /\ q.complete = copy.complete /\ q.optional = copy.optional /\ q.pages = copy.pages
      /\ q.visited = copy.visited \cup {fetching} /\ q.pending = Untagged(copy, lane) \cup new
  BY <1>2, <1>3, <1>5 DEF LaneRecord
<1> HIDE DEF v, q
<1>10. RecordOK(v, crashes) /\ Place("work", v, lane, budget - 1, Nil, crashes)
  BY <1>2, <1>3, <1>8, LanePage
<1>11. budget - 1 \in Nat /\ ~copy.optional /\ InLane(copy, lane)
  BY <1>2, <1>3 DEF Place
<1>12. lane \in Lane => lane \in copy.attempted \ copy.complete
  BY <1>11, LaneNumbers DEF InLane
<1>13. RecordOK(q, crashes)
  <2>1. \A e \in q.pending : \/ e \in v.pending
                             \/ /\ e # <<Nil, Street>>
                                /\ e[1] \in Lane => e[1] \in v.attempted \ v.complete
    BY <1>7, <1>8, <1>9, <1>12 DEF Untagged
  <2> QED BY <1>3, <1>8, <1>9, <1>10, <2>1, QueueChange
<1>14. Place("work", q, lane, budget - 1, Nil, crashes)
  <2>1. <<Nil, Street>> \in q.pending => <<Nil, Street>> \in v.pending
    BY <1>7, <1>8, <1>9 DEF Untagged
  <2> QED BY <1>8, <1>9, <1>10, <2>1, SamePlace
<1>15. Keeps(copy, q)
  BY <1>2, <1>9, <1>11 DEF Keeps, Untagged
<1> QED BY <1>2, <1>6, <1>11, <1>13, <1>14, <1>15, CopyOK, StoreStep DEF LanesTypeOK

\* A page that failed is paid from the budget, too.
LEMMA FailStep == LanesTypeOK /\ LaneInv /\ Fail => Safe
<1> SUFFICES ASSUME LanesTypeOK, LaneInv, Fail PROVE Safe
  OBVIOUS
<1>1. /\ place = "fetch" /\ lane \in Lane \cup {Streets} /\ lane # Nil /\ budget \in Nat
      /\ fetching \in LaneTask /\ UNCHANGED <<expired, crashes>>
  BY DEF Fail, LanesTypeOK
<1>2. /\ RecordOK(copy, crashes) /\ copy \in LaneRecord /\ crashes \in Nat
      /\ Place("fetch", copy, lane, budget, fetching, crashes)
  BY <1>1, CopyOK DEF LaneInv
<1> DEFINE q == [copy EXCEPT !.visited = @ \cup {fetching}]
<1>3. /\ q \in LaneRecord /\ q.done = copy.done /\ q.attempted = copy.attempted
      /\ q.complete = copy.complete /\ q.optional = copy.optional /\ q.pages = copy.pages
      /\ q.visited = copy.visited \cup {fetching} /\ q.pending = copy.pending
  BY <1>1, <1>2 DEF LaneRecord
<1>4. Store(q, "work", lane, budget - 1)
  BY DEF Fail
<1> HIDE DEF q
<1>5. RecordOK(q, crashes) /\ Place("work", q, lane, budget - 1, Nil, crashes)
  BY <1>1, <1>2, <1>3, LanePage
<1>6. budget - 1 \in Nat /\ Keeps(copy, q)
  BY <1>1, <1>2, <1>3 DEF Place, Keeps
<1> QED BY <1>1, <1>4, <1>5, <1>6, CopyOK, StoreStep DEF LanesTypeOK

\* The rest of a lane is dropped; the lane is worked off, and those that come
\* later have their pages.
LEMMA LeaveStep == LanesTypeOK /\ LaneInv /\ Leave => Safe
<1> SUFFICES ASSUME LanesTypeOK, LaneInv, Leave PROVE Safe
  OBVIOUS
<1>1. /\ place = "work" /\ lane \in Lane \cup {Streets} /\ lane # Nil /\ budget \in Nat
      /\ UNCHANGED <<expired, crashes>>
  BY DEF Leave, LanesTypeOK
<1>2. /\ RecordOK(copy, crashes) /\ copy \in LaneRecord /\ crashes \in Nat /\ Used(copy) \in Nat
      /\ ~copy.optional /\ copy.pages = Emergency /\ InLane(copy, lane)
      /\ Used(copy) + budget + (Lanes - lane) <= Emergency + crashes
  BY <1>1, CopyOK DEF LaneInv, Place
<1> DEFINE q == [copy EXCEPT !.pending = Untagged(copy, lane)]
           next == IF lane = Streets THEN "streets" ELSE "lanes"
<1>3. /\ q \in LaneRecord /\ q.done = copy.done /\ q.attempted = copy.attempted
      /\ q.complete = copy.complete /\ q.optional = copy.optional /\ q.pages = copy.pages
      /\ q.visited = copy.visited /\ q.pending = Untagged(copy, lane)
  BY <1>2 DEF LaneRecord, Untagged
<1>4. Store(q, next, Nil, 0)
  BY DEF Leave
<1> HIDE DEF q
<1>5. Used(q) = Used(copy)
  BY <1>3 DEF Used
<1>6. RecordOK(q, crashes)
  BY <1>2, <1>3, QueueChange DEF Untagged
<1>7. Keeps(copy, q)
  BY <1>1, <1>3 DEF Keeps, Untagged
<1>8. CASE lane = Streets
  <2>1. "streets" \notin copy.done /\ copy.attempted = {}
    BY <1>2, <1>8, LaneNumbers DEF InLane, RecordOK, Serial, LaneRecord
  <2>2. Spare(q, 1, crashes)
    BY <1>2, <1>3, <1>5, <2>1 DEF RecordOK, Reserve, Spare
  <2>3. Place("streets", q, Nil, 0, Nil, crashes)
    BY <1>2, <1>3, <2>2 DEF Place
  <2> QED BY <1>1, <1>4, <1>6, <1>7, <1>8, <2>3, CopyOK, StoreStep DEF LanesTypeOK
<1>9. CASE lane \in Lane
  <2>1. lane \in copy.attempted \ copy.complete /\ lane # Streets
    BY <1>2, <1>9, LaneNumbers DEF InLane
  <2>2. "streets" \in copy.done /\ \A k \in Lane \ copy.complete : k >= lane
    BY <1>2, <1>9, <2>1, LaneNumbers DEF RecordOK, Serial
  <2>3. Queue(q, lane) = {}
    BY <1>3 DEF Queue, Untagged
  <2>4. Between(q, crashes)
    <3> SUFFICES ASSUME NEW k \in Lane \ copy.complete, k # lane
                 PROVE  Used(q) + (Lanes - k) + 1 <= Emergency + crashes
      BY <1>3, <2>1, <2>3 DEF Between
    <3>1. k \in Nat /\ lane \in Nat /\ k > lane
      BY <1>9, <2>2, LaneNumbers
    <3> QED BY <1>1, <1>2, <1>5, <3>1, LaneNumbers, SerialLanesAssumption
  <2>5. Place("lanes", q, Nil, 0, Nil, crashes)
    BY <1>2, <1>3, <2>2, <2>4 DEF Place
  <2> QED BY <1>1, <1>4, <1>6, <1>7, <2>1, <2>5, CopyOK, StoreStep DEF LanesTypeOK
<1> QED BY <1>1, <1>8, <1>9

\* The optional budget is opened over complete lanes, within the emergency limit.
LEMMA ActivateStep == LanesTypeOK /\ LaneInv /\ Activate => Safe
<1> SUFFICES ASSUME LanesTypeOK, LaneInv, Activate PROVE Safe
  OBVIOUS
<1>1. /\ place = "lanes" /\ {"families", "maps"} \subseteq copy.done /\ ~copy.optional
      /\ expired' \in BOOLEAN /\ UNCHANGED crashes
  BY DEF Activate, LanesTypeOK
<1>2. RecordOK(copy, crashes) /\ copy \in LaneRecord /\ Used(copy) \in Nat /\ "streets" \in copy.done
  BY <1>1, CopyOK DEF LaneInv, Place
<1> DEFINE n == Greater(1, Lesser(Emergency, Cardinality(copy.visited) + OptionalPages))
           q == [copy EXCEPT !.optional = TRUE, !.started = TRUE, !.pages = n]
<1>3. n \in Nat /\ Used(copy) <= n /\ n <= Emergency
  <2>1. Used(copy) <= Emergency /\ Emergency \in Nat /\ Emergency >= 1 /\ OptionalPages \in Nat
    BY <1>2, LaneNumbers, SerialLanesAssumption DEF RecordOK, Ceiling
  <2> QED BY <1>2, <2>1 DEF Used, Greater, Lesser
<1>4. Store(q, "optional", Nil, 0)
  BY DEF Activate
<1> HIDE DEF n
<1>5. /\ q \in LaneRecord /\ q.done = copy.done /\ q.attempted = copy.attempted
      /\ q.complete = copy.complete /\ q.optional = TRUE /\ q.pages = n
      /\ q.visited = copy.visited /\ q.pending = copy.pending
  BY <1>2, <1>3 DEF LaneRecord
<1> HIDE DEF q
<1>6. copy.complete = Lane /\ copy.attempted = Lane
  BY <1>1, <1>2 DEF RecordOK, Serial, LanesOf, LaneRecord
<1>7. Serial(q)
  BY <1>2, <1>5, <1>6 DEF RecordOK, Serial
<1>8. Ceiling(q) /\ Spare(q, 0, crashes) /\ Reserve(q, crashes)
  BY <1>2, <1>3, <1>5, <1>6, SerialLanesAssumption DEF Ceiling, Spare, Reserve, Used
<1>9. RecordOK(q, crashes) /\ Place("optional", q, Nil, 0, Nil, crashes)
  BY <1>5, <1>7, <1>8 DEF RecordOK, Place
<1>10. Keeps(copy, q)
  BY <1>1, <1>5 DEF Keeps
<1> QED BY <1>1, <1>4, <1>9, <1>10, CopyOK, StoreStep

\* A recovered attempt goes on under the limits of the optional budget.
LEMMA ResumeStep == LanesTypeOK /\ LaneInv /\ Resume => Safe
<1> SUFFICES ASSUME LanesTypeOK, LaneInv, Resume PROVE Safe
  OBVIOUS
<1>1. /\ place = "lanes" /\ copy.optional /\ GoOn(copy, "optional", Nil, 0)
      /\ UNCHANGED <<row, expired, crashes>>
  BY DEF Resume
<1>2. Place("optional", copy, Nil, 0, Nil, crashes) /\ Keeps(copy, copy)
  BY <1>1 DEF Place, Keeps
<1> QED BY <1>1, <1>2, CopyOK, MemStep DEF GoOn

\* Once the optional budget is open, no lane has anything in the queue.
LEMMA LanesAreOver ==
    ASSUME NEW c \in Nat, NEW r, RecordOK(r, c), r.optional
    PROVE  /\ r.complete = Lane /\ r.attempted = Lane /\ "streets" \in r.done
           /\ Used(r) <= r.pages /\ r.pages <= Emergency
           /\ \A e \in r.pending : e[1] \notin Lane
<1>1. Serial(r) /\ Ceiling(r) /\ r \in LaneRecord
  BY DEF RecordOK
<1>2. r.complete = Lane /\ r.complete \subseteq r.attempted
  BY <1>1 DEF Serial
<1>3. r.attempted \subseteq Lane
  BY <1>1 DEF LaneRecord
<1>4. r.attempted = Lane
  BY <1>2, <1>3
<1>5. 1 \in Lane
  BY LaneNumbers
<1>6. "streets" \in r.done /\ \A e \in r.pending : e[1] \notin Lane
  BY <1>1, <1>2, <1>4, <1>5 DEF Serial
<1> QED BY <1>1, <1>2, <1>4, <1>6 DEF Ceiling

\* An ordinary task is taken out of the queue, and fetched within the limit.
LEMMA OptionalTaskStep == LanesTypeOK /\ LaneInv /\ OptionalTask => Safe
<1> SUFFICES ASSUME LanesTypeOK, LaneInv, OptionalTask PROVE Safe
  OBVIOUS
<1>1. /\ place = "optional" /\ FreePages(copy) > 0 /\ copy.optional
      /\ UNCHANGED <<expired, crashes>>
  BY DEF OptionalTask, LaneInv, Place
<1>2. RecordOK(copy, crashes) /\ copy \in LaneRecord /\ crashes \in Nat /\ Used(copy) \in Nat
  BY <1>1, CopyOK
<1>3. /\ copy.complete = Lane /\ copy.attempted = Lane /\ "streets" \in copy.done
      /\ Used(copy) <= copy.pages /\ copy.pages <= Emergency /\ copy.pages \in Nat
      /\ \A e \in copy.pending : e[1] \notin Lane
  BY <1>1, <1>2, LanesAreOver DEF LaneRecord
<1>4. PICK e \in copy.pending :
          \/ /\ e[2] \in copy.visited
             /\ GoOn([copy EXCEPT !.pending = @ \ {e}], "optional", Nil, 0)
             /\ UNCHANGED row
          \/ /\ e[2] \notin copy.visited
             /\ \E kids \in SUBSET Children[e[2]] :
                   Store([copy EXCEPT !.visited = @ \cup {e[2]},
                                      !.pending = (@ \ {e}) \cup ({Nil} \X (kids \ copy.visited))],
                         "optional", Nil, 0)
  BY DEF OptionalTask
<1>5. CASE GoOn([copy EXCEPT !.pending = @ \ {e}], "optional", Nil, 0) /\ UNCHANGED row
  <2> DEFINE q == [copy EXCEPT !.pending = @ \ {e}]
  <2>1. /\ q \in LaneRecord /\ q.done = copy.done /\ q.attempted = copy.attempted
        /\ q.complete = copy.complete /\ q.optional = copy.optional /\ q.pages = copy.pages
        /\ q.visited = copy.visited /\ q.pending = copy.pending \ {e}
    BY <1>2 DEF LaneRecord
  <2>2. GoOn(q, "optional", Nil, 0)
    BY <1>5
  <2> HIDE DEF q
  <2>3. RecordOK(q, crashes)
    BY <1>2, <2>1, QueueChange
  <2>4. Place("optional", q, Nil, 0, Nil, crashes) /\ Keeps(copy, q)
    BY <1>1, <2>1 DEF Place, Keeps
  <2> QED BY <1>1, <1>5, <2>1, <2>2, <2>3, <2>4, MemStep DEF GoOn
<1>6. ASSUME NEW kids \in SUBSET Children[e[2]], e[2] \notin copy.visited,
             Store([copy EXCEPT !.visited = @ \cup {e[2]},
                                !.pending = (@ \ {e}) \cup ({Nil} \X (kids \ copy.visited))],
                   "optional", Nil, 0)
      PROVE  Safe
  <2> DEFINE new == {Nil} \X (kids \ copy.visited)
             q == [copy EXCEPT !.visited = @ \cup {e[2]}, !.pending = (@ \ {e}) \cup new]
  <2>1. e[2] \in LaneTask
    BY <1>2 DEF LaneRecord, Entry
  <2>2. new \subseteq Entry /\ \A f \in new : f[1] = Nil
    BY <2>1, SerialLanesAssumption DEF Entry
  <2>3. Store(q, "optional", Nil, 0)
    BY <1>6
  <2> HIDE DEF new
  <2>4. /\ q \in LaneRecord /\ q.done = copy.done /\ q.attempted = copy.attempted
        /\ q.complete = copy.complete /\ q.optional = copy.optional /\ q.pages = copy.pages
        /\ q.visited = copy.visited \cup {e[2]} /\ q.pending = (copy.pending \ {e}) \cup new
    BY <1>2, <2>1, <2>2 DEF LaneRecord
  <2> HIDE DEF q
  <2>5. Used(q) = Used(copy) + 1
    BY <1>2, <1>6, <2>4, OneMorePage
  <2>6. Used(q) <= q.pages /\ q.pages <= Emergency /\ Used(q) <= Emergency
    BY <1>1, <1>2, <1>3, <2>4, <2>5, FreePagesType, SerialLanesAssumption
  <2>7. Serial(q)
    BY <1>2, <1>3, <2>2, <2>4, LaneNumbers DEF RecordOK, Serial
  <2>8. Ceiling(q) /\ Spare(q, 0, crashes) /\ Reserve(q, crashes)
    BY <1>3, <2>4, <2>6 DEF Ceiling, Spare, Reserve
  <2>9. RecordOK(q, crashes) /\ Place("optional", q, Nil, 0, Nil, crashes)
    BY <1>1, <2>4, <2>7, <2>8 DEF RecordOK, Place
  <2>10. Keeps(copy, q)
    BY <1>1, <2>4 DEF Keeps
  <2> QED BY <1>1, <2>3, <2>9, <2>10, CopyOK, StoreStep DEF LanesTypeOK
<1> QED BY <1>4, <1>5, <1>6

\* A record that only changes its status is in order.
LEMMA StatusChange ==
    ASSUME NEW c \in Nat, NEW r, RecordOK(r, c), NEW st \in {"open", "closed", "cancelled"},
           NEW q, q = [r EXCEPT !.status = st]
    PROVE  q \in LaneRecord /\ q.status = st /\ RecordOK(q, c) /\ Keeps(r, q)
           /\ (Spare(r, 1, c) => Spare(q, 1, c))
<1>1. /\ q \in LaneRecord /\ q.status = st /\ q.done = r.done /\ q.attempted = r.attempted
      /\ q.complete = r.complete /\ q.optional = r.optional /\ q.pages = r.pages
      /\ q.visited = r.visited /\ q.pending = r.pending
  BY DEF RecordOK, LaneRecord
<1>2. RecordOK(q, c)
  BY <1>1, QueueChange
<1>3. Keeps(r, q) /\ (Spare(r, 1, c) => Spare(q, 1, c))
  BY <1>1 DEF Keeps, Spare, Used
<1> QED BY <1>1, <1>2, <1>3

\* The collection is closed as it is.
LEMMA CloseStep == LanesTypeOK /\ LaneInv /\ Close => Safe
<1> SUFFICES ASSUME LanesTypeOK, LaneInv, Close PROVE Safe
  OBVIOUS
<1> DEFINE q == [copy EXCEPT !.status = "closed"]
<1>1. place = "optional" /\ Store(q, "idle", Nil, 0) /\ UNCHANGED <<expired, crashes>>
  BY DEF Close
<1> HIDE DEF q
<1>2. RecordOK(q, crashes) /\ q.status = "closed" /\ Keeps(copy, q)
  BY <1>1, CopyOK, StatusChange DEF q
<1>3. Place("idle", q, Nil, 0, Nil, crashes)
  BY DEF Place
<1> QED BY <1>1, <1>2, <1>3, CopyOK, StoreStep DEF LanesTypeOK

\* The latest record is closed, whatever the attempt was doing.
LEMMA RunFailsStep == LanesTypeOK /\ LaneInv /\ LanesFail => Safe
<1> SUFFICES ASSUME LanesTypeOK, LaneInv, LanesFail PROVE Safe
  OBVIOUS
<1>1. /\ Store([row EXCEPT !.status = "closed"], "idle", Nil, 0) /\ expired' \in BOOLEAN
      /\ crashes' = crashes + 1 /\ crashes \in Nat /\ crashes' \in 0..MaxCrashes
  BY SerialLanesAssumption DEF LanesFail, LanesTypeOK
<1>2. RecordOK(row, crashes') /\ crashes' \in Nat /\ row \in LaneRecord /\ Keeps(row, row)
  BY <1>1, CrashCounted DEF LanesTypeOK, Keeps
<1>3. CASE row.status = "cancelled"
  <2>1. PICK r \in LaneRecord : r = row
    BY <1>2
  <2> QED BY <1>1, <1>2, <1>3, <2>1, EndStep DEF Store
<1>4. CASE row.status # "cancelled"
  <2>1. PICK q : q = [row EXCEPT !.status = "closed"]
    OBVIOUS
  <2>2. q \in LaneRecord /\ q.status = "closed" /\ RecordOK(q, crashes') /\ Keeps(row, q)
    BY <1>2, <2>1, StatusChange
  <2>3. row' = q /\ End
    BY <1>1, <1>4, <2>1 DEF Store
  <2> QED BY <1>1, <2>2, <2>3, EndStep
<1> QED BY <1>3, <1>4

\* An early end leaves the row, which has one page more to spare.
LEMMA CrashStep == LanesTypeOK /\ LaneInv /\ LanesCrash => Safe
<1> SUFFICES ASSUME LanesTypeOK, LaneInv, LanesCrash PROVE Safe
  OBVIOUS
<1>1. /\ End /\ UNCHANGED <<row, expired>> /\ expired' \in BOOLEAN
      /\ crashes' = crashes + 1 /\ crashes \in Nat /\ crashes' \in 0..MaxCrashes
  BY SerialLanesAssumption DEF LanesCrash, LanesTypeOK
<1>2. RecordOK(row, crashes') /\ Spare(row, 1, crashes')
  BY <1>1, OneMoreCrash DEF LaneInv
<1>3. PICK r \in LaneRecord : r = row
  BY DEF LanesTypeOK
<1>4. Keeps(row, row)
  BY DEF Keeps
<1> QED BY <1>1, <1>2, <1>3, <1>4, EndStep

\* A client may cancel at any time.
LEMMA CancelStep == LanesTypeOK /\ LaneInv /\ Cancel => Safe
<1> SUFFICES ASSUME LanesTypeOK, LaneInv, Cancel PROVE Safe
  OBVIOUS
<1>1. crashes \in Nat /\ RecordOK(row, crashes) /\ UNCHANGED <<attempt, expired, crashes>>
  BY SerialLanesAssumption DEF LanesTypeOK, LaneInv, Cancel
<1>2. PICK q : q = [row EXCEPT !.status = "cancelled"]
  OBVIOUS
<1>3. row' = q /\ q \in LaneRecord /\ q.status = "cancelled" /\ RecordOK(q, crashes) /\ Keeps(row, q)
  BY <1>1, <1>2, StatusChange DEF Cancel
<1>4. LanesTypeOK'
  BY <1>1, <1>3 DEF LanesTypeOK, attempt
<1>5. LaneInv'
  BY <1>1, <1>3 DEF LaneInv, attempt
<1> QED BY <1>3, <1>4, <1>5 DEF Safe

(***************************************************************************)
(* The theorems.                                                           *)
(***************************************************************************)
\* Every step is safe.
LEMMA EveryStepSafe == LanesTypeOK /\ LaneInv /\ [LanesNext]_lanesVars => Safe
<1> SUFFICES ASSUME LanesTypeOK, LaneInv, [LanesNext]_lanesVars PROVE Safe
  OBVIOUS
<1>1. CASE Step
  BY <1>1, BeginStep, TakeStreetsStep, StreetsDoneStep, OpenLaneStep, TakeLaneStep, CloseLaneStep,
     SectionDoneStep, EnterLaneStep, PickStep, SucceedStep, FailStep, LeaveStep, ActivateStep,
     ResumeStep, OptionalTaskStep, CloseStep DEF Step
<1>2. CASE LanesFail \/ LanesCrash \/ Cancel
  BY <1>2, RunFailsStep, CrashStep, CancelStep
<1>3. CASE TimeIsUp \/ UNCHANGED lanesVars
  <2>1. UNCHANGED <<row, attempt, crashes>> /\ expired' \in BOOLEAN
    BY <1>3 DEF TimeIsUp, lanesVars, attempt, LanesTypeOK
  <2>2. LanesTypeOK'
    BY <2>1 DEF LanesTypeOK, attempt
  <2>3. LaneInv'
    BY <2>1 DEF LaneInv, attempt
  <2>4. Keeps(row, row')
    BY <2>1 DEF Keeps
  <2> QED BY <2>2, <2>3, <2>4 DEF Safe
<1> QED BY <1>1, <1>2, <1>3 DEF LanesNext

\* The invariant holds at the start.
LEMMA InitOK == LanesInit => LanesTypeOK /\ LaneInv
<1> SUFFICES ASSUME LanesInit PROVE LanesTypeOK /\ LaneInv
  OBVIOUS
<1>1. PICK seeds \in SUBSET Seeds : row = NewLaneRecord(seeds)
  BY DEF LanesInit
<1>2. seeds \in SUBSET LaneTask /\ {} \in SUBSET LaneTask /\ 0 \in Nat
  BY SerialLanesAssumption
<1>3. /\ RecordOK(row, 0) /\ Spare(row, 1, 0) /\ RecordOK(NewLaneRecord({}), 0)
  BY <1>1, <1>2, NewRecordOK
<1>4. LanesTypeOK
  <2>1. row \in LaneRecord /\ copy \in LaneRecord
    BY <1>3 DEF LanesInit, RecordOK
  <2>2. /\ place = "idle" /\ lane = Nil /\ budget = 0 /\ fetching = Nil /\ expired = FALSE
        /\ crashes = 0 /\ 0 \in 0..MaxCrashes
    BY SerialLanesAssumption DEF LanesInit
  <2> QED BY <2>1, <2>2 DEF LanesTypeOK
<1>5. LaneInv
  BY <1>3 DEF LanesInit, LaneInv, Place
<1> QED BY <1>4, <1>5

\* The invariant always holds.
LEMMA Invariance == LanesSpec => [](LanesTypeOK /\ LaneInv)
<1>1. LanesTypeOK /\ LaneInv /\ [LanesNext]_lanesVars => (LanesTypeOK /\ LaneInv)'
  BY EveryStepSafe DEF Safe
<1> QED BY <1>1, InitOK, PTL DEF LanesSpec

\* The variables keep their types.
THEOREM TypeCorrect == LanesSpec => []LanesTypeOK
BY Invariance, PTL

\* Lanes follow each other in their order across any number of attempts, and
\* ordinary work begins after the last one.
THEOREM StrictSequence == LanesSpec => []LanesAreSerial
<1>1. LaneInv => LanesAreSerial
  BY DEF LaneInv, RecordOK, Serial, LanesAreSerial
<1> QED BY <1>1, Invariance, PTL

\* The emergency limit and the optional limit hold over all attempts together.
THEOREM CeilingsHold == LanesSpec => []PagesWithinCeiling
<1>1. LaneInv => PagesWithinCeiling
  BY DEF LaneInv, RecordOK, Ceiling, PagesWithinCeiling, Used
<1> QED BY <1>1, Invariance, PTL

\* The lanes that were not opened are the last ones.
LEMMA WaitingLanes ==
    ASSUME NEW r \in LaneRecord, Serial(r), Lane \ r.attempted # {}
    PROVE  \E l \in Lane \ r.attempted : Cardinality(Lane \ r.attempted) = Lanes - l + 1
<1> DEFINE W == Lane \ r.attempted
           n == Cardinality(W)
           l == Lanes - n + 1
<1>1. Lanes \in Nat /\ Lane = 1..Lanes /\ IsFiniteSet(Lane) /\ Cardinality(Lane) = Lanes
  BY LaneNumbers, FS_Interval
<1>2. IsFiniteSet(W) /\ n \in Nat /\ n <= Lanes /\ n # 0
  <2>1. W \in SUBSET Lane /\ W # {}
    OBVIOUS
  <2>2. IsFiniteSet(W) /\ Cardinality(W) <= Cardinality(Lane)
    BY <1>1, <2>1, FS_Subset
  <2>3. Cardinality(W) \in Nat /\ Cardinality(W) # 0
    BY <2>1, <2>2, FS_CardinalityType, FS_EmptySet
  <2> QED BY <1>1, <2>2, <2>3
<1> HIDE DEF n
<1>3. l \in Lane /\ l \in Nat /\ n = Lanes - l + 1
  BY <1>1, <1>2
<1> HIDE DEF l
<1>4. ASSUME l \notin W PROVE FALSE
  <2>1. \A k \in W : k > l
    <3> SUFFICES ASSUME NEW k \in W, k < l PROVE FALSE
      BY <1>1, <1>3, <1>4
    <3> QED BY <1>3, <1>4, SerialLanesAssumption DEF Serial, LaneRecord
  <2>2. W \subseteq (l + 1)..Lanes
    BY <1>1, <1>3, <2>1
  <2>3. PICK m : m = l + 1
    OBVIOUS
  <2>4. m \in Int /\ Lanes \in Int /\ m <= Lanes + 1 /\ W \subseteq m..Lanes
    BY <1>1, <1>3, <2>2, <2>3
  <2>5. IsFiniteSet(m..Lanes) /\ Cardinality(m..Lanes) = IF m > Lanes THEN 0 ELSE Lanes - m + 1
    BY <2>4, FS_Interval
  <2>6. n <= Cardinality(m..Lanes)
    BY <2>4, <2>5, FS_Subset DEF n
  <2> QED BY <1>1, <1>2, <1>3, <2>3, <2>4, <2>5, <2>6
<1>5. l \in W
  BY <1>4
<1> QED BY <1>3, <1>5 DEF n

\* Every early end costs the lanes that were not opened one page at most.
THEOREM ReserveKept == LanesSpec => []PagesReserved
<1>1. LanesTypeOK /\ LaneInv => PagesReserved
  <2> SUFFICES ASSUME LanesTypeOK, LaneInv, ~row.optional PROVE PagesReserved
    BY DEF PagesReserved
  <2>1. /\ RecordOK(row, crashes) /\ row \in LaneRecord /\ crashes \in Nat /\ Used(row) \in Nat
    BY UsedType, SerialLanesAssumption DEF LaneInv, LanesTypeOK
  <2>2. CASE Lane \ row.attempted = {}
    <3>1. Cardinality(Lane \ row.attempted) = 0
      BY <2>2, FS_EmptySet
    <3>2. Used(row) <= Emergency
      BY <2>1 DEF RecordOK, Ceiling
    <3> QED BY <2>1, <3>1, <3>2, SerialLanesAssumption DEF PagesReserved, Used
  <2>3. CASE Lane \ row.attempted # {}
    <3>1. PICK l \in Lane \ row.attempted : Cardinality(Lane \ row.attempted) = Lanes - l + 1
      BY <2>1, <2>3, WaitingLanes DEF RecordOK
    <3>2. Used(row) + (Lanes - l) + 1 <= Emergency + crashes
      BY <2>1, <3>1 DEF RecordOK, Reserve
    <3> QED BY <2>1, <3>1, <3>2, LaneNumbers, SerialLanesAssumption DEF PagesReserved, Used
  <2> QED BY <2>2, <2>3
<1> QED BY <1>1, Invariance, PTL

\* No lane, and no attempt that ends early, takes an ordinary task out of the queue.
THEOREM OrdinaryTasksSurvive == LanesSpec => OrdinaryTasksKept
<1>1. LanesTypeOK /\ LaneInv /\ [LanesNext]_lanesVars =>
        [~row.optional =>
           \A t \in LaneTask \ {Street} :
               <<Nil, t>> \in row.pending => <<Nil, t>> \in row'.pending]_lanesVars
  BY EveryStepSafe DEF Safe, Keeps
<1> QED BY <1>1, Invariance, PTL DEF LanesSpec, OrdinaryTasksKept

\* An open budget keeps its limit and its start, whichever attempt goes on with it.
THEOREM BudgetOpenedOnce == LanesSpec => BudgetOpensOnce
<1>1. LanesTypeOK /\ LaneInv /\ LanesNext /\ row.optional /\ expired => expired'
  <2> SUFFICES ASSUME LanesTypeOK, LaneInv, LanesNext, row.optional, expired PROVE expired'
    OBVIOUS
  <2>1. CASE Activate
    <3>1. row.status = "cancelled"
      BY <2>1 DEF Activate, LaneInv, Keeps
    <3> QED BY <2>1, <3>1 DEF Activate
  <2>2. CASE UNCHANGED expired
    BY <2>2
  <2>3. CASE TimeIsUp
    BY <2>3 DEF TimeIsUp
  <2> QED
    BY <2>1, <2>2, <2>3 DEF LanesNext, Step, Begin, TakeStreets, StreetsDone, OpenLane, TakeLane,
       CloseLane, SectionDone, EnterLane, PickTask, Succeed, Fail, Leave, Resume, OptionalTask, Close,
       LanesFail, LanesCrash, Cancel
<1>2. LanesTypeOK /\ LaneInv /\ [LanesNext]_lanesVars =>
        [row.optional => /\ row'.optional
                         /\ row'.pages = row.pages
                         /\ expired => expired']_lanesVars
  BY <1>1, EveryStepSafe DEF Safe, Keeps
<1> QED BY <1>2, Invariance, PTL DEF LanesSpec, BudgetOpensOnce
=============================================================================
