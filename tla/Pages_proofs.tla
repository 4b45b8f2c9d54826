----------------------------- MODULE Pages_proofs -----------------------------
(***************************************************************************)
(* Proofs about pages: which of them are read (ResearchExpansion), what the *)
(* archive tells of their past (ArchiveTimeline), and what is made of one   *)
(* (PageExtraction).                                                       *)
(***************************************************************************)
EXTENDS ResearchExpansion, ArchiveTimeline, PageExtraction, Sorting_proofs

(***************************************************************************)
(* Which pages are read (ResearchExpansion): for every plan, every set of  *)
(* pages and all limits, searches stay bounded, tasks stay counted, no page *)
(* is forgotten, no goal starves.  ResearchInv is the inductive invariant:  *)
(* the row, the loop and the working copy are copies of one collection, the *)
(* task at hand is the head of the loop's queue, and what was sent is       *)
(* counted in the working copy but for one search per cut.  TurnInv adds    *)
(* whose turn it is.                                                       *)
(***************************************************************************)

\* A queue has one task for a page.
Once(tasks) == \A i, j \in DOMAIN tasks : tasks[i].url = tasks[j].url => i = j

(* A copy of the collection: its fields, and how far its branches have gone.              *)
CopyOK(r) ==
    /\ r = [queue |-> r.queue, visited |-> r.visited, facts |-> r.facts, gaps |-> r.gaps,
            cursor |-> r.cursor, rounds |-> r.rounds, queries |-> r.queries, blocks |-> r.blocks]
    /\ r.queue \in Seq(ResearchTask) /\ Once(r.queue)
    /\ r.visited \subseteq ResearchUrl \ UrlsOf(r.queue)
    /\ r.facts \subseteq ResearchUrl /\ r.gaps \subseteq Goal /\ r.cursor \in Goal
    /\ r.rounds \in [Branch -> Nat] /\ \A b \in Rounds : r.rounds[b] <= RoundLimit
    /\ r.queries = [b \in Branch |-> r.queries[b]]
    /\ \A b \in Branch \ Rounds : IsFiniteSet(r.queries[b]) /\ Cardinality(r.queries[b]) <= QueryLimit
    /\ r.blocks \in [Circuits -> Nat]

\* BranchesAreCounted, of a copy.
TasksAreCounted(r) ==
    \A t \in ToSet(r.queue) :
      /\ t.branch \in Rounds => t.level <= r.rounds[t.branch]
      /\ t.branch \in {"area", "history"} => t.level <= BranchDepth

\* Two copies that may differ in the order of the queue and in whose turn it is.
SameButOrder(r, s) ==
    /\ ToSet(r.queue) = ToSet(s.queue) /\ r.visited = s.visited
    /\ r.rounds = s.rounds /\ r.queries = s.queries /\ r.blocks = s.blocks

(* The task at hand is the next one of the loop, and the working copy has forgotten none. *)
TaskAtHand ==
    /\ mem.queue # <<>> /\ task.url = Head(mem.queue).url /\ task.level \in Nat
    /\ task.url \notin UrlsOf(work.queue) /\ work.visited = mem.visited
    /\ task.closed \in BOOLEAN
    /\ \A t \in ToSet(mem.queue) :
         t.url \in UrlsOf(work.queue) \cup {task.url} \/ ClosedBetween(mem, work, t)
    /\ \A b \in Rounds : work.rounds[b] \in mem.rounds[b] .. mem.rounds[b] + 1
    /\ \A b \in Branch \ Rounds :
         Cardinality(work.queries[b]) <= Cardinality(mem.queries[b]) + PerSearch

(* A branch that is about to search has not searched for this task, and may still go on.   *)
BranchIsOpen(b) ==
    /\ \A c \in Branch : Place(c) >= Place(b) =>
         work.rounds[c] = mem.rounds[c] /\ work.queries[c] = mem.queries[c]
    /\ b \in Rounds => work.rounds[b] < RoundLimit
    /\ b \in {"area", "history"} => DepthIn(b, task) < BranchDepth

(* What a branch has sent is counted, up to one search for every cut.                     *)
SentIsCounted ==
    \A b \in Branch :
      searches[b] <= IF b \in Rounds THEN work.rounds[b] + ends
                     ELSE Cardinality(work.queries[b]) + ends * PerSearch

ResearchInv ==
    /\ CopyOK(row) /\ CopyOK(mem) /\ CopyOK(work)
    /\ TasksAreCounted(row) /\ TasksAreCounted(work)
    /\ SameButOrder(row, mem)
    /\ step \in Branch \cup {"begin", "idle", "commit", "ended"}
    /\ ends \in 0 .. MaxEnds /\ ordered \in BOOLEAN /\ searches \in [Branch -> Nat]
    /\ step \in {"begin", "idle", "ended"} => work = mem
    /\ step \in Branch \cup {"commit"} => TaskAtHand
    /\ step \in Branch => BranchIsOpen(step)
    /\ step # "ended" => SentIsCounted
    /\ SearchesAreBounded

\* A list of numbers as long as that of a place in the queue.
Places == [1 .. 7 -> Int]

\* Places in line compare like lists of numbers: none precedes itself, and of two one does.
LEMMA PlacesAreOrdered ==
    /\ \A p \in Places : ~Precedes(p, p)
    /\ \A p, q, r \in Places : Precedes(p, q) /\ Precedes(q, r) => Precedes(p, r)
    /\ \A p, q \in Places : p = q \/ Precedes(p, q) \/ Precedes(q, p)
<1>1. \A p \in Places : ~Precedes(p, p)
  BY DEF Places, Precedes
<1>2. ASSUME NEW p \in Places, NEW q \in Places, NEW r \in Places, Precedes(p, q), Precedes(q, r)
      PROVE  Precedes(p, r)
  <2>1. PICK i \in 1 .. 7 : p[i] < q[i] /\ \A j \in 1 .. i - 1 : p[j] = q[j]
    BY <1>2 DEF Places, Precedes
  <2>2. PICK k \in 1 .. 7 : q[k] < r[k] /\ \A j \in 1 .. k - 1 : q[j] = r[j]
    BY <1>2 DEF Places, Precedes
  <2>3. /\ \A j \in 1 .. 7 : p[j] \in Int /\ q[j] \in Int /\ r[j] \in Int
        /\ DOMAIN p = 1 .. 7
    BY DEF Places
  <2>4. CASE i <= k
    <3>1. p[i] < r[i]
      BY <2>1, <2>2, <2>3, <2>4
    <3>2. \A j \in 1 .. i - 1 : p[j] = r[j]
      BY <2>1, <2>2, <2>4
    <3> QED
      BY <2>3, <3>1, <3>2 DEF Precedes
  <2>5. CASE k < i
    <3>1. p[k] < r[k]
      BY <2>1, <2>2, <2>3, <2>5
    <3>2. \A j \in 1 .. k - 1 : p[j] = r[j]
      BY <2>1, <2>2, <2>5
    <3> QED
      BY <2>3, <3>1, <3>2 DEF Precedes
  <2> QED
    BY <2>4, <2>5
<1>3. ASSUME NEW p \in Places, NEW q \in Places, p # q
      PROVE  Precedes(p, q) \/ Precedes(q, p)
  <2> DEFINE D == {i \in 1 .. 7 : p[i] # q[i]}
  <2>1. D # {}
    BY <1>3 DEF Places
  <2>2. D \subseteq Nat
    OBVIOUS
  <2>3. PICK i \in D : \A j \in D : i <= j
    BY <2>1, <2>2, NatMin
  <2>4. i \in 1 .. 7 /\ p[i] # q[i] /\ \A j \in 1 .. i - 1 : p[j] = q[j]
    BY <2>3
  <2>5. p[i] < q[i] \/ q[i] < p[i]
    BY <2>4 DEF Places
  <2>6. DOMAIN p = 1 .. 7 /\ DOMAIN q = 1 .. 7
    BY DEF Places
  <2> QED
    BY <2>4, <2>5, <2>6 DEF Precedes
<1> QED
  BY <1>1, <1>2, <1>3

\* The values of a function on a finite set are no more than its arguments.
LEMMA ValuesAreFinite ==
    ASSUME NEW D, IsFiniteSet(D), NEW T, NEW f \in [D -> T]
    PROVE  LET V == {f[x] : x \in D}
           IN  IsFiniteSet(V) /\ Cardinality(V) \in Nat /\ Cardinality(V) <= Cardinality(D)
<1> DEFINE V == {f[x] : x \in D}
<1>1. f \in Surjection(D, V)
  BY DEF Surjection
<1>2. IsFiniteSet(V) /\ Cardinality(V) <= Cardinality(D)
  BY <1>1, FS_Surjection
<1> QED
  BY <1>2, FS_CardinalityType

\* The tasks of a queue.
LEMMA QueueIsFinite ==
    ASSUME NEW q \in Seq(ResearchTask)
    PROVE  /\ ToSet(q) \subseteq ResearchTask /\ IsFiniteSet(ToSet(q)) /\ Cardinality(ToSet(q)) \in Nat
           /\ UrlsOf(q) = {t.url : t \in ToSet(q)} /\ UrlsOf(q) \subseteq ResearchUrl
           /\ q # <<>> => Head(q) \in ToSet(q) /\ Tail(q) \in Seq(ResearchTask)
                          /\ ToSet(q) = {Head(q)} \cup ToSet(Tail(q))
<1>1. ToSet(q) = {q[i] : i \in 1 .. Len(q)} /\ DOMAIN q = 1 .. Len(q) /\ Len(q) \in Nat
  BY DEF ToSet
<1>2. IsFiniteSet(1 .. Len(q))
  BY <1>1, FS_Interval
<1>3. IsFiniteSet(ToSet(q))
  <2>1. q \in [1 .. Len(q) -> ResearchTask]
    BY <1>1
  <2>2. IsFiniteSet({q[i] : i \in 1 .. Len(q)})
    BY <1>2, <2>1, ValuesAreFinite
  <2> QED
    BY <1>1, <2>2
<1>4. ToSet(q) \subseteq ResearchTask
  BY <1>1
<1>5. UrlsOf(q) = {t.url : t \in ToSet(q)}
  <2>1. UrlsOf(q) = {q[i].url : i \in 1 .. Len(q)}
    BY <1>1 DEF UrlsOf
  <2>2. \A x : x \in UrlsOf(q) <=> \E i \in 1 .. Len(q) : x = q[i].url
    BY <2>1
  <2>3. \A x : x \in {t.url : t \in ToSet(q)} <=> \E i \in 1 .. Len(q) : x = q[i].url
    BY <1>1
  <2> QED
    BY <2>2, <2>3
<1>6. UrlsOf(q) \subseteq ResearchUrl
  BY <1>4, <1>5 DEF ResearchTask
<1>7. ASSUME q # <<>>
      PROVE  /\ Head(q) \in ToSet(q) /\ Tail(q) \in Seq(ResearchTask)
             /\ ToSet(q) = {Head(q)} \cup ToSet(Tail(q))
  <2>1. Len(q) > 0 /\ Head(q) = q[1] /\ Tail(q) \in Seq(ResearchTask) /\ Len(Tail(q)) = Len(q) - 1
    BY <1>7
  <2>2. \A i \in 1 .. Len(q) - 1 : Tail(q)[i] = q[i + 1]
    BY <1>7
  <2> DEFINE rest == Tail(q)
  <2>r. rest \in Seq(ResearchTask) /\ Len(rest) = Len(q) - 1
    BY <2>1
  <2> HIDE DEF rest
  <2>s. ToSet(rest) = {rest[i] : i \in 1 .. Len(q) - 1}
    BY <2>r DEF ToSet
  <2>3. ToSet(Tail(q)) = {Tail(q)[i] : i \in 1 .. Len(q) - 1}
    BY <2>s DEF rest
  <2>4. ASSUME NEW i \in 1 .. Len(q) PROVE q[i] = Head(q) \/ q[i] \in ToSet(Tail(q))
    <3>1. CASE i = 1
      BY <2>1, <3>1
    <3>2. CASE i # 1
      <4>1. i - 1 \in 1 .. Len(q) - 1 /\ q[i] = Tail(q)[i - 1]
        BY <1>1, <2>2, <3>2
      <4> QED
        BY <2>3, <4>1
    <3> QED
      BY <3>1, <3>2
  <2>5. \A i \in 1 .. Len(q) - 1 : i + 1 \in 1 .. Len(q)
    BY <1>1
  <2>6. Head(q) \in ToSet(q)
    BY <1>1, <2>1
  <2>7. ToSet(Tail(q)) \subseteq ToSet(q)
    BY <1>1, <2>2, <2>3, <2>5
  <2> QED
    BY <1>1, <2>1, <2>4, <2>6, <2>7
<1> QED
  BY <1>3, <1>4, <1>5, <1>6, <1>7, FS_CardinalityType

--------------------------------------------------------------------------------
(* The places in line and the queue in order. *)

\* Which queues, and which steps, there are.
LEMMA BranchFacts ==
    /\ Branch = {"area", "history", "archives", "maps", "followup"}
    /\ Branch \ Rounds = {"area", "history"} /\ Rounds \subseteq Branch
    /\ DOMAIN Branches = 1 .. 5
    /\ \A i \in 1 .. 5 : Branches[i] \in Branch /\ Place(Branches[i]) = i
    /\ \A b \in Branch : Place(b) \in 1 .. 5 /\ Branches[Place(b)] = b
<1>1. DOMAIN Branches = 1 .. 5 /\ Len(Branches) = 5
  BY DEF Branches
<1>2. /\ Branches[1] = "area" /\ Branches[2] = "history" /\ Branches[3] = "archives"
      /\ Branches[4] = "maps" /\ Branches[5] = "followup"
  BY DEF Branches
<1>3. 1 .. 5 = {1, 2, 3, 4, 5}
  OBVIOUS
<1>4. Branch = {"area", "history", "archives", "maps", "followup"}
  BY <1>1, <1>2, <1>3 DEF Branch
<1>5. \A i, j \in 1 .. 5 : Branches[i] = Branches[j] => i = j
  BY <1>2, <1>3
<1>6. ASSUME NEW i \in 1 .. 5 PROVE Branches[i] \in Branch /\ Place(Branches[i]) = i
  <2>1. Branches[i] \in Branch
    BY <1>1 DEF Branch
  <2>2. \A j \in DOMAIN Branches : Branches[j] = Branches[i] <=> j = i
    BY <1>1, <1>5
  <2>3. Place(Branches[i]) = CHOOSE j \in DOMAIN Branches : j = i
    BY <2>2 DEF Place
  <2> QED
    BY <1>1, <2>1, <2>3
<1>7. \A b \in Branch : \E i \in 1 .. 5 : b = Branches[i]
  BY <1>1 DEF Branch
<1>8. \A b \in Branch : Place(b) \in 1 .. 5 /\ Branches[Place(b)] = b
  BY <1>6, <1>7
<1>9. Branch \ Rounds = {"area", "history"} /\ Rounds \subseteq Branch
  BY <1>4 DEF Rounds
<1> QED
  BY <1>1, <1>4, <1>6, <1>8, <1>9

\* The place of a task of a copy is a list of numbers that ends with its page.
LEMMA PlaceIsTyped ==
    ASSUME NEW r, CopyOK(r), NEW t \in ToSet(r.queue)
    PROVE  PlaceOf(t, r) \in Places /\ PlaceOf(t, r)[7] = t.url
<1> DEFINE goal == GoalOf[t.url]
           lane == {u \in ToSet(r.queue) : Tier(u) = Tier(t) /\ GoalOf[u.url] = goal /\ u.url < t.url}
           p1 == IF r.gaps # {} /\ goal \notin r.gaps THEN 1 ELSE 0
           p5 == IF goal = 0 THEN Cardinality(ResearchUrl) ELSE Cardinality(lane)
           p6 == IF goal = 0 THEN 0 ELSE (goal + Goals - r.cursor) % Goals
           q == <<p1, Tier(t)[1], Tier(t)[2], Tier(t)[3], p5, p6, t.url>>
<1>1. t \in ResearchTask /\ IsFiniteSet(ToSet(r.queue))
  BY QueueIsFinite DEF CopyOK
<1>2. t.url \in ResearchUrl /\ t.level \in Nat /\ t.url \in Int
  <2>1. t.url \in ResearchUrl /\ t.level \in Nat
    BY <1>1 DEF ResearchTask
  <2>2. ResearchUrl \subseteq Nat \ {0}
    BY ResearchAssumption DEF ResearchAssumption
  <2>3. t.url \in Nat
    BY <2>1, <2>2
  <2> QED
    BY <2>1, <2>3
<1>3. goal \in 0 .. Goals /\ Goals \in Nat \ {0}
  BY <1>2, ResearchAssumption DEF ResearchAssumption
<1>4. lane \in SUBSET ToSet(r.queue)
  OBVIOUS
<1>5. Cardinality(lane) \in Int /\ Cardinality(ResearchUrl) \in Int
  BY <1>1, <1>4, FS_Subset, FS_CardinalityType, ResearchAssumption DEF ResearchAssumption
<1>6. p5 \in Int
  BY <1>5
<1>7. r.cursor \in 1 .. Goals
  BY DEF CopyOK, Goal
<1>8. p6 \in Int
  <2>1. goal + Goals - r.cursor \in Int
    BY <1>3, <1>7
  <2> QED
    BY <1>3, <2>1
<1>9. RankAmongPages(t) \in Int
  BY DEF RankAmongPages
<1>10. RankOf(t) \in Int
  BY <1>9 DEF RankOf
<1>11. Tier(t)[1] \in Int /\ Tier(t)[2] \in Int /\ Tier(t)[3] \in Int
  <2>1. /\ Tier(t)[1] = RankOf(t) /\ Tier(t)[2] = (IF GoalOf[t.url] = 0 THEN 1 ELSE 0)
        /\ Tier(t)[3] = (IF t.branch = "link" THEN t.level ELSE 0)
    BY DEF Tier
  <2> QED
    BY <1>2, <1>10, <2>1
<1>12. p1 \in Int
  OBVIOUS
<1>13. PlaceOf(t, r) = q
  BY DEF PlaceOf
<1> HIDE DEF p1, p5, p6, goal, lane
<1>14. q \in [1 .. 7 -> Int] /\ q[7] = t.url
  BY <1>2, <1>6, <1>8, <1>11, <1>12
<1> QED
  BY <1>13, <1>14 DEF Places

\* So the queue can be put in order, whatever it holds.
LEMMA LineIsOrdered ==
    ASSUME NEW r, CopyOK(r)
    PROVE  Orders({p \in ToSet(r.queue) \X ToSet(r.queue) : Precedes(PlaceOf(p[1], r), PlaceOf(p[2], r))},
                  ToSet(r.queue))
<1> DEFINE S == ToSet(r.queue)
           pl == [t \in S |-> PlaceOf(t, r)]
           before == {p \in S \X S : Precedes(PlaceOf(p[1], r), PlaceOf(p[2], r))}
<1>1. \A t \in S : pl[t] \in Places /\ pl[t][7] = t.url
  BY PlaceIsTyped
<1>2. \A t, u \in S : <<t, u>> \in before <=> Precedes(pl[t], pl[u])
  OBVIOUS
<1>3. \A t, u \in S : t.url = u.url => t = u
  <2>1. \A t \in S : \E i \in DOMAIN r.queue : t = r.queue[i]
    BY DEF ToSet
  <2> QED
    BY <2>1 DEF CopyOK, Once
<1>4. \A t, u \in S : pl[t] = pl[u] => t = u
  BY <1>1, <1>3
<1> HIDE DEF before, pl
<1>5. \A t \in S : ~Precedes(pl[t], pl[t])
  BY <1>1, PlacesAreOrdered
<1>6. \A t, u, v \in S : Precedes(pl[t], pl[u]) /\ Precedes(pl[u], pl[v]) => Precedes(pl[t], pl[v])
  BY <1>1, PlacesAreOrdered
<1>7. \A t, u \in S : t = u \/ Precedes(pl[t], pl[u]) \/ Precedes(pl[u], pl[t])
  BY <1>1, <1>4, PlacesAreOrdered
<1>8. Orders(before, S)
  BY <1>2, <1>5, <1>6, <1>7 DEF Orders
<1> QED
  BY <1>8 DEF before

\* A sorted queue holds the same tasks.
LEMMA LineIsTheQueue ==
    ASSUME NEW r, CopyOK(r)
    PROVE  InLine(r) \in Seq(ResearchTask) /\ ToSet(InLine(r)) = ToSet(r.queue) /\ Once(InLine(r))
<1> DEFINE S == ToSet(r.queue)
           before == {p \in S \X S : Precedes(PlaceOf(p[1], r), PlaceOf(p[2], r))}
           s == InLine(r)
           n == Cardinality(S)
<1>1. IsFiniteSet(S) /\ S \subseteq ResearchTask /\ n \in Nat
  BY QueueIsFinite DEF CopyOK
<1>2. Orders(before, S)
  BY LineIsOrdered
<1>3. s = InOrder(S, before)
  BY DEF InLine
<1> HIDE DEF S, before, s
<1>4. Lists(s, S, before)
  BY <1>1, <1>2, <1>3, InOrderLists
<1> HIDE DEF n
<1>5. s \in [1 .. n -> S] /\ \A x \in S : \E i \in 1 .. n : s[i] = x
  BY <1>4 DEF Lists, n
<1>6. DOMAIN s = 1 .. n /\ ToSet(s) = {s[i] : i \in 1 .. n}
  BY <1>5 DEF ToSet
<1>7. ToSet(s) = S
  BY <1>5, <1>6
<1>8. s \in Seq(ResearchTask)
  BY <1>1, <1>5
<1>9. \A i, j \in 1 .. n : s[i] = s[j] => i = j
  <2> TAKE i, j \in 1 .. n
  <2>1. s[i] \in S /\ s[j] \in S
    BY <1>5
  <2>2. i < j <=> <<s[i], s[j]>> \in before
    BY <1>4 DEF Lists, n
  <2>3. j < i <=> <<s[j], s[i]>> \in before
    BY <1>4 DEF Lists, n
  <2>4. ASSUME s[i] = s[j] PROVE i = j
    <3>1. <<s[i], s[i]>> \notin before
      BY <1>2, <2>1 DEF Orders
    <3>2. ~(i < j) /\ ~(j < i)
      BY <2>2, <2>3, <2>4, <3>1
    <3> QED
      BY <1>1, <3>2
  <2> QED
    BY <2>4
<1>10. \A t, u \in S : t.url = u.url => t = u
  <2>1. \A t \in S : \E i \in DOMAIN r.queue : t = r.queue[i]
    BY DEF ToSet, S
  <2> QED
    BY <2>1 DEF CopyOK, Once
<1>11. Once(s)
  BY <1>5, <1>6, <1>9, <1>10 DEF Once
<1> QED
  BY <1>7, <1>8, <1>11 DEF s, S

\* The fields of a copy that gets another queue.
LEMMA WithQueue ==
    ASSUME NEW r, CopyOK(r), NEW tasks
    PROVE  [r EXCEPT !.queue = tasks] =
             [queue |-> tasks, visited |-> r.visited, facts |-> r.facts, gaps |-> r.gaps,
              cursor |-> r.cursor, rounds |-> r.rounds, queries |-> r.queries, blocks |-> r.blocks]
<1> DEFINE s == [r EXCEPT !.queue = tasks]
<1>1. r = [queue |-> r.queue, visited |-> r.visited, facts |-> r.facts, gaps |-> r.gaps,
           cursor |-> r.cursor, rounds |-> r.rounds, queries |-> r.queries, blocks |-> r.blocks]
  BY DEF CopyOK
<1>2. s = [r EXCEPT !.queue = tasks]
  OBVIOUS
<1> HIDE DEF s
<1>3. s = [queue |-> tasks, visited |-> r.visited, facts |-> r.facts, gaps |-> r.gaps,
           cursor |-> r.cursor, rounds |-> r.rounds, queries |-> r.queries, blocks |-> r.blocks]
  BY <1>1, <1>2
<1> QED
  BY <1>3 DEF s

\* Putting the queue in order changes the order and the turn.
LEMMA PrioritisedIs ==
    ASSUME NEW r, CopyOK(r)
    PROVE  /\ CopyOK(Prioritised(r)) /\ SameButOrder(Prioritised(r), r)
           /\ TasksAreCounted(r) => TasksAreCounted(Prioritised(r))
<1> DEFINE line == InLine(r)
           goal == GoalOf[Head(line).url]
           turn == IF goal = 0 THEN r.cursor ELSE (goal % Goals) + 1
           s == Prioritised(r)
<1>1. line \in Seq(ResearchTask) /\ ToSet(line) = ToSet(r.queue) /\ Once(line)
  BY LineIsTheQueue
<1>2. UrlsOf(line) = UrlsOf(r.queue)
  BY <1>1, QueueIsFinite DEF CopyOK
<1>3. s = IF line = <<>> THEN r ELSE [r EXCEPT !.queue = line, !.cursor = turn]
  BY DEF Prioritised, CopyOK
<1> HIDE DEF s, line
<1>4. CASE line = <<>>
  BY <1>3, <1>4 DEF SameButOrder, s
<1>5. CASE line # <<>>
  <2>1. Head(line).url \in ResearchUrl
    BY <1>1, <1>5, QueueIsFinite DEF ResearchTask
  <2>2. goal \in 0 .. Goals /\ Goals \in Nat \ {0}
    BY <2>1, ResearchAssumption DEF ResearchAssumption
  <2> HIDE DEF goal
  <2>3. turn \in Goal
    BY <2>2 DEF CopyOK, Goal
  <2> HIDE DEF turn
  <2>4. s = [queue |-> line, visited |-> r.visited, facts |-> r.facts, gaps |-> r.gaps,
             cursor |-> turn, rounds |-> r.rounds, queries |-> r.queries, blocks |-> r.blocks]
    BY <1>3, <1>5 DEF CopyOK
  <2>5. /\ s.queue = line /\ s.visited = r.visited /\ s.facts = r.facts /\ s.gaps = r.gaps
        /\ s.cursor = turn /\ s.rounds = r.rounds /\ s.queries = r.queries /\ s.blocks = r.blocks
    BY <2>4
  <2>6. CopyOK(s)
    BY <1>1, <1>2, <2>3, <2>4, <2>5 DEF CopyOK
  <2>7. SameButOrder(s, r)
    BY <1>1, <2>5 DEF SameButOrder
  <2>8. TasksAreCounted(r) => TasksAreCounted(s)
    BY <1>1, <2>5 DEF TasksAreCounted
  <2> QED
    BY <2>6, <2>7, <2>8 DEF s
<1> QED
  BY <1>4, <1>5

\* The queue that is left when its first task is taken.
LEMMA TailIs ==
    ASSUME NEW tasks \in Seq(ResearchTask), Once(tasks), tasks # <<>>
    PROVE  /\ Tail(tasks) \in Seq(ResearchTask) /\ Once(Tail(tasks))
           /\ ToSet(Tail(tasks)) \subseteq ToSet(tasks)
           /\ UrlsOf(Tail(tasks)) = UrlsOf(tasks) \ {Head(tasks).url}
           /\ Head(tasks) \in ToSet(tasks) /\ Head(tasks) \in ResearchTask
           /\ Head(tasks).url \in UrlsOf(tasks) /\ Head(tasks).url \in ResearchUrl
<1> DEFINE rest == Tail(tasks)
<1>1. Head(tasks) \in ToSet(tasks) /\ rest \in Seq(ResearchTask) /\ ToSet(tasks) = {Head(tasks)} \cup ToSet(rest)
  BY QueueIsFinite
<1>2. DOMAIN tasks = 1 .. Len(tasks) /\ Len(tasks) \in Nat \ {0} /\ Head(tasks) = tasks[1]
  OBVIOUS
<1>3. DOMAIN rest = 1 .. Len(tasks) - 1 /\ \A i \in 1 .. Len(tasks) - 1 : rest[i] = tasks[i + 1]
  OBVIOUS
<1> HIDE DEF rest
<1>4. \A i \in 1 .. Len(tasks) - 1 : i + 1 \in DOMAIN tasks /\ i + 1 # 1
  BY <1>2
<1>5. ASSUME NEW i \in DOMAIN rest, NEW j \in DOMAIN rest, rest[i].url = rest[j].url PROVE i = j
  <2>1. i + 1 = j + 1
    BY <1>3, <1>4, <1>5 DEF Once
  <2> QED
    BY <1>3, <2>1
<1>6. \A i \in DOMAIN rest : rest[i].url # tasks[1].url
  BY <1>2, <1>3, <1>4 DEF Once
<1>7. UrlsOf(tasks) = {Head(tasks).url} \cup UrlsOf(rest)
  BY <1>1, QueueIsFinite
<1>8. Head(tasks).url \notin UrlsOf(rest)
  BY <1>2, <1>6 DEF UrlsOf
<1>9. Once(rest)
  BY <1>5 DEF Once
<1>10. Head(tasks) \in ResearchTask
  BY <1>2
<1> QED
  BY <1>1, <1>7, <1>8, <1>9, <1>10 DEF rest, ResearchTask

\* Merging adds a task for every page that is neither queued nor read.
LEMMA MergedIs ==
    ASSUME NEW r, r.queue \in Seq(ResearchTask), Once(r.queue), NEW urls, urls \subseteq ResearchUrl,
           NEW branch, NEW level, \A u \in ResearchUrl : [url |-> u, branch |-> branch, level |-> level] \in ResearchTask
    PROVE  LET tasks == Merged(r, urls, branch, level).queue
               new   == urls \ (r.visited \cup UrlsOf(r.queue))
           IN /\ Merged(r, urls, branch, level) = [r EXCEPT !.queue = tasks]
              /\ tasks \in Seq(ResearchTask) /\ Once(tasks)
              /\ UrlsOf(tasks) = UrlsOf(r.queue) \cup new
              /\ ToSet(tasks) = ToSet(r.queue)
                                \cup {[url |-> u, branch |-> branch, level |-> level] : u \in new}
<1> DEFINE new == urls \ (r.visited \cup UrlsOf(r.queue))
           s == Ascending(new)
           more == [i \in DOMAIN s |-> [url |-> s[i], branch |-> branch, level |-> level]]
           tasks == r.queue \o more
           n == Cardinality(new)
           m == Len(r.queue)
<1>1. new \in SUBSET ResearchUrl /\ IsFiniteSet(new) /\ new \subseteq Int
  <2>1. IsFiniteSet(ResearchUrl) /\ ResearchUrl \subseteq Nat \ {0}
    BY ResearchAssumption DEF ResearchAssumption
  <2>2. new \in SUBSET ResearchUrl
    OBVIOUS
  <2>3. new \subseteq Int
    <3>1. \A u \in ResearchUrl : u \in Nat
      BY <2>1
    <3> QED
      BY <2>2, <3>1
  <2> QED
    BY <2>1, <2>2, <2>3, FS_Subset
<1>2. /\ n \in Nat /\ s \in [1 .. n -> new] /\ \A x \in new : \E i \in 1 .. n : s[i] = x
      /\ \A i, j \in 1 .. n : i < j <=> s[i] < s[j]
  BY <1>1, AscendingLists
<1> HIDE DEF new, s, n
<1>3. DOMAIN s = 1 .. n /\ \A i \in 1 .. n : s[i] \in new /\ s[i] \in ResearchUrl /\ s[i] \in Int
  BY <1>1, <1>2
<1>4. \A i, j \in 1 .. n : s[i] = s[j] => i = j
  <2> TAKE i, j \in 1 .. n
  <2>1. s[i] = s[j] => ~(i < j) /\ ~(j < i)
    BY <1>2, <1>3
  <2> QED
    BY <1>2, <2>1
<1>5. /\ more \in Seq(ResearchTask) /\ Len(more) = n
      /\ \A i \in 1 .. n : more[i] = [url |-> s[i], branch |-> branch, level |-> level] /\ more[i].url = s[i]
  BY <1>2, <1>3
<1> HIDE DEF more
<1>6. m \in Nat /\ DOMAIN r.queue = 1 .. m
  OBVIOUS
<1>7. /\ tasks \in Seq(ResearchTask) /\ DOMAIN tasks = 1 .. m + n
      /\ \A i \in 1 .. m : tasks[i] = r.queue[i]
      /\ \A i \in 1 .. n : tasks[m + i] = more[i]
  <2>1. r.queue \in Seq(ResearchTask) /\ more \in Seq(ResearchTask) /\ Len(more) = n
    BY <1>5
  <2>2. tasks \in Seq(ResearchTask) /\ Len(tasks) = m + n
    BY <2>1
  <2>3. \A i \in 1 .. m : tasks[i] = r.queue[i]
    BY <1>2, <1>6, <2>1
  <2>4. \A i \in 1 .. n : tasks[m + i] = more[i]
    BY <1>2, <1>6, <2>1
  <2> HIDE DEF tasks
  <2>5. DOMAIN tasks = 1 .. m + n
    BY <2>2
  <2> QED
    BY <2>2, <2>3, <2>4, <2>5
<1>8. /\ \A i \in 1 .. m : i \in 1 .. m + n
      /\ \A i \in 1 .. n : m + i \in 1 .. m + n
      /\ \A i \in 1 .. m + n : i \in 1 .. m \/ \E k \in 1 .. n : i = m + k
  <2>1. ASSUME NEW i \in 1 .. m + n, ~(i \in 1 .. m) PROVE \E k \in 1 .. n : i = m + k
    <3>1. i - m \in 1 .. n /\ i = m + (i - m)
      BY <1>2, <1>6, <2>1
    <3> QED
      BY <3>1
  <2> QED
    BY <1>2, <1>6, <2>1
<1> HIDE DEF tasks, m
<1>9. ToSet(r.queue) = {r.queue[i] : i \in 1 .. m} /\ ToSet(tasks) = {tasks[i] : i \in 1 .. m + n}
  BY <1>6, <1>7 DEF ToSet
<1>10. ToSet(tasks) = ToSet(r.queue) \cup {more[i] : i \in 1 .. n}
  BY <1>7, <1>8, <1>9
<1>11. {more[i] : i \in 1 .. n} = {[url |-> u, branch |-> branch, level |-> level] : u \in new}
  BY SMTT(30), <1>2, <1>5
<1>12. ToSet(tasks) = ToSet(r.queue) \cup {[url |-> u, branch |-> branch, level |-> level] : u \in new}
  BY <1>10, <1>11
<1>13. UrlsOf(tasks) = UrlsOf(r.queue) \cup new
  <2>1. UrlsOf(tasks) = {t.url : t \in ToSet(tasks)} /\ UrlsOf(r.queue) = {t.url : t \in ToSet(r.queue)}
    BY <1>7, QueueIsFinite
  <2>2. \A u \in new : [url |-> u, branch |-> branch, level |-> level].url = u
    OBVIOUS
  <2>3. ASSUME NEW x \in UrlsOf(tasks) PROVE x \in UrlsOf(r.queue) \cup new
    BY <1>12, <2>1, <2>2
  <2>4. ASSUME NEW x \in UrlsOf(r.queue) PROVE x \in UrlsOf(tasks)
    BY <1>12, <2>1
  <2>5. ASSUME NEW x \in new PROVE x \in UrlsOf(tasks)
    <3>1. [url |-> x, branch |-> branch, level |-> level] \in ToSet(tasks)
      BY <1>12
    <3>2. [url |-> x, branch |-> branch, level |-> level].url = x
      OBVIOUS
    <3> QED
      BY <2>1, <3>1, <3>2
  <2> QED
    BY <2>3, <2>4, <2>5
<1>14. \A i \in 1 .. m : r.queue[i].url \in UrlsOf(r.queue)
  BY <1>6 DEF UrlsOf
<1>15. \A i \in 1 .. n : more[i].url \notin UrlsOf(r.queue)
  BY <1>3, <1>5 DEF new
<1>16. ASSUME NEW i \in 1 .. m + n, NEW j \in 1 .. m + n, tasks[i].url = tasks[j].url PROVE i = j
  <2>1. CASE i \in 1 .. m /\ j \in 1 .. m
    BY <1>6, <1>7, <1>16, <2>1 DEF Once
  <2>2. ASSUME i \in 1 .. m, NEW k \in 1 .. n, j = m + k PROVE FALSE
    BY <1>7, <1>14, <1>15, <1>16, <2>2
  <2>3. ASSUME j \in 1 .. m, NEW k \in 1 .. n, i = m + k PROVE FALSE
    BY <1>7, <1>14, <1>15, <1>16, <2>3
  <2>4. ASSUME NEW k \in 1 .. n, i = m + k, NEW l \in 1 .. n, j = m + l PROVE i = j
    <3>1. s[k] = s[l]
      BY <1>5, <1>7, <1>16, <2>4
    <3> QED
      BY <1>4, <2>4, <3>1
  <2> QED
    BY <1>8, <2>1, <2>2, <2>3, <2>4
<1>17. Once(tasks)
  BY <1>7, <1>16 DEF Once
<1>18. Merged(r, urls, branch, level) = [r EXCEPT !.queue = tasks]
  BY DEF Merged, tasks, more, s, new
<1> QED
  BY <1>7, <1>12, <1>13, <1>17, <1>18 DEF new

--------------------------------------------------------------------------------
(* The branches and what they may ask. *)

\* The next step is one that comes later and is open, or the end.
LEMMA NextStep ==
    ASSUME NEW n \in 0 .. 5, NEW t, NEW r
    PROVE  \/ StepAfter(n, t, r) = "commit"
           \/ /\ StepAfter(n, t, r) \in Branch /\ Place(StepAfter(n, t, r)) > n
              /\ MayExpand(StepAfter(n, t, r), t, r)
<1> DEFINE open == {i \in n + 1 .. Len(Branches) : MayExpand(Branches[i], t, r)}
           first == CHOOSE i \in open : \A j \in open : i <= j
<1>1. Len(Branches) = 5
  BY DEF Branches
<1>2. open \subseteq 1 .. 5 /\ \A i \in open : i > n /\ MayExpand(Branches[i], t, r)
  BY <1>1
<1>3. StepAfter(n, t, r) = IF open = {} THEN "commit" ELSE Branches[first]
  BY DEF StepAfter
<1> HIDE DEF open
<1>4. ASSUME open # {} PROVE first \in open
  <2>1. open \subseteq Nat
    BY <1>2
  <2>2. \E i \in open : \A j \in open : i <= j
    BY <1>4, <2>1, NatMin
  <2> QED
    BY <2>2
<1> HIDE DEF first
<1>5. ASSUME open # {} PROVE Branches[first] \in Branch /\ Place(Branches[first]) = first
  BY <1>2, <1>4, <1>5, BranchFacts
<1> QED
  BY <1>2, <1>3, <1>4, <1>5

\* Of a list of positions, the first few are not more than that.
LEMMA FirstAreFew ==
    ASSUME NEW N \in Nat, NEW new, new \subseteq 1 .. N, NEW share \in Nat
    PROVE  LET top == {j \in new : Cardinality({k \in new : k <= j}) <= share}
           IN  IsFiniteSet(top) /\ Cardinality(top) <= share
<1> DEFINE upTo(j) == {k \in new : k <= j}
           top == {j \in new : Cardinality(upTo(j)) <= share}
           rank == [j \in top |-> Cardinality(upTo(j))]
<1>1. IsFiniteSet(1 .. N) /\ IsFiniteSet(1 .. share) /\ Cardinality(1 .. share) = share
  BY FS_Interval
<1>2. IsFiniteSet(new)
  BY <1>1, FS_Subset
<1>3. \A j \in new : upTo(j) \in SUBSET new /\ IsFiniteSet(upTo(j)) /\ Cardinality(upTo(j)) \in Nat
  BY <1>2, FS_Subset, FS_CardinalityType
<1>4. ASSUME NEW i \in new, NEW j \in new, i < j PROVE Cardinality(upTo(i)) < Cardinality(upTo(j))
  <2>1. i \in Nat /\ j \in Nat
    OBVIOUS
  <2>2. \A k \in new : k \in Nat
    OBVIOUS
  <2>3. upTo(i) \in SUBSET upTo(j)
    <3>1. ASSUME NEW k \in new, k <= i PROVE k <= j
      BY <1>4, <2>1, <2>2, <3>1
    <3> QED
      BY <3>1
  <2>4. j \in upTo(j) /\ j \notin upTo(i)
    BY <1>4, <2>1
  <2>5. Cardinality(upTo(i)) <= Cardinality(upTo(j)) /\ Cardinality(upTo(i)) # Cardinality(upTo(j))
    BY <1>3, <2>3, <2>4, FS_Subset
  <2> QED
    BY <1>3, <2>5
<1>5. ASSUME NEW j \in new PROVE Cardinality(upTo(j)) >= 1
  <2>1. j \in upTo(j)
    OBVIOUS
  <2>2. Cardinality(upTo(j)) # 0
    BY <1>3, <2>1, FS_EmptySet
  <2> QED
    BY <1>3, <2>2
<1>6. rank \in [top -> 1 .. share]
  <2>1. \A j \in top : j \in new /\ Cardinality(upTo(j)) <= share
    OBVIOUS
  <2>2. \A j \in top : Cardinality(upTo(j)) \in 1 .. share
    BY <1>3, <1>5, <2>1
  <2> QED
    BY <2>2
<1>7. ASSUME NEW i \in top, NEW j \in top, rank[i] = rank[j] PROVE i = j
  <2>1. i \in Nat /\ j \in Nat /\ i \in new /\ j \in new
    OBVIOUS
  <2>2. Cardinality(upTo(i)) = Cardinality(upTo(j)) /\ Cardinality(upTo(i)) \in Nat
    BY <1>3, <1>7, <2>1
  <2>3. ~(i < j) /\ ~(j < i)
    BY <1>4, <2>1, <2>2
  <2> QED
    BY <2>1, <2>3
<1>8. rank \in Injection(top, 1 .. share)
  BY <1>6, <1>7 DEF Injection, IsInjective
<1>9. IsFiniteSet(top) /\ Cardinality(top) <= share
  BY <1>1, <1>8, FS_Injection
<1> QED
  BY <1>9

\* What a branch that counts its queries may still ask.
LEMMA ShareIsLeft ==
    ASSUME NEW r, CopyOK(r), NEW b \in {"area", "history"}
    PROVE  /\ ShareOf(b, r) \in Nat /\ ShareOf(b, r) <= PerSearch
           /\ ShareOf(b, r) + Cardinality(r.queries[b]) <= QueryLimit
<1> DEFINE left == QueryLimit - Cardinality(r.queries[b])
           S == {PerSearch} \cup (IF b = "history" THEN {} ELSE {BudgetLeft(r)})
                            \cup (IF b \in Rounds THEN {} ELSE {left})
<1>1. b \in Branch \ Rounds
  BY BranchFacts
<1>2. PerSearch \in Nat /\ QueryLimit \in Nat /\ PageLimit \in Nat /\ IsFiniteSet(ResearchUrl)
  BY ResearchAssumption DEF ResearchAssumption
<1>3. Cardinality(r.queries[b]) \in Nat /\ Cardinality(r.queries[b]) <= QueryLimit
  BY <1>1, FS_CardinalityType DEF CopyOK
<1>4. left \in Nat
  BY <1>2, <1>3
<1>5. BudgetLeft(r) \in Nat
  <2>1. r.visited \in SUBSET ResearchUrl
    BY DEF CopyOK
  <2>2. Cardinality(r.visited) \in Nat
    BY <1>2, <2>1, FS_Subset, FS_CardinalityType
  <2> QED
    BY <1>2, <2>2 DEF BudgetLeft
<1>6. S \subseteq Nat /\ PerSearch \in S /\ left \in S
  BY <1>1, <1>2, <1>4, <1>5
<1>7. ShareOf(b, r) = Least(S)
  BY DEF ShareOf
<1> HIDE DEF S
<1>8. \E m \in S : \A n \in S : m <= n
  BY <1>6, NatMin
<1>9. Least(S) \in S /\ \A n \in S : Least(S) <= n
  BY <1>8 DEF Least
<1>10. Least(S) <= PerSearch /\ Least(S) <= left /\ Least(S) \in Nat
  BY <1>6, <1>9
<1> HIDE DEF left
<1>11. ShareOf(b, r) <= left /\ left = QueryLimit - Cardinality(r.queries[b])
  BY <1>7, <1>10 DEF left
<1> QED
  BY <1>2, <1>3, <1>7, <1>10, <1>11

\* The queries of such a branch are new ones, and no more than it may ask.
LEMMA NewQueriesAreFew ==
    ASSUME NEW r, CopyOK(r), NEW b \in {"area", "history"}, NEW t
    PROVE  LET new == NewQueries(b, t, r)
               all == r.queries[b] \cup new
           IN /\ IsFiniteSet(new) /\ Cardinality(new) \in 0 .. PerSearch
              /\ IsFiniteSet(all) /\ Cardinality(r.queries[b]) \in Nat
              /\ Cardinality(all) = Cardinality(r.queries[b]) + Cardinality(new)
              /\ Cardinality(all) <= QueryLimit
<1> DEFINE plan == PlanOf(b, t, r)
           fresh == {i \in DOMAIN plan : plan[i] \notin r.queries[b]}
           share == ShareOf(b, r)
           top == {j \in fresh : Cardinality({k \in fresh : k <= j}) <= share}
           new == NewQueries(b, t, r)
           take == [i \in top |-> plan[i]]
<1>1. PICK N \in Nat : DOMAIN plan = 1 .. N
  <2>1. CASE b = "area"
    <3>1. plan = AreaPlan(t)
      BY <2>1 DEF PlanOf
    <3> DEFINE terms == Ascending(AreaGoals)
    <3>2. Len(terms) \in Nat
      <4>1. AreaGoals \subseteq 1 .. Goals /\ Goals \in Nat
        BY ResearchAssumption DEF ResearchAssumption
      <4>2. IsFiniteSet(1 .. Goals) /\ AreaGoals \subseteq Int
        BY <4>1, FS_Interval
      <4>3. IsFiniteSet(AreaGoals)
        BY <4>1, <4>2, FS_Subset
      <4> QED
        BY <4>2, <4>3, AscendingLists
    <3> HIDE DEF terms
    <3>3. DOMAIN EachOf(<<t.url>>, terms) = 1 .. 1 * Len(terms)
      BY DEF EachOf
    <3>4. 1 * Len(terms) \in Nat
      BY <3>2
    <3>5. CASE t.useful
      BY <3>1, <3>3, <3>4, <3>5 DEF AreaPlan, terms
    <3>6. CASE ~t.useful
      <4>1. plan = <<>>
        BY <3>1, <3>6 DEF AreaPlan
      <4> QED
        BY <4>1
    <3> QED
      BY <3>5, <3>6
  <2>2. CASE b = "history"
    <3>1. plan = HistoryPlan(t)
      BY <2>2 DEF PlanOf
    <3> DEFINE terms == <<"history", "former name", "construction">>
    <3>2. Len(terms) = 3
      OBVIOUS
    <3> HIDE DEF terms
    <3>3. DOMAIN EachOf(<<t.url>>, terms) = 1 .. 1 * Len(terms)
      BY DEF EachOf
    <3>4. 1 * Len(terms) \in Nat
      BY <3>2
    <3>5. CASE t.useful
      BY <3>1, <3>3, <3>4, <3>5 DEF HistoryPlan, terms
    <3>6. CASE ~t.useful
      <4>1. plan = <<>>
        BY <3>1, <3>6 DEF HistoryPlan
      <4> QED
        BY <4>1
    <3> QED
      BY <3>5, <3>6
  <2> QED
    BY <2>1, <2>2
<1>2. /\ share \in Nat /\ share <= PerSearch /\ share + Cardinality(r.queries[b]) <= QueryLimit
  BY ShareIsLeft
<1>3. new = {plan[i] : i \in top}
  BY DEF NewQueries
<1> HIDE DEF plan, share, new
<1>4. fresh \subseteq 1 .. N
  BY <1>1
<1>5. \A i \in fresh : plan[i] \notin r.queries[b]
  OBVIOUS
<1> HIDE DEF fresh
<1>6. IsFiniteSet(top) /\ Cardinality(top) <= share
  BY <1>1, <1>2, <1>4, FirstAreFew
<1>7. take \in [top -> {plan[i] : i \in top}] /\ {take[i] : i \in top} = new
  BY <1>3
<1>8. \A q \in new : q \notin r.queries[b]
  BY <1>3, <1>5
<1> HIDE DEF top, take
<1>9. IsFiniteSet(new) /\ Cardinality(new) \in Nat /\ Cardinality(new) <= Cardinality(top)
  <2> DEFINE T == {plan[i] : i \in top}
  <2>1. take \in [top -> T]
    BY <1>7
  <2> HIDE DEF T
  <2>2. /\ IsFiniteSet({take[i] : i \in top}) /\ Cardinality({take[i] : i \in top}) \in Nat
        /\ Cardinality({take[i] : i \in top}) <= Cardinality(top)
    BY <1>6, <2>1, ValuesAreFinite
  <2> QED
    BY <1>7, <2>2
<1>10. Cardinality(top) \in Nat
  BY <1>6, FS_CardinalityType
<1>11. PerSearch \in Nat /\ QueryLimit \in Nat
  BY ResearchAssumption DEF ResearchAssumption
<1>12. Cardinality(new) \in 0 .. PerSearch
  BY <1>2, <1>6, <1>9, <1>10, <1>11
<1>13. b \in Branch \ Rounds
  BY BranchFacts
<1>14. IsFiniteSet(r.queries[b]) /\ Cardinality(r.queries[b]) \in Nat
  BY <1>13, FS_CardinalityType DEF CopyOK
<1>15. r.queries[b] \cap new = {}
  BY <1>8
<1> DEFINE all == r.queries[b] \cup new
<1>16. IsFiniteSet(all) /\ Cardinality(all) = Cardinality(r.queries[b]) + Cardinality(new)
  <2>1. Cardinality(r.queries[b] \cap new) = 0
    BY <1>15, FS_EmptySet
  <2>2. /\ IsFiniteSet(all)
        /\ Cardinality(all) = Cardinality(r.queries[b]) + Cardinality(new) - Cardinality(r.queries[b] \cap new)
    BY <1>9, <1>14, FS_Union
  <2> QED
    BY <1>9, <1>14, <2>1, <2>2
<1>17. Cardinality(all) <= QueryLimit
  BY <1>2, <1>6, <1>9, <1>10, <1>11, <1>14, <1>16
<1> QED
  BY <1>9, <1>12, <1>14, <1>16, <1>17 DEF new

--------------------------------------------------------------------------------
(* Copies: what the operators of the loop do to one. *)

\* A copy with more tasks is a copy.
LEMMA MergedKeeps ==
    ASSUME NEW r, CopyOK(r), NEW urls, urls \subseteq ResearchUrl, NEW branch, NEW level,
           \A u \in ResearchUrl : [url |-> u, branch |-> branch, level |-> level] \in ResearchTask
    PROVE  LET s == Merged(r, urls, branch, level)
           IN /\ CopyOK(s)
              /\ s.visited = r.visited /\ s.rounds = r.rounds /\ s.queries = r.queries /\ s.blocks = r.blocks /\ s.facts = r.facts
              /\ s.cursor = r.cursor
              /\ UrlsOf(s.queue) = UrlsOf(r.queue) \cup (urls \ (r.visited \cup UrlsOf(r.queue)))
              /\ \A t \in ToSet(s.queue) : t \in ToSet(r.queue) \/ (t.branch = branch /\ t.level = level)
<1> DEFINE s == Merged(r, urls, branch, level)
           new == urls \ (r.visited \cup UrlsOf(r.queue))
<1>1. /\ s = [r EXCEPT !.queue = s.queue] /\ s.queue \in Seq(ResearchTask) /\ Once(s.queue)
      /\ UrlsOf(s.queue) = UrlsOf(r.queue) \cup new
      /\ ToSet(s.queue) = ToSet(r.queue)
                          \cup {[url |-> u, branch |-> branch, level |-> level] : u \in new}
  <2>1. r.queue \in Seq(ResearchTask) /\ Once(r.queue)
    BY DEF CopyOK
  <2> QED
    BY <2>1, MergedIs
<1> HIDE DEF s
<1>2. s = [queue |-> s.queue, visited |-> r.visited, facts |-> r.facts, gaps |-> r.gaps,
           cursor |-> r.cursor, rounds |-> r.rounds, queries |-> r.queries, blocks |-> r.blocks]
  BY <1>1, WithQueue
<1>3. /\ s.visited = r.visited /\ s.facts = r.facts /\ s.gaps = r.gaps
      /\ s.cursor = r.cursor /\ s.rounds = r.rounds /\ s.queries = r.queries /\ s.blocks = r.blocks
  BY <1>2
<1>4. r.visited \subseteq ResearchUrl \ UrlsOf(s.queue)
  BY <1>1 DEF CopyOK
<1>5. CopyOK(s)
  BY <1>1, <1>2, <1>3, <1>4 DEF CopyOK
<1>6. \A t \in ToSet(s.queue) : t \in ToSet(r.queue) \/ (t.branch = branch /\ t.level = level)
  <2> DEFINE more == {[url |-> u, branch |-> branch, level |-> level] : u \in new}
  <2>1. \A t \in more : t.branch = branch /\ t.level = level
    OBVIOUS
  <2>2. ToSet(s.queue) = ToSet(r.queue) \cup more
    BY <1>1
  <2> HIDE DEF more
  <2> QED
    BY <2>1, <2>2
<1> QED
  BY <1>1, <1>3, <1>5, <1>6 DEF s

\* What a branch may still count.
MayCount(r, b, queries) ==
    /\ b \in Rounds => r.rounds[b] < RoundLimit
    /\ b \notin Rounds => /\ IsFiniteSet(r.queries[b] \cup queries)
                          /\ Cardinality(r.queries[b] \cup queries) <= QueryLimit

\* Counting changes what is counted.
LEMMA CountedKeeps ==
    ASSUME NEW r, CopyOK(r), NEW b \in Branch, NEW queries, MayCount(r, b, queries)
    PROVE  LET s == Counted(r, b, queries)
           IN /\ CopyOK(s) /\ s.queue = r.queue /\ s.visited = r.visited /\ s.cursor = r.cursor /\ s.blocks = r.blocks
              /\ \A c \in Branch \ {b} : s.rounds[c] = r.rounds[c] /\ s.queries[c] = r.queries[c]
              /\ s.rounds[b] = (IF b \in Rounds THEN r.rounds[b] + 1 ELSE r.rounds[b])
              /\ s.queries[b] = r.queries[b] \cup queries
<1> DEFINE s == Counted(r, b, queries)
           asked == [r.queries EXCEPT ![b] = @ \cup queries]
           counted == [r.rounds EXCEPT ![b] = IF b \in Rounds THEN @ + 1 ELSE @]
<1>0. r = [queue |-> r.queue, visited |-> r.visited, facts |-> r.facts, gaps |-> r.gaps,
           cursor |-> r.cursor, rounds |-> r.rounds, queries |-> r.queries, blocks |-> r.blocks]
  BY DEF CopyOK
<1>1. s = [queue |-> r.queue, visited |-> r.visited, facts |-> r.facts, gaps |-> r.gaps,
           cursor |-> r.cursor, rounds |-> counted, queries |-> asked, blocks |-> r.blocks]
  <2>1. s = [r EXCEPT !.queries = asked, !.rounds = counted]
    BY DEF Counted
  <2> HIDE DEF s, asked, counted
  <2> QED
    BY <2>1, <1>0
<1> HIDE DEF s
<1>2. /\ s.queue = r.queue /\ s.visited = r.visited /\ s.facts = r.facts /\ s.gaps = r.gaps
      /\ s.cursor = r.cursor /\ s.rounds = counted /\ s.queries = asked /\ s.blocks = r.blocks
  BY <1>1
<1>3. /\ counted \in [Branch -> Nat] /\ \A c \in Branch \ {b} : counted[c] = r.rounds[c]
      /\ counted[b] = (IF b \in Rounds THEN r.rounds[b] + 1 ELSE r.rounds[b])
  BY DEF CopyOK
<1>4. /\ asked = [c \in Branch |-> asked[c]] /\ \A c \in Branch \ {b} : asked[c] = r.queries[c]
      /\ asked[b] = r.queries[b] \cup queries
  BY DEF CopyOK
<1> HIDE DEF asked, counted
<1>5. \A c \in Rounds : counted[c] <= RoundLimit
  <2>1. RoundLimit \in Nat /\ r.rounds[b] \in Nat
    BY ResearchAssumption DEF ResearchAssumption, CopyOK
  <2>2. ASSUME NEW c \in Rounds PROVE counted[c] <= RoundLimit
    <3>1. c \in Branch
      BY BranchFacts
    <3>2. CASE c = b
      BY <1>3, <2>1, <3>2 DEF MayCount
    <3>3. CASE c # b
      BY <1>3, <3>1, <3>3 DEF CopyOK
    <3> QED
      BY <3>2, <3>3
  <2> QED
    BY <2>2
<1>6. \A c \in Branch \ Rounds : IsFiniteSet(asked[c]) /\ Cardinality(asked[c]) <= QueryLimit
  BY <1>4 DEF CopyOK, MayCount
<1>7. CopyOK(s)
  BY <1>1, <1>2, <1>3, <1>4, <1>5, <1>6 DEF CopyOK
<1> QED
  BY <1>2, <1>3, <1>4, <1>7 DEF s

\* A read page, of which no task is left, is remembered.
LEMMA CommittedKeeps ==
    ASSUME NEW r, CopyOK(r), task.url \in ResearchUrl, task.url \notin UrlsOf(r.queue)
    PROVE  LET s == Committed(r)
           IN /\ CopyOK(s) /\ s.queue = r.queue /\ s.visited = r.visited \cup {task.url}
              /\ s.rounds = r.rounds /\ s.queries = r.queries /\ s.blocks = r.blocks
              /\ s.cursor = r.cursor /\ s.gaps = r.gaps
<1> DEFINE s == Committed(r)
           read == r.visited \cup {task.url}
<1>0. r = [queue |-> r.queue, visited |-> r.visited, facts |-> r.facts, gaps |-> r.gaps,
           cursor |-> r.cursor, rounds |-> r.rounds, queries |-> r.queries, blocks |-> r.blocks]
  BY DEF CopyOK
<1>1. s = [queue |-> r.queue, visited |-> read, facts |-> r.facts, gaps |-> r.gaps,
           cursor |-> r.cursor, rounds |-> r.rounds, queries |-> r.queries, blocks |-> r.blocks]
  <2>1. s = [r EXCEPT !.visited = read]
    BY DEF Committed
  <2> HIDE DEF s, read
  <2> QED
    BY <2>1, <1>0
<1> HIDE DEF s
<1>2. /\ s.queue = r.queue /\ s.visited = read /\ s.facts = r.facts /\ s.gaps = r.gaps
      /\ s.cursor = r.cursor /\ s.rounds = r.rounds /\ s.queries = r.queries /\ s.blocks = r.blocks
  BY <1>1
<1>3. read \subseteq ResearchUrl \ UrlsOf(r.queue)
  BY DEF CopyOK
<1> HIDE DEF read
<1>4. CopyOK(s)
  BY <1>1, <1>2, <1>3 DEF CopyOK
<1> QED
  BY <1>2, <1>4 DEF s, read

\* The fields of a copy that gets another queue and other pages that were read.
LEMMA WithQueueAndVisited ==
    ASSUME NEW r, CopyOK(r), NEW tasks, NEW read
    PROVE  [r EXCEPT !.queue = tasks, !.visited = read] =
             [queue |-> tasks, visited |-> read, facts |-> r.facts, gaps |-> r.gaps,
              cursor |-> r.cursor, rounds |-> r.rounds, queries |-> r.queries, blocks |-> r.blocks]
<1>1. r = [queue |-> r.queue, visited |-> r.visited, facts |-> r.facts, gaps |-> r.gaps,
           cursor |-> r.cursor, rounds |-> r.rounds, queries |-> r.queries, blocks |-> r.blocks]
  BY DEF CopyOK
<1> DEFINE s == [r EXCEPT !.queue = tasks, !.visited = read]
<1>2. s = [r EXCEPT !.queue = tasks, !.visited = read]
  OBVIOUS
<1> HIDE DEF s
<1>3. s = [queue |-> tasks, visited |-> read, facts |-> r.facts, gaps |-> r.gaps,
           cursor |-> r.cursor, rounds |-> r.rounds, queries |-> r.queries, blocks |-> r.blocks]
  BY <1>1, <1>2
<1> QED
  BY <1>3 DEF s

\* The loop without the next task, which is not tried again.
LEMMA DroppedKeeps ==
    ASSUME NEW r, CopyOK(r), r.queue # <<>>, TasksAreCounted(r)
    PROVE  LET s == [r EXCEPT !.queue = Tail(r.queue), !.visited = r.visited \cup {Head(r.queue).url}]
           IN /\ CopyOK(s) /\ TasksAreCounted(s) /\ s.rounds = r.rounds /\ s.queries = r.queries /\ s.blocks = r.blocks
              /\ UrlsOf(s.queue) \cup s.visited = UrlsOf(r.queue) \cup r.visited
              /\ r.visited \subseteq s.visited
<1> DEFINE rest == Tail(r.queue)
           read == r.visited \cup {Head(r.queue).url}
           s == [r EXCEPT !.queue = rest, !.visited = read]
<1>1. /\ rest \in Seq(ResearchTask) /\ Once(rest) /\ ToSet(rest) \subseteq ToSet(r.queue)
      /\ UrlsOf(rest) = UrlsOf(r.queue) \ {Head(r.queue).url}
      /\ Head(r.queue).url \in UrlsOf(r.queue) /\ Head(r.queue).url \in ResearchUrl
  BY TailIs DEF CopyOK
<1>3. read \subseteq ResearchUrl \ UrlsOf(rest)
  BY <1>1 DEF CopyOK
<1>4. UrlsOf(rest) \cup read = UrlsOf(r.queue) \cup r.visited
  BY <1>1
<1> HIDE DEF read, rest
<1>2. s = [queue |-> rest, visited |-> read, facts |-> r.facts, gaps |-> r.gaps,
           cursor |-> r.cursor, rounds |-> r.rounds, queries |-> r.queries, blocks |-> r.blocks]
  BY WithQueueAndVisited
<1> HIDE DEF s
<1>5. /\ s.queue = rest /\ s.visited = read /\ s.facts = r.facts /\ s.gaps = r.gaps
      /\ s.cursor = r.cursor /\ s.rounds = r.rounds /\ s.queries = r.queries /\ s.blocks = r.blocks
  BY <1>2
<1>6. CopyOK(s)
  BY <1>1, <1>2, <1>3, <1>5 DEF CopyOK
<1>7. TasksAreCounted(s)
  BY <1>1, <1>5 DEF TasksAreCounted
<1> QED
  BY <1>4, <1>5, <1>6, <1>7 DEF s, rest, read

\* What a cut leaves to pay.
LEMMA OneMoreCut ==
    ASSUME NEW e \in Nat
    PROVE  /\ PerSearch \in Nat /\ e * PerSearch \in Nat
           /\ (e + 1) * PerSearch = e * PerSearch + PerSearch
<1>1. PerSearch \in Nat
  BY ResearchAssumption DEF ResearchAssumption
<1> QED
  BY <1>1

\* What is counted is bounded.
LEMMA CountedIsBounded ==
    ASSUME NEW r, CopyOK(r), NEW s \in [Branch -> Nat], NEW e \in Nat,
           \A b \in Branch : s[b] <= IF b \in Rounds THEN r.rounds[b] + e
                                     ELSE Cardinality(r.queries[b]) + e * PerSearch
    PROVE  \A b \in Branch : s[b] <= IF b \in Rounds THEN RoundLimit + e ELSE QueryLimit + e * PerSearch
<1> TAKE b \in Branch
<1>1. RoundLimit \in Nat /\ QueryLimit \in Nat
  BY ResearchAssumption DEF ResearchAssumption
<1>2. e * PerSearch \in Nat
  BY OneMoreCut
<1>3. CASE b \in Rounds
  <2>1. r.rounds[b] \in Nat /\ r.rounds[b] <= RoundLimit
    BY <1>3 DEF CopyOK
  <2> QED
    BY <1>1, <1>3, <2>1
<1>4. CASE b \notin Rounds
  <2> DEFINE paid == e * PerSearch
             n == Cardinality(r.queries[b])
  <2>1. n \in Nat /\ n <= QueryLimit
    BY <1>4, FS_CardinalityType DEF CopyOK
  <2>2. s[b] <= n + paid /\ paid \in Nat /\ s[b] \in Nat
    BY <1>2, <1>4
  <2> HIDE DEF paid, n
  <2>3. s[b] <= QueryLimit + paid
    BY <1>1, <2>1, <2>2
  <2> QED
    BY <1>4, <2>3 DEF paid
<1> QED
  BY <1>3, <1>4

\* What the row and the loop have in common after a task keeps the invariant.
LEMMA StoredKeeps ==
    ASSUME NEW r, CopyOK(r), TasksAreCounted(r), row' = r, mem' = r, work' = r,
           step' = "idle", ordered' \in BOOLEAN, ends' \in 0 .. MaxEnds, searches' \in [Branch -> Nat],
           \A b \in Branch : searches'[b] <= IF b \in Rounds THEN r.rounds[b] + ends'
                                             ELSE Cardinality(r.queries[b]) + ends' * PerSearch
    PROVE  ResearchInv'
<1>1. CopyOK(row)' /\ CopyOK(mem)' /\ CopyOK(work)' /\ TasksAreCounted(row)' /\ TasksAreCounted(work)'
  OBVIOUS
<1>2. SameButOrder(row, mem)'
  BY DEF SameButOrder
<1>3. ends' \in Nat
  BY ResearchAssumption DEF ResearchAssumption
<1>4. SearchesAreBounded'
  BY <1>3, CountedIsBounded DEF SearchesAreBounded
<1>5. SentIsCounted'
  BY DEF SentIsCounted
<1>6. step' \notin Branch /\ step' \notin {"commit", "ended"}
  BY BranchFacts
<1> QED
  BY <1>1, <1>2, <1>4, <1>5, <1>6 DEF ResearchInv

\* A collection starts with its plan, and nothing sent.
LEMMA InitKeeps == ResearchInit => ResearchInv
<1> SUFFICES ASSUME ResearchInit PROVE ResearchInv
  OBVIOUS
<1>1. PICK seeds \in SeedTasks :
        row = [queue |-> seeds, visited |-> {}, facts |-> {}, gaps |-> {}, cursor |-> 1,
               rounds |-> [b \in Branch |-> 0], queries |-> [b \in Branch |-> {}],
               blocks |-> [c \in Circuits |-> 0]]
  BY DEF ResearchInit
<1>2. seeds \in Seq(ResearchTask) /\ Once(seeds) /\ \A i \in DOMAIN seeds : seeds[i].branch \in {"entry"} \cup Entrances
  BY PlansAreEntries DEF Once
<1>3. /\ row.queue = seeds /\ row.visited = {} /\ row.facts = {} /\ row.gaps = {} /\ row.cursor = 1
      /\ row.rounds = [b \in Branch |-> 0] /\ row.queries = [b \in Branch |-> {}]
      /\ row.blocks = [c \in Circuits |-> 0]
  BY <1>1
<1>4. row = [queue |-> row.queue, visited |-> row.visited, facts |-> row.facts, gaps |-> row.gaps,
             cursor |-> row.cursor, rounds |-> row.rounds, queries |-> row.queries, blocks |-> row.blocks]
  BY <1>1, <1>3
<1>5. IsFiniteSet({}) /\ Cardinality({}) = 0
  BY FS_EmptySet
<1>6. RoundLimit \in Nat /\ QueryLimit \in Nat /\ Goals \in Nat \ {0} /\ MaxEnds \in Nat
  BY ResearchAssumption DEF ResearchAssumption
<1>7. CopyOK(row)
  <2>1. 1 \in Goal
    BY <1>6 DEF Goal
  <2>2. row.rounds \in [Branch -> Nat] /\ \A b \in Rounds : row.rounds[b] <= RoundLimit
    <3>1. row.rounds \in [Branch -> Nat] /\ \A b \in Branch : row.rounds[b] = 0
      BY <1>3
    <3>2. Rounds \subseteq Branch
      BY BranchFacts
    <3>3. 0 <= RoundLimit
      BY <1>6
    <3> QED
      BY <3>1, <3>2, <3>3
  <2>3. /\ row.queries = [b \in Branch |-> row.queries[b]]
        /\ \A b \in Branch \ Rounds : IsFiniteSet(row.queries[b]) /\ Cardinality(row.queries[b]) <= QueryLimit
    BY <1>3, <1>5, <1>6
  <2>4. row.queue \in Seq(ResearchTask) /\ Once(row.queue)
    BY <1>2, <1>3
  <2>5. /\ row.visited \subseteq ResearchUrl \ UrlsOf(row.queue)
        /\ row.facts \subseteq ResearchUrl /\ row.gaps \subseteq Goal /\ row.cursor \in Goal
    BY <1>3, <2>1
  <2>6. row.blocks \in [Circuits -> Nat]
    BY <1>3
  <2> QED
    BY <1>4, <2>2, <2>3, <2>4, <2>5, <2>6 DEF CopyOK
<1>8. TasksAreCounted(row)
  <2>1. \A t \in ToSet(seeds) : t.branch \in {"entry"} \cup Entrances
    BY <1>2 DEF ToSet
  <2>2. \A t \in ToSet(seeds) : t.branch \notin Rounds /\ t.branch \notin {"area", "history"}
    BY <2>1 DEF Rounds, Entrances
  <2> QED
    BY <1>3, <2>2 DEF TasksAreCounted
<1>9. /\ mem = row /\ work = row /\ step = "begin" /\ ends = 0 /\ ordered = FALSE
      /\ searches = [b \in Branch |-> 0]
  BY DEF ResearchInit
<1>10. SentIsCounted
  <2> SUFFICES ASSUME NEW b \in Branch
               PROVE  searches[b] <= IF b \in Rounds THEN work.rounds[b] + ends
                                     ELSE Cardinality(work.queries[b]) + ends * PerSearch
    BY DEF SentIsCounted
  <2>1. searches[b] = 0 /\ row.rounds[b] = 0 /\ Cardinality(row.queries[b]) = 0
    BY <1>3, <1>5, <1>9
  <2>2. 0 * PerSearch \in Nat
    BY OneMoreCut
  <2> QED
    BY <1>9, <2>1, <2>2
<1>11. searches \in [Branch -> Nat] /\ ends \in Nat
  BY <1>9
<1>12. SearchesAreBounded
  BY <1>7, <1>9, <1>10, <1>11, CountedIsBounded DEF SearchesAreBounded, SentIsCounted
<1>13. step \notin Branch
  BY <1>9, BranchFacts
<1>14. SameButOrder(row, mem)
  BY <1>9 DEF SameButOrder
<1>15. CopyOK(mem) /\ CopyOK(work) /\ TasksAreCounted(work)
  BY <1>7, <1>8, <1>9
<1>16. step \notin {"commit", "ended"} /\ ends \in 0 .. MaxEnds /\ ordered \in BOOLEAN
  <2>1. 0 \in 0 .. MaxEnds
    BY <1>6
  <2> QED
    BY <1>9, <2>1
<1>17. work = mem
  BY <1>9
<1>18. step \in Branch \cup {"begin", "idle", "commit", "ended"}
  BY <1>9
<1>19. step \notin Branch \cup {"commit"}
  BY <1>13, <1>16
<1> QED
  BY <1>7, <1>8, <1>10, <1>11, <1>12, <1>13, <1>14, <1>15, <1>16, <1>17, <1>18, <1>19 DEF ResearchInv

\* An attempt that starts from the row only puts its queue in order.
LEMMA BeginKeeps ==
    ASSUME ResearchInv, BeginResearch PROVE ResearchInv'
<1>1. /\ mem' = Prioritised(row) /\ work' = mem' /\ step' = "idle" /\ ordered' = TRUE
      /\ row' = row /\ ends' = ends /\ searches' = searches /\ step = "begin"
  BY DEF BeginResearch
<1>2. CopyOK(row) /\ TasksAreCounted(row) /\ work = mem /\ SameButOrder(row, mem) /\ SentIsCounted
  BY <1>1 DEF ResearchInv
<1>3. CopyOK(mem') /\ SameButOrder(mem', row) /\ TasksAreCounted(mem')
  BY <1>1, <1>2, PrioritisedIs
<1>4. SentIsCounted'
  <2>1. work'.rounds = work.rounds /\ work'.queries = work.queries
    BY <1>1, <1>2, <1>3 DEF SameButOrder
  <2> QED
    BY <1>1, <1>2, <2>1 DEF SentIsCounted
<1>5. SameButOrder(row, mem)'
  BY <1>1, <1>3 DEF SameButOrder
<1>6. step' \notin Branch
  BY <1>1, BranchFacts
<1>7. SearchesAreBounded'
  BY <1>1 DEF ResearchInv, SearchesAreBounded
<1> QED
  BY <1>1, <1>2, <1>3, <1>4, <1>5, <1>6, <1>7 DEF ResearchInv

\* A follow-up with nothing to ask goes on to the commit.
LEMMA NoFollowupKeeps == ASSUME ResearchInv, NoFollowup PROVE ResearchInv'
<1>1. /\ step' = "commit" /\ step = "followup"
      /\ UNCHANGED <<row, mem, work, task, searches, ends, ordered>>
  BY DEF NoFollowup
<1>2. step \in Branch /\ step' \notin Branch
  BY <1>1, BranchFacts
<1>3. TaskAtHand /\ SentIsCounted
  BY <1>1, <1>2 DEF ResearchInv
<1>4. TaskAtHand'
  BY <1>1, <1>3 DEF TaskAtHand
<1>5. SentIsCounted'
  BY <1>1, <1>3 DEF SentIsCounted
<1>6. SearchesAreBounded' /\ SameButOrder(row, mem)'
  BY <1>1 DEF ResearchInv, SearchesAreBounded, SameButOrder
<1> QED
  BY <1>1, <1>2, <1>4, <1>5, <1>6 DEF ResearchInv

\* The end of the time drops the working copy.
LEMMA DeadlineKeeps == ASSUME ResearchInv, ResearchDeadline PROVE ResearchInv'
<1>1. /\ step' = "ended" /\ work' = mem
      /\ UNCHANGED <<row, mem, searches, ends, ordered>>
  BY DEF ResearchDeadline
<1>2. step' \notin Branch
  BY <1>1, BranchFacts
<1>3. SearchesAreBounded' /\ SameButOrder(row, mem)'
  BY <1>1 DEF ResearchInv, SearchesAreBounded, SameButOrder
<1>4. TasksAreCounted(mem)
  BY DEF ResearchInv, TasksAreCounted, SameButOrder
<1> QED
  BY <1>1, <1>2, <1>3, <1>4 DEF ResearchInv

--------------------------------------------------------------------------------
(* The invariant, action by action. *)

\* What a search sends, and what it may cost.
LEMMA SentIs ==
    ASSUME ResearchInv, NEW b \in Branch, step = b, NEW queries \in Queries(b), Sent(b, queries)
    PROVE  /\ searches' \in [Branch -> Nat] /\ \A c \in Branch \ {b} : searches'[c] = searches[c]
           /\ b \in Rounds => searches'[b] = searches[b] + 1
           /\ b \notin Rounds =>
                LET all == work.queries[b] \cup queries
                IN /\ Cardinality(queries) \in 0 .. PerSearch /\ searches'[b] = searches[b] + Cardinality(queries)
                   /\ IsFiniteSet(all) /\ Cardinality(work.queries[b]) \in Nat /\ Cardinality(all) <= QueryLimit
                   /\ Cardinality(all) = Cardinality(work.queries[b]) + Cardinality(queries)
<1>1. searches \in [Branch -> Nat] /\ CopyOK(work)
  BY DEF ResearchInv
<1>2. searches' = [searches EXCEPT ![b] = @ + IF b \in Rounds THEN 1 ELSE Cardinality(queries)]
  BY DEF Sent
<1>3. CASE b \in Rounds
  <2>1. searches' = [searches EXCEPT ![b] = @ + 1]
    BY <1>2, <1>3
  <2> QED
    BY <1>1, <1>3, <2>1
<1>4. CASE b \notin Rounds
  <2> DEFINE all == work.queries[b] \cup queries
  <2>1. b \in {"area", "history"}
    BY <1>4, BranchFacts
  <2>2. queries = NewQueries(b, task, work)
    BY <2>1 DEF Queries
  <2>3. /\ Cardinality(queries) \in 0 .. PerSearch
        /\ IsFiniteSet(all) /\ Cardinality(work.queries[b]) \in Nat /\ Cardinality(all) <= QueryLimit
        /\ Cardinality(all) = Cardinality(work.queries[b]) + Cardinality(queries)
    BY <1>1, <2>1, <2>2, NewQueriesAreFew
  <2>4. searches' = [searches EXCEPT ![b] = @ + Cardinality(queries)]
    BY <1>2, <1>4
  <2>5. Cardinality(queries) \in Nat
    BY <2>3
  <2>6. searches' \in [Branch -> Nat] /\ searches'[b] = searches[b] + Cardinality(queries)
    BY <1>1, <2>4, <2>5
  <2>7. \A c \in Branch \ {b} : searches'[c] = searches[c]
    BY <1>1, <2>4
  <2> QED
    BY <1>4, <2>3, <2>6, <2>7
<1> QED
  BY <1>3, <1>4

\* The first task of the loop, while it is at hand.
LEMMA HandIs ==
    ASSUME ResearchInv, step \in Branch \cup {"commit"}
    PROVE  /\ TaskAtHand /\ CopyOK(mem) /\ CopyOK(work) /\ CopyOK(row) /\ SameButOrder(row, mem)
           /\ SentIsCounted /\ TasksAreCounted(work) /\ TasksAreCounted(mem)
           /\ task.url = Head(mem.queue).url /\ mem.queue # <<>>
           /\ task.url \in ResearchUrl /\ task.url \notin UrlsOf(work.queue)
<1>1. CopyOK(mem) /\ TaskAtHand
  BY DEF ResearchInv
<1>2. Head(mem.queue).url \in ResearchUrl
  BY <1>1, TailIs DEF CopyOK, TaskAtHand
<1>3. step # "ended"
  BY BranchFacts
<1>4. TasksAreCounted(mem)
  BY DEF ResearchInv, TasksAreCounted, SameButOrder
<1> QED
  BY <1>1, <1>2, <1>3, <1>4 DEF TaskAtHand, ResearchInv

\* A search that is lost is one that its cut pays for.
LEMMA LostSearchIsPaid ==
    ASSUME ResearchInv, NEW b \in Branch, step = b, NEW queries \in Queries(b), Sent(b, queries),
           ends' = ends + 1
    PROVE  \A c \in Branch : searches'[c] <= IF c \in Rounds THEN mem.rounds[c] + ends'
                                             ELSE Cardinality(mem.queries[c]) + ends' * PerSearch
<1> TAKE c \in Branch
<1>1. /\ TaskAtHand /\ SentIsCounted /\ CopyOK(mem) /\ CopyOK(work)
  BY HandIs
<1>2. ends \in Nat /\ searches \in [Branch -> Nat] /\ BranchIsOpen(b)
  BY ResearchAssumption DEF ResearchInv, ResearchAssumption
<1>3. work.rounds[b] = mem.rounds[b] /\ work.queries[b] = mem.queries[b]
  <2>1. Place(b) >= Place(b)
    BY BranchFacts
  <2> QED
    BY <1>2, <2>1 DEF BranchIsOpen
<1>4. CASE c \in Rounds
  <2>1. searches[c] <= work.rounds[c] + ends /\ searches[c] \in Nat
    BY <1>1, <1>2, <1>4 DEF SentIsCounted
  <2>2. work.rounds[c] \in Nat /\ mem.rounds[c] \in Nat
    BY <1>1 DEF CopyOK
  <2>3. CASE c = b
    <3>1. searches'[c] = searches[c] + 1
      BY <1>4, <2>3, SentIs
    <3> QED
      BY <1>2, <1>3, <1>4, <2>1, <2>2, <2>3, <3>1
  <2>4. CASE c # b
    <3>1. searches'[c] = searches[c]
      BY <2>4, SentIs
    <3>2. work.rounds[c] <= mem.rounds[c] + 1
      BY <1>1, <1>4, <2>2 DEF TaskAtHand
    <3> QED
      BY <1>2, <1>4, <2>1, <2>2, <3>1, <3>2
  <2> QED
    BY <2>3, <2>4
<1>5. CASE c \notin Rounds
  <2> DEFINE paid == ends * PerSearch
             w == Cardinality(work.queries[c])
             m == Cardinality(mem.queries[c])
  <2>1. c \in Branch \ Rounds
    BY <1>5
  <2>2. searches[c] <= w + paid /\ searches[c] \in Nat
    BY <1>1, <1>2, <1>5 DEF SentIsCounted
  <2>3. w \in Nat /\ m \in Nat
    BY <1>1, <2>1, FS_CardinalityType DEF CopyOK
  <2>4. paid \in Nat /\ PerSearch \in Nat /\ ends' * PerSearch = paid + PerSearch
    BY <1>2, OneMoreCut
  <2>5. w <= m + PerSearch
    BY <1>1, <2>1 DEF TaskAtHand
  <2>6. c = b => w = m
    BY <1>3
  <2>7. c # b => searches'[c] = searches[c]
    BY SentIs
  <2>8. c = b => Cardinality(queries) \in 0 .. PerSearch /\ searches'[c] = searches[c] + Cardinality(queries)
    BY <1>5, SentIs
  <2> HIDE DEF paid, w, m
  <2>9. searches'[c] <= m + (paid + PerSearch)
    <3>1. CASE c = b
      BY <2>2, <2>3, <2>4, <2>6, <2>8, <3>1
    <3>2. CASE c # b
      BY <2>2, <2>3, <2>4, <2>5, <2>7, <3>2
    <3> QED
      BY <3>1, <3>2
  <2> QED
    BY <1>5, <2>4, <2>9 DEF m
<1> QED
  BY <1>4, <1>5

\* NoPageIsForgotten, of one step.
PagesStayed == PagesStay(row, row')

\* A queue of tasks and what was read, when none is taken away.
LEMMA NothingTaken ==
    ASSUME NEW r, r.queue \in Seq(ResearchTask), NEW s, r.visited \subseteq s.visited,
           UrlsOf(r.queue) \subseteq UrlsOf(s.queue) \cup s.visited
    PROVE  PagesStay(r, s)
<1>1. \A t \in ToSet(r.queue) : t.url \in UrlsOf(r.queue)
  BY QueueIsFinite
<1> QED
  BY <1>1 DEF PagesStay

\* Copies that agree on the order aside know the same tasks and circuits.
LEMMA SameTasks ==
    ASSUME NEW r, NEW m, NEW s, NEW q, SameButOrder(r, m), PagesStay(m, s),
           q.visited = s.visited, q.blocks = s.blocks, UrlsOf(q.queue) = UrlsOf(s.queue)
    PROVE  PagesStay(r, q)
BY DEF PagesStay, SameButOrder, ClosedBetween

\* The row and the loop know the same pages, and a step of the loop keeps those of the row.
LEMMA PagesOfRow ==
    ASSUME ResearchInv, NEW s, mem.visited \subseteq s.visited,
           UrlsOf(mem.queue) \subseteq UrlsOf(s.queue) \cup s.visited
    PROVE  PagesStay(row, s)
<1>1. mem.queue \in Seq(ResearchTask) /\ SameButOrder(row, mem)
  BY DEF ResearchInv, CopyOK
<1>2. PagesStay(mem, s)
  BY <1>1, NothingTaken
<1> QED
  BY <1>1, <1>2, SameTasks

\* The working copy has the pages of the row, but for the one at hand and a closed circuit.
LEMMA PagesAtHand ==
    ASSUME ResearchInv, step \in Branch \cup {"commit"}, NEW s,
           s.visited = work.visited \cup {task.url}, s.blocks = work.blocks,
           UrlsOf(s.queue) = UrlsOf(work.queue)
    PROVE  PagesStay(row, s)
<1>1. TaskAtHand /\ SameButOrder(row, mem)
  BY HandIs
<1>2. PagesStay(mem, s)
  BY <1>1 DEF TaskAtHand, PagesStay, ClosedBetween
<1> QED
  BY <1>1, <1>2, SameTasks

\* A commit stores the working copy: the page at hand has been read, no page is lost.
LEMMA CommitKeeps == ASSUME ResearchInv, CommitPage PROVE ResearchInv' /\ PagesStayed
<1> DEFINE r == IF task.closed THEN work ELSE Prioritised(work)
           s == Committed(r)
<1>1. /\ step = "commit" /\ row' = s /\ mem' = s /\ work' = s /\ step' = "idle" /\ ordered' = ~task.closed
      /\ searches' = searches /\ ends' = ends
  BY DEF CommitPage, Stores
<1>2. /\ CopyOK(work) /\ SentIsCounted /\ TasksAreCounted(work) /\ TaskAtHand
      /\ task.url \in ResearchUrl /\ task.url \notin UrlsOf(work.queue)
  BY <1>1, HandIs
<1>0. ordered' \in BOOLEAN
  BY <1>1, <1>2 DEF TaskAtHand
<1>3. CopyOK(r) /\ SameButOrder(r, work) /\ TasksAreCounted(r)
  BY <1>2, PrioritisedIs DEF SameButOrder
<1> HIDE DEF r
<1>4. UrlsOf(r.queue) = UrlsOf(work.queue)
  BY <1>2, <1>3, QueueIsFinite DEF CopyOK, SameButOrder
<1>5. /\ CopyOK(s) /\ s.queue = r.queue /\ s.visited = r.visited \cup {task.url}
      /\ s.rounds = r.rounds /\ s.queries = r.queries /\ s.blocks = r.blocks
  BY <1>2, <1>3, <1>4, CommittedKeeps
<1> HIDE DEF s
<1>6. TasksAreCounted(s)
  BY <1>3, <1>5 DEF TasksAreCounted
<1>7. s.rounds = work.rounds /\ s.queries = work.queries /\ s.blocks = work.blocks
  BY <1>3, <1>5 DEF SameButOrder
<1>8. \A b \in Branch : searches'[b] <= IF b \in Rounds THEN s.rounds[b] + ends'
                                        ELSE Cardinality(s.queries[b]) + ends' * PerSearch
  BY <1>1, <1>2, <1>7 DEF SentIsCounted
<1>9. ends' \in 0 .. MaxEnds /\ searches' \in [Branch -> Nat]
  BY <1>1 DEF ResearchInv
<1>11. PagesStayed
  BY <1>1, <1>3, <1>4, <1>5, PagesAtHand DEF PagesStayed, SameButOrder
<1>12. ResearchInv'
  BY <1>0, <1>1, <1>5, <1>6, <1>8, <1>9, StoredKeeps
<1> QED
  BY <1>11, <1>12

\* A cut is one more.
LEMMA CutIs ==
    ASSUME ResearchInv, CutShort
    PROVE  ends \in Nat /\ ends' = ends + 1 /\ ends' \in 0 .. MaxEnds
BY ResearchAssumption DEF ResearchInv, CutShort, ResearchAssumption

\* A task that times out loses its search, which its cut pays for, and is not tried again.
LEMMA TimeoutKeeps ==
    ASSUME ResearchInv, NEW b \in Branch, TaskTimesOut(b) PROVE ResearchInv' /\ PagesStayed
<1> DEFINE s == [Committed(mem) EXCEPT !.queue = Tail(@)]
           d == [mem EXCEPT !.queue = Tail(mem.queue), !.visited = mem.visited \cup {Head(mem.queue).url}]
<1>1. /\ step = b /\ row' = s /\ mem' = s /\ work' = s /\ step' = "idle" /\ ordered' = FALSE
      /\ ends' = ends + 1 /\ ends' \in 0 .. MaxEnds
  BY CutIs DEF TaskTimesOut, Stores
<1>2. PICK queries \in Queries(b) : Sent(b, queries)
  BY DEF TaskTimesOut
<1>3. /\ CopyOK(mem) /\ TasksAreCounted(mem) /\ mem.queue # <<>> /\ task.url = Head(mem.queue).url
  BY <1>1, HandIs
<1>4. s = d
  <2>1. mem = [queue |-> mem.queue, visited |-> mem.visited, facts |-> mem.facts, gaps |-> mem.gaps,
               cursor |-> mem.cursor, rounds |-> mem.rounds, queries |-> mem.queries, blocks |-> mem.blocks]
    BY <1>3 DEF CopyOK
  <2> DEFINE rest == Tail(mem.queue)
             read == mem.visited \cup {Head(mem.queue).url}
             c == Committed(mem)
  <2>2. c = [mem EXCEPT !.visited = read]
    BY <1>3 DEF Committed
  <2>3. s = [c EXCEPT !.queue = Tail(c.queue)]
    OBVIOUS
  <2>4. d = [mem EXCEPT !.queue = rest, !.visited = read]
    OBVIOUS
  <2> HIDE DEF c, read, s, d
  <2>5. c = [queue |-> mem.queue, visited |-> read, facts |-> mem.facts, gaps |-> mem.gaps,
             cursor |-> mem.cursor, rounds |-> mem.rounds, queries |-> mem.queries, blocks |-> mem.blocks]
    BY <2>1, <2>2
  <2>6. c.queue = mem.queue
    BY <2>5
  <2>7. s = [c EXCEPT !.queue = rest]
    BY <2>3, <2>6
  <2> HIDE DEF rest
  <2>8. s = [queue |-> rest, visited |-> read, facts |-> mem.facts, gaps |-> mem.gaps,
             cursor |-> mem.cursor, rounds |-> mem.rounds, queries |-> mem.queries, blocks |-> mem.blocks]
    BY <2>5, <2>7
  <2>9. d = [queue |-> rest, visited |-> read, facts |-> mem.facts, gaps |-> mem.gaps,
             cursor |-> mem.cursor, rounds |-> mem.rounds, queries |-> mem.queries, blocks |-> mem.blocks]
    BY <1>3, <2>4, WithQueueAndVisited
  <2> QED
    BY <2>8, <2>9
<1>5. /\ CopyOK(d) /\ TasksAreCounted(d) /\ d.rounds = mem.rounds /\ d.queries = mem.queries /\ d.blocks = mem.blocks
      /\ UrlsOf(d.queue) \cup d.visited = UrlsOf(mem.queue) \cup mem.visited
      /\ mem.visited \subseteq d.visited
  BY <1>3, DroppedKeeps
<1> HIDE DEF s, d
<1>6. \A c \in Branch : searches'[c] <= IF c \in Rounds THEN s.rounds[c] + ends'
                                        ELSE Cardinality(s.queries[c]) + ends' * PerSearch
  BY <1>1, <1>2, <1>4, <1>5, LostSearchIsPaid
<1>7. searches' \in [Branch -> Nat]
  BY <1>1, <1>2, SentIs
<1>8. PagesStayed
  BY <1>1, <1>4, <1>5, PagesOfRow DEF PagesStayed
<1>9. ResearchInv'
  BY <1>1, <1>4, <1>5, <1>6, <1>7, StoredKeeps
<1> QED
  BY <1>8, <1>9

\* A page that cannot be fetched leaves the queue and counts as read.
LEMMA FetchFailsKeeps == ASSUME ResearchInv, FetchFails PROVE ResearchInv' /\ PagesStayed
<1> DEFINE d == [mem EXCEPT !.queue = Tail(mem.queue), !.visited = mem.visited \cup {Head(mem.queue).url}]
<1>1. /\ step = "idle" /\ mem.queue # <<>> /\ row' = d /\ mem' = d /\ work' = d /\ step' = "idle"
      /\ ordered' = FALSE /\ searches' = searches /\ ends \in Nat /\ ends' = ends + 1 /\ ends' \in 0 .. MaxEnds
  BY CutIs DEF FetchFails, Stores, MoreResearch
<1>2. CopyOK(mem) /\ work = mem /\ TasksAreCounted(mem) /\ SentIsCounted /\ searches \in [Branch -> Nat]
  BY <1>1 DEF ResearchInv
<1>3. /\ CopyOK(d) /\ TasksAreCounted(d) /\ d.rounds = mem.rounds /\ d.queries = mem.queries /\ d.blocks = mem.blocks
      /\ UrlsOf(d.queue) \cup d.visited = UrlsOf(mem.queue) \cup mem.visited
      /\ mem.visited \subseteq d.visited
  BY <1>1, <1>2, DroppedKeeps
<1> HIDE DEF d
<1>4. ASSUME NEW b \in Branch
      PROVE  searches'[b] <= IF b \in Rounds THEN d.rounds[b] + ends'
                             ELSE Cardinality(d.queries[b]) + ends' * PerSearch
  <2>1. CASE b \in Rounds
    <3>1. searches[b] <= mem.rounds[b] + ends /\ searches[b] \in Nat /\ mem.rounds[b] \in Nat
      BY <1>2, <2>1 DEF SentIsCounted, CopyOK
    <3> QED
      BY <1>1, <1>3, <2>1, <3>1
  <2>2. CASE b \notin Rounds
    <3> DEFINE paid == ends * PerSearch
               m == Cardinality(mem.queries[b])
    <3>1. searches[b] <= m + paid /\ searches[b] \in Nat
      BY <1>2, <2>2 DEF SentIsCounted
    <3>2. m \in Nat
      BY <1>2, <2>2, FS_CardinalityType DEF CopyOK
    <3>3. paid \in Nat /\ PerSearch \in Nat /\ ends' * PerSearch = paid + PerSearch
      BY <1>1, OneMoreCut
    <3> HIDE DEF paid, m
    <3>4. searches'[b] <= m + (paid + PerSearch)
      BY <1>1, <3>1, <3>2, <3>3
    <3> QED
      BY <1>3, <2>2, <3>3, <3>4 DEF m
  <2> QED
    BY <2>1, <2>2
<1>5. searches' \in [Branch -> Nat]
  BY <1>1, <1>2
<1>6. PagesStayed
  BY <1>1, <1>3, PagesOfRow DEF PagesStayed
<1>7. ResearchInv'
  BY <1>1, <1>3, <1>4, <1>5, StoredKeeps
<1> QED
  BY <1>6, <1>7

\* What a branch that may expand has asked before.
LEMMA OpenIs ==
    ASSUME NEW b \in Branch, NEW t, NEW r, MayExpand(b, t, r)
    PROVE  /\ b \in Rounds => r.rounds[b] < RoundLimit
           /\ b \in {"area", "history"} => DepthIn(b, t) < BranchDepth
<1>1. CASE b = "area"
  BY <1>1 DEF MayExpand, AreaOpen, Rounds
<1>2. CASE b = "history"
  BY <1>2 DEF MayExpand, HistoryOpen, Rounds
<1>3. CASE b = "archives"
  BY <1>3 DEF MayExpand, ArchivesOpen
<1>4. CASE b = "maps"
  BY <1>4 DEF MayExpand, MapsOpen
<1>5. CASE b = "followup"
  BY <1>5 DEF MayExpand, FollowupOpen
<1> QED
  BY <1>1, <1>2, <1>3, <1>4, <1>5, BranchFacts

\* A page that was read leaves a working copy that is at hand for the branches.
LEMMA AtHandKeeps ==
    ASSUME ResearchInv, step = "idle", mem.queue # <<>>, UNCHANGED <<row, mem, searches, ends, ordered>>,
           NEW seen, work' = seen, CopyOK(seen), TasksAreCounted(seen),
           seen.rounds = mem.rounds, seen.queries = mem.queries,
           seen.visited = mem.visited, seen.cursor = mem.cursor,
           NEW t, t = Head(mem.queue), t.url \notin UrlsOf(seen.queue),
           \A u \in ToSet(mem.queue) : u.url \in UrlsOf(seen.queue) \cup {t.url} \/ ClosedBetween(mem, seen, u),
           NEW page, task' = page, page.url = t.url, page.level = t.level, page.closed \in BOOLEAN,
           \/ step' = "commit"
           \/ step' \in Branch /\ MayExpand(step', page, seen)
    PROVE  ResearchInv' /\ work'.cursor = mem.cursor /\ step' \in Branch \cup {"commit"}
<1>2. /\ CopyOK(row) /\ CopyOK(mem) /\ TasksAreCounted(row) /\ SameButOrder(row, mem)
      /\ work = mem /\ SentIsCounted
  BY DEF ResearchInv
<1>4. t.level \in Nat
  BY <1>2, TailIs DEF CopyOK, ResearchTask
<1>18. step' \in Branch \cup {"commit"} /\ step' \notin {"begin", "idle", "ended"}
  BY BranchFacts
<1>20. TaskAtHand'
  <2>1. mem'.queue # <<>> /\ task'.url = Head(mem'.queue).url /\ task'.level \in Nat /\ task'.closed \in BOOLEAN
    BY <1>4
  <2>2. task'.url \notin UrlsOf(work'.queue)
    OBVIOUS
  <2>3. \A u \in ToSet(mem'.queue) :
          u.url \in UrlsOf(work'.queue) \cup {task'.url} \/ ClosedBetween(mem', work', u)
    OBVIOUS
  <2>4. \A b \in Rounds : work'.rounds[b] \in mem'.rounds[b] .. mem'.rounds[b] + 1
    <3>1. \A b \in Rounds : mem.rounds[b] \in Nat
      BY <1>2, BranchFacts DEF CopyOK
    <3> QED
      BY <3>1
  <2>5. \A b \in Branch \ Rounds : Cardinality(work'.queries[b]) <= Cardinality(mem'.queries[b]) + PerSearch
    <3>1. \A b \in Branch \ Rounds : Cardinality(mem.queries[b]) \in Nat
      BY <1>2, FS_CardinalityType DEF CopyOK
    <3>2. PerSearch \in Nat
      BY ResearchAssumption DEF ResearchAssumption
    <3>3. \A b \in Branch \ Rounds : Cardinality(mem.queries[b]) <= Cardinality(mem.queries[b]) + PerSearch
      BY <3>1, <3>2
    <3> QED
      BY <3>3
  <2>6. work'.visited = mem'.visited
    OBVIOUS
  <2> QED
    BY <2>1, <2>2, <2>3, <2>4, <2>5, <2>6 DEF TaskAtHand, ClosedBetween
<1>21. ASSUME step' \in Branch PROVE BranchIsOpen(step)'
  <2>1. MayExpand(step', page, seen)
    BY <1>21, BranchFacts
  <2>2. /\ step' \in Rounds => seen.rounds[step'] < RoundLimit
        /\ step' \in {"area", "history"} => DepthIn(step', page) < BranchDepth
    BY <1>21, <2>1, OpenIs
  <2> QED
    BY <2>2 DEF BranchIsOpen
<1>22. SentIsCounted'
  BY <1>2 DEF SentIsCounted
<1>23. SearchesAreBounded' /\ SameButOrder(row, mem)'
  BY DEF ResearchInv, SearchesAreBounded, SameButOrder
<1>24. CopyOK(work)' /\ TasksAreCounted(work)'
  OBVIOUS
<1>25. ends' \in 0 .. MaxEnds /\ ordered' \in BOOLEAN /\ searches' \in [Branch -> Nat]
  BY DEF ResearchInv
<1>26. CopyOK(row)' /\ CopyOK(mem)' /\ TasksAreCounted(row)'
  BY <1>2
<1> QED
  BY <1>18, <1>20, <1>21, <1>22, <1>23, <1>24, <1>25, <1>26 DEF ResearchInv

\* Reading a page merges its links into a copy of the loop; the turn stays.
LEMMA ReadKeeps ==
    ASSUME ResearchInv, NEW useful \in BOOLEAN, NEW duplicate \in BOOLEAN, ReadPage(useful, duplicate)
    PROVE  ResearchInv' /\ work'.cursor = mem.cursor /\ step' \in Branch \cup {"commit"}
<1> DEFINE t == Head(mem.queue)
           rest == Tail(mem.queue)
           links == IF t.branch = "support" \/ (t.branch = "link" /\ t.level >= BranchDepth) THEN {}
                    ELSE LeadsTo[t.url]
           level == IF t.branch = "link" THEN t.level + 1 ELSE 1
           left == [mem EXCEPT !.queue = rest]
           read == Merged(left, links \ {t.url}, "link", level)
           facts == IF useful THEN read.facts \cup {t.url} ELSE read.facts
           gaps == LackingGoals(Goal, facts)
           seen == [read EXCEPT !.facts = facts, !.gaps = gaps]
           page == PageOf(t, useful, duplicate, FALSE)
<1>1. /\ step = "idle" /\ mem.queue # <<>>
      /\ work' = seen /\ task' = page /\ step' = StepAfter(0, page, seen)
      /\ UNCHANGED <<row, mem, searches, ends, ordered>>
  BY DEF ReadPage, MoreResearch
<1>2. /\ CopyOK(row) /\ CopyOK(mem) /\ TasksAreCounted(row) /\ TasksAreCounted(mem) /\ SameButOrder(row, mem)
      /\ work = mem /\ SentIsCounted
  BY <1>1 DEF ResearchInv
<1>3. /\ rest \in Seq(ResearchTask) /\ Once(rest) /\ ToSet(rest) \subseteq ToSet(mem.queue)
      /\ UrlsOf(rest) = UrlsOf(mem.queue) \ {t.url} /\ t \in ToSet(mem.queue) /\ t \in ResearchTask
      /\ t.url \in UrlsOf(mem.queue) /\ t.url \in ResearchUrl
  BY <1>1, <1>2, TailIs DEF CopyOK
<1>4. t.level \in Nat
  BY <1>3 DEF ResearchTask
<1> HIDE DEF t, rest
<1>5. links \subseteq ResearchUrl
  BY <1>3, ResearchAssumption DEF ResearchAssumption
<1>6. \A u \in ResearchUrl : [url |-> u, branch |-> "link", level |-> level] \in ResearchTask
  BY <1>4 DEF ResearchTask
<1> HIDE DEF links, level
<1>7. left = [queue |-> rest, visited |-> mem.visited, facts |-> mem.facts, gaps |-> mem.gaps,
              cursor |-> mem.cursor, rounds |-> mem.rounds, queries |-> mem.queries, blocks |-> mem.blocks]
  BY <1>2, WithQueue
<1> HIDE DEF left
<1>8. /\ left.queue = rest /\ left.visited = mem.visited /\ left.facts = mem.facts /\ left.gaps = mem.gaps
      /\ left.cursor = mem.cursor /\ left.rounds = mem.rounds /\ left.queries = mem.queries /\ left.blocks = mem.blocks
  BY <1>7
<1>9. CopyOK(left)
  <2>1. mem.visited \subseteq ResearchUrl \ UrlsOf(rest)
    BY <1>2, <1>3 DEF CopyOK
  <2> QED
    BY <1>2, <1>3, <1>7, <1>8, <2>1 DEF CopyOK
<1>10. /\ CopyOK(read) /\ read.visited = mem.visited /\ read.rounds = mem.rounds
       /\ read.cursor = mem.cursor /\ read.queries = mem.queries /\ read.blocks = mem.blocks
       /\ UrlsOf(read.queue) = UrlsOf(rest) \cup ((links \ {t.url}) \ (mem.visited \cup UrlsOf(rest)))
       /\ \A u \in ToSet(read.queue) : u \in ToSet(rest) \/ (u.branch = "link" /\ u.level = level)
  <2>1. links \ {t.url} \subseteq ResearchUrl
    BY <1>5
  <2> QED
    BY <1>6, <1>8, <1>9, <2>1, MergedKeeps
<1> HIDE DEF read
<1>11. facts \subseteq ResearchUrl /\ gaps \subseteq Goal
  BY <1>3, <1>10 DEF CopyOK, LackingGoals
<1> HIDE DEF facts, gaps
<1>12. seen = [queue |-> read.queue, visited |-> read.visited, facts |-> facts, gaps |-> gaps,
               cursor |-> read.cursor, rounds |-> read.rounds, queries |-> read.queries, blocks |-> read.blocks]
  <2>1. read = [queue |-> read.queue, visited |-> read.visited, facts |-> read.facts, gaps |-> read.gaps,
                cursor |-> read.cursor, rounds |-> read.rounds, queries |-> read.queries, blocks |-> read.blocks]
    BY <1>10 DEF CopyOK
  <2>2. seen = [read EXCEPT !.facts = facts, !.gaps = gaps]
    OBVIOUS
  <2> HIDE DEF seen
  <2> QED
    BY <2>1, <2>2
<1> HIDE DEF seen
<1>13. /\ seen.queue = read.queue /\ seen.visited = read.visited /\ seen.facts = facts /\ seen.gaps = gaps
       /\ seen.cursor = read.cursor /\ seen.rounds = read.rounds /\ seen.queries = read.queries /\ seen.blocks = read.blocks
  BY <1>12
<1>14. CopyOK(seen)
  BY <1>10, <1>11, <1>12, <1>13 DEF CopyOK
<1>15. TasksAreCounted(seen)
  <2> SUFFICES ASSUME NEW u \in ToSet(seen.queue)
               PROVE  /\ u.branch \in Rounds => u.level <= seen.rounds[u.branch]
                      /\ u.branch \in {"area", "history"} => u.level <= BranchDepth
    BY DEF TasksAreCounted
  <2>1. CASE u \in ToSet(rest)
    BY <1>2, <1>3, <1>10, <1>13, <2>1 DEF TasksAreCounted
  <2>2. CASE u.branch = "link"
    BY <2>2 DEF Rounds
  <2> QED
    BY <1>10, <1>13, <2>1, <2>2
<1>16. page.url = t.url /\ page.level = t.level /\ page.closed = FALSE
  BY DEF PageOf
<1> HIDE DEF page
<1>17. \/ step' = "commit"
       \/ step' \in Branch /\ MayExpand(step', page, seen)
  BY <1>1, NextStep
<1>18. t = Head(mem.queue)
  BY DEF t
<1>19. seen.rounds = mem.rounds /\ seen.queries = mem.queries /\ seen.visited = mem.visited /\ seen.cursor = mem.cursor
  BY <1>10, <1>13
<1>20. t.url \notin UrlsOf(seen.queue) /\ \A u \in ToSet(mem.queue) : u.url \in UrlsOf(seen.queue) \cup {t.url}
  <2>1. \A u \in ToSet(mem.queue) : u.url \in UrlsOf(mem.queue)
    BY <1>2, QueueIsFinite DEF CopyOK
  <2> QED
    BY <1>3, <1>10, <1>13, <2>1
<1> QED
  BY <1>1, <1>14, <1>15, <1>16, <1>17, <1>18, <1>19, <1>20, AtHandKeeps

\* What a circuit leaves of the queue: it loses the tasks of one source and host.
LEMMA OthersAre ==
    ASSUME NEW tasks \in Seq(ResearchTask), Once(tasks), NEW t
    PROVE  LET left == OthersLeft(tasks, t)
           IN /\ left \in Seq(ResearchTask) /\ Once(left) /\ ToSet(left) \subseteq ToSet(tasks)
              /\ UrlsOf(left) \subseteq UrlsOf(tasks)
              /\ \A u \in ToSet(tasks) : u.url \in UrlsOf(left) \/ SameGate(t, u)
<1> DEFINE P == {i \in DOMAIN tasks : ~SameGate(t, tasks[i])}
           left == OthersLeft(tasks, t)
<1>1. P \subseteq DOMAIN tasks /\ left = Those(tasks, P)
  BY DEF OthersLeft
<1>2. /\ left \in Seq(ResearchTask)
      /\ \A k \in DOMAIN left : \E i \in P : left[k] = tasks[i]
      /\ \A k, m \in DOMAIN left : k < m => \E i, j \in P : i < j /\ left[k] = tasks[i] /\ left[m] = tasks[j]
  <2> HIDE DEF P, left
  <2> QED
    BY <1>1, ThoseAreListed
<1>3. \A i \in P : \E k \in DOMAIN left : left[k] = tasks[i]
  <2>1. P \subseteq Int /\ IsFiniteSet(P)
    <3>1. P \subseteq 1 .. Len(tasks) /\ Len(tasks) \in Nat
      OBVIOUS
    <3>2. IsFiniteSet(1 .. Len(tasks))
      BY <3>1, FS_Interval
    <3> QED
      BY <3>1, <3>2, FS_Subset
  <2>2. left = [k \in DOMAIN Ascending(P) |-> tasks[Ascending(P)[k]]]
    BY <1>1 DEF Those
  <2>3. /\ Ascending(P) \in [1 .. Cardinality(P) -> P]
        /\ \A i \in P : \E k \in 1 .. Cardinality(P) : Ascending(P)[k] = i
    BY <2>1, AscendingLists
  <2> HIDE DEF P, left
  <2> QED
    BY <2>2, <2>3
<1> HIDE DEF left, P
<1>4. Once(left)
  <2> SUFFICES ASSUME NEW k \in DOMAIN left, NEW m \in DOMAIN left, k < m PROVE left[k].url # left[m].url
    <3>1. DOMAIN left \subseteq Int
      BY <1>2
    <3> QED
      BY <3>1 DEF Once
  <2>1. PICK i \in P, j \in P : i < j /\ left[k] = tasks[i] /\ left[m] = tasks[j]
    BY <1>2
  <2>2. i \in DOMAIN tasks /\ j \in DOMAIN tasks /\ i # j
    BY <1>1, <2>1
  <2> QED
    BY <2>1, <2>2 DEF Once
<1>5. ToSet(left) \subseteq ToSet(tasks)
  BY <1>1, <1>2 DEF ToSet
<1>6. UrlsOf(left) \subseteq UrlsOf(tasks)
  BY <1>1, <1>2 DEF UrlsOf
<1>7. ASSUME NEW u \in ToSet(tasks), ~SameGate(t, u) PROVE u.url \in UrlsOf(left)
  <2>1. PICK i \in DOMAIN tasks : u = tasks[i]
    BY DEF ToSet
  <2>2. i \in P
    BY <1>7, <2>1 DEF P
  <2> QED
    BY <1>3, <2>1, <2>2 DEF UrlsOf
<1> QED
  BY <1>2, <1>4, <1>5, <1>6, <1>7 DEF left

\* A blocked page is counted; at the threshold its circuit takes the tasks of its source and host.
LEMMA BlockedKeeps ==
    ASSUME ResearchInv, NEW refusal \in Refusal, ReadBlocked(refusal)
    PROVE  ResearchInv' /\ work'.cursor = mem.cursor /\ step' \in Branch \cup {"commit"}
<1> DEFINE t == Head(mem.queue)
           c == Circuit(t, refusal)
           count == mem.blocks[c] + 1
           opened == count >= BlockThreshold
           rest == Tail(mem.queue)
           tasks == IF opened THEN OthersLeft(rest, t) ELSE rest
           read == [mem EXCEPT !.queue = tasks, !.blocks[c] = count]
           gaps == LackingGoals(Goal, mem.facts)
           seen == IF opened THEN read ELSE [read EXCEPT !.gaps = gaps]
           page == PageOf(t, FALSE, FALSE, opened)
<1>1. /\ step = "idle" /\ mem.queue # <<>>
      /\ work' = seen /\ task' = page
      /\ step' = IF opened THEN "commit" ELSE StepAfter(0, page, seen)
      /\ UNCHANGED <<row, mem, searches, ends, ordered>>
  BY DEF ReadBlocked, MoreResearch
<1>2. CopyOK(mem) /\ TasksAreCounted(mem) /\ work = mem
  BY <1>1 DEF ResearchInv
<1>3. /\ rest \in Seq(ResearchTask) /\ Once(rest) /\ ToSet(rest) \subseteq ToSet(mem.queue)
      /\ UrlsOf(rest) = UrlsOf(mem.queue) \ {t.url} /\ t \in ResearchTask
      /\ t.url \in ResearchUrl
  BY <1>1, <1>2, TailIs DEF CopyOK
<1>4. /\ tasks \in Seq(ResearchTask) /\ Once(tasks) /\ ToSet(tasks) \subseteq ToSet(rest)
      /\ UrlsOf(tasks) \subseteq UrlsOf(rest)
      /\ \A u \in ToSet(rest) : u.url \in UrlsOf(tasks) \/ (opened /\ SameGate(t, u))
  <2> HIDE DEF rest, t, opened
  <2>1. \A u \in ToSet(rest) : u.url \in UrlsOf(rest)
    BY <1>3, QueueIsFinite
  <2> QED
    BY <1>3, <2>1, OthersAre
<1>5. c \in Circuits /\ mem.blocks \in [Circuits -> Nat]
  BY <1>2, <1>3 DEF CopyOK, Circuits, Circuit, SourceOf
<1>6. count \in Nat /\ mem.blocks[c] < count
  BY <1>5
<1>7. opened \in BOOLEAN /\ (opened => count >= BlockThreshold)
  OBVIOUS
<1>8. \A u : SameGate(t, u) => Circuit(u, refusal) = c
  BY DEF SameGate, Circuit
<1>s. t = Head(mem.queue)
  OBVIOUS
<1>p. page.url = t.url /\ page.level = t.level /\ page.closed = opened
  BY DEF PageOf
<1>r. ToSet(mem.queue) = {t} \cup ToSet(rest)
  BY <1>1, <1>2, QueueIsFinite DEF CopyOK
<1> DEFINE blocks == [mem.blocks EXCEPT ![c] = count]
<1>b. blocks \in [Circuits -> Nat] /\ blocks[c] = count
  BY <1>5, <1>6
<1>e. read = [mem EXCEPT !.queue = tasks, !.blocks = blocks]
  BY <1>2 DEF CopyOK
<1> HIDE DEF t, c, count, rest, tasks, opened, page, blocks, gaps
<1>9. read = [queue |-> tasks, visited |-> mem.visited, facts |-> mem.facts, gaps |-> mem.gaps,
              cursor |-> mem.cursor, rounds |-> mem.rounds, queries |-> mem.queries, blocks |-> blocks]
  <2>1. mem = [queue |-> mem.queue, visited |-> mem.visited, facts |-> mem.facts, gaps |-> mem.gaps,
               cursor |-> mem.cursor, rounds |-> mem.rounds, queries |-> mem.queries, blocks |-> mem.blocks]
    BY <1>2 DEF CopyOK
  <2> HIDE DEF read
  <2> QED
    BY <1>e, <2>1
<1> HIDE DEF read
<1>10. seen = [queue |-> tasks, visited |-> mem.visited, facts |-> mem.facts,
               gaps |-> IF opened THEN mem.gaps ELSE gaps,
               cursor |-> mem.cursor, rounds |-> mem.rounds, queries |-> mem.queries, blocks |-> blocks]
  BY <1>9
<1> HIDE DEF seen
<1>11. /\ seen.queue = tasks /\ seen.visited = mem.visited /\ seen.facts = mem.facts
       /\ seen.gaps = (IF opened THEN mem.gaps ELSE gaps)
       /\ seen.cursor = mem.cursor /\ seen.rounds = mem.rounds /\ seen.queries = mem.queries
       /\ seen.blocks = blocks
  BY <1>10
<1>12. CopyOK(seen)
  <2>1. mem.visited \subseteq ResearchUrl \ UrlsOf(tasks)
    BY <1>2, <1>3, <1>4 DEF CopyOK
  <2>2. seen.gaps \subseteq Goal
    BY <1>2, <1>11 DEF CopyOK, LackingGoals, gaps
  <2>3. seen = [queue |-> seen.queue, visited |-> seen.visited, facts |-> seen.facts, gaps |-> seen.gaps,
                cursor |-> seen.cursor, rounds |-> seen.rounds, queries |-> seen.queries, blocks |-> seen.blocks]
    BY <1>10, <1>11
  <2> QED
    BY <1>2, <1>4, <1>11, <1>b, <2>1, <2>2, <2>3 DEF CopyOK
<1>13. TasksAreCounted(seen)
  BY <1>2, <1>3, <1>4, <1>11 DEF TasksAreCounted
<1>14. t.url \notin UrlsOf(seen.queue)
  BY <1>3, <1>4, <1>11
<1>15. ASSUME NEW u \in ToSet(mem.queue)
       PROVE  u.url \in UrlsOf(seen.queue) \cup {t.url} \/ ClosedBetween(mem, seen, u)
  <2>1. CASE u = t
    BY <2>1
  <2>2. CASE u \in ToSet(rest) /\ u.url \in UrlsOf(tasks)
    BY <1>11, <2>2
  <2>3. CASE opened /\ SameGate(t, u)
    <3>1. Circuit(u, refusal) = c /\ mem.blocks[c] < seen.blocks[c] /\ seen.blocks[c] >= BlockThreshold
      BY <1>6, <1>7, <1>8, <1>11, <1>b, <2>3
    <3> QED
      BY <3>1 DEF ClosedBetween
  <2> QED
    BY <1>4, <1>r, <2>1, <2>2, <2>3
<1>16. \/ step' = "commit"
       \/ step' \in Branch /\ MayExpand(step', page, seen)
  BY <1>1, NextStep
<1> QED
  BY <1>1, <1>7, <1>11, <1>12, <1>13, <1>14, <1>15, <1>16, <1>p, <1>s, AtHandKeeps

\* A search that is not lost is counted in the working copy.
LEMMA SearchIsCounted ==
    ASSUME ResearchInv, NEW b \in Branch, step = b, NEW queries \in Queries(b), Sent(b, queries),
           NEW counted, NEW asked,
           \A c \in Branch \ {b} : counted[c] = work.rounds[c] /\ asked[c] = work.queries[c],
           counted[b] = (IF b \in Rounds THEN work.rounds[b] + 1 ELSE work.rounds[b]),
           asked[b] = work.queries[b] \cup queries
    PROVE  \A c \in Branch : searches'[c] <= IF c \in Rounds THEN counted[c] + ends
                                             ELSE Cardinality(asked[c]) + ends * PerSearch
<1> TAKE c \in Branch
<1>1. SentIsCounted /\ CopyOK(work)
  BY HandIs
<1>2. ends \in Nat /\ searches \in [Branch -> Nat]
  BY ResearchAssumption DEF ResearchInv, ResearchAssumption
<1>3. CASE c # b
  <2>1. searches'[c] = searches[c]
    BY <1>3, SentIs
  <2> QED
    BY <1>1, <1>3, <2>1 DEF SentIsCounted
<1>4. CASE c = b /\ c \in Rounds
  <2>1. searches[b] <= work.rounds[b] + ends /\ searches[b] \in Nat /\ work.rounds[b] \in Nat
    BY <1>1, <1>2, <1>4 DEF SentIsCounted, CopyOK
  <2>2. searches'[b] = searches[b] + 1
    BY <1>4, SentIs
  <2> QED
    BY <1>2, <1>4, <2>1, <2>2
<1>5. CASE c = b /\ c \notin Rounds
  <2> DEFINE paid == ends * PerSearch
             w == Cardinality(work.queries[b])
             n == Cardinality(queries)
             all == work.queries[b] \cup queries
  <2>1. /\ n \in 0 .. PerSearch /\ searches'[b] = searches[b] + n /\ w \in Nat
        /\ Cardinality(all) = w + n
    BY <1>5, SentIs
  <2>2. paid \in Nat /\ PerSearch \in Nat
    BY <1>2, OneMoreCut
  <2>3. searches[b] <= w + paid /\ searches[b] \in Nat
    BY <1>1, <1>2, <1>5 DEF SentIsCounted
  <2> HIDE DEF paid, w, n, all
  <2>4. searches'[b] <= Cardinality(all) + paid
    BY <2>1, <2>2, <2>3
  <2>5. asked[b] = all
    BY DEF all
  <2> QED
    BY <1>5, <2>4, <2>5 DEF paid
<1> QED
  BY <1>3, <1>4, <1>5

\* What is left open of a branch that has searched is the same as before.
LEMMA LaterIsOpen ==
    ASSUME ResearchInv, NEW b \in Branch, step = b
    PROVE  /\ \A c \in Branch : Place(c) >= Place(b) =>
                work.rounds[c] = mem.rounds[c] /\ work.queries[c] = mem.queries[c]
           /\ b \in Rounds => work.rounds[b] < RoundLimit
           /\ b \in {"area", "history"} => DepthIn(b, task) < BranchDepth
BY DEF ResearchInv, BranchIsOpen

\* A search counts what it sent and merges what it found; the turn stays.
LEMMA SearchKeeps ==
    ASSUME ResearchInv, NEW b \in Branch, SearchBranch(b)
    PROVE  ResearchInv' /\ work'.cursor = work.cursor /\ step' \in Branch \cup {"commit"}
<1>1. PICK queries \in Queries(b), urls \in Hits(b) :
        /\ work' = Expanded(b, queries, urls) /\ Sent(b, queries)
        /\ step' = StepAfter(Place(b), task, Expanded(b, queries, urls))
  BY DEF SearchBranch
<1>2. step = b /\ UNCHANGED <<row, mem, task, ends, ordered>>
  BY DEF SearchBranch
<1> DEFINE level == LevelOf(b)
           r == Merged(work, urls \ {task.url}, b, level)
           s == Counted(r, b, queries)
<1>3. /\ TaskAtHand /\ CopyOK(mem) /\ CopyOK(work) /\ CopyOK(row) /\ SameButOrder(row, mem)
      /\ SentIsCounted /\ TasksAreCounted(work) /\ TasksAreCounted(mem)
      /\ task.url = Head(mem.queue).url /\ mem.queue # <<>>
      /\ task.url \in ResearchUrl /\ task.url \notin UrlsOf(work.queue)
  BY <1>2, HandIs
<1>4. work' = s /\ step' = StepAfter(Place(b), task, s)
  BY <1>1 DEF Expanded
<1>5. level \in Nat
  <2>1. work.rounds[b] \in Nat /\ task.level \in Nat
    BY <1>3 DEF CopyOK, TaskAtHand
  <2> QED
    BY <2>1 DEF LevelOf, DepthIn
<1>6. urls \subseteq ResearchUrl
  BY DEF Hits
<1>7. \A u \in ResearchUrl : [url |-> u, branch |-> b, level |-> level] \in ResearchTask
  BY <1>5 DEF ResearchTask
<1>8. /\ b \in Rounds => level = work.rounds[b] + 1
      /\ b \in {"area", "history"} => level = DepthIn(b, task) + 1
  BY BranchFacts DEF LevelOf
<1> HIDE DEF level
<1>9. /\ CopyOK(r) /\ r.visited = work.visited /\ r.rounds = work.rounds /\ r.queries = work.queries /\ r.blocks = work.blocks
      /\ r.cursor = work.cursor
      /\ UrlsOf(r.queue) = UrlsOf(work.queue) \cup ((urls \ {task.url}) \ (work.visited \cup UrlsOf(work.queue)))
      /\ \A t \in ToSet(r.queue) : t \in ToSet(work.queue) \/ (t.branch = b /\ t.level = level)
  <2>1. urls \ {task.url} \subseteq ResearchUrl
    BY <1>6
  <2>2. CopyOK(work)
    BY <1>3
  <2> QED
    BY <1>7, <2>1, <2>2, MergedKeeps
<1> HIDE DEF r
<1>10. /\ \A c \in Branch : Place(c) >= Place(b) =>
             work.rounds[c] = mem.rounds[c] /\ work.queries[c] = mem.queries[c]
       /\ b \in Rounds => work.rounds[b] < RoundLimit
       /\ b \in {"area", "history"} => DepthIn(b, task) < BranchDepth
  BY <1>2, LaterIsOpen
<1>11. /\ searches' \in [Branch -> Nat]
       /\ b \notin Rounds =>
            LET all == work.queries[b] \cup queries
            IN /\ Cardinality(queries) \in 0 .. PerSearch
               /\ IsFiniteSet(all) /\ Cardinality(work.queries[b]) \in Nat /\ Cardinality(all) <= QueryLimit
               /\ Cardinality(all) = Cardinality(work.queries[b]) + Cardinality(queries)
  BY <1>1, <1>2, SentIs
<1>12. /\ CopyOK(s) /\ s.queue = r.queue /\ s.visited = r.visited /\ s.cursor = r.cursor /\ s.blocks = r.blocks
       /\ \A c \in Branch \ {b} : s.rounds[c] = r.rounds[c] /\ s.queries[c] = r.queries[c]
       /\ s.rounds[b] = (IF b \in Rounds THEN r.rounds[b] + 1 ELSE r.rounds[b])
       /\ s.queries[b] = r.queries[b] \cup queries
  <2>1. MayCount(r, b, queries)
    BY <1>9, <1>10, <1>11 DEF MayCount
  <2> QED
    BY <1>9, <2>1, CountedKeeps
<1> HIDE DEF s
<1>13. /\ \A c \in Branch \ {b} : s.rounds[c] = work.rounds[c] /\ s.queries[c] = work.queries[c]
       /\ s.rounds[b] = (IF b \in Rounds THEN work.rounds[b] + 1 ELSE work.rounds[b])
       /\ s.queries[b] = work.queries[b] \cup queries
  BY <1>9, <1>12
<1>14. \A c \in Branch : searches'[c] <= IF c \in Rounds THEN s.rounds[c] + ends
                                         ELSE Cardinality(s.queries[c]) + ends * PerSearch
  BY <1>1, <1>2, <1>13, SearchIsCounted
<1>15. SentIsCounted'
  BY <1>2, <1>4, <1>14 DEF SentIsCounted
<1>16. ends \in Nat
  BY ResearchAssumption DEF ResearchInv, ResearchAssumption
<1>17. SearchesAreBounded'
  BY <1>2, <1>11, <1>12, <1>14, <1>16, CountedIsBounded DEF SearchesAreBounded
<1>18. TasksAreCounted(s)
  <2> SUFFICES ASSUME NEW t \in ToSet(s.queue)
               PROVE  /\ t.branch \in Rounds => t.level <= s.rounds[t.branch]
                      /\ t.branch \in {"area", "history"} => t.level <= BranchDepth
    BY DEF TasksAreCounted
  <2>1. /\ \A c \in Branch : work.rounds[c] \in Nat /\ s.rounds[c] \in Nat /\ work.rounds[c] <= s.rounds[c]
        /\ BranchDepth \in Nat
    <3>1. \A c \in Branch : work.rounds[c] \in Nat /\ s.rounds[c] \in Nat
      BY <1>3, <1>12 DEF CopyOK
    <3>2. ASSUME NEW c \in Branch PROVE work.rounds[c] <= s.rounds[c]
      BY <1>13, <3>1
    <3> QED
      BY <3>1, <3>2, ResearchAssumption DEF ResearchAssumption
  <2>2. CASE t \in ToSet(work.queue)
    <3>1. t \in ResearchTask
      BY <1>3, <2>2, QueueIsFinite DEF CopyOK
    <3>2. t.level \in Nat
      BY <3>1 DEF ResearchTask
    <3>3. t.branch \in {"area", "history"} => t.level <= BranchDepth
      BY <1>3, <2>2 DEF TasksAreCounted
    <3>4. ASSUME t.branch \in Rounds PROVE t.level <= s.rounds[t.branch]
      <4>1. t.branch \in Branch
        BY <3>4, BranchFacts
      <4>2. t.level <= work.rounds[t.branch]
        BY <1>3, <2>2, <3>4 DEF TasksAreCounted
      <4> QED
        BY <2>1, <3>2, <4>1, <4>2
    <3> QED
      BY <3>3, <3>4
  <2>3. CASE t.branch = b /\ t.level = level
    <3>1. b \in Rounds => level <= s.rounds[b]
      BY <1>8, <1>13, <2>1
    <3>2. b \in {"area", "history"} => level <= BranchDepth
      <4>1. DepthIn(b, task) \in Nat
        BY <1>3 DEF DepthIn, TaskAtHand
      <4> QED
        BY <1>8, <1>10, <2>1, <4>1
    <3> QED
      BY <2>3, <3>1, <3>2
  <2> QED
    BY <1>9, <1>12, <2>2, <2>3
<1>19. Place(b) \in 1 .. 5
  BY BranchFacts
<1>20. \/ step' = "commit"
       \/ step' \in Branch /\ Place(step') > Place(b) /\ MayExpand(step', task, s)
  BY <1>4, <1>19, NextStep
<1>21. step' \in Branch \cup {"commit"} /\ step' \notin {"begin", "idle", "ended"}
  BY <1>20, BranchFacts
<1>22. TaskAtHand'
  <2>1. mem'.queue # <<>> /\ task'.url = Head(mem'.queue).url /\ task'.level \in Nat
    BY <1>2, <1>3 DEF TaskAtHand
  <2>2. task'.url \notin UrlsOf(work'.queue)
    BY <1>2, <1>3, <1>4, <1>9, <1>12
  <2>3. \A t \in ToSet(mem'.queue) :
          t.url \in UrlsOf(work'.queue) \cup {task'.url} \/ ClosedBetween(mem', work', t)
    BY <1>2, <1>3, <1>4, <1>9, <1>12 DEF TaskAtHand, ClosedBetween
  <2>7. task'.closed \in BOOLEAN
    BY <1>2, <1>3 DEF TaskAtHand
  <2>4. ASSUME NEW c \in Rounds PROVE work'.rounds[c] \in mem'.rounds[c] .. mem'.rounds[c] + 1
    <3>1. c \in Branch /\ mem.rounds[c] \in Nat /\ work.rounds[c] \in Nat
      BY <1>3, BranchFacts DEF CopyOK
    <3>2. CASE c = b
      <4>1. work.rounds[b] = mem.rounds[b]
        BY <1>10, <1>19
      <4> QED
        BY <1>2, <1>4, <1>13, <3>1, <3>2, <4>1
    <3>3. CASE c # b
      <4>1. work.rounds[c] \in mem.rounds[c] .. mem.rounds[c] + 1
        BY <1>3 DEF TaskAtHand
      <4> QED
        BY <1>2, <1>4, <1>13, <3>1, <3>3, <4>1
    <3> QED
      BY <3>2, <3>3
  <2>5. ASSUME NEW c \in Branch \ Rounds
        PROVE  Cardinality(work'.queries[c]) <= Cardinality(mem'.queries[c]) + PerSearch
    <3>1. CASE c = b
      <4>1. work.queries[b] = mem.queries[b]
        BY <1>10, <1>19
      <4> DEFINE all == work.queries[b] \cup queries
      <4>2. /\ Cardinality(queries) \in 0 .. PerSearch /\ Cardinality(work.queries[b]) \in Nat
            /\ Cardinality(all) = Cardinality(work.queries[b]) + Cardinality(queries)
        BY <1>11, <3>1
      <4>3. work'.queries[c] = all
        BY <1>4, <1>13, <3>1
      <4> HIDE DEF all
      <4>4. Cardinality(all) <= Cardinality(work.queries[b]) + PerSearch
        BY <4>2, ResearchAssumption DEF ResearchAssumption
      <4> QED
        BY <1>2, <3>1, <4>1, <4>3, <4>4
    <3>2. CASE c # b
      <4>1. Cardinality(work.queries[c]) <= Cardinality(mem.queries[c]) + PerSearch
        BY <1>3 DEF TaskAtHand
      <4> QED
        BY <1>2, <1>4, <1>13, <3>2, <4>1
    <3> QED
      BY <3>1, <3>2
  <2>6. work'.visited = mem'.visited
    BY <1>2, <1>3, <1>4, <1>9, <1>12 DEF TaskAtHand
  <2> QED
    BY <2>1, <2>2, <2>3, <2>4, <2>5, <2>6, <2>7 DEF TaskAtHand, ClosedBetween
<1>23. ASSUME step' \in Branch PROVE BranchIsOpen(step)'
  <2>1. Place(step') > Place(b) /\ MayExpand(step', task, s)
    BY <1>20, <1>23, BranchFacts
  <2>2. /\ step' \in Rounds => s.rounds[step'] < RoundLimit
        /\ step' \in {"area", "history"} => DepthIn(step', task) < BranchDepth
    BY <1>23, <2>1, OpenIs
  <2>3. ASSUME NEW c \in Branch, Place(c) >= Place(step')
        PROVE  s.rounds[c] = mem.rounds[c] /\ s.queries[c] = mem.queries[c]
    <3>1. Place(c) \in Nat /\ Place(step') \in Nat
      BY <1>23, BranchFacts
    <3>2. Place(c) > Place(b)
      BY <1>19, <2>1, <2>3, <3>1
    <3>3. c # b /\ Place(c) >= Place(b)
      BY <1>19, <3>1, <3>2
    <3> QED
      BY <1>10, <1>13, <3>3
  <2> QED
    BY <1>2, <1>4, <2>2, <2>3 DEF BranchIsOpen
<1>24. CopyOK(work)' /\ TasksAreCounted(work)'
  BY <1>4, <1>12, <1>18
<1>25. CopyOK(row)' /\ CopyOK(mem)' /\ TasksAreCounted(row)' /\ SameButOrder(row, mem)'
  BY <1>2 DEF ResearchInv, SameButOrder
<1>26. ends' \in 0 .. MaxEnds /\ ordered' \in BOOLEAN
  BY <1>2 DEF ResearchInv
<1>27. work'.cursor = work.cursor
  BY <1>4, <1>9, <1>12
<1> QED
  BY <1>11, <1>15, <1>17, <1>21, <1>22, <1>23, <1>24, <1>25, <1>26, <1>27 DEF ResearchInv

\* A cut expansion stores what was found; only the historical branch has counted its search.
LEMMA StopsKeeps ==
    ASSUME ResearchInv, NEW b \in Branch, ExpansionStops(b) PROVE ResearchInv' /\ PagesStayed
<1>1. PICK queries \in Queries(b) :
        /\ Sent(b, queries)
        /\ Stores(Committed(IF b = "history" THEN Counted(work, b, queries) ELSE work), FALSE)
  BY DEF ExpansionStops
<1>2. step = b /\ ends \in Nat /\ ends' = ends + 1 /\ ends' \in 0 .. MaxEnds
  BY CutIs DEF ExpansionStops
<1> DEFINE r == IF b = "history" THEN Counted(work, b, queries) ELSE work
           s == Committed(r)
<1>3. row' = s /\ mem' = s /\ work' = s /\ step' = "idle" /\ ordered' = FALSE
  BY <1>1 DEF Stores
<1>4. /\ CopyOK(work) /\ SentIsCounted /\ TasksAreCounted(work)
      /\ task.url \in ResearchUrl /\ task.url \notin UrlsOf(work.queue)
  BY <1>2, HandIs
<1>5. searches \in [Branch -> Nat]
  BY DEF ResearchInv
<1>6. searches' \in [Branch -> Nat]
  BY <1>1, <1>2, SentIs
<1>7. /\ CopyOK(r) /\ r.queue = work.queue /\ r.visited = work.visited /\ r.rounds = work.rounds
      /\ r.blocks = work.blocks
      /\ \A c \in Branch : searches'[c] <= IF c \in Rounds THEN r.rounds[c] + ends'
                                           ELSE Cardinality(r.queries[c]) + ends' * PerSearch
  <2>1. CASE b = "history"
    <3>1. b \notin Rounds
      BY <2>1, BranchFacts
    <3>2. IsFiniteSet(work.queries[b] \cup queries) /\ Cardinality(work.queries[b] \cup queries) <= QueryLimit
      BY <1>1, <1>2, <3>1, SentIs
    <3>3. r = Counted(work, b, queries)
      BY <2>1
    <3> HIDE DEF r
    <3>4. /\ CopyOK(r) /\ r.queue = work.queue /\ r.visited = work.visited /\ r.blocks = work.blocks
          /\ \A c \in Branch \ {b} : r.rounds[c] = work.rounds[c] /\ r.queries[c] = work.queries[c]
          /\ r.rounds[b] = (IF b \in Rounds THEN work.rounds[b] + 1 ELSE work.rounds[b])
          /\ r.queries[b] = work.queries[b] \cup queries
      BY <1>4, <3>1, <3>2, <3>3, CountedKeeps DEF MayCount
    <3>5. r.rounds = work.rounds
      <4>1. r.rounds \in [Branch -> Nat] /\ work.rounds \in [Branch -> Nat]
        BY <1>4, <3>4 DEF CopyOK
      <4>2. \A c \in Branch : r.rounds[c] = work.rounds[c]
        BY <3>1, <3>4
      <4> QED
        BY <4>1, <4>2
    <3>6. \A c \in Branch : searches'[c] <= IF c \in Rounds THEN r.rounds[c] + ends
                                            ELSE Cardinality(r.queries[c]) + ends * PerSearch
      BY <1>1, <1>2, <3>4, SearchIsCounted
    <3>7. ASSUME NEW c \in Branch
          PROVE  searches'[c] <= IF c \in Rounds THEN r.rounds[c] + ends'
                                 ELSE Cardinality(r.queries[c]) + ends' * PerSearch
      <4>1. CASE c \in Rounds
        <5>1. r.rounds[c] \in Nat /\ searches'[c] \in Nat
          BY <1>6, <3>4 DEF CopyOK
        <5> QED
          BY <1>2, <3>6, <4>1, <5>1
      <4>2. CASE c \notin Rounds
        <5> DEFINE paid == ends * PerSearch
                   m == Cardinality(r.queries[c])
        <5>1. m \in Nat
          BY <3>4, <4>2, FS_CardinalityType DEF CopyOK
        <5>2. paid \in Nat /\ PerSearch \in Nat /\ ends' * PerSearch = paid + PerSearch
          BY <1>2, OneMoreCut
        <5>3. searches'[c] <= m + paid /\ searches'[c] \in Nat
          BY <1>6, <3>6, <4>2
        <5> HIDE DEF paid, m
        <5>4. searches'[c] <= m + (paid + PerSearch)
          BY <5>1, <5>2, <5>3
        <5> QED
          BY <4>2, <5>2, <5>4 DEF m
      <4> QED
        BY <4>1, <4>2
    <3> QED
      BY <3>4, <3>5, <3>7
  <2>2. CASE b # "history"
    <3>1. r = work
      BY <2>2
    <3> HIDE DEF r
    <3>2. ASSUME NEW c \in Branch
          PROVE  searches'[c] <= IF c \in Rounds THEN work.rounds[c] + ends'
                                 ELSE Cardinality(work.queries[c]) + ends' * PerSearch
      <4>1. CASE c \in Rounds
        <5>1. /\ searches[c] <= work.rounds[c] + ends /\ work.rounds[c] \in Nat
              /\ searches[c] \in Nat
          BY <1>4, <1>5, <4>1 DEF SentIsCounted, CopyOK
        <5>2. searches'[c] = searches[c] \/ searches'[c] = searches[c] + 1
          BY <1>1, <1>2, <4>1, SentIs
        <5> QED
          BY <1>2, <4>1, <5>1, <5>2
      <4>2. CASE c \notin Rounds
        <5> DEFINE paid == ends * PerSearch
                   m == Cardinality(work.queries[c])
                   n == Cardinality(queries)
        <5>1. m \in Nat
          BY <1>4, <4>2, FS_CardinalityType DEF CopyOK
        <5>2. paid \in Nat /\ PerSearch \in Nat /\ ends' * PerSearch = paid + PerSearch
          BY <1>2, OneMoreCut
        <5>3. searches[c] <= m + paid /\ searches[c] \in Nat
          BY <1>4, <1>5, <4>2 DEF SentIsCounted
        <5>4. searches'[c] = searches[c] \/ (searches'[c] = searches[c] + n /\ n \in 0 .. PerSearch)
          BY <1>1, <1>2, <4>2, SentIs
        <5> HIDE DEF paid, m, n
        <5>5. searches'[c] <= m + (paid + PerSearch)
          BY <5>1, <5>2, <5>3, <5>4
        <5> QED
          BY <4>2, <5>2, <5>5 DEF m
      <4> QED
        BY <4>1, <4>2
    <3> QED
      BY <1>4, <3>1, <3>2
  <2> QED
    BY <2>1, <2>2
<1> HIDE DEF r
<1>8. /\ CopyOK(s) /\ s.queue = r.queue /\ s.visited = r.visited \cup {task.url}
      /\ s.rounds = r.rounds /\ s.queries = r.queries /\ s.blocks = r.blocks
  BY <1>4, <1>7, CommittedKeeps
<1> HIDE DEF s
<1>9. TasksAreCounted(s)
  BY <1>4, <1>7, <1>8 DEF TasksAreCounted
<1>10. \A c \in Branch : searches'[c] <= IF c \in Rounds THEN s.rounds[c] + ends'
                                         ELSE Cardinality(s.queries[c]) + ends' * PerSearch
  BY <1>7, <1>8
<1>12. PagesStayed
  BY <1>2, <1>3, <1>7, <1>8, PagesAtHand DEF PagesStayed
<1>13. ResearchInv'
  BY <1>2, <1>3, <1>6, <1>8, <1>9, <1>10, StoredKeeps
<1> QED
  BY <1>12, <1>13

\* A crash goes back to the row; the cut pays for the search that was under way.
LEMMA CrashKeeps == ASSUME ResearchInv, ResearchCrash PROVE ResearchInv'
<1>1. /\ mem' = row /\ work' = row /\ step' = "begin" /\ ordered' = FALSE /\ row' = row
      /\ ends \in Nat /\ ends' = ends + 1 /\ ends' \in 0 .. MaxEnds
      /\ step \in Branch \cup {"idle", "commit"}
  BY CutIs DEF ResearchCrash
<1>2. /\ CopyOK(row) /\ CopyOK(mem) /\ CopyOK(work) /\ SameButOrder(row, mem) /\ TasksAreCounted(row)
      /\ searches \in [Branch -> Nat]
  BY DEF ResearchInv
<1>3. row.rounds = mem.rounds /\ row.queries = mem.queries /\ row.blocks = mem.blocks
  BY <1>2 DEF SameButOrder
<1>4. /\ searches' \in [Branch -> Nat]
      /\ \A c \in Branch : searches'[c] <= IF c \in Rounds THEN row.rounds[c] + ends'
                                           ELSE Cardinality(row.queries[c]) + ends' * PerSearch
  <2>1. CASE step \in Branch
    <3>1. PICK queries \in Queries(step) : Sent(step, queries)
      BY <2>1 DEF ResearchCrash
    <3>2. searches' \in [Branch -> Nat]
      BY <2>1, <3>1, SentIs
    <3>3. \A c \in Branch : searches'[c] <= IF c \in Rounds THEN mem.rounds[c] + ends'
                                            ELSE Cardinality(mem.queries[c]) + ends' * PerSearch
      BY <1>1, <2>1, <3>1, LostSearchIsPaid
    <3> QED
      BY <1>3, <3>2, <3>3
  <2>2. CASE step \notin Branch
    <3>1. searches' = searches
      BY <2>2 DEF ResearchCrash
    <3>2. step \in {"idle", "commit"}
      BY <1>1, <2>2
    <3>3. SentIsCounted /\ (step = "idle" => work = mem) /\ (step = "commit" => TaskAtHand)
      BY <3>2 DEF ResearchInv
    <3>4. ASSUME NEW c \in Branch
          PROVE  searches'[c] <= IF c \in Rounds THEN mem.rounds[c] + ends'
                                 ELSE Cardinality(mem.queries[c]) + ends' * PerSearch
      <4>1. CASE c \in Rounds
        <5>1. /\ searches[c] <= work.rounds[c] + ends /\ work.rounds[c] \in Nat /\ mem.rounds[c] \in Nat
              /\ searches[c] \in Nat
          BY <1>2, <3>3, <4>1 DEF SentIsCounted, CopyOK
        <5>2. work.rounds[c] <= mem.rounds[c] + 1
          <6>1. CASE step = "idle"
            BY <3>3, <5>1, <6>1
          <6>2. CASE step = "commit"
            BY <3>3, <4>1, <5>1, <6>2 DEF TaskAtHand
          <6> QED
            BY <3>2, <6>1, <6>2
        <5> QED
          BY <1>1, <3>1, <4>1, <5>1, <5>2
      <4>2. CASE c \notin Rounds
        <5> DEFINE paid == ends * PerSearch
                   w == Cardinality(work.queries[c])
                   m == Cardinality(mem.queries[c])
        <5>1. m \in Nat /\ w \in Nat
          BY <1>2, <4>2, FS_CardinalityType DEF CopyOK
        <5>2. paid \in Nat /\ PerSearch \in Nat /\ ends' * PerSearch = paid + PerSearch
          BY <1>1, OneMoreCut
        <5>3. searches[c] <= w + paid /\ searches[c] \in Nat
          BY <1>2, <3>3, <4>2 DEF SentIsCounted
        <5>4. w <= m + PerSearch
          <6>1. CASE step = "idle"
            <7>1. w = m
              BY <3>3, <6>1
            <7> HIDE DEF w, m
            <7> QED
              BY <5>1, <5>2, <7>1
          <6>2. CASE step = "commit"
            BY <3>3, <4>2, <6>2 DEF TaskAtHand
          <6> QED
            BY <3>2, <6>1, <6>2
        <5> HIDE DEF paid, w, m
        <5>5. searches'[c] <= m + (paid + PerSearch)
          BY <3>1, <5>1, <5>2, <5>3, <5>4
        <5> QED
          BY <4>2, <5>2, <5>5 DEF m
      <4> QED
        BY <4>1, <4>2
    <3> QED
      BY <1>2, <1>3, <3>1, <3>4
  <2> QED
    BY <2>1, <2>2
<1>5. ends' \in Nat
  BY <1>1
<1>6. SearchesAreBounded'
  BY <1>2, <1>4, <1>5, CountedIsBounded DEF SearchesAreBounded
<1>7. SentIsCounted'
  BY <1>1, <1>4 DEF SentIsCounted
<1>8. SameButOrder(row, mem)'
  BY <1>1 DEF SameButOrder
<1>9. step' \notin Branch \cup {"commit"}
  BY <1>1, BranchFacts
<1>10. /\ CopyOK(row)' /\ CopyOK(mem)' /\ CopyOK(work)' /\ TasksAreCounted(row)' /\ TasksAreCounted(work)'
  BY <1>1, <1>2
<1> QED
  BY <1>1, <1>4, <1>6, <1>7, <1>8, <1>9, <1>10 DEF ResearchInv

--------------------------------------------------------------------------------
(* The steps together, and what follows from the invariant. *)

\* Every step keeps the invariant, and no step lets the row forget a page.
LEMMA ResearchStep ==
    ASSUME ResearchInv, [ResearchNext]_researchVars
    PROVE  ResearchInv' /\ (row' # row => PagesStayed)
<1>1. CASE BeginResearch
  BY <1>1, BeginKeeps DEF BeginResearch
<1>2. CASE NoFollowup
  BY <1>2, NoFollowupKeeps DEF NoFollowup
<1>3. CASE CommitPage
  BY <1>3, CommitKeeps
<1>4. CASE FetchFails
  BY <1>4, FetchFailsKeeps
<1>5. CASE ResearchDeadline
  BY <1>5, DeadlineKeeps DEF ResearchDeadline
<1>6. CASE ResearchCrash
  BY <1>6, CrashKeeps DEF ResearchCrash
<1>7. ASSUME NEW useful \in BOOLEAN, NEW duplicate \in BOOLEAN, ReadPage(useful, duplicate)
      PROVE  ResearchInv' /\ row' = row
  <2>1. ResearchInv'
    BY <1>7, ReadKeeps
  <2>2. row' = row
    BY <1>7 DEF ReadPage
  <2> QED
    BY <2>1, <2>2
<1>12. ASSUME NEW refusal \in Refusal, ReadBlocked(refusal) PROVE ResearchInv' /\ row' = row
  <2>1. ResearchInv'
    BY <1>12, BlockedKeeps
  <2>2. row' = row
    BY <1>12 DEF ReadBlocked
  <2> QED
    BY <2>1, <2>2
<1>8. ASSUME NEW b \in Branch, SearchBranch(b) PROVE ResearchInv' /\ row' = row
  <2>1. ResearchInv'
    BY <1>8, SearchKeeps
  <2>2. row' = row
    BY <1>8 DEF SearchBranch
  <2> QED
    BY <2>1, <2>2
<1>9. ASSUME NEW b \in Branch, ExpansionStops(b) PROVE ResearchInv' /\ PagesStayed
  BY <1>9, StopsKeeps
<1>10. ASSUME NEW b \in Branch, TaskTimesOut(b) PROVE ResearchInv' /\ PagesStayed
  BY <1>10, TimeoutKeeps
<1>11. CASE UNCHANGED researchVars
  <2> USE <1>11 DEF researchVars
  <2>1. /\ CopyOK(row)' /\ CopyOK(mem)' /\ CopyOK(work)' /\ TasksAreCounted(row)' /\ TasksAreCounted(work)'
    BY DEF ResearchInv
  <2>2. /\ SameButOrder(row, mem)' /\ SearchesAreBounded' /\ (SentIsCounted <=> SentIsCounted')
        /\ (TaskAtHand <=> TaskAtHand') /\ (BranchIsOpen(step) <=> BranchIsOpen(step)')
    BY DEF ResearchInv, SameButOrder, SearchesAreBounded, SentIsCounted, TaskAtHand, ClosedBetween, BranchIsOpen
  <2> QED
    BY <2>1, <2>2 DEF ResearchInv
<1> QED
  BY <1>1, <1>2, <1>3, <1>4, <1>5, <1>6, <1>7, <1>8, <1>9, <1>10, <1>11, <1>12 DEF ResearchNext

\* A queue with one task for a page is as long as its pages are many.
LEMMA OnceIsAsLong ==
    ASSUME NEW tasks \in Seq(ResearchTask), Once(tasks)
    PROVE  Len(tasks) = Cardinality(UrlsOf(tasks))
<1> DEFINE n == Len(tasks)
           f == [i \in 1 .. n |-> tasks[i].url]
<1>1. n \in Nat /\ DOMAIN tasks = 1 .. n
  OBVIOUS
<1>2. UrlsOf(tasks) = {tasks[i].url : i \in 1 .. n}
  BY <1>1 DEF UrlsOf
<1>3. f \in [1 .. n -> UrlsOf(tasks)]
  BY <1>2
<1>4. \A i, j \in 1 .. n : f[i] = f[j] => i = j
  BY <1>1 DEF Once
<1>5. \A u \in UrlsOf(tasks) : \E i \in 1 .. n : f[i] = u
  BY <1>2
<1> HIDE DEF f
<1>6. f \in Bijection(1 .. n, UrlsOf(tasks))
  BY <1>3, <1>4, <1>5 DEF Bijection, Injection, IsInjective, Surjection
<1>7. ExistsBijection(1 .. n, UrlsOf(tasks))
  BY <1>6 DEF ExistsBijection
<1> QED
  BY <1>1, <1>7, FS_CountingElements

\* What the invariant says of the types, the searches and the tasks.
LEMMA ResearchInvImplies ==
    ASSUME ResearchInv
    PROVE  ResearchTypeOK /\ SearchesAreBounded /\ BranchesAreCounted
<1>1. ASSUME NEW r, CopyOK(r) PROVE ResearchCopy(r)
  <2>1. Len(r.queue) = Cardinality(UrlsOf(r.queue))
    BY <1>1, OnceIsAsLong DEF CopyOK
  <2>2. \A b \in Rounds : r.rounds[b] \in 0 .. RoundLimit
    <3>1. RoundLimit \in Nat
      BY ResearchAssumption DEF ResearchAssumption
    <3>2. \A b \in Rounds : r.rounds[b] \in Nat /\ r.rounds[b] <= RoundLimit
      BY <1>1, BranchFacts DEF CopyOK
    <3> QED
      BY <3>1, <3>2
  <2> QED
    BY <1>1, <2>1, <2>2 DEF CopyOK, ResearchCopy
<1>2. ResearchTypeOK
  BY <1>1 DEF ResearchInv, ResearchTypeOK
<1>3. BranchesAreCounted
  <2>1. TasksAreCounted(row)
    BY DEF ResearchInv
  <2>2. \A i \in DOMAIN row.queue : row.queue[i] \in ToSet(row.queue)
    BY DEF ToSet
  <2> QED
    BY <2>1, <2>2 DEF BranchesAreCounted, TasksAreCounted
<1> QED
  BY <1>2, <1>3 DEF ResearchInv

\* ResearchInv holds of every collection.
THEOREM ResearchKeepsInv == ResearchSpec => []ResearchInv
<1>1. ResearchInit => ResearchInv
  BY InitKeeps
<1>2. ResearchInv /\ [ResearchNext]_researchVars => ResearchInv'
  BY ResearchStep
<1> QED
  BY <1>1, <1>2, PTL DEF ResearchSpec

\* SearchesAreBounded and BranchesAreCounted: however expansions, tasks and attempts are
\* cut short (atomic.py), no branch sends more than its limit and one search per cut.
THEOREM ResearchIsBounded == ResearchSpec => [](ResearchTypeOK /\ SearchesAreBounded /\ BranchesAreCounted)
<1>1. ResearchInv => ResearchTypeOK /\ SearchesAreBounded /\ BranchesAreCounted
  BY ResearchInvImplies
<1> QED
  BY <1>1, ResearchKeepsInv, PTL

\* NoPageIsForgotten: no commit of the row drops a page that was queued or read, but for the
\* tasks of a source and host whose circuit this commit opens (atomic.py).
THEOREM ResearchForgetsNothing == ResearchSpec => NoPageIsForgotten
<1>1. ResearchInv /\ [ResearchNext]_researchVars => [PagesStay(row, row')]_row
  BY ResearchStep DEF PagesStayed
<1> QED
  BY <1>1, ResearchKeepsInv, PTL DEF ResearchSpec, NoPageIsForgotten

--------------------------------------------------------------------------------
(* Whose turn it is. *)

\* How many turns a goal is from its own.
Turns(g, cursor) == (g + Goals - cursor) % Goals

(* A goal that waits has waited less than the goals before its turn are many.            *)
TurnInv ==
    /\ waited \in [Goal -> Nat] /\ NoGoalStarves
    /\ step = "begin" => \A g \in Goal : waited[g] = 0
    /\ step = "idle" /\ ordered /\ mem.queue # <<>> =>
         \A g \in Goal : WaitsFor(g, Head(mem.queue)) => waited[g] + Turns(g, mem.cursor) + 1 < Goals
    /\ step \in Branch \cup {"commit"} =>
         work.cursor = mem.cursor /\ \A g \in Goal : waited[g] + Turns(g, mem.cursor) < Goals

\* WaitsFor, of a copy.
Waits(r, g, t) ==
    /\ g # GoalOf[t.url]
    /\ r.gaps # {} => g \in r.gaps
    /\ \E u \in ToSet(r.queue) : Tier(u) = Tier(t) /\ GoalOf[u.url] = g

\* The turns to go, without a remainder.
LEMMA TurnsAre ==
    ASSUME NEW g \in Goal, NEW c \in Goal
    PROVE  /\ Turns(g, c) = (IF g >= c THEN g - c ELSE g - c + Goals)
           /\ Turns(g, c) \in 0 .. Goals - 1
<1>1. Goals \in Nat \ {0} /\ g \in 1 .. Goals /\ c \in 1 .. Goals
  BY ResearchAssumption DEF ResearchAssumption, Goal
<1>2. \A G \in Nat \ {0} : \A x \in 0 .. G - 1 : x % G = x
  OBVIOUS
<1>3. \A G \in Nat \ {0} : \A x \in G .. 2 * G - 1 : x % G = x - G
  OBVIOUS
<1>4. CASE g >= c
  <2>1. g + Goals - c \in Goals .. 2 * Goals - 1
    BY <1>1, <1>4
  <2> DEFINE x == g + Goals - c
  <2>2. \A y \in Goals .. 2 * Goals - 1 : y % Goals = y - Goals
    BY <1>1, <1>3
  <2>3. x = g + Goals - c /\ x \in Goals .. 2 * Goals - 1 /\ Turns(g, c) = x % Goals
    BY <2>1 DEF Turns
  <2> HIDE DEF x
  <2>4. x % Goals = x - Goals
    BY <2>2, <2>3
  <2> QED
    BY <1>1, <1>4, <2>3, <2>4
<1>5. CASE ~(g >= c)
  <2>1. g + Goals - c \in 0 .. Goals - 1
    BY <1>1, <1>5
  <2>2. (g + Goals - c) % Goals = g + Goals - c
    BY <1>1, <1>2, <2>1
  <2> QED
    BY <1>1, <1>5, <2>1, <2>2 DEF Turns
<1> QED
  BY <1>4, <1>5

\* The turn passes to the goal after that of the next task, and leaves the others nearer.
LEMMA TurnPasses ==
    ASSUME NEW g \in Goal, NEW h \in Goal, NEW c \in Goal, Turns(h, c) < Turns(g, c)
    PROVE  Turns(g, (h % Goals) + 1) + 1 <= Turns(g, c)
<1>1. Goals \in Nat \ {0} /\ g \in 1 .. Goals /\ c \in 1 .. Goals /\ h \in 1 .. Goals
  BY ResearchAssumption DEF ResearchAssumption, Goal
<1> DEFINE n == (h % Goals) + 1
<1>2. n = (IF h = Goals THEN 1 ELSE h + 1) /\ n \in 1 .. Goals
  <2>1. \A G \in Nat \ {0} : G % G = 0 /\ \A x \in 0 .. G - 1 : x % G = x
    OBVIOUS
  <2>2. CASE h = Goals
    BY <1>1, <2>1, <2>2
  <2>3. CASE h # Goals
    <3>1. h \in 0 .. Goals - 1
      BY <1>1, <2>3
    <3>2. h % Goals = h
      BY <1>1, <2>1, <3>1
    <3> QED
      BY <1>1, <2>3, <3>2
  <2> QED
    BY <2>2, <2>3
<1> HIDE DEF n
<1>3. n \in Goal
  BY <1>2 DEF Goal
<1>4. /\ Turns(g, c) = (IF g >= c THEN g - c ELSE g - c + Goals)
      /\ Turns(h, c) = (IF h >= c THEN h - c ELSE h - c + Goals)
      /\ Turns(g, n) = (IF g >= n THEN g - n ELSE g - n + Goals)
  BY <1>3, TurnsAre
<1>5. Turns(g, n) + 1 <= Turns(g, c)
  BY <1>1, <1>2, <1>4
<1> QED
  BY <1>5 DEF n

\* Two goals have the same number of turns to go only if they are one.
LEMMA TurnsDiffer ==
    ASSUME NEW g \in Goal, NEW h \in Goal, NEW c \in Goal, Turns(h, c) = Turns(g, c)
    PROVE  g = h
<1>1. Goals \in Nat \ {0} /\ g \in 1 .. Goals /\ c \in 1 .. Goals /\ h \in 1 .. Goals
  BY ResearchAssumption DEF ResearchAssumption, Goal
<1>2. /\ Turns(g, c) = (IF g >= c THEN g - c ELSE g - c + Goals)
      /\ Turns(h, c) = (IF h >= c THEN h - c ELSE h - c + Goals)
  BY TurnsAre
<1> QED
  BY <1>1, <1>2

\* What Prioritised does to the fields that decide about the turns.
LEMMA PrioritisedFields ==
    ASSUME NEW r, CopyOK(r), r.queue # <<>>
    PROVE  LET s == Prioritised(r)
               h == Head(InLine(r))
           IN /\ InLine(r) # <<>> /\ s.queue = InLine(r) /\ s.gaps = r.gaps
              /\ h \in ToSet(r.queue)
              /\ s.cursor = IF GoalOf[h.url] = 0 THEN r.cursor ELSE (GoalOf[h.url] % Goals) + 1
<1> DEFINE line == InLine(r)
           goal == GoalOf[Head(line).url]
           turn == IF goal = 0 THEN r.cursor ELSE (goal % Goals) + 1
           s == Prioritised(r)
<1>1. line \in Seq(ResearchTask) /\ ToSet(line) = ToSet(r.queue)
  BY LineIsTheQueue
<1>2. ToSet(r.queue) # {}
  BY QueueIsFinite DEF CopyOK
<1>3. ToSet(<<>>) = {}
  BY DEF ToSet
<1>4. line # <<>>
  BY <1>1, <1>2, <1>3
<1>5. Head(line) \in ToSet(line)
  BY <1>1, <1>4, QueueIsFinite
<1>6. s = [r EXCEPT !.queue = line, !.cursor = turn]
  BY <1>4 DEF Prioritised, CopyOK
<1>7. r = [queue |-> r.queue, visited |-> r.visited, facts |-> r.facts, gaps |-> r.gaps,
           cursor |-> r.cursor, rounds |-> r.rounds, queries |-> r.queries, blocks |-> r.blocks]
  BY DEF CopyOK
<1> HIDE DEF s, line, turn
<1>8. s = [queue |-> line, visited |-> r.visited, facts |-> r.facts, gaps |-> r.gaps,
           cursor |-> turn, rounds |-> r.rounds, queries |-> r.queries, blocks |-> r.blocks]
  BY <1>6, <1>7
<1>9. s.queue = line /\ s.gaps = r.gaps /\ s.cursor = turn
  BY <1>8
<1> QED
  BY <1>1, <1>4, <1>5, <1>9 DEF s, line, turn

\* Nothing of a queue that is in order comes before its first task.
LEMMA HeadIsFirst ==
    ASSUME NEW r, CopyOK(r), r.queue # <<>>, NEW u \in ToSet(r.queue), u # Head(InLine(r))
    PROVE  Precedes(PlaceOf(Head(InLine(r)), r), PlaceOf(u, r))
<1> DEFINE S == ToSet(r.queue)
           before == {p \in S \X S : Precedes(PlaceOf(p[1], r), PlaceOf(p[2], r))}
           s == InLine(r)
           n == Cardinality(S)
<1>1. IsFiniteSet(S) /\ n \in Nat
  BY QueueIsFinite DEF CopyOK
<1>2. Orders(before, S)
  BY LineIsOrdered
<1>3. s = InOrder(S, before)
  BY DEF InLine
<1>0. s # <<>> /\ s \in Seq(ResearchTask)
  BY PrioritisedFields, LineIsTheQueue
<1>p. \A x, y \in S : <<x, y>> \in before <=> Precedes(PlaceOf(x, r), PlaceOf(y, r))
  OBVIOUS
<1> HIDE DEF S, before, s
<1>4. Lists(s, S, before)
  BY <1>1, <1>2, <1>3, InOrderLists
<1> HIDE DEF n
<1>5. s \in [1 .. n -> S] /\ \A x \in S : \E i \in 1 .. n : s[i] = x
  BY <1>4 DEF Lists, n
<1>6. \A i, j \in 1 .. n : i < j <=> <<s[i], s[j]>> \in before
  BY <1>4 DEF Lists, n
<1>7. PICK k \in 1 .. n : s[k] = u
  BY <1>5 DEF S
<1>8. Head(s) = s[1] /\ 1 \in 1 .. n
  BY <1>0, <1>1, <1>5, <1>7
<1>9. k # 1
  BY <1>7, <1>8 DEF s
<1>10. <<s[1], s[k]>> \in before
  BY <1>1, <1>6, <1>8, <1>9
<1>11. s[1] \in S /\ s[k] \in S
  BY <1>5, <1>8
<1> QED
  BY <1>7, <1>8, <1>10, <1>11, <1>p DEF s

\* Putting the queue in order brings a goal that waits at least one turn nearer.
LEMMA TurnComesNearer ==
    ASSUME NEW r, CopyOK(r), r.queue # <<>>, NEW g \in Goal, Waits(r, g, Head(InLine(r)))
    PROVE  Turns(g, Prioritised(r).cursor) + 1 <= Turns(g, r.cursor)
<1> DEFINE h == Head(InLine(r))
           S == ToSet(r.queue)
           lane == {u \in S : Tier(u) = Tier(h) /\ GoalOf[u.url] = g}
           urls == {u.url : u \in lane}
           gh == GoalOf[h.url]
<1>1. S \subseteq ResearchTask /\ h \in S
  BY QueueIsFinite, PrioritisedFields DEF CopyOK
<1>2. lane # {} /\ lane \subseteq S /\ g # gh /\ (r.gaps # {} => g \in r.gaps)
  BY DEF Waits
<1>3. \A u \in S : u.url \in ResearchUrl /\ u.url \in Nat
  <2>1. ResearchUrl \subseteq Nat \ {0}
    BY ResearchAssumption DEF ResearchAssumption
  <2> QED
    BY <1>1, <2>1 DEF ResearchTask
<1>4. PICK u0 \in lane : \A u \in lane : u0.url <= u.url
  <2>1. urls \subseteq Nat /\ urls # {}
    BY <1>2, <1>3
  <2>2. PICK m \in urls : \A k \in urls : m <= k
    <3> HIDE DEF urls
    <3> QED
      BY <2>1, NatMin
  <2> QED
    BY <2>2
<1>5. u0 \in S /\ Tier(u0) = Tier(h) /\ GoalOf[u0.url] = g
  BY <1>4
<1>6. g \in 1 .. Goals /\ Goals \in Nat \ {0} /\ gh \in 0 .. Goals
  BY <1>1, <1>3, ResearchAssumption DEF ResearchAssumption, Goal
<1>7. gh # 0
  <2>1. Tier(u0)[2] = 0 /\ Tier(h)[2] = IF gh = 0 THEN 1 ELSE 0
    BY <1>5, <1>6 DEF Tier
  <2> QED
    BY <1>5, <2>1
<1>8. gh \in Goal
  BY <1>6, <1>7 DEF Goal
<1> DEFINE p == PlaceOf(h, r)
           q == PlaceOf(u0, r)
<1>9. Precedes(p, q)
  BY <1>1, <1>2, <1>5, HeadIsFirst
<1>10. /\ q[1] = 0 /\ q[5] = 0 /\ q[6] = Turns(g, r.cursor)
       /\ q[2] = Tier(h)[1] /\ q[3] = Tier(h)[2] /\ q[4] = Tier(h)[3]
  <2> DEFINE l0 == {u \in S : Tier(u) = Tier(u0) /\ GoalOf[u.url] = g /\ u.url < u0.url}
  <2>1. l0 = {}
    <3>1. ASSUME NEW u \in l0 PROVE FALSE
      <4>1. u \in lane /\ u.url < u0.url /\ u \in S
        BY <1>5, <3>1
      <4>2. u0.url <= u.url /\ u.url \in Nat /\ u0.url \in Nat
        BY <1>3, <1>4, <1>5, <4>1
      <4> QED
        BY <4>1, <4>2
    <3> QED
      BY <3>1
  <2>2. Cardinality(l0) = 0
    BY <2>1, FS_EmptySet
  <2>3. g # 0
    BY <1>6
  <2>4. q = <<IF r.gaps # {} /\ g \notin r.gaps THEN 1 ELSE 0, Tier(u0)[1], Tier(u0)[2], Tier(u0)[3],
              Cardinality(l0), (g + Goals - r.cursor) % Goals, u0.url>>
    BY <1>5, <2>3 DEF PlaceOf
  <2> HIDE DEF q, l0
  <2>5. /\ q[1] = (IF r.gaps # {} /\ g \notin r.gaps THEN 1 ELSE 0) /\ q[5] = Cardinality(l0)
        /\ q[6] = (g + Goals - r.cursor) % Goals
        /\ q[2] = Tier(u0)[1] /\ q[3] = Tier(u0)[2] /\ q[4] = Tier(u0)[3]
    BY <2>4
  <2> QED
    BY <1>2, <1>5, <2>2, <2>5 DEF Turns
<1>11. /\ p[1] >= 0 /\ p[5] >= 0 /\ p[6] = Turns(gh, r.cursor)
       /\ p[2] = Tier(h)[1] /\ p[3] = Tier(h)[2] /\ p[4] = Tier(h)[3]
  <2> DEFINE lh == {u \in S : Tier(u) = Tier(h) /\ GoalOf[u.url] = gh /\ u.url < h.url}
  <2>1. IsFiniteSet(S) /\ lh \in SUBSET S
    BY QueueIsFinite DEF CopyOK
  <2>2. Cardinality(lh) \in Nat
    BY <2>1, FS_Subset, FS_CardinalityType
  <2>4. p = <<IF r.gaps # {} /\ gh \notin r.gaps THEN 1 ELSE 0, Tier(h)[1], Tier(h)[2], Tier(h)[3],
              Cardinality(lh), (gh + Goals - r.cursor) % Goals, h.url>>
    BY <1>7 DEF PlaceOf
  <2> HIDE DEF p, lh, gh, h
  <2>5. /\ p[1] = (IF r.gaps # {} /\ gh \notin r.gaps THEN 1 ELSE 0) /\ p[5] = Cardinality(lh)
        /\ p[6] = (gh + Goals - r.cursor) % Goals
        /\ p[2] = Tier(h)[1] /\ p[3] = Tier(h)[2] /\ p[4] = Tier(h)[3]
    BY <2>4
  <2> QED
    BY <2>2, <2>5 DEF Turns
<1>12. p \in Places /\ q \in Places
  BY <1>1, <1>5, PlaceIsTyped
<1>c. r.cursor \in Goal
  BY DEF CopyOK
<1>s. Prioritised(r).cursor = (gh % Goals) + 1
  BY <1>7, PrioritisedFields
<1> HIDE DEF p, q, h, S, lane, urls, gh
<1>13. Turns(gh, r.cursor) # Turns(g, r.cursor)
  BY <1>2, <1>8, <1>c, TurnsDiffer
<1>14. Turns(gh, r.cursor) < Turns(g, r.cursor)
  <2>1. PICK i \in DOMAIN p : p[i] < q[i] /\ \A j \in 1 .. i - 1 : p[j] = q[j]
    BY <1>9 DEF Precedes
  <2>2. i \in 1 .. 7 /\ \A j \in 1 .. 7 : p[j] \in Int /\ q[j] \in Int
    BY <1>12, <2>1 DEF Places
  <2>3. i # 1 /\ i # 2 /\ i # 3 /\ i # 4 /\ i # 5
    BY SMTT(30), <1>10, <1>11, <2>1, <2>2
  <2>4. i # 7
    <3>1. ASSUME i = 7 PROVE FALSE
      <4>1. 6 \in 1 .. i - 1
        BY <3>1
      <4>2. p[6] = q[6]
        BY <2>1, <4>1
      <4> QED
        BY <1>10, <1>11, <1>13, <4>2
    <3> QED
      BY <3>1
  <2>5. i = 6
    BY <2>2, <2>3, <2>4
  <2> QED
    BY <1>10, <1>11, <2>1, <2>5
<1>15. Turns(g, (gh % Goals) + 1) + 1 <= Turns(g, r.cursor)
  BY <1>8, <1>14, <1>c, TurnPasses
<1> QED
  BY <1>15, <1>s

\* When the queue has been put in order, a goal has waited less than its turn is away.
LEMMA OrderedQueueKeepsTurns ==
    ASSUME NEW r, CopyOK(r), NEW w \in [Goal -> Nat], \A g \in Goal : w[g] + Turns(g, r.cursor) < Goals,
           NEW s, ToSet(s.queue) = ToSet(r.queue), s.queue = Prioritised(r).queue,
           s.gaps = r.gaps, s.cursor = Prioritised(r).cursor, r.queue # <<>>
    PROVE  \A g \in Goal : Waits(s, g, Head(s.queue)) => w[g] + Turns(g, s.cursor) + 1 < Goals
<1> SUFFICES ASSUME NEW g \in Goal, Waits(s, g, Head(s.queue)) PROVE w[g] + Turns(g, s.cursor) + 1 < Goals
  OBVIOUS
<1>1. Head(s.queue) = Head(InLine(r)) /\ s.cursor \in Goal /\ r.cursor \in Goal
  <2>1. CopyOK(Prioritised(r))
    BY PrioritisedIs
  <2> QED
    BY <2>1, PrioritisedFields DEF CopyOK
<1>2. Waits(r, g, Head(InLine(r)))
  BY <1>1 DEF Waits
<1>3. Turns(g, s.cursor) + 1 <= Turns(g, r.cursor)
  BY <1>2, TurnComesNearer
<1>4. Turns(g, s.cursor) \in 0 .. Goals - 1 /\ Turns(g, r.cursor) \in 0 .. Goals - 1
  BY <1>1, TurnsAre
<1>5. w[g] + Turns(g, r.cursor) < Goals /\ w[g] \in Nat /\ Goals \in Nat
  BY ResearchAssumption DEF ResearchAssumption
<1> HIDE DEF Turns
<1> QED
  BY <1>3, <1>4, <1>5

\* Every step keeps the turns.
LEMMA TurnStep ==
    ASSUME ResearchInv, TurnInv, [ResearchNext]_researchVars
    PROVE  TurnInv'
<1>g. Goals \in Nat \ {0} /\ \A g \in Goal, c \in Goal : Turns(g, c) \in 0 .. Goals - 1
  BY TurnsAre, ResearchAssumption DEF ResearchAssumption
<1>w. /\ waited \in [Goal -> Nat] /\ \A g \in Goal : waited[g] < Goals
      /\ CopyOK(row) /\ CopyOK(mem) /\ CopyOK(work)
  BY DEF TurnInv, NoGoalStarves, ResearchInv
<1>s. step \in Branch => step \notin {"begin", "idle", "commit", "ended"}
  BY BranchFacts
<1>k. ASSUME waited' = waited, step' = "idle", ordered' = FALSE PROVE TurnInv'
  <2>1. step' \notin Branch
    BY <1>k, BranchFacts
  <2> QED
    BY <1>k, <1>w, <2>1 DEF TurnInv, NoGoalStarves
<1>m. ASSUME step \in Branch \cup {"commit"}, waited' = waited, mem' = mem, work'.cursor = work.cursor,
             step' \in Branch \cup {"commit"}
      PROVE  TurnInv'
  <2>1. work.cursor = mem.cursor /\ \A g \in Goal : waited[g] + Turns(g, mem.cursor) < Goals
    BY <1>m DEF TurnInv
  <2>2. step' \notin {"begin", "idle"}
    BY <1>m, BranchFacts
  <2> QED
    BY <1>m, <1>w, <2>1, <2>2 DEF TurnInv, NoGoalStarves
<1>1. CASE BeginResearch
  <2>1. /\ step = "begin" /\ mem' = Prioritised(row) /\ step' = "idle" /\ waited' = waited
        /\ waited \in [Goal -> Nat] /\ \A g \in Goal : waited[g] = 0
    BY <1>1 DEF BeginResearch, TurnInv
  <2>2. \A g \in Goal : waited[g] + Turns(g, row.cursor) < Goals
    <3> TAKE g \in Goal
    <3>1. row.cursor \in Goal
      BY <1>w DEF CopyOK
    <3>2. Turns(g, row.cursor) \in 0 .. Goals - 1 /\ waited[g] = 0
      BY <1>g, <2>1, <3>1
    <3> HIDE DEF Turns
    <3> QED
      BY <1>g, <3>2
  <2>3. ASSUME mem'.queue # <<>>
        PROVE  \A g \in Goal : Waits(mem', g, Head(mem'.queue)) => waited[g] + Turns(g, mem'.cursor) + 1 < Goals
    <3>1. row.queue # <<>>
      <4>1. ToSet(mem'.queue) = ToSet(row.queue) /\ mem'.queue \in Seq(ResearchTask)
        BY <1>w, <2>1, PrioritisedIs DEF SameButOrder, CopyOK
      <4>2. Head(mem'.queue) \in ToSet(mem'.queue)
        BY <2>3, <4>1, QueueIsFinite
      <4>3. ToSet(<<>>) = {}
        BY DEF ToSet
      <4> QED
        BY <4>1, <4>2, <4>3
    <3>2. mem'.gaps = row.gaps /\ ToSet(mem'.queue) = ToSet(row.queue)
      BY <1>w, <2>1, <3>1, PrioritisedFields, PrioritisedIs DEF SameButOrder
    <3> QED
      BY <1>w, <2>1, <2>2, <3>1, <3>2, OrderedQueueKeepsTurns
  <2>4. \A g, t : WaitsFor(g, t)' <=> Waits(mem', g, t)
    BY DEF WaitsFor, Waits
  <2>5. step' \notin Branch
    BY <2>1, BranchFacts
  <2> HIDE DEF Turns
  <2> QED
    BY <1>w, <2>1, <2>3, <2>4, <2>5 DEF TurnInv, NoGoalStarves
<1>2. CASE NoFollowup
  <2>1. step = "followup" /\ step' = "commit" /\ UNCHANGED <<mem, work, waited>>
    BY <1>2 DEF NoFollowup
  <2> QED
    BY <1>m, <2>1, BranchFacts
<1>12. CASE CommitPage /\ task.closed
  BY <1>12, <1>k DEF CommitPage, Stores
<1>3. CASE CommitPage /\ ~task.closed
  <2> DEFINE p == Prioritised(work)
  <2>1. /\ step = "commit" /\ mem' = Committed(p) /\ step' = "idle" /\ waited' = waited
    BY <1>3 DEF CommitPage, Stores
  <2>2. work.cursor = mem.cursor /\ \A g \in Goal : waited[g] + Turns(g, mem.cursor) < Goals
    BY <2>1 DEF TurnInv
  <2>3. task.url \in ResearchUrl /\ task.url \notin UrlsOf(work.queue)
    BY <2>1, HandIs
  <2>4. CopyOK(p) /\ ToSet(p.queue) = ToSet(work.queue)
    BY <1>w, PrioritisedIs DEF SameButOrder
  <2>5. UrlsOf(p.queue) = UrlsOf(work.queue)
    BY <1>w, <2>4, QueueIsFinite DEF CopyOK
  <2> HIDE DEF p
  <2>6. mem'.queue = p.queue /\ mem'.cursor = p.cursor /\ mem'.gaps = p.gaps
    BY <2>1, <2>3, <2>4, <2>5, CommittedKeeps
  <2>7. ASSUME mem'.queue # <<>>
        PROVE  \A g \in Goal : Waits(mem', g, Head(mem'.queue)) => waited[g] + Turns(g, mem'.cursor) + 1 < Goals
    <3>1. work.queue # <<>>
      <4>1. p.queue \in Seq(ResearchTask) /\ p.queue # <<>>
        BY <2>4, <2>6, <2>7 DEF CopyOK
      <4>2. Head(p.queue) \in ToSet(p.queue)
        BY <4>1, QueueIsFinite
      <4>3. ToSet(<<>>) = {}
        BY DEF ToSet
      <4> QED
        BY <2>4, <4>2, <4>3
    <3>2. p.gaps = work.gaps
      BY <1>w, <3>1, PrioritisedFields DEF p
    <3>3. \A g \in Goal : waited[g] + Turns(g, work.cursor) < Goals
      BY <2>2
    <3> QED
      BY <1>w, <2>4, <2>6, <3>1, <3>2, <3>3, OrderedQueueKeepsTurns DEF p
  <2>8. \A g, t : WaitsFor(g, t)' <=> Waits(mem', g, t)
    BY DEF WaitsFor, Waits
  <2>9. step' \notin Branch
    BY <2>1, BranchFacts
  <2> HIDE DEF Turns
  <2> QED
    BY <1>w, <2>1, <2>7, <2>8, <2>9 DEF TurnInv, NoGoalStarves
<1>4. CASE FetchFails
  BY <1>4, <1>k DEF FetchFails, Stores
<1>5. CASE ResearchDeadline
  BY <1>5, <1>w, BranchFacts DEF ResearchDeadline, TurnInv, NoGoalStarves
<1>6. CASE ResearchCrash
  <2>1. step' = "begin" /\ waited' = [g \in Goal |-> 0]
    BY <1>6 DEF ResearchCrash
  <2>2. waited' \in [Goal -> Nat] /\ \A g \in Goal : waited'[g] = 0 /\ waited'[g] < Goals
    BY <1>g, <2>1
  <2>3. step' \notin Branch \cup {"idle", "commit"}
    BY <2>1, BranchFacts
  <2> QED
    BY <2>2, <2>3 DEF TurnInv, NoGoalStarves
<1>r. ASSUME MoreResearch, TurnsWaited(Head(mem.queue)), mem' = mem,
             work'.cursor = mem.cursor, step' \in Branch \cup {"commit"}
      PROVE  TurnInv'
  <2> DEFINE t == Head(mem.queue)
  <2>2. /\ step = "idle" /\ mem.queue # <<>>
        /\ waited' = [g \in Goal |-> IF ordered /\ WaitsFor(g, t) THEN waited[g] + 1 ELSE 0]
    BY <1>r DEF MoreResearch, TurnsWaited
  <2>3. \A g \in Goal : ordered /\ WaitsFor(g, t) => waited[g] + Turns(g, mem.cursor) + 1 < Goals
    BY <2>2 DEF TurnInv
  <2>4. \A g \in Goal : Turns(g, mem.cursor) \in 0 .. Goals - 1
    BY <1>g, <1>w DEF CopyOK
  <2> HIDE DEF t, Turns
  <2>5. waited' \in [Goal -> Nat]
    BY <1>w, <2>2
  <2>6. ASSUME NEW g \in Goal PROVE waited'[g] + Turns(g, mem.cursor) < Goals /\ waited'[g] < Goals
    <3>1. CASE ordered /\ WaitsFor(g, t)
      <4>1. waited'[g] = waited[g] + 1 /\ waited[g] \in Nat
        BY <1>w, <2>2, <3>1
      <4> QED
        BY <1>g, <2>3, <2>4, <3>1, <4>1
    <3>2. CASE ~(ordered /\ WaitsFor(g, t))
      <4>1. waited'[g] = 0
        BY <2>2, <3>2
      <4> QED
        BY <1>g, <2>4, <4>1
    <3> QED
      BY <3>1, <3>2
  <2>7. step' \notin {"begin", "idle"}
    BY <1>r, BranchFacts
  <2> QED
    BY <1>r, <2>5, <2>6, <2>7 DEF TurnInv, NoGoalStarves
<1>7. ASSUME NEW useful \in BOOLEAN, NEW duplicate \in BOOLEAN, ReadPage(useful, duplicate) PROVE TurnInv'
  <2>1. work'.cursor = mem.cursor /\ step' \in Branch \cup {"commit"}
    BY <1>7, ReadKeeps
  <2>2. MoreResearch /\ TurnsWaited(Head(mem.queue)) /\ mem' = mem
    BY <1>7 DEF ReadPage
  <2> QED
    BY <1>r, <2>1, <2>2
<1>13. ASSUME NEW refusal \in Refusal, ReadBlocked(refusal) PROVE TurnInv'
  <2>1. work'.cursor = mem.cursor /\ step' \in Branch \cup {"commit"}
    BY <1>13, BlockedKeeps
  <2>2. MoreResearch /\ TurnsWaited(Head(mem.queue)) /\ mem' = mem
    BY <1>13 DEF ReadBlocked
  <2> QED
    BY <1>r, <2>1, <2>2
<1>8. ASSUME NEW b \in Branch, SearchBranch(b) PROVE TurnInv'
  <2>1. work'.cursor = work.cursor /\ step' \in Branch \cup {"commit"}
    BY <1>8, SearchKeeps
  <2>2. step = b /\ mem' = mem /\ waited' = waited
    BY <1>8 DEF SearchBranch
  <2> QED
    BY <1>m, <2>1, <2>2
<1>9. ASSUME NEW b \in Branch, ExpansionStops(b) PROVE TurnInv'
  BY <1>9, <1>k DEF ExpansionStops, Stores
<1>10. ASSUME NEW b \in Branch, TaskTimesOut(b) PROVE TurnInv'
  BY <1>10, <1>k DEF TaskTimesOut, Stores
<1>11. CASE UNCHANGED researchVars
  <2> USE <1>11 DEF researchVars
  <2>1. \A g, t : WaitsFor(g, t)' <=> WaitsFor(g, t)
    BY DEF WaitsFor
  <2> QED
    BY <2>1 DEF TurnInv, NoGoalStarves
<1> QED
  BY <1>1, <1>2, <1>3, <1>4, <1>5, <1>6, <1>7, <1>8, <1>9, <1>10, <1>11, <1>12, <1>13 DEF ResearchNext

\* No goal has waited before the first page is read.
LEMMA TurnsBegin == ResearchInit => TurnInv
<1> SUFFICES ASSUME ResearchInit PROVE TurnInv
  OBVIOUS
<1>1. step = "begin" /\ waited = [g \in Goal |-> 0] /\ Goals \in Nat \ {0}
  BY ResearchAssumption DEF ResearchInit, ResearchAssumption
<1>2. step \notin Branch
  BY <1>1, BranchFacts
<1> QED
  BY <1>1, <1>2 DEF TurnInv, NoGoalStarves

\* NoGoalStarves: while pages are read in turn, a goal that lacks sources waits for at most
\* one page of every other goal (adaptive_atomic.py, evidence_status.py).
THEOREM GoalsTakeTurns == ResearchSpec => []NoGoalStarves
<1>1. ResearchInit => TurnInv
  BY TurnsBegin
<1>2. ResearchInv /\ TurnInv /\ [ResearchNext]_researchVars => TurnInv'
  BY TurnStep
<1>3. TurnInv => NoGoalStarves
  BY DEF TurnInv
<1> QED
  BY <1>1, <1>2, <1>3, ResearchKeepsInv, PTL DEF ResearchSpec

(***************************************************************************)
(* The history of a page in the archive (ArchiveTimeline).                 *)
(***************************************************************************)
TimelineSpec == TimelineInit /\ [][TimelineNext]_timelineVars

\* What an entry says of capture c fits what is stored of the captures before it.
Fits(c, e) ==
    /\ e \in Entry0
    /\ e.before = CaptureBefore(c)
    /\ ~e.cut => e.changes = AllChanges(e.content, e.before)

\* Captures wait in their order, after all that are stored; nothing waits or is stored before the
\* index has answered.
CapturesWait ==
    /\ \A i, j \in DOMAIN archived : i < j => archived[i] < archived[j]
    /\ \A i \in DOMAIN archived, c \in Capture : timeline[c].stored => c < archived[i]
    /\ indexTries >= 0 =>
         archived = <<>> /\ unsaved = NotStored /\ \A c \in Capture : ~timeline[c].stored

EntriesFitIn ==
    /\ unsaved # NotStored => archived # <<>> /\ Fits(Head(archived), unsaved)
    /\ \A c \in Capture : timeline[c].stored => Fits(c, timeline[c])

TimelineInv == TimelineTypeOK /\ CapturesWait /\ EntriesFitIn

\* Captures are the numbers from 1 on.
LEMMA CapturesAreNumbers ==
    /\ Cardinality(Capture) \in Nat /\ Capture = 1 .. Cardinality(Capture)
    /\ Capture \subseteq Int /\ IsFiniteSet(Capture)
BY TimelineAssumption, FS_CardinalityType DEF TimelineAssumption

\* The capture before c is the last one that is found.
LEMMA BeforeIsLast ==
    ASSUME NEW c \in Capture
    PROVE  LET b == CaptureBefore(c)
           IN \/ b = 0 /\ \A d \in Capture : d < c => ~IsFound(d)
              \/ /\ b \in Capture /\ b < c /\ IsFound(b)
                 /\ \A d \in Capture : d < c /\ IsFound(d) => d <= b
<1> DEFINE N == Cardinality(Capture)
           earlier == {b \in Capture : b < c /\ IsFound(b)}
<1>1. N \in Nat /\ Capture = 1 .. N
  BY CapturesAreNumbers
<1>2. CaptureBefore(c) = IF earlier = {} THEN 0 ELSE CHOOSE b \in earlier : \A d \in earlier : d <= b
  BY DEF CaptureBefore
<1>3. CASE earlier = {}
  BY <1>2, <1>3
<1>4. CASE earlier # {}
  <2>1. earlier \subseteq 0 .. N
    BY <1>1
  <2>2. \E b \in earlier : \A d \in earlier : d <= b
    <3> HIDE DEF earlier
    <3> QED BY <1>1, <1>4, <2>1, NatMax
  <2>3. CaptureBefore(c) \in earlier /\ \A d \in earlier : d <= CaptureBefore(c)
    <3> HIDE DEF earlier
    <3> QED BY <1>2, <1>4, <2>2
  <2> QED BY <2>3
<1> QED BY <1>3, <1>4

\* An entry that fits goes on to fit while nothing is stored of an earlier capture.
LEMMA EntryStays ==
    ASSUME NEW c \in Capture, NEW e, Fits(c, e),
           \A b \in Capture : b < c => timeline'[b] = timeline[b]
    PROVE  Fits(c, e)'
<1> DEFINE earlier == {b \in Capture : b < c /\ IsFound(b)}
           last(S) == IF S = {} THEN 0 ELSE CHOOSE b \in S : \A d \in S : d <= b
<1>1. \A b \in Capture : b < c => (IsFound(b)' <=> IsFound(b))
  BY DEF IsFound
<1>2. earlier' = earlier
  BY <1>1
<1>3. CaptureBefore(c) = last(earlier) /\ CaptureBefore(c)' = last(earlier')
  BY DEF CaptureBefore
<1>4. CaptureBefore(c)' = CaptureBefore(c)
  <2> HIDE DEF earlier
  <2> QED BY <1>2, <1>3
<1>5. e.before = 0 \/ (e.before \in Capture /\ e.before < c)
  BY BeforeIsLast DEF Fits
<1>6. e.before # 0 => timeline'[e.before] = timeline[e.before]
  BY <1>5
<1>7. AllChanges(e.content, e.before)' = AllChanges(e.content, e.before)
  BY <1>6 DEF AllChanges, DeclaredChanges, ArticlesMissed
<1>8. Entry0' = Entry0
  BY DEF Entry0
<1> QED BY <1>4, <1>7 DEF Fits

\* What is derived from a capture fits.
LEMMA DerivedFits ==
    ASSUME TimelineInv, NEW c \in Capture, NEW content \in Contents, NEW echo \in BOOLEAN
    PROVE  Fits(c, Derived(c, content, echo))
<1> DEFINE b   == CaptureBefore(c)
           all == AllChanges(content, b)
           few == WithinBudget(all)
           e   == Derived(c, content, echo)
<1>1. b \in Capture \cup {0} /\ (b # 0 => b \in Capture /\ timeline[b] \in Entry0)
  <2>1. b # 0 => b \in Capture /\ IsFound(b)
    BY BeforeIsLast
  <2>2. b # 0 => timeline[b] \in Entry0
    BY <2>1 DEF IsFound, TimelineInv, TimelineTypeOK, NotStored
  <2> QED BY <2>1, <2>2
<1>2. PageVersion(content, b) \in {"nothing", "first", "changed", "unchanged"}
  BY DEF PageVersion
<1>3. all \in Changes /\ few \in Changes
  <2> HIDE DEF b
  <2>1. b # 0 => timeline[b].content \in Contents
    BY <1>1 DEF Entry0
  <2>2. all \in Changes
    BY <2>1 DEF AllChanges, DeclaredChanges, ArticlesMissed, Changes, Contents
  <2> QED BY <2>2 DEF WithinBudget, Changes
<1>4. e.before = b /\ e.changes = few /\ e.content = content
  BY DEF Derived
<1>5. e.cut <=> few # all
  BY DEF Derived
<1>6. e \in Entry0
  <2> DEFINE short == few # all
             says == PageVersion(content, b)
  <2>1. e = [stored |-> TRUE, content |-> content, before |-> b, says |-> says,
             changes |-> few, cut |-> short, echo |-> echo]
    BY Zenon DEF Derived
  <2>2. short \in BOOLEAN
    OBVIOUS
  <2>3. b \in Capture \cup {0} /\ says \in {"nothing", "first", "changed", "unchanged"} /\ few \in Changes
    BY <1>1, <1>2, <1>3
  <2> HIDE DEF b, few, all, short, e, says
  <2> QED BY <2>1, <2>2, <2>3 DEF Entry0
<1> HIDE DEF b, all, few, e
<1>7. ~e.cut => e.changes = AllChanges(e.content, e.before)
  BY <1>4, <1>5 DEF all
<1> QED BY <1>4, <1>6, <1>7 DEF Fits, b, e

\* The captures of a listing wait in their order.
LEMMA CapturesInOrder ==
    ASSUME NEW rows \in Listing
    PROVE  /\ OldestFirst(rows) \in Seq(Capture)
           /\ \A i, j \in DOMAIN OldestFirst(rows) : i < j => OldestFirst(rows)[i] < OldestFirst(rows)[j]
<1> DEFINE few == FewCaptures(rows)
<1>1. rows \in Seq(Capture) /\ IsFiniteSet(Capture) /\ Capture \subseteq Int
  BY CapturesAreNumbers, TimelineAssumption DEF TimelineAssumption
<1>2. few \subseteq Capture
  <2>1. \A i \in DOMAIN rows : rows[i] \in Capture
    BY <1>1
  <2> QED BY <2>1 DEF FewCaptures, FirstRows
<1>3. IsFiniteSet(few) /\ few \subseteq Int
  BY <1>1, <1>2, FS_Subset
<1> HIDE DEF few
<1>4. /\ Ascending(few) \in Seq(few) /\ Cardinality(few) \in Nat
      /\ Len(Ascending(few)) = Cardinality(few)
      /\ \A i, j \in 1 .. Cardinality(few) : i < j <=> Ascending(few)[i] < Ascending(few)[j]
  BY <1>3, AscendingLists
<1> QED BY <1>2, <1>4 DEF OldestFirst, few

LEMMA TimelineInitInv == TimelineInit => TimelineInv
BY TimelineAssumption DEF TimelineAssumption, TimelineInit, TimelineInv, TimelineTypeOK, CapturesWait, EntriesFitIn, NotStored

\* The list that waits, and its rest.
LEMMA RestWaits ==
    ASSUME TimelineInv, archived # <<>>
    PROVE  /\ Head(archived) \in Capture /\ Head(archived) = archived[1] /\ Tail(archived) \in Seq(Capture)
           /\ 1 \in DOMAIN archived
           /\ \A i \in DOMAIN Tail(archived) : i + 1 \in DOMAIN archived /\ Tail(archived)[i] = archived[i + 1]
           /\ \A i \in DOMAIN Tail(archived) : Head(archived) < Tail(archived)[i]
<1>1. archived \in Seq(Capture)
  BY DEF TimelineInv, TimelineTypeOK
<1>2. /\ Head(archived) \in Capture /\ Head(archived) = archived[1] /\ Tail(archived) \in Seq(Capture)
      /\ 1 \in DOMAIN archived
      /\ \A i \in DOMAIN Tail(archived) : i + 1 \in DOMAIN archived /\ Tail(archived)[i] = archived[i + 1]
  BY <1>1
<1>3. ASSUME NEW i \in DOMAIN Tail(archived) PROVE Head(archived) < Tail(archived)[i]
  <2>1. 1 < i + 1
    BY <1>2
  <2> QED BY <1>2, <2>1 DEF TimelineInv, CapturesWait
<1> QED BY <1>2, <1>3

LEMMA IndexListsKeeps == ASSUME TimelineInv, NEW rows \in Listing, IndexLists(rows) PROVE TimelineInv'
<1>1. indexTries >= 0 /\ indexTries' = -1 /\ archived' = OldestFirst(rows)
      /\ UNCHANGED <<unsaved, timeline, stops>>
  BY DEF IndexLists
<1>2. unsaved = NotStored /\ \A c \in Capture : ~timeline[c].stored
  BY <1>1 DEF TimelineInv, CapturesWait
<1>3. TimelineTypeOK'
  BY <1>1, CapturesInOrder, TimelineAssumption DEF TimelineAssumption, TimelineInv, TimelineTypeOK
<1>4. CapturesWait'
  BY <1>1, <1>2, CapturesInOrder DEF CapturesWait
<1>5. EntriesFitIn'
  BY <1>1, <1>2 DEF EntriesFitIn
<1> QED BY <1>3, <1>4, <1>5 DEF TimelineInv

LEMMA ReadCaptureKeeps ==
    ASSUME TimelineInv, NEW content \in Serves, NEW echo \in BOOLEAN, ReadCapture(content, echo)
    PROVE  TimelineInv'
<1>1. /\ archived # <<>> /\ unsaved' = Derived(Head(archived), content, echo)
      /\ UNCHANGED <<indexTries, archived, timeline, stops>>
  BY DEF ReadCapture
<1>2. Fits(Head(archived), unsaved')
  <2>1. Head(archived) \in Capture /\ content \in Contents
    BY <1>1, RestWaits, TimelineAssumption DEF TimelineAssumption
  <2> QED BY <1>1, <2>1, DerivedFits
<1>3. Head(archived)' = Head(archived) /\ Head(archived) \in Capture
  BY <1>1, RestWaits
<1>4. TimelineTypeOK'
  BY <1>1, <1>2 DEF TimelineInv, TimelineTypeOK, Fits
<1>5. CapturesWait'
  BY <1>1 DEF TimelineInv, CapturesWait
<1>6. EntriesFitIn'
  <2>1. Fits(Head(archived), unsaved)'
    <3>1. PICK c, e : c = Head(archived) /\ e = unsaved'
      OBVIOUS
    <3>2. Fits(c, e)'
      BY <1>1, <1>2, <1>3, <3>1, EntryStays
    <3> QED BY <1>3, <3>1, <3>2
  <2>2. \A c \in Capture : timeline[c].stored => Fits(c, timeline[c])'
    BY <1>1, EntryStays DEF TimelineInv, EntriesFitIn
  <2> QED BY <1>1, <2>1, <2>2 DEF EntriesFitIn
<1> QED BY <1>4, <1>5, <1>6 DEF TimelineInv

LEMMA CommitCaptureKeeps == ASSUME TimelineInv, CommitCapture PROVE TimelineInv'
<1> DEFINE h == Head(archived)
<1>1. /\ unsaved # NotStored /\ timeline' = [timeline EXCEPT ![h] = unsaved]
      /\ archived' = Tail(archived) /\ unsaved' = NotStored /\ UNCHANGED <<indexTries, stops>>
  BY DEF CommitCapture
<1>2. archived # <<>> /\ Fits(h, unsaved) /\ ~(indexTries >= 0)
  BY <1>1 DEF TimelineInv, EntriesFitIn, CapturesWait
<1>3. h \in Capture /\ h = archived[1] /\ 1 \in DOMAIN archived /\ Tail(archived) \in Seq(Capture)
  BY <1>2, RestWaits
<1>4. timeline \in [Capture -> Entry0 \cup {NotStored}]
  BY DEF TimelineInv, TimelineTypeOK
<1>5. timeline'[h] = unsaved /\ \A b \in Capture : b # h => timeline'[b] = timeline[b]
  BY <1>1, <1>3, <1>4
<1>6. \A c \in Capture : timeline[c].stored => c < h
  BY <1>3 DEF TimelineInv, CapturesWait
<1>7. Capture \subseteq Int
  BY CapturesAreNumbers
<1>8. TimelineTypeOK'
  BY <1>1, <1>2, <1>3 DEF TimelineInv, TimelineTypeOK, Fits
<1>9. CapturesWait'
  <2>1. \A i, j \in DOMAIN archived' : i < j => archived'[i] < archived'[j]
    <3> TAKE i, j \in DOMAIN archived'
    <3> HAVE i < j
    <3>1. i + 1 \in DOMAIN archived /\ j + 1 \in DOMAIN archived /\ i + 1 < j + 1
      BY <1>1, <1>2, <1>3, RestWaits
    <3>2. archived'[i] = archived[i + 1] /\ archived'[j] = archived[j + 1]
      BY <1>1, <1>2, RestWaits
    <3> QED BY <3>1, <3>2 DEF TimelineInv, CapturesWait
  <2>2. ASSUME NEW i \in DOMAIN archived', NEW c \in Capture, timeline'[c].stored PROVE c < archived'[i]
    <3>1. h < archived'[i] /\ archived'[i] \in Capture
      BY <1>1, <1>2, <1>3, RestWaits
    <3>2. c = h \/ c < h
      BY <1>5, <1>6, <2>2
    <3>3. c \in Int /\ h \in Int /\ archived'[i] \in Int
      BY <1>3, <1>7, <3>1
    <3> QED BY <3>1, <3>2, <3>3
  <2> QED BY <1>1, <1>2, <2>1, <2>2 DEF CapturesWait
<1>10. ASSUME NEW c \in Capture, timeline'[c].stored PROVE Fits(c, timeline[c])'
  <2>1. c = h \/ (c < h /\ timeline[c].stored /\ timeline'[c] = timeline[c])
    BY <1>5, <1>6, <1>10
  <2>2. Fits(c, timeline'[c])
    BY <1>2, <1>5, <2>1 DEF TimelineInv, EntriesFitIn
  <2>3. \A b \in Capture : b < c => timeline'[b] = timeline[b]
    BY <1>3, <1>5, <1>7, <2>1
  <2> QED BY <2>2, <2>3, EntryStays
<1>11. EntriesFitIn'
  BY <1>1, <1>10 DEF EntriesFitIn
<1> QED BY <1>8, <1>9, <1>11 DEF TimelineInv

LEMMA CaptureFailsKeeps == ASSUME TimelineInv, CaptureFails PROVE TimelineInv'
<1>1. /\ archived # <<>> /\ unsaved = NotStored /\ archived' = Tail(archived)
      /\ UNCHANGED <<indexTries, unsaved, timeline, stops>>
  BY DEF CaptureFails
<1>2. TimelineTypeOK'
  BY <1>1, RestWaits DEF TimelineInv, TimelineTypeOK
<1>3. CapturesWait'
  <2>1. \A i, j \in DOMAIN archived' : i < j => archived'[i] < archived'[j]
    <3> TAKE i, j \in DOMAIN archived'
    <3> HAVE i < j
    <3>1. i + 1 \in DOMAIN archived /\ j + 1 \in DOMAIN archived /\ i + 1 < j + 1
      BY <1>1, RestWaits
    <3>2. archived'[i] = archived[i + 1] /\ archived'[j] = archived[j + 1]
      BY <1>1, RestWaits
    <3> QED BY <3>1, <3>2 DEF TimelineInv, CapturesWait
  <2>2. \A i \in DOMAIN archived', c \in Capture : timeline[c].stored => c < archived'[i]
    BY <1>1, RestWaits DEF TimelineInv, CapturesWait
  <2> QED BY <1>1, <2>1, <2>2 DEF TimelineInv, CapturesWait
<1>4. EntriesFitIn'
  BY <1>1, EntryStays DEF TimelineInv, EntriesFitIn
<1> QED BY <1>2, <1>3, <1>4 DEF TimelineInv

\* Steps that only give up or wait.
LEMMA PauseKeeps ==
    ASSUME TimelineInv, TimelineTypeOK', UNCHANGED <<archived, timeline>>,
           indexTries' >= 0 => indexTries >= 0, unsaved' \in {unsaved, NotStored}
    PROVE  TimelineInv'
<1>1. CapturesWait'
  BY DEF TimelineInv, CapturesWait
<1>2. EntriesFitIn'
  <2>1. archived # <<>> => Head(archived) \in Capture
    BY RestWaits
  <2> QED BY <2>1, EntryStays DEF TimelineInv, EntriesFitIn
<1> QED BY <1>1, <1>2 DEF TimelineInv

LEMMA TimelineNextInv == TimelineInv /\ [TimelineNext]_timelineVars => TimelineInv'
<1> SUFFICES ASSUME TimelineInv, [TimelineNext]_timelineVars PROVE TimelineInv'
  OBVIOUS
<1> USE TimelineAssumption DEF TimelineAssumption
<1>1. CASE \E rows \in Listing : IndexLists(rows)
  BY <1>1, IndexListsKeeps
<1>2. CASE IndexIsBusy
  BY <1>2, PauseKeeps DEF IndexIsBusy, TimelineInv, TimelineTypeOK
<1>3. CASE IndexFails
  BY <1>3, PauseKeeps DEF IndexFails, TimelineInv, TimelineTypeOK
<1>4. CASE \E content \in Serves, echo \in BOOLEAN : ReadCapture(content, echo)
  BY <1>4, ReadCaptureKeeps
<1>5. CASE CommitCapture
  BY <1>5, CommitCaptureKeeps
<1>6. CASE CaptureFails
  BY <1>6, CaptureFailsKeeps
<1>7. CASE AttemptStops
  BY <1>7, PauseKeeps DEF AttemptStops, TimelineInv, TimelineTypeOK
<1>8. CASE UNCHANGED timelineVars
  BY <1>8, PauseKeeps DEF timelineVars, TimelineInv, TimelineTypeOK
<1> QED BY <1>1, <1>2, <1>3, <1>4, <1>5, <1>6, <1>7, <1>8 DEF TimelineNext

\* What leads from a version of the things to the next one, and is not cut, does lead there.
LEMMA ReplayLeadsOn ==
    ASSUME NEW b \in Capture, NEW content \in Contents, timeline[b] \in Entry0
    PROVE  Replayed(AllChanges(content, b), timeline[b].content.things) = content.things
<1> DEFINE old == timeline[b].content.things
           all == AllChanges(content, b)
<1>1. b # 0
  BY CapturesAreNumbers
<1>2. old \in [Thing -> {Gone, "a", "b"}] /\ content.things \in [Thing -> {Gone, "a", "b"}]
  BY DEF Entry0, Contents
<1>3. /\ all = DeclaredChanges(content, b) \cup ArticlesMissed(b)
      /\ DeclaredChanges(content, b) = {[of |-> k, from |-> old[k], to |-> content.things[k]] :
                                         k \in {k \in Thing : old[k] # content.things[k]}}
      /\ \A x \in ArticlesMissed(b) : x.of \notin Thing
  <2>1. timeline[b].content.articles \subseteq Article
    BY DEF Entry0, Contents
  <2>2. \A x \in ArticlesMissed(b) : x.of \notin Thing
    <3>1. \A k \in Article : k \notin Thing
      BY TimelineAssumption DEF TimelineAssumption
    <3>2. \A x \in ArticlesMissed(b) : \E k \in timeline[b].content.articles : x.of = k
      BY DEF ArticlesMissed
    <3> QED BY <2>1, <3>1, <3>2
  <2>3. all = DeclaredChanges(content, b) \cup ArticlesMissed(b)
    BY <1>1 DEF AllChanges
  <2> QED BY <2>2, <2>3 DEF DeclaredChanges
<1>4. ASSUME NEW k \in Thing
      PROVE  (IF \E x \in all : x.of = k THEN (CHOOSE x \in all : x.of = k).to ELSE old[k]) = content.things[k]
  <2>1. \A x \in all : x.of = k => x.to = content.things[k]
    BY <1>3
  <2>2. (\A x \in all : x.of # k) => old[k] = content.things[k]
    <3> DEFINE change == [of |-> k, from |-> old[k], to |-> content.things[k]]
    <3>1. old[k] # content.things[k] => change \in all
      BY <1>3
    <3>2. change.of = k
      OBVIOUS
    <3> HIDE DEF change, all, old
    <3> QED BY <3>1, <3>2
  <2> HIDE DEF all, old
  <2> QED BY <2>1, <2>2
<1>5. Replayed(all, old) = [k \in Thing |-> IF \E x \in all : x.of = k
                                           THEN (CHOOSE x \in all : x.of = k).to ELSE old[k]]
  BY DEF Replayed
<1> HIDE DEF all, old
<1>6. Replayed(all, old) = [k \in Thing |-> content.things[k]]
  BY <1>4, <1>5
<1>7. Replayed(all, old) = content.things
  BY <1>2, <1>6
<1> QED BY <1>7 DEF all, old

\* The story as it is told, capture by capture.
LEMMA StoryGoesOn ==
    ASSUME TimelineInv
    PROVE  /\ Story[0] = [k \in Thing |-> Gone]
           /\ \A c \in Capture :
                Story[c] = IF ~IsFound(c) THEN Story[c - 1]
                           ELSE IF timeline[c].before = 0 THEN timeline[c].content.things
                           ELSE Replayed(timeline[c].changes, Story[c - 1])
<1> DEFINE N == Cardinality(Capture)
           S == [Thing -> {Gone, "a", "b"}]
           none == [k \in Thing |-> Gone]
           next(c, s) == IF ~IsFound(c) THEN s
                         ELSE IF timeline[c].before = 0 THEN timeline[c].content.things
                         ELSE Replayed(timeline[c].changes, s)
           turn == [c \in 1 .. N |-> [s \in S |-> next(c, s)]]
           is(g) == g = [c \in 0 .. N |-> IF c = 0 THEN none
                                         ELSE IF ~IsFound(c) THEN g[c - 1]
                                         ELSE IF timeline[c].before = 0 THEN timeline[c].content.things
                                         ELSE Replayed(timeline[c].changes, g[c - 1])]
           told == CHOOSE g : is(g)
<1>1. N \in Nat /\ Capture = 1 .. N /\ none \in S
  BY CapturesAreNumbers
<1>2. ASSUME NEW c \in 1 .. N, NEW s \in S PROVE next(c, s) \in S
  <2>1. CASE ~IsFound(c)
    BY <2>1
  <2>2. CASE IsFound(c)
    <3>1. timeline[c] \in Entry0
      BY <1>1, <2>2 DEF IsFound, TimelineInv, TimelineTypeOK, NotStored
    <3>2. timeline[c].content.things \in S /\ timeline[c].changes \in Changes
      BY <3>1 DEF Entry0, Contents
    <3>3. Replayed(timeline[c].changes, s) \in S
      <4>1. \A x \in timeline[c].changes : x.to \in {Gone, "a", "b"}
        BY <3>2 DEF Changes
      <4> QED BY <4>1 DEF Replayed
    <3> HIDE DEF S
    <3> QED BY <3>2, <3>3
  <2> HIDE DEF next
  <2> QED BY <2>1, <2>2
<1>3. turn \in [1 .. N -> [S -> S]]
  <2> HIDE DEF next, S
  <2> QED BY <1>2
<1>4. PICK g : LoopOf(g, N, S, none, turn)
  <2> HIDE DEF N, S, turn, none
  <2> QED BY <1>1, <1>3, LoopExists
<1>5. is(g)
  <2>1. g \in [0 .. N -> S] /\ g[0] = none /\ \A c \in 1 .. N : g[c] = turn[c][g[c - 1]]
    BY <1>4 DEF LoopOf
  <2>2. ASSUME NEW c \in 1 .. N PROVE g[c] = next(c, g[c - 1])
    <3> HIDE DEF next, S, N
    <3>1. g[c - 1] \in S
      BY <1>1, <2>1
    <3>2. turn[c][g[c - 1]] = next(c, g[c - 1])
      BY <3>1
    <3> QED BY <2>1, <3>2
  <2>3. \A c \in 0 .. N : g[c] = IF c = 0 THEN none
                                 ELSE IF ~IsFound(c) THEN g[c - 1]
                                 ELSE IF timeline[c].before = 0 THEN timeline[c].content.things
                                 ELSE Replayed(timeline[c].changes, g[c - 1])
    BY <1>1, <2>1, <2>2
  <2> HIDE DEF N, none, S
  <2> QED BY <2>1, <2>3
<1>6. is(told)
  <2> HIDE DEF is
  <2> QED BY <1>5
<1>7. Story = told
  BY DEF Story
<1> HIDE DEF told, N, none
<1> QED BY <1>1, <1>6, <1>7 DEF N, none

\* Up to each capture the story is the last one found, if nothing was cut.
LEMMA TimelineInvHolds == TimelineInv => TimelineIsConsistent
<1> SUFFICES ASSUME TimelineInv PROVE TimelineIsConsistent
  OBVIOUS
<1> DEFINE N == Cardinality(Capture)
           whole(c) == \A b \in Capture : b <= c /\ timeline[b].stored => ~timeline[b].cut
           tells(c) == \A b \in Capture :
                         (b <= c /\ IsFound(b) /\ \A d \in Capture : d <= c /\ IsFound(d) => d <= b)
                           => Story[c] = timeline[b].content.things
           T == {c \in 0 .. N : whole(c) => tells(c)}
<1>1. N \in Nat /\ Capture = 1 .. N
  BY CapturesAreNumbers
<1>2. 0 \in T
  BY <1>1
<1>3. ASSUME NEW c \in 1 .. N, c - 1 \in T PROVE c \in T
  <2> SUFFICES ASSUME whole(c), NEW b \in Capture, b <= c, IsFound(b),
                      \A d \in Capture : d <= c /\ IsFound(d) => d <= b
               PROVE  Story[c] = timeline[b].content.things
    BY <1>1
  <2>1. \A d \in Capture : d <= c - 1 => d <= c
    BY <1>1
  <2>2. whole(c - 1) /\ tells(c - 1)
    BY <1>3, <2>1
  <2>3. c \in Capture
    BY <1>1
  <2>4. CASE b # c
    <3>1. ~IsFound(c) /\ b <= c - 1
      BY <1>1, <2>4
    <3>2. Story[c - 1] = timeline[b].content.things
      BY <2>1, <2>2, <3>1
    <3> QED BY <2>3, <3>1, <3>2, StoryGoesOn
  <2>5. CASE b = c
    <3> DEFINE p == timeline[c].before
    <3>1. timeline[c].stored /\ Fits(c, timeline[c])
      BY <2>5 DEF IsFound, TimelineInv, EntriesFitIn
    <3>2. ~timeline[c].cut /\ timeline[c] \in Entry0 /\ p = CaptureBefore(c)
      BY <1>1, <3>1 DEF Fits
    <3>3. CASE p = 0
      BY <2>3, <2>5, <3>3, StoryGoesOn
    <3>4. CASE p # 0
      <4>1. /\ p \in Capture /\ p < c /\ IsFound(p)
            /\ \A d \in Capture : d < c /\ IsFound(d) => d <= p
        BY <2>3, <3>2, <3>4, BeforeIsLast
      <4>2. Story[c - 1] = timeline[p].content.things
        <5>1. p <= c - 1 /\ \A d \in Capture : d <= c - 1 => d < c
          BY <1>1, <4>1
        <5> HIDE DEF p
        <5> QED BY <2>2, <4>1, <5>1
      <4>3. timeline[c].changes = AllChanges(timeline[c].content, p) /\ timeline[c].content \in Contents
        BY <3>1, <3>2 DEF Fits, Entry0
      <4>4. timeline[p] \in Entry0
        BY <4>1 DEF IsFound, TimelineInv, TimelineTypeOK, NotStored
      <4>5. Replayed(timeline[c].changes, Story[c - 1]) = timeline[c].content.things
        <5> HIDE DEF p
        <5> QED BY <4>1, <4>2, <4>3, <4>4, ReplayLeadsOn
      <4> QED BY <2>3, <2>5, <3>4, <4>5, StoryGoesOn
    <3> QED BY <3>3, <3>4
  <2> QED BY <2>4, <2>5
<1>4. \A c \in 0 .. N : c \in T
  <2> HIDE DEF T, N
  <2> QED BY ONLY <1>1, <1>2, <1>3, TurnByTurn
<1>5. ASSUME NEW c \in Capture, timeline[c].stored PROVE timeline[c].before = CaptureBefore(c)
  BY <1>5 DEF TimelineInv, EntriesFitIn, Fits
<1>6. ASSUME NEW c \in Capture, IsFound(c), whole(c) PROVE Story[c] = timeline[c].content.things
  <2>1. c \in 0 .. N /\ \A d \in Capture : d <= c => d <= c
    BY <1>1
  <2>2. tells(c)
    BY <1>4, <1>6, <2>1
  <2> QED BY <1>1, <1>6, <2>2
<1> QED BY <1>5, <1>6 DEF TimelineIsConsistent

\* However captures fail and attempts end, the history that is stored of a page is consistent
\* (historical_web.py, timeline.py).
THEOREM HistoryIsConsistent == TimelineSpec => []TimelineIsConsistent
BY TimelineInitInv, TimelineNextInv, TimelineInvHolds, PTL DEF TimelineSpec

(***************************************************************************)
(* What is made of a response (PageExtraction).                            *)
(***************************************************************************)
PageSpec == ExtractionInit /\ [][ExtractionNext]_extractionVars

\* Every observation has its evidence; no evidence is about anything else; what has one identity
\* is one observation.
Backed(r)   == \A o \in Facts(r) : \E v \in r.evidence : v.of = o.id /\ v.marks = o.marks
Grounded(r) == \A v \in r.evidence : \E o \in Facts(r) : v.of = o.id
Alike(r)    == \A o, m \in Facts(r) : o.id = m.id => o = m
Held(r)     == r \in Result /\ Grounded(r) /\ Alike(r)
IdsOf(r)      == {o.id : o \in Facts(r)}

LEMMA ResultParts ==
    ASSUME NEW r \in Result
    PROVE  /\ r.seen \in Seq(Observation) /\ Len(r.seen) \in Nat /\ DOMAIN r.seen = 1 .. Len(r.seen)
           /\ \A i \in DOMAIN r.seen : r.seen[i] \in Observation
           /\ r.evidence \subseteq Evidence /\ r.errors \subseteq Codes
           /\ r.partial \in BOOLEAN /\ r.blocked \in BOOLEAN
           /\ Facts(r) \subseteq Observation
BY DEF Result, Facts

\* A result is what its fields say.
LEMMA ResultOf ==
    ASSUME NEW shown \in Seq(Observation), NEW evidence \in SUBSET Evidence, NEW errors \in SUBSET Codes,
           NEW partial \in BOOLEAN, NEW blocked \in BOOLEAN
    PROVE  [seen |-> shown, evidence |-> evidence, errors |-> errors, partial |-> partial, blocked |-> blocked]
             \in Result
BY DEF Result

LEMMA NothingHeld ==
    /\ Held(Nothing) /\ Backed(Nothing) /\ Nothing.seen = <<>> /\ Facts(Nothing) = {}
    /\ Nothing.errors = {} /\ ~Nothing.partial /\ ~Nothing.blocked
BY DEF Nothing, Held, Result, Grounded, Alike, Backed, Facts

LEMMA ObsParts ==
    ASSUME NEW type \in EntityTypes, NEW name \in Names, NEW kind \in Kinds, NEW text \in BOOLEAN
    PROVE  LET o == Obs(type, name, kind, text)
           IN /\ o \in Observation /\ o.id = <<type, name>> /\ o.kind = kind /\ (o.text <=> text) /\ o.marks = {}
              /\ o.id[1] = type /\ o.id[2] = name
              /\ Ev(o) \in Evidence /\ Ev(o).of = o.id /\ Ev(o).marks = {}
BY DEF Obs, Observation, Ev, Evidence

\* An observation with an identity of its own is added with its evidence.
LEMMA AddsOne ==
    ASSUME NEW r, Held(r), NEW type \in EntityTypes, NEW name \in Names, NEW kind \in Kinds,
           NEW text \in BOOLEAN, <<type, name>> \notin IdsOf(r)
    PROVE  LET o == Obs(type, name, kind, text)
               q == With(r, <<o>>)
           IN /\ Held(q) /\ (Backed(r) => Backed(q))
              /\ Facts(q) = Facts(r) \cup {o} /\ IdsOf(q) = IdsOf(r) \cup {<<type, name>>} /\ q.seen # <<>>
              /\ q.errors = r.errors /\ (q.partial <=> r.partial) /\ (q.blocked <=> r.blocked)
<1> DEFINE o == Obs(type, name, kind, text)
           q == With(r, <<o>>)
<1>1. r \in Result /\ Grounded(r) /\ Alike(r)
  BY DEF Held
<1>2. /\ o \in Observation /\ o.id = <<type, name>> /\ o.marks = {}
      /\ Ev(o) \in Evidence /\ Ev(o).of = o.id /\ Ev(o).marks = {}
  BY ObsParts
<1> HIDE DEF o
<1>3. r.seen \in Seq(Observation) /\ r.evidence \subseteq Evidence
  BY <1>1, ResultParts
<1>4. /\ q.seen = r.seen \o <<o>> /\ q.evidence = r.evidence \cup {Ev(o)}
      /\ q.errors = r.errors /\ q.partial = r.partial /\ q.blocked = r.blocked
  <2>1. {Ev(<<o>>[i]) : i \in DOMAIN <<o>>} = {Ev(o)}
    OBVIOUS
  <2> QED BY <1>1, <2>1 DEF With, Result
<1>5. q \in Result
  <2>1. r.seen \o <<o>> \in Seq(Observation) /\ r.evidence \cup {Ev(o)} \in SUBSET Evidence
    BY <1>2, <1>3
  <2>2. {Ev(<<o>>[i]) : i \in DOMAIN <<o>>} = {Ev(o)}
    OBVIOUS
  <2> QED BY <1>1, <2>1, <2>2 DEF With, Result
<1> HIDE DEF q
<1>6. Facts(q) = Facts(r) \cup {o}
  <2>1. DOMAIN q.seen = 1 .. Len(r.seen) + 1 /\ q.seen[Len(r.seen) + 1] = o
        /\ \A i \in 1 .. Len(r.seen) : q.seen[i] = r.seen[i]
    BY <1>2, <1>3, <1>4
  <2>2. Len(r.seen) \in Nat /\ DOMAIN r.seen = 1 .. Len(r.seen)
    BY <1>3
  <2>3. \A i \in DOMAIN q.seen : i = Len(r.seen) + 1 \/ i \in DOMAIN r.seen
    BY <2>1, <2>2
  <2>4. Len(r.seen) + 1 \in DOMAIN q.seen /\ DOMAIN r.seen \subseteq DOMAIN q.seen
    BY <2>1, <2>2
  <2> QED BY <2>1, <2>2, <2>3, <2>4 DEF Facts
<1>7. IdsOf(q) = IdsOf(r) \cup {<<type, name>>}
  BY <1>2, <1>6 DEF IdsOf
<1>8. Grounded(q)
  BY <1>1, <1>2, <1>4, <1>6 DEF Grounded
<1>9. Alike(q)
  BY <1>1, <1>2, <1>6 DEF Alike, IdsOf
<1>10. Backed(r) => Backed(q)
  BY <1>2, <1>4, <1>6 DEF Backed
<1>11. q.seen # <<>>
  BY <1>2, <1>3, <1>4
<1> QED BY <1>4, <1>5, <1>6, <1>7, <1>8, <1>9, <1>10, <1>11 DEF Held, q, o

Added(q, r, o, id) ==
    /\ Held(q) /\ (Backed(r) => Backed(q))
    /\ Facts(q) = Facts(r) \cup {o} /\ IdsOf(q) = IdsOf(r) \cup {id} /\ q.seen # <<>>
    /\ q.errors = r.errors /\ (q.partial <=> r.partial) /\ (q.blocked <=> r.blocked)

LEMMA OneIsAdded ==
    ASSUME NEW r, Held(r), NEW type \in EntityTypes, NEW name \in Names, NEW kind \in Kinds,
           NEW text \in BOOLEAN, <<type, name>> \notin IdsOf(r)
    PROVE  Added(With(r, <<Obs(type, name, kind, text)>>), r, Obs(type, name, kind, text), <<type, name>>)
BY AddsOne DEF Added

\* No observation is none.
LEMMA AddsNone == ASSUME NEW r \in Result PROVE With(r, <<>>) = r
<1>1. r.seen \o <<>> = r.seen /\ {Ev(<<>>[i]) : i \in DOMAIN <<>>} = {}
  BY ResultParts
<1>2. With(r, <<>>) = [r EXCEPT !.seen = r.seen, !.evidence = r.evidence]
  BY <1>1 DEF With
<1> QED BY <1>2 DEF Result

\* An observation that a page may have.
LEMMA AddsMaybe ==
    ASSUME NEW r, Held(r), NEW type \in EntityTypes, NEW name \in Names, NEW kind \in Kinds,
           NEW text \in BOOLEAN, NEW has \in BOOLEAN, <<type, name>> \notin IdsOf(r)
    PROVE  LET o == Obs(type, name, kind, text)
               q == With(r, If(has, <<o>>))
           IN /\ Held(q) /\ (Backed(r) => Backed(q))
              /\ Facts(q) \subseteq Facts(r) \cup {o} /\ IdsOf(q) \subseteq IdsOf(r) \cup {<<type, name>>}
              /\ Facts(r) \subseteq Facts(q)
              /\ q.errors = r.errors /\ (q.partial <=> r.partial) /\ (q.blocked <=> r.blocked)
<1>1. CASE has
  <2>1. If(has, <<Obs(type, name, kind, text)>>) = <<Obs(type, name, kind, text)>>
    BY <1>1 DEF If
  <2> QED BY <2>1, AddsOne
<1>2. CASE ~has
  <2>1. If(has, <<Obs(type, name, kind, text)>>) = <<>>
    BY <1>2 DEF If
  <2>2. With(r, <<>>) = r
    BY AddsNone DEF Held
  <2> QED BY <2>1, <2>2
<1> QED BY <1>1, <1>2

\* A limit makes the result partial and says so.
LEMMA CutKeeps ==
    ASSUME NEW r, Held(r), NEW short \in BOOLEAN, NEW code \in Codes
    PROVE  LET q == Cut(r, short, code)
           IN /\ Held(q) /\ (Backed(r) => Backed(q)) /\ Facts(q) = Facts(r) /\ IdsOf(q) = IdsOf(r) /\ q.seen = r.seen
              /\ (q.blocked <=> r.blocked)
              /\ (r.partial => q.partial)
              /\ (q.errors = r.errors \/ q.partial)
<1> DEFINE q == Cut(r, short, code)
<1>1. r \in Result
  BY DEF Held
<1>2. CASE ~short
  <2>1. q = r
    BY <1>2 DEF Cut
  <2> QED BY <2>1
<1>3. CASE short
  <2>1. q = [r EXCEPT !.partial = TRUE, !.errors = @ \cup {code}]
    BY <1>3 DEF Cut
  <2>2. /\ q.seen = r.seen /\ q.evidence = r.evidence /\ q.partial /\ q.blocked = r.blocked /\ q \in Result
    BY <1>1, <2>1 DEF Result
  <2> HIDE DEF q
  <2>3. Facts(q) = Facts(r)
    BY <2>2 DEF Facts
  <2> QED BY <2>2, <2>3 DEF Held, Grounded, Alike, Backed, IdsOf, q
<1> QED BY <1>2, <1>3

\* Marks are set on observations and on their evidence alike.
LEMMA MarkedKeeps ==
    ASSUME NEW r, Held(r), NEW mark \in Marks, NEW which \in SUBSET Facts(r)
    PROVE  LET q == Marked(r, mark, which)
               to(o) == IF o \in which THEN Flagged(o, mark) ELSE o
           IN /\ Held(q) /\ (Backed(r) => Backed(q))
              /\ Facts(q) = {to(o) : o \in Facts(r)} /\ IdsOf(q) = IdsOf(r)
              /\ (q.seen = <<>> <=> r.seen = <<>>)
              /\ q.errors = r.errors /\ (q.partial <=> r.partial) /\ (q.blocked <=> r.blocked)
<1> DEFINE to(o) == IF o \in which THEN Flagged(o, mark) ELSE o
           ids   == {o.id : o \in which}
           tov(v) == IF v.of \in ids THEN Flagged(v, mark) ELSE v
           q     == Marked(r, mark, which)
           shown  == [i \in DOMAIN r.seen |-> to(r.seen[i])]
           evidence == {tov(v) : v \in r.evidence}
<1>1. r \in Result /\ Grounded(r) /\ Alike(r)
  BY DEF Held
<1>2. /\ r.seen \in Seq(Observation) /\ DOMAIN r.seen = 1 .. Len(r.seen) /\ Len(r.seen) \in Nat
      /\ r.evidence \subseteq Evidence /\ Facts(r) \subseteq Observation
      /\ \A i \in DOMAIN r.seen : r.seen[i] \in Observation /\ r.seen[i] \in Facts(r)
  BY <1>1, ResultParts DEF Facts
<1>3. ASSUME NEW o \in Observation
      PROVE  /\ to(o) \in Observation /\ to(o).id = o.id
             /\ o \in which => to(o).marks = o.marks \cup {mark}
             /\ o \notin which => to(o) = o
  BY DEF Flagged, Observation
<1>4. ASSUME NEW v \in Evidence
      PROVE  /\ tov(v) \in Evidence /\ tov(v).of = v.of
             /\ v.of \in ids => tov(v).marks = v.marks \cup {mark}
             /\ v.of \notin ids => tov(v) = v
  <2> HIDE DEF ids
  <2> QED BY DEF Flagged, Evidence
<1>5. q = [r EXCEPT !.seen = shown, !.evidence = evidence]
  BY DEF Marked
<1> HIDE DEF to, tov, ids
<1>6. shown \in Seq(Observation) /\ Len(shown) = Len(r.seen) /\ evidence \in SUBSET Evidence
  BY <1>2, <1>3, <1>4
<1>7. /\ q.seen = shown /\ q.evidence = evidence /\ q \in Result
      /\ q.errors = r.errors /\ q.partial = r.partial /\ q.blocked = r.blocked
  <2> HIDE DEF shown, evidence
  <2> QED BY <1>1, <1>5, <1>6 DEF Result
<1> HIDE DEF q
<1>8. Facts(q) = {to(o) : o \in Facts(r)}
  BY <1>2, <1>7 DEF Facts
<1>9. IdsOf(q) = IdsOf(r)
  BY <1>2, <1>3, <1>8 DEF IdsOf
<1>10. Grounded(q)
  <2> SUFFICES ASSUME NEW v \in r.evidence PROVE \E o \in Facts(q) : tov(v).of = o.id
    BY <1>7 DEF Grounded
  <2>1. PICK o \in Facts(r) : v.of = o.id
    BY <1>1 DEF Grounded
  <2>2. to(o) \in Facts(q) /\ to(o).id = o.id /\ tov(v).of = v.of
    BY <1>2, <1>3, <1>4, <1>8
  <2> QED BY <2>1, <2>2
<1>11. Alike(q)
  <2> SUFFICES ASSUME NEW o \in Facts(r), NEW m \in Facts(r), to(o).id = to(m).id PROVE to(o) = to(m)
    BY <1>8 DEF Alike
  <2>1. o = m
    BY <1>1, <1>2, <1>3 DEF Alike
  <2> QED BY <2>1
<1>12. ASSUME Backed(r) PROVE Backed(q)
  <2> SUFFICES ASSUME NEW o \in Facts(r)
               PROVE  \E v \in r.evidence : tov(v).of = to(o).id /\ tov(v).marks = to(o).marks
    BY <1>7, <1>8 DEF Backed
  <2>1. PICK v \in r.evidence : v.of = o.id /\ v.marks = o.marks
    BY <1>12 DEF Backed
  <2>2. o \in which <=> v.of \in ids
    BY <1>1, <2>1 DEF ids, Alike
  <2>3. o \in Observation /\ v \in Evidence
    BY <1>2
  <2> QED BY <1>3, <1>4, <2>1, <2>2, <2>3
<1>13. q.seen = <<>> <=> r.seen = <<>>
  BY <1>2, <1>6, <1>7
<1> QED BY <1>7, <1>8, <1>9, <1>10, <1>11, <1>12, <1>13 DEF Held, q, to

\* A page becomes a version of it.
LEMMA ArchivedKeeps ==
    ASSUME NEW r, Held(r), NEW t
    PROVE  LET q == Archived(t, r)
           IN /\ Held(q) /\ (Backed(r) => Backed(q)) /\ IdsOf(q) = IdsOf(r)
              /\ \A m \in Facts(q) : \E o \in Facts(r) :
                   m.id = o.id /\ m.marks = o.marks /\ (m.text <=> o.text)
                   /\ (m.kind = o.kind \/ m.kind = "historical_page_version")
              /\ (q.seen = <<>> <=> r.seen = <<>>)
              /\ q.errors = r.errors /\ (q.partial <=> r.partial) /\ (q.blocked <=> r.blocked)
<1> DEFINE q    == Archived(t, r)
           shown == [i \in DOMAIN r.seen |-> AsVersion(r.seen[i])]
<1>1. r \in Result /\ Grounded(r) /\ Alike(r)
  BY DEF Held
<1>2. /\ r.seen \in Seq(Observation) /\ DOMAIN r.seen = 1 .. Len(r.seen) /\ Len(r.seen) \in Nat
      /\ Facts(r) \subseteq Observation
      /\ \A i \in DOMAIN r.seen : r.seen[i] \in Observation /\ r.seen[i] \in Facts(r)
  BY <1>1, ResultParts DEF Facts
<1>3. ASSUME NEW o \in Observation
      PROVE  /\ AsVersion(o) \in Observation /\ AsVersion(o).id = o.id /\ AsVersion(o).marks = o.marks
             /\ (AsVersion(o).text <=> o.text)
             /\ (AsVersion(o).kind = o.kind \/ AsVersion(o).kind = "historical_page_version")
  <2> DEFINE a == [o EXCEPT !.kind = "historical_page_version"]
  <2>1. a \in Observation
    <3> DEFINE version == "historical_page_version"
    <3>1. version \in Kinds
      BY DEF Kinds
    <3> HIDE DEF version
    <3>2. [o EXCEPT !.kind = version] \in Observation
      BY <3>1 DEF Observation
    <3> QED BY <3>2 DEF version
  <2>3. a.id = o.id /\ a.marks = o.marks /\ a.kind = "historical_page_version"
    BY DEF Observation
  <2>4. a.text <=> o.text
    BY DEF Observation
  <2>2. AsVersion(o) = a \/ AsVersion(o) = o
    BY DEF AsVersion
  <2> HIDE DEF a
  <2> QED BY <2>1, <2>2, <2>3, <2>4
<1>4. CASE t.capture # "relevant"
  BY <1>4 DEF Archived
<1>5. CASE t.capture = "relevant"
  <2>1. q = [r EXCEPT !.seen = shown]
    BY <1>5 DEF Archived
  <2>2. shown \in Seq(Observation) /\ Len(shown) = Len(r.seen)
    BY <1>2, <1>3
  <2>3. /\ q.seen = shown /\ q.evidence = r.evidence /\ q \in Result
        /\ q.errors = r.errors /\ q.partial = r.partial /\ q.blocked = r.blocked
    <3> HIDE DEF shown
    <3> QED BY <1>1, <2>1, <2>2 DEF Result
  <2> HIDE DEF q
  <2>4. Facts(q) = {AsVersion(o) : o \in Facts(r)}
    BY <1>2, <2>3 DEF Facts
  <2>5. IdsOf(q) = IdsOf(r)
    BY <1>2, <1>3, <2>4 DEF IdsOf
  <2>6. Grounded(q)
    BY <1>1, <1>2, <1>3, <2>3, <2>4 DEF Grounded
  <2>7. Alike(q)
    BY <1>1, <1>2, <1>3, <2>4 DEF Alike
  <2>8. Backed(r) => Backed(q)
    BY <1>2, <1>3, <2>3, <2>4 DEF Backed
  <2>9. q.seen = <<>> <=> r.seen = <<>>
    BY <1>2, <2>2, <2>3
  <2> QED BY <1>2, <1>3, <2>3, <2>4, <2>5, <2>6, <2>7, <2>8, <2>9 DEF Held, q
<1> QED BY <1>4, <1>5

(***************************************************************************)
(* The entities of a list, one after the other.                            *)
(***************************************************************************)
RawOf(list, kind) == [i \in DOMAIN list |-> Obs("structured_entity", list[i].name, kind, FALSE)]
TwinsIn(list) == \E i, j \in DOMAIN list : list[i].name = list[j].name /\ list[i].type # list[j].type

\* q is r with the entities of the list, the first n of which have their type.
Typing(q, r, list, kind, n) ==
    LET M == Len(r.seen)
        L == Len(list)
    IN /\ q.seen \in [1 .. M + L -> Observation]
       /\ \A i \in 1 .. M : q.seen[i] = r.seen[i]
       /\ \A k \in 1 .. L :
            /\ k <= n => q.seen[M + k] = Obs(list[k].type, list[k].name, kind, list[k].text)
            /\ k > n => q.seen[M + k] = Obs("structured_entity", list[k].name, kind, FALSE)
       /\ q.evidence \subseteq Evidence
       /\ q.errors = r.errors /\ q.partial = r.partial /\ q.blocked = r.blocked
       /\ \A v \in q.evidence : \E i \in 1 .. M + L : v.of = q.seen[i].id
       /\ Backed(r) => \A i \in 1 .. M : \E v \in q.evidence : v.of = r.seen[i].id /\ v.marks = r.seen[i].marks
       /\ ~TwinsIn(list) => \A k \in 1 .. L : \E v \in q.evidence :
            /\ v.marks = {}
            /\ \/ v.of = <<list[k].type, list[k].name>>
               \/ k > n /\ v.of = <<"structured_entity", list[k].name>>

\* Results of one length.
OfLength(n) == {q \in Result : q.seen \in [1 .. n -> Observation]}

\* An entity takes its type.
Turn(q, r, list, n) == Described(Retyped(q, Len(r.seen) + n, list[n].type), Len(r.seen) + n, list[n])

\* s is q, one of whose observations has taken the type and the text of an entity.
Takes(s, q, spot, entity, length) ==
    LET old   == q.seen[spot].id
        typed == <<entity.type, old[2]>>
    IN /\ s \in OfLength(length)
       /\ \A i \in 1 .. length : i # spot => s.seen[i] = q.seen[i]
       /\ s.seen[spot] = [id |-> typed, kind |-> q.seen[spot].kind, text |-> entity.text, marks |-> q.seen[spot].marks]
       /\ s.evidence \subseteq Evidence
       /\ \A w \in s.evidence : \E v \in q.evidence : IF v.of = old THEN w.of = typed ELSE w.of = v.of
       /\ \A v \in q.evidence : \E w \in s.evidence :
            w.marks = v.marks /\ IF v.of = old THEN w.of = typed ELSE w.of = v.of
       /\ s.errors = q.errors /\ s.partial = q.partial /\ s.blocked = q.blocked

LEMMA TurnParts ==
    ASSUME NEW r \in Result, NEW list \in Seq(Entity), NEW n \in 1 .. Len(list),
           NEW q \in OfLength(Len(r.seen) + Len(list))
    PROVE  Takes(Turn(q, r, list, n), q, Len(r.seen) + n, list[n], Len(r.seen) + Len(list))
<1> DEFINE L   == Len(r.seen) + Len(list)
           spot  == Len(r.seen) + n
           o   == q.seen[spot]
           new == <<list[n].type, o.id[2]>>
           s   == Turn(q, r, list, n)
           to(v) == IF v.of = o.id THEN [v EXCEPT !.of = new] ELSE v
           evidence == {to(v) : v \in q.evidence}
           one  == [o EXCEPT !.id = new]
           two  == [one EXCEPT !.text = list[n].text]
           mid  == [q.seen EXCEPT ![spot] = one]
           shown == [mid EXCEPT ![spot] = two]
<1>1. /\ Len(r.seen) \in Nat /\ Len(list) \in Nat /\ L \in Nat /\ spot \in 1 .. L
      /\ list[n].type \in EntityTypes /\ list[n].text \in BOOLEAN
  <2>1. Len(r.seen) \in Nat /\ Len(list) \in Nat
    BY ResultParts
  <2>2. list[n] \in Entity
    OBVIOUS
  <2> QED BY <2>1, <2>2 DEF Entity, Names, EntityTypes
<1>2. q \in Result /\ q.seen \in [1 .. L -> Observation] /\ o \in Observation /\ q.evidence \subseteq Evidence
  BY <1>1, ResultParts DEF OfLength
<1>3. new \in EntityTypes \X Names
  BY <1>1, <1>2 DEF Observation
<1>4. one \in Observation /\ two \in Observation
      /\ two = [id |-> new, kind |-> o.kind, text |-> list[n].text, marks |-> o.marks]
  <2> HIDE DEF o, new, spot
  <2>1. one \in Observation
    BY <1>2, <1>3 DEF Observation
  <2>2. two \in Observation
    BY <1>1, <2>1 DEF Observation
  <2>3. one.id = new /\ one.kind = o.kind /\ one.marks = o.marks
    BY <1>2 DEF Observation
  <2>4. two = [id |-> one.id, kind |-> one.kind, text |-> list[n].text, marks |-> one.marks]
    <3> HIDE DEF one
    <3> QED BY <2>1 DEF Observation
  <2> QED BY <2>1, <2>2, <2>3, <2>4
<1>5. evidence \subseteq Evidence
  <2> HIDE DEF new, o
  <2>1. \A v \in q.evidence : v \in Evidence
    BY <1>2
  <2>2. \A v \in Evidence : to(v) \in Evidence
    BY <1>3 DEF Evidence
  <2> HIDE DEF to
  <2> QED BY <2>1, <2>2
<1>6. Retyped(q, spot, list[n].type) = [q EXCEPT !.seen = mid, !.evidence = evidence]
  <2>1. [q EXCEPT !.seen[spot].id = new, !.evidence = evidence] = [q EXCEPT !.seen = mid, !.evidence = evidence]
    OBVIOUS
  <2> QED BY <2>1 DEF Retyped
<1> HIDE DEF one, two, evidence, new, o, to, spot, L
<1>7. mid \in [1 .. L -> Observation] /\ mid[spot] = one
  BY <1>1, <1>2, <1>4
<1>8. shown \in [1 .. L -> Observation] /\ shown[spot] = two /\ \A i \in 1 .. L : i # spot => shown[i] = q.seen[i]
  BY <1>1, <1>2, <1>4, <1>7
<1> DEFINE half == [q EXCEPT !.seen = mid, !.evidence = evidence]
<1> HIDE DEF mid, shown
<1>9. /\ half.seen = mid /\ half.evidence = evidence /\ half.errors = q.errors
      /\ half.partial = q.partial /\ half.blocked = q.blocked /\ half \in Result
  <2>1. mid \in Seq(Observation)
    BY <1>1, <1>7
  <2> QED BY <1>2, <1>5, <2>1 DEF Result
<1>15. ASSUME NEW v \in q.evidence
       PROVE  to(v).marks = v.marks /\ IF v.of = o.id THEN to(v).of = new ELSE to(v).of = v.of
  <2>1. v \in Evidence
    BY <1>2
  <2> QED BY <2>1 DEF to, Evidence
<1>10. s = [half EXCEPT !.seen[spot].text = list[n].text]
  BY <1>6 DEF Turn, Described, spot
<1>11. s = [half EXCEPT !.seen = shown]
  BY <1>9, <1>10, <1>7 DEF shown, two
<1> HIDE DEF half, s
<1>12. /\ s.seen = shown /\ s.evidence = evidence /\ s.errors = q.errors
       /\ s.partial = q.partial /\ s.blocked = q.blocked /\ s \in Result
  <2>1. shown \in Seq(Observation)
    BY <1>1, <1>8
  <2> QED BY <1>9, <1>11, <2>1 DEF Result
<1>13. s \in OfLength(L)
  BY <1>8, <1>12 DEF OfLength
<1>16. s.evidence = {to(v) : v \in q.evidence}
  BY <1>12 DEF evidence
<1> HIDE DEF to
<1>17. /\ \A w \in s.evidence : \E v \in q.evidence : IF v.of = o.id THEN w.of = new ELSE w.of = v.of
       /\ \A v \in q.evidence : \E w \in s.evidence :
            w.marks = v.marks /\ IF v.of = o.id THEN w.of = new ELSE w.of = v.of
  BY <1>15, <1>16
<1>18. s.seen[spot] = [id |-> new, kind |-> o.kind, text |-> list[n].text, marks |-> o.marks]
  BY <1>4, <1>8, <1>12
<1>19. \A i \in 1 .. L : i # spot => s.seen[i] = q.seen[i]
  BY <1>8, <1>12
<1>20. s.evidence \subseteq Evidence
  BY <1>5, <1>12
<1>21. Takes(s, q, spot, list[n], L)
  BY <1>12, <1>13, <1>17, <1>18, <1>19, <1>20 DEF Takes, o, new
<1> QED BY <1>21 DEF s, spot, L

LEMMA TurnTypes ==
    ASSUME NEW r, Held(r), NEW list \in Seq(Entity), NEW kind \in Kinds,
           \A k \in DOMAIN list, o \in Facts(r) : o.id[2] # list[k].name,
           NEW n \in 1 .. Len(list), NEW q \in OfLength(Len(r.seen) + Len(list)),
           Typing(q, r, list, kind, n - 1)
    PROVE  Typing(Turn(q, r, list, n), r, list, kind, n)
<1> DEFINE M   == Len(r.seen)
           L   == Len(list)
           spot  == M + n
           old == <<"structured_entity", list[n].name>>
           new == <<list[n].type, list[n].name>>
           s   == Turn(q, r, list, n)
<1>1. /\ r \in Result /\ M \in Nat /\ L \in Nat /\ n \in 1 .. L /\ spot \in 1 .. M + L
      /\ \A k \in 1 .. L : list[k] \in Entity
      /\ \A i \in 1 .. M : r.seen[i] \in Facts(r) /\ r.seen[i] \in Observation
      /\ \A i \in 1 .. M, k \in 1 .. L : r.seen[i].id[2] # list[k].name
  <2>1. r \in Result /\ M \in Nat /\ L \in Nat
    BY ResultParts DEF Held
  <2>2. \A i \in 1 .. M : r.seen[i] \in Facts(r) /\ r.seen[i] \in Observation
    BY <2>1, ResultParts DEF Facts
  <2> QED BY <2>1, <2>2
<1>2. \A k \in 1 .. L : list[k].name \in Names /\ list[k].type \in EntityTypes /\ list[k].text \in BOOLEAN
  BY <1>1 DEF Entity, Names, EntityTypes
<1>3. q.seen[spot] = Obs("structured_entity", list[n].name, kind, FALSE)
  <2>1. n > n - 1
    BY <1>1
  <2>2. q.seen[M + n] = Obs("structured_entity", list[n].name, kind, FALSE)
    BY <1>1, <2>1 DEF Typing
  <2> QED BY <2>2
<1>4. q.seen[spot].id = old /\ q.seen[spot].kind = kind /\ q.seen[spot].marks = {} /\ old[2] = list[n].name
  BY <1>3 DEF Obs
<1>5. /\ s \in OfLength(M + L)
      /\ \A i \in 1 .. M + L : i # spot => s.seen[i] = q.seen[i]
      /\ s.seen[spot] = [id |-> new, kind |-> kind, text |-> list[n].text, marks |-> {}]
      /\ s.evidence \subseteq Evidence
      /\ \A w \in s.evidence : \E v \in q.evidence : IF v.of = old THEN w.of = new ELSE w.of = v.of
      /\ \A v \in q.evidence : \E w \in s.evidence :
           w.marks = v.marks /\ IF v.of = old THEN w.of = new ELSE w.of = v.of
      /\ s.errors = q.errors /\ s.partial = q.partial /\ s.blocked = q.blocked
  <2>1. Takes(s, q, spot, list[n], M + L)
    BY <1>1, TurnParts
  <2>2. q.seen[spot].kind = kind /\ q.seen[spot].marks = {} /\ q.seen[spot].id = old /\ new = <<list[n].type, old[2]>>
    BY <1>4
  <2> HIDE DEF s, spot, old, new, M, L
  <2> QED BY <2>1, <2>2 DEF Takes
<1>6. s.seen[spot] = Obs(list[n].type, list[n].name, kind, list[n].text)
  BY <1>5 DEF Obs
<1>7. q.evidence \subseteq Evidence /\ \A v \in q.evidence : \E i \in 1 .. M + L : v.of = q.seen[i].id
  BY DEF Typing
<1> HIDE DEF s
<1>9. s.seen \in [1 .. M + L -> Observation]
  BY <1>5 DEF OfLength
<1>10. \A i \in 1 .. M : s.seen[i] = r.seen[i]
  <2>1. \A i \in 1 .. M : i \in 1 .. M + L /\ i # spot
    BY <1>1
  <2> QED BY <1>5, <2>1 DEF Typing
<1>11. ASSUME NEW k \in 1 .. L
       PROVE  /\ k <= n => s.seen[M + k] = Obs(list[k].type, list[k].name, kind, list[k].text)
              /\ k > n => s.seen[M + k] = Obs("structured_entity", list[k].name, kind, FALSE)
  <2>1. CASE k = n
    <3>1. ~(k > n)
      BY <1>1, <2>1
    <3>2. s.seen[M + k] = Obs(list[k].type, list[k].name, kind, list[k].text)
      BY <1>6, <2>1
    <3> QED BY <3>1, <3>2
  <2>2. CASE k # n
    <3>1. M + k \in 1 .. M + L /\ M + k # spot /\ (k <= n => k <= n - 1) /\ (k > n => k > n - 1)
      BY <1>1, <2>2
    <3>2. s.seen[M + k] = q.seen[M + k]
      BY <1>5, <3>1
    <3> QED BY <3>1, <3>2 DEF Typing
  <2> QED BY <2>1, <2>2
<1>12. ASSUME NEW w \in s.evidence PROVE \E i \in 1 .. M + L : w.of = s.seen[i].id
  <2>1. PICK v \in q.evidence : IF v.of = old THEN w.of = new ELSE w.of = v.of
    BY <1>5
  <2>2. CASE v.of = old
    <3>1. w.of = s.seen[spot].id
      BY <1>5, <2>1, <2>2
    <3> QED BY <1>1, <3>1
  <2>3. CASE v.of # old
    <3>1. PICK i \in 1 .. M + L : v.of = q.seen[i].id
      BY <1>7
    <3>2. i # spot /\ w.of = v.of
      BY <1>4, <2>1, <2>3, <3>1
    <3> QED BY <1>5, <3>1, <3>2
  <2> QED BY <2>2, <2>3
<1>13. ASSUME Backed(r), NEW i \in 1 .. M
       PROVE  \E w \in s.evidence : w.of = r.seen[i].id /\ w.marks = r.seen[i].marks
  <2>1. PICK v \in q.evidence : v.of = r.seen[i].id /\ v.marks = r.seen[i].marks
    BY <1>13 DEF Typing
  <2>2. v.of # old
    <3>1. r.seen[i].id[2] # list[n].name
      BY <1>1
    <3> QED BY <1>4, <2>1, <3>1
  <2> QED BY <1>5, <2>1, <2>2
<1>14. ASSUME ~TwinsIn(list), NEW k \in 1 .. L
       PROVE  \E w \in s.evidence :
                /\ w.marks = {}
                /\ \/ w.of = <<list[k].type, list[k].name>>
                   \/ k > n /\ w.of = <<"structured_entity", list[k].name>>
  <2> DEFINE raw == <<"structured_entity", list[k].name>>
             typed == <<list[k].type, list[k].name>>
  <2>1. PICK v \in q.evidence : v.marks = {} /\ (v.of = typed \/ (k > n - 1 /\ v.of = raw))
    BY <1>14 DEF Typing
  <2>2. CASE v.of = old
    <3>1. list[k].name = list[n].name
      BY <2>1, <2>2
    <3>2. list[k].type = list[n].type
      BY <1>1, <1>14, <3>1 DEF TwinsIn
    <3>3. new = typed
      BY <3>1, <3>2
    <3> HIDE DEF typed, raw, new, old
    <3>4. \E w \in s.evidence : w.marks = {} /\ w.of = typed
      BY <1>5, <2>1, <2>2, <3>3
    <3> QED BY <3>4 DEF typed
  <2>3. CASE v.of # old
    <3>1. \E w \in s.evidence : w.marks = {} /\ w.of = v.of
      BY <1>5, <2>1, <2>3
    <3>2. v.of = typed \/ (k > n /\ v.of = raw)
      <4>1. k = n => raw = old
        OBVIOUS
      <4>2. k > n - 1 => k = n \/ k > n
        BY <1>1
      <4> QED BY <2>1, <2>3, <4>1, <4>2
    <3> QED BY <3>1, <3>2
  <2> QED BY <2>2, <2>3
<1>15. s.errors = r.errors /\ s.partial = r.partial /\ s.blocked = r.blocked
  BY <1>5 DEF Typing
<1> HIDE DEF M, L, spot, old, new
<1> QED BY <1>5, <1>9, <1>10, <1>11, <1>12, <1>13, <1>14, <1>15 DEF Typing, M, L, s

\* One list after the other.
LEMMA Joined ==
    ASSUME NEW S, NEW a \in Seq(S), NEW b \in Seq(S)
    PROVE  /\ a \o b \in Seq(S) /\ Len(a \o b) = Len(a) + Len(b)
           /\ \A i \in 1 .. Len(a) : (a \o b)[i] = a[i]
           /\ \A k \in 1 .. Len(b) : (a \o b)[Len(a) + k] = b[k]
OBVIOUS

LEMMA TypedAll ==
    ASSUME NEW r, Held(r), NEW list \in Seq(Entity), NEW kind \in Kinds,
           \A k \in DOMAIN list, o \in Facts(r) : o.id[2] # list[k].name
    PROVE  LET q == Typed(With(r, RawOf(list, kind)), Len(r.seen), list)
           IN q \in OfLength(Len(r.seen) + Len(list)) /\ Typing(q, r, list, kind, Len(list))
<1> DEFINE M == Len(r.seen)
           L == Len(list)
           S == OfLength(M + L)
           raw == RawOf(list, kind)
           first == With(r, raw)
           turning(q, n) == Described(Retyped(q, M + n, list[n].type), M + n, list[n])
           turn == [n \in 1 .. L |-> [q \in S |-> turning(q, n)]]
           is(g) == g = [n \in 0 .. L |-> IF n = 0 THEN first
                                         ELSE Described(Retyped(g[n - 1], M + n, list[n].type), M + n, list[n])]
           upTo == CHOOSE g : is(g)
<1>1. r \in Result /\ M \in Nat /\ L \in Nat /\ DOMAIN list = 1 .. L /\ \A k \in 1 .. L : list[k] \in Entity
  BY ResultParts DEF Held
<1>2. raw \in Seq(Observation) /\ Len(raw) = L /\ DOMAIN raw = 1 .. L
      /\ \A k \in 1 .. L : raw[k] = Obs("structured_entity", list[k].name, kind, FALSE)
                            /\ raw[k] \in Observation /\ Ev(raw[k]) \in Evidence
                            /\ Ev(raw[k]).of = <<"structured_entity", list[k].name>> /\ Ev(raw[k]).marks = {}
  <2>1. ASSUME NEW k \in 1 .. L
        PROVE  LET o == Obs("structured_entity", list[k].name, kind, FALSE)
               IN o \in Observation /\ Ev(o) \in Evidence
                  /\ Ev(o).of = <<"structured_entity", list[k].name>> /\ Ev(o).marks = {}
    <3>1. list[k].name \in Names /\ "structured_entity" \in EntityTypes
      BY <1>1 DEF Entity, Names, EntityTypes, SchemaTypes
    <3> QED BY <3>1 DEF Obs, Observation, Ev, Evidence
  <2>2. DOMAIN raw = 1 .. L /\ \A k \in 1 .. L : raw[k] = Obs("structured_entity", list[k].name, kind, FALSE)
    BY <1>1 DEF RawOf
  <2>3. raw = [k \in 1 .. L |-> raw[k]]
    BY <1>1 DEF RawOf
  <2> HIDE DEF raw
  <2>4. raw \in [1 .. L -> Observation]
    BY <2>1, <2>2, <2>3
  <2>5. raw \in Seq(Observation) /\ Len(raw) = L
    BY <1>1, <2>4
  <2> QED BY <2>1, <2>2, <2>5
<1>3. /\ first.seen = r.seen \o raw
      /\ first.evidence = r.evidence \cup {Ev(raw[k]) : k \in 1 .. L}
      /\ first.errors = r.errors /\ first.partial = r.partial /\ first.blocked = r.blocked
      /\ first \in Result
  <2> DEFINE shown == r.seen \o raw
             evidence == r.evidence \cup {Ev(raw[k]) : k \in 1 .. L}
  <2>1. first = [r EXCEPT !.seen = shown, !.evidence = evidence]
    <3> HIDE DEF raw
    <3> QED BY <1>2 DEF With
  <2>2. shown \in Seq(Observation) /\ evidence \in SUBSET Evidence
    <3> HIDE DEF raw
    <3>1. r.seen \in Seq(Observation) /\ r.evidence \subseteq Evidence
      BY <1>1, ResultParts
    <3>2. r.seen \o raw \in Seq(Observation)
      BY <1>2, <3>1
    <3>3. \A k \in 1 .. L : Ev(raw[k]) \in Evidence
      BY <1>2
    <3> QED BY <3>1, <3>2, <3>3
  <2> HIDE DEF shown, evidence
  <2>3. [r EXCEPT !.seen = shown, !.evidence = evidence] \in Result
    BY <1>1, <2>2 DEF Result
  <2> QED BY <1>1, <2>1, <2>3 DEF Result, shown, evidence
<1>4. first \in S /\ Typing(first, r, list, kind, 0)
  <2> HIDE DEF first, raw
  <2>1. /\ first.seen \in [1 .. M + L -> Observation]
        /\ \A i \in 1 .. M : first.seen[i] = r.seen[i]
        /\ \A k \in 1 .. L : first.seen[M + k] = raw[k]
    <3>1. r.seen \in Seq(Observation) /\ Len(r.seen) = M
      BY <1>1, ResultParts
    <3>5. raw \in Seq(Observation) /\ Len(raw) = L /\ first.seen = r.seen \o raw
      BY <1>2, <1>3
    <3> HIDE DEF M, L
    <3>2. first.seen \in Seq(Observation) /\ Len(first.seen) = M + L
      <4>1. r.seen \o raw \in Seq(Observation)
        BY <3>1, <3>5, Joined
      <4>2. Len(r.seen \o raw) = Len(r.seen) + Len(raw)
        BY <3>1, <3>5, Joined
      <4> QED BY <3>1, <3>5, <4>1, <4>2
    <3>3. \A i \in 1 .. M : first.seen[i] = r.seen[i]
      BY <3>1, <3>5, Joined
    <3>4. \A k \in 1 .. L : first.seen[M + k] = raw[k]
      BY <3>1, <3>5, Joined
    <3> QED BY <3>2, <3>3, <3>4
  <2>2. first \in S
    BY <1>3, <2>1 DEF OfLength
  <2>3. \A k \in 1 .. L : /\ ~(k <= 0) /\ first.seen[M + k] = Obs("structured_entity", list[k].name, kind, FALSE)
                         /\ first.seen[M + k].id = <<"structured_entity", list[k].name>>
    <3> TAKE k \in 1 .. L
    <3>3. ~(k <= 0) /\ first.seen[M + k] = raw[k]
      BY <1>1, <2>1
    <3>4. raw[k] = Obs("structured_entity", list[k].name, kind, FALSE)
      BY <1>2
    <3>1. first.seen[M + k] = Obs("structured_entity", list[k].name, kind, FALSE) /\ ~(k <= 0)
      BY <3>3, <3>4
    <3>2. Obs("structured_entity", list[k].name, kind, FALSE).id = <<"structured_entity", list[k].name>>
      BY DEF Obs
    <3> QED BY <3>1, <3>2
  <2>4. first.evidence \subseteq Evidence
    BY <1>3, ResultParts
  <2>5. ASSUME NEW v \in first.evidence PROVE \E i \in 1 .. M + L : v.of = first.seen[i].id
    <3>1. CASE v \in r.evidence
      <4>1. PICK o \in Facts(r) : v.of = o.id
        BY <3>1 DEF Held, Grounded
      <4>2. PICK i \in 1 .. M : o = r.seen[i]
        BY <1>1, ResultParts DEF Facts
      <4>3. i \in 1 .. M + L
        BY <1>1
      <4> QED BY <2>1, <4>1, <4>2, <4>3
    <3>2. CASE v \notin r.evidence
      <4>1. PICK k \in 1 .. L : v = Ev(raw[k])
        BY <1>3, <3>2
      <4>2. M + k \in 1 .. M + L
        BY <1>1
      <4> QED BY <1>2, <2>3, <4>1, <4>2
    <3> QED BY <3>1, <3>2
  <2>6. ASSUME Backed(r), NEW i \in 1 .. M
        PROVE  \E v \in first.evidence : v.of = r.seen[i].id /\ v.marks = r.seen[i].marks
    <3>1. r.seen[i] \in Facts(r)
      BY <1>1, ResultParts DEF Facts
    <3> QED BY <1>3, <2>6, <3>1 DEF Backed
  <2>7. ASSUME NEW k \in 1 .. L
        PROVE  \E v \in first.evidence : v.marks = {} /\ v.of = <<"structured_entity", list[k].name>> /\ k > 0
    <3>1. Ev(raw[k]) \in first.evidence /\ k > 0
      BY <1>3
    <3> QED BY <1>2, <3>1
  <2> HIDE DEF M, L
  <2> QED BY <1>3, <2>1, <2>2, <2>3, <2>4, <2>5, <2>6, <2>7 DEF Typing, M, L
<1>5. ASSUME NEW n \in 1 .. L, NEW q \in S PROVE turning(q, n) \in S
  <2>1. turning(q, n) = Turn(q, r, list, n)
    BY DEF Turn
  <2>2. Turn(q, r, list, n) \in OfLength(Len(r.seen) + Len(list))
    BY <1>1, TurnParts DEF Takes
  <2> QED BY <2>1, <2>2
<1>6. turn \in [1 .. L -> [S -> S]]
  <2> HIDE DEF turning, S
  <2> QED BY <1>5
<1> HIDE DEF first
<1>7. PICK g : LoopOf(g, L, S, first, turn)
  <2> HIDE DEF L, S, turn
  <2> QED BY <1>1, <1>4, <1>6, LoopExists
<1>8. is(g)
  <2>1. g \in [0 .. L -> S] /\ g[0] = first /\ \A n \in 1 .. L : g[n] = turn[n][g[n - 1]]
    BY <1>7 DEF LoopOf
  <2>2. ASSUME NEW n \in 1 .. L
        PROVE  g[n] = Described(Retyped(g[n - 1], M + n, list[n].type), M + n, list[n])
    <3>0. g[n - 1] \in S
      <4> HIDE DEF S, L, M
      <4> QED BY <1>1, <2>1
    <3> HIDE DEF turning, S, L, M
    <3>1. turn[n][g[n - 1]] = turning(g[n - 1], n)
      BY <3>0
    <3> QED BY <2>1, <3>1 DEF turning
  <2>3. \A n \in 0 .. L : g[n] = IF n = 0 THEN first
                                ELSE Described(Retyped(g[n - 1], M + n, list[n].type), M + n, list[n])
    BY <1>1, <2>1, <2>2
  <2> HIDE DEF L, M, S
  <2> QED BY <2>1, <2>3
<1>9. is(upTo)
  <2> HIDE DEF is
  <2> QED BY <1>8
<1>10. Typed(first, M, list) = upTo[L]
  BY DEF Typed
<1> HIDE DEF upTo, turn, turning
<1> DEFINE T == {n \in 0 .. L : upTo[n] \in S /\ Typing(upTo[n], r, list, kind, n)}
<1>11. 0 \in T
  <2>1. upTo[0] = first
    BY <1>1, <1>9
  <2> QED BY <1>1, <1>4, <2>1
<1>12. \A n \in 1 .. L : n - 1 \in T => n \in T
  <2> TAKE n \in 1 .. L
  <2> SUFFICES ASSUME n - 1 \in T PROVE upTo[n] \in S /\ Typing(upTo[n], r, list, kind, n)
    BY <1>1
  <2>1. upTo[n] = Turn(upTo[n - 1], r, list, n)
    BY <1>1, <1>9 DEF Turn
  <2>2. upTo[n - 1] \in OfLength(Len(r.seen) + Len(list)) /\ Typing(upTo[n - 1], r, list, kind, n - 1)
    OBVIOUS
  <2>3. Turn(upTo[n - 1], r, list, n) \in OfLength(Len(r.seen) + Len(list))
    BY <1>1, <2>2, TurnParts DEF Takes
  <2>4. Typing(Turn(upTo[n - 1], r, list, n), r, list, kind, n)
    BY <1>1, <2>2, TurnTypes
  <2> QED BY <2>1, <2>3, <2>4
<1>13. L \in T
  <2> HIDE DEF T, L
  <2>1. \A n \in 0 .. L : n \in T
    BY ONLY <1>1, <1>11, <1>12, TurnByTurn
  <2> QED BY <1>1, <2>1
<1> QED BY <1>10, <1>13 DEF first

\* The entities that a page declares are held and have their evidence.
LEMMA EntitiesHeld ==
    ASSUME NEW r, Held(r), NEW list \in Declared \cup Items, NEW kind \in Kinds,
           \A k \in DOMAIN list, o \in Facts(r) : o.id[2] # list[k].name
    PROVE  LET q == Typed(With(r, RawOf(list, kind)), Len(r.seen), list)
           IN /\ Held(q) /\ (Backed(r) /\ ~TwinsIn(list) => Backed(q)) /\ Facts(r) \subseteq Facts(q)
              /\ \A o \in Facts(q) : \/ o \in Facts(r)
                                     \/ \E k \in DOMAIN list : /\ o.id = <<list[k].type, list[k].name>>
                                                              /\ o.kind = kind /\ o.marks = {}
              /\ q.errors = r.errors /\ (q.partial <=> r.partial) /\ (q.blocked <=> r.blocked)
<1> DEFINE q == Typed(With(r, RawOf(list, kind)), Len(r.seen), list)
           M == Len(r.seen)
           L == Len(list)
           Of(k) == Obs(list[k].type, list[k].name, kind, list[k].text)
<1>1. /\ list \in Seq(Entity) /\ DOMAIN list = 1 .. L /\ L \in Nat
      /\ \A i, j \in 1 .. L : list[i].name = list[j].name /\ list[i].type = list[j].type => list[i].text = list[j].text
  <2>1. list \in Seq(Entity)
    BY ExtractionAssumption DEF ExtractionAssumption
  <2>2. DOMAIN list = 1 .. L /\ L \in Nat
    BY <2>1
  <2> QED BY <2>1, <2>2, ExtractionAssumption DEF ExtractionAssumption
<1>2. r \in Result /\ M \in Nat /\ DOMAIN r.seen = 1 .. M
  BY ResultParts DEF Held
<1>3. q \in OfLength(M + L) /\ Typing(q, r, list, kind, L)
  BY <1>1, TypedAll
<1> HIDE DEF q
<1>4. /\ q \in Result /\ q.seen \in [1 .. M + L -> Observation]
      /\ \A i \in 1 .. M : q.seen[i] = r.seen[i]
      /\ \A k \in 1 .. L : q.seen[M + k] = Of(k)
  <2>1. \A k \in 1 .. L : k <= L
    BY <1>1
  <2> QED BY <1>3, <2>1 DEF OfLength, Typing
<1>5. \A k \in 1 .. L : Of(k).id = <<list[k].type, list[k].name>> /\ Of(k).kind = kind /\ Of(k).marks = {}
  BY DEF Obs
<1> HIDE DEF Of
<1>6. Facts(q) = Facts(r) \cup {Of(k) : k \in 1 .. L}
  <2>1. \A i \in 1 .. M + L : i \in 1 .. M \/ \E k \in 1 .. L : i = M + k
    <3> TAKE i \in 1 .. M + L
    <3>1. i \in 1 .. M \/ i - M \in 1 .. L
      BY <1>1, <1>2
    <3>2. i = M + (i - M)
      BY <1>1, <1>2
    <3> HIDE DEF M, L
    <3> QED BY <3>1, <3>2
  <2>2. 1 .. M \subseteq 1 .. M + L /\ \A k \in 1 .. L : M + k \in 1 .. M + L
    BY <1>1, <1>2
  <2>3. DOMAIN q.seen = 1 .. M + L
    BY <1>4
  <2> HIDE DEF M, L
  <2> QED BY <1>2, <1>4, <2>1, <2>2, <2>3 DEF Facts
<1>7. Grounded(q)
  <2>1. \A v \in q.evidence : \E i \in 1 .. M + L : v.of = q.seen[i].id
    BY <1>3 DEF Typing
  <2> QED BY <1>4, <2>1 DEF Grounded, Facts
<1>8. Alike(q)
  <2> SUFFICES ASSUME NEW o \in Facts(q), NEW m \in Facts(q), o.id = m.id PROVE o = m
    BY DEF Alike
  <2>1. ASSUME NEW k \in 1 .. L, NEW d \in Facts(r) PROVE Of(k).id # d.id
    <3>1. d.id[2] # list[k].name
      BY <1>1
    <3>2. Of(k).id[2] = list[k].name
      BY <1>5
    <3> QED BY <3>1, <3>2
  <2>2. ASSUME NEW k \in 1 .. L, NEW j \in 1 .. L, Of(k).id = Of(j).id PROVE Of(k) = Of(j)
    <3>1. list[k].name = list[j].name /\ list[k].type = list[j].type
      BY <1>5, <2>2
    <3>2. list[k].text = list[j].text
      BY <1>1, <3>1
    <3> QED BY <3>1, <3>2 DEF Of
  <2> QED BY <1>6, <2>1, <2>2 DEF Held, Alike
<1>9. ASSUME Backed(r), ~TwinsIn(list) PROVE Backed(q)
  <2>1. ASSUME NEW o \in Facts(r) PROVE \E v \in q.evidence : v.of = o.id /\ v.marks = o.marks
    <3>1. PICK i \in 1 .. M : o = r.seen[i]
      BY <1>2 DEF Facts
    <3> QED BY <1>3, <1>9, <3>1 DEF Typing
  <2>2. ASSUME NEW k \in 1 .. L PROVE \E v \in q.evidence : v.of = Of(k).id /\ v.marks = Of(k).marks
    <3>1. PICK v \in q.evidence : v.marks = {} /\ (v.of = <<list[k].type, list[k].name>> \/ k > L)
      BY <1>3, <1>9 DEF Typing
    <3>2. ~(k > L)
      BY <1>1
    <3> QED BY <1>5, <3>1, <3>2
  <2> QED BY <1>6, <2>1, <2>2 DEF Backed
<1>10. q.errors = r.errors /\ q.partial = r.partial /\ q.blocked = r.blocked
  BY <1>3 DEF Typing
<1> QED BY <1>1, <1>4, <1>5, <1>6, <1>7, <1>8, <1>9, <1>10 DEF Held, q

(***************************************************************************)
(* A result that is not delivered yet: nothing is marked, only the page is *)
(* a container, and an error shows in it.                                  *)
(***************************************************************************)
PageId == <<"document", "page">>

IsPlain(p, r) ==
    /\ Held(r) /\ (Twins(p) \/ Backed(r))
    /\ \A o \in Facts(r) : o.marks = {} /\ (o.kind = "web_page" => o.id = PageId /\ p.media = "html")
    /\ r.errors # {} => r.partial

IsSound(p, r) ==
    /\ Held(r) /\ (Twins(p) \/ Backed(r))
    /\ \A o \in Facts(r) : o.marks = {} /\ (o.kind = "web_page" => o.id = PageId /\ p.media = "html")
    /\ r.errors # {} => r.partial \/ (r.seen = <<>> /\ p.media # "html")
    /\ p.media = "html" => ~r.blocked /\ <<"publication", "article">> \notin IdsOf(r)

\* A page grows by an observation.
LEMMA PlainGrows ==
    ASSUME NEW p, NEW r, IsPlain(p, r), NEW type \in EntityTypes, NEW name \in Names, NEW kind \in Kinds \ {"web_page"},
           NEW text \in BOOLEAN, NEW has \in BOOLEAN, <<type, name>> \notin IdsOf(r)
    PROVE  LET q == With(r, If(has, <<Obs(type, name, kind, text)>>))
           IN /\ IsPlain(p, q) /\ IdsOf(q) \subseteq IdsOf(r) \cup {<<type, name>>}
              /\ (q.blocked <=> r.blocked)
<1> DEFINE o == Obs(type, name, kind, text)
           q == With(r, If(has, <<o>>))
<1>1. /\ Held(q) /\ (Backed(r) => Backed(q))
      /\ Facts(q) \subseteq Facts(r) \cup {o} /\ IdsOf(q) \subseteq IdsOf(r) \cup {<<type, name>>}
      /\ q.errors = r.errors /\ (q.partial <=> r.partial) /\ (q.blocked <=> r.blocked)
  BY AddsMaybe DEF IsPlain
<1>2. o.kind # "web_page" /\ o.marks = {}
  BY ObsParts
<1> HIDE DEF q, o
<1>3. IsPlain(p, q)
  BY <1>1, <1>2 DEF IsPlain
<1> QED BY <1>1, <1>3 DEF q, o

LEMMA PlainCut ==
    ASSUME NEW p, NEW r, IsPlain(p, r), NEW short \in BOOLEAN, NEW code \in Codes
    PROVE  LET q == Cut(r, short, code)
           IN IsPlain(p, q) /\ IdsOf(q) = IdsOf(r) /\ (q.blocked <=> r.blocked)
BY CutKeeps DEF IsPlain

\* A page is described: its entities, its metadata, its sections and tables.
LEMMA PageIsPlain ==
    ASSUME NEW p \in HtmlPages
    PROVE  LET r == SemanticResult(p)
           IN /\ IsPlain(p, r) /\ ~r.blocked
              /\ \A id \in IdsOf(r) : id[2] \in {"page", "section", "table"} \cup Declares
<1> DEFINE r1 == With(Nothing, <<Obs("document", "page", "web_page", TRUE)>>)
           r2 == WithEntities(p, r1)
           r3 == With(r2, Metadata(p))
           r4 == With(r3, Microformats(p))
           r5 == With(r4, Tables(p))
           r6 == WithMicrodata(p, r5)
           own == {PageId, <<"page_metadata", "page">>, <<"review", "section">>, <<"publication", "section">>, <<"dataset", "table">>}
<1>1. /\ p.media = "html" /\ p.declared \in Declared /\ p.items \in Items /\ p.tables \in BOOLEAN
      /\ p.section \in {"none", "review", "publication"}
  BY DEF HtmlPages
<1>2. /\ \A k \in DOMAIN p.declared : p.declared[k].name \in Declares /\ p.declared[k].name \notin OwnNames
      /\ \A k \in DOMAIN p.items : p.items[k].name \in Declares /\ p.items[k].name \notin OwnNames
      /\ \A i \in DOMAIN p.declared, k \in DOMAIN p.items : p.declared[i].name # p.items[k].name
  BY <1>1, ExtractionAssumption DEF ExtractionAssumption, Declares
<1>3. /\ Twins(p) <=> TwinsIn(p.declared) \/ TwinsIn(p.items)
  BY <1>1 DEF Twins, TwinsIn
<1>4. IsPlain(p, r1) /\ IdsOf(r1) = {PageId} /\ ~r1.blocked /\ Held(r1)
  <2> DEFINE o == Obs("document", "page", "web_page", TRUE)
  <2>1. "document" \in EntityTypes /\ "page" \in Names /\ "web_page" \in Kinds
    BY DEF EntityTypes, Names, OwnNames, Kinds
  <2>2. IdsOf(Nothing) = {}
    BY NothingHeld DEF IdsOf
  <2>3. PICK text \in BOOLEAN : text = TRUE
    OBVIOUS
  <2>4. r1 = With(Nothing, <<Obs("document", "page", "web_page", text)>>) /\ o = Obs("document", "page", "web_page", text)
    BY <2>3
  <2> HIDE DEF r1, o
  <2>5. /\ Held(r1) /\ Backed(r1) /\ Facts(r1) = Facts(Nothing) \cup {o} /\ IdsOf(r1) = IdsOf(Nothing) \cup {<<"document", "page">>}
        /\ r1.errors = Nothing.errors /\ (r1.blocked <=> Nothing.blocked)
    <3>1. Held(Nothing) /\ Backed(Nothing) /\ <<"document", "page">> \notin IdsOf(Nothing)
      BY <2>2, NothingHeld
    <3> HIDE DEF PageId
    <3> QED BY <2>1, <2>4, <3>1, AddsOne
  <2>6. o.id = PageId /\ o.marks = {}
    BY DEF Obs, PageId, o
  <2> QED BY <1>1, <2>2, <2>5, <2>6, NothingHeld DEF IsPlain, PageId
<1> HIDE DEF r1
<1>5. /\ Held(r2) /\ (Twins(p) \/ Backed(r2)) /\ IsPlain(p, r2) /\ ~r2.blocked
      /\ \A id \in IdsOf(r2) : id = PageId \/ \E k \in DOMAIN p.declared : id[2] = p.declared[k].name
  <2>1. r2 = Typed(With(r1, RawOf(p.declared, "json_ld")), Len(r1.seen), p.declared)
    BY DEF WithEntities, RawEntities, RawOf
  <2>2. \A k \in DOMAIN p.declared, o \in Facts(r1) : o.id[2] # p.declared[k].name
    BY <1>2, <1>4 DEF IdsOf, PageId, OwnNames
  <2>3. "json_ld" \in Kinds /\ p.declared \in Declared \cup Items /\ Held(r1)
    BY <1>1, <1>4 DEF Kinds
  <2>4. /\ Held(r2) /\ (Backed(r1) /\ ~TwinsIn(p.declared) => Backed(r2))
        /\ \A o \in Facts(r2) : \/ o \in Facts(r1)
                                \/ \E k \in DOMAIN p.declared :
                                     /\ o.id = <<p.declared[k].type, p.declared[k].name>>
                                     /\ o.kind = "json_ld" /\ o.marks = {}
        /\ r2.errors = r1.errors /\ (r2.partial <=> r1.partial) /\ (r2.blocked <=> r1.blocked)
    BY <2>1, <2>2, <2>3, EntitiesHeld
  <2> HIDE DEF r2
  <2>5. IsPlain(p, r2)
    BY <1>3, <1>4, <2>4 DEF IsPlain
  <2> QED BY <1>4, <2>4, <2>5 DEF IsPlain, IdsOf
<1> HIDE DEF r2
<1>6. IsPlain(p, r3) /\ ~r3.blocked /\ IdsOf(r3) \subseteq IdsOf(r2) \cup {<<"page_metadata", "page">>}
  <2>1. "page_metadata" \in EntityTypes /\ "page" \in Names /\ "page_metadata" \in Kinds \ {"web_page"}
    BY DEF EntityTypes, Names, OwnNames, Kinds
  <2>2. <<"page_metadata", "page">> \notin IdsOf(r2)
    BY <1>2, <1>5 DEF PageId, OwnNames
  <2> QED BY <1>1, <1>5, <2>1, <2>2, PlainGrows DEF Metadata
<1> HIDE DEF r3
<1>7. /\ IsPlain(p, r4) /\ ~r4.blocked
      /\ IdsOf(r4) \subseteq IdsOf(r3) \cup {<<"review", "section">>, <<"publication", "section">>}
  <2>1. "section" \in Names /\ "microformat" \in Kinds \ {"web_page"}
    BY DEF Names, OwnNames, Kinds
  <2>2. <<p.section, "section">> \notin IdsOf(r3)
    BY <1>2, <1>5, <1>6 DEF PageId, OwnNames
  <2>3. CASE p.section = "none"
    <3>1. r4 = r3
      <4>1. Microformats(p) = <<>>
        BY <2>3 DEF Microformats, If
      <4> QED BY <1>6, <4>1, AddsNone DEF IsPlain, Held
    <3> QED BY <1>6, <3>1
  <2>4. CASE p.section # "none"
    <3>1. p.section \in EntityTypes
      BY <1>1, <2>4 DEF EntityTypes, SchemaTypes
    <3>2. PICK has \in BOOLEAN : has = TRUE
      OBVIOUS
    <3>3. Microformats(p) = If(has, <<Obs(p.section, "section", "microformat", has)>>)
      BY <2>4, <3>2 DEF Microformats
    <3>4. r4 = With(r3, If(has, <<Obs(p.section, "section", "microformat", has)>>))
      BY <3>3
    <3> HIDE DEF r4
    <3>5. /\ IsPlain(p, r4) /\ (r4.blocked <=> r3.blocked) /\ IdsOf(r4) \subseteq IdsOf(r3) \cup {<<p.section, "section">>}
      BY <1>6, <2>1, <2>2, <3>1, <3>4, PlainGrows
    <3> QED BY <1>1, <1>6, <2>4, <3>5
  <2> QED BY <2>3, <2>4
<1> HIDE DEF r4
<1>8. IsPlain(p, r5) /\ ~r5.blocked /\ IdsOf(r5) \subseteq IdsOf(r4) \cup {<<"dataset", "table">>}
  <2>1. "dataset" \in EntityTypes /\ "table" \in Names /\ "html_table" \in Kinds \ {"web_page"}
    BY DEF EntityTypes, SchemaTypes, Names, OwnNames, Kinds
  <2>2. <<"dataset", "table">> \notin IdsOf(r4)
    BY <1>2, <1>5, <1>6, <1>7 DEF PageId, OwnNames
  <2> QED BY <1>1, <1>7, <2>1, <2>2, PlainGrows DEF Tables
<1> HIDE DEF r5
<1>9. \A id \in IdsOf(r5) : id \in own \/ \E k \in DOMAIN p.declared : id[2] = p.declared[k].name
  BY <1>5, <1>6, <1>7, <1>8
<1>10. /\ IsPlain(p, r6) /\ ~r6.blocked
       /\ \A id \in IdsOf(r6) : id \in IdsOf(r5) \/ \E k \in DOMAIN p.items : id[2] = p.items[k].name
  <2>1. r6 = Typed(With(r5, RawOf(p.items, "microdata")), Len(r5.seen), p.items)
    BY DEF WithMicrodata, RawItems, RawOf
  <2>2. \A k \in DOMAIN p.items, o \in Facts(r5) : o.id[2] # p.items[k].name
    <3> TAKE k \in DOMAIN p.items, o \in Facts(r5)
    <3>1. o.id \in own \/ \E i \in DOMAIN p.declared : o.id[2] = p.declared[i].name
      BY <1>9 DEF IdsOf
    <3>2. o.id \in own => o.id[2] \in OwnNames
      BY DEF PageId, OwnNames
    <3> QED BY <1>2, <3>1, <3>2
  <2>3. "microdata" \in Kinds /\ p.items \in Declared \cup Items /\ Held(r5)
    BY <1>1, <1>8 DEF Kinds, IsPlain
  <2>4. /\ Held(r6) /\ (Backed(r5) /\ ~TwinsIn(p.items) => Backed(r6))
        /\ \A o \in Facts(r6) : \/ o \in Facts(r5)
                                \/ \E k \in DOMAIN p.items :
                                     /\ o.id = <<p.items[k].type, p.items[k].name>>
                                     /\ o.kind = "microdata" /\ o.marks = {}
        /\ r6.errors = r5.errors /\ (r6.partial <=> r5.partial) /\ (r6.blocked <=> r5.blocked)
    BY <2>1, <2>2, <2>3, EntitiesHeld
  <2> HIDE DEF r6
  <2>5. IsPlain(p, r6)
    BY <1>3, <1>8, <2>4 DEF IsPlain
  <2> QED BY <1>8, <2>4, <2>5 DEF IdsOf
<1>11. SemanticResult(p) = r6
  BY DEF SemanticResult, PageResult, r5, r4, r3, r2, r1
<1> HIDE DEF r6
<1>12. \A id \in IdsOf(r6) : id[2] \in {"page", "section", "table"} \cup Declares
  <2>1. \A id \in own : id[2] \in {"page", "section", "table"}
    BY DEF PageId
  <2> HIDE DEF own
  <2> QED BY <1>2, <1>9, <1>10, <2>1
<1> QED BY <1>10, <1>11, <1>12

\* The changes since the capture before it, whatever it is a capture of.
LEMMA TimelineIsPlain ==
    ASSUME NEW p, NEW r, IsPlain(p, r), NEW t \in VisitTasks, <<"historical_change", "change">> \notin IdsOf(r)
    PROVE  LET q == Timeline(t, r)
           IN /\ IsPlain(p, q) /\ (q.blocked <=> r.blocked)
              /\ IdsOf(q) \subseteq IdsOf(r) \cup {<<"historical_change", "change">>}
<1> DEFINE q == Timeline(t, r)
<1>1. CASE t.capture = "none" \/ t.changes = "none"
  BY <1>1 DEF Timeline
<1>2. CASE ~(t.capture = "none" \/ t.changes = "none")
  <2>1. PICK all \in BOOLEAN : all = TRUE
    OBVIOUS
  <2> DEFINE a == With(r, If(all, <<Obs("historical_change", "change", "historical_change", all)>>))
  <2>2. "historical_change" \in EntityTypes /\ "change" \in Names /\ "historical_change" \in Kinds \ {"web_page"}
    BY DEF EntityTypes, Names, OwnNames, Kinds
  <2>3. /\ IsPlain(p, a) /\ (a.blocked <=> r.blocked)
        /\ IdsOf(a) \subseteq IdsOf(r) \cup {<<"historical_change", "change">>}
    BY <2>2, PlainGrows
  <2>4. q = Cut(a, t.changes = "more", "change budget")
    BY <1>2, <2>1 DEF Timeline, If
  <2> HIDE DEF a, q
  <2>5. PICK short \in BOOLEAN : short = (t.changes = "more")
    OBVIOUS
  <2>6. q = Cut(a, short, "change budget") /\ "change budget" \in Codes
    BY <2>4, <2>5 DEF Codes
  <2>7. IsPlain(p, q) /\ IdsOf(q) = IdsOf(a) /\ (q.blocked <=> a.blocked)
    BY <2>3, <2>6, PlainCut
  <2> QED BY <2>3, <2>7 DEF q
<1> QED BY <1>1, <1>2

\* What is plain is sound, if it may be the result of its response.
LEMMA PlainIsSound ==
    ASSUME NEW p, NEW r, IsPlain(p, r), p.media = "html" => ~r.blocked /\ <<"publication", "article">> \notin IdsOf(r)
    PROVE  IsSound(p, r)
BY DEF IsPlain, IsSound

\* What a page shows and what has changed since its last capture are added to it.
LEMMA HtmlIsSound ==
    ASSUME NEW p \in HtmlPages, NEW t \in VisitTasks
    PROVE  IsSound(p, Timeline(t, Images(p, SemanticResult(p))))
<1> DEFINE r  == SemanticResult(p)
           q  == Images(p, r)
           z  == Timeline(t, q)
<1>1. /\ IsPlain(p, r) /\ ~r.blocked
      /\ \A id \in IdsOf(r) : id[2] \in {"page", "section", "table"} \cup Declares
  BY PageIsPlain
<1>2. \A name \in Declares : name \notin OwnNames
  BY ExtractionAssumption DEF ExtractionAssumption, Declares
<1>3. /\ <<"image", "image">> \notin IdsOf(r) /\ <<"historical_change", "change">> \notin IdsOf(r)
      /\ <<"publication", "article">> \notin IdsOf(r)
  BY <1>1, <1>2 DEF OwnNames
<1>4. p.images \in Amount /\ t.changes \in Amount
  BY DEF HtmlPages, VisitTasks
<1> HIDE DEF r
<1>5. PICK none \in BOOLEAN : none = FALSE
  OBVIOUS
<1>6. PICK all \in BOOLEAN : all = TRUE
  OBVIOUS
<1>7. IsPlain(p, q) /\ ~q.blocked /\ IdsOf(q) \subseteq IdsOf(r) \cup {<<"image", "image">>}
  <2>1. CASE p.images = "none"
    BY <1>1, <2>1 DEF Images
  <2>2. CASE p.images # "none"
    <3> DEFINE a == With(r, If(all, <<Obs("image", "image", "image_reference", none)>>))
    <3>1. "image" \in EntityTypes /\ "image" \in Names /\ "image_reference" \in Kinds \ {"web_page"}
      BY DEF EntityTypes, Names, OwnNames, Kinds
    <3>2. IsPlain(p, a) /\ (a.blocked <=> r.blocked) /\ IdsOf(a) \subseteq IdsOf(r) \cup {<<"image", "image">>}
      BY <1>1, <1>3, <3>1, PlainGrows
    <3>3. q = Cut(a, p.images = "more", "image limit")
      BY <1>5, <1>6, <2>2 DEF Images, If
    <3> HIDE DEF a, q
    <3>4. PICK short \in BOOLEAN : short = (p.images = "more")
      OBVIOUS
    <3>5. q = Cut(a, short, "image limit") /\ "image limit" \in Codes
      BY <3>3, <3>4 DEF Codes
    <3>6. IsPlain(p, q) /\ IdsOf(q) = IdsOf(a) /\ (q.blocked <=> a.blocked)
      BY <3>2, <3>5, PlainCut
    <3> QED BY <1>1, <3>2, <3>6
  <2> QED BY <2>1, <2>2
<1> HIDE DEF q
<1>8. IsPlain(p, z) /\ ~z.blocked /\ IdsOf(z) \subseteq IdsOf(q) \cup {<<"historical_change", "change">>}
  BY <1>3, <1>7, TimelineIsPlain
<1> QED BY <1>3, <1>7, <1>8, PlainIsSound DEF q, r

LEMMA NothingIs == Nothing \in Result /\ Nothing.seen = <<>> /\ Nothing.evidence = {} /\ Nothing.errors = {}
<1>1. Nothing.evidence = {}
  BY DEF Nothing
<1> QED BY <1>1, NothingHeld DEF Held

\* A response that the site has blocked.
LEMMA BlockedIsSound ==
    ASSUME NEW t \in VisitTasks
    PROVE  IsSound(Blocked, Timeline(t, [Nothing EXCEPT !.blocked = TRUE]))
<1> DEFINE r == [Nothing EXCEPT !.blocked = TRUE]
<1>1. /\ r \in Result /\ r.seen = <<>> /\ r.evidence = {} /\ r.errors = {}
  <2>1. PICK yes \in BOOLEAN : yes = TRUE
    OBVIOUS
  <2>2. r = [Nothing EXCEPT !.blocked = yes]
    BY <2>1
  <2> QED BY <2>2, NothingIs DEF Result
<1> HIDE DEF r
<1>2. Facts(r) = {}
  BY <1>1 DEF Facts
<1>3. IsPlain(Blocked, r) /\ IdsOf(r) = {}
  BY <1>1, <1>2 DEF IsPlain, Held, Grounded, Alike, Backed, IdsOf
<1>4. IsPlain(Blocked, Timeline(t, r))
  BY <1>3, TimelineIsPlain
<1>5. Blocked.media # "html"
  BY DEF Blocked
<1> QED BY <1>4, <1>5, PlainIsSound DEF r

(***************************************************************************)
(* Documents and feeds.                                                    *)
(***************************************************************************)
LEMMA RefusedIsSound ==
    ASSUME NEW p, p.media # "html", NEW codes \in SUBSET Codes
    PROVE  /\ IsSound(p, Refused(codes)) /\ Facts(Refused(codes)) = {}
           /\ IsSound(p, [Refused(codes) EXCEPT !.partial = TRUE])
           /\ Facts([Refused(codes) EXCEPT !.partial = TRUE]) = {}
<1> DEFINE r == Refused(codes)
           q == [Refused(codes) EXCEPT !.partial = TRUE]
<1>1. r \in Result /\ r.seen = <<>> /\ r.evidence = {}
  BY NothingIs DEF Refused, Result
<1> HIDE DEF r
<1>2. q \in Result /\ q.seen = <<>> /\ q.evidence = {}
  <2>1. PICK yes \in BOOLEAN : yes = TRUE
    OBVIOUS
  <2>2. q = [r EXCEPT !.partial = yes]
    BY <2>1 DEF r
  <2> QED BY <1>1, <2>2 DEF Result
<1> HIDE DEF q
<1>3. Facts(r) = {} /\ Facts(q) = {}
  BY <1>1, <1>2 DEF Facts
<1>4. IsSound(p, r)
  BY <1>1, <1>3 DEF IsSound, Held, Grounded, Alike, Backed
<1>5. IsSound(p, q)
  BY <1>2, <1>3 DEF IsSound, Held, Grounded, Alike, Backed
<1> QED BY <1>3, <1>4, <1>5 DEF r, q

\* One observation for the whole of a document.
LEMMA WholeIsPlain ==
    ASSUME NEW p, NEW type \in EntityTypes, NEW kind \in Kinds \ {"web_page"}, NEW errors \in SUBSET Codes
    PROVE  LET r == Whole(type, kind, errors)
           IN /\ IsPlain(p, r) /\ ~r.blocked /\ IdsOf(r) = {<<type, "page">>}
<1> DEFINE r == Whole(type, kind, errors)
<1>1. PICK text \in BOOLEAN : text = TRUE
  OBVIOUS
<1> DEFINE o == Obs(type, "page", kind, text)
           a == With(Nothing, <<o>>)
<1>2. r = [a EXCEPT !.errors = errors, !.partial = errors # {}]
  BY <1>1 DEF Whole
<1>3. "page" \in Names
  BY DEF Names, OwnNames
<1>4. Held(Nothing) /\ Backed(Nothing) /\ <<type, "page">> \notin IdsOf(Nothing) /\ Facts(Nothing) = {} /\ IdsOf(Nothing) = {}
      /\ ~Nothing.blocked
  BY NothingHeld DEF IdsOf
<1>5. /\ Held(a) /\ Backed(a) /\ Facts(a) = Facts(Nothing) \cup {o} /\ IdsOf(a) = IdsOf(Nothing) \cup {<<type, "page">>}
      /\ (a.blocked <=> Nothing.blocked)
  <2>1. kind \in Kinds
    OBVIOUS
  <2>2. /\ Held(a) /\ (Backed(Nothing) => Backed(a)) /\ Facts(a) = Facts(Nothing) \cup {o}
        /\ IdsOf(a) = IdsOf(Nothing) \cup {<<type, "page">>} /\ (a.blocked <=> Nothing.blocked)
    <3>1. a = With(Nothing, <<Obs(type, "page", kind, text)>>) /\ o = Obs(type, "page", kind, text)
      OBVIOUS
    <3>2. Held(Nothing) /\ Backed(Nothing) /\ <<type, "page">> \notin IdsOf(Nothing)
      BY <1>4
    <3> HIDE DEF a, o
    <3> QED BY <1>3, <2>1, <3>1, <3>2, AddsOne
  <2> QED BY <1>4, <2>2
<1>6. o.kind # "web_page" /\ o.marks = {}
  BY DEF Obs
<1> HIDE DEF r, a, o
<1>7. a \in Result
  BY <1>5 DEF Held
<1>8. /\ r \in Result /\ r.seen = a.seen /\ r.evidence = a.evidence /\ r.errors = errors
      /\ (r.partial <=> errors # {})
  <2>1. PICK piece \in BOOLEAN : piece = (errors # {})
    OBVIOUS
  <2>2. r = [a EXCEPT !.errors = errors, !.partial = piece]
    BY <1>2, <2>1
  <2> QED BY <1>7, <2>1, <2>2 DEF Result
<1>9. r.blocked <=> a.blocked
  BY <1>2, <1>7 DEF Result
<1>10. Facts(r) = Facts(a)
  BY <1>8 DEF Facts
<1>11. IsPlain(p, r)
  BY <1>4, <1>5, <1>6, <1>8, <1>10 DEF IsPlain, Held, Grounded, Alike, Backed
<1> QED BY <1>4, <1>5, <1>9, <1>10, <1>11 DEF r, IdsOf

\* A document as it is before its points are read.
Read(p, r) == /\ IsSound(p, r) /\ (IsPlain(p, r) \/ Facts(r) = {})
              /\ \A id \in IdsOf(r) : id[2] = "page"

LEMMA WholeIsRead ==
    ASSUME NEW p, p.media # "html", NEW type \in EntityTypes, NEW kind \in Kinds \ {"web_page"},
           NEW errors \in SUBSET Codes
    PROVE  Read(p, Whole(type, kind, errors))
<1> DEFINE r == Whole(type, kind, errors)
<1>1. IsPlain(p, r) /\ IdsOf(r) = {<<type, "page">>}
  BY WholeIsPlain
<1> HIDE DEF r
<1>2. IsSound(p, r)
  BY <1>1, PlainIsSound
<1> QED BY <1>1, <1>2 DEF Read, r

LEMMA RefusedIsRead ==
    ASSUME NEW p, p.media # "html", NEW codes \in SUBSET Codes
    PROVE  Read(p, Refused(codes)) /\ Read(p, [Refused(codes) EXCEPT !.partial = TRUE])
BY RefusedIsSound DEF Read, IdsOf

LEMMA ParsedIsRead ==
    ASSUME NEW p, p.media # "html"
    PROVE  /\ ParseErrors(p) \in SUBSET Codes
           /\ Read(p, PdfResult(p)) /\ Read(p, StructuredResult(p)) /\ Read(p, OfficeFileResult)
<1>1. ParseErrors(p) \in SUBSET Codes
  BY DEF ParseErrors, Codes
<1>2. /\ "document" \in EntityTypes /\ "dataset" \in EntityTypes /\ {"format not parsed"} \in SUBSET Codes
      /\ "pdf_document" \in Kinds \ {"web_page"} /\ "structured_data" \in Kinds \ {"web_page"}
      /\ "office_document_file" \in Kinds \ {"web_page"}
  BY DEF EntityTypes, SchemaTypes, Kinds, Codes
<1>3. Read(p, PdfResult(p))
  BY <1>1, <1>2, WholeIsRead DEF PdfResult
<1>4. Read(p, StructuredResult(p))
  BY <1>1, <1>2, WholeIsRead DEF StructuredResult
<1>5. Read(p, OfficeFileResult)
  BY <1>1, <1>2, WholeIsRead DEF OfficeFileResult
<1> QED BY <1>1, <1>3, <1>4, <1>5

\* What Office stores is retagged with its evidence.
LEMMA RetaggedIsRead ==
    ASSUME NEW p, p.media # "html"
    PROVE  Read(p, Retagged(StructuredResult(p)))
<1> DEFINE errors == ParseErrors(p)
           s == StructuredResult(p)
           t == Retyped(s, 1, "document")
           r == Retagged(s)
           old == <<"dataset", "page">>
           new == <<"document", "page">>
<1>1. errors \in SUBSET Codes
  BY ParsedIsRead
<1> HIDE DEF errors
<1>2. PICK yes \in BOOLEAN : yes = TRUE
  OBVIOUS
<1>3. PICK piece \in BOOLEAN : piece = (errors # {})
  OBVIOUS
<1> DEFINE o == [id |-> old, kind |-> "structured_data", text |-> yes, marks |-> {}]
           v == [of |-> old, name |-> "page", marks |-> {}]
<1>4. /\ s.seen = <<o>> /\ s.evidence = {v} /\ s.errors = errors /\ s.partial = piece
      /\ s = [seen |-> <<o>>, evidence |-> {v}, errors |-> errors, partial |-> piece, blocked |-> s.blocked]
      /\ s.blocked \in BOOLEAN
  <2>1. s = [With(Nothing, <<o>>) EXCEPT !.errors = errors, !.partial = piece]
    BY <1>2, <1>3 DEF StructuredResult, Whole, Obs, errors
  <2>2. <<>> \o <<o>> = <<o>>
    <3> HIDE DEF o
    <3> QED OBVIOUS
  <2>3. {Ev(<<o>>[i]) : i \in DOMAIN <<o>>} = {v}
    <3>1. Ev(o) = v
      BY DEF Ev
    <3> HIDE DEF o, v
    <3> QED BY <3>1
  <2> HIDE DEF o, v, s
  <2>4. With(Nothing, <<o>>) = [Nothing EXCEPT !.seen = <<o>>, !.evidence = {v}]
    BY <2>2, <2>3, NothingIs DEF With
  <2>5. Nothing \in Result
    BY NothingIs
  <2> QED BY <2>1, <2>4, <2>5 DEF Result
<1> HIDE DEF s
<1> DEFINE o1 == [o EXCEPT !.id = new]
           o2 == [o1 EXCEPT !.kind = "office_document"]
           v1 == [v EXCEPT !.of = new]
<1>5. t = [s EXCEPT !.seen = <<o1>>, !.evidence = {v1}]
  <2> DEFINE d == s.seen[1]
             fresh == <<"document", d.id[2]>>
             to(w) == IF w.of = d.id THEN [w EXCEPT !.of = fresh] ELSE w
             turned == {to(w) : w \in s.evidence}
             mid == [s.seen EXCEPT ![1] = [d EXCEPT !.id = fresh]]
  <2>1. t = [s EXCEPT !.seen = mid, !.evidence = turned]
    <3>1. [s EXCEPT !.seen[1].id = fresh, !.evidence = turned] = [s EXCEPT !.seen = mid, !.evidence = turned]
      OBVIOUS
    <3> QED BY <3>1 DEF Retyped
  <2>2. d = o /\ d.id = old /\ fresh = new
    BY <1>4
  <2>3. to(v) = v1
    BY <2>2
  <2> HIDE DEF to, d, fresh, v, v1, t
  <2>4. turned = {v1}
    BY <1>4, <2>3
  <2>5. mid = <<o1>>
    <3> HIDE DEF old, new
    <3>1. [d EXCEPT !.id = fresh] = o1
      <4> HIDE DEF o
      <4> QED BY <2>2
    <3> HIDE DEF o1, o
    <3> QED BY <1>4, <3>1
  <2> HIDE DEF turned, mid, o1
  <2> QED BY <2>1, <2>4, <2>5
<1>6. r = [s EXCEPT !.seen = <<o2>>, !.evidence = {v1}]
  <2>1. [t.seen EXCEPT ![1].kind = "office_document"] = <<o2>>
    <3>1. t.seen = <<o1>>
      <4> HIDE DEF o1, v1
      <4> QED BY <1>4, <1>5
    <3> HIDE DEF o1
    <3> QED BY <3>1
  <2>2. r = [t EXCEPT !.seen = [t.seen EXCEPT ![1].kind = "office_document"]]
    <3> HIDE DEF o, o1, o2, v, v1
    <3> QED BY <1>4, <1>5 DEF Retagged
  <2> HIDE DEF o1, o2, v1, t
  <2> QED BY <1>4, <1>5, <2>1, <2>2
<1>7. /\ o2.id = new /\ o2.kind = "office_document" /\ o2.marks = {} /\ o2 \in Observation
      /\ v1.of = new /\ v1.marks = {} /\ v1 \in Evidence
  <2>1. /\ "document" \in EntityTypes /\ "page" \in Names /\ "office_document" \in Kinds
    BY DEF EntityTypes, Names, OwnNames, Kinds
  <2>2. o2 = [id |-> new, kind |-> "office_document", text |-> yes, marks |-> {}]
    <3> HIDE DEF new, old
    <3>1. o1 = [id |-> new, kind |-> "structured_data", text |-> yes, marks |-> {}]
      OBVIOUS
    <3> HIDE DEF o1
    <3> QED BY <3>1
  <2>3. v1 = [of |-> new, name |-> "page", marks |-> {}]
    OBVIOUS
  <2> HIDE DEF o2, v1
  <2> QED BY <2>1, <2>2, <2>3 DEF Observation, Evidence
<1> HIDE DEF o2, v1, r
<1>8. /\ r.seen = <<o2>> /\ r.evidence = {v1} /\ r.errors = errors /\ r.partial = piece /\ r \in Result
  <2>1. r = [seen |-> <<o2>>, evidence |-> {v1}, errors |-> errors, partial |-> piece, blocked |-> s.blocked]
    BY <1>4, <1>6
  <2>2. <<o2>> \in Seq(Observation) /\ {v1} \in SUBSET Evidence
    BY <1>7
  <2> QED BY <1>1, <1>4, <2>1, <2>2 DEF Result
<1>9. Facts(r) = {o2}
  BY <1>8 DEF Facts
<1>10. IsPlain(p, r) /\ IdsOf(r) = {new}
  BY <1>3, <1>7, <1>8, <1>9 DEF IsPlain, Held, Grounded, Alike, Backed, IdsOf
<1>11. IsSound(p, r)
  BY <1>10, PlainIsSound
<1>12. Read(p, r)
  BY <1>10, <1>11 DEF Read
<1> QED BY <1>12 DEF r, s

\* A point is added to a document that was parsed.
LEMMA PointAdded ==
    ASSUME NEW p, p.media # "html", NEW r, IsPlain(p, r), <<"place", "point">> \notin IdsOf(r),
           NEW kind \in Kinds \ {"web_page"}, NEW short \in BOOLEAN, NEW code \in Codes
    PROVE  LET q == With(r, <<Obs("place", "point", kind, FALSE)>>)
           IN IsSound(p, q) /\ IsSound(p, Cut(q, short, code))
<1> DEFINE q == With(r, <<Obs("place", "point", kind, FALSE)>>)
<1>1. PICK all \in BOOLEAN : all = TRUE
  OBVIOUS
<1>2. PICK none \in BOOLEAN : none = FALSE
  OBVIOUS
<1>3. q = With(r, If(all, <<Obs("place", "point", kind, none)>>))
  BY <1>1, <1>2 DEF If
<1>4. "place" \in EntityTypes /\ "point" \in Names
  BY DEF EntityTypes, SchemaTypes, Names, OwnNames
<1> HIDE DEF q
<1>5. IsPlain(p, q)
  BY <1>3, <1>4, PlainGrows
<1>6. IsPlain(p, Cut(q, short, code))
  BY <1>5, PlainCut
<1> QED BY <1>5, <1>6, PlainIsSound DEF q

LEMMA PointsAreSound ==
    ASSUME NEW p \in Documents, NEW r, Read(p, r)
    PROVE  IsSound(p, KmlPoints(p, r)) /\ IsSound(p, KmlPoints(p, GeoJsonPoints(p, r)))
<1>1. p.media # "html"
  BY DEF Documents
<1>2. IsSound(p, r) /\ <<"place", "point">> \notin IdsOf(r)
  BY DEF Read
<1>3. HasDataset(p, r) => IsPlain(p, r)
  BY DEF HasDataset, Read
<1>4. /\ "kml_point" \in Kinds \ {"web_page"} /\ "geojson_point" \in Kinds \ {"web_page"}
      /\ "placemark limit" \in Codes
  BY DEF Kinds, Codes
<1>5. IsSound(p, KmlPoints(p, r))
  <2>1. CASE HasDataset(p, r) /\ p.points \in {"kml", "more kml"}
    <3>1. PICK short \in BOOLEAN : short = (p.points = "more kml")
      OBVIOUS
    <3>2. KmlPoints(p, r) = Cut(With(r, <<Obs("place", "point", "kml_point", FALSE)>>), short, "placemark limit")
      BY <2>1, <3>1 DEF KmlPoints
    <3> QED BY <1>1, <1>2, <1>3, <1>4, <2>1, <3>2, PointAdded
  <2>2. CASE ~(HasDataset(p, r) /\ p.points \in {"kml", "more kml"})
    BY <1>2, <2>2 DEF KmlPoints
  <2> QED BY <2>1, <2>2
<1>6. IsSound(p, KmlPoints(p, GeoJsonPoints(p, r)))
  <2>1. CASE p.points = "geojson"
    <3>1. IsSound(p, GeoJsonPoints(p, r))
      <4>1. CASE HasDataset(p, r)
        <5>1. GeoJsonPoints(p, r) = With(r, <<Obs("place", "point", "geojson_point", FALSE)>>)
          BY <2>1, <4>1 DEF GeoJsonPoints
        <5>2. PICK short \in BOOLEAN : TRUE
          OBVIOUS
        <5> QED BY <1>1, <1>2, <1>3, <1>4, <4>1, <5>1, PointAdded
      <4>2. CASE ~HasDataset(p, r)
        BY <1>2, <4>2 DEF GeoJsonPoints
      <4> QED BY <4>1, <4>2
    <3>2. KmlPoints(p, GeoJsonPoints(p, r)) = GeoJsonPoints(p, r)
      BY <2>1 DEF KmlPoints
    <3> QED BY <3>1, <3>2
  <2>2. CASE p.points # "geojson"
    <3>1. GeoJsonPoints(p, r) = r
      BY <2>2 DEF GeoJsonPoints
    <3> QED BY <1>5, <3>1
  <2> QED BY <2>1, <2>2
<1> QED BY <1>5, <1>6

LEMMA FormatIsSound ==
    ASSUME NEW p \in Documents
    PROVE  IsSound(p, FormatResult(p))
<1>1. p.media # "html" /\ p.media \in {"pdf", "structured", "docx", "xls", "gzip", "kmz"}
  BY DEF Documents
<1>2. /\ Read(p, PdfResult(p)) /\ Read(p, StructuredResult(p)) /\ Read(p, OfficeFileResult)
      /\ Read(p, Retagged(StructuredResult(p)))
  BY <1>1, ParsedIsRead, RetaggedIsRead
<1>3. /\ Read(p, Refused({"body unavailable"}))
      /\ Read(p, [Refused({"body unavailable"}) EXCEPT !.partial = TRUE])
  <2>1. {"body unavailable"} \in SUBSET Codes
    BY DEF Codes
  <2> QED BY <1>1, <2>1, RefusedIsRead
<1>4. Read(p, DocumentResult(p)) /\ Read(p, OfficeResult(p)) /\ Read(p, GzipResult(p))
  <2> DEFINE refused == Refused({"body unavailable"})
             partial == [Refused({"body unavailable"}) EXCEPT !.partial = TRUE]
  <2>1. DocumentResult(p) \in {refused, PdfResult(p), StructuredResult(p)}
    BY DEF DocumentResult
  <2>2. OfficeResult(p) \in {partial, OfficeFileResult, Retagged(StructuredResult(p))}
    BY DEF OfficeResult
  <2>3. GzipResult(p) \in {partial, StructuredResult(p)}
    BY DEF GzipResult
  <2> HIDE DEF refused, partial
  <2> QED BY <1>2, <1>3, <2>1, <2>2, <2>3 DEF refused, partial
<1>5. IsSound(p, KmzResult(p))
  BY <1>4, PointsAreSound DEF KmzResult
<1>6. IsSound(p, OfficeResult(p))
  BY <1>4 DEF Read
<1>7. /\ IsSound(p, KmlPoints(p, GeoJsonPoints(p, GzipResult(p))))
      /\ IsSound(p, KmlPoints(p, GeoJsonPoints(p, DocumentResult(p))))
  BY <1>4, PointsAreSound
<1> QED BY <1>5, <1>6, <1>7 DEF FormatResult

\* A feed is refused or has its entries.
LEMMA FeedIsSound ==
    ASSUME NEW p \in Feeds
    PROVE  IsSound(p, RssResult(p)) /\ IsSound(p, JsonFeedResult(p))
<1>1. p.media # "html"
  BY DEF Feeds
<1>2. /\ IsSound(p, Refused({"invalid feed"})) /\ IsSound(p, Refused({"feed limit"}))
      /\ IsSound(p, [Refused({"feed limit"}) EXCEPT !.partial = TRUE])
  <2>1. {"invalid feed"} \in SUBSET Codes /\ {"feed limit"} \in SUBSET Codes
    BY DEF Codes
  <2> QED BY <1>1, <2>1, RefusedIsSound
<1>3. PICK all \in BOOLEAN : all = TRUE
  OBVIOUS
<1>4. PICK none \in BOOLEAN : none = FALSE
  OBVIOUS
<1>5. IsPlain(p, FeedEntry(p))
  <2>1. IsPlain(p, Nothing) /\ IdsOf(Nothing) = {}
    BY NothingHeld DEF IsPlain, IdsOf
  <2>2. "publication" \in EntityTypes /\ "entry" \in Names /\ "feed_entry" \in Kinds \ {"web_page"}
    BY DEF EntityTypes, SchemaTypes, Names, OwnNames, Kinds
  <2>3. FeedEntry(p) = With(Nothing, If(all, <<Obs("publication", "entry", "feed_entry", all)>>))
    BY <1>3 DEF FeedEntry, If
  <2>4. <<"publication", "entry">> \notin IdsOf(Nothing)
    BY <2>1
  <2> DEFINE q == With(Nothing, If(all, <<Obs("publication", "entry", "feed_entry", all)>>))
  <2>5. IsPlain(p, q)
    BY <2>1, <2>2, <2>4, PlainGrows
  <2> HIDE DEF q
  <2> QED BY <2>3, <2>5 DEF q
<1>6. /\ "feed truncated" \in Codes /\ "item limit" \in Codes /\ "invalid item" \in Codes
  BY DEF Codes
<1>7. IsSound(p, Cut(FeedEntry(p), p.parse = "cut", "feed truncated"))
  <2>1. PICK short \in BOOLEAN : short = (p.parse = "cut")
    OBVIOUS
  <2>2. IsPlain(p, Cut(FeedEntry(p), short, "feed truncated"))
    BY <1>5, <1>6, PlainCut
  <2> QED BY <1>1, <2>1, <2>2, PlainIsSound
<1>8. IsSound(p, Cut(Cut(FeedEntry(p), p.parse = "invalid item", "invalid item"), p.parse = "cut", "item limit"))
  <2>1. PICK short \in BOOLEAN : short = (p.parse = "cut")
    OBVIOUS
  <2>2. PICK bad \in BOOLEAN : bad = (p.parse = "invalid item")
    OBVIOUS
  <2>3. IsPlain(p, Cut(FeedEntry(p), bad, "invalid item"))
    BY <1>5, <1>6, PlainCut
  <2>4. IsPlain(p, Cut(Cut(FeedEntry(p), bad, "invalid item"), short, "item limit"))
    BY <1>6, <2>3, PlainCut
  <2> QED BY <1>1, <2>1, <2>2, <2>4, PlainIsSound
<1>9. IsSound(p, RssResult(p))
  BY <1>2, <1>7 DEF RssResult
<1>10. IsSound(p, JsonFeedResult(p))
  BY <1>2, <1>8 DEF JsonFeedResult
<1> QED BY <1>9, <1>10

\* Whatever the response is, what is made of it is sound.
LEMMA ExtractionIsSound ==
    ASSUME NEW p \in Responses, NEW t \in VisitTasks,
           p.media \notin {"html", "blocked"} => t.capture = "none"
    PROVE  IsSound(p, Extraction(p, t))
<1>1. CASE p = Blocked
  <2>1. Extraction(p, t) = Timeline(t, [Nothing EXCEPT !.blocked = TRUE])
    BY <1>1 DEF Extraction, Blocked, Documents
  <2> QED BY <1>1, <2>1, BlockedIsSound
<1>2. CASE p \in HtmlPages
  <2>1. p.media = "html"
    BY <1>2 DEF HtmlPages
  <2>2. Extraction(p, t) = Timeline(t, Images(p, SemanticResult(p)))
    <3>1. p # Blocked
      <4>1. Blocked.media = "blocked"
        BY DEF Blocked
      <4> QED BY <2>1, <4>1
    <3>2. p \notin Documents
      BY <2>1 DEF Documents
    <3> QED BY <2>1, <3>1, <3>2 DEF Extraction
  <2> QED BY <1>2, <2>2, HtmlIsSound
<1>3. CASE p \in Documents
  <2>1. p.media \in {"pdf", "structured", "docx", "xls", "gzip", "kmz"}
    BY <1>3 DEF Documents
  <2>2. Extraction(p, t) = Timeline(t, FormatResult(p))
    BY <1>3, <2>1 DEF Extraction, Blocked
  <2>3. Timeline(t, FormatResult(p)) = FormatResult(p)
    BY <2>1 DEF Timeline
  <2> QED BY <1>3, <2>2, <2>3, FormatIsSound
<1>4. CASE p \in Feeds
  <2>1. p.media \in {"rss", "json feed"}
    BY <1>4 DEF Feeds
  <2>2. Extraction(p, t) \in {RssResult(p), JsonFeedResult(p)}
    <3>1. p # Blocked
      <4>1. Blocked.media = "blocked"
        BY DEF Blocked
      <4> QED BY <2>1, <4>1
    <3>2. p \notin Documents
      BY <2>1 DEF Documents
    <3> QED BY <2>1, <3>1, <3>2 DEF Extraction
  <2> QED BY <1>4, <2>2, FeedIsSound
<1> QED BY <1>1, <1>2, <1>3, <1>4 DEF Responses

(***************************************************************************)
(* What is delivered.                                                      *)
(***************************************************************************)
\* What ExtractionIsHonest says of a result.
Honest(p, t, r) ==
    LET messages == {o \in Facts(r) : Candidate(o)}
        plain    == p.media = "html" /\ ~t.onMap
    IN /\ Twins(p) \/ Backed(r)
       /\ Grounded(r)
       /\ CoverageOf(r) = "ok" => r.errors = {}
       /\ plain /\ t.shell => messages = {}
       /\ plain /\ p.cards => \A o \in messages : o.kind # "web_page"
       /\ \A o, m \in messages : o.kind = "web_page" => m = o

\* A result of which something may be marked.
IsStored(p, r) ==
    /\ Held(r) /\ (Twins(p) \/ Backed(r))
    /\ r.errors # {} => r.partial \/ (r.seen = <<>> /\ p.media # "html")
    /\ \A o \in Facts(r) : o.kind = "web_page" => o.id = PageId /\ p.media = "html"

LEMMA StoredShows ==
    ASSUME NEW p, NEW r, IsStored(p, r)
    PROVE  /\ Twins(p) \/ Backed(r)
           /\ Grounded(r)
           /\ CoverageOf(r) = "ok" => r.errors = {}
BY DEF IsStored, Held, CoverageOf

\* A mark leaves it stored, and what has it is no candidate.
LEMMA MarkedIsStored ==
    ASSUME NEW p, NEW r, IsStored(p, r), NEW mark \in Marks, NEW which \in SUBSET Facts(r)
    PROVE  LET q == Marked(r, mark, which)
           IN /\ IsStored(p, q) /\ (q.blocked <=> r.blocked) /\ IdsOf(q) = IdsOf(r)
              /\ \A m \in Facts(q) : /\ ~Candidate(m) \/ (m \in Facts(r) /\ m \notin which)
                                     /\ \E o \in Facts(r) : m.id = o.id /\ m.kind = o.kind
<1> DEFINE q == Marked(r, mark, which)
           to(o) == IF o \in which THEN Flagged(o, mark) ELSE o
<1>1. /\ Held(q) /\ (Backed(r) => Backed(q))
      /\ Facts(q) = {to(o) : o \in Facts(r)} /\ IdsOf(q) = IdsOf(r)
      /\ (q.seen = <<>> <=> r.seen = <<>>)
      /\ q.errors = r.errors /\ (q.partial <=> r.partial) /\ (q.blocked <=> r.blocked)
  BY MarkedKeeps DEF IsStored
<1>2. Facts(r) \subseteq Observation
  BY ResultParts DEF IsStored, Held
<1>3. \A o \in Observation : /\ Flagged(o, mark).id = o.id /\ Flagged(o, mark).kind = o.kind
                             /\ mark \in Flagged(o, mark).marks
  BY DEF Flagged, Observation
<1>4. \A m : m.marks # {} => ~Candidate(m)
  BY DEF Candidate
<1> HIDE DEF q
<1>5. ASSUME NEW m \in Facts(q)
      PROVE  /\ ~Candidate(m) \/ (m \in Facts(r) /\ m \notin which)
             /\ \E o \in Facts(r) : m.id = o.id /\ m.kind = o.kind
  <2>1. PICK o \in Facts(r) : m = to(o)
    BY <1>1
  <2>2. CASE o \in which
    <3>1. m = Flagged(o, mark)
      BY <2>1, <2>2
    <3>2. m.marks # {}
      BY <1>2, <1>3, <3>1
    <3> QED BY <1>2, <1>3, <1>4, <3>1, <3>2
  <2>3. CASE o \notin which
    BY <2>1, <2>3
  <2> QED BY <2>2, <2>3
<1> HIDE DEF to
<1>6. IsStored(p, q)
  <2>1. \A m \in Facts(q) : m.kind = "web_page" => m.id = PageId /\ p.media = "html"
    BY <1>5 DEF IsStored
  <2> QED BY <1>1, <2>1 DEF IsStored
<1> QED BY <1>1, <1>5, <1>6 DEF q

LEMMA ArchivedIsStored ==
    ASSUME NEW p, NEW r, IsStored(p, r), NEW t
    PROVE  LET q == Archived(t, r)
           IN /\ IsStored(p, q) /\ (q.blocked <=> r.blocked) /\ IdsOf(q) = IdsOf(r)
              /\ \A m \in Facts(q) : Candidate(m) /\ m.kind = "web_page" =>
                   \E o \in Facts(r) : Candidate(o) /\ o.kind = "web_page"
<1> DEFINE q == Archived(t, r)
<1>1. /\ Held(q) /\ (Backed(r) => Backed(q)) /\ IdsOf(q) = IdsOf(r)
      /\ \A m \in Facts(q) : \E o \in Facts(r) :
           m.id = o.id /\ m.marks = o.marks /\ (m.text <=> o.text)
           /\ (m.kind = o.kind \/ m.kind = "historical_page_version")
      /\ (q.seen = <<>> <=> r.seen = <<>>)
      /\ q.errors = r.errors /\ (q.partial <=> r.partial) /\ (q.blocked <=> r.blocked)
  BY ArchivedKeeps DEF IsStored
<1> HIDE DEF q
<1>2. \A m \in Facts(q) : m.kind = "web_page" =>
        \E o \in Facts(r) : m.id = o.id /\ m.marks = o.marks /\ (m.text <=> o.text) /\ o.kind = "web_page"
  BY <1>1
<1>3. IsStored(p, q)
  BY <1>1, <1>2 DEF IsStored
<1>4. \A m \in Facts(q) : Candidate(m) /\ m.kind = "web_page" =>
        \E o \in Facts(r) : Candidate(o) /\ o.kind = "web_page"
  BY <1>2 DEF Candidate
<1> QED BY <1>1, <1>3, <1>4 DEF q

\* No page as a whole is given as a message.
NoPages(r) == \A m \in Facts(r) : Candidate(m) => m.kind # "web_page"

LEMMA WithoutPages ==
    ASSUME NEW p, NEW t, NEW r, IsStored(p, r), NoPages(r),
           p.media = "html" /\ ~t.onMap /\ t.shell => \A m \in Facts(r) : ~Candidate(m)
    PROVE  Honest(p, t, r)
<1>1. /\ Twins(p) \/ Backed(r)
      /\ Grounded(r)
      /\ CoverageOf(r) = "ok" => r.errors = {}
  BY StoredShows
<1> QED BY <1>1 DEF Honest, NoPages

\* The containers are not messages any more.
LEMMA SupersededHasNoPages ==
    ASSUME NEW p, NEW r, IsStored(p, r)
    PROVE  /\ IsStored(p, Superseded(r)) /\ NoPages(Superseded(r))
           /\ (Superseded(r).blocked <=> r.blocked) /\ IdsOf(Superseded(r)) = IdsOf(r)
<1> DEFINE which == {o \in Facts(r) : IsContainer(o)}
           q == Marked(r, "superseded", which)
<1>1. "superseded" \in Marks /\ which \in SUBSET Facts(r)
  BY DEF Marks
<1> HIDE DEF which
<1>2. /\ IsStored(p, q) /\ (q.blocked <=> r.blocked) /\ IdsOf(q) = IdsOf(r)
      /\ \A m \in Facts(q) : ~Candidate(m) \/ (m \in Facts(r) /\ m \notin which)
  BY <1>1, MarkedIsStored
<1>3. \A o \in Facts(r) : o.kind = "web_page" => o \in which
  BY DEF which, IsStored, IsContainer, PageId
<1> HIDE DEF q
<1>4. NoPages(q)
  BY <1>2, <1>3 DEF NoPages
<1>5. Superseded(r) = q
  BY DEF Superseded, q, which
<1> QED BY <1>2, <1>4, <1>5

\* Nothing of a navigation page is a message, and no atomic type.
LEMMA NavigationHasNone ==
    ASSUME NEW p, NEW r, IsStored(p, r)
    PROVE  /\ IsStored(p, NavigationOnly(r)) /\ \A m \in Facts(NavigationOnly(r)) : ~Candidate(m)
           /\ (NavigationOnly(r).blocked <=> r.blocked) /\ IdsOf(NavigationOnly(r)) = IdsOf(r)
<1> DEFINE which == {o \in Facts(r) : IsContainer(o) \/ o.id[1] \in AtomicTypes}
           q == Marked(r, "navigation", which)
<1>1. "navigation" \in Marks /\ which \in SUBSET Facts(r)
  BY DEF Marks
<1> HIDE DEF which
<1>2. /\ IsStored(p, q) /\ (q.blocked <=> r.blocked) /\ IdsOf(q) = IdsOf(r)
      /\ \A m \in Facts(q) : ~Candidate(m) \/ (m \in Facts(r) /\ m \notin which)
  BY <1>1, MarkedIsStored
<1>3. \A o \in Facts(r) : o.kind = "web_page" \/ o.id[1] \in AtomicTypes => o \in which
  BY DEF which, IsStored, IsContainer, PageId
<1>4. \A o : Candidate(o) => o.kind = "web_page" \/ o.id[1] \in AtomicTypes
  BY DEF Candidate
<1> HIDE DEF q
<1>5. \A m \in Facts(q) : ~Candidate(m)
  BY <1>2, <1>3, <1>4
<1>6. NavigationOnly(r) = q
  BY DEF NavigationOnly, q, which
<1> QED BY <1>2, <1>5, <1>6

\* A message of its own takes the place of the page.
LEMMA ArticleIsAdded ==
    ASSUME NEW p, p.media = "html", NEW r, IsStored(p, r), <<"publication", "article">> \notin IdsOf(r), NEW short \in BOOLEAN
    PROVE  LET q == Cut(Superseded(With(r, <<Obs("publication", "article", "html_atomic", TRUE)>>)), short, "article limit")
           IN IsStored(p, q) /\ NoPages(q)
<1>1. PICK all \in BOOLEAN : all = TRUE
  OBVIOUS
<1> DEFINE o == Obs("publication", "article", "html_atomic", all)
           a == With(r, <<o>>)
           s == Superseded(a)
           q == Cut(s, short, "article limit")
<1>2. /\ "publication" \in EntityTypes /\ "article" \in Names /\ "html_atomic" \in Kinds
      /\ "article limit" \in Codes
  BY DEF EntityTypes, SchemaTypes, Names, OwnNames, Kinds, Codes
<1>3. Held(r)
  BY DEF IsStored
<1>4. o.kind = "html_atomic"
  BY DEF Obs
<1>5. a = With(r, <<Obs("publication", "article", "html_atomic", all)>>) /\ o = Obs("publication", "article", "html_atomic", all)
  OBVIOUS
<1> HIDE DEF a, o
<1>6. Added(a, r, o, <<"publication", "article">>)
  BY <1>2, <1>3, <1>5, OneIsAdded
<1>9. IsStored(p, a)
  BY <1>4, <1>6 DEF IsStored, Added
<1>10. IsStored(p, s) /\ NoPages(s)
  BY <1>9, SupersededHasNoPages
<1> HIDE DEF s
<1>11. Held(s)
  BY <1>10 DEF IsStored
<1>12. Held(q) /\ (Backed(s) => Backed(q))
  BY <1>2, <1>11, CutKeeps
<1>13. Facts(q) = Facts(s) /\ q.seen = s.seen
  BY <1>2, <1>11, CutKeeps
<1>14. (s.partial => q.partial) /\ (q.errors = s.errors \/ q.partial)
  BY <1>2, <1>11, CutKeeps
<1> HIDE DEF q
<1>15. IsStored(p, q) /\ NoPages(q)
  BY <1>10, <1>12, <1>13, <1>14 DEF IsStored, NoPages
<1> QED BY <1>1, <1>15 DEF q, s, a, o

\* Outside of maps, messages of a page are its articles, and else the page.
LEMMA ArticlesAreHonest ==
    ASSUME NEW p \in HtmlPages, NEW t, NEW r, IsStored(p, r), <<"publication", "article">> \notin IdsOf(r),
           ~t.shell, ~\E o \in Facts(r) : o.id[1] \in AtomicTypes /\ o.text
    PROVE  Honest(p, t, Articles(p, r)) /\ Held(Articles(p, r))
<1> DEFINE listed == IF p.cards THEN NavigationOnly(r) ELSE r
           q == Articles(p, r)
<1>1. p.media = "html" /\ p.cards \in BOOLEAN
  BY DEF HtmlPages
<1>2. /\ IsStored(p, listed) /\ IdsOf(listed) = IdsOf(r)
      /\ p.cards => \A m \in Facts(listed) : ~Candidate(m)
      /\ ~p.cards => listed = r
  BY NavigationHasNone
<1> HIDE DEF listed
<1>3. CASE p.articles = "none"
  <2>1. q = listed
    BY <1>3 DEF Articles, listed
  <2>2. CASE p.cards
    <3>1. IsStored(p, listed) /\ \A m \in Facts(listed) : ~Candidate(m)
      BY <1>2, <2>2
    <3>2. NoPages(listed)
      BY <3>1 DEF NoPages
    <3>3. Honest(p, t, listed) /\ Held(listed)
      BY <3>1, <3>2, WithoutPages DEF IsStored
    <3> HIDE DEF q
    <3> QED BY <2>1, <3>3 DEF q
  <2>3. CASE ~p.cards
    <3>1. q = r
      BY <1>2, <2>1, <2>3
    <3>2. /\ Twins(p) \/ Backed(r)
          /\ Grounded(r)
          /\ CoverageOf(r) = "ok" => r.errors = {}
      BY StoredShows
    <3>3. \A o \in Facts(r) : Candidate(o) => o.kind = "web_page"
      BY DEF Candidate
    <3>4. \A o, m \in Facts(r) : Candidate(o) /\ Candidate(m) => m = o
      BY <3>3 DEF IsStored, Held, Alike
    <3>5. Honest(p, t, r) /\ Held(r)
      BY <2>3, <3>2, <3>4 DEF Honest, IsStored
    <3> HIDE DEF q
    <3>6. Honest(p, t, q) /\ Held(q)
      BY <3>1, <3>5
    <3> QED BY <3>6 DEF q
  <2> QED BY <2>2, <2>3
<1>4. CASE p.articles # "none"
  <2>1. PICK short \in BOOLEAN : short = (p.articles = "more")
    OBVIOUS
  <2>2. q = Cut(Superseded(With(listed, <<Obs("publication", "article", "html_atomic", TRUE)>>)), short, "article limit")
    BY <1>4, <2>1 DEF Articles, listed
  <2> HIDE DEF q
  <2>3. <<"publication", "article">> \notin IdsOf(listed)
    BY <1>2
  <2>11. IsStored(p, q) /\ NoPages(q)
    BY <1>1, <1>2, <2>2, <2>3, ArticleIsAdded
  <2>12. Honest(p, t, q) /\ Held(q)
    BY <2>11, WithoutPages DEF IsStored
  <2> QED BY <2>12 DEF q
<1> QED BY <1>3, <1>4

\* Of every kind of response, what is delivered is honest.
LEMMA DeliveredIsHonest ==
    ASSUME NEW p \in Responses, NEW t \in VisitTasks, NEW r, IsSound(p, r)
    PROVE  Honest(p, t, Delivered(p, t, r)) /\ Held(Delivered(p, t, r))
<1> DEFINE mapped == OnMap(t, r)
           kept == Archived(t, mapped)
           q == Atomic(p, t, kept)
<1>1. IsStored(p, r)
  BY DEF IsSound, IsStored
<1>2. p.media # "html" => NoPages(r)
  BY <1>1 DEF IsStored, NoPages
<1>3. CASE p.media \in {"rss", "json feed"}
  <2>1. Delivered(p, t, r) = r
    BY <1>3 DEF Delivered
  <2> QED BY <1>1, <1>2, <1>3, <2>1, WithoutPages DEF IsStored
<1>4. CASE p.media \notin {"rss", "json feed"}
  <2>1. Delivered(p, t, r) = q
    BY <1>4 DEF Delivered
  <2>2. /\ IsStored(p, mapped) /\ (mapped.blocked <=> r.blocked) /\ IdsOf(mapped) = IdsOf(r)
        /\ t.onMap => NoPages(mapped)
        /\ ~t.onMap => mapped = r
    <3>1. CASE ~t.onMap
      BY <1>1, <3>1 DEF OnMap
    <3>2. CASE t.onMap
      <4> DEFINE which == {o \in Facts(r) : ~IsMessage(o)}
                 m == Marked(r, "information", which)
      <4>1. "information" \in Marks /\ which \in SUBSET Facts(r)
        BY DEF Marks
      <4> HIDE DEF which
      <4>2. /\ IsStored(p, m) /\ (m.blocked <=> r.blocked) /\ IdsOf(m) = IdsOf(r)
            /\ \A o \in Facts(m) : ~Candidate(o) \/ (o \in Facts(r) /\ o \notin which)
        BY <1>1, <4>1, MarkedIsStored
      <4>3. \A o \in Facts(r) : o.kind = "web_page" => o \in which
        BY <1>1 DEF which, IsStored, IsMessage, AtomicTypes, PageId
      <4> HIDE DEF m
      <4>4. NoPages(m)
        BY <4>2, <4>3 DEF NoPages
      <4>5. mapped = m
        BY <3>2 DEF OnMap, m, which
      <4> QED BY <3>2, <4>2, <4>4, <4>5
    <3> QED BY <3>1, <3>2
  <2> HIDE DEF mapped
  <2>3. /\ IsStored(p, kept) /\ (kept.blocked <=> mapped.blocked) /\ IdsOf(kept) = IdsOf(mapped)
        /\ NoPages(mapped) => NoPages(kept)
    BY <2>2, ArchivedIsStored DEF NoPages
  <2> HIDE DEF kept
  <2>4. p.media # "html" => NoPages(kept)
    BY <2>3 DEF IsStored, NoPages
  <2>5. CASE kept.blocked \/ t.onMap
    <3>1. q = kept
      BY <2>5 DEF Atomic
    <3>2. p.media = "html" => ~kept.blocked
      BY <2>2, <2>3 DEF IsSound
    <3>3. NoPages(kept)
      BY <2>2, <2>3, <2>4, <2>5, <3>2
    <3> HIDE DEF q
    <3> QED BY <2>1, <2>3, <2>5, <3>1, <3>2, <3>3, WithoutPages DEF IsStored
  <2>6. CASE ~(kept.blocked \/ t.onMap) /\ t.shell
    <3>1. q = NavigationOnly(kept)
      BY <2>6 DEF Atomic
    <3>2. IsStored(p, q) /\ \A m \in Facts(q) : ~Candidate(m)
      BY <2>3, <3>1, NavigationHasNone
    <3> HIDE DEF q
    <3> QED BY <2>1, <3>2, WithoutPages DEF IsStored, NoPages
  <2>7. CASE ~(kept.blocked \/ t.onMap) /\ ~t.shell /\ \E o \in Facts(kept) : o.id[1] \in AtomicTypes /\ o.text
    <3>1. q = Superseded(kept)
      BY <2>7 DEF Atomic
    <3>2. IsStored(p, q) /\ NoPages(q)
      BY <2>3, <3>1, SupersededHasNoPages
    <3> HIDE DEF q
    <3> QED BY <2>1, <2>7, <3>2, WithoutPages DEF IsStored
  <2>8. CASE ~(kept.blocked \/ t.onMap) /\ ~t.shell /\ ~\E o \in Facts(kept) : o.id[1] \in AtomicTypes /\ o.text
    <3>1. CASE p.media # "html"
      <4>1. q = kept
        BY <2>8, <3>1 DEF Atomic
      <4> HIDE DEF q
      <4> QED BY <2>1, <2>3, <2>4, <2>8, <3>1, <4>1, WithoutPages DEF IsStored
    <3>2. CASE p.media = "html"
      <4>1. q = Articles(p, kept)
        BY <2>8, <3>2 DEF Atomic
      <4>2. p \in HtmlPages
        <5>1. p \notin Documents /\ p \notin Feeds
          BY <3>2 DEF Documents, Feeds
        <5>2. p # Blocked
          <6>1. Blocked.media = "blocked"
            BY DEF Blocked
          <6> QED BY <3>2, <6>1
        <5> QED BY <5>1, <5>2 DEF Responses
      <4>3. <<"publication", "article">> \notin IdsOf(kept)
        BY <2>2, <2>3, <3>2 DEF IsSound
      <4>4. Honest(p, t, Articles(p, kept)) /\ Held(Articles(p, kept))
        BY <2>3, <2>8, <4>2, <4>3, ArticlesAreHonest
      <4> HIDE DEF q
      <4> QED BY <2>1, <4>1, <4>4
    <3> QED BY <3>1, <3>2
  <2> QED BY <2>5, <2>6, <2>7, <2>8
<1> QED BY <1>3, <1>4

(***************************************************************************)
(* A page from its response to its delivery.                               *)
(***************************************************************************)
ExtractionInv ==
    /\ ExtractionTypeOK
    /\ response.media \notin {"html", "blocked"} => visitTask.capture = "none"
    /\ stage \in {"review", "agent", "ready"} => IsSound(response, result)
    /\ stage = "delivered" => Honest(response, visitTask, result) /\ coverage = CoverageOf(result)

LEMMA ExtractionInitInv == ExtractionInit => ExtractionInv
<1> SUFFICES ASSUME ExtractionInit PROVE ExtractionInv
  OBVIOUS
<1>1. rounds \in 0 .. MapRounds
  BY ExtractionAssumption DEF ExtractionAssumption, ExtractionInit
<1>3. context \in BOOLEAN
  BY DEF ExtractionInit
<1>2. result \in Result
  BY NothingIs DEF ExtractionInit
<1> QED BY <1>1, <1>2, <1>3 DEF ExtractionInit, ExtractionInv, ExtractionTypeOK

\* A page that has more of the facts is sound, too.
LEMMA ReplacedIsSound ==
    ASSUME ExtractionInv, stage \in {"review", "agent"}, NEW p \in Views, Replaced(p)
    PROVE  /\ response' \in Responses /\ result' \in Result /\ IsSound(response', result')
           /\ response'.media \notin {"html", "blocked"} => visitTask.capture = "none"
<1>1. p \in Responses /\ p.media \in {"html", "blocked"}
  BY DEF Views, Responses, HtmlPages, Blocked
<1>2. IsSound(p, Extraction(p, visitTask))
  BY <1>1, ExtractionIsSound DEF ExtractionInv, ExtractionTypeOK
<1>3. Extraction(p, visitTask) \in Result
  BY <1>2 DEF IsSound, Held
<1> HIDE DEF Extraction
<1> QED BY <1>1, <1>2, <1>3 DEF Replaced, ExtractionInv, ExtractionTypeOK

LEMMA ExtractionStepInv == ExtractionInv /\ [ExtractionNext]_extractionVars => ExtractionInv'
<1> SUFFICES ASSUME ExtractionInv, [ExtractionNext]_extractionVars PROVE ExtractionInv'
  OBVIOUS
<1>1. CASE UNCHANGED extractionVars
  BY <1>1 DEF extractionVars, ExtractionInv, ExtractionTypeOK
<1>2. CASE Extract
  <2>1. /\ stage = "fetched" /\ result' = Extraction(response, visitTask) /\ stage' \in {"review", "ready"}
        /\ UNCHANGED <<response, visitTask, rounds, context, coverage>>
    BY <1>2 DEF Extract
  <2>2. IsSound(response, Extraction(response, visitTask))
    BY ExtractionIsSound DEF ExtractionInv, ExtractionTypeOK
  <2>3. Extraction(response, visitTask) \in Result
    BY <2>2 DEF IsSound, Held
  <2> QED BY <2>1, <2>2, <2>3 DEF ExtractionInv, ExtractionTypeOK
<1>3. CASE NoReviewView
  BY <1>3 DEF NoReviewView, ExtractionInv, ExtractionTypeOK
<1>4. CASE NoAgent
  BY <1>4 DEF NoAgent, ExtractionInv, ExtractionTypeOK
<1>5. CASE Deliver
  <2>1. /\ stage = "ready" /\ result' = Delivered(response, visitTask, result) /\ stage' = "delivered"
        /\ coverage' = CoverageOf(result') /\ UNCHANGED <<response, visitTask, rounds, context>>
    BY <1>5 DEF Deliver
  <2>2. /\ Honest(response, visitTask, Delivered(response, visitTask, result))
        /\ Held(Delivered(response, visitTask, result))
    BY <2>1, DeliveredIsHonest DEF ExtractionInv, ExtractionTypeOK
  <2>3. coverage' \in {"running", "blocked", "partial", "error", "ok"}
    BY <2>1 DEF CoverageOf
  <2>4. Delivered(response, visitTask, result) \in Result
    BY <2>2 DEF Held
  <2> QED BY <2>1, <2>2, <2>3, <2>4 DEF ExtractionInv, ExtractionTypeOK
<1>6. ASSUME NEW p \in Views, ReviewView(p) PROVE ExtractionInv'
  <2>1. /\ stage = "review" /\ Replaced(p) /\ stage' \in {"ready", "agent"} /\ context' \in BOOLEAN
        /\ UNCHANGED <<visitTask, rounds, coverage>>
    BY <1>6 DEF ReviewView
  <2>2. /\ response' \in Responses /\ result' \in Result /\ IsSound(response', result')
        /\ response'.media \notin {"html", "blocked"} => visitTask.capture = "none"
    BY <2>1, ReplacedIsSound
  <2> QED BY <2>1, <2>2 DEF ExtractionInv, ExtractionTypeOK
<1>7. ASSUME NEW p \in Views, AgentRound(p) PROVE ExtractionInv'
  <2>1. /\ stage = "agent" /\ Replaced(p) /\ stage' \in {"ready", "agent"} /\ context' \in BOOLEAN
        /\ rounds < MapRounds /\ rounds' = rounds + 1 /\ UNCHANGED <<visitTask, coverage>>
    BY <1>7 DEF AgentRound, ExtractionInv, ExtractionTypeOK
  <2>2. /\ response' \in Responses /\ result' \in Result /\ IsSound(response', result')
        /\ response'.media \notin {"html", "blocked"} => visitTask.capture = "none"
    BY <2>1, ReplacedIsSound
  <2>3. rounds' \in 0 .. MapRounds
    BY <2>1, ExtractionAssumption DEF ExtractionAssumption, ExtractionInv, ExtractionTypeOK
  <2> QED BY <2>1, <2>2, <2>3 DEF ExtractionInv, ExtractionTypeOK
<1> QED BY <1>1, <1>2, <1>3, <1>4, <1>5, <1>6, <1>7 DEF ExtractionNext

LEMMA ExtractionInvIsHonest == ExtractionInv => ExtractionIsHonest
<1> SUFFICES ASSUME ExtractionInv, stage = "delivered" PROVE ExtractionIsHonest
  BY DEF ExtractionIsHonest
<1>1. Honest(response, visitTask, result)
  BY DEF ExtractionInv
<1>2. CoverageOf(result) = coverage
  BY DEF ExtractionInv
<1> QED BY <1>1, <1>2 DEF Honest, Backed, Grounded, ExtractionIsHonest

LEMMA ExtractionInvHolds == PageSpec => []ExtractionInv
BY ExtractionInitInv, ExtractionStepInv, PTL DEF PageSpec

(* However many stages rename, mark and add observations, and however often another    *)
(* view of it takes its place: a page has evidence for every observation and no other,    *)
(* coverage that is ok hides nothing, a shell has no message, and a page as a whole is      *)
(* one only when it has no other.                                                         *)
THEOREM PagesAreHonest == PageSpec => []ExtractionIsHonest
BY ExtractionInvHolds, ExtractionInvIsHonest, PTL
=================================================================================
