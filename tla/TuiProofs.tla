----------------------------- MODULE TuiProofs -----------------------------
(***************************************************************************)
(* Proofs about the TUI, for any number of runs, any creation times, page  *)
(* sizes and capacities of the channels.                                   *)
(*                                                                         *)
(* The list is built by a recursive function (UpsertRuns) and pages by     *)
(* ranks (Ordered).  About the function a least step that goes wrong is    *)
(* refuted; of the ranks it is shown that each is taken, once.  That       *)
(* paging skips nothing then rests on a count: unless pages of two loads   *)
(* are mixed, the next page is in one place at a time.                     *)
(***************************************************************************)
EXTENDS TuiProperties, TLAPS, FiniteSetTheorems, SequenceTheorems, WellFoundedInduction

----------------------------------------------------------------------------
(* The inductive invariant                                                 *)

\* A row of the list.
RunRow == [id : Runs, status : RunStatus, calcs : Seq([status : CalcStatus, result : BOOLEAN])]

CalcId == Runs \X Nat

Cancel == [op : {"cancelRun"}, run : Runs] \cup [op : {"cancelCalc"}, calc : CalcId]

Effect ==
    Cancel \cup [op : {"retryCalc"}, calc : CalcId] \cup [op : {"loadMore"}, cursor : Runs]
    \cup [op : {"refresh", "import", "submit", "save"}]

Overlay ==
    [kind : {"none", "help"}] \cup [kind : {"filter"}, cursor : DOMAIN FilterStatuses]
    \cup [kind : {"command"}, typed : TypedCommand] \cup [kind : {"confirm"}, command : Cancel]

Index == UNION {[S -> Nat] : S \in SUBSET Runs}

App ==
    [runs : Seq(RunRow), index : Index,
     screen : {"RunList", "RunDetail", "CalcDetail", "Dashboard"},
     pane : {"RunList", "CalcList", "Detail"},
     runCursor : Nat, calcCursor : Nat, overlay : Overlay, status : STRING,
     search : SUBSET Runs, next : Runs \cup {None}, loading : BOOLEAN,
     anchor : Nat \cup {NoAnchor}]

Change == [type : {"calcChanged"}, calc : CalcId, to : CalcStatus]

Load == [type : {"runsLoaded", "moreLoaded"}, runs : Seq(RunRow), next : Runs \cup {None},
         known : SUBSET Runs]

Message == [type : {"text", "key"}] \cup Change \cup Load

Links == {"off", "lost", "connecting", "found", "live"}

Net == [pc : {"start", "idle"}] \cup [pc : {"answer"}, message : Message]

Types ==
    /\ app \in App
    /\ todo \in Seq(Effect)
    /\ netq \in Seq(Effect) /\ Len(netq) <= NetCap
    /\ appq \in Seq(Message) /\ Len(appq) <= AppCap
    /\ net \in Net
    /\ import \in Nat /\ stream \in Seq(Change) /\ link \in Links
    /\ server \in [Runs -> Seq({"running", "failed", "succeeded"})]
    /\ base \subseteq Submitted /\ mixed \in BOOLEAN /\ lost \in BOOLEAN

Indexed(a) ==
    /\ DOMAIN a.index = Ids(a.runs)
    /\ \A k \in DOMAIN a.runs : a.index[a.runs[k].id] = k

\* A list that is on its way knows runs of the daemon, S, and what it leaves out
\* is on the next page.
Whole(m, S) ==
    m.type = "runsLoaded" =>
        /\ m.known \subseteq S
        /\ \A r \in m.known \ Ids(m.runs) : m.next # None /\ Older(r, m.next)

WholeLoads ==
    /\ \A k \in DOMAIN appq : Whole(appq[k], Submitted)
    /\ net.pc = "answer" => Whole(net.message, Submitted)

Requests == {e \in Effect : e.op = "loadMore"}
Pages == {m \in Message : m.type = "moreLoaded"}

Count(q, S) == Cardinality({k \in DOMAIN q : q[k] \in S})

\* In how many places the next page is: to be asked for, asked for, or on its way.
PagesDue(a, effects, commands, task, messages) ==
    (IF a.next # None THEN 1 ELSE 0) + Count(effects, Requests) + Count(commands, Requests)
    + (IF task.pc = "answer" /\ task.message.type = "moreLoaded" THEN 1 ELSE 0)
    + Count(messages, Pages)

OnePage == ~mixed => PagesDue(app, todo, netq, net, appq) <= 1

TInv == Types /\ Indexed(app) /\ WholeLoads /\ OnePage /\ NothingSkipped

(* A set of numbers that has a member has a least one. *)
LEMMA LeastNumber ==
    ASSUME NEW S, S \subseteq Nat, S # {}
    PROVE  \E n \in S : \A m \in S : n <= m
<1> DEFINE R == OpToRel(<, Nat)
<1>1. IsWellFoundedOn(R, Nat)
  BY NatLessThanWellFounded
<1> HIDE DEF R
<1>2. PICK n \in S : \A m \in S : ~(<<m, n>> \in R)
  BY <1>1, WFMin
<1>3. ASSUME NEW m \in S PROVE ~(m < n)
  BY <1>2, <1>3 DEF R, OpToRel
<1> QED BY <1>3

(* What the loop of upsert_run computes, one run after the other. *)
LEMMA UpsertRunsSteps ==
    ASSUME NEW a, NEW runs, Len(runs) \in Nat
    PROVE  \E f : /\ f[0] = a
                  /\ \A k \in 1..Len(runs) : f[k] = UpsertRun(f[k - 1], runs[k])
                  /\ UpsertRuns(a, runs) = f[Len(runs)]
<1> DEFINE Step(f, k) == IF k = 0 THEN a ELSE UpsertRun(f[k - 1], runs[k])
           Is(f, n) == f = [k \in 0..n |-> Step(f, k)]
           Bad == {n \in Nat : ~\E f : Is(f, n)}
<1>1. \E f : Is(f, Len(runs))
  <2> HIDE DEF Is
  <2>1. SUFFICES ASSUME Bad # {} PROVE FALSE
    OBVIOUS
  <2>2. PICK n \in Bad : \A m \in Bad : n <= m
    BY <2>1, LeastNumber
  <2>3. n # 0
    <3> DEFINE f0 == [k \in 0..0 |-> a]
    <3>1. \A k \in 0..0 : Step(f0, k) = a
      OBVIOUS
    <3> HIDE DEF Step
    <3>2. Is(f0, 0)
      BY <3>1 DEF Is
    <3> QED BY <3>2, <2>2
  <2>4. PICK f : Is(f, n - 1)
    <3>1. n - 1 \in Nat /\ n - 1 \notin Bad
      BY <2>2, <2>3
    <3> QED BY <3>1
  <2> DEFINE g == [k \in 0..n |-> Step(f, k)]
  <2>5. \A k \in 0..n : k # 0 => g[k - 1] = f[k - 1]
    <3> SUFFICES ASSUME NEW k \in 0..n, k # 0 PROVE g[k - 1] = f[k - 1]
      OBVIOUS
    <3>1. k - 1 \in 0..(n - 1) /\ k - 1 \in 0..n
      BY <2>2
    <3>2. g[k - 1] = Step(f, k - 1)
      BY <3>1
    <3> HIDE DEF Step
    <3>3. f[k - 1] = Step(f, k - 1)
      BY <2>4, <3>1 DEF Is
    <3> QED BY <3>2, <3>3
  <2>6. Is(g, n)
    <3>1. ASSUME NEW k \in 0..n PROVE Step(f, k) = Step(g, k)
      BY <2>5, <3>1
    <3> HIDE DEF Step
    <3> QED BY <3>1 DEF Is
  <2> QED BY <2>6, <2>2
<1> DEFINE after == CHOOSE f : Is(f, Len(runs))
<1>2. Is(after, Len(runs))
  BY <1>1
<1>3. UpsertRuns(a, runs) = after[Len(runs)]
  BY DEF UpsertRuns
<1> HIDE DEF after
<1>4. after[0] = a
  BY <1>2
<1>5. \A k \in 1..Len(runs) : after[k] = UpsertRun(after[k - 1], runs[k])
  BY <1>2
<1> QED BY <1>3, <1>4, <1>5

(* Different ranks, as many as there are members, are all the ranks. *)
LEMMA RanksAreTaken ==
    ASSUME NEW S, IsFiniteSet(S), NEW f \in [S -> 1..Cardinality(S)],
           \A x, y \in S : f[x] = f[y] => x = y,
           NEW k \in 1..Cardinality(S)
    PROVE  \E x \in S : f[x] = k
<1> DEFINE T == 1..Cardinality(S)
<1>1. Cardinality(S) \in Nat
  BY FS_CardinalityType
<1>2. IsFiniteSet(T) /\ Cardinality(T) = Cardinality(S)
  BY <1>1, FS_Interval
<1> HIDE DEF T
<1>3. f \in Injection(S, T)
  BY DEF Injection, IsInjective, T
<1>4. f \in Surjection(S, T)
  BY <1>2, <1>3, FS_Injection
<1> QED BY <1>4 DEF Surjection, T

----------------------------------------------------------------------------
(* Lists in order                                                          *)

\* B has the pairs <<x, y>> with x before y.
Orders(B, S) ==
    /\ \A x \in S : <<x, x>> \notin B
    /\ \A x, y, z \in S : <<x, y>> \in B /\ <<y, z>> \in B => <<x, z>> \in B
    /\ \A x, y \in S : x = y \/ <<x, y>> \in B \/ <<y, x>> \in B

\* How many members there are up to x.
Place(x, S, B) == Cardinality({y \in S : y = x \/ <<y, x>> \in B})

(* A place is a number from one on, and the later of two members has the greater. *)
LEMMA PlacesDiffer ==
    ASSUME NEW S, IsFiniteSet(S), NEW B, Orders(B, S), NEW x \in S, NEW y \in S
    PROVE  /\ Place(x, S, B) \in 1..Cardinality(S)
           /\ <<x, y>> \in B => Place(x, S, B) < Place(y, S, B)
<1> DEFINE Upto(z) == {w \in S : w = z \/ <<w, z>> \in B}
<1>0. Cardinality(S) \in Nat
  BY FS_CardinalityType
<1>1. \A z \in S : IsFiniteSet(Upto(z)) /\ Cardinality(Upto(z)) \in Nat
                   /\ Cardinality(Upto(z)) <= Cardinality(S)
  BY FS_Subset, FS_CardinalityType
<1>2. Upto(x) # {}
  OBVIOUS
<1>3. Cardinality(Upto(x)) # 0
  BY <1>1, <1>2, FS_EmptySet
<1>4. ASSUME <<x, y>> \in B PROVE Cardinality(Upto(x)) < Cardinality(Upto(y))
  <2>1. Upto(x) \subseteq Upto(y)
    BY <1>4 DEF Orders
  <2>2. y \in Upto(y) /\ y \notin Upto(x)
    BY <1>4 DEF Orders
  <2> HIDE DEF Upto
  <2>3. Cardinality(Upto(x)) <= Cardinality(Upto(y)) /\ Cardinality(Upto(x)) # Cardinality(Upto(y))
    BY <1>1, <2>1, <2>2, FS_Subset
  <2> QED BY <2>3, <1>1
<1>5. Place(x, S, B) = Cardinality(Upto(x)) /\ Place(y, S, B) = Cardinality(Upto(y))
  BY DEF Place
<1> HIDE DEF Upto
<1> QED BY <1>0, <1>1, <1>3, <1>4, <1>5

(* The places are those from the first to the last, and each is taken. *)
LEMMA PlacesAreTaken ==
    ASSUME NEW S, IsFiniteSet(S), NEW B, Orders(B, S), NEW k \in 1..Cardinality(S)
    PROVE  \E x \in S : Place(x, S, B) = k
<1> DEFINE f == [x \in S |-> Place(x, S, B)]
<1>1. Cardinality(S) \in Nat /\ \A x \in S : f[x] = Place(x, S, B)
  BY FS_CardinalityType
<1>2. f \in [S -> 1..Cardinality(S)]
  BY PlacesDiffer
<1> HIDE DEF f
<1>3. ASSUME NEW x \in S, NEW y \in S, f[x] = f[y] PROVE x = y
  <2>1. Place(x, S, B) \in Int /\ Place(x, S, B) = Place(y, S, B)
    BY <1>1, <1>2, <1>3
  <2>2. <<x, y>> \notin B /\ <<y, x>> \notin B
    BY <2>1, PlacesDiffer
  <2> QED BY <2>2 DEF Orders
<1>4. \E x \in S : f[x] = k
  BY <1>2, <1>3, RanksAreTaken
<1> QED BY <1>1, <1>4

----------------------------------------------------------------------------
(* Pages                                                                   *)

(* list_runs orders the runs: created_at decides, and the id where it is the same. *)
LEMMA OlderIsAnOrder ==
    ASSUME NEW p \in Runs, NEW q \in Runs, NEW r \in Runs
    PROVE  /\ ~Older(r, r)
           /\ Older(p, q) /\ Older(q, r) => Older(p, r)
           /\ p = q \/ Older(p, q) \/ Older(q, p)
BY TuiStateAssumption, TuiAssumption DEF Older

After(cursor) == {r \in Submitted : cursor = None \/ Older(r, cursor)}
Newer == {pair \in Runs \X Runs : Older(pair[2], pair[1])}

(* The runs after a cursor are finitely many and in order. *)
LEMMA AfterIsOrdered ==
    ASSUME NEW cursor
    PROVE  /\ IsFiniteSet(After(cursor)) /\ Cardinality(After(cursor)) \in Nat
           /\ After(cursor) \subseteq Submitted /\ Submitted \subseteq Runs
           /\ Orders(Newer, After(cursor))
<1>1. After(cursor) \subseteq Submitted /\ Submitted \subseteq Runs
  BY DEF After, Submitted
<1>2. IsFiniteSet(After(cursor))
  BY <1>1, FS_Subset, TuiAssumption
<1>3. \A p, q \in Runs : <<p, q>> \in Newer <=> Older(q, p)
  BY DEF Newer
<1>4. Orders(Newer, After(cursor))
  BY <1>1, <1>3, OlderIsAnOrder DEF Orders
<1> QED BY <1>1, <1>2, <1>4, FS_CardinalityType

(* A page consists of runs after its cursor, and every such run is in it or, when
   the page is full, older than its last. *)
LEMMA PagesAreWhole ==
    ASSUME NEW cursor, NEW limit \in Nat \ {0}
    PROVE  LET page == PageIds(cursor, limit) IN
           /\ page \in Seq(After(cursor)) /\ Len(page) <= limit
           /\ \A r \in After(cursor) :
                 \/ \E k \in DOMAIN page : page[k] = r
                 \/ Len(page) = limit /\ Older(r, page[limit])
<1> DEFINE S == After(cursor)
           n == Cardinality(S)
           place(r) == Cardinality({q \in S : q = r \/ Older(r, q)})
           at(k) == CHOOSE r \in S : place(r) = k
           page == [k \in 1..Lesser(limit, n) |-> at(k)]
<1>0. IsFiniteSet(S) /\ S \subseteq Runs /\ Orders(Newer, S) /\ \A p, q \in S : <<p, q>> \in Newer <=> Older(q, p)
  BY AfterIsOrdered DEF Newer
<1>1. n \in Nat /\ Lesser(limit, n) \in Nat /\ Lesser(limit, n) <= limit /\ Lesser(limit, n) <= n
  BY AfterIsOrdered DEF Lesser
<1>a. PageIds(cursor, limit) = page
  <2>1. \A k \in 1..Lesser(limit, n) : k \in 1..n
    BY <1>1
  <2> DEFINE newest == Ordered(After(cursor), LAMBDA r, q : Older(q, r))
  <2>2. newest = [k \in 1..n |-> at(k)]
    BY DEF Ordered
  <2>3. PageIds(cursor, limit) = [k \in 1..Lesser(limit, n) |-> newest[k]]
    BY DEF PageIds, After
  <2> HIDE DEF newest, at
  <2>4. \A k \in 1..Lesser(limit, n) : newest[k] = at(k)
    BY <2>1, <2>2
  <2> QED BY <2>3, <2>4
<1> HIDE DEF S, page
<1>b. \A r \in S : place(r) = Place(r, S, Newer)
  <2>1. \A r \in S : {q \in S : q = r \/ Older(r, q)} = {q \in S : q = r \/ <<q, r>> \in Newer}
    BY <1>0
  <2> QED BY <2>1 DEF Place
<1>2. \A k \in 1..n : at(k) \in S /\ Place(at(k), S, Newer) = k
  <2>1. \A k \in 1..n : \E r \in S : place(r) = k
    BY <1>0, <1>b, PlacesAreTaken
  <2> HIDE DEF place
  <2>2. \A k \in 1..n : at(k) \in S /\ place(at(k)) = k
    BY <2>1
  <2> HIDE DEF at
  <2> QED BY <2>2, <1>b
<1> HIDE DEF at
<1>4. \A k \in 1..Lesser(limit, n) : page[k] \in S /\ Place(page[k], S, Newer) = k
  BY <1>1, <1>2 DEF page
<1>5. page \in Seq(S) /\ Len(page) = Lesser(limit, n) /\ DOMAIN page = 1..Lesser(limit, n)
  BY <1>1, <1>4 DEF page
<1>6. ASSUME NEW r \in S
      PROVE  \/ \E k \in DOMAIN page : page[k] = r
             \/ Len(page) = limit /\ Older(r, page[limit])
  <2> DEFINE k == Place(r, S, Newer)
  <2>1. k \in 1..n
    BY <1>0, PlacesDiffer
  <2>2. CASE k <= limit
    <3>1. k \in 1..Lesser(limit, n)
      BY <2>1, <2>2, <1>1 DEF Lesser
    <3>2. page[k] = r
      <4>1. page[k] \in S /\ Place(page[k], S, Newer) = k
        BY <3>1, <1>4
      <4>2. <<page[k], r>> \notin Newer /\ <<r, page[k]>> \notin Newer
        BY <4>1, <2>1, <1>0, <1>1, PlacesDiffer
      <4> QED BY <4>1, <4>2, <1>0 DEF Orders
    <3> QED BY <3>1, <3>2, <1>5
  <2>3. CASE k > limit
    <3>1. Lesser(limit, n) = limit /\ limit \in 1..limit
      BY <2>1, <2>3, <1>1 DEF Lesser
    <3>2. page[limit] \in S /\ Place(page[limit], S, Newer) = limit
      BY <3>1, <1>4
    <3>3. <<r, page[limit]>> \notin Newer /\ page[limit] # r
      BY <3>2, <2>1, <2>3, <1>0, <1>1, PlacesDiffer
    <3>4. Older(r, page[limit])
      BY <3>2, <3>3, <1>0 DEF Orders
    <3> QED BY <3>1, <3>4, <1>5
  <2> QED BY <2>1, <2>2, <2>3, <1>1
<1> QED BY <1>a, <1>5, <1>6, <1>1 DEF S

----------------------------------------------------------------------------
(* Queues                                                                  *)

In(x, q) == \E k \in DOMAIN q : q[k] = x

(* What is in a queue with one element more. *)
LEMMA QueueGrows ==
    ASSUME NEW S, NEW q \in Seq(S), NEW x \in S
    PROVE  /\ Append(q, x) \in Seq(S) /\ Len(Append(q, x)) = Len(q) + 1
           /\ \A y : In(y, Append(q, x)) <=> In(y, q) \/ y = x
<1>1. /\ Append(q, x) \in Seq(S) /\ Len(Append(q, x)) = Len(q) + 1
      /\ DOMAIN Append(q, x) = 1..(Len(q) + 1) /\ DOMAIN q = 1..Len(q) /\ Len(q) \in Nat
      /\ \A k \in 1..Len(q) : Append(q, x)[k] = q[k]
      /\ Append(q, x)[Len(q) + 1] = x
  OBVIOUS
<1>2. ASSUME NEW y, In(y, Append(q, x)) PROVE In(y, q) \/ y = x
  <2>1. PICK k \in 1..(Len(q) + 1) : Append(q, x)[k] = y
    BY <1>1, <1>2 DEF In
  <2>2. k \in 1..Len(q) \/ k = Len(q) + 1
    BY <1>1
  <2> QED BY <2>1, <2>2, <1>1 DEF In
<1>3. ASSUME NEW y, In(y, q) \/ y = x PROVE In(y, Append(q, x))
  <2>1. Len(q) + 1 \in 1..(Len(q) + 1) /\ \A k \in 1..Len(q) : k \in 1..(Len(q) + 1)
    BY <1>1
  <2> QED BY <1>3, <2>1, <1>1 DEF In
<1> QED BY <1>1, <1>2, <1>3

(* What is in a queue without its head. *)
LEMMA QueueShrinks ==
    ASSUME NEW S, NEW q \in Seq(S), q # <<>>
    PROVE  /\ Tail(q) \in Seq(S) /\ Len(Tail(q)) = Len(q) - 1 /\ Head(q) \in S
           /\ \A y : In(y, q) <=> In(y, Tail(q)) \/ y = Head(q)
<1>1. /\ Tail(q) \in Seq(S) /\ Len(Tail(q)) = Len(q) - 1 /\ Head(q) \in S /\ Head(q) = q[1]
      /\ DOMAIN q = 1..Len(q) /\ Len(q) \in Nat \ {0} /\ DOMAIN Tail(q) = 1..(Len(q) - 1)
      /\ \A k \in 1..(Len(q) - 1) : Tail(q)[k] = q[k + 1]
  BY HeadTailProperties
<1>2. ASSUME NEW y, In(y, q) PROVE In(y, Tail(q)) \/ y = Head(q)
  <2>1. PICK k \in 1..Len(q) : q[k] = y
    BY <1>1, <1>2 DEF In
  <2>2. CASE k = 1
    BY <2>1, <2>2, <1>1
  <2>3. CASE k # 1
    <3>1. k - 1 \in 1..(Len(q) - 1) /\ (k - 1) + 1 = k
      BY <2>3, <1>1
    <3> QED BY <3>1, <2>1, <1>1 DEF In
  <2> QED BY <2>2, <2>3
<1>3. ASSUME NEW y, In(y, Tail(q)) \/ y = Head(q) PROVE In(y, q)
  <2>1. 1 \in 1..Len(q) /\ \A k \in 1..(Len(q) - 1) : k + 1 \in 1..Len(q)
    BY <1>1
  <2> QED BY <1>3, <2>1, <1>1 DEF In
<1> QED BY <1>1, <1>2, <1>3

(* How often members of T occur in a queue is a number. *)
LEMMA CountIsFinite ==
    ASSUME NEW S, NEW q \in Seq(S), NEW T
    PROVE  /\ IsFiniteSet({k \in DOMAIN q : q[k] \in T}) /\ Count(q, T) \in Nat
           /\ (\A k \in DOMAIN q : q[k] \notin T) => Count(q, T) = 0
<1> DEFINE A == {k \in DOMAIN q : q[k] \in T}
<1>1. Len(q) \in Nat /\ DOMAIN q = 1..Len(q)
  OBVIOUS
<1>2. IsFiniteSet(A) /\ Cardinality(A) \in Nat
  <2>1. IsFiniteSet(1..Len(q)) /\ A \in SUBSET (1..Len(q))
    BY <1>1, FS_Interval
  <2> HIDE DEF A
  <2> QED BY <2>1, FS_Subset, FS_CardinalityType
<1>3. ASSUME \A k \in DOMAIN q : q[k] \notin T PROVE Cardinality(A) = 0
  <2>1. A = {}
    BY <1>3
  <2> QED BY <2>1, FS_EmptySet
<1> QED BY <1>2, <1>3 DEF Count

(* One element more. *)
LEMMA CountGrows ==
    ASSUME NEW S, NEW q \in Seq(S), NEW x \in S, NEW T
    PROVE  Count(Append(q, x), T) = Count(q, T) + (IF x \in T THEN 1 ELSE 0)
<1> DEFINE A == {k \in DOMAIN q : q[k] \in T}
           B == {k \in DOMAIN Append(q, x) : Append(q, x)[k] \in T}
           n == Len(q) + 1
<1>1. /\ DOMAIN Append(q, x) = 1..n /\ DOMAIN q = 1..Len(q) /\ Len(q) \in Nat
      /\ \A k \in 1..Len(q) : Append(q, x)[k] = q[k]
      /\ Append(q, x)[n] = x
  OBVIOUS
<1>2. n \notin A /\ IsFiniteSet(A) /\ Cardinality(A) \in Nat
  <2>1. n \notin A
    BY <1>1
  <2>2. IsFiniteSet(A)
    BY CountIsFinite
  <2> HIDE DEF A
  <2> QED BY <2>1, <2>2, FS_CardinalityType
<1>3. \A k : k \in 1..n <=> k \in 1..Len(q) \/ k = n
  BY <1>1
<1>4. B = IF x \in T THEN A \cup {n} ELSE A
  BY <1>1, <1>3
<1>5. CASE x \in T
  <2>1. B = A \cup {n}
    BY <1>4, <1>5
  <2> HIDE DEF A, B, n
  <2>2. Cardinality(B) = Cardinality(A) + 1
    BY <2>1, <1>2, FS_AddElement
  <2> QED BY <2>2, <1>5 DEF Count, A, B
<1>6. CASE x \notin T
  <2>1. B = A
    BY <1>4, <1>6
  <2>2. Count(Append(q, x), T) = Cardinality(B) /\ Count(q, T) = Cardinality(A)
    BY DEF Count
  <2> HIDE DEF A, B
  <2> QED BY <1>6, <2>1, <2>2, <1>2
<1> QED BY <1>5, <1>6

(* One element less. *)
LEMMA CountShrinks ==
    ASSUME NEW S, NEW q \in Seq(S), q # <<>>, NEW T
    PROVE  Count(q, T) = Count(Tail(q), T) + (IF Head(q) \in T THEN 1 ELSE 0)
<1> DEFINE A == {k \in DOMAIN q : q[k] \in T}
           B == {k \in DOMAIN Tail(q) : Tail(q)[k] \in T}
           f == [k \in B |-> k + 1]
<1>1. /\ Tail(q) \in Seq(S) /\ Head(q) = q[1]
      /\ DOMAIN q = 1..Len(q) /\ Len(q) \in Nat \ {0} /\ DOMAIN Tail(q) = 1..(Len(q) - 1)
      /\ \A k \in 1..(Len(q) - 1) : Tail(q)[k] = q[k + 1]
  BY HeadTailProperties
<1>2. IsFiniteSet(A) /\ IsFiniteSet(B) /\ Cardinality(A) \in Nat /\ Cardinality(B) \in Nat
  BY <1>1, CountIsFinite, FS_CardinalityType
<1>3. \A k \in B : k \in Nat /\ k + 1 \in A \ {1}
  BY <1>1
<1>4. \A j \in A \ {1} : j - 1 \in B /\ (j - 1) + 1 = j
  <2> SUFFICES ASSUME NEW j \in A \ {1} PROVE j - 1 \in B /\ (j - 1) + 1 = j
    OBVIOUS
  <2>1. j \in 1..Len(q) /\ j # 1 /\ q[j] \in T
    BY <1>1
  <2>2. j - 1 \in 1..(Len(q) - 1) /\ (j - 1) + 1 = j
    BY <2>1, <1>1
  <2> QED BY <2>1, <2>2, <1>1
<1>5. f \in Bijection(B, A \ {1})
  <2> HIDE DEF A, B
  <2>1. f \in [B -> A \ {1}] /\ \A i, j \in B : f[i] = f[j] => i = j
    BY <1>3
  <2>2. \A j \in A \ {1} : \E i \in B : f[i] = j
    BY <1>4
  <2> HIDE DEF f
  <2> QED BY <2>1, <2>2 DEF Bijection, Injection, Surjection, IsInjective
<1>6. Cardinality(A \ {1}) = Cardinality(B)
  <2> HIDE DEF A, B, f
  <2> QED BY <1>2, <1>5, FS_Bijection DEF ExistsBijection
<1>7. Cardinality(A \ {1}) = IF 1 \in A THEN Cardinality(A) - 1 ELSE Cardinality(A)
  <2> HIDE DEF A
  <2> QED BY <1>2, FS_RemoveElement
<1>8. 1 \in A <=> Head(q) \in T
  BY <1>1
<1>9. Count(q, T) = Cardinality(A) /\ Count(Tail(q), T) = Cardinality(B)
  BY DEF Count
<1> HIDE DEF A, B, f
<1> QED BY <1>2, <1>6, <1>7, <1>8, <1>9

----------------------------------------------------------------------------
(* The list and its index                                                  *)

\* b differs from a in the list and the index only.
SameButList(a, b) ==
    /\ b.screen = a.screen /\ b.pane = a.pane /\ b.runCursor = a.runCursor
    /\ b.calcCursor = a.calcCursor /\ b.overlay = a.overlay /\ b.status = a.status
    /\ b.search = a.search /\ b.next = a.next /\ b.loading = a.loading /\ b.anchor = a.anchor

(* upsert_run keeps the index right, replaces or appends one row and loses none. *)
LEMMA UpsertRunOK ==
    ASSUME NEW a \in App, Indexed(a), NEW run \in RunRow
    PROVE  LET b == UpsertRun(a, run) IN
           /\ b \in App /\ Indexed(b) /\ SameButList(a, b)
           /\ Ids(b.runs) = Ids(a.runs) \cup {run.id}
<1>1. /\ a.runs \in Seq(RunRow) /\ DOMAIN a.runs = 1..Len(a.runs) /\ Len(a.runs) \in Nat
      /\ a.index \in [DOMAIN a.index -> Nat] /\ DOMAIN a.index \subseteq Runs
      /\ run.id \in Runs
  BY DEF App, Index, RunRow
<1> DEFINE b == UpsertRun(a, run)
<1>2. CASE run.id \in DOMAIN a.index
  <2> DEFINE i == a.index[run.id]
  <2>1. i \in 1..Len(a.runs) /\ a.runs[i].id = run.id
    BY <1>1, <1>2 DEF Indexed, Ids
  <2>2. b = [a EXCEPT !.runs[i] = run]
    BY <1>2 DEF UpsertRun
  <2>3. /\ b.runs = [a.runs EXCEPT ![i] = run] /\ b.index = a.index /\ SameButList(a, b)
        /\ b = [a EXCEPT !.runs = b.runs]
    BY <2>2 DEF App, SameButList
  <2> HIDE DEF b, i
  <2>4. /\ b.runs \in Seq(RunRow) /\ DOMAIN b.runs = 1..Len(a.runs)
        /\ \A k \in 1..Len(a.runs) : b.runs[k].id = a.runs[k].id
    BY <1>1, <2>1, <2>3
  <2>5. Ids(b.runs) = Ids(a.runs) /\ run.id \in Ids(a.runs)
    BY <1>1, <1>2, <2>4 DEF Ids, Indexed
  <2>6. Indexed(b)
    BY <1>1, <2>3, <2>4, <2>5 DEF Indexed
  <2>7. b \in App
    BY <2>3, <2>4 DEF App
  <2> QED BY <2>3, <2>5, <2>6, <2>7 DEF b
<1>3. CASE run.id \notin DOMAIN a.index
  <2> DEFINE n == Len(a.runs) + 1
             index == [r \in DOMAIN a.index \cup {run.id} |-> IF r = run.id THEN n ELSE a.index[r]]
  <2>1. b = [a EXCEPT !.runs = Append(a.runs, run), !.index = index]
    BY <1>3 DEF UpsertRun
  <2>2. /\ b.runs = Append(a.runs, run) /\ b.index = index /\ SameButList(a, b)
    BY <2>1 DEF App, SameButList
  <2>3. /\ Append(a.runs, run) \in Seq(RunRow) /\ DOMAIN Append(a.runs, run) = 1..n
        /\ \A k \in 1..Len(a.runs) : Append(a.runs, run)[k] = a.runs[k]
        /\ Append(a.runs, run)[n] = run /\ n \in Nat
    BY <1>1
  <2>4. \A k : k \in 1..n <=> k \in 1..Len(a.runs) \/ k = n
    BY <1>1
  <2>5. Ids(b.runs) = Ids(a.runs) \cup {run.id}
    BY <1>1, <2>2, <2>3, <2>4 DEF Ids
  <2>6. Indexed(b)
    <3>1. DOMAIN b.index = Ids(b.runs)
      BY <2>2, <2>5 DEF Indexed
    <3>2. ASSUME NEW k \in 1..Len(a.runs) PROVE index[a.runs[k].id] = k
      BY <1>1, <1>3, <3>2 DEF Indexed, Ids
    <3>3. index[run.id] = n
      OBVIOUS
    <3> HIDE DEF index, n, b
    <3> QED BY <2>2, <2>3, <2>4, <3>1, <3>2, <3>3 DEF Indexed
  <2>7. index \in [DOMAIN a.index \cup {run.id} -> Nat] /\ DOMAIN a.index \cup {run.id} \in SUBSET Runs
    BY <1>1, <2>3
  <2>8. index \in Index
    <3> HIDE DEF index
    <3> QED BY <2>7 DEF Index
  <2>9. b \in App
    <3> HIDE DEF index
    <3> QED BY <2>1, <2>3, <2>8 DEF App
  <2> QED BY <2>2, <2>5, <2>6, <2>9
<1> QED BY <1>2, <1>3

(* Loading a list or a page, run after run. *)
LEMMA UpsertRunsOK ==
    ASSUME NEW a \in App, Indexed(a), NEW runs \in Seq(RunRow)
    PROVE  LET b == UpsertRuns(a, runs) IN
           /\ b \in App /\ Indexed(b) /\ SameButList(a, b)
           /\ Ids(b.runs) = Ids(a.runs) \cup Ids(runs)
<1>1. Len(runs) \in Nat /\ DOMAIN runs = 1..Len(runs) /\ \A k \in 1..Len(runs) : runs[k] \in RunRow
  OBVIOUS
<1>2. PICK f : /\ f[0] = a
               /\ \A k \in 1..Len(runs) : f[k] = UpsertRun(f[k - 1], runs[k])
               /\ UpsertRuns(a, runs) = f[Len(runs)]
  BY <1>1, UpsertRunsSteps
<1> DEFINE Some(k) == {runs[j].id : j \in 1..k}
           Good(k) == /\ f[k] \in App /\ Indexed(f[k]) /\ SameButList(a, f[k])
                      /\ Ids(f[k].runs) = Ids(a.runs) \cup Some(k)
           Bad == {k \in 0..Len(runs) : ~Good(k)}
<1>3. Good(0)
  <2>1. Some(0) = {}
    OBVIOUS
  <2> QED BY <1>2, <2>1 DEF SameButList
<1>4. ASSUME NEW k \in 1..Len(runs), Good(k - 1) PROVE Good(k)
  <2>1. f[k] = UpsertRun(f[k - 1], runs[k]) /\ runs[k] \in RunRow
    BY <1>1, <1>2
  <2>2. Some(k) = Some(k - 1) \cup {runs[k].id}
    <3>1. \A j : j \in 1..k <=> j \in 1..(k - 1) \/ j = k
      OBVIOUS
    <3> QED BY <3>1
  <2>3. /\ f[k] \in App /\ Indexed(f[k]) /\ SameButList(f[k - 1], f[k])
        /\ Ids(f[k].runs) = Ids(f[k - 1].runs) \cup {runs[k].id}
    BY <1>4, <2>1, UpsertRunOK
  <2> HIDE DEF Some
  <2> QED BY <1>4, <2>2, <2>3 DEF SameButList
<1> HIDE DEF Good
<1>5. Bad = {}
  <2>1. SUFFICES ASSUME Bad # {} PROVE FALSE
    OBVIOUS
  <2>2. PICK n \in Bad : \A m \in Bad : n <= m
    <3>1. Bad \subseteq Nat
      BY <1>1
    <3> HIDE DEF Bad
    <3> QED BY <2>1, <3>1, LeastNumber
  <2>3. n \in 1..Len(runs) /\ n - 1 \in 0..Len(runs) /\ n - 1 \notin Bad
    BY <1>1, <1>3, <2>2
  <2> QED BY <1>4, <2>2, <2>3
<1>6. Good(Len(runs))
  BY <1>1, <1>5
<1>7. Some(Len(runs)) = Ids(runs)
  BY <1>1 DEF Ids
<1> HIDE DEF Some
<1> QED BY <1>2, <1>6, <1>7 DEF Good

\* What may change an app: its types and its index stay right.
AppOK(a) == a \in App /\ Indexed(a)

(* So do both kinds of load; a reload has the new rows only. *)
LEMMA LoadedOK ==
    ASSUME NEW a, AppOK(a), NEW runs \in Seq(RunRow), NEW next \in Runs \cup {None}
    PROVE  /\ AppOK(RunsLoaded(a, runs, next)) /\ AppOK(MoreRunsLoaded(a, runs, next))
           /\ Ids(RunsLoaded(a, runs, next).runs) = Ids(runs)
           /\ Ids(MoreRunsLoaded(a, runs, next).runs) = Ids(a.runs) \cup Ids(runs)
           /\ RunsLoaded(a, runs, next).next = next
           /\ MoreRunsLoaded(a, runs, next).next = next
           /\ MoreRunsLoaded(a, runs, next).overlay = a.overlay
           /\ RunsLoaded(a, runs, next).overlay = a.overlay
<1> DEFINE none == [a EXCEPT !.runs = <<>>, !.index = <<>>]
           b == UpsertRuns(none, runs)
           c == UpsertRuns(a, runs)
<1>1. none \in App /\ none.runs = <<>> /\ none.index = <<>> /\ SameButList(a, none)
  <2>1. <<>> \in [{} -> Nat] /\ {} \in SUBSET Runs
    OBVIOUS
  <2>2. <<>> \in Index
    BY <2>1 DEF Index
  <2>3. <<>> \in Seq(RunRow) /\ a \in App
    BY DEF AppOK
  <2> QED BY <2>2, <2>3 DEF App, SameButList
<1>2. Indexed(none) /\ Ids(none.runs) = {}
  BY <1>1 DEF Indexed, Ids
<1> HIDE DEF none
<1>3. b \in App /\ Indexed(b) /\ SameButList(none, b) /\ Ids(b.runs) = Ids(runs)
  BY <1>1, <1>2, UpsertRunsOK
<1>4. c \in App /\ Indexed(c) /\ SameButList(a, c) /\ Ids(c.runs) = Ids(a.runs) \cup Ids(runs)
  BY UpsertRunsOK DEF AppOK
<1>5. RunsLoaded(a, runs, next) = [b EXCEPT !.next = next, !.loading = FALSE]
  BY DEF RunsLoaded, none
<1>6. MoreRunsLoaded(a, runs, next) = [c EXCEPT !.next = next]
  BY DEF MoreRunsLoaded
<1> HIDE DEF b, c
<1>7. AppOK([b EXCEPT !.next = next, !.loading = FALSE])
  BY <1>3 DEF AppOK, App, Indexed
<1>8. AppOK([c EXCEPT !.next = next])
  BY <1>4 DEF AppOK, App, Indexed
<1>9. /\ [b EXCEPT !.next = next, !.loading = FALSE].runs = b.runs
      /\ [b EXCEPT !.next = next, !.loading = FALSE].next = next
      /\ [b EXCEPT !.next = next, !.loading = FALSE].overlay = a.overlay
      /\ [c EXCEPT !.next = next].runs = c.runs
      /\ [c EXCEPT !.next = next].next = next
      /\ [c EXCEPT !.next = next].overlay = a.overlay
  BY <1>1, <1>3, <1>4 DEF App, SameButList
<1> QED BY <1>3, <1>4, <1>5, <1>6, <1>7, <1>8, <1>9

(* An event changes no row but the one it is about, and the id of none. *)
LEMMA UpdateCalcStatusOK ==
    ASSUME NEW a, AppOK(a), NEW calc \in CalcId, NEW status \in CalcStatus
    PROVE  LET b == UpdateCalcStatus(a, calc, status) IN
           /\ AppOK(b) /\ SameButList(a, b) /\ Ids(b.runs) = Ids(a.runs)
<1>1. /\ a.runs \in Seq(RunRow) /\ DOMAIN a.runs = 1..Len(a.runs) /\ Len(a.runs) \in Nat
  BY DEF App, AppOK
<1> DEFINE b == UpdateCalcStatus(a, calc, status)
<1>2. CASE calc[1] \notin DOMAIN a.index
  BY <1>2 DEF UpdateCalcStatus, SameButList
<1>3. CASE calc[1] \in DOMAIN a.index
  <2> DEFINE i == a.index[calc[1]]
             old == a.runs[i].calcs
             calcs == [old EXCEPT ![calc[2]].status = status]
             row == [a.runs[i] EXCEPT !.calcs[calc[2]].status = status]
  <2>1. i \in 1..Len(a.runs) /\ a.runs[i] \in RunRow
    BY <1>1, <1>3 DEF AppOK, Indexed, Ids
  <2>a. calcs \in Seq([status : CalcStatus, result : BOOLEAN])
    <3> DEFINE calc1 == [old[calc[2]] EXCEPT !.status = status]
    <3>1. old \in Seq([status : CalcStatus, result : BOOLEAN]) /\ DOMAIN old = 1..Len(old)
      BY <2>1 DEF RunRow
    <3>2. calcs = [old EXCEPT ![calc[2]] = calc1]
      OBVIOUS
    <3>3. CASE calc[2] \in DOMAIN old
      <4>1. old[calc[2]] \in [status : CalcStatus, result : BOOLEAN]
        <5> HIDE DEF old, calcs, calc1
        <5>1. calc[2] \in 1..Len(old)
          BY <3>1, <3>3
        <5> QED BY <3>1, <5>1, ElementOfSeq
      <4>2. calc1 \in [status : CalcStatus, result : BOOLEAN]
        BY <4>1
      <4> HIDE DEF old, calc1, calcs
      <4> QED BY <3>1, <3>2, <3>3, <4>2, ExceptSeq
    <3>4. CASE calc[2] \notin DOMAIN old
      <4> HIDE DEF old, calc1, calcs
      <4>1. calcs = old
        BY <3>1, <3>2, <3>4
      <4> QED BY <4>1, <3>1
    <3> QED BY <3>3, <3>4
  <2>2. row \in RunRow /\ row.id = a.runs[i].id
    <3>1. row = [a.runs[i] EXCEPT !.calcs = calcs]
      OBVIOUS
    <3> HIDE DEF calcs, row, old
    <3> QED BY <2>1, <2>a, <3>1 DEF RunRow
  <2>3. b = [a EXCEPT !.runs = [a.runs EXCEPT ![i] = row]]
    BY <1>3 DEF UpdateCalcStatus, AppOK, App
  <2>4. b.runs = [a.runs EXCEPT ![i] = row] /\ b.index = a.index /\ SameButList(a, b)
    BY <2>3 DEF App, AppOK, SameButList
  <2> HIDE DEF b, i, row
  <2>5. /\ b.runs \in Seq(RunRow) /\ DOMAIN b.runs = 1..Len(a.runs)
        /\ \A k \in 1..Len(a.runs) : b.runs[k].id = a.runs[k].id
    BY <1>1, <2>1, <2>2, <2>4
  <2>6. Ids(b.runs) = Ids(a.runs)
    BY <1>1, <2>5 DEF Ids
  <2>7. Indexed(b)
    BY <1>1, <2>4, <2>5, <2>6 DEF Indexed, AppOK
  <2>8. b \in App
    BY <2>3, <2>4, <2>5 DEF App, AppOK
  <2> QED BY <2>4, <2>6, <2>7, <2>8 DEF AppOK, b
<1> QED BY <1>2, <1>3

----------------------------------------------------------------------------
(* Rows and selections                                                     *)

(* The visible rows are rows of the list. *)
LEMMA VisibleRunsOK ==
    ASSUME NEW a \in App
    PROVE  VisibleRuns(a) \in Seq(RunRow)
<1> DEFINE S == {k \in DOMAIN a.runs : /\ a.status \in {"all", a.runs[k].status}
                                      /\ a.runs[k].id \in a.search}
           B == {p \in S \X S : p[1] < p[2]}
           place(i) == Cardinality({j \in S : j = i \/ j < i})
           row(k) == CHOOSE i \in S : place(i) = k
           n == Cardinality(S)
<1>1. a.runs \in Seq(RunRow) /\ DOMAIN a.runs = 1..Len(a.runs) /\ Len(a.runs) \in Nat
  BY DEF App
<1>2. IsFiniteSet(S) /\ S \subseteq 1..Len(a.runs)
  <2>1. S \subseteq 1..Len(a.runs) /\ IsFiniteSet(1..Len(a.runs))
    BY <1>1, FS_Interval
  <2> HIDE DEF S
  <2> QED BY <2>1, FS_Subset
<1>3. VisibleRuns(a) = [k \in 1..n |-> a.runs[row(k)]]
  <2>1. Ordered(S, <) = [k \in 1..n |-> row(k)]
    BY DEF Ordered
  <2>2. VisibleRuns(a) = [k \in DOMAIN Ordered(S, <) |-> a.runs[Ordered(S, <)[k]]]
    BY DEF VisibleRuns
  <2> HIDE DEF row, S
  <2> QED BY <2>1, <2>2
<1> HIDE DEF S
<1>4. Orders(B, S) /\ \A i, j \in S : <<i, j>> \in B <=> i < j
  BY <1>2 DEF Orders
<1> HIDE DEF B
<1>5. \A i \in S : place(i) = Place(i, S, B)
  <2>1. \A i \in S : {j \in S : j = i \/ j < i} = {j \in S : j = i \/ <<j, i>> \in B}
    BY <1>4
  <2> QED BY <2>1 DEF Place
<1>6. \A k \in 1..n : row(k) \in S
  <2>1. \A k \in 1..n : \E i \in S : Place(i, S, B) = k
    BY <1>2, <1>4, PlacesAreTaken
  <2> HIDE DEF place
  <2>2. \A k \in 1..n : \E i \in S : place(i) = k
    BY <2>1, <1>5
  <2> QED BY <2>2
<1> HIDE DEF place, row
<1>7. ASSUME NEW k \in 1..n PROVE a.runs[row(k)] \in RunRow
  <2>1. row(k) \in 1..Len(a.runs)
    BY <1>2, <1>6
  <2> QED BY <1>1, <2>1, ElementOfSeq
<1>8. n \in Nat
  BY <1>2, FS_CardinalityType
<1> HIDE DEF n
<1> QED BY <1>3, <1>7, <1>8

(* What is selected is in the list. *)
LEMMA SelectionOK ==
    ASSUME NEW a \in App
    PROVE  /\ LastRow(a) \in Nat
           /\ HasSelectedRun(a) => SelectedRun(a) \in RunRow /\ LastCalc(a) \in Nat
           /\ HasSelectedCalc(a) => SelectedCalcId(a) \in CalcId
           /\ a.anchor # NoAnchor => VisualRuns(a) \in Seq(RunRow)
<1>1. VisibleRuns(a) \in Seq(RunRow) /\ Len(VisibleRuns(a)) \in Nat
  BY VisibleRunsOK
<1>2. a.runCursor \in Nat /\ a.calcCursor \in Nat /\ a.anchor \in Nat \cup {NoAnchor}
  BY DEF App
<1>3. LastRow(a) \in Nat
  BY <1>1 DEF LastRow, Minus
<1>4. ASSUME HasSelectedRun(a) PROVE SelectedRun(a) \in RunRow /\ LastCalc(a) \in Nat
  <2>1. a.runCursor + 1 \in 1..Len(VisibleRuns(a))
    BY <1>1, <1>2, <1>4 DEF HasSelectedRun
  <2>2. SelectedRun(a) \in RunRow
    BY <1>1, <2>1, ElementOfSeq DEF SelectedRun
  <2>3. Len(SelectedRun(a).calcs) \in Nat
    BY <2>2 DEF RunRow
  <2> QED BY <2>2, <2>3 DEF LastCalc, Minus
<1>5. ASSUME HasSelectedCalc(a) PROVE SelectedCalcId(a) \in CalcId
  <2>1. SelectedRun(a) \in RunRow
    BY <1>4, <1>5 DEF HasSelectedCalc
  <2> QED BY <1>2, <2>1 DEF SelectedCalcId, CalcId, RunRow
<1>6. ASSUME a.anchor # NoAnchor PROVE VisualRuns(a) \in Seq(RunRow)
  <2> DEFINE lo == Lesser(a.anchor, a.runCursor)
             hi == IF lo = a.anchor THEN a.runCursor ELSE a.anchor
             to == Lesser(hi + 1, Len(VisibleRuns(a)))
  <2>1. lo \in Nat /\ to \in Nat /\ to <= Len(VisibleRuns(a))
    BY <1>1, <1>2, <1>6 DEF Lesser
  <2>2. VisualRuns(a) = SubSeq(VisibleRuns(a), lo + 1, to)
    BY DEF VisualRuns
  <2> HIDE DEF lo, to
  <2>3. \A i \in (lo + 1)..to : VisibleRuns(a)[i] \in RunRow
    BY <1>1, <2>1, ElementOfSeq
  <2>4. SubSeq(VisibleRuns(a), lo + 1, to) \in Seq(RunRow)
    BY <2>1, <2>3, SubSeqProperties
  <2> QED BY <2>2, <2>4
<1> QED BY <1>3, <1>4, <1>5, <1>6

(* A bulk retry asks for retries of calculations, and for nothing else. *)
LEMMA FailedOfOK ==
    ASSUME NEW runs \in Seq(RunRow)
    PROVE  FailedOf(runs) \in Seq([op : {"retryCalc"}, calc : CalcId])
<1>1. DOMAIN runs = 1..Len(runs) /\ Len(runs) \in Nat
  OBVIOUS
<1>2. ASSUME NEW k \in DOMAIN runs
      PROVE  /\ runs[k].id \in Runs /\ Len(runs[k].calcs) \in Nat
             /\ DOMAIN runs[k].calcs = 1..Len(runs[k].calcs)
  <2>1. runs[k] \in RunRow
    BY <1>1, ElementOfSeq
  <2>2. runs[k].id \in Runs /\ runs[k].calcs \in Seq([status : CalcStatus, result : BOOLEAN])
    BY <2>1 DEF RunRow
  <2> QED BY <2>2
<1> DEFINE calcs(k) == {k} \X DOMAIN runs[k].calcs
           All == UNION {calcs(k) : k \in DOMAIN runs}
           S == {at \in All : runs[at[1]].calcs[at[2]].status = "failed"}
           earlier(at, to) == at[1] < to[1] \/ (at[1] = to[1] /\ at[2] < to[2])
           B == {p \in S \X S : earlier(p[1], p[2])}
           place(x) == Cardinality({y \in S : y = x \/ earlier(y, x)})
           at(k) == CHOOSE x \in S : place(x) = k
           n == Cardinality(S)
<1>3. IsFiniteSet(S)
  <2> DEFINE T == {calcs(k) : k \in DOMAIN runs}
             f == [k \in DOMAIN runs |-> calcs(k)]
  <2>1. IsFiniteSet(DOMAIN runs)
    BY <1>1, FS_Interval
  <2>2. f \in Surjection(DOMAIN runs, T)
    <3> HIDE DEF calcs
    <3> QED BY DEF Surjection
  <2>3. IsFiniteSet(T)
    <3> HIDE DEF T, f
    <3> QED BY <2>1, <2>2, FS_Surjection
  <2>4. ASSUME NEW k \in DOMAIN runs PROVE IsFiniteSet(calcs(k))
    <3>1. IsFiniteSet({k})
      BY FS_Singleton
    <3>2. IsFiniteSet(1..Len(runs[k].calcs))
      BY <1>2, FS_Interval
    <3>3. calcs(k) = {k} \X (1..Len(runs[k].calcs))
      BY <1>2
    <3> QED BY <3>1, <3>2, <3>3, FS_Product
  <2>5. \A U \in T : IsFiniteSet(U)
    <3> HIDE DEF calcs
    <3> QED BY <2>4
  <2>6. IsFiniteSet(All)
    <3> HIDE DEF calcs
    <3>1. All = UNION T
      OBVIOUS
    <3> HIDE DEF All, T
    <3> QED BY <2>3, <2>5, <3>1, FS_UNION
  <2>7. S \in SUBSET All
    OBVIOUS
  <2> HIDE DEF All, S
  <2> QED BY <2>6, <2>7, FS_Subset
<1>4. \A x \in S : x = <<x[1], x[2]>> /\ x[1] \in 1..Len(runs) /\ x[2] \in Nat
  <2>1. ASSUME NEW x \in S PROVE x = <<x[1], x[2]>> /\ x[1] \in 1..Len(runs) /\ x[2] \in Nat
    <3>1. PICK k \in DOMAIN runs : x \in calcs(k)
      OBVIOUS
    <3>2. x = <<x[1], x[2]>> /\ x[1] = k /\ x[2] \in DOMAIN runs[k].calcs
      BY <3>1
    <3> QED BY <3>2, <1>1, <1>2
  <2> QED BY <2>1
<1> HIDE DEF S
<1>5. Orders(B, S) /\ \A x, y \in S : <<x, y>> \in B <=> earlier(x, y)
  <2>1. \A x, y \in S : <<x, y>> \in B <=> earlier(x, y)
    OBVIOUS
  <2>2. \A x \in S : ~earlier(x, x)
    BY <1>4
  <2>3. ASSUME NEW x \in S, NEW y \in S, NEW z \in S, earlier(x, y), earlier(y, z) PROVE earlier(x, z)
    <3>1. x[1] \in Int /\ x[2] \in Int /\ y[1] \in Int /\ y[2] \in Int /\ z[1] \in Int /\ z[2] \in Int
      BY <1>4
    <3> QED BY <2>3, <3>1
  <2>4. ASSUME NEW x \in S, NEW y \in S PROVE x = y \/ earlier(x, y) \/ earlier(y, x)
    <3>1. x[1] \in Int /\ x[2] \in Int /\ y[1] \in Int /\ y[2] \in Int
      BY <1>4
    <3> QED BY <1>4, <3>1
  <2> HIDE DEF B, earlier
  <2> QED BY <2>1, <2>2, <2>3, <2>4 DEF Orders
<1>6. FailedOf(runs) = [k \in 1..n |-> [op |-> "retryCalc", calc |-> <<runs[at(k)[1]].id, at(k)[2]>>]]
  <2>1. Ordered(S, earlier) = [k \in 1..n |-> at(k)]
    BY DEF Ordered
  <2>2. FailedOf(runs) = [k \in DOMAIN Ordered(S, earlier) |->
           [op |-> "retryCalc",
            calc |-> <<runs[Ordered(S, earlier)[k][1]].id, Ordered(S, earlier)[k][2]>>]]
    BY DEF FailedOf, S
  <2> HIDE DEF at
  <2> QED BY <2>1, <2>2
<1> HIDE DEF B
<1>7. \A x \in S : place(x) = Place(x, S, B)
  <2>1. \A x \in S : {y \in S : y = x \/ earlier(y, x)} = {y \in S : y = x \/ <<y, x>> \in B}
    BY <1>5
  <2> QED BY <2>1 DEF Place
<1> HIDE DEF earlier
<1>8. \A k \in 1..n : at(k) \in S
  <2>1. \A k \in 1..n : \E x \in S : Place(x, S, B) = k
    BY <1>3, <1>5, PlacesAreTaken
  <2> HIDE DEF place
  <2>2. \A k \in 1..n : \E x \in S : place(x) = k
    BY <2>1, <1>7
  <2> QED BY <2>2
<1> HIDE DEF place, at
<1>9. ASSUME NEW k \in 1..n PROVE <<runs[at(k)[1]].id, at(k)[2]>> \in CalcId
  BY <1>1, <1>2, <1>4, <1>8 DEF CalcId
<1>10. n \in Nat
  BY <1>3, FS_CardinalityType
<1> HIDE DEF n
<1> QED BY <1>6, <1>9, <1>10

----------------------------------------------------------------------------
(* Keys                                                                    *)

\* b shows the list of a, with the same page to come.
SameList(a, b) == b \in App /\ b.runs = a.runs /\ b.index = a.index /\ b.next = a.next

\* And nothing but cursors, panes and screens has changed.
Moved(a, b) == SameList(a, b) /\ b.overlay = a.overlay

(* Keys that only move about leave the list alone. *)
LEMMA PanesMove ==
    ASSUME NEW a \in App
    PROVE  /\ \A direction : Moved(a, Focus(a, direction))
           /\ Moved(a, Leave(a)) /\ Moved(a, Back(a)) /\ Moved(a, Dashboard(a))
           /\ Moved(a, VisualToggle(a))
<1>1. ASSUME NEW direction PROVE Moved(a, Focus(a, direction))
  BY DEF Focus, Moved, SameList, App
<1>2. Moved(a, Leave(a)) /\ Moved(a, Dashboard(a))
  BY DEF Leave, Dashboard, Moved, SameList, App
<1>3. Moved(a, Back(a))
  BY DEF Back, Moved, SameList, App
<1>4. Moved(a, VisualToggle(a))
  BY DEF VisualToggle, Moved, SameList, App
<1> QED BY <1>1, <1>2, <1>3, <1>4

LEMMA CursorsMove ==
    ASSUME NEW a \in App, NEW i \in Nat, NEW j \in Nat
    PROVE  /\ Moved(a, a) /\ Moved(a, [a EXCEPT !.runCursor = i])
           /\ Moved(a, [a EXCEPT !.calcCursor = j])
           /\ Moved(a, [a EXCEPT !.runCursor = i, !.calcCursor = j])
BY DEF Moved, SameList, App

LEMMA RowsMove ==
    ASSUME NEW a \in App, NEW count \in Nat
    PROVE  /\ Moved(a, MoveUp(a, count)) /\ Moved(a, GotoTop(a)) /\ Moved(a, GotoBottom(a))
           /\ Moved(a, MoveDown(a, count)) /\ Moved(a, HalfPageDown(a, count))
           /\ Moved(a, HalfPageUp(a, count)) /\ Moved(a, Enter(a))
<1>1. /\ a.runCursor \in Nat /\ a.calcCursor \in Nat /\ LastRow(a) \in Nat
      /\ HasSelectedRun(a) => LastCalc(a) \in Nat
      /\ HalfPage * count \in Nat
  BY SelectionOK, TuiStateAssumption DEF App
<1>2. /\ \A i, j \in Nat : Lesser(i, j) \in Nat /\ Minus(i, j) \in Nat
      /\ 0 \in Nat
  BY DEF Lesser, Minus
<1>3. Moved(a, MoveUp(a, count))
  BY <1>1, <1>2, CursorsMove DEF MoveUp
<1>4. Moved(a, GotoTop(a))
  BY <1>1, <1>2, CursorsMove DEF GotoTop
<1>5. Moved(a, GotoBottom(a))
  BY <1>1, <1>2, CursorsMove DEF GotoBottom
<1>6. Moved(a, MoveDown(a, count))
  <2> DEFINE i == IF a.runCursor < LastRow(a) THEN Lesser(a.runCursor + count, LastRow(a)) ELSE a.runCursor
             j == IF a.calcCursor < LastCalc(a) THEN Lesser(a.calcCursor + count, LastCalc(a)) ELSE a.calcCursor
  <2>1. i \in Nat /\ (HasSelectedRun(a) => j \in Nat)
    BY <1>1 DEF Lesser
  <2>2. MoveDown(a, count) = CASE a.pane = "RunList" -> [a EXCEPT !.calcCursor = 0, !.runCursor = i]
                               [] a.pane = "CalcList" /\ HasSelectedRun(a) -> [a EXCEPT !.calcCursor = j]
                               [] OTHER -> a
    BY DEF MoveDown
  <2> HIDE DEF i, j
  <2>3. CASE a.pane = "RunList"
    <3>1. MoveDown(a, count) = [a EXCEPT !.calcCursor = 0, !.runCursor = i]
      BY <2>2, <2>3
    <3>2. \A m \in Nat : Moved(a, [a EXCEPT !.calcCursor = 0, !.runCursor = m])
      BY DEF Moved, SameList, App
    <3> QED BY <3>1, <3>2, <2>1
  <2>4. CASE a.pane # "RunList" /\ a.pane = "CalcList" /\ HasSelectedRun(a)
    <3>1. MoveDown(a, count) = [a EXCEPT !.calcCursor = j]
      BY <2>2, <2>4
    <3> QED BY <3>1, <2>1, <2>4, CursorsMove
  <2>5. CASE a.pane # "RunList" /\ ~(a.pane = "CalcList" /\ HasSelectedRun(a))
    <3>1. MoveDown(a, count) = a
      BY <2>2, <2>5
    <3> QED BY <3>1, <1>2, CursorsMove
  <2> QED BY <2>3, <2>4, <2>5
<1>7. Moved(a, HalfPageDown(a, count))
  <2> DEFINE i == Lesser(a.runCursor + HalfPage * count, LastRow(a))
             j == Lesser(a.calcCursor + HalfPage * count, LastCalc(a))
  <2>1. i \in Nat /\ (HasSelectedRun(a) => j \in Nat)
    BY <1>1 DEF Lesser
  <2>2. HalfPageDown(a, count) = CASE a.pane = "RunList" -> [a EXCEPT !.runCursor = i]
                                   [] a.pane = "CalcList" /\ HasSelectedRun(a) -> [a EXCEPT !.calcCursor = j]
                                   [] OTHER -> a
    BY DEF HalfPageDown
  <2> HIDE DEF i, j
  <2>3. CASE a.pane = "RunList"
    <3>1. HalfPageDown(a, count) = [a EXCEPT !.runCursor = i]
      BY <2>2, <2>3
    <3> QED BY <3>1, <2>1, <1>2, CursorsMove
  <2>4. CASE a.pane # "RunList" /\ a.pane = "CalcList" /\ HasSelectedRun(a)
    <3>1. HalfPageDown(a, count) = [a EXCEPT !.calcCursor = j]
      BY <2>2, <2>4
    <3> QED BY <3>1, <2>1, <2>4, CursorsMove
  <2>5. CASE a.pane # "RunList" /\ ~(a.pane = "CalcList" /\ HasSelectedRun(a))
    <3>1. HalfPageDown(a, count) = a
      BY <2>2, <2>5
    <3> QED BY <3>1, <1>2, CursorsMove
  <2> QED BY <2>3, <2>4, <2>5
<1>8. Moved(a, HalfPageUp(a, count))
  BY <1>1, <1>2, CursorsMove DEF HalfPageUp
<1>9. Moved(a, Enter(a))
  BY DEF Enter, Moved, SameList, App
<1> QED BY <1>3, <1>4, <1>5, <1>6, <1>7, <1>8, <1>9

(* The overlays leave the list alone. *)
LEMMA OverlaysMove ==
    ASSUME NEW a \in App
    PROVE  /\ \A o \in Overlay : SameList(a, [a EXCEPT !.overlay = o])
           /\ SameList(a, Close(a)) /\ Close(a).overlay = Closed
           /\ SameList(a, FilterOverlay(a))
           /\ a.overlay.kind = "filter" =>
                 /\ \A by \in Int : SameList(a, FilterMove(a, by))
                 /\ SameList(a, FilterChoose(a))
           /\ a.overlay.kind = "command" =>
                 /\ a.overlay.typed \in TypedCommand
                 /\ \A c \in TypedCommand : SameList(a, [a EXCEPT !.overlay.typed = c])
<1>1. \A o \in Overlay : SameList(a, [a EXCEPT !.overlay = o])
  BY DEF SameList, App
<1>2. Closed \in Overlay
  BY DEF Closed, Overlay
<1>3. SameList(a, Close(a)) /\ Close(a).overlay = Closed
  BY <1>1, <1>2 DEF Close, App
<1>4. FilterStatuses \in Seq(STRING) /\ 1 \in DOMAIN FilterStatuses
  BY TuiStateAssumption
<1>5. SameList(a, FilterOverlay(a))
  <2> DEFINE at == {i \in DOMAIN FilterStatuses : FilterStatuses[i] = a.status}
             cursor == IF at = {} THEN 1 ELSE CHOOSE i \in at : TRUE
  <2>1. cursor \in DOMAIN FilterStatuses
    BY <1>4
  <2>2. FilterOverlay(a) = [a EXCEPT !.overlay = [kind |-> "filter", cursor |-> cursor]]
    BY DEF FilterOverlay
  <2> HIDE DEF cursor
  <2>3. [kind |-> "filter", cursor |-> cursor] \in Overlay
    BY <2>1 DEF Overlay
  <2> QED BY <2>2, <2>3, <1>1
<1>6. ASSUME a.overlay.kind = "filter", NEW by \in Int
      PROVE  SameList(a, FilterMove(a, by))
  <2>1. a.overlay \in Overlay
    BY DEF App
  <2>2. a.overlay \in [kind : {"filter"}, cursor : DOMAIN FilterStatuses]
    BY <2>1, <1>6 DEF Overlay
  <2>3. CASE a.overlay.cursor + by \in DOMAIN FilterStatuses
    <3> DEFINE o == [a.overlay EXCEPT !.cursor = a.overlay.cursor + by]
    <3>1. o \in [kind : {"filter"}, cursor : DOMAIN FilterStatuses]
      BY <2>2, <2>3
    <3>2. FilterMove(a, by) = [a EXCEPT !.overlay = o]
      BY <2>3 DEF FilterMove
    <3> HIDE DEF o
    <3>3. o \in Overlay
      BY <3>1 DEF Overlay
    <3> QED BY <3>2, <3>3, <1>1
  <2>4. CASE a.overlay.cursor + by \notin DOMAIN FilterStatuses
    BY <2>4 DEF FilterMove, SameList
  <2> QED BY <2>3, <2>4
<1>7. ASSUME a.overlay.kind = "filter" PROVE SameList(a, FilterChoose(a))
  <2>1. a.overlay \in Overlay
    BY DEF App
  <2>2. a.overlay.cursor \in DOMAIN FilterStatuses
    BY <2>1, <1>7 DEF Overlay
  <2>3. FilterStatuses[a.overlay.cursor] \in STRING
    BY <2>2, <1>4
  <2> QED BY <2>3, <1>2 DEF FilterChoose, SameList, App
<1>8. ASSUME a.overlay.kind = "command"
      PROVE  /\ a.overlay.typed \in TypedCommand
             /\ \A c \in TypedCommand : SameList(a, [a EXCEPT !.overlay.typed = c])
  <2>1. a.overlay \in Overlay
    BY DEF App
  <2>2. a.overlay \in [kind : {"command"}, typed : TypedCommand]
    BY <2>1, <1>8 DEF Overlay
  <2>3. ASSUME NEW c \in TypedCommand PROVE SameList(a, [a EXCEPT !.overlay.typed = c])
    <3> DEFINE o == [a.overlay EXCEPT !.typed = c]
    <3>1. o \in [kind : {"command"}, typed : TypedCommand]
      BY <2>2
    <3>2. [a EXCEPT !.overlay.typed = c] = [a EXCEPT !.overlay = o]
      OBVIOUS
    <3> HIDE DEF o
    <3>3. o \in Overlay
      BY <3>1 DEF Overlay
    <3> QED BY <3>2, <3>3, <1>1
  <2> QED BY <2>2, <2>3
<1> QED BY <1>1, <1>3, <1>5, <1>6, <1>7, <1>8

Plain == Effect \ Requests

\* A key that leaves the list alone and asks for no page; a dialog that it closes
\* has sent what it showed, or nothing.
Acts ==
    \E b \in App, effects \in Seq(Plain) :
        /\ SameList(app, b) /\ Presses(b, effects)
        /\ app.overlay.kind = "confirm" /\ b.overlay = Closed
              => effects \in {<<>>, <<app.overlay.command>>}

\* A key that asks for the next page.
AsksForMore ==
    /\ InList /\ app.next # None
    /\ \E b \in App :
          /\ Moved(app, b)
          /\ Presses([b EXCEPT !.next = None], <<[op |-> "loadMore", cursor |-> app.next]>>)

(* With the list in front no dialog can be confirmed. *)
LEMMA InListActs ==
    ASSUME InList, NEW b \in App, NEW effects \in Seq(Plain), SameList(app, b), Presses(b, effects)
    PROVE  Acts
BY DEF InList, Closed, Acts

(* The commands that are no requests for a page. *)
LEMMA PlainEffects ==
    /\ <<>> \in Seq(Plain)
    /\ \A id \in CalcId : [op |-> "retryCalc", calc |-> id] \in Plain
    /\ \A id \in CalcId : [op |-> "cancelCalc", calc |-> id] \in Plain \cap Cancel
    /\ \A r \in Runs : [op |-> "cancelRun", run |-> r] \in Plain \cap Cancel
    /\ \A op \in {"refresh", "import", "submit", "save"} : [op |-> op] \in Plain
    /\ Cancel \subseteq Plain
    /\ \A e \in Plain : <<e>> \in Seq(Plain)
BY DEF Plain, Effect, Requests, Cancel

(* The keys, one by one. *)
LEMMA KeyIgnoredActs == ASSUME app \in App, KeyIgnored PROVE Acts
BY PlainEffects DEF KeyIgnored, Acts, SameList

LEMMA KeyMovesActs == ASSUME app \in App, KeyMoves PROVE Acts
<1>1. PICK b : /\ b \in {Focus(app, "prev"), Focus(app, "next"), Back(app), Dashboard(app),
                         GotoTop(app), GotoBottom(app), Enter(app), VisualToggle(app)}
                        \cup UNION {{MoveUp(app, n), HalfPageDown(app, n), HalfPageUp(app, n)} : n \in Counts}
               /\ Presses(b, <<>>) /\ InList
  BY DEF KeyMoves
<1>2. Counts \subseteq Nat
  BY TuiAssumption
<1>3. Moved(app, b)
  BY <1>1, <1>2, PanesMove, RowsMove
<1> QED BY <1>1, <1>3, InListActs, PlainEffects DEF Moved, SameList

LEMMA KeyDownActs == ASSUME app \in App, KeyDown PROVE Acts \/ AsksForMore
<1>1. PICK count \in Counts :
         LET next == MoveDown(app, count)
             bottom == app.pane = "RunList" /\ next.runCursor + 1 >= Len(VisibleRuns(app))
         IN IF bottom /\ app.next # None
            THEN Presses([next EXCEPT !.next = None], <<[op |-> "loadMore", cursor |-> app.next]>>)
            ELSE next # app /\ Presses(next, <<>>)
  BY DEF KeyDown
<1>2. Moved(app, MoveDown(app, count)) /\ MoveDown(app, count) \in App /\ InList
  BY TuiAssumption, RowsMove DEF Moved, SameList, KeyDown
<1>3. CASE Presses(MoveDown(app, count), <<>>)
  BY <1>2, <1>3, InListActs, PlainEffects DEF Moved
<1>4. CASE /\ app.next # None
           /\ Presses([MoveDown(app, count) EXCEPT !.next = None],
                      <<[op |-> "loadMore", cursor |-> app.next]>>)
  BY <1>2, <1>4 DEF AsksForMore
<1> QED BY <1>1, <1>3, <1>4

LEMMA KeyRefreshActs == ASSUME app \in App, KeyRefresh PROVE Acts
<1> DEFINE b == [app EXCEPT !.loading = TRUE, !.anchor = NoAnchor]
<1>1. SameList(app, b)
  BY DEF SameList, App
<1>2. <<[op |-> "refresh"]>> \in Seq(Plain)
  BY PlainEffects
<1> QED BY <1>1, <1>2, InListActs DEF KeyRefresh, SameList

LEMMA KeyCancelActs == ASSUME app \in App, KeyCancel PROVE Acts
<1>1. InList
  BY DEF KeyCancel
<1>2. CASE app.anchor # NoAnchor
  <2> DEFINE b == [app EXCEPT !.anchor = NoAnchor]
             runs == VisualRuns(app)
             effects == [k \in DOMAIN runs |-> [op |-> "cancelRun", run |-> runs[k].id]]
  <2>1. Presses(b, effects)
    BY <1>2 DEF KeyCancel
  <2>2. runs \in Seq(RunRow)
    BY <1>2, SelectionOK
  <2>3. DOMAIN runs = 1..Len(runs) /\ Len(runs) \in Nat /\ \A k \in DOMAIN runs : runs[k].id \in Runs
    <3> HIDE DEF runs
    <3>1. DOMAIN runs = 1..Len(runs) /\ Len(runs) \in Nat
      BY <2>2
    <3>2. \A k \in DOMAIN runs : runs[k] \in RunRow
      BY <2>2, <3>1, ElementOfSeq
    <3> QED BY <3>1, <3>2 DEF RunRow
  <2>4. effects \in Seq(Plain)
    <3> HIDE DEF runs
    <3>1. \A k \in 1..Len(runs) : [op |-> "cancelRun", run |-> runs[k].id] \in Plain
      BY <2>3, PlainEffects
    <3> QED BY <2>3, <3>1
  <2>5. SameList(app, b)
    BY DEF SameList, App
  <2> HIDE DEF b, effects
  <2> QED BY <1>1, <2>1, <2>4, <2>5, InListActs DEF SameList
<1>3. ASSUME NEW command \in Cancel, Presses([app EXCEPT !.overlay = Confirm(command)], <<>>)
      PROVE  Acts
  <2>1. Confirm(command) \in Overlay
    BY DEF Confirm, Overlay
  <2>2. SameList(app, [app EXCEPT !.overlay = Confirm(command)])
    BY <2>1, OverlaysMove
  <2> QED BY <1>1, <1>3, <2>2, InListActs, PlainEffects DEF SameList
<1>4. CASE app.anchor = NoAnchor /\ app.pane = "RunList"
  <2>1. /\ HasSelectedRun(app)
        /\ Presses([app EXCEPT !.overlay =
              Confirm([op |-> "cancelRun", run |-> SelectedRun(app).id])], <<>>)
    BY <1>4 DEF KeyCancel
  <2>2. SelectedRun(app).id \in Runs
    BY <2>1, SelectionOK DEF RunRow
  <2>3. [op |-> "cancelRun", run |-> SelectedRun(app).id] \in Cancel
    BY <2>2, PlainEffects
  <2> QED BY <1>3, <2>1, <2>3
<1>5. CASE app.anchor = NoAnchor /\ app.pane # "RunList"
  <2>1. /\ HasSelectedCalc(app)
        /\ Presses([app EXCEPT !.overlay =
              Confirm([op |-> "cancelCalc", calc |-> SelectedCalcId(app)])], <<>>)
    BY <1>5 DEF KeyCancel
  <2>2. [op |-> "cancelCalc", calc |-> SelectedCalcId(app)] \in Cancel
    BY <2>1, SelectionOK, PlainEffects
  <2> QED BY <1>3, <2>1, <2>2
<1> QED BY <1>2, <1>4, <1>5

LEMMA KeyRetryActs == ASSUME app \in App, KeyRetry PROVE Acts
<1>1. InList
  BY DEF KeyRetry
<1>2. CASE app.anchor # NoAnchor
  <2> DEFINE b == [app EXCEPT !.anchor = NoAnchor]
  <2>1. Presses(b, FailedOf(VisualRuns(app)))
    BY <1>2 DEF KeyRetry
  <2>2. FailedOf(VisualRuns(app)) \in Seq([op : {"retryCalc"}, calc : CalcId])
    BY <1>2, SelectionOK, FailedOfOK
  <2>3. FailedOf(VisualRuns(app)) \in Seq(Plain)
    <3>1. [op : {"retryCalc"}, calc : CalcId] \subseteq Plain
      BY DEF Plain, Effect, Requests, Cancel
    <3> QED BY <2>2, <3>1, SeqMonotonic
  <2>4. SameList(app, b)
    BY DEF SameList, App
  <2> QED BY <1>1, <2>1, <2>3, <2>4, InListActs DEF SameList
<1>3. CASE app.anchor = NoAnchor
  <2>1. /\ HasSelectedCalc(app)
        /\ Presses(app, <<[op |-> "retryCalc", calc |-> SelectedCalcId(app)]>>)
    BY <1>3 DEF KeyRetry
  <2>2. <<[op |-> "retryCalc", calc |-> SelectedCalcId(app)]>> \in Seq(Plain)
    BY <2>1, SelectionOK, PlainEffects
  <2>3. SameList(app, app)
    BY DEF SameList
  <2> QED BY <1>1, <2>1, <2>2, <2>3, InListActs
<1> QED BY <1>2, <1>3

LEMMA KeySaveActs == ASSUME app \in App, KeySave PROVE Acts
<1>1. InList /\ Presses(app, <<[op |-> "save"]>>) /\ SameList(app, app)
  BY DEF KeySave, SameList
<1> QED BY <1>1, InListActs, PlainEffects

LEMMA KeyOpensActs == ASSUME app \in App, KeyOpens PROVE Acts
<1>1. PICK b : /\ b \in {FilterOverlay(app), [app EXCEPT !.overlay = [kind |-> "help"]]}
                        \cup {[app EXCEPT !.overlay = [kind |-> "command", typed |-> c]] :
                                 c \in {[op |-> "unknown"], [op |-> "search", matches |-> Runs]}}
               /\ Presses(b, <<>>) /\ InList
  BY DEF KeyOpens
<1>2. /\ [kind |-> "help"] \in Overlay
      /\ [kind |-> "command", typed |-> [op |-> "unknown"]] \in Overlay
      /\ [kind |-> "command", typed |-> [op |-> "search", matches |-> Runs]] \in Overlay
  BY DEF Overlay, TypedCommand
<1>3. SameList(app, b)
  BY <1>1, <1>2, OverlaysMove
<1> QED BY <1>1, <1>3, InListActs, PlainEffects DEF SameList

LEMMA KeyFiltersActs == ASSUME app \in App, KeyFilters PROVE Acts
<1>1. PICK b \in {FilterMove(app, 1), FilterMove(app, -1), FilterChoose(app)} : Presses(b, <<>>)
  BY DEF KeyFilters
<1>2. app.overlay.kind = "filter" /\ 1 \in Int /\ -1 \in Int
  BY DEF KeyFilters
<1>3. SameList(app, b)
  BY <1>1, <1>2, OverlaysMove
<1> QED BY <1>1, <1>2, <1>3, PlainEffects DEF Acts, SameList

LEMMA KeyClosesActs == ASSUME app \in App, KeyCloses PROVE Acts
<1>1. Presses(Close(app), <<>>) /\ SameList(app, Close(app))
  BY OverlaysMove DEF KeyCloses
<1> QED BY <1>1, PlainEffects DEF Acts, SameList

LEMMA KeyConfirmsActs == ASSUME app \in App, KeyConfirms PROVE Acts
<1>1. SameList(app, Close(app))
  BY OverlaysMove
<1>2. app.overlay.command \in Cancel
  <2>1. app.overlay \in Overlay /\ app.overlay.kind = "confirm"
    BY DEF App, KeyConfirms
  <2> QED BY <2>1 DEF Overlay
<1>3. <<app.overlay.command>> \in Seq(Plain)
  BY <1>2, PlainEffects
<1>4. Presses(Close(app), <<>>) \/ Presses(Close(app), <<app.overlay.command>>)
  BY DEF KeyConfirms
<1> QED BY <1>1, <1>3, <1>4, PlainEffects DEF Acts, SameList

LEMMA KeyQuitsActs == ASSUME app \in App, KeyQuits PROVE Acts \/ Quits
<1>1. CASE Presses(Leave(app), <<>>) /\ InList
  BY <1>1, PanesMove, InListActs, PlainEffects DEF Moved, SameList
<1> QED BY <1>1 DEF KeyQuits

LEMMA KeyTypesActs == ASSUME app \in App, KeyTypes PROVE Acts
<1>1. PICK c \in Commands : Presses([app EXCEPT !.overlay.typed = c], <<>>)
  BY DEF KeyTypes
<1>2. c \in TypedCommand /\ app.overlay.kind = "command"
  BY TuiAssumption DEF KeyTypes
<1>3. SameList(app, [app EXCEPT !.overlay.typed = c])
  BY <1>2, OverlaysMove
<1> QED BY <1>1, <1>2, <1>3, PlainEffects DEF Acts, SameList

LEMMA KeyRunsActs == ASSUME app \in App, KeyRuns PROVE Acts \/ Quits
<1> DEFINE command == app.overlay.typed
           closed == Close(app)
<1>1. command \in TypedCommand /\ app.overlay.kind = "command" /\ SameList(app, closed)
  BY OverlaysMove DEF KeyRuns
<1> HIDE DEF closed
<1>2. ASSUME NEW b, SameList(app, b), NEW effects \in Seq(Plain), Presses(b, effects) PROVE Acts
  BY <1>1, <1>2 DEF Acts, SameList
<1>3. CASE command.op = "search"
  <2>1. command.matches \in SUBSET Runs
    BY <1>1, <1>3 DEF TypedCommand
  <2>2. SameList(app, [closed EXCEPT !.search = command.matches])
    BY <1>1, <2>1 DEF SameList, App
  <2>3. Presses([closed EXCEPT !.search = command.matches], <<>>)
    BY <1>3 DEF KeyRuns, closed
  <2> QED BY <1>2, <2>2, <2>3, PlainEffects
<1>4. CASE command.op = "filter"
  <2> DEFINE status == IF command.status = "" THEN "all" ELSE command.status
  <2>1. status \in STRING
    <3>1. command.status \in STRING
      BY <1>1, <1>4 DEF TypedCommand
    <3>2. "all" \in STRING
      BY TuiStateAssumption
    <3> QED BY <3>1, <3>2
  <2>2. SameList(app, [closed EXCEPT !.status = status])
    <3> HIDE DEF status
    <3> QED BY <1>1, <2>1 DEF SameList, App
  <2>3. Presses([closed EXCEPT !.status = status], <<>>)
    BY <1>4 DEF KeyRuns, closed
  <2> QED BY <1>2, <2>2, <2>3, PlainEffects
<1>5. CASE command.op = "quit"
  BY <1>5 DEF KeyRuns
<1>6. CASE command.op \in {"refresh", "import", "submit"}
  <2>1. command \in Plain
    BY <1>1, <1>6 DEF TypedCommand, Plain, Effect, Requests
  <2>2. <<command>> \in Seq(Plain)
    BY <2>1
  <2>3. SameList(app, [closed EXCEPT !.loading = TRUE])
    BY <1>1 DEF SameList, App
  <2>4. Presses([closed EXCEPT !.loading = TRUE], <<command>>) \/ Presses(closed, <<command>>)
    BY <1>6 DEF KeyRuns, closed
  <2> QED BY <1>1, <1>2, <2>2, <2>3, <2>4
<1>7. CASE command.op = "unknown"
  <2>1. Presses(closed, <<>>)
    BY <1>7 DEF KeyRuns, closed
  <2> QED BY <1>1, <1>2, <2>1, PlainEffects
<1>8. command.op \in {"unknown", "quit", "refresh", "import", "submit", "search", "filter"}
  BY <1>1 DEF TypedCommand
<1> QED BY <1>3, <1>4, <1>5, <1>6, <1>7, <1>8

(* What keys can do. *)
LEMMA KeysAct == ASSUME app \in App, Key PROVE Acts \/ AsksForMore \/ Quits
BY KeyIgnoredActs, KeyMovesActs, KeyDownActs, KeyRefreshActs, KeyCancelActs, KeyRetryActs, KeySaveActs,
   KeyOpensActs, KeyFiltersActs, KeyClosesActs, KeyConfirmsActs, KeyQuitsActs, KeyTypesActs,
   KeyRunsActs DEF Key

----------------------------------------------------------------------------
(* Lists from the daemon                                                   *)

(* A row as the daemon sends it. *)
LEMMA SnapshotOK ==
    ASSUME Types, NEW r \in Runs
    PROVE  Snapshot(r) \in RunRow /\ Snapshot(r).id = r
<1> DEFINE calcs == [k \in DOMAIN server[r] |->
                        [status |-> server[r][k], result |-> server[r][k] = "succeeded"]]
<1>1. /\ server[r] \in Seq({"running", "failed", "succeeded"})
      /\ DOMAIN server[r] = 1..Len(server[r]) /\ Len(server[r]) \in Nat
  BY DEF Types
<1>2. ASSUME NEW k \in DOMAIN server[r]
      PROVE  [status |-> server[r][k], result |-> server[r][k] = "succeeded"]
                \in [status : CalcStatus, result : BOOLEAN]
  <2>1. server[r][k] \in {"running", "failed", "succeeded"}
    BY <1>1, ElementOfSeq
  <2> QED BY <2>1 DEF CalcStatus, ActiveCalc, TerminalCalc
<1>3. calcs \in Seq([status : CalcStatus, result : BOOLEAN])
  BY <1>1, <1>2
<1>4. \A statuses : DeriveRunStatus(statuses) \in RunStatus
  BY DEF DeriveRunStatus, RunStatus
<1>5. Snapshot(r) = [id |-> r, calcs |-> calcs,
                     status |-> DeriveRunStatus({server[r][k] : k \in DOMAIN server[r]})]
  BY DEF Snapshot
<1> HIDE DEF calcs
<1> QED BY <1>3, <1>4, <1>5 DEF RunRow

(* A list from the daemon has the first runs after the cursor; what it leaves out
   is older than its own cursor. *)
LEMMA ListRunsOK ==
    ASSUME Types, NEW type \in {"runsLoaded", "moreLoaded"}, NEW cursor \in Runs \cup {None},
           NEW limit \in Nat \ {0}
    PROVE  LET m == ListRuns(type, cursor, limit) IN
           /\ m \in Load /\ m.type = type /\ m.known = Submitted
           /\ \A r \in After(cursor) : r \in Ids(m.runs) \/ (m.next # None /\ Older(r, m.next))
<1> DEFINE page == PageIds(cursor, limit)
           runs == [k \in DOMAIN page |-> Snapshot(page[k])]
           next == IF Len(page) = limit THEN page[limit] ELSE None
           m == ListRuns(type, cursor, limit)
<1>1. /\ page \in Seq(After(cursor)) /\ Len(page) <= limit
      /\ \A r \in After(cursor) :
            \/ \E k \in DOMAIN page : page[k] = r
            \/ Len(page) = limit /\ Older(r, page[limit])
  BY PagesAreWhole
<1>2. After(cursor) \subseteq Runs /\ Submitted \subseteq Runs
  BY DEF After, Submitted
<1>3. m = [type |-> type, runs |-> runs, next |-> next, known |-> Submitted]
  BY DEF ListRuns
<1> HIDE DEF page, m
<1>4. DOMAIN page = 1..Len(page) /\ Len(page) \in Nat /\ \A k \in DOMAIN page : page[k] \in Runs
  <2>1. DOMAIN page = 1..Len(page) /\ Len(page) \in Nat
    BY <1>1
  <2>2. \A k \in DOMAIN page : page[k] \in After(cursor)
    BY <1>1, <2>1, ElementOfSeq
  <2> QED BY <2>1, <2>2, <1>2
<1>5. runs \in Seq(RunRow) /\ DOMAIN runs = DOMAIN page
  <2>1. \A k \in 1..Len(page) : Snapshot(page[k]) \in RunRow
    BY <1>4, SnapshotOK
  <2> QED BY <1>4, <2>1
<1>6. \A k \in DOMAIN page : runs[k].id = page[k]
  BY <1>4, SnapshotOK
<1>7. next \in Runs \cup {None}
  <2>1. Len(page) = limit => limit \in DOMAIN page
    BY <1>4
  <2> QED BY <2>1, <1>4
<1>8. None \notin Runs
  BY TuiStateAssumption DEF None
<1>9. ASSUME NEW r \in After(cursor)
      PROVE  r \in Ids(runs) \/ (next # None /\ Older(r, next))
  <2>1. CASE \E k \in DOMAIN page : page[k] = r
    <3> HIDE DEF runs
    <3> QED BY <2>1, <1>5, <1>6 DEF Ids
  <2>2. CASE Len(page) = limit /\ Older(r, page[limit])
    <3>1. limit \in DOMAIN page
      BY <2>2, <1>4
    <3> QED BY <2>2, <3>1, <1>4, <1>8
  <2> QED BY <1>1, <2>1, <2>2
<1> HIDE DEF runs, next
<1>10. m \in Load
  BY <1>2, <1>3, <1>5, <1>7 DEF Load
<1>11. m.type = type /\ m.known = Submitted /\ m.runs = runs /\ m.next = next
  BY <1>3
<1> QED BY <1>9, <1>10, <1>11 DEF m

----------------------------------------------------------------------------
(* Messages, commands and where a run may be on its way                    *)

(* What the types of messages tell. *)
LEMMA Messages ==
    /\ Text \in Message /\ Text.type = "text" /\ [type |-> "key"] \in Message
    /\ Change \subseteq Message /\ Load \subseteq Message
    /\ \A m \in Change : m.type = "calcChanged"
    /\ \A m \in Load : m.type \in {"runsLoaded", "moreLoaded"}
    /\ \A m \in Message :
          /\ m.type = "calcChanged" => m \in Change
          /\ m.type \in {"runsLoaded", "moreLoaded"} => m \in Load
          /\ m \in Pages <=> m.type = "moreLoaded"
BY DEF Text, Message, Change, Load, Pages

LEMMA RequestsHaveCursors ==
    \A e \in Effect : /\ e \in Requests <=> e.op = "loadMore"
                      /\ e.op = "loadMore" => e.cursor \in Runs
BY DEF Effect, Requests, Cancel

LEMMA Tasks ==
    /\ [pc |-> "start"] \in Net /\ [pc |-> "idle"] \in Net
    /\ \A m \in Message : [pc |-> "answer", message |-> m] \in Net
    /\ \A w \in Net : w.pc = "answer" => w.message \in Message
BY DEF Net

\* The messages on their way to the main loop, from the task or in the channel.
Brings(task, messages, m) == In(m, messages) \/ (task.pc = "answer" /\ m = task.message)

Way(a, effects, commands, task, messages, r) ==
    \/ a.next # None /\ Older(r, a.next)
    \/ \E e : (In(e, effects) \/ In(e, commands)) /\ e.op = "loadMore" /\ Older(r, e.cursor)
    \/ \E m : /\ Brings(task, messages, m) /\ m.type = "moreLoaded"
              /\ r \in Ids(m.runs) \/ (m.next # None /\ Older(r, m.next))

(* The two forms of OnItsWay, before and after a step. *)
LEMMA WayMeans ==
    ASSUME NEW r
    PROVE  /\ OnItsWay(r) <=> Way(app, todo, netq, net, appq, r)
           /\ OnItsWay(r)' <=> Way(app', todo', netq', net', appq', r)
           /\ WholeLoads <=> \A m : Brings(net, appq, m) => Whole(m, Submitted)
           /\ WholeLoads' <=> \A m : Brings(net', appq', m) => Whole(m, Submitted')
<1>1. OnItsWay(r) <=> Way(app, todo, netq, net, appq, r)
  <2>1. \A m : m \in {appq[k] : k \in DOMAIN appq} \cup (IF net.pc = "answer" THEN {net.message} ELSE {})
               <=> Brings(net, appq, m)
    BY DEF Brings, In
  <2>2. (\E q \in {todo, netq} : \E k \in DOMAIN q : q[k].op = "loadMore" /\ Older(r, q[k].cursor))
        <=> \E e : (In(e, todo) \/ In(e, netq)) /\ e.op = "loadMore" /\ Older(r, e.cursor)
    BY DEF In
  <2> QED BY <2>1, <2>2 DEF OnItsWay, Way
<1>2. OnItsWay(r)' <=> Way(app', todo', netq', net', appq', r)
  <2>1. \A m : m \in {appq'[k] : k \in DOMAIN appq'} \cup (IF net'.pc = "answer" THEN {net'.message} ELSE {})
               <=> Brings(net', appq', m)
    BY DEF Brings, In
  <2>2. (\E q \in {todo', netq'} : \E k \in DOMAIN q : q[k].op = "loadMore" /\ Older(r, q[k].cursor))
        <=> \E e : (In(e, todo') \/ In(e, netq')) /\ e.op = "loadMore" /\ Older(r, e.cursor)
    BY DEF In
  <2> QED BY <2>1, <2>2 DEF OnItsWay, Way
<1>3. WholeLoads <=> \A m : Brings(net, appq, m) => Whole(m, Submitted)
  BY DEF WholeLoads, Brings, In
<1>4. WholeLoads' <=> \A m : Brings(net', appq', m) => Whole(m, Submitted')
  BY DEF WholeLoads, Brings, In
<1> QED BY <1>1, <1>2, <1>3, <1>4

(* A list stays whole while runs are submitted. *)
LEMMA WholeGrows ==
    ASSUME NEW m, NEW S, NEW T, Whole(m, S), S \subseteq T
    PROVE  Whole(m, T)
BY DEF Whole

\* What a step must not do, to the list or to the pages that are due.
NothingDropped ==
    /\ base' = base /\ mixed' = mixed /\ (lost => lost')
    /\ ~mixed => PagesDue(app', todo', netq', net', appq') <= PagesDue(app, todo, netq, net, appq)
    /\ Ids(app.runs) \subseteq Ids(app'.runs)
    /\ ~mixed /\ ~lost' => \A r \in Submitted :
          Way(app, todo, netq, net, appq, r)
             => r \in Ids(app'.runs) \/ Way(app', todo', netq', net', appq', r)

NoLoadsButWhole ==
    \A m : Brings(net', appq', m) => Brings(net, appq, m) \/ Whole(m, Submitted')

(* It is enough that a step drops no run and brings no list that is not whole. *)
LEMMA StepsKeep ==
    ASSUME TInv, Types', Indexed(app)', Submitted \subseteq Submitted', NoLoadsButWhole,
           NothingDropped, PagesDue(app, todo, netq, net, appq) \in Nat,
           PagesDue(app', todo', netq', net', appq') \in Nat
    PROVE  TInv'
<1>1. WholeLoads'
  <2>1. ASSUME NEW m, Brings(net', appq', m) PROVE Whole(m, Submitted')
    <3>1. Brings(net, appq, m) => Whole(m, Submitted)
      BY WayMeans DEF TInv
    <3> QED BY <2>1, <3>1, WholeGrows DEF NoLoadsButWhole
  <2> QED BY <2>1, WayMeans
<1>2. OnePage'
  BY DEF TInv, OnePage, NothingDropped
<1>3. NothingSkipped'
  <2> SUFFICES ASSUME ~mixed', ~lost', NEW r \in base' \ Ids(app'.runs)
               PROVE  OnItsWay(r)'
    BY DEF NothingSkipped
  <2>1. ~mixed /\ ~lost /\ r \in base \ Ids(app.runs) /\ r \in Submitted
    BY DEF NothingDropped, TInv, Types
  <2>2. OnItsWay(r)
    BY <2>1 DEF TInv, NothingSkipped
  <2>3. Way(app, todo, netq, net, appq, r)
    BY <2>2, WayMeans
  <2>4. Way(app', todo', netq', net', appq', r)
    BY <2>1, <2>3 DEF NothingDropped
  <2> QED BY <2>4, WayMeans
<1> QED BY <1>1, <1>2, <1>3 DEF TInv

(* The pages due are a number. *)
LEMMA PagesDueIsNat ==
    ASSUME NEW a, NEW t \in Seq(Effect), NEW q \in Seq(Effect), NEW w, NEW m \in Seq(Message)
    PROVE  PagesDue(a, t, q, w, m) \in Nat
<1>1. Count(t, Requests) \in Nat /\ Count(q, Requests) \in Nat /\ Count(m, Pages) \in Nat
  BY CountIsFinite
<1> QED BY <1>1 DEF PagesDue

----------------------------------------------------------------------------
(* Every step keeps the invariant                                          *)

\* What holds of the list and the pages due before any step.
Now == /\ PagesDue(app, todo, netq, net, appq) \in Nat
       /\ (app' = app => Indexed(app)' /\ Ids(app'.runs) = Ids(app.runs))

LEMMA NowHolds == ASSUME TInv PROVE Now
<1>1. todo \in Seq(Effect) /\ netq \in Seq(Effect) /\ appq \in Seq(Message)
  BY DEF TInv, Types
<1> QED BY <1>1, PagesDueIsNat DEF Now, TInv, Indexed, Ids

(* A run that is submitted stays. *)
LEMMA SubmittedStays ==
    /\ server' = server => Submitted' = Submitted
    /\ ServerSubmits \/ ServerChanges => Submitted \subseteq Submitted'
<1>1. ASSUME ServerSubmits PROVE Submitted \subseteq Submitted'
  <2>1. PICK r \in Runs \ Submitted :
           server' = [server EXCEPT ![r] = [k \in 1..CalcCount[r] |-> "running"]]
    BY <1>1 DEF ServerSubmits
  <2> QED BY <2>1 DEF Submitted
<1>2. ASSUME ServerChanges PROVE Submitted \subseteq Submitted'
  <2>1. PICK r \in Submitted, to \in {"running", "failed", "succeeded"} : \E k \in DOMAIN server[r] :
           server' = [server EXCEPT ![r][k] = to]
    BY <1>2 DEF ServerChanges
  <2>2. PICK k \in DOMAIN server[r] : server' = [server EXCEPT ![r][k] = to]
    BY <2>1
  <2>3. ASSUME NEW q \in Submitted PROVE server'[q] # <<>>
    <3>1. CASE q # r
      BY <2>2, <3>1 DEF Submitted
    <3>2. CASE q = r
      <4>1. server'[r] = [server[r] EXCEPT ![k] = to] \/ server'[r] = server[r]
        BY <2>2
      <4>2. DOMAIN server'[r] = DOMAIN server[r]
        BY <4>1
      <4> QED BY <3>2, <4>2
    <3> QED BY <3>1, <3>2
  <2> QED BY <2>3 DEF Submitted
<1> QED BY <1>1, <1>2 DEF Submitted

(* The daemon: runs are submitted, calculations change. *)
LEMMA ServerStepKeeps == ASSUME TInv, ServerSubmits \/ ServerChanges PROVE TInv'
<1>1. UNCHANGED <<app, todo, appq, netq, net, import, link, base, mixed, lost>>
  BY DEF ServerSubmits, ServerChanges, ghosts
<1>2. Submitted \subseteq Submitted'
  BY SubmittedStays
<1>3. server' \in [Runs -> Seq({"running", "failed", "succeeded"})] /\ stream' \in Seq(Change)
  <2>1. server \in [Runs -> Seq({"running", "failed", "succeeded"})] /\ stream \in Seq(Change)
    BY DEF TInv, Types
  <2>2. CASE ServerSubmits
    <3>1. PICK r \in Runs :
             server' = [server EXCEPT ![r] = [k \in 1..CalcCount[r] |-> "running"]]
      BY <2>2 DEF ServerSubmits
    <3>2. CalcCount[r] \in Nat
      BY TuiAssumption
    <3>3. [k \in 1..CalcCount[r] |-> "running"] \in Seq({"running", "failed", "succeeded"})
      BY <3>2
    <3> QED BY <2>1, <2>2, <3>1, <3>3 DEF ServerSubmits
  <2>3. CASE ServerChanges
    <3>1. PICK r \in Submitted, to \in {"running", "failed", "succeeded"} : \E k \in DOMAIN server[r] :
             /\ server' = [server EXCEPT ![r][k] = to]
             /\ stream' = Append(stream, [type |-> "calcChanged", calc |-> <<r, k>>, to |-> to])
      BY <2>3 DEF ServerChanges
    <3>2. PICK k \in DOMAIN server[r] :
             /\ server' = [server EXCEPT ![r][k] = to]
             /\ stream' = Append(stream, [type |-> "calcChanged", calc |-> <<r, k>>, to |-> to])
      BY <3>1
    <3>3. r \in Runs /\ k \in 1..Len(server[r]) /\ k \in Nat
      BY <2>1, <3>2 DEF Submitted
    <3>4. server' = [server EXCEPT ![r] = [server[r] EXCEPT ![k] = to]]
      BY <3>2
    <3>5. [server[r] EXCEPT ![k] = to] \in Seq({"running", "failed", "succeeded"})
      BY <2>1, <3>3
    <3>6. [type |-> "calcChanged", calc |-> <<r, k>>, to |-> to] \in Change
      BY <3>3 DEF Change, CalcId, CalcStatus, ActiveCalc, TerminalCalc
    <3> QED BY <2>1, <3>2, <3>3, <3>4, <3>5, <3>6
  <2> QED BY <2>2, <2>3
<1>4. Types'
  BY <1>1, <1>2, <1>3 DEF TInv, Types
<1>5. NoLoadsButWhole
  BY <1>1 DEF NoLoadsButWhole
<1>6. NothingDropped
  BY <1>1, NowHolds DEF NothingDropped, Now
<1> QED BY <1>1, <1>2, <1>4, <1>5, <1>6, NowHolds, StepsKeep DEF Now

\* Delivers, to a channel that stays what it must be.
LEMMA DeliversOK ==
    ASSUME Types, NEW m \in Message, Delivers(m)
    PROVE  /\ appq' \in Seq(Message) /\ Len(appq') <= AppCap
           /\ \A x : In(x, appq') <=> In(x, appq) \/ x = m
           /\ Count(appq', Pages) = Count(appq, Pages) + (IF m.type = "moreLoaded" THEN 1 ELSE 0)
           /\ Count(appq, Pages) \in Nat
<1>1. appq \in Seq(Message) /\ Len(appq) < AppCap /\ appq' = Append(appq, m) /\ Len(appq) \in Nat
  BY DEF Types, Delivers
<1>2. AppCap \in Nat
  BY TuiAssumption
<1>3. Append(appq, m) \in Seq(Message) /\ Len(Append(appq, m)) = Len(appq) + 1
  BY <1>1
<1>4. \A x : In(x, Append(appq, m)) <=> In(x, appq) \/ x = m
  BY <1>1, QueueGrows
<1>5. Count(Append(appq, m), Pages) = Count(appq, Pages) + (IF m \in Pages THEN 1 ELSE 0)
  BY <1>1, CountGrows
<1>6. Count(appq, Pages) \in Nat /\ (m \in Pages <=> m.type = "moreLoaded")
  BY <1>1, CountIsFinite, Messages
<1> QED BY <1>1, <1>2, <1>3, <1>4, <1>5, <1>6

\* A key, an event, or a text for the status bar is neither a list nor a page.
LEMMA DeliveryKeeps ==
    ASSUME TInv, Types', NEW m \in Message, m.type \in {"text", "calcChanged", "key"},
           Delivers(m), UNCHANGED <<app, todo, netq, net, server, ghosts>>
    PROVE  TInv'
<1>1. /\ appq \in Seq(Message) /\ todo \in Seq(Effect) /\ netq \in Seq(Effect)
      /\ \A x : In(x, appq') <=> In(x, appq) \/ x = m
      /\ Count(appq', Pages) = Count(appq, Pages) /\ appq' \in Seq(Message)
  BY DeliversOK DEF TInv, Types
<1>2. Submitted' = Submitted /\ UNCHANGED <<base, mixed, lost>>
  BY SubmittedStays DEF ghosts
<1>3. NoLoadsButWhole
  BY <1>1 DEF NoLoadsButWhole, Brings, Whole
<1>4. PagesDue(app', todo', netq', net', appq') = PagesDue(app, todo, netq, net, appq)
  BY <1>1 DEF PagesDue
<1>5. ASSUME NEW r, Way(app, todo, netq, net, appq, r) PROVE Way(app', todo', netq', net', appq', r)
  BY <1>1, <1>5 DEF Way, Brings
<1>6. NothingDropped
  BY <1>2, <1>4, <1>5, NowHolds DEF NothingDropped, Now
<1> QED BY <1>2, <1>3, <1>4, <1>6, NowHolds, StepsKeep DEF Now

(* The event task. *)
LEMMA EventArrivesKeeps == ASSUME TInv, EventArrives PROVE TInv'
<1>1. UNCHANGED <<app, todo, netq, net, import, link, server, base, mixed, lost>>
  BY DEF EventArrives, ghosts
<1>2. stream \in Seq(Change) /\ stream # <<>> /\ stream' = Tail(stream)
  BY DEF EventArrives, TInv, Types
<1>3. stream' \in Seq(Change) /\ Head(stream) \in Change
  BY <1>2, QueueShrinks
<1>4. Submitted' = Submitted
  BY <1>1, SubmittedStays
<1>5. CASE Delivers(Head(stream))
  <2>1. Head(stream) \in Message /\ Head(stream).type = "calcChanged"
    BY <1>3, Messages
  <2>2. appq' \in Seq(Message) /\ Len(appq') <= AppCap
    BY <1>5, <2>1, DeliversOK DEF TInv
  <2>3. Types'
    BY <1>1, <1>3, <1>4, <2>2 DEF TInv, Types
  <2> QED BY <1>1, <1>5, <2>1, <2>3, DeliveryKeeps DEF ghosts
<1>6. CASE UNCHANGED appq
  <2>1. Types'
    BY <1>1, <1>3, <1>4, <1>6 DEF TInv, Types
  <2>2. NoLoadsButWhole /\ NothingDropped
    BY <1>1, <1>6, NowHolds DEF NoLoadsButWhole, NothingDropped, Now
  <2> QED BY <1>1, <1>4, <1>6, <2>1, <2>2, NowHolds, StepsKeep DEF Now
<1> QED BY <1>5, <1>6 DEF EventArrives

(* The input task. *)
LEMMA InputSendsKeeps == ASSUME TInv, InputSends PROVE TInv'
<1>1. /\ UNCHANGED <<app, todo, netq, net, import, stream, link, server, base, mixed, lost>>
      /\ \E m \in {Text, [type |-> "key"]} : Delivers(m)
  BY DEF InputSends, ghosts
<1>2. PICK m \in {Text, [type |-> "key"]} : Delivers(m)
  BY <1>1
<1>3. Submitted' = Submitted
  BY <1>1, SubmittedStays
<1>4. m \in Message /\ m.type \in {"text", "key"}
  BY Messages
<1>5. appq' \in Seq(Message) /\ Len(appq') <= AppCap
  BY <1>2, <1>4, DeliversOK DEF TInv
<1>6. Types'
  BY <1>1, <1>3, <1>5 DEF TInv, Types
<1> QED BY <1>1, <1>2, <1>4, <1>6, DeliveryKeeps DEF ghosts

(* The event task, about its connection. *)
LEMMA LinkReportsKeeps == ASSUME TInv, LinkReports PROVE TInv'
<1>1. /\ UNCHANGED <<app, todo, netq, net, import, stream, server, base, mixed, lost>>
      /\ Delivers(Text) /\ link' \in Links
  BY DEF LinkReports, ghosts, Links
<1>2. Submitted' = Submitted
  BY <1>1, SubmittedStays
<1>3. Text \in Message /\ Text.type = "text"
  BY Messages
<1>4. appq' \in Seq(Message) /\ Len(appq') <= AppCap
  BY <1>1, <1>3, DeliversOK DEF TInv
<1>5. Types'
  BY <1>1, <1>2, <1>4 DEF TInv, Types
<1> QED BY <1>1, <1>3, <1>5, DeliveryKeeps DEF ghosts

LEMMA LinkChangesKeeps == ASSUME TInv, LinkChanges PROVE TInv'
<1>1. /\ UNCHANGED <<app, todo, appq, netq, net, import, stream, server, base, mixed, lost>>
      /\ link' \in Links
  BY DEF LinkChanges, ghosts, Links
<1>2. Submitted' = Submitted
  BY <1>1, SubmittedStays
<1>3. Types'
  BY <1>1, <1>2 DEF TInv, Types
<1>4. NoLoadsButWhole /\ NothingDropped
  BY <1>1, NowHolds DEF NoLoadsButWhole, NothingDropped, Now
<1> QED BY <1>1, <1>2, <1>3, <1>4, NowHolds, StepsKeep DEF Now

LEMMA ImportReportsKeeps == ASSUME TInv, ImportReports PROVE TInv'
<1>1. UNCHANGED <<app, todo, netq, net, stream, link, server, base, mixed, lost>> /\ Delivers(Text)
  BY DEF ImportReports, ghosts
<1>2. import' \in Nat
  BY DEF ImportReports, TInv, Types
<1>3. Submitted' = Submitted
  BY <1>1, SubmittedStays
<1>4. Text \in Message /\ Text.type = "text"
  BY Messages
<1>5. appq' \in Seq(Message) /\ Len(appq') <= AppCap
  BY <1>1, <1>4, DeliversOK DEF TInv
<1>6. Types'
  BY <1>1, <1>2, <1>3, <1>5 DEF TInv, Types
<1> QED BY <1>1, <1>4, <1>6, DeliveryKeeps DEF ghosts

\* A command that the network task takes.
LEMMA NetTakesOK ==
    ASSUME TInv, NEW op, NetTakes(op)
    PROVE  /\ UNCHANGED <<app, todo, appq, stream, link, server, base, mixed>> /\ Submitted' = Submitted
           /\ net.pc = "idle" /\ netq' \in Seq(Effect) /\ Len(netq') <= NetCap
           /\ Head(netq) \in Effect /\ Head(netq).op = op
           /\ \A x : In(x, netq) <=> In(x, netq') \/ x = Head(netq)
           /\ Count(netq, Requests) = Count(netq', Requests) + (IF op = "loadMore" THEN 1 ELSE 0)
           /\ Count(netq', Requests) \in Nat
<1>1. /\ UNCHANGED <<app, todo, appq, stream, link, server, base, mixed>>
      /\ net.pc = "idle" /\ netq # <<>> /\ Head(netq).op = op /\ netq' = Tail(netq)
  BY DEF NetTakes
<1>2. netq \in Seq(Effect) /\ Len(netq) <= NetCap /\ Len(netq) \in Nat /\ NetCap \in Nat
  BY TuiAssumption DEF TInv, Types
<1>3. /\ Tail(netq) \in Seq(Effect) /\ Len(Tail(netq)) = Len(netq) - 1 /\ Head(netq) \in Effect
      /\ \A x : In(x, netq) <=> In(x, Tail(netq)) \/ x = Head(netq)
  BY <1>1, <1>2, QueueShrinks
<1>4. Count(netq, Requests) = Count(Tail(netq), Requests) + (IF Head(netq) \in Requests THEN 1 ELSE 0)
  BY <1>1, <1>2, CountShrinks
<1>5. Count(Tail(netq), Requests) \in Nat
  BY <1>3, CountIsFinite
<1>6. Head(netq) \in Requests <=> op = "loadMore"
  BY <1>1, <1>3, RequestsHaveCursors
<1>7. Len(netq') <= NetCap
  BY <1>1, <1>2, <1>3
<1> QED BY <1>1, <1>3, <1>4, <1>5, <1>6, <1>7, SubmittedStays

\* The network task has a list or a text to send, and had no message before.
LEMMA AnswerKeeps ==
    ASSUME TInv, net.pc # "answer", UNCHANGED <<app, todo, appq, stream, link, server, base, mixed, lost>>,
           netq' \in Seq(Effect), Len(netq') <= NetCap, import' \in Nat,
           \A x : In(x, netq) => In(x, netq') \/ x.op # "loadMore",
           Count(netq', Requests) = Count(netq, Requests),
           net' \in Net, 
           net'.pc = "answer" => /\ net'.message.type # "moreLoaded"
                                 /\ Whole(net'.message, Submitted)
    PROVE  TInv'
<1>1. Submitted' = Submitted
  BY SubmittedStays
<1>2. Types'
  BY <1>1 DEF TInv, Types
<1>3. NoLoadsButWhole
  BY <1>1 DEF NoLoadsButWhole, Brings
<1>4. PagesDue(app', todo', netq', net', appq') = PagesDue(app, todo, netq, net, appq)
  BY DEF PagesDue
<1>5. ASSUME NEW r, Way(app, todo, netq, net, appq, r) PROVE Way(app', todo', netq', net', appq', r)
  BY <1>5 DEF Way, Brings
<1>6. NothingDropped
  BY <1>4, <1>5, NowHolds DEF NothingDropped, Now
<1> QED BY <1>1, <1>2, <1>3, <1>4, <1>6, NowHolds, StepsKeep DEF Now

\* The list that a refresh asks for.
LEMMA FirstPageOK ==
    ASSUME TInv
    PROVE  LET m == ListRuns("runsLoaded", None, PageSize) IN
           m \in Message /\ m.type = "runsLoaded" /\ Whole(m, Submitted)
<1> DEFINE m == ListRuns("runsLoaded", None, PageSize)
<1>1. PageSize \in Nat \ {0} /\ None \in Runs \cup {None} /\ Types
  BY TuiAssumption DEF TInv
<1>2. /\ m \in Load /\ m.type = "runsLoaded" /\ m.known = Submitted
      /\ \A r \in After(None) : r \in Ids(m.runs) \/ (m.next # None /\ Older(r, m.next))
  BY <1>1, ListRunsOK
<1>3. After(None) = Submitted
  BY DEF After, Submitted
<1> HIDE DEF m
<1>4. Whole(m, Submitted)
  BY <1>2, <1>3 DEF Whole
<1> QED BY <1>2, <1>4, Messages DEF m

(* A text is neither a list nor a page. *)
LEMMA TextAnswerOK ==
    ASSUME NEW S
    PROVE  /\ Text \in Message /\ Text.type # "moreLoaded" /\ Whole(Text, S)
           /\ [pc |-> "answer", message |-> Text] \in Net
BY Messages, Tasks DEF Whole

(* The initial fetch and the refresh. *)
LEMMA FirstPageKeeps ==
    ASSUME TInv, net.pc # "answer", UNCHANGED <<app, todo, appq, import, stream, link, server, base, mixed, lost>>,
           netq' \in Seq(Effect), Len(netq') <= NetCap,
           \A x : In(x, netq) => In(x, netq') \/ x.op # "loadMore",
           Count(netq', Requests) = Count(netq, Requests),
           Gets(ListRuns("runsLoaded", None, PageSize))
    PROVE  TInv'
<1>1. import' \in Nat
  BY DEF TInv, Types
<1>2. PICK m \in {Text, ListRuns("runsLoaded", None, PageSize)} :
         net' = [pc |-> "answer", message |-> m]
  BY DEF Gets, Answers
<1>3. m \in Message /\ m.type # "moreLoaded" /\ Whole(m, Submitted)
  BY <1>2, TextAnswerOK, FirstPageOK
<1>4. net' \in Net /\ net'.message = m
  BY <1>2, <1>3, Tasks
<1> QED BY <1>1, <1>3, <1>4, AnswerKeeps

LEMMA NetStartsKeeps == ASSUME TInv, NetStarts PROVE TInv'
<1>1. net.pc # "answer" /\ UNCHANGED <<app, todo, appq, netq, import, stream, link, server, base, mixed, lost>>
  BY DEF NetStarts, ghosts
<1>2. netq' \in Seq(Effect) /\ Len(netq') <= NetCap
  BY <1>1 DEF TInv, Types
<1>3. Gets(ListRuns("runsLoaded", None, PageSize))
  BY DEF NetStarts
<1> QED BY <1>1, <1>2, <1>3, FirstPageKeeps

LEMMA NetRefreshesKeeps == ASSUME TInv, NetRefreshes PROVE TInv'
<1>1. NetTakes("refresh") /\ Gets(ListRuns("runsLoaded", None, PageSize)) /\ UNCHANGED <<import, lost>>
  BY DEF NetRefreshes
<1>2. /\ UNCHANGED <<app, todo, appq, stream, link, server, base, mixed>>
      /\ net.pc = "idle" /\ netq' \in Seq(Effect) /\ Len(netq') <= NetCap
      /\ Head(netq).op = "refresh"
      /\ \A x : In(x, netq) <=> In(x, netq') \/ x = Head(netq)
      /\ Count(netq, Requests) = Count(netq', Requests) + 0
      /\ Count(netq', Requests) \in Nat
  BY <1>1, NetTakesOK
<1> QED BY <1>1, <1>2, FirstPageKeeps

LEMMA NetImportsKeeps == ASSUME TInv, NetImports PROVE TInv'
<1>1. PICK files \in 0..ImportFiles :
         /\ NetTakes("import") /\ UNCHANGED <<net, lost>>
         /\ import' = import + (IF files = 0 THEN 1 ELSE files + 2)
  BY DEF NetImports
<1>2. import' \in Nat /\ net' \in Net
  BY <1>1, TuiAssumption DEF TInv, Types
<1>3. /\ UNCHANGED <<app, todo, appq, stream, link, server, base, mixed>>
      /\ net.pc = "idle" /\ netq' \in Seq(Effect) /\ Len(netq') <= NetCap
      /\ Head(netq).op = "import"
      /\ \A x : In(x, netq) <=> In(x, netq') \/ x = Head(netq)
      /\ Count(netq, Requests) = Count(netq', Requests) + 0
      /\ Count(netq', Requests) \in Nat
  BY <1>1, NetTakesOK
<1> QED BY <1>1, <1>2, <1>3, AnswerKeeps

LEMMA NetPostsKeeps == ASSUME TInv, NetPosts PROVE TInv'
<1>1. PICK op \in {"submit", "cancelRun", "cancelCalc", "retryCalc"} : NetTakes(op)
  BY DEF NetPosts
<1>2. net' = [pc |-> "answer", message |-> Text] /\ UNCHANGED <<import, lost>>
  BY DEF NetPosts, Answers
<1>3. /\ UNCHANGED <<app, todo, appq, stream, link, server, base, mixed>>
      /\ net.pc = "idle" /\ netq' \in Seq(Effect) /\ Len(netq') <= NetCap
      /\ Head(netq).op = op
      /\ \A x : In(x, netq) <=> In(x, netq') \/ x = Head(netq)
      /\ Count(netq, Requests) = Count(netq', Requests) + 0
      /\ Count(netq', Requests) \in Nat
  BY <1>1, NetTakesOK
<1>4. import' \in Nat
  BY <1>2 DEF TInv, Types
<1>5. net' \in Net /\ net'.message.type # "moreLoaded" /\ Whole(net'.message, Submitted)
  BY <1>2, TextAnswerOK
<1> QED BY <1>2, <1>3, <1>4, <1>5, AnswerKeeps

\* The page takes the place of the request, or is lost.
LEMMA NetLoadsMoreKeeps == ASSUME TInv, NetLoadsMore PROVE TInv'
<1> DEFINE e == Head(netq)
           page == ListRuns("moreLoaded", e.cursor, MoreSize)
<1>1. /\ NetTakes("loadMore") /\ Gets(page) /\ UNCHANGED import
      /\ lost' = (lost \/ net'.message = Text)
  BY DEF NetLoadsMore
<1>2. /\ UNCHANGED <<app, todo, appq, stream, link, server, base, mixed>> /\ Submitted' = Submitted
      /\ net.pc = "idle" /\ netq' \in Seq(Effect) /\ Len(netq') <= NetCap
      /\ e \in Effect /\ e.op = "loadMore"
      /\ \A x : In(x, netq) <=> In(x, netq') \/ x = e
      /\ Count(netq, Requests) = Count(netq', Requests) + 1
      /\ Count(netq', Requests) \in Nat
  BY <1>1, NetTakesOK
<1> HIDE DEF e
<1>3. /\ page \in Load /\ page.type = "moreLoaded" /\ page \in Message /\ page # Text
      /\ \A r \in After(e.cursor) : r \in Ids(page.runs) \/ (page.next # None /\ Older(r, page.next))
  <2>1. e.cursor \in Runs \cup {None} /\ MoreSize \in Nat \ {0} /\ Types
    BY <1>2, RequestsHaveCursors, TuiAssumption DEF TInv
  <2> HIDE DEF page
  <2>2. /\ page \in Load /\ page.type = "moreLoaded"
        /\ \A r \in After(e.cursor) : r \in Ids(page.runs) \/ (page.next # None /\ Older(r, page.next))
    BY <2>1, ListRunsOK DEF page
  <2> QED BY <2>2, Messages
<1> HIDE DEF page
<1>4. net' = [pc |-> "answer", message |-> page] \/ net' = [pc |-> "answer", message |-> Text]
  BY <1>1 DEF Gets, Answers
<1>5. net' \in Net /\ net'.pc = "answer" /\ net'.message \in {page, Text} /\ Text.type = "text"
  BY <1>3, <1>4, Messages, Tasks
<1>6. Types'
  <2>1. lost' \in BOOLEAN
    BY <1>1
  <2> QED BY <1>1, <1>2, <1>5, <2>1 DEF TInv, Types
<1>7. NoLoadsButWhole
  BY <1>2, <1>3, <1>5 DEF NoLoadsButWhole, Brings, Whole
<1>8. /\ Count(todo, Requests) \in Nat /\ Count(appq, Pages) \in Nat
      /\ todo' \in Seq(Effect) /\ appq' \in Seq(Message)
  BY <1>2, CountIsFinite DEF TInv, Types
<1>9. PagesDue(app', todo', netq', net', appq') <= PagesDue(app, todo, netq, net, appq)
  BY <1>2, <1>5, <1>8 DEF PagesDue
<1>10. ASSUME ~lost', NEW r \in Submitted, Way(app, todo, netq, net, appq, r)
       PROVE  Way(app', todo', netq', net', appq', r)
  <2>1. net'.message = page
    BY <1>1, <1>5, <1>10
  <2>2. CASE Older(r, e.cursor)
    <3>1. r \in After(e.cursor)
      BY <2>2 DEF After
    <3>2. Brings(net', appq', page)
      BY <2>1, <1>5 DEF Brings
    <3> QED BY <3>1, <3>2, <1>3 DEF Way
  <2>3. CASE ~Older(r, e.cursor)
    BY <2>3, <1>2, <1>10 DEF Way, Brings
  <2> QED BY <2>2, <2>3
<1>11. NothingDropped
  BY <1>1, <1>2, <1>9, <1>10, NowHolds DEF NothingDropped, Now
<1> QED BY <1>2, <1>6, <1>7, <1>8, <1>11, NowHolds, PagesDueIsNat, StepsKeep DEF Now

\* What the network task has got is in the channel.
LEMMA NetSendsKeeps == ASSUME TInv, NetSends PROVE TInv'
<1> DEFINE m == net.message
<1>1. /\ net.pc = "answer" /\ Delivers(m) /\ net' = [pc |-> "idle"]
      /\ UNCHANGED <<app, todo, netq, import, stream, server, base, mixed, lost>>
  BY DEF NetSends, ghosts
<1>2. m \in Message
  BY <1>1, Tasks DEF TInv, Types
<1>3. /\ appq' \in Seq(Message) /\ Len(appq') <= AppCap
      /\ \A x : In(x, appq') <=> In(x, appq) \/ x = m
      /\ Count(appq', Pages) = Count(appq, Pages) + (IF m.type = "moreLoaded" THEN 1 ELSE 0)
      /\ Count(appq, Pages) \in Nat
  BY <1>1, <1>2, DeliversOK DEF TInv
<1>4. Submitted' = Submitted /\ net' \in Net /\ net'.pc = "idle"
  BY <1>1, SubmittedStays, Tasks
<1>5. Types'
  <2>1. link' \in Links
    BY DEF NetSends, TInv, Types, Links
  <2> QED BY <1>1, <1>3, <1>4, <2>1 DEF TInv, Types
<1>6. \A x : Brings(net', appq', x) <=> Brings(net, appq, x)
  BY <1>1, <1>3, <1>4 DEF Brings
<1>7. NoLoadsButWhole
  BY <1>6 DEF NoLoadsButWhole
<1>8. Count(todo, Requests) \in Nat /\ Count(netq, Requests) \in Nat
  BY CountIsFinite DEF TInv, Types
<1>9. PagesDue(app', todo', netq', net', appq') = PagesDue(app, todo, netq, net, appq)
  BY <1>1, <1>3, <1>4, <1>8 DEF PagesDue
<1>10. \A r : Way(app, todo, netq, net, appq, r) => Way(app', todo', netq', net', appq', r)
  BY <1>1, <1>6 DEF Way
<1>11. NothingDropped
  BY <1>1, <1>9, <1>10, NowHolds DEF NothingDropped, Now
<1> QED BY <1>1, <1>4, <1>5, <1>7, <1>9, <1>11, NowHolds, StepsKeep DEF Now

\* An effect goes from the main loop into a channel.
LEMMA MainSendsKeeps == ASSUME TInv, MainSends PROVE TInv'
<1> DEFINE e == Head(todo)
<1>1. /\ todo # <<>> /\ todo' = Tail(todo)
      /\ UNCHANGED <<app, net, import, stream, link, server, base, mixed, lost>>
  BY DEF MainSends, ghosts
<1>2. /\ todo \in Seq(Effect) /\ netq \in Seq(Effect) /\ appq \in Seq(Message)
      /\ Len(netq) <= NetCap /\ Len(netq) \in Nat /\ NetCap \in Nat /\ Len(appq) <= AppCap
  BY TuiAssumption DEF TInv, Types
<1>3. todo' \in Seq(Effect) /\ e \in Effect /\ \A x : In(x, todo) <=> In(x, todo') \/ x = e
  BY <1>1, <1>2, QueueShrinks
<1>4. Count(todo, Requests) = Count(todo', Requests) + (IF e \in Requests THEN 1 ELSE 0)
  BY <1>1, <1>2, CountShrinks
<1>5. /\ Count(todo', Requests) \in Nat /\ Count(netq, Requests) \in Nat /\ Count(appq, Pages) \in Nat
      /\ e \in Requests <=> e.op = "loadMore"
  BY <1>2, <1>3, CountIsFinite, RequestsHaveCursors
<1>6. Submitted' = Submitted
  BY <1>1, SubmittedStays
<1>7. CASE e.op = "save"
  <2>1. Delivers(Text) /\ UNCHANGED netq
    BY <1>7 DEF MainSends
  <2>2. /\ appq' \in Seq(Message) /\ Len(appq') <= AppCap
        /\ \A x : In(x, appq') <=> In(x, appq) \/ x = Text
        /\ Count(appq', Pages) = Count(appq, Pages) + 0
        /\ Text.type = "text"
    BY <2>1, DeliversOK, Messages DEF TInv
  <2>3. Types'
    BY <1>1, <1>3, <1>6, <2>1, <2>2 DEF TInv, Types
  <2>4. NoLoadsButWhole
    BY <1>1, <2>2 DEF NoLoadsButWhole, Brings, Whole
  <2>5. PagesDue(app', todo', netq', net', appq') = PagesDue(app, todo, netq, net, appq)
    BY <1>1, <1>4, <1>5, <1>7, <2>1, <2>2 DEF PagesDue
  <2>6. \A r : Way(app, todo, netq, net, appq, r) => Way(app', todo', netq', net', appq', r)
    BY <1>1, <1>3, <1>7, <2>1, <2>2 DEF Way, Brings
  <2>7. NothingDropped
    BY <1>1, <2>5, <2>6, NowHolds DEF NothingDropped, Now
  <2> QED BY <1>1, <1>6, <2>3, <2>4, <2>5, <2>7, NowHolds, StepsKeep DEF Now
<1>8. CASE e.op # "save"
  <2>1. Len(netq) < NetCap /\ netq' = Append(netq, e) /\ UNCHANGED appq
    BY <1>8 DEF MainSends
  <2> HIDE DEF e
  <2>2. Append(netq, e) \in Seq(Effect) /\ Len(Append(netq, e)) = Len(netq) + 1
    BY <1>2, <1>3
  <2>3. \A x : In(x, netq') <=> In(x, netq) \/ x = e
    BY <1>2, <1>3, <2>1, QueueGrows
  <2>4. Count(netq', Requests) = Count(netq, Requests) + (IF e \in Requests THEN 1 ELSE 0)
    BY <1>2, <1>3, <2>1, CountGrows
  <2>5. Types'
    BY <1>1, <1>2, <1>3, <1>6, <2>1, <2>2 DEF TInv, Types
  <2>6. NoLoadsButWhole
    BY <1>1, <2>1 DEF NoLoadsButWhole, Brings
  <2>7. PagesDue(app', todo', netq', net', appq') = PagesDue(app, todo, netq, net, appq)
    <3>1. appq' = appq /\ app' = app /\ net' = net
      BY <1>1, <2>1
    <3>2. Count(todo, Requests) + Count(netq, Requests) = Count(todo', Requests) + Count(netq', Requests)
      BY <1>4, <1>5, <2>4
    <3>3. Count(netq', Requests) \in Nat /\ Count(todo, Requests) \in Nat
      BY <1>4, <1>5, <2>4
    <3> QED BY <1>5, <3>1, <3>2, <3>3 DEF PagesDue
  <2>8. \A r : Way(app, todo, netq, net, appq, r) => Way(app', todo', netq', net', appq', r)
    BY <1>1, <1>3, <2>1, <2>3 DEF Way, Brings
  <2>9. NothingDropped
    BY <1>1, <2>7, <2>8, NowHolds DEF NothingDropped, Now
  <2> QED BY <1>1, <1>6, <2>5, <2>6, <2>7, <2>9, NowHolds, StepsKeep DEF Now
<1> QED BY <1>7, <1>8

\* A message that the main loop takes.
LEMMA ReceivesOK ==
    ASSUME TInv, NEW type, Receives(type),
           NEW b, NEW t, Updates(b, t)
    PROVE  /\ app' = b /\ todo' = t /\ UNCHANGED <<net, netq, import, stream, link, server>>
           /\ Submitted' = Submitted /\ todo = <<>>
           /\ appq' \in Seq(Message) /\ Len(appq') <= AppCap
           /\ Head(appq) \in Message /\ Head(appq).type = type /\ Whole(Head(appq), Submitted)
           /\ \A x : In(x, appq) <=> In(x, appq') \/ x = Head(appq)
           /\ Count(appq, Pages) = Count(appq', Pages) + (IF type = "moreLoaded" THEN 1 ELSE 0)
           /\ Count(appq', Pages) \in Nat /\ Count(todo, Requests) = 0 /\ Count(netq, Requests) \in Nat
<1>1. /\ app' = b /\ todo' = t /\ UNCHANGED <<net, netq, import, stream, link, server>>
      /\ todo = <<>> /\ appq # <<>> /\ Head(appq).type = type /\ appq' = Tail(appq)
  BY DEF Receives, Updates
<1>2. /\ appq \in Seq(Message) /\ Len(appq) <= AppCap /\ Len(appq) \in Nat /\ AppCap \in Nat
      /\ netq \in Seq(Effect) /\ todo \in Seq(Effect) /\ \A k \in DOMAIN todo : todo[k] \notin Requests
  BY <1>1, TuiAssumption DEF TInv, Types
<1>3. /\ Tail(appq) \in Seq(Message) /\ Len(Tail(appq)) = Len(appq) - 1 /\ Head(appq) \in Message
      /\ \A x : In(x, appq) <=> In(x, Tail(appq)) \/ x = Head(appq)
  BY <1>1, <1>2, QueueShrinks
<1>4. Count(appq, Pages) = Count(Tail(appq), Pages) + (IF Head(appq) \in Pages THEN 1 ELSE 0)
  BY <1>1, <1>2, CountShrinks
<1>5. Count(Tail(appq), Pages) \in Nat /\ Count(todo, Requests) = 0 /\ Count(netq, Requests) \in Nat
  BY <1>2, <1>3, CountIsFinite
<1>6. Head(appq) \in Pages <=> type = "moreLoaded"
  BY <1>1, <1>3, Messages
<1>7. Len(appq') <= AppCap
  BY <1>1, <1>2, <1>3
<1>8. Whole(Head(appq), Submitted)
  BY <1>3, WayMeans DEF TInv, Brings
<1> QED BY <1>1, <1>3, <1>4, <1>5, <1>6, <1>7, <1>8, SubmittedStays

\* A reload forgets every page that was due; with none of them on its way, the
\* next page of the new list is the only one.
LEMMA MainLoadsRunsKeeps == ASSUME TInv, MainLoadsRuns PROVE TInv'
<1> DEFINE m == Head(appq)
           b == RunsLoaded(app, m.runs, m.next)
<1>1. /\ Receives("runsLoaded") /\ Updates(b, <<>>)
      /\ base' = m.known /\ mixed' = PagesToCome /\ lost' = FALSE
  BY DEF MainLoadsRuns
<1>2. /\ app' = b /\ todo' = <<>> /\ UNCHANGED <<net, netq, import, stream, link, server>>
      /\ Submitted' = Submitted
      /\ appq' \in Seq(Message) /\ Len(appq') <= AppCap
      /\ m \in Message /\ m.type = "runsLoaded" /\ Whole(m, Submitted)
      /\ \A x : In(x, appq) <=> In(x, appq') \/ x = m
      /\ Count(netq, Requests) \in Nat
  <2> HIDE DEF b
  <2> QED BY <1>1, ReceivesOK
<1> HIDE DEF m
<1>3. m \in Load /\ m.runs \in Seq(RunRow) /\ m.next \in Runs \cup {None} /\ m.known \subseteq Submitted
  BY <1>2, Messages DEF Load, Whole
<1>4. AppOK(app)
  BY DEF AppOK, TInv, Types
<1>5. AppOK(b) /\ Ids(b.runs) = Ids(m.runs) /\ b.next = m.next
  BY <1>3, <1>4, LoadedOK
<1> HIDE DEF b
<1>6. Indexed(app)' /\ Types'
  <2>1. Indexed(app)'
    BY <1>2, <1>5 DEF AppOK, Indexed, Ids
  <2>2. base' \subseteq Submitted' /\ mixed' \in BOOLEAN /\ lost' \in BOOLEAN
    BY <1>1, <1>2, <1>3 DEF PagesToCome
  <2>3. app' \in App /\ todo' \in Seq(Effect)
    BY <1>2, <1>5 DEF AppOK
  <2> QED BY <1>2, <2>1, <2>2, <2>3 DEF TInv, Types
<1>7. WholeLoads'
  <2>1. ASSUME NEW x, Brings(net', appq', x) PROVE Whole(x, Submitted')
    BY <1>2, <2>1, WayMeans DEF Brings, TInv
  <2> QED BY <2>1, WayMeans
<1>8. OnePage'
  <2> SUFFICES ASSUME ~PagesToCome PROVE PagesDue(app', todo', netq', net', appq') <= 1
    BY <1>1 DEF OnePage
  <2>1. /\ todo' \in Seq(Effect) /\ netq' \in Seq(Effect) /\ appq' \in Seq(Message)
    BY <1>6 DEF Types
  <2>2. Count(todo', Requests) = 0
    <3>1. \A k \in DOMAIN todo' : todo'[k] \notin Requests
      BY <1>2
    <3> QED BY <2>1, <3>1, CountIsFinite
  <2>3. Count(netq', Requests) = 0
    <3>1. \A k \in DOMAIN netq' : netq'[k] \notin Requests
      BY <1>2 DEF PagesToCome, Requests
    <3> QED BY <2>1, <3>1, CountIsFinite
  <2>4. Count(appq', Pages) = 0
    <3>1. \A x : In(x, appq) => x.type # "moreLoaded"
      BY DEF PagesToCome, In
    <3>2. \A k \in DOMAIN appq' : appq'[k] \notin Pages
      BY <1>2, <3>1 DEF In, Pages
    <3> QED BY <2>1, <3>2, CountIsFinite
  <2>5. ~(net'.pc = "answer" /\ net'.message.type = "moreLoaded")
    BY <1>2 DEF PagesToCome
  <2> QED BY <2>2, <2>3, <2>4, <2>5 DEF PagesDue
<1>9. NothingSkipped'
  <2> SUFFICES ASSUME NEW r \in base' \ Ids(app'.runs) PROVE OnItsWay(r)'
    BY DEF NothingSkipped
  <2>1. m.next # None /\ Older(r, m.next)
    BY <1>1, <1>2, <1>5 DEF Whole
  <2>2. Way(app', todo', netq', net', appq', r)
    BY <1>2, <1>5, <2>1 DEF Way
  <2> QED BY <2>2, WayMeans
<1> QED BY <1>6, <1>7, <1>8, <1>9 DEF TInv

\* A page that arrives was the only one that was due.
LEMMA MainAppendsRunsKeeps == ASSUME TInv, MainAppendsRuns PROVE TInv'
<1> DEFINE m == Head(appq)
           b == MoreRunsLoaded(app, m.runs, m.next)
<1>1. Receives("moreLoaded") /\ Updates(b, <<>>) /\ UNCHANGED <<base, mixed, lost>>
  BY DEF MainAppendsRuns, ghosts
<1>2. /\ app' = b /\ todo' = <<>> /\ todo = <<>> /\ UNCHANGED <<net, netq, import, stream, link, server>>
      /\ Submitted' = Submitted
      /\ appq' \in Seq(Message) /\ Len(appq') <= AppCap
      /\ m \in Message /\ m.type = "moreLoaded"
      /\ \A x : In(x, appq) <=> In(x, appq') \/ x = m
      /\ Count(appq, Pages) = Count(appq', Pages) + 1 /\ Count(appq', Pages) \in Nat
      /\ Count(todo, Requests) = 0 /\ Count(netq, Requests) \in Nat
  <2> HIDE DEF b
  <2> QED BY <1>1, ReceivesOK
<1> HIDE DEF m
<1>3. m.runs \in Seq(RunRow) /\ m.next \in Runs \cup {None}
  BY <1>2, Messages DEF Load
<1>4. AppOK(app)
  BY DEF AppOK, TInv, Types
<1>5. AppOK(b) /\ Ids(b.runs) = Ids(app.runs) \cup Ids(m.runs) /\ b.next = m.next
  <2> DEFINE runs == m.runs
             next == m.next
  <2>a. runs \in Seq(RunRow) /\ next \in Runs \cup {None}
    BY <1>3
  <2> HIDE DEF runs, next
  <2>b. /\ AppOK(MoreRunsLoaded(app, runs, next))
        /\ Ids(MoreRunsLoaded(app, runs, next).runs) = Ids(app.runs) \cup Ids(runs)
        /\ MoreRunsLoaded(app, runs, next).next = next
    BY <1>4, <2>a, LoadedOK
  <2>1. /\ AppOK(MoreRunsLoaded(app, m.runs, m.next))
        /\ Ids(MoreRunsLoaded(app, m.runs, m.next).runs) = Ids(app.runs) \cup Ids(m.runs)
        /\ MoreRunsLoaded(app, m.runs, m.next).next = m.next
    BY <2>b DEF runs, next
  <2> QED BY <2>1
<1> HIDE DEF b
<1>6. Indexed(app)' /\ Types'
  <2>1. Indexed(app)'
    BY <1>2, <1>5 DEF AppOK, Indexed, Ids
  <2>2. app' \in App /\ todo' \in Seq(Effect)
    BY <1>2, <1>5 DEF AppOK
  <2> QED BY <1>1, <1>2, <2>1, <2>2 DEF TInv, Types
<1>7. NoLoadsButWhole
  BY <1>2 DEF NoLoadsButWhole, Brings
<1>8. ~mixed => app.next = None
  BY <1>2 DEF TInv, OnePage, PagesDue
<1>9. /\ PagesDue(app', todo', netq', net', appq') \in Nat
      /\ ~mixed => PagesDue(app', todo', netq', net', appq') <= PagesDue(app, todo, netq, net, appq)
  <2>1. todo' = todo /\ netq' = netq /\ net' = net
    BY <1>2
  <2> QED BY <1>2, <1>8, <2>1 DEF PagesDue
<1>10. ASSUME ~mixed, NEW r, Way(app, todo, netq, net, appq, r)
       PROVE  r \in Ids(app'.runs) \/ Way(app', todo', netq', net', appq', r)
  <2>1. PICK e :
        \/ (In(e, todo) \/ In(e, netq)) /\ e.op = "loadMore" /\ Older(r, e.cursor)
        \/ /\ Brings(net, appq, e) /\ e.type = "moreLoaded"
           /\ r \in Ids(e.runs) \/ (e.next # None /\ Older(r, e.next))
    BY <1>8, <1>10 DEF Way
  <2>2. CASE e = m /\ (r \in Ids(e.runs) \/ (e.next # None /\ Older(r, e.next)))
    BY <1>2, <1>5, <2>2 DEF Way
  <2>3. CASE ~(e = m /\ (r \in Ids(e.runs) \/ (e.next # None /\ Older(r, e.next))))
    BY <1>2, <2>1, <2>3 DEF Way, Brings
  <2> QED BY <2>2, <2>3
<1>11. NothingDropped
  <2>1. Ids(app.runs) \subseteq Ids(app'.runs)
    BY <1>2, <1>5
  <2> QED BY <1>1, <1>9, <1>10, <2>1 DEF NothingDropped
<1> QED BY <1>2, <1>6, <1>7, <1>9, <1>11, NowHolds, StepsKeep DEF Now

\* A message that is neither a list nor a page leaves the runs of the list alone.
LEMMA OtherMessageKeeps ==
    ASSUME TInv, NEW type \in {"text", "calcChanged"}, Receives(type), UNCHANGED ghosts,
           NEW b, Updates(b, <<>>), AppOK(b), Ids(b.runs) = Ids(app.runs), b.next = app.next
    PROVE  TInv'
<1>1. UNCHANGED <<base, mixed, lost>>
  BY DEF ghosts
<1>2. /\ app' = b /\ todo' = <<>> /\ todo = <<>> /\ UNCHANGED <<net, netq, import, stream, link, server>>
      /\ Submitted' = Submitted
      /\ appq' \in Seq(Message) /\ Len(appq') <= AppCap
      /\ Head(appq).type = type
      /\ \A x : In(x, appq) <=> In(x, appq') \/ x = Head(appq)
      /\ Count(appq, Pages) = Count(appq', Pages) + 0 /\ Count(appq', Pages) \in Nat
  BY ReceivesOK
<1>3. Indexed(app)' /\ Types'
  <2>1. Indexed(app)'
    BY <1>2 DEF AppOK, Indexed, Ids
  <2>2. app' \in App /\ todo' \in Seq(Effect)
    BY <1>2 DEF AppOK
  <2> QED BY <1>1, <1>2, <2>1, <2>2 DEF TInv, Types
<1>4. NoLoadsButWhole
  BY <1>2 DEF NoLoadsButWhole, Brings
<1>5. PagesDue(app', todo', netq', net', appq') = PagesDue(app, todo, netq, net, appq)
  BY <1>2 DEF PagesDue
<1>6. ASSUME NEW r, Way(app, todo, netq, net, appq, r) PROVE Way(app', todo', netq', net', appq', r)
  BY <1>2, <1>6 DEF Way, Brings
<1>7. NothingDropped
  BY <1>1, <1>2, <1>5, <1>6, NowHolds DEF NothingDropped, Now
<1> QED BY <1>2, <1>3, <1>4, <1>5, <1>7, NowHolds, StepsKeep DEF Now

(* An event, and a text for the status bar. *)
LEMMA MainSeesChangeKeeps == ASSUME TInv, MainSeesChange PROVE TInv'
<1> DEFINE m == Head(appq)
           b == UpdateCalcStatus(app, m.calc, m.to)
<1>1. Receives("calcChanged") /\ Updates(b, <<>>) /\ UNCHANGED ghosts
  BY DEF MainSeesChange
<1>2. m \in Message /\ m.type = "calcChanged"
  <2> HIDE DEF b
  <2> QED BY <1>1, ReceivesOK
<1> HIDE DEF m
<1>3. m.calc \in CalcId /\ m.to \in CalcStatus
  BY <1>2, Messages DEF Change
<1>4. AppOK(app)
  BY DEF AppOK, TInv, Types
<1>5. AppOK(b) /\ Ids(b.runs) = Ids(app.runs) /\ b.next = app.next
  BY <1>3, <1>4, UpdateCalcStatusOK DEF SameButList
<1> QED BY <1>1, <1>5, OtherMessageKeeps

LEMMA MainShowsTextKeeps == ASSUME TInv, MainShowsText PROVE TInv'
<1>1. Receives("text") /\ Updates(app, <<>>) /\ UNCHANGED ghosts /\ AppOK(app)
  BY DEF MainShowsText, AppOK, TInv, Types
<1> QED BY <1>1, OtherMessageKeeps

(* A key that is handled takes no list and no page out of the channel. *)
LEMMA PressesOK ==
    ASSUME TInv, NEW b, NEW t, Presses(b, t)
    PROVE  /\ app' = b /\ todo' = t /\ todo = <<>>
           /\ UNCHANGED <<net, netq, import, stream, link, server, base, mixed, lost>>
           /\ Submitted' = Submitted
           /\ appq' \in Seq(Message) /\ Len(appq') <= AppCap
           /\ \A x : In(x, appq') => In(x, appq)
           /\ \A x : In(x, appq) => In(x, appq') \/ x.type # "moreLoaded"
           /\ Count(appq, Pages) = Count(appq', Pages)
<1>1. Receives("key") /\ Updates(b, t) /\ UNCHANGED <<base, mixed, lost>>
  BY DEF Presses, ghosts
<1>2. /\ app' = b /\ todo' = t /\ UNCHANGED <<net, netq, import, stream, link, server>>
      /\ Submitted' = Submitted /\ todo = <<>>
      /\ appq' \in Seq(Message) /\ Len(appq') <= AppCap
      /\ Head(appq).type = "key"
      /\ \A x : In(x, appq) <=> In(x, appq') \/ x = Head(appq)
      /\ Count(appq, Pages) = Count(appq', Pages) + 0 /\ Count(appq', Pages) \in Nat
  BY <1>1, ReceivesOK
<1> QED BY <1>1, <1>2

(* The list is the same, and no page is asked for. *)
LEMMA ActsKeeps == ASSUME TInv, Acts PROVE TInv'
<1>1. PICK b \in App, effects \in Seq(Plain) : SameList(app, b) /\ Presses(b, effects)
  BY DEF Acts
<1>2. /\ app' = b /\ todo' = effects /\ todo = <<>>
      /\ UNCHANGED <<net, netq, import, stream, link, server, base, mixed, lost>>
      /\ Submitted' = Submitted
      /\ appq' \in Seq(Message) /\ Len(appq') <= AppCap
      /\ \A x : In(x, appq') => In(x, appq)
      /\ \A x : In(x, appq) => In(x, appq') \/ x.type # "moreLoaded"
      /\ Count(appq, Pages) = Count(appq', Pages)
  BY <1>1, PressesOK
<1>3. effects \in Seq(Effect) /\ \A k \in DOMAIN effects : effects[k] \notin Requests
  <2>1. Plain \subseteq Effect
    BY DEF Plain
  <2>2. effects \in Seq(Effect)
    BY <2>1, SeqMonotonic
  <2>3. \A k \in DOMAIN effects : effects[k] \in Plain
    BY ElementOfSeq
  <2> QED BY <2>2, <2>3 DEF Plain
<1>4. Indexed(app)' /\ Ids(app'.runs) = Ids(app.runs) /\ app'.next = app.next
  BY <1>1, <1>2 DEF SameList, Indexed, Ids, TInv
<1>5. Types'
  BY <1>2, <1>3 DEF TInv, Types
<1>6. NoLoadsButWhole
  BY <1>2 DEF NoLoadsButWhole, Brings
<1>7. Count(todo', Requests) = 0 /\ Count(todo, Requests) = 0
  <2>1. \A k \in DOMAIN todo : todo[k] \notin Requests
    BY <1>2
  <2> QED BY <1>2, <1>3, <2>1, CountIsFinite DEF TInv, Types
<1>8. PagesDue(app', todo', netq', net', appq') = PagesDue(app, todo, netq, net, appq)
  BY <1>2, <1>4, <1>7 DEF PagesDue
<1>9. ASSUME NEW r, Way(app, todo, netq, net, appq, r) PROVE Way(app', todo', netq', net', appq', r)
  <2>1. \A x : ~In(x, todo)
    BY <1>2 DEF In
  <2> QED BY <1>2, <1>4, <1>9, <2>1 DEF Way, Brings
<1>10. NothingDropped
  BY <1>2, <1>4, <1>8, <1>9, NowHolds DEF NothingDropped, Now
<1> QED BY <1>2, <1>4, <1>5, <1>6, <1>8, <1>10, NowHolds, StepsKeep DEF Now

\* The cursor leaves the state and goes into the command.
LEMMA AsksForMoreKeeps == ASSUME TInv, AsksForMore PROVE TInv'
<1> DEFINE e == [op |-> "loadMore", cursor |-> app.next]
<1>1. PICK a \in App : Moved(app, a) /\ Presses([a EXCEPT !.next = None], <<e>>)
  BY DEF AsksForMore
<1> DEFINE b == [a EXCEPT !.next = None]
<1>2. /\ app' = b /\ todo' = <<e>> /\ todo = <<>>
      /\ UNCHANGED <<net, netq, import, stream, link, server, base, mixed, lost>>
      /\ Submitted' = Submitted
      /\ appq' \in Seq(Message) /\ Len(appq') <= AppCap
      /\ \A x : In(x, appq') => In(x, appq)
      /\ \A x : In(x, appq) => In(x, appq') \/ x.type # "moreLoaded"
      /\ Count(appq, Pages) = Count(appq', Pages)
  BY <1>1, PressesOK
<1>3. app.next # None /\ app.next \in Runs
  BY DEF AsksForMore, TInv, Types, App
<1>4. e \in Effect /\ e \in Requests /\ e.op = "loadMore" /\ e.cursor = app.next
  BY <1>3 DEF Effect, Requests
<1>5. b \in App /\ b.runs = app.runs /\ b.index = app.index /\ b.next = None
  BY <1>1 DEF Moved, SameList, App
<1> HIDE DEF b, e
<1>6. Indexed(app)' /\ Ids(app'.runs) = Ids(app.runs) /\ app'.next = None
  BY <1>2, <1>5 DEF Indexed, Ids, TInv
<1>7. todo' \in Seq(Effect) /\ app' \in App
  BY <1>2, <1>4, <1>5
<1>8. Types'
  BY <1>2, <1>7 DEF TInv, Types
<1>9. NoLoadsButWhole
  BY <1>2 DEF NoLoadsButWhole, Brings
<1>10. Count(todo, Requests) = 0 /\ Count(todo', Requests) = 1
  <2>1. todo \in Seq(Effect) /\ \A k \in DOMAIN todo : todo[k] \notin Requests
    BY <1>2 DEF TInv, Types
  <2>2. Count(todo, Requests) = 0
    BY <2>1, CountIsFinite
  <2>3. Append(todo, e) = todo'
    BY <1>2
  <2>4. Count(Append(todo, e), Requests) = Count(todo, Requests) + 1
    BY <1>4, <2>1, CountGrows
  <2> QED BY <2>2, <2>3, <2>4
<1>11. Count(netq, Requests) \in Nat /\ Count(appq, Pages) \in Nat
  BY CountIsFinite DEF TInv, Types
<1>12. PagesDue(app', todo', netq', net', appq') = PagesDue(app, todo, netq, net, appq)
  BY <1>2, <1>3, <1>6, <1>10, <1>11 DEF PagesDue
<1>13. ASSUME NEW r, Way(app, todo, netq, net, appq, r) PROVE Way(app', todo', netq', net', appq', r)
  <2>1. \A x : ~In(x, todo)
    BY <1>2 DEF In
  <2>2. In(e, todo')
    <3>1. todo'[1] = e /\ 1 \in DOMAIN todo'
      BY <1>2
    <3> QED BY <3>1 DEF In
  <2> QED BY <1>2, <1>4, <1>13, <2>1, <2>2 DEF Way, Brings
<1>14. NothingDropped
  BY <1>2, <1>6, <1>12, <1>13, NowHolds DEF NothingDropped, Now
<1> QED BY <1>2, <1>6, <1>8, <1>9, <1>12, <1>14, NowHolds, StepsKeep DEF Now

\* As the client starts.
LEMMA StartOK ==
    ASSUME NEW n, n = NewApp
    PROVE  /\ n \in App /\ Indexed(n) /\ n.next = None /\ n.overlay = Closed
           /\ Count(<<>>, Requests) = 0 /\ Count(<<>>, Pages) = 0
<1>1. <<>> \in [{} -> Nat] /\ {} \in SUBSET Runs
  OBVIOUS
<1>2. <<>> \in Index
  BY <1>1 DEF Index
<1>3. Closed \in Overlay /\ NoAnchor \in Nat \cup {NoAnchor} /\ <<>> \in Seq(RunRow)
  BY DEF Closed, Overlay
<1>4. n \in App /\ n.runs = <<>> /\ n.index = <<>> /\ n.next = None /\ n.overlay = Closed
  <2> DEFINE none == <<>>
             empty == <<>>
  <2>1. none \in Index /\ empty \in Seq(RunRow)
    BY <1>2
  <2>2. n = [runs |-> empty, index |-> none, screen |-> "RunList", pane |-> "RunList",
             runCursor |-> 0, calcCursor |-> 0, overlay |-> Closed, status |-> "all",
             search |-> Runs, next |-> None, loading |-> TRUE, anchor |-> NoAnchor]
    BY DEF NewApp
  <2>3. none = <<>> /\ empty = <<>>
    OBVIOUS
  <2> HIDE DEF none, empty
  <2>4. "all" \in STRING
    BY TuiStateAssumption
  <2>5. n \in App
    BY <1>3, <2>1, <2>2, <2>4 DEF App
  <2> QED BY <2>2, <2>3, <2>5
<1>5. Indexed(n)
  BY <1>4 DEF Indexed, Ids
<1>6. <<>> \in Seq({}) /\ \A S : \A k \in DOMAIN <<>> : <<>>[k] \notin S
  OBVIOUS
<1>7. Count(<<>>, Requests) = 0 /\ Count(<<>>, Pages) = 0
  BY <1>6, CountIsFinite
<1> QED BY <1>4, <1>5, <1>7

(* A new client has nothing to lose. *)
LEMMA QuitsKeeps == ASSUME TInv, Quits PROVE TInv'
<1>1. /\ app' = NewApp /\ todo' = <<>> /\ appq' = <<>> /\ netq' = <<>> /\ stream' = <<>>
      /\ net' = [pc |-> "start"] /\ import' = 0 /\ link' = "off"
      /\ base' = {} /\ mixed' = FALSE /\ lost' = FALSE /\ UNCHANGED server
  BY DEF Quits
<1>2. /\ app' \in App /\ Indexed(app') /\ app'.next = None
      /\ Count(<<>>, Requests) = 0 /\ Count(<<>>, Pages) = 0
  BY <1>1, StartOK
<1>3. Submitted' = Submitted /\ net' \in Net
  BY <1>1, SubmittedStays, Tasks
<1>4. AppCap \in Nat /\ NetCap \in Nat
  BY TuiAssumption
<1>5. Types'
  <2>1. /\ todo' \in Seq(Effect) /\ netq' \in Seq(Effect) /\ Len(netq') <= NetCap
        /\ appq' \in Seq(Message) /\ Len(appq') <= AppCap /\ stream' \in Seq(Change)
    BY <1>1, <1>4
  <2>2. /\ import' \in Nat /\ link' \in Links
        /\ base' \subseteq Submitted' /\ mixed' \in BOOLEAN /\ lost' \in BOOLEAN
    BY <1>1 DEF Links
  <2> QED BY <1>1, <1>2, <1>3, <2>1, <2>2 DEF TInv, Types
<1>6. Indexed(app)'
  BY <1>2 DEF Indexed, Ids
<1>7. WholeLoads'
  BY <1>1 DEF WholeLoads
<1>8. OnePage'
  BY <1>1, <1>2 DEF OnePage, PagesDue
<1>9. NothingSkipped'
  BY <1>1 DEF NothingSkipped
<1> QED BY <1>5, <1>6, <1>7, <1>8, <1>9 DEF TInv

LEMMA StutteringKeeps == ASSUME TInv, UNCHANGED tuiVars PROVE TInv'
<1>1. /\ UNCHANGED <<app, todo, appq, netq, net, import, stream, link, server, base, mixed, lost>>
      /\ Submitted' = Submitted
  BY SubmittedStays DEF tuiVars
<1>2. Types'
  BY <1>1 DEF TInv, Types
<1>3. NoLoadsButWhole /\ NothingDropped
  BY <1>1, NowHolds DEF NoLoadsButWhole, NothingDropped, Now
<1> QED BY <1>1, <1>2, <1>3, NowHolds, StepsKeep DEF Now

LEMMA StartsRight == ASSUME Init PROVE TInv
<1>1. /\ app = NewApp /\ todo = <<>> /\ appq = <<>> /\ netq = <<>> /\ stream = <<>>
      /\ net = [pc |-> "start"] /\ import = 0 /\ link = "off"
      /\ base = {} /\ mixed = FALSE /\ lost = FALSE
  BY DEF Init
<1>2. /\ app \in App /\ Indexed(app) /\ app.next = None
      /\ Count(<<>>, Requests) = 0 /\ Count(<<>>, Pages) = 0
  BY <1>1, StartOK
<1>3. server \in [Runs -> Seq({"running", "failed", "succeeded"})]
  <2>1. PICK runs \in InitialRuns :
           server = [r \in Runs |-> [k \in 1..(IF r \in runs THEN CalcCount[r] ELSE 0) |-> "running"]]
    BY DEF Init
  <2>2. ASSUME NEW r \in Runs
        PROVE  [k \in 1..(IF r \in runs THEN CalcCount[r] ELSE 0) |-> "running"]
                  \in Seq({"running", "failed", "succeeded"})
    <3> DEFINE n == IF r \in runs THEN CalcCount[r] ELSE 0
    <3>1. n \in Nat
      BY TuiAssumption
    <3> HIDE DEF n
    <3>2. [k \in 1..n |-> "running"] \in Seq({"running", "failed", "succeeded"})
      BY <3>1
    <3> QED BY <3>2 DEF n
  <2> QED BY <2>1, <2>2
<1>4. AppCap \in Nat /\ NetCap \in Nat /\ net \in Net
  BY <1>1, TuiAssumption, Tasks
<1>5. Types
  <2>1. /\ todo \in Seq(Effect) /\ netq \in Seq(Effect) /\ Len(netq) <= NetCap
        /\ appq \in Seq(Message) /\ Len(appq) <= AppCap /\ stream \in Seq(Change)
    BY <1>1, <1>4
  <2>2. /\ import \in Nat /\ link \in Links
        /\ base \subseteq Submitted /\ mixed \in BOOLEAN /\ lost \in BOOLEAN
    BY <1>1 DEF Links
  <2> QED BY <1>2, <1>3, <1>4, <2>1, <2>2 DEF Types
<1>6. WholeLoads /\ NothingSkipped
  BY <1>1 DEF WholeLoads, NothingSkipped
<1>7. OnePage
  BY <1>1, <1>2 DEF OnePage, PagesDue
<1> QED BY <1>2, <1>5, <1>6, <1>7 DEF TInv

----------------------------------------------------------------------------
(* The theorems                                                            *)

(* All steps together. *)
LEMMA NextKeeps == ASSUME TInv, Next PROVE TInv'
<1>1. CASE ServerSubmits \/ ServerChanges
  BY <1>1, ServerStepKeeps
<1>2. CASE InputSends \/ LinkReports \/ LinkChanges \/ EventArrives
  BY <1>2, InputSendsKeeps, LinkReportsKeeps, LinkChangesKeeps, EventArrivesKeeps
<1>3. CASE ImportReports
  BY <1>3, ImportReportsKeeps
<1>4. CASE NetStep
  BY <1>4, NetStartsKeeps, NetRefreshesKeeps, NetLoadsMoreKeeps, NetImportsKeeps, NetPostsKeeps,
     NetSendsKeeps DEF NetStep
<1>5. CASE MainHandles
  BY <1>5, MainLoadsRunsKeeps, MainAppendsRunsKeeps, MainSeesChangeKeeps, MainShowsTextKeeps
     DEF MainHandles
<1>6. CASE MainSends
  BY <1>6, MainSendsKeeps
<1>7. CASE Tick
  BY <1>7, StutteringKeeps DEF Tick
<1>8. CASE Key
  <2>1. app \in App
    BY DEF TInv, Types
  <2> QED BY <1>8, <2>1, KeysAct, ActsKeeps, AsksForMoreKeeps, QuitsKeeps
<1> QED BY <1>1, <1>2, <1>3, <1>4, <1>5, <1>6, <1>7, <1>8 DEF Next, MainStep

(* The invariant holds whatever is pressed, submitted or changed, and however
   answers, events, reconnections and imports come in (update and
   handle_key of runs/src/app/update.rs, the loops of runs/src/main.rs and
   runs/src/network.rs). *)
THEOREM TuiInvariance == Spec => []TInv
<1>1. TInv /\ [Next]_tuiVars => TInv'
  BY NextKeeps, StutteringKeeps
<1> QED BY StartsRight, <1>1, PTL DEF Spec

(* The type invariant that the runs check follows. *)
LEMMA InvTypes == ASSUME TInv PROVE TuiTypeOK
<1>1. Types
  BY DEF TInv
<1>2. /\ app.pane \in {"RunList", "CalcList", "Detail"}
      /\ app.screen \in {"RunList", "RunDetail", "CalcDetail", "Dashboard"}
      /\ app.runCursor \in Nat /\ app.calcCursor \in Nat /\ app.anchor \in Nat \cup {NoAnchor}
      /\ app.next \in Runs \cup {None} /\ app.loading \in BOOLEAN /\ app.overlay \in Overlay
  BY <1>1 DEF Types, App
<1>3. app.overlay.kind \in {"none", "help", "filter", "command", "confirm"}
  BY <1>2 DEF Overlay
<1>4. ASSUME NEW k \in DOMAIN todo PROVE todo[k].op \in Ops
  <2>1. todo[k] \in Effect
    BY <1>1, ElementOfSeq DEF Types
  <2> QED BY <2>1 DEF Effect, Cancel, Ops
<1>5. net.pc \in {"start", "idle", "answer"}
  BY <1>1 DEF Types, Net
<1>6. /\ Len(appq) <= AppCap /\ Len(netq) <= NetCap /\ import \in Nat
      /\ base \subseteq Runs /\ {mixed, lost} \subseteq BOOLEAN
      /\ link \in {"off", "lost", "connecting", "found", "live"}
  BY <1>1 DEF Types, Submitted, Links
<1> QED BY <1>2, <1>3, <1>4, <1>5, <1>6 DEF TuiTypeOK

(* Every variable has its type and both channels keep to their capacities,
   whatever is pressed and whatever the daemon sends (app_tx and net_tx of
   runs/src/main.rs). *)
THEOREM TuiTypes == Spec => []TuiTypeOK
BY TuiInvariance, InvTypes, PTL

(* The index of the list is right after every load, page, event and key: the rows
   that upsert_run and update_calc_status reach through it are those of the runs
   they are about (runs/src/app/state.rs). *)
THEOREM ListStaysIndexed == Spec => []ListIndexed
<1>1. TInv => ListIndexed
  BY DEF TInv, Indexed, ListIndexed
<1> QED BY <1>1, TuiInvariance, PTL

(* Paging reaches every run that there was when the list was loaded, for any number
   of runs, any page sizes and any creation times (next_cursor of
   runs/src/app/update.rs and list_runs of runsd/src/db/queries.rs). *)
THEOREM PagingSkipsNothing == Spec => []NothingSkipped
<1>1. TInv => NothingSkipped
  BY DEF TInv
<1> QED BY <1>1, TuiInvariance, PTL

(* A confirmed dialog sends what it showed, or nothing, for every list below it
   (ConfirmDialog and
   handle_confirm of runs/src/app/update.rs). *)
THEOREM DialogsDoWhatTheyShow == Spec => ConfirmedIsShown
<1> DEFINE Shown == app.overlay.kind = "confirm" /\ app'.overlay = Closed
                       => todo' \in {<<>>, <<app.overlay.command>>}
<1>1. Closed.kind = "none"
  BY DEF Closed
<1>2. ASSUME TInv, Next PROVE Shown
  <2>1. CASE app' = app
    BY <1>1, <2>1
  <2>2. CASE todo' = <<>>
    BY <2>2
  <2>3. CASE Acts
    <3>1. PICK b \in App, effects \in Seq(Plain) :
             /\ Presses(b, effects)
             /\ app.overlay.kind = "confirm" /\ b.overlay = Closed
                   => effects \in {<<>>, <<app.overlay.command>>}
      BY <2>3 DEF Acts
    <3> QED BY <1>2, <3>1, PressesOK
  <2>4. CASE AsksForMore
    BY <1>1, <2>4 DEF AsksForMore, InList
  <2>5. Quits \/ MainHandles => todo' = <<>>
    BY DEF Quits, MainHandles, MainLoadsRuns, MainAppendsRuns, MainSeesChange, MainShowsText, Updates
  <2>6. /\ ServerSubmits \/ ServerChanges \/ InputSends => app' = app
        /\ LinkReports \/ LinkChanges \/ EventArrives \/ ImportReports => app' = app
    BY DEF ServerSubmits, ServerChanges, InputSends, LinkReports, LinkChanges, EventArrives, ImportReports
  <2>7. NetStep \/ MainSends \/ Tick => app' = app
    BY DEF NetStep, NetStarts, NetRefreshes, NetLoadsMore, NetImports, NetPosts, NetSends, NetTakes,
           MainSends, Tick, tuiVars
  <2>8. Key => Acts \/ AsksForMore \/ Quits
    BY <1>2, KeysAct DEF TInv, Types
  <2> QED BY <1>2, <2>1, <2>2, <2>3, <2>4, <2>5, <2>6, <2>7, <2>8 DEF Next, MainStep
<1>3. TInv /\ [Next]_tuiVars => [Shown]_tuiVars
  BY <1>2
<1> QED BY <1>3, TuiInvariance, PTL DEF Spec, ConfirmedIsShown
=============================================================================
