------------------------ MODULE SurveyTemplate_proofs ------------------------
(***************************************************************************)
(* Proofs about the module SurveyTemplate, for every number of sections,   *)
(* surveys, requests and processes and every Env.                          *)
(***************************************************************************)
EXTENDS SurveyTemplate, WellFoundedInduction, TLAPS

(***************************************************************************)
(* The rows of a survey, as a function on the sections it has.             *)
(***************************************************************************)
SectionMap == UNION {[S -> SectionRow] : S \in SUBSET Section}
GraphRow == [sort : SortOfGraph, owner : Campaign \union {0}, section : SectionMap,
             branch : SUBSET Branch]

LEMMA MapTyped ==
  ASSUME NEW m \in SectionMap
  PROVE  /\ DOMAIN m \subseteq Section /\ m \in [DOMAIN m -> SectionRow]
         /\ \A s \in DOMAIN m : m[s] \in SectionRow /\ m[s].order \in Nat /\ m[s].kind \in Kind
BY DEF SectionMap, SectionRow

LEMMA PutTyped ==
  ASSUME NEW m \in SectionMap, NEW s \in Section, NEW row \in SectionRow
  PROVE  /\ Put(m, s, row) \in SectionMap
         /\ DOMAIN Put(m, s, row) = DOMAIN m \union {s}
         /\ Put(m, s, row)[s] = row
         /\ \A t \in DOMAIN m : t # s => Put(m, s, row)[t] = m[t]
<1>1. DOMAIN m \subseteq Section /\ \A t \in DOMAIN m : m[t] \in SectionRow
  BY MapTyped
<1>2. Put(m, s, row) \in [DOMAIN m \union {s} -> SectionRow]
  BY <1>1 DEF Put
<1>3. DOMAIN m \union {s} \in SUBSET Section
  BY <1>1
<1>4. QED
  BY <1>2, <1>3 DEF Put, SectionMap

LEMMA WithoutTyped ==
  ASSUME NEW m \in SectionMap, NEW s
  PROVE  /\ Without(m, s) \in SectionMap
         /\ DOMAIN Without(m, s) = DOMAIN m \ {s}
<1>1. DOMAIN m \subseteq Section /\ \A t \in DOMAIN m : m[t] \in SectionRow
  BY MapTyped
<1>2. Without(m, s) \in [DOMAIN m \ {s} -> SectionRow]
  BY <1>1 DEF Without
<1>3. DOMAIN m \ {s} \in SUBSET Section
  BY <1>1
<1>4. QED
  BY <1>2, <1>3 DEF Without, SectionMap

(***************************************************************************)
(* The order of a new row.  Every nonempty set of naturals has a least     *)
(* element, which serves twice: the orders of a survey have a bound (there *)
(* is no first section at which they have none), and so a greatest order.  *)
(***************************************************************************)
LEMMA Least ==
  ASSUME NEW T \in SUBSET Nat, T # {}
  PROVE  \E x \in T : \A y \in T : x <= y
<1>1. \E x \in T : \A y \in T : ~(<<y, x>> \in OpToRel(<, Nat))
  BY NatLessThanWellFounded, WFMin
<1>2. \A x \in Nat, y \in Nat : <<y, x>> \in OpToRel(<, Nat) <=> y < x
  BY DEF OpToRel
<1>3. PICK x \in T : \A y \in T : ~(<<y, x>> \in OpToRel(<, Nat))
  BY <1>1
<1>4. \A y \in T : x \in Nat /\ y \in Nat /\ ~(y < x)
  BY <1>2, <1>3
<1>5. QED
  BY <1>4

LEMMA OrdersBounded ==
  ASSUME NEW m \in SectionMap
  PROVE  \E k \in Nat : \A s \in DOMAIN m : m[s].order <= k
<1> DEFINE Below(n, k) == \A s \in DOMAIN m : s <= n => m[s].order <= k
           T == {n \in Nat : ~\E k \in Nat : Below(n, k)}
<1>1. /\ DOMAIN m \subseteq 1 .. MaxSection /\ MaxSection \in Nat
      /\ \A s \in DOMAIN m : m[s].order \in Nat /\ s \in Nat /\ s >= 1 /\ s <= MaxSection
  BY MapTyped, BoundAssumption DEF Section
<1>2. T = {}
  <2> SUFFICES ASSUME T # {} PROVE FALSE
    OBVIOUS
  <2>1. PICK n \in T : \A y \in T : n <= y
    <3> HIDE DEF T
    <3>1. T \in SUBSET Nat
      BY DEF T
    <3>2. QED
      BY <3>1, Least
  <2>2. n \in Nat /\ ~\E k \in Nat : Below(n, k)
    BY <2>1
  <2>3. Below(0, 0)
    BY <1>1
  <2>4. n # 0 /\ n - 1 \in Nat
    BY <2>2, <2>3
  <2>5. n - 1 \notin T
    BY <2>1, <2>2, <2>4
  <2>6. PICK k \in Nat : Below(n - 1, k)
    BY <2>4, <2>5
  <2>7. CASE n \in DOMAIN m
    <3>1. m[n].order \in Nat
      BY <1>1, <2>7
    <3>2. Below(n, k + m[n].order)
      <4> SUFFICES ASSUME NEW s \in DOMAIN m, s <= n PROVE m[s].order <= k + m[n].order
        OBVIOUS
      <4>1. CASE s = n
        BY <3>1, <4>1
      <4>2. CASE s # n
        <5>1. s \in Nat
          BY <1>1
        <5>2. s <= n - 1
          BY <2>2, <4>2, <5>1
        <5>3. m[s].order <= k /\ m[s].order \in Nat
          BY <1>1, <2>6, <5>2
        <5>4. QED
          BY <3>1, <5>3
      <4>3. QED
        BY <4>1, <4>2
    <3>3. QED
      BY <2>2, <3>1, <3>2
  <2>8. CASE n \notin DOMAIN m
    <3>1. ASSUME NEW s \in DOMAIN m, s <= n PROVE m[s].order <= k
      <4>1. s # n /\ s \in Nat
        BY <1>1, <2>8
      <4>2. s <= n - 1
        BY <2>2, <3>1, <4>1
      <4>3. QED
        BY <2>6, <4>2
    <3>2. QED
      BY <2>2, <2>6, <3>1
  <2>9. QED
    BY <2>7, <2>8
<1>3. MaxSection \notin T /\ MaxSection \in Nat
  BY <1>2, BoundAssumption
<1>4. PICK k \in Nat : Below(MaxSection, k)
  BY <1>3
<1>5. QED
  BY <1>1, <1>3, <1>4

\* A new row goes behind all others.
LEMMA NextOrderBehind ==
  ASSUME NEW m \in SectionMap
  PROVE  NextOrder(m) \in Nat /\ \A s \in DOMAIN m : m[s].order < NextOrder(m)
<1> DEFINE S == {0} \union {m[s].order : s \in DOMAIN m}
           T == {n \in Nat : \A x \in S : x <= n}
<1>1. S \in SUBSET Nat
  BY MapTyped
<1>2. T # {}
  <2>1. PICK k \in Nat : \A s \in DOMAIN m : m[s].order <= k
    BY OrdersBounded
  <2>2. k \in T
    BY <2>1
  <2>3. QED
    BY <2>2
<1>3. PICK n \in T : \A y \in T : n <= y
  <2> HIDE DEF T
  <2>1. T \in SUBSET Nat
    BY DEF T
  <2>2. QED
    BY <1>2, <2>1, Least
<1>4. n \in S
  <2> SUFFICES ASSUME n \notin S PROVE FALSE
    OBVIOUS
  <2>1. n \in Nat /\ n # 0 /\ \A x \in S : x <= n /\ x # n /\ x \in Nat
    BY <1>1, <1>3
  <2>2. n - 1 \in T
    BY <2>1
  <2>3. QED
    BY <1>3, <2>1, <2>2
<1>5. \A y \in S : n >= y
  BY <1>1, <1>3
<1>6. Sets!Max(S) \in S /\ \A y \in S : Sets!Max(S) >= y
  <2> HIDE DEF S
  <2>1. QED
    BY <1>4, <1>5 DEF Sets!Max
<1>7. NextOrder(m) = Sets!Max(S) + 1
  BY DEF NextOrder
<1>8. \A s \in DOMAIN m : m[s].order \in S
  OBVIOUS
<1> HIDE DEF S
<1>9. Sets!Max(S) \in Nat /\ \A s \in DOMAIN m : m[s].order \in Nat /\ m[s].order <= Sets!Max(S)
  BY <1>1, <1>6, <1>8
<1> QED
  BY <1>7, <1>9

LEMMA AppendedTyped ==
  ASSUME NEW m \in SectionMap, NEW s \in Section, NEW kind \in Kind
  PROVE  /\ Appended(m, s, kind) \in SectionMap
         /\ DOMAIN Appended(m, s, kind) = DOMAIN m \union {s}
         /\ Appended(m, s, kind)[s].kind = kind
         /\ Appended(m, s, kind)[s].order \in Nat
         /\ \A t \in DOMAIN m : /\ m[t].order < Appended(m, s, kind)[s].order
                                /\ t # s => Appended(m, s, kind)[t] = m[t]
<1> DEFINE row == [order |-> NextOrder(m), kind |-> kind]
<1>1. row \in SectionRow /\ row.order = NextOrder(m) /\ row.kind = kind
  BY NextOrderBehind DEF SectionRow
<1> HIDE DEF row
<1>2. Appended(m, s, kind) = Put(m, s, row)
  BY DEF Appended, row
<1>3. QED
  BY <1>1, <1>2, NextOrderBehind, PutTyped

-----------------------------------------------------------------------------
(***************************************************************************)
(* The inductive invariant: what is known of a graph, of a task and of two *)
(* tasks.                                                                  *)
(***************************************************************************)
Loop == {"copy_section", "copy_branch"}
Copying == {"copy_attach", "copy_list"} \union Loop
Owning == Copying \union {"save_object_id"}
Editing == {"add_script", "reorder"}
Copiers == {"view", "task", "seal", "duplicate", "export", "import"}

Typed ==
  /\ graph \in [Graph -> GraphRow]
  /\ \A g \in Graph : SectionsOf(g) \subseteq 1 .. lastSection
  /\ campaign \in [Campaign -> CampaignRow]
  /\ task \in [Process -> Task]
  /\ signal \in BOOLEAN
  /\ spoiled \subseteq Campaign /\ done \subseteq Graph
  /\ lastSection \in 0 .. MaxSection
  /\ requests \in 0 .. MaxRequest /\ faults \in 0 .. MaxFaults

\* A branching belongs to a section that is there, and leads to one or hangs up; the
\* goto of an exported one may be gone by the time the file is written.
Sound(g) ==
  /\ \A b \in graph[g].branch : b.section \in SectionsOf(g)
  /\ \A b, c \in graph[g].branch : b.section = c.section /\ b.keys = c.keys => b = c
  /\ graph[g].sort # "file" =>
       \A b \in graph[g].branch : b.goto \in SectionsOf(g) \union {Hangup}

\* The target of a copy is a graph of its own, empty until the loops begin.
Target(t) ==
  /\ graph[t.dst].sort = SortOfCopy(t.who)
  /\ graph[t.src].sort # "none" /\ t.src # t.dst
  /\ t.dst \notin done /\ t.dst # 1
  /\ t.pc # "copy_branch" => graph[t.dst].branch = {}
  /\ t.pc \in {"copy_attach", "copy_list"} => SectionsOf(t.dst) = {}

\* The target has the sections that were treated, and branchings of no section that is
\* still to be treated.
InStep(t) ==
  /\ t.todo \subseteq t.list
  /\ \A r, q \in t.list : r.id = q.id => r = q
  /\ \A r \in t.list : r.id \in SectionsOf(t.dst) \/ (t.pc = "copy_section" /\ r \in t.todo)
  /\ t.pc = "copy_branch" => \A r \in t.todo, b \in graph[t.dst].branch : b.section # r.id

\* The section rows of a graph, as a function of the graph.
RowsOf(G) == {[id |-> s, order |-> G.section[s].order, kind |-> G.section[s].kind]
                : s \in DOMAIN G.section}

LEMMA RowsAre == \A g : Rows(g) = RowsOf(graph[g])
BY DEF Rows, RowsOf, SectionsOf

\* While nobody changes the source, the target holds the treated part of it and no more.
Faithful(t) ==
  LET S == graph[t.src]
      D == graph[t.dst] IN
  /\ t.list = RowsOf(S)
  /\ \A s \in DOMAIN D.section :
       \E r \in t.list : r.id = s /\ (t.pc = "copy_section" => r \notin t.todo)
  /\ \A r \in t.list : r.id \in DOMAIN D.section => D.section[r.id].kind = r.kind
  /\ \A r, q \in t.list :
       r.id \in DOMAIN D.section /\ q.id \in DOMAIN D.section /\ r.order < q.order
         => D.section[r.id].order <= D.section[q.id].order
  /\ t.pc = "copy_section" => \A r \in t.list \ t.todo, q \in t.todo : r.order <= q.order
  /\ t.pc = "copy_branch" =>
       D.branch = {b \in S.branch : \E r \in t.list \ t.todo : b.section = r.id}

Busy(t) ==
  /\ \A r \in t.list \union t.todo :
       r.id \in 1 .. lastSection /\ (t.pc = "reorder" => r.order >= 1)
  /\ t.pc \in {"save_started", "copy_create"} \union Copying => t.who \in Copiers
  /\ t.pc \in Copying => Target(t)
  /\ t.pc \in Loop => InStep(t) /\ (t.clean => Faithful(t))
  /\ t.pc \in Editing => graph[t.src].sort \in {"template", "deleted"}
  /\ IF t.pc \in Owning THEN graph[t.dst].sort # "none" ELSE t.dst = 1

\* No two tasks write the same copy, and no editor writes what is being copied to.
Apart ==
  \A p, q \in Process :
    /\ task[p].pc \in Owning /\ task[q].pc \in Owning /\ task[p].dst = task[q].dst => p = q
    /\ task[p].pc \in Editing /\ task[q].pc \in Copying => task[p].src # task[q].dst

Known == graph[1].sort # "none" /\ \A g \in done : graph[g].sort # "none"

IInv ==
  /\ Typed /\ Apart /\ Known
  /\ \A g \in Graph : Sound(g)
  /\ \A p \in Process : Busy(task[p])

(***************************************************************************)
(* The step of a process p, which may change the graph g.                  *)
(***************************************************************************)
\* What the others see of it.
Others(p, g) ==
  /\ \A h \in Graph \ {g} : graph'[h] = graph[h]
  /\ graph[g].sort # "none" => graph'[g].sort # "none"
  /\ graph[g].sort \in {"template", "deleted"} => graph'[g].sort \in {"template", "deleted"}
  /\ \A q \in Process \ {p} :
       /\ \/ task'[q] = [task[q] EXCEPT !.clean = FALSE]
          \/ /\ task'[q] = task[q]
             /\ task[q].pc \in Loop /\ task[q].src = g => graph'[g] = graph[g]
       /\ task[q].pc \in Copying =>
            /\ task[q].dst = g => graph'[g] = graph[g]
            /\ task[q].dst \in done' => task[q].dst \in done
  /\ \A s \in 1 .. lastSection : s \in 1 .. lastSection'

\* A task p takes no copy another one owns and edits no graph another one fills.
Alone(p) ==
  /\ task'[p].pc \in Owning => \A q \in Process \ {p} :
       /\ task[q].pc \in Owning => task[q].dst # task'[p].dst
       /\ task'[p].pc \in Copying /\ task[q].pc \in Editing => task[q].src # task'[p].dst
  /\ task'[p].pc \in Editing => \A q \in Process \ {p} :
       task[q].pc \in Copying => task[q].dst # task'[p].src

LEMMA TaskFields ==
  ASSUME NEW t \in Task
  PROVE  /\ t.pc \in Pc /\ t.who \in Who /\ t.src \in Graph /\ t.dst \in Graph
         /\ t.list \subseteq Listed /\ t.todo \subseteq Listed
         /\ t.id \in Campaign /\ t.row \in CampaignRow /\ t.clean \in BOOLEAN
         /\ \A r \in t.list \union t.todo : r.id \in Section /\ r.order \in Nat /\ r.kind \in Kind
BY DEF Task, Listed

LEMMA Soiled ==
  ASSUME NEW t \in Task, NEW u, u = [t EXCEPT !.clean = FALSE]
  PROVE  /\ u \in Task /\ u.clean = FALSE
         /\ u.pc = t.pc /\ u.who = t.who /\ u.src = t.src /\ u.dst = t.dst
         /\ u.list = t.list /\ u.todo = t.todo
BY DEF Task

LEMMA OthersBusy ==
  ASSUME IInv, NEW p \in Process, NEW g \in Graph, Others(p, g), NEW q \in Process \ {p}
  PROVE  Busy(task[q])'
<1> DEFINE t == task[q]
           u == task'[q]
<1>1. t \in Task /\ t.src \in Graph /\ t.dst \in Graph /\ Busy(t)
  BY TaskFields DEF IInv, Typed
<1>2. /\ u.pc = t.pc /\ u.who = t.who /\ u.src = t.src /\ u.dst = t.dst
      /\ u.list = t.list /\ u.todo = t.todo
      /\ u.clean = FALSE \/ (u.clean = t.clean /\ (t.pc \in Loop => graph'[t.src] = graph[t.src]))
  <2>1. CASE u = [t EXCEPT !.clean = FALSE]
    BY <1>1, <2>1, Soiled
  <2>2. CASE u = t /\ (t.pc \in Loop /\ t.src = g => graph'[g] = graph[g])
    BY <1>1, <2>2 DEF Others
  <2>3. QED
    BY <2>1, <2>2 DEF Others
<1>3. t.pc \in Copying => graph'[t.dst] = graph[t.dst]
  BY <1>1 DEF Others
<1>4. \A h \in Graph : /\ graph[h].sort # "none" => graph'[h].sort # "none"
                       /\ graph[h].sort \in {"template", "deleted"}
                            => graph'[h].sort \in {"template", "deleted"}
  BY DEF Others
<1>5. u.pc \in Copying => Target(task[q])'
  <2> SUFFICES ASSUME u.pc \in Copying PROVE Target(task[q])'
    OBVIOUS
  <2>1. Target(t) /\ t.dst \notin done' /\ graph'[t.dst] = graph[t.dst]
        /\ graph'[t.src].sort # "none"
    BY <1>1, <1>2, <1>3, <1>4 DEF Busy, Others, Target
  <2>2. QED
    BY <1>2, <2>1 DEF Target, SectionsOf
<1>6. u.pc \in Loop => InStep(task[q])'
  BY <1>1, <1>2, <1>3 DEF Busy, InStep, SectionsOf, Copying
<1>7. u.pc \in Loop /\ u.clean => Faithful(task[q])'
  <2> SUFFICES ASSUME u.pc \in Loop, u.clean PROVE Faithful(task[q])'
    OBVIOUS
  <2>1. Faithful(t) /\ graph'[t.src] = graph[t.src] /\ graph'[t.dst] = graph[t.dst]
    BY <1>1, <1>2, <1>3 DEF Busy, Copying
  <2>2. PICK S, D : S = graph[t.src] /\ D = graph[t.dst]
    OBVIOUS
  <2>3. graph'[u.src] = S /\ graph'[u.dst] = D
    BY <1>2, <2>1, <2>2
  <2>4. u.list = t.list /\ u.todo = t.todo /\ u.pc = t.pc
    BY <1>2
  <2> HIDE DEF t, u
  <2>5. QED
    BY <2>1, <2>2, <2>3, <2>4 DEF Faithful, u
<1>8. u.pc \in Editing => graph'[u.src].sort \in {"template", "deleted"}
  BY <1>1, <1>2, <1>4 DEF Busy
<1>9. \A r \in u.list \union u.todo :
        r.id \in 1 .. lastSection' /\ (u.pc = "reorder" => r.order >= 1)
  BY <1>1, <1>2 DEF Busy, Others
<1>10. IF u.pc \in Owning THEN graph'[u.dst].sort # "none" ELSE u.dst = 1
  BY <1>1, <1>2, <1>4 DEF Busy
<1>11. u.pc \in {"save_started", "copy_create"} \union Copying => u.who \in Copiers
  BY <1>1, <1>2 DEF Busy
<1>12. QED
  BY <1>5, <1>6, <1>7, <1>8, <1>9, <1>10, <1>11 DEF Busy

LEMMA StepKeeps ==
  ASSUME IInv, NEW p \in Process, NEW g \in Graph, Others(p, g), Alone(p),
         Typed', Known', Sound(g)', Busy(task[p])'
  PROVE  IInv'
<1>1. \A q \in Process : Busy(task[q])'
  BY OthersBusy
<1>2. \A h \in Graph : Sound(h)'
  BY DEF Others, IInv, Sound, SectionsOf
<1>3. Apart'
  <2>1. \A q \in Process \ {p} :
          task'[q].pc = task[q].pc /\ task'[q].src = task[q].src /\ task'[q].dst = task[q].dst
    BY Soiled DEF Others, IInv, Typed
  <2>2. \A q, r \in Process \ {p} :
          /\ task'[q].pc \in Owning /\ task'[r].pc \in Owning /\ task'[q].dst = task'[r].dst
               => q = r
          /\ task'[q].pc \in Editing /\ task'[r].pc \in Copying => task'[q].src # task'[r].dst
    BY <2>1 DEF IInv, Apart
  <2>3. \A q \in Process \ {p} :
          /\ task'[p].pc \in Owning /\ task'[q].pc \in Owning => task'[q].dst # task'[p].dst
          /\ task'[p].pc \in Copying /\ task'[q].pc \in Editing => task'[q].src # task'[p].dst
          /\ task'[p].pc \in Editing /\ task'[q].pc \in Copying => task'[q].dst # task'[p].src
    BY <2>1 DEF Alone, Owning
  <2>4. ~(task'[p].pc \in Editing /\ task'[p].pc \in Copying)
    BY DEF Editing, Copying, Loop
  <2>5. QED
    BY <2>2, <2>3, <2>4 DEF Apart
<1>4. QED
  BY <1>1, <1>2, <1>3 DEF IInv

-----------------------------------------------------------------------------
(***************************************************************************)
(* Types of what a step writes.                                            *)
(***************************************************************************)
LEMMA IdleTyped ==
  /\ Idle \in Task /\ NoCampaign \in CampaignRow /\ 1 \in Graph
  /\ Idle.pc = "idle" /\ Idle.dst = 1 /\ Idle.list = {} /\ Idle.todo = {}
<1>1. 1 \in Graph /\ NoCampaign \in CampaignRow
  BY BoundAssumption DEF Graph, NoCampaign, CampaignRow
<1>2. QED
  BY <1>1 DEF Idle, Task, Pc, Who, Campaign, Original

LEMMA GotoStep ==
  ASSUME task \in [Process -> Task], NEW p \in Process, NEW t \in Task, Goto(p, t)
  PROVE  /\ task' \in [Process -> Task] /\ task'[p] = t
         /\ \A q \in Process \ {p} : task'[q] = task[q]
BY DEF Goto

LEMMA ChangesStep ==
  ASSUME task \in [Process -> Task], NEW p \in Process, NEW t \in Task, NEW g,
         t.pc \in Loop => t.src # g, Changes(g, p, t)
  PROVE  /\ task' \in [Process -> Task] /\ task'[p] = t
         /\ \A q \in Process \ {p} :
              \/ task'[q] = [task[q] EXCEPT !.clean = FALSE]
              \/ task'[q] = task[q] /\ ~(task[q].pc \in Loop /\ task[q].src = g)
<1> DEFINE u(q) == IF q = p THEN t ELSE task[q]
           v(q) == IF u(q).src = g /\ u(q).pc \in Loop
                   THEN [u(q) EXCEPT !.clean = FALSE] ELSE u(q)
<1>1. task' = [q \in Process |-> v(q)]
  BY DEF Changes, Loop
<1>2. ASSUME NEW q \in Process PROVE v(q) \in Task /\ task'[q] = v(q)
  BY <1>1, <1>2, Soiled
<1>3. QED
  BY <1>1, <1>2

\* A task that copies nothing and edits nothing.
Plain(t) ==
  /\ t.pc \notin Owning \union Editing /\ t.dst = 1
  /\ t.pc \in {"save_started", "copy_create"} => t.who \in Copiers
  /\ \A r \in t.list \union t.todo : r.id \in 1 .. lastSection

LEMMA PlainKeeps ==
  ASSUME IInv, NEW p \in Process, NEW t \in Task, Goto(p, t), Plain(t),
         UNCHANGED <<graph, lastSection, done>>,
         campaign' \in [Campaign -> CampaignRow],
         signal' \in BOOLEAN, spoiled' \subseteq Campaign,
         requests' \in 0 .. MaxRequest, faults' \in 0 .. MaxFaults
  PROVE  IInv'
<1>1. /\ task' \in [Process -> Task] /\ task'[p] = t
      /\ \A q \in Process \ {p} : task'[q] = task[q]
  BY GotoStep DEF IInv, Typed
<1>2. Typed' /\ Known'
  BY <1>1 DEF IInv, Typed, Known, SectionsOf
<1>3. Others(p, 1) /\ Alone(p)
  BY <1>1 DEF Others, Alone, Plain, Owning
<1>4. Sound(1)'
  BY IdleTyped DEF IInv, Sound, SectionsOf
<1>5. Busy(task[p])'
  BY <1>1 DEF Plain, Busy, Owning, Copying, Editing
<1>6. QED
  BY <1>2, <1>3, <1>4, <1>5, IdleTyped, StepKeeps

\* The same for a process that is left idle.
LEMMA IdleKeeps ==
  ASSUME IInv, NEW p \in Process, End(p) \/ (task[p] = Idle /\ task' = task),
         UNCHANGED <<graph, lastSection, done>>,
         campaign' \in [Campaign -> CampaignRow],
         signal' \in BOOLEAN, spoiled' \subseteq Campaign,
         requests' \in 0 .. MaxRequest, faults' \in 0 .. MaxFaults
  PROVE  IInv'
<1>1. Goto(p, Idle)
  BY DEF End, Goto, IInv, Typed
<1>2. Plain(Idle)
  BY IdleTyped DEF Plain, Owning, Copying, Loop, Editing
<1>3. QED
  BY <1>1, <1>2, IdleTyped, PlainKeeps

LEMMA RequestTyped ==
  ASSUME Typed, Request(1)
  PROVE  requests' \in 0 .. MaxRequest
BY BoundAssumption DEF Typed, Request

LEMMA SpoilTyped ==
  ASSUME Typed, NEW t \in Task
  PROVE  Spoil(t) \subseteq Campaign
BY TaskFields DEF Typed, Spoil

LEMMA CampaignTyped ==
  ASSUME NEW row \in CampaignRow
  PROVE  /\ row.content \in Graph
         /\ \A st \in {"none", "PAUSE", "START"} : [row EXCEPT !.status = st] \in CampaignRow
         /\ \A g \in Graph : [row EXCEPT !.content = g] \in CampaignRow
         /\ [row EXCEPT !.started = TRUE] \in CampaignRow
         /\ [row EXCEPT !.status = "PAUSE", !.started = FALSE, !.duplicated = TRUE]
              \in CampaignRow
BY DEF CampaignRow

-----------------------------------------------------------------------------
(***************************************************************************)
(* The row of the campaign: no survey changes.                             *)
(***************************************************************************)
LEMMA StepStartCopy ==
  ASSUME IInv, NEW p \in Process, NEW g \in Graph, NEW who \in {"seal", "export", "import"},
         StartCopy(p, who, g)
  PROVE  IInv'
<1> DEFINE t == [Idle EXCEPT !.pc = "copy_create", !.who = who, !.src = g]
<1>1. t \in Task /\ t.pc = "copy_create" /\ t.who = who /\ t.dst = 1 /\ t.list = {} /\ t.todo = {}
  BY IdleTyped DEF Task, Pc, Who
<1>2. Goto(p, t) /\ UNCHANGED <<graph, campaign, signal, spoiled, done, lastSection, faults>>
      /\ Request(1)
  BY DEF StartCopy
<1> HIDE DEF t
<1>3. Plain(t)
  BY <1>1 DEF Plain, Owning, Copying, Loop, Editing, Copiers
<1>4. QED
  BY <1>1, <1>2, <1>3, RequestTyped, PlainKeeps DEF IInv, Typed

LEMMA StepUpdateStatus ==
  ASSUME IInv, NEW p \in Process, NEW c \in Campaign, NEW status \in {"PAUSE", "START"},
         UpdateStatus(p, c, status)
  PROVE  IInv'
<1> DEFINE row == [campaign[c] EXCEPT !.status = status]
           t == [Idle EXCEPT !.pc = "save_started", !.who = "view", !.id = c, !.row = row]
<1>1. row \in CampaignRow
  BY CampaignTyped DEF IInv, Typed
<1>2. /\ campaign' = [campaign EXCEPT ![c] = row] /\ Request(1)
      /\ UNCHANGED <<graph, signal, spoiled, done, lastSection, faults>>
      /\ Goto(p, t) \/ (task[p] = Idle /\ task' = task)
  BY DEF UpdateStatus
<1> HIDE DEF row
<1>3. t \in Task /\ t.pc = "save_started" /\ t.who = "view" /\ t.dst = 1
      /\ t.list = {} /\ t.todo = {}
  BY <1>1, IdleTyped DEF Task, Pc, Who
<1> HIDE DEF t
<1>4. Plain(t)
  BY <1>3 DEF Plain, Owning, Copying, Loop, Editing, Copiers
<1>5. campaign' \in [Campaign -> CampaignRow] /\ requests' \in 0 .. MaxRequest
      /\ signal' \in BOOLEAN /\ spoiled' \subseteq Campaign /\ faults' \in 0 .. MaxFaults
  BY <1>1, <1>2, RequestTyped DEF IInv, Typed
<1>6. QED
  BY <1>2, <1>3, <1>4, <1>5, PlainKeeps, IdleKeeps

\* The tasks that read the row and go on with it.
LEMMA StepReadRow ==
  ASSUME IInv, NEW p \in Process, NEW c \in Campaign,
         NEW pc \in {"save_started", "collect_save", "form"},
         NEW who \in {"task", "collect", "change"}, pc = "save_started" => who = "task",
         Goto(p, [Idle EXCEPT !.pc = pc, !.who = who, !.id = c, !.row = campaign[c]]),
         UNCHANGED <<graph, campaign, signal, spoiled, done, lastSection, faults>>,
         requests' = requests \/ Request(1)
  PROVE  IInv'
<1> DEFINE t == [Idle EXCEPT !.pc = pc, !.who = who, !.id = c, !.row = campaign[c]]
<1>1. t \in Task /\ t.pc = pc /\ t.who = who /\ t.dst = 1 /\ t.list = {} /\ t.todo = {}
  BY IdleTyped DEF Task, Pc, Who, IInv, Typed
<1> HIDE DEF t
<1>2. Plain(t)
  BY <1>1 DEF Plain, Owning, Copying, Loop, Editing, Copiers
<1>3. Goto(p, t) /\ requests' \in 0 .. MaxRequest
  BY RequestTyped DEF t, IInv, Typed
<1>4. QED
  BY <1>1, <1>2, <1>3, PlainKeeps DEF IInv, Typed

LEMMA StepSaveStarted ==
  ASSUME IInv, NEW p \in Process, SaveStarted(p)
  PROVE  IInv'
<1> DEFINE t == task[p]
           row == [t.row EXCEPT !.started = TRUE]
           u == [t EXCEPT !.pc = "copy_create", !.src = row.content]
<1>1. t \in Task /\ t.row \in CampaignRow /\ t.id \in Campaign /\ Busy(t)
  BY TaskFields DEF IInv, Typed
<1>2. row \in CampaignRow /\ row.content \in Graph
  BY <1>1, CampaignTyped
<1>3. /\ t.pc = "save_started" /\ campaign' = [campaign EXCEPT ![t.id] = row]
      /\ UNCHANGED <<graph, signal, spoiled, done, lastSection, requests, faults>>
      /\ End(p) \/ Goto(p, u)
  BY DEF SaveStarted
<1>4. campaign' \in [Campaign -> CampaignRow]
  BY <1>1, <1>2, <1>3 DEF IInv, Typed
<1> HIDE DEF row
<1>5. u \in Task /\ u.pc = "copy_create" /\ u.who = t.who /\ u.dst = t.dst
      /\ u.list = t.list /\ u.todo = t.todo
  BY <1>1, <1>2 DEF Task, Pc
<1> HIDE DEF u
<1>6. Plain(u)
  BY <1>1, <1>3, <1>5 DEF Busy, Plain, Owning, Copying, Loop, Editing
<1>7. QED
  BY <1>3, <1>4, <1>5, <1>6, PlainKeeps, IdleKeeps DEF IInv, Typed

LEMMA StepLateSave ==
  ASSUME IInv, NEW p \in Process, CollectSave(p) \/ CampaignChange(p) \/ SaveObjectId(p)
  PROVE  IInv'
<1> DEFINE t == task[p]
<1>1. /\ t.row \in CampaignRow /\ t.id \in Campaign /\ t.dst \in Graph
      /\ campaign[t.id] \in CampaignRow
  BY TaskFields DEF IInv, Typed
<1>2. End(p) /\ UNCHANGED <<graph, signal, done, lastSection, requests, faults>>
  BY DEF CollectSave, CampaignChange, SaveObjectId
<1>3. ASSUME NEW row \in CampaignRow, SaveLate(t.id, row)
      PROVE  campaign' \in [Campaign -> CampaignRow] /\ spoiled' \subseteq Campaign
  BY <1>1, <1>3 DEF SaveLate, IInv, Typed
<1>4. campaign' \in [Campaign -> CampaignRow] /\ spoiled' \subseteq Campaign
  <2>1. CASE CollectSave(p)
    BY <1>1, <1>3, <2>1 DEF CollectSave
  <2>2. CASE CampaignChange(p)
    <3>1. Posted(t) \subseteq Graph
      BY <1>1, CampaignTyped DEF Posted, Choices
    <3>2. CASE \E g \in Posted(t) : SaveLate(t.id, [campaign[t.id] EXCEPT !.content = g])
      <4>1. PICK g \in Graph : SaveLate(t.id, [campaign[t.id] EXCEPT !.content = g])
        BY <3>1, <3>2
      <4>2. [campaign[t.id] EXCEPT !.content = g] \in CampaignRow
        BY <1>1, CampaignTyped
      <4>3. QED
        BY <1>3, <4>1, <4>2
    <3>3. CASE UNCHANGED <<campaign, spoiled>>
      BY <3>3 DEF IInv, Typed
    <3>4. QED
      BY <2>2, <3>2, <3>3 DEF CampaignChange
  <2>3. CASE SaveObjectId(p)
    <3>1. [t.row EXCEPT !.content = t.dst] \in CampaignRow
      BY <1>1, CampaignTyped
    <3>2. QED
      BY <1>1, <2>3, <3>1 DEF SaveObjectId, IInv, Typed
  <2>4. QED
    BY <2>1, <2>2, <2>3
<1>5. QED
  BY <1>2, <1>4, IdleKeeps DEF IInv, Typed

LEMMA StepCampaignDuplicate ==
  ASSUME IInv, NEW p \in Process, CampaignDuplicate(p)
  PROVE  IInv'
<1> DEFINE row == [campaign[Original] EXCEPT !.status = "PAUSE", !.started = FALSE,
                                             !.duplicated = TRUE]
           t == [Idle EXCEPT !.pc = "copy_create", !.who = "duplicate",
                             !.src = row.content, !.id = Duplicate, !.row = row]
<1>1. Original \in Campaign /\ Duplicate \in Campaign
  BY DEF Original, Duplicate, Campaign
<1>2. row \in CampaignRow /\ row.content \in Graph
  BY <1>1, CampaignTyped DEF IInv, Typed
<1>3. /\ campaign' = [campaign EXCEPT ![Duplicate] = row] /\ Request(1)
      /\ UNCHANGED <<graph, signal, spoiled, done, lastSection, faults>>
      /\ Goto(p, t) \/ (task[p] = Idle /\ task' = task)
  BY DEF CampaignDuplicate
<1>4. campaign' \in [Campaign -> CampaignRow] /\ requests' \in 0 .. MaxRequest
  BY <1>1, <1>2, <1>3, RequestTyped DEF IInv, Typed
<1> HIDE DEF row
<1>5. t \in Task /\ t.pc = "copy_create" /\ t.who = "duplicate" /\ t.dst = 1
      /\ t.list = {} /\ t.todo = {}
  BY <1>1, <1>2, IdleTyped DEF Task, Pc, Who
<1> HIDE DEF t
<1>6. Plain(t)
  BY <1>5 DEF Plain, Owning, Copying, Loop, Editing, Copiers
<1>7. signal' \in BOOLEAN /\ spoiled' \subseteq Campaign /\ faults' \in 0 .. MaxFaults
  BY <1>3 DEF IInv, Typed
<1>8. QED
  BY <1>3, <1>4, <1>5, <1>6, <1>7, PlainKeeps, IdleKeeps

LEMMA StepCrash ==
  ASSUME IInv, NEW p \in Process, Crash(p)
  PROVE  IInv'
<1>1. task[p] \in Task
  BY DEF IInv, Typed
<1>2. /\ End(p) /\ UNCHANGED <<graph, campaign, done, lastSection, requests>>
      /\ signal' \in BOOLEAN /\ faults < MaxFaults /\ faults' = faults + 1
      /\ spoiled' = spoiled \/ spoiled' = Spoil(task[p])
  BY DEF Crash
<1>3. faults' \in 0 .. MaxFaults /\ spoiled' \subseteq Campaign
  BY <1>1, <1>2, SpoilTyped, BoundAssumption DEF IInv, Typed
<1>4. QED
  BY <1>2, <1>3, IdleKeeps DEF IInv, Typed

-----------------------------------------------------------------------------
(***************************************************************************)
(* The editor: a template that no copy is made to.                         *)
(***************************************************************************)
\* What is left of a template that was edited.
Closed(G) ==
  /\ \A b \in G.branch : b.section \in DOMAIN G.section
                         /\ b.goto \in DOMAIN G.section \union {Hangup}
  /\ \A b, c \in G.branch : b.section = c.section /\ b.keys = c.keys => b = c

\* What an editing task of template g goes on with, when the sections are 1 .. n.
EditsOn(t, g, n) ==
  /\ t.pc \in {"idle"} \union Editing /\ t.dst = 1
  /\ t.pc \in Editing => t.src = g
  /\ \A r \in t.list \union t.todo : r.id \in 1 .. n /\ (t.pc = "reorder" => r.order >= 1)

NoTarget(g) == \A q \in Process : task[q].pc \in Copying => task[q].dst # g

LEMMA EditKeeps ==
  ASSUME IInv, NEW p \in Process, NEW g \in Graph, NEW G \in GraphRow, NEW t \in Task,
         NoTarget(g), graph[g].sort \in {"template", "deleted"},
         G.sort \in {"template", "deleted"},
         Closed(G), DOMAIN G.section \subseteq 1 .. lastSection',
         EditsOn(t, g, lastSection'),
         graph' = [graph EXCEPT ![g] = G], Changes(g, p, t),
         UNCHANGED <<campaign, signal, spoiled, done, faults>>,
         lastSection' \in 0 .. MaxSection, lastSection <= lastSection',
         requests' \in 0 .. MaxRequest
  PROVE  IInv'
<1>1. t.pc \notin Loop /\ t.pc \notin Owning
  BY DEF EditsOn, Loop, Owning, Copying, Editing
<1>2. /\ task' \in [Process -> Task] /\ task'[p] = t
      /\ \A q \in Process \ {p} :
           \/ task'[q] = [task[q] EXCEPT !.clean = FALSE]
           \/ task'[q] = task[q] /\ ~(task[q].pc \in Loop /\ task[q].src = g)
  BY <1>1, ChangesStep DEF IInv, Typed
<1>3. /\ graph' \in [Graph -> GraphRow] /\ graph'[g] = G
      /\ \A h \in Graph \ {g} : graph'[h] = graph[h]
  BY DEF IInv, Typed
<1>4. \A s \in 1 .. lastSection : s \in 1 .. lastSection'
  BY BoundAssumption DEF IInv, Typed
<1>5. \A h \in Graph : DOMAIN graph'[h].section \subseteq 1 .. lastSection'
  BY <1>3, <1>4 DEF IInv, Typed, SectionsOf
<1>6. Typed'
  BY <1>2, <1>3, <1>5 DEF IInv, Typed, SectionsOf
<1>7. Known'
  BY <1>3 DEF IInv, Typed, Known
<1>8. Sound(g)'
  BY <1>3 DEF Closed, Sound, SectionsOf
<1>9. Others(p, g)
  BY <1>2, <1>3, <1>4 DEF Others, NoTarget
<1>10. Alone(p)
  BY <1>1, <1>2 DEF Alone, NoTarget, EditsOn
<1>11. Busy(task[p])'
  BY <1>1, <1>2, <1>3 DEF Busy, EditsOn, Owning, Copying, Editing
<1>12. QED
  BY <1>6, <1>7, <1>8, <1>9, <1>10, <1>11, StepKeeps

LEMMA EditableFree ==
  ASSUME IInv, NEW g \in Graph, Editable(g)
  PROVE  NoTarget(g) /\ graph[g].sort = "template"
<1>1. ASSUME NEW q \in Process, task[q].pc \in Copying, task[q].dst = g PROVE FALSE
  <2>1. SortOfCopy(task[q].who) = "template"
    BY <1>1 DEF IInv, Busy, Target, Editable, IsTemplate
  <2>2. task[q].who = "import"
    BY <2>1 DEF SortOfCopy
  <2>3. QED
    BY <1>1, <2>2 DEF Editable
<1>2. QED
  BY <1>1 DEF NoTarget, Editable, IsTemplate

LEMMA EditorFree ==
  ASSUME IInv, NEW p \in Process, task[p].pc \in Editing
  PROVE  NoTarget(task[p].src) /\ graph[task[p].src].sort \in {"template", "deleted"}
BY DEF IInv, Busy, Apart, NoTarget

\* The parts of a template that an editor finds.
LEMMA TemplateIs ==
  ASSUME IInv, NEW g \in Graph, graph[g].sort \in {"template", "deleted"}
  PROVE  /\ graph[g] \in GraphRow /\ graph[g].section \in SectionMap
         /\ graph[g].branch \subseteq Branch
         /\ SectionsOf(g) \subseteq 1 .. lastSection /\ SectionsOf(g) \subseteq Section
         /\ Closed(graph[g])
<1>1. graph[g] \in GraphRow /\ Sound(g) /\ SectionsOf(g) \subseteq 1 .. lastSection
  BY DEF IInv, Typed
<1>2. graph[g].section \in SectionMap /\ graph[g].branch \subseteq Branch
  BY <1>1 DEF GraphRow
<1>3. SectionsOf(g) \subseteq Section
  BY <1>2, MapTyped DEF SectionsOf
<1>4. Closed(graph[g])
  BY <1>1 DEF Sound, Closed, SectionsOf
<1>5. QED
  BY <1>1, <1>2, <1>3, <1>4

\* A template with other rows, with other branchings.
LEMMA RowTyped ==
  ASSUME NEW G \in GraphRow, NEW m \in SectionMap, NEW B \in SUBSET Branch
  PROVE  /\ [G EXCEPT !.section = m] \in GraphRow /\ [G EXCEPT !.section = m].section = m
         /\ [G EXCEPT !.section = m].branch = G.branch /\ [G EXCEPT !.section = m].sort = G.sort
         /\ [G EXCEPT !.branch = B] \in GraphRow /\ [G EXCEPT !.branch = B].branch = B
         /\ [G EXCEPT !.branch = B].section = G.section /\ [G EXCEPT !.branch = B].sort = G.sort
         /\ [G EXCEPT !.section = m, !.branch = B] \in GraphRow
         /\ [G EXCEPT !.section = m, !.branch = B].section = m
         /\ [G EXCEPT !.section = m, !.branch = B].branch = B
         /\ [G EXCEPT !.section = m, !.branch = B].sort = G.sort
BY DEF GraphRow

LEMMA EmptyTyped ==
  ASSUME NEW sort \in SortOfGraph, NEW owner \in Campaign \union {0}
  PROVE  /\ Empty(sort, owner) \in GraphRow /\ Empty(sort, owner).sort = sort
         /\ DOMAIN Empty(sort, owner).section = {} /\ Empty(sort, owner).branch = {}
<1> DEFINE m == [s \in {} |-> 0]
<1>1. m \in [{} -> SectionRow] /\ DOMAIN m = {}
  OBVIOUS
<1>2. m \in SectionMap
  BY <1>1 DEF SectionMap
<1> HIDE DEF m
<1>3. Empty(sort, owner) = [sort |-> sort, owner |-> owner, section |-> m, branch |-> {}]
  BY DEF Empty, m
<1>4. QED
  BY <1>1, <1>2, <1>3 DEF GraphRow

LEMMA StepSurveyDel ==
  ASSUME IInv, NEW p \in Process, NEW g \in Graph, SurveyDel(p, g)
  PROVE  IInv'
<1> DEFINE G == Empty("deleted", 0)
<1>1. G \in GraphRow /\ G.sort = "deleted" /\ DOMAIN G.section = {} /\ G.branch = {}
  BY EmptyTyped DEF SortOfGraph
<1>2. /\ graph' = [graph EXCEPT ![g] = G] /\ Changes(g, p, Idle)
      /\ UNCHANGED <<campaign, signal, spoiled, done, lastSection, faults>>
      /\ Editable(g) /\ Request(1)
  BY DEF SurveyDel, ToDelete
<1>3. requests' \in 0 .. MaxRequest /\ lastSection' \in 0 .. MaxSection /\ lastSection <= lastSection'
  BY <1>2, RequestTyped, BoundAssumption DEF IInv, Typed
<1> HIDE DEF G
<1>4. Closed(G) /\ EditsOn(Idle, g, lastSection')
  BY <1>1, IdleTyped DEF Closed, EditsOn, Editing
<1>5. QED
  BY <1>1, <1>2, <1>3, <1>4, IdleTyped, EditableFree, EditKeeps

LEMMA BranchesKeep ==
  ASSUME IInv, NEW p \in Process, NEW g \in Graph, ToEdit(p, g), NEW B \in SUBSET Branch,
         graph' = [graph EXCEPT ![g] = [graph[g] EXCEPT !.branch = B]],
         Changes(g, p, Idle),
         UNCHANGED <<campaign, signal, spoiled, done, lastSection, faults>>,
         \A b \in B : b.section \in SectionsOf(g) /\ b.goto \in SectionsOf(g) \union {Hangup},
         \A b, c \in B : b.section = c.section /\ b.keys = c.keys => b = c
  PROVE  IInv'
<1> DEFINE G == [graph[g] EXCEPT !.branch = B]
<1>1. NoTarget(g) /\ graph[g].sort = "template" /\ Request(1)
  BY EditableFree DEF ToEdit
<1>2. graph[g] \in GraphRow /\ graph[g].section \in SectionMap /\ SectionsOf(g) \subseteq 1 .. lastSection
  BY <1>1, TemplateIs
<1>3. G \in GraphRow /\ G.branch = B /\ G.section = graph[g].section /\ G.sort = "template"
  BY <1>1, <1>2 DEF GraphRow
<1>4. requests' \in 0 .. MaxRequest /\ lastSection' \in 0 .. MaxSection /\ lastSection <= lastSection'
  BY <1>1, RequestTyped, BoundAssumption DEF IInv, Typed
<1> HIDE DEF G
<1>5. Closed(G)
  BY <1>3 DEF Closed, SectionsOf
<1>6. EditsOn(Idle, g, lastSection')
  BY IdleTyped DEF EditsOn, Editing
<1>7. DOMAIN G.section \subseteq 1 .. lastSection'
  BY <1>2, <1>3 DEF SectionsOf
<1>8. graph' = [graph EXCEPT ![g] = G]
  BY DEF G
<1>9. QED
  BY <1>1, <1>3, <1>4, <1>5, <1>6, <1>7, <1>8, IdleTyped, EditKeeps

LEMMA FormBranchTyped ==
  ASSUME IInv, NEW g \in Graph, graph[g].sort = "template", NEW s \in SectionsOf(g),
         NEW b \in FormBranches(g, s)
  PROVE  b \in Branch /\ b.section = s /\ b.goto \in SectionsOf(g) \union {Hangup}
<1>1. SectionsOf(g) \subseteq Section /\ graph[g].section[s].kind \in Kind
  BY TemplateIs, MapTyped DEF SectionsOf
<1>2. FormKeys[graph[g].section[s].kind] \subseteq Keys
  BY <1>1 DEF FormKeys, Kind, Keys
<1>3. PICK k \in Keys, t \in SectionsOf(g) \union {Hangup} :
        b = [section |-> s, keys |-> k, goto |-> t]
  BY <1>2 DEF FormBranches
<1>4. QED
  BY <1>1, <1>3 DEF Branch

LEMMA StepBranch ==
  ASSUME IInv, NEW p \in Process, NEW g \in Graph,
         \/ \E s \in Section : BranchAdd(p, g, s)
         \/ \E old \in graph[g].branch : BranchChange(p, g, old) \/ BranchDelete(p, g, old)
  PROVE  IInv'
<1>1. /\ ToEdit(p, g) /\ Changes(g, p, Idle)
      /\ UNCHANGED <<campaign, signal, spoiled, done, lastSection, faults>>
  BY DEF BranchAdd, BranchChange, BranchDelete
<1>2. graph[g].sort = "template"
  BY <1>1, EditableFree DEF ToEdit
<1>3. graph[g].branch \subseteq Branch /\ Closed(graph[g])
  BY <1>2, TemplateIs
<1>4. CASE \E s \in Section : BranchAdd(p, g, s)
  <2>1. PICK s \in Section : BranchAdd(p, g, s)
    BY <1>4
  <2>2. s \in SectionsOf(g)
    BY <2>1 DEF BranchAdd
  <2>3. PICK b \in FormBranches(g, s) :
          UniqueKeys(g, b) /\ graph' = [graph EXCEPT ![g].branch = @ \union {b}]
    BY <2>1 DEF BranchAdd
  <2>4. b \in Branch /\ b.section \in SectionsOf(g) /\ b.goto \in SectionsOf(g) \union {Hangup}
    BY <1>2, <2>2, FormBranchTyped
  <2> DEFINE B == graph[g].branch \union {b}
  <2>5. B \in SUBSET Branch
    BY <1>3, <2>4
  <2>6. \A c \in B : c.section \in SectionsOf(g) /\ c.goto \in SectionsOf(g) \union {Hangup}
    BY <1>3, <2>4 DEF Closed, SectionsOf
  <2>7. \A c, d \in B : c.section = d.section /\ c.keys = d.keys => c = d
    BY <1>3, <2>3 DEF Closed, UniqueKeys
  <2>8. graph' = [graph EXCEPT ![g] = [graph[g] EXCEPT !.branch = B]]
    BY <2>3
  <2> HIDE DEF B
  <2>9. QED
    BY <1>1, <2>5, <2>6, <2>7, <2>8, BranchesKeep
<1>5. CASE \E old \in graph[g].branch : BranchChange(p, g, old)
  <2>1. PICK old \in graph[g].branch : BranchChange(p, g, old)
    BY <1>5
  <2>2. old.section \in SectionsOf(g)
    BY <1>3 DEF Closed, SectionsOf
  <2>3. PICK b \in FormBranches(g, old.section) :
          /\ b.keys # old.keys => UniqueKeys(g, b)
          /\ graph' = [graph EXCEPT ![g].branch = (@ \ {old}) \union {b}]
    BY <2>1 DEF BranchChange
  <2>4. b \in Branch /\ b.section = old.section /\ b.goto \in SectionsOf(g) \union {Hangup}
    BY <1>2, <2>2, FormBranchTyped
  <2> DEFINE B == (graph[g].branch \ {old}) \union {b}
  <2>5. B \in SUBSET Branch
    BY <1>3, <2>4
  <2>6. \A c \in B : c.section \in SectionsOf(g) /\ c.goto \in SectionsOf(g) \union {Hangup}
    BY <1>3, <2>2, <2>4 DEF Closed, SectionsOf
  <2>7. \A c \in graph[g].branch \ {old} : ~(c.section = b.section /\ c.keys = b.keys)
    <3>1. CASE b.keys = old.keys
      BY <1>3, <2>4, <3>1 DEF Closed
    <3>2. CASE b.keys # old.keys
      BY <2>3, <3>2 DEF UniqueKeys
    <3>3. QED
      BY <3>1, <3>2
  <2>8. \A c, d \in B : c.section = d.section /\ c.keys = d.keys => c = d
    BY <1>3, <2>7 DEF Closed
  <2>9. graph' = [graph EXCEPT ![g] = [graph[g] EXCEPT !.branch = B]]
    BY <2>3
  <2> HIDE DEF B
  <2>10. QED
    BY <1>1, <2>5, <2>6, <2>8, <2>9, BranchesKeep
<1>6. CASE \E old \in graph[g].branch : BranchDelete(p, g, old)
  <2>1. PICK old \in graph[g].branch : BranchDelete(p, g, old)
    BY <1>6
  <2> DEFINE B == graph[g].branch \ {old}
  <2>2. graph' = [graph EXCEPT ![g] = [graph[g] EXCEPT !.branch = B]]
    BY <2>1 DEF BranchDelete
  <2>3. B \in SUBSET Branch
    BY <1>3
  <2>4. /\ \A c \in B : c.section \in SectionsOf(g) /\ c.goto \in SectionsOf(g) \union {Hangup}
        /\ \A c, d \in B : c.section = d.section /\ c.keys = d.keys => c = d
    BY <1>3 DEF Closed, SectionsOf
  <2> HIDE DEF B
  <2>5. QED
    BY <1>1, <2>2, <2>3, <2>4, BranchesKeep
<1>7. QED
  BY <1>4, <1>5, <1>6

\* The sections and branchings of a template are replaced.
LEMMA SectionsKeep ==
  ASSUME IInv, NEW p \in Process, NEW g \in Graph, NEW m \in SectionMap, NEW B \in SUBSET Branch,
         NEW t \in Task,
         NoTarget(g), graph[g].sort \in {"template", "deleted"},
         graph' = [graph EXCEPT ![g] = [graph[g] EXCEPT !.section = m, !.branch = B]],
         \A b \in B : b.section \in DOMAIN m /\ b.goto \in DOMAIN m \union {Hangup},
         \A b, c \in B : b.section = c.section /\ b.keys = c.keys => b = c,
         DOMAIN m \subseteq 1 .. lastSection', EditsOn(t, g, lastSection'), Changes(g, p, t),
         UNCHANGED <<campaign, signal, spoiled, done, faults>>,
         lastSection' = lastSection \/ (lastSection' = lastSection + 1 /\ lastSection < MaxSection),
         requests' = requests \/ Request(1)
  PROVE  IInv'
<1> DEFINE G == [graph[g] EXCEPT !.section = m, !.branch = B]
<1>1. graph[g] \in GraphRow
  BY DEF IInv, Typed
<1>2. G \in GraphRow /\ G.section = m /\ G.branch = B /\ G.sort = graph[g].sort
  BY <1>1 DEF GraphRow
<1>3. requests' \in 0 .. MaxRequest
  BY RequestTyped DEF IInv, Typed
<1>4. lastSection' \in 0 .. MaxSection /\ lastSection <= lastSection'
  BY BoundAssumption DEF IInv, Typed
<1>5. graph' = [graph EXCEPT ![g] = G]
  OBVIOUS
<1> HIDE DEF G
<1>6. Closed(G)
  BY <1>2 DEF Closed
<1>7. QED
  BY <1>2, <1>3, <1>4, <1>5, <1>6, EditKeeps

LEMMA EditTyped ==
  ASSUME NEW g \in Graph, NEW pc \in Editing, NEW s \in Section, NEW todo \in SUBSET Listed,
         NEW n \in Nat, \A r \in todo : r.id \in 1 .. n /\ r.order >= 1
  PROVE  LET t == [Idle EXCEPT !.pc = pc, !.who = "editor", !.src = g, !.section = s,
                               !.todo = todo] IN
         t \in Task /\ EditsOn(t, g, n)
<1> DEFINE t == [Idle EXCEPT !.pc = pc, !.who = "editor", !.src = g, !.section = s,
                             !.todo = todo]
<1>1. /\ t \in Task /\ t.pc = pc /\ t.dst = 1 /\ t.src = g /\ t.list = {} /\ t.todo = todo
  BY IdleTyped DEF Task, Pc, Who, Editing
<1> HIDE DEF t
<1>2. EditsOn(t, g, n)
  BY <1>1 DEF EditsOn
<1>3. QED
  BY <1>1, <1>2 DEF t

LEMMA IdleEdits == \A g, n : EditsOn(Idle, g, n)
BY IdleTyped DEF EditsOn, Editing

LEMMA StepSectionAdd ==
  ASSUME IInv, NEW p \in Process, NEW g \in Graph, NEW kind \in Kind, SectionAdd(p, g, kind)
  PROVE  IInv'
<1> DEFINE s == lastSection + 1
           m == Appended(graph[g].section, s, kind)
           row == [id |-> s, order |-> m[s].order, kind |-> kind]
           u == [Idle EXCEPT !.pc = "add_script", !.who = "editor", !.src = g,
                             !.section = s, !.todo = {row}]
<1>1. NoTarget(g) /\ graph[g].sort = "template" /\ Request(1)
  BY EditableFree DEF SectionAdd, ToEdit
<1>2. /\ graph[g] \in GraphRow /\ graph[g].section \in SectionMap /\ graph[g].branch \subseteq Branch
      /\ SectionsOf(g) \subseteq 1 .. lastSection /\ Closed(graph[g])
  BY <1>1, TemplateIs
<1>3. s \in Section /\ lastSection \in Nat /\ lastSection' = s /\ lastSection < MaxSection /\ s \in Nat
  BY BoundAssumption DEF SectionAdd, IInv, Typed, Section
<1>4. m \in SectionMap /\ DOMAIN m = SectionsOf(g) \union {s} /\ m[s].order \in Nat
  BY <1>2, <1>3, AppendedTyped DEF SectionsOf
<1>5. row \in Listed /\ row.id = s
  BY <1>3, <1>4 DEF Listed
<1>6. /\ UNCHANGED <<campaign, signal, spoiled, done, faults>>
      /\ graph' = [graph EXCEPT ![g] = [graph[g] EXCEPT !.section = m]]
  BY DEF SectionAdd
<1>7. Changes(g, p, u) \/ Changes(g, p, Idle)
  <2>1. [graph[g] EXCEPT !.section = m].section = m
    BY <1>2 DEF GraphRow
  <2>2. QED
    BY <2>1 DEF SectionAdd
<1>8. graph' = [graph EXCEPT ![g] = [graph[g] EXCEPT !.section = m, !.branch = graph[g].branch]]
  <2>1. [graph[g] EXCEPT !.section = m] = [graph[g] EXCEPT !.section = m, !.branch = graph[g].branch]
    BY <1>2 DEF GraphRow
  <2>2. QED
    BY <1>6, <2>1
<1> HIDE DEF m, row
<1>9. u \in Task /\ u.pc = "add_script" /\ u.dst = 1 /\ u.src = g /\ u.list = {} /\ u.todo = {row}
  BY <1>3, <1>5, IdleTyped DEF Task, Pc, Who
<1> HIDE DEF u
<1>10. s \in 1 .. lastSection' /\ SectionsOf(g) \subseteq 1 .. lastSection'
  BY <1>2, <1>3
<1>11. EditsOn(u, g, lastSection')
  BY <1>5, <1>9, <1>10 DEF EditsOn, Editing
<1>12. PICK t \in Task : Changes(g, p, t) /\ EditsOn(t, g, lastSection')
  BY <1>7, <1>9, <1>11, IdleTyped, IdleEdits
<1>13. /\ \A b \in graph[g].branch : b.section \in DOMAIN m /\ b.goto \in DOMAIN m \union {Hangup}
       /\ \A b, c \in graph[g].branch : b.section = c.section /\ b.keys = c.keys => b = c
       /\ DOMAIN m \subseteq 1 .. lastSection'
  BY <1>2, <1>4, <1>10 DEF Closed, SectionsOf
<1>14. graph[g].sort \in {"template", "deleted"} /\ graph[g].branch \in SUBSET Branch
  BY <1>1, <1>2
<1>15. QED
  BY <1>1, <1>3, <1>4, <1>6, <1>8, <1>12, <1>13, <1>14, SectionsKeep

LEMMA StepSectionChange ==
  ASSUME IInv, NEW p \in Process, NEW g \in Graph, NEW s \in Section, NEW kind \in Kind,
         SectionChange(p, g, s, kind)
  PROVE  IInv'
<1> DEFINE m == [graph[g].section EXCEPT ![s].kind = kind]
<1>1. NoTarget(g) /\ graph[g].sort = "template" /\ Request(1) /\ s \in SectionsOf(g)
  BY EditableFree DEF SectionChange, ToEdit
<1>2. /\ graph[g] \in GraphRow /\ graph[g].section \in SectionMap /\ graph[g].branch \subseteq Branch
      /\ SectionsOf(g) \subseteq 1 .. lastSection /\ Closed(graph[g])
  BY <1>1, TemplateIs
<1>3. m \in SectionMap /\ DOMAIN m = SectionsOf(g)
  <2>1. graph[g].section[s] \in SectionRow /\ graph[g].section \in [SectionsOf(g) -> SectionRow]
        /\ SectionsOf(g) \in SUBSET Section
    BY <1>1, <1>2, MapTyped DEF SectionsOf
  <2>2. [graph[g].section[s] EXCEPT !.kind = kind] \in SectionRow
    BY <2>1 DEF SectionRow
  <2>3. m \in [SectionsOf(g) -> SectionRow]
    BY <2>1, <2>2
  <2>4. QED
    BY <2>1, <2>3 DEF SectionMap
<1>4. /\ UNCHANGED <<campaign, signal, spoiled, done, lastSection, faults>>
      /\ graph' = [graph EXCEPT ![g] = [graph[g] EXCEPT !.section = m]]
      /\ Changes(g, p, Idle)
  BY DEF SectionChange
<1>5. graph' = [graph EXCEPT ![g] = [graph[g] EXCEPT !.section = m, !.branch = graph[g].branch]]
  <2>1. [graph[g] EXCEPT !.section = m] = [graph[g] EXCEPT !.section = m, !.branch = graph[g].branch]
    BY <1>2 DEF GraphRow
  <2>2. QED
    BY <1>4, <2>1
<1> HIDE DEF m
<1>6. /\ \A b \in graph[g].branch : b.section \in DOMAIN m /\ b.goto \in DOMAIN m \union {Hangup}
      /\ \A b, c \in graph[g].branch : b.section = c.section /\ b.keys = c.keys => b = c
      /\ DOMAIN m \subseteq 1 .. lastSection'
  BY <1>2, <1>3, <1>4 DEF Closed, SectionsOf
<1>7. graph[g].sort \in {"template", "deleted"} /\ graph[g].branch \in SUBSET Branch
  BY <1>1, <1>2
<1>8. QED
  BY <1>1, <1>3, <1>4, <1>5, <1>6, <1>7, IdleTyped, IdleEdits, SectionsKeep

LEMMA StepAddScript ==
  ASSUME IInv, NEW p \in Process, AddScript(p)
  PROVE  IInv'
<1> DEFINE t == task[p]
           g == t.src
<1>1. /\ t \in Task /\ g \in Graph /\ t.pc = "add_script" /\ Busy(t)
      /\ NoTarget(g) /\ graph[g].sort \in {"template", "deleted"}
  BY TaskFields, EditorFree DEF AddScript, Editing, IInv, Typed
<1>2. UNCHANGED <<campaign, signal, spoiled, done, lastSection, requests, faults>>
  BY DEF AddScript
<1>3. CASE ~IsTemplate(g)
  <2>1. End(p) /\ UNCHANGED graph
    BY <1>3 DEF AddScript
  <2>2. QED
    BY <1>2, <2>1, IdleKeeps DEF IInv, Typed
<1>4. CASE IsTemplate(g)
  <2> DEFINE new(r) == {[section |-> r.id, keys |-> k, goto |-> Hangup] : k \in DefaultKeys[r.kind]}
             m(r) == Put(graph[g].section, r.id, [order |-> r.order, kind |-> r.kind])
             B(r) == graph[g].branch \union {b \in new(r) : UniqueKeys(g, b)}
  <2>1. PICK r \in t.todo :
          graph' = [graph EXCEPT ![g].section = m(r), ![g].branch = B(r)]
          /\ Changes(g, p, Idle)
    BY <1>4 DEF AddScript
  <2>2. r \in Listed /\ r.id \in Section /\ r.order \in Nat /\ r.kind \in Kind
        /\ r.id \in 1 .. lastSection
    BY <1>1, TaskFields DEF Busy
  <2>3. /\ graph[g] \in GraphRow /\ graph[g].section \in SectionMap
        /\ graph[g].branch \subseteq Branch
        /\ SectionsOf(g) \subseteq 1 .. lastSection /\ Closed(graph[g])
    BY <1>1, <1>4, TemplateIs DEF IsTemplate
  <2>4. [order |-> r.order, kind |-> r.kind] \in SectionRow
    BY <2>2 DEF SectionRow
  <2>5. m(r) \in SectionMap /\ DOMAIN m(r) = SectionsOf(g) \union {r.id}
    BY <2>2, <2>3, <2>4, PutTyped DEF SectionsOf
  <2>6. ASSUME NEW b \in new(r)
        PROVE  b \in Branch /\ b.section = r.id /\ b.goto = Hangup
    <3>1. DefaultKeys[r.kind] \subseteq Keys
      BY <2>2 DEF DefaultKeys, Kind, Keys
    <3>2. QED
      BY <2>2, <3>1 DEF Branch
  <2>7. \A b, c \in new(r) : b.keys = c.keys => b = c
    OBVIOUS
  <2>8. graph' = [graph EXCEPT ![g] = [graph[g] EXCEPT !.section = m(r), !.branch = B(r)]]
    BY <1>1, <2>1 DEF IInv, Typed
  <2> HIDE DEF m, new
  <2>9. B(r) \in SUBSET Branch
    BY <2>3, <2>6
  <2>10. \A b \in B(r) : b.section \in DOMAIN m(r) /\ b.goto \in DOMAIN m(r) \union {Hangup}
    BY <2>3, <2>5, <2>6 DEF Closed, SectionsOf
  <2>11. \A b \in B(r) : b \in graph[g].branch \/ (b \in new(r) /\ b.section = r.id /\ UniqueKeys(g, b))
    BY <2>6
  <2>12. \A b, c \in B(r) : b.section = c.section /\ b.keys = c.keys => b = c
    BY <2>3, <2>7, <2>11 DEF Closed, UniqueKeys
  <2> HIDE DEF B
  <2>13. DOMAIN m(r) \subseteq 1 .. lastSection'
    BY <1>2, <2>2, <2>3, <2>5
  <2>14. QED
    BY <1>1, <1>2, <2>1, <2>5, <2>8, <2>9, <2>10, <2>12, <2>13, IdleTyped, IdleEdits, SectionsKeep
<1>5. QED
  BY <1>3, <1>4

\* The rows of a survey, as they are read.
LEMMA RowsTyped ==
  ASSUME NEW G \in GraphRow
  PROVE  /\ RowsOf(G) \subseteq Listed
         /\ \A r \in RowsOf(G) : /\ r.id \in DOMAIN G.section
                                 /\ r.order = G.section[r.id].order /\ r.kind = G.section[r.id].kind
         /\ \A s \in DOMAIN G.section : \E r \in RowsOf(G) : r.id = s
<1>1. G.section \in SectionMap
  BY DEF GraphRow
<1>2. \A s \in DOMAIN G.section :
        s \in Section /\ G.section[s].order \in Nat /\ G.section[s].kind \in Kind
  BY <1>1, MapTyped
<1>3. ASSUME NEW r \in RowsOf(G)
      PROVE  r \in Listed /\ r.id \in DOMAIN G.section
             /\ r.order = G.section[r.id].order /\ r.kind = G.section[r.id].kind
  <2>1. PICK s \in DOMAIN G.section :
          r = [id |-> s, order |-> G.section[s].order, kind |-> G.section[s].kind]
    BY DEF RowsOf
  <2>2. QED
    BY <1>2, <2>1 DEF Listed
<1>4. ASSUME NEW s \in DOMAIN G.section
      PROVE  \E r \in RowsOf(G) : r.id = s
  <2> DEFINE r == [id |-> s, order |-> G.section[s].order, kind |-> G.section[s].kind]
  <2>1. r \in RowsOf(G) /\ r.id = s
    BY DEF RowsOf
  <2>2. QED
    BY <2>1
<1>5. QED
  BY <1>3, <1>4

LEMMA StepSectionDelete ==
  ASSUME IInv, NEW p \in Process, NEW g \in Graph, NEW s \in Section, SectionDelete(p, g, s)
  PROVE  IInv'
<1> DEFINE todo == {r \in Rows(g) : r.order > graph[g].section[s].order}
           t == [Idle EXCEPT !.pc = "reorder", !.who = "editor", !.src = g, !.section = s,
                             !.todo = todo]
<1>1. NoTarget(g) /\ graph[g].sort = "template" /\ Request(1) /\ s \in SectionsOf(g)
  BY EditableFree DEF SectionDelete, ToDelete
<1>2. /\ graph[g] \in GraphRow /\ graph[g].section \in SectionMap
      /\ SectionsOf(g) \subseteq 1 .. lastSection
  BY <1>1, TemplateIs
<1>3. graph[g].section[s].order \in Nat
  BY <1>1, <1>2, MapTyped DEF SectionsOf
<1>4. todo \in SUBSET Listed /\ \A r \in todo : r.id \in 1 .. lastSection
  BY <1>2, RowsAre, RowsTyped DEF SectionsOf
<1>5. \A r \in todo : r.order >= 1
  <2>1. \A r \in todo : r.order \in Nat /\ r.order > graph[g].section[s].order
    BY <1>4 DEF Listed
  <2>2. QED
    BY <1>3, <2>1
<1> HIDE DEF todo
<1>6. t \in Task /\ EditsOn(t, g, lastSection) /\ t.pc = "reorder" /\ t.src = g
  <2>1. lastSection \in Nat /\ "reorder" \in Editing
    BY BoundAssumption DEF IInv, Typed, Editing
  <2>2. t \in Task /\ EditsOn(t, g, lastSection)
    BY <1>4, <1>5, <2>1, EditTyped
  <2>3. QED
    BY <2>2, IdleTyped DEF Task
<1>7. Goto(p, t) /\ UNCHANGED <<graph, campaign, signal, spoiled, done, lastSection, faults>>
  BY DEF SectionDelete, todo
<1> HIDE DEF t
<1>8. /\ task' \in [Process -> Task] /\ task'[p] = t
      /\ \A q \in Process \ {p} : task'[q] = task[q]
  BY <1>6, <1>7, GotoStep DEF IInv, Typed
<1>9. Typed' /\ Known'
  BY <1>1, <1>7, <1>8, RequestTyped DEF IInv, Typed, Known, SectionsOf
<1>10. Others(p, g)
  BY <1>7, <1>8 DEF Others
<1>11. Alone(p)
  BY <1>1, <1>6, <1>8 DEF Alone, NoTarget, Owning, Copying, Loop
<1>12. Sound(g)'
  BY <1>7 DEF IInv, Sound, SectionsOf
<1>13. Busy(task[p])'
  BY <1>1, <1>6, <1>7, <1>8 DEF Busy, EditsOn, Owning, Copying, Loop
<1>14. QED
  BY <1>9, <1>10, <1>11, <1>12, <1>13, StepKeeps

LEMMA StepReorder ==
  ASSUME IInv, NEW p \in Process, Reorder(p)
  PROVE  IInv'
<1> DEFINE t == task[p]
           g == t.src
           u(r) == [t EXCEPT !.todo = @ \ {r}]
           m(r) == Put(graph[g].section, r.id, [order |-> r.order - 1, kind |-> r.kind])
<1>1. /\ t \in Task /\ g \in Graph /\ t.pc = "reorder" /\ Busy(t)
      /\ NoTarget(g) /\ graph[g].sort \in {"template", "deleted"}
  BY TaskFields, EditorFree DEF Reorder, Editing, IInv, Typed
<1>2. UNCHANGED <<campaign, signal, spoiled, done, lastSection, requests, faults>>
  BY DEF Reorder
<1>3. CASE ~IsTemplate(g)
  <2>1. End(p) /\ UNCHANGED graph
    BY <1>3 DEF Reorder
  <2>2. QED
    BY <1>2, <2>1, IdleKeeps DEF IInv, Typed
<1>4. CASE IsTemplate(g)
  <2>1. PICK r \in t.todo :
          graph' = [graph EXCEPT ![g].section = m(r)] /\ Changes(g, p, u(r))
    BY <1>4 DEF Reorder
  <2>2. r \in Listed /\ r.id \in Section /\ r.order \in Nat /\ r.kind \in Kind
        /\ r.id \in 1 .. lastSection /\ r.order >= 1
    BY <1>1, TaskFields DEF Busy
  <2>3. /\ graph[g] \in GraphRow /\ graph[g].section \in SectionMap
        /\ graph[g].branch \subseteq Branch
        /\ SectionsOf(g) \subseteq 1 .. lastSection /\ Closed(graph[g])
    BY <1>1, <1>4, TemplateIs DEF IsTemplate
  <2>4. r.order - 1 \in Nat
    BY <2>2
  <2>5. m(r) \in SectionMap /\ DOMAIN m(r) = SectionsOf(g) \union {r.id}
    <3> DEFINE row == [order |-> r.order - 1, kind |-> r.kind]
    <3>1. row \in SectionRow
      BY <2>2, <2>4 DEF SectionRow
    <3> HIDE DEF row
    <3>2. Put(graph[g].section, r.id, row) \in SectionMap
          /\ DOMAIN Put(graph[g].section, r.id, row) = SectionsOf(g) \union {r.id}
      BY <2>2, <2>3, <3>1, PutTyped DEF SectionsOf
    <3>3. QED
      BY <3>2 DEF row
  <2> HIDE DEF m
  <2>6. graph' = [graph EXCEPT ![g] = [graph[g] EXCEPT !.section = m(r), !.branch = graph[g].branch]]
    <3>1. [graph[g] EXCEPT !.section = m(r)]
            = [graph[g] EXCEPT !.section = m(r), !.branch = graph[g].branch]
      BY <2>3 DEF GraphRow
    <3>2. graph' = [graph EXCEPT ![g] = [graph[g] EXCEPT !.section = m(r)]]
      BY <2>1
    <3>3. QED
      BY <3>1, <3>2
  <2>7. /\ u(r) \in Task /\ u(r).pc = "reorder" /\ u(r).dst = t.dst /\ u(r).src = g
        /\ u(r).list = t.list /\ u(r).todo = t.todo \ {r}
    BY <1>1 DEF Task
  <2> HIDE DEF u
  <2>8. EditsOn(u(r), g, lastSection')
    BY <1>1, <1>2, <2>7 DEF EditsOn, Busy, Editing, Owning, Copying, Loop
  <2>9. /\ \A b \in graph[g].branch : b.section \in DOMAIN m(r) /\ b.goto \in DOMAIN m(r) \union {Hangup}
        /\ \A b, c \in graph[g].branch : b.section = c.section /\ b.keys = c.keys => b = c
        /\ DOMAIN m(r) \subseteq 1 .. lastSection'
    BY <1>2, <2>2, <2>3, <2>5 DEF Closed, SectionsOf
  <2>10. graph[g].branch \in SUBSET Branch
    BY <2>3
  <2>11. QED
    BY <1>1, <1>2, <2>1, <2>5, <2>6, <2>7, <2>8, <2>9, <2>10, SectionsKeep
<1>5. QED
  BY <1>3, <1>4

LEMMA StepReorderEnds ==
  ASSUME IInv, NEW p \in Process, ReorderEnds(p)
  PROVE  IInv'
<1> DEFINE t == task[p]
           g == t.src
           m == Without(graph[g].section, t.section)
           B == {b \in graph[g].branch : b.section # t.section /\ b.goto # t.section}
<1>1. /\ t \in Task /\ g \in Graph /\ t.pc = "reorder"
      /\ NoTarget(g) /\ graph[g].sort \in {"template", "deleted"}
  BY TaskFields, EditorFree DEF ReorderEnds, Editing, IInv, Typed
<1>2. /\ UNCHANGED <<campaign, signal, spoiled, done, lastSection, requests, faults>>
      /\ Changes(g, p, Idle)
      /\ graph' = [graph EXCEPT ![g] = Deleted(@, t.section)]
  BY DEF ReorderEnds
<1>3. /\ graph[g] \in GraphRow /\ Sound(g) /\ SectionsOf(g) \subseteq 1 .. lastSection
  BY <1>1 DEF IInv, Typed
<1>4. graph[g].section \in SectionMap /\ graph[g].branch \subseteq Branch
  BY <1>3 DEF GraphRow
<1>5. m \in SectionMap /\ DOMAIN m = SectionsOf(g) \ {t.section}
  BY <1>4, WithoutTyped DEF SectionsOf
<1>6. graph' = [graph EXCEPT ![g] = [graph[g] EXCEPT !.section = m, !.branch = B]]
  BY <1>1, <1>2 DEF Deleted, IInv, Typed
<1> HIDE DEF m
<1>7. /\ B \in SUBSET Branch
      /\ \A b, c \in B : b.section = c.section /\ b.keys = c.keys => b = c
      /\ DOMAIN m \subseteq 1 .. lastSection'
  BY <1>2, <1>3, <1>4, <1>5 DEF Sound
<1>8. \A b \in B : b.section \in DOMAIN m /\ b.goto \in DOMAIN m \union {Hangup}
  <2>1. graph[g].sort # "file"
    BY <1>1
  <2>2. QED
    BY <1>3, <1>5, <2>1 DEF Sound
<1> HIDE DEF B
<1>9. EditsOn(Idle, g, lastSection') /\ Idle \in Task
  BY IdleTyped, IdleEdits
<1>10. lastSection' = lastSection /\ requests' = requests
  BY <1>2
<1>11. UNCHANGED <<campaign, signal, spoiled, done, faults>>
  BY <1>2
<1>12. m \in SectionMap
  BY <1>5
<1> HIDE DEF g, t
<1>13. QED
  BY <1>1, <1>2, <1>12, <1>6, <1>7, <1>8, <1>9, <1>10, <1>11, SectionsKeep

-----------------------------------------------------------------------------
(***************************************************************************)
(* New surveys, and the loops of a copy.                                   *)
(***************************************************************************)
LEMMA Fresh ==
  ASSUME IInv, NEW g \in Graph, IsNextGraph(g)
  PROVE  /\ graph[g].sort = "none" /\ g \notin done /\ g # 1
         /\ \A q \in Process :
              /\ task[q].pc \in Owning => task[q].dst # g
              /\ task[q].pc \in Copying \union Editing => task[q].src # g
<1>1. graph[g].sort = "none" /\ g \notin done /\ g # 1
  BY DEF IsNextGraph, IInv, Known
<1>2. ASSUME NEW q \in Process
      PROVE  /\ task[q].pc \in Owning => task[q].dst # g
             /\ task[q].pc \in Copying \union Editing => task[q].src # g
  BY <1>1 DEF IInv, Busy, Target
<1>3. QED
  BY <1>1, <1>2

\* A process that makes an empty survey, and goes on with t.
LEMMA NewGraphKeeps ==
  ASSUME IInv, NEW p \in Process, NEW g \in Graph, IsNextGraph(g),
         NEW sort \in {"template", "survey", "file"}, NEW owner \in Campaign \union {0},
         NEW t \in Task, graph' = [graph EXCEPT ![g] = Empty(sort, owner)], Goto(p, t),
         UNCHANGED <<campaign, spoiled, done, lastSection, faults>>, signal' \in BOOLEAN,
         requests' = requests \/ Request(1), Busy(t)', t.pc \notin Editing,
         t.pc \in Owning => t.dst = g
  PROVE  IInv'
<1> DEFINE G == Empty(sort, owner)
<1>1. G \in GraphRow /\ G.sort = sort /\ DOMAIN G.section = {} /\ G.branch = {}
  BY EmptyTyped DEF SortOfGraph
<1>2. graph' = [graph EXCEPT ![g] = G]
  OBVIOUS
<1> HIDE DEF G
<1>3. /\ graph' \in [Graph -> GraphRow] /\ graph'[g] = G
      /\ \A h \in Graph \ {g} : graph'[h] = graph[h]
  BY <1>1, <1>2 DEF IInv, Typed
<1>4. /\ task' \in [Process -> Task] /\ task'[p] = t
      /\ \A q \in Process \ {p} : task'[q] = task[q]
  BY GotoStep DEF IInv, Typed
<1>5. requests' \in 0 .. MaxRequest
  BY RequestTyped DEF IInv, Typed
<1>6. Typed'
  BY <1>1, <1>3, <1>4, <1>5 DEF IInv, Typed, SectionsOf
<1>7. Known'
  BY <1>1, <1>3, IdleTyped DEF IInv, Typed, Known
<1>8. Sound(g)'
  BY <1>1, <1>3 DEF Sound
<1>9. Others(p, g)
  BY <1>1, <1>3, <1>4, Fresh DEF Others, Owning, Copying
<1>10. Alone(p)
  BY <1>4, Fresh DEF Alone
<1>11. Busy(task[p])'
  BY <1>4
<1>12. QED
  BY <1>6, <1>7, <1>8, <1>9, <1>10, <1>11, StepKeeps

LEMMA StepSurveyAdd ==
  ASSUME IInv, NEW p \in Process, NEW g \in Graph, SurveyAdd(p, g)
  PROVE  IInv'
<1>1. /\ IsNextGraph(g) /\ Request(1) /\ task[p] = Idle
      /\ graph' = [graph EXCEPT ![g] = Empty("template", 0)]
      /\ UNCHANGED <<campaign, task, signal, spoiled, done, lastSection, faults>>
  BY DEF SurveyAdd
<1>2. Goto(p, Idle) /\ signal' \in BOOLEAN
  BY <1>1 DEF Goto, IInv, Typed
<1>3. Busy(Idle)'
  BY IdleTyped DEF Busy, Owning, Copying, Loop, Editing
<1>4. Idle.pc \notin Owning \union Editing
  BY IdleTyped DEF Owning, Copying, Loop, Editing
<1>5. QED
  BY <1>1, <1>2, <1>3, <1>4, IdleTyped, NewGraphKeeps

LEMMA StepCopyCreate ==
  ASSUME IInv, NEW p \in Process, CopyCreate(p)
  PROVE  IInv'
<1> DEFINE t == task[p]
           pc == IF t.who \in {"view", "task"} THEN "copy_attach" ELSE "copy_list"
           w(g) == [t EXCEPT !.dst = g, !.pc = pc]
<1>1. /\ t \in Task /\ t.src \in Graph /\ t.id \in Campaign /\ t.pc = "copy_create" /\ Busy(t)
      /\ UNCHANGED <<campaign, done, lastSection, requests, faults>>
  BY TaskFields DEF CopyCreate, IInv, Typed
<1>2. CASE ~Exists(t.src)
  <2>1. End(p) /\ spoiled' = Spoil(t) /\ UNCHANGED <<graph, signal>>
    BY <1>2 DEF CopyCreate
  <2>2. spoiled' \subseteq Campaign
    BY <1>1, <2>1, SpoilTyped DEF IInv
  <2>3. QED
    BY <1>1, <2>1, <2>2, IdleKeeps DEF IInv, Typed
<1>3. CASE Exists(t.src)
  <2>1. PICK g \in Graph :
          /\ IsNextGraph(g)
          /\ graph' = [graph EXCEPT ![g] = Empty(SortOfCopy(t.who), OwnerOfCopy(t))]
          /\ Goto(p, w(g))
    BY <1>3 DEF CopyCreate
  <2>2. signal' \in BOOLEAN /\ UNCHANGED spoiled
    BY <1>3 DEF CopyCreate, IInv, Typed
  <2>3. SortOfCopy(t.who) \in {"template", "survey", "file"}
        /\ OwnerOfCopy(t) \in Campaign \union {0}
    BY <1>1 DEF SortOfCopy, OwnerOfCopy
  <2>4. pc \in {"copy_attach", "copy_list"}
    OBVIOUS
  <2> HIDE DEF pc
  <2>5. PICK u \in Task :
          /\ Goto(p, u) /\ u.pc = pc /\ u.dst = g /\ u.src = t.src /\ u.who = t.who
        /\ u.list = t.list /\ u.todo = t.todo
    <3>1. /\ w(g) \in Task /\ w(g).pc = pc /\ w(g).dst = g /\ w(g).src = t.src /\ w(g).who = t.who
          /\ w(g).list = t.list /\ w(g).todo = t.todo
      BY <1>1, <2>4 DEF Task, Pc
    <3> HIDE DEF w
    <3>2. QED
      BY <2>1, <3>1
  <2>6. /\ graph'[g].sort = SortOfCopy(t.who) /\ graph'[g].branch = {}
        /\ DOMAIN graph'[g].section = {}
    BY <2>1, <2>3, EmptyTyped DEF IInv, Typed, SortOfGraph
  <2>7. graph'[u.src].sort # "none" /\ u.src # g
    <3>1. graph[t.src].sort # "none" /\ graph[g].sort = "none"
      BY <1>3, <2>1 DEF Exists, IsNextGraph
    <3>2. graph'[t.src] = graph[t.src]
      BY <1>1, <2>1, <3>1 DEF IInv, Typed
    <3>3. QED
      BY <2>5, <3>1, <3>2
  <2>8. Target(u)'
    <3>1. g \notin done' /\ g # 1
      BY <1>1, <2>1, Fresh
    <3>2. QED
      BY <2>5, <2>6, <2>7, <3>1 DEF Target, SectionsOf
  <2>9. Busy(u)'
    <3>1. \A r \in u.list \union u.todo : r.id \in 1 .. lastSection'
      BY <1>1, <2>5 DEF Busy
    <3>2. u.who \in Copiers
      BY <1>1, <2>5 DEF Busy
    <3>3. u.pc \in Copying /\ u.pc \in Owning /\ u.pc \notin Loop \union Editing
          /\ u.pc # "reorder"
      BY <2>4, <2>5 DEF Copying, Owning, Loop, Editing
    <3>4. graph'[u.dst].sort # "none"
      BY <2>3, <2>5, <2>6
    <3>5. QED
      BY <2>8, <3>1, <3>2, <3>3, <3>4 DEF Busy
  <2>10. u.pc \notin Editing
    BY <2>4, <2>5 DEF Editing
  <2>11. UNCHANGED <<campaign, spoiled, done, lastSection, faults>> /\ requests' = requests
    BY <1>1, <2>2
  <2>12. QED
    BY <2>1, <2>2, <2>3, <2>5, <2>9, <2>10, <2>11, NewGraphKeeps
<1>4. QED
  BY <1>2, <1>3

\* A copy goes on without writing a survey.
LEMMA CopyGoesOn ==
  ASSUME IInv, NEW p \in Process, NEW u \in Task, task[p].pc \in Copying, Goto(p, u),
         UNCHANGED <<graph, signal, spoiled, done, lastSection, requests, faults>>,
         campaign' \in [Campaign -> CampaignRow],
         u.pc \in Copying, u.dst = task[p].dst, Busy(u)'
  PROVE  IInv'
<1>1. /\ task' \in [Process -> Task] /\ task'[p] = u
      /\ \A q \in Process \ {p} : task'[q] = task[q]
  BY GotoStep DEF IInv, Typed
<1>2. Typed' /\ Known'
  BY <1>1 DEF IInv, Typed, Known, SectionsOf
<1>3. Others(p, 1)
  BY <1>1 DEF Others
<1>4. Alone(p)
  BY <1>1 DEF Alone, IInv, Apart, Owning, Copying, Loop, Editing
<1>5. Sound(1)'
  BY IdleTyped DEF IInv, Sound, SectionsOf
<1>6. Busy(task[p])'
  BY <1>1
<1>7. QED
  BY <1>2, <1>3, <1>4, <1>5, <1>6, IdleTyped, StepKeeps

\* A copy writes its target, and goes on or breaks off.
LEMMA CopyWrites ==
  ASSUME IInv, NEW p \in Process, NEW u \in Task, NEW G \in GraphRow,
         task[p].pc \in Loop, graph' = [graph EXCEPT ![task[p].dst] = G],
         Changes(task[p].dst, p, u),
         UNCHANGED <<campaign, signal, done, lastSection, requests, faults>>,
         spoiled' \subseteq Campaign,
         G.sort = graph[task[p].dst].sort, DOMAIN G.section \subseteq 1 .. lastSection,
         \A b \in G.branch : b.section \in DOMAIN G.section,
         \A b, c \in G.branch : b.section = c.section /\ b.keys = c.keys => b = c,
         G.sort # "file" => \A b \in G.branch : b.goto \in DOMAIN G.section \union {Hangup},
         \/ u.pc \in Loop /\ u.dst = task[p].dst /\ u.src = task[p].src
         \/ u = Idle,
         Busy(u)'
  PROVE  IInv'
<1>0. PICK d \in Graph : d = task[p].dst
  BY TaskFields DEF IInv, Typed
<1>1. graph[d].sort # "none" /\ task[p].src # d
  BY <1>0 DEF IInv, Busy, Target, Owning, Copying
<1>2. u.pc \in Loop => u.src # d
  BY <1>1, IdleTyped DEF Loop
<1>3. /\ task' \in [Process -> Task] /\ task'[p] = u
      /\ \A q \in Process \ {p} :
           \/ task'[q] = [task[q] EXCEPT !.clean = FALSE]
           \/ task'[q] = task[q] /\ ~(task[q].pc \in Loop /\ task[q].src = d)
  BY <1>0, <1>2, ChangesStep DEF IInv, Typed
<1>4. /\ graph' \in [Graph -> GraphRow] /\ graph'[d] = G
      /\ \A h \in Graph \ {d} : graph'[h] = graph[h]
  BY <1>0 DEF IInv, Typed
<1>5. Typed'
  BY <1>3, <1>4 DEF IInv, Typed, SectionsOf
<1>6. Known'
  BY <1>0, <1>1, <1>4 DEF IInv, Typed, Known
<1>7. Sound(d)'
  BY <1>4 DEF Sound, SectionsOf
<1>8. \A q \in Process \ {p} : task[q].pc \in Owning => task[q].dst # d
  BY <1>0 DEF IInv, Apart, Owning, Copying
<1>9. \A q \in Process \ {p} : task[q].pc \in Editing => task[q].src # d
  BY <1>0 DEF IInv, Apart, Copying
<1>10. Others(p, d)
  BY <1>0, <1>3, <1>4, <1>8 DEF Others, Owning
<1>11. Alone(p)
  BY <1>0, <1>3, <1>8, <1>9, IdleTyped DEF Alone, Owning, Copying, Loop, Editing
<1>12. Busy(task[p])'
  BY <1>3
<1>13. QED
  BY <1>5, <1>6, <1>7, <1>10, <1>11, <1>12, StepKeeps

LEMMA StepCopyAttach ==
  ASSUME IInv, NEW p \in Process, CopyAttach(p)
  PROVE  IInv'
<1>1. PICK t \in Task : t = task[p]
  BY DEF IInv, Typed
<1>2. /\ t.pc = "copy_attach" /\ Busy(t) /\ t.id \in Campaign /\ t.dst \in Graph
      /\ campaign' = [campaign EXCEPT ![t.id].content = t.dst]
      /\ Goto(p, [t EXCEPT !.pc = "copy_list"])
      /\ UNCHANGED <<graph, signal, spoiled, done, lastSection, requests, faults>>
  BY <1>1, TaskFields DEF CopyAttach, IInv
<1>3. campaign' \in [Campaign -> CampaignRow]
  <2>1. campaign[t.id] \in CampaignRow
    BY <1>2 DEF IInv, Typed
  <2>2. [campaign[t.id] EXCEPT !.content = t.dst] \in CampaignRow
    BY <1>2, <2>1, CampaignTyped
  <2>3. QED
    BY <1>2, <2>2 DEF IInv, Typed
<1>4. PICK u \in Task :
        /\ Goto(p, u) /\ u.pc = "copy_list" /\ u.who = t.who
        /\ u.src = t.src /\ u.dst = t.dst /\ u.list = t.list /\ u.todo = t.todo
  <2> DEFINE w == [t EXCEPT !.pc = "copy_list"]
  <2>1. w \in Task /\ w.pc = "copy_list" /\ w.who = t.who /\ w.src = t.src
        /\ w.dst = t.dst /\ w.list = t.list /\ w.todo = t.todo
    BY <1>2 DEF Task, Pc
  <2>2. Goto(p, w)
    BY <1>2
  <2> HIDE DEF w
  <2>3. QED
    BY <2>1, <2>2
<1>5. u.pc \in Copying /\ u.pc \notin Loop \union Editing /\ u.pc # "reorder"
      /\ u.pc \in Owning /\ t.pc \in Copying /\ t.pc \in Owning
  BY <1>2, <1>4 DEF Copying, Owning, Loop, Editing
<1>6. Target(u)'
  BY <1>2, <1>4, <1>5 DEF Busy, Target, SectionsOf
<1>7. Busy(u)'
  BY <1>2, <1>4, <1>5, <1>6 DEF Busy
<1>8. QED
  BY <1>1, <1>2, <1>3, <1>4, <1>5, <1>7, CopyGoesOn

LEMMA StepCopyList ==
  ASSUME IInv, NEW p \in Process, CopyList(p)
  PROVE  IInv'
<1>1. PICK t \in Task : t = task[p]
  BY DEF IInv, Typed
<1>2. PICK L : L = RowsOf(graph[t.src])
  OBVIOUS
<1>3. /\ t.pc = "copy_list" /\ Busy(t) /\ t.src \in Graph /\ t.dst \in Graph
      /\ Goto(p, [t EXCEPT !.pc = "copy_section", !.list = L, !.todo = L, !.clean = TRUE])
      /\ UNCHANGED <<graph, campaign, signal, spoiled, done, lastSection, requests, faults>>
  BY <1>1, <1>2, TaskFields, RowsAre DEF CopyList, IInv
<1>4. graph[t.src] \in GraphRow /\ SectionsOf(t.src) \subseteq 1 .. lastSection
  BY <1>3 DEF IInv, Typed
<1>5. L \subseteq Listed /\ \A r \in L : r.id \in 1 .. lastSection
  BY <1>2, <1>4, RowsTyped DEF SectionsOf
<1>6. \A r, q \in L : r.id = q.id => r = q
  BY <1>2 DEF RowsOf
<1>7. PICK u \in Task :
        /\ Goto(p, u) /\ u.pc = "copy_section" /\ u.who = t.who
        /\ u.src = t.src /\ u.dst = t.dst /\ u.list = L /\ u.todo = L /\ u.clean = TRUE
  <2> DEFINE w == [t EXCEPT !.pc = "copy_section", !.list = L, !.todo = L, !.clean = TRUE]
  <2>1. w \in Task /\ w.pc = "copy_section" /\ w.who = t.who /\ w.src = t.src
        /\ w.dst = t.dst /\ w.list = L /\ w.todo = L /\ w.clean = TRUE
    BY <1>5 DEF Task, Pc
  <2>2. Goto(p, w)
    BY <1>3
  <2> HIDE DEF w
  <2>3. QED
    BY <2>1, <2>2
<1>8. u.pc \in Copying /\ u.pc \in Loop /\ u.pc \notin Editing /\ u.pc # "reorder"
      /\ u.pc \in Owning /\ t.pc \in Copying /\ t.pc \in Owning /\ u.pc # "copy_branch"
  BY <1>3, <1>7 DEF Copying, Owning, Loop, Editing
<1>9. Target(t) /\ graph[t.dst].branch = {} /\ DOMAIN graph[t.dst].section = {}
  BY <1>3, <1>8 DEF Busy, Target, SectionsOf
<1>10. Target(u)'
  BY <1>3, <1>7, <1>8, <1>9 DEF Target, SectionsOf
<1>11. InStep(u)'
  BY <1>6, <1>7, <1>8 DEF InStep
<1>12. Faithful(u)'
  BY <1>2, <1>3, <1>7, <1>9 DEF Faithful
<1>13. Busy(u)'
  BY <1>3, <1>5, <1>7, <1>8, <1>10, <1>11, <1>12 DEF Busy
<1>14. campaign' \in [Campaign -> CampaignRow]
  BY <1>3 DEF IInv, Typed
<1>15. QED
  BY <1>1, <1>3, <1>7, <1>8, <1>13, <1>14, CopyGoesOn

LEMMA StepSectionsCopied ==
  ASSUME IInv, NEW p \in Process, SectionsCopied(p)
  PROVE  IInv'
<1>1. PICK t \in Task : t = task[p]
  BY DEF IInv, Typed
<1>2. /\ t.pc = "copy_section" /\ t.todo = {} /\ Busy(t)
      /\ Goto(p, [t EXCEPT !.pc = "copy_branch", !.todo = t.list])
      /\ UNCHANGED <<graph, campaign, signal, spoiled, done, lastSection, requests, faults>>
  BY <1>1 DEF SectionsCopied, IInv
<1>3. PICK u \in Task :
        /\ Goto(p, u) /\ u.pc = "copy_branch" /\ u.who = t.who /\ u.src = t.src
        /\ u.dst = t.dst /\ u.list = t.list /\ u.todo = t.list /\ u.clean = t.clean
  <2> DEFINE w == [t EXCEPT !.pc = "copy_branch", !.todo = t.list]
  <2>1. w \in Task /\ w.pc = "copy_branch" /\ w.who = t.who /\ w.src = t.src
        /\ w.dst = t.dst /\ w.list = t.list /\ w.todo = t.list /\ w.clean = t.clean
    BY <1>2 DEF Task, Pc
  <2>2. Goto(p, w)
    BY <1>2
  <2> HIDE DEF w
  <2>3. QED
    BY <2>1, <2>2
<1>4. u.pc \in Copying /\ u.pc \in Loop /\ u.pc \notin Editing /\ u.pc # "reorder"
      /\ u.pc \in Owning /\ t.pc \in Copying /\ t.pc \in Loop /\ t.pc \in Owning
  BY <1>2, <1>3 DEF Copying, Owning, Loop, Editing
<1>5. Target(t) /\ InStep(t) /\ (t.clean => Faithful(t)) /\ graph[t.dst].branch = {}
  BY <1>2, <1>4 DEF Busy, Target
<1>6. Target(u)'
  BY <1>2, <1>3, <1>5 DEF Target, SectionsOf
<1>7. InStep(u)'
  BY <1>2, <1>3, <1>5 DEF InStep, SectionsOf
<1>8. u.clean => Faithful(u)'
  BY <1>2, <1>3, <1>5 DEF Faithful
<1>9. Busy(u)'
  BY <1>2, <1>3, <1>4, <1>6, <1>7, <1>8 DEF Busy
<1>10. campaign' \in [Campaign -> CampaignRow]
  BY <1>2 DEF IInv, Typed
<1>11. QED
  BY <1>1, <1>2, <1>3, <1>4, <1>9, <1>10, CopyGoesOn

\* The task that has treated r.
LEMMA Treated ==
  ASSUME NEW t \in Task, NEW r
  PROVE  LET u == [t EXCEPT !.todo = @ \ {r}] IN
         /\ u \in Task /\ u.pc = t.pc /\ u.who = t.who /\ u.src = t.src /\ u.dst = t.dst
         /\ u.list = t.list /\ u.todo = t.todo \ {r} /\ u.clean = t.clean
BY DEF Task

LEMMA StepCopySection ==
  ASSUME IInv, NEW p \in Process, CopySection(p)
  PROVE  IInv'
<1>1. PICK t \in Task : t = task[p]
  BY DEF IInv, Typed
<1>2. PICK d \in Graph : d = t.dst
  BY TaskFields
<1> DEFINE m(r) == Appended(graph[d].section, r.id, r.kind)
<1>3. PICK r \in t.todo :
        /\ \A q \in t.todo : r.order <= q.order
        /\ graph' = [graph EXCEPT ![d].section = m(r)]
        /\ Changes(d, p, [t EXCEPT !.todo = @ \ {r}])
  BY <1>1, <1>2 DEF CopySection
<1>4. PICK u \in Task :
        /\ u.pc = t.pc /\ u.who = t.who /\ u.src = t.src /\ u.dst = t.dst
        /\ u.list = t.list /\ u.todo = t.todo \ {r} /\ u.clean = t.clean
        /\ Changes(d, p, u)
  <2> DEFINE w == [t EXCEPT !.todo = @ \ {r}]
  <2>1. /\ w \in Task /\ w.pc = t.pc /\ w.who = t.who /\ w.src = t.src /\ w.dst = t.dst
        /\ w.list = t.list /\ w.todo = t.todo \ {r} /\ w.clean = t.clean
    BY Treated
  <2>2. Changes(d, p, w)
    BY <1>3
  <2> HIDE DEF w
  <2>3. QED
    BY <2>1, <2>2
<1>5. /\ t.pc = "copy_section" /\ Busy(t) /\ Target(t) /\ InStep(t)
      /\ t.clean => Faithful(t)
      /\ UNCHANGED <<campaign, signal, spoiled, done, lastSection, requests, faults>>
  BY <1>1 DEF CopySection, IInv, Busy, Copying, Loop
<1>6. /\ t.list \subseteq Listed /\ t.src \in Graph
      /\ \A q \in t.list : q.order \in Nat /\ q.id \in 1 .. lastSection
      /\ t.todo \subseteq t.list /\ r \in t.list
      /\ r.id \in Section /\ r.kind \in Kind
  BY <1>3, <1>5, TaskFields DEF Busy, InStep
<1>7. /\ graph[d] \in GraphRow /\ graph[d].section \in SectionMap
      /\ SectionsOf(d) \subseteq 1 .. lastSection /\ graph[d].branch = {}
  BY <1>2, <1>5 DEF IInv, Typed, GraphRow, Target
<1> DEFINE old == graph[d].section
           new == m(r)
           G == [graph[d] EXCEPT !.section = new]
<1>8. /\ new \in SectionMap /\ DOMAIN new = DOMAIN old \union {r.id}
      /\ new[r.id].kind = r.kind /\ new[r.id].order \in Nat
      /\ \A s \in DOMAIN old : /\ old[s].order < new[r.id].order
                               /\ s # r.id => new[s] = old[s]
  <2>1. PICK o \in SectionMap, s \in Section, k \in Kind : o = old /\ s = r.id /\ k = r.kind
    BY <1>6, <1>7
  <2>2. new = Appended(o, s, k)
    BY <2>1
  <2> HIDE DEF old, new, m
  <2>3. QED
    BY <2>1, <2>2, AppendedTyped
<1>9. \A s \in DOMAIN old : old[s].order \in Nat
  BY <1>7, MapTyped
<1>10. graph' = [graph EXCEPT ![d] = G]
  BY <1>3
<1> HIDE DEF m, new, old
<1>11. /\ G \in GraphRow /\ G.section = new /\ G.branch = {} /\ G.sort = graph[d].sort
  BY <1>7, <1>8 DEF GraphRow
<1> HIDE DEF G
<1>12. /\ graph'[d] = G /\ graph'[t.src] = graph[t.src] /\ t.src # d
  BY <1>2, <1>5, <1>6, <1>10 DEF IInv, Typed, Target
<1>13. u.pc = "copy_section" /\ u.pc \in Loop /\ u.pc \in Copying /\ u.pc \in Owning
       /\ u.pc \notin Editing
  BY <1>4, <1>5 DEF Copying, Owning, Loop, Editing
<1>14. Target(u)'
  BY <1>2, <1>4, <1>5, <1>11, <1>12, <1>13 DEF Target
<1>15. InStep(u)'
  <2>1. \A q \in t.list : q.id \in DOMAIN new \/ q \in t.todo \ {r}
    BY <1>2, <1>5, <1>8 DEF InStep, SectionsOf, old
  <2>2. QED
    BY <1>2, <1>4, <1>5, <1>11, <1>12, <2>1 DEF InStep, SectionsOf
<1>16. ASSUME t.clean PROVE Faithful(u)'
  <2>1. Faithful(t)
    BY <1>5, <1>16
  <2>2. \A q, v \in t.list : q.id = v.id => q = v
    BY <1>5 DEF InStep
  <2>3. \A q \in t.todo : q.id \notin DOMAIN old
    BY <1>2, <1>5, <1>6, <2>1, <2>2 DEF Faithful, old
  <2>4. \A s \in DOMAIN new : \E q \in t.list : q.id = s /\ q \notin t.todo \ {r}
    BY <1>2, <1>5, <1>6, <1>8, <2>1 DEF Faithful, old
  <2>5. \A q \in t.list : q.id \in DOMAIN new => new[q.id].kind = q.kind
    BY <1>2, <1>6, <1>8, <2>1, <2>2 DEF Faithful, old
  <2>6. \A q \in t.list \ (t.todo \ {r}), v \in t.todo \ {r} : q.order <= v.order
    BY <1>3, <1>5, <2>1 DEF Faithful
  <2>7. ASSUME NEW q \in t.list, NEW v \in t.list,
               q.id \in DOMAIN new, v.id \in DOMAIN new, q.order < v.order
        PROVE  new[q.id].order <= new[v.id].order
    <3>1. q.order \in Nat /\ v.order \in Nat /\ r.order \in Nat
      BY <1>6
    <3>2. CASE v = r
      <4>1. q.id # r.id
        BY <1>6, <2>2, <2>7, <3>1, <3>2
      <4>2. q.id \in DOMAIN old /\ new[q.id] = old[q.id]
        BY <1>8, <2>7, <4>1
      <4>3. old[q.id].order < new[r.id].order /\ old[q.id].order \in Nat
        BY <1>8, <1>9, <4>2
      <4>4. QED
        BY <1>8, <3>2, <4>2, <4>3
    <3>3. CASE v # r
      <4>1. v.id # r.id
        BY <1>6, <2>2, <3>3
      <4>2. v.id \in DOMAIN old /\ new[v.id] = old[v.id]
        BY <1>8, <2>7, <4>1
      <4>3. v \notin t.todo
        BY <2>3, <4>2
      <4>4. v.order <= r.order
        BY <1>5, <2>1, <4>3 DEF Faithful
      <4>5. q.id # r.id
        BY <1>6, <2>2, <2>7, <3>1, <4>4
      <4>6. q.id \in DOMAIN old /\ new[q.id] = old[q.id]
        BY <1>8, <2>7, <4>5
      <4>7. QED
        BY <1>2, <2>1, <2>7, <4>2, <4>6 DEF Faithful, old
    <3>4. QED
      BY <3>2, <3>3
  <2>8. u.list = RowsOf(graph'[u.src])
    BY <1>4, <1>12, <2>1 DEF Faithful
  <2>9. graph'[u.dst].section = new /\ u.list = t.list /\ u.todo = t.todo \ {r}
        /\ u.pc = "copy_section"
    BY <1>2, <1>4, <1>11, <1>12, <1>13
  <2>10. QED
    BY <2>4, <2>5, <2>6, <2>7, <2>8, <2>9 DEF Faithful
<1>17. \A q \in u.list \union u.todo : q.id \in 1 .. lastSection'
  BY <1>4, <1>5, <1>6
<1>18. graph'[u.dst].sort # "none"
  BY <1>2, <1>4, <1>5, <1>11, <1>12 DEF Busy, Owning, Copying, Loop
<1>19. u.who \in Copiers
  BY <1>4, <1>5 DEF Busy, Copying, Loop
<1>20. Busy(u)'
  BY <1>4, <1>13, <1>14, <1>15, <1>16, <1>17, <1>18, <1>19 DEF Busy
<1>21. DOMAIN G.section \subseteq 1 .. lastSection
  BY <1>6, <1>7, <1>8, <1>11 DEF SectionsOf, old
<1>22. t.pc \in Loop /\ spoiled' \subseteq Campaign
  BY <1>4, <1>5, <1>13 DEF IInv, Typed
<1>23. QED
  BY <1>1, <1>2, <1>4, <1>5, <1>10, <1>11, <1>13, <1>20, <1>21, <1>22, CopyWrites

Fits(G, D, C) ==
  /\ G \in GraphRow /\ G.section = D.section
  /\ G.branch = D.branch \union C /\ G.sort = D.sort
  /\ \A b \in G.branch : b.section \in DOMAIN G.section
  /\ \A b, c \in G.branch : b.section = c.section /\ b.keys = c.keys => b = c
  /\ G.sort # "file" => \A b \in G.branch : b.goto \in DOMAIN G.section \union {Hangup}

\* What the second loop adds to the target: branchings of one more section, that lead to
\* a section that was copied.
LEMMA BranchesFit ==
  ASSUME IInv, NEW p \in Process, NEW t \in Task, t = task[p], t.pc = "copy_branch",
         NEW r \in t.todo, NEW C \in SUBSET BranchesOf(t.src, r.id),
         t.who = "export" \/ \A b \in C : b.goto \in Copied(t),
         NEW G, G = [graph[t.dst] EXCEPT !.branch = @ \union C]
  PROVE  Fits(G, graph[t.dst], C)
<1>1. t.src \in Graph /\ t.dst \in Graph /\ Target(t) /\ InStep(t)
  BY TaskFields DEF IInv, Busy, Copying, Loop
<1>2. PICK S \in GraphRow, D \in GraphRow : S = graph[t.src] /\ D = graph[t.dst]
  BY <1>1 DEF IInv, Typed
<1>3. C \subseteq S.branch /\ \A b \in C : b.section = r.id
  BY <1>2 DEF BranchesOf
<1>4. /\ \A b, c \in S.branch : b.section = c.section /\ b.keys = c.keys => b = c
      /\ \A b \in D.branch : b.section \in DOMAIN D.section
      /\ \A b, c \in D.branch : b.section = c.section /\ b.keys = c.keys => b = c
      /\ D.sort # "file" => \A b \in D.branch : b.goto \in DOMAIN D.section \union {Hangup}
  BY <1>1, <1>2 DEF IInv, Sound, SectionsOf
<1>5. /\ r.id \in DOMAIN D.section /\ \A b \in D.branch : b.section # r.id
      /\ \A q \in t.list : q.id \in DOMAIN D.section
  BY <1>1, <1>2 DEF InStep, SectionsOf
<1>6. t.who = "export" => D.sort = "file"
  BY <1>1, <1>2 DEF Target, SortOfCopy
<1>7. D.sort # "file" => \A b \in C : b.goto \in DOMAIN D.section \union {Hangup}
  BY <1>5, <1>6 DEF Copied
<1>8. G = [D EXCEPT !.branch = D.branch \union C]
  BY <1>2
<1>9. /\ G \in GraphRow /\ G.section = D.section /\ G.branch = D.branch \union C
      /\ G.sort = D.sort
  BY <1>2, <1>3, <1>8 DEF GraphRow
<1>10. \A b \in G.branch : b.section \in DOMAIN G.section
  BY <1>3, <1>4, <1>5, <1>9
<1>11. \A b, c \in G.branch : b.section = c.section /\ b.keys = c.keys => b = c
  BY <1>3, <1>4, <1>5, <1>9
<1>12. G.sort # "file" => \A b \in G.branch : b.goto \in DOMAIN G.section \union {Hangup}
  BY <1>4, <1>7, <1>9
<1>13. QED
  BY <1>2, <1>9, <1>10, <1>11, <1>12 DEF Fits

LEMMA StepCopyBranch ==
  ASSUME IInv, NEW p \in Process, CopyBranch(p)
  PROVE  IInv'
<1>1. PICK t \in Task : t = task[p]
  BY DEF IInv, Typed
<1>2. PICK d \in Graph : d = t.dst
  BY TaskFields
<1> DEFINE C(r) == BranchesOf(t.src, r.id)
<1>3. PICK r \in t.todo :
        /\ t.who = "export" \/ \A b \in C(r) : b.goto \in Copied(t)
        /\ graph' = [graph EXCEPT ![d].branch = @ \union C(r)]
        /\ Changes(d, p, [t EXCEPT !.todo = @ \ {r}])
  BY <1>1, <1>2 DEF CopyBranch
<1>4. PICK u \in Task :
        /\ u.pc = t.pc /\ u.who = t.who /\ u.src = t.src /\ u.dst = t.dst
        /\ u.list = t.list /\ u.todo = t.todo \ {r} /\ u.clean = t.clean
        /\ Changes(d, p, u)
  <2> DEFINE w == [t EXCEPT !.todo = @ \ {r}]
  <2>1. /\ w \in Task /\ w.pc = t.pc /\ w.who = t.who /\ w.src = t.src /\ w.dst = t.dst
        /\ w.list = t.list /\ w.todo = t.todo \ {r} /\ w.clean = t.clean
    BY Treated
  <2>2. Changes(d, p, w)
    BY <1>3
  <2> HIDE DEF w
  <2>3. QED
    BY <2>1, <2>2
<1>5. /\ t.pc = "copy_branch" /\ Busy(t) /\ Target(t) /\ InStep(t)
      /\ t.clean => Faithful(t)
      /\ UNCHANGED <<campaign, signal, spoiled, done, lastSection, requests, faults>>
  BY <1>1 DEF CopyBranch, IInv, Busy, Copying, Loop
<1>6. t.src \in Graph /\ t.todo \subseteq t.list /\ r \in t.list
      /\ \A q, v \in t.list : q.id = v.id => q = v
  BY <1>3, <1>5, TaskFields DEF InStep
<1> DEFINE G == [graph[d] EXCEPT !.branch = @ \union C(r)]
<1>7. /\ G \in GraphRow /\ G.section = graph[d].section
      /\ G.branch = graph[d].branch \union C(r) /\ G.sort = graph[d].sort
      /\ \A b \in G.branch : b.section \in DOMAIN G.section
      /\ \A b, c \in G.branch : b.section = c.section /\ b.keys = c.keys => b = c
      /\ G.sort # "file" => \A b \in G.branch : b.goto \in DOMAIN G.section \union {Hangup}
  <2>1. G = [graph[t.dst] EXCEPT !.branch = @ \union C(r)]
    BY <1>2
  <2>2. C(r) \in SUBSET BranchesOf(t.src, r.id)
    OBVIOUS
  <2> HIDE DEF G
  <2>3. Fits(G, graph[t.dst], C(r))
    BY <1>1, <1>3, <1>5, <2>1, <2>2, BranchesFit
  <2>4. QED
    BY <1>2, <2>3 DEF Fits
<1>8. graph' = [graph EXCEPT ![d] = G]
  BY <1>3
<1> HIDE DEF G
<1>9. graph'[d] = G /\ graph'[t.src] = graph[t.src] /\ t.src # d
  BY <1>2, <1>5, <1>6, <1>8 DEF IInv, Typed, Target
<1>10. u.pc = "copy_branch" /\ u.pc \in Loop /\ u.pc \in Copying /\ u.pc \in Owning
       /\ u.pc \notin Editing
  BY <1>4, <1>5 DEF Copying, Owning, Loop, Editing
<1>11. Target(u)'
  BY <1>2, <1>4, <1>5, <1>7, <1>9, <1>10 DEF Target
<1>12. C(r) = {b \in graph[t.src].branch : b.section = r.id}
  BY DEF BranchesOf
<1> HIDE DEF C
<1>13. InStep(u)'
  <2>1. \A q \in t.list : q.id \in DOMAIN G.section
    BY <1>2, <1>5, <1>7 DEF InStep, SectionsOf
  <2>2. \A q \in t.todo \ {r}, b \in G.branch : b.section # q.id
    BY <1>2, <1>5, <1>6, <1>7, <1>12 DEF InStep
  <2>3. graph'[u.dst] = G
    BY <1>2, <1>4, <1>9
  <2>4. QED
    BY <1>4, <1>6, <1>10, <2>1, <2>2, <2>3 DEF InStep, SectionsOf
<1>14. ASSUME t.clean PROVE Faithful(u)'
  <2>1. PICK S \in GraphRow, D \in GraphRow : S = graph[t.src] /\ D = graph[d]
    BY <1>6 DEF IInv, Typed
  <2>2. Faithful(t)
    BY <1>5, <1>14
  <2>3. D.branch = {b \in S.branch : \E q \in t.list \ t.todo : b.section = q.id}
    BY <1>2, <1>5, <2>1, <2>2 DEF Faithful
  <2>4. G.branch = {b \in S.branch : \E q \in t.list \ (t.todo \ {r}) : b.section = q.id}
    BY <1>6, <1>7, <1>12, <2>1, <2>3
  <2>5. graph'[u.dst] = G /\ graph'[u.src] = S
    BY <1>2, <1>4, <1>9, <2>1
  <2>6. t.list = RowsOf(S)
    BY <2>1, <2>2 DEF Faithful
  <2>7. /\ \A s \in DOMAIN G.section : \E q \in t.list : q.id = s
        /\ \A q \in t.list : q.id \in DOMAIN G.section => G.section[q.id].kind = q.kind
        /\ \A v, q \in t.list :
             v.id \in DOMAIN G.section /\ q.id \in DOMAIN G.section /\ v.order < q.order
               => G.section[v.id].order <= G.section[q.id].order
    BY <1>2, <1>5, <1>7, <2>2 DEF Faithful
  <2>8. QED
    BY <1>4, <1>10, <2>4, <2>5, <2>6, <2>7 DEF Faithful
<1>15. \A q \in u.list \union u.todo : q.id \in 1 .. lastSection'
  BY <1>4, <1>5 DEF Busy
<1>16. graph'[u.dst].sort # "none" /\ u.who \in Copiers
  BY <1>2, <1>4, <1>5, <1>7, <1>9 DEF Busy, Owning, Copying, Loop
<1>17. Busy(u)'
  BY <1>4, <1>10, <1>11, <1>13, <1>14, <1>15, <1>16 DEF Busy
<1>18. DOMAIN G.section \subseteq 1 .. lastSection
  BY <1>7 DEF IInv, Typed, SectionsOf
<1>19. t.pc \in Loop /\ spoiled' \subseteq Campaign
  BY <1>4, <1>5, <1>10 DEF IInv, Typed
<1>20. QED
  BY <1>1, <1>2, <1>4, <1>5, <1>7, <1>8, <1>10, <1>17, <1>18, <1>19, CopyWrites

LEMMA StepCopyBreaksOff ==
  ASSUME IInv, NEW p \in Process, CopyBreaksOff(p)
  PROVE  IInv'
<1>1. PICK t \in Task : t = task[p]
  BY DEF IInv, Typed
<1>2. PICK d \in Graph : d = t.dst
  BY TaskFields
<1>3. PICK r \in t.todo : \E C \in SUBSET BranchesOf(t.src, r.id) :
        /\ \A b \in C : b.goto \in Copied(t)
        /\ graph' = [graph EXCEPT ![d].branch = @ \union C]
  BY <1>1, <1>2 DEF CopyBreaksOff
<1>4. PICK C \in SUBSET BranchesOf(t.src, r.id) :
        /\ \A b \in C : b.goto \in Copied(t)
        /\ graph' = [graph EXCEPT ![d].branch = @ \union C]
  BY <1>3
<1>5. /\ t.pc = "copy_branch" /\ Changes(d, p, Idle) /\ spoiled' = Spoil(t)
      /\ UNCHANGED <<campaign, signal, done, lastSection, requests, faults>>
  BY <1>1, <1>2 DEF CopyBreaksOff
<1> DEFINE G == [graph[d] EXCEPT !.branch = @ \union C]
<1>6. /\ G \in GraphRow /\ G.section = graph[d].section
      /\ G.branch = graph[d].branch \union C /\ G.sort = graph[d].sort
      /\ \A b \in G.branch : b.section \in DOMAIN G.section
      /\ \A b, c \in G.branch : b.section = c.section /\ b.keys = c.keys => b = c
      /\ G.sort # "file" => \A b \in G.branch : b.goto \in DOMAIN G.section \union {Hangup}
  <2>1. G = [graph[t.dst] EXCEPT !.branch = @ \union C]
    BY <1>2
  <2>2. C \in SUBSET BranchesOf(t.src, r.id)
    OBVIOUS
  <2> HIDE DEF G
  <2>3. Fits(G, graph[t.dst], C)
    BY <1>1, <1>4, <1>5, <2>1, <2>2, BranchesFit
  <2>4. QED
    BY <1>2, <2>3 DEF Fits
<1>7. graph' = [graph EXCEPT ![d] = G]
  BY <1>4
<1> HIDE DEF G
<1>8. Busy(Idle)'
  BY IdleTyped DEF Busy, Owning, Copying, Loop, Editing
<1>9. DOMAIN G.section \subseteq 1 .. lastSection
  BY <1>6 DEF IInv, Typed, SectionsOf
<1>10. t.pc \in Loop /\ spoiled' \subseteq Campaign
  BY <1>5, SpoilTyped DEF IInv, Loop
<1>11. QED
  BY <1>1, <1>2, <1>5, <1>6, <1>7, <1>8, <1>9, <1>10, IdleTyped, CopyWrites

LEMMA StepCopyEnds ==
  ASSUME IInv, NEW p \in Process, CopyEnds(p)
  PROVE  IInv'
<1>1. PICK t \in Task : t = task[p]
  BY DEF IInv, Typed
<1>2. PICK d \in Graph : d = t.dst
  BY TaskFields
<1>3. /\ t.pc = "copy_branch" /\ Busy(t) /\ t.pc \in Copying /\ t.pc \in Owning
      /\ graph[d].sort # "none"
  BY <1>1, <1>2 DEF CopyEnds, IInv, Busy, Copying, Owning, Loop
<1>4. /\ UNCHANGED <<graph, campaign, lastSection, requests, faults>> /\ signal' \in BOOLEAN
      /\ done' = done \/ done' = done \union {d}
      /\ spoiled' = spoiled \/ spoiled' = Spoil(t)
  BY <1>1, <1>2 DEF CopyEnds
<1>5. spoiled' \subseteq Campaign
  BY <1>4, SpoilTyped DEF IInv, Typed
<1>6. PICK u \in Task :
        /\ Goto(p, u) /\ u.list \subseteq t.list /\ u.todo \subseteq t.todo
        /\ (u.pc = "save_object_id" /\ u.dst = d) \/ u = Idle
  <2> DEFINE w == [t EXCEPT !.pc = "save_object_id"]
  <2>1. w \in Task /\ w.pc = "save_object_id" /\ w.dst = d /\ w.list = t.list /\ w.todo = t.todo
    BY <1>2 DEF Task, Pc
  <2>2. Goto(p, w) \/ Goto(p, Idle)
    BY <1>1 DEF CopyEnds, End
  <2> HIDE DEF w
  <2>3. QED
    BY <2>1, <2>2, IdleTyped
<1>7. u.pc \notin Editing \union Copying /\ (u.pc \in Owning => u.dst = d)
      /\ u.pc \notin {"save_started", "copy_create", "reorder"}
      /\ (u.pc \notin Owning => u.dst = 1)
  BY <1>6, IdleTyped DEF Editing, Copying, Owning, Loop
<1>8. /\ task' \in [Process -> Task] /\ task'[p] = u
      /\ \A q \in Process \ {p} : task'[q] = task[q]
  BY <1>6, GotoStep DEF IInv, Typed
<1>9. Typed'
  BY <1>4, <1>5, <1>8 DEF IInv, Typed, SectionsOf
<1>10. Known'
  BY <1>3, <1>4 DEF IInv, Known
<1>11. \A q \in Process \ {p} : task[q].pc \in Owning => task[q].dst # d
  BY <1>1, <1>2, <1>3 DEF IInv, Apart
<1>12. Others(p, d)
  BY <1>4, <1>8, <1>11 DEF Others, Owning
<1>13. Alone(p)
  BY <1>7, <1>8, <1>11 DEF Alone
<1>14. Sound(d)'
  BY <1>4 DEF IInv, Sound, SectionsOf
<1>15. Busy(task[p])'
  BY <1>3, <1>4, <1>6, <1>7, <1>8 DEF Busy, Copying
<1>16. QED
  BY <1>9, <1>10, <1>12, <1>13, <1>14, <1>15, StepKeeps

-----------------------------------------------------------------------------
(***************************************************************************)
(* The invariant, and the theorems.                                        *)
(***************************************************************************)
LEMMA ExampleTyped ==
  /\ Example \in GraphRow /\ Example.sort = "template" /\ Closed(Example)
  /\ DOMAIN Example.section = 1 .. 2
<1> DEFINE m == [s \in 1 .. 2 |-> [order |-> s, kind |-> IF s = 1 THEN "menu" ELSE "play"]]
           B == {[section |-> 1, keys |-> "timeout", goto |-> 2],
                 [section |-> 1, keys |-> "0", goto |-> Hangup],
                 [section |-> 2, keys |-> "0", goto |-> 1]}
<1>1. 1 .. 2 \in SUBSET Section /\ 1 \in Section /\ 2 \in Section
  BY BoundAssumption DEF Section
<1>2. m \in [1 .. 2 -> SectionRow] /\ DOMAIN m = 1 .. 2
  BY DEF SectionRow, Kind
<1>3. m \in SectionMap
  BY <1>1, <1>2 DEF SectionMap
<1>4. B \subseteq Branch
  BY <1>1 DEF Branch, Keys
<1>5. /\ \A b \in B : b.section \in 1 .. 2 /\ b.goto \in 1 .. 2 \union {Hangup}
      /\ \A b, c \in B : b.section = c.section /\ b.keys = c.keys => b = c
  OBVIOUS
<1> HIDE DEF m, B
<1>6. Example = [sort |-> "template", owner |-> 0, section |-> m, branch |-> B]
  BY DEF Example, m, B
<1>7. QED
  BY <1>2, <1>3, <1>4, <1>5, <1>6 DEF GraphRow, SortOfGraph, Closed

LEMMA ExportedTyped ==
  ASSUME NEW S \in SUBSET (1 .. 2)
  PROVE  /\ Exported(S) \in GraphRow /\ Exported(S).sort = "file"
         /\ DOMAIN Exported(S).section = S
         /\ \A b \in Exported(S).branch : b.section \in S
         /\ \A b, c \in Exported(S).branch : b.section = c.section /\ b.keys = c.keys => b = c
<1>1. PICK E \in GraphRow : E = Example
  BY ExampleTyped
<1> DEFINE m == [s \in S |-> E.section[s]]
           B == {b \in E.branch : b.section \in S}
<1>2. E.section \in SectionMap /\ E.branch \subseteq Branch /\ DOMAIN E.section = 1 .. 2
      /\ Closed(E)
  BY <1>1, ExampleTyped DEF GraphRow
<1>3. m \in [S -> SectionRow] /\ DOMAIN m = S /\ S \in SUBSET Section
  BY <1>2, MapTyped
<1>4. m \in SectionMap
  BY <1>3 DEF SectionMap
<1>5. B \subseteq Branch /\ \A b, c \in B : b.section = c.section /\ b.keys = c.keys => b = c
  BY <1>2 DEF Closed
<1>6. \A b \in B : b.section \in S
  OBVIOUS
<1>7. Exported(S) = [E EXCEPT !.sort = "file", !.section = m, !.branch = B]
  BY <1>1 DEF Exported, GraphRow
<1> HIDE DEF m, B
<1>8. QED
  BY <1>3, <1>4, <1>5, <1>6, <1>7 DEF GraphRow, SortOfGraph

LEMMA InitIInv == Init => IInv
<1> SUFFICES ASSUME Init PROVE IInv
  OBVIOUS
<1>1. PICK begun \in BOOLEAN :
        /\ graph = [g \in Graph |->
             CASE g = 1 -> Example
               [] g = 2 -> Exported(IF begun THEN {1, 2} ELSE {1})
               [] g = 3 /\ begun -> [Example EXCEPT !.sort = "survey", !.owner = Original]
               [] OTHER -> Empty("none", 0)]
        /\ campaign = [c \in Campaign |->
             CASE c = Duplicate -> NoCampaign
               [] begun -> [status |-> "START", started |-> TRUE, content |-> 3,
                            duplicated |-> FALSE]
               [] OTHER -> [status |-> "PAUSE", started |-> FALSE, content |-> 1,
                            duplicated |-> FALSE]]
        /\ done = IF begun THEN {2, 3} ELSE {2}
  BY DEF Init
<1>2. /\ task = [p \in Process |-> Idle] /\ signal = TRUE /\ spoiled = {}
      /\ lastSection = 2 /\ requests = 0 /\ faults = 0
  BY DEF Init
<1>3. 1 \in Graph /\ 2 \in Graph /\ 3 \in Graph /\ lastSection \in 0 .. MaxSection
      /\ requests \in 0 .. MaxRequest /\ faults \in 0 .. MaxFaults
  BY <1>2, BoundAssumption DEF Graph
<1> DEFINE S == IF begun THEN {1, 2} ELSE {1}
           G3 == [Example EXCEPT !.sort = "survey", !.owner = Original]
           Fit(G) == /\ G \in GraphRow /\ DOMAIN G.section \subseteq 1 .. 2
                     /\ \A b \in G.branch : b.section \in DOMAIN G.section
                     /\ \A b, c \in G.branch : b.section = c.section /\ b.keys = c.keys => b = c
                     /\ G.sort # "file" =>
                          \A b \in G.branch : b.goto \in DOMAIN G.section \union {Hangup}
<1>4. Fit(Example)
  BY ExampleTyped DEF Closed
<1>5. Fit(Exported(S)) /\ Exported(S).sort = "file"
  <2>1. S \in SUBSET (1 .. 2)
    OBVIOUS
  <2> HIDE DEF S
  <2>2. QED
    BY <2>1, ExportedTyped
<1>6. Fit(G3) /\ G3.sort = "survey"
  <2>1. PICK E \in GraphRow : E = Example
    BY ExampleTyped
  <2>2. Original \in Campaign \union {0} /\ "survey" \in SortOfGraph
    BY DEF Original, Campaign, SortOfGraph
  <2>3. G3 = [E EXCEPT !.sort = "survey", !.owner = Original]
    BY <2>1
  <2> HIDE DEF G3
  <2>4. /\ G3 \in GraphRow /\ G3.section = E.section /\ G3.branch = E.branch
        /\ G3.sort = "survey"
    BY <2>2, <2>3 DEF GraphRow
  <2>5. QED
    BY <1>4, <2>1, <2>4, ExampleTyped
<1>7. Fit(Empty("none", 0))
  BY EmptyTyped DEF SortOfGraph
<1> HIDE DEF Fit, S, G3
<1>8. /\ \A g \in Graph : Fit(graph[g])
      /\ graph[1].sort = "template" /\ graph[2].sort = "file"
      /\ begun => graph[3].sort = "survey"
  BY <1>1, <1>3, <1>4, <1>5, <1>6, <1>7, ExampleTyped DEF S, G3
<1>9. campaign \in [Campaign -> CampaignRow]
  BY <1>1, <1>3, IdleTyped DEF CampaignRow
<1>10. graph \in [Graph -> GraphRow]
  <2>1. graph = [g \in Graph |-> graph[g]]
    BY <1>1
  <2>2. QED
    BY <1>8, <2>1 DEF Fit
<1>11. Typed
  BY <1>1, <1>2, <1>3, <1>8, <1>9, <1>10, IdleTyped DEF Typed, Fit, SectionsOf
<1>12. \A g \in Graph : Sound(g)
  BY <1>8 DEF Fit, Sound, SectionsOf
<1>13. Known
  BY <1>1, <1>8 DEF Known
<1>14. Apart
  BY <1>2, IdleTyped DEF Apart, Owning, Copying, Loop, Editing
<1>15. \A p \in Process : Busy(task[p])
  BY <1>2, IdleTyped DEF Busy, Owning, Copying, Loop, Editing
<1>16. QED
  BY <1>11, <1>12, <1>13, <1>14, <1>15 DEF IInv

LEMMA StepEdit ==
  ASSUME IInv, NEW p \in Process, NEW g \in Graph, Edit(p, g)
  PROVE  IInv'
<1>1. CASE \E kind \in Kind : SectionAdd(p, g, kind)
  BY <1>1, StepSectionAdd
<1>2. CASE \E s \in Section, kind \in Kind : SectionChange(p, g, s, kind)
  BY <1>2, StepSectionChange
<1>3. CASE \E s \in Section : SectionDelete(p, g, s)
  BY <1>3, StepSectionDelete
<1>4. CASE \/ \E s \in Section : BranchAdd(p, g, s)
           \/ \E b \in graph[g].branch : BranchChange(p, g, b) \/ BranchDelete(p, g, b)
  BY <1>4, StepBranch
<1>5. CASE SurveyAdd(p, g)
  BY <1>5, StepSurveyAdd
<1>6. CASE SurveyDel(p, g)
  BY <1>6, StepSurveyDel
<1>7. QED
  BY <1>1, <1>2, <1>3, <1>4, <1>5, <1>6 DEF Edit

LEMMA StepUserRequest ==
  ASSUME IInv, NEW p \in Process, UserRequest(p)
  PROVE  IInv'
<1>1. CASE \E g \in Graph : Edit(p, g)
  BY <1>1, StepEdit
<1>2. CASE \E g \in Graph : SealSurvey(p, g) \/ ExportSurvey(p, g) \/ ImportSurvey(p, g)
  <2>1. PICK g \in Graph, who \in {"seal", "export", "import"} : StartCopy(p, who, g)
    BY <1>2 DEF SealSurvey, ExportSurvey, ImportSurvey
  <2>2. QED
    BY <2>1, StepStartCopy
<1>3. CASE \E c \in Campaign : OpenForm(p, c)
  <2>1. PICK c \in Campaign : OpenForm(p, c)
    BY <1>3
  <2>2. /\ Goto(p, [Idle EXCEPT !.pc = "form", !.who = "change", !.id = c, !.row = campaign[c]])
        /\ UNCHANGED <<graph, campaign, signal, spoiled, done, lastSection, faults>>
        /\ Request(1)
    BY <2>1 DEF OpenForm
  <2>3. QED
    BY <2>2, StepReadRow
<1>4. CASE \E c \in Campaign, status \in {"PAUSE", "START"} : UpdateStatus(p, c, status)
  BY <1>4, StepUpdateStatus
<1>5. CASE CampaignDuplicate(p)
  BY <1>5, StepCampaignDuplicate
<1>6. QED
  BY <1>1, <1>2, <1>3, <1>4, <1>5 DEF UserRequest

LEMMA StepReads ==
  ASSUME IInv, NEW p \in Process, NEW c \in Campaign,
         PendingCallProcessing(p, c) \/ CollectSubscriber(p, c)
  PROVE  IInv'
<1>1. CASE PendingCallProcessing(p, c)
  <2>1. /\ Goto(p, [Idle EXCEPT !.pc = "save_started", !.who = "task", !.id = c,
                                !.row = campaign[c]])
        /\ UNCHANGED <<graph, campaign, signal, spoiled, done, lastSection, faults>>
        /\ requests' = requests
    BY <1>1 DEF PendingCallProcessing
  <2>2. QED
    BY <2>1, StepReadRow
<1>2. CASE CollectSubscriber(p, c)
  <2>1. /\ Goto(p, [Idle EXCEPT !.pc = "collect_save", !.who = "collect", !.id = c,
                                !.row = campaign[c]])
        /\ UNCHANGED <<graph, campaign, signal, spoiled, done, lastSection, faults>>
        /\ Request(1)
    BY <1>2 DEF CollectSubscriber
  <2>2. QED
    BY <2>1, StepReadRow
<1>3. QED
  BY <1>1, <1>2

LEMMA StepIInv == IInv /\ [Next]_vars => IInv'
<1> SUFFICES ASSUME IInv, [Next]_vars PROVE IInv'
  OBVIOUS
<1>1. CASE Next
  <2>1. PICK p \in Process :
          \/ TaskStep(p) \/ UserRequest(p) \/ Crash(p)
          \/ \E c \in Campaign : PendingCallProcessing(p, c) \/ CollectSubscriber(p, c)
    BY <1>1 DEF Next
  <2>2. CASE CopyStep(p)
    BY <2>2, StepCopyCreate, StepCopyAttach, StepCopyList, StepCopySection,
       StepSectionsCopied, StepCopyBranch, StepCopyBreaksOff, StepCopyEnds DEF CopyStep
  <2>3. CASE AddScript(p) \/ Reorder(p) \/ ReorderEnds(p)
    BY <2>3, StepAddScript, StepReorder, StepReorderEnds
  <2>4. CASE SaveStarted(p) \/ CollectSave(p) \/ CampaignChange(p) \/ SaveObjectId(p)
    BY <2>4, StepSaveStarted, StepLateSave
  <2>5. CASE UserRequest(p)
    BY <2>5, StepUserRequest
  <2>6. CASE Crash(p)
    BY <2>6, StepCrash
  <2>7. CASE \E c \in Campaign : PendingCallProcessing(p, c) \/ CollectSubscriber(p, c)
    BY <2>7, StepReads
  <2>8. QED
    BY <2>1, <2>2, <2>3, <2>4, <2>5, <2>6, <2>7 DEF TaskStep
<1>2. CASE UNCHANGED vars
  BY <1>2 DEF vars, IInv, Typed, Apart, Known, Sound, Busy, Target, InStep, Faithful, SectionsOf
<1>3. QED
  BY <1>1, <1>2

LEMMA Invariance == Spec => []IInv
BY InitIInv, StepIInv, PTL DEF Spec

\* However many users edit, copy, import, start and duplicate, and whatever breaks off,
\* the rows keep their types.
THEOREM SurveyTypeCorrect == Spec => []TypeOK
<1>1. IInv => TypeOK
  <2> SUFFICES ASSUME IInv PROVE TypeOK
    OBVIOUS
  <2>1. ASSUME NEW g \in Graph
        PROVE  /\ DOMAIN graph[g] = {"sort", "owner", "section", "branch"}
               /\ graph[g].sort \in SortOfGraph /\ graph[g].owner \in Campaign \union {0}
               /\ SectionsOf(g) \subseteq 1 .. lastSection
               /\ \A s \in SectionsOf(g) : graph[g].section[s] \in SectionRow
               /\ graph[g].branch \subseteq Branch
    <3>1. PICK G \in GraphRow : G = graph[g]
      BY DEF IInv, Typed
    <3>2. G.section \in SectionMap
      BY DEF GraphRow
    <3>3. \A s \in DOMAIN G.section : G.section[s] \in SectionRow
      BY <3>2, MapTyped
    <3>4. DOMAIN G = {"sort", "owner", "section", "branch"}
          /\ G.sort \in SortOfGraph /\ G.owner \in Campaign \union {0} /\ G.branch \subseteq Branch
      BY DEF GraphRow
    <3>5. SectionsOf(g) \subseteq 1 .. lastSection
      BY DEF IInv, Typed
    <3>6. QED
      BY <3>1, <3>3, <3>4, <3>5 DEF SectionsOf
  <2>2. QED
    BY <2>1 DEF TypeOK, IInv, Typed
<1>2. QED
  BY <1>1, Invariance, PTL

\* No branching leaves its survey, and none is there twice, in a template, in a survey
\* and in a copy that broke off.
THEOREM SurveyClosed == Spec => []BranchesClosed
<1>1. IInv => BranchesClosed
  BY DEF IInv, Sound, BranchesClosed
<1>2. QED
  BY <1>1, Invariance, PTL

\* Only the end of a copy adds to the copies that are done, and it changes no survey.
LEMMA DoneGrows ==
  ASSUME Next
  PROVE  \/ done' = done
         \/ \E q \in Process :
              task[q].pc = "copy_branch" /\ task[q].todo = {} /\ graph' = graph
              /\ done' = done \union {task[q].dst}
<1>1. PICK p \in Process :
        \/ TaskStep(p) \/ UserRequest(p) \/ Crash(p)
        \/ \E c \in Campaign : PendingCallProcessing(p, c) \/ CollectSubscriber(p, c)
  BY DEF Next
<1>2. CASE CopyEnds(p)
  BY <1>2 DEF CopyEnds
<1>3. CASE CopyStep(p) /\ ~CopyEnds(p)
  BY <1>3 DEF CopyStep, CopyCreate, CopyAttach, CopyList, CopySection, SectionsCopied,
     CopyBranch, CopyBreaksOff
<1>4. CASE TaskStep(p) /\ ~CopyStep(p)
  BY <1>4 DEF TaskStep, AddScript, Reorder, ReorderEnds, SaveStarted, CollectSave,
     CampaignChange, SaveObjectId
<1>5. CASE UserRequest(p)
  <2>1. CASE \E g \in Graph : Edit(p, g)
    BY <2>1 DEF Edit, SectionAdd, SectionChange, BranchAdd, BranchChange, BranchDelete,
       SectionDelete, SurveyAdd, SurveyDel
  <2>2. CASE ~\E g \in Graph : Edit(p, g)
    BY <1>5, <2>2 DEF UserRequest, SealSurvey, ExportSurvey, ImportSurvey, StartCopy, OpenForm,
       UpdateStatus, CampaignDuplicate
  <2>3. QED
    BY <2>1, <2>2
<1>6. CASE Crash(p) \/ \E c \in Campaign : PendingCallProcessing(p, c) \/ CollectSubscriber(p, c)
  BY <1>6 DEF Crash, PendingCallProcessing, CollectSubscriber
<1>7. QED
  BY <1>1, <1>2, <1>3, <1>4, <1>5, <1>6

\* A loop that ran to its end without a change of its source made the same survey.
LEMMA WholeCopy ==
  ASSUME IInv, NEW t \in Task, Target(t), InStep(t), Faithful(t),
         t.pc = "copy_branch", t.todo = {}
  PROVE  SameSurvey(graph[t.dst], graph[t.src])
<1>1. PICK S \in GraphRow, D \in GraphRow : S = graph[t.src] /\ D = graph[t.dst]
  BY TaskFields DEF IInv, Typed
<1>2. /\ S.section \in SectionMap /\ D.section \in SectionMap
      /\ \A b \in S.branch : b.section \in DOMAIN S.section
  BY <1>1, TaskFields DEF IInv, Sound, SectionsOf, GraphRow
<1>3. /\ t.list = RowsOf(S)
      /\ \A s \in DOMAIN D.section : \E r \in t.list : r.id = s
      /\ \A r \in t.list : D.section[r.id].kind = r.kind /\ r.id \in DOMAIN D.section
      /\ \A r, q \in t.list :
           r.order < q.order => D.section[r.id].order <= D.section[q.id].order
      /\ D.branch = {b \in S.branch : \E r \in t.list : b.section = r.id}
  BY <1>1 DEF Faithful, InStep, SectionsOf
<1>4. \A r \in t.list : /\ r.id \in DOMAIN S.section
                        /\ r.order = S.section[r.id].order /\ r.kind = S.section[r.id].kind
  BY <1>3, RowsTyped
<1>5. \A s \in DOMAIN S.section : \E r \in t.list : r.id = s
  BY <1>3, RowsTyped
<1>6. DOMAIN D.section = DOMAIN S.section
  <2>1. ASSUME NEW s \in DOMAIN D.section PROVE s \in DOMAIN S.section
    BY <1>3, <1>4
  <2>2. ASSUME NEW s \in DOMAIN S.section PROVE s \in DOMAIN D.section
    BY <1>3, <1>5
  <2>3. QED
    BY <2>1, <2>2
<1>7. D.branch = S.branch
  BY <1>2, <1>3, <1>5
<1>8. \A s \in DOMAIN D.section : D.section[s].kind = S.section[s].kind
  BY <1>3, <1>4
<1>9. ASSUME NEW s \in DOMAIN D.section, NEW v \in DOMAIN D.section,
             D.section[s].order < D.section[v].order
      PROVE  S.section[s].order <= S.section[v].order
  <2>1. PICK r \in t.list, q \in t.list : r.id = s /\ q.id = v
    BY <1>3
  <2>2. /\ D.section[s].order \in Nat /\ D.section[v].order \in Nat
        /\ S.section[s].order \in Nat /\ S.section[v].order \in Nat
    BY <1>2, <1>6, MapTyped
  <2>3. ~(q.order < r.order)
    BY <1>3, <1>9, <2>1, <2>2
  <2>4. QED
    BY <1>4, <2>1, <2>2, <2>3
<1>10. QED
  BY <1>1, <1>6, <1>7, <1>8, <1>9 DEF SameSurvey

\* A copy that ends, its source unchanged since it was listed, is its source.
THEOREM CopyIsFaithful == Spec => CopyFaithful
<1> DEFINE A == \A p \in Process :
                  task[p].dst \in done' \ done /\ task[p].clean
                    => SameSurvey(graph'[task[p].dst], graph[task[p].src])
<1>1. IInv /\ [Next]_vars => [A]_vars
  <2> SUFFICES ASSUME IInv, Next, NEW p \in Process,
                      task[p].dst \in done', task[p].dst \notin done, task[p].clean
               PROVE  SameSurvey(graph'[task[p].dst], graph[task[p].src])
    OBVIOUS
  <2>1. PICK q \in Process :
          task[q].pc = "copy_branch" /\ task[q].todo = {} /\ graph' = graph
          /\ done' = done \union {task[q].dst}
    BY DoneGrows
  <2>2. task[q].pc \in Copying /\ task[q].pc \in Loop /\ task[q].pc \in Owning
    BY <2>1 DEF Copying, Loop, Owning
  <2>3. Target(task[q]) /\ InStep(task[q]) /\ (task[q].clean => Faithful(task[q]))
    BY <2>2 DEF IInv, Busy
  <2>4. task[p].dst = task[q].dst /\ task[p].dst # 1
    BY <2>1, <2>3 DEF Target
  <2>5. task[p].pc \in Owning
    BY <2>4 DEF IInv, Busy
  <2>6. p = q
    BY <2>2, <2>4, <2>5 DEF IInv, Apart
  <2>7. task[q] \in Task
    BY DEF IInv, Typed
  <2>8. SameSurvey(graph[task[q].dst], graph[task[q].src])
    BY <2>1, <2>3, <2>6, <2>7, WholeCopy
  <2>9. QED
    BY <2>1, <2>6, <2>8
<1>2. QED
  BY <1>1, Invariance, PTL DEF Spec, CopyFaithful

\* What was copied to its end, a survey that a campaign plays or a file, is never changed
\* or deleted after, whatever becomes of the template.
CopiesStay ==
  \A g \in done : graph[g].sort \in {"survey", "file"} => graph'[g] = graph[g]

THEOREM CopiesAreFinal == Spec => [][CopiesStay]_vars
<1>1. ASSUME IInv, Next PROVE CopiesStay
  <2> SUFFICES ASSUME NEW g \in done, graph[g].sort \in {"survey", "file"}
               PROVE  graph'[g] = graph[g]
    BY DEF CopiesStay
  <2>1. g \in Graph /\ graph[g].sort # "none" /\ graph \in [Graph -> GraphRow]
    BY <1>1 DEF IInv, Typed
  <2>2. PICK p \in Process :
          \/ TaskStep(p) \/ UserRequest(p) \/ Crash(p)
          \/ \E c \in Campaign : PendingCallProcessing(p, c) \/ CollectSubscriber(p, c)
    BY <1>1 DEF Next
  <2>3. task[p].pc \in Copying => task[p].dst # g
    BY <1>1 DEF IInv, Busy, Target
  <2>4. task[p].pc \in Editing => task[p].src # g
    BY <1>1 DEF IInv, Busy
  <2>5. CASE CopyCreate(p)
    BY <2>1, <2>5 DEF CopyCreate, IsNextGraph
  <2>6. CASE CopyStep(p) /\ ~CopyCreate(p)
    BY <2>1, <2>3, <2>6 DEF CopyStep, CopyAttach, CopyList, CopySection, SectionsCopied, CopyBranch,
       CopyBreaksOff, CopyEnds, Copying, Loop
  <2>7. CASE TaskStep(p) /\ ~CopyStep(p)
    BY <2>1, <2>4, <2>7 DEF TaskStep, AddScript, Reorder, ReorderEnds, SaveStarted, CollectSave,
       CampaignChange, SaveObjectId, Editing
  <2>8. CASE UserRequest(p)
    <3>1. CASE \E h \in Graph : Edit(p, h)
      <4>1. PICK h \in Graph : Edit(p, h)
        BY <3>1
      <4>2. CASE SurveyAdd(p, h)
        BY <2>1, <4>2 DEF SurveyAdd, IsNextGraph
      <4>3. CASE Edit(p, h) /\ ~SurveyAdd(p, h)
        <5>1. IsTemplate(h)
          BY <4>3 DEF Edit, SectionAdd, SectionChange, BranchAdd, BranchChange, BranchDelete,
             SectionDelete, SurveyDel, ToEdit, ToDelete, Editable
        <5>2. h # g
          BY <5>1 DEF IsTemplate
        <5>3. QED
          BY <2>1, <4>3, <5>2 DEF Edit, SectionAdd, SectionChange, BranchAdd, BranchChange,
             BranchDelete, SectionDelete, SurveyDel
      <4>4. QED
        BY <4>1, <4>2, <4>3
    <3>2. CASE ~\E h \in Graph : Edit(p, h)
      BY <2>8, <3>2 DEF UserRequest, SealSurvey, ExportSurvey, ImportSurvey, StartCopy, OpenForm,
         UpdateStatus, CampaignDuplicate
    <3>3. QED
      BY <3>1, <3>2
  <2>9. CASE Crash(p) \/ \E c \in Campaign : PendingCallProcessing(p, c) \/ CollectSubscriber(p, c)
    BY <2>9 DEF Crash, PendingCallProcessing, CollectSubscriber
  <2>10. QED
    BY <2>2, <2>5, <2>6, <2>7, <2>8, <2>9
<1>2. IInv /\ [Next]_vars => [CopiesStay]_vars
  BY <1>1
<1>3. QED
  BY <1>2, Invariance, PTL DEF Spec
=============================================================================
