----------------------- MODULE WorkGroupResultProofs ------------------------
(***************************************************************************)
(* What a work-item hashes is what the statements of the kernel mean, for  *)
(* any number of groups and work-items and under every schedule.           *)
(*                                                                         *)
(* The argument: wherever the work-items of a group are on their way, the  *)
(* buffers of atomics hold what is due to those that have come by          *)
(* (DueInv): a reduction has the operands of the work-items that wait      *)
(* behind it, a counter the number of those that have passed its sections. *)
(* When all of them are behind the statements, nothing is due any more,    *)
(* and what is left is what the ledger at the end of the way says          *)
(* (WorkGroupMeaningProofs).                                               *)
(***************************************************************************)
EXTENDS WorkGroupMeaningProofs

-----------------------------------------------------------------------------
(* The whole way of a group                                                *)

\* path is the way of g to the end of the code, and books are its ledgers.
Course(g, n, path, books) ==
    /\ n \in Nat \ {0} /\ path \in [1 .. n -> States] /\ books \in [1 .. n -> Ledgers]
    /\ Booked(g, n, path, books) /\ path[n].place = Len(code) + 1

\* Two ways of a group are one as far as both go.
LEMMA SamePath ==
    ASSUME NEW g, NEW n \in Nat, NEW path, NEW m \in Nat, NEW other,
           TraceOK(g, n, path), TraceOK(g, m, other), NEW k \in 1 .. n, k <= m
    PROVE  path[k] = other[k]
<1> DEFINE T == {i \in Nat : i + 1 <= n /\ i + 1 <= m => path[i + 1] = other[i + 1]}
<1>1. 0 \in T
  BY DEF TraceOK
<1>2. ASSUME NEW i \in T PROVE i + 1 \in T
  <2>1. i \in Nat /\ i + 1 \in Nat
    OBVIOUS
  <2>2. ASSUME i + 1 + 1 <= n, i + 1 + 1 <= m PROVE path[i + 1 + 1] = other[i + 1 + 1]
    <3>1. i + 1 \in 1 .. n - 1 /\ i + 1 \in 1 .. m - 1 /\ i + 1 <= n /\ i + 1 <= m
      BY <2>1, <2>2
    <3>2. path[i + 1] = other[i + 1]
      BY <3>1
    <3>3. path[i + 1 + 1] = Effect(g, path[i + 1]) /\ other[i + 1 + 1] = Effect(g, other[i + 1])
      BY <3>1 DEF TraceOK
    <3> QED BY <3>2, <3>3
  <2> QED BY <2>1, <2>2
<1> HIDE DEF T
<1>3. T = Nat
  BY <1>1, <1>2, NatSet DEF T
<1>4. k - 1 \in T /\ k - 1 + 1 = k
  BY <1>3
<1>5. k - 1 + 1 <= n /\ k - 1 + 1 <= m
  BY <1>4
<1>6. path[k - 1 + 1] = other[k - 1 + 1]
  BY <1>4, <1>5 DEF T
<1> QED BY <1>4, <1>6

\* So are their ledgers.
LEMMA SameBooks ==
    ASSUME NEW g, NEW n \in Nat, NEW path, NEW books, NEW m \in Nat, NEW other, NEW more,
           Booked(g, n, path, books), Booked(g, m, other, more), NEW k \in 1 .. n, k <= m
    PROVE  books[k] = more[k]
<1> DEFINE T == {i \in Nat : i + 1 <= n /\ i + 1 <= m => books[i + 1] = more[i + 1]}
<1>1. 0 \in T
  BY DEF Booked
<1>2. ASSUME NEW i \in T PROVE i + 1 \in T
  <2>1. i \in Nat /\ i + 1 \in Nat
    OBVIOUS
  <2>2. ASSUME i + 1 + 1 <= n, i + 1 + 1 <= m PROVE books[i + 1 + 1] = more[i + 1 + 1]
    <3>1. i + 1 \in 1 .. n - 1 /\ i + 1 \in 1 .. m - 1 /\ i + 1 \in 1 .. n /\ i + 1 <= n /\ i + 1 <= m
      BY <2>1, <2>2
    <3>2. books[i + 1] = more[i + 1]
      BY <3>1
    <3>4. path[i + 1] = other[i + 1]
      <4>1. TraceOK(g, n, path) /\ TraceOK(g, m, other)
        BY DEF Booked
      <4>2. i + 1 \in 1 .. n /\ i + 1 <= m
        BY <3>1
      <4> QED BY <4>1, <4>2, SamePath
    <3>3. /\ books[i + 1 + 1] = Book(g, path[i + 1], books[i + 1])
          /\ more[i + 1 + 1] = Book(g, other[i + 1], more[i + 1])
      BY <3>1 DEF Booked
    <3> QED BY <3>2, <3>3, <3>4
  <2> QED BY <2>1, <2>2
<1> HIDE DEF T
<1>3. T = Nat
  BY <1>1, <1>2, NatSet DEF T
<1>4. k - 1 \in T /\ k - 1 + 1 = k
  BY <1>3
<1>5. k - 1 + 1 <= n /\ k - 1 + 1 <= m
  BY <1>4
<1>6. books[k - 1 + 1] = more[k - 1 + 1]
  BY <1>4, <1>5 DEF T
<1> QED BY <1>4, <1>6

\* What is known of the places on the way.
LEMMA CourseFacts ==
    ASSUME NEW g, NEW n, NEW path, NEW books, Course(g, n, path, books), Len(code) \in Nat
    PROVE  /\ n \in Nat \ {0} /\ TraceOK(g, n, path) /\ Booked(g, n, path, books)
           /\ \A k \in 1 .. n : /\ path[k] \in States /\ books[k] \in Ledgers
                                /\ path[k].place \in 1 .. Len(code) + 1
           /\ \A k, m \in 1 .. n : path[k].place = path[m].place => k = m
           /\ \A k, m \in 1 .. n : path[k].place < path[m].place => k < m
<1>1. /\ n \in Nat \ {0} /\ TraceOK(g, n, path) /\ Booked(g, n, path, books)
      /\ path \in [1 .. n -> States] /\ books \in [1 .. n -> Ledgers]
  BY DEF Course, Booked
<1>2. ASSUME NEW k \in 1 .. n
      PROVE  path[k] \in States /\ books[k] \in Ledgers /\ path[k].place \in 1 .. Len(code) + 1
  <2>1. path[k] \in States /\ books[k] \in Ledgers
    BY <1>1
  <2>2. path[k].place \in Nat \ {0}
    BY <2>1 DEF States
  <2>3. path[k].place <= Len(code) + 1
    BY <1>1 DEF TraceOK
  <2> QED BY <2>1, <2>2, <2>3
<1>3. \A k, m \in 1 .. n : k < m => path[k].place < path[m].place
  BY <1>1 DEF TraceOK
<1>4. \A k, m \in 1 .. n : k < m \/ k = m \/ m < k
  BY <1>1
<1>5. \A k \in 1 .. n : path[k].place \in Nat
  BY <1>2
<1>6. ASSUME NEW k \in 1 .. n, NEW m \in 1 .. n, path[k].place = path[m].place PROVE k = m
  BY <1>3, <1>4, <1>5, <1>6
<1>7. ASSUME NEW k \in 1 .. n, NEW m \in 1 .. n, path[k].place < path[m].place PROVE k < m
  BY <1>3, <1>4, <1>5, <1>7
<1> QED BY <1>1, <1>2, <1>6, <1>7

\* The way goes on from every place in the code.
LEMMA Onwards ==
    ASSUME NEW g, NEW n, NEW path, NEW books, Course(g, n, path, books), Len(code) \in Nat,
           NEW k \in 1 .. n, path[k].place <= Len(code)
    PROVE  /\ k + 1 \in 1 .. n
           /\ path[k + 1] = Effect(g, path[k]) /\ books[k + 1] = Book(g, path[k], books[k])
           /\ path[k + 1].place = NextPlace(path[k])
<1>1. n \in Nat \ {0} /\ TraceOK(g, n, path) /\ Booked(g, n, path, books)
  BY CourseFacts
<1>2. path[n].place = Len(code) + 1
  BY DEF Course
<1>3. k # n
  BY <1>2
<1>4. k \in 1 .. n - 1 /\ k + 1 \in 1 .. n
  BY <1>1, <1>3
<1>5. path[k + 1] = Effect(g, path[k]) /\ books[k + 1] = Book(g, path[k], books[k])
  BY <1>1, <1>4 DEF TraceOK, Booked
<1> QED BY <1>4, <1>5 DEF Effect

\* The work-items of a group are on its way.
LEMMA OnCourse ==
    ASSUME Running, NEW g \in Groups, NEW n, NEW path, NEW books, Course(g, n, path, books)
    PROVE  \E at \in [Members(g) -> 1 .. n] :
              /\ Way(g, n, path, at)
              /\ \A t \in Members(g) : Home(ip[t]) = path[at[t]].place
<1>8. PICK m \in Nat \ {0} :
         \E other \in [1 .. m -> States] : \E at \in [Members(g) -> 1 .. m] :
            /\ Way(g, m, other, at)
            /\ \A t \in Members(g) : Home(ip[t]) = other[at[t]].place
  BY OnTheWay
<1>1. PICK other \in [1 .. m -> States], at \in [Members(g) -> 1 .. m] :
         /\ Way(g, m, other, at)
         /\ \A t \in Members(g) : Home(ip[t]) = other[at[t]].place
  BY <1>8
<1>2. Len(code) \in Nat
  BY CodeFacts DEF Running
<1>3. /\ n \in Nat \ {0} /\ TraceOK(g, n, path) /\ path[n].place = Len(code) + 1
      /\ TraceOK(g, m, other)
  BY <1>1, <1>2, CourseFacts DEF Course, Way
<1>4. ASSUME NEW t \in Members(g) PROVE at[t] \in 1 .. n /\ other[at[t]] = path[at[t]]
  <2>1. at[t] \in 1 .. m
    OBVIOUS
  <2> DEFINE a == at[t]
  <2> HIDE DEF a
  <2>2. a \in 1 .. m
    BY <2>1 DEF a
  <2>3. a <= n
    <3> SUFFICES ASSUME n < a PROVE FALSE
      BY <1>3, <2>2
    <3>1. n \in 1 .. m /\ n <= m /\ n \in 1 .. n
      BY <1>3, <2>2
    <3>2. path[n] = other[n]
      BY <1>3, <3>1, SamePath
    <3>3. other[n].place < other[a].place /\ other[a].place <= Len(code) + 1
      BY <1>3, <2>2, <3>1 DEF TraceOK
    <3>4. other[a].place \in Nat
      BY <2>2 DEF States
    <3> QED BY <1>2, <1>3, <3>2, <3>3, <3>4
  <2>4. a \in 1 .. n
    BY <1>3, <2>2, <2>3
  <2>5. other[a] = path[a]
    BY <1>3, <2>2, <2>3, <2>4, SamePath
  <2> QED BY <2>4, <2>5 DEF a
<1>5. at \in [Members(g) -> 1 .. n]
  BY <1>4
<1>6. Way(g, n, path, at) /\ \A t \in Members(g) : Home(ip[t]) = path[at[t]].place
  BY <1>1, <1>3, <1>4 DEF Way
<1> QED BY <1>5, <1>6

\* What the group comes to is on the way.
LEMMA VisitsOnCourse ==
    ASSUME Ready, NEW g \in Groups, NEW n, NEW path, NEW books, Course(g, n, path, books),
           NEW s, NEW l, Visits(g, s, l)
    PROVE  \E k \in 1 .. n : path[k] = s /\ books[k] = l
<1>8. PICK m \in Nat \ {0} :
         \E other \in [1 .. m -> States] : \E more \in [1 .. m -> Ledgers] :
            Booked(g, m, other, more) /\ other[m] = s /\ more[m] = l
  BY DEF Visits
<1>1. PICK other \in [1 .. m -> States], more \in [1 .. m -> Ledgers] :
         Booked(g, m, other, more) /\ other[m] = s /\ more[m] = l
  BY <1>8
<1>2. Len(code) \in Nat
  BY CodeFacts
<1>3. /\ n \in Nat \ {0} /\ TraceOK(g, n, path) /\ Booked(g, n, path, books)
      /\ path[n].place = Len(code) + 1 /\ TraceOK(g, m, other)
  BY <1>1, <1>2, CourseFacts DEF Course, Booked
<1>4. m <= n
  <2> SUFFICES ASSUME n < m PROVE FALSE
    BY <1>3
  <2>1. n \in 1 .. m /\ m \in 1 .. m /\ n <= m /\ n \in 1 .. n
    BY <1>3
  <2>2. path[n] = other[n]
    BY <1>3, <2>1, SamePath
  <2>3. other[n].place < other[m].place /\ other[m].place <= Len(code) + 1
    BY <1>3, <2>1 DEF TraceOK
  <2>4. other[m].place \in Nat
    BY <2>1 DEF States
  <2> QED BY <1>2, <1>3, <2>2, <2>3, <2>4
<1>5. m \in 1 .. n /\ m \in 1 .. m /\ m <= m
  BY <1>3, <1>4
<1>6. path[m] = other[m]
  BY <1>3, <1>5, SamePath
<1>7. books[m] = more[m]
  BY <1>1, <1>3, <1>5, SameBooks
<1> QED BY <1>1, <1>5, <1>6, <1>7

\* The way is that of the code.
LEMMA SameCourse ==
    ASSUME code' = code
    PROVE  /\ \A g, n, path, books : Course(g, n, path, books)' = Course(g, n, path, books)
           /\ \A i : Fires(i)' = Fires(i) /\ PassedBy(i)' = PassedBy(i)
           /\ \A g, i, x : OperandsAt(g, i, x)' = OperandsAt(g, i, x)
<1>1. /\ \A i : Fires(i)' = Fires(i) /\ PassedBy(i)' = PassedBy(i)
  BY DEF Fires, PassedBy, Divided
<1>2. \A g, i, x, l : OperandAt(g, i, x, l)' = OperandAt(g, i, x, l)
  BY DEF OperandAt
<1>3. \A g, i, x : OperandsAt(g, i, x)' = OperandsAt(g, i, x)
  BY <1>2 DEF OperandsAt
<1>4. \A g, i : Coming(g, i)' = Coming(g, i)
  BY DEF Coming, TakersAt, Divided
<1>5. \A g, s, l : Book(g, s, l)' = Book(g, s, l)
  BY <1>1, <1>3, <1>4 DEF Book
<1>6. \A g, n, path : TraceOK(g, n, path)' = TraceOK(g, n, path)
  BY SameCode
<1>7. \A g, n, path, books : Booked(g, n, path, books)' = Booked(g, n, path, books)
  <2> TAKE g, n, path, books
  <2>1. TraceOK(g, n, path)' = TraceOK(g, n, path)
    BY <1>6
  <2>2. \A k : Book(g, path[k], books[k])' = Book(g, path[k], books[k])
    BY <1>5
  <2> QED BY <2>1, <2>2 DEF Booked
<1>8. \A g, n, path, books : Course(g, n, path, books)' = Course(g, n, path, books)
  BY <1>7 DEF Course
<1> QED BY <1>1, <1>3, <1>8

-----------------------------------------------------------------------------
(* Steps on the whole way                                                  *)

\* A step that t alone takes: behind its instruction, or to where that leads.
Moved(t) ==
    /\ code' = code /\ phase' = "run"
    /\ ip[t] \in 1 .. Len(code) /\ code[ip[t]].op # "barrier"
    /\ ip'[t] \in ip[t] + 1 .. Len(code) + 1
    /\ \/ ip'[t] = ip[t] + 1
       \/ /\ code[ip[t]].op \in {"branch", "gate", "section"} /\ code[ip[t]].skip \in Nat
          /\ ip'[t] = ip[t] + 1 + code[ip[t]].skip
    /\ \A u \in WorkItems : u # t =>
          ip'[u] = ip[u] /\ reg'[u] = reg[u] /\ v_collective'[u] = v_collective[u]

\* So are the steps of the work-items.
LEMMA ItemMoves ==
    ASSUME Running, NEW t \in WorkItems, RunInside(t)
    PROVE  Moved(t)
<1> DEFINE i == ip[t]
<1>1. PICK op : At(t, op) /\ op # "barrier" /\ op = code[i].op
  BY DEF RunInside, InitBuffers, Evaluate, Store, Branch, Permute, Reduce, Collect, EnterSection,
         LeaveSection, TestGate, TakeInside, GiveInside, ShutGate, Hash, At
<1>2. i \in 1 .. Len(code) /\ code[i] \in Instruction
  BY <1>1, InstructionType DEF Running, Ready
<1>3. Len(code) \in Nat /\ ShapeAt(code, i)
  BY <1>2, CodeFacts DEF Running
<1>4. /\ ip \in [WorkItems -> Nat \ {0}] /\ reg \in [WorkItems -> UInt]
      /\ v_collective \in [WorkItems -> UInt]
  BY DEF Running, Ready, Inv, TypeInv, DataOK
<1>5. code' = code /\ phase' = phase /\ phase = "run"
  BY DEF RunInside, InitBuffers, Evaluate, Store, Branch, Permute, Reduce, Collect, EnterSection,
         LeaveSection, TestGate, TakeInside, GiveInside, ShutGate, Hash, generator, Running
<1>6. PICK n : /\ Goto(t, n)
               /\ \/ n = i + 1
                  \/ code[i].op \in {"branch", "gate", "section"} /\ n = i + 1 + code[i].skip
  <2>1. CASE Branch(t) \/ TestGate(t)
    <3>1. \E b \in BOOLEAN : Goto(t, i + 1 + IF b THEN 0 ELSE code[i].skip)
      BY <2>1 DEF Branch, TestGate
    <3>2. code[i].op \in {"branch", "gate"}
      BY <2>1 DEF Branch, TestGate, At
    <3> QED BY <1>2, <3>1, <3>2
  <2>2. CASE EnterSection(t)
    <3>1. Goto(t, i + 1) \/ Goto(t, i + 1 + code[i].skip)
      BY <2>2 DEF EnterSection, Step
    <3>2. code[i].op = "section"
      BY <2>2 DEF EnterSection, At
    <3> QED BY <3>1, <3>2
  <2>3. CASE ~(Branch(t) \/ TestGate(t) \/ EnterSection(t))
    <3>1. Step(t)
      BY <2>3 DEF RunInside, InitBuffers, Evaluate, Store, Permute, Reduce, Collect,
             LeaveSection, TakeInside, GiveInside, ShutGate, Hash
    <3> QED BY <3>1 DEF Step
  <2> QED BY <2>1, <2>2, <2>3
<1>7. ip'[t] = n /\ \A u \in WorkItems : u # t => ip'[u] = ip[u]
  BY <1>4, <1>6 DEF Goto
<1>8. code[i].op \in {"branch", "gate", "section"} => code[i].skip \in Nat
  BY <1>2, InstructionFields
<1>9. n \in i + 1 .. Len(code) + 1
  <2>1. CASE n = i + 1
    BY <1>2, <1>3, <2>1
  <2>2. CASE code[i].op \in {"branch", "gate", "section"} /\ n = i + 1 + code[i].skip
    <3>1. code[i].skip \in Nat
      BY <1>8, <2>2
    <3>2. i + code[i].skip <= Len(code)
      BY <1>2, <1>3, <2>2, <3>1 DEF ShapeAt
    <3> QED BY <1>2, <1>3, <2>2, <3>1, <3>2
  <2> QED BY <1>6, <2>1, <2>2
<1>10. \A u \in WorkItems : u # t => reg'[u] = reg[u] /\ v_collective'[u] = v_collective[u]
  BY <1>4 DEF RunInside, InitBuffers, Evaluate, Store, Branch, Permute, Reduce, Collect, EnterSection,
         LeaveSection, TestGate, TakeInside, GiveInside, ShutGate, Hash, private
<1> QED BY <1>1, <1>2, <1>5, <1>6, <1>7, <1>8, <1>9, <1>10 DEF Moved

\* Where a step leads: straight on, or to the head of a statement, but never into
\* the statement of a divided branch or to the end of a reduction.
LEMMA Landed ==
    ASSUME Ready, NEW t, Moved(t), ip'[t] <= Len(code)
    PROVE  /\ ip'[t] \in 1 .. Len(code)
           /\ ip'[t] = ip[t] + 1 \/ (HeadAt(code, ip'[t]) /\ ~PassedBy(ip'[t]))
           /\ Fires(ip'[t]) => ip'[t] = ip[t] + 1 /\ code[ip[t]].op = "atomic"
           /\ code[ip'[t]].op \in {"atomic", "branch"} => ip'[t] = ip[t] + 1 /\ code[ip[t]].op = "eval"
<1> DEFINE i == ip[t]
           j == ip'[t]
<1>1. Len(code) \in Nat
  BY CodeFacts
<1>2. i \in 1 .. Len(code) /\ j \in 1 .. Len(code) /\ j \in i + 1 .. Len(code) + 1
  BY <1>1 DEF Moved
<1>3. /\ j = i + 1
      \/ /\ code[i].op \in {"branch", "gate", "section"} /\ code[i].skip \in Nat
         /\ j = i + 1 + code[i].skip
  BY DEF Moved
<1>4. ShapeAt(code, i) /\ LaidAt(code, i) /\ ShapeAt(code, j) /\ LaidAt(code, j)
  BY <1>2, CodeFacts
<1> HIDE DEF i, j
<1>5. ASSUME j # i + 1
      PROVE  HeadAt(code, j) /\ ~PassedBy(j)
  <2> DEFINE skip == code[i].skip
  <2>1. /\ code[i].op \in {"branch", "gate", "section"} /\ skip \in Nat /\ j = i + 1 + skip
        /\ skip # 0
    BY <1>2, <1>3, <1>5
  <2>2. CASE code[i].op = "section"
    <3>1. i + 1 \in 1 .. Len(code) /\ code[i + 1].op = "result" /\ skip = 1
      BY <2>2, HomeAtSection, <1>2
    <3>2. j = i + 1 + 1 /\ j - 1 = i + 1
      BY <1>2, <2>1, <3>1
    <3>3. HeadAt(code, j)
      BY <1>2, <3>1, <3>2, BehindResult
    <3> QED BY <3>1, <3>2, <3>3 DEF PassedBy, Divided
  <2>3. CASE code[i].op \in {"branch", "gate"}
    <3>1. i + skip < Len(code) /\ i + skip + 1 = j /\ j - 1 = i + skip
      BY <1>1, <1>2, <2>1
    <3>2. HeadAt(code, i + skip + 1) /\ code[i + skip].op # "branch"
      BY <1>4, <2>1, <2>3, <3>1 DEF LaidAt
    <3> QED BY <3>1, <3>2 DEF PassedBy, Divided
  <2> QED BY <2>1, <2>2, <2>3
<1>6. ASSUME Fires(j) PROVE j = i + 1 /\ code[i].op = "atomic"
  <2>1. j > 1 /\ code[j - 1].op = "atomic"
    BY <1>6 DEF Fires
  <2>2. j = i + 1
    <3> SUFFICES ASSUME j # i + 1 PROVE FALSE
      OBVIOUS
    <3>1. HeadAt(code, j)
      BY <1>5
    <3> DEFINE k == j - 1
    <3>2. k \in 1 .. Len(code) /\ k + 2 = j + 1 /\ code[k].op = "atomic"
      BY <1>1, <1>2, <2>1
    <3> HIDE DEF k
    <3>3. k + 1 < Len(code) /\ code[k + 2].op = "collect"
      BY <3>2, CodeFacts DEF LaidAt
    <3>4. j < Len(code)
      BY <1>1, <1>2, <3>2, <3>3
    <3> QED BY <3>1, <3>2, <3>3, <3>4 DEF HeadAt
  <2>3. j - 1 = i
    BY <1>2, <2>2
  <2> QED BY <2>1, <2>2, <2>3
<1>7. ASSUME code[j].op \in {"atomic", "branch"} PROVE j = i + 1 /\ code[i].op = "eval"
  <2>1. j = i + 1
    BY <1>5, <1>7 DEF HeadAt, Inner
  <2>2. j - 1 = i
    BY <1>2, <2>1
  <2> QED BY <1>4, <1>7, <2>1, <2>2 DEF LaidAt
<1> QED BY <1>2, <1>5, <1>6, <1>7 DEF i, j

\* A work-item that steps from a place of its whole group is at the next one, or
\* else still at the same.
LEMMA NextHome ==
    ASSUME Running, NEW t \in WorkItems, RunInside(t), NEW s, InStep(t, s)
    PROVE  IF Home(ip[t]) = ip[t] THEN Home(ip'[t]) = NextPlace(s)
           ELSE Home(ip'[t]) = Home(ip[t]) /\ code[ip[t]].op \in {"section", "result"}
<1> DEFINE i == ip[t]
           j == ip'[t]
<1>1. Moved(t) /\ Ready
  BY ItemMoves DEF Running
<1>2. Len(code) \in Nat /\ i \in 1 .. Len(code) /\ code[i].op # "barrier"
  BY <1>1, CodeFacts DEF Moved
<1>3. /\ j = i + 1
      \/ /\ code[i].op \in {"branch", "gate", "section"} /\ code[i].skip \in Nat
         /\ j = i + 1 + code[i].skip
  BY <1>1 DEF Moved
<1>4. Home(i) = s.place
  BY DEF InStep
<1>5. /\ code[i].op = "branch" => j = i + 1 + IF reg[t] # 0 THEN 0 ELSE code[i].skip
      /\ code[i].op = "gate" => j = i + 1 + IF gate[t] = 0 THEN 0 ELSE code[i].skip
  <2>1. ip \in [WorkItems -> Nat \ {0}]
    BY <1>1 DEF Ready, Inv, TypeInv
  <2>2. code[i].op = "branch" => Branch(t)
    BY DEF RunInside, InitBuffers, Evaluate, Store, Permute, Reduce, Collect, EnterSection,
           LeaveSection, TestGate, TakeInside, GiveInside, ShutGate, Hash, At
  <2>3. code[i].op = "gate" => TestGate(t)
    BY DEF RunInside, InitBuffers, Evaluate, Store, Branch, Permute, Reduce, Collect, EnterSection,
           LeaveSection, TakeInside, GiveInside, ShutGate, Hash, At
  <2>4. ASSUME code[i].op = "branch" PROVE j = i + 1 + IF reg[t] # 0 THEN 0 ELSE code[i].skip
    BY <2>1, <2>2, <2>4 DEF Branch, Goto
  <2>5. ASSUME code[i].op = "gate" PROVE j = i + 1 + IF gate[t] = 0 THEN 0 ELSE code[i].skip
    BY <2>1, <2>3, <2>5 DEF TestGate, Goto
  <2> QED BY <2>4, <2>5
<1> HIDE DEF i, j
<1>6. CASE code[i].op \notin {"section", "result", "branch", "gate"}
  <2>1. Home(i) = i /\ Home(i + 1) = i + 1 /\ j = i + 1
    BY <1>1, <1>2, <1>3, <1>6, StraightOn
  <2>2. NextPlace(s) = Home(i + 1 + 0)
    BY <1>4, <1>6, <2>1 DEF NextPlace, Skips
  <2>3. i + 1 + 0 = i + 1
    BY <1>2
  <2> QED BY <2>1, <2>2, <2>3 DEF i, j
<1>7. CASE code[i].op = "gate"
  <2>1. Home(i) = i
    BY <1>1, <1>2, <1>7, StraightOn
  <2>2. Skips(s) <=> s.gate # 0
    BY <1>4, <1>7, <2>1 DEF Skips
  <2>3. gate[t] = s.gate
    BY DEF InStep
  <2>4. Home(j) = NextPlace(s)
    BY <1>4, <1>5, <1>7, <2>1, <2>2, <2>3 DEF NextPlace
  <2> QED BY <2>1, <2>4 DEF i, j
<1>8. CASE code[i].op = "branch"
  <2>1. Home(i) = i
    BY <1>2, <1>8 DEF Home, PassedBy
  <2>2. CASE ~Divided(i)
    <3>1. Skips(s) <=> s.reg = 0
      BY <1>4, <1>8, <2>1, <2>2 DEF Skips
    <3>2. reg[t] = s.reg
      BY <1>2, <1>4, <1>8, <2>1, <2>2 DEF InStep, UsesReg
    <3>3. Home(j) = NextPlace(s)
      BY <1>4, <1>5, <1>8, <2>1, <3>1, <3>2 DEF NextPlace
    <3> QED BY <2>1, <3>3 DEF i, j
  <2>3. CASE Divided(i)
    <3>1. ~Skips(s)
      BY <1>4, <1>8, <2>1, <2>3 DEF Skips
    <3>2. NextPlace(s) = Home(i + 1)
      <4>1. NextPlace(s) = Home(i + 1 + 0) /\ i + 1 + 0 = i + 1
        BY <1>2, <1>4, <2>1, <3>1 DEF NextPlace
      <4> QED BY <4>1
    <3>3. code[i].skip = 0 \/ (code[i].skip = 2 /\ i < Len(code) /\ code[i + 1].op = "section")
      BY <1>1, <1>2, <2>3, CodeFacts DEF LaidAt, Divided
    <3>4. Home(j) = Home(i + 1)
      <4>1. CASE j = i + 1
        BY <4>1
      <4>2. CASE j # i + 1
        <5>1. code[i].skip = 2 /\ i < Len(code) /\ code[i + 1].op = "section" /\ j = i + 3
          BY <1>2, <1>3, <3>3, <4>2
        <5> DEFINE p == i + 1
        <5>2. p \in 1 .. Len(code) /\ p > 1 /\ p - 1 = i /\ code[p].op = "section" /\ j = p + 2
          BY <1>2, <5>1
        <5> HIDE DEF p
        <5>3. PassedBy(p)
          <6>1. code[i].skip # 0
            BY <5>1
          <6> QED BY <2>3, <5>2, <6>1 DEF PassedBy
        <5>4. Home(p) = p + 2 /\ Home(p + 2) = p + 2
          BY <1>1, <1>2, <5>2, <5>3, HomeAtSection DEF Home
        <5>5. Home(j) = Home(p)
          BY <5>2, <5>4
        <5> QED BY <5>5 DEF p
      <4> QED BY <4>1, <4>2
    <3> QED BY <2>1, <3>2, <3>4 DEF i, j
  <2> QED BY <2>2, <2>3
<1>9. CASE code[i].op = "section"
  <2>1. /\ i + 1 \in 1 .. Len(code) /\ code[i].skip = 1
        /\ Home(i + 1) = i + 2 /\ Home(i + 2) = i + 2
    BY <1>1, <1>2, <1>9, HomeAtSection
  <2>2. Home(j) = i + 2
    <3>1. j = i + 1 \/ j = i + 2
      BY <1>2, <1>3, <2>1
    <3> QED BY <2>1, <3>1
  <2>3. CASE Home(i) = i
    <3>1. NextPlace(s) = Home(i + 1 + 0) /\ i + 1 + 0 = i + 1
      BY <1>2, <1>4, <1>9, <2>3 DEF NextPlace, Skips
    <3> QED BY <2>1, <2>2, <2>3, <3>1 DEF i, j
  <2>4. CASE Home(i) # i
    <3>1. Home(i) = i + 2
      BY <1>2, <1>9, <2>4 DEF Home
    <3> QED BY <1>9, <2>2, <2>4, <3>1 DEF i, j
  <2> QED BY <2>3, <2>4
<1>10. CASE code[i].op = "result"
  <2>1. Home(i) = i + 1 /\ Home(i + 1) = i + 1 /\ j = i + 1
    BY <1>1, <1>2, <1>3, <1>10, HomeBehindResult
  <2>2. Home(i) # i
    BY <1>2, <2>1
  <2> QED BY <1>10, <2>1, <2>2 DEF i, j
<1> QED BY <1>6, <1>7, <1>8, <1>9, <1>10

\* A step on the whole way: to its next place, or at the same.
LEMMA Advances ==
    ASSUME Running, NEW t \in WorkItems, RunInside(t),
           NEW n, NEW path, NEW books, Course(Group(t), n, path, books),
           NEW k \in 1 .. n, path[k].place = Home(ip[t]),
           NEW m \in 1 .. n, path[m].place = Home(ip'[t])
    PROVE  IF Home(ip[t]) = ip[t]
             THEN /\ m = k + 1 /\ path[m] = Effect(Group(t), path[k])
                  /\ books[m] = Book(Group(t), path[k], books[k])
             ELSE m = k /\ code[ip[t]].op \in {"section", "result"}
<1> DEFINE g == Group(t)
<1>1. g \in Groups /\ t \in Members(g)
  BY ItemIds DEF Members
<1>2. PICK at \in [Members(g) -> 1 .. n] :
         Way(g, n, path, at) /\ \A u \in Members(g) : Home(ip[u]) = path[at[u]].place
  BY <1>1, OnCourse
<1>3. Len(code) \in Nat /\ Ready /\ ip[t] \in 1 .. Len(code)
  BY CodeFacts, ItemMoves DEF Running, Moved
<1>4. at[t] \in 1 .. n /\ path[at[t]].place = path[k].place /\ InStep(t, path[at[t]])
  BY <1>1, <1>2 DEF Way
<1>5. at[t] = k
  BY <1>3, <1>4, CourseFacts
<1>6. InStep(t, path[k])
  BY <1>4, <1>5
<1>7. CASE Home(ip[t]) = ip[t]
  <2>1. Home(ip'[t]) = NextPlace(path[k])
    BY <1>6, <1>7, NextHome
  <2>2. path[k].place <= Len(code)
    BY <1>3, <1>7
  <2>3. /\ k + 1 \in 1 .. n /\ path[k + 1] = Effect(g, path[k])
        /\ books[k + 1] = Book(g, path[k], books[k]) /\ path[k + 1].place = NextPlace(path[k])
    BY <1>3, <2>2, Onwards
  <2>4. path[m].place = path[k + 1].place
    BY <2>1, <2>3
  <2>5. m = k + 1
    BY <1>3, <2>3, <2>4, CourseFacts
  <2> QED BY <1>7, <2>3, <2>5
<1>8. CASE Home(ip[t]) # ip[t]
  <2>1. Home(ip'[t]) = Home(ip[t]) /\ code[ip[t]].op \in {"section", "result"}
    BY <1>6, <1>8, NextHome
  <2>2. path[m].place = path[k].place
    BY <2>1
  <2>3. m = k
    BY <1>3, <2>2, CourseFacts
  <2> QED BY <1>8, <2>1, <2>3
<1> QED BY <1>7, <1>8

-----------------------------------------------------------------------------
(* What is due to the buffers of atomics                                   *)

\* What t has collected, and what it is about to add or to branch on, where its
\* group is at s with the ledger l.
ItemDue(t, s, l) ==
    /\ v_collective[t] = IF Lid(t) = 0 THEN l.coll ELSE 0
    /\ ip[t] <= Len(code) /\ code[ip[t]].op \in {"atomic", "branch"} =>
         reg[t] = IF code[ip[t] - 1].expr.source = "id"
                    THEN (GlobalId(t) + code[ip[t] - 1].expr.add) % Modulus ELSE s.reg

\* t has added to a reduction in the space sp, and waits for the others.
Waits(t, sp) == ip[t] <= Len(code) /\ Fires(ip[t]) /\ code[ip[t] - 1].space = sp

\* The work-items of g that are at i.
Here(g, i) == {l \in Lids : ip[<<g, l>>] = i}

\* A reduction holds the operands of those who wait, or else what the ledger says.
RedDue(g, sp, n, path, books) ==
    \A t \in Members(g) : \A k \in 1 .. n : path[k].place = Home(ip[t]) =>
       /\ Waits(t, sp) =>
            reduction[sp][g] = Combined(code[ip[t] - 1].fn, books[k].red[sp],
                                        OperandsAt(g, ip[t], path[k].reg), Here(g, ip[t]))
       /\ (\A u \in Members(g) : ~Waits(u, sp)) => reduction[sp][g] = books[k].red[sp]

\* Those that have come by the sections with the counter c.
Passed(g, come, c) == {p \in come : code[p[2]].counter = c /\ ip[<<g, p[1]>>] > p[2]}

\* The counter of a section has counted them.
CountDue(g, come) ==
    \A i \in 1 .. Len(code) : code[i].op = "section" /\ Initialised(g, code[i].space) =>
       counter[code[i].space][g][code[i].counter] = Cardinality(Passed(g, come, code[i].counter))

\* Who is at a section is among those that come to it.
ComeDue(g, come) ==
    \A t \in Members(g) :
       ip[t] <= Len(code) /\ code[ip[t]].op = "section" => <<Lid(t), ip[t]>> \in come

\* All that is due to the group g.
Due(g, n, path, books) ==
    /\ \A t \in Members(g) : \A k \in 1 .. n :
          path[k].place = Home(ip[t]) => ItemDue(t, path[k], books[k])
    /\ \A sp \in Spaces : Initialised(g, sp) => RedDue(g, sp, n, path, books)
    /\ CountDue(g, books[n].come)
    /\ ComeDue(g, books[n].come)

\* Nothing is collected before the launch; then every group has its due.
DueInv ==
    /\ phase = "generate" => /\ \A t \in WorkItems : v_collective[t] = 0
                             /\ \A g \in Groups : reduction["global"][g] = 0
    /\ phase = "run" => \A g \in Groups : \A n, path, books :
                           Course(g, n, path, books) => Due(g, n, path, books)

\* Before the first step.
LEMMA InitDue == Init => DueInv
BY DEF Init, DueInv, Spaces

\* A group that has not begun has its due.
LEMMA LaunchDue ==
    ASSUME Whole, DueInv, Launch
    PROVE  DueInv'
<1>1. /\ phase = "generate" /\ phase' = "run" /\ code' = code \o Epilogue
      /\ UNCHANGED <<ip, private, atomics>>
  BY DEF Launch
<1>2. /\ \A t \in WorkItems : ip[t] = 1
      /\ \A g \in Groups, c \in Counters : counter["global"][g][c] = 0
  BY <1>1 DEF Whole, Inv, GenerateInv
<1>3. code \in Seq(Instruction) /\ Len(code) \in Nat /\ Len(code) >= 2 /\ code[1].op = "init"
      /\ CodeInv
  <2>1. Ready
    BY DEF Whole, Ready
  <2> QED BY <2>1, CodeFacts DEF Ready, Inv
<1>4. Epilogue \in Seq(Instruction) /\ Len(Epilogue) \in Nat
  <2>1. Epilogue \in Seq(Instruction)
    BY DEF Epilogue, Instruction, Barrier
  <2> QED BY <2>1, LenProperties
<1>5. code'[1] = code[1] /\ Len(code') \in Nat /\ Len(code') >= 2
  BY <1>1, <1>3, <1>4, ConcatProperties
<1>6. Home(1)' = 1
  BY <1>3, <1>5 DEF Home, PassedBy
<1>7. ASSUME NEW g \in Groups, NEW n, NEW path, NEW books, Course(g, n, path, books)'
      PROVE  Due(g, n, path, books)'
  <2>1. /\ n \in Nat \ {0} /\ path \in [1 .. n -> States] /\ books \in [1 .. n -> Ledgers]
        /\ path[1] = Start /\ books[1] = Blank
        /\ \A k, m \in 1 .. n : k < m => path[k].place < path[m].place
    BY <1>7 DEF Course, Booked, TraceOK
  <2>2. ASSUME NEW k \in 1 .. n, path[k].place = 1 PROVE k = 1
    <3>1. 1 \in 1 .. n /\ path[1].place = 1
      BY <2>1 DEF Start
    <3>2. 1 < k => 1 < path[k].place
      BY <2>1, <3>1
    <3> QED BY <2>1, <2>2, <3>2
  <2>3. ASSUME NEW t \in Members(g)
        PROVE  /\ t \in WorkItems /\ ip'[t] = 1 /\ v_collective'[t] = 0
    BY <1>1, <1>2 DEF Members, private, DueInv
  <2>4. ASSUME NEW t \in Members(g), NEW k \in 1 .. n, path[k].place = Home(ip[t])'
        PROVE  ItemDue(t, path[k], books[k])'
    <3>1. k = 1
      BY <1>6, <2>2, <2>3, <2>4
    <3>2. books[k].coll = 0
      BY <2>1, <3>1 DEF Blank
    <3>3. code'[ip'[t]].op = "init"
      BY <1>3, <1>5, <2>3
    <3> QED BY <2>3, <3>2, <3>3 DEF ItemDue
  <2>5. ASSUME NEW sp \in Spaces, Initialised(g, sp)' PROVE RedDue(g, sp, n, path, books)'
    <3>1. <<g, 0>> \in Members(g) /\ <<g, 0>> \in WorkItems
      BY SizesAssumption DEF Members, WorkItems, Lids, Group
    <3>2. sp = "global"
      BY <2>3, <2>5, <3>1 DEF Initialised
    <3>3. reduction'[sp][g] = 0
      BY <1>1, <3>2 DEF DueInv, atomics
    <3>4. ASSUME NEW t \in Members(g), NEW k \in 1 .. n, path[k].place = Home(ip[t])'
          PROVE  ~Waits(t, sp)' /\ reduction'[sp][g] = books[k].red[sp]
      <4>1. k = 1
        BY <1>6, <2>2, <2>3, <3>4
      <4>2. books[k].red[sp] = 0
        BY <2>1, <4>1 DEF Blank
      <4> QED BY <2>3, <3>3, <4>2 DEF Waits, Fires
    <3> QED BY <3>4 DEF RedDue
  <2>6. CountDue(g, books[n].come)'
    <3>1. ASSUME NEW i \in 1 .. Len(code'), code'[i].op = "section",
                 Initialised(g, code[i].space)'
          PROVE  counter'[code'[i].space][g][code'[i].counter]
                    = Cardinality(Passed(g, books[n].come, code[i].counter)')
      <4>1. <<g, 0>> \in Members(g)
        BY SizesAssumption DEF Members, WorkItems, Lids, Group
      <4>2. code'[i].space = "global"
        BY <2>3, <3>1, <4>1 DEF Initialised
      <4>3. code'[i].counter \in Counters
        <5>1. CodeInv'
          BY <1>3, LaunchCode
        <5> QED BY <3>1, <5>1 DEF CodeInv, Sound, SectionsIn
      <4>4. counter'[code'[i].space][g][code'[i].counter] = 0
        BY <1>1, <1>2, <4>2, <4>3 DEF atomics
      <4>5. Passed(g, books[n].come, code[i].counter)' = {}
        <5>1. books[n].come \subseteq Lids \X (Nat \ {0})
          BY <2>1 DEF Ledgers
        <5>2. ASSUME NEW p \in books[n].come PROVE ~(ip'[<<g, p[1]>>] > p[2])
          <6>1. p[1] \in Lids /\ p[2] \in Nat \ {0}
            BY <5>1
          <6>2. <<g, p[1]>> \in Members(g)
            BY <6>1 DEF Members, WorkItems, Group
          <6> QED BY <2>3, <6>1, <6>2
        <5> QED BY <5>2 DEF Passed
      <4> QED BY <4>4, <4>5, FS_EmptySet
    <3> QED BY <3>1 DEF CountDue
  <2>7. ComeDue(g, books[n].come)'
    BY <1>3, <1>5, <2>3 DEF ComeDue
  <2> QED BY <2>4, <2>5, <2>6, <2>7 DEF Due
<1> QED BY <1>1, <1>7 DEF DueInv

-----------------------------------------------------------------------------
(* Who comes to the sections                                               *)

\* All of the group come to a section at its place, and those who take a divided
\* branch to the section behind it.
LEMMA ComesTo ==
    ASSUME Ready, NEW g, NEW n, NEW path, NEW books, Course(g, n, path, books),
           NEW k \in 1 .. n, path[k].place <= Len(code)
    PROVE  Coming(g, path[k].place) \subseteq books[n].come
<1>1. Len(code) \in Nat
  BY CodeFacts
<1>2. n \in Nat \ {0} /\ Booked(g, n, path, books)
  BY <1>1, CourseFacts
<1>3. k + 1 \in 1 .. n /\ books[k + 1] = Book(g, path[k], books[k])
  BY <1>1, Onwards
<1>4. Coming(g, path[k].place) \subseteq books[k + 1].come
  BY <1>3 DEF Book
<1>5. books[k + 1].come \subseteq books[n].come
  <2>1. n \in 1 .. n /\ (k + 1 = n \/ k + 1 < n)
    BY <1>2, <1>3
  <2> QED BY <1>2, <1>3, <2>1 DEF Booked
<1> QED BY <1>4, <1>5

\* Nobody else comes to a section between two places.
LEMMA ComesFrom ==
    ASSUME Ready, NEW g, NEW n, NEW path, NEW books, Course(g, n, path, books),
           NEW k \in 1 .. n, path[k].place <= Len(code), NEW p \in books[n].come,
           p[2] >= path[k].place, p[2] < NextPlace(path[k])
    PROVE  p \in Coming(g, path[k].place)
<1>1. Len(code) \in Nat
  BY CodeFacts
<1>2. n \in Nat \ {0} /\ Booked(g, n, path, books)
  BY <1>1, CourseFacts
<1>3. /\ k + 1 \in 1 .. n /\ books[k + 1] = Book(g, path[k], books[k])
      /\ path[k + 1].place = NextPlace(path[k])
  BY <1>1, Onwards
<1>4. p \in books[k + 1].come
  <2>1. n \in 1 .. n /\ (k + 1 = n \/ k + 1 < n)
    BY <1>2, <1>3
  <2> QED BY <1>2, <1>3, <2>1 DEF Booked
<1>5. p \notin books[k].come
  <2>1. books[n] \in Ledgers /\ path[k].place \in Nat
    <3>1. n \in 1 .. n
      BY <1>2
    <3> QED BY <1>1, <3>1, CourseFacts
  <2>2. p[2] \in Nat
    BY <2>1 DEF Ledgers
  <2>3. p \in books[k].come => p[2] < path[k].place
    BY <1>2 DEF Booked
  <2> QED BY <2>1, <2>2, <2>3
<1> QED BY <1>3, <1>4, <1>5 DEF Book

\* The pairs of a ledger.
LEMMA ComeFacts ==
    ASSUME Ready, NEW g, NEW n, NEW path, NEW books, Course(g, n, path, books),
           NEW p \in books[n].come
    PROVE  /\ p = <<p[1], p[2]>> /\ p[1] \in Lids /\ p[2] \in 1 .. Len(code)
           /\ code[p[2]].op = "section"
<1>1. Len(code) \in Nat
  BY CodeFacts
<1>2. n \in Nat \ {0} /\ Booked(g, n, path, books) /\ n \in 1 .. n
  BY <1>1, CourseFacts
<1>3. books[n] \in Ledgers
  BY <1>1, <1>2, CourseFacts
<1>4. p \in Lids \X (Nat \ {0})
  BY <1>3 DEF Ledgers
<1>5. p[2] <= Len(code) /\ code[p[2]].op = "section"
  BY <1>2 DEF Booked
<1> QED BY <1>1, <1>4, <1>5

\* The members of a group.
LEMMA MemberFacts ==
    ASSUME NEW g \in Groups
    PROVE  /\ \A t \in Members(g) : /\ t \in WorkItems /\ Group(t) = g /\ Lid(t) \in Lids
                                    /\ t = <<g, Lid(t)>> /\ GlobalId(t) = g * Size + Lid(t)
           /\ \A l \in Lids : <<g, l>> \in Members(g) /\ Lid(<<g, l>>) = l
           /\ <<g, 0>> \in Members(g) /\ 0 \in Lids
BY SizesAssumption DEF Members, WorkItems, Group, Lid, GlobalId, Lids

\* A group none of whose data a step changes keeps its due.
LEMMA DueFrame ==
    ASSUME code' = code, NEW g \in Groups, NEW n, NEW path, NEW books,
           Ready, Course(g, n, path, books), Due(g, n, path, books),
           \A t \in Members(g) :
              ip'[t] = ip[t] /\ reg'[t] = reg[t] /\ v_collective'[t] = v_collective[t],
           \A sp \in Spaces : reduction'[sp][g] = reduction[sp][g] /\ counter'[sp][g] = counter[sp][g]
    PROVE  Due(g, n, path, books)'
<1>1. \A i : Home(i)' = Home(i) /\ Fires(i)' = Fires(i)
  BY SameCode, SameCourse
<1>2. \A i, x : OperandsAt(g, i, x)' = OperandsAt(g, i, x)
  BY SameCourse
<1>3. \A i : Here(g, i)' = Here(g, i)
  BY MemberFacts DEF Here
<1>4. \A t \in Members(g), sp \in Spaces : Waits(t, sp)' = Waits(t, sp)
  BY <1>1 DEF Waits
<1>5. \A sp \in Spaces : Initialised(g, sp)' = Initialised(g, sp)
  BY MemberFacts DEF Initialised
<1>6. \A t \in Members(g) : \A s, l : ItemDue(t, s, l) => ItemDue(t, s, l)'
  BY DEF ItemDue
<1>7. ASSUME NEW sp \in Spaces, RedDue(g, sp, n, path, books)
      PROVE  RedDue(g, sp, n, path, books)'
  BY <1>1, <1>2, <1>3, <1>4, <1>7 DEF RedDue
<1>8. \A c : Passed(g, books[n].come, c)' = Passed(g, books[n].come, c)
  <2>1. \A p \in books[n].come : ip'[<<g, p[1]>>] = ip[<<g, p[1]>>]
    BY ComeFacts, MemberFacts
  <2> QED BY <2>1 DEF Passed
<1>9. CountDue(g, books[n].come)'
  <2>1. \A i \in 1 .. Len(code) : code[i].op = "section" => code[i].space \in Spaces
    BY AtSection DEF Ready
  <2> QED BY <1>5, <1>8, <2>1 DEF CountDue, Due
<1>10. ComeDue(g, books[n].come)'
  BY DEF ComeDue, Due
<1>11. ASSUME NEW t \in Members(g), NEW k \in 1 .. n, path[k].place = Home(ip[t])'
       PROVE  ItemDue(t, path[k], books[k])'
  <2>1. path[k].place = Home(ip[t])
    BY <1>1, <1>11
  <2> QED BY <1>6, <2>1 DEF Due
<1>12. \A sp \in Spaces : Initialised(g, sp)' => RedDue(g, sp, n, path, books)'
  BY <1>5, <1>7 DEF Due
<1> QED BY <1>9, <1>10, <1>11, <1>12 DEF Due

-----------------------------------------------------------------------------
(* Steps keep what is due                                                  *)

\* While a work-item is in front of a barrier the others wait at no other one.
LEMMA NextBarrier ==
    ASSUME Running, NEW g \in Groups, NEW n, NEW path, NEW books, Course(g, n, path, books),
           NEW t \in Members(g), NEW u \in Members(g), NEW i \in 1 .. Len(code), ip[t] = i,
           code[i].op \in {"atomic", "collect"}, ip[u] <= Len(code), code[ip[u]].op = "barrier"
    PROVE  ip[u] = i + 1
<1>1. Ready /\ Len(code) \in Nat
  BY CodeFacts DEF Running
<1>2. PICK at \in [Members(g) -> 1 .. n] :
         Way(g, n, path, at) /\ \A v \in Members(g) : Home(ip[v]) = path[at[v]].place
  BY OnCourse
<1>3. /\ n \in Nat \ {0} /\ path \in [1 .. n -> States] /\ TraceOK(g, n, path)
  BY <1>1, CourseFacts DEF Course
<1> DEFINE a == at[t]
           b == at[u]
<1>4. a \in 1 .. n /\ b \in 1 .. n /\ path[a].bar = path[b].bar
  BY <1>2 DEF Way
<1>5. i < Len(code) /\ code[i + 1].op = "barrier"
  BY <1>1, CodeFacts DEF LaidAt
<1>6. Home(i) = i /\ Home(i + 1) = i + 1
  BY <1>1, StraightOn
<1>7. path[a].place = i
  BY <1>2, <1>6
<1>8. ip[u] \in 1 .. Len(code) /\ Home(ip[u]) = ip[u]
  <2>1. ip[u] \in Nat \ {0}
    BY <1>1, MemberFacts DEF Ready, Inv, TypeInv
  <2>2. ip[u] \in 1 .. Len(code)
    BY <1>1, <2>1
  <2> QED BY <1>1, <2>2, StraightOn
<1>9. path[b].place = ip[u]
  BY <1>2, <1>8
<1>10. a <= b
  <2>1. code[path[at[u]].place].op = "barrier"
    BY <1>9
  <2> QED BY <1>1, <1>2, <1>3, <2>1, NobodyAhead
<1>11. a # b
  BY <1>7, <1>9
<1>12. /\ a + 1 \in 1 .. n /\ path[a + 1].place = i + 1
  <2>1. /\ a + 1 \in 1 .. n /\ path[a + 1].place = NextPlace(path[a])
    BY <1>1, <1>4, <1>7, Onwards
  <2>2. NextPlace(path[a]) = Home(i + 1 + 0) /\ i + 1 + 0 = i + 1
    BY <1>7 DEF NextPlace, Skips
  <2> QED BY <1>6, <2>1, <2>2
<1> HIDE DEF a, b
<1>13. CASE b = a + 1
  BY <1>9, <1>12, <1>13
<1>14. CASE b # a + 1
  <2>1. a + 1 < b
    BY <1>4, <1>10, <1>11, <1>14
  <2>2. path[b].bar >= i + 1
    BY <1>3, <1>4, <1>5, <1>12, <2>1 DEF TraceOK
  <2>3. path[a].bar < i
    BY <1>3, <1>4, <1>7 DEF TraceOK
  <2>4. path[a].bar \in Nat
    BY <1>3, <1>4 DEF States
  <2> QED BY <1>4, <2>2, <2>3, <2>4
<1> QED BY <1>13, <1>14

\* The place of a work-item on the whole way.
LEMMA Placed ==
    ASSUME Running, NEW g \in Groups, NEW n, NEW path, NEW books, Course(g, n, path, books),
           NEW t \in Members(g)
    PROVE  \E k \in 1 .. n : path[k].place = Home(ip[t]) /\ InStep(t, path[k])
<1>1. PICK at \in [Members(g) -> 1 .. n] :
         Way(g, n, path, at) /\ \A v \in Members(g) : Home(ip[v]) = path[at[v]].place
  BY OnCourse
<1>2. at[t] \in 1 .. n /\ path[at[t]].place = Home(ip[t]) /\ InStep(t, path[at[t]])
  BY <1>1 DEF Way
<1> QED BY <1>2

\* What an instruction does: Collect and Evaluate are the steps of theirs.
LEMMA StepOf ==
    ASSUME NEW t \in WorkItems, RunInside(t)
    PROVE  /\ code[ip[t]].op = "collect" => Collect(t)
           /\ code[ip[t]].op = "eval" => Evaluate(t)
           /\ code[ip[t]].op = "atomic" => Reduce(t)
           /\ code[ip[t]].op = "branch" => Branch(t)
           /\ code[ip[t]].op = "section" => EnterSection(t)
           /\ code[ip[t]].op = "init" => InitBuffers(t)
           /\ code[ip[t]].op = "hash" => Hash(t)
           /\ code[ip[t]].op = "result" => LeaveSection(t)
           /\ code[ip[t]].op # "collect" => v_collective' = v_collective
           /\ code[ip[t]].op \notin {"atomic", "init"} => reduction' = reduction
           /\ code[ip[t]].op \notin {"section", "init"} => counter' = counter
           /\ code[ip[t]].op \notin {"result", "init"} => special' = special
           /\ code[ip[t]].op # "hash" => digest' = digest
BY DEF RunInside, InitBuffers, Evaluate, Store, Branch, Permute, Reduce, Collect, EnterSection,
       LeaveSection, TestGate, TakeInside, GiveInside, ShutGate, Hash, At, private, atomics

\* What a work-item has collected and evaluated.
LEMMA ItemDueKept ==
    ASSUME Running, NEW t \in WorkItems, RunInside(t), NEW g \in Groups, g = Group(t),
           NEW n, NEW path, NEW books, Course(g, n, path, books), Due(g, n, path, books),
           NEW m \in 1 .. n, path[m].place = Home(ip'[t])
    PROVE  ItemDue(t, path[m], books[m])'
<1> DEFINE i == ip[t]
           j == ip'[t]
<1>1. Ready /\ Len(code) \in Nat /\ Moved(t) /\ t \in Members(g)
  BY ItemMoves, CodeFacts DEF Running, Members
<1>2. i \in 1 .. Len(code) /\ code' = code
  BY <1>1 DEF Moved
<1>3. PICK k \in 1 .. n : path[k].place = Home(ip[t]) /\ InStep(t, path[k])
  BY <1>1, Placed
<1>4. ItemDue(t, path[k], books[k])
  BY <1>1, <1>3 DEF Due
<1>5. IF Home(i) = i
        THEN m = k + 1 /\ path[m] = Effect(g, path[k]) /\ books[m] = Book(g, path[k], books[k])
        ELSE m = k /\ code[i].op \in {"section", "result"}
  BY <1>3, Advances
<1>6. v_collective'[t] = IF Lid(t) = 0 THEN books[m].coll ELSE 0
  <2>1. CASE code[i].op = "collect"
    <3> DEFINE sp == code[i].space
    <3>1. Home(i) = i
      BY <1>1, <1>2, <2>1, StraightOn
    <3>2. books[m].coll = (books[k].coll + books[k].red[sp]) % Modulus
      BY <1>3, <1>5, <2>1, <3>1 DEF Book
    <3>3. sp \in Spaces /\ Initialised(g, sp)
      <4>1. code[i] \in Instruction
        BY <1>1, <1>2, CodeFacts
      <4>2. sp \in Spaces
        BY <2>1, <4>1, ReductionFields
      <4>3. i <= Len(code)
        BY <1>2
      <4> QED BY <1>1, <2>1, <4>2, <4>3, Started DEF Ready
    <3>4. ASSUME NEW u \in Members(g), Waits(u, sp) PROVE FALSE
      <4>1. ip[u] <= Len(code) /\ code[ip[u]].op = "barrier" /\ code[ip[u] - 1].op = "atomic"
        BY <3>4 DEF Waits, Fires
      <4>2. ip[u] = i + 1
        BY <1>1, <1>2, <2>1, <4>1, NextBarrier
      <4>3. ip[u] - 1 = i
        BY <1>2, <4>2
      <4> QED BY <2>1, <4>1, <4>3
    <3>5. reduction[sp][g] = books[k].red[sp]
      BY <1>1, <1>3, <3>3, <3>4 DEF Due, RedDue
    <3>6. v_collective'[t] = IF Lid(t) = 0 THEN (v_collective[t] + reduction[sp][g]) % Modulus
                             ELSE v_collective[t]
      <4>1. Collect(t) /\ v_collective \in [WorkItems -> UInt]
        BY <2>1, StepOf DEF Running, DataOK
      <4> QED BY <4>1 DEF Collect
    <3>7. v_collective[t] = IF Lid(t) = 0 THEN books[k].coll ELSE 0
      BY <1>4 DEF ItemDue
    <3> QED BY <3>2, <3>5, <3>6, <3>7
  <2>2. CASE code[i].op # "collect"
    <3>1. v_collective'[t] = v_collective[t]
      BY <2>2, StepOf
    <3>2. books[m].coll = books[k].coll
      <4>1. CASE Home(i) = i
        BY <1>3, <1>5, <2>2, <4>1 DEF Book
      <4>2. CASE Home(i) # i
        BY <1>5, <4>2
      <4> QED BY <4>1, <4>2
    <3> QED BY <1>4, <3>1, <3>2 DEF ItemDue
  <2> QED BY <2>1, <2>2
<1>7. ASSUME j <= Len(code), code[j].op \in {"atomic", "branch"}
      PROVE  reg'[t] = IF code[j - 1].expr.source = "id"
                         THEN (GlobalId(t) + code[j - 1].expr.add) % Modulus ELSE path[m].reg
  <2>1. j = i + 1 /\ code[i].op = "eval"
    BY <1>1, <1>7, Landed
  <2>2. j - 1 = i
    BY <1>2, <2>1
  <2> DEFINE e == code[i].expr
  <2>3. reg'[t] = Value(t, e)
    <3>1. Evaluate(t) /\ reg \in [WorkItems -> UInt]
      BY <2>1, StepOf DEF Running, DataOK
    <3> QED BY <3>1 DEF Evaluate
  <2>4. Home(i) = i
    BY <1>1, <1>2, <2>1, StraightOn
  <2>5. path[m].reg = GroupValue(g, path[k], e)
    <3>1. path[m] = Effect(g, path[k]) /\ path[k].place = i
      BY <1>3, <1>5, <2>4
    <3> QED BY <2>1, <3>1 DEF Effect
  <2>6. CASE e.source = "id"
    <3>1. Value(t, e) = (GlobalId(t) + e.add) % Modulus
      BY <2>6 DEF Value, Spaces
    <3> QED BY <2>2, <2>3, <2>6, <3>1
  <2>7. CASE e.source # "id"
    <3>1. ~Pending(i)
      <4>1. code[i + 1].op # "permute"
        BY <1>7, <2>1
      <4> QED BY <2>1, <4>1 DEF Pending
    <3>2. i <= Len(code)
      BY <1>2
    <3>3. Value(t, e) = GroupValue(g, path[k], e)
      BY <1>1, <1>3, <2>1, <2>7, <3>1, <3>2, SharedValue
    <3> QED BY <2>2, <2>3, <2>5, <2>7, <3>3
  <2> QED BY <2>6, <2>7
<1> QED BY <1>2, <1>6, <1>7 DEF ItemDue

\* The reduction on the next place, if the instruction is not a barrier.
LEMMA RedAlong ==
    ASSUME Running, NEW t \in WorkItems, RunInside(t), NEW g \in Groups, g = Group(t),
           NEW n, NEW path, NEW books, Course(g, n, path, books),
           NEW k \in 1 .. n, path[k].place = Home(ip[t]),
           NEW m \in 1 .. n, path[m].place = Home(ip'[t])
    PROVE  books[m].red = books[k].red
<1>1. IF Home(ip[t]) = ip[t] THEN books[m] = Book(g, path[k], books[k]) ELSE m = k
  BY Advances
<1>2. code[ip[t]].op # "barrier"
  BY ItemMoves DEF Moved
<1>3. CASE Home(ip[t]) = ip[t]
  BY <1>1, <1>2, <1>3, RedKept
<1> QED BY <1>1, <1>3

\* Who waits where, when nobody comes to wait.
LEMMA WaitsKept ==
    ASSUME Running, NEW t \in WorkItems, RunInside(t), NEW g \in Groups, g = Group(t),
           NEW sp, ~Waits(t, sp)'
    PROVE  /\ ~Waits(t, sp)
           /\ \A u \in Members(g) : Waits(u, sp)' = Waits(u, sp)
           /\ \A u \in Members(g) : Waits(u, sp) => ip'[u] = ip[u] /\ Here(g, ip[u])' = Here(g, ip[u])
<1>1. Moved(t) /\ t \in Members(g)
  BY ItemMoves DEF Members
<1>2. code' = code /\ code[ip[t]].op # "barrier" /\ \A u \in WorkItems : u # t => ip'[u] = ip[u]
  BY <1>1 DEF Moved
<1>3. \A i : Fires(i)' = Fires(i)
  BY <1>2, SameCourse
<1>4. ~Waits(t, sp)
  BY <1>2 DEF Waits, Fires
<1>5. \A u \in Members(g) : Waits(u, sp)' = Waits(u, sp)
  <2> TAKE u \in Members(g)
  <2>1. CASE u = t
    <3>1. ~Waits(u, sp) /\ ~Waits(u, sp)'
      BY <1>4, <2>1
    <3> QED BY <3>1 DEF Waits
  <2>2. CASE u # t
    <3>1. ip'[u] = ip[u]
      BY <1>2, <2>2, MemberFacts
    <3> QED BY <1>2, <1>3, <3>1 DEF Waits
  <2> QED BY <2>1, <2>2
<1>6. ASSUME NEW u \in Members(g), Waits(u, sp)
      PROVE  ip'[u] = ip[u] /\ Here(g, ip[u])' = Here(g, ip[u])
  <2>1. u # t /\ ip'[u] = ip[u]
    BY <1>2, <1>4, <1>6, MemberFacts
  <2>2. ip[t] # ip[u]
    BY <1>2, <1>6 DEF Waits, Fires
  <2>3. ip'[t] # ip[u]
    BY <1>2, <1>3, <1>5, <1>6, <2>1 DEF Waits
  <2>4. ASSUME NEW l \in Lids PROVE ip'[<<g, l>>] = ip'[u] <=> ip[<<g, l>>] = ip[u]
    <3>1. <<g, l>> \in WorkItems
      BY MemberFacts
    <3> QED BY <1>2, <2>1, <2>2, <2>3, <3>1
  <2> QED BY <2>1, <2>4 DEF Here
<1> QED BY <1>4, <1>5, <1>6

\* A reduction that the step does not touch.
LEMMA RedUntouched ==
    ASSUME Running, NEW t \in WorkItems, RunInside(t), NEW g \in Groups, g = Group(t),
           NEW n, NEW path, NEW books, Course(g, n, path, books),
           NEW sp \in Spaces, RedDue(g, sp, n, path, books),
           reduction'[sp][g] = reduction[sp][g], ~Waits(t, sp)'
    PROVE  RedDue(g, sp, n, path, books)'
<1>1. Moved(t) /\ t \in Members(g)
  BY ItemMoves DEF Members
<1>2. code' = code /\ \A u \in WorkItems : u # t => ip'[u] = ip[u]
  BY <1>1 DEF Moved
<1>3. /\ \A i : Home(i)' = Home(i)
      /\ \A i, x : OperandsAt(g, i, x)' = OperandsAt(g, i, x)
  BY <1>2, SameCode, SameCourse
<1>4. /\ ~Waits(t, sp)
      /\ \A u \in Members(g) : Waits(u, sp)' = Waits(u, sp)
      /\ \A u \in Members(g) : Waits(u, sp) => ip'[u] = ip[u] /\ Here(g, ip[u])' = Here(g, ip[u])
  BY WaitsKept
<1>5. ASSUME NEW u \in Members(g), NEW m \in 1 .. n, path[m].place = Home(ip[u])',
             Waits(u, sp)'
      PROVE  reduction'[sp][g] = Combined(code'[ip'[u] - 1].fn, books[m].red[sp],
                                          OperandsAt(g, ip[u], path[m].reg)', Here(g, ip[u])')
  <2>1. Waits(u, sp) /\ ip'[u] = ip[u] /\ Here(g, ip[u])' = Here(g, ip[u])
    BY <1>4, <1>5
  <2>2. path[m].place = Home(ip[u])
    BY <1>3, <1>5, <2>1
  <2>3. OperandsAt(g, ip[u], path[m].reg)' = OperandsAt(g, ip[u], path[m].reg)
    BY <1>3, <2>1
  <2>4. reduction[sp][g] = Combined(code[ip[u] - 1].fn, books[m].red[sp],
                                    OperandsAt(g, ip[u], path[m].reg), Here(g, ip[u]))
    BY <2>1, <2>2 DEF RedDue
  <2> QED BY <1>2, <2>1, <2>3, <2>4
<1>6. ASSUME NEW u \in Members(g), NEW m \in 1 .. n, path[m].place = Home(ip[u])',
             \A v \in Members(g) : ~Waits(v, sp)'
      PROVE  reduction'[sp][g] = books[m].red[sp]
  <2>1. \A v \in Members(g) : ~Waits(v, sp)
    BY <1>4, <1>6
  <2>2. CASE u # t
    <3>1. path[m].place = Home(ip[u])
      BY <1>2, <1>3, <1>6, <2>2, MemberFacts
    <3> QED BY <2>1, <3>1 DEF RedDue
  <2>3. CASE u = t
    <3>1. PICK k \in 1 .. n : path[k].place = Home(ip[t])
      BY <1>1, Placed
    <3>2. reduction[sp][g] = books[k].red[sp]
      BY <1>1, <2>1, <3>1 DEF RedDue
    <3>3. path[m].place = Home(ip'[t])
      BY <1>3, <1>6, <2>3
    <3>4. books[m].red = books[k].red
      BY <3>1, <3>3, RedAlong
    <3> QED BY <3>2, <3>4
  <2> QED BY <2>2, <2>3
<1> QED BY <1>5, <1>6 DEF RedDue

\* A work-item adds its operand.
LEMMA ReduceDue ==
    ASSUME Running, NEW t \in WorkItems, RunInside(t), NEW g \in Groups, g = Group(t),
           NEW n, NEW path, NEW books, Course(g, n, path, books), Due(g, n, path, books),
           NEW i \in 1 .. Len(code), ip[t] = i, code[i].op = "atomic",
           NEW sp, sp = code[i].space
    PROVE  RedDue(g, sp, n, path, books)'
<1> DEFINE fn == code[i].fn
           j == i + 1
<1>1. Ready /\ Len(code) \in Nat /\ Moved(t) /\ t \in Members(g) /\ Group(t) \in Groups
  BY ItemMoves, CodeFacts DEF Running, Members
<1>2. code' = code /\ \A u \in WorkItems : u # t => ip'[u] = ip[u]
  BY <1>1 DEF Moved
<1>3. PICK k \in 1 .. n : path[k].place = Home(i) /\ InStep(t, path[k])
  BY <1>1, Placed
<1>4. Home(i) = i
  BY <1>1, StraightOn
<1>5. code[i] \in Instruction /\ LaidAt(code, i)
  BY <1>1, CodeFacts
<1>6. fn \in AtomicFunctions /\ sp \in Spaces /\ code[i].addGlobal \in BOOLEAN
  BY <1>5, ReductionFields
<1>7. Reduce(t) /\ ip'[t] = j
  BY StepOf, <1>1 DEF Moved
<1>8. j \in 1 .. Len(code) /\ code[j].op = "barrier" /\ j - 1 = i /\ j - 2 = i - 1 /\ j > 1
  BY <1>1, <1>5 DEF LaidAt
<1>9. Fires(j)
  BY <1>8 DEF Fires
<1> DEFINE x == OperandsAt(g, j, path[k].reg)
           base == books[k].red[sp]
           operand == (reg[t] + IF code[i].addGlobal THEN GlobalId(t) ELSE 0) % Modulus
           l == Lid(t)
           W == Here(g, j)
<1>10. path[k] \in States /\ books[k] \in Ledgers
  BY <1>1, CourseFacts
<1>11. x \in [Lids -> UInt] /\ base \in UInt /\ l \in Lids /\ GlobalId(t) = g * Size + l
  <2>1. path[k].reg \in UInt /\ base \in UInt
    BY <1>6, <1>10 DEF States, Ledgers
  <2>2. x \in [Lids -> UInt]
    BY <1>1, <1>8, <1>9, <2>1, OperandsType
  <2> QED BY <1>1, <2>1, <2>2, MemberFacts
<1>12. x[l] = operand
  <2> DEFINE e == code[i - 1].expr
  <2>1. ItemDue(t, path[k], books[k])
    BY <1>1, <1>3 DEF Due
  <2>2. reg[t] = IF e.source = "id" THEN (g * Size + l + e.add) % Modulus ELSE path[k].reg
    BY <1>11, <2>1 DEF ItemDue
  <2>3. x[l] = OperandAt(g, j, path[k].reg, l)
    BY <1>11 DEF OperandsAt
  <2>4. code[j - 2].expr = e /\ code[j - 1].addGlobal = code[i].addGlobal
    BY <1>8
  <2> HIDE DEF j
  <2>5. OperandAt(g, j, path[k].reg, l) = operand
    BY <1>11, <2>2, <2>4 DEF OperandAt
  <2> QED BY <2>3, <2>5
<1>13. reduction'[sp][g] = Apply(fn, reduction[sp][g], operand)
  <2>1. reduction \in [Spaces -> [Groups -> UInt]]
    BY DEF Running, DataOK
  <2> QED BY <1>6, <1>7, <2>1 DEF Reduce
<1> HIDE DEF j, x, base, operand, fn
<1>14. ASSUME NEW u \in Members(g), ip[u] <= Len(code), Fires(ip[u]) PROVE ip[u] = j
  <2>1. code[ip[u]].op = "barrier"
    BY <1>14 DEF Fires
  <2> QED BY <1>1, <1>14, <2>1, NextBarrier DEF j
<1>15. reduction[sp][g] = Combined(fn, base, x, W)
  <2>1. CASE \E u \in Members(g) : Waits(u, sp)
    <3>1. PICK u \in Members(g) : Waits(u, sp)
      BY <2>1
    <3>2. ip[u] = j
      BY <1>14, <3>1 DEF Waits
    <3>3. PICK m \in 1 .. n : path[m].place = Home(ip[u])
      BY Placed
    <3>4. reduction[sp][g] = Combined(code[ip[u] - 1].fn, books[m].red[sp],
                                      OperandsAt(g, ip[u], path[m].reg), Here(g, ip[u]))
      <4>1. Initialised(g, sp)
        <5>1. i <= Len(code)
          BY <1>1
        <5> QED BY <1>1, <1>6, <5>1, Started DEF Ready
      <4> QED BY <1>6, <3>1, <3>3, <4>1 DEF Due, RedDue
    <3>5. m = k + 1 /\ path[m] = Effect(g, path[k]) /\ books[m] = Book(g, path[k], books[k])
      <4>1. path[m].place = Home(ip'[t])
        BY <1>7, <3>2, <3>3
      <4>2. path[k].place = Home(ip[t])
        BY <1>3
      <4>3. Home(ip[t]) = ip[t]
        BY <1>4
      <4> QED BY <4>1, <4>2, <4>3, Advances
    <3>6. path[m].reg = path[k].reg
      BY <1>3, <1>4, <3>5 DEF Effect
    <3>7. books[m].red[sp] = base
      <4>1. books[m].red = books[k].red
        BY <1>3, <1>4, <3>5, RedKept
      <4> QED BY <4>1 DEF base
    <3>8. code[ip[u] - 1].fn = fn
      BY <1>8, <3>2 DEF fn
    <3> QED BY <3>2, <3>4, <3>6, <3>7, <3>8 DEF x
  <2>2. CASE \A u \in Members(g) : ~Waits(u, sp)
    <3>1. reduction[sp][g] = base
      <4>1. Initialised(g, sp)
        <5>1. i <= Len(code)
          BY <1>1
        <5> QED BY <1>1, <1>6, <5>1, Started DEF Ready
      <4> QED BY <1>1, <1>3, <1>6, <2>2, <4>1 DEF Due, RedDue, base
    <3>2. W = {}
      <4>1. ASSUME NEW q \in Lids, ip[<<g, q>>] = j PROVE FALSE
        <5>1. <<g, q>> \in Members(g)
          BY MemberFacts
        <5>2. Waits(<<g, q>>, sp)
          BY <1>1, <1>8, <1>9, <4>1 DEF Waits
        <5> QED BY <2>2, <5>1, <5>2
      <4> QED BY <4>1 DEF Here
    <3> QED BY <3>1, <3>2, CombinedNone
  <2> QED BY <2>1, <2>2
<1>16. l \notin W
  <2>1. ip[t] # j
    BY DEF j
  <2> QED BY <1>1, <2>1, MemberFacts DEF Here
<1>17. reduction'[sp][g] = Combined(fn, base, x, W \cup {l})
  BY <1>6, <1>11, <1>12, <1>13, <1>15, <1>16, CombinedOne DEF fn
<1>18. Here(g, j)' = W \cup {l}
  <2>1. ASSUME NEW q \in Lids PROVE ip'[<<g, q>>] = j <=> ip[<<g, q>>] = j \/ q = l
    <3>1. <<g, q>> \in WorkItems /\ (<<g, q>> = t <=> q = l)
      <4>1. t = <<g, l>> /\ <<g, q>> \in Members(g)
        BY <1>1, MemberFacts
      <4>2. <<g, q>> \in WorkItems
        BY <4>1, MemberFacts
      <4> QED BY <4>1, <4>2
    <3>2. CASE q = l
      BY <1>7, <3>1, <3>2
    <3>3. CASE q # l
      BY <1>2, <3>1, <3>3
    <3> QED BY <3>2, <3>3
  <2>2. j' = j
    BY DEF j
  <2> QED BY <1>11, <2>1, <2>2 DEF Here
<1>19. \A p : Home(p)' = Home(p) /\ Fires(p)' = Fires(p)
  BY <1>2, SameCode, SameCourse
<1>20. ASSUME NEW u \in Members(g), NEW m \in 1 .. n, path[m].place = Home(ip[u])', Waits(u, sp)'
       PROVE  reduction'[sp][g] = Combined(code'[ip'[u] - 1].fn, books[m].red[sp],
                                           OperandsAt(g, ip[u], path[m].reg)', Here(g, ip[u])')
  <2>1. ip'[u] = j
    <3>1. CASE u = t
      BY <1>7, <3>1
    <3>2. CASE u # t
      <4>1. ip'[u] = ip[u]
        BY <1>2, <3>2, MemberFacts
      <4>2. ip[u] <= Len(code) /\ Fires(ip[u])
        BY <1>2, <1>19, <1>20, <4>1 DEF Waits
      <4> QED BY <1>14, <4>1, <4>2
    <3> QED BY <3>1, <3>2
  <2>2. m = k + 1 /\ path[m] = Effect(g, path[k]) /\ books[m] = Book(g, path[k], books[k])
    <3>1. path[m].place = Home(ip'[t])
      BY <1>7, <1>19, <1>20, <2>1
    <3>2. path[k].place = Home(ip[t])
      BY <1>3
    <3>3. Home(ip[t]) = ip[t]
      BY <1>4
    <3> QED BY <3>1, <3>2, <3>3, Advances
  <2>3. path[m].reg = path[k].reg
    BY <1>3, <1>4, <2>2 DEF Effect
  <2>4. books[m].red[sp] = base
    <3>1. books[m].red = books[k].red
      BY <1>3, <1>4, <2>2, RedKept
    <3> QED BY <3>1 DEF base
  <2>5. code'[ip'[u] - 1].fn = fn
    BY <1>2, <1>8, <2>1 DEF fn
  <2>6. OperandsAt(g, ip[u], path[m].reg)' = x
    <3>1. \A p, v : OperandsAt(g, p, v)' = OperandsAt(g, p, v)
      BY <1>2, SameCourse
    <3>2. OperandsAt(g, ip[u], path[m].reg)' = OperandsAt(g, ip'[u], path[m].reg)
      BY <3>1
    <3> QED BY <2>1, <2>3, <3>2 DEF x
  <2>7. Here(g, ip[u])' = W \cup {l}
    <3>1. Here(g, ip[u])' = Here(g, j)'
      BY <2>1 DEF Here, j
    <3> QED BY <1>18, <3>1
  <2> QED BY <1>17, <2>4, <2>5, <2>6, <2>7
<1>21. ASSUME \A u \in Members(g) : ~Waits(u, sp)' PROVE FALSE
  <2>1. Waits(t, sp)'
    BY <1>2, <1>7, <1>8, <1>9, <1>19 DEF Waits
  <2> QED BY <1>1, <1>21, <2>1
<1> QED BY <1>20, <1>21 DEF RedDue

\* The first work-item of a group initialises its buffers: nobody is further.
LEMMA NobodyFurther ==
    ASSUME Running, NEW t \in WorkItems, RunInside(t), code[ip[t]].op = "init", NEW g \in Groups,
           g = Group(t), NEW n, NEW path, NEW books, Course(g, n, path, books)
    PROVE  /\ ip[t] = 1 /\ ip'[t] = 2
           /\ \A u \in Members(g) : ip'[u] \in {1, 2}
           /\ \A u \in Members(g), m \in 1 .. n : path[m].place = Home(ip'[u]) =>
                \A sp \in Spaces : books[m].red[sp] = 0
           /\ ~Fires(1) /\ ~Fires(2)
<1>1. Ready /\ Len(code) \in Nat /\ Len(code) >= 2 /\ Moved(t) /\ t \in Members(g)
  BY ItemMoves, CodeFacts DEF Running, Members
<1>2. ip[t] = 1 /\ ip'[t] = 2 /\ \A u \in WorkItems : u # t => ip'[u] = ip[u]
  BY <1>1, CodeFacts DEF Moved
<1>3. ASSUME NEW u \in Members(g) PROVE ip'[u] \in {1, 2}
  <2>1. u \in WorkItems /\ Group(u) = Group(t) /\ ip[u] \in Nat \ {0}
    BY <1>1, MemberFacts DEF Ready, Inv, TypeInv
  <2>2. ~(ip[u] > 2)
    BY <1>1, <1>2, <2>1 DEF Ready, Inv, StartInv
  <2>3. ip[u] \in {1, 2}
    BY <2>1, <2>2
  <2> QED BY <1>2, <2>1, <2>3
<1>4. code[1].op = "init" /\ code[2].op = "barrier" /\ 1 \in 1 .. Len(code) /\ 2 \in 1 .. Len(code)
  BY <1>1, CodeFacts
<1>5. Home(1) = 1 /\ Home(2) = 2
  BY <1>1, <1>4, StraightOn
<1>6. ~Fires(1) /\ ~Fires(2)
  <2>1. 2 - 1 = 1
    OBVIOUS
  <2> QED BY <1>4, <2>1 DEF Fires
<1>7. /\ n \in Nat \ {0} /\ 1 \in 1 .. n /\ path[1] = Start /\ books[1] = Blank
  <2>1. n \in Nat \ {0} /\ Booked(g, n, path, books)
    BY <1>1, CourseFacts
  <2> QED BY <2>1 DEF Booked, TraceOK
<1>8. path[1].place = 1
  BY <1>7 DEF Start
<1>9. /\ 2 \in 1 .. n /\ path[2].place = 2 /\ books[2] = Book(g, path[1], books[1])
  <2>1. /\ 1 + 1 \in 1 .. n /\ path[1 + 1].place = NextPlace(path[1])
        /\ books[1 + 1] = Book(g, path[1], books[1])
    BY <1>1, <1>7, <1>8, Onwards
  <2>2. NextPlace(path[1]) = Home(1 + 1 + 0) /\ 1 + 1 + 0 = 2 /\ 1 + 1 = 2
    BY <1>4, <1>8 DEF NextPlace, Skips
  <2> QED BY <1>5, <2>1, <2>2
<1>10. books[1].red = [sp \in Spaces |-> 0] /\ books[2].red = [sp \in Spaces |-> 0]
  <2>1. books[1].red = [sp \in Spaces |-> 0]
    BY <1>7 DEF Blank
  <2>2. books[2].red = books[1].red
    BY <1>4, <1>8, <1>9, RedKept
  <2> QED BY <2>1, <2>2
<1>11. ASSUME NEW u \in Members(g), NEW m \in 1 .. n, path[m].place = Home(ip'[u])
       PROVE  \A sp \in Spaces : books[m].red[sp] = 0
  <2>1. path[m].place = 1 \/ path[m].place = 2
    BY <1>3, <1>5, <1>11
  <2>2. m = 1 \/ m = 2
    BY <1>1, <1>7, <1>8, <1>9, <2>1, CourseFacts
  <2> QED BY <1>10, <2>2
<1> QED BY <1>2, <1>3, <1>6, <1>11

\* Every step keeps the reductions.
LEMMA RedDueKept ==
    ASSUME Running, NEW t \in WorkItems, RunInside(t), NEW g \in Groups, g = Group(t),
           NEW n, NEW path, NEW books, Course(g, n, path, books), Due(g, n, path, books),
           NEW sp \in Spaces, Initialised(g, sp)'
    PROVE  RedDue(g, sp, n, path, books)'
<1> DEFINE i == ip[t]
<1>1. Ready /\ Len(code) \in Nat /\ Moved(t) /\ t \in Members(g) /\ <<g, 0>> \in Members(g)
  BY ItemMoves, CodeFacts, MemberFacts DEF Running, Members
<1>2. /\ code' = code /\ i \in 1 .. Len(code) /\ \A u \in WorkItems : u # t => ip'[u] = ip[u]
      /\ ip'[t] \in i + 1 .. Len(code) + 1
  BY <1>1 DEF Moved
<1>3. \A p : Fires(p)' = Fires(p)
  BY <1>2, SameCourse
<1>4. reduction \in [Spaces -> [Groups -> UInt]]
  BY DEF Running, DataOK
<1>5. Waits(t, sp)' => code[i].op = "atomic" /\ sp = code[i].space
  <2> SUFFICES ASSUME Waits(t, sp)' PROVE code[i].op = "atomic" /\ sp = code[i].space
    OBVIOUS
  <2>1. ip'[t] <= Len(code) /\ Fires(ip'[t]) /\ code[ip'[t] - 1].space = sp
    BY <1>2, <1>3 DEF Waits
  <2>2. ip'[t] = i + 1 /\ code[i].op = "atomic"
    BY <1>1, <2>1, Landed
  <2>3. ip'[t] - 1 = i
    BY <1>2, <2>2
  <2> QED BY <2>1, <2>2, <2>3
<1>6. CASE code[i].op = "atomic" /\ sp = code[i].space
  BY <1>2, <1>6, ReduceDue
<1>7. CASE code[i].op = "init" /\ Lid(t) = 0 /\ sp = "local"
  <2>1. InitBuffers(t)
    BY <1>7, StepOf
  <2>2. reduction'[sp][g] = 0
    BY <1>4, <1>7, <2>1 DEF InitBuffers
  <2>3. /\ \A u \in Members(g) : ip'[u] \in {1, 2}
        /\ \A u \in Members(g), m \in 1 .. n : path[m].place = Home(ip'[u]) =>
             \A x \in Spaces : books[m].red[x] = 0
        /\ ~Fires(1) /\ ~Fires(2)
    BY <1>7, NobodyFurther
  <2>4. ASSUME NEW u \in Members(g), NEW m \in 1 .. n, path[m].place = Home(ip[u])'
        PROVE  ~Waits(u, sp)' /\ reduction'[sp][g] = books[m].red[sp]
    <3>1. path[m].place = Home(ip'[u])
      BY <1>2, <2>4, SameCode
    <3>2. books[m].red[sp] = 0
      BY <2>3, <3>1
    <3>3. ~Waits(u, sp)'
      BY <1>3, <2>3 DEF Waits
    <3> QED BY <2>2, <3>2, <3>3
  <2> QED BY <2>4 DEF RedDue
<1>8. CASE /\ ~(code[i].op = "atomic" /\ sp = code[i].space)
           /\ ~(code[i].op = "init" /\ Lid(t) = 0 /\ sp = "local")
  <2>1. reduction'[sp][g] = reduction[sp][g]
    <3>1. CASE code[i].op = "atomic"
      <4>1. Reduce(t)
        BY <3>1, StepOf
      <4>2. code[i].space # sp
        BY <1>8, <3>1
      <4> QED BY <1>4, <4>1, <4>2 DEF Reduce
    <3>2. CASE code[i].op = "init"
      <4>1. InitBuffers(t)
        BY <3>2, StepOf
      <4>2. Lid(t) # 0 \/ sp # "local"
        BY <1>8, <3>2
      <4> QED BY <1>4, <4>1, <4>2 DEF InitBuffers, atomics
    <3>3. CASE code[i].op \notin {"atomic", "init"}
      BY <3>3, StepOf
    <3> QED BY <3>1, <3>2, <3>3
  <2>2. Initialised(g, sp)
    <3>1. CASE t = <<g, 0>>
      <4>1. CASE code[i].op = "init"
        BY <1>1, <1>8, <3>1, <4>1, MemberFacts DEF Initialised, Spaces
      <4>2. CASE code[i].op # "init"
        <5>1. i # 1
          BY <1>1, <1>2, <4>2, CodeFacts
        <5>2. i > 1
          BY <1>2, <5>1
        <5> QED BY <3>1, <5>2 DEF Initialised
      <4> QED BY <4>1, <4>2
    <3>2. CASE t # <<g, 0>>
      <4>1. ip'[<<g, 0>>] = ip[<<g, 0>>]
        BY <1>1, <1>2, <3>2, MemberFacts
      <4> QED BY <4>1 DEF Initialised
    <3> QED BY <3>1, <3>2
  <2>3. ~Waits(t, sp)'
    BY <1>5, <1>8
  <2>4. RedDue(g, sp, n, path, books)
    BY <2>2 DEF Due
  <2> QED BY <2>1, <2>3, <2>4, RedUntouched
<1> QED BY <1>6, <1>7, <1>8

\* Other steps than those over a section take nobody past one that it comes to.
LEMMA PassedKept ==
    ASSUME Running, NEW t \in WorkItems, RunInside(t), code[ip[t]].op # "section",
           NEW g \in Groups, g = Group(t),
           NEW n, NEW path, NEW books, Course(g, n, path, books), Due(g, n, path, books)
    PROVE  \A p \in books[n].come : ip'[<<g, p[1]>>] > p[2] <=> ip[<<g, p[1]>>] > p[2]
<1> DEFINE i == ip[t]
           j == ip'[t]
           l == Lid(t)
<1>1. Ready /\ Len(code) \in Nat /\ Moved(t) /\ t \in Members(g)
  BY ItemMoves, CodeFacts DEF Running, Members
<1>2. /\ code' = code /\ i \in 1 .. Len(code) /\ \A u \in WorkItems : u # t => ip'[u] = ip[u]
      /\ j \in i + 1 .. Len(code) + 1
  BY <1>1 DEF Moved
<1>3. PICK k \in 1 .. n : path[k].place = Home(ip[t]) /\ InStep(t, path[k])
  BY <1>1, Placed
<1>4. ASSUME NEW p \in books[n].come, p[1] = l, p[2] >= i, p[2] < j PROVE FALSE
  <2>1. /\ p = <<p[1], p[2]>> /\ p[1] \in Lids /\ p[2] \in 1 .. Len(code)
        /\ code[p[2]].op = "section"
    BY <1>1, ComeFacts
  <2>2. p[2] # i
    BY <2>1
  <2>3. j # i + 1
    BY <1>2, <1>4, <2>1, <2>2
  <2>4. code[i].op \in {"branch", "gate"}
    BY <1>1, <2>3 DEF Moved
  <2>5. Home(i) = i
    BY <1>2, <2>4 DEF Home, PassedBy
  <2>6. Home(j) = NextPlace(path[k])
    BY <1>3, <2>5, NextHome
  <2>7. Home(j) >= j
    BY <1>1, <1>2, HomeFacts
  <2>8. NextPlace(path[k]) \in Nat
    <3>1. path[k].place \in 1 .. Len(code)
      BY <1>2, <1>3, <2>5
    <3>2. NextPlace(path[k]) \in 1 .. Len(code) + 1
      BY <1>1, <3>1, NextPlaceFacts
    <3> QED BY <1>1, <3>2
  <2>9. p \in Coming(g, i)
    <3>1. path[k].place = i /\ path[k].place <= Len(code)
      BY <1>2, <1>3, <2>5
    <3>2. p[2] >= path[k].place /\ p[2] < NextPlace(path[k])
      BY <1>2, <1>4, <2>1, <2>6, <2>7, <2>8, <3>1
    <3> QED BY <1>1, <3>1, <3>2, ComesFrom
  <2>10. Divided(i) /\ code[i].skip # 0 /\ l \in TakersAt(g, i) /\ p[2] = i + 1
    <3>1. Coming(g, i) # {}
      BY <2>9
    <3>2. Divided(i) /\ code[i].skip # 0 /\ Coming(g, i) = TakersAt(g, i) \X {i + 1}
      BY <3>1 DEF Coming
    <3> QED BY <1>4, <2>1, <2>9, <3>2
  <2>11. code[i].op = "branch" /\ code[i - 1].expr.source = "id"
    BY <2>10 DEF Divided
  <2>12. ItemDue(t, path[k], books[k])
    BY <1>1, <1>3 DEF Due
  <2>13. reg[t] # 0
    <3>1. reg[t] = (GlobalId(t) + code[i - 1].expr.add) % Modulus
      BY <1>2, <2>11, <2>12 DEF ItemDue
    <3>2. GlobalId(t) = g * Size + l
      BY <1>1, MemberFacts
    <3>3. (g * Size + l + code[i - 1].expr.add) % Modulus # 0
      BY <2>10 DEF TakersAt
    <3> QED BY <3>1, <3>2, <3>3
  <2>14. j = i + 1
    <3>1. Branch(t)
      BY <2>11, StepOf
    <3>2. ip \in [WorkItems -> Nat \ {0}]
      BY <1>1 DEF Ready, Inv, TypeInv
    <3>3. j = i + 1 + 0
      BY <2>13, <3>1, <3>2 DEF Branch, Goto
    <3> QED BY <1>2, <3>3
  <2> QED BY <2>3, <2>14
<1>5. ASSUME NEW p \in books[n].come PROVE ip'[<<g, p[1]>>] > p[2] <=> ip[<<g, p[1]>>] > p[2]
  <2>1. p[1] \in Lids /\ p[2] \in 1 .. Len(code)
    BY <1>1, ComeFacts
  <2>2. CASE p[1] = l
    <3>1. <<g, p[1]>> = t
      <4>1. t = <<g, Lid(t)>>
        BY <1>1, MemberFacts
      <4> QED BY <2>2, <4>1
    <3>2. ~(p[2] >= i /\ p[2] < j)
      BY <1>4, <2>2
    <3>3. j > p[2] <=> i > p[2]
      BY <1>2, <2>1, <3>2
    <3> QED BY <3>1, <3>3
  <2>3. CASE p[1] # l
    <3>1. <<g, p[1]>> \in Members(g) /\ Lid(<<g, p[1]>>) = p[1]
      BY <2>1, MemberFacts
    <3>2. <<g, p[1]>> \in WorkItems /\ <<g, p[1]>> # t
      BY <2>3, <3>1, MemberFacts
    <3> QED BY <1>2, <3>2
  <2> QED BY <2>2, <2>3
<1> QED BY <1>5

\* Sections with one counter are one section.
LEMMA OneSection ==
    ASSUME Ready, NEW i \in 1 .. Len(code), NEW q \in 1 .. Len(code),
           code[i].op = "section", code[q].op = "section", code[i].counter = code[q].counter
    PROVE  code[i] = code[q] /\ code[i + 1] = code[q + 1]
<1>1. Agree(code, code)
  BY DEF Ready, Inv, CodeInv, Sound
<1> QED BY <1>1 DEF Agree

\* One more has come by.
LEMMA PassedOne ==
    ASSUME Running, NEW t \in WorkItems, RunInside(t), NEW i \in 1 .. Len(code), ip[t] = i,
           code[i].op = "section", NEW g \in Groups, g = Group(t),
           NEW n, NEW path, NEW books, Course(g, n, path, books), Due(g, n, path, books)
    PROVE  /\ <<Lid(t), i>> \in books[n].come
           /\ \A p \in books[n].come :
                 ip'[<<g, p[1]>>] > p[2] <=> (ip[<<g, p[1]>>] > p[2] \/ p = <<Lid(t), i>>)
<1> DEFINE l == Lid(t)
           come == books[n].come
<1>1. Ready /\ Len(code) \in Nat /\ Moved(t) /\ t \in Members(g)
  BY ItemMoves, CodeFacts DEF Running, Members
<1>2. /\ code' = code /\ \A u \in WorkItems : u # t => ip'[u] = ip[u]
      /\ ip'[t] \in i + 1 .. Len(code) + 1
  BY <1>1 DEF Moved
<1>3. code[i].skip = 1 /\ i + 1 \in 1 .. Len(code) /\ code[i + 1].op = "result"
  BY <1>1, HomeAtSection
<1>4. ip'[t] = i + 1 \/ ip'[t] = i + 2
  BY <1>1, <1>3 DEF Moved
<1>5. <<l, i>> \in come
  BY <1>1 DEF Due, ComeDue
<1>6. ASSUME NEW p \in come
      PROVE  ip'[<<g, p[1]>>] > p[2] <=> (ip[<<g, p[1]>>] > p[2] \/ p = <<l, i>>)
  <2>1. /\ p = <<p[1], p[2]>> /\ p[1] \in Lids /\ p[2] \in 1 .. Len(code)
        /\ code[p[2]].op = "section"
    BY <1>1, <1>6, ComeFacts
  <2>2. CASE p[1] = l
    <3>1. <<g, p[1]>> = t
      BY <1>1, <2>2, MemberFacts
    <3>2. p = <<l, i>> <=> p[2] = i
      BY <2>1, <2>2
    <3>3. p[2] # i + 1
      BY <1>3, <2>1
    <3>4. ip'[t] > p[2] <=> (i > p[2] \/ p[2] = i)
      BY <1>4, <2>1, <3>3
    <3> QED BY <3>1, <3>2, <3>4
  <2>3. CASE p[1] # l
    <3>1. <<g, p[1]>> \in Members(g) /\ Lid(<<g, p[1]>>) = p[1]
      BY <2>1, MemberFacts
    <3>2. <<g, p[1]>> \in WorkItems /\ <<g, p[1]>> # t
      BY <2>3, <3>1, MemberFacts
    <3>3. p # <<l, i>>
      BY <2>1, <2>3
    <3> QED BY <1>2, <3>2, <3>3
  <2> QED BY <2>2, <2>3
<1> QED BY <1>5, <1>6

\* Every step keeps the counters.
LEMMA CountDueKept ==
    ASSUME Running, NEW t \in WorkItems, RunInside(t), NEW g \in Groups, g = Group(t),
           NEW n, NEW path, NEW books, Course(g, n, path, books), Due(g, n, path, books)
    PROVE  CountDue(g, books[n].come)'
<1>a. PICK i : i = ip[t]
  OBVIOUS
<1>b. PICK come : come = books[n].come
  OBVIOUS
<1>1. Ready /\ Len(code) \in Nat /\ Moved(t) /\ t \in Members(g) /\ <<g, 0>> \in Members(g)
  BY ItemMoves, CodeFacts, MemberFacts DEF Running, Members
<1>2. /\ code' = code /\ i \in 1 .. Len(code) /\ \A u \in WorkItems : u # t => ip'[u] = ip[u]
  BY <1>a, <1>1 DEF Moved
<1>3. counter \in [Spaces -> [Groups -> [Counters -> Nat]]]
  BY <1>1 DEF Ready, Inv, TypeInv
<1>4. ASSUME NEW q \in 1 .. Len(code), code[q].op = "section",
             NEW sp, sp = code[q].space, NEW c, c = code[q].counter, Initialised(g, sp)'
      PROVE  counter'[sp][g][c] = Cardinality(Passed(g, come, c)')
  <2>1. sp \in Spaces /\ c \in Counters
    BY <1>1, <1>4, AtSection DEF Ready
  <2>2. Initialised(g, sp) => counter[sp][g][c] = Cardinality(Passed(g, come, c))
    BY <1>b, <1>4 DEF Due, CountDue
  <2>3. CASE code[i].op = "section"
    <3>1. Initialised(g, sp)
      BY <1>1, <1>2, <2>1, <2>3, <1>a, Started DEF Ready
    <3>2. EnterSection(t)
      BY <2>3, <1>a, StepOf
    <3>3. /\ code[i].counter = c => Passed(g, come, c)' = Passed(g, come, c) \cup {<<Lid(t), i>>}
          /\ code[i].counter # c => Passed(g, come, c)' = Passed(g, come, c)
      <4>1. /\ <<Lid(t), i>> \in come
            /\ \A p \in come :
                  ip'[<<g, p[1]>>] > p[2] <=> (ip[<<g, p[1]>>] > p[2] \/ p = <<Lid(t), i>>)
        BY <1>a, <1>b, <1>2, <2>3, PassedOne
      <4>2. <<Lid(t), i>>[2] = i
        OBVIOUS
      <4>3. ASSUME NEW p
            PROVE  p \in Passed(g, come, c)' <=>
                     p \in Passed(g, come, c) \/ (code[i].counter = c /\ p = <<Lid(t), i>>)
        BY <1>2, <4>1, <4>2 DEF Passed
      <4> QED BY <4>3
    <3>4. CASE code[i].counter = c
      <4>1. code[i].space = sp
        BY <1>1, <1>2, <1>4, <2>3, <3>4, OneSection
      <4>2. counter'[sp][g][c] = counter[sp][g][c] + 1
        <5>1. counter' = [counter EXCEPT ![code[i].space][Group(t)][code[i].counter] = @ + 1]
          BY <1>a, <3>2 DEF EnterSection
        <5> QED BY <1>3, <2>1, <3>4, <4>1, <5>1
      <4>3. <<Lid(t), i>> \notin Passed(g, come, c)
        <5>1. <<g, Lid(t)>> = t /\ <<Lid(t), i>>[1] = Lid(t) /\ <<Lid(t), i>>[2] = i
          BY <1>1, MemberFacts
        <5>2. ~(i > i)
          BY <1>1, <1>2
        <5> QED BY <1>a, <5>1, <5>2 DEF Passed
      <4>4. IsFiniteSet(Passed(g, come, c))
        <5>1. Passed(g, come, c) \subseteq come
          BY DEF Passed
        <5>2. come \in SUBSET (Lids \X (Nat \ {0})) /\ \A p \in come : p[2] <= Len(code)
          <6>1. n \in 1 .. n
            BY <1>1, CourseFacts
          <6>2. books[n] \in Ledgers
            BY <1>1, <6>1, CourseFacts
          <6>3. \A p \in come : p[2] \in 1 .. Len(code)
            BY <1>1, <1>b, ComeFacts
          <6> QED BY <1>1, <6>2, <1>b, <6>3 DEF Ledgers
        <5>3. IsFiniteSet(come)
          BY <1>1, <5>2, FiniteCome
        <5> QED BY <5>1, <5>3, FS_Subset
      <4>5. Cardinality(Passed(g, come, c)') = Cardinality(Passed(g, come, c)) + 1
        <5>1. Passed(g, come, c)' = Passed(g, come, c) \cup {<<Lid(t), i>>}
          BY <3>3, <3>4
        <5> QED BY <4>3, <4>4, <5>1, FS_AddElement
      <4> QED BY <2>2, <3>1, <4>2, <4>5
    <3>5. CASE code[i].counter # c
      <4>1. counter'[sp][g][c] = counter[sp][g][c]
        <5>1. counter' = [counter EXCEPT ![code[i].space][Group(t)][code[i].counter] = @ + 1]
          BY <1>a, <3>2 DEF EnterSection
        <5> QED BY <1>3, <2>1, <3>5, <5>1
      <4>2. Passed(g, come, c)' = Passed(g, come, c)
        BY <3>3, <3>5
      <4> QED BY <2>2, <3>1, <4>1, <4>2
    <3> QED BY <3>4, <3>5
  <2>4. CASE code[i].op = "init" /\ Lid(t) = 0 /\ sp = "local"
    <3>1. InitBuffers(t)
      BY <2>4, <1>a, StepOf
    <3>2. counter'[sp][g][c] = 0
      BY <1>3, <2>1, <2>4, <3>1 DEF InitBuffers
    <3>3. \A u \in Members(g) : ip'[u] \in {1, 2}
      BY <2>4, <1>a, NobodyFurther
    <3>4. Passed(g, come, c)' = {}
      <4>1. ASSUME NEW p \in come PROVE ~(ip'[<<g, p[1]>>] > p[2])
        <5>1. p[1] \in Lids /\ p[2] \in 1 .. Len(code) /\ code[p[2]].op = "section"
          BY <1>1, <4>1, <1>b, ComeFacts
        <5>2. code[1].op = "init" /\ 1 \in 1 .. Len(code)
          BY <1>1, CodeFacts
        <5>3. p[2] >= 2
          BY <5>1, <5>2
        <5>4. ip'[<<g, p[1]>>] \in {1, 2}
          BY <3>3, <5>1, MemberFacts
        <5> QED BY <5>1, <5>3, <5>4
      <4> QED BY <4>1 DEF Passed
    <3> QED BY <3>2, <3>4, FS_EmptySet
  <2>5. CASE code[i].op # "section" /\ ~(code[i].op = "init" /\ Lid(t) = 0 /\ sp = "local")
    <3>1. Passed(g, come, c)' = Passed(g, come, c)
      <4>1. \A p \in come : ip'[<<g, p[1]>>] > p[2] <=> ip[<<g, p[1]>>] > p[2]
        BY <1>a, <1>b, <2>5, PassedKept
      <4> QED BY <1>2, <4>1 DEF Passed
    <3>2. counter'[sp][g] = counter[sp][g]
      <4>1. CASE code[i].op = "init"
        <5>1. InitBuffers(t)
          BY <4>1, <1>a, StepOf
        <5>2. Lid(t) # 0 \/ sp # "local"
          BY <2>5, <4>1
        <5> QED BY <1>3, <2>1, <5>1, <5>2 DEF InitBuffers, atomics
      <4>2. CASE code[i].op # "init"
        BY <2>5, <4>2, <1>a, StepOf
      <4> QED BY <4>1, <4>2
    <3>3. Initialised(g, sp)
      <4>1. Initialised(g, sp)'
        BY <1>2, <1>4 DEF Initialised
      <4>2. CASE t = <<g, 0>>
        <5>1. CASE code[i].op = "init"
          BY <1>1, <2>1, <2>5, <4>2, <5>1, MemberFacts DEF Initialised, Spaces
        <5>2. CASE code[i].op # "init"
          <6>1. i # 1
            BY <1>1, <1>2, <5>2, CodeFacts
          <6>2. i > 1
            BY <1>2, <6>1
          <6> QED BY <1>a, <4>2, <6>2 DEF Initialised
        <5> QED BY <5>1, <5>2
      <4>3. CASE t # <<g, 0>>
        <5>1. <<g, 0>> \in WorkItems
          BY <1>1, MemberFacts
        <5>2. ip'[<<g, 0>>] = ip[<<g, 0>>]
          BY <1>2, <4>3, <5>1
        <5> QED BY <4>1, <5>2 DEF Initialised
      <4> QED BY <4>2, <4>3
    <3> QED BY <2>2, <3>1, <3>2, <3>3
  <2> QED BY <2>3, <2>4, <2>5
<1> QED BY <1>b, <1>2, <1>4 DEF CountDue

\* The next place of a work-item is on the whole way too.
LEMMA PlacedNext ==
    ASSUME Running, NEW t \in WorkItems, RunInside(t), NEW g \in Groups, g = Group(t),
           NEW n, NEW path, NEW books, Course(g, n, path, books)
    PROVE  \E m \in 1 .. n : path[m].place = Home(ip'[t])
<1>1. Ready /\ Len(code) \in Nat /\ Moved(t) /\ t \in Members(g)
  BY ItemMoves, CodeFacts DEF Running, Members
<1>2. PICK k \in 1 .. n : path[k].place = Home(ip[t]) /\ InStep(t, path[k])
  BY <1>1, Placed
<1>3. IF Home(ip[t]) = ip[t] THEN Home(ip'[t]) = NextPlace(path[k])
      ELSE Home(ip'[t]) = Home(ip[t])
  BY <1>2, NextHome
<1>4. CASE Home(ip[t]) = ip[t]
  <2>1. ip[t] <= Len(code)
    BY <1>1 DEF Moved
  <2>2. k + 1 \in 1 .. n /\ path[k + 1].place = NextPlace(path[k])
    BY <1>1, <1>2, <1>4, <2>1, Onwards
  <2> QED BY <1>3, <1>4, <2>2
<1>5. CASE Home(ip[t]) # ip[t]
  BY <1>2, <1>3, <1>5
<1> QED BY <1>4, <1>5

\* Whoever comes to a section is expected there.
LEMMA ComeDueKept ==
    ASSUME Running, NEW t \in WorkItems, RunInside(t), NEW g \in Groups, g = Group(t),
           NEW n, NEW path, NEW books, Course(g, n, path, books), Due(g, n, path, books)
    PROVE  ComeDue(g, books[n].come)'
<1>1. Ready /\ Len(code) \in Nat /\ Moved(t) /\ t \in Members(g)
  BY ItemMoves, CodeFacts DEF Running, Members
<1>2. PICK i : i = ip[t]
  OBVIOUS
<1>3. PICK j : j = ip'[t]
  OBVIOUS
<1>4. /\ code' = code /\ i \in 1 .. Len(code) /\ \A u \in WorkItems : u # t => ip'[u] = ip[u]
      /\ j \in i + 1 .. Len(code) + 1
  BY <1>1, <1>2, <1>3 DEF Moved
<1>5. PICK come : come = books[n].come
  OBVIOUS
<1>6. ASSUME j <= Len(code), code[j].op = "section" PROVE <<Lid(t), j>> \in come
  <2>1. j \in 1 .. Len(code)
    BY <1>1, <1>4, <1>6
  <2>2. t = <<g, Lid(t)>> /\ Lid(t) \in Lids /\ GlobalId(t) = g * Size + Lid(t)
    BY <1>1, MemberFacts
  <2>3. CASE ~PassedBy(j)
    <3>1. Home(j) = j
      BY <1>1, <1>6, <2>1, <2>3 DEF Home
    <3>2. PICK m \in 1 .. n : path[m].place = Home(ip'[t])
      BY PlacedNext
    <3>3. path[m].place = j
      BY <1>3, <3>1, <3>2
    <3>4. path[m].place <= Len(code)
      BY <1>6, <3>3
    <3>5. Coming(g, path[m].place) \subseteq books[n].come
      BY <1>1, <3>4, ComesTo
    <3>6. Coming(g, j) = Lids \X {j}
      BY <1>6 DEF Coming
    <3>7. <<Lid(t), j>> \in Coming(g, j)
      BY <2>2, <3>6
    <3> QED BY <1>5, <3>3, <3>5, <3>7
  <2>4. CASE PassedBy(j)
    <3>1. j = i + 1
      BY <1>1, <1>2, <1>3, <1>6, <2>4, Landed
    <3>2. j - 1 = i
      BY <1>4, <3>1
    <3>3. Divided(i) /\ code[i].skip # 0
      BY <2>4, <3>2 DEF PassedBy
    <3>4. code[i].op = "branch" /\ code[i - 1].expr.source = "id"
      BY <3>3 DEF Divided
    <3>5. Home(i) = i
      BY <1>1, <1>4, <3>4 DEF Home, PassedBy
    <3>6. PICK k \in 1 .. n : path[k].place = Home(ip[t]) /\ InStep(t, path[k])
      BY <1>1, Placed
    <3>7. path[k].place = i /\ i <= Len(code)
      BY <1>2, <1>4, <3>5, <3>6
    <3>8. ItemDue(t, path[k], books[k])
      BY <1>1, <3>6 DEF Due
    <3>9. reg[t] = (GlobalId(t) + code[i - 1].expr.add) % Modulus
      BY <1>2, <3>4, <3>7, <3>8 DEF ItemDue
    <3>10. reg[t] # 0
      <4>1. Branch(t)
        BY <1>2, <3>4, StepOf
      <4>2. ip \in [WorkItems -> Nat \ {0}]
        BY <1>1 DEF Ready, Inv, TypeInv
      <4>3. j = i + 1 + IF reg[t] # 0 THEN 0 ELSE code[i].skip
        BY <1>2, <1>3, <4>1, <4>2 DEF Branch, Goto
      <4>4. code[i].skip \in Nat
        BY <1>1, <1>4, <3>4, CodeFacts, InstructionFields
      <4> QED BY <1>4, <3>1, <3>3, <4>3, <4>4
    <3>11. Lid(t) \in TakersAt(g, i)
      BY <2>2, <3>9, <3>10 DEF TakersAt
    <3>12. Coming(g, i) = TakersAt(g, i) \X {i + 1}
      BY <3>3, <3>4 DEF Coming
    <3>13. Coming(g, i) \subseteq books[n].come
      BY <1>1, <3>7, ComesTo
    <3>14. <<Lid(t), j>> \in Coming(g, i)
      BY <3>1, <3>11, <3>12
    <3> QED BY <1>5, <3>13, <3>14
  <2> QED BY <2>3, <2>4
<1>7. ASSUME NEW u \in Members(g), ip'[u] <= Len(code), code[ip'[u]].op = "section"
      PROVE  <<Lid(u), ip'[u]>> \in come
  <2>1. CASE u = t
    BY <1>3, <1>6, <1>7, <2>1
  <2>2. CASE u # t
    <3>1. u \in WorkItems
      BY <1>7, MemberFacts
    <3>2. ip'[u] = ip[u]
      BY <1>4, <2>2, <3>1
    <3> QED BY <1>5, <1>7, <3>2 DEF Due, ComeDue
  <2> QED BY <2>1, <2>2
<1>8. \A u \in Members(g) : Lid(u)' = Lid(u)
  BY DEF Lid
<1>9. Members(g)' = Members(g)
  BY DEF Members, Group, WorkItems, Groups, Lids
<1> QED BY <1>4, <1>5, <1>7, <1>8, <1>9 DEF ComeDue

\* The group of the work-item that steps keeps its due.
LEMMA GroupDue ==
    ASSUME Running, NEW t \in WorkItems, RunInside(t), NEW g \in Groups, g = Group(t),
           NEW n, NEW path, NEW books, Course(g, n, path, books), Due(g, n, path, books)
    PROVE  Due(g, n, path, books)'
<1>1. Ready /\ Moved(t)
  BY ItemMoves DEF Running
<1>2. \A i : Home(i)' = Home(i)
  BY <1>1, SameCode DEF Moved
<1>3. ASSUME NEW u \in Members(g), NEW k \in 1 .. n, path[k].place = Home(ip[u])'
      PROVE  ItemDue(u, path[k], books[k])'
  <2>1. path[k].place = Home(ip'[u])
    BY <1>2, <1>3, <1>1, SameCode DEF Moved
  <2>2. CASE u = t
    <3>1. path[k].place = Home(ip'[t])
      BY <2>1, <2>2
    <3>2. ItemDue(t, path[k], books[k])'
      BY <3>1, ItemDueKept
    <3> QED BY <2>2, <3>2
  <2>3. CASE u # t
    <3>1. u \in WorkItems
      BY <1>3, MemberFacts
    <3>2. ip'[u] = ip[u] /\ reg'[u] = reg[u] /\ v_collective'[u] = v_collective[u] /\ code' = code
      BY <1>1, <2>3, <3>1 DEF Moved
    <3>3. ItemDue(u, path[k], books[k])
      BY <1>3, <2>1, <3>2 DEF Due
    <3> QED BY <3>2, <3>3 DEF ItemDue, Lid, GlobalId, Group
  <2> QED BY <2>2, <2>3
<1>4. \A sp \in Spaces : Initialised(g, sp)' => RedDue(g, sp, n, path, books)'
  BY RedDueKept
<1>5. CountDue(g, books[n].come)'
  BY CountDueKept
<1>6. ComeDue(g, books[n].come)'
  BY ComeDueKept
<1> QED BY <1>3, <1>4, <1>5, <1>6 DEF Due, Members, Group, WorkItems, Groups, Lids

\* So do the other groups: the buffers of atomics are those of a group.
LEMMA OthersDue ==
    ASSUME Running, NEW t \in WorkItems, RunInside(t), NEW g \in Groups, g # Group(t),
           NEW n, NEW path, NEW books, Course(g, n, path, books), Due(g, n, path, books)
    PROVE  Due(g, n, path, books)'
<1>1. Ready /\ DataOK /\ Moved(t)
  BY ItemMoves DEF Running
<1>2. /\ reduction \in [Spaces -> [Groups -> UInt]]
      /\ counter \in [Spaces -> [Groups -> [Counters -> Nat]]]
  BY <1>1 DEF Ready, Inv, TypeInv, DataOK
<1>3. ASSUME NEW u \in Members(g)
      PROVE  ip'[u] = ip[u] /\ reg'[u] = reg[u] /\ v_collective'[u] = v_collective[u]
  <2>1. u \in WorkItems /\ u # t
    BY <1>3, MemberFacts
  <2> QED BY <1>1, <2>1 DEF Moved
<1>4. ASSUME NEW sp \in Spaces
      PROVE  reduction'[sp][g] = reduction[sp][g] /\ counter'[sp][g] = counter[sp][g]
  <2>1. CASE code[ip[t]].op = "atomic"
    <3>1. Reduce(t) /\ counter' = counter
      BY <2>1, StepOf
    <3> QED BY <1>2, <3>1 DEF Reduce
  <2>2. CASE code[ip[t]].op = "section"
    <3>1. EnterSection(t) /\ reduction' = reduction
      BY <2>2, StepOf
    <3>2. counter' = [counter EXCEPT ![code[ip[t]].space][Group(t)][code[ip[t]].counter] = @ + 1]
      BY <3>1 DEF EnterSection
    <3> QED BY <1>2, <3>1, <3>2
  <2>3. CASE code[ip[t]].op = "init"
    <3>1. InitBuffers(t)
      BY <2>3, StepOf
    <3>2. CASE Lid(t) = 0
      <4>1. /\ reduction' = [reduction EXCEPT !["local"][Group(t)] = 0]
            /\ counter' = [counter EXCEPT !["local"][Group(t)] = [c \in Counters |-> 0]]
        BY <3>1, <3>2 DEF InitBuffers
      <4> QED BY <1>2, <4>1
    <3>3. CASE Lid(t) # 0
      BY <3>1, <3>3 DEF InitBuffers, atomics
    <3> QED BY <3>2, <3>3
  <2>4. CASE code[ip[t]].op \notin {"atomic", "section", "init"}
    BY <2>4, StepOf
  <2> QED BY <2>1, <2>2, <2>3, <2>4
<1>5. code' = code
  BY <1>1 DEF Moved
<1> QED BY <1>1, <1>3, <1>4, <1>5, DueFrame

\* Every step of a work-item keeps what is due.
LEMMA ItemKeepsDue ==
    ASSUME Running, DueInv, NEW t \in WorkItems, RunInside(t)
    PROVE  DueInv'
<1>1. code' = code /\ phase' = "run" /\ phase = "run"
  BY ItemMoves DEF Moved, Running
<1>2. ASSUME NEW g \in Groups, NEW n, NEW path, NEW books, Course(g, n, path, books)'
      PROVE  Due(g, n, path, books)'
  <2>1. Course(g, n, path, books)
    BY <1>1, <1>2, SameCourse
  <2>2. Due(g, n, path, books)
    BY <1>1, <2>1 DEF DueInv
  <2>3. CASE g = Group(t)
    BY <2>1, <2>2, <2>3, GroupDue
  <2>4. CASE g # Group(t)
    BY <2>1, <2>2, <2>4, OthersDue
  <2> QED BY <2>3, <2>4
<1>3. Groups' = Groups
  BY DEF Groups
<1> QED BY <1>1, <1>2, <1>3 DEF DueInv

\* The work-items of a group pass a barrier at one place.
LEMMA BarrierPlace ==
    ASSUME Whole, NEW g \in Groups, PassBarrier(g),
           NEW n, NEW path, NEW books, Course(g, n, path, books)
    PROVE  \E i \in 1 .. Len(code), k \in 1 .. n :
              /\ code[i].op = "barrier" /\ i > 1 /\ \A u \in Members(g) : ip[u] = i /\ ip'[u] = i + 1
              /\ Home(i) = i /\ Home(i + 1) = i + 1
              /\ path[k].place = i /\ k + 1 \in 1 .. n /\ path[k + 1].place = i + 1
              /\ books[k + 1] = Book(g, path[k], books[k])
<1>1. Running /\ Ready /\ Len(code) \in Nat
  <2>1. phase = "run"
    BY MemberFacts DEF PassBarrier, At
  <2>2. Ready
    BY DEF Whole, Ready
  <2>3. Running
    BY <2>1, <2>2 DEF Whole, Running, WayInv
  <2> QED BY <2>2, <2>3, CodeFacts
<1>2. <<g, 0>> \in Members(g) /\ <<g, 0>> \in WorkItems
  BY MemberFacts
<1>3. PICK i : i = ip[<<g, 0>>]
  OBVIOUS
<1>4. \A u \in Members(g) : At(u, "barrier")
  BY DEF PassBarrier
<1>5. i \in 1 .. Len(code) /\ code[i].op = "barrier" /\ i > 1
  <2>1. i \in Nat \ {0} /\ i <= Len(code) /\ code[i].op = "barrier"
    BY <1>1, <1>2, <1>3, <1>4 DEF At, Ready, Inv, TypeInv
  <2>2. i \in 1 .. Len(code)
    BY <1>1, <2>1
  <2>3. i # 1
    BY <1>1, <2>1, <2>2, CodeFacts
  <2> QED BY <2>1, <2>2, <2>3
<1>6. \A u \in Members(g) : ip[u] = i
  BY <1>2, <1>3, <1>4, Converged DEF BarriersConverge
<1>7. \A u \in Members(g) : ip'[u] = i + 1
  BY <1>6, MemberFacts DEF PassBarrier
<1>8. Home(i) = i /\ Home(i + 1) = i + 1
  BY <1>1, <1>5, StraightOn
<1>9. PICK k \in 1 .. n : path[k].place = Home(ip[<<g, 0>>]) /\ InStep(<<g, 0>>, path[k])
  BY <1>1, <1>2, Placed
<1>10. path[k].place = i
  BY <1>3, <1>8, <1>9
<1>11. path[k].place <= Len(code)
  BY <1>5, <1>10
<1>12. /\ k + 1 \in 1 .. n /\ books[k + 1] = Book(g, path[k], books[k])
       /\ path[k + 1].place = NextPlace(path[k])
  BY <1>1, <1>11, Onwards
<1>13. NextPlace(path[k]) = i + 1
  <2>1. ~Skips(path[k])
    BY <1>5, <1>10 DEF Skips
  <2>2. i + 1 + 0 = i + 1
    BY <1>5
  <2> QED BY <1>8, <1>10, <2>1, <2>2 DEF NextPlace
<1> QED BY <1>5, <1>6, <1>7, <1>8, <1>10, <1>12, <1>13

\* A group that passes a barrier keeps its due: a reduction has all operands.
LEMMA BarrierDue ==
    ASSUME Whole, NEW g \in Groups, PassBarrier(g),
           NEW n, NEW path, NEW books, Course(g, n, path, books), Due(g, n, path, books)
    PROVE  Due(g, n, path, books)'
<1>1. Ready /\ Len(code) \in Nat
  <2>1. Ready
    BY DEF Whole, Ready
  <2> QED BY <2>1, CodeFacts
<1>2. /\ code' = code /\ reg' = reg /\ v_collective' = v_collective
      /\ reduction' = reduction /\ counter' = counter
  BY DEF PassBarrier, generator, private, atomics
<1>3. PICK i \in 1 .. Len(code), k \in 1 .. n :
         /\ code[i].op = "barrier" /\ i > 1 /\ \A u \in Members(g) : ip[u] = i /\ ip'[u] = i + 1
         /\ Home(i) = i /\ Home(i + 1) = i + 1
         /\ path[k].place = i /\ k + 1 \in 1 .. n /\ path[k + 1].place = i + 1
         /\ books[k + 1] = Book(g, path[k], books[k])
  BY BarrierPlace
<1>4. PICK m \in 1 .. n : m = k + 1
  BY <1>3
<1>5. PICK j : j = i + 1
  OBVIOUS
<1>6. /\ path[m].place = j /\ books[m] = Book(g, path[k], books[k])
      /\ \A u \in Members(g) : ip[u] = i /\ ip'[u] = j
      /\ Home(j) = j /\ Home(j)' = j
  <2>1. Home(j) = j
    BY <1>3, <1>5
  <2>2. Home(j)' = Home(j)
    BY <1>2, SameCode
  <2> QED BY <1>3, <1>4, <1>5, <2>1, <2>2
<1>7. \A q \in 1 .. n : path[q].place = j => q = m
  BY <1>1, <1>6, CourseFacts
<1>8. path[k] \in States /\ books[k] \in Ledgers
  BY <1>1, CourseFacts
<1>9. books[m].coll = books[k].coll
  BY <1>3, <1>6 DEF Book
<1>10. j <= Len(code) => code[j].op \notin {"atomic", "branch"} /\ ~Fires(j) /\ ~PassedBy(j)
  <2>1. ASSUME j <= Len(code)
        PROVE  code[j].op \notin {"atomic", "branch"} /\ ~Fires(j) /\ ~PassedBy(j)
    <3>1. j \in 1 .. Len(code) /\ j - 1 = i
      BY <1>3, <1>5, <2>1
    <3>2. LaidAt(code, j)
      BY <1>1, <3>1, CodeFacts
    <3>3. code[j].op \notin {"atomic", "branch"}
      BY <1>3, <3>1, <3>2 DEF LaidAt
    <3> QED BY <1>3, <3>1, <3>3 DEF Fires, PassedBy, Divided
  <2> QED BY <2>1
<1>11. ASSUME NEW u \in Members(g), NEW q \in 1 .. n, path[q].place = Home(ip[u])'
       PROVE  ItemDue(u, path[q], books[q])'
  <2>1. ip[u] = i /\ ip'[u] = j
    BY <1>6, <1>11
  <2>2. q = m
    BY <1>6, <1>7, <1>11, <2>1
  <2>3. ItemDue(u, path[k], books[k])
    BY <1>3, <1>11, <2>1 DEF Due
  <2> QED BY <1>2, <1>9, <1>10, <2>1, <2>2, <2>3 DEF ItemDue, Lid
<1>12. \A sp \in Spaces : Initialised(g, sp)
  BY <1>3, MemberFacts DEF Initialised
<1>13. ASSUME NEW sp \in Spaces PROVE RedDue(g, sp, n, path, books)'
  <2>1. \A u \in Members(g) : ~Waits(u, sp)'
    <3>1. ASSUME NEW u \in Members(g) PROVE ~Waits(u, sp)'
      <4>1. ip'[u] = j /\ (Fires(j)' <=> Fires(j))
        BY <1>2, <1>6, <3>1, SameCourse
      <4>2. Waits(u, sp)' => j <= Len(code) /\ Fires(j)'
        BY <1>2, <4>1 DEF Waits
      <4> QED BY <1>10, <4>1, <4>2
    <3> QED BY <3>1
  <2>2. RedDue(g, sp, n, path, books)
    BY <1>12 DEF Due
  <2>3. <<g, 0>> \in Members(g) /\ ip[<<g, 0>>] = i /\ path[k].place = Home(ip[<<g, 0>>])
    BY <1>3, MemberFacts
  <2>4. reduction[sp][g] = books[m].red[sp]
    <3>1. CASE Fires(i) /\ code[i - 1].space = sp
      <4>1. Waits(<<g, 0>>, sp)
        BY <1>3, <2>3, <3>1 DEF Waits
      <4>2. reduction[sp][g] = Combined(code[i - 1].fn, books[k].red[sp],
                                        OperandsAt(g, i, path[k].reg), Here(g, i))
        BY <2>2, <2>3, <4>1 DEF RedDue
      <4>3. Here(g, i) = Lids
        BY <1>6, MemberFacts DEF Here
      <4>4. books[k].red \in [Spaces -> UInt]
        BY <1>8 DEF Ledgers
      <4>5. books[m].red = [books[k].red EXCEPT ![code[i - 1].space] =
                              Combined(code[i - 1].fn, @, OperandsAt(g, i, path[k].reg), Lids)]
        BY <1>3, <1>6, <3>1 DEF Book
      <4> QED BY <3>1, <4>2, <4>3, <4>4, <4>5
    <3>2. CASE ~(Fires(i) /\ code[i - 1].space = sp)
      <4>1. \A u \in Members(g) : ~Waits(u, sp)
        BY <1>6, <3>2 DEF Waits
      <4>2. reduction[sp][g] = books[k].red[sp]
        BY <2>2, <2>3, <4>1 DEF RedDue
      <4>3. CASE ~Fires(i)
        BY <1>3, <1>6, <4>2, <4>3 DEF Book
      <4>4. CASE Fires(i) /\ code[i - 1].space # sp
        <5>1. books[k].red \in [Spaces -> UInt]
          BY <1>8 DEF Ledgers
        <5>2. books[m].red = [books[k].red EXCEPT ![code[i - 1].space] =
                                Combined(code[i - 1].fn, @, OperandsAt(g, i, path[k].reg), Lids)]
          BY <1>3, <1>6, <4>4 DEF Book
        <5> QED BY <4>2, <4>4, <5>1, <5>2
      <4> QED BY <3>2, <4>3, <4>4
    <3> QED BY <3>1, <3>2
  <2>5. ASSUME NEW u \in Members(g), NEW q \in 1 .. n, path[q].place = Home(ip[u])'
        PROVE  q = m
    <3>1. ip'[u] = j
      BY <1>6, <2>5
    <3> QED BY <1>6, <1>7, <2>5, <3>1
  <2> QED BY <1>2, <2>1, <2>4, <2>5 DEF RedDue
<1>14. CountDue(g, books[n].come)'
  <2>1. ASSUME NEW p \in books[n].come
        PROVE  ip'[<<g, p[1]>>] > p[2] <=> ip[<<g, p[1]>>] > p[2]
    <3>1. p[1] \in Lids /\ p[2] \in 1 .. Len(code) /\ code[p[2]].op = "section"
      BY <1>1, <2>1, ComeFacts
    <3>2. <<g, p[1]>> \in Members(g)
      BY <3>1, MemberFacts
    <3>3. ip[<<g, p[1]>>] = i /\ ip'[<<g, p[1]>>] = i + 1
      BY <1>3, <3>2
    <3>4. p[2] # i
      BY <1>3, <3>1
    <3> QED BY <1>3, <3>1, <3>3, <3>4
  <2>2. \A c : Passed(g, books[n].come, c)' = Passed(g, books[n].come, c)
    BY <1>2, <2>1 DEF Passed
  <2>3. \A q \in 1 .. Len(code) : code[q].op = "section" => code[q].space \in Spaces
    BY <1>1, AtSection DEF Ready
  <2> QED BY <1>2, <1>12, <2>2, <2>3 DEF CountDue, Due
<1>15. ComeDue(g, books[n].come)'
  <2>1. ASSUME NEW u \in Members(g), ip'[u] <= Len(code), code[ip'[u]].op = "section"
        PROVE  <<Lid(u), ip'[u]>> \in books[n].come
    <3>1. ip'[u] = j /\ Lid(u) \in Lids
      BY <1>6, <2>1, MemberFacts
    <3>2. path[m].place <= Len(code) /\ path[m].place = j
      BY <1>6, <2>1, <3>1
    <3>3. Coming(g, path[m].place) \subseteq books[n].come
      BY <1>1, <3>2, ComesTo
    <3>4. Coming(g, j) = Lids \X {j}
      BY <2>1, <3>1 DEF Coming
    <3>5. <<Lid(u), j>> \in Coming(g, j)
      BY <3>1, <3>4
    <3> QED BY <3>1, <3>2, <3>3, <3>5
  <2> QED BY <1>2, <2>1 DEF ComeDue, Lid, Members, WorkItems, Group, Groups, Lids
<1> QED BY <1>11, <1>13, <1>14, <1>15 DEF Due, Members, WorkItems, Group, Groups, Lids

\* The others keep theirs, and so every step over a barrier keeps what is due.
LEMMA BarrierKeepsDue ==
    ASSUME Whole, DueInv, NEW g \in Groups, PassBarrier(g)
    PROVE  DueInv'
<1>1. /\ code' = code /\ reg' = reg /\ v_collective' = v_collective /\ phase' = phase
      /\ reduction' = reduction /\ counter' = counter
  BY DEF PassBarrier, generator, private, atomics
<1>2. phase = "run"
  BY MemberFacts DEF PassBarrier, At
<1>3. Ready
  BY DEF Whole, Ready
<1>4. ASSUME NEW h \in Groups, NEW n, NEW path, NEW books, Course(h, n, path, books)'
      PROVE  Due(h, n, path, books)'
  <2>1. Course(h, n, path, books)
    BY <1>1, <1>4, SameCourse
  <2>2. Due(h, n, path, books)
    BY <1>2, <2>1 DEF DueInv
  <2>3. CASE h = g
    BY <2>1, <2>2, <2>3, BarrierDue
  <2>4. CASE h # g
    <3>1. \A u \in Members(h) : ip'[u] = ip[u]
      <4>1. \A u \in Members(h) : u \in WorkItems /\ Group(u) = h
        BY MemberFacts
      <4>2. ip \in [WorkItems -> Nat \ {0}]
        BY <1>3 DEF Ready, Inv, TypeInv
      <4> QED BY <2>4, <4>1, <4>2 DEF PassBarrier
    <3> QED BY <1>1, <1>3, <2>1, <2>2, <3>1, DueFrame
  <2> QED BY <2>3, <2>4
<1>5. Groups' = Groups
  BY DEF Groups
<1> QED BY <1>1, <1>2, <1>4, <1>5 DEF DueInv

\* While the kernel runs its groups are on their ways.
LEMMA WholeRuns ==
    ASSUME Whole, phase = "run"
    PROVE  Running
BY DEF Whole, WayInv, Running, Ready

\* Who steps runs.
LEMMA ItemRuns ==
    ASSUME NEW t, RunInside(t)
    PROVE  phase = "run"
BY DEF RunInside, At, InitBuffers, Evaluate, Store, Branch, Permute, Reduce, Collect, EnterSection,
       LeaveSection, TestGate, TakeInside, GiveInside, ShutGate, Hash

\* Every step keeps what is due.
LEMMA NextDue ==
    ASSUME Whole, DueInv, [Next]_vars
    PROVE  DueInv'
<1>1. CASE UNCHANGED vars
  <2>1. /\ code' = code /\ phase' = phase /\ ip' = ip /\ reg' = reg
        /\ v_collective' = v_collective /\ reduction' = reduction /\ counter' = counter
    BY <1>1 DEF vars, generator, private, atomics
  <2>2. Ready
    BY DEF Whole, Ready
  <2>3. ASSUME phase = "run", NEW g \in Groups, NEW n, NEW path, NEW books,
               Course(g, n, path, books)'
        PROVE  Due(g, n, path, books)'
    <3>1. Course(g, n, path, books)
      BY <2>1, <2>3, SameCourse
    <3>2. Due(g, n, path, books)
      BY <2>3, <3>1 DEF DueInv
    <3> QED BY <2>1, <2>2, <3>1, <3>2, DueFrame
  <2>4. Groups' = Groups /\ WorkItems' = WorkItems
    BY DEF Groups, WorkItems, Lids
  <2> QED BY <2>1, <2>3, <2>4 DEF DueInv
<1>2. CASE \E s \in Statements : AddStatement(s)
  <2>1. phase = "generate" /\ phase' = phase /\ v_collective' = v_collective /\ reduction' = reduction
    BY <1>2 DEF AddStatement, private, atomics
  <2> QED BY <2>1 DEF DueInv, Groups, WorkItems, Lids
<1>3. CASE Launch
  BY <1>3, LaunchDue
<1>4. ASSUME NEW t \in WorkItems, RunInside(t) PROVE DueInv'
  <2>1. Running
    BY <1>4, WholeRuns, ItemRuns
  <2> QED BY <1>4, <2>1, ItemKeepsDue
<1>5. ASSUME NEW g \in Groups, PassBarrier(g) PROVE DueInv'
  BY <1>5, BarrierKeepsDue
<1>6. CASE Rest
  BY <1>1, <1>6 DEF Rest
<1>7. \A t \in WorkItems : ~TakeBeyond(t) /\ ~GiveBeyond(t)
  BY NobodyBeyond DEF Whole
<1> QED BY <1>1, <1>2, <1>3, <1>4, <1>5, <1>6, <1>7, NextCases

-----------------------------------------------------------------------------
(* Special values that no section writes                                   *)

\* There is a section of the space sp with the counter c.
InUse(sp, c) ==
    \E i \in 1 .. Len(code) :
        code[i].op = "section" /\ code[i].space = sp /\ code[i].counter = c

\* The other special values stay as they were initialised.
SparesInv ==
    \A g \in Groups, sp \in Spaces, c \in Counters :
        Initialised(g, sp) /\ ~InUse(sp, c) => special[sp][g][c] = 0

\* Before the launch no special value has been written.
LEMMA GenerateSpares ==
    ASSUME Inv, phase = "generate", ip' = ip, special' = special
    PROVE  SparesInv'
<1>1. /\ \A t \in WorkItems : ip[t] = 1
      /\ \A g \in Groups, c \in Counters : special["global"][g][c] = 0
  BY DEF Inv, GenerateInv
<1>2. ASSUME NEW g \in Groups, NEW sp \in Spaces, NEW c \in Counters, Initialised(g, sp)'
      PROVE  special'[sp][g][c] = 0
  <2>1. <<g, 0>> \in WorkItems
    BY MemberFacts
  <2>2. sp = "global"
    BY <1>1, <1>2, <2>1 DEF Initialised
  <2> QED BY <1>1, <2>2
<1> QED BY <1>2 DEF SparesInv, Groups, Counters

\* A work-item leaves its result where its section is.
LEMMA LeavesInUse ==
    ASSUME Ready, NEW t \in WorkItems, LeaveSection(t)
    PROVE  /\ InUse(code[ip[t]].space, code[ip[t]].counter)
           /\ code[ip[t]].space \in Spaces /\ code[ip[t]].counter \in Counters
<1>1. PICK i : i = ip[t]
  OBVIOUS
<1>2. i \in 1 .. Len(code) /\ code[i].op = "result"
  BY <1>1, CodeFacts DEF LeaveSection, At, Ready, Inv, TypeInv
<1>3. ShapeAt(code, i)
  BY <1>2, CodeFacts
<1>4. i > 1 /\ code[i - 1].op = "section"
  BY <1>2, <1>3 DEF ShapeAt
<1>5. PICK j \in 1 .. Len(code) : j = i - 1
  BY <1>2, <1>4
<1>6. j + 1 = i /\ code[j].op = "section"
  BY <1>2, <1>4, <1>5
<1>7. /\ code[j].space \in Spaces /\ code[j].counter \in Counters
      /\ code[i].space = code[j].space /\ code[i].counter = code[j].counter
  BY <1>5, <1>6, AtSection DEF Ready
<1> QED BY <1>1, <1>5, <1>6, <1>7 DEF InUse

\* Every step leaves the spares alone.
LEMMA NextSpares ==
    ASSUME Whole, SparesInv, [Next]_vars
    PROVE  SparesInv'
<1>1. Ready /\ ip \in [WorkItems -> Nat \ {0}] /\ special \in [Spaces -> [Groups -> [Counters -> Nat]]]
  BY DEF Whole, Ready, Inv, TypeInv
<1>2. ASSUME code' = code, special' = special, \A g \in Groups : ip'[<<g, 0>>] > 1 => ip[<<g, 0>>] > 1
      PROVE  SparesInv'
  BY <1>2 DEF SparesInv, Initialised, InUse, Groups, Counters
<1>3. CASE UNCHANGED vars
  BY <1>2, <1>3 DEF vars, generator, atomics
<1>4. CASE \E s \in Statements : AddStatement(s)
  <2>1. phase = "generate" /\ ip' = ip /\ special' = special /\ Inv
    BY <1>4 DEF AddStatement, atomics, Whole
  <2> QED BY <2>1, GenerateSpares
<1>5. CASE Launch
  <2>1. phase = "generate" /\ ip' = ip /\ special' = special /\ Inv
    BY <1>5 DEF Launch, atomics, Whole
  <2> QED BY <2>1, GenerateSpares
<1>6. ASSUME NEW t \in WorkItems, RunInside(t) PROVE SparesInv'
  <2>1. Moved(t) /\ Running
    BY <1>6, WholeRuns, ItemRuns, ItemMoves
  <2>2. code' = code /\ ip[t] \in 1 .. Len(code) /\ \A u \in WorkItems : u # t => ip'[u] = ip[u]
    BY <2>1 DEF Moved
  <2>3. CASE code[ip[t]].op = "init"
    <3>1. InitBuffers(t)
      BY <1>6, <2>3, StepOf
    <3>2. ASSUME NEW g \in Groups, NEW sp \in Spaces, NEW c \in Counters,
                 Initialised(g, sp)', ~InUse(sp, c)'
          PROVE  special'[sp][g][c] = 0
      <4>1. ~InUse(sp, c)
        BY <2>2, <3>2 DEF InUse
      <4>2. <<g, 0>> \in WorkItems /\ Group(<<g, 0>>) = g /\ Lid(<<g, 0>>) = 0
        BY MemberFacts
      <4>3. CASE t = <<g, 0>> /\ sp = "local"
        <5>1. special' = [special EXCEPT !["local"][Group(t)] = [d \in Counters |-> 0]]
          BY <3>1, <4>2, <4>3 DEF InitBuffers
        <5>2. Group(t) = g
          BY <4>2, <4>3
        <5> QED BY <1>1, <4>3, <5>1, <5>2
      <4>4. CASE ~(t = <<g, 0>> /\ sp = "local")
        <5>1. Initialised(g, sp)
          BY <2>2, <3>2, <4>2, <4>4 DEF Initialised, Spaces
        <5>2. special'[sp][g] = special[sp][g]
          <6>1. CASE Lid(t) # 0
            BY <3>1, <6>1 DEF InitBuffers, atomics
          <6>2. CASE Lid(t) = 0
            <7>1. special' = [special EXCEPT !["local"][Group(t)] = [d \in Counters |-> 0]]
              BY <3>1, <6>2 DEF InitBuffers
            <7>2. t = <<Group(t), 0>>
              BY <6>2 DEF WorkItems, Group, Lid
            <7>3. sp # "local" \/ Group(t) # g
              BY <4>4, <7>2
            <7> QED BY <1>1, <7>1, <7>3
          <6> QED BY <6>1, <6>2
        <5> QED BY <4>1, <5>1, <5>2 DEF SparesInv
      <4> QED BY <4>3, <4>4
    <3> QED BY <3>2 DEF SparesInv, Groups, Counters
  <2>4. CASE code[ip[t]].op # "init"
    <3>1. ip[t] > 1
      <4>1. ip[t] # 1
        BY <1>1, <2>2, <2>4, CodeFacts
      <4> QED BY <2>2, <4>1
    <3>2. \A g \in Groups : ip'[<<g, 0>>] > 1 => ip[<<g, 0>>] > 1
      <4>1. ASSUME NEW g \in Groups, ip'[<<g, 0>>] > 1 PROVE ip[<<g, 0>>] > 1
        <5>1. <<g, 0>> \in WorkItems
          BY MemberFacts
        <5> QED BY <2>2, <3>1, <4>1, <5>1
      <4> QED BY <4>1
    <3>3. CASE code[ip[t]].op = "result"
      <4>1. LeaveSection(t)
        BY <1>6, <3>3, StepOf
      <4>2. /\ InUse(code[ip[t]].space, code[ip[t]].counter)
            /\ code[ip[t]].space \in Spaces /\ code[ip[t]].counter \in Counters
        BY <1>1, <4>1, LeavesInUse
      <4>3. special' = [special EXCEPT ![code[ip[t]].space][Group(t)][code[ip[t]].counter]
                                         = (@ + code[ip[t]].add) % Modulus]
        BY <4>1 DEF LeaveSection
      <4>4. ASSUME NEW g \in Groups, NEW sp \in Spaces, NEW c \in Counters,
                   Initialised(g, sp)', ~InUse(sp, c)'
            PROVE  special'[sp][g][c] = 0
        <5>1. ~InUse(sp, c)
          BY <2>2, <4>4 DEF InUse
        <5>2. sp # code[ip[t]].space \/ c # code[ip[t]].counter
          BY <4>2, <5>1
        <5>3. special'[sp][g][c] = special[sp][g][c]
          BY <1>1, <4>3, <5>2
        <5>4. Initialised(g, sp)
          BY <3>2, <4>4 DEF Initialised
        <5> QED BY <5>1, <5>3, <5>4 DEF SparesInv
      <4> QED BY <4>4 DEF SparesInv, Groups, Counters
    <3>4. CASE code[ip[t]].op # "result"
      <4>1. special' = special
        BY <1>6, <2>4, <3>4, StepOf
      <4> QED BY <1>2, <2>2, <3>2, <4>1
    <3> QED BY <3>3, <3>4
  <2> QED BY <2>3, <2>4
<1>7. ASSUME NEW h \in Groups, PassBarrier(h) PROVE SparesInv'
  <2>1. code' = code /\ special' = special
    BY <1>7 DEF PassBarrier, generator, atomics
  <2>2. ASSUME NEW g \in Groups, ip'[<<g, 0>>] > 1 PROVE ip[<<g, 0>>] > 1
    <3>1. <<g, 0>> \in WorkItems /\ Group(<<g, 0>>) = g /\ <<g, 0>> \in Members(g)
      BY MemberFacts
    <3>2. CASE g = h
      <4>1. At(<<g, 0>>, "barrier")
        BY <1>7, <3>1, <3>2 DEF PassBarrier
      <4>2. ip[<<g, 0>>] \in 1 .. Len(code) /\ code[ip[<<g, 0>>]].op = "barrier"
        BY <1>1, <3>1, <4>1, CodeFacts DEF At
      <4>3. ip[<<g, 0>>] # 1
        BY <1>1, <4>2, CodeFacts
      <4> QED BY <4>2, <4>3
    <3>3. CASE g # h
      <4>1. ip'[<<g, 0>>] = ip[<<g, 0>>]
        BY <1>7, <3>1, <3>3 DEF PassBarrier
      <4> QED BY <2>2, <4>1
    <3> QED BY <3>2, <3>3
  <2> QED BY <1>2, <2>1, <2>2
<1>8. CASE Rest
  BY <1>3, <1>8 DEF Rest
<1>9. \A t \in WorkItems : ~TakeBeyond(t) /\ ~GiveBeyond(t)
  BY NobodyBeyond DEF Whole
<1> QED BY <1>3, <1>4, <1>5, <1>6, <1>7, <1>8, <1>9, NextCases

\* Initially nothing has been written.
LEMMA InitSpares == Init => SparesInv
<1>1. ASSUME Init, NEW g \in Groups, NEW sp \in Spaces, NEW c \in Counters, Initialised(g, sp)
      PROVE  special[sp][g][c] = 0
  <2>1. <<g, 0>> \in WorkItems
    BY MemberFacts
  <2>2. ip[<<g, 0>>] = 1
    BY <1>1, <2>1 DEF Init
  <2>3. sp = "global"
    BY <1>1, <2>2 DEF Initialised
  <2> QED BY <1>1, <2>3 DEF Init
<1> QED BY <1>1 DEF SparesInv

-----------------------------------------------------------------------------
(* The end of the kernel                                                   *)

\* There is a whole way to the end.
LEMMA CourseExists ==
    ASSUME Ready, prog \in Seq(Statement), LayoutInv, phase = "run", NEW g \in Groups
    PROVE  \E n, path, books : Course(g, n, path, books)
<1>1. PICK z \in Nat : EpilogueAt(z) /\ \A k \in 1 .. 8 : Reaches(g, z + k, MeantAfter(g))
  BY EndReached
<1>2. Reaches(g, z + 8, MeantAfter(g))
  BY <1>1
<1>3. PICK s \in States, l \in Ledgers : Visits(g, s, l) /\ s.place = z + 8
  BY <1>2 DEF Reaches
<1>4. z + 8 = Len(code) + 1
  BY <1>1 DEF EpilogueAt
<1> QED BY <1>3, <1>4 DEF Visits, Course

\* The kernel is as far as its epilogue.
Ending(z) ==
    /\ Whole /\ LayoutInv /\ DueInv /\ SparesInv /\ phase = "run"
    /\ z \in Nat /\ EpilogueAt(z)

LEMMA EndingFacts ==
    ASSUME NEW z, Ending(z)
    PROVE  /\ Running /\ Ready /\ prog \in Seq(Statement) /\ LayoutInv /\ phase = "run"
           /\ Len(code) \in Nat /\ z \in Nat /\ EpilogueAt(z) /\ Len(code) = z + 7
           /\ GatedBarriersFit
<1>1. Running /\ Ready /\ GatedBarriersFit
  BY WholeRuns DEF Ending, Running, Whole
<1> QED BY <1>1, CodeFacts DEF Ending, EpilogueAt, Running, DataOK

\* Along the epilogue the way has what the kernel means.
LEMMA EndOnCourse ==
    ASSUME NEW z, Ending(z), NEW g \in Groups,
           NEW n, NEW path, NEW books, Course(g, n, path, books), NEW k \in 1 .. 8
    PROVE  \E q \in 1 .. n : path[q].place = z + k /\ Agrees(MeantAfter(g), path[q], books[q])
<1>1. PICK y \in Nat : EpilogueAt(y) /\ \A j \in 1 .. 8 : Reaches(g, y + j, MeantAfter(g))
  BY EndingFacts, EndReached
<1>2. y = z
  BY <1>1, EndingFacts DEF EpilogueAt
<1>3. Reaches(g, z + k, MeantAfter(g))
  BY <1>1, <1>2
<1>4. PICK s \in States, l \in Ledgers :
         Visits(g, s, l) /\ s.place = z + k /\ Agrees(MeantAfter(g), s, l)
  BY <1>3 DEF Reaches
<1>5. PICK q \in 1 .. n : path[q] = s /\ books[q] = l
  BY <1>4, EndingFacts, VisitsOnCourse
<1> QED BY <1>4, <1>5

\* What is no longer at a section or in one, but behind the statements.
LEMMA EndOps ==
    ASSUME NEW z, Ending(z), NEW i \in 1 .. Len(code), i > z
    PROVE  code[i].op \in {"barrier", "hash"}
<1>1. z \in Nat /\ EpilogueAt(z) /\ Len(code) = z + 7
  BY EndingFacts
<1>2. \/ i = z + 1 \/ i = z + 2 \/ i = z + 3 \/ i = z + 4 \/ i = z + 5 \/ i = z + 6 \/ i = z + 7
  BY <1>1
<1> QED BY <1>1, <1>2 DEF EpilogueAt

\* While a work-item is behind a barrier of the epilogue so is all of its group.
LEMMA AllBehind ==
    ASSUME NEW z, Ending(z), NEW g \in Groups, NEW n, NEW path, NEW books,
           Course(g, n, path, books), NEW d \in {3, 5}, NEW t \in Members(g), ip[t] > z + d,
           NEW u \in Members(g)
    PROVE  ip[u] > z + d /\ \E k \in 1 .. n : path[k].place = Home(ip[u]) /\ InStep(u, path[k])
                                               /\ path[k].place > z + d
<1>1. /\ Running /\ Ready /\ prog \in Seq(Statement) /\ LayoutInv /\ phase = "run"
      /\ Len(code) \in Nat /\ z \in Nat /\ EpilogueAt(z) /\ Len(code) = z + 7
  BY EndingFacts
<1>2. PICK at \in [Members(g) -> 1 .. n] :
         Way(g, n, path, at) /\ \A v \in Members(g) : Home(ip[v]) = path[at[v]].place
  BY <1>1, OnCourse
<1>3. PICK b : b = z + d
  OBVIOUS
<1>4. b \in 1 .. Len(code) /\ b > z + 1 /\ code[b].op = "barrier" /\ code[b - 1].op = "hash" /\ b - 1 \in 1 .. Len(code)
  <2>1. CASE d = 3
    <3>1. b = z + 3 /\ b - 1 = z + 2
      BY <1>1, <1>3, <2>1
    <3> QED BY <1>1, <3>1 DEF EpilogueAt
  <2>2. CASE d = 5
    <3>1. b = z + 5 /\ b - 1 = z + 4
      BY <1>1, <1>3, <2>2
    <3> QED BY <1>1, <3>1 DEF EpilogueAt
  <2> QED BY <2>1, <2>2
<1>5. PICK q \in 1 .. n : path[q].place = b
  <2>1. d \in 1 .. 8
    OBVIOUS
  <2>2. \E q \in 1 .. n : path[q].place = z + d /\ Agrees(MeantAfter(g), path[q], books[q])
    BY <2>1, EndOnCourse
  <2> QED BY <1>3, <2>2
<1>6. /\ n \in Nat \ {0} /\ TraceOK(g, n, path)
      /\ \A k \in 1 .. n : path[k] \in States /\ path[k].place \in 1 .. Len(code) + 1
      /\ \A k, m \in 1 .. n : path[k].place < path[m].place => k < m
  BY <1>1, CourseFacts
<1>7. \A v \in WorkItems : ip[v] \in Nat \ {0}
  BY <1>1 DEF Ready, Inv, TypeInv
<1>8. t \in WorkItems /\ u \in WorkItems /\ at[t] \in 1 .. n /\ at[u] \in 1 .. n
  BY <1>2, MemberFacts
<1>9. ip[t] <= Home(ip[t])
  <2>1. CASE ip[t] > Len(code)
    BY <1>7, <1>8, <2>1 DEF Home
  <2>2. CASE ip[t] <= Len(code)
    <3>1. ip[t] \in 1 .. Len(code) + 1
      BY <1>1, <1>7, <1>8, <2>2
    <3> QED BY <1>1, <1>7, <1>8, <3>1, HomeFacts
  <2> QED BY <1>1, <1>7, <1>8, <2>1, <2>2
<1>10. path[at[t]].place > b
  BY <1>1, <1>2, <1>3, <1>4, <1>6, <1>7, <1>8, <1>9
<1>11. q < at[t]
  BY <1>5, <1>6, <1>8, <1>10
<1>12. path[at[t]].bar >= b
  BY <1>4, <1>5, <1>6, <1>8, <1>11 DEF TraceOK
<1>13. path[at[u]].bar = path[at[t]].bar
  BY <1>2 DEF Way
<1>14. path[at[u]].place > b
  <2>1. path[at[u]].bar < path[at[u]].place
    BY <1>6, <1>8 DEF TraceOK
  <2>2. path[at[u]].bar \in Nat /\ path[at[u]].place \in Nat
    BY <1>6, <1>8 DEF States
  <2> QED BY <1>4, <1>12, <1>13, <2>1, <2>2
<1>15. Home(ip[u]) > b
  BY <1>2, <1>14
<1>16. ip[u] > b
  <2>1. CASE ip[u] > Len(code)
    BY <1>1, <1>4, <1>7, <1>8, <2>1
  <2>2. CASE ip[u] <= Len(code)
    <3>1. PICK i \in 1 .. Len(code) : i = ip[u]
      BY <1>1, <1>7, <1>8, <2>2
    <3>2. CASE code[i].op = "result"
      <4>1. Home(i) = i + 1
        BY <1>1, <3>2, HomeBehindResult
      <4>2. i # b
        BY <1>4, <3>2
      <4> QED BY <1>4, <1>15, <3>1, <4>1, <4>2
    <3>3. CASE PassedBy(i)
      <4>1. code[i].op = "section" /\ i # b /\ i # b - 1
        BY <1>4, <3>3 DEF PassedBy
      <4>2. Home(i) = i + 2
        BY <3>1, <3>3, <4>1, <1>1 DEF Home
      <4> QED BY <1>4, <1>15, <3>1, <4>1, <4>2
    <3>4. CASE code[i].op # "result" /\ ~PassedBy(i)
      <4>1. Home(i) = i
        BY <1>1, <3>4 DEF Home
      <4> QED BY <1>15, <3>1, <4>1
    <3> QED BY <3>2, <3>3, <3>4
  <2> QED BY <1>1, <1>7, <1>8, <2>1, <2>2
<1>17. InStep(u, path[at[u]])
  BY <1>2 DEF Way
<1> QED BY <1>2, <1>3, <1>8, <1>14, <1>16, <1>17

\* Behind the statements everyone who comes to a section has come by.
LEMMA AllPassed ==
    ASSUME NEW z, Ending(z), NEW g \in Groups, NEW n, NEW path, NEW books,
           Course(g, n, path, books), \A u \in Members(g) : ip[u] > z, NEW c
    PROVE  Passed(g, books[n].come, c) = Comers(books[n].come, c)
<1>1. Ready /\ z \in Nat /\ Len(code) \in Nat
  BY EndingFacts
<1>2. ASSUME NEW p \in books[n].come PROVE ip[<<g, p[1]>>] > p[2]
  <2>1. p[1] \in Lids /\ p[2] \in 1 .. Len(code) /\ code[p[2]].op = "section"
    BY <1>1, ComeFacts
  <2>2. ~(p[2] > z)
    BY <2>1, EndOps
  <2>3. <<g, p[1]>> \in Members(g)
    BY <2>1, MemberFacts
  <2>4. <<g, p[1]>> \in WorkItems
    BY <2>3, MemberFacts
  <2>5. ip[<<g, p[1]>>] \in Nat
    BY <1>1, <2>4 DEF Ready, Inv, TypeInv
  <2>6. ip[<<g, p[1]>>] > z
    BY <2>3
  <2> QED BY <1>1, <2>1, <2>2, <2>5, <2>6
<1> QED BY <1>2 DEF Passed, Comers

\* Behind the statements the special values are those of the sections.
LEMMA SpecialsMeant ==
    ASSUME NEW z, Ending(z), NEW g \in Groups, \A u \in Members(g) : ip[u] > z + 1,
           NEW sp \in Spaces
    PROVE  special[sp][g] = MeantAfter(g).special[sp]
<1>1. /\ Running /\ Ready /\ prog \in Seq(Statement) /\ LayoutInv /\ phase = "run"
      /\ Len(code) \in Nat /\ z \in Nat /\ EpilogueAt(z) /\ Len(code) = z + 7
  BY EndingFacts
<1>2. PICK m : m = MeantAfter(g)
  OBVIOUS
<1>3. PICK n, path, books : Course(g, n, path, books)
  BY <1>1, CourseExists
<1>4. Due(g, n, path, books)
  BY <1>1, <1>3 DEF Ending, DueInv
<1>5. Agrees(m, path[n], books[n])
  <2>1. PICK q \in 1 .. n : path[q].place = z + 8 /\ Agrees(MeantAfter(g), path[q], books[q])
    <3>1. 8 \in 1 .. 8
      OBVIOUS
    <3> QED BY <1>3, <3>1, EndOnCourse
  <2>2. n \in 1 .. n /\ path[n].place = Len(code) + 1
    BY <1>3 DEF Course
  <2>3. path[q].place = path[n].place
    BY <1>1, <2>1, <2>2
  <2>4. q = n
    BY <1>1, <1>3, <2>2, <2>3, CourseFacts
  <2> QED BY <1>2, <2>1, <2>4
<1>6. m \in Meanings /\ SpecialsDue(m)
      /\ \A c \in Counters : m.counter[c] = Cardinality(Comers(books[n].come, c))
  BY <1>5 DEF Agrees
<1>7. \A u \in Members(g) : u \in WorkItems /\ ip[u] \in Nat /\ ip[u] > z /\ ip[u] > 1
  <2>1. ASSUME NEW u \in Members(g) PROVE u \in WorkItems /\ ip[u] \in Nat /\ ip[u] > z /\ ip[u] > 1
    <3>1. u \in WorkItems
      BY <2>1, MemberFacts
    <3>2. ip[u] \in Nat
      BY <1>1, <3>1 DEF Ready, Inv, TypeInv
    <3>3. ip[u] > z + 1
      BY <2>1
    <3> QED BY <1>1, <3>1, <3>2, <3>3
  <2> QED BY <2>1
<1>8. Initialised(g, sp)
  BY <1>7, MemberFacts DEF Initialised
<1>9. \A c : Inside(g, sp, c) = {}
  <2>1. ASSUME NEW c, NEW u \in Members(g), <<u, sp, c>> \in entered PROVE FALSE
    <3>1. EnteredInv
      BY <1>1 DEF Ready, Inv
    <3>2. u \in WorkItems /\ c \in Counters
      BY <2>1, <3>1 DEF EnteredInv
    <3>3. At(u, "result")
      BY <2>1, <3>1, <3>2 DEF EnteredInv, AtResult
    <3>4. ip[u] \in 1 .. Len(code) /\ ip[u] > z /\ code[ip[u]].op = "result"
      BY <1>1, <1>7, <2>1, <3>3 DEF At
    <3>5. code[ip[u]].op \in {"barrier", "hash"}
      BY <3>4, EndOps
    <3> QED BY <3>4, <3>5
  <2> QED BY <2>1 DEF Inside
<1>10. ASSUME NEW c \in Counters PROVE special[sp][g][c] = m.special[sp][c]
  <2>1. CASE InUse(sp, c)
    <3>1. PICK i \in 1 .. Len(code) :
             code[i].op = "section" /\ code[i].space = sp /\ code[i].counter = c
      BY <2>1 DEF InUse
    <3>2. counter[sp][g][c] = Cardinality(Passed(g, books[n].come, c))
      BY <1>4, <1>8, <3>1 DEF Due, CountDue
    <3>3. counter[sp][g][c] = m.counter[c]
      <4>1. Passed(g, books[n].come, c) = Comers(books[n].come, c)
        BY <1>3, <1>7, AllPassed
      <4> QED BY <1>6, <3>2, <4>1
    <3>4. SectionRun(g, code[i], code[i + 1].add)
      BY <1>1, <1>8, <3>1, EndingFacts DEF Ready, Inv, SectionsInv
    <3>5. /\ counter[sp][g][c] <= code[i].at => special[sp][g][c] = 0
          /\ counter[sp][g][c] > code[i].at => special[sp][g][c] = code[i + 1].add % Modulus
      BY <1>9, <3>1, <3>4 DEF SectionRun
    <3>6. m.special[sp][c] = IF m.counter[c] > code[i].at THEN code[i + 1].add % Modulus ELSE 0
      BY <1>6, <3>1 DEF SpecialsDue
    <3>7. m.counter[c] \in Nat /\ code[i].at \in Nat
      BY <1>1, <1>6, <1>10, <3>1, AtSection DEF Ready, Meanings
    <3> QED BY <3>3, <3>5, <3>6, <3>7
  <2>2. CASE ~InUse(sp, c)
    <3>1. special[sp][g][c] = 0
      BY <1>8, <1>10, <2>2 DEF Ending, SparesInv
    <3>2. m.special[sp][c] = 0
      BY <1>6, <1>10, <2>2 DEF SpecialsDue, InUse
    <3> QED BY <3>1, <3>2
  <2> QED BY <2>1, <2>2
<1>11. special[sp][g] \in [Counters -> Nat] /\ m.special[sp] \in [Counters -> UInt]
  BY <1>1, <1>6 DEF Ready, Inv, TypeInv, Meanings
<1> QED BY <1>2, <1>10, <1>11

-----------------------------------------------------------------------------
(* The hash of a work-item                                                 *)

\* What the kernel means for each part of the hash.
HashMeant(t, what) ==
    LET m == MeantAfter(Group(t))
    IN  CASE what = "v_collective"     -> <<IF Lid(t) = 0 THEN m.collected ELSE 0>>
          [] what = "g_special_values" -> IF GlobalId(t) = 0 THEN <<m.special["global"]>> ELSE <<>>
          [] what = "l_special_values" -> IF Lid(t) = 0 THEN <<m.special["local"]>> ELSE <<>>
          [] what = "comm_values"      -> <<m.local, m.global>>

\* What t should have hashed in front of the instruction i, where the epilogue
\* lies behind z.
ByThen(z, t, i) ==
    IF i <= z + 2 THEN <<>>
    ELSE IF i <= z + 4 THEN HashMeant(t, "v_collective")
    ELSE IF i <= z + 6 THEN HashMeant(t, "v_collective") \o HashMeant(t, "g_special_values")
    ELSE IF i <= z + 7 THEN HashMeant(t, "v_collective") \o HashMeant(t, "g_special_values")
                              \o HashMeant(t, "l_special_values")
    ELSE HashMeant(t, "v_collective") \o HashMeant(t, "g_special_values")
           \o HashMeant(t, "l_special_values") \o HashMeant(t, "comm_values")

\* Every work-item has hashed what it should.
HashInv ==
    /\ digest = [t \in WorkItems |-> digest[t]]
    /\ phase = "generate" => \A t \in WorkItems : digest[t] = <<>>
    /\ phase = "run" => \A i \in 1 .. Len(code) : code[i].op = "hash" => i > Len(code) - 7
    /\ phase = "run" => \A z \in Nat : EpilogueAt(z) =>
                           \A t \in WorkItems : digest[t] = ByThen(z, t, ip[t])

\* At the end that is the meaning of the kernel.
LEMMA MeaningParts ==
    ASSUME NEW t
    PROVE  Meaning(t) = HashMeant(t, "v_collective") \o HashMeant(t, "g_special_values")
                          \o HashMeant(t, "l_special_values") \o HashMeant(t, "comm_values")
BY DEF Meaning, HashMeant

\* A step, unless from a hash, takes nobody past one.
LEMMA NotOver ==
    ASSUME NEW z, Ending(z), NEW t \in WorkItems, RunInside(t), NEW d \in {2, 4, 6, 7},
           ip[t] # z + d
    PROVE  ip[t] <= z + d <=> ip'[t] <= z + d
<1>1. /\ Running /\ Ready /\ prog \in Seq(Statement) /\ LayoutInv /\ phase = "run"
      /\ Len(code) \in Nat /\ z \in Nat /\ EpilogueAt(z) /\ Len(code) = z + 7
  BY EndingFacts
<1>2. PICK i : i = ip[t]
  OBVIOUS
<1>3. PICK j : j = ip'[t]
  OBVIOUS
<1>4. PICK b : b = z + d
  OBVIOUS
<1>5. Moved(t)
  BY <1>1, ItemMoves
<1>6. i \in 1 .. Len(code) /\ j \in i + 1 .. Len(code) + 1
  BY <1>2, <1>3, <1>5 DEF Moved
<1>7. b \in 1 .. Len(code) /\ code[b].op = "hash"
  BY <1>1, <1>4 DEF EpilogueAt
<1>8. PICK g \in Groups : g = Group(t) /\ t \in Members(g)
  BY ItemIds DEF Members
<1>9. PICK n, path, books : Course(g, n, path, books)
  BY <1>1, CourseExists
<1>10. PICK k \in 1 .. n : path[k].place = Home(ip[t]) /\ InStep(t, path[k])
  BY <1>1, <1>8, <1>9, Placed
<1>11. PICK m \in 1 .. n : path[m].place = Home(ip'[t])
  BY <1>1, <1>8, <1>9, PlacedNext
<1>12. PICK q \in 1 .. n : path[q].place = b
  <2>1. d \in 1 .. 8
    OBVIOUS
  <2>2. \E q \in 1 .. n : path[q].place = z + d /\ Agrees(MeantAfter(g), path[q], books[q])
    BY <1>9, <2>1, EndOnCourse
  <2> QED BY <1>4, <2>2
<1>13. ASSUME i < b PROVE j <= b
  <2>1. CASE Home(i) = i
    <3>1. m = k + 1
      <4>1. IF Home(ip[t]) = ip[t] THEN m = k + 1 ELSE m = k
        BY <1>1, <1>8, <1>9, <1>10, <1>11, Advances
      <4> QED BY <1>2, <2>1, <4>1
    <3>2. path[k].place < path[q].place
      BY <1>2, <1>10, <1>12, <1>13, <2>1
    <3>3. k < q
      BY <1>1, <1>9, <3>2, CourseFacts
    <3>4. m < q \/ m = q
      BY <3>1, <3>3
    <3>5. n \in Nat \ {0} /\ TraceOK(g, n, path) /\ path[m].place \in 1 .. Len(code) + 1
      BY <1>1, <1>9, CourseFacts
    <3>6. path[m].place <= b
      <4>1. m < q => path[m].place < path[q].place
        BY <3>5 DEF TraceOK
      <4> QED BY <1>7, <1>12, <3>4, <3>5, <4>1
    <3>7. Home(j) \in 1 .. Len(code) + 1 /\ Home(j) >= j
      <4>1. j \in 1 .. Len(code) + 1
        BY <1>6
      <4> QED BY <1>1, <4>1, HomeFacts
    <3>8. Home(j) <= b
      BY <1>3, <1>11, <3>6
    <3> QED BY <1>6, <1>7, <3>7, <3>8
  <2>2. CASE Home(i) # i
    <3>1. code[i].op = "result" \/ PassedBy(i)
      <4>1. i \in 1 .. Len(code) + 1
        BY <1>6
      <4> QED BY <1>1, <2>2, <4>1, HomeFacts
    <3>2. CASE code[i].op = "result"
      <4>1. j = i + 1
        BY <1>2, <1>3, <1>5, <3>2 DEF Moved
      <4> QED BY <1>6, <1>7, <1>13, <4>1
    <3>3. CASE PassedBy(i)
      <4>1. code[i].op = "section"
        BY <3>3 DEF PassedBy
      <4>2. code[i].skip = 1 /\ code[i + 1].op = "result"
        BY <1>1, <1>6, <4>1, HomeAtSection
      <4>3. j = i + 1 \/ j = i + 2
        BY <1>2, <1>3, <1>5, <1>6, <4>2 DEF Moved
      <4>4. b # i + 1
        BY <1>7, <4>2
      <4> QED BY <1>6, <1>7, <1>13, <4>3, <4>4
    <3> QED BY <3>1, <3>2, <3>3
  <2> QED BY <2>1, <2>2
<1> QED BY <1>2, <1>3, <1>4, <1>6, <1>7, <1>13

\* The values hashed are those meant.
LEMMA HashedMeant ==
    ASSUME NEW z, Ending(z), NEW t \in WorkItems, NEW d \in {2, 4, 6, 7}, ip[t] = z + d
    PROVE  Hashed(t, code[z + d].what) = HashMeant(t, code[z + d].what)
<1>1. /\ Running /\ Ready /\ prog \in Seq(Statement) /\ LayoutInv /\ phase = "run"
      /\ Len(code) \in Nat /\ z \in Nat /\ EpilogueAt(z) /\ Len(code) = z + 7
  BY EndingFacts
<1>2. PICK g \in Groups : g = Group(t) /\ t \in Members(g)
  BY ItemIds DEF Members
<1>3. PICK n, path, books : Course(g, n, path, books)
  BY <1>1, <1>2, CourseExists
<1>4. PICK m : m = MeantAfter(g)
  OBVIOUS
<1>5. ASSUME NEW e \in {3, 5}, ip[t] > z + e PROVE \A u \in Members(g) : ip[u] > z + e
  BY <1>2, <1>3, <1>5, AllBehind
<1>6. CASE d = 2
  <2>1. code[z + 2].what = "v_collective" /\ code[z + 2].op = "hash"
    BY <1>1 DEF EpilogueAt
  <2>2. PICK q \in 1 .. n : path[q].place = z + 2 /\ Agrees(MeantAfter(g), path[q], books[q])
    <3>1. 2 \in 1 .. 8
      OBVIOUS
    <3> QED BY <1>3, <3>1, EndOnCourse
  <2>3. Home(z + 2) = z + 2
    <3>1. z + 2 \in 1 .. Len(code)
      BY <1>1
    <3> QED BY <1>1, <2>1, <3>1, StraightOn
  <2>4. Due(g, n, path, books)
    BY <1>1, <1>3 DEF Ending, DueInv
  <2>5. ItemDue(t, path[q], books[q])
    BY <1>2, <1>6, <2>2, <2>3, <2>4 DEF Due
  <2>6. v_collective[t] = IF Lid(t) = 0 THEN m.collected ELSE 0
    BY <1>4, <2>2, <2>5 DEF ItemDue, Agrees
  <2> QED BY <1>2, <1>4, <1>6, <2>1, <2>6 DEF Hashed, HashMeant
<1>7. CASE d = 4
  <2>1. code[z + 4].what = "g_special_values"
    BY <1>1 DEF EpilogueAt
  <2>2. ip[t] > z + 3
    BY <1>1, <1>7
  <2>3. \A u \in Members(g) : ip[u] > z + 3
    BY <1>5, <2>2
  <2>4. \A u \in Members(g) : ip[u] > z + 1
    <3>1. \A u \in Members(g) : u \in WorkItems
      BY MemberFacts
    <3>2. \A u \in WorkItems : ip[u] \in Nat
      BY <1>1 DEF Ready, Inv, TypeInv
    <3> QED BY <1>1, <2>3, <3>1, <3>2
  <2>5. special["global"][g] = m.special["global"]
    BY <1>4, <2>4, SpecialsMeant DEF Spaces
  <2> QED BY <1>2, <1>4, <1>7, <2>1, <2>5 DEF Hashed, HashMeant
<1>8. CASE d = 6
  <2>1. code[z + 6].what = "l_special_values"
    BY <1>1 DEF EpilogueAt
  <2>2. ip[t] > z + 5
    BY <1>1, <1>8
  <2>3. \A u \in Members(g) : ip[u] > z + 5
    BY <1>5, <2>2
  <2>4. \A u \in Members(g) : ip[u] > z + 1
    <3>1. \A u \in Members(g) : u \in WorkItems
      BY MemberFacts
    <3>2. \A u \in WorkItems : ip[u] \in Nat
      BY <1>1 DEF Ready, Inv, TypeInv
    <3> QED BY <1>1, <2>3, <3>1, <3>2
  <2>5. special["local"][g] = m.special["local"]
    BY <1>4, <2>4, SpecialsMeant DEF Spaces
  <2> QED BY <1>2, <1>4, <1>8, <2>1, <2>5 DEF Hashed, HashMeant
<1>9. CASE d = 7
  <2>1. code[z + 7].what = "comm_values"
    BY <1>1 DEF EpilogueAt
  <2>2. ip[t] > z + 5
    BY <1>1, <1>9
  <2>3. Owns(g)
    BY <1>1, <1>2 DEF Running
  <2>4. /\ GlobalId(t) = g * Size + Lid(t) /\ Lid(t) \in Lids /\ g \in Nat /\ g * Size \in Nat
    <3>1. g \in Nat /\ g * Size \in Nat
      BY <1>2, ItemIds
    <3> QED BY <1>2, <3>1, MemberFacts
  <2>5. GlobalId(t) \in g * Size .. g * Size + Size - 1
    BY <2>4, SizesAssumption DEF Lids
  <2>6. PICK u \in Members(g) : Own(u) = GlobalId(t)
    BY <2>3, <2>5 DEF Owns
  <2>7. GlobalId(t) % Size = Lid(t)
    <3>1. PICK r : r = GlobalId(t)
      OBVIOUS
    <3>2. r \in Nat /\ r % Size \in Lids /\ r = g * Size + (r % Size)
      BY <2>5, <3>1, ItemPosition
    <3>3. r = g * Size + Lid(t)
      BY <2>4, <3>1
    <3> QED BY <2>4, <3>1, <3>2, <3>3 DEF Lids
  <2>8. PICK k \in 1 .. n : path[k].place = Home(ip[u]) /\ InStep(u, path[k]) /\ path[k].place > z + 5
    <3>1. 5 \in {3, 5}
      OBVIOUS
    <3> QED BY <1>2, <1>3, <2>2, <3>1, AllBehind
  <2>9. path[k].place = z + 6 \/ path[k].place = z + 7 \/ path[k].place = z + 8
    <3>1. path[k].place \in 1 .. Len(code) + 1
      BY <1>1, <1>3, CourseFacts
    <3> QED BY <1>1, <2>8, <3>1
  <2>10. PICK e \in 1 .. 8 : path[k].place = z + e
    BY <2>9
  <2>11. PICK q \in 1 .. n : path[q].place = z + e /\ Agrees(MeantAfter(g), path[q], books[q])
    BY <1>3, EndOnCourse
  <2>12. q = k
    BY <1>1, <1>3, <2>10, <2>11, CourseFacts
  <2>13. m.local = path[k].local /\ m.global = path[k].global
    BY <1>4, <2>11, <2>12 DEF Agrees
  <2>14. ip[<<g, 0>>] > 1
    <3>1. <<g, 0>> \in Members(g) /\ <<g, 0>> \in WorkItems
      BY MemberFacts
    <3>2. ip[<<g, 0>>] > z + 5
      BY <1>5, <2>2, <3>1
    <3>3. ip[<<g, 0>>] \in Nat
      BY <1>1, <3>1 DEF Ready, Inv, TypeInv
    <3> QED BY <1>1, <3>2, <3>3
  <2>15. Group(u) = g
    BY MemberFacts
  <2>16. g_comm_values[GlobalId(t)] = m.global /\ l_comm_values[g][Lid(t)] = m.local
    BY <2>6, <2>7, <2>8, <2>13, <2>14, <2>15 DEF InStep
  <2> QED BY <1>2, <1>4, <1>9, <2>1, <2>16 DEF Hashed, HashMeant
<1> QED BY <1>6, <1>7, <1>8, <1>9

\* What a kernel means depends on its statements only.
LEMMA SameMeant ==
    ASSUME prog' = prog
    PROVE  \A z, t, i : ByThen(z, t, i)' = ByThen(z, t, i)
<1>1. \A g : MeantAfter(g)' = MeantAfter(g)
  BY DEF MeantAfter
<1>2. \A t, what : HashMeant(t, what)' = HashMeant(t, what)
  BY <1>1 DEF HashMeant, Group, Lid, GlobalId
<1> QED BY <1>2 DEF ByThen

\* A work-item that hashes hashes what is meant.
LEMMA HashKept ==
    ASSUME NEW z, Ending(z), HashInv, NEW t \in WorkItems, Hash(t)
    PROVE  digest'[t] = ByThen(z, t, ip'[t])
<1>1. /\ Running /\ Ready /\ prog \in Seq(Statement) /\ LayoutInv /\ phase = "run"
      /\ Len(code) \in Nat /\ z \in Nat /\ EpilogueAt(z) /\ Len(code) = z + 7
  BY EndingFacts
<1>2. ip \in [WorkItems -> Nat \ {0}]
  BY <1>1 DEF Ready, Inv, TypeInv
<1>3. ip[t] \in 1 .. Len(code) /\ code[ip[t]].op = "hash"
  BY <1>1, <1>2 DEF Hash, At
<1>4. ip[t] > z
  BY <1>1, <1>3 DEF HashInv
<1>5. \/ ip[t] = z + 1 \/ ip[t] = z + 2 \/ ip[t] = z + 3 \/ ip[t] = z + 4
      \/ ip[t] = z + 5 \/ ip[t] = z + 6 \/ ip[t] = z + 7
  BY <1>1, <1>3, <1>4
<1>6. PICK d \in {2, 4, 6, 7} : ip[t] = z + d
  BY <1>1, <1>3, <1>5 DEF EpilogueAt
<1>7. Hashed(t, code[z + d].what) = HashMeant(t, code[z + d].what)
  BY <1>6, HashedMeant
<1>8. digest'[t] = ByThen(z, t, ip[t]) \o HashMeant(t, code[z + d].what)
  <2>1. digest' = [digest EXCEPT ![t] = @ \o Hashed(t, code[ip[t]].what)]
    BY DEF Hash
  <2>2. digest[t] = ByThen(z, t, ip[t])
    BY <1>1 DEF HashInv
  <2>3. t \in DOMAIN digest
    BY DEF HashInv
  <2> QED BY <1>6, <1>7, <2>1, <2>2, <2>3
<1>9. ip'[t] = ip[t] + 1
  BY <1>2 DEF Hash, Step, Goto
<1>10. CASE d = 2
  <2>1. code[z + d].what = "v_collective"
    BY <1>1, <1>10 DEF EpilogueAt
  <2>2. ByThen(z, t, ip[t]) = <<>> /\ ByThen(z, t, ip'[t]) = HashMeant(t, "v_collective")
    BY <1>1, <1>6, <1>9, <1>10 DEF ByThen
  <2>3. PICK x : HashMeant(t, "v_collective") = <<x>>
    BY DEF HashMeant
  <2>4. <<>> \o <<x>> = <<x>>
    OBVIOUS
  <2> QED BY <1>8, <2>1, <2>2, <2>3, <2>4
<1>11. CASE d = 4
  <2>1. code[z + d].what = "g_special_values"
    BY <1>1, <1>11 DEF EpilogueAt
  <2>2. /\ ByThen(z, t, ip[t]) = HashMeant(t, "v_collective")
        /\ ByThen(z, t, ip'[t]) = HashMeant(t, "v_collective") \o HashMeant(t, "g_special_values")
    BY <1>1, <1>6, <1>9, <1>11 DEF ByThen
  <2> QED BY <1>8, <2>1, <2>2
<1>12. CASE d = 6
  <2>1. code[z + d].what = "l_special_values"
    BY <1>1, <1>12 DEF EpilogueAt
  <2>2. /\ ByThen(z, t, ip[t]) = HashMeant(t, "v_collective") \o HashMeant(t, "g_special_values")
        /\ ByThen(z, t, ip'[t]) = HashMeant(t, "v_collective") \o HashMeant(t, "g_special_values")
                                    \o HashMeant(t, "l_special_values")
    BY <1>1, <1>6, <1>9, <1>12 DEF ByThen
  <2> QED BY <1>8, <2>1, <2>2
<1>13. CASE d = 7
  <2>1. code[z + d].what = "comm_values"
    BY <1>1, <1>13 DEF EpilogueAt
  <2>2. /\ ByThen(z, t, ip[t]) = HashMeant(t, "v_collective") \o HashMeant(t, "g_special_values")
                                    \o HashMeant(t, "l_special_values")
        /\ ByThen(z, t, ip'[t]) = HashMeant(t, "v_collective") \o HashMeant(t, "g_special_values")
                                    \o HashMeant(t, "l_special_values") \o HashMeant(t, "comm_values")
    BY <1>1, <1>6, <1>9, <1>13 DEF ByThen
  <2> QED BY <1>8, <2>1, <2>2
<1> QED BY <1>10, <1>11, <1>12, <1>13

\* Who has passed the same hashes should have hashed the same.
LEMMA SameByThen ==
    ASSUME NEW z, NEW t, NEW i, NEW j,
           i <= z + 2 <=> j <= z + 2, i <= z + 4 <=> j <= z + 4,
           i <= z + 6 <=> j <= z + 6, i <= z + 7 <=> j <= z + 7
    PROVE  ByThen(z, t, i) = ByThen(z, t, j)
BY DEF ByThen

\* A step of a work-item keeps the hashes what they should be.
LEMMA ItemHash ==
    ASSUME NEW z, Ending(z), HashInv, NEW t \in WorkItems, RunInside(t), NEW u \in WorkItems
    PROVE  digest'[u] = ByThen(z, u, ip'[u])
<1>1. /\ Running /\ Ready /\ prog \in Seq(Statement) /\ LayoutInv /\ phase = "run"
      /\ Len(code) \in Nat /\ z \in Nat /\ EpilogueAt(z) /\ Len(code) = z + 7
  BY EndingFacts
<1>2. Moved(t)
  BY <1>1, ItemMoves
<1>3. digest[u] = ByThen(z, u, ip[u])
  BY <1>1 DEF HashInv
<1>4. CASE u # t
  <2>1. ip'[u] = ip[u]
    BY <1>2, <1>4 DEF Moved
  <2>2. digest'[u] = digest[u]
    <3>1. CASE code[ip[t]].op = "hash"
      <4>1. Hash(t)
        BY <3>1, StepOf
      <4>2. digest' = [digest EXCEPT ![t] = @ \o Hashed(t, code[ip[t]].what)]
        BY <4>1 DEF Hash
      <4>3. u \in DOMAIN digest
        BY DEF HashInv
      <4> QED BY <1>4, <4>2, <4>3
    <3>2. CASE code[ip[t]].op # "hash"
      BY <3>2, StepOf
    <3> QED BY <3>1, <3>2
  <2> QED BY <1>3, <2>1, <2>2
<1>5. CASE u = t /\ code[ip[t]].op = "hash"
  <2>1. Hash(t)
    BY <1>5, StepOf
  <2> QED BY <1>5, <2>1, HashKept
<1>6. CASE u = t /\ code[ip[t]].op # "hash"
  <2>1. digest' = digest
    BY <1>6, StepOf
  <2>2. \A d \in {2, 4, 6, 7} : ip[t] # z + d
    BY <1>1, <1>6 DEF EpilogueAt
  <2>3. \A d \in {2, 4, 6, 7} : ip[t] <= z + d <=> ip'[t] <= z + d
    BY <2>2, NotOver
  <2>4. /\ ip[t] <= z + 2 <=> ip'[t] <= z + 2
        /\ ip[t] <= z + 4 <=> ip'[t] <= z + 4
        /\ ip[t] <= z + 6 <=> ip'[t] <= z + 6
        /\ ip[t] <= z + 7 <=> ip'[t] <= z + 7
    BY <2>3
  <2>5. ByThen(z, t, ip[t]) = ByThen(z, t, ip'[t])
    BY <2>4, SameByThen
  <2> QED BY <1>3, <1>6, <2>1, <2>5
<1> QED BY <1>4, <1>5, <1>6

\* So does a barrier.
LEMMA BarrierHash ==
    ASSUME NEW z, Ending(z), HashInv, NEW g \in Groups, PassBarrier(g), NEW u \in WorkItems
    PROVE  digest'[u] = ByThen(z, u, ip'[u])
<1>1. /\ Running /\ Ready /\ prog \in Seq(Statement) /\ LayoutInv /\ phase = "run"
      /\ Len(code) \in Nat /\ z \in Nat /\ EpilogueAt(z) /\ Len(code) = z + 7
  BY EndingFacts
<1>2. digest[u] = ByThen(z, u, ip[u]) /\ digest' = digest
  BY <1>1 DEF HashInv, PassBarrier, private
<1>3. ip[u] \in Nat \ {0}
  BY <1>1 DEF Ready, Inv, TypeInv
<1>4. CASE Group(u) # g
  <2>1. ip'[u] = ip[u]
    BY <1>4 DEF PassBarrier
  <2> QED BY <1>2, <2>1
<1>5. CASE Group(u) = g
  <2>1. ip'[u] = ip[u] + 1
    BY <1>5 DEF PassBarrier
  <2>2. code[ip[u]].op = "barrier"
    BY <1>5 DEF PassBarrier, At, Members
  <2>3. ip[u] # z + 2 /\ ip[u] # z + 4 /\ ip[u] # z + 6 /\ ip[u] # z + 7
    BY <1>1, <2>2 DEF EpilogueAt
  <2>4. /\ ip[u] <= z + 2 <=> ip'[u] <= z + 2
        /\ ip[u] <= z + 4 <=> ip'[u] <= z + 4
        /\ ip[u] <= z + 6 <=> ip'[u] <= z + 6
        /\ ip[u] <= z + 7 <=> ip'[u] <= z + 7
    BY <1>1, <1>3, <2>1, <2>3
  <2>5. ByThen(z, u, ip[u]) = ByThen(z, u, ip'[u])
    BY <2>4, SameByThen
  <2> QED BY <1>2, <2>5
<1> QED BY <1>4, <1>5

\* The launch, when nothing has been hashed.
LEMMA LaunchHash ==
    ASSUME Whole, HashInv, Launch
    PROVE  HashInv'
<1>1. /\ phase = "generate" /\ phase' = "run" /\ code' = code \o Epilogue
      /\ ip' = ip /\ digest' = digest
  BY DEF Launch, private
<1>2. code \in Seq(Instruction) /\ Len(code) \in Nat
  <2>1. Ready
    BY DEF Whole, Ready
  <2> QED BY <2>1, CodeFacts
<1>3. Epilogue \in Seq(Instruction) /\ Len(Epilogue) = 7
  <2>1. Epilogue \in Seq(Instruction)
    BY DEF Epilogue, Instruction, Barrier
  <2>2. Len(Epilogue) = 7
    BY DEF Epilogue
  <2> QED BY <2>1, <2>2
<1>4. /\ Len(code') = Len(code) + 7
      /\ \A i \in 1 .. Len(code) : code'[i] = code[i]
  <2>1. Len(code \o Epilogue) = Len(code) + Len(Epilogue)
    BY <1>2, <1>3, ConcatProperties
  <2>2. \A i \in 1 .. Len(code) : (code \o Epilogue)[i] = code[i]
    <3>1. ASSUME NEW i \in 1 .. Len(code) PROVE (code \o Epilogue)[i] = code[i]
      <4>1. i \in 1 .. Len(code) + Len(Epilogue) /\ i <= Len(code)
        BY <1>2, <1>3
      <4> QED BY <1>2, <1>3, <4>1, ConcatProperties
    <3> QED BY <3>1
  <2> QED BY <1>1, <1>3, <2>1, <2>2
<1>5. \A i \in 1 .. Len(code) : code[i].op # "hash"
  BY <1>1 DEF Whole, CodeLaid
<1>6. ASSUME NEW i \in 1 .. Len(code'), code'[i].op = "hash" PROVE i > Len(code') - 7
  <2>1. ~(i <= Len(code))
    <3>1. ASSUME i <= Len(code) PROVE FALSE
      <4>1. i \in 1 .. Len(code)
        BY <1>2, <1>4, <1>6, <3>1
      <4> QED BY <1>4, <1>5, <1>6, <4>1
    <3> QED BY <3>1
  <2> QED BY <1>2, <1>4, <2>1
<1>7. ASSUME NEW z \in Nat, NEW t \in WorkItems PROVE digest'[t] = ByThen(z, t, ip[t])'
  <2>1. digest[t] = <<>> /\ ip[t] = 1
    BY <1>1 DEF HashInv, Whole, Inv, GenerateInv
  <2>2. ip'[t] <= z + 2
    BY <1>1, <2>1
  <2> QED BY <1>1, <2>1, <2>2 DEF ByThen
<1>8. digest' = [t \in WorkItems |-> digest'[t]]
  BY <1>1 DEF HashInv
<1> QED BY <1>1, <1>6, <1>7, <1>8 DEF HashInv, WorkItems, Groups, Lids

\* All the invariants that the results depend on.
Everything == Whole /\ LayoutInv /\ DueInv /\ SparesInv /\ HashInv

\* Every step keeps the hashes what they should be.
LEMMA NextHash ==
    ASSUME Everything, [Next]_vars
    PROVE  HashInv'
<1>1. Whole /\ LayoutInv /\ DueInv /\ SparesInv /\ HashInv
  BY DEF Everything
<1>2. ASSUME phase = "run", phase' = "run", code' = code, prog' = prog,
             digest' = [u \in WorkItems |-> digest'[u]],
             \A z, u : Ending(z) /\ u \in WorkItems => digest'[u] = ByThen(z, u, ip'[u])
      PROVE  HashInv'
  <2>1. ASSUME NEW z \in Nat, EpilogueAt(z)', NEW u \in WorkItems
        PROVE  digest'[u] = ByThen(z, u, ip[u])'
    <3>1. EpilogueAt(z)
      BY <1>2, <2>1 DEF EpilogueAt
    <3>2. Ending(z)
      BY <1>1, <1>2, <3>1 DEF Ending
    <3>3. digest'[u] = ByThen(z, u, ip'[u])
      BY <1>2, <3>2
    <3>4. PICK i : i = ip'[u]
      OBVIOUS
    <3>5. ByThen(z, u, i)' = ByThen(z, u, i)
      BY <1>2, SameMeant
    <3>6. ByThen(z, u, ip[u])' = ByThen(z, u, i)'
      BY <3>4 DEF ByThen
    <3> QED BY <3>3, <3>4, <3>5, <3>6
  <2>2. \A i \in 1 .. Len(code) : code[i].op = "hash" => i > Len(code) - 7
    BY <1>1, <1>2 DEF HashInv
  <2> QED BY <1>2, <2>1, <2>2 DEF HashInv, WorkItems, Groups, Lids
<1>3. CASE UNCHANGED vars
  <2>1. /\ code' = code /\ phase' = phase /\ ip' = ip /\ digest' = digest /\ prog' = prog
    BY <1>3 DEF vars, generator, private
  <2>2. CASE phase = "generate"
    BY <1>1, <2>1, <2>2 DEF HashInv, WorkItems, Groups, Lids
  <2>3. CASE phase = "run"
    <3>1. digest' = [u \in WorkItems |-> digest'[u]]
      BY <1>1, <2>1 DEF HashInv
    <3>2. ASSUME NEW z, NEW u \in WorkItems, Ending(z) PROVE digest'[u] = ByThen(z, u, ip'[u])
      <4>1. digest[u] = ByThen(z, u, ip[u])
        BY <1>1, <2>3, <3>2 DEF HashInv, Ending
      <4> QED BY <2>1, <4>1
    <3> QED BY <1>2, <2>1, <2>3, <3>1, <3>2
  <2>4. phase \in {"generate", "run"}
    BY <1>1 DEF Whole, Inv, TypeInv
  <2> QED BY <2>2, <2>3, <2>4
<1>4. CASE \E s \in Statements : AddStatement(s)
  <2>1. phase = "generate" /\ phase' = phase /\ digest' = digest
    BY <1>4 DEF AddStatement, private
  <2> QED BY <1>1, <2>1 DEF HashInv, WorkItems, Groups, Lids
<1>5. CASE Launch
  BY <1>1, <1>5, LaunchHash
<1>6. ASSUME NEW t \in WorkItems, RunInside(t) PROVE HashInv'
  <2>1. phase = "run" /\ Running
    BY <1>1, <1>6, ItemRuns, WholeRuns
  <2>2. code' = code /\ phase' = "run"
    BY <1>6, <2>1, ItemMoves DEF Moved
  <2>3. prog' = prog
    BY <1>6 DEF RunInside, InitBuffers, Evaluate, Store, Branch, Permute, Reduce, Collect,
                EnterSection, LeaveSection, TestGate, TakeInside, GiveInside, ShutGate, Hash, generator
  <2>4. digest' = [u \in WorkItems |-> digest'[u]]
    <3>1. CASE code[ip[t]].op = "hash"
      <4>1. Hash(t)
        BY <1>6, <3>1, StepOf
      <4>2. digest' = [digest EXCEPT ![t] = @ \o Hashed(t, code[ip[t]].what)]
        BY <4>1 DEF Hash
      <4>3. digest = [u \in WorkItems |-> digest[u]]
        BY <1>1 DEF HashInv
      <4> QED BY <4>2, <4>3
    <3>2. CASE code[ip[t]].op # "hash"
      <4>1. digest' = digest
        BY <1>6, <3>2, StepOf
      <4>2. digest = [u \in WorkItems |-> digest[u]]
        BY <1>1 DEF HashInv
      <4> QED BY <4>1, <4>2
    <3> QED BY <3>1, <3>2
  <2>5. \A z, u : Ending(z) /\ u \in WorkItems => digest'[u] = ByThen(z, u, ip'[u])
    BY <1>1, <1>6, ItemHash
  <2> QED BY <1>2, <2>1, <2>2, <2>3, <2>4, <2>5
<1>7. ASSUME NEW g \in Groups, PassBarrier(g) PROVE HashInv'
  <2>1. phase = "run"
    BY <1>7, MemberFacts DEF PassBarrier, At
  <2>2. code' = code /\ phase' = phase /\ prog' = prog /\ digest' = digest
    BY <1>7 DEF PassBarrier, generator, private
  <2>3. digest' = [u \in WorkItems |-> digest'[u]]
    BY <1>1, <2>2 DEF HashInv
  <2>4. \A z, u : Ending(z) /\ u \in WorkItems => digest'[u] = ByThen(z, u, ip'[u])
    BY <1>1, <1>7, BarrierHash
  <2> QED BY <1>2, <2>1, <2>2, <2>3, <2>4
<1>8. CASE Rest
  BY <1>3, <1>8 DEF Rest
<1>9. \A t \in WorkItems : ~TakeBeyond(t) /\ ~GiveBeyond(t)
  BY <1>1, NobodyBeyond DEF Whole
<1> QED BY <1>3, <1>4, <1>5, <1>6, <1>7, <1>8, <1>9, NextCases

\* Nothing is hashed before the first step.
LEMMA InitHash == Init => HashInv
BY DEF Init, HashInv

\* Who has finished has hashed what the kernel means.
LEMMA EndMeant == Everything => ResultsAreMeant
<1>1. ASSUME Everything, NEW t \in WorkItems, Finished(t) PROVE digest[t] = Meaning(t)
  <2>1. Ready /\ prog \in Seq(Statement) /\ LayoutInv /\ phase = "run" /\ HashInv
    BY <1>1 DEF Everything, Whole, Ready, DataOK, Finished
  <2>2. PICK z \in Nat : EpilogueAt(z)
    BY <2>1, EndReached
  <2>3. digest[t] = ByThen(z, t, ip[t])
    BY <2>1, <2>2 DEF HashInv
  <2>4. ip[t] > z + 7 /\ ip[t] \in Nat /\ z \in Nat
    BY <1>1, <2>1, <2>2 DEF Finished, EpilogueAt, Ready, Inv, TypeInv
  <2>5. ByThen(z, t, ip[t]) = Meaning(t)
    BY <2>4, MeaningParts DEF ByThen
  <2> QED BY <2>3, <2>5
<1> QED BY <1>1 DEF ResultsAreMeant

-----------------------------------------------------------------------------
(* Theorem                                                                 *)

\* The result of a work-item does not depend on the schedule, on the shuffles or on
\* the ids it was given: when it ends it has hashed what the statements of its kernel
\* compute one after the other, for any number of groups, any number of work-items that
\* fits the buffer of the barriers that exchange (StatementBarrier.cpp:27) and any kernel
\* that the generator accepts.
THEOREM ResultsMeant ==
    ASSUME NoBarrierInSections, RowsReadNoBuffer, NoDivergentReductions, GatedBarriersFit
    PROVE  Spec => []ResultsAreMeant
<1>1. Init => Everything
  BY InitInv, InitData, InitLaid, InitWayInv, InitLayout, InitDue, InitSpares, InitHash DEF Everything, Whole
<1>2. Everything /\ [Next]_vars => Everything'
  BY NextWhole, NextLayout, NextDue, NextSpares, NextHash DEF Everything
<1>3. Everything => ResultsAreMeant
  BY EndMeant
<1> QED BY <1>1, <1>2, <1>3, PTL DEF Spec
=============================================================================
