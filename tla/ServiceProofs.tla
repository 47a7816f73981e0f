--------------------------- MODULE ServiceProofs ---------------------------
(***************************************************************************)
(* For any number of processes, versions, statements and interruptions:    *)
(* migrations are applied in order, no process serves an incomplete schema *)
(* and together they implement one deployment.                             *)
(***************************************************************************)
EXTENDS Service, TLAPS

USE DEF Goto, Exit, Unbind, Down, File, Files, Interrupt

\* What Progress says of a process q, when the tables are A and R.
Knows(q, A, R) ==
    /\ q.pc \in {"check", "apply", "record"} =>
           q.version \in 1..Versions /\ 1 .. q.version - 1 \subseteq R
    /\ q.pc = "apply" => /\ q.stmt \in 1..Stmts
                         /\ \A s \in 1 .. q.stmt - 1 : <<q.version, s>> \in A
    /\ q.pc = "record" => File(q.version) \subseteq A
    /\ q.pc \in {"notify", "wait", "drain"} => R = 1..Versions
    /\ q.srv \in {"new", "up"} => q.pc \in {"notify", "wait"}
    /\ q.handling # {} => q.srv = "up" \/ q.pc = "drain"

\* Progress speaks of every process.
LEMMA ProgressKnows == Progress <=> \A p \in Proc : Knows(proc[p], applied, recorded)
<1> QED BY DEF Progress, Knows

\* The tables only grow, so what a process knows stays true of it.
LEMMA KnowsStays ==
    ASSUME NEW q, NEW A, NEW R, NEW B, NEW S, Knows(q, A, R),
           A \subseteq B, R \subseteq S, S \subseteq 1..Versions
    PROVE  Knows(q, B, S)
<1> QED BY DEF Knows

\* A step changes one process at most, and removes nothing from the tables.
LEMMA ProgressStep ==
    ASSUME TypeOK, TypeOK', Progress, NEW p \in Proc,
           applied \subseteq applied', recorded \subseteq recorded',
           \A x \in Proc \ {p} : proc'[x] = proc[x],
           Knows(proc'[p], applied', recorded')
    PROVE  Progress'
<1>1. recorded' \subseteq 1..Versions BY DEF TypeOK
<1>2. ASSUME NEW x \in Proc PROVE Knows(proc'[x], applied', recorded')
  <2>1. CASE x = p BY <2>1
  <2>2. CASE x # p
    <3>1. Knows(proc[x], applied, recorded) BY ProgressKnows
    <3>2. proc'[x] = proc[x] BY <2>2
    <3>3. Knows(proc[x], applied', recorded') BY <1>1, <3>1, KnowsStays
    <3> QED BY <3>2, <3>3
  <2> QED BY <2>1, <2>2
<1> QED BY <1>2 DEF Progress, Knows

-----------------------------------------------------------------------------
(* Types *)

\* The address and the processes after a step that lets p exit.
LEMMA ExitType ==
    ASSUME TypeOK, NEW p \in Proc, Exit(p)
    PROVE  /\ proc' \in [Proc -> Procs]
           /\ bound' \in Proc \cup {None}
           /\ \A x \in Proc : proc'[x].srv = "up" <=> bound' = x
           /\ \A x \in Proc \ {p} : proc'[x] = proc[x]
           /\ proc'[p] = Down
<1>1. Down \in Procs BY VersionsAssumption DEF Procs
<1> QED BY <1>1, NoneAssumption DEF TypeOK

\* The record a process continues with after a version.
LEMMA NextFileType ==
    ASSUME NEW q \in Procs, q.version \in 1..Versions
    PROVE  NextFile(q) \in Procs /\ NextFile(q).srv # "up"
<1>d. Down \in Procs /\ Down.srv = "off" BY VersionsAssumption DEF Procs
<1> HIDE DEF Down
<1>1. CASE q.version < Versions
  <2>1. q.version + 1 \in 0..Versions BY <1>1, VersionsAssumption
  <2> QED BY <1>1, <1>d, <2>1 DEF NextFile, Procs
<1>2. CASE ~(q.version < Versions)
  BY <1>2, <1>d DEF NextFile, Procs
<1> QED BY <1>1, <1>2

\* No step leaves the types.
LEMMA TypeStep ==
    ASSUME TypeOK, Progress, [Next]_vars
    PROVE  TypeOK'
<1> USE VersionsAssumption, InterruptsAssumption, NoneAssumption
<1>1. CASE UNCHANGED vars BY <1>1 DEF TypeOK, vars
<1>2. ASSUME NEW p \in Proc, Open(p) PROVE TypeOK'
  <2> DEFINE check == [Down EXCEPT !.pc = "check", !.version = 1]
  <2>1. Down \in Procs /\ Down.srv = "off" BY DEF Procs
  <2>2. check \in Procs /\ check.srv # "up"
    <3> HIDE DEF Down
    <3>1. 1 \in 0..Versions OBVIOUS
    <3> QED BY <2>1, <3>1 DEF Procs
  <2>3. proc[p].srv # "up" BY <1>2 DEF Open, TypeOK, Progress
  <2> QED BY <1>2, <2>2, <2>3 DEF Open, TypeOK
<1>3. ASSUME NEW p \in Proc, Check(p) PROVE TypeOK'
  <2>1. proc[p] \in Procs /\ proc[p].version \in 1..Versions /\ proc[p].srv # "up"
    BY <1>3 DEF Check, TypeOK, Progress, Procs
  <2>2. NextFile(proc[p]) \in Procs /\ NextFile(proc[p]).srv # "up" BY <2>1, NextFileType
  <2>3. [proc[p] EXCEPT !.pc = "apply", !.stmt = 1] \in Procs
    <3>1. 1 \in 0..Stmts OBVIOUS
    <3> QED BY <2>1, <3>1 DEF Procs
  <2>4. [proc[p] EXCEPT !.pc = "apply", !.stmt = 1].srv # "up" BY <2>1 DEF Procs
  <2> QED BY <1>3, <2>1, <2>2, <2>3, <2>4 DEF Check, TypeOK
<1>4. ASSUME NEW p \in Proc, Apply(p) PROVE TypeOK'
  <2> DEFINE q == proc[p]
  <2>1. q \in Procs /\ q.version \in 1..Versions /\ q.stmt \in 1..Stmts /\ q.srv # "up"
    BY <1>4 DEF Apply, TypeOK, Progress
  <2>2. applied' \subseteq Files BY <1>4, <2>1 DEF Apply, TypeOK
  <2>3. q.stmt < Stmts => [q EXCEPT !.stmt = @ + 1] \in Procs BY <2>1 DEF Procs
  <2>4. [q EXCEPT !.pc = "record"] \in Procs BY <2>1 DEF Procs
  <2>5. proc' \in [Proc -> Procs] BY <1>4, <2>3, <2>4 DEF Apply, TypeOK
  <2>6. \A x \in Proc : proc'[x].srv = proc[x].srv BY <1>4, <2>1 DEF Apply, TypeOK, Procs
  <2> QED BY <1>4, <2>2, <2>5, <2>6 DEF Apply, TypeOK
<1>5. ASSUME NEW p \in Proc, Record(p) PROVE TypeOK'
  <2>1. proc[p] \in Procs /\ proc[p].version \in 1..Versions /\ proc[p].srv # "up"
    BY <1>5 DEF Record, TypeOK, Progress, Procs
  <2>2. NextFile(proc[p]) \in Procs /\ NextFile(proc[p]).srv # "up" BY <2>1, NextFileType
  <2>3. CASE Exit(p) /\ UNCHANGED recorded BY <1>5, <2>3, ExitType DEF Record, TypeOK
  <2>4. CASE Goto(p, NextFile(proc[p])) /\ UNCHANGED bound /\ recorded' = recorded \cup {proc[p].version}
    BY <1>5, <2>1, <2>2, <2>4 DEF Record, TypeOK
  <2> QED BY <1>5, <2>3, <2>4 DEF Record
<1>6. ASSUME NEW p \in Proc, Listen(p) PROVE TypeOK'
  <2>1. CASE Exit(p) BY <1>6, <2>1, ExitType DEF Listen, TypeOK
  <2>2. CASE bound = None /\ bound' = p /\ Goto(p, [proc[p] EXCEPT !.srv = "up"])
    BY <1>6, <2>2 DEF Listen, TypeOK, Procs
  <2> QED BY <1>6, <2>1, <2>2 DEF Listen
<1>7. ASSUME NEW p \in Proc, Notify(p) PROVE TypeOK'
  BY <1>7 DEF Notify, TypeOK, Procs
<1>8. ASSUME NEW p \in Proc, NEW r \in Req, Accept(p, r) \/ Answer(p, r) PROVE TypeOK'
  BY <1>8 DEF Accept, Answer, TypeOK, Procs
<1>9. ASSUME NEW p \in Proc, Signal(p) PROVE TypeOK'
  <2>1. interrupts' \in 0..MaxInterrupts /\ applied' = applied /\ recorded' = recorded
    BY <1>9 DEF Signal, TypeOK
  <2>2. CASE Exit(p) /\ Lose(p, "uncaught")
    BY <2>1, <2>2, ExitType DEF TypeOK, Lose
  <2>3. CASE /\ Goto(p, [proc[p] EXCEPT !.pc = "drain", !.srv = "closed"])
             /\ Unbind(p) /\ UNCHANGED lost
    <3>1. [proc[p] EXCEPT !.pc = "drain", !.srv = "closed"] \in Procs
          /\ [proc[p] EXCEPT !.pc = "drain", !.srv = "closed"].srv = "closed"
      BY DEF TypeOK, Procs
    <3>2. proc' \in [Proc -> Procs] /\ bound' \in Proc \cup {None}
      BY <2>3, <3>1 DEF TypeOK, Goto, Unbind
    <3>3. \A x \in Proc : proc'[x].srv = "up" <=> bound' = x
      BY <2>3, <3>1, NoneAssumption DEF TypeOK, Goto, Unbind
    <3> QED BY <2>1, <2>3, <3>2, <3>3 DEF TypeOK
  <2> QED BY <1>9, <2>2, <2>3 DEF Signal
<1>10. ASSUME NEW p \in Proc, Drained(p) PROVE TypeOK'
  BY <1>10, ExitType DEF Drained, TypeOK
<1>11. ASSUME NEW p \in Proc, DrainTimeout(p) PROVE TypeOK'
  BY <1>11, ExitType DEF DrainTimeout, TypeOK, Lose
<1>12. ASSUME NEW p \in Proc, Crash(p) PROVE TypeOK'
  <2>1. interrupts' \in 0..MaxInterrupts BY <1>12 DEF Crash, TypeOK
  <2>2. lost' \subseteq {"crash", "uncaught", "timeout"} BY <1>12 DEF Crash, TypeOK, Lose
  <2>3. Exit(p) /\ applied' = applied /\ recorded' = recorded BY <1>12 DEF Crash
  <2> QED BY <2>1, <2>2, <2>3, ExitType DEF TypeOK
<1> QED BY <1>1, <1>2, <1>3, <1>4, <1>5, <1>6, <1>7, <1>8, <1>9, <1>10, <1>11, <1>12
        DEF Next, Startup, Requests

-----------------------------------------------------------------------------
(* What processes know *)

\* A process that exits knows nothing, and the tables stay.
LEMMA KnowsDown == \A A, R : Knows(Down, A, R)
<1> QED BY DEF Knows

\* No step lets a process be ahead of the tables.
LEMMA ProgressPreserved ==
    ASSUME TypeOK, TypeOK', Progress, [Next]_vars
    PROVE  Progress'
<1> USE VersionsAssumption, NoneAssumption
<1>1. CASE UNCHANGED vars BY <1>1 DEF Progress, vars
<1>a. ASSUME NEW p \in Proc, Exit(p), applied' = applied, recorded' = recorded PROVE Progress'
  <2>1. proc'[p] = Down /\ \A x \in Proc \ {p} : proc'[x] = proc[x] BY <1>a, ExitType
  <2>2. Knows(proc'[p], applied', recorded') BY <2>1, KnowsDown
  <2> QED BY <1>a, <2>1, <2>2, ProgressStep
<1>b. ASSUME NEW p \in Proc, NEW s, Goto(p, s), Knows(s, applied', recorded'),
             applied \subseteq applied', recorded \subseteq recorded'
      PROVE  Progress'
  <2>1. proc'[p] = s /\ \A x \in Proc \ {p} : proc'[x] = proc[x] BY <1>b DEF TypeOK
  <2>2. Knows(proc'[p], applied', recorded') BY <1>b, <2>1
  <2> QED BY <1>b, <2>1, <2>2, ProgressStep
<1>c. ASSUME NEW p \in Proc, proc[p].pc \in {"check", "record"},
             recorded' \subseteq 1..Versions, proc[p].version \in recorded',
             recorded \subseteq recorded'
      PROVE  Knows(NextFile(proc[p]), applied', recorded')
  <2> DEFINE q == proc[p]
  <2>1. q \in Procs /\ q.version \in 1..Versions /\ 1 .. q.version - 1 \subseteq recorded
    BY <1>c DEF TypeOK, Progress
  <2>2. 1..q.version \subseteq recorded'
    <3>1. 1..q.version = (1 .. q.version - 1) \cup {q.version} BY <2>1
    <3> QED BY <1>c, <2>1, <3>1
  <2>3. CASE q.version < Versions
    <3>1. /\ NextFile(q).pc = "check" /\ NextFile(q).version = q.version + 1
          /\ NextFile(q).srv = "off"
      BY <2>1, <2>3 DEF NextFile
    <3>2. q.version + 1 \in 1..Versions /\ (q.version + 1) - 1 = q.version BY <2>1, <2>3
    <3> QED BY <2>2, <3>1, <3>2 DEF Knows, NextFile
  <2>4. CASE ~(q.version < Versions)
    <3>1. NextFile(q).pc = "notify" /\ NextFile(q).srv = "new" BY <2>4 DEF NextFile
    <3>2. q.version = Versions BY <2>1, <2>4
    <3>3. recorded' = 1..Versions BY <1>c, <2>2, <3>2
    <3> QED BY <3>1, <3>3 DEF Knows, NextFile
  <2> QED BY <2>3, <2>4
<1>2. ASSUME NEW p \in Proc, Open(p) PROVE Progress'
  <2>1. Knows([Down EXCEPT !.pc = "check", !.version = 1], applied', recorded') BY DEF Knows
  <2> QED BY <1>2, <1>b, <2>1 DEF Open
<1>3. ASSUME NEW p \in Proc, Check(p) PROVE Progress'
  <2> DEFINE q == proc[p]
  <2>1. q \in Procs /\ q.pc = "check" /\ Knows(q, applied, recorded) /\ q.version \in 1..Versions
    BY <1>3, ProgressKnows DEF Check, TypeOK, Knows
  <2>2. recorded' \subseteq 1..Versions /\ recorded' = recorded /\ applied' = applied
    BY <1>3 DEF TypeOK, Check
  <2>3. CASE q.version \in recorded
    <3>1. Knows(NextFile(q), applied', recorded') BY <1>c, <2>1, <2>2, <2>3
    <3> QED BY <1>3, <1>b, <2>2, <2>3, <3>1 DEF Check
  <2>4. CASE q.version \notin recorded
    <3>1. Knows([q EXCEPT !.pc = "apply", !.stmt = 1], applied', recorded')
      BY <2>1, <2>2, <2>4 DEF Knows, Procs
    <3> QED BY <1>3, <1>b, <2>2, <2>4, <3>1 DEF Check
  <2> QED BY <2>3, <2>4
<1>4. ASSUME NEW p \in Proc, Apply(p) PROVE Progress'
  <2> DEFINE q == proc[p]
  <2>1. /\ q \in Procs /\ q.pc = "apply" /\ q.version \in 1..Versions /\ q.stmt \in 1..Stmts
        /\ 1 .. q.version - 1 \subseteq recorded /\ q.srv \notin {"new", "up"}
        /\ q.handling = {}
        /\ \A s \in 1 .. q.stmt - 1 : <<q.version, s>> \in applied
    BY <1>4 DEF Apply, TypeOK, Progress
  <2>2. /\ recorded' = recorded /\ applied' = applied \cup {<<q.version, q.stmt>>}
        /\ applied \subseteq applied' /\ recorded \subseteq recorded'
    BY <1>4 DEF Apply
  <2>3. \A s \in 1..q.stmt : <<q.version, s>> \in applied'
    <3>1. \A s \in 1..q.stmt : s \in 1 .. q.stmt - 1 \/ s = q.stmt BY <2>1
    <3> QED BY <2>1, <2>2, <3>1
  <2>4. CASE q.stmt < Stmts
    <3>1. Knows([q EXCEPT !.stmt = @ + 1], applied', recorded')
      <4> DEFINE s == [q EXCEPT !.stmt = @ + 1]
      <4>1. /\ s.pc = "apply" /\ s.version = q.version /\ s.stmt = q.stmt + 1 /\ s.srv = q.srv
            /\ s.handling = q.handling
        BY <2>1 DEF Procs
      <4>2. s.stmt \in 1..Stmts /\ s.stmt - 1 = q.stmt BY <2>1, <2>4, <4>1
      <4> HIDE DEF s
      <4> QED BY <2>1, <2>2, <2>3, <4>1, <4>2 DEF Knows
    <3> QED BY <1>4, <1>b, <2>2, <2>4, <3>1 DEF Apply
  <2>5. CASE ~(q.stmt < Stmts)
    <3>1. Knows([q EXCEPT !.pc = "record"], applied', recorded')
      <4>1. q.stmt = Stmts BY <2>1, <2>5
      <4> QED BY <2>1, <2>2, <2>3, <4>1 DEF Knows, Procs
    <3> QED BY <1>4, <1>b, <2>2, <2>5, <3>1 DEF Apply
  <2> QED BY <2>4, <2>5
<1>5. ASSUME NEW p \in Proc, Record(p) PROVE Progress'
  <2> DEFINE q == proc[p]
  <2>1. applied' = applied BY <1>5 DEF Record
  <2>2. CASE Exit(p) /\ UNCHANGED recorded BY <1>a, <2>1, <2>2
  <2>3. CASE Goto(p, NextFile(q)) /\ recorded' = recorded \cup {q.version}
    <3>1. Knows(NextFile(q), applied', recorded') BY <1>5, <1>c, <2>3 DEF Record, TypeOK
    <3> QED BY <1>b, <2>1, <2>3, <3>1
  <2> QED BY <1>5, <2>2, <2>3 DEF Record
<1>6. ASSUME NEW p \in Proc, Listen(p) PROVE Progress'
  <2>1. applied' = applied /\ recorded' = recorded BY <1>6 DEF Listen
  <2>2. CASE Exit(p) BY <1>a, <2>1, <2>2
  <2>3. CASE Goto(p, [proc[p] EXCEPT !.srv = "up"])
    <3>1. proc[p] \in Procs /\ Knows(proc[p], applied, recorded) /\ proc[p].pc \in {"notify", "wait"}
      BY <1>6, ProgressKnows DEF Listen, TypeOK, Knows
    <3>2. Knows([proc[p] EXCEPT !.srv = "up"], applied', recorded') BY <2>1, <3>1 DEF Knows, Procs
    <3> QED BY <1>b, <2>1, <2>3, <3>2
  <2> QED BY <1>6, <2>2, <2>3 DEF Listen
<1>7. ASSUME NEW p \in Proc, Notify(p) PROVE Progress'
  <2>1. applied' = applied /\ recorded' = recorded BY <1>7 DEF Notify
  <2>2. proc[p] \in Procs /\ Knows(proc[p], applied, recorded) /\ proc[p].pc = "notify"
    BY <1>7, ProgressKnows DEF Notify, TypeOK
  <2>3. Knows([proc[p] EXCEPT !.pc = "wait"], applied', recorded') BY <2>1, <2>2 DEF Knows, Procs
  <2> QED BY <1>7, <1>b, <2>1, <2>3 DEF Notify
<1>8. ASSUME NEW p \in Proc, NEW r \in Req, Accept(p, r) \/ Answer(p, r) PROVE Progress'
  <2>1. applied' = applied /\ recorded' = recorded BY <1>8 DEF Accept, Answer
  <2>2. proc[p] \in Procs /\ Knows(proc[p], applied, recorded) BY ProgressKnows DEF TypeOK
  <2>3. PICK h : /\ Goto(p, [proc[p] EXCEPT !.handling = h])
                 /\ proc[p].srv = "up" \/ proc[p].handling # {}
    BY <1>8 DEF Accept, Answer
  <2>4. Knows([proc[p] EXCEPT !.handling = h], applied', recorded')
    BY <2>1, <2>2, <2>3 DEF Knows, Procs
  <2> QED BY <1>b, <2>1, <2>3, <2>4
<1>9. ASSUME NEW p \in Proc, Signal(p) PROVE Progress'
  <2>1. applied' = applied /\ recorded' = recorded BY <1>9 DEF Signal
  <2>2. CASE Exit(p) BY <1>a, <2>1, <2>2
  <2>3. CASE proc[p].pc = "wait" /\ Goto(p, [proc[p] EXCEPT !.pc = "drain", !.srv = "closed"])
    <3>1. proc[p] \in Procs /\ Knows(proc[p], applied, recorded) BY ProgressKnows DEF TypeOK
    <3>2. Knows([proc[p] EXCEPT !.pc = "drain", !.srv = "closed"], applied', recorded')
      BY <2>1, <2>3, <3>1 DEF Knows, Procs
    <3> QED BY <1>b, <2>1, <2>3, <3>2
  <2> QED BY <1>9, <2>2, <2>3 DEF Signal
<1>10. ASSUME NEW p \in Proc, Drained(p) \/ DrainTimeout(p) \/ Crash(p) PROVE Progress'
  BY <1>10, <1>a DEF Drained, DrainTimeout, Crash
<1> QED BY <1>1, <1>2, <1>3, <1>4, <1>5, <1>6, <1>7, <1>8, <1>9, <1>10
        DEF Next, Startup, Requests

-----------------------------------------------------------------------------
(* The order of the migrations *)

\* No step breaks the order: only Apply and Record touch the tables, and the
\* process that takes them knows enough.
LEMMA OrderPreserved ==
    ASSUME TypeOK, Progress, MigrationsInOrder, [Next]_vars
    PROVE  MigrationsInOrder'
<1>1. CASE applied' = applied /\ recorded' = recorded BY <1>1 DEF MigrationsInOrder
<1>2. ASSUME NEW p \in Proc, Apply(p) PROVE MigrationsInOrder'
  BY <1>2 DEF Apply, MigrationsInOrder, Progress
<1>3. ASSUME NEW p \in Proc, Record(p) PROVE MigrationsInOrder'
  BY <1>3 DEF Record, MigrationsInOrder, Progress
<1> QED BY <1>1, <1>2, <1>3
        DEF Next, vars, Startup, Requests, Open, Check, Listen, Notify, Accept, Answer,
            Signal, Drained, DrainTimeout, Crash

\* The invariant holds throughout: the tables and what each process knows of
\* them, however many processes start, die and are started again.
THEOREM Invariance == Spec => []IInv
<1>1. Init => IInv
  BY VersionsAssumption, InterruptsAssumption, NoneAssumption
     DEF Init, IInv, TypeOK, Procs, MigrationsInOrder, Progress
<1>2. IInv /\ [Next]_vars => IInv'
  BY TypeStep, ProgressPreserved, OrderPreserved DEF IInv
<1> QED BY <1>1, <1>2, PTL DEF Spec

\* The tables, the processes and the address they share stay well formed, and at
\* most one process has the address.
THEOREM TypeCorrect == Spec => []TypeOK
<1>1. IInv => TypeOK BY DEF IInv
<1> QED BY <1>1, Invariance, PTL

\* prd/05, Migration Strategy: versions are applied in order, whole before they
\* are recorded.
THEOREM AppliedInOrder == Spec => []MigrationsInOrder
<1>1. IInv => MigrationsInOrder BY DEF IInv
<1> QED BY <1>1, Invariance, PTL

\* No process serves requests on an incomplete schema.
THEOREM ServesComplete == Spec => []ServesMigrated
<1>1. IInv => ServesMigrated
  <2> SUFFICES ASSUME IInv, NEW p \in Proc, proc[p].srv = "up"
               PROVE  applied = Files /\ recorded = 1..Versions
    BY DEF ServesMigrated
  <2>1. recorded = 1..Versions BY DEF IInv, Progress
  <2>2. Files \subseteq applied
    <3>1. \A v \in 1..Versions : File(v) \subseteq applied BY <2>1 DEF IInv, MigrationsInOrder
    <3> QED BY <3>1
  <2> QED BY <2>1, <2>2 DEF IInv, TypeOK
<1> QED BY <1>1, Invariance, PTL

\* A signal cuts requests off only in a process that serves before it has called
\* signal.Notify: one that is still at its migrations has none.
THEOREM SignalCutsEarly == Spec => SignalsDrain
<1> DEFINE A == lost' \ lost = {"uncaught"} =>
                    \E p \in Proc : /\ proc[p].pc = "notify" /\ proc[p].srv = "up"
                                    /\ proc[p].handling # {} /\ proc'[p].pc = "down"
<1>1. ASSUME IInv, Next, lost' \ lost = {"uncaught"} PROVE A
  <2>1. PICK p \in Proc : Lose(p, "uncaught") /\ Exit(p) /\ proc[p].pc # "wait" /\ Signal(p)
    BY <1>1 DEF Next, Open, Startup, Check, Apply, Record, Notify, Listen, Requests, Accept,
                Answer, Signal, Drained, DrainTimeout, Crash, Lose
  <2>2. proc[p].handling # {}
    BY <1>1, <2>1 DEF Lose
  <2>3. proc[p] \in Procs /\ proc'[p].pc = "down"
    BY <1>1, <2>1 DEF IInv, TypeOK
  <2>4. proc[p].srv = "up" /\ proc[p].pc = "notify"
    BY <1>1, <2>1, <2>2, <2>3 DEF IInv, Progress, Signal, Procs
  <2> QED
    BY <2>1, <2>2, <2>3, <2>4
<1>2. IInv /\ [Next]_vars => [A]_vars
  BY <1>1
<1> QED BY <1>2, Invariance, PTL DEF Spec, SignalsDrain

-----------------------------------------------------------------------------
(* The deployment *)

\* A recorded version has all earlier ones recorded, so the first version that
\* is missing comes after exactly the earlier ones.
LEMMA RecordedPrefix ==
    ASSUME IInv, NEW v \in 1..Versions, v \notin recorded, 1 .. v - 1 \subseteq recorded
    PROVE  recorded = 1 .. v - 1
<1>1. ASSUME NEW w \in recorded PROVE w \in 1 .. v - 1
  <2>1. w \in 1..Versions BY DEF IInv, TypeOK
  <2>2. <<w, 1>> \in applied BY VersionsAssumption DEF IInv, MigrationsInOrder
  <2>3. 1 .. w - 1 \subseteq recorded BY <2>2 DEF IInv, MigrationsInOrder
  <2>4. ~(v < w) BY <2>1, <2>3
  <2> QED BY <2>1, <2>4
<1> QED BY <1>1

\* The requests in the handlers of each process, as the deployment sees them.
Handling == [p \in Proc |-> proc[p].handling]

\* A process that exits is cut off, with whatever it handles.
LEMMA ExitCutsOff ==
    ASSUME TypeOK, NEW p \in Proc, Exit(p), UNCHANGED recorded
    PROVE  Promised!CutOff(p)
<1>1. \A x \in Proc : proc'[x].handling = IF x = p THEN {} ELSE proc[x].handling
  BY DEF TypeOK
<1>2. Handling' = [Handling EXCEPT ![p] = {}] BY <1>1 DEF Handling
<1> QED BY <1>2 DEF Promised!CutOff, Handling

\* A step of a process that changes neither its handlers, nor the address, nor
\* the record of versions, is none of the deployment.
LEMMA InnerStep ==
    ASSUME TypeOK, NEW p \in Proc, NEW q, Goto(p, q), q.handling = proc[p].handling,
           UNCHANGED <<recorded, bound>>
    PROVE  UNCHANGED Promised!deployment
<1>1. \A x \in Proc : proc'[x].handling = proc[x].handling BY DEF TypeOK
<1> QED BY <1>1 DEF Promised!deployment

\* Every step of the processes is a step of the deployment, or none.
LEMMA DeploymentStep ==
    ASSUME IInv, [Next]_vars
    PROVE  [Promised!Next]_(Promised!deployment)
<1> USE VersionsAssumption, NoneAssumption
<1>t. TypeOK BY DEF IInv
<1> DEFINE Goal == [Promised!Next]_(Promised!deployment)
<1>a. ASSUME NEW p \in Proc, Exit(p), UNCHANGED recorded PROVE Goal
  BY <1>a, <1>t, ExitCutsOff DEF Promised!Next
<1>1. CASE UNCHANGED vars BY <1>1 DEF vars, Promised!deployment
<1>2. ASSUME NEW p \in Proc, Open(p) \/ Check(p) \/ Apply(p) \/ Notify(p) PROVE Goal
  <2>1. PICK q : Goto(p, q) /\ q.handling = proc[p].handling
    <3>1. proc[p] \in Procs /\ (proc[p].pc \in {"down", "check"} => proc[p].handling = {})
      BY <1>2, <1>t DEF TypeOK, IInv, Progress
    <3>2. NextFile(proc[p]).handling = {} BY DEF NextFile
    <3>3. CASE Open(p)
      <4>1. [Down EXCEPT !.pc = "check", !.version = 1].handling = {} OBVIOUS
      <4> QED BY <3>1, <3>3, <4>1 DEF Open
    <3>4. CASE Check(p)
      <4>1. [proc[p] EXCEPT !.pc = "apply", !.stmt = 1].handling = proc[p].handling
        BY <3>1 DEF Procs
      <4> QED BY <3>1, <3>2, <3>4, <4>1 DEF Check
    <3>5. CASE Apply(p)
      <4>1. /\ [proc[p] EXCEPT !.stmt = @ + 1].handling = proc[p].handling
            /\ [proc[p] EXCEPT !.pc = "record"].handling = proc[p].handling
        BY <3>1 DEF Procs
      <4> QED BY <3>5, <4>1 DEF Apply
    <3>6. CASE Notify(p)
      <4>1. [proc[p] EXCEPT !.pc = "wait"].handling = proc[p].handling BY <3>1 DEF Procs
      <4> QED BY <3>6, <4>1 DEF Notify
    <3> QED BY <1>2, <3>3, <3>4, <3>5, <3>6
  <2>2. UNCHANGED <<recorded, bound>> BY <1>2 DEF Open, Check, Apply, Notify
  <2> QED BY <1>t, <2>1, <2>2, InnerStep
<1>3. ASSUME NEW p \in Proc, Record(p) PROVE Goal
  <2> DEFINE q == proc[p]
  <2>1. q \in Procs /\ q.version \in 1..Versions /\ 1 .. q.version - 1 \subseteq recorded /\ q.handling = {}
    BY <1>3, <1>t DEF Record, TypeOK, IInv, Progress
  <2>2. CASE q.version \in recorded BY <1>3, <1>a, <2>2 DEF Record
  <2>3. CASE q.version \notin recorded
    <3>1. recorded = 1 .. q.version - 1 BY <2>1, <2>3, RecordedPrefix
    <3>2. recorded' = recorded \cup {q.version} /\ UNCHANGED bound /\ Goto(p, NextFile(q))
      BY <1>3, <2>3 DEF Record
    <3>3. recorded' = 1..q.version BY <2>1, <3>1, <3>2
    <3>4. NextFile(q).handling = {} BY DEF NextFile
    <3>5. \A x \in Proc : proc'[x].handling = proc[x].handling BY <1>t, <2>1, <3>2, <3>4 DEF TypeOK
    <3>6. Promised!Upgrade BY <2>1, <3>1, <3>2, <3>3, <3>5 DEF Promised!Upgrade
    <3> QED BY <3>6 DEF Promised!Next
  <2> QED BY <2>2, <2>3
<1>4. ASSUME NEW p \in Proc, Listen(p) PROVE Goal
  <2>1. CASE bound # None BY <1>4, <1>a, <2>1 DEF Listen
  <2>2. CASE bound = None
    <3>1. proc[p] \in Procs /\ proc[p].handling = {} /\ recorded = 1..Versions
      BY <1>4, <1>t DEF Listen, TypeOK, IInv, Progress, Procs
    <3>2. bound' = p /\ Goto(p, [proc[p] EXCEPT !.srv = "up"]) /\ UNCHANGED recorded
      BY <1>4, <2>2 DEF Listen
    <3>3. \A x \in Proc : proc'[x].handling = proc[x].handling BY <1>t, <3>1, <3>2 DEF TypeOK, Procs
    <3>4. Promised!Serve(p) BY <2>2, <3>1, <3>2, <3>3 DEF Promised!Serve
    <3> QED BY <3>4 DEF Promised!Next
  <2> QED BY <2>1, <2>2
<1>5. ASSUME NEW p \in Proc, NEW r \in Req, Accept(p, r) PROVE Goal
  <2>1. /\ bound = p
        /\ \A x \in Proc : proc'[x].handling = IF x = p THEN proc[p].handling \cup {r}
                                               ELSE proc[x].handling
    BY <1>5, <1>t DEF Accept, TypeOK, Procs
  <2>2. Handling' = [Handling EXCEPT ![p] = @ \cup {r}] BY <2>1 DEF Handling
  <2>3. Promised!Accept(p, r) BY <1>5, <2>1, <2>2 DEF Accept, Handling, Promised!Accept
  <2> QED BY <2>3 DEF Promised!Next
<1>6. ASSUME NEW p \in Proc, NEW r \in Req, Answer(p, r) PROVE Goal
  <2>1. \A x \in Proc : proc'[x].handling = IF x = p THEN proc[p].handling \ {r}
                                            ELSE proc[x].handling
    BY <1>6, <1>t DEF Answer, TypeOK, Procs
  <2>2. Handling' = [Handling EXCEPT ![p] = @ \ {r}] BY <2>1 DEF Handling
  <2>3. Promised!Finish(p, r) BY <1>6, <2>2 DEF Answer, Handling, Promised!Finish
  <2> QED BY <2>3 DEF Promised!Next
<1>7. ASSUME NEW p \in Proc, Signal(p) PROVE Goal
  <2>1. CASE Exit(p) BY <1>7, <1>a, <2>1 DEF Signal
  <2>2. CASE /\ Goto(p, [proc[p] EXCEPT !.pc = "drain", !.srv = "closed"]) /\ Unbind(p)
    <3>1. \A x \in Proc : proc'[x].handling = proc[x].handling BY <1>t, <2>2 DEF TypeOK, Procs
    <3>2. CASE bound = p
      <4>1. Promised!Close(p) BY <1>7, <2>2, <3>1, <3>2 DEF Signal, Promised!Close
      <4> QED BY <4>1 DEF Promised!Next
    <3>3. CASE bound # p
      BY <1>7, <2>2, <3>1, <3>3 DEF Signal, Promised!deployment
    <3> QED BY <3>2, <3>3
  <2> QED BY <1>7, <2>1, <2>2 DEF Signal
<1>8. ASSUME NEW p \in Proc, Drained(p) \/ DrainTimeout(p) \/ Crash(p) PROVE Goal
  BY <1>8, <1>a DEF Drained, DrainTimeout, Crash
<1> QED BY <1>1, <1>2, <1>3, <1>4, <1>5, <1>6, <1>7, <1>8 DEF Next, Startup, Requests

\* However many processes are started on one file and address, and wherever they
\* die, together they are one deployment.
THEOREM OneDeployment == Spec => ImplementsDeployment
<1>1. Init => Promised!Init BY DEF Init, Promised!Init
<1>2. IInv /\ [Next]_vars => [Promised!Next]_(Promised!deployment) BY DeploymentStep
<1> QED BY <1>1, <1>2, Invariance, PTL DEF Spec, ImplementsDeployment, Promised!Spec
=============================================================================
