--------------------------- MODULE CatalogProofs ---------------------------
(***************************************************************************)
(* For any number of handlers, connections, workflows and tasks: types,    *)
(* references on the first connection, deleted workflows and the           *)
(* configuration of tasks.                                                 *)
(***************************************************************************)
EXTENDS Catalog, SequenceTheorems, TLAPS

\* What HandlersReady says of a handler in state q.
Ready(q) ==
    /\ q.pc = "workspace.insert" => q.workspace # None
    /\ q.pc \in {"workflow.insert", "workflow.read", "workflow.update", "workflow.delete",
                 "task.defaults"} => q.name # None
    /\ q.pc = "workflow.insert" => Full(q.sent)
    /\ q.pc = "workflow.update" => Full(q.read)
    /\ q.pc \in {"task.defaults", "task.insert", "task.update"} => q.task # None
    /\ q.pc = "task.defaults" => q.config = Own(q.want) /\ q.want.vis = 0 /\ q.want \in Wants
    /\ q.pc = "task.insert" => \/ q.config = Own(q.want) /\ q.want \in Wants
                               \/ /\ q.config \in Defaults
                                  /\ q.want.vis = 0 /\ q.name # None
    /\ q.pc = "logs.insert" => q.batch # <<>>

LEMMA ReadyAll == HandlersReady <=> \A r \in Req : Ready(req[r])
  BY DEF HandlersReady, Ready

-----------------------------------------------------------------------------
(* Values *)

LEMMA OwnType == \A w \in Wants : Own(w) \in Configs /\ Own(w) # None
<1> TAKE w \in Wants
<1>1. Own(w) \in [vis : Int, max : Int]
  BY DefaultsAssumption DEF Own
<1> QED
  BY <1>1, NoneAssumption DEF Configs

LEMMA IdleType == Idle \in Reqs /\ Ready(Idle) /\ Idle.conn = None
  BY EmptySeq DEF Idle, Reqs, Ready, Workflows, Option, NoWorkflow, Configs

LEMMA MergedFull ==
    ASSUME NEW s \in Workflows, NEW w \in Workflows, Full(w)
    PROVE  Merged(s, w) \in Workflows /\ Full(Merged(s, w)) /\ Merged(s, w) # NoWorkflow
  BY DEF Merged, Full, Workflows, Option, NoWorkflow

\* A request that is accepted.
LEMMA RequestType ==
    ASSUME IInv, NEW r \in Req, Request(r)
    PROVE  \E s \in Reqs : /\ Ready(s) /\ s.conn = None
                           /\ req' = [req EXCEPT ![r] = s]
                           /\ UNCHANGED <<workspaces, workflows, tasks, logs, idle, enforcing>>
<1> USE EmptySeq DEF Idle, Reqs, Ready, Workflows, Option, NoWorkflow
<1>1. ASSUME NEW w \in Workspace
      PROVE  LET s == [Idle EXCEPT !.pc = "workspace.insert", !.workspace = w]
             IN  s \in Reqs /\ Ready(s) /\ s.conn = None
  BY NoneAssumption
<1>2. ASSUME NEW n \in Name, NEW d \in Def, NEW c \in Defaults
      PROVE  LET s == [Idle EXCEPT !.pc = "workflow.insert", !.name = n,
                                   !.sent = [def |-> d, defaults |-> c]]
             IN  s \in Reqs /\ Ready(s) /\ s.conn = None
  <2>1. c # None
    BY NoneAssumption, DefaultsAssumption
  <2> QED
    BY <2>1, NoneAssumption DEF Full
<1>3. ASSUME NEW n \in Name, NEW d \in Option(Def), NEW c \in Option(Defaults)
      PROVE  LET s == [Idle EXCEPT !.pc = "workflow.read", !.name = n,
                                   !.sent = [def |-> d, defaults |-> c]]
             IN  s \in Reqs /\ Ready(s) /\ s.conn = None
  BY NoneAssumption
<1>4. ASSUME NEW n \in Name
      PROVE  LET s == [Idle EXCEPT !.pc = "workflow.delete", !.name = n]
             IN  s \in Reqs /\ Ready(s) /\ s.conn = None
  BY NoneAssumption
<1>5. ASSUME NEW t \in Task, NEW w \in Option(Workspace), NEW n \in Option(Name), NEW v \in Wants
      PROVE  LET s == [Idle EXCEPT !.task = t, !.workspace = w, !.name = n,
                                   !.want = v, !.config = Own(v),
                                   !.pc = IF Inherits(n, v) THEN "task.defaults"
                                          ELSE "task.insert"]
             IN  s \in Reqs /\ Ready(s) /\ s.conn = None
  <2>1. Own(v) \in Configs /\ t # None
    BY OwnType, NoneAssumption
  <2> QED
    BY <2>1 DEF Inherits
<1>6. ASSUME NEW t \in Task, NEW w \in Option(Workspace), NEW n \in Option(Name)
      PROVE  LET s == [Idle EXCEPT !.pc = "task.update", !.task = t, !.workspace = w, !.name = n]
             IN  s \in Reqs /\ Ready(s) /\ s.conn = None
  BY NoneAssumption
<1>7. ASSUME NEW b, b \in UNION {[1..m -> Task] : m \in 1..MaxBatch}
      PROVE  LET s == [Idle EXCEPT !.pc = "logs.insert", !.batch = b]
             IN  s \in Reqs /\ Ready(s) /\ s.conn = None
  <2>1. PICK m \in 1..MaxBatch : b \in [1..m -> Task]
    BY <1>7
  <2>2. b \in Seq(Task) /\ b # <<>>
    <3>1. b \in Seq(Task) /\ Len(b) = m
      BY <2>1, SeqDef
    <3> QED
      BY <2>1, <3>1
  <2> QED
    BY <2>2
<1> HIDE DEF Idle, Reqs, Ready, Workflows, Option, NoWorkflow
<1> DEFINE Begun(op, s) == s \in Reqs /\ Ready(s) /\ s.conn = None /\ Begin(r, op, s)
<1>8. SUFFICES \E op \in AllOps, s \in Reqs : Begun(op, s)
  BY DEF Begin
<1>9. CASE \E w \in Workspace :
             Begin(r, "workspace", [Idle EXCEPT !.pc = "workspace.insert", !.workspace = w])
  BY <1>1, <1>9 DEF AllOps
<1>10. CASE \E n \in Name, d \in Def, c \in Defaults :
              Begin(r, "create", [Idle EXCEPT !.pc = "workflow.insert", !.name = n,
                                              !.sent = [def |-> d, defaults |-> c]])
  BY <1>2, <1>10 DEF AllOps
<1>11. CASE \E n \in Name, d \in Option(Def), c \in Option(Defaults) :
              Begin(r, "update", [Idle EXCEPT !.pc = "workflow.read", !.name = n,
                                              !.sent = [def |-> d, defaults |-> c]])
  BY <1>3, <1>11 DEF AllOps
<1>12. CASE \E n \in Name : Begin(r, "delete", [Idle EXCEPT !.pc = "workflow.delete", !.name = n])
  BY <1>4, <1>12 DEF AllOps
<1>13. ASSUME NEW t \in Task, NEW w \in Option(Workspace), NEW n \in Option(Name), NEW v \in Wants,
              Begin(r, "task", [Idle EXCEPT !.task = t, !.workspace = w, !.name = n,
                                            !.want = v, !.config = Own(v),
                                            !.pc = IF Inherits(n, v) THEN "task.defaults"
                                                   ELSE "task.insert"])
       PROVE  \E op \in AllOps, s \in Reqs : Begun(op, s)
  <2> DEFINE s == [Idle EXCEPT !.task = t, !.workspace = w, !.name = n, !.want = v,
                               !.config = Own(v),
                               !.pc = IF Inherits(n, v) THEN "task.defaults" ELSE "task.insert"]
  <2>1. s \in Reqs /\ Ready(s) /\ s.conn = None
    BY <1>5
  <2>2. Begin(r, "task", s)
    BY <1>13
  <2> HIDE DEF s
  <2> QED
    BY <2>1, <2>2 DEF AllOps
<1>14. ASSUME NEW t \in Task, NEW w \in Option(Workspace), NEW n \in Option(Name),
              Begin(r, "patch", [Idle EXCEPT !.pc = "task.update", !.task = t,
                                             !.workspace = w, !.name = n])
       PROVE  \E op \in AllOps, s \in Reqs : Begun(op, s)
  BY <1>6, <1>14 DEF AllOps
<1>15. CASE \E b \in UNION {[1..m -> Task] : m \in 1..MaxBatch} :
              Begin(r, "logs", [Idle EXCEPT !.pc = "logs.insert", !.batch = b])
  BY <1>7, <1>15 DEF AllOps
<1> QED
  BY <1>9, <1>10, <1>11, <1>12, <1>13, <1>14, <1>15 DEF Request

-----------------------------------------------------------------------------
(* Steps *)

TaskRows == [workspace : Option(Workspace), workflow : Option(Name),
             config : Configs \cup {None}, created : BOOLEAN]
\* What a statement leaves in the tables.
Tables ==
    /\ workspaces \subseteq Workspace /\ logs \subseteq Task
    /\ workflows \in [Name -> Workflows]
    /\ tasks \in [Task -> TaskRows]
    /\ \A t \in Task : tasks[t].created <=> tasks[t].config # None
    /\ RowsFull
Connections ==
    /\ idle \subseteq Conn /\ enforcing \subseteq Conn
    /\ \A r, s \in Req : r # s /\ req[r].conn # None =>
           req[r].conn # req[s].conn /\ req[r].conn \notin idle

LEMMA Parts == IInv <=> /\ Tables /\ Connections /\ req \in [Req -> Reqs]
                        /\ \A r \in Req : Ready(req[r])
  BY ReadyAll DEF IInv, TypeOK, Tables, TaskRows, Connections

\* The parts, after a step.
LEMMA NextParts ==
    ASSUME Tables', Connections', req' \in [Req -> Reqs], \A r \in Req : Ready(req'[r])
    PROVE  IInv'
<1>1. HandlersReady'
  BY DEF HandlersReady, Ready
<1>2. TypeOK' /\ RowsFull'
  BY DEF TypeOK, Tables, TaskRows, Connections
<1> QED
  BY <1>1, <1>2 DEF IInv

\* A handler goes on as s and gives its connection back.
LEMMA ExecutedStep ==
    ASSUME IInv, NEW r \in Req, req[r].conn # None, NEW s \in Reqs, Ready(s),
           Executed(r, s), Tables'
    PROVE  IInv'
<1> DEFINE e == [s EXCEPT !.conn = None]
           c == req[r].conn
<1>1. /\ Tables /\ Connections /\ req \in [Req -> Reqs] /\ \A x \in Req : Ready(req[x])
  BY Parts
<1>2. e \in Reqs /\ Ready(e) /\ e.conn = None
  BY DEF Reqs, Ready, Option
<1>3. c \in Conn
  BY <1>1 DEF Reqs, Option
<1>4. /\ req' = [req EXCEPT ![r] = e]
      /\ idle' = idle \/ idle' = idle \cup {c}
      /\ enforcing' \subseteq enforcing
  BY DEF Executed
<1> HIDE DEF e, c
<1>5. req' \in [Req -> Reqs] /\ \A x \in Req : Ready(req'[x])
  BY <1>1, <1>2, <1>4
<1>6. Connections'
  <2>1. idle' \subseteq Conn /\ enforcing' \subseteq Conn
    BY <1>1, <1>3, <1>4 DEF Connections
  <2>2. ASSUME NEW x \in Req, NEW y \in Req, x # y, req'[x].conn # None
        PROVE  req'[x].conn # req'[y].conn /\ req'[x].conn \notin idle'
    <3>1. x # r /\ req'[x] = req[x]
      BY <1>1, <1>2, <1>4, <2>2
    <3>2. req[x].conn # c /\ req[x].conn \notin idle
      BY <1>1, <2>2, <3>1 DEF Connections, c
    <3>3. req'[x].conn # req'[y].conn
      BY <1>1, <1>2, <1>4, <2>2, <3>1 DEF Connections
    <3> QED
      BY <1>4, <3>1, <3>2, <3>3
  <2> QED
    BY <2>1, <2>2 DEF Connections
<1> QED
  BY <1>5, <1>6, NextParts

LEMMA RequestStep ==
    ASSUME IInv, NEW r \in Req, Request(r)
    PROVE  IInv'
<1>1. PICK s \in Reqs : /\ Ready(s) /\ s.conn = None
                        /\ req' = [req EXCEPT ![r] = s]
                        /\ UNCHANGED <<workspaces, workflows, tasks, logs, idle, enforcing>>
  BY RequestType
<1>2. /\ Tables /\ Connections /\ req \in [Req -> Reqs] /\ \A x \in Req : Ready(req[x])
  BY Parts
<1>3. req' \in [Req -> Reqs] /\ \A x \in Req : Ready(req'[x])
  BY <1>1, <1>2
<1>4. Tables'
  BY <1>1, <1>2 DEF Tables, RowsFull, Exists
<1>5. Connections'
  BY <1>1, <1>2 DEF Connections
<1> QED
  BY <1>3, <1>4, <1>5, NextParts

LEMMA TakeStep ==
    ASSUME IInv, NEW r \in Req, Take(r)
    PROVE  IInv'
<1>1. /\ Tables /\ Connections /\ req \in [Req -> Reqs] /\ \A x \in Req : Ready(req[x])
  BY Parts
<1>2. PICK c \in Conn :
        /\ req' = [req EXCEPT ![r].conn = c]
        /\ \/ c \in idle /\ idle' = idle \ {c}
           \/ idle = {} /\ idle' = {} /\ c \notin {req[x].conn : x \in Req}
        /\ UNCHANGED <<workspaces, workflows, tasks, logs, enforcing>>
  BY <1>1 DEF Take, Connections
<1>3. [req[r] EXCEPT !.conn = c] \in Reqs /\ Ready([req[r] EXCEPT !.conn = c])
  BY <1>1 DEF Reqs, Ready, Option
<1>4. req' \in [Req -> Reqs] /\ \A x \in Req : Ready(req'[x])
  BY <1>1, <1>2, <1>3
<1>5. Tables'
  BY <1>1, <1>2 DEF Tables, RowsFull, Exists
<1>6. Connections'
  <2>1. \A x \in Req : x # r => req'[x] = req[x] /\ req[x].conn # c
    BY <1>1, <1>2, NoneAssumption DEF Connections
  <2>2. req'[r].conn = c /\ c \notin idle' /\ idle' \subseteq idle
    BY <1>1, <1>2 DEF Reqs
  <2> QED
    BY <1>1, <1>2, <2>1, <2>2 DEF Connections
<1> QED
  BY <1>4, <1>5, <1>6, NextParts

\* What a handler knows when its connection is ready.
LEMMA AtStatement ==
    ASSUME IInv, NEW r \in Req, NEW pc, At(r, pc)
    PROVE  /\ req[r] \in Reqs /\ Ready(req[r]) /\ req[r].pc = pc /\ req[r].conn # None
           /\ Tables
  BY Parts DEF At

LEMMA StatementStep ==
    ASSUME IInv, NEW r \in Req, Statement(r)
    PROVE  IInv'
<1> USE IdleType
<1> DEFINE q == req[r]
<1>1. ASSUME InsertWorkspace(r) PROVE IInv'
  <2>1. At(r, "workspace.insert") /\ Executed(r, Idle) /\ UNCHANGED <<workflows, tasks, logs>>
    BY <1>1 DEF InsertWorkspace
  <2>2. q \in Reqs /\ Ready(q) /\ q.pc = "workspace.insert" /\ q.conn # None /\ Tables
    BY <2>1, AtStatement
  <2>3. Tables'
    BY <1>1, <2>1, <2>2 DEF InsertWorkspace, Tables, RowsFull, Exists, Ready, Reqs, Option
  <2> QED
    BY <2>1, <2>2, <2>3, ExecutedStep
<1>2. ASSUME InsertWorkflow(r) PROVE IInv'
  <2>1. At(r, "workflow.insert") /\ Executed(r, Idle) /\ UNCHANGED <<workspaces, tasks, logs>>
    BY <1>2 DEF InsertWorkflow
  <2>2. q \in Reqs /\ Ready(q) /\ q.pc = "workflow.insert" /\ q.conn # None /\ Tables
    BY <2>1, AtStatement
  <2>3. q.name \in Name /\ q.sent \in Workflows /\ Full(q.sent)
    BY <2>2 DEF Ready, Reqs, Option
  <2>4. Tables'
    BY <1>2, <2>1, <2>2, <2>3 DEF InsertWorkflow, Tables, RowsFull, Exists
  <2> QED
    BY <2>1, <2>2, <2>4, ExecutedStep
<1>3. ASSUME ReadWorkflow(r) PROVE IInv'
  <2> DEFINE s == [Goto(r, "workflow.update") EXCEPT !.read = workflows[q.name]]
  <2>1. At(r, "workflow.read") /\ UNCHANGED tables /\ Executed(r, IF Exists(q.name) THEN s ELSE Idle)
    BY <1>3 DEF ReadWorkflow
  <2>2. q \in Reqs /\ Ready(q) /\ q.pc = "workflow.read" /\ q.conn # None /\ Tables
    BY <2>1, AtStatement
  <2>3. q.name \in Name /\ workflows[q.name] \in Workflows
    BY <2>2 DEF Ready, Reqs, Option, Tables
  <2>4. s \in Reqs /\ (Exists(q.name) => Ready(s))
    BY <2>2, <2>3 DEF Goto, Reqs, Ready, Tables, RowsFull
  <2>5. Tables'
    BY <2>1, <2>2 DEF tables, Tables, RowsFull, Exists
  <2> HIDE DEF s
  <2> QED
    BY <2>1, <2>2, <2>4, <2>5, ExecutedStep
<1>4. ASSUME UpdateWorkflow(r) PROVE IInv'
  <2>1. At(r, "workflow.update") /\ Executed(r, Idle) /\ UNCHANGED <<workspaces, tasks, logs>>
    BY <1>4 DEF UpdateWorkflow
  <2>2. q \in Reqs /\ Ready(q) /\ q.pc = "workflow.update" /\ q.conn # None /\ Tables
    BY <2>1, AtStatement
  <2>3. q.name \in Name /\ q.sent \in Workflows /\ q.read \in Workflows /\ Full(q.read)
    BY <2>2 DEF Ready, Reqs, Option
  <2>4. Merged(q.sent, q.read) \in Workflows /\ Full(Merged(q.sent, q.read))
    BY <2>3, MergedFull
  <2>5. Tables'
    BY <1>4, <2>1, <2>2, <2>3, <2>4 DEF UpdateWorkflow, Tables, RowsFull, Exists
  <2> QED
    BY <2>1, <2>2, <2>5, ExecutedStep
<1>5. ASSUME DeleteWorkflow(r) PROVE IInv'
  <2>1. At(r, "workflow.delete") /\ Executed(r, Idle) /\ UNCHANGED <<workspaces, tasks, logs>>
    BY <1>5 DEF DeleteWorkflow
  <2>2. q \in Reqs /\ Ready(q) /\ q.pc = "workflow.delete" /\ q.conn # None /\ Tables
    BY <2>1, AtStatement
  <2>3. q.name \in Name /\ NoWorkflow \in Workflows
    BY <2>2 DEF Ready, Reqs, Option, Workflows, NoWorkflow
  <2>4. workflows' = workflows \/ workflows' = [workflows EXCEPT ![q.name] = NoWorkflow]
    BY <1>5 DEF DeleteWorkflow
  <2>5. Tables'
    BY <2>1, <2>2, <2>3, <2>4 DEF Tables, RowsFull, Exists
  <2> QED
    BY <2>1, <2>2, <2>5, ExecutedStep
<1>6. ASSUME ReadDefaults(r) PROVE IInv'
  <2>1. At(r, "task.defaults") /\ UNCHANGED tables
    BY <1>6 DEF ReadDefaults
  <2>2. q \in Reqs /\ Ready(q) /\ q.pc = "task.defaults" /\ q.conn # None /\ Tables
    BY <2>1, AtStatement
  <2>3. /\ q.name \in Name /\ q.name # None /\ q.want.vis = 0 /\ q.want \in Wants
        /\ q.config = Own(q.want) /\ q.task # None
    BY <2>2 DEF Ready, Reqs, Option
  <2>4. PICK c : /\ c = q.config \/ (Exists(q.name) /\ c = workflows[q.name].defaults)
                 /\ Executed(r, [Goto(r, "task.insert") EXCEPT !.config = c])
    BY <1>6 DEF ReadDefaults
  <2>5. c = q.config \/ c \in Defaults
    BY <2>2, <2>3, <2>4 DEF Tables, RowsFull, Full, Workflows, Option
  <2> DEFINE s == [Goto(r, "task.insert") EXCEPT !.config = c]
  <2>6. s \in Reqs
    BY <2>2, <2>5 DEF Goto, Reqs, Configs
  <2>7. Ready(s)
    BY <2>2, <2>3, <2>5 DEF Goto, Reqs, Ready
  <2>8. Tables'
    BY <2>1, <2>2 DEF tables, Tables, RowsFull, Exists
  <2> HIDE DEF s
  <2> QED
    BY <2>2, <2>4, <2>6, <2>7, <2>8, ExecutedStep DEF s
<1>7. ASSUME InsertTask(r) PROVE IInv'
  <2> DEFINE row == [workspace |-> q.workspace, workflow |-> q.name, config |-> q.config,
                     created |-> TRUE]
  <2>1. At(r, "task.insert") /\ Executed(r, Idle) /\ UNCHANGED <<workspaces, workflows, logs>>
    BY <1>7 DEF InsertTask
  <2>2. q \in Reqs /\ Ready(q) /\ q.pc = "task.insert" /\ q.conn # None /\ Tables
    BY <2>1, AtStatement
  <2>3. q.config \in Configs /\ q.config # None
    BY <2>2, OwnType, NoneAssumption, DefaultsAssumption DEF Ready, Configs
  <2>4. q.task \in Task /\ row \in TaskRows /\ row.created = TRUE /\ row.config # None
    BY <2>2, <2>3 DEF Ready, Reqs, Option, TaskRows
  <2>5. tasks' = tasks \/ tasks' = [tasks EXCEPT ![q.task] = row]
    BY <1>7 DEF InsertTask
  <2> HIDE DEF row
  <2>6. Tables'
    BY <2>1, <2>2, <2>4, <2>5 DEF Tables, RowsFull, Exists
  <2> QED
    BY <2>1, <2>2, <2>6, ExecutedStep
<1>8. ASSUME UpdateTask(r) PROVE IInv'
  <2> DEFINE row == [tasks[q.task] EXCEPT
                       !.workspace = IF q.workspace = None THEN @ ELSE q.workspace,
                       !.workflow = IF q.name = None THEN @ ELSE q.name]
  <2>1. At(r, "task.update") /\ Executed(r, Idle) /\ UNCHANGED <<workspaces, workflows, logs>>
    BY <1>8 DEF UpdateTask
  <2>2. q \in Reqs /\ Ready(q) /\ q.pc = "task.update" /\ q.conn # None /\ Tables
    BY <2>1, AtStatement
  <2>3. q.task \in Task /\ tasks[q.task] \in TaskRows
    BY <2>2 DEF Ready, Reqs, Option, Tables
  <2>4. /\ row \in TaskRows /\ row.created = tasks[q.task].created
        /\ row.config = tasks[q.task].config
    BY <2>2, <2>3 DEF Reqs, TaskRows
  <2>5. tasks' = tasks \/ tasks' = [tasks EXCEPT ![q.task] = row]
    BY <1>8, <2>2, <2>3 DEF UpdateTask, Tables, TaskRows
  <2> HIDE DEF row
  <2>6. Tables'
    BY <2>1, <2>2, <2>3, <2>4, <2>5 DEF Tables, RowsFull, Exists
  <2> QED
    BY <2>1, <2>2, <2>6, ExecutedStep
<1>9. ASSUME InsertLog(r) PROVE IInv'
  <2> DEFINE rest == Tail(q.batch)
             s == [q EXCEPT !.batch = rest]
  <2>1. /\ At(r, "logs.insert") /\ UNCHANGED <<workspaces, workflows, tasks>>
        /\ Executed(r, IF rest = <<>> THEN Idle ELSE s)
    BY <1>9 DEF InsertLog
  <2>2. q \in Reqs /\ Ready(q) /\ q.pc = "logs.insert" /\ q.conn # None /\ Tables
    BY <2>1, AtStatement
  <2>3. q.batch \in Seq(Task) /\ q.batch # <<>>
    BY <2>2 DEF Ready, Reqs
  <2>4. Head(q.batch) \in Task /\ rest \in Seq(Task)
    BY <2>3
  <2>5. s \in Reqs /\ (rest # <<>> => Ready(s))
    BY <2>2, <2>4 DEF Reqs, Ready
  <2>6. Tables'
    BY <1>9, <2>1, <2>2, <2>4 DEF InsertLog, Tables, RowsFull, Exists
  <2> HIDE DEF s, rest
  <2> QED
    BY <2>1, <2>2, <2>5, <2>6, ExecutedStep
<1> QED
  BY <1>1, <1>2, <1>3, <1>4, <1>5, <1>6, <1>7, <1>8, <1>9 DEF Statement

LEMMA InitIInv == Init => IInv
<1> SUFFICES ASSUME Init PROVE IInv
  OBVIOUS
<1>1. NoTask \in TaskRows /\ NoTask.config = None /\ NoTask.created = FALSE
  BY DEF NoTask, TaskRows, Option
<1>2. NoWorkflow \in Workflows
  BY DEF NoWorkflow, Workflows, Option
<1>3. Tables
  BY <1>1, <1>2 DEF Init, Tables, RowsFull, Exists
<1>4. req \in [Req -> Reqs] /\ \A r \in Req : Ready(req[r]) /\ req[r].conn = None
  BY IdleType DEF Init
<1>5. Connections
  BY <1>4, ConnAssumption DEF Init, Connections
<1> QED
  BY <1>3, <1>4, <1>5, Parts

LEMMA NextIInv == IInv /\ [Next]_vars => IInv'
<1> SUFFICES ASSUME IInv, [Next]_vars PROVE IInv'
  OBVIOUS
<1>1. ASSUME NEW r \in Req, Request(r) PROVE IInv'
  BY <1>1, RequestStep
<1>2. ASSUME NEW r \in Req, Take(r) PROVE IInv'
  BY <1>2, TakeStep
<1>3. ASSUME NEW r \in Req, Statement(r) PROVE IInv'
  BY <1>3, StatementStep
<1>4. CASE UNCHANGED vars
  <2>1. Tables' /\ Connections'
    BY <1>4, Parts DEF vars, Tables, RowsFull, Exists, Connections
  <2>2. req' \in [Req -> Reqs] /\ \A r \in Req : Ready(req'[r])
    BY <1>4, Parts DEF vars
  <2> QED
    BY <2>1, <2>2, NextParts
<1> QED
  BY <1>1, <1>2, <1>3, <1>4 DEF Next

THEOREM Invariance == Spec => []IInv
  BY InitIInv, NextIInv, PTL DEF Spec

\* For any number of handlers and connections the tables and the handlers keep
\* their types, and no connection is in two hands.
THEOREM TypeCorrect == Spec => []TypeOK
<1>1. IInv => TypeOK
  BY DEF IInv
<1> QED
  BY <1>1, Invariance, PTL

-----------------------------------------------------------------------------
(* References *)

\* A step of a handler whose connection enforces foreign keys.
LEMMA ReferencesStep ==
    ASSUME IInv, NEW r \in Req, Statement(r), ReferencesHold, req[r].conn \in enforcing
    PROVE  ReferencesHold'
<1> DEFINE q == req[r]
<1>1. q \in Reqs /\ Ready(q) /\ Tables
  BY Parts
<1>2. \A t \in Task : tasks[t] \in TaskRows /\ Refers(tasks[t].workspace, tasks[t].workflow)
  BY <1>1 DEF Tables, ReferencesHold
<1>3. \A t \in logs : t \in Task /\ tasks[t].created
  BY <1>1 DEF Tables, ReferencesHold
<1>4. ASSUME workspaces \subseteq workspaces', \A n \in Name : Exists(n) => Exists(n)',
             UNCHANGED <<tasks, logs>>
      PROVE  ReferencesHold'
  BY <1>1, <1>2, <1>3, <1>4 DEF ReferencesHold, Refers, TaskRows, Option
<1>5. ASSUME InsertWorkspace(r) PROVE ReferencesHold'
  BY <1>4, <1>5 DEF InsertWorkspace, Exists
<1>6. ASSUME InsertWorkflow(r) PROVE ReferencesHold'
  <2>1. q.pc = "workflow.insert" /\ Full(q.sent)
    BY <1>1, <1>6 DEF InsertWorkflow, At, Ready
  <2>2. \A n \in Name : Exists(n) => Exists(n)'
    BY <1>1, <1>6, <2>1 DEF InsertWorkflow, Exists, Full, NoWorkflow, Tables
  <2> QED
    BY <1>4, <1>6, <2>2 DEF InsertWorkflow
<1>7. ASSUME ReadWorkflow(r) \/ ReadDefaults(r) PROVE ReferencesHold'
  BY <1>4, <1>7 DEF ReadWorkflow, ReadDefaults, tables, Exists
<1>8. ASSUME UpdateWorkflow(r) PROVE ReferencesHold'
  <2>1. q.pc = "workflow.update" /\ Full(q.read) /\ q.read \in Workflows /\ q.sent \in Workflows
    BY <1>1, <1>8 DEF UpdateWorkflow, At, Ready, Reqs
  <2>2. Merged(q.sent, q.read) # NoWorkflow
    BY <2>1, MergedFull
  <2>3. \A n \in Name : Exists(n) => Exists(n)'
    BY <1>1, <1>8, <2>2 DEF UpdateWorkflow, Exists, Tables
  <2> QED
    BY <1>4, <1>8, <2>3 DEF UpdateWorkflow
<1>9. ASSUME DeleteWorkflow(r) PROVE ReferencesHold'
  <2>1. UNCHANGED <<workspaces, tasks, logs>>
    BY <1>9 DEF DeleteWorkflow
  <2>2. CASE workflows' = workflows
    BY <1>4, <2>1, <2>2 DEF Exists
  <2>3. CASE workflows' # workflows
    <3>1. /\ \A t \in Task : tasks[t].workflow # q.name
          /\ workflows' = [workflows EXCEPT ![q.name] = NoWorkflow]
      BY <1>9, <2>3 DEF DeleteWorkflow, Enforced
    <3>2. \A t \in Task : tasks[t].workflow \in Name =>
                             workflows'[tasks[t].workflow] = workflows[tasks[t].workflow]
      BY <1>1, <3>1 DEF Tables
    <3> QED
      BY <1>2, <1>3, <2>1, <3>2 DEF ReferencesHold, Refers, Exists, TaskRows, Option
  <2> QED
    BY <2>2, <2>3
<1>10. ASSUME InsertTask(r) PROVE ReferencesHold'
  <2>1. UNCHANGED <<workspaces, workflows, logs>>
    BY <1>10 DEF InsertTask
  <2>2. CASE tasks' = tasks
    BY <1>4, <2>1, <2>2 DEF Exists
  <2>3. CASE tasks' # tasks
    <3> DEFINE row == [workspace |-> q.workspace, workflow |-> q.name,
                       config |-> q.config, created |-> TRUE]
    <3>1. Refers(q.workspace, q.name) /\ tasks' = [tasks EXCEPT ![q.task] = row]
      BY <1>10, <2>3 DEF InsertTask, Enforced
    <3>2. row.workspace = q.workspace /\ row.workflow = q.name /\ row.created = TRUE
      OBVIOUS
    <3> HIDE DEF row
    <3>3. \A t \in Task : \/ tasks'[t] = tasks[t]
                           \/ tasks'[t] = row
      BY <1>1, <3>1 DEF Tables
    <3> QED
      BY <1>2, <1>3, <2>1, <3>1, <3>2, <3>3 DEF ReferencesHold, Refers, Exists
  <2> QED
    BY <2>2, <2>3
<1>11. ASSUME UpdateTask(r) PROVE ReferencesHold'
  <2>1. UNCHANGED <<workspaces, workflows, logs>>
    BY <1>11 DEF UpdateTask
  <2>2. CASE tasks' = tasks
    BY <1>4, <2>1, <2>2 DEF Exists
  <2>3. CASE tasks' # tasks
    <3>1. Refers(q.workspace, q.name)
      BY <1>11, <2>3 DEF UpdateTask, Enforced
    <3>2. \A t \in Task :
            /\ tasks'[t].created = tasks[t].created
            /\ tasks'[t].workspace \in {tasks[t].workspace, q.workspace}
            /\ tasks'[t].workflow \in {tasks[t].workflow, q.name}
      BY <1>1, <1>2, <1>11, <2>3 DEF UpdateTask, Tables, TaskRows
    <3> QED
      BY <1>2, <1>3, <2>1, <3>1, <3>2 DEF ReferencesHold, Refers, Exists
  <2> QED
    BY <2>2, <2>3
<1>12. ASSUME InsertLog(r) PROVE ReferencesHold'
  <2>1. /\ UNCHANGED <<workspaces, workflows, tasks>>
        /\ \A t \in logs' : t \in logs \/ tasks[t].created
    BY <1>12 DEF InsertLog, Enforced
  <2> QED
    BY <1>2, <1>3, <2>1 DEF ReferencesHold, Refers, Exists
<1> QED
  BY <1>5, <1>6, <1>7, <1>8, <1>9, <1>10, <1>11, <1>12 DEF Statement

\* Whatever handlers do, references hold as long as the connections they have
\* are ones that ran PRAGMA foreign_keys=ON.
THEOREM FirstConnection == Spec => FirstConnectionKeepsReferences
<1>1. ASSUME IInv, [Next]_vars, \A r \in Req : req[r].conn \in Option(enforcing), ReferencesHold
      PROVE  ReferencesHold'
  <2>1. CASE UNCHANGED <<workspaces, workflows, tasks, logs>>
    BY <1>1, <2>1 DEF ReferencesHold, Refers, Exists
  <2>2. CASE UNCHANGED vars
    BY <2>1, <2>2 DEF vars
  <2>3. ASSUME NEW r \in Req, Request(r) PROVE ReferencesHold'
    BY <1>1, <2>1, <2>3, RequestType
  <2>4. ASSUME NEW r \in Req, Take(r) PROVE ReferencesHold'
    BY <2>1, <2>4 DEF Take
  <2>5. ASSUME NEW r \in Req, Statement(r) PROVE ReferencesHold'
    <3>1. req[r].conn # None
      BY <2>5 DEF Statement, InsertWorkspace, InsertWorkflow, ReadWorkflow, UpdateWorkflow,
                  DeleteWorkflow, ReadDefaults, InsertTask, UpdateTask, InsertLog, At
    <3>2. req[r].conn \in enforcing
      BY <1>1, <3>1 DEF Option
    <3> QED
      BY <1>1, <2>5, <3>2, ReferencesStep
  <2> QED
    BY <1>1, <2>2, <2>3, <2>4, <2>5 DEF Next
<1> QED
  BY <1>1, Invariance, PTL DEF Spec, FirstConnectionKeepsReferences

-----------------------------------------------------------------------------
(* Workflows and the configuration of tasks *)

\* What a step does to the tables when it is no statement.
LEMMA OnlyStatements ==
    ASSUME IInv, [Next]_vars, ~(\E r \in Req : Statement(r))
    PROVE  UNCHANGED <<workspaces, workflows, tasks, logs>>
<1>1. ASSUME NEW r \in Req, Request(r) PROVE UNCHANGED <<workspaces, workflows, tasks, logs>>
  BY <1>1, RequestType
<1>2. ASSUME NEW r \in Req, Take(r) PROVE UNCHANGED <<workspaces, workflows, tasks, logs>>
  BY <1>2 DEF Take
<1> QED
  BY <1>1, <1>2 DEF Next, vars

\* A PUT that read a workflow before it was deleted does not bring it back.
THEOREM DeletedStays == Spec => DeletedStaysDeleted
<1>1. ASSUME IInv, [Next]_vars, NEW n \in Name, ~Exists(n), Exists(n)'
      PROVE  \E r \in Req : At(r, "workflow.insert") /\ req[r].name = n
  <2>1. workflows' # workflows
    BY <1>1 DEF Exists
  <2>2. PICK r \in Req : Statement(r)
    BY <1>1, <2>1, OnlyStatements
  <2>3. Tables
    BY <1>1, Parts
  <2>4. CASE InsertWorkflow(r)
    BY <1>1, <2>3, <2>4 DEF InsertWorkflow, Exists, Tables
  <2>5. ~UpdateWorkflow(r)
    BY <1>1, <2>3 DEF UpdateWorkflow, Exists, Tables
  <2>6. ~DeleteWorkflow(r)
    BY <1>1, <2>3 DEF DeleteWorkflow, Exists, Tables
  <2> QED
    BY <2>1, <2>2, <2>4, <2>5, <2>6
    DEF Statement, InsertWorkspace, ReadWorkflow, ReadDefaults, InsertTask, UpdateTask,
        InsertLog, tables
<1> DEFINE Kind == \A n \in Name :
        ~Exists(n) /\ Exists(n)' =>
            \E r \in Req : At(r, "workflow.insert") /\ req[r].name = n
<1>2. IInv /\ [Next]_vars => [Kind]_vars
  BY <1>1
<1>3. Spec => [][Kind]_vars
  <2> HIDE DEF Kind
  <2> QED
    BY <1>2, Invariance, PTL DEF Spec
<1> QED
  BY <1>3 DEF DeletedStaysDeleted
=============================================================================
