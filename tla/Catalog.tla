------------------------------ MODULE Catalog ------------------------------
(***************************************************************************)
(* The tables beside the queue and what refers to them: workflows          *)
(* (src/internal/api/workflows.go), workspaces (workspaces.go), the        *)
(* columns of tasks that refer to them or are filled from them (tasks.go,  *)
(* classify.go) and the rows of task_logs (api.go).                        *)
(*                                                                         *)
(* A handler takes a connection of the pool of database/sql for every      *)
(* statement and gives it back after it.  SQLite enforces foreign keys     *)
(* only on a connection that ran PRAGMA foreign_keys=ON, and db.Open runs  *)
(* it once, on the connection that happens to be the first.  Of a          *)
(* workflow's columns two are kept, the definition and the defaults, and   *)
(* of these the visibility timeout and the attempts (the backoff is        *)
(* treated as the attempts are); a workspace stands for its id and its     *)
(* name; log rows are known by the task they refer to.  A statement that   *)
(* finds the database locked fails and changes nothing, as if it had not   *)
(* been sent.                                                              *)
(***************************************************************************)
EXTENDS Integers, FiniteSets, Sequences

CONSTANTS
    Name,       \* names of workflows
    Def,        \* definitions
    Defaults,   \* default timeout and attempts of a workflow
    Hard,       \* those of a task without: 300 and 3
    Wants,      \* what requests for a task give of them, 0 for what they do not
    Workspace,  \* the ids newID() may draw for workspaces
    Task,       \* the ids it may draw for tasks
    Req,        \* handler goroutines that may be in progress at once
    Conn,       \* connections, the first among them
    First,      \* the connection db.Open left in the pool
    MaxIdle,    \* idle connections the pool keeps, 2 in database/sql
    MaxBatch,   \* bound on the rows of one POST /api/logs
    Ops,        \* the operations clients call
    None        \* SQL NULL, and what a request leaves out

AllOps == {"workspace", "create", "update", "delete", "task", "patch", "logs"}

ASSUME NoneAssumption == /\ None \notin Name \cup Def \cup Workspace \cup Task \cup Conn
                         /\ None \notin [vis : Int, max : Int]
ASSUME DefaultsAssumption ==
    Defaults \cup Wants \cup {Hard} \subseteq [vis : Int, max : Int]
ASSUME ConnAssumption == First \in Conn /\ MaxIdle \in Nat \ {0}
ASSUME OpsAssumption == Ops \subseteq AllOps

VARIABLES
    workspaces, \* ids of the rows of table workspaces
    workflows,  \* table workflows
    tasks,      \* table tasks: the references, visibility_timeout_s and max_attempts
    logs,       \* the task_ids of the rows of task_logs
    req,        \* local state of each handler
    idle,       \* connections in the pool that no handler holds
    enforcing   \* connections that enforce foreign keys

tables == <<workspaces, workflows, tasks, logs>>
vars == <<workspaces, workflows, tasks, logs, req, idle, enforcing>>

Option(S) == S \cup {None}
NoWorkflow == [def |-> None, defaults |-> None]
Exists(n) == workflows[n] # NoWorkflow
NoTask == [workspace |-> None, workflow |-> None, config |-> None, created |-> FALSE]

\* pc: the next statement; conn: the connection taken for it.
Idle == [pc |-> "idle", conn |-> None, name |-> None, sent |-> NoWorkflow,
         read |-> NoWorkflow, task |-> None, workspace |-> None, want |-> Hard,
         config |-> None, batch |-> <<>>]

-----------------------------------------------------------------------------
(* The pool *)

\* Variant: a connection in use is still found in the pool.
TakeShared(r) ==
    /\ req[r].pc # "idle" /\ req[r].conn = None
    /\ \E c \in idle : req' = [req EXCEPT ![r].conn = c]
    /\ UNCHANGED <<workspaces, workflows, tasks, logs, idle, enforcing>>

\* An idle connection if there is one, else a new one, on which the PRAGMA
\* has not run.
Take(r) ==
    /\ req[r].pc # "idle" /\ req[r].conn = None
    /\ \/ \E c \in idle : /\ req' = [req EXCEPT ![r].conn = c]
                          /\ idle' = idle \ {c}
       \/ /\ idle = {}
          /\ \E c \in Conn \ ({req[x].conn : x \in Req} \cup enforcing) :
                req' = [req EXCEPT ![r].conn = c]
          /\ UNCHANGED idle
    /\ UNCHANGED <<workspaces, workflows, tasks, logs, enforcing>>

\* The statement is done: its connection goes back, or is closed when the pool
\* has enough of them, and the handler goes on as s.
Executed(r, s) ==
    LET c == req[r].conn IN
    /\ req' = [req EXCEPT ![r] = [s EXCEPT !.conn = None]]
    /\ IF Cardinality(idle) < MaxIdle
       THEN idle' = idle \cup {c} /\ UNCHANGED enforcing
       ELSE enforcing' = enforcing \ {c} /\ UNCHANGED idle

At(r, pc) == req[r].pc = pc /\ req[r].conn # None
Goto(r, pc) == [req[r] EXCEPT !.pc = pc]

\* Variant: foreign keys are never enforced.
NotEnforced(r, ok) == TRUE
\* A foreign key constraint whose condition is ok.
Enforced(r, ok) == req[r].conn \in enforcing => ok

-----------------------------------------------------------------------------
(* Requests *)

\* The values a request gives, and 300 and 3 for the others.
Own(w) == [vis |-> IF w.vis > 0 THEN w.vis ELSE Hard.vis,
           max |-> IF w.max > 0 THEN w.max ELSE Hard.max]
\* Whether the workflow's defaults are asked for: the timeout alone decides.
Inherits(n, w) == n # None /\ w.vis = 0

Begin(r, op, s) ==
    /\ op \in Ops /\ req[r].pc = "idle"
    /\ req' = [req EXCEPT ![r] = s]
    /\ UNCHANGED <<workspaces, workflows, tasks, logs, idle, enforcing>>

Request(r) ==
    \/ \E w \in Workspace :
         Begin(r, "workspace", [Idle EXCEPT !.pc = "workspace.insert", !.workspace = w])
    \/ \E n \in Name, d \in Def, c \in Defaults :
         Begin(r, "create", [Idle EXCEPT !.pc = "workflow.insert", !.name = n,
                                         !.sent = [def |-> d, defaults |-> c]])
    \/ \E n \in Name, d \in Option(Def), c \in Option(Defaults) :
         Begin(r, "update", [Idle EXCEPT !.pc = "workflow.read", !.name = n,
                                         !.sent = [def |-> d, defaults |-> c]])
    \/ \E n \in Name : Begin(r, "delete", [Idle EXCEPT !.pc = "workflow.delete", !.name = n])
    \/ \E t \in Task, w \in Option(Workspace), n \in Option(Name) :
         \/ \E v \in Wants :
              Begin(r, "task", [Idle EXCEPT !.task = t, !.workspace = w, !.name = n,
                                            !.want = v, !.config = Own(v),
                                            !.pc = IF Inherits(n, v) THEN "task.defaults"
                                                   ELSE "task.insert"])
         \/ tasks[t].created /\ Begin(r, "patch", [Idle EXCEPT !.pc = "task.update", !.task = t,
                                                              !.workspace = w, !.name = n])
    \/ \E b \in UNION {[1..m -> Task] : m \in 1..MaxBatch} :
         Begin(r, "logs", [Idle EXCEPT !.pc = "logs.insert", !.batch = b])

-----------------------------------------------------------------------------
(* Workspaces and workflows *)

\* A name that is taken is answered 409.
InsertWorkspace(r) ==
    /\ At(r, "workspace.insert")
    /\ workspaces' = workspaces \cup {req[r].workspace}
    /\ Executed(r, Idle)
    /\ UNCHANGED <<workflows, tasks, logs>>

\* 409 if the name exists.
InsertWorkflow(r) ==
    LET n == req[r].name IN
    /\ At(r, "workflow.insert")
    /\ workflows' = IF Exists(n) THEN workflows ELSE [workflows EXCEPT ![n] = req[r].sent]
    /\ Executed(r, Idle)
    /\ UNCHANGED <<workspaces, tasks, logs>>

ReadWorkflow(r) ==
    LET n == req[r].name IN
    /\ At(r, "workflow.read")
    /\ Executed(r, IF Exists(n) THEN [Goto(r, "workflow.update") EXCEPT !.read = workflows[n]]
                   ELSE Idle)
    /\ UNCHANGED tables

\* What the request names replaces what was read.
Merged(sent, read) == [def |-> IF sent.def = None THEN read.def ELSE sent.def,
                       defaults |-> IF sent.defaults = None THEN read.defaults
                                    ELSE sent.defaults]

\* Variant: INSERT OR REPLACE.
ReplaceWorkflow(r) ==
    /\ At(r, "workflow.update")
    /\ workflows' = [workflows EXCEPT ![req[r].name] = Merged(req[r].sent, req[r].read)]
    /\ Executed(r, Idle)
    /\ UNCHANGED <<workspaces, tasks, logs>>

\* Every column is written, from the row as it was read: a column another PUT
\* wrote meanwhile is written back.  No row is no error: a workflow deleted
\* meanwhile is answered as updated.
UpdateWorkflow(r) ==
    LET n == req[r].name IN
    /\ At(r, "workflow.update")
    /\ workflows' = IF Exists(n)
                    THEN [workflows EXCEPT ![n] = Merged(req[r].sent, req[r].read)]
                    ELSE workflows
    /\ Executed(r, Idle)
    /\ UNCHANGED <<workspaces, tasks, logs>>

\* 404 without the row; a foreign key that is enforced fails the statement.
DeleteWorkflow(r) ==
    LET n == req[r].name IN
    /\ At(r, "workflow.delete")
    /\ workflows' = IF Enforced(r, \A t \in Task : tasks[t].workflow # n)
                    THEN [workflows EXCEPT ![n] = NoWorkflow] ELSE workflows
    /\ Executed(r, Idle)
    /\ UNCHANGED <<workspaces, tasks, logs>>

-----------------------------------------------------------------------------
(* Tasks and logs *)

\* The references a task row may hold when they are enforced.
Refers(w, n) == (w = None \/ w \in workspaces) /\ (n = None \/ Exists(n))

\* The three defaults replace all three values, an attempts limit the request gave
\* too.  No such workflow, or any other error, is dropped.
ReadDefaults(r) ==
    LET q == req[r] IN
    /\ At(r, "task.defaults")
    /\ \E c \in {q.config} \cup (IF Exists(q.name) THEN {workflows[q.name].defaults} ELSE {}) :
         Executed(r, [Goto(r, "task.insert") EXCEPT !.config = c])
    /\ UNCHANGED tables

\* POST /api/tasks and POST /api/classify, which gives none of the values; an id
\* is drawn only once.
InsertTask(r) ==
    LET q == req[r] IN
    /\ At(r, "task.insert")
    /\ tasks' = IF ~tasks[q.task].created /\ Enforced(r, Refers(q.workspace, q.name))
                THEN [tasks EXCEPT ![q.task] = [workspace |-> q.workspace,
                                                workflow |-> q.name, config |-> q.config,
                                                created |-> TRUE]]
                ELSE tasks
    /\ Executed(r, Idle)
    /\ UNCHANGED <<workspaces, workflows, logs>>

\* PATCH /api/tasks/{id}: sets the columns the request names.
UpdateTask(r) ==
    LET q == req[r] IN
    /\ At(r, "task.update")
    /\ tasks' = IF Enforced(r, Refers(q.workspace, q.name))
                THEN [tasks EXCEPT
                        ![q.task].workspace = IF q.workspace = None THEN @ ELSE q.workspace,
                        ![q.task].workflow = IF q.name = None THEN @ ELSE q.name]
                ELSE tasks
    /\ Executed(r, Idle)
    /\ UNCHANGED <<workspaces, workflows, logs>>

\* Each row is a statement of its own; one that fails is skipped.
InsertLog(r) ==
    LET t == Head(req[r].batch)  rest == Tail(req[r].batch) IN
    /\ At(r, "logs.insert")
    /\ logs' = IF Enforced(r, tasks[t].created) THEN logs \cup {t} ELSE logs
    /\ Executed(r, IF rest = <<>> THEN Idle ELSE [req[r] EXCEPT !.batch = rest])
    /\ UNCHANGED <<workspaces, workflows, tasks>>

-----------------------------------------------------------------------------
Init ==
    /\ workspaces = {} /\ logs = {}
    /\ workflows = [n \in Name |-> NoWorkflow]
    /\ tasks = [t \in Task |-> NoTask]
    /\ req = [r \in Req |-> Idle]
    /\ idle = {First}
    /\ enforcing = {First}

Statement(r) ==
    \/ InsertWorkspace(r) \/ InsertWorkflow(r) \/ ReadWorkflow(r) \/ UpdateWorkflow(r)
    \/ DeleteWorkflow(r) \/ ReadDefaults(r) \/ InsertTask(r) \/ UpdateTask(r) \/ InsertLog(r)

Next == \E r \in Req : Request(r) \/ Take(r) \/ Statement(r)

Spec == Init /\ [][Next]_vars

-----------------------------------------------------------------------------
Configs == Defaults \cup {Own(w) : w \in Wants}
Workflows == [def : Option(Def), defaults : Option(Defaults)]
Reqs == [pc : {"idle", "workspace.insert", "workflow.insert", "workflow.read",
               "workflow.update", "workflow.delete", "task.defaults", "task.insert",
               "task.update", "logs.insert"},
         conn : Option(Conn), name : Option(Name), sent : Workflows, read : Workflows,
         task : Option(Task), workspace : Option(Workspace), want : Wants \cup {Hard},
         config : Configs \cup {None}, batch : Seq(Task)]

\* The variables hold what they may hold, and no two handlers share a
\* connection.
TypeOK ==
    /\ workspaces \subseteq Workspace /\ logs \subseteq Task
    /\ workflows \in [Name -> Workflows]
    /\ tasks \in [Task -> [workspace : Option(Workspace), workflow : Option(Name),
                           config : Configs \cup {None}, created : BOOLEAN]]
    /\ \A t \in Task : tasks[t].created <=> tasks[t].config # None
    /\ req \in [Req -> Reqs]
    /\ idle \subseteq Conn /\ enforcing \subseteq Conn
    /\ \A r, s \in Req : r # s /\ req[r].conn # None =>
           req[r].conn # req[s].conn /\ req[r].conn \notin idle

\* prd/05: workspace_id, workflow_name and task_logs.task_id are references.
ReferencesHold ==
    /\ \A t \in Task : Refers(tasks[t].workspace, tasks[t].workflow)
    /\ \A t \in logs : tasks[t].created

\* As long as handlers have used no other connection than the first, whatever
\* they inserted, patched, deleted or logged, references hold.
FirstConnectionKeepsReferences == [][
    (\A r \in Req : req[r].conn \in Option(enforcing))
        => (ReferencesHold => ReferencesHold')]_vars

\* A deleted workflow comes back only with a new POST: no PUT that read it
\* before writes it again.
DeletedStaysDeleted == [][\A n \in Name :
    ~Exists(n) /\ Exists(n)' =>
        \E r \in Req : At(r, "workflow.insert") /\ req[r].name = n]_vars

-----------------------------------------------------------------------------
(* What a document says *)

\* prd/03, FR-09, of the body of POST /api/tasks: "visibility_timeout_s,
\* max_attempts, retry_backoff_s - override workflow defaults".  A task gets each
\* of the values its request gives.
GivenValuesOverride == [][\A r \in Req : LET given == req[r].want
                                            t == req[r].task IN
    InsertTask(r) /\ ~tasks[t].created /\ tasks'[t].created =>
        /\ given.vis > 0 => tasks'[t].config.vis = given.vis
        /\ given.max > 0 => tasks'[t].config.max = given.max]_vars

-----------------------------------------------------------------------------
(* Why they hold *)

\* The columns of a workflow are NOT NULL, and what a handler has read, or was
\* sent to create, has them all.
Full(w) == w.def # None /\ w.defaults # None
RowsFull == \A n \in Name : Exists(n) => Full(workflows[n])

\* What a handler has at each of its statements.
HandlersReady == \A r \in Req : LET q == req[r] IN
    /\ q.pc = "workspace.insert" => q.workspace # None
    /\ q.pc \in {"workflow.insert", "workflow.read", "workflow.update", "workflow.delete",
                 "task.defaults"} => q.name # None
    /\ q.pc = "workflow.insert" => Full(q.sent)
    /\ q.pc = "workflow.update" => Full(q.read)
    /\ q.pc \in {"task.defaults", "task.insert", "task.update"} => q.task # None
    /\ q.pc = "task.defaults" => q.config = Own(q.want) /\ q.want.vis = 0 /\ q.want \in Wants
    /\ q.pc = "task.insert" => \/ q.config = Own(q.want) /\ q.want \in Wants
                               \/ /\ q.config \in Defaults
                                  /\ q.want.vis = 0 /\ q.name # None
    /\ q.pc = "logs.insert" => q.batch # <<>>

IInv == TypeOK /\ RowsFull /\ HandlersReady
=============================================================================
