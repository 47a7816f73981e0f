------------------------------ MODULE Service ------------------------------
(***************************************************************************)
(* The life of an atc process: src/cmd/atc/main.go and the migrations of   *)
(* src/internal/db/db.go.  Several processes may run on one database file, *)
(* as when a new one is started while the old one drains.                  *)
(*                                                                         *)
(* Every statement of a migration autocommits, and nothing ties the check, *)
(* the statements and the record of a version together: a process that     *)
(* dies in between leaves a version half applied, or applied and not       *)
(* recorded.  A statement that fails ends the process like a crash.        *)
(***************************************************************************)
EXTENDS Naturals

CONSTANTS
    Proc,           \* processes started on the same file and address
    Req,            \* HTTP requests that may be in a handler
    Versions,       \* number of migration files, applied in the order 1, 2, ...
    Stmts,          \* number of SQL statements in each file
    None,
    MaxInterrupts   \* bound on the crashes and the signals

ASSUME VersionsAssumption == Versions \in Nat \ {0} /\ Stmts \in Nat \ {0}
ASSUME InterruptsAssumption == MaxInterrupts \in Nat
ASSUME NoneAssumption == None \notin Proc

VARIABLES
    applied,    \* <<v, s>>: the schema has what statement s of version v creates
    recorded,   \* table schema_migrations: the versions in it
    proc,       \* each process
    bound,      \* the process that listens on the address
    lost,       \* why requests were cut off, of those that were
    interrupts  \* crashes and signals so far

vars == <<applied, recorded, proc, bound, lost, interrupts>>

File(v) == {<<v, s>> : s \in 1..Stmts}
Files == (1..Versions) \X (1..Stmts)

\* pc: where main() is; srv: the goroutine that listens and serves;
\* handling: the requests whose connections the listener has accepted and whose
\* handlers have not returned.  Shutdown waits for all of these, also for a handler
\* that has yet to start.
Down == [pc |-> "down", version |-> 0, stmt |-> 0, srv |-> "off", handling |-> {}]

Goto(p, s) == proc' = [proc EXCEPT ![p] = s]
Unbind(p) == bound' = IF bound = p THEN None ELSE bound
Exit(p) == Goto(p, Down) /\ Unbind(p)
Lose(p, cause) == lost' = IF proc[p].handling = {} THEN lost ELSE lost \cup {cause}
Interrupt == interrupts < MaxInterrupts /\ interrupts' = interrupts + 1

-----------------------------------------------------------------------------
(* db.Open and runMigrations *)

\* The PRAGMAs and CREATE TABLE IF NOT EXISTS schema_migrations change nothing
\* that the next start would not do again.
Open(p) ==
    /\ proc[p].pc = "down"
    /\ Goto(p, [Down EXCEPT !.pc = "check", !.version = 1])
    /\ UNCHANGED <<applied, recorded, bound, lost, interrupts>>

\* Variant: the loop runs once too often.
NextFileLate(q) == IF q.version <= Versions
                   THEN [Down EXCEPT !.pc = "check", !.version = q.version + 1]
                   ELSE [Down EXCEPT !.pc = "notify", !.srv = "new"]
\* The next file; after the last one the listener and the loop are started.
NextFile(q) == IF q.version < Versions
            THEN [Down EXCEPT !.pc = "check", !.version = q.version + 1]
            ELSE [Down EXCEPT !.pc = "notify", !.srv = "new"]

\* Variant: COUNT(*) without WHERE version = ?.
CheckCount(p) ==
    LET q == proc[p] IN
    /\ q.pc = "check"
    /\ Goto(p, IF recorded # {} THEN NextFile(q) ELSE [q EXCEPT !.pc = "apply", !.stmt = 1])
    /\ UNCHANGED <<applied, recorded, bound, lost, interrupts>>

Check(p) ==
    LET q == proc[p] IN
    /\ q.pc = "check"
    /\ Goto(p, IF q.version \in recorded THEN NextFile(q)
               ELSE [q EXCEPT !.pc = "apply", !.stmt = 1])
    /\ UNCHANGED <<applied, recorded, bound, lost, interrupts>>

\* Variant: CREATE without IF NOT EXISTS fails on what is there.
ApplyNew(p) ==
    LET q == proc[p] IN
    /\ q.pc = "apply"
    /\ IF <<q.version, q.stmt>> \in applied
       THEN Exit(p) /\ UNCHANGED applied
       ELSE /\ applied' = applied \cup {<<q.version, q.stmt>>}
            /\ Goto(p, IF q.stmt < Stmts THEN [q EXCEPT !.stmt = @ + 1]
                       ELSE [q EXCEPT !.pc = "record"])
            /\ UNCHANGED bound
    /\ UNCHANGED <<recorded, lost, interrupts>>

\* Variant: only the first statement of the file is executed.
ApplyFirst(p) ==
    LET q == proc[p] IN
    /\ q.pc = "apply"
    /\ applied' = applied \cup {<<q.version, q.stmt>>}
    /\ Goto(p, [q EXCEPT !.pc = "record"])
    /\ UNCHANGED <<recorded, bound, lost, interrupts>>

\* Every statement of 0001_init.sql is CREATE ... IF NOT EXISTS.
Apply(p) ==
    LET q == proc[p] IN
    /\ q.pc = "apply"
    /\ applied' = applied \cup {<<q.version, q.stmt>>}
    /\ Goto(p, IF q.stmt < Stmts THEN [q EXCEPT !.stmt = @ + 1]
               ELSE [q EXCEPT !.pc = "record"])
    /\ UNCHANGED <<recorded, bound, lost, interrupts>>

\* version is the primary key: the second of two processes fails, and exits.
Record(p) ==
    LET q == proc[p] IN
    /\ q.pc = "record"
    /\ IF q.version \in recorded
       THEN Exit(p) /\ UNCHANGED recorded
       ELSE /\ recorded' = recorded \cup {q.version}
            /\ Goto(p, NextFile(q))
            /\ UNCHANGED bound
    /\ UNCHANGED <<applied, lost, interrupts>>

-----------------------------------------------------------------------------
(* main: serving *)

\* The goroutine of ListenAndServe runs ahead of, or behind, signal.Notify.
\* If another process has the address, os.Exit(1).
Listen(p) ==
    /\ proc[p].srv = "new"
    /\ IF bound = None
       THEN bound' = p /\ Goto(p, [proc[p] EXCEPT !.srv = "up"])
       ELSE Exit(p)
    /\ UNCHANGED <<applied, recorded, lost, interrupts>>

Notify(p) ==
    /\ proc[p].pc = "notify"
    /\ Goto(p, [proc[p] EXCEPT !.pc = "wait"])
    /\ UNCHANGED <<applied, recorded, bound, lost, interrupts>>

Accept(p, r) ==
    /\ proc[p].srv = "up"
    /\ \A q \in Proc : r \notin proc[q].handling
    /\ Goto(p, [proc[p] EXCEPT !.handling = @ \cup {r}])
    /\ UNCHANGED <<applied, recorded, bound, lost, interrupts>>

Answer(p, r) ==
    /\ r \in proc[p].handling
    /\ Goto(p, [proc[p] EXCEPT !.handling = @ \ {r}])
    /\ UNCHANGED <<applied, recorded, bound, lost, interrupts>>

-----------------------------------------------------------------------------
(* main: the end *)

\* Variant: nobody waits for the handlers.
SignalExits(p) ==
    /\ Interrupt
    /\ proc[p].pc \notin {"down", "drain"}
    /\ Lose(p, "uncaught")
    /\ Exit(p)
    /\ UNCHANGED <<applied, recorded>>

\* SIGINT or SIGTERM.  Shutdown closes the listener at once.  Before Notify
\* the Go runtime ends the process, with whatever its handlers are doing.
Signal(p) ==
    /\ Interrupt
    /\ \/ /\ proc[p].pc = "wait"
          /\ Goto(p, [proc[p] EXCEPT !.pc = "drain", !.srv = "closed"])
          /\ Unbind(p)
          /\ UNCHANGED lost
       \/ /\ proc[p].pc \in {"check", "apply", "record", "notify"}
          /\ Lose(p, "uncaught")
          /\ Exit(p)
    /\ UNCHANGED <<applied, recorded>>

\* Shutdown has returned: the deferred calls cancel the loop and close the
\* database.
Drained(p) ==
    /\ proc[p].pc = "drain" /\ proc[p].handling = {}
    /\ Exit(p)
    /\ UNCHANGED <<applied, recorded, lost, interrupts>>

\* Variant: Shutdown waits as long as there are requests.
DrainPatient(p) ==
    /\ proc[p].pc = "drain" /\ proc[p].handling = {}
    /\ Lose(p, "timeout")
    /\ Exit(p)
    /\ UNCHANGED <<applied, recorded, interrupts>>

\* drain_timeout_s has passed: os.Exit(1).
DrainTimeout(p) ==
    /\ proc[p].pc = "drain" /\ proc[p].handling # {}
    /\ Lose(p, "timeout")
    /\ Exit(p)
    /\ UNCHANGED <<applied, recorded, interrupts>>

\* A crash, or an exit of main(): a statement of the migrations that fails, an
\* address that cannot be used, ai.NewProvider without its settings.  Starts that
\* fail every time are more interruptions than MaxInterrupts.
Crash(p) ==
    /\ Interrupt
    /\ proc[p].pc # "down"
    /\ Lose(p, "crash")
    /\ Exit(p)
    /\ UNCHANGED <<applied, recorded>>

-----------------------------------------------------------------------------
Init ==
    /\ applied = {} /\ recorded = {}
    /\ proc = [p \in Proc |-> Down]
    /\ bound = None
    /\ lost = {}
    /\ interrupts = 0

Startup(p) == Check(p) \/ Apply(p) \/ Record(p) \/ Notify(p)
Requests(p) == \E r \in Req : Accept(p, r) \/ Answer(p, r)

Next == \E p \in Proc :
    \/ Open(p) \/ Startup(p) \/ Listen(p) \/ Requests(p)
    \/ Signal(p) \/ Drained(p) \/ DrainTimeout(p) \/ Crash(p)

Spec == Init /\ [][Next]_vars

\* main() and the goroutine of the listener keep running, and Shutdown returns
\* when the handlers have, or when its context times out.
FairSpec == Spec /\ \A p \in Proc : /\ WF_vars(Startup(p)) /\ WF_vars(Listen(p))
                                    /\ WF_vars(Drained(p) \/ DrainTimeout(p))

-----------------------------------------------------------------------------
Procs == [pc : {"down", "check", "apply", "record", "notify", "wait", "drain"},
          version : 0..Versions, stmt : 0..Stmts,
          srv : {"off", "new", "up", "closed"}, handling : SUBSET Req]

\* The variables hold what they may hold, and the address belongs to the
\* process that serves.
TypeOK ==
    /\ applied \subseteq Files
    /\ recorded \subseteq 1..Versions
    /\ proc \in [Proc -> Procs]
    /\ bound \in Proc \cup {None}
    /\ \A p \in Proc : proc[p].srv = "up" <=> bound = p
    /\ lost \subseteq {"crash", "uncaught", "timeout"}
    /\ interrupts \in 0..MaxInterrupts

\* prd/05, Migration Strategy, "applied in order": whatever processes were
\* started together and wherever they died, a version is begun only when all
\* earlier ones are complete and recorded, and a recorded one is complete.
MigrationsInOrder ==
    /\ \A v \in recorded : File(v) \subseteq applied
    /\ \A f \in applied : 1 .. f[1] - 1 \subseteq recorded

\* No request is served on a schema that is not complete.
ServesMigrated == \A p \in Proc :
    proc[p].srv = "up" => applied = Files /\ recorded = 1..Versions

\* NFR-07: on a signal the handlers finish, within the drain timeout.  The signal
\* itself cuts requests off only in a process that serves already and has not yet
\* called signal.Notify: the listener is started first.
SignalsDrain == [][lost' \ lost = {"uncaught"} =>
    \E p \in Proc : /\ proc[p].pc = "notify" /\ proc[p].srv = "up"
                    /\ proc[p].handling # {} /\ proc'[p].pc = "down"]_vars

\* NFR-07: a process that drains ends, though its requests may never do.
DrainFinishes == \A p \in Proc : proc[p].pc = "drain" ~> proc[p].pc = "down"

\* A process started once the interruptions are over leads to one that serves,
\* wherever earlier ones stopped: itself, or the one whose record of a version
\* or hold on the address made it exit.
Started(p) == proc[p].pc = "check" /\ proc[p].version = 1
StartupServes == \A p \in Proc :
    Started(p) /\ interrupts = MaxInterrupts ~> \E q \in Proc : proc[q].srv = "up"

-----------------------------------------------------------------------------
(* Why the safety properties hold *)

\* A process that is at some version knows the earlier ones recorded, the
\* statements before its own applied, and past the last one, everything.  It
\* handles requests while it serves, or drains.
Progress == \A p \in Proc : LET q == proc[p] IN
    /\ q.pc \in {"check", "apply", "record"} =>
           q.version \in 1..Versions /\ 1 .. q.version - 1 \subseteq recorded
    /\ q.pc = "apply" => /\ q.stmt \in 1..Stmts
                         /\ \A s \in 1 .. q.stmt - 1 : <<q.version, s>> \in applied
    /\ q.pc = "record" => File(q.version) \subseteq applied
    /\ q.pc \in {"notify", "wait", "drain"} => recorded = 1..Versions
    /\ q.srv \in {"new", "up"} => q.pc \in {"notify", "wait"}
    /\ q.handling # {} => q.srv = "up" \/ q.pc = "drain"

IInv == TypeOK /\ MigrationsInOrder /\ Progress

-----------------------------------------------------------------------------
(* The abstract specification *)

Promised == INSTANCE Deployment WITH
    schema <- recorded,
    server <- bound,
    handling <- [p \in Proc |-> proc[p].handling]

\* Whatever processes start, drain, crash or are sent signals, they behave as one
\* deployment: versions one after the other, one process with the address, which
\* gets it when the schema is complete, and requests that end one by one unless
\* their process is cut off.
ImplementsDeployment == Promised!Spec
=============================================================================
