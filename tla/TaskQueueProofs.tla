-------------------------- MODULE TaskQueueProofs --------------------------
(* Proofs about TaskQueue for every value of its constants. *)
EXTENDS TaskQueue, TLAPS, SequenceTheorems, WellFoundedInduction

-----------------------------------------------------------------------------
(* Rows and attempts *)

\* A task taken back or ended is not leased and keeps what the queue does not
\* decide.
LEMMA UnleasedRow ==
    ASSUME NEW row \in Rows, row.config \in Configs, NEW at \in Nat, NEW s \in Status
    PROVE  /\ Requeued(row, at) \in Rows /\ Ended(row, s) \in Rows
           /\ Requeued(row, at).status = "queued" /\ Ended(row, s).status = s
           /\ Requeued(row, at).count = row.count /\ Ended(row, s).count = row.count
           /\ Requeued(row, at).title = row.title /\ Requeued(row, at).route = row.route /\ Ended(row, s).title = row.title /\ Ended(row, s).route = row.route
           /\ Requeued(row, at).config = row.config /\ Ended(row, s).config = row.config
<1>1. row.config.backoff \in Int
  BY ConfigsAssumption
<1>2. at + row.config.backoff \in Int
  BY <1>1
<1> DEFINE b == at + row.config.backoff
<1>3. Requeued(row, at) = [row EXCEPT !.status = "queued", !.worker = None, !.lease = None, !.retry = b]
  BY DEF Requeued
<1> HIDE DEF b
<1>4. b \in Option(Int) /\ None \in Option(Worker) /\ None \in Option(Int) /\ "queued" \in Status
  BY <1>2 DEF b, Option, Status
<1>5. /\ Requeued(row, at) \in Rows
      /\ Requeued(row, at).status = "queued"
      /\ Requeued(row, at).count = row.count /\ Requeued(row, at).title = row.title
      /\ Requeued(row, at).route = row.route /\ Requeued(row, at).config = row.config
  BY <1>3, <1>4 DEF Rows
<1>6. /\ Ended(row, s) \in Rows
      /\ Ended(row, s).status = s
      /\ Ended(row, s).count = row.count /\ Ended(row, s).title = row.title
      /\ Ended(row, s).route = row.route /\ Ended(row, s).config = row.config
  BY <1>4 DEF Ended, Rows
<1> QED
  BY <1>5, <1>6

\* A leased task has a deadline.
LEMMA LeasedRow ==
    ASSUME NEW row \in Rows, row.config \in Configs, NEW at \in Nat, NEW w \in Option(Worker)
    PROVE  /\ Leased(row, w, at) \in Rows /\ Leased(row, w, at).status = "leased"
           /\ Leased(row, w, at).worker = w /\ Leased(row, w, at).lease # None
           /\ Leased(row, w, at).count = row.count + 1
           /\ Leased(row, w, at).title = row.title /\ Leased(row, w, at).route = row.route /\ Leased(row, w, at).config = row.config
<1> DEFINE v == at + row.config.vis
           n == row.count + 1
<1>1. row.config.vis \in Int /\ row.count \in Nat
  BY ConfigsAssumption DEF Rows
<1>2. v \in Int /\ v # None /\ n \in Nat
  BY <1>1, NoneAssumption
<1>3. Leased(row, w, at) = [row EXCEPT !.status = "leased", !.worker = w, !.lease = v, !.count = n]
  BY DEF Leased
<1> HIDE DEF v
<1>4. Leased(row, w, at).count = n
  BY <1>3 DEF Rows
<1> HIDE DEF n
<1>5. /\ Leased(row, w, at) \in Rows /\ Leased(row, w, at).status = "leased"
      /\ Leased(row, w, at).worker = w /\ Leased(row, w, at).lease # None
      /\ Leased(row, w, at).title = row.title /\ Leased(row, w, at).route = row.route /\ Leased(row, w, at).config = row.config
  BY <1>2, <1>3 DEF Rows, Option, Status
<1> QED
  BY <1>4, <1>5 DEF n

LEMMA CreatedType ==
    ASSUME NEW n \in Title, NEW y \in Option(Context), NEW h \in Option(Hash), NEW x \in Route, NEW c \in Configs,
           now \in Nat
    PROVE  /\ Created(n, y, h, x, c) \in Rows /\ Created(n, y, h, x, c).status = "queued"
           /\ Created(n, y, h, x, c).title = n /\ Created(n, y, h, x, c).route = x
           /\ Created(n, y, h, x, c).config = c /\ Created(n, y, h, x, c).count = 0
  BY DEF Created, NoTask, Rows, Option, Status, Terminal

\* Closing an attempt keeps the rows of every task and changes one result.
LEMMA CloseEffect ==
    ASSUME attempts \in [Task -> Seq(Attempts)], NEW t \in Task,
           NEW i \in DOMAIN attempts[t], NEW res \in {"completed", "failed"}
    PROVE  /\ Close(t, i, res) \in [Task -> Seq(Attempts)]
           /\ \A u \in Task : /\ Len(Close(t, i, res)[u]) = Len(attempts[u])
                              /\ DOMAIN Close(t, i, res)[u] = DOMAIN attempts[u]
           /\ \A u \in Task : \A j \in DOMAIN attempts[u] :
                /\ Close(t, i, res)[u][j].token = attempts[u][j].token
                /\ Close(t, i, res)[u][j].worker = attempts[u][j].worker
                /\ u # t \/ j # i => Close(t, i, res)[u][j].result = attempts[u][j].result
<1> DEFINE old == attempts[t]
           a == [old[i] EXCEPT !.result = res]
           new == [old EXCEPT ![i] = a]
<1>1. old \in Seq(Attempts) /\ DOMAIN old = 1..Len(old) /\ Len(old) \in Nat
  BY LenProperties
<1>2. old[i] \in Attempts
  BY <1>1, ElementOfSeq
<1>3. a \in Attempts /\ a.token = old[i].token /\ a.worker = old[i].worker
  BY <1>2 DEF Attempts
<1>4. new \in Seq(Attempts) /\ Len(new) = Len(old) /\ DOMAIN new = DOMAIN old
  BY <1>1, <1>3, ExceptSeq, LenProperties
<1>5. Close(t, i, res) = [attempts EXCEPT ![t] = new]
  BY DEF Close
<1>6. \A j \in DOMAIN old : new[j] = IF j = i THEN a ELSE old[j]
  BY <1>1
<1> HIDE DEF new, a
<1> QED
  BY <1>1, <1>3, <1>4, <1>5, <1>6

\* A bounded set of numbers has a largest element.
LEMMA LargestExists ==
    ASSUME NEW n \in Nat, NEW S \in SUBSET (0..n), S # {}
    PROVE  \E x \in S : \A y \in S : x >= y
<1> DEFINE R == OpToRel(<, Nat)
           T == {n - x : x \in S}
<1>1. T \subseteq Nat /\ T # {}
  <2>1. \A x \in S : n - x \in Nat
    OBVIOUS
  <2>2. PICK x \in S : TRUE
    OBVIOUS
  <2>3. n - x \in T
    OBVIOUS
  <2> QED
    BY <2>1, <2>3
<1>2. IsWellFoundedOn(R, Nat)
  BY NatLessThanWellFounded
<1>3. \A x, y \in Nat : x < y => <<x, y>> \in R
  BY DEF OpToRel
<1> HIDE DEF R, T
<1>4. PICK m \in T : \A y \in T : ~ (<<y, m>> \in R)
  BY <1>1, <1>2, WFMin
<1>5. PICK x \in S : m = n - x
  BY DEF T
<1>6. ASSUME NEW y \in S PROVE x >= y
  <2>1. n - y \in T /\ n - y \in Nat /\ m \in Nat /\ x \in Int /\ y \in Int
    BY <1>1, <1>5 DEF T
  <2>2. ~ (n - y < m)
    BY <2>1, <1>3, <1>4
  <2> QED
    BY <2>1, <2>2, <1>5
<1> QED
  BY <1>6

\* Tokens that do not overtake the attempts leave room for the next one.
LEMMA MaxTokenBound ==
    ASSUME attempts \in [Task -> Seq(Attempts)], NEW t \in Task,
           \A i \in DOMAIN attempts[t] : Token(t, i) \in 1..i
    PROVE  MaxToken(t) \in 0..Len(attempts[t])
<1> DEFINE S == {Token(t, i) : i \in DOMAIN attempts[t]} \cup {0}
<1>1. DOMAIN attempts[t] = 1..Len(attempts[t]) /\ Len(attempts[t]) \in Nat
  BY LenProperties
<1>2. S \in SUBSET (0..Len(attempts[t])) /\ S # {}
  BY <1>1
<1> HIDE DEF S
<1>3. \E x \in S : \A y \in S : x >= y
  BY <1>1, <1>2, LargestExists
<1>4. Max(S) \in S
  BY <1>3 DEF Max
<1> QED
  BY <1>2, <1>4 DEF MaxToken, S

\* While no error was dropped tokens are row numbers, and the next token is
\* the number of the next row.
LEMMA NextToken ==
    ASSUME attempts \in [Task -> Seq(Attempts)], NEW t \in Task,
           \A i \in DOMAIN attempts[t] : Token(t, i) = i
    PROVE  MaxToken(t) = Len(attempts[t])
<1> DEFINE S == {Token(t, i) : i \in DOMAIN attempts[t]} \cup {0}
<1>1. DOMAIN attempts[t] = 1..Len(attempts[t]) /\ Len(attempts[t]) \in Nat
  BY LenProperties
<1>2. Len(attempts[t]) \in S /\ \A y \in S : y \in Int /\ Len(attempts[t]) >= y
  <2>1. \A i \in DOMAIN attempts[t] : Token(t, i) \in 1..Len(attempts[t])
    BY <1>1
  <2>2. \A y \in S : y \in 0..Len(attempts[t])
    BY <1>1, <2>1
  <2>3. Len(attempts[t]) \in S
    <3>1. CASE Len(attempts[t]) = 0
      BY <3>1
    <3>2. CASE Len(attempts[t]) # 0
      <4>1. Len(attempts[t]) \in DOMAIN attempts[t]
        BY <1>1, <3>2
      <4> QED
        BY <4>1
    <3> QED
      BY <3>1, <3>2
  <2> QED
    BY <1>1, <2>2, <2>3
<1>3. \A x \in S : (\A y \in S : x >= y) => x = Len(attempts[t])
  <2>1. \A y \in S : y \in Nat
    BY <1>1, <1>2
  <2> HIDE DEF S
  <2> QED
    BY <1>1, <1>2, <2>1
<1> QED
  BY <1>2, <1>3 DEF MaxToken, Max

-----------------------------------------------------------------------------
(* The inductive invariant *)

LEMMA InitIInv == Init => IInv
<1> SUFFICES ASSUME Init PROVE IInv
  OBVIOUS
<1> USE DEF Init, NoTask, Idle, LoopIdle
<1>1. \A t \in Task : task[t].status = "absent" /\ task[t].count = 0 /\ attempts[t] = <<>>
  OBVIOUS
<1>2. <<>> \in Seq(Attempts) /\ Len(<<>>) = 0 /\ DOMAIN <<>> = {}
  BY EmptySeq
<1>3. TypeOK
  <2>1. NoTask \in Rows
    BY DEF Rows, Status, Option
  <2>2. Idle \in Reqs
    BY DEF Reqs, ReqPc, Option
  <2>3. LoopIdle \in Loops
    BY DEF Loops, Option
  <2> QED
    BY <1>1, <1>2, <2>1, <2>2, <2>3 DEF TypeOK, Existing, Unread, Informed
<1>4. TokensAgree
  BY <1>1, <1>2 DEF TokensAgree
<1>5. LeaseBacked /\ LeasedAttemptOpen /\ AttemptsHaveTask
  BY <1>1 DEF LeaseBacked, LeasedAttemptOpen, AttemptsHaveTask
<1>6. SnapshotsFresh /\ HandlersKnowAttempt /\ ClosesOldAttempts /\ BatchWasLeased
  BY DEF SnapshotsFresh, HandlersKnowAttempt, OnAttempt, Answering, Closing,
         ClosesOldAttempts, BatchWasLeased
<1> QED
  BY <1>3, <1>4, <1>5, <1>6 DEF IInv

-----------------------------------------------------------------------------
(* What a step that writes one row, or moves one handler, leaves well typed *)

LEMMA RowWrite ==
    ASSUME TypeOK, NEW t \in Existing, NEW row \in Rows, row.title \in Title, row.route \in Route,
           row.config \in Configs, row.status # "absent", Row(t, row)
    PROVE  /\ task' \in [Task -> Rows]
           /\ task'[t] = row
           /\ \A u \in Task : u # t => task'[u] = task[u]
           /\ Existing' = Existing
           /\ \A u \in Existing' : task'[u].title \in Title /\ task'[u].route \in Route /\ task'[u].config \in Configs
  BY DEF TypeOK, Existing, Row

LEMMA HandlerMove ==
    ASSUME TypeOK, NEW r \in Req, NEW s \in Reqs, Goto(r, s),
           s.pc \notin Unread => s.task \in Existing', Informed(s),
           Existing \subseteq Existing',
           s.pc = "event" => s.event \in EventTypes
    PROVE  /\ req' \in [Req -> Reqs]
           /\ req'[r] = s
           /\ \A q \in Req : q # r => req'[q] = req[q]
           /\ \A q \in Req : req'[q].pc \notin Unread => req'[q].task \in Existing'
           /\ \A q \in Req : Informed(req'[q])
           /\ \A q \in Req : req'[q].pc = "event" => req'[q].event \in EventTypes
  BY DEF TypeOK, Goto

LEMMA RecordType ==
    ASSUME TypeOK, NEW t \in Task, NEW e, NEW i,
           [type |-> e, attempt |-> i] \in [type : EventTypes, attempt : Nat],
           Record(t, e, i) \/ events' = events
    PROVE  events' \in [Task -> SUBSET [type : EventTypes, attempt : Nat]]
<1>1. events \in [Task -> SUBSET [type : EventTypes, attempt : Nat]]
  BY DEF TypeOK
<1> QED
  BY <1>1 DEF Record

-----------------------------------------------------------------------------
(* What each kind of step keeps of the invariant *)

\* A move of handler r to local state s, beside any change of the tables that
\* only adds attempts and leases a task only by adding one.
LEMMA HandlerKeeps ==
    ASSUME IInv, NEW r \in Req, NEW s \in Reqs, Goto(r, s),
           OnAttempt(s) => s.attempt \in DOMAIN attempts'[s.task],
           Closing(s) /\ ~swallowed' /\ task'[s.task].status = "leased"
               => s.attempt < Len(attempts'[s.task]),
           \A t \in Task : /\ DOMAIN attempts[t] \subseteq DOMAIN attempts'[t]
                           /\ Len(attempts'[t]) \in Nat /\ Len(attempts[t]) <= Len(attempts'[t])
                           /\ task'[t].status = "leased"
                                => task[t].status = "leased" \/ Len(attempts[t]) < Len(attempts'[t]),
           swallowed => swallowed'
    PROVE  HandlersKnowAttempt' /\ ClosesOldAttempts'
<1> USE DEF IInv
<1>1. /\ req'[r] = s
      /\ \A q \in Req : q # r => req'[q] = req[q]
  BY DEF TypeOK, Goto
<1>2. \A q \in Req : OnAttempt(req[q]) \/ Closing(req[q]) => req[q].task \in Task
  BY DEF TypeOK, Existing, Unread, OnAttempt, Closing, Answering
<1>3. HandlersKnowAttempt'
  BY <1>1, <1>2 DEF HandlersKnowAttempt, OnAttempt
<1>4. ASSUME NEW q \in Req, Closing(req'[q]), ~swallowed',
             task'[req'[q].task].status = "leased"
      PROVE  req'[q].attempt < Len(attempts'[req'[q].task])
  <2>1. CASE q = r
    BY <1>1, <1>4, <2>1
  <2>2. CASE q # r
    <3> DEFINE t == req[q].task
               i == req[q].attempt
    <3>1. req'[q] = req[q] /\ t \in Task /\ Closing(req[q]) /\ task'[t].status = "leased"
      BY <1>1, <1>2, <1>4, <2>2
    <3>2. i \in DOMAIN attempts[t]
      BY <3>1 DEF HandlersKnowAttempt, OnAttempt, Closing, Answering
    <3>3. attempts[t] \in Seq(Attempts) /\ Len(attempts[t]) \in Nat /\ DOMAIN attempts[t] = 1..Len(attempts[t])
      BY <3>1, LenProperties DEF TypeOK
    <3>4. i \in Nat /\ i <= Len(attempts[t])
      BY <3>2, <3>3
    <3>5. i < Len(attempts'[t])
      <4>1. CASE task[t].status = "leased"
        <5>1. i < Len(attempts[t])
          BY <3>1, <4>1, <1>4 DEF ClosesOldAttempts
        <5> QED
          BY <5>1, <3>1, <3>3, <3>4
      <4>2. CASE Len(attempts[t]) < Len(attempts'[t])
        BY <4>2, <3>1, <3>3, <3>4
      <4> QED
        BY <3>1, <4>1, <4>2
    <3> QED
      BY <3>1, <3>5
  <2> QED
    BY <2>1, <2>2
<1>5. ClosesOldAttempts'
  BY <1>4 DEF ClosesOldAttempts, Closing
<1> QED
  BY <1>3, <1>5

\* An UPDATE of one task that does not lease it, and keeps worker and deadline
\* of a task it leaves leased.
LEMMA RowKeeps ==
    ASSUME IInv, NEW t \in Existing, NEW row \in Rows, row.title \in Title, row.route \in Route,
           row.config \in Configs, row.status # "absent", Row(t, row),
           row.count = task[t].count,
           row.status = "leased" => /\ task[t].status = "leased"
                                    /\ row.worker = task[t].worker
                                    /\ row.lease # None,
           attempts' = attempts, snap' = {}, swallowed' = swallowed
    PROVE  /\ TokensAgree' /\ LeaseBacked' /\ LeasedAttemptOpen'
           /\ SnapshotsFresh' /\ AttemptsHaveTask'
<1> USE DEF IInv
<1>1. /\ task'[t] = row
      /\ \A u \in Task : u # t => task'[u] = task[u]
  BY DEF TypeOK, Row, Existing
<1>2. TokensAgree'
  BY <1>1 DEF TokensAgree, Token
<1>3. LeaseBacked'
  BY <1>1 DEF LeaseBacked
<1>4. LeasedAttemptOpen'
  BY <1>1 DEF LeasedAttemptOpen
<1>5. SnapshotsFresh'
  BY DEF SnapshotsFresh
<1>6. AttemptsHaveTask'
  BY <1>1 DEF AttemptsHaveTask, Existing
<1> QED
  BY <1>2, <1>3, <1>4, <1>5, <1>6

\* A handler that closes the attempt it works on.
LEMMA CloseKeeps ==
    ASSUME IInv, NEW r \in Req, Closing(req[r]), NEW res \in {"completed", "failed"},
           attempts' = Close(req[r].task, req[r].attempt, res),
           task' = task, snap' = {}, swallowed' = swallowed
    PROVE  /\ attempts' \in [Task -> Seq(Attempts)]
           /\ \A u \in Task : /\ Len(attempts'[u]) = Len(attempts[u])
                              /\ DOMAIN attempts'[u] = DOMAIN attempts[u]
                              /\ attempts'[u] = <<>> <=> attempts[u] = <<>>
           /\ TokensAgree' /\ LeaseBacked' /\ LeasedAttemptOpen'
           /\ SnapshotsFresh' /\ AttemptsHaveTask'
<1> USE DEF IInv
<1> DEFINE t == req[r].task
           i == req[r].attempt
<1>1. t \in Task
  BY DEF TypeOK, Existing, Unread, Closing
<1>2. i \in DOMAIN attempts[t]
  BY DEF HandlersKnowAttempt, OnAttempt, Answering, Closing
<1>3. /\ attempts' \in [Task -> Seq(Attempts)]
      /\ \A u \in Task : /\ Len(attempts'[u]) = Len(attempts[u])
                         /\ DOMAIN attempts'[u] = DOMAIN attempts[u]
      /\ \A u \in Task : \A j \in DOMAIN attempts[u] :
           /\ attempts'[u][j].token = attempts[u][j].token
           /\ attempts'[u][j].worker = attempts[u][j].worker
           /\ u # t \/ j # i => attempts'[u][j].result = attempts[u][j].result
  BY <1>1, <1>2, CloseEffect DEF TypeOK
<1>4. \A u \in Task : /\ attempts[u] \in Seq(Attempts) /\ attempts'[u] \in Seq(Attempts)
                      /\ Len(attempts[u]) \in Nat
                      /\ DOMAIN attempts[u] = 1..Len(attempts[u])
  BY <1>3, LenProperties DEF TypeOK
<1>5. \A u \in Task : attempts'[u] = <<>> <=> attempts[u] = <<>>
  BY <1>3, <1>4, EmptySeq
<1>6. \A u \in Task : attempts[u] # <<>> => Len(attempts[u]) \in DOMAIN attempts[u]
  BY <1>4, EmptySeq
<1>7. TokensAgree'
  BY <1>3 DEF TokensAgree, Token
<1>8. LeaseBacked'
  BY <1>3, <1>5, <1>6 DEF LeaseBacked
<1>9. LeasedAttemptOpen'
  <2> SUFFICES ASSUME NEW u \in Task, task[u].status = "leased", ~swallowed
               PROVE  /\ attempts'[u] # <<>>
                      /\ attempts'[u][Len(attempts'[u])].result = None
    BY DEF LeasedAttemptOpen
  <2>1. attempts[u] # <<>> /\ attempts[u][Len(attempts[u])].result = None
    BY DEF LeasedAttemptOpen
  <2>2. u # t \/ Len(attempts[u]) # i
    <3> SUFFICES ASSUME u = t PROVE Len(attempts[t]) # i
      OBVIOUS
    <3>1. i < Len(attempts[t])
      BY DEF ClosesOldAttempts
    <3> QED
      BY <3>1, <1>1, <1>2, <1>4
  <2> QED
    BY <2>1, <2>2, <1>3, <1>5, <1>6
<1>10. SnapshotsFresh' /\ AttemptsHaveTask'
  BY <1>5 DEF SnapshotsFresh, AttemptsHaveTask, Existing
<1> QED
  BY <1>3, <1>5, <1>7, <1>8, <1>9, <1>10

\* The types of the variables a handler only adds to.
Typed == /\ events \in [Task -> SUBSET [type : EventTypes, attempt : Nat]]
         /\ held \subseteq Task \X Nat
         /\ swallowed \in BOOLEAN

\* A handler step that leaves tasks and attempts alone: a check, a read, a
\* refusal, an event.
LEMMA LocalStep ==
    ASSUME IInv, NEW r \in Req, NEW s \in Reqs, Goto(r, s),
           s.pc \notin Unread => s.task \in Existing, Informed(s),
           s.pc # "event",
           OnAttempt(s) => s.attempt \in DOMAIN attempts[s.task],
           Closing(s) => swallowed',
           snap' \subseteq snap \ {r}, swallowed' \in BOOLEAN, swallowed => swallowed',
           task' = task, attempts' = attempts, loop' = loop, now' = now,
           events' \in [Task -> SUBSET [type : EventTypes, attempt : Nat]],
           held' \subseteq Task \X Nat
    PROVE  IInv'
<1> USE DEF IInv
<1>1. Existing' = Existing
  BY DEF Existing
<1>2. TypeOK'
  BY <1>1, HandlerMove DEF TypeOK, Unread
<1>3. TokensAgree'
  BY DEF TokensAgree, Token
<1>4. LeaseBacked' /\ LeasedAttemptOpen'
  BY DEF LeaseBacked, LeasedAttemptOpen
<1>5. SnapshotsFresh'
  BY DEF SnapshotsFresh, TypeOK, Goto
<1>6. \A t \in Task : Len(attempts[t]) \in Nat
  BY LenProperties DEF TypeOK
<1>7. HandlersKnowAttempt' /\ ClosesOldAttempts'
  BY <1>6, HandlerKeeps
<1>8. BatchWasLeased' /\ AttemptsHaveTask'
  BY <1>1 DEF BatchWasLeased, AttemptsHaveTask
<1> QED
  BY <1>2, <1>3, <1>4, <1>5, <1>7, <1>8

\* A handler step that writes the row of its task and does not lease it.
LEMMA WriteStep ==
    ASSUME IInv, NEW r \in Req, NEW t \in Existing, t = req[r].task,
           NEW row \in Rows, row.title \in Title, row.route \in Route, row.config \in Configs,
           row.status # "absent", row.count = task[t].count,
           row.status = "leased" => /\ task[t].status = "leased"
                                    /\ row.worker = task[t].worker
                                    /\ row.lease # None,
           Row(t, row),
           NEW s \in Reqs, Goto(r, s), s.pc # "idle" => s.task = t, Informed(s),
           s.pc = "event" => s.event \in EventTypes,
           OnAttempt(s) => s.attempt \in DOMAIN attempts[t],
           Closing(s) => row.status # "leased",
           snap' = {}, UNCHANGED <<attempts, events, loop, held, now, swallowed>>
    PROVE  IInv'
<1> USE DEF IInv
<1>1. /\ task' \in [Task -> Rows]
      /\ task'[t] = row
      /\ \A u \in Task : u # t => task'[u] = task[u]
      /\ Existing' = Existing
      /\ \A u \in Existing' : task'[u].title \in Title /\ task'[u].route \in Route /\ task'[u].config \in Configs
  BY RowWrite
<1>2. TypeOK'
  BY <1>1, HandlerMove DEF TypeOK, Unread
<1>3. /\ TokensAgree' /\ LeaseBacked' /\ LeasedAttemptOpen'
      /\ SnapshotsFresh' /\ AttemptsHaveTask'
  BY RowKeeps
<1>4. \A u \in Task : Len(attempts[u]) \in Nat
  BY LenProperties DEF TypeOK
<1>5. t \in Task
  BY DEF Existing
<1>6. \A u \in Task : task'[u].status = "leased" => task[u].status = "leased"
  BY <1>1
<1>7. OnAttempt(s) \/ Closing(s) => s.task = t
  BY DEF OnAttempt, Closing, Answering
<1>8. HandlersKnowAttempt' /\ ClosesOldAttempts'
  BY <1>1, <1>4, <1>6, <1>7, HandlerKeeps
<1>9. BatchWasLeased'
  BY DEF BatchWasLeased
<1> QED
  BY <1>2, <1>3, <1>8, <1>9

\* The loop, the clock or a crash: the tables, but for the events, stay.
LEMMA QuietStep ==
    ASSUME IInv, task' = task, attempts' = attempts, held' = held,
           \/ req' = req
           \/ req' = [r \in Req |-> Idle],
           loop' \in Loops, loop'.batch \subseteq Existing,
           \A t \in loop'.batch : attempts[t] # <<>>,
           loop'.pc \in {"timed_out", "retried"}
               => loop'.task \in Existing /\ attempts[loop'.task] # <<>>,
           snap' \subseteq snap, req' = req \/ snap' = {},
           events' \in [Task -> SUBSET [type : EventTypes, attempt : Nat]],
           now' \in Nat, swallowed' \in BOOLEAN, swallowed => swallowed'
    PROVE  IInv'
<1> USE DEF IInv
<1>1. Existing' = Existing
  BY DEF Existing
<1>2. Idle \in Reqs /\ Idle.pc = "idle"
  BY DEF Idle, Reqs, ReqPc, Option
<1>3. TypeOK'
  BY <1>1, <1>2 DEF TypeOK, Unread, Informed
<1>4. TokensAgree' /\ LeaseBacked' /\ LeasedAttemptOpen'
  BY DEF TokensAgree, Token, LeaseBacked, LeasedAttemptOpen
<1>5. SnapshotsFresh'
  BY DEF SnapshotsFresh
<1>6. HandlersKnowAttempt' /\ ClosesOldAttempts'
  BY <1>2 DEF HandlersKnowAttempt, ClosesOldAttempts, OnAttempt, Closing, Answering
<1>7. BatchWasLeased' /\ AttemptsHaveTask'
  BY <1>1 DEF BatchWasLeased, AttemptsHaveTask
<1> QED
  BY <1>3, <1>4, <1>5, <1>6, <1>7

-----------------------------------------------------------------------------
(* The steps *)

\* A new task, of POST /api/tasks or of a classification.
LEMMA InsertStep ==
    ASSUME IInv, NEW r \in Req, NEW t \in Task, task[t].status = "absent",
           NEW n \in Title, NEW y \in Option(Context), NEW h \in Option(Hash),
           NEW x \in Route, NEW c \in Configs,
           Row(t, Created(n, y, h, x, c)), Commit,
           NEW e \in {"created", "classified"}, ToEvent(r, t, 0, e),
           UNCHANGED <<attempts, events, loop, held, now, swallowed>>
    PROVE  IInv'
<1> USE DEF IInv, Commit, Row
<1> DEFINE row == Created(n, y, h, x, c)
           s == [Idle EXCEPT !.pc = "event", !.task = t, !.attempt = 0, !.event = e]
<1>1. /\ row \in Rows /\ row.status = "queued" /\ row.title = n /\ row.route = x
      /\ row.config = c /\ row.count = 0
  BY CreatedType DEF TypeOK
<1>2. /\ s \in Reqs /\ s.pc = "event" /\ s.task = t /\ s.event = e /\ Goto(r, s)
      /\ e \in EventTypes /\ ~OnAttempt(s) /\ ~Closing(s) /\ Informed(s)
  BY DEF ToEvent, Idle, Reqs, ReqPc, EventTypes, Option, OnAttempt, OfAttempts, Answering,
         Closing, Informed
<1> HIDE DEF row, s
<1>3. /\ task' \in [Task -> Rows] /\ task'[t] = row
      /\ \A u \in Task : u # t => task'[u] = task[u]
  BY <1>1 DEF TypeOK, row
<1>4. /\ Existing \subseteq Existing' /\ t \in Existing'
      /\ \A u \in Existing' : task'[u].title \in Title /\ task'[u].route \in Route
                              /\ task'[u].config \in Configs
  BY <1>1, <1>3 DEF TypeOK, Existing
<1>5. TypeOK'
  BY <1>2, <1>3, <1>4, HandlerMove DEF TypeOK
<1>6. attempts[t] = <<>> /\ Len(attempts[t]) = 0
  BY EmptySeq DEF AttemptsHaveTask, Existing, TypeOK
<1>7. TokensAgree'
  BY <1>1, <1>3, <1>6 DEF TokensAgree, Token
<1>8. LeaseBacked' /\ LeasedAttemptOpen'
  BY <1>1, <1>3 DEF LeaseBacked, LeasedAttemptOpen
<1>9. SnapshotsFresh'
  BY DEF SnapshotsFresh
<1>10. \A u \in Task : /\ Len(attempts[u]) \in Nat
                       /\ task'[u].status = "leased" => task[u].status = "leased"
  BY <1>1, <1>3, LenProperties DEF TypeOK
<1>11. HandlersKnowAttempt' /\ ClosesOldAttempts'
  BY <1>2, <1>10, HandlerKeeps
<1>12. BatchWasLeased' /\ AttemptsHaveTask'
  BY <1>4 DEF BatchWasLeased, AttemptsHaveTask
<1> QED
  BY <1>5, <1>7, <1>8, <1>9, <1>11, <1>12

LEMMA CreateStep ==
    ASSUME IInv, NEW r \in Req, NEW t \in Task, NEW n \in Title, NEW y \in Option(Context),
           NEW x \in Route, NEW c \in Configs, Create(r, t, n, y, x, c)
    PROVE  IInv'
<1>1. None \in Option(Hash)
  BY DEF Option
<1> QED
  BY <1>1, InsertStep DEF Create

LEMMA ClassifyInsertStep ==
    ASSUME IInv, NEW r \in Req, NEW t \in Task, NEW x \in Route, NEW c \in Configs,
           ClassifyInsert(r, t, x, c)
    PROVE  IInv'
<1> DEFINE h == req[r].hash
<1>1. h \in Hash
  BY DEF ClassifyInsert, IInv, TypeOK, Informed
<1>2. h \in Option(Hash) /\ h[1] \in Title /\ h[2] \in Option(Context)
  BY <1>1 DEF Hash, Option
<1>3. /\ task[t].status = "absent" /\ Row(t, Created(h[1], h[2], h, x, c)) /\ Commit
      /\ ToEvent(r, t, 0, "classified")
      /\ UNCHANGED <<attempts, events, loop, held, now, swallowed>>
  BY DEF ClassifyInsert
<1> HIDE DEF h
<1> QED
  BY <1>2, <1>3, InsertStep

LEMMA ClassifyReadStep ==
    ASSUME IInv, NEW r \in Req, NEW n \in Title, NEW y \in Context, ClassifyRead(r, n, y)
    PROVE  IInv'
<1> DEFINE Fits(s) == /\ ~Closing(s) /\ ~OnAttempt(s)
                      /\ s.pc \notin {"idle", "event"}
                      /\ s.pc = "classify.insert" \/ s.task \in Existing
                      /\ Informed(s)
<1>1. \E s \in Reqs : Goto(r, s) /\ Fits(s)
  <2>1. CASE Goto(r, [Idle EXCEPT !.pc = "classify.insert", !.hash = <<n, y>>])
    <3> DEFINE s == [Idle EXCEPT !.pc = "classify.insert", !.hash = <<n, y>>]
    <3>1. /\ s \in Reqs /\ Informed(s) /\ s.pc = "classify.insert"
          /\ ~Closing(s) /\ ~OnAttempt(s)
      BY DEF Informed, Hash, Idle, Reqs, ReqPc, Option, Closing, OnAttempt, Answering
    <3> HIDE DEF s
    <3> QED
      BY <2>1, <3>1 DEF s
  <2>2. ASSUME NEW t \in Latest(n),
               Goto(r, [Idle EXCEPT !.pc = "classify.update", !.task = t, !.hash = <<n, y>>])
        PROVE  \E s \in Reqs : Goto(r, s) /\ Fits(s)
    <3> DEFINE s == [Idle EXCEPT !.pc = "classify.update", !.task = t, !.hash = <<n, y>>]
    <3>1. t \in Existing /\ t \in Task
      BY DEF Latest, Existing
    <3>2. /\ s \in Reqs /\ Informed(s) /\ s.pc = "classify.update" /\ s.task = t
          /\ ~Closing(s) /\ ~OnAttempt(s)
      BY <3>1 DEF Informed, Hash, Idle, Reqs, ReqPc, Option, Closing, OnAttempt, Answering
    <3>3. Goto(r, s)
      BY <2>2
    <3> HIDE DEF s
    <3> QED
      BY <3>1, <3>2, <3>3
  <2>3. \/ Goto(r, [Idle EXCEPT !.pc = "classify.insert", !.hash = <<n, y>>])
        \/ \E t \in Latest(n) :
             Goto(r, [Idle EXCEPT !.pc = "classify.update", !.task = t, !.hash = <<n, y>>])
    BY DEF ClassifyRead
  <2> QED
    BY <2>1, <2>2, <2>3
<1>2. PICK s \in Reqs : Goto(r, s) /\ Fits(s)
  BY <1>1
<1>3. r \notin snap
  BY DEF ClassifyRead, IInv, SnapshotsFresh
<1>4. UNCHANGED <<task, attempts, events, loop, snap, held, now, swallowed>>
  BY DEF ClassifyRead, db
<1>5. Typed'
  BY <1>4 DEF IInv, TypeOK, Typed
<1> QED
  BY <1>2, <1>3, <1>4, <1>5, LocalStep DEF Typed, Unread

LEMMA ClassifyUpdateStep ==
    ASSUME IInv, NEW r \in Req, NEW x \in Route, ClassifyUpdate(r, x)
    PROVE  IInv'
<1> DEFINE t == req[r].task
           row == [task[t] EXCEPT !.status = "queued", !.route = x, !.hash = req[r].hash,
                              !.context = req[r].hash[2]]
           s == [Idle EXCEPT !.pc = "event", !.task = t, !.attempt = 0, !.event = "reclassified"]
<1>1. /\ t \in Existing /\ task[t] \in Rows /\ task[t].title \in Title
      /\ task[t].config \in Configs /\ req[r].hash \in Hash
  BY DEF ClassifyUpdate, IInv, TypeOK, Existing, Unread, Informed
<1>2. /\ row \in Rows /\ row.title = task[t].title /\ row.route = x
      /\ row.config = task[t].config /\ row.status = "queued" /\ row.count = task[t].count
  <2>1. req[r].hash[2] \in Option(Context) /\ req[r].hash \in Option(Hash)
        /\ x \in Option(Route) /\ "queued" \in Status
    BY <1>1 DEF Hash, Option, Status
  <2> QED
    BY <1>1, <2>1 DEF Rows
<1>3. /\ s \in Reqs /\ s.pc = "event" /\ s.task = t /\ s.event \in EventTypes
      /\ ~OnAttempt(s) /\ ~Closing(s) /\ Informed(s)
  BY <1>1 DEF Idle, Reqs, ReqPc, Option, EventTypes, OnAttempt, OfAttempts, Answering, Closing,
              Existing, Informed
<1>4. /\ Row(t, row) /\ Goto(r, s) /\ snap' = {}
      /\ UNCHANGED <<attempts, events, loop, held, now, swallowed>>
  BY DEF ClassifyUpdate, Commit, ToEvent
<1> HIDE DEF row, s
<1> QED
  BY <1>1, <1>2, <1>3, <1>4, WriteStep

LEMMA CheckStep ==
    ASSUME IInv, NEW r \in Req, NEW t \in Task, PatchCheck(r, t) \/ CancelCheck(r, t)
    PROVE  IInv'
<1>1. PICK pc \in {"patch.write", "cancel.write"} : Goto(r, [Idle EXCEPT !.pc = pc, !.task = t])
  BY DEF PatchCheck, CancelCheck
<1> DEFINE s == [Idle EXCEPT !.pc = pc, !.task = t]
<1>2. /\ s \in Reqs /\ Goto(r, s)
      /\ s.task = t /\ s.pc # "event" /\ ~OnAttempt(s) /\ ~Closing(s) /\ Informed(s)
  BY <1>1 DEF Idle, Reqs, ReqPc, Option, OnAttempt, Closing, Answering, Informed
<1>3. t \in Existing
  BY DEF PatchCheck, CancelCheck, Existing, Editable
<1>4. r \notin snap
  BY DEF PatchCheck, CancelCheck, IInv, SnapshotsFresh
<1>5. UNCHANGED <<task, attempts, events, loop, snap, held, now, swallowed>>
  BY DEF PatchCheck, CancelCheck, db
<1>6. Typed'
  BY <1>5 DEF IInv, TypeOK, Typed
<1> HIDE DEF s
<1> QED
  BY <1>2, <1>3, <1>4, <1>5, <1>6, LocalStep DEF Typed

\* A request that keeps what it gives: the token of a heartbeat, the filter of a
\* lease.
LEMMA BeginStep ==
    ASSUME IInv, NEW r \in Req,
           \/ \E t \in Task, k \in Nat : HeartbeatBegin(r, t, k)
           \/ \E w \in Worker, f \in Filters : LeaseBegin(r, w, f)
    PROVE  IInv'
<1>1. \E s \in Reqs : /\ Goto(r, s) /\ Informed(s) /\ s.pc \in {"heartbeat.read", "lease.select"}
  <2> USE DEF Idle, Reqs, ReqPc, Option, Informed, IInv, TypeOK
  <2>1. ASSUME NEW t \in Task, NEW k \in Nat, HeartbeatBegin(r, t, k)
        PROVE  \E s \in Reqs : /\ Goto(r, s) /\ Informed(s)
                               /\ s.pc \in {"heartbeat.read", "lease.select"}
    <3> WITNESS [Idle EXCEPT !.pc = "heartbeat.read", !.task = t, !.token = k, !.at = now] \in Reqs
    <3> QED
      BY <2>1 DEF HeartbeatBegin
  <2>2. ASSUME NEW w \in Worker, NEW f \in Filters, LeaseBegin(r, w, f)
        PROVE  \E s \in Reqs : /\ Goto(r, s) /\ Informed(s)
                               /\ s.pc \in {"heartbeat.read", "lease.select"}
    <3> WITNESS [Idle EXCEPT !.pc = "lease.select", !.worker = w, !.filter = f, !.at = now] \in Reqs
    <3> QED
      BY <2>2 DEF LeaseBegin
  <2> QED
    BY <2>1, <2>2
<1>2. PICK s \in Reqs : /\ Goto(r, s) /\ Informed(s) /\ s.pc \in {"heartbeat.read", "lease.select"}
  BY <1>1
<1>3. r \notin snap
  BY DEF HeartbeatBegin, LeaseBegin, IInv, SnapshotsFresh
<1>4. UNCHANGED <<task, attempts, events, loop, snap, held, now, swallowed>>
  BY DEF HeartbeatBegin, LeaseBegin, db
<1>5. Typed'
  BY <1>4 DEF IInv, TypeOK, Typed
<1> QED
  BY <1>2, <1>3, <1>4, <1>5, LocalStep DEF Typed, Unread, OnAttempt, Closing, Answering

\* The token check of heartbeat, complete and fail, passed.
LEMMA ValidateStep ==
    ASSUME IInv, NEW r \in Req, NEW t \in Task, NEW k \in Nat, NEW i \in DOMAIN attempts[t],
           NEW s \in Reqs, Goto(r, s), s.task = t, s.attempt = i,
           s.pc \in {"heartbeat.write", "complete.write", "fail.read"},
           r \notin snap, UNCHANGED <<db, loop, snap, held, now, swallowed>>
    PROVE  IInv'
<1>1. t \in Existing
  BY EmptySeq DEF IInv, TypeOK, AttemptsHaveTask
<1>2. UNCHANGED <<task, attempts, events, loop, snap, held, now, swallowed>>
  BY DEF db
<1>3. Typed'
  BY <1>2 DEF IInv, TypeOK, Typed
<1>4. Informed(s) /\ ~Closing(s) /\ s.pc # "event"
  BY DEF Informed, Closing
<1> QED
  BY <1>1, <1>2, <1>3, <1>4, LocalStep DEF Typed

LEMMA AnswerStep ==
    ASSUME IInv, NEW r \in Req, NEW t \in Task, NEW k \in Nat,
           CompleteValidate(r, t, k) \/ FailValidate(r, t, k)
    PROVE  IInv'
<1>1. PICK i \in DOMAIN attempts[t], pc \in {"complete.write", "fail.read"} :
        Goto(r, [Idle EXCEPT !.pc = pc, !.task = t, !.attempt = i])
  BY DEF CompleteValidate, FailValidate
<1>2. i \in Nat
  <2>1. attempts[t] \in Seq(Attempts)
    BY DEF IInv, TypeOK
  <2>2. DOMAIN attempts[t] = 1..Len(attempts[t]) /\ Len(attempts[t]) \in Nat
    BY <2>1, LenProperties
  <2> QED
    BY <2>2
<1> DEFINE s == [Idle EXCEPT !.pc = pc, !.task = t, !.attempt = i]
<1>3. s \in Reqs /\ s.pc = pc /\ s.task = t /\ s.attempt = i
  BY <1>2 DEF Idle, Reqs, ReqPc, Option
<1>4. r \notin snap /\ UNCHANGED <<db, loop, snap, held, now, swallowed>>
  BY DEF CompleteValidate, FailValidate, IInv, SnapshotsFresh
<1>5. Goto(r, s)
  BY <1>1
<1> HIDE DEF s
<1> QED
  BY <1>3, <1>4, <1>5, ValidateStep

\* A heartbeat finds its attempt, or gives up.
LEMMA HeartbeatReadStep ==
    ASSUME IInv, NEW r \in Req, HeartbeatRead(r)
    PROVE  IInv'
<1> DEFINE q == req[r]
           t == q.task
<1>1. q \in Reqs /\ t \in Task /\ r \notin snap
  BY DEF HeartbeatRead, IInv, TypeOK, Informed, SnapshotsFresh
<1>2. UNCHANGED <<db, loop, snap, held, now, swallowed>>
  BY DEF HeartbeatRead
<1>3. CASE Done(r)
  <2>1. /\ Idle \in Reqs /\ Idle.pc = "idle" /\ ~OnAttempt(Idle) /\ ~Closing(Idle)
        /\ Informed(Idle) /\ Goto(r, Idle)
    BY <1>3 DEF Done, Idle, Reqs, ReqPc, Option, OnAttempt, Answering, Closing, Informed
  <2> QED
    BY <1>1, <1>2, <2>1, LocalStep DEF db, Unread, IInv, TypeOK
<1>4. ASSUME NEW i \in DOMAIN attempts[t],
             Goto(r, [q EXCEPT !.pc = "heartbeat.write", !.attempt = i])
      PROVE  IInv'
  <2>1. attempts[t] \in Seq(Attempts)
    BY <1>1 DEF IInv, TypeOK
  <2>2. i \in Nat
    BY <2>1, LenProperties
  <2> DEFINE s == [q EXCEPT !.pc = "heartbeat.write", !.attempt = i]
  <2>3. s \in Reqs /\ s.pc = "heartbeat.write" /\ s.task = t /\ s.attempt = i
    BY <1>1, <2>2 DEF Reqs, ReqPc
  <2>4. Goto(r, s)
    BY <1>4
  <2> HIDE DEF s, q
  <2> QED
    BY <1>1, <1>2, <2>3, <2>4, ValidateStep
<1> QED
  BY <1>3, <1>4 DEF HeartbeatRead

LEMMA FailReadStep ==
    ASSUME IInv, NEW r \in Req, NEW hint \in BOOLEAN, FailRead(r, hint)
    PROVE  IInv'
<1>1. PICK again \in BOOLEAN :
        Goto(r, [req[r] EXCEPT !.pc = "fail.write", !.at = now, !.again = again])
  BY DEF FailRead
<1> DEFINE s == [req[r] EXCEPT !.pc = "fail.write", !.at = now, !.again = again]
<1>2. /\ s \in Reqs /\ Goto(r, s) /\ ~Closing(s)
      /\ s.pc # "event" /\ Informed(s)
      /\ s.task = req[r].task /\ s.attempt = req[r].attempt
  BY <1>1 DEF IInv, TypeOK, Reqs, ReqPc, Closing, Informed
<1>3. r \notin snap /\ req[r].task \in Existing /\ OnAttempt(req[r])
  BY DEF FailRead, IInv, TypeOK, Unread, SnapshotsFresh, OnAttempt, Answering
<1>4. /\ UNCHANGED <<task, attempts, events, loop, snap, held, now>>
      /\ swallowed => swallowed'
  BY DEF FailRead, Swallow, db
<1>5. Typed'
  BY <1>4 DEF FailRead, Swallow, IInv, TypeOK, Typed
<1>6. s.attempt \in DOMAIN attempts[s.task]
  BY <1>2, <1>3 DEF IInv, HandlersKnowAttempt
<1> HIDE DEF s
<1> QED
  BY <1>2, <1>3, <1>4, <1>5, <1>6, LocalStep DEF Typed

LEMMA GiveUpStep ==
    ASSUME IInv, NEW r \in Req, LeaseNothing(r) \/ LeaseConflict(r) \/ Abort(r)
    PROVE  IInv'
<1>1. Idle \in Reqs /\ Idle.pc = "idle" /\ ~OnAttempt(Idle) /\ ~Closing(Idle) /\ Informed(Idle)
  BY DEF Idle, Reqs, ReqPc, Option, OnAttempt, Answering, Closing, Informed
<1>2. Goto(r, Idle) /\ snap' \subseteq snap \ {r}
  BY DEF LeaseNothing, LeaseConflict, Abort, Done, SnapshotCurrent, IInv, SnapshotsFresh
<1>3. UNCHANGED <<db, loop, held, now, swallowed>>
  BY DEF LeaseNothing, LeaseConflict, Abort
<1> QED
  BY <1>1, <1>2, <1>3, LocalStep DEF db, IInv, TypeOK, Unread

LEMMA AppendEventStep ==
    ASSUME IInv, NEW r \in Req, AppendEvent(r)
    PROVE  IInv'
<1> DEFINE q == req[r]
<1>1. Idle \in Reqs /\ Idle.pc = "idle" /\ ~OnAttempt(Idle) /\ ~Closing(Idle) /\ Informed(Idle)
  BY DEF Idle, Reqs, ReqPc, Option, OnAttempt, Answering, Closing, Informed
<1>2. q \in Reqs /\ q.pc = "event" /\ q.task \in Existing /\ q.task \in Task
  BY DEF AppendEvent, IInv, TypeOK, Existing, Unread
<1>3. snap' \subseteq snap \ {r}
  BY <1>2 DEF AppendEvent, Commit, IInv, SnapshotsFresh
<1>4. events' \in [Task -> SUBSET [type : EventTypes, attempt : Nat]]
  <2>1. [type |-> q.event, attempt |-> q.attempt] \in [type : EventTypes, attempt : Nat]
    BY <1>2 DEF IInv, TypeOK, Reqs
  <2>2. Record(q.task, q.event, q.attempt) \/ events' = events
    BY DEF AppendEvent
  <2> QED
    BY <1>2, <2>1, <2>2, RecordType DEF IInv
<1>5. held' \subseteq Task \X Nat
  <2>1. q.event = "leased" => Token(q.task, q.attempt) \in Nat
    <3> SUFFICES ASSUME q.event = "leased" PROVE Token(q.task, q.attempt) \in Nat
      OBVIOUS
    <3>1. q.attempt \in DOMAIN attempts[q.task] /\ attempts[q.task] \in Seq(Attempts)
      BY <1>2 DEF IInv, TypeOK, HandlersKnowAttempt, OnAttempt, OfAttempts
    <3>2. attempts[q.task][q.attempt] \in Attempts
      BY <3>1, ElementOfSeq, LenProperties
    <3> QED
      BY <3>2 DEF Token, Attempts
  <2> QED
    BY <1>2, <2>1 DEF AppendEvent, IInv, TypeOK
<1>6. swallowed' = swallowed \/ swallowed' = TRUE
  BY DEF AppendEvent, Swallow
<1>7. swallowed' \in BOOLEAN /\ (swallowed => swallowed')
  BY <1>6 DEF IInv, TypeOK
<1>8. UNCHANGED <<task, attempts, loop, now>> /\ Goto(r, Idle)
  BY DEF AppendEvent, Done
<1> QED
  BY <1>1, <1>3, <1>4, <1>5, <1>7, <1>8, LocalStep DEF Unread

LEMMA PatchWriteStep ==
    ASSUME IInv, NEW r \in Req, NEW n \in Title, NEW y \in Option(Context), NEW x \in Route, PatchWrite(r, n, y, x)
    PROVE  IInv'
<1> DEFINE t == req[r].task
           row == [task[t] EXCEPT !.title = n, !.route = x,
                              !.context = IF y = None THEN @ ELSE y]
<1>1. t \in Existing /\ task[t] \in Rows /\ task[t].title \in Title /\ task[t].route \in Route /\ task[t].config \in Configs
      /\ task[t].status # "absent" /\ (task[t].status = "leased" => task[t].lease # None)
  BY DEF PatchWrite, IInv, TypeOK, Existing, Unread, LeaseBacked
<1>2. /\ row \in Rows /\ row.title \in Title /\ row.route \in Route /\ row.config = task[t].config
      /\ row.status = task[t].status /\ row.count = task[t].count
      /\ row.worker = task[t].worker /\ row.lease = task[t].lease
  BY <1>1 DEF Rows, Option
<1>3. Idle \in Reqs /\ Idle.pc = "idle" /\ ~OnAttempt(Idle) /\ ~Closing(Idle) /\ Informed(Idle)
  BY DEF Idle, Reqs, ReqPc, Option, OnAttempt, Answering, Closing, Informed
<1>4. /\ Row(t, row) /\ Goto(r, Idle) /\ snap' = {}
      /\ UNCHANGED <<attempts, events, loop, held, now, swallowed>>
  BY DEF PatchWrite, Commit, Done
<1> HIDE DEF row
<1> QED
  BY <1>1, <1>2, <1>3, <1>4, WriteStep

LEMMA CancelWriteStep ==
    ASSUME IInv, NEW r \in Req, CancelWrite(r)
    PROVE  IInv'
<1> DEFINE t == req[r].task
           row == [task[t] EXCEPT !.status = "cancelled"]
           s == [Idle EXCEPT !.pc = "event", !.task = t, !.attempt = 0, !.event = "cancelled"]
<1>1. t \in Existing /\ task[t] \in Rows /\ task[t].title \in Title /\ task[t].route \in Route /\ task[t].config \in Configs
  BY DEF CancelWrite, IInv, TypeOK, Existing, Unread
<1>2. /\ row \in Rows /\ row.title = task[t].title /\ row.route = task[t].route /\ row.config = task[t].config
      /\ row.status = "cancelled" /\ row.count = task[t].count
  BY <1>1 DEF Rows, Status, Terminal
<1>3. /\ s \in Reqs /\ s.pc = "event" /\ s.task = t /\ s.event \in EventTypes
      /\ ~OnAttempt(s) /\ ~Closing(s) /\ Informed(s)
  BY <1>1 DEF Idle, Reqs, ReqPc, Option, EventTypes, OnAttempt, OfAttempts, Answering, Closing,
              Existing, Informed
<1>4. /\ Row(t, row) /\ Goto(r, s) /\ snap' = {}
      /\ UNCHANGED <<attempts, events, loop, held, now, swallowed>>
  BY DEF CancelWrite, Commit, ToEvent
<1> HIDE DEF row, s
<1> QED
  BY <1>1, <1>2, <1>3, <1>4, WriteStep

LEMMA HeartbeatWriteStep ==
    ASSUME IInv, NEW r \in Req, HeartbeatWrite(r)
    PROVE  IInv'
<1>0. PICK e \in {"heartbeat", "progress"} : ToEvent(r, req[r].task, req[r].attempt, e)
  BY DEF HeartbeatWrite
<1> DEFINE t == req[r].task
           n == req[r].at + task[t].config.vis
           row == [task[t] EXCEPT !.lease = n]
           s == [Idle EXCEPT !.pc = "event", !.task = t, !.attempt = req[r].attempt, !.event = e]
<1>1. /\ t \in Existing /\ task[t] \in Rows /\ task[t].title \in Title /\ task[t].route \in Route
      /\ task[t].config \in Configs /\ task[t].status # "absent" /\ req[r] \in Reqs
  BY DEF HeartbeatWrite, IInv, TypeOK, Existing, Unread
<1>2. n \in Int /\ n # None
  BY <1>1, ConfigsAssumption, NoneAssumption DEF Reqs
<1> HIDE DEF n
<1>3. /\ row \in Rows /\ row.title = task[t].title /\ row.route = task[t].route /\ row.config = task[t].config
      /\ row.status = task[t].status /\ row.count = task[t].count
      /\ row.worker = task[t].worker /\ row.lease = n
  BY <1>1, <1>2 DEF Rows, Option
<1>4. /\ s \in Reqs /\ s.pc = "event" /\ s.task = t /\ s.event \in EventTypes
      /\ s.attempt = req[r].attempt /\ ~Closing(s) /\ Informed(s)
  BY <1>1 DEF Idle, Reqs, ReqPc, Option, EventTypes, Closing, Existing, Informed
<1>5. s.attempt \in DOMAIN attempts[t]
  BY <1>4 DEF HeartbeatWrite, IInv, HandlersKnowAttempt, OnAttempt, Answering
<1>6. /\ Row(t, row) /\ Goto(r, s) /\ snap' = {}
      /\ UNCHANGED <<attempts, events, loop, held, now, swallowed>>
  BY <1>0 DEF HeartbeatWrite, Commit, ToEvent, n
<1> HIDE DEF row, s
<1> QED
  BY <1>1, <1>2, <1>3, <1>4, <1>5, <1>6, WriteStep

LEMMA CompleteWriteStep ==
    ASSUME IInv, NEW r \in Req, NEW w \in Worker, CompleteWrite(r, w)
    PROVE  IInv'
<1> DEFINE t == req[r].task
           row == Completed(task[t], w)
           s == [req[r] EXCEPT !.pc = "complete.close"]
<1>1. /\ t \in Existing /\ task[t] \in Rows /\ task[t].title \in Title /\ task[t].route \in Route
      /\ task[t].config \in Configs /\ task[t].status # "absent" /\ req[r] \in Reqs
  BY DEF CompleteWrite, IInv, TypeOK, Existing, Unread
<1>2. /\ row \in Rows /\ row.title = task[t].title /\ row.route = task[t].route /\ row.config = task[t].config
      /\ row.status = "completed" /\ row.count = task[t].count
  BY <1>1 DEF Completed, Rows, Status, Terminal, Option
<1>3. /\ s \in Reqs /\ s.pc = "complete.close" /\ s.task = t /\ s.attempt = req[r].attempt
      /\ Informed(s)
  BY <1>1 DEF Reqs, ReqPc, Informed
<1>4. s.attempt \in DOMAIN attempts[t]
  BY <1>3 DEF CompleteWrite, IInv, HandlersKnowAttempt, OnAttempt, Answering
<1>5. /\ Row(t, row) /\ Goto(r, s) /\ snap' = {}
      /\ UNCHANGED <<attempts, events, loop, held, now, swallowed>>
  BY DEF CompleteWrite, Commit
<1> HIDE DEF row, s
<1> QED
  BY <1>1, <1>2, <1>3, <1>4, <1>5, WriteStep

LEMMA FailWriteStep ==
    ASSUME IInv, NEW r \in Req, FailWrite(r)
    PROVE  IInv'
<1> DEFINE t == req[r].task
           row == IF req[r].again THEN Requeued(task[t], req[r].at) ELSE Ended(task[t], "failed")
           s == [req[r] EXCEPT !.pc = "fail.close", !.at = 0, !.again = FALSE]
<1>1. /\ t \in Existing /\ task[t] \in Rows /\ task[t].title \in Title /\ task[t].route \in Route
      /\ task[t].config \in Configs /\ task[t].status # "absent" /\ req[r] \in Reqs
  BY DEF FailWrite, IInv, TypeOK, Existing, Unread
<1>2. /\ row \in Rows /\ row.title = task[t].title /\ row.route = task[t].route /\ row.config = task[t].config
      /\ row.status \in {"queued", "failed"} /\ row.count = task[t].count
  <2>1. "failed" \in Status /\ req[r].at \in Nat
    BY <1>1 DEF Status, Terminal, Reqs
  <2> QED
    BY <1>1, <2>1, UnleasedRow
<1>3. /\ s \in Reqs /\ s.pc = "fail.close" /\ s.task = t /\ s.attempt = req[r].attempt
      /\ Informed(s)
  BY <1>1 DEF Reqs, ReqPc, Informed
<1>4. s.attempt \in DOMAIN attempts[t]
  BY <1>3 DEF FailWrite, IInv, HandlersKnowAttempt, OnAttempt, Answering
<1>5. Goto(r, s) /\ UNCHANGED <<attempts, events, loop, held, now>>
  BY DEF FailWrite
<1>6. CASE Row(t, row) /\ Commit /\ UNCHANGED swallowed
  <2> HIDE DEF row, s
  <2>1. snap' = {}
    BY <1>6 DEF Commit
  <2> QED
    BY <1>1, <1>2, <1>3, <1>4, <1>5, <1>6, <2>1, WriteStep
<1>7. CASE swallowed' = TRUE /\ UNCHANGED <<task, snap>>
  <2> HIDE DEF s
  <2>1. r \notin snap
    BY DEF FailWrite, IInv, SnapshotsFresh
  <2>2. Typed'
    BY <1>5, <1>7 DEF IInv, TypeOK, Typed
  <2> QED
    BY <1>1, <1>3, <1>4, <1>5, <1>7, <2>1, <2>2, LocalStep DEF Typed
<1> QED
  BY <1>6, <1>7 DEF FailWrite, Swallow

LEMMA CloseStep ==
    ASSUME IInv, NEW r \in Req, CompleteClose(r) \/ FailClose(r)
    PROVE  IInv'
<1> DEFINE q == req[r]
<1>1. /\ q \in Reqs /\ q.task \in Existing /\ q.task \in Task /\ Closing(q)
      /\ q.attempt \in DOMAIN attempts[q.task]
  BY DEF CompleteClose, FailClose, IInv, TypeOK, Existing, Unread, Closing, HandlersKnowAttempt,
         OnAttempt, Answering
<1>2. PICK res \in {"completed", "failed"} :
        /\ \/ attempts' = Close(q.task, q.attempt, res) /\ Commit /\ UNCHANGED swallowed
           \/ swallowed' = TRUE /\ UNCHANGED <<attempts, snap>>
        /\ ToEvent(r, q.task, q.attempt, res)
  BY DEF CompleteClose, FailClose, Swallow
<1> DEFINE s == [Idle EXCEPT !.pc = "event", !.task = q.task, !.attempt = q.attempt, !.event = res]
<1>3. /\ s \in Reqs /\ Goto(r, s) /\ s.pc = "event" /\ s.task = q.task
      /\ s.attempt = q.attempt /\ s.event \in EventTypes /\ ~Closing(s) /\ Informed(s)
  BY <1>1, <1>2 DEF ToEvent, Idle, Reqs, ReqPc, EventTypes, Option, Closing, Informed
<1>4. UNCHANGED <<task, events, loop, held, now>>
  BY DEF CompleteClose, FailClose
<1> HIDE DEF s
<1>5. Existing' = Existing
  BY <1>4 DEF Existing
<1>6. /\ req' \in [Req -> Reqs] /\ req'[r] = s
      /\ \A p \in Req : req'[p].pc \notin Unread => req'[p].task \in Existing'
      /\ \A p \in Req : Informed(req'[p])
      /\ \A p \in Req : req'[p].pc = "event" => req'[p].event \in EventTypes
  BY <1>1, <1>3, <1>5, HandlerMove DEF IInv
<1>7. CASE attempts' = Close(q.task, q.attempt, res) /\ Commit /\ UNCHANGED swallowed
  <2>1. snap' = {}
    BY <1>7 DEF Commit
  <2>2. /\ attempts' \in [Task -> Seq(Attempts)]
        /\ \A u \in Task : /\ Len(attempts'[u]) = Len(attempts[u])
                           /\ DOMAIN attempts'[u] = DOMAIN attempts[u]
                           /\ attempts'[u] = <<>> <=> attempts[u] = <<>>
        /\ TokensAgree' /\ LeaseBacked' /\ LeasedAttemptOpen'
        /\ SnapshotsFresh' /\ AttemptsHaveTask'
    BY <1>1, <1>4, <1>7, <2>1, CloseKeeps
  <2>3. TypeOK'
    BY <1>4, <1>5, <1>6, <1>7, <2>1, <2>2 DEF IInv, TypeOK
  <2>4. \A u \in Task : Len(attempts[u]) \in Nat
    BY LenProperties DEF IInv, TypeOK
  <2>5. HandlersKnowAttempt' /\ ClosesOldAttempts'
    BY <1>1, <1>3, <1>4, <1>7, <2>2, <2>4, HandlerKeeps
  <2>6. BatchWasLeased'
    BY <1>4, <2>2 DEF IInv, TypeOK, Existing, BatchWasLeased
  <2> QED
    BY <2>2, <2>3, <2>5, <2>6 DEF IInv
<1>8. CASE swallowed' = TRUE /\ UNCHANGED <<attempts, snap>>
  \* as LocalStep, but the state reached is an event's
  <2>1. TypeOK'
    BY <1>4, <1>5, <1>6, <1>8 DEF IInv, TypeOK
  <2>2. TokensAgree' /\ LeaseBacked' /\ LeasedAttemptOpen'
    BY <1>4, <1>8 DEF IInv, TokensAgree, Token, LeaseBacked, LeasedAttemptOpen
  <2>3. SnapshotsFresh'
    BY <1>1, <1>3, <1>4, <1>8 DEF IInv, SnapshotsFresh, TypeOK, Goto, Closing
  <2>4. \A u \in Task : Len(attempts[u]) \in Nat
    BY LenProperties DEF IInv, TypeOK
  <2>5. HandlersKnowAttempt' /\ ClosesOldAttempts'
    BY <1>1, <1>3, <1>4, <1>8, <2>4, HandlerKeeps
  <2>6. BatchWasLeased' /\ AttemptsHaveTask'
    BY <1>4, <1>5, <1>8 DEF IInv, BatchWasLeased, AttemptsHaveTask
  <2> QED
    BY <2>1, <2>2, <2>3, <2>5, <2>6 DEF IInv
<1> QED
  BY <1>2, <1>7, <1>8

LEMMA LeaseSelectStep ==
    ASSUME IInv, NEW r \in Req, LeaseSelect(r)
    PROVE  IInv'
<1> USE DEF IInv
<1> DEFINE q == req[r]
<1>0. q \in Reqs /\ q.filter \in Filters
  BY DEF LeaseSelect, TypeOK, Informed
<1>1. PICK t \in Task : \E k \in {MaxToken(t) + 1, 1} :
        /\ task[t].status = "queued"
        /\ Goto(r, [q EXCEPT !.pc = "lease.commit", !.task = t, !.attempt = k])
        /\ \/ k = MaxToken(t) + 1 /\ UNCHANGED swallowed
           \/ k = 1 /\ swallowed' = TRUE
  BY DEF LeaseSelect, Picks, Eligible, Swallow
<1>2. PICK k \in {MaxToken(t) + 1, 1} :
        /\ task[t].status = "queued"
        /\ Goto(r, [q EXCEPT !.pc = "lease.commit", !.task = t, !.attempt = k])
        /\ \/ k = MaxToken(t) + 1 /\ UNCHANGED swallowed
           \/ k = 1 /\ swallowed' = TRUE
  BY <1>1
<1> DEFINE s == [q EXCEPT !.pc = "lease.commit", !.task = t, !.attempt = k]
<1>3. t \in Existing /\ attempts \in [Task -> Seq(Attempts)]
  BY <1>2 DEF Existing, TypeOK
<1>4. k \in 1 .. Len(attempts[t]) + 1 /\ k \in Nat
  <2>1. MaxToken(t) \in 0..Len(attempts[t]) /\ Len(attempts[t]) \in Nat
    BY <1>3, MaxTokenBound, LenProperties DEF TokensAgree
  <2> QED
    BY <1>2, <2>1
<1>5. /\ s \in Reqs /\ Goto(r, s) /\ s.pc = "lease.commit" /\ s.task = t
      /\ s.attempt = k /\ ~OnAttempt(s) /\ ~Closing(s) /\ Informed(s)
  BY <1>0, <1>2, <1>4 DEF Reqs, ReqPc, Option, OnAttempt, Closing, Answering, Informed
<1>6. UNCHANGED <<task, attempts, events, loop, held, now>> /\ snap' = snap \cup {r}
  BY DEF LeaseSelect, db
<1> HIDE DEF s
<1>7. Existing' = Existing
  BY <1>6 DEF Existing
<1>8. swallowed' \in BOOLEAN /\ (swallowed => swallowed')
  <2>1. swallowed' = swallowed \/ swallowed' = TRUE
    BY <1>2
  <2> QED
    BY <2>1 DEF TypeOK
<1>9. TypeOK'
  BY <1>3, <1>5, <1>6, <1>7, <1>8, HandlerMove DEF TypeOK
<1>10. TokensAgree' /\ LeaseBacked' /\ LeasedAttemptOpen'
  BY <1>6, <1>8 DEF TokensAgree, Token, LeaseBacked, LeasedAttemptOpen
<1>11. swallowed' \/ k = Len(attempts[t]) + 1
  <2> SUFFICES ASSUME ~swallowed' PROVE k = Len(attempts[t]) + 1
    OBVIOUS
  <2>1. k = MaxToken(t) + 1 /\ ~swallowed
    BY <1>2, <1>8
  <2>2. \A i \in DOMAIN attempts[t] : Token(t, i) = i
    BY <2>1 DEF TokensAgree
  <2> QED
    BY <1>3, <2>1, <2>2, NextToken
<1>12. SnapshotsFresh'
  <2> SUFFICES ASSUME NEW p \in snap'
               PROVE  /\ req'[p].pc = "lease.commit"
                      /\ task[req'[p].task].status = "queued"
                      /\ req'[p].attempt \in 1 .. Len(attempts[req'[p].task]) + 1
                      /\ swallowed' \/ req'[p].attempt = Len(attempts[req'[p].task]) + 1
    BY <1>6 DEF SnapshotsFresh
  <2>1. CASE p = r
    <3>1. req'[r] = s
      BY <1>5 DEF TypeOK, Goto
    <3> QED
      BY <1>2, <1>4, <1>5, <1>11, <2>1, <3>1
  <2>2. CASE p # r
    <3>1. p \in snap /\ req'[p] = req[p]
      BY <1>5, <1>6, <2>2 DEF TypeOK, Goto
    <3> QED
      BY <1>8, <3>1 DEF SnapshotsFresh
  <2> QED
    BY <2>1, <2>2
<1>13. \A u \in Task : Len(attempts[u]) \in Nat
  BY LenProperties DEF TypeOK
<1>14. HandlersKnowAttempt' /\ ClosesOldAttempts'
  BY <1>5, <1>6, <1>8, <1>13, HandlerKeeps
<1>15. BatchWasLeased' /\ AttemptsHaveTask'
  BY <1>6, <1>7 DEF BatchWasLeased, AttemptsHaveTask
<1> QED
  BY <1>9, <1>10, <1>12, <1>14, <1>15

LEMMA LeaseCommitStep ==
    ASSUME IInv, NEW r \in Req, LeaseCommit(r)
    PROVE  IInv'
<1> USE DEF IInv
<1> DEFINE q == req[r]
           t == q.task
           a == Attempt(q.attempt, q.worker)
           n == Len(attempts[t])
           row == Leased(task[t], q.worker, q.at)
           s == [Idle EXCEPT !.pc = "event", !.task = t, !.attempt = n + 1, !.event = "leased"]
<1>1. /\ q \in Reqs /\ t \in Existing /\ t \in Task /\ task[t] \in Rows
      /\ task[t].title \in Title /\ task[t].route \in Route /\ task[t].config \in Configs
      /\ task[t].status = "queued" /\ q.attempt \in 1 .. n + 1
      /\ swallowed \/ q.attempt = n + 1
      /\ q.worker \in Option(Worker) /\ q.at \in Nat
  BY DEF LeaseCommit, SnapshotCurrent, TypeOK, Existing, Unread, SnapshotsFresh, Reqs
<1>2. /\ a \in Attempts /\ a.token = q.attempt /\ a.worker = q.worker /\ a.result = None
  BY <1>1 DEF Attempt, Attempts, Reqs
<1>3. /\ attempts[t] \in Seq(Attempts) /\ n \in Nat /\ DOMAIN attempts[t] = 1..n
  BY <1>1, LenProperties DEF TypeOK
<1>4. /\ Append(attempts[t], a) \in Seq(Attempts)
      /\ Len(Append(attempts[t], a)) = n + 1
      /\ Append(attempts[t], a)[n + 1] = a
      /\ \A i \in 1..n : Append(attempts[t], a)[i] = attempts[t][i]
  BY <1>2, <1>3, AppendProperties
<1>5. /\ attempts' \in [Task -> Seq(Attempts)]
      /\ attempts'[t] = Append(attempts[t], a)
      /\ \A u \in Task : u # t => attempts'[u] = attempts[u]
  BY <1>1, <1>4 DEF LeaseCommit, TypeOK
<1>6. /\ Len(attempts'[t]) = n + 1 /\ DOMAIN attempts'[t] = 1 .. n + 1
      /\ attempts'[t] # <<>> /\ attempts'[t][n + 1] = a
      /\ \A i \in 1..n : attempts'[t][i] = attempts[t][i]
  BY <1>3, <1>4, <1>5, LenProperties, EmptySeq
<1>7. /\ row \in Rows /\ row.title = task[t].title /\ row.route = task[t].route /\ row.config = task[t].config
      /\ row.status = "leased" /\ row.worker = q.worker /\ row.count = task[t].count + 1
      /\ row.lease # None
  BY <1>1, LeasedRow DEF Reqs
<1>8. Row(t, row) /\ Goto(r, s) /\ snap' = {} /\ UNCHANGED <<events, loop, held, now, swallowed>>
  BY DEF LeaseCommit, Commit, ToEvent
<1>9. /\ s \in Reqs /\ s.pc = "event" /\ s.task = t /\ s.attempt = n + 1
      /\ s.event \in EventTypes /\ ~Closing(s) /\ Informed(s)
  <2>1. n + 1 \in Nat
    BY <1>3
  <2> HIDE DEF n
  <2> QED
    BY <1>1, <2>1 DEF Idle, Reqs, ReqPc, Option, EventTypes, Closing, Informed
<1> HIDE DEF a, row, s
<1>10. /\ task' \in [Task -> Rows]
       /\ task'[t] = row
       /\ \A u \in Task : u # t => task'[u] = task[u]
       /\ Existing' = Existing
       /\ \A u \in Existing' : task'[u].title \in Title /\ task'[u].route \in Route /\ task'[u].config \in Configs
  BY <1>1, <1>7, <1>8, RowWrite
<1>11. TypeOK'
  BY <1>1, <1>5, <1>8, <1>9, <1>10, HandlerMove DEF TypeOK
<1>12. TokensAgree'
  <2> SUFFICES ASSUME NEW u \in Task
               PROVE  /\ task'[u].count = Len(attempts'[u])
                      /\ \A i \in DOMAIN attempts'[u] :
                            /\ attempts'[u][i].token \in 1..i
                            /\ swallowed \/ attempts'[u][i].token = i
    BY <1>8 DEF TokensAgree, Token
  <2>1. CASE u # t
    BY <1>5, <1>10, <2>1 DEF TokensAgree, Token
  <2>2. CASE u = t
    <3>1. task'[t].count = n + 1
      BY <1>1, <1>7, <1>10 DEF TokensAgree
    <3>2. ASSUME NEW i \in 1 .. n + 1
          PROVE  /\ attempts'[t][i].token \in 1..i
                 /\ swallowed \/ attempts'[t][i].token = i
      <4>1. CASE i = n + 1
        BY <1>1, <1>2, <1>6, <4>1
      <4>2. CASE i # n + 1
        <5>1. i \in 1..n
          BY <1>3, <4>2
        <5>2. /\ attempts[t][i].token \in 1..i
              /\ swallowed \/ attempts[t][i].token = i
          BY <1>1, <1>3, <5>1 DEF TokensAgree, Token
        <5> QED
          BY <1>6, <5>1, <5>2
      <4> QED
        BY <4>1, <4>2
    <3> QED
      BY <1>6, <2>2, <3>1, <3>2
  <2> QED
    BY <2>1, <2>2
<1>13. LeaseBacked'
  BY <1>2, <1>5, <1>6, <1>7, <1>10 DEF LeaseBacked
<1>14. LeasedAttemptOpen'
  BY <1>2, <1>5, <1>6, <1>8, <1>10 DEF LeasedAttemptOpen
<1>15. SnapshotsFresh'
  BY <1>8 DEF SnapshotsFresh
<1>16. \A u \in Task : /\ Len(attempts[u]) \in Nat /\ Len(attempts'[u]) \in Nat
                       /\ Len(attempts[u]) <= Len(attempts'[u])
                       /\ DOMAIN attempts[u] \subseteq DOMAIN attempts'[u]
                       /\ task'[u].status = "leased"
                            => task[u].status = "leased" \/ Len(attempts[u]) < Len(attempts'[u])
  <2>1. \A u \in Task : Len(attempts[u]) \in Nat
    BY LenProperties DEF TypeOK
  <2> QED
    BY <1>3, <1>5, <1>6, <1>10, <2>1
<1>17. s.attempt \in DOMAIN attempts'[s.task]
  BY <1>3, <1>6, <1>9
<1>18. HandlersKnowAttempt' /\ ClosesOldAttempts'
  BY <1>8, <1>9, <1>16, <1>17, HandlerKeeps
<1>19. BatchWasLeased' /\ AttemptsHaveTask'
  BY <1>1, <1>5, <1>6, <1>8, <1>10 DEF BatchWasLeased, AttemptsHaveTask, TypeOK, Existing
<1> QED
  BY <1>11, <1>12, <1>13, <1>14, <1>15, <1>18, <1>19

LEMMA LoopScanStep ==
    ASSUME IInv, LoopScan
    PROVE  IInv'
<1> USE DEF IInv
<1>1. \A t \in Expired(now) : t \in Task /\ t \in Existing /\ attempts[t] # <<>>
  BY DEF Expired, Existing, LeaseBacked
<1>2. /\ loop' \in Loops /\ loop'.pc = "batch" /\ loop'.batch = Expired(now)
  <2>1. Expired(now) \in SUBSET Task /\ now \in Nat
    BY DEF Expired, TypeOK
  <2> DEFINE E == Expired(now)
             A == {t \in E : task[t].count < task[t].config.max}
  <2>2. loop' = [LoopIdle EXCEPT !.pc = "batch", !.at = now, !.batch = E, !.again = A]
    BY DEF LoopScan
  <2>3. A \in SUBSET Task
    BY <2>1
  <2> HIDE DEF E, A
  <2>4. E \in SUBSET Task
    BY <2>1 DEF E
  <2> QED
    BY <2>1, <2>2, <2>3, <2>4 DEF LoopIdle, Loops, Option, E
<1>3. UNCHANGED <<task, attempts, events, req, snap, held, now, swallowed>>
  BY DEF LoopScan, db
<1> QED
  BY <1>1, <1>2, <1>3, QuietStep DEF TypeOK

\* What is left of a batch is a batch of tasks that were leased.
LEMMA RestType ==
    ASSUME IInv, NEW B \in SUBSET loop.batch
    PROVE  /\ Rest(B) \in Loops /\ Rest(B).batch \subseteq loop.batch
           /\ Rest(B).pc \notin {"timed_out", "retried"}
<1>1. loop \in Loops /\ B \in SUBSET Task
  BY DEF IInv, TypeOK, Loops
<1> QED
  BY <1>1 DEF Rest, LoopIdle, Loops, Option

LEMMA LoopEventStep ==
    ASSUME IInv, LoopTimedOut \/ LoopRetried
    PROVE  IInv'
<1> USE DEF IInv
<1>1. /\ loop \in Loops /\ loop.task \in Existing /\ loop.task \in Task
      /\ attempts[loop.task] # <<>>
      /\ loop.batch \subseteq Existing /\ \A t \in loop.batch : attempts[t] # <<>>
  BY DEF LoopTimedOut, LoopRetried, TypeOK, BatchWasLeased, Existing
<1>2. /\ Rest(loop.batch) \in Loops /\ Rest(loop.batch).batch \subseteq loop.batch
      /\ Rest(loop.batch).pc \notin {"timed_out", "retried"}
  BY RestType
<1>3. \/ loop' = Rest(loop.batch)
      \/ loop' = [loop EXCEPT !.pc = "retried"]
  BY DEF LoopTimedOut, LoopRetried
<1>4. /\ loop' \in Loops /\ loop'.batch \subseteq loop.batch
      /\ loop'.pc \in {"timed_out", "retried"} => loop'.task = loop.task
  BY <1>1, <1>2, <1>3 DEF Loops
<1>5. PICK e \in {"timed_out", "retried"} :
        \/ Record(loop.task, e, 0) /\ Commit /\ UNCHANGED swallowed
        \/ swallowed' = TRUE /\ UNCHANGED <<events, snap>>
  BY DEF LoopTimedOut, LoopRetried, Swallow
<1>6. events' \in [Task -> SUBSET [type : EventTypes, attempt : Nat]]
  <2>1. [type |-> e, attempt |-> 0] \in [type : EventTypes, attempt : Nat]
    BY DEF EventTypes
  <2>2. Record(loop.task, e, 0) \/ events' = events
    BY <1>5
  <2> QED
    BY <1>1, <2>1, <2>2, RecordType
<1>7. snap' \subseteq snap /\ swallowed' \in BOOLEAN /\ (swallowed => swallowed')
  BY <1>5 DEF Commit, TypeOK
<1>8. UNCHANGED <<task, attempts, req, held, now>>
  BY DEF LoopTimedOut, LoopRetried
<1> QED
  BY <1>1, <1>4, <1>6, <1>7, <1>8, QuietStep DEF TypeOK

LEMMA LoopSkipStep ==
    ASSUME IInv, NEW t \in Task, LoopSkip(t)
    PROVE  IInv'
<1> USE DEF IInv
<1>1. loop.batch \subseteq Existing /\ \A u \in loop.batch : attempts[u] # <<>>
  BY DEF TypeOK, BatchWasLeased
<1> DEFINE B == loop.batch \ {t}
<1>2. loop' = Rest(B) /\ UNCHANGED <<task, attempts, events, req, snap, held, now, swallowed>>
  BY DEF LoopSkip, db
<1>3. B \in SUBSET loop.batch
  OBVIOUS
<1> HIDE DEF B
<1>4. /\ loop' \in Loops /\ loop'.batch \subseteq loop.batch
      /\ loop'.pc \notin {"timed_out", "retried"}
  BY <1>2, <1>3, RestType
<1> QED
  BY <1>1, <1>2, <1>4, QuietStep DEF TypeOK

LEMMA LoopUpdateStep ==
    ASSUME IInv, NEW t \in Task, LoopUpdate(t)
    PROVE  IInv'
<1> USE DEF IInv
<1> DEFINE row == IF t \in loop.again THEN Requeued(task[t], loop.at)
                  ELSE Ended(task[t], "timed_out")
<1>1. /\ t \in Existing /\ task[t] \in Rows /\ task[t].title \in Title /\ task[t].route \in Route
      /\ task[t].config \in Configs /\ loop \in Loops /\ t \in loop.batch
  BY DEF LoopUpdate, TypeOK, Existing
<1>2. /\ row \in Rows /\ row.title = task[t].title /\ row.route = task[t].route /\ row.config = task[t].config
      /\ row.status \in {"queued", "timed_out"} /\ row.count = task[t].count
  <2>1. "timed_out" \in Status /\ loop.at \in Nat
    BY <1>1 DEF Status, Terminal, Loops
  <2> QED
    BY <1>1, <2>1, UnleasedRow
<1>3. /\ Row(t, row) /\ snap' = {} /\ UNCHANGED <<attempts, events, req, held, now, swallowed>>
      /\ loop' = [loop EXCEPT !.pc = "timed_out", !.task = t, !.batch = @ \ {t}]
  BY DEF LoopUpdate, Commit
<1> HIDE DEF row
<1>4. /\ loop' \in Loops /\ loop'.pc = "timed_out" /\ loop'.task = t
      /\ loop'.batch \subseteq loop.batch
  BY <1>1, <1>3 DEF Loops, Option
<1>5. /\ task' \in [Task -> Rows]
      /\ task'[t] = row
      /\ \A u \in Task : u # t => task'[u] = task[u]
      /\ Existing' = Existing
      /\ \A u \in Existing' : task'[u].title \in Title /\ task'[u].route \in Route /\ task'[u].config \in Configs
  BY <1>1, <1>2, <1>3, RowWrite
<1>6. TypeOK'
  BY <1>1, <1>3, <1>4, <1>5 DEF TypeOK
<1>7. /\ TokensAgree' /\ LeaseBacked' /\ LeasedAttemptOpen'
      /\ SnapshotsFresh' /\ AttemptsHaveTask'
  BY <1>1, <1>2, <1>3, RowKeeps
<1>8. HandlersKnowAttempt'
  BY <1>3 DEF HandlersKnowAttempt
<1>9. ClosesOldAttempts'
  BY <1>2, <1>3, <1>5 DEF ClosesOldAttempts, Closing, TypeOK, Existing, Unread
<1>10. BatchWasLeased'
  BY <1>1, <1>3, <1>4 DEF BatchWasLeased
<1> QED
  BY <1>6, <1>7, <1>8, <1>9, <1>10

LEMMA CrashOrTickStep ==
    ASSUME IInv, Crash \/ Tick
    PROVE  IInv'
<1> USE DEF IInv
<1>1. LoopIdle \in Loops /\ LoopIdle.batch = {} /\ LoopIdle.pc = "idle"
  BY DEF LoopIdle, Loops, Option
<1>2. CASE Crash
  BY <1>1, <1>2, QuietStep DEF Crash, db, TypeOK
<1>3. CASE Tick
  BY <1>3, QuietStep DEF Tick, db, TypeOK, BatchWasLeased
<1> QED
  BY <1>2, <1>3

LEMMA NextIInv == IInv /\ [Next]_vars => IInv'
<1> SUFFICES ASSUME IInv, [Next]_vars PROVE IInv'
  OBVIOUS
<1>1. ASSUME NEW r \in Req, Handler(r) PROVE IInv'
  <2>1. ASSUME NEW t \in Task, NEW n \in Title, NEW y \in Option(Context),
               NEW x \in Route, NEW c \in Configs, Create(r, t, n, y, x, c)
        PROVE  IInv'
    BY <2>1, CreateStep
  <2>2. ASSUME NEW t \in Task, PatchCheck(r, t) \/ CancelCheck(r, t) PROVE IInv'
    BY <2>2, CheckStep
  <2>3. ASSUME NEW n \in Title, NEW y \in Option(Context), NEW x \in Route, PatchWrite(r, n, y, x) PROVE IInv'
    BY <2>3, PatchWriteStep
  <2>4. CASE CancelWrite(r)
    BY <2>4, CancelWriteStep
  <2>5. ASSUME \/ \E w \in Worker, f \in Filters : LeaseBegin(r, w, f)
               \/ LeaseSelect(r)
        PROVE  IInv'
    BY <2>5, BeginStep, LeaseSelectStep
  <2>6. CASE LeaseCommit(r)
    BY <2>6, LeaseCommitStep
  <2>7. ASSUME NEW h \in held, \/ HeartbeatBegin(r, h[1], h[2])
                               \/ CompleteValidate(r, h[1], h[2])
                               \/ FailValidate(r, h[1], h[2])
        PROVE  IInv'
    <3>1. h[1] \in Task /\ h[2] \in Nat
      BY DEF IInv, TypeOK
    <3> QED
      BY <2>7, <3>1, BeginStep, AnswerStep
  <2>8. CASE HeartbeatRead(r) \/ HeartbeatWrite(r)
    BY <2>8, HeartbeatReadStep, HeartbeatWriteStep
  <2>9. ASSUME NEW w \in Worker, CompleteWrite(r, w) PROVE IInv'
    BY <2>9, CompleteWriteStep
  <2>10. CASE CompleteClose(r) \/ FailClose(r)
    BY <2>10, CloseStep
  <2>11. ASSUME NEW hint \in BOOLEAN, FailRead(r, hint) PROVE IInv'
    BY <2>11, FailReadStep
  <2>12. CASE FailWrite(r)
    BY <2>12, FailWriteStep
  <2>13. CASE AppendEvent(r)
    BY <2>13, AppendEventStep
  <2>14. CASE LeaseNothing(r) \/ LeaseConflict(r) \/ Abort(r)
    BY <2>14, GiveUpStep
  <2>15. ASSUME NEW n \in Title, NEW y \in Context, ClassifyRead(r, n, y) PROVE IInv'
    BY <2>15, ClassifyReadStep
  <2>16. ASSUME NEW x \in Route, ClassifyUpdate(r, x) PROVE IInv'
    BY <2>16, ClassifyUpdateStep
  <2>17. ASSUME NEW t \in Task, NEW x \in Route, NEW c \in Configs, ClassifyInsert(r, t, x, c)
         PROVE  IInv'
    BY <2>17, ClassifyInsertStep
  <2> QED
    BY <1>1, <2>1, <2>2, <2>3, <2>4, <2>5, <2>6, <2>7, <2>8, <2>9, <2>10, <2>11,
       <2>12, <2>13, <2>14, <2>15, <2>16, <2>17 DEF Handler
<1>2. CASE ExpiryLoop
  BY <1>2, LoopScanStep, LoopUpdateStep, LoopSkipStep, LoopEventStep DEF ExpiryLoop
<1>3. CASE Crash \/ Tick
  BY <1>3, CrashOrTickStep
<1>4. CASE UNCHANGED vars
  BY <1>4, QuietStep DEF vars, db, IInv, TypeOK, BatchWasLeased
<1> QED
  BY <1>1, <1>2, <1>3, <1>4 DEF Next

-----------------------------------------------------------------------------
(* The theorems *)

\* The invariant holds in every reachable state, for all constants.
THEOREM Invariance == Spec => []IInv
<1>1. Init => IInv
  BY InitIInv
<1>2. IInv /\ [Next]_vars => IInv'
  BY NextIInv
<1> QED
  BY <1>1, <1>2, PTL DEF Spec

\* The tables and the handlers' states stay well typed.
THEOREM TypeCorrect == Spec => []TypeOK
<1>1. IInv => TypeOK
  BY DEF IInv
<1> QED
  BY <1>1, Invariance, PTL

\* Fencing tokens are given out once and in order (FR-13, NFR-01).
THEOREM TokensOnceInOrder == Spec => []TokensAgree
<1>1. IInv => TokensAgree
  BY DEF IInv
<1> QED
  BY <1>1, Invariance, PTL

\* A lease has a deadline and belongs to the newest attempt's worker.
THEOREM LeasesBacked == Spec => []LeaseBacked
<1>1. IInv => LeaseBacked
  BY DEF IInv
<1> QED
  BY <1>1, Invariance, PTL

\* The owner of a lease can always report.
THEOREM OwnersCanReport == Spec => []LeasedAttemptOpen
<1>1. IInv => LeasedAttemptOpen
  BY DEF IInv
<1> QED
  BY <1>1, Invariance, PTL
=============================================================================
