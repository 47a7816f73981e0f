----------------------------- MODULE Deployment -----------------------------
(***************************************************************************)
(* What the processes on one database file promise together, whoever       *)
(* crashes and whoever is started beside whom: the schema goes through its *)
(* versions one after the other and never back; the address belongs to one *)
(* process, which gets it when the schema is complete; only that process   *)
(* accepts requests, each for itself; and requests that were accepted are  *)
(* finished one by one, also after the address was given up, unless the    *)
(* process is cut off with all of them.                                    *)
(* The goroutines of a process, the statements of a version, the drain and *)
(* its timeout are not part of this view: Service implements it with       *)
(*   schema <- schema_migrations          server <- who listens            *)
(*   handling <- the requests whose handlers have not returned             *)
(***************************************************************************)
EXTENDS Naturals

CONSTANTS Proc, Req, Versions, None

VARIABLES schema, server, handling

deployment == <<schema, server, handling>>

Init == schema = {} /\ server = None /\ handling = [p \in Proc |-> {}]

Upgrade ==
    /\ \E v \in 1..Versions : schema = 1 .. v - 1 /\ schema' = 1..v
    /\ UNCHANGED <<server, handling>>

Serve(p) ==
    /\ server = None /\ schema = 1..Versions /\ handling[p] = {}
    /\ server' = p
    /\ UNCHANGED <<schema, handling>>

Accept(p, r) ==
    /\ server = p /\ \A q \in Proc : r \notin handling[q]
    /\ handling' = [handling EXCEPT ![p] = @ \cup {r}]
    /\ UNCHANGED <<schema, server>>

Finish(p, r) ==
    /\ r \in handling[p]
    /\ handling' = [handling EXCEPT ![p] = @ \ {r}]
    /\ UNCHANGED <<schema, server>>

\* A process that has been told to end gives the address up first.
Close(p) ==
    /\ server = p /\ server' = None
    /\ UNCHANGED <<schema, handling>>

CutOff(p) ==
    /\ server' = IF server = p THEN None ELSE server
    /\ handling' = [handling EXCEPT ![p] = {}]
    /\ UNCHANGED schema

Next == \/ Upgrade
        \/ \E p \in Proc : \/ Serve(p) \/ Close(p) \/ CutOff(p)
                           \/ \E r \in Req : Accept(p, r) \/ Finish(p, r)

Spec == Init /\ [][Next]_deployment
=============================================================================
