---------------------------- MODULE SalesHistory ----------------------------
(***************************************************************************)
(* What an event says of the row before it.  perform_update of an order    *)
(* compares with was_status, which it has read without a lock              *)
(* (views.py:806): writes of others may fall between that read and the     *)
(* COMMIT.  `had` is history: no action reads it, and it only remembers,   *)
(* for each edit that is running, the statuses its order has had since.    *)
(***************************************************************************)
EXTENDS Sales

VARIABLE had  \* per request: the statuses of the order in its URL since was_status

\* r has read was_status and is about to write, or to commit.
Editing(r) == pc[r] \in {"write_order", "commit_order"} /\ seen[r] # NoStatus

StatusNow(r) == IF orders[job[r].url] = NoRow THEN {} ELSE {orders[job[r].url].status}

Remember ==
  had' = [r \in Requests |-> IF Editing(r)' THEN had[r] \cup StatusNow(r)' ELSE {}]

HistoryInit == Init /\ had = [r \in Requests |-> {}]
HistoryNext == Next /\ Remember
HistorySpec == HistoryInit /\ [][HistoryNext]_<<vars, had>>

-----------------------------------------------------------------------------
EditCommits(r) == Editing(r) /\ pc[r] = "commit_order" /\ pc'[r] = "ok"

\* "An event commits with the change it describes" (docs/DOMAIN_EVENTS.md:189): in the
\* commit of an event its subject changes to what the event says, and an order or a
\* payment that is announced as new was not there before.  `before` of a status is a
\* status that the order has had while the edit ran: the one it leaves, unless another
\* write of the order overlapped (views.py:804-809).
EventsTellTheirChange ==
  [][\A e \in outbox' \ outbox :
       IF e.type = "payment.recorded"
         THEN /\ PaymentOf(e.subject, e.check) = {}
              /\ \E p \in payments' : p.customer = e.subject /\ p.check = e.check
         ELSE /\ orders'[e.subject] = [customer |-> e.customer, status |-> e.after]
              /\ e.type = "order.created" => orders[e.subject] = NoRow
              /\ e.type = "order.status_changed" =>
                   /\ e.before # e.after
                   /\ \E r \in Requests : /\ EditCommits(r) /\ job[r].order = e.subject
                                          /\ e.before \in had[r]]_vars

\* An edit that announces no status leaves the order in one it has had while the edit
\* ran.  Alone it has had but one, and nothing moves in silence; of two that overlap the
\* second may move the status back and say nothing, to one the first has just left.
SilentEditsGoBack ==
  [][\A r \in Requests : EditCommits(r) =>
       \/ \E e \in outbox' \ outbox :
            e.type = "order.status_changed" /\ e.subject = job[r].order
       \/ orders'[job[r].order].status \in had[r]]_vars
=============================================================================
