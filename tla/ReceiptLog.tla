----------------------------- MODULE ReceiptLog -----------------------------
(***************************************************************************)
(* What the receipt store promises, without heads, markers or retries: one *)
(* append-only log of receipts per tenant in which a request appears at    *)
(* most once, and no call is answered with a receipt before the log holds  *)
(* a receipt for its request with the same signed content.                 *)
(***************************************************************************)
EXTENDS Integers, Sequences

CONSTANTS Emissions, Tenants, TenantOf, RequestOf, BodyOf

VARIABLES
    log,      \* [Tenants -> sequence of entries]
    answer    \* [Emissions -> "pending", "receipt" or "failure"]

logVars == << log, answer >>

\* Request q of tenant t already has a receipt.
Recorded(t, q) == \E n \in 1 .. Len(log[t]) : log[t][n].content.req = q

\* The log holds a receipt with the signed fields of call e.
Receipted(e) ==
    \E n \in 1 .. Len(log[TenantOf[e]]) :
        /\ log[TenantOf[e]][n].content.req = RequestOf[e]
        /\ log[TenantOf[e]][n].content.body = BodyOf[e]

LogInit ==
    /\ log = [t \in Tenants |-> << >>]
    /\ answer = [e \in Emissions |-> "pending"]

\* The receipt of e is appended; the caller may or may not learn of it.
Record(e) ==
    /\ answer[e] = "pending"
    /\ ~Recorded(TenantOf[e], RequestOf[e])
    /\ LET t == TenantOf[e]
           new == log'[t][Len(log[t]) + 1] IN
       /\ Len(log'[t]) = Len(log[t]) + 1
       /\ log' = [log EXCEPT ![t] = Append(@, new)]
       /\ new.by = e
       /\ new.content.req = RequestOf[e]
       /\ new.content.body = BodyOf[e]
    /\ \E a \in {"receipt", "failure"} : answer' = [answer EXCEPT ![e] = a]

\* An exact retry is answered with the receipt already in the log.
Acknowledge(e) ==
    /\ answer[e] = "pending"
    /\ Receipted(e)
    /\ answer' = [answer EXCEPT ![e] = "receipt"]
    /\ UNCHANGED log

Refuse(e) ==
    /\ answer[e] = "pending"
    /\ answer' = [answer EXCEPT ![e] = "failure"]
    /\ UNCHANGED log

LogNext == \E e \in Emissions : Record(e) \/ Acknowledge(e) \/ Refuse(e)

LogSpec == LogInit /\ [][LogNext]_logVars
=============================================================================
