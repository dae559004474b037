---------------------------- MODULE TxLifecycle ----------------------------
(***************************************************************************)
(* What a transaction-issuing operation of the eth Client promises its    *)
(* caller (spec.md 3, 4.1, 7): each operation's PendingTransaction goes    *)
(* Idle -> Submitted -> one terminal outcome, recorded once and never      *)
(* changed.  An outcome that reports a receipt (Confirmed, or Reverted by  *)
(* the receipt classification) is only possible for a transaction the     *)
(* chain has included.  The chain side is abstract: a submitted           *)
(* transaction is pending, included, or gone (evicted from the pool).     *)
(***************************************************************************)
CONSTANTS Ops       \* the concurrent operations issued by one Client

VARIABLES
    life,           \* life[o]: where operation o's transaction is in its lifecycle
    chain           \* chain[o]: what the chain knows of o's transaction

Idle      == "Idle"
Submitted == "Submitted"
Terminal  == {"Confirmed", "Reverted", "TimedOut", "Failed"}

ChainState == {"none", "pending", "included", "gone"}

TypeOK ==
    /\ life \in [Ops -> {Idle, Submitted} \cup Terminal]
    /\ chain \in [Ops -> ChainState]

Init ==
    /\ life = [o \in Ops |-> Idle]
    /\ chain = [o \in Ops |-> "none"]

(* Dispatch accepted.  Accepting a transaction may evict pending ones that *)
(* the node considers replaced by it.                                      *)
Submit(o) ==
    /\ life[o] = Idle
    /\ life' = [life EXCEPT ![o] = Submitted]
    /\ \E evicted \in SUBSET {p \in Ops : chain[p] = "pending"} :
          chain' = [p \in Ops |-> IF p = o THEN "pending"
                                  ELSE IF p \in evicted THEN "gone"
                                  ELSE chain[p]]

(* Dispatch refused: the operation fails without a transaction.            *)
Reject(o) ==
    /\ life[o] = Idle
    /\ life' = [life EXCEPT ![o] = "Failed"]
    /\ UNCHANGED chain

Include(o) ==
    /\ chain[o] = "pending"
    /\ chain' = [chain EXCEPT ![o] = "included"]
    /\ UNCHANGED life

(* A receipt-backed outcome needs the operation's own included transaction. *)
Classify(o) ==
    /\ life[o] = Submitted
    /\ chain[o] = "included"
    /\ \E r \in {"Confirmed", "Reverted"} : life' = [life EXCEPT ![o] = r]
    /\ UNCHANGED chain

(* Giving up on a submitted transaction (timeout, failed receipt read).    *)
GiveUp(o) ==
    /\ life[o] = Submitted
    /\ \E r \in {"TimedOut", "Failed"} : life' = [life EXCEPT ![o] = r]
    /\ UNCHANGED chain

Next ==
    \E o \in Ops : Submit(o) \/ Reject(o) \/ Include(o) \/ Classify(o) \/ GiveUp(o)

Spec == Init /\ [][Next]_<<life, chain>>

=============================================================================
