--------------------------- MODULE TxOrchestrator ---------------------------
(***************************************************************************)
(* The direct transaction operations of eth.Client (InitializeRound,      *)
(* Transcoder, Reward, Job, ClaimWork, Verify, DistributeFees, Transfer;  *)
(* src/unnamed/part_000) and the WaitForReceipt loop they share.  Each    *)
(* call starts a goroutine that dispatches one transaction through the    *)
(* contract session, polls for its receipt once a second, classifies it   *)
(* by gas used, sends the result on one of two unbuffered channels and    *)
(* closes both.  Several operations run concurrently from one account;    *)
(* the session picks each nonce from the node's pending nonce, so two of  *)
(* them can pick the same one (spec.md 5).                                 *)
(*                                                                         *)
(* Time is discrete: goroutine steps take no time, and Tick advances the   *)
(* clock only when every goroutine is blocked (sleeping or finished).      *)
(***************************************************************************)
EXTENDS Integers, FiniteSets

CONSTANTS
    Ops,            \* concurrent operations issued by the Client
    GasLimit,       \* gas limit every transaction is sent with
    EventTimeout,   \* c.eventTimeout, in polling intervals (seconds)
    MaxClock        \* bound on the clock; time beyond it is not told apart

ASSUME GasLimit \in Nat \ {0, 1}
ASSUME EventTimeout \in Nat \ {0}
ASSUME MaxClock \in Nat /\ MaxClock > EventTimeout + 1

VARIABLES
    pc,         \* pc[o]: where o's goroutine is
    nonce,      \* nonce[o]: the nonce o's session read from the node
    txStatus,   \* txStatus[o]: "none", "pending", "mined" or "dropped"
    txNonce,    \* txNonce[o]: nonce of o's transaction in the pool/chain
    receipt,    \* receipt[o]: execution result and gas used once mined
    minedCount, \* account nonce on chain: transactions mined so far
    clock,      \* current time in seconds
    wakeAt,     \* wakeAt[o]: end of o's time.Sleep(time.Second)
    start,      \* start[o]: when o entered WaitForReceipt (history)
    outcome,    \* outcome[o]: the value o's goroutine is about to send
    got         \* got[o]: what the caller received from outRes / outErr

vars == <<pc, nonce, txStatus, txNonce, receipt, minedCount, clock, wakeAt,
          start, outcome, got>>

NoReceipt == [exec |-> "none", gasUsed |-> 0]

(* How a mined transaction may execute: a throw burns the whole gas       *)
(* limit, a REVERT refunds the rest, a success may use any amount.        *)
Executions ==
    [exec : {"ok"}, gasUsed : 1..GasLimit]
      \cup [exec : {"revert"}, gasUsed : 1..(GasLimit - 1)]
      \cup [exec : {"throw"}, gasUsed : {GasLimit}]

Outcomes == {"none", "receipt", "submit", "threw", "rpc", "timeout"}

TypeOK ==
    /\ pc \in [Ops -> {"start", "dispatch", "poll", "sleep", "sendRes",
                       "sendErr", "closed"}]
    /\ nonce \in [Ops -> 0..Cardinality(Ops)]
    /\ txStatus \in [Ops -> {"none", "pending", "mined", "dropped"}]
    /\ txNonce \in [Ops -> 0..Cardinality(Ops)]
    /\ receipt \in [Ops -> Executions \cup {NoReceipt}]
    /\ minedCount \in 0..Cardinality(Ops)
    /\ clock \in 0..MaxClock
    /\ wakeAt \in [Ops -> 0..(MaxClock + 1)]
    /\ start \in [Ops -> 0..MaxClock]
    /\ outcome \in [Ops -> Outcomes]
    /\ got \in [Ops -> {"none", "res", "err"}]

Init ==
    /\ pc = [o \in Ops |-> "start"]
    /\ nonce = [o \in Ops |-> 0]
    /\ txStatus = [o \in Ops |-> "none"]
    /\ txNonce = [o \in Ops |-> 0]
    /\ receipt = [o \in Ops |-> NoReceipt]
    /\ minedCount = 0
    /\ clock = 0
    /\ wakeAt = [o \in Ops |-> 0]
    /\ start = [o \in Ops |-> 0]
    /\ outcome = [o \in Ops |-> "none"]
    /\ got = [o \in Ops |-> "none"]

(* The node's pending nonce: mined plus pooled transactions.              *)
PendingNonce ==
    Cardinality({p \in Ops : txStatus[p] \in {"pending", "mined"}})

(* time.Since(t) *)
Since(t) == clock - t

-----------------------------------------------------------------------------
(* Goroutine steps *)

(* The session (bind.TransactOpts with no fixed nonce) reads the pending  *)
(* nonce before signing.                                                  *)
ReadNonce(o) ==
    /\ pc[o] = "start"
    /\ nonce' = [nonce EXCEPT ![o] = PendingNonce]
    /\ pc' = [pc EXCEPT ![o] = "dispatch"]
    /\ UNCHANGED <<txStatus, txNonce, receipt, minedCount, clock, wakeAt,
                   start, outcome, got>>

(* The node accepts the signed transaction into its pool.  A pooled      *)
(* transaction with the same nonce is replaced and dropped.               *)
DispatchAccepted(o) ==
    /\ nonce[o] >= minedCount
    /\ txStatus' = [p \in Ops |->
                      IF p = o THEN "pending"
                      ELSE IF txStatus[p] = "pending" /\ txNonce[p] = nonce[o]
                           THEN "dropped" ELSE txStatus[p]]
    /\ txNonce' = [txNonce EXCEPT ![o] = nonce[o]]
    /\ pc' = [pc EXCEPT ![o] = "poll"]
    /\ start' = [start EXCEPT ![o] = clock]
    /\ UNCHANGED outcome

(* Fault variant: the error path returns without sending on outErr.      *)
DispatchRejectedSilently(o) ==
    /\ outcome' = [outcome EXCEPT ![o] = "submit"]
    /\ pc' = [pc EXCEPT ![o] = "closed"]
    /\ UNCHANGED <<txStatus, txNonce, start>>

(* tx, err := session.Op(...); if err != nil { outErr <- err; return }   *)
DispatchRejected(o) ==
    /\ outcome' = [outcome EXCEPT ![o] = "submit"]
    /\ pc' = [pc EXCEPT ![o] = "sendErr"]
    /\ UNCHANGED <<txStatus, txNonce, start>>

Dispatch(o) ==
    /\ pc[o] = "dispatch"
    /\ DispatchAccepted(o) \/ DispatchRejected(o)
    /\ UNCHANGED <<nonce, receipt, minedCount, clock, wakeAt, got>>

(* Leave WaitForReceipt with a value for the caller.                       *)
Decide(o, v) ==
    /\ outcome' = [outcome EXCEPT ![o] = v]
    /\ pc' = [pc EXCEPT ![o] = IF v = "receipt" THEN "sendRes" ELSE "sendErr"]
    /\ UNCHANGED wakeAt

(* Fault variant: a receipt is taken as soon as any transaction of the  *)
(* account is mined, not only the awaited hash.                          *)
PollOnceAnyReceipt(o) ==
    \/ Decide(o, "rpc")
    \/ /\ minedCount > 0
       /\ Decide(o, IF receipt[o].gasUsed = GasLimit THEN "threw" ELSE "receipt")
    \/ /\ txStatus[o] # "mined"
       /\ pc' = [pc EXCEPT ![o] = "sleep"]
       /\ wakeAt' = [wakeAt EXCEPT ![o] = clock + 1]
       /\ UNCHANGED outcome

(* Fault variant: a successful receipt does not end the loop.            *)
PollOnceNoReturn(o) ==
    \/ Decide(o, "rpc")
    \/ /\ txStatus[o] = "mined" /\ receipt[o].gasUsed = GasLimit
       /\ Decide(o, "threw")
    \/ /\ receipt[o].gasUsed # GasLimit
       /\ pc' = [pc EXCEPT ![o] = "sleep"]
       /\ wakeAt' = [wakeAt EXCEPT ![o] = clock + 1]
       /\ UNCHANGED outcome

(* Fault variant: the sleep lasts two polling intervals.                 *)
PollOnceLongSleep(o) ==
    \/ Decide(o, "rpc")
    \/ /\ txStatus[o] = "mined"
       /\ Decide(o, IF receipt[o].gasUsed = GasLimit THEN "threw" ELSE "receipt")
    \/ /\ txStatus[o] # "mined"
       /\ pc' = [pc EXCEPT ![o] = "sleep"]
       /\ wakeAt' = [wakeAt EXCEPT ![o] = clock + 2]
       /\ UNCHANGED outcome

(* One iteration of the receipt loop: a failed read other than NotFound  *)
(* ends the wait, a receipt is classified by gas used, NotFound sleeps.   *)
PollOnce(o) ==
    \/ Decide(o, "rpc")
    \/ /\ txStatus[o] = "mined"
       /\ Decide(o, IF receipt[o].gasUsed = GasLimit THEN "threw" ELSE "receipt")
    \/ /\ txStatus[o] # "mined"
       /\ pc' = [pc EXCEPT ![o] = "sleep"]
       /\ wakeAt' = [wakeAt EXCEPT ![o] = clock + 1]
       /\ UNCHANGED outcome

(* for time.Since(time.Now()) < c.eventTimeout { ... }                    *)
(* return nil, fmt.Errorf("Tx %v timed out", ...)                         *)
WaitForReceipt(o) ==
    /\ pc[o] = "poll"
    /\ IF Since(clock) < EventTimeout
          THEN PollOnce(o)
          ELSE Decide(o, "timeout")
    /\ UNCHANGED <<nonce, txStatus, txNonce, receipt, minedCount, clock,
                   start, got>>

(* time.Sleep(time.Second) returns.                                        *)
Wake(o) ==
    /\ pc[o] = "sleep"
    /\ clock >= wakeAt[o] \/ clock = MaxClock
    /\ pc' = [pc EXCEPT ![o] = "poll"]
    /\ UNCHANGED <<nonce, txStatus, txNonce, receipt, minedCount, clock,
                   wakeAt, start, outcome, got>>

(* outRes <- *receipt or outErr <- err meets the caller's receive; the   *)
(* deferred closes then run.                                              *)
Deliver(o) ==
    /\ pc[o] \in {"sendRes", "sendErr"}
    /\ got' = [got EXCEPT ![o] = IF pc[o] = "sendRes" THEN "res" ELSE "err"]
    /\ pc' = [pc EXCEPT ![o] = "closed"]
    /\ UNCHANGED <<nonce, txStatus, txNonce, receipt, minedCount, clock,
                   wakeAt, start, outcome>>

-----------------------------------------------------------------------------
(* Environment: the chain and time *)

(* The next transaction of the account is mined.                          *)
Mine(o) ==
    /\ txStatus[o] = "pending"
    /\ txNonce[o] = minedCount
    /\ txStatus' = [txStatus EXCEPT ![o] = "mined"]
    /\ \E r \in Executions : receipt' = [receipt EXCEPT ![o] = r]
    /\ minedCount' = minedCount + 1
    /\ UNCHANGED <<pc, nonce, txNonce, clock, wakeAt, start, outcome, got>>

Urgent == {"start", "dispatch", "poll", "sendRes", "sendErr"}

Tick ==
    /\ \A o \in Ops : pc[o] \notin Urgent
    /\ clock < MaxClock
    /\ clock' = clock + 1
    /\ UNCHANGED <<pc, nonce, txStatus, txNonce, receipt, minedCount, wakeAt,
                   start, outcome, got>>

Next ==
    \/ \E o \in Ops :
          \/ ReadNonce(o) \/ Dispatch(o) \/ WaitForReceipt(o) \/ Wake(o)
          \/ Deliver(o) \/ Mine(o)
    \/ Tick

(* The Go scheduler runs every runnable goroutine and time passes; the   *)
(* chain is not assumed to mine anything.                                  *)
Fairness ==
    /\ \A o \in Ops : WF_vars(ReadNonce(o) \/ Dispatch(o) \/ WaitForReceipt(o)
                              \/ Wake(o) \/ Deliver(o))
    /\ WF_vars(Tick)

Spec == Init /\ [][Next]_vars /\ Fairness

-----------------------------------------------------------------------------
(* Properties *)

(* What each operation looks like through the lifecycle of TxLifecycle.  *)
ChainOf ==
    [o \in Ops |-> CASE txStatus[o] = "none"    -> "none"
                   []   txStatus[o] = "pending" -> "pending"
                   []   txStatus[o] = "mined"   -> "included"
                   []   txStatus[o] = "dropped" -> "gone"]

LifeOf ==
    [o \in Ops |-> CASE outcome[o] = "receipt" -> "Confirmed"
                   []   outcome[o] = "threw"   -> "Reverted"
                   []   outcome[o] = "timeout" -> "TimedOut"
                   []   outcome[o] \in {"submit", "rpc"} -> "Failed"
                   []   OTHER -> IF txStatus[o] = "none" THEN "Idle"
                                                      ELSE "Submitted"]

Lifecycle == INSTANCE TxLifecycle WITH life <- LifeOf, chain <- ChainOf

(* The concurrent operations, nonce races and receipt polling of the     *)
(* Client implement the PendingTransaction lifecycle of spec.md 3: one    *)
(* outcome per operation, set once, and a receipt-backed outcome only for *)
(* the operation's own transaction after the chain included it.           *)
ImplementsLifecycle == Lifecycle!Spec

(* A goroutine closes outRes and outErr only after the caller received   *)
(* its one value: the caller's select never takes the zero value of a    *)
(* closed channel (the defer close(...) of every direct operation).      *)
ClosedOnlyAfterDelivery ==
    \A o \in Ops : pc[o] = "closed" => got[o] # "none"

(* Once an operation's transaction is mined, WaitForReceipt eventually   *)
(* finds the receipt and the caller receives a result.                    *)
MinedLeadsToResult ==
    \A o \in Ops : (txStatus[o] = "mined") ~> (got[o] # "none")

(* spec.md 8: WaitForReceipt gives up with a timeout no later than one    *)
(* polling interval after c.eventTimeout has elapsed.                      *)
ConfirmationDeadline ==
    \A o \in Ops : pc[o] \in {"poll", "sleep"} =>
                      clock <= start[o] + EventTimeout + 1

=============================================================================
