---------------------------- MODULE ApprovalChain ----------------------------
(***************************************************************************)
(* Client.Bond and Client.Deposit (src/unnamed/part_000): an allowance    *)
(* grant followed by a dependent transaction.  The caller's thread runs   *)
(* Approve synchronously: SubscribeToApproval opens a log subscription     *)
(* filtered on (token, Approval, owner = own account), then the approve   *)
(* transaction is dispatched and a goroutine (GA) takes the first log from *)
(* the subscription, closes the log channel, unsubscribes and hands the    *)
(* log over the unbuffered channel inRes.  Bond then arms a timer and      *)
(* starts a goroutine (GB) that selects on inRes, inErr and the timer; on  *)
(* a log that is not Removed it dispatches the dependent transaction and   *)
(* waits for its receipt.  Bond and Deposit have the same code, so Calls   *)
(* stands for any set of them running at once from one account.            *)
(*                                                                         *)
(* The node's log subscription forwards notifications from a queue; the   *)
(* chain mines approve transactions and, in a reorg, retracts them, which  *)
(* notifies every active subscription of the account with Removed set.    *)
(***************************************************************************)
EXTENDS Integers, Sequences

CONSTANTS
    Calls,              \* concurrent Bond / Deposit calls of one account
    NoCall,             \* model value: no call (an empty log)
    SubscribeMayFail,   \* whether SubscribeFilterLogs can return an error
    ApproveMayFail,     \* whether dispatching approve can return an error
    MaxReorgs           \* bound on reorgs that retract an approve

ASSUME NoCall \notin Calls
ASSUME SubscribeMayFail \in BOOLEAN /\ ApproveMayFail \in BOOLEAN
ASSUME MaxReorgs \in Nat

VARIABLES
    caller,     \* caller[c]: the caller's thread inside Bond / Approve
    ga,         \* ga[c]: Approve's goroutine
    gb,         \* gb[c]: Bond's goroutine
    aLog,       \* aLog[c]: the log GA took from the subscription
    bLog,       \* bLog[c]: the log GB received on inRes
    logsOpen,   \* logsOpen[c]: logsCh of c's subscription is not closed
    subActive,  \* subActive[c]: c's subscription is established, not released
    subOpened,  \* subOpened[c]: c's subscription was established (history)
    notif,      \* notif[c]: notifications queued for c's subscription
    approveTx,  \* approveTx[c]: "none", "pending" or "mined"
    reorgs,     \* reorgs so far
    timer,      \* timer[c]: Bond's timer, "off", "armed" or "fired"
    bTimedOut,  \* bTimedOut[c]: GB took the timer case
    depTx,      \* depTx[c]: "none", "sent" or "mined" (the bond / deposit tx)
    got,        \* got[c]: what the caller's select received
    panicked    \* a goroutine sent on a closed channel: the process died

vars == <<caller, ga, gb, aLog, bLog, logsOpen, subActive, subOpened, notif,
          approveTx, reorgs, timer, bTimedOut, depTx, got, panicked>>

subVars == <<logsOpen, subActive, subOpened, notif>>
chainVars == <<approveTx, reorgs>>

Logs == [from : Calls, removed : BOOLEAN]
NoLog == [from |-> NoCall, removed |-> FALSE]

TypeOK ==
    /\ caller \in [Calls -> {"subscribe", "approve", "blocked", "select", "done"}]
    /\ ga \in [Calls -> {"none", "recv", "close", "unsub", "send", "closed"}]
    /\ gb \in [Calls -> {"none", "select", "dispatch", "wait", "sendRes",
                         "sendErr", "closed"}]
    /\ aLog \in [Calls -> Logs \cup {NoLog}]
    /\ bLog \in [Calls -> Logs \cup {NoLog}]
    /\ logsOpen \in [Calls -> BOOLEAN]
    /\ subActive \in [Calls -> BOOLEAN]
    /\ subOpened \in [Calls -> BOOLEAN]
    /\ notif \in [Calls -> Seq(Logs)]
    /\ approveTx \in [Calls -> {"none", "pending", "mined"}]
    /\ reorgs \in 0..MaxReorgs
    /\ timer \in [Calls -> {"off", "armed", "fired"}]
    /\ bTimedOut \in [Calls -> BOOLEAN]
    /\ depTx \in [Calls -> {"none", "sent", "mined"}]
    /\ got \in [Calls -> {"none", "res", "err", "zero"}]
    /\ panicked \in BOOLEAN

Init ==
    /\ caller = [c \in Calls |-> "subscribe"]
    /\ ga = [c \in Calls |-> "none"]
    /\ gb = [c \in Calls |-> "none"]
    /\ aLog = [c \in Calls |-> NoLog]
    /\ bLog = [c \in Calls |-> NoLog]
    /\ logsOpen = [c \in Calls |-> FALSE]
    /\ subActive = [c \in Calls |-> FALSE]
    /\ subOpened = [c \in Calls |-> FALSE]
    /\ notif = [c \in Calls |-> <<>>]
    /\ approveTx = [c \in Calls |-> "none"]
    /\ reorgs = 0
    /\ timer = [c \in Calls |-> "off"]
    /\ bTimedOut = [c \in Calls |-> FALSE]
    /\ depTx = [c \in Calls |-> "none"]
    /\ got = [c \in Calls |-> "none"]
    /\ panicked = FALSE

Set(f, c, v) == [f EXCEPT ![c] = v]

-----------------------------------------------------------------------------
(* The caller's thread *)

(* SubscribeToApproval: SubscribeFilterLogs on (tokenAddr, Approval,     *)
(* owner) succeeds and returns logsCh and sub.                             *)
SubscribeToApproval(c) ==
    /\ subActive' = Set(subActive, c, TRUE)
    /\ logsOpen' = Set(logsOpen, c, TRUE)
    /\ subOpened' = Set(subOpened, c, TRUE)

(* logsCh, sub, err := c.SubscribeToApproval(); on error Approve does    *)
(* outErr <- err on an unbuffered channel nobody can yet receive from.    *)
Subscribe(c) ==
    /\ ~panicked
    /\ caller[c] = "subscribe"
    /\ \/ /\ SubscribeToApproval(c)
          /\ caller' = Set(caller, c, "approve")
       \/ /\ SubscribeMayFail
          /\ caller' = Set(caller, c, "blocked")
          /\ UNCHANGED <<logsOpen, subActive, subOpened>>
    /\ UNCHANGED <<ga, gb, aLog, bLog, notif, chainVars, timer, bTimedOut,
                   depTx, got, panicked>>

(* Back in Bond: timer := time.NewTimer(c.eventTimeout), go GB, return   *)
(* outRes, outErr to the caller, who selects on them.                     *)
StartBond(c) ==
    /\ timer' = Set(timer, c, "armed")
    /\ gb' = Set(gb, c, "select")
    /\ caller' = Set(caller, c, "select")

(* _, err = c.tokenSession.Approve(toAddr, amount); on error the same    *)
(* blocking send.  Otherwise GA starts, Approve returns, and Bond arms    *)
(* its timer, starts GB and returns its channels to the caller.           *)
ApproveDispatch(c) ==
    /\ ~panicked
    /\ caller[c] = "approve"
    /\ \/ /\ approveTx' = Set(approveTx, c, "pending")
          /\ ga' = Set(ga, c, "recv")
          /\ StartBond(c)
       \/ /\ ApproveMayFail
          /\ caller' = Set(caller, c, "blocked")
          /\ UNCHANGED <<approveTx, ga, timer, gb>>
    /\ UNCHANGED <<aLog, bLog, subVars, reorgs, bTimedOut, depTx, got, panicked>>

-----------------------------------------------------------------------------
(* Approve's goroutine GA *)

(* log := <-logsCh: the subscription forwards its next notification.      *)
Forward(c) ==
    /\ ~panicked
    /\ ga[c] = "recv"
    /\ subActive[c] /\ logsOpen[c]
    /\ notif[c] # <<>>
    /\ aLog' = Set(aLog, c, Head(notif[c]))
    /\ notif' = Set(notif, c, Tail(notif[c]))
    /\ ga' = Set(ga, c, "close")
    /\ UNCHANGED <<caller, gb, bLog, logsOpen, subActive, subOpened, chainVars,
                   timer, bTimedOut, depTx, got, panicked>>

(* close(logsCh) *)
CloseLogs(c) ==
    /\ ~panicked
    /\ ga[c] = "close"
    /\ logsOpen' = Set(logsOpen, c, FALSE)
    /\ ga' = Set(ga, c, "unsub")
    /\ UNCHANGED <<caller, gb, aLog, bLog, subActive, subOpened, notif,
                   chainVars, timer, bTimedOut, depTx, got, panicked>>

(* sub.Unsubscribe(): the node stops forwarding and drops the queue.      *)
Unsubscribe(c) ==
    /\ ~panicked
    /\ ga[c] = "unsub"
    /\ subActive' = Set(subActive, c, FALSE)
    /\ notif' = Set(notif, c, <<>>)
    /\ ga' = Set(ga, c, "send")
    /\ UNCHANGED <<caller, gb, aLog, bLog, logsOpen, subOpened, chainVars,
                   timer, bTimedOut, depTx, got, panicked>>

(* outRes <- log in GA meets case log := <-inRes in GB's select; GA then  *)
(* closes its channels.  if !log.Removed GB goes on to dispatch; else GB  *)
(* leaves the select without sending and its deferred closes run.        *)
HandOff(c) ==
    /\ ~panicked
    /\ ga[c] = "send" /\ gb[c] = "select"
    /\ bLog' = Set(bLog, c, aLog[c])
    /\ ga' = Set(ga, c, "closed")
    /\ gb' = Set(gb, c, IF aLog[c].removed THEN "closed" ELSE "dispatch")
    /\ UNCHANGED <<caller, aLog, subVars, chainVars, timer, bTimedOut, depTx,
                   got, panicked>>

-----------------------------------------------------------------------------
(* Bond's goroutine GB *)

(* Fault variant: the timeout is noted but the select is entered again.  *)
TimerCaseContinue(c) ==
    /\ ~panicked
    /\ gb[c] = "select" /\ timer[c] = "fired"
    /\ bTimedOut' = Set(bTimedOut, c, TRUE)
    /\ UNCHANGED <<caller, ga, gb, aLog, bLog, subVars, chainVars, timer,
                   depTx, got, panicked>>

(* case <-timer.C: outErr <- fmt.Errorf("Event subscription timed out")  *)
TimerCase(c) ==
    /\ ~panicked
    /\ gb[c] = "select" /\ timer[c] = "fired"
    /\ bTimedOut' = Set(bTimedOut, c, TRUE)
    /\ gb' = Set(gb, c, "sendErr")
    /\ UNCHANGED <<caller, ga, aLog, bLog, subVars, chainVars, timer, depTx,
                   got, panicked>>

(* tx, err := c.bondingManagerSession.Bond(amount, toAddr)                *)
DepDispatch(c) ==
    /\ ~panicked
    /\ gb[c] = "dispatch"
    /\ \/ /\ depTx' = Set(depTx, c, "sent")
          /\ gb' = Set(gb, c, "wait")
       \/ /\ gb' = Set(gb, c, "sendErr")
          /\ UNCHANGED depTx
    /\ UNCHANGED <<caller, ga, aLog, bLog, subVars, chainVars, timer,
                   bTimedOut, got, panicked>>

(* receipt, err := c.WaitForReceipt(tx) (789-810): a poll that finds the  *)
(* receipt returns it, or "threw" when gas used equals the gas limit; a   *)
(* NotFound poll sleeps and polls again, and the loop's timeout condition *)
(* never becomes false, so an unmined transaction is polled for ever.      *)
DepReceipt(c) ==
    /\ ~panicked
    /\ gb[c] = "wait" /\ depTx[c] = "mined"
    /\ \E r \in {"sendRes", "sendErr"} : gb' = Set(gb, c, r)
    /\ UNCHANGED <<caller, ga, aLog, bLog, subVars, chainVars, timer,
                   bTimedOut, depTx, got, panicked>>

(* A poll fails with an error other than NotFound: return nil, err.        *)
DepReadError(c) ==
    /\ ~panicked
    /\ gb[c] = "wait"
    /\ gb' = Set(gb, c, "sendErr")
    /\ UNCHANGED <<caller, ga, aLog, bLog, subVars, chainVars, timer,
                   bTimedOut, depTx, got, panicked>>

(* Fault variant: only a Receipt on outRes is taken; an error on outErr   *)
(* is never received.                                                      *)
DeliverBResOnly(c) ==
    /\ ~panicked
    /\ gb[c] = "sendRes" /\ caller[c] = "select"
    /\ got' = Set(got, c, "res")
    /\ gb' = Set(gb, c, "closed")
    /\ caller' = Set(caller, c, "done")
    /\ UNCHANGED <<ga, aLog, bLog, subVars, chainVars, timer, bTimedOut,
                   depTx, panicked>>

(* GB's send meets the caller's select; the deferred closes run.          *)
DeliverB(c) ==
    /\ ~panicked
    /\ gb[c] \in {"sendRes", "sendErr"} /\ caller[c] = "select"
    /\ got' = Set(got, c, IF gb[c] = "sendRes" THEN "res" ELSE "err")
    /\ gb' = Set(gb, c, "closed")
    /\ caller' = Set(caller, c, "done")
    /\ UNCHANGED <<ga, aLog, bLog, subVars, chainVars, timer, bTimedOut,
                   depTx, panicked>>

(* The caller's select finds outRes and outErr closed with nothing sent  *)
(* and takes a zero value.                                                 *)
ReceiveZero(c) ==
    /\ ~panicked
    /\ gb[c] = "closed" /\ caller[c] = "select"
    /\ got' = Set(got, c, "zero")
    /\ caller' = Set(caller, c, "done")
    /\ UNCHANGED <<ga, gb, aLog, bLog, subVars, chainVars, timer, bTimedOut,
                   depTx, panicked>>

-----------------------------------------------------------------------------
(* Environment: the node, the chain and the timer *)

(* The subscription's forwarder sends on logsCh after GA closed it but    *)
(* before GA unsubscribed: send on closed channel, the process panics.    *)
ForwardOnClosed(c) ==
    /\ ~panicked
    /\ subActive[c] /\ ~logsOpen[c] /\ notif[c] # <<>>
    /\ panicked' = TRUE
    /\ UNCHANGED <<caller, ga, gb, aLog, bLog, subVars, chainVars, timer,
                   bTimedOut, depTx, got>>

(* Every active subscription of the account gets log l.                   *)
Notify(l) ==
    notif' = [s \in Calls |-> IF subActive[s] THEN Append(notif[s], l)
                                              ELSE notif[s]]

MineApprove(c) ==
    /\ ~panicked
    /\ approveTx[c] = "pending"
    /\ approveTx' = Set(approveTx, c, "mined")
    /\ Notify([from |-> c, removed |-> FALSE])
    /\ UNCHANGED <<caller, ga, gb, aLog, bLog, logsOpen, subActive, subOpened,
                   reorgs, timer, bTimedOut, depTx, got, panicked>>

Reorg(c) ==
    /\ ~panicked
    /\ approveTx[c] = "mined"
    /\ reorgs < MaxReorgs
    /\ approveTx' = Set(approveTx, c, "pending")
    /\ reorgs' = reorgs + 1
    /\ Notify([from |-> c, removed |-> TRUE])
    /\ UNCHANGED <<caller, ga, gb, aLog, bLog, logsOpen, subActive, subOpened,
                   timer, bTimedOut, depTx, got, panicked>>

MineDep(c) ==
    /\ ~panicked
    /\ depTx[c] = "sent"
    /\ depTx' = Set(depTx, c, "mined")
    /\ UNCHANGED <<caller, ga, gb, aLog, bLog, subVars, chainVars, timer,
                   bTimedOut, got, panicked>>

TimerFire(c) ==
    /\ ~panicked
    /\ timer[c] = "armed"
    /\ timer' = Set(timer, c, "fired")
    /\ UNCHANGED <<caller, ga, gb, aLog, bLog, subVars, chainVars, bTimedOut,
                   depTx, got, panicked>>

(* Every action requires ~panicked: a panic ends the process.            *)
Next ==
    \E c \in Calls :
        \/ Subscribe(c) \/ ApproveDispatch(c)
        \/ Forward(c) \/ CloseLogs(c) \/ Unsubscribe(c) \/ HandOff(c)
        \/ TimerCase(c) \/ DepDispatch(c) \/ DepReceipt(c) \/ DepReadError(c)
        \/ DeliverB(c) \/ ReceiveZero(c)
        \/ ForwardOnClosed(c) \/ MineApprove(c) \/ Reorg(c) \/ MineDep(c)
        \/ TimerFire(c)

(* Runnable goroutines run, the node forwards queued notifications and   *)
(* timers fire.  The chain is not assumed to mine anything, and an RPC    *)
(* error is not assumed to happen.                                         *)
Fairness ==
    \A c \in Calls :
        /\ WF_vars(Subscribe(c) \/ ApproveDispatch(c))
        /\ WF_vars(Forward(c)) /\ WF_vars(CloseLogs(c)) /\ WF_vars(Unsubscribe(c))
        /\ WF_vars(HandOff(c) \/ TimerCase(c))
        /\ WF_vars(DepDispatch(c)) /\ WF_vars(DepReceipt(c))
        /\ WF_vars(DeliverB(c) \/ ReceiveZero(c))
        /\ WF_vars(TimerFire(c))

Spec == Init /\ [][Next]_vars /\ Fairness

-----------------------------------------------------------------------------
(* Properties *)

(* A timeout is final: once GB took the timer case, no late Approval log *)
(* leads to a dependent transaction for that call.                        *)
TimeoutIsFinal ==
    \A c \in Calls : depTx[c] = "sent" => ~bTimedOut[c]

(* I2 in substance: the log GB acted on is the Approval of this call's   *)
(* own approve, not that of a concurrent call of the same account.        *)
OwnGrantObserved ==
    \A c \in Calls : depTx[c] = "sent" => bLog[c].from = c

(* spec.md 4.4 and 6: the caller receives a Receipt or an error, never   *)
(* the zero value of a closed channel.                                    *)
NoZeroResult ==
    \A c \in Calls : got[c] # "zero"

(* No goroutine sends on the closed log channel (the process would die). *)
NoSendOnClosedLogs == ~panicked

(* Once Bond has returned its channels, the caller's select ends, unless *)
(* GB polls for ever for a dependent transaction that is never mined      *)
(* (WaitForReceipt, 790): a log, an error, a Removed log or the event     *)
(* timer ends GB, and GB's send or its deferred closes wake the caller.   *)
PollsForever(c) == gb[c] = "wait" /\ depTx[c] = "sent"

CallerReturns ==
    \A c \in Calls :
        caller[c] = "select" ~> (caller[c] = "done" \/ panicked \/ []PollsForever(c))

(* spec.md 4.2: the subscription is released on every exit path, the    *)
(* timeout included; it is never left dangling (unless the process died). *)
SubscriptionReleased ==
    \A c \in Calls : subActive[c] ~> (~subActive[c] \/ panicked)

=============================================================================
