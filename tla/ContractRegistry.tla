-------------------------- MODULE ContractRegistry --------------------------
(***************************************************************************)
(* NewClient and Client.SetManagers (src/unnamed/part_000 86-193), and     *)
(* the two reads of the manager bindings that Bond (354, 367) and Deposit  *)
(* (426, 439) make.  SetManagers resolves the roles one after the other:   *)
(* Registry(keccak(role)) (returning on error), c.<role>Addr = address,    *)
(* New<Role>(address), c.<role>Session = session.  NewClient calls it and  *)
(* returns the client whatever it returned; no caller in the repository   *)
(* calls SetManagers again.                                                *)
(* Bond reads c.bondingManagerAddr as the approve's spender when it is     *)
(* called and c.bondingManagerSession once the Approval log arrived;      *)
(* Deposit does the same with the JobsManager fields.                     *)
(*                                                                         *)
(* Addresses are abstracted to the registry versions Versions; None is    *)
(* the zero address and the nil session.  The New<Role> binders only      *)
(* parse a constant ABI and do not fail in practice.                       *)
(***************************************************************************)
EXTENDS Naturals, Sequences

CONSTANTS
    RoleOrder,      \* the roles in the order SetManagers resolves them
    Spenders,       \* the roles an approve-then-spend call reads: Bond, Deposit
    Versions,       \* contract deployments the registry can point a role at
    None,           \* zero address / nil session
    LookupMayFail   \* a Registry read may return an RPC error

Roles == {RoleOrder[i] : i \in 1..Len(RoleOrder)}

VARIABLES
    registry,   \* registry[r]: the deployment the on-chain registry names
    addr,       \* addr[r]: c.<role>Addr
    session,    \* session[r]: the deployment c.<role>Session is bound to
    client,     \* "ctor" while NewClient runs, then "returned"
    sm,         \* SetManagers' position: "idle", "lookup", "assign", "bind"
    ri,         \* index in RoleOrder of the role being resolved
    found,      \* the address the last Registry read returned
    smErr,      \* SetManagers returned an error (NewClient drops it)
    rd,         \* rd[s]: the spender call's position
    spender,    \* spender[s]: the address approved
    target      \* target[s]: the deployment the dependent call went to

vars == <<registry, addr, session, client, sm, ri, found, smErr, rd, spender, target>>

Bindings == Versions \cup {None}

TypeOK ==
    /\ registry \in [Roles -> Versions]
    /\ addr \in [Roles -> Bindings]
    /\ session \in [Roles -> Bindings]
    /\ client \in {"ctor", "returned"}
    /\ sm \in {"idle", "lookup", "assign", "bind"}
    /\ ri \in 1..Len(RoleOrder)
    /\ found \in Bindings
    /\ smErr \in BOOLEAN
    /\ rd \in [Spenders -> {"wait", "spend", "done", "panic"}]
    /\ spender \in [Spenders -> Bindings]
    /\ target \in [Spenders -> Bindings]

(* NewClient has built the protocol and token sessions and calls          *)
(* SetManagers on a client whose manager fields are all zero.              *)
Init ==
    /\ registry \in [Roles -> Versions]
    /\ addr = [r \in Roles |-> None]
    /\ session = [r \in Roles |-> None]
    /\ client = "ctor"
    /\ sm = "lookup"
    /\ ri = 1
    /\ found = None
    /\ smErr = FALSE
    /\ rd = [s \in Spenders |-> "wait"]
    /\ spender = [s \in Spenders |-> None]
    /\ target = [s \in Spenders |-> None]

Role == RoleOrder[ri]

resolverVars == <<sm, ri, found, smErr>>
readerVars == <<rd, spender, target>>

-----------------------------------------------------------------------------
(* SetManagers *)

(* x, err := c.protocolSession.Registry(keccak(role)); on error return it. *)
Lookup ==
    /\ sm = "lookup"
    /\ \/ /\ found' = registry[Role]
          /\ sm' = "assign"
          /\ UNCHANGED smErr
       \/ /\ LookupMayFail
          /\ sm' = "idle"
          /\ smErr' = TRUE
          /\ UNCHANGED found
    /\ UNCHANGED <<registry, addr, session, client, ri,
                   readerVars>>

(* c.<role>Addr = x *)
AssignAddr ==
    /\ sm = "assign"
    /\ addr' = [addr EXCEPT ![Role] = found]
    /\ sm' = "bind"
    /\ UNCHANGED <<registry, session, client, ri, found, smErr, readerVars>>

(* m, err := contracts.New<Role>(x, c.backend) (its error, from parsing a *)
(* constant ABI, is not modelled); c.<role>Session = &<Role>Session{m,    *)
(* ...}; then the next role, or return nil after the last one.            *)
Bind ==
    /\ sm = "bind"
    /\ session' = [session EXCEPT ![Role] = found]
    /\ IF ri = Len(RoleOrder)
         THEN sm' = "idle" /\ UNCHANGED ri
         ELSE sm' = "lookup" /\ ri' = ri + 1
    /\ UNCHANGED <<registry, addr, client, found, smErr,
                   readerVars>>

(* Fault variant: NewClient returns while SetManagers is still resolving, *)
(* as if it were started on its own goroutine.                             *)
NewClientReturnEarly ==
    /\ client = "ctor"
    /\ client' = "returned"
    /\ UNCHANGED <<registry, addr, session, resolverVars,
                   readerVars>>

(* client.SetManagers(); return client, nil -- the error is dropped.       *)
NewClientReturn ==
    /\ client = "ctor"
    /\ sm = "idle"
    /\ client' = "returned"
    /\ UNCHANGED <<registry, addr, session, resolverVars,
                   readerVars>>

-----------------------------------------------------------------------------
(* Bond / Deposit on another goroutine *)

(* inRes, inErr := c.Approve(c.<spender>Addr, amount)                      *)
ReadSpender(s) ==
    /\ client = "returned"
    /\ rd[s] = "wait"
    /\ spender' = [spender EXCEPT ![s] = addr[s]]
    /\ rd' = [rd EXCEPT ![s] = "spend"]
    /\ UNCHANGED <<registry, addr, session, client, resolverVars, target>>

(* After the Approval log: tx, err := c.<spender>Session.Bond / Deposit;  *)
(* a nil session is a nil pointer dereference in the goroutine.            *)
ReadSession(s) ==
    /\ rd[s] = "spend"
    /\ target' = [target EXCEPT ![s] = session[s]]
    /\ rd' = [rd EXCEPT ![s] = IF session[s] = None THEN "panic" ELSE "done"]
    /\ UNCHANGED <<registry, addr, session, client, resolverVars, spender>>

Next ==
    \/ Lookup \/ AssignAddr \/ Bind \/ NewClientReturn
    \/ \E s \in Spenders : ReadSpender(s) \/ ReadSession(s)

Spec == Init /\ [][Next]_vars

-----------------------------------------------------------------------------
(* Properties *)

(* The nil-session panic of a Bond or Deposit goroutine follows only from *)
(* the error NewClient dropped (line 127): a client whose SetManagers     *)
(* returned nil has every session bound before any caller can use it.     *)
NilSessionOnlyAfterDroppedError ==
    \A s \in Spenders : rd[s] = "panic" => smErr

=============================================================================
