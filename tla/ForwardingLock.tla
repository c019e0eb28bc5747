---------------------------- MODULE ForwardingLock ----------------------------
(***************************************************************************)
(* What forwardingState promises its users (src/forwarding.go, lines      *)
(* 142-157 and 310-323): a credential cell behind a read-write lock.  The  *)
(* single writer takes the lock when no one holds it and, when it lets go, *)
(* either leaves the credential as it was or publishes a newly issued one  *)
(* in one step; readers share the lock while no writer holds it.  A       *)
(* reader therefore always finds a whole credential, the one last          *)
(* published.                                                              *)
(***************************************************************************)
CONSTANTS
    Clients,  \* the signer goroutines
    Issued,   \* credentials the identity provider may issue
    Zero      \* the credential the cell starts with (the zero jose.JWT)

VARIABLES
    writer,   \* the writer holds the lock
    holders,  \* readers holding the lock
    cred      \* the published credential

lockVars == <<writer, holders, cred>>

LockInit ==
    /\ writer = FALSE
    /\ holders = {}
    /\ cred = Zero

\* Lock: no writer and no reader holds the lock.
Acquire ==
    /\ ~writer
    /\ holders = {}
    /\ writer' = TRUE
    /\ UNCHANGED <<holders, cred>>

\* Unlock, publishing a credential different from the one held, or none.
Release ==
    /\ writer
    /\ writer' = FALSE
    /\ \/ cred' \in Issued \ {cred}
       \/ UNCHANGED cred
    /\ UNCHANGED holders

\* RLock: admitted while no writer holds the lock.
ReadAcquire(r) ==
    /\ ~writer
    /\ r \notin holders
    /\ holders' = holders \cup {r}
    /\ UNCHANGED <<writer, cred>>

\* RUnlock.
ReadRelease(r) ==
    /\ r \in holders
    /\ holders' = holders \ {r}
    /\ UNCHANGED <<writer, cred>>

LockNext ==
    \/ Acquire
    \/ Release
    \/ \E r \in Clients : ReadAcquire(r) \/ ReadRelease(r)

LockSpec == LockInit /\ [][LockNext]_lockVars

=============================================================================
