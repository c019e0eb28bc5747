------------------------ MODULE ForwardingRenewalProofs ------------------------
(***************************************************************************)
(* Proofs about the forwarding-mode renewal loop, for every set of         *)
(* signers, every set of token lifetimes and every back-off delay.         *)
(***************************************************************************)
EXTENDS ForwardingRenewal, TLAPS

(* --- arithmetic of getWithin -------------------------------------------- *)

\* getWithin never returns more than the time left, nor less than zero.
LEMMA GetWithinBounds ==
    ASSUME NEW r \in Int
    PROVE  /\ getWithin(r) \in Nat
           /\ r >= 0 => getWithin(r) <= r
  BY DEF getWithin

\* The margin left by the wait grows with the time left: waking from a
\* token stored with lifetime l and waited on later leaves at most the
\* margin of l.
LEMMA MarginMonotone ==
    ASSUME NEW r \in Int, NEW l \in Int, -1 <= r, r <= l
    PROVE  r - getWithin(r) <= l - getWithin(l)
  <1>1. CASE r <= 0
    <2>1. CASE l <= 0
      BY <1>1, <2>1 DEF getWithin
    <2>2. CASE l > 0
      BY <1>1, <2>2 DEF getWithin
    <2>3. QED  BY <2>1, <2>2
  <1>2. CASE r > 0
    BY <1>2 DEF getWithin
  <1>3. QED  BY <1>1, <1>2

\* The margin of a lifetime is never negative.
LEMMA MarginNonNegative ==
    ASSUME NEW l \in Nat
    PROVE  RenewMargin(l) \in Nat
  BY GetWithinBounds DEF RenewMargin

(* --- type correctness --------------------------------------------------- *)

\* Every step keeps the variables in their types.
LEMMA TypeStep == TypeOK /\ [Next]_vars => TypeOK'
  <1> SUFFICES ASSUME TypeOK, [Next]_vars PROVE TypeOK'
    OBVIOUS
  <1> USE DEF TypeOK, RenewerPCs, SignerPCs, TokenGens
  <1>1. CASE Renewer
    <2>1. CASE CheckWait
      BY <2>1, GetWithinBounds DEF CheckWait, CloneWait
    <2>2. CASE LoginCommit
      <3>1. PICK l \in Lifetimes : expLeft' = l /\ life' = l
        BY <2>2 DEF LoginCommit
      <3>2. l \in Nat \ {0}
        BY LifetimesAssumption
      <3>3. rpc' \in RenewerPCs /\ spc' \in [Signers -> SignerPCs]
        BY <2>2 DEF LoginCommit
      <3>4. tokHead' \in TokenGens /\ tokTail' \in TokenGens
        BY <2>2 DEF LoginCommit
      <3>5. /\ expLeft' \in Int /\ expLeft' >= -1
            /\ life' \in Nat /\ timer' \in Nat
        BY <2>2, <3>1, <3>2 DEF LoginCommit
      <3>6. /\ login' \in BOOLEAN /\ wait' \in BOOLEAN
            /\ refresh' \in BOOLEAN /\ identity' \in BOOLEAN
            /\ cancelled' \in BOOLEAN /\ wlocked' \in BOOLEAN
        BY <2>2 DEF LoginCommit
      <3>7. QED
        BY <3>3, <3>4, <3>5, <3>6
    <2>3. CASE RefreshCommit
      <3>1. PICK l \in Lifetimes : expLeft' = l /\ life' = l
        BY <2>3 DEF RefreshCommit
      <3>2. l \in Nat \ {0}
        BY LifetimesAssumption
      <3>3. rpc' \in RenewerPCs /\ spc' \in [Signers -> SignerPCs]
        BY <2>3 DEF RefreshCommit
      <3>4. tokHead' \in TokenGens /\ tokTail' \in TokenGens
        BY <2>3 DEF RefreshCommit
      <3>5. /\ expLeft' \in Int /\ expLeft' >= -1
            /\ life' \in Nat /\ timer' \in Nat
        BY <2>3, <3>1, <3>2 DEF RefreshCommit
      <3>6. /\ login' \in BOOLEAN /\ wait' \in BOOLEAN
            /\ refresh' \in BOOLEAN /\ identity' \in BOOLEAN
            /\ cancelled' \in BOOLEAN /\ wlocked' \in BOOLEAN
        BY <2>3 DEF RefreshCommit
      <3>7. QED
        BY <3>3, <3>4, <3>5, <3>6
    <2>4. CASE LoginFailed
      BY <2>4, BackoffAssumption DEF LoginFailed
    <2>6. CASE LoginLock
      BY <2>6 DEF LoginLock, NextToken
    <2>7. CASE RefreshLock
      BY <2>7 DEF RefreshLock, NextToken
    <2>5. QED
      BY <1>1, <2>1, <2>2, <2>3, <2>4, <2>6, <2>7
      DEF Renewer, LoopExit, LoopContinue, ResetWait, LoginSucceeded,
          LoginBackoff, RefreshFailed, RefreshFailLock, RefreshSucceeded,
          NoRefreshToken, ExpiryWait
  <1>2. CASE \E s \in Signers : Signer(s)
    BY <1>2 DEF Signer, SignerRequest, SignerRLock, SignerSign
  <1>3. CASE Shutdown
    BY <1>3 DEF Shutdown
  <1>4. CASE Tick
    BY <1>4 DEF Tick
  <1>5. CASE UNCHANGED vars
    BY <1>5 DEF vars
  <1>6. QED
    BY <1>1, <1>2, <1>3, <1>4, <1>5 DEF Next
\* The initial state is well typed.
LEMMA TypeInit == Init => TypeOK
  <1> SUFFICES ASSUME Init PROVE TypeOK
    OBVIOUS
  <1>1. rpc \in RenewerPCs /\ spc \in [Signers -> SignerPCs]
    BY DEF Init, RenewerPCs, SignerPCs
  <1>2. tokHead \in TokenGens /\ tokTail \in TokenGens
    BY DEF Init, TokenGens
  <1>3. /\ login \in BOOLEAN /\ wait \in BOOLEAN
        /\ refresh \in BOOLEAN /\ identity \in BOOLEAN
        /\ cancelled \in BOOLEAN /\ wlocked \in BOOLEAN
    BY DEF Init
  <1>4. expLeft \in Int /\ expLeft >= -1 /\ life \in Nat /\ timer \in Nat
    BY DEF Init
  <1>5. QED
    BY <1>1, <1>2, <1>3, <1>4 DEF TypeOK
THEOREM TypeCorrect == Spec => []TypeOK
  <1>1. Init => TypeOK
    BY TypeInit
  <1>2. TypeOK /\ [Next]_vars => TypeOK'
    BY TypeStep
  <1>3. QED
    BY <1>1, <1>2, PTL DEF Spec

(* --- the renewal timing invariant ----------------------------------------- *)

\* The held token is within the margin its lifetime leaves after the wait.
NearExpiry == expLeft <= RenewMargin(life)

\* Where the renewer is between a finished wait and the next stored token.
PreWaitPCs == {"top", "reset", "login_call", "login_lock", "login_cs",
               "backoff", "refresh_call", "refresh_fail", "refresh_lock",
               "refresh_cs", "norefresh"}

(***************************************************************************)
(* RenewOnlyNearExpiry is not inductive: it says nothing of the wait that  *)
(* leads to a call.  IInv adds that a stored token never has more time     *)
(* left than its lifetime, that a token is near expiry everywhere from the *)
(* end of a wait to the next store, and that during the wait the time left *)
(* minus the time still to sleep is within the margin: the wait and the    *)
(* token age together, so it wakes at most RenewMargin(life) before expiry.*)
(***************************************************************************)
IInv ==
    /\ TypeOK
    /\ expLeft <= life
    /\ rpc \in PreWaitPCs => NearExpiry
    /\ rpc = "check_wait" /\ ~wait => NearExpiry
    /\ rpc = "sleep" => expLeft - timer <= RenewMargin(life)

LEMMA IInvInit == Init => IInv
  <1> SUFFICES ASSUME Init PROVE IInv
    OBVIOUS
  <1>1. TypeOK
    BY TypeInit
  <1>2. RenewMargin(life) \in Nat
    BY MarginNonNegative DEF Init
  <1>3. expLeft = -1 /\ life = 0 /\ rpc = "top"
    BY DEF Init
  <1>4. expLeft <= life /\ NearExpiry
    BY <1>2, <1>3 DEF NearExpiry
  <1>5. QED
    BY <1>1, <1>3, <1>4 DEF IInv, PreWaitPCs

\* Every step keeps IInv: one case per action, the timing facts checked
\* where the action stores a token, waits, or lets time pass.
LEMMA IInvStep == IInv /\ [Next]_vars => IInv'
  <1> SUFFICES ASSUME IInv, [Next]_vars PROVE IInv'
    OBVIOUS
  <1>0. TypeOK /\ TypeOK'
    BY TypeStep DEF IInv
  <1>m. RenewMargin(life) \in Nat
    BY <1>0, MarginNonNegative DEF TypeOK
  <1> USE <1>0 DEF IInv, TypeOK, PreWaitPCs, NearExpiry
  <1>1. CASE LoopExit \/ LoopContinue \/ ResetWait \/ LoginFailed
             \/ LoginSucceeded \/ LoginLock \/ RefreshFailed
             \/ RefreshFailLock \/ RefreshSucceeded \/ RefreshLock
             \/ NoRefreshToken
    BY <1>1 DEF LoopExit, LoopContinue, ResetWait, LoginFailed,
                LoginSucceeded, LoginLock, RefreshFailed, RefreshFailLock,
                RefreshSucceeded, RefreshLock, NoRefreshToken
  <1>2. CASE LoginCommit
    BY <1>2 DEF LoginCommit
  <1>3. CASE RefreshCommit
    BY <1>3 DEF RefreshCommit
  <1>4. CASE LoginBackoff \/ ExpiryWait
    BY <1>4 DEF LoginBackoff, ExpiryWait
  <1>5. CASE CheckWait
    <2>1. CASE wait /\ rpc' = "sleep" /\ timer' = getWithin(expLeft)
      <3>1. expLeft - getWithin(expLeft) <= RenewMargin(life)
        BY MarginMonotone DEF RenewMargin
      <3>2. QED
        BY <1>5, <2>1, <3>1 DEF CheckWait
    <2>2. CASE ~wait /\ rpc' = "top" /\ UNCHANGED timer
      BY <1>5, <2>2 DEF CheckWait
    <2>3. QED
      BY <1>5, <2>1, <2>2 DEF CheckWait, CloneWait
  <1>6. CASE \E s \in Signers : Signer(s)
    BY <1>6 DEF Signer, SignerRequest, SignerRLock, SignerSign
  <1>7. CASE Shutdown
    BY <1>7 DEF Shutdown
  <1>8. CASE Tick
    <2>1. CASE rpc = "sleep"
      <3>1. timer # 0 /\ timer' = timer - 1 /\ rpc' = rpc /\ life' = life
        BY <1>8, <2>1 DEF Tick
      <3>2. expLeft - timer <= RenewMargin(life)
        BY <2>1
      <3>3. expLeft' - timer' <= RenewMargin(life')
        BY <1>8, <3>1, <3>2, <1>m DEF Tick
      <3>4. QED
        BY <1>8, <2>1, <3>1, <3>3 DEF Tick
    <2>2. CASE rpc # "sleep"
      <3>1. /\ rpc' = rpc /\ life' = life /\ wait' = wait
            /\ expLeft' <= expLeft /\ expLeft' \in {expLeft - 1, -1}
        BY <1>8, <2>2 DEF Tick
      <3>2. expLeft' <= life'
        BY <3>1
      <3>3. NearExpiry => NearExpiry'
        BY <3>1, <1>m
      <3>4. QED
        BY <2>2, <3>1, <3>2, <3>3
    <2>3. QED
      BY <2>1, <2>2
  <1>9. CASE UNCHANGED vars
    BY <1>9 DEF vars
  <1>10. QED
    BY <1>1, <1>2, <1>3, <1>4, <1>5, <1>6, <1>7, <1>8, <1>9
    DEF Next, Renewer

(* The renewer only calls the identity provider for a new credential once  *)
(* the held one is in the last 15% of its lifetime (RenewOnlyNearExpiry),  *)
(* for every set of lifetimes, signers and back-off delay.                 *)
THEOREM RenewTiming == Spec => []RenewOnlyNearExpiry
  <1>1. IInv => RenewOnlyNearExpiry
    BY DEF IInv, PreWaitPCs, NearExpiry, RenewOnlyNearExpiry
  <1>2. QED
    BY <1>1, IInvInit, IInvStep, PTL DEF Spec

=============================================================================
