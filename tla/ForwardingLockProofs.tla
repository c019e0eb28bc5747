-------------------------- MODULE ForwardingLockProofs --------------------------
(***************************************************************************)
(* Proofs of the locking discipline of forwardingState: the renewer holds  *)
(* the write lock exactly inside its two update sections, no signer is     *)
(* inside RLock meanwhile, and the two halves of state.token agree outside *)
(* them.  From this: the lock is never held across I/O, no signer copies a *)
(* torn token, and the renewer and signers implement the credential cell   *)
(* of ForwardingLock.  Separately, the identity is set wherever the        *)
(* refresh branch dereferences it.                                         *)
(***************************************************************************)
EXTENDS ForwardingRenewalProofs

\* The renewer's update sections: between state.Lock() and state.Unlock()
\* around the store of a new token (lines 216-229 and 262-277).
CriticalPCs == {"login_cs", "refresh_cs"}

(***************************************************************************)
(* LInv: the lock flag is exactly the renewer being in an update section;  *)
(* while it is, no signer reads and the half of the token already copied  *)
(* is a new, issued one; outside, both halves are the same token.          *)
(***************************************************************************)
LInv ==
    /\ TypeOK
    /\ wlocked <=> rpc \in CriticalPCs
    /\ wlocked => Readers = {} /\ tokHead # tokTail /\ tokHead # 0
    /\ ~wlocked => tokHead = tokTail

LEMMA LInvInit == Init => LInv
  <1> SUFFICES ASSUME Init PROVE LInv
    OBVIOUS
  <1>1. TypeOK
    BY TypeInit
  <1>2. QED
    BY <1>1 DEF Init, LInv, CriticalPCs

\* NextToken is an issued token other than the one in state.token.
LEMMA NextTokenFresh ==
    ASSUME tokTail \in TokenGens
    PROVE  NextToken \in TokenGens \ {0, tokTail}
  BY DEF NextToken, TokenGens

\* The set of reading signers is unchanged by a signer step of s that
\* neither starts nor ends with s reading.
LEMMA ReadersKept ==
    ASSUME TypeOK, NEW s \in Signers,
           spc' = [spc EXCEPT ![s] = "rlock"], spc[s] = "idle"
    PROVE  Readers' = Readers
  BY DEF TypeOK, Readers

LEMMA LInvStep == LInv /\ [Next]_vars => LInv'
  <1> SUFFICES ASSUME LInv, [Next]_vars PROVE LInv'
    OBVIOUS
  <1>0. TypeOK'
    BY TypeStep DEF LInv
  <1> USE <1>0 DEF LInv, CriticalPCs
  <1>1. CASE LoopExit \/ LoopContinue \/ ResetWait \/ LoginFailed
             \/ LoginSucceeded \/ LoginBackoff \/ RefreshFailed
             \/ RefreshFailLock \/ RefreshSucceeded \/ NoRefreshToken
             \/ CheckWait \/ ExpiryWait
    BY <1>1 DEF LoopExit, LoopContinue, ResetWait, LoginFailed,
                LoginSucceeded, LoginBackoff, RefreshFailed, RefreshFailLock,
                RefreshSucceeded, NoRefreshToken, CheckWait, ExpiryWait,
                Readers
  <1>2. CASE LoginLock \/ RefreshLock
    <2>1. NextToken \in TokenGens \ {0, tokTail}
      BY NextTokenFresh DEF TypeOK
    <2>2. QED
      BY <1>2, <2>1 DEF LoginLock, RefreshLock, CanLock, Readers
  <1>3. CASE LoginCommit \/ RefreshCommit
    BY <1>3 DEF LoginCommit, RefreshCommit
  <1>4. CASE \E s \in Signers : SignerRequest(s)
    <2>1. PICK s \in Signers : SignerRequest(s)
      BY <1>4
    <2>2. Readers' = Readers
      BY <2>1, ReadersKept DEF SignerRequest
    <2>3. QED
      BY <2>1, <2>2 DEF SignerRequest
  <1>5. CASE \E s \in Signers : SignerRLock(s)
    BY <1>5 DEF SignerRLock
  <1>6. CASE \E s \in Signers : SignerSign(s)
    <2>1. PICK s \in Signers : SignerSign(s)
      BY <1>6
    <2>2. Readers' \subseteq Readers
      BY <2>1 DEF SignerSign, Readers, TypeOK
    <2>3. QED
      BY <2>1, <2>2 DEF SignerSign
  <1>7. CASE Shutdown \/ Tick
    BY <1>7 DEF Shutdown, Tick, Readers
  <1>8. CASE UNCHANGED vars
    BY <1>8 DEF vars, Readers
  <1>9. QED
    BY <1>1, <1>2, <1>3, <1>4, <1>5, <1>6, <1>7, <1>8
    DEF Next, Renewer, Signer

LEMMA LInvAlways == Spec => []LInv
  BY LInvInit, LInvStep, PTL DEF Spec

(* The write lock is never held across a network call or a timed wait     *)
(* (NoLockAcrossIO), for every set of signers, lifetimes and delay.        *)
THEOREM LockDiscipline == Spec => []NoLockAcrossIO
  <1>1. LInv => NoLockAcrossIO
    BY DEF LInv, CriticalPCs, NoLockAcrossIO, BlockingPCs
  <1>2. QED
    BY <1>1, LInvAlways, PTL

(* No signer ever copies a torn state.token (SignedTokenIntact): a signer  *)
(* inside RLock excludes the writer, outside whose section the halves      *)
(* agree.                                                                  *)
THEOREM TokenIntact == Spec => SignedTokenIntact
  <1>1. LInv => \A s \in Signers : SignerSign(s) => tokHead = tokTail
    <2> SUFFICES ASSUME LInv, NEW s \in Signers, SignerSign(s)
                 PROVE  tokHead = tokTail
      OBVIOUS
    <2>1. s \in Readers
      BY DEF SignerSign, Readers
    <2>2. QED
      BY <2>1 DEF LInv
  <1>2. QED
    BY <1>1, LInvAlways, PTL DEF SignedTokenIntact

(* --- the refinement ------------------------------------------------------ *)

\* Every step of the renewer and the signers is a step of the abstract
\* credential cell, or leaves the lock flag, the readers and the committed
\* token unchanged.
LEMMA LockStep ==
    LInv /\ [Next]_vars => [Lock!LockNext]_Lock!lockVars
  <1> SUFFICES ASSUME LInv, [Next]_vars
               PROVE  [Lock!LockNext]_Lock!lockVars
    OBVIOUS
  <1> USE DEF LInv, CriticalPCs
  <1>1. CASE LoopExit \/ LoopContinue \/ ResetWait \/ LoginFailed
             \/ LoginSucceeded \/ LoginBackoff \/ RefreshFailed
             \/ RefreshFailLock \/ RefreshSucceeded \/ NoRefreshToken
             \/ CheckWait \/ ExpiryWait \/ Shutdown \/ Tick
    <2>1. UNCHANGED <<wlocked, spc, tokTail>>
      BY <1>1 DEF LoopExit, LoopContinue, ResetWait, LoginFailed,
                  LoginSucceeded, LoginBackoff, RefreshFailed,
                  RefreshFailLock, RefreshSucceeded, NoRefreshToken,
                  CheckWait, ExpiryWait, Shutdown, Tick
    <2>2. QED
      BY <2>1 DEF Lock!lockVars, Readers
  <1>2. CASE LoginLock \/ RefreshLock
    <2>1. /\ ~wlocked /\ Readers = {} /\ wlocked'
          /\ UNCHANGED <<spc, tokTail>>
      BY <1>2 DEF LoginLock, RefreshLock, CanLock
    <2>2. Lock!Acquire
      BY <2>1 DEF Lock!Acquire, Readers
    <2>3. QED
      BY <2>2 DEF Lock!LockNext
  <1>3. CASE LoginCommit \/ RefreshCommit
    <2>1. /\ wlocked /\ ~wlocked' /\ tokTail' = tokHead
          /\ UNCHANGED spc
      BY <1>3 DEF LoginCommit, RefreshCommit
    <2>2. tokHead \in TokenGens \ {0} /\ tokHead # tokTail
      BY <2>1 DEF TypeOK
    <2>3. Lock!Release
      BY <2>1, <2>2 DEF Lock!Release, Readers
    <2>4. QED
      BY <2>3 DEF Lock!LockNext
  <1>4. CASE \E s \in Signers : SignerRequest(s)
    <2>1. PICK s \in Signers : SignerRequest(s)
      BY <1>4
    <2>2. Readers' = Readers
      BY <2>1, ReadersKept DEF SignerRequest
    <2>3. QED
      BY <2>1, <2>2 DEF SignerRequest, Lock!lockVars
  <1>5. CASE \E s \in Signers : SignerRLock(s)
    <2>1. PICK s \in Signers : SignerRLock(s)
      BY <1>5
    <2>2. /\ ~wlocked /\ s \notin Readers /\ Readers' = Readers \cup {s}
          /\ UNCHANGED <<wlocked, tokTail>>
      BY <2>1 DEF SignerRLock, Readers, TypeOK
    <2>3. Lock!ReadAcquire(s)
      BY <2>2 DEF Lock!ReadAcquire
    <2>4. QED
      BY <2>3 DEF Lock!LockNext
  <1>6. CASE \E s \in Signers : SignerSign(s)
    <2>1. PICK s \in Signers : SignerSign(s)
      BY <1>6
    <2>2. /\ s \in Readers /\ Readers' = Readers \ {s}
          /\ UNCHANGED <<wlocked, tokTail>>
      BY <2>1 DEF SignerSign, Readers, TypeOK
    <2>3. Lock!ReadRelease(s)
      BY <2>2 DEF Lock!ReadRelease
    <2>4. QED
      BY <2>3 DEF Lock!LockNext
  <1>7. CASE UNCHANGED vars
    BY <1>7 DEF vars, Lock!lockVars, Readers
  <1>8. QED
    BY <1>1, <1>2, <1>3, <1>4, <1>5, <1>6, <1>7 DEF Next, Renewer, Signer

(* The renewer and the signers implement the credential cell behind a     *)
(* read-write lock (ImplementsLock), for every set of signers, lifetimes  *)
(* and back-off delay.                                                     *)
THEOREM LockRefinement == Spec => ImplementsLock
  <1>1. Init => Lock!LockInit
    BY DEF Init, Lock!LockInit, Readers
  <1>2. QED
    BY <1>1, LockStep, LInvAlways, PTL DEF Spec, ImplementsLock, Lock!LockSpec

(* --- the identity dereference ------------------------------------------- *)

\* Where the renewer is once it took the refresh branch of line 231.
RefreshPCs == {"refresh_call", "refresh_fail", "refresh_lock", "refresh_cs",
               "norefresh"}

(***************************************************************************)
(* NoNilIdentityDeref is not inductive: the branch is chosen from login at *)
(* ResetWait.  IdInv adds that login is only ever cleared with an identity *)
(* stored, so every pc of the refresh branch has one.                      *)
(***************************************************************************)
IdInv ==
    /\ TypeOK
    /\ ~login => identity
    /\ rpc \in RefreshPCs => identity

LEMMA IdInvStep == IdInv /\ [Next]_vars => IdInv'
  <1> SUFFICES ASSUME IdInv, [Next]_vars PROVE IdInv'
    OBVIOUS
  <1>0. TypeOK'
    BY TypeStep DEF IdInv
  <1> USE <1>0 DEF IdInv, RefreshPCs
  <1>1. CASE Renewer
    BY <1>1 DEF Renewer, LoopExit, LoopContinue, ResetWait, LoginFailed,
                LoginSucceeded, LoginLock, LoginCommit, LoginBackoff,
                RefreshFailed, RefreshFailLock, RefreshSucceeded,
                RefreshLock, RefreshCommit, NoRefreshToken, CheckWait,
                ExpiryWait
  <1>2. CASE \E s \in Signers : Signer(s)
    BY <1>2 DEF Signer, SignerRequest, SignerRLock, SignerSign
  <1>3. CASE Shutdown \/ Tick
    BY <1>3 DEF Shutdown, Tick
  <1>4. CASE UNCHANGED vars
    BY <1>4 DEF vars
  <1>5. QED
    BY <1>1, <1>2, <1>3, <1>4 DEF Next

(* The refresh branch never dereferences a nil cloneState.identity        *)
(* (NoNilIdentityDeref), for every set of signers, lifetimes and delay.    *)
THEOREM IdentitySet == Spec => []NoNilIdentityDeref
  <1>1. Init => IdInv
    BY TypeInit DEF Init, IdInv, RefreshPCs
  <1>2. IdInv => NoNilIdentityDeref
    BY DEF IdInv, RefreshPCs, NoNilIdentityDeref
  <1>3. QED
    BY <1>1, <1>2, IdInvStep, PTL DEF Spec

=============================================================================
