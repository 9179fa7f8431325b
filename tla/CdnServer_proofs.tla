--------------------------- MODULE CdnServer_proofs ---------------------------
(***************************************************************************)
(* For any set of clients, buffer size and faults: the heartbeat lock      *)
(* excludes, it is lost only to a broken connection or to termination, and *)
(* a lost lock stays lost.                                                 *)
(***************************************************************************)
EXTENDS CdnServer, TLAPS

\* The service starts with the lock free and nobody signalled.
LEMMA InitCdnInv == Init => CdnInv
  BY CdnAssumption
  DEF Init, CdnInv, TypeOK, HolderOnly, LostOnlyToABreak, SignalledOnlyAtExit,
      ForkedOnAccept, InCritical

\* Every step of the main process, of a heartbeat process and of the network
\* keeps the inductive invariant.
LEMMA StepCdnInv == CdnInv /\ [Next]_vars => CdnInv'
  <1> SUFFICES ASSUME CdnInv, [Next]_vars
               PROVE  CdnInv'
    OBVIOUS
  <1> USE CdnAssumption
      DEF CdnInv, TypeOK, HolderOnly, LostOnlyToABreak, SignalledOnlyAtExit,
          ForkedOnAccept, InCritical
  <1>1. CASE Listen
    BY <1>1 DEF Listen
  <1>2. CASE Enlist
    BY <1>2 DEF Enlist
  <1>3. CASE Terminate
    BY <1>3 DEF Terminate, Alive
  <1>4. CASE CleanUp
    BY <1>4 DEF CleanUp, PortOwners, Alive
  <1>5. CASE Exit
    BY <1>5 DEF Exit
  <1>6. ASSUME NEW c \in Clients, Accept(c)
        PROVE  CdnInv'
    BY <1>6 DEF Accept
  <1>7. ASSUME NEW c \in Clients, Heartbeat(c)
        PROVE  CdnInv'
    <2>1. CASE Acquire(c)
      BY <2>1 DEF Acquire
    <2>2. CASE Send(c)
      BY <2>2 DEF Send
    <2>3. CASE SendFails(c)
      BY <2>3 DEF SendFails
    <2>4. CASE Release(c)
      BY <2>4 DEF Release
    <2>5. CASE Wake(c)
      BY <2>5 DEF Wake
    <2>6. CASE Die(c)
      BY <2>6 DEF Die, PortOwners, Alive
    <2>7. QED
      BY <1>7, <2>1, <2>2, <2>3, <2>4, <2>5, <2>6 DEF Heartbeat
  <1>8. ASSUME NEW c \in Clients, Network(c)
        PROVE  CdnInv'
    <2>1. CASE Connect(c)
      BY <2>1 DEF Connect
    <2>2. CASE Deliver(c)
      BY <2>2 DEF Deliver
    <2>3. CASE GoDeaf(c)
      BY <2>3 DEF GoDeaf
    <2>4. CASE TimeOut(c)
      BY <2>4 DEF TimeOut
    <2>5. CASE Close(c)
      BY <2>5 DEF Close
    <2>6. QED
      BY <1>8, <2>1, <2>2, <2>3, <2>4, <2>5 DEF Network
  <1>9. CASE UNCHANGED vars
    BY <1>9 DEF vars
  <1>10. QED
    BY <1>1, <1>2, <1>3, <1>4, <1>5, <1>6, <1>7, <1>8, <1>9 DEF Next

\* The inductive invariant of the notification service.
THEOREM CdnInvariance == Spec => []CdnInv
  <1>1. QED
    BY InitCdnInv, StepCdnInv, PTL DEF Spec

\* Every variable keeps its type: no send buffer overflows.
THEOREM ServiceTypeCorrect == Spec => []TypeOK
  <1>1. CdnInv => TypeOK
    BY DEF CdnInv
  <1>2. QED
    BY <1>1, CdnInvariance, PTL

\* Whoever is between acquire and release holds the lock.
THEOREM LockExcludes == Spec => []HolderOnly
  <1>1. CdnInv => HolderOnly
    BY DEF CdnInv
  <1>2. QED
    BY <1>1, CdnInvariance, PTL

\* The lock is lost only by a process whose own connection broke, or at
\* termination.
THEOREM LockLostOnlyToABreak == Spec => []LostOnlyToABreak
  <1>1. CdnInv => LostOnlyToABreak
    BY DEF CdnInv
  <1>2. QED
    BY <1>1, CdnInvariance, PTL

\* A lock that a dead process holds is never given back.
THEOREM LockLostForGood == Spec => LostForGood
  <1>1. ASSUME CdnInv, Next, notify_lock # Free, proc[notify_lock] = "dead"
        PROVE  UNCHANGED notify_lock
    <2>1. ASSUME NEW c \in Clients, Heartbeat(c)
          PROVE  UNCHANGED notify_lock
      <3>1. CASE Acquire(c)
        BY <1>1, <3>1 DEF Acquire
      <3>2. CASE Release(c)
        BY <1>1, <3>2 DEF Release, CdnInv, HolderOnly, InCritical
      <3>3. QED
        BY <2>1, <3>1, <3>2 DEF Heartbeat, Send, SendFails, Wake, Die
    <2>2. ASSUME NEW c \in Clients, Accept(c) \/ Network(c)
          PROVE  UNCHANGED notify_lock
      BY <2>2 DEF Accept, Network, Connect, Deliver, GoDeaf, TimeOut, Close
    <2>3. QED
      BY <1>1, <2>1, <2>2 DEF Next, Listen, Enlist, Terminate, CleanUp, Exit
  <1>2. CdnInv /\ [Next]_vars
          => [notify_lock # Free /\ proc[notify_lock] = "dead" => UNCHANGED notify_lock]_vars
    BY <1>1
  <1>3. QED
    BY <1>2, CdnInvariance, PTL DEF Spec, LostForGood
=============================================================================
