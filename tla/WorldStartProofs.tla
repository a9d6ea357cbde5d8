-------------------------- MODULE WorldStartProofs --------------------------
(***************************************************************************)
(* Proofs about WorldStart, for every length of the five waits with        *)
(* HealthWait + ProbeWait <= EmitterWait.                                  *)
(***************************************************************************)
EXTENDS WorldStart, TLAPS

(* Before Start runs there is nothing to clean up.                         *)
LEMMA InitInv == Init => WorldStartInv
<1> SUFFICES ASSUME Init PROVE WorldStartInv
  OBVIOUS
<1>1. TypeOK
  <2>1. 0 \in 0 .. KVMWait /\ 0 \in 0 .. EmitterWait /\ 0 \in Nat
    BY WorldStartAssumption
  <2>2. engine \in {"jailer", "firecracker"}
    BY WorldStartAssumption DEF Init
  <2> QED
    BY <2>1, <2>2, Zenon DEF Init, TypeOK
<1>2. PortByStep /\ ProcByStep /\ BindNoted /\ GuestByProc /\ EmitterBehindHealth
  BY DEF Init, PortByStep, ProcByStep, BindNoted, GuestByProc, EmitterBehindHealth, Running
<1>3. StoppedClean /\ FirecrackerHasKVM /\ EmitterConnected
  BY DEF Init, StoppedClean, FirecrackerHasKVM, EmitterConnected
<1> QED
  BY <1>1, <1>2, <1>3 DEF WorldStartInv

(* Every step of Start, Stop, the process, the guest and the clock keeps   *)
(* them in step.                                                           *)
LEMMA NextInv == WorldStartInv /\ [Next]_vars => WorldStartInv'
<1> SUFFICES ASSUME WorldStartInv, [Next]_vars PROVE WorldStartInv'
  OBVIOUS
<1> USE WorldStartAssumption
<1> USE DEF WorldStartInv, TypeOK, PortByStep, ProcByStep, BindNoted, GuestByProc,
            EmitterBehindHealth, StoppedClean, FirecrackerHasKVM, EmitterConnected,
            Running, hostVars, procVars, guestVars, startVars
<1>1. CASE Prepare
  BY <1>1 DEF Prepare
<1>2. CASE PrepareFails
  BY <1>2 DEF PrepareFails
<1>3. CASE StartVMM
  <2>1. engine \in {"jailer", "firecracker"} /\ proc' = engine /\ proc = "none" /\ guest = "off" /\ ~stuck
    BY <1>3 DEF StartVMM
  <2>2. step' = (IF engine = "jailer" THEN "overlay" ELSE "health") /\ waited' = 0
    BY <1>3 DEF StartVMM, Wait
  <2>3. UNCHANGED <<returned, engine, hostVars, kvmWaited, guestVars>> /\ step = "launch"
    BY <1>3 DEF StartVMM
  <2>4. node # "bound"
    BY <1>3 DEF StartVMM
  <2> QED
    BY <2>1, <2>2, <2>3, <2>4
<1>4. CASE StartVMMFails
  BY <1>4 DEF StartVMMFails
<1>5. CASE OverlayHostKvm
  BY <1>5 DEF OverlayHostKvm, Wait
<1>6. CASE OverlayFails
  BY <1>6 DEF OverlayFails, Wait
<1>7. CASE HealthOK
  BY <1>7 DEF HealthOK
<1>8. CASE HealthTimeout
  BY <1>8 DEF HealthTimeout, Wait
<1>9. CASE StopBegins
  BY <1>9 DEF StopBegins, Wait
<1>10. CASE StopKills
  BY <1>10 DEF StopKills, ProcessEnds
<1>11. CASE StopReaps
  BY <1>11 DEF StopReaps
<1>12. CASE JailerMakesNode
  BY <1>12 DEF JailerMakesNode
<1>13. CASE JailerExecs
  BY <1>13 DEF JailerExecs
<1>14. CASE WaitKVMExecs
  BY <1>14 DEF WaitKVMExecs
<1>15. CASE WaitKVMGivesUp
  BY <1>15 DEF WaitKVMGivesUp, ProcessEnds
<1>16. CASE GuestBoots
  BY <1>16 DEF GuestBoots
<1>17. CASE ConnectEmitter
  BY <1>17 DEF ConnectEmitter
<1>18. CASE EmitterGivesUp
  BY <1>18 DEF EmitterGivesUp
<1>19. CASE ProcDies
  BY <1>19 DEF ProcDies, ProcessEnds
<1>20. CASE Tick
  BY <1>20 DEF Tick, Limit, Waiting, KVMWaiting, EmitterWaiting
<1>21. CASE UNCHANGED vars
  BY <1>21 DEF vars
<1> QED
  BY <1>1, <1>2, <1>3, <1>4, <1>5, <1>6, <1>7, <1>8, <1>9, <1>10, <1>11, <1>12, <1>13, <1>14, <1>15, <1>16, <1>17, <1>18, <1>19, <1>20, <1>21 DEF Next, StartStep, StopStep

(* Whatever the jailer, fc-waitkvm and the guest do, and however late,     *)
(* Start and Stop keep their view of them right.                           *)
THEOREM WorldStartSafe == Spec => []WorldStartInv
BY InitInv, NextInv, PTL DEF Spec

(* A failed Start and a Stop leave no process or event port behind, and no *)
(* bind that Stop did not try to unmount.                                  *)
THEOREM StoppedCleanHolds == Spec => []StoppedClean
<1>1. WorldStartInv => StoppedClean
  BY DEF WorldStartInv
<1> QED
  BY <1>1, WorldStartSafe, PTL

(* fc-waitkvm never execs Firecracker over a /dev/kvm it cannot open, and   *)
(* Stop never takes the bind away from a running one.                      *)
THEOREM FirecrackerHasKVMHolds == Spec => []FirecrackerHasKVM
<1>1. WorldStartInv => FirecrackerHasKVM
  BY DEF WorldStartInv
<1> QED
  BY <1>1, WorldStartSafe, PTL

(* A world that Start returns has a connected emitter, because the guest   *)
(* tries for it longer than the host waits for the guest.                  *)
THEOREM EmitterConnectedHolds == Spec => []EmitterConnected
<1>1. WorldStartInv => EmitterConnected
  BY DEF WorldStartInv
<1> QED
  BY <1>1, WorldStartSafe, PTL
=============================================================================
