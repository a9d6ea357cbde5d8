--------------------------- MODULE LotBossProofs ----------------------------
(***************************************************************************)
(* Proofs about LotBoss, for every finite set of worlds, every cap and     *)
(* every number of concurrent execs.                                       *)
(***************************************************************************)
EXTENDS LotBoss, FiniteSetTheorems, TLAPS

(* parseTTLPause never returns a ttl_pause of zero or less.                *)
LEMMA parseTTLPausePositive ==
  ASSUME NEW s \in TTLInputs
  PROVE  parseTTLPause(s) \in Nat \ {0}
BY LotBossAssumption DEF parseTTLPause

(* onActivity keeps the types of what it touches.                          *)
LEMMA OnActivityType ==
  ASSUME TypeOK, NEW w \in Worlds, OnActivity(w)
  PROVE  /\ vmm' \in [Worlds -> {"none", "running", "frozen", "dead"}]
         /\ paused' \in [Worlds -> BOOLEAN]
         /\ idle' \in [Worlds -> Nat]
<1>1. vmm' \in [Worlds -> {"none", "running", "frozen", "dead"}]
  BY DEF TypeOK, OnActivity
<1>2. paused' = paused \/ paused' = [paused EXCEPT ![w] = FALSE]
  BY DEF OnActivity
<1>3. paused' \in [Worlds -> BOOLEAN]
  BY <1>2 DEF TypeOK
<1>4. idle' \in [Worlds -> Nat]
  BY DEF TypeOK, OnActivity
<1>5. QED
  BY <1>1, <1>3, <1>4

(* The record a commit adds to what the desk was told of a world, or to    *)
(* what was given up.                                                      *)
Kinds == {"world_start", "world_stop"}

LEMMA CommitDeskType ==
  ASSUME TypeOK, NEW w \in Worlds, NEW kind \in Kinds, CommitDesk(w, kind)
  PROVE  /\ deskLog' \in [Worlds -> Seq(Kinds)] /\ late' \in [Worlds -> SUBSET Kinds]
         /\ \A v \in Worlds : v # w => deskLog'[v] = deskLog[v] /\ late'[v] = late[v]
         /\ \/ deskLog'[w] = Append(deskLog[w], kind) /\ late'[w] = late[w]
            \/ deskLog'[w] = deskLog[w] /\ late'[w] = late[w] \cup {kind}
<1>1. deskLog[w] \in Seq(Kinds) /\ deskLog \in [Worlds -> Seq(Kinds)] /\ late \in [Worlds -> SUBSET Kinds]
  BY DEF TypeOK, Kinds
<1>2. Append(deskLog[w], kind) \in Seq(Kinds)
  BY <1>1
<1>3. CASE deskLog' = [deskLog EXCEPT ![w] = Append(deskLog[w], kind)] /\ UNCHANGED late
  BY <1>1, <1>2, <1>3
<1>4. CASE late' = [late EXCEPT ![w] = late[w] \cup {kind}] /\ UNCHANGED deskLog
  BY <1>1, <1>4
<1>5. QED
  BY <1>3, <1>4 DEF CommitDesk

(* A commit that lands late adds one record that was not there.            *)
LEMMA LateCommitType ==
  ASSUME TypeOK, NEW w \in Worlds, LateCommit(w)
  PROVE  /\ deskLog' \in [Worlds -> Seq(Kinds)] /\ late' = late
         /\ \A v \in Worlds : v # w => deskLog'[v] = deskLog[v]
         /\ \E kind \in late[w] : /\ kind \in Kinds
                                  /\ \A i \in DOMAIN deskLog[w] : deskLog[w][i] # kind
                                  /\ deskLog'[w] = Append(deskLog[w], kind)
<1>1. deskLog[w] \in Seq(Kinds) /\ deskLog \in [Worlds -> Seq(Kinds)] /\ late[w] \subseteq Kinds
  BY DEF TypeOK, Kinds
<1>2. PICK kind \in late[w] : /\ \A i \in DOMAIN deskLog[w] : deskLog[w][i] # kind
                              /\ deskLog' = [deskLog EXCEPT ![w] = Append(deskLog[w], kind)]
  BY DEF LateCommit
<1>3. Append(deskLog[w], kind) \in Seq(Kinds)
  BY <1>1
<1>4. QED
  BY <1>1, <1>2, <1>3 DEF LateCommit

(* Every step keeps the types.                                             *)
LEMMA NextType == TypeOK /\ ExecsHoldWorlds /\ [Next]_vars => TypeOK'
<1> SUFFICES ASSUME TypeOK, ExecsHoldWorlds, [Next]_vars PROVE TypeOK'
  OBVIOUS
<1> USE LotBossAssumption DEF slotVars, stopVars, deskVars, Phases, Slots
<1>1. ASSUME NEW w \in Worlds, LeaseBegin(w) PROVE TypeOK'
  BY <1>1 DEF LeaseBegin, TypeOK
<1>2. ASSUME NEW w \in Worlds, StartVMM(w) PROVE TypeOK'
  BY <1>2 DEF StartVMM, TypeOK
<1>3. ASSUME NEW w \in Worlds, StartReturns(w) PROVE TypeOK'
  BY <1>3 DEF StartReturns, TypeOK
<1>4. ASSUME NEW w \in Worlds, StartFails(w) PROVE TypeOK'
  BY <1>4 DEF StartFails, Stop, TypeOK
<1>5. ASSUME NEW w \in Worlds, LeaseRefused(w) PROVE TypeOK'
  BY <1>5 DEF LeaseRefused, Stop, TypeOK
<1>6. ASSUME NEW w \in Worlds, DestroyBegin(w) PROVE TypeOK'
  BY <1>6 DEF DestroyBegin, TypeOK
<1>7. ASSUME NEW w \in Worlds, VMMDies(w) PROVE TypeOK'
  BY <1>7 DEF VMMDies, Stop, TypeOK
<1>8. ASSUME NEW w \in Worlds, NEW s \in TTLInputs, LeaseInsert(w, s) PROVE TypeOK'
  <2>1. deskLog' \in [Worlds -> Seq(Kinds)] /\ late' \in [Worlds -> SUBSET Kinds]
    BY <1>8, CommitDeskType DEF LeaseInsert, Kinds
  <2>2. ttl' \in [Worlds -> Nat \ {0}]
    BY <1>8, parseTTLPausePositive DEF LeaseInsert, NewSlot, TypeOK
  <2>3. QED
    BY <1>8, <2>1, <2>2 DEF LeaseInsert, NewSlot, TypeOK, Kinds
<1>9. ASSUME NEW w \in Worlds, Heartbeat(w) PROVE TypeOK'
  BY <1>9, OnActivityType DEF Heartbeat, TypeOK
<1>10. ASSUME NEW w \in Worlds, NEW n \in Networks, SetNetwork(w, n) PROVE TypeOK'
  BY <1>10, OnActivityType DEF SetNetwork, TypeOK
<1>11. ASSUME NEW w \in Worlds, NEW e \in Execs, ExecFind(e, w) PROVE TypeOK'
  BY <1>11 DEF ExecFind, TypeOK
<1>12. ASSUME NEW w \in Worlds, DestroyTells(w) PROVE TypeOK'
  <2>1. deskLog' \in [Worlds -> Seq(Kinds)] /\ late' \in [Worlds -> SUBSET Kinds]
    BY <1>12, CommitDeskType DEF DestroyTells, Kinds
  <2>2. QED
    BY <1>12, <2>1 DEF DestroyTells, TypeOK, Kinds
<1>13. ASSUME NEW w \in Worlds, StopAllDestroys(w) PROVE TypeOK'
  BY <1>13 DEF StopAllDestroys, TypeOK
<1>14. ASSUME NEW e \in Execs, ExecTouch(e) PROVE TypeOK'
  <2>1. exec[e].world \in Worlds
    BY <1>14 DEF ExecTouch, ExecsHoldWorlds
  <2>2. exec[e] \in [step : {"idle", "found", "running"}, world : Worlds \cup {NoWorld}]
    BY DEF TypeOK
  <2>3. exec' \in [Execs -> [step : {"idle", "found", "running"}, world : Worlds \cup {NoWorld}]]
    <3>1. CASE exec' = [exec EXCEPT ![e].step = "running"]
      BY <2>2, <3>1 DEF TypeOK
    <3>2. CASE exec' = [exec EXCEPT ![e] = [step |-> "idle", world |-> NoWorld]]
      BY <3>2 DEF TypeOK
    <3>3. QED
      BY <1>14, <3>1, <3>2 DEF ExecTouch
  <2>4. QED
    BY <1>14, <2>1, <2>3, OnActivityType DEF ExecTouch, TypeOK
<1>15. ASSUME NEW e \in Execs, ExecReturn(e) PROVE TypeOK'
  BY <1>15 DEF ExecReturn, TypeOK
<1>16. ASSUME PauseTick PROVE TypeOK'
  <2>1. PICK out \in [Expired -> {"done", "lost", "refused"}] :
          /\ paused' = [w \in Worlds |-> IF w \in Expired /\ out[w] = "done" THEN TRUE ELSE paused[w]]
          /\ vmm' = [w \in Worlds |-> IF w \in Expired /\ out[w] # "refused" THEN "frozen" ELSE vmm[w]]
    BY <1>16 DEF PauseTick
  <2>2. paused' \in [Worlds -> BOOLEAN]
    BY <2>1 DEF TypeOK
  <2>3. vmm' \in [Worlds -> {"none", "running", "frozen", "dead"}]
    BY <2>1 DEF TypeOK
  <2>4. QED
    BY <1>16, <2>2, <2>3 DEF PauseTick, TypeOK
<1>17. ASSUME StopAllBegin PROVE TypeOK'
  BY <1>17 DEF StopAllBegin, TypeOK
<1>18. ASSUME Exit PROVE TypeOK'
  BY <1>18 DEF Exit, TypeOK
<1>19. ASSUME Tick PROVE TypeOK'
  BY <1>19 DEF Tick, TypeOK
<1>20. ASSUME UNCHANGED vars PROVE TypeOK'
  BY <1>20 DEF vars, TypeOK
<1>21. ASSUME NEW w \in Worlds, DestroyStop(w) PROVE TypeOK'
  BY <1>21 DEF DestroyStop, Stop, TypeOK
<1>22. ASSUME NEW w \in Worlds, LateCommit(w) PROVE TypeOK'
  BY <1>22, LateCommitType DEF LateCommit, TypeOK, Kinds
<1>23. QED
  BY <1>1, <1>2, <1>3, <1>4, <1>5, <1>6, <1>7, <1>8, <1>9, <1>10, <1>11, <1>12, <1>13, <1>14, <1>15, <1>16, <1>17, <1>18, <1>19, <1>20, <1>21, <1>22
  DEF Next

-----------------------------------------------------------------------------
(* The only ways the calls about a world make progress.                    *)
Moves == {<<"unused", "starting">>, <<"starting", "started">>, <<"starting", "refused">>,
          <<"started", "slot">>, <<"started", "refused">>, <<"slot", "removed">>,
          <<"removed", "stopped">>, <<"stopped", "gone">>}

LEMMA PhaseMoves ==
  ASSUME TypeOK, Next
  PROVE  \A w \in Worlds : phase'[w] = phase[w] \/ <<phase[w], phase'[w]>> \in Moves
<1> DEFINE Moved(w) == \E p \in Phases : phase' = [phase EXCEPT ![w] = p] /\ <<phase[w], p>> \in Moves
<1>1. ASSUME NEW w \in Worlds, Moved(w)
      PROVE  \A v \in Worlds : phase'[v] = phase[v] \/ <<phase[v], phase'[v]>> \in Moves
  BY <1>1 DEF TypeOK
<1>2. CASE UNCHANGED phase
  BY <1>2
<1>3. ASSUME NEW w \in Worlds, LeaseBegin(w) PROVE Moved(w)
  BY <1>3 DEF LeaseBegin, Moves, Phases
<1>4. ASSUME NEW w \in Worlds, StartReturns(w) PROVE Moved(w)
  BY <1>4 DEF StartReturns, Moves, Phases
<1>5. ASSUME NEW w \in Worlds, StartFails(w) PROVE Moved(w)
  BY <1>5 DEF StartFails, Moves, Phases
<1>6. ASSUME NEW w \in Worlds, NEW s \in TTLInputs, LeaseInsert(w, s) PROVE Moved(w)
  BY <1>6 DEF LeaseInsert, Moves, Phases
<1>7. ASSUME NEW w \in Worlds, LeaseRefused(w) PROVE Moved(w)
  BY <1>7 DEF LeaseRefused, Moves, Phases
<1>8. ASSUME NEW w \in Worlds, DestroyBegin(w) PROVE Moved(w)
  BY <1>8 DEF DestroyBegin, Slots, Moves, Phases
<1>9. ASSUME NEW w \in Worlds, DestroyStop(w) \/ DestroyTells(w) PROVE Moved(w)
  BY <1>9 DEF DestroyStop, DestroyTells, Moves, Phases
<1>10. ASSUME NEW w \in Worlds, StopAllDestroys(w), w \in Slots PROVE Moved(w)
  BY <1>10 DEF StopAllDestroys, Slots, Moves, Phases
<1>11. QED
  BY <1>1, <1>2, <1>3, <1>4, <1>5, <1>6, <1>7, <1>8, <1>9, <1>10
  DEF Next, LateCommit, StartVMM, Heartbeat, SetNetwork, ExecFind, StopAllDestroys, VMMDies, ExecTouch,
      ExecReturn, PauseTick, StopAllBegin, Exit, Tick

(* Only Lease's insertion adds a slot, and it has just checked the cap.    *)
LEMMA NextCap ==
  ASSUME TypeOK, CapHeld, Next
  PROVE  CapHeld'
<1> USE LotBossAssumption
<1>1. IsFiniteSet(Slots) /\ Cardinality(Slots) \in Nat
  BY FS_Subset, FS_CardinalityType DEF Slots
<1>2. ASSUME NEW w \in Worlds, NEW s \in TTLInputs, LeaseInsert(w, s) PROVE CapHeld'
  <2>1. Slots' = Slots \cup {w} /\ w \notin Slots
    BY <1>2 DEF LeaseInsert, Slots, TypeOK
  <2>2. Cardinality(Slots') = Cardinality(Slots) + 1
    BY <1>1, <2>1, FS_AddElement
  <2>3. QED
    BY <1>1, <1>2, <2>2 DEF LeaseInsert, BelowCap, CapHeld
<1>3. CASE \A w \in Worlds : \A s \in TTLInputs : ~LeaseInsert(w, s)
  <2>1. \A w \in Worlds : phase'[w] = "slot" => phase[w] = "slot"
    <3>1. CASE UNCHANGED phase
      BY <3>1
    <3>2. ASSUME NEW w \in Worlds, NEW p \in Phases \ {"slot"}, phase' = [phase EXCEPT ![w] = p]
          PROVE  \A v \in Worlds : phase'[v] = "slot" => phase[v] = "slot"
      BY <3>2 DEF TypeOK
    <3>3. UNCHANGED phase \/ \E w \in Worlds : \E p \in Phases \ {"slot"} : phase' = [phase EXCEPT ![w] = p]
      BY <1>3 DEF Next, Phases, LeaseBegin, StartVMM, StartReturns, StartFails, LeaseRefused,
         Heartbeat, SetNetwork, ExecFind, DestroyBegin, DestroyStop, DestroyTells, LateCommit, StopAllDestroys, VMMDies,
         ExecTouch, ExecReturn, PauseTick, StopAllBegin, Exit, Tick
    <3>4. QED
      BY <3>1, <3>2, <3>3
  <2>2. Slots' \subseteq Slots
    BY <2>1 DEF Slots
  <2>3. Cardinality(Slots') \in Nat /\ Cardinality(Slots') <= Cardinality(Slots)
    BY <1>1, <2>2, FS_Subset, FS_CardinalityType
  <2>4. QED
    BY <1>1, <2>3 DEF CapHeld
<1>4. QED
  BY <1>2, <1>3

(* An exec keeps the world it found, and worlds do not go back.            *)
LEMMA NextExecs ==
  ASSUME TypeOK, ExecsHoldWorlds, Next
  PROVE  ExecsHoldWorlds'
<1>1. \A w \in Worlds : phase[w] \in Had => phase'[w] \in Had
  BY PhaseMoves DEF Moves, Had
<1> DEFINE Held(e) == exec'[e].step # "idle" =>
             \/ exec[e].step # "idle" /\ exec'[e].world = exec[e].world
             \/ exec'[e].world \in Slots
<1>2. \A e \in Execs : Held(e)
  <2>1. CASE UNCHANGED exec
    BY <2>1
  <2>2. ASSUME NEW d \in Execs, NEW w \in Worlds, ExecFind(d, w) PROVE \A e \in Execs : Held(e)
    BY <2>2 DEF ExecFind, TypeOK
  <2>3. ASSUME NEW d \in Execs, exec[d].step # "idle", exec' = [exec EXCEPT ![d].step = "running"]
        PROVE \A e \in Execs : Held(e)
    BY <2>3 DEF TypeOK
  <2>4. ASSUME NEW d \in Execs, exec' = [exec EXCEPT ![d] = [step |-> "idle", world |-> NoWorld]]
        PROVE \A e \in Execs : Held(e)
    BY <2>4 DEF TypeOK
  <2>5. ASSUME NEW d \in Execs, ExecTouch(d) \/ ExecReturn(d) PROVE \A e \in Execs : Held(e)
    BY <2>3, <2>4, <2>5 DEF ExecTouch, ExecReturn
  <2>6. QED
    BY <2>1, <2>2, <2>5
    DEF Next, LeaseBegin, StartVMM, StartReturns, StartFails, LeaseInsert, LeaseRefused,
        Heartbeat, SetNetwork, DestroyBegin, DestroyStop, DestroyTells, LateCommit, StopAllDestroys, VMMDies,
        PauseTick, StopAllBegin, Exit, Tick
<1>3. QED
  BY <1>1, <1>2 DEF ExecsHoldWorlds, Slots, Had

(* Lease takes each CID from the counter, so no two worlds share one.      *)
LEMMA NextCIDs ==
  ASSUME TypeOK, CIDsByLease, Next
  PROVE  CIDsByLease'
<1>1. ASSUME NEW w \in Worlds, LeaseBegin(w) PROVE CIDsByLease'
  <2>1. \A v \in Worlds : cid'[v] = IF v = w THEN nextCID ELSE cid[v]
    BY <1>1 DEF LeaseBegin, TypeOK
  <2>2. \A v \in Worlds : v # w => phase'[v] = phase[v]
    BY <1>1 DEF LeaseBegin, TypeOK
  <2>3. nextCID' = nextCID + 1 /\ nextCID \in Nat /\ cid \in [Worlds -> Nat]
    BY <1>1 DEF LeaseBegin, TypeOK
  <2>4. QED
    BY <2>1, <2>2, <2>3 DEF CIDsByLease
<1>2. CASE \A w \in Worlds : ~LeaseBegin(w)
  <2>1. UNCHANGED <<cid, nextCID>>
    BY <1>2 DEF Next, StartVMM, StartReturns, StartFails, LeaseInsert, LeaseRefused,
       Heartbeat, SetNetwork, ExecFind, DestroyBegin, DestroyStop, DestroyTells, LateCommit, StopAllDestroys, VMMDies,
       ExecTouch, ExecReturn, PauseTick, StopAllBegin, Exit, Tick
  <2>2. UNCHANGED phase
        \/ \E w \in Worlds : \E p \in Phases : phase[w] # "unused" /\ phase' = [phase EXCEPT ![w] = p]
    BY <1>2 DEF Next, Phases, Slots, StartVMM, StartReturns, StartFails, LeaseInsert, LeaseRefused,
       Heartbeat, SetNetwork, ExecFind, DestroyBegin, DestroyStop, DestroyTells, LateCommit, StopAllDestroys, VMMDies,
       ExecTouch, ExecReturn, PauseTick, StopAllBegin, Exit, Tick
  <2>3. \A w \in Worlds : phase'[w] # "unused" => phase[w] # "unused"
    BY <2>2 DEF TypeOK
  <2>4. QED
    BY <2>1, <2>3 DEF CIDsByLease
<1>3. QED
  BY <1>1, <1>2

(* onActivity leaves the state of the slot in agreement with Firecracker.  *)
VMMInv == VMMByPhase /\ ("lost" \in APIFaults \/ StateAgreesWithVMM)

LEMMA OnActivityAgrees ==
  ASSUME TypeOK, VMMInv, NEW w \in Worlds, phase[w] \in Had,
         OnActivity(w), UNCHANGED phase
  PROVE  VMMInv'
<1> USE DEF VMMInv, VMMByPhase, StateAgreesWithVMM, TypeOK, Alive, Slots, Had
<1>1. CASE ~paused[w] /\ UNCHANGED <<paused, vmm>>
  BY <1>1
<1>2. CASE Alive(w) /\ vmm' = [vmm EXCEPT ![w] = "running"] /\ paused' = [paused EXCEPT ![w] = FALSE]
  BY <1>2
<1>3. CASE Alive(w) /\ vmm' = [vmm EXCEPT ![w] = "running"] /\ "lost" \in APIFaults /\ UNCHANGED <<paused, idle>>
  BY <1>3
<1>4. CASE UNCHANGED <<paused, idle, vmm>>
  BY <1>4
<1>5. QED
  BY <1>1, <1>2, <1>3, <1>4 DEF OnActivity

(* Every step keeps what lot-boss reports in agreement with the VMMs.      *)
LEMMA NextVMM ==
  ASSUME TypeOK, VMMInv, ExecsHoldWorlds, Next
  PROVE  VMMInv'
<1> USE DEF VMMInv, VMMByPhase, StateAgreesWithVMM, TypeOK, Alive, Slots, Had, slotVars
<1>1. ASSUME NEW w \in Worlds, LeaseBegin(w) PROVE VMMInv'
  BY <1>1 DEF LeaseBegin
<1>2. ASSUME NEW w \in Worlds, StartVMM(w) PROVE VMMInv'
  BY <1>2 DEF StartVMM
<1>3. ASSUME NEW w \in Worlds, StartReturns(w) PROVE VMMInv'
  BY <1>3 DEF StartReturns
<1>4. ASSUME NEW w \in Worlds, StartFails(w) PROVE VMMInv'
  BY <1>4 DEF StartFails, Stop
<1>5. ASSUME NEW w \in Worlds, NEW s \in TTLInputs, LeaseInsert(w, s) PROVE VMMInv'
  BY <1>5 DEF LeaseInsert, NewSlot
<1>6. ASSUME NEW w \in Worlds, LeaseRefused(w) PROVE VMMInv'
  BY <1>6 DEF LeaseRefused, Stop
<1>7. ASSUME NEW w \in Worlds, Heartbeat(w) PROVE VMMInv'
  BY <1>7, OnActivityAgrees DEF Heartbeat
<1>8. ASSUME NEW w \in Worlds, NEW n \in Networks, SetNetwork(w, n) PROVE VMMInv'
  BY <1>8, OnActivityAgrees DEF SetNetwork
<1>9. ASSUME NEW e \in Execs, ExecTouch(e) PROVE VMMInv'
  BY <1>9, OnActivityAgrees DEF ExecTouch, ExecsHoldWorlds
<1>10. ASSUME NEW w \in Worlds, DestroyBegin(w) PROVE VMMInv'
  BY <1>10 DEF DestroyBegin
<1>11. ASSUME NEW w \in Worlds, DestroyStop(w) \/ DestroyTells(w) PROVE VMMInv'
  <2>1. CASE DestroyStop(w)
    BY <2>1 DEF DestroyStop, Stop
  <2>2. CASE DestroyTells(w)
    BY <2>2 DEF DestroyTells
  <2>3. QED
    BY <1>11, <2>1, <2>2
<1>12. ASSUME NEW w \in Worlds, StopAllDestroys(w) PROVE VMMInv'
  BY <1>12 DEF StopAllDestroys
<1>13. ASSUME NEW w \in Worlds, VMMDies(w) PROVE VMMInv'
  BY <1>13 DEF VMMDies, Stop
<1>14. ASSUME PauseTick PROVE VMMInv'
  <2>1. PICK out \in [Expired -> {"done", "lost", "refused"}] :
          /\ \A w \in Expired : out[w] \in PauseOutcomes(w)
          /\ paused' = [w \in Worlds |-> IF w \in Expired /\ out[w] = "done" THEN TRUE ELSE paused[w]]
          /\ vmm' = [w \in Worlds |-> IF w \in Expired /\ out[w] # "refused" THEN "frozen" ELSE vmm[w]]
    BY <1>14 DEF PauseTick
  <2>2. \A w \in Expired : w \in Slots /\ (out[w] # "refused" => Alive(w))
                           /\ (out[w] = "lost" => "lost" \in APIFaults)
    BY <2>1 DEF Expired, PauseOutcomes
  <2>3. UNCHANGED phase
    BY <1>14 DEF PauseTick
  <2>4. QED
    BY <2>1, <2>2, <2>3
<1>15. CASE UNCHANGED <<phase, vmm, paused>>
  BY <1>15
<1>16. QED
  BY <1>1, <1>2, <1>3, <1>4, <1>5, <1>6, <1>7, <1>8, <1>9, <1>10, <1>11, <1>12, <1>13, <1>14, <1>15
  DEF Next, LateCommit, ExecFind, ExecReturn, StopAllBegin, Exit, Tick

(* The desk hears of each world once at each end.                          *)
Heard(log, given) ==
  /\ \A i, j \in DOMAIN log : i # j => log[i] # log[j]
  /\ \A i, j \in DOMAIN log : log[i] = "world_stop" /\ i < j => "world_start" \in given

All(log, given) == given \cup {log[i] : i \in DOMAIN log}

LEMMA HeardMore ==
  ASSUME NEW log \in Seq(Kinds), NEW given, NEW kind \in Kinds, Heard(log, given),
         \A i \in DOMAIN log : log[i] # kind,
         kind # "world_stop" => "world_start" \in given \/ \A i \in DOMAIN log : log[i] # "world_stop"
  PROVE  /\ Heard(Append(log, kind), given)
         /\ All(Append(log, kind), given) = All(log, given) \cup {kind}
<1> DEFINE more == Append(log, kind)
<1>1. /\ DOMAIN more = 1 .. Len(log) + 1 /\ DOMAIN log = 1 .. Len(log) /\ Len(log) \in Nat
      /\ more[Len(log) + 1] = kind /\ \A i \in DOMAIN log : more[i] = log[i]
  OBVIOUS
<1> HIDE DEF more
<1>2. All(more, given) = All(log, given) \cup {kind}
  <2>1. DOMAIN more = DOMAIN log \cup {Len(log) + 1}
    BY <1>1
  <2>2. QED
    BY <1>1, <2>1 DEF All
<1>3. \A i \in DOMAIN more : i \in DOMAIN log \/ i = Len(log) + 1
  BY <1>1
<1>4. \A i, j \in DOMAIN more : i # j => more[i] # more[j]
  BY <1>1, <1>3 DEF Heard
<1>5. ASSUME NEW i \in DOMAIN more, NEW j \in DOMAIN more, more[i] = "world_stop", i < j PROVE "world_start" \in given
  <2>1. i \in DOMAIN log /\ log[i] = "world_stop"
    BY <1>1, <1>5
  <2>2. kind # "world_stop"
    BY <2>1
  <2>3. QED
    BY <2>1, <2>2
<1>6. Heard(more, given)
  BY <1>4, <1>5 DEF Heard
<1>7. QED
  BY <1>2, <1>6 DEF more

(* The same of a commit.                                                   *)
LEMMA HeardCommit ==
  ASSUME TypeOK, NEW w \in Worlds, NEW kind \in Kinds, CommitDesk(w, kind), Heard(deskLog[w], late[w]),
         \A i \in DOMAIN deskLog[w] : deskLog[w][i] # kind,
         kind # "world_stop" => \A i \in DOMAIN deskLog[w] : deskLog[w][i] # "world_stop"
  PROVE  /\ Heard(deskLog'[w], late'[w])
         /\ All(deskLog'[w], late'[w]) = All(deskLog[w], late[w]) \cup {kind}
<1>1. PICK log, given : log = deskLog[w] /\ given = late[w]
  OBVIOUS
<1>2. log \in Seq(Kinds)
  BY <1>1 DEF TypeOK, Kinds
<1>3. \/ deskLog'[w] = Append(log, kind) /\ late'[w] = given
      \/ deskLog'[w] = log /\ late'[w] = given \cup {kind}
  BY <1>1, CommitDeskType
<1>h. Heard(log, given)
  BY <1>1
<1>4. Heard(log, given \cup {kind}) /\ All(log, given \cup {kind}) = All(log, given) \cup {kind}
  BY <1>h DEF Heard, All
<1>5. Heard(Append(log, kind), given) /\ All(Append(log, kind), given) = All(log, given) \cup {kind}
  BY <1>1, <1>2, HeardMore
<1>6. CASE deskLog'[w] = Append(log, kind) /\ late'[w] = given
  BY <1>1, <1>5, <1>6
<1>7. CASE deskLog'[w] = log /\ late'[w] = given \cup {kind}
  BY <1>1, <1>4, <1>7
<1>8. QED
  BY <1>3, <1>6, <1>7

LEMMA NextDesk ==
  ASSUME TypeOK, DeskByPhase, Next
  PROVE  DeskByPhase'
<1> DEFINE Fine(p, log, given) ==
             /\ p \notin Had => All(log, given) = {}
             /\ p # "gone" => "world_stop" \notin All(log, given)
             /\ Heard(log, given)
<1>n. \A w \in Worlds : deskLog[w] \in Seq(Kinds) /\ late[w] \in SUBSET Kinds /\ phase[w] \in Phases
  BY DEF TypeOK, Kinds
<1>d. ASSUME NEW w \in Worlds PROVE Fine(phase[w], deskLog[w], late[w])
  BY DEF DeskByPhase, Told, All, Heard
<1>e. ASSUME \A w \in Worlds : Fine(phase'[w], deskLog'[w], late'[w]) PROVE DeskByPhase'
  BY <1>e DEF DeskByPhase, Told, All, Heard
<1> HIDE DEF Fine
<1>m. \A w \in Worlds : phase'[w] = phase[w] \/ <<phase[w], phase'[w]>> \in Moves
  BY PhaseMoves
<1>s. ASSUME NEW w \in Worlds, deskLog'[w] = deskLog[w], late'[w] = late[w]
      PROVE  Fine(phase'[w], deskLog'[w], late'[w])
  BY <1>d, <1>m, <1>s DEF Fine, Moves, Had
<1>1. ASSUME NEW w \in Worlds, NEW s \in TTLInputs, LeaseInsert(w, s) PROVE DeskByPhase'
  <2>1. phase[w] = "started" /\ phase'[w] = "slot" /\ CommitDesk(w, "world_start")
    BY <1>1 DEF LeaseInsert, TypeOK
  <2>2. All(deskLog[w], late[w]) = {} /\ Heard(deskLog[w], late[w])
    BY <1>d, <2>1 DEF Fine, Had
  <2>3. \A i \in DOMAIN deskLog[w] : deskLog[w][i] \notin Kinds
    BY <2>2 DEF All
  <2>4. Heard(deskLog'[w], late'[w]) /\ All(deskLog'[w], late'[w]) = {"world_start"}
    BY <2>1, <2>2, <2>3, HeardCommit DEF Kinds
  <2>5. Fine(phase'[w], deskLog'[w], late'[w])
    BY <2>1, <2>4 DEF Fine, Had
  <2>6. \A v \in Worlds : v # w => deskLog'[v] = deskLog[v] /\ late'[v] = late[v]
    BY <2>1, CommitDeskType DEF Kinds
  <2>7. QED
    BY <1>e, <1>s, <2>5, <2>6
<1>2. ASSUME NEW w \in Worlds, DestroyTells(w) PROVE DeskByPhase'
  <2>1. phase[w] = "stopped" /\ phase'[w] = "gone" /\ CommitDesk(w, "world_stop")
    BY <1>2 DEF DestroyTells, TypeOK
  <2>2. "world_stop" \notin All(deskLog[w], late[w]) /\ Heard(deskLog[w], late[w])
    BY <1>d, <2>1 DEF Fine
  <2>3. \A i \in DOMAIN deskLog[w] : deskLog[w][i] # "world_stop"
    BY <2>2 DEF All
  <2>4. Heard(deskLog'[w], late'[w])
    BY <2>1, <2>2, <2>3, HeardCommit DEF Kinds
  <2>5. Fine(phase'[w], deskLog'[w], late'[w])
    BY <2>1, <2>4 DEF Fine, Had
  <2>6. \A v \in Worlds : v # w => deskLog'[v] = deskLog[v] /\ late'[v] = late[v]
    BY <2>1, CommitDeskType DEF Kinds
  <2>7. QED
    BY <1>e, <1>s, <2>5, <2>6
<1>3. ASSUME NEW w \in Worlds, LateCommit(w) PROVE DeskByPhase'
  <2>1. PICK kind \in late[w] : /\ kind \in Kinds
                                /\ \A i \in DOMAIN deskLog[w] : deskLog[w][i] # kind
                                /\ deskLog'[w] = Append(deskLog[w], kind)
    BY <1>3, LateCommitType
  <2>2. late' = late /\ \A v \in Worlds : v # w => deskLog'[v] = deskLog[v]
    BY <1>3, LateCommitType
  <2>3. phase' = phase
    BY <1>3 DEF LateCommit
  <2>4. kind \in All(deskLog[w], late[w])
    BY <2>1 DEF All
  <2>5. kind # "world_stop" => "world_start" \in late[w]
    BY <2>1 DEF Kinds
  <2>6. Heard(deskLog[w], late[w])
    BY <1>d DEF Fine
  <2>7. Heard(deskLog'[w], late[w]) /\ All(deskLog'[w], late[w]) = All(deskLog[w], late[w]) \cup {kind}
    <3>1. PICK log, given : log = deskLog[w] /\ given = late[w]
      OBVIOUS
    <3>2. log \in Seq(Kinds)
      BY <1>n, <3>1
    <3>3. Heard(Append(log, kind), given) /\ All(Append(log, kind), given) = All(log, given) \cup {kind}
      BY <2>1, <2>5, <2>6, <3>1, <3>2, HeardMore
    <3>4. QED
      BY <2>1, <3>1, <3>3
  <2>8. Fine(phase'[w], deskLog'[w], late'[w])
    BY <1>d, <2>2, <2>3, <2>4, <2>7 DEF Fine
  <2>9. QED
    BY <1>e, <1>s, <2>2, <2>8
<1>4. CASE UNCHANGED deskVars
  BY <1>e, <1>s, <1>4 DEF deskVars
<1>5. QED
  BY <1>1, <1>2, <1>3, <1>4
  DEF Next, LeaseBegin, StartVMM, StartReturns, StartFails, LeaseRefused, Heartbeat, SetNetwork,
      ExecFind, DestroyBegin, DestroyStop, StopAllDestroys, VMMDies, ExecTouch, ExecReturn, PauseTick,
      StopAllBegin, Exit, Tick

(* parseTTLPause lets no ttl_pause below one tick into a slot, so only a   *)
(* world that is idle is paused.                                           *)
LEMMA NextInUse ==
  ASSUME TypeOK, NoPauseInUse, ExecsHoldWorlds, Next
  PROVE  NoPauseInUse'
<1>n. /\ paused \in [Worlds -> BOOLEAN] /\ idle \in [Worlds -> Nat] /\ ttl \in [Worlds -> Nat \ {0}]
      /\ phase \in [Worlds -> Phases]
  BY DEF TypeOK
<1> USE DEF NoPauseInUse, Slots, slotVars
<1>m. ASSUME \A s \in TTLInputs : \A w \in Worlds : ~LeaseInsert(w, s)
      PROVE  \A w \in Worlds : phase'[w] = "slot" => phase[w] = "slot"
  <2>1. CASE UNCHANGED phase
    BY <2>1
  <2>2. ASSUME NEW w \in Worlds, NEW p \in Phases \ {"slot"}, phase' = [phase EXCEPT ![w] = p]
        PROVE  \A v \in Worlds : phase'[v] = "slot" => phase[v] = "slot"
    BY <1>n, <2>2
  <2>3. UNCHANGED phase \/ \E w \in Worlds : \E p \in Phases \ {"slot"} : phase' = [phase EXCEPT ![w] = p]
    BY <1>m DEF Next, Phases, LeaseBegin, StartVMM, StartReturns, StartFails, LeaseRefused,
       Heartbeat, SetNetwork, ExecFind, DestroyBegin, DestroyStop, DestroyTells, LateCommit, StopAllDestroys, VMMDies,
       ExecTouch, ExecReturn, PauseTick, StopAllBegin, Exit, Tick
  <2>4. QED
    BY <2>1, <2>2, <2>3
<1>1. ASSUME NEW w \in Worlds, NEW s \in TTLInputs, LeaseInsert(w, s) PROVE NoPauseInUse'
  BY <1>n, <1>1 DEF LeaseInsert, NewSlot
<1>2. ASSUME NEW w \in Worlds, OnActivity(w), UNCHANGED phase PROVE NoPauseInUse'
  <2>1. \/ idle' = [idle EXCEPT ![w] = 0] /\ ~paused[w] /\ UNCHANGED paused
        \/ idle' = [idle EXCEPT ![w] = 0] /\ paused' = [paused EXCEPT ![w] = FALSE]
        \/ UNCHANGED <<paused, idle>>
    BY <1>2 DEF OnActivity
  <2>2. QED
    BY <1>n, <1>2, <2>1
<1>3. ASSUME NEW e \in Execs, ExecTouch(e) PROVE NoPauseInUse'
  BY <1>2, <1>3 DEF ExecTouch, ExecsHoldWorlds
<1>4. CASE \E w \in Worlds : Heartbeat(w) \/ \E n \in Networks : SetNetwork(w, n)
  BY <1>2, <1>4 DEF Heartbeat, SetNetwork
<1>5. CASE PauseTick
  <2>1. PICK out \in [Expired -> {"done", "lost", "refused"}] :
          paused' = [w \in Worlds |-> IF w \in Expired /\ out[w] = "done" THEN TRUE ELSE paused[w]]
    BY <1>5 DEF PauseTick
  <2>2. \A w \in Expired : idle[w] > 0
    BY <1>n DEF Expired
  <2>3. \A w \in Worlds : paused'[w] => paused[w] \/ w \in Expired
    BY <2>1
  <2>4. UNCHANGED <<phase, idle>>
    BY <1>5 DEF PauseTick
  <2>5. QED
    BY <1>n, <2>2, <2>3, <2>4
<1>6. CASE Tick
  BY <1>n, <1>6, LotBossAssumption DEF Tick
<1>7. CASE UNCHANGED <<paused, idle>> /\ \A s \in TTLInputs : \A w \in Worlds : ~LeaseInsert(w, s)
  BY <1>m, <1>7
<1>8. QED
  BY <1>1, <1>3, <1>4, <1>5, <1>6, <1>7
  DEF Next, LeaseBegin, StartVMM, StartReturns, StartFails, LeaseRefused, ExecFind, DestroyBegin, DestroyStop,
      DestroyTells, LateCommit, StopAllDestroys, VMMDies, ExecReturn, StopAllBegin, Exit

(* A slot StopAll found stays on its list until it has left the map; a     *)
(* lease that is inserted later is not one of them.                        *)
LEMMA NextStopAll ==
  ASSUME TypeOK, StopAllProgress, Next
  PROVE  StopAllProgress'
<1> USE DEF StopAllProgress, Slots
<1>1. \A w \in Worlds : phase'[w] = phase[w] \/ <<phase[w], phase'[w]>> \in Moves
  BY PhaseMoves
<1>2. \A w \in stopSet : w \in Worlds /\ phase'[w] \in Had
  BY <1>1 DEF Moves, TypeOK, Had
<1>3. \A w \in stopSet : phase'[w] = "slot" => phase[w] = "slot"
  BY <1>1, <1>2 DEF Moves, TypeOK, Had
<1>4. ASSUME NEW w \in Worlds, StopAllDestroys(w) PROVE StopAllProgress'
  <2>1. phase'[w] # "slot"
    BY <1>4 DEF StopAllDestroys, TypeOK
  <2>2. QED
    BY <1>2, <1>3, <1>4, <2>1 DEF StopAllDestroys
<1>5. ASSUME StopAllBegin PROVE StopAllProgress'
  BY <1>5 DEF StopAllBegin, TypeOK, Had
<1>6. ASSUME Exit PROVE StopAllProgress'
  BY <1>6 DEF Exit
<1>7. CASE UNCHANGED <<stopping, stopSet, toStop, exited>>
  BY <1>2, <1>3, <1>7
<1>8. QED
  BY <1>4, <1>5, <1>6, <1>7
  DEF Next, stopVars, LeaseBegin, StartVMM, StartReturns, StartFails, LeaseInsert, LeaseRefused,
      Heartbeat, SetNetwork, ExecFind, DestroyBegin, DestroyStop, DestroyTells, LateCommit, VMMDies, ExecTouch,
      ExecReturn, PauseTick, Tick

(* The initial state satisfies the inductive invariant.                    *)
LEMMA InitInv == Init => LotBossInv
<1> SUFFICES ASSUME Init PROVE LotBossInv
  OBVIOUS
<1> USE LotBossAssumption
<1>1. TypeOK
  <2>1. paused \in [Worlds -> BOOLEAN] /\ stopping \in BOOLEAN /\ exited \in BOOLEAN
    BY DEF Init
  <2>2. /\ cid \in [Worlds -> Nat] /\ nextCID \in Nat
        /\ idle \in [Worlds -> Nat] /\ ttl \in [Worlds -> Nat \ {0}]
    BY DEF Init
  <2>3. deskLog \in [Worlds -> Seq({"world_start", "world_stop"})] /\ late \in [Worlds -> SUBSET {"world_start", "world_stop"}]
    BY DEF Init
  <2>4. exec \in [Execs -> [step : {"idle", "found", "running"}, world : Worlds \cup {NoWorld}]]
    BY DEF Init
  <2>5. QED
    BY <2>1, <2>2, <2>3, <2>4 DEF Init, TypeOK, Phases
<1>2. CapHeld
  <2>1. Slots = {}
    BY DEF Init, Slots
  <2>2. Cardinality(Slots) = 0
    BY <2>1, FS_EmptySet
  <2>3. QED
    BY <2>2 DEF CapHeld
<1>3. VMMByPhase /\ CIDsByLease /\ ExecsHoldWorlds /\ DeskByPhase /\ StopAllProgress /\ NoPauseInUse
  BY DEF Init, Slots, VMMByPhase, CIDsByLease, ExecsHoldWorlds, DeskByPhase, Told, StopAllProgress, NoPauseInUse
<1>4. StateAgreesWithVMM
  BY DEF Init, Slots, StateAgreesWithVMM
<1>5. QED
  BY <1>1, <1>2, <1>3, <1>4 DEF LotBossInv

(* Every step preserves it.                                                *)
LEMMA NextInv == LotBossInv /\ [Next]_vars => LotBossInv'
<1> SUFFICES ASSUME LotBossInv, [Next]_vars PROVE LotBossInv'
  OBVIOUS
<1>1. CASE Next
  BY <1>1, NextType, NextCap, NextExecs, NextCIDs, NextVMM, NextDesk, NextStopAll, NextInUse
  DEF LotBossInv, VMMInv
<1>2. CASE UNCHANGED vars
  <2>1. UNCHANGED <<phase, vmm, cid, nextCID, paused, idle, exec, stopping, stopSet, toStop, exited, deskLog, late>>
    BY <1>2 DEF vars, slotVars, stopVars, deskVars
  <2>2. TypeOK'
    BY <1>2, NextType DEF LotBossInv
  <2>3. Slots' = Slots /\ \A w \in Worlds : Told(w)' = Told(w) /\ Alive(w)' = Alive(w)
    BY <2>1 DEF Slots, Told, Alive
  <2>4. DeskByPhase'
    BY <2>1, <2>3 DEF LotBossInv, DeskByPhase
  <2>5. CapHeld' /\ VMMByPhase' /\ CIDsByLease' /\ ExecsHoldWorlds' /\ StopAllProgress' /\ NoPauseInUse'
    BY <2>1, <2>3 DEF LotBossInv, CapHeld, VMMByPhase, CIDsByLease, ExecsHoldWorlds, StopAllProgress, NoPauseInUse
  <2>6. StateAgreesWithVMM' <=> StateAgreesWithVMM
    BY <2>1, <2>3 DEF StateAgreesWithVMM, Alive
  <2>7. QED
    BY <2>2, <2>4, <2>5, <2>6 DEF LotBossInv
<1>3. QED
  BY <1>1, <1>2

(* The inductive invariant holds in every reachable state of lot-boss.     *)
THEOREM LotBossSafe == Spec => []LotBossInv
BY InitInv, NextInv, PTL DEF Spec

(* However leases interleave with their boots, the cap on slots holds.     *)
THEOREM CapHeldHolds == Spec => []CapHeld
<1>1. LotBossInv => CapHeld
  BY DEF LotBossInv
<1>2. QED
  BY <1>1, LotBossSafe, PTL

(* No error path of Lease or Destroy leaks a VMM while lot-boss lives.     *)
THEOREM NoStrayVMMHolds == Spec => []NoStrayVMM
<1>1. LotBossInv => NoStrayVMM
  BY DEF LotBossInv, TypeOK, Phases, VMMByPhase, NoStrayVMM, Alive
<1>2. QED
  BY <1>1, LotBossSafe, PTL

(* Two live VMMs never share a vsock CID.                                  *)
THEOREM DistinctCIDsHolds == Spec => []DistinctCIDs
<1>1. LotBossInv => DistinctCIDs
  BY DEF LotBossInv, VMMByPhase, CIDsByLease, DistinctCIDs, Alive
<1>2. QED
  BY <1>1, LotBossSafe, PTL

(* The desk is told world_start and world_stop truthfully and once, in     *)
(* order but for commits that were given up.                               *)
THEOREM DeskToldTruthHolds == Spec => []DeskToldTruth
<1>1. LotBossInv => DeskToldTruth
  <2> SUFFICES ASSUME LotBossInv, NEW w \in Worlds
               PROVE  /\ phase[w] \notin Had => deskLog[w] = <<>>
                      /\ \A i, j \in DOMAIN deskLog[w] : i # j => deskLog[w][i] # deskLog[w][j]
                      /\ \A i \in DOMAIN deskLog[w] : deskLog[w][i] = "world_stop" =>
                           /\ ~Alive(w)
                           /\ \A j \in DOMAIN deskLog[w] : i < j => "world_start" \in late[w]
    BY DEF DeskToldTruth
  <2>1. deskLog[w] \in Seq({"world_start", "world_stop"}) /\ DeskByPhase /\ VMMByPhase
    BY DEF LotBossInv, TypeOK
  <2>2. phase[w] \notin Had => deskLog[w] = <<>>
    <3>1. ASSUME phase[w] \notin Had PROVE \A i \in DOMAIN deskLog[w] : FALSE
      BY <2>1, <3>1 DEF DeskByPhase, Told
    <3>2. PICK log : log = deskLog[w]
      OBVIOUS
    <3>3. (\A i \in DOMAIN log : FALSE) => log = <<>>
      <4>1. log \in Seq({"world_start", "world_stop"}) /\ DOMAIN log = 1 .. Len(log) /\ Len(log) \in Nat
        BY <2>1, <3>2
      <4>2. SUFFICES ASSUME \A i \in DOMAIN log : FALSE PROVE Len(log) = 0
        BY <4>1
      <4>3. 1 \notin 1 .. Len(log)
        BY <4>1, <4>2
      <4>4. QED
        BY <4>1, <4>3
    <3>4. QED
      BY <3>1, <3>2, <3>3
  <2>3. \A i \in DOMAIN deskLog[w] : deskLog[w][i] = "world_stop" => phase[w] = "gone"
    BY <2>1 DEF DeskByPhase, Told
  <2>4. QED
    BY <2>1, <2>2, <2>3 DEF DeskByPhase, VMMByPhase, Alive
<1>2. QED
  BY <1>1, LotBossSafe, PTL

(* Whatever ttl_pause strings clients send, no world in use is paused.     *)
THEOREM NoPauseInUseHolds == Spec => []NoPauseInUse
<1>1. LotBossInv => NoPauseInUse
  BY DEF LotBossInv
<1>2. QED
  BY <1>1, LotBossSafe, PTL

(* When the process ends, no slot StopAll found is left in the map.        *)
THEOREM StopAllClearsHolds == Spec => []StopAllClears
<1>1. LotBossInv => StopAllClears
  BY DEF LotBossInv, StopAllProgress, StopAllClears
<1>2. QED
  BY <1>1, LotBossSafe, PTL

(* If Firecracker's answers are not lost, a slot says "paused" exactly     *)
(* when its VMM is.                                                        *)
THEOREM StateAgreesWithVMMHolds ==
  ASSUME "lost" \notin APIFaults
  PROVE  Spec => []StateAgreesWithVMM
<1>1. LotBossInv => StateAgreesWithVMM
  BY DEF LotBossInv
<1>2. QED
  BY <1>1, LotBossSafe, PTL

(* What ActivityResumes says of one step.                                  *)
Resumed == \A w \in Slots : idle[w] > 0 /\ idle'[w] = 0 => vmm'[w] # "frozen"

LEMMA ResumedStep ==
  ASSUME "lost" \notin APIFaults, LotBossInv, Next
  PROVE  Resumed
<1> USE DEF Slots, Resumed
<1>1. TypeOK /\ StateAgreesWithVMM /\ ExecsHoldWorlds
  BY DEF LotBossInv
<1>2. ASSUME NEW w \in Worlds, OnActivity(w) PROVE Resumed
  <2> SUFFICES ASSUME NEW v \in Slots, idle[v] > 0, idle'[v] = 0 PROVE vmm'[v] # "frozen"
    OBVIOUS
  <2>1. v = w
    BY <1>1, <1>2 DEF OnActivity, TypeOK
  <2>2. CASE ~paused[w] /\ UNCHANGED <<paused, vmm>>
    BY <1>1, <2>1, <2>2 DEF StateAgreesWithVMM, Alive, TypeOK
  <2>3. CASE vmm' = [vmm EXCEPT ![w] = "running"]
    BY <1>1, <2>1, <2>3 DEF TypeOK
  <2>4. CASE UNCHANGED idle
    BY <1>1, <2>4 DEF TypeOK
  <2>5. QED
    BY <1>2, <2>2, <2>3, <2>4 DEF OnActivity
<1>3. ASSUME NEW w \in Worlds, NEW s \in TTLInputs, LeaseInsert(w, s) PROVE Resumed
  BY <1>1, <1>3 DEF LeaseInsert, NewSlot, TypeOK
<1>4. ASSUME Tick PROVE Resumed
  BY <1>1, <1>4, LotBossAssumption DEF Tick, TypeOK
<1>5. CASE UNCHANGED idle
  BY <1>1, <1>5 DEF TypeOK
<1>6. QED
  BY <1>1, <1>2, <1>3, <1>4, <1>5
  DEF Next, slotVars, ExecsHoldWorlds, LeaseBegin, StartVMM, StartReturns, StartFails,
      LeaseRefused, Heartbeat, SetNetwork, ExecFind, DestroyBegin, DestroyStop, DestroyTells, LateCommit,
      StopAllDestroys, VMMDies, ExecTouch, ExecReturn, PauseTick, StopAllBegin, Exit

(* If Firecracker's answers are not lost, activity that resets the idle    *)
(* clock of a world leaves it running.                                     *)
THEOREM ActivityResumesHolds ==
  ASSUME "lost" \notin APIFaults
  PROVE  Spec => ActivityResumes
<1>1. LotBossInv /\ [Next]_vars => [Resumed]_vars
  BY ResumedStep
<1>2. QED
  BY <1>1, LotBossSafe, PTL DEF Spec, ActivityResumes, Resumed
=============================================================================
