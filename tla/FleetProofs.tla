---------------------------- MODULE FleetProofs -----------------------------
(***************************************************************************)
(* Proofs about Fleet, for every number of sessions, worlds and concurrent *)
(* requests.  The theorems about Router and LotBoss are used through the   *)
(* same substitutions with which Fleet instantiates the two.               *)
(***************************************************************************)
EXTENDS Fleet, TLAPS

LP == INSTANCE LotBossProofs WITH Execs <- {}, exec <- <<>>

RP == INSTANCE RouterProofs WITH
  EngineFaults <- TRUE,
  Restarts <- TRUE,
  booting <- {w \in Worlds : phase[w] \in {"starting", "started"}},
  live <- Lot!Slots,
  issued <- {w \in Worlds : phase[w] # "unused"}

(* One handler at most waits for lot-boss to finish stopping a world: the   *)
(* Destroy call that took the slot.                                         *)
OneDestroyer ==
  \A r, q \in Requests :
    At(r, "destroying") /\ At(q, "destroying") /\ r # q => req[r].world # req[q].world

(* Already while a world boots, a handler waits for it or gave up on it.    *)
LeasesTracked ==
  \A w \in Worlds :
    phase[w] \in {"starting", "started", "slot"} => w \in known \cup abandoned \cup Unanswered

(* The inductive invariant behind the theorems: those of the two parts, and *)
(* what relates them.                                                       *)
FleetInv ==
  /\ Lot!LotBossInv
  /\ R!RouterInv
  /\ OneDestroyer
  /\ LeasesTracked
  /\ AnsweredHadSlot
-----------------------------------------------------------------------------

(* The proof modules speak of the same machines as the instances of Fleet. *)
LEMMA SameLot ==
  /\ LP!LotBossInv <=> Lot!LotBossInv
  /\ LP!Next <=> Lot!Next
  /\ LP!vars = Lot!vars
  /\ LP!LotBossInv' <=> Lot!LotBossInv'
  /\ LP!vars' = Lot!vars'
<1>1. (LP!LotBossInv <=> Lot!LotBossInv) /\ (LP!LotBossInv' <=> Lot!LotBossInv')
  BY DEF
   Lot!Cardinality, LP!Cardinality, Lot!LotBossInv, LP!LotBossInv, Lot!TypeOK, LP!TypeOK, Lot!Phases,
   LP!Phases, Lot!CapHeld, LP!CapHeld, Lot!VMMByPhase, LP!VMMByPhase,
   Lot!CIDsByLease, LP!CIDsByLease, Lot!ExecsHoldWorlds, LP!ExecsHoldWorlds,
   Lot!DeskByPhase, LP!DeskByPhase, Lot!StopAllProgress, LP!StopAllProgress,
   Lot!StateAgreesWithVMM, LP!StateAgreesWithVMM, Lot!NoPauseInUse, LP!NoPauseInUse, Lot!Told, LP!Told,
   Lot!Had, LP!Had, Lot!Slots, LP!Slots,
   Lot!Alive, LP!Alive
<1>2. LP!Next <=> Lot!Next
  BY DEF
   Lot!Cardinality, LP!Cardinality, Lot!Next, LP!Next, Lot!LeaseBegin, LP!LeaseBegin, Lot!StartVMM,
   LP!StartVMM, Lot!StartReturns, LP!StartReturns, Lot!StartFails,
   LP!StartFails, Lot!LeaseInsert, LP!LeaseInsert, Lot!LeaseRefused,
   LP!LeaseRefused, Lot!NewSlot, LP!NewSlot, Lot!parseTTLPause,
   LP!parseTTLPause, Lot!OnActivity, LP!OnActivity, Lot!Heartbeat,
   LP!Heartbeat, Lot!SetNetwork, LP!SetNetwork, Lot!ExecFind, LP!ExecFind,
   Lot!ExecTouch, LP!ExecTouch, Lot!ExecReturn, LP!ExecReturn, Lot!Expired,
   LP!Expired, Lot!PauseOutcomes, LP!PauseOutcomes, Lot!PauseTick,
   LP!PauseTick, Lot!DestroyBegin, LP!DestroyBegin, Lot!DestroyStop,
   LP!DestroyStop, Lot!DestroyTells, LP!DestroyTells, Lot!LateCommit, LP!LateCommit, Lot!StopAllBegin, LP!StopAllBegin, Lot!StopAllDestroys,
   LP!StopAllDestroys, Lot!Exit, LP!Exit, Lot!Tick, LP!Tick, Lot!VMMDies,
   LP!VMMDies, Lot!Stop, LP!Stop, Lot!CommitDesk, LP!CommitDesk, Lot!Slots,
   LP!Slots, Lot!BelowCap, LP!BelowCap, Lot!Alive, LP!Alive, Lot!slotVars,
   LP!slotVars, Lot!stopVars, LP!stopVars, Lot!deskVars, LP!deskVars, Lot!vars, LP!vars
<1>3. LP!vars = Lot!vars /\ LP!vars' = Lot!vars'
  BY DEF LP!vars, Lot!vars, LP!slotVars, Lot!slotVars, LP!stopVars, Lot!stopVars, LP!deskVars, Lot!deskVars
<1>4. QED
  BY <1>1, <1>2, <1>3

(* The same of Router.                                                     *)
LEMMA SameRouter ==
  /\ RP!RouterInv <=> R!RouterInv
  /\ RP!Next <=> R!Next
  /\ RP!vars = R!vars
  /\ RP!RouterInv' <=> R!RouterInv'
  /\ RP!vars' = R!vars'
<1>1. (RP!RouterInv <=> R!RouterInv) /\ (RP!RouterInv' <=> R!RouterInv')
  BY DEF
   R!RouterInv, RP!RouterInv, R!TypeOK, RP!TypeOK, R!Steps, RP!Steps,
   R!RequestsWellFormed, RP!RequestsWellFormed, R!IdsIssued, RP!IdsIssued,
   R!FreshUntilBound, RP!FreshUntilBound, R!StickyInverse, RP!StickyInverse,
   R!SessionIsolation, RP!SessionIsolation, R!Over, RP!Over, R!At, RP!At
<1>2. RP!Next <=> R!Next
  BY DEF
   R!Next, RP!Next, R!Step, RP!Step, R!LeaseArrives, RP!LeaseArrives,
   R!DeleteArrives, RP!DeleteArrives, R!StickyGet, RP!StickyGet, R!EngineGet,
   RP!EngineGet, R!StickyUnbind, RP!StickyUnbind, R!EngineAvailable,
   RP!EngineAvailable, R!EngineLease, RP!EngineLease, R!EngineLeaseFails,
   RP!EngineLeaseFails, R!EngineStarts, RP!EngineStarts, R!EngineRefuses,
   RP!EngineRefuses, R!LeaseGivesUp, RP!LeaseGivesUp, R!StickyBind,
   RP!StickyBind, R!EngineDestroy, RP!EngineDestroy, R!EngineDestroyed,
   RP!EngineDestroyed, R!DestroyGivesUp, RP!DestroyGivesUp,
   R!StickyUnbindWorld, RP!StickyUnbindWorld, R!EngineStops, RP!EngineStops,
   R!RouterRestart, RP!RouterRestart, R!Over, RP!Over, R!Bind, RP!Bind, R!UnbindWorld,
   RP!UnbindWorld, R!UnbindSession, RP!UnbindSession, R!Idle, RP!Idle,
   R!Done, RP!Done, R!Goto, RP!Goto, R!At, RP!At, R!Awaits, RP!Awaits,
   R!mapVars, RP!mapVars, R!engineVars, RP!engineVars, R!vars, RP!vars
<1>3. RP!vars = R!vars /\ RP!vars' = R!vars'
  BY DEF RP!vars, R!vars, RP!mapVars, R!mapVars, RP!engineVars, R!engineVars
<1>4. QED
  BY <1>1, <1>2, <1>3
-----------------------------------------------------------------------------
(* A step of the fleet is a step of lot-boss or leaves it alone.           *)
LEMMA LotStep == [Next]_vars => [Lot!Next]_(Lot!vars)
<1> SUFFICES ASSUME [Next]_vars PROVE Lot!Next \/ UNCHANGED Lot!vars
  OBVIOUS
<1> USE DEF routerVars, lotVars, Lot!vars, Lot!slotVars, Lot!stopVars, Lot!deskVars
<1>1. CASE UNCHANGED lotVars
  BY <1>1
<1>2. CASE UNCHANGED vars
  BY <1>2 DEF vars
<1>3. ASSUME NEW r \in Requests,
             RouterLocal(r) \/ Get(r) \/ LeaseRefusedAtOnce(r) \/ DestroyNotFound(r) \/ GivesUp(r)
      PROVE  UNCHANGED lotVars
  BY <1>3 DEF RouterLocal, Get, LeaseRefusedAtOnce, DestroyNotFound, GivesUp
<1>4. ASSUME NEW r \in Requests, NEW w \in Worlds, Lease(r, w) PROVE Lot!Next
  BY <1>4 DEF Lease, Lot!Next
<1>5. ASSUME NEW r \in Requests, Destroy(r) PROVE Lot!Next
  <2>1. Lot!DestroyBegin(req[r].world) /\ req[r].world \in Worlds
    BY <1>5 DEF Destroy, Lot!DestroyBegin, Lot!Slots
  <2>2. QED
    BY <2>1 DEF Lot!Next
<1>6. ASSUME NEW w \in Worlds,
             Starting(w) \/ LeaseSucceeds(w) \/ LeaseFails(w) \/ DestroyReturns(w) \/ Heartbeat(w) \/ SetNetwork(w)
      PROVE  Lot!Next
  BY <1>6 DEF Starting, LeaseSucceeds, LeaseFails, DestroyReturns, Heartbeat, SetNetwork, Lot!Next
<1>7. CASE LotLocal
  BY <1>7 DEF LotLocal, Lot!Next
<1>8. CASE RouterRestart
  BY <1>1, <1>8 DEF RouterRestart
<1>9. QED
  BY <1>1, <1>2, <1>3, <1>4, <1>5, <1>6, <1>7, <1>8 DEF Next

(* What the engine of Router sees of a change of one world's phase.        *)
LEMMA EngineView ==
  ASSUME Lot!TypeOK, NEW w \in Worlds, NEW p \in Lot!Phases, phase' = [phase EXCEPT ![w] = p]
  PROVE  /\ {v \in Worlds : phase'[v] \in {"starting", "started"}}
              = IF p \in {"starting", "started"}
                THEN {v \in Worlds : phase[v] \in {"starting", "started"}} \cup {w}
                ELSE {v \in Worlds : phase[v] \in {"starting", "started"}} \ {w}
         /\ Lot!Slots' = IF p = "slot" THEN Lot!Slots \cup {w} ELSE Lot!Slots \ {w}
         /\ {v \in Worlds : phase'[v] # "unused"}
              = IF p # "unused" THEN {v \in Worlds : phase[v] # "unused"} \cup {w}
                ELSE {v \in Worlds : phase[v] # "unused"} \ {w}
<1> USE DEF Lot!TypeOK
<1>1. phase'[w] = p /\ \A v \in Worlds : v # w => phase'[v] = phase[v]
  OBVIOUS
<1>2. Lot!Slots' = IF p = "slot" THEN Lot!Slots \cup {w} ELSE Lot!Slots \ {w}
  BY <1>1 DEF Lot!Slots
<1>3. QED
  BY <1>1, <1>2

(* A step of the fleet is a step of the router with its engine, or changes *)
(* nothing of it.                                                          *)
LEMMA RouterStep ==
  ASSUME Lot!TypeOK, R!RouterInv, OneDestroyer, [Next]_vars
  PROVE  R!Next \/ UNCHANGED R!vars
<1> USE DEF routerVars, lotVars, R!vars, R!mapVars, R!engineVars, Lot!Slots
<1>1. CASE UNCHANGED <<byS, byW, leasedTo, known, deleted, early, req, phase>>
  BY <1>1
<1>2. CASE UNCHANGED vars
  BY <1>1, <1>2 DEF vars
<1>3. ASSUME NEW r \in Requests, RouterLocal(r) PROVE R!Next
  BY <1>3 DEF RouterLocal, R!Next, R!Step
<1>4. ASSUME NEW r \in Requests, Get(r) PROVE R!Next
  <2>1. R!EngineGet(r)
    BY <1>4 DEF Get, R!EngineGet, At, R!At
  <2>2. QED
    BY <2>1 DEF R!Next, R!Step
<1>5. ASSUME NEW r \in Requests, NEW w \in Worlds, Lease(r, w) PROVE R!Next
  <2>1. phase[w] = "unused" /\ phase' = [phase EXCEPT ![w] = "starting"]
    BY <1>5 DEF Lease, Lot!LeaseBegin
  <2>2. R!EngineLease(r, w)
    BY <1>5, <2>1, EngineView DEF Lease, R!EngineLease, At, R!At, Lot!Phases
  <2>3. QED
    BY <2>2 DEF R!Next, R!Step
<1>6. ASSUME NEW r \in Requests, LeaseRefusedAtOnce(r) PROVE R!Next
  <2>1. R!EngineLeaseFails(r)
    BY <1>6 DEF LeaseRefusedAtOnce, R!EngineLeaseFails, At, R!At
  <2>2. QED
    BY <2>1 DEF R!Next, R!Step
<1>7. ASSUME NEW r \in Requests, Destroy(r) PROVE R!Next
  <2>1. /\ req[r].world \in Worlds /\ phase[req[r].world] = "slot"
        /\ phase' = [phase EXCEPT ![req[r].world] = "removed"]
    BY <1>7 DEF Destroy, Lot!DestroyBegin
  <2>2. R!EngineDestroy(r)
    BY <1>7, <2>1, EngineView DEF Destroy, R!EngineDestroy, R!Over, At, R!At, R!Goto, Lot!Phases
  <2>3. QED
    BY <2>2 DEF R!Next, R!Step
<1>8. ASSUME NEW r \in Requests, DestroyNotFound(r) PROVE R!Next
  <2>1. R!EngineDestroy(r)
    BY <1>8 DEF DestroyNotFound, R!EngineDestroy, R!Over, At, R!At, R!Goto
  <2>2. QED
    BY <2>1 DEF R!Next, R!Step
<1>9. ASSUME NEW r \in Requests, GivesUp(r) PROVE R!Next
  <2>1. R!LeaseGivesUp(r) \/ R!DestroyGivesUp(r)
    BY <1>9 DEF GivesUp, R!LeaseGivesUp, R!DestroyGivesUp, R!At, R!Done
  <2>2. QED
    BY <2>1 DEF R!Next, R!Step
<1>10. ASSUME NEW w \in Worlds, Starting(w) PROVE UNCHANGED R!vars
  <2>1. CASE Lot!StartVMM(w)
    BY <1>1, <1>10, <2>1 DEF Starting, Lot!StartVMM
  <2>2. CASE Lot!StartReturns(w)
    <3>1. phase[w] = "starting" /\ phase' = [phase EXCEPT ![w] = "started"]
      BY <2>2 DEF Lot!StartReturns
    <3>2. QED
      BY <1>10, <3>1, EngineView DEF Starting, Lot!Phases
  <2>3. QED
    BY <1>10, <2>1, <2>2 DEF Starting
<1>11. ASSUME NEW w \in Worlds, LeaseSucceeds(w) PROVE R!Next
  <2>1. phase[w] = "started" /\ phase' = [phase EXCEPT ![w] = "slot"]
    BY <1>11 DEF LeaseSucceeds, Lot!LeaseInsert
  <2>2. R!EngineStarts(w)
    BY <1>11, <2>1, EngineView DEF LeaseSucceeds, R!EngineStarts, Awaits, R!Awaits, At, R!At, Lot!Phases
  <2>3. QED
    BY <2>2 DEF R!Next
<1>12. ASSUME NEW w \in Worlds, LeaseFails(w) PROVE R!Next
  <2>1. phase[w] \in {"starting", "started"} /\ phase' = [phase EXCEPT ![w] = "refused"]
    BY <1>12 DEF LeaseFails, Lot!StartFails, Lot!LeaseRefused
  <2>2. R!EngineRefuses(w)
    BY <1>12, <2>1, EngineView DEF LeaseFails, R!EngineRefuses, Awaits, R!Awaits, At, R!At, Lot!Phases
  <2>3. QED
    BY <2>2 DEF R!Next
<1>13. ASSUME NEW w \in Worlds, DestroyReturns(w) PROVE R!Next \/ UNCHANGED R!vars
  <2>1. phase[w] = "stopped" /\ phase' = [phase EXCEPT ![w] = "gone"]
    BY <1>13 DEF DestroyReturns, Lot!DestroyTells
  <2>2. UNCHANGED <<byS, byW, leasedTo, known, deleted, early, R!engineVars>>
    BY <1>13, <2>1, EngineView DEF DestroyReturns, Lot!Phases
  <2>3. req \in [Requests -> [step : R!Steps, session : Sessions \cup {None}, world : Worlds \cup {None}]]
    BY DEF R!RouterInv, R!TypeOK
  <2>4. CASE \E r \in Requests : Destroys(r, w)
    <3>1. PICK r \in Requests : Destroys(r, w)
      BY <2>4
    <3>2. \A q \in Requests : Destroys(q, w) => q = r
      BY <3>1 DEF OneDestroyer, Destroys
    <3>3. req' = [req EXCEPT ![r].step = "unbindWorld"]
      BY <1>13, <2>3, <3>1, <3>2 DEF DestroyReturns
    <3>4. R!EngineDestroyed(r)
      BY <2>2, <3>1, <3>3 DEF R!EngineDestroyed, R!Goto, Destroys, At, R!At
    <3>5. QED
      BY <3>4 DEF R!Next, R!Step
  <2>5. CASE \A r \in Requests : ~Destroys(r, w)
    <3>1. req' = req
      BY <1>13, <2>3, <2>5 DEF DestroyReturns
    <3>2. QED
      BY <2>2, <3>1
  <2>6. QED
    BY <2>4, <2>5
<1>14. ASSUME NEW w \in Worlds, Heartbeat(w) \/ SetNetwork(w) PROVE UNCHANGED R!vars
  BY <1>1, <1>14 DEF Heartbeat, SetNetwork, Lot!Heartbeat, Lot!SetNetwork
<1>15. CASE LotLocal
  <2>1. ASSUME NEW w \in Worlds, Lot!StopAllDestroys(w), w \in Lot!Slots PROVE R!Next
    <3>1. phase[w] = "slot" /\ phase' = [phase EXCEPT ![w] = "removed"]
      BY <2>1 DEF Lot!StopAllDestroys
    <3>2. R!EngineStops(w)
      BY <1>15, <3>1, EngineView DEF LotLocal, R!EngineStops, Lot!Phases
    <3>3. QED
      BY <3>2 DEF R!Next
  <2>2. ASSUME NEW w \in Worlds, Lot!StopAllDestroys(w), w \notin Lot!Slots PROVE UNCHANGED phase
    BY <2>2 DEF Lot!StopAllDestroys
  <2>3. ASSUME NEW w \in Worlds, Lot!VMMDies(w) PROVE UNCHANGED phase
    BY <2>3 DEF Lot!VMMDies
  <2>6. ASSUME NEW w \in Worlds, Lot!DestroyStop(w) PROVE UNCHANGED R!vars
    <3>1. phase[w] = "removed" /\ phase' = [phase EXCEPT ![w] = "stopped"]
      BY <2>6 DEF Lot!DestroyStop
    <3>2. QED
      BY <1>15, <3>1, EngineView DEF LotLocal, Lot!Phases
  <2>7. ASSUME NEW w \in Worlds, Lot!LateCommit(w) PROVE UNCHANGED phase
    BY <2>7 DEF Lot!LateCommit
  <2>4. CASE Lot!PauseTick \/ Lot!Tick \/ Lot!StopAllBegin \/ Lot!Exit
    BY <1>1, <1>15, <2>4 DEF LotLocal, Lot!PauseTick, Lot!Tick, Lot!StopAllBegin, Lot!Exit
  <2>5. QED
    BY <1>1, <1>15, <2>1, <2>2, <2>3, <2>4, <2>6, <2>7 DEF LotLocal
<1>16. CASE RouterRestart
  BY <1>16 DEF RouterRestart, R!Next
<1>17. QED
  BY <1>2, <1>3, <1>4, <1>5, <1>6, <1>7, <1>8, <1>9, <1>10, <1>11, <1>12, <1>13, <1>14, <1>15, <1>16 DEF Next
-----------------------------------------------------------------------------
(* The initial state of the fleet is one of lot-boss and one of the router. *)
LEMMA InitInv == Init => FleetInv
<1> SUFFICES ASSUME Init PROVE FleetInv
  OBVIOUS
<1> USE FleetAssumption
<1>1. Lot!LotBossInv
  <2>1. LP!Init
    BY DEF Init, Lot!Init, LP!Init
  <2>2. QED
    BY <2>1, SameLot, LP!InitInv DEF IsFiniteSet, LP!IsFiniteSet
<1>2. R!RouterInv
  <2>1. RP!Init
    BY DEF Init, Lot!Init, RP!Init, Lot!Slots, R!Idle, RP!Idle
  <2>2. QED
    BY <2>1, SameRouter, RP!InitInv
<1>3. OneDestroyer /\ LeasesTracked /\ AnsweredHadSlot
  BY DEF Init, Lot!Init, R!Idle, OneDestroyer, LeasesTracked, AnsweredHadSlot, At
<1>4. QED
  BY <1>1, <1>2, <1>3 DEF FleetInv

(* Every step preserves the invariants of the two parts.                   *)
LEMMA PartsInv ==
  ASSUME FleetInv, [Next]_vars
  PROVE  Lot!LotBossInv' /\ R!RouterInv'
<1> USE FleetAssumption
<1>1. Lot!LotBossInv'
  <2>1. LP!LotBossInv /\ [LP!Next]_(LP!vars)
    BY LotStep, SameLot DEF FleetInv
  <2>2. LP!LotBossInv'
    BY <2>1, LP!NextInv DEF IsFiniteSet, LP!IsFiniteSet
  <2>3. QED
    BY <2>2, SameLot
<1>2. R!RouterInv'
  <2>1. Lot!TypeOK
    BY DEF FleetInv, Lot!LotBossInv
  <2>2. RP!RouterInv /\ [RP!Next]_(RP!vars)
    BY <2>1, RouterStep, SameRouter DEF FleetInv
  <2>3. RP!RouterInv'
    BY <2>2, RP!NextInv
  <2>4. QED
    BY <2>3, SameRouter
<1>3. QED
  BY <1>1, <1>2

(* And it preserves what relates them.                                     *)
LEMMA TogetherInv ==
  ASSUME FleetInv, [Next]_vars
  PROVE  OneDestroyer' /\ LeasesTracked' /\ AnsweredHadSlot'
<1> DEFINE Together == OneDestroyer /\ LeasesTracked /\ AnsweredHadSlot
<1> SUFFICES Together'
  OBVIOUS
<1> USE FleetAssumption
<1>t. /\ req \in [Requests -> [step : R!Steps, session : Sessions \cup {None}, world : Worlds \cup {None}]]
      /\ phase \in [Worlds -> Lot!Phases]
      /\ known \in SUBSET Worlds
      /\ stopping \in BOOLEAN
  BY DEF FleetInv, R!RouterInv, R!TypeOK, Lot!LotBossInv, Lot!TypeOK
<1>w. /\ R!RequestsWellFormed /\ R!FreshUntilBound
      /\ OneDestroyer /\ LeasesTracked /\ AnsweredHadSlot
  BY DEF FleetInv, R!RouterInv
<1> USE <1>t, <1>w
<1> USE DEF OneDestroyer, LeasesTracked, AnsweredHadSlot, Unanswered, At, R!At, R!Steps, R!Idle, R!Done, R!Goto,
            Lot!Slots, Lot!Had, Lot!Phases, lotVars, routerVars, R!RequestsWellFormed, R!FreshUntilBound
<1>1. CASE UNCHANGED <<phase, stopping, known, abandoned, req>>
  BY <1>1
<1>2. ASSUME NEW r \in Requests, RouterLocal(r) PROVE Together'
  <2>1. UNCHANGED <<phase, stopping, abandoned>>
    BY <1>2 DEF RouterLocal
  <2>2. ASSUME NEW s \in Sessions \cup {None}, R!LeaseArrives(r, s) PROVE Together'
    BY <2>1, <2>2 DEF R!LeaseArrives
  <2>3. ASSUME NEW w \in Worlds, R!DeleteArrives(r, w) PROVE Together'
    BY <2>1, <2>3 DEF R!DeleteArrives
  <2>4. CASE R!StickyGet(r)
    BY <2>1, <2>4 DEF R!StickyGet
  <2>5. CASE R!StickyUnbind(r) \/ R!EngineAvailable(r)
    BY <2>1, <2>5 DEF R!StickyUnbind, R!EngineAvailable
  <2>6. CASE R!StickyBind(r)
    BY <2>1, <2>6 DEF R!StickyBind
  <2>7. CASE R!StickyUnbindWorld(r)
    BY <2>1, <2>7 DEF R!StickyUnbindWorld
  <2>8. QED
    BY <1>2, <2>2, <2>3, <2>4, <2>5, <2>6, <2>7 DEF RouterLocal
<1>3. ASSUME NEW r \in Requests, Get(r) PROVE Together'
  <2>1. UNCHANGED <<phase, abandoned>> /\ At(r, "get")
    BY <1>3 DEF Get
  <2>2. \A q \in Requests : q # r => req'[q] = req[q]
    BY <1>3 DEF Get
  <2>3. req'[r].step \in {"done", "unbind"}
    BY <1>3 DEF Get
  <2>4. known' = known \/ (known' = known \cup {req[r].world} /\ phase[req[r].world] = "slot")
    BY <1>3 DEF Get
  <2>5. OneDestroyer' /\ LeasesTracked'
    BY <2>1, <2>2, <2>3, <2>4
  <2>6. AnsweredHadSlot'
    BY <2>1, <2>2, <2>3, <2>4
  <2>7. QED
    BY <2>5, <2>6
<1>4. ASSUME NEW r \in Requests, NEW w \in Worlds, Lease(r, w) PROVE Together'
  BY <1>4 DEF Lease, Lot!LeaseBegin, Lot!stopVars
<1>5. ASSUME NEW r \in Requests, LeaseRefusedAtOnce(r) PROVE Together'
  BY <1>5 DEF LeaseRefusedAtOnce
<1>6. ASSUME NEW r \in Requests, Destroy(r) PROVE Together'
  <2> DEFINE x == req[r].world
  <2>1. /\ x \in Worlds /\ phase[x] = "slot" /\ phase' = [phase EXCEPT ![x] = "removed"]
        /\ UNCHANGED <<known, abandoned>>
    BY <1>6 DEF Destroy, Lot!DestroyBegin
  <2>2. /\ req'[r].step = "destroying" /\ req'[r].world = x /\ req[r].step = "destroy"
        /\ \A q \in Requests : q # r => req'[q] = req[q]
    BY <1>6 DEF Destroy
  <2>3. \A q \in Requests : At(q, "destroying") => req[q].world # x
    BY <2>1 DEF R!Over
  <2> HIDE DEF x
  <2>4. OneDestroyer'
    BY <2>2, <2>3
  <2>5. LeasesTracked' /\ AnsweredHadSlot'
    BY <2>1, <2>2
  <2>6. QED
    BY <2>4, <2>5
<1>7. ASSUME NEW r \in Requests, DestroyNotFound(r) PROVE Together'
  BY <1>7 DEF DestroyNotFound
<1>8. ASSUME NEW r \in Requests, GivesUp(r) PROVE Together'
  BY <1>8 DEF GivesUp
<1>9. ASSUME NEW w \in Worlds, Starting(w) PROVE Together'
  BY <1>9 DEF Starting, Lot!StartVMM, Lot!StartReturns, Lot!stopVars
<1>10. ASSUME NEW w \in Worlds, LeaseSucceeds(w) PROVE Together'
  BY <1>10 DEF LeaseSucceeds, Lot!LeaseInsert, Lot!stopVars, Awaits
<1>11. ASSUME NEW w \in Worlds, LeaseFails(w) PROVE Together'
  <2>1. /\ phase[w] \in {"starting", "started"} /\ phase' = [phase EXCEPT ![w] = "refused"]
        /\ UNCHANGED <<known, abandoned>>
    BY <1>11 DEF LeaseFails, Lot!StartFails, Lot!LeaseRefused
  <2>2. \A r \in Requests : req'[r] = req[r] \/ (req'[r] = R!Idle /\ At(r, "leasing") /\ req[r].world = w)
    BY <1>11 DEF LeaseFails, Awaits
  <2>3. \A v \in Worlds \ {w} : v \in Unanswered => v \in Unanswered'
    BY <2>2
  <2>4. LeasesTracked'
    BY <2>1, <2>3
  <2>5. OneDestroyer'
    BY <2>2
  <2>6. AnsweredHadSlot'
    BY <2>1, <2>2
  <2>7. QED
    BY <2>4, <2>5, <2>6
<1>12. ASSUME NEW w \in Worlds, DestroyReturns(w) PROVE Together'
  BY <1>12 DEF DestroyReturns, Lot!DestroyTells, Destroys
<1>13. ASSUME NEW w \in Worlds, Heartbeat(w) \/ SetNetwork(w) PROVE Together'
  BY <1>1, <1>13 DEF Heartbeat, SetNetwork, Lot!Heartbeat, Lot!SetNetwork, Lot!stopVars
<1>14. CASE LotLocal
  <2>1. ASSUME NEW w \in Worlds, Lot!StopAllDestroys(w) PROVE Together'
    BY <1>14, <2>1 DEF LotLocal, Lot!StopAllDestroys
  <2>2. ASSUME NEW w \in Worlds, Lot!VMMDies(w) \/ Lot!LateCommit(w) PROVE Together'
    BY <1>1, <1>14, <2>2 DEF LotLocal, Lot!VMMDies, Lot!LateCommit, Lot!stopVars
  <2>5. ASSUME NEW w \in Worlds, Lot!DestroyStop(w) PROVE Together'
    BY <1>14, <2>5 DEF LotLocal, Lot!DestroyStop
  <2>3. CASE Lot!PauseTick \/ Lot!Tick \/ Lot!StopAllBegin \/ Lot!Exit
    <3>1. UNCHANGED <<phase, routerVars>> /\ (stopping => stopping')
      BY <1>14, <2>3 DEF LotLocal, Lot!PauseTick, Lot!Tick, Lot!StopAllBegin, Lot!Exit, Lot!stopVars
    <3>2. QED
      BY <3>1
  <2>4. QED
    BY <1>14, <2>1, <2>2, <2>3, <2>5 DEF LotLocal
<1>15. CASE RouterRestart
  BY <1>15 DEF RouterRestart, R!RouterRestart
<1>16. CASE UNCHANGED vars
  BY <1>1, <1>16 DEF vars
<1> HIDE DEF Together
<1>17. QED
  BY <1>2, <1>3, <1>4, <1>5, <1>6, <1>7, <1>8, <1>9, <1>10, <1>11, <1>12, <1>13, <1>14, <1>15, <1>16 DEF Next
-----------------------------------------------------------------------------
(* In every reachable state of the fleet the invariants of lot-boss and of *)
(* the router hold, and so does what relates their states.                 *)
THEOREM FleetSafe == Spec => []FleetInv
<1>1. FleetInv /\ [Next]_vars => FleetInv'
  BY PartsInv, TogetherInv DEF FleetInv
<1>2. QED
  BY <1>1, InitInv, PTL DEF Spec

(* lot-boss is such an engine as Router supposes: every behaviour of the   *)
(* fleet is one of Router, so what is proved of Router holds of the fleet. *)
THEOREM FleetRefinesRouter == Spec => FleetImplementsRouter
<1>1. Init => R!Init
  BY DEF Init, Lot!Init, R!Init, Lot!Slots, R!Idle
<1>2. FleetInv /\ [Next]_vars => [R!Next]_(R!vars)
  BY RouterStep DEF FleetInv, Lot!LotBossInv
<1>3. QED
  BY <1>1, <1>2, FleetSafe, PTL DEF Spec, FleetImplementsRouter, R!Spec

(* Every slot of lot-boss is known to a client, about to be, or was given  *)
(* up on by the router.                                                    *)
THEOREM SlotsAccountedForHolds == Spec => []SlotsAccountedFor
<1>1. FleetInv => SlotsAccountedFor
  BY DEF FleetInv, LeasesTracked, SlotsAccountedFor, Lot!Slots
<1>2. QED
  BY <1>1, FleetSafe, PTL

(* No handler is answered with, or tells a client, the id of a world that  *)
(* never had a slot.                                                       *)
THEOREM AnsweredHadSlotHolds == Spec => []AnsweredHadSlot
<1>1. FleetInv => AnsweredHadSlot
  BY DEF FleetInv
<1>2. QED
  BY <1>1, FleetSafe, PTL

(* A world whose deletion was answered has no slot, and its VMM is dead or *)
(* being stopped.                                                          *)
THEOREM DeletedIsGoneHolds == Spec => []DeletedIsGone
<1>1. FleetInv => DeletedIsGone
  BY DEF FleetInv, DeletedIsGone, R!RouterInv, R!TypeOK, R!IdsIssued, R!Over, Lot!LotBossInv, Lot!TypeOK, Lot!Phases,
     Lot!VMMByPhase, Lot!Slots, Lot!Alive
<1>2. QED
  BY <1>1, FleetSafe, PTL

(* The router drives lot-boss only through its calls: every behaviour of   *)
(* the fleet is one of LotBoss, so what is proved of LotBoss holds of it.  *)
THEOREM FleetRefinesLotBoss == Spec => Lot!Spec
<1>1. Init => Lot!Init
  BY DEF Init
<1>2. QED
  BY <1>1, LotStep, PTL DEF Spec, Lot!Spec

(* With lot-boss as the engine, sessions stay apart, the cap holds and no  *)
(* VMM is left without an owner.                                           *)
THEOREM PartsStaySafe ==
  Spec => [](R!SessionIsolation /\ Lot!CapHeld /\ Lot!NoStrayVMM)
<1>1. FleetInv => R!SessionIsolation /\ Lot!CapHeld
  BY DEF FleetInv, R!RouterInv, Lot!LotBossInv
<1>2. FleetInv => Lot!NoStrayVMM
  BY DEF FleetInv, Lot!LotBossInv, Lot!TypeOK, Lot!Phases, Lot!VMMByPhase, Lot!NoStrayVMM, Lot!Alive
<1>3. QED
  BY <1>1, <1>2, FleetSafe, PTL

(* A deleted world stays unbound with lot-boss behind the router, but for  *)
(* the answer to the very lease.                                           *)
THEOREM DeletedStaysUnboundHolds == Spec => R!DeletedStaysUnbound
<1> DEFINE Unbound == \A s \in Sessions :
       byS'[s] \in deleted' =>
         \/ byS[s] \in deleted /\ byS'[s] = byS[s]
         \/ byS'[s] \in known' \ known
<1>1. ASSUME R!RouterInv, [R!Next]_(R!vars) PROVE Unbound
  <2>1. RP!StaysUnbound
    BY <1>1, FleetAssumption, SameRouter, RP!UnboundStep
  <2>2. QED
    BY <2>1 DEF RP!StaysUnbound
<1>2. FleetInv /\ [Next]_vars => [Unbound]_(R!vars)
  BY <1>1, RouterStep DEF FleetInv, Lot!LotBossInv
<1>3. QED
  BY <1>2, FleetSafe, PTL DEF Spec, R!DeletedStaysUnbound

(* The router's action property holds with lot-boss behind it: a session's *)
(* binding to a world that has its slot is changed by the session's own    *)
(* requests, or a restart, only.                                           *)
THEOREM BindingsKept == Spec => R!NeighboursKeepBinding
<1> DEFINE Kept == \A s \in Sessions :
       byS[s] \in Lot!Slots \ early /\ byS'[s] # byS[s]
         => R!RouterRestart \/ \E r \in Requests : req[r].session = s /\ req'[r] # req[r]
<1>1. ASSUME R!RouterInv, R!Next PROVE Kept
  <2>1. RP!BindingKept
    BY <1>1, FleetAssumption, SameRouter, RP!BindingStep
  <2>2. QED
    BY <2>1 DEF RP!BindingKept, RP!RouterRestart, R!RouterRestart, RP!Idle, R!Idle, RP!engineVars, R!engineVars
<1>2. FleetInv /\ [Next]_vars => [Kept]_(R!vars)
  BY <1>1, RouterStep DEF FleetInv, Lot!LotBossInv
<1>3. QED
  BY <1>2, FleetSafe, PTL DEF Spec, R!NeighboursKeepBinding

(* onActivity, when its calls come through the router: without lost        *)
(* answers, what resets the idle clock of a world leaves it running.       *)
THEOREM RoutedActivityResumes ==
  ASSUME "lost" \notin APIFaults
  PROVE  Spec => Lot!ActivityResumes
<1> DEFINE Resumed == \A w \in Lot!Slots : idle[w] > 0 /\ idle'[w] = 0 => vmm'[w] # "frozen"
<1>1. ASSUME Lot!LotBossInv, Lot!Next PROVE Resumed
  <2>1. LP!Resumed
    BY <1>1, FleetAssumption, SameLot, LP!ResumedStep DEF IsFiniteSet, LP!IsFiniteSet
  <2>2. QED
    BY <2>1 DEF LP!Resumed, LP!Slots, Lot!Slots
<1>2. FleetInv /\ [Next]_vars => [Resumed]_(Lot!vars)
  BY <1>1, LotStep DEF FleetInv
<1>3. QED
  BY <1>2, FleetSafe, PTL DEF Spec, Lot!ActivityResumes
=============================================================================
