---------------------------- MODULE RouterProofs ----------------------------
(***************************************************************************)
(* Proofs about Router, for every number of sessions, worlds and           *)
(* concurrent requests, with engine faults and restarts.                   *)
(***************************************************************************)
EXTENDS Router, TLAPS

(* StickyMap.Bind keeps the two directions of the map inverse.             *)
LEMMA BindInverse ==
  ASSUME TypeOK, StickyInverse, NEW s \in Sessions, NEW w \in Worlds, Bind(s, w)
  PROVE  /\ byS' \in [Sessions -> Worlds \cup {None}]
         /\ byW' \in [Worlds -> Sessions \cup {None}]
         /\ StickyInverse'
         /\ \A t \in Sessions : byS'[t] \in {byS[t], None} \/ (t = s /\ byS'[t] = w)
BY RouterAssumption DEF TypeOK, StickyInverse, Bind

(* StickyMap.UnbindWorld removes the world from both directions.           *)
LEMMA UnbindWorldInverse ==
  ASSUME TypeOK, StickyInverse, NEW w \in Worlds, UnbindWorld(w)
  PROVE  /\ byS' \in [Sessions -> Worlds \cup {None}]
         /\ byW' \in [Worlds -> Sessions \cup {None}]
         /\ StickyInverse'
         /\ \A t \in Sessions : byS'[t] \in {byS[t], None} /\ byS'[t] # w
BY RouterAssumption DEF TypeOK, StickyInverse, UnbindWorld

(* StickyMap.UnbindSession removes the session from both directions.       *)
LEMMA UnbindSessionInverse ==
  ASSUME TypeOK, StickyInverse, NEW s \in Sessions, UnbindSession(s)
  PROVE  /\ byS' \in [Sessions -> Worlds \cup {None}]
         /\ byW' \in [Worlds -> Sessions \cup {None}]
         /\ StickyInverse'
         /\ \A t \in Sessions : byS'[t] \in {byS[t], None}
BY RouterAssumption DEF TypeOK, StickyInverse, UnbindSession

(* A request that takes a step with a new world keeps its session.         *)
LEMMA RequestUpdate ==
  ASSUME req \in [Requests -> [step : Steps, session : Sessions \cup {None}, world : Worlds \cup {None}]],
         NEW r \in Requests, NEW step \in Steps, NEW w \in Worlds \cup {None},
         req' = [req EXCEPT ![r].step = step, ![r].world = w]
  PROVE  /\ req' \in [Requests -> [step : Steps, session : Sessions \cup {None}, world : Worlds \cup {None}]]
         /\ req'[r].step = step /\ req'[r].session = req[r].session /\ req'[r].world = w
         /\ \A q \in Requests : q # r => req'[q] = req[q]
OBVIOUS

(* The initial state satisfies the inductive invariant.                    *)
LEMMA InitInv == Init => RouterInv
BY RouterAssumption DEF Init, RouterInv, TypeOK, RequestsWellFormed, IdsIssued, FreshUntilBound,
   StickyInverse, SessionIsolation, Idle, Over, At, Steps

(* Every step of the router or of lot-boss preserves it.                   *)
LEMMA NextInv == RouterInv /\ [Next]_vars => RouterInv'
<1> SUFFICES ASSUME RouterInv, [Next]_vars PROVE RouterInv'
  OBVIOUS
<1> USE RouterAssumption
<1> USE DEF RouterInv, TypeOK, RequestsWellFormed, IdsIssued, FreshUntilBound,
            SessionIsolation, Over, At, Steps, mapVars, engineVars, Idle
<1>1. ASSUME NEW r \in Requests, NEW s \in Sessions \cup {None}, LeaseArrives(r, s) PROVE RouterInv'
  BY <1>1 DEF LeaseArrives, StickyInverse
<1>2. ASSUME NEW r \in Requests, NEW w \in Worlds, DeleteArrives(r, w) PROVE RouterInv'
  BY <1>2 DEF DeleteArrives, StickyInverse
<1>3. ASSUME NEW r \in Requests, StickyGet(r) PROVE RouterInv'
  <2> DEFINE w == byS[req[r].session]
             step == IF w = None THEN "avail" ELSE "get"
  <2>1. req[r].session \in Sessions /\ w \in Worlds \cup {None} /\ step \in {"avail", "get"}
    BY <1>3 DEF StickyGet
  <2>2. req' = [req EXCEPT ![r].step = step, ![r].world = w]
    BY <1>3 DEF StickyGet
  <2>3. step = "get" => w # None
    OBVIOUS
  <2>4. w # None => w \in known /\ w \in issued /\ leasedTo[w] = req[r].session
    BY <2>1
  <2> HIDE DEF w, step
  <2>5. step \in Steps
    BY <2>1
  <2>6. /\ req' \in [Requests -> [step : Steps, session : Sessions \cup {None}, world : Worlds \cup {None}]]
        /\ req'[r].step = step /\ req'[r].session = req[r].session /\ req'[r].world = w
        /\ \A q \in Requests : q # r => req'[q] = req[q]
    BY <2>1, <2>2, <2>5, RequestUpdate
  <2>7. TypeOK'
    BY <1>3, <2>6 DEF StickyGet
  <2>8. StickyInverse'
    BY <1>3 DEF StickyGet, StickyInverse
  <2>9. IdsIssued'
    BY <1>3, <2>4, <2>6 DEF StickyGet
  <2>10. SessionIsolation'
    BY <1>3, <2>4, <2>6 DEF StickyGet
  <2>11. RequestsWellFormed'
    BY <1>3, <2>1, <2>3, <2>6 DEF StickyGet
  <2>12. FreshUntilBound'
    BY <1>3, <2>1, <2>4, <2>6 DEF StickyGet
  <2>13. QED
    BY <2>7, <2>8, <2>9, <2>10, <2>11, <2>12
<1>4. ASSUME NEW r \in Requests, EngineGet(r) PROVE RouterInv'
  <2>1. CASE req' = Done(r) /\ known' = known \cup {req[r].world}
    BY <1>4, <2>1 DEF EngineGet, Done, StickyInverse
  <2>2. CASE req' = [req EXCEPT ![r].step = "unbind", ![r].world = None] /\ UNCHANGED known
    BY <1>4, <2>2 DEF EngineGet, StickyInverse
  <2>3. QED
    BY <1>4, <2>1, <2>2 DEF EngineGet
<1>5. ASSUME NEW r \in Requests, StickyUnbind(r) PROVE RouterInv'
  <2>1. UnbindSession(req[r].session) /\ req[r].session \in Sessions
    BY <1>5 DEF StickyUnbind
  <2>2. QED
    BY <1>5, <2>1, UnbindSessionInverse DEF StickyUnbind, Goto
<1>6. ASSUME NEW r \in Requests, EngineAvailable(r) PROVE RouterInv'
  <2>1. CASE req' = Goto(r, "lease")
    BY <1>6, <2>1 DEF EngineAvailable, Goto, StickyInverse
  <2>2. CASE req' = Done(r)
    BY <1>6, <2>2 DEF EngineAvailable, Done, StickyInverse
  <2>3. QED
    BY <1>6, <2>1, <2>2 DEF EngineAvailable
<1>7. ASSUME NEW r \in Requests, NEW w \in Worlds, EngineLease(r, w) PROVE RouterInv'
  <2>1. /\ req' \in [Requests -> [step : Steps, session : Sessions \cup {None}, world : Worlds \cup {None}]]
        /\ req'[r].step = "leasing" /\ req'[r].session = req[r].session /\ req'[r].world = w
        /\ \A q \in Requests : q # r => req'[q] = req[q]
    BY <1>7, RequestUpdate DEF EngineLease
  <2>2. TypeOK' /\ StickyInverse'
    <3>1. leasedTo' = [leasedTo EXCEPT ![w] = req[r].session] /\ req[r].session \in Sessions \cup {None}
      BY <1>7 DEF EngineLease
    <3>2. leasedTo' \in [Worlds -> Sessions \cup {None}]
      BY <3>1
    <3>3. QED
      BY <1>7, <2>1, <3>2 DEF EngineLease, StickyInverse
  <2>3. \A v \in Worlds : Over(v) => Over(v)'
    BY <1>7 DEF EngineLease
  <2>4. RequestsWellFormed'
    BY <1>7, <2>1, <2>3 DEF EngineLease
  <2>5. IdsIssued'
    BY <1>7, <2>1, <2>3 DEF EngineLease
  <2>6. FreshUntilBound' /\ SessionIsolation'
    BY <1>7, <2>1 DEF EngineLease
  <2>7. QED
    BY <2>2, <2>4, <2>5, <2>6
<1>8. ASSUME NEW r \in Requests, EngineLeaseFails(r) PROVE RouterInv'
  BY <1>8 DEF EngineLeaseFails, Done, StickyInverse
<1>9. ASSUME NEW r \in Requests, StickyBind(r) PROVE RouterInv'
  <2>1. CASE req[r].session = None
    BY <1>9, <2>1 DEF StickyBind, Done, StickyInverse
  <2>2. CASE req[r].session # None
    <3>1. Bind(req[r].session, req[r].world) /\ req[r].session \in Sessions /\ req[r].world \in Worlds
      BY <1>9, <2>2 DEF StickyBind
    <3>2. QED
      BY <1>9, <3>1, BindInverse DEF StickyBind, Done
  <2>3. QED
    BY <2>1, <2>2
<1>10. ASSUME NEW r \in Requests, EngineDestroy(r) PROVE RouterInv'
  <2>1. CASE req' = Goto(r, "destroying")
    BY <1>10, <2>1 DEF EngineDestroy, Goto, StickyInverse
  <2>2. CASE req' = Goto(r, "unbindWorld")
    BY <1>10, <2>2 DEF EngineDestroy, Goto, StickyInverse
  <2>3. QED
    BY <1>10, <2>1, <2>2 DEF EngineDestroy
<1>11. ASSUME NEW r \in Requests, StickyUnbindWorld(r) PROVE RouterInv'
  <2>1. UnbindWorld(req[r].world) /\ req[r].world \in Worlds
    BY <1>11 DEF StickyUnbindWorld
  <2>2. QED
    BY <1>11, <2>1, UnbindWorldInverse DEF StickyUnbindWorld, Done
<1>12. ASSUME NEW w \in Worlds, EngineStops(w) PROVE RouterInv'
  BY <1>12 DEF EngineStops, StickyInverse
<1>13. ASSUME RouterRestart PROVE RouterInv'
  BY <1>13 DEF RouterRestart, StickyInverse
<1>14. ASSUME UNCHANGED vars PROVE RouterInv'
  BY <1>14 DEF vars, StickyInverse
<1>15. ASSUME NEW w \in Worlds, EngineStarts(w) PROVE RouterInv'
  <2>1. w \notin known /\ (w \in deleted => w \in early)
    BY <1>15 DEF EngineStarts
  <2>2. \A r \in Requests : req'[r] \in {req[r], [req[r] EXCEPT !.step = "bind"]}
    BY <1>15 DEF EngineStarts
  <2>3. \A r \in Requests : req'[r].world = req[r].world /\ req'[r].session = req[r].session
    BY <2>2
  <2>4. \A r \in Requests : req'[r].step # req[r].step =>
          req[r].step = "leasing" /\ req'[r].step = "bind" /\ req[r].world = w
    BY <1>15 DEF EngineStarts, Awaits
  <2>5. TypeOK'
    BY <1>15 DEF EngineStarts
  <2>6. StickyInverse'
    BY <1>15 DEF EngineStarts, StickyInverse
  <2>7. IdsIssued' /\ SessionIsolation' /\ FreshUntilBound'
    BY <1>15, <2>1, <2>3, <2>4 DEF EngineStarts
  <2>8. RequestsWellFormed'
    BY <1>15, <2>1, <2>3, <2>4 DEF EngineStarts
  <2>9. QED
    BY <2>5, <2>6, <2>7, <2>8
<1>16. ASSUME NEW w \in Worlds, EngineRefuses(w) PROVE RouterInv'
  BY <1>16 DEF EngineRefuses, StickyInverse
<1>17. ASSUME NEW r \in Requests, LeaseGivesUp(r) PROVE RouterInv'
  BY <1>17 DEF LeaseGivesUp, Done, StickyInverse
<1>18. ASSUME NEW r \in Requests, EngineDestroyed(r) PROVE RouterInv'
  BY <1>18 DEF EngineDestroyed, Goto, StickyInverse
<1>19. ASSUME NEW r \in Requests, DestroyGivesUp(r) PROVE RouterInv'
  BY <1>19 DEF DestroyGivesUp, Done, StickyInverse
<1>20. QED
  BY <1>1, <1>2, <1>3, <1>4, <1>5, <1>6, <1>7, <1>8, <1>9, <1>10, <1>11, <1>12, <1>13, <1>14,
     <1>15, <1>16, <1>17, <1>18, <1>19
  DEF Next, Step

(* In every reachable state of the router the inductive invariant holds.   *)
THEOREM RouterSafe == Spec => []RouterInv
BY InitInv, NextInv, PTL DEF Spec

(* The sticky map of router/sticky.go stays its own inverse.               *)
THEOREM StickyInverseHolds == Spec => []StickyInverse
<1>1. RouterInv => StickyInverse
  BY DEF RouterInv
<1>2. QED
  BY <1>1, RouterSafe, PTL

(* handleLease never gives a session the world of another session.         *)
THEOREM SessionIsolationHolds == Spec => []SessionIsolation
<1>1. RouterInv => SessionIsolation
  BY DEF RouterInv
<1>2. QED
  BY <1>1, RouterSafe, PTL

(* What NeighboursKeepBinding says of one step.                            *)
BindingKept ==
  \A s \in Sessions :
    byS[s] \in live \ early /\ byS'[s] # byS[s]
      => RouterRestart \/ \E r \in Requests : req[r].session = s /\ req'[r] # req[r]

LEMMA BindingStep ==
  ASSUME RouterInv, Next
  PROVE  BindingKept
<1> USE RouterAssumption
    DEF BindingKept, RouterInv, TypeOK, RequestsWellFormed, At, Steps, mapVars, engineVars, Idle
<1>1. ASSUME NEW r \in Requests, StickyUnbind(r) PROVE BindingKept
  <2>1. \A s \in Sessions : byS'[s] # byS[s] => s = req[r].session
    BY <1>1 DEF StickyUnbind, UnbindSession
  <2>2. req'[r] # req[r]
    BY <1>1 DEF StickyUnbind, Goto
  <2>3. QED
    BY <2>1, <2>2
<1>2. ASSUME NEW r \in Requests, StickyBind(r) PROVE BindingKept
  <2>1. \A s \in Sessions : byW[req[r].world] # s
    BY <1>2 DEF StickyBind, FreshUntilBound, IdsIssued, StickyInverse
  <2>2. \A s \in Sessions : byS'[s] # byS[s] => s = req[r].session
    BY <1>2, <2>1 DEF StickyBind, Bind
  <2>3. req'[r] # req[r]
    BY <1>2 DEF StickyBind, Done
  <2>4. QED
    BY <2>2, <2>3
<1>3. ASSUME NEW r \in Requests, StickyUnbindWorld(r) PROVE BindingKept
  <2>1. req[r].world \in Worlds \ (live \ early)
    BY <1>3 DEF StickyUnbindWorld, Over
  <2>2. \A s \in Sessions : byS'[s] # byS[s] => byS[s] = req[r].world
    BY <1>3, <2>1 DEF StickyUnbindWorld, UnbindWorld, StickyInverse
  <2>3. QED
    BY <2>1, <2>2
<1>4. CASE UNCHANGED byS
  BY <1>4
<1>5. QED
  BY <1>1, <1>2, <1>3, <1>4
  DEF Next, Step, LeaseArrives, DeleteArrives, StickyGet, EngineGet, EngineAvailable,
      EngineLease, EngineLeaseFails, EngineStarts, EngineRefuses, LeaseGivesUp,
      EngineDestroy, EngineDestroyed, DestroyGivesUp, EngineStops

(* No handler but the session's own changes its binding to a live world.   *)
THEOREM NeighboursKeepBindingHolds == Spec => NeighboursKeepBinding
<1>1. RouterInv /\ [Next]_vars => [BindingKept]_vars
  BY BindingStep
<1>2. QED
  BY <1>1, RouterSafe, PTL DEF Spec, NeighboursKeepBinding, BindingKept

(* What DeletedStaysUnbound says of one step.                              *)
StaysUnbound ==
  \A s \in Sessions :
    byS'[s] \in deleted' =>
      \/ byS[s] \in deleted /\ byS'[s] = byS[s]
      \/ byS'[s] \in known' \ known

LEMMA UnboundStep ==
  ASSUME RouterInv, [Next]_vars
  PROVE  StaysUnbound
<1> USE RouterAssumption DEF StaysUnbound, mapVars, engineVars
<1> TypeOK /\ StickyInverse
  BY DEF RouterInv
<1>1. ASSUME NEW r \in Requests, StickyUnbind(r) PROVE StaysUnbound
  <2>1. req[r].session \in Sessions
    BY <1>1 DEF StickyUnbind, At, RouterInv, RequestsWellFormed
  <2>2. \A s \in Sessions : byS'[s] \in {byS[s], None}
    BY <1>1, <2>1, UnbindSessionInverse DEF StickyUnbind
  <2>3. deleted' = deleted /\ None \notin deleted
    BY <1>1 DEF StickyUnbind, TypeOK
  <2>4. QED
    BY <2>2, <2>3
<1>2. ASSUME NEW r \in Requests, StickyBind(r) PROVE StaysUnbound
  <2>1. deleted' = deleted /\ None \notin deleted
    BY <1>2 DEF StickyBind, TypeOK
  <2>2. req[r].world \in Worlds /\ req[r].world \notin known /\ req[r].world \in known'
    BY <1>2 DEF StickyBind, At, RouterInv, RequestsWellFormed, FreshUntilBound
  <2>3. CASE req[r].session = None
    BY <1>2, <2>1, <2>3 DEF StickyBind
  <2>4. CASE req[r].session # None
    <3>1. req[r].session \in Sessions
      BY <2>4 DEF TypeOK
    <3>2. Bind(req[r].session, req[r].world)
      BY <1>2, <2>4 DEF StickyBind
    <3>3. \A t \in Sessions : byS'[t] \in {byS[t], None, req[r].world}
      BY <2>2, <3>1, <3>2, BindInverse
    <3>4. QED
      BY <2>1, <2>2, <3>3
  <2>5. QED
    BY <2>3, <2>4
<1>3. ASSUME NEW r \in Requests, StickyUnbindWorld(r) PROVE StaysUnbound
  <2>1. req[r].world \in Worlds
    BY <1>3 DEF StickyUnbindWorld, At, RouterInv, RequestsWellFormed
  <2>2. \A s \in Sessions : byS'[s] \in {byS[s], None} /\ byS'[s] # req[r].world
    BY <1>3, <2>1, UnbindWorldInverse DEF StickyUnbindWorld
  <2>3. deleted' = deleted \cup {req[r].world} /\ None \notin deleted'
    BY <1>3, <2>1 DEF StickyUnbindWorld, TypeOK
  <2>4. QED
    BY <2>2, <2>3
<1>4. CASE RouterRestart
  BY <1>4 DEF RouterRestart, TypeOK
<1>5. CASE UNCHANGED <<byS, deleted>>
  BY <1>5
<1>6. QED
  BY <1>1, <1>2, <1>3, <1>4, <1>5
  DEF Next, Step, vars, LeaseArrives, DeleteArrives, StickyGet, EngineGet, EngineAvailable,
      EngineLease, EngineLeaseFails, EngineStarts, EngineRefuses, LeaseGivesUp,
      EngineDestroy, EngineDestroyed, DestroyGivesUp, EngineStops

(* handleDelete destroys, then unbinds: only the lease that the deletion    *)
(* has overtaken binds a world whose deletion was answered.                 *)
THEOREM DeletedStaysUnboundHolds == Spec => DeletedStaysUnbound
<1>1. RouterInv /\ [Next]_vars => [StaysUnbound]_vars
  BY UnboundStep
<1>2. QED
  BY <1>1, RouterSafe, PTL DEF Spec, DeletedStaysUnbound, StaysUnbound
=============================================================================
