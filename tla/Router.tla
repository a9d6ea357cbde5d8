------------------------------- MODULE Router -------------------------------
(***************************************************************************)
(* The session router (router/server.go, router/sticky.go,                 *)
(* router/engine.go): a stateless HTTP facade but for the sticky map from  *)
(* session to world.                                                       *)
(*                                                                         *)
(* Every method of StickyMap holds its mutex, so each is atomic; a handler *)
(* calls them, and lot-boss over HTTP, one after the other, and handlers   *)
(* run concurrently.  A request is therefore a small process: req[r].step  *)
(* names the next call it makes, or the answer it waits for.               *)
(*   lease:   lookup -> get -> unbind -> avail -> lease -> leasing -> bind *)
(*   delete:  destroy -> destroying -> unbindWorld                         *)
(* Calls that only forward to lot-boss (get, heartbeat, exec, network,     *)
(* events) touch no state of the router; Fleet has them.                   *)
(*                                                                         *)
(* lot-boss is an external service here: the worlds it boots and the ones  *)
(* it holds.  It works on a lease or a destroy to the end, also when the   *)
(* router has given up waiting: neither looks at the request's context.    *)
(* Fleet puts LotBoss in its place and shows that it is such a service.    *)
(*                                                                         *)
(* A client may ask for the deletion of any id: lot-boss lists a world as  *)
(* soon as it has a slot, and the desk has events of it before that.       *)
(***************************************************************************)
EXTENDS Naturals, FiniteSets

CONSTANTS
  Requests,      \* handler goroutines: the requests handled at one time
  Sessions,      \* session ids
  Worlds,        \* ids lot-boss may give to worlds, each once
  EngineFaults,  \* TRUE: calls to lot-boss may fail or time out, before or after it acts
  Restarts,      \* TRUE: lot-boss and the router may restart
  None           \* no session, no world

ASSUME RouterAssumption ==
  /\ None \notin Sessions \cup Worlds
  /\ EngineFaults \in BOOLEAN
  /\ Restarts \in BOOLEAN

VARIABLES
  byS,       \* StickyMap.byS: session -> world, None when absent
  byW,       \* StickyMap.byW: world -> session, None when absent
  booting,   \* the worlds lot-boss is starting
  live,      \* the worlds lot-boss holds
  issued,    \* the ids lot-boss has taken for worlds
  leasedTo,  \* history: the session each world was leased for
  known,     \* history: the worlds whose ids the router has told someone
  deleted,   \* history: the worlds whose deletion was answered with success
  early,     \* history: the worlds lot-boss was to destroy before they had a slot
  req        \* the requests being handled

mapVars == <<byS, byW>>
engineVars == <<booting, live, issued>>
vars == <<mapVars, engineVars, leasedTo, known, deleted, early, req>>

Idle == [step |-> "done", session |-> None, world |-> None]
Done(r) == [req EXCEPT ![r] = Idle]
Goto(r, step) == [req EXCEPT ![r].step = step]
At(r, step) == req[r].step = step
Awaits(r, w) == At(r, "leasing") /\ req[r].world = w
Over(w) == w \in issued \ (booting \cup live)
-----------------------------------------------------------------------------
(* StickyMap.Bind *)
Bind(s, w) ==
  /\ byS' = [t \in Sessions |-> IF t = s THEN w ELSE IF byW[w] = t THEN None ELSE byS[t]]
  /\ byW' = [v \in Worlds |-> IF v = w THEN s ELSE IF byS[s] = v THEN None ELSE byW[v]]

(* StickyMap.UnbindWorld *)
UnbindWorld_OneSided(w) ==
  /\ byW' = [byW EXCEPT ![w] = None]
  /\ UNCHANGED byS

UnbindWorld(w) ==
  /\ byS' = [s \in Sessions |-> IF byW[w] = s THEN None ELSE byS[s]]
  /\ byW' = [byW EXCEPT ![w] = None]

(* StickyMap.UnbindSession *)
UnbindSession(s) ==
  /\ byW' = [w \in Worlds |-> IF byS[s] = w THEN None ELSE byW[w]]
  /\ byS' = [byS EXCEPT ![s] = None]
-----------------------------------------------------------------------------
Init ==
  /\ byS = [s \in Sessions |-> None]
  /\ byW = [w \in Worlds |-> None]
  /\ booting = {}
  /\ live = {}
  /\ issued = {}
  /\ leasedTo = [w \in Worlds |-> None]
  /\ known = {}
  /\ deleted = {}
  /\ early = {}
  /\ req = [r \in Requests |-> Idle]

(***************************************************************************)
(* handleLease: a request of session s, or of none.                        *)
(***************************************************************************)
LeaseArrives(r, s) ==
  /\ At(r, "done")
  /\ req' = [req EXCEPT ![r] =
       [step |-> IF s = None THEN "avail" ELSE "lookup", session |-> s, world |-> None]]
  /\ UNCHANGED <<mapVars, engineVars, leasedTo, known, deleted, early>>

(* Sticky.Get *)
StickyGet(r) ==
  /\ At(r, "lookup")
  /\ LET w == byS[req[r].session]
     IN req' = [req EXCEPT ![r].step = IF w = None THEN "avail" ELSE "get", ![r].world = w]
  /\ UNCHANGED <<mapVars, engineVars, leasedTo, known, deleted, early>>

(* Engine.Get: a live world is the answer; any error drops the binding. *)
EngineGet(r) ==
  /\ At(r, "get")
  /\ \/ /\ req[r].world \in live
        /\ req' = Done(r)
        /\ known' = known \cup {req[r].world}
     \/ /\ req[r].world \notin live \/ EngineFaults
        /\ req' = [req EXCEPT ![r].step = "unbind", ![r].world = None]
        /\ UNCHANGED known
  /\ UNCHANGED <<mapVars, engineVars, leasedTo, deleted, early>>

StickyUnbind(r) ==
  /\ At(r, "unbind")
  /\ UnbindSession(req[r].session)
  /\ req' = Goto(r, "avail")
  /\ UNCHANGED <<engineVars, leasedTo, known, deleted, early>>

(* Engine.Available, false answers 503 *)
EngineAvailable(r) ==
  /\ At(r, "avail")
  /\ req' = Goto(r, "lease") \/ req' = Done(r)
  /\ UNCHANGED <<mapVars, engineVars, leasedTo, known, deleted, early>>

(***************************************************************************)
(* Engine.Lease: lot-boss takes a fresh id and boots a world, or refuses   *)
(* at once (cap, shutdown).                                                *)
(***************************************************************************)
EngineLease_ReusesIds(r, w) ==
  /\ At(r, "lease")
  /\ w \notin booting \cup live
  /\ issued' = issued \cup {w}
  /\ booting' = booting \cup {w}
  /\ leasedTo' = [leasedTo EXCEPT ![w] = req[r].session]
  /\ req' = [req EXCEPT ![r].step = "leasing", ![r].world = w]
  /\ UNCHANGED <<mapVars, live, known, deleted, early>>

EngineLease(r, w) ==
  /\ At(r, "lease")
  /\ w \notin issued
  /\ issued' = issued \cup {w}
  /\ booting' = booting \cup {w}
  /\ leasedTo' = [leasedTo EXCEPT ![w] = req[r].session]
  /\ req' = [req EXCEPT ![r].step = "leasing", ![r].world = w]
  /\ UNCHANGED <<mapVars, live, known, deleted, early>>

EngineLeaseFails(r) ==
  /\ At(r, "lease")
  /\ req' = Done(r)
  /\ UNCHANGED <<mapVars, engineVars, leasedTo, known, deleted, early>>

(* The world is up, or refused; the handler that still waits is told. *)
EngineStarts(w) ==
  /\ w \in booting
  /\ booting' = booting \ {w}
  /\ live' = live \cup {w}
  /\ req' = [r \in Requests |-> IF Awaits(r, w) THEN [req[r] EXCEPT !.step = "bind"] ELSE req[r]]
  /\ UNCHANGED <<mapVars, issued, leasedTo, known, deleted, early>>

EngineRefuses(w) ==
  /\ w \in booting
  /\ booting' = booting \ {w}
  /\ req' = [r \in Requests |-> IF Awaits(r, w) THEN Idle ELSE req[r]]
  /\ UNCHANGED <<mapVars, live, issued, leasedTo, known, deleted, early>>

(* The client's timeout, or a broken connection: 503. *)
LeaseGivesUp(r) ==
  /\ EngineFaults
  /\ At(r, "leasing")
  /\ req' = Done(r)
  /\ UNCHANGED <<mapVars, engineVars, leasedTo, known, deleted, early>>

(* Sticky.Bind, when the request has a session, and the answer 201 *)
StickyBind(r) ==
  /\ At(r, "bind")
  /\ IF req[r].session = None
     THEN UNCHANGED mapVars
     ELSE Bind(req[r].session, req[r].world)
  /\ req' = Done(r)
  /\ known' = known \cup {req[r].world}
  /\ UNCHANGED <<engineVars, leasedTo, deleted, early>>

(***************************************************************************)
(* handleDelete: Engine.Destroy, for which "not found" is success, and     *)
(* after it, only then, the binding.                                       *)
(***************************************************************************)
DeleteArrives_UnbindsFirst(r, w) ==
  /\ At(r, "done")
  /\ UnbindWorld(w)
  /\ req' = [req EXCEPT ![r] = [step |-> "destroy", session |-> None, world |-> w]]
  /\ UNCHANGED <<engineVars, leasedTo, known, deleted, early>>

DeleteArrives(r, w) ==
  /\ At(r, "done")
  /\ req' = [req EXCEPT ![r] = [step |-> "destroy", session |-> None, world |-> w]]
  /\ UNCHANGED <<mapVars, engineVars, leasedTo, known, deleted, early>>

(* lot-boss takes the world out of its map and stops it, or has no such world. *)
EngineDestroy(r) ==
  /\ At(r, "destroy")
  /\ live' = live \ {req[r].world}
  /\ req' = Goto(r, IF req[r].world \in live THEN "destroying" ELSE "unbindWorld")
  /\ early' = IF Over(req[r].world) \/ req[r].world \in live THEN early ELSE early \cup {req[r].world}
  /\ UNCHANGED <<mapVars, booting, issued, leasedTo, known, deleted>>

EngineDestroyed(r) ==
  /\ At(r, "destroying")
  /\ req' = Goto(r, "unbindWorld")
  /\ UNCHANGED <<mapVars, engineVars, leasedTo, known, deleted, early>>

DestroyGivesUp(r) ==
  /\ EngineFaults
  /\ At(r, "destroy") \/ At(r, "destroying")
  /\ req' = Done(r)
  /\ UNCHANGED <<mapVars, engineVars, leasedTo, known, deleted, early>>

StickyUnbindWorld(r) ==
  /\ At(r, "unbindWorld")
  /\ UnbindWorld(req[r].world)
  /\ req' = Done(r)
  /\ deleted' = deleted \cup {req[r].world}
  /\ UNCHANGED <<engineVars, leasedTo, known, early>>

(***************************************************************************)
(* lot-boss destroys its worlds one after the other when it goes down.     *)
(* The router loses the sticky map, which is only in memory, and the       *)
(* requests it was handling.                                               *)
(***************************************************************************)
EngineStops(w) ==
  /\ Restarts
  /\ w \in live
  /\ live' = live \ {w}
  /\ UNCHANGED <<mapVars, booting, issued, leasedTo, known, deleted, early, req>>

RouterRestart ==
  /\ Restarts
  /\ byS' = [s \in Sessions |-> None]
  /\ byW' = [w \in Worlds |-> None]
  /\ req' = [r \in Requests |-> Idle]
  /\ UNCHANGED <<engineVars, leasedTo, known, deleted, early>>

Step(r) ==
  \/ StickyGet(r) \/ EngineGet(r) \/ StickyUnbind(r) \/ EngineAvailable(r)
  \/ EngineLeaseFails(r) \/ LeaseGivesUp(r) \/ \E w \in Worlds : EngineLease(r, w)
  \/ StickyBind(r)
  \/ EngineDestroy(r) \/ EngineDestroyed(r) \/ DestroyGivesUp(r) \/ StickyUnbindWorld(r)

Next ==
  \/ \E r \in Requests :
       \/ \E s \in Sessions \cup {None} : LeaseArrives(r, s)
       \/ \E w \in Worlds : DeleteArrives(r, w)
       \/ Step(r)
  \/ \E w \in Worlds : EngineStarts(w) \/ EngineRefuses(w) \/ EngineStops(w)
  \/ RouterRestart

Spec == Init /\ [][Next]_vars
-----------------------------------------------------------------------------
Steps == {"lookup", "get", "unbind", "avail", "lease", "leasing", "bind",
          "destroy", "destroying", "unbindWorld", "done"}

(* The types of the sticky map, of lot-boss and of the requests. *)
TypeOK ==
  /\ byS \in [Sessions -> Worlds \cup {None}]
  /\ byW \in [Worlds -> Sessions \cup {None}]
  /\ booting \in SUBSET Worlds
  /\ live \in SUBSET Worlds
  /\ issued \in SUBSET Worlds
  /\ leasedTo \in [Worlds -> Sessions \cup {None}]
  /\ known \in SUBSET Worlds
  /\ deleted \in SUBSET Worlds
  /\ early \in SUBSET Worlds
  /\ req \in [Requests -> [step : Steps, session : Sessions \cup {None}, world : Worlds \cup {None}]]

(* sticky.go keeps the map in two directions: they are inverse to each      *)
(* other after any interleaving of Bind, UnbindWorld and UnbindSession.     *)
StickyInverse ==
  \A s \in Sessions, w \in Worlds : byS[s] = w <=> byW[w] = s

(* A session is only ever bound to, and only ever answered with, a world    *)
(* that was leased for it: no interleaving of handlers hands one session    *)
(* the world of another.                                                    *)
SessionIsolation ==
  /\ \A s \in Sessions : byS[s] # None => leasedTo[byS[s]] = s
  /\ \A r \in Requests :
       req[r].session # None /\ req[r].world # None
         => leasedTo[req[r].world] = req[r].session

(* handleDelete unbinds after it has destroyed: no step leaves a session    *)
(* bound to a world whose deletion was answered with success, but for the   *)
(* answer to the very lease, which the deletion has overtaken between the   *)
(* slot in lot-boss and the Bind.                                           *)
DeletedStaysUnbound ==
  [][\A s \in Sessions :
       byS'[s] \in deleted' =>
         \/ byS[s] \in deleted /\ byS'[s] = byS[s]
         \/ byS'[s] \in known' \ known]_vars

(* The binding of a session to a live world is changed only by requests of  *)
(* that session, never by those of its neighbours or by a deletion: one     *)
(* that has not reached lot-boss leaves it, unless it asked for the world   *)
(* before the world had its slot.                                           *)
NeighboursKeepBinding ==
  [][\A s \in Sessions :
       byS[s] \in live \ early /\ byS'[s] # byS[s]
         => RouterRestart \/ \E r \in Requests : req[r].session = s /\ req'[r] # req[r]]_vars
-----------------------------------------------------------------------------
(* A request that is about to use a session or a world has one; a world     *)
(* about to be unbound is over, or was asked for too early; one about to be *)
(* bound has booted.                                                        *)
RequestsWellFormed ==
  \A r \in Requests :
    /\ req[r].step \in {"lookup", "get", "unbind"} => req[r].session \in Sessions
    /\ req[r].step \in {"get", "leasing", "bind", "destroy", "destroying", "unbindWorld"}
         => req[r].world \in Worlds
    /\ At(r, "get") => req[r].world \in known
    /\ req[r].step \in {"destroy", "destroying", "unbindWorld"} => req[r].session = None
    /\ At(r, "destroying") => Over(req[r].world)
    /\ At(r, "unbindWorld") => Over(req[r].world) \/ req[r].world \in early
    /\ At(r, "bind") => req[r].world \notin booting

(* lot-boss has every id the router holds or has told; one that boots was   *)
(* not told to anybody.                                                     *)
IdsIssued ==
  /\ \A s \in Sessions : byS[s] # None => byS[s] \in known
  /\ \A r \in Requests : req[r].session # None /\ req[r].world # None => req[r].world \in issued
  /\ \A r \in Requests : req[r].step \in {"leasing", "bind"} => req[r].world \in issued
  /\ booting \cup live \cup known \subseteq issued
  /\ booting \cap (known \cup live) = {}
  /\ \A w \in deleted : Over(w) \/ w \in early

(* Until handleLease binds the world it was given, no other handler answers *)
(* a lease with it.                                                         *)
FreshUntilBound ==
  \A r \in Requests : req[r].step \in {"leasing", "bind"} =>
    /\ req[r].world \notin known
    /\ \A q \in Requests \ {r} : req[q].step \in {"leasing", "bind"} => req[q].world # req[r].world

(* The inductive invariant behind the safety theorems: in particular, a     *)
(* world handleLease is about to bind is still private to that handler.     *)
RouterInv ==
  /\ TypeOK
  /\ RequestsWellFormed
  /\ IdsIssued
  /\ FreshUntilBound
  /\ StickyInverse
  /\ SessionIsolation
=============================================================================
