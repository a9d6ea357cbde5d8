------------------------------- MODULE Fleet --------------------------------
(***************************************************************************)
(* The router and lot-boss together: the handlers of Router, with LotBoss  *)
(* in place of the abstract engine, and the handlers that only forward a   *)
(* client's call to lot-boss (router/server.go, router/engine.go).         *)
(*                                                                         *)
(* A call from the router is handled in lot-boss by a goroutine of its     *)
(* own, which goes on when the router's 60 s client has given up.  The     *)
(* call reaches lot-boss before its caller gives up, or never.             *)
(*                                                                         *)
(* Execs, which lot-boss treats as a heartbeat and a call into the guest,  *)
(* are in LotBoss and EventPath only.                                      *)
(***************************************************************************)
EXTENDS Integers, FiniteSets, Sequences

CONSTANTS
  Requests, Sessions, None,                 \* of Router
  Worlds, MaxWorlds, TTLInputs, BadTTL, DefaultTTL, MaxIdle,
  Networks, APIFaults, DeskFaults, NoWorld,  \* of LotBoss
  Restarts  \* TRUE: lot-boss may be told to stop, and the router may restart

(* What Router and LotBoss assume of them. *)
ASSUME FleetAssumption ==
  /\ None \notin Sessions \cup Worlds
  /\ IsFiniteSet(Worlds)
  /\ NoWorld \notin Worlds
  /\ MaxWorlds \in Nat \ {0}
  /\ TTLInputs \subseteq Int \cup {BadTTL}
  /\ BadTTL \notin Int
  /\ DefaultTTL \in Nat \ {0}
  /\ MaxIdle \in Nat
  /\ Networks \subseteq {"dark", "proxy"}
  /\ APIFaults \subseteq {"refused", "lost"}
  /\ DeskFaults \in BOOLEAN
  /\ Restarts \in BOOLEAN

VARIABLES
  byS, byW, leasedTo, known, deleted, early, req,  \* of Router
  phase, vmm, cid, nextCID, paused, idle, ttl, network,
  stopping, stopSet, toStop, closing, exited, deskLog, late,  \* of LotBoss
  abandoned  \* history: worlds whose lease nobody waited for any more

Lot == INSTANCE LotBoss WITH Execs <- {}, exec <- <<>>

(***************************************************************************)
(* The engine of Router, seen in lot-boss: an id is taken when Lease       *)
(* begins, the world boots until Lease takes the mutex again, and it is    *)
(* live while its slot is in the map.                                      *)
(***************************************************************************)
R == INSTANCE Router WITH
  EngineFaults <- TRUE,
  Restarts <- TRUE,
  booting <- {w \in Worlds : phase[w] \in {"starting", "started"}},
  live <- Lot!Slots,
  issued <- {w \in Worlds : phase[w] # "unused"}

routerVars == <<byS, byW, leasedTo, known, deleted, early, req, abandoned>>
lotVars == <<phase, vmm, cid, nextCID, paused, idle, ttl, network,
             stopping, stopSet, toStop, closing, exited, deskLog, late>>
vars == <<routerVars, lotVars>>

At(r, step) == req[r].step = step
Awaits(r, w) == At(r, "leasing") /\ req[r].world = w
Destroys(r, w) == At(r, "destroying") /\ req[r].world = w
Unanswered == {req[r].world : r \in {q \in Requests : req[q].step \in {"leasing", "bind"}}}
-----------------------------------------------------------------------------
Init ==
  /\ Lot!Init
  /\ byS = [s \in Sessions |-> None]
  /\ byW = [w \in Worlds |-> None]
  /\ leasedTo = [w \in Worlds |-> None]
  /\ known = {}
  /\ deleted = {}
  /\ early = {}
  /\ req = [r \in Requests |-> R!Idle]
  /\ abandoned = {}

(* What a handler does without lot-boss. *)
RouterLocal(r) ==
  /\ UNCHANGED <<lotVars, abandoned>>
  /\ \/ \E s \in Sessions \cup {None} : R!LeaseArrives(r, s)
     \/ \E w \in Worlds : R!DeleteArrives(r, w)
     \/ R!StickyGet(r) \/ R!StickyUnbind(r) \/ R!StickyBind(r) \/ R!StickyUnbindWorld(r)
     \/ R!EngineAvailable(r)

(* Engine.Get and lot-boss's handleGet: found, not found, or no answer. *)
Get(r) ==
  /\ At(r, "get")
  /\ \/ /\ ~exited /\ req[r].world \in Lot!Slots
        /\ req' = R!Done(r)
        /\ known' = known \cup {req[r].world}
     \/ /\ req' = [req EXCEPT ![r].step = "unbind", ![r].world = None]
        /\ UNCHANGED known
  /\ UNCHANGED <<lotVars, byS, byW, leasedTo, deleted, early, abandoned>>

(***************************************************************************)
(* Engine.Lease: lot-boss's Lease begins, or refuses at once.              *)
(***************************************************************************)
Lease_AnswersEarly(r, w) ==
  /\ At(r, "lease")
  /\ Lot!LeaseBegin(w)
  /\ leasedTo' = [leasedTo EXCEPT ![w] = req[r].session]
  /\ req' = [req EXCEPT ![r].step = "bind", ![r].world = w]
  /\ UNCHANGED <<byS, byW, known, deleted, early, abandoned>>

Lease(r, w) ==
  /\ At(r, "lease")
  /\ Lot!LeaseBegin(w)
  /\ leasedTo' = [leasedTo EXCEPT ![w] = req[r].session]
  /\ req' = [req EXCEPT ![r].step = "leasing", ![r].world = w]
  /\ UNCHANGED <<byS, byW, known, deleted, early, abandoned>>

LeaseRefusedAtOnce(r) ==
  /\ At(r, "lease")
  /\ req' = R!Done(r)
  /\ UNCHANGED <<lotVars, byS, byW, leasedTo, known, deleted, early, abandoned>>

(* Lease returns in lot-boss; the handler that still waits is answered. *)
Starting(w) ==
  /\ Lot!StartVMM(w) \/ Lot!StartReturns(w)
  /\ UNCHANGED routerVars

LeaseSucceeds_RefusesLate(w) ==
  /\ \E s \in TTLInputs : Lot!LeaseInsert(w, s)
  /\ req' = [r \in Requests |-> IF ~Awaits(r, w) THEN req[r]
                               ELSE IF stopping THEN R!Idle ELSE [req[r] EXCEPT !.step = "bind"]]
  /\ UNCHANGED <<byS, byW, leasedTo, known, deleted, early, abandoned>>

LeaseSucceeds(w) ==
  /\ \E s \in TTLInputs : Lot!LeaseInsert(w, s)
  /\ req' = [r \in Requests |-> IF Awaits(r, w) THEN [req[r] EXCEPT !.step = "bind"] ELSE req[r]]
  /\ UNCHANGED <<byS, byW, leasedTo, known, deleted, early, abandoned>>

LeaseFails(w) ==
  /\ Lot!StartFails(w) \/ Lot!LeaseRefused(w)
  /\ req' = [r \in Requests |-> IF Awaits(r, w) THEN R!Idle ELSE req[r]]
  /\ UNCHANGED <<byS, byW, leasedTo, known, deleted, early, abandoned>>

(***************************************************************************)
(* Engine.Destroy: lot-boss's Destroy takes the slot, or has none.         *)
(***************************************************************************)
Destroy(r) ==
  /\ At(r, "destroy")
  /\ Lot!DestroyBegin(req[r].world)
  /\ req' = R!Goto(r, "destroying")
  /\ UNCHANGED <<byS, byW, leasedTo, known, deleted, early, abandoned>>

DestroyNotFound(r) ==
  /\ At(r, "destroy")
  /\ ~exited /\ req[r].world \notin Lot!Slots
  /\ req' = R!Goto(r, "unbindWorld")
  /\ early' = IF R!Over(req[r].world) THEN early ELSE early \cup {req[r].world}
  /\ UNCHANGED <<lotVars, byS, byW, leasedTo, known, deleted, abandoned>>

DestroyReturns(w) ==
  /\ Lot!DestroyTells(w)
  /\ req' = [r \in Requests |-> IF Destroys(r, w) THEN [req[r] EXCEPT !.step = "unbindWorld"] ELSE req[r]]
  /\ UNCHANGED <<byS, byW, leasedTo, known, deleted, early, abandoned>>

(***************************************************************************)
(* The client's timeout, or a connection that lot-boss's exit broke: the   *)
(* router answers 503 and lot-boss goes on with what it had begun.         *)
(***************************************************************************)
GivesUp(r) ==
  /\ req[r].step \in {"leasing", "destroy", "destroying"}
  /\ req' = R!Done(r)
  /\ abandoned' = IF At(r, "leasing") THEN abandoned \cup {req[r].world} ELSE abandoned
  /\ UNCHANGED <<lotVars, byS, byW, leasedTo, known, deleted, early>>

RouterRestart ==
  /\ Restarts
  /\ UNCHANGED lotVars
  /\ R!RouterRestart
  /\ abandoned' = abandoned \cup Unanswered

(***************************************************************************)
(* handleHeartbeat, handleNetwork: a client's call for any id, forwarded;  *)
(* for a world that is not there lot-boss answers 404 and nothing changes. *)
(***************************************************************************)
Heartbeat(w) ==
  /\ Lot!Heartbeat(w)
  /\ UNCHANGED routerVars

SetNetwork(w) ==
  /\ \E n \in Networks : Lot!SetNetwork(w, n)
  /\ UNCHANGED routerVars

(* What lot-boss does by itself. *)
LotLocal ==
  /\ \/ Lot!PauseTick \/ Lot!Tick
     \/ Restarts /\ Lot!StopAllBegin
     \/ Lot!Exit
     \/ \E w \in Worlds :
          Lot!StopAllDestroys(w) \/ Lot!DestroyStop(w) \/ Lot!LateCommit(w) \/ Lot!VMMDies(w)
  /\ UNCHANGED routerVars

Next ==
  \/ \E r \in Requests :
       \/ RouterLocal(r)
       \/ Get(r)
       \/ \E w \in Worlds : Lease(r, w)
       \/ LeaseRefusedAtOnce(r)
       \/ Destroy(r) \/ DestroyNotFound(r)
       \/ GivesUp(r)
  \/ \E w \in Worlds :
       \/ Starting(w) \/ LeaseSucceeds(w) \/ LeaseFails(w)
       \/ DestroyReturns(w)
       \/ Heartbeat(w) \/ SetNetwork(w)
  \/ LotLocal
  \/ RouterRestart

Spec == Init /\ [][Next]_vars
-----------------------------------------------------------------------------
(* lot-boss is the engine the router's proofs suppose: ids are fresh, only  *)
(* a deletion or a shutdown takes a world away, a world that is gone stays  *)
(* gone, and a handler is answered for its own call.                        *)
FleetImplementsRouter == R!Spec

(* A slot is never lost to clients: someone knows the id or is about to be  *)
(* told, unless the router gave up or restarted while lot-boss worked on    *)
(* the lease.                                                               *)
SlotsAccountedFor == Lot!Slots \subseteq known \cup abandoned \cup Unanswered

(* An id is told to a client, and bound to a session, only once its world   *)
(* has had its slot: no answer runs ahead of Lease in lot-boss, whichever   *)
(* calls were given up and whoever asked for the deletion meanwhile.        *)
AnsweredHadSlot ==
  \A w \in known \cup {req[r].world : r \in {q \in Requests : At(q, "bind")}} :
    phase[w] \in Lot!Had

(* A deletion answered with success is one: the world has no slot, and its  *)
(* VMM is dead, or another Destroy call of the same world, whose removal of *)
(* the slot this one saw, is still stopping it, or lot-boss has exited.     *)
(* Only a deletion that was asked for before the world had a slot found     *)
(* nothing and was answered with success too.                               *)
DeletedIsGone ==
  \A w \in deleted \ early :
    /\ w \notin Lot!Slots
    /\ Lot!Alive(w) => phase[w] = "removed" \/ exited
=============================================================================
