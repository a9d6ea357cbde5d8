-------------------------- MODULE EventPathProofs ---------------------------
(***************************************************************************)
(* Proofs about EventPath, for every number of execs, overlapping or not,  *)
(* with short writes, over-long lines, failing appends, commits that fail  *)
(* or land late, and the destruction of the world.                         *)
(***************************************************************************)
EXTENDS EventPath, TLAPS

USE DEF GENESIS

Logging == {"start", "exec", "decoy_open", "exit"}

(* An exec's file is open while run.py logs and while forwardAudit sends.   *)
FilesOpen ==
  \A e \in Execs : step[e] \in Logging \cup {"send"} => fd[e] \in Execs

(* The audit files hold exec events only, and lot-boss alone writes         *)
(* world_start, to the desk.                                                *)
KindsInPlace ==
  /\ \A e \in Execs : \A i \in DOMAIN audit[e] : audit[e][i].kind \in Kinds
  /\ \A i \in DOMAIN wire : wire[i].kind # "world_start"
  /\ \A i \in DOMAIN host : host[i].kind # "world_start"

(* Before the slot no exec has begun, and none of its events is anywhere on *)
(* the way.                                                                 *)
QuietBeforeSlot ==
  lease \in {"started", "refused"} =>
    /\ \A e \in Execs : step[e] = "idle"
    /\ \A i \in DOMAIN wire : wire[i].kind \notin Kinds
    /\ \A i \in DOMAIN host : host[i].kind \notin Kinds
    /\ \A l \in late : l.kind \notin Kinds

(* What the way of a line needs, whatever the line says.                    *)
PathInv ==
  /\ TypeOK
  /\ FilesOpen
  /\ KindsInPlace
  /\ QuietBeforeSlot
  /\ StartBeforeExec

(* The emitter's numbers grow along the way, and a number that was          *)
(* committed or given up is older than all that are still to be committed.  *)
Grow(f) == \A i, j \in DOMAIN f : i < j => f[i].nr < f[j].nr

Older(l) ==
  /\ l.nr <= sent
  /\ \A j \in DOMAIN host : j > offset => l.nr < host[j].nr
  /\ \A j \in DOMAIN wire : l.nr < wire[j].nr

InOrder ==
  /\ \A i \in DOMAIN wire : wire[i].nr \in 1 .. sent
  /\ \A i \in DOMAIN host : host[i].nr \in 1 .. sent
  /\ Grow(wire)
  /\ Grow(host)
  /\ \A i \in DOMAIN host, j \in DOMAIN wire : host[i].nr < wire[j].nr
  /\ \A i \in DOMAIN desk : Older(desk[i])
  /\ \A l \in late : Older(l)

(* A number names one line.                                                 *)
OneLineEach ==
  \A l \in late : l.nr # 0 =>
    /\ \A m \in late : m.nr = l.nr => m = l
    /\ \A i \in DOMAIN desk : desk[i].nr = l.nr => desk[i] = l

FifoInv == PathInv /\ InOrder /\ OneLineEach
-----------------------------------------------------------------------------
(* WorldEvent makes a line without a number, but for runtime_up.           *)
LEMMA WorldEventLine ==
  ASSUME NEW kind \in {"runtime_up", "world_start", "world_stop"}
  PROVE  /\ WorldEvent(kind) \in Line
         /\ WorldEvent(kind).kind = kind /\ WorldEvent(kind).kind \notin Kinds
         /\ WorldEvent(kind).nr = IF kind = "runtime_up" THEN 1 ELSE 0
BY DEF WorldEvent, Line, Kinds

(* What Append does to the lines of a file.                                *)
LEMMA AppendLine ==
  ASSUME NEW f \in Seq(Line), NEW l \in Line
  PROVE  /\ Append(f, l) \in Seq(Line)
         /\ Len(Append(f, l)) = Len(f) + 1
         /\ DOMAIN Append(f, l) = 1 .. Len(f) + 1 /\ DOMAIN f = 1 .. Len(f)
         /\ Append(f, l)[Len(f) + 1] = l
         /\ \A i \in DOMAIN f : Append(f, l)[i] = f[i]
         /\ \A i \in DOMAIN Append(f, l) : Append(f, l)[i] = l \/ (i \in DOMAIN f /\ Append(f, l)[i] = f[i])
OBVIOUS

(* What Tail leaves of them.                                               *)
LEMMA TailLine ==
  ASSUME NEW f \in Seq(Line), f # <<>>
  PROVE  /\ Tail(f) \in Seq(Line)
         /\ Head(f) = f[1] /\ f[1] \in Line /\ 1 \in DOMAIN f
         /\ Len(Tail(f)) = Len(f) - 1
         /\ DOMAIN Tail(f) = 1 .. Len(f) - 1 /\ DOMAIN f = 1 .. Len(f)
         /\ \A i \in DOMAIN Tail(f) : i + 1 \in DOMAIN f /\ Tail(f)[i] = f[i + 1]
OBVIOUS

(* What a prefix keeps of them.                                            *)
LEMMA PrefixLine ==
  ASSUME NEW f \in Seq(Line), NEW n \in 0 .. Len(f)
  PROVE  /\ SubSeq(f, 1, n) \in Seq(Line)
         /\ Len(SubSeq(f, 1, n)) = n
         /\ DOMAIN SubSeq(f, 1, n) = 1 .. n /\ DOMAIN f = 1 .. Len(f)
         /\ \A i \in DOMAIN SubSeq(f, 1, n) : i \in DOMAIN f /\ SubSeq(f, 1, n)[i] = f[i]
OBVIOUS

(* What emit leaves of a line it spoils, and of the others.                *)
Same(k, l) == k.exec = l.exec /\ k.kind = l.kind /\ k.prev = l.prev /\ k.hash = l.hash

Whole(f) == \A i \in DOMAIN f : f[i].size \notin {"torn", "spoilt"}

(* What emit does to the lines of a file: one more, or its end is spoilt.  *)
LEMMA WrittenLine ==
  ASSUME NEW f \in Seq(Line), NEW l \in Line
  PROVE  /\ Written(f, l) \in Seq(Line)
         /\ \A i \in DOMAIN Written(f, l) :
              Written(f, l)[i] = l \/ (i \in DOMAIN f /\ Same(Written(f, l)[i], f[i]))
         /\ Whole(Written(f, l)) => Written(f, l) = Append(f, l) /\ Whole(f)
         /\ Written(f, l) # <<>>
<1>1. CASE f # <<>> /\ f[Len(f)].size = "torn"
  <2> DEFINE n == Len(f)
             s == IF l.size = "torn" THEN "torn" ELSE "spoilt"
             k == [f[n] EXCEPT !.size = s]
             g == [f EXCEPT ![n] = k]
  <2>1. n \in DOMAIN f /\ f[n] \in Line
    BY <1>1
  <2>2. k \in Line /\ Same(k, f[n]) /\ k.size \in {"torn", "spoilt"}
    BY <2>1 DEF Line, Same
  <2>3. Written(f, l) = g
    BY <1>1 DEF Written
  <2> HIDE DEF k
  <2>4. g \in Seq(Line) /\ DOMAIN g = DOMAIN f /\ g[n] = k /\ \A i \in DOMAIN f : i # n => g[i] = f[i]
    BY <2>1, <2>2
  <2> HIDE DEF g, n
  <2>5. \A i \in DOMAIN f : Same(f[i], f[i])
    BY DEF Same
  <2>6. ~Whole(g)
    BY <2>1, <2>2, <2>4 DEF Whole
  <2>7. g # <<>>
    BY <2>1, <2>4
  <2>8. \A i \in DOMAIN g : i \in DOMAIN f /\ Same(g[i], f[i])
    BY <2>2, <2>4, <2>5
  <2>9. QED
    BY <2>3, <2>4, <2>6, <2>7, <2>8
<1>2. CASE ~(f # <<>> /\ f[Len(f)].size = "torn")
  <2> DEFINE g == Append(f, l)
  <2>1. Written(f, l) = g
    BY <1>2 DEF Written
  <2>4. Len(f) \in Nat
    OBVIOUS
  <2>5. /\ g \in Seq(Line)
        /\ DOMAIN g = 1 .. Len(f) + 1 /\ DOMAIN f = 1 .. Len(f)
        /\ \A i \in DOMAIN f : g[i] = f[i]
        /\ \A i \in DOMAIN g : g[i] = l \/ (i \in DOMAIN f /\ g[i] = f[i])
    BY AppendLine
  <2> HIDE DEF g
  <2>2. /\ g \in Seq(Line) /\ g # <<>> /\ DOMAIN f \subseteq DOMAIN g
        /\ \A i \in DOMAIN f : g[i] = f[i]
        /\ \A i \in DOMAIN g : g[i] = l \/ (i \in DOMAIN f /\ g[i] = f[i])
    BY <2>4, <2>5
  <2> HIDE DEF g
  <2>3. QED
    BY <2>1, <2>2 DEF Whole, Same, g
<1>3. QED
  BY <1>1, <1>2

(* The initial state satisfies the invariant.                              *)
LEMMA InitFifo == Init => FifoInv
<1> SUFFICES ASSUME Init PROVE FifoInv
  OBVIOUS
<1>1. PathInv
  BY WorldEventLine, EventPathAssumption
     DEF Init, PathInv, TypeOK, ExecSteps, FilesOpen, Logging, KindsInPlace, QuietBeforeSlot, StartBeforeExec, Kinds
<1>2. InOrder /\ OneLineEach
  BY WorldEventLine DEF Init, InOrder, Grow, Older, OneLineEach
<1>3. QED
  BY <1>1, <1>2 DEF FifoInv
-----------------------------------------------------------------------------
(***************************************************************************)
(* What the actions that move lines do.                                    *)
(***************************************************************************)

(* emit writes one line, numbered next, to an audit file.                  *)
LEMMA EmitEffect ==
  ASSUME TypeOK, FilesOpen, NEW e \in Execs, RunLogs(e)
  PROVE  /\ fd[e] \in Execs
         /\ audit' \in [Execs -> Seq(Line)]
         /\ \E l \in Line :
              /\ audit'[fd[e]] = Written(audit[fd[e]], l)
              /\ l.exec = e /\ l.kind = step[e] /\ l.kind \in Kinds /\ l.prev = prev[e] /\ l.hash = emitted + 1
         /\ \A d \in Execs : d # fd[e] => audit'[d] = audit[d]
         /\ emitted' = emitted + 1
         /\ prev' = [prev EXCEPT ![e] = emitted + 1]
         /\ step[e] \in Logging
         /\ \E s \in {"exec", "decoy_open", "exit", "forward"} : step' = [step EXCEPT ![e] = s]
         /\ UNCHANGED <<overlapped, path, fd, pos, hostVars, bossVars>>
<1>1. PICK kind \in Logging, size \in {"short", "edge", "long", "torn"},
           next \in {"exec", "decoy_open", "exit", "forward"} : Emit(e, kind, size, next)
  BY EventPathAssumption DEF RunLogs, Cut, Logging
<1> DEFINE l == [exec |-> e, kind |-> kind, size |-> size, prev |-> prev[e], hash |-> emitted + 1, nr |-> 0]
<1>2. fd[e] \in Execs
  BY <1>1 DEF Emit, FilesOpen, Logging
<1>3. l \in Line /\ l.exec = e /\ l.kind = kind /\ l.kind \in Kinds /\ l.prev = prev[e] /\ l.hash = emitted + 1
  BY DEF Line, Kinds, Logging, TypeOK
<1>4. audit' = [audit EXCEPT ![fd[e]] = Written(audit[fd[e]], l)]
  BY <1>1 DEF Emit
<1> HIDE DEF l
<1>5. Written(audit[fd[e]], l) \in Seq(Line)
  BY <1>2, <1>3, WrittenLine DEF TypeOK
<1>6. /\ audit' \in [Execs -> Seq(Line)]
      /\ audit'[fd[e]] = Written(audit[fd[e]], l)
      /\ \A d \in Execs : d # fd[e] => audit'[d] = audit[d]
  BY <1>2, <1>4, <1>5 DEF TypeOK
<1>7. QED
  BY <1>1, <1>2, <1>3, <1>6 DEF Emit, Goto

(* forwardAudit sends the next line of its file, if anyone listens, with   *)
(* the next number; or it skips it.                                        *)
LEMMA ForwardEffect ==
  ASSUME TypeOK, FilesOpen, NEW e \in Execs, ForwardLine(e)
  PROVE  /\ fd[e] \in Execs
         /\ pos[e] + 1 \in DOMAIN audit[fd[e]] /\ audit[fd[e]][pos[e] + 1] \in Line
         /\ wire' \in Seq(Line) /\ sent' \in {sent, sent + 1}
         /\ \/ UNCHANGED <<sent, wire>> /\ audit[fd[e]][pos[e] + 1].size \in {"torn", "spoilt"}
            \/ UNCHANGED wire /\ sent' = sent + 1 /\ conn # "up"
            \/ \E k \in Line :
                 /\ wire' = Append(wire, k) /\ sent' = sent + 1
                 /\ Same(k, audit[fd[e]][pos[e] + 1]) /\ k.nr = sent + 1
<1>1. fd[e] \in Execs /\ audit[fd[e]] \in Seq(Line) /\ pos[e] \in Nat /\ pos[e] < Len(audit[fd[e]])
  BY DEF ForwardLine, FilesOpen, TypeOK
<1> DEFINE l == audit[fd[e]][pos[e] + 1]
           k == [l EXCEPT !.nr = sent + 1]
<1>2. pos[e] + 1 \in DOMAIN audit[fd[e]] /\ l \in Line
  BY <1>1
<1>3. wire \in Seq(Line) /\ sent \in Nat
  BY DEF TypeOK
<1>5. \/ UNCHANGED <<sent, wire>> /\ l.size \in {"torn", "spoilt"}
      \/ sent' = sent + 1 /\ wire' = IF conn = "up" THEN Append(wire, k) ELSE wire
  BY DEF ForwardLine, Send
<1> HIDE DEF l
<1>4. k \in Line /\ Same(k, l) /\ k.nr = sent + 1
  <2>1. sent + 1 \in Nat
    BY <1>3
  <2>2. QED
    BY <1>2, <2>1 DEF Line, Same
<1> HIDE DEF k
<1>6. Append(wire, k) \in Seq(Line)
  BY <1>3, <1>4, AppendLine
<1>7. QED
  BY <1>1, <1>2, <1>3, <1>4, <1>5, <1>6 DEF l

(* drainEvents moves the first line of the connection to events.jsonl, or  *)
(* ends the connection.                                                    *)
LEMMA DrainEffect ==
  ASSUME TypeOK, DrainEvents
  PROVE  /\ wire' \in Seq(Line) /\ host' \in Seq(Line)
         /\ \/ /\ host' = Append(host, wire[1])
               /\ wire # <<>> /\ wire' = Tail(wire)
               /\ 1 \in DOMAIN wire
               /\ UNCHANGED conn
            \/ /\ UNCHANGED host
               /\ wire' = <<>>
               /\ conn' = "broken"
         /\ \A i \in DOMAIN wire' : i + 1 \in DOMAIN wire /\ wire'[i] = wire[i + 1]
         /\ \A i \in DOMAIN host' :
              (i \in DOMAIN host /\ host'[i] = host[i])
                \/ (i = Len(host) + 1 /\ 1 \in DOMAIN wire /\ host'[i] = wire[1])
         /\ Len(host') \in {Len(host), Len(host) + 1}
<1>1. wire \in Seq(Line) /\ host \in Seq(Line) /\ wire # <<>>
  BY DEF TypeOK, DrainEvents
<1>2. wire[1] \in Line /\ 1 \in DOMAIN wire /\ Head(wire) = wire[1]
  BY <1>1, TailLine
<1>3. CASE host' = Append(host, Head(wire)) /\ wire' = Tail(wire) /\ UNCHANGED conn
  <2>1. /\ wire' \in Seq(Line)
        /\ \A i \in DOMAIN wire' : i + 1 \in DOMAIN wire /\ wire'[i] = wire[i + 1]
    BY <1>1, <1>3, TailLine
  <2>2. host' = Append(host, wire[1])
    BY <1>2, <1>3
  <2>3. host' \in Seq(Line) /\ DOMAIN host' = 1 .. Len(host) + 1 /\ DOMAIN host = 1 .. Len(host) /\ Len(host) \in Nat
        /\ Len(host') = Len(host) + 1
        /\ host'[Len(host) + 1] = wire[1] /\ \A i \in DOMAIN host : host'[i] = host[i]
    BY <1>1, <1>2, <2>2, AppendLine
  <2>4. \A i \in DOMAIN host' :
          (i \in DOMAIN host /\ host'[i] = host[i])
            \/ (i = Len(host) + 1 /\ 1 \in DOMAIN wire /\ host'[i] = wire[1])
    BY <1>2, <2>3
  <2>5. wire # <<>> /\ wire' = Tail(wire) /\ conn' = conn
    BY <1>1, <1>3
  <2> HIDE <1>1, <1>3
  <2>6. QED
    BY <1>2, <2>1, <2>2, <2>3, <2>4, <2>5
<1>4. CASE conn' = "broken" /\ wire' = <<>> /\ UNCHANGED host
  BY <1>1, <1>4
<1>5. QED
  BY <1>3, <1>4 DEF DrainEvents

(* One try to commit: the desk has the line, or the commit is given up.    *)
Tried(l) ==
  \/ desk' = Append(desk, l) /\ UNCHANGED late
  \/ late' = late \cup {l} /\ UNCHANGED desk

(* Everything that reaches the desk comes from the forwarder, from         *)
(* lot-boss, or from a commit that was given up.                           *)
LEMMA DeskEffect ==
  ASSUME TypeOK, Next
  PROVE  \/ UNCHANGED <<desk, late>>
         \/ CommitLine /\ offset + 1 \in DOMAIN host /\ host[offset + 1] \in Line /\ Tried(host[offset + 1])
         \/ LeaseInsert /\ Tried(WorldEvent("world_start"))
         \/ DestroyTells /\ Tried(WorldEvent("world_stop"))
         \/ /\ LateCommit /\ UNCHANGED late
            /\ \E l \in late : desk' = Append(desk, l) /\ \A i \in DOMAIN desk : desk[i] # l
<1>1. CASE CommitLine
  <2>1. offset + 1 \in DOMAIN host /\ host[offset + 1] \in Line
    BY <1>1 DEF CommitLine, TypeOK
  <2>2. QED
    BY <1>1, <2>1 DEF CommitLine, Commit, Tried
<1>2. CASE LeaseInsert
  BY <1>2 DEF LeaseInsert, CommitDesk, Commit, Tried
<1>3. CASE DestroyTells
  BY <1>3 DEF DestroyTells, CommitDesk, Commit, Tried
<1>4. CASE LateCommit
  BY <1>4 DEF LateCommit
<1>5. QED
  BY <1>1, <1>2, <1>3, <1>4
  DEF Next, ExecStep, RunLogs, HandleExec, TailHash, OpenLog, Emit, RunEndsEarly, ForwardOpen, ForwardLine, ForwardEnds,
      DrainEvents, DrainFile, LeaseRefused, DestroyCancel, ForwarderEnds, DestroyStop, bossVars, deskVars
-----------------------------------------------------------------------------
(* What one more line on the desk, or given up, does to them.              *)
LEMMA TriedType ==
  ASSUME TypeOK, NEW l \in Line, Tried(l)
  PROVE  /\ desk' \in Seq(Line) /\ late' \subseteq Line /\ late \subseteq late'
         /\ \A i \in DOMAIN desk' : desk'[i] = l \/ (i \in DOMAIN desk /\ desk'[i] = desk[i])
         /\ \A m \in late' : m = l \/ m \in late
<1>1. desk \in Seq(Line) /\ late \subseteq Line
  BY DEF TypeOK
<1>2. QED
  BY <1>1, AppendLine DEF Tried

LEMMA DeskType ==
  ASSUME TypeOK, Next
  PROVE  desk' \in Seq(Line) /\ late' \subseteq Line
<1>1. CASE UNCHANGED <<desk, late>>
  BY <1>1 DEF TypeOK
<1>2. ASSUME NEW l \in Line, Tried(l) PROVE desk' \in Seq(Line) /\ late' \subseteq Line
  BY <1>2, TriedType
<1>3. ASSUME NEW l \in late, desk' = Append(desk, l), UNCHANGED late PROVE desk' \in Seq(Line) /\ late' \subseteq Line
  BY <1>3, AppendLine DEF TypeOK
<1>4. QED
  BY <1>1, <1>2, <1>3, DeskEffect, WorldEventLine

(* Every step keeps the types.                                             *)
LEMMA NextType == TypeOK /\ FilesOpen /\ [Next]_vars => TypeOK'
<1> SUFFICES ASSUME TypeOK, FilesOpen, [Next]_vars PROVE TypeOK'
  OBVIOUS
<1> USE EventPathAssumption DEF auditVars, hostVars, bossVars, deskVars, Goto
<1>1. ASSUME NEW e \in Execs, HandleExec(e) PROVE TypeOK'
  BY <1>1 DEF HandleExec, Overlaps, Busy, TypeOK, ExecSteps
<1>2. ASSUME NEW e \in Execs, TailHash(e) PROVE TypeOK'
  <2> DEFINE f == IF path = NoFile THEN <<>> ELSE audit[path]
             h == IF f = <<>> THEN 0 ELSE f[Len(f)].hash
  <2>3. h \in Nat
    <3>1. CASE f # <<>>
      <4>1. f \in Seq(Line) /\ f # <<>>
        BY <3>1 DEF TypeOK
      <4>2. f[Len(f)] \in Line
        BY <4>1
      <4>3. QED
        BY <3>1, <4>2 DEF Line
    <3>2. QED
      BY <3>1
  <2>4. prev' = [prev EXCEPT ![e] = h]
    BY <1>2 DEF TailHash
  <2> HIDE DEF h
  <2>1. prev' \in [Execs -> Nat]
    BY <2>3, <2>4 DEF TypeOK
  <2>2. QED
    BY <1>2, <2>1 DEF TailHash, TypeOK, ExecSteps
<1>3. ASSUME NEW e \in Execs, OpenLog(e) PROVE TypeOK'
  BY <1>3 DEF OpenLog, TypeOK, ExecSteps
<1>4. ASSUME NEW e \in Execs, RunLogs(e) PROVE TypeOK'
  <2>1. /\ audit' \in [Execs -> Seq(Line)] /\ emitted' = emitted + 1 /\ prev' = [prev EXCEPT ![e] = emitted + 1]
        /\ UNCHANGED <<overlapped, path, fd, pos, hostVars, bossVars>>
    BY <1>4, EmitEffect
  <2>2. PICK s \in {"exec", "decoy_open", "exit", "forward"} : step' = [step EXCEPT ![e] = s]
    BY <1>4, EmitEffect
  <2>3. QED
    BY <2>1, <2>2 DEF TypeOK, ExecSteps
<1>5. ASSUME NEW e \in Execs, RunEndsEarly(e) PROVE TypeOK'
  BY <1>5 DEF RunEndsEarly, TypeOK, ExecSteps
<1>6. ASSUME NEW e \in Execs, ForwardOpen(e) PROVE TypeOK'
  <2>1. step' \in [Execs -> ExecSteps]
    BY <1>6 DEF ForwardOpen, TypeOK, ExecSteps
  <2>2. fd' \in [Execs -> Execs \cup {NoFile}]
    BY <1>6 DEF ForwardOpen, TypeOK
  <2>3. QED
    BY <1>6, <2>1, <2>2 DEF ForwardOpen, TypeOK
<1>7. ASSUME NEW e \in Execs, ForwardLine(e) PROVE TypeOK'
  <2>1. wire' \in Seq(Line) /\ sent' \in {sent, sent + 1}
    BY <1>7, ForwardEffect
  <2>2. sent' \in Nat /\ pos' \in [Execs -> Nat]
    <3>1. sent \in Nat /\ pos \in [Execs -> Nat]
      BY DEF TypeOK
    <3>2. pos' = [pos EXCEPT ![e] = @ + 1]
      BY <1>7 DEF ForwardLine
    <3> QED BY <2>1, <3>1, <3>2
  <2>3. UNCHANGED <<step, overlapped, path, audit, fd, prev, emitted, conn, host, bossVars>>
    BY <1>7 DEF ForwardLine
  <2>4. QED
    BY <2>1, <2>2, <2>3 DEF TypeOK
<1>8. ASSUME NEW e \in Execs, ForwardEnds(e) PROVE TypeOK'
  BY <1>8 DEF ForwardEnds, TypeOK, ExecSteps
<1>9. CASE DrainEvents
  <2>1. wire' \in Seq(Line) /\ host' \in Seq(Line) /\ Len(host') \in {Len(host), Len(host) + 1}
    BY <1>9, DrainEffect
  <2>2. target <= Len(host')
    BY <2>1 DEF TypeOK
  <2>3. conn' \in {"up", "broken"} /\ UNCHANGED <<step, overlapped, auditVars, sent, bossVars>>
    BY <1>9 DEF DrainEvents
  <2>4. QED
    BY <2>1, <2>2, <2>3 DEF TypeOK
<1>10. CASE DrainFile
  BY <1>10 DEF DrainFile, TypeOK
<1>11. CASE CommitLine
  <2>1. desk' \in Seq(Line) /\ late' \subseteq Line
    BY <1>11, DeskType DEF Next
  <2>2. QED
    BY <1>11, <2>1 DEF CommitLine, TypeOK
<1>12. CASE LeaseInsert
  <2>1. desk' \in Seq(Line) /\ late' \subseteq Line
    BY <1>12, DeskType DEF Next
  <2>2. QED
    BY <1>12, <2>1 DEF LeaseInsert, TypeOK
<1>13. CASE DestroyTells
  <2>1. desk' \in Seq(Line) /\ late' \subseteq Line
    BY <1>13, DeskType DEF Next
  <2>2. QED
    BY <1>13, <2>1 DEF DestroyTells, TypeOK
<1>14. CASE LeaseRefused \/ DestroyCancel \/ ForwarderEnds
  BY <1>14 DEF LeaseRefused, DestroyCancel, ForwarderEnds, TypeOK
<1>15. CASE DestroyStop
  <2>1. wire' \in Seq(Line)
    BY <1>15, PrefixLine DEF DestroyStop, TypeOK
  <2>2. QED
    BY <1>15, <2>1 DEF DestroyStop, Busy, TypeOK, ExecSteps
<1>16. CASE LateCommit
  <2>1. desk' \in Seq(Line) /\ late' \subseteq Line
    BY <1>16, DeskType DEF Next
  <2>2. QED
    BY <1>16, <2>1 DEF LateCommit, TypeOK
<1>17. CASE UNCHANGED vars
  BY <1>17 DEF vars, TypeOK
<1>18. QED
  BY <1>1, <1>2, <1>3, <1>4, <1>5, <1>6, <1>7, <1>8, <1>9, <1>10, <1>11, <1>12, <1>13, <1>14, <1>15, <1>16, <1>17
  DEF Next, ExecStep

(* OpenLog and ForwardOpen give an exec a file before it needs one.        *)
LEMMA NextFilesOpen == TypeOK /\ FilesOpen /\ [Next]_vars => FilesOpen'
<1> SUFFICES ASSUME TypeOK, FilesOpen, [Next]_vars PROVE FilesOpen'
  OBVIOUS
<1>0. ASSUME NEW e \in Execs, RunLogs(e)
      PROVE  /\ fd[e] \in Execs /\ UNCHANGED fd
             /\ \E s \in {"exec", "decoy_open", "exit", "forward"} : step' = [step EXCEPT ![e] = s]
  BY <1>0, EmitEffect
<1> USE DEF TypeOK, FilesOpen, Logging, auditVars, Goto
<1>1. ASSUME NEW e \in Execs, HandleExec(e) \/ TailHash(e) \/ OpenLog(e) \/ RunEndsEarly(e) PROVE FilesOpen'
  BY <1>1 DEF HandleExec, TailHash, OpenLog, RunEndsEarly
<1>2. ASSUME NEW e \in Execs, RunLogs(e) PROVE FilesOpen'
  BY <1>0, <1>2
<1>3. ASSUME NEW e \in Execs, ForwardOpen(e) PROVE FilesOpen'
  <2>1. CASE path = NoFile
    BY <1>3, <2>1 DEF ForwardOpen
  <2>2. CASE path # NoFile
    BY <1>3, <2>2 DEF ForwardOpen
  <2>3. QED
    BY <2>1, <2>2
<1>4. ASSUME NEW e \in Execs, ForwardLine(e) \/ ForwardEnds(e) PROVE FilesOpen'
  BY <1>4 DEF ForwardLine, ForwardEnds
<1>5. CASE DestroyStop
  BY <1>5 DEF DestroyStop
<1>6. CASE UNCHANGED <<step, fd>>
  BY <1>6
<1>7. QED
  BY <1>1, <1>2, <1>3, <1>4, <1>5, <1>6
  DEF Next, ExecStep, DrainEvents, DrainFile, CommitLine, LateCommit, LeaseInsert, LeaseRefused, DestroyCancel, ForwarderEnds,
      DestroyTells, vars

(* Lines are only ever copied.                                             *)
LEMMA NextKinds == PathInv /\ Next => KindsInPlace'
<1> SUFFICES ASSUME PathInv, Next PROVE KindsInPlace'
  OBVIOUS
<1>t. TypeOK /\ FilesOpen /\ KindsInPlace
  BY DEF PathInv
<1>n. host \in Seq(Line) /\ wire \in Seq(Line)
  BY <1>t DEF TypeOK
<1>1. ASSUME NEW e \in Execs, RunLogs(e) PROVE KindsInPlace'
  <2>1. UNCHANGED <<wire, host>>
    BY <1>t, <1>1, EmitEffect DEF hostVars
  <2>2. \A d \in Execs : \A i \in DOMAIN audit'[d] : audit'[d][i].kind \in Kinds
    <3>1. PICK l \in Line : audit'[fd[e]] = Written(audit[fd[e]], l) /\ l.kind \in Kinds
      BY <1>t, <1>1, EmitEffect
    <3>2. fd[e] \in Execs /\ \A d \in Execs : d # fd[e] => audit'[d] = audit[d]
      BY <1>t, <1>1, EmitEffect
    <3>3. audit[fd[e]] \in Seq(Line)
      BY <1>t, <3>2 DEF TypeOK
    <3>4. \A i \in DOMAIN audit'[fd[e]] :
            audit'[fd[e]][i] = l \/ (i \in DOMAIN audit[fd[e]] /\ Same(audit'[fd[e]][i], audit[fd[e]][i]))
      BY <3>1, <3>3, WrittenLine
    <3>5. QED
      BY <1>t, <3>1, <3>2, <3>4 DEF Same, KindsInPlace
  <2>3. QED
    BY <1>t, <2>1, <2>2 DEF KindsInPlace
<1>2. ASSUME NEW e \in Execs, ForwardLine(e) PROVE KindsInPlace'
  <2>1. fd[e] \in Execs /\ pos[e] + 1 \in DOMAIN audit[fd[e]]
    BY <1>t, <1>2, ForwardEffect
  <2>2. UNCHANGED <<audit, host>>
    BY <1>2 DEF ForwardLine
  <2>3. CASE UNCHANGED wire
    BY <1>t, <2>2, <2>3 DEF KindsInPlace
  <2>4. ASSUME NEW k \in Line, wire' = Append(wire, k), Same(k, audit[fd[e]][pos[e] + 1]) PROVE KindsInPlace'
    <3>1. k.kind # "world_start"
      BY <1>t, <2>1, <2>4 DEF Same, KindsInPlace, Kinds
    <3>2. \A i \in DOMAIN wire' : wire'[i] = k \/ (i \in DOMAIN wire /\ wire'[i] = wire[i])
      BY <1>n, <2>4, AppendLine
    <3>3. QED
      BY <1>t, <2>2, <3>1, <3>2 DEF KindsInPlace
  <2>5. QED
    BY <1>t, <1>2, <2>3, <2>4, ForwardEffect
<1>3. CASE DrainEvents
  <2>1. /\ \A i \in DOMAIN wire' : i + 1 \in DOMAIN wire /\ wire'[i] = wire[i + 1]
        /\ \A i \in DOMAIN host' : (i \in DOMAIN host /\ host'[i] = host[i]) \/ (1 \in DOMAIN wire /\ host'[i] = wire[1])
    BY <1>t, <1>3, DrainEffect
  <2>2. UNCHANGED audit
    BY <1>3 DEF DrainEvents, auditVars
  <2>3. QED
    BY <1>t, <2>1, <2>2 DEF KindsInPlace
<1>4. CASE DestroyStop
  <2>1. \A i \in DOMAIN wire' : i \in DOMAIN wire /\ wire'[i] = wire[i]
    BY <1>n, <1>4, PrefixLine DEF DestroyStop
  <2>2. UNCHANGED <<audit, host>>
    BY <1>4 DEF DestroyStop, auditVars
  <2>3. QED
    BY <1>t, <2>1, <2>2 DEF KindsInPlace
<1>5. CASE UNCHANGED <<audit, wire, host>>
  BY <1>t, <1>5 DEF KindsInPlace
<1>6. QED
  BY <1>1, <1>2, <1>3, <1>4, <1>5
  DEF Next, ExecStep, HandleExec, TailHash, OpenLog, RunEndsEarly, ForwardOpen, ForwardEnds, DrainFile, CommitLine, LateCommit,
      LeaseInsert, LeaseRefused, DestroyCancel, ForwarderEnds, DestroyTells, auditVars, hostVars

(* Exec events begin with the slot, and the world_start of the desk is     *)
(* older than any of them, or was given up.                                *)
LEMMA NextStart == PathInv /\ Next => QuietBeforeSlot' /\ StartBeforeExec'
<1> SUFFICES ASSUME PathInv, Next PROVE QuietBeforeSlot' /\ StartBeforeExec'
  OBVIOUS
<1>t. TypeOK /\ FilesOpen /\ KindsInPlace /\ QuietBeforeSlot /\ StartBeforeExec
  BY DEF PathInv
<1>n. desk \in Seq(Line) /\ host \in Seq(Line) /\ wire \in Seq(Line) /\ step \in [Execs -> ExecSteps] /\ late \subseteq Line
  BY <1>t DEF TypeOK
<1>l. lease' \in {"started", "refused"} => lease = "started" \/ UNCHANGED lease
  BY DEF Next, ExecStep, RunLogs, HandleExec, TailHash, OpenLog, Emit, RunEndsEarly, ForwardOpen, ForwardLine, ForwardEnds,
      DrainEvents, DrainFile, CommitLine, LateCommit, LeaseInsert, LeaseRefused, DestroyCancel, ForwarderEnds, DestroyStop,
      DestroyTells, bossVars
<1>1. QuietBeforeSlot'
  <2> SUFFICES ASSUME lease' \in {"started", "refused"}
               PROVE  /\ \A e \in Execs : step'[e] = "idle"
                      /\ \A i \in DOMAIN wire' : wire'[i].kind \notin Kinds
                      /\ \A i \in DOMAIN host' : host'[i].kind \notin Kinds
                      /\ \A l \in late' : l.kind \notin Kinds
    BY DEF QuietBeforeSlot
  <2>1. /\ lease \in {"started", "refused"}
        /\ \A e \in Execs : step[e] = "idle"
        /\ \A i \in DOMAIN wire : wire[i].kind \notin Kinds
        /\ \A i \in DOMAIN host : host[i].kind \notin Kinds
        /\ \A l \in late : l.kind \notin Kinds
    BY <1>t, <1>l DEF QuietBeforeSlot
  <2>7. \A l \in late' : l.kind \notin Kinds
    <3>1. ASSUME NEW l \in Line, Tried(l), l.kind \notin Kinds PROVE \A m \in late' : m.kind \notin Kinds
      BY <1>t, <2>1, <3>1, TriedType
    <3>2. QED
      BY <1>t, <2>1, <3>1, DeskEffect, WorldEventLine
  <2>2. CASE DrainEvents
    <3>1. /\ \A i \in DOMAIN wire' : i + 1 \in DOMAIN wire /\ wire'[i] = wire[i + 1]
          /\ \A i \in DOMAIN host' : (i \in DOMAIN host /\ host'[i] = host[i]) \/ (1 \in DOMAIN wire /\ host'[i] = wire[1])
      BY <1>t, <2>2, DrainEffect
    <3>2. UNCHANGED step
      BY <2>2 DEF DrainEvents
    <3>3. QED
      BY <2>1, <2>7, <3>1, <3>2
  <2>3. CASE DestroyStop
    <3>1. \A i \in DOMAIN wire' : i \in DOMAIN wire /\ wire'[i] = wire[i]
      BY <1>n, <2>3, PrefixLine DEF DestroyStop
    <3>2. QED
      BY <2>1, <2>3, <2>7, <3>1 DEF DestroyStop, Busy
  <2>4. CASE UNCHANGED <<step, wire, host>>
    BY <2>1, <2>4, <2>7
  <2>5. \A e \in Execs : ~HandleExec(e) /\ ~ExecStep(e)
    BY <2>1 DEF HandleExec, ExecStep, TailHash, OpenLog, RunLogs, Emit, RunEndsEarly, ForwardOpen, ForwardLine, ForwardEnds
  <2>6. QED
    BY <2>2, <2>3, <2>4, <2>5
    DEF Next, DrainFile, CommitLine, LateCommit, LeaseInsert, LeaseRefused, DestroyCancel, ForwarderEnds, DestroyTells, hostVars
<1>2. StartBeforeExec'
  <2>1. CASE UNCHANGED desk /\ late \subseteq late'
    BY <1>t, <1>l, <2>1 DEF StartBeforeExec
  <2>2. ASSUME NEW l \in Line, desk' = Append(desk, l), late \subseteq late',
               lease' \in {"started", "refused"} => l.kind \notin Kinds,
               l.kind = "world_start" => l \in late \/ \A i \in DOMAIN desk : desk[i].kind \notin Kinds
        PROVE  StartBeforeExec'
    <3>1. /\ DOMAIN desk = 1 .. Len(desk) /\ DOMAIN desk' = 1 .. Len(desk) + 1 /\ Len(desk) \in Nat
          /\ desk'[Len(desk) + 1] = l
          /\ \A i \in DOMAIN desk : desk'[i] = desk[i]
      BY <1>n, <2>2, AppendLine
    <3>2. lease' \in {"started", "refused"} => \A i \in DOMAIN desk' : desk'[i].kind \notin Kinds
      BY <1>t, <1>l, <2>2, <3>1 DEF StartBeforeExec
    <3>3. ASSUME NEW i \in DOMAIN desk', NEW j \in DOMAIN desk', desk'[i].kind \in Kinds, desk'[j].kind = "world_start"
          PROVE  j < i \/ desk'[j] \in late'
      <4>1. l.kind = "world_start" => l.kind \notin Kinds
        BY DEF Kinds
      <4>2. CASE i \in DOMAIN desk /\ j \in DOMAIN desk
        BY <1>t, <2>2, <3>1, <3>3, <4>2 DEF StartBeforeExec
      <4>3. CASE i \in DOMAIN desk /\ j = Len(desk) + 1
        BY <2>2, <3>1, <3>3, <4>3
      <4>4. CASE i = Len(desk) + 1
        BY <3>1, <3>3, <4>1, <4>4
      <4>5. QED
        BY <3>1, <4>2, <4>3, <4>4
    <3>4. QED
      BY <3>2, <3>3 DEF StartBeforeExec
  <2>3. ASSUME NEW l \in Line, Tried(l), lease' \in {"started", "refused"} => l.kind \notin Kinds,
               l.kind = "world_start" => \A i \in DOMAIN desk : desk[i].kind \notin Kinds
        PROVE  StartBeforeExec'
    BY <2>1, <2>2, <2>3 DEF Tried
  <2>4. CASE CommitLine /\ offset + 1 \in DOMAIN host /\ host[offset + 1] \in Line /\ Tried(host[offset + 1])
    <3>1. host[offset + 1].kind # "world_start" /\ UNCHANGED lease
      BY <1>t, <2>4 DEF KindsInPlace, CommitLine
    <3>2. lease \in {"started", "refused"} => host[offset + 1].kind \notin Kinds
      BY <1>t, <2>4 DEF QuietBeforeSlot
    <3>3. QED
      BY <2>3, <2>4, <3>1, <3>2
  <2>5. CASE LeaseInsert /\ Tried(WorldEvent("world_start"))
    BY <1>t, <2>3, <2>5, WorldEventLine DEF LeaseInsert, StartBeforeExec
  <2>6. CASE DestroyTells /\ Tried(WorldEvent("world_stop"))
    BY <2>3, <2>6, WorldEventLine
  <2>7. ASSUME NEW l \in late, desk' = Append(desk, l), UNCHANGED late, LateCommit PROVE StartBeforeExec'
    <3>1. UNCHANGED lease
      BY <2>7 DEF LateCommit
    <3>2. l \in Line /\ (lease \in {"started", "refused"} => l.kind \notin Kinds)
      BY <1>t, <1>n DEF QuietBeforeSlot
    <3>3. QED
      BY <2>2, <2>7, <3>1, <3>2
  <2>8. QED
    BY <1>t, <2>1, <2>4, <2>5, <2>6, <2>7, DeskEffect
<1>3. QED
  BY <1>1, <1>2

(* The invariant of the path is inductive.                                 *)
LEMMA NextPath == PathInv /\ [Next]_vars => PathInv'
<1> SUFFICES ASSUME PathInv, [Next]_vars PROVE PathInv'
  OBVIOUS
<1>1. CASE Next
  BY <1>1, NextType, NextFilesOpen, NextKinds, NextStart DEF PathInv
<1>2. CASE UNCHANGED vars
  BY <1>2 DEF vars, auditVars, hostVars, bossVars, deskVars, PathInv, TypeOK, FilesOpen, KindsInPlace, QuietBeforeSlot,
     StartBeforeExec
<1>3. QED
  BY <1>1, <1>2
-----------------------------------------------------------------------------
(***************************************************************************)
(* The order of the emitter's lines.                                       *)
(***************************************************************************)

(* A line older than all that are still to be committed joins the desk, or *)
(* those given up.                                                         *)
LEMMA TriedOrder ==
  ASSUME TypeOK, InOrder, OneLineEach, NEW l \in Line, Tried(l), Older(l)', UNCHANGED <<wire, host, sent>>,
         offset' \in Nat, offset <= offset',
         l.nr # 0 => /\ \A i \in DOMAIN desk : desk[i].nr # l.nr
                     /\ \A m \in late : m.nr # l.nr
  PROVE  InOrder' /\ OneLineEach'
<1>1. /\ \A i \in DOMAIN desk' : desk'[i] = l \/ (i \in DOMAIN desk /\ desk'[i] = desk[i])
      /\ \A m \in late' : m = l \/ m \in late
  BY TriedType
<1>2. offset \in Nat /\ DOMAIN host \subseteq Nat
  BY DEF TypeOK
<1>3. ASSUME NEW k, Older(k) PROVE k.nr <= sent' /\ (\A j \in DOMAIN host' : j > offset' => k.nr < host'[j].nr)
                                /\ \A j \in DOMAIN wire' : k.nr < wire'[j].nr
  BY <1>2, <1>3 DEF Older
<1>4. \A i \in DOMAIN desk' : Older(desk[i])'
  <2> SUFFICES ASSUME NEW i \in DOMAIN desk' PROVE Older(desk[i])'
    OBVIOUS
  <2>1. CASE desk'[i] = l
    BY <2>1 DEF Older
  <2>2. CASE i \in DOMAIN desk /\ desk'[i] = desk[i]
    BY <1>3, <2>2 DEF InOrder, Older
  <2>3. QED
    BY <1>1, <2>1, <2>2
<1>5. ASSUME NEW m \in late'
      PROVE  /\ m.nr <= sent'
             /\ \A j \in DOMAIN host' : j > offset' => m.nr < host'[j].nr
             /\ \A j \in DOMAIN wire' : m.nr < wire'[j].nr
  <2>1. CASE m = l
    BY <2>1 DEF Older
  <2>2. CASE m \in late
    <3>1. Older(m)
      BY <2>2 DEF InOrder
    <3>2. QED
      BY <1>3, <3>1
  <2>3. QED
    BY <1>1, <1>5, <2>1, <2>2
<1>6. InOrder'
  BY <1>4, <1>5 DEF InOrder, Grow, Older
<1>7. OneLineEach'
  <2> SUFFICES ASSUME NEW k \in late', k.nr # 0
               PROVE  /\ \A m \in late' : m.nr = k.nr => m = k
                      /\ \A i \in DOMAIN desk' : desk'[i].nr = k.nr => desk'[i] = k
    BY DEF OneLineEach
  <2>1. CASE k \in late
    BY <1>1, <2>1 DEF OneLineEach
  <2>2. CASE k = l
    BY <1>1, <2>2
  <2>3. QED
    BY <1>1, <2>1, <2>2
<1>8. QED
  BY <1>6, <1>7

(* Every step keeps the order.                                             *)
LEMMA NextOrder == FifoInv /\ Next => InOrder' /\ OneLineEach'
<1> SUFFICES ASSUME FifoInv, Next PROVE InOrder' /\ OneLineEach'
  OBVIOUS
<1>t. TypeOK /\ FilesOpen /\ InOrder /\ OneLineEach
  BY DEF FifoInv, PathInv
<1>n. /\ wire \in Seq(Line) /\ host \in Seq(Line) /\ desk \in Seq(Line) /\ late \subseteq Line
      /\ sent \in Nat /\ offset \in Nat /\ offset <= Len(host) /\ Len(host) \in Nat
      /\ DOMAIN wire = 1 .. Len(wire) /\ DOMAIN host = 1 .. Len(host) /\ Len(wire) \in Nat
  BY <1>t DEF TypeOK
<1>r. /\ \A i \in DOMAIN wire : wire[i].nr \in 1 .. sent
      /\ \A i \in DOMAIN host : host[i].nr \in 1 .. sent
      /\ \A i, j \in DOMAIN wire : i < j => wire[i].nr < wire[j].nr
      /\ \A i, j \in DOMAIN host : i < j => host[i].nr < host[j].nr
      /\ \A i \in DOMAIN host, j \in DOMAIN wire : host[i].nr < wire[j].nr
  BY <1>t DEF InOrder, Grow
<1>o. ASSUME UNCHANGED <<desk, late, offset>>, sent' \in Nat, sent <= sent',
             \A i \in DOMAIN wire' : wire'[i].nr \in 1 .. sent',
             \A i \in DOMAIN host' : host'[i].nr \in 1 .. sent',
             Grow(wire)', Grow(host)',
             \A i \in DOMAIN host', j \in DOMAIN wire' : host'[i].nr < wire'[j].nr,
             \A j \in DOMAIN host' : \/ j \in DOMAIN host /\ host'[j] = host[j]
                                     \/ \E k \in DOMAIN wire : host'[j] = wire[k],
             \A j \in DOMAIN wire' : wire'[j].nr > sent \/ \E k \in DOMAIN wire : wire'[j] = wire[k]
      PROVE  InOrder' /\ OneLineEach'
  <2>1. ASSUME NEW k \in Line, Older(k)
        PROVE  /\ k.nr <= sent'
               /\ \A j \in DOMAIN host' : j > offset => k.nr < host'[j].nr
               /\ \A j \in DOMAIN wire' : k.nr < wire'[j].nr
    <3>1. k.nr \in Nat /\ k.nr <= sent
      BY <2>1 DEF Line, Older
    <3>2. k.nr <= sent'
      BY <1>n, <1>o, <3>1
    <3>3. \A j \in DOMAIN host' : j > offset => k.nr < host'[j].nr
      BY <1>o, <2>1 DEF Older
    <3>4. ASSUME NEW j \in DOMAIN wire' PROVE k.nr < wire'[j].nr
      <4>1. CASE wire'[j].nr > sent
        <5>1. wire'[j].nr \in Nat
          BY <1>o
        <5>2. QED
          BY <1>n, <3>1, <4>1, <5>1
      <4>2. CASE \E m \in DOMAIN wire : wire'[j] = wire[m]
        BY <2>1, <4>2 DEF Older
      <4>3. QED
        BY <1>o, <4>1, <4>2
    <3>5. QED
      BY <3>2, <3>3, <3>4
  <2>2. \A i \in DOMAIN desk' : desk'[i] \in Line /\ Older(desk'[i])
    BY <1>n, <1>o, <1>t DEF InOrder
  <2>3. \A m \in late' : m \in Line /\ Older(m)
    BY <1>n, <1>o, <1>t DEF InOrder
  <2>4. offset' = offset
    BY <1>o
  <2>5. \A i \in DOMAIN desk' : Older(desk[i])'
    BY <2>1, <2>2, <2>4 DEF Older
  <2>6. \A m \in late' : Older(m)'
    BY <2>1, <2>3, <2>4 DEF Older
  <2>7. InOrder'
    BY <1>o, <2>5, <2>6 DEF InOrder
  <2>8. OneLineEach'
    BY <1>o, <1>t DEF OneLineEach
  <2>9. QED
    BY <2>7, <2>8
<1>1. ASSUME NEW e \in Execs, ForwardLine(e) PROVE InOrder' /\ OneLineEach'
  <2>1. UNCHANGED <<desk, late, offset, host>>
    BY <1>1 DEF ForwardLine, bossVars, deskVars
  <2>2. CASE UNCHANGED wire /\ sent' \in {sent, sent + 1}
    <3>1. sent' \in Nat /\ sent <= sent'
      BY <1>n, <2>2
    <3>2. /\ \A i \in DOMAIN wire' : wire'[i].nr \in 1 .. sent'
          /\ \A i \in DOMAIN host' : host'[i].nr \in 1 .. sent'
      BY <1>n, <1>r, <2>1, <2>2, <3>1
    <3>3. Grow(wire)' /\ Grow(host)'
      BY <1>r, <2>1, <2>2 DEF Grow
    <3>4. QED
      BY <1>o, <1>r, <2>1, <2>2, <3>1, <3>2, <3>3
  <2>3. ASSUME NEW k \in Line, wire' = Append(wire, k), sent' = sent + 1, k.nr = sent + 1
        PROVE  InOrder' /\ OneLineEach'
    <3>1. /\ DOMAIN wire' = 1 .. Len(wire) + 1 /\ wire'[Len(wire) + 1] = k
          /\ \A i \in DOMAIN wire : wire'[i] = wire[i]
      BY <1>n, <2>3, AppendLine
    <3>2. sent' \in Nat /\ sent <= sent'
      BY <1>n, <2>3
    <3>3. \A i \in DOMAIN wire' : \/ i \in DOMAIN wire /\ wire'[i] = wire[i]
                                  \/ i = Len(wire) + 1 /\ wire'[i].nr = sent + 1
      BY <1>n, <2>3, <3>1
    <3>4. /\ \A i \in DOMAIN wire' : wire'[i].nr \in 1 .. sent'
          /\ \A i \in DOMAIN host' : host'[i].nr \in 1 .. sent'
      BY <1>n, <1>r, <2>1, <2>3, <3>3
    <3>5. Grow(wire)' /\ Grow(host)'
      BY <1>n, <1>r, <2>1, <3>3 DEF Grow
    <3>6. \A i \in DOMAIN host', j \in DOMAIN wire' : host'[i].nr < wire'[j].nr
      BY <1>n, <1>r, <2>1, <3>3
    <3>7. \A j \in DOMAIN wire' : wire'[j].nr > sent \/ \E m \in DOMAIN wire : wire'[j] = wire[m]
      BY <1>n, <3>3
    <3>8. QED
      BY <1>o, <2>1, <3>2, <3>4, <3>5, <3>6, <3>7
  <2>4. QED
    BY <1>t, <1>1, <2>2, <2>3, ForwardEffect
<1>2. CASE DrainEvents
  <2>1. UNCHANGED <<desk, late, offset, sent>>
    BY <1>2 DEF DrainEvents, bossVars, deskVars
  <2>2. /\ \A i \in DOMAIN wire' : i + 1 \in DOMAIN wire /\ wire'[i] = wire[i + 1]
        /\ \A i \in DOMAIN host' :
              (i \in DOMAIN host /\ host'[i] = host[i])
                \/ (i = Len(host) + 1 /\ 1 \in DOMAIN wire /\ host'[i] = wire[1])
        /\ wire' \in Seq(Line)
    BY <1>t, <1>2, DrainEffect
  <2>3. DOMAIN wire' \subseteq Nat \ {0}
    BY <2>2
  <2>4. sent' \in Nat /\ sent <= sent'
    BY <1>n, <2>1
  <2>5. /\ \A i \in DOMAIN wire' : wire'[i].nr \in 1 .. sent'
        /\ \A i \in DOMAIN host' : host'[i].nr \in 1 .. sent'
    BY <1>r, <2>1, <2>2
  <2>6. Grow(wire)'
    BY <1>r, <2>2, <2>3 DEF Grow
  <2>7. Grow(host)'
    <3> SUFFICES ASSUME NEW i \in DOMAIN host', NEW j \in DOMAIN host', i < j PROVE host'[i].nr < host'[j].nr
      BY DEF Grow
    <3>1. i \in DOMAIN host /\ host'[i] = host[i]
      BY <1>n, <2>2
    <3>2. CASE j \in DOMAIN host /\ host'[j] = host[j]
      BY <1>r, <3>1, <3>2
    <3>3. CASE 1 \in DOMAIN wire /\ host'[j] = wire[1]
      BY <1>r, <3>1, <3>3
    <3>4. QED
      BY <2>2, <3>2, <3>3
  <2>8. ASSUME NEW i \in DOMAIN host', NEW j \in DOMAIN wire' PROVE host'[i].nr < wire'[j].nr
    <3>1. j + 1 \in DOMAIN wire /\ wire'[j] = wire[j + 1] /\ 1 < j + 1
      BY <2>2, <2>3
    <3>2. CASE i \in DOMAIN host /\ host'[i] = host[i]
      BY <1>r, <3>1, <3>2
    <3>3. CASE 1 \in DOMAIN wire /\ host'[i] = wire[1]
      BY <1>r, <3>1, <3>3
    <3>4. QED
      BY <2>2, <3>2, <3>3
  <2>9. QED
    BY <1>o, <2>1, <2>2, <2>4, <2>5, <2>6, <2>7, <2>8
<1>3. CASE DestroyStop
  <2>1. UNCHANGED <<desk, late, offset, sent, host>>
    BY <1>3 DEF DestroyStop, deskVars
  <2>2. \A i \in DOMAIN wire' : i \in DOMAIN wire /\ wire'[i] = wire[i]
    BY <1>n, <1>3, PrefixLine DEF DestroyStop
  <2>3. Grow(wire)' /\ Grow(host)'
    BY <1>r, <2>1, <2>2 DEF Grow
  <2>4. sent' \in Nat /\ sent <= sent'
    BY <1>n, <2>1
  <2>5. QED
    BY <1>o, <1>r, <2>1, <2>2, <2>3, <2>4
<1>4. CASE CommitLine /\ offset + 1 \in DOMAIN host /\ host[offset + 1] \in Line /\ Tried(host[offset + 1])
  <2>1. UNCHANGED <<wire, host, sent>> /\ offset' = offset + 1
    BY <1>4 DEF CommitLine, hostVars
  <2>2. offset' \in Nat /\ offset <= offset'
    BY <1>n, <2>1
  <2>3. PICK l \in Line : l = host[offset + 1]
    BY <1>4
  <2>4. l.nr \in 1 .. sent
    BY <1>4, <1>r, <2>3
  <2>5. \A j \in DOMAIN host : j > offset + 1 => l.nr < host[j].nr
    BY <1>4, <1>n, <1>r, <2>3
  <2>6. \A j \in DOMAIN wire : l.nr < wire[j].nr
    BY <1>4, <1>r, <2>3
  <2>7. Older(l)'
    BY <1>n, <2>1, <2>4, <2>5, <2>6 DEF Older
  <2>8. offset + 1 > offset
    BY <1>n
  <2>9. \A i \in DOMAIN desk : desk[i].nr < l.nr
    BY <1>4, <1>t, <2>3, <2>8 DEF InOrder, Older
  <2>10. \A m \in late : m.nr < l.nr
    BY <1>4, <1>t, <2>3, <2>8 DEF InOrder, Older
  <2>11. /\ \A i \in DOMAIN desk : desk[i].nr # l.nr
         /\ \A m \in late : m.nr # l.nr
    BY <2>4, <2>9, <2>10
  <2>12. QED
    BY <1>t, <1>4, <2>1, <2>2, <2>3, <2>7, <2>11, TriedOrder
<1>5. ASSUME NEW kind \in {"world_start", "world_stop"}, Tried(WorldEvent(kind)), UNCHANGED <<wire, host, sent, offset>>
      PROVE  InOrder' /\ OneLineEach'
  <2>1. PICK l \in Line : l = WorldEvent(kind) /\ l.nr = 0
    BY WorldEventLine
  <2>2. Older(l)'
    <3>1. 0 <= sent /\ (\A j \in DOMAIN host : 0 < host[j].nr) /\ \A j \in DOMAIN wire : 0 < wire[j].nr
      BY <1>n, <1>r
    <3>2. QED
      BY <1>5, <2>1, <3>1 DEF Older
  <2>3. offset' \in Nat /\ offset <= offset'
    BY <1>n, <1>5
  <2>4. QED
    BY <1>t, <1>5, <2>1, <2>2, <2>3, TriedOrder
<1>6. CASE LeaseInsert /\ Tried(WorldEvent("world_start"))
  BY <1>5, <1>6 DEF LeaseInsert, hostVars
<1>7. CASE DestroyTells /\ Tried(WorldEvent("world_stop"))
  BY <1>5, <1>7 DEF DestroyTells, hostVars
<1>8. ASSUME NEW l \in late, desk' = Append(desk, l), UNCHANGED late, LateCommit PROVE InOrder' /\ OneLineEach'
  <2>1. UNCHANGED <<wire, host, sent, offset>>
    BY <1>8 DEF LateCommit, hostVars
  <2>2. \A i \in DOMAIN desk' : desk'[i] = l \/ (i \in DOMAIN desk /\ desk'[i] = desk[i])
    BY <1>n, <1>8, AppendLine
  <2>3. InOrder'
    <3>1. \A i \in DOMAIN desk' : Older(desk'[i])
      BY <1>t, <2>2 DEF InOrder
    <3>2. \A i \in DOMAIN desk' : Older(desk[i])'
      BY <2>1, <3>1 DEF Older
    <3>3. \A m \in late' : Older(m)'
      BY <1>t, <1>8, <2>1 DEF Older, InOrder
    <3>4. QED
      BY <1>t, <2>1, <3>2, <3>3 DEF InOrder, Grow
  <2>4. OneLineEach'
    BY <1>t, <1>8, <2>2 DEF OneLineEach
  <2>5. QED
    BY <2>3, <2>4
<1>9. CASE UNCHANGED <<wire, host, sent, offset, desk, late>>
  BY <1>t, <1>9 DEF InOrder, Grow, Older, OneLineEach
<1>10. CASE UNCHANGED <<desk, late>>
  <2>1. CASE CommitLine
    <3>1. UNCHANGED <<wire, host, sent>> /\ offset' = offset + 1
      BY <2>1 DEF CommitLine, hostVars
    <3>2. \A j \in DOMAIN host : j > offset' => j > offset
      BY <1>n, <3>1
    <3>3. QED
      BY <1>t, <1>10, <3>1, <3>2 DEF InOrder, Grow, Older, OneLineEach
  <2>2. QED
    BY <1>1, <1>2, <1>3, <1>9, <1>10, <2>1
    DEF Next, ExecStep, RunLogs, HandleExec, TailHash, OpenLog, Emit, RunEndsEarly, ForwardOpen, ForwardEnds,
      DrainFile, LateCommit, LeaseInsert, LeaseRefused, DestroyCancel, ForwarderEnds, DestroyTells, hostVars, bossVars
<1>11. QED
  BY <1>t, <1>4, <1>6, <1>7, <1>8, <1>10, DeskEffect

(* In every reachable state of the path the invariant holds, however many  *)
(* execs overlap and whatever fails.                                       *)
THEOREM PathSafe == Spec => []FifoInv
<1>1. FifoInv /\ [Next]_vars => FifoInv'
  <2> SUFFICES ASSUME FifoInv, [Next]_vars PROVE FifoInv'
    OBVIOUS
  <2>1. PathInv'
    BY NextPath DEF FifoInv
  <2>2. CASE Next
    BY <2>1, <2>2, NextOrder DEF FifoInv
  <2>3. CASE UNCHANGED vars
    BY <2>1, <2>3 DEF vars, auditVars, hostVars, bossVars, deskVars, FifoInv, InOrder, Grow, Older, OneLineEach
  <2>4. QED
    BY <2>2, <2>3
<1>2. QED
  BY <1>1, InitFifo, PTL DEF Spec

(* forwardEvents runs before the lease is accepted, still no exec event is *)
(* on the desk before the world_start of its world, unless the commit of   *)
(* world_start was given up and landed late.                               *)
THEOREM StartBeforeExecHolds == Spec => []StartBeforeExec
<1>1. FifoInv => StartBeforeExec
  BY DEF FifoInv, PathInv
<1>2. QED
  BY <1>1, PathSafe, PTL

(* The numbers the desk has, with one line more.                           *)
LEMMA NumbersAppend ==
  ASSUME NEW f \in Seq(Line), NEW l \in Line
  PROVE  [i \in DOMAIN Append(f, l) |-> Append(f, l)[i].nr] = Append([i \in DOMAIN f |-> f[i].nr], l.nr)
<1> DEFINE h == [i \in DOMAIN f |-> f[i].nr]
           g == Append(f, l)
<1>1. DOMAIN f = 1 .. Len(f) /\ Len(f) \in Nat /\ \A i \in DOMAIN f : f[i] \in Line
  OBVIOUS
<1>2. h \in Seq(Nat) /\ Len(h) = Len(f)
  BY <1>1 DEF Line
<1>3. /\ DOMAIN g = 1 .. Len(f) + 1 /\ g[Len(f) + 1] = l
      /\ \A i \in DOMAIN f : g[i] = f[i]
  BY AppendLine
<1>4. l.nr \in Nat
  BY DEF Line
<1>5. /\ DOMAIN Append(h, l.nr) = 1 .. Len(f) + 1 /\ Append(h, l.nr)[Len(f) + 1] = l.nr
      /\ \A i \in 1 .. Len(f) : Append(h, l.nr)[i] = h[i]
      /\ Append(h, l.nr) \in Seq(Nat)
  BY <1>2, <1>4
<1> HIDE DEF g
<1>6. ASSUME NEW i \in 1 .. Len(f) + 1 PROVE g[i].nr = Append(h, l.nr)[i]
  BY <1>1, <1>3, <1>5
<1> HIDE DEF h
<1>7. [i \in DOMAIN g |-> g[i].nr] = Append(h, l.nr)
  BY <1>3, <1>5, <1>6
<1>8. QED
  BY <1>7 DEF g, h

(* From the emitter to the desk the path is a lossy FIFO: it may lose      *)
(* lines, but never repeats or invents one, and reorders only those whose  *)
(* commit was given up, however many execs overlap.                        *)
THEOREM DeskGetsFifoHolds == Spec => DeskGetsFifo
<1> DEFINE got == [i \in DOMAIN desk |-> desk[i].nr]
           gone == {l.nr : l \in late} \ {0}
<1>1. Init => Fifo!Init
  BY DEF Init, Fifo!Init
<1>2. ASSUME FifoInv, [Next]_vars PROVE Fifo!Next \/ UNCHANGED <<sent, got, gone>>
  <2>1. TypeOK /\ FilesOpen /\ InOrder /\ OneLineEach
    BY <1>2 DEF FifoInv, PathInv
  <2>2. sent \in Nat /\ offset \in Nat /\ desk \in Seq(Line) /\ host \in Seq(Line) /\ late \subseteq Line
    BY <2>1 DEF TypeOK
  <2>3. CASE UNCHANGED <<sent, desk, late>>
    BY <2>3
  <2>4. ASSUME NEW e \in Execs, ForwardLine(e) PROVE Fifo!Next \/ UNCHANGED <<sent, got, gone>>
    <3>1. UNCHANGED <<desk, late>>
      BY <2>4 DEF ForwardLine, bossVars, deskVars
    <3>2. got' = got /\ gone' = gone
      BY <3>1
    <3>3. sent' \in {sent, sent + 1}
      BY <2>1, <2>4, ForwardEffect
    <3> HIDE DEF got, gone
    <3>4. CASE sent' = sent
      BY <3>2, <3>4
    <3>5. CASE sent' = sent + 1
      BY <3>2, <3>5 DEF Fifo!Next, Fifo!Send, got, gone
    <3>6. QED
      BY <3>3, <3>4, <3>5
  <2>5. ASSUME NEW l \in Line, Tried(l), UNCHANGED sent,
               l.nr # 0 => l.nr \in 1 .. sent /\ (\A i \in DOMAIN desk : desk[i].nr < l.nr) /\ \A m \in late : m.nr < l.nr
        PROVE  Fifo!Next \/ UNCHANGED <<sent, got, gone>>
    <3>1. CASE desk' = Append(desk, l) /\ UNCHANGED late
      <4>1. got' = Append(got, l.nr) /\ gone' = gone
        BY <2>2, <3>1, NumbersAppend
      <4>2. CASE l.nr = 0
        BY <2>5, <4>1, <4>2 DEF Fifo!Next, Fifo!Notice
      <4>3. CASE l.nr # 0
        <5>1. (\A i \in DOMAIN got : got[i] < l.nr) /\ \A m \in gone : m < l.nr
          BY <2>5, <4>3
        <5>2. Fifo!IsNext(l.nr)
          BY <2>5, <4>3, <5>1 DEF Fifo!IsNext
        <5>3. QED
          BY <2>5, <4>1, <4>3, <5>2 DEF Fifo!Next, Fifo!Receive
      <4>4. QED
        BY <4>2, <4>3
    <3>2. CASE late' = late \cup {l} /\ UNCHANGED desk
      <4>1. got' = got
        BY <3>2
      <4>2. CASE l.nr = 0
        <5>1. gone' = gone
          BY <3>2, <4>2
        <5>2. QED
          BY <2>5, <4>1, <5>1
      <4>3. CASE l.nr # 0
        <5>1. (\A i \in DOMAIN got : got[i] < l.nr) /\ \A m \in gone : m < l.nr
          BY <2>5, <4>3
        <5>2. Fifo!IsNext(l.nr)
          BY <2>5, <4>3, <5>1 DEF Fifo!IsNext
        <5>3. gone' = gone \cup {l.nr}
          BY <3>2, <4>3
        <5>4. QED
          BY <2>5, <4>1, <4>3, <5>2, <5>3 DEF Fifo!Next, Fifo!GiveUp
      <4>4. QED
        BY <4>2, <4>3
    <3>3. QED
      BY <2>5, <3>1, <3>2 DEF Tried
  <2>6. ASSUME NEW l \in late, desk' = Append(desk, l), \A i \in DOMAIN desk : desk[i] # l, UNCHANGED <<late, sent>>
        PROVE  Fifo!Next
    <3>1. l \in Line
      BY <2>2
    <3>2. got' = Append(got, l.nr) /\ gone' = gone
      BY <2>2, <2>6, <3>1, NumbersAppend
    <3>3. CASE l.nr = 0
      BY <2>6, <3>2, <3>3 DEF Fifo!Next, Fifo!Notice
    <3>4. CASE l.nr # 0
      <4>1. l.nr \in gone /\ \A i \in DOMAIN got : got[i] # l.nr
        BY <2>1, <2>6, <3>4 DEF OneLineEach
      <4>2. QED
        BY <2>6, <3>2, <4>1 DEF Fifo!Next, Fifo!ArriveLate
    <3>5. QED
      BY <3>3, <3>4
  <2>7. ASSUME Next, \A e \in Execs : ~ForwardLine(e) PROVE UNCHANGED sent
    BY <2>7 DEF Next, ExecStep, RunLogs, Emit, HandleExec, TailHash, OpenLog, RunEndsEarly, ForwardOpen, ForwardEnds,
      DrainEvents, DrainFile, CommitLine, LateCommit, LeaseInsert, LeaseRefused, DestroyCancel, ForwarderEnds, DestroyStop,
      DestroyTells, hostVars
  <2>8. ASSUME Next, UNCHANGED sent PROVE Fifo!Next \/ UNCHANGED <<sent, got, gone>>
    <3>1. CASE CommitLine /\ offset + 1 \in DOMAIN host /\ host[offset + 1] \in Line /\ Tried(host[offset + 1])
      <4>1. PICK l \in Line : l = host[offset + 1]
        BY <3>1
      <4>2. offset + 1 > offset
        BY <2>2
      <4>3. l.nr \in 1 .. sent /\ (\A i \in DOMAIN desk : desk[i].nr < l.nr) /\ \A m \in late : m.nr < l.nr
        BY <2>1, <3>1, <4>1, <4>2 DEF InOrder, Older
      <4>4. QED
        BY <2>5, <2>8, <3>1, <4>1, <4>3
    <3>2. ASSUME NEW kind \in {"world_start", "world_stop"}, Tried(WorldEvent(kind))
          PROVE  Fifo!Next \/ UNCHANGED <<sent, got, gone>>
      <4>1. WorldEvent(kind) \in Line /\ WorldEvent(kind).nr = 0
        BY WorldEventLine
      <4>2. QED
        BY <2>5, <2>8, <3>2, <4>1
    <3>3. QED
      BY <2>1, <2>3, <2>6, <2>8, <3>1, <3>2, DeskEffect
  <2>9. CASE UNCHANGED vars
    BY <2>3, <2>9 DEF vars, hostVars, bossVars, deskVars
  <2>10. QED
    BY <1>2, <2>4, <2>7, <2>8, <2>9
<1>3. QED
  BY <1>1, <1>2, PathSafe, PTL DEF Spec, DeskGetsFifo, Fifo!Spec
-----------------------------------------------------------------------------
(***************************************************************************)
(* An exec that overlaps no other.                                         *)
(***************************************************************************)

(* It is the only one under way, and the audit path is its file or nothing.*)
(* Nobody else writes to the file.                                         *)
Own(e) ==
  /\ e \in Busy => Busy = {e}
  /\ path = e => Busy \subseteq {e} /\ step[e] \notin {"idle", "launched", "open"}
  /\ \A d \in Execs : d # e => fd[d] # e /\ \A i \in DOMAIN audit[d] : audit[d][i].exec # e
  /\ \A i \in DOMAIN audit[e] : audit[e][i].exec = e
  /\ step[e] \in {"idle", "launched", "open", "start"} => audit[e] = <<>>
  /\ step[e] \in {"launched", "open"} => path = NoFile
  /\ step[e] \in Logging \cup {"send"} => path = e /\ fd[e] = e
  /\ step[e] = "forward" => path = e \/ (path = NoFile /\ audit[e] = <<>>)
  /\ step[e] \notin {"send", "answered", "dead"} => pos[e] = 0
  /\ pos[e] <= Len(audit[e])

(* While the lines are whole, AuditLog.prev is the hash of one of them, and *)
(* so is the prev of each but the start.                                    *)
Linked(f) ==
  \A i \in DOMAIN f : IF f[i].kind = "start" THEN f[i].prev = 0 ELSE \E j \in DOMAIN f : f[j].hash = f[i].prev

Chained(e) ==
  /\ step[e] \in {"open", "start"} => prev[e] = 0
  /\ Whole(audit[e]) =>
       /\ step[e] \in Logging \ {"start"} => \E j \in DOMAIN audit[e] : audit[e][j].hash = prev[e]
       /\ Linked(audit[e])

(* What forwardAudit has passed is under way or on the host, and it passes  *)
(* all, unless a line is not as it should be.                               *)
UnderWay == Hashes(Lines(wire)) \cup Hashes(Lines(host))

Passed(e) ==
  conn = "up" /\ vm = "up" =>
    /\ \A i \in 1 .. pos[e] : audit[e][i].size \in {"torn", "spoilt"} \/ audit[e][i].hash \in UnderWay
    /\ step[e] = "answered" => pos[e] = Len(audit[e]) \/ \E i \in DOMAIN audit[e] : audit[e][i].size \notin {"short", "edge"}

(* The inductive invariant of execs that overlap no other.                  *)
AloneInv == \A e \in Execs \ overlapped : Own(e) /\ Chained(e) /\ Passed(e)

(* A step of an exec or its handler leaves the others where they are.      *)
LEMMA OtherLocals ==
  ASSUME TypeOK, FilesOpen, NEW d \in Execs, HandleExec(d) \/ ExecStep(d), NEW e \in Execs, e # d
  PROVE  step'[e] = step[e] /\ fd'[e] = fd[e] /\ prev'[e] = prev[e] /\ pos'[e] = pos[e]
<1>n. step \in [Execs -> ExecSteps] /\ fd \in [Execs -> Execs \cup {NoFile}] /\ prev \in [Execs -> Nat] /\ pos \in [Execs -> Nat]
  BY DEF TypeOK
<1>1. CASE RunLogs(d)
  <2>1. UNCHANGED <<fd, pos>> /\ prev' = [prev EXCEPT ![d] = emitted + 1]
    BY <1>1, EmitEffect
  <2>2. PICK s \in {"exec", "decoy_open", "exit", "forward"} : step' = [step EXCEPT ![d] = s]
    BY <1>1, EmitEffect
  <2>3. QED
    BY <1>n, <2>1, <2>2
<1>2. CASE HandleExec(d) \/ TailHash(d) \/ OpenLog(d) \/ RunEndsEarly(d)
  BY <1>n, <1>2 DEF HandleExec, TailHash, OpenLog, RunEndsEarly, Goto, auditVars
<1>3. CASE ForwardOpen(d)
  BY <1>n, <1>3 DEF ForwardOpen, Goto
<1>4. CASE ForwardLine(d) \/ ForwardEnds(d)
  BY <1>n, <1>4 DEF ForwardLine, ForwardEnds, Goto, auditVars
<1>5. QED
  BY <1>1, <1>2, <1>3, <1>4 DEF ExecStep

(* A step of another exec finds an exec that overlaps none at rest, and    *)
(* leaves its file alone.                                                  *)
LEMMA OwnOther ==
  ASSUME TypeOK, FilesOpen, NEW e \in Execs, e \notin overlapped', e \notin overlapped, Own(e),
         NEW d \in Execs, d # e, HandleExec(d) \/ ExecStep(d)
  PROVE  Own(e)' /\ audit'[e] = audit[e] /\ step[e] \in {"idle", "answered", "dead"}
<1>n. /\ NoFile \notin Execs /\ step \in [Execs -> ExecSteps] /\ fd \in [Execs -> Execs \cup {NoFile}]
      /\ path \in Execs \cup {NoFile} /\ \A c \in Execs : audit[c] \in Seq(Line)
  BY EventPathAssumption DEF TypeOK
<1>1. step'[e] = step[e] /\ fd'[e] = fd[e] /\ pos'[e] = pos[e]
  BY OtherLocals
<1>2. ASSUME ExecStep(d) PROVE d \in Busy
  BY <1>2 DEF ExecStep, TailHash, OpenLog, RunLogs, Emit, RunEndsEarly, ForwardOpen, ForwardLine, ForwardEnds, Busy
<1>3. e \notin Busy
  <2>1. CASE ExecStep(d)
    BY <1>2, <2>1 DEF Own
  <2>2. CASE HandleExec(d)
    BY <2>2 DEF HandleExec, Overlaps
  <2>3. QED
    BY <2>1, <2>2
<1>4. step[e] \in {"idle", "answered", "dead"} /\ e \notin Busy'
  BY <1>1, <1>3 DEF Busy
<1>5. path' # e
  <2>1. CASE HandleExec(d)
    BY <1>n, <2>1 DEF HandleExec
  <2>2. CASE ExecStep(d)
    <3>1. path # e
      BY <1>2, <2>2 DEF Own
    <3>2. CASE RunLogs(d)
      BY <3>1, <3>2, EmitEffect
    <3>3. QED
      BY <2>2, <3>1, <3>2 DEF ExecStep, TailHash, OpenLog, RunEndsEarly, ForwardOpen, ForwardLine, ForwardEnds, auditVars
  <2>3. QED
    BY <2>1, <2>2
<1>6. \A c \in Execs : c # e => fd'[c] # e
  <2> SUFFICES ASSUME NEW c \in Execs, c # e PROVE fd'[c] # e
    OBVIOUS
  <2>1. fd[c] # e
    BY DEF Own
  <2>2. CASE c # d
    BY <2>1, <2>2, OtherLocals
  <2>3. CASE c = d
    <3>1. CASE RunLogs(d)
      BY <2>1, <2>3, <3>1, EmitEffect
    <3>2. CASE OpenLog(d)
      BY <1>n, <1>5, <2>3, <3>2 DEF OpenLog
    <3>3. CASE ForwardOpen(d)
      BY <1>n, <1>5, <2>1, <2>3, <3>3 DEF ForwardOpen
    <3>4. QED
      BY <2>1, <3>1, <3>2, <3>3 DEF ExecStep, HandleExec, TailHash, RunEndsEarly, ForwardLine, ForwardEnds, auditVars
  <2>4. QED
    BY <2>2, <2>3
<1>7. /\ audit'[e] = audit[e]
      /\ \A c \in Execs : c # e => \A i \in DOMAIN audit'[c] : audit'[c][i].exec # e
  <2>1. CASE RunLogs(d)
    <3>1. fd[d] \in Execs /\ fd[d] # e /\ \A c \in Execs : c # fd[d] => audit'[c] = audit[c]
      BY <2>1, EmitEffect DEF Own
    <3>2. PICK l \in Line : audit'[fd[d]] = Written(audit[fd[d]], l) /\ l.exec = d
      BY <2>1, EmitEffect
    <3>3. \A i \in DOMAIN audit'[fd[d]] :
            audit'[fd[d]][i] = l \/ (i \in DOMAIN audit[fd[d]] /\ Same(audit'[fd[d]][i], audit[fd[d]][i]))
      BY <1>n, <3>1, <3>2, WrittenLine
    <3>4. \A i \in DOMAIN audit'[fd[d]] : audit'[fd[d]][i].exec # e
      BY <3>1, <3>2, <3>3 DEF Own, Same
    <3>5. QED
      BY <3>1, <3>4 DEF Own
  <2>2. CASE UNCHANGED audit
    BY <2>2 DEF Own
  <2>3. QED
    BY <2>1, <2>2 DEF ExecStep, HandleExec, TailHash, OpenLog, RunEndsEarly, ForwardOpen, ForwardLine, ForwardEnds, auditVars
<1>8. QED
  BY <1>1, <1>4, <1>5, <1>6, <1>7 DEF Own, Logging

(* An exec under way alone is left alone by its own steps.                 *)
LEMMA BusySelf ==
  ASSUME TypeOK, FilesOpen, NEW e \in Execs, Own(e), ExecStep(e)
  PROVE  Busy = {e} /\ Busy' \subseteq {e}
<1>1. e \in Busy
  BY DEF ExecStep, TailHash, OpenLog, RunLogs, Emit, RunEndsEarly, ForwardOpen, ForwardLine, ForwardEnds, Busy
<1>2. Busy = {e}
  BY <1>1 DEF Own
<1>3. \A d \in Execs : d # e => step'[d] = step[d]
  BY OtherLocals
<1>4. QED
  BY <1>2, <1>3 DEF Busy

(* The exec keeps the path to itself.                                      *)
LEMMA OwnSelf ==
  ASSUME TypeOK, FilesOpen, NEW e \in Execs, Own(e), e \notin overlapped', HandleExec(e) \/ ExecStep(e)
  PROVE  Own(e)'
<1>n. /\ NoFile \notin Execs /\ step \in [Execs -> ExecSteps] /\ fd \in [Execs -> Execs \cup {NoFile}]
      /\ path \in Execs \cup {NoFile} /\ pos \in [Execs -> Nat]
      /\ \A c \in Execs : audit[c] \in Seq(Line) /\ Len(audit[c]) \in Nat
  BY EventPathAssumption DEF TypeOK
<1>b. Busy' \subseteq {e} /\ (e \in Busy' => Busy' = {e})
  <2>1. CASE HandleExec(e)
    <3>1. Busy = {}
      BY <2>1 DEF HandleExec, Overlaps
    <3>2. \A d \in Execs : d # e => step'[d] = step[d]
      BY <2>1, OtherLocals
    <3>3. QED
      BY <3>1, <3>2 DEF Busy
  <2>2. CASE ExecStep(e)
    BY <2>2, BusySelf
  <2>3. QED
    BY <2>1, <2>2
<1>o. ASSUME NEW d \in Execs, d # e PROVE fd'[d] = fd[d]
  BY <1>o, OtherLocals
<1>1. CASE HandleExec(e)
  <2>1. step' = [step EXCEPT ![e] = "launched"] /\ path' = NoFile /\ UNCHANGED <<audit, fd, pos>> /\ step[e] = "idle"
    BY <1>1 DEF HandleExec, Goto
  <2>2. QED
    BY <1>n, <1>b, <2>1 DEF Own, Logging
<1>2. CASE TailHash(e)
  <2>1. step' = [step EXCEPT ![e] = "open"] /\ UNCHANGED <<path, audit, fd, pos>> /\ step[e] = "launched"
    BY <1>2 DEF TailHash, Goto
  <2>2. QED
    BY <1>n, <1>b, <2>1 DEF Own, Logging
<1>3. CASE OpenLog(e)
  <2>1. path = NoFile /\ audit[e] = <<>> /\ pos[e] = 0
    BY <1>3 DEF Own, OpenLog
  <2>2. path' = e /\ fd' = [fd EXCEPT ![e] = e] /\ step' = [step EXCEPT ![e] = "start"] /\ UNCHANGED <<audit, pos>>
    BY <1>3, <2>1 DEF OpenLog, Goto
  <2>3. QED
    BY <1>n, <1>b, <2>1, <2>2 DEF Own, Logging
<1>4. CASE RunLogs(e)
  <2>1. step[e] \in Logging
    BY <1>4, EmitEffect
  <2>2. path = e /\ fd[e] = e /\ pos[e] = 0
    BY <2>1 DEF Own, Logging
  <2>3. PICK l \in Line : audit'[fd[e]] = Written(audit[fd[e]], l) /\ l.exec = e
    BY <1>4, EmitEffect
  <2>4. /\ \A d \in Execs : d # e => audit'[d] = audit[d]
        /\ UNCHANGED <<path, fd, pos>>
    BY <1>4, <2>2, EmitEffect
  <2>5. PICK s \in {"exec", "decoy_open", "exit", "forward"} : step' = [step EXCEPT ![e] = s]
    BY <1>4, EmitEffect
  <2>6. \A i \in DOMAIN audit'[e] : audit'[e][i].exec = e
    <3>1. \A i \in DOMAIN audit'[e] : audit'[e][i] = l \/ (i \in DOMAIN audit[e] /\ Same(audit'[e][i], audit[e][i]))
      BY <1>n, <2>2, <2>3, WrittenLine
    <3>2. QED
      BY <2>3, <3>1 DEF Own, Same
  <2>7. Len(audit'[e]) \in Nat
    BY <1>4, EmitEffect
  <2>8. QED
    BY <1>n, <1>b, <2>2, <2>4, <2>5, <2>6, <2>7 DEF Own, Logging
<1>5. CASE RunEndsEarly(e)
  <2>1. step' = [step EXCEPT ![e] = "forward"] /\ UNCHANGED <<path, audit, fd, pos>>
        /\ step[e] \in {"launched", "open"} \cup Logging
    BY <1>5 DEF RunEndsEarly, Goto, auditVars, Logging
  <2>2. QED
    BY <1>n, <1>b, <2>1 DEF Own, Logging
<1>6. CASE ForwardOpen(e)
  <2>1. CASE path = NoFile
    <3>1. step' = [step EXCEPT ![e] = "answered"] /\ UNCHANGED <<path, audit, fd, pos>>
      BY <1>6, <2>1 DEF ForwardOpen, Goto
    <3>2. QED
      BY <1>n, <1>b, <2>1, <3>1 DEF Own, Logging
  <2>2. CASE path # NoFile
    <3>1. path = e /\ step' = [step EXCEPT ![e] = "send"] /\ fd' = [fd EXCEPT ![e] = e] /\ UNCHANGED <<path, audit, pos>>
      BY <1>6, <2>2 DEF Own, ForwardOpen, Goto
    <3>2. QED
      BY <1>n, <1>b, <3>1 DEF Own, Logging
  <2>3. QED
    BY <2>1, <2>2
<1>7. CASE ForwardLine(e)
  <2>1. fd[e] = e /\ step[e] = "send" /\ pos[e] < Len(audit[e])
    BY <1>7 DEF Own, ForwardLine
  <2>2. pos' = [pos EXCEPT ![e] = pos[e] + 1] /\ UNCHANGED <<step, path, audit, fd>>
    BY <1>7 DEF ForwardLine
  <2>3. pos'[e] <= Len(audit[e])
    BY <1>n, <2>1, <2>2
  <2>4. QED
    BY <1>n, <1>b, <2>1, <2>2, <2>3 DEF Own, Logging
<1>8. CASE ForwardEnds(e)
  <2>1. step' = [step EXCEPT ![e] = "answered"] /\ UNCHANGED <<path, audit, fd, pos>> /\ step[e] = "send"
    BY <1>8 DEF ForwardEnds, Goto, auditVars
  <2>2. QED
    BY <1>n, <1>b, <2>1 DEF Own, Logging
<1>9. QED
  BY <1>1, <1>2, <1>3, <1>4, <1>5, <1>6, <1>7, <1>8 DEF ExecStep

(* Its file goes on being a chain of its own.                              *)
LEMMA ChainedSelf ==
  ASSUME TypeOK, FilesOpen, NEW e \in Execs, Own(e), Chained(e), HandleExec(e) \/ ExecStep(e)
  PROVE  Chained(e)'
<1>n. /\ step \in [Execs -> ExecSteps] /\ prev \in [Execs -> Nat] /\ audit[e] \in Seq(Line) /\ emitted \in Nat
  BY DEF TypeOK
<1>1. CASE TailHash(e)
  <2>1. path = NoFile
    BY <1>1 DEF Own, TailHash
  <2>2. prev' = [prev EXCEPT ![e] = 0] /\ step' = [step EXCEPT ![e] = "open"] /\ UNCHANGED audit
    BY <1>1, <2>1 DEF TailHash, Goto, GENESIS
  <2>3. QED
    BY <1>n, <2>2 DEF Chained, Linked, Whole, Logging
<1>2. CASE RunLogs(e)
  <2>1. step[e] \in Logging /\ fd[e] = e
    BY <1>2, EmitEffect DEF Own
  <2>2. PICK l \in Line : /\ audit'[fd[e]] = Written(audit[fd[e]], l)
                          /\ l.kind = step[e] /\ l.prev = prev[e] /\ l.hash = emitted + 1
    BY <1>2, EmitEffect
  <2>3. PICK s \in {"exec", "decoy_open", "exit", "forward"} : step' = [step EXCEPT ![e] = s]
    BY <1>2, EmitEffect
  <2>4. prev'[e] = l.hash /\ step'[e] \notin {"open", "start"}
    <3>1. prev' = [prev EXCEPT ![e] = emitted + 1]
      BY <1>2, EmitEffect
    <3>2. prev'[e] = emitted + 1
      BY <1>n, <3>1
    <3>3. step'[e] = s
      BY <1>n, <2>3
    <3>4. QED
      BY <2>2, <3>2, <3>3
  <2>5. ASSUME Whole(audit'[e])
        PROVE  /\ \E j \in DOMAIN audit'[e] : audit'[e][j].hash = prev'[e]
               /\ Linked(audit'[e])
    <3> DEFINE f == audit[e]
               g == audit'[e]
    <3>0. g = Written(f, l)
      BY <2>1, <2>2
    <3>1. g = Append(f, l) /\ Whole(f)
      <4> HIDE DEF f, g
      <4>1. f \in Seq(Line) /\ Whole(g)
        BY <1>n, <2>5 DEF f, g
      <4>2. QED
        BY <3>0, <4>1, WrittenLine
    <3>2. /\ DOMAIN g = 1 .. Len(f) + 1 /\ DOMAIN f = 1 .. Len(f) /\ Len(f) \in Nat
          /\ g[Len(f) + 1] = l
          /\ \A i \in DOMAIN f : g[i] = f[i]
          /\ \A i \in DOMAIN g : g[i] = l \/ (i \in DOMAIN f /\ g[i] = f[i])
      BY <1>n, <3>1, AppendLine
    <3>3. /\ Linked(f)
          /\ step[e] = "start" => prev[e] = 0
          /\ step[e] # "start" => \E j \in DOMAIN f : f[j].hash = prev[e]
      BY <2>1, <3>1 DEF Chained
    <3> HIDE DEF f, g
    <3>4. DOMAIN f \subseteq DOMAIN g /\ \E j \in DOMAIN g : g[j] = l
      <4>1. Len(f) + 1 \in DOMAIN g /\ DOMAIN f \subseteq DOMAIN g
        BY <3>2
      <4>2. QED
        BY <3>2, <4>1
    <3>5. Linked(g)
      BY <2>2, <3>2, <3>3, <3>4 DEF Linked
    <3>6. \E j \in DOMAIN g : g[j].hash = prev'[e]
      BY <2>4, <3>4
    <3>7. QED
      BY <3>5, <3>6 DEF g
  <2>6. QED
    BY <2>4, <2>5 DEF Chained
<1>3. CASE HandleExec(e) \/ OpenLog(e) \/ RunEndsEarly(e) \/ ForwardEnds(e)
  <2>1. UNCHANGED <<audit, prev>>
        /\ \/ step' = [step EXCEPT ![e] = "launched"]
           \/ step[e] = "open" /\ step' = [step EXCEPT ![e] = "start"]
           \/ step' = [step EXCEPT ![e] = "forward"]
           \/ step' = [step EXCEPT ![e] = "answered"]
    BY <1>3 DEF HandleExec, OpenLog, RunEndsEarly, ForwardEnds, Goto, auditVars
  <2>2. QED
    BY <1>n, <2>1 DEF Chained, Logging
<1>4. CASE ForwardOpen(e) \/ ForwardLine(e)
  <2>1. UNCHANGED <<audit, prev>>
        /\ \/ step' = [step EXCEPT ![e] = "send"]
           \/ step' = [step EXCEPT ![e] = "answered"]
           \/ UNCHANGED step
    BY <1>4 DEF ForwardOpen, ForwardLine, Goto
  <2>2. QED
    BY <1>n, <2>1 DEF Chained, Logging
<1>5. QED
  BY <1>1, <1>2, <1>3, <1>4 DEF ExecStep

(* The lines of a file with one more.                                      *)
LEMMA LinesAppend ==
  ASSUME NEW f \in Seq(Line), NEW l \in Line
  PROVE  Lines(Append(f, l)) = Lines(f) \cup {l}
<1> DEFINE g == Append(f, l)
<1>1. /\ DOMAIN g = 1 .. Len(f) + 1 /\ DOMAIN f = 1 .. Len(f) /\ Len(f) \in Nat
      /\ g[Len(f) + 1] = l /\ \A i \in DOMAIN f : g[i] = f[i]
  BY AppendLine
<1> HIDE DEF g
<1>2. ASSUME NEW x \in Lines(g) PROVE x \in Lines(f) \cup {l}
  <2>1. PICK i \in DOMAIN g : x = g[i]
    BY <1>2 DEF Lines
  <2>2. QED
    BY <1>1, <2>1 DEF Lines
<1>3. ASSUME NEW x \in Lines(f) PROVE x \in Lines(g)
  <2>1. PICK i \in DOMAIN f : x = f[i]
    BY <1>3 DEF Lines
  <2>2. i \in DOMAIN g /\ g[i] = x
    BY <1>1, <2>1
  <2>3. QED
    BY <2>2 DEF Lines
<1>4. l \in Lines(g)
  <2>1. Len(f) + 1 \in DOMAIN g
    BY <1>1
  <2>2. QED
    BY <1>1, <2>1 DEF Lines
<1>5. QED
  BY <1>2, <1>3, <1>4 DEF g

(* The first line is the only one that goes.                               *)
LEMMA LinesTail ==
  ASSUME NEW f \in Seq(Line), f # <<>>
  PROVE  Lines(f) \subseteq Lines(Tail(f)) \cup {f[1]}
<1> SUFFICES ASSUME NEW i \in DOMAIN f, i # 1 PROVE f[i] \in Lines(Tail(f))
  BY DEF Lines
<1>1. i - 1 \in DOMAIN Tail(f) /\ Tail(f)[i - 1] = f[i]
  OBVIOUS
<1>2. QED
  BY <1>1 DEF Lines

(* What has been sent stays under way until it is on the host.             *)
LEMMA WayStays ==
  ASSUME TypeOK, FilesOpen, Next, conn' = "up", vm' = "up"
  PROVE  /\ conn = "up" /\ vm = "up"
         /\ UnderWay \subseteq UnderWay'
<1>n. wire \in Seq(Line) /\ host \in Seq(Line)
  BY DEF TypeOK
<1>h. ASSUME Lines(wire) \cup Lines(host) \subseteq Lines(wire') \cup Lines(host')
      PROVE  UnderWay \subseteq UnderWay'
  BY <1>h DEF UnderWay, Hashes, Lines
<1>1. CASE DrainEvents
  <2>1. host' = Append(host, wire[1]) /\ wire # <<>> /\ wire' = Tail(wire) /\ 1 \in DOMAIN wire /\ conn' = conn
    BY <1>1, DrainEffect
  <2>2. wire[1] \in Line
    BY <1>n, <2>1
  <2>3. Lines(host') = Lines(host) \cup {wire[1]} /\ Lines(wire) \subseteq Lines(wire') \cup {wire[1]}
    BY <1>n, <2>1, <2>2, LinesAppend, LinesTail
  <2>4. vm = "up"
    BY <1>1 DEF DrainEvents, bossVars
  <2>5. QED
    BY <1>h, <2>1, <2>3, <2>4
<1>2. ASSUME NEW d \in Execs, ForwardLine(d) PROVE Lines(wire) \cup Lines(host) \subseteq Lines(wire') \cup Lines(host')
  <2>1. host' = host
    BY <1>2 DEF ForwardLine
  <2>2. wire' = wire \/ \E k \in Line : wire' = Append(wire, k)
    BY <1>2, ForwardEffect
  <2>3. QED
    BY <1>n, <2>1, <2>2, LinesAppend
<1>3. CASE \E d \in Execs : ForwardLine(d)
  <2>1. conn = "up" /\ vm = "up"
    BY <1>3 DEF ForwardLine, bossVars
  <2>2. QED
    BY <1>2, <1>3, <1>h, <2>1
<1>4. CASE UNCHANGED <<wire, host, conn, vm>>
  BY <1>h, <1>4
<1>5. ~DestroyStop
  BY DEF DestroyStop
<1>6. QED
  BY <1>1, <1>3, <1>4, <1>5
  DEF Next, ExecStep, RunLogs, HandleExec, TailHash, OpenLog, Emit, RunEndsEarly, ForwardOpen, ForwardEnds,
      DrainFile, CommitLine, LateCommit, LeaseInsert, LeaseRefused, DestroyCancel, ForwarderEnds, DestroyTells,
      hostVars, bossVars

(* What the exec's own forwardAudit has passed is under way.               *)
LEMMA PassedSelf ==
  ASSUME TypeOK, FilesOpen, Next, NEW e \in Execs, Own(e), Passed(e), HandleExec(e) \/ ExecStep(e)
  PROVE  Passed(e)'
<1> SUFFICES ASSUME conn' = "up", vm' = "up"
             PROVE  /\ \A i \in 1 .. pos'[e] : audit'[e][i].size \in {"torn", "spoilt"} \/ audit'[e][i].hash \in UnderWay'
                    /\ step'[e] = "answered" => pos'[e] = Len(audit'[e])
                                                  \/ \E i \in DOMAIN audit'[e] : audit'[e][i].size \notin {"short", "edge"}
  BY DEF Passed
<1>n. /\ step \in [Execs -> ExecSteps] /\ pos \in [Execs -> Nat] /\ audit[e] \in Seq(Line) /\ pos[e] <= Len(audit[e])
      /\ path \in Execs \cup {NoFile} /\ NoFile \notin Execs
  BY EventPathAssumption DEF TypeOK, Own
<1>w. conn = "up" /\ vm = "up" /\ UnderWay \subseteq UnderWay'
  BY WayStays
<1>o. ASSUME NEW i \in 1 .. pos[e]
      PROVE  i \in DOMAIN audit[e] /\ (audit[e][i].size \in {"torn", "spoilt"} \/ audit[e][i].hash \in UnderWay')
  <2>1. i \in DOMAIN audit[e]
    BY <1>n
  <2>2. QED
    BY <1>w, <2>1 DEF Passed
<1>1. CASE HandleExec(e) \/ TailHash(e) \/ OpenLog(e) \/ RunEndsEarly(e)
  <2>1. UNCHANGED <<audit, pos>> /\ step'[e] # "answered"
    BY <1>n, <1>1 DEF HandleExec, TailHash, OpenLog, RunEndsEarly, Goto, auditVars
  <2>2. QED
    BY <1>o, <2>1
<1>2. CASE RunLogs(e)
  <2>1. step[e] \in Logging /\ pos' = pos
    BY <1>2, EmitEffect
  <2>2. pos'[e] = 0
    BY <2>1 DEF Own, Logging
  <2>3. step'[e] # "answered"
    BY <1>n, <1>2, EmitEffect
  <2>4. QED
    BY <2>2, <2>3
<1>3. CASE ForwardOpen(e)
  <2>1. UNCHANGED <<audit, pos>>
    BY <1>3 DEF ForwardOpen
  <2>2. CASE path = NoFile
    <3>1. audit[e] = <<>>
      BY <1>n, <1>3, <2>2 DEF Own, ForwardOpen
    <3>2. pos'[e] = Len(audit'[e])
      BY <1>n, <2>1, <3>1
    <3>3. QED
      BY <1>o, <2>1, <3>2
  <2>3. CASE path # NoFile
    <3>1. step'[e] # "answered"
      BY <1>n, <1>3, <2>3 DEF ForwardOpen, Goto
    <3>2. QED
      BY <1>o, <2>1, <3>1
  <2>4. QED
    BY <2>2, <2>3
<1>4. CASE ForwardLine(e)
  <2>1. fd[e] = e /\ step'[e] = "send" /\ audit' = audit
    BY <1>4 DEF Own, ForwardLine
  <2>2. pos'[e] = pos[e] + 1
    BY <1>n, <1>4 DEF ForwardLine
  <2>3. PICK n : n = pos[e] + 1
    OBVIOUS
  <2>4. audit[e][n].size \in {"torn", "spoilt"} \/ audit[e][n].hash \in UnderWay'
    <3>1. \/ audit[e][n].size \in {"torn", "spoilt"}
          \/ \E k \in Line : wire' = Append(wire, k) /\ Same(k, audit[e][n])
      BY <1>4, <1>w, <2>1, <2>3, ForwardEffect
    <3>2. ASSUME NEW k \in Line, wire' = Append(wire, k), Same(k, audit[e][n]) PROVE audit[e][n].hash \in UnderWay'
      <4>1. k \in Lines(wire')
        BY <3>2, LinesAppend DEF TypeOK
      <4>2. QED
        BY <3>2, <4>1 DEF UnderWay, Hashes, Same
    <3>3. QED
      BY <3>1, <3>2
  <2>5. \A i \in 1 .. pos'[e] : i = n \/ i \in 1 .. pos[e]
    BY <1>n, <2>2, <2>3
  <2>6. QED
    BY <1>o, <2>1, <2>4, <2>5
<1>5. CASE ForwardEnds(e)
  <2>1. fd[e] = e /\ UNCHANGED <<audit, pos>>
    BY <1>5 DEF Own, ForwardEnds, auditVars
  <2>2. pos[e] = Len(audit[e]) \/ \E i \in DOMAIN audit[e] : audit[e][i].size \notin {"short", "edge"}
    <3>1. CASE pos[e] < Len(audit[e]) /\ audit[e][pos[e] + 1].size \in {"long", "torn", "spoilt"}
      <4>1. pos[e] + 1 \in DOMAIN audit[e]
        BY <1>n, <3>1
      <4>2. QED
        BY <3>1, <4>1
    <3>2. QED
      BY <1>5, <2>1, <3>1 DEF ForwardEnds
  <2>3. QED
    BY <1>o, <2>1, <2>2
<1>6. QED
  BY <1>1, <1>2, <1>3, <1>4, <1>5 DEF ExecStep

(* The host's and lot-boss's steps leave the guest alone, but for its end. *)
LEMMA AloneRest ==
  ASSUME TypeOK, FilesOpen, Next, NEW e \in Execs, Own(e), Chained(e), Passed(e), UNCHANGED auditVars,
         UNCHANGED step \/ DestroyStop
  PROVE  Own(e)' /\ Chained(e)' /\ Passed(e)'
<1>n. step \in [Execs -> ExecSteps] /\ UNCHANGED <<path, audit, fd, prev, pos>>
  BY DEF TypeOK, auditVars
<1>1. CASE DestroyStop
  <2>1. vm' = "dead" /\ step' = [d \in Execs |-> IF d \in Busy THEN "dead" ELSE step[d]]
    BY <1>1 DEF DestroyStop
  <2>2. step'[e] \in {step[e], "dead"} /\ (step[e] \in Logging \cup {"launched", "open", "forward", "send"} => step'[e] = "dead")
    BY <1>n, <2>1 DEF Busy, Logging
  <2>3. Busy' = {}
    BY <1>n, <2>1 DEF Busy
  <2>4. Own(e)'
    BY <1>n, <2>2, <2>3 DEF Own, Logging
  <2>5. Chained(e)'
    BY <1>n, <2>2 DEF Chained, Logging
  <2>6. QED
    BY <2>1, <2>4, <2>5 DEF Passed
<1>2. CASE UNCHANGED step
  <2>1. Busy' = Busy
    BY <1>2 DEF Busy
  <2>2. Own(e)' /\ Chained(e)'
    BY <1>n, <1>2, <2>1 DEF Own, Chained
  <2>3. Passed(e)'
    BY <1>n, <1>2, WayStays DEF Passed
  <2>4. QED
    BY <2>2, <2>3
<1>3. QED
  BY <1>1, <1>2

(* The invariant of an exec that overlaps none is kept by every step.      *)
LEMMA NextAlone == TypeOK /\ FilesOpen /\ AloneInv /\ Next => AloneInv'
<1> SUFFICES ASSUME TypeOK, FilesOpen, AloneInv, Next, NEW e \in Execs, e \notin overlapped'
             PROVE  Own(e)' /\ Chained(e)' /\ Passed(e)'
  BY DEF AloneInv
<1>1. e \notin overlapped
  BY DEF Next, ExecStep, RunLogs, HandleExec, Overlaps, TailHash, OpenLog, Emit, RunEndsEarly, ForwardOpen, ForwardLine,
         ForwardEnds, DrainEvents, DrainFile, CommitLine, LateCommit, LeaseInsert, LeaseRefused, DestroyCancel,
         ForwarderEnds, DestroyStop, DestroyTells
<1>2. Own(e) /\ Chained(e) /\ Passed(e)
  BY <1>1 DEF AloneInv
<1>3. CASE HandleExec(e) \/ ExecStep(e)
  BY <1>2, <1>3, OwnSelf, ChainedSelf, PassedSelf
<1>4. ASSUME NEW d \in Execs, d # e, HandleExec(d) \/ ExecStep(d) PROVE Own(e)' /\ Chained(e)' /\ Passed(e)'
  <2>1. Own(e)' /\ audit'[e] = audit[e]
    BY <1>1, <1>2, <1>4, OwnOther
  <2>2. step'[e] = step[e] /\ prev'[e] = prev[e] /\ pos'[e] = pos[e]
    BY <1>4, OtherLocals
  <2>3. Chained(e)'
    BY <1>2, <2>1, <2>2 DEF Chained
  <2>4. Passed(e)'
    BY <1>2, <2>1, <2>2, WayStays DEF Passed
  <2>5. QED
    BY <2>1, <2>3, <2>4
<1>5. CASE UNCHANGED auditVars /\ (UNCHANGED step \/ DestroyStop)
  BY <1>2, <1>5, AloneRest
<1>6. QED
  BY <1>3, <1>4, <1>5
  DEF Next, DrainEvents, DrainFile, CommitLine, LateCommit, LeaseInsert, LeaseRefused, DestroyCancel, ForwarderEnds,
      DestroyStop, DestroyTells

(* Whatever else runs, an exec that overlaps none owns its audit file,     *)
(* which is a chain, and forwards all of it.                               *)
THEOREM AloneSafe == Spec => []AloneInv
<1>1. Init => AloneInv
  <2> SUFFICES ASSUME Init, NEW e \in Execs PROVE Own(e) /\ Chained(e) /\ Passed(e)
    BY DEF AloneInv
  <2>1. NoFile # e
    BY EventPathAssumption
  <2>2. step[e] = "idle" /\ Busy = {} /\ audit[e] = <<>> /\ pos[e] = 0 /\ path = NoFile
        /\ \A d \in Execs : fd[d] = NoFile /\ audit[d] = <<>>
    BY DEF Init, Busy
  <2>3. QED
    BY <2>1, <2>2 DEF Own, Chained, Passed, Logging, Linked
<1>2. FifoInv /\ AloneInv /\ [Next]_vars => AloneInv'
  <2> SUFFICES ASSUME FifoInv, AloneInv, [Next]_vars PROVE AloneInv'
    OBVIOUS
  <2>1. CASE Next
    BY <2>1, NextAlone DEF FifoInv, PathInv
  <2>2. CASE UNCHANGED vars
    <3>1. UNCHANGED <<step, path, audit, fd, prev, pos, overlapped, conn, vm, wire, host>>
      BY <2>2 DEF vars, auditVars, hostVars, bossVars
    <3>2. QED
      BY <3>1 DEF AloneInv, Own, Chained, Passed, Busy, UnderWay
  <2>3. QED
    BY <2>1, <2>2
<1>3. QED
  BY <1>1, <1>2, PathSafe, PTL DEF Spec

(* respondExec forwards before it answers: an answered exec that           *)
(* overlapped none has all its events on the way to the host, one chain,   *)
(* whatever overlapping execs did before it.                               *)
THEOREM AnsweredSentHolds == Spec => []AnsweredSent
<1>1. FifoInv /\ AloneInv => AnsweredSent
  <2> SUFFICES ASSUME FifoInv, AloneInv, NEW e \in Execs, step[e] = "answered", Forwardable(e), conn = "up", vm = "up"
               PROVE  /\ Hashes(EventsOf(e)) \subseteq UnderWay
                      /\ \A l \in EventsOf(e) :
                           IF l.kind = "start" THEN l.prev = GENESIS ELSE l.prev \in Hashes(EventsOf(e))
    BY DEF AnsweredSent, UnderWay
  <2>1. Own(e) /\ Chained(e) /\ Passed(e)
    BY DEF AloneInv, Forwardable
  <2>2. EventsOf(e) = Lines(audit[e])
    BY <2>1 DEF EventsOf, Lines, Own
  <2>3. \A i \in DOMAIN audit[e] : audit[e][i].size \in {"short", "edge"}
    BY <2>2 DEF Forwardable, Lines
  <2>4. DOMAIN audit[e] = 1 .. pos[e]
    <3>1. audit[e] \in Seq(Line)
      BY DEF FifoInv, PathInv, TypeOK
    <3>2. pos[e] = Len(audit[e])
      BY <2>1, <2>3 DEF Passed
    <3>3. QED
      BY <3>1, <3>2
  <2>5. \A i \in DOMAIN audit[e] : audit[e][i].hash \in UnderWay
    BY <2>1, <2>3, <2>4 DEF Passed
  <2>6. Linked(audit[e])
    BY <2>1, <2>3 DEF Chained, Whole
  <2>7. QED
    BY <2>2, <2>5, <2>6 DEF Hashes, Lines, Linked, GENESIS
<1>2. QED
  BY <1>1, PathSafe, AloneSafe, PTL
=============================================================================
