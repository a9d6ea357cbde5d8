----------------------------- MODULE DeskProofs -----------------------------
(***************************************************************************)
(* Proofs about Desk, for every set of worlds, every mapping of ids to     *)
(* files and every number of commits.                                      *)
(***************************************************************************)
EXTENDS Desk, TLAPS

(* f.Write under O_APPEND moves no complete line, and what it makes        *)
(* readable is the line written.                                           *)
LEMMA WriteLineAppends ==
  ASSUME NEW f \in Seq(Line), NEW l \in Line
  PROVE  /\ WriteLine(f, l) \in Seq(Line)
         /\ Keeps(f, WriteLine(f, l))
         /\ \A i \in Readable(WriteLine(f, l)) :
              \/ i \in Readable(f) /\ WriteLine(f, l)[i] = f[i]
              \/ WriteLine(f, l)[i].ev = l.ev
<1> DEFINE g == WriteLine(f, l)
<1>1. CASE f # <<>> /\ f[Len(f)].form \in Unterminated
  <2> DEFINE m == [form |-> IF l.form \in Unterminated THEN "cut" ELSE "junk", ev |-> l.ev]
  <2>1. m \in Line /\ m.ev = l.ev
    BY DEF Line
  <2>2. g = [f EXCEPT ![Len(f)] = m]
    BY <1>1 DEF WriteLine
  <2> HIDE DEF m
  <2>3. Len(f) \in DOMAIN f /\ g \in Seq(Line) /\ DOMAIN g = DOMAIN f
    BY <1>1, <2>1, <2>2
  <2>4. \A i \in DOMAIN f : g[i] = IF i = Len(f) THEN m ELSE f[i]
    BY <2>2, <2>3
  <2>5. QED
    BY <1>1, <2>1, <2>3, <2>4 DEF Keeps, Readable, Unterminated
<1>2. CASE ~(f # <<>> /\ f[Len(f)].form \in Unterminated)
  <2>1. g = Append(f, l)
    BY <1>2 DEF WriteLine
  <2>2. /\ g \in Seq(Line)
        /\ DOMAIN f = 1 .. Len(f) /\ DOMAIN g = 1 .. Len(f) + 1
        /\ \A i \in DOMAIN f : g[i] = f[i]
        /\ g[Len(f) + 1] = l
    BY <2>1
  <2>3. QED
    BY <2>2 DEF Keeps, Readable
<1>3. QED
  BY <1>1, <1>2

(* The same of an append that fails half way.                              *)
LEMMA FailedAppendAppends ==
  ASSUME NEW f \in Seq(Line), NEW l \in Line, NEW fault \in Faults
  PROVE  /\ FailedAppend(f, l, fault) \in Seq(Line)
         /\ Keeps(f, FailedAppend(f, l, fault))
         /\ \A i \in Readable(FailedAppend(f, l, fault)) :
              \/ i \in Readable(f) /\ FailedAppend(f, l, fault)[i] = f[i]
              \/ FailedAppend(f, l, fault)[i].ev = l.ev
<1>1. CASE fault = "none"
  BY <1>1 DEF FailedAppend, Keeps
<1>2. CASE fault = "sync"
  BY <1>2, WriteLineAppends DEF FailedAppend
<1>3. CASE fault = "cut"
  <2> DEFINE m == [l EXCEPT !.form = "cut"]
  <2>1. m \in Line /\ m.ev = l.ev
    BY DEF Line
  <2>2. FailedAppend(f, l, fault) = WriteLine(f, m)
    BY <1>3 DEF FailedAppend
  <2> HIDE DEF m
  <2>3. /\ WriteLine(f, m) \in Seq(Line)
        /\ Keeps(f, WriteLine(f, m))
        /\ \A i \in Readable(WriteLine(f, m)) :
             \/ i \in Readable(f) /\ WriteLine(f, m)[i] = f[i]
             \/ WriteLine(f, m)[i].ev = m.ev
    BY <2>1, WriteLineAppends
  <2>4. QED
    BY <2>1, <2>2, <2>3
<1>4. CASE fault = "bare"
  <2> DEFINE m == [l EXCEPT !.form = "bare"]
  <2>1. m \in Line /\ m.ev = l.ev
    BY DEF Line
  <2>2. FailedAppend(f, l, fault) = WriteLine(f, m)
    BY <1>4 DEF FailedAppend
  <2> HIDE DEF m
  <2>3. /\ WriteLine(f, m) \in Seq(Line)
        /\ Keeps(f, WriteLine(f, m))
        /\ \A i \in Readable(WriteLine(f, m)) :
             \/ i \in Readable(f) /\ WriteLine(f, m)[i] = f[i]
             \/ WriteLine(f, m)[i].ev = m.ev
    BY <2>1, WriteLineAppends
  <2>4. QED
    BY <2>1, <2>2, <2>3
<1>5. QED
  BY <1>1, <1>2, <1>3, <1>4 DEF Faults

(* The line Commit writes is well formed.                                  *)
LEMMA NewEventType ==
  ASSUME TypeOK, NEW w \in Worlds, NEW size \in Sizes
  PROVE  /\ NewEvent(w, size) \in Event
         /\ Whole(NewEvent(w, size)) \in Line
         /\ Whole(NewEvent(w, size)).ev = NewEvent(w, size)
BY DeskAssumption DEF TypeOK, NewEvent, Whole, Event, Line, GenesisPrev

(* The event between its two appends is an event of one of the worlds.     *)
LEMMA PendingType ==
  ASSUME TypeOK, pending # NoEvent
  PROVE  /\ pending \in Event /\ pending.world \in Worlds /\ FileOf[pending.world] \in Files
         /\ Whole(pending) \in Line /\ Whole(pending).ev = pending
BY DeskAssumption DEF TypeOK, Whole, Event, Line

-----------------------------------------------------------------------------
(* Every step keeps the types, whatever fails.                             *)
LEMMA NextType == TypeOK /\ [Next]_vars => TypeOK'
<1> SUFFICES ASSUME TypeOK, [Next]_vars PROVE TypeOK'
  OBVIOUS
<1>1. ASSUME NEW w \in Worlds, NEW size \in Sizes, CommitGlobal(w, size) PROVE TypeOK'
  BY <1>1, NewEventType, WriteLineAppends DEF CommitGlobal, TypeOK
<1>2. ASSUME NEW w \in Worlds, NEW size \in Sizes, NEW fault \in GlobalFaults,
             CommitGlobalFails(w, size, fault)
      PROVE TypeOK'
  BY <1>2, NewEventType, FailedAppendAppends, DeskAssumption DEF CommitGlobalFails, TypeOK
<1>3. ASSUME CommitWorld PROVE TypeOK'
  <2>1. pending # NoEvent /\ pending.hash \in Nat
    BY <1>3 DEF CommitWorld, TypeOK, Event
  <2>2. WriteLine(file[FileOf[pending.world]], Whole(pending)) \in Seq(Line)
    BY <2>1, PendingType, WriteLineAppends DEF TypeOK
  <2>3. QED
    BY <1>3, <2>1, <2>2, PendingType DEF CommitWorld, TypeOK
<1>4. ASSUME NEW fault \in WorldFaults, CommitWorldFails(fault) PROVE TypeOK'
  <2>1. pending # NoEvent
    BY <1>4 DEF CommitWorldFails
  <2>2. FailedAppend(file[FileOf[pending.world]], Whole(pending), fault) \in Seq(Line)
    BY <2>1, PendingType, FailedAppendAppends, DeskAssumption DEF TypeOK
  <2>3. QED
    BY <1>4, <2>1, <2>2, PendingType DEF CommitWorldFails, TypeOK
<1>5. ASSUME Crash PROVE TypeOK'
  BY <1>5 DEF Crash, TypeOK, GenesisPrev
<1>6. ASSUME NewStore PROVE TypeOK'
  <2>1. seq' \in Nat /\ tip' \in [Worlds -> Nat]
    BY <1>6 DEF NewStore, TypeOK
  <2>2. QED
    BY <1>6, <2>1 DEF NewStore, TypeOK
<1>7. ASSUME NewStoreFails PROVE TypeOK'
  BY <1>7 DEF NewStoreFails, TypeOK
<1>8. ASSUME NEW w \in Worlds, Poll(w) PROVE TypeOK'
  <2>1. \A e \in ListWorld(w) : e.hash \in Nat /\ e.seq \in Nat
    <3> SUFFICES ASSUME NEW e \in ListWorld(w) PROVE e.hash \in Nat /\ e.seq \in Nat
      OBVIOUS
    <3>1. file[FileOf[w]] \in Seq(Line)
      BY DeskAssumption DEF TypeOK
    <3>2. PICK i \in DOMAIN file[FileOf[w]] : e = file[FileOf[w]][i].ev
      BY DEF ListWorld
    <3>3. file[FileOf[w]][i] \in Line
      BY <3>1, <3>2
    <3>4. QED
      BY <3>2, <3>3 DEF Line, Event
  <2>2. {e.hash : e \in ListWorld(w)} \subseteq Nat
    BY <2>1
  <2>3. seen' \in [Worlds -> SUBSET Nat]
    BY <1>8, <2>2 DEF Poll, TypeOK
  <2>4. PICK e \in ListWorld(w) : cursor' = [cursor EXCEPT ![w] = e.seq]
    BY <1>8 DEF Poll
  <2>5. cursor' \in [Worlds -> Nat]
    BY <2>1, <2>4 DEF TypeOK
  <2>6. QED
    BY <1>8, <2>3, <2>5 DEF Poll, TypeOK
<1>9. ASSUME UNCHANGED vars PROVE TypeOK'
  BY <1>9 DEF vars, TypeOK
<1>10. QED
  BY <1>1, <1>2, <1>3, <1>4, <1>5, <1>6, <1>7, <1>8, <1>9 DEF Next

(* The store's memory, files and auditors keep their types.                *)
THEOREM TypeCorrect == Spec => []TypeOK
<1>1. Init => TypeOK
  BY DEF Init, TypeOK, GenesisPrev
<1>2. QED
  BY <1>1, NextType, PTL DEF Spec

(* No step moves or changes a complete line of any file.                   *)
LEMMA KeepsStep ==
  ASSUME TypeOK, [Next]_vars
  PROVE  Keeps(global, global') /\ \A f \in Files : Keeps(file[f], file'[f])
<1> DEFINE Kept == Keeps(global, global') /\ \A f \in Files : Keeps(file[f], file'[f])
<1>1. \A f : Keeps(f, f)
  BY DEF Keeps
<1>2. ASSUME NEW w \in Worlds, NEW size \in Sizes, CommitGlobal(w, size) PROVE Kept
  BY <1>1, <1>2, NewEventType, WriteLineAppends DEF CommitGlobal, TypeOK
<1>3. ASSUME NEW w \in Worlds, NEW size \in Sizes, NEW fault \in GlobalFaults,
             CommitGlobalFails(w, size, fault)
      PROVE Kept
  BY <1>1, <1>3, NewEventType, FailedAppendAppends, DeskAssumption
  DEF CommitGlobalFails, TypeOK
<1>4. ASSUME CommitWorld PROVE Kept
  <2>1. pending # NoEvent /\ FileOf[pending.world] \in Files
    BY <1>4, PendingType DEF CommitWorld
  <2>2. Keeps(file[FileOf[pending.world]], WriteLine(file[FileOf[pending.world]], Whole(pending)))
    BY <2>1, PendingType, WriteLineAppends DEF TypeOK
  <2>3. QED
    BY <1>1, <1>4, <2>1, <2>2 DEF CommitWorld, TypeOK
<1>5. ASSUME NEW fault \in WorldFaults, CommitWorldFails(fault) PROVE Kept
  <2>1. pending # NoEvent /\ FileOf[pending.world] \in Files
    BY <1>5, PendingType DEF CommitWorldFails
  <2>2. Keeps(file[FileOf[pending.world]],
              FailedAppend(file[FileOf[pending.world]], Whole(pending), fault))
    BY <2>1, PendingType, FailedAppendAppends, DeskAssumption DEF TypeOK
  <2>3. QED
    BY <1>1, <1>5, <2>1, <2>2 DEF CommitWorldFails, TypeOK
<1>6. CASE UNCHANGED <<global, file>>
  BY <1>1, <1>6
<1>7. QED
  BY <1>2, <1>3, <1>4, <1>5, <1>6 DEF Next, Crash, NewStore, NewStoreFails, Poll, vars

(* "No overwrite path exists" (store.go): whatever fails, and however often *)
(* the desk crashes, no complete line of any file is moved or changed.      *)
THEOREM AppendOnlyHolds == Spec => AppendOnly
<1> DEFINE Kept == Keeps(global, global') /\ \A f \in Files : Keeps(file[f], file'[f])
<1>1. TypeOK /\ [Next]_vars => [Kept]_vars
  BY KeepsStep
<1>2. QED
  BY <1>1, TypeCorrect, PTL DEF Spec, AppendOnly

-----------------------------------------------------------------------------
(* A log of complete, short lines is readable throughout, and an append to *)
(* it is a line of its own.                                                *)
LEMMA CleanLog ==
  ASSUME TypeOK, GlobalWhole
  PROVE  /\ Readable(global) = DOMAIN global /\ Intact(global) = DOMAIN global
         /\ \A l : WriteLine(global, l) = Append(global, l)
<1>1. Readable(global) = DOMAIN global /\ Intact(global) = DOMAIN global
  BY DEF GlobalWhole, Readable, Intact
<1>2. global # <<>> => Len(global) \in DOMAIN global
  BY DEF TypeOK
<1>3. QED
  BY <1>1, <1>2 DEF GlobalWhole, WriteLine, Unterminated

(* Commit's append to global.jsonl keeps the invariant: the number it takes *)
(* is new, and so ahead of every auditor; the tip it links to is logged.    *)
LEMMA CommitGlobalInv ==
  ASSUME DeskInv, Sizes \subseteq {"short"},
         NEW w \in Worlds, NEW size \in Sizes, CommitGlobal(w, size)
  PROVE  DeskInv'
<1> DEFINE e == NewEvent(w, size)
           n == Len(global)
<1>1. TypeOK /\ GlobalWhole /\ up = "up" /\ seq \in Nat /\ n \in Nat
  BY DEF DeskInv, CommitGlobal, CanCommit, TypeOK
<1>2. /\ e \in Event /\ Whole(e) \in Line /\ Whole(e).ev = e /\ Whole(e).form = "whole"
      /\ e.seq = seq + 1 /\ e.world = w /\ e.prev = tip[w] /\ e.size = "short"
  BY <1>1, NewEventType DEF NewEvent, Whole
<1>3. TypeOK'
  BY <1>1, NextType DEF Next
<1>4. global' = Append(global, Whole(e)) /\ pending' = e
  BY <1>1, CleanLog DEF CommitGlobal
<1> HIDE DEF e
<1>5. /\ DOMAIN global = 1 .. n /\ DOMAIN global' = 1 .. n + 1 /\ Len(global') = n + 1
      /\ \A i \in 1 .. n : global'[i] = global[i]
      /\ global'[n + 1] = Whole(e)
  BY <1>1, <1>2, <1>4 DEF TypeOK
<1> HIDE DEF n
<1>6. GlobalWhole'
  BY <1>1, <1>2, <1>5 DEF GlobalWhole
<1>7. /\ Readable(global) = 1 .. n /\ Readable(global') = 1 .. n + 1
      /\ Intact(global) = 1 .. n /\ Intact(global') = 1 .. n + 1
  BY <1>1, <1>5, <1>6 DEF GlobalWhole, Readable, Intact
<1>8. /\ \A i \in 1 .. n : global[i].ev.seq \in Nat /\ global[i].ev.seq <= seq
      /\ \A v \in Worlds : cursor[v] \in Nat /\ cursor[v] <= seq
  <2>1. \A i \in 1 .. n : global[i] \in Line
    BY <1>1, <1>5 DEF TypeOK
  <2>2. \A i \in 1 .. n : global[i].ev.seq \in Nat
    BY <2>1 DEF Line, Event
  <2>3. \A i \in 1 .. n : global[i].ev.seq <= seq
    BY <1>1, <1>5 DEF DeskInv, SeqCoversGlobal
  <2>4. \A v \in Worlds : cursor[v] \in Nat
    BY <1>1 DEF TypeOK
  <2>5. \A v \in Worlds : cursor[v] = 0 \/ \E i \in 1 .. n : global[i].ev.seq = cursor[v]
    BY <1>5 DEF DeskInv, CursorInGlobal
  <2>6. QED
    BY <1>1, <2>2, <2>3, <2>4, <2>5
<1>9. SeqCoversGlobal'
  BY <1>1, <1>2, <1>5, <1>8 DEF SeqCoversGlobal, CommitGlobal
<1>10. PendingIsLast'
  BY <1>1, <1>2, <1>4, <1>5, <1>8 DEF PendingIsLast, CommitGlobal
<1>11. TipInGlobal'
  BY <1>1, <1>5 DEF DeskInv, TipInGlobal, CommitGlobal
<1>12. CursorInGlobal'
  BY <1>1, <1>5 DEF DeskInv, CursorInGlobal, CommitGlobal
<1>13. GlobalSeqStrict'
  BY <1>1, <1>2, <1>5, <1>7, <1>8 DEF DeskInv, GlobalSeqStrict
<1>14. LinksLeadBack'
  <2> SUFFICES ASSUME NEW i \in 1 .. n + 1
               PROVE \/ global'[i].ev.prev = GenesisPrev
                     \/ \E j \in 1 .. n + 1 :
                          /\ j < i
                          /\ global'[j].ev.world = global'[i].ev.world
                          /\ global'[j].ev.hash = global'[i].ev.prev
    BY <1>7 DEF LinksLeadBack
  <2>1. CASE i \in 1 .. n
    <3>1. \/ global[i].ev.prev = GenesisPrev
          \/ \E j \in 1 .. n :
               /\ j < i
               /\ global[j].ev.world = global[i].ev.world
               /\ global[j].ev.hash = global[i].ev.prev
      BY <1>7, <2>1 DEF DeskInv, LinksLeadBack
    <3>2. \A j \in 1 .. n : j \in 1 .. n + 1 /\ global'[j] = global[j]
      BY <1>1, <1>5
    <3>3. QED
      BY <2>1, <3>1, <3>2
  <2>2. CASE i = n + 1
    BY <1>1, <1>2, <1>5, <2>2 DEF DeskInv, TipInGlobal
  <2>3. QED
    BY <1>1, <2>1, <2>2
<1>15. WorldFilesInGlobal'
  BY <1>1, <1>5, <1>7 DEF DeskInv, WorldFilesInGlobal, CommitGlobal
<1>16. AuditorMissesNothing'
  BY DEF DeskInv, AuditorMissesNothing, CommitGlobal
<1>17. QED
  BY <1>3, <1>6, <1>9, <1>10, <1>11, <1>12, <1>13, <1>14, <1>15, <1>16 DEF DeskInv

(* What the second append leaves in the world's file, whole or in part, is *)
(* the pending event, which the log has and no auditor has passed.         *)
LEMMA WorldAppendInv ==
  ASSUME DeskInv, pending # NoEvent, NEW g \in Seq(Line),
         file' = [file EXCEPT ![FileOf[pending.world]] = g],
         \A i \in Readable(g) :
           \/ i \in Readable(file[FileOf[pending.world]]) /\ g[i] = file[FileOf[pending.world]][i]
           \/ g[i].ev = pending,
         UNCHANGED <<global, cursor, seen>>
  PROVE  WorldFilesInGlobal' /\ AuditorMissesNothing'
<1>1. /\ TypeOK /\ pending.world \in Worlds /\ FileOf[pending.world] \in Files
      /\ \A w \in Worlds : FileOf[w] \in Files
  BY PendingType, DeskAssumption DEF DeskInv
<1>2. \A f \in Files : \A i \in Readable(file'[f]) :
        \/ i \in Readable(file[f]) /\ file'[f][i] = file[f][i]
        \/ file'[f][i].ev = pending
  BY <1>1 DEF TypeOK
<1>3. \E j \in Readable(global) : global[j].ev = pending
  <2>1. Len(global) \in DOMAIN global
    BY <1>1 DEF DeskInv, PendingIsLast, TypeOK
  <2>2. QED
    BY <1>1, <2>1, CleanLog DEF DeskInv, PendingIsLast
<1>4. WorldFilesInGlobal'
  BY <1>2, <1>3 DEF DeskInv, WorldFilesInGlobal
<1>5. \A w \in Worlds : ~(pending.seq <= cursor[w])
  BY <1>1 DEF DeskInv, PendingIsLast, TypeOK, Event
<1>6. AuditorMissesNothing'
  BY <1>1, <1>2, <1>5 DEF DeskInv, AuditorMissesNothing
<1>7. QED
  BY <1>4, <1>6

(* Replay: the counter and the tips it rebuilds come from the log.         *)
LEMMA NewStoreInv ==
  ASSUME DeskInv, NewStore
  PROVE  DeskInv'
<1>1. TypeOK'
  BY NextType DEF DeskInv, Next
<1>2. SeqCoversGlobal'
  BY DEF NewStore, ReplaySeq, SeqCoversGlobal
<1>3. TipInGlobal'
  <2>1. \A w \in Worlds : LastHash(w, tip'[w])
    BY DEF NewStore, ReplayTip
  <2>2. QED
    BY <2>1 DEF LastHash, TipInGlobal, NewStore
<1>4. PendingIsLast'
  BY DEF DeskInv, PendingIsLast, NewStore
<1>5. QED
  BY <1>1, <1>2, <1>3, <1>4
  DEF DeskInv, NewStore, GlobalWhole, CursorInGlobal, GlobalSeqStrict, LinksLeadBack,
      WorldFilesInGlobal, AuditorMissesNothing

(* A poll moves the cursor to an event of the log and takes all before it. *)
LEMMA PollInv ==
  ASSUME DeskInv, NEW w \in Worlds, Poll(w)
  PROVE  DeskInv'
<1> DEFINE f == file[FileOf[w]]
<1>1. TypeOK /\ f \in Seq(Line) /\ Scannable(f)
  BY DeskAssumption DEF DeskInv, TypeOK, Poll, ListFails
<1>2. TypeOK'
  BY NextType DEF DeskInv, Next
<1>3. PICK e \in ListWorld(w) : cursor' = [cursor EXCEPT ![w] = e.seq]
  BY DEF Poll
<1>4. PICK k \in Readable(f) : e = f[k].ev
  BY <1>1 DEF ListWorld, Scannable
<1>5. PICK j \in DOMAIN global : global[j].ev.seq = e.seq
  BY <1>4, DeskAssumption DEF DeskInv, WorldFilesInGlobal, Readable
<1>6. CursorInGlobal'
  BY <1>1, <1>3, <1>5 DEF DeskInv, TypeOK, CursorInGlobal, Poll
<1>7. AuditorMissesNothing'
  <2> SUFFICES ASSUME NEW v \in Worlds, NEW i \in Readable(file[FileOf[v]]),
                      file[FileOf[v]][i].ev.world = v,
                      file[FileOf[v]][i].ev.seq <= cursor'[v]
               PROVE file[FileOf[v]][i].ev.hash \in seen'[v]
    BY DEF Poll, AuditorMissesNothing
  <2>1. CASE v # w
    BY <1>1, <2>1 DEF DeskInv, AuditorMissesNothing, Poll, TypeOK
  <2>2. CASE v = w /\ file[FileOf[v]][i].ev.seq <= cursor[w]
    BY <1>1, <2>2 DEF DeskInv, AuditorMissesNothing, Poll, TypeOK
  <2>3. CASE v = w /\ ~(file[FileOf[v]][i].ev.seq <= cursor[w])
    <3>1. f[i] \in Line /\ cursor[w] \in Nat
      BY <1>1, <2>3 DEF Readable, TypeOK
    <3>2. f[i].ev \in ListWorld(w)
      BY <2>3, <3>1 DEF ListWorld, Readable, Line, Event
    <3>3. QED
      BY <1>1, <2>3, <3>2 DEF Poll, TypeOK
  <2>4. QED
    BY <2>1, <2>2, <2>3
<1>8. QED
  BY <1>2, <1>6, <1>7
  DEF DeskInv, Poll, GlobalWhole, SeqCoversGlobal, PendingIsLast, TipInGlobal, GlobalSeqStrict,
      LinksLeadBack, WorldFilesInGlobal

(* Every step keeps the invariant, when a failed append to global.jsonl    *)
(* leaves nothing behind and every line fits the scanner's buffer.         *)
LEMMA NextInv ==
  ASSUME GlobalFaults \subseteq {"none"}, Sizes \subseteq {"short"}
  PROVE  DeskInv /\ [Next]_vars => DeskInv'
<1> SUFFICES ASSUME DeskInv, [Next]_vars PROVE DeskInv'
  OBVIOUS
<1> USE DEF GlobalWhole, SeqCoversGlobal, PendingIsLast, TipInGlobal, CursorInGlobal,
            GlobalSeqStrict, LinksLeadBack, WorldFilesInGlobal, AuditorMissesNothing
<1>1. TypeOK'
  BY NextType DEF DeskInv
<1>2. ASSUME NEW w \in Worlds, NEW size \in Sizes, CommitGlobal(w, size) PROVE DeskInv'
  BY <1>2, CommitGlobalInv
<1>3. ASSUME NEW w \in Worlds, NEW size \in Sizes, NEW fault \in GlobalFaults,
             CommitGlobalFails(w, size, fault)
      PROVE DeskInv'
  <2>1. fault = "none"
    BY <1>3
  <2>2. global' = global
    BY <1>3, <2>1 DEF CommitGlobalFails, FailedAppend
  <2>3. QED
    BY <1>1, <1>3, <2>2 DEF DeskInv, CommitGlobalFails
<1>4. ASSUME CommitWorld PROVE DeskInv'
  <2> DEFINE f == file[FileOf[pending.world]]
             g == WriteLine(f, Whole(pending))
  <2>1. pending # NoEvent /\ TypeOK
    BY <1>4 DEF CommitWorld, DeskInv
  <2>2. f \in Seq(Line) /\ Whole(pending) \in Line /\ Whole(pending).ev = pending /\ pending.world \in Worlds
    BY <2>1, PendingType DEF TypeOK
  <2>3. /\ g \in Seq(Line)
        /\ \A i \in Readable(g) : (i \in Readable(f) /\ g[i] = f[i]) \/ g[i].ev = pending
    BY <2>2, WriteLineAppends
  <2>4. file' = [file EXCEPT ![FileOf[pending.world]] = g] /\ UNCHANGED <<global, cursor, seen>>
    BY <1>4 DEF CommitWorld
  <2> HIDE DEF g
  <2>5. WorldFilesInGlobal' /\ AuditorMissesNothing'
    BY <2>1, <2>3, <2>4, WorldAppendInv
  <2>6. TipInGlobal'
    <3>1. Len(global) \in DOMAIN global /\ global[Len(global)].ev = pending
      BY <2>1 DEF DeskInv, TypeOK
    <3>2. QED
      BY <1>4, <2>1, <2>2, <3>1 DEF CommitWorld, DeskInv, TypeOK
  <2>7. QED
    BY <1>1, <1>4, <2>5, <2>6 DEF DeskInv, CommitWorld
<1>5. ASSUME NEW fault \in WorldFaults, CommitWorldFails(fault) PROVE DeskInv'
  <2> DEFINE f == file[FileOf[pending.world]]
             g == FailedAppend(f, Whole(pending), fault)
  <2>1. pending # NoEvent /\ TypeOK /\ fault \in Faults
    BY <1>5, DeskAssumption DEF CommitWorldFails, DeskInv
  <2>2. f \in Seq(Line) /\ Whole(pending) \in Line /\ Whole(pending).ev = pending
    BY <2>1, PendingType DEF TypeOK
  <2>3. /\ g \in Seq(Line)
        /\ \A i \in Readable(g) : (i \in Readable(f) /\ g[i] = f[i]) \/ g[i].ev = pending
    BY <2>1, <2>2, FailedAppendAppends
  <2>4. file' = [file EXCEPT ![FileOf[pending.world]] = g] /\ UNCHANGED <<global, cursor, seen>>
    BY <1>5 DEF CommitWorldFails
  <2> HIDE DEF g
  <2>5. WorldFilesInGlobal' /\ AuditorMissesNothing'
    BY <2>1, <2>3, <2>4, WorldAppendInv
  <2>6. QED
    BY <1>1, <1>5, <2>5 DEF DeskInv, CommitWorldFails
<1>6. ASSUME Crash PROVE DeskInv'
  BY <1>1, <1>6 DEF DeskInv, Crash
<1>7. ASSUME NewStore PROVE DeskInv'
  BY <1>7, NewStoreInv
<1>8. ASSUME NewStoreFails PROVE DeskInv'
  BY <1>1, <1>8 DEF DeskInv, NewStoreFails
<1>9. ASSUME NEW w \in Worlds, Poll(w) PROVE DeskInv'
  BY <1>9, PollInv
<1>10. ASSUME UNCHANGED vars PROVE DeskInv'
  BY <1>1, <1>10 DEF DeskInv, vars
<1>11. QED
  BY <1>2, <1>3, <1>4, <1>5, <1>6, <1>7, <1>8, <1>9, <1>10 DEF Next

(* The global sequence proves the order of ingest, no link of the log      *)
(* dangles and an auditor misses nothing, in every reachable state of      *)
(* a desk whose failed appends to global.jsonl leave nothing behind,       *)
(* whatever happens to the world files and wherever the process dies.      *)
THEOREM DeskSafe ==
  ASSUME GlobalFaults \subseteq {"none"}, Sizes \subseteq {"short"}
  PROVE  Spec => []DeskInv
<1>1. Init => DeskInv
  <2> SUFFICES ASSUME Init PROVE DeskInv
    OBVIOUS
  <2>1. TypeOK
    BY DEF Init, TypeOK, GenesisPrev
  <2>2. /\ DOMAIN global = {} /\ Readable(global) = {} /\ Intact(global) = {}
        /\ \A w \in Worlds : Readable(file[FileOf[w]]) = {}
        /\ \A f \in Files : Readable(file[f]) = {}
    BY DeskAssumption DEF Init, Readable, Intact
  <2>3. GlobalWhole /\ SeqCoversGlobal /\ GlobalSeqStrict /\ LinksLeadBack
    BY <2>2 DEF GlobalWhole, SeqCoversGlobal, GlobalSeqStrict, LinksLeadBack
  <2>4. PendingIsLast /\ TipInGlobal /\ CursorInGlobal
    BY DEF Init, PendingIsLast, TipInGlobal, CursorInGlobal
  <2>5. WorldFilesInGlobal /\ AuditorMissesNothing
    BY <2>2 DEF WorldFilesInGlobal, AuditorMissesNothing
  <2>6. QED
    BY <2>1, <2>3, <2>4, <2>5 DEF DeskInv
<1>2. DeskInv /\ [Next]_vars => DeskInv'
  BY NextInv
<1>3. QED
  BY <1>1, <1>2, PTL DEF Spec

(* docs/prd.md 15.4: the sequence numbers in the log give the ingest order. *)
THEOREM GlobalSeqStrictHolds ==
  ASSUME GlobalFaults \subseteq {"none"}, Sizes \subseteq {"short"}
  PROVE  Spec => []GlobalSeqStrict
<1>1. DeskInv => GlobalSeqStrict
  BY DEF DeskInv
<1>2. QED
  BY <1>1, DeskSafe, PTL

(* Commit takes prev_hash from the tip: every link in the log leads back to *)
(* an earlier event of the same world, wherever the process dies.           *)
THEOREM LinksLeadBackHolds ==
  ASSUME GlobalFaults \subseteq {"none"}, Sizes \subseteq {"short"}
  PROVE  Spec => []LinksLeadBack
<1>1. DeskInv => LinksLeadBack
  BY DEF DeskInv
<1>2. QED
  BY <1>1, DeskSafe, PTL

(* Commit appends to global.jsonl first: no world file shows an event that  *)
(* the log lacks.                                                           *)
THEOREM WorldFilesInGlobalHolds ==
  ASSUME GlobalFaults \subseteq {"none"}, Sizes \subseteq {"short"}
  PROVE  Spec => []WorldFilesInGlobal
<1>1. DeskInv => WorldFilesInGlobal
  BY DEF DeskInv
<1>2. QED
  BY <1>1, DeskSafe, PTL

(* The cursor of GET /v1/events never skips an event.                       *)
THEOREM AuditorMissesNothingHolds ==
  ASSUME GlobalFaults \subseteq {"none"}, Sizes \subseteq {"short"}
  PROVE  Spec => []AuditorMissesNothing
<1>1. DeskInv => AuditorMissesNothing
  BY DEF DeskInv
<1>2. QED
  BY <1>1, DeskSafe, PTL
-----------------------------------------------------------------------------
(***************************************************************************)
(* A hash names one event, whatever fails: the desk counts its attempts,   *)
(* so the hash of a new event is in no file and with no auditor yet.       *)
(***************************************************************************)
HashesGiven ==
  /\ \A i \in DOMAIN global : global[i].ev.hash <= hashes
  /\ \A f \in Files : \A i \in DOMAIN file[f] : file[f][i].ev.hash <= hashes
  /\ \A w \in Worlds : \A h \in seen[w] : h <= hashes
  /\ pending # NoEvent => pending.hash <= hashes

HashNamesEvent ==
  \A j \in DOMAIN global :
    /\ pending # NoEvent /\ pending.hash = global[j].ev.hash => pending = global[j].ev
    /\ \A f \in Files : \A i \in DOMAIN file[f] :
         file[f][i].ev.hash = global[j].ev.hash => file[f][i].ev = global[j].ev

SeenIsOwn ==
  \A w \in Worlds : \A j \in DOMAIN global :
    global[j].ev.hash \in seen[w] => global[j].ev.world = w

(* The inductive invariant behind AuditorSeesOwnWorld.                      *)
IdentityInv == TypeOK /\ HashesGiven /\ HashNamesEvent /\ SeenIsOwn

-----------------------------------------------------------------------------
(* A write puts the new event at the end or over an unterminated line; all *)
(* other lines keep their events.                                          *)
LEMMA WriteLineEvents ==
  ASSUME NEW f \in Seq(Line), NEW l \in Line
  PROVE  \A i \in DOMAIN WriteLine(f, l) :
           \/ i \in DOMAIN f /\ WriteLine(f, l)[i].ev = f[i].ev
           \/ WriteLine(f, l)[i].ev = l.ev
<1> DEFINE g == WriteLine(f, l)
<1>1. CASE f # <<>> /\ f[Len(f)].form \in Unterminated
  <2> DEFINE m == [form |-> IF l.form \in Unterminated THEN "cut" ELSE "junk", ev |-> l.ev]
  <2>1. m.ev = l.ev /\ g = [f EXCEPT ![Len(f)] = m]
    BY <1>1 DEF WriteLine
  <2> HIDE DEF m
  <2>2. DOMAIN g = DOMAIN f /\ \A i \in DOMAIN f : g[i] = IF i = Len(f) THEN m ELSE f[i]
    BY <2>1
  <2> QED BY <2>1, <2>2
<1>2. CASE ~(f # <<>> /\ f[Len(f)].form \in Unterminated)
  <2>1. g = Append(f, l)
    BY <1>2 DEF WriteLine
  <2>2. /\ DOMAIN f = 1 .. Len(f) /\ DOMAIN g = 1 .. Len(f) + 1
        /\ \A i \in DOMAIN f : g[i] = f[i]
        /\ g[Len(f) + 1] = l
    BY <2>1
  <2> QED BY <2>2
<1> QED BY <1>1, <1>2

LEMMA FailedAppendEvents ==
  ASSUME NEW f \in Seq(Line), NEW l \in Line, NEW fault \in Faults
  PROVE  \A i \in DOMAIN FailedAppend(f, l, fault) :
           \/ i \in DOMAIN f /\ FailedAppend(f, l, fault)[i].ev = f[i].ev
           \/ FailedAppend(f, l, fault)[i].ev = l.ev
<1>1. CASE fault = "none"
  BY <1>1 DEF FailedAppend
<1>2. CASE fault = "sync"
  BY <1>2, WriteLineEvents DEF FailedAppend
<1>3. CASE fault \in {"cut", "bare"}
  <2> DEFINE m == [l EXCEPT !.form = fault]
  <2>1. m \in Line /\ m.ev = l.ev
    BY <1>3 DEF Line
  <2>2. FailedAppend(f, l, fault) = WriteLine(f, m)
    BY <1>3 DEF FailedAppend
  <2> HIDE DEF m
  <2>3. \A i \in DOMAIN WriteLine(f, m) :
          \/ i \in DOMAIN f /\ WriteLine(f, m)[i].ev = f[i].ev
          \/ WriteLine(f, m)[i].ev = m.ev
    BY <2>1, WriteLineEvents
  <2> QED BY <2>1, <2>2, <2>3
<1> QED BY <1>1, <1>2, <1>3 DEF Faults

(* The hashes of everything the desk holds are numbers.                    *)
LEMMA HashTypes ==
  ASSUME TypeOK
  PROVE  /\ hashes \in Nat
         /\ \A i \in DOMAIN global : global[i].ev.hash \in Nat
         /\ \A f \in Files : \A i \in DOMAIN file[f] : file[f][i].ev.hash \in Nat
         /\ \A w \in Worlds : seen[w] \subseteq Nat
         /\ \A w \in Worlds : FileOf[w] \in Files
<1>1. \A i \in DOMAIN global : global[i] \in Line
  BY DEF TypeOK
<1>2. \A f \in Files : file[f] \in Seq(Line)
  BY DEF TypeOK
<1>3. \A f \in Files : \A i \in DOMAIN file[f] : file[f][i] \in Line
  BY <1>2
<1>4. \A l \in Line : l.ev.hash \in Nat
  BY DEF Line, Event
<1> QED BY <1>1, <1>3, <1>4, DeskAssumption DEF TypeOK

(* An append to global.jsonl, whole, partial or none at all.               *)
LEMMA GlobalIdentity ==
  ASSUME IdentityInv, TypeOK', NEW e, e.hash = hashes + 1, hashes' = hashes + 1,
         \A i \in DOMAIN global' : \/ i \in DOMAIN global /\ global'[i].ev = global[i].ev
                                   \/ global'[i].ev = e,
         pending' = e \/ pending' = NoEvent,
         UNCHANGED <<file, seen>>
  PROVE  IdentityInv'
<1>1. HashesGiven /\ HashNamesEvent /\ SeenIsOwn /\ TypeOK
  BY DEF IdentityInv
<1>2. hashes \in Nat
  BY <1>1, HashTypes
<1>3. HashesGiven'
  <2>1. \A i \in DOMAIN global' : global'[i].ev.hash <= hashes'
    <3> TAKE i \in DOMAIN global'
    <3>1. CASE i \in DOMAIN global /\ global'[i].ev = global[i].ev
      <4>1. global[i].ev.hash \in Nat /\ global[i].ev.hash <= hashes
        BY <1>1, <3>1, HashTypes DEF HashesGiven
      <4> QED BY <1>2, <3>1, <4>1
    <3>2. CASE global'[i].ev = e
      BY <1>2, <3>2
    <3> QED BY <3>1, <3>2
  <2>2. \A f \in Files : \A i \in DOMAIN file[f] : file[f][i].ev.hash <= hashes + 1
    <3> TAKE f \in Files
    <3> TAKE i \in DOMAIN file[f]
    <3>1. file[f][i].ev.hash \in Nat /\ file[f][i].ev.hash <= hashes
      BY <1>1, HashTypes DEF HashesGiven
    <3> QED BY <1>2, <3>1
  <2>3. \A w \in Worlds : \A h \in seen[w] : h <= hashes + 1
    <3> TAKE w \in Worlds
    <3> TAKE h \in seen[w]
    <3>1. h \in Nat /\ h <= hashes
      BY <1>1, HashTypes DEF HashesGiven
    <3> QED BY <1>2, <3>1
  <2>4. pending' # NoEvent => pending'.hash <= hashes'
    BY <1>2
  <2> QED BY <2>1, <2>2, <2>3, <2>4 DEF HashesGiven
<1>4. /\ \A f \in Files : \A i \in DOMAIN file[f] : file[f][i].ev.hash # e.hash
      /\ \A w \in Worlds : e.hash \notin seen[w]
      /\ \A i \in DOMAIN global : global[i].ev.hash # e.hash
  <2>1. \A h \in Nat : h <= hashes => h # e.hash
    BY <1>2
  <2>2. e.hash \in Nat
    BY <1>2
  <2> QED BY <1>1, <2>1, <2>2, HashTypes DEF HashesGiven
<1>5. HashNamesEvent'
  BY <1>1, <1>4 DEF HashNamesEvent
<1>6. SeenIsOwn'
  BY <1>1, <1>4 DEF SeenIsOwn
<1> QED BY <1>3, <1>5, <1>6 DEF IdentityInv

(* An append to the pending event's world file.                            *)
LEMMA WorldIdentity ==
  ASSUME IdentityInv, TypeOK', pending # NoEvent, NEW g,
         file' = [file EXCEPT ![FileOf[pending.world]] = g],
         \A i \in DOMAIN g :
           \/ i \in DOMAIN file[FileOf[pending.world]] /\ g[i].ev = file[FileOf[pending.world]][i].ev
           \/ g[i].ev = pending,
         pending' = NoEvent,
         UNCHANGED <<global, hashes, seen>>
  PROVE  IdentityInv'
<1>1. HashesGiven /\ HashNamesEvent /\ SeenIsOwn /\ TypeOK
  BY DEF IdentityInv
<1>2. \A f \in Files : \A i \in DOMAIN file'[f] :
        \/ i \in DOMAIN file[f] /\ file'[f][i].ev = file[f][i].ev
        \/ file'[f][i].ev = pending
  BY <1>1 DEF TypeOK
<1>3. HashesGiven'
  BY <1>1, <1>2 DEF HashesGiven
<1>4. HashNamesEvent'
  BY <1>1, <1>2 DEF HashNamesEvent
<1>5. SeenIsOwn'
  BY <1>1 DEF SeenIsOwn
<1> QED BY <1>3, <1>4, <1>5 DEF IdentityInv

LEMMA IdentityStep ==
  ASSUME IdentityInv, [Next]_vars
  PROVE  IdentityInv'
<1>t. TypeOK /\ TypeOK'
  BY NextType DEF IdentityInv
<1>g. global \in Seq(Line)
  BY <1>t DEF TypeOK
<1>1. ASSUME NEW w \in Worlds, NEW size \in Sizes, CommitGlobal(w, size) PROVE IdentityInv'
  <2> DEFINE e == NewEvent(w, size)
  <2>1. Whole(e) \in Line /\ Whole(e).ev = e /\ e.hash = hashes + 1
    BY <1>t, NewEventType DEF NewEvent
  <2>2. global' = WriteLine(global, Whole(e)) /\ pending' = e /\ hashes' = hashes + 1
        /\ UNCHANGED <<file, seen>>
    BY <1>1 DEF CommitGlobal
  <2> HIDE DEF e
  <2>3. \A i \in DOMAIN global' : \/ i \in DOMAIN global /\ global'[i].ev = global[i].ev
                                  \/ global'[i].ev = e
    BY <1>g, <2>1, <2>2, WriteLineEvents
  <2> QED BY <1>t, <2>1, <2>2, <2>3, GlobalIdentity
<1>2. ASSUME NEW w \in Worlds, NEW size \in Sizes, NEW fault \in GlobalFaults,
             CommitGlobalFails(w, size, fault)
      PROVE IdentityInv'
  <2> DEFINE e == NewEvent(w, size)
  <2>1. Whole(e) \in Line /\ Whole(e).ev = e /\ e.hash = hashes + 1 /\ fault \in Faults
    BY <1>t, NewEventType, DeskAssumption DEF NewEvent
  <2>2. global' = FailedAppend(global, Whole(e), fault) /\ pending' = NoEvent
        /\ hashes' = hashes + 1 /\ UNCHANGED <<file, seen>>
    BY <1>2 DEF CommitGlobalFails, CanCommit
  <2> HIDE DEF e
  <2>3. \A i \in DOMAIN global' : \/ i \in DOMAIN global /\ global'[i].ev = global[i].ev
                                  \/ global'[i].ev = e
    BY <1>g, <2>1, <2>2, FailedAppendEvents
  <2> QED BY <1>t, <2>1, <2>2, <2>3, GlobalIdentity
<1>3. ASSUME CommitWorld PROVE IdentityInv'
  <2> DEFINE f == file[FileOf[pending.world]]
             g == WriteLine(f, Whole(pending))
  <2>1. pending # NoEvent
    BY <1>3 DEF CommitWorld
  <2>2. f \in Seq(Line) /\ Whole(pending) \in Line /\ Whole(pending).ev = pending
    BY <1>t, <2>1, PendingType DEF TypeOK
  <2>3. \A i \in DOMAIN g : (i \in DOMAIN f /\ g[i].ev = f[i].ev) \/ g[i].ev = pending
    BY <2>2, WriteLineEvents
  <2>4. file' = [file EXCEPT ![FileOf[pending.world]] = g] /\ pending' = NoEvent
        /\ UNCHANGED <<global, hashes, seen>>
    BY <1>3 DEF CommitWorld
  <2> HIDE DEF g
  <2> QED BY <1>t, <2>1, <2>3, <2>4, WorldIdentity
<1>4. ASSUME NEW fault \in WorldFaults, CommitWorldFails(fault) PROVE IdentityInv'
  <2> DEFINE f == file[FileOf[pending.world]]
             g == FailedAppend(f, Whole(pending), fault)
  <2>1. pending # NoEvent /\ fault \in Faults
    BY <1>4, DeskAssumption DEF CommitWorldFails
  <2>2. f \in Seq(Line) /\ Whole(pending) \in Line /\ Whole(pending).ev = pending
    BY <1>t, <2>1, PendingType DEF TypeOK
  <2>3. \A i \in DOMAIN g : (i \in DOMAIN f /\ g[i].ev = f[i].ev) \/ g[i].ev = pending
    BY <2>1, <2>2, FailedAppendEvents
  <2>4. file' = [file EXCEPT ![FileOf[pending.world]] = g] /\ pending' = NoEvent
        /\ UNCHANGED <<global, hashes, seen>>
    BY <1>4 DEF CommitWorldFails
  <2> HIDE DEF g
  <2> QED BY <1>t, <2>1, <2>3, <2>4, WorldIdentity
<1>5. CASE Crash \/ NewStore \/ NewStoreFails \/ UNCHANGED vars
  <2>1. UNCHANGED <<global, file, hashes, seen>> /\ pending' \in {pending, NoEvent}
    BY <1>5 DEF Crash, NewStore, NewStoreFails, vars
  <2> QED BY <1>t, <2>1 DEF IdentityInv, HashesGiven, HashNamesEvent, SeenIsOwn
<1>6. ASSUME NEW w \in Worlds, Poll(w) PROVE IdentityInv'
  <2> DEFINE f == file[FileOf[w]]
  <2>1. UNCHANGED <<global, file, hashes, pending>>
        /\ seen' = [seen EXCEPT ![w] = @ \cup {e.hash : e \in ListWorld(w)}]
    BY <1>6 DEF Poll
  <2>2. FileOf[w] \in Files /\ \A i \in DOMAIN f : f[i].ev.world = w
    BY <1>6, DeskAssumption DEF Poll, ListFails
  <2>3. \A v \in Worlds : \A h \in seen'[v] :
          h \in seen[v] \/ (v = w /\ \E i \in DOMAIN f : h = f[i].ev.hash)
    BY <1>t, <2>1 DEF TypeOK, ListWorld
  <2>4. HashesGiven'
    BY <2>1, <2>2, <2>3 DEF IdentityInv, HashesGiven
  <2>5. SeenIsOwn'
    BY <2>1, <2>2, <2>3 DEF IdentityInv, SeenIsOwn, HashNamesEvent
  <2>6. HashNamesEvent'
    BY <2>1 DEF IdentityInv, HashNamesEvent
  <2> QED BY <1>t, <2>4, <2>5, <2>6 DEF IdentityInv
<1> QED BY <1>1, <1>2, <1>3, <1>4, <1>5, <1>6 DEF Next

LEMMA IdentityInit == Init => IdentityInv
<1> SUFFICES ASSUME Init PROVE IdentityInv
  OBVIOUS
<1>1. TypeOK
  BY DEF Init, TypeOK, GenesisPrev
<1>2. DOMAIN global = {} /\ \A f \in Files : DOMAIN file[f] = {}
  BY DEF Init
<1>3. pending = NoEvent /\ \A w \in Worlds : seen[w] = {}
  BY DEF Init
<1> QED BY <1>1, <1>2, <1>3 DEF IdentityInv, HashesGiven, HashNamesEvent, SeenIsOwn

(* store.go:169, "A caller cannot read another world": with any faults, any *)
(* crashes and any two ids sharing a file, no auditor is ever given an      *)
(* event of a world that it did not ask for.                                *)
THEOREM AuditorSeesOwnWorldHolds == Spec => []AuditorSeesOwnWorld
<1>1. Init => IdentityInv
  BY IdentityInit
<1>2. IdentityInv /\ [Next]_vars => IdentityInv'
  BY IdentityStep
<1>3. IdentityInv => AuditorSeesOwnWorld
  BY DEF IdentityInv, SeenIsOwn, AuditorSeesOwnWorld, Readable
<1> QED BY <1>1, <1>2, <1>3, PTL DEF Spec
-----------------------------------------------------------------------------
(* To files of complete lines a write adds a line of its own.              *)
LEMMA WholeAppend ==
  ASSUME NEW f \in Seq(Line), NEW l \in Line, l.form = "whole",
         \A i \in DOMAIN f : f[i].form = "whole"
  PROVE  /\ WriteLine(f, l) = Append(f, l)
         /\ FailedAppend(f, l, "none") = f /\ FailedAppend(f, l, "sync") = Append(f, l)
         /\ Append(f, l) \in Seq(Line) /\ Append(f, l) # <<>>
         /\ Len(Append(f, l)) = Len(f) + 1 /\ Len(f) \in Nat
         /\ DOMAIN f = 1 .. Len(f) /\ DOMAIN Append(f, l) = 1 .. Len(f) + 1
         /\ \A i \in DOMAIN f : i \in DOMAIN Append(f, l) /\ Append(f, l)[i] = f[i]
         /\ Append(f, l)[Len(f) + 1] = l
         /\ \A i \in DOMAIN Append(f, l) : Append(f, l)[i].form = "whole"
<1>1. f # <<>> => Len(f) \in DOMAIN f
  OBVIOUS
<1>2. WriteLine(f, l) = Append(f, l)
  BY <1>1 DEF WriteLine, Unterminated
<1>3. FailedAppend(f, l, "none") = f /\ FailedAppend(f, l, "sync") = Append(f, l)
  BY <1>2 DEF FailedAppend
<1>4. /\ Append(f, l) \in Seq(Line) /\ Append(f, l) # <<>>
      /\ Len(Append(f, l)) = Len(f) + 1 /\ Len(f) \in Nat
      /\ DOMAIN f = 1 .. Len(f) /\ DOMAIN Append(f, l) = 1 .. Len(f) + 1
      /\ \A i \in DOMAIN f : Append(f, l)[i] = f[i]
      /\ Append(f, l)[Len(f) + 1] = l
  OBVIOUS
<1>5. \A i \in 1 .. Len(f) + 1 : i \in 1 .. Len(f) \/ i = Len(f) + 1
  BY <1>4
<1>6. \A i \in 1 .. Len(f) : i \in 1 .. Len(f) + 1
  BY <1>4
<1>7. \A i \in DOMAIN Append(f, l) : Append(f, l)[i].form = "whole"
  BY <1>4, <1>5
<1> QED BY <1>2, <1>3, <1>4, <1>6, <1>7

(* The lines that the two appends of a commit write.                       *)
LEMMA NewLine ==
  ASSUME TypeOK, NEW w \in Worlds, NEW size \in Sizes
  PROVE  /\ Whole(NewEvent(w, size)) \in Line
         /\ Whole(NewEvent(w, size)).form = "whole"
         /\ Whole(NewEvent(w, size)).ev = NewEvent(w, size)
         /\ NewEvent(w, size).world = w /\ NewEvent(w, size).prev = tip[w]
         /\ NewEvent(w, size) # NoEvent
BY NewEventType, DeskAssumption DEF Whole, NewEvent

LEMMA PendingLine ==
  ASSUME TypeOK, pending # NoEvent
  PROVE  /\ Whole(pending) \in Line /\ Whole(pending).form = "whole" /\ Whole(pending).ev = pending
         /\ pending.world \in Worlds /\ FileOf[pending.world] \in Files
         /\ file[FileOf[pending.world]] \in Seq(Line)
BY PendingType DEF Whole, TypeOK

-----------------------------------------------------------------------------
(***************************************************************************)
(* The chain of acknowledged events, when a failed append to global.jsonl  *)
(* leaves all of its line or nothing.  A hash is the number of its attempt *)
(* and so grows along the log: "at or after an event" is an order on       *)
(* hashes.                                                                 *)
(***************************************************************************)
LogWhole ==
  /\ \A i \in DOMAIN global : global[i].form = "whole" /\ global[i].ev.hash \in 1 .. hashes
  /\ \A i, j \in DOMAIN global : i < j => global[i].ev.hash < global[j].ev.hash
  /\ \A h \in acked : h <= hashes

PendingLogged ==
  pending # NoEvent => up = "up" /\ global # <<>> /\ global[Len(global)].ev = pending

LinksLead ==
  \A i \in DOMAIN global :
    \/ global[i].ev.prev = GenesisPrev
    \/ \E j \in DOMAIN global : /\ j < i
                                /\ global[j].ev.world = global[i].ev.world
                                /\ global[j].ev.hash = global[i].ev.prev

(* The tip is at or after every acknowledged event of its world, and so was *)
(* the tip that each later event was linked to.                             *)
TipCoversAcked ==
  up = "up" => \A i \in DOMAIN global :
                 global[i].ev.hash \in acked => global[i].ev.hash <= tip[global[i].ev.world]

LinksCoverAcked ==
  \A i, j \in DOMAIN global :
    i < j /\ global[i].ev.world = global[j].ev.world /\ global[i].ev.hash \in acked =>
      global[i].ev.hash <= global[j].ev.prev

(* The inductive invariant behind AckedOnChain.                             *)
ChainInv ==
  /\ TypeOK /\ LogWhole /\ PendingLogged /\ TipInGlobal
  /\ LinksLead /\ TipCoversAcked /\ LinksCoverAcked

(* The log and its new last line.                                           *)
LEMMA LogTypes ==
  ASSUME TypeOK
  PROVE  /\ global \in Seq(Line) /\ Len(global) \in Nat /\ DOMAIN global = 1 .. Len(global)
         /\ hashes \in Nat /\ acked \subseteq Nat
         /\ \A w \in Worlds : tip[w] \in Nat
         /\ \A i \in DOMAIN global : /\ global[i].ev.hash \in Nat /\ global[i].ev.prev \in Nat
                                     /\ global[i].ev.world \in Worlds /\ global[i].ev.seq \in Nat
<1>1. \A i \in DOMAIN global : global[i] \in Line
  BY DEF TypeOK
<1>2. \A l \in Line : /\ l.ev.hash \in Nat /\ l.ev.prev \in Nat
                      /\ l.ev.world \in Worlds /\ l.ev.seq \in Nat
  BY DEF Line, Event
<1> QED BY <1>1, <1>2 DEF TypeOK

(* A line of a new event at the end of the log: its link is the tip, which  *)
(* is at or after what has been acknowledged.                               *)
LEMMA LogGrows ==
  ASSUME ChainInv, TypeOK', up = "up", up' = "up", NEW w \in Worlds, NEW e,
         e.hash = hashes + 1, e.world = w, e.prev = tip[w], hashes' = hashes + 1,
         global' = Append(global, Whole(e)),
         UNCHANGED <<tip, acked>>
  PROVE  LogWhole' /\ TipInGlobal' /\ LinksLead' /\ TipCoversAcked' /\ LinksCoverAcked'
<1> DEFINE n == Len(global)
<1>t. /\ TypeOK /\ LogWhole /\ TipInGlobal /\ LinksLead /\ TipCoversAcked /\ LinksCoverAcked
  BY DEF ChainInv
<1>1. /\ n \in Nat /\ DOMAIN global = 1 .. n /\ hashes \in Nat /\ acked \subseteq Nat
      /\ tip[w] \in Nat
      /\ \A i \in 1 .. n : global[i].ev.hash \in Nat
  BY <1>t, LogTypes
<1>2. /\ DOMAIN global' = 1 .. n + 1
      /\ \A i \in 1 .. n : global'[i] = global[i]
      /\ global'[n + 1].ev = e /\ global'[n + 1].form = "whole"
  <2>1. global \in Seq(Line) /\ Whole(e).ev = e /\ Whole(e).form = "whole"
    BY <1>t DEF TypeOK, Whole
  <2>2. /\ DOMAIN Append(global, Whole(e)) = 1 .. Len(global) + 1
        /\ \A i \in 1 .. Len(global) : Append(global, Whole(e))[i] = global[i]
        /\ Append(global, Whole(e))[Len(global) + 1] = Whole(e)
    BY <2>1
  <2> QED BY <2>1, <2>2
<1> HIDE DEF n
<1>3. \A i \in 1 .. n + 1 : i \in 1 .. n \/ i = n + 1
  BY <1>1
<1>4. /\ n + 1 \in 1 .. n + 1 /\ \A i \in 1 .. n : i \in 1 .. n + 1 /\ i < n + 1 /\ ~(n + 1 < i)
      /\ ~(n + 1 < n + 1)
  BY <1>1
<1>5. /\ \A i \in 1 .. n : global[i].ev.hash < e.hash /\ global[i].ev.hash \in 1 .. hashes + 1
      /\ e.hash \in 1 .. hashes + 1 /\ e.hash \notin acked
      /\ \A h \in acked : h <= hashes + 1
  BY <1>1, <1>t DEF LogWhole
<1>6. LogWhole'
  <2>1. \A i \in DOMAIN global' : global'[i].form = "whole" /\ global'[i].ev.hash \in 1 .. hashes'
    BY <1>t, <1>1, <1>2, <1>3, <1>5 DEF LogWhole
  <2>2. \A i, j \in DOMAIN global' : i < j => global'[i].ev.hash < global'[j].ev.hash
    BY <1>t, <1>1, <1>2, <1>3, <1>4, <1>5 DEF LogWhole
  <2> QED BY <2>1, <2>2, <1>5 DEF LogWhole
<1>7. TipInGlobal'
  BY <1>t, <1>1, <1>2, <1>4 DEF TipInGlobal
<1>8. LinksLead'
  <2> DEFINE L(i) == \/ global'[i].ev.prev = GenesisPrev
                     \/ \E j \in 1 .. n + 1 : /\ j < i
                                              /\ global'[j].ev.world = global'[i].ev.world
                                              /\ global'[j].ev.hash = global'[i].ev.prev
  <2>1. ASSUME NEW i \in 1 .. n PROVE L(i)
    <3>1. CASE global[i].ev.prev = GenesisPrev
      BY <1>2, <3>1
    <3>2. CASE global[i].ev.prev # GenesisPrev
      <4>1. PICK j \in 1 .. n : /\ j < i
                                /\ global[j].ev.world = global[i].ev.world
                                /\ global[j].ev.hash = global[i].ev.prev
        BY <1>t, <1>1, <3>2 DEF LinksLead
      <4>2. j \in 1 .. n + 1 /\ global'[j] = global[j] /\ global'[i] = global[i]
        BY <1>2, <1>4
      <4> QED BY <4>1, <4>2
    <3> QED BY <3>1, <3>2
  <2>2. L(n + 1)
    BY <1>t, <1>1, <1>2, <1>4 DEF TipInGlobal
  <2>3. \A i \in DOMAIN global' : L(i)
    BY <1>2, <1>3, <2>1, <2>2
  <2> QED BY <1>2, <2>3 DEF LinksLead, GenesisPrev
<1>9. TipCoversAcked'
  BY <1>t, <1>1, <1>2, <1>3, <1>5 DEF TipCoversAcked
<1>10. LinksCoverAcked'
  BY <1>t, <1>1, <1>2, <1>3, <1>4, <1>5 DEF LinksCoverAcked, TipCoversAcked
<1> QED BY <1>6, <1>7, <1>8, <1>9, <1>10

(* The step of every action.                                                *)
LEMMA ChainStep ==
  ASSUME GlobalFaults \subseteq {"none", "sync"}, ChainInv, [Next]_vars
  PROVE  ChainInv'
<1>t. /\ TypeOK /\ LogWhole /\ PendingLogged /\ TipInGlobal
      /\ LinksLead /\ TipCoversAcked /\ LinksCoverAcked /\ TypeOK'
  BY NextType DEF ChainInv
<1>g. /\ global \in Seq(Line) /\ \A i \in DOMAIN global : global[i].form = "whole"
      /\ DOMAIN global = 1 .. Len(global) /\ Len(global) \in Nat
  BY <1>t, LogTypes DEF LogWhole
<1>1. ASSUME NEW w \in Worlds, NEW size \in Sizes, CommitGlobal(w, size) PROVE ChainInv'
  <2> DEFINE e == NewEvent(w, size)
  <2>1. /\ global' = WriteLine(global, Whole(e)) /\ pending' = e /\ hashes' = hashes + 1
        /\ up = "up" /\ up' = "up" /\ UNCHANGED <<tip, acked>>
    BY <1>1 DEF CommitGlobal, CanCommit
  <2>2. /\ Whole(e) \in Line /\ Whole(e).form = "whole" /\ Whole(e).ev = e
        /\ e.world = w /\ e.prev = tip[w] /\ e.hash = hashes + 1
    BY <1>t, NewLine DEF NewEvent
  <2> HIDE DEF e
  <2>3. /\ global' = Append(global, Whole(e)) /\ Append(global, Whole(e)) # <<>>
        /\ Len(Append(global, Whole(e))) = Len(global) + 1
        /\ Append(global, Whole(e))[Len(global) + 1] = Whole(e)
    BY <1>g, <2>1, <2>2, WholeAppend
  <2>4. LogWhole' /\ TipInGlobal' /\ LinksLead' /\ TipCoversAcked' /\ LinksCoverAcked'
    BY <1>t, <2>1, <2>2, <2>3, LogGrows
  <2>5. PendingLogged'
    BY <2>1, <2>2, <2>3 DEF PendingLogged
  <2> QED BY <1>t, <2>4, <2>5 DEF ChainInv
<1>2. ASSUME NEW w \in Worlds, NEW size \in Sizes, NEW fault \in GlobalFaults,
             CommitGlobalFails(w, size, fault)
      PROVE ChainInv'
  <2> DEFINE e == NewEvent(w, size)
  <2>1. /\ global' = FailedAppend(global, Whole(e), fault) /\ pending' = NoEvent
        /\ hashes' = hashes + 1 /\ up = "up" /\ up' = "up" /\ UNCHANGED <<tip, acked>>
        /\ fault \in {"none", "sync"}
    BY <1>2 DEF CommitGlobalFails, CanCommit
  <2>2. /\ Whole(e) \in Line /\ Whole(e).form = "whole" /\ Whole(e).ev = e
        /\ e.world = w /\ e.prev = tip[w] /\ e.hash = hashes + 1
    BY <1>t, NewLine DEF NewEvent
  <2>p. PendingLogged'
    BY <2>1 DEF PendingLogged
  <2> HIDE DEF e
  <2>3. CASE fault = "sync"
    <3>1. global' = Append(global, Whole(e))
      BY <1>g, <2>1, <2>2, <2>3, WholeAppend
    <3>2. LogWhole' /\ TipInGlobal' /\ LinksLead' /\ TipCoversAcked' /\ LinksCoverAcked'
      BY <1>t, <2>1, <2>2, <3>1, LogGrows
    <3> QED BY <1>t, <2>p, <3>2 DEF ChainInv
  <2>4. CASE fault = "none"
    <3>1. global' = global
      BY <2>1, <2>4 DEF FailedAppend
    <3>2. LogWhole'
      <4>1. hashes \in Nat /\ \A i \in DOMAIN global : global[i].ev.hash \in 1 .. hashes
        BY <1>t, LogTypes DEF LogWhole
      <4>2. \A i \in DOMAIN global : global[i].ev.hash \in 1 .. hashes + 1
        BY <4>1
      <4>3. \A h \in acked : h <= hashes + 1
        BY <1>t, <4>1, LogTypes DEF LogWhole
      <4> QED BY <1>t, <2>1, <3>1, <4>2, <4>3 DEF LogWhole
    <3>3. TipInGlobal' /\ LinksLead' /\ TipCoversAcked' /\ LinksCoverAcked'
      BY <1>t, <2>1, <3>1 DEF TipInGlobal, LinksLead, TipCoversAcked, LinksCoverAcked
    <3> QED BY <1>t, <2>p, <3>2, <3>3 DEF ChainInv
  <2> QED BY <2>1, <2>3, <2>4
<1>3. CASE CommitWorld
  <2> DEFINE n == Len(global)
  <2>1. /\ pending # NoEvent /\ pending' = NoEvent /\ UNCHANGED <<global, hashes, up>>
        /\ acked' = acked \cup {pending.hash}
        /\ tip' = [tip EXCEPT ![pending.world] = pending.hash]
    BY <1>3 DEF CommitWorld
  <2>2. n \in 1 .. n /\ DOMAIN global = 1 .. n /\ global[n].ev = pending /\ up = "up"
    BY <1>t, <1>g, <2>1 DEF PendingLogged
  <2>3. /\ pending.hash <= hashes /\ pending.world \in Worlds /\ hashes \in Nat
        /\ pending.hash \in Nat
    BY <1>t, <2>2, LogTypes DEF LogWhole
  <2>4. \A w \in Worlds : tip'[w] = IF w = pending.world THEN pending.hash ELSE tip[w]
    BY <1>t, <2>1, <2>3 DEF TypeOK
  <2> HIDE DEF n
  <2>5. \A i \in 1 .. n : i = n \/ i < n
    BY <2>2
  <2>6. /\ \A i \in 1 .. n : /\ global[i].ev.hash <= pending.hash /\ global[i].ev.hash \in Nat
                             /\ global[i].ev.world \in Worlds
        /\ \A i, j \in 1 .. n : i < j => global[i].ev.hash # pending.hash
    <3>1. \A i, j \in 1 .. n : i < j => global[i].ev.hash < global[j].ev.hash
      BY <1>t, <2>2 DEF LogWhole
    <3>2. \A i \in 1 .. n : global[i].ev.hash \in Nat /\ global[i].ev.world \in Worlds
      BY <1>t, <2>2, LogTypes
    <3>3. \A i, j \in 1 .. n : i < j => i < n
      BY <2>2
    <3>4. \A i \in 1 .. n : i < n => global[i].ev.hash < pending.hash
      BY <2>2, <3>1
    <3>5. \A i \in 1 .. n : global[i].ev.hash <= pending.hash
      BY <2>2, <2>3, <2>5, <3>2, <3>4
    <3> QED BY <2>3, <3>2, <3>3, <3>4, <3>5
  <2>7. LogWhole' /\ LinksLead' /\ PendingLogged'
    BY <1>t, <2>1, <2>3 DEF LogWhole, LinksLead, PendingLogged
  <2>8. TipInGlobal'
    BY <1>t, <2>1, <2>2, <2>4 DEF TipInGlobal
  <2>9. TipCoversAcked'
    BY <1>t, <2>1, <2>2, <2>4, <2>6 DEF TipCoversAcked
  <2>10. LinksCoverAcked'
    BY <1>t, <2>1, <2>2, <2>6 DEF LinksCoverAcked
  <2> QED BY <1>t, <2>7, <2>8, <2>9, <2>10 DEF ChainInv
<1>4. ASSUME NEW fault \in WorldFaults, CommitWorldFails(fault) PROVE ChainInv'
  <2>1. pending' = NoEvent /\ UNCHANGED <<global, hashes, up, acked, tip>>
    BY <1>4 DEF CommitWorldFails
  <2> QED BY <1>t, <2>1 DEF ChainInv, LogWhole, PendingLogged, TipInGlobal, LinksLead,
             TipCoversAcked, LinksCoverAcked
<1>5. CASE Crash
  <2>1. /\ pending' = NoEvent /\ UNCHANGED <<global, hashes, acked>> /\ up' = "down"
        /\ \A w \in Worlds : tip'[w] = GenesisPrev
    BY <1>5 DEF Crash
  <2> QED BY <1>t, <2>1 DEF ChainInv, LogWhole, PendingLogged, TipInGlobal, LinksLead,
             TipCoversAcked, LinksCoverAcked
<1>6. CASE NewStore
  <2>1. /\ UNCHANGED <<global, hashes, acked, pending>> /\ up = "down"
        /\ \A w \in Worlds : LastHash(w, tip'[w])
    BY <1>6 DEF NewStore, ReplayTip
  <2>2. pending = NoEvent
    BY <1>t, <2>1 DEF PendingLogged
  <2>3. TipInGlobal'
    BY <2>1 DEF LastHash, TipInGlobal
  <2>4. \A i \in DOMAIN global : global[i].ev.hash <= tip'[global[i].ev.world]
    <3> TAKE i \in DOMAIN global
    <3> DEFINE w == global[i].ev.world
    <3>1. w \in Worlds /\ global[i].ev.hash \in Nat
      BY <1>t, LogTypes
    <3>2. PICK k \in DOMAIN global : /\ global[k].ev.world = w /\ global[k].ev.hash = tip'[w]
                                     /\ \A j \in DOMAIN global : j > k => global[j].ev.world # w
      BY <2>1, <3>1 DEF LastHash
    <3>3. ~(i > k)
      BY <3>2
    <3>4. i < k \/ i = k
      BY <1>g, <3>3
    <3>5. i < k => global[i].ev.hash < global[k].ev.hash
      BY <1>t DEF LogWhole
    <3>6. global[k].ev.hash \in Nat
      BY <1>t, LogTypes
    <3> QED BY <3>1, <3>2, <3>4, <3>5, <3>6
  <2>5. TipCoversAcked'
    BY <2>1, <2>4 DEF TipCoversAcked
  <2> QED BY <1>t, <2>1, <2>2, <2>3, <2>5 DEF ChainInv, LogWhole, PendingLogged, LinksLead, LinksCoverAcked
<1>7. CASE NewStoreFails
  <2>1. /\ UNCHANGED <<global, hashes, acked, pending, tip>> /\ up = "down" /\ up' = "refused"
    BY <1>7 DEF NewStoreFails
  <2> QED BY <1>t, <2>1 DEF ChainInv, LogWhole, PendingLogged, TipInGlobal, LinksLead,
             TipCoversAcked, LinksCoverAcked
<1>8. CASE UNCHANGED vars \/ \E w \in Worlds : Poll(w)
  <2>1. UNCHANGED <<global, hashes, acked, pending, tip, up>>
    BY <1>8 DEF vars, Poll
  <2> QED BY <1>t, <2>1 DEF ChainInv, LogWhole, PendingLogged, TipInGlobal, LinksLead,
             TipCoversAcked, LinksCoverAcked
<1> QED BY <1>1, <1>2, <1>3, <1>4, <1>5, <1>6, <1>7, <1>8 DEF Next

LEMMA ChainInit == Init => ChainInv
<1> SUFFICES ASSUME Init PROVE ChainInv
  OBVIOUS
<1>1. TypeOK
  BY DEF Init, TypeOK, GenesisPrev
<1>2. DOMAIN global = {} /\ acked = {} /\ pending = NoEvent /\ \A w \in Worlds : tip[w] = GenesisPrev
  BY DEF Init
<1> QED BY <1>1, <1>2 DEF ChainInv, LogWhole, PendingLogged, TipInGlobal, LinksLead,
           TipCoversAcked, LinksCoverAcked

(* store.go, Commit and replay: no event of the log reaches back over an    *)
(* acknowledged event of its world, whatever happens to the world files,    *)
(* wherever the process dies and however long the lines, if a failed append *)
(* to global.jsonl leaves all of its line or nothing.                       *)
THEOREM AckedOnChainHolds ==
  ASSUME GlobalFaults \subseteq {"none", "sync"}
  PROVE  Spec => []AckedOnChain
<1>1. ChainInv /\ [Next]_vars => ChainInv'
  BY ChainStep
<1>2. ASSUME ChainInv PROVE AckedOnChain
  <2> SUFFICES ASSUME NEW i \in Intact(global), NEW j \in Intact(global), i < j,
                      global[i].ev.world = global[j].ev.world, global[i].ev.hash \in acked
               PROVE  \E k \in Intact(global) : /\ i <= k /\ k < j
                                                /\ global[k].ev.world = global[j].ev.world
                                                /\ global[k].ev.hash = global[j].ev.prev
    BY DEF AckedOnChain
  <2>1. TypeOK /\ LogWhole /\ LinksLead /\ LinksCoverAcked /\ Intact(global) = DOMAIN global
    BY <1>2 DEF ChainInv, LogWhole, Intact
  <2>2. /\ global[i].ev.hash <= global[j].ev.prev /\ global[i].ev.hash \in Nat
        /\ global[i].ev.hash >= 1 /\ global[j].ev.prev \in Nat
    BY <2>1, LogTypes DEF LinksCoverAcked, LogWhole
  <2>3. global[j].ev.prev # GenesisPrev
    BY <2>2 DEF GenesisPrev
  <2>4. PICK k \in DOMAIN global : k < j /\ global[k].ev.world = global[j].ev.world
                                   /\ global[k].ev.hash = global[j].ev.prev
    BY <2>1, <2>3 DEF LinksLead
  <2>5. i \in Nat /\ k \in Nat
    BY <2>1, LogTypes
  <2>6. ~(k < i)
    <3>1. k < i => global[k].ev.hash < global[i].ev.hash
      BY <2>1 DEF LogWhole
    <3> QED BY <2>2, <2>4, <3>1
  <2> QED BY <2>1, <2>4, <2>5, <2>6
<1>3. ChainInv => AckedOnChain
  BY <1>2
<1> QED BY <1>1, <1>3, ChainInit, PTL DEF Spec
-----------------------------------------------------------------------------
(***************************************************************************)
(* The links of a world's own file.  A line that does not name its         *)
(* predecessor is explained by an event of the log that was not            *)
(* acknowledged, numbered from lo up to and not including hi.              *)
(***************************************************************************)
Explained(w, lo, hi) ==
  \E i \in DOMAIN global : /\ global[i].ev.world = w /\ global[i].ev.hash \notin acked
                           /\ lo <= global[i].ev.seq /\ global[i].ev.seq < hi

Own(f, w) == Scannable(f) /\ \A i \in DOMAIN f : f[i].ev.world = w

FileTip(f) == IF f = <<>> THEN GenesisPrev ELSE f[Len(f)].ev.hash
FileSeq(f) == IF f = <<>> THEN 0 ELSE f[Len(f)].ev.seq

FilesLinked ==
  \A w \in Worlds : Own(file[FileOf[w]], w) =>
    \A i \in DOMAIN file[FileOf[w]] :
      \/ Linked(file[FileOf[w]], i)
      \/ Explained(w, IF i = 1 THEN 0 ELSE file[FileOf[w]][i - 1].ev.seq, file[FileOf[w]][i].ev.seq)

PendingLinks ==
  pending # NoEvent /\ Own(file[FileOf[pending.world]], pending.world) =>
    \/ pending.prev = FileTip(file[FileOf[pending.world]])
    \/ Explained(pending.world, FileSeq(file[FileOf[pending.world]]), pending.seq)

(* A readable file is in the order of the attempts, behind the pending one, *)
(* and holds every acknowledged event of its worlds.                        *)
FilesOrdered ==
  \A f \in Files : Scannable(file[f]) =>
    \A i, j \in DOMAIN file[f] : i < j => file[f][i].ev.hash < file[f][j].ev.hash

FilesBehind ==
  pending # NoEvent =>
    \A f \in Files : \A i \in DOMAIN file[f] : file[f][i].ev.hash < pending.hash

AckedHeld ==
  \A i \in DOMAIN global :
    global[i].ev.hash \in acked /\ Scannable(file[FileOf[global[i].ev.world]]) =>
      \E k \in DOMAIN file[FileOf[global[i].ev.world]] :
        file[FileOf[global[i].ev.world]][k].ev = global[i].ev

(* The inductive invariant behind BreaksAreUnacked, on top of the three     *)
(* above.                                                                   *)
FileInv == FilesLinked /\ PendingLinks /\ FilesOrdered /\ FilesBehind /\ AckedHeld

(* A file that can be read after a write could be read before it, and the   *)
(* write added a line of its own.                                           *)
LEMMA ScannableWrite ==
  ASSUME NEW f \in Seq(Line), NEW l \in Line, Scannable(WriteLine(f, l))
  PROVE  Scannable(f) /\ WriteLine(f, l) = Append(f, l)
<1> DEFINE g == WriteLine(f, l)
<1>1. CASE f # <<>> /\ f[Len(f)].form \in Unterminated
  <2>1. g = [f EXCEPT ![Len(f)] =
               [form |-> IF l.form \in Unterminated THEN "cut" ELSE "junk", ev |-> l.ev]]
    BY <1>1 DEF WriteLine
  <2>2. Len(f) \in DOMAIN f
    BY <1>1
  <2>3. Len(f) \in DOMAIN g /\ g[Len(f)].form \in {"cut", "junk"}
    BY <2>1, <2>2
  <2>4. Len(f) \notin Readable(g)
    BY <2>3 DEF Readable
  <2> QED BY <2>3, <2>4 DEF Scannable
<1>2. CASE ~(f # <<>> /\ f[Len(f)].form \in Unterminated)
  <2>1. g = Append(f, l)
    BY <1>2 DEF WriteLine
  <2>2. DOMAIN f \subseteq DOMAIN g /\ \A i \in DOMAIN f : g[i] = f[i]
    BY <2>1
  <2>3. Scannable(f)
    BY <2>2 DEF Scannable, Readable
  <2> QED BY <2>1, <2>3
<1> QED BY <1>1, <1>2

LEMMA ScannableFailed ==
  ASSUME NEW f \in Seq(Line), NEW l \in Line, NEW fault \in Faults,
         Scannable(FailedAppend(f, l, fault))
  PROVE  /\ Scannable(f)
         /\ \/ FailedAppend(f, l, fault) = f
            \/ \E m \in Line : m.ev = l.ev /\ FailedAppend(f, l, fault) = Append(f, m)
<1>1. CASE fault = "none"
  BY <1>1 DEF FailedAppend
<1>2. CASE fault = "sync"
  BY <1>2, ScannableWrite DEF FailedAppend
<1>3. CASE fault \in {"cut", "bare"}
  <2> DEFINE m == [l EXCEPT !.form = fault]
  <2>1. m \in Line /\ m.ev = l.ev
    BY <1>3 DEF Line
  <2>2. FailedAppend(f, l, fault) = WriteLine(f, m)
    BY <1>3 DEF FailedAppend
  <2> HIDE DEF m
  <2>3. Scannable(f) /\ WriteLine(f, m) = Append(f, m)
    BY <2>1, <2>2, ScannableWrite
  <2> QED BY <2>1, <2>2, <2>3
<1> QED BY <1>1, <1>2, <1>3 DEF Faults

(* The event that Commit makes for w continues w's own file, or an event    *)
(* that was not acknowledged explains why not: the tip is at or after the   *)
(* acknowledged ones, all of which the file has.                            *)
LEMMA NewLink ==
  ASSUME DeskInv, ChainInv, FileInv, up = "up", NEW w \in Worlds, Own(file[FileOf[w]], w)
  PROVE  \/ tip[w] = FileTip(file[FileOf[w]])
         \/ Explained(w, FileSeq(file[FileOf[w]]), seq + 1)
<1> DEFINE f == file[FileOf[w]]
<1>1. /\ TypeOK /\ LogWhole /\ TipInGlobal /\ TipCoversAcked /\ FilesOrdered /\ AckedHeld
      /\ WorldFilesInGlobal /\ GlobalSeqStrict /\ SeqCoversGlobal /\ GlobalWhole
  BY DEF DeskInv, ChainInv, FileInv
<1>2. FileOf[w] \in Files /\ f \in Seq(Line) /\ Readable(f) = DOMAIN f /\ seq \in Nat
      /\ Readable(global) = DOMAIN global
  BY <1>1, DeskAssumption, CleanLog DEF TypeOK, Own, Scannable
<1>3. \A i \in DOMAIN global : global[i].ev.seq \in Nat /\ global[i].ev.seq < seq + 1
  BY <1>1, <1>2, LogTypes DEF SeqCoversGlobal
<1>4. \A k \in DOMAIN global :
        global[k].ev.world = w /\ global[k].ev.hash \in acked =>
          \E q \in DOMAIN f : f[q].ev = global[k].ev
  BY <1>1 DEF AckedHeld, Own
<1>5. tip[w] = GenesisPrev \/ \E k \in DOMAIN global : global[k].ev.world = w /\ global[k].ev.hash = tip[w]
  BY <1>1 DEF TipInGlobal
<1>6. CASE f = <<>>
  <2>1. FileTip(f) = GenesisPrev /\ FileSeq(f) = 0 /\ DOMAIN f = {}
    BY <1>6 DEF FileTip, FileSeq
  <2>2. CASE tip[w] # GenesisPrev
    <3>1. PICK k \in DOMAIN global : global[k].ev.world = w /\ global[k].ev.hash = tip[w]
      BY <1>5, <2>2
    <3>2. global[k].ev.hash \notin acked
      BY <1>4, <2>1, <3>1
    <3> QED BY <1>3, <2>1, <3>1, <3>2 DEF Explained
  <2> QED BY <2>1, <2>2
<1>7. CASE f # <<>>
  <2> DEFINE n == Len(f)
             e == f[n].ev
  <2>1. n \in DOMAIN f /\ FileTip(f) = e.hash /\ FileSeq(f) = e.seq /\ e.world = w
        /\ \A q \in DOMAIN f : q < n \/ q = n
    BY <1>2, <1>7 DEF FileTip, FileSeq, Own
  <2>2. PICK p \in DOMAIN global : global[p].ev = e
    BY <1>1, <1>2, <2>1 DEF WorldFilesInGlobal
  <2> HIDE DEF n
  <2>3. e.hash \in Nat /\ e.hash >= 1 /\ e.seq \in Nat /\ e.seq < seq + 1
    BY <1>1, <1>3, <2>2, LogTypes DEF LogWhole
  <2>4. CASE e.hash \notin acked
    BY <2>1, <2>2, <2>3, <2>4 DEF Explained
  <2>5. CASE e.hash \in acked
    <3>1. e.hash <= tip[w] /\ tip[w] \in Nat
      BY <1>1, <2>1, <2>2, <2>5, LogTypes DEF TipCoversAcked
    <3>2. tip[w] # GenesisPrev
      BY <2>3, <3>1 DEF GenesisPrev
    <3>3. PICK k \in DOMAIN global : global[k].ev.world = w /\ global[k].ev.hash = tip[w]
      BY <1>5, <3>2
    <3>4. CASE tip[w] # e.hash
      <4>1. e.hash < global[k].ev.hash /\ global[k].ev.hash \in Nat
        BY <2>3, <3>1, <3>3, <3>4
      <4>2. global[k].ev.hash \notin acked
        <5> SUFFICES ASSUME global[k].ev.hash \in acked PROVE FALSE
          OBVIOUS
        <5>1. PICK q \in DOMAIN f : f[q].ev = global[k].ev
          BY <1>4, <3>3
        <5>2. q < n => f[q].ev.hash < e.hash
          BY <1>1, <1>2, <2>1 DEF FilesOrdered, Own
        <5> QED BY <2>1, <2>3, <4>1, <5>1, <5>2
      <4>3. p < k
        <5>1. p \in Nat /\ k \in Nat
          BY <1>1, LogTypes
        <5>2. k < p => global[k].ev.hash < global[p].ev.hash
          BY <1>1 DEF LogWhole
        <5> QED BY <2>2, <2>3, <4>1, <5>1, <5>2
      <4>4. e.seq < global[k].ev.seq
        BY <1>1, <1>2, <2>2, <4>3 DEF GlobalSeqStrict
      <4> QED BY <1>3, <2>1, <2>3, <3>3, <4>2, <4>4 DEF Explained
    <3> QED BY <2>1, <3>4
  <2> QED BY <2>4, <2>5
<1> QED BY <1>6, <1>7

(* A longer log explains what a shorter one did.                            *)
LEMMA CommitGlobalFiles ==
  ASSUME DeskInv, ChainInv, IdentityInv, FileInv,
         NEW w \in Worlds, NEW size \in Sizes, CommitGlobal(w, size)
  PROVE  FileInv'
<1>e. PICK e : e = NewEvent(w, size)
  OBVIOUS
<1>n. PICK n : n = Len(global)
  OBVIOUS
<1>1. /\ TypeOK /\ GlobalWhole /\ HashesGiven /\ LogWhole
      /\ FilesLinked /\ PendingLinks /\ FilesOrdered /\ FilesBehind /\ AckedHeld
  BY DEF DeskInv, IdentityInv, FileInv, ChainInv
<1>2. /\ e.world = w /\ e.prev = tip[w] /\ e.hash = hashes + 1 /\ e.seq = seq + 1
      /\ Whole(e).ev = e /\ Whole(e) \in Line
  BY <1>e, <1>1, NewEventType DEF NewEvent
<1>3. /\ global' = Append(global, Whole(e)) /\ pending' = e /\ up = "up"
      /\ UNCHANGED <<file, acked>>
  BY <1>e, <1>1, CleanLog DEF CommitGlobal, CanCommit
<1>4. /\ n \in Nat /\ DOMAIN global = 1 .. n /\ DOMAIN global' = 1 .. n + 1
      /\ \A i \in 1 .. n : global'[i] = global[i]
      /\ global'[n + 1].ev = e
  BY <1>n, <1>1, <1>2, <1>3 DEF TypeOK
<1>5. \A i \in 1 .. n : i \in 1 .. n + 1
  BY <1>4
<1>6. \A v, lo, hi : Explained(v, lo, hi) => Explained(v, lo, hi)'
  BY <1>3, <1>4, <1>5 DEF Explained
<1>7. FilesLinked'
  BY <1>1, <1>3, <1>6 DEF FilesLinked, Own, Linked, Scannable, Readable, GenesisPrev
<1>8. PendingLinks'
  <2>1. PICK f : f = file[FileOf[w]]
    OBVIOUS
  <2>2. Own(f, w) => tip[w] = FileTip(f) \/ Explained(w, FileSeq(f), seq + 1)
    BY <1>3, <2>1, NewLink
  <2>3. Own(f, w) => e.prev = FileTip(f) \/ Explained(w, FileSeq(f), e.seq)
    BY <1>2, <2>2
  <2>4. Own(f, w) => e.prev = FileTip(f) \/ Explained(w, FileSeq(f), e.seq)'
    BY <1>6, <2>3
  <2>5. file'[FileOf[w]] = f
    BY <1>3, <2>1
  <2> QED BY <1>2, <1>3, <2>4, <2>5 DEF PendingLinks
<1>9. FilesOrdered'
  BY <1>1, <1>3 DEF FilesOrdered, Scannable, Readable
<1>10. FilesBehind'
  <2>1. \A h \in Nat : h <= hashes => h < hashes + 1
    BY <1>1, HashTypes
  <2>2. \A f \in Files : \A i \in DOMAIN file[f] : file[f][i].ev.hash < e.hash
    BY <1>1, <1>2, <2>1, HashTypes DEF HashesGiven
  <2> QED BY <1>3, <2>2 DEF FilesBehind
<1>11. AckedHeld'
  <2>1. e.hash \notin acked
    <3>1. hashes \in Nat /\ acked \subseteq Nat /\ \A h \in acked : h <= hashes
      BY <1>1, LogTypes DEF LogWhole
    <3> QED BY <1>2, <3>1
  <2>2. \A i \in 1 .. n + 1 : i \in 1 .. n \/ i = n + 1
    BY <1>4
  <2>3. ASSUME NEW i \in DOMAIN global', global'[i].ev.hash \in acked'
        PROVE  i \in DOMAIN global /\ global'[i] = global[i] /\ global[i].ev.hash \in acked
    BY <1>3, <1>4, <2>1, <2>2, <2>3
  <2>4. AckedHeld /\ file' = file
    BY <1>1, <1>3
  <2>5. ASSUME NEW i \in DOMAIN global', global'[i].ev.hash \in acked',
               Scannable(file[FileOf[global'[i].ev.world]])
        PROVE  \E k \in DOMAIN file[FileOf[global'[i].ev.world]] :
                 file[FileOf[global'[i].ev.world]][k].ev = global'[i].ev
    BY <2>3, <2>4, <2>5 DEF AckedHeld
  <2> QED BY <2>4, <2>5 DEF AckedHeld, Scannable, Readable
<1> QED BY <1>7, <1>8, <1>9, <1>10, <1>11 DEF FileInv

LEMMA AppendFacts ==
  ASSUME NEW f \in Seq(Line), NEW m \in Line, NEW g, g = Append(f, m)
  PROVE  /\ Len(f) \in Nat /\ DOMAIN f = 1 .. Len(f) /\ DOMAIN g = 1 .. Len(f) + 1
         /\ \A i \in 1 .. Len(f) : i \in DOMAIN g /\ g[i] = f[i]
         /\ g[Len(f) + 1] = m /\ Len(f) + 1 \in DOMAIN g
         /\ (f = <<>> <=> Len(f) = 0)
OBVIOUS

(* A line at the end of a file: the order, the links before it and its own. *)
Grown(f, m, g, n) ==
  /\ n \in Nat /\ DOMAIN f = 1 .. n /\ DOMAIN g = 1 .. n + 1
  /\ \A i \in 1 .. n : i \in 1 .. n + 1 /\ g[i] = f[i] /\ (Linked(g, i) <=> Linked(f, i))
  /\ \A i \in 1 .. n : i # 1 => i - 1 \in 1 .. n /\ g[i - 1] = f[i - 1]
  /\ g[n + 1] = m
  /\ Linked(g, n + 1) <=> m.ev.prev = FileTip(f)
  /\ FileSeq(f) = IF n + 1 = 1 THEN 0 ELSE g[n].ev.seq

LEMMA FileGrows ==
  ASSUME NEW f \in Seq(Line), NEW m \in Line
  PROVE  Grown(f, m, Append(f, m), Len(f))
<1>n. PICK n : n = Len(f)
  OBVIOUS
<1>g. PICK g : g = Append(f, m)
  OBVIOUS
<1>1. /\ n \in Nat /\ DOMAIN f = 1 .. n /\ DOMAIN g = 1 .. n + 1
      /\ \A i \in 1 .. n : g[i] = f[i]
      /\ g[n + 1] = m /\ (f = <<>> <=> n = 0)
  BY <1>n, <1>g, AppendFacts
<1>2. \A i \in 1 .. n : i \in 1 .. n + 1 /\ (i # 1 => i - 1 \in 1 .. n)
  BY <1>1
<1>3. \A i \in 1 .. n : i # 1 => g[i - 1] = f[i - 1]
  BY <1>1, <1>2
<1>4. \A i \in 1 .. n : Linked(g, i) <=> Linked(f, i)
  BY <1>1, <1>3 DEF Linked
<1>5. n # 0 => n \in 1 .. n /\ n + 1 # 1 /\ (n + 1) - 1 = n
  BY <1>1
<1>6. FileTip(f) = IF n = 0 THEN GenesisPrev ELSE f[n].ev.hash
  BY <1>1 DEF FileTip
<1>7. FileSeq(f) = IF n = 0 THEN 0 ELSE f[n].ev.seq
  BY <1>1 DEF FileSeq
<1>8. Linked(g, n + 1) <=> m.ev.prev = FileTip(f)
  <2>1. CASE n = 0
    BY <1>1, <1>6, <2>1 DEF Linked
  <2>2. CASE n # 0
    BY <1>1, <1>5, <1>6, <2>2 DEF Linked
  <2> QED BY <2>1, <2>2
<1>9. FileSeq(f) = IF n + 1 = 1 THEN 0 ELSE g[n].ev.seq
  <2>1. CASE n = 0
    BY <1>1, <1>7, <2>1
  <2>2. CASE n # 0
    BY <1>1, <1>5, <1>7, <2>2
  <2> QED BY <2>1, <2>2
<1>10. Grown(f, m, g, n)
  BY <1>1, <1>2, <1>3, <1>4, <1>8, <1>9 DEF Grown
<1> QED BY <1>n, <1>g, <1>10

(* The second append of a commit, whole, partial or none at all: a file     *)
(* that can still be read is the one before or has the pending event as its *)
(* new last line, and only then is that event acknowledged.                 *)
LEMMA WorldAppendFiles ==
  ASSUME DeskInv, ChainInv, FileInv, pending # NoEvent, TypeOK',
         NEW g \in Seq(Line),
         file' = [file EXCEPT ![FileOf[pending.world]] = g],
         NEW full \in BOOLEAN,
         Scannable(g) =>
           /\ Scannable(file[FileOf[pending.world]])
           /\ \/ g = file[FileOf[pending.world]] /\ ~full
              \/ \E m \in Line : m.ev = pending /\ g = Append(file[FileOf[pending.world]], m),
         acked' = IF full THEN acked \cup {pending.hash} ELSE acked,
         pending' = NoEvent, UNCHANGED global
  PROVE  FileInv'
<1>e. PICK e : e = pending
  OBVIOUS
<1>k. PICK k : k = FileOf[pending.world]
  OBVIOUS
<1>f. PICK f : f = file[k]
  OBVIOUS
<1>1. /\ TypeOK /\ LogWhole /\ PendingLogged /\ GlobalWhole /\ GlobalSeqStrict /\ WorldFilesInGlobal
      /\ FilesLinked /\ PendingLinks /\ FilesOrdered /\ FilesBehind /\ AckedHeld
  BY DEF DeskInv, FileInv, ChainInv
<1>2. /\ f \in Seq(Line) /\ k \in Files /\ k = FileOf[e.world] /\ e.world \in Worlds
      /\ \A v \in Worlds : FileOf[v] \in Files
      /\ file'[k] = g /\ \A h \in Files : h # k => file'[h] = file[h]
  BY <1>e, <1>k, <1>f, <1>1, PendingLine, DeskAssumption DEF TypeOK
<1>3. /\ Scannable(g) => /\ Scannable(f)
                         /\ \/ g = f /\ ~full
                            \/ \E m \in Line : m.ev = e /\ g = Append(f, m)
      /\ acked' = IF full THEN acked \cup {e.hash} ELSE acked
  BY <1>e, <1>k, <1>f
<1>n. PICK n : n = Len(global)
  OBVIOUS
<1>4. /\ n \in DOMAIN global /\ global[n].ev = e /\ Readable(global) = DOMAIN global
      /\ \A i \in DOMAIN global : i < n \/ i = n
  BY <1>n, <1>e, <1>1, CleanLog DEF PendingLogged, TypeOK
<1>5. /\ \A i \in DOMAIN global : /\ global[i].ev.seq \in Nat /\ global[i].ev.hash \in Nat
                                  /\ global[i].ev.seq <= e.seq
                                  /\ global[i].ev.hash = e.hash => i = n
      /\ e.seq \in Nat
  <2>1. \A i \in DOMAIN global : /\ global[i].ev.seq \in Nat /\ global[i].ev.hash \in Nat
                                 /\ i < n => global[i].ev.seq < e.seq /\ global[i].ev.hash < e.hash
    BY <1>1, <1>4, LogTypes DEF GlobalSeqStrict, LogWhole
  <2>2. e.seq \in Nat /\ e.hash \in Nat
    BY <1>4, <2>1
  <2> QED BY <1>4, <2>1, <2>2
<1>6. \A v, lo : \A hi \in Nat :
        hi <= e.seq /\ Explained(v, lo, hi) => Explained(v, lo, hi)'
  <2> SUFFICES ASSUME NEW v, NEW lo, NEW hi \in Nat, hi <= e.seq, Explained(v, lo, hi)
               PROVE  Explained(v, lo, hi)'
    OBVIOUS
  <2>1. PICK i \in DOMAIN global : /\ global[i].ev.world = v /\ global[i].ev.hash \notin acked
                                   /\ lo <= global[i].ev.seq /\ global[i].ev.seq < hi
    BY DEF Explained
  <2>2. i # n
    BY <1>4, <1>5, <2>1
  <2>3. global[i].ev.hash \notin acked'
    BY <1>3, <1>5, <2>1, <2>2
  <2> QED BY <2>1, <2>3 DEF Explained
<1>7. \A h \in Files : \A i \in Readable(file[h]) :
        file[h][i].ev.seq \in Nat /\ file[h][i].ev.seq <= e.seq
  BY <1>1, <1>4, <1>5 DEF WorldFilesInGlobal
<1>8. FilesLinked'
  <2> SUFFICES ASSUME NEW w \in Worlds, NEW F, F = file'[FileOf[w]], Own(F, w), NEW i \in DOMAIN F
               PROVE  \/ Linked(F, i)
                      \/ Explained(w, IF i = 1 THEN 0 ELSE F[i - 1].ev.seq, F[i].ev.seq)'
    BY DEF FilesLinked, Own, Linked, Scannable, Readable, GenesisPrev, Explained
  <2>1. ASSUME F = file[FileOf[w]]
        PROVE  \/ Linked(F, i)
               \/ Explained(w, IF i = 1 THEN 0 ELSE F[i - 1].ev.seq, F[i].ev.seq)'
    <3>1. \/ Linked(F, i)
          \/ Explained(w, IF i = 1 THEN 0 ELSE F[i - 1].ev.seq, F[i].ev.seq)
      BY <1>1, <2>1 DEF FilesLinked
    <3>2. F[i].ev.seq \in Nat /\ F[i].ev.seq <= e.seq
      BY <1>2, <1>7, <2>1 DEF Own, Scannable
    <3> QED BY <1>6, <3>1, <3>2
  <2>2. ASSUME F # file[FileOf[w]]
        PROVE  \/ Linked(F, i)
               \/ Explained(w, IF i = 1 THEN 0 ELSE F[i - 1].ev.seq, F[i].ev.seq)'
    <3>1. FileOf[w] = k /\ F = g /\ f = file[FileOf[w]]
      BY <1>2, <1>f, <2>2
    <3>2. PICK m \in Line : m.ev = e /\ F = Append(f, m)
      BY <1>3, <2>2, <3>1 DEF Own
    <3>l. PICK l : l = Len(f)
      OBVIOUS
    <3>g. Grown(f, m, F, l)
      BY <1>2, <3>2, <3>l, FileGrows
    <3>3. /\ l \in Nat /\ DOMAIN f = 1 .. l /\ DOMAIN F = 1 .. l + 1
          /\ \A j \in 1 .. l : j \in 1 .. l + 1 /\ F[j] = f[j] /\ (Linked(F, j) <=> Linked(f, j))
          /\ \A j \in 1 .. l : j # 1 => j - 1 \in 1 .. l /\ F[j - 1] = f[j - 1]
          /\ F[l + 1] = m
          /\ Linked(F, l + 1) <=> m.ev.prev = FileTip(f)
          /\ FileSeq(f) = IF l + 1 = 1 THEN 0 ELSE F[l].ev.seq
      BY <3>g DEF Grown
    <3>4. l + 1 \in DOMAIN F /\ (i \in 1 .. l \/ i = l + 1) /\ (l + 1) - 1 = l
      BY <3>3
    <3>5. e.world = w /\ Own(f, w)
      <4>1. e.world = w
        BY <3>2, <3>3, <3>4 DEF Own
      <4>2. \A j \in DOMAIN f : f[j].ev.world = w
        BY <3>3 DEF Own
      <4>3. Scannable(f)
        BY <1>3, <3>1 DEF Own
      <4> QED BY <4>1, <4>2, <4>3 DEF Own
    <3>6. CASE i \in 1 .. l
      <4>1. \/ Linked(f, i)
            \/ Explained(w, IF i = 1 THEN 0 ELSE f[i - 1].ev.seq, f[i].ev.seq)
        BY <1>1, <3>1, <3>3, <3>5, <3>6 DEF FilesLinked
      <4>2. f[i].ev.seq \in Nat /\ f[i].ev.seq <= e.seq
        BY <1>2, <1>7, <3>1, <3>3, <3>5, <3>6 DEF Own, Scannable
      <4>3. (IF i = 1 THEN 0 ELSE F[i - 1].ev.seq) = (IF i = 1 THEN 0 ELSE f[i - 1].ev.seq)
        BY <3>3, <3>6
      <4>4. F[i] = f[i] /\ (Linked(F, i) <=> Linked(f, i))
        BY <3>3, <3>6
      <4> QED BY <1>6, <4>1, <4>2, <4>3, <4>4
    <3>7. CASE i = l + 1
      <4>1. e.prev = FileTip(f) \/ Explained(w, FileSeq(f), e.seq)
        BY <1>1, <1>e, <3>1, <3>5 DEF PendingLinks
      <4>2. FileSeq(f) = IF i = 1 THEN 0 ELSE F[i - 1].ev.seq
        BY <3>3, <3>4, <3>7
      <4>3. F[i].ev = e /\ (Linked(F, i) <=> e.prev = FileTip(f))
        BY <3>2, <3>3, <3>7
      <4> QED BY <1>5, <1>6, <4>1, <4>2, <4>3
    <3> QED BY <3>4, <3>6, <3>7
  <2> QED BY <2>1, <2>2
<1>9. FilesOrdered'
  <2> SUFFICES ASSUME NEW h \in Files, NEW F, F = file'[h], Scannable(F),
                      NEW i \in DOMAIN F, NEW j \in DOMAIN F, i < j
               PROVE  F[i].ev.hash < F[j].ev.hash
    BY DEF FilesOrdered, Scannable, Readable
  <2>1. CASE F = file[h]
    BY <1>1, <2>1 DEF FilesOrdered
  <2>2. CASE F # file[h]
    <3>1. h = k /\ F = g /\ f = file[h]
      BY <1>2, <1>f, <2>2
    <3>2. PICK m \in Line : m.ev = e /\ F = Append(f, m)
      BY <1>3, <2>2, <3>1
    <3>l. PICK l : l = Len(f)
      OBVIOUS
    <3>3. /\ l \in Nat /\ DOMAIN f = 1 .. l /\ DOMAIN F = 1 .. l + 1
          /\ \A q \in 1 .. l : F[q] = f[q]
          /\ F[l + 1] = m
      BY <1>2, <3>2, <3>l, AppendFacts
    <3>4. i \in 1 .. l /\ (j \in 1 .. l \/ j = l + 1)
      BY <3>3
    <3>5. CASE j \in 1 .. l
      BY <1>1, <1>3, <3>1, <3>3, <3>4, <3>5 DEF FilesOrdered
    <3>6. CASE j = l + 1
      BY <1>1, <1>e, <3>1, <3>2, <3>3, <3>4, <3>6 DEF FilesBehind
    <3> QED BY <3>4, <3>5, <3>6
  <2> QED BY <2>1, <2>2
<1>10. AckedHeld'
  <2> SUFFICES ASSUME NEW i \in DOMAIN global, global[i].ev.hash \in acked',
                      NEW F, F = file'[FileOf[global[i].ev.world]], Scannable(F)
               PROVE  \E q \in DOMAIN F : F[q].ev = global[i].ev
    BY DEF AckedHeld, Scannable, Readable
  <2>1. PICK w \in Worlds : w = global[i].ev.world
    BY <1>1, LogTypes
  <2>2. CASE global[i].ev.hash \in acked
    <3>1. CASE F = file[FileOf[w]]
      BY <1>1, <2>1, <2>2, <3>1 DEF AckedHeld
    <3>2. CASE F # file[FileOf[w]]
      <4>1. FileOf[w] = k /\ F = g /\ f = file[FileOf[w]]
        BY <1>2, <1>f, <2>1, <3>2
      <4>2. PICK m \in Line : m.ev = e /\ F = Append(f, m)
        BY <1>3, <3>2, <4>1
      <4>3. PICK q \in DOMAIN f : f[q].ev = global[i].ev
        BY <1>1, <1>3, <2>1, <2>2, <4>1 DEF AckedHeld
      <4>4. /\ DOMAIN f = 1 .. Len(f)
            /\ \A j \in 1 .. Len(f) : j \in DOMAIN F /\ F[j] = f[j]
        BY <1>2, <4>2, AppendFacts
      <4> QED BY <4>3, <4>4
    <3> QED BY <3>1, <3>2
  <2>3. CASE global[i].ev.hash \notin acked
    <3>1. full /\ global[i].ev.hash = e.hash
      BY <1>3, <2>3
    <3>2. global[i].ev = e
      BY <1>4, <1>5, <3>1
    <3>3. F = g
      BY <1>2, <3>2
    <3>4. PICK m \in Line : m.ev = e /\ F = Append(f, m)
      BY <1>3, <3>1, <3>3
    <3>5. Len(f) + 1 \in DOMAIN F /\ F[Len(f) + 1] = m
      BY <1>2, <3>4, AppendFacts
    <3> QED BY <3>2, <3>4, <3>5
  <2> QED BY <2>2, <2>3
<1>11. PendingLinks' /\ FilesBehind'
  BY DEF PendingLinks, FilesBehind
<1> QED BY <1>8, <1>9, <1>10, <1>11 DEF FileInv

LEMMA FilesStep ==
  ASSUME GlobalFaults \subseteq {"none"}, DeskInv, ChainInv, IdentityInv, FileInv, [Next]_vars
  PROVE  FileInv'
<1>t. TypeOK /\ TypeOK'
  BY NextType DEF DeskInv
<1>1. ASSUME NEW w \in Worlds, NEW size \in Sizes, CommitGlobal(w, size) PROVE FileInv'
  BY <1>1, CommitGlobalFiles
<1>2. ASSUME CommitWorld PROVE FileInv'
  <2> DEFINE f == file[FileOf[pending.world]]
             g == WriteLine(f, Whole(pending))
  <2>1. /\ pending # NoEvent /\ pending' = NoEvent /\ UNCHANGED global
        /\ acked' = acked \cup {pending.hash}
        /\ file' = [file EXCEPT ![FileOf[pending.world]] = g]
    BY <1>2 DEF CommitWorld
  <2>2. f \in Seq(Line) /\ Whole(pending) \in Line /\ Whole(pending).ev = pending
    BY <1>t, <2>1, PendingLine
  <2>3. g \in Seq(Line)
    BY <2>2, WriteLineAppends
  <2>4. Scannable(g) => Scannable(f) /\ g = Append(f, Whole(pending))
    BY <2>2, ScannableWrite
  <2>5. Scannable(g) => /\ Scannable(f)
                        /\ \/ g = f /\ ~TRUE
                           \/ \E m \in Line : m.ev = pending /\ g = Append(f, m)
    BY <2>2, <2>4
  <2>6. acked' = IF TRUE THEN acked \cup {pending.hash} ELSE acked
    BY <2>1
  <2> HIDE DEF g
  <2> QED BY <1>t, <2>1, <2>3, <2>5, <2>6, WorldAppendFiles
<1>3. ASSUME NEW fault \in WorldFaults, CommitWorldFails(fault) PROVE FileInv'
  <2> DEFINE f == file[FileOf[pending.world]]
             g == FailedAppend(f, Whole(pending), fault)
  <2>1. /\ pending # NoEvent /\ pending' = NoEvent /\ UNCHANGED <<global, acked>>
        /\ file' = [file EXCEPT ![FileOf[pending.world]] = g] /\ fault \in Faults
    BY <1>3, DeskAssumption DEF CommitWorldFails
  <2>2. f \in Seq(Line) /\ Whole(pending) \in Line /\ Whole(pending).ev = pending
    BY <1>t, <2>1, PendingLine
  <2>3. g \in Seq(Line)
    BY <2>1, <2>2, FailedAppendAppends
  <2>4. Scannable(g) => /\ Scannable(f)
                        /\ \/ g = f /\ ~FALSE
                           \/ \E m \in Line : m.ev = pending /\ g = Append(f, m)
    BY <2>1, <2>2, ScannableFailed
  <2>5. acked' = IF FALSE THEN acked \cup {pending.hash} ELSE acked
    BY <2>1
  <2> HIDE DEF g
  <2> QED BY <1>t, <2>1, <2>3, <2>4, <2>5, WorldAppendFiles
<1>4. ASSUME UNCHANGED <<global, file, acked>>, pending' \in {pending, NoEvent} PROVE FileInv'
  BY <1>4 DEF FileInv, FilesLinked, PendingLinks, FilesOrdered, FilesBehind, AckedHeld, Own,
     Scannable, Readable, Linked, GenesisPrev, FileTip, FileSeq, Explained
<1>5. ASSUME NEW w \in Worlds, NEW size \in Sizes, NEW fault \in GlobalFaults,
             CommitGlobalFails(w, size, fault)
      PROVE FileInv'
  <2>1. UNCHANGED <<global, file, acked>> /\ pending' \in {pending, NoEvent}
    BY <1>5 DEF CommitGlobalFails, FailedAppend
  <2> QED BY <1>4, <2>1
<1>6. CASE Crash \/ NewStore \/ NewStoreFails \/ UNCHANGED vars \/ \E w \in Worlds : Poll(w)
  <2>1. UNCHANGED <<global, file, acked>> /\ pending' \in {pending, NoEvent}
    BY <1>6 DEF Crash, NewStore, NewStoreFails, Poll, vars
  <2> QED BY <1>4, <2>1
<1> QED BY <1>1, <1>2, <1>3, <1>5, <1>6 DEF Next

(* VerifyChain and Commit: wherever a world's file does not verify, the log *)
(* has an event that was not acknowledged.  Crashes between the appends and *)
(* all failures of the world's append are covered; a failed append to       *)
(* global.jsonl leaves nothing and lines fit the scanner's buffer.          *)
THEOREM BreaksAreUnackedHolds ==
  ASSUME GlobalFaults \subseteq {"none"}, Sizes \subseteq {"short"}
  PROVE  Spec => []BreaksAreUnacked
<1>1. Init => FileInv
  <2> SUFFICES ASSUME Init PROVE FileInv
    OBVIOUS
  <2>1. /\ DOMAIN global = {} /\ \A f \in Files : DOMAIN file[f] = {}
        /\ pending = NoEvent /\ acked = {} /\ \A w \in Worlds : FileOf[w] \in Files
    BY DeskAssumption DEF Init
  <2> QED BY <2>1 DEF FileInv, FilesLinked, PendingLinks, FilesOrdered, FilesBehind, AckedHeld
<1>2. DeskInv /\ ChainInv /\ IdentityInv /\ FileInv /\ [Next]_vars => FileInv'
  BY FilesStep
<1>3. IdentityInv /\ [Next]_vars => IdentityInv'
  BY IdentityStep
<1>4. ChainInv /\ [Next]_vars => ChainInv'
  BY ChainStep
<1>5. DeskInv /\ ChainInv /\ FileInv => BreaksAreUnacked
  <2> SUFFICES ASSUME DeskInv, ChainInv, FileInv, NEW w \in Worlds, ~ListFails(w),
                      NEW f, f = file[FileOf[w]], NEW i \in DOMAIN f, ~Linked(f, i)
               PROVE  \E u \in Unacked(w) : u.seq < f[i].ev.seq /\ (i = 1 \/ f[i - 1].ev.seq <= u.seq)
    BY DEF BreaksAreUnacked
  <2>1. Own(f, w)
    BY DEF ListFails, Own
  <2>2. Explained(w, IF i = 1 THEN 0 ELSE f[i - 1].ev.seq, f[i].ev.seq)
    BY <2>1 DEF FileInv, FilesLinked
  <2>3. PICK j \in DOMAIN global :
          /\ global[j].ev.world = w /\ global[j].ev.hash \notin acked
          /\ (IF i = 1 THEN 0 ELSE f[i - 1].ev.seq) <= global[j].ev.seq
          /\ global[j].ev.seq < f[i].ev.seq
    BY <2>2 DEF Explained
  <2>4. global[j].ev \in Unacked(w)
    BY <2>3 DEF Unacked, Intact, ChainInv, LogWhole
  <2> QED BY <2>3, <2>4
<1>6. GlobalFaults \subseteq {"none", "sync"}
  OBVIOUS
<1> QED BY <1>1, <1>2, <1>3, <1>4, <1>5, DeskSafe, ChainInit, IdentityInit, PTL DEF Spec
=============================================================================
