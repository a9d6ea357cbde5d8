------------------------------ MODULE LossyFifo -----------------------------
(***************************************************************************)
(* What the event path promises at best: a channel that may lose events    *)
(* but neither invents nor repeats them, and reorders only those whose     *)
(* delivery it gave up, which may arrive late.  The n-th event sent is     *)
(* represented by the number n; 0 is a notice that the channel's keepers   *)
(* put in themselves.                                                      *)
(***************************************************************************)
EXTENDS Naturals, Sequences

VARIABLES
  sent,  \* how many events have been sent
  got,   \* the events received, in the order of receipt
  late   \* the events whose delivery was given up

Init == sent \in Nat /\ got = <<>> /\ late = {}

Send == sent' = sent + 1 /\ UNCHANGED <<got, late>>

(* The next event is one sent after all that were received or given up. *)
IsNext(n) ==
  /\ n \in 1 .. sent
  /\ \A i \in DOMAIN got : got[i] < n
  /\ \A m \in late : m < n

Receive ==
  /\ \E n \in 1 .. sent : IsNext(n) /\ got' = Append(got, n)
  /\ UNCHANGED <<sent, late>>

GiveUp ==
  /\ \E n \in 1 .. sent : IsNext(n) /\ late' = late \cup {n}
  /\ UNCHANGED <<sent, got>>

ArriveLate ==
  /\ \E n \in late : (\A i \in DOMAIN got : got[i] # n) /\ got' = Append(got, n)
  /\ UNCHANGED <<sent, late>>

Notice == got' = Append(got, 0) /\ UNCHANGED <<sent, late>>

Next == Send \/ Receive \/ GiveUp \/ ArriveLate \/ Notice

Spec == Init /\ [][Next]_<<sent, got, late>>
=============================================================================
