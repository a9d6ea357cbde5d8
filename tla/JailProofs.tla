----------------------------- MODULE JailProofs -----------------------------
(***************************************************************************)
(* Proofs about Jail, for every set of policies: the seccomp program, of   *)
(* any length, decides what the policy says, and the decoys are on top of  *)
(* the other mounts.                                                       *)
(***************************************************************************)
EXTENDS Jail, WellFoundedInduction, TLAPS

(* Induction: a set of numbers that is not empty has a least one.          *)
LEMMA LeastNumber ==
  ASSUME NEW T, T \subseteq Nat, T # {}
  PROVE  \E n \in T : \A m \in T : ~(m < n)
<1>1. PICK n \in T : \A m \in T : ~(<<m, n>> \in OpToRel(<, Nat))
  BY NatLessThanWellFounded, WFMin
<1> QED BY <1>1 DEF OpToRel

(* One step of Subsequence.                                                *)
Extend(seq, I, G, i) ==
  IF i = 0 THEN <<>> ELSE IF i \in I THEN Append(G[i - 1], seq[i]) ELSE G[i - 1]

(* The function that Subsequence computes exists, so CHOOSE finds it.      *)
LEMMA SubsequenceFcn ==
  ASSUME NEW seq, NEW I, Len(seq) \in Nat
  PROVE  \E G : /\ Subsequence(seq, I) = G[Len(seq)]
                /\ G = [i \in 0 .. Len(seq) |-> Extend(seq, I, G, i)]
<1> DEFINE n == Len(seq)
           Upto(G, m) == G = [i \in 0 .. m |-> Extend(seq, I, G, i)]
           Bad == {m \in Nat : ~ \E G : Upto(G, m)}
<1>1. Bad = {}
  <2>1. SUFFICES ASSUME Bad # {} PROVE FALSE
    OBVIOUS
  <2>2. PICK m \in Bad : \A k \in Bad : ~(k < m)
    BY <2>1, LeastNumber
  <2>3. CASE m = 0
    <3> DEFINE H == [i \in 0 .. 0 |-> <<>>]
    <3>1. H = [i \in 0 .. 0 |-> Extend(seq, I, H, i)]
      BY DEF Extend
    <3> QED BY <2>2, <2>3, <3>1
  <2>4. CASE m # 0
    <3>1. m \in Nat /\ m - 1 \in Nat /\ m - 1 < m
      BY <2>2, <2>4
    <3>2. PICK G : Upto(G, m - 1)
      BY <2>2, <3>1
    <3> DEFINE H == [i \in 0 .. m |-> IF i < m THEN G[i] ELSE Extend(seq, I, G, m)]
    <3>3. \A i \in 0 .. m - 1 : G[i] = Extend(seq, I, G, i)
      BY <3>2
    <3>4. ASSUME NEW i \in 0 .. m
          PROVE  H[i] = Extend(seq, I, H, i)
      <4>1. i # 0 => i - 1 \in 0 .. m /\ i - 1 < m
        BY <3>1
      <4>2. i # 0 => H[i - 1] = G[i - 1]
        BY <4>1
      <4>3. Extend(seq, I, H, i) = Extend(seq, I, G, i)
        <5> HIDE DEF H
        <5> QED BY <4>2 DEF Extend
      <4>4. CASE i < m
        <5>1. i \in 0 .. m - 1
          BY <3>1, <4>4
        <5> QED BY <3>3, <4>3, <4>4, <5>1
      <4>5. CASE i = m
        BY <4>3, <4>5
      <4> QED BY <3>1, <4>4, <4>5
    <3>5. H = [i \in 0 .. m |-> H[i]]
      OBVIOUS
    <3>6. Upto(H, m)
      <4> HIDE DEF H
      <4> QED BY <3>4, <3>5
    <3> QED BY <2>2, <3>6
  <2> QED BY <2>3, <2>4
<1>2. \E G : Upto(G, n)
  BY <1>1
<1>3. \E G : G = [i \in 0 .. n |-> IF i = 0 THEN <<>> ELSE IF i \in I THEN Append(G[i - 1], seq[i])
                                   ELSE G[i - 1]]
  BY <1>2 DEF Extend
<1> DEFINE U == CHOOSE G : G = [i \in 0 .. n |-> IF i = 0 THEN <<>>
                                                 ELSE IF i \in I THEN Append(G[i - 1], seq[i])
                                                 ELSE G[i - 1]]
<1>4. U = [i \in 0 .. n |-> IF i = 0 THEN <<>> ELSE IF i \in I THEN Append(U[i - 1], seq[i])
                            ELSE U[i - 1]]
  BY <1>3
<1>5. Subsequence(seq, I) = U[n]
  BY DEF Subsequence
<1> HIDE DEF U
<1> QED BY <1>4, <1>5 DEF Extend

(* Subsequence takes what is at the positions I, and nothing else.         *)
LEMMA SubsequenceElems ==
  ASSUME NEW S, NEW seq \in Seq(S), NEW I
  PROVE  /\ Subsequence(seq, I) \in Seq(S)
         /\ Elems(Subsequence(seq, I)) = {seq[i] : i \in I \cap DOMAIN seq}
<1> DEFINE n == Len(seq)
<1>1. n \in Nat /\ DOMAIN seq = 1 .. n
  OBVIOUS
<1>2. PICK G : /\ Subsequence(seq, I) = G[n]
               /\ G = [i \in 0 .. n |-> Extend(seq, I, G, i)]
  BY <1>1, SubsequenceFcn
<1>3. \A i \in 0 .. n : G[i] = Extend(seq, I, G, i)
  BY <1>2
<1> DEFINE Good(i) == G[i] \in Seq(S) /\ Elems(G[i]) = {seq[j] : j \in {k \in 1 .. i : k \in I}}
           Bad == {i \in 0 .. n : ~Good(i)}
<1>4. Bad = {}
  <2>1. SUFFICES ASSUME Bad # {} PROVE FALSE
    OBVIOUS
  <2>2. Bad \subseteq Nat
    BY <1>1
  <2>3. PICK m \in Bad : \A k \in Bad : ~(k < m)
    BY <2>1, <2>2, LeastNumber
  <2>4. CASE m = 0
    <3>1. G[0] = <<>>
      BY <1>1, <1>3 DEF Extend
    <3>2. Elems(<<>>) = {} /\ 1 .. 0 = {}
      BY DEF Elems
    <3>3. Good(0)
      BY <3>1, <3>2
    <3> QED BY <2>3, <2>4, <3>3
  <2>5. CASE m # 0
    <3>1. m \in 1 .. n /\ m - 1 \in 0 .. n /\ m - 1 < m
      BY <1>1, <2>3, <2>5
    <3>2. Good(m - 1)
      BY <2>3, <3>1
    <3> DEFINE g == G[m - 1]
    <3>3. g \in Seq(S) /\ Elems(g) = {seq[j] : j \in {k \in 1 .. m - 1 : k \in I}}
      BY <3>2
    <3>4. G[m] = IF m \in I THEN Append(g, seq[m]) ELSE g
      BY <1>3, <2>5, <3>1 DEF Extend
    <3>5. seq[m] \in S
      BY <1>1, <3>1
    <3>6. \A k \in 1 .. m : k \in 1 .. m - 1 \/ k = m
      BY <3>1
    <3>7. \A k \in 1 .. m - 1 : k \in 1 .. m
      BY <3>1
    <3>8. m \in 1 .. m
      BY <3>1
    <3> HIDE DEF g
    <3>9. CASE m \in I
      <4>1. Elems(Append(g, seq[m])) = Elems(g) \cup {seq[m]}
        <5> DEFINE h == Append(g, seq[m])
                   l == Len(g)
        <5>1. l \in Nat /\ DOMAIN g = 1 .. l /\ DOMAIN h = 1 .. l + 1
              /\ (\A i \in 1 .. l : h[i] = g[i]) /\ h[l + 1] = seq[m]
          BY <3>3, <3>5
        <5> HIDE DEF h, l
        <5>2. \A i \in 1 .. l + 1 : i \in 1 .. l \/ i = l + 1
          BY <5>1
        <5>3. (\A i \in 1 .. l : i \in 1 .. l + 1) /\ l + 1 \in 1 .. l + 1
          BY <5>1
        <5>4. Elems(h) = Elems(g) \cup {seq[m]}
          BY <5>1, <5>2, <5>3 DEF Elems
        <5> QED BY <5>4 DEF h
      <4>2. {seq[j] : j \in {k \in 1 .. m : k \in I}} = Elems(g) \cup {seq[m]}
        BY <3>3, <3>6, <3>7, <3>8, <3>9
      <4>3. Append(g, seq[m]) \in Seq(S)
        BY <3>3, <3>5
      <4>4. Good(m)
        BY <3>4, <3>9, <4>1, <4>2, <4>3
      <4> QED BY <2>3, <4>4
    <3>10. CASE m \notin I
      <4>1. {k \in 1 .. m : k \in I} = {k \in 1 .. m - 1 : k \in I}
        BY <3>6, <3>7, <3>10
      <4>2. Good(m)
        BY <3>3, <3>4, <3>10, <4>1
      <4> QED BY <2>3, <4>2
    <3> QED BY <3>9, <3>10
  <2> QED BY <2>4, <2>5
<1>5. n \in 0 .. n
  BY <1>1
<1>6. Good(n)
  BY <1>4, <1>5
<1>7. {seq[j] : j \in {k \in 1 .. n : k \in I}} = {seq[i] : i \in I \cap DOMAIN seq}
  BY <1>1
<1> QED BY <1>2, <1>6, <1>7
-----------------------------------------------------------------------------
(* The parts of the seccomp program: the names left after the I3 calls are *)
(* dropped, those tested one by one, and the place before the first test.  *)
Kept(p) == Subsequence(p.allowed, {i \in DOMAIN p.allowed : p.allowed[i] \notin I3})
Simple(p) == Subsequence(Kept(p), {i \in DOMAIN Kept(p) : Kept(p)[i] # "clone"})
Handled(p) == "clone" \in Elems(Kept(p))
Handler(p) == IF Handled(p) THEN CloneHandler ELSE <<>>
Start(p) == IF Handled(p) THEN 9 ELSE 4
Tests(p) == [i \in 1 .. 2 * Len(Simple(p)) |->
              IF i % 2 = 1 THEN JEQ(Simple(p)[(i + 1) \div 2], 0, 1) ELSE RET("ALLOW")]
Instruction ==
  {LD("arch"), LD("nr"), LD("args0"), JEQ("x86_64", 1, 0), JEQ("clone", 0, 4), JSET(0, 1),
   RET("ALLOW"), RET("EPERM")} \cup {JEQ(k, 0, 1) : k \in STRING}

LEMMA Concatenation ==
  ASSUME NEW S, NEW s \in Seq(S), NEW t \in Seq(S), NEW c, c = s \o t
  PROVE  /\ c \in Seq(S)
         /\ Len(c) = Len(s) + Len(t)
         /\ \A i \in 1 .. Len(s) : c[i] = s[i]
         /\ \A i \in 1 .. Len(t) : c[Len(s) + i] = t[i]
OBVIOUS

(* The names a policy allows are those tested, and clone when handled.     *)
LEMMA AllowedNames ==
  ASSUME NEW p \in Policies
  PROVE  /\ Simple(p) \in Seq(STRING)
         /\ Elems(Simple(p)) = (Elems(p.allowed) \ I3) \ {"clone"}
         /\ Handled(p) <=> "clone" \in Elems(p.allowed) \ I3
<1> DEFINE a == p.allowed
           I == {i \in DOMAIN a : a[i] \notin I3}
           k == Kept(p)
           J == {i \in DOMAIN k : k[i] # "clone"}
<1>1. a \in Seq(STRING)
  BY JailAssumption
<1>2. k \in Seq(STRING) /\ Elems(k) = {a[i] : i \in I \cap DOMAIN a}
  <2>1. k = Subsequence(a, I)
    BY DEF Kept
  <2> HIDE DEF a, I, k
  <2> QED BY <1>1, <2>1, SubsequenceElems
<1>3. Simple(p) \in Seq(STRING) /\ Elems(Simple(p)) = {k[i] : i \in J \cap DOMAIN k}
  <2>1. Simple(p) = Subsequence(k, J)
    BY DEF Simple
  <2> HIDE DEF J, k
  <2> QED BY <1>2, <2>1, SubsequenceElems
<1>4. Elems(k) = Elems(a) \ I3
  <2> HIDE DEF a, k
  <2> QED BY <1>2 DEF Elems
<1>5. Elems(Simple(p)) = Elems(k) \ {"clone"}
  <2> HIDE DEF k
  <2> QED BY <1>3 DEF Elems
<1> QED BY <1>3, <1>4, <1>5 DEF Handled

(* What compile_seccomp puts where.                                        *)
LEMMA ProgramShape ==
  ASSUME NEW p \in Policies
  PROVE  LET P == CompileSeccomp(p)
             n == Len(Simple(p))
             b == Start(p)
         IN /\ n \in Nat
            /\ DOMAIN P = 1 .. b + 2 * n + 1
            /\ P[1] = LD("arch") /\ P[2] = JEQ("x86_64", 1, 0) /\ P[3] = RET("EPERM") /\ P[4] = LD("nr")
            /\ Handled(p) => /\ P[5] = JEQ("clone", 0, 4) /\ P[6] = LD("args0") /\ P[7] = JSET(0, 1)
                             /\ P[8] = RET("EPERM") /\ P[9] = RET("ALLOW")
            /\ \A j \in 1 .. n : P[b + 2 * j - 1] = JEQ(Simple(p)[j], 0, 1) /\ P[b + 2 * j] = RET("ALLOW")
            /\ P[b + 2 * n + 1] = RET("EPERM")
<1> DEFINE s == Simple(p)
           n == Len(s)
           b == Start(p)
           P == CompileSeccomp(p)
           H == Handler(p)
           T == Tests(p)
           E == <<RET("EPERM")>>
           Q == Prologue \o H
           R == Q \o T
<1>1. s \in Seq(STRING) /\ n \in Nat /\ DOMAIN s = 1 .. n
  BY AllowedNames
<1>2. P = R \o E
  BY DEF CompileSeccomp, Handler, Tests, Handled, Simple, Kept
<1>3. Prologue \in Seq(Instruction) /\ Len(Prologue) = 4
  <2>1. LD("arch") \in Instruction /\ JEQ("x86_64", 1, 0) \in Instruction
        /\ RET("EPERM") \in Instruction /\ LD("nr") \in Instruction
    BY DEF Instruction
  <2> QED BY <2>1 DEF Prologue
<1> HIDE DEF H, b
<1>4. H \in Seq(Instruction) /\ Len(H) = b - 4 /\ b \in {4, 9}
  <2>1. JEQ("clone", 0, 4) \in Instruction /\ LD("args0") \in Instruction /\ JSET(0, 1) \in Instruction
        /\ RET("EPERM") \in Instruction /\ RET("ALLOW") \in Instruction
    BY DEF Instruction
  <2>2. CloneHandler \in Seq(Instruction) /\ Len(CloneHandler) = 5
    BY <2>1 DEF CloneHandler
  <2>3. <<>> \in Seq(Instruction) /\ Len(<<>>) = 0
    OBVIOUS
  <2>4. CASE Handled(p)
    <3>1. H = CloneHandler /\ b = 9
      BY <2>4 DEF Handler, Start, H, b
    <3> QED BY <2>2, <3>1
  <2>5. CASE ~Handled(p)
    <3>1. H = <<>> /\ b = 4
      BY <2>5 DEF Handler, Start, H, b
    <3> QED BY <2>3, <3>1
  <2> QED BY <2>4, <2>5
<1>5. T \in Seq(Instruction) /\ Len(T) = 2 * n
  <2> HIDE DEF s, n
  <2>0. T = [i \in 1 .. 2 * n |-> IF i % 2 = 1 THEN JEQ(s[(i + 1) \div 2], 0, 1) ELSE RET("ALLOW")]
    BY DEF Tests, s, n
  <2>1. ASSUME NEW i \in 1 .. 2 * n, i % 2 = 1
        PROVE  (i + 1) \div 2 \in 1 .. n
    BY <1>1, <2>1
  <2>2. \A i \in 1 .. 2 * n : T[i] \in Instruction
    <3> TAKE i \in 1 .. 2 * n
    <3>1. RET("ALLOW") \in Instruction
      BY DEF Instruction
    <3>2. CASE i % 2 = 1
      <4>1. s[(i + 1) \div 2] \in STRING
        BY <1>1, <2>1, <3>2
      <4>2. JEQ(s[(i + 1) \div 2], 0, 1) \in Instruction
        BY <4>1 DEF Instruction
      <4> QED BY <2>0, <3>2, <4>2
    <3>3. CASE i % 2 # 1
      BY <2>0, <3>1, <3>3
    <3> QED BY <3>2, <3>3
  <2>3. 2 * n \in Nat
    BY <1>1
  <2> HIDE DEF T
  <2>4. T = [i \in 1 .. 2 * n |-> T[i]]
    BY <2>0
  <2> QED BY <2>2, <2>3, <2>4
<1>6. E \in Seq(Instruction) /\ Len(E) = 1 /\ E[1] = RET("EPERM")
  <2>1. RET("EPERM") \in Instruction
    BY DEF Instruction
  <2> QED BY <2>1
<1>7. \A j \in 1 .. n : T[2 * j - 1] = JEQ(s[j], 0, 1) /\ T[2 * j] = RET("ALLOW")
  <2> TAKE j \in 1 .. n
  <2> HIDE DEF s, n
  <2>0. T = [i \in 1 .. 2 * n |-> IF i % 2 = 1 THEN JEQ(s[(i + 1) \div 2], 0, 1) ELSE RET("ALLOW")]
    BY DEF Tests, s, n
  <2>1. 2 * j - 1 \in 1 .. 2 * n /\ 2 * j \in 1 .. 2 * n
    BY <1>1
  <2>2. (2 * j - 1) % 2 = 1 /\ (2 * j - 1 + 1) \div 2 = j /\ (2 * j) % 2 = 0
    BY <1>1
  <2> QED BY <2>0, <2>1, <2>2
<1> HIDE DEF s, n, P, T, E
<1>80. Q = Prologue \o H /\ R = Q \o T
  OBVIOUS
<1> HIDE DEF Q, R
<1>8. Q \in Seq(Instruction) /\ Len(Q) = b
      /\ (\A i \in 1 .. 4 : Q[i] = Prologue[i]) /\ \A i \in 1 .. b - 4 : Q[4 + i] = H[i]
  <2>0. Prologue \in Seq(Instruction) /\ H \in Seq(Instruction) /\ Q = Prologue \o H
    BY <1>3, <1>4, <1>80
  <2>a. Q \in Seq(Instruction)
    BY <2>0, Concatenation
  <2>b. Len(Q) = Len(Prologue) + Len(H)
    BY <2>0, Concatenation
  <2>c. \A i \in 1 .. Len(Prologue) : Q[i] = Prologue[i]
    BY <2>0, Concatenation
  <2>d. \A i \in 1 .. Len(H) : Q[Len(Prologue) + i] = H[i]
    BY <2>0, Concatenation
  <2>2. 4 + (b - 4) = b
    BY <1>4
  <2> QED BY <1>3, <1>4, <2>2, <2>a, <2>b, <2>c, <2>d
<1>9. R \in Seq(Instruction) /\ Len(R) = b + 2 * n
      /\ (\A i \in 1 .. b : R[i] = Q[i]) /\ \A i \in 1 .. 2 * n : R[b + i] = T[i]
  <2>0. Q \in Seq(Instruction) /\ T \in Seq(Instruction) /\ R = Q \o T
    BY <1>5, <1>8, <1>80
  <2>a. R \in Seq(Instruction)
    BY <2>0, Concatenation
  <2>b. Len(R) = Len(Q) + Len(T)
    BY <2>0, Concatenation
  <2>c. \A i \in 1 .. Len(Q) : R[i] = Q[i]
    BY <2>0, Concatenation
  <2>d. \A i \in 1 .. Len(T) : R[Len(Q) + i] = T[i]
    BY <2>0, Concatenation
  <2> QED BY <1>5, <1>8, <2>a, <2>b, <2>c, <2>d
<1>10. P \in Seq(Instruction) /\ Len(P) = b + 2 * n + 1
       /\ (\A i \in 1 .. b + 2 * n : P[i] = R[i]) /\ P[b + 2 * n + 1] = E[1]
  <2>1. 1 \in 1 .. 1
    OBVIOUS
  <2>0. R \in Seq(Instruction) /\ E \in Seq(Instruction) /\ P = R \o E
    BY <1>2, <1>6, <1>9
  <2>a. P \in Seq(Instruction)
    BY <2>0, Concatenation
  <2>b. Len(P) = Len(R) + Len(E)
    BY <2>0, Concatenation
  <2>c. \A i \in 1 .. Len(R) : P[i] = R[i]
    BY <2>0, Concatenation
  <2>d. \A i \in 1 .. Len(E) : P[Len(R) + i] = E[i]
    BY <2>0, Concatenation
  <2> QED BY <1>6, <1>9, <2>1, <2>a, <2>b, <2>c, <2>d
<1>11. DOMAIN P = 1 .. b + 2 * n + 1
  BY <1>10
<1>12. \A i \in 1 .. 4 : P[i] = Prologue[i]
  <2>1. \A i \in 1 .. 4 : i \in 1 .. b /\ i \in 1 .. b + 2 * n
    BY <1>1, <1>4
  <2> QED BY <1>8, <1>9, <1>10, <2>1
<1>13. P[1] = LD("arch") /\ P[2] = JEQ("x86_64", 1, 0) /\ P[3] = RET("EPERM") /\ P[4] = LD("nr")
  BY <1>12 DEF Prologue
<1>14. ASSUME Handled(p)
       PROVE  /\ P[5] = JEQ("clone", 0, 4) /\ P[6] = LD("args0") /\ P[7] = JSET(0, 1)
              /\ P[8] = RET("EPERM") /\ P[9] = RET("ALLOW")
  <2>1. b = 9 /\ H = CloneHandler
    BY <1>14 DEF b, H, Start, Handler
  <2>2. \A i \in 1 .. 5 : i \in 1 .. b - 4 /\ 4 + i \in 1 .. b /\ 4 + i \in 1 .. b + 2 * n
    BY <1>1, <2>1
  <2>3. \A i \in 1 .. 5 : P[4 + i] = CloneHandler[i]
    BY <1>8, <1>9, <1>10, <2>1, <2>2
  <2>4. P[4 + 1] = CloneHandler[1] /\ P[4 + 2] = CloneHandler[2] /\ P[4 + 3] = CloneHandler[3]
        /\ P[4 + 4] = CloneHandler[4] /\ P[4 + 5] = CloneHandler[5]
    BY <2>3
  <2> QED BY <2>4 DEF CloneHandler
<1>15. ASSUME NEW j \in 1 .. n
       PROVE  P[b + 2 * j - 1] = JEQ(s[j], 0, 1) /\ P[b + 2 * j] = RET("ALLOW")
  <2>1. b + 2 * j - 1 = b + (2 * j - 1) /\ 2 * j - 1 \in 1 .. 2 * n /\ 2 * j \in 1 .. 2 * n
        /\ b + (2 * j - 1) \in 1 .. b + 2 * n /\ b + 2 * j \in 1 .. b + 2 * n
    BY <1>1, <1>4
  <2> QED BY <1>7, <1>9, <1>10, <2>1
<1> QED BY <1>1, <1>6, <1>10, <1>11, <1>13, <1>14, <1>15 DEF s, n, b, P
-----------------------------------------------------------------------------
(* Where the BPF machine is and what it knows there, for a program of any  *)
(* length: in the prologue, in the clone handler, or among the tests after *)
(* j of them failed.                                                       *)
InPrologue ==
  \/ pc = 1
  \/ pc = 2 /\ acc = call.arch
  \/ pc = 3 /\ call.arch # "x86_64"
  \/ pc = 4 /\ call.arch = "x86_64"

InHandler ==
  /\ Handled(policy) /\ call.arch = "x86_64"
  /\ \/ pc = 5 /\ acc = call.nr
     \/ pc = 6 /\ call.nr = "clone"
     \/ pc = 7 /\ call.nr = "clone" /\ acc = call.flags
     \/ pc = 8 /\ call.nr = "clone" /\ call.flags \cap NSFlags # {}
     \/ pc = 9 /\ call.nr = "clone" /\ call.flags \cap NSFlags = {}

InTests ==
  /\ call.arch = "x86_64"
  /\ Handled(policy) => call.nr # "clone"
  /\ \E j \in 0 .. Len(Simple(policy)) :
       /\ \A i \in 1 .. j : call.nr # Simple(policy)[i]
       /\ \/ pc = Start(policy) + 2 * j + 1 /\ acc = call.nr
          \/ /\ pc = Start(policy) + 2 * j + 2
             /\ j < Len(Simple(policy)) /\ call.nr = Simple(policy)[j + 1]

FilterInv ==
  /\ policy \in Policies
  /\ step \in {"exec", "judge", "decided"} => prog = CompileSeccomp(policy)
  /\ step = "judge" => InPrologue \/ InHandler \/ InTests
  /\ step = "decided" => verdict = IF Permitted THEN "ALLOW" ELSE "EPERM"

(* The four instructions of the BPF machine.                               *)
LEMMA Machine ==
  ASSUME RunFilter
  PROVE  /\ \A f : prog[pc] = LD(f) =>
              acc' = Field(f) /\ pc' = pc + 1 /\ step' = "judge"
         /\ \A k, jt, jf : prog[pc] = JEQ(k, jt, jf) =>
              pc' = pc + 1 + (IF acc = k THEN jt ELSE jf) /\ acc' = acc /\ step' = "judge"
         /\ \A jt, jf : prog[pc] = JSET(jt, jf) =>
              pc' = pc + 1 + (IF acc \cap NSFlags # {} THEN jt ELSE jf) /\ acc' = acc /\ step' = "judge"
         /\ \A k : prog[pc] = RET(k) => verdict' = k /\ step' = "decided"
<1>1. ASSUME NEW f, prog[pc] = LD(f)
      PROVE  acc' = Field(f) /\ pc' = pc + 1 /\ step' = "judge"
  <2>1. prog[pc].op = "LD" /\ prog[pc].k = f
    BY <1>1 DEF LD
  <2> QED BY <2>1 DEF RunFilter
<1>2. ASSUME NEW k, NEW jt, NEW jf, prog[pc] = JEQ(k, jt, jf)
      PROVE  pc' = pc + 1 + (IF acc = k THEN jt ELSE jf) /\ acc' = acc /\ step' = "judge"
  <2>1. prog[pc].op = "JEQ" /\ prog[pc].k = k /\ prog[pc].jt = jt /\ prog[pc].jf = jf
    BY <1>2 DEF JEQ
  <2> QED BY <2>1 DEF RunFilter, Jump
<1>3. ASSUME NEW jt, NEW jf, prog[pc] = JSET(jt, jf)
      PROVE  pc' = pc + 1 + (IF acc \cap NSFlags # {} THEN jt ELSE jf) /\ acc' = acc /\ step' = "judge"
  <2>1. prog[pc].op = "JSET" /\ prog[pc].jt = jt /\ prog[pc].jf = jf
    BY <1>3 DEF JSET
  <2> QED BY <2>1 DEF RunFilter, Jump
<1>4. ASSUME NEW k, prog[pc] = RET(k)
      PROVE  verdict' = k /\ step' = "decided"
  <2>1. prog[pc].op = "RET" /\ prog[pc].k = k
    BY <1>4 DEF RET
  <2> QED BY <2>1 DEF RunFilter
<1> QED BY <1>1, <1>2, <1>3, <1>4

(* One instruction of the program leads from place to place, or to the     *)
(* verdict that is due.                                                    *)
LEMMA FilterStep ==
  ASSUME policy \in Policies, prog = CompileSeccomp(policy),
         InPrologue \/ InHandler \/ InTests, RunFilter
  PROVE  \/ step' = "judge" /\ (InPrologue \/ InHandler \/ InTests)'
         \/ step' = "decided" /\ verdict' = IF Permitted THEN "ALLOW" ELSE "EPERM"
<1> DEFINE s == Simple(policy)
           n == Len(s)
           b == Start(policy)
           Due == IF Permitted THEN "ALLOW" ELSE "EPERM"
<1>1. /\ n \in Nat
      /\ prog[1] = LD("arch") /\ prog[2] = JEQ("x86_64", 1, 0)
      /\ prog[3] = RET("EPERM") /\ prog[4] = LD("nr")
      /\ Handled(policy) => /\ prog[5] = JEQ("clone", 0, 4) /\ prog[6] = LD("args0")
                            /\ prog[7] = JSET(0, 1) /\ prog[8] = RET("EPERM") /\ prog[9] = RET("ALLOW")
      /\ \A j \in 1 .. n : prog[b + 2 * j - 1] = JEQ(s[j], 0, 1) /\ prog[b + 2 * j] = RET("ALLOW")
      /\ prog[b + 2 * n + 1] = RET("EPERM")
  BY ProgramShape
<1>2. /\ s \in Seq(STRING) /\ DOMAIN s = 1 .. n
      /\ Elems(s) = (Elems(policy.allowed) \ I3) \ {"clone"}
      /\ Handled(policy) <=> "clone" \in Elems(policy.allowed) \ I3
  BY AllowedNames
<1>3. policy' = policy /\ call' = call
  BY DEF RunFilter, jailVars
<1>4. b = IF Handled(policy) THEN 9 ELSE 4
  BY DEF Start
<1>5. s' = s /\ n' = n /\ b' = b /\ Handled(policy)' = Handled(policy)
  BY <1>3
<1>6. Field("arch") = call.arch /\ Field("nr") = call.nr /\ Field("args0") = call.flags
  BY DEF Field
<1> HIDE DEF s, n, b
<1>7. ASSUME call.arch = "x86_64", Handled(policy) => call.nr # "clone", NEW j \in 0 .. n,
             \A i \in 1 .. j : call.nr # s[i],
             \/ pc' = b + 2 * j + 1 /\ acc' = call.nr
             \/ pc' = b + 2 * j + 2 /\ j < n /\ call.nr = s[j + 1]
      PROVE  InTests'
  <2>1. (call.arch)' = call.arch /\ (call.nr)' = call.nr
    BY <1>3
  <2>2. \E k \in 0 .. n :
          /\ \A i \in 1 .. k : call.nr # s[i]
          /\ \/ pc' = b + 2 * k + 1 /\ acc' = call.nr
             \/ pc' = b + 2 * k + 2 /\ k < n /\ call.nr = s[k + 1]
    BY <1>7
  <2> QED BY <1>3, <1>5, <1>7, <2>1, <2>2 DEF InTests, s, n, b
<1>8. CASE pc = 1
  <2>1. acc' = call.arch /\ pc' = 2 /\ step' = "judge"
    BY <1>1, <1>6, <1>8, Machine
  <2> QED BY <1>3, <2>1 DEF InPrologue
<1>9. CASE pc = 2 /\ acc = call.arch
  <2>1. pc' = (IF call.arch = "x86_64" THEN 4 ELSE 3) /\ step' = "judge"
    BY <1>1, <1>9, Machine
  <2> QED BY <1>3, <2>1 DEF InPrologue
<1>10. CASE pc = 3 /\ call.arch # "x86_64"
  <2>1. verdict' = "EPERM" /\ step' = "decided"
    BY <1>1, <1>10, Machine
  <2> QED BY <1>10, <2>1 DEF Permitted
<1>11. CASE pc = 4 /\ call.arch = "x86_64"
  <2>1. acc' = call.nr /\ pc' = 5 /\ step' = "judge"
    BY <1>1, <1>6, <1>11, Machine
  <2>2. CASE Handled(policy)
    BY <1>3, <1>5, <1>11, <2>1, <2>2 DEF InHandler
  <2>3. CASE ~Handled(policy)
    <3>1. 0 \in 0 .. n /\ pc' = b + 2 * 0 + 1 /\ \A i \in 1 .. 0 : call.nr # s[i]
      BY <1>1, <1>4, <2>1, <2>3
    <3> QED BY <1>7, <1>11, <2>1, <2>3, <3>1
  <2> QED BY <2>2, <2>3
<1>12. CASE InHandler /\ pc = 5
  <2>1. Handled(policy) /\ call.arch = "x86_64" /\ acc = call.nr
    BY <1>12 DEF InHandler
  <2>2. pc' = (IF call.nr = "clone" THEN 6 ELSE 10) /\ acc' = call.nr /\ step' = "judge"
    BY <1>1, <1>12, <2>1, Machine
  <2>3. CASE call.nr = "clone"
    BY <1>3, <1>5, <2>1, <2>2, <2>3 DEF InHandler
  <2>4. CASE call.nr # "clone"
    <3>1. 0 \in 0 .. n /\ pc' = b + 2 * 0 + 1 /\ \A i \in 1 .. 0 : call.nr # s[i]
      BY <1>1, <1>4, <2>1, <2>2, <2>4
    <3> QED BY <1>7, <2>1, <2>2, <2>4, <3>1
  <2> QED BY <2>3, <2>4
<1>13. CASE InHandler /\ pc = 6
  <2>1. Handled(policy) /\ call.arch = "x86_64" /\ call.nr = "clone"
    BY <1>13 DEF InHandler
  <2>2. acc' = call.flags /\ pc' = 7 /\ step' = "judge"
    BY <1>1, <1>6, <1>13, <2>1, Machine
  <2> QED BY <1>3, <1>5, <2>1, <2>2 DEF InHandler
<1>14. CASE InHandler /\ pc = 7
  <2>1. Handled(policy) /\ call.arch = "x86_64" /\ call.nr = "clone" /\ acc = call.flags
    BY <1>14 DEF InHandler
  <2>2. pc' = (IF call.flags \cap NSFlags # {} THEN 8 ELSE 9) /\ step' = "judge"
    BY <1>1, <1>14, <2>1, Machine
  <2> QED BY <1>3, <1>5, <2>1, <2>2 DEF InHandler
<1>15. CASE InHandler /\ pc = 8
  <2>1. Handled(policy) /\ call.nr = "clone" /\ call.flags \cap NSFlags # {}
    BY <1>15 DEF InHandler
  <2>2. verdict' = "EPERM" /\ step' = "decided"
    BY <1>1, <1>15, <2>1, Machine
  <2> QED BY <2>1, <2>2 DEF Permitted
<1>16. CASE InHandler /\ pc = 9
  <2>1. Handled(policy) /\ call.arch = "x86_64" /\ call.nr = "clone" /\ call.flags \cap NSFlags = {}
    BY <1>16 DEF InHandler
  <2>2. verdict' = "ALLOW" /\ step' = "decided"
    BY <1>1, <1>16, <2>1, Machine
  <2> QED BY <1>2, <2>1, <2>2 DEF Permitted
<1>17. CASE InTests
  <2>1. call.arch = "x86_64" /\ (Handled(policy) => call.nr # "clone")
    BY <1>17 DEF InTests
  <2>2. PICK j \in 0 .. n : /\ \A i \in 1 .. j : call.nr # s[i]
                            /\ \/ pc = b + 2 * j + 1 /\ acc = call.nr
                               \/ pc = b + 2 * j + 2 /\ j < n /\ call.nr = s[j + 1]
    BY <1>17 DEF InTests, s, n, b
  <2>3. CASE pc = b + 2 * j + 1 /\ acc = call.nr /\ j < n
    <3>1. j + 1 \in 1 .. n /\ pc = b + 2 * (j + 1) - 1
      BY <1>1, <1>4, <2>3
    <3>2. prog[pc] = JEQ(s[j + 1], 0, 1)
      BY <1>1, <3>1
    <3>3. pc' = pc + 1 + (IF call.nr = s[j + 1] THEN 0 ELSE 1) /\ acc' = call.nr /\ step' = "judge"
      BY <2>3, <3>2, Machine
    <3>4. CASE call.nr = s[j + 1]
      <4>1. pc' = b + 2 * j + 2
        BY <1>4, <2>3, <3>3, <3>4
      <4> QED BY <1>7, <2>1, <2>2, <2>3, <3>3, <3>4, <4>1
    <3>5. CASE call.nr # s[j + 1]
      <4>1. pc' = b + 2 * (j + 1) + 1 /\ j + 1 \in 0 .. n
        BY <1>1, <1>4, <2>3, <3>1, <3>3, <3>5
      <4>2. \A i \in 1 .. j + 1 : i \in 1 .. j \/ i = j + 1
        OBVIOUS
      <4>3. \A i \in 1 .. j + 1 : call.nr # s[i]
        BY <2>2, <3>5, <4>2
      <4> QED BY <1>7, <2>1, <3>3, <4>1, <4>3
    <3> QED BY <3>4, <3>5
  <2>4. CASE pc = b + 2 * j + 1 /\ ~(j < n)
    <3>1. j = n
      BY <1>1, <2>4
    <3>2. prog[pc] = RET("EPERM")
      BY <1>1, <2>4, <3>1
    <3>3. verdict' = "EPERM" /\ step' = "decided"
      BY <3>2, Machine
    <3>4. call.nr \notin Elems(s)
      BY <1>2, <2>2, <3>1 DEF Elems
    <3>5. ~Permitted
      BY <1>2, <2>1, <3>4 DEF Permitted
    <3> QED BY <3>3, <3>5
  <2>5. CASE pc = b + 2 * j + 2 /\ j < n /\ call.nr = s[j + 1]
    <3>1. j + 1 \in 1 .. n /\ pc = b + 2 * (j + 1)
      BY <1>1, <1>4, <2>5
    <3>2. prog[pc] = RET("ALLOW")
      BY <1>1, <3>1
    <3>3. verdict' = "ALLOW" /\ step' = "decided"
      BY <3>2, Machine
    <3>4. call.nr \in Elems(s)
      BY <1>2, <2>5, <3>1 DEF Elems
    <3>5. Permitted
      BY <1>2, <2>1, <3>4 DEF Permitted
    <3> QED BY <3>3, <3>5
  <2> QED BY <2>2, <2>3, <2>4, <2>5
<1>18. CASE InPrologue
  BY <1>8, <1>9, <1>10, <1>11, <1>18 DEF InPrologue
<1>19. CASE InHandler
  BY <1>12, <1>13, <1>14, <1>15, <1>16, <1>19 DEF InHandler
<1> QED BY <1>17, <1>18, <1>19

(* The invariant is inductive.                                             *)
THEOREM FilterSafe == Spec => []FilterInv
<1>1. Init => FilterInv
  BY DEF Init, FilterInv
<1>2. FilterInv /\ [Next]_vars => FilterInv'
  <2> SUFFICES ASSUME FilterInv, [Next]_vars
               PROVE  FilterInv'
    OBVIOUS
  <2>1. ASSUME step' \notin {"exec", "judge", "decided"}, policy' = policy
        PROVE  FilterInv'
    BY <2>1 DEF FilterInv
  <2>2. CASE LoadPolicy
    BY <2>1, <2>2 DEF LoadPolicy, jailVars
  <2>3. CASE Materialize
    BY <2>1, <2>3 DEF Materialize
  <2>4. CASE MaterializeFails
    BY <2>1, <2>4 DEF MaterializeFails, jailVars
  <2>5. CASE MakePlan
    <3>1. policy' = policy /\ (step' = "refused" \/ (step' = "exec" /\ prog' = CompileSeccomp(policy)))
      BY <2>5 DEF MakePlan
    <3> QED BY <2>1, <3>1 DEF FilterInv
  <2>6. CASE MakeCall
    <3>1. policy' = policy /\ prog' = prog /\ step' = "judge" /\ pc' = 1 /\ step \in {"exec", "decided"}
      BY <2>6 DEF MakeCall, jailVars
    <3>2. policy \in Policies /\ prog = CompileSeccomp(policy)
      BY <3>1 DEF FilterInv
    <3> QED BY <3>1, <3>2 DEF FilterInv, InPrologue
  <2>7. CASE RunFilter
    <3>1. policy \in Policies /\ prog = CompileSeccomp(policy) /\ (InPrologue \/ InHandler \/ InTests)
      BY <2>7 DEF RunFilter, FilterInv
    <3>2. policy' = policy /\ prog' = prog /\ call' = call
      BY <2>7 DEF RunFilter, jailVars
    <3>3. Permitted' = Permitted
      BY <3>2 DEF Permitted
    <3>4. \/ step' = "judge" /\ (InPrologue \/ InHandler \/ InTests)'
          \/ step' = "decided" /\ verdict' = IF Permitted THEN "ALLOW" ELSE "EPERM"
      BY <2>7, <3>1, FilterStep
    <3> QED BY <3>1, <3>2, <3>3, <3>4 DEF FilterInv
  <2>8. CASE UNCHANGED vars
    <3>1. InPrologue' = InPrologue /\ InHandler' = InHandler /\ InTests' = InTests /\ Permitted' = Permitted
      BY <2>8 DEF vars, InPrologue, InHandler, InTests, Permitted
    <3> QED BY <2>8, <3>1 DEF vars, FilterInv
  <2> QED BY <2>2, <2>3, <2>4, <2>5, <2>6, <2>7, <2>8 DEF Next
<1> QED BY <1>1, <1>2, PTL DEF Spec

(* seccomp.py: whatever names a policy allows, however many and in         *)
(* whatever order, the program that compile_seccomp makes of them decides  *)
(* every call as the policy says and never runs off its end.               *)
THEOREM FilterMatchesPolicyHolds == Spec => []FilterMatchesPolicy
<1>1. FilterInv => FilterMatchesPolicy
  <2> SUFFICES ASSUME FilterInv, step = "judge"
               PROVE  pc \in DOMAIN prog
    BY DEF FilterInv, FilterMatchesPolicy
  <2> DEFINE n == Len(Simple(policy))
             b == Start(policy)
  <2>1. DOMAIN prog = 1 .. b + 2 * n + 1 /\ n \in Nat
    BY ProgramShape DEF FilterInv
  <2>2. b = IF Handled(policy) THEN 9 ELSE 4
    BY DEF Start
  <2>3. InTests => \E j \in 0 .. n : pc = b + 2 * j + 1 \/ (pc = b + 2 * j + 2 /\ j < n)
    BY DEF InTests
  <2> HIDE DEF n, b
  <2>4. CASE InPrologue
    BY <2>1, <2>2, <2>4 DEF InPrologue
  <2>5. CASE InHandler
    BY <2>1, <2>2, <2>5 DEF InHandler
  <2>6. CASE InTests
    BY <2>1, <2>2, <2>3, <2>6
  <2> QED BY <2>4, <2>5, <2>6 DEF FilterInv
<1> QED BY <1>1, FilterSafe, PTL
-----------------------------------------------------------------------------
(* A bounded set of numbers that is not empty has a greatest one.          *)
LEMMA GreatestNumber ==
  ASSUME NEW N \in Nat, NEW T, T \subseteq 0 .. N, T # {}
  PROVE  \E n \in T : \A m \in T : m <= n
<1> DEFINE U == {N - m : m \in T}
<1>1. U \subseteq Nat /\ U # {}
  <2>1. \A m \in T : N - m \in Nat
    OBVIOUS
  <2>2. PICK m \in T : TRUE
    OBVIOUS
  <2>3. N - m \in U
    BY <2>2
  <2> QED BY <2>1, <2>3
<1>2. PICK u \in U : \A v \in U : ~(v < u)
  <2> HIDE DEF U
  <2> QED BY <1>1, LeastNumber
<1>3. PICK n \in T : u = N - n
  BY <1>2
<1>4. ASSUME NEW m \in T
      PROVE  m <= n
  <2>1. N - m \in U
    OBVIOUS
  <2>2. ~(N - m < N - n)
    BY <1>2, <1>3, <2>1
  <2> QED BY <2>2
<1> QED BY <1>4

LEMMA Function ==
  ASSUME NEW n \in Nat, NEW f, f = [i \in 1 .. n |-> f[i]]
  PROVE  f \in Seq(Elems(f)) /\ Len(f) = n /\ DOMAIN f = 1 .. n
<1>1. \A i \in 1 .. n : f[i] \in Elems(f)
  BY DEF Elems
<1> HIDE DEF Elems
<1> QED BY <1>1

(* The mounts that build_plan puts before the decoys.                      *)
Before(p) == ResolveROBinds(p.ro) \o RWBinds(p) \o <<Bind(Workspace, p.workspace)>>

LEMMA BeforeIsSequence ==
  ASSUME NEW p \in Policies
  PROVE  \E S : Before(p) \in Seq(S)
<1> DEFINE W == <<Bind(Workspace, p.workspace)>>
           Pair == [host : Seq(STRING), dest : Seq(STRING)]
           R == ResolveROBinds(p.ro)
           B == RWBinds(p)
           S == Elems(R) \cup Elems(B) \cup {Bind(Workspace, p.workspace)}
<1>1. p.ro \in Seq(Pair) /\ p.rw \in Seq(Pair)
  BY JailAssumption
<1>2. R \in Seq(Elems(R))
  <2> DEFINE I == {i \in DOMAIN p.ro : p.ro[i].host \in Exists
                     /\ \A j \in 1 .. i - 1 : p.ro[j].dest # p.ro[i].dest \/ p.ro[j].host \notin Exists}
             t == Subsequence(p.ro, I)
             e(b) == IF b.host \in RelLinks THEN Symlink(b.dest) ELSE Bind(Resolve(b.host), b.dest)
  <2>1. R = [i \in DOMAIN t |-> e(t[i])]
    BY DEF ResolveROBinds
  <2>2. t \in Seq(Pair)
    <3> HIDE DEF I, Pair
    <3> QED BY <1>1, SubsequenceElems
  <2> HIDE DEF t, e, R
  <2>3. Len(t) \in Nat /\ DOMAIN t = 1 .. Len(t)
    BY <2>2
  <2>4. R = [i \in 1 .. Len(t) |-> R[i]]
    BY <2>1, <2>3
  <2> QED BY <2>3, <2>4, Function
<1>3. B \in Seq(Elems(B))
  <2>1. Len(p.rw) \in Nat /\ DOMAIN p.rw = 1 .. Len(p.rw)
    BY <1>1
  <2>2. B = [i \in DOMAIN p.rw |-> Bind(p.rw[i].host, p.rw[i].dest)]
    BY DEF RWBinds
  <2> HIDE DEF B
  <2>3. B = [i \in 1 .. Len(p.rw) |-> B[i]]
    BY <2>1, <2>2
  <2> QED BY <2>1, <2>3, Function
<1>4. Before(p) = R \o B \o W
  BY DEF Before
<1>5. W \in Seq({Bind(Workspace, p.workspace)})
  OBVIOUS
<1> HIDE DEF R, B, W
<1>6. R \in Seq(S) /\ B \in Seq(S) /\ W \in Seq(S)
  BY <1>2, <1>3, <1>5
<1> HIDE DEF S
<1>7. R \o B \in Seq(S)
  BY <1>6
<1>8. R \o B \o W \in Seq(S)
  BY <1>6, <1>7
<1> QED BY <1>4, <1>8

(* The mounts ms are those of a, the decoys d, and at most c after them.    *)
Layers(a, d, c, ms) ==
  /\ \E S : a \in Seq(S)
  /\ \E D : d \in Seq(D)
  /\ ms = a \o d \/ ms = Append(a \o d, c)

Over(ms, path) == {i \in DOMAIN ms : ms[i].flag = "bind" /\ Under(path, ms[i].dest)}

(* The last of the mounts over a decoy's place is a decoy.                 *)
LEMMA LastIsDecoy ==
  ASSUME NEW a, NEW d, NEW c, NEW ms, NEW path, Layers(a, d, c, ms), ~Under(path, c.dest),
         \E k \in DOMAIN d : d[k].flag = "bind" /\ Under(path, d[k].dest)
  PROVE  /\ \E i \in Over(ms, path) : \A j \in Over(ms, path) : j <= i
         /\ \A i \in Over(ms, path) :
              (\A j \in Over(ms, path) : j <= i) => \E e \in DOMAIN d : ms[i] = d[e]
<1>a. PICK S : a \in Seq(S)
  BY DEF Layers
<1>b. PICK D : d \in Seq(D)
  BY DEF Layers
<1>c. PICK k \in DOMAIN d : d[k].flag = "bind" /\ Under(path, d[k].dest)
  OBVIOUS
<1>d. ms = a \o d \/ ms = Append(a \o d, c)
  BY DEF Layers
<1> DEFINE la == Len(a)
           ld == Len(d)
           ad == a \o d
           over == Over(ms, path)
<1>1. la \in Nat /\ ld \in Nat /\ DOMAIN d = 1 .. ld
  BY <1>a, <1>b
<1>2. ad \in Seq(S \cup D) /\ Len(ad) = la + ld /\ \A i \in 1 .. ld : ad[la + i] = d[i]
  <2>1. a \in Seq(S \cup D) /\ d \in Seq(S \cup D)
    BY <1>a, <1>b
  <2>2. ad \in Seq(S \cup D)
    BY <2>1, Concatenation
  <2>3. Len(ad) = la + ld
    BY <2>1, Concatenation
  <2>4. \A i \in 1 .. ld : ad[la + i] = d[i]
    BY <2>1, Concatenation
  <2> QED BY <2>2, <2>3, <2>4
<1> HIDE DEF la, ld, ad
<1>3. /\ \A i \in 1 .. la + ld : i \in DOMAIN ms /\ ms[i] = ad[i]
      /\ \A i \in DOMAIN ms : i \in 1 .. la + ld \/ (i = la + ld + 1 /\ ms[i] = c)
  <2>0. ms = ad \/ ms = Append(ad, c)
    BY <1>d DEF ad
  <2>1. CASE ms = ad
    BY <1>2, <2>1
  <2>2. CASE ms = Append(ad, c)
    <3>1. /\ DOMAIN ms = 1 .. Len(ad) + 1 /\ ms[Len(ad) + 1] = c
          /\ \A i \in 1 .. Len(ad) : ms[i] = ad[i]
      <4>1. ad \in Seq(S \cup D \cup {c}) /\ c \in S \cup D \cup {c}
        BY <1>2
      <4> QED BY <2>2, <4>1
    <3> DEFINE N == la + ld
    <3>2. N \in Nat /\ Len(ad) = N
      BY <1>1, <1>2
    <3> HIDE DEF N
    <3>3. DOMAIN ms = 1 .. N + 1 /\ ms[N + 1] = c /\ \A i \in 1 .. N : ms[i] = ad[i]
      BY <3>1, <3>2
    <3>4. /\ \A i \in 1 .. N : i \in 1 .. N + 1
          /\ \A i \in 1 .. N + 1 : i \in 1 .. N \/ i = N + 1
      BY <3>2
    <3>5. /\ \A i \in 1 .. N : i \in DOMAIN ms /\ ms[i] = ad[i]
          /\ \A i \in DOMAIN ms : i \in 1 .. N \/ (i = N + 1 /\ ms[i] = c)
      BY <3>3, <3>4
    <3> QED BY <3>5 DEF N
  <2> QED BY <2>0, <2>1, <2>2
<1>4. la + k \in over
  <2>1. la + k \in 1 .. la + ld /\ k \in 1 .. ld
    BY <1>1, <1>c
  <2>2. ms[la + k] = d[k] /\ la + k \in DOMAIN ms
    BY <1>2, <1>3, <2>1
  <2> QED BY <1>c, <2>2 DEF Over
<1>5. over \subseteq 1 .. la + ld
  <2> SUFFICES ASSUME NEW i \in over, i \notin 1 .. la + ld
               PROVE  FALSE
    OBVIOUS
  <2>1. i \in DOMAIN ms /\ Under(path, ms[i].dest)
    BY DEF Over
  <2>2. ms[i] = c
    BY <1>3, <2>1
  <2> QED BY <2>1, <2>2
<1> HIDE DEF over
<1>6. la + ld \in Nat /\ over \subseteq 0 .. la + ld /\ over # {}
  BY <1>1, <1>4, <1>5
<1>7. \E i \in over : \A j \in over : j <= i
  BY <1>6, GreatestNumber
<1>8. ASSUME NEW i \in over, \A j \in over : j <= i
      PROVE  \E e \in DOMAIN d : ms[i] = d[e]
  <2>1. la + k <= i /\ i \in 1 .. la + ld
    BY <1>4, <1>5, <1>8
  <2>2. i - la \in 1 .. ld /\ la + (i - la) = i
    BY <1>1, <2>1
  <2>3. ms[i] = ad[la + (i - la)]
    BY <1>3, <2>1, <2>2
  <2> QED BY <1>1, <1>2, <2>2, <2>3
<1> QED BY <1>7, <1>8 DEF over

(* A decoy below run.py's own place for the command would be covered by it *)
(* (see the README): no policy names one.                                  *)
DecoysClearOfCommand ==
  \A p \in Policies : \A i \in DOMAIN p.decoys : ~Under(p.decoys[i].dest, CommandDest)

(* The decoys are binds on the places the policy names, and the mounts are *)
(* made once the decoys are.                                               *)
PlanInv ==
  /\ policy \in Policies
  /\ decoyHost \in Seq(Elems(decoyHost))
  /\ \A i \in DOMAIN decoyHost :
       /\ decoyHost[i].flag = "bind"
       /\ \E j \in DOMAIN policy.decoys : decoyHost[i].dest = policy.decoys[j].dest
  /\ step \in {"load", "decoys"} => mounts = <<>>
  /\ mounts # <<>> => mounts = BuildPlan(policy, decoyHost)

(* The invariant is inductive.                                             *)
THEOREM PlanSafe == Spec => []PlanInv
<1>1. Init => PlanInv
  <2> SUFFICES ASSUME Init
               PROVE  PlanInv
    OBVIOUS
  <2>1. decoyHost = <<>> /\ mounts = <<>> /\ policy \in Policies
    BY DEF Init
  <2>2. <<>> \in Seq(Elems(<<>>)) /\ DOMAIN <<>> = {}
    OBVIOUS
  <2> QED BY <2>1, <2>2 DEF PlanInv
<1>2. PlanInv /\ [Next]_vars => PlanInv'
  <2> SUFFICES ASSUME PlanInv, [Next]_vars
               PROVE  PlanInv'
    OBVIOUS
  <2>1. ASSUME policy' = policy, decoyHost' = decoyHost, mounts' = mounts,
               step' \in {"load", "decoys"} => step \in {"load", "decoys"}
        PROVE  PlanInv'
    <3>1. Elems(decoyHost)' = Elems(decoyHost)
      BY <2>1
    <3> QED BY <2>1, <3>1 DEF PlanInv
  <2>2. CASE LoadPolicy
    BY <2>1, <2>2 DEF LoadPolicy, jailVars
  <2>3. CASE Materialize
    <3> DEFINE src(d) == IF d.host = Runtime THEN <<"tmp", "decoy", ToString(d.dest)>> ELSE Resolve(d.host)
               dh == [i \in DOMAIN policy.decoys |-> Bind(src(policy.decoys[i]), policy.decoys[i].dest)]
    <3>1. policy \in Policies /\ policy' = policy /\ mounts = <<>> /\ mounts' = mounts
      BY <2>3 DEF Materialize, PlanInv
    <3>2. decoyHost' = IF noDecoy THEN <<>> ELSE dh
      BY <2>3 DEF Materialize
    <3>3. \A i \in DOMAIN dh : dh[i].flag = "bind" /\ dh[i].dest = policy.decoys[i].dest
      BY DEF Bind
    <3>4. Len(policy.decoys) \in Nat /\ DOMAIN policy.decoys = 1 .. Len(policy.decoys)
      BY <3>1, JailAssumption
    <3>5. DOMAIN dh = DOMAIN policy.decoys /\ dh = [i \in 1 .. Len(policy.decoys) |-> dh[i]]
      BY <3>4
    <3> HIDE DEF dh
    <3>6. dh \in Seq(Elems(dh))
      BY <3>4, <3>5, Function
    <3>7. CASE noDecoy
      <4>1. <<>> \in Seq(Elems(<<>>)) /\ DOMAIN <<>> = {}
        OBVIOUS
      <4> QED BY <3>1, <3>2, <3>7, <4>1 DEF PlanInv
    <3>8. CASE ~noDecoy
      <4>1. decoyHost' = dh
        BY <3>2, <3>8
      <4> QED BY <3>1, <3>3, <3>5, <3>6, <4>1 DEF PlanInv
    <3> QED BY <3>7, <3>8
  <2>4. CASE MaterializeFails
    BY <2>1, <2>4 DEF MaterializeFails, jailVars
  <2>5. CASE MakePlan
    <3>1. policy' = policy /\ decoyHost' = decoyHost /\ step' \in {"exec", "refused"}
          /\ (mounts' = mounts \/ mounts' = BuildPlan(policy, decoyHost))
      BY <2>5 DEF MakePlan
    <3>2. Elems(decoyHost)' = Elems(decoyHost)
      BY <3>1
    <3> QED BY <3>1, <3>2 DEF PlanInv
  <2>6. CASE MakeCall
    BY <2>1, <2>6 DEF MakeCall, jailVars
  <2>7. CASE RunFilter
    <3>1. step' \in {"judge", "decided"} /\ UNCHANGED jailVars
      BY <2>7 DEF RunFilter
    <3> QED BY <2>1, <3>1 DEF jailVars
  <2>8. CASE UNCHANGED vars
    BY <2>1, <2>8 DEF vars
  <2> QED BY <2>2, <2>3, <2>4, <2>5, <2>6, <2>7, <2>8 DEF Next
<1> QED BY <1>1, <1>2, PTL DEF Spec

(* bwrap.py: build_plan mounts the decoys after every bind of the policy   *)
(* and the workspace, so whatever binds a policy has, of any number, a     *)
(* decoy is what the command finds in a decoy's place.                     *)
THEOREM DecoyOnTopHolds ==
  ASSUME DecoysClearOfCommand
  PROVE  Spec => []DecoyOnTop
<1>1. PlanInv => DecoyOnTop
  <2> SUFFICES ASSUME PlanInv, NEW d \in Elems(decoyHost), mounts # <<>>
               PROVE  Shows(d.dest) # {} /\ Shows(d.dest) \subseteq {e.src : e \in Elems(decoyHost)}
    BY DEF DecoyOnTop
  <2> DEFINE c == Bind(Command, CommandDest)
             a == Before(policy)
             over == Over(mounts, d.dest)
             top == {i \in over : \A n \in over : n <= i}
  <2>1. PICK k \in DOMAIN decoyHost : d = decoyHost[k]
    BY DEF Elems
  <2>2. PICK j \in DOMAIN policy.decoys : d.dest = policy.decoys[j].dest
    BY <2>1 DEF PlanInv
  <2>3. policy \in Policies /\ decoyHost[k].flag = "bind" /\ decoyHost \in Seq(Elems(decoyHost))
    BY DEF PlanInv
  <2>4. d.dest \in Seq(STRING)
    <3>1. policy.decoys \in Seq([host : Seq(STRING), dest : Seq(STRING)])
      BY <2>3, JailAssumption
    <3> DEFINE Pair == [host : Seq(STRING), dest : Seq(STRING)]
    <3>2. policy.decoys[j] \in Pair
      <4> HIDE DEF Pair
      <4>1. policy.decoys \in Seq(Pair)
        BY <3>1 DEF Pair
      <4> QED BY <2>2, <4>1
    <3> QED BY <2>2, <3>2
  <2>5. Under(d.dest, d.dest)
    <3> DEFINE q == d.dest
               l == Len(q)
    <3>1. l <= l
      BY <2>4
    <3> QED BY <3>1 DEF Under, IsPrefix
  <2>6. ~Under(d.dest, c.dest)
    <3>1. c.dest = CommandDest
      BY DEF Bind
    <3> HIDE DEF c
    <3> QED BY <2>2, <2>3, <3>1 DEF DecoysClearOfCommand
  <2>7. mounts = a \o decoyHost \/ mounts = Append(a \o decoyHost, c)
    <3>1. mounts = WithCommand(a \o decoyHost)
      BY DEF PlanInv, BuildPlan, Before
    <3> QED BY <3>1 DEF WithCommand
  <2>8. PICK S : a \in Seq(S)
    BY <2>3, BeforeIsSequence
  <2>9. Shows(d.dest) = {mounts[i].src : i \in top}
    BY DEF Shows, Over
  <2> HIDE DEF c, a
  <2>10. /\ \E i \in over : \A n \in over : n <= i
         /\ \A i \in over : (\A n \in over : n <= i) => \E e \in DOMAIN decoyHost : mounts[i] = decoyHost[e]
    <3>1. Layers(a, decoyHost, c, mounts)
      BY <2>3, <2>7, <2>8 DEF Layers
    <3>2. \E m \in DOMAIN decoyHost : decoyHost[m].flag = "bind" /\ Under(d.dest, decoyHost[m].dest)
      BY <2>1, <2>3, <2>5
    <3> HIDE DEF Layers
    <3>4. \E i \in over : \A n \in over : n <= i
      BY <2>6, <3>1, <3>2, LastIsDecoy
    <3>5. \A i \in over : (\A n \in over : n <= i) => \E e \in DOMAIN decoyHost : mounts[i] = decoyHost[e]
      BY <2>6, <3>1, <3>2, LastIsDecoy
    <3> QED BY <3>4, <3>5
  <2> HIDE DEF over
  <2>11. top # {}
    BY <2>10
  <2>12. \A i \in top : \E e \in DOMAIN decoyHost : mounts[i] = decoyHost[e]
    BY <2>10
  <2> HIDE DEF top
  <2>13. \A i \in top : mounts[i].src \in {e.src : e \in Elems(decoyHost)}
    BY <2>12 DEF Elems
  <2> QED BY <2>9, <2>11, <2>13
<1> QED BY <1>1, PlanSafe, PTL
=============================================================================
