----------------------- MODULE SystemCallPolicyProofs -----------------------
(***************************************************************************)
(* That the compiler of System Call Policies is right: for every policy it *)
(* accepts, the kernel's machine decides every call the way the policy     *)
(* reads, whatever the width of a word and the length of the policy.       *)
(*                                                                         *)
(* The proof follows the compiler.  A build grows: what one operation of   *)
(* the assembler writes stays to the end (Grows, Completes), so each       *)
(* operation has a lemma on what the finished program does from the line   *)
(* where that operation began (Visits).  The loops over rules, names and   *)
(* arguments are recursive functions over an interval; an induction over   *)
(* the numbers, stated with a set of numbers, shows that such a function   *)
(* exists, and then what it computes.                                      *)
(***************************************************************************)
EXTENDS SystemCallPolicy, SequenceTheorems, WellFoundedInduction, TLAPS

(* Every set of natural numbers has a least element.                       *)
LEMMA LeastNumber ==
    ASSUME NEW T, T \subseteq Nat, T # {}
    PROVE  \E n \in T : \A m \in T : n <= m
<1>1. PICK n \in T : \A m \in T : ~(<<m, n>> \in OpToRel(<, Nat))
  BY NatLessThanWellFounded, WFMin, Zenon
<1>2. \A m \in T : ~(m < n)
  BY <1>1 DEF OpToRel
<1> QED
  BY <1>2

(* Induction up to a bound, over a set of numbers.                         *)
LEMMA Induction ==
    ASSUME NEW N \in Nat, NEW S, 0 \in S,
           \A n \in 0..N : n # N /\ n \in S => n + 1 \in S
    PROVE  0..N \subseteq S
<1> SUFFICES ASSUME (0..N) \ S # {} PROVE FALSE
  OBVIOUS
<1>0. (0..N) \ S \subseteq Nat
  OBVIOUS
<1>1. PICK n \in (0..N) \ S : \A m \in (0..N) \ S : n <= m
  BY <1>0, LeastNumber
<1>2. n # 0 /\ n - 1 \in 0..N /\ n - 1 # N
  BY <1>1
<1>3. n - 1 \in S
  BY <1>1, <1>2
<1> QED
  BY <1>1, <1>2, <1>3

-----------------------------------------------------------------------------
(* Words.                                                                  *)

(* TwoTo is what its definition says.                                      *)
LEMMA TwoToDef ==
    TwoTo = [n \in 0..WordBits |-> IF n = 0 THEN 1 ELSE 2 * TwoTo[n - 1]]
<1> DEFINE Is(f, m) == f = [n \in 0..m |-> IF n = 0 THEN 1 ELSE 2 * f[n - 1]]
           S == {m \in 0..WordBits : \E f : Is(f, m)}
<1>0. WordBits \in Nat
  BY WordAssumption
<1>1. 0 \in S
  <2>1. Is([n \in 0..0 |-> 1], 0)
    OBVIOUS
  <2>2. \E f : Is(f, 0)
    BY <2>1
  <2> QED
    BY <1>0, <2>2
<1>2. ASSUME NEW m \in 0..WordBits, m # WordBits, m \in S
      PROVE  m + 1 \in S
  <2>1. PICK f : Is(f, m)
    BY <1>2
  <2> DEFINE g == [n \in 0..(m + 1) |-> IF n = m + 1 THEN 2 * f[m] ELSE f[n]]
  <2>2. ASSUME NEW n \in 0..(m + 1) PROVE g[n] = IF n = 0 THEN 1 ELSE 2 * g[n - 1]
    BY <2>1
  <2>3. Is(g, m + 1)
    BY <2>2
  <2>4. \E f1 : Is(f1, m + 1)
    BY <2>3
  <2> QED
    BY <1>0, <1>2, <2>4
<1>3. \E f : Is(f, WordBits)
  <2> HIDE DEF S
  <2>1. 0..WordBits \subseteq S
    BY <1>0, <1>1, <1>2, Induction
  <2> QED
    BY <1>0, <2>1 DEF S
<1> QED
  BY <1>3 DEF TwoTo

(* Its values are positive, and twice the one before.                      *)
LEMMA TwoToValues ==
    /\ TwoTo \in [0..WordBits -> Nat \ {0}]
    /\ TwoTo[0] = 1
    /\ \A n \in 0..WordBits : n # WordBits => TwoTo[n + 1] = 2 * TwoTo[n]
<1> DEFINE S == {n \in 0..WordBits : TwoTo[n] \in Nat \ {0}}
<1>0. WordBits \in Nat
  BY WordAssumption
<1>a. /\ TwoTo[0] = 1
      /\ \A n \in 0..WordBits : n # WordBits => TwoTo[n + 1] = 2 * TwoTo[n]
  <2>1. TwoTo[0] = 1
    BY <1>0, TwoToDef
  <2>2. ASSUME NEW n \in 0..WordBits, n # WordBits
        PROVE  TwoTo[n + 1] = 2 * TwoTo[n]
    <3>1. n + 1 \in 0..WordBits /\ n + 1 # 0 /\ (n + 1) - 1 = n
      BY <1>0, <2>2
    <3> QED
      BY <3>1, TwoToDef
  <2> QED
    BY <2>1, <2>2
<1>1. 0 \in S
  BY <1>0, <1>a
<1>2. ASSUME NEW n \in 0..WordBits, n # WordBits, n \in S
      PROVE  n + 1 \in S
  BY <1>0, <1>a, <1>2
<1>3. 0..WordBits \subseteq S
  <2> HIDE DEF S
  <2> QED
    BY <1>0, <1>1, <1>2, Induction
<1>4. \A n \in 0..WordBits : TwoTo[n] \in Nat \ {0}
  BY <1>3
<1> QED
  BY <1>a, <1>4, TwoToDef

(* The product of two powers.                                              *)
LEMMA TwoToSum ==
    ASSUME NEW i \in 0..WordBits, NEW d \in Nat, i + d <= WordBits
    PROVE  TwoTo[i + d] = TwoTo[i] * TwoTo[d]
<1> DEFINE S == {n \in 0..d : TwoTo[i + n] = TwoTo[i] * TwoTo[n]}
<1>0. WordBits \in Nat /\ d \in 0..WordBits /\ TwoTo[i] \in Nat
  BY WordAssumption, TwoToValues
<1>1. 0 \in S
  BY <1>0, TwoToValues
<1>2. ASSUME NEW n \in 0..d, n # d, n \in S
      PROVE  n + 1 \in S
  <2>1. /\ n \in 0..WordBits /\ n # WordBits
        /\ i + n \in 0..WordBits /\ i + n # WordBits
    BY <1>0, <1>2
  <2>2. TwoTo[n + 1] = 2 * TwoTo[n] /\ TwoTo[(i + n) + 1] = 2 * TwoTo[i + n]
    BY <2>1, TwoToValues
  <2>3. TwoTo[n] \in Nat
    BY <2>1, TwoToValues
  <2>4. 2 * (TwoTo[i] * TwoTo[n]) = TwoTo[i] * (2 * TwoTo[n])
    BY <1>0, <2>3
  <2>5. i + (n + 1) = (i + n) + 1
    BY <1>0
  <2> QED
    BY <1>2, <2>2, <2>4, <2>5
<1>3. 0..d \subseteq S
  <2> HIDE DEF S
  <2> QED
    BY <1>1, <1>2, Induction
<1> QED
  BY <1>3

(* The sum of common bits is what its definition says.                     *)
LEMMA CommonDef ==
    ASSUME NEW v, NEW w
    PROVE  Common(v, w) =
               [n \in 0..WordBits |->
                   IF n = 0 THEN 0
                   ELSE Common(v, w)[n - 1] + Bit(v, n - 1) * Bit(w, n - 1) * TwoTo[n - 1]]
<1> DEFINE term(n) == Bit(v, n - 1) * Bit(w, n - 1) * TwoTo[n - 1]
           Is(f, m) == f = [n \in 0..m |-> IF n = 0 THEN 0 ELSE f[n - 1] + term(n)]
           S == {m \in 0..WordBits : \E f : Is(f, m)}
<1> HIDE DEF term
<1>0. WordBits \in Nat
  BY WordAssumption
<1>1. 0 \in S
  <2>1. Is([n \in 0..0 |-> 0], 0)
    OBVIOUS
  <2>2. \E f : Is(f, 0)
    BY <2>1
  <2> QED
    BY <1>0, <2>2
<1>2. ASSUME NEW m \in 0..WordBits, m # WordBits, m \in S
      PROVE  m + 1 \in S
  <2>1. PICK f : Is(f, m)
    BY <1>2
  <2> DEFINE g == [n \in 0..(m + 1) |-> IF n = m + 1 THEN f[m] + term(m + 1) ELSE f[n]]
  <2>2. ASSUME NEW n \in 0..(m + 1) PROVE g[n] = IF n = 0 THEN 0 ELSE g[n - 1] + term(n)
    BY <2>1
  <2>3. Is(g, m + 1)
    BY <2>2
  <2>4. \E f1 : Is(f1, m + 1)
    BY <2>3
  <2> QED
    BY <1>0, <1>2, <2>4
<1>3. \E f : Is(f, WordBits)
  <2> HIDE DEF S
  <2>1. 0..WordBits \subseteq S
    BY <1>0, <1>1, <1>2, Induction
  <2> QED
    BY <1>0, <2>1 DEF S
<1> QED
  BY <1>3 DEF Common, term

(* The running sum behind the bitwise and, one bit further.                *)
LEMMA CommonStep ==
    ASSUME NEW v, NEW w, NEW n \in 0..WordBits, n # WordBits
    PROVE  Common(v, w)[n + 1] = Common(v, w)[n] + Bit(v, n) * Bit(w, n) * TwoTo[n]
<1>1. WordBits \in Nat /\ n + 1 \in 0..WordBits /\ n + 1 # 0 /\ (n + 1) - 1 = n
  BY WordAssumption
<1> DEFINE term(m) == Bit(v, m - 1) * Bit(w, m - 1) * TwoTo[m - 1]
<1>2. Common(v, w) = [m \in 0..WordBits |-> IF m = 0 THEN 0 ELSE Common(v, w)[m - 1] + term(m)]
  BY CommonDef
<1>3. Common(v, w)[n + 1] = Common(v, w)[n] + term(n + 1)
  <2> HIDE DEF term
  <2> QED
    BY <1>1, <1>2
<1> QED
  BY <1>1, <1>3

(* Division takes a factor back.                                           *)
LEMMA DivExact ==
    ASSUME NEW p \in Nat \ {0}, NEW q \in Nat
    PROVE  (p * q) \div p = q
  OBVIOUS

(* A number below the divisor has the quotient zero.                       *)
LEMMA DivSmall ==
    ASSUME NEW p \in Nat, NEW q \in Nat, p < q
    PROVE  p \div q = 0
  OBVIOUS

(* A power of two has one bit.                                             *)
LEMMA BitOfTwoTo ==
    ASSUME NEW i \in 0..WordBits, NEW k \in 0..WordBits, i # k
    PROVE  Bit(TwoTo[k], i) = 0
<1>0. WordBits \in Nat
  BY WordAssumption
<1>1. ASSUME NEW a \in 0..WordBits, NEW b \in 0..WordBits, a < b
      PROVE  \E q \in Nat \ {0} : TwoTo[b] = TwoTo[a] * (2 * q)
  <2> DEFINE d == b - a - 1
  <2>1. d \in 0..WordBits /\ d # WordBits /\ d + 1 \in Nat /\ a + (d + 1) = b
    BY <1>0, <1>1
  <2>2. TwoTo[d] \in Nat \ {0} /\ TwoTo[d + 1] = 2 * TwoTo[d]
    BY <2>1, TwoToValues
  <2>3. TwoTo[a + (d + 1)] = TwoTo[a] * TwoTo[d + 1]
    BY <1>0, <2>1, TwoToSum
  <2> QED
    BY <2>1, <2>2, <2>3
<1>2. CASE i < k
  <2>1. PICK q \in Nat \ {0} : TwoTo[k] = TwoTo[i] * (2 * q)
    BY <1>1, <1>2
  <2>2. TwoTo[i] \in Nat \ {0} /\ 2 * q \in Nat /\ (2 * q) % 2 = 0
    BY TwoToValues
  <2>3. TwoTo[k] \div TwoTo[i] = 2 * q
    BY <2>1, <2>2, DivExact
  <2> QED
    BY <2>2, <2>3 DEF Bit
<1>3. CASE k < i
  <2>1. PICK q \in Nat \ {0} : TwoTo[i] = TwoTo[k] * (2 * q)
    BY <1>1, <1>3
  <2>2. TwoTo[k] \in Nat \ {0} /\ TwoTo[i] \in Nat \ {0}
    BY TwoToValues
  <2>3. TwoTo[k] < TwoTo[k] * (2 * q)
    BY <2>2
  <2>4. TwoTo[k] \div TwoTo[i] = 0
    BY <2>1, <2>2, <2>3, DivSmall
  <2> QED
    BY <2>4 DEF Bit
<1> QED
  BY <1>0, <1>2, <1>3

(* No number of this architecture has the bit of the x32 numbers.          *)
LEMMA NoX32Bit ==
    ASSUME NEW v \in 0..(x32SystemCallBit - 1)
    PROVE  And(v, x32SystemCallBit) = 0
<1> DEFINE k == WordBits - 2
           S == {n \in 0..WordBits : Common(v, x32SystemCallBit)[n] = 0}
<1>0. WordBits \in Nat /\ k \in 0..WordBits /\ x32SystemCallBit = TwoTo[k]
  BY WordAssumption DEF x32SystemCallBit
<1>1. \A n \in 0..WordBits : TwoTo[n] \in Nat \ {0}
  BY TwoToValues
<1>2. Bit(v, k) = 0
  <2>1. v \div TwoTo[k] = 0
    BY <1>0, <1>1, DivSmall
  <2> QED
    BY <2>1 DEF Bit
<1>3. \A n \in 0..WordBits : Bit(v, n) \in Nat
  BY <1>0, <1>1 DEF Bit
<1>4. 0 \in S
  BY <1>0, CommonDef
<1>5. ASSUME NEW n \in 0..WordBits, n # WordBits, n \in S
      PROVE  n + 1 \in S
  <2>1. n + 1 \in 0..WordBits /\ n + 1 # 0 /\ (n + 1) - 1 = n
    BY <1>0, <1>5
  <2>2. Common(v, x32SystemCallBit)[n + 1] =
            Common(v, x32SystemCallBit)[n] + Bit(v, n) * Bit(x32SystemCallBit, n) * TwoTo[n]
    BY <1>5, CommonStep
  <2>3. Bit(v, n) * Bit(x32SystemCallBit, n) * TwoTo[n] = 0
    <3>1. CASE n = k
      <4>1. Bit(x32SystemCallBit, n) \in Int
        BY <1>0, <1>1 DEF Bit
      <4> QED
        BY <1>1, <1>2, <3>1, <4>1
    <3>2. CASE n # k
      <4>1. Bit(x32SystemCallBit, n) = 0
        BY <1>0, <3>2, BitOfTwoTo
      <4> QED
        BY <1>1, <1>3, <4>1
    <3> QED
      BY <3>1, <3>2
  <2> QED
    BY <1>5, <2>1, <2>2, <2>3
<1>6. 0..WordBits \subseteq S
  <2> HIDE DEF S
  <2> QED
    BY <1>0, <1>4, <1>5, Induction
<1> QED
  BY <1>0, <1>6 DEF And

-----------------------------------------------------------------------------
(* Builds.                                                                 *)

(* The instructions a build may hold, and the builds.                      *)
Codes == {"ld", "and", "ja", "jeq", "jgt", "jge", "jset", "ret"}

Instructions == [code : Codes, k : Int \cup {"allow", "deny"}, jt : Nat, jf : Nat]

Builds ==
    [program : Seq(Instructions), labels : Seq(Nat),
     jumps : Seq([index : Nat \ {0}, label : Nat]), err : BOOLEAN]

(* Every jump has a line of its own, and that line is a jump.              *)
WellFormed(b) ==
    /\ b \in Builds
    /\ ~b.err =>
          /\ \A j \in DOMAIN b.jumps :
                /\ b.jumps[j].index \in DOMAIN b.program
                /\ b.program[b.jumps[j].index].code = "ja"
          /\ \A i, j \in DOMAIN b.jumps : b.jumps[i].index = b.jumps[j].index => i = j

(* The second sequence goes on where the first one ends.                   *)
Keeps(s, t) == Len(s) <= Len(t) /\ \A n \in 1..Len(s) : t[n] = s[n]

(* What is written stays, and so do the labels.                            *)
Grows(b, c) ==
    /\ Keeps(b.program, c.program)
    /\ Keeps(b.jumps, c.jumps)
    /\ Keeps(b.labels, c.labels)
    /\ b.err => c.err

(* The same, but a label that is not marked yet may be.                    *)
Completes(b, c) ==
    /\ Keeps(b.program, c.program)
    /\ Keeps(b.jumps, c.jumps)
    /\ Len(b.labels) <= Len(c.labels)
    /\ \A n \in 1..Len(b.labels) : b.labels[n] # 0 => c.labels[n] = b.labels[n]
    /\ b.err => c.err

(* A line of the build that is finished, and one that waits for a label.   *)
Reads(b, line, instruction) ==
    /\ line \in DOMAIN b.program
    /\ b.program[line] = instruction

JumpsTo(b, line, label) ==
    \E j \in DOMAIN b.jumps : b.jumps[j] = [index |-> line, label |-> label]

(* The line where the next instruction goes.                               *)
NextLine(b) == Len(b.program) + 1

(* What arithmetic needs of a build's sequences.                           *)
Lengths(b) == /\ Len(b.program) \in Nat /\ DOMAIN b.program = 1..Len(b.program)
              /\ Len(b.labels) \in Nat /\ DOMAIN b.labels = 1..Len(b.labels)
              /\ Len(b.jumps) \in Nat /\ DOMAIN b.jumps = 1..Len(b.jumps)

(* A well-formed build has it.                                             *)
LEMMA BuildLengths ==
    ASSUME NEW b, WellFormed(b)
    PROVE  Lengths(b)
  BY DEF WellFormed, Builds, Lengths

(* Keeping, growing and completing are reflexive and transitive.           *)
LEMMA KeepsSelf ==
    ASSUME NEW S, NEW s \in Seq(S)
    PROVE  Keeps(s, s)
  BY DEF Keeps

(* What is kept twice is kept.                                             *)
LEMMA KeepsTrans ==
    ASSUME NEW s, NEW t, NEW u, Len(s) \in Nat, Len(t) \in Nat, Len(u) \in Nat,
           Keeps(s, t), Keeps(t, u)
    PROVE  Keeps(s, u)
<1>1. Len(s) <= Len(u) /\ 1..Len(s) \subseteq 1..Len(t)
  BY DEF Keeps
<1> QED
  BY <1>1, Zenon DEF Keeps

(* Append keeps what there is.                                             *)
LEMMA KeepsAppend ==
    ASSUME NEW S, NEW s \in Seq(S), NEW x \in S
    PROVE  /\ Append(s, x) \in Seq(S)
           /\ Len(Append(s, x)) = Len(s) + 1
           /\ Append(s, x)[Len(s) + 1] = x
           /\ DOMAIN Append(s, x) = 1..(Len(s) + 1)
           /\ Keeps(s, Append(s, x))
  BY DEF Keeps

(* A build grows by nothing.                                               *)
LEMMA GrowsSelf ==
    ASSUME NEW b, WellFormed(b)
    PROVE  Grows(b, b)
  BY BuildLengths DEF Grows, Keeps, Lengths

(* A build that grows twice grows.                                         *)
LEMMA GrowsTrans ==
    ASSUME NEW b, NEW c, NEW d, WellFormed(b), WellFormed(c), WellFormed(d),
           Grows(b, c), Grows(c, d)
    PROVE  Grows(b, d)
<1>1. Lengths(b) /\ Lengths(c) /\ Lengths(d)
  BY BuildLengths
<1>2. /\ Keeps(b.program, c.program) /\ Keeps(c.program, d.program)
      /\ Keeps(b.jumps, c.jumps) /\ Keeps(c.jumps, d.jumps)
      /\ Keeps(b.labels, c.labels) /\ Keeps(c.labels, d.labels)
      /\ b.err => d.err
  BY Zenon DEF Grows
<1>3. Keeps(b.program, d.program) /\ Keeps(b.jumps, d.jumps) /\ Keeps(b.labels, d.labels)
  BY <1>1, <1>2, KeepsTrans, Zenon DEF Lengths
<1> QED
  BY <1>2, <1>3, Zenon DEF Grows

(* A build that grows and is completed then is completed.                  *)
LEMMA GrowsCompletes ==
    ASSUME NEW b, NEW c, NEW d, WellFormed(b), WellFormed(c), WellFormed(d),
           Grows(b, c), Completes(c, d)
    PROVE  Completes(b, d)
<1>1. Lengths(b) /\ Lengths(c) /\ Lengths(d)
  BY BuildLengths
<1>2. Keeps(b.program, d.program) /\ Keeps(b.jumps, d.jumps)
  BY <1>1, KeepsTrans DEF Grows, Completes, Lengths
<1>3. Len(b.labels) <= Len(d.labels)
  BY <1>1 DEF Grows, Keeps, Completes, Lengths
<1>4. ASSUME NEW n \in 1..Len(b.labels), b.labels[n] # 0
      PROVE  d.labels[n] = b.labels[n]
  <2>1. n \in 1..Len(c.labels)
    BY <1>1, <1>4 DEF Grows, Keeps, Completes, Lengths
  <2>2. c.labels[n] = b.labels[n]
    BY <1>4, Zenon DEF Grows, Keeps, Completes
  <2> QED
    BY <1>4, <2>1, <2>2 DEF Completes
<1> QED
  BY <1>2, <1>3, <1>4 DEF Grows, Completes, Lengths

(* A build that is completed twice is completed.                           *)
LEMMA CompletesTrans ==
    ASSUME NEW b, NEW c, NEW d, WellFormed(b), WellFormed(c), WellFormed(d),
           Completes(b, c), Completes(c, d)
    PROVE  Completes(b, d)
<1>1. Lengths(b) /\ Lengths(c) /\ Lengths(d)
  BY BuildLengths
<1>2. Keeps(b.program, d.program) /\ Keeps(b.jumps, d.jumps)
  BY <1>1, KeepsTrans DEF Completes, Lengths
<1>3. Len(b.labels) <= Len(d.labels)
  BY <1>1 DEF Completes, Lengths
<1>4. ASSUME NEW n \in 1..Len(b.labels), b.labels[n] # 0
      PROVE  d.labels[n] = b.labels[n]
  <2>1. n \in 1..Len(c.labels)
    BY <1>1, <1>4 DEF Keeps, Completes, Lengths
  <2>2. c.labels[n] = b.labels[n]
    BY <1>4, Zenon DEF Keeps, Completes
  <2> QED
    BY <1>4, <2>1, <2>2 DEF Completes
<1> QED
  BY <1>2, <1>3, <1>4 DEF Completes, Lengths

(* A build is completed by nothing.                                        *)
LEMMA CompletesSelf ==
    ASSUME NEW b, WellFormed(b)
    PROVE  Completes(b, b)
  BY BuildLengths DEF Completes, Keeps, Lengths

(* What a completed build reads is there in the end.                       *)
LEMMA Kept ==
    ASSUME NEW b, NEW c, WellFormed(b), WellFormed(c), Completes(b, c)
    PROVE  /\ \A line, instruction : Reads(b, line, instruction) => Reads(c, line, instruction)
           /\ \A line, label : JumpsTo(b, line, label) => JumpsTo(c, line, label)
<1>1. Lengths(b) /\ Lengths(c)
  BY BuildLengths
<1>2. DOMAIN b.program \subseteq DOMAIN c.program /\ DOMAIN b.jumps \subseteq DOMAIN c.jumps
  BY <1>1 DEF Completes, Keeps, Lengths
<1> QED
  BY <1>1, <1>2 DEF Reads, JumpsTo, Completes, Keeps, Lengths

(* A build with other labels, field by field.                              *)
LEMMA SetLabels ==
    ASSUME NEW b \in Builds, NEW labels
    PROVE  [b EXCEPT !.labels = labels] =
               [program |-> b.program, labels |-> labels, jumps |-> b.jumps, err |-> b.err]
<1>1. ASSUME NEW P, NEW L, NEW J, NEW E,
             b \in [program : P, labels : L, jumps : J, err : E]
      PROVE  [b EXCEPT !.labels = labels] =
                 [program |-> b.program, labels |-> labels, jumps |-> b.jumps, err |-> b.err]
  BY <1>1
<1> QED
  BY <1>1 DEF Builds

(* A new label is the last one, and not marked yet (compile.go, newLabel). *)
LEMMA newLabelGrows ==
    ASSUME NEW b, WellFormed(b)
    PROVE  /\ WellFormed(newLabel(b)) /\ Grows(b, newLabel(b))
           /\ Len(newLabel(b).labels) = Len(b.labels) + 1
           /\ newLabel(b).labels[Len(b.labels) + 1] = 0
           /\ newLabel(b).program = b.program /\ newLabel(b).err = b.err
<1> DEFINE c == newLabel(b)
<1>1. b \in Builds
  BY DEF WellFormed
<1>2. /\ c = [program |-> b.program, labels |-> Append(b.labels, 0), jumps |-> b.jumps,
              err |-> b.err]
  BY <1>1, SetLabels DEF newLabel
<1>3. /\ c.program = b.program /\ c.labels = Append(b.labels, 0) /\ c.jumps = b.jumps
      /\ c.err = b.err
  BY <1>2
<1>4. /\ b.labels \in Seq(Nat) /\ b.program \in Seq(Instructions)
      /\ b.jumps \in Seq([index : Nat \ {0}, label : Nat])
  BY <1>1 DEF Builds
<1>5. /\ c.labels \in Seq(Nat) /\ Len(c.labels) = Len(b.labels) + 1
      /\ c.labels[Len(b.labels) + 1] = 0 /\ Keeps(b.labels, c.labels)
  BY <1>3, <1>4, KeepsAppend
<1>6. Keeps(b.program, c.program) /\ Keeps(b.jumps, c.jumps)
  BY <1>3, <1>4, KeepsSelf
<1>7. c \in Builds
  BY <1>1, <1>2, <1>3, <1>5 DEF Builds
<1>8. WellFormed(c)
  BY <1>3, <1>7 DEF WellFormed
<1> HIDE DEF c
<1>9. Grows(b, c)
  BY <1>3, <1>5, <1>6 DEF Grows
<1> QED
  BY <1>3, <1>5, <1>8, <1>9 DEF c

(* An instruction goes on the next line, unless the program is full.       *)
LEMMA emitGrows ==
    ASSUME NEW b, WellFormed(b), NEW instruction \in Instructions
    PROVE  LET c == emit(b, instruction)
           IN  /\ WellFormed(c) /\ Grows(b, c)
               /\ c.labels = b.labels
               /\ ~c.err => NextLine(c) = NextLine(b) + 1 /\ Reads(c, NextLine(b), instruction)
<1> DEFINE c == emit(b, instruction)
<1>1. b \in Builds
  BY DEF WellFormed
<1>2. /\ b.labels \in Seq(Nat) /\ b.program \in Seq(Instructions)
      /\ b.jumps \in Seq([index : Nat \ {0}, label : Nat])
  BY <1>1 DEF Builds
<1>3. CASE Len(b.program) >= maximumInstructions
  <2>1. c = [program |-> b.program, labels |-> b.labels, jumps |-> b.jumps, err |-> TRUE]
    BY <1>1, <1>3 DEF emit, Builds
  <2>2. /\ c.program = b.program /\ c.labels = b.labels /\ c.jumps = b.jumps /\ c.err
    BY <2>1
  <2>3. c \in Builds
    BY <1>2, <2>1 DEF Builds
  <2> HIDE DEF c
  <2>4. WellFormed(c)
    BY <2>2, <2>3 DEF WellFormed
  <2>5. Grows(b, c)
    BY <1>2, <2>2, KeepsSelf DEF Grows
  <2> QED
    BY <2>2, <2>4, <2>5 DEF c
<1>4. CASE ~(Len(b.program) >= maximumInstructions)
  <2>1. c = [program |-> Append(b.program, instruction), labels |-> b.labels,
             jumps |-> b.jumps, err |-> b.err]
    BY <1>1, <1>4 DEF emit, Builds
  <2>2. /\ c.program = Append(b.program, instruction) /\ c.labels = b.labels
        /\ c.jumps = b.jumps /\ c.err = b.err
    BY <2>1
  <2>3. /\ c.program \in Seq(Instructions) /\ Len(c.program) = Len(b.program) + 1
        /\ c.program[Len(b.program) + 1] = instruction
        /\ DOMAIN c.program = 1..(Len(b.program) + 1)
        /\ Keeps(b.program, c.program)
    BY <1>2, <2>2, KeepsAppend
  <2>4. c \in Builds
    BY <1>1, <1>2, <2>1, <2>2, <2>3 DEF Builds
  <2> HIDE DEF c
  <2>5. WellFormed(c)
    <3>1. ASSUME NEW n \in DOMAIN b.program
          PROVE  n \in DOMAIN c.program /\ c.program[n] = b.program[n]
      BY <1>2, <2>3 DEF Keeps
    <3> QED
      BY <2>2, <2>4, <3>1 DEF WellFormed
  <2>6. Grows(b, c)
    BY <1>2, <2>2, <2>3, KeepsSelf DEF Grows
  <2>7. NextLine(c) = NextLine(b) + 1 /\ Reads(c, NextLine(b), instruction)
    BY <1>2, <2>3 DEF NextLine, Reads
  <2> QED
    BY <2>2, <2>5, <2>6, <2>7 DEF c
<1> QED
  BY <1>3, <1>4

(* An instruction has its type, whatever its operand.                      *)
LEMMA InstructionType ==
    ASSUME NEW code \in Codes, NEW k \in Int \cup {"allow", "deny"}, NEW jt \in Nat, NEW jf \in Nat
    PROVE  /\ Instruction(code, k, jt, jf) \in Instructions
           /\ Instruction(code, k, jt, jf).code = code
<1>1. /\ Instruction(code, k, jt, jf) = [code |-> code, k |-> k, jt |-> jt, jf |-> jf]
      /\ Instruction(code, k, jt, jf).code = code
  BY DEF Instruction
<1> QED
  BY <1>1 DEF Instructions

(* And so has the jump before its label is known.                          *)
LEMMA JumpIsOne == Instruction("ja", 0, 0, 0) \in Instructions
  BY InstructionType DEF Codes

(* A jump goes on the next line, and waits for its label there.            *)
LEMMA jumpGrows ==
    ASSUME NEW b, WellFormed(b), NEW label \in Nat
    PROVE  LET c == jump(b, label)
           IN  /\ WellFormed(c) /\ Grows(b, c)
               /\ c.labels = b.labels
               /\ ~c.err => NextLine(c) = NextLine(b) + 1 /\ JumpsTo(c, NextLine(b), label)
<1> DEFINE c == jump(b, label)
           one == [index |-> Len(b.program) + 1, label |-> label]
           ja == Instruction("ja", 0, 0, 0)
<1>1. b \in Builds /\ ja \in Instructions
  BY JumpIsOne DEF WellFormed
<1>2. /\ b.labels \in Seq(Nat) /\ b.program \in Seq(Instructions)
      /\ b.jumps \in Seq([index : Nat \ {0}, label : Nat])
      /\ one \in [index : Nat \ {0}, label : Nat]
  BY <1>1 DEF Builds
<1>3. /\ Append(b.jumps, one) \in Seq([index : Nat \ {0}, label : Nat])
      /\ Len(Append(b.jumps, one)) = Len(b.jumps) + 1
      /\ Append(b.jumps, one)[Len(b.jumps) + 1] = one
      /\ DOMAIN Append(b.jumps, one) = 1..(Len(b.jumps) + 1)
      /\ Keeps(b.jumps, Append(b.jumps, one))
  <2> HIDE DEF one
  <2> QED
    BY <1>2, KeepsAppend
<1>4. CASE Len(b.program) >= maximumInstructions
  <2>1. c = [program |-> b.program, labels |-> b.labels, jumps |-> Append(b.jumps, one),
             err |-> TRUE]
    BY <1>1, <1>4 DEF jump, emit, Builds
  <2>2. /\ c.program = b.program /\ c.labels = b.labels /\ c.jumps = Append(b.jumps, one)
        /\ c.err
    BY <2>1
  <2> HIDE DEF c, one
  <2>3. c \in Builds
    BY <1>2, <1>3, <2>1 DEF Builds
  <2>4. WellFormed(c)
    BY <2>2, <2>3 DEF WellFormed
  <2>5. Grows(b, c)
    BY <1>2, <1>3, <2>2, KeepsSelf DEF Grows
  <2> QED
    BY <2>2, <2>4, <2>5 DEF c
<1>5. CASE ~(Len(b.program) >= maximumInstructions)
  <2>1. c = [program |-> Append(b.program, ja), labels |-> b.labels,
             jumps |-> Append(b.jumps, one), err |-> b.err]
    BY <1>1, <1>5 DEF jump, emit, Builds
  <2>2. /\ c.program = Append(b.program, ja) /\ c.labels = b.labels
        /\ c.jumps = Append(b.jumps, one) /\ c.err = b.err
    BY <2>1
  <2>a. ja.code = "ja" /\ one.index = Len(b.program) + 1
    BY DEF Instruction
  <2> HIDE DEF c, one, ja
  <2>3. /\ c.program \in Seq(Instructions) /\ Len(c.program) = Len(b.program) + 1
        /\ c.program[Len(b.program) + 1] = ja
        /\ DOMAIN c.program = 1..(Len(b.program) + 1)
        /\ Keeps(b.program, c.program)
    BY <1>1, <1>2, <2>2, KeepsAppend
  <2>4. c \in Builds
    BY <1>1, <1>2, <1>3, <2>1, <2>2, <2>3 DEF Builds
  <2>5. WellFormed(c)
    <3>0. SUFFICES ASSUME ~b.err
          PROVE  /\ \A j \in DOMAIN c.jumps :
                       /\ c.jumps[j].index \in DOMAIN c.program
                       /\ c.program[c.jumps[j].index].code = "ja"
                 /\ \A i, j \in DOMAIN c.jumps : c.jumps[i].index = c.jumps[j].index => i = j
      BY <2>2, <2>4 DEF WellFormed
    <3>1. ASSUME NEW n \in DOMAIN b.program
          PROVE  n \in DOMAIN c.program /\ c.program[n] = b.program[n]
      <4>1. Len(b.program) \in Nat /\ DOMAIN b.program = 1..Len(b.program)
        BY BuildLengths DEF Lengths
      <4>2. \A l \in Nat : 1..l \subseteq 1..(l + 1)
        OBVIOUS
      <4> QED
        BY <2>3, <4>1, <4>2, Zenon DEF Keeps
    <3>2. ASSUME NEW j \in DOMAIN c.jumps
          PROVE  \/ /\ j \in DOMAIN b.jumps /\ c.jumps[j] = b.jumps[j]
                    /\ c.jumps[j].index \in DOMAIN b.program
                    /\ b.program[c.jumps[j].index].code = "ja"
                 \/ j = Len(b.jumps) + 1 /\ c.jumps[j] = one
      <4>1. CASE j = Len(b.jumps) + 1
        BY <1>3, <2>2, <4>1
      <4>2. CASE j # Len(b.jumps) + 1
        <5>1. j \in 1..Len(b.jumps) /\ j \in DOMAIN b.jumps
          <6>1. Len(b.jumps) \in Nat /\ DOMAIN b.jumps = 1..Len(b.jumps)
            BY BuildLengths DEF Lengths
          <6>2. j \in 1..(Len(b.jumps) + 1)
            BY <1>3, <2>2
          <6> QED
            BY <4>2, <6>1, <6>2
        <5>2. c.jumps[j] = b.jumps[j]
          BY <1>3, <2>2, <5>1 DEF Keeps
        <5> QED
          BY <3>0, <5>1, <5>2 DEF WellFormed
      <4> QED
        BY <4>1, <4>2
    <3>3. Len(b.program) + 1 \notin DOMAIN b.program /\ Len(b.program) + 1 \in DOMAIN c.program
      BY <1>2, <2>3
    <3>4. ASSUME NEW j \in DOMAIN c.jumps
          PROVE  /\ c.jumps[j].index \in DOMAIN c.program
                 /\ c.program[c.jumps[j].index].code = "ja"
      BY <2>3, <2>a, <3>1, <3>2, <3>3
    <3>5. ASSUME NEW i \in DOMAIN c.jumps, NEW j \in DOMAIN c.jumps,
                 c.jumps[i].index = c.jumps[j].index
          PROVE  i = j
      BY <2>a, <3>0, <3>2, <3>3, <3>5 DEF WellFormed
    <3> QED
      BY <3>4, <3>5
  <2>6. Grows(b, c)
    BY <1>2, <1>3, <2>2, <2>3, KeepsSelf DEF Grows
  <2>7. NextLine(c) = NextLine(b) + 1
    BY <1>2, <2>3 DEF NextLine
  <2>8. JumpsTo(c, NextLine(b), label)
    <3>1. Len(b.jumps) + 1 \in DOMAIN c.jumps
      BY <1>2, <1>3, <2>2
    <3> QED
      BY <1>3, <2>2, <3>1 DEF NextLine, JumpsTo, one
  <2> QED
    BY <2>2, <2>5, <2>6, <2>7, <2>8 DEF c
<1> QED
  BY <1>4, <1>5

(* A mark gives a label that has none yet the next line, and no other.     *)
LEMMA markCompletes ==
    ASSUME NEW b, WellFormed(b), NEW label \in 1..Len(b.labels)
    PROVE  LET c == mark(b, label)
           IN  /\ WellFormed(c)
               /\ c.program = b.program /\ c.err = b.err
               /\ Len(c.labels) = Len(b.labels)
               /\ c.labels[label] = NextLine(b)
               /\ \A n \in 1..Len(b.labels) : n # label => c.labels[n] = b.labels[n]
               /\ b.labels[label] = 0 => Completes(b, c)
               /\ \A a : /\ WellFormed(a) /\ Grows(a, b) /\ label > Len(a.labels)
                         => Grows(a, c)
<1> DEFINE c == mark(b, label)
<1>1. b \in Builds
  BY DEF WellFormed
<1>2. /\ b.labels \in Seq(Nat) /\ b.program \in Seq(Instructions)
      /\ b.jumps \in Seq([index : Nat \ {0}, label : Nat])
      /\ Len(b.labels) \in Nat
  BY <1>1 DEF Builds
<1>3. c = [program |-> b.program, labels |-> [b.labels EXCEPT ![label] = NextLine(b)],
           jumps |-> b.jumps, err |-> b.err]
  <2>1. c = [b EXCEPT !.labels = [b.labels EXCEPT ![label] = NextLine(b)]]
    BY DEF mark, NextLine
  <2> QED
    BY <1>1, <2>1, SetLabels
<1>4. /\ c.program = b.program /\ c.labels = [b.labels EXCEPT ![label] = NextLine(b)]
      /\ c.jumps = b.jumps /\ c.err = b.err
  BY <1>3
<1> HIDE DEF c
<1>5. /\ c.labels \in Seq(Nat) /\ Len(c.labels) = Len(b.labels)
      /\ c.labels[label] = NextLine(b)
      /\ \A n \in 1..Len(b.labels) : n # label => c.labels[n] = b.labels[n]
  <2>1. NextLine(b) \in Nat
    BY <1>2 DEF NextLine
  <2> QED
    BY <1>2, <1>4, <2>1
<1>6. WellFormed(c)
  <2>1. c \in Builds
    BY <1>1, <1>2, <1>3, <1>4, <1>5 DEF Builds
  <2> QED
    BY <1>4, <2>1 DEF WellFormed
<1>7. ASSUME b.labels[label] = 0 PROVE Completes(b, c)
  <2>1. Keeps(b.program, c.program) /\ Keeps(b.jumps, c.jumps)
    BY <1>2, <1>4, KeepsSelf
  <2>2. \A n \in 1..Len(b.labels) : b.labels[n] # 0 => c.labels[n] = b.labels[n]
    BY <1>5, <1>7
  <2>3. Len(b.labels) <= Len(c.labels) /\ (b.err => c.err)
    BY <1>2, <1>4, <1>5
  <2> QED
    BY <2>1, <2>2, <2>3, Zenon DEF Completes
<1>8. ASSUME NEW a, WellFormed(a), Grows(a, b), label > Len(a.labels)
      PROVE  Grows(a, c)
  <2>1. Lengths(a)
    BY <1>8, BuildLengths
  <2>2. /\ Keeps(a.program, b.program) /\ Keeps(a.jumps, b.jumps) /\ (a.err => b.err)
        /\ Len(a.labels) <= Len(b.labels)
        /\ \A n \in 1..Len(a.labels) : b.labels[n] = a.labels[n]
    BY <1>8, Zenon DEF Grows, Keeps
  <2>3. ASSUME NEW n \in 1..Len(a.labels) PROVE n \in 1..Len(b.labels) /\ n # label
    <3>1. Len(a.labels) \in Nat
      BY <2>1 DEF Lengths
    <3> QED
      BY <1>2, <1>8, <2>2, <3>1
  <2>4. Keeps(a.labels, c.labels)
    BY <1>5, <2>2, <2>3, Zenon DEF Keeps
  <2> QED
    BY <1>4, <2>2, <2>4, Zenon DEF Grows
<1> QED
  BY <1>4, <1>5, <1>6, <1>7, <1>8 DEF c

(* To grow is a way to be completed.                                       *)
LEMMA GrowsIsCompletes ==
    ASSUME NEW b, NEW c, WellFormed(b), WellFormed(c), Grows(b, c)
    PROVE  Completes(b, c)
  BY CompletesSelf, GrowsCompletes

(* The conditional branches.                                               *)
Branches == {"jeq", "jgt", "jge", "jset"}

(* A condition is a branch over two jumps (compile.go, condition).         *)
LEMMA conditionGrows ==
    ASSUME NEW b, WellFormed(b), NEW operation \in Branches, NEW value \in Int,
           NEW yes \in Nat, NEW no \in Nat
    PROVE  LET c == condition(b, operation, value, yes, no)
           IN  /\ WellFormed(c) /\ Grows(b, c)
               /\ c.labels = b.labels
               /\ ~c.err =>
                     /\ Reads(c, NextLine(b), Instruction(operation, value, 0, 1))
                     /\ JumpsTo(c, NextLine(b) + 1, yes)
                     /\ JumpsTo(c, NextLine(b) + 2, no)
                     /\ NextLine(c) = NextLine(b) + 3
<1> DEFINE test == Instruction(operation, value, 0, 1)
           b1 == emit(b, test)
           b2 == jump(b1, yes)
           c == jump(b2, no)
<1>1. test \in Instructions
  BY InstructionType DEF Branches, Codes
<1> HIDE DEF test
<1>2. /\ WellFormed(b1) /\ Grows(b, b1) /\ b1.labels = b.labels
      /\ ~b1.err => NextLine(b1) = NextLine(b) + 1 /\ Reads(b1, NextLine(b), test)
  BY <1>1, emitGrows
<1> HIDE DEF b1
<1>3. /\ WellFormed(b2) /\ Grows(b1, b2) /\ b2.labels = b1.labels
      /\ ~b2.err => NextLine(b2) = NextLine(b1) + 1 /\ JumpsTo(b2, NextLine(b1), yes)
  BY <1>2, jumpGrows
<1> HIDE DEF b2
<1>4. /\ WellFormed(c) /\ Grows(b2, c) /\ c.labels = b2.labels
      /\ ~c.err => NextLine(c) = NextLine(b2) + 1 /\ JumpsTo(c, NextLine(b2), no)
  BY <1>3, jumpGrows
<1> HIDE DEF c
<1>5. Grows(b1, c) /\ Grows(b, c)
  BY <1>2, <1>3, <1>4, GrowsTrans
<1>6. ASSUME ~c.err
      PROVE  /\ Reads(c, NextLine(b), test)
             /\ JumpsTo(c, NextLine(b) + 1, yes)
             /\ JumpsTo(c, NextLine(b) + 2, no)
             /\ NextLine(c) = NextLine(b) + 3
  <2>1. ~b2.err /\ ~b1.err
    BY <1>3, <1>4, <1>6 DEF Grows
  <2>2. NextLine(b) \in Nat
    BY BuildLengths DEF Lengths, NextLine
  <2>3. Completes(b1, c) /\ Completes(b2, c)
    BY <1>2, <1>3, <1>4, <1>5, GrowsIsCompletes
  <2>4. Reads(c, NextLine(b), test) /\ JumpsTo(c, NextLine(b1), yes)
    BY <1>2, <1>3, <1>4, <2>1, <2>3, Kept
  <2> QED
    BY <1>2, <1>3, <1>4, <1>6, <2>1, <2>2, <2>4
<1>7. condition(b, operation, value, yes, no) = c
  BY DEF condition, c, b2, b1, test
<1> QED
  BY <1>2, <1>3, <1>4, <1>5, <1>6, <1>7 DEF test

-----------------------------------------------------------------------------
(* What the finished program does.                                         *)

(* A finished build: every label is ahead of the jumps to it.              *)
Final(b) == WellFormed(b) /\ ~b.err /\ ForwardBranches(b)

(* To link a program changes none of its places.                           *)
LEMMA LinkedLength ==
    ASSUME NEW b, WellFormed(b)
    PROVE  /\ Linked(b) \in Seq({Linked(b)[n] : n \in DOMAIN b.program})
           /\ Len(Linked(b)) = Len(b.program)
           /\ DOMAIN Linked(b) = DOMAIN b.program
<1>1. Lengths(b)
  BY BuildLengths
<1>2. DOMAIN Linked(b) = 1..Len(b.program) /\ Linked(b) = [n \in 1..Len(b.program) |-> Linked(b)[n]]
  BY <1>1, Zenon DEF Linked, Lengths
<1> DEFINE l == Linked(b)
<1> HIDE DEF l
<1>3. l \in Seq({l[n] : n \in DOMAIN b.program}) /\ Len(l) = Len(b.program)
  BY <1>1, <1>2 DEF Lengths, l
<1> QED
  BY <1>1, <1>2, <1>3 DEF Lengths, l

(* A line that is no jump stays as it is.                                  *)
LEMMA LinkedInstruction ==
    ASSUME NEW b, Final(b), NEW line, NEW instruction, Reads(b, line, instruction),
           instruction.code # "ja"
    PROVE  Linked(b)[line] = instruction
<1>1. \A j \in DOMAIN b.jumps : b.jumps[j].index # line
  BY DEF Final, WellFormed, Reads
<1>2. {j \in Range(b.jumps) : j.index = line} = {}
  BY <1>1 DEF Range
<1> QED
  BY <1>2, Zenon DEF Linked, Reads

(* A jump leads to its label, further on.                                  *)
LEMMA LinkedJump ==
    ASSUME NEW b, Final(b), NEW line, NEW label, JumpsTo(b, line, label)
    PROVE  /\ line \in DOMAIN b.program
           /\ Linked(b)[line].code = "ja"
           /\ line + 1 + Linked(b)[line].k = b.labels[label]
           /\ b.labels[label] \in (line + 1)..Len(b.program)
<1> DEFINE own == {j \in Range(b.jumps) : j.index = line}
           one == [index |-> line, label |-> label]
<1>1. PICK j \in DOMAIN b.jumps : b.jumps[j] = one
  BY DEF JumpsTo
<1>2. one.index = line /\ one.label = label
  OBVIOUS
<1> HIDE DEF one
<1>3. own = {one}
  <2>1. one \in own
    BY <1>1, <1>2 DEF Range
  <2>2. ASSUME NEW x \in own PROVE x = one
    <3>1. PICK i \in DOMAIN b.jumps : b.jumps[i] = x /\ x.index = line
      BY DEF Range
    <3>2. i = j
      BY <1>1, <1>2, <3>1 DEF Final, WellFormed
    <3> QED
      BY <1>1, <3>1, <3>2
  <2> QED
    BY <2>1, <2>2
<1>4. (CHOOSE x \in own : TRUE) = one /\ own # {}
  BY <1>3
<1>5. /\ line \in DOMAIN b.program /\ b.program[line].code = "ja"
      /\ b.program[line] \in Instructions /\ line \in Nat
  BY <1>1, <1>2 DEF Final, WellFormed, Builds
<1>6. Linked(b)[line] = [b.program[line] EXCEPT !.k = b.labels[one.label] - line - 1]
  <2> HIDE DEF own
  <2>1. Linked(b)[line] = IF own = {} THEN b.program[line]
                ELSE [b.program[line] EXCEPT
                         !.k = b.labels[(CHOOSE x \in own : TRUE).label] - line - 1]
    BY <1>5, Zenon DEF Linked, own
  <2> QED
    BY <1>4, <2>1
<1>7. b.labels[label] \in (line + 1)..Len(b.program)
  BY <1>1, <1>2 DEF Final, ForwardBranches, Range
<1>8. Linked(b)[line].code = "ja" /\ Linked(b)[line].k = b.labels[label] - line - 1
  BY <1>2, <1>5, <1>6 DEF Instructions
<1>9. b.labels[label] \in Int
  BY <1>7
<1>10. \A l \in Nat, t \in Int : l + 1 + (t - l - 1) = t
  OBVIOUS
<1>11. line + 1 + Linked(b)[line].k = b.labels[label]
  BY <1>5, <1>8, <1>9, <1>10, Zenon
<1> QED
  BY <1>5, <1>7, <1>8, <1>11, Zenon

(* The states of a run are what their definition says.                     *)
LEMMA RunDef ==
    ASSUME NEW program, NEW call, Len(program) \in Nat
    PROVE  Run(program, call) =
               [n \in 0..Len(program) |->
                   IF n = 0 THEN [line |-> 1, accumulator |-> 0]
                   ELSE MachineStep(program, call, Run(program, call)[n - 1])]
<1> DEFINE first == [line |-> 1, accumulator |-> 0]
           next(at) == MachineStep(program, call, at)
           Is(f, m) == f = [n \in 0..m |-> IF n = 0 THEN first ELSE next(f[n - 1])]
           S == {m \in 0..Len(program) : \E f : Is(f, m)}
<1> HIDE DEF next, first
<1>1. 0 \in S
  <2>1. Is([n \in 0..0 |-> first], 0)
    OBVIOUS
  <2>2. \E f : Is(f, 0)
    BY <2>1
  <2> QED
    BY <2>2
<1>2. ASSUME NEW m \in 0..Len(program), m # Len(program), m \in S
      PROVE  m + 1 \in S
  <2>1. PICK f : Is(f, m)
    BY <1>2
  <2> DEFINE g == [n \in 0..(m + 1) |-> IF n = m + 1 THEN next(f[m]) ELSE f[n]]
  <2>2. ASSUME NEW n \in 0..(m + 1) PROVE g[n] = IF n = 0 THEN first ELSE next(g[n - 1])
    BY <2>1
  <2>3. Is(g, m + 1)
    BY <2>2
  <2>4. \E f1 : Is(f1, m + 1)
    BY <2>3
  <2> QED
    BY <1>2, <2>4
<1>3. \E f : Is(f, Len(program))
  <2> HIDE DEF S
  <2>1. 0..Len(program) \subseteq S
    BY <1>1, <1>2, Induction
  <2>2. Len(program) \in S
    BY <2>1
  <2> QED
    BY <2>2 DEF S
<1> QED
  BY <1>3 DEF Run, next, first

(* Run is what its definition says.                                        *)
LEMMA RunSteps ==
    ASSUME NEW program, NEW call, Len(program) \in Nat
    PROVE  /\ Run(program, call)[0] = [line |-> 1, accumulator |-> 0]
           /\ \A n \in 0..Len(program) :
                 n # Len(program) =>
                    Run(program, call)[n + 1] = MachineStep(program, call, Run(program, call)[n])
<1>1. Run(program, call)[0] = [line |-> 1, accumulator |-> 0]
  BY RunDef
<1>2. ASSUME NEW n \in 0..Len(program), n # Len(program)
      PROVE  Run(program, call)[n + 1] = MachineStep(program, call, Run(program, call)[n])
  <2>1. n + 1 \in 0..Len(program) /\ n + 1 # 0 /\ (n + 1) - 1 = n
    BY <1>2
  <2> QED
    BY <2>1, RunDef
<1> QED
  BY <1>1, <1>2

(* A run comes to a line, with the word it loaded.                         *)
Visits(b, call, line, accumulator) ==
    \E n \in 0..Len(b.program) :
        /\ n < line
        /\ Run(Linked(b), call)[n] = [line |-> line, accumulator |-> accumulator]

(* The same, with any accumulator.                                         *)
Reaches(b, call, line) == \E accumulator : Visits(b, call, line, accumulator)

(* A run starts at the first line.                                         *)
LEMMA VisitsFirst ==
    ASSUME NEW b, Final(b), NEW call
    PROVE  Visits(b, call, 1, 0)
<1>1. Len(b.program) \in Nat /\ Len(Linked(b)) \in Nat
  BY BuildLengths, LinkedLength DEF Final, Lengths
<1> QED
  BY <1>1, RunSteps DEF Visits

(* A run goes on: steps only lead ahead, so there are enough of them.      *)
LEMMA VisitsNext ==
    ASSUME NEW b, Final(b), NEW call, NEW line \in DOMAIN b.program, NEW accumulator,
           Visits(b, call, line, accumulator),
           NEW to \in Int, NEW loaded, to > line,
           MachineStep(Linked(b), call, [line |-> line, accumulator |-> accumulator]) =
               [line |-> to, accumulator |-> loaded]
    PROVE  Visits(b, call, to, loaded)
<1>1. /\ Len(b.program) \in Nat /\ Len(Linked(b)) = Len(b.program)
      /\ line \in 1..Len(b.program)
  BY BuildLengths, LinkedLength DEF Final, Lengths
<1>2. PICK n \in 0..Len(b.program) :
          /\ n < line
          /\ Run(Linked(b), call)[n] = [line |-> line, accumulator |-> accumulator]
  BY DEF Visits
<1>3. Run(Linked(b), call)[n + 1] = [line |-> to, accumulator |-> loaded]
  BY <1>1, <1>2, RunSteps
<1>4. n + 1 \in 0..Len(b.program) /\ n + 1 < to
  BY <1>1, <1>2
<1> QED
  BY <1>3, <1>4 DEF Visits

(* A load leads to the next line, with the word of the call.               *)
LEMMA VisitsLoad ==
    ASSUME NEW b, Final(b), NEW call, NEW line, NEW accumulator, NEW offset,
           Visits(b, call, line, accumulator), Reads(b, line, Instruction("ld", offset, 0, 0))
    PROVE  Visits(b, call, line + 1, Word(call, offset))
<1>1. Linked(b)[line] = Instruction("ld", offset, 0, 0) /\ line \in DOMAIN b.program
  BY LinkedInstruction DEF Instruction, Reads
<1>2. MachineStep(Linked(b), call, [line |-> line, accumulator |-> accumulator]) =
          [line |-> line + 1, accumulator |-> Word(call, offset)]
  BY <1>1 DEF MachineStep, Instruction
<1>3. line + 1 \in Int /\ line + 1 > line
  BY <1>1, BuildLengths DEF Final, Lengths
<1> QED
  BY <1>1, <1>2, <1>3, VisitsNext

(* A mask leads to the next line, with the bits in common.                 *)
LEMMA VisitsAnd ==
    ASSUME NEW b, Final(b), NEW call, NEW line, NEW accumulator, NEW mask,
           Visits(b, call, line, accumulator), Reads(b, line, Instruction("and", mask, 0, 0))
    PROVE  Visits(b, call, line + 1, And(accumulator, mask))
<1>1. Linked(b)[line] = Instruction("and", mask, 0, 0) /\ line \in DOMAIN b.program
  BY LinkedInstruction DEF Instruction, Reads
<1>2. MachineStep(Linked(b), call, [line |-> line, accumulator |-> accumulator]) =
          [line |-> line + 1, accumulator |-> And(accumulator, mask)]
  BY <1>1 DEF MachineStep, Instruction
<1>3. line + 1 \in Int /\ line + 1 > line
  BY <1>1, BuildLengths DEF Final, Lengths
<1> QED
  BY <1>1, <1>2, <1>3, VisitsNext

(* A branch leads over as many lines as its condition says.                *)
LEMMA VisitsBranch ==
    ASSUME NEW b, Final(b), NEW call, NEW line, NEW accumulator,
           NEW operation \in Branches, NEW value, NEW jt \in Nat, NEW jf \in Nat,
           Visits(b, call, line, accumulator), Reads(b, line, Instruction(operation, value, jt, jf))
    PROVE  IF Taken(operation, value, accumulator)
           THEN Visits(b, call, line + 1 + jt, accumulator)
           ELSE Visits(b, call, line + 1 + jf, accumulator)
<1> DEFINE skip == IF Taken(operation, value, accumulator) THEN jt ELSE jf
<1>1. /\ Linked(b)[line] = Instruction(operation, value, jt, jf) /\ line \in DOMAIN b.program
      /\ operation \notin {"ret", "ld", "and", "ja"}
  BY LinkedInstruction DEF Instruction, Reads, Branches
<1>2. MachineStep(Linked(b), call, [line |-> line, accumulator |-> accumulator]) =
          [line |-> line + 1 + skip, accumulator |-> accumulator]
  BY <1>1 DEF MachineStep, Instruction
<1>3. line + 1 + skip \in Int /\ line + 1 + skip > line
  BY <1>1, BuildLengths DEF Final, Lengths
<1>4. Visits(b, call, line + 1 + skip, accumulator)
  <2> HIDE DEF skip
  <2> QED
    BY <1>1, <1>2, <1>3, VisitsNext
<1> QED
  BY <1>4

(* A jump leads to its label.                                              *)
LEMMA VisitsJump ==
    ASSUME NEW b, Final(b), NEW call, NEW line, NEW accumulator, NEW label,
           Visits(b, call, line, accumulator), JumpsTo(b, line, label)
    PROVE  Visits(b, call, b.labels[label], accumulator)
<1>1. /\ line \in DOMAIN b.program
      /\ Linked(b)[line].code = "ja"
      /\ line + 1 + Linked(b)[line].k = b.labels[label]
      /\ b.labels[label] \in (line + 1)..Len(b.program)
  BY LinkedJump
<1>2. MachineStep(Linked(b), call, [line |-> line, accumulator |-> accumulator]) =
          [line |-> b.labels[label], accumulator |-> accumulator]
  BY <1>1 DEF MachineStep
<1>3. b.labels[label] \in Int /\ b.labels[label] > line
  BY <1>1, BuildLengths DEF Final, Lengths
<1> QED
  BY <1>1, <1>2, <1>3, VisitsNext

(* A run ends at the first return.                                         *)
LEMMA VisitsReturn ==
    ASSUME NEW b, Final(b), NEW call, NEW line, NEW decision,
           Reaches(b, call, line), Reads(b, line, Instruction("ret", decision, 0, 0))
    PROVE  Decision(Linked(b), call) = decision
<1> DEFINE run == Run(Linked(b), call)
           N == Len(b.program)
<1>1. N \in Nat /\ Len(Linked(b)) = N
  BY BuildLengths, LinkedLength DEF Final, Lengths
<1>a. PICK accumulator : Visits(b, call, line, accumulator)
  BY DEF Reaches
<1>2. PICK n \in 0..N : run[n] = [line |-> line, accumulator |-> accumulator]
  BY <1>a DEF Visits
<1>3. Linked(b)[line] = Instruction("ret", decision, 0, 0)
  BY LinkedInstruction DEF Instruction, Reads
<1>4. MachineStep(Linked(b), call, run[n]) = run[n]
  BY <1>2, <1>3 DEF MachineStep, Instruction
<1> DEFINE S == {m \in 0..N : m >= n => run[m] = run[n]}
<1>5. 0 \in S
  BY <1>1
<1>6. ASSUME NEW m \in 0..N, m # N, m \in S PROVE m + 1 \in S
  <2>1. run[m + 1] = MachineStep(Linked(b), call, run[m])
    BY <1>1, <1>6, RunSteps
  <2> QED
    BY <1>1, <1>4, <1>6, <2>1
<1>7. 0..N \subseteq S
  <2> HIDE DEF S, N
  <2> QED
    BY <1>1, <1>5, <1>6, Induction
<1>8. run[N] = run[n]
  BY <1>1, <1>7
<1> QED
  BY <1>1, <1>2, <1>3, <1>8 DEF Decision, Instruction

(* A conditional goes to one of its two labels.                            *)
LEMMA VisitsCondition ==
    ASSUME NEW b, WellFormed(b), NEW operation \in Branches, NEW value \in Int,
           NEW yes \in Nat, NEW no \in Nat,
           NEW f, Final(f), Completes(condition(b, operation, value, yes, no), f),
           NEW call, NEW accumulator, Visits(f, call, NextLine(b), accumulator)
    PROVE  IF Taken(operation, value, accumulator)
           THEN Visits(f, call, f.labels[yes], accumulator)
           ELSE Visits(f, call, f.labels[no], accumulator)
<1> DEFINE c == condition(b, operation, value, yes, no)
<1>1. /\ WellFormed(c)
      /\ ~c.err =>
            /\ Reads(c, NextLine(b), Instruction(operation, value, 0, 1))
            /\ JumpsTo(c, NextLine(b) + 1, yes)
            /\ JumpsTo(c, NextLine(b) + 2, no)
  BY conditionGrows
<1>2. ~c.err /\ WellFormed(f)
  BY DEF Final, Completes
<1>3. /\ Reads(f, NextLine(b), Instruction(operation, value, 0, 1))
      /\ JumpsTo(f, NextLine(b) + 1, yes) /\ JumpsTo(f, NextLine(b) + 2, no)
  <2> HIDE DEF c
  <2> QED
    BY <1>1, <1>2, Kept DEF c
<1>4. /\ NextLine(b) + 1 + 0 = NextLine(b) + 1
      /\ NextLine(b) + 1 + 1 = NextLine(b) + 2
  BY BuildLengths DEF Lengths, NextLine
<1>5. IF Taken(operation, value, accumulator)
      THEN Visits(f, call, NextLine(b) + 1, accumulator)
      ELSE Visits(f, call, NextLine(b) + 2, accumulator)
  BY <1>3, <1>4, VisitsBranch
<1> QED
  BY <1>3, <1>5, VisitsJump

(* A marked label is where it was marked.                                  *)
LEMMA MarkedLabel ==
    ASSUME NEW b, WellFormed(b), NEW label \in 1..Len(b.labels),
           NEW f, Completes(mark(b, label), f)
    PROVE  f.labels[label] = NextLine(b) /\ NextLine(mark(b, label)) = NextLine(b)
<1> DEFINE c == mark(b, label)
<1>1. /\ c.program = b.program /\ Len(c.labels) = Len(b.labels) /\ c.labels[label] = NextLine(b)
  BY markCompletes
<1>2. NextLine(b) # 0
  BY BuildLengths DEF Lengths, NextLine
<1> HIDE DEF c
<1> QED
  BY <1>1, <1>2 DEF Completes, c, NextLine

(* A fresh label that is marked at the end of what has grown since.        *)
LEMMA MarkFresh ==
    ASSUME NEW b, WellFormed(b), NEW c, WellFormed(c), Grows(newLabel(b), c)
    PROVE  LET label == LastLabel(b) + 1
               d == mark(c, label)
           IN  /\ label \in 1..Len(c.labels) /\ label \in Nat
               /\ WellFormed(d) /\ Grows(b, d) /\ Completes(c, d)
               /\ NextLine(d) = NextLine(c)
               /\ \A f : Completes(d, f) => f.labels[label] = NextLine(c)
<1> DEFINE label == LastLabel(b) + 1
           d == mark(c, label)
<1>1. /\ WellFormed(newLabel(b)) /\ Grows(b, newLabel(b))
      /\ Len(newLabel(b).labels) = label /\ newLabel(b).labels[label] = 0
  BY newLabelGrows DEF LastLabel
<1>2. Len(b.labels) \in Nat /\ label = Len(b.labels) + 1 /\ Len(c.labels) \in Nat
  BY BuildLengths DEF Lengths, LastLabel
<1>3. label \in 1..Len(c.labels) /\ c.labels[label] = 0
  <2>1. /\ Len(newLabel(b).labels) <= Len(c.labels)
        /\ \A n \in 1..Len(newLabel(b).labels) : c.labels[n] = newLabel(b).labels[n]
    BY Zenon DEF Grows, Keeps
  <2>2. label <= Len(c.labels) /\ \A n \in 1..label : c.labels[n] = newLabel(b).labels[n]
    BY <1>1, <2>1, Zenon
  <2> HIDE DEF label
  <2>3. label \in 1..label /\ label \in 1..Len(c.labels)
    BY <1>2, <2>2
  <2> QED
    BY <1>1, <2>2, <2>3, Zenon
<1>4. Grows(b, c)
  BY <1>1, GrowsTrans
<1>5. WellFormed(d) /\ Grows(b, d) /\ Completes(c, d) /\ d.program = c.program
  BY <1>2, <1>3, <1>4, markCompletes
<1>6. \A f : Completes(d, f) => f.labels[label] = NextLine(c)
  BY <1>3, MarkedLabel
<1> QED
  BY <1>2, <1>3, <1>5, <1>6 DEF NextLine

-----------------------------------------------------------------------------
(* One argument.                                                           *)

(* An argument of a policy has its fields' types.                          *)
TypedArgument(argument) ==
    /\ argument.index \in Nat
    /\ argument.operator \in Comparisons \cup {"masked-equal"}
    /\ argument.value \in Words \X Words /\ argument.mask \in Words \X Words

(* What is left of a word that is compared.                                *)
Part(argument, place, word) ==
    IF argument.operator = "masked-equal" THEN And(word, argument.mask[place]) ELSE word

(* What the high words decide when they differ, and the low words when     *)
(* they do not.                                                            *)
HighAccepts(argument, high) ==
    \/ argument.operator = "not-equal"
    \/ argument.operator \in {"less-than", "less-or-equal"} /\ ~(high > argument.value[1])
    \/ argument.operator \in {"greater-than", "greater-or-equal"} /\ high > argument.value[1]

(* The low words' turn: the high ones are equal.                           *)
LowAccepts(argument, low) ==
    CASE argument.operator \in {"equal", "masked-equal"} -> low = argument.value[2]
      [] argument.operator = "not-equal" -> low # argument.value[2]
      [] argument.operator = "less-than" -> ~(low >= argument.value[2])
      [] argument.operator = "less-or-equal" -> ~(low > argument.value[2])
      [] argument.operator = "greater-than" -> low > argument.value[2]
      [] argument.operator = "greater-or-equal" -> low >= argument.value[2]

(* The code from b to c leads where the high words tell it.                *)
HighDecides(b, c, argument, accepted, denied, checkLow) ==
    \A f, call, word :
        Final(f) /\ Completes(c, f) /\ Visits(f, call, NextLine(b), word) =>
            LET high == Part(argument, 1, word)
            IN  IF high = argument.value[1] THEN Reaches(f, call, f.labels[checkLow])
                ELSE IF HighAccepts(argument, high) THEN Reaches(f, call, f.labels[accepted])
                ELSE Reaches(f, call, f.labels[denied])

(* The code from b to c leads where the low words tell it.                 *)
LowDecides(b, c, argument, accepted, denied) ==
    \A f, call, word :
        Final(f) /\ Completes(c, f) /\ Visits(f, call, NextLine(b), word) =>
            IF LowAccepts(argument, Part(argument, 2, word))
            THEN Reaches(f, call, f.labels[accepted])
            ELSE Reaches(f, call, f.labels[denied])

(* Arithmetic may use the words of an argument.                            *)
LEMMA WordsAreNumbers ==
    ASSUME NEW argument, TypedArgument(argument)
    PROVE  /\ argument.value[1] \in Int /\ argument.value[2] \in Int
           /\ argument.mask[1] \in Int /\ argument.mask[2] \in Int
  BY DEF TypedArgument, Words

(* A mask, and the branch behind it.                                       *)
LEMMA MaskedCondition ==
    ASSUME NEW b, WellFormed(b), NEW mask \in Int, NEW value \in Int,
           NEW yes \in Nat, NEW no \in Nat
    PROVE  LET c == condition(emit(b, Instruction("and", mask, 0, 0)), "jeq", value, yes, no)
           IN  /\ WellFormed(c) /\ Grows(b, c)
               /\ \A f, call, word :
                     Final(f) /\ Completes(c, f) /\ Visits(f, call, NextLine(b), word) =>
                         IF And(word, mask) = value THEN Reaches(f, call, f.labels[yes])
                         ELSE Reaches(f, call, f.labels[no])
<1> DEFINE m == emit(b, Instruction("and", mask, 0, 0))
           c == condition(m, "jeq", value, yes, no)
<1>1. Instruction("and", mask, 0, 0) \in Instructions
  BY InstructionType DEF Codes
<1>2. /\ WellFormed(m) /\ Grows(b, m)
      /\ ~m.err => NextLine(m) = NextLine(b) + 1
                   /\ Reads(m, NextLine(b), Instruction("and", mask, 0, 0))
  BY <1>1, emitGrows
<1> HIDE DEF m
<1>3. WellFormed(c) /\ Grows(m, c)
  BY <1>2, conditionGrows DEF Branches
<1>4. Grows(b, c)
  BY <1>2, <1>3, GrowsTrans
<1>5. ASSUME NEW f, NEW call, NEW word, Final(f), Completes(c, f),
             Visits(f, call, NextLine(b), word)
      PROVE  IF And(word, mask) = value THEN Reaches(f, call, f.labels[yes])
             ELSE Reaches(f, call, f.labels[no])
  <2>1. WellFormed(f) /\ ~f.err /\ Completes(m, f)
    BY <1>2, <1>3, <1>5, GrowsCompletes DEF Final
  <2>2. NextLine(m) = NextLine(b) + 1 /\ Reads(f, NextLine(b), Instruction("and", mask, 0, 0))
    BY <1>2, <2>1, Kept DEF Completes
  <2>3. Visits(f, call, NextLine(m), And(word, mask))
    BY <1>5, <2>2, VisitsAnd
  <2>4. IF Taken("jeq", value, And(word, mask))
        THEN Visits(f, call, f.labels[yes], And(word, mask))
        ELSE Visits(f, call, f.labels[no], And(word, mask))
    BY <1>2, <1>5, <2>3, VisitsCondition DEF Branches
  <2> QED
    BY <2>4 DEF Taken, Reaches
<1> QED
  BY <1>3, <1>4, <1>5 DEF m

(* The high words: equal, masked-equal and not-equal.                      *)
LEMMA HighWordEquality ==
    ASSUME NEW b, WellFormed(b), NEW argument, TypedArgument(argument),
           NEW accepted \in Nat, NEW denied \in Nat, NEW checkLow \in Nat,
           argument.operator \in {"equal", "masked-equal", "not-equal"}
    PROVE  LET c == HighWord(b, argument, accepted, denied, checkLow)
           IN  WellFormed(c) /\ Grows(b, c)
               /\ HighDecides(b, c, argument, accepted, denied, checkLow)
<1> DEFINE high == argument.value[1]
           mask == argument.mask[1]
<1>0. high \in Int /\ mask \in Int
  BY WordsAreNumbers
<1>1. CASE argument.operator = "masked-equal"
  <2> DEFINE c == condition(emit(b, Instruction("and", mask, 0, 0)),
                            "jeq", high, checkLow, denied)
  <2>1. HighWord(b, argument, accepted, denied, checkLow) = c
    BY <1>1 DEF HighWord
  <2>2. /\ WellFormed(c) /\ Grows(b, c)
        /\ \A f, call, word :
              Final(f) /\ Completes(c, f) /\ Visits(f, call, NextLine(b), word) =>
                  IF And(word, mask) = high THEN Reaches(f, call, f.labels[checkLow])
                  ELSE Reaches(f, call, f.labels[denied])
    <3> HIDE DEF high, mask
    <3> QED
      BY <1>0, MaskedCondition
  <2> HIDE DEF c
  <2>3. HighDecides(b, c, argument, accepted, denied, checkLow)
    BY <1>1, <2>2 DEF HighDecides, Part, HighAccepts
  <2> QED
    BY <2>1, <2>2, <2>3
<1>2. CASE argument.operator # "masked-equal"
  <2> DEFINE no == IF argument.operator = "equal" THEN denied ELSE accepted
             c == condition(b, "jeq", high, checkLow, no)
  <2>1. HighWord(b, argument, accepted, denied, checkLow) = c /\ no \in Nat
    BY <1>2 DEF HighWord
  <2>2. WellFormed(c) /\ Grows(b, c)
    BY <1>0, <2>1, conditionGrows DEF Branches
  <2>3. ASSUME NEW f, NEW call, NEW word, Final(f), Completes(c, f),
               Visits(f, call, NextLine(b), word)
        PROVE  IF word = high THEN Reaches(f, call, f.labels[checkLow])
               ELSE Reaches(f, call, f.labels[no])
    <3>1. IF Taken("jeq", high, word) THEN Visits(f, call, f.labels[checkLow], word)
          ELSE Visits(f, call, f.labels[no], word)
      <4> HIDE DEF no
      <4> QED
        BY <1>0, <2>1, <2>3, VisitsCondition DEF Branches
    <3> QED
      BY <3>1 DEF Taken, Reaches
  <2> HIDE DEF c
  <2>4. HighDecides(b, c, argument, accepted, denied, checkLow)
    BY <1>2, <2>3 DEF HighDecides, Part, HighAccepts
  <2> QED
    BY <2>1, <2>2, <2>4
<1> QED
  BY <1>1, <1>2

(* Greater, equal or less, by two branches.                                *)
Ordered(b, value, above, equal, below) ==
    LET label == LastLabel(b) + 1
    IN  condition(mark(condition(newLabel(b), "jgt", value, above, label), label),
                  "jeq", value, equal, below)

(* Two branches tell above, equal and below apart.                         *)
LEMMA OrderedCondition ==
    ASSUME NEW b, WellFormed(b), NEW value \in Int,
           NEW above \in Nat, NEW equal \in Nat, NEW below \in Nat
    PROVE  LET c == Ordered(b, value, above, equal, below)
           IN  /\ WellFormed(c) /\ Grows(b, c)
               /\ \A f, call, word :
                     Final(f) /\ Completes(c, f) /\ Visits(f, call, NextLine(b), word) =>
                         IF word > value THEN Reaches(f, call, f.labels[above])
                         ELSE IF word = value THEN Reaches(f, call, f.labels[equal])
                         ELSE Reaches(f, call, f.labels[below])
<1> DEFINE label == LastLabel(b) + 1
           n == newLabel(b)
           t == condition(n, "jgt", value, above, label)
           m == mark(t, label)
           c == condition(m, "jeq", value, equal, below)
<1>1. WellFormed(n) /\ NextLine(n) = NextLine(b) /\ label \in Nat
  BY newLabelGrows, BuildLengths DEF NextLine, Lengths, LastLabel
<1> HIDE DEF label, n
<1>2. WellFormed(t) /\ Grows(n, t)
  BY <1>1, conditionGrows DEF Branches
<1> HIDE DEF t
<1>3. /\ WellFormed(m) /\ Grows(b, m) /\ Completes(t, m) /\ NextLine(m) = NextLine(t)
      /\ \A f : Completes(m, f) => f.labels[label] = NextLine(t)
  BY <1>2, MarkFresh DEF n, label, m
<1> HIDE DEF m
<1>4. WellFormed(c) /\ Grows(m, c)
  BY <1>3, conditionGrows DEF Branches
<1>5. Grows(b, c)
  BY <1>3, <1>4, GrowsTrans
<1>6. ASSUME NEW f, NEW call, NEW word, Final(f), Completes(c, f),
             Visits(f, call, NextLine(b), word)
      PROVE  IF word > value THEN Reaches(f, call, f.labels[above])
             ELSE IF word = value THEN Reaches(f, call, f.labels[equal])
             ELSE Reaches(f, call, f.labels[below])
  <2>1. WellFormed(f) /\ Completes(m, f)
    BY <1>3, <1>4, <1>6, GrowsCompletes DEF Final
  <2>2. Completes(t, f) /\ f.labels[label] = NextLine(m)
    BY <1>2, <1>3, <2>1, CompletesTrans
  <2>3. IF Taken("jgt", value, word) THEN Visits(f, call, f.labels[above], word)
        ELSE Visits(f, call, NextLine(m), word)
    BY <1>1, <1>6, <2>2, VisitsCondition DEF Branches, t
  <2>4. CASE word > value
    BY <2>3, <2>4 DEF Taken, Reaches
  <2>5. CASE ~(word > value)
    <3>1. Visits(f, call, NextLine(m), word)
      BY <2>3, <2>5 DEF Taken
    <3>2. IF Taken("jeq", value, word) THEN Visits(f, call, f.labels[equal], word)
          ELSE Visits(f, call, f.labels[below], word)
      BY <1>3, <1>6, <3>1, VisitsCondition DEF Branches
    <3> QED
      BY <2>5, <3>2 DEF Taken, Reaches
  <2> QED
    BY <2>4, <2>5
<1> HIDE DEF c
<1>7. /\ WellFormed(c) /\ Grows(b, c)
      /\ \A f, call, word :
            Final(f) /\ Completes(c, f) /\ Visits(f, call, NextLine(b), word) =>
                IF word > value THEN Reaches(f, call, f.labels[above])
                ELSE IF word = value THEN Reaches(f, call, f.labels[equal])
                ELSE Reaches(f, call, f.labels[below])
  BY <1>4, <1>5, <1>6
<1> QED
  BY <1>7 DEF c, m, t, n, label, Ordered

(* The high words: the operators of order.                                 *)
LEMMA HighWordOrder ==
    ASSUME NEW b, WellFormed(b), NEW argument, TypedArgument(argument),
           NEW accepted \in Nat, NEW denied \in Nat, NEW checkLow \in Nat,
           argument.operator \notin {"equal", "masked-equal", "not-equal"}
    PROVE  LET c == HighWord(b, argument, accepted, denied, checkLow)
           IN  WellFormed(c) /\ Grows(b, c)
               /\ HighDecides(b, c, argument, accepted, denied, checkLow)
<1> DEFINE high == argument.value[1]
           less == argument.operator \in {"less-than", "less-or-equal"}
           above == IF less THEN denied ELSE accepted
           below == IF less THEN accepted ELSE denied
           c == Ordered(b, high, above, checkLow, below)
<1>0. high \in Int
  BY WordsAreNumbers
<1>1. less \/ argument.operator \in {"greater-than", "greater-or-equal"}
  BY DEF TypedArgument, Comparisons
<1>2. HighWord(b, argument, accepted, denied, checkLow) = c
  <2>1. CASE less
    BY <2>1 DEF HighWord, Ordered
  <2>2. CASE ~less
    BY <1>1, <2>2 DEF HighWord, Ordered
  <2> QED
    BY <2>1, <2>2
<1>3. above \in Nat /\ below \in Nat
  OBVIOUS
<1>4. /\ WellFormed(c) /\ Grows(b, c)
      /\ \A f, call, word :
            Final(f) /\ Completes(c, f) /\ Visits(f, call, NextLine(b), word) =>
                IF word > high THEN Reaches(f, call, f.labels[above])
                ELSE IF word = high THEN Reaches(f, call, f.labels[checkLow])
                ELSE Reaches(f, call, f.labels[below])
  <2> HIDE DEF high, above, below
  <2> QED
    BY <1>0, <1>3, OrderedCondition
<1> HIDE DEF c
<1>5. HighDecides(b, c, argument, accepted, denied, checkLow)
  <2> SUFFICES ASSUME NEW f, NEW call, NEW word, Final(f), Completes(c, f),
                      Visits(f, call, NextLine(b), word)
               PROVE  IF word = high THEN Reaches(f, call, f.labels[checkLow])
                      ELSE IF HighAccepts(argument, word) THEN Reaches(f, call, f.labels[accepted])
                      ELSE Reaches(f, call, f.labels[denied])
    BY DEF HighDecides, Part
  <2>1. IF word > high THEN Reaches(f, call, f.labels[above])
        ELSE IF word = high THEN Reaches(f, call, f.labels[checkLow])
        ELSE Reaches(f, call, f.labels[below])
    BY <1>4
  <2>2. word = high => ~(word > high)
    BY <1>0
  <2>3. CASE less
    <3>1. HighAccepts(argument, word) <=> ~(word > high)
      BY <2>3 DEF HighAccepts
    <3> QED
      BY <2>1, <2>2, <2>3, <3>1
  <2>4. CASE ~less
    <3>1. HighAccepts(argument, word) <=> word > high
      BY <1>1, <2>4 DEF HighAccepts
    <3> QED
      BY <2>1, <2>2, <2>4, <3>1
  <2> QED
    BY <2>3, <2>4
<1> QED
  BY <1>2, <1>4, <1>5

(* The code for the high words is right, for every operator.               *)
LEMMA HighWordIsRight ==
    ASSUME NEW b, WellFormed(b), NEW argument, TypedArgument(argument),
           NEW accepted \in Nat, NEW denied \in Nat, NEW checkLow \in Nat
    PROVE  LET c == HighWord(b, argument, accepted, denied, checkLow)
           IN  WellFormed(c) /\ Grows(b, c)
               /\ HighDecides(b, c, argument, accepted, denied, checkLow)
  BY HighWordEquality, HighWordOrder

(* The code for the low words is right, for every operator.                *)
LEMMA LowWordIsRight ==
    ASSUME NEW b, WellFormed(b), NEW argument, TypedArgument(argument),
           NEW accepted \in Nat, NEW denied \in Nat
    PROVE  LET c == LowWord(b, argument, accepted, denied)
           IN  WellFormed(c) /\ Grows(b, c) /\ LowDecides(b, c, argument, accepted, denied)
<1> DEFINE low == argument.value[2]
           mask == argument.mask[2]
<1>0. low \in Int /\ mask \in Int
  BY WordsAreNumbers
<1>1. CASE argument.operator = "masked-equal"
  <2> DEFINE c == condition(emit(b, Instruction("and", mask, 0, 0)), "jeq", low, accepted, denied)
  <2>1. LowWord(b, argument, accepted, denied) = c
    BY <1>1 DEF LowWord
  <2>2. /\ WellFormed(c) /\ Grows(b, c)
        /\ \A f, call, word :
              Final(f) /\ Completes(c, f) /\ Visits(f, call, NextLine(b), word) =>
                  IF And(word, mask) = low THEN Reaches(f, call, f.labels[accepted])
                  ELSE Reaches(f, call, f.labels[denied])
    <3> HIDE DEF low, mask
    <3> QED
      BY <1>0, MaskedCondition
  <2> HIDE DEF c
  <2>3. LowDecides(b, c, argument, accepted, denied)
    BY <1>1, <2>2 DEF LowDecides, Part, LowAccepts
  <2> QED
    BY <2>1, <2>2, <2>3
<1>2. CASE argument.operator # "masked-equal"
  <2> DEFINE operation == IF argument.operator \in {"equal", "not-equal"} THEN "jeq"
                          ELSE IF argument.operator \in {"less-than", "greater-or-equal"} THEN "jge"
                          ELSE "jgt"
             plain == argument.operator \in {"equal", "greater-than", "greater-or-equal"}
             yes == IF plain THEN accepted ELSE denied
             no == IF plain THEN denied ELSE accepted
             c == condition(b, operation, low, yes, no)
  <2>1. argument.operator \in {"equal", "not-equal", "less-than", "less-or-equal",
                               "greater-than", "greater-or-equal"}
    BY <1>2 DEF TypedArgument, Comparisons
  <2>2. LowWord(b, argument, accepted, denied) = c
    BY <2>1 DEF LowWord
  <2>3. yes \in Nat /\ no \in Nat /\ operation \in Branches
    BY DEF Branches
  <2>4. \A word : Taken(operation, low, word) <=> (LowAccepts(argument, word) <=> plain)
    BY <2>1, <1>0 DEF Taken, LowAccepts
  <2>5. WellFormed(c) /\ Grows(b, c)
    <3> HIDE DEF operation, yes, no, low
    <3> QED
      BY <1>0, <2>3, conditionGrows
  <2>6. ASSUME NEW f, NEW call, NEW word, Final(f), Completes(c, f),
               Visits(f, call, NextLine(b), word)
        PROVE  IF LowAccepts(argument, word) THEN Reaches(f, call, f.labels[accepted])
               ELSE Reaches(f, call, f.labels[denied])
    <3>1. IF Taken(operation, low, word) THEN Visits(f, call, f.labels[yes], word)
          ELSE Visits(f, call, f.labels[no], word)
      <4> HIDE DEF operation, yes, no, low
      <4> QED
        BY <1>0, <2>3, <2>6, VisitsCondition
    <3> QED
      <4>1. Taken(operation, low, word) => Reaches(f, call, f.labels[yes])
        BY <3>1 DEF Reaches
      <4>2. ~Taken(operation, low, word) => Reaches(f, call, f.labels[no])
        BY <3>1 DEF Reaches
      <4>3. CASE plain
        BY <2>4, <4>1, <4>2, <4>3
      <4>4. CASE ~plain
        BY <2>4, <4>1, <4>2, <4>4
      <4> QED
        BY <4>3, <4>4
  <2> HIDE DEF c
  <2>7. LowDecides(b, c, argument, accepted, denied)
    BY <1>2, <2>6 DEF LowDecides, Part
  <2> QED
    BY <2>2, <2>5, <2>7
<1> QED
  BY <1>1, <1>2

(* Comparing high words first compares the numbers.                        *)
LEMMA Lexicographic ==
    ASSUME NEW w \in Nat \ {0}, NEW a \in Nat, NEW c \in Nat, NEW b \in 0..(w - 1), NEW d \in 0..(w - 1)
    PROVE  /\ a * w + b \in Int /\ c * w + d \in Int
           /\ a < c => a * w + b < c * w + d
<1>1. a * w \in Nat /\ c * w \in Nat
  OBVIOUS
<1>2. ASSUME a < c PROVE a * w + b < c * w + d
  <2>1. a + 1 <= c
    BY <1>2
  <2>2. (a + 1) * w <= c * w
    BY <2>1
  <2>3. (a + 1) * w = a * w + w
    OBVIOUS
  <2> QED
    BY <1>1, <2>2, <2>3
<1> QED
  BY <1>1, <1>2

(* What a predicate means, word by word.                                   *)
LEMMA HoldsByWords ==
    ASSUME NEW argument, TypedArgument(argument), NEW value \in Words \X Words
    PROVE  LET high == Part(argument, 1, value[1])
               low == Part(argument, 2, value[2])
           IN  Holds(argument, value) <=>
                   IF high = argument.value[1] THEN LowAccepts(argument, low)
                   ELSE HighAccepts(argument, high)
<1> DEFINE w == TwoTo[WordBits]
           a == value[1]
           b == value[2]
           c == argument.value[1]
           d == argument.value[2]
<1>1. w \in Nat \ {0}
  BY WordAssumption, TwoToValues
<1>2. /\ a \in 0..(w - 1) /\ b \in 0..(w - 1) /\ value = <<a, b>>
      /\ c \in 0..(w - 1) /\ d \in 0..(w - 1) /\ argument.value = <<c, d>>
  BY DEF TypedArgument, Words
<1>3. CASE argument.operator = "masked-equal"
  BY <1>2, <1>3 DEF Holds, Part, LowAccepts, HighAccepts
<1>4. CASE argument.operator # "masked-equal"
  <2>1. Part(argument, 1, a) = a /\ Part(argument, 2, b) = b
    BY <1>4 DEF Part
  <2>2. Unsigned(value) = a * w + b /\ Unsigned(argument.value) = c * w + d
    BY DEF Unsigned
  <2>3. /\ a * w + b \in Int /\ c * w + d \in Int
        /\ a < c => a * w + b < c * w + d
        /\ c < a => c * w + d < a * w + b
    <3> HIDE DEF w, a, b, c, d
    <3>1. a \in Nat /\ b \in 0..(w - 1) /\ c \in Nat /\ d \in 0..(w - 1)
      BY <1>1, <1>2
    <3> QED
      BY <1>1, <3>1, Lexicographic
  <2>4. a = c => (a * w + b < c * w + d <=> b < d) /\ (a * w + b = c * w + d <=> b = d)
    <3> HIDE DEF w, a, b, c, d
    <3>1. a * w \in Int /\ b \in Int /\ c \in Int /\ d \in Int
      BY <1>1, <1>2
    <3> QED
      BY <3>1
  <2>5. argument.operator \in {"equal", "not-equal", "less-than", "less-or-equal",
                               "greater-than", "greater-or-equal"}
    BY <1>4 DEF TypedArgument, Comparisons
  <2> DEFINE x == Unsigned(value)
             y == Unsigned(argument.value)
  <2>6. /\ x \in Int /\ y \in Int
        /\ a < c => x < y
        /\ c < a => y < x
        /\ a = c => (x < y <=> b < d) /\ (x = y <=> b = d)
    BY <2>2, <2>3, <2>4
  <2>7. a \in Int /\ b \in Int /\ c \in Int /\ d \in Int
    BY <1>1, <1>2
  <2>8. Holds(argument, value) <=>
            IF a = c THEN LowAccepts(argument, b) ELSE HighAccepts(argument, a)
    <3> HIDE DEF x, y
    <3>1. CASE argument.operator = "equal"
      BY <2>6, <2>7, <3>1 DEF Holds, LowAccepts, HighAccepts, x, y
    <3>2. CASE argument.operator = "not-equal"
      BY <2>6, <2>7, <3>2 DEF Holds, LowAccepts, HighAccepts, x, y
    <3>3. CASE argument.operator = "less-than"
      BY <2>6, <2>7, <3>3 DEF Holds, LowAccepts, HighAccepts, x, y
    <3>4. CASE argument.operator = "less-or-equal"
      BY <2>6, <2>7, <3>4 DEF Holds, LowAccepts, HighAccepts, x, y
    <3>5. CASE argument.operator = "greater-than"
      BY <2>6, <2>7, <3>5 DEF Holds, LowAccepts, HighAccepts, x, y
    <3>6. CASE argument.operator = "greater-or-equal"
      BY <2>6, <2>7, <3>6 DEF Holds, LowAccepts, HighAccepts, x, y
    <3> QED
      BY <2>5, <3>1, <3>2, <3>3, <3>4, <3>5, <3>6
  <2> QED
    BY <2>1, <2>8
<1> QED
  BY <1>3, <1>4

(* An emitted instruction is reached where the build ended.                *)
LEMMA loadIsRight ==
    ASSUME NEW b, WellFormed(b), NEW offset \in Int
    PROVE  LET c == load(b, offset)
           IN  /\ WellFormed(c) /\ Grows(b, c) /\ c.labels = b.labels
               /\ \A f, call :
                     Final(f) /\ Completes(c, f) /\ Reaches(f, call, NextLine(b)) =>
                         Visits(f, call, NextLine(c), Word(call, offset))
<1> DEFINE ins == Instruction("ld", offset, 0, 0)
           c == emit(b, ins)
<1>1. ins \in Instructions
  BY InstructionType DEF Codes
<1> HIDE DEF ins
<1>2. /\ WellFormed(c) /\ Grows(b, c) /\ c.labels = b.labels
      /\ ~c.err => NextLine(c) = NextLine(b) + 1 /\ Reads(c, NextLine(b), ins)
  BY <1>1, emitGrows
<1> HIDE DEF c
<1>3. ASSUME NEW f, NEW call, Final(f), Completes(c, f), Reaches(f, call, NextLine(b))
      PROVE  Visits(f, call, NextLine(c), Word(call, offset))
  <2>1. WellFormed(f) /\ ~c.err
    BY <1>3 DEF Final, Completes
  <2>2. NextLine(c) = NextLine(b) + 1 /\ Reads(f, NextLine(b), ins)
    BY <1>2, <1>3, <2>1, Kept
  <2> QED
    BY <1>3, <2>2, VisitsLoad DEF Reaches, ins
<1> QED
  BY <1>2, <1>3 DEF load, c, ins

(* The words of an argument, where the compiler loads them from.           *)
LEMMA WordsOfArgument ==
    ASSUME NEW call, NEW index \in 0..5
    PROVE  /\ LowOffset(index) \in Int /\ LowOffset(index) + 4 \in Int
           /\ Word(call, LowOffset(index)) = call.arguments[index + 1][2]
           /\ Word(call, LowOffset(index) + 4) = call.arguments[index + 1][1]
  BY DEF LowOffset, Word

(* The code from b to c decides one argument, as the policy reads.         *)
ArgumentDecides(b, c, argument, accepted, denied) ==
    \A f : \A call \in SystemCallData :
        Final(f) /\ Completes(c, f) /\ Reaches(f, call, NextLine(b)) =>
            IF Holds(argument, call.arguments[argument.index + 1])
            THEN Reaches(f, call, f.labels[accepted])
            ELSE Reaches(f, call, f.labels[denied])

(* The two words together: a full unsigned comparison of the argument.     *)
LEMMA ArgumentIsRight ==
    ASSUME NEW b, WellFormed(b), NEW argument, TypedArgument(argument), argument.index \in 0..5,
           NEW accepted \in Nat, NEW denied \in Nat
    PROVE  LET c == Argument(b, argument, accepted, denied)
           IN  /\ WellFormed(c) /\ Grows(b, c)
               /\ ArgumentDecides(b, c, argument, accepted, denied)
<1> DEFINE checkLow == LastLabel(b) + 1
           offset == LowOffset(argument.index)
           n == newLabel(b)
           l == load(n, offset + 4)
           h == HighWord(l, argument, accepted, denied, checkLow)
           m == mark(h, checkLow)
           k == load(m, offset)
           c == LowWord(k, argument, accepted, denied)
<1>0. offset \in Int /\ offset + 4 \in Int
  BY WordsOfArgument
<1>1. WellFormed(n) /\ NextLine(n) = NextLine(b) /\ checkLow \in Nat
  BY newLabelGrows, BuildLengths DEF NextLine, Lengths, LastLabel
<1> HIDE DEF checkLow, n, offset
<1>2. /\ WellFormed(l) /\ Grows(n, l)
      /\ \A f, call :
            Final(f) /\ Completes(l, f) /\ Reaches(f, call, NextLine(n)) =>
                Visits(f, call, NextLine(l), Word(call, offset + 4))
  BY <1>0, <1>1, loadIsRight
<1> HIDE DEF l
<1>3. WellFormed(h) /\ Grows(l, h) /\ HighDecides(l, h, argument, accepted, denied, checkLow)
  BY <1>1, <1>2, HighWordIsRight
<1> HIDE DEF h
<1>4. Grows(n, h)
  BY <1>1, <1>2, <1>3, GrowsTrans
<1>5. /\ WellFormed(m) /\ Grows(b, m) /\ Completes(h, m) /\ NextLine(m) = NextLine(h)
      /\ \A f : Completes(m, f) => f.labels[checkLow] = NextLine(h)
  BY <1>3, <1>4, MarkFresh DEF n, checkLow, m
<1> HIDE DEF m
<1>6. /\ WellFormed(k) /\ Grows(m, k)
      /\ \A f, call :
            Final(f) /\ Completes(k, f) /\ Reaches(f, call, NextLine(m)) =>
                Visits(f, call, NextLine(k), Word(call, offset))
  BY <1>0, <1>5, loadIsRight
<1> HIDE DEF k
<1>7. WellFormed(c) /\ Grows(k, c) /\ LowDecides(k, c, argument, accepted, denied)
  BY <1>6, LowWordIsRight
<1> HIDE DEF c
<1>8. Grows(m, c) /\ Grows(b, c)
  BY <1>5, <1>6, <1>7, GrowsTrans
<1>9. ASSUME NEW f, NEW call \in SystemCallData, Final(f), Completes(c, f),
             Reaches(f, call, NextLine(b))
      PROVE  IF Holds(argument, call.arguments[argument.index + 1])
             THEN Reaches(f, call, f.labels[accepted])
             ELSE Reaches(f, call, f.labels[denied])
  <2> DEFINE value == call.arguments[argument.index + 1]
             high == Part(argument, 1, value[1])
             low == Part(argument, 2, value[2])
  <2>1. value \in Words \X Words
    BY DEF SystemCallData
  <2>2. Word(call, offset + 4) = value[1] /\ Word(call, offset) = value[2]
    BY WordsOfArgument DEF offset
  <2>3. WellFormed(f) /\ Completes(k, f) /\ Completes(m, f)
    BY <1>5, <1>6, <1>7, <1>8, <1>9, GrowsCompletes DEF Final
  <2>4. Completes(h, f) /\ f.labels[checkLow] = NextLine(m)
    BY <1>3, <1>5, <2>3, CompletesTrans
  <2>5. Completes(l, f)
    BY <1>2, <1>3, <2>3, <2>4, GrowsCompletes
  <2>6. Holds(argument, value) <=>
            IF high = argument.value[1] THEN LowAccepts(argument, low)
            ELSE HighAccepts(argument, high)
    BY <2>1, HoldsByWords
  <2> HIDE DEF value
  <2>7. Visits(f, call, NextLine(l), value[1])
    BY <1>1, <1>2, <1>9, <2>2, <2>5
  <2>8. IF high = argument.value[1] THEN Reaches(f, call, NextLine(m))
        ELSE IF HighAccepts(argument, high) THEN Reaches(f, call, f.labels[accepted])
        ELSE Reaches(f, call, f.labels[denied])
    BY <1>3, <1>9, <2>4, <2>7 DEF HighDecides
  <2>9. ASSUME high = argument.value[1]
        PROVE  IF LowAccepts(argument, low) THEN Reaches(f, call, f.labels[accepted])
               ELSE Reaches(f, call, f.labels[denied])
    <3>1. Visits(f, call, NextLine(k), value[2])
      BY <1>6, <1>9, <2>2, <2>3, <2>8, <2>9
    <3> QED
      BY <1>7, <1>9, <3>1 DEF LowDecides
  <2>10. IF Holds(argument, value) THEN Reaches(f, call, f.labels[accepted])
         ELSE Reaches(f, call, f.labels[denied])
    <3> HIDE DEF high, low
    <3> QED
      BY <2>6, <2>8, <2>9
  <2> QED
    BY <2>10 DEF value
<1>10. ArgumentDecides(b, c, argument, accepted, denied)
  BY <1>9 DEF ArgumentDecides
<1>11. Argument(b, argument, accepted, denied) = c
  BY DEF Argument, c, k, m, h, l, n, offset, checkLow
<1> QED
  BY <1>7, <1>8, <1>10, <1>11

-----------------------------------------------------------------------------
(* One rule.                                                               *)

(* A rule that parses: at least one known name, and arguments of a call.   *)
SoundRule(rule) ==
    /\ Len(rule.names) \in Nat \ {0}
    /\ \A i \in 1..Len(rule.names) : rule.names[i] \in Names
    /\ Len(rule.arguments) \in Nat
    /\ \A i \in 1..Len(rule.arguments) :
          TypedArgument(rule.arguments[i]) /\ rule.arguments[i].index \in 0..5

(* Rule's first n names have the call's.                                   *)
NamedBy(rule, call, n) == \E i \in 1..n : amd64SystemCalls[rule.names[i]] = call.nr

(* Rule's first n arguments hold of the call.                              *)
Meets(rule, call, n) ==
    \A i \in 1..n : Holds(rule.arguments[i], call.arguments[rule.arguments[i].index + 1])

(* An argument that holds goes on to the next one, another denies.         *)
LEMMA AcceptOrDenyIsRight ==
    ASSUME NEW b, WellFormed(b), NEW argument, TypedArgument(argument), argument.index \in 0..5,
           NEW deny \in Nat
    PROVE  LET c == AcceptOrDeny(b, argument, deny)
           IN  /\ WellFormed(c) /\ Grows(b, c)
               /\ \A f : \A call \in SystemCallData :
                     Final(f) /\ Completes(c, f) /\ Reaches(f, call, NextLine(b)) =>
                         IF Holds(argument, call.arguments[argument.index + 1])
                         THEN Reaches(f, call, NextLine(c))
                         ELSE Reaches(f, call, f.labels[deny])
<1> DEFINE accepted == LastLabel(b) + 1
           n == newLabel(b)
           a == Argument(n, argument, accepted, deny)
           c == mark(a, accepted)
<1>1. WellFormed(n) /\ NextLine(n) = NextLine(b) /\ accepted \in Nat
  BY newLabelGrows, BuildLengths DEF NextLine, Lengths, LastLabel
<1> HIDE DEF accepted, n
<1>2. WellFormed(a) /\ Grows(n, a) /\ ArgumentDecides(n, a, argument, accepted, deny)
  BY <1>1, ArgumentIsRight
<1> HIDE DEF a
<1>3. /\ WellFormed(c) /\ Grows(b, c) /\ Completes(a, c) /\ NextLine(c) = NextLine(a)
      /\ \A f : Completes(c, f) => f.labels[accepted] = NextLine(a)
  BY <1>2, MarkFresh DEF n, accepted, c
<1> HIDE DEF c
<1>4. ASSUME NEW f, NEW call \in SystemCallData, Final(f), Completes(c, f),
             Reaches(f, call, NextLine(b))
      PROVE  IF Holds(argument, call.arguments[argument.index + 1])
             THEN Reaches(f, call, NextLine(c))
             ELSE Reaches(f, call, f.labels[deny])
  <2>1. WellFormed(f) /\ Completes(a, f)
    BY <1>2, <1>3, <1>4, CompletesTrans DEF Final
  <2>2. f.labels[accepted] = NextLine(c)
    BY <1>3, <1>4
  <2> QED
    BY <1>1, <1>2, <1>4, <2>1, <2>2 DEF ArgumentDecides
<1> QED
  BY <1>3, <1>4 DEF AcceptOrDeny, c, a, n, accepted

(* AfterArguments is what its definition says.                             *)
LEMMA AfterArgumentsDef ==
    ASSUME NEW b, NEW rule, NEW deny, Len(rule.arguments) \in Nat
    PROVE  AfterArguments(b, rule, deny) =
               [n \in 0..Len(rule.arguments) |->
                   IF n = 0 THEN b
                   ELSE AcceptOrDeny(AfterArguments(b, rule, deny)[n - 1], rule.arguments[n], deny)]
<1> DEFINE N == Len(rule.arguments)
           round(x, n) == AcceptOrDeny(x, rule.arguments[n], deny)
           Is(f, m) == f = [n \in 0..m |-> IF n = 0 THEN b ELSE round(f[n - 1], n)]
           S == {m \in 0..N : \E f : Is(f, m)}
<1> HIDE DEF round
<1>1. 0 \in S
  <2>1. Is([n \in 0..0 |-> b], 0)
    OBVIOUS
  <2>2. \E f : Is(f, 0)
    BY <2>1
  <2> QED
    BY <2>2
<1>2. ASSUME NEW m \in 0..N, m # N, m \in S
      PROVE  m + 1 \in S
  <2>1. PICK f : Is(f, m)
    BY <1>2
  <2> DEFINE g == [n \in 0..(m + 1) |-> IF n = m + 1 THEN round(f[m], m + 1) ELSE f[n]]
  <2>2. ASSUME NEW n \in 0..(m + 1) PROVE g[n] = IF n = 0 THEN b ELSE round(g[n - 1], n)
    BY <2>1
  <2>3. Is(g, m + 1)
    BY <2>2
  <2>4. \E f1 : Is(f1, m + 1)
    BY <2>3
  <2> QED
    BY <1>2, <2>4
<1>3. \E f : Is(f, N)
  <2> HIDE DEF S
  <2>1. 0..N \subseteq S
    BY <1>1, <1>2, Induction
  <2>2. N \in S
    BY <2>1
  <2> QED
    BY <2>2 DEF S
<1> QED
  BY <1>3 DEF AfterArguments, round

(* Before any argument, and one argument further.                          *)
LEMMA AfterArgumentsSteps ==
    ASSUME NEW b, NEW rule, NEW deny, Len(rule.arguments) \in Nat
    PROVE  /\ AfterArguments(b, rule, deny)[0] = b
           /\ \A n \in 0..Len(rule.arguments) :
                 n # Len(rule.arguments) =>
                    AfterArguments(b, rule, deny)[n + 1] =
                        AcceptOrDeny(AfterArguments(b, rule, deny)[n], rule.arguments[n + 1], deny)
<1>1. AfterArguments(b, rule, deny)[0] = b
  BY AfterArgumentsDef
<1>2. ASSUME NEW n \in 0..Len(rule.arguments), n # Len(rule.arguments)
      PROVE  AfterArguments(b, rule, deny)[n + 1] =
                 AcceptOrDeny(AfterArguments(b, rule, deny)[n], rule.arguments[n + 1], deny)
  <2>1. n + 1 \in 0..Len(rule.arguments) /\ n + 1 # 0 /\ (n + 1) - 1 = n
    BY <1>2
  <2> QED
    BY <2>1, AfterArgumentsDef
<1> QED
  BY <1>1, <1>2

(* The first predicate that does not hold denies the call.                 *)
ArgumentsDecide(b, c, rule, n, deny) ==
    \A f : \A call \in SystemCallData :
        Final(f) /\ Completes(c, f) /\ Reaches(f, call, NextLine(b)) =>
            IF Meets(rule, call, n) THEN Reaches(f, call, NextLine(c))
            ELSE Reaches(f, call, f.labels[deny])

(* A rule's arguments are checked one by one until one does not hold.      *)
LEMMA AfterArgumentsIsRight ==
    ASSUME NEW b, WellFormed(b), NEW rule, SoundRule(rule), NEW deny \in Nat
    PROVE  LET c == AfterArguments(b, rule, deny)[Len(rule.arguments)]
           IN  /\ WellFormed(c) /\ Grows(b, c)
               /\ ArgumentsDecide(b, c, rule, Len(rule.arguments), deny)
<1> DEFINE N == Len(rule.arguments)
           after == AfterArguments(b, rule, deny)
           S == {n \in 0..N : /\ WellFormed(after[n]) /\ Grows(b, after[n])
                              /\ ArgumentsDecide(b, after[n], rule, n, deny)}
<1>0. N \in Nat
  BY DEF SoundRule
<1>1. /\ after[0] = b
      /\ \A n \in 0..N : n # N => after[n + 1] = AcceptOrDeny(after[n], rule.arguments[n + 1], deny)
  BY <1>0, AfterArgumentsSteps
<1> HIDE DEF after
<1>2. 0 \in S
  <2>1. ArgumentsDecide(b, b, rule, 0, deny)
    BY DEF ArgumentsDecide, Meets
  <2> QED
    BY <1>0, <1>1, <2>1, GrowsSelf
<1>3. ASSUME NEW n \in 0..N, n # N, n \in S PROVE n + 1 \in S
  <2> DEFINE x == after[n]
             argument == rule.arguments[n + 1]
             c == AcceptOrDeny(x, argument, deny)
  <2>0. n + 1 \in 1..N /\ n + 1 \in 0..N
    BY <1>0, <1>3
  <2>1. WellFormed(x) /\ Grows(b, x) /\ ArgumentsDecide(b, x, rule, n, deny) /\ after[n + 1] = c
    BY <1>1, <1>3
  <2>2. TypedArgument(argument) /\ argument.index \in 0..5
    BY <2>0 DEF SoundRule
  <2> HIDE DEF x, argument
  <2>3. /\ WellFormed(c) /\ Grows(x, c)
        /\ \A f : \A call \in SystemCallData :
              Final(f) /\ Completes(c, f) /\ Reaches(f, call, NextLine(x)) =>
                  IF Holds(argument, call.arguments[argument.index + 1])
                  THEN Reaches(f, call, NextLine(c))
                  ELSE Reaches(f, call, f.labels[deny])
    BY <2>1, <2>2, AcceptOrDenyIsRight
  <2> HIDE DEF c
  <2>4. Grows(b, c)
    BY <2>1, <2>3, GrowsTrans
  <2>5. ASSUME NEW f, NEW call \in SystemCallData, Final(f), Completes(c, f),
               Reaches(f, call, NextLine(b))
        PROVE  IF Meets(rule, call, n + 1) THEN Reaches(f, call, NextLine(c))
               ELSE Reaches(f, call, f.labels[deny])
    <3>1. Completes(x, f)
      BY <2>1, <2>3, <2>5, GrowsCompletes DEF Final
    <3>2. IF Meets(rule, call, n) THEN Reaches(f, call, NextLine(x))
          ELSE Reaches(f, call, f.labels[deny])
      BY <2>1, <2>5, <3>1 DEF ArgumentsDecide
    <3>3. Meets(rule, call, n + 1) <=>
              Meets(rule, call, n) /\ Holds(argument, call.arguments[argument.index + 1])
      <4>1. 1..(n + 1) = 1..n \cup {n + 1}
        BY <1>3
      <4> QED
        BY <4>1, Zenon DEF Meets, argument
    <3> QED
      BY <2>3, <2>5, <3>2, <3>3
  <2>6. ArgumentsDecide(b, c, rule, n + 1, deny)
    BY <2>5 DEF ArgumentsDecide
  <2> QED
    BY <2>0, <2>1, <2>3, <2>4, <2>6
<1>4. N \in S
  <2> HIDE DEF S
  <2>1. 0..N \subseteq S
    BY <1>0, <1>2, <1>3, Induction
  <2> QED
    BY <1>0, <2>1
<1> QED
  BY <1>4 DEF after

(* One name: it sends its call to the arguments.  The last one sends the   *)
(* others past the rule, any other one to the next name.                   *)
NameDecides(b, c, rule, i, arguments, nextRule) ==
    \A f : \A call \in SystemCallData :
        Final(f) /\ Completes(c, f) /\ Visits(f, call, NextLine(b), call.nr) =>
            IF amd64SystemCalls[rule.names[i]] = call.nr
            THEN Reaches(f, call, f.labels[arguments])
            ELSE IF i = Len(rule.names) THEN Reaches(f, call, f.labels[nextRule])
            ELSE Visits(f, call, NextLine(c), call.nr)

(* What the compiler writes for one name does just that.                   *)
LEMMA NameIsRight ==
    ASSUME NEW b, WellFormed(b), NEW rule, SoundRule(rule), NEW i \in 1..Len(rule.names),
           NEW arguments \in Nat, NEW nextRule \in Nat
    PROVE  LET c == Name(b, rule, i, arguments, nextRule)
           IN  /\ WellFormed(c) /\ Grows(b, c)
               /\ NameDecides(b, c, rule, i, arguments, nextRule)
<1> DEFINE number == amd64SystemCalls[rule.names[i]]
           label == LastLabel(b) + 1
           n == newLabel(b)
           t == condition(n, "jeq", number, arguments, label)
           d == mark(t, label)
           e == condition(b, "jeq", number, arguments, nextRule)
<1>1. number \in Int
  <2>1. rule.names[i] \in DOMAIN amd64SystemCalls
    BY DEF SoundRule, Names
  <2>2. amd64SystemCalls \in Seq(0..(x32SystemCallBit - 1))
    BY SystemCallAssumption
  <2>3. x32SystemCallBit \in Int
    BY WordAssumption, TwoToValues DEF x32SystemCallBit
  <2>4. \A T : \A q \in Seq(T) : \A j \in DOMAIN q : q[j] \in T
    OBVIOUS
  <2>5. amd64SystemCalls[rule.names[i]] \in 0..(x32SystemCallBit - 1)
    BY <2>1, <2>2, <2>4, Zenon
  <2> QED
    BY <2>3, <2>5
<1>2. WellFormed(n) /\ NextLine(n) = NextLine(b) /\ label \in Nat
  BY newLabelGrows, BuildLengths DEF NextLine, Lengths, LastLabel
<1> HIDE DEF number, label, n
<1>3. CASE i = Len(rule.names)
  <2>1. WellFormed(e) /\ Grows(b, e)
    BY <1>1, conditionGrows DEF Branches
  <2>2. ASSUME NEW f, NEW call \in SystemCallData, Final(f), Completes(e, f),
               Visits(f, call, NextLine(b), call.nr)
        PROVE  IF number = call.nr THEN Reaches(f, call, f.labels[arguments])
               ELSE Reaches(f, call, f.labels[nextRule])
    <3>1. IF Taken("jeq", number, call.nr)
          THEN Visits(f, call, f.labels[arguments], call.nr)
          ELSE Visits(f, call, f.labels[nextRule], call.nr)
      BY <1>1, <2>2, VisitsCondition DEF Branches
    <3> QED
      BY <3>1 DEF Taken, Reaches
  <2>3. Name(b, rule, i, arguments, nextRule) = e
    BY <1>3 DEF Name, number, e
  <2> HIDE DEF e
  <2>4. NameDecides(b, e, rule, i, arguments, nextRule)
    BY <1>3, <2>2 DEF NameDecides, number
  <2> QED
    BY <2>1, <2>3, <2>4
<1>4. CASE i # Len(rule.names)
  <2>1. WellFormed(t) /\ Grows(n, t)
    BY <1>1, <1>2, conditionGrows DEF Branches
  <2>2. ASSUME NEW f, NEW call \in SystemCallData, Final(f), Completes(t, f),
               Visits(f, call, NextLine(b), call.nr)
        PROVE  IF number = call.nr THEN Reaches(f, call, f.labels[arguments])
               ELSE Visits(f, call, f.labels[label], call.nr)
    <3>1. IF Taken("jeq", number, call.nr)
          THEN Visits(f, call, f.labels[arguments], call.nr)
          ELSE Visits(f, call, f.labels[label], call.nr)
      BY <1>1, <1>2, <2>2, VisitsCondition DEF Branches
    <3> QED
      BY <3>1 DEF Taken, Reaches
  <2>3. Name(b, rule, i, arguments, nextRule) = d
    BY <1>4 DEF Name, number, d, t, n, label
  <2> HIDE DEF t
  <2>4. /\ WellFormed(d) /\ Grows(b, d) /\ Completes(t, d) /\ NextLine(d) = NextLine(t)
        /\ \A f : Completes(d, f) => f.labels[label] = NextLine(t)
    BY <2>1, MarkFresh DEF n, label, d
  <2> HIDE DEF d
  <2>5. ASSUME NEW f, NEW call \in SystemCallData, Final(f), Completes(d, f),
               Visits(f, call, NextLine(b), call.nr)
        PROVE  IF number = call.nr THEN Reaches(f, call, f.labels[arguments])
               ELSE Visits(f, call, NextLine(d), call.nr)
    <3>1. WellFormed(f) /\ Completes(t, f)
      BY <2>1, <2>4, <2>5, CompletesTrans DEF Final
    <3>2. f.labels[label] = NextLine(d)
      BY <2>4, <2>5
    <3> QED
      BY <2>2, <2>5, <3>1, <3>2
  <2>6. NameDecides(b, d, rule, i, arguments, nextRule)
    BY <1>4, <2>5 DEF NameDecides, number
  <2> QED
    BY <2>3, <2>4, <2>6
<1> QED
  BY <1>3, <1>4

(* The loop over the names is what its definition says.                    *)
LEMMA AfterNamesDef ==
    ASSUME NEW b, NEW rule, NEW arguments, NEW nextRule, Len(rule.names) \in Nat
    PROVE  AfterNames(b, rule, arguments, nextRule) =
               [n \in 0..Len(rule.names) |->
                   IF n = 0 THEN b
                   ELSE Name(AfterNames(b, rule, arguments, nextRule)[n - 1], rule, n,
                             arguments, nextRule)]
<1> DEFINE N == Len(rule.names)
           round(x, n) == Name(x, rule, n, arguments, nextRule)
           Is(f, m) == f = [n \in 0..m |-> IF n = 0 THEN b ELSE round(f[n - 1], n)]
           S == {m \in 0..N : \E f : Is(f, m)}
<1> HIDE DEF round
<1>1. 0 \in S
  <2>1. Is([n \in 0..0 |-> b], 0)
    OBVIOUS
  <2>2. \E f : Is(f, 0)
    BY <2>1
  <2> QED
    BY <2>2
<1>2. ASSUME NEW m \in 0..N, m # N, m \in S
      PROVE  m + 1 \in S
  <2>1. PICK f : Is(f, m)
    BY <1>2
  <2> DEFINE g == [n \in 0..(m + 1) |-> IF n = m + 1 THEN round(f[m], m + 1) ELSE f[n]]
  <2>2. ASSUME NEW n \in 0..(m + 1) PROVE g[n] = IF n = 0 THEN b ELSE round(g[n - 1], n)
    BY <2>1
  <2>3. Is(g, m + 1)
    BY <2>2
  <2>4. \E f1 : Is(f1, m + 1)
    BY <2>3
  <2> QED
    BY <1>2, <2>4
<1>3. \E f : Is(f, N)
  <2> HIDE DEF S
  <2>1. 0..N \subseteq S
    BY <1>1, <1>2, Induction
  <2>2. N \in S
    BY <2>1
  <2> QED
    BY <2>2 DEF S
<1> QED
  BY <1>3 DEF AfterNames, round

(* Its first value, and one round of it.                                   *)
LEMMA AfterNamesSteps ==
    ASSUME NEW b, NEW rule, NEW arguments, NEW nextRule, Len(rule.names) \in Nat
    PROVE  /\ AfterNames(b, rule, arguments, nextRule)[0] = b
           /\ \A n \in 0..Len(rule.names) :
                 n # Len(rule.names) =>
                    AfterNames(b, rule, arguments, nextRule)[n + 1] =
                        Name(AfterNames(b, rule, arguments, nextRule)[n], rule, n + 1,
                             arguments, nextRule)
<1>1. AfterNames(b, rule, arguments, nextRule)[0] = b
  BY AfterNamesDef
<1>2. ASSUME NEW n \in 0..Len(rule.names), n # Len(rule.names)
      PROVE  AfterNames(b, rule, arguments, nextRule)[n + 1] =
                 Name(AfterNames(b, rule, arguments, nextRule)[n], rule, n + 1,
                      arguments, nextRule)
  <2>1. n + 1 \in 0..Len(rule.names) /\ n + 1 # 0 /\ (n + 1) - 1 = n
    BY <1>2
  <2> QED
    BY <2>1, AfterNamesDef
<1> QED
  BY <1>1, <1>2

(* The first n names: whether one of them is the call's.                   *)
NamesDecide(b, c, rule, n, arguments, nextRule) ==
    \A f : \A call \in SystemCallData :
        Final(f) /\ Completes(c, f) /\ Visits(f, call, NextLine(b), call.nr) =>
            IF NamedBy(rule, call, n) THEN Reaches(f, call, f.labels[arguments])
            ELSE IF n = Len(rule.names) THEN Reaches(f, call, f.labels[nextRule])
            ELSE Visits(f, call, NextLine(c), call.nr)

(* The compiled names decide whether the rule is about the call.           *)
LEMMA AfterNamesIsRight ==
    ASSUME NEW b, WellFormed(b), NEW rule, SoundRule(rule),
           NEW arguments \in Nat, NEW nextRule \in Nat
    PROVE  LET c == AfterNames(b, rule, arguments, nextRule)[Len(rule.names)]
           IN  /\ WellFormed(c) /\ Grows(b, c)
               /\ NamesDecide(b, c, rule, Len(rule.names), arguments, nextRule)
<1> DEFINE N == Len(rule.names)
           after == AfterNames(b, rule, arguments, nextRule)
           S == {n \in 0..N : /\ WellFormed(after[n]) /\ Grows(b, after[n])
                              /\ NamesDecide(b, after[n], rule, n, arguments, nextRule)}
<1>0. N \in Nat /\ N # 0
  BY DEF SoundRule
<1>1. /\ after[0] = b
      /\ \A n \in 0..N : n # N => after[n + 1] = Name(after[n], rule, n + 1, arguments, nextRule)
  BY <1>0, AfterNamesSteps
<1> HIDE DEF after
<1>2. 0 \in S
  <2>1. NamesDecide(b, b, rule, 0, arguments, nextRule)
    BY <1>0 DEF NamesDecide, NamedBy
  <2> QED
    BY <1>0, <1>1, <2>1, GrowsSelf
<1>3. ASSUME NEW n \in 0..N, n # N, n \in S PROVE n + 1 \in S
  <2> DEFINE x == after[n]
             c == Name(x, rule, n + 1, arguments, nextRule)
  <2>0. n + 1 \in 1..N /\ n + 1 \in 0..N
    BY <1>0, <1>3
  <2>1. /\ WellFormed(x) /\ Grows(b, x) /\ after[n + 1] = c
        /\ NamesDecide(b, x, rule, n, arguments, nextRule)
    BY <1>1, <1>3
  <2> HIDE DEF x
  <2>2. WellFormed(c) /\ Grows(x, c) /\ NameDecides(x, c, rule, n + 1, arguments, nextRule)
    BY <2>0, <2>1, NameIsRight
  <2> HIDE DEF c
  <2>3. Grows(b, c)
    BY <2>1, <2>2, GrowsTrans
  <2>4. ASSUME NEW f, NEW call \in SystemCallData, Final(f), Completes(c, f),
               Visits(f, call, NextLine(b), call.nr)
        PROVE  IF NamedBy(rule, call, n + 1) THEN Reaches(f, call, f.labels[arguments])
               ELSE IF n + 1 = N THEN Reaches(f, call, f.labels[nextRule])
               ELSE Visits(f, call, NextLine(c), call.nr)
    <3>1. Completes(x, f)
      BY <2>1, <2>2, <2>4, GrowsCompletes DEF Final
    <3>2. IF NamedBy(rule, call, n) THEN Reaches(f, call, f.labels[arguments])
          ELSE Visits(f, call, NextLine(x), call.nr)
      BY <1>3, <2>1, <2>4, <3>1 DEF NamesDecide
    <3>3. NamedBy(rule, call, n + 1) <=>
              NamedBy(rule, call, n) \/ amd64SystemCalls[rule.names[n + 1]] = call.nr
      <4>1. 1..(n + 1) = 1..n \cup {n + 1}
        BY <1>3
      <4> QED
        BY <4>1, Zenon DEF NamedBy
    <3>4. ASSUME Visits(f, call, NextLine(x), call.nr)
          PROVE  IF amd64SystemCalls[rule.names[n + 1]] = call.nr
                 THEN Reaches(f, call, f.labels[arguments])
                 ELSE IF n + 1 = N THEN Reaches(f, call, f.labels[nextRule])
                 ELSE Visits(f, call, NextLine(c), call.nr)
      BY <2>2, <2>4, <3>4 DEF NameDecides
    <3> QED
      BY <3>2, <3>3, <3>4
  <2>5. NamesDecide(b, c, rule, n + 1, arguments, nextRule)
    BY <2>4 DEF NamesDecide
  <2> QED
    BY <2>0, <2>1, <2>2, <2>3, <2>5
<1>4. N \in S
  <2> HIDE DEF S
  <2>1. 0..N \subseteq S
    BY <1>0, <1>2, <1>3, Induction
  <2> QED
    BY <1>0, <2>1
<1> QED
  BY <1>4 DEF after

(* A rule lets every call pass that it does not name, and decides the      *)
(* calls that it names.                                                    *)
RuleDecides(b, c, rule, deny) ==
    \A f : \A call \in SystemCallData :
        Final(f) /\ Completes(c, f) /\ Reaches(f, call, NextLine(b)) =>
            IF ~NamedBy(rule, call, Len(rule.names)) THEN Reaches(f, call, NextLine(c))
            ELSE IF Meets(rule, call, Len(rule.arguments)) THEN Decision(Linked(f), call) = "allow"
            ELSE Reaches(f, call, f.labels[deny])

(* What the compiler writes for a rule does just that.                     *)
LEMMA RuleIsRight ==
    ASSUME NEW b, WellFormed(b), NEW rule, SoundRule(rule), NEW deny \in Nat
    PROVE  LET c == Rule(b, rule, deny)
           IN  WellFormed(c) /\ Grows(b, c) /\ RuleDecides(b, c, rule, deny)
<1> DEFINE arguments == LastLabel(b) + 1
           nextRule == LastLabel(b) + 2
           n1 == newLabel(b)
           n2 == newLabel(n1)
           l == load(n2, 0)
           d == AfterNames(l, rule, arguments, nextRule)[Len(rule.names)]
           m == mark(d, arguments)
           k == AfterArguments(m, rule, deny)[Len(rule.arguments)]
           allow == Instruction("ret", "allow", 0, 0)
           e == emit(k, allow)
           c == mark(e, nextRule)
<1>1. /\ Len(b.labels) \in Nat /\ arguments \in Nat /\ nextRule \in Nat
      /\ arguments = Len(b.labels) + 1 /\ nextRule = Len(b.labels) + 2
      /\ arguments # nextRule
  BY BuildLengths DEF Lengths, LastLabel
<1>2. /\ WellFormed(n1) /\ Grows(b, n1) /\ Len(n1.labels) = Len(b.labels) + 1
      /\ n1.labels[arguments] = 0 /\ NextLine(n1) = NextLine(b)
  BY <1>1, newLabelGrows DEF NextLine
<1> HIDE DEF arguments, nextRule, n1
<1>3. /\ WellFormed(n2) /\ Grows(n1, n2) /\ Len(n2.labels) = nextRule
      /\ n2.labels[nextRule] = 0 /\ NextLine(n2) = NextLine(b)
  <2>1. Len(n1.labels) + 1 = nextRule
    BY <1>1, <1>2
  <2> QED
    BY <1>2, <2>1, newLabelGrows DEF NextLine
<1> HIDE DEF n2
<1>4. n2.labels[arguments] = 0 /\ Grows(b, n2)
  <2>1. arguments \in 1..Len(n1.labels)
    BY <1>1, <1>2
  <2>2. n2.labels[arguments] = n1.labels[arguments]
    BY <1>3, <2>1, Zenon DEF Grows, Keeps
  <2> QED
    BY <1>2, <1>3, <2>2, GrowsTrans
<1>5. /\ WellFormed(l) /\ Grows(n2, l)
      /\ \A f, call :
            Final(f) /\ Completes(l, f) /\ Reaches(f, call, NextLine(n2)) =>
                Visits(f, call, NextLine(l), Word(call, 0))
  BY <1>3, loadIsRight
<1> HIDE DEF l
<1>6. /\ WellFormed(d) /\ Grows(l, d)
      /\ NamesDecide(l, d, rule, Len(rule.names), arguments, nextRule)
  BY <1>1, <1>5, AfterNamesIsRight
<1> HIDE DEF d
<1>7. /\ Grows(n2, d) /\ Grows(b, d)
      /\ arguments \in 1..Len(d.labels) /\ nextRule \in 1..Len(d.labels)
      /\ d.labels[arguments] = 0 /\ d.labels[nextRule] = 0
  <2>1. Grows(n2, d) /\ Grows(b, d)
    BY <1>3, <1>4, <1>5, <1>6, GrowsTrans
  <2>2. nextRule \in 1..Len(n2.labels) /\ arguments \in 1..Len(n2.labels)
    BY <1>1, <1>3
  <2>3. Len(d.labels) \in Nat /\ Len(n2.labels) <= Len(d.labels)
    BY <1>6, <2>1, BuildLengths DEF Lengths, Grows, Keeps
  <2>4. d.labels[arguments] = n2.labels[arguments] /\ d.labels[nextRule] = n2.labels[nextRule]
    BY <2>1, <2>2, Zenon DEF Grows, Keeps
  <2> QED
    BY <1>1, <1>3, <1>4, <2>1, <2>2, <2>3, <2>4
<1>8. /\ WellFormed(m) /\ Grows(b, m) /\ Completes(d, m)
      /\ Len(m.labels) = Len(d.labels) /\ m.labels[nextRule] = 0
      /\ NextLine(m) = NextLine(d)
      /\ \A f : Completes(m, f) => f.labels[arguments] = NextLine(m)
  <2>1. arguments > Len(b.labels)
    BY <1>1
  <2>2. /\ WellFormed(m) /\ Completes(d, m) /\ Grows(b, m)
        /\ Len(m.labels) = Len(d.labels) /\ m.labels[nextRule] = 0
    BY <1>1, <1>6, <1>7, <2>1, markCompletes
  <2>3. /\ NextLine(m) = NextLine(d)
        /\ \A f : Completes(m, f) => f.labels[arguments] = NextLine(d)
    <3>1. m.program = d.program
      BY <1>6, <1>7, markCompletes
    <3> QED
      BY <1>6, <1>7, <3>1, MarkedLabel DEF NextLine
  <2> QED
    BY <2>2, <2>3
<1> HIDE DEF m
<1>9. /\ WellFormed(k) /\ Grows(m, k)
      /\ ArgumentsDecide(m, k, rule, Len(rule.arguments), deny)
  BY <1>8, AfterArgumentsIsRight
<1> HIDE DEF k
<1>10. allow \in Instructions
  BY InstructionType DEF Codes
<1> HIDE DEF allow
<1>11. /\ WellFormed(e) /\ Grows(k, e)
       /\ ~e.err => Reads(e, NextLine(k), allow)
  BY <1>9, <1>10, emitGrows
<1> HIDE DEF e
<1>12. /\ Grows(m, e) /\ Grows(b, e)
       /\ nextRule \in 1..Len(e.labels) /\ e.labels[nextRule] = 0
  <2>1. Grows(m, e) /\ Grows(b, e)
    BY <1>8, <1>9, <1>11, GrowsTrans
  <2>2. nextRule \in 1..Len(m.labels)
    BY <1>7, <1>8
  <2>3. /\ Len(e.labels) \in Nat /\ Len(m.labels) \in Nat
        /\ Len(m.labels) <= Len(e.labels)
    BY <1>8, <1>11, <2>1, BuildLengths DEF Lengths, Grows, Keeps
  <2>4. e.labels[nextRule] = m.labels[nextRule]
    BY <2>1, <2>2, Zenon DEF Grows, Keeps
  <2> QED
    BY <1>8, <2>1, <2>2, <2>3, <2>4
<1>13. /\ WellFormed(c) /\ Grows(b, c) /\ Completes(e, c)
       /\ NextLine(c) = NextLine(e)
       /\ \A f : Completes(c, f) => f.labels[nextRule] = NextLine(c)
  <2>1. nextRule > Len(b.labels)
    BY <1>1
  <2>2. WellFormed(c) /\ Completes(e, c) /\ Grows(b, c) /\ c.program = e.program
    BY <1>11, <1>12, <2>1, markCompletes
  <2>3. \A f : Completes(c, f) => f.labels[nextRule] = NextLine(e)
    BY <1>11, <1>12, MarkedLabel
  <2> QED
    BY <2>2, <2>3 DEF NextLine
<1> HIDE DEF c
<1>14. ASSUME NEW f, NEW call \in SystemCallData, Final(f), Completes(c, f),
              Reaches(f, call, NextLine(b))
       PROVE  IF ~NamedBy(rule, call, Len(rule.names)) THEN Reaches(f, call, NextLine(c))
              ELSE IF Meets(rule, call, Len(rule.arguments))
              THEN Decision(Linked(f), call) = "allow"
              ELSE Reaches(f, call, f.labels[deny])
  <2>1. WellFormed(f) /\ ~f.err /\ Completes(e, f)
    BY <1>11, <1>13, <1>14, CompletesTrans DEF Final
  <2>2. Completes(k, f) /\ Completes(m, f)
    BY <1>8, <1>9, <1>11, <1>12, <2>1, GrowsCompletes
  <2>3. Completes(d, f)
    BY <1>6, <1>8, <2>1, <2>2, CompletesTrans
  <2>4. Completes(l, f)
    BY <1>5, <1>6, <2>1, <2>3, GrowsCompletes
  <2>5. f.labels[arguments] = NextLine(m) /\ f.labels[nextRule] = NextLine(c)
    BY <1>8, <1>13, <1>14, <2>2
  <2>6. Visits(f, call, NextLine(l), call.nr)
    <3>1. Word(call, 0) = call.nr
      BY DEF Word
    <3>2. Visits(f, call, NextLine(l), Word(call, 0))
      BY <1>3, <1>5, <1>14, <2>4
    <3> QED
      BY <3>1, <3>2
  <2>7. IF NamedBy(rule, call, Len(rule.names)) THEN Reaches(f, call, NextLine(m))
        ELSE Reaches(f, call, NextLine(c))
    BY <1>6, <1>14, <2>3, <2>5, <2>6 DEF NamesDecide
  <2>8. ASSUME Reaches(f, call, NextLine(m))
        PROVE  IF Meets(rule, call, Len(rule.arguments)) THEN Reaches(f, call, NextLine(k))
               ELSE Reaches(f, call, f.labels[deny])
    BY <1>9, <1>14, <2>2, <2>8 DEF ArgumentsDecide
  <2>9. ASSUME Reaches(f, call, NextLine(k))
        PROVE  Decision(Linked(f), call) = "allow"
    <3>1. Reads(f, NextLine(k), allow)
      BY <1>11, <2>1, Kept DEF Completes
    <3> QED
      BY <1>14, <2>9, <3>1, VisitsReturn DEF allow
  <2> QED
    BY <2>7, <2>8, <2>9
<1>15. RuleDecides(b, c, rule, deny)
  BY <1>14 DEF RuleDecides
<1>16. Rule(b, rule, deny) = c
  BY DEF Rule, c, e, allow, k, m, d, l, n2, n1, arguments, nextRule
<1> QED
  BY <1>13, <1>15, <1>16

-----------------------------------------------------------------------------
(* The whole program.                                                      *)

(* What an instruction is emitted for stays in the finished program.       *)
LEMMA EmittedIsRead ==
    ASSUME NEW b, WellFormed(b), NEW instruction \in Instructions
    PROVE  LET c == emit(b, instruction)
           IN  /\ WellFormed(c) /\ Grows(b, c)
               /\ \A f : Final(f) /\ Completes(c, f) =>
                     /\ NextLine(c) = NextLine(b) + 1
                     /\ Reads(f, NextLine(b), instruction)
<1> DEFINE c == emit(b, instruction)
<1>1. /\ WellFormed(c) /\ Grows(b, c)
      /\ ~c.err => NextLine(c) = NextLine(b) + 1 /\ Reads(c, NextLine(b), instruction)
  BY emitGrows
<1> HIDE DEF c
<1>2. ASSUME NEW f, Final(f), Completes(c, f)
      PROVE  NextLine(c) = NextLine(b) + 1 /\ Reads(f, NextLine(b), instruction)
  <2>1. WellFormed(f) /\ ~c.err
    BY <1>2 DEF Final, Completes
  <2> QED
    BY <1>1, <1>2, <2>1, Kept
<1> QED
  BY <1>1, <1>2 DEF c

(* A call of another architecture, or with an x32 number.                  *)
Foreign(call) == call.arch # auditArchAMD64 \/ And(call.nr, x32SystemCallBit) # 0

(* The code from b to c denies the calls of another architecture or ABI.   *)
PreambleDecides(b, c) ==
    \A f : \A call \in SystemCallData :
        Final(f) /\ Completes(c, f) /\ Reaches(f, call, NextLine(b)) =>
            IF Foreign(call) THEN Decision(Linked(f), call) = "deny"
            ELSE Reaches(f, call, NextLine(c))

(* The first instructions of every program deny the foreign calls.         *)
LEMMA PreambleIsRight ==
    ASSUME NEW b, WellFormed(b)
    PROVE  LET c == Preamble(b)
           IN  WellFormed(c) /\ Grows(b, c) /\ PreambleDecides(b, c)
<1> DEFINE arch == Instruction("jeq", auditArchAMD64, 1, 0)
           x32 == Instruction("jset", x32SystemCallBit, 0, 1)
           b1 == load(b, 4)
           b2 == emit(b1, arch)
           b3 == emit(b2, Denial)
           b4 == load(b3, 0)
           b5 == emit(b4, x32)
           c == emit(b5, Denial)
<1>1. arch \in Instructions /\ x32 \in Instructions /\ Denial \in Instructions
  <2>1. x32SystemCallBit \in Int /\ auditArchAMD64 \in Int
    BY WordAssumption, TwoToValues DEF x32SystemCallBit, auditArchAMD64
  <2> QED
    BY <2>1, InstructionType DEF Codes, Denial
<1> HIDE DEF arch, x32
<1>2. /\ WellFormed(b1) /\ Grows(b, b1)
      /\ \A f, call :
            Final(f) /\ Completes(b1, f) /\ Reaches(f, call, NextLine(b)) =>
                Visits(f, call, NextLine(b1), Word(call, 4))
  BY loadIsRight
<1> HIDE DEF b1
<1>3. /\ WellFormed(b2) /\ Grows(b1, b2)
      /\ \A f : Final(f) /\ Completes(b2, f) =>
            NextLine(b2) = NextLine(b1) + 1 /\ Reads(f, NextLine(b1), arch)
  BY <1>1, <1>2, EmittedIsRead
<1> HIDE DEF b2
<1>4. /\ WellFormed(b3) /\ Grows(b2, b3)
      /\ \A f : Final(f) /\ Completes(b3, f) =>
            NextLine(b3) = NextLine(b2) + 1 /\ Reads(f, NextLine(b2), Denial)
  BY <1>1, <1>3, EmittedIsRead
<1> HIDE DEF b3
<1>5. /\ WellFormed(b4) /\ Grows(b3, b4)
      /\ \A f, call :
            Final(f) /\ Completes(b4, f) /\ Reaches(f, call, NextLine(b3)) =>
                Visits(f, call, NextLine(b4), Word(call, 0))
  BY <1>4, loadIsRight
<1> HIDE DEF b4
<1>6. /\ WellFormed(b5) /\ Grows(b4, b5)
      /\ \A f : Final(f) /\ Completes(b5, f) =>
            NextLine(b5) = NextLine(b4) + 1 /\ Reads(f, NextLine(b4), x32)
  BY <1>1, <1>5, EmittedIsRead
<1> HIDE DEF b5
<1>7. /\ WellFormed(c) /\ Grows(b5, c)
      /\ \A f : Final(f) /\ Completes(c, f) =>
            NextLine(c) = NextLine(b5) + 1 /\ Reads(f, NextLine(b5), Denial)
  BY <1>1, <1>6, EmittedIsRead
<1> HIDE DEF c
<1>8. Grows(b, b2) /\ Grows(b, b3) /\ Grows(b, b4) /\ Grows(b, b5) /\ Grows(b, c)
  <2>1. Grows(b, b2)
    BY <1>2, <1>3, GrowsTrans
  <2>2. Grows(b, b3)
    BY <1>3, <1>4, <2>1, GrowsTrans
  <2>3. Grows(b, b4)
    BY <1>4, <1>5, <2>2, GrowsTrans
  <2>4. Grows(b, b5)
    BY <1>5, <1>6, <2>3, GrowsTrans
  <2> QED
    BY <1>6, <1>7, <2>1, <2>2, <2>3, <2>4, GrowsTrans
<1>9. ASSUME NEW f, NEW call \in SystemCallData, Final(f), Completes(c, f),
             Reaches(f, call, NextLine(b))
      PROVE  IF Foreign(call) THEN Decision(Linked(f), call) = "deny"
             ELSE Reaches(f, call, NextLine(c))
  <2>1. WellFormed(f) /\ Completes(b5, f)
    BY <1>6, <1>7, <1>9, GrowsCompletes DEF Final
  <2>2. Completes(b4, f)
    BY <1>5, <1>6, <2>1, GrowsCompletes
  <2>3. Completes(b3, f)
    BY <1>4, <1>5, <2>1, <2>2, GrowsCompletes
  <2>4. Completes(b2, f)
    BY <1>3, <1>4, <2>1, <2>3, GrowsCompletes
  <2>5. Completes(b1, f)
    BY <1>2, <1>3, <2>1, <2>4, GrowsCompletes
  <2>6. /\ NextLine(b2) = NextLine(b1) + 1 + 0 /\ NextLine(b3) = NextLine(b1) + 1 + 1
        /\ NextLine(b5) = NextLine(b4) + 1 + 0 /\ NextLine(c) = NextLine(b4) + 1 + 1
    <3>1. NextLine(b1) \in Int /\ NextLine(b4) \in Int
      BY <1>2, <1>5, BuildLengths DEF Lengths, NextLine
    <3> QED
      BY <1>3, <1>4, <1>6, <1>7, <1>9, <2>1, <2>3, <2>4, <3>1
  <2>7. Word(call, 4) = call.arch /\ Word(call, 0) = call.nr
    BY DEF Word
  <2>8. IF call.arch = auditArchAMD64 THEN Visits(f, call, NextLine(b3), call.arch)
        ELSE Visits(f, call, NextLine(b2), call.arch)
    <3>1. Visits(f, call, NextLine(b1), call.arch)
      BY <1>2, <1>9, <2>5, <2>7
    <3>2. Reads(f, NextLine(b1), Instruction("jeq", auditArchAMD64, 1, 0))
      BY <1>3, <1>9, <2>4 DEF arch
    <3>3. IF Taken("jeq", auditArchAMD64, call.arch)
          THEN Visits(f, call, NextLine(b1) + 1 + 1, call.arch)
          ELSE Visits(f, call, NextLine(b1) + 1 + 0, call.arch)
      BY <1>9, <3>1, <3>2, VisitsBranch DEF Branches
    <3> QED
      BY <2>6, <3>3 DEF Taken
  <2>9. CASE call.arch # auditArchAMD64
    <3>1. Reads(f, NextLine(b2), Instruction("ret", "deny", 0, 0))
      BY <1>4, <1>9, <2>3 DEF Denial
    <3> QED
      BY <1>9, <2>8, <2>9, <3>1, VisitsReturn DEF Reaches, Foreign
  <2>10. CASE call.arch = auditArchAMD64
    <3>1. Visits(f, call, NextLine(b4), call.nr)
      BY <1>5, <1>9, <2>2, <2>7, <2>8, <2>10 DEF Reaches
    <3>2. Reads(f, NextLine(b4), Instruction("jset", x32SystemCallBit, 0, 1))
      BY <1>6, <1>9, <2>1 DEF x32
    <3>3. IF Taken("jset", x32SystemCallBit, call.nr)
          THEN Visits(f, call, NextLine(b4) + 1 + 0, call.nr)
          ELSE Visits(f, call, NextLine(b4) + 1 + 1, call.nr)
      BY <1>9, <3>1, <3>2, VisitsBranch DEF Branches
    <3>4. IF And(call.nr, x32SystemCallBit) # 0 THEN Reaches(f, call, NextLine(b5))
          ELSE Reaches(f, call, NextLine(c))
      BY <2>6, <3>3 DEF Taken, Reaches
    <3>5. Reads(f, NextLine(b5), Instruction("ret", "deny", 0, 0))
      BY <1>7, <1>9 DEF Denial
    <3>6. Reaches(f, call, NextLine(b5)) => Decision(Linked(f), call) = "deny"
      BY <1>9, <3>5, VisitsReturn
    <3> QED
      BY <2>10, <3>4, <3>6 DEF Foreign
  <2> QED
    BY <2>9, <2>10
<1>10. PreambleDecides(b, c)
  BY <1>9 DEF PreambleDecides
<1>11. Preamble(b) = c
  BY DEF Preamble, c, b5, b4, b3, b2, b1, arch, x32
<1> QED
  BY <1>7, <1>8, <1>10, <1>11

(* The loop over the rules is what its definition says.                    *)
LEMMA AfterRulesDef ==
    ASSUME NEW policy, Len(policy) \in Nat
    PROVE  AfterRules(policy) =
               [n \in 0..Len(policy) |->
                   IF n = 0 THEN Preamble(newLabel(Assembler))
                   ELSE Rule(AfterRules(policy)[n - 1], policy[n], 1)]
<1> DEFINE N == Len(policy)
           b == Preamble(newLabel(Assembler))
           round(x, n) == Rule(x, policy[n], 1)
           Is(f, m) == f = [n \in 0..m |-> IF n = 0 THEN b ELSE round(f[n - 1], n)]
           S == {m \in 0..N : \E f : Is(f, m)}
<1> HIDE DEF round, b
<1>1. 0 \in S
  <2>1. Is([n \in 0..0 |-> b], 0)
    OBVIOUS
  <2>2. \E f : Is(f, 0)
    BY <2>1
  <2> QED
    BY <2>2
<1>2. ASSUME NEW m \in 0..N, m # N, m \in S
      PROVE  m + 1 \in S
  <2>1. PICK f : Is(f, m)
    BY <1>2
  <2> DEFINE g == [n \in 0..(m + 1) |-> IF n = m + 1 THEN round(f[m], m + 1) ELSE f[n]]
  <2>2. ASSUME NEW n \in 0..(m + 1) PROVE g[n] = IF n = 0 THEN b ELSE round(g[n - 1], n)
    BY <2>1
  <2>3. Is(g, m + 1)
    BY <2>2
  <2>4. \E f1 : Is(f1, m + 1)
    BY <2>3
  <2> QED
    BY <1>2, <2>4
<1>3. \E f : Is(f, N)
  <2> HIDE DEF S
  <2>1. 0..N \subseteq S
    BY <1>1, <1>2, Induction
  <2>2. N \in S
    BY <2>1
  <2> QED
    BY <2>2 DEF S
<1> QED
  BY <1>3 DEF AfterRules, round, b

(* Its first value, and one round of it.                                   *)
LEMMA AfterRulesSteps ==
    ASSUME NEW policy, Len(policy) \in Nat
    PROVE  /\ AfterRules(policy)[0] = Preamble(newLabel(Assembler))
           /\ \A n \in 0..Len(policy) :
                 n # Len(policy) =>
                    AfterRules(policy)[n + 1] = Rule(AfterRules(policy)[n], policy[n + 1], 1)
<1>1. AfterRules(policy)[0] = Preamble(newLabel(Assembler))
  BY AfterRulesDef
<1>2. ASSUME NEW n \in 0..Len(policy), n # Len(policy)
      PROVE  AfterRules(policy)[n + 1] = Rule(AfterRules(policy)[n], policy[n + 1], 1)
  <2>1. n + 1 \in 0..Len(policy) /\ n + 1 # 0 /\ (n + 1) - 1 = n
    BY <1>2
  <2> QED
    BY <2>1, AfterRulesDef
<1> QED
  BY <1>1, <1>2

(* All the rules of a policy that parses.                                  *)
SoundPolicy(policy) ==
    Len(policy) \in Nat /\ \A i \in 1..Len(policy) : SoundRule(policy[i])

(* The rule names the call.                                                *)
About(rule, call) == NamedBy(rule, call, Len(rule.names))

(* The first n rules: the first one about a call decides it.               *)
RulesDecide(b, c, policy, n) ==
    \A f : \A call \in SystemCallData :
        Final(f) /\ Completes(c, f) /\ Reaches(f, call, NextLine(b)) /\ ~Foreign(call) =>
            /\ (\A i \in 1..n : ~About(policy[i], call)) => Reaches(f, call, NextLine(c))
            /\ \A i \in 1..n :
                  About(policy[i], call) /\ (\A j \in 1..(i - 1) : ~About(policy[j], call)) =>
                      IF Meets(policy[i], call, Len(policy[i].arguments))
                      THEN Decision(Linked(f), call) = "allow"
                      ELSE Reaches(f, call, f.labels[1])

(* A build with one label, the denial's, and no instruction.               *)
LEMMA FirstLabel ==
    LET b == newLabel(Assembler)
    IN  WellFormed(b) /\ NextLine(b) = 1 /\ Len(b.labels) = 1 /\ b.labels[1] = 0
<1> DEFINE a == Assembler
<1>1. /\ a.program = <<>> /\ a.labels = <<>> /\ a.jumps = <<>> /\ a.err = FALSE
      /\ a \in Builds
  BY DEF Assembler, Builds
<1>2. WellFormed(a)
  BY <1>1 DEF WellFormed
<1>3. Len(a.labels) = 0 /\ Len(a.program) = 0
  BY <1>1
<1> HIDE DEF a
<1>4. /\ WellFormed(newLabel(a)) /\ Len(newLabel(a).labels) = 1
      /\ newLabel(a).labels[1] = 0 /\ NextLine(newLabel(a)) = 1
  <2>1. Len(a.labels) + 1 = 1 /\ Len(a.program) + 1 = 1
    BY <1>3
  <2> QED
    BY <1>2, <2>1, newLabelGrows DEF NextLine
<1> QED
  BY <1>4 DEF a

(* A call that is not foreign is decided by the first rule about it.       *)
LEMMA AfterRulesIsRight ==
    ASSUME NEW policy, SoundPolicy(policy)
    PROVE  LET b == newLabel(Assembler)
               c == AfterRules(policy)[Len(policy)]
           IN  /\ WellFormed(c) /\ Grows(b, c) /\ Completes(Preamble(b), c)
               /\ RulesDecide(b, c, policy, Len(policy))
<1> DEFINE N == Len(policy)
           b == newLabel(Assembler)
           p == Preamble(b)
           after == AfterRules(policy)
           S == {n \in 0..N : /\ WellFormed(after[n]) /\ Grows(b, after[n])
                              /\ Grows(p, after[n])
                              /\ RulesDecide(b, after[n], policy, n)}
<1>0. N \in Nat
  BY DEF SoundPolicy
<1>1. /\ after[0] = p
      /\ \A n \in 0..N : n # N => after[n + 1] = Rule(after[n], policy[n + 1], 1)
  BY <1>0, AfterRulesSteps
<1>a. WellFormed(b)
  BY FirstLabel
<1> HIDE DEF after, b
<1>b. WellFormed(p) /\ Grows(b, p) /\ PreambleDecides(b, p)
  BY <1>a, PreambleIsRight
<1> HIDE DEF p
<1>2. 0 \in S
  <2>1. RulesDecide(b, p, policy, 0)
    BY <1>b DEF RulesDecide, PreambleDecides
  <2> QED
    BY <1>0, <1>1, <1>b, <2>1, GrowsSelf
<1>3. ASSUME NEW n \in 0..N, n # N, n \in S PROVE n + 1 \in S
  <2> DEFINE x == after[n]
             rule == policy[n + 1]
             c == Rule(x, rule, 1)
  <2>0. n + 1 \in 1..N /\ n + 1 \in 0..N
    BY <1>0, <1>3
  <2>1. /\ WellFormed(x) /\ Grows(b, x) /\ Grows(p, x) /\ after[n + 1] = c
        /\ RulesDecide(b, x, policy, n)
    BY <1>1, <1>3
  <2>2. SoundRule(rule)
    BY <2>0 DEF SoundPolicy
  <2> HIDE DEF x, rule
  <2>3. WellFormed(c) /\ Grows(x, c) /\ RuleDecides(x, c, rule, 1)
    BY <2>1, <2>2, RuleIsRight
  <2> HIDE DEF c
  <2>4. Grows(b, c) /\ Grows(p, c)
    BY <1>a, <1>b, <2>1, <2>3, GrowsTrans
  <2>5. ASSUME NEW f, NEW call \in SystemCallData, Final(f), Completes(c, f),
               Reaches(f, call, NextLine(b)), ~Foreign(call)
        PROVE  /\ (\A i \in 1..(n + 1) : ~About(policy[i], call)) => Reaches(f, call, NextLine(c))
               /\ \A i \in 1..(n + 1) :
                     About(policy[i], call) /\ (\A j \in 1..(i - 1) : ~About(policy[j], call)) =>
                         IF Meets(policy[i], call, Len(policy[i].arguments))
                         THEN Decision(Linked(f), call) = "allow"
                         ELSE Reaches(f, call, f.labels[1])
    <3>1. Completes(x, f)
      BY <2>1, <2>3, <2>5, GrowsCompletes DEF Final
    <3>2. /\ (\A i \in 1..n : ~About(policy[i], call)) => Reaches(f, call, NextLine(x))
          /\ \A i \in 1..n :
                About(policy[i], call) /\ (\A j \in 1..(i - 1) : ~About(policy[j], call)) =>
                    IF Meets(policy[i], call, Len(policy[i].arguments))
                    THEN Decision(Linked(f), call) = "allow"
                    ELSE Reaches(f, call, f.labels[1])
      BY <2>1, <2>5, <3>1 DEF RulesDecide
    <3>3. Reaches(f, call, NextLine(x)) =>
              IF ~About(rule, call) THEN Reaches(f, call, NextLine(c))
              ELSE IF Meets(rule, call, Len(rule.arguments))
              THEN Decision(Linked(f), call) = "allow"
              ELSE Reaches(f, call, f.labels[1])
      BY <2>3, <2>5 DEF RuleDecides, About
    <3>4. 1..(n + 1) = 1..n \cup {n + 1} /\ (n + 1) - 1 = n
      BY <1>3
    <3>5. (\A i \in 1..(n + 1) : ~About(policy[i], call)) => Reaches(f, call, NextLine(c))
      BY <3>2, <3>3, <3>4 DEF rule
    <3>6. ASSUME NEW i \in 1..(n + 1), About(policy[i], call),
                 \A j \in 1..(i - 1) : ~About(policy[j], call)
          PROVE  IF Meets(policy[i], call, Len(policy[i].arguments))
                 THEN Decision(Linked(f), call) = "allow"
                 ELSE Reaches(f, call, f.labels[1])
      <4>1. CASE i \in 1..n
        BY <3>2, <3>6, <4>1, Zenon
      <4>2. CASE i = n + 1
        <5>1. Reaches(f, call, NextLine(x)) /\ About(rule, call)
          BY <3>2, <3>4, <3>6, <4>2 DEF rule
        <5> QED
          BY <3>3, <4>2, <5>1 DEF rule
      <4> QED
        BY <3>4, <4>1, <4>2
    <3> QED
      BY <3>5, <3>6
  <2>6. RulesDecide(b, c, policy, n + 1)
    BY <2>5 DEF RulesDecide
  <2> QED
    BY <2>0, <2>1, <2>3, <2>4, <2>6
<1>4. N \in S
  <2> HIDE DEF S
  <2>1. 0..N \subseteq S
    BY <1>0, <1>2, <1>3, Induction
  <2> QED
    BY <1>0, <2>1
<1>5. Completes(p, after[N])
  BY <1>4, <1>b, GrowsIsCompletes
<1> QED
  BY <1>4, <1>5 DEF after, b, p

(* The program denies the foreign calls and the calls that no rule is      *)
(* about, and leaves the others to the first rule about them.              *)
LEMMA ProgramIsRight ==
    ASSUME NEW policy, SoundPolicy(policy), Compiles(policy), NEW call \in SystemCallData
    PROVE  LET decision == Decision(compileInstructions(policy), call)
           IN  /\ Foreign(call) => decision = "deny"
               /\ ~Foreign(call) =>
                     /\ (\A i \in 1..Len(policy) : ~About(policy[i], call)) => decision = "deny"
                     /\ \A i \in 1..Len(policy) :
                           About(policy[i], call) /\ (\A j \in 1..(i - 1) : ~About(policy[j], call))
                           => decision = IF Meets(policy[i], call, Len(policy[i].arguments))
                                         THEN "allow" ELSE "deny"
<1> DEFINE N == Len(policy)
           b == newLabel(Assembler)
           p == Preamble(b)
           a == AfterRules(policy)[N]
           m == mark(a, 1)
           f == emit(m, Denial)
<1>1. WellFormed(b) /\ NextLine(b) = 1 /\ Len(b.labels) = 1 /\ b.labels[1] = 0
  BY FirstLabel
<1>2. WellFormed(a) /\ Grows(b, a) /\ Completes(p, a) /\ RulesDecide(b, a, policy, N)
  BY AfterRulesIsRight
<1>3. f = Assembled(policy)
  BY DEF Assembled
<1> HIDE DEF a, b
<1>4. WellFormed(p) /\ PreambleDecides(b, p)
  BY <1>1, PreambleIsRight
<1> HIDE DEF p
<1>5. 1 \in 1..Len(a.labels) /\ a.labels[1] = 0
  <2>1. Len(a.labels) \in Nat /\ Len(b.labels) <= Len(a.labels)
    BY <1>2, BuildLengths DEF Lengths, Grows, Keeps
  <2>2. 1 \in 1..Len(b.labels)
    BY <1>1
  <2>3. a.labels[1] = b.labels[1]
    BY <1>2, <2>2, Zenon DEF Grows, Keeps
  <2> QED
    BY <1>1, <2>1, <2>3
<1>6. WellFormed(m) /\ Completes(a, m)
  BY <1>2, <1>5, markCompletes
<1>7. \A g : Completes(m, g) => g.labels[1] = NextLine(m)
  BY <1>2, <1>5, MarkedLabel
<1>8. NextLine(m) = NextLine(a)
  <2>1. m.program = a.program
    BY <1>2, <1>5, markCompletes
  <2> QED
    BY <2>1 DEF NextLine
<1> HIDE DEF m
<1>9. Denial \in Instructions
  BY InstructionType DEF Codes, Denial
<1>10. /\ WellFormed(f) /\ Grows(m, f)
       /\ ~f.err => Reads(f, NextLine(m), Denial)
  BY <1>6, <1>9, emitGrows
<1>11. Final(f) /\ ~f.err
  BY <1>3, <1>10 DEF Compiles, Final
<1> HIDE DEF f
<1>12. Completes(m, f) /\ Completes(a, f) /\ Completes(p, f)
  <2>1. Completes(m, f)
    BY <1>6, <1>10, GrowsIsCompletes
  <2>2. Completes(a, f)
    BY <1>2, <1>6, <1>10, <2>1, CompletesTrans
  <2> QED
    BY <1>2, <1>4, <1>10, <2>1, <2>2, CompletesTrans
<1>13. Reaches(f, call, NextLine(b))
  BY <1>1, <1>11, VisitsFirst DEF Reaches
<1>14. Reaches(f, call, NextLine(m)) => Decision(Linked(f), call) = "deny"
  <2>1. Reads(f, NextLine(m), Instruction("ret", "deny", 0, 0))
    BY <1>10, <1>11 DEF Denial
  <2> QED
    BY <1>11, <2>1, VisitsReturn
<1>15. f.labels[1] = NextLine(m)
  BY <1>7, <1>12
<1>16. Foreign(call) => Decision(Linked(f), call) = "deny"
  BY <1>4, <1>11, <1>12, <1>13 DEF PreambleDecides
<1>17. ASSUME ~Foreign(call)
       PROVE  /\ (\A i \in 1..N : ~About(policy[i], call)) => Reaches(f, call, NextLine(m))
              /\ \A i \in 1..N :
                    About(policy[i], call) /\ (\A j \in 1..(i - 1) : ~About(policy[j], call)) =>
                        IF Meets(policy[i], call, Len(policy[i].arguments))
                        THEN Decision(Linked(f), call) = "allow"
                        ELSE Reaches(f, call, NextLine(m))
  BY <1>2, <1>8, <1>11, <1>12, <1>13, <1>15, <1>17 DEF RulesDecide
<1>18. compileInstructions(policy) = Linked(f)
  BY <1>3 DEF compileInstructions
<1> QED
  BY <1>14, <1>16, <1>17, <1>18

-----------------------------------------------------------------------------
(* What a valid policy is about.                                           *)

(* An increasing sequence increases from any place to any later one.       *)
LEMMA IncreasingFurther ==
    ASSUME NEW s \in Seq(Nat), Increasing(s), NEW i \in 1..Len(s), NEW j \in 1..Len(s), i <= j
    PROVE  /\ s[i] \in Nat /\ s[j] \in Nat
           /\ s[i] <= s[j]
           /\ i # j => s[i] < s[j]
<1> DEFINE N == Len(s)
           S == {n \in 0..N : \A k \in 1..N : i <= k /\ k <= n =>
                                 s[i] <= s[k] /\ (i # k => s[i] < s[k])}
<1>1. N \in Nat /\ \A k \in 1..N : s[k] \in Nat
  OBVIOUS
<1>2. 0 \in S
  BY <1>1
<1>3. ASSUME NEW n \in 0..N, n # N, n \in S PROVE n + 1 \in S
  <2>1. ASSUME NEW k \in 1..N, i <= k, k <= n + 1
        PROVE  s[i] <= s[k] /\ (i # k => s[i] < s[k])
    <3>1. CASE k <= n
      BY <1>3, <2>1, <3>1
    <3>2. CASE k = i
      BY <1>1, <3>2
    <3>3. CASE k = n + 1 /\ k # i
      <4>1. n \in 1..N /\ i <= n /\ n \in 1..(Len(s) - 1) /\ i \in 1..N
        BY <1>1, <1>3, <2>1, <3>3
      <4>2. s[n] < s[n + 1]
        BY <4>1 DEF Increasing
      <4>3. s[i] <= s[n]
        BY <1>3, <4>1
      <4>4. s[i] \in Nat /\ s[n] \in Nat /\ s[n + 1] \in Nat
        BY <1>1, <2>1, <3>3, <4>1
      <4>5. \A x, y, z \in Nat : x <= y /\ y < z => x <= z /\ x < z
        OBVIOUS
      <4> QED
        BY <3>3, <4>2, <4>3, <4>4, <4>5, Zenon
    <3> QED
      BY <1>1, <1>3, <2>1, <3>1, <3>2, <3>3
  <2>2. n + 1 \in 0..N
    BY <1>1, <1>3
  <2> QED
    BY <2>1, <2>2
<1>4. 0..N \subseteq S
  <2> HIDE DEF S
  <2> QED
    BY <1>1, <1>2, <1>3, Induction
<1>5. j \in S /\ i \in 1..N /\ j \in 1..N
  BY <1>4
<1> QED
  BY <1>1, <1>5

(* What a rule of a policy is made of.                                     *)
LEMMA RuleTypes ==
    ASSUME NEW policy \in Policies, NEW i \in 1..Len(policy)
    PROVE  /\ policy[i].names \in Seq(Nat)
           /\ policy[i].arguments \in Seq([index : Nat, operator : STRING,
                                           value : Words \X Words, mask : Words \X Words])
<1> DEFINE A == Seq([index : Nat, operator : STRING, value : Words \X Words,
                     mask : Words \X Words])
           Rules == [names : Seq(Nat), arguments : A]
<1>1. policy \in Seq(Rules)
  BY DEF Policies
<1> HIDE DEF A
<1>2. policy[i] \in Rules
  <2> HIDE DEF Rules
  <2> QED
    BY <1>1
<1>3. policy[i].names \in Seq(Nat) /\ policy[i].arguments \in A
  BY <1>2
<1> QED
  BY <1>3 DEF A

(* A name belongs to one rule.                                             *)
LEMMA OneRule ==
    ASSUME NEW policy \in Policies, validate(policy),
           NEW i \in 1..Len(policy), NEW j \in 1..Len(policy), i < j,
           NEW m \in 1..Len(policy[i].names), NEW n \in 1..Len(policy[j].names)
    PROVE  policy[i].names[m] < policy[j].names[n]
<1> DEFINE N == Len(policy)
           h == [k \in 1..N |-> Last(policy[k].names)]
<1>1. N \in Nat /\ DOMAIN policy = 1..N
  BY DEF Policies
<1>2. ASSUME NEW k \in 1..N
      PROVE  /\ policy[k].names \in Seq(Nat) /\ Len(policy[k].names) \in Nat
             /\ 1 \in 1..Len(policy[k].names)
             /\ Len(policy[k].names) \in 1..Len(policy[k].names)
             /\ Increasing(policy[k].names)
             /\ Head(policy[k].names) = policy[k].names[1]
             /\ Last(policy[k].names) = policy[k].names[Len(policy[k].names)]
  <2>1. policy[k].names \in Seq(Nat)
    BY <1>2, RuleTypes
  <2>2. policy[k].names # <<>> /\ Increasing(policy[k].names)
    BY <1>1, <1>2 DEF validate, ValidRule
  <2> QED
    BY <2>1, <2>2 DEF Last
<1>3. ASSUME NEW k \in 1..N, NEW l \in 1..Len(policy[k].names)
      PROVE  /\ policy[k].names[l] \in Nat
             /\ Head(policy[k].names) \in Nat /\ Last(policy[k].names) \in Nat
             /\ Head(policy[k].names) <= policy[k].names[l]
             /\ policy[k].names[l] <= Last(policy[k].names)
  <2> DEFINE s == policy[k].names
  <2>1. /\ s \in Seq(Nat) /\ Len(s) \in Nat /\ 1 \in 1..Len(s) /\ Len(s) \in 1..Len(s)
        /\ Increasing(s) /\ Head(s) = s[1] /\ Last(s) = s[Len(s)] /\ l \in 1..Len(s)
    BY <1>2
  <2> HIDE DEF s
  <2>2. 1 <= l /\ l <= Len(s)
    BY <2>1
  <2>3. /\ s[1] \in Nat /\ s[l] \in Nat /\ s[1] <= s[l]
        /\ s[Len(s)] \in Nat /\ s[l] <= s[Len(s)]
    BY <2>1, <2>2, IncreasingFurther
  <2> QED
    BY <2>1, <2>3 DEF s
<1>4. \A k \in 1..N : h[k] \in Nat
  BY <1>2, <1>3
<1>5. h \in Seq(Nat) /\ Len(h) = N
  BY <1>1, <1>4
<1>6. Increasing(h)
  <2>1. ASSUME NEW k \in 1..(N - 1) PROVE h[k] < h[k + 1]
    <3>1. k \in 1..N /\ k + 1 \in 1..N /\ k \in 1..(Len(policy) - 1)
      BY <1>1
    <3>2. Last(policy[k].names) < Head(policy[k + 1].names)
      BY <3>1 DEF validate
    <3>3. /\ Head(policy[k + 1].names) \in Nat /\ Last(policy[k + 1].names) \in Nat
          /\ Head(policy[k + 1].names) <= Last(policy[k + 1].names)
          /\ Last(policy[k].names) \in Nat
      BY <1>2, <1>3, <3>1
    <3> QED
      BY <3>1, <3>2, <3>3
  <2> QED
    BY <1>5, <2>1 DEF Increasing
<1>7. j - 1 \in 1..N /\ i <= j - 1 /\ (j - 1) + 1 = j /\ j - 1 \in 1..(Len(policy) - 1)
      /\ i \in 1..N /\ j \in 1..N
  BY <1>1
<1>8. Last(policy[i].names) <= Last(policy[j - 1].names)
  <2>1. h[i] <= h[j - 1]
    <3> HIDE DEF h
    <3> QED
      BY <1>5, <1>6, <1>7, IncreasingFurther
  <2> QED
    BY <1>7, <2>1
<1>9. Last(policy[j - 1].names) < Head(policy[j].names)
  BY <1>7 DEF validate
<1>10. /\ policy[i].names[m] \in Nat /\ policy[i].names[m] <= Last(policy[i].names)
       /\ policy[j].names[n] \in Nat /\ Head(policy[j].names) <= policy[j].names[n]
       /\ Last(policy[i].names) \in Nat /\ Last(policy[j - 1].names) \in Nat
       /\ Head(policy[j].names) \in Nat
  BY <1>2, <1>3, <1>7
<1>11. \A v, a, b, c, w \in Nat : v <= a /\ a <= b /\ b < c /\ c <= w => v < w
  OBVIOUS
<1> QED
  BY <1>8, <1>9, <1>10, <1>11, Zenon

(* The compiler's assumptions hold of a valid policy.                      *)
LEMMA ValidIsSound ==
    ASSUME NEW policy \in Policies, validate(policy)
    PROVE  /\ SoundPolicy(policy) /\ DOMAIN policy = 1..Len(policy)
           /\ \A i \in 1..Len(policy) :
                 /\ DOMAIN policy[i].names = 1..Len(policy[i].names)
                 /\ DOMAIN policy[i].arguments = 1..Len(policy[i].arguments)
<1> DEFINE Arguments == [index : Nat, operator : STRING,
                         value : Words \X Words, mask : Words \X Words]
<1>1. Len(policy) \in Nat /\ DOMAIN policy = 1..Len(policy)
  BY DEF Policies
<1>2. ASSUME NEW i \in 1..Len(policy)
      PROVE  /\ SoundRule(policy[i])
             /\ DOMAIN policy[i].names = 1..Len(policy[i].names)
             /\ DOMAIN policy[i].arguments = 1..Len(policy[i].arguments)
  <2> DEFINE rule == policy[i]
  <2>1. rule.names \in Seq(Nat) /\ rule.arguments \in Seq(Arguments)
    BY <1>2, RuleTypes
  <2>2. ValidRule(rule)
    BY <1>1, <1>2 DEF validate
  <2> HIDE DEF rule, Arguments
  <2>3. /\ Len(rule.names) \in Nat \ {0} /\ DOMAIN rule.names = 1..Len(rule.names)
        /\ Len(rule.arguments) \in Nat /\ DOMAIN rule.arguments = 1..Len(rule.arguments)
    BY <2>1, <2>2 DEF ValidRule
  <2>4. \A k \in 1..Len(rule.names) : rule.names[k] \in Names
    BY <2>2, <2>3 DEF ValidRule, Range
  <2>5. ASSUME NEW k \in 1..Len(rule.arguments)
        PROVE  TypedArgument(rule.arguments[k]) /\ rule.arguments[k].index \in 0..5
    <3> DEFINE argument == rule.arguments[k]
    <3>1. argument \in Arguments
      BY <2>1
    <3>2. ValidArgument(argument)
      BY <2>2, <2>3 DEF ValidRule, Range
    <3> HIDE DEF argument
    <3>3. /\ argument.index \in Nat
          /\ argument.value \in Words \X Words /\ argument.mask \in Words \X Words
      BY <3>1 DEF Arguments
    <3>4. argument.index \in 0..5 /\ argument.operator \in Comparisons \cup {"masked-equal"}
      BY <3>2 DEF ValidArgument
    <3> QED
      BY <3>3, <3>4 DEF TypedArgument, argument
  <2> QED
    BY <2>3, <2>4, <2>5 DEF SoundRule, rule
<1> QED
  BY <1>1, <1>2 DEF SoundPolicy

(* The compiler is right: the filter of a policy that Parse accepts        *)
(* decides every call the way the policy reads.                            *)
THEOREM CompilerIsRight ==
    ASSUME NEW policy \in Policies, Parse(policy), NEW call \in SystemCallData
    PROVE  Enforces(compileInstructions(policy), policy, call)
<1> DEFINE N == Len(policy)
           decision == Decision(compileInstructions(policy), call)
<1>1. validate(policy) /\ Compiles(policy)
  BY DEF Parse
<1>2. /\ SoundPolicy(policy) /\ DOMAIN policy = 1..N
      /\ \A i \in 1..N : /\ DOMAIN policy[i].names = 1..Len(policy[i].names)
                         /\ DOMAIN policy[i].arguments = 1..Len(policy[i].arguments)
  BY <1>1, ValidIsSound
<1>3. /\ Foreign(call) => decision = "deny"
      /\ ~Foreign(call) =>
            /\ (\A i \in 1..N : ~About(policy[i], call)) => decision = "deny"
            /\ \A i \in 1..N :
                  About(policy[i], call) /\ (\A j \in 1..(i - 1) : ~About(policy[j], call))
                  => decision = IF Meets(policy[i], call, Len(policy[i].arguments))
                                THEN "allow" ELSE "deny"
  BY <1>1, <1>2, ProgramIsRight
<1> HIDE DEF decision
<1>4. ASSUME NEW i \in 1..N
      PROVE  /\ About(policy[i], call) <=>
                    \E name \in Range(policy[i].names) : amd64SystemCalls[name] = call.nr
             /\ Meets(policy[i], call, Len(policy[i].arguments)) <=>
                    \A argument \in Range(policy[i].arguments) :
                        Holds(argument, call.arguments[argument.index + 1])
  <2>1. /\ DOMAIN policy[i].names = 1..Len(policy[i].names)
        /\ DOMAIN policy[i].arguments = 1..Len(policy[i].arguments)
    BY <1>2
  <2> DEFINE names == policy[i].names
             arguments == policy[i].arguments
  <2>2. About(policy[i], call) <=> \E name \in Range(names) : amd64SystemCalls[name] = call.nr
    BY <2>1, Zenon DEF About, NamedBy, Range
  <2>3. Meets(policy[i], call, Len(arguments)) <=>
            \A argument \in Range(arguments) : Holds(argument, call.arguments[argument.index + 1])
    BY <2>1, Zenon DEF Meets, Range
  <2> QED
    BY <2>2, <2>3
<1>5. Allows(policy, call) <=>
          /\ call.arch = auditArchAMD64
          /\ \E i \in 1..N : /\ About(policy[i], call)
                             /\ Meets(policy[i], call, Len(policy[i].arguments))
  <2> DEFINE Fits(rule) ==
                /\ \E name \in Range(rule.names) : amd64SystemCalls[name] = call.nr
                /\ \A argument \in Range(rule.arguments) :
                      Holds(argument, call.arguments[argument.index + 1])
  <2>1. \A i \in 1..N : Fits(policy[i]) <=> /\ About(policy[i], call)
                                            /\ Meets(policy[i], call, Len(policy[i].arguments))
    BY <1>4
  <2>2. Allows(policy, call) <=>
            call.arch = auditArchAMD64 /\ \E rule \in Range(policy) : Fits(rule)
    BY DEF Allows
  <2> HIDE DEF Fits
  <2>3. (\E rule \in Range(policy) : Fits(rule)) <=> \E i \in 1..N : Fits(policy[i])
    BY <1>2 DEF Range
  <2> QED
    BY <2>1, <2>2, <2>3
<1>6. ASSUME NEW i \in 1..N, About(policy[i], call)
      PROVE  And(call.nr, x32SystemCallBit) = 0
  <2>1. PICK m \in 1..Len(policy[i].names) : amd64SystemCalls[policy[i].names[m]] = call.nr
    BY <1>6 DEF About, NamedBy
  <2>2. policy[i].names[m] \in DOMAIN amd64SystemCalls
    BY <1>2 DEF SoundPolicy, SoundRule, Names
  <2>3. amd64SystemCalls \in Seq(0..(x32SystemCallBit - 1))
    BY SystemCallAssumption
  <2>4. \A T : \A q \in Seq(T) : \A j \in DOMAIN q : q[j] \in T
    OBVIOUS
  <2>5. call.nr \in 0..(x32SystemCallBit - 1)
    BY <2>1, <2>2, <2>3, <2>4, Zenon
  <2> QED
    BY <2>5, NoX32Bit
<1>7. ASSUME NEW i \in 1..N, NEW j \in 1..N, About(policy[i], call), About(policy[j], call)
      PROVE  i = j
  <2>1. PICK m \in 1..Len(policy[i].names) : amd64SystemCalls[policy[i].names[m]] = call.nr
    BY <1>7 DEF About, NamedBy
  <2>2. PICK n \in 1..Len(policy[j].names) : amd64SystemCalls[policy[j].names[n]] = call.nr
    BY <1>7 DEF About, NamedBy
  <2>3. policy[i].names[m] \in DOMAIN amd64SystemCalls
    BY <1>2 DEF SoundPolicy, SoundRule, Names
  <2>4. policy[j].names[n] \in DOMAIN amd64SystemCalls
    BY <1>2 DEF SoundPolicy, SoundRule, Names
  <2>5. policy[i].names[m] = policy[j].names[n]
    BY <2>1, <2>2, <2>3, <2>4, SystemCallAssumption DEF IsInjective
  <2>6. policy[i].names[m] \in Nat
    <3>1. DOMAIN amd64SystemCalls \subseteq Nat
      BY SystemCallAssumption
    <3> QED
      BY <2>3, <3>1
  <2>7. ~(i < j)
    <3> SUFFICES ASSUME i < j PROVE FALSE
      OBVIOUS
    <3>1. policy[i].names[m] < policy[j].names[n]
      BY <1>1, OneRule
    <3> QED
      BY <2>5, <2>6, <3>1
  <2>8. ~(j < i)
    <3> SUFFICES ASSUME j < i PROVE FALSE
      OBVIOUS
    <3>1. policy[j].names[n] < policy[i].names[m]
      BY <1>1, OneRule
    <3> QED
      BY <2>5, <2>6, <3>1
  <2> QED
    BY <2>7, <2>8
<1>8. decision = IF Allows(policy, call) THEN "allow" ELSE "deny"
  <2>1. CASE Foreign(call)
    BY <1>3, <1>5, <1>6, <2>1 DEF Foreign
  <2>2. CASE ~Foreign(call) /\ \A i \in 1..N : ~About(policy[i], call)
    BY <1>3, <1>5, <2>2
  <2>3. CASE ~Foreign(call) /\ \E i \in 1..N : About(policy[i], call)
    <3>1. PICK i \in 1..N : About(policy[i], call)
      BY <2>3
    <3>2. \A j \in 1..(i - 1) : ~About(policy[j], call)
      <4>1. ASSUME NEW j \in 1..(i - 1) PROVE ~About(policy[j], call)
        <5>1. j \in 1..N /\ j # i
          BY <1>2 DEF SoundPolicy
        <5> QED
          BY <1>7, <3>1, <5>1
      <4> QED
        BY <4>1
    <3>3. decision = IF Meets(policy[i], call, Len(policy[i].arguments)) THEN "allow" ELSE "deny"
      BY <1>3, <2>3, <3>1, <3>2
    <3>4. Allows(policy, call) <=> Meets(policy[i], call, Len(policy[i].arguments))
      BY <1>5, <1>7, <2>3, <3>1 DEF Foreign
    <3> QED
      BY <3>3, <3>4
  <2> QED
    BY <2>1, <2>2, <2>3
<1> QED
  BY <1>8 DEF Enforces, decision
=============================================================================
