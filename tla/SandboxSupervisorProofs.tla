----------------------- MODULE SandboxSupervisorProofs -----------------------
(***************************************************************************)
(* Proofs about SandboxSupervisor, for any finite sets of connections and  *)
(* ids and any budget.                                                     *)
(*                                                                         *)
(* A Sandbox is registered until it was released, so whoever holds its     *)
(* execution mutex keeps it registered; the mutex in turn gives the holder *)
(* its result slot.  What is destroyed stays destroyed because the mutex   *)
(* of a Sandbox that is done is never taken again.                         *)
(***************************************************************************)
EXTENDS SandboxSupervisor, FiniteSetTheorems, WellFoundedInduction, TLAPS

Answering == {"respond", "linger", "closed"}

(* An execute between the acquisition of the mutex and its release, and    *)
(* between the reservation of its slot and its publication.                *)
Holding == {"reserve", "begin", "run", "await", "finish"}
Slotted == {"begin", "run", "await", "finish"}

Created(b) == operations[b].kind = "create" /\ operations[b].owns

(* What the place of an operation says of its other fields.                *)
Shape(o) ==
    /\ operations[o].pc \in {"idle", "request"} => operations[o].sandbox = Nobody /\ ~operations[o].owns
    /\ operations[o].pc \in {"idle", "request", "start", "ready", "reserve", "begin", "run"} =>
          operations[o].code = "none"
    /\ operations[o].pc \in {"idle", "request", "reserve", "begin"} => ~operations[o].ran
    /\ operations[o].pc = "run" => operations[o].ran
    /\ operations[o].ran => operations[o].kind = "execute" /\ operations[o].owns
    /\ operations[o].pc \in {"idle", "request", "reserve", "begin", "run"} =>
          operations[o].snapshot = Nobody /\ operations[o].extracted = 0
    /\ operations[o].pc = "idle" => operations[o].kind = "none"
    /\ operations[o].kind = "none" => operations[o].sandbox = Nobody
    /\ operations[o].kind # "none" => operations[o].id \in SandboxIds
    /\ operations[o].kind \in {"execute", "read"} => operations[o].execution \in ExecutionIds
    /\ operations[o].pc \in {"start", "ready", "unwind"} =>
          operations[o].kind = "create" /\ operations[o].owns
    /\ operations[o].pc \in Holding => operations[o].kind = "execute" /\ operations[o].sandbox # Nobody
    /\ operations[o].pc \in Slotted \union {"linger"} => operations[o].owns
    /\ operations[o].pc = "drain" =>
          /\ operations[o].kind = "destroy" /\ operations[o].sandbox # Nobody
          /\ operations[o].code = "none"
    /\ operations[o].owns =>
          operations[o].sandbox # Nobody /\ operations[o].kind \in {"create", "execute"}
    /\ operations[o].kind = "create" =>
          operations[o].sandbox = IF operations[o].owns THEN o ELSE Nobody
    /\ operations[o].armed => operations[o].owns /\ operations[o].pc \notin {"linger", "closed"}
    /\ operations[o].kind = "execute" /\ operations[o].code = "ok" =>
          operations[o].ran /\ operations[o].snapshot = o
    /\ operations[o].pc \in {"await", "finish"} =>
          operations[o].snapshot = IF operations[o].code = "ok" THEN o ELSE Nobody

(* The Sandbox an operation works on was created, with its id.             *)
Aim(o) ==
    operations[o].sandbox # Nobody =>
        Created(operations[o].sandbox) /\ IdOf(operations[o].sandbox) = operations[o].id

(* The mutex of a Sandbox and its holder.                                  *)
Held(o) == operations[o].pc \in Holding => sandboxes[operations[o].sandbox].execution = o

Mutex(b) ==
    sandboxes[b].execution # Nobody =>
        /\ operations[sandboxes[b].execution].pc \in Holding
        /\ operations[sandboxes[b].execution].sandbox = b
        /\ sandboxes[b].published /\ ~sandboxes[b].done

(* What a Sandbox has been through.                                        *)
Condition(b) ==
    /\ ~Created(b) =>
          /\ sandboxes[b].process = "none"
          /\ ~sandboxes[b].published /\ ~sandboxes[b].terminating
          /\ ~sandboxes[b].exited /\ ~sandboxes[b].cancelled
    /\ operations[b].pc \in {"start", "ready", "unwind"} =>
          ~sandboxes[b].published /\ ~sandboxes[b].exited
    /\ operations[b].pc = "unwind" => sandboxes[b].process # "alive"
    /\ sandboxes[b].exited => sandboxes[b].process # "alive"
    /\ sandboxes[b].done => sandboxes[b].exited
    /\ sandboxes[b].published /\ sandboxes[b].exited => sandboxes[b].terminating
    /\ sandboxes[b].extractedBytes <= SandboxBytes

(* It is registered until a cleanup succeeded, and an id whose Init was    *)
(* up is registered or retired.                                            *)
Registration(b) ==
    /\ Created(b) =>
          (active[IdOf(b)] = b <=> ~sandboxes[b].done \/ sandboxes[b].cleanupErr)
    /\ sandboxes[b].published => active[IdOf(b)] = b \/ IdOf(b) \in retired

RegistryOK ==
    /\ \A id \in SandboxIds :
          active[id] # Nobody => Created(active[id]) /\ IdOf(active[id]) = id
    /\ \A i, j \in SandboxIds :
          active[i] # Nobody /\ active[j] # Nobody /\ i # j =>
              sandboxes[active[i]].identityOffset # sandboxes[active[j]].identityOffset
    /\ \A id \in retired : active[id] = Nobody

OncePublished ==
    \A b, c \in Operations :
        sandboxes[b].published /\ sandboxes[c].published /\ IdOf(b) = IdOf(c) => b = c

(* A result slot and the Execution that reserved it.                       *)
SlotOK(ref) ==
    /\ slots[ref].by = Nobody => slots[ref] = NoSlot
    /\ slots[ref].by # Nobody =>
          /\ operations[slots[ref].by].kind = "execute" /\ operations[slots[ref].by].owns
          /\ RefOf(slots[ref].by) = ref
          /\ slots[ref].extraction <= slots[ref].reserved
          /\ slots[ref].published =>
                /\ operations[slots[ref].by].code = "ok"
                /\ operations[slots[ref].by].pc \in Answering
          /\ ~slots[ref].published => operations[slots[ref].by].pc \in Slotted

Allowed(o) == allowance(operations[o].paths, sandboxes[operations[o].sandbox].extractedBytes)

(* While it runs, an Execution has its own slot or, if a destroy of its id *)
(* removed that, none.                                                     *)
OwnSlot(o) ==
    operations[o].pc \in Slotted =>
        /\ slots[RefOf(o)].by \in {o, Nobody}
        /\ slots[RefOf(o)].by = o /\ operations[o].pc \in {"begin", "run"} =>
              operations[o].extracted = 0 /\ slots[RefOf(o)].extraction = Allowed(o)
        /\ slots[RefOf(o)].by = o => operations[o].extracted <= slots[RefOf(o)].extraction

Accounts ==
    /\ IsFiniteSet(Retained) /\ Cardinality(Retained) <= MaxResults
    /\ reservedBytes = BytesOf(Retained) /\ reservedBytes \in 0..MaxResultBytes

(* A destroy that answered success.                                        *)
Destroyed(o) ==
    operations[o].kind = "destroy" /\ operations[o].code = "ok" /\ operations[o].sandbox # Nobody =>
        /\ sandboxes[operations[o].sandbox].done /\ ~sandboxes[operations[o].sandbox].cleanupErr
        /\ \A ref \in References :
              slots[ref].by # Nobody => operations[slots[ref].by].sandbox # operations[o].sandbox

(* A read that answered with a result.                                     *)
ReadOK(o) ==
    operations[o].kind = "read" /\ operations[o].code = "ok" =>
        /\ operations[o].snapshot \in Operations
        /\ operations[operations[o].snapshot].kind = "execute"
        /\ operations[operations[o].snapshot].code = "ok"
        /\ operations[operations[o].snapshot].pc \in Answering
        /\ RefOf(operations[o].snapshot) = RefOf(o)

Types ==
    /\ operations \in [Operations -> Operation]
    /\ sandboxes \in [Operations -> Sandbox]
    /\ active \in [SandboxIds -> Pointers]
    /\ retired \subseteq SandboxIds /\ directories \subseteq SandboxIds
    /\ slots \in [References -> Slot]
    /\ closed \in BOOLEAN

(* The inductive invariant.                                                *)
SupervisorInv ==
    /\ Types
    /\ \A o \in Operations : Shape(o) /\ Aim(o) /\ Held(o) /\ OwnSlot(o)
    /\ \A b \in Operations : Condition(b) /\ Mutex(b) /\ Registration(b)
    /\ RegistryOK /\ OncePublished
    /\ \A ref \in References : SlotOK(ref)
    /\ Accounts
    /\ \A o \in Operations : Destroyed(o) /\ ReadOK(o)
    /\ DeliveryDecides

(* What holds beyond it when clients never create an id twice: the slot of *)
(* an Execution is removed only with the Sandbox it ran in.                *)
Kept(o) ==
    /\ operations[o].pc \in Slotted => slots[RefOf(o)].by = o
    /\ operations[o].ran =>
          \/ operations[o].pc \in {"run", "await"}
          \/ sandboxes[operations[o].sandbox].exited
          \/ operations[o].code = "ok" /\ slots[RefOf(o)].by = o

FreshInv ==
    /\ \A o, p \in Operations :
          operations[o].kind = "create" /\ operations[p].kind = "create" /\ IdOf(o) = IdOf(p) => o = p
    /\ \A o \in Operations : Kept(o)
    /\ \A o, p \in Operations :
          operations[o].ran /\ operations[p].ran /\ RefOf(o) = RefOf(p) => o = p

-----------------------------------------------------------------------------
(* Sums.  BytesOf folds over a set in an order that CHOOSE fixes; the      *)
(* lemmas show that the order does not matter.  Each is an induction over  *)
(* the size of a finite set, by its least counterexample.                  *)

(* A set of numbers that is not empty has a least one.                     *)
LEMMA LeastNumber ==
    ASSUME NEW T, T \subseteq Nat, T # {}
    PROVE  \E n \in T : \A m \in T : n <= m
<1>1. PICK n \in T : \A m \in T : ~(<<m, n>> \in OpToRel(<, Nat))
  BY NatLessThanWellFounded, WFMin, Zenon
<1>2. \A m \in T : ~(m < n)
  BY <1>1 DEF OpToRel
<1> QED
  BY <1>2

Pick(s) == CHOOSE x \in s : TRUE

(* One step of the fold, and the function it defines on the parts of R.    *)
Value(f, v, s) == IF s = {} THEN 0 ELSE v[Pick(s)].reserved + f[s \ {Pick(s)}]
Adds(f, v, R) == f = [s \in SUBSET R |-> Value(f, v, s)]

Total(v, R) == (CHOOSE f : Adds(f, v, R))[R]

Weighs(v, R) == IsFiniteSet(R) /\ \A x \in R : v[x].reserved \in Nat

(* BytesOf, before and after a step.                                       *)
LEMMA BytesOfIsTotal ==
    ASSUME NEW R
    PROVE  BytesOf(R) = Total(slots, R) /\ BytesOf(Retained)' = Total(slots', Retained')
<1>1. BytesOf(R) = Total(slots, R)
  BY Zenon DEF BytesOf, MapThenSumSet, MapThenFoldSet, Total, Adds, Value, Pick
<1>2. BytesOf(Retained)' = Total(slots', Retained')
  BY Zenon DEF BytesOf, MapThenSumSet, MapThenFoldSet, Total, Adds, Value, Pick
<1> QED
  BY <1>1, <1>2

(* The parts of a part.                                                    *)
LEMMA Smaller ==
    ASSUME NEW R, IsFiniteSet(R), NEW s \in SUBSET R, s # {}
    PROVE  /\ Pick(s) \in s /\ s \ {Pick(s)} \in SUBSET R
           /\ Cardinality(s) \in Nat /\ Cardinality(s \ {Pick(s)}) \in Nat
           /\ Cardinality(s) = Cardinality(s \ {Pick(s)}) + 1
<1>1. Pick(s) \in s
  BY DEF Pick
<1>2. IsFiniteSet(s)
  BY FS_Subset
<1>3. Cardinality(s) \in Nat /\ Cardinality(s \ {Pick(s)}) \in Nat
  BY <1>2, FS_RemoveElement, FS_CardinalityType
<1>4. Cardinality(s \ {Pick(s)}) = Cardinality(s) - 1
  BY <1>1, <1>2, FS_RemoveElement
<1> QED
  BY <1>1, <1>3, <1>4

Approximates(g, v, R, n) ==
    \A s \in SUBSET R : Cardinality(s) <= n => g[s] = Value(g, v, s)

(* The fold defines a function.                                            *)
LEMMA AddsExists ==
    ASSUME NEW R, NEW v, Weighs(v, R)
    PROVE  \E g \in [SUBSET R -> Nat] : Adds(g, v, R)
<1> DEFINE Bad == {n \in Nat : ~\E g \in [SUBSET R -> Nat] : Approximates(g, v, R, n)}
<1>0. IsFiniteSet(R) /\ Cardinality(R) \in Nat
  BY FS_CardinalityType DEF Weighs
<1>1. ASSUME NEW g \in [SUBSET R -> Nat]
      PROVE  /\ [s \in SUBSET R |-> Value(g, v, s)] \in [SUBSET R -> Nat]
             /\ \A s \in SUBSET R : Value(g, v, s) \in Nat
  <2>1. ASSUME NEW s \in SUBSET R PROVE Value(g, v, s) \in Nat
    <3>1. CASE s = {}
      BY <3>1 DEF Value
    <3>2. CASE s # {}
      <4>1. Pick(s) \in R /\ s \ {Pick(s)} \in SUBSET R
        BY <1>0, <3>2, Smaller
      <4>2. v[Pick(s)].reserved \in Nat /\ g[s \ {Pick(s)}] \in Nat
        BY <4>1 DEF Weighs
      <4> QED
        BY <3>2, <4>2 DEF Value
    <3> QED
      BY <3>1, <3>2
  <2> QED
    BY <2>1
<1>2. Bad = {}
  <2> SUFFICES ASSUME Bad # {} PROVE FALSE
    OBVIOUS
  <2>1. PICK n \in Bad : \A m \in Bad : n <= m
    BY LeastNumber
  <2>2. n \in Nat /\ ~\E g \in [SUBSET R -> Nat] : Approximates(g, v, R, n)
    BY <2>1
  <2>3. PICK h \in [SUBSET R -> Nat] : n # 0 => Approximates(h, v, R, n - 1)
    <3>1. CASE n = 0
      <4>1. [s \in SUBSET R |-> 0] \in [SUBSET R -> Nat]
        OBVIOUS
      <4> QED
        BY <3>1, <4>1
    <3>2. CASE n # 0
      <4>1. n - 1 \in Nat /\ ~(n <= n - 1)
        BY <2>2, <3>2
      <4>2. n - 1 \notin Bad
        BY <2>1, <4>1
      <4> QED
        BY <4>1, <4>2
    <3> QED
      BY <3>1, <3>2
  <2> DEFINE g == [s \in SUBSET R |-> Value(h, v, s)]
  <2>4. g \in [SUBSET R -> Nat]
    BY <1>1
  <2>5. ASSUME NEW s \in SUBSET R, Cardinality(s) <= n PROVE g[s] = Value(g, v, s)
    <3>1. CASE s = {}
      BY <3>1 DEF Value
    <3>2. CASE s # {}
      <4> DEFINE t == s \ {Pick(s)}
      <4>1. /\ t \in SUBSET R /\ Cardinality(t) \in Nat /\ Cardinality(s) \in Nat
            /\ Cardinality(s) = Cardinality(t) + 1
        BY <1>0, <3>2, Smaller
      <4>2. n # 0 /\ Cardinality(t) <= n - 1
        BY <2>2, <2>5, <4>1
      <4>3. h[t] = Value(h, v, t)
        BY <2>3, <4>1, <4>2 DEF Approximates
      <4>4. g[t] = h[t]
        BY <4>1, <4>3
      <4>5. g[s] = v[Pick(s)].reserved + h[t]
        BY <3>2 DEF Value
      <4>6. Value(g, v, s) = v[Pick(s)].reserved + g[t]
        BY <3>2 DEF Value
      <4> QED
        BY <4>4, <4>5, <4>6
    <3> QED
      BY <3>1, <3>2
  <2>6. Approximates(g, v, R, n)
    BY <2>5 DEF Approximates
  <2> HIDE DEF g
  <2> QED
    BY <2>2, <2>4, <2>6
<1>3. PICK g \in [SUBSET R -> Nat] : Approximates(g, v, R, Cardinality(R))
  BY <1>0, <1>2
<1>4. \A s \in SUBSET R : g[s] = Value(g, v, s)
  BY <1>0, <1>3, FS_Subset DEF Approximates
<1>5. g = [s \in SUBSET R |-> Value(g, v, s)]
  BY <1>4
<1> QED
  BY <1>5 DEF Adds

(* Two folds with the same weights agree on the parts they share.          *)
LEMMA AddsAgree ==
    ASSUME NEW R, NEW v, NEW f, Adds(f, v, R), IsFiniteSet(R),
           NEW Q, NEW u, NEW g, Adds(g, u, Q),
           \A x \in R : v[x].reserved = u[x].reserved,
           NEW t \in SUBSET R, t \in SUBSET Q
    PROVE  f[t] = g[t]
<1> DEFINE Bad == {n \in Nat : \E s \in SUBSET R : s \in SUBSET Q /\ Cardinality(s) = n /\ f[s] # g[s]}
<1>0. /\ \A s \in SUBSET R : f[s] = Value(f, v, s)
      /\ \A s \in SUBSET Q : g[s] = Value(g, u, s)
  BY DEF Adds
<1>1. Bad = {}
  <2> SUFFICES ASSUME Bad # {} PROVE FALSE
    OBVIOUS
  <2>1. PICK n \in Bad : \A m \in Bad : n <= m
    BY LeastNumber
  <2>0. n \in Nat /\ \A m \in Nat : m + 1 = n => m \notin Bad
    <3>1. \A m \in Bad : m \in Nat /\ n \in Nat
      OBVIOUS
    <3> HIDE DEF Bad
    <3> QED
      BY <2>1, <3>1
  <2>2. PICK s \in SUBSET R : s \in SUBSET Q /\ Cardinality(s) = n /\ f[s] # g[s]
    BY <2>1
  <2>3. CASE s = {}
    BY <1>0, <2>2, <2>3 DEF Value
  <2>4. CASE s # {}
    <3> DEFINE r == s \ {Pick(s)}
    <3>1. /\ Pick(s) \in s /\ r \in SUBSET R /\ r \in SUBSET Q /\ Cardinality(r) \in Nat
          /\ Cardinality(s) \in Nat /\ Cardinality(s) = Cardinality(r) + 1
      BY <2>2, <2>4, Smaller
    <3>2. f[s] = v[Pick(s)].reserved + f[r] /\ g[s] = u[Pick(s)].reserved + g[r]
      BY <1>0, <2>2, <2>4 DEF Value
    <3>3. f[r] # g[r]
      BY <2>2, <3>1, <3>2
    <3>4. Cardinality(r) \in Bad
      BY <3>1, <3>3
    <3> HIDE DEF Bad
    <3> QED
      BY <2>0, <2>2, <3>1, <3>4
  <2> QED
    BY <2>3, <2>4
<1> QED
  <2>1. Cardinality(t) \in Nat
    BY FS_Subset, FS_CardinalityType
  <2> QED
    BY <1>1, <2>1

(* What is in a total: a sum over one set is that of any fold around it.   *)
LEMMA TotalIs ==
    ASSUME NEW R, NEW v, Weighs(v, R), NEW f, Adds(f, v, R), NEW Q \in SUBSET R
    PROVE  Total(v, Q) = f[Q] /\ f[Q] \in Nat
<1>1. IsFiniteSet(R) /\ IsFiniteSet(Q) /\ Weighs(v, Q)
  BY FS_Subset DEF Weighs
<1>2. PICK g \in [SUBSET Q -> Nat] : Adds(g, v, Q)
  BY <1>1, AddsExists
<1> DEFINE c == CHOOSE h : Adds(h, v, Q)
<1>3. Adds(c, v, Q)
  BY <1>2
<1>4. Total(v, Q) = c[Q]
  BY DEF Total
<1> HIDE DEF c
<1>5. c[Q] = f[Q]
  BY <1>1, <1>3, AddsAgree
<1>6. g[Q] = f[Q]
  BY <1>1, <1>2, AddsAgree
<1> QED
  BY <1>2, <1>4, <1>5, <1>6

(* A total depends on the weights of its members only.                     *)
LEMMA SameTotal ==
    ASSUME NEW R, NEW v, Weighs(v, R), NEW u, \A x \in R : v[x].reserved = u[x].reserved
    PROVE  Total(u, R) = Total(v, R)
<1>1. Weighs(u, R) /\ IsFiniteSet(R)
  BY DEF Weighs
<1>2. PICK f \in [SUBSET R -> Nat] : Adds(f, v, R)
  BY AddsExists
<1>3. PICK g \in [SUBSET R -> Nat] : Adds(g, u, R)
  BY <1>1, AddsExists
<1>4. f[R] = g[R]
  BY <1>1, <1>2, <1>3, AddsAgree
<1> QED
  BY <1>1, <1>2, <1>3, <1>4, TotalIs

(* The total of a set with one more member.                                *)
LEMMA TotalWith ==
    ASSUME NEW R, NEW v, Weighs(v, R), NEW y \in R
    PROVE  Total(v, R) = Total(v, R \ {y}) + v[y].reserved /\ Total(v, R \ {y}) \in Nat
<1>0. IsFiniteSet(R)
  BY DEF Weighs
<1>1. PICK f \in [SUBSET R -> Nat] : Adds(f, v, R)
  BY AddsExists
<1>2. \A s \in SUBSET R : f[s] = Value(f, v, s)
  BY <1>1 DEF Adds
<1> DEFINE Bad == {n \in Nat : \E s \in SUBSET R : \E x \in s :
                      Cardinality(s) = n /\ f[s] # f[s \ {x}] + v[x].reserved}
<1>3. Bad = {}
  <2> SUFFICES ASSUME Bad # {} PROVE FALSE
    OBVIOUS
  <2>1. PICK n \in Bad : \A m \in Bad : n <= m
    BY LeastNumber
  <2>0. n \in Nat /\ \A m \in Nat : m + 1 = n => m \notin Bad
    <3>1. \A m \in Bad : m \in Nat /\ n \in Nat
      OBVIOUS
    <3> HIDE DEF Bad
    <3> QED
      BY <2>1, <3>1
  <2>2. PICK s \in SUBSET R, x \in R :
          x \in s /\ Cardinality(s) = n /\ f[s] # f[s \ {x}] + v[x].reserved
    BY <2>1
  <2> DEFINE p == Pick(s)
  <2>3. /\ p \in s /\ Cardinality(s \ {p}) \in Nat /\ Cardinality(s) = Cardinality(s \ {p}) + 1
        /\ s \ {p} \in SUBSET R
    BY <1>0, <2>2, Smaller
  <2>4. f[s] = v[p].reserved + f[s \ {p}]
    BY <1>2, <2>2 DEF Value
  <2>5. /\ v[p].reserved \in Nat /\ v[x].reserved \in Nat
        /\ f[s \ {p}] \in Nat /\ f[s \ {x}] \in Nat /\ f[(s \ {p}) \ {x}] \in Nat
    BY <1>1, <2>2, <2>3 DEF Weighs
  <2>6. CASE x = p
    BY <2>2, <2>4, <2>5, <2>6
  <2>7. CASE x # p
    <3>1. x \in s \ {p} /\ p \in s \ {x} /\ (s \ {x}) \ {p} = (s \ {p}) \ {x}
      BY <2>2, <2>3, <2>7
    <3>2. f[s \ {p}] = f[(s \ {p}) \ {x}] + v[x].reserved
      <4>1. Cardinality(s \ {p}) \notin Bad
        BY <2>0, <2>2, <2>3
      <4> QED
        BY <2>3, <3>1, <4>1
    <3>3. f[s \ {x}] = f[(s \ {x}) \ {p}] + v[p].reserved
      <4>1. Cardinality(s \ {x}) = Cardinality(s \ {p})
        BY <1>0, <2>2, <2>3, FS_Subset, FS_RemoveElement
      <4>2. Cardinality(s \ {x}) \notin Bad
        BY <2>0, <2>2, <2>3, <4>1
      <4>3. s \ {x} \in SUBSET R
        BY <2>2
      <4> QED
        BY <2>3, <3>1, <4>1, <4>2, <4>3
    <3>4. f[(s \ {x}) \ {p}] = f[(s \ {p}) \ {x}]
      BY <3>1, Zenon
    <3> HIDE DEF Bad, p
    <3>5. f[s] = v[p].reserved + (f[(s \ {p}) \ {x}] + v[x].reserved)
      BY <2>4, <3>2, Zenon
    <3>6. f[s \ {x}] + v[x].reserved = (f[(s \ {p}) \ {x}] + v[p].reserved) + v[x].reserved
      BY <3>3, <3>4, Zenon
    <3>7. ASSUME NEW a \in Nat, NEW b \in Nat, NEW c \in Nat
          PROVE  a + (b + c) = (b + a) + c
      OBVIOUS
    <3>8. f[s] = f[s \ {x}] + v[x].reserved
      BY <2>5, <3>5, <3>6, <3>7, ZenonT(30)
    <3> QED
      BY <2>2, <3>8
  <2> QED
    BY <2>6, <2>7
<1>4. f[R] = f[R \ {y}] + v[y].reserved
  <2> SUFFICES ASSUME f[R] # f[R \ {y}] + v[y].reserved PROVE FALSE
    OBVIOUS
  <2>1. Cardinality(R) \in Nat /\ R \in SUBSET R
    BY <1>0, FS_CardinalityType
  <2>2. Cardinality(R) \in Bad
    BY <2>1
  <2> QED
    BY <1>3, <2>2
<1>5. Total(v, R) = f[R] /\ Total(v, R \ {y}) = f[R \ {y}] /\ f[R \ {y}] \in Nat
  BY <1>1, TotalIs
<1> QED
  BY <1>4, <1>5

(* Two parts of a total.                                                   *)
LEMMA TotalSplits ==
    ASSUME NEW R, NEW v, Weighs(v, R), NEW G \in SUBSET R
    PROVE  /\ Total(v, R) = Total(v, R \ G) + Total(v, G)
           /\ Total(v, G) \in Nat /\ Total(v, R \ G) \in Nat
<1>0. IsFiniteSet(R)
  BY DEF Weighs
<1>1. PICK f \in [SUBSET R -> Nat] : Adds(f, v, R)
  BY AddsExists
<1>2. \A s \in SUBSET R : Total(v, s) = f[s] /\ f[s] \in Nat /\ Weighs(v, s) /\ IsFiniteSet(s)
  BY <1>0, <1>1, TotalIs, FS_Subset DEF Weighs
<1> DEFINE Bad == {n \in Nat : \E s \in SUBSET R :
                      Cardinality(s) = n /\ f[R] # f[R \ s] + f[s]}
<1>3. Bad = {}
  <2> SUFFICES ASSUME Bad # {} PROVE FALSE
    OBVIOUS
  <2>1. PICK n \in Bad : \A m \in Bad : n <= m
    BY LeastNumber
  <2>0. n \in Nat /\ \A m \in Nat : m + 1 = n => m \notin Bad
    <3>1. \A m \in Bad : m \in Nat /\ n \in Nat
      OBVIOUS
    <3> HIDE DEF Bad
    <3> QED
      BY <2>1, <3>1
  <2>2. PICK s \in SUBSET R : Cardinality(s) = n /\ f[R] # f[R \ s] + f[s]
    BY <2>1
  <2>3. CASE s = {}
    <3>1. f[s] = 0 /\ R \ s = R /\ f[R] \in Nat
      BY <1>1, <2>3 DEF Adds, Value
    <3>2. f[R \ s] + f[s] = f[R] + 0
      BY <3>1
    <3> HIDE DEF Bad
    <3> QED
      BY <2>2, <3>1, <3>2
  <2>4. CASE s # {}
    <3> DEFINE p == Pick(s)
               r == s \ {Pick(s)}
    <3>1. /\ p \in s /\ r \in SUBSET R /\ Cardinality(r) \in Nat /\ Cardinality(s) = Cardinality(r) + 1
      BY <1>0, <2>2, <2>4, Smaller
    <3>2. f[R] = f[R \ r] + f[r]
      <4>1. Cardinality(r) \notin Bad
        BY <2>0, <2>2, <3>1
      <4> QED
        BY <3>1, <4>1
    <3>3. f[s] = f[r] + v[p].reserved
      BY <1>2, <3>1, TotalWith
    <3>4. f[R \ r] = f[R \ s] + v[p].reserved
      <4>1. R \ r \in SUBSET R /\ p \in R \ r /\ (R \ r) \ {p} = R \ s /\ R \ s \in SUBSET R
        BY <3>1
      <4> HIDE DEF p, r
      <4> QED
        BY <1>2, <4>1, TotalWith
    <3>5. v[p].reserved \in Nat /\ f[r] \in Nat /\ f[R \ s] \in Nat
      BY <1>2, <3>1 DEF Weighs
    <3> QED
      BY <2>2, <3>2, <3>3, <3>4, <3>5
  <2> QED
    BY <2>3, <2>4
<1>4. f[R] = f[R \ G] + f[G]
  BY <1>2, <1>3, FS_CardinalityType
<1> QED
  BY <1>2, <1>4

(* No slots, no bytes.                                                     *)
LEMMA TotalOfNone == ASSUME NEW v PROVE Total(v, {}) = 0
<1>1. Weighs(v, {})
  BY FS_EmptySet DEF Weighs
<1>2. PICK f \in [SUBSET {} -> Nat] : Adds(f, v, {})
  BY <1>1, AddsExists
<1>3. f[{}] = 0
  BY <1>2 DEF Adds, Value
<1> QED
  BY <1>1, <1>2, <1>3, TotalIs

-----------------------------------------------------------------------------
(* What every step of a handler leaves alone: whom it serves, what it has  *)
(* acquired, and what it has answered.                                     *)
Moves(o) ==
    /\ operations' \in [Operations -> Operation]
    /\ \A q \in Operations : q # o => operations'[q] = operations[q]
    /\ operations[o].kind # "none" =>
          /\ operations'[o].kind = operations[o].kind /\ operations'[o].id = operations[o].id
          /\ operations'[o].execution = operations[o].execution
          /\ operations'[o].paths = operations[o].paths
    /\ operations[o].sandbox # Nobody => operations'[o].sandbox = operations[o].sandbox
    /\ operations[o].owns => operations'[o].owns
    /\ operations[o].ran => operations'[o].ran
    /\ operations[o].code # "none" =>
          operations'[o].code = operations[o].code /\ operations'[o].snapshot = operations[o].snapshot
    /\ operations[o].pc \in Answering => operations'[o].pc \in Answering

(* A step that starts no workload, takes and gives up no slot and leaves   *)
(* no run unless Init has exited.                                          *)
Steady(o) ==
    /\ Moves(o) /\ slots' = slots
    /\ \A c \in Operations : sandboxes[c].exited => sandboxes'[c].exited
    /\ operations'[o].kind = "create" => operations[o].kind = "create"
    /\ operations'[o].ran => operations[o].ran
    /\ operations'[o].pc \in Slotted => operations[o].pc \in Slotted
    /\ operations[o].pc \in {"run", "await"} =>
          operations'[o].pc \in {"run", "await"} \/ sandboxes[operations[o].sandbox].exited

(* What such a step leaves of any operation.                               *)
LEMMA Settled ==
    ASSUME SupervisorInv, NEW o \in Operations, Moves(o), NEW q \in Operations
    PROVE  /\ operations[q].kind # "none" =>
                 /\ operations'[q].kind = operations[q].kind /\ IdOf(q)' = IdOf(q)
                 /\ RefOf(q)' = RefOf(q) /\ operations'[q].paths = operations[q].paths
           /\ operations[q].sandbox # Nobody => operations'[q].sandbox = operations[q].sandbox
           /\ operations[q].owns => operations'[q].owns
           /\ operations[q].ran => operations'[q].ran
           /\ operations[q].code # "none" =>
                 operations'[q].code = operations[q].code /\ operations'[q].snapshot = operations[q].snapshot
           /\ operations[q].pc \in Answering => operations'[q].pc \in Answering
           /\ Created(q) => Created(q)' /\ IdOf(q)' = IdOf(q)
BY DEF Moves, IdOf, RefOf, Created

(* The result store is left alone, and no slot is published or given up.   *)
LEMMA ResultsFrame ==
    ASSUME SupervisorInv, NEW o \in Operations, Moves(o), UNCHANGED <<slots, reservedBytes>>,
           operations[o].pc \in Slotted => operations'[o].pc \in Slotted
    PROVE  (\A ref \in References : SlotOK(ref))' /\ Accounts'
<1>1. ASSUME NEW ref \in References PROVE SlotOK(ref)'
  <2>1. SlotOK(ref) /\ slots[ref].by \in Operations \union {Nobody}
    BY DEF SupervisorInv, Types, Slot, Pointers
  <2>2. CASE slots[ref].by = Nobody
    BY <2>1, <2>2 DEF SlotOK
  <2>3. CASE slots[ref].by # Nobody
    <3> DEFINE q == slots[ref].by
    <3>1. q \in Operations /\ slots' = slots
      BY <2>1, <2>3
    <3>2. /\ operations'[q].kind = "execute" /\ operations'[q].owns /\ RefOf(q)' = ref
          /\ operations[q].code = "ok" => operations'[q].code = "ok"
          /\ operations[q].pc \in Answering => operations'[q].pc \in Answering
      BY <2>1, <2>3, <3>1, Settled DEF SlotOK
    <3>3. operations[q].pc \in Slotted => operations'[q].pc \in Slotted
      BY <3>1 DEF Moves
    <3> QED
      BY <2>1, <2>3, <3>1, <3>2, <3>3 DEF SlotOK, RefOf
  <2> QED
    BY <2>2, <2>3
<1>2. Accounts'
  <2>1. Retained' = Retained /\ BytesOf(Retained)' = BytesOf(Retained)
    BY BytesOfIsTotal, Zenon DEF Retained
  <2> QED
    BY <2>1 DEF SupervisorInv, Accounts
<1> QED
  BY <1>1, <1>2

(* The registry is left alone, nobody is released, and a Sandbox is        *)
(* published only while it is registered.                                  *)
LEMMA RegistryFrame ==
    ASSUME SupervisorInv, NEW o \in Operations, Moves(o), UNCHANGED <<active, retired>>,
           \A c \in Operations :
               /\ sandboxes'[c].identityOffset = sandboxes[c].identityOffset
               /\ (~sandboxes'[c].done \/ sandboxes'[c].cleanupErr) <=>
                     (~sandboxes[c].done \/ sandboxes[c].cleanupErr)
               /\ sandboxes'[c].published =>
                     sandboxes[c].published \/ (active[IdOf(c)] = c /\ Created(c)),
           Created(o)' => Created(o)
    PROVE  (\A b \in Operations : Registration(b))' /\ RegistryOK' /\ OncePublished'
<1>0. /\ \A b \in Operations : Registration(b) /\ Condition(b) /\ Shape(b)
      /\ RegistryOK /\ OncePublished /\ active \in [SandboxIds -> Pointers]
  BY DEF SupervisorInv, Types
<1>1. \A c \in Operations : Created(c)' <=> Created(c)
  BY Settled DEF Moves, Created
<1>2. \A c \in Operations : Created(c) => IdOf(c)' = IdOf(c) /\ IdOf(c) \in SandboxIds
  BY <1>0, Settled DEF Created, Shape, IdOf
<1>3. \A c \in Operations : sandboxes'[c].published =>
          /\ Created(c)
          /\ active[IdOf(c)] = c \/ IdOf(c) \in retired
          /\ sandboxes[c].published \/ active[IdOf(c)] = c
  BY <1>0 DEF Condition, Registration
<1>4. ASSUME NEW b \in Operations PROVE Registration(b)'
  BY <1>0, <1>1, <1>2, <1>3 DEF Registration
<1>5. RegistryOK'
  <2>1. \A id \in SandboxIds : active[id] # Nobody =>
          active[id] \in Operations /\ Created(active[id]) /\ IdOf(active[id]) = id
    BY <1>0 DEF RegistryOK, Pointers
  <2>2. \A id \in SandboxIds : active[id] # Nobody =>
          Created(active[id])' /\ IdOf(active[id])' = id
    BY <1>1, <1>2, <2>1 DEF Created, IdOf
  <2>3. \A i, j \in SandboxIds :
          active'[i] # Nobody /\ active'[j] # Nobody /\ i # j =>
              sandboxes'[active'[i]].identityOffset # sandboxes'[active'[j]].identityOffset
    BY <1>0, <2>1 DEF RegistryOK
  <2> QED
    BY <1>0, <2>2, <2>3 DEF RegistryOK
<1>6. ASSUME NEW b \in Operations, NEW c \in Operations, sandboxes'[b].published,
             sandboxes'[c].published, IdOf(b)' = IdOf(c)'
      PROVE  b = c
  <2>1. IdOf(b) = IdOf(c)
    BY <1>2, <1>3, <1>6
  <2>2. IdOf(b) \in retired => active[IdOf(b)] = Nobody
    BY <1>0 DEF RegistryOK
  <2>3. Nobody # b /\ Nobody # c
    BY NobodyAssumption
  <2> QED
    BY <1>0, <1>3, <1>6, <2>1, <2>2, <2>3 DEF OncePublished
<1>7. OncePublished'
  BY <1>6 DEF OncePublished
<1> QED
  BY <1>4, <1>5, <1>7

(* Whatever is gone stays gone, and nobody takes a slot for it.            *)
LEMMA AnswersFrame ==
    ASSUME SupervisorInv, NEW o \in Operations, Moves(o), Aim(o)', Destroyed(o)', ReadOK(o)',
           \A c \in Operations : sandboxes[c].done /\ ~sandboxes[c].cleanupErr =>
               sandboxes'[c].done /\ ~sandboxes'[c].cleanupErr,
           \A ref \in References :
               \/ slots'[ref].by \in {slots[ref].by, Nobody}
               \/ /\ slots'[ref].by = o /\ operations'[o].sandbox \in Operations
                  /\ ~sandboxes[operations'[o].sandbox].done
    PROVE  (\A q \in Operations : Aim(q) /\ Destroyed(q) /\ ReadOK(q))'
<1>0. \A q \in Operations : Aim(q) /\ Destroyed(q) /\ ReadOK(q) /\ operations[q].sandbox \in Pointers
  BY DEF SupervisorInv, Types, Operation
<1> SUFFICES ASSUME NEW q \in Operations, q # o PROVE Aim(q)' /\ Destroyed(q)' /\ ReadOK(q)'
  OBVIOUS
<1>1. operations'[q] = operations[q]
  BY DEF Moves
<1>2. Aim(q)'
  <2>1. operations[q].sandbox # Nobody => operations[q].sandbox \in Operations
    BY <1>0 DEF Pointers
  <2>2. operations[q].sandbox # Nobody =>
          Created(operations[q].sandbox)' /\ IdOf(operations[q].sandbox)' = operations[q].id
    BY <1>0, <2>1, Settled DEF Aim
  <2> QED
    BY <1>1, <2>1, <2>2 DEF Aim, Created, IdOf
<1>3. Destroyed(q)'
  <2> SUFFICES ASSUME operations[q].kind = "destroy", operations[q].code = "ok",
                      operations[q].sandbox # Nobody
               PROVE  /\ sandboxes'[operations[q].sandbox].done
                      /\ ~sandboxes'[operations[q].sandbox].cleanupErr
                      /\ \A ref \in References : slots'[ref].by # Nobody =>
                            operations'[slots'[ref].by].sandbox # operations[q].sandbox
    BY <1>1 DEF Destroyed
  <2>1. /\ operations[q].sandbox \in Operations
        /\ sandboxes[operations[q].sandbox].done /\ ~sandboxes[operations[q].sandbox].cleanupErr
    BY <1>0 DEF Destroyed, Pointers
  <2>2. ASSUME NEW ref \in References, slots'[ref].by # Nobody
        PROVE  operations'[slots'[ref].by].sandbox # operations[q].sandbox
    <3>0. CASE slots'[ref].by = o /\ ~sandboxes[operations'[o].sandbox].done
      BY <2>1, <3>0
    <3>1. CASE slots'[ref].by = slots[ref].by
      <4>1. slots[ref].by \in Operations /\ SlotOK(ref)
        BY <2>2, <3>1 DEF SupervisorInv, Types, Slot, Pointers
      <4>2. /\ operations[slots[ref].by].sandbox # operations[q].sandbox
            /\ operations[slots[ref].by].sandbox # Nobody
        BY <1>0, <2>2, <3>1, <4>1 DEF Destroyed, SlotOK, SupervisorInv, Shape
      <4> QED
        BY <3>1, <4>1, <4>2, Settled
    <3> QED
      BY <2>2, <3>0, <3>1
  <2> QED
    BY <2>1, <2>2
<1>4. ReadOK(q)'
  <2> SUFFICES ASSUME operations[q].kind = "read", operations[q].code = "ok"
               PROVE  ReadOK(q)'
    BY <1>1 DEF ReadOK
  <2> DEFINE s == operations[q].snapshot
  <2>1. /\ s \in Operations /\ operations[s].kind = "execute" /\ operations[s].code = "ok"
        /\ operations[s].pc \in Answering /\ RefOf(s) = RefOf(q)
    BY <1>0 DEF ReadOK
  <2>2. /\ operations'[s].kind = "execute" /\ operations'[s].code = "ok"
        /\ operations'[s].pc \in Answering /\ RefOf(s)' = RefOf(s)
    BY <2>1, Settled
  <2> QED
    BY <1>1, <2>1, <2>2 DEF ReadOK, RefOf
<1> QED
  BY <1>2, <1>3, <1>4

(* Nobody takes or leaves a mutex.                                         *)
LEMMA MutexFrame ==
    ASSUME SupervisorInv, NEW o \in Operations, Moves(o),
           operations'[o].pc \in Holding <=> operations[o].pc \in Holding,
           \A c \in Operations :
               /\ sandboxes'[c].execution = sandboxes[c].execution
               /\ sandboxes'[c].done => sandboxes[c].done \/ sandboxes[c].execution = Nobody
               /\ sandboxes[c].published => sandboxes'[c].published
    PROVE  (\A q \in Operations : Held(q) /\ Mutex(q))'
<1>0. \A q \in Operations :
        /\ Held(q) /\ Mutex(q) /\ Shape(q) /\ operations[q].sandbox \in Pointers
        /\ sandboxes[q].execution \in Pointers
  BY DEF SupervisorInv, Types, Operation, Sandbox
<1>1. \A q \in Operations : operations'[q].pc \in Holding <=> operations[q].pc \in Holding
  BY DEF Moves
<1>2. \A q \in Operations : operations[q].pc \in Holding =>
        operations[q].sandbox \in Operations /\ operations'[q].sandbox = operations[q].sandbox
  BY <1>0, Settled DEF Shape, Pointers
<1>3. ASSUME NEW q \in Operations PROVE Held(q)'
  BY <1>0, <1>1, <1>2 DEF Held
<1>4. ASSUME NEW q \in Operations PROVE Mutex(q)'
  BY <1>0, <1>1, <1>2 DEF Mutex, Pointers
<1> QED
  BY <1>3, <1>4

(* Neither the slots nor what the Sandboxes have extracted changes.        *)
LEMMA SlotsFrame ==
    ASSUME SupervisorInv, NEW o \in Operations, Moves(o), OwnSlot(o)', slots' = slots,
           \A c \in Operations : sandboxes'[c].extractedBytes = sandboxes[c].extractedBytes
    PROVE  (\A q \in Operations : OwnSlot(q))'
<1> SUFFICES ASSUME NEW q \in Operations, q # o, operations[q].pc \in Slotted
             PROVE  OwnSlot(q)'
  BY DEF Moves, OwnSlot
<1>1. /\ OwnSlot(q) /\ operations'[q] = operations[q] /\ operations[q].sandbox \in Operations
  BY DEF SupervisorInv, Moves, Types, Operation, Shape, Pointers, Slotted
<1> QED
  BY <1>1 DEF OwnSlot, Allowed, allowance, RefOf

Culprit(o) ==
    /\ operations[o].owns
    /\ IF operations[o].pc \in {"linger", "closed"}
       THEN ~operations[o].delivered ELSE operations[o].cancelled

(* A Sandbox is cancelled for a reason, and reasons do not go away.        *)
LEMMA DeliveryFrame ==
    ASSUME SupervisorInv, NEW o \in Operations, Moves(o), closed => closed',
           Culprit(o) => Culprit(o)',
           \A c \in Operations :
               /\ sandboxes[c].terminating => sandboxes'[c].terminating
               /\ sandboxes[c].done => sandboxes'[c].done
               /\ sandboxes'[c].done => sandboxes'[c].process # "alive"
               /\ sandboxes'[c].cancelled =>
                     \/ sandboxes[c].cancelled \/ sandboxes'[c].terminating
                     \/ sandboxes'[c].done \/ closed'
                     \/ Culprit(o)' /\ operations'[o].sandbox = c,
           operations'[o].pc = "closed" /\ operations'[o].owns /\ ~operations'[o].delivered =>
               operations'[o].sandbox \in Operations /\ sandboxes'[operations'[o].sandbox].done
    PROVE  DeliveryDecides'
<1>0. DeliveryDecides /\ \A q \in Operations : Shape(q) /\ operations[q].sandbox \in Pointers
  BY DEF SupervisorInv, Types, Operation
<1>1. \A q \in Operations : q # o => operations'[q] = operations[q]
  BY DEF Moves
<1>2. \A q \in Operations, c \in Operations :
        /\ q \in Causes(c) <=> Culprit(q) /\ operations[q].sandbox = c
        /\ q \in Causes(c)' <=> Culprit(q)' /\ operations'[q].sandbox = c
  BY DEF Causes, Culprit, Target
<1>3. ASSUME NEW c \in Operations, NEW q \in Operations, q \in Causes(c) PROVE q \in Causes(c)'
  <2>1. Culprit(q) /\ operations[q].sandbox = c /\ c # Nobody
    BY <1>2, <1>3, NobodyAssumption
  <2>2. CASE q = o
    BY <1>2, <2>1, <2>2 DEF Moves
  <2>3. CASE q # o
    BY <1>1, <1>2, <2>1, <2>3 DEF Culprit
  <2> QED
    BY <2>2, <2>3
<1>4. ASSUME NEW c \in Operations, sandboxes'[c].cancelled
      PROVE  sandboxes'[c].terminating \/ sandboxes'[c].done \/ closed' \/ Causes(c)' # {}
  <2>1. CASE sandboxes[c].cancelled
    <3>1. Causes(c) # {} => Causes(c)' # {}
      <4> SUFFICES ASSUME NEW q \in Causes(c) PROVE Causes(c)' # {}
        OBVIOUS
      <4>1. q \in Operations
        BY DEF Causes
      <4> QED
        BY <1>3, <4>1
    <3> QED
      BY <1>0, <2>1, <3>1 DEF DeliveryDecides
  <2>2. CASE Culprit(o)' /\ operations'[o].sandbox = c
    BY <1>2, <2>2
  <2> QED
    BY <1>4, <2>1, <2>2
<1>5. ASSUME NEW q \in Operations, operations'[q].pc = "closed", operations'[q].owns,
             ~operations'[q].delivered
      PROVE  sandboxes'[operations'[q].sandbox].done /\ sandboxes'[operations'[q].sandbox].process # "alive"
  <2>1. CASE q = o
    BY <1>5, <2>1
  <2>2. CASE q # o
    <3>1. /\ operations'[q] = operations[q] /\ operations[q].sandbox \in Operations
          /\ sandboxes[operations[q].sandbox].done
      BY <1>0, <1>1, <1>5, <2>2 DEF DeliveryDecides, Shape, Pointers, Target
    <3> QED
      BY <3>1
  <2> QED
    BY <2>1, <2>2
<1> QED
  BY <1>4, <1>5 DEF DeliveryDecides, Target

(* A step of an operation must keep what it touches in order.              *)
LEMMA GeneralStep ==
    ASSUME SupervisorInv, NEW o \in Operations, NEW b \in Operations, Moves(o),
           active' \in [SandboxIds -> Pointers],
           retired' \subseteq SandboxIds, directories' \subseteq SandboxIds,
           (\A c \in Operations : Registration(c))', RegistryOK', OncePublished',
           slots' \in [References -> Slot], (\A ref \in References : SlotOK(ref))', Accounts',
           \A ref \in References :
               \/ slots'[ref].by \in {slots[ref].by, Nobody}
               \/ /\ slots'[ref].by = o /\ operations'[o].sandbox \in Operations
                  /\ ~sandboxes[operations'[o].sandbox].done,
           closed' \in BOOLEAN, closed => closed',
           sandboxes' \in [Operations -> Sandbox],
           \A c \in Operations : c # b => sandboxes'[c] = sandboxes[c],
           /\ sandboxes[b].done => sandboxes'[b].done
           /\ sandboxes[b].done /\ ~sandboxes[b].cleanupErr => ~sandboxes'[b].cleanupErr
           /\ sandboxes[b].terminating => sandboxes'[b].terminating,
           sandboxes'[b].cancelled =>
                 \/ sandboxes[b].cancelled \/ sandboxes'[b].terminating
                 \/ sandboxes'[b].done \/ closed'
                 \/ Culprit(o)' /\ operations'[o].sandbox = b,
           (\A q \in Operations : Held(q) /\ Mutex(q) /\ OwnSlot(q))',
           Culprit(o) => Culprit(o)',
           operations'[o].pc = "closed" /\ operations'[o].owns /\ ~operations'[o].delivered =>
               operations'[o].sandbox \in Operations /\ sandboxes'[operations'[o].sandbox].done,
           Shape(o)', Aim(o)', Destroyed(o)', ReadOK(o)', Condition(o)', Condition(b)'
    PROVE  SupervisorInv'
<1>1. \A c \in Operations :
        /\ sandboxes[c].done => sandboxes'[c].done
        /\ sandboxes[c].done /\ ~sandboxes[c].cleanupErr => ~sandboxes'[c].cleanupErr
        /\ sandboxes[c].terminating => sandboxes'[c].terminating
  OBVIOUS
<1>2. \A c \in Operations : sandboxes'[c].cancelled =>
        \/ sandboxes[c].cancelled \/ sandboxes'[c].terminating
        \/ sandboxes'[c].done \/ closed'
        \/ Culprit(o)' /\ operations'[o].sandbox = c
  OBVIOUS
<1>3. (\A q \in Operations : Shape(q) /\ Condition(q))'
  <2>1. ASSUME NEW q \in Operations, q # o PROVE Shape(q)'
    <3>1. Shape(q) /\ operations'[q] = operations[q]
      BY <2>1 DEF SupervisorInv, Moves
    <3> QED
      BY <3>1 DEF Shape
  <2>2. ASSUME NEW q \in Operations, q # o, q # b PROVE Condition(q)'
    <3>1. Condition(q) /\ operations'[q] = operations[q] /\ sandboxes'[q] = sandboxes[q]
      BY <2>2 DEF SupervisorInv, Moves
    <3> QED
      BY <3>1 DEF Condition, Created
  <2> QED
    BY <2>1, <2>2
<1>4. Types'
  BY DEF SupervisorInv, Types, Moves
<1>5. (\A q \in Operations : Aim(q) /\ Destroyed(q) /\ ReadOK(q))'
  BY <1>1, AnswersFrame
<1>6. DeliveryDecides'
  <2>1. \A c \in Operations : sandboxes'[c].done => sandboxes'[c].process # "alive"
    BY <1>3 DEF Condition
  <2> QED
    BY <1>1, <1>2, <2>1, DeliveryFrame
<1> QED
  BY <1>3, <1>4, <1>5, <1>6 DEF SupervisorInv

(* A step that neither registers nor releases a Sandbox.                   *)
LEMMA ServiceStep ==
    ASSUME SupervisorInv, NEW o \in Operations, NEW b \in Operations, Moves(o),
           UNCHANGED <<active, retired, directories>>,
           slots' \in [References -> Slot], (\A ref \in References : SlotOK(ref))', Accounts',
           \A ref \in References :
               \/ slots'[ref].by \in {slots[ref].by, Nobody}
               \/ /\ slots'[ref].by = o /\ operations'[o].sandbox \in Operations
                  /\ ~sandboxes[operations'[o].sandbox].done,
           closed' \in BOOLEAN, closed => closed',
           sandboxes' \in [Operations -> Sandbox],
           \A c \in Operations : c # b => sandboxes'[c] = sandboxes[c],
           /\ sandboxes'[b].identityOffset = sandboxes[b].identityOffset
           /\ sandboxes'[b].done = sandboxes[b].done
           /\ sandboxes'[b].cleanupErr = sandboxes[b].cleanupErr
           /\ sandboxes[b].published => sandboxes'[b].published
           /\ sandboxes'[b].published =>
                 sandboxes[b].published \/ (active[IdOf(b)] = b /\ Created(b))
           /\ sandboxes[b].terminating => sandboxes'[b].terminating,
           sandboxes'[b].cancelled =>
                 \/ sandboxes[b].cancelled \/ sandboxes'[b].terminating
                 \/ sandboxes'[b].done \/ closed'
                 \/ Culprit(o)' /\ operations'[o].sandbox = b,
           (\A q \in Operations : Held(q) /\ Mutex(q) /\ OwnSlot(q))',
           Created(o)' => Created(o), Culprit(o) => Culprit(o)',
           operations'[o].pc = "closed" /\ operations'[o].owns /\ ~operations'[o].delivered =>
               operations'[o].sandbox \in Operations /\ sandboxes'[operations'[o].sandbox].done,
           Shape(o)', Aim(o)', Destroyed(o)', ReadOK(o)', Condition(o)', Condition(b)'
    PROVE  SupervisorInv'
<1>1. \A c \in Operations :
        /\ sandboxes'[c].identityOffset = sandboxes[c].identityOffset
        /\ sandboxes'[c].done = sandboxes[c].done
        /\ sandboxes'[c].cleanupErr = sandboxes[c].cleanupErr
        /\ sandboxes'[c].published =>
              sandboxes[c].published \/ (active[IdOf(c)] = c /\ Created(c))
  OBVIOUS
<1>2. (\A q \in Operations : Registration(q))' /\ RegistryOK' /\ OncePublished'
  BY <1>1, RegistryFrame
<1>3. /\ active' \in [SandboxIds -> Pointers]
      /\ retired' \subseteq SandboxIds /\ directories' \subseteq SandboxIds
  BY DEF SupervisorInv, Types
<1> QED
  BY <1>2, <1>3, GeneralStep

(* Such a step that leaves the result store alone.                         *)
LEMMA CoreStep ==
    ASSUME SupervisorInv, NEW o \in Operations, NEW b \in Operations, Moves(o),
           UNCHANGED <<active, retired, directories, slots, reservedBytes>>,
           closed' \in BOOLEAN, closed => closed',
           sandboxes' \in [Operations -> Sandbox],
           \A c \in Operations : c # b => sandboxes'[c] = sandboxes[c],
           /\ sandboxes'[b].identityOffset = sandboxes[b].identityOffset
           /\ sandboxes'[b].done = sandboxes[b].done
           /\ sandboxes'[b].cleanupErr = sandboxes[b].cleanupErr
           /\ sandboxes[b].published => sandboxes'[b].published
           /\ sandboxes'[b].published =>
                 sandboxes[b].published \/ (active[IdOf(b)] = b /\ Created(b))
           /\ sandboxes[b].terminating => sandboxes'[b].terminating,
           sandboxes'[b].cancelled =>
                 \/ sandboxes[b].cancelled \/ sandboxes'[b].terminating
                 \/ sandboxes'[b].done \/ closed'
                 \/ Culprit(o)' /\ operations'[o].sandbox = b,
           (\A q \in Operations : Held(q) /\ Mutex(q) /\ OwnSlot(q))',
           operations[o].pc \in Slotted => operations'[o].pc \in Slotted,
           Created(o)' => Created(o), Culprit(o) => Culprit(o)',
           operations'[o].pc = "closed" /\ operations'[o].owns /\ ~operations'[o].delivered =>
               operations'[o].sandbox \in Operations /\ sandboxes'[operations'[o].sandbox].done,
           Shape(o)', Aim(o)', Destroyed(o)', ReadOK(o)', Condition(o)', Condition(b)'
    PROVE  SupervisorInv'
<1>1. (\A ref \in References : SlotOK(ref))' /\ Accounts'
  BY ResultsFrame
<1>2. /\ slots' \in [References -> Slot]
      /\ \A ref \in References : slots'[ref].by \in {slots[ref].by, Nobody}
  BY DEF SupervisorInv, Types
<1> QED
  BY <1>1, <1>2, ServiceStep

(* Such a step that neither takes nor leaves a mutex and extracts nothing. *)
LEMMA QuietStep ==
    ASSUME SupervisorInv, NEW o \in Operations, NEW b \in Operations, Moves(o),
           UNCHANGED <<active, retired, directories, slots, reservedBytes>>,
           closed' \in BOOLEAN, closed => closed',
           sandboxes' \in [Operations -> Sandbox],
           \A c \in Operations : c # b => sandboxes'[c] = sandboxes[c],
           /\ sandboxes'[b].identityOffset = sandboxes[b].identityOffset
           /\ sandboxes'[b].done = sandboxes[b].done
           /\ sandboxes'[b].cleanupErr = sandboxes[b].cleanupErr
           /\ sandboxes'[b].execution = sandboxes[b].execution
           /\ sandboxes'[b].extractedBytes = sandboxes[b].extractedBytes
           /\ sandboxes[b].published => sandboxes'[b].published
           /\ sandboxes'[b].published =>
                 sandboxes[b].published \/ (active[IdOf(b)] = b /\ Created(b))
           /\ sandboxes[b].terminating => sandboxes'[b].terminating,
           sandboxes'[b].cancelled =>
                 \/ sandboxes[b].cancelled \/ sandboxes'[b].terminating
                 \/ sandboxes'[b].done \/ closed'
                 \/ Culprit(o)' /\ operations'[o].sandbox = b,
           operations'[o].pc \in Holding <=> operations[o].pc \in Holding,
           operations[o].pc \in Slotted => operations'[o].pc \in Slotted,
           Created(o)' => Created(o), Culprit(o) => Culprit(o)',
           operations'[o].pc = "closed" /\ operations'[o].owns /\ ~operations'[o].delivered =>
               operations'[o].sandbox \in Operations /\ sandboxes'[operations'[o].sandbox].done,
           Shape(o)', Aim(o)', Destroyed(o)', ReadOK(o)', OwnSlot(o)', Condition(o)', Condition(b)'
    PROVE  SupervisorInv'
<1>1. \A c \in Operations :
        /\ sandboxes'[c].execution = sandboxes[c].execution
        /\ sandboxes'[c].extractedBytes = sandboxes[c].extractedBytes
        /\ sandboxes'[c].done => sandboxes[c].done
        /\ sandboxes[c].published => sandboxes'[c].published
  OBVIOUS
<1>2. (\A q \in Operations : Held(q) /\ Mutex(q))'
  BY <1>1, MutexFrame
<1>3. (\A q \in Operations : OwnSlot(q))'
  BY <1>1, SlotsFrame
<1> QED
  BY <1>2, <1>3, CoreStep

-----------------------------------------------------------------------------
(* A handler's step that only changes the operation itself.                *)
LEMMA HandlerStep ==
    ASSUME SupervisorInv, NEW o \in Operations, Moves(o),
           UNCHANGED <<sandboxes, registry, results, closed>>,
           /\ operations'[o].sandbox = operations[o].sandbox
           /\ operations'[o].owns = operations[o].owns
           /\ operations'[o].extracted = operations[o].extracted
           /\ operations'[o].pc \in {"start", "ready", "unwind"} =>
                 operations'[o].pc = operations[o].pc
           /\ operations'[o].pc \in {"begin", "run"} => operations[o].pc \in {"begin", "run"}
           /\ operations'[o].pc \in Holding <=> operations[o].pc \in Holding
           /\ operations'[o].pc \in Slotted <=> operations[o].pc \in Slotted
           /\ operations'[o].code = "ok" /\ operations'[o].kind = "destroy" =>
                 operations[o].code = "ok" \/ operations[o].sandbox = Nobody,
           Culprit(o) => Culprit(o)',
           operations'[o].pc = "closed" /\ operations[o].owns =>
               \/ operations[o].pc = "closed" /\ operations'[o].delivered = operations[o].delivered
               \/ operations'[o].delivered
               \/ sandboxes[operations[o].sandbox].done,
           Shape(o)', ReadOK(o)'
    PROVE  SupervisorInv'
<1>0. /\ Shape(o) /\ Aim(o) /\ Destroyed(o) /\ OwnSlot(o) /\ Condition(o) /\ DeliveryDecides
      /\ \A ref \in References : SlotOK(ref)
      /\ operations[o].sandbox \in Pointers /\ closed \in BOOLEAN
      /\ sandboxes \in [Operations -> Sandbox] /\ slots \in [References -> Slot]
  BY DEF SupervisorInv, Types, Operation
<1>1. Created(o)' <=> Created(o)
  BY <1>0, Settled DEF Created, Shape, Moves
<1>2. Aim(o)'
  <2>1. operations[o].sandbox # Nobody =>
          /\ operations[o].sandbox \in Operations /\ operations[o].kind # "none"
          /\ operations'[o].id = operations[o].id
    BY <1>0 DEF Pointers, Shape, Moves
  <2>2. operations[o].sandbox # Nobody =>
          Created(operations[o].sandbox)' /\ IdOf(operations[o].sandbox)' = operations[o].id
    BY <1>0, <2>1, Settled DEF Aim
  <2> QED
    BY <2>1, <2>2 DEF Aim, Created, IdOf
<1>3. Destroyed(o)'
  <2> SUFFICES ASSUME operations'[o].kind = "destroy", operations'[o].code = "ok",
                      operations[o].sandbox # Nobody
               PROVE  /\ sandboxes[operations[o].sandbox].done
                      /\ ~sandboxes[operations[o].sandbox].cleanupErr
                      /\ \A ref \in References : slots[ref].by # Nobody =>
                            operations'[slots[ref].by].sandbox # operations[o].sandbox
    BY DEF Destroyed, results
  <2>1. operations[o].kind = "destroy" /\ operations[o].code = "ok"
    BY <1>0 DEF Shape, Moves
  <2>2. ASSUME NEW ref \in References, slots[ref].by # Nobody
        PROVE  operations'[slots[ref].by].sandbox # operations[o].sandbox
    <3>1. /\ slots[ref].by \in Operations
          /\ operations[slots[ref].by].sandbox # operations[o].sandbox
      BY <1>0, <2>1, <2>2 DEF Destroyed, Slot, Pointers
    <3> QED
      BY <3>1 DEF Moves
  <2> QED
    BY <1>0, <2>1, <2>2 DEF Destroyed
<1>4. OwnSlot(o)'
  <2> SUFFICES ASSUME operations[o].pc \in Slotted PROVE OwnSlot(o)'
    BY DEF OwnSlot
  <2>1. /\ operations[o].kind # "none" /\ RefOf(o)' = RefOf(o)
        /\ operations'[o].paths = operations[o].paths
    BY <1>0, Settled DEF Shape, Slotted, Holding
  <2> QED
    BY <1>0, <2>1 DEF OwnSlot, Allowed, allowance, results, RefOf
<1>5. Condition(o)'
  BY <1>0, <1>1 DEF Condition
<1>6. operations'[o].pc = "closed" /\ operations'[o].owns /\ ~operations'[o].delivered =>
        operations'[o].sandbox \in Operations /\ sandboxes'[operations'[o].sandbox].done
  BY <1>0 DEF DeliveryDecides, Shape, Pointers, Target
<1>7. /\ UNCHANGED <<active, retired, directories, slots, reservedBytes>>
      /\ sandboxes' \in [Operations -> Sandbox] /\ closed' \in BOOLEAN
  BY <1>0 DEF registry, results
<1>8. /\ sandboxes'[o].identityOffset = sandboxes[o].identityOffset
      /\ sandboxes'[o].done = sandboxes[o].done
      /\ sandboxes'[o].cleanupErr = sandboxes[o].cleanupErr
      /\ sandboxes'[o].execution = sandboxes[o].execution
      /\ sandboxes'[o].extractedBytes = sandboxes[o].extractedBytes
      /\ sandboxes[o].published => sandboxes'[o].published
      /\ sandboxes'[o].published =>
            sandboxes[o].published \/ (active[IdOf(o)] = o /\ Created(o))
      /\ sandboxes[o].terminating => sandboxes'[o].terminating
      /\ \A c \in Operations : c # o => sandboxes'[c] = sandboxes[c]
  OBVIOUS
<1>9. sandboxes'[o].cancelled => sandboxes[o].cancelled
  OBVIOUS
<1> QED
  BY <1>1, <1>2, <1>3, <1>4, <1>5, <1>6, <1>7, <1>8, <1>9, QuietStep

(* The parts of an operation that a step leaves as they were.              *)
SameRequest(o) ==
    /\ operations'[o].kind = operations[o].kind /\ operations'[o].id = operations[o].id
    /\ operations'[o].execution = operations[o].execution
    /\ operations'[o].paths = operations[o].paths
SameGrip(o) ==
    /\ operations'[o].sandbox = operations[o].sandbox
    /\ operations'[o].owns = operations[o].owns
SameResult(o) ==
    /\ operations'[o].ran = operations[o].ran
    /\ operations'[o].snapshot = operations[o].snapshot
    /\ operations'[o].extracted = operations[o].extracted
SameDelivery(o) ==
    /\ operations'[o].armed = operations[o].armed
    /\ operations'[o].cancelled = operations[o].cancelled
    /\ operations'[o].delivered = operations[o].delivered

(* The requests that are turned down, and inspect.                         *)
LEMMA RefusalStep ==
    ASSUME SupervisorInv, NEW o \in Operations, operations[o].pc = "request",
           NEW code \in {"ok", "error"},
           operations' = Answered(o, code), code = "error" \/ operations[o].kind = "inspect",
           UNCHANGED <<sandboxes, registry, results, closed>>
    PROVE  SupervisorInv' /\ Steady(o)
<1>0. operations \in [Operations -> Operation] /\ operations[o] \in Operation /\ Shape(o)
  BY DEF SupervisorInv, Types
<1>1. operations'[o] = [operations[o] EXCEPT !.pc = "respond", !.code = code]
  BY <1>0 DEF Answered
<1>2. operations'[o] \in Operation
  BY <1>0, <1>1 DEF Operation
<1>3. /\ operations' \in [Operations -> Operation]
      /\ \A q \in Operations : q # o => operations'[q] = operations[q]
  BY <1>0, <1>2 DEF Answered
<1>4. /\ operations'[o].pc = "respond" /\ operations'[o].code = code
      /\ SameRequest(o) /\ SameGrip(o) /\ SameResult(o) /\ SameDelivery(o)
  BY <1>0, <1>1 DEF Operation, SameRequest, SameGrip, SameResult, SameDelivery
<1>5. Moves(o)
  BY <1>0, <1>3, <1>4 DEF Moves, Answering, Shape, SameRequest, SameGrip, SameResult
<1>6. Shape(o)' /\ ReadOK(o)'
  BY <1>0, <1>4
     DEF Shape, ReadOK, Slotted, Holding, SameRequest, SameGrip, SameResult, SameDelivery
<1>s. Steady(o)
  BY <1>0, <1>4, <1>5 DEF Steady, Slotted, results, SameRequest, SameGrip, SameResult
<1> QED
  BY <1>s, <1>0, <1>4, <1>5, <1>6, HandlerStep
     DEF Culprit, Slotted, Holding, SameRequest, SameGrip, SameResult, SameDelivery

(* A connection that is not served.                                        *)
LEMMA DropStep ==
    ASSUME SupervisorInv, NEW o \in Operations, Drop(o)
    PROVE  SupervisorInv' /\ Steady(o)
<1>0. /\ operations \in [Operations -> Operation] /\ operations[o] \in Operation
      /\ Shape(o) /\ Aim(o) /\ Condition(o)
  BY DEF SupervisorInv, Types
<1>1. operations'[o] = [operations[o] EXCEPT !.pc = "closed", !.code = "error"]
  BY <1>0 DEF Drop
<1>2. operations'[o] \in Operation
  BY <1>0, <1>1 DEF Operation
<1>3. /\ operations' \in [Operations -> Operation]
      /\ \A q \in Operations : q # o => operations'[q] = operations[q]
  BY <1>0, <1>2 DEF Drop
<1>4. /\ operations'[o].pc = "closed" /\ operations'[o].code = "error"
      /\ SameRequest(o) /\ SameGrip(o) /\ SameResult(o) /\ SameDelivery(o)
  BY <1>0, <1>1 DEF Operation, SameRequest, SameGrip, SameResult, SameDelivery
<1>5. UNCHANGED <<sandboxes, registry, results, closed>> /\ operations[o].pc = "idle"
  BY DEF Drop
<1>6. Moves(o)
  BY <1>0, <1>3, <1>4, <1>5
     DEF Moves, Answering, Shape, Slotted, Holding, SameRequest, SameGrip, SameResult,
         SameDelivery
<1>7. Shape(o)' /\ ReadOK(o)'
  BY <1>0, <1>4, <1>5
     DEF Shape, ReadOK, Slotted, Holding, SameRequest, SameGrip, SameResult, SameDelivery
<1>s. Steady(o)
  BY <1>0, <1>4, <1>5, <1>6 DEF Steady, Slotted, results, SameRequest, SameGrip, SameResult
<1> QED
  BY <1>s, <1>0, <1>4, <1>5, <1>6, <1>7, HandlerStep
     DEF Shape, Culprit, Slotted, Holding, SameRequest, SameGrip, SameResult, SameDelivery

(* The client hangs up.                                                    *)
LEMMA AbandonStep ==
    ASSUME SupervisorInv, NEW o \in Operations, Abandon(o)
    PROVE  SupervisorInv' /\ Steady(o)
<1>0. /\ operations \in [Operations -> Operation] /\ operations[o] \in Operation
      /\ Shape(o) /\ Aim(o) /\ Condition(o)
  BY DEF SupervisorInv, Types
<1>1. operations'[o] = [operations[o] EXCEPT !.cancelled = TRUE]
  BY <1>0 DEF Abandon
<1>2. operations'[o] \in Operation
  BY <1>0, <1>1 DEF Operation
<1>3. /\ operations' \in [Operations -> Operation]
      /\ \A q \in Operations : q # o => operations'[q] = operations[q]
  BY <1>0, <1>2 DEF Abandon
<1>4. /\ operations'[o].pc = operations[o].pc /\ operations'[o].code = operations[o].code
      /\ operations'[o].armed = operations[o].armed /\ operations'[o].cancelled
      /\ operations'[o].delivered = operations[o].delivered
      /\ SameRequest(o) /\ SameGrip(o) /\ SameResult(o)
  BY <1>0, <1>1 DEF Operation, SameRequest, SameGrip, SameResult
<1>5. /\ UNCHANGED <<sandboxes, registry, results, closed>>
      /\ operations[o].kind \in {"create", "execute"}
      /\ operations[o].pc \notin {"idle", "linger", "closed"}
  BY DEF Abandon
<1>6. Moves(o)
  BY <1>0, <1>3, <1>4, <1>5
     DEF Moves, Answering, Shape, Slotted, Holding, SameRequest, SameGrip, SameResult
<1>7. Shape(o)' /\ ReadOK(o)'
  BY <1>0, <1>4, <1>5 DEF Shape, ReadOK, Slotted, Holding, SameRequest, SameGrip, SameResult
<1>s. Steady(o)
  BY <1>0, <1>4, <1>5, <1>6 DEF Steady, Slotted, results, SameRequest, SameGrip, SameResult
<1> QED
  BY <1>s, <1>0, <1>4, <1>5, <1>6, <1>7, HandlerStep
     DEF Shape, Culprit, Slotted, Holding, SameRequest, SameGrip, SameResult

(* Init has been waited for.                                               *)
LEMMA AwaitStep ==
    ASSUME SupervisorInv, NEW o \in Operations, AwaitExit(o)
    PROVE  SupervisorInv' /\ Steady(o)
<1>0. /\ operations \in [Operations -> Operation] /\ operations[o] \in Operation
      /\ Shape(o) /\ Aim(o) /\ Condition(o)
  BY DEF SupervisorInv, Types
<1>1. operations'[o] = [operations[o] EXCEPT !.pc = "finish"]
  BY <1>0 DEF AwaitExit
<1>2. operations'[o] \in Operation
  BY <1>0, <1>1 DEF Operation
<1>3. /\ operations' \in [Operations -> Operation]
      /\ \A q \in Operations : q # o => operations'[q] = operations[q]
  BY <1>0, <1>2 DEF AwaitExit
<1>4. /\ operations'[o].pc = "finish" /\ operations'[o].code = operations[o].code
      /\ SameRequest(o) /\ SameGrip(o) /\ SameResult(o) /\ SameDelivery(o)
  BY <1>0, <1>1 DEF Operation, SameRequest, SameGrip, SameResult, SameDelivery
<1>5. UNCHANGED <<sandboxes, registry, results, closed>> /\ operations[o].pc = "await"
      /\ sandboxes[operations[o].sandbox].exited
  BY DEF AwaitExit, Target
<1>6. Moves(o)
  BY <1>0, <1>3, <1>4, <1>5
     DEF Moves, Answering, Shape, Slotted, Holding, SameRequest, SameGrip, SameResult,
         SameDelivery
<1>7. Shape(o)' /\ ReadOK(o)'
  BY <1>0, <1>4, <1>5
     DEF Shape, ReadOK, Slotted, Holding, SameRequest, SameGrip, SameResult, SameDelivery
<1>s. Steady(o)
  BY <1>0, <1>4, <1>5, <1>6 DEF Steady, Slotted, results, SameRequest, SameGrip, SameResult
<1> QED
  BY <1>s, <1>0, <1>4, <1>5, <1>6, <1>7, HandlerStep
     DEF Shape, Culprit, Slotted, Holding, SameRequest, SameGrip, SameResult, SameDelivery

(* The handler of a Sandbox that was given up returns.                     *)
LEMMA LingerStep ==
    ASSUME SupervisorInv, NEW o \in Operations, Linger(o)
    PROVE  SupervisorInv' /\ Steady(o)
<1>0. /\ operations \in [Operations -> Operation] /\ operations[o] \in Operation
      /\ Shape(o) /\ Aim(o) /\ Condition(o)
  BY DEF SupervisorInv, Types
<1>1. operations'[o] = [operations[o] EXCEPT !.pc = "closed"]
  BY <1>0 DEF Linger
<1>2. operations'[o] \in Operation
  BY <1>0, <1>1 DEF Operation
<1>3. /\ operations' \in [Operations -> Operation]
      /\ \A q \in Operations : q # o => operations'[q] = operations[q]
  BY <1>0, <1>2 DEF Linger
<1>4. /\ operations'[o].pc = "closed" /\ operations'[o].code = operations[o].code
      /\ SameRequest(o) /\ SameGrip(o) /\ SameResult(o) /\ SameDelivery(o)
  BY <1>0, <1>1 DEF Operation, SameRequest, SameGrip, SameResult, SameDelivery
<1>5. /\ UNCHANGED <<sandboxes, registry, results, closed>> /\ operations[o].pc = "linger"
      /\ sandboxes[operations[o].sandbox].done
  BY DEF Linger, Target
<1>6. Moves(o)
  BY <1>0, <1>3, <1>4, <1>5
     DEF Moves, Answering, Shape, Slotted, Holding, SameRequest, SameGrip, SameResult,
         SameDelivery
<1>7. Shape(o)' /\ ReadOK(o)'
  BY <1>0, <1>4, <1>5
     DEF Shape, ReadOK, Slotted, Holding, SameRequest, SameGrip, SameResult, SameDelivery
<1>s. Steady(o)
  BY <1>0, <1>4, <1>5, <1>6 DEF Steady, Slotted, results, SameRequest, SameGrip, SameResult
<1> QED
  BY <1>s, <1>0, <1>4, <1>5, <1>6, <1>7, HandlerStep
     DEF Shape, Culprit, Slotted, Holding, SameRequest, SameGrip, SameResult, SameDelivery

(* A request comes in.                                                      *)
LEMMA AcceptStep ==
    ASSUME SupervisorInv, NEW o \in Operations, NEW kind \in Kinds, NEW id \in SandboxIds,
           NEW x \in ExecutionIds \union {Nobody}, NEW n \in Nat,
           kind \in {"execute", "read"} => x \in ExecutionIds, Accept(o, kind, id, x, n)
    PROVE  SupervisorInv' /\ Moves(o)
<1>0. /\ operations \in [Operations -> Operation] /\ operations[o] \in Operation
      /\ Shape(o) /\ Aim(o) /\ Condition(o)
  BY DEF SupervisorInv, Types
<1>a. kind \in {"create", "execute", "destroy", "inspect", "read"}
  BY SetAssumption
<1>1. operations'[o] = [operations[o] EXCEPT !.pc = "request", !.kind = kind, !.id = id,
                                             !.execution = x, !.paths = n]
  BY <1>0 DEF Accept
<1>2. operations'[o] \in Operation
  BY <1>0, <1>1, ZenonT(30) DEF Operation
<1>3. /\ operations' \in [Operations -> Operation]
      /\ \A q \in Operations : q # o => operations'[q] = operations[q]
  BY <1>0, <1>2 DEF Accept
<1>4. /\ operations'[o].pc = "request" /\ operations'[o].code = operations[o].code
      /\ operations'[o].kind = kind /\ operations'[o].id = id
      /\ operations'[o].execution = x /\ operations'[o].paths = n
      /\ SameGrip(o) /\ SameResult(o) /\ SameDelivery(o)
  BY <1>0, <1>1 DEF Operation, SameGrip, SameResult, SameDelivery
<1>5. UNCHANGED <<sandboxes, registry, results, closed>> /\ operations[o].pc = "idle"
  BY DEF Accept
<1>6. Moves(o)
  BY <1>0, <1>3, <1>4, <1>5
     DEF Moves, Answering, Shape, Slotted, Holding, SameGrip, SameResult, SameDelivery
<1>7. Shape(o)' /\ ReadOK(o)'
  BY <1>0, <1>a, <1>4, <1>5
     DEF Shape, ReadOK, Slotted, Holding, SameGrip, SameResult, SameDelivery
<1> QED
  BY <1>0, <1>4, <1>5, <1>6, <1>7, HandlerStep
     DEF Shape, Culprit, Slotted, Holding, SameGrip, SameResult, SameDelivery

(* The Execution begins.                                                   *)
LEMMA BeginRunsStep ==
    ASSUME SupervisorInv, NEW o \in Operations, BeginExecution(o), ~sandboxes[Target(o)].exited
    PROVE  SupervisorInv' /\ Moves(o)
<1>0. /\ operations \in [Operations -> Operation] /\ operations[o] \in Operation
      /\ Shape(o) /\ Aim(o) /\ Condition(o)
  BY DEF SupervisorInv, Types
<1>1. operations'[o] = [operations[o] EXCEPT !.pc = "run", !.ran = TRUE]
  BY <1>0 DEF BeginExecution
<1>2. operations'[o] \in Operation
  BY <1>0, <1>1 DEF Operation
<1>3. /\ operations' \in [Operations -> Operation]
      /\ \A q \in Operations : q # o => operations'[q] = operations[q]
  BY <1>0, <1>2 DEF BeginExecution
<1>4. /\ operations'[o].pc = "run" /\ operations'[o].code = operations[o].code
      /\ operations'[o].ran
      /\ operations'[o].snapshot = operations[o].snapshot
      /\ operations'[o].extracted = operations[o].extracted
      /\ SameRequest(o) /\ SameGrip(o) /\ SameDelivery(o)
  BY <1>0, <1>1 DEF Operation, SameRequest, SameGrip, SameDelivery
<1>5. UNCHANGED <<sandboxes, registry, results, closed>> /\ operations[o].pc = "begin"
  BY DEF BeginExecution
<1>6. Moves(o)
  BY <1>0, <1>3, <1>4, <1>5
     DEF Moves, Answering, Shape, Slotted, Holding, SameRequest, SameGrip, SameDelivery
<1>7. Shape(o)' /\ ReadOK(o)'
  BY <1>0, <1>4, <1>5
     DEF Shape, ReadOK, Slotted, Holding, SameRequest, SameGrip, SameDelivery
<1> QED
  BY <1>0, <1>4, <1>5, <1>6, <1>7, HandlerStep
     DEF Shape, Culprit, Slotted, Holding, SameRequest, SameGrip, SameDelivery

(* The Sandbox has exited: nothing is run.                                 *)
LEMMA BeginFailsStep ==
    ASSUME SupervisorInv, NEW o \in Operations, BeginExecution(o), sandboxes[Target(o)].exited
    PROVE  SupervisorInv' /\ Steady(o)
<1>0. /\ operations \in [Operations -> Operation] /\ operations[o] \in Operation
      /\ Shape(o) /\ Aim(o) /\ Condition(o)
  BY DEF SupervisorInv, Types
<1>1. operations'[o] = [operations[o] EXCEPT !.pc = "finish", !.code = "error"]
  BY <1>0 DEF BeginExecution
<1>2. operations'[o] \in Operation
  BY <1>0, <1>1, ZenonT(30) DEF Operation
<1>3. /\ operations' \in [Operations -> Operation]
      /\ \A q \in Operations : q # o => operations'[q] = operations[q]
  BY <1>0, <1>2 DEF BeginExecution
<1>4. /\ operations'[o].pc = "finish" /\ operations'[o].code = "error"
      /\ SameRequest(o) /\ SameGrip(o) /\ SameResult(o) /\ SameDelivery(o)
  BY <1>0, <1>1 DEF Operation, SameRequest, SameGrip, SameResult, SameDelivery
<1>5. UNCHANGED <<sandboxes, registry, results, closed>> /\ operations[o].pc = "begin"
  BY DEF BeginExecution
<1>6. Moves(o)
  BY <1>0, <1>3, <1>4, <1>5
     DEF Moves, Answering, Shape, Slotted, Holding, SameRequest, SameGrip, SameResult,
         SameDelivery
<1>7. Shape(o)' /\ ReadOK(o)'
  BY <1>0, <1>4, <1>5
     DEF Shape, ReadOK, Slotted, Holding, SameRequest, SameGrip, SameResult, SameDelivery
<1>s. Steady(o)
  BY <1>0, <1>4, <1>5, <1>6 DEF Steady, Slotted, results, SameRequest, SameGrip, SameResult
<1> QED
  BY <1>s, <1>0, <1>4, <1>5, <1>6, <1>7, HandlerStep
     DEF Shape, Culprit, Slotted, Holding, SameRequest, SameGrip, SameResult, SameDelivery

(* The slot that is read was published by an Execution that succeeded.     *)
LEMMA GetExecutionResultStep ==
    ASSUME SupervisorInv, NEW o \in Operations, GetExecutionResult(o)
    PROVE  SupervisorInv' /\ Steady(o)
<1> DEFINE slot == slots[RefOf(o)]
           snapshot == IF slot.published THEN slot.by ELSE Nobody
<1>0. /\ operations \in [Operations -> Operation] /\ operations[o] \in Operation
      /\ Shape(o) /\ Aim(o) /\ Condition(o) /\ slots \in [References -> Slot]
  BY DEF SupervisorInv, Types
<1>a. operations[o].pc = "request" /\ operations[o].kind = "read"
  BY DEF GetExecutionResult, At
<1>b. RefOf(o) \in References /\ slot \in Slot
  BY <1>0, <1>a DEF Shape, RefOf, References
<1>c. slot.published \in BOOLEAN /\ slot.by \in Pointers /\ Nobody \in Pointers
  BY <1>b DEF Slot, Pointers
<1> HIDE DEF slot
<1>1. operations'[o] = [operations[o] EXCEPT !.pc = "respond", !.code = Outcome(slot.published),
                                             !.snapshot = snapshot]
  BY <1>0 DEF GetExecutionResult, Answered, slot
<1>d. snapshot \in Pointers /\ Outcome(slot.published) \in {"ok", "error"}
  BY <1>c DEF Outcome
<1> HIDE DEF snapshot
<1>2. operations'[o] \in Operation
  BY <1>0, <1>1, <1>d DEF Operation
<1>3. /\ operations' \in [Operations -> Operation]
      /\ \A q \in Operations : q # o => operations'[q] = operations[q]
  BY <1>0, <1>2 DEF GetExecutionResult, Answered
<1>4. /\ operations'[o].pc = "respond" /\ operations'[o].code = Outcome(slot.published)
      /\ operations'[o].snapshot = snapshot
      /\ operations'[o].ran = operations[o].ran
      /\ operations'[o].extracted = operations[o].extracted
      /\ SameRequest(o) /\ SameGrip(o) /\ SameDelivery(o)
  BY <1>0, <1>1 DEF Operation, SameRequest, SameGrip, SameDelivery
<1>5. UNCHANGED <<sandboxes, registry, results, closed>>
  BY DEF GetExecutionResult
<1>6. Moves(o)
  BY <1>0, <1>3, <1>4, <1>a DEF Moves, Answering, Shape, SameRequest, SameGrip
<1>7. Shape(o)'
  BY <1>0, <1>4, <1>a DEF Shape, Slotted, Holding, SameRequest, SameGrip, SameDelivery
<1>8. ReadOK(o)'
  <2> SUFFICES ASSUME operations'[o].code = "ok" PROVE ReadOK(o)'
    BY DEF ReadOK
  <2>1. slot.published /\ snapshot = slot.by
    BY <1>4 DEF Outcome, snapshot
  <2>2. SlotOK(RefOf(o))
    BY <1>b DEF SupervisorInv
  <2>3. snapshot # Nobody /\ snapshot \in Operations
    BY <1>c, <2>1, <2>2 DEF SlotOK, NoSlot, slot, Pointers
  <2>4. /\ operations[snapshot].kind = "execute" /\ operations[snapshot].code = "ok"
        /\ operations[snapshot].pc \in Answering /\ RefOf(snapshot) = RefOf(o)
    BY <2>1, <2>2, <2>3 DEF SlotOK, slot
  <2>5. operations'[snapshot] = operations[snapshot]
    BY <1>3, <1>a, <2>3, <2>4
  <2> QED
    BY <1>4, <2>3, <2>4, <2>5 DEF ReadOK, RefOf, SameRequest
<1>s. Steady(o)
  BY <1>0, <1>4, <1>5, <1>6, <1>a DEF Steady, Slotted, results, SameRequest, SameGrip
<1> QED
  BY <1>s, <1>0, <1>4, <1>5, <1>6, <1>7, <1>8, <1>a, HandlerStep
     DEF Shape, Culprit, Slotted, Holding, SameRequest, SameGrip, SameDelivery

-----------------------------------------------------------------------------
(* What a step on a Sandbox leaves alone as long as it is not released.    *)
SameHome(b) ==
    /\ sandboxes'[b].identityOffset = sandboxes[b].identityOffset
    /\ sandboxes'[b].done = sandboxes[b].done
    /\ sandboxes'[b].cleanupErr = sandboxes[b].cleanupErr
    /\ sandboxes'[b].execution = sandboxes[b].execution
    /\ sandboxes'[b].extractedBytes = sandboxes[b].extractedBytes

(* What the process, the wait goroutine and the Supervisor's context do.   *)
LEMMA SandboxStep ==
    ASSUME SupervisorInv, NEW b \in Operations,
           UNCHANGED <<operations, registry, results>>, closed' \in BOOLEAN, closed => closed',
           sandboxes' \in [Operations -> Sandbox],
           \A c \in Operations : c # b => sandboxes'[c] = sandboxes[c],
           SameHome(b), sandboxes'[b].published = sandboxes[b].published,
           sandboxes[b].terminating => sandboxes'[b].terminating,
           sandboxes'[b].cancelled => sandboxes[b].cancelled \/ sandboxes'[b].terminating,
           Condition(b)'
    PROVE  SupervisorInv'
<1>0. /\ Shape(b) /\ Aim(b) /\ Destroyed(b) /\ ReadOK(b) /\ OwnSlot(b) /\ DeliveryDecides
      /\ operations \in [Operations -> Operation] /\ operations[b].sandbox \in Pointers
  BY DEF SupervisorInv, Types, Operation
<1>1. \A c \in Operations :
        /\ sandboxes'[c].done = sandboxes[c].done
        /\ sandboxes'[c].cleanupErr = sandboxes[c].cleanupErr
        /\ sandboxes'[c].extractedBytes = sandboxes[c].extractedBytes
  BY DEF SameHome
<1>2. Moves(b)
  BY <1>0 DEF Moves
<1>3. Shape(b)' /\ Aim(b)' /\ ReadOK(b)' /\ (Created(b)' <=> Created(b)) /\ (Culprit(b)' <=> Culprit(b))
  BY <1>0 DEF Shape, Aim, ReadOK, Created, Culprit, IdOf, RefOf
<1>4. Destroyed(b)' /\ OwnSlot(b)'
  <2>1. operations[b].sandbox # Nobody => operations[b].sandbox \in Operations
    BY <1>0 DEF Pointers
  <2>2. operations[b].pc \in Slotted => operations[b].sandbox # Nobody
    BY <1>0 DEF Shape, Slotted, Holding
  <2> QED
    BY <1>0, <1>1, <2>1, <2>2 DEF Destroyed, OwnSlot, Allowed, allowance, RefOf, results
<1>5. operations'[b].pc = "closed" /\ operations'[b].owns /\ ~operations'[b].delivered =>
        operations'[b].sandbox \in Operations /\ sandboxes'[operations'[b].sandbox].done
  BY <1>0, <1>1 DEF DeliveryDecides, Shape, Pointers, Target
<1>6. UNCHANGED <<active, retired, directories, slots, reservedBytes>>
  BY DEF registry, results
<1> QED
  BY <1>2, <1>3, <1>4, <1>5, <1>6, QuietStep DEF SameHome

(* Init exits by itself or is killed.                                      *)
LEMMA ProcessStep ==
    ASSUME SupervisorInv, NEW b \in Operations, InitExits(b) \/ KillInit(b)
    PROVE  SupervisorInv' /\ Steady(b)
<1>0. /\ sandboxes \in [Operations -> Sandbox] /\ sandboxes[b] \in Sandbox /\ Condition(b)
      /\ closed \in BOOLEAN /\ operations \in [Operations -> Operation]
  BY DEF SupervisorInv, Types
<1>1. sandboxes[b].process = "alive" /\ sandboxes' = [sandboxes EXCEPT ![b].process = "dead"]
  BY DEF InitExits, KillInit
<1>2. sandboxes'[b] = [sandboxes[b] EXCEPT !.process = "dead"]
  BY <1>0, <1>1
<1>3. sandboxes'[b] \in Sandbox
  BY <1>0, <1>2 DEF Sandbox
<1>4. /\ sandboxes' \in [Operations -> Sandbox]
      /\ \A c \in Operations : c # b => sandboxes'[c] = sandboxes[c]
  BY <1>0, <1>1, <1>3
<1>5. /\ sandboxes'[b].process = "dead" /\ SameHome(b)
      /\ sandboxes'[b].published = sandboxes[b].published
      /\ sandboxes'[b].exited = sandboxes[b].exited
      /\ sandboxes'[b].terminating = sandboxes[b].terminating
      /\ sandboxes'[b].cancelled = sandboxes[b].cancelled
  BY <1>0, <1>2 DEF Sandbox, SameHome
<1>6. UNCHANGED <<operations, registry, results, closed>>
  BY DEF InitExits, KillInit
<1>7. Condition(b)'
  BY <1>0, <1>1, <1>5, <1>6 DEF Condition, Created, SameHome
<1>s. Steady(b)
  BY <1>0, <1>4, <1>5, <1>6 DEF Steady, Moves, results
<1> QED
  BY <1>s, <1>0, <1>4, <1>5, <1>6, <1>7, SandboxStep

(* Init is reaped.                                                         *)
LEMMA ReapedStep ==
    ASSUME SupervisorInv, NEW b \in Operations, Reaped(b)
    PROVE  SupervisorInv' /\ Steady(b)
<1>0. /\ sandboxes \in [Operations -> Sandbox] /\ sandboxes[b] \in Sandbox /\ Condition(b)
      /\ closed \in BOOLEAN /\ operations \in [Operations -> Operation]
  BY DEF SupervisorInv, Types
<1>1. /\ sandboxes[b].published /\ sandboxes[b].process = "dead" /\ ~sandboxes[b].exited
      /\ sandboxes' = [sandboxes EXCEPT ![b].cancelled = TRUE, ![b].terminating = TRUE,
                                        ![b].exited = TRUE]
  BY DEF Reaped
<1>2. sandboxes'[b] = [sandboxes[b] EXCEPT !.cancelled = TRUE, !.terminating = TRUE, !.exited = TRUE]
  BY <1>0, <1>1
<1>3. sandboxes'[b] \in Sandbox
  BY <1>0, <1>2 DEF Sandbox
<1>4. /\ sandboxes' \in [Operations -> Sandbox]
      /\ \A c \in Operations : c # b => sandboxes'[c] = sandboxes[c]
  BY <1>0, <1>1, <1>3
<1>5. /\ sandboxes'[b].process = sandboxes[b].process /\ SameHome(b)
      /\ sandboxes'[b].published = sandboxes[b].published
      /\ sandboxes'[b].exited /\ sandboxes'[b].terminating /\ sandboxes'[b].cancelled
  BY <1>0, <1>2 DEF Sandbox, SameHome
<1>6. UNCHANGED <<operations, registry, results, closed>>
  BY DEF Reaped
<1>7. Condition(b)'
  BY <1>0, <1>1, <1>5, <1>6 DEF Condition, Created, SameHome
<1>s. Steady(b)
  BY <1>0, <1>4, <1>5, <1>6 DEF Steady, Moves, results
<1> QED
  BY <1>s, <1>0, <1>4, <1>5, <1>6, <1>7, SandboxStep

(* The Supervisor shuts down, or nothing happens.                          *)
LEMMA ShutdownStep ==
    ASSUME SupervisorInv, UNCHANGED <<operations, sandboxes, registry, results>>,
           closed' \in BOOLEAN, closed => closed'
    PROVE  SupervisorInv'
<1>0. UNCHANGED <<operations, sandboxes, active, retired, directories, slots, reservedBytes>>
  BY DEF registry, results
<1>1. Types'
  BY <1>0 DEF SupervisorInv, Types
<1>2. (\A o \in Operations : Shape(o) /\ Aim(o) /\ Held(o) /\ Destroyed(o) /\ ReadOK(o))'
  BY <1>0 DEF SupervisorInv, Shape, Aim, Held, Destroyed, ReadOK, Created, IdOf, RefOf
<1>3. (\A o \in Operations : OwnSlot(o))'
  BY <1>0 DEF SupervisorInv, OwnSlot, Allowed, allowance, RefOf
<1>4. (\A b \in Operations : Condition(b) /\ Mutex(b) /\ Registration(b))'
  BY <1>0 DEF SupervisorInv, Condition, Mutex, Registration, Created, IdOf
<1>5. RegistryOK' /\ OncePublished' /\ (\A ref \in References : SlotOK(ref))'
  BY <1>0 DEF SupervisorInv, RegistryOK, OncePublished, SlotOK, Created, IdOf, RefOf
<1>6. Accounts'
  <2>1. Retained' = Retained /\ BytesOf(Retained)' = BytesOf(Retained)
    BY <1>0, BytesOfIsTotal, Zenon DEF Retained
  <2> QED
    BY <1>0, <2>1 DEF SupervisorInv, Accounts
<1>7. DeliveryDecides'
  BY <1>0 DEF SupervisorInv, DeliveryDecides, Causes, Target
<1> QED
  BY <1>1, <1>2, <1>3, <1>4, <1>5, <1>6, <1>7 DEF SupervisorInv

-----------------------------------------------------------------------------
(* A step of an operation on the Sandbox it owns.                          *)
LEMMA GripStep ==
    ASSUME SupervisorInv, NEW o \in Operations, NEW b \in Operations, Moves(o),
           operations[o].owns, operations[o].sandbox = b,
           UNCHANGED <<registry, results, closed>>,
           operations'[o].extracted = operations[o].extracted,
           sandboxes' \in [Operations -> Sandbox],
           \A c \in Operations : c # b => sandboxes'[c] = sandboxes[c],
           SameHome(b),
           /\ sandboxes[b].published => sandboxes'[b].published
           /\ sandboxes'[b].published =>
                 sandboxes[b].published \/ (active[IdOf(b)] = b /\ Created(b))
           /\ sandboxes'[b].terminating = sandboxes[b].terminating
           /\ sandboxes'[b].cancelled => sandboxes[b].cancelled \/ Culprit(o)',
           /\ operations'[o].pc \in {"begin", "run"} => operations[o].pc \in {"begin", "run"}
           /\ operations'[o].pc \in Holding <=> operations[o].pc \in Holding
           /\ operations'[o].pc \in Slotted <=> operations[o].pc \in Slotted
           /\ operations'[o].pc = "closed" => operations'[o].delivered,
           Culprit(o) => Culprit(o)', Shape(o)', Condition(o)', Condition(b)'
    PROVE  SupervisorInv'
<1>0. /\ Shape(o) /\ Aim(o) /\ OwnSlot(o) /\ closed \in BOOLEAN
  BY DEF SupervisorInv, Types
<1>1. /\ operations[o].kind \in {"create", "execute"} /\ b # Nobody
      /\ operations'[o].kind = operations[o].kind /\ operations'[o].id = operations[o].id
      /\ operations'[o].paths = operations[o].paths /\ RefOf(o)' = RefOf(o)
      /\ operations'[o].sandbox = b /\ operations'[o].owns
  BY <1>0, Settled DEF Shape, Moves
<1>2. Aim(o)'
  <2>1. Created(b)' /\ IdOf(b)' = operations[o].id
    BY <1>0, <1>1, Settled DEF Aim
  <2> QED
    BY <1>1, <2>1 DEF Aim, Created, IdOf
<1>3. Destroyed(o)' /\ ReadOK(o)'
  BY <1>1 DEF Destroyed, ReadOK
<1>4. OwnSlot(o)'
  BY <1>0, <1>1, SMTT(90) DEF OwnSlot, Allowed, allowance, results, RefOf, SameHome
<1>5. Created(o)' => Created(o)
  BY <1>1 DEF Created
<1>6. UNCHANGED <<active, retired, directories, slots, reservedBytes>> /\ closed' \in BOOLEAN
  BY <1>0 DEF registry, results
<1> QED
  BY <1>0, <1>1, <1>2, <1>3, <1>4, <1>5, <1>6, QuietStep DEF SameHome

(* Init is started.                                                        *)
LEMMA StartInitStep ==
    ASSUME SupervisorInv, NEW o \in Operations, StartInit(o)
    PROVE  SupervisorInv' /\ Steady(o)
<1>0. /\ operations \in [Operations -> Operation] /\ operations[o] \in Operation
      /\ Shape(o) /\ Aim(o) /\ Condition(o)
  BY DEF SupervisorInv, Types
<1>a. sandboxes \in [Operations -> Sandbox] /\ Condition(o) /\ sandboxes[o] \in Sandbox
  BY DEF SupervisorInv, Types
<1>1. operations'[o] = [operations[o] EXCEPT !.pc = "ready"]
  BY <1>0 DEF StartInit
<1>2. operations'[o] \in Operation
  BY <1>0, <1>1 DEF Operation
<1>3. /\ operations' \in [Operations -> Operation]
      /\ \A q \in Operations : q # o => operations'[q] = operations[q]
  BY <1>0, <1>2 DEF StartInit
<1>4. /\ operations'[o].pc = "ready" /\ operations'[o].code = operations[o].code
      /\ SameRequest(o) /\ SameGrip(o) /\ SameResult(o) /\ SameDelivery(o)
  BY <1>0, <1>1 DEF Operation, SameRequest, SameGrip, SameResult, SameDelivery
<1>5. /\ UNCHANGED <<registry, results, closed>> /\ operations[o].pc = "start"
      /\ operations[o].owns /\ operations[o].sandbox = o
  BY <1>0 DEF StartInit, Shape
<1>6. sandboxes'[o] = [sandboxes[o] EXCEPT !.process = "alive"]
  BY <1>a, <1>5 DEF StartInit, Target
<1>7. sandboxes'[o] \in Sandbox
  BY <1>a, <1>6 DEF Sandbox
<1>8. /\ sandboxes' \in [Operations -> Sandbox]
      /\ \A c \in Operations : c # o => sandboxes'[c] = sandboxes[c]
  BY <1>a, <1>5, <1>7 DEF StartInit, Target
<1>9. /\ sandboxes'[o].process = "alive" /\ SameHome(o)
      /\ sandboxes'[o].terminating = sandboxes[o].terminating
      /\ sandboxes'[o].exited = sandboxes[o].exited
      /\ sandboxes'[o].cancelled = sandboxes[o].cancelled
      /\ sandboxes'[o].published = sandboxes[o].published
  BY <1>a, <1>6 DEF Sandbox, SameHome
<1>10. Moves(o)
  BY <1>0, <1>3, <1>4, <1>5
     DEF Moves, Answering, Shape, Slotted, Holding, SameRequest, SameGrip, SameResult,
         SameDelivery
<1>11. Shape(o)'
  BY <1>0, <1>4, <1>5
     DEF Shape, Slotted, Holding, SameRequest, SameGrip, SameResult, SameDelivery
<1>c. ~sandboxes[o].exited /\ ~sandboxes[o].done /\ Created(o)'
  BY <1>0, <1>4, <1>5, <1>a DEF Condition, Shape, Created, SameRequest, SameGrip
<1>12. Condition(o)'
  BY <1>0, <1>3, <1>4, <1>5, <1>9, <1>a, <1>c
     DEF Condition, Created, SameHome, SameRequest, SameGrip, SameResult, SameDelivery
<1>s. Steady(o)
  BY <1>0, <1>4, <1>5, <1>8, <1>9, <1>10
     DEF Steady, Slotted, results, SameRequest, SameGrip, SameResult
<1> QED
  BY <1>s, <1>0, <1>4, <1>5, <1>8, <1>9, <1>10, <1>11, <1>12, GripStep
     DEF Culprit, Slotted, Holding, SameRequest, SameGrip, SameResult, SameDelivery

(* A creation fails.                                                       *)
LEMMA CreateFailsStep ==
    ASSUME SupervisorInv, NEW o \in Operations, CreateFails(o)
    PROVE  SupervisorInv' /\ Steady(o)
<1>0. /\ operations \in [Operations -> Operation] /\ operations[o] \in Operation
      /\ Shape(o) /\ Aim(o) /\ Condition(o)
  BY DEF SupervisorInv, Types
<1>a. sandboxes \in [Operations -> Sandbox] /\ Condition(o) /\ sandboxes[o] \in Sandbox
  BY DEF SupervisorInv, Types
<1>1. operations'[o] = [operations[o] EXCEPT !.pc = "unwind", !.code = "error"]
  BY <1>0 DEF CreateFails
<1>2. operations'[o] \in Operation
  BY <1>0, <1>1 DEF Operation
<1>3. /\ operations' \in [Operations -> Operation]
      /\ \A q \in Operations : q # o => operations'[q] = operations[q]
  BY <1>0, <1>2 DEF CreateFails
<1>4. /\ operations'[o].pc = "unwind" /\ operations'[o].code = "error"
      /\ SameRequest(o) /\ SameGrip(o) /\ SameResult(o) /\ SameDelivery(o)
  BY <1>0, <1>1 DEF Operation, SameRequest, SameGrip, SameResult, SameDelivery
<1>5. /\ UNCHANGED <<registry, results, closed>> /\ operations[o].pc \in {"start", "ready"}
      /\ operations[o].owns /\ operations[o].sandbox = o
  BY <1>0 DEF CreateFails, Shape
<1>6. sandboxes'[o] = [sandboxes[o] EXCEPT !.process = IF @ = "none" THEN @ ELSE "dead"]
  BY <1>a, <1>5 DEF CreateFails, Target
<1>7. sandboxes'[o] \in Sandbox
  BY <1>a, <1>6 DEF Sandbox
<1>8. /\ sandboxes' \in [Operations -> Sandbox]
      /\ \A c \in Operations : c # o => sandboxes'[c] = sandboxes[c]
  BY <1>a, <1>5, <1>7 DEF CreateFails, Target
<1>9. /\ sandboxes'[o].process \in {"none", "dead"} /\ SameHome(o)
      /\ sandboxes[o].process = "none" => sandboxes'[o].process = "none"
      /\ sandboxes'[o].terminating = sandboxes[o].terminating
      /\ sandboxes'[o].exited = sandboxes[o].exited
      /\ sandboxes'[o].cancelled = sandboxes[o].cancelled
      /\ sandboxes'[o].published = sandboxes[o].published
  BY <1>a, <1>6 DEF Sandbox, SameHome
<1>10. Moves(o)
  BY <1>0, <1>3, <1>4, <1>5
     DEF Moves, Answering, Shape, Slotted, Holding, SameRequest, SameGrip, SameResult,
         SameDelivery
<1>11. Shape(o)'
  BY <1>0, <1>4, <1>5
     DEF Shape, Slotted, Holding, SameRequest, SameGrip, SameResult, SameDelivery
<1>12. Condition(o)'
  BY <1>0, <1>3, <1>4, <1>5, <1>9, <1>a
     DEF Condition, Created, SameHome, SameRequest, SameGrip, SameResult, SameDelivery
<1>s. Steady(o)
  BY <1>0, <1>4, <1>5, <1>8, <1>9, <1>10
     DEF Steady, Slotted, results, SameRequest, SameGrip, SameResult
<1> QED
  BY <1>s, <1>0, <1>4, <1>5, <1>8, <1>9, <1>10, <1>11, <1>12, GripStep
     DEF Culprit, Slotted, Holding, SameRequest, SameGrip, SameResult, SameDelivery

(* Init is ready: the Sandbox is handed to its wait goroutine.             *)
LEMMA TransferStep ==
    ASSUME SupervisorInv, NEW o \in Operations, Transfer(o)
    PROVE  SupervisorInv' /\ Steady(o)
<1>0. /\ operations \in [Operations -> Operation] /\ operations[o] \in Operation
      /\ Shape(o) /\ Aim(o) /\ Condition(o)
  BY DEF SupervisorInv, Types
<1>a. sandboxes \in [Operations -> Sandbox] /\ Condition(o) /\ sandboxes[o] \in Sandbox
  BY DEF SupervisorInv, Types
<1>1. operations'[o] = [operations[o] EXCEPT !.pc = "respond", !.code = "ok"]
  BY <1>0 DEF Transfer, Answered
<1>2. operations'[o] \in Operation
  BY <1>0, <1>1 DEF Operation
<1>3. /\ operations' \in [Operations -> Operation]
      /\ \A q \in Operations : q # o => operations'[q] = operations[q]
  BY <1>0, <1>2 DEF Transfer, Answered
<1>4. /\ operations'[o].pc = "respond" /\ operations'[o].code = "ok"
      /\ SameRequest(o) /\ SameGrip(o) /\ SameResult(o) /\ SameDelivery(o)
  BY <1>0, <1>1 DEF Operation, SameRequest, SameGrip, SameResult, SameDelivery
<1>5. /\ UNCHANGED <<registry, results, closed>> /\ operations[o].pc = "ready"
      /\ operations[o].owns /\ operations[o].sandbox = o
  BY <1>0 DEF Transfer, Answered, Shape
<1>6. sandboxes'[o] = [sandboxes[o] EXCEPT !.published = TRUE]
  BY <1>a, <1>5 DEF Transfer, Answered, Target
<1>7. sandboxes'[o] \in Sandbox
  BY <1>a, <1>6 DEF Sandbox
<1>8. /\ sandboxes' \in [Operations -> Sandbox]
      /\ \A c \in Operations : c # o => sandboxes'[c] = sandboxes[c]
  BY <1>a, <1>5, <1>7 DEF Transfer, Answered, Target
<1>9. /\ sandboxes'[o].published /\ SameHome(o)
      /\ sandboxes'[o].terminating = sandboxes[o].terminating
      /\ sandboxes'[o].exited = sandboxes[o].exited
      /\ sandboxes'[o].cancelled = sandboxes[o].cancelled
      /\ sandboxes'[o].process = sandboxes[o].process
  BY <1>a, <1>6 DEF Sandbox, SameHome
<1>10. Moves(o)
  BY <1>0, <1>3, <1>4, <1>5
     DEF Moves, Answering, Shape, Slotted, Holding, SameRequest, SameGrip, SameResult,
         SameDelivery
<1>11. Shape(o)'
  BY <1>0, <1>4, <1>5
     DEF Shape, Slotted, Holding, SameRequest, SameGrip, SameResult, SameDelivery
<1>c. ~sandboxes[o].exited /\ ~sandboxes[o].done /\ Created(o)'
  BY <1>0, <1>4, <1>5, <1>a DEF Condition, Shape, Created, SameRequest, SameGrip
<1>12. Condition(o)'
  BY <1>0, <1>3, <1>4, <1>5, <1>9, <1>a, <1>c
     DEF Condition, Created, SameHome, SameRequest, SameGrip, SameResult, SameDelivery
<1>b. active[IdOf(o)] = o /\ Created(o)
  BY <1>0, <1>5, <1>a DEF SupervisorInv, Registration, Condition, Created, Shape
<1>s. Steady(o)
  BY <1>0, <1>4, <1>5, <1>8, <1>9, <1>10
     DEF Steady, Slotted, results, SameRequest, SameGrip, SameResult
<1> QED
  BY <1>s, <1>0, <1>4, <1>5, <1>8, <1>9, <1>10, <1>11, <1>12, <1>b, GripStep
     DEF Culprit, Slotted, Holding, SameRequest, SameGrip, SameResult, SameDelivery

(* The client is gone: the Sandbox its operation owns is cancelled.        *)
LEMMA CancelOwnedStep ==
    ASSUME SupervisorInv, NEW o \in Operations, CancelOwned(o)
    PROVE  SupervisorInv' /\ Steady(o)
<1>0. /\ operations \in [Operations -> Operation] /\ operations[o] \in Operation
      /\ Shape(o) /\ Aim(o) /\ Condition(o)
  BY DEF SupervisorInv, Types
<1> DEFINE b == operations[o].sandbox
<1>b. b \in Operations /\ operations[o].owns
  BY <1>0 DEF CancelOwned, Shape, Slotted, Operation, Pointers
<1>a. sandboxes \in [Operations -> Sandbox] /\ Condition(b) /\ sandboxes[b] \in Sandbox
  BY <1>b DEF SupervisorInv, Types
<1>1. operations'[o] = [operations[o] EXCEPT !.armed = FALSE]
  BY <1>0 DEF CancelOwned
<1>2. operations'[o] \in Operation
  BY <1>0, <1>1 DEF Operation
<1>3. /\ operations' \in [Operations -> Operation]
      /\ \A q \in Operations : q # o => operations'[q] = operations[q]
  BY <1>0, <1>2 DEF CancelOwned
<1>4. /\ operations'[o].pc = operations[o].pc /\ operations'[o].code = operations[o].code
      /\ ~operations'[o].armed /\ operations'[o].cancelled = operations[o].cancelled
      /\ operations'[o].delivered = operations[o].delivered
      /\ SameRequest(o) /\ SameGrip(o) /\ SameResult(o)
  BY <1>0, <1>1 DEF Operation, SameRequest, SameGrip, SameResult
<1>5. /\ UNCHANGED <<registry, results, closed>> /\ operations[o].cancelled
      /\ operations[o].owns /\ operations[o].sandbox = b
      /\ operations[o].pc \notin {"linger", "closed"}
  BY <1>0, <1>b DEF CancelOwned, Shape
<1>6. sandboxes'[b] = [sandboxes[b] EXCEPT !.cancelled = TRUE]
  BY <1>a, <1>b, <1>5 DEF CancelOwned, Target
<1>7. sandboxes'[b] \in Sandbox
  BY <1>a, <1>6 DEF Sandbox
<1>8. /\ sandboxes' \in [Operations -> Sandbox]
      /\ \A c \in Operations : c # b => sandboxes'[c] = sandboxes[c]
  BY <1>a, <1>5, <1>7 DEF CancelOwned, Target
<1>9. /\ sandboxes'[b].cancelled /\ SameHome(b)
      /\ sandboxes'[b].terminating = sandboxes[b].terminating
      /\ sandboxes'[b].exited = sandboxes[b].exited
      /\ sandboxes'[b].published = sandboxes[b].published
      /\ sandboxes'[b].process = sandboxes[b].process
  BY <1>a, <1>6 DEF Sandbox, SameHome
<1>10. Moves(o)
  BY <1>0, <1>3, <1>4, <1>5
     DEF Moves, Answering, Shape, Slotted, Holding, SameRequest, SameGrip, SameResult
<1>11. Shape(o)'
  BY <1>0, <1>4, <1>5 DEF Shape, Slotted, Holding, SameRequest, SameGrip, SameResult
<1>c. Created(b)'
  BY <1>0, <1>10, <1>b, Settled, NobodyAssumption DEF Aim
<1>12. Condition(o)' /\ Condition(b)'
  BY <1>c, <1>0, <1>3, <1>4, <1>5, <1>9, <1>a, <1>8, <1>b
     DEF Condition, Created, SameHome, SameRequest, SameGrip, SameResult
<1>s. Steady(o)
  BY <1>0, <1>4, <1>5, <1>8, <1>9, <1>10
     DEF Steady, Slotted, results, SameRequest, SameGrip, SameResult
<1> QED
  BY <1>s, <1>0, <1>4, <1>5, <1>8, <1>9, <1>10, <1>11, <1>12, <1>b, GripStep
     DEF Culprit, Slotted, Holding, SameRequest, SameGrip, SameResult

(* An Execution ends in doubt: its Init is killed.                         *)
LEMMA RunIncompleteStep ==
    ASSUME SupervisorInv, NEW o \in Operations, NEW evidence \in BOOLEAN, RunIncomplete(o, evidence)
    PROVE  SupervisorInv' /\ Steady(o)
<1>0. /\ operations \in [Operations -> Operation] /\ operations[o] \in Operation
      /\ Shape(o) /\ Aim(o) /\ Condition(o)
  BY DEF SupervisorInv, Types
<1> DEFINE b == operations[o].sandbox
<1>b. b \in Operations /\ operations[o].owns
  BY <1>0 DEF RunIncomplete, Shape, Slotted, Operation, Pointers
<1>a. sandboxes \in [Operations -> Sandbox] /\ Condition(b) /\ sandboxes[b] \in Sandbox
  BY <1>b DEF SupervisorInv, Types
<1>d. PICK s \in Pointers : s = IF evidence THEN o ELSE Nobody
  BY DEF Pointers
<1>e. PICK code \in {"ok", "error"} : code = Outcome(evidence)
  BY DEF Outcome
<1>1. operations'[o] = [operations[o] EXCEPT !.pc = "await", !.snapshot = s, !.code = code]
  BY <1>0, <1>d, <1>e DEF RunIncomplete
<1>2. operations'[o] \in Operation
  BY <1>0, <1>1 DEF Operation
<1>3. /\ operations' \in [Operations -> Operation]
      /\ \A q \in Operations : q # o => operations'[q] = operations[q]
  BY <1>0, <1>2, <1>d, <1>e DEF RunIncomplete
<1>4. /\ operations'[o].pc = "await" /\ operations'[o].code = code
      /\ operations'[o].snapshot = s
      /\ operations'[o].ran = operations[o].ran
      /\ operations'[o].extracted = operations[o].extracted
      /\ SameRequest(o) /\ SameGrip(o) /\ SameDelivery(o)
  BY <1>0, <1>1 DEF Operation, SameRequest, SameGrip, SameDelivery
<1>5. /\ UNCHANGED <<registry, results, closed>> /\ operations[o].pc = "run"
      /\ operations[o].owns /\ operations[o].sandbox = b
  BY <1>0, <1>b DEF RunIncomplete, Shape
<1>6. sandboxes'[b] = [sandboxes[b] EXCEPT !.process = "dead"]
  BY <1>a, <1>b, <1>5 DEF RunIncomplete, Target
<1>7. sandboxes'[b] \in Sandbox
  BY <1>a, <1>6 DEF Sandbox
<1>8. /\ sandboxes' \in [Operations -> Sandbox]
      /\ \A c \in Operations : c # b => sandboxes'[c] = sandboxes[c]
  BY <1>a, <1>5, <1>7 DEF RunIncomplete, Target
<1>9. /\ sandboxes'[b].process = "dead" /\ SameHome(b)
      /\ sandboxes'[b].terminating = sandboxes[b].terminating
      /\ sandboxes'[b].exited = sandboxes[b].exited
      /\ sandboxes'[b].cancelled = sandboxes[b].cancelled
      /\ sandboxes'[b].published = sandboxes[b].published
  BY <1>a, <1>6 DEF Sandbox, SameHome
<1>10. Moves(o)
  BY <1>0, <1>3, <1>4, <1>5
     DEF Moves, Answering, Shape, Slotted, Holding, SameRequest, SameGrip, SameDelivery
<1>f. code = "ok" <=> s = o
  BY <1>d, <1>e, NobodyAssumption DEF Outcome
<1>11. Shape(o)'
  BY <1>0, <1>d, <1>e, <1>f, <1>4, <1>5
     DEF Shape, Slotted, Holding, SameRequest, SameGrip, SameDelivery
<1>c. Created(b)'
  BY <1>0, <1>10, <1>b, Settled, NobodyAssumption DEF Aim
<1>12. Condition(o)' /\ Condition(b)'
  BY <1>c, <1>0, <1>3, <1>4, <1>5, <1>9, <1>a, <1>8, <1>b
     DEF Condition, Created, SameHome, SameRequest, SameGrip, SameDelivery
<1>s. Steady(o)
  BY <1>0, <1>4, <1>5, <1>8, <1>9, <1>10 DEF Steady, Slotted, results, SameRequest, SameGrip
<1> QED
  BY <1>s, <1>0, <1>4, <1>5, <1>8, <1>9, <1>10, <1>11, <1>12, <1>b, GripStep
     DEF Culprit, Slotted, Holding, SameRequest, SameGrip, SameDelivery

(* The answer of an operation that owns a Sandbox is not delivered.        *)
LEMMA RespondLostStep ==
    ASSUME SupervisorInv, NEW o \in Operations, NEW sent \in BOOLEAN, Respond(o, sent), Cancels(o, sent)
    PROVE  SupervisorInv' /\ Steady(o)
<1>0. /\ operations \in [Operations -> Operation] /\ operations[o] \in Operation
      /\ Shape(o) /\ Aim(o) /\ Condition(o)
  BY DEF SupervisorInv, Types
<1> DEFINE b == operations[o].sandbox
<1>b. b \in Operations /\ operations[o].owns
  BY <1>0 DEF Cancels, Shape, Slotted, Operation, Pointers
<1>a. sandboxes \in [Operations -> Sandbox] /\ Condition(b) /\ sandboxes[b] \in Sandbox
  BY <1>b DEF SupervisorInv, Types
<1>d. ~sent /\ operations' = [operations EXCEPT ![o] = Completed(o, sent)]
      /\ sandboxes' = [sandboxes EXCEPT ![Target(o)].cancelled = TRUE]
  BY DEF Respond, Cancels
<1>e. PICK lost \in BOOLEAN : lost = (sent /\ operations[o].owns)
  OBVIOUS
<1>f. lost = FALSE
  BY <1>d, <1>e
<1>1. operations'[o] = [operations[o] EXCEPT !.delivered = FALSE, !.armed = FALSE, !.cancelled = TRUE,
                                             !.pc = "linger"]
  BY <1>0, <1>d, <1>e, <1>f DEF Completed
<1>2. operations'[o] \in Operation
  BY <1>0, <1>1 DEF Operation
<1>3. /\ operations' \in [Operations -> Operation]
      /\ \A q \in Operations : q # o => operations'[q] = operations[q]
  BY <1>0, <1>2, <1>d
<1>4. /\ operations'[o].pc = "linger" /\ operations'[o].code = operations[o].code
      /\ ~operations'[o].armed /\ ~operations'[o].delivered
      /\ SameRequest(o) /\ SameGrip(o) /\ SameResult(o)
  BY <1>0, <1>1 DEF Operation, SameRequest, SameGrip, SameResult
<1>5. /\ UNCHANGED <<registry, results, closed>> /\ operations[o].pc = "respond"
      /\ operations[o].owns /\ operations[o].sandbox = b
  BY <1>0, <1>b DEF Respond
<1>6. sandboxes'[b] = [sandboxes[b] EXCEPT !.cancelled = TRUE]
  BY <1>a, <1>b, <1>d DEF Target
<1>7. sandboxes'[b] \in Sandbox
  BY <1>a, <1>6 DEF Sandbox
<1>8. /\ sandboxes' \in [Operations -> Sandbox]
      /\ \A c \in Operations : c # b => sandboxes'[c] = sandboxes[c]
  BY <1>a, <1>b, <1>d, <1>7 DEF Target
<1>9. /\ sandboxes'[b].cancelled /\ SameHome(b)
      /\ sandboxes'[b].terminating = sandboxes[b].terminating
      /\ sandboxes'[b].exited = sandboxes[b].exited
      /\ sandboxes'[b].published = sandboxes[b].published
      /\ sandboxes'[b].process = sandboxes[b].process
  BY <1>a, <1>6 DEF Sandbox, SameHome
<1>10. Moves(o)
  BY <1>0, <1>3, <1>4, <1>5
     DEF Moves, Answering, Shape, Slotted, Holding, SameRequest, SameGrip, SameResult
<1>11. Shape(o)'
  BY <1>0, <1>4, <1>5 DEF Shape, Slotted, Holding, SameRequest, SameGrip, SameResult
<1>c. Created(b)'
  BY <1>0, <1>10, <1>b, Settled, NobodyAssumption DEF Aim
<1>12. Condition(o)' /\ Condition(b)'
  BY <1>c, <1>0, <1>3, <1>4, <1>5, <1>9, <1>a, <1>8, <1>b
     DEF Condition, Created, SameHome, SameRequest, SameGrip, SameResult
<1>s. Steady(o)
  BY <1>0, <1>4, <1>5, <1>8, <1>9, <1>10
     DEF Steady, Slotted, results, SameRequest, SameGrip, SameResult
<1> QED
  BY <1>s, <1>0, <1>4, <1>5, <1>8, <1>9, <1>10, <1>11, <1>12, <1>b, GripStep
     DEF Culprit, Slotted, Holding, SameRequest, SameGrip, SameResult

(* The answer is delivered, or there is nothing to give up.                *)
LEMMA RespondStep ==
    ASSUME SupervisorInv, NEW o \in Operations, NEW sent \in BOOLEAN, Respond(o, sent),
           ~Cancels(o, sent)
    PROVE  SupervisorInv' /\ Steady(o)
<1>0. /\ operations \in [Operations -> Operation] /\ operations[o] \in Operation
      /\ Shape(o) /\ Aim(o) /\ Condition(o) /\ Destroyed(o) /\ ReadOK(o)
  BY DEF SupervisorInv, Types
<1>a. PICK given \in BOOLEAN : given = (sent /\ operations[o].owns)
  OBVIOUS
<1>1. operations'[o] = [operations[o] EXCEPT !.delivered = given, !.armed = FALSE,
                                             !.cancelled = TRUE, !.pc = "closed"]
  BY <1>0, <1>a DEF Respond, Completed
<1>2. operations'[o] \in Operation
  BY <1>0, <1>1 DEF Operation
<1>3. /\ operations' \in [Operations -> Operation]
      /\ \A q \in Operations : q # o => operations'[q] = operations[q]
  BY <1>0, <1>2 DEF Respond
<1>4. /\ operations'[o].pc = "closed" /\ operations'[o].code = operations[o].code
      /\ operations'[o].delivered = given /\ operations'[o].armed = FALSE
      /\ SameRequest(o) /\ SameGrip(o) /\ SameResult(o)
  BY <1>0, <1>1 DEF Operation, SameRequest, SameGrip, SameResult
<1>5. /\ UNCHANGED <<sandboxes, registry, results, closed>> /\ operations[o].pc = "respond"
      /\ operations[o].owns => given /\ ~operations[o].cancelled
  BY <1>a DEF Respond, Cancels, Abandoned
<1>6. Moves(o)
  BY <1>0, <1>3, <1>4, <1>5 DEF Moves, Answering, SameRequest, SameGrip, SameResult
<1>7. Shape(o)'
  BY <1>0, <1>4, <1>5 DEF Shape, Slotted, Holding, SameRequest, SameGrip, SameResult
<1>8. ReadOK(o)'
  <2> DEFINE s == operations[o].snapshot
  <2> SUFFICES ASSUME operations[o].kind = "read", operations[o].code = "ok"
               PROVE  ReadOK(o)'
    BY <1>4 DEF ReadOK, SameRequest
  <2>1. s \in Operations /\ operations[s].kind = "execute" /\ operations[s].code = "ok"
        /\ operations[s].pc \in Answering /\ RefOf(s) = RefOf(o)
    BY <1>0 DEF ReadOK
  <2>2. operations'[s] = operations[s]
    BY <1>3, <2>1
  <2> QED
    BY <1>4, <2>1, <2>2 DEF ReadOK, RefOf, SameRequest, SameResult
<1>9. operations'[o].pc = "closed" /\ operations[o].owns => operations'[o].delivered
  BY <1>4, <1>5
<1>s. Steady(o)
  BY <1>0, <1>4, <1>5, <1>6 DEF Steady, Slotted, results, SameRequest, SameGrip, SameResult
<1> QED
  BY <1>s, <1>0, <1>4, <1>5, <1>6, <1>7, <1>8, <1>9, HandlerStep
     DEF Culprit, Slotted, Holding, SameRequest, SameGrip, SameResult

-----------------------------------------------------------------------------
(* A destroy condemns the registered Sandbox.                              *)
LEMMA DestroyPresentStep ==
    ASSUME SupervisorInv, NEW o \in Operations, DestroyPresent(o)
    PROVE  SupervisorInv' /\ Steady(o)
<1>0. /\ operations \in [Operations -> Operation] /\ operations[o] \in Operation
      /\ Shape(o) /\ Condition(o) /\ sandboxes \in [Operations -> Sandbox]
      /\ active \in [SandboxIds -> Pointers] /\ RegistryOK /\ closed \in BOOLEAN
      /\ \A c \in Operations : Condition(c)
  BY DEF SupervisorInv, Types
<1>p. PICK b \in Operations : b = active[IdOf(o)]
  BY <1>0 DEF DestroyPresent, At, Shape, IdOf, Pointers
<1>a. /\ operations[o].pc = "request" /\ operations[o].kind = "destroy" /\ b # Nobody
      /\ UNCHANGED <<active, retired, directories, slots, reservedBytes, closed>>
  BY <1>p DEF DestroyPresent, At, registry, results
<1>b. b \in Operations /\ Created(b) /\ IdOf(b) = IdOf(o) /\ b # o /\ sandboxes[b] \in Sandbox
  BY <1>0, <1>a, <1>p DEF Shape, RegistryOK, IdOf, Pointers, Created
<1>c. /\ sandboxes' = [sandboxes EXCEPT ![b].terminating = TRUE, ![b].cancelled = TRUE]
      /\ operations' = [operations EXCEPT ![o].pc = "drain", ![o].sandbox = b]
  BY <1>p DEF DestroyPresent
<1>1. operations'[o] = [operations[o] EXCEPT !.pc = "drain", !.sandbox = b]
  BY <1>0, <1>c
<1>2. operations'[o] \in Operation
  BY <1>0, <1>1, <1>b DEF Operation, Pointers
<1>3. /\ operations' \in [Operations -> Operation]
      /\ \A q \in Operations : q # o => operations'[q] = operations[q]
  BY <1>0, <1>2, <1>c
<1>4. /\ operations'[o].pc = "drain" /\ operations'[o].sandbox = b
      /\ operations'[o].code = operations[o].code /\ operations'[o].owns = operations[o].owns
      /\ SameRequest(o) /\ SameResult(o) /\ SameDelivery(o)
  BY <1>0, <1>1 DEF Operation, SameRequest, SameResult, SameDelivery
<1>6. sandboxes'[b] = [sandboxes[b] EXCEPT !.terminating = TRUE, !.cancelled = TRUE]
  BY <1>0, <1>b, <1>c
<1>7. sandboxes'[b] \in Sandbox
  BY <1>b, <1>6 DEF Sandbox
<1>8. /\ sandboxes' \in [Operations -> Sandbox]
      /\ \A c \in Operations : c # b => sandboxes'[c] = sandboxes[c]
  BY <1>0, <1>b, <1>c, <1>7
<1>9. /\ sandboxes'[b].terminating /\ sandboxes'[b].cancelled /\ SameHome(b)
      /\ sandboxes'[b].exited = sandboxes[b].exited
      /\ sandboxes'[b].published = sandboxes[b].published
      /\ sandboxes'[b].process = sandboxes[b].process
  BY <1>b, <1>6 DEF Sandbox, SameHome
<1>10. Moves(o)
  BY <1>0, <1>3, <1>4, <1>a DEF Moves, Answering, Shape, SameRequest, SameResult
<1>11. Shape(o)'
  BY <1>0, <1>4, <1>a, <1>b, NobodyAssumption
     DEF Shape, Slotted, Holding, SameRequest, SameResult, SameDelivery
<1>12. Aim(o)'
  BY <1>3, <1>4, <1>b DEF Aim, Created, IdOf, SameRequest
<1>13. Destroyed(o)' /\ ReadOK(o)' /\ OwnSlot(o)' /\ ~Culprit(o) /\ ~Created(o)'
  BY <1>0, <1>4, <1>a
     DEF Destroyed, ReadOK, OwnSlot, Culprit, Created, Shape, Slotted, SameRequest
<1>14. Condition(b)' /\ Condition(o)'
  <2>1. Condition(b) /\ operations'[b] = operations[b] /\ Created(b)'
    BY <1>0, <1>3, <1>b DEF Created
  <2>2. Condition(b)'
    BY <1>9, <1>b, <2>1 DEF Condition, SameHome
  <2>3. sandboxes'[o] = sandboxes[o] /\ ~Created(o) /\ ~Created(o)'
    BY <1>8, <1>13, <1>a, <1>b DEF Created
  <2>4. Condition(o)'
    BY <1>0, <1>4, <2>3 DEF Condition
  <2> QED
    BY <2>2, <2>4
<1>15. /\ closed' \in BOOLEAN /\ operations'[o].pc \notin Holding \union {"closed"}
       /\ operations[o].pc \notin Holding \union Slotted
  BY <1>0, <1>4, <1>a DEF Holding, Slotted
<1>s. Steady(o)
  BY <1>0, <1>4, <1>8, <1>9, <1>10, <1>a
     DEF Steady, Slotted, results, SameRequest, SameResult
<1> QED
  BY <1>s, <1>8, <1>9, <1>10, <1>11, <1>12, <1>13, <1>14, <1>15, <1>a, <1>b, QuietStep
     DEF SameHome

(* An Execution acquires the mutex of a Sandbox, which is not released.    *)
LEMMA AcquireExecutionStep ==
    ASSUME SupervisorInv, NEW o \in Operations, AcquireExecution(o)
    PROVE  SupervisorInv' /\ Steady(o)
<1>0. /\ operations \in [Operations -> Operation] /\ operations[o] \in Operation
      /\ Shape(o) /\ Condition(o) /\ sandboxes \in [Operations -> Sandbox]
      /\ active \in [SandboxIds -> Pointers] /\ RegistryOK /\ closed \in BOOLEAN
      /\ \A c \in Operations : Condition(c) /\ Held(c) /\ Mutex(c)
  BY DEF SupervisorInv, Types
<1>p. PICK b \in Operations : b = active[IdOf(o)]
  BY <1>0 DEF AcquireExecution, Usable, At, Shape, IdOf, Pointers
<1>a. /\ operations[o].pc = "request" /\ operations[o].kind = "execute" /\ b # Nobody
      /\ sandboxes[b].published /\ ~sandboxes[b].terminating /\ sandboxes[b].execution = Nobody
      /\ UNCHANGED <<active, retired, directories, slots, reservedBytes, closed>>
  BY <1>p DEF AcquireExecution, At, registry, results, Usable
<1>b. b \in Operations /\ Created(b) /\ IdOf(b) = IdOf(o) /\ b # o /\ sandboxes[b] \in Sandbox
  BY <1>0, <1>a, <1>p DEF Shape, RegistryOK, IdOf, Pointers, Created
<1>c. /\ sandboxes' = [sandboxes EXCEPT ![b].execution = o]
      /\ operations' = [operations EXCEPT ![o].pc = "reserve", ![o].sandbox = b]
  BY <1>p DEF AcquireExecution
<1>1. operations'[o] = [operations[o] EXCEPT !.pc = "reserve", !.sandbox = b]
  BY <1>0, <1>c
<1>2. operations'[o] \in Operation
  BY <1>0, <1>1, <1>b DEF Operation, Pointers
<1>3. /\ operations' \in [Operations -> Operation]
      /\ \A q \in Operations : q # o => operations'[q] = operations[q]
  BY <1>0, <1>2, <1>c
<1>4. /\ operations'[o].pc = "reserve" /\ operations'[o].sandbox = b
      /\ operations'[o].code = operations[o].code /\ operations'[o].owns = operations[o].owns
      /\ SameRequest(o) /\ SameResult(o) /\ SameDelivery(o)
  BY <1>0, <1>1 DEF Operation, SameRequest, SameResult, SameDelivery
<1>6. sandboxes'[b] = [sandboxes[b] EXCEPT !.execution = o]
  BY <1>0, <1>b, <1>c
<1>7. sandboxes'[b] \in Sandbox
  BY <1>b, <1>6 DEF Sandbox, Pointers
<1>8. /\ sandboxes' \in [Operations -> Sandbox]
      /\ \A c \in Operations : c # b => sandboxes'[c] = sandboxes[c]
  BY <1>0, <1>b, <1>c, <1>7
<1>9. /\ sandboxes'[b].execution = o
      /\ sandboxes'[b].identityOffset = sandboxes[b].identityOffset
      /\ sandboxes'[b].done = sandboxes[b].done
      /\ sandboxes'[b].cleanupErr = sandboxes[b].cleanupErr
      /\ sandboxes'[b].extractedBytes = sandboxes[b].extractedBytes
      /\ sandboxes'[b].terminating = sandboxes[b].terminating
      /\ sandboxes'[b].cancelled = sandboxes[b].cancelled
      /\ sandboxes'[b].exited = sandboxes[b].exited
      /\ sandboxes'[b].published = sandboxes[b].published
      /\ sandboxes'[b].process = sandboxes[b].process
  BY <1>b, <1>6 DEF Sandbox
<1>10. Moves(o)
  BY <1>0, <1>3, <1>4, <1>a DEF Moves, Answering, Shape, SameRequest, SameResult
<1>11. Shape(o)'
  BY <1>0, <1>4, <1>a, <1>b, NobodyAssumption
     DEF Shape, Slotted, Holding, SameRequest, SameResult, SameDelivery
<1>12. Aim(o)'
  BY <1>3, <1>4, <1>b DEF Aim, Created, IdOf, SameRequest
<1>13. Destroyed(o)' /\ ReadOK(o)' /\ OwnSlot(o)' /\ ~Culprit(o) /\ ~Created(o)'
  BY <1>0, <1>4, <1>a
     DEF Destroyed, ReadOK, OwnSlot, Culprit, Created, Shape, Slotted, SameRequest
<1>14. Condition(b)' /\ Condition(o)'
  <2>1. Condition(b) /\ operations'[b] = operations[b] /\ Created(b)'
    BY <1>0, <1>3, <1>b DEF Created
  <2>2. Condition(b)'
    BY <1>9, <1>b, <2>1 DEF Condition
  <2>3. sandboxes'[o] = sandboxes[o] /\ ~Created(o) /\ ~Created(o)'
    BY <1>8, <1>13, <1>a, <1>b DEF Created
  <2>4. Condition(o)'
    BY <1>0, <1>4, <2>3 DEF Condition
  <2> QED
    BY <2>2, <2>4
<1>15. ~sandboxes[b].done
  BY <1>0, <1>a, <1>b DEF Condition
<1>16. ASSUME NEW q \in Operations PROVE Held(q)' /\ Mutex(q)'
  <2>0. sandboxes[q].execution \in Pointers
    BY <1>0 DEF Sandbox
  <2>1. Held(q)'
    <3>1. CASE q = o
      BY <1>4, <1>9, <3>1 DEF Held
    <3>2. CASE q # o
      <4> SUFFICES ASSUME operations[q].pc \in Holding
                   PROVE  sandboxes'[operations[q].sandbox].execution = q
        BY <1>3, <3>2 DEF Held
      <4>1. sandboxes[operations[q].sandbox].execution = q /\ operations[q].sandbox # b
        BY <1>0, <1>a, NobodyAssumption DEF Held
      <4>2. operations[q].sandbox \in Operations
        BY <1>0 DEF SupervisorInv, Shape, Operation, Pointers
      <4> QED
        BY <1>8, <4>1, <4>2
    <3> QED
      BY <3>1, <3>2
  <2>2. Mutex(q)'
    <3>1. CASE q = b
      BY <1>4, <1>9, <1>15, <1>a, <3>1 DEF Mutex, Holding
    <3>2. CASE q # b
      <4> SUFFICES ASSUME sandboxes[q].execution # Nobody PROVE Mutex(q)'
        BY <1>8, <3>2 DEF Mutex
      <4>1. /\ operations[sandboxes[q].execution].pc \in Holding
            /\ operations[sandboxes[q].execution].sandbox = q
            /\ sandboxes[q].published /\ ~sandboxes[q].done
            /\ sandboxes[q].execution \in Operations
        BY <1>0, <2>0 DEF Mutex, Pointers
      <4>2. sandboxes[q].execution # o
        BY <1>a, <4>1 DEF Holding
      <4> QED
        BY <1>3, <1>8, <3>2, <4>1, <4>2 DEF Mutex
    <3> QED
      BY <3>1, <3>2
  <2> QED
    BY <2>1, <2>2
<1>17. (\A q \in Operations : OwnSlot(q))'
  <2>1. \A c \in Operations : sandboxes'[c].extractedBytes = sandboxes[c].extractedBytes
    BY <1>8, <1>9
  <2> QED
    BY <1>10, <1>13, <1>a, <2>1, SlotsFrame
<1>18. /\ closed' \in BOOLEAN /\ operations'[o].pc # "closed" /\ operations[o].pc \notin Slotted
  BY <1>0, <1>4, <1>a DEF Slotted
<1>s. Steady(o)
  BY <1>0, <1>4, <1>8, <1>9, <1>10, <1>a
     DEF Steady, Slotted, results, SameRequest, SameResult
<1> QED
  BY <1>s, <1>8, <1>9, <1>10, <1>11, <1>12, <1>13, <1>14, <1>16, <1>17, <1>18, <1>a, <1>b,
     CoreStep

(* Only one operation holds the mutex of a Sandbox.                        *)
LEMMA OneHolder ==
    ASSUME SupervisorInv, NEW o \in Operations, NEW q \in Operations,
           operations[o].pc \in Holding, operations[q].pc \in Holding,
           operations[o].sandbox = operations[q].sandbox
    PROVE  o = q
BY DEF SupervisorInv, Held

(* The holder leaves the mutex.                                            *)
LEMMA ReleaseFrame ==
    ASSUME SupervisorInv, NEW o \in Operations, NEW b \in Operations, Moves(o),
           operations[o].pc \in Holding, operations[o].sandbox = b,
           operations'[o].pc \notin Holding, sandboxes'[b].execution = Nobody,
           \A c \in Operations : c # b => sandboxes'[c] = sandboxes[c]
    PROVE  (\A q \in Operations : Held(q) /\ Mutex(q))'
<1>0. \A q \in Operations :
        /\ Held(q) /\ Mutex(q) /\ Shape(q) /\ operations[q].sandbox \in Pointers
        /\ sandboxes[q].execution \in Pointers
  BY DEF SupervisorInv, Types, Operation, Sandbox
<1>1. \A q \in Operations : q # o => operations'[q] = operations[q]
  BY DEF Moves
<1>2. ASSUME NEW q \in Operations PROVE Held(q)'
  <2>1. CASE q = o
    BY <2>1 DEF Held
  <2>2. CASE q # o
    <3> SUFFICES ASSUME operations[q].pc \in Holding
                 PROVE  sandboxes'[operations[q].sandbox].execution = q
      BY <1>1, <2>2 DEF Held
    <3>1. operations[q].sandbox # b /\ operations[q].sandbox \in Operations
      BY <1>0, <2>2, OneHolder DEF Shape, Pointers
    <3> QED
      BY <1>0, <3>1 DEF Held
  <2> QED
    BY <2>1, <2>2
<1>3. ASSUME NEW q \in Operations PROVE Mutex(q)'
  <2>1. CASE q = b
    BY <2>1 DEF Mutex
  <2>2. CASE q # b
    <3> SUFFICES ASSUME sandboxes[q].execution # Nobody PROVE Mutex(q)'
      BY <2>2 DEF Mutex
    <3>1. /\ operations[sandboxes[q].execution].pc \in Holding
          /\ operations[sandboxes[q].execution].sandbox = q
          /\ sandboxes[q].published /\ ~sandboxes[q].done
          /\ sandboxes[q].execution \in Operations
      BY <1>0 DEF Mutex, Pointers
    <3>2. operations'[sandboxes[q].execution] = operations[sandboxes[q].execution]
      BY <1>1, <2>2, <3>1
    <3> QED
      BY <2>2, <3>1, <3>2 DEF Mutex
  <2> QED
    BY <2>1, <2>2
<1> QED
  BY <1>2, <1>3

(* No result slot is free: the mutex is left, and nothing was owned.       *)
LEMMA ResultRefusedStep ==
    ASSUME SupervisorInv, NEW o \in Operations, ResultRefused(o)
    PROVE  SupervisorInv' /\ Steady(o)
<1>0. /\ operations \in [Operations -> Operation] /\ operations[o] \in Operation
      /\ Shape(o) /\ Aim(o) /\ Condition(o) /\ sandboxes \in [Operations -> Sandbox]
      /\ closed \in BOOLEAN /\ \A c \in Operations : Condition(c)
  BY DEF SupervisorInv, Types
<1>p. PICK b \in Operations : b = operations[o].sandbox
  BY <1>0 DEF ResultRefused, Shape, Holding, Operation, Pointers
<1>a. /\ operations[o].pc = "reserve" /\ operations[o].kind = "execute"
      /\ UNCHANGED <<active, retired, directories, slots, reservedBytes, closed>>
  BY <1>0 DEF ResultRefused, registry, results, Shape, Holding
<1>b. /\ Created(b) /\ IdOf(b) = operations[o].id /\ b # o /\ sandboxes[b] \in Sandbox
  BY <1>0, <1>a, <1>p, NobodyAssumption DEF Aim, Created
<1>c. /\ sandboxes' = [sandboxes EXCEPT ![b].execution = Nobody]
      /\ operations' = [operations EXCEPT ![o].pc = "respond", ![o].code = "error"]
  BY <1>p DEF ResultRefused, Target, Answered
<1>1. operations'[o] = [operations[o] EXCEPT !.pc = "respond", !.code = "error"]
  BY <1>0, <1>c
<1>2. operations'[o] \in Operation
  BY <1>0, <1>1 DEF Operation
<1>3. /\ operations' \in [Operations -> Operation]
      /\ \A q \in Operations : q # o => operations'[q] = operations[q]
  BY <1>0, <1>2, <1>c
<1>4. /\ operations'[o].pc = "respond" /\ operations'[o].code = "error"
      /\ SameRequest(o) /\ SameGrip(o) /\ SameResult(o) /\ SameDelivery(o)
  BY <1>0, <1>1 DEF Operation, SameRequest, SameGrip, SameResult, SameDelivery
<1>6. sandboxes'[b] = [sandboxes[b] EXCEPT !.execution = Nobody]
  BY <1>0, <1>b, <1>c
<1>7. sandboxes'[b] \in Sandbox
  BY <1>b, <1>6 DEF Sandbox, Pointers
<1>8. /\ sandboxes' \in [Operations -> Sandbox]
      /\ \A c \in Operations : c # b => sandboxes'[c] = sandboxes[c]
  BY <1>0, <1>b, <1>c, <1>7
<1>9. /\ sandboxes'[b].execution = Nobody
      /\ sandboxes'[b].identityOffset = sandboxes[b].identityOffset
      /\ sandboxes'[b].done = sandboxes[b].done
      /\ sandboxes'[b].cleanupErr = sandboxes[b].cleanupErr
      /\ sandboxes'[b].extractedBytes = sandboxes[b].extractedBytes
      /\ sandboxes'[b].terminating = sandboxes[b].terminating
      /\ sandboxes'[b].cancelled = sandboxes[b].cancelled
      /\ sandboxes'[b].exited = sandboxes[b].exited
      /\ sandboxes'[b].published = sandboxes[b].published
      /\ sandboxes'[b].process = sandboxes[b].process
  BY <1>b, <1>6 DEF Sandbox
<1>10. Moves(o)
  BY <1>0, <1>3, <1>4, <1>a DEF Moves, Answering, Shape, SameRequest, SameGrip, SameResult
<1>11. Shape(o)'
  BY <1>0, <1>4, <1>a
     DEF Shape, Slotted, Holding, SameRequest, SameGrip, SameResult, SameDelivery
<1>12. Aim(o)'
  BY <1>3, <1>4, <1>b, <1>p DEF Aim, Created, IdOf, SameRequest, SameGrip
<1>13. Destroyed(o)' /\ ReadOK(o)' /\ OwnSlot(o)' /\ ~Created(o)'
  BY <1>0, <1>4, <1>a DEF Destroyed, ReadOK, OwnSlot, Created, Slotted, SameRequest
<1>14. Condition(b)' /\ Condition(o)'
  <2>1. Condition(b) /\ operations'[b] = operations[b] /\ Created(b)'
    BY <1>0, <1>3, <1>b DEF Created
  <2>2. Condition(b)'
    BY <1>9, <1>b, <2>1 DEF Condition
  <2>3. sandboxes'[o] = sandboxes[o] /\ ~Created(o) /\ ~Created(o)'
    BY <1>8, <1>13, <1>a, <1>b DEF Created
  <2>4. Condition(o)'
    BY <1>0, <1>4, <2>3 DEF Condition
  <2> QED
    BY <2>2, <2>4
<1>15. /\ operations[o].pc \in Holding /\ operations[o].pc \notin Slotted
       /\ operations'[o].pc \notin Holding /\ operations'[o].pc # "closed" /\ closed' \in BOOLEAN
       /\ Culprit(o) => Culprit(o)'
  BY <1>0, <1>4, <1>a DEF Holding, Slotted, Culprit, SameGrip, SameDelivery
<1>16. (\A q \in Operations : Held(q) /\ Mutex(q))'
  BY <1>8, <1>9, <1>10, <1>15, <1>p, ReleaseFrame
<1>17. (\A q \in Operations : OwnSlot(q))'
  <2>1. \A c \in Operations : sandboxes'[c].extractedBytes = sandboxes[c].extractedBytes
    BY <1>8, <1>9
  <2> QED
    BY <1>10, <1>13, <1>a, <2>1, SlotsFrame
<1>s. Steady(o)
  BY <1>0, <1>4, <1>8, <1>9, <1>10, <1>a
     DEF Steady, Slotted, results, SameRequest, SameGrip, SameResult
<1> QED
  BY <1>s, <1>8, <1>9, <1>10, <1>11, <1>12, <1>13, <1>14, <1>15, <1>16, <1>17, <1>a, <1>b,
     CoreStep

(* What an Execution may extract is left of the budget of its Sandbox.     *)
LEMMA AllowanceBounds ==
    ASSUME NEW paths \in Nat, NEW used \in Nat, used <= SandboxBytes
    PROVE  /\ allowance(paths, used) \in Nat
           /\ allowance(paths, used) <= ExecutionBytes
           /\ allowance(paths, used) <= SandboxBytes - used
<1> DEFINE T == {ExecutionBytes, SandboxBytes - used, paths * FileBytes}
<1>1. paths * FileBytes \in Nat
  BY BudgetAssumption
<1>2. T \subseteq Nat /\ T # {}
  BY <1>1, BudgetAssumption
<1>3. \E n \in T : \A m \in T : n <= m
  BY <1>2, LeastNumber
<1>4. Min(T) \in T /\ \A m \in T : Min(T) <= m
  BY <1>3 DEF Min
<1>5. allowance(paths, used) = Min(T)
  BY DEF allowance
<1> HIDE DEF allowance
<1> QED
  BY <1>2, <1>4, <1>5

(* An Execution completes and hands over its outputs.                      *)
LEMMA RunCompleteStep ==
    ASSUME SupervisorInv, NEW o \in Operations, NEW bytes \in Nat, RunComplete(o, bytes)
    PROVE  SupervisorInv' /\ Moves(o)
<1>0. /\ operations \in [Operations -> Operation] /\ operations[o] \in Operation
      /\ Shape(o) /\ Aim(o) /\ Condition(o) /\ sandboxes \in [Operations -> Sandbox]
      /\ closed \in BOOLEAN /\ OwnSlot(o)
      /\ \A c \in Operations : Condition(c) /\ OwnSlot(c)
  BY DEF SupervisorInv, Types
<1>p. PICK b \in Operations : b = operations[o].sandbox
  BY <1>0 DEF RunComplete, Shape, Holding, Operation, Pointers
<1>a. /\ operations[o].pc = "run" /\ operations[o].kind = "execute" /\ operations[o].owns
      /\ UNCHANGED <<active, retired, directories, slots, reservedBytes, closed>>
  BY <1>0 DEF RunComplete, registry, results, Shape, Holding, Slotted
<1>b. /\ Created(b) /\ IdOf(b) = operations[o].id /\ b # o /\ sandboxes[b] \in Sandbox
  BY <1>0, <1>a, <1>p, NobodyAssumption DEF Aim, Created
<1>c. /\ sandboxes' = [sandboxes EXCEPT ![b].extractedBytes = sandboxes[b].extractedBytes + bytes]
      /\ operations' = [operations EXCEPT ![o].pc = "finish", ![o].snapshot = o,
                                          ![o].extracted = bytes, ![o].code = "ok"]
      /\ bytes \in 0..allowance(operations[o].paths, sandboxes[b].extractedBytes)
  BY <1>0, <1>p DEF RunComplete, Target
<1>1. operations'[o] = [operations[o] EXCEPT !.pc = "finish", !.snapshot = o,
                                             !.extracted = bytes, !.code = "ok"]
  BY <1>0, <1>c
<1>2. operations'[o] \in Operation
  BY <1>0, <1>1, ZenonT(30) DEF Operation, Pointers
<1>3. /\ operations' \in [Operations -> Operation]
      /\ \A q \in Operations : q # o => operations'[q] = operations[q]
  BY <1>0, <1>2, <1>c
<1>4. /\ operations'[o].pc = "finish" /\ operations'[o].code = "ok"
      /\ operations'[o].snapshot = o /\ operations'[o].extracted = bytes
      /\ operations'[o].ran = operations[o].ran
      /\ SameRequest(o) /\ SameGrip(o) /\ SameDelivery(o)
  BY <1>0, <1>1 DEF Operation, SameRequest, SameGrip, SameDelivery
<1>d. /\ sandboxes[b].extractedBytes \in Nat /\ operations[o].paths \in Nat
      /\ sandboxes[b].extractedBytes <= SandboxBytes
  BY <1>0, <1>b DEF Sandbox, Operation, Condition
<1>e. /\ sandboxes[b].extractedBytes + bytes \in Nat
      /\ sandboxes[b].extractedBytes + bytes <= SandboxBytes
      /\ bytes <= allowance(operations[o].paths, sandboxes[b].extractedBytes)
  BY <1>c, <1>d, AllowanceBounds, BudgetAssumption
<1>6. sandboxes'[b] = [sandboxes[b] EXCEPT !.extractedBytes = sandboxes[b].extractedBytes + bytes]
  BY <1>0, <1>b, <1>c
<1>7. sandboxes'[b] \in Sandbox
  BY <1>b, <1>e, <1>6 DEF Sandbox
<1>8. /\ sandboxes' \in [Operations -> Sandbox]
      /\ \A c \in Operations : c # b => sandboxes'[c] = sandboxes[c]
  BY <1>0, <1>b, <1>c, <1>7
<1>9. /\ sandboxes'[b].execution = sandboxes[b].execution
      /\ sandboxes'[b].identityOffset = sandboxes[b].identityOffset
      /\ sandboxes'[b].done = sandboxes[b].done
      /\ sandboxes'[b].cleanupErr = sandboxes[b].cleanupErr
      /\ sandboxes'[b].extractedBytes = sandboxes[b].extractedBytes + bytes
      /\ sandboxes'[b].terminating = sandboxes[b].terminating
      /\ sandboxes'[b].cancelled = sandboxes[b].cancelled
      /\ sandboxes'[b].exited = sandboxes[b].exited
      /\ sandboxes'[b].published = sandboxes[b].published
      /\ sandboxes'[b].process = sandboxes[b].process
  BY <1>b, <1>6 DEF Sandbox
<1>10. Moves(o)
  BY <1>0, <1>3, <1>4, <1>a DEF Moves, Answering, Shape, SameRequest, SameGrip
<1>11. Shape(o)'
  BY <1>0, <1>4, <1>a DEF Shape, Slotted, Holding, SameRequest, SameGrip, SameDelivery
<1>12. Aim(o)'
  BY <1>3, <1>4, <1>b, <1>p DEF Aim, Created, IdOf, SameRequest, SameGrip
<1>13. Destroyed(o)' /\ ReadOK(o)' /\ ~Created(o)'
  BY <1>4, <1>a DEF Destroyed, ReadOK, Created, SameRequest
<1>14. Condition(b)' /\ Condition(o)'
  <2>1. Condition(b) /\ operations'[b] = operations[b] /\ Created(b)'
    BY <1>0, <1>3, <1>b DEF Created
  <2>2. Condition(b)'
    BY <1>9, <1>b, <1>e, <2>1 DEF Condition
  <2>3. sandboxes'[o] = sandboxes[o] /\ ~Created(o) /\ ~Created(o)'
    BY <1>8, <1>13, <1>a, <1>b DEF Created
  <2>4. Condition(o)'
    BY <1>0, <1>4, <2>3 DEF Condition
  <2> QED
    BY <2>2, <2>4
<1>15. /\ operations[o].pc \in Holding /\ operations[o].pc \in Slotted
       /\ operations'[o].pc \in Holding /\ operations'[o].pc \in Slotted
       /\ operations'[o].pc # "closed" /\ closed' \in BOOLEAN
       /\ Culprit(o) => Culprit(o)'
  BY <1>0, <1>4, <1>a DEF Holding, Slotted, Culprit, SameGrip, SameDelivery
<1>16. (\A q \in Operations : Held(q) /\ Mutex(q))'
  <2>1. \A c \in Operations :
          /\ sandboxes'[c].execution = sandboxes[c].execution
          /\ sandboxes'[c].done = sandboxes[c].done
          /\ sandboxes'[c].published = sandboxes[c].published
    BY <1>8, <1>9
  <2> QED
    BY <1>10, <1>15, <2>1, MutexFrame
<1>17. ASSUME NEW q \in Operations PROVE OwnSlot(q)'
  <2>1. CASE q = o
    <3>1. RefOf(o)' = RefOf(o) /\ slots' = slots
      BY <1>4, <1>a DEF RefOf, SameRequest
    <3>2. slots[RefOf(o)].by \in {o, Nobody}
      BY <1>0, <1>15 DEF OwnSlot
    <3>3. slots[RefOf(o)].by = o => bytes <= slots[RefOf(o)].extraction
      BY <1>0, <1>15, <1>a, <1>e, <1>p DEF OwnSlot, Allowed
    <3> QED
      BY <1>4, <2>1, <3>1, <3>2, <3>3 DEF OwnSlot, RefOf
  <2>2. CASE q # o
    <3> SUFFICES ASSUME operations[q].pc \in Slotted PROVE OwnSlot(q)'
      BY <1>3, <2>2 DEF OwnSlot
    <3>1. /\ operations[q].pc \in Holding /\ operations[q].sandbox # b
          /\ operations[q].sandbox \in Operations
      BY <1>0, <1>15, <1>p, <2>2, OneHolder
         DEF SupervisorInv, Shape, Slotted, Holding, Operation, Pointers
    <3>2. sandboxes'[operations[q].sandbox] = sandboxes[operations[q].sandbox]
          /\ operations'[q] = operations[q] /\ OwnSlot(q) /\ slots' = slots
      BY <1>0, <1>3, <1>8, <1>a, <2>2, <3>1
    <3> QED
      BY <3>2 DEF OwnSlot, Allowed, allowance, RefOf
  <2> QED
    BY <2>1, <2>2
<1> QED
  BY <1>8, <1>9, <1>10, <1>11, <1>12, <1>13, <1>14, <1>15, <1>16, <1>17, <1>a, <1>b,
     CoreStep

-----------------------------------------------------------------------------
(* Two Executions with the same Sandbox id are in the same Sandbox, the    *)
(* only one of that id that was ever published, so only one is under way.  *)
LEMMA OneExecution ==
    ASSUME SupervisorInv, NEW o \in Operations, NEW q \in Operations,
           operations[o].pc \in Holding, operations[q].pc \in Holding, IdOf(o) = IdOf(q)
    PROVE  o = q
<1>1. ASSUME NEW p \in Operations, operations[p].pc \in Holding
      PROVE  /\ operations[p].sandbox \in Operations /\ sandboxes[operations[p].sandbox].published
             /\ ~sandboxes[operations[p].sandbox].done
             /\ IdOf(operations[p].sandbox) = IdOf(p)
  <2>1. Shape(p) /\ Aim(p) /\ Held(p) /\ operations[p].sandbox \in Pointers
    BY DEF SupervisorInv, Types, Operation
  <2>2. operations[p].sandbox # Nobody /\ operations[p].sandbox \in Operations
    BY <1>1, <2>1 DEF Shape, Pointers
  <2>3. Mutex(operations[p].sandbox) /\ sandboxes[operations[p].sandbox].execution # Nobody
    BY <1>1, <2>1, <2>2, NobodyAssumption DEF SupervisorInv, Held
  <2> QED
    BY <2>1, <2>2, <2>3 DEF Aim, Mutex, IdOf
<1>2. operations[o].sandbox = operations[q].sandbox
  BY <1>1 DEF SupervisorInv, OncePublished
<1> QED
  BY <1>2, OneHolder

(* A slot of somebody else is left alone or removed.                       *)
LEMMA OtherSlot ==
    ASSUME SupervisorInv, NEW o \in Operations, Moves(o), NEW ref \in References,
           slots'[ref] \in {slots[ref], NoSlot}, slots[ref].by # o
    PROVE  SlotOK(ref)'
<1>1. CASE slots'[ref] = NoSlot
  BY <1>1 DEF SlotOK, NoSlot
<1>2. CASE slots'[ref] = slots[ref]
  <2>1. SlotOK(ref) /\ slots[ref].by \in Pointers
    BY DEF SupervisorInv, Types, Slot
  <2>2. CASE slots[ref].by = Nobody
    BY <1>2, <2>1, <2>2 DEF SlotOK
  <2>3. CASE slots[ref].by # Nobody
    <3>1. /\ slots[ref].by \in Operations
          /\ operations'[slots[ref].by] = operations[slots[ref].by]
      BY <2>1, <2>3 DEF Pointers, Moves
    <3> QED
      BY <1>2, <2>1, <2>3, <3>1 DEF SlotOK, RefOf
  <2> QED
    BY <2>2, <2>3
<1> QED
  BY <1>1, <1>2

(* The slot of another Execution, when the step at most removes it.        *)
LEMMA OtherOwnSlot ==
    ASSUME SupervisorInv, NEW o \in Operations, Moves(o), NEW q \in Operations, q # o,
           operations[q].pc \in Slotted => slots'[RefOf(q)] \in {slots[RefOf(q)], NoSlot},
           \A c \in Operations : sandboxes'[c].extractedBytes = sandboxes[c].extractedBytes
    PROVE  OwnSlot(q)'
<1> SUFFICES ASSUME operations[q].pc \in Slotted PROVE OwnSlot(q)'
  BY DEF Moves, OwnSlot
<1>1. OwnSlot(q) /\ operations'[q] = operations[q] /\ operations[q].sandbox \in Operations
  BY DEF SupervisorInv, Moves, Types, Operation, Shape, Pointers, Slotted
<1>2. CASE slots'[RefOf(q)] = slots[RefOf(q)]
  BY <1>1, <1>2 DEF OwnSlot, Allowed, allowance, RefOf
<1>3. CASE slots'[RefOf(q)] = NoSlot
  <2>1. RefOf(q)' = RefOf(q) /\ slots'[RefOf(q)].by = Nobody /\ q # Nobody
    BY <1>1, <1>3, NobodyAssumption DEF RefOf, NoSlot
  <2> QED
    BY <2>1 DEF OwnSlot, RefOf
<1> QED
  BY <1>2, <1>3

(* What the accounts say.                                                  *)
LEMMA Balance ==
    ASSUME SupervisorInv
    PROVE  /\ IsFiniteSet(Retained) /\ Cardinality(Retained) \in Nat
           /\ Cardinality(Retained) <= MaxResults
           /\ Weighs(slots, Retained) /\ reservedBytes = Total(slots, Retained)
           /\ reservedBytes \in Nat /\ reservedBytes <= MaxResultBytes
           /\ Retained \subseteq References
<1>1. IsFiniteSet(Retained) /\ Cardinality(Retained) <= MaxResults
  BY DEF SupervisorInv, Accounts
<1>2. reservedBytes = BytesOf(Retained) /\ reservedBytes \in 0..MaxResultBytes
  BY DEF SupervisorInv, Accounts
<1>3. BytesOf(Retained) = Total(slots, Retained)
  BY BytesOfIsTotal
<1>4. Retained \subseteq References
  BY DEF Retained
<1>5. \A ref \in References : slots[ref].reserved \in Nat
  BY DEF SupervisorInv, Types, Slot
<1> QED
  BY <1>1, <1>2, <1>3, <1>4, <1>5, FS_CardinalityType, BudgetAssumption DEF Weighs

(* An Execution reserves its slot before anything runs.                    *)
LEMMA ReserveResultStep ==
    ASSUME SupervisorInv, NEW o \in Operations, ReserveResult(o)
    PROVE  SupervisorInv' /\ Moves(o)
<1>0. /\ operations \in [Operations -> Operation] /\ operations[o] \in Operation
      /\ Shape(o) /\ Aim(o) /\ sandboxes \in [Operations -> Sandbox]
      /\ closed \in BOOLEAN /\ slots \in [References -> Slot]
      /\ \A c \in Operations : Condition(c)
  BY DEF SupervisorInv, Types
<1>p. PICK b \in Operations : b = operations[o].sandbox
  BY <1>0 DEF ReserveResult, Shape, Holding, Operation, Pointers
<1>q. PICK ref \in References : ref = RefOf(o)
  BY <1>0 DEF ReserveResult, Shape, Holding, RefOf, References
<1>d. /\ sandboxes[b].extractedBytes \in Nat /\ operations[o].paths \in Nat
      /\ sandboxes[b].extractedBytes <= SandboxBytes
  BY <1>0 DEF Sandbox, Operation, Condition
<1>r. PICK extraction \in Nat :
        extraction = allowance(operations[o].paths, sandboxes[b].extractedBytes)
  BY <1>d, AllowanceBounds
<1>s. PICK bytes \in Nat : bytes = OutputBytes + extraction
  BY <1>r, BudgetAssumption
<1>a. /\ operations[o].pc = "reserve" /\ operations[o].kind = "execute"
      /\ UNCHANGED <<sandboxes, active, retired, directories, closed>>
      /\ slots[ref] = NoSlot /\ Cardinality(Retained) < MaxResults
      /\ bytes <= MaxResultBytes - reservedBytes
      /\ slots' = [slots EXCEPT ![ref] = [by |-> o, reserved |-> bytes,
                                          extraction |-> extraction, published |-> FALSE]]
      /\ reservedBytes' = reservedBytes + bytes
      /\ operations' = [operations EXCEPT ![o].pc = "begin", ![o].owns = TRUE, ![o].armed = TRUE]
  BY <1>0, <1>p, <1>q, <1>r, <1>s DEF ReserveResult, registry, Shape, Holding, Target, Fits
<1>1. operations'[o] = [operations[o] EXCEPT !.pc = "begin", !.owns = TRUE, !.armed = TRUE]
  BY <1>0, <1>a
<1>2. operations'[o] \in Operation
  BY <1>0, <1>1 DEF Operation
<1>3. /\ operations' \in [Operations -> Operation]
      /\ \A q \in Operations : q # o => operations'[q] = operations[q]
  BY <1>0, <1>2, <1>a
<1>4. /\ operations'[o].pc = "begin" /\ operations'[o].owns /\ operations'[o].sandbox = b
      /\ operations'[o].code = operations[o].code
      /\ operations'[o].cancelled = operations[o].cancelled
      /\ SameRequest(o) /\ SameResult(o)
  BY <1>0, <1>1, <1>p DEF Operation, SameRequest, SameResult
<1>5. /\ slots' \in [References -> Slot]
      /\ slots'[ref].by = o /\ slots'[ref].reserved = bytes
      /\ slots'[ref].extraction = extraction /\ slots'[ref].published = FALSE
      /\ \A r \in References : r # ref => slots'[r] = slots[r]
  BY <1>0, <1>a DEF Slot, Pointers
<1>6. Moves(o)
  BY <1>0, <1>3, <1>4, <1>a, <1>p DEF Moves, Answering, Shape, SameRequest, SameResult
<1>7. b # Nobody /\ operations[o].extracted \in Nat /\ ref = RefOf(o)'
  BY <1>0, <1>4, <1>q, NobodyAssumption DEF Operation, RefOf, SameRequest
<1>8. Shape(o)'
  BY <1>0, <1>4, <1>7, <1>a DEF Shape, Slotted, Holding, SameRequest, SameResult
<1>9. Aim(o)' /\ Destroyed(o)' /\ ReadOK(o)' /\ ~Created(o) /\ ~Created(o)'
  <2>1. Created(b) /\ IdOf(b) = operations[o].id /\ b # o
    BY <1>0, <1>7, <1>a, <1>p DEF Aim, Created
  <2> QED
    BY <1>3, <1>4, <1>a, <2>1 DEF Aim, Destroyed, ReadOK, Created, IdOf, SameRequest
<1>10. Condition(o)'
  BY <1>0, <1>4, <1>9, <1>a DEF Condition
<1>11. operations[o].pc \in Holding /\ operations'[o].pc \in Holding
  BY <1>4, <1>a DEF Holding
<1>12. (\A q \in Operations : Held(q) /\ Mutex(q))' /\ ~sandboxes[b].done
  <2>1. (\A q \in Operations : Held(q) /\ Mutex(q))'
    BY <1>6, <1>11, <1>a, MutexFrame
  <2>2. Held(o) /\ Mutex(b)
    BY DEF SupervisorInv
  <2> QED
    BY <1>11, <1>p, <2>1, <2>2, NobodyAssumption DEF Held, Mutex
<1>13. (\A r \in References : SlotOK(r))'
  <2>1. ASSUME NEW r \in References, r # ref PROVE SlotOK(r)'
    <3>1. slots[r].by # o
      BY <1>q, <2>1, NobodyAssumption DEF SupervisorInv, SlotOK
    <3> QED
      BY <1>5, <1>6, <2>1, <3>1, OtherSlot
  <2>2. SlotOK(ref)'
    BY <1>4, <1>5, <1>7, <1>a, <1>s, NobodyAssumption, BudgetAssumption
       DEF SlotOK, Slotted, SameRequest
  <2> QED
    BY <2>1, <2>2
<1>14. ASSUME NEW q \in Operations PROVE OwnSlot(q)'
  <2>1. CASE q = o
    <3>0. operations[o].extracted = 0
      BY <1>0, <1>a DEF Shape
    <3>1. RefOf(o)' = ref /\ operations'[o].extracted = 0 /\ Allowed(o)' = extraction
      BY <1>0, <1>4, <1>7, <1>a, <1>p, <1>r, <3>0
         DEF Allowed, allowance, SameRequest, SameResult
    <3> QED
      BY <1>4, <1>5, <2>1, <3>1 DEF OwnSlot, RefOf
  <2>2. CASE q # o
    <3>1. operations[q].pc \in Slotted => RefOf(q) \in References /\ RefOf(q) # ref
      <4> SUFFICES ASSUME operations[q].pc \in Slotted
                   PROVE  RefOf(q) \in References /\ RefOf(q) # ref
        OBVIOUS
      <4>1. operations[q].pc \in Holding /\ Shape(q)
        BY DEF Slotted, Holding, SupervisorInv
      <4>2. RefOf(q) \in References
        BY <4>1 DEF Shape, RefOf, References
      <4>3. IdOf(q) # IdOf(o)
        BY <1>11, <2>2, <4>1, OneExecution
      <4> QED
        BY <1>q, <4>2, <4>3 DEF RefOf, IdOf
    <3> QED
      BY <1>5, <1>6, <1>a, <2>2, <3>1, OtherOwnSlot
  <2> QED
    BY <2>1, <2>2
<1>15. Accounts'
  <2>1. Retained' = Retained \union {ref} /\ ref \notin Retained
    <3>1. slots'[ref] # NoSlot
      BY <1>5, NobodyAssumption DEF NoSlot
    <3> QED
      BY <1>5, <1>a, <3>1 DEF Retained
  <2>2. /\ IsFiniteSet(Retained') /\ Cardinality(Retained') = Cardinality(Retained) + 1
        /\ Retained' \ {ref} = Retained
    BY <2>1, Balance, FS_AddElement
  <2>3. Weighs(slots', Retained')
    BY <1>5, <2>1, <2>2, Balance DEF Weighs, Slot
  <2>4. \A x \in Retained : slots'[x].reserved = slots[x].reserved
    BY <1>5, <2>1, Balance
  <2>5. Total(slots', Retained) = Total(slots, Retained)
    BY <2>4, Balance, SameTotal
  <2>6. Total(slots', Retained') = Total(slots', Retained) + bytes
    <3>1. ref \in Retained'
      BY <2>1
    <3>2. Total(slots', Retained') = Total(slots', Retained' \ {ref}) + slots'[ref].reserved
      BY <2>3, <3>1, TotalWith
    <3> QED
      BY <1>5, <2>2, <3>2
  <2>7. BytesOf(Retained)' = Total(slots', Retained')
    BY BytesOfIsTotal
  <2>8. reservedBytes' = BytesOf(Retained)'
    BY <1>a, <2>5, <2>6, <2>7, Balance
  <2>9. reservedBytes' \in 0..MaxResultBytes /\ Cardinality(Retained') <= MaxResults
    BY <1>a, <2>2, Balance, BudgetAssumption
  <2> QED
    BY <2>2, <2>8, <2>9 DEF Accounts
<1>16. /\ closed' \in BOOLEAN /\ operations'[o].pc # "closed"
       /\ Culprit(o) => Culprit(o)'
       /\ \A r \in References :
             \/ slots'[r].by \in {slots[r].by, Nobody}
             \/ slots'[r].by = o /\ operations'[o].sandbox \in Operations
                /\ ~sandboxes[operations'[o].sandbox].done
  BY <1>0, <1>4, <1>5, <1>12, <1>a DEF Culprit
<1> QED
  BY <1>0, <1>5, <1>6, <1>8, <1>9, <1>10, <1>12, <1>13, <1>14, <1>15, <1>16, <1>a,
     ServiceStep

(* Accounts when one slot is given back, or part of what it reserved.      *)
LEMMA SlotReturned ==
    ASSUME SupervisorInv, NEW ref \in References, slots[ref] # NoSlot, slots' = [slots EXCEPT ![ref] = NoSlot],
           reservedBytes' = reservedBytes - slots[ref].reserved
    PROVE  Accounts'
<1>0. slots \in [References -> Slot] /\ slots[ref].reserved \in Nat
  BY DEF SupervisorInv, Types, Slot
<1>1. Retained' = Retained \ {ref} /\ ref \in Retained
  BY <1>0 DEF Retained
<1>2. /\ IsFiniteSet(Retained') /\ Cardinality(Retained') = Cardinality(Retained) - 1
  BY <1>1, Balance, FS_RemoveElement
<1>3. Weighs(slots, Retained') /\ \A x \in Retained' : slots[x].reserved = slots'[x].reserved
  BY <1>0, <1>1, <1>2, Balance DEF Weighs
<1>4. Total(slots', Retained') = Total(slots, Retained')
  BY <1>3, SameTotal
<1>5. /\ Total(slots, Retained) = Total(slots, Retained') + slots[ref].reserved
      /\ Total(slots, Retained') \in Nat
  BY <1>1, Balance, TotalWith
<1>6. BytesOf(Retained)' = Total(slots', Retained')
  BY BytesOfIsTotal
<1>7. reservedBytes' = BytesOf(Retained)' /\ reservedBytes' \in 0..MaxResultBytes
  BY <1>0, <1>4, <1>5, <1>6, Balance, BudgetAssumption
<1>8. Cardinality(Retained') <= MaxResults
  BY <1>2, Balance, BudgetAssumption
<1> QED
  BY <1>2, <1>7, <1>8 DEF Accounts

(* Publication gives the unused part of an allowance back.                 *)
LEMMA SlotShrinks ==
    ASSUME SupervisorInv, NEW ref \in References, slots[ref] # NoSlot, slots' \in [References -> Slot],
           slots'[ref] # NoSlot, \A r \in References : r # ref => slots'[r] = slots[r],
           NEW unused \in Nat, slots'[ref].reserved = slots[ref].reserved - unused,
           reservedBytes' = reservedBytes - unused
    PROVE  Accounts'
<1>0. slots[ref].reserved \in Nat /\ slots'[ref].reserved \in Nat
  BY DEF SupervisorInv, Types, Slot
<1>1. Retained' = Retained /\ ref \in Retained
  BY DEF Retained
<1>2. Weighs(slots', Retained)
  BY Balance DEF Weighs, Slot
<1>3. /\ Total(slots, Retained) = Total(slots, Retained \ {ref}) + slots[ref].reserved
      /\ Total(slots, Retained \ {ref}) \in Nat
  BY <1>1, Balance, TotalWith
<1>4. Total(slots', Retained) = Total(slots', Retained \ {ref}) + slots'[ref].reserved
  BY <1>1, <1>2, TotalWith
<1>5. Weighs(slots, Retained \ {ref})
  BY Balance, FS_RemoveElement DEF Weighs
<1>6. Total(slots', Retained \ {ref}) = Total(slots, Retained \ {ref})
  <2>1. \A x \in Retained \ {ref} : slots[x].reserved = slots'[x].reserved
    BY Balance
  <2> QED
    BY <1>5, <2>1, SameTotal
<1>7. BytesOf(Retained)' = Total(slots', Retained')
  BY BytesOfIsTotal
<1>8. reservedBytes' = BytesOf(Retained)' /\ reservedBytes' \in 0..MaxResultBytes
  BY <1>0, <1>1, <1>3, <1>4, <1>6, <1>7, Balance, BudgetAssumption
<1> QED
  BY <1>1, <1>8, Balance DEF Accounts

(* results.finish, called by the Execution that reserved the slot.         *)
LEMMA FinishStore ==
    ASSUME SupervisorInv, NEW o \in Operations, operations[o].pc = "finish", NEW ref \in References,
           ref = RefOf(o), finish(ref, operations[o].snapshot, operations[o].extracted)
    PROVE  /\ slots' \in [References -> Slot] /\ Accounts'
           /\ \A r \in References : r # ref => slots'[r] = slots[r]
           /\ \/ slots'[ref] = NoSlot
              \/ /\ slots'[ref].by = o /\ slots[ref].by = o /\ slots'[ref].published
                 /\ slots'[ref].extraction <= slots'[ref].reserved
                 /\ operations[o].code = "ok"
<1>0. /\ slots \in [References -> Slot] /\ slots[ref] \in Slot /\ NoSlot \in Slot
      /\ operations[o] \in Operation /\ Shape(o) /\ OwnSlot(o) /\ SlotOK(ref)
  BY DEF SupervisorInv, Types, Slot, NoSlot, Pointers
<1>1. /\ slots[ref].reserved \in Nat /\ slots[ref].extraction \in Nat
      /\ operations[o].extracted \in Nat /\ slots[ref].by \in {o, Nobody}
      /\ slots[ref].by = o => operations[o].extracted <= slots[ref].extraction
      /\ operations[o].snapshot = IF operations[o].code = "ok" THEN o ELSE Nobody
  BY <1>0 DEF Slot, Operation, OwnSlot, Slotted, Shape
<1>2. CASE slots[ref] = NoSlot
  <2>1. slots' = slots /\ reservedBytes' = reservedBytes
    BY <1>0, <1>2 DEF finish
  <2>2. Retained' = Retained /\ BytesOf(Retained)' = BytesOf(Retained)
    BY <2>1, BytesOfIsTotal, Zenon DEF Retained
  <2>3. Accounts'
    BY <2>1, <2>2 DEF SupervisorInv, Accounts
  <2> QED
    BY <1>0, <1>2, <2>1, <2>3
<1>3. CASE slots[ref] # NoSlot /\ operations[o].snapshot = Nobody
  <2>1. /\ slots' = [slots EXCEPT ![ref] = NoSlot]
        /\ reservedBytes' = reservedBytes - slots[ref].reserved
    BY <1>3 DEF finish
  <2>2. Accounts'
    BY <1>3, <2>1, SlotReturned
  <2> QED
    BY <1>0, <2>1, <2>2
<1>4. CASE slots[ref] # NoSlot /\ operations[o].snapshot # Nobody
  <2>1. /\ slots[ref].by = o /\ operations[o].code = "ok" /\ o # Nobody
        /\ operations[o].extracted <= slots[ref].extraction
        /\ slots[ref].extraction <= slots[ref].reserved
    BY <1>0, <1>1, <1>4, NobodyAssumption DEF SlotOK
  <2>2. PICK unused \in Nat : unused = slots[ref].extraction - operations[o].extracted
    BY <1>1, <2>1
  <2>3. PICK kept \in Nat : kept = slots[ref].reserved - unused
    BY <1>1, <2>1, <2>2
  <2>4. /\ slots' = [slots EXCEPT ![ref] = [slots[ref] EXCEPT !.published = TRUE, !.extraction = 0,
                                                  !.reserved = kept]]
        /\ reservedBytes' = reservedBytes - unused
    BY <1>0, <1>4, <2>2, <2>3 DEF finish, FinishedSlot
  <2>5. slots'[ref] = [slots[ref] EXCEPT !.published = TRUE, !.extraction = 0, !.reserved = kept]
    BY <1>0, <2>4
  <2>6. slots'[ref] \in Slot
    <3>1. ASSUME NEW s \in Slot
          PROVE  [s EXCEPT !.published = TRUE, !.extraction = 0, !.reserved = kept] \in Slot
      BY DEF Slot
    <3> QED
      BY <1>0, <2>5, <3>1
  <2>7. /\ slots' \in [References -> Slot]
        /\ \A r \in References : r # ref => slots'[r] = slots[r]
    BY <1>0, <2>4, <2>6
  <2>8. /\ slots'[ref].by = slots[ref].by /\ slots'[ref].published /\ slots'[ref].extraction = 0
        /\ slots'[ref].reserved = slots[ref].reserved - unused
    BY <1>0, <2>3, <2>5 DEF Slot
  <2>9. slots'[ref] # NoSlot
    BY <2>1, <2>8 DEF NoSlot
  <2>10. Accounts'
    BY <1>4, <2>4, <2>7, <2>8, <2>9, SlotShrinks
  <2> QED
    BY <2>1, <2>3, <2>7, <2>8, <2>10
<1> QED
  BY <1>2, <1>3, <1>4

(* An Execution publishes its result, or gives its slot back, and leaves.  *)
LEMMA FinishStep ==
    ASSUME SupervisorInv, NEW o \in Operations, Finish(o)
    PROVE  SupervisorInv' /\ Moves(o)
<1>0. /\ operations \in [Operations -> Operation] /\ operations[o] \in Operation
      /\ Shape(o) /\ Aim(o) /\ Condition(o) /\ sandboxes \in [Operations -> Sandbox]
      /\ closed \in BOOLEAN /\ \A c \in Operations : Condition(c)
  BY DEF SupervisorInv, Types
<1>p. PICK b \in Operations : b = operations[o].sandbox
  BY <1>0 DEF Finish, Shape, Holding, Operation, Pointers
<1>q. PICK ref \in References : ref = RefOf(o)
  BY <1>0 DEF Finish, Shape, Holding, RefOf, References
<1>a. /\ operations[o].pc = "finish" /\ operations[o].kind = "execute" /\ operations[o].owns
      /\ UNCHANGED <<active, retired, directories, closed>>
  BY <1>0 DEF Finish, registry, Shape, Holding, Slotted
<1>b. /\ Created(b) /\ IdOf(b) = operations[o].id /\ b # o /\ sandboxes[b] \in Sandbox
  BY <1>0, <1>a, <1>p, NobodyAssumption DEF Aim, Created
<1>c. /\ sandboxes' = [sandboxes EXCEPT ![b].execution = Nobody]
      /\ operations' = [operations EXCEPT ![o].pc = "respond"]
  BY <1>p DEF Finish, Target
<1>1. operations'[o] = [operations[o] EXCEPT !.pc = "respond"]
  BY <1>0, <1>c
<1>2. operations'[o] \in Operation
  BY <1>0, <1>1 DEF Operation
<1>3. /\ operations' \in [Operations -> Operation]
      /\ \A q \in Operations : q # o => operations'[q] = operations[q]
  BY <1>0, <1>2, <1>c
<1>4. /\ operations'[o].pc = "respond" /\ operations'[o].code = operations[o].code
      /\ SameRequest(o) /\ SameGrip(o) /\ SameResult(o) /\ SameDelivery(o)
  BY <1>0, <1>1 DEF Operation, SameRequest, SameGrip, SameResult, SameDelivery
<1>5. /\ slots' \in [References -> Slot] /\ Accounts'
      /\ \A r \in References : r # ref => slots'[r] = slots[r]
      /\ \/ slots'[ref] = NoSlot
         \/ /\ slots'[ref].by = o /\ slots[ref].by = o /\ slots'[ref].published
            /\ slots'[ref].extraction <= slots'[ref].reserved
            /\ operations[o].code = "ok"
  BY <1>q, <1>a, FinishStore DEF Finish
<1>6. sandboxes'[b] = [sandboxes[b] EXCEPT !.execution = Nobody]
  BY <1>0, <1>b, <1>c
<1>7. sandboxes'[b] \in Sandbox
  BY <1>b, <1>6 DEF Sandbox, Pointers
<1>8. /\ sandboxes' \in [Operations -> Sandbox]
      /\ \A c \in Operations : c # b => sandboxes'[c] = sandboxes[c]
  BY <1>0, <1>b, <1>c, <1>7
<1>9. /\ sandboxes'[b].execution = Nobody
      /\ sandboxes'[b].identityOffset = sandboxes[b].identityOffset
      /\ sandboxes'[b].done = sandboxes[b].done
      /\ sandboxes'[b].cleanupErr = sandboxes[b].cleanupErr
      /\ sandboxes'[b].extractedBytes = sandboxes[b].extractedBytes
      /\ sandboxes'[b].terminating = sandboxes[b].terminating
      /\ sandboxes'[b].cancelled = sandboxes[b].cancelled
      /\ sandboxes'[b].exited = sandboxes[b].exited
      /\ sandboxes'[b].published = sandboxes[b].published
      /\ sandboxes'[b].process = sandboxes[b].process
  BY <1>b, <1>6 DEF Sandbox
<1>10. Moves(o)
  BY <1>0, <1>3, <1>4, <1>a DEF Moves, Answering, Shape, SameRequest, SameGrip, SameResult
<1>11. Shape(o)'
  BY <1>0, <1>4, <1>a
     DEF Shape, Slotted, Holding, SameRequest, SameGrip, SameResult, SameDelivery
<1>12. Aim(o)'
  BY <1>3, <1>4, <1>b, <1>p DEF Aim, Created, IdOf, SameRequest, SameGrip
<1>13. Destroyed(o)' /\ ReadOK(o)' /\ OwnSlot(o)' /\ ~Created(o)'
  BY <1>0, <1>4, <1>a DEF Destroyed, ReadOK, OwnSlot, Created, Slotted, SameRequest
<1>14. Condition(b)' /\ Condition(o)'
  <2>1. Condition(b) /\ operations'[b] = operations[b] /\ Created(b)'
    BY <1>0, <1>3, <1>b DEF Created
  <2>2. Condition(b)'
    BY <1>9, <1>b, <2>1 DEF Condition
  <2>3. sandboxes'[o] = sandboxes[o] /\ ~Created(o) /\ ~Created(o)'
    BY <1>8, <1>13, <1>a, <1>b DEF Created
  <2>4. Condition(o)'
    BY <1>0, <1>4, <2>3 DEF Condition
  <2> QED
    BY <2>2, <2>4
<1>15. /\ operations[o].pc \in Holding
       /\ operations'[o].pc \notin Holding /\ operations'[o].pc # "closed" /\ closed' \in BOOLEAN
       /\ Culprit(o) => Culprit(o)'
  BY <1>0, <1>4, <1>a DEF Holding, Culprit, SameGrip, SameDelivery
<1>16. (\A q \in Operations : Held(q) /\ Mutex(q))'
  BY <1>8, <1>9, <1>10, <1>15, <1>p, ReleaseFrame
<1>17. ASSUME NEW q \in Operations PROVE OwnSlot(q)'
  <2>1. \A c \in Operations : sandboxes'[c].extractedBytes = sandboxes[c].extractedBytes
    BY <1>8, <1>9
  <2>2. q # o /\ operations[q].pc \in Slotted => RefOf(q) \in References /\ RefOf(q) # ref
    <3> SUFFICES ASSUME q # o, operations[q].pc \in Slotted
                 PROVE  RefOf(q) \in References /\ RefOf(q) # ref
      OBVIOUS
    <3>1. operations[q].pc \in Holding /\ Shape(q)
      BY DEF Slotted, Holding, SupervisorInv
    <3>2. RefOf(q) \in References
      BY <3>1 DEF Shape, RefOf, References
    <3>3. IdOf(q) # IdOf(o)
      BY <1>15, <3>1, OneExecution
    <3> QED
      BY <1>q, <3>2, <3>3 DEF RefOf, IdOf
  <2> QED
    BY <1>5, <1>10, <1>13, <2>1, <2>2, OtherOwnSlot
<1>18. ASSUME NEW r \in References PROVE SlotOK(r)'
  <2>1. CASE r # ref
    <3>1. slots[r].by # o
      BY <1>q, <2>1, NobodyAssumption DEF SupervisorInv, SlotOK
    <3> QED
      BY <1>5, <1>10, <2>1, <3>1, OtherSlot
  <2>2. CASE r = ref /\ slots'[ref] = NoSlot
    BY <2>2 DEF SlotOK, NoSlot
  <2>3. CASE r = ref /\ slots'[ref].by = o /\ slots'[ref].published
             /\ slots'[ref].extraction <= slots'[ref].reserved /\ operations[o].code = "ok"
    <3>1. RefOf(o)' = ref /\ o # Nobody
      BY <1>4, <1>q, NobodyAssumption DEF RefOf, SameRequest
    <3> QED
      BY <1>4, <1>a, <2>3, <3>1 DEF SlotOK, Answering, SameRequest, SameGrip, RefOf
  <2> QED
    BY <1>5, <2>1, <2>2, <2>3
<1>19. \A r \in References : slots'[r].by \in {slots[r].by, Nobody}
  BY <1>5 DEF NoSlot
<1> QED
  BY <1>5, <1>8, <1>9, <1>10, <1>11, <1>12, <1>13, <1>14, <1>15, <1>16, <1>17, <1>18, <1>19,
     <1>a,
     <1>b, ServiceStep

-----------------------------------------------------------------------------
(* results.removeSandbox gives back what the slots of the id had reserved. *)
LEMMA RemoveStore ==
    ASSUME SupervisorInv, NEW id, removeSandbox(id)
    PROVE  /\ slots' \in [References -> Slot] /\ Accounts'
           /\ \A ref \in References : slots'[ref] \in {slots[ref], NoSlot}
           /\ \A ref \in References : ref[1] = id => slots'[ref] = NoSlot
           /\ \A ref \in References : ref[1] # id => slots'[ref] = slots[ref]
<1>0. slots \in [References -> Slot] /\ NoSlot \in Slot
  BY DEF SupervisorInv, Types, Slot, NoSlot, Pointers
<1>1. PICK gone : gone = {ref \in Retained : ref[1] = id}
  OBVIOUS
<1>2. /\ slots' = [ref \in References |-> IF ref \in gone THEN NoSlot ELSE slots[ref]]
      /\ reservedBytes' = reservedBytes - BytesOf(gone)
  BY <1>1 DEF removeSandbox
<1>3. /\ slots' \in [References -> Slot]
      /\ \A ref \in References : slots'[ref] = IF ref \in gone THEN NoSlot ELSE slots[ref]
  BY <1>0, <1>2
<1>4. \A ref \in References : ref \notin gone /\ ref[1] = id => slots[ref] = NoSlot
  BY <1>1 DEF Retained
<1>5. gone \subseteq Retained /\ Retained' = Retained \ gone
  BY <1>1, <1>3 DEF Retained
<1>6. IsFiniteSet(Retained') /\ Cardinality(Retained') <= Cardinality(Retained)
      /\ Cardinality(Retained') \in Nat
  BY <1>5, Balance, FS_Subset, FS_CardinalityType
<1>7. /\ Total(slots, Retained) = Total(slots, Retained \ gone) + Total(slots, gone)
      /\ Total(slots, gone) \in Nat /\ Total(slots, Retained \ gone) \in Nat
  BY <1>5, Balance, TotalSplits
<1>8. BytesOf(gone) = Total(slots, gone) /\ BytesOf(Retained)' = Total(slots', Retained')
  BY BytesOfIsTotal
<1>9. Total(slots', Retained') = Total(slots, Retained')
  <2>1. Weighs(slots, Retained') /\ \A x \in Retained' : slots[x].reserved = slots'[x].reserved
    BY <1>3, <1>5, <1>6, Balance DEF Weighs
  <2> QED
    BY <2>1, SameTotal
<1>10. Accounts'
  <2>1. reservedBytes' = BytesOf(Retained)' /\ reservedBytes' \in 0..MaxResultBytes
    BY <1>2, <1>5, <1>7, <1>8, <1>9, Balance, BudgetAssumption
  <2>2. Cardinality(Retained') <= MaxResults
    BY <1>6, Balance, BudgetAssumption
  <2> QED
    BY <1>6, <2>1, <2>2 DEF Accounts
<1>11. \A ref \in gone : ref[1] = id
  BY <1>1
<1> QED
  BY <1>3, <1>4, <1>10, <1>11

(* Slots and Executions after a removal by a destroy.                      *)
LEMMA RemovalFrame ==
    ASSUME SupervisorInv, NEW o \in Operations, Moves(o), operations[o].kind = "destroy",
           \A ref \in References : slots'[ref] \in {slots[ref], NoSlot},
           \A c \in Operations : sandboxes'[c].extractedBytes = sandboxes[c].extractedBytes,
           operations'[o].pc \notin Slotted
    PROVE  /\ (\A ref \in References : SlotOK(ref))' /\ (\A q \in Operations : OwnSlot(q))'
           /\ \A ref \in References : slots'[ref].by \in {slots[ref].by, Nobody}
<1>1. ASSUME NEW ref \in References PROVE SlotOK(ref)'
  <2>1. slots[ref].by # o
    BY NobodyAssumption DEF SupervisorInv, SlotOK
  <2> QED
    BY <2>1, OtherSlot
<1>2. ASSUME NEW q \in Operations PROVE OwnSlot(q)'
  <2>1. CASE q = o
    BY <2>1 DEF OwnSlot
  <2>2. CASE q # o
    <3>1. operations[q].pc \in Slotted => RefOf(q) \in References
      BY DEF SupervisorInv, Shape, Slotted, Holding, RefOf, References
    <3> QED
      BY <2>2, <3>1, OtherOwnSlot
  <2> QED
    BY <2>1, <2>2
<1> QED
  BY <1>1, <1>2 DEF NoSlot

(* An idempotent destroy of an id that is not registered.                  *)
LEMMA DestroyAbsentStep ==
    ASSUME SupervisorInv, NEW o \in Operations, DestroyAbsent(o)
    PROVE  SupervisorInv' /\ Moves(o)
<1>0. /\ operations \in [Operations -> Operation] /\ operations[o] \in Operation
      /\ Shape(o) /\ Condition(o) /\ sandboxes \in [Operations -> Sandbox] /\ closed \in BOOLEAN
  BY DEF SupervisorInv, Types
<1>a. /\ operations[o].pc = "request" /\ operations[o].kind = "destroy"
      /\ UNCHANGED <<sandboxes, active, retired, directories, closed>>
      /\ removeSandbox(IdOf(o)) /\ operations' = Answered(o, "ok")
  BY DEF DestroyAbsent, At, registry
<1>1. operations'[o] = [operations[o] EXCEPT !.pc = "respond", !.code = "ok"]
  BY <1>0, <1>a DEF Answered
<1>2. operations'[o] \in Operation
  BY <1>0, <1>1 DEF Operation
<1>3. /\ operations' \in [Operations -> Operation]
      /\ \A q \in Operations : q # o => operations'[q] = operations[q]
  BY <1>0, <1>2, <1>a DEF Answered
<1>4. /\ operations'[o].pc = "respond" /\ operations'[o].code = "ok"
      /\ SameRequest(o) /\ SameGrip(o) /\ SameResult(o) /\ SameDelivery(o)
  BY <1>0, <1>1 DEF Operation, SameRequest, SameGrip, SameResult, SameDelivery
<1>5. Moves(o)
  BY <1>0, <1>3, <1>4, <1>a DEF Moves, Answering, Shape, SameRequest, SameGrip, SameResult
<1>6. Shape(o)' /\ Aim(o)' /\ Destroyed(o)' /\ ReadOK(o)' /\ ~Created(o)' /\ ~Created(o)
  BY <1>0, <1>4, <1>a
     DEF Shape, Aim, Destroyed, ReadOK, Created, Slotted, Holding, SameRequest, SameGrip, SameResult,
         SameDelivery
<1>7. /\ slots' \in [References -> Slot] /\ Accounts'
      /\ \A ref \in References : slots'[ref] \in {slots[ref], NoSlot}
  BY <1>a, RemoveStore
<1>8. /\ operations[o].pc \notin Holding /\ operations'[o].pc \notin Holding \union Slotted
      /\ operations'[o].pc # "closed" /\ closed' \in BOOLEAN /\ ~Culprit(o)
  BY <1>0, <1>4, <1>a DEF Holding, Slotted, Culprit, Shape
<1>9. /\ (\A ref \in References : SlotOK(ref))' /\ (\A q \in Operations : OwnSlot(q))'
      /\ \A ref \in References : slots'[ref].by \in {slots[ref].by, Nobody}
  BY <1>5, <1>7, <1>8, <1>a, RemovalFrame
<1>10. (\A q \in Operations : Held(q) /\ Mutex(q))'
  BY <1>5, <1>8, <1>a, MutexFrame
<1>11. Condition(o)'
  BY <1>0, <1>4, <1>6, <1>a DEF Condition
<1> QED
  BY <1>0, <1>5, <1>6, <1>7, <1>8, <1>9, <1>10, <1>11, <1>a, ServiceStep

-----------------------------------------------------------------------------
(* A registered Sandbox is released.                                       *)
LEMMA ReleaseRegistry ==
    ASSUME SupervisorInv, NEW o \in Operations, NEW b \in Operations, Moves(o),
           Created(o)' => Created(o), Created(b), active[IdOf(b)] = b,
           active' = [active EXCEPT ![IdOf(b)] = Nobody],
           retired' \in {retired, retired \union {IdOf(b)}},
           sandboxes[b].published => IdOf(b) \in retired',
           \A c \in Operations : c # b => sandboxes'[c] = sandboxes[c],
           sandboxes'[b].identityOffset = sandboxes[b].identityOffset,
           sandboxes'[b].published = sandboxes[b].published,
           sandboxes'[b].done, ~sandboxes'[b].cleanupErr
    PROVE  /\ active' \in [SandboxIds -> Pointers] /\ retired' \subseteq SandboxIds
           /\ (\A c \in Operations : Registration(c))' /\ RegistryOK' /\ OncePublished'
<1>0. /\ \A c \in Operations : Registration(c) /\ Condition(c) /\ Shape(c)
      /\ RegistryOK /\ OncePublished /\ active \in [SandboxIds -> Pointers]
      /\ retired \subseteq SandboxIds
  BY DEF SupervisorInv, Types
<1>1. \A c \in Operations : Created(c)' <=> Created(c)
  BY Settled DEF Moves, Created
<1>2. \A c \in Operations : Created(c) => IdOf(c)' = IdOf(c) /\ IdOf(c) \in SandboxIds
  BY <1>0, Settled DEF Created, Shape, IdOf
<1>3. \A c \in Operations : sandboxes[c].published => Created(c)
  BY <1>0 DEF Condition
<1>4. /\ \A c \in Operations : sandboxes'[c].published = sandboxes[c].published
      /\ \A c \in Operations : sandboxes'[c].identityOffset = sandboxes[c].identityOffset
      /\ \A c \in Operations : c # Nobody
  BY NobodyAssumption
<1>5. /\ active' \in [SandboxIds -> Pointers] /\ active'[IdOf(b)] = Nobody
      /\ \A id \in SandboxIds : id # IdOf(b) => active'[id] = active[id]
      /\ retired' \subseteq SandboxIds
  BY <1>0, <1>2 DEF Pointers
<1>6. ASSUME NEW c \in Operations PROVE Registration(c)'
  <2>1. CASE c = b
    BY <1>1, <1>2, <1>4, <1>5, <2>1 DEF Registration
  <2>2. CASE c # b
    <3>1. Created(c) => (active'[IdOf(c)] = c <=> active[IdOf(c)] = c)
      BY <1>2, <1>4, <1>5, <2>2
    <3>2. Created(c) =>
            (active'[IdOf(c)'] = c <=> ~sandboxes'[c].done \/ sandboxes'[c].cleanupErr)
      BY <1>0, <1>2, <2>2, <3>1 DEF Registration
    <3>3. sandboxes'[c].published => active'[IdOf(c)'] = c \/ IdOf(c)' \in retired'
      BY <1>0, <1>2, <1>3, <1>4, <3>1 DEF Registration
    <3> QED
      BY <1>1, <3>2, <3>3 DEF Registration
  <2> QED
    BY <2>1, <2>2
<1>7. RegistryOK'
  <2>1. \A id \in SandboxIds : active'[id] # Nobody =>
          /\ active'[id] = active[id] /\ active[id] \in Operations
          /\ Created(active[id]) /\ IdOf(active[id]) = id
    BY <1>0, <1>5 DEF RegistryOK, Pointers
  <2>2. \A id \in SandboxIds : active'[id] # Nobody =>
          Created(active[id])' /\ IdOf(active[id])' = id
    BY <1>1, <1>2, <2>1 DEF Created, IdOf
  <2>3. \A i, j \in SandboxIds :
          active'[i] # Nobody /\ active'[j] # Nobody /\ i # j =>
              sandboxes'[active'[i]].identityOffset # sandboxes'[active'[j]].identityOffset
    BY <1>0, <1>4, <2>1 DEF RegistryOK
  <2>4. \A id \in retired' : active'[id] = Nobody
    BY <1>0, <1>5 DEF RegistryOK
  <2> QED
    BY <1>0, <2>1, <2>2, <2>3, <2>4 DEF RegistryOK
<1>8. OncePublished'
  BY <1>0, <1>2, <1>3, <1>4 DEF OncePublished
<1> QED
  BY <1>5, <1>6, <1>7, <1>8

(* release, as an Unwind, a Teardown or a retry calls it.                  *)
LEMMA ReleaseStep ==
    ASSUME SupervisorInv, NEW o \in Operations, NEW b \in Operations, Moves(o),
           Created(o)' => Created(o), Created(b), active[IdOf(b)] = b,
           NEW retire \in BOOLEAN, NEW clean \in BOOLEAN, release(b, retire, clean),
           sandboxes[b].published => retire,
           \A c \in Operations : c # b => sandboxes'[c] = sandboxes[c],
           sandboxes'[b].identityOffset = sandboxes[b].identityOffset,
           sandboxes'[b].published = sandboxes[b].published,
           sandboxes'[b].done, sandboxes'[b].cleanupErr = ~clean
    PROVE  /\ active' \in [SandboxIds -> Pointers]
           /\ retired' \subseteq SandboxIds /\ directories' \subseteq SandboxIds
           /\ (\A c \in Operations : Registration(c))' /\ RegistryOK' /\ OncePublished'
<1>1. directories' \subseteq SandboxIds
  BY DEF release, SupervisorInv, Types
<1>2. CASE clean
  <2>1. /\ active' = [active EXCEPT ![IdOf(b)] = Nobody]
        /\ retired' = IF retire THEN retired \union {IdOf(b)} ELSE retired
    BY <1>2 DEF release
  <2>2. retired' \in {retired, retired \union {IdOf(b)}} /\ (retire => IdOf(b) \in retired')
    BY <2>1
  <2> QED
    BY <1>1, <1>2, <2>1, <2>2, ReleaseRegistry
<1>3. CASE ~clean
  <2>1. UNCHANGED <<active, retired>>
    BY <1>3 DEF release
  <2>2. ~sandboxes[b].done \/ sandboxes[b].cleanupErr
    BY DEF SupervisorInv, Registration
  <2>3. \A c \in Operations :
          /\ sandboxes'[c].identityOffset = sandboxes[c].identityOffset
          /\ (~sandboxes'[c].done \/ sandboxes'[c].cleanupErr) <=>
                (~sandboxes[c].done \/ sandboxes[c].cleanupErr)
          /\ sandboxes'[c].published => sandboxes[c].published
    BY <1>3, <2>2
  <2> QED
    BY <1>1, <2>1, <2>3, RegistryFrame DEF SupervisorInv, Types
<1> QED
  BY <1>2, <1>3

(* A creation that failed is undone.                                       *)
LEMMA UnwindStep ==
    ASSUME SupervisorInv, NEW o \in Operations, NEW clean \in BOOLEAN, Unwind(o, clean)
    PROVE  SupervisorInv' /\ Steady(o)
<1>0. /\ operations \in [Operations -> Operation] /\ operations[o] \in Operation
      /\ Shape(o) /\ Aim(o) /\ Condition(o) /\ Registration(o) /\ Mutex(o)
      /\ sandboxes \in [Operations -> Sandbox] /\ sandboxes[o] \in Sandbox
      /\ slots \in [References -> Slot] /\ closed \in BOOLEAN
  BY DEF SupervisorInv, Types
<1>p. PICK err \in BOOLEAN : err = ~clean
  OBVIOUS
<1>a. /\ operations[o].pc = "unwind" /\ operations[o].kind = "create" /\ operations[o].owns
      /\ operations[o].sandbox = o /\ UNCHANGED <<slots, reservedBytes, closed>>
      /\ release(o, FALSE, clean)
      /\ sandboxes' = [sandboxes EXCEPT ![o].cancelled = TRUE, ![o].cleanupErr = err,
                                        ![o].exited = TRUE, ![o].done = TRUE]
      /\ operations' = [operations EXCEPT ![o].pc = "respond"]
  BY <1>0, <1>p DEF Unwind, results, Shape
<1>b. /\ Created(o) /\ active[IdOf(o)] = o /\ ~sandboxes[o].published
      /\ ~sandboxes[o].done /\ sandboxes[o].process # "alive"
      /\ sandboxes[o].execution = Nobody
  BY <1>0, <1>a DEF Created, Condition, Registration, Mutex
<1>1. operations'[o] = [operations[o] EXCEPT !.pc = "respond"]
  BY <1>0, <1>a
<1>2. operations'[o] \in Operation
  BY <1>0, <1>1 DEF Operation
<1>3. /\ operations' \in [Operations -> Operation]
      /\ \A q \in Operations : q # o => operations'[q] = operations[q]
  BY <1>0, <1>2, <1>a
<1>4. /\ operations'[o].pc = "respond" /\ operations'[o].code = operations[o].code
      /\ SameRequest(o) /\ SameGrip(o) /\ SameResult(o) /\ SameDelivery(o)
  BY <1>0, <1>1 DEF Operation, SameRequest, SameGrip, SameResult, SameDelivery
<1>6. sandboxes'[o] = [sandboxes[o] EXCEPT !.cancelled = TRUE, !.cleanupErr = err,
                                           !.exited = TRUE, !.done = TRUE]
  BY <1>0, <1>a
<1>7. sandboxes'[o] \in Sandbox
  BY <1>0, <1>6 DEF Sandbox
<1>8. /\ sandboxes' \in [Operations -> Sandbox]
      /\ \A c \in Operations : c # o => sandboxes'[c] = sandboxes[c]
  BY <1>0, <1>a, <1>7
<1>9. /\ sandboxes'[o].execution = sandboxes[o].execution
      /\ sandboxes'[o].identityOffset = sandboxes[o].identityOffset
      /\ sandboxes'[o].done /\ sandboxes'[o].cleanupErr = ~clean
      /\ sandboxes'[o].extractedBytes = sandboxes[o].extractedBytes
      /\ sandboxes'[o].terminating = sandboxes[o].terminating
      /\ sandboxes'[o].exited
      /\ sandboxes'[o].published = sandboxes[o].published
      /\ sandboxes'[o].process = sandboxes[o].process
  BY <1>0, <1>6, <1>p DEF Sandbox
<1>10. Moves(o)
  BY <1>0, <1>3, <1>4, <1>a DEF Moves, Answering, SameRequest, SameGrip, SameResult
<1>11. Shape(o)' /\ Created(o)'
  BY <1>0, <1>4, <1>a
     DEF Shape, Created, Slotted, Holding, SameRequest, SameGrip, SameResult, SameDelivery
<1>12. Aim(o)' /\ Destroyed(o)' /\ ReadOK(o)' /\ OwnSlot(o)'
  BY <1>0, <1>4, <1>11, <1>a
     DEF Aim, Destroyed, ReadOK, OwnSlot, Slotted, IdOf, SameRequest, SameGrip
<1>14. Condition(o)'
  BY <1>0, <1>4, <1>9, <1>11, <1>b DEF Condition
<1>15. /\ operations[o].pc \notin Holding /\ operations'[o].pc \notin Holding
       /\ operations[o].pc \notin Slotted /\ operations'[o].pc # "closed" /\ closed' \in BOOLEAN
       /\ Culprit(o) => Culprit(o)'
  BY <1>0, <1>4, <1>a DEF Holding, Slotted, Culprit, SameGrip, SameDelivery
<1>16. (\A q \in Operations : Held(q) /\ Mutex(q))'
  BY <1>8, <1>9, <1>10, <1>15, <1>b, MutexFrame
<1>17. (\A q \in Operations : OwnSlot(q))'
  <2>1. \A c \in Operations : sandboxes'[c].extractedBytes = sandboxes[c].extractedBytes
    BY <1>8, <1>9
  <2> QED
    BY <1>10, <1>12, <1>a, <2>1, SlotsFrame
<1>18. (\A ref \in References : SlotOK(ref))' /\ Accounts'
  BY <1>10, <1>15, <1>a, ResultsFrame
<1>19. /\ active' \in [SandboxIds -> Pointers]
       /\ retired' \subseteq SandboxIds /\ directories' \subseteq SandboxIds
       /\ (\A c \in Operations : Registration(c))' /\ RegistryOK' /\ OncePublished'
  <2>1. PICK retire \in BOOLEAN : retire = FALSE
    OBVIOUS
  <2>2. release(o, retire, clean) /\ (sandboxes[o].published => retire)
    BY <1>a, <1>b, <2>1
  <2> QED
    BY <1>8, <1>9, <1>10, <1>b, <2>2, ReleaseStep
<1>20. /\ slots' \in [References -> Slot]
       /\ \A ref \in References : slots'[ref].by \in {slots[ref].by, Nobody}
  BY <1>0, <1>a
<1>s. Steady(o)
  BY <1>0, <1>4, <1>8, <1>9, <1>10, <1>a
     DEF Steady, Slotted, results, SameRequest, SameGrip, SameResult
<1> QED
  BY <1>s, <1>8, <1>9, <1>10, <1>11, <1>12, <1>14, <1>15, <1>16, <1>17, <1>18, <1>19, <1>20,
     <1>a, <1>b,
     GeneralStep

(* The wait goroutine releases a Sandbox without Execution.                *)
LEMMA TeardownStep ==
    ASSUME SupervisorInv, NEW b \in Operations, NEW clean \in BOOLEAN, Teardown(b, clean)
    PROVE  SupervisorInv' /\ Steady(b)
<1>0. /\ operations \in [Operations -> Operation] /\ Condition(b) /\ Registration(b)
      /\ Shape(b) /\ Aim(b) /\ Destroyed(b) /\ ReadOK(b) /\ OwnSlot(b) /\ DeliveryDecides
      /\ sandboxes \in [Operations -> Sandbox] /\ sandboxes[b] \in Sandbox
      /\ slots \in [References -> Slot] /\ closed \in BOOLEAN
      /\ operations[b].sandbox \in Pointers
  BY DEF SupervisorInv, Types, Operation
<1>p. PICK err \in BOOLEAN : err = ~clean
  OBVIOUS
<1>a. /\ sandboxes[b].published /\ sandboxes[b].exited /\ ~sandboxes[b].done
      /\ sandboxes[b].execution = Nobody /\ release(b, TRUE, clean)
      /\ sandboxes' = [sandboxes EXCEPT ![b].cleanupErr = err, ![b].done = TRUE]
      /\ UNCHANGED <<operations, slots, reservedBytes, closed>>
  BY <1>p DEF Teardown, results
<1>b. /\ Created(b) /\ active[IdOf(b)] = b /\ sandboxes[b].process # "alive"
  BY <1>0, <1>a DEF Condition, Registration
<1>6. sandboxes'[b] = [sandboxes[b] EXCEPT !.cleanupErr = err, !.done = TRUE]
  BY <1>0, <1>a
<1>7. sandboxes'[b] \in Sandbox
  BY <1>0, <1>6 DEF Sandbox
<1>8. /\ sandboxes' \in [Operations -> Sandbox]
      /\ \A c \in Operations : c # b => sandboxes'[c] = sandboxes[c]
  BY <1>0, <1>a, <1>7
<1>9. /\ sandboxes'[b].execution = sandboxes[b].execution
      /\ sandboxes'[b].identityOffset = sandboxes[b].identityOffset
      /\ sandboxes'[b].done /\ sandboxes'[b].cleanupErr = ~clean
      /\ sandboxes'[b].extractedBytes = sandboxes[b].extractedBytes
      /\ sandboxes'[b].terminating = sandboxes[b].terminating
      /\ sandboxes'[b].cancelled = sandboxes[b].cancelled
      /\ sandboxes'[b].exited = sandboxes[b].exited
      /\ sandboxes'[b].published = sandboxes[b].published
      /\ sandboxes'[b].process = sandboxes[b].process
  BY <1>0, <1>6, <1>p DEF Sandbox
<1>10. Moves(b)
  BY <1>0, <1>a DEF Moves
<1>11. Shape(b)' /\ Aim(b)' /\ ReadOK(b)' /\ (Created(b)' <=> Created(b)) /\ (Culprit(b)' <=> Culprit(b))
  BY <1>0, <1>a DEF Shape, Aim, ReadOK, Created, Culprit, IdOf, RefOf
<1>12. \A c \in Operations :
         /\ sandboxes'[c].extractedBytes = sandboxes[c].extractedBytes
         /\ sandboxes[c].done => sandboxes'[c].done /\ sandboxes'[c].cleanupErr = sandboxes[c].cleanupErr
  BY <1>8, <1>9, <1>a
<1>13. Destroyed(b)' /\ OwnSlot(b)'
  <2>1. operations[b].sandbox # Nobody => operations[b].sandbox \in Operations
    BY <1>0 DEF Pointers
  <2>2. operations[b].pc \in Slotted => operations[b].sandbox # Nobody
    BY <1>0 DEF Shape, Slotted, Holding
  <2> QED
    BY <1>0, <1>12, <1>a, <2>1, <2>2 DEF Destroyed, OwnSlot, Allowed, allowance, RefOf
<1>14. Condition(b)'
  BY <1>0, <1>9, <1>a, <1>b DEF Condition, Created
<1>15. operations'[b].pc = "closed" /\ operations'[b].owns /\ ~operations'[b].delivered =>
         operations'[b].sandbox \in Operations /\ sandboxes'[operations'[b].sandbox].done
  BY <1>0, <1>12, <1>a DEF DeliveryDecides, Shape, Pointers, Target
<1>16. (\A q \in Operations : Held(q) /\ Mutex(q))'
  BY <1>8, <1>9, <1>10, <1>a, MutexFrame
<1>17. (\A q \in Operations : OwnSlot(q))'
  BY <1>10, <1>12, <1>13, <1>a, SlotsFrame
<1>18. (\A ref \in References : SlotOK(ref))' /\ Accounts'
  BY <1>10, <1>a, ResultsFrame
<1>19. /\ active' \in [SandboxIds -> Pointers]
       /\ retired' \subseteq SandboxIds /\ directories' \subseteq SandboxIds
       /\ (\A c \in Operations : Registration(c))' /\ RegistryOK' /\ OncePublished'
  BY <1>8, <1>9, <1>10, <1>11, <1>a, <1>b, ReleaseStep, ZenonT(30)
<1>20. /\ slots' \in [References -> Slot] /\ closed' \in BOOLEAN /\ (closed => closed')
       /\ \A ref \in References : slots'[ref].by \in {slots[ref].by, Nobody}
  BY <1>0, <1>a
<1>s. Steady(b)
  BY <1>8, <1>9, <1>10, <1>a DEF Steady
<1> QED
  BY <1>s, <1>8, <1>9, <1>10, <1>11, <1>13, <1>14, <1>15, <1>16, <1>17, <1>18, <1>19, <1>20,
     <1>a,
     GeneralStep

(* A destroy whose Sandbox cannot be cleaned up.                           *)
LEMMA DestroyFailedStep ==
    ASSUME SupervisorInv, NEW o \in Operations, NEW clean \in BOOLEAN, DestroyDrained(o, clean),
           NEW b \in Operations, b = operations[o].sandbox, sandboxes[b].cleanupErr,
           ~(active[IdOf(o)] = b /\ clean)
    PROVE  SupervisorInv' /\ Steady(o)
<1>0. /\ operations \in [Operations -> Operation] /\ operations[o] \in Operation
      /\ Shape(o) /\ Aim(o) /\ Condition(o) /\ sandboxes \in [Operations -> Sandbox]
      /\ sandboxes[b] \in Sandbox
  BY DEF SupervisorInv, Types
<1>p. PICK err \in BOOLEAN : err = (sandboxes[b].cleanupErr
                                     /\ ~((active[IdOf(o)] = b /\ sandboxes[b].cleanupErr) /\ clean))
  OBVIOUS
<1>q. err = TRUE
  BY <1>p
<1>a. /\ operations[o].pc = "drain" /\ UNCHANGED <<active, retired, directories, slots, reservedBytes, closed>>
      /\ sandboxes' = [sandboxes EXCEPT ![b].cleanupErr = err]
      /\ operations' = Answered(o, "error")
  BY <1>p DEF DestroyDrained, Target, registry, results, release, Outcome
<1>b. sandboxes' = sandboxes
  <2>1. [sandboxes[b] EXCEPT !.cleanupErr = TRUE] = sandboxes[b]
    BY <1>0 DEF Sandbox
  <2> QED
    BY <1>0, <1>a, <1>q, <2>1
<1>1. operations'[o] = [operations[o] EXCEPT !.pc = "respond", !.code = "error"]
  BY <1>0, <1>a DEF Answered
<1>2. operations'[o] \in Operation
  BY <1>0, <1>1 DEF Operation
<1>3. /\ operations' \in [Operations -> Operation]
      /\ \A q \in Operations : q # o => operations'[q] = operations[q]
  BY <1>0, <1>2, <1>a DEF Answered
<1>4. /\ operations'[o].pc = "respond" /\ operations'[o].code = "error"
      /\ SameRequest(o) /\ SameGrip(o) /\ SameResult(o) /\ SameDelivery(o)
  BY <1>0, <1>1 DEF Operation, SameRequest, SameGrip, SameResult, SameDelivery
<1>5. UNCHANGED <<sandboxes, registry, results, closed>>
  BY <1>a, <1>b DEF registry, results
<1>6. Moves(o)
  BY <1>0, <1>3, <1>4, <1>a DEF Moves, Answering, Shape, SameRequest, SameGrip, SameResult
<1>7. Shape(o)' /\ ReadOK(o)'
  BY <1>0, <1>4, <1>a
     DEF Shape, ReadOK, Slotted, Holding, SameRequest, SameGrip, SameResult, SameDelivery
<1>s. Steady(o)
  BY <1>0, <1>4, <1>5, <1>6, <1>a
     DEF Steady, Slotted, results, SameRequest, SameGrip, SameResult
<1> QED
  BY <1>s, <1>0, <1>4, <1>5, <1>6, <1>7, <1>a, HandlerStep
     DEF Shape, Culprit, Slotted, Holding, SameRequest, SameGrip, SameResult, SameDelivery

(* A destroy that has waited for its Sandbox removes its results.          *)
LEMMA DestroyDoneStep ==
    ASSUME SupervisorInv, NEW o \in Operations, NEW clean \in BOOLEAN, DestroyDrained(o, clean),
           NEW b \in Operations, b = operations[o].sandbox,
           sandboxes[b].cleanupErr => active[IdOf(o)] = b /\ clean
    PROVE  SupervisorInv' /\ Moves(o)
<1>0. /\ operations \in [Operations -> Operation] /\ operations[o] \in Operation
      /\ Shape(o) /\ Aim(o) /\ Condition(o) /\ Condition(b) /\ Mutex(b)
      /\ sandboxes \in [Operations -> Sandbox]
      /\ sandboxes[b] \in Sandbox /\ closed \in BOOLEAN
  BY DEF SupervisorInv, Types
<1>p. PICK err \in BOOLEAN : err = (sandboxes[b].cleanupErr
                                     /\ ~((active[IdOf(o)] = b /\ sandboxes[b].cleanupErr) /\ clean))
  OBVIOUS
<1>q. err = FALSE
  BY <1>p
<1>a. /\ operations[o].pc = "drain" /\ sandboxes[b].done /\ closed' = closed
      /\ sandboxes' = [sandboxes EXCEPT ![b].cleanupErr = err]
      /\ operations' = Answered(o, "ok") /\ removeSandbox(IdOf(o))
      /\ IF active[IdOf(o)] = b /\ sandboxes[b].cleanupErr THEN release(b, TRUE, clean)
         ELSE UNCHANGED <<active, retired, directories>>
  BY <1>p, <1>q DEF DestroyDrained, Target, registry, Outcome
<1>b. /\ operations[o].kind = "destroy" /\ Created(b) /\ IdOf(b) = IdOf(o) /\ b # o
      /\ sandboxes[b].exited /\ sandboxes[b].execution = Nobody
  BY <1>0, <1>a, NobodyAssumption DEF Shape, Aim, Created, IdOf, Condition, Mutex
<1>1. operations'[o] = [operations[o] EXCEPT !.pc = "respond", !.code = "ok"]
  BY <1>0, <1>a DEF Answered
<1>2. operations'[o] \in Operation
  BY <1>0, <1>1 DEF Operation
<1>3. /\ operations' \in [Operations -> Operation]
      /\ \A q \in Operations : q # o => operations'[q] = operations[q]
  BY <1>0, <1>2, <1>a DEF Answered
<1>4. /\ operations'[o].pc = "respond" /\ operations'[o].code = "ok"
      /\ SameRequest(o) /\ SameGrip(o) /\ SameResult(o) /\ SameDelivery(o)
  BY <1>0, <1>1 DEF Operation, SameRequest, SameGrip, SameResult, SameDelivery
<1>5. Moves(o)
  BY <1>0, <1>3, <1>4, <1>a DEF Moves, Answering, Shape, SameRequest, SameGrip, SameResult
<1>6. sandboxes'[b] = [sandboxes[b] EXCEPT !.cleanupErr = FALSE]
  BY <1>0, <1>a, <1>q
<1>7. sandboxes'[b] \in Sandbox
  BY <1>0, <1>6 DEF Sandbox
<1>8. /\ sandboxes' \in [Operations -> Sandbox]
      /\ \A c \in Operations : c # b => sandboxes'[c] = sandboxes[c]
  BY <1>0, <1>a, <1>7
<1>9. /\ sandboxes'[b].execution = sandboxes[b].execution
      /\ sandboxes'[b].identityOffset = sandboxes[b].identityOffset
      /\ sandboxes'[b].done = sandboxes[b].done /\ sandboxes'[b].cleanupErr = FALSE
      /\ sandboxes'[b].extractedBytes = sandboxes[b].extractedBytes
      /\ sandboxes'[b].terminating = sandboxes[b].terminating
      /\ sandboxes'[b].cancelled = sandboxes[b].cancelled
      /\ sandboxes'[b].exited = sandboxes[b].exited
      /\ sandboxes'[b].published = sandboxes[b].published
      /\ sandboxes'[b].process = sandboxes[b].process
  BY <1>0, <1>6 DEF Sandbox
<1>10. Shape(o)' /\ ReadOK(o)' /\ ~Created(o)' /\ ~Created(o)
  BY <1>0, <1>4, <1>a, <1>b
     DEF Shape, ReadOK, Created, Slotted, Holding, SameRequest, SameGrip, SameResult, SameDelivery
<1>11. Aim(o)'
  BY <1>3, <1>4, <1>b DEF Aim, Created, IdOf, SameRequest, SameGrip
<1>12. /\ slots' \in [References -> Slot] /\ Accounts'
       /\ \A ref \in References : slots'[ref] \in {slots[ref], NoSlot}
       /\ \A ref \in References : ref[1] = IdOf(o) => slots'[ref] = NoSlot
  BY <1>a, RemoveStore
<1>13. /\ operations[o].pc \notin Holding /\ operations'[o].pc \notin Holding \union Slotted
       /\ operations'[o].pc # "closed" /\ closed' \in BOOLEAN /\ ~Culprit(o)
  BY <1>0, <1>4, <1>a, <1>b DEF Holding, Slotted, Culprit, Shape
<1>14. /\ (\A ref \in References : SlotOK(ref))' /\ (\A q \in Operations : OwnSlot(q))'
       /\ \A ref \in References : slots'[ref].by \in {slots[ref].by, Nobody}
  <2>1. \A c \in Operations : sandboxes'[c].extractedBytes = sandboxes[c].extractedBytes
    BY <1>8, <1>9
  <2> QED
    BY <1>5, <1>12, <1>13, <1>b, <2>1, RemovalFrame
<1>15. (\A q \in Operations : Held(q) /\ Mutex(q))'
  BY <1>5, <1>8, <1>9, <1>13, MutexFrame
<1>16. Condition(o)' /\ Condition(b)'
  <2>1. Condition(b) /\ operations'[b] = operations[b] /\ Created(b)'
    BY <1>0, <1>3, <1>b DEF Created
  <2>2. Condition(b)'
    BY <1>9, <1>b, <2>1 DEF Condition
  <2>3. sandboxes'[o] = sandboxes[o]
    BY <1>8, <1>b
  <2>4. Condition(o)'
    BY <1>0, <1>4, <1>10, <2>3 DEF Condition
  <2> QED
    BY <2>2, <2>4
<1>17. Destroyed(o)'
  <2>1. ASSUME NEW ref \in References, slots'[ref].by # Nobody
        PROVE  operations'[slots'[ref].by].sandbox # b
    <3>1. /\ slots'[ref] = slots[ref] /\ slots[ref].by \in Operations /\ ref[1] # IdOf(o)
          /\ SlotOK(ref) /\ operations[slots[ref].by].sandbox \in Pointers
      BY <1>12, <2>1 DEF NoSlot, SupervisorInv, Types, Slot, Pointers, Operation
    <3>2. IdOf(slots[ref].by) # IdOf(o) /\ slots[ref].by # o
      BY <1>b, <2>1, <3>1 DEF SlotOK, RefOf, IdOf
    <3>3. Aim(slots[ref].by) /\ b # Nobody
      BY <3>1, NobodyAssumption DEF SupervisorInv
    <3>4. operations[slots[ref].by].sandbox # b
      BY <1>b, <3>2, <3>3 DEF Aim, IdOf
    <3> QED
      BY <1>3, <3>1, <3>2, <3>4
  <2> QED
    BY <1>4, <1>9, <1>a, <2>1 DEF Destroyed, SameGrip
<1>18. /\ active' \in [SandboxIds -> Pointers]
       /\ retired' \subseteq SandboxIds /\ directories' \subseteq SandboxIds
       /\ (\A c \in Operations : Registration(c))' /\ RegistryOK' /\ OncePublished'
  <2>1. CASE active[IdOf(o)] = b /\ sandboxes[b].cleanupErr
    <3>1. /\ clean /\ release(b, TRUE, clean) /\ active[IdOf(b)] = b
          /\ sandboxes'[b].cleanupErr = ~clean
      BY <1>9, <1>a, <1>b, <2>1
    <3>2. PICK retire \in BOOLEAN : retire = TRUE
      OBVIOUS
    <3>3. release(b, retire, clean) /\ (sandboxes[b].published => retire) /\ sandboxes'[b].done
      BY <1>9, <1>a, <3>1, <3>2
    <3> QED
      BY <1>5, <1>8, <1>9, <1>10, <1>b, <3>1, <3>3, ReleaseStep
  <2>2. CASE ~(active[IdOf(o)] = b /\ sandboxes[b].cleanupErr)
    <3>1. UNCHANGED <<active, retired, directories>> /\ ~sandboxes[b].cleanupErr
      BY <1>a, <2>2
    <3>2. \A c \in Operations :
            /\ sandboxes'[c].identityOffset = sandboxes[c].identityOffset
            /\ (~sandboxes'[c].done \/ sandboxes'[c].cleanupErr) <=>
                  (~sandboxes[c].done \/ sandboxes[c].cleanupErr)
            /\ sandboxes'[c].published => sandboxes[c].published
      BY <1>8, <1>9, <3>1
    <3>3. (\A c \in Operations : Registration(c))' /\ RegistryOK' /\ OncePublished'
      BY <1>5, <1>10, <3>1, <3>2, RegistryFrame
    <3> QED
      BY <3>1, <3>3 DEF SupervisorInv, Types
  <2> QED
    BY <2>1, <2>2
<1> QED
  BY <1>5, <1>8, <1>9, <1>10, <1>11, <1>12, <1>13, <1>14, <1>15, <1>16, <1>17, <1>18, <1>a,
     GeneralStep

(* A creation takes its id and the lowest free identity range.             *)
LEMMA ReserveStep ==
    ASSUME SupervisorInv, NEW o \in Operations, Reserve(o)
    PROVE  SupervisorInv' /\ Steady(o)
<1>0. /\ operations \in [Operations -> Operation] /\ operations[o] \in Operation
      /\ Shape(o) /\ Condition(o) /\ Mutex(o) /\ sandboxes \in [Operations -> Sandbox]
      /\ active \in [SandboxIds -> Pointers] /\ closed \in BOOLEAN
      /\ slots \in [References -> Slot] /\ RegistryOK /\ OncePublished
      /\ \A c \in Operations : Registration(c) /\ Condition(c) /\ Shape(c)
  BY DEF SupervisorInv, Types
<1>a. /\ operations[o].pc = "request" /\ operations[o].kind = "create"
      /\ active[IdOf(o)] = Nobody /\ IdOf(o) \notin retired /\ FreeOffsets # {}
      /\ IdOf(o) \in SandboxIds
  BY <1>0 DEF Reserve, At, CanReserve, Shape, IdOf
<1>b. PICK offset \in FreeOffsets : offset = Min(FreeOffsets)
  <2>1. FreeOffsets \subseteq Nat
    BY BudgetAssumption DEF FreeOffsets
  <2>2. \E n \in FreeOffsets : \A m \in FreeOffsets : n <= m
    BY <1>a, <2>1, LeastNumber
  <2> QED
    BY <2>2 DEF Min
<1>c. /\ active' = [active EXCEPT ![IdOf(o)] = o] /\ directories' = directories \union {IdOf(o)}
      /\ sandboxes' = [sandboxes EXCEPT ![o] = NewSandbox(offset)]
      /\ operations' = [operations EXCEPT ![o].pc = "start", ![o].sandbox = o,
                                          ![o].owns = TRUE, ![o].armed = TRUE]
      /\ UNCHANGED <<retired, slots, reservedBytes, closed>>
  BY <1>b DEF Reserve, results
<1>d. /\ offset \in 0..(IdentityBlocks - 1)
      /\ \A id \in SandboxIds : active[id] # Nobody => sandboxes[active[id]].identityOffset # offset
  BY <1>b DEF FreeOffsets, UsedOffsets
<1>e. /\ ~Created(o) /\ ~sandboxes[o].published /\ ~sandboxes[o].exited /\ ~sandboxes[o].done
      /\ ~sandboxes[o].terminating /\ sandboxes[o].execution = Nobody /\ o # Nobody
  BY <1>0, <1>a, NobodyAssumption DEF Created, Shape, Condition, Mutex
<1>1. operations'[o] = [operations[o] EXCEPT !.pc = "start", !.sandbox = o, !.owns = TRUE,
                                             !.armed = TRUE]
  BY <1>0, <1>c
<1>2. operations'[o] \in Operation
  BY <1>0, <1>1, ZenonT(30) DEF Operation, Pointers
<1>3. /\ operations' \in [Operations -> Operation]
      /\ \A q \in Operations : q # o => operations'[q] = operations[q]
  BY <1>0, <1>2, <1>c
<1>4. /\ operations'[o].pc = "start" /\ operations'[o].sandbox = o /\ operations'[o].owns
      /\ operations'[o].code = operations[o].code
      /\ SameRequest(o) /\ SameResult(o)
  BY <1>0, <1>1 DEF Operation, SameRequest, SameResult
<1>5. Moves(o)
  BY <1>0, <1>3, <1>4, <1>a DEF Moves, Answering, Shape, SameRequest, SameResult
<1>6. NewSandbox(offset) \in Sandbox
  BY <1>d DEF NewSandbox, Sandbox, Pointers
<1>7. /\ sandboxes' \in [Operations -> Sandbox] /\ sandboxes'[o] = NewSandbox(offset)
      /\ \A c \in Operations : c # o => sandboxes'[c] = sandboxes[c]
  BY <1>0, <1>6, <1>c
<1>8. /\ sandboxes'[o].identityOffset = offset /\ ~sandboxes'[o].cancelled
      /\ sandboxes'[o].process = "none" /\ ~sandboxes'[o].published
      /\ ~sandboxes'[o].terminating /\ ~sandboxes'[o].exited /\ ~sandboxes'[o].done
      /\ ~sandboxes'[o].cleanupErr /\ sandboxes'[o].execution = Nobody
      /\ sandboxes'[o].extractedBytes = 0
  BY <1>7 DEF NewSandbox
<1>9. Created(o)' /\ IdOf(o)' = IdOf(o)
  BY <1>4, <1>a DEF Created, IdOf, SameRequest
<1>10. Shape(o)'
  BY <1>0, <1>4, <1>a, <1>e DEF Shape, Slotted, Holding, SameRequest, SameResult
<1>11. Aim(o)' /\ Destroyed(o)' /\ ReadOK(o)' /\ OwnSlot(o)' /\ ~Culprit(o)
  BY <1>0, <1>4, <1>9, <1>a
     DEF Aim, Destroyed, ReadOK, OwnSlot, Culprit, Shape, Slotted, IdOf, SameRequest
<1>12. Condition(o)'
  BY <1>8, <1>9, BudgetAssumption DEF Condition
<1>13. /\ operations[o].pc \notin Holding \union Slotted /\ operations'[o].pc \notin Holding
       /\ operations'[o].pc # "closed" /\ closed' \in BOOLEAN /\ (closed => closed')
  BY <1>0, <1>4, <1>a, <1>c DEF Holding, Slotted
<1>14. (\A q \in Operations : Held(q) /\ Mutex(q))'
  <2>1. \A c \in Operations :
          /\ sandboxes'[c].execution = sandboxes[c].execution
          /\ sandboxes'[c].done => sandboxes[c].done
          /\ sandboxes[c].published => sandboxes'[c].published
    BY <1>7, <1>8, <1>e
  <2> QED
    BY <1>5, <1>13, <2>1, MutexFrame
<1>15. ASSUME NEW q \in Operations PROVE OwnSlot(q)'
  <2>1. CASE q = o
    BY <1>11, <2>1
  <2>2. CASE q # o
    <3> SUFFICES ASSUME operations[q].pc \in Slotted PROVE OwnSlot(q)'
      BY <1>3, <2>2 DEF OwnSlot
    <3>1. /\ OwnSlot(q) /\ operations'[q] = operations[q] /\ Shape(q) /\ Aim(q)
          /\ operations[q].sandbox \in Pointers
      BY <1>0, <1>3, <2>2 DEF SupervisorInv, Operation
    <3>2. operations[q].sandbox \in Operations /\ operations[q].sandbox # o
      BY <1>e, <3>1 DEF Shape, Slotted, Holding, Aim, Pointers
    <3> QED
      BY <1>7, <1>c, <3>1, <3>2 DEF OwnSlot, Allowed, allowance, RefOf
  <2> QED
    BY <2>1, <2>2
<1>16. (\A ref \in References : SlotOK(ref))' /\ Accounts'
  BY <1>5, <1>13, <1>c, ResultsFrame
<1>17. /\ active' \in [SandboxIds -> Pointers] /\ active'[IdOf(o)] = o
       /\ \A id \in SandboxIds : id # IdOf(o) => active'[id] = active[id]
       /\ retired' \subseteq SandboxIds /\ directories' \subseteq SandboxIds
  BY <1>0, <1>a, <1>c DEF SupervisorInv, Types, Pointers
<1>18. ASSUME NEW c \in Operations PROVE Registration(c)'
  <2>1. CASE c = o
    BY <1>8, <1>9, <1>17, <2>1 DEF Registration
  <2>2. CASE c # o
    <3>1. /\ (Created(c)' <=> Created(c)) /\ IdOf(c)' = IdOf(c) /\ sandboxes'[c] = sandboxes[c]
          /\ Created(c) => IdOf(c) \in SandboxIds
          /\ sandboxes[c].published => Created(c)
      BY <1>0, <1>3, <1>7, <2>2 DEF Created, IdOf, Shape, Condition
    <3>2. Created(c) => (active'[IdOf(c)] = c <=> active[IdOf(c)] = c)
      BY <1>17, <1>a, <2>2, <3>1, NobodyAssumption
    <3> QED
      BY <1>0, <1>c, <3>1, <3>2 DEF Registration
  <2> QED
    BY <2>1, <2>2
<1>19. RegistryOK'
  <2>1. \A id \in SandboxIds : active[id] # Nobody =>
          /\ active[id] \in Operations /\ Created(active[id]) /\ IdOf(active[id]) = id
          /\ active[id] # o
    BY <1>0, <1>e DEF RegistryOK, Pointers
  <2>2. \A id \in SandboxIds : active[id] # Nobody =>
          /\ operations'[active[id]] = operations[active[id]]
          /\ sandboxes'[active[id]] = sandboxes[active[id]]
    BY <1>3, <1>7, <2>1
  <2>3. ASSUME NEW id \in SandboxIds, active'[id] # Nobody
        PROVE  operations'[active'[id]].kind = "create" /\ operations'[active'[id]].owns
               /\ operations'[active'[id]].id = id
    <3>1. CASE id = IdOf(o)
      BY <1>9, <1>17, <3>1 DEF Created, IdOf
    <3>2. CASE id # IdOf(o)
      BY <1>17, <2>1, <2>2, <2>3, <3>2 DEF Created, IdOf
    <3> QED
      BY <3>1, <3>2
  <2>4. ASSUME NEW i \in SandboxIds, NEW j \in SandboxIds, active'[i] # Nobody,
               active'[j] # Nobody, i # j
        PROVE  sandboxes'[active'[i]].identityOffset # sandboxes'[active'[j]].identityOffset
    <3>1. CASE i = IdOf(o)
      BY <1>8, <1>17, <1>d, <2>2, <2>4, <3>1
    <3>2. CASE j = IdOf(o)
      BY <1>8, <1>17, <1>d, <2>2, <2>4, <3>2
    <3>3. CASE i # IdOf(o) /\ j # IdOf(o)
      BY <1>0, <1>17, <2>2, <2>4, <3>3 DEF RegistryOK
    <3> QED
      BY <3>1, <3>2, <3>3
  <2>5. \A id \in retired' : active'[id] = Nobody
    BY <1>0, <1>17, <1>a, <1>c DEF RegistryOK
  <2> QED
    BY <2>3, <2>4, <2>5 DEF RegistryOK, Created, IdOf
<1>20. OncePublished'
  <2>1. \A c \in Operations : sandboxes'[c].published =>
          c # o /\ sandboxes[c].published /\ IdOf(c)' = IdOf(c)
    BY <1>3, <1>7, <1>8 DEF IdOf
  <2> QED
    BY <1>0, <2>1 DEF OncePublished
<1>21. /\ slots' \in [References -> Slot]
       /\ \A ref \in References : slots'[ref].by \in {slots[ref].by, Nobody}
  BY <1>0, <1>c
<1>s. Steady(o)
  BY <1>0, <1>4, <1>5, <1>7, <1>8, <1>a, <1>c, <1>e
     DEF Steady, Slotted, results, SameRequest, SameResult
<1> QED
  BY <1>s, <1>5, <1>7, <1>8, <1>10, <1>11, <1>12, <1>13, <1>14, <1>15, <1>16, <1>17, <1>18,
     <1>19, <1>20,
     <1>21, <1>e, GeneralStep

-----------------------------------------------------------------------------
(* Before the first connection nothing is registered or reserved.          *)
LEMMA SupervisorInit == Init => SupervisorInv
<1> SUFFICES ASSUME Init PROVE SupervisorInv
  OBVIOUS
<1> DEFINE idle == [pc |-> "idle", kind |-> "none", id |-> Nobody,
                    execution |-> Nobody, paths |-> 0, sandbox |-> Nobody,
                    owns |-> FALSE, armed |-> FALSE, cancelled |-> FALSE, ran |-> FALSE,
                    snapshot |-> Nobody, extracted |-> 0, code |-> "none", delivered |-> FALSE]
<1>1. idle \in Operation
  BY DEF Operation, Pointers
<1>2. /\ operations = [o \in Operations |-> idle]
      /\ sandboxes = [o \in Operations |-> NewSandbox(0)]
      /\ active = [id \in SandboxIds |-> Nobody] /\ retired = {} /\ directories \subseteq SandboxIds
      /\ slots = [ref \in References |-> NoSlot] /\ reservedBytes = 0 /\ closed = FALSE
  BY DEF Init
<1>3. NewSandbox(0) \in Sandbox /\ NoSlot \in Slot
  BY BudgetAssumption DEF NewSandbox, NoSlot, Sandbox, Slot, Pointers
<1>4. \A o \in Operations :
        /\ operations[o].pc = "idle" /\ operations[o].kind = "none"
        /\ operations[o].sandbox = Nobody /\ ~operations[o].owns /\ ~operations[o].armed
        /\ ~operations[o].ran /\ operations[o].snapshot = Nobody
        /\ operations[o].extracted = 0 /\ operations[o].code = "none"
  BY <1>2
<1>5. \A b \in Operations :
        /\ sandboxes[b].process = "none" /\ ~sandboxes[b].cancelled /\ ~sandboxes[b].published
        /\ ~sandboxes[b].terminating /\ ~sandboxes[b].exited /\ ~sandboxes[b].done
        /\ sandboxes[b].execution = Nobody /\ sandboxes[b].extractedBytes = 0
  BY <1>2 DEF NewSandbox
<1>6. Types
  BY <1>1, <1>2, <1>3 DEF Types, Pointers
<1> HIDE DEF idle
<1>7. \A o \in Operations :
        Shape(o) /\ Aim(o) /\ Held(o) /\ OwnSlot(o) /\ Destroyed(o) /\ ReadOK(o)
  BY <1>4 DEF Shape, Aim, Held, OwnSlot, Destroyed, ReadOK, Holding, Slotted
<1>8. \A b \in Operations : Condition(b) /\ Mutex(b) /\ Registration(b) /\ ~Created(b)
  BY <1>4, <1>5, BudgetAssumption DEF Condition, Mutex, Registration, Created
<1>9. RegistryOK /\ OncePublished /\ DeliveryDecides
  BY <1>2, <1>4, <1>5 DEF RegistryOK, OncePublished, DeliveryDecides
<1>10. \A ref \in References : SlotOK(ref)
  BY <1>2 DEF SlotOK, NoSlot
<1>11. Accounts
  <2>1. Retained = {}
    BY <1>2 DEF Retained
  <2>2. BytesOf(Retained) = Total(slots, Retained)
    BY BytesOfIsTotal
  <2>3. BytesOf(Retained) = 0
    BY <2>1, <2>2, TotalOfNone
  <2> QED
    BY <1>2, <2>1, <2>3, FS_EmptySet, BudgetAssumption DEF Accounts
<1> QED
  BY <1>6, <1>7, <1>8, <1>9, <1>10, <1>11 DEF SupervisorInv

(* One step per action of a client, a handler, a process or a waiter.      *)
LEMMA SupervisorNext == SupervisorInv /\ [Next]_vars => SupervisorInv'
<1> SUFFICES ASSUME SupervisorInv, [Next]_vars PROVE SupervisorInv'
  OBVIOUS
<1>1. ASSUME NEW o \in Operations, Client(o) PROVE SupervisorInv'
  <2>1. ASSUME NEW kind \in Kinds, NEW id \in SandboxIds,
               NEW x \in IF kind \in {"execute", "read"} THEN ExecutionIds ELSE {Nobody},
               NEW n \in IF kind = "execute" THEN PathCounts ELSE {0},
               Accept(o, kind, id, x, n)
        PROVE  SupervisorInv'
    <3>1. /\ x \in ExecutionIds \union {Nobody} /\ n \in Nat
          /\ kind \in {"execute", "read"} => x \in ExecutionIds
      BY SetAssumption
    <3> QED
      BY <2>1, <3>1, AcceptStep
  <2> QED
    BY <1>1, <2>1, DropStep, AbandonStep DEF Client
<1>2. ASSUME NEW o \in Operations, Handle(o) PROVE SupervisorInv'
  <2>1. CASE Reject(o) \/ ReserveRefused(o) \/ ExecuteRefused(o)
    <3>1. /\ operations[o].pc = "request" /\ operations' = Answered(o, "error")
          /\ UNCHANGED <<sandboxes, registry, results, closed>>
      BY <2>1 DEF Reject, ReserveRefused, ExecuteRefused, At
    <3> QED
      BY <3>1, RefusalStep
  <2>2. CASE Inspect(o)
    <3>1. PICK code \in {"ok", "error"} : code = Outcome(Inspectable(active[IdOf(o)]))
      BY DEF Outcome
    <3>2. /\ operations[o].pc = "request" /\ operations[o].kind = "inspect"
          /\ operations' = Answered(o, code)
          /\ UNCHANGED <<sandboxes, registry, results, closed>>
      BY <2>2, <3>1 DEF Inspect, At
    <3> QED
      BY <3>2, RefusalStep
  <2>3. CASE Reserve(o) \/ StartInit(o) \/ CreateFails(o) \/ Transfer(o)
    BY <2>3, ReserveStep, StartInitStep, CreateFailsStep, TransferStep
  <2>4. CASE AcquireExecution(o) \/ ReserveResult(o) \/ ResultRefused(o) \/ Finish(o)
    BY <2>4, AcquireExecutionStep, ReserveResultStep, ResultRefusedStep, FinishStep
  <2>5. CASE BeginExecution(o) \/ AwaitExit(o) \/ Linger(o)
    BY <2>5, BeginRunsStep, BeginFailsStep, AwaitStep, LingerStep
  <2>6. ASSUME NEW bytes \in 0..ExecutionBytes, RunComplete(o, bytes) PROVE SupervisorInv'
    BY <2>6, RunCompleteStep
  <2>7. CASE DestroyAbsent(o) \/ DestroyPresent(o) \/ GetExecutionResult(o)
    BY <2>7, DestroyAbsentStep, DestroyPresentStep, GetExecutionResultStep
  <2>8. ASSUME NEW outcome \in BOOLEAN,
               Unwind(o, outcome) \/ RunIncomplete(o, outcome) \/ DestroyDrained(o, outcome)
        PROVE  SupervisorInv'
    <3>1. DestroyDrained(o, outcome) => operations[o].sandbox \in Operations
      BY DEF SupervisorInv, Types, Operation, Pointers, Shape, DestroyDrained
    <3> QED
      BY <2>8, <3>1, UnwindStep, RunIncompleteStep, DestroyFailedStep, DestroyDoneStep
  <2>9. ASSUME NEW sent \in BOOLEAN, Respond(o, sent) PROVE SupervisorInv'
    BY <2>9, RespondStep, RespondLostStep
  <2> QED
    BY <1>2, <2>1, <2>2, <2>3, <2>4, <2>5, <2>6, <2>7, <2>8, <2>9 DEF Handle
<1>3. ASSUME NEW b \in Operations, InitExits(b) \/ KillInit(b) \/ Wait(b) PROVE SupervisorInv'
  BY <1>3, ProcessStep, ReapedStep, TeardownStep DEF Wait
<1>4. CASE Shutdown \/ UNCHANGED vars
  <2>1. /\ UNCHANGED <<operations, sandboxes, registry, results>>
        /\ closed' \in BOOLEAN /\ (closed => closed')
    BY <1>4 DEF Shutdown, vars, registry, results, SupervisorInv, Types
  <2> QED
    BY <2>1, ShutdownStep
<1> QED
  BY <1>1, <1>2, <1>3, <1>4, CancelOwnedStep DEF Next

(* The inductive invariant: in every reachable state the registry, the     *)
(* mutexes, the result slots and the places of the handlers fit together   *)
(* (creation_linux.go, execution_linux.go, lifecycle_linux.go).            *)
THEOREM SupervisorInvariant == Spec => []SupervisorInv
<1>1. Init => SupervisorInv
  BY SupervisorInit
<1>2. SupervisorInv /\ [Next]_vars => SupervisorInv'
  BY SupervisorNext
<1> QED
  BY <1>1, <1>2, PTL DEF Spec

(* The maps keep their types and the result store its accounts: the        *)
(* reservation counter is the sum of the slots, within its bound, and      *)
(* extraction stays within the budget of the Sandbox, for any budget and   *)
(* any number of connections (results_linux.go).                           *)
THEOREM SupervisorTypeOK == Spec => []TypesAndReservations
<1>1. SupervisorInv => TypesAndReservations
  BY DEF SupervisorInv, Types, Accounts, Condition, TypesAndReservations
<1> QED
  BY <1>1, SupervisorInvariant, PTL

(* Inits that live together have different ids and identity ranges, and    *)
(* are registered (creation_linux.go, reserve and release).                *)
THEOREM SupervisorIdentitiesDisjoint == Spec => []IdentitiesDisjoint
<1>1. SupervisorInv => IdentitiesDisjoint
  <2> SUFFICES ASSUME SupervisorInv PROVE IdentitiesDisjoint
    OBVIOUS
  <2>1. ASSUME NEW b \in Live
        PROVE  b \in Operations /\ active[IdOf(b)] = b /\ IdOf(b) \in SandboxIds /\ b # Nobody
    <3>1. /\ b \in Operations /\ Condition(b) /\ Registration(b) /\ Shape(b)
          /\ sandboxes[b].process = "alive"
      BY DEF Live, SupervisorInv
    <3>2. Created(b) /\ ~sandboxes[b].done
      BY <3>1 DEF Condition
    <3> QED
      BY <3>1, <3>2, NobodyAssumption DEF Registration, Shape, Created, IdOf
  <2>2. RegistryOK
    BY DEF SupervisorInv
  <2>3. ASSUME NEW b \in Live, NEW c \in Live, b # c
        PROVE  sandboxes[b].identityOffset # sandboxes[c].identityOffset
    <3>1. /\ active[IdOf(b)] = b /\ IdOf(b) \in SandboxIds /\ b # Nobody
          /\ active[IdOf(c)] = c /\ IdOf(c) \in SandboxIds /\ c # Nobody
      BY <2>1
    <3> QED
      BY <2>2, <2>3, <3>1 DEF RegistryOK
  <2> QED
    BY <2>1, <2>2, <2>3 DEF RegistryOK, IdentitiesDisjoint
<1> QED
  BY <1>1, SupervisorInvariant, PTL

(* A destroy that answered success has left nothing of its Sandbox: no     *)
(* Init, no Execution, no registration and no result (lifecycle_linux.go,  *)
(* destroy).                                                               *)
THEOREM SupervisorDestroyIsComplete == Spec => []DestroyIsComplete
<1>1. SupervisorInv => DestroyIsComplete
  <2> SUFFICES ASSUME SupervisorInv, NEW o \in Operations, operations[o].kind = "destroy",
                      operations[o].code = "ok", operations[o].sandbox # Nobody
               PROVE  /\ sandboxes[operations[o].sandbox].process # "alive"
                      /\ sandboxes[operations[o].sandbox].execution = Nobody
                      /\ active[IdOf(o)] # operations[o].sandbox
                      /\ \A ref \in Retained : operations[slots[ref].by].sandbox # operations[o].sandbox
    BY DEF DestroyIsComplete, Target
  <2>1. PICK b \in Operations : b = operations[o].sandbox
    BY DEF SupervisorInv, Types, Operation, Pointers
  <2>2. /\ Destroyed(o) /\ Aim(o) /\ Condition(b) /\ Mutex(b) /\ Registration(b)
        /\ \A ref \in References : SlotOK(ref)
    BY DEF SupervisorInv
  <2>3. /\ sandboxes[b].done /\ ~sandboxes[b].cleanupErr /\ Created(b) /\ IdOf(b) = IdOf(o)
    BY <2>1, <2>2 DEF Destroyed, Aim, IdOf
  <2>4. /\ sandboxes[b].process # "alive" /\ sandboxes[b].execution = Nobody /\ active[IdOf(o)] # b
    BY <2>2, <2>3 DEF Condition, Mutex, Registration
  <2>5. ASSUME NEW ref \in Retained PROVE operations[slots[ref].by].sandbox # operations[o].sandbox
    <3>1. ref \in References /\ slots[ref] # NoSlot
      BY DEF Retained
    <3>2. slots[ref].by # Nobody
      BY <2>2, <3>1 DEF SlotOK
    <3> QED
      BY <2>2, <3>1, <3>2 DEF Destroyed
  <2> QED
    BY <2>1, <2>4, <2>5
<1> QED
  BY <1>1, SupervisorInvariant, PTL

(* The delivery of its answer decides whether a Sandbox lives on, and no   *)
(* undelivered Sandbox outlives its handler (lifecycle_linux.go, own,      *)
(* complete).                                                              *)
THEOREM SupervisorDeliveryDecides == Spec => []DeliveryDecides
<1>1. SupervisorInv => DeliveryDecides
  BY DEF SupervisorInv
<1> QED
  BY <1>1, SupervisorInvariant, PTL

-----------------------------------------------------------------------------
(* What holds beyond the invariant when no id is created twice.            *)
LEMMA FreshStep ==
    ASSUME SupervisorInv, FreshInv, NEW o \in Operations, Moves(o), Kept(o)',
           \A c \in Operations : sandboxes[c].exited => sandboxes'[c].exited,
           operations'[o].kind = "create" =>
               \/ operations[o].kind = "create"
               \/ \A q \in Operations : operations[q].kind = "create" => IdOf(q) # IdOf(o)',
           \A q \in Operations : q # o /\ operations[q].kind = "execute" /\ slots[RefOf(q)].by = q =>
               \/ slots'[RefOf(q)].by = q
               \/ operations[q].pc \notin Slotted /\ sandboxes'[operations[q].sandbox].exited,
           operations'[o].ran =>
               operations[o].ran \/ \A q \in Operations : operations[q].ran => RefOf(q) # RefOf(o)'
    PROVE  FreshInv'
<1>0. \A q \in Operations : Kept(q) /\ Shape(q) /\ operations[q].sandbox \in Pointers
  BY DEF FreshInv, SupervisorInv, Types, Operation
<1>1. \A q \in Operations : q # o =>
        operations'[q] = operations[q] /\ IdOf(q)' = IdOf(q) /\ RefOf(q)' = RefOf(q)
  BY DEF Moves, IdOf, RefOf
<1>2. /\ operations[o].kind # "none" => IdOf(o)' = IdOf(o) /\ RefOf(o)' = RefOf(o)
      /\ operations[o].ran => operations[o].kind # "none"
  BY <1>0, Settled DEF Shape
<1>3. ASSUME NEW q \in Operations PROVE Kept(q)'
  <2>1. CASE q = o
    BY <2>1
  <2>2. CASE q # o
    <3>1. operations'[q] = operations[q] /\ RefOf(q)' = RefOf(q)
      BY <1>1, <2>2
    <3>2. operations[q].pc \in Slotted => slots'[RefOf(q)].by = q
      BY <1>0, <2>2 DEF Kept, Shape, Slotted, Holding
    <3>3. ASSUME operations[q].ran
          PROVE  \/ operations[q].pc \in {"run", "await"}
                 \/ sandboxes'[operations[q].sandbox].exited
                 \/ operations[q].code = "ok" /\ slots'[RefOf(q)].by = q
      <4>1. operations[q].kind = "execute" /\ operations[q].sandbox \in Operations
        BY <1>0, <3>3 DEF Shape, Pointers
      <4> QED
        BY <1>0, <2>2, <3>3, <4>1 DEF Kept
    <3> QED
      BY <3>1, <3>2, <3>3 DEF Kept, RefOf
  <2> QED
    BY <2>1, <2>2
<1>4. ASSUME NEW p \in Operations, NEW q \in Operations, operations'[p].kind = "create",
             operations'[q].kind = "create", IdOf(p)' = IdOf(q)'
      PROVE  p = q
  <2>1. \A x, y \in Operations : operations[x].kind = "create" /\ operations[y].kind = "create"
                                  /\ IdOf(x) = IdOf(y) => x = y
    BY DEF FreshInv
  <2> QED
    BY <1>1, <1>2, <1>4, <2>1
<1>5. ASSUME NEW p \in Operations, NEW q \in Operations, operations'[p].ran,
             operations'[q].ran, RefOf(p)' = RefOf(q)'
      PROVE  p = q
  <2>1. \A x, y \in Operations : operations[x].ran /\ operations[y].ran
                                  /\ RefOf(x) = RefOf(y) => x = y
    BY DEF FreshInv
  <2> QED
    BY <1>1, <1>2, <1>5, <2>1
<1> QED
  BY <1>3, <1>4, <1>5 DEF FreshInv

(* A steady step starts no workload and gives no slot up.                  *)
LEMMA SteadyFresh ==
    ASSUME SupervisorInv, FreshInv, NEW o \in Operations, Steady(o)
    PROVE  FreshInv'
<1>0. Kept(o) /\ Shape(o) /\ operations[o].sandbox \in Pointers
  BY DEF FreshInv, SupervisorInv, Types, Operation
<1>1. Moves(o)
  BY DEF Steady
<1>2. Kept(o)'
  <2>1. operations'[o].pc \in Slotted => slots'[RefOf(o)'].by = o
    BY <1>0, <1>1, Settled DEF Kept, Steady, Shape, Slotted, Holding
  <2>2. ASSUME operations'[o].ran
        PROVE  \/ operations'[o].pc \in {"run", "await"}
               \/ sandboxes'[operations'[o].sandbox].exited
               \/ operations'[o].code = "ok" /\ slots'[RefOf(o)'].by = o
    <3>1. /\ operations[o].ran /\ operations[o].kind # "none" /\ operations[o].sandbox \in Operations
          /\ operations'[o].sandbox = operations[o].sandbox /\ RefOf(o)' = RefOf(o)
      BY <1>0, <1>1, <2>2, Settled, NobodyAssumption DEF Steady, Shape, Pointers
    <3>2. CASE operations[o].pc \in {"run", "await"}
      BY <3>1, <3>2 DEF Steady
    <3>3. CASE sandboxes[operations[o].sandbox].exited
      BY <3>1, <3>3 DEF Steady
    <3>4. CASE operations[o].code = "ok" /\ slots[RefOf(o)].by = o
      BY <1>1, <3>1, <3>4 DEF Steady, Moves
    <3> QED
      BY <1>0, <3>1, <3>2, <3>3, <3>4 DEF Kept
  <2> QED
    BY <2>1, <2>2 DEF Kept
<1> QED
  BY <1>1, <1>2, FreshStep DEF Steady

(* A create is accepted only with an id no create has used.                *)
LEMMA AcceptFresh ==
    ASSUME SupervisorInv, FreshInv, ~RetryIds, NEW o \in Operations, Moves(o),
           NEW kind, NEW id, NEW x, NEW n, Accept(o, kind, id, x, n)
    PROVE  FreshInv'
<1>0. /\ operations \in [Operations -> Operation] /\ operations[o] \in Operation /\ Shape(o)
  BY DEF SupervisorInv, Types
<1>1. operations'[o] = [operations[o] EXCEPT !.pc = "request", !.kind = kind, !.id = id,
                                             !.execution = x, !.paths = n]
  BY <1>0 DEF Accept
<1>2. /\ operations'[o].pc = "request" /\ operations'[o].kind = kind /\ IdOf(o)' = id
      /\ ~operations'[o].ran
  BY <1>0, <1>1 DEF Accept, Operation, Shape, IdOf
<1>3. Kept(o)'
  BY <1>2 DEF Kept, Slotted
<1>4. /\ UNCHANGED <<sandboxes, slots>>
      /\ kind = "create" => \A q \in Operations : operations[q].kind = "create" => IdOf(q) # id
  BY DEF Accept, results, Used
<1> QED
  BY <1>2, <1>3, <1>4, FreshStep

(* The first run of an Execution id in the only Sandbox of its id.         *)
LEMMA BeginFresh ==
    ASSUME SupervisorInv, FreshInv, NEW o \in Operations, Moves(o), BeginExecution(o),
           ~sandboxes[Target(o)].exited
    PROVE  FreshInv'
<1>0. /\ operations \in [Operations -> Operation] /\ operations[o] \in Operation
      /\ \A q \in Operations : Shape(q) /\ Aim(q) /\ Kept(q) /\ operations[q].sandbox \in Pointers
  BY DEF SupervisorInv, Types, FreshInv, Operation
<1>1. /\ operations[o].pc = "begin" /\ UNCHANGED <<sandboxes, slots>>
      /\ operations' = [operations EXCEPT ![o].pc = "run", ![o].ran = TRUE]
      /\ ~sandboxes[operations[o].sandbox].exited
  BY DEF BeginExecution, results, Target
<1>2. /\ operations'[o].pc = "run" /\ RefOf(o)' = RefOf(o) /\ operations'[o].kind = operations[o].kind
  BY <1>0, <1>1 DEF Operation, RefOf
<1>3. /\ slots[RefOf(o)].by = o /\ operations[o].pc \in Holding /\ ~operations[o].ran
      /\ operations[o].sandbox # Nobody
  BY <1>0, <1>1 DEF Kept, Slotted, Holding, Shape
<1>4. Kept(o)'
  BY <1>1, <1>2, <1>3 DEF Kept, RefOf
<1>5. ASSUME NEW q \in Operations, operations[q].ran, RefOf(q) = RefOf(o) PROVE FALSE
  <2>1. IdOf(q) = IdOf(o) /\ q # o /\ operations[q].sandbox # Nobody
    BY <1>0, <1>3, <1>5 DEF RefOf, IdOf, Shape
  <2>2. operations[q].pc \notin {"run", "await"}
    BY <1>3, <2>1, OneExecution DEF Holding
  <2>3. operations[q].sandbox = operations[o].sandbox
    <3>1. /\ operations[q].sandbox \in Operations /\ operations[o].sandbox \in Operations
          /\ Created(operations[q].sandbox) /\ Created(operations[o].sandbox)
          /\ IdOf(operations[q].sandbox) = IdOf(operations[o].sandbox)
      BY <1>0, <1>3, <2>1 DEF Aim, Pointers, IdOf
    <3> QED
      BY <3>1 DEF FreshInv, Created
  <2> QED
    BY <1>0, <1>1, <1>3, <1>5, <2>1, <2>2, <2>3 DEF Kept
<1> QED
  BY <1>1, <1>2, <1>4, <1>5, FreshStep

(* A slot is reserved where there was none, so no result is lost.          *)
LEMMA ReserveResultFresh ==
    ASSUME SupervisorInv, FreshInv, NEW o \in Operations, Moves(o), ReserveResult(o)
    PROVE  FreshInv'
<1>0. /\ operations \in [Operations -> Operation] /\ operations[o] \in Operation
      /\ slots \in [References -> Slot] /\ \A q \in Operations : Shape(q)
  BY DEF SupervisorInv, Types
<1>1. /\ operations[o].pc = "reserve" /\ sandboxes' = sandboxes /\ slots[RefOf(o)] = NoSlot
      /\ operations' = [operations EXCEPT ![o].pc = "begin", ![o].owns = TRUE, ![o].armed = TRUE]
  BY DEF ReserveResult
<1>2. /\ operations'[o].pc = "begin" /\ RefOf(o)' = RefOf(o) /\ operations'[o].kind = operations[o].kind
      /\ ~operations'[o].ran /\ RefOf(o) \in References
  BY <1>0, <1>1 DEF Operation, RefOf, Shape, Holding, References
<1>3. /\ slots'[RefOf(o)].by = o
      /\ \A r \in References : r # RefOf(o) => slots'[r] = slots[r]
  BY <1>0, <1>2 DEF ReserveResult
<1>4. Kept(o)'
  BY <1>2, <1>3 DEF Kept, RefOf
<1>5. ASSUME NEW q \in Operations, operations[q].kind = "execute", slots[RefOf(q)].by = q
      PROVE  slots'[RefOf(q)].by = q
  <2>1. RefOf(q) \in References /\ RefOf(q) # RefOf(o)
    BY <1>0, <1>1, <1>5, NobodyAssumption DEF Shape, RefOf, References, NoSlot
  <2> QED
    BY <1>3, <1>5, <2>1
<1> QED
  BY <1>1, <1>2, <1>4, <1>5, FreshStep

(* A run that ends leaves the workload with a result to publish.           *)
LEMMA RunCompleteFresh ==
    ASSUME SupervisorInv, FreshInv, NEW o \in Operations, Moves(o), NEW bytes \in Nat, RunComplete(o, bytes)
    PROVE  FreshInv'
<1>0. /\ operations \in [Operations -> Operation] /\ operations[o] \in Operation /\ Shape(o)
      /\ sandboxes \in [Operations -> Sandbox] /\ Kept(o)
  BY DEF SupervisorInv, Types, FreshInv
<1>1. /\ operations[o].pc = "run" /\ slots' = slots
      /\ sandboxes' = [sandboxes EXCEPT ![Target(o)].extractedBytes = @ + bytes]
      /\ operations' = [operations EXCEPT ![o].pc = "finish", ![o].snapshot = o,
                                          ![o].extracted = bytes, ![o].code = "ok"]
  BY DEF RunComplete, results
<1>2. /\ operations'[o].pc = "finish" /\ RefOf(o)' = RefOf(o) /\ operations'[o].kind = operations[o].kind
      /\ operations'[o].code = "ok" /\ operations'[o].ran = operations[o].ran
  BY <1>0, <1>1 DEF Operation, RefOf
<1>3. Kept(o)'
  BY <1>0, <1>1, <1>2 DEF Kept, RefOf, Slotted
<1>4. \A c \in Operations : sandboxes[c].exited => sandboxes'[c].exited
  BY <1>0, <1>1 DEF Sandbox
<1> QED
  BY <1>1, <1>2, <1>3, <1>4, FreshStep

(* A result is published in the slot of its own Execution.                 *)
LEMMA FinishFresh ==
    ASSUME SupervisorInv, FreshInv, NEW o \in Operations, Moves(o), Finish(o)
    PROVE  FreshInv'
<1>0. /\ operations \in [Operations -> Operation] /\ operations[o] \in Operation
      /\ sandboxes \in [Operations -> Sandbox] /\ slots \in [References -> Slot]
      /\ Kept(o) /\ \A q \in Operations : Shape(q)
  BY DEF SupervisorInv, Types, FreshInv
<1>q. PICK ref \in References : ref = RefOf(o)
  BY <1>0 DEF Finish, Shape, Holding, RefOf, References
<1>1. /\ operations[o].pc = "finish" /\ finish(ref, operations[o].snapshot, operations[o].extracted)
      /\ sandboxes' = [sandboxes EXCEPT ![Target(o)].execution = Nobody]
      /\ operations' = [operations EXCEPT ![o].pc = "respond"]
  BY <1>q DEF Finish
<1>2. /\ operations'[o].pc = "respond" /\ RefOf(o)' = RefOf(o) /\ operations'[o].kind = operations[o].kind
      /\ operations'[o].code = operations[o].code /\ operations'[o].ran = operations[o].ran
      /\ operations'[o].sandbox = operations[o].sandbox
  BY <1>0, <1>1 DEF Operation, RefOf
<1>3. \A c \in Operations : sandboxes[c].exited => sandboxes'[c].exited
  BY <1>0, <1>1 DEF Sandbox
<1>4. slots[ref].by = o /\ slots[ref] # NoSlot
  BY <1>0, <1>1, <1>q, NobodyAssumption DEF Kept, Slotted, NoSlot
<1>5. operations[o].code = "ok" => slots'[ref].by = o
  <2> SUFFICES ASSUME operations[o].code = "ok" PROVE slots'[ref].by = o
    OBVIOUS
  <2>1. operations[o].snapshot # Nobody
    BY <1>0, <1>1, NobodyAssumption DEF Shape
  <2>2. slots'[ref] = FinishedSlot(slots[ref], operations[o].extracted)
    BY <1>0, <1>1, <1>4, <2>1 DEF finish
  <2>3. slots[ref] \in Slot
    BY <1>0
  <2> QED
    BY <1>4, <2>2, <2>3 DEF FinishedSlot, Slot
<1>6. Kept(o)'
  <2>1. ASSUME operations[o].ran PROVE sandboxes'[operations[o].sandbox].exited \/ operations[o].code = "ok"
    <3>1. operations[o].sandbox \in Operations
      BY <1>0, <2>1 DEF Shape, Operation, Pointers
    <3> QED
      BY <1>0, <1>1, <1>3, <2>1, <3>1 DEF Kept
  <2> QED
    BY <1>2, <1>5, <1>q, <2>1 DEF Kept, Slotted, RefOf
<1>7. \A r \in References : r # ref => slots'[r] = slots[r]
  BY <1>1, <1>q, FinishStore
<1>8. ASSUME NEW q \in Operations, q # o, operations[q].kind = "execute", slots[RefOf(q)].by = q
      PROVE  slots'[RefOf(q)].by = q
  BY <1>0, <1>4, <1>7, <1>8 DEF Shape, RefOf, References
<1> QED
  BY <1>2, <1>3, <1>6, <1>8, FreshStep

(* A destroy removes the results of Sandboxes that are gone.               *)
LEMMA RemovalFresh ==
    ASSUME SupervisorInv, SupervisorInv', FreshInv, NEW o \in Operations, Moves(o),
           operations[o].kind = "destroy", removeSandbox(IdOf(o)),
           \A c \in Operations : Created(c) /\ IdOf(c) = IdOf(o) => sandboxes[c].done,
           \A c \in Operations : sandboxes[c].exited => sandboxes'[c].exited
    PROVE  FreshInv'
<1>1. Kept(o)' /\ operations'[o].kind = "destroy" /\ ~operations'[o].ran
  <2>1. Shape(o)' /\ operations'[o].kind = "destroy"
    BY DEF SupervisorInv, Moves
  <2> QED
    BY <2>1 DEF Shape, Kept, Slotted, Holding
<1>2. ASSUME NEW q \in Operations, operations[q].kind = "execute", slots[RefOf(q)].by = q
      PROVE  \/ slots'[RefOf(q)].by = q
             \/ operations[q].pc \notin Slotted /\ sandboxes'[operations[q].sandbox].exited
  <2>0. /\ Shape(q) /\ Aim(q) /\ Held(q) /\ operations[q].sandbox \in Pointers
        /\ \A c \in Operations : Mutex(c) /\ Condition(c)
        /\ \A ref \in References : SlotOK(ref)
    BY DEF SupervisorInv, Types, Operation
  <2>1. RefOf(q) \in References /\ RefOf(q)[1] = IdOf(q)
    BY <1>2, <2>0 DEF Shape, RefOf, References, IdOf
  <2>2. CASE IdOf(q) # IdOf(o)
    BY <1>2, <2>1, <2>2, RemoveStore
  <2>3. CASE IdOf(q) = IdOf(o)
    <3>1. operations[q].owns /\ operations[q].sandbox # Nobody
      BY <1>2, <2>0, <2>1, NobodyAssumption DEF SlotOK, Shape
    <3>2. PICK b \in Operations : b = operations[q].sandbox
      BY <2>0, <3>1 DEF Pointers
    <3>3. sandboxes[b].done
      BY <2>0, <2>3, <3>1, <3>2 DEF Aim, IdOf
    <3>4. sandboxes[b].exited /\ sandboxes[b].execution = Nobody
      BY <2>0, <3>3 DEF Condition, Mutex
    <3>5. operations[q].pc \notin Slotted
      BY <2>0, <3>2, <3>4, NobodyAssumption DEF Held, Slotted, Holding
    <3> QED
      BY <3>2, <3>4, <3>5
  <2> QED
    BY <2>2, <2>3
<1> QED
  BY <1>1, <1>2, FreshStep

(* A destroy of an id that is not registered: all its Sandboxes are gone.  *)
LEMMA DestroyAbsentFresh ==
    ASSUME SupervisorInv, FreshInv, NEW o \in Operations, DestroyAbsent(o)
    PROVE  FreshInv'
<1>1. SupervisorInv' /\ Moves(o)
  BY DestroyAbsentStep
<1>2. /\ operations[o].kind = "destroy" /\ active[IdOf(o)] = Nobody /\ removeSandbox(IdOf(o))
      /\ sandboxes' = sandboxes
  BY DEF DestroyAbsent, At
<1>3. ASSUME NEW c \in Operations, Created(c), IdOf(c) = IdOf(o) PROVE sandboxes[c].done
  <2>1. Registration(c)
    BY DEF SupervisorInv
  <2> QED
    BY <1>2, <1>3, <2>1, NobodyAssumption DEF Registration
<1> QED
  BY <1>1, <1>2, <1>3, RemovalFresh

(* A destroy that waited: its Sandbox was the only one of its id.          *)
LEMMA DestroyDoneFresh ==
    ASSUME SupervisorInv, FreshInv, NEW o \in Operations, NEW clean \in BOOLEAN,
           DestroyDrained(o, clean), NEW b \in Operations, b = operations[o].sandbox,
           sandboxes[b].cleanupErr => active[IdOf(o)] = b /\ clean
    PROVE  FreshInv'
<1>0. Shape(o) /\ Aim(o) /\ sandboxes \in [Operations -> Sandbox]
  BY DEF SupervisorInv, Types
<1>1. SupervisorInv' /\ Moves(o)
  BY DestroyDoneStep
<1>2. PICK err \in BOOLEAN : err = (sandboxes[b].cleanupErr
                                     /\ ~((active[IdOf(o)] = b /\ sandboxes[b].cleanupErr) /\ clean))
  OBVIOUS
<1>3. /\ operations[o].pc = "drain" /\ sandboxes[b].done /\ removeSandbox(IdOf(o))
      /\ sandboxes' = [sandboxes EXCEPT ![b].cleanupErr = err]
  BY <1>2 DEF DestroyDrained, Target
<1>4. operations[o].kind = "destroy" /\ Created(b) /\ IdOf(b) = IdOf(o)
  BY <1>0, <1>3, NobodyAssumption DEF Shape, Aim, IdOf
<1>5. \A c \in Operations : Created(c) /\ IdOf(c) = IdOf(o) => c = b
  BY <1>4 DEF FreshInv, Created
<1>6. \A c \in Operations : sandboxes[c].exited => sandboxes'[c].exited
  BY <1>0, <1>3 DEF Sandbox
<1> QED
  BY <1>1, <1>3, <1>4, <1>5, <1>6, RemovalFresh

(* Before the first connection nothing was created and nothing ran.        *)
LEMMA FreshInit == Init => FreshInv
<1> SUFFICES ASSUME Init PROVE FreshInv
  OBVIOUS
<1>1. \A o \in Operations :
        operations[o].pc = "idle" /\ operations[o].kind = "none" /\ ~operations[o].ran
  BY DEF Init
<1> QED
  BY <1>1 DEF FreshInv, Kept, Slotted

(* One step per action, when no id is created twice.                       *)
LEMMA FreshNext ==
    ASSUME ~RetryIds, SupervisorInv, FreshInv, [Next]_vars
    PROVE  FreshInv'
<1>1. ASSUME NEW o \in Operations, Client(o) PROVE FreshInv'
  <2>1. ASSUME NEW kind \in Kinds, NEW id \in SandboxIds,
               NEW x \in IF kind \in {"execute", "read"} THEN ExecutionIds ELSE {Nobody},
               NEW n \in IF kind = "execute" THEN PathCounts ELSE {0},
               Accept(o, kind, id, x, n)
        PROVE  FreshInv'
    <3>1. /\ x \in ExecutionIds \union {Nobody} /\ n \in Nat
          /\ kind \in {"execute", "read"} => x \in ExecutionIds
      BY SetAssumption
    <3>2. Moves(o)
      BY <2>1, <3>1, AcceptStep
    <3> QED
      BY <2>1, <3>2, AcceptFresh
  <2> QED
    BY <1>1, <2>1, DropStep, AbandonStep, SteadyFresh DEF Client
<1>2. ASSUME NEW o \in Operations, Handle(o) PROVE FreshInv'
  <2>1. CASE Reject(o) \/ ReserveRefused(o) \/ ExecuteRefused(o)
    <3>1. /\ operations[o].pc = "request" /\ operations' = Answered(o, "error")
          /\ UNCHANGED <<sandboxes, registry, results, closed>>
      BY <2>1 DEF Reject, ReserveRefused, ExecuteRefused, At
    <3> QED
      BY <3>1, RefusalStep, SteadyFresh
  <2>2. CASE Inspect(o)
    <3>1. PICK code \in {"ok", "error"} : code = Outcome(Inspectable(active[IdOf(o)]))
      BY DEF Outcome
    <3>2. /\ operations[o].pc = "request" /\ operations[o].kind = "inspect"
          /\ operations' = Answered(o, code)
          /\ UNCHANGED <<sandboxes, registry, results, closed>>
      BY <2>2, <3>1 DEF Inspect, At
    <3> QED
      BY <3>2, RefusalStep, SteadyFresh
  <2>3. CASE Reserve(o) \/ StartInit(o) \/ CreateFails(o) \/ Transfer(o)
    BY <2>3, ReserveStep, StartInitStep, CreateFailsStep, TransferStep, SteadyFresh
  <2>4. CASE AcquireExecution(o) \/ ResultRefused(o) \/ AwaitExit(o) \/ Linger(o)
    BY <2>4, AcquireExecutionStep, ResultRefusedStep, AwaitStep, LingerStep, SteadyFresh
  <2>5. CASE BeginExecution(o)
    BY <2>5, BeginRunsStep, BeginFailsStep, BeginFresh, SteadyFresh
  <2>6. CASE ReserveResult(o) \/ Finish(o)
    BY <2>6, ReserveResultStep, FinishStep, ReserveResultFresh, FinishFresh
  <2>7. ASSUME NEW bytes \in 0..ExecutionBytes, RunComplete(o, bytes) PROVE FreshInv'
    BY <2>7, RunCompleteStep, RunCompleteFresh
  <2>8. CASE DestroyAbsent(o) \/ DestroyPresent(o) \/ GetExecutionResult(o)
    BY <2>8, DestroyAbsentFresh, DestroyPresentStep, GetExecutionResultStep, SteadyFresh
  <2>9. ASSUME NEW outcome \in BOOLEAN, Unwind(o, outcome) \/ RunIncomplete(o, outcome)
        PROVE  FreshInv'
    BY <2>9, UnwindStep, RunIncompleteStep, SteadyFresh
  <2>10. ASSUME NEW outcome \in BOOLEAN, DestroyDrained(o, outcome) PROVE FreshInv'
    <3>1. PICK b \in Operations : b = operations[o].sandbox
      BY <2>10 DEF SupervisorInv, Types, Operation, Pointers, Shape, DestroyDrained
    <3> QED
      BY <2>10, <3>1, DestroyFailedStep, DestroyDoneFresh, SteadyFresh
  <2>11. ASSUME NEW sent \in BOOLEAN, Respond(o, sent) PROVE FreshInv'
    BY <2>11, RespondStep, RespondLostStep, SteadyFresh
  <2> QED
    BY <1>2, <2>1, <2>2, <2>3, <2>4, <2>5, <2>6, <2>7, <2>8, <2>9, <2>10, <2>11 DEF Handle
<1>3. ASSUME NEW b \in Operations, InitExits(b) \/ KillInit(b) \/ Wait(b) PROVE FreshInv'
  BY <1>3, ProcessStep, ReapedStep, TeardownStep, SteadyFresh DEF Wait
<1>4. CASE Shutdown \/ UNCHANGED vars
  <2>1. UNCHANGED <<operations, sandboxes, slots>>
    BY <1>4 DEF Shutdown, vars, registry, results
  <2> QED
    BY <2>1 DEF FreshInv, Kept, IdOf, RefOf
<1> QED
  BY <1>1, <1>2, <1>3, <1>4, CancelOwnedStep, SteadyFresh DEF Next

(* With fresh ids, the slot of an Execution that ran goes only with the    *)
(* Sandbox it ran in, so an Execution id runs once per Sandbox id.         *)
THEOREM SupervisorFresh == ASSUME ~RetryIds PROVE Spec => [](SupervisorInv /\ FreshInv)
<1>1. Init => SupervisorInv /\ FreshInv
  BY SupervisorInit, FreshInit
<1>2. (SupervisorInv /\ FreshInv) /\ [Next]_vars => (SupervisorInv /\ FreshInv)'
  BY SupervisorNext, FreshNext
<1> QED
  BY <1>1, <1>2, PTL DEF Spec

(* When no client creates an id twice, an Execution id is run at most once *)
(* per Sandbox id and everybody who is told its result is told the same    *)
(* (results_linux.go, reserve, finish, get).                               *)
THEOREM SupervisorOneResult == ASSUME ~RetryIds PROVE Spec => []OneResult
<1>1. SupervisorInv /\ FreshInv => OneResult
  <2> SUFFICES ASSUME SupervisorInv, FreshInv PROVE OneResult
    OBVIOUS
  <2>1. \A o, p \in Operations :
          operations[o].ran /\ operations[p].ran /\ RefOf(o) = RefOf(p) => o = p
    BY DEF FreshInv
  <2>2. \A o \in Operations : Shape(o) /\ ReadOK(o)
    BY DEF SupervisorInv
  <2>3. ASSUME NEW o \in Operations, operations[o].kind = "read", operations[o].code = "ok",
               NEW p \in Operations, RefOf(p) = RefOf(o), operations[p].code = "ok",
               operations[p].kind \in {"execute", "read"}
        PROVE  operations[p].snapshot = operations[o].snapshot
    <3>1. PICK q \in Operations : /\ q = operations[o].snapshot /\ RefOf(q) = RefOf(o)
                                  /\ operations[q].kind = "execute" /\ operations[q].code = "ok"
      BY <2>2, <2>3 DEF ReadOK
    <3>2. PICK r \in Operations : /\ r = operations[p].snapshot /\ RefOf(r) = RefOf(p)
                                  /\ operations[r].kind = "execute" /\ operations[r].code = "ok"
      BY <2>2, <2>3 DEF ReadOK, Shape
    <3>3. operations[q].ran /\ operations[r].ran
      BY <2>2, <3>1, <3>2 DEF Shape
    <3> QED
      BY <2>1, <2>3, <3>1, <3>2, <3>3
  <2>4. \A o \in Operations : operations[o].kind = "read" /\ operations[o].code = "ok" =>
          /\ operations[operations[o].snapshot].code = "ok"
          /\ operations[operations[o].snapshot].pc \in Answering
    BY <2>2 DEF ReadOK
  <2> QED
    BY <2>1, <2>3, <2>4 DEF OneResult, Answering
<1> QED
  BY <1>1, SupervisorFresh, PTL

(* When no client creates an id twice, the result of an Execution that     *)
(* succeeded is kept for as long as its Sandbox lives (results_linux.go,   *)
(* removeSandbox, and lifecycle_linux.go, destroy).                        *)
THEOREM SupervisorResultsSurvive == ASSUME ~RetryIds PROVE Spec => []ResultsSurvive
<1>1. SupervisorInv /\ FreshInv => ResultsSurvive
  <2> SUFFICES ASSUME SupervisorInv, FreshInv, NEW o \in Operations,
                      operations[o].kind = "execute", operations[o].code = "ok",
                      operations[o].pc \in Answering, operations[o].sandbox \in Live
               PROVE  slots[RefOf(o)].by = o
    BY DEF ResultsSurvive, Target, Answering
  <2>1. /\ Shape(o) /\ Kept(o) /\ operations[o].sandbox \in Operations
        /\ Condition(operations[o].sandbox) /\ sandboxes[operations[o].sandbox].process = "alive"
    BY DEF SupervisorInv, FreshInv, Live
  <2>2. operations[o].ran /\ ~sandboxes[operations[o].sandbox].exited
    BY <2>1 DEF Shape, Condition
  <2> QED
    BY <2>1, <2>2 DEF Kept, Answering
<1> QED
  BY <1>1, SupervisorFresh, PTL
==============================================================================
