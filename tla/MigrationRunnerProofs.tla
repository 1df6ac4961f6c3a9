----------------------- MODULE MigrationRunnerProofs -----------------------
(***************************************************************************)
(* Proofs about MigrationRunner, for any number of runs and any releases.  *)
(*                                                                         *)
(* The argument: one session holds the lock, a transaction is open only    *)
(* under it, and whoever has an open transaction knows the whole schema.   *)
(* So the one commit that can happen next extends the schema by the next   *)
(* file of a source that agrees with everything before it.                 *)
(***************************************************************************)
EXTENDS MigrationRunner, SequenceTheorems, FiniteSetTheorems, WellFoundedInduction, TLAPS

AllFiles == UNION {{listing[n].file : n \in DOMAIN listing} : listing \in Sources}

(* The first k files of run r are the first k of the schema.               *)
Applied(r, k) ==
    /\ k \in Nat /\ k <= Len(schema) /\ k <= Len(source[r])
    /\ \A n \in 1..k : schema[n] = source[r][n].file

Open == {"executing", "executed", "recorded", "committing", "aborted"}

(* Where a client can be, given what its session does.                     *)
RunOK(r) ==
    /\ pc[r] = "start" => session[r] = "none" /\ version[r] = 0
    /\ session[r] # "none" => Loads(source[r])
    /\ session[r] = "waiting" => pc[r] \in {"locking", "failed", "lost", "killed"}
    /\ status[r] => pc[r] \notin {"bootstrapped", "applying", "committing", "succeeded"}
    /\ pc[r] \in {"bootstrapped", "applying", "committing"} => table
    /\ transaction[r] # "none" => Holds(r) /\ ~status[r] /\ table
    /\ transaction[r] \in Open \ {"committing"} => pc[r] \in {"applying", "failed", "lost", "killed"}
    /\ transaction[r] \in {"committing", "committed"} =>
          pc[r] \in {"committing", "failed", "lost", "killed"}
    /\ pc[r] = "committing" /\ Holds(r) => transaction[r] \in {"committing", "committed"}

(* What a client knows of the schema.                                      *)
RunKnows(r) ==
    /\ ~status[r] => Applied(r, version[r])
    /\ pc[r] = "succeeded" => version[r] = Len(source[r])
    /\ transaction[r] = "committed" => Applied(r, version[r] + 1)
    /\ transaction[r] \in Open => version[r] = Len(schema) /\ version[r] < Len(source[r])
    /\ pc[r] \in {"applying", "committing"} /\ Holds(r) =>
          Len(schema) = version[r] + IF transaction[r] = "committed" THEN 1 ELSE 0

(* The parts of the state that have a type of their own.                   *)
Types ==
    /\ pc \in [Runs -> Active \cup {"start", "reported", "succeeded", "failed", "lost", "killed"}]
    /\ source \in [Runs -> Sources]
    /\ status \in [Runs -> BOOLEAN]
    /\ session \in [Runs -> {"none", "waiting", "holding", "ended"}]
    /\ transaction \in [Runs -> Open \cup {"none", "committed"}]
    /\ table \in BOOLEAN
    /\ version \in [Runs -> Nat]
    /\ schema \in Seq(AllFiles)
    /\ history = schema

(* What is applied is the beginning of a release.                          *)
Released ==
    schema # <<>> =>
        \E listing \in Sources :
            /\ \A n \in DOMAIN listing : listing[n].version = n
            /\ Len(schema) <= Len(listing)
            /\ \A n \in 1..Len(schema) : schema[n] = listing[n].file

(* The inductive invariant.                                                *)
RunnerInv ==
    /\ Types
    /\ Released
    /\ schema # <<>> => table
    /\ \A r, s \in Runs : Holds(r) /\ Holds(s) => r = s
    /\ \A r \in Runs : RunOK(r) /\ RunKnows(r)

(* A source is a sequence whose files are among AllFiles.                  *)
LEMMA SourceFacts ==
    ASSUME NEW listing \in Sources
    PROVE  /\ Len(listing) \in Nat
           /\ DOMAIN listing = 1..Len(listing)
           /\ \A n \in 1..Len(listing) : listing[n].file \in AllFiles
<1>1. listing \in Seq(Range(listing))
  BY SourceAssumption
<1>2. Len(listing) \in Nat /\ DOMAIN listing = 1..Len(listing)
  BY <1>1, LenProperties
<1> QED
  BY <1>2 DEF AllFiles

(* Nothing is applied and no session exists at first.                      *)
LEMMA RunnerInit == Init => RunnerInv
<1> SUFFICES ASSUME Init PROVE RunnerInv
  OBVIOUS
<1>1. schema = <<>> /\ schema \in Seq(AllFiles) /\ Len(schema) = 0
  BY DEF Init
<1>2. Types
  BY <1>1 DEF Init, Types, Active, Open
<1>3. ASSUME NEW r \in Runs PROVE RunOK(r) /\ RunKnows(r)
  <2>1. Len(source[r]) \in Nat
    BY SourceFacts DEF Init
  <2> QED
    BY <1>1, <2>1 DEF Init, RunOK, RunKnows, Applied, Open, Holds
<1> QED
  BY <1>1, <1>2, <1>3 DEF RunnerInv, Released, Init, Holds

(* The highest version of a history with rows.                             *)
LEMMA MaxOfHistory ==
    ASSUME NEW s \in Seq(AllFiles), s # <<>>
    PROVE  Max(DOMAIN s) \in Nat
<1>1. DOMAIN s = 1..Len(s) /\ Len(s) \in Nat \ {0}
  BY LenProperties, EmptySeq
<1>2. \E x \in DOMAIN s : \A y \in DOMAIN s : x >= y
  <2>1. Len(s) \in DOMAIN s /\ \A y \in DOMAIN s : Len(s) >= y
    BY <1>1
  <2> QED
    BY <2>1
<1>3. Max(DOMAIN s) \in DOMAIN s
  BY <1>2, Zenon DEF Max
<1> QED
  BY <1>1, <1>3

(* A step of one run that leaves the database alone but may create the     *)
(* table: the other runs know what they knew.                              *)
LEMMA OwnStep ==
    ASSUME RunnerInv, NEW r \in Runs,
           Types', UNCHANGED <<source, status, history, schema>>, table => table',
           \A s \in Runs \ {r} : /\ pc'[s] = pc[s] /\ version'[s] = version[s]
                                 /\ session'[s] = session[s] /\ transaction'[s] = transaction[s],
           Holds(r)' => Holds(r) \/ \A s \in Runs : ~Holds(s),
           RunOK(r)', RunKnows(r)'
    PROVE  RunnerInv'
<1>1. ASSUME NEW s \in Runs \ {r} PROVE RunOK(s)' /\ RunKnows(s)'
  <2>1. RunOK(s) /\ RunKnows(s) /\ s \in Runs
    BY DEF RunnerInv
  <2>2. RunOK(s)'
    BY <2>1 DEF RunOK, Holds, Types
  <2>3. RunKnows(s)'
    BY <2>1 DEF RunKnows, Applied, Holds
  <2> QED
    BY <2>2, <2>3
<1>2. (\A s, t \in Runs : Holds(s) /\ Holds(t) => s = t)'
  BY DEF RunnerInv, Holds
<1>3. Released' /\ (schema' # <<>> => table')
  BY DEF RunnerInv, Released
<1> QED
  BY <1>1, <1>2, <1>3 DEF RunnerInv

(* The client's own steps.                                                 *)
LEMMA ClientStep ==
    ASSUME RunnerInv, NEW r \in Runs,
           \/ Start(r) \/ Status(r) \/ Bootstrap(r) \/ Finish(r) \/ RollBack(r)
           \/ GiveUp(r) \/ LoseConnection(r) \/ Kill(r)
    PROVE  RunnerInv'
<1>0. /\ Types /\ RunOK(r) /\ RunKnows(r) /\ r \in Runs /\ Len(source[r]) \in Nat
      /\ Len(Files(r)) = Len(source[r])
  BY SourceFacts DEF RunnerInv, Types, Files
<1> USE DEF Types, RunOK, RunKnows, Applied, Open, Holds, Active, Goto, server, database
<1>1. CASE Start(r)
  <2>1. /\ UNCHANGED <<source, status, version, transaction, table, history, schema>>
        /\ pc[r] = "start" /\ session[r] = "none" /\ transaction[r] = "none"
    BY <1>0, <1>1 DEF Start
  <2>2. CASE Loads(source[r])
    <3>1. pc' = [pc EXCEPT ![r] = "locking"] /\ session' = [session EXCEPT ![r] = "waiting"]
      BY <1>1, <2>2 DEF Start
    <3> QED
      BY <1>0, <2>1, <2>2, <3>1, OwnStep
  <2>3. CASE ~Loads(source[r])
    <3>1. pc' = [pc EXCEPT ![r] = "failed"] /\ session' = session
      BY <1>1, <2>3 DEF Start
    <3> QED
      BY <1>0, <2>1, <2>3, <3>1, OwnStep
  <2> QED
    BY <2>2, <2>3
<1>2. CASE Status(r)
  <2>1. history # <<>> => Max(DOMAIN history) \in Nat
    BY <1>0, MaxOfHistory
  <2>2. PICK v \in Nat : version' = [version EXCEPT ![r] = v]
    BY <1>2, <2>1 DEF Status, Reported
  <2>3. /\ pc[r] = "locking" /\ Holds(r) /\ status[r] /\ pc' = [pc EXCEPT ![r] = "reported"]
        /\ UNCHANGED <<source, status, session, transaction, table, history, schema>>
    BY <1>2 DEF Status, Reported
  <2>4. Types'
    BY <1>0, <2>2, <2>3
  <2>5. transaction[r] = "none"
    BY <1>0, <2>3
  <2>6. RunOK(r)'
    BY <1>0, <2>2, <2>3, <2>5
  <2>7. RunKnows(r)'
    BY <1>0, <2>2, <2>3, <2>5
  <2> QED
    BY <1>0, <2>2, <2>3, <2>4, <2>6, <2>7, OwnStep
<1>3. CASE Bootstrap(r)
  BY <1>0, <1>3, OwnStep DEF Bootstrap
<1>4. CASE GiveUp(r)
  BY <1>0, <1>4, OwnStep, ZenonT(30) DEF GiveUp
<1>5. CASE Kill(r)
  BY <1>0, <1>5, OwnStep, ZenonT(30) DEF Kill
<1>6. CASE Finish(r)
  <2>1. /\ pc[r] = "applying" /\ transaction[r] = "none" /\ version[r] >= Len(source[r])
        /\ pc' = [pc EXCEPT ![r] = "succeeded"]
        /\ UNCHANGED <<source, status, version, session, transaction, table, history, schema>>
    BY <1>0, <1>6 DEF Finish
  <2>2. ~status[r] /\ version[r] = Len(source[r])
    BY <1>0, <2>1
  <2>3. Types'
    BY <1>0, <2>1
  <2>4. RunOK(r)' /\ RunKnows(r)'
    BY <1>0, <2>1, <2>2
  <2> QED
    BY <1>0, <2>1, <2>3, <2>4, OwnStep
<1>7. CASE RollBack(r)
  BY <1>0, <1>7, OwnStep DEF RollBack
<1>8. CASE LoseConnection(r)
  BY <1>0, <1>8, OwnStep, ZenonT(30) DEF LoseConnection
<1> QED
  BY <1>1, <1>2, <1>3, <1>4, <1>5, <1>6, <1>7, <1>8

(* A set of positions that has, with each, all those before it.            *)
LEMMA InitialSegment ==
    ASSUME NEW n \in Nat, NEW S, S \subseteq 1..n, \A i \in S : \A m \in 1..i : m \in S
    PROVE  \E k \in 0..n : S = 1..k /\ Cardinality(S) = k
<1>1. PICK Rest : Rest = {m \in 1..(n + 1) : m \notin S}
  OBVIOUS
<1>2. Rest \subseteq Nat /\ Rest # {}
  <2>1. n + 1 \in Rest
    BY <1>1
  <2> QED
    BY <1>1, <2>1
<1>3. PICK b \in Rest : \A m \in Rest : ~(<<m, b>> \in OpToRel(<, Nat))
  BY <1>2, NatLessThanWellFounded, WFMin, Zenon
<1>4. \A m \in Rest : b <= m
  <2>1. \A m \in Rest : ~(m < b)
    BY <1>2, <1>3 DEF OpToRel
  <2> QED
    BY <1>2, <2>1
<1>5. b \in 1..(n + 1) /\ b \notin S
  BY <1>1
<1>6. S = 1..(b - 1) /\ b - 1 \in 0..n
  <2>1. \A m \in 1..(b - 1) : m \in S
    BY <1>1, <1>4, <1>5
  <2>2. \A m \in S : m \in 1..(b - 1)
    BY <1>5
  <2>3. S = 1..(b - 1)
    BY <2>1, <2>2, Zenon
  <2> QED
    BY <1>5, <2>3
<1>7. Cardinality(1..(b - 1)) = b - 1
  <2>1. b - 1 \in Int /\ 1 \in Int /\ ~(1 > b - 1 /\ b - 1 # 0)
    BY <1>5
  <2> QED
    BY <2>1, <1>5, FS_Interval
<1> QED
  BY <1>6, <1>7

(* An initial segment determines its end.                                  *)
LEMMA SameSegment ==
    ASSUME NEW a \in Nat, NEW b \in Nat, a <= b, 1..a = 1..b
    PROVE  a = b
<1> SUFFICES ASSUME a < b PROVE FALSE
  OBVIOUS
<1>1. b \in 1..b
  OBVIOUS
<1>2. b \notin 1..a
  OBVIOUS
<1> QED
  BY <1>1, <1>2

(* The rows that ReadHistory confirms.                                     *)
ConfirmedRows(r) == {n \in DOMAIN history : \A m \in 1..n : Matches(r, m)}

(* They are the first ones, and their number is the version.               *)
LEMMA ConfirmedFacts ==
    ASSUME RunnerInv, NEW r \in Runs
    PROVE  /\ Applied(r, Cardinality(ConfirmedRows(r)))
           /\ ConfirmedRows(r) = DOMAIN history => Cardinality(ConfirmedRows(r)) = Len(schema)
<1>1. /\ DOMAIN history = 1..Len(schema) /\ Len(schema) \in Nat /\ history = schema
      /\ Len(source[r]) \in Nat /\ DOMAIN source[r] = 1..Len(source[r])
  BY SourceFacts DEF RunnerInv, Types
<1>2. Len(Files(r)) = Len(source[r]) /\ \A n \in 1..Len(source[r]) : Files(r)[n] = source[r][n].file
  BY <1>1 DEF Files
<1>3. \A n \in ConfirmedRows(r) : n \in Nat /\ n <= Len(source[r]) /\ schema[n] = source[r][n].file
  BY <1>1, <1>2 DEF Matches, ConfirmedRows
<1>4. ConfirmedRows(r) \subseteq 1..Len(schema) /\ \A n \in ConfirmedRows(r) : \A m \in 1..n : m \in ConfirmedRows(r)
  BY <1>1 DEF ConfirmedRows
<1>5. PICK k \in 0..Len(schema) : ConfirmedRows(r) = 1..k /\ Cardinality(ConfirmedRows(r)) = k
  <2>1. Len(schema) \in Nat
    BY <1>1
  <2> QED
    BY <2>1, <1>4, InitialSegment, Zenon
<1>6. k \in Nat /\ k <= Len(schema) /\ \A n \in 1..k : n \in ConfirmedRows(r)
  BY <1>1, <1>5
<1>7. k <= Len(source[r])
  <2>1. CASE k = 0
    BY <1>1, <2>1
  <2>2. CASE k # 0
    BY <1>3, <1>6, <2>2
  <2> QED
    BY <2>1, <2>2
<1>8. Applied(r, k)
  BY <1>3, <1>6, <1>7 DEF Applied
<1>9. ConfirmedRows(r) = DOMAIN history => k = Len(schema)
  <2>1. k \in Nat /\ Len(schema) \in Nat /\ k <= Len(schema)
    BY <1>1, <1>6
  <2>2. ASSUME 1..k = 1..Len(schema) PROVE k = Len(schema)
    BY <2>1, <2>2, SameSegment
  <2> QED
    BY <1>1, <1>5, <2>2, Zenon
<1> QED
  BY <1>5, <1>8, <1>9, Zenon

(* The history is compared under the lock.                                 *)
LEMMA ReadStep ==
    ASSUME RunnerInv, NEW r \in Runs, ReadHistory(r)
    PROVE  RunnerInv'
<1>1. /\ Applied(r, Cardinality(ConfirmedRows(r)))
      /\ ConfirmedRows(r) = DOMAIN history => Cardinality(ConfirmedRows(r)) = Len(schema)
  BY ConfirmedFacts
<1>2. /\ pc[r] = "bootstrapped" /\ Holds(r)
      /\ version' = [version EXCEPT ![r] = Cardinality(ConfirmedRows(r))]
      /\ pc' = [pc EXCEPT ![r] = IF ConfirmedRows(r) = DOMAIN history THEN "applying" ELSE "failed"]
      /\ UNCHANGED <<source, status, session, transaction, table, history, schema>>
  BY DEF ReadHistory, ConfirmedRows, Goto, server, database
<1>3. Cardinality(ConfirmedRows(r)) \in Nat /\ \A s \in Runs : Len(source[s]) \in Nat
  BY <1>1, SourceFacts DEF Applied, RunnerInv, Types
<1>4. transaction[r] = "none"
  BY <1>2 DEF RunnerInv, Types, RunOK, Open
<1> USE DEF Types, RunOK, RunKnows, Applied, Open, Holds, Active
<1>5. Types /\ RunOK(r) /\ RunKnows(r)
  BY DEF RunnerInv
<1>6. Types'
  BY <1>2, <1>3, <1>5
<1>7. RunOK(r)' /\ RunKnows(r)'
  <2>0. /\ ~status[r] /\ session'[r] = "holding" /\ session[r] = "holding"
        /\ version'[r] = Cardinality(ConfirmedRows(r))
    BY <1>2, <1>5
  <2>1. CASE ConfirmedRows(r) = DOMAIN history
    <3>1. pc'[r] = "applying"
      BY <1>2, <1>5, <2>1
    <3>2. version'[r] = Len(schema)
      BY <1>1, <2>0, <2>1
    <3>3. RunOK(r)'
      BY <1>2, <1>4, <1>5, <2>0, <3>1
    <3>4. RunKnows(r)'
      BY <1>1, <1>2, <1>3, <1>4, <1>5, <2>0, <3>1, <3>2
    <3> QED
      BY <3>3, <3>4
  <2>2. CASE ConfirmedRows(r) # DOMAIN history
    <3>1. pc'[r] = "failed"
      BY <1>2, <1>5, <2>2
    <3>2. RunOK(r)'
      BY <1>2, <1>4, <1>5, <2>0, <3>1
    <3>3. RunKnows(r)'
      BY <1>1, <1>2, <1>3, <1>4, <1>5, <2>0, <3>1
    <3> QED
      BY <3>2, <3>3
  <2> QED
    BY <2>1, <2>2
<1> QED
  BY <1>2, <1>5, <1>6, <1>7, OwnStep

(* A transaction and its session, up to the commit.                        *)
LEMMA TransactionStep ==
    ASSUME RunnerInv, NEW r \in Runs,
           \/ ExecuteSQL(r) \/ Record(r) \/ SendCommit(r) \/ Confirm(r)
           \/ GrantLock(r) \/ ServerExecutes(r) \/ CancelQuery(r) \/ SessionEnds(r) \/ ServerDrops(r)
    PROVE  RunnerInv'
<1> USE DEF Types, RunOK, RunKnows, Applied, Open, Holds, Active, Goto, client, database
<1>0. /\ Types /\ RunOK(r) /\ RunKnows(r) /\ r \in Runs /\ Len(source[r]) \in Nat
      /\ Len(Files(r)) = Len(source[r]) /\ Len(schema) \in Nat
  BY SourceFacts DEF RunnerInv, Files
<1>1. CASE ExecuteSQL(r)
  <2>1. /\ pc[r] = "applying" /\ Holds(r) /\ transaction[r] = "none"
        /\ version[r] < Len(source[r]) /\ Len(schema) = version[r]
        /\ transaction' = [transaction EXCEPT ![r] = "executing"]
        /\ UNCHANGED <<pc, source, status, version, session, table, history, schema>>
    BY <1>0, <1>1 DEF ExecuteSQL
  <2>2. Types'
    BY <1>0, <2>1
  <2>3. RunOK(r)'
    BY <1>0, <2>1
  <2>4. RunKnows(r)'
    BY <1>0, <2>1
  <2> QED
    BY <1>0, <2>1, <2>2, <2>3, <2>4, OwnStep
<1>2. CASE Record(r)
  BY <1>0, <1>2, OwnStep DEF Record
<1>3. CASE SendCommit(r)
  BY <1>0, <1>3, OwnStep DEF SendCommit
<1>4. CASE Confirm(r)
  <2>1. /\ pc[r] = "committing" /\ Holds(r) /\ transaction[r] = "committed"
        /\ Len(schema) = version[r] + 1 /\ Applied(r, version[r] + 1)
        /\ version' = [version EXCEPT ![r] = version[r] + 1]
        /\ transaction' = [transaction EXCEPT ![r] = "none"]
        /\ pc' = [pc EXCEPT ![r] = "applying"]
        /\ UNCHANGED <<source, status, session, table, history, schema>>
    BY <1>0, <1>4 DEF Confirm, Confirmed
  <2>2. Types'
    BY <1>0, <2>1
  <2>3. RunOK(r)'
    BY <1>0, <2>1
  <2>4. RunKnows(r)'
    BY <1>0, <2>1
  <2>5. \A s \in Runs \ {r} :
           /\ pc'[s] = pc[s] /\ version'[s] = version[s]
           /\ session'[s] = session[s] /\ transaction'[s] = transaction[s]
    BY <1>0, <2>1
  <2>6. Holds(r)' => Holds(r)
    BY <2>1
  <2>7. UNCHANGED <<source, status, history, schema>> /\ (table => table')
    BY <2>1
  <2> QED
    BY <2>2, <2>3, <2>4, <2>5, <2>6, <2>7, OwnStep
<1>5. CASE GrantLock(r)
  <2>1. /\ session[r] = "waiting" /\ \A s \in Runs : ~Holds(s)
        /\ session' = [session EXCEPT ![r] = "holding"]
        /\ UNCHANGED <<pc, source, status, version, transaction, table, history, schema>>
    BY <1>5 DEF GrantLock
  <2>2. Types'
    BY <1>0, <2>1
  <2>3. RunOK(r)' /\ RunKnows(r)'
    BY <1>0, <2>1
  <2>4. \A s \in Runs \ {r} : session'[s] = session[s]
    BY <1>0, <2>1
  <2> QED
    BY <2>1, <2>2, <2>3, <2>4, OwnStep
<1>6. CASE ServerExecutes(r)
  <2>1. /\ transaction[r] = "executing"
        /\ \/ transaction' = [transaction EXCEPT ![r] = "executed"]
           \/ transaction' = [transaction EXCEPT ![r] = "aborted"]
        /\ UNCHANGED <<pc, source, status, version, session, table, history, schema>>
    BY <1>0, <1>6 DEF ServerExecutes
  <2>2. Types'
    BY <1>0, <2>1
  <2>3. RunOK(r)'
    BY <1>0, <2>1
  <2>4. RunKnows(r)'
    BY <1>0, <2>1
  <2> QED
    BY <1>0, <2>1, <2>2, <2>3, <2>4, OwnStep
<1>7. CASE CancelQuery(r)
  BY <1>0, <1>7, OwnStep DEF CancelQuery
<1>8. CASE SessionEnds(r)
  BY <1>0, <1>8, OwnStep, ZenonT(30) DEF SessionEnds, Ended
<1>9. CASE ServerDrops(r)
  BY <1>0, <1>9, OwnStep, ZenonT(30) DEF ServerDrops, Ended
<1> QED
  BY <1>1, <1>2, <1>3, <1>4, <1>5, <1>6, <1>7, <1>8, <1>9

(* The commit.  Its run holds the lock, so no other transaction is open,   *)
(* and the file it adds follows what the schema already has of the run's   *)
(* own source.                                                             *)
LEMMA CommitStep ==
    ASSUME RunnerInv, NEW r \in Runs, ServerCommits(r)
    PROVE  RunnerInv'
<1> DEFINE f == source[r][Len(schema) + 1].file
<1>1. /\ Types /\ RunOK(r) /\ RunKnows(r) /\ transaction[r] = "committing" /\ table
      /\ Len(schema) \in Nat /\ DOMAIN schema = 1..Len(schema)
      /\ Len(source[r]) \in Nat /\ DOMAIN source[r] = 1..Len(source[r])
  BY SourceFacts, LenProperties DEF RunnerInv, Types, ServerCommits, RunOK
<1>2. /\ version[r] = Len(schema) /\ Len(schema) + 1 \in 1..Len(source[r])
      /\ Holds(r) /\ ~status[r] /\ Applied(r, Len(schema)) /\ Loads(source[r])
  BY <1>1 DEF RunKnows, RunOK, Open, Holds
<1>3. f \in AllFiles /\ Files(r)[Len(schema) + 1] = f
  BY <1>1, <1>2, SourceFacts DEF Files, Types
<1>4. /\ schema' = Append(schema, f)
      /\ history' = [n \in 1..Len(schema) \cup {Len(schema) + 1} |->
                        IF n = Len(schema) + 1 THEN f ELSE schema[n]]
      /\ transaction' = [transaction EXCEPT ![r] = "committed"]
      /\ UNCHANGED <<pc, source, status, version, session, table>>
  BY <1>1, <1>2, <1>3 DEF ServerCommits, NextVersion, client, Types
<1> HIDE DEF f
<1>5. /\ schema' \in Seq(AllFiles) /\ Len(schema') = Len(schema) + 1
      /\ \A n \in 1..Len(schema) : schema'[n] = schema[n]
      /\ schema'[Len(schema) + 1] = f
  BY <1>1, <1>3, <1>4, AppendProperties DEF Types
<1>6. history' = schema'
  <2>1. schema' \in [1..(Len(schema) + 1) -> AllFiles]
    BY <1>5, LenProperties
  <2>2. 1..(Len(schema) + 1) = 1..Len(schema) \cup {Len(schema) + 1}
    BY <1>1
  <2> QED
    BY <1>1, <1>4, <1>5, <2>1, <2>2
<1>7. Types'
  BY <1>1, <1>4, <1>5, <1>6 DEF Types, Open
<1>8. \A n \in 1..(Len(schema) + 1) : schema'[n] = source[r][n].file
  <2>1. \A n \in 1..Len(schema) : schema'[n] = source[r][n].file
    BY <1>2, <1>5 DEF Applied
  <2>2. schema'[Len(schema) + 1] = source[r][Len(schema) + 1].file
    BY <1>5 DEF f
  <2> QED
    BY <1>1, <2>1, <2>2
<1>9. Released'
  <2>1. \A n \in DOMAIN source[r] : source[r][n].version = n
    BY <1>2 DEF Loads
  <2>2. source[r] \in Sources /\ Len(schema') <= Len(source[r])
    BY <1>1, <1>2, <1>5 DEF Types
  <2> QED
    BY <1>5, <1>8, <2>1, <2>2 DEF Released
<1>10. RunOK(r)' /\ RunKnows(r)'
  <2>1. Applied(r, version[r] + 1)' /\ Applied(r, version[r])'
    BY <1>1, <1>2, <1>4, <1>5, <1>8 DEF Applied
  <2>2. pc[r] \in {"committing", "failed", "lost", "killed"} /\ transaction'[r] = "committed"
    BY <1>1, <1>4 DEF RunOK, Types
  <2>3. RunOK(r)'
    BY <1>1, <1>4, <2>2 DEF RunOK, Holds, Open
  <2>4. RunKnows(r)'
    BY <1>1, <1>2, <1>4, <1>5, <2>1, <2>2 DEF RunKnows, Open
  <2> QED
    BY <2>3, <2>4
<1>11. ASSUME NEW s \in Runs, s # r PROVE RunOK(s)' /\ RunKnows(s)'
  <2>1. ~Holds(s) /\ RunOK(s) /\ RunKnows(s)
    BY <1>2, <1>11 DEF RunnerInv
  <2>2. transaction[s] = "none" /\ transaction'[s] = "none"
    BY <1>1, <1>4, <1>11, <2>1 DEF RunOK, Types
  <2>3. RunOK(s)'
    BY <1>4, <2>1, <2>2 DEF RunOK, Holds, Open
  <2>4. ~status[s] => Applied(s, version[s])'
    BY <1>1, <1>4, <1>5, <2>1 DEF RunKnows, Applied
  <2>5. RunKnows(s)'
    BY <1>4, <2>1, <2>2, <2>4 DEF RunKnows, Holds, Open
  <2> QED
    BY <2>3, <2>5
<1>12. (\A s, t \in Runs : Holds(s) /\ Holds(t) => s = t)'
  BY <1>4 DEF RunnerInv, Holds
<1> QED
  BY <1>1, <1>4, <1>7, <1>9, <1>10, <1>11, <1>12 DEF RunnerInv

(* A prefix, by its elements.                                              *)
LEMMA PrefixByElements ==
    ASSUME NEW S, NEW s \in Seq(S), NEW t \in Seq(S),
           Len(s) <= Len(t), \A n \in 1..Len(s) : s[n] = t[n]
    PROVE  IsPrefix(s, t)
<1>1. Len(s) \in Nat /\ \A n \in 1..Len(s) : s[n] \in S /\ t[n] \in S
  BY LenProperties
<1>2. /\ SubSeq(s, 1, Len(s)) \in Seq(S) /\ SubSeq(t, 1, Len(s)) \in Seq(S)
      /\ Len(SubSeq(s, 1, Len(s))) = Len(s) /\ Len(SubSeq(t, 1, Len(s))) = Len(s)
      /\ \A n \in 1..Len(s) : SubSeq(s, 1, Len(s))[n] = s[n] /\ SubSeq(t, 1, Len(s))[n] = t[n]
  BY <1>1, SubSeqProperties
<1>3. SubSeq(s, 1, Len(s)) = SubSeq(t, 1, Len(s))
  BY <1>2, SeqEqual
<1> QED
  BY <1>3 DEF IsPrefix

(* The files of a source, as a sequence.                                   *)
LEMMA FilesOf ==
    ASSUME NEW listing \in Sources
    PROVE  /\ [n \in DOMAIN listing |-> listing[n].file] \in Seq(AllFiles)
           /\ Len([n \in DOMAIN listing |-> listing[n].file]) = Len(listing)
           /\ \A n \in 1..Len(listing) : [m \in DOMAIN listing |-> listing[m].file][n] = listing[n].file
BY SourceFacts

(* Every step preserves the invariant.                                     *)
LEMMA RunnerNext == RunnerInv /\ [Next]_vars => RunnerInv'
<1> SUFFICES ASSUME RunnerInv, [Next]_vars PROVE RunnerInv'
  OBVIOUS
<1>1. CASE UNCHANGED vars
  BY <1>1 DEF vars, RunnerInv, Types, Released, RunOK, RunKnows, Applied, Holds
<1>2. CASE Next
  BY <1>2, ClientStep, ReadStep, TransactionStep, CommitStep DEF Next
<1> QED
  BY <1>1, <1>2

(* The inductive invariant holds throughout.                               *)
THEOREM RunnerInvariant == Spec => []RunnerInv
<1> QED
  BY RunnerInit, RunnerNext, PTL DEF Spec

(* The lock is one session's, a transaction is open only under it, and no  *)
(* run confirms more than its source has.                                  *)
THEOREM RunnerTypeOK == Spec => []TypeOK
<1>1. RunnerInv => TypeOK
  <2> SUFFICES ASSUME RunnerInv PROVE TypeOK
    OBVIOUS
  <2>1. Len(schema) \in Nat /\ DOMAIN schema = 1..Len(schema) /\ history = schema
    BY LenProperties DEF RunnerInv, Types
  <2>2. schema \in Seq(Range(history))
    <3>1. \A n \in 1..Len(schema) : schema[n] \in Range(schema)
      BY <2>1 DEF Range
    <3>2. schema \in [1..Len(schema) -> Range(schema)]
      BY <2>1, <3>1, LenProperties DEF RunnerInv, Types
    <3> QED
      BY <2>1, <3>2
  <2>3. Cardinality({r \in Runs : Holds(r)}) <= 1
    <3>1. CASE {r \in Runs : Holds(r)} = {}
      BY <3>1, FS_EmptySet
    <3>2. CASE \E r \in Runs : Holds(r)
      <4>1. PICK r \in Runs : Holds(r)
        BY <3>2
      <4>2. {s \in Runs : Holds(s)} = {r}
        BY <4>1 DEF RunnerInv
      <4> QED
        BY <4>2, FS_Singleton
    <3> QED
      BY <3>1, <3>2
  <2>4. ASSUME NEW r \in Runs, ~status[r] PROVE version[r] \in 0..Len(source[r])
    BY <2>4, SourceFacts DEF RunnerInv, Types, RunKnows, Applied
  <2> QED
    BY <2>1, <2>2, <2>3, <2>4 DEF TypeOK, RunnerInv, Types, RunOK, Open, Active
<1> QED
  BY <1>1, RunnerInvariant, PTL

(* The rows are the committed files, in order, of one release.             *)
THEOREM RunnerHistoryIsSchema == Spec => []HistoryIsSchema
<1>1. RunnerInv => HistoryIsSchema
  <2> SUFFICES ASSUME RunnerInv PROVE HistoryIsSchema
    OBVIOUS
  <2>1. schema \in Seq(AllFiles) /\ history = schema
    BY DEF RunnerInv, Types
  <2>2. ASSUME schema # <<>>
        PROVE  \E listing \in Sources :
                  /\ \A n \in DOMAIN listing : listing[n].version = n
                  /\ IsPrefix(schema, [n \in DOMAIN listing |-> listing[n].file])
    <3>1. PICK listing \in Sources :
             /\ \A n \in DOMAIN listing : listing[n].version = n
             /\ Len(schema) <= Len(listing)
             /\ \A n \in 1..Len(schema) : schema[n] = listing[n].file
      BY <2>2 DEF RunnerInv, Released
    <3>2. IsPrefix(schema, [n \in DOMAIN listing |-> listing[n].file])
      <4> DEFINE files == [n \in DOMAIN listing |-> listing[n].file]
      <4>1. /\ files \in Seq(AllFiles) /\ Len(files) = Len(listing)
            /\ \A n \in 1..Len(listing) : files[n] = listing[n].file
        BY FilesOf
      <4>2. Len(schema) \in Nat /\ Len(listing) \in Nat
        BY <2>1, SourceFacts
      <4> HIDE DEF files
      <4>3. \A n \in 1..Len(schema) : schema[n] = files[n]
        BY <3>1, <4>1, <4>2
      <4>4. IsPrefix(schema, files)
        BY <2>1, <3>1, <4>1, <4>3, PrefixByElements
      <4> QED
        BY <4>4 DEF files
    <3> QED
      BY <3>1, <3>2
  <2> QED
    BY <2>1, <2>2 DEF HistoryIsSchema, RunnerInv
<1> QED
  BY <1>1, RunnerInvariant, PTL

(* What a run confirmed is in the schema, as its own files; it misses at   *)
(* most the answer to its own commit; and success means everything.        *)
THEOREM RunnerConfirmedIsApplied == Spec => []ConfirmedIsApplied
<1>1. RunnerInv => ConfirmedIsApplied
  <2> SUFFICES ASSUME RunnerInv, NEW r \in Runs
               PROVE  /\ ~status[r] => IsPrefix(SubSeq(Files(r), 1, version[r]), schema)
                      /\ pc[r] = "succeeded" => IsPrefix(Files(r), schema)
                      /\ pc[r] \in {"applying", "committing"} /\ Holds(r) =>
                            Len(schema) = version[r] + IF transaction[r] = "committed" THEN 1 ELSE 0
    BY DEF ConfirmedIsApplied
  <2>1. /\ schema \in Seq(AllFiles) /\ Len(schema) \in Nat /\ version[r] \in Nat
        /\ source[r] \in Sources /\ RunKnows(r) /\ RunOK(r)
    BY DEF RunnerInv, Types
  <2>2. /\ Files(r) \in Seq(AllFiles) /\ Len(Files(r)) = Len(source[r]) /\ Len(source[r]) \in Nat
        /\ \A n \in 1..Len(source[r]) : Files(r)[n] = source[r][n].file /\ Files(r)[n] \in AllFiles
    BY <2>1, FilesOf, SourceFacts DEF Files
  <2>3. ASSUME ~status[r] PROVE IsPrefix(SubSeq(Files(r), 1, version[r]), schema)
    <3>1. Applied(r, version[r])
      BY <2>1, <2>3 DEF RunKnows
    <3>2. \A n \in 1..version[r] : Files(r)[n] \in AllFiles /\ Files(r)[n] = schema[n]
      BY <2>1, <2>2, <3>1 DEF Applied
    <3>3. /\ SubSeq(Files(r), 1, version[r]) \in Seq(AllFiles)
          /\ Len(SubSeq(Files(r), 1, version[r])) = version[r]
          /\ \A n \in 1..version[r] : SubSeq(Files(r), 1, version[r])[n] = Files(r)[n]
      BY <2>1, <3>2, SubSeqProperties
    <3>4. /\ Len(SubSeq(Files(r), 1, version[r])) <= Len(schema)
          /\ \A n \in 1..Len(SubSeq(Files(r), 1, version[r])) :
                SubSeq(Files(r), 1, version[r])[n] = schema[n]
      BY <3>1, <3>2, <3>3 DEF Applied
    <3> QED
      BY <2>1, <3>3, <3>4, PrefixByElements
  <2>4. ASSUME pc[r] = "succeeded" PROVE IsPrefix(Files(r), schema)
    <3>1. Applied(r, Len(source[r]))
      BY <2>1, <2>4 DEF RunKnows, RunOK
    <3>2. Len(Files(r)) <= Len(schema) /\ \A n \in 1..Len(Files(r)) : Files(r)[n] = schema[n]
      BY <2>2, <3>1 DEF Applied
    <3> QED
      BY <2>1, <2>2, <3>2, PrefixByElements
  <2> QED
    BY <2>1, <2>3, <2>4 DEF RunKnows
<1> QED
  BY <1>1, RunnerInvariant, PTL

(* A version is reported under the lock, and then nobody else's commit is  *)
(* on its way.                                                             *)
THEOREM RunnerStatusIsSettled == Spec => StatusIsSettled
<1> DEFINE Settled == \A r \in Runs : pc[r] # "reported" /\ pc'[r] = "reported" =>
                          \A s \in Runs \ {r} : transaction[s] = "none"
<1>1. RunnerInv /\ [Next]_vars => [Settled]_vars
  <2> SUFFICES ASSUME RunnerInv, Next, NEW r \in Runs, pc[r] # "reported", pc'[r] = "reported",
                      NEW s \in Runs \ {r}
               PROVE  transaction[s] = "none"
    OBVIOUS
  <2>1. PICK t \in Runs : Status(t) /\ t = r
    <3>1. PICK t \in Runs :
             \/ Start(t) \/ Status(t) \/ Bootstrap(t) \/ ReadHistory(t)
             \/ ExecuteSQL(t) \/ Record(t) \/ SendCommit(t) \/ Confirm(t) \/ RollBack(t) \/ Finish(t)
             \/ GiveUp(t) \/ LoseConnection(t) \/ Kill(t)
             \/ GrantLock(t) \/ ServerExecutes(t) \/ ServerCommits(t) \/ CancelQuery(t)
             \/ SessionEnds(t) \/ ServerDrops(t)
      BY DEF Next
    <3>2. pc \in [Runs -> Active \cup {"start", "reported", "succeeded", "failed", "lost", "killed"}]
      BY DEF RunnerInv, Types
    <3>3. Status(t)
      BY <3>1, <3>2
         DEF Start, Bootstrap, ReadHistory, ExecuteSQL, Record, SendCommit, Confirm,
             Confirmed, RollBack, Finish, GiveUp, LoseConnection, Kill, GrantLock, ServerExecutes,
             ServerCommits, CancelQuery, SessionEnds, ServerDrops, Ended, Goto, client
    <3> QED
      BY <3>2, <3>3 DEF Status, Reported, Goto
  <2>2. Holds(r) /\ ~Holds(s)
    BY <2>1 DEF RunnerInv, Status
  <2> QED
    BY <2>2 DEF RunnerInv, RunOK
<1> QED
  BY <1>1, RunnerInvariant, PTL DEF Spec, StatusIsSettled
=============================================================================
