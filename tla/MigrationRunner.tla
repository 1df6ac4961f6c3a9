--------------------------- MODULE MigrationRunner ---------------------------
(***************************************************************************)
(* agentctl migrate (internal/migrations): any number of runs, of any      *)
(* releases, against one database.  A run is a client process and, on the  *)
(* server, a session with its advisory lock and at most one transaction.   *)
(* The two part ways: a client gives up at its deadline, loses its         *)
(* connection or is killed, while its session goes on until the server     *)
(* notices.                                                                *)
(*                                                                         *)
(* A file stands for its name and its SHA-256.  A source is a directory    *)
(* listing, a sequence of [version, file, blank] in the order of ReadDir.  *)
(***************************************************************************)
EXTENDS Integers, Sequences, SequencesExt, FiniteSets, FiniteSetsExt

CONSTANTS
    Runs,
    Sources

(* A listing is a sequence of entries.                                     *)
ASSUME SourceAssumption ==
    \A listing \in Sources :
        /\ listing \in Seq(Range(listing))
        /\ \A n \in DOMAIN listing : DOMAIN listing[n] = {"version", "file", "blank"}

VARIABLES
    pc, source, status,
    version,            \* result.Version, the last version the run is sure of
    session,            \* the server's side of each connection
    transaction,        \* and what its open transaction has come to
    table,              \* whether agentctl_schema_migrations exists
    history,            \* its rows, a function from versions to files
    schema              \* the files whose SQL is committed, in that order

client == <<pc, source, status, version>>
server == <<session, transaction>>
database == <<table, history, schema>>
vars == <<pc, source, status, version, session, transaction, table, history, schema>>

Files(r) == [n \in DOMAIN source[r] |-> source[r][n].file]

(* load: file names in order, versions contiguous from 1, nothing empty.   *)
Loads(listing) ==
    /\ listing # <<>>
    /\ \A n \in DOMAIN listing : listing[n].version = n /\ ~listing[n].blank

Init ==
    /\ pc = [r \in Runs |-> "start"]
    /\ source \in [Runs -> Sources]
    /\ status \in [Runs -> BOOLEAN]
    /\ version = [r \in Runs |-> 0]
    /\ session = [r \in Runs |-> "none"]
    /\ transaction = [r \in Runs |-> "none"]
    /\ table = FALSE
    /\ history = <<>>
    /\ schema = <<>>

Goto(r, to) == pc' = [pc EXCEPT ![r] = to]

Holds(r) == session[r] = "holding"

-----------------------------------------------------------------------------
(* The client.  A step needs the answer of a live session.                 *)

StartUnlocked(r) ==
    /\ pc[r] = "start"
    /\ IF Loads(source[r])
       THEN Goto(r, "locking") /\ session' = [session EXCEPT ![r] = "holding"]
       ELSE Goto(r, "failed") /\ UNCHANGED session
    /\ UNCHANGED <<source, status, version, transaction, database>>

(* The source is loaded first; then connect and ask for the lock.          *)
Start(r) ==
    /\ pc[r] = "start"
    /\ IF Loads(source[r])
       THEN Goto(r, "locking") /\ session' = [session EXCEPT ![r] = "waiting"]
       ELSE Goto(r, "failed") /\ UNCHANGED session
    /\ UNCHANGED <<source, status, version, transaction, database>>

Reported(r) ==
    /\ version' = [version EXCEPT ![r] = IF table /\ history # <<>> THEN Max(DOMAIN history) ELSE 0]
    /\ Goto(r, "reported")
    /\ UNCHANGED <<source, status, server, database>>

StatusUnlocked(r) ==
    /\ pc[r] = "locking"
    /\ session[r] \in {"waiting", "holding"}
    /\ status[r]
    /\ Reported(r)

(* --status reads the version under the lock, and changes nothing.         *)
Status(r) ==
    /\ pc[r] = "locking"
    /\ Holds(r)
    /\ status[r]
    /\ Reported(r)

(* CREATE TABLE IF NOT EXISTS is a transaction of its own.                 *)
Bootstrap(r) ==
    /\ pc[r] = "locking"
    /\ Holds(r)
    /\ ~status[r]
    /\ table' = TRUE
    /\ Goto(r, "bootstrapped")
    /\ UNCHANGED <<source, status, version, server, history, schema>>

(* Row n of the history is there, and is the file that this run would have *)
(* applied as version n.                                                   *)
Matches(r, n) ==
    /\ n \in DOMAIN history /\ n <= Len(Files(r))
    /\ history[n] = Files(r)[n]

(* The rows are read in order, up to the first mismatch.                   *)
ReadHistory(r) ==
    /\ pc[r] = "bootstrapped"
    /\ Holds(r)
    /\ LET confirmed == {n \in DOMAIN history : \A m \in 1..n : Matches(r, m)}
       IN  /\ version' = [version EXCEPT ![r] = Cardinality(confirmed)]
           /\ Goto(r, IF confirmed = DOMAIN history THEN "applying" ELSE "failed")
    /\ UNCHANGED <<source, status, server, database>>

NextVersion(r) == version[r] + 1

(* Begin, and the whole file as one query.                                 *)
ExecuteSQL(r) ==
    /\ pc[r] = "applying"
    /\ Holds(r)
    /\ transaction[r] = "none"
    /\ version[r] < Len(Files(r))
    /\ transaction' = [transaction EXCEPT ![r] = "executing"]
    /\ UNCHANGED <<client, session, database>>

RecordOutside(r) ==
    /\ pc[r] = "applying"
    /\ Holds(r)
    /\ transaction[r] = "executed"
    /\ history' = [n \in DOMAIN history \cup {NextVersion(r)} |->
                      IF n = NextVersion(r) THEN Files(r)[n] ELSE history[n]]
    /\ transaction' = [transaction EXCEPT ![r] = "recorded"]
    /\ UNCHANGED <<client, session, table, schema>>

(* The row is inserted in the same transaction; the version is its key.    *)
Record(r) ==
    /\ pc[r] = "applying"
    /\ Holds(r)
    /\ transaction[r] = "executed"
    /\ transaction' = [transaction EXCEPT
                          ![r] = IF NextVersion(r) \in DOMAIN history THEN "aborted" ELSE "recorded"]
    /\ UNCHANGED <<client, session, database>>

SendCommit(r) ==
    /\ pc[r] = "applying"
    /\ Holds(r)
    /\ transaction[r] = "recorded"
    /\ Goto(r, "committing")
    /\ transaction' = [transaction EXCEPT ![r] = "committing"]
    /\ UNCHANGED <<source, status, version, session, database>>

Confirmed(r) ==
    /\ transaction' = [transaction EXCEPT ![r] = "none"]
    /\ Goto(r, "applying")
    /\ UNCHANGED <<source, status, session, database>>

ConfirmUnheard(r) ==
    /\ pc[r] = "committing"
    /\ Holds(r)
    /\ transaction[r] \in {"committing", "committed"}
    /\ version' = [version EXCEPT ![r] = @ + 1]
    /\ Confirmed(r)

(* Only an answered commit advances the version.                           *)
Confirm(r) ==
    /\ pc[r] = "committing"
    /\ Holds(r)
    /\ transaction[r] = "committed"
    /\ version' = [version EXCEPT ![r] = @ + 1]
    /\ Confirmed(r)

(* The SQL failed: roll back and report the last confirmed version.        *)
RollBack(r) ==
    /\ pc[r] = "applying"
    /\ Holds(r)
    /\ transaction[r] = "aborted"
    /\ transaction' = [transaction EXCEPT ![r] = "none"]
    /\ Goto(r, "failed")
    /\ UNCHANGED <<source, status, version, session, database>>

Finish(r) ==
    /\ pc[r] = "applying"
    /\ version[r] >= Len(Files(r))
    /\ transaction[r] = "none"
    /\ Goto(r, "succeeded")
    /\ UNCHANGED <<source, status, version, server, database>>

Active == {"locking", "bootstrapped", "applying", "committing"}

(* The context is done, by the deadline or a cancellation, or the server   *)
(* refuses a statement that is not a file's SQL: see CancelQuery.          *)
GiveUp(r) ==
    /\ pc[r] \in Active
    /\ Goto(r, "failed")
    /\ UNCHANGED <<source, status, version, server, database>>

(* The connection breaks before the context is done: Run returns, and the  *)
(* process exits, without a word to the server.                            *)
LoseConnection(r) ==
    /\ pc[r] \in Active
    /\ Goto(r, "lost")
    /\ UNCHANGED <<source, status, version, server, database>>

Kill(r) ==
    /\ pc[r] \in Active
    /\ Goto(r, "killed")
    /\ UNCHANGED <<source, status, version, server, database>>

-----------------------------------------------------------------------------
(* The server.                                                             *)

(* A session waits for the lock whether or not its client still does.      *)
GrantLock(r) ==
    /\ session[r] = "waiting"
    /\ ~\E s \in Runs : Holds(s)
    /\ session' = [session EXCEPT ![r] = "holding"]
    /\ UNCHANGED <<client, transaction, database>>

ServerExecutes(r) ==
    /\ transaction[r] = "executing"
    /\ \E outcome \in {"executed", "aborted"} :
          transaction' = [transaction EXCEPT ![r] = outcome]
    /\ UNCHANGED <<client, session, database>>

(* A commit that was sent is carried out, whoever is still listening.      *)
ServerCommits(r) ==
    /\ transaction[r] = "committing"
    /\ transaction' = [transaction EXCEPT ![r] = "committed"]
    /\ history' = [n \in DOMAIN history \cup {NextVersion(r)} |->
                      IF n = NextVersion(r) THEN Files(r)[n] ELSE history[n]]
    /\ schema' = Append(schema, Files(r)[NextVersion(r)])
    /\ UNCHANGED <<client, session, table>>

ClosedOnly(r) ==
    /\ pc[r] = "failed"
    /\ transaction[r] = "executed"
    /\ transaction' = [transaction EXCEPT ![r] = "aborted"]
    /\ UNCHANGED <<client, session, database>>

(* CancelRequestContextWatcherHandler: when the context is done the query  *)
(* that runs is cancelled on the server.  Only GiveUp fails a run whose    *)
(* query is still running.                                                 *)
CancelQuery(r) ==
    /\ pc[r] = "failed"
    /\ transaction[r] = "executing"
    /\ transaction' = [transaction EXCEPT ![r] = "aborted"]
    /\ UNCHANGED <<client, session, database>>

Ended(r) ==
    /\ session' = [session EXCEPT ![r] = "ended"]
    /\ transaction' = [transaction EXCEPT ![r] = "none"]
    /\ UNCHANGED <<client, database>>

(* The client is gone.  A session notices unless it runs a query; its      *)
(* transaction is rolled back and its lock is free.                        *)
SessionEnds(r) ==
    /\ session[r] \in {"waiting", "holding"}
    /\ pc[r] \notin Active
    /\ transaction[r] # "executing"
    /\ Ended(r)

(* The server restarts or drops a session whose client is still there.     *)
ServerDrops(r) ==
    /\ session[r] \in {"waiting", "holding"}
    /\ pc[r] \in Active
    /\ Ended(r)

Next ==
    \E r \in Runs :
        \/ Start(r) \/ Status(r) \/ Bootstrap(r) \/ ReadHistory(r)
        \/ ExecuteSQL(r) \/ Record(r) \/ SendCommit(r) \/ Confirm(r) \/ RollBack(r) \/ Finish(r)
        \/ GiveUp(r) \/ LoseConnection(r) \/ Kill(r)
        \/ GrantLock(r) \/ ServerExecutes(r) \/ ServerCommits(r) \/ CancelQuery(r)
        \/ SessionEnds(r) \/ ServerDrops(r)

Spec == Init /\ [][Next]_vars

(* The deadline covers the whole run, the cancel request of an ended       *)
(* context arrives, and the server ends an idle session without a client.  *)
(* How long SQL runs, or whether the server answers, is open.              *)
Fairness ==
    \A r \in Runs : WF_vars(GiveUp(r)) /\ WF_vars(CancelQuery(r)) /\ WF_vars(SessionEnds(r))

FairSpec == Spec /\ Fairness

-----------------------------------------------------------------------------
(* Every variable keeps its type, one session holds the lock, a            *)
(* transaction is open only under it, and a run never confirms more than   *)
(* its source has.                                                         *)
TypeOK ==
    /\ pc \in [Runs -> Active \cup {"start", "reported", "succeeded", "failed", "lost",
                             "killed"}]
    /\ source \in [Runs -> Sources]
    /\ status \in [Runs -> BOOLEAN]
    /\ session \in [Runs -> {"none", "waiting", "holding", "ended"}]
    /\ transaction \in [Runs -> {"none", "executing", "executed", "recorded", "committing",
                                 "committed", "aborted"}]
    /\ table \in BOOLEAN
    /\ DOMAIN history \subseteq Nat
    /\ schema \in Seq(Range(history))
    /\ Cardinality({r \in Runs : Holds(r)}) <= 1
    /\ \A r \in Runs : transaction[r] # "none" => Holds(r)
    /\ \A r \in Runs : ~status[r] => version[r] \in 0..Len(source[r])

(* The schema never changes without its row or the row without the schema: *)
(* the rows are exactly the committed files, each once, in the order of    *)
(* their versions (migrate.go, apply: one transaction for both), whatever  *)
(* commits were cut off and repeated.  Releases are never mixed: what is   *)
(* applied is the beginning of one release's files, numbered from 1        *)
(* without a gap, also when runs of different releases take turns (Run:    *)
(* the history mismatch errors; load: "migration versions must be          *)
(* contiguous from 1").                                                    *)
HistoryIsSchema ==
    /\ DOMAIN history = DOMAIN schema
    /\ \A n \in DOMAIN schema : history[n] = schema[n]
    /\ history # <<>> => table
    /\ schema # <<>> =>
          \E listing \in Sources :
              /\ \A n \in DOMAIN listing : listing[n].version = n
              /\ IsPrefix(schema, [n \in DOMAIN listing |-> listing[n].file])

(* What a run confirmed is in the database, as the files of its own        *)
(* source, whatever other runs did since; a run under the lock misses at   *)
(* most the answer to its own commit; and a run that succeeded applied     *)
(* everything (migrate.go, Run, "last confirmed schema version").          *)
ConfirmedIsApplied ==
    \A r \in Runs :
        /\ ~status[r] => IsPrefix(SubSeq(Files(r), 1, version[r]), schema)
        /\ pc[r] = "succeeded" => IsPrefix(Files(r), schema)
        /\ pc[r] \in {"applying", "committing"} /\ Holds(r) =>
              Len(schema) = version[r] + IF transaction[r] = "committed" THEN 1 ELSE 0

(* A version that --status reports is settled: no other session still has  *)
(* a transaction that could commit, not even one whose client is long gone *)
(* (migrate.go, apply: "outcome may be unknown; reconnect and run          *)
(* --status").                                                             *)
StatusIsSettled ==
    [][\A r \in Runs : pc[r] # "reported" /\ pc'[r] = "reported" =>
          \A s \in Runs \ {r} : transaction[s] = "none"]_vars

(* A run's lock is released, even when its SQL would run for ever: the     *)
(* deadline ends the context, and that cancels the query on the server     *)
(* (migrate.go, Run: "merely closing a socket may leave a long query       *)
(* holding the session lock").  Left out is exactly the client that        *)
(* cannot ask: its process was killed or its connection broke while the    *)
(* SQL ran.                                                                *)
LockIsReleased ==
    \A r \in Runs :
        Holds(r) ~> \/ ~Holds(r)
                    \/ pc[r] \in {"lost", "killed"} /\ transaction[r] = "executing"
=============================================================================
