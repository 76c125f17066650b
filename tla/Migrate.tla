------------------------------- MODULE Migrate -------------------------------
(***************************************************************************)
(* MigrationEngine::run, by several application instances that start over    *)
(* the same database, each on a connection of its own that may be lost at    *)
(* any step.  One step is one statement the server executes.  The server is  *)
(* external: a transaction per session, and a primary key on the versions    *)
(* of the tracking table.                                                    *)
(***************************************************************************)
EXTENDS Integers, Sequences, FiniteSets, Functions

CONSTANTS Dirs,      \* directories: sets of files, [name, digits: its leading number, or -1]
          Runners,   \* application instances
          MaxRuns    \* bound: calls of run, all instances together

\* file names are unique in a directory
ASSUME MigrateAssumption ==
    \A d \in Dirs : IsFiniteSet(d) /\ \A f, g \in d : f.digits \in Int /\ (f.name = g.name => f = g)

VARIABLES dir,       \* the directory
          tracking,  \* the tracking table exists
          recorded,  \* versions committed in it
          schema,    \* names of the files whose statements are committed, in order
          session,   \* per runner: its transaction and what it did in it
          run,       \* per runner: where its call is
          runs

migrateVars == <<dir, tracking, recorded, schema, session, run, runs>>

NoTx  == [tx |-> "I", ins |-> {}, eff |-> <<>>]
NoRun == [pc |-> "idle", all |-> <<>>, applied |-> {}, i |-> 1, count |-> 0, skipped |-> 0]

MigrateInit ==
    /\ dir \in Dirs
    /\ tracking = FALSE /\ recorded = {} /\ schema = <<>>
    /\ session = [r \in Runners |-> NoTx]
    /\ run = [r \in Runners |-> NoRun]
    /\ runs = 0

parse_version(f) == f.digits

\* a file whose name has no number is skipped; the sort is by version alone, and
\* files with the same one stay in the order read_dir gave them
load_migrations ==
    LET files == {f \in dir : parse_version(f) >= 0}
    IN  {s \in Bijection(1..Cardinality(files), files) :
            \A i, j \in DOMAIN s : i < j => parse_version(s[i]) <= parse_version(s[j])}

-----------------------------------------------------------------------------
(* The server's side of a statement.                                          *)

\* a statement that fails aborts the transaction it is in
Abort(r) == session' = [session EXCEPT ![r].tx = IF @ = "T" THEN "E" ELSE @]

Insert(r, ver) == session' = [session EXCEPT ![r].ins = @ \cup {ver}]

Conflicts(r, ver) == ver \in recorded \/ ver \in session[r].ins

\* an uncommitted row with the same key makes the statement wait
Blocked(r, ver) == \E q \in Runners \ {r} : ver \in session[q].ins

EndTx(r, keep) ==
    /\ session' = [session EXCEPT ![r] = NoTx]
    /\ IF keep
       THEN recorded' = recorded \cup session[r].ins /\ schema' = schema \o session[r].eff
       ELSE UNCHANGED <<recorded, schema>>

-----------------------------------------------------------------------------
At(r, pc) == run[r].pc = pc
To(r, pc) == run' = [run EXCEPT ![r].pc = pc]
Return(r, result) == run' = [run EXCEPT ![r].pc = result]

start(r) ==
    /\ run[r].pc \in {"idle", "ok", "err"} /\ runs < MaxRuns
    /\ runs' = runs + 1
    /\ run' = [run EXCEPT ![r] = [NoRun EXCEPT !.pc = "create"]]
    /\ UNCHANGED <<tracking, recorded, schema, session>>

\* step 1; in an aborted transaction every statement fails
create(r) ==
    /\ At(r, "create")
    /\ IF session[r].tx = "E" THEN Return(r, "err") /\ UNCHANGED tracking
       ELSE tracking' = TRUE /\ To(r, "load")
    /\ UNCHANGED <<recorded, schema, session, runs>>

\* step 2
load(r) ==
    /\ At(r, "load")
    /\ \E all \in load_migrations : run' = [run EXCEPT ![r].all = all, ![r].pc = "fetch"]
    /\ UNCHANGED <<tracking, recorded, schema, session, runs>>

\* step 3
fetch_applied(r) ==
    /\ At(r, "fetch")
    /\ run' = [run EXCEPT ![r].applied = recorded \cup session[r].ins, ![r].pc = "next"]
    /\ UNCHANGED <<tracking, recorded, schema, session, runs>>

Current(r) == run[r].all[run[r].i]

\* the head of the loop: skip, or BEGIN
next(r) ==
    /\ At(r, "next") /\ run[r].i <= Len(run[r].all)
    /\ IF parse_version(Current(r)) \in run[r].applied
       THEN /\ run' = [run EXCEPT ![r].skipped = @ + 1, ![r].i = @ + 1]
            /\ UNCHANGED session
       ELSE /\ session' = [session EXCEPT ![r] = [NoTx EXCEPT !.tx = "T"]]
            /\ To(r, "sql")
    /\ UNCHANGED <<tracking, recorded, schema, runs>>

report(r) ==
    /\ At(r, "next") /\ run[r].i > Len(run[r].all)
    /\ Return(r, "ok")
    /\ UNCHANGED <<tracking, recorded, schema, session, runs>>

\* the file's statements succeed, or the server refuses one
apply_sql(r) ==
    /\ At(r, "sql")
    /\ \/ /\ session' = [session EXCEPT ![r].eff = Append(@, Current(r).name)]
          /\ To(r, "record")
       \/ Abort(r) /\ To(r, "rollback")
    /\ UNCHANGED <<tracking, recorded, schema, runs>>

\* the INSERT's error goes straight to the caller, without a ROLLBACK
record(r) ==
    /\ At(r, "record")
    /\ LET ver == parse_version(Current(r)) IN
       /\ ~Blocked(r, ver)
       /\ IF Conflicts(r, ver) THEN Abort(r) /\ Return(r, "err")
          ELSE Insert(r, ver) /\ To(r, "commit")
    /\ UNCHANGED <<tracking, recorded, schema, runs>>

commit_tx(r) ==
    /\ At(r, "commit")
    /\ EndTx(r, TRUE)
    /\ run' = [run EXCEPT ![r].count = @ + 1, ![r].i = @ + 1, ![r].pc = "next"]
    /\ UNCHANGED <<tracking, runs>>

rollback_tx(r) ==
    /\ At(r, "rollback")
    /\ EndTx(r, FALSE)
    /\ Return(r, "err")
    /\ UNCHANGED <<tracking, runs>>

\* the connection is lost, before or after the server executed the last statement:
\* the call returns an error, and the next one uses a new connection
lose_connection(r) ==
    /\ run[r].pc # "idle"
    /\ EndTx(r, FALSE)
    /\ Return(r, "err")
    /\ UNCHANGED <<tracking, runs>>

\* variant: the row is inserted before the transaction begins, in one of its own
run_RecordsFirst(r) ==
    \/ start(r) \/ create(r) \/ load(r) \/ fetch_applied(r) \/ report(r)
    \/ /\ At(r, "next") /\ run[r].i <= Len(run[r].all)
       /\ LET ver == parse_version(Current(r)) IN
          IF ver \in run[r].applied
          THEN /\ run' = [run EXCEPT ![r].skipped = @ + 1, ![r].i = @ + 1]
               /\ UNCHANGED <<session, recorded>>
          ELSE IF ver \in recorded THEN Return(r, "err") /\ UNCHANGED <<session, recorded>>
          ELSE /\ recorded' = recorded \cup {ver}
               /\ session' = [session EXCEPT ![r] = [NoTx EXCEPT !.tx = "T"]]
               /\ To(r, "sql")
       /\ UNCHANGED <<tracking, schema, runs>>
    \/ At(r, "record") /\ To(r, "commit") /\ UNCHANGED <<tracking, recorded, schema, session, runs>>
    \/ apply_sql(r) \/ commit_tx(r) \/ rollback_tx(r) \/ lose_connection(r)

engine_run(r) ==
    \/ start(r) \/ create(r) \/ load(r) \/ fetch_applied(r) \/ next(r) \/ report(r)
    \/ apply_sql(r) \/ record(r) \/ commit_tx(r) \/ rollback_tx(r) \/ lose_connection(r)

MigrateNext == (\E r \in Runners : engine_run(r)) /\ UNCHANGED dir

MigrateSpec == MigrateInit /\ [][MigrateNext]_migrateVars

-----------------------------------------------------------------------------
(* Properties.                                                                *)

VersionOf(name) == parse_version(CHOOSE f \in dir : f.name = name)

\* Whatever instances run at once and wherever their connections are lost, the
\* statements of a migration and its row in the tracking table are committed
\* together, no version twice, and in ascending order; and when run reports success,
\* every version on disk is recorded, the numbers of the report add up and the
\* connection is in no transaction (run, MigrationReport).
AppliedOnce ==
    /\ recorded = {VersionOf(schema[i]) : i \in DOMAIN schema}
    /\ \A i, j \in DOMAIN schema : i < j => VersionOf(schema[i]) < VersionOf(schema[j])
    /\ \A r \in Runners : run[r].pc = "ok" =>
          /\ \A i \in DOMAIN run[r].all : parse_version(run[r].all[i]) \in recorded
          /\ run[r].count + run[r].skipped = Len(run[r].all)
          /\ session[r].tx = "I"
=============================================================================
