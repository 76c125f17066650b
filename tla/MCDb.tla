------------------------------- MODULE MCDb --------------------------------
(***************************************************************************)
(* Small instances of the database crate for TLC: the pool, a connection    *)
(* with its server, the migration engine, the statement builders and the    *)
(* conversions of parameters and columns.  A behaviour runs one of them,    *)
(* part, and leaves the others as they began.                               *)
(***************************************************************************)
EXTENDS Pool, Migrate

CONSTANTS c1, c2, Servers, Noise, MaxPgCalls, MaxNoise,
          Idents, Values, Raw, Base, MaxConds, UsizeMax, I4Max, I8Max, Texts, Names

VARIABLES part,
          cfg, sess, to_server, to_client, conn, txn, called, answered, last, desync, noise,
          qb, refused,
          tyParams, tyNames, tyRow, tyGot

Pg    == INSTANCE PgConnection
Build == INSTANCE Query

pgVars      == <<cfg, sess, to_server, to_client, conn, txn, called, answered, last, desync, noise>>
queryVars   == <<qb, refused>>
tyVars      == <<tyParams, tyNames, tyRow, tyGot>>

\* database URLs: a plain one, one with reserved characters in user and password, one without
\* a password, three with a letter of two bytes in the password, encoded, as it is and in the
\* place of a hex digit, and two that are not accepted
Cfg(s, u, p) == [url |-> s, user |-> u, password |-> p]
Plain == Cfg(<<"postgres://", "u", ":", "p", "@", "h", "/", "d">>, <<"u">>, <<"p">>)
Coded == Cfg(<<"postgresql://", "%", "4", "0", "u", ":",
               "%", "4", "0", ":", "%", "2", "5", "4", "0", "%", "4", "0", "@", "h", "/", "d">>,
             <<"@", "u">>, <<"@", ":", "%", "4", "0", "@">>)
Bare  == Cfg(<<"postgres://", "u", "@", "h", "/", "d">>, <<"u">>, <<>>)
Accent  == Cfg(<<"postgres://", "u", ":", "%", "C", "3", "%", "A", "9", "@", "h", "/", "d">>,
               <<"u">>, <<"C3", "A9">>)
Accents == {Accent, Cfg(<<"postgres://", "u", ":", "C3", "A9", "@", "h", "/", "d">>, <<"u">>, <<"C3", "A9">>),
            Cfg(<<"postgres://", "u", ":", "%", "u", "C3", "A9", "@", "h", "/", "d">>, <<"u">>, <<"%", "u", "C3", "A9">>)}
Wrong == {Cfg(<<"postgres://", "h", "/", "d">>, <<>>, <<>>),
          Cfg(<<"mysql://", "u", "@", "h", "/", "d">>, <<"u">>, <<>>)}

\* a configuration, a server's authentication method, the user's password on it, its nonce and
\* whether it sends BackendKeyData
MCServers ==
    {<<Plain, "trust", <<"p">>, "snonce", FALSE>>, <<Plain, "trust", <<"p">>, "snonce", TRUE>>,
     <<Plain, "md5", <<"q">>, "snonce", FALSE>>, <<Plain, "scram", <<"p">>, "snonce", TRUE>>,
     <<Plain, "scram", <<"p">>, "", FALSE>>, <<Plain, "scram", <<"q">>, "snonce", FALSE>>,
     <<Accent, "scram", <<"C3", "83", "C2", "A9">>, "snonce", FALSE>>,
     <<Plain, "scram", <<"lax">>, "snonce", FALSE>>, <<Plain, "other", <<"p">>, "snonce", FALSE>>}
    \cup {<<c, m, c.password, "snonce", FALSE>> :
             c \in {Plain, Coded, Bare} \cup Accents \cup Wrong, m \in {"md5", "scram"}}

\* authenticated sessions do not differ: the calls of one method's are explored in depth
MCCalls == [trust |-> 3, md5 |-> 1, scram |-> 1, other |-> 0]

\* directories with a version used twice, versions out of textual order and a stray file
File(n, d) == [name |-> n, digits |-> d]
MCDirs == {{File("001_a", 1), File("2_b", 2), File("002_c", 2)},
           {File("001_a", 1), File("2_b", 2), File("10_c", 10), File("notes", -1)}}

\* identifiers; values with quotes and placeholders in them, negative ones and one that is not
\* a number; statements with placeholders in quotes, with two digits, out of range, beyond
\* usize and incomplete, after a minus sign, and after a letter of two bytes
MCIdents == {<<"u", ".", "1">>, <<"u", "-">>}
MCValues == {<<"Null", <<>>>>, <<"Bool", TRUE>>, <<"Int4", -1>>, <<"Int8", 42>>,
             <<"Float8", <<"-", "3">>>>, <<"Float8", <<"N", "a", "N">>>>, <<"Text", <<"'", "$", "1">>>>,
             <<"Bytes", <<"6", "1">>>>}
MCRaw == {<<"SELECT", "'", "$", "1", "'", ",", "$", "1">>, <<"SELECT", "$", "1", "0">>,
          <<"SELECT", "$", "1", "0", "0">>, <<"SELECT", "5", "-", "$", "1">>,
          <<"SELECT", "'", "C3", "A9", "'", ",", "$", "1">>, <<"SELECT", "$", "0">>, <<"SELECT", "$", ",", "$", "1", "$">>,
          <<"'", "'", "'", "$", "1", "'", ",", "$", "1">>}

MCTexts == {<<>>, <<" ", "1">>, <<"t">>}

-----------------------------------------------------------------------------

MCInit ==
    /\ part \in {"pool", "connection", "migrate", "query", "types"}
    /\ Init
    /\ IF part = "connection" THEN Pg!PgInit
       ELSE /\ cfg = <<>> /\ sess = <<>> /\ to_server = <<>> /\ to_client = <<>> /\ conn = <<>>
            /\ txn = "none" /\ called = 0 /\ answered = <<>> /\ last = <<>> /\ desync = FALSE /\ noise = 0
    /\ IF part = "migrate" THEN MigrateInit
       ELSE /\ dir = {} /\ tracking = FALSE /\ recorded = {} /\ schema = <<>>
            /\ session = [r \in Runners |-> NoTx] /\ run = [r \in Runners |-> NoRun] /\ runs = 0
    /\ IF part = "query" THEN Build!QInit ELSE qb = <<>> /\ refused = FALSE
    /\ IF part = "types" THEN Build!TyInit
       ELSE tyParams = <<>> /\ tyNames = <<>> /\ tyRow = <<>> /\ tyGot = <<>>

MCNext ==
    \/ part = "pool" /\ Next /\ UNCHANGED <<part, pgVars, migrateVars, queryVars, tyVars>>
    \/ part = "connection" /\ Pg!PgNext /\ UNCHANGED <<part, vars, migrateVars, queryVars, tyVars>>
    \/ part = "migrate" /\ MigrateNext /\ UNCHANGED <<part, vars, pgVars, queryVars, tyVars>>
    \/ part = "query" /\ Build!QNext /\ UNCHANGED <<part, vars, pgVars, migrateVars, tyVars>>
    \/ part = "types" /\ Build!TyNext /\ UNCHANGED <<part, vars, pgVars, migrateVars, queryVars>>

\* with the fairness of Pool's FairSpec in behaviours of the pool
MCSpec ==
    /\ MCInit /\ [][MCNext]_<<part, vars, pgVars, migrateVars, queryVars, tyVars>>
    /\ \A p \in Procs :
          /\ WF_vars(part = "pool" /\ Acquire(p) /\ pc[p] # "off")
          /\ WF_vars(part = "pool" /\ (wait_for_release(p) \/ wait_over(p)))
          /\ WF_vars(part = "pool" /\ register(p))
          /\ WF_vars(part = "pool" /\ deadline(p))
          /\ WF_vars(part = "pool" /\ sleep_over(p))
          /\ WF_vars(part = "pool" /\ release(p))
          /\ WF_vars(part = "pool" /\ p = Monitor /\ acquire(p))
    /\ WF_vars(part = "pool" /\ Sweep)

-----------------------------------------------------------------------------

\* A client that ends authentication has the server's proof (on_sasl_final), and is not refused
\* the password of its URL (parse_url), see PgConnection.
MutualAuth == part = "connection" => Pg!MutualAuth

\* A call returns what the server did for that call (query, execute, prepared statements),
\* see PgConnection.
ResultsExact == part = "connection" => Pg!ResultsExact

\* commit returns a connection only if the server committed (Transaction::commit).
CommitCommits == part = "connection" => Pg!CommitCommits

\* A statement with its parameters written in means what it meant with placeholders
\* (substitute_params), see Query.
InlinedExact == part = "query" => Build!InlinedExact

\* A value sent as a parameter and selected back is the value (Row::get), see Query.
RowReturnsParam == part = "types" => Build!RowReturnsParam
=============================================================================
