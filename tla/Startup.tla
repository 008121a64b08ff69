------------------------------- MODULE Startup ------------------------------
(***************************************************************************)
(* What the processes of a deployment do to the database as they start     *)
(* (api/database.py init_db, and what the lifespan of the API adds to it): *)
(* there are no migrations, each start brings tables, columns, indexes and *)
(* rows that are missing.  The API and the scheduler start at the same     *)
(* time and run the same statements, none of which takes a lock: each part *)
(* looks at what there is and then adds, one statement after the other,    *)
(* what it did not see.  What another process has added in between is an   *)
(* error, which ends the part, or the process.                             *)
(*                                                                         *)
(* SQLite and MySQL commit every statement that changes the schema on its  *)
(* own; PostgreSQL commits a part as a whole, and drops it if any          *)
(* statement of it failed, also one whose failure the code ignores.        *)
(***************************************************************************)
EXTENDS Naturals, Sequences

CONSTANTS
    Apis, Schedulers,   \* the processes that start
    Engines,            \* the dialects looked at
    MaxDeaths           \* bound: processes that die in the middle

ASSUME StartupAssumption == MaxDeaths \in Nat

VARIABLES
    engine,    \* engine.dialect.name
    there,     \* what is in the database: tables, columns, indexes, rows
    orphans,   \* there are reports without a user
    token,     \* the API tokens: "plain", "hashed"
    secret,    \* the key the secrets of users are encrypted with: "default", "custom"
    astray,    \* the administrator's row has another address than the one configured
    holder,    \* another user who has that address, his id "before" or "after"; or "none"
    line,      \* by process: the statement it is at, 0 while it is down
    seen,      \* by process: what the part it is in has found
    held,      \* by process: what it has added and not committed (PostgreSQL)
    aborted,   \* by process: a statement of its transaction has failed (PostgreSQL)
    healthy,   \* by process: MARKETDATA_DB_HEALTHY
    skipped,   \* history, by process: an error has ended a part, or the start
    died       \* processes that died of something else

startVars == <<engine, there, orphans, token, secret, astray, holder, line, seen, held,
               aborted, healthy, skipped, died>>
dataVars == <<orphans, token, secret, astray, holder>>

Starters == Apis \union Schedulers

-----------------------------------------------------------------------------
(* What there is to add: pairs of a kind, or the table of a column, and a  *)
(* name, in the order they are added.  One name stands for the run of      *)
(* columns, tables or indexes that begins with it.                         *)

Things(kind, names) == [k \in DOMAIN names |-> <<kind, names[k]>>]

Tables == Things("table", <<"access_logs", "reports", "user_llm_configs", "users">>)

ReportColumns == Things("reports", <<"direction", "rating_5tier">>)

ReportIndexes == Things("index", <<"reports">>)

LoginColumns == Things("users", <<"last_login_ip">>)

LlmColumns == Things("user_llm_configs", <<"wecom_webhook_encrypted">>)

AccountColumns == Things("users", <<"username">>)

TokenColumns == Things("user_tokens", <<"token_hint">>)

\* The tables whose indexes have a function each, in a transaction of its own.
IndexedTables == Things("index", <<"access_logs", "fast_analyses">>)

MarketTables == Things("market", <<"marketdata_stk_factor_pro">>)

FactorColumns == Things("marketdata_stk_factor_pro", <<"fd_amount">>)

Legacy == <<"row", "system_legacy">>
Admin == <<"row", "admin">>
Plans == <<"row", "plans">>

All(s) == {s[k] : k \in DOMAIN s}
UserColumns == All(LoginColumns) \union All(AccountColumns)

\* A table is created with the columns and the indexes its class has now.
Born(x) ==
    {x} \union CASE x[2] = "reports" -> All(ReportColumns) \union All(ReportIndexes)
                 [] x[2] = "users" -> UserColumns
                 [] x[2] = "user_llm_configs" -> All(LlmColumns) \union All(TokenColumns)
                 [] x[2] = "access_logs" -> All(IndexedTables)
                 [] x[2] = "marketdata_stk_factor_pro" -> All(FactorColumns)
                 [] OTHER -> {}

Everything ==
    {Legacy, Admin, Plans} \union UNION {Born(x) : x \in All(Tables) \union All(MarketTables)}

-----------------------------------------------------------------------------
(* The statements of a start, in order, part for part.                     *)

Statements(do, part, things) == [k \in DOMAIN things |-> [do |-> do, part |-> part, on |-> things[k]]]
One(do, part) == Statements(do, part, <<Admin>>)

\* Looks what there is of a kind, then adds what it did not see.
Add(part, things) ==
    <<[do |-> "look", part |-> part, on |-> Head(things)]>> \o Statements("add", part, things)

\* Base.metadata.create_all.
CreateAll(e) == Add("tables", Tables) \o One("commit", "tables")

\* Mutant of ReportPart: the column of the latest release is not in the list.
ColumnForgotten(e) ==
    Add("reports", SubSeq(ReportColumns, 1, 1))
    \o Statements("index", "reports", ReportIndexes) \o One("commit", "reports")

ReportPart(e) ==
    Add("reports", ReportColumns)
    \o Statements("index", "reports", ReportIndexes) \o One("commit", "reports")

\* Only SQLite: the columns of "users" are looked up once, before all of it.
UserPart(e) ==
    IF e # "sqlite" THEN <<>>
    ELSE Add("users", LoginColumns) \o Add("users", LlmColumns)
         \o Statements("add", "users", AccountColumns)

TokenPart(e) ==
    (IF e = "sqlite" THEN Add("tokens", TokenColumns) ELSE <<>>) \o One("hash", "tokens")

KeyPart(e) == One("reencrypt", "keys")

LegacyPart(e) == Add("legacy", <<Legacy>>) \o One("attach", "legacy")

\* Those of the access log and of the jobs are for SQLite only.
IndexParts(e) ==
    LET tables == IF e = "sqlite" THEN IndexedTables ELSE Tail(IndexedTables)
    IN  Statements("index", "indexes", tables)

MarketPart(e) ==
    Add("market", MarketTables) \o One("commit", "market")
    \o (IF e = "sqlite" THEN <<>> ELSE Add("factor", FactorColumns) \o One("commit", "factor"))
    \o One("healthy", "market")

AdminPart(e) == <<[do |-> "look", part |-> "admin", on |-> Admin]>> \o One("admin", "admin")

PlanPart(e) == Add("plans", <<Plans>>)

InitDb ==
    [e \in Engines |->
        CreateAll(e) \o ReportPart(e) \o UserPart(e) \o TokenPart(e) \o KeyPart(e)
        \o LegacyPart(e) \o IndexParts(e) \o MarketPart(e)]

\* The API goes on with ensure_default_admin and ensure_default_plans.
Lifespan == [e \in Engines |-> InitDb[e] \o AdminPart(e) \o PlanPart(e)]

Script(p) == IF p \in Apis THEN Lifespan[engine] ELSE InitDb[engine]
Down(p) == line[p] = 0
Serves(p) == line[p] > Len(Script(p))
Statement(p) == Script(p)[line[p]]
At(p, do) == ~Down(p) /\ ~Serves(p) /\ Statement(p).do = do

\* Every query of a user names all columns of the class.
UsersReadable == UserColumns \subseteq there

-----------------------------------------------------------------------------
(* What is in the database before: nothing, or what a release has left.    *)

Release(r) ==
    IF r = 0 THEN {}
    ELSE Everything \ (CASE r = 1 -> UserColumns \union All(LlmColumns) \union All(ReportColumns)
                                     \union All(ReportIndexes) \union All(TokenColumns)
                                     \union All(IndexedTables) \union All(MarketTables)
                                     \union All(FactorColumns) \union {Legacy, Admin, Plans}
                         [] r = 2 -> {ReportColumns[2], AccountColumns[1]}
                                     \union All(FactorColumns)
                         [] r = 3 -> {})

StartInit ==
    /\ engine \in Engines
    /\ \E r \in 0..3 :
          /\ there = Release(r)
          /\ orphans = (r = 1)
          /\ token = IF r = 1 THEN "plain" ELSE "hashed"
          /\ secret = IF r \in {1, 2} THEN "default" ELSE "custom"
          /\ astray \in BOOLEAN /\ holder \in {"none", "before", "after"}
          /\ astray => r = 3
          /\ holder # "none" => astray \/ (r = 1 /\ holder = "before")
    /\ line = [p \in Starters |-> 0] /\ seen = [p \in Starters |-> {}]
    /\ held = [p \in Starters |-> {}] /\ aborted = [p \in Starters |-> FALSE]
    /\ healthy = [p \in Starters |-> FALSE] /\ skipped = [p \in Starters |-> FALSE]
    /\ died = 0

-----------------------------------------------------------------------------
(* Going on, and failing.                                                  *)

\* Nothing to do: what there is to add has been seen, or is committed already.
Idle(s, found) ==
    \/ s.do = "add" /\ s.on \in found
    \/ s.do = "commit" /\ engine # "postgresql"

\* On to the next statement with something to do, from k on; a part begins with nothing seen.
MoveOn(p, k, found) ==
    LET script == Script(p)
        left == IF k \in DOMAIN script /\ script[k].part = Statement(p).part THEN found ELSE {}
        done(n) == n \in DOMAIN script /\ Idle(script[n], left)
    IN  /\ line' = [line EXCEPT ![p] =
                        CHOOSE n \in k..(Len(script) + 1) : ~done(n) /\ \A m \in k..(n - 1) : done(m)]
        /\ seen' = [seen EXCEPT ![p] = left]

Through(p) == MoveOn(p, line[p] + 1, seen[p])

AfterPart(script, part) ==
    CHOOSE k \in 2..(Len(script) + 1) :
        script[k - 1].part = part /\ \A m \in k..Len(script) : script[m].part # part

\* What another process has begun to change it waits for (PostgreSQL).
Waits(p) == \E q \in Starters \ {p} : held[q] # {} /\ Statement(q).part = Statement(p).part

\* An exception: the part is rolled back and left, or the process does not start.
Fails(p) ==
    LET part == Statement(p).part IN
    /\ held' = [held EXCEPT ![p] = {}] /\ aborted' = [aborted EXCEPT ![p] = FALSE]
    /\ skipped' = [skipped EXCEPT ![p] = TRUE]
    /\ IF part \in {"tables", "admin", "plans"}
       THEN line' = [line EXCEPT ![p] = 0] /\ seen' = [seen EXCEPT ![p] = {}]
       ELSE MoveOn(p, AfterPart(Script(p), part), {})

Starts(p) ==
    /\ Down(p)
    /\ line' = [line EXCEPT ![p] = 1]
    /\ healthy' = [healthy EXCEPT ![p] = FALSE] /\ skipped' = [skipped EXCEPT ![p] = FALSE]
    /\ UNCHANGED <<engine, there, dataVars, seen, held, aborted, died>>

\* The user found by the name of the administrator, or by his address.
Occupied == <<"row", "address">>

Look(p) ==
    LET kind == Statement(p).on[1]
        rows == there \union (IF holder # "none" THEN {Occupied} ELSE {})
        found == {x \in seen[p] : x[1] # kind} \union {x \in rows : x[1] = kind}
    IN  /\ At(p, "look")
        /\ IF Statement(p).part \in {"legacy", "admin"} /\ ~UsersReadable
           THEN Fails(p)
           ELSE MoveOn(p, line[p] + 1, found) /\ UNCHANGED <<held, aborted, skipped>>
        /\ UNCHANGED <<engine, there, dataVars, healthy, died>>

\* Columns and tables wait for the commit on PostgreSQL; rows are committed as they are added.
Adds(p) ==
    LET x == Statement(p).on
        waits == engine = "postgresql" /\ x[1] # "row"
    IN  /\ At(p, "add")
        /\ waits => ~Waits(p)
        /\ IF x \in there THEN Fails(p) /\ UNCHANGED there
           ELSE /\ Through(p)
                /\ there' = IF waits THEN there ELSE there \union Born(x)
                /\ held' = [held EXCEPT ![p] = @ \union (IF waits THEN Born(x) ELSE {})]
                /\ UNCHANGED <<aborted, skipped>>
        /\ UNCHANGED <<engine, dataVars, healthy, died>>

\* SQLite is asked "IF NOT EXISTS"; elsewhere the error is passed over.
AddsIndex(p) ==
    LET x == Statement(p).on
        waits == engine = "postgresql" /\ Statement(p).part = "reports"
    IN  /\ At(p, "index")
        /\ waits => ~Waits(p)
        /\ Through(p)
        /\ there' = IF waits THEN there ELSE there \union {x}
        /\ aborted' = [aborted EXCEPT ![p] = @ \/ (waits /\ x \in there)]
        /\ held' = [held EXCEPT ![p] = @ \union (IF waits THEN {x} ELSE {})]
        /\ UNCHANGED <<engine, dataVars, healthy, skipped, died>>

\* The commit of a transaction of which a statement has failed is a rollback, without an error.
Commits(p) ==
    /\ At(p, "commit")
    /\ there' = there \union (IF aborted[p] THEN {} ELSE held[p])
    /\ held' = [held EXCEPT ![p] = {}] /\ aborted' = [aborted EXCEPT ![p] = FALSE]
    /\ Through(p)
    /\ UNCHANGED <<engine, dataVars, healthy, skipped, died>>

\* UPDATE reports SET user_id = the placeholder user's WHERE user_id IS NULL.
Attaches(p) ==
    /\ At(p, "attach")
    /\ orphans' = FALSE
    /\ Through(p)
    /\ UNCHANGED <<engine, there, token, secret, astray, holder, held, aborted, healthy, skipped, died>>

Hashes(p) ==
    /\ At(p, "hash")
    /\ IF token = "plain" /\ ~(All(TokenColumns) \subseteq there)
       THEN Fails(p) /\ UNCHANGED token
       ELSE token' = "hashed" /\ Through(p) /\ UNCHANGED <<held, aborted, skipped>>
    /\ UNCHANGED <<engine, there, orphans, secret, astray, holder, healthy, died>>

\* With a TA_APP_SECRET_KEY configured.
Reencrypts(p) ==
    /\ At(p, "reencrypt")
    /\ IF LlmColumns[1] \notin there
       THEN Fails(p) /\ UNCHANGED secret
       ELSE secret' = "custom" /\ Through(p) /\ UNCHANGED <<held, aborted, skipped>>
    /\ UNCHANGED <<engine, there, orphans, token, astray, holder, healthy, died>>

FindsHealthy(p) ==
    /\ At(p, "healthy")
    /\ healthy' = [healthy EXCEPT ![p] = TRUE]
    /\ Through(p)
    /\ UNCHANGED <<engine, there, dataVars, held, aborted, skipped, died>>

\* Found by his name, he is given the address; the updates go out in the order of the ids,
\* that of who has it comes too late if his id is the greater.
MovesAdmin(p) ==
    IF astray /\ holder = "after" THEN Fails(p) /\ UNCHANGED <<there, astray, holder>>
    ELSE /\ astray' = FALSE /\ holder' = IF astray THEN "none" ELSE holder
         /\ Through(p) /\ UNCHANGED <<there, held, aborted, skipped>>

\* Not found by either, he is inserted; found by his address, that user becomes the one.
MakesAdmin(p) ==
    IF Occupied \notin seen[p] /\ Admin \in there
    THEN Fails(p) /\ UNCHANGED <<there, astray, holder>>
    ELSE /\ there' = there \union {Admin} /\ holder' = "none"
         /\ Through(p) /\ UNCHANGED <<astray, held, aborted, skipped>>

EnsuresAdmin(p) ==
    /\ At(p, "admin")
    /\ IF Admin \in seen[p] THEN MovesAdmin(p) ELSE MakesAdmin(p)
    /\ UNCHANGED <<engine, orphans, token, secret, healthy, died>>

Dies(p) ==
    /\ died < MaxDeaths /\ ~Down(p) /\ ~Serves(p)
    /\ died' = died + 1
    /\ line' = [line EXCEPT ![p] = 0] /\ seen' = [seen EXCEPT ![p] = {}]
    /\ held' = [held EXCEPT ![p] = {}] /\ aborted' = [aborted EXCEPT ![p] = FALSE]
    /\ UNCHANGED <<engine, there, dataVars, healthy, skipped>>

StartStep(p) ==
    \/ Look(p) \/ Adds(p) \/ AddsIndex(p) \/ Commits(p) \/ Attaches(p) \/ Hashes(p)
    \/ Reencrypts(p) \/ FindsHealthy(p) \/ EnsuresAdmin(p)

StartNext == \E p \in Starters : Starts(p) \/ StartStep(p) \/ Dies(p)

StartSpec == StartInit /\ [][StartNext]_startVars

-----------------------------------------------------------------------------
(* Properties.                                                             *)

\* The type of every variable.
StartTypeOK ==
    /\ engine \in Engines /\ there \subseteq Everything
    /\ orphans \in BOOLEAN /\ token \in {"plain", "hashed"} /\ secret \in {"default", "custom"}
    /\ astray \in BOOLEAN /\ holder \in {"none", "before", "after"}
    /\ \A p \in Starters : line[p] \in 0..(Len(Script(p)) + 1) /\ seen[p] \subseteq Everything \union {Occupied}
    /\ \A p \in Starters : held[p] \subseteq Everything /\ aborted[p] \in BOOLEAN
    /\ healthy \in [Starters -> BOOLEAN] /\ skipped \in [Starters -> BOOLEAN]
    /\ died \in 0..MaxDeaths

\* What a start does not bring to a database of an older release: columns and indexes that
\* only come with their table, those of the users on MySQL and PostgreSQL and those of the
\* market data on SQLite; and on PostgreSQL the columns of the reports, once the indexes
\* made after them are there.
NotBrought ==
    {x \in Everything :
        \/ engine # "sqlite" /\ x[1] \in {"users", "user_llm_configs", "user_tokens"}
        \/ engine # "sqlite" /\ x = IndexedTables[1]
        \/ engine = "sqlite" /\ x[1] = "marketdata_stk_factor_pro"
        \/ engine = "postgresql" /\ x[1] = "reports" /\ All(ReportIndexes) \subseteq there}

\* Once all that start have come to rest and one serves, the database has everything this
\* release works with, although each process leaves the rest of a part to the others at the
\* first error: whoever was beaten to a column was beaten by one that goes on.  This takes
\* that nobody died half-way, or that one of those that serve has met no error.  For the
\* same reason not all fail, but where users have columns missing that only SQLite gets, or
\* the address of the administrator is another user's whose row comes after his.  And no
\* process takes the local market data for usable before their tables are there.
SchemaWhole ==
    LET up == {p \in Starters : Serves(p)}
        allRest == \A p \in Starters : Down(p) \/ Serves(p)
    IN  /\ (/\ up # {} /\ allRest
            /\ died = 0 \/ \E p \in up : ~skipped[p])
           => /\ Everything \ (NotBrought \union {Legacy, Admin, Plans}) \subseteq there
              /\ UsersReadable => Legacy \in there /\ ~orphans
              /\ All(TokenColumns) \subseteq there => token = "hashed"
              /\ All(LlmColumns) \subseteq there => secret = "custom"
              /\ up \intersect Apis # {} => {Admin, Plans} \subseteq there /\ ~astray
        /\ (allRest /\ died = 0 /\ \E p \in Starters : skipped[p])
           => up # {} \/ ~UsersReadable \/ (astray /\ holder = "after")
        /\ \A p \in Starters : healthy[p] => All(MarketTables) \subseteq there
=============================================================================
